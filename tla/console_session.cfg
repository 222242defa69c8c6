CONSTANTS
    Tabs = {t1, t2}
    Framed = {t2}
    Users = {owner, nameless}
    Owner = owner
    Nameless = {nameless}
    Task = task
SPECIFICATION FairSpec
INVARIANTS SessionsAreEarned LatestLoginStands LiveSessionRecognised
PROPERTY SignOutReachesTabs
CHECK_DEADLOCK FALSE
