CONSTANTS
    Tabs = {"tab"}
    Hosts = {"framework"}
    Overridden = {}
    Alerts = {"ttft"}
    Inputs = {61}
    AuditLimit = 1
    MaxEdits = 1
    MaxChanges = 2
    MaxRestarts = 1
SPECIFICATION FairSpec
INVARIANTS TrailIsComplete ToldThenShown
PROPERTIES NothingUndoneUnseen PollingConverges
CHECK_DEADLOCK FALSE
