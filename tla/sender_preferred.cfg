CONSTANTS
    Last = 2
    Threshold = 2
    Cooldown = 2
    MaxAttempts = 2
SPECIFICATION Spec
INVARIANT PreferredTestedEachCycle
