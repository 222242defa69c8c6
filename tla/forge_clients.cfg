CONSTANTS
    Callers = {"c1", "c2"}
    RetryAfters <- MCRetryAfters
    Statuses <- MCStatuses
    MaxRetries = 4
    MaxCalls = 2
SPECIFICATION ForgeSpec
INVARIANTS CallersAreToldTheTruth RetriesInBounds
CHECK_DEADLOCK FALSE
