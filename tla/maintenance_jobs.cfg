CONSTANTS
    Resolutions <- MCResolutions
    Windows <- MCWindows
    RollupRetention <- MCRollupRetention
    Horizon = 1
    RawRetention = 4
    Skew = 0
    JobTime = 1
    Value = {1, 2}
    MaxTime = 4
    MaxSamples = 2
SPECIFICATION Spec
INVARIANTS RowsAreExact TiersNested MarksNested
CHECK_DEADLOCK FALSE
