CONSTANTS
    BufferSize = 2
    LogLimit = 2
    TrimTarget = 1
    MaxPosts = 2
    Huge = {2}
    MaxEntries = 3
    MaxSends = 2
SPECIFICATION FairSpec
INVARIANTS EntriesAccountedFor OldestGoFirst
PROPERTY QuietPageFallsSilent
CHECK_DEADLOCK FALSE
