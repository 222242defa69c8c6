CONSTANTS
    ReplyDelay = 30
    MaxSends = 3
SPECIFICATION Spec
INVARIANT EntryKeepsItsState
PROPERTY ComposingKeysAreInert
