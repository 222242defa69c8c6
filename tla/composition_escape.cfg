CONSTANTS
    ReplyDelay = 30
    MaxSends = 1
SPECIFICATION Spec
PROPERTY ComposingEscapeNeverCloses
