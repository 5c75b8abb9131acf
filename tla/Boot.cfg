SPECIFICATION Spec
CONSTANTS
    NULL = NULL
    NEWLINE <- MCNewline
    Chars <- MCChars
    MaxBytes = 2
    STARTUP_TIMEOUT = 2
    Builds <- MCBuilds
    Products <- MCProducts
    ExtraConfigs <- MCExtraConfigs
    Lengths <- MCLengths
    WORD = 256
INVARIANT FastOnlyWhenReady
INVARIANT BaudIffClockTree
INVARIANT PinsKept
INVARIANT NullOnlyIfEarly
INVARIANT ReadCounts
PROPERTY BootCompletes
