SPECIFICATION Spec
CONSTANTS
    Wrap = 32
    DropThreshold = 1
    Jitter = 1
    Starts <- NearWrap
    MaxFrames = 5
    MaxFlushes = 1
CONSTRAINT StillAsked
PROPERTIES TimesAreExact NoJump
CHECK_DEADLOCK FALSE
