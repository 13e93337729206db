SPECIFICATION Spec
CONSTANTS
    Skip <- SkipGap
    Low = 1
    High = 2
    Gaps <- EachGap
    BufHigh = 1
    VideoBufs = 2
    MaxEvents = 2
    MaxCommands = 1
INVARIANTS StoppedClientIsRemembered HeldClientIsStopped LowOnlyAfterHigh
