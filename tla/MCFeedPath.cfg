SPECIFICATION EvenSpec
CONSTANTS
    MaxFrames = 2
    N = 2
    MaxParts = 2
    MaxFlushes = 1
INVARIANTS DeadFrameNeedsClear FrameHasMessage LossNeedsClear
PROPERTIES QueuedGetsOut StreamsFrames WholeIfRoom
CHECK_DEADLOCK FALSE
