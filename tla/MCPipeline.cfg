SPECIFICATION Spec
CONSTANTS
    MaxFaults = 1
    MaxChanges = 2
    MaxCalls = 4
INVARIANTS
    TypeOK
    LoadedIsConnected
    PictureFlows
    PausedIsPaused
CHECK_DEADLOCK FALSE
