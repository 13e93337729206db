SPECIFICATION FairSpec
CONSTANTS
    Flusher = Flusher
    Callback = Callback
    Server = Server
    Input = Input
    Output = Output
    Idle = Idle
    Executing = Executing
    NoState = NoState
    Callers <- ThreeCallers
    Ports <- BothPorts
    States <- TwoStates
    FirstState = Idle
    MaxCalls = 2
INVARIANTS FlushAccounted CurrentIsReal
PROPERTIES TimeoutExplained CallReturns FlushUsableAgain
CHECK_DEADLOCK FALSE
