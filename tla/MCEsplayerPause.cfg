SPECIFICATION Spec
CONSTANTS
    App = App
    NoOne = NoOne
    FailAgain = FALSE
    Server = Server
    Policies <- NoServer
    Contents <- BothStreams
INVARIANT PausedStandsStill
CHECK_DEADLOCK FALSE
