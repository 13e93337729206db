SPECIFICATION Spec
CONSTANTS
    App = App
    NoOne = NoOne
    FailAgain = FALSE
    Server = Server
    Policies <- NoServer
    Contents <- AnyStreams
INVARIANT SingleStreamPlays
CHECK_DEADLOCK FALSE
