SPECIFICATION FairSpec
CONSTANTS
    App = App
    NoOne = NoOne
    FailAgain = FALSE
    Server = Server
    Policies <- OneServer
    Contents <- BothStreams
INVARIANTS
    NullUseNeedsPolicy FlushingHasFlusher
    ReleasedOnceUnloaded HeldWhileLoaded StatusTellsParts
PROPERTIES NoTeardownUnderCommand MutexComesBack
CONSTRAINT FewDisturbances
CHECK_DEADLOCK FALSE
