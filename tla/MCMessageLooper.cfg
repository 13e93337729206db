SPECIFICATION FairSpec
CONSTANTS
    MaxMsgs = 4
    VideoFeeder = VideoFeeder
    AudioFeeder = AudioFeeder
    Posters <- MCPosters
INVARIANT HandledOnce
PROPERTIES LossOnlyByRace FramesInOrder StartedLooperDrains CleanQuitJoins
CHECK_DEADLOCK FALSE
