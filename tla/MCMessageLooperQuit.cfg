SPECIFICATION FairSpec
CONSTANTS
    MaxMsgs = 2
    VideoFeeder = VideoFeeder
    AudioFeeder = AudioFeeder
    Posters <- MCPosters
PROPERTY QuitJoins
CHECK_DEADLOCK FALSE
