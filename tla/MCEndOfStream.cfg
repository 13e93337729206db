SPECIFICATION FairSpec
CONSTANT MaxFlushes = 1
INVARIANTS OnlyAudioTellsEarly ServerAgrees
PROPERTIES EndIsTold
CHECK_DEADLOCK FALSE
