------------------------------ MODULE MCAvSync ------------------------------
(* Instances of AvSync. Of the time stamps' difference only its order to the *)
(* three thresholds matters: -2 is behind the audio, -1 is Skip itself, 0 is *)
(* level, 1 is Low itself (and like all up to High), 3 is far ahead.         *)
EXTENDS AvSync

SkipGap == -1
EachGap == {-2, -1, 0, 1, 3}
=============================================================================
