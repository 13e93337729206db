----------------------------- MODULE MCFeedPath -----------------------------
(* Small instance of FeedPath: the data of a frame may fill as many buffers  *)
(* as there are, and two frames are enough for one to be lost, or left       *)
(* behind, after a flush(). Frames of one buffer pass through, frames of two *)
(* fill the codec; a content has frames of one size.                         *)
EXTENDS FeedPath

EvenInit == Init /\ \A f, g \in Frames : size[f] = size[g]
EvenSpec == EvenInit /\ [][Next]_vars /\ Fairness
=============================================================================
