----------------------------- MODULE MCEsplayer -----------------------------
(* Small instances of Esplayer: the application, at most one policy thread  *)
(* of the media server, and the kinds of content a configuration allows.    *)
EXTENDS Esplayer, FiniteSets

CONSTANT Server

NoServer == {}
OneServer == {Server}
BothStreams == {{"video", "audio"}}
AnyStreams == {{"video", "audio"}, {"video"}, {"audio"}}

(* Bound: behaviours with up to three of the seven disturbances. *)
FewDisturbances == Cardinality(past) <= 3
=============================================================================
