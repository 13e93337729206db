---------------------------- MODULE MCOmxBuffers ----------------------------
(* Small instance of OmxBuffers: three buffers, so that one can be freed     *)
(* while another is waited for and a third is handed over, and two writers   *)
(* (the feeding looper and the thread that sends the codec configuration).   *)
EXTENDS OmxBuffers

CONSTANTS FeedLooper, ConfigThread

MCWriters == {FeedLooper, ConfigThread}
=============================================================================
