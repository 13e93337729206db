-------------------------- MODULE MCMessageLooper --------------------------
(* Small instance of MessageLooper: two posters (the video and the audio   *)
(* renderer threads, which both post threshold notifications).             *)
EXTENDS MessageLooper

CONSTANTS VideoFeeder, AudioFeeder

MCPosters == {VideoFeeder, AudioFeeder}
=============================================================================
