--------------------------- MODULE MCEndOfStream ---------------------------
(* EndOfStream as TLC checks it: two contents, with one flush between.      *)
EXTENDS EndOfStream
=============================================================================
