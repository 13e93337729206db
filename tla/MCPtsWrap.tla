----------------------------- MODULE MCPtsWrap -----------------------------
(* PtsWrap as TLC checks it: a range of 32 and streams that start before or *)
(* after a wrap. What follows a frame in hand during flush(), or a leading  *)
(* frame, is not explored: both properties leave it out for good.           *)
EXTENDS PtsWrap

NearWrap == {30, 31, 33}
StillAsked == past \cap {"inFlush", "leading"} = {}
=============================================================================
