--------------------------- MODULE MCOmxCommands ---------------------------
(* Small instance of OmxCommands: three callers (the application, the      *)
(* media server, a callback), a codec's two ports and two states.             *)
EXTENDS OmxCommands

CONSTANTS Server, Input, Output, Idle, Executing

ThreeCallers == {Flusher, Server, Callback}
BothPorts == {Input, Output}
TwoStates == {Idle, Executing}
=============================================================================
