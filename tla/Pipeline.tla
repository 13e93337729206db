------------------------------ MODULE Pipeline ------------------------------
(***************************************************************************)
(* How load() makes the OMX components, connects them and brings them to    *)
(* their first states (src/src/esplayer.cpp, component-rpi.cpp,             *)
(* rpiclock.cpp), and how play(), pause() and the callback of a changed     *)
(* video port (1740) then command them.                                     *)
(*                                                                          *)
(* Each of these is a script of steps on a thread of its own: the           *)
(* application's, and the callback thread of the video codec. A step sends  *)
(* commands; a component carries them out in their order, later. Only       *)
(* setState() and waitForPortEnable() wait, for a limited time; disabling a *)
(* port never does. A step that fails ends its script (BREAK_IF_NONZERO),   *)
(* is logged (LOG_IF_NONZERO), or, for the audio tunnel, skips what follows.*)
(* OmxCommands refines a single wait; Esplayer has the mutex, flush(),      *)
(* unload() and content of one stream, which play() cannot start.           *)
(***************************************************************************)
EXTENDS Naturals, Sequences, FiniteSets, SequencesExt

CONSTANTS
    MaxFaults,  (* bound on what fails or is late                          *)
    MaxChanges, (* bound on the changes of the codec's output settings     *)
    MaxCalls    (* bound on the calls of play() and pause()                *)

ASSUME PipelineAssumption == {MaxFaults, MaxChanges, MaxCalls} \subseteq Nat

Threads == {"app", "callback"}
Streams == {"video", "audio"}

(* The components, and the ports that create() finds and disables.         *)
PortsOf ==
    [clock  |-> <<"clock.audio", "clock.video">>,
     vcodec |-> <<"vcodec.in", "vcodec.out">>,
     sched  |-> <<"sched.in", "sched.out", "sched.clock">>,
     vrend  |-> <<"vrend.in">>,
     acodec |-> <<"acodec.in", "acodec.out">>,
     arend  |-> <<"arend.in", "arend.clock">>]
Parts == DOMAIN PortsOf
Ports == UNION {ToSet(PortsOf[c]) : c \in Parts}
Owner(p) == CHOOSE c \in Parts : p \in ToSet(PortsOf[c])

VideoJoin == <<"vcodec.out", "sched.in">>
Joins == [video |-> {<<"clock.video", "sched.clock">>, VideoJoin, <<"sched.out", "vrend.in">>},
          audio |-> {<<"clock.audio", "arend.clock">>, <<"acodec.out", "arend.in">>}]
-----------------------------------------------------------------------------
(* Steps: what is done, with which component, port or pair of ports, and   *)
(* what a failure does.                                                    *)
Make(c) == [op |-> "make", on |-> c, to |-> "none", fails |-> "end"]
Param(c, fails) == [op |-> "param", on |-> c, to |-> "none", fails |-> fails]
SetState(c, s, fails) == [op |-> "set", on |-> c, to |-> s, fails |-> fails]
Enable(p) == [op |-> "port", on |-> p, to |-> "on", fails |-> "end"]
Disable(p) == [op |-> "port", on |-> p, to |-> "off", fails |-> "log"]
Allocate(p) == [op |-> "allocate", on |-> p, to |-> "none", fails |-> "end"]
WaitPort(p) == [op |-> "wait", on |-> p, to |-> "on", fails |-> "end"]
Connect(p, q, fails) == [op |-> "connect", on |-> p, to |-> q, fails |-> fails]
StartTime == [op |-> "startTime", on |-> "clock", to |-> "none", fails |-> "end"]

ClockScript == <<Make("clock"), SetState("clock", "idle", "end")>>

VideoComponents == <<Make("vcodec"), Make("vrend"), Make("sched")>>
AudioComponents == <<Make("acodec"), Make("arend")>>

VideoScript ==
    <<Param("vcodec", "end"), SetState("vcodec", "idle", "end"),
      Enable("vcodec.in"), Allocate("vcodec.in"), WaitPort("vcodec.in"),
      Connect("clock.video", "sched.clock", "end"), SetState("sched", "idle", "end"),
      Connect("vcodec.out", "sched.in", "end"), Connect("sched.out", "vrend.in", "end"),
      SetState("vrend", "idle", "log")>>

(* The codec and the clock already run when the renderer is connected.     *)
AudioScript ==
    <<Param("acodec", "end"), SetState("acodec", "idle", "end"),
      Enable("acodec.in"), Allocate("acodec.in"), WaitPort("acodec.in"),
      SetState("acodec", "executing", "end"), SetState("clock", "executing", "end"),
      Connect("clock.audio", "arend.clock", "end"), Param("acodec", "end"),
      Connect("acodec.out", "arend.in", "skip"),
        WaitPort("arend.in"), SetState("arend", "idle", "end"), WaitPort("acodec.out"),
      SetState("arend", "executing", "end"), Param("arend", "end")>>

LoadScript(content) ==
    ClockScript
    \o (IF "video" \in content THEN VideoComponents \o VideoScript ELSE <<>>)
    \o (IF "audio" \in content THEN AudioComponents \o AudioScript ELSE <<>>)
    \o <<StartTime>>

PlayScript ==
    <<Param("clock", "end"), SetState("vcodec", "executing", "log"),
      SetState("sched", "executing", "log"), SetState("acodec", "executing", "log")>>

(* Mutant: the audio renderer is not paused either.                        *)
ChangeScriptLess(s) ==
    LET order == IF s = "pause" THEN <<"vcodec", "acodec", "sched", "clock">>
                 ELSE <<"vcodec", "vrend", "acodec", "arend", "sched", "clock">>
    IN  [i \in DOMAIN order |-> SetState(order[i], s, "end")]

(* changeComponentsState(); the renderer of the video cannot pause.        *)
ChangeScript(s) ==
    LET order == IF s = "pause" THEN <<"vcodec", "acodec", "arend", "sched", "clock">>
                 ELSE <<"vcodec", "vrend", "acodec", "arend", "sched", "clock">>
    IN  [i \in DOMAIN order |-> SetState(order[i], s, "end")]

(* Mutant: the ports are enabled again, the tunnel is not set up again.    *)
PortChangeScriptPortsOnly(isFirst) ==
    <<Disable("vcodec.out"), Disable("sched.in"), Param("vcodec", "end"),
      Enable("vcodec.out"), Enable("sched.in")>>
    \o (IF isFirst THEN <<SetState("vrend", "executing", "log")>> ELSE <<>>)

(* OMX_CLIENT_EVT_PORT_SETTING_CHANGED: both ports off, the new settings   *)
(* read, the tunnel set up again; the first time, the renderer starts.     *)
PortChangeScript(isFirst) ==
    <<Disable("vcodec.out"), Disable("sched.in"), Param("vcodec", "end"),
      Connect("vcodec.out", "sched.in", "log")>>
    \o (IF isFirst THEN <<SetState("vrend", "executing", "log")>> ELSE <<>>)
-----------------------------------------------------------------------------
VARIABLES
    status,   (* state_; "IDLE" while loading and after a load that failed *)
    content,  (* enable_video_, enable_audio_                              *)
    codecKnown, (* the video codec is H.262 or H.264, not H.265            *)
    call,     (* the script of each thread, or "none"                      *)
    step,     (* its next step                                             *)
    waiting,  (* it is in the wait of a setState()                         *)
    first,    (* is_first_port_setting_change_                             *)
    known,    (* ports in enabled_port_map_                                *)
    enabled,  (* those it has as enabled                                   *)
    handles,  (* components that have a handle                             *)
    state,    (* the state of each component (external)                    *)
    on,       (* ports that are enabled (external)                         *)
    sent,     (* commands each component has not carried out (external)    *)
    tunnels,  (* tunnels set up (external)                                 *)
    settings, (* number of the codec's output settings (external)          *)
    agreed,   (* the settings its tunnel was set up for (external)         *)
    crashed, calls, faults,
    past      (* history: what failed, was late or raced                   *)

threadVars == <<call, step, waiting>>
playerVars == <<status, content, codecKnown, first, calls>>
clientVars == <<known, enabled, handles>>
componentVars == <<state, on, sent>>
tunnelVars == <<tunnels, settings, agreed>>
vars == <<threadVars, playerVars, clientVars, componentVars, tunnelVars, crashed, faults, past>>

Script(t) ==
    CASE call[t] = "none" -> <<>>
      [] call[t] = "load" -> LoadScript(content)
      [] call[t] = "play" -> PlayScript
      [] call[t] = "resume" -> <<Param("clock", "end")>> \o ChangeScript("executing")
      [] call[t] = "pause" -> <<Param("clock", "end")>> \o ChangeScript("pause")
      [] call[t] = "change" -> PortChangeScript(first)

Faults == {"noHandle", "unread", "unsent", "noBuffer", "param", "late", "refused",
           "tunnel", "raced", "staleSkip"}

(* enableVideo and enableAudio of the metadata, and its video codec. A     *)
(* component is Loaded when it is made.                                    *)
Init ==
    /\ status = "IDLE" /\ content \in (SUBSET Streams) \ {{}} /\ codecKnown \in BOOLEAN
    /\ call = [t \in Threads |-> IF t = "app" THEN "load" ELSE "none"]
    /\ step = [t \in Threads |-> 1] /\ waiting = [t \in Threads |-> FALSE]
    /\ first = TRUE /\ known = {} /\ enabled = {} /\ handles = {}
    /\ state = [c \in Parts |-> "loaded"] /\ on = {} /\ sent = [c \in Parts |-> <<>>]
    /\ tunnels = {} /\ settings = 0 /\ agreed = 0
    /\ crashed = FALSE /\ calls = 0 /\ faults = 0 /\ past = {}

(* Thread t is at a step of this kind.                                     *)
At(t, op) ==
    /\ ~crashed /\ ~waiting[t] /\ step[t] <= Len(Script(t))
    /\ Script(t)[step[t]].op = op
Step(t) == Script(t)[step[t]]

Fault(what) == faults < MaxFaults /\ faults' = faults + 1 /\ past' = past \cup {what}
NoFault == UNCHANGED <<faults, past>>

Forward(t, n) == step' = [step EXCEPT ![t] = @ + n] /\ UNCHANGED <<call, playerVars>>

(* What the call leaves when it comes to its end or breaks off: play() is  *)
(* PLAYING in any case.                                                    *)
Leave(t, done) ==
    /\ call' = [call EXCEPT ![t] = "none"] /\ step' = [step EXCEPT ![t] = 1]
    /\ status' = CASE call[t] = "load" /\ done -> "LOADED"
                   [] call[t] \in {"play", "resume"} -> "PLAYING"
                   [] call[t] = "pause" /\ done -> "PAUSED"
                   [] OTHER -> status
    /\ first' = (first /\ ~(call[t] = "change" /\ done))
    /\ UNCHANGED <<content, codecKnown, calls>>

(* Mutant: every failure is only logged.                                   *)
FailLogged(t) == Forward(t, 1)

Fail(t) ==
    CASE Step(t).fails = "end" -> Leave(t, FALSE)
      [] Step(t).fails = "log" -> Forward(t, 1)
      [] Step(t).fails = "skip" -> Forward(t, 4)

Crash ==
    /\ crashed' = TRUE
    /\ UNCHANGED <<threadVars, playerVars, clientVars, componentVars, tunnelVars>>

Command(kind, arg) == [kind |-> kind, arg |-> arg]

(* A command for each of these ports, which are of different components.   *)
Send(kind, ports) ==
    [c \in Parts |-> IF \E p \in ports : Owner(p) = c
                     THEN Append(sent[c], Command(kind, CHOOSE p \in ports : Owner(p) = c))
                     ELSE sent[c]]

Return(t) ==
    /\ ~crashed /\ call[t] # "none" /\ step[t] > Len(Script(t))
    /\ Leave(t, TRUE)
    /\ UNCHANGED <<waiting, clientVars, componentVars, tunnelVars, crashed>> /\ NoFault
-----------------------------------------------------------------------------
(* create(): the component's ports are noted as disabled and told to be,   *)
(* without a wait. A port whose definition cannot be read is passed over,  *)
(* a command that is not accepted is only logged.                          *)
Makes(t) == At(t, "make") /\ (Step(t).on # "vcodec" \/ codecKnown)

MakePart(t) ==
    /\ Makes(t)
    /\ LET c == Step(t).on  ports == PortsOf[c] IN
        /\ handles' = handles \cup {c} /\ on' = on \cup ToSet(ports)
        /\ \E what \in {"none", "unread", "unsent"}, bad \in DOMAIN ports :
             /\ IF what = "none" THEN NoFault ELSE Fault(what)
             /\ known' = known \cup (ToSet(ports) \ (IF what = "unread" THEN {ports[bad]} ELSE {}))
             /\ LET told == IF what = "none" THEN ports ELSE RemoveAt(ports, bad)
                IN  sent' = [sent EXCEPT ![c] = @ \o [i \in DOMAIN told |-> Command("off", told[i])]]
    /\ Forward(t, 1)
    /\ UNCHANGED <<waiting, enabled, state, tunnelVars, crashed>>

(* An H.265 codec is not even asked for, and counts as made.               *)
MakeNothing(t) ==
    /\ At(t, "make") /\ Step(t).on = "vcodec" /\ ~codecKnown
    /\ Forward(t, 1)
    /\ UNCHANGED <<waiting, clientVars, componentVars, tunnelVars, crashed>> /\ NoFault

(* createByName() answers 0 also without a handle, which is used at once.  *)
MakeFails(t) == Makes(t) /\ Fault("noHandle") /\ Crash

(* setParam(), getParam(), setConfig(), reconfigureBuffers(): setVideoFormat() *)
(* does not know the codec that was not made.                              *)
SetParam(t) ==
    /\ At(t, "param")
    /\ \/ Step(t).on \in handles /\ Forward(t, 1) /\ NoFault
       \/ Step(t).on \in handles /\ Fault("param") /\ Fail(t)
       \/ Step(t).on \notin handles /\ Fail(t) /\ NoFault
    /\ UNCHANGED <<waiting, clientVars, componentVars, tunnelVars, crashed>>

(* setState(): nothing to do in the state the component is in by now.      *)
Stale(c) == \E i \in DOMAIN sent[c] : sent[c][i].kind = "state"

SkipSetState(t) ==
    /\ At(t, "set") /\ state[Step(t).on] = Step(t).to
    /\ Forward(t, 1)
    /\ past' = IF Stale(Step(t).on) THEN past \cup {"staleSkip"} ELSE past
    /\ UNCHANGED <<waiting, clientVars, componentVars, tunnelVars, crashed, faults>>

SendSetState(t) ==
    /\ At(t, "set") /\ state[Step(t).on] # Step(t).to
    /\ \/ /\ sent' = [sent EXCEPT ![Step(t).on] = Append(@, Command("state", Step(t).to))]
          /\ waiting' = [waiting EXCEPT ![t] = TRUE]
          /\ NoFault /\ UNCHANGED <<call, step, playerVars>>
       \/ Fault("unsent") /\ Fail(t) /\ UNCHANGED <<sent, waiting>>
    /\ UNCHANGED <<clientVars, state, on, tunnelVars, crashed>>

(* A component leaves Loaded when its enabled ports have their tunnels.    *)
Allowed(c, s) ==
    \/ s \in {"idle", "pause"} /\ state[c] \in {"idle", "pause", "executing"}
    \/ s = "executing" /\ state[c] \in {"idle", "pause"}
    \/ s = "idle" /\ state[c] = "loaded"
Blocked(c) ==
    /\ sent[c] # <<>> /\ Head(sent[c]) = Command("state", "idle") /\ state[c] = "loaded"
    /\ \E p \in on : Owner(p) = c /\ \A j \in tunnels : p \notin ToSet(j)

(* A wait may end before what it waits for has come.                       *)
Late(c) == IF sent[c] = <<>> \/ Blocked(c)
           THEN faults' = faults /\ past' = past \cup {"late"} ELSE Fault("late")

EndWait(t) ==
    /\ ~crashed /\ waiting[t]
    /\ waiting' = [waiting EXCEPT ![t] = FALSE]
    /\ \/ state[Step(t).on] = Step(t).to /\ Forward(t, 1) /\ NoFault
       \/ state[Step(t).on] # Step(t).to /\ Late(Step(t).on) /\ Fail(t)
    /\ UNCHANGED <<clientVars, componentVars, tunnelVars, crashed>>

(* enablePort() without a timeout; allocateBuffer(), which uses the buffer *)
(* it did not get; waitForPortEnable(), which throws for a port not noted. *)
EnablePort(t) ==
    /\ At(t, "port")
    /\ \/ sent' = Send(Step(t).to, {Step(t).on}) /\ Forward(t, 1) /\ NoFault
       \/ Fault("unsent") /\ Fail(t) /\ UNCHANGED sent
    /\ UNCHANGED <<waiting, clientVars, state, on, tunnelVars, crashed>>

AllocateBuffer(t) ==
    /\ At(t, "allocate")
    /\ \/ Forward(t, 1) /\ NoFault /\ UNCHANGED <<waiting, clientVars, componentVars, tunnelVars, crashed>>
       \/ Fault("noBuffer") /\ Crash

WaitForPortEnable(t) ==
    /\ At(t, "wait")
    /\ \/ Step(t).on \notin known /\ Crash /\ NoFault
       \/ /\ Step(t).on \in known
          /\ \/ Step(t).on \in enabled /\ Forward(t, 1) /\ NoFault
             \/ Step(t).on \notin enabled /\ Late(Owner(Step(t).on)) /\ Fail(t)
          /\ UNCHANGED <<waiting, clientVars, componentVars, tunnelVars, crashed>>

(* setupTunnel(): the tunnel, whose failure is forgotten, and two commands. *)
(* A component that is not Loaded refuses a tunnel of an enabled port.     *)
MayTunnel(p, q) == \A x \in {p, q} : x \notin on \/ state[Owner(x)] = "loaded"

SetupTunnel(t) ==
    /\ At(t, "connect")
    /\ LET p == Step(t).on  q == Step(t).to
           set == /\ tunnels' = tunnels \cup {<<p, q>>}
                  /\ agreed' = IF <<p, q>> = VideoJoin THEN settings ELSE agreed
           both == sent' = Send("on", {p, q}) /\ Forward(t, 1)
       IN \/ MayTunnel(p, q) /\ set /\ both /\ NoFault
          \/ MayTunnel(p, q) /\ Fault("tunnel") /\ both /\ UNCHANGED <<tunnels, agreed>>
          \/ /\ ~MayTunnel(p, q) /\ both /\ UNCHANGED <<tunnels, agreed, faults>>
             /\ past' = past \cup {"raced"}
          \/ /\ MayTunnel(p, q) /\ set /\ Fault("unsent") /\ Fail(t)
             /\ \E asked \in {{}, {p}} : sent' = Send("on", asked)
    /\ UNCHANGED <<waiting, clientVars, state, on, settings, crashed>>

(* setWaitingForStartTime(): the clock is stopped and told which streams to  *)
(* wait for; the mask of those streams is data.                             *)
SetStartTime(t) ==
    /\ At(t, "startTime")
    /\ \/ Forward(t, 1) /\ NoFault
       \/ Fault("param") /\ Fail(t)
    /\ UNCHANGED <<waiting, clientVars, componentVars, tunnelVars, crashed>>
-----------------------------------------------------------------------------
(* play() and pause() of the application; the codec meets new settings and *)
(* says so, once its output port is enabled again.                         *)
Start(t, script) == call' = [call EXCEPT ![t] = script] /\ UNCHANGED <<step, waiting>>

Call ==
    /\ ~crashed /\ call["app"] = "none" /\ calls < MaxCalls
    /\ \/ status = "LOADED" /\ content = Streams /\ Start("app", "play")
       \/ status = "PAUSED" /\ Start("app", "resume")
       \/ status = "PLAYING" /\ Start("app", "pause")
    /\ calls' = calls + 1
    /\ UNCHANGED <<status, content, codecKnown, first, clientVars, componentVars, tunnelVars, crashed>> /\ NoFault

PortSettingsChange ==
    /\ ~crashed /\ call["callback"] = "none" /\ settings < MaxChanges
    /\ state["vcodec"] = "executing" /\ "vcodec.out" \in on /\ sent["vcodec"] = <<>>
    /\ settings' = settings + 1 /\ Start("callback", "change")
    /\ UNCHANGED <<playerVars, clientVars, componentVars, tunnels, agreed, crashed>> /\ NoFault

(* Mutant: the event of a port that is not noted is noted.                 *)
CarryOutUnknown(c) ==
    /\ ~crashed /\ sent[c] # <<>> /\ ~Blocked(c)
    /\ LET m == Head(sent[c])
           put(set) == CASE m.kind = "on" -> set \cup {m.arg}
                         [] m.kind = "off" -> set \ {m.arg}
                         [] m.kind = "state" -> set
       IN /\ on' = put(on) /\ enabled' = put(enabled)
          /\ state' = IF m.kind = "state" /\ Allowed(c, m.arg) THEN [state EXCEPT ![c] = m.arg] ELSE state
    /\ sent' = [sent EXCEPT ![c] = Tail(@)]
    /\ UNCHANGED <<threadVars, playerVars, known, handles, tunnelVars, crashed>> /\ NoFault

(* The component carries out its next command, or refuses it; the events   *)
(* of its ports are noted.                                                 *)
CarryOut(c) ==
    /\ ~crashed /\ sent[c] # <<>> /\ ~Blocked(c)
    /\ LET m == Head(sent[c])
           put(set) == CASE m.kind = "on" -> set \cup {m.arg}
                         [] m.kind = "off" -> set \ {m.arg}
                         [] m.kind = "state" -> set
       IN /\ on' = put(on) /\ enabled' = put(enabled) \cap known
          /\ state' = IF m.kind = "state" /\ Allowed(c, m.arg) THEN [state EXCEPT ![c] = m.arg] ELSE state
    /\ sent' = [sent EXCEPT ![c] = Tail(@)]
    /\ UNCHANGED <<threadVars, playerVars, known, handles, tunnelVars, crashed>> /\ NoFault

Refuse(c) ==
    /\ ~crashed /\ sent[c] # <<>> /\ Fault("refused")
    /\ sent' = [sent EXCEPT ![c] = Tail(@)]
    /\ UNCHANGED <<threadVars, playerVars, clientVars, state, on, tunnelVars, crashed>>
-----------------------------------------------------------------------------
Run(t) ==
    \/ MakePart(t) \/ MakeNothing(t) \/ MakeFails(t) \/ SetParam(t) \/ SkipSetState(t) \/ SendSetState(t) \/ EndWait(t)
    \/ EnablePort(t) \/ AllocateBuffer(t) \/ WaitForPortEnable(t) \/ SetupTunnel(t)
    \/ SetStartTime(t) \/ Return(t)

Next ==
    \/ \E t \in Threads : Run(t)
    \/ \E c \in Parts : CarryOut(c) \/ Refuse(c)
    \/ Call \/ PortSettingsChange

Spec == Init /\ [][Next]_vars
-----------------------------------------------------------------------------
(* Every variable keeps its type.                                          *)
TypeOK ==
    /\ status \in {"IDLE", "LOADED", "PLAYING", "PAUSED"} /\ content \subseteq Streams
    /\ call \in [Threads -> {"none", "load", "play", "resume", "pause", "change"}]
    /\ state \in [Parts -> {"loaded", "idle", "executing", "pause"}]
    /\ on \subseteq Ports /\ known \subseteq Ports /\ enabled \subseteq known
    /\ handles \subseteq Parts /\ tunnels \subseteq UNION {Joins[s] : s \in Streams}
    /\ settings \in 0 .. MaxChanges /\ agreed <= settings
    /\ past \subseteq Faults

(* Nothing is under way.                                                   *)
Settled == ~crashed /\ (\A t \in Threads : call[t] = "none") /\ \A c \in Parts : sent[c] = <<>>

Connected(s) == \A j \in Joins[s] : j \in tunnels /\ ToSet(j) \subseteq on

(* A load() that answered success has connected the components of each     *)
(* stream and brought them where play() takes them on, although it waits   *)
(* for few of its commands - except for a tunnel that failed, a video port *)
(* that was not enabled and a renderer that was late, which it overlooks.  *)
LoadedIsConnected ==
    status = "LOADED" /\ Settled =>
      /\ \A s \in content : Connected(s) \/ past \cap {"tunnel", "refused"} # {}
      /\ "video" \in content =>
           /\ codecKnown /\ state["vcodec"] = "idle" /\ state["sched"] = "idle"
           /\ state["vrend"] = "idle" \/ past \cap {"late", "unsent"} # {}
      /\ "audio" \in content => \A c \in {"acodec", "arend", "clock"} : state[c] = "executing"

(* While it plays, what the codecs put out gets to the renderers: after    *)
(* each change of the settings the video's tunnel is set up for the new    *)
(* ones and enabled on both sides, whatever play() and pause() do          *)
(* meanwhile. What breaks it, and nothing repairs: a command that was not  *)
(* accepted or not carried out, settings that could not be read (1754      *)
(* leaves both ports off), a tunnel that failed, and the race of           *)
(* setupTunnel() with the ports it has not waited to be disabled. That all *)
(* components run may fail for a late one too: changeComponentsState()     *)
(* stops there and play() goes on.                                         *)
PictureFlows ==
    status = "PLAYING" /\ Settled /\ past \cap {"param", "refused", "unsent"} = {} =>
      /\ past \cap {"tunnel", "raced"} = {} =>
           Connected("video") /\ Connected("audio") /\ agreed = settings
      /\ "late" \notin past =>
           \A c \in Parts : state[c] = "executing" \/ (c = "vrend" /\ settings = 0)

(* A paused player's components are paused, the video renderer excepted,   *)
(* also after calls that gave up their waits - unless setState() took the  *)
(* state of a component for its last although another was on its way.      *)
PausedIsPaused ==
    status = "PAUSED" /\ Settled =>
      "staleSkip" \in past \/ \A c \in Parts \ {"vrend"} : state[c] = "pause"
=============================================================================
