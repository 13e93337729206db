---------------------------- MODULE OmxCommands ----------------------------
(***************************************************************************)
(* The commands of one OmxClient (src/src/omx/omxclient.cpp): setState(),   *)
(* enablePort() and flush(), the timed waits for their completion, and      *)
(* eventHandler(), which runs on the component's thread. A callback of      *)
(* another component may command it too (esplayer.cpp:1744, 1782).          *)
(*                                                                          *)
(* The waits test their condition without state_lock_, and the handler      *)
(* signals state_cond_, one for all conditions, without it too: a signal    *)
(* between a test and its wait is lost, and with two waiters it may wake    *)
(* the wrong one. A setState() to the state the component is in, and a      *)
(* flush() while flushing_ is not empty, return at once and change nothing: *)
(* they are no step here.                                                   *)
(***************************************************************************)
EXTENDS Naturals, Sequences

CONSTANTS
    Callers,    (* threads that command the component                    *)
    Flusher,    (* the one that flushes: flush() of Esplayer has a mutex  *)
    Callback,   (* the one that commands from a callback of a component   *)
    Ports,      (* ports of the component                                *)
    States,     (* OMX states of the component                           *)
    FirstState, (* its state at first                                    *)
    NoState,    (* for commands that are not about states                *)
    MaxCalls    (* bound on the calls                                    *)

ASSUME CommandAssumption ==
    /\ {Flusher, Callback} \subseteq Callers /\ Flusher # Callback
    /\ FirstState \in States /\ NoState \notin States
    /\ MaxCalls \in Nat

Commands == [kind : {"state", "on", "off", "flush"}, state : States \cup {NoState}, ports : SUBSET Ports]
StateSet(s) == [kind |-> "state", state |-> s, ports |-> {}]
PortCommand(kind, ps) == [kind |-> kind, state |-> NoState, ports |-> ps]

VARIABLES
    current,  (* current_state_                                          *)
    enabled,  (* ports that enabled_port_map_ has as enabled             *)
    flushing, (* flushing_                                               *)
    state,    (* the component's state (external)                        *)
    sent,     (* commands it has not carried out (external)              *)
    done,     (* completion events not handled yet                       *)
    shared,   (* its events come by the thread that Callback is          *)
    pc,       (* where each caller is                                    *)
    want,     (* the command each caller is about                        *)
    waits,    (* its timeout_seconds is not 0                            *)
    prev,     (* previous_state of its setState()                        *)
    calls,    (* calls so far                                            *)
    refused,  (* history: kinds of commands the component never completed *)
    missed,   (* history: callers whose signal did not wake them         *)
    raced     (* history: two setState() were about to send at once      *)

clientVars == <<current, enabled, flushing>>
componentVars == <<state, sent, done, shared, refused>>
callerVars == <<want, waits, prev, calls>>
vars == <<clientVars, componentVars, pc, callerVars, missed, raced>>

Init ==
    /\ current = FirstState /\ enabled = {} /\ flushing = {}
    /\ state = FirstState /\ sent = <<>> /\ done = <<>> /\ shared \in BOOLEAN
    /\ pc = [t \in Callers |-> "idle"]
    /\ want = [t \in Callers |-> StateSet(FirstState)]
    /\ waits = [t \in Callers |-> FALSE]
    /\ prev = [t \in Callers |-> FirstState]
    /\ calls = 0 /\ refused = {} /\ missed = {} /\ raced = FALSE

GoTo(t, place) == pc' = [pc EXCEPT ![t] = place]

Call(t, command, place) ==
    /\ pc[t] = "idle" /\ calls < MaxCalls
    /\ calls' = calls + 1
    /\ want' = [want EXCEPT ![t] = command]
    /\ waits' \in {[waits EXCEPT ![t] = w] : w \in BOOLEAN}
    /\ missed' = missed \ {t}
    /\ GoTo(t, place)
-----------------------------------------------------------------------------
(* setState(): the new state is noted before the command is sent. *)
SetState(t) == \E s \in States \ {state} :
    /\ Call(t, StateSet(s), "send")
    /\ t = Callback => waits'[t]
    /\ prev' = [prev EXCEPT ![t] = current]
    /\ current' = s
    /\ raced' = (raced \/ \E u \in Callers \ {t} : pc[u] = "send" /\ want[u].kind = "state")
    /\ UNCHANGED <<enabled, flushing, componentVars>>

EnablePort(t) == \E p \in Ports, kind \in {"on", "off"} :
    /\ Call(t, PortCommand(kind, {p}), "send")
    /\ t = Callback => ~waits'[t]
    /\ UNCHANGED <<clientVars, componentVars, prev, raced>>

(* load() waits for the ports that allocateBuffer() enabled without waiting. *)
WaitForPortEnable(t) == \E p \in Ports :
    /\ t # Callback
    /\ Call(t, PortCommand("on", {p}), "test")
    /\ UNCHANGED <<clientVars, componentVars, prev, raced>>

(* flush(): of one port, or, for OMX_ALL, of all that are enabled. *)
ToFlush == {{p} : p \in Ports} \cup {enabled}

Flush(t) == \E ps \in ToFlush :
    /\ t = Flusher /\ flushing = {}
    /\ Call(t, PortCommand("flush", ps), "send")
    /\ flushing' = ps
    /\ UNCHANGED <<current, enabled, componentVars, prev, raced>>

(* OMX_SendCommand(): the component accepts the command, *)
Send(t) ==
    /\ pc[t] = "send"
    /\ sent' = Append(sent, want[t])
    /\ GoTo(t, IF waits[t] THEN "test" ELSE "idle")
    /\ UNCHANGED <<clientVars, state, done, shared, refused, callerVars, missed, raced>>

(* Mutant: a command that is not accepted leaves its note behind. *)
SendFailsNoted(t) ==
    /\ pc[t] = "send"
    /\ GoTo(t, "idle")
    /\ UNCHANGED <<clientVars, componentVars, callerVars, missed, raced>>

(* or it does not, and what was noted is undone. *)
SendFails(t) ==
    /\ pc[t] = "send"
    /\ current' = IF want[t].kind = "state" THEN prev[t] ELSE current
    /\ flushing' = IF want[t].kind = "flush" THEN {} ELSE flushing
    /\ GoTo(t, "idle")
    /\ UNCHANGED <<enabled, componentVars, callerVars, missed, raced>>
-----------------------------------------------------------------------------
(* What waitForState(), waitForPortEnable() and waitForFlushing() wait for. *)
Met(c) ==
    \/ c.kind = "state" /\ state = c.state
    \/ c.kind = "on" /\ c.ports \subseteq enabled
    \/ c.kind = "off" /\ c.ports \cap enabled = {}
    \/ c.kind = "flush" /\ flushing = {}

(* The condition is tested before the wait, and again when it was woken. *)
Test(t) ==
    /\ pc[t] \in {"test", "woken"}
    /\ GoTo(t, IF Met(want[t]) THEN "idle" ELSE "enter")
    /\ UNCHANGED <<clientVars, componentVars, callerVars, missed, raced>>

EnterWait(t) ==
    /\ pc[t] = "enter"
    /\ GoTo(t, "waiting")
    /\ UNCHANGED <<clientVars, componentVars, callerVars, missed, raced>>

(* Mutant: a wait that timed out is begun again. *)
TimeoutAgain(t) ==
    /\ pc[t] = "waiting"
    /\ GoTo(t, "enter")
    /\ UNCHANGED <<clientVars, componentVars, callerVars, missed, raced>>

(* Mutant: a flush that timed out is forgotten. *)
TimeoutForgets(t) ==
    /\ pc[t] = "waiting"
    /\ GoTo(t, "idle")
    /\ flushing' = IF want[t].kind = "flush" THEN {} ELSE flushing
    /\ UNCHANGED <<current, enabled, componentVars, callerVars, missed, raced>>

(* At its deadline the call returns ETIMEDOUT, without another look. *)
Timeout(t) ==
    /\ pc[t] = "waiting"
    /\ GoTo(t, "idle")
    /\ UNCHANGED <<clientVars, componentVars, callerVars, missed, raced>>
-----------------------------------------------------------------------------
(* The component carries out its commands in order. It changes its state,   *)
(* or a port, and says so;                                                  *)
Complete ==
    /\ sent # <<>> /\ Head(sent).kind # "flush"
    /\ state' = IF Head(sent).kind = "state" THEN Head(sent).state ELSE state
    /\ sent' = Tail(sent)
    /\ done' = Append(done, Head(sent))
    /\ UNCHANGED <<clientVars, shared, refused, pc, callerVars, missed, raced>>

(* it flushes one port after the other, and says so of each;                *)
CompleteFlush ==
    /\ sent # <<>> /\ Head(sent).kind = "flush"
    /\ IF Head(sent).ports = {}
       THEN sent' = Tail(sent) /\ UNCHANGED done
       ELSE \E p \in Head(sent).ports :
              /\ sent' = [sent EXCEPT ![1].ports = @ \ {p}]
              /\ done' = Append(done, PortCommand("flush", {p}))
    /\ UNCHANGED <<clientVars, state, shared, refused, pc, callerVars, missed, raced>>

(* or it gives up with an error event, which the handler only logs.         *)
Refuse ==
    /\ sent # <<>>
    /\ sent' = Tail(sent)
    /\ refused' = refused \cup {Head(sent).kind}
    /\ UNCHANGED <<clientVars, state, done, shared, pc, callerVars, missed, raced>>

(* pthread_cond_signal(): one of the threads that wait wakes up. Of the     *)
(* callers whose condition is true by now, the others have missed it.       *)
Signal ==
    LET waiting == {t \in Callers : pc[t] = "waiting"}
        due == {t \in Callers : pc[t] \in {"enter", "waiting"} /\ Met(want[t])'}
    IN  IF waiting = {}
        THEN UNCHANGED pc /\ missed' = missed \cup due
        ELSE \E t \in waiting : GoTo(t, "woken") /\ missed' = missed \cup (due \ {t})

(* Mutant: the end of a flush is told at its first port. *)
ToldEarly(event) == event.kind # "flush" \/ flushing' # {}

(* A flush is told when its last port is done. *)
Told(event) == event.kind # "flush" \/ flushing' = {}

(* eventHandler(), OMX_EventCmdComplete. A thread that delivers the events   *)
(* of all components cannot do so while it commands one from a callback.    *)
HandleEvent ==
    /\ done # <<>>
    /\ shared => pc[Callback] = "idle"
    /\ done' = Tail(done)
    /\ UNCHANGED <<current, state, sent, shared, refused, callerVars, raced>>
    /\ LET event == Head(done) IN
        /\ flushing' = IF event.kind = "flush" THEN flushing \ event.ports ELSE flushing
        /\ enabled' = CASE event.kind = "on" -> enabled \cup event.ports
                        [] event.kind = "off" -> enabled \ event.ports
                        [] OTHER -> enabled
        /\ IF Told(event) THEN Signal ELSE UNCHANGED <<pc, missed>>
-----------------------------------------------------------------------------
GoOn(t) == Send(t) \/ SendFails(t) \/ Test(t) \/ EnterWait(t) \/ Timeout(t)
Begin(t) == SetState(t) \/ EnablePort(t) \/ WaitForPortEnable(t) \/ Flush(t)

Next ==
    \/ \E t \in Callers : Begin(t) \/ GoOn(t)
    \/ Complete \/ CompleteFlush \/ Refuse \/ HandleEvent

Spec == Init /\ [][Next]_vars

(* A call goes on, and its deadline comes; the component answers or gives   *)
(* up, and its events are handled.                                          *)
Fairness ==
    /\ \A t \in Callers : WF_vars(GoOn(t))
    /\ WF_vars(Complete \/ CompleteFlush \/ Refuse) /\ WF_vars(HandleEvent)
FairSpec == Spec /\ Fairness
-----------------------------------------------------------------------------
TypeOK ==
    /\ current \in States /\ enabled \subseteq Ports /\ flushing \subseteq Ports
    /\ state \in States /\ shared \in BOOLEAN /\ sent \in Seq(Commands) /\ done \in Seq(Commands)
    /\ pc \in [Callers -> {"idle", "send", "test", "enter", "waiting", "woken"}]
    /\ want \in [Callers -> Commands] /\ waits \in [Callers -> BOOLEAN]
    /\ prev \in [Callers -> States]
    /\ calls \in 0 .. MaxCalls
    /\ refused \subseteq {"state", "on", "off", "flush"}
    /\ missed \subseteq Callers /\ raced \in BOOLEAN

(* Ports the component still owes a flush, or whose event is not handled.   *)
FlushOwed ==
    (UNION {sent[i].ports : i \in {j \in 1 .. Len(sent) : sent[j].kind = "flush"}}) \cup
    (UNION {done[i].ports : i \in {j \in 1 .. Len(done) : done[j].kind = "flush"}})

(* What flush() answers is true: the list is not empty, so that no wait ends *)
(* well and no other flush begins, while the component owes a port, whatever *)
(* timed out before.                                                         *)
FlushAccounted == FlushOwed \subseteq flushing

(* A wait that ends by its deadline although what it waits for is the case   *)
(* has missed the signal between its test and its wait, or another thread    *)
(* got it; or the signal is yet to come.                                     *)
TimeoutExplained ==
    [][\A t \in Callers :
        (pc[t] = "waiting" /\ pc'[t] = "idle" /\ Met(want[t])) => (t \in missed \/ done # <<>>)]_vars

(* current_state_, by which returned buffers are reported or not, is the     *)
(* component's state when all commands are answered, also those that nobody  *)
(* waited for and that were not accepted; unless the component gave up, or   *)
(* two threads noted their states at once.                                   *)
CurrentIsReal ==
    (sent = <<>> /\ done = <<>> /\ (\A t \in Callers : pc[t] = "idle"))
        => (current = state \/ "state" \in refused \/ raced)

(* Every call returns, whatever the component does, also that of a callback *)
(* whose own thread would have to deliver what it waits for.                *)
CallReturns == \A t \in Callers : (pc[t] # "idle") ~> (pc[t] = "idle")

(* flush() becomes possible again, also after one that timed out; but never  *)
(* after one the component gave up.                                          *)
FlushUsableAgain == (flushing # {}) ~> (flushing = {} \/ "flush" \in refused)
=============================================================================
