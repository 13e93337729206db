--------------------------- MODULE MessageLooper ---------------------------
(***************************************************************************)
(* One MessageLooper of src/src/message.cpp: a list of messages, the       *)
(* thread that handles them, and the clients that fill the list.           *)
(*                                                                         *)
(* A message is the instant it was made at, which is the run_at_ its       *)
(* constructor stores (every caller passes no delay, so run_at_ is never   *)
(* ahead of the clock and the timed wait of the loop is never entered).    *)
(* The null pointer that asks the thread to leave is the message Quit: the *)
(* code gives it run_at 0.                                                 *)
(*                                                                         *)
(* Esplayer owns loopers of two kinds, and a behaviour is about one:       *)
(*   "renderer"  filled by the one feeder thread of the stream with        *)
(*               append(), emptied by clearAll(), its handler may answer   *)
(*               "buffer full, retry";                                     *)
(*   "notifier"  filled with post() by several threads, its handler always *)
(*               succeeds.                                                 *)
(***************************************************************************)
EXTENDS Integers, Sequences, SequencesExt

CONSTANTS
    MaxMsgs,    (* messages made over the life of the looper (a bound)     *)
    Posters     (* the threads that post to a notifier                     *)

ASSUME LooperAssumption == MaxMsgs \in Nat \ {0}

Quit == 0
NoMsg == -1
Ids == 1 .. MaxMsgs
Kinds == {"renderer", "notifier"}

VARIABLES
    kind,       (* which of the two uses this behaviour is about           *)
    queue,      (* message_queue_                                          *)
    running,    (* running_                                                *)
    pc,         (* where the looper thread is                              *)
    inflight,   (* the local `message` while its handler runs              *)
    made,       (* per poster: a message built and not yet inserted        *)
    nextId,     (* the clock, advanced by each message that is built       *)
    quit,       (* progress of the destructor                              *)
    (* history, read by the properties only *)
    fate,       (* what became of each message                             *)
    repeated,   (* messages whose handler succeeded more than once         *)
    lastTaken,  (* the last message given to its handler                   *)
    disturbed   (* the front was changed by a client during this handler   *)

vars == <<kind, queue, running, pc, inflight, made, nextId, quit,
          fate, repeated, lastTaken, disturbed>>
history == <<fate, repeated, lastTaken, disturbed>>
-----------------------------------------------------------------------------
(* The list walk of post(): after every message that is not younger.       *)
InsertByRunAt(q, m) ==
    LET later == {i \in 1 .. Len(q) : q[i] > m}
        at == IF later = {} THEN Len(q) + 1
              ELSE CHOOSE i \in later : \A j \in later : i <= j
    IN  InsertAt(q, at, m)

(* notify_one on the condition variable the thread waits on, if it does.   *)
WakeFrom(place) == pc' = IF pc = place THEN "check" ELSE pc

Queued == {queue[i] : i \in 1 .. Len(queue)}

Init ==
    /\ kind \in Kinds
    /\ queue = <<>>
    /\ running = TRUE
    /\ pc = "check"
    /\ inflight = NoMsg
    /\ made = [p \in Posters |-> NoMsg]
    /\ nextId = 1
    /\ quit = "no"
    /\ fate = [m \in Ids |-> "none"]
    /\ repeated = {}
    /\ lastTaken = NoMsg
    /\ disturbed = FALSE
-----------------------------------------------------------------------------
(* The looper thread. *)

(* running_ is false: wait for message_state_changed_cond_. *)
ParkStopped ==
    /\ pc = "check" /\ ~running
    /\ pc' = "waitState"
    /\ UNCHANGED <<kind, queue, running, inflight, made, nextId, quit, history>>

(* Nothing to do: wait for message_queue_changed_cond_. *)
ParkEmpty ==
    /\ pc = "check" /\ running /\ queue = <<>>
    /\ pc' = "waitQueue"
    /\ UNCHANGED <<kind, queue, running, inflight, made, nextId, quit, history>>

(* A null message ends the loop. *)
TakeQuit ==
    /\ pc = "check" /\ running /\ queue # <<>> /\ Head(queue) = Quit
    /\ pc' = "exited"
    /\ UNCHANGED <<kind, queue, running, inflight, made, nextId, quit, history>>

(* Copy the front, leave it in the list and call its handler unlocked. *)
TakeFront ==
    /\ pc = "check" /\ running /\ queue # <<>> /\ Head(queue) # Quit
    /\ pc' = "handle"
    /\ inflight' = Head(queue)
    /\ lastTaken' = Head(queue)
    /\ disturbed' = FALSE
    /\ UNCHANGED <<kind, queue, running, made, nextId, quit, fate, repeated>>

(* What the history remembers when `handled` succeeds and `popped` leaves. *)
Settle(handled, popped) ==
    /\ repeated' = IF fate[handled] = "handled"
                   THEN repeated \cup {handled} ELSE repeated
    /\ fate' = [m \in Ids |->
                  IF m = handled
                    THEN IF fate[m] = "cleared" THEN "cleared" ELSE "handled"
                  ELSE IF m = popped /\ fate[m] = "queued" THEN "dropped"
                  ELSE fate[m]]

(* Mutant: the handled message stays in the list. *)
HandleSuccessNoPop ==
    /\ pc = "handle"
    /\ pc' = "check"
    /\ inflight' = NoMsg
    /\ Settle(inflight, NoMsg)
    /\ UNCHANGED <<kind, queue, running, made, nextId, quit, lastTaken, disturbed>>

(* The handler returned SUCCESS: whatever is now in front is popped. *)
HandleSuccess ==
    /\ pc = "handle"
    /\ pc' = "check"
    /\ inflight' = NoMsg
    /\ queue' = IF queue = <<>> THEN queue ELSE Tail(queue)
    /\ Settle(inflight, IF queue = <<>> THEN NoMsg ELSE Head(queue))
    /\ UNCHANGED <<kind, running, made, nextId, quit, lastTaken, disturbed>>

(* Mutant: the message is popped before its handler's result is known. *)
HandleRetryPopped ==
    /\ pc = "handle" /\ kind = "renderer"
    /\ pc' = "check"
    /\ inflight' = NoMsg
    /\ queue' = SelectSeq(queue, LAMBDA m : m # inflight)
    /\ fate' = [fate EXCEPT ![inflight] = IF @ = "cleared" THEN @ ELSE "dropped"]
    /\ UNCHANGED <<kind, running, made, nextId, quit, repeated, lastTaken, disturbed>>

(* Mutant: a message to retry goes behind the others. *)
HandleRetryAtTail ==
    /\ pc = "handle" /\ kind = "renderer"
    /\ pc' = "check"
    /\ inflight' = NoMsg
    /\ queue' = IF queue = <<>> THEN queue ELSE Append(Tail(queue), Head(queue))
    /\ UNCHANGED <<kind, running, made, nextId, quit, history>>

(* The handler found the component full: sleep, then look at the front again. *)
HandleRetry ==
    /\ pc = "handle" /\ kind = "renderer"
    /\ pc' = "check"
    /\ inflight' = NoMsg
    /\ UNCHANGED <<kind, queue, running, made, nextId, quit, history>>
-----------------------------------------------------------------------------
(* The clients. *)

(* make_shared<Message> in the argument of post(): run_at_ is read here ... *)
Make(p) ==
    /\ kind = "notifier" /\ quit = "no"
    /\ made[p] = NoMsg /\ nextId \in Ids
    /\ made' = [made EXCEPT ![p] = nextId]
    /\ nextId' = nextId + 1
    /\ UNCHANGED <<kind, queue, running, pc, inflight, quit, history>>

(* ... and the message is inserted here, under the lock, later. *)
Post(p) ==
    /\ made[p] # NoMsg
    /\ queue' = InsertByRunAt(queue, made[p])
    /\ made' = [made EXCEPT ![p] = NoMsg]
    /\ WakeFrom("waitQueue")
    /\ fate' = [fate EXCEPT ![made[p]] = "queued"]
    /\ disturbed' = (disturbed \/ Head(queue') = made[p])
    /\ UNCHANGED <<kind, running, inflight, nextId, quit, repeated, lastTaken>>

(* Mutant: the notify_one after the insertion is forgotten. *)
AppendMsgNoNotify ==
    /\ kind = "renderer" /\ quit = "no" /\ nextId \in Ids
    /\ queue' = Append(queue, nextId)
    /\ nextId' = nextId + 1
    /\ fate' = [fate EXCEPT ![nextId] = "queued"]
    /\ UNCHANGED <<kind, running, pc, inflight, made, quit, repeated, lastTaken, disturbed>>

(* feedData(): one feeder thread per stream builds and appends a message. *)
AppendMsg ==
    /\ kind = "renderer" /\ quit = "no" /\ nextId \in Ids
    /\ queue' = Append(queue, nextId)
    /\ nextId' = nextId + 1
    /\ WakeFrom("waitQueue")
    /\ fate' = [fate EXCEPT ![nextId] = "queued"]
    /\ UNCHANGED <<kind, running, inflight, made, quit, repeated, lastTaken, disturbed>>

(* clearAll(), called by flush() and unload(). *)
ClearAll ==
    /\ kind = "renderer" /\ quit = "no"
    /\ queue' = <<>>
    /\ fate' = [m \in Ids |-> IF m \in Queued /\ fate[m] = "queued"
                              THEN "cleared" ELSE fate[m]]
    /\ disturbed' = TRUE
    /\ UNCHANGED <<kind, running, pc, inflight, made, nextId, quit, repeated, lastTaken>>

(* play() starts the looper and pause() stops it. *)
SetRunningState(run) ==
    /\ quit = "no"
    /\ running' = run
    /\ WakeFrom("waitState")
    /\ UNCHANGED <<kind, queue, inflight, made, nextId, quit, history>>

(* Mutant: a stopped looper is not started before it is asked to leave. *)
QuitStartStillStopped ==
    /\ quit = "no" /\ \A p \in Posters : made[p] = NoMsg
    /\ quit' = "started"
    /\ UNCHANGED <<kind, queue, running, pc, inflight, made, nextId, history>>

(* ~MessageLooper: postQuit() starts the looper ... *)
QuitStart ==
    /\ quit = "no" /\ \A p \in Posters : made[p] = NoMsg
    /\ quit' = "started"
    /\ running' = TRUE
    /\ WakeFrom("waitState")
    /\ UNCHANGED <<kind, queue, inflight, made, nextId, history>>

(* ... posts the null message, which sorts before every other ... *)
QuitPost ==
    /\ quit = "started"
    /\ quit' = "posted"
    /\ queue' = InsertByRunAt(queue, Quit)
    /\ WakeFrom("waitQueue")
    /\ disturbed' = TRUE
    /\ UNCHANGED <<kind, running, inflight, made, nextId, fate, repeated, lastTaken>>

(* ... and joins the thread, which must have left the loop. *)
Join ==
    /\ quit = "posted" /\ pc = "exited"
    /\ quit' = "joined"
    /\ UNCHANGED <<kind, queue, running, pc, inflight, made, nextId, history>>
-----------------------------------------------------------------------------
(* One turn of the thread. *)
Loop == ParkStopped \/ ParkEmpty \/ TakeQuit \/ TakeFront \/ HandleSuccess \/ HandleRetry

Next ==
    \/ ParkStopped \/ ParkEmpty \/ TakeQuit \/ TakeFront
    \/ HandleSuccess \/ HandleRetry
    \/ \E p \in Posters : Make(p) \/ Post(p)
    \/ AppendMsg \/ ClearAll
    \/ \E run \in BOOLEAN : SetRunningState(run)
    \/ QuitStart \/ QuitPost \/ Join

Spec == Init /\ [][Next]_vars

(* The thread runs and a component that is running returns buffers, so a   *)
(* handler that is tried again and again succeeds in the end; a thread     *)
(* that built a message posts it, and a destructor runs to its join.       *)
Fairness ==
    /\ WF_vars(Loop) /\ SF_vars(HandleSuccess)
    /\ \A p \in Posters : WF_vars(Post(p))
    /\ WF_vars(QuitPost) /\ WF_vars(Join)

FairSpec == Spec /\ Fairness
-----------------------------------------------------------------------------
(* Properties. *)

TypeOK ==
    /\ kind \in Kinds
    /\ queue \in Seq(Ids \cup {Quit})
    /\ running \in BOOLEAN
    /\ pc \in {"check", "waitState", "waitQueue", "handle", "exited"}
    /\ inflight \in Ids \cup {NoMsg}
    /\ made \in [Posters -> Ids \cup {NoMsg}]
    /\ nextId \in 1 .. MaxMsgs + 1
    /\ quit \in {"no", "started", "posted", "joined"}
    /\ fate \in [Ids -> {"none", "queued", "handled", "cleared", "dropped"}]
    /\ repeated \subseteq Ids
    /\ lastTaken \in Ids \cup {NoMsg}
    /\ disturbed \in BOOLEAN

(* The loop pops "later, according to the return result": that is only right *)
(* while the message in its handler is still the one in front. With one       *)
(* feeder, clearAll() and retries this holds until the quit message comes.    *)
InFlightStaysFront ==
    (kind = "renderer" /\ pc = "handle" /\ inflight \in Queued /\ quit # "posted")
        => Head(queue) = inflight

(* Whatever the interleaving of feeder, flush and retries, the frame of a     *)
(* renderer's message is written once: its handler never succeeds twice.      *)
HandledOnce ==
    (kind = "renderer" /\ quit \in {"no", "started"}) => repeated = {}

(* A message leaves the list without having been handled only if a client     *)
(* changed the front while a handler ran: a clearAll() and new messages, or a *)
(* message built earlier and posted later. Retries and stops lose nothing.    *)
LossOnlyByRace ==
    [][\A m \in Ids : (fate'[m] = "dropped" /\ fate[m] # "dropped") => disturbed]_vars

(* A renderer's frames reach the component in the order they were fed, over   *)
(* retries, stops and clearAll().                                             *)
FramesInOrder ==
    [][kind = "renderer" => lastTaken' >= lastTaken]_vars

(* No wakeup is lost: a message of a looper that stays started is taken out   *)
(* of the list, even when the thread was parked before it came.               *)
StartedLooperDrains ==
    \A m \in Ids : (fate[m] = "queued" /\ running)
                      ~> (fate[m] # "queued" \/ ~running \/ quit # "no")

(* The destructor joins, also from a stopped looper, when no handler is       *)
(* running at the moment the quit message is posted.                          *)
CleanQuitJoins ==
    (quit = "posted" /\ pc # "handle" /\ queue # <<>> /\ Head(queue) = Quit) ~> (quit = "joined")

(* What the destructor relies on: the thread gets the quit message and leaves, *)
(* so that join() returns.                                                     *)
QuitJoins == (quit = "posted") ~> (quit = "joined")
=============================================================================
