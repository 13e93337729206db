------------------------------ MODULE Esplayer ------------------------------
(***************************************************************************)
(* The life of one player: load, play, pause, stepFrame, flush and unload   *)
(* (src/src/esplayer.cpp), as the application's thread calls them, and the  *)
(* unload() that the media server's policy action starts on a thread of its *)
(* own (src/src/mediaresource/requestor.cpp).                               *)
(*                                                                          *)
(* unload_mutex_ is held by unload(), flush() and pause(); load(), play()   *)
(* and stepFrame() run without it. Every operation tests the status before  *)
(* it has the mutex and acts on it later, so each is cut at the places      *)
(* where the other thread can come in between. In a release build NDLASSERT *)
(* is only a log line: the early returns that follow it are what acts.      *)
(***************************************************************************)
EXTENDS Naturals

CONSTANTS
    App,        (* the application's thread                              *)
    Policies,   (* threads on which the media server acts on this player *)
    Contents,   (* the sets of streams the application may load          *)
    NoOne,      (* nobody holds unload_mutex_                            *)
    FailAgain   (* bound: commands may fail more than once               *)

ASSUME EsplayerAssumption ==
    /\ App \notin Policies
    /\ NoOne \notin {App} \cup Policies
    /\ Contents \subseteq (SUBSET {"video", "audio"}) \ {{}}
    /\ FailAgain \in BOOLEAN

Threads == {App} \cup Policies
Statuses == {"IDLE", "LOADED", "PLAYING", "PAUSED", "UNLOADED", "FLUSHING", "STEPPING", "EOS"}
NoStatus == "none"

(* The OMX components: the codecs, the audio renderer, the video scheduler  *)
(* and the clock. The video renderer is left out: pause() does not command  *)
(* it (it "doesn't support PAUSE state"), and what starts it is the video   *)
(* codec's callback; it is made before the scheduler and destroyed after    *)
(* the codec, so it is never the first one missed. Its states are in        *)
(* Pipeline. Rank is the order in which changeComponentsState() visits the  *)
(* components, ExitRank the one in which unload() destroys them.            *)
VideoParts == {"vcodec", "sched"}
AudioParts == {"acodec", "arend"}
Parts == VideoParts \cup AudioParts \cup {"clock"}
Rank == [vcodec |-> 1, acodec |-> 2, arend |-> 3, sched |-> 4, clock |-> 5]
ExitRank == [vcodec |-> 1, sched |-> 2, acodec |-> 3, arend |-> 4, clock |-> 5]

VARIABLES
    status,     (* state_                                                 *)
    loaded,     (* loaded_                                                *)
    lock,       (* who holds unload_mutex_                                *)
    comp,       (* OMX state of each part, "none" when its pointer is null *)
    late,       (* parts told to execute that were not waited for          *)
    overtaken,  (* history: the last pause() found such a part paused      *)
    enabled,    (* enable_audio_, enable_video_                           *)
    running,    (* the loopers are started                                *)
    registered, (* the requestor has the player's policy callback         *)
    acquired,   (* acquiredResource_ is not empty                         *)
    granted,    (* the media server lends this player its resources       *)
    pc,         (* where each thread is                                   *)
    save,       (* save_state of the application's flush() or stepFrame()  *)
    crashed,    (* a null component was dereferenced                      *)
    past        (* history: the disturbances that happened so far         *)

partVars == <<comp, late, overtaken>>
resourceVars == <<registered, acquired, granted>>
vars == <<status, loaded, lock, partVars, enabled, running, resourceVars, pc, save, crashed, past>>

Disturbances ==
    {"policyUnload",    (* a policy thread tore the player down            *)
     "policyRefused",   (* its unload() was refused, the release was not   *)
     "leaked",          (* a reply was unreadable, or a release failed     *)
     "partial",         (* a component command failed part of the way      *)
     "stuck",           (* flush() returned without restoring the status   *)
     "flushedLoaded",   (* flush() ran on a loaded player not yet playing  *)
     "flushedIdle"}     (* flush() ran on a player whose load() had failed *)

Exists(p) == comp[p] # "none"
Quiet == \A t \in Threads : pc[t] = "idle"
-----------------------------------------------------------------------------
(* The map of the statuses reachable from each status.                     *)
Reachable ==
    [IDLE     |-> {"IDLE", "LOADED", "FLUSHING"},
     LOADED   |-> {"PLAYING", "PAUSED", "UNLOADED", "FLUSHING"},
     PLAYING  |-> {"PLAYING", "PAUSED", "UNLOADED", "FLUSHING"},
     PAUSED   |-> {"PLAYING", "PAUSED", "UNLOADED", "FLUSHING", "STEPPING"},
     UNLOADED |-> {"UNLOADED", "FLUSHING"},
     FLUSHING |-> {"PLAYING", "PAUSED", "UNLOADED", "FLUSHING"},
     STEPPING |-> {"PLAYING", "PAUSED", "UNLOADED"},
     EOS      |-> {"UNLOADED", "FLUSHING"}]

(* Mutant: the row of IDLE lets a failed load be played. *)
CanTransitFromIdle(s) == s \in Reachable[status] \/ (status = "IDLE" /\ s = "PLAYING")

CanTransit(s) == s \in Reachable[status]

(* changeComponentsState(s): the parts get the command one by one, and the *)
(* first that fails ends it. k is the rank of the last part that took it;  *)
(* a part found in s is sent nothing. With a timeout, setState() waits for *)
(* each part, which then has done all it was sent before. (What a command  *)
(* that failed or timed out still does afterwards is in OmxCommands.)      *)
Sent(s, k) == {p \in Parts : Exists(p) /\ Rank[p] <= k /\ comp[p] # s}
Changed(s, k) == [p \in Parts |-> IF Exists(p) /\ Rank[p] <= k THEN s ELSE comp[p]]
ChangeAndWait(s, k) == comp' = Changed(s, k) /\ late' = late \ Sent(s, k)
(* A command to the parts or to the clock fails. *)
Fails ==
    /\ FailAgain \/ "partial" \notin past
    /\ past' = past \cup {"partial"}

AllChanged(k) == \A p \in Parts : Exists(p) => Rank[p] <= k

(* The end of a call: t goes back to its caller. A policy thread returns   *)
(* to policyActionHandler(), which releases the resources.                 *)
GoTo(t, place) == pc' = [pc EXCEPT ![t] = place]
Return(t) == GoTo(t, IF t = App THEN "idle" ELSE "release")

(* Reading a null component ends the program. *)
Crash(t) ==
    /\ crashed' = TRUE
    /\ UNCHANGED <<status, loaded, lock, partVars, enabled, running, resourceVars, pc, save, past>>

Alive == ~crashed
At(t, place) == Alive /\ pc[t] = place

Init ==
    /\ status = "IDLE"
    /\ loaded = FALSE
    /\ lock = NoOne
    /\ comp = [p \in Parts |-> "none"]
    /\ late = {} /\ overtaken = FALSE
    /\ enabled = {}
    /\ running = TRUE
    /\ registered = FALSE /\ acquired = FALSE /\ granted = FALSE
    /\ pc = [t \in Threads |-> "idle"]
    /\ save = NoStatus
    /\ crashed = FALSE
    /\ past = {}
-----------------------------------------------------------------------------
(* load(). A player that is loaded_ answers SUCCESS at once; any other that *)
(* may become LOADED is marked loaded_ before anything is acquired or made, *)
(* and nothing takes the mark back when a later step fails.                 *)
LoadBlocked(t) ==
    /\ t = App /\ At(t, "idle")
    /\ \/ loaded /\ GoTo(t, "idle")
       \/ ~loaded /\ ~CanTransit("LOADED") /\ GoTo(t, "idle")
    /\ UNCHANGED <<status, loaded, lock, partVars, enabled, running, resourceVars, save, crashed, past>>

LoadStart(t) ==
    /\ t = App /\ At(t, "idle") /\ ~loaded /\ CanTransit("LOADED")
    /\ loaded' = TRUE /\ registered' = TRUE
    /\ GoTo(t, "loadAcquire")
    /\ UNCHANGED <<status, lock, partVars, enabled, running, acquired, granted, save, crashed, past>>

(* acquireResources(): the media server grants or refuses; a grant whose   *)
(* reply cannot be parsed is reported as a failure and not remembered.     *)
LoadAcquire(t) ==
    /\ At(t, "loadAcquire")
    /\ \E streams \in Contents :
        \/ /\ acquired' = TRUE /\ granted' = TRUE
           /\ enabled' = streams
           /\ GoTo(t, "loadClock")
           /\ UNCHANGED past
        \/ /\ granted' = TRUE /\ past' = past \cup {"leaked"}
           /\ GoTo(t, "idle")
           /\ UNCHANGED <<acquired, enabled>>
        \/ /\ GoTo(t, "idle")
           /\ UNCHANGED <<acquired, granted, enabled, past>>
    /\ UNCHANGED <<status, loaded, lock, partVars, running, registered, save, crashed>>

(* The parts are made and brought to their first state; a command that     *)
(* fails leaves those made so far, in the states they have reached.        *)
LoadFails(t, made) ==
    /\ comp' = [p \in Parts |-> IF p \in made THEN "idle" ELSE comp[p]]
    /\ GoTo(t, "idle")

LoadClock(t) ==
    /\ At(t, "loadClock")
    /\ \/ /\ comp' = [comp EXCEPT !["clock"] = "idle"]
          /\ GoTo(t, "loadVideo")
       \/ \E made \in SUBSET {"clock"} : LoadFails(t, made)
    /\ UNCHANGED <<status, loaded, lock, late, overtaken, enabled, running, resourceVars, save, crashed, past>>

LoadVideo(t) ==
    /\ At(t, "loadVideo")
    /\ \/ /\ comp' = [p \in Parts |-> IF p \in VideoParts /\ "video" \in enabled THEN "idle" ELSE comp[p]]
          /\ GoTo(t, "loadAudio")
       \/ "video" \in enabled /\ \E made \in {{}, {"vcodec"}, VideoParts} : LoadFails(t, made)
    /\ UNCHANGED <<status, loaded, lock, late, overtaken, enabled, running, resourceVars, save, crashed, past>>

(* The steps of the audio: the codec and the renderer are made, then the    *)
(* codec, the clock and the renderer are brought to execute.                *)
AudioSteps(k) ==
    [comp EXCEPT !["acodec"] = IF k >= 3 THEN "exec" ELSE IF k >= 1 THEN "idle" ELSE @,
                 !["arend"] = IF k >= 5 THEN "exec" ELSE IF k >= 2 THEN "idle" ELSE @,
                 !["clock"] = IF k >= 4 THEN "exec" ELSE @]

LoadAudio(t) ==
    /\ At(t, "loadAudio")
    /\ \/ /\ comp' = IF "audio" \in enabled THEN AudioSteps(5) ELSE comp
          /\ GoTo(t, "loadFinish")
       \/ /\ "audio" \in enabled
          /\ \E k \in 0 .. 5 : comp' = AudioSteps(k)
          /\ GoTo(t, "idle")
    /\ UNCHANGED <<status, loaded, lock, late, overtaken, enabled, running, resourceVars, save, crashed, past>>

(* setWaitingForStartTime(), and only then the status. *)
LoadFinish(t) ==
    /\ At(t, "loadFinish")
    /\ \/ /\ status' = "LOADED"
          /\ GoTo(t, "loadReport")
       \/ GoTo(t, "idle") /\ UNCHANGED status
    /\ UNCHANGED <<loaded, lock, partVars, enabled, running, resourceVars, save, crashed, past>>

(* After the status says LOADED, load() still reads the parts' ports.      *)
Enabled(p) ==
    \/ p \in VideoParts /\ "video" \in enabled
    \/ p \in AudioParts /\ "audio" \in enabled

LoadReport(t) ==
    /\ At(t, "loadReport")
    /\ \/ /\ \A p \in Parts : Enabled(p) => Exists(p)
          /\ GoTo(t, "idle")
          /\ UNCHANGED <<status, loaded, lock, partVars, enabled, running, resourceVars, save, crashed, past>>
       \/ (\E p \in Parts : Enabled(p) /\ ~Exists(p)) /\ Crash(t)
-----------------------------------------------------------------------------
(* unload(). The status is tested without the mutex; under it, loaded_ is  *)
(* taken away by exactly one caller, who takes the player down.            *)
(* Mutant: unload(), flush() and pause() do not wait for each other. *)
LockIgnored == TRUE

LockFree == lock = NoOne

UnloadCheck(t) ==
    /\ t = App /\ At(t, "idle")
    /\ \/ CanTransit("UNLOADED") /\ GoTo(t, "unloadLock")
       \/ ~CanTransit("UNLOADED") /\ Return(t)
    /\ UNCHANGED <<status, loaded, lock, partVars, enabled, running, resourceVars, save, crashed, past>>

UnloadLock(t) ==
    /\ At(t, "unloadLock") /\ LockFree
    /\ \/ /\ loaded
          /\ loaded' = FALSE /\ lock' = t
          /\ past' = IF t = App THEN past ELSE past \cup {"policyUnload"}
          /\ GoTo(t, "unloadDestroy")
       \/ /\ ~loaded
          /\ Return(t)
          /\ UNCHANGED <<loaded, lock, past>>
    /\ UNCHANGED <<status, partVars, enabled, running, resourceVars, save, crashed>>

(* The parts are destroyed and their pointers cleared, one after the other. *)
IsFirst(p) == Exists(p) /\ \A q \in Parts : Exists(q) => ExitRank[p] <= ExitRank[q]

FirstToGo(p) == IsFirst(p)

UnloadDestroy(t) ==
    /\ At(t, "unloadDestroy")
    /\ \/ \E p \in Parts :
             /\ FirstToGo(p)
             /\ comp' = [comp EXCEPT ![p] = "none"] /\ late' = late \ {p}
             /\ UNCHANGED pc
       \/ (\A p \in Parts : ~FirstToGo(p)) /\ GoTo(t, "unloadFinish") /\ UNCHANGED <<comp, late>>
    /\ UNCHANGED <<status, loaded, lock, overtaken, enabled, running, resourceVars, save, crashed, past>>

(* Mutant: the resources are left to the requestor's destructor. *)
ReleaseResourceNever == UNCHANGED <<acquired, granted, past>>

(* releaseResource(): what was acquired goes back, and is forgotten only   *)
(* when the media server agrees.                                           *)
ReleaseResource ==
    \/ ~acquired /\ UNCHANGED <<acquired, granted, past>>
    \/ acquired /\ acquired' = FALSE /\ granted' = FALSE /\ UNCHANGED past
    \/ acquired /\ past' = past \cup {"leaked"} /\ UNCHANGED <<acquired, granted>>

UnloadFinish(t) ==
    /\ At(t, "unloadFinish")
    /\ status' = "UNLOADED"
    /\ ReleaseResource
    /\ lock' = NoOne
    /\ Return(t)
    /\ UNCHANGED <<loaded, partVars, enabled, running, registered, save, crashed>>

(* Mutant: the callback only unloads a player that is playing. *)
PolicyUnloadsPlaying == status = "PLAYING"

(* policyActionHandler(): the callback of load() starts unload() on the    *)
(* media server's thread; when it is back, the resources are released      *)
(* once more, whatever unload() answered, and stay in acquiredResource_.   *)
PolicyUnloads == CanTransit("UNLOADED")

PolicyAction(t) ==
    /\ t \in Policies /\ At(t, "idle") /\ registered
    /\ GoTo(t, IF PolicyUnloads THEN "unloadLock" ELSE "release")
    /\ past' = IF CanTransit("UNLOADED") THEN past ELSE past \cup {"policyRefused"}
    /\ UNCHANGED <<status, loaded, lock, partVars, enabled, running, resourceVars, save, crashed>>

PolicyRelease(t) ==
    /\ At(t, "release")
    /\ GoTo(t, "idle")
    /\ \/ granted' = IF acquired THEN FALSE ELSE granted
       \/ UNCHANGED granted
    /\ UNCHANGED <<status, loaded, lock, partVars, enabled, running, registered, acquired, save, crashed, past>>
-----------------------------------------------------------------------------
(* play(): no mutex. After the test the status is read again to choose what *)
(* is started; whatever comes of it, the status becomes PLAYING.            *)
PlayCheck(t) ==
    /\ t = App /\ At(t, "idle")
    /\ \/ CanTransit("PLAYING") /\ GoTo(t, "playRead")
       \/ ~CanTransit("PLAYING") /\ Return(t)
    /\ UNCHANGED <<status, loaded, lock, partVars, enabled, running, resourceVars, save, crashed, past>>

PlayRead(t) ==
    /\ At(t, "playRead")
    /\ \/ status = "LOADED" /\ GoTo(t, "playLoaded")
       \/ status = "PAUSED" /\ GoTo(t, "playPaused")
       \/ status \notin {"LOADED", "PAUSED"} /\ GoTo(t, "playEnd")
    /\ UNCHANGED <<status, loaded, lock, partVars, enabled, running, resourceVars, save, crashed, past>>

(* From LOADED: the clock's rate, then the codecs and the scheduler. The    *)
(* clock, the scheduler and the audio codec are not tested for null, nor is *)
(* the video codec when its content has extra data. Failures are only       *)
(* logged.                                                                  *)
PlayLoaded(t) ==
    /\ At(t, "playLoaded")
    /\ \/ /\ \A p \in {"clock", "sched", "acodec"} : Exists(p)
          /\ \E started \in SUBSET {"vcodec", "sched", "acodec"} :
               /\ comp' = [p \in Parts |-> IF p \in started /\ Exists(p) THEN "exec" ELSE comp[p]]
               /\ late' = late \ started
               /\ IF started = {"vcodec", "sched", "acodec"} THEN UNCHANGED past ELSE Fails
          /\ GoTo(t, "playEnd")
          /\ UNCHANGED <<status, loaded, lock, overtaken, enabled, running, resourceVars, save, crashed>>
       \/ /\ Exists("clock") /\ GoTo(t, "playEnd") /\ Fails
          /\ UNCHANGED <<status, loaded, lock, partVars, enabled, running, resourceVars, save, crashed>>
       \/ (\E p \in {"clock", "vcodec", "sched", "acodec"} : ~Exists(p)) /\ Crash(t)

(* From PAUSED: the clock's rate, then every part. *)
PlayPaused(t) ==
    /\ At(t, "playPaused")
    /\ \/ /\ Exists("clock")
          /\ \E k \in 0 .. 5 :
               /\ ChangeAndWait("exec", k)
               /\ overtaken' = (overtaken /\ ~AllChanged(k))
               /\ GoTo(t, "playEnd")
               /\ IF AllChanged(k) THEN UNCHANGED past ELSE Fails
          /\ UNCHANGED <<status, loaded, lock, enabled, running, resourceVars, save, crashed>>
       \/ ~Exists("clock") /\ Crash(t)

PlayEnd(t) ==
    /\ At(t, "playEnd")
    /\ status' = "PLAYING"
    /\ running' = TRUE
    /\ Return(t)
    /\ UNCHANGED <<loaded, lock, partVars, enabled, resourceVars, save, crashed, past>>
-----------------------------------------------------------------------------
(* pause(). A player not playing yet, or paused, is left as it is. The     *)
(* loopers stop before the mutex is waited for; the clock is read under it *)
(* without a test.                                                         *)
PauseCheck(t) ==
    /\ t = App /\ At(t, "idle")
    /\ \/ ~CanTransit("PAUSED") /\ Return(t)
       \/ CanTransit("PAUSED") /\ status \in {"LOADED", "PAUSED"} /\ Return(t)
       \/ CanTransit("PAUSED") /\ status \notin {"LOADED", "PAUSED"}
          /\ \/ loaded /\ GoTo(t, "pauseStop")
             \/ ~loaded /\ Return(t)
    /\ UNCHANGED <<status, loaded, lock, partVars, enabled, running, resourceVars, save, crashed, past>>

PauseStop(t) ==
    /\ At(t, "pauseStop")
    /\ running' = FALSE
    /\ GoTo(t, "pauseLock")
    /\ UNCHANGED <<status, loaded, lock, partVars, enabled, resourceVars, save, crashed, past>>

PauseLock(t) ==
    /\ At(t, "pauseLock") /\ LockFree
    /\ lock' = t
    /\ GoTo(t, "pauseBody")
    /\ UNCHANGED <<status, loaded, partVars, enabled, running, resourceVars, save, crashed, past>>

PauseBody(t) ==
    /\ At(t, "pauseBody")
    /\ \/ /\ Exists("clock")
          /\ \E k \in 0 .. 5 :
               /\ ChangeAndWait("pause", k)
               /\ overtaken' = (late' # {})
               /\ status' = IF AllChanged(k) THEN "PAUSED" ELSE status
               /\ Return(t)
               /\ IF AllChanged(k) THEN UNCHANGED past ELSE Fails
          /\ lock' = NoOne
          /\ UNCHANGED <<loaded, enabled, running, resourceVars, save, crashed>>
       \/ ~Exists("clock") /\ Crash(t)
-----------------------------------------------------------------------------
(* stepFrame(): no mutex. The status is STEPPING while the clock steps, and *)
(* is then put back.                                                        *)
StepCheck(t) ==
    /\ t = App /\ At(t, "idle")
    /\ \/ CanTransit("STEPPING") /\ GoTo(t, "stepEnter")
       \/ ~CanTransit("STEPPING") /\ Return(t)
    /\ UNCHANGED <<status, loaded, lock, partVars, enabled, running, resourceVars, save, crashed, past>>

StepEnter(t) ==
    /\ At(t, "stepEnter")
    /\ save' = status
    /\ status' = "STEPPING"
    /\ GoTo(t, "stepExit")
    /\ UNCHANGED <<loaded, lock, partVars, enabled, running, resourceVars, crashed, past>>

StepExit(t) ==
    /\ At(t, "stepExit")
    /\ \/ /\ Exists("clock")
          /\ status' = save /\ save' = NoStatus
          /\ Return(t)
          /\ UNCHANGED <<loaded, lock, partVars, enabled, running, resourceVars, crashed, past>>
       \/ ~Exists("clock") /\ Crash(t)
-----------------------------------------------------------------------------
(* flush(). loaded_ is tested before the mutex is asked for, and not again: *)
(* the player may be UNLOADED by the time flush() has it.                   *)
FlushCheck(t) ==
    /\ t = App /\ At(t, "idle")
    /\ \/ CanTransit("FLUSHING") /\ loaded /\ GoTo(t, "flushLock")
       \/ CanTransit("FLUSHING") /\ ~loaded /\ Return(t)
       \/ ~CanTransit("FLUSHING") /\ Return(t)
    /\ UNCHANGED <<status, loaded, lock, partVars, enabled, running, resourceVars, save, crashed, past>>

SavedStatus == status

FlushLock(t) ==
    /\ At(t, "flushLock") /\ LockFree
    /\ lock' = t
    /\ save' = SavedStatus
    /\ status' = "FLUSHING"
    /\ past' = past \cup {d \in {"flushedLoaded", "flushedIdle"} :
                            \/ d = "flushedLoaded" /\ status = "LOADED"
                            \/ d = "flushedIdle" /\ status = "IDLE"}
    /\ GoTo(t, "flushPause")
    /\ UNCHANGED <<loaded, partVars, enabled, running, resourceVars, crashed>>

(* Mutant: the mutex is given back at the end of the function only. *)
EarlyReturnLocked == UNCHANGED lock

(* A part that does not pause makes flush() return at once, past the        *)
(* statement that restores the status; only the mutex is given back, by     *)
(* lock_guard.                                                              *)
EarlyReturn == lock' = NoOne

(* The clock stops, the queues are emptied, the parts pause unless they are *)
(* paused already.                                                          *)
FlushPause(t) ==
    /\ At(t, "flushPause")
    /\ \/ (* the clock does not stop *)
          /\ Exists("clock")
          /\ GoTo(t, "flushEnd")
          /\ UNCHANGED <<partVars, lock, save, past>>
       \/ /\ save = "PAUSED"
          /\ GoTo(t, "flushResume")
          /\ UNCHANGED <<partVars, lock, save, past>>
       \/ /\ save # "PAUSED"
          /\ ChangeAndWait("pause", 5) /\ UNCHANGED overtaken
          /\ GoTo(t, "flushResume")
          /\ UNCHANGED <<lock, save, past>>
       \/ /\ save # "PAUSED"
          /\ \E k \in 0 .. 4 : ~AllChanged(k) /\ ChangeAndWait("pause", k)
          /\ UNCHANGED overtaken
          /\ FailAgain \/ "partial" \notin past
          /\ past' = past \cup {"partial", "stuck"}
          /\ EarlyReturn
          /\ save' = NoStatus
          /\ Return(t)
    /\ UNCHANGED <<status, loaded, enabled, running, resourceVars, crashed>>

(* Mutant: the parts that resume are not told to. *)
ResumedNever(k) == late

(* changeComponentsState(OMX_StateExecuting, 0): each part is sent the      *)
(* command, and with the timeout 0 nobody waits until it is done.           *)
Resumed(k) == late \cup Sent("exec", k)

(* The parts are flushed (its failures are only logged), the clock waits    *)
(* for the next start time, and a player that was playing goes on.          *)
FlushResume(t) ==
    /\ At(t, "flushResume")
    /\ \/ /\ Exists("clock")
          /\ Fails /\ UNCHANGED late
       \/ save # "PLAYING" /\ UNCHANGED <<late, past>>
       \/ /\ save = "PLAYING"
          /\ \E k \in 0 .. 5 :
               /\ late' = Resumed(k)
               /\ IF AllChanged(k) THEN UNCHANGED past ELSE Fails
    /\ GoTo(t, "flushEnd")
    /\ UNCHANGED <<status, loaded, lock, comp, overtaken, enabled, running, resourceVars, save, crashed>>

(* Mutant: the status is not put back. *)
RestoredNever == status

Restored == save

FlushEnd(t) ==
    /\ At(t, "flushEnd")
    /\ status' = Restored /\ save' = NoStatus
    /\ lock' = NoOne
    /\ Return(t)
    /\ UNCHANGED <<loaded, partVars, enabled, running, resourceVars, crashed, past>>
-----------------------------------------------------------------------------
(* A part that was not waited for executes at last, or refuses to.          *)
CarryOut(p) ==
    /\ Alive /\ p \in late
    /\ late' = late \ {p}
    /\ \/ comp' = [comp EXCEPT ![p] = "exec"] /\ UNCHANGED past
       \/ Fails /\ UNCHANGED comp
    /\ UNCHANGED <<status, loaded, lock, overtaken, enabled, running, resourceVars, pc, save, crashed>>
-----------------------------------------------------------------------------
Load(t) ==
    \/ LoadBlocked(t) \/ LoadStart(t) \/ LoadAcquire(t) \/ LoadClock(t)
    \/ LoadVideo(t) \/ LoadAudio(t) \/ LoadFinish(t) \/ LoadReport(t)
Unload(t) ==
    UnloadCheck(t) \/ UnloadLock(t) \/ UnloadDestroy(t) \/ UnloadFinish(t)
Policy(t) == PolicyAction(t) \/ PolicyRelease(t)
Play(t) == PlayCheck(t) \/ PlayRead(t) \/ PlayLoaded(t) \/ PlayPaused(t) \/ PlayEnd(t)
Pause(t) == PauseCheck(t) \/ PauseStop(t) \/ PauseLock(t) \/ PauseBody(t)
Step(t) == StepCheck(t) \/ StepEnter(t) \/ StepExit(t)
Flush(t) == FlushCheck(t) \/ FlushLock(t) \/ FlushPause(t) \/ FlushResume(t) \/ FlushEnd(t)

Call(t) ==
    Load(t) \/ Unload(t) \/ Policy(t) \/ Play(t) \/ Pause(t) \/ Step(t) \/ Flush(t)

Next == (\E t \in Threads : Call(t)) \/ \E p \in Parts : CarryOut(p)

Spec == Init /\ [][Next]_vars

(* A thread inside a call goes on: every wait for a component is bounded by *)
(* a timeout. Nothing obliges anyone to start a call, and a waiter for the  *)
(* mutex is not promised its turn.                                          *)
Continue(t) == pc[t] # "idle" /\ Call(t)
FairSpec == Spec /\ \A t \in Threads : WF_vars(Continue(t))
-----------------------------------------------------------------------------
UnloadBody == {"unloadDestroy", "unloadFinish"}
FlushBody == {"flushPause", "flushResume", "flushEnd"}
LockedPlaces == UnloadBody \cup FlushBody \cup {"pauseBody"}
Places ==
    LockedPlaces \cup
    {"idle", "loadAcquire", "loadClock", "loadVideo", "loadAudio", "loadFinish", "loadReport",
     "unloadLock", "release", "playRead", "playLoaded", "playPaused", "playEnd",
     "pauseStop", "pauseLock", "stepEnter", "stepExit", "flushLock"}

(* Every variable has its type; in particular no operation puts back a      *)
(* status it never saved.                                                   *)
TypeOK ==
    /\ status \in Statuses
    /\ loaded \in BOOLEAN
    /\ lock \in Threads \cup {NoOne}
    /\ comp \in [Parts -> {"none", "idle", "pause", "exec"}]
    /\ late \in SUBSET Parts /\ overtaken \in BOOLEAN
    /\ enabled \in SUBSET {"video", "audio"}
    /\ running \in BOOLEAN
    /\ registered \in BOOLEAN /\ acquired \in BOOLEAN /\ granted \in BOOLEAN
    /\ pc \in [Threads -> Places]
    /\ save \in Statuses \cup {NoStatus}
    /\ crashed \in BOOLEAN
    /\ past \in SUBSET Disturbances

(* A player that is not loaded_ has no component left, unless its unload()  *)
(* is still at work: no interleaving of load() and the policy's unload()    *)
(* leaves a part that no later unload() would destroy. (flush() after a     *)
(* failed load() opens IDLE to unload(), and is the exception.)             *)
UnloadedIsEmpty ==
    (~loaded /\ "flushedIdle" \notin past /\ \A t \in Threads : pc[t] \notin UnloadBody)
        => \A p \in Parts : comp[p] = "none"

CommandedPartsStay ==
    (\E t \in Threads : pc[t] \in FlushBody \cup {"pauseBody"})
        => \A p \in Parts : Exists(p) => comp'[p] # "none"

(* While flush() or pause() commands the components, none of them goes away. *)
NoTeardownUnderCommand == [][CommandedPartsStay]_vars

(* A client that calls from one thread, with content of both kinds, never   *)
(* makes the player use a component it has not got, whatever fails: it takes *)
(* the media server's unload() in the middle of a call.                     *)
NullUseNeedsPolicy == crashed => "policyUnload" \in past

(* The status FLUSHING belongs to a flush() at work, or to one that broke   *)
(* off.                                                                     *)
FlushingHasFlusher ==
    status = "FLUSHING" => (\E t \in Threads : pc[t] \in FlushBody) \/ "stuck" \in past

(* What was lent goes back: once unload() is done and nobody is at work, the *)
(* media server's resources are free, unless a reply or a release failed.   *)
ReleasedOnceUnloaded ==
    (Quiet /\ status = "UNLOADED") => (~granted \/ past \cap {"leaked", "flushedIdle"} # {})

(* And not before: a loaded player at rest has its resources, unless a      *)
(* policy action found it where unload() is refused (or let a retried       *)
(* load() run into unload(), the exception above).                          *)
HeldWhileLoaded ==
    (Quiet /\ loaded /\ status \in {"LOADED", "PLAYING", "PAUSED"})
        => (granted \/ past \cap {"policyRefused", "flushedIdle"} # {})

(* A loaded player at rest whose commands have all succeeded.               *)
Settled == Quiet /\ loaded /\ past \cap {"partial", "flushedLoaded", "flushedIdle"} = {}

(* The status tells what the components do: at rest, a loaded player is     *)
(* PLAYING only with the loopers started and everything executing or told   *)
(* to, and PAUSED only with the loopers stopped, everything paused and      *)
(* nothing on its way elsewhere, whatever sequence of calls led there, as   *)
(* long as every command succeeded. The exception is a pause() that came so *)
(* soon after a flush() that it found a part not yet resumed.               *)
StatusTellsParts ==
    Settled =>
        /\ status = "PLAYING" => running /\ \A p \in Parts : comp[p] = "exec" \/ p \in late
        /\ status = "PAUSED" =>
             ~running /\ (overtaken \/ (late = {} /\ \A p \in Parts : comp[p] = "pause"))

(* pause() sets the components "to pause and wait done": so a player at     *)
(* rest that is PAUSED has none that executes.                              *)
PausedStandsStill ==
    Settled /\ status = "PAUSED" => \A p \in Parts : comp[p] = "pause"

(* Nobody keeps unload_mutex_: each of its holders lets it go, also on the  *)
(* paths that fail.                                                         *)
MutexComesBack == (lock # NoOne) ~> (lock = NoOne \/ crashed)

(* The promise of the metadata: content may lack video or audio.            *)
SingleStreamPlays == crashed => enabled = {"video", "audio"}
=============================================================================
