--------------------------- MODULE EsplayerProofs ---------------------------
(***************************************************************************)
(* What holds of Esplayer for any number of policy threads and any content: *)
(* the types, who may be where with the mutex, what FLUSHING means, and     *)
(* that a player which is not loaded has no component left.                 *)
(*                                                                          *)
(* These follow from one inductive invariant, Inv. TypeOK alone is not      *)
(* inductive: that the status put back by flush() and stepFrame() is a      *)
(* status depends on where the application's thread is.                     *)
(*                                                                          *)
(* Three more are inductive once Inv holds: ResourceInv (what is lent goes  *)
(* back and not before), TellsInv (the status tells what the components do) *)
(* and NullInv (nobody but the policy's unload() takes a component away     *)
(* from under its user).                                                    *)
(***************************************************************************)
EXTENDS Esplayer, TLAPS

PolicyPlaces == {"idle", "unloadLock", "unloadDestroy", "unloadFinish", "release"}
LoadPlaces == {"loadAcquire", "loadClock", "loadVideo", "loadAudio", "loadFinish"}
NoParts == \A p \in Parts : comp[p] = "none"

(* The policy threads only unload; the application never releases.          *)
WhoIsWhere ==
    /\ pc \in [Threads -> Places]
    /\ \A t \in Policies : pc[t] \in PolicyPlaces
    /\ pc[App] # "release"

(* Exactly the thread that is inside a guarded body holds the mutex.        *)
OwnerHoldsLock == \A t \in Threads : pc[t] \in LockedPlaces <=> lock = t

StatusTyped == status \in Statuses
SaveTyped == save \in Statuses \cup {NoStatus}
SavedWhenNeeded == pc[App] \in FlushBody \cup {"stepExit"} => save \in Statuses
CompTyped == comp \in [Parts -> {"none", "idle", "pause", "exec"}]
PastTyped == past \in SUBSET Disturbances
EnabledTyped == enabled \in SUBSET {"video", "audio"}
LockTyped == lock \in Threads \cup {NoOne}
LateTyped == late \in SUBSET Parts /\ overtaken \in BOOLEAN
FlagsTyped ==
    /\ loaded \in BOOLEAN /\ running \in BOOLEAN
    /\ registered \in BOOLEAN /\ acquired \in BOOLEAN /\ granted \in BOOLEAN
    /\ crashed \in BOOLEAN

(* A FLUSHING that no flush() stands for was left behind by one that broke  *)
(* off; only then can a flush() save it.                                    *)
FlushingExplained ==
    /\ status = "FLUSHING" => pc[App] \in FlushBody \/ "stuck" \in past
    /\ save = "FLUSHING" => "stuck" \in past

(* As long as no flush() has opened IDLE to unload():                      *)
Tidy == "flushedIdle" \notin past

(* nobody unloads an IDLE player,                                           *)
IdleIsCalm ==
    Tidy /\ status = "IDLE" =>
        \A t \in Threads : pc[t] \in LoadPlaces \cup {"idle", "release", "flushLock"}
IdleNotSaved == Tidy => save # "IDLE"

(* load() makes the parts of an IDLE player that is marked loaded_,         *)
LoadsIdle == Tidy /\ pc[App] \in LoadPlaces => status = "IDLE" /\ loaded

(* and an unload() that has destroyed the parts finds none at its end.      *)
EmptyAtEnd == Tidy => \A t \in Threads : pc[t] = "unloadFinish" => NoParts

(* Only a part that is there can be on its way to executing.               *)
LateExist == \A p \in late : Exists(p)

Orderly == IdleIsCalm /\ IdleNotSaved /\ LoadsIdle /\ EmptyAtEnd /\ UnloadedIsEmpty

Typed ==
    /\ StatusTyped /\ SaveTyped /\ SavedWhenNeeded /\ CompTyped /\ PastTyped
    /\ EnabledTyped /\ LockTyped /\ FlagsTyped /\ LateTyped

Inv ==
    WhoIsWhere /\ OwnerHoldsLock /\ Typed /\ FlushingExplained /\ LateExist /\ Orderly
-----------------------------------------------------------------------------
(* load() preserves each part of the invariant. *)
LEMMA LoadKeepsInv ==
    ASSUME Inv, NEW t \in Threads, Load(t)
    PROVE  Inv'
<1> USE EsplayerAssumption
    DEF Load, LoadBlocked, LoadStart, LoadAcquire, LoadClock, LoadVideo, LoadAudio,
        LoadFinish, LoadFails, LoadReport, AudioSteps, Enabled, GoTo, At, Crash, resourceVars, partVars
<1>1. WhoIsWhere'
  BY DEF Inv, WhoIsWhere, Threads, PolicyPlaces, Places, LockedPlaces, UnloadBody, FlushBody
<1>2. OwnerHoldsLock'
  BY DEF Inv, WhoIsWhere, OwnerHoldsLock, LockedPlaces, UnloadBody, FlushBody, LockFree, Threads
<1>3. StatusTyped' /\ SaveTyped'
  BY DEF Inv, WhoIsWhere, PolicyPlaces, Threads, Typed, StatusTyped, SaveTyped, SavedWhenNeeded, Statuses,
     FlushBody
<1>4. SavedWhenNeeded'
  BY DEF Inv, WhoIsWhere, PolicyPlaces, Threads, Typed, StatusTyped, SavedWhenNeeded, FlushBody
<1>5. CompTyped'
  BY DEF Inv, Typed, CompTyped, Changed
<1>6. PastTyped'
  BY DEF Inv, Typed, PastTyped, Disturbances
<1>7. EnabledTyped' /\ LockTyped'
  BY DEF Inv, Typed, EnabledTyped, LockTyped
<1>8. FlagsTyped'
  BY DEF Inv, Typed, FlagsTyped
<1>a. LateTyped'
  BY DEF Inv, Typed, LateTyped, Sent, Resumed
<1>b. LateExist'
  BY DEF Inv, Typed, CompTyped, LateTyped, LateExist, Exists, Sent, Resumed, Changed
<1>9. FlushingExplained'
  <2>0. past \subseteq past'
    OBVIOUS
  <2>1. status' = "FLUSHING" => pc'[App] \in FlushBody \/ "stuck" \in past'
    BY <2>0 DEF Inv, WhoIsWhere, PolicyPlaces, FlushingExplained, FlushBody, Threads
  <2>2. save' = "FLUSHING" => "stuck" \in past'
    BY <2>0 DEF Inv, WhoIsWhere, PolicyPlaces, FlushingExplained, FlushBody, Threads, NoStatus
  <2> QED BY <2>1, <2>2 DEF FlushingExplained
<1>10. Orderly'
  <2>1. Tidy' => Tidy
    BY DEF Tidy
  <2>2. IdleIsCalm'
    BY <2>1 DEF Inv, WhoIsWhere, PolicyPlaces, Threads, Orderly, IdleIsCalm, IdleNotSaved, LoadPlaces,
       CanTransit, Reachable
  <2>3. IdleNotSaved'
    BY <2>1 DEF Inv, WhoIsWhere, PolicyPlaces, Threads, Orderly, IdleIsCalm, IdleNotSaved, LoadPlaces, Tidy,
       NoStatus
  <2>4. LoadsIdle'
    BY <2>1 DEF Inv, WhoIsWhere, PolicyPlaces, Threads, Orderly, IdleIsCalm, LoadsIdle, LoadPlaces,
       CanTransit, Reachable, Typed, StatusTyped, Statuses
  <2>5. EmptyAtEnd'
    BY <2>1 DEF Inv, WhoIsWhere, PolicyPlaces, Threads, Orderly, EmptyAtEnd, IdleIsCalm, LoadsIdle,
       LoadPlaces, NoParts
  <2>6. UnloadedIsEmpty'
    BY <2>1 DEF Inv, WhoIsWhere, PolicyPlaces, Threads, Orderly, UnloadedIsEmpty, UnloadBody,
       EmptyAtEnd, LoadsIdle, LoadPlaces, NoParts, Tidy
  <2> QED BY <2>2, <2>3, <2>4, <2>5, <2>6 DEF Orderly
<1> QED
  BY <1>1, <1>2, <1>3, <1>4, <1>5, <1>6, <1>7, <1>8, <1>9, <1>10, <1>a, <1>b DEF Inv, Typed
-----------------------------------------------------------------------------
(* unload() preserves each part of the invariant. *)
LEMMA UnloadKeepsInv ==
    ASSUME Inv, NEW t \in Threads, Unload(t)
    PROVE  Inv'
<1> USE EsplayerAssumption
    DEF Unload, UnloadCheck, UnloadLock, UnloadDestroy, UnloadFinish, ReleaseResource,
        Return, GoTo, At, resourceVars, partVars
<1>1. WhoIsWhere'
  BY DEF Inv, WhoIsWhere, Threads, PolicyPlaces, Places, LockedPlaces, UnloadBody, FlushBody
<1>2. OwnerHoldsLock'
  BY DEF Inv, WhoIsWhere, OwnerHoldsLock, LockedPlaces, UnloadBody, FlushBody, LockFree, Threads
<1>3. StatusTyped' /\ SaveTyped'
  BY DEF Inv, WhoIsWhere, PolicyPlaces, Threads, Typed, StatusTyped, SaveTyped, SavedWhenNeeded, Statuses,
     FlushBody
<1>4. SavedWhenNeeded'
  BY DEF Inv, WhoIsWhere, PolicyPlaces, Threads, Typed, StatusTyped, SavedWhenNeeded, FlushBody
<1>5. CompTyped'
  BY DEF Inv, Typed, CompTyped, Changed
<1>6. PastTyped'
  BY DEF Inv, Typed, PastTyped, Disturbances
<1>7. EnabledTyped' /\ LockTyped'
  BY DEF Inv, Typed, EnabledTyped, LockTyped
<1>8. FlagsTyped'
  BY DEF Inv, Typed, FlagsTyped
<1>a. LateTyped'
  BY DEF Inv, Typed, LateTyped, Sent, Resumed
<1>b. LateExist'
  BY DEF Inv, Typed, CompTyped, LateTyped, LateExist, Exists, Sent, Resumed, Changed
<1>9. FlushingExplained'
  <2>0. past \subseteq past'
    OBVIOUS
  <2>1. status' = "FLUSHING" => pc'[App] \in FlushBody \/ "stuck" \in past'
    BY <2>0 DEF Inv, WhoIsWhere, PolicyPlaces, FlushingExplained, FlushBody, Threads
  <2>2. save' = "FLUSHING" => "stuck" \in past'
    BY <2>0 DEF Inv, WhoIsWhere, PolicyPlaces, FlushingExplained, FlushBody, Threads, NoStatus
  <2> QED BY <2>1, <2>2 DEF FlushingExplained
<1>10. Orderly'
  <2>1. Tidy' => Tidy
    BY DEF Tidy
  <2>2. IdleIsCalm'
    BY <2>1 DEF Inv, WhoIsWhere, PolicyPlaces, Threads, Orderly, IdleIsCalm, IdleNotSaved, LoadPlaces,
       CanTransit, Reachable
  <2>3. IdleNotSaved'
    BY <2>1 DEF Inv, WhoIsWhere, PolicyPlaces, Threads, Orderly, IdleIsCalm, IdleNotSaved, LoadPlaces, Tidy,
       NoStatus
  <2>4. LoadsIdle'
    BY <2>1 DEF Inv, WhoIsWhere, PolicyPlaces, Threads, Orderly, IdleIsCalm, LoadsIdle, LoadPlaces,
       CanTransit, Reachable, Typed, StatusTyped, Statuses
  <2>a. (\A p \in Parts : ~FirstToGo(p)) => NoParts
    BY DEF FirstToGo, IsFirst, Exists, NoParts, Parts, VideoParts, AudioParts, ExitRank
  <2>5. EmptyAtEnd'
    <3>1. CASE UnloadDestroy(t)
      <4>1. NoParts => NoParts'
        BY <3>1 DEF NoParts, Exists, IsFirst, FirstToGo
      <4>2. pc'[t] = "unloadFinish" => NoParts
        BY <2>a, <3>1 DEF Inv, WhoIsWhere
      <4>3. \A u \in Threads : u # t => pc'[u] = pc[u]
        BY <3>1 DEF Inv, WhoIsWhere
      <4> QED BY <2>1, <4>1, <4>2, <4>3 DEF Inv, Orderly, EmptyAtEnd
    <3>2. CASE ~UnloadDestroy(t)
      <4>1. comp' = comp /\ pc'[t] # "unloadFinish"
        BY <3>2 DEF Inv, WhoIsWhere
      <4>2. \A u \in Threads : u # t => pc'[u] = pc[u]
        BY <3>2 DEF Inv, WhoIsWhere
      <4> QED BY <2>1, <4>1, <4>2 DEF Inv, Orderly, EmptyAtEnd, NoParts
    <3> QED BY <3>1, <3>2
  <2>6. UnloadedIsEmpty'
    BY <2>1, <2>a DEF Inv, WhoIsWhere, PolicyPlaces, Threads, Orderly, UnloadedIsEmpty, UnloadBody,
       EmptyAtEnd, LoadsIdle, LoadPlaces, NoParts, Tidy
  <2> QED BY <2>2, <2>3, <2>4, <2>5, <2>6 DEF Orderly
<1> QED
  BY <1>1, <1>2, <1>3, <1>4, <1>5, <1>6, <1>7, <1>8, <1>9, <1>10, <1>a, <1>b DEF Inv, Typed
-----------------------------------------------------------------------------
(* The policy action preserves each part of the invariant. *)
LEMMA PolicyKeepsInv ==
    ASSUME Inv, NEW t \in Threads, Policy(t)
    PROVE  Inv'
<1> USE EsplayerAssumption
    DEF Policy, PolicyAction, PolicyRelease, GoTo, At, resourceVars, partVars
<1>1. WhoIsWhere'
  BY DEF Inv, WhoIsWhere, Threads, PolicyPlaces, Places, LockedPlaces, UnloadBody, FlushBody
<1>2. OwnerHoldsLock'
  <2>1. pc[t] \notin LockedPlaces /\ pc'[t] \notin LockedPlaces /\ lock' = lock
    BY DEF Inv, WhoIsWhere, LockedPlaces, UnloadBody, FlushBody
  <2>2. \A u \in Threads : u # t => pc'[u] = pc[u]
    BY DEF Inv, WhoIsWhere
  <2> QED BY <2>1, <2>2 DEF Inv, OwnerHoldsLock
<1>3. StatusTyped' /\ SaveTyped'
  BY DEF Inv, WhoIsWhere, PolicyPlaces, Threads, Typed, StatusTyped, SaveTyped, SavedWhenNeeded, Statuses,
     FlushBody
<1>4. SavedWhenNeeded'
  BY DEF Inv, WhoIsWhere, PolicyPlaces, Threads, Typed, StatusTyped, SavedWhenNeeded, FlushBody
<1>5. CompTyped'
  BY DEF Inv, Typed, CompTyped, Changed
<1>6. PastTyped'
  BY DEF Inv, Typed, PastTyped, Disturbances
<1>7. EnabledTyped' /\ LockTyped'
  BY DEF Inv, Typed, EnabledTyped, LockTyped
<1>8. FlagsTyped'
  BY DEF Inv, Typed, FlagsTyped
<1>a. LateTyped'
  BY DEF Inv, Typed, LateTyped, Sent, Resumed
<1>b. LateExist'
  BY DEF Inv, Typed, CompTyped, LateTyped, LateExist, Exists, Sent, Resumed, Changed
<1>9. FlushingExplained'
  <2>0. past \subseteq past'
    OBVIOUS
  <2>1. status' = "FLUSHING" => pc'[App] \in FlushBody \/ "stuck" \in past'
    BY <2>0 DEF Inv, WhoIsWhere, PolicyPlaces, FlushingExplained, FlushBody, Threads
  <2>2. save' = "FLUSHING" => "stuck" \in past'
    BY <2>0 DEF Inv, WhoIsWhere, PolicyPlaces, FlushingExplained, FlushBody, Threads, NoStatus
  <2> QED BY <2>1, <2>2 DEF FlushingExplained
<1>10. Orderly'
  <2>1. Tidy' => Tidy
    BY DEF Tidy
  <2>a. status = "IDLE" => ~PolicyUnloads
    BY DEF PolicyUnloads, CanTransit, Reachable
  <2>2. IdleIsCalm'
    BY <2>1, <2>a DEF Inv, WhoIsWhere, PolicyPlaces, Threads, Orderly, IdleIsCalm, IdleNotSaved, LoadPlaces,
       CanTransit, Reachable
  <2>3. IdleNotSaved'
    BY <2>1 DEF Inv, WhoIsWhere, PolicyPlaces, Threads, Orderly, IdleIsCalm, IdleNotSaved, LoadPlaces, Tidy,
       NoStatus
  <2>4. LoadsIdle'
    BY <2>1 DEF Inv, WhoIsWhere, PolicyPlaces, Threads, Orderly, IdleIsCalm, LoadsIdle, LoadPlaces,
       CanTransit, Reachable, Typed, StatusTyped, Statuses
  <2>5. EmptyAtEnd'
    BY <2>1 DEF Inv, WhoIsWhere, PolicyPlaces, Threads, Orderly, EmptyAtEnd, IdleIsCalm, LoadsIdle,
       LoadPlaces, NoParts
  <2>6. UnloadedIsEmpty'
    BY <2>1 DEF Inv, WhoIsWhere, PolicyPlaces, Threads, Orderly, UnloadedIsEmpty, UnloadBody,
       EmptyAtEnd, LoadsIdle, LoadPlaces, NoParts, Tidy
  <2> QED BY <2>2, <2>3, <2>4, <2>5, <2>6 DEF Orderly
<1> QED
  BY <1>1, <1>2, <1>3, <1>4, <1>5, <1>6, <1>7, <1>8, <1>9, <1>10, <1>a, <1>b DEF Inv, Typed
-----------------------------------------------------------------------------
(* play() preserves each part of the invariant. *)
LEMMA PlayKeepsInv ==
    ASSUME Inv, NEW t \in Threads, Play(t)
    PROVE  Inv'
<1> USE EsplayerAssumption
    DEF Play, PlayCheck, PlayRead, PlayLoaded, PlayPaused, PlayEnd, Return, GoTo, At, Crash,
        ChangeAndWait, Fails, resourceVars, partVars
<1>1. WhoIsWhere'
  BY DEF Inv, WhoIsWhere, Threads, PolicyPlaces, Places, LockedPlaces, UnloadBody, FlushBody
<1>2. OwnerHoldsLock'
  BY DEF Inv, WhoIsWhere, OwnerHoldsLock, LockedPlaces, UnloadBody, FlushBody, LockFree, Threads
<1>3. StatusTyped' /\ SaveTyped'
  BY DEF Inv, WhoIsWhere, PolicyPlaces, Threads, Typed, StatusTyped, SaveTyped, SavedWhenNeeded, Statuses,
     FlushBody
<1>4. SavedWhenNeeded'
  BY DEF Inv, WhoIsWhere, PolicyPlaces, Threads, Typed, StatusTyped, SavedWhenNeeded, FlushBody
<1>5. CompTyped'
  BY DEF Inv, Typed, CompTyped, Changed
<1>6. PastTyped'
  BY DEF Inv, Typed, PastTyped, Disturbances
<1>7. EnabledTyped' /\ LockTyped'
  BY DEF Inv, Typed, EnabledTyped, LockTyped
<1>8. FlagsTyped'
  BY DEF Inv, Typed, FlagsTyped
<1>a. LateTyped'
  BY DEF Inv, Typed, LateTyped, Sent, Resumed
<1>b. LateExist'
  BY DEF Inv, Typed, CompTyped, LateTyped, LateExist, Exists, Sent, Resumed, Changed
<1>9. FlushingExplained'
  <2>0. past \subseteq past'
    OBVIOUS
  <2>1. status' = "FLUSHING" => pc'[App] \in FlushBody \/ "stuck" \in past'
    BY <2>0 DEF Inv, WhoIsWhere, PolicyPlaces, FlushingExplained, FlushBody, Threads
  <2>2. save' = "FLUSHING" => "stuck" \in past'
    BY <2>0 DEF Inv, WhoIsWhere, PolicyPlaces, FlushingExplained, FlushBody, Threads, NoStatus
  <2> QED BY <2>1, <2>2 DEF FlushingExplained
<1>10. Orderly'
  <2>1. Tidy' => Tidy
    BY DEF Tidy
  <2>2. IdleIsCalm'
    BY <2>1 DEF Inv, WhoIsWhere, PolicyPlaces, Threads, Orderly, IdleIsCalm, IdleNotSaved, LoadPlaces,
       CanTransit, Reachable
  <2>3. IdleNotSaved'
    BY <2>1 DEF Inv, WhoIsWhere, PolicyPlaces, Threads, Orderly, IdleIsCalm, IdleNotSaved, LoadPlaces, Tidy,
       NoStatus
  <2>4. LoadsIdle'
    BY <2>1 DEF Inv, WhoIsWhere, PolicyPlaces, Threads, Orderly, IdleIsCalm, LoadsIdle, LoadPlaces,
       CanTransit, Reachable, Typed, StatusTyped, Statuses
  <2>a. NoParts => NoParts'
    BY DEF NoParts, Exists, Changed, Parts, VideoParts, AudioParts
  <2>5. EmptyAtEnd'
    BY <2>1, <2>a DEF Inv, WhoIsWhere, PolicyPlaces, Threads, Orderly, EmptyAtEnd, IdleIsCalm, LoadsIdle,
       LoadPlaces, NoParts
  <2>6. UnloadedIsEmpty'
    BY <2>1, <2>a DEF Inv, WhoIsWhere, PolicyPlaces, Threads, Orderly, UnloadedIsEmpty, UnloadBody,
       EmptyAtEnd, LoadsIdle, LoadPlaces, NoParts, Tidy
  <2> QED BY <2>2, <2>3, <2>4, <2>5, <2>6 DEF Orderly
<1> QED
  BY <1>1, <1>2, <1>3, <1>4, <1>5, <1>6, <1>7, <1>8, <1>9, <1>10, <1>a, <1>b DEF Inv, Typed
-----------------------------------------------------------------------------
(* pause() preserves each part of the invariant. *)
LEMMA PauseKeepsInv ==
    ASSUME Inv, NEW t \in Threads, Pause(t)
    PROVE  Inv'
<1> USE EsplayerAssumption
    DEF Pause, PauseCheck, PauseStop, PauseLock, PauseBody, Return, GoTo, At,
        Crash, ChangeAndWait, Fails, resourceVars, partVars
<1>1. WhoIsWhere'
  BY DEF Inv, WhoIsWhere, Threads, PolicyPlaces, Places, LockedPlaces, UnloadBody, FlushBody
<1>2. OwnerHoldsLock'
  BY DEF Inv, WhoIsWhere, OwnerHoldsLock, LockedPlaces, UnloadBody, FlushBody, LockFree, Threads
<1>3. StatusTyped' /\ SaveTyped'
  BY DEF Inv, WhoIsWhere, PolicyPlaces, Threads, Typed, StatusTyped, SaveTyped, SavedWhenNeeded, Statuses,
     FlushBody
<1>4. SavedWhenNeeded'
  BY DEF Inv, WhoIsWhere, PolicyPlaces, Threads, Typed, StatusTyped, SavedWhenNeeded, FlushBody
<1>5. CompTyped'
  BY DEF Inv, Typed, CompTyped, Changed
<1>6. PastTyped'
  BY DEF Inv, Typed, PastTyped, Disturbances
<1>7. EnabledTyped' /\ LockTyped'
  BY DEF Inv, Typed, EnabledTyped, LockTyped
<1>8. FlagsTyped'
  BY DEF Inv, Typed, FlagsTyped
<1>a. LateTyped'
  BY DEF Inv, Typed, LateTyped, Sent, Resumed
<1>b. LateExist'
  BY DEF Inv, Typed, CompTyped, LateTyped, LateExist, Exists, Sent, Resumed, Changed
<1>9. FlushingExplained'
  <2>0. past \subseteq past'
    OBVIOUS
  <2>1. status' = "FLUSHING" => pc'[App] \in FlushBody \/ "stuck" \in past'
    BY <2>0 DEF Inv, WhoIsWhere, PolicyPlaces, FlushingExplained, FlushBody, Threads
  <2>2. save' = "FLUSHING" => "stuck" \in past'
    BY <2>0 DEF Inv, WhoIsWhere, PolicyPlaces, FlushingExplained, FlushBody, Threads, NoStatus
  <2> QED BY <2>1, <2>2 DEF FlushingExplained
<1>10. Orderly'
  <2>1. Tidy' => Tidy
    BY DEF Tidy
  <2>2. IdleIsCalm'
    BY <2>1 DEF Inv, WhoIsWhere, PolicyPlaces, Threads, Orderly, IdleIsCalm, IdleNotSaved, LoadPlaces,
       CanTransit, Reachable
  <2>3. IdleNotSaved'
    BY <2>1 DEF Inv, WhoIsWhere, PolicyPlaces, Threads, Orderly, IdleIsCalm, IdleNotSaved, LoadPlaces, Tidy,
       NoStatus
  <2>4. LoadsIdle'
    BY <2>1 DEF Inv, WhoIsWhere, PolicyPlaces, Threads, Orderly, IdleIsCalm, LoadsIdle, LoadPlaces,
       CanTransit, Reachable, Typed, StatusTyped, Statuses
  <2>a. NoParts => NoParts'
    BY DEF NoParts, Exists, Changed, Parts, VideoParts, AudioParts
  <2>5. EmptyAtEnd'
    BY <2>1, <2>a DEF Inv, WhoIsWhere, PolicyPlaces, Threads, Orderly, EmptyAtEnd, IdleIsCalm, LoadsIdle,
       LoadPlaces, NoParts
  <2>6. UnloadedIsEmpty'
    BY <2>1, <2>a DEF Inv, WhoIsWhere, PolicyPlaces, Threads, Orderly, UnloadedIsEmpty, UnloadBody,
       EmptyAtEnd, LoadsIdle, LoadPlaces, NoParts, Tidy
  <2> QED BY <2>2, <2>3, <2>4, <2>5, <2>6 DEF Orderly
<1> QED
  BY <1>1, <1>2, <1>3, <1>4, <1>5, <1>6, <1>7, <1>8, <1>9, <1>10, <1>a, <1>b DEF Inv, Typed
-----------------------------------------------------------------------------
(* stepFrame() preserves each part of the invariant. *)
LEMMA StepKeepsInv ==
    ASSUME Inv, NEW t \in Threads, Step(t)
    PROVE  Inv'
<1> USE EsplayerAssumption
    DEF Step, StepCheck, StepEnter, StepExit, Return, GoTo, At, Crash, resourceVars, partVars
<1>1. WhoIsWhere'
  BY DEF Inv, WhoIsWhere, Threads, PolicyPlaces, Places, LockedPlaces, UnloadBody, FlushBody
<1>2. OwnerHoldsLock'
  BY DEF Inv, WhoIsWhere, OwnerHoldsLock, LockedPlaces, UnloadBody, FlushBody, LockFree, Threads
<1>3. StatusTyped' /\ SaveTyped'
  BY DEF Inv, WhoIsWhere, PolicyPlaces, Threads, Typed, StatusTyped, SaveTyped, SavedWhenNeeded, Statuses,
     FlushBody
<1>4. SavedWhenNeeded'
  BY DEF Inv, WhoIsWhere, PolicyPlaces, Threads, Typed, StatusTyped, SavedWhenNeeded, FlushBody
<1>5. CompTyped'
  BY DEF Inv, Typed, CompTyped, Changed
<1>6. PastTyped'
  BY DEF Inv, Typed, PastTyped, Disturbances
<1>7. EnabledTyped' /\ LockTyped'
  BY DEF Inv, Typed, EnabledTyped, LockTyped
<1>8. FlagsTyped'
  BY DEF Inv, Typed, FlagsTyped
<1>a. LateTyped'
  BY DEF Inv, Typed, LateTyped, Sent, Resumed
<1>b. LateExist'
  BY DEF Inv, Typed, CompTyped, LateTyped, LateExist, Exists, Sent, Resumed, Changed
<1>9. FlushingExplained'
  <2>0. past \subseteq past'
    OBVIOUS
  <2>1. status' = "FLUSHING" => pc'[App] \in FlushBody \/ "stuck" \in past'
    BY <2>0 DEF Inv, WhoIsWhere, PolicyPlaces, FlushingExplained, FlushBody, Threads
  <2>2. save' = "FLUSHING" => "stuck" \in past'
    BY <2>0 DEF Inv, WhoIsWhere, PolicyPlaces, FlushingExplained, FlushBody, Threads, NoStatus
  <2> QED BY <2>1, <2>2 DEF FlushingExplained
<1>10. Orderly'
  <2>1. Tidy' => Tidy
    BY DEF Tidy
  <2>2. IdleIsCalm'
    BY <2>1 DEF Inv, WhoIsWhere, PolicyPlaces, Threads, Orderly, IdleIsCalm, IdleNotSaved, LoadPlaces,
       CanTransit, Reachable
  <2>3. IdleNotSaved'
    BY <2>1 DEF Inv, WhoIsWhere, PolicyPlaces, Threads, Orderly, IdleIsCalm, IdleNotSaved, LoadPlaces, Tidy,
       NoStatus
  <2>4. LoadsIdle'
    BY <2>1 DEF Inv, WhoIsWhere, PolicyPlaces, Threads, Orderly, IdleIsCalm, LoadsIdle, LoadPlaces,
       CanTransit, Reachable, Typed, StatusTyped, Statuses
  <2>5. EmptyAtEnd'
    BY <2>1 DEF Inv, WhoIsWhere, PolicyPlaces, Threads, Orderly, EmptyAtEnd, IdleIsCalm, LoadsIdle,
       LoadPlaces, NoParts
  <2>6. UnloadedIsEmpty'
    BY <2>1 DEF Inv, WhoIsWhere, PolicyPlaces, Threads, Orderly, UnloadedIsEmpty, UnloadBody,
       EmptyAtEnd, LoadsIdle, LoadPlaces, NoParts, Tidy
  <2> QED BY <2>2, <2>3, <2>4, <2>5, <2>6 DEF Orderly
<1> QED
  BY <1>1, <1>2, <1>3, <1>4, <1>5, <1>6, <1>7, <1>8, <1>9, <1>10, <1>a, <1>b DEF Inv, Typed
-----------------------------------------------------------------------------
(* flush() preserves each part of the invariant. *)
LEMMA FlushKeepsInv ==
    ASSUME Inv, NEW t \in Threads, Flush(t)
    PROVE  Inv'
<1> USE EsplayerAssumption
    DEF Flush, FlushCheck, FlushLock, FlushPause, FlushResume, FlushEnd, EarlyReturn,
        SavedStatus, Restored, Return, GoTo, At, ChangeAndWait, Fails, resourceVars, partVars
<1>1. WhoIsWhere'
  BY DEF Inv, WhoIsWhere, Threads, PolicyPlaces, Places, LockedPlaces, UnloadBody, FlushBody
<1>2. OwnerHoldsLock'
  BY DEF Inv, WhoIsWhere, OwnerHoldsLock, LockedPlaces, UnloadBody, FlushBody, LockFree, Threads
<1>3. StatusTyped' /\ SaveTyped'
  BY DEF Inv, WhoIsWhere, PolicyPlaces, Threads, Typed, StatusTyped, SaveTyped, SavedWhenNeeded, Statuses,
     FlushBody
<1>4. SavedWhenNeeded'
  BY DEF Inv, WhoIsWhere, PolicyPlaces, Threads, Typed, StatusTyped, SavedWhenNeeded, FlushBody
<1>5. CompTyped'
  BY DEF Inv, Typed, CompTyped, Changed
<1>6. PastTyped'
  <2>1. past' \subseteq past \cup {"partial", "stuck", "flushedLoaded", "flushedIdle"}
    <3>1. CASE FlushPause(t)
      BY <3>1
    <3>2. CASE FlushResume(t)
      BY <3>2
    <3>3. CASE FlushCheck(t) \/ FlushLock(t) \/ FlushEnd(t)
      BY <3>3
    <3> QED BY <3>1, <3>2, <3>3
  <2> QED BY <2>1 DEF Inv, Typed, PastTyped, Disturbances
<1>7. EnabledTyped' /\ LockTyped'
  BY DEF Inv, Typed, EnabledTyped, LockTyped
<1>8. FlagsTyped'
  BY DEF Inv, Typed, FlagsTyped
<1>a. LateTyped'
  BY DEF Inv, Typed, LateTyped, Sent, Resumed
<1>b. LateExist'
  BY DEF Inv, Typed, CompTyped, LateTyped, LateExist, Exists, Sent, Resumed, Changed
<1>9. FlushingExplained'
  <2>0. past \subseteq past'
    OBVIOUS
  <2>1. status' = "FLUSHING" => pc'[App] \in FlushBody \/ "stuck" \in past'
    BY <2>0 DEF Inv, WhoIsWhere, PolicyPlaces, FlushingExplained, FlushBody, Threads
  <2>2. save' = "FLUSHING" => "stuck" \in past'
    BY <2>0 DEF Inv, WhoIsWhere, PolicyPlaces, FlushingExplained, FlushBody, Threads, NoStatus
  <2> QED BY <2>1, <2>2 DEF FlushingExplained
<1>10. Orderly'
  <2>1. Tidy' => Tidy
    BY DEF Tidy
  <2>2. IdleIsCalm'
    BY <2>1 DEF Inv, WhoIsWhere, PolicyPlaces, Threads, Orderly, IdleIsCalm, IdleNotSaved, LoadPlaces,
       CanTransit, Reachable
  <2>3. IdleNotSaved'
    BY <2>1 DEF Inv, WhoIsWhere, PolicyPlaces, Threads, Orderly, IdleIsCalm, IdleNotSaved, LoadPlaces, Tidy,
       NoStatus
  <2>4. LoadsIdle'
    BY <2>1 DEF Inv, WhoIsWhere, PolicyPlaces, Threads, Orderly, IdleIsCalm, LoadsIdle, LoadPlaces,
       CanTransit, Reachable, Typed, StatusTyped, Statuses
  <2>a. NoParts => NoParts'
    BY DEF NoParts, Exists, Changed, Parts, VideoParts, AudioParts
  <2>5. EmptyAtEnd'
    BY <2>1, <2>a DEF Inv, WhoIsWhere, PolicyPlaces, Threads, Orderly, EmptyAtEnd, IdleIsCalm, LoadsIdle,
       LoadPlaces, NoParts
  <2>6. UnloadedIsEmpty'
    BY <2>1, <2>a DEF Inv, WhoIsWhere, PolicyPlaces, Threads, Orderly, UnloadedIsEmpty, UnloadBody,
       EmptyAtEnd, LoadsIdle, LoadPlaces, NoParts, Tidy
  <2> QED BY <2>2, <2>3, <2>4, <2>5, <2>6 DEF Orderly
<1> QED
  BY <1>1, <1>2, <1>3, <1>4, <1>5, <1>6, <1>7, <1>8, <1>9, <1>10, <1>a, <1>b DEF Inv, Typed
-----------------------------------------------------------------------------
(* A part that executes late preserves each part of the invariant. *)
LEMMA CarryOutKeepsInv ==
    ASSUME Inv, NEW p \in Parts, CarryOut(p)
    PROVE  Inv'
<1> USE EsplayerAssumption DEF CarryOut, Fails, resourceVars
<1>1. WhoIsWhere' /\ OwnerHoldsLock'
  BY DEF Inv, WhoIsWhere, OwnerHoldsLock
<1>2. StatusTyped' /\ SaveTyped' /\ SavedWhenNeeded' /\ EnabledTyped' /\ LockTyped' /\ FlagsTyped'
  BY DEF Inv, Typed, StatusTyped, SaveTyped, SavedWhenNeeded, EnabledTyped, LockTyped, FlagsTyped
<1>3. CompTyped' /\ PastTyped'
  BY DEF Inv, Typed, CompTyped, PastTyped, Disturbances
<1>4. LateTyped' /\ LateExist'
  BY DEF Inv, Typed, CompTyped, LateTyped, LateExist, Exists
<1>5. FlushingExplained'
  BY DEF Inv, FlushingExplained
<1>6. Tidy' <=> Tidy
  BY DEF Tidy
<1>7. ~NoParts
  BY DEF Inv, LateExist, NoParts, Exists
<1>8. Orderly'
  BY <1>6, <1>7 DEF Inv, Orderly, IdleIsCalm, IdleNotSaved, LoadsIdle, EmptyAtEnd, UnloadedIsEmpty, NoParts,
     Tidy
<1> QED BY <1>1, <1>2, <1>3, <1>4, <1>5, <1>8 DEF Inv, Typed
-----------------------------------------------------------------------------
(* A step that changes nothing preserves the invariant. *)
LEMMA StutterKeepsInv ==
    ASSUME Inv, UNCHANGED vars
    PROVE  Inv'
<1> USE DEF vars, resourceVars, partVars
<1>1. WhoIsWhere' /\ OwnerHoldsLock'
  BY DEF Inv, WhoIsWhere, OwnerHoldsLock
<1>2. StatusTyped' /\ SaveTyped' /\ SavedWhenNeeded' /\ CompTyped' /\ PastTyped' /\ EnabledTyped' /\ LockTyped'
  BY DEF Inv, Typed, StatusTyped, SaveTyped, SavedWhenNeeded, CompTyped, PastTyped, EnabledTyped, LockTyped
<1>3. FlagsTyped' /\ LateTyped' /\ LateExist'
  BY DEF Inv, Typed, FlagsTyped, LateTyped, LateExist, Exists
<1>4. FlushingExplained'
  BY DEF Inv, FlushingExplained
<1>5. Orderly'
  BY DEF Inv, Orderly, IdleIsCalm, IdleNotSaved, LoadsIdle, EmptyAtEnd, UnloadedIsEmpty, NoParts, Tidy
<1> QED BY <1>1, <1>2, <1>3, <1>4, <1>5 DEF Inv, Typed

(* The player starts with the invariant. *)
LEMMA StartsWithInv ==
    ASSUME Init
    PROVE  Inv
<1> USE EsplayerAssumption DEF Init
<1>1. WhoIsWhere
  BY DEF WhoIsWhere, Threads, PolicyPlaces, Places
<1>2. OwnerHoldsLock
  BY DEF OwnerHoldsLock, LockedPlaces, UnloadBody, FlushBody, Threads
<1>3. StatusTyped /\ SaveTyped /\ SavedWhenNeeded /\ CompTyped /\ PastTyped /\ EnabledTyped /\ LockTyped
  BY DEF StatusTyped, Statuses, SaveTyped, SavedWhenNeeded, FlushBody, CompTyped, PastTyped,
     EnabledTyped, LockTyped, Threads
<1>4. FlagsTyped /\ LateTyped /\ LateExist
  BY DEF FlagsTyped, LateTyped, LateExist
<1>5. FlushingExplained
  BY DEF FlushingExplained, NoStatus
<1>6. Orderly
  BY DEF Orderly, IdleIsCalm, IdleNotSaved, LoadsIdle, LoadPlaces, EmptyAtEnd, UnloadedIsEmpty, NoParts,
     Threads, NoStatus
<1> QED BY <1>1, <1>2, <1>3, <1>4, <1>5, <1>6 DEF Inv, Typed
-----------------------------------------------------------------------------
(* The inductive invariant: every operation of every thread preserves it.   *)
THEOREM PlayerInvariant == Spec => []Inv
<1>1. ASSUME Inv, [Next]_vars
      PROVE  Inv'
  <2>1. CASE UNCHANGED vars
    BY <1>1, <2>1, StutterKeepsInv
  <2>2. CASE Next
    <3>1. \/ \E t \in Threads : Call(t)
          \/ \E p \in Parts : CarryOut(p)
      BY <2>2 DEF Next
    <3> QED
      BY <1>1, <3>1, LoadKeepsInv, UnloadKeepsInv, PolicyKeepsInv, PlayKeepsInv, PauseKeepsInv,
         StepKeepsInv, FlushKeepsInv, CarryOutKeepsInv DEF Call
  <2> QED BY <1>1, <2>1, <2>2
<1> QED BY StartsWithInv, <1>1, PTL DEF Spec

(* Type correctness, with any number of policy threads; in particular       *)
(* flush() and stepFrame() only put back a status they have saved.          *)
THEOREM Typing == Spec => []TypeOK
<1>1. Inv => TypeOK
  BY DEF Inv, WhoIsWhere, Typed, TypeOK, StatusTyped, SaveTyped, CompTyped, PastTyped, EnabledTyped,
     LockTyped, FlagsTyped, LateTyped
<1> QED BY PlayerInvariant, <1>1, PTL

(* unload() leaves nothing behind, whoever calls it and whatever load() had *)
(* made by then.                                                            *)
THEOREM NothingLeftBehind == Spec => []UnloadedIsEmpty
<1>1. Inv => UnloadedIsEmpty
  BY DEF Inv, Orderly
<1> QED BY PlayerInvariant, <1>1, PTL

(* The status FLUSHING is never orphaned but by the early return of flush(). *)
THEOREM FlushingExplainedAlways == Spec => []FlushingHasFlusher
<1>1. Inv => FlushingHasFlusher
  BY DEF Inv, FlushingExplained, FlushingHasFlusher, Threads
<1> QED BY PlayerInvariant, <1>1, PTL

(* No component is destroyed under flush() or pause(): unload_mutex_ keeps  *)
(* the one thread that destroys out of their bodies.                        *)
THEOREM TeardownExcluded == Spec => NoTeardownUnderCommand
<1>1. ASSUME Inv, Next, \E u \in Threads : pc[u] \in FlushBody \cup {"pauseBody"}
      PROVE  CommandedPartsStay
  <2> SUFFICES \A p \in Parts : Exists(p) => comp'[p] # "none"
    BY DEF CommandedPartsStay
  <2>1. CASE \E p \in Parts : CarryOut(p)
    BY <1>1, <2>1 DEF CarryOut, Exists, Inv, Typed, CompTyped
  <2> SUFFICES ASSUME NEW t \in Threads, Call(t)
               PROVE  \A p \in Parts : Exists(p) => comp'[p] # "none"
    BY <1>1, <2>1 DEF Next
  <2>2. ~UnloadDestroy(t)
    BY <1>1 DEF Inv, OwnerHoldsLock, LockedPlaces, UnloadBody, FlushBody, UnloadDestroy, At
  <2>3. CASE Load(t)
    <3> USE DEF Exists
    <3>1. comp \in [Parts -> {"none", "idle", "pause", "exec"}]
      BY <1>1 DEF Inv, Typed, CompTyped
    <3>2. CASE LoadClock(t) \/ LoadVideo(t)
      BY <3>1, <3>2 DEF LoadClock, LoadVideo, LoadFails
    <3>3. CASE LoadAudio(t)
      BY <3>1, <3>3 DEF LoadAudio, AudioSteps
    <3>4. CASE LoadBlocked(t) \/ LoadStart(t) \/ LoadAcquire(t) \/ LoadFinish(t) \/ LoadReport(t)
      BY <3>4 DEF LoadBlocked, LoadStart, LoadAcquire, LoadFinish, LoadReport, Crash, partVars
    <3> QED BY <2>3, <3>2, <3>3, <3>4 DEF Load
  <2>4. CASE Unload(t) \/ Policy(t)
    BY <2>4, <2>2 DEF Unload, UnloadCheck, UnloadLock, UnloadFinish, Policy, PolicyAction, PolicyRelease,
       Exists,
       partVars
  <2>5. CASE Play(t) \/ Step(t)
    BY <2>5 DEF Play, PlayCheck, PlayRead, PlayLoaded, PlayPaused, PlayEnd, Step, StepCheck, StepEnter,
       StepExit, Crash, ChangeAndWait, Changed, Exists, partVars
  <2>6. CASE Pause(t) \/ Flush(t)
    BY <2>6 DEF Pause, PauseCheck, PauseStop, PauseLock, PauseBody, Flush, FlushCheck, FlushLock, FlushPause,
       FlushResume, FlushEnd, Crash, ChangeAndWait, Changed, Exists, partVars
  <2> QED BY <2>3, <2>4, <2>5, <2>6 DEF Call
<1>2. Inv /\ [Next]_vars => [CommandedPartsStay]_vars
  BY <1>1 DEF CommandedPartsStay
<1> QED BY PlayerInvariant, <1>2, PTL DEF NoTeardownUnderCommand, Spec
-----------------------------------------------------------------------------
(***************************************************************************)
(* Second layer: the media server's resources. Inv says nothing of them.    *)
(* What makes ReleasedOnceUnloaded and HeldWhileLoaded inductive is when    *)
(* the policy threads can be where: after load(), and once unload() is done *)
(* with a player that no longer is loaded_.                                 *)
(***************************************************************************)
(* stepFrame() and flush() keep a status only while they are at work.       *)
NothingSaved == pc[App] \notin FlushBody \cup {"stepExit"} => save = NoStatus

(* Whoever destroys the parts has taken loaded_ away.                       *)
UnloadTakes == Tidy => \A t \in Threads : pc[t] \in UnloadBody => ~loaded

(* What the media server lends is remembered, and given back by the time    *)
(* the status says UNLOADED, or will say so again.                          *)
LentIsRemembered ==
    past \cap {"leaked", "flushedIdle"} = {} =>
        /\ granted => acquired
        /\ "UNLOADED" \in {status, save} => ~acquired

Undisturbed == past \cap {"policyRefused", "flushedIdle"} = {}

(* Unless it was refused, a policy action comes after load(),               *)
PolicyAfterLoad == Undisturbed => \A t \in Policies : pc[t] # "idle" => status # "IDLE"

(* releases a player that is no longer loaded,                              *)
ReleaseAfterUnload == Undisturbed => \A t \in Policies : pc[t] = "release" => ~loaded

(* and leaves a loaded player its resources.                                *)
LoadedHolds ==
    Undisturbed /\ loaded /\ (status # "IDLE" \/ pc[App] \in LoadPlaces \ {"loadAcquire"}) => granted

ResourceInv ==
    /\ NothingSaved /\ UnloadTakes /\ LentIsRemembered
    /\ PolicyAfterLoad /\ ReleaseAfterUnload /\ LoadedHolds

(* load() preserves ResourceInv: it is the only one to be lent anything.    *)
LEMMA LoadKeepsResourceInv ==
    ASSUME Inv, ResourceInv, NEW t \in Threads, Load(t)
    PROVE  ResourceInv'
<1> USE EsplayerAssumption
    DEF Load, LoadBlocked, LoadStart, LoadAcquire, LoadClock, LoadVideo, LoadAudio,
        LoadFinish, LoadFails, LoadReport, AudioSteps, Enabled, GoTo, At, Crash, resourceVars, partVars
<1>0. t = App /\ past \subseteq past' /\ (Tidy' => Tidy) /\ (Undisturbed' => Undisturbed) /\ (Undisturbed => Tidy)
  BY DEF Inv, WhoIsWhere, PolicyPlaces, Threads, Tidy, Undisturbed
<1>1. NothingSaved'
  BY <1>0 DEF Inv, WhoIsWhere, ResourceInv, NothingSaved, FlushBody, Threads
<1>2. UnloadTakes'
  BY <1>0 DEF Inv, WhoIsWhere, PolicyPlaces, Threads, ResourceInv, UnloadTakes, UnloadBody, Orderly,
     IdleIsCalm, LoadPlaces, CanTransit, Reachable, Typed, StatusTyped, Statuses
<1>3. LentIsRemembered'
  BY <1>0 DEF Inv, ResourceInv, LentIsRemembered, NothingSaved, NoStatus, Orderly, LoadsIdle, LoadPlaces,
     Tidy, FlushBody
<1>4. PolicyAfterLoad'
  BY <1>0 DEF Inv, WhoIsWhere, Threads, ResourceInv, PolicyAfterLoad
<1>5. ReleaseAfterUnload'
  BY <1>0 DEF Inv, WhoIsWhere, Threads, ResourceInv, ReleaseAfterUnload, PolicyAfterLoad, CanTransit,
     Reachable, Typed, StatusTyped, Statuses
<1>a. CanTransit("LOADED") => status = "IDLE"
  BY DEF Inv, Typed, StatusTyped, Statuses, CanTransit, Reachable
<1>b. Undisturbed /\ pc[App] \in LoadPlaces => status = "IDLE"
  BY <1>0 DEF Inv, Orderly, LoadsIdle
<1>c. granted => granted'
  OBVIOUS
<1>6. LoadedHolds'
  BY <1>0, <1>a, <1>b, <1>c DEF Inv, WhoIsWhere, Threads, ResourceInv, LoadedHolds, LoadPlaces
<1> QED BY <1>1, <1>2, <1>3, <1>4, <1>5, <1>6 DEF ResourceInv

(* unload() preserves ResourceInv.                                          *)
LEMMA UnloadKeepsResourceInv ==
    ASSUME Inv, ResourceInv, NEW t \in Threads, Unload(t)
    PROVE  ResourceInv'
<1> USE EsplayerAssumption
    DEF Unload, UnloadCheck, UnloadLock, UnloadDestroy, UnloadFinish, ReleaseResource,
        Return, GoTo, At, resourceVars, partVars
<1>0. past \subseteq past' /\ (Tidy' => Tidy) /\ (Undisturbed' => Undisturbed) /\ (Undisturbed => Tidy)
  BY DEF Inv, WhoIsWhere, PolicyPlaces, Threads, Tidy, Undisturbed
<1>1. NothingSaved'
  BY <1>0 DEF Inv, WhoIsWhere, ResourceInv, NothingSaved, FlushBody, Threads
<1>2. UnloadTakes'
  BY <1>0 DEF Inv, WhoIsWhere, PolicyPlaces, Threads, ResourceInv, UnloadTakes, UnloadBody
<1>3. LentIsRemembered'
  BY <1>0 DEF Inv, ResourceInv, LentIsRemembered
<1>4. PolicyAfterLoad'
  BY <1>0 DEF Inv, WhoIsWhere, Threads, ResourceInv, PolicyAfterLoad
<1>5. ReleaseAfterUnload'
  BY <1>0 DEF Inv, WhoIsWhere, Threads, ResourceInv, ReleaseAfterUnload, UnloadTakes, UnloadBody
<1>6. LoadedHolds'
  BY <1>0 DEF Inv, WhoIsWhere, PolicyPlaces, Threads, ResourceInv, LoadedHolds, UnloadTakes, UnloadBody,
     LoadPlaces, Orderly, IdleIsCalm
<1> QED BY <1>1, <1>2, <1>3, <1>4, <1>5, <1>6 DEF ResourceInv

(* The policy action preserves ResourceInv.                                 *)
LEMMA PolicyKeepsResourceInv ==
    ASSUME Inv, ResourceInv, NEW t \in Threads, Policy(t)
    PROVE  ResourceInv'
<1> USE EsplayerAssumption
    DEF Policy, PolicyAction, PolicyRelease, GoTo, At, resourceVars, partVars
<1>0. t \in Policies /\ past \subseteq past' /\ (Tidy' => Tidy) /\ (Undisturbed' => Undisturbed) /\ (Undisturbed => Tidy)
  BY DEF Inv, WhoIsWhere, PolicyPlaces, Threads, Tidy, Undisturbed
<1>1. NothingSaved'
  BY <1>0 DEF Inv, WhoIsWhere, ResourceInv, NothingSaved, FlushBody, Threads
<1>2. UnloadTakes'
  BY <1>0 DEF Inv, WhoIsWhere, PolicyPlaces, Threads, ResourceInv, UnloadTakes, UnloadBody
<1>3. LentIsRemembered'
  BY <1>0 DEF Inv, ResourceInv, LentIsRemembered
<1>a. status = "IDLE" => ~CanTransit("UNLOADED")
  BY DEF CanTransit, Reachable
<1>b. PolicyAction(t) /\ Undisturbed' => status # "IDLE"
  BY <1>a DEF Undisturbed
<1>4. PolicyAfterLoad'
  BY <1>0, <1>b DEF Inv, WhoIsWhere, Threads, ResourceInv, PolicyAfterLoad
<1>5. ReleaseAfterUnload'
  BY <1>0 DEF Inv, WhoIsWhere, Threads, ResourceInv, ReleaseAfterUnload, Undisturbed, PolicyUnloads
<1>6. LoadedHolds'
  BY <1>0 DEF Inv, WhoIsWhere, Threads, ResourceInv, LoadedHolds, ReleaseAfterUnload, LoadPlaces
<1> QED BY <1>1, <1>2, <1>3, <1>4, <1>5, <1>6 DEF ResourceInv

(* play(), pause() and stepFrame() preserve ResourceInv.                    *)
LEMMA CallKeepsResourceInv ==
    ASSUME Inv, ResourceInv, NEW t \in Threads, Play(t) \/ Pause(t) \/ Step(t)
    PROVE  ResourceInv'
<1> USE EsplayerAssumption
    DEF Play, PlayCheck, PlayRead, PlayLoaded, PlayPaused, PlayEnd, Return, GoTo, At, Crash,
        ChangeAndWait, Fails, resourceVars, partVars, Pause, PauseCheck, PauseStop, PauseLock, PauseBody,
                Step, StepCheck, StepEnter, StepExit
<1>0. t = App /\ past \subseteq past' /\ (Tidy' => Tidy) /\ (Undisturbed' => Undisturbed) /\ (Undisturbed => Tidy)
  BY DEF Inv, WhoIsWhere, PolicyPlaces, Threads, Tidy, Undisturbed
<1>00. loaded' = loaded /\ granted' = granted /\ acquired' = acquired
  OBVIOUS
<1>1. NothingSaved'
  BY <1>0 DEF Inv, WhoIsWhere, ResourceInv, NothingSaved, FlushBody, Threads
<1>2. UnloadTakes'
  BY <1>0 DEF Inv, WhoIsWhere, PolicyPlaces, Threads, ResourceInv, UnloadTakes, UnloadBody
<1>3. LentIsRemembered'
  BY <1>0 DEF Inv, ResourceInv, LentIsRemembered, NoStatus
<1>4. PolicyAfterLoad'
  BY <1>0 DEF Inv, WhoIsWhere, Threads, ResourceInv, PolicyAfterLoad, Orderly, IdleNotSaved
<1>5. ReleaseAfterUnload'
  BY <1>0, <1>00 DEF Inv, WhoIsWhere, Threads, ResourceInv, ReleaseAfterUnload
<1>6. LoadedHolds'
  BY <1>0, <1>00 DEF Inv, WhoIsWhere, Threads, ResourceInv, LoadedHolds, LoadPlaces, Orderly, IdleIsCalm
<1> QED BY <1>1, <1>2, <1>3, <1>4, <1>5, <1>6 DEF ResourceInv

(* flush() preserves ResourceInv.                                           *)
LEMMA FlushKeepsResourceInv ==
    ASSUME Inv, ResourceInv, NEW t \in Threads, Flush(t)
    PROVE  ResourceInv'
<1> USE EsplayerAssumption
    DEF Flush, FlushCheck, FlushLock, FlushPause, FlushResume, FlushEnd, EarlyReturn,
        SavedStatus, Restored, Return, GoTo, At, ChangeAndWait, Fails, resourceVars, partVars
<1>0. t = App /\ past \subseteq past' /\ (Tidy' => Tidy) /\ (Undisturbed' => Undisturbed) /\ (Undisturbed => Tidy)
  BY DEF Inv, WhoIsWhere, PolicyPlaces, Threads, Tidy, Undisturbed
<1>00. loaded' = loaded /\ granted' = granted /\ acquired' = acquired
  OBVIOUS
<1>1. NothingSaved'
  BY <1>0 DEF Inv, WhoIsWhere, ResourceInv, NothingSaved, FlushBody, Threads
<1>2. UnloadTakes'
  BY <1>0 DEF Inv, WhoIsWhere, PolicyPlaces, Threads, ResourceInv, UnloadTakes, UnloadBody
<1>3. LentIsRemembered'
  BY <1>0 DEF Inv, ResourceInv, LentIsRemembered, NoStatus
<1>4. PolicyAfterLoad'
  BY <1>0 DEF Inv, WhoIsWhere, Threads, ResourceInv, PolicyAfterLoad, Orderly, IdleNotSaved
<1>5. ReleaseAfterUnload'
  BY <1>0, <1>00 DEF Inv, WhoIsWhere, Threads, ResourceInv, ReleaseAfterUnload
<1>6. LoadedHolds'
  BY <1>0, <1>00 DEF Inv, WhoIsWhere, Threads, ResourceInv, LoadedHolds, LoadPlaces, Orderly, IdleIsCalm,
     Undisturbed
<1> QED BY <1>1, <1>2, <1>3, <1>4, <1>5, <1>6 DEF ResourceInv

(* So does a part that executes late.                                       *)
LEMMA CarryOutKeepsResourceInv ==
    ASSUME ResourceInv, NEW p \in Parts, CarryOut(p)
    PROVE  ResourceInv'
BY DEF CarryOut, Fails, resourceVars, ResourceInv, NothingSaved, UnloadTakes, LentIsRemembered,
   PolicyAfterLoad, ReleaseAfterUnload, LoadedHolds, Tidy, Undisturbed

(* ResourceInv is inductive relative to Inv.                                *)
LEMMA ResourceInvHolds == Spec => []ResourceInv
<1>1. Init => ResourceInv
  BY EsplayerAssumption DEF Init, ResourceInv, NothingSaved, UnloadTakes, LentIsRemembered, PolicyAfterLoad,
     ReleaseAfterUnload, LoadedHolds, Threads, UnloadBody, LoadPlaces, NoStatus
<1>2. ASSUME Inv, ResourceInv, [Next]_vars
      PROVE  ResourceInv'
  <2>1. CASE UNCHANGED vars
    BY <1>2, <2>1 DEF vars, resourceVars, partVars, ResourceInv, NothingSaved, UnloadTakes, LentIsRemembered,
       PolicyAfterLoad, ReleaseAfterUnload, LoadedHolds, Tidy, Undisturbed
  <2>2. CASE Next
    <3>1. \/ \E t \in Threads : Call(t)
          \/ \E p \in Parts : CarryOut(p)
      BY <2>2 DEF Next
    <3> QED
      BY <1>2, <3>1, LoadKeepsResourceInv, UnloadKeepsResourceInv, PolicyKeepsResourceInv,
         CallKeepsResourceInv, FlushKeepsResourceInv, CarryOutKeepsResourceInv DEF Call
  <2> QED BY <1>2, <2>1, <2>2
<1> QED BY <1>1, <1>2, PlayerInvariant, PTL DEF Spec

(* Once unload() is done and everyone is at rest, the media server has its  *)
(* resources back, however many policy actions raced with it, unless a      *)
(* reply or a release failed or a failed load() was flushed.                *)
THEOREM ReleasedOnceUnloadedAlways == Spec => []ReleasedOnceUnloaded
<1>1. ResourceInv => ReleasedOnceUnloaded
  BY DEF ResourceInv, LentIsRemembered, ReleasedOnceUnloaded
<1> QED BY ResourceInvHolds, <1>1, PTL

(* And a loaded player at rest keeps them: only a policy action that came   *)
(* while unload() is refused can take them away under it.                   *)
THEOREM HeldWhileLoadedAlways == Spec => []HeldWhileLoaded
<1>1. ResourceInv => HeldWhileLoaded
  BY DEF ResourceInv, LoadedHolds, Undisturbed, HeldWhileLoaded
<1> QED BY ResourceInvHolds, <1>1, PTL
-----------------------------------------------------------------------------
(***************************************************************************)
(* Third layer: the status tells what the components do, in every place of  *)
(* every operation, of a loaded player whose commands have all succeeded.   *)
(***************************************************************************)
(* A loaded player whose commands have all succeeded.                       *)
Faultless == loaded /\ past \cap {"partial", "flushedLoaded", "flushedIdle"} = {}

StuckIsPartial == "stuck" \in past => "partial" \in past

All(s) == \A p \in Parts : comp[p] = s
AudioRuns == Exists("acodec") => \A p \in AudioParts \cup {"clock"} : comp[p] = "exec"
VideoMade == Exists("sched") => Exists("vcodec")
Starting == \A p \in Parts : comp[p] = "exec" \/ p \in late
Commanded == \A p \in Parts : comp[p] \in {"pause", "exec"}

(* A part that was not waited for is still paused.                          *)
LateFits == \A p \in late : comp[p] = "pause"

(* The status it can have, and can have saved.                              *)
StatusesFit ==
    /\ status # "UNLOADED"
    /\ status = "FLUSHING" <=> pc[App] \in FlushBody
    /\ status = "STEPPING" <=> pc[App] = "stepExit"
    /\ save \notin {"LOADED", "UNLOADED", "FLUSHING", "STEPPING"}
    /\ pc[App] = "stepExit" => save = "PAUSED"

(* Where the status was read, it still is what it was.                      *)
StatusStays ==
    /\ pc[App] = "playRead" => status \in {"LOADED", "PLAYING", "PAUSED"}
    /\ pc[App] = "playLoaded" => status = "LOADED"
    /\ pc[App] \in {"playPaused", "stepEnter"} => status = "PAUSED"
    /\ pc[App] \in {"pauseStop", "pauseLock", "pauseBody"} => status = "PLAYING"

(* load() leaves the audio components and the clock executing, if any.      *)
LoadTells ==
    /\ pc[App] \in LoadPlaces => late = {}
    /\ pc[App] \in {"loadAcquire", "loadClock"} => NoParts
    /\ pc[App] \in {"loadVideo", "loadAudio"} => ~Exists("acodec")
    /\ pc[App] \in {"loadVideo", "loadAudio", "loadFinish"} \/ status = "LOADED" => VideoMade
    /\ pc[App] = "loadFinish" \/ status = "LOADED" => AudioRuns \/ pc[App] = "playEnd"

(* What the components do agrees with the status, or with the one saved. A  *)
(* pause() that found a part not yet resumed is all that may be wrong.      *)
PauseTold == IF overtaken THEN Commanded ELSE late = {} /\ All("pause")
PlayingTells ==
    /\ pc[App] = "playEnd" => Starting
    /\ status = "PLAYING" => Starting /\ (running <=> pc[App] \notin {"pauseLock", "pauseBody"})
    /\ save = "PLAYING" => running /\ IF pc[App] = "flushResume" THEN Commanded ELSE Starting
PausedTells ==
    /\ status = "PAUSED" => ~running /\ (pc[App] # "playEnd" => PauseTold)
    /\ save = "PAUSED" => ~running /\ PauseTold

Tells == LateFits /\ StatusesFit /\ StatusStays /\ LoadTells /\ PlayingTells /\ PausedTells
TellsInv == StuckIsPartial /\ (Faultless => Tells)

(* changeComponentsState() that got through leaves every part it was meant  *)
(* for in the new state.                                                    *)
LEMMA ChangesAll ==
    ASSUME NEW s, NEW k \in 0 .. 5, AllChanged(k), comp' = Changed(s, k), \A p \in Parts : Exists(p)
    PROVE  All(s)'
BY DEF AllChanged, Changed, All

(* A part that executes, or is paused and told to, is there.                *)
LEMMA StartedExist ==
    ASSUME LateFits, Starting
    PROVE  \A p \in Parts : Exists(p)
BY DEF LateFits, Starting, Exists

(* unload() and the policy action preserve TellsInv: a faultless player is  *)
(* loaded, and then nobody is in the body of unload().                      *)
LEMMA TeardownKeepsTells ==
    ASSUME Inv, ResourceInv, TellsInv, NEW t \in Threads, Unload(t) \/ Policy(t)
    PROVE  TellsInv'
<1> USE EsplayerAssumption
    DEF Unload, UnloadCheck, UnloadLock, UnloadDestroy, UnloadFinish, ReleaseResource, Policy, PolicyAction,
        PolicyRelease, Return, GoTo, At, resourceVars, partVars
<1>1. StuckIsPartial'
  <2>1. "stuck" \in past' => "stuck" \in past
    <3>1. CASE Unload(t)
      BY <3>1
    <3>2. CASE Policy(t)
      <4>1. CASE PolicyAction(t)
        BY <4>1
      <4>2. CASE PolicyRelease(t)
        BY <4>2
      <4> QED BY <3>2, <4>1, <4>2
    <3> QED BY <3>1, <3>2
  <2>2. past \subseteq past'
    OBVIOUS
  <2> QED BY <2>1, <2>2 DEF TellsInv, StuckIsPartial
<1>2. ASSUME Faultless'
      PROVE  Tells'
  <2>1. Faultless
    BY <1>2 DEF Faultless
  <2>2. ~UnloadDestroy(t) /\ ~UnloadFinish(t)
    BY <2>1 DEF Faultless, ResourceInv, UnloadTakes, UnloadBody, Tidy
  <2>3. UNCHANGED <<status, partVars, running, save>>
    BY <2>2
  <2>4. pc'[App] = pc[App] \/ (pc[App] = "idle" /\ pc'[App] = "unloadLock")
    BY <1>2, <2>2 DEF Faultless, Inv, WhoIsWhere, Threads
  <2>5. StatusesFit' /\ StatusStays' /\ LateFits'
    BY <2>1, <2>3, <2>4 DEF TellsInv, Tells, StatusesFit, StatusStays, LateFits, FlushBody
  <2>6. LoadTells'
    BY <2>1, <2>3, <2>4 DEF TellsInv, Tells, LoadTells, LoadPlaces, NoParts, AudioRuns, VideoMade, Exists
  <2>7. PlayingTells' /\ PausedTells'
    BY <2>1, <2>3, <2>4 DEF TellsInv, Tells, PlayingTells, PausedTells, PauseTold, Starting, Commanded, All
  <2> QED BY <2>5, <2>6, <2>7 DEF Tells
<1> QED BY <1>1, <1>2 DEF TellsInv

(* load() preserves TellsInv.                                               *)
LEMMA LoadKeepsTells ==
    ASSUME Inv, ResourceInv, TellsInv, NEW t \in Threads, Load(t)
    PROVE  TellsInv'
<1> USE EsplayerAssumption
    DEF Load, LoadBlocked, LoadStart, LoadAcquire, LoadClock, LoadVideo, LoadAudio,
        LoadFinish, LoadFails, LoadReport, AudioSteps, Enabled, GoTo, At, Crash, resourceVars, partVars
<1>0. t = App
  BY DEF Inv, WhoIsWhere, PolicyPlaces, Threads
<1>1. StuckIsPartial'
  BY DEF TellsInv, StuckIsPartial
<1>2. ASSUME Faultless', ~LoadStart(t)
      PROVE  Tells'
  <2>1. Faultless /\ Tells
    BY <1>2 DEF Faultless, TellsInv
  <2>2. pc[App] \in LoadPlaces => status = "IDLE" /\ save = NoStatus
    BY <2>1 DEF Inv, Orderly, LoadsIdle, Tidy, Faultless, ResourceInv, NothingSaved, LoadPlaces, FlushBody
  <2>3. save' = save
    BY <1>2
  <2>4. StatusesFit' /\ StatusStays'
    BY <1>0, <1>2, <2>1, <2>2 DEF Inv, WhoIsWhere, Tells, StatusesFit, StatusStays, FlushBody, LoadPlaces,
       NoStatus
  <2>5. LoadTells'
    <3>1. CASE LoadAudio(t)
      BY <1>0, <2>1, <2>2, <3>1 DEF Inv, WhoIsWhere, Typed, CompTyped, Tells, LoadTells, NoParts, AudioRuns,
         VideoMade,
         Exists, Parts, VideoParts, AudioParts, LoadPlaces
    <3>2. CASE ~LoadAudio(t)
      BY <1>0, <1>2, <2>1, <2>2, <3>2 DEF Inv, WhoIsWhere, Typed, CompTyped, Tells, LoadTells, NoParts,
         AudioRuns, VideoMade, Exists, Parts, VideoParts, AudioParts, LoadPlaces
    <3> QED BY <3>1, <3>2
  <2>7. LateFits'
    <3>1. late' = late
      BY <1>2
    <3>2. \A p \in late : comp'[p] = comp[p] \/ (pc[App] \in LoadPlaces)
      BY <1>0, <1>2 DEF LoadPlaces
    <3>3. pc[App] \in LoadPlaces => late = {}
      BY <2>1 DEF Tells, LoadTells
    <3> QED BY <2>1, <3>1, <3>2, <3>3 DEF Tells, LateFits
  <2>6. PlayingTells' /\ PausedTells'
    <3>1. CASE pc[App] \in LoadPlaces
      <4>1. status' \in {"IDLE", "LOADED"} /\ pc'[App] # "playEnd"
        BY <1>0, <1>2, <2>2, <3>1 DEF Inv, WhoIsWhere, LoadPlaces
      <4> QED BY <2>2, <2>3, <3>1, <4>1 DEF PlayingTells, PausedTells, NoStatus
    <3>2. CASE pc[App] \notin LoadPlaces
      <4>1. UNCHANGED <<status, partVars, running, save>>
        BY <1>2, <1>0, <3>2 DEF LoadPlaces
      <4>2. pc[App] \in {"idle", "loadReport"} /\ pc'[App] \in {"idle", "loadReport"}
        <5>1. LoadBlocked(t) \/ LoadReport(t)
          BY <1>2, <1>0, <3>2 DEF LoadPlaces
        <5>2. pc[App] \in {"idle", "loadReport"} /\ (pc' = pc \/ pc' = [pc EXCEPT ![App] = "idle"])
          BY <1>0, <5>1
        <5> HIDE DEF Load
        <5> QED BY <1>0, <5>2 DEF Inv, WhoIsWhere
      <4> QED
        BY <2>1, <4>1, <4>2 DEF Tells, PlayingTells, PausedTells, PauseTold, Starting, Commanded, All
    <3> QED BY <3>1, <3>2
  <2> QED BY <2>4, <2>5, <2>6, <2>7 DEF Tells
<1>3. ASSUME Faultless', LoadStart(t)
      PROVE  Tells'
  <2>1. status = "IDLE" /\ save = NoStatus /\ pc[App] = "idle"
    BY <1>0, <1>3 DEF Inv, Typed, StatusTyped, Statuses, CanTransit, Reachable, ResourceInv, NothingSaved,
       FlushBody
  <2>2. status' = "IDLE" /\ save' = NoStatus /\ comp' = comp /\ late' = late /\ pc'[App] = "loadAcquire"
    BY <1>0, <1>3, <2>1 DEF Inv, WhoIsWhere
  <2>3. Tidy
    BY <1>3 DEF Faultless, Tidy
  <2>4. NoParts
    BY <1>0, <1>3, <2>1, <2>3 DEF Inv, Orderly, IdleIsCalm, UnloadedIsEmpty, NoParts, UnloadBody, LoadPlaces,
       Tidy
  <2>5. late = {}
    BY <2>4 DEF Inv, Typed, LateTyped, LateExist, NoParts, Exists
  <2> QED
    BY <2>2, <2>4, <2>5 DEF Tells, LateFits, StatusesFit, StatusStays, LoadTells, PlayingTells, PausedTells,
       NoParts, FlushBody, NoStatus
<1> QED BY <1>1, <1>2, <1>3 DEF TellsInv

(* play() preserves TellsInv.                                               *)
LEMMA PlayKeepsTells ==
    ASSUME Inv, ResourceInv, TellsInv, NEW t \in Threads, Play(t)
    PROVE  TellsInv'
<1> USE EsplayerAssumption
    DEF Play, PlayCheck, PlayRead, PlayLoaded, PlayPaused, PlayEnd, Return, GoTo, At, Crash,
        ChangeAndWait, Fails, resourceVars, partVars
<1>0. t = App
  BY DEF Inv, WhoIsWhere, PolicyPlaces, Threads
<1>1. StuckIsPartial'
  BY DEF TellsInv, StuckIsPartial
<1>2. ASSUME Faultless'
      PROVE  Tells'
  <2>1. Faultless /\ Tells
    BY <1>2 DEF Faultless, TellsInv
  <2>2. pc[App] \in {"idle", "playRead", "playLoaded", "playPaused",
  "playEnd"} /\ save = NoStatus /\ save' = NoStatus
    BY <1>0 DEF ResourceInv, NothingSaved, FlushBody
  <2>3. StatusesFit' /\ StatusStays'
    BY <1>0, <2>1, <2>2 DEF Inv, WhoIsWhere, Typed, StatusTyped, Statuses, CanTransit, Reachable, Tells,
       StatusesFit, StatusStays, FlushBody, NoStatus
  <2>4. LoadTells'
    <3>1. pc'[App] \notin LoadPlaces /\ pc[App] \notin LoadPlaces
      BY <1>0, <2>2 DEF Inv, WhoIsWhere, LoadPlaces
    <3>2. CASE status' # "LOADED"
      BY <3>1, <3>2 DEF LoadTells, LoadPlaces
    <3>3. CASE status' = "LOADED"
      <4>1. status = "LOADED" /\ ~PlayPaused(t) /\ ~PlayEnd(t)
        BY <1>0, <2>1, <3>3 DEF Tells, StatusStays
      <4>2. VideoMade /\ (AudioRuns \/ pc[App] = "playEnd")
        BY <2>1, <4>1 DEF Tells, LoadTells
      <4>3. CASE PlayLoaded(t)
        <5>1. Exists("sched")' => Exists("sched")
          BY <4>3 DEF Exists, Parts, VideoParts
        <5>2. Exists("vcodec") => Exists("vcodec")'
          BY <4>3 DEF Exists, Parts, VideoParts
        <5>3. pc'[App] = "playEnd" \/ comp' = comp
          BY <1>0, <4>3 DEF Inv, WhoIsWhere
        <5> QED
          BY <1>0, <3>1, <4>2, <4>3, <5>1, <5>2, <5>3 DEF LoadTells, LoadPlaces, VideoMade, AudioRuns, Exists
      <4>4. CASE PlayCheck(t) \/ PlayRead(t)
        BY <1>0, <3>1, <4>2, <4>4 DEF LoadTells, LoadPlaces, VideoMade, AudioRuns, Exists, Inv, WhoIsWhere
      <4> QED BY <4>1, <4>3, <4>4
    <3> QED BY <3>2, <3>3
  <2>5. ASSUME PlayPaused(t)
        PROVE  All("exec")'
    <3>1. PauseTold /\ status = "PAUSED"
      BY <1>0, <2>1, <2>5 DEF Tells, StatusStays, PausedTells
    <3>2. \A p \in Parts : Exists(p)
      BY <3>1 DEF PauseTold, Commanded, All, Exists
    <3>3. PICK k \in 0 .. 5 : comp' = Changed("exec", k) /\ AllChanged(k)
      BY <1>2, <2>5, <3>2 DEF Faultless, Parts, VideoParts, AudioParts
    <3> QED BY <3>2, <3>3, ChangesAll
  <2>7. LateFits'
    <3>1. CASE PlayLoaded(t)
      BY <1>0, <1>2, <2>1, <3>1 DEF Tells, LateFits, Inv, Typed, CompTyped, LateTyped
    <3>2. CASE PlayPaused(t)
      <4>1. \A p \in late' : p \in late /\ comp'[p] = comp[p]
        BY <1>2, <2>1, <3>2 DEF Sent, Changed, Exists, Faultless, Inv, Typed, LateTyped
      <4> QED BY <2>1, <4>1 DEF Tells, LateFits
    <3>3. CASE PlayCheck(t) \/ PlayRead(t) \/ PlayEnd(t)
      BY <2>1, <3>3 DEF Tells, LateFits
    <3> QED BY <3>1, <3>2, <3>3
  <2>6. PlayingTells' /\ PausedTells'
    <3>1. CASE PlayCheck(t) \/ PlayRead(t)
      BY <1>0, <2>1, <2>2, <3>1 DEF Inv, WhoIsWhere, Tells, PlayingTells, PausedTells, PauseTold, Starting,
         Commanded, All, StatusStays, NoStatus
    <3>2. CASE PlayLoaded(t)
      <4>1. pc[App] = "playLoaded" /\ status = "LOADED" /\ status' = "LOADED"
        BY <1>0, <2>1, <3>2 DEF Tells, StatusStays
      <4>2. Exists("acodec") => comp["arend"] = "exec" /\ comp["clock"] = "exec"
        BY <2>1, <4>1 DEF Tells, LoadTells, AudioRuns, AudioParts
      <4>3. pc'[App] = "playEnd" => \A p \in Parts : comp'[p] = "exec"
        <5>1. CASE Crash(t)
          BY <4>1, <5>1
        <5>2. CASE ~Crash(t)
          <6>1. /\ Exists("acodec") /\ Exists("sched")
                /\ comp' = [p \in Parts |->
                             IF p \in {"vcodec", "sched", "acodec"} /\ Exists(p) THEN "exec" ELSE comp[p]]
            BY <1>2, <3>2, <5>2 DEF Faultless
          <6>2. Exists("vcodec")
            BY <2>1, <4>1, <6>1 DEF Tells, LoadTells, VideoMade
          <6>3. \A p \in {"vcodec", "sched", "acodec"} : comp'[p] = "exec"
            BY <6>1, <6>2 DEF Parts, VideoParts, AudioParts
          <6>4. comp'["arend"] = comp["arend"] /\ comp'["clock"] = comp["clock"]
            BY <6>1 DEF Parts, VideoParts, AudioParts
          <6> QED BY <4>2, <6>1, <6>3, <6>4 DEF Parts, VideoParts, AudioParts
        <5> QED BY <5>1, <5>2
      <4> QED BY <2>2, <4>1, <4>3 DEF PlayingTells, PausedTells, Starting, NoStatus
    <3>3. CASE PlayPaused(t)
      <4>1. status = "PAUSED" /\ status' = status /\ running' = running /\ pc'[App] \in {"playPaused",
      "playEnd"}
        BY <1>0, <2>1, <3>3 DEF Inv, WhoIsWhere, Tells, StatusStays
      <4>2. PauseTold => \A p \in Parts : Exists(p)
        BY DEF PauseTold, Commanded, All, Exists
      <4>3. pc'[App] = "playEnd"
        BY <1>0, <2>1, <3>3, <4>1, <4>2 DEF Inv, WhoIsWhere, Tells, PausedTells, Parts, VideoParts, AudioParts
      <4> QED
        BY <1>0, <2>1, <2>2, <2>5, <3>3, <4>1, <4>3 DEF Tells, PlayingTells, PausedTells, Starting, All,
           NoStatus
    <3>4. CASE PlayEnd(t)
      BY <1>0, <2>1, <2>2, <3>4 DEF Inv, WhoIsWhere, Tells, PlayingTells, PausedTells, Starting, StatusStays,
         NoStatus
    <3> QED BY <3>1, <3>2, <3>3, <3>4
  <2> QED BY <2>3, <2>4, <2>6, <2>7 DEF Tells
<1> QED BY <1>1, <1>2 DEF TellsInv

(* pause() preserves TellsInv.                                              *)
LEMMA PauseKeepsTells ==
    ASSUME Inv, ResourceInv, TellsInv, NEW t \in Threads, Pause(t)
    PROVE  TellsInv'
<1> USE EsplayerAssumption
    DEF Pause, PauseCheck, PauseStop, PauseLock, PauseBody, Return, GoTo, At, Crash,
        ChangeAndWait, Fails, resourceVars, partVars
<1>0. t = App
  BY DEF Inv, WhoIsWhere, PolicyPlaces, Threads
<1>1. StuckIsPartial'
  BY DEF TellsInv, StuckIsPartial
<1>2. ASSUME Faultless'
      PROVE  Tells'
  <2>1. Faultless /\ Tells
    BY <1>2 DEF Faultless, TellsInv
  <2>2. pc[App] \in {"idle", "pauseStop", "pauseLock", "pauseBody"} /\ save = NoStatus /\ save' = NoStatus
    BY <1>0 DEF ResourceInv, NothingSaved, FlushBody
  <2>3. StatusesFit' /\ StatusStays'
    BY <1>0, <2>1, <2>2 DEF Inv, WhoIsWhere, Typed, StatusTyped, Statuses, CanTransit, Reachable, Tells,
       StatusesFit,
       StatusStays, FlushBody, NoStatus
  <2>4. CASE PauseCheck(t) \/ PauseStop(t) \/ PauseLock(t)
    <3>1. LoadTells'
      BY <1>0, <2>1, <2>2, <2>4 DEF Inv, WhoIsWhere, Tells, LoadTells, LoadPlaces, AudioRuns, VideoMade,
         Exists
    <3>2. PlayingTells' /\ PausedTells' /\ LateFits'
      BY <1>0, <2>1, <2>2, <2>4 DEF Inv, WhoIsWhere, Tells, PlayingTells, PausedTells, PauseTold, Starting,
         Commanded, All, LateFits, StatusStays, NoStatus
    <3> QED BY <2>3, <3>1, <3>2 DEF Tells
  <2>5. CASE PauseBody(t)
    <3>1. Starting /\ status = "PLAYING" /\ ~running
      BY <1>0, <2>1, <2>5 DEF Tells, StatusStays, PlayingTells
    <3>2. \A p \in Parts : Exists(p)
      BY <2>1, <3>1, StartedExist DEF Tells
    <3>3. PICK k \in 0 .. 5 :
             comp' = Changed("pause", k) /\ AllChanged(k) /\ status' = "PAUSED" /\ overtaken' = (late' # {})
      BY <1>2, <2>5, <3>2 DEF Faultless, Parts, VideoParts, AudioParts
    <3>4. All("pause")'
      BY <3>2, <3>3, ChangesAll
    <3>5. status' = "PAUSED" /\ ~running'
      BY <2>5, <3>1, <3>2, <3>3 DEF Parts, VideoParts, AudioParts
    <3>7. pc'[App] = "idle"
      BY <1>0, <2>5, <3>2 DEF Inv, WhoIsWhere, Parts, VideoParts, AudioParts
    <3>8. late' \subseteq Parts
      BY <2>5 DEF Inv, Typed, LateTyped, Crash
    <3>9. PauseTold' /\ LateFits'
      BY <3>3, <3>4, <3>8 DEF PauseTold, Commanded, LateFits, All
    <3>6. LoadTells' /\ PlayingTells' /\ PausedTells' /\ LateFits'
      BY <2>2, <3>5, <3>7, <3>9 DEF LoadTells, LoadPlaces, PlayingTells, PausedTells, NoStatus
    <3> QED BY <2>3, <3>6 DEF Tells
  <2> QED BY <2>4, <2>5
<1> QED BY <1>1, <1>2 DEF TellsInv

(* stepFrame() preserves TellsInv.                                          *)
LEMMA StepKeepsTells ==
    ASSUME Inv, ResourceInv, TellsInv, NEW t \in Threads, Step(t)
    PROVE  TellsInv'
<1> USE EsplayerAssumption
    DEF Step, StepCheck, StepEnter, StepExit, Return, GoTo, At, Crash, resourceVars, partVars
<1>0. t = App
  BY DEF Inv, WhoIsWhere, PolicyPlaces, Threads
<1>1. StuckIsPartial'
  BY DEF TellsInv, StuckIsPartial
<1>2. ASSUME Faultless'
      PROVE  Tells'
  <2>1. Faultless /\ Tells
    BY <1>2 DEF Faultless, TellsInv
  <2>2. pc[App] # "stepExit" => pc[App] \in {"idle", "stepEnter"} /\ save = NoStatus
    BY <1>0 DEF ResourceInv, NothingSaved, FlushBody
  <2>3. StatusesFit' /\ StatusStays'
    BY <1>0, <2>1, <2>2 DEF Inv, WhoIsWhere, Typed, StatusTyped, Statuses, CanTransit, Reachable, Tells,
       StatusesFit,
       StatusStays, FlushBody, NoStatus
  <2>4. LoadTells'
    BY <1>0, <2>1, <2>2 DEF Inv, WhoIsWhere, Tells, StatusesFit, LoadTells, LoadPlaces, AudioRuns, VideoMade,
       Exists
  <2>5. PlayingTells' /\ PausedTells'
    BY <1>0, <2>1, <2>2 DEF Inv, WhoIsWhere, Tells, PlayingTells, PausedTells, PauseTold, Starting, Commanded,
       All, StatusesFit, StatusStays, NoStatus
  <2>6. LateFits'
    BY <2>1 DEF Tells, LateFits
  <2> QED BY <2>3, <2>4, <2>5, <2>6 DEF Tells
<1> QED BY <1>1, <1>2 DEF TellsInv

(* flush() preserves TellsInv.                                              *)
LEMMA FlushKeepsTells ==
    ASSUME Inv, ResourceInv, TellsInv, NEW t \in Threads, Flush(t)
    PROVE  TellsInv'
<1> USE EsplayerAssumption
    DEF Flush, FlushCheck, FlushLock, FlushPause, FlushResume, FlushEnd, EarlyReturn,
        SavedStatus, Restored, Return, GoTo, At, ChangeAndWait, Fails, resourceVars, partVars
<1>0. t = App
  BY DEF Inv, WhoIsWhere, PolicyPlaces, Threads
<1>1. StuckIsPartial'
  BY DEF TellsInv, StuckIsPartial
<1>2. ASSUME Faultless'
      PROVE  Tells'
  <2>1. Faultless /\ Tells
    BY <1>2 DEF Faultless, TellsInv
  <2>2. pc[App] \notin FlushBody => pc[App] \in {"idle", "flushLock"} /\ save = NoStatus
    BY <1>0 DEF ResourceInv, NothingSaved, FlushBody
  <2>3. StatusesFit' /\ StatusStays'
    <3>1. CASE FlushCheck(t) \/ FlushLock(t)
      <4>1. status # "STEPPING" /\ status # "FLUSHING" /\ save = NoStatus
        BY <1>0, <2>1, <2>2, <3>1 DEF Tells, StatusesFit, FlushBody
      <4> QED
        BY <1>0, <1>2, <2>1, <3>1, <4>1 DEF Inv, WhoIsWhere, Faultless, Tells, StatusesFit, StatusStays,
           FlushBody, NoStatus
    <3>2. CASE FlushEnd(t)
      BY <1>0, <2>1, <3>2 DEF Inv, WhoIsWhere, Tells, StatusesFit, StatusStays, FlushBody, NoStatus
    <3>3. CASE FlushPause(t)
      <4>1. pc' = [pc EXCEPT ![App] = "flushEnd"] \/ pc' = [pc EXCEPT ![App] = "flushResume"]
        BY <1>0, <1>2, <3>3 DEF Faultless
      <4>2. status' = status /\ save' = save
        BY <1>0, <1>2, <3>3 DEF Faultless
      <4> QED
        BY <1>0, <2>1, <3>3, <4>1, <4>2 DEF Inv, WhoIsWhere, Tells, StatusesFit, StatusStays, FlushBody
    <3>4. CASE FlushResume(t)
      <4>1. pc' = [pc EXCEPT ![App] = "flushEnd"] /\ status' = status /\ save' = save
        BY <1>0, <3>4
      <4> QED
        BY <1>0, <2>1, <3>4, <4>1 DEF Inv, WhoIsWhere, Tells, StatusesFit, StatusStays, FlushBody
    <3> QED BY <3>1, <3>2, <3>3, <3>4
  <2>4. LoadTells'
    BY <1>0, <1>2, <2>1, <2>2, <2>3 DEF Inv, WhoIsWhere, Tells, StatusesFit, LoadTells, LoadPlaces,
       AudioRuns, VideoMade,
       Exists
  <2>5. CASE FlushCheck(t) \/ FlushLock(t) \/ FlushEnd(t)
    <3>1. UNCHANGED partVars
      BY <2>5
    <3>2. (Starting' <=> Starting) /\ (PauseTold' <=> PauseTold) /\ (LateFits' <=> LateFits)
      BY <3>1 DEF Starting, PauseTold, Commanded, All, LateFits
    <3>3. PlayingTells' /\ PausedTells'
      BY <1>0, <2>1, <2>2, <2>5, <3>2 DEF Inv, WhoIsWhere, Tells, PlayingTells, PausedTells, StatusesFit,
         FlushBody, NoStatus
    <3> QED BY <2>1, <2>3, <2>4, <3>2, <3>3 DEF Tells
  <2>6. CASE FlushPause(t) \/ FlushResume(t)
    <3>1. status = "FLUSHING" /\ status' = "FLUSHING" /\ save' = save /\ running' = running
      BY <1>0, <1>2, <2>1, <2>6 DEF Faultless, Tells, StatusesFit, FlushBody
    <3>2. pc[App] \in FlushBody /\ pc'[App] \in {"flushResume", "flushEnd"}
      BY <1>0, <1>2, <2>6 DEF Inv, WhoIsWhere, Faultless, FlushBody
    <3>3. ASSUME save = "PLAYING"
          PROVE  (running /\ IF pc[App] = "flushResume" THEN Commanded ELSE Starting)'
      <4>1. running /\ IF pc[App] = "flushResume" THEN Commanded ELSE Starting
        BY <2>1, <3>3 DEF Tells, PlayingTells
      <4>2. \A p \in Parts : Exists(p)
        BY <2>1, <4>1, StartedExist DEF Tells, Commanded, Exists
      <4>3. CASE FlushPause(t)
        <5>1. pc[App] = "flushPause"
          BY <1>0, <4>3
        <5>2. \/ pc'[App] = "flushEnd" /\ comp' = comp /\ late' = late
              \/ pc'[App] = "flushResume" /\ comp' = Changed("pause", 5)
          <6>1. \/ pc' = [pc EXCEPT ![App] = "flushEnd"] /\ comp' = comp /\ late' = late
                \/ pc' = [pc EXCEPT ![App] = "flushResume"] /\ comp' = Changed("pause", 5)
            BY <1>0, <1>2, <3>3, <4>3 DEF Faultless
          <6> QED BY <1>0, <6>1 DEF Inv, WhoIsWhere
        <5>3. AllChanged(5)
          BY DEF AllChanged, Parts, VideoParts, AudioParts, Rank
        <5>4. pc'[App] = "flushResume" => All("pause")'
          BY <4>2, <5>2, <5>3, ChangesAll
        <5> QED BY <3>1, <4>1, <5>1, <5>2, <5>4 DEF All, Starting, Commanded
      <4>4. CASE FlushResume(t)
        <5>1. pc'[App] = "flushEnd"
          BY <1>0, <4>4 DEF Inv, WhoIsWhere
        <5>2. PICK k \in 0 .. 5 : late' = Resumed(k) /\ AllChanged(k)
          BY <1>2, <3>3, <4>2, <4>4 DEF Faultless, Parts, VideoParts, AudioParts
        <5>3. Starting'
          BY <4>2, <4>4, <5>2 DEF AllChanged, Resumed, Sent, Starting
        <5> QED BY <3>1, <4>1, <5>1, <5>3
      <4> QED BY <2>6, <4>3, <4>4
    <3>4. ASSUME save = "PAUSED"
          PROVE  (~running /\ PauseTold)'
      <4>1. UNCHANGED partVars
        BY <1>2, <2>6, <3>4 DEF Faultless
      <4> QED BY <2>1, <3>1, <3>4, <4>1 DEF Tells, PausedTells, PauseTold, Commanded, All
    <3>5. PlayingTells' /\ PausedTells'
      BY <3>1, <3>2, <3>3, <3>4 DEF PlayingTells, PausedTells
    <3>6. LateFits'
      <4>1. CASE FlushPause(t)
        <5>1. comp' = comp \/ comp' = Changed("pause", 5)
          BY <1>2, <4>1 DEF Faultless
        <5>2. late' \subseteq late
          BY <1>2, <4>1 DEF Faultless
        <5> QED BY <2>1, <5>1, <5>2 DEF Tells, LateFits, Changed, Inv, Typed, LateTyped
      <4>2. CASE FlushResume(t)
        <5>1. comp' = comp
          BY <4>2
        <5>2. CASE save = "PLAYING"
          <6>1. Commanded
            BY <1>0, <2>1, <4>2, <5>2 DEF Tells, PlayingTells
          <6>2. \A p \in late' : p \in late \/ (p \in Parts /\ comp[p] # "exec")
            BY <4>2, <5>2 DEF Resumed, Sent
          <6> QED BY <2>1, <5>1, <6>1, <6>2 DEF Tells, LateFits, Commanded
        <5>3. CASE save # "PLAYING"
          BY <2>1, <4>2, <5>1, <5>3 DEF Tells, LateFits
        <5> QED BY <5>2, <5>3
      <4> QED BY <2>6, <4>1, <4>2
    <3> QED BY <2>3, <2>4, <3>5, <3>6 DEF Tells
  <2> QED BY <2>5, <2>6
<1> QED BY <1>1, <1>2 DEF TellsInv

(* A part that executes late preserves TellsInv: it does what it was told.  *)
LEMMA CarryOutKeepsTells ==
    ASSUME Inv, TellsInv, NEW p \in Parts, CarryOut(p)
    PROVE  TellsInv'
<1> USE DEF CarryOut, Fails
<1>1. StuckIsPartial'
  BY DEF TellsInv, StuckIsPartial
<1>2. ASSUME Faultless'
      PROVE  Tells'
  <2>1. Faultless /\ Tells
    BY <1>2 DEF Faultless, TellsInv
  <2>2. comp' = [comp EXCEPT ![p] = "exec"] /\ p \in late /\ late' = late \ {p}
    BY <1>2 DEF Faultless
  <2>3. comp[p] = "pause" /\ comp'[p] = "exec" /\ \A q \in Parts \ {p} : comp'[q] = comp[q]
    BY <2>1, <2>2 DEF Tells, LateFits, Inv, Typed, CompTyped
  <2>4. StatusesFit' /\ StatusStays'
    BY <2>1 DEF Tells, StatusesFit, StatusStays
  <2>5. LateFits'
    BY <2>1, <2>2, <2>3 DEF Tells, LateFits, Inv, Typed, LateTyped
  <2>6. LoadTells'
    <3>1. (AudioRuns => AudioRuns') /\ (VideoMade => VideoMade')
      BY <2>2, <2>3 DEF AudioRuns, VideoMade, Exists, Parts, VideoParts, AudioParts
    <3>2. pc[App] \notin LoadPlaces
      BY <2>1, <2>2 DEF Tells, LoadTells
    <3> QED BY <2>1, <3>1, <3>2 DEF Tells, LoadTells, LoadPlaces
  <2>7. (Starting => Starting') /\ (Commanded => Commanded') /\ (PauseTold => PauseTold')
    BY <2>2, <2>3 DEF Starting, Commanded, PauseTold, All
  <2>8. PlayingTells' /\ PausedTells'
    BY <2>1, <2>7 DEF Tells, PlayingTells, PausedTells
  <2> QED BY <2>4, <2>5, <2>6, <2>8 DEF Tells
<1> QED BY <1>1, <1>2 DEF TellsInv

(* TellsInv is inductive relative to Inv and ResourceInv.                   *)
LEMMA TellsInvHolds == Spec => []TellsInv
<1>1. Init => TellsInv
  BY DEF Init, TellsInv, StuckIsPartial, Faultless
<1>2. ASSUME Inv, ResourceInv, TellsInv, [Next]_vars
      PROVE  TellsInv'
  <2>1. CASE UNCHANGED vars
    <3> USE <2>1 DEF vars, partVars
    <3>1. (StatusesFit' <=> StatusesFit) /\ (LateFits' <=> LateFits)
      BY DEF StatusesFit, LateFits
    <3>2. StatusStays' <=> StatusStays
      BY DEF StatusStays
    <3>3. LoadTells' <=> LoadTells
      BY DEF LoadTells, NoParts, AudioRuns, VideoMade, Exists
    <3>4. (PlayingTells' <=> PlayingTells) /\ (PausedTells' <=> PausedTells)
      BY DEF PlayingTells, PausedTells, PauseTold, Starting, Commanded, All
    <3> QED BY <1>2, <3>1, <3>2, <3>3, <3>4 DEF TellsInv, StuckIsPartial, Faultless, Tells
  <2>2. CASE Next
    <3>1. \/ \E t \in Threads : Call(t)
          \/ \E p \in Parts : CarryOut(p)
      BY <2>2 DEF Next
    <3> QED
      BY <1>2, <3>1, LoadKeepsTells, TeardownKeepsTells, PlayKeepsTells, PauseKeepsTells, StepKeepsTells,
         FlushKeepsTells, CarryOutKeepsTells DEF Call
  <2> QED BY <1>2, <2>1, <2>2
<1> QED BY <1>1, <1>2, PlayerInvariant, ResourceInvHolds, PTL DEF Spec

(* At rest, a loaded player whose commands all succeeded does what its      *)
(* status says or is about to, PLAYING or PAUSED, whatever sequence of calls *)
(* led there and however many policy threads there are; a pause() that found *)
(* a part not yet resumed after flush() is the only way out.                *)
THEOREM StatusTellsPartsAlways == Spec => []StatusTellsParts
<1>1. Inv /\ TellsInv => StatusTellsParts
  <2> SUFFICES ASSUME Inv, TellsInv, Quiet, Faultless
               PROVE  /\ status = "PLAYING" => running /\ Starting
                      /\ status = "PAUSED" => ~running /\ PauseTold
    BY DEF StatusTellsParts, Settled, Faultless, Starting, PauseTold, All
  <2>1. pc[App] = "idle"
    BY DEF Quiet, Threads
  <2> QED BY <2>1 DEF TellsInv, Tells, PlayingTells, PausedTells
<1> QED BY PlayerInvariant, TellsInvHolds, <1>1, PTL
-----------------------------------------------------------------------------
(***************************************************************************)
(* Fourth layer: as long as no policy thread has torn the player down, and  *)
(* with content of both kinds, whoever uses a component has it.             *)
(***************************************************************************)
AllParts == \A p \in Parts : Exists(p)

(* Nobody but the application takes the player down.                        *)
OnlyAppUnloads ==
    /\ \A t \in Policies : pc[t] \notin UnloadBody
    /\ pc[App] \in UnloadBody => ~loaded

(* The clock is the first part made and the last to go.                     *)
ClockIsLast == ~NoParts => Exists("clock")

(* No operation on a loaded player works on an UNLOADED one.                *)
UnloadedIsOver ==
    /\ status = "UNLOADED" => ~loaded
    /\ pc[App] \in {"flushLock", "stepEnter"} => status # "UNLOADED"
    /\ save # "UNLOADED"

(* A player that is LOADED, or is to be, has all its parts,                 *)
LoadedHasAll ==
    pc[App] \notin UnloadBody =>
        /\ "LOADED" \in {status, save} => AllParts
        /\ pc[App] \in {"playLoaded", "loadFinish", "loadReport"} => AllParts

(* load() makes what the content asks for,                                  *)
LoadMakes ==
    /\ pc[App] = "loadAudio" => Exists("vcodec") /\ Exists("sched")
    /\ pc[App] \in {"loadClock", "loadVideo", "loadAudio"} => enabled = {"video", "audio"}

(* and whoever uses the clock has one.                                      *)
ClockUsers ==
    {"playRead", "playPaused", "playEnd", "pauseStop", "pauseLock", "pauseBody", "stepEnter", "stepExit",
     "loadVideo", "loadAudio"}
UsersHaveClock ==
    pc[App] \notin UnloadBody =>
        /\ {"PLAYING", "PAUSED", "STEPPING"} \cap {status, save} # {} => Exists("clock")
        /\ save = "FLUSHING" => Exists("clock")
        /\ status = "FLUSHING" /\ pc[App] \notin FlushBody => Exists("clock")
        /\ pc[App] \in ClockUsers => Exists("clock")

Supplied ==
    /\ ~crashed
    /\ OnlyAppUnloads /\ ClockIsLast /\ UnloadedIsOver /\ LoadedHasAll /\ LoadMakes /\ UsersHaveClock
NullInv == "policyUnload" \notin past => Supplied

BothKinds == Contents \subseteq {{"video", "audio"}}

SameParts == \A p \in Parts : Exists(p)' <=> Exists(p)

(* changeComponentsState() neither makes nor destroys a part.               *)
LEMMA ChangedKeepsParts ==
    ASSUME NEW s, s # "none", NEW k, comp' = Changed(s, k)
    PROVE  SameParts
BY DEF SameParts, Exists, Changed

(* unload() and the policy action preserve NullInv.                         *)
LEMMA TeardownKeepsSupplied ==
    ASSUME Inv, ResourceInv, NullInv, NEW t \in Threads, Unload(t) \/ Policy(t)
    PROVE  NullInv'
<1> USE EsplayerAssumption
    DEF Unload, UnloadCheck, UnloadLock, UnloadDestroy, UnloadFinish, ReleaseResource, Policy, PolicyAction,
        PolicyRelease, Return, GoTo, At, resourceVars, partVars
<1> SUFFICES ASSUME "policyUnload" \notin past'
             PROVE  Supplied'
  BY DEF NullInv
<1>1. past \subseteq past'
  OBVIOUS
<1>2. Supplied
  BY <1>1 DEF NullInv
<1>3. crashed' = crashed /\ save' = save /\ enabled' = enabled
  OBVIOUS
<1>d. loaded' => loaded
  OBVIOUS
<1>a. pc \in [Threads -> Places] /\ pc[App] # "release" /\ (loaded' => loaded)
  BY <1>d DEF Inv, WhoIsWhere
<1>b. UnloadLock(t) /\ loaded => t = App
  BY <1>1
<1>c. t \in Policies => ~UnloadDestroy(t) /\ ~UnloadFinish(t)
  BY <1>2 DEF Supplied, OnlyAppUnloads, UnloadBody
<1>4. OnlyAppUnloads'
  <2>1. CASE UnloadLock(t)
    BY <1>2, <1>a, <1>b, <2>1 DEF Supplied, OnlyAppUnloads, UnloadBody, Threads
  <2>2. CASE Unload(t) /\ ~UnloadLock(t)
    BY <1>2, <1>a, <1>c, <2>2 DEF Supplied, OnlyAppUnloads, UnloadBody, Threads
  <2>3. CASE Policy(t)
    BY <1>2, <1>a, <2>3 DEF Supplied, OnlyAppUnloads, UnloadBody, Threads
  <2> QED BY <2>1, <2>2, <2>3
<1>5. ClockIsLast'
  <2>1. CASE UnloadDestroy(t)
    BY <1>2, <2>1 DEF Supplied, ClockIsLast, NoParts, Exists, FirstToGo, IsFirst, Parts, VideoParts,
       AudioParts,
       ExitRank, Inv, Typed,
       CompTyped
  <2>2. CASE ~UnloadDestroy(t)
    <3>1. comp' = comp
      BY <2>2
    <3> QED BY <1>2, <3>1 DEF Supplied, ClockIsLast, NoParts, Exists
  <2> QED BY <2>1, <2>2
<1>6. UnloadedIsOver'
  <2>1. CASE UnloadFinish(t)
    <3>1. t = App /\ ~loaded
      BY <1>2, <1>c, <2>1 DEF Supplied, OnlyAppUnloads, UnloadBody, Threads
    <3> QED BY <1>2, <1>3, <1>a, <2>1, <3>1 DEF Supplied, UnloadedIsOver
  <2>2. CASE ~UnloadFinish(t)
    <3>1. status' = status
      BY <2>2
    <3>2. pc'[App] \in {"flushLock", "stepEnter"} => pc'[App] = pc[App]
      <4>1. CASE Unload(t) /\ pc'[t] \in {"idle", "release", "unloadLock", "unloadDestroy", "unloadFinish"}
        BY <1>a, <4>1 DEF Threads
      <4>2. CASE Policy(t)
        BY <1>a, <4>2 DEF Threads
      <4>3. Unload(t) => pc'[t] \in {"idle", "release", "unloadLock", "unloadDestroy", "unloadFinish"}
        BY <1>a
      <4> QED BY <4>1, <4>2, <4>3
    <3> QED BY <1>2, <1>3, <1>a, <3>1, <3>2 DEF Supplied, UnloadedIsOver
  <2> QED BY <2>1, <2>2
<1>7. LoadedHasAll' /\ LoadMakes' /\ UsersHaveClock'
  <2>1. CASE UnloadDestroy(t) \/ UnloadFinish(t)
    <3>1. t = App /\ save = NoStatus /\ pc[App] \in UnloadBody
      BY <1>2, <2>1 DEF Supplied, OnlyAppUnloads, Threads, ResourceInv, NothingSaved, UnloadBody, FlushBody
    <3> QED
      BY <1>3, <2>1, <3>1 DEF LoadedHasAll, LoadMakes, UsersHaveClock, ClockUsers, UnloadBody, FlushBody,
         NoStatus, Inv, WhoIsWhere
  <2>2. CASE ~(UnloadDestroy(t) \/ UnloadFinish(t))
    <3>1. UNCHANGED <<status, comp>>
      BY <2>2
    <3>2. \/ pc'[App] = pc[App]
          \/ pc'[App] \in UnloadBody
          \/ pc'[App] \in {"idle", "unloadLock"} /\ pc[App] \in {"idle", "unloadLock"}
      <4>1. CASE t = App
        <5>1. CASE UnloadCheck(t) \/ UnloadLock(t)
          BY <1>a, <4>1, <5>1 DEF UnloadBody
        <5> QED BY <1>a, <2>2, <4>1, <5>1
      <4>2. CASE t # App
        BY <1>a, <4>2 DEF Threads
      <4> QED BY <4>1, <4>2
    <3> QED
      BY <1>2, <1>3, <3>1, <3>2 DEF Supplied, LoadedHasAll, LoadMakes, UsersHaveClock, ClockUsers,
         UnloadBody, FlushBody, Exists, AllParts
  <2> QED BY <2>1, <2>2
<1> QED BY <1>2, <1>3, <1>4, <1>5, <1>6, <1>7 DEF Supplied

(* load() preserves NullInv: this is where the content matters.             *)
LEMMA LoadKeepsSupplied ==
    ASSUME Inv, ResourceInv, NullInv, BothKinds, NEW t \in Threads, Load(t)
    PROVE  NullInv'
<1> USE EsplayerAssumption
    DEF Load, LoadBlocked, LoadStart, LoadAcquire, LoadClock, LoadVideo, LoadAudio,
        LoadFinish, LoadFails, LoadReport, AudioSteps, Enabled, GoTo, At, Crash, resourceVars, partVars
<1> SUFFICES ASSUME "policyUnload" \notin past'
             PROVE  Supplied'
  BY DEF NullInv
<1>1. past \subseteq past'
  OBVIOUS
<1>2. Supplied
  BY <1>1 DEF NullInv
<1>3. t = App /\ save' = save /\ save = NoStatus
  BY DEF Inv, WhoIsWhere, PolicyPlaces, Threads, ResourceInv, NothingSaved, FlushBody
<1>a. pc[App] \notin UnloadBody /\ pc'[App] \notin UnloadBody \cup FlushBody
  BY <1>3 DEF Inv, WhoIsWhere, UnloadBody, FlushBody
<1>b. ~crashed'
  BY <1>2, <1>3, <1>a DEF Supplied, LoadedHasAll, AllParts, Parts, VideoParts, AudioParts
<1>4. OnlyAppUnloads'
  BY <1>2, <1>3, <1>a DEF Supplied, OnlyAppUnloads, UnloadBody, Inv, WhoIsWhere, Threads
<1>c. Exists("clock") => Exists("clock")'
  BY DEF Exists, Inv, Typed, CompTyped, Parts, VideoParts, AudioParts
<1>d. pc[App] \in {"loadVideo", "loadAudio"} => Exists("clock")
  BY <1>2, <1>a DEF Supplied, UsersHaveClock, ClockUsers
<1>5. ClockIsLast'
  <2>1. CASE LoadClock(t)
    BY <1>2, <2>1 DEF Supplied, ClockIsLast, NoParts, Exists, Parts, VideoParts, AudioParts, Inv, Typed,
       CompTyped
  <2>2. CASE LoadVideo(t) \/ LoadAudio(t)
    BY <1>3, <1>c, <1>d, <2>2 DEF ClockIsLast
  <2>3. CASE ~(LoadClock(t) \/ LoadVideo(t) \/ LoadAudio(t))
    <3>1. comp' = comp
      BY <2>3
    <3> QED BY <1>2, <3>1 DEF Supplied, ClockIsLast, NoParts, Exists
  <2> QED BY <2>1, <2>2, <2>3
<1>6. UnloadedIsOver'
  BY <1>2, <1>3 DEF Supplied, UnloadedIsOver, Inv, WhoIsWhere, CanTransit, Reachable, NoStatus
<1>7. LoadMakes'
  BY <1>2, <1>3 DEF Supplied, LoadMakes, BothKinds, Exists, Inv, WhoIsWhere, Typed, CompTyped, Parts,
     VideoParts, AudioParts
<1>8. LoadedHasAll'
  <2>1. AllParts => AllParts'
    BY DEF AllParts, Exists, Inv, Typed, CompTyped, Parts, VideoParts, AudioParts
  <2>2. pc'[App] = "loadFinish" => AllParts'
    BY <1>2, <1>3, <1>a DEF Supplied, LoadMakes, LoadedHasAll, AllParts, Exists, Inv, WhoIsWhere, Typed,
       CompTyped, Parts, VideoParts, AudioParts
  <2>3. pc'[App] = "loadReport" => AllParts
    BY <1>2, <1>3, <1>a DEF Supplied, LoadedHasAll, Inv, WhoIsWhere
  <2>4. status' = "LOADED" => AllParts
    BY <1>2, <1>3, <1>a DEF Supplied, LoadedHasAll
  <2> QED BY <1>3, <1>a, <2>1, <2>2, <2>3, <2>4 DEF LoadedHasAll, Inv, WhoIsWhere, NoStatus
<1>9. UsersHaveClock'
  <2>1. pc'[App] \in ClockUsers => Exists("clock")'
    BY <1>2, <1>3, <1>a, <1>c, <1>d DEF Inv, WhoIsWhere, Exists, Typed, CompTyped, Parts, VideoParts,
       AudioParts, ClockUsers
  <2>2. status' = status \/ status' = "LOADED"
    OBVIOUS
  <2>3. pc[App] \notin FlushBody
    BY <1>3 DEF FlushBody
  <2> QED BY <1>2, <1>3, <1>a, <1>c, <2>1, <2>2, <2>3 DEF Supplied, UsersHaveClock, NoStatus
<1> QED BY <1>b, <1>4, <1>5, <1>6, <1>7, <1>8, <1>9 DEF Supplied

(* No call but load() and unload() makes or destroys a part.                *)
LEMMA CallsKeepParts ==
    ASSUME Inv, NullInv, "policyUnload" \notin past, NEW t \in Threads,
           Play(t) \/ Pause(t) \/ Step(t) \/ Flush(t)
    PROVE  SameParts
<1> USE EsplayerAssumption DEF At
<1>1. CASE Play(t)
  <2>1. CASE PlayLoaded(t)
    BY <2>1 DEF PlayLoaded, SameParts, Exists, Crash, Parts, VideoParts, AudioParts, partVars
  <2>2. CASE PlayPaused(t)
    <3>1. comp' = comp \/ \E k \in 0 .. 5 : comp' = Changed("exec", k)
      BY <2>2 DEF PlayPaused, ChangeAndWait, Crash, partVars
    <3> QED BY <3>1, ChangedKeepsParts DEF SameParts, Exists
  <2>3. CASE PlayCheck(t) \/ PlayRead(t) \/ PlayEnd(t)
    BY <2>3 DEF PlayCheck, PlayRead, PlayEnd, SameParts, Exists, partVars
  <2> QED BY <1>1, <2>1, <2>2, <2>3 DEF Play
<1>2. CASE Pause(t)
  <2>1. CASE PauseBody(t)
    <3>1. comp' = comp \/ \E k \in 0 .. 5 : comp' = Changed("pause", k)
      BY <2>1 DEF PauseBody, ChangeAndWait, Crash, partVars
    <3> QED BY <3>1, ChangedKeepsParts DEF SameParts, Exists
  <2>2. CASE PauseCheck(t) \/ PauseStop(t) \/ PauseLock(t)
    BY <2>2 DEF PauseCheck, PauseStop, PauseLock, SameParts, Exists, partVars
  <2> QED BY <1>2, <2>1, <2>2 DEF Pause
<1>3. CASE Step(t)
  BY <1>3 DEF Step, StepCheck, StepEnter, StepExit, Crash, SameParts, Exists, partVars
<1>4. CASE Flush(t)
  <2>1. CASE FlushPause(t)
    <3>1. comp' = comp \/ \E k \in 0 .. 5 : comp' = Changed("pause", k)
      BY <2>1 DEF FlushPause, ChangeAndWait, partVars
    <3> QED BY <3>1, ChangedKeepsParts DEF SameParts, Exists
  <2>2. CASE FlushResume(t)
    BY <2>2 DEF FlushResume, SameParts, Exists
  <2>3. CASE FlushCheck(t) \/ FlushLock(t) \/ FlushEnd(t)
    BY <2>3 DEF FlushCheck, FlushLock, FlushEnd, SameParts, Exists, partVars
  <2> QED BY <1>4, <2>1, <2>2, <2>3 DEF Flush
<1> QED BY <1>1, <1>2, <1>3, <1>4

(* play(), pause() and stepFrame() preserve NullInv.                        *)
LEMMA CallKeepsSupplied ==
    ASSUME Inv, ResourceInv, NullInv, NEW t \in Threads, Play(t) \/ Pause(t) \/ Step(t)
    PROVE  NullInv'
<1> USE EsplayerAssumption
    DEF Play, PlayCheck, PlayRead, PlayLoaded, PlayPaused, PlayEnd, Return, GoTo, At, Crash,
        ChangeAndWait, Fails, resourceVars, partVars, Pause, PauseCheck, PauseStop, PauseLock, PauseBody,
        Step, StepCheck, StepEnter, StepExit
<1> SUFFICES ASSUME "policyUnload" \notin past'
             PROVE  Supplied'
  BY DEF NullInv
<1>1. "policyUnload" \notin past
  OBVIOUS
<1>2. Supplied
  BY <1>1 DEF NullInv
<1>3. SameParts
  BY <1>1, CallsKeepParts
<1>4. t = App /\ loaded' = loaded /\ enabled' = enabled
  BY DEF Inv, WhoIsWhere, PolicyPlaces, Threads
<1>5. pc[App] \notin UnloadBody \cup FlushBody /\ pc'[App] \notin UnloadBody \cup FlushBody
  BY <1>4 DEF Inv, WhoIsWhere, UnloadBody, FlushBody
<1>6. ~crashed'
  BY <1>2, <1>4, <1>5 DEF Supplied, LoadedHasAll, UsersHaveClock, ClockUsers, AllParts, Parts, VideoParts,
     AudioParts
<1>7. OnlyAppUnloads'
  BY <1>2, <1>4, <1>5 DEF Supplied, OnlyAppUnloads, UnloadBody, Inv, WhoIsWhere, Threads
<1>8. ClockIsLast'
  BY <1>2, <1>3 DEF Supplied, ClockIsLast, NoParts, SameParts, Exists, Parts, VideoParts, AudioParts
<1>9. LoadMakes'
  BY <1>2, <1>3, <1>4 DEF Supplied, LoadMakes, SameParts, Exists, Parts, VideoParts, AudioParts, Inv,
     WhoIsWhere
<1>10. (AllParts => AllParts') /\ (Exists("clock") => Exists("clock")')
  BY <1>3 DEF SameParts, AllParts, Parts, VideoParts, AudioParts
<1>11. UnloadedIsOver'
  BY <1>2, <1>4 DEF Supplied, UnloadedIsOver, Inv, WhoIsWhere, NoStatus, CanTransit, Reachable
<1>12. LoadedHasAll'
  BY <1>2, <1>4, <1>5, <1>10 DEF Supplied, LoadedHasAll, Inv, WhoIsWhere, NoStatus
<1>13. UsersHaveClock'
  <2>1. status \in {"PLAYING", "PAUSED", "STEPPING", "LOADED", "FLUSHING"} => Exists("clock")
    BY <1>2, <1>5 DEF Supplied, UsersHaveClock, LoadedHasAll, AllParts, Parts, VideoParts, AudioParts
  <2>2. save \in {"PLAYING", "PAUSED", "STEPPING", "LOADED", "FLUSHING"} => Exists("clock")
    BY <1>2, <1>5 DEF Supplied, UsersHaveClock, LoadedHasAll, AllParts, Parts, VideoParts, AudioParts
  <2>3. pc[App] \in ClockUsers \cup {"playLoaded"} => Exists("clock")
    BY <1>2, <1>5 DEF Supplied, UsersHaveClock, LoadedHasAll, AllParts, Parts, VideoParts, AudioParts
  <2>4. pc'[App] \in ClockUsers => Exists("clock")
    BY <1>4, <2>1, <2>3 DEF ClockUsers, Inv, WhoIsWhere, CanTransit, Reachable, Typed, StatusTyped, Statuses
  <2>5. status' \in {"PLAYING", "PAUSED", "STEPPING", "FLUSHING"} => Exists("clock")
    BY <1>4, <2>1, <2>2, <2>3 DEF ClockUsers
  <2>6. save' \in {"PLAYING", "PAUSED", "STEPPING", "FLUSHING"} => Exists("clock")
    BY <1>4, <2>1, <2>2 DEF NoStatus
  <2> QED BY <1>10, <2>4, <2>5, <2>6 DEF UsersHaveClock
<1> QED BY <1>6, <1>7, <1>8, <1>9, <1>11, <1>12, <1>13 DEF Supplied

(* flush() preserves NullInv.                                               *)
LEMMA FlushKeepsSupplied ==
    ASSUME Inv, ResourceInv, NullInv, NEW t \in Threads, Flush(t)
    PROVE  NullInv'
<1> USE EsplayerAssumption
    DEF Flush, FlushCheck, FlushLock, FlushPause, FlushResume, FlushEnd, EarlyReturn,
        SavedStatus, Restored, Return, GoTo, At, ChangeAndWait, Fails, resourceVars, partVars
<1> SUFFICES ASSUME "policyUnload" \notin past'
             PROVE  Supplied'
  BY DEF NullInv
<1>1. "policyUnload" \notin past
  OBVIOUS
<1>2. Supplied
  BY <1>1 DEF NullInv
<1>3. SameParts
  BY <1>1, CallsKeepParts
<1>4. t = App /\ loaded' = loaded /\ enabled' = enabled /\ crashed' = crashed
  BY DEF Inv, WhoIsWhere, PolicyPlaces, Threads
<1>5. pc[App] \notin UnloadBody /\ pc'[App] \in FlushBody \cup {"idle", "flushLock"}
  BY <1>4 DEF Inv, WhoIsWhere, UnloadBody, FlushBody
<1>7. OnlyAppUnloads'
  BY <1>2, <1>4, <1>5 DEF Supplied, OnlyAppUnloads, UnloadBody, FlushBody, Inv, WhoIsWhere, Threads
<1>8. ClockIsLast'
  BY <1>2, <1>3 DEF Supplied, ClockIsLast, NoParts, SameParts, Exists, Parts, VideoParts, AudioParts
<1>9. LoadMakes'
  BY <1>5 DEF LoadMakes, FlushBody
<1>10. (AllParts => AllParts') /\ (Exists("clock") => Exists("clock")')
  BY <1>3 DEF SameParts, AllParts, Parts, VideoParts, AudioParts
<1>11. UnloadedIsOver'
  BY <1>2, <1>4 DEF Supplied, UnloadedIsOver, Inv, WhoIsWhere, NoStatus
<1>12. LoadedHasAll'
  BY <1>2, <1>4, <1>5, <1>10 DEF Supplied, LoadedHasAll, FlushBody, Inv, WhoIsWhere, NoStatus
<1>13. UsersHaveClock'
  <2>1. FlushPause(t) /\ pc'[App] \notin FlushBody => Exists("clock")
    BY <1>2, <1>4 DEF Supplied, ClockIsLast, NoParts, AllChanged, Exists, Inv, WhoIsWhere, FlushBody
  <2> QED
    BY <1>2, <1>4, <1>5, <1>10, <2>1 DEF Supplied, UsersHaveClock, ClockUsers, FlushBody, Inv, WhoIsWhere,
       NoStatus
<1> QED BY <1>2, <1>4, <1>7, <1>8, <1>9, <1>11, <1>12, <1>13 DEF Supplied

(* A part that executes late preserves NullInv: it is neither made nor      *)
(* destroyed.                                                               *)
LEMMA CarryOutKeepsSupplied ==
    ASSUME Inv, NullInv, NEW p \in Parts, CarryOut(p)
    PROVE  NullInv'
<1> USE DEF CarryOut, Fails
<1> SUFFICES ASSUME "policyUnload" \notin past'
             PROVE  Supplied'
  BY DEF NullInv
<1>1. Supplied
  BY DEF NullInv
<1>2. SameParts
  BY DEF SameParts, Exists, Inv, Typed, CompTyped, LateExist
<1>3. (NoParts' <=> NoParts) /\ (AllParts' <=> AllParts)
  BY <1>2 DEF SameParts, NoParts, AllParts, Exists
<1>4. \A q \in {"clock", "vcodec", "sched"} : Exists(q)' <=> Exists(q)
  BY <1>2 DEF SameParts, Parts, VideoParts
<1>5. ~crashed' /\ OnlyAppUnloads' /\ UnloadedIsOver'
  BY <1>1 DEF Supplied, OnlyAppUnloads, UnloadedIsOver
<1>6. ClockIsLast' /\ LoadedHasAll' /\ LoadMakes' /\ UsersHaveClock'
  BY <1>1, <1>3, <1>4 DEF Supplied, ClockIsLast, LoadedHasAll, LoadMakes, UsersHaveClock
<1> QED BY <1>5, <1>6 DEF Supplied

(* NullInv is inductive relative to Inv and ResourceInv.                    *)
LEMMA NullInvHolds ==
    ASSUME BothKinds
    PROVE  Spec => []NullInv
<1>1. Init => NullInv
  BY EsplayerAssumption DEF Init, NullInv, Supplied, OnlyAppUnloads, ClockIsLast, UnloadedIsOver,
     LoadedHasAll, LoadMakes,
     UsersHaveClock, ClockUsers, UnloadBody, NoParts, NoStatus, Threads
<1>2. ASSUME Inv, ResourceInv, NullInv, [Next]_vars
      PROVE  NullInv'
  <2>1. CASE UNCHANGED vars
    BY <1>2, <2>1 DEF vars, resourceVars, partVars, NullInv, Supplied, OnlyAppUnloads, ClockIsLast,
       UnloadedIsOver,
       LoadedHasAll, LoadMakes,
     UsersHaveClock, NoParts, AllParts, Exists
  <2>2. CASE Next
    <3>1. \/ \E t \in Threads : Call(t)
          \/ \E p \in Parts : CarryOut(p)
      BY <2>2 DEF Next
    <3> QED
      BY <1>2, <3>1, LoadKeepsSupplied, TeardownKeepsSupplied, CallKeepsSupplied, FlushKeepsSupplied,
         CarryOutKeepsSupplied DEF Call
  <2> QED BY <1>2, <2>1, <2>2
<1> QED BY <1>1, <1>2, PlayerInvariant, ResourceInvHolds, PTL DEF Spec

(* With content of both kinds, a client that calls from one thread makes    *)
(* the player use a null component only after the media server's unload()   *)
(* has torn it down; any failures of load(), play(), pause(), stepFrame()   *)
(* and flush() alone do not. (The assumption cannot go: with one stream the *)
(* client alone does it, which MCEsplayerSingle shows.)                     *)
THEOREM NullUseNeedsPolicyAlways ==
    ASSUME BothKinds
    PROVE  Spec => []NullUseNeedsPolicy
<1>1. NullInv => NullUseNeedsPolicy
  BY DEF NullInv, Supplied, NullUseNeedsPolicy
<1> QED BY NullInvHolds, <1>1, PTL
=============================================================================
