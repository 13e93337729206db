----------------------------- MODULE OmxBuffers -----------------------------
(***************************************************************************)
(* The input buffers of one codec port, as OmxClient keeps them            *)
(* (src/src/omx/omxclient.cpp).                                            *)
(*                                                                         *)
(* Each buffer header carries a BufferInfo with the client's idea of who   *)
(* owns it. Four parties touch it:                                         *)
(*   - writers (the renderer looper thread that feeds frames, the          *)
(*     application thread and the callback thread that send codec          *)
(*     configuration) fill a free buffer and hand it over, under           *)
(*     buffer_lock_;                                                       *)
(*   - the component (external) holds it and gives it back when it likes;  *)
(*   - emptyBufferDone() takes it back on the component's thread, without  *)
(*     the lock, and tells Esplayer, whose video listener counts the used  *)
(*     buffers of the port;                                                *)
(*   - freeBuffer(), called by unload(), waits at most a second for each   *)
(*     buffer and destroys it.                                             *)
(***************************************************************************)
EXTENDS Naturals

CONSTANTS
    N,          (* number of buffers of the port *)
    Writers,    (* threads that write to it      *)
    NoOne       (* nobody holds buffer_lock_     *)

ASSUME BufferAssumption == N \in Nat \ {0} /\ NoOne \notin Writers

Bufs == 1 .. N
NoBuf == 0

VARIABLES
    status,     (* info->status: who owns the buffer, as the client sees it *)
    info,       (* "present", "null" (pAppPrivate cleared) or "freed"       *)
    held,       (* buffers inside the component (external)                  *)
    returning,  (* progress of emptyBufferDone() on each buffer             *)
    active,     (* port enabled and component Executing or Pause            *)
    lock,       (* who holds buffer_lock_                                   *)
    wpc, wbuf,  (* each writer's place and the buffer it picked             *)
    fpc, fbuf,  (* freeBuffer()'s place and the buffer it looks at          *)
    crashed,    (* which party read a BufferInfo that is gone               *)
    flushed     (* history: freeBuffer() found the port flushed and quiet   *)

portVars == <<status, info, held, returning, active, lock, wpc, wbuf, fpc, fbuf, crashed, flushed>>
bufferVars == <<status, info, held, returning>>
writerVars == <<lock, wpc, wbuf>>
freeVars == <<fpc, fbuf, flushed>>
-----------------------------------------------------------------------------
(* The buffers the client owns. *)
Free == {b \in Bufs : status[b] = "client"}

(* getFreeBufferIndex(): the first buffer the client owns. *)
IsFirstFree(b) == b \in Free /\ \A c \in Free : b <= c

(* Every buffer of the port still has the BufferInfo a walk over it reads. *)
AllPresent == \A b \in Bufs : info[b] = "present"

(* allocateBuffer() has run: every buffer is free and nobody uses one.     *)
BuffersInit ==
    /\ status = [b \in Bufs |-> "client"]
    /\ info = [b \in Bufs |-> "present"]
    /\ held = {}
    /\ returning = [b \in Bufs |-> "none"]
    /\ active = FALSE
    /\ lock = NoOne
    /\ wpc = [w \in Writers |-> "idle"]
    /\ wbuf = [w \in Writers |-> NoBuf]
    /\ fpc = "none"
    /\ fbuf = 1
    /\ crashed = "no"
    /\ flushed = FALSE
-----------------------------------------------------------------------------
(* A thread that reads memory which is gone ends the program. *)
Alive == crashed = "no"

(* play(): the component executes, so that returns are told to Esplayer.   *)
Activate ==
    /\ Alive /\ ~active /\ fpc = "none"
    /\ active' = TRUE
    /\ UNCHANGED <<bufferVars, writerVars, freeVars, crashed>>

Goto(w, place) == wpc' = [wpc EXCEPT ![w] = place]

Unlock(w) ==
    /\ lock' = NoOne
    /\ Goto(w, "idle")
    /\ wbuf' = [wbuf EXCEPT ![w] = NoBuf]

(* Mutant: buffer_lock_ is not taken. *)
WriteLockFree(w) ==
    /\ Alive /\ wpc[w] = "idle" /\ fpc # "done"
    /\ lock' = w
    /\ Goto(w, "locked")
    /\ flushed' = (flushed /\ fpc = "none")
    /\ UNCHANGED <<bufferVars, active, wbuf, fpc, fbuf, crashed>>

(* writeToFreeBuffer() and writeToConfigBuffer() lock. The feed handlers    *)
(* look for the port first, so this does not begin once it is erased.      *)
WriteLock(w) ==
    /\ Alive /\ wpc[w] = "idle" /\ lock = NoOne /\ fpc # "done"
    /\ lock' = w
    /\ Goto(w, "locked")
    /\ flushed' = (flushed /\ fpc = "none")
    /\ UNCHANGED <<bufferVars, active, wbuf, fpc, fbuf, crashed>>

(* No buffer is free: return -1. *)
WriteNoFree(w) ==
    /\ Alive /\ wpc[w] = "locked" /\ AllPresent /\ Free = {}
    /\ Unlock(w)
    /\ UNCHANGED <<bufferVars, active, freeVars, crashed>>

(* Pick the first free buffer and copy the data into it. *)
WriteFill(w) ==
    /\ Alive /\ wpc[w] = "locked" /\ AllPresent
    /\ \E b \in Free : IsFirstFree(b) /\ wbuf' = [wbuf EXCEPT ![w] = b]
    /\ Goto(w, "filled")
    /\ UNCHANGED <<bufferVars, active, lock, freeVars, crashed>>

(* Mutant: the buffer is marked only when the component has accepted it. *)
WriteMarkLate(w) ==
    /\ Alive /\ wpc[w] = "filled" /\ info[wbuf[w]] = "present"
    /\ Goto(w, "marked")
    /\ UNCHANGED <<bufferVars, active, lock, wbuf, freeVars, crashed>>

(* emptyBuffer(): a buffer that is still free becomes the component's before *)
(* it is handed over; another is refused and the write returns.              *)
WriteMark(w) ==
    /\ Alive /\ wpc[w] = "filled" /\ info[wbuf[w]] = "present"
    /\ IF wbuf[w] \in Free
         THEN /\ status' = [status EXCEPT ![wbuf[w]] = "component"]
              /\ Goto(w, "marked")
              /\ UNCHANGED <<lock, wbuf>>
         ELSE Unlock(w) /\ UNCHANGED status
    /\ UNCHANGED <<info, held, returning, active, freeVars, crashed>>

(* OMX_EmptyThisBuffer() succeeds ... *)
WriteAccepted(w) ==
    /\ Alive /\ wpc[w] = "marked" /\ info[wbuf[w]] = "present"
    /\ held' = held \cup {wbuf[w]}
    /\ Goto(w, "accepted")
    /\ UNCHANGED <<status, info, returning, active, lock, wbuf, freeVars, crashed>>

(* Mutant: a failed hand-over leaves the buffer to the component. *)
WriteRejectedKept(w) ==
    /\ Alive /\ wpc[w] = "marked" /\ info[wbuf[w]] = "present"
    /\ Goto(w, "rejected")
    /\ UNCHANGED <<bufferVars, active, lock, wbuf, freeVars, crashed>>

(* ... or fails, and the client takes the buffer back. *)
WriteRejected(w) ==
    /\ Alive /\ wpc[w] = "marked" /\ info[wbuf[w]] = "present"
    /\ status' = [status EXCEPT ![wbuf[w]] = "client"]
    /\ Goto(w, "rejected")
    /\ UNCHANGED <<info, held, returning, active, lock, wbuf, freeVars, crashed>>

WriteUnlock(w) ==
    /\ Alive /\ wpc[w] \in {"accepted", "rejected"}
    /\ Unlock(w)
    /\ UNCHANGED <<bufferVars, active, freeVars, crashed>>

(* The writer reads the BufferInfo of a buffer that freeBuffer() destroyed. *)
WriteCrash(w) ==
    /\ Alive
    /\ \/ wpc[w] = "locked" /\ ~AllPresent
       \/ wpc[w] \in {"filled", "marked"} /\ info[wbuf[w]] # "present"
    /\ crashed' = "writer"
    /\ UNCHANGED <<bufferVars, active, writerVars, freeVars>>
-----------------------------------------------------------------------------
(* The component gives a buffer back: emptyBufferDone() is called. *)
ComponentReturn(b) ==
    /\ Alive /\ b \in held
    /\ held' = held \ {b}
    /\ returning' = [returning EXCEPT ![b] = "entered"]
    /\ UNCHANGED <<status, info, active, writerVars, freeVars, crashed>>

(* Refuse a buffer the client already owns. Otherwise tell Esplayer if the   *)
(* port is active: its video listener counts the used buffers, reading the   *)
(* BufferInfo of every one of them.                                          *)
DoneNotify(b) ==
    /\ Alive /\ returning[b] = "entered" /\ info[b] = "present"
    /\ (status[b] = "component" /\ active) => AllPresent
    /\ returning' = [returning EXCEPT ![b] = IF status[b] = "client" THEN "none" ELSE "notified"]
    /\ UNCHANGED <<status, info, held, active, writerVars, freeVars, crashed>>

DoneNotifyCrash(b) ==
    /\ Alive /\ returning[b] = "entered" /\ info[b] = "present" /\ status[b] = "component"
    /\ active /\ ~AllPresent
    /\ crashed' = "listener"
    /\ UNCHANGED <<bufferVars, active, writerVars, freeVars>>

(* The client owns the buffer again; signal buffer_cond_ without the lock. *)
DoneRelease(b) ==
    /\ Alive /\ returning[b] = "notified" /\ info[b] = "present"
    /\ status' = [status EXCEPT ![b] = "client"]
    /\ returning' = [returning EXCEPT ![b] = "none"]
    /\ fpc' = IF fpc = "waiting" THEN "signalled" ELSE fpc
    /\ UNCHANGED <<info, held, active, writerVars, fbuf, crashed, flushed>>

(* The buffer came back after freeBuffer() had given it up. *)
DoneCrash(b) ==
    /\ Alive /\ returning[b] # "none" /\ info[b] # "present"
    /\ crashed' = "late return"
    /\ UNCHANGED <<bufferVars, active, writerVars, freeVars>>
-----------------------------------------------------------------------------
(* freeBuffer(): the port is asked to disable, and the buffers are taken in *)
(* turn. (When the command is refused it returns at once: no step.)         *)
FreeStart ==
    /\ Alive /\ fpc = "none"
    /\ fpc' = "check"
    /\ flushed' = (Free = Bufs /\ \A w \in Writers : wpc[w] = "idle")
    /\ UNCHANGED <<bufferVars, active, writerVars, fbuf, crashed>>

(* waitForBufferState() looks at the status before it takes the lock ... *)
FreeCheck ==
    /\ Alive /\ fpc = "check"
    /\ fpc' = IF status[fbuf] = "client" THEN "clear" ELSE "before wait"
    /\ UNCHANGED <<bufferVars, active, writerVars, fbuf, crashed, flushed>>

(* ... and waits: a signal sent in between is lost. *)
FreeWait ==
    /\ Alive /\ fpc = "before wait" /\ lock = NoOne
    /\ fpc' = "waiting"
    /\ UNCHANGED <<bufferVars, active, writerVars, fbuf, crashed, flushed>>

(* Woken by any return on the port: look at this buffer again. *)
FreeWoken ==
    /\ Alive /\ fpc = "signalled" /\ lock = NoOne
    /\ fpc' = "check"
    /\ UNCHANGED <<bufferVars, active, writerVars, fbuf, crashed, flushed>>

(* Mutant: the wait starts again until the buffer is back. *)
FreeTimeoutRetries ==
    /\ Alive /\ fpc = "waiting" /\ lock = NoOne
    /\ fpc' = "check"
    /\ UNCHANGED <<bufferVars, active, writerVars, fbuf, crashed, flushed>>

(* A second went by: the result of the wait is ignored. *)
FreeTimeout ==
    /\ Alive /\ fpc = "waiting" /\ lock = NoOne
    /\ fpc' = "clear"
    /\ UNCHANGED <<bufferVars, active, writerVars, fbuf, crashed, flushed>>

(* pAppPrivate = NULL; delete info ... *)
FreeClear ==
    /\ Alive /\ fpc = "clear"
    /\ info' = [info EXCEPT ![fbuf] = "null"]
    /\ fpc' = "free"
    /\ UNCHANGED <<status, held, returning, active, writerVars, fbuf, crashed, flushed>>

(* ... OMX_FreeBuffer(), and on to the next; after the last the port's list *)
(* of buffers is erased.                                                    *)
FreeHeader ==
    /\ Alive /\ fpc = "free"
    /\ info' = [info EXCEPT ![fbuf] = "freed"]
    /\ IF fbuf < N THEN fbuf' = fbuf + 1 /\ fpc' = "check"
                   ELSE fbuf' = fbuf /\ fpc' = "done"
    /\ UNCHANGED <<status, held, returning, active, writerVars, crashed, flushed>>
-----------------------------------------------------------------------------
Write(w) ==
    \/ WriteLock(w) \/ WriteNoFree(w) \/ WriteFill(w) \/ WriteMark(w)
    \/ WriteAccepted(w) \/ WriteRejected(w) \/ WriteUnlock(w) \/ WriteCrash(w)

EmptyBufferDone(b) ==
    \/ DoneNotify(b) \/ DoneNotifyCrash(b)
    \/ DoneRelease(b) \/ DoneCrash(b)

FreeBuffer ==
    \/ FreeCheck \/ FreeWait \/ FreeWoken \/ FreeTimeout \/ FreeClear \/ FreeHeader

BuffersNext ==
    \/ Activate
    \/ \E w \in Writers : Write(w)
    \/ \E b \in Bufs : ComponentReturn(b) \/ EmptyBufferDone(b)
    \/ FreeStart \/ FreeBuffer

BuffersSpec == BuffersInit /\ [][BuffersNext]_portVars

(* Threads run: a writer that holds the lock gets to its unlock, a callback *)
(* to its end, and freeBuffer() gets the lock it asks for again and again.  *)
(* Its deadline is one instant for all the waits on a buffer, so returns of *)
(* other buffers that wake it up cannot put it off for ever.                *)
(* Nothing is assumed of the component: it may keep a buffer forever.       *)
BuffersFairness ==
    /\ \A w \in Writers : WF_portVars(wpc[w] # "idle" /\ Write(w))
    /\ \A b \in Bufs : WF_portVars(EmptyBufferDone(b))
    /\ SF_portVars(FreeBuffer) /\ SF_portVars(FreeTimeout)

BuffersFairSpec == BuffersSpec /\ BuffersFairness
-----------------------------------------------------------------------------
(* Properties. *)

BuffersTypeOK ==
    /\ status \in [Bufs -> {"client", "component"}]
    /\ info \in [Bufs -> {"present", "null", "freed"}]
    /\ held \subseteq Bufs
    /\ returning \in [Bufs -> {"none", "entered", "notified"}]
    /\ active \in BOOLEAN
    /\ lock \in Writers \cup {NoOne}
    /\ wpc \in [Writers -> {"idle", "locked", "filled", "marked", "accepted", "rejected"}]
    /\ wbuf \in [Writers -> Bufs \cup {NoBuf}]
    /\ fpc \in {"none", "check", "before wait", "waiting", "signalled", "clear", "free", "done"}
    /\ fbuf \in Bufs
    /\ crashed \in {"no", "writer", "listener", "late return"}
    /\ flushed \in BOOLEAN

(* The client never takes for its own a buffer that the component holds or   *)
(* that is on its way back in emptyBufferDone(), whatever return overtakes    *)
(* the hand-over that is still running.                                       *)
OwnedByOne ==
    \A b \in Bufs : (b \in held \/ returning[b] # "none") => status[b] = "component"

(* A writer copies data into a buffer that neither the component nor another  *)
(* writer uses: frames and codec configuration come from three threads.       *)
FillIsExclusive ==
    \A w \in Writers : wpc[w] = "filled" =>
        /\ wbuf[w] \in Free \ held
        /\ \A v \in Writers \ {w} : wpc[v] \in {"filled", "marked", "rejected"}
                                         => wbuf[v] # wbuf[w]

(* No buffer is lost: one that is marked as the component's is being handed   *)
(* over, inside the component, or on its way back. (A lost one would make     *)
(* the feed handlers answer "buffer full" a little earlier for ever.)         *)
NoBufferLost ==
    \A b \in Bufs : status[b] = "component" =>
        \/ b \in held
        \/ returning[b] # "none"
        \/ \E w \in Writers : wpc[w] = "marked" /\ wbuf[w] = b

(* unload() relies on "Flush all component (already done)": if every buffer   *)
(* is back, no write is running and none begins, freeing the port is safe.    *)
FlushedFreeIsSafe == flushed => crashed = "no"

(* freeBuffer() ends, even if a signal is lost or the component keeps a       *)
(* buffer for ever.                                                           *)
FreeEnds == (fpc # "none") ~> (fpc = "done" \/ crashed # "no")
=============================================================================
