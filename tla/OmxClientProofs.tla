-------------------------- MODULE OmxClientProofs --------------------------
(***************************************************************************)
(* Proofs about the two sides of an OmxClient. Of OmxBuffers, for every      *)
(* number of buffers and every set of writers: what the writers hold under   *)
(* buffer_lock_ is tied to the owner noted in each buffer by BuffersInv. Of  *)
(* OmxCommands, for any number of callers, ports, states and calls: what     *)
(* flush() answers is true, current_state_ is the component's state once     *)
(* everything is answered, and a wait that times out in vain has missed its  *)
(* signal.                                                                  *)
(***************************************************************************)
EXTENDS OmxBuffers, OmxCommands, SequenceTheorems, TLAPS

(***************************************************************************)
(* The input buffers.                                                       *)
(***************************************************************************)
(* buffer_lock_ is held by exactly the thread that is inside a write. *)
LockInv == \A w \in Writers : wpc[w] # "idle" <=> lock = w

(* The buffer a writer fills is free. *)
FillInv == \A w \in Writers : wpc[w] = "filled" =>
              /\ wbuf[w] \in Bufs
              /\ status[wbuf[w]] = "client"

(* The buffer a writer hands over is marked, and nobody else has it yet. *)
MarkInv == \A w \in Writers : wpc[w] = "marked" =>
              /\ wbuf[w] \in Bufs
              /\ status[wbuf[w]] = "component"
              /\ wbuf[w] \notin held
              /\ returning[wbuf[w]] = "none"

(* A buffer on its way back has left the component. *)
ReturnInv == \A b \in Bufs : returning[b] # "none" => b \notin held

BuffersInv == LockInv /\ FillInv /\ MarkInv /\ ReturnInv /\ OwnedByOne /\ NoBufferLost

(* While freeBuffer() works on a flushed and quiet port nothing else moves. *)
FlushedInv == flushed =>
              /\ \A b \in Bufs : status[b] = "client"
              /\ \A w \in Writers : wpc[w] = "idle"
              /\ fpc # "none"
              /\ crashed = "no"
-----------------------------------------------------------------------------
(* A writer that fills a buffer or hands one over has picked one. *)
PickInv == \A w \in Writers : wpc[w] \in {"filled", "marked"} => wbuf[w] \in Bufs

(* freeBuffer() walks to the last buffer and not beyond. *)
LEMMA NextInRange == ASSUME fbuf \in Bufs, FreeHeader PROVE fbuf' \in Bufs
BY BufferAssumption DEF FreeHeader, Bufs

(* Every variable keeps its type: no step of a writer, of a callback or of *)
(* freeBuffer() leaves the states the code can be in.                      *)
LEMMA Picking == BuffersSpec => [](BuffersTypeOK /\ PickInv)
<1>1. BuffersInit => BuffersTypeOK /\ PickInv
  <2> SUFFICES ASSUME BuffersInit PROVE BuffersTypeOK /\ PickInv
    OBVIOUS
  <2>1. 1 \in Bufs
    BY BufferAssumption DEF Bufs
  <2>2. active \in BOOLEAN /\ flushed \in BOOLEAN
    BY DEF BuffersInit
  <2> QED BY <2>1, <2>2 DEF BuffersInit, BuffersTypeOK, PickInv
<1>2. BuffersTypeOK /\ PickInv /\ [BuffersNext]_portVars => BuffersTypeOK' /\ PickInv'
  <2> SUFFICES ASSUME BuffersTypeOK, PickInv, [BuffersNext]_portVars PROVE BuffersTypeOK' /\ PickInv'
    OBVIOUS
  <2> USE DEF BuffersTypeOK, PickInv
  <2>1. CASE Activate
    BY <2>1 DEF Activate, bufferVars, writerVars, freeVars
  <2>2. ASSUME NEW w \in Writers, Write(w) PROVE BuffersTypeOK' /\ PickInv'
    <3> USE DEF Goto, Unlock, bufferVars, freeVars
    <3>1. CASE WriteLock(w)
      <4>1. flushed' \in BOOLEAN
        BY <3>1 DEF WriteLock
      <4> QED BY <3>1, <4>1 DEF WriteLock
    <3>2. CASE WriteNoFree(w)
      BY <3>2 DEF WriteNoFree
    <3>3. CASE WriteFill(w)
      BY <3>3 DEF WriteFill, Free
    <3>4. CASE WriteMark(w)
      BY <3>4 DEF WriteMark
    <3>5. CASE WriteAccepted(w)
      BY <3>5 DEF WriteAccepted
    <3>6. CASE WriteRejected(w)
      BY <3>6 DEF WriteRejected
    <3>7. CASE WriteUnlock(w)
      BY <3>7 DEF WriteUnlock
    <3>8. CASE WriteCrash(w)
      BY <3>8 DEF WriteCrash, writerVars
    <3> QED BY <2>2, <3>1, <3>2, <3>3, <3>4, <3>5, <3>6, <3>7, <3>8 DEF Write
  <2>3. ASSUME NEW b \in Bufs, ComponentReturn(b) \/ EmptyBufferDone(b)
        PROVE  BuffersTypeOK' /\ PickInv'
    BY <2>3 DEF ComponentReturn, EmptyBufferDone, DoneNotify, DoneNotifyCrash,
                DoneRelease, DoneCrash, bufferVars, writerVars, freeVars
  <2>4. CASE FreeStart
    <3>1. flushed' \in BOOLEAN
      BY <2>4 DEF FreeStart
    <3> QED BY <2>4, <3>1 DEF FreeStart, bufferVars, writerVars
  <2>5. CASE FreeHeader
    <3>1. fbuf' \in Bufs
      BY <2>5, NextInRange
    <3>2. info' \in [Bufs -> {"present", "null", "freed"}] /\ fpc' \in {"check", "done"}
      BY <2>5 DEF FreeHeader
    <3> QED BY <2>5, <3>1, <3>2 DEF FreeHeader, writerVars
  <2>6. CASE FreeBuffer /\ ~FreeHeader
    BY <2>6 DEF FreeBuffer, FreeCheck, FreeWait, FreeWoken, FreeTimeout,
                FreeClear, bufferVars, writerVars
  <2>7. CASE UNCHANGED portVars
    BY <2>7 DEF portVars
  <2> QED BY <2>1, <2>2, <2>3, <2>4, <2>5, <2>6, <2>7 DEF BuffersNext, FreeBuffer
<1> QED BY <1>1, <1>2, PTL DEF BuffersSpec

(* Every variable of the input buffers keeps its type, on the write path,  *)
(* in EmptyBufferDone and in freeBuffer().                                 *)
THEOREM BuffersTyping == BuffersSpec => []BuffersTypeOK
  BY Picking, PTL
-----------------------------------------------------------------------------
(* The types the proofs about the invariant need. *)
BufferTypes ==
    /\ status \in [Bufs -> {"client", "component"}]
    /\ returning \in [Bufs -> {"none", "entered", "notified"}]
    /\ held \subseteq Bufs
    /\ lock \in Writers \cup {NoOne}
    /\ DOMAIN wpc = Writers /\ wpc = [v \in Writers |-> wpc[v]]
    /\ DOMAIN wbuf = Writers /\ wbuf = [v \in Writers |-> wbuf[v]]

(* They are part of the type invariant. *)
LEMMA TypesSuffice == BuffersTypeOK => BufferTypes
BY DEF BuffersTypeOK, BufferTypes

(* Only the writer that holds the lock moves on, and the lock goes with it. *)
LEMMA WriteKeepsLock ==
    ASSUME BufferTypes, LockInv, NEW w \in Writers, Write(w)
    PROVE  LockInv'
<1> USE BufferAssumption DEF BufferTypes, LockInv, Goto, Unlock
<1>1. CASE WriteLock(w)
  BY <1>1 DEF WriteLock
<1>2. CASE WriteNoFree(w) \/ WriteUnlock(w)
  BY <1>2 DEF WriteNoFree, WriteUnlock
<1>3. CASE WriteFill(w)
  BY <1>3 DEF WriteFill
<1>4. CASE WriteMark(w)
  BY <1>4 DEF WriteMark
<1>5. CASE WriteAccepted(w) \/ WriteRejected(w)
  BY <1>5 DEF WriteAccepted, WriteRejected
<1>6. CASE WriteCrash(w)
  BY <1>6 DEF WriteCrash, writerVars
<1> QED BY <1>1, <1>2, <1>3, <1>4, <1>5, <1>6 DEF Write

(* The steps of a writer preserve the invariant: it is the only one that   *)
(* changes an owner to "component", and it does so while it has the lock.  *)
LEMMA WriteKeepsInv ==
    ASSUME BufferTypes, BuffersInv, NEW w \in Writers, Write(w)
    PROVE  BuffersInv'
<1> USE DEF BufferTypes, Goto, Unlock, bufferVars
<1>1. LockInv'
  BY WriteKeepsLock DEF BuffersInv
<1>2. \A v \in Writers \ {w} : wpc[v] = "idle" \/ wpc[w] = "idle"
  BY BufferAssumption DEF BuffersInv, LockInv
<1>3. CASE WriteLock(w)
  <2> USE <1>3 DEF WriteLock, BuffersInv
  <2>1. FillInv' /\ MarkInv'
    BY DEF FillInv, MarkInv
  <2>2. ReturnInv' /\ OwnedByOne'
    BY DEF ReturnInv, OwnedByOne
  <2>3. NoBufferLost'
    BY DEF NoBufferLost
  <2> QED BY <1>1, <2>1, <2>2, <2>3
<1>4. CASE WriteNoFree(w)
  <2> USE <1>4 DEF WriteNoFree, BuffersInv
  <2>1. FillInv' /\ MarkInv'
    BY DEF FillInv, MarkInv
  <2>2. ReturnInv' /\ OwnedByOne'
    BY DEF ReturnInv, OwnedByOne
  <2>3. NoBufferLost'
    BY DEF NoBufferLost
  <2> QED BY <1>1, <2>1, <2>2, <2>3
<1>5. CASE WriteFill(w)
  <2> USE <1>5 DEF WriteFill, BuffersInv
  <2>0. PICK b \in Free : wbuf' = [wbuf EXCEPT ![w] = b]
    OBVIOUS
  <2>1. FillInv' /\ MarkInv'
    BY <2>0 DEF FillInv, MarkInv, Free
  <2>2. ReturnInv' /\ OwnedByOne'
    BY DEF ReturnInv, OwnedByOne
  <2>3. NoBufferLost'
    BY <2>0 DEF NoBufferLost
  <2> QED BY <1>1, <2>1, <2>2, <2>3
<1>6. CASE WriteMark(w)
  <2> USE <1>6 DEF WriteMark, BuffersInv
  <2>0. wbuf[w] \in Bufs /\ wbuf[w] \in Free
    BY DEF FillInv, Free
  <2>1. FillInv' /\ MarkInv'
    BY <1>2, <2>0 DEF FillInv, MarkInv, OwnedByOne, Free
  <2>2. ReturnInv' /\ OwnedByOne'
    BY <2>0 DEF ReturnInv, OwnedByOne
  <2>3. NoBufferLost'
    BY <2>0 DEF NoBufferLost
  <2> QED BY <1>1, <2>1, <2>2, <2>3
<1>7. CASE WriteAccepted(w)
  <2> USE <1>7 DEF WriteAccepted, BuffersInv
  <2>1. FillInv' /\ MarkInv'
    BY <1>2 DEF FillInv, MarkInv
  <2>2. ReturnInv' /\ OwnedByOne'
    BY DEF ReturnInv, OwnedByOne, MarkInv
  <2>3. NoBufferLost'
    BY DEF NoBufferLost
  <2> QED BY <1>1, <2>1, <2>2, <2>3
<1>8. CASE WriteRejected(w)
  <2> USE <1>8 DEF WriteRejected, BuffersInv
  <2>1. FillInv' /\ MarkInv'
    BY <1>2 DEF FillInv, MarkInv
  <2>2. ReturnInv' /\ OwnedByOne'
    BY DEF ReturnInv, OwnedByOne, MarkInv
  <2>3. NoBufferLost'
    BY DEF NoBufferLost
  <2> QED BY <1>1, <2>1, <2>2, <2>3
<1>9. CASE WriteUnlock(w)
  <2> USE <1>9 DEF WriteUnlock, BuffersInv
  <2>1. FillInv' /\ MarkInv'
    BY DEF FillInv, MarkInv
  <2>2. ReturnInv' /\ OwnedByOne'
    BY DEF ReturnInv, OwnedByOne
  <2>3. NoBufferLost'
    BY DEF NoBufferLost
  <2> QED BY <1>1, <2>1, <2>2, <2>3
<1>10. CASE WriteCrash(w)
  BY <1>10 DEF WriteCrash, writerVars, BuffersInv, LockInv, FillInv, MarkInv, ReturnInv,
               OwnedByOne, NoBufferLost
<1> QED BY <1>3, <1>4, <1>5, <1>6, <1>7, <1>8, <1>9, <1>10 DEF Write

(* So do the return of a buffer and the steps of emptyBufferDone(). *)
LEMMA ReturnKeepsInv ==
    ASSUME BufferTypes, BuffersInv, NEW b \in Bufs, ComponentReturn(b) \/ EmptyBufferDone(b)
    PROVE  BuffersInv'
<1> USE DEF BufferTypes, BuffersInv, LockInv, FillInv, MarkInv, ReturnInv, OwnedByOne, NoBufferLost
<1>1. CASE ComponentReturn(b)
  BY <1>1 DEF ComponentReturn, writerVars
<1>2. CASE DoneNotify(b)
  BY <1>2 DEF DoneNotify, writerVars
<1>3. CASE DoneNotifyCrash(b)
  BY <1>3 DEF DoneNotifyCrash, bufferVars, writerVars
<1>4. CASE DoneRelease(b)
  BY <1>4 DEF DoneRelease, writerVars
<1>5. CASE DoneCrash(b)
  BY <1>5 DEF DoneCrash, bufferVars, writerVars
<1> QED BY <1>1, <1>2, <1>3, <1>4, <1>5 DEF EmptyBufferDone

(* freeBuffer() and play() change none of the variables of the invariant. *)
LEMMA OthersKeepInv ==
    ASSUME BuffersInv, FreeStart \/ FreeBuffer \/ Activate \/ UNCHANGED portVars
    PROVE  BuffersInv'
<1>1. status' = status /\ held' = held /\ returning' = returning
  BY DEF FreeStart, FreeBuffer, FreeCheck, FreeWait, FreeWoken, FreeTimeout, FreeClear,
         FreeHeader, Activate, bufferVars, portVars
<1>2. lock' = lock /\ wpc' = wpc /\ wbuf' = wbuf
  BY DEF FreeStart, FreeBuffer, FreeCheck, FreeWait, FreeWoken, FreeTimeout, FreeClear,
         FreeHeader, Activate, writerVars, portVars
<1> QED BY <1>1, <1>2 DEF BuffersInv, LockInv, FillInv, MarkInv, ReturnInv, OwnedByOne, NoBufferLost

(* The owner noted in a buffer is right at every step.                     *)
THEOREM BufferInvariant == BuffersSpec => []BuffersInv
<1>1. BuffersInit => BuffersInv
  BY BufferAssumption DEF BuffersInit, BuffersInv, LockInv, FillInv, MarkInv, ReturnInv, OwnedByOne,
                          NoBufferLost
<1>2. BuffersTypeOK /\ BuffersInv /\ [BuffersNext]_portVars => BuffersInv'
  BY TypesSuffice, WriteKeepsInv, ReturnKeepsInv, OthersKeepInv DEF BuffersNext
<1> QED BY <1>1, <1>2, BuffersTyping, PTL DEF BuffersSpec

(* The client never takes for its own a buffer the component has.          *)
THEOREM Ownership == BuffersSpec => []OwnedByOne
<1>1. BuffersInv => OwnedByOne
  BY DEF BuffersInv
<1> QED BY <1>1, BufferInvariant, PTL

(* No buffer is ever lost between the client and the component.            *)
THEOREM Conservation == BuffersSpec => []NoBufferLost
<1>1. BuffersInv => NoBufferLost
  BY DEF BuffersInv
<1> QED BY <1>1, BufferInvariant, PTL

(* A buffer is filled by one writer while nobody else uses it.             *)
THEOREM ExclusiveFill == BuffersSpec => []FillIsExclusive
<1>1. BuffersTypeOK /\ BuffersInv => FillIsExclusive
  <2> SUFFICES ASSUME BuffersTypeOK, BuffersInv, NEW w \in Writers, wpc[w] = "filled"
               PROVE  /\ wbuf[w] \in Free \ held
                      /\ \A v \in Writers \ {w} : wpc[v] = "idle"
    BY DEF FillIsExclusive
  <2>1. wbuf[w] \in Free \ held
    BY DEF BuffersInv, FillInv, OwnedByOne, Free
  <2>2. \A v \in Writers \ {w} : wpc[v] = "idle"
    BY DEF BuffersInv, LockInv
  <2> QED BY <2>1, <2>2
<1> QED BY <1>1, BufferInvariant, BuffersTyping, PTL
-----------------------------------------------------------------------------
(* freeBuffer() on a port that was flushed, with no write running or       *)
(* begun, reads no BufferInfo that is gone: nothing is held, so nothing    *)
(* comes back.                                                             *)
THEOREM FlushedFree == BuffersSpec => []FlushedFreeIsSafe
<1>1. BuffersInit => FlushedInv
  BY DEF BuffersInit, FlushedInv
<1>2. BuffersTypeOK /\ BuffersInv /\ FlushedInv /\ [BuffersNext]_portVars => FlushedInv'
  <2> SUFFICES ASSUME BuffersTypeOK, BuffersInv, FlushedInv, [BuffersNext]_portVars, flushed' PROVE FlushedInv'
    BY DEF FlushedInv
  <2> USE DEF FlushedInv
  <2>1. CASE FreeStart
    BY <2>1 DEF FreeStart, Free, Alive, bufferVars, writerVars
  <2>2. CASE FreeBuffer
    BY <2>2 DEF FreeBuffer, FreeCheck, FreeWait, FreeWoken, FreeTimeout, FreeClear,
                FreeHeader, bufferVars, writerVars
  <2>3. ASSUME NEW w \in Writers, Write(w) PROVE FALSE
    BY <2>3 DEF Write, WriteLock, WriteNoFree, WriteFill, WriteMark, WriteAccepted,
                WriteRejected, WriteUnlock, WriteCrash, freeVars
  <2>4. ASSUME NEW b \in Bufs, ComponentReturn(b) \/ EmptyBufferDone(b) PROVE FALSE
    BY <2>4 DEF ComponentReturn, EmptyBufferDone, DoneNotify, DoneNotifyCrash,
                DoneRelease, DoneCrash, freeVars, BuffersInv, OwnedByOne
  <2>5. CASE Activate
    BY <2>5 DEF Activate, freeVars
  <2>6. CASE UNCHANGED portVars
    BY <2>6 DEF portVars
  <2> QED BY <2>1, <2>2, <2>3, <2>4, <2>5, <2>6 DEF BuffersNext
<1>3. FlushedInv => FlushedFreeIsSafe
  BY DEF FlushedInv, FlushedFreeIsSafe
<1> QED BY <1>1, <1>2, <1>3, BuffersTyping, BufferInvariant, PTL DEF BuffersSpec
-----------------------------------------------------------------------------
(***************************************************************************)
(* The commands.                                                            *)
(***************************************************************************)
(* Commands as the code makes them: a state command names a state.          *)
Proper == {c \in Commands : c.kind = "state" => c.state \in States}

WellFormed == sent \in Seq(Proper) /\ done \in Seq(Proper) /\ want \in [Callers -> Proper]

AtSend(t, kind) == pc[t] = "send" /\ want[t].kind = kind

FlushPorts(c) == IF c.kind = "flush" THEN c.ports ELSE {}

(* What the flushes of a queue are about, and that they share no port.      *)
PortsOf(q) == UNION {FlushPorts(q[i]) : i \in 1 .. Len(q)}
Disjoint(q) == \A i, j \in 1 .. Len(q) : i # j => FlushPorts(q[i]) \cap FlushPorts(q[j]) = {}

NothingOwed == PortsOf(sent) = {} /\ PortsOf(done) = {}

(* What is owed is in the list of the flush.                                *)
Accounted == PortsOf(sent) \subseteq flushing /\ PortsOf(done) \subseteq flushing

(* No port is owed twice: otherwise the first event would take it from the  *)
(* list while the second is on its way.                                     *)
OwedOnce == Disjoint(sent) /\ Disjoint(done) /\ PortsOf(sent) \cap PortsOf(done) = {}

(* A flush that is not sent yet is all there is in the list.                *)
FlushNoted ==
    \A t \in Callers : AtSend(t, "flush") => t = Flusher /\ want[t].ports = flushing /\ NothingOwed

(* The state the component will be in when it has carried out what was sent. *)
WillBe(s) ==
    \/ s = state /\ \A i \in 1 .. Len(sent) : sent[i].kind # "state"
    \/ \E i \in 1 .. Len(sent) :
         /\ sent[i].kind = "state" /\ sent[i].state = s
         /\ \A j \in i + 1 .. Len(sent) : sent[j].kind # "state"

Undisturbed == ~raced /\ "state" \notin refused

OneSetsState ==
    Undisturbed => \A t, u \in Callers : AtSend(t, "state") /\ AtSend(u, "state") => t = u

(* current_state_ runs ahead of the component; a call that has not sent its  *)
(* command yet can undo its note.                                           *)
CurrentAhead ==
    Undisturbed =>
        /\ (\A t \in Callers : ~AtSend(t, "state")) => WillBe(current)
        /\ \A t \in Callers : AtSend(t, "state") => WillBe(prev[t]) /\ current = want[t].state

Inv == TypeOK /\ WellFormed /\ Accounted /\ OwedOnce /\ FlushNoted /\ OneSetsState /\ CurrentAhead
-----------------------------------------------------------------------------
(* Proper commands are commands. *)
LEMMA ProperCommands == Proper \subseteq Commands /\ Seq(Proper) \subseteq Seq(Commands)
<1>1. Proper \subseteq Commands
  BY DEF Proper
<1>2. ASSUME NEW q \in Seq(Proper) PROVE q \in Seq(Commands)
  <2>1. q \in [1 .. Len(q) -> Proper] /\ Len(q) \in Nat
    OBVIOUS
  <2>2. q \in [1 .. Len(q) -> Commands]
    BY <1>1, <2>1
  <2>3. QED
    BY <2>1, <2>2
<1>3. QED
  BY <1>1, <1>2

(* A queue, its first entry taken and an entry put at its end.              *)
LEMMA TailFacts ==
    ASSUME NEW S, NEW q \in Seq(S), q # <<>>
    PROVE  /\ Len(q) \in Nat /\ Len(q) >= 1 /\ Head(q) = q[1] /\ Head(q) \in S
           /\ Tail(q) \in Seq(S) /\ Len(Tail(q)) = Len(q) - 1
           /\ \A i \in 1 .. Len(q) - 1 : Tail(q)[i] = q[i + 1]
OBVIOUS

(* A sequence with one element more at its end. *)
LEMMA AppendFacts ==
    ASSUME NEW S, NEW q \in Seq(S), NEW e \in S
    PROVE  /\ Len(q) \in Nat /\ Append(q, e) \in Seq(S) /\ Len(Append(q, e)) = Len(q) + 1
           /\ Append(q, e)[Len(q) + 1] = e
           /\ \A i \in 1 .. Len(q) : Append(q, e)[i] = q[i]
OBVIOUS

(* What a proper command names. *)
LEMMA ProperFields ==
    ASSUME NEW c \in Proper
    PROVE  /\ c.kind \in {"state", "on", "off", "flush"} /\ c.ports \subseteq Ports
           /\ c.kind = "state" => c.state \in States
BY DEF Proper, Commands

(* The commands that the calls make are proper. *)
LEMMA NewCommands ==
    /\ \A s \in States : StateSet(s) \in Proper
    /\ \A k \in {"on", "off", "flush"}, ps \in SUBSET Ports : PortCommand(k, ps) \in Proper
BY DEF Proper, Commands, StateSet, PortCommand
-----------------------------------------------------------------------------
(* What the actions do.                                                     *)
Places == {"idle", "send", "test", "enter", "waiting", "woken"}

CallOf(t, command, place) ==
    /\ pc[t] = "idle" /\ pc'[t] = place /\ want'[t] = command
    /\ \A u \in Callers : u # t => pc'[u] = pc[u] /\ want'[u] = want[u]
    /\ waits' \in [Callers -> BOOLEAN] /\ calls' \in 0 .. MaxCalls
    /\ pc' \in [Callers -> Places] /\ want' \in [Callers -> Proper]
    /\ missed' \subseteq Callers

(* A call begins: the caller has its command in hand and nobody else       *)
(* moved.                                                                  *)
LEMMA CallFacts ==
    ASSUME TypeOK, WellFormed, NEW t \in Callers, NEW command \in Proper,
           NEW place \in {"send", "test"}, Call(t, command, place)
    PROVE  CallOf(t, command, place)
<1>1. calls' \in 0 .. MaxCalls
  BY CommandAssumption DEF TypeOK, Call
<1>2. waits' \in [Callers -> BOOLEAN]
  BY DEF TypeOK, Call
<1>3. /\ pc[t] = "idle" /\ pc'[t] = place /\ pc' \in [Callers -> Places]
      /\ \A u \in Callers : u # t => pc'[u] = pc[u]
  BY DEF TypeOK, Call, GoTo, Places
<1>4. /\ want'[t] = command /\ want' \in [Callers -> Proper]
      /\ \A u \in Callers : u # t => want'[u] = want[u]
  BY DEF WellFormed, Call
<1>5. missed' \subseteq Callers
  BY DEF TypeOK, Call
<1>6. QED
  BY <1>1, <1>2, <1>3, <1>4, <1>5 DEF CallOf

(* setState() notes the new state and the one before it, and whether       *)
(* another setState() had not yet sent its own.                            *)
LEMMA SetStateFacts ==
    ASSUME TypeOK, WellFormed, NEW t \in Callers, SetState(t)
    PROVE  \E s \in States :
             /\ CallOf(t, StateSet(s), "send") /\ current' = s
             /\ prev' = [prev EXCEPT ![t] = current]
             /\ raced' = (raced \/ \E u \in Callers \ {t} : pc[u] = "send" /\ want[u].kind = "state")
             /\ UNCHANGED <<enabled, flushing, componentVars>>
<1>1. PICK s \in States \ {state} :
        /\ Call(t, StateSet(s), "send") /\ current' = s
        /\ prev' = [prev EXCEPT ![t] = current]
        /\ raced' = (raced \/ \E u \in Callers \ {t} : pc[u] = "send" /\ want[u].kind = "state")
        /\ UNCHANGED <<enabled, flushing, componentVars>>
  BY DEF SetState
<1>2. CallOf(t, StateSet(s), "send")
  BY <1>1, CallFacts, NewCommands
<1>3. QED
  BY <1>1, <1>2

(* enablePort() and waitForPortEnable() name one port and change nothing   *)
(* of the client.                                                          *)
LEMMA PortFacts ==
    ASSUME TypeOK, WellFormed, NEW t \in Callers, EnablePort(t) \/ WaitForPortEnable(t)
    PROVE  /\ \E p \in Ports, kind \in {"on", "off"}, place \in {"send", "test"} :
                CallOf(t, PortCommand(kind, {p}), place)
           /\ UNCHANGED <<clientVars, componentVars, prev, raced>>
<1>1. PICK p \in Ports, kind \in {"on", "off"}, place \in {"send", "test"} :
        Call(t, PortCommand(kind, {p}), place) /\ UNCHANGED <<clientVars, componentVars, prev, raced>>
  BY DEF EnablePort, WaitForPortEnable
<1>2. CallOf(t, PortCommand(kind, {p}), place)
  BY <1>1, CallFacts, NewCommands
<1>3. QED
  BY <1>1, <1>2

(* flush() is the flusher's alone, and notes the ports it waits for. *)
LEMMA FlushFacts ==
    ASSUME TypeOK, WellFormed, NEW t \in Callers, Flush(t)
    PROVE  \E ps \in SUBSET Ports :
             /\ CallOf(t, PortCommand("flush", ps), "send")
             /\ t = Flusher /\ flushing = {} /\ flushing' = ps
             /\ UNCHANGED <<current, enabled, componentVars, prev, raced>>
<1>1. PICK ps \in ToFlush :
        /\ t = Flusher /\ flushing = {}
        /\ Call(t, PortCommand("flush", ps), "send")
        /\ flushing' = ps
        /\ UNCHANGED <<current, enabled, componentVars, prev, raced>>
  BY DEF Flush
<1>2. ps \in SUBSET Ports
  BY DEF ToFlush, TypeOK
<1>3. CallOf(t, PortCommand("flush", ps), "send")
  BY <1>1, <1>2, CallFacts, NewCommands
<1>4. QED
  BY <1>1, <1>2, <1>3

MoveOf(t, from) ==
    /\ pc[t] \in from /\ pc' \in [Callers -> Places] /\ pc'[t] # "send"
    /\ \A u \in Callers : u # t => pc'[u] = pc[u]
    /\ UNCHANGED callerVars

(* A command sent is behind all that were sent before. *)
LEMMA SendFacts ==
    ASSUME TypeOK, WellFormed, NEW t \in Callers, Send(t)
    PROVE  /\ MoveOf(t, {"send"}) /\ sent' = Append(sent, want[t]) /\ want[t] \in Proper
           /\ UNCHANGED <<clientVars, state, done, shared, refused, missed, raced>>
<1>1. want[t] \in Proper
  BY DEF WellFormed
<1>2. MoveOf(t, {"send"})
  BY DEF TypeOK, Send, GoTo, MoveOf, Places
<1>3. QED
  BY <1>1, <1>2 DEF Send

(* A command that was not accepted is taken back. *)
LEMMA FailFacts ==
    ASSUME TypeOK, WellFormed, NEW t \in Callers, SendFails(t)
    PROVE  /\ MoveOf(t, {"send"})
           /\ current' = (IF want[t].kind = "state" THEN prev[t] ELSE current)
           /\ flushing' = (IF want[t].kind = "flush" THEN {} ELSE flushing)
           /\ UNCHANGED <<enabled, componentVars, missed, raced>>
<1>1. MoveOf(t, {"send"})
  BY DEF TypeOK, SendFails, GoTo, MoveOf, Places
<1>2. QED
  BY <1>1 DEF SendFails

(* Testing, entering a wait and a timeout move the caller only. *)
LEMMA WaitFacts ==
    ASSUME TypeOK, NEW t \in Callers, Test(t) \/ EnterWait(t) \/ Timeout(t)
    PROVE  /\ MoveOf(t, {"test", "woken", "enter", "waiting"})
           /\ UNCHANGED <<clientVars, componentVars, missed, raced>>
<1>1. MoveOf(t, {"test", "woken", "enter", "waiting"})
  BY DEF TypeOK, Test, EnterWait, Timeout, GoTo, MoveOf, Places
<1>2. QED
  BY <1>1 DEF Test, EnterWait, Timeout

(* The handler wakes one caller at most and sends nothing.                  *)
LEMMA HandleFacts ==
    ASSUME TypeOK, WellFormed, HandleEvent
    PROVE  /\ done # <<>> /\ done' = Tail(done)
           /\ flushing' = flushing \ FlushPorts(done[1]) /\ enabled' \subseteq Ports
           /\ pc' \in [Callers -> Places] /\ missed' \subseteq Callers
           /\ \A t \in Callers : pc'[t] = "send" <=> pc[t] = "send"
           /\ (\A t \in Callers : pc'[t] = "idle") => (\A t \in Callers : pc[t] = "idle")
           /\ UNCHANGED <<current, state, sent, shared, refused, callerVars, raced>>
<1>1. /\ done # <<>> /\ done' = Tail(done)
      /\ UNCHANGED <<current, state, sent, shared, refused, callerVars, raced>>
  BY DEF HandleEvent
<1>2. done \in Seq(Proper) /\ Head(done) = done[1] /\ Head(done) \in Proper
  BY <1>1, TailFacts DEF WellFormed
<1>3. flushing' = flushing \ FlushPorts(done[1])
  BY <1>2 DEF HandleEvent, FlushPorts
<1>4. enabled' \subseteq Ports
  <2>1. Head(done).ports \subseteq Ports
    BY <1>2, ProperFields
  <2>2. enabled' \subseteq enabled \cup Head(done).ports
    <3>1. enabled' = CASE Head(done).kind = "on" -> enabled \cup Head(done).ports
                       [] Head(done).kind = "off" -> enabled \ Head(done).ports
                       [] OTHER -> enabled
      BY DEF HandleEvent
    <3>2. CASE Head(done).kind = "on"
      <4>1. enabled' = enabled \cup Head(done).ports
        BY <3>1, <3>2
      <4>2. QED
        BY <4>1
    <3>3. CASE Head(done).kind = "off"
      <4>1. enabled' = enabled \ Head(done).ports
        BY <3>1, <3>3
      <4>2. QED
        BY <4>1
    <3>4. CASE Head(done).kind \notin {"on", "off"}
      <4>1. enabled' = enabled
        BY <3>1, <3>4
      <4>2. QED
        BY <4>1
    <3>5. QED
      BY <3>2, <3>3, <3>4
  <2>3. QED
    BY <2>1, <2>2 DEF TypeOK
<1>5. \/ UNCHANGED pc
      \/ \E t \in Callers : pc[t] = "waiting" /\ GoTo(t, "woken")
  BY DEF HandleEvent, Signal
<1>6. missed' \subseteq Callers
  BY DEF HandleEvent, Signal, TypeOK
<1>7. /\ pc' \in [Callers -> Places]
      /\ \A t \in Callers : pc'[t] = "send" <=> pc[t] = "send"
      /\ (\A t \in Callers : pc'[t] = "idle") => (\A t \in Callers : pc[t] = "idle")
  BY <1>5 DEF GoTo, TypeOK, Places
<1>8. QED
  BY <1>1, <1>3, <1>4, <1>6, <1>7

(* The component drops the first of its commands, or a port of it.          *)
LEMMA FlushPartFacts ==
    ASSUME WellFormed, CompleteFlush, Head(sent).ports # {}
    PROVE  \E p \in Head(sent).ports :
             /\ sent' \in Seq(Proper) /\ Len(sent') = Len(sent)
             /\ sent'[1].kind = "flush" /\ sent'[1].ports = sent[1].ports \ {p}
             /\ \A i \in 2 .. Len(sent) : sent'[i] = sent[i]
             /\ done' = Append(done, PortCommand("flush", {p}))
<1>1. PICK p \in Head(sent).ports : /\ sent' = [sent EXCEPT ![1].ports = @ \ {p}]
                                    /\ done' = Append(done, PortCommand("flush", {p}))
  BY DEF CompleteFlush
<1>2. sent # <<>> /\ Head(sent).kind = "flush"
  BY DEF CompleteFlush
<1>3. sent \in Seq(Proper) /\ Len(sent) >= 1 /\ Head(sent) = sent[1] /\ sent[1] \in Proper /\ Len(sent) \in Nat
  BY <1>2, TailFacts DEF WellFormed
<1>4. [sent[1] EXCEPT !.ports = @ \ {p}] \in Proper
  <2>1. sent[1] \in Commands /\ sent[1].kind = "flush"
    BY <1>2, <1>3, ProperCommands
  <2>2. [sent[1] EXCEPT !.ports = @ \ {p}] \in Commands /\ [sent[1] EXCEPT !.ports = @ \ {p}].kind = "flush"
    BY <2>1 DEF Commands
  <2>3. QED
    BY <2>2 DEF Proper
<1>5. sent' = [sent EXCEPT ![1] = [sent[1] EXCEPT !.ports = @ \ {p}]]
  BY <1>1
<1>6. /\ sent' \in Seq(Proper) /\ Len(sent') = Len(sent)
      /\ sent'[1] = [sent[1] EXCEPT !.ports = @ \ {p}]
      /\ \A i \in 2 .. Len(sent) : sent'[i] = sent[i]
  <2>1. 1 \in 1 .. Len(sent)
    BY <1>3
  <2>2. /\ sent' \in Seq(Proper) /\ Len(sent') = Len(sent)
        /\ \A j \in 1 .. Len(sent) :
             sent'[j] = IF j = 1 THEN [sent[1] EXCEPT !.ports = @ \ {p}] ELSE sent[j]
    BY <1>3, <1>4, <1>5, <2>1, ExceptSeq
  <2>3. sent'[1] = [sent[1] EXCEPT !.ports = @ \ {p}]
    BY <2>1, <2>2
  <2>4. ASSUME NEW i \in 2 .. Len(sent) PROVE sent'[i] = sent[i]
    <3>1. i \in 1 .. Len(sent) /\ i # 1
      BY <1>3
    <3>2. QED
      BY <2>2, <3>1
  <2>5. QED
    BY <2>2, <2>3, <2>4
<1>7. sent'[1].kind = "flush" /\ sent'[1].ports = sent[1].ports \ {p}
  BY <1>2, <1>3, <1>6, ProperCommands DEF Commands
<1>8. QED
  BY <1>1, <1>6, <1>7
-----------------------------------------------------------------------------
(* The variables keep their types.                                          *)
LEMMA TypeStep == TypeOK /\ WellFormed /\ [Next]_vars => TypeOK' /\ WellFormed'
<1> SUFFICES ASSUME TypeOK, WellFormed, [Next]_vars PROVE TypeOK' /\ WellFormed'
  OBVIOUS
<1> DEFINE Simple ==
       /\ current' \in States /\ enabled' \subseteq Ports /\ flushing' \subseteq Ports
       /\ state' \in States /\ shared' \in BOOLEAN /\ refused' \subseteq {"state", "on", "off", "flush"}
       /\ waits' \in [Callers -> BOOLEAN] /\ prev' \in [Callers -> States]
       /\ calls' \in 0 .. MaxCalls /\ missed' \subseteq Callers /\ raced' \in BOOLEAN
<1> HIDE DEF Simple
<1>0. ASSUME Simple, pc' \in [Callers -> Places], WellFormed' PROVE TypeOK' /\ WellFormed'
  <2>1. want' \in [Callers -> Commands] /\ sent' \in Seq(Commands) /\ done' \in Seq(Commands)
    BY <1>0, ProperCommands DEF WellFormed
  <2>2. QED
    BY <1>0, <2>1 DEF Simple, TypeOK, Places
<1> USE DEF clientVars, componentVars, callerVars
<1>1. ASSUME NEW t \in Callers, SetState(t) PROVE TypeOK' /\ WellFormed'
  <2>1. PICK s \in States :
          /\ CallOf(t, StateSet(s), "send") /\ current' = s
          /\ prev' = [prev EXCEPT ![t] = current]
          /\ raced' = (raced \/ \E u \in Callers \ {t} : pc[u] = "send" /\ want[u].kind = "state")
          /\ UNCHANGED <<enabled, flushing, componentVars>>
    BY <1>1, SetStateFacts
  <2>2. raced' \in BOOLEAN
    BY <2>1
  <2>3. Simple
    BY <2>1, <2>2 DEF Simple, TypeOK, CallOf
  <2>4. WellFormed' /\ pc' \in [Callers -> Places]
    BY <2>1 DEF CallOf, WellFormed
  <2>5. QED
    BY <1>0, <2>3, <2>4
<1>2. ASSUME NEW t \in Callers, EnablePort(t) \/ WaitForPortEnable(t) PROVE TypeOK' /\ WellFormed'
  <2>1. UNCHANGED <<clientVars, componentVars, prev, raced>>
    BY <1>2, PortFacts
  <2>2. /\ waits' \in [Callers -> BOOLEAN] /\ calls' \in 0 .. MaxCalls /\ missed' \subseteq Callers
        /\ pc' \in [Callers -> Places] /\ want' \in [Callers -> Proper]
    BY <1>2, PortFacts DEF CallOf
  <2>3. QED
    BY <1>0, <2>1, <2>2 DEF Simple, TypeOK, WellFormed
<1>3. ASSUME NEW t \in Callers, Flush(t) PROVE TypeOK' /\ WellFormed'
  <2>1. flushing' \subseteq Ports /\ UNCHANGED <<current, enabled, componentVars, prev, raced>>
    BY <1>3, FlushFacts
  <2>2. /\ waits' \in [Callers -> BOOLEAN] /\ calls' \in 0 .. MaxCalls /\ missed' \subseteq Callers
        /\ pc' \in [Callers -> Places] /\ want' \in [Callers -> Proper]
    BY <1>3, FlushFacts DEF CallOf
  <2>3. QED
    BY <1>0, <2>1, <2>2 DEF Simple, TypeOK, WellFormed
<1>4. ASSUME NEW t \in Callers, Send(t) PROVE TypeOK' /\ WellFormed'
  <2>0. sent \in Seq(Proper) /\ want[t] \in Proper /\ sent' = Append(sent, want[t])
    BY <1>4, SendFacts DEF WellFormed
  <2>1. sent' \in Seq(Proper)
    BY <2>0, AppendFacts
  <2>2. pc' \in [Callers -> Places] /\ UNCHANGED <<clientVars, state, done, shared, refused, callerVars, missed, raced>>
    BY <1>4, SendFacts DEF MoveOf
  <2>3. Simple
    BY <2>2 DEF Simple, TypeOK
  <2>4. QED
    BY <1>0, <2>1, <2>2, <2>3 DEF WellFormed
<1>5. ASSUME NEW t \in Callers, SendFails(t) PROVE TypeOK' /\ WellFormed'
  <2>1. current' \in States /\ flushing' \subseteq Ports
    BY <1>5, FailFacts DEF TypeOK
  <2>2. pc' \in [Callers -> Places] /\ UNCHANGED <<enabled, componentVars, callerVars, missed, raced>>
    BY <1>5, FailFacts DEF MoveOf
  <2>3. QED
    BY <1>0, <2>1, <2>2 DEF Simple, TypeOK, WellFormed
<1>6. ASSUME NEW t \in Callers, Test(t) \/ EnterWait(t) \/ Timeout(t) PROVE TypeOK' /\ WellFormed'
  <2>1. /\ pc' \in [Callers -> Places]
        /\ UNCHANGED <<clientVars, componentVars, callerVars, missed, raced>>
    BY <1>6, WaitFacts DEF MoveOf
  <2>2. QED
    BY <1>0, <2>1 DEF Simple, TypeOK, WellFormed
<1>7. CASE Complete
  <2>1. sent # <<>> /\ sent' = Tail(sent) /\ done' = Append(done, Head(sent))
    BY <1>7 DEF Complete
  <2>2. Head(sent) \in Proper /\ sent' \in Seq(Proper)
    BY <2>1, TailFacts DEF WellFormed
  <2>3. done' \in Seq(Proper)
    BY <2>1, <2>2, AppendFacts DEF WellFormed
  <2>4. state' \in States /\ UNCHANGED <<clientVars, shared, refused, pc, callerVars, missed, raced>>
    BY <1>7, <2>2, ProperFields DEF Complete, TypeOK
  <2>5. QED
    BY <1>0, <2>2, <2>3, <2>4 DEF Simple, TypeOK, WellFormed, Places
<1>8. CASE CompleteFlush
  <2>1. UNCHANGED <<clientVars, state, shared, refused, pc, callerVars, missed, raced>> /\ sent # <<>>
    BY <1>8 DEF CompleteFlush
  <2>2. sent' \in Seq(Proper) /\ done' \in Seq(Proper)
    <3>1. CASE Head(sent).ports = {}
      <4>1. sent' = Tail(sent) /\ done' = done
        BY <1>8, <3>1 DEF CompleteFlush
      <4>2. QED
        BY <2>1, <4>1, TailFacts DEF WellFormed
    <3>2. CASE Head(sent).ports # {}
      <4>1. Head(sent) \in Proper
        BY <2>1, TailFacts DEF WellFormed
      <4>2. PICK p \in Head(sent).ports :
              sent' \in Seq(Proper) /\ done' = Append(done, PortCommand("flush", {p}))
        BY <1>8, <3>2, FlushPartFacts
      <4>3. PortCommand("flush", {p}) \in Proper
        BY <4>1, ProperFields, NewCommands
      <4>4. QED
        BY <4>2, <4>3, AppendFacts DEF WellFormed
    <3>3. QED
      BY <3>1, <3>2
  <2>3. QED
    BY <1>0, <2>1, <2>2 DEF Simple, TypeOK, WellFormed, Places
<1>9. CASE Refuse
  <2>1. sent # <<>> /\ sent' = Tail(sent) /\ refused' = refused \cup {Head(sent).kind}
    BY <1>9 DEF Refuse
  <2>2. sent' \in Seq(Proper) /\ Head(sent) \in Proper
    BY <2>1, TailFacts DEF WellFormed
  <2>3. UNCHANGED <<clientVars, state, done, shared, pc, callerVars, missed, raced>>
    BY <1>9 DEF Refuse
  <2>4. refused' \subseteq {"state", "on", "off", "flush"}
    BY <2>1, <2>2, ProperFields DEF TypeOK
  <2>5. Simple
    BY <2>3, <2>4 DEF Simple, TypeOK
  <2>6. QED
    BY <1>0, <2>2, <2>3, <2>5 DEF TypeOK, WellFormed, Places
<1>10. CASE HandleEvent
  <2>0. done # <<>> /\ done' = Tail(done)
    BY <1>10, HandleFacts
  <2>1. done' \in Seq(Proper)
    BY <2>0, TailFacts DEF WellFormed
  <2>2. /\ flushing' \subseteq flushing /\ enabled' \subseteq Ports
        /\ pc' \in [Callers -> Places] /\ missed' \subseteq Callers
        /\ UNCHANGED <<current, state, sent, shared, refused, callerVars, raced>>
    BY <1>10, HandleFacts
  <2>3. QED
    BY <1>0, <2>1, <2>2 DEF Simple, TypeOK, WellFormed
<1>11. CASE UNCHANGED vars
  BY <1>0, <1>11 DEF Simple, TypeOK, WellFormed, vars, Places
<1>12. QED
  BY <1>1, <1>2, <1>3, <1>4, <1>5, <1>6, <1>7, <1>8, <1>9, <1>10, <1>11
  DEF Next, Begin, GoOn
-----------------------------------------------------------------------------
(* What taking, putting and flushing a part do to the ports of a queue.     *)
LEMMA TailPorts ==
    ASSUME NEW q \in Seq(Proper), q # <<>>, Disjoint(q)
    PROVE  /\ PortsOf(q) = FlushPorts(Head(q)) \cup PortsOf(Tail(q))
           /\ Disjoint(Tail(q)) /\ FlushPorts(Head(q)) \cap PortsOf(Tail(q)) = {}
<1>1. /\ Len(q) \in Nat /\ Len(q) >= 1 /\ Head(q) = q[1] /\ Len(Tail(q)) = Len(q) - 1
      /\ \A i \in 1 .. Len(q) - 1 : Tail(q)[i] = q[i + 1]
  BY TailFacts
<1>2. 1 \in 1 .. Len(q)
  BY <1>1
<1>3. \A i \in 1 .. Len(Tail(q)) : i + 1 \in 1 .. Len(q) /\ i + 1 # 1 /\ Tail(q)[i] = q[i + 1]
  BY <1>1
<1>4. \A i \in 1 .. Len(q) : i = 1 \/ (i - 1 \in 1 .. Len(Tail(q)) /\ Tail(q)[i - 1] = q[i])
  BY <1>1
<1>5. PortsOf(q) = FlushPorts(Head(q)) \cup PortsOf(Tail(q))
  <2>1. ASSUME NEW p \in PortsOf(q) PROVE p \in FlushPorts(Head(q)) \cup PortsOf(Tail(q))
    <3>1. PICK i \in 1 .. Len(q) : p \in FlushPorts(q[i])
      BY <2>1 DEF PortsOf
    <3>2. CASE i = 1
      BY <1>1, <3>1, <3>2
    <3>3. CASE i # 1
      <4>1. i - 1 \in 1 .. Len(Tail(q)) /\ p \in FlushPorts(Tail(q)[i - 1])
        BY <1>4, <3>1, <3>3
      <4>2. QED
        BY <4>1 DEF PortsOf
    <3>4. QED
      BY <3>2, <3>3
  <2>2. ASSUME NEW p \in PortsOf(Tail(q)) PROVE p \in PortsOf(q)
    <3>1. PICK i \in 1 .. Len(Tail(q)) : p \in FlushPorts(Tail(q)[i])
      BY <2>2 DEF PortsOf
    <3>2. QED
      BY <1>3, <3>1 DEF PortsOf
  <2>3. FlushPorts(Head(q)) \subseteq PortsOf(q)
    BY <1>1, <1>2 DEF PortsOf
  <2>4. QED
    BY <2>1, <2>2, <2>3
<1>6. Disjoint(Tail(q))
  <2>1. SUFFICES ASSUME NEW i \in 1 .. Len(Tail(q)), NEW j \in 1 .. Len(Tail(q)), i # j
                 PROVE FlushPorts(Tail(q)[i]) \cap FlushPorts(Tail(q)[j]) = {}
    BY DEF Disjoint
  <2>2. i + 1 # j + 1
    BY <1>1, <2>1
  <2>3. QED
    BY <1>3, <2>2 DEF Disjoint
<1>7. FlushPorts(Head(q)) \cap PortsOf(Tail(q)) = {}
  <2>1. \A i \in 1 .. Len(Tail(q)) : FlushPorts(Head(q)) \cap FlushPorts(Tail(q)[i]) = {}
    BY <1>1, <1>2, <1>3 DEF Disjoint
  <2>2. QED
    BY <2>1 DEF PortsOf
<1>8. QED
  BY <1>5, <1>6, <1>7

(* A flush of ports that are in no other keeps the flushes apart. *)
LEMMA AppendPorts ==
    ASSUME NEW q \in Seq(Proper), NEW e \in Proper, Disjoint(q), FlushPorts(e) \cap PortsOf(q) = {}
    PROVE  PortsOf(Append(q, e)) = PortsOf(q) \cup FlushPorts(e) /\ Disjoint(Append(q, e))
<1> DEFINE r == Append(q, e)
<1>1. /\ Len(q) \in Nat /\ Len(r) = Len(q) + 1 /\ r[Len(q) + 1] = e
      /\ \A i \in 1 .. Len(q) : r[i] = q[i]
  BY AppendFacts
<1> HIDE DEF r
<1>2. Len(r) \in 1 .. Len(r) /\ r[Len(r)] = e
  BY <1>1
<1>3. \A i \in 1 .. Len(q) : i \in 1 .. Len(r) /\ i # Len(r) /\ r[i] = q[i]
  BY <1>1
<1>4. \A i \in 1 .. Len(r) : i = Len(r) \/ (i \in 1 .. Len(q) /\ r[i] = q[i])
  BY <1>1
<1>5. PortsOf(r) = PortsOf(q) \cup FlushPorts(e)
  <2>1. ASSUME NEW p \in PortsOf(r) PROVE p \in PortsOf(q) \cup FlushPorts(e)
    <3>1. PICK i \in 1 .. Len(r) : p \in FlushPorts(r[i])
      BY <2>1 DEF PortsOf
    <3>2. QED
      BY <1>2, <1>4, <3>1 DEF PortsOf
  <2>2. ASSUME NEW p \in PortsOf(q) PROVE p \in PortsOf(r)
    <3>1. PICK i \in 1 .. Len(q) : p \in FlushPorts(q[i])
      BY <2>2 DEF PortsOf
    <3>2. QED
      BY <1>3, <3>1 DEF PortsOf
  <2>3. FlushPorts(e) \subseteq PortsOf(r)
    BY <1>2 DEF PortsOf
  <2>4. QED
    BY <2>1, <2>2, <2>3
<1>6. Disjoint(r)
  <2>1. SUFFICES ASSUME NEW i \in 1 .. Len(r), NEW j \in 1 .. Len(r), i # j
                 PROVE FlushPorts(r[i]) \cap FlushPorts(r[j]) = {}
    BY DEF Disjoint
  <2>2. \A k \in 1 .. Len(q) : FlushPorts(q[k]) \subseteq PortsOf(q)
    BY DEF PortsOf
  <2>3. CASE i = Len(r)
    <3>1. j \in 1 .. Len(q) /\ r[j] = q[j] /\ r[i] = e
      BY <1>2, <1>4, <2>1, <2>3
    <3>2. QED
      BY <2>2, <3>1
  <2>4. CASE j = Len(r)
    <3>1. i \in 1 .. Len(q) /\ r[i] = q[i] /\ r[j] = e
      BY <1>2, <1>4, <2>1, <2>4
    <3>2. QED
      BY <2>2, <3>1
  <2>5. CASE i # Len(r) /\ j # Len(r)
    BY <1>4, <2>1, <2>5 DEF Disjoint
  <2>6. QED
    BY <2>3, <2>4, <2>5
<1>7. QED
  BY <1>5, <1>6 DEF r

(* One port of the first flush is done: it is gone, and the flushes stay   *)
(* apart.                                                                  *)
LEMMA PartPorts ==
    ASSUME NEW q \in Seq(Proper), q # <<>>, Disjoint(q), NEW r, Len(r) = Len(q),
           NEW p \in FlushPorts(q[1]), FlushPorts(r[1]) = FlushPorts(q[1]) \ {p},
           \A i \in 2 .. Len(q) : r[i] = q[i]
    PROVE  PortsOf(r) = PortsOf(q) \ {p} /\ p \in PortsOf(q) /\ Disjoint(r)
<1>1. Len(q) \in Nat /\ 1 \in 1 .. Len(q)
  BY TailFacts
<1>2. \A i \in 1 .. Len(q) : i # 1 => r[i] = q[i]
  BY <1>1
<1>3. \A i \in 1 .. Len(q) : i # 1 => p \notin FlushPorts(q[i])
  BY <1>1 DEF Disjoint
<1>4. \A i \in 1 .. Len(q) : FlushPorts(r[i]) = FlushPorts(q[i]) \ {p}
  BY <1>2, <1>3
<1>5. PortsOf(r) = PortsOf(q) \ {p}
  <2>1. ASSUME NEW x \in PortsOf(r) PROVE x \in PortsOf(q) \ {p}
    <3>1. PICK i \in 1 .. Len(q) : x \in FlushPorts(r[i])
      BY <2>1 DEF PortsOf
    <3>2. QED
      BY <1>4, <3>1 DEF PortsOf
  <2>2. ASSUME NEW x \in PortsOf(q), x # p PROVE x \in PortsOf(r)
    <3>1. PICK i \in 1 .. Len(q) : x \in FlushPorts(q[i])
      BY <2>2 DEF PortsOf
    <3>2. QED
      BY <1>4, <2>2, <3>1 DEF PortsOf
  <2>3. QED
    BY <2>1, <2>2
<1>6. Disjoint(r)
  <2>1. SUFFICES ASSUME NEW i \in 1 .. Len(q), NEW j \in 1 .. Len(q), i # j
                 PROVE FlushPorts(r[i]) \cap FlushPorts(r[j]) = {}
    BY DEF Disjoint
  <2>2. FlushPorts(q[i]) \cap FlushPorts(q[j]) = {}
    BY <2>1 DEF Disjoint
  <2>3. QED
    BY <1>4, <2>2
<1>7. QED
  BY <1>1, <1>5, <1>6 DEF PortsOf

FlushInv == Accounted /\ OwedOnce /\ FlushNoted

(* The three hold together: what is owed is told apart by where it is.      *)
LEMMA FlushStep == TypeOK /\ WellFormed /\ FlushInv /\ [Next]_vars => FlushInv'
<1> SUFFICES ASSUME TypeOK, WellFormed, FlushInv, [Next]_vars PROVE FlushInv'
  OBVIOUS
<1> USE DEF FlushInv, Accounted, OwedOnce, FlushNoted, NothingOwed
<1>0. sent \in Seq(Proper) /\ done \in Seq(Proper)
  BY DEF WellFormed
<1>1. ASSUME UNCHANGED <<sent, done, flushing>>,
             \A t \in Callers : AtSend(t, "flush")' => AtSend(t, "flush") /\ want'[t] = want[t]
      PROVE FlushInv'
  BY <1>1
<1>2. ASSUME NEW t \in Callers, SetState(t) PROVE FlushInv'
  <2>1. PICK s \in States : CallOf(t, StateSet(s), "send") /\ UNCHANGED <<flushing, componentVars>>
    BY <1>2, SetStateFacts
  <2>2. \A u \in Callers : AtSend(u, "flush")' => AtSend(u, "flush") /\ want'[u] = want[u]
    BY <2>1 DEF CallOf, AtSend, StateSet
  <2>3. QED
    BY <1>1, <2>1, <2>2 DEF componentVars
<1>3. ASSUME NEW t \in Callers, EnablePort(t) \/ WaitForPortEnable(t) PROVE FlushInv'
  <2>1. PICK p \in Ports, kind \in {"on", "off"}, place \in {"send", "test"} :
          CallOf(t, PortCommand(kind, {p}), place)
    BY <1>3, PortFacts
  <2>2. \A u \in Callers : AtSend(u, "flush")' => AtSend(u, "flush") /\ want'[u] = want[u]
    BY <2>1 DEF CallOf, AtSend, PortCommand
  <2>3. UNCHANGED <<sent, done, flushing>>
    BY <1>3, PortFacts DEF clientVars, componentVars
  <2>4. QED
    BY <1>1, <2>2, <2>3
(* A flush begins when nothing is in the list, so nothing is owed.          *)
<1>4. ASSUME NEW t \in Callers, Flush(t) PROVE FlushInv'
  <2>1. PICK ps \in SUBSET Ports :
          /\ CallOf(t, PortCommand("flush", ps), "send")
          /\ t = Flusher /\ flushing = {} /\ flushing' = ps
          /\ UNCHANGED componentVars
    BY <1>4, FlushFacts
  <2>2. NothingOwed /\ UNCHANGED <<sent, done>>
    BY <2>1 DEF componentVars
  <2>3. want'[t].ports = flushing' /\ \A u \in Callers : u # t => ~AtSend(u, "flush")
    BY <2>1 DEF CallOf, PortCommand
  <2>4. \A u \in Callers : u # t => ~AtSend(u, "flush")'
    BY <2>1, <2>3 DEF CallOf, AtSend
  <2>5. QED
    BY <2>1, <2>2, <2>3, <2>4
<1>5. ASSUME NEW t \in Callers, Send(t) PROVE FlushInv'
  <2>1. /\ pc[t] = "send" /\ pc'[t] # "send" /\ \A u \in Callers : u # t => pc'[u] = pc[u]
        /\ UNCHANGED <<want, done, flushing>>
        /\ sent' = Append(sent, want[t]) /\ want[t] \in Proper
    BY <1>5, SendFacts DEF MoveOf, callerVars, clientVars
  <2>2. \A u \in Callers : u # t /\ AtSend(u, "flush")' => AtSend(u, "flush")
    BY <2>1 DEF AtSend
  <2>3. CASE want[t].kind = "flush"
    <3>1. want[t].ports = flushing /\ NothingOwed /\ t = Flusher
      BY <2>1, <2>3 DEF AtSend
    <3>2. FlushPorts(want[t]) = flushing
      BY <2>3, <3>1 DEF FlushPorts
    <3>3. PortsOf(sent') = flushing /\ Disjoint(sent')
      <4>1. Disjoint(sent) /\ PortsOf(sent) = {}
        BY <3>1
      <4>2. /\ PortsOf(Append(sent, want[t])) = PortsOf(sent) \cup FlushPorts(want[t])
            /\ Disjoint(Append(sent, want[t]))
        BY <1>0, <2>1, <4>1, AppendPorts
      <4>3. QED
        BY <2>1, <3>2, <4>1, <4>2
    <3>4. \A u \in Callers : ~AtSend(u, "flush")'
      BY <2>1, <2>2, <3>1 DEF AtSend
    <3>5. QED
      BY <2>1, <3>1, <3>3, <3>4
  <2>4. CASE want[t].kind # "flush"
    <3>1. FlushPorts(want[t]) = {}
      BY <2>4 DEF FlushPorts
    <3>2. PortsOf(sent') = PortsOf(sent) /\ Disjoint(sent')
      <4>1. Disjoint(sent)
        OBVIOUS
      <4>2. /\ PortsOf(Append(sent, want[t])) = PortsOf(sent) \cup FlushPorts(want[t])
            /\ Disjoint(Append(sent, want[t]))
        BY <1>0, <2>1, <3>1, <4>1, AppendPorts
      <4>3. QED
        BY <2>1, <3>1, <4>2
    <3>3. ~AtSend(t, "flush")'
      BY <2>1 DEF AtSend
    <3>4. QED
      BY <2>1, <2>2, <3>2, <3>3
  <2>5. QED
    BY <2>3, <2>4
(* One that was not accepted is taken back: nothing is owed.                *)
<1>6. ASSUME NEW t \in Callers, SendFails(t) PROVE FlushInv'
  <2>1. /\ pc[t] = "send" /\ pc'[t] # "send" /\ \A u \in Callers : u # t => pc'[u] = pc[u]
        /\ UNCHANGED <<want, sent, done>>
        /\ flushing' = (IF want[t].kind = "flush" THEN {} ELSE flushing)
    BY <1>6, FailFacts DEF MoveOf, callerVars, componentVars
  <2>2. CASE want[t].kind = "flush"
    <3>1. NothingOwed /\ t = Flusher
      BY <2>1, <2>2 DEF AtSend
    <3>2. \A u \in Callers : ~AtSend(u, "flush")'
      BY <2>1, <3>1 DEF AtSend
    <3>3. QED
      BY <2>1, <3>1, <3>2
  <2>3. CASE want[t].kind # "flush"
    BY <1>1, <2>1, <2>3 DEF AtSend
  <2>4. QED
    BY <2>2, <2>3
<1>7. ASSUME NEW t \in Callers, Test(t) \/ EnterWait(t) \/ Timeout(t) PROVE FlushInv'
  <2>1. /\ pc'[t] # "send" /\ \A u \in Callers : u # t => pc'[u] = pc[u]
        /\ UNCHANGED <<want, sent, done, flushing>>
    BY <1>7, WaitFacts DEF MoveOf, callerVars, componentVars, clientVars
  <2>2. QED
    BY <1>1, <2>1 DEF AtSend
(* A command that is no flush goes from one queue to the other, or drops.   *)
<1>8. CASE Complete
  <2>1. /\ sent # <<>> /\ sent' = Tail(sent) /\ done' = Append(done, Head(sent))
        /\ Head(sent).kind # "flush" /\ UNCHANGED <<flushing, pc, want>>
    BY <1>8 DEF Complete, clientVars, callerVars
  <2>2. Head(sent) \in Proper /\ FlushPorts(Head(sent)) = {}
    BY <1>0, <2>1, TailFacts DEF FlushPorts
  <2>3. PortsOf(sent') = PortsOf(sent) /\ Disjoint(sent')
    <3>1. Disjoint(sent)
      OBVIOUS
    <3>2. PortsOf(sent) = FlushPorts(Head(sent)) \cup PortsOf(Tail(sent)) /\ Disjoint(Tail(sent))
      BY <1>0, <2>1, <3>1, TailPorts
    <3>3. QED
      BY <2>1, <2>2, <3>2
  <2>4. PortsOf(done') = PortsOf(done) /\ Disjoint(done')
    BY <1>0, <2>1, <2>2, AppendPorts
  <2>5. QED
    BY <2>1, <2>3, <2>4 DEF AtSend
<1>9. ASSUME sent # <<>>, sent' = Tail(sent), UNCHANGED <<done, flushing, pc, want>> PROVE FlushInv'
  <2>1. PortsOf(sent') \subseteq PortsOf(sent) /\ Disjoint(sent')
    BY <1>0, <1>9, TailPorts
  <2>2. QED
    BY <1>9, <2>1 DEF AtSend
(* A port of a flush goes from the command to an event of its own.          *)
<1>10. CASE CompleteFlush
  <2>1. sent # <<>> /\ UNCHANGED <<flushing, pc, want>> /\ Head(sent).kind = "flush"
    BY <1>10 DEF CompleteFlush, clientVars, callerVars
  <2>2. CASE Head(sent).ports = {}
    BY <1>9, <1>10, <2>1, <2>2 DEF CompleteFlush
  <2>3. CASE Head(sent).ports # {}
    <3>1. PICK p \in Head(sent).ports :
            /\ sent' \in Seq(Proper) /\ Len(sent') = Len(sent)
            /\ sent'[1].kind = "flush" /\ sent'[1].ports = sent[1].ports \ {p}
            /\ \A i \in 2 .. Len(sent) : sent'[i] = sent[i]
            /\ done' = Append(done, PortCommand("flush", {p}))
      BY <1>10, <2>3, FlushPartFacts
    <3>2. Head(sent) = sent[1] /\ Head(sent) \in Proper
      BY <1>0, <2>1, TailFacts
    <3>3. PortCommand("flush", {p}) \in Proper /\ FlushPorts(PortCommand("flush", {p})) = {p}
      BY <3>2, ProperFields, NewCommands DEF PortCommand, FlushPorts
    <3>4. p \in FlushPorts(sent[1]) /\ FlushPorts(sent'[1]) = FlushPorts(sent[1]) \ {p}
      BY <2>1, <3>1, <3>2 DEF FlushPorts
    <3>5. PortsOf(sent') = PortsOf(sent) \ {p} /\ p \in PortsOf(sent) /\ Disjoint(sent')
      BY <1>0, <2>1, <3>1, <3>4, PartPorts
    <3>6. PortsOf(done') = PortsOf(done) \cup {p} /\ Disjoint(done')
      <4>1. Disjoint(done) /\ {p} \cap PortsOf(done) = {}
        BY <3>5
      <4>2. /\ PortsOf(Append(done, PortCommand("flush", {p}))) = PortsOf(done) \cup {p}
            /\ Disjoint(Append(done, PortCommand("flush", {p})))
        BY <1>0, <3>3, <4>1, AppendPorts
      <4>3. QED
        BY <3>1, <4>2
    <3>7. QED
      BY <2>1, <3>5, <3>6 DEF AtSend
  <2>4. QED
    BY <2>2, <2>3
<1>11. CASE Refuse
  BY <1>9, <1>11 DEF Refuse, clientVars, callerVars
(* An event takes its ports from the list; nobody else owes them.           *)
<1>12. CASE HandleEvent
  <2>1. /\ done # <<>> /\ done' = Tail(done) /\ flushing' = flushing \ FlushPorts(done[1])
        /\ \A t \in Callers : pc'[t] = "send" <=> pc[t] = "send"
        /\ UNCHANGED <<sent, want>>
    BY <1>12, HandleFacts DEF callerVars
  <2>2. Head(done) = done[1]
    BY <1>0, <2>1, TailFacts
  <2>3. /\ PortsOf(done) = FlushPorts(done[1]) \cup PortsOf(done')
        /\ Disjoint(done') /\ FlushPorts(done[1]) \cap PortsOf(done') = {}
    BY <1>0, <2>1, <2>2, TailPorts
  <2>4. NothingOwed => NothingOwed' /\ flushing' = flushing
    BY <2>1, <2>3
  <2>5. QED
    BY <2>1, <2>3, <2>4 DEF AtSend
<1>13. CASE UNCHANGED vars
  BY <1>1, <1>13 DEF vars, clientVars, componentVars, callerVars, AtSend
<1>14. QED
  BY <1>2, <1>3, <1>4, <1>5, <1>6, <1>7, <1>8, <1>10, <1>11, <1>12, <1>13 DEF Next, Begin, GoOn
-----------------------------------------------------------------------------
(* A queue that goes on with the same state commands will come to the same  *)
(* state; so will one whose first command is carried out.                   *)
LEMMA WillBeSame ==
    ASSUME UNCHANGED state, Len(sent') = Len(sent), NEW s, WillBe(s),
           \A i \in 1 .. Len(sent) : /\ sent'[i].kind = sent[i].kind
                                     /\ sent[i].kind = "state" => sent'[i] = sent[i]
    PROVE  WillBe(s)'
<1>1. CASE s = state /\ \A i \in 1 .. Len(sent) : sent[i].kind # "state"
  BY <1>1 DEF WillBe
<1>2. ASSUME NEW i \in 1 .. Len(sent), sent[i].kind = "state", sent[i].state = s,
             \A j \in i + 1 .. Len(sent) : sent[j].kind # "state"
      PROVE  WillBe(s)'
  <2>1. \A j \in i + 1 .. Len(sent') : sent'[j].kind # "state"
    BY <1>2 DEF WillBe
  <2>2. QED
    BY <1>2, <2>1 DEF WillBe
<1>3. QED
  BY <1>1, <1>2 DEF WillBe

(* The state to come after one command more. *)
LEMMA WillBeSent ==
    ASSUME sent \in Seq(Proper), NEW c \in Proper, sent' = Append(sent, c), UNCHANGED state, NEW s,
           \/ c.kind = "state" /\ c.state = s
           \/ c.kind # "state" /\ WillBe(s)
    PROVE  WillBe(s)'
<1>1. /\ Len(sent) \in Nat /\ Len(sent') = Len(sent) + 1 /\ sent'[Len(sent) + 1] = c
      /\ \A i \in 1 .. Len(sent) : sent'[i] = sent[i]
  BY AppendFacts
<1>2. CASE c.kind = "state" /\ c.state = s
  <2>1. Len(sent) + 1 \in 1 .. Len(sent') /\ (Len(sent) + 1) + 1 .. Len(sent') = {}
    BY <1>1
  <2>2. QED
    BY <1>1, <1>2, <2>1 DEF WillBe
<1>3. CASE c.kind # "state" /\ WillBe(s)
  <2>1. \A i \in 1 .. Len(sent') : i = Len(sent) + 1 \/ (i \in 1 .. Len(sent) /\ sent'[i] = sent[i])
    BY <1>1
  <2>2. CASE s = state /\ \A i \in 1 .. Len(sent) : sent[i].kind # "state"
    BY <1>1, <1>3, <2>1, <2>2 DEF WillBe
  <2>3. ASSUME NEW i \in 1 .. Len(sent), sent[i].kind = "state", sent[i].state = s,
               \A j \in i + 1 .. Len(sent) : sent[j].kind # "state"
        PROVE  WillBe(s)'
    <3>1. i \in 1 .. Len(sent') /\ sent'[i] = sent[i]
      BY <1>1
    <3>2. ASSUME NEW j \in i + 1 .. Len(sent') PROVE sent'[j].kind # "state"
      <4>1. j = Len(sent) + 1 \/ j \in i + 1 .. Len(sent)
        BY <1>1
      <4>2. j \in 1 .. Len(sent')
        BY <1>1
      <4>3. QED
        BY <1>1, <1>3, <2>1, <2>3, <4>1, <4>2
    <3>3. QED
      BY <2>3, <3>1, <3>2 DEF WillBe
  <2>4. QED
    BY <1>3, <2>2, <2>3 DEF WillBe
<1>4. QED
  BY <1>2, <1>3

(* The state to come is the same when the component takes the first        *)
(* command.                                                                *)
LEMMA WillBeTaken ==
    ASSUME sent \in Seq(Proper), sent # <<>>, sent' = Tail(sent), NEW s, WillBe(s),
           state' = IF Head(sent).kind = "state" THEN Head(sent).state ELSE state
    PROVE  WillBe(s)'
<1>1. /\ Len(sent) \in Nat /\ Len(sent) >= 1 /\ Head(sent) = sent[1] /\ Len(sent') = Len(sent) - 1
      /\ \A i \in 1 .. Len(sent) - 1 : sent'[i] = sent[i + 1]
  BY TailFacts
<1>2. \A i \in 1 .. Len(sent') : i + 1 \in 1 .. Len(sent) /\ sent'[i] = sent[i + 1]
  BY <1>1
<1>3. CASE s = state /\ \A i \in 1 .. Len(sent) : sent[i].kind # "state"
  <2>1. 1 \in 1 .. Len(sent)
    BY <1>1
  <2>2. state' = s
    BY <1>1, <1>3, <2>1
  <2>3. QED
    BY <1>2, <1>3, <2>2 DEF WillBe
<1>4. ASSUME NEW i \in 1 .. Len(sent), sent[i].kind = "state", sent[i].state = s,
             \A j \in i + 1 .. Len(sent) : sent[j].kind # "state"
      PROVE  WillBe(s)'
  <2>1. CASE i = 1
    <3>1. state' = s
      BY <1>1, <1>4, <2>1
    <3>2. \A j \in 1 .. Len(sent') : j + 1 \in i + 1 .. Len(sent)
      BY <1>1, <2>1
    <3>3. QED
      BY <1>2, <1>4, <3>1, <3>2 DEF WillBe
  <2>2. CASE i # 1
    <3>1. i - 1 \in 1 .. Len(sent') /\ sent'[i - 1] = sent[i]
      BY <1>1, <2>2
    <3>2. ASSUME NEW j \in (i - 1) + 1 .. Len(sent') PROVE sent'[j].kind # "state"
      <4>1. j + 1 \in i + 1 .. Len(sent) /\ j \in 1 .. Len(sent')
        BY <1>1, <2>2
      <4>2. QED
        BY <1>2, <1>4, <4>1
    <3>3. QED
      BY <1>4, <3>1, <3>2 DEF WillBe
  <2>3. QED
    BY <2>1, <2>2
<1>5. QED
  BY <1>3, <1>4 DEF WillBe

CurrentInv == OneSetsState /\ CurrentAhead

(* As long as nobody interferes, current_state_ is where the component will  *)
(* come to, but while its command is not sent, and then the call knows where *)
(* it was.                                                                  *)
LEMMA CurrentStep == TypeOK /\ WellFormed /\ CurrentInv /\ [Next]_vars => CurrentInv'
<1> SUFFICES ASSUME TypeOK, WellFormed, CurrentInv, [Next]_vars PROVE CurrentInv'
  OBVIOUS
<1> USE DEF CurrentInv, OneSetsState, CurrentAhead, Undisturbed
<1>0. sent \in Seq(Proper) /\ done \in Seq(Proper)
  BY DEF WellFormed
<1>1. ASSUME UNCHANGED <<current, prev, raced>>, refused \subseteq refused',
             Undisturbed' => \A s : WillBe(s) => WillBe(s)',
             \A t \in Callers : /\ AtSend(t, "state")' <=> AtSend(t, "state")
                                /\ AtSend(t, "state") => want'[t] = want[t]
      PROVE CurrentInv'
  BY <1>1
<1>2. ASSUME UNCHANGED <<state, sent>>, NEW s, WillBe(s) PROVE WillBe(s)'
  BY <1>2 DEF WillBe
<1>3. ASSUME NEW t \in Callers, SetState(t) PROVE CurrentInv'
  <2>1. PICK s \in States :
          /\ CallOf(t, StateSet(s), "send") /\ current' = s
          /\ prev' = [prev EXCEPT ![t] = current]
          /\ raced' = (raced \/ \E u \in Callers \ {t} : pc[u] = "send" /\ want[u].kind = "state")
          /\ UNCHANGED <<enabled, flushing, componentVars>>
    BY <1>3, SetStateFacts
  <2>2. SUFFICES ASSUME Undisturbed' PROVE CurrentInv'
    OBVIOUS
  <2>3. Undisturbed /\ \A u \in Callers : u # t => ~AtSend(u, "state")
    BY <2>1, <2>2 DEF componentVars, AtSend
  <2>4. \A u \in Callers : u # t => ~AtSend(u, "state")'
    BY <2>1, <2>3 DEF CallOf, AtSend
  <2>5. ~AtSend(t, "state")
    BY <2>1 DEF CallOf, AtSend
  <2>6. AtSend(t, "state")' /\ want'[t].state = s
    BY <2>1 DEF CallOf, AtSend, StateSet
  <2>7. WillBe(current)
    BY <2>3, <2>5
  <2>8. UNCHANGED <<state, sent>> /\ prev'[t] = current
    BY <2>1 DEF componentVars, TypeOK
  <2>9. WillBe(prev[t])'
    BY <2>7, <2>8 DEF WillBe
  <2>10. QED
    BY <2>1, <2>4, <2>6, <2>9
<1>4. ASSUME NEW t \in Callers, EnablePort(t) \/ WaitForPortEnable(t) PROVE CurrentInv'
  <2>1. PICK p \in Ports, kind \in {"on", "off"}, place \in {"send", "test"} :
          CallOf(t, PortCommand(kind, {p}), place)
    BY <1>4, PortFacts
  <2>2. \A u \in Callers : /\ AtSend(u, "state")' <=> AtSend(u, "state")
                           /\ AtSend(u, "state") => want'[u] = want[u]
    BY <2>1 DEF CallOf, AtSend, PortCommand
  <2>3. UNCHANGED <<current, prev, raced, refused, state, sent>>
    BY <1>4, PortFacts DEF clientVars, componentVars
  <2>4. QED
    BY <1>1, <1>2, <2>2, <2>3
<1>5. ASSUME NEW t \in Callers, Flush(t) PROVE CurrentInv'
  <2>1. PICK ps \in SUBSET Ports :
          /\ CallOf(t, PortCommand("flush", ps), "send")
          /\ UNCHANGED <<current, componentVars, prev, raced>>
    BY <1>5, FlushFacts
  <2>2. \A u \in Callers : /\ AtSend(u, "state")' <=> AtSend(u, "state")
                           /\ AtSend(u, "state") => want'[u] = want[u]
    BY <2>1 DEF CallOf, AtSend, PortCommand
  <2>3. UNCHANGED <<current, prev, raced, refused, state, sent>>
    BY <2>1 DEF componentVars
  <2>4. QED
    BY <1>1, <1>2, <2>2, <2>3
<1>6. ASSUME NEW t \in Callers, Send(t) PROVE CurrentInv'
  <2>1. /\ pc[t] = "send" /\ pc'[t] # "send" /\ \A u \in Callers : u # t => pc'[u] = pc[u]
        /\ sent' = Append(sent, want[t]) /\ want[t] \in Proper
        /\ UNCHANGED <<want, prev, current, state, raced, refused>>
    BY <1>6, SendFacts DEF MoveOf, callerVars, clientVars
  <2>2. /\ ~AtSend(t, "state")'
        /\ \A u \in Callers : u # t => (AtSend(u, "state")' <=> AtSend(u, "state"))
    BY <2>1 DEF AtSend
  <2>3. CASE want[t].kind = "state"
    <3>1. SUFFICES ASSUME Undisturbed' PROVE CurrentInv'
      OBVIOUS
    <3>2. AtSend(t, "state") /\ Undisturbed
      BY <2>1, <2>3, <3>1 DEF AtSend
    <3>3. \A u \in Callers : ~AtSend(u, "state")'
      BY <2>2, <3>2
    <3>4. current = want[t].state
      BY <3>2
    <3>5. WillBe(current)'
      <4>1. \A s : s = want[t].state => WillBe(s)'
        BY <1>0, <2>1, <2>3, WillBeSent
      <4>2. QED
        BY <2>1, <3>4, <4>1 DEF WillBe
    <3>6. QED
      BY <3>3, <3>5
  <2>4. CASE want[t].kind # "state"
    <3>1. \A s : WillBe(s) => WillBe(s)'
      BY <1>0, <2>1, <2>4, WillBeSent
    <3>2. ~AtSend(t, "state")
      BY <2>4 DEF AtSend
    <3>3. QED
      BY <1>1, <2>1, <2>2, <3>1, <3>2
  <2>5. QED
    BY <2>3, <2>4
<1>7. ASSUME NEW t \in Callers, SendFails(t) PROVE CurrentInv'
  <2>1. /\ pc[t] = "send" /\ pc'[t] # "send" /\ \A u \in Callers : u # t => pc'[u] = pc[u]
        /\ UNCHANGED <<want, prev, sent, state, raced, refused>>
        /\ current' = (IF want[t].kind = "state" THEN prev[t] ELSE current)
    BY <1>7, FailFacts DEF MoveOf, callerVars, componentVars
  <2>2. /\ ~AtSend(t, "state")'
        /\ \A u \in Callers : u # t => (AtSend(u, "state")' <=> AtSend(u, "state"))
    BY <2>1 DEF AtSend
  <2>3. CASE want[t].kind = "state"
    <3>1. SUFFICES ASSUME Undisturbed' PROVE CurrentInv'
      OBVIOUS
    <3>2. AtSend(t, "state") /\ Undisturbed
      BY <2>1, <2>3, <3>1 DEF AtSend
    <3>3. \A u \in Callers : ~AtSend(u, "state")'
      BY <2>2, <3>2
    <3>4. WillBe(prev[t]) /\ current' = prev[t]
      BY <2>1, <2>3, <3>2
    <3>5. WillBe(current)'
      BY <2>1, <3>4 DEF WillBe
    <3>6. QED
      BY <3>3, <3>5
  <2>4. CASE want[t].kind # "state"
    <3>1. ~AtSend(t, "state")
      BY <2>4 DEF AtSend
    <3>2. QED
      BY <1>1, <1>2, <2>1, <2>2, <2>4, <3>1
  <2>5. QED
    BY <2>3, <2>4
<1>8. ASSUME NEW t \in Callers, Test(t) \/ EnterWait(t) \/ Timeout(t) PROVE CurrentInv'
  <2>1. /\ pc[t] # "send" /\ pc'[t] # "send" /\ \A u \in Callers : u # t => pc'[u] = pc[u]
        /\ UNCHANGED <<want, prev, sent, state, current, raced, refused>>
    BY <1>8, WaitFacts DEF MoveOf, callerVars, componentVars, clientVars
  <2>2. QED
    BY <1>1, <1>2, <2>1 DEF AtSend
<1>9. CASE Complete
  <2>1. /\ sent # <<>> /\ sent' = Tail(sent)
        /\ state' = (IF Head(sent).kind = "state" THEN Head(sent).state ELSE state)
        /\ UNCHANGED <<current, prev, want, pc, raced, refused>>
    BY <1>9 DEF Complete, clientVars, callerVars
  <2>2. \A s : WillBe(s) => WillBe(s)'
    BY <1>0, <2>1, WillBeTaken
  <2>3. QED
    BY <1>1, <2>1, <2>2 DEF AtSend
<1>10. CASE CompleteFlush
  <2>1. /\ sent # <<>> /\ Head(sent).kind = "flush"
        /\ UNCHANGED <<current, prev, want, pc, state, raced, refused>>
    BY <1>10 DEF CompleteFlush, clientVars, callerVars
  <2>2. \A s : WillBe(s) => WillBe(s)'
    <3>1. CASE Head(sent).ports = {}
      <4>1. sent' = Tail(sent) /\ state' = IF Head(sent).kind = "state" THEN Head(sent).state ELSE state
        BY <1>10, <2>1, <3>1 DEF CompleteFlush
      <4>2. QED
        BY <1>0, <2>1, <4>1, WillBeTaken
    <3>2. CASE Head(sent).ports # {}
      <4>1. /\ Len(sent') = Len(sent) /\ sent'[1].kind = "flush"
            /\ \A i \in 2 .. Len(sent) : sent'[i] = sent[i]
        BY <1>10, <3>2, FlushPartFacts
      <4>2. Len(sent) \in Nat /\ Head(sent) = sent[1]
        BY <1>0, <2>1, TailFacts
      <4>3. \A i \in 1 .. Len(sent) : i = 1 \/ i \in 2 .. Len(sent)
        BY <4>2
      <4>4. \A i \in 1 .. Len(sent) : /\ sent'[i].kind = sent[i].kind
                                      /\ sent[i].kind = "state" => sent'[i] = sent[i]
        BY <2>1, <4>1, <4>2, <4>3
      <4>5. QED
        BY <2>1, <4>1, <4>4, WillBeSame
    <3>3. QED
      BY <3>1, <3>2
  <2>3. QED
    BY <1>1, <2>1, <2>2 DEF AtSend
<1>11. CASE Refuse
  <2>1. /\ sent # <<>> /\ sent' = Tail(sent) /\ refused' = refused \cup {Head(sent).kind}
        /\ UNCHANGED <<current, prev, want, pc, state, raced>>
    BY <1>11 DEF Refuse, clientVars, callerVars
  <2>2. ASSUME Undisturbed', NEW s, WillBe(s) PROVE WillBe(s)'
    <3>1. state' = IF Head(sent).kind = "state" THEN Head(sent).state ELSE state
      BY <2>1, <2>2
    <3>2. QED
      BY <1>0, <2>1, <2>2, <3>1, WillBeTaken
  <2>3. QED
    BY <1>1, <2>1, <2>2 DEF AtSend
<1>12. CASE HandleEvent
  <2>1. /\ \A t \in Callers : pc'[t] = "send" <=> pc[t] = "send"
        /\ UNCHANGED <<current, state, sent, refused, want, prev, raced>>
    BY <1>12, HandleFacts DEF callerVars
  <2>2. QED
    BY <1>1, <1>2, <2>1 DEF AtSend
<1>13. CASE UNCHANGED vars
  BY <1>1, <1>2, <1>13 DEF vars, clientVars, componentVars, callerVars, AtSend
<1>14. QED
  BY <1>3, <1>4, <1>5, <1>6, <1>7, <1>8, <1>9, <1>10, <1>11, <1>12, <1>13 DEF Next, Begin, GoOn
-----------------------------------------------------------------------------
(* The invariant holds at first. *)
LEMMA InvInit == Init => Inv
<1> SUFFICES ASSUME Init PROVE Inv
  OBVIOUS
<1>1. /\ current = FirstState /\ state = FirstState /\ sent = <<>> /\ done = <<>> /\ flushing = {}
      /\ \A t \in Callers : pc[t] = "idle"
  BY DEF Init
<1>2. sent \in Seq(Proper) /\ done \in Seq(Proper) /\ Len(sent) = 0 /\ Len(done) = 0
  BY <1>1, EmptySeq
<1>3. FirstState \in States /\ StateSet(FirstState) \in Proper
  BY CommandAssumption, NewCommands
<1>4. WellFormed
  BY <1>2, <1>3 DEF Init, WellFormed
<1>5. TypeOK
  <2>1. sent \in Seq(Commands) /\ done \in Seq(Commands) /\ want \in [Callers -> Commands]
    BY <1>2, <1>4, ProperCommands DEF WellFormed
  <2>2. /\ pc \in [Callers -> {"idle", "send", "test", "enter", "waiting", "woken"}]
        /\ waits \in [Callers -> BOOLEAN] /\ prev \in [Callers -> States]
    BY <1>3 DEF Init
  <2>3. /\ current \in States /\ enabled \subseteq Ports /\ flushing \subseteq Ports
        /\ state \in States /\ shared \in BOOLEAN /\ raced \in BOOLEAN
        /\ refused \subseteq {"state", "on", "off", "flush"} /\ missed \subseteq Callers
    BY <1>3 DEF Init
  <2>4. calls \in 0 .. MaxCalls
    BY CommandAssumption DEF Init
  <2>5. QED
    BY <2>1, <2>2, <2>3, <2>4 DEF TypeOK
<1>6. \A t \in Callers, kind \in {"state", "flush"} : ~AtSend(t, kind)
  BY <1>1 DEF AtSend
<1>7. Accounted /\ OwedOnce /\ FlushNoted
  BY <1>2, <1>6 DEF Accounted, OwedOnce, FlushNoted, PortsOf, Disjoint
<1>8. OneSetsState /\ CurrentAhead
  BY <1>1, <1>2, <1>6 DEF OneSetsState, CurrentAhead, WillBe
<1>9. QED
  BY <1>4, <1>5, <1>7, <1>8 DEF Inv

(* Every step keeps it. *)
LEMMA InvStep == Inv /\ [Next]_vars => Inv'
BY TypeStep, FlushStep, CurrentStep DEF Inv, FlushInv, CurrentInv

(* The variables have their types, for any number of callers and calls.     *)
THEOREM Typing == Spec => []TypeOK
<1>1. Inv => TypeOK
  BY DEF Inv
<1>2. QED
  BY <1>1, InvInit, InvStep, PTL DEF Spec

(* What flush() answers is true: its list has every port the component owes. *)
THEOREM FlushAnswers == Spec => []FlushAccounted
<1>1. Inv => FlushAccounted
  <2>1. ASSUME Accounted, NEW i \in 1 .. Len(sent), sent[i].kind = "flush" PROVE sent[i].ports \subseteq flushing
    BY <2>1 DEF Accounted, PortsOf, FlushPorts
  <2>2. ASSUME Accounted, NEW i \in 1 .. Len(done), done[i].kind = "flush" PROVE done[i].ports \subseteq flushing
    BY <2>2 DEF Accounted, PortsOf, FlushPorts
  <2> DEFINE SentOwed == UNION {sent[i].ports : i \in {j \in 1 .. Len(sent) : sent[j].kind = "flush"}}
             DoneOwed == UNION {done[i].ports : i \in {j \in 1 .. Len(done) : done[j].kind = "flush"}}
  <2>3. Accounted => SentOwed \subseteq flushing /\ DoneOwed \subseteq flushing
    BY <2>1, <2>2
  <2>4. FlushOwed = SentOwed \cup DoneOwed
    BY DEF FlushOwed
  <2> HIDE DEF SentOwed, DoneOwed
  <2>5. Accounted => FlushOwed \subseteq flushing
    BY <2>3, <2>4
  <2>6. QED
    BY <2>5 DEF Inv, FlushAccounted
<1>2. QED
  BY <1>1, InvInit, InvStep, PTL DEF Spec

(* current_state_ is the component's state when everything is answered.     *)
THEOREM CurrentTold == Spec => []CurrentIsReal
<1>1. Inv => CurrentIsReal
  <2>1. SUFFICES ASSUME TypeOK, CurrentAhead, sent = <<>>, \A t \in Callers : pc[t] = "idle", Undisturbed
                 PROVE  current = state
    BY DEF Inv, CurrentIsReal, Undisturbed
  <2>2. WillBe(current)
    BY <2>1 DEF CurrentAhead, AtSend
  <2>3. 1 .. Len(sent) = {}
    <3>1. Len(sent) = 0
      BY <2>1, EmptySeq
    <3>2. QED
      BY <3>1
  <2>4. QED
    BY <2>2, <2>3 DEF WillBe
<1>2. QED
  BY <1>1, InvInit, InvStep, PTL DEF Spec
-----------------------------------------------------------------------------
(* A state event the handler has not seen.                                  *)
StateToCome == \E i \in 1 .. Len(done) : done[i].kind = "state"

OneFlushes == \A t \in Callers : want[t].kind = "flush" => t = Flusher

InWait(t) == pc[t] \in {"enter", "waiting"}

(* A caller that stays in its wait although what it waits for is the case   *)
(* has missed the signal, or it waits for a state the handler has not been  *)
(* told of. (Ports and flushes are noted by the handler itself, as it       *)
(* signals.)                                                                *)
WaitExplained ==
    \A t \in Callers : InWait(t) /\ Met(want[t]) => t \in missed \/ (want[t].kind = "state" /\ StateToCome)

WaitInv == OneFlushes /\ WaitExplained

(* A call changes nothing that another caller waits for, but for flush(),   *)
(* which is the only one to wait for a flush.                               *)
LEMMA CallWaits ==
    ASSUME TypeOK, WellFormed, WaitInv, NEW t \in Callers, NEW command \in Proper, NEW place \in {"send", "test"},
           Call(t, command, place), UNCHANGED <<enabled, componentVars>>,
           command.kind = "flush" => t = Flusher, flushing' = flushing \/ t = Flusher
    PROVE  WaitInv'
<1>1. CallOf(t, command, place) /\ missed' = missed \ {t}
  BY CallFacts DEF Call
<1>2. OneFlushes'
  BY <1>1 DEF CallOf, WaitInv, OneFlushes
<1>3. ASSUME NEW u \in Callers, InWait(u)', Met(want[u])'
      PROVE  u \in missed' \/ (want'[u].kind = "state" /\ StateToCome')
  <2>1. u # t /\ want'[u] = want[u] /\ pc'[u] = pc[u]
    BY <1>1, <1>3 DEF CallOf, InWait
  <2>2. Met(want[u])
    BY <1>3, <2>1 DEF Met, componentVars, WaitInv, OneFlushes
  <2>3. u \in missed \/ (want[u].kind = "state" /\ StateToCome)
    BY <1>3, <2>1, <2>2 DEF WaitInv, WaitExplained, InWait
  <2>4. QED
    BY <1>1, <2>1, <2>3 DEF StateToCome, componentVars
<1>4. QED
  BY <1>2, <1>3 DEF WaitInv, WaitExplained

(* What a caller or the component does between signals.                     *)
LEMMA QuietWaits ==
    ASSUME WaitInv, UNCHANGED <<want, missed>>, StateToCome => StateToCome',
           \A t \in Callers : InWait(t)' /\ Met(want[t])' =>
                                \/ InWait(t) /\ Met(want[t])
                                \/ want[t].kind = "state" /\ StateToCome'
    PROVE  WaitInv'
BY DEF WaitInv, OneFlushes, WaitExplained

(* The handler: whoever is in a wait that has come true is woken or misses  *)
(* the signal.                                                              *)
LEMMA HandlerWaits ==
    ASSUME TypeOK, WellFormed, WaitInv, HandleEvent
    PROVE  WaitInv'
<1>1. /\ done # <<>> /\ done' = Tail(done)
      /\ UNCHANGED <<current, state, sent, shared, refused, callerVars, raced>>
  BY DEF HandleEvent
<1>2. /\ Len(done) \in Nat /\ Len(done) >= 1 /\ Head(done) = done[1] /\ Len(Tail(done)) = Len(done) - 1
      /\ \A i \in 1 .. Len(done) - 1 : Tail(done)[i] = done[i + 1]
  BY <1>1, TailFacts DEF WellFormed
<1>3. CASE Told(Head(done))
  <2>1. Signal
    BY <1>3 DEF HandleEvent
  <2>2. ASSUME NEW t \in Callers, InWait(t)', Met(want[t])'
        PROVE  t \in missed'
    <3>1. CASE pc' = pc
      <4>1. pc[t] \in {"enter", "waiting"}
        BY <2>2, <3>1 DEF InWait
      <4>2. \A w \in Callers : pc[w] = "waiting" => ~GoTo(w, "woken")
        BY <3>1 DEF GoTo, TypeOK
      <4>3. QED
        BY <2>1, <2>2, <4>1, <4>2 DEF Signal
    <3>2. ASSUME NEW w \in Callers, pc[w] = "waiting", GoTo(w, "woken"),
                 missed' = missed \cup ({u \in Callers : pc[u] \in {"enter", "waiting"} /\ Met(want[u])'} \ {w})
          PROVE  t \in missed'
      <4>1. t # w /\ pc'[t] = pc[t]
        BY <2>2, <3>2 DEF GoTo, TypeOK, InWait
      <4>2. QED
        BY <2>2, <3>2, <4>1 DEF InWait
    <3>3. QED
      BY <2>1, <3>1, <3>2 DEF Signal
  <2>3. QED
    BY <1>1, <2>2 DEF WaitInv, WaitExplained, OneFlushes, callerVars
<1>4. CASE ~Told(Head(done))
  <2>1. Head(done).kind = "flush" /\ flushing' # {}
    BY <1>4 DEF Told
  <2>2. UNCHANGED <<pc, missed>>
    BY <1>4 DEF HandleEvent
  <2>3. enabled' = enabled
    BY <2>1 DEF HandleEvent
  <2>4. StateToCome => StateToCome'
    <3>1. ASSUME NEW i \in 1 .. Len(done), done[i].kind = "state"
          PROVE  i - 1 \in 1 .. Len(done') /\ done'[i - 1].kind = "state"
      <4>1. i # 1
        BY <1>2, <2>1, <3>1
      <4>2. i - 1 \in 1 .. Len(done) - 1 /\ (i - 1) + 1 = i
        BY <1>2, <4>1
      <4>3. QED
        BY <1>1, <1>2, <3>1, <4>2
    <3>2. QED
      BY <3>1 DEF StateToCome
  <2>5. \A t \in Callers : Met(want[t])' => Met(want[t])
    BY <1>1, <2>1, <2>3 DEF Met, callerVars
  <2>6. QED
    BY <1>1, <2>2, <2>4, <2>5, QuietWaits DEF callerVars, InWait
<1>5. QED
  BY <1>3, <1>4

(* Every step keeps what a caller in its wait is owed. *)
LEMMA WaitStep == TypeOK /\ WellFormed /\ WaitInv /\ [Next]_vars => WaitInv'
<1> SUFFICES ASSUME TypeOK, WellFormed, WaitInv, [Next]_vars PROVE WaitInv'
  OBVIOUS
<1>0. done \in Seq(Proper) /\ sent \in Seq(Proper)
  BY DEF WellFormed
<1>1. ASSUME NEW t \in Callers, SetState(t) PROVE WaitInv'
  <2>1. PICK s \in States \ {state} : Call(t, StateSet(s), "send") /\ UNCHANGED <<enabled, flushing, componentVars>>
    BY <1>1 DEF SetState
  <2>2. StateSet(s) \in Proper /\ StateSet(s).kind # "flush"
    BY NewCommands DEF StateSet
  <2>3. QED
    BY <2>1, <2>2, CallWaits
<1>2. ASSUME NEW t \in Callers, EnablePort(t) \/ WaitForPortEnable(t) PROVE WaitInv'
  <2>1. PICK p \in Ports, kind \in {"on", "off"}, place \in {"send", "test"} :
          Call(t, PortCommand(kind, {p}), place) /\ UNCHANGED <<clientVars, componentVars, prev, raced>>
    BY <1>2 DEF EnablePort, WaitForPortEnable
  <2>2. PortCommand(kind, {p}) \in Proper /\ PortCommand(kind, {p}).kind # "flush"
    BY NewCommands DEF PortCommand
  <2>3. QED
    BY <2>1, <2>2, CallWaits DEF clientVars
<1>3. ASSUME NEW t \in Callers, Flush(t) PROVE WaitInv'
  <2>1. PICK ps \in ToFlush :
          t = Flusher /\ Call(t, PortCommand("flush", ps), "send") /\ UNCHANGED <<enabled, componentVars>>
    BY <1>3 DEF Flush
  <2>2. PortCommand("flush", ps) \in Proper
    BY NewCommands DEF ToFlush, TypeOK
  <2>3. QED
    BY <2>1, <2>2, CallWaits
<1>4. ASSUME NEW t \in Callers, Send(t) PROVE WaitInv'
  <2>1. MoveOf(t, {"send"}) /\ UNCHANGED <<clientVars, state, done, missed>>
    BY <1>4, SendFacts
  <2>2. ~InWait(t)'
    BY <1>4 DEF Send, GoTo, InWait, TypeOK
  <2>3. QED
    BY <2>1, <2>2, QuietWaits DEF MoveOf, clientVars, callerVars, InWait, Met, StateToCome
<1>5. ASSUME NEW t \in Callers, SendFails(t) PROVE WaitInv'
  <2>1. /\ MoveOf(t, {"send"}) /\ UNCHANGED <<enabled, componentVars, missed>>
        /\ flushing' = (IF want[t].kind = "flush" THEN {} ELSE flushing)
    BY <1>5, FailFacts
  <2>2. ~InWait(t)'
    BY <1>5 DEF SendFails, GoTo, InWait, TypeOK
  <2>3. \A u \in Callers : u # t => (Met(want[u])' => Met(want[u]))
    BY <2>1 DEF MoveOf, callerVars, componentVars, Met, WaitInv, OneFlushes
  <2>4. QED
    BY <2>1, <2>2, <2>3, QuietWaits DEF MoveOf, componentVars, callerVars, InWait, StateToCome
<1>6. ASSUME NEW t \in Callers, Test(t) \/ EnterWait(t) \/ Timeout(t) PROVE WaitInv'
  <2>1. /\ MoveOf(t, {"test", "woken", "enter", "waiting"})
        /\ UNCHANGED <<clientVars, componentVars, missed>>
    BY <1>6, WaitFacts
  <2>2. \A u \in Callers : Met(want[u])' <=> Met(want[u])
    BY <2>1 DEF MoveOf, callerVars, componentVars, clientVars, Met
  <2>3. InWait(t)' => InWait(t) \/ ~Met(want[t])
    BY <1>6 DEF Test, EnterWait, Timeout, GoTo, InWait, TypeOK
  <2>4. QED
    BY <2>1, <2>2, <2>3, QuietWaits DEF MoveOf, componentVars, callerVars, InWait, StateToCome
<1>7. ASSUME sent # <<>>, UNCHANGED <<clientVars, pc, callerVars, missed>>, NEW e \in Proper,
             done' = Append(done, e), state' = state \/ e.kind = "state"
      PROVE  WaitInv'
  <2>1. /\ Len(done) \in Nat /\ Len(done') = Len(done) + 1 /\ done'[Len(done) + 1] = e
        /\ \A i \in 1 .. Len(done) : done'[i] = done[i]
    BY <1>0, <1>7, AppendFacts
  <2>2. StateToCome => StateToCome'
    <3>1. \A i \in 1 .. Len(done) : i \in 1 .. Len(done')
      BY <2>1
    <3>2. QED
      BY <2>1, <3>1 DEF StateToCome
  <2>3. e.kind = "state" => StateToCome'
    <3>1. Len(done) + 1 \in 1 .. Len(done')
      BY <2>1
    <3>2. QED
      BY <2>1, <3>1 DEF StateToCome
  <2>4. \A t \in Callers : Met(want[t])' => Met(want[t]) \/ (want[t].kind = "state" /\ e.kind = "state")
    BY <1>7 DEF clientVars, callerVars, Met
  <2>5. QED
    BY <1>7, <2>2, <2>3, <2>4, QuietWaits DEF callerVars, InWait
<1>8. CASE Complete
  <2>1. /\ sent # <<>> /\ UNCHANGED <<clientVars, pc, callerVars, missed>> /\ done' = Append(done, Head(sent))
        /\ state' = state \/ Head(sent).kind = "state"
    BY <1>8 DEF Complete
  <2>2. Head(sent) \in Proper
    BY <1>0, <2>1, TailFacts
  <2>3. QED
    BY <1>7, <2>1, <2>2
<1>9. ASSUME UNCHANGED <<clientVars, state, done, pc, callerVars, missed>> PROVE WaitInv'
  BY <1>9, QuietWaits DEF clientVars, callerVars, InWait, Met, StateToCome
<1>10. CASE CompleteFlush
  <2>1. sent # <<>> /\ UNCHANGED <<clientVars, state, pc, callerVars, missed>>
    BY <1>10 DEF CompleteFlush
  <2>2. CASE Head(sent).ports = {}
    <3>1. done' = done
      BY <1>10, <2>2 DEF CompleteFlush
    <3>2. QED
      BY <1>9, <2>1, <3>1
  <2>3. CASE Head(sent).ports # {}
    <3>1. PICK p \in Head(sent).ports : done' = Append(done, PortCommand("flush", {p}))
      BY <1>10, <2>3 DEF CompleteFlush
    <3>2. Head(sent) \in Proper
      BY <1>0, <2>1, TailFacts
    <3>3. PortCommand("flush", {p}) \in Proper
      BY <3>2, ProperFields, NewCommands
    <3>4. QED
      BY <1>7, <2>1, <3>1, <3>3
  <2>4. QED
    BY <2>2, <2>3
<1>11. CASE Refuse
  BY <1>9, <1>11 DEF Refuse
<1>12. CASE HandleEvent
  BY <1>12, HandlerWaits
<1>13. CASE UNCHANGED vars
  BY <1>9, <1>13 DEF vars, componentVars
<1>14. QED
  BY <1>1, <1>2, <1>3, <1>4, <1>5, <1>6, <1>8, <1>10, <1>11, <1>12, <1>13 DEF Next, Begin, GoOn

(* A wait that ends by its deadline although what it waits for is the case   *)
(* has missed its signal, or the handler has an event to handle yet: there  *)
(* is no other way to time out in vain.                                     *)
THEOREM TimeoutsExplained == Spec => TimeoutExplained
<1>1. Init => WaitInv
  BY DEF Init, WaitInv, OneFlushes, WaitExplained, InWait, StateSet
<1>2. Inv /\ WaitInv /\ [Next]_vars => WaitInv'
  BY WaitStep DEF Inv
<1>3. Inv /\ WaitInv /\ [Next]_vars =>
        [\A t \in Callers : (pc[t] = "waiting" /\ pc'[t] = "idle" /\ Met(want[t])) => (t \in missed \/ done # <<>>)]_vars
  <2>1. StateToCome /\ WellFormed => done # <<>>
    BY EmptySeq DEF StateToCome, WellFormed
  <2>2. QED
    BY <2>1 DEF Inv, WaitInv, WaitExplained, InWait
<1>4. QED
  BY <1>1, <1>2, <1>3, InvInit, InvStep, PTL DEF Spec, TimeoutExplained
=============================================================================
