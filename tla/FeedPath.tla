------------------------------ MODULE FeedPath ------------------------------
(***************************************************************************)
(* The way of a frame from feedData() into the codec, for one stream        *)
(* (src/src/esplayer.cpp): feedData() puts the frame into                   *)
(* stream_buff_queue_ and a message into the renderer looper; the looper's  *)
(* handler, Feed_VideoData() or Feed_AudioData(), takes whatever frame is   *)
(* in front and writes it to free input buffers of the codec. flush() and   *)
(* unload() clear and destroy meanwhile, under a mutex that feedData() and   *)
(* the handler only wait for and never hold: their lock_guard is the body   *)
(* of an if (1128, 1205, 1319).                                             *)
(*                                                                          *)
(* The messages of a looper are all the same here, so they are counted. A   *)
(* player that was unloaded cannot be loaded again.                         *)
(***************************************************************************)
EXTENDS Naturals, Sequences

CONSTANTS
    MaxFrames,  (* bound on the frames fed                               *)
    N,          (* input buffers of the codec                            *)
    MaxParts,   (* bound on the input buffers a frame's data fills       *)
    MaxFlushes  (* bound on the calls of flush()                         *)

ASSUME FeedAssumption ==
    /\ MaxFrames \in Nat /\ MaxFlushes \in Nat
    /\ N \in Nat \ {0} /\ MaxParts \in Nat \ {0}

Frames == 1 .. MaxFrames
None == 0
Sizes == [Frames -> 1 .. MaxParts]

VARIABLES
    stream,   (* "video" or "audio"                                        *)
    size,     (* per frame, the input buffers its data fills; audio: decoded *)
    status,   (* state_: "PLAYING" stands for LOADED, PLAYING and PAUSED   *)
    loaded,   (* loaded_                                                   *)
    codec,    (* the codec: "there", "freed" (its buffers are), "null"     *)
    decodes,  (* the codec takes data: it executes, and its output is taken *)
    free,     (* input buffers the client owns                             *)
    queue,    (* stream_buff_queue_ of the stream                          *)
    msgs,     (* messages in the renderer looper                           *)
    running,  (* the looper's running_                                     *)
    fpc, fed, (* the feeder's place, and the last frame it began to feed   *)
    lpc, cur, (* the looper thread's place, and the frame it has a pointer to *)
    parts,    (* calls of writeToFreeBuffer() for cur so far               *)
    room,     (* free buffers it counted before                            *)
    result,   (* written_len: "zero", "some" or "negative"                 *)
    opc,      (* place of the flush() or unload() that has the mutex       *)
    saved,    (* flush()'s save_state                                      *)
    flushes,  (* calls of flush() so far                                   *)
    put,      (* history: per frame, parts the codec accepted              *)
    fate,     (* history: per frame, how it left the queue                 *)
    old,      (* history: last frame fed before flush() cleared the queue  *)
    past      (* history: what disturbed the path                          *)

playerVars == <<stream, size, status, loaded, codec, decodes, running, saved, flushes>>
looperVars == <<lpc, cur, parts, room, result>>
history == <<put, fate, old, past>>
vars == <<playerVars, free, queue, msgs, fpc, fed, looperVars, opc, history>>

(* The calls of writeToFreeBuffer() for a frame: Feed_VideoData() splits the *)
(* data by the size of the buffers, Feed_AudioData() does not.               *)
Calls(f) == IF stream = "video" THEN size[f] ELSE 1

Crashed == past \cap {"deadFrame", "deadCodec"} # {}
MutexFree == opc = "none"

(* The frame exists while the queue or the feeder's call refers to it. *)
Alive(f) == (\E i \in 1 .. Len(queue) : queue[i] = f) \/ (f = fed /\ fpc # "idle")

Init ==
    /\ stream \in {"video", "audio"} /\ size \in Sizes
    /\ decodes \in BOOLEAN
    /\ status = "PLAYING" /\ saved = "PLAYING" /\ loaded = TRUE
    /\ codec = "there" /\ free = N /\ queue = <<>> /\ msgs = 0 /\ running \in BOOLEAN
    /\ fpc = "idle" /\ fed = None
    /\ lpc = "idle" /\ cur = None /\ parts = 0 /\ room = 0 /\ result = "zero"
    /\ opc = "none" /\ flushes = 0
    /\ put = [f \in Frames |-> 0] /\ fate = [f \in Frames |-> "fed"]
    /\ old = None /\ past = {}
-----------------------------------------------------------------------------
(* feedData(): tests, *)
FeedTest ==
    /\ fpc = "idle" /\ fed < MaxFrames
    /\ loaded /\ status = "PLAYING"
    /\ fpc' = "gate" /\ fed' = fed + 1
    /\ UNCHANGED <<playerVars, free, queue, msgs, looperVars, opc, history>>

(* passes the mutex, for which it waits unless the player is PLAYING,       *)
FeedGate ==
    /\ fpc = "gate" /\ (status = "PLAYING" \/ MutexFree)
    /\ fpc' = "push"
    /\ UNCHANGED <<playerVars, free, queue, msgs, fed, looperVars, opc, history>>

(* pushes the frame *)
PushBufQueue ==
    /\ fpc = "push"
    /\ queue' = Append(queue, fed)
    /\ fpc' = "append"
    /\ UNCHANGED <<playerVars, free, msgs, fed, looperVars, opc, history>>

(* and appends its message. *)
AppendMessage ==
    /\ fpc = "append"
    /\ msgs' = msgs + 1
    /\ fpc' = "idle"
    /\ UNCHANGED <<playerVars, free, queue, fed, looperVars, opc, history>>
-----------------------------------------------------------------------------
LooperTo(place) == lpc' = place
ClearedNow == [f \in Frames |-> IF \E i \in 1 .. Len(queue) : queue[i] = f THEN "cleared" ELSE fate[f]]

(* The looper runs its front message. *)
TakeMessage ==
    /\ lpc = "idle" /\ running /\ msgs > 0
    /\ LooperTo("gate") /\ cur' = None /\ parts' = 0 /\ result' = "zero"
    /\ UNCHANGED <<playerVars, free, queue, msgs, fpc, fed, room, opc, history>>

(* Feed_*Data(): the mutex, as in feedData(). *)
HandlerGate ==
    /\ lpc = "gate" /\ (status = "PLAYING" \/ MutexFree)
    /\ LooperTo("codec")
    /\ UNCHANGED <<playerVars, free, queue, msgs, fpc, fed, cur, parts, room, result, opc, history>>

(* Without a codec the handler clears the queue. *)
TestCodec ==
    /\ lpc = "codec"
    /\ IF codec = "null"
       THEN queue' = <<>> /\ fate' = ClearedNow /\ LooperTo("pop")
       ELSE LooperTo(IF stream = "video" THEN "get" ELSE "count") /\ UNCHANGED <<queue, fate>>
    /\ UNCHANGED <<playerVars, free, msgs, fpc, fed, cur, parts, room, result, opc, put, old, past>>

(* Mutant: the queue's back instead of its front. *)
GetBufQueueBack ==
    /\ lpc = "get"
    /\ IF queue = <<>>
       THEN LooperTo("pop") /\ UNCHANGED cur
       ELSE cur' = queue[Len(queue)] /\ LooperTo(IF stream = "video" THEN "count" ELSE "write")
    /\ UNCHANGED <<playerVars, free, queue, msgs, fpc, fed, parts, room, result, opc, history>>

(* Mutant: the frame is popped when it is fetched. *)
GetBufQueuePops ==
    /\ lpc = "get"
    /\ IF queue = <<>>
       THEN LooperTo("pop") /\ UNCHANGED <<cur, queue>>
       ELSE /\ cur' = Head(queue) /\ queue' = Tail(queue)
            /\ LooperTo(IF stream = "video" THEN "count" ELSE "write")
    /\ UNCHANGED <<playerVars, free, msgs, fpc, fed, parts, room, result, opc, history>>

(* getBufQueue() returns the raw pointer; nothing holds the frame. *)
GetBufQueue ==
    /\ lpc = "get"
    /\ IF queue = <<>>
       THEN LooperTo("pop") /\ UNCHANGED cur
       ELSE cur' = Head(queue) /\ LooperTo(IF stream = "video" THEN "count" ELSE "write")
    /\ UNCHANGED <<playerVars, free, queue, msgs, fpc, fed, parts, room, result, opc, history>>

(* Mutant: a full codec is no failure. *)
CountFreeSucceeds ==
    /\ lpc = "count" /\ codec = "there"
    /\ room' = free
    /\ LooperTo(IF free = 0 THEN "pop" ELSE IF stream = "video" THEN "write" ELSE "get")
    /\ UNCHANGED <<playerVars, free, queue, msgs, fpc, fed, cur, parts, result, opc, history>>

(* No free buffer: NDL_ESP_RESULT_FEED_FULL, and the message is run again. *)
CountFree ==
    /\ lpc = "count" /\ codec = "there"
    /\ room' = free
    /\ LooperTo(IF free = 0 THEN "idle" ELSE IF stream = "video" THEN "write" ELSE "get")
    /\ UNCHANGED <<playerVars, free, queue, msgs, fpc, fed, cur, parts, result, opc, history>>

(* One call of writeToFreeBuffer(): data goes into a free buffer, unless    *)
(* there is none, or the component rejects it. What does not fit into the   *)
(* buffer is cut off, and the call succeeds all the same.                   *)
WritePart ==
    /\ lpc = "write" /\ parts < Calls(cur)
    /\ codec = "there" /\ Alive(cur)
    /\ parts' = parts + 1
    /\ \/ /\ free > 0
          /\ free' = free - 1 /\ put' = [put EXCEPT ![cur] = @ + 1] /\ result' = "some"
          /\ UNCHANGED past
       \/ free > 0 /\ past' = past \cup {"rejected"} /\ UNCHANGED <<free, put, result>>
       \/ free = 0 /\ result' = (IF result = "some" THEN "some" ELSE "negative") /\ UNCHANGED <<free, put, past>>
    /\ UNCHANGED <<playerVars, queue, msgs, fpc, fed, lpc, cur, room, opc, fate, old>>

(* What is gone by now is used all the same, and the program stops: the     *)
(* frame, cleared from the queue, or the codec, whose buffers are freed.    *)
UseGone ==
    /\ lpc = "count" \/ (lpc = "write" /\ parts < Calls(cur))
    /\ \/ codec # "there" /\ past' = past \cup {"deadCodec"}
       \/ cur # None /\ ~Alive(cur) /\ past' = past \cup {"deadFrame"}
    /\ UNCHANGED <<playerVars, free, queue, msgs, fpc, fed, looperVars, opc, put, fate, old>>

(* Mutant: the first part of a frame is taken for the whole. *)
PopBufQueueTooSoon ==
    /\ lpc = "write" /\ parts > 0
    /\ queue' = IF queue = <<>> THEN queue ELSE Tail(queue)
    /\ fate' = IF queue = <<>> THEN fate
               ELSE [fate EXCEPT ![Head(queue)] = IF Head(queue) = cur THEN "done" ELSE "lost"]
    /\ LooperTo(IF result = "negative" THEN "idle" ELSE "pop")
    /\ UNCHANGED <<playerVars, free, msgs, fpc, fed, cur, parts, room, result, opc, put, old, past>>

(* popBufQueue(): whatever frame is in front goes. The message stays if     *)
(* nothing was written for want of a buffer.                                *)
PopBufQueue ==
    /\ lpc = "write" /\ parts = Calls(cur)
    /\ queue' = IF queue = <<>> THEN queue ELSE Tail(queue)
    /\ fate' = IF queue = <<>> THEN fate
               ELSE [fate EXCEPT ![Head(queue)] = IF Head(queue) = cur THEN "done" ELSE "lost"]
    /\ LooperTo(IF result = "negative" THEN "idle" ELSE "pop")
    /\ UNCHANGED <<playerVars, free, msgs, fpc, fed, cur, parts, room, result, opc, put, old, past>>

(* The looper pops the message of a handler that succeeded. *)
PopMessage ==
    /\ lpc = "pop"
    /\ msgs' = IF msgs = 0 THEN 0 ELSE msgs - 1
    /\ LooperTo("idle")
    /\ UNCHANGED <<playerVars, free, queue, fpc, fed, cur, parts, room, result, opc, history>>
-----------------------------------------------------------------------------
(* A handler had a message, or a frame, in hand when its queue was cleared. *)
CaughtNow == IF lpc # "idle" THEN {"inHandler"} ELSE {}

(* The last frame whose feedData() has returned. *)
FedBefore == IF fpc = "idle" THEN fed ELSE fed - 1

(* flush() has the mutex; its tests may be outdated by now. *)
FlushBegin ==
    /\ MutexFree /\ flushes < MaxFlushes
    /\ flushes' = flushes + 1
    /\ saved' = status /\ status' = "FLUSHING"
    /\ opc' = "clearMsgs"
    /\ UNCHANGED <<stream, size, loaded, codec, decodes, running, free, queue, msgs, fpc, fed, looperVars, history>>

(* The clock does not stop: nothing is cleared. *)
FlushBreak ==
    /\ opc = "clearMsgs" /\ opc' = "none"
    /\ status' = saved
    /\ UNCHANGED <<stream, size, loaded, codec, decodes, running, saved, flushes, free, queue, msgs, fpc, fed, looperVars, history>>

(* clearFrameQueues(), then *)
ClearMessages ==
    /\ opc = "clearMsgs" /\ opc' = "clearBufs"
    /\ msgs' = 0
    /\ past' = past \cup CaughtNow
    /\ UNCHANGED <<playerVars, free, queue, fpc, fed, looperVars, put, fate, old>>

(* Mutant: only the messages are cleared. *)
ClearBufQueueNever ==
    /\ opc = "clearBufs" /\ opc' = "components"
    /\ old' = FedBefore
    /\ past' = past \cup CaughtNow
    /\ UNCHANGED <<playerVars, free, queue, msgs, fpc, fed, looperVars, put, fate>>

(* clearBufQueue(). *)
ClearBufQueue ==
    /\ opc = "clearBufs" /\ opc' = "components"
    /\ queue' = <<>> /\ fate' = ClearedNow
    /\ old' = FedBefore
    /\ past' = past \cup CaughtNow
    /\ UNCHANGED <<playerVars, free, msgs, fpc, fed, looperVars, put>>

(* A component does not pause: flush() returns, with the player FLUSHING. *)
FlushReturn ==
    /\ opc = "components" /\ opc' = "none"
    /\ UNCHANGED <<playerVars, free, queue, msgs, fpc, fed, looperVars, history>>

(* The components are flushed: the codec has given all buffers back. *)
FlushComponents ==
    /\ opc = "components" /\ opc' = "end"
    /\ free' = N
    /\ UNCHANGED <<playerVars, queue, msgs, fpc, fed, looperVars, history>>

FlushEnd ==
    /\ opc = "end" /\ opc' = "none"
    /\ status' = saved
    /\ UNCHANGED <<stream, size, loaded, codec, decodes, running, saved, flushes, free, queue, msgs, fpc, fed, looperVars, history>>

(* unload(): the messages are cleared, the frames are not; *)
UnloadBegin ==
    /\ MutexFree /\ loaded
    /\ loaded' = FALSE /\ msgs' = 0
    /\ opc' = "free" /\ past' = past \cup {"unload"}
    /\ UNCHANGED <<stream, size, status, codec, decodes, running, saved, flushes, free, queue, fpc, fed, looperVars, put, fate, old>>

(* the codec's buffers are freed, and it is destroyed. *)
UnloadCodec ==
    /\ \/ opc = "free" /\ codec' = "freed" /\ opc' = "destroy" /\ UNCHANGED status
       \/ opc = "destroy" /\ codec' = "null" /\ opc' = "none" /\ status' = "UNLOADED"
    /\ UNCHANGED <<stream, size, loaded, decodes, running, saved, flushes, free, queue, msgs, fpc, fed, looperVars, history>>

(* play() starts the looper, pause() stops it. *)
SetRunningState(run) ==
    /\ running' = run
    /\ UNCHANGED <<stream, size, status, loaded, codec, decodes, saved, flushes, free, queue, msgs, fpc, fed, looperVars, opc, history>>

(* play(), pause() and flush() change the codec's state and its output's    *)
(* end: it is Idle before the first play(), and paused, though the looper   *)
(* is started, after a flush() that returned early.                         *)
SetDecodes(on) ==
    /\ decodes' = on
    /\ UNCHANGED <<stream, size, status, loaded, codec, running, saved, flushes, free, queue, msgs, fpc, fed, looperVars, opc, history>>

(* The codec (external) has decoded a buffer, and emptyBufferDone() takes it back. *)
Decoded ==
    /\ codec = "there" /\ decodes /\ free < N
    /\ free' = free + 1
    /\ UNCHANGED <<playerVars, queue, msgs, fpc, fed, looperVars, opc, history>>

(* play() or a callback sends the codec's configuration in a buffer. *)
SendConfig ==
    /\ codec = "there" /\ free > 0 /\ "config" \notin past
    /\ free' = free - 1
    /\ past' = past \cup {"config"}
    /\ UNCHANGED <<playerVars, queue, msgs, fpc, fed, looperVars, opc, put, fate, old>>
-----------------------------------------------------------------------------
Feeder == FeedGate \/ PushBufQueue \/ AppendMessage
Looper == TakeMessage \/ HandlerGate \/ TestCodec \/ GetBufQueue \/ CountFree \/ WritePart \/ UseGone
          \/ PopBufQueue \/ PopMessage
GoOn == ClearMessages \/ ClearBufQueue \/ FlushComponents \/ FlushEnd \/ UnloadCodec

Next ==
    /\ ~Crashed
    /\ \/ FeedTest \/ Feeder \/ Looper
       \/ FlushBegin \/ FlushBreak \/ FlushReturn \/ UnloadBegin \/ GoOn
       \/ \E on \in BOOLEAN : SetRunningState(on) \/ SetDecodes(on)
       \/ Decoded \/ SendConfig

Spec == Init /\ [][Next]_vars

(* Each thread goes on, and a codec that executes decodes the data it has. *)
Fairness ==
    /\ WF_vars(Feeder /\ ~Crashed) /\ WF_vars(Looper /\ ~Crashed)
    /\ WF_vars(GoOn /\ ~Crashed) /\ WF_vars(Decoded /\ ~Crashed)
FairSpec == Spec /\ Fairness
-----------------------------------------------------------------------------
TypeOK ==
    /\ stream \in {"video", "audio"} /\ size \in Sizes
    /\ decodes \in BOOLEAN
    /\ status \in {"PLAYING", "FLUSHING", "UNLOADED"} /\ saved \in {"PLAYING", "FLUSHING", "UNLOADED"}
    /\ loaded \in BOOLEAN /\ codec \in {"there", "freed", "null"}
    /\ free \in 0 .. N /\ queue \in Seq(Frames) /\ msgs \in Nat /\ running \in BOOLEAN
    /\ fpc \in {"idle", "gate", "push", "append"} /\ fed \in 0 .. MaxFrames
    /\ lpc \in {"idle", "gate", "codec", "get", "count", "write", "pop"}
    /\ cur \in Frames \cup {None} /\ parts \in 0 .. MaxParts /\ room \in 0 .. N
    /\ result \in {"zero", "some", "negative"}
    /\ opc \in {"none", "clearMsgs", "clearBufs", "components", "end", "free", "destroy"}
    /\ flushes \in 0 .. MaxFlushes
    /\ put \in [Frames -> 0 .. MaxParts] /\ fate \in [Frames -> {"fed", "done", "lost", "cleared"}]
    /\ old \in 0 .. MaxFrames
    /\ past \subseteq {"rejected", "config", "unload", "inHandler", "deadFrame", "deadCodec"}

(* The handler's pointer stays good over all its writes, although nothing    *)
(* holds the frame, unless flush() clears the queue under a handler.         *)
DeadFrameNeedsClear == "deadFrame" \in past => "inHandler" \in past

(* At rest each frame has a message that will fetch it: no frame is left     *)
(* behind, to be written in place of a later one. flush() under a handler    *)
(* breaks this, and so does unload().                                        *)
FrameHasMessage ==
    (lpc = "idle" /\ fpc = "idle" /\ opc = "none" /\ past \cap {"inHandler", "unload"} = {})
        => Len(queue) <= msgs

(* The frame that is popped is the one that was written, with one exception: *)
(* flush() cleared under a handler, which then pops a frame fed since.       *)
LossNeedsClear == (\E f \in Frames : fate[f] = "lost") => "inHandler" \in past

(* A frame the handler is done with is in the codec whole, if there was room *)
(* for it when the handler counted, the component took the parts, and no     *)
(* configuration took a buffer between. Audio that does not fit into one     *)
(* buffer never is: what is over is cut off and nobody told.                 *)
TooLong(f) == stream = "audio" /\ size[f] > 1
WholeIfRoom ==
    [][\A f \in Frames : (fate'[f] = "done" /\ fate[f] # "done") =>
        \/ put[f] = size[f] \/ TooLong(f)
        \/ room < size[f] \/ past \cap {"rejected", "config"} # {}]_vars

(* The queues, messages and threads keep the promise of FrameStream: frames *)
(* reach the codec in feeding order, each part at most once, and "Flush the  *)
(* stream buffer" cuts off what was fed before it, whoever had a frame in    *)
(* hand then. (A handler that had reads a dead frame.)                       *)
Stream == INSTANCE FrameStream WITH need <- size, cut <- old, got <- put
StreamsFrames == Stream!Spec

(* A frame that was pushed leaves the queue if from some time on the looper  *)
(* is started and the codec decodes: also through a full codec, a handler    *)
(* that failed, and pauses before that time.                                 *)
QueuedGetsOut ==
    \A f \in Frames : <>[](running /\ decodes) =>
        ((\E i \in 1 .. Len(queue) : queue[i] = f) ~>
            (fate[f] # "fed" \/ past \cap {"unload", "inHandler"} # {}))
=============================================================================
