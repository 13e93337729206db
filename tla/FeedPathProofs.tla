--------------------------- MODULE FeedPathProofs ---------------------------
(***************************************************************************)
(* Proofs about FeedPath, for any number of frames, of buffers, of parts    *)
(* and of flushes.                                                          *)
(***************************************************************************)
EXTENDS FeedPath, SequenceTheorems, TLAPS

Index == 1 .. Len(queue)

(* A frame was begun to be fed, and is not in the queue yet if feedData()   *)
(* has yet to push it.                                                      *)
Pushed(f) == f <= fed /\ (fpc \in {"gate", "push"} => f < fed)

(* The queue is ordered, each frame is in it once, and it holds only what   *)
(* was pushed.                                                              *)
QueueOrdered ==
    /\ \A i \in Index : Pushed(queue[i])
    /\ \A i, j \in Index : i < j => queue[i] < queue[j]
    /\ fpc # "idle" => fed > 0

(* The handler's frame is not behind another one in the queue.              *)
HandlerFirst ==
    /\ lpc \in {"count", "write"} =>
         (cur = None \/ Pushed(cur)) /\ \A i \in Index : cur <= queue[i]
    /\ (lpc = "write" \/ (lpc = "count" /\ stream = "video")) => cur # None
    /\ lpc \in {"gate", "codec"} => cur = None

(* What the codec has of a frame was written by the handler in course, or   *)
(* the frame is not in the queue any more, and none before it is.           *)
PutInOrder ==
    \A g \in Frames : put[g] > 0 =>
        /\ Pushed(g)
        /\ \A i \in Index : g <= queue[i] /\ (g = queue[i] => lpc = "write" /\ g = cur)

(* The codec has at most as many parts of the handler's frame as it has     *)
(* written.                                                                 *)
PutBounded ==
    lpc \in {"count", "write"} /\ cur # None => put[cur] <= parts

(* Without a flush() under the handler its frame is still the one in front. *)
FrontInHand ==
    (lpc \in {"count", "write"} /\ cur # None /\ "inHandler" \notin past)
        => queue # <<>> /\ Head(queue) = cur

(* There is a message for each frame, its feeder about to append it, or a   *)
(* flush() about to clear the frames; and the one the looper runs is there. *)
Counted ==
    past \cap {"inHandler", "unload"} = {} =>
        /\ lpc # "idle" => msgs > 0
        /\ opc # "clearBufs" =>
             Len(queue) + (IF lpc = "pop" THEN 1 ELSE 0)
                <= msgs + (IF fpc = "append" THEN 1 ELSE 0)
        /\ codec = "there"
        /\ opc \notin {"free", "destroy"}

History ==
    /\ "deadFrame" \in past => "inHandler" \in past
    /\ (\E f \in Frames : fate[f] = "lost") => "inHandler" \in past

(* Whatever was fed before flush() cleared the queue is out of it.           *)
AfterFlush ==
    /\ old <= fed
    /\ \A i \in Index : queue[i] > old
    /\ fpc # "idle" => fed > old

(* The free buffers the handler counted are there until it takes them, and   *)
(* each of its first so many writes has succeeded.                           *)
RoomKept ==
    /\ lpc \in {"gate", "codec", "get", "count"} => parts = 0
    /\ past \cap {"rejected", "config"} = {} =>
         /\ (lpc = "write" \/ (lpc = "get" /\ stream = "audio")) => room <= free + parts
         /\ (lpc = "write" /\ parts <= room) => put[cur] = parts

Inv == TypeOK /\ QueueOrdered /\ HandlerFirst /\ PutInOrder /\ PutBounded
       /\ FrontInHand /\ Counted /\ History /\ AfterFlush /\ RoomKept
-----------------------------------------------------------------------------
(* What the steps below use of a queue of frames: the types of its elements, *)
(* and what taking the front away leaves.                                    *)
LEMMA QueueFacts ==
    ASSUME TypeOK
    PROVE  /\ Len(queue) \in Nat /\ Frames \subseteq Nat
           /\ <<>> \in Seq(Frames) /\ Len(<<>>) = 0
           /\ \A i \in Index : queue[i] \in Frames /\ queue[i] \in Nat
           /\ queue # <<>> =>
                /\ Len(queue) > 0 /\ 1 \in Index /\ Head(queue) = queue[1]
                /\ Tail(queue) \in Seq(Frames) /\ Len(Tail(queue)) = Len(queue) - 1
                /\ \A i \in 1 .. Len(queue) - 1 : Tail(queue)[i] = queue[i + 1]
<1>1. queue \in Seq(Frames) /\ MaxFrames \in Nat
  BY FeedAssumption DEF TypeOK
<1>2. Len(queue) \in Nat /\ Frames \subseteq Nat
  BY <1>1 DEF Frames
<1>3. ASSUME NEW i \in Index PROVE queue[i] \in Frames /\ queue[i] \in Nat
  <2>1. queue[i] \in Frames
    BY <1>1 DEF Index
  <2>2. QED
    BY <1>2, <2>1
<1>4. <<>> \in Seq(Frames) /\ Len(<<>>) = 0
  BY EmptySeq
<1>5. ASSUME queue # <<>>
      PROVE  /\ Len(queue) > 0 /\ 1 \in Index /\ Head(queue) = queue[1]
             /\ Tail(queue) \in Seq(Frames) /\ Len(Tail(queue)) = Len(queue) - 1
             /\ \A i \in 1 .. Len(queue) - 1 : Tail(queue)[i] = queue[i + 1]
  <2>1. Len(queue) > 0 /\ 1 \in Index /\ Head(queue) = queue[1]
    BY <1>1, <1>5 DEF Index
  <2>2. Tail(queue) \in Seq(Frames) /\ Len(Tail(queue)) = Len(queue) - 1
    BY <1>1, <1>5
  <2>3. \A i \in 1 .. Len(queue) - 1 : Tail(queue)[i] = queue[i + 1]
    BY <1>1, <1>5
  <2>4. QED
    BY <2>1, <2>2, <2>3
<1>6. QED
  BY <1>2, <1>3, <1>4, <1>5

(* The variables keep their types. *)
LEMMA TypeStep == Inv /\ [Next]_vars => TypeOK'
<1> SUFFICES ASSUME Inv, [Next]_vars PROVE TypeOK'
  OBVIOUS
<1> USE FeedAssumption DEF Inv, Frames, None, playerVars, looperVars, history, LooperTo,
   TypeOK, PutBounded, HandlerFirst, ClearedNow, CaughtNow
<1>1. CASE FeedTest
  BY <1>1 DEF FeedTest
<1>2. CASE FeedGate
  BY <1>2 DEF FeedGate
<1>3. CASE PushBufQueue
  <2>1. fed \in Frames
    BY <1>3 DEF PushBufQueue, TypeOK, QueueOrdered
  <2>2. queue' \in Seq(Frames)
    BY <1>3, <2>1 DEF PushBufQueue, TypeOK
  <2>3. QED
    BY <1>3, <2>2 DEF PushBufQueue, TypeOK
<1>4. CASE AppendMessage
  BY <1>4 DEF AppendMessage
<1>5. CASE TakeMessage
  BY <1>5 DEF TakeMessage
<1>6. CASE HandlerGate
  BY <1>6 DEF HandlerGate
<1>7. CASE TestCodec
  <2>1. fate' \in [Frames -> {"fed", "done", "lost", "cleared"}]
    BY <1>7 DEF TestCodec, TypeOK, ClearedNow
  <2>2. queue' \in Seq(Frames)
    BY <1>7, QueueFacts DEF TestCodec
  <2>3. lpc' \in {"pop", "get", "count"}
    BY <1>7 DEF TestCodec
  <2>4. UNCHANGED <<playerVars, free, msgs, fpc, fed, cur, parts, room, result, opc, put, old, past>>
    BY <1>7 DEF TestCodec
  <2>5. QED
    BY <2>1, <2>2, <2>3, <2>4
<1>8. CASE GetBufQueue
  BY <1>8 DEF GetBufQueue
<1>9. CASE CountFree
  BY <1>9 DEF CountFree
<1>10. CASE WritePart
  <2>1. cur \in Frames
    BY <1>10 DEF WritePart, TypeOK, HandlerFirst
  <2>2. put[cur] + 1 \in 0 .. MaxParts /\ parts' \in 0 .. MaxParts
    <3>1. put[cur] <= parts /\ parts < Calls(cur) /\ parts' = parts + 1
      BY <1>10, <2>1 DEF WritePart, PutBounded
    <3>2. put[cur] \in Nat /\ parts \in Nat /\ size[cur] \in 1 .. MaxParts
      BY <2>1 DEF TypeOK, Sizes
    <3>3. Calls(cur) \in 1 .. MaxParts
      BY <3>2 DEF Calls
    <3>4. QED
      BY <3>1, <3>2, <3>3
  <2>3. put' \in [Frames -> 0 .. MaxParts]
    BY <1>10, <2>2 DEF WritePart, TypeOK
  <2>4. past' \subseteq {"rejected", "config", "unload", "inHandler", "deadFrame", "deadCodec"}
    BY <1>10 DEF WritePart, TypeOK
  <2>5. free' \in 0 .. N /\ result' \in {"zero", "some", "negative"}
    BY <1>10 DEF WritePart, TypeOK
  <2>6. UNCHANGED <<playerVars, queue, msgs, fpc, fed, lpc, cur, room, opc, fate, old>>
    BY <1>10 DEF WritePart
  <2>7. QED
    BY <2>2, <2>3, <2>4, <2>5, <2>6
<1>11. CASE UseGone
  <2>1. past' \subseteq {"rejected", "config", "unload", "inHandler", "deadFrame", "deadCodec"}
    BY <1>11 DEF UseGone, TypeOK
  <2>2. QED
    BY <1>11, <2>1 DEF UseGone, TypeOK
<1>12. CASE PopBufQueue
  <2>1. queue' \in Seq(Frames)
    <3>1. CASE queue = <<>>
      BY <1>12, <3>1 DEF PopBufQueue
    <3>2. CASE queue # <<>>
      BY <1>12, <3>2, QueueFacts DEF PopBufQueue
    <3>3. QED
      BY <3>1, <3>2
  <2>2. fate' \in [Frames -> {"fed", "done", "lost", "cleared"}]
    BY <1>12 DEF PopBufQueue
  <2>3. lpc' \in {"idle", "pop"}
    BY <1>12 DEF PopBufQueue
  <2>4. UNCHANGED <<playerVars, free, msgs, fpc, fed, cur, parts, room, result, opc, put, old, past>>
    BY <1>12 DEF PopBufQueue
  <2>5. QED
    BY <2>1, <2>2, <2>3, <2>4
<1>13. CASE PopMessage
  BY <1>13 DEF PopMessage
<1>14. CASE FlushBegin
  BY <1>14 DEF FlushBegin
<1>15. CASE FlushBreak
  BY <1>15 DEF FlushBreak
<1>16. CASE ClearMessages
  <2>1. past' \subseteq {"rejected", "config", "unload", "inHandler", "deadFrame", "deadCodec"}
    BY <1>16 DEF ClearMessages, TypeOK, CaughtNow
  <2>2. QED
    BY <1>16, <2>1 DEF ClearMessages, TypeOK
<1>17. CASE ClearBufQueue
  <2>1. past' \subseteq {"rejected", "config", "unload", "inHandler", "deadFrame", "deadCodec"}
    BY <1>17 DEF ClearBufQueue, TypeOK, CaughtNow
  <2>2. fate' \in [Frames -> {"fed", "done", "lost", "cleared"}]
    BY <1>17 DEF ClearBufQueue, TypeOK, ClearedNow
  <2>3. old' \in 0 .. MaxFrames
    BY <1>17 DEF ClearBufQueue, FedBefore, TypeOK, QueueOrdered
  <2>4. QED
    BY <1>17, <2>1, <2>2, <2>3 DEF ClearBufQueue, TypeOK
<1>18. CASE FlushReturn
  BY <1>18 DEF FlushReturn
<1>19. CASE FlushComponents
  BY <1>19 DEF FlushComponents
<1>20. CASE FlushEnd
  BY <1>20 DEF FlushEnd
<1>21. CASE UnloadBegin
  <2>1. past' \subseteq {"rejected", "config", "unload", "inHandler", "deadFrame", "deadCodec"}
    BY <1>21 DEF UnloadBegin, TypeOK
  <2>2. loaded' \in BOOLEAN /\ msgs' \in Nat /\ opc' = "free"
    BY <1>21 DEF UnloadBegin
  <2>3. UNCHANGED <<stream, size, status, codec, decodes, running, saved, flushes, free, queue, fpc, fed, looperVars, put, fate, old>>
    BY <1>21 DEF UnloadBegin
  <2>4. QED
    BY <2>1, <2>2, <2>3
<1>22. CASE UnloadCodec
  BY <1>22 DEF UnloadCodec
<1>23. CASE (\E on \in BOOLEAN : SetRunningState(on) \/ SetDecodes(on))
  <2>1. running' \in BOOLEAN /\ decodes' \in BOOLEAN
    BY <1>23 DEF SetRunningState, SetDecodes
  <2>2. UNCHANGED <<stream, size, status, loaded, codec, saved, flushes, free, queue, msgs, fpc, fed, looperVars, opc, history>>
    BY <1>23 DEF SetRunningState, SetDecodes
  <2>3. QED
    BY <2>1, <2>2
<1>24. CASE Decoded
  BY <1>24 DEF Decoded
<1>25. CASE SendConfig
  BY <1>25 DEF SendConfig
<1>26. CASE UNCHANGED vars
  BY <1>26 DEF vars
<1>27. QED
  BY <1>1, <1>2, <1>3, <1>4, <1>5, <1>6, <1>7, <1>8, <1>9, <1>10, <1>11, <1>12, <1>13,
     <1>14, <1>15, <1>16, <1>17, <1>18, <1>19, <1>20, <1>21, <1>22, <1>23, <1>24, <1>25,
     <1>26 DEF Next, Feeder, Looper, GoOn

(* The queue stays in order. *)
LEMMA OrderStep == Inv /\ [Next]_vars => QueueOrdered'
<1> SUFFICES ASSUME Inv, [Next]_vars PROVE QueueOrdered'
  OBVIOUS
<1>1. ASSUME UNCHANGED <<queue, fpc, fed>> PROVE QueueOrdered'
  BY <1>1 DEF Inv, QueueOrdered, Pushed, Index
<1>2. CASE TakeMessage \/ HandlerGate \/ GetBufQueue \/ CountFree \/ WritePart
          \/ UseGone \/ PopMessage \/ FlushBegin \/ FlushBreak \/ ClearMessages
          \/ FlushReturn \/ FlushComponents \/ FlushEnd \/ UnloadBegin
          \/ UnloadCodec \/ (\E on \in BOOLEAN : SetRunningState(on) \/ SetDecodes(on))
          \/ Decoded \/ SendConfig \/ UNCHANGED vars
  BY <1>1, <1>2 DEF TakeMessage, HandlerGate, GetBufQueue, CountFree, WritePart,
     UseGone, PopMessage, FlushBegin, FlushBreak, ClearMessages, FlushReturn,
     FlushComponents, FlushEnd, UnloadBegin, UnloadCodec, SetRunningState, SetDecodes, Decoded,
     SendConfig, vars, playerVars, looperVars, history, LooperTo
<1>3. CASE PushBufQueue
  <2>1. /\ fpc = "push" /\ queue \in Seq(Frames) /\ queue' = Append(queue, fed)
        /\ fed' = fed /\ fpc' = "append"
    BY <1>3 DEF PushBufQueue, Inv, TypeOK
  <2>2. fed \in Frames /\ fed \in Nat /\ Len(queue) \in Nat
    BY <2>1, FeedAssumption, QueueFacts DEF Inv, TypeOK, QueueOrdered, Frames
  <2>3. /\ Len(queue') = Len(queue) + 1
        /\ \A i \in 1 .. Len(queue) : queue'[i] = queue[i]
        /\ queue'[Len(queue) + 1] = fed
    BY <2>1, <2>2
  <2>4. \A i \in 1 .. Len(queue) : queue[i] < fed
    BY <2>1 DEF Inv, QueueOrdered, Index, Pushed
  <2>5. \A i \in 1 .. Len(queue) : queue[i] \in Nat
    BY QueueFacts DEF Inv, Index
  <2>6. ASSUME NEW i \in 1 .. Len(queue') PROVE queue'[i] <= fed
    <3>1. i \in 1 .. Len(queue) \/ i = Len(queue) + 1
      BY <2>2, <2>3
    <3>2. QED
      BY <2>2, <2>3, <2>4, <2>5, <3>1
  <2>7. ASSUME NEW i \in 1 .. Len(queue'), NEW j \in 1 .. Len(queue'), i < j
        PROVE  queue'[i] < queue'[j]
    <3>1. i \in 1 .. Len(queue) /\ (j \in 1 .. Len(queue) \/ j = Len(queue) + 1)
      BY <2>2, <2>3, <2>7
    <3>2. CASE j \in 1 .. Len(queue)
      BY <2>3, <2>7, <3>1, <3>2 DEF Inv, QueueOrdered, Index
    <3>3. CASE j = Len(queue) + 1
      BY <2>3, <2>4, <3>1, <3>3
    <3>4. QED
      BY <3>1, <3>2, <3>3
  <2>8. fed > 0
    BY <2>2, FeedAssumption DEF Frames
  <2>9. QED
    BY <2>1, <2>6, <2>7, <2>8 DEF QueueOrdered, Pushed, Index
<1>4. CASE PopBufQueue
  <2>1. UNCHANGED <<fpc, fed>> /\ queue' = IF queue = <<>> THEN queue ELSE Tail(queue)
    BY <1>4 DEF PopBufQueue
  <2>2. CASE queue = <<>>
    BY <1>1, <2>1, <2>2
  <2>3. CASE queue # <<>>
    <3>1. /\ Len(queue') = Len(queue) - 1 /\ Len(queue) \in Nat
          /\ \A i \in 1 .. Len(queue) - 1 : queue'[i] = queue[i + 1]
      BY <2>1, <2>3, QueueFacts DEF Inv
    <3>2. ASSUME NEW i \in 1 .. Len(queue')
          PROVE  i \in Nat /\ queue'[i] = queue[i + 1] /\ i + 1 \in 1 .. Len(queue)
      BY <3>1
    <3>3. ASSUME NEW i \in 1 .. Len(queue'), NEW j \in 1 .. Len(queue'), i < j
          PROVE  queue'[i] < queue'[j]
      <4>1. i + 1 < j + 1
        BY <3>2, <3>3
      <4>2. QED
        BY <3>2, <4>1 DEF Inv, QueueOrdered, Index
    <3>4. QED
      BY <2>1, <3>2, <3>3 DEF Inv, QueueOrdered, Pushed, Index
  <2>4. QED
    BY <2>2, <2>3
<1>5. CASE TestCodec
  <2>1. UNCHANGED <<fpc, fed>> /\ (queue' = <<>> \/ queue' = queue)
    BY <1>5 DEF TestCodec
  <2>2. CASE queue' = <<>>
    BY <2>1, <2>2, EmptySeq DEF Inv, QueueOrdered, Index
  <2>3. QED
    BY <1>1, <2>1, <2>2
<1>6. CASE ClearBufQueue
  <2>1. UNCHANGED <<fpc, fed>> /\ queue' = <<>>
    BY <1>6 DEF ClearBufQueue
  <2>2. QED
    BY <2>1, EmptySeq DEF Inv, QueueOrdered, Index
<1>7. CASE FeedTest
  <2>1. fpc = "idle" /\ fpc' = "gate" /\ fed' = fed + 1 /\ UNCHANGED queue
    BY <1>7 DEF FeedTest
  <2>2. fed \in Nat
    BY FeedAssumption DEF Inv, TypeOK
  <2>3. \A i \in Index : queue[i] \in Nat /\ queue[i] <= fed
    BY QueueFacts DEF Inv, QueueOrdered, Pushed
  <2>4. \A i \in Index : Pushed(queue[i])'
    BY <2>1, <2>2, <2>3 DEF Pushed
  <2>5. QED
    BY <2>1, <2>2, <2>4 DEF Inv, QueueOrdered, Index
<1> USE FeedAssumption DEF Inv, Frames, None, playerVars, looperVars, history, LooperTo,
   TypeOK, QueueOrdered, Index, Pushed
<1>8. CASE FeedGate
  BY <1>8 DEF FeedGate
<1>9. CASE AppendMessage
  BY <1>9 DEF AppendMessage
<1>10. QED
  BY <1>2, <1>3, <1>4, <1>5, <1>6, <1>7, <1>8, <1>9 DEF Next, Feeder, Looper, GoOn

(* The handler keeps to the front. *)
LEMMA FirstStep == Inv /\ [Next]_vars => HandlerFirst'
<1> SUFFICES ASSUME Inv, [Next]_vars PROVE HandlerFirst'
  OBVIOUS
<1>1. ASSUME UNCHANGED <<stream, queue, fpc, fed, lpc, cur>> PROVE HandlerFirst'
  BY <1>1 DEF Inv, HandlerFirst, Pushed, Index, None
<1>2. CASE WritePart \/ UseGone \/ FlushBegin \/ FlushBreak \/ ClearMessages
          \/ FlushReturn \/ FlushComponents \/ FlushEnd \/ UnloadBegin
          \/ UnloadCodec \/ (\E on \in BOOLEAN : SetRunningState(on) \/ SetDecodes(on))
          \/ Decoded \/ SendConfig \/ UNCHANGED vars
  BY <1>1, <1>2 DEF WritePart, UseGone, FlushBegin, FlushBreak, ClearMessages,
     FlushReturn, FlushComponents, FlushEnd, UnloadBegin, UnloadCodec, SetRunningState, SetDecodes,
     Decoded, SendConfig, vars, playerVars, looperVars, history, LooperTo
<1> USE FeedAssumption DEF Inv, Frames, None, playerVars, looperVars, history, LooperTo,
   TypeOK, QueueOrdered, HandlerFirst, Index, Pushed
<1>3. CASE FeedTest
  BY <1>3 DEF FeedTest
<1>4. CASE FeedGate
  BY <1>4 DEF FeedGate
<1>5. CASE PushBufQueue
  BY <1>5 DEF PushBufQueue
<1>6. CASE AppendMessage
  BY <1>6 DEF AppendMessage
<1>7. CASE TakeMessage
  BY <1>7 DEF TakeMessage
<1>8. CASE HandlerGate
  BY <1>8 DEF HandlerGate
<1>9. CASE TestCodec
  BY <1>9 DEF TestCodec
<1>10. CASE GetBufQueue
  <2>1. CASE queue = <<>>
    BY <1>10, <2>1 DEF GetBufQueue
  <2>2. CASE queue # <<>>
    <3>1. /\ queue \in Seq(Frames) /\ Len(queue) > 0
          /\ cur' = queue[1] /\ queue' = queue /\ lpc' \in {"count", "write"}
      BY <1>10, <2>2 DEF GetBufQueue, TypeOK
    <3>2. queue[1] \in Frames /\ Pushed(queue[1])
      BY <2>2, QueueFacts DEF QueueOrdered
    <3>3. ASSUME NEW i \in Index PROVE queue[1] <= queue[i]
      <4>1. i = 1 \/ 1 < i
        BY DEF Index
      <4>2. 1 \in Index /\ queue[1] \in Nat /\ queue[i] \in Nat
        BY <2>2, QueueFacts
      <4>3. 1 < i => queue[1] < queue[i]
        BY <4>2 DEF QueueOrdered
      <4>4. QED
        BY <4>1, <4>2, <4>3
    <3>4. QED
      BY <1>10, <3>1, <3>2, <3>3 DEF GetBufQueue, HandlerFirst, Index, Pushed
  <2>3. QED
    BY <2>1, <2>2
<1>11. CASE CountFree
  BY <1>11 DEF CountFree
<1>12. CASE PopBufQueue
  BY <1>12 DEF PopBufQueue
<1>13. CASE PopMessage
  BY <1>13 DEF PopMessage
<1>14. CASE ClearBufQueue
  BY <1>14 DEF ClearBufQueue
<1>15. QED
  BY <1>2, <1>3, <1>4, <1>5, <1>6, <1>7, <1>8, <1>9, <1>10, <1>11, <1>12, <1>13, <1>14
     DEF Next, Feeder, Looper, GoOn

(* Parts arrive in order. *)
LEMMA PutStep == Inv /\ [Next]_vars => PutInOrder'
<1> SUFFICES ASSUME Inv, [Next]_vars PROVE PutInOrder'
  OBVIOUS
<1>1. ASSUME UNCHANGED <<queue, fpc, fed, lpc, cur, put>> PROVE PutInOrder'
  BY <1>1 DEF Inv, PutInOrder, Pushed, Index
<1>2. CASE UseGone \/ FlushBegin \/ FlushBreak \/ ClearMessages \/ FlushReturn
          \/ FlushComponents \/ FlushEnd \/ UnloadBegin \/ UnloadCodec
          \/ (\E on \in BOOLEAN : SetRunningState(on) \/ SetDecodes(on)) \/ Decoded
          \/ SendConfig \/ UNCHANGED vars
  BY <1>1, <1>2 DEF UseGone, FlushBegin, FlushBreak, ClearMessages, FlushReturn,
     FlushComponents, FlushEnd, UnloadBegin, UnloadCodec, SetRunningState, SetDecodes, Decoded,
     SendConfig, vars, playerVars, looperVars, history, LooperTo
<1> USE FeedAssumption DEF Inv, Frames, None, playerVars, looperVars, history, LooperTo,
   TypeOK, QueueOrdered, HandlerFirst, PutInOrder, Index, Pushed
<1>3. CASE FeedTest
  BY <1>3 DEF FeedTest
<1>4. CASE FeedGate
  BY <1>4 DEF FeedGate
<1>5. CASE PushBufQueue
  BY <1>5 DEF PushBufQueue
<1>6. CASE AppendMessage
  BY <1>6 DEF AppendMessage
<1>7. CASE TakeMessage
  BY <1>7 DEF TakeMessage
<1>8. CASE HandlerGate
  BY <1>8 DEF HandlerGate
<1>9. CASE TestCodec
  BY <1>9 DEF TestCodec
<1>10. CASE GetBufQueue
  BY <1>10 DEF GetBufQueue
<1>11. CASE CountFree
  BY <1>11 DEF CountFree
<1>12. CASE WritePart
  <2>1. /\ cur \in Frames /\ Pushed(cur) /\ lpc = "write" /\ lpc' = "write"
        /\ \A i \in Index : cur <= queue[i]
        /\ \A g \in Frames : g # cur => put'[g] = put[g]
        /\ UNCHANGED <<queue, fpc, fed, cur>>
    BY <1>12 DEF WritePart, TypeOK, HandlerFirst
  <2>2. ASSUME NEW g \in Frames, put'[g] > 0
        PROVE  Pushed(g)' /\ \A i \in Index' : g <= queue'[i] /\ (g = queue'[i] => lpc' = "write" /\ g = cur')
    <3>1. CASE g = cur
      BY <2>1, <3>1 DEF Pushed, Index
    <3>2. CASE g # cur
      BY <2>1, <2>2, <3>2 DEF PutInOrder, Pushed, Index
    <3>3. QED
      BY <3>1, <3>2
  <2>3. QED
    BY <2>2 DEF PutInOrder
<1>13. CASE PopBufQueue
  <2>1. CASE queue = <<>>
    BY <1>13, <2>1 DEF PopBufQueue, PutInOrder, Index, Pushed
  <2>2. CASE queue # <<>>
    <3>1. /\ queue \in Seq(Frames) /\ Len(queue) > 0 /\ queue' = Tail(queue)
          /\ UNCHANGED <<put, fpc, fed, cur>>
      BY <1>13, <2>2 DEF PopBufQueue, TypeOK
    <3>2. Len(queue') = Len(queue) - 1 /\ \A i \in 1 .. Len(queue') : queue'[i] = queue[i + 1]
      BY <3>1
    <3>3. ASSUME NEW i \in Index'
          PROVE  i + 1 \in Index /\ cur < queue[i + 1]
      <4>1. i \in Nat \ {0} /\ i + 1 \in Index /\ 1 \in Index /\ 1 < i + 1
        BY <3>1, <3>2 DEF Index
      <4>2. queue[1] < queue[i + 1]
        BY <4>1 DEF QueueOrdered
      <4>3. queue[1] \in Nat /\ queue[i + 1] \in Nat
        BY <4>1, QueueFacts
      <4>4. cur \in Nat
        BY QueueFacts DEF TypeOK
      <4>5. cur <= queue[1]
        BY <1>13, <4>1 DEF PopBufQueue, HandlerFirst
      <4>6. cur < queue[i + 1]
        BY <4>2, <4>3, <4>4, <4>5
      <4>7. QED
        BY <4>1, <4>6
    <3>4. ASSUME NEW g \in Frames, put[g] > 0, NEW i \in Index'
          PROVE  g <= queue'[i] /\ g # queue'[i]
      <4>1. queue'[i] = queue[i + 1] /\ i + 1 \in Index /\ cur < queue[i + 1]
        BY <3>2, <3>3 DEF Index
      <4>2. g <= queue[i + 1] /\ (g = queue[i + 1] => g = cur)
        BY <3>4, <4>1 DEF PutInOrder
      <4>3. queue[i + 1] \in Nat
        BY <4>1, QueueFacts
      <4>4. cur \in Nat
        BY QueueFacts DEF TypeOK
      <4>5. QED
        BY <4>1, <4>2, <4>3, <4>4
    <3>5. QED
      BY <3>1, <3>4 DEF PutInOrder, Pushed
  <2>3. QED
    BY <2>1, <2>2
<1>14. CASE PopMessage
  BY <1>14 DEF PopMessage
<1>15. CASE ClearBufQueue
  BY <1>15 DEF ClearBufQueue
<1>16. QED
  BY <1>2, <1>3, <1>4, <1>5, <1>6, <1>7, <1>8, <1>9, <1>10, <1>11, <1>12, <1>13, <1>14,
     <1>15 DEF Next, Feeder, Looper, GoOn

(* No part twice. *)
LEMMA BoundStep == Inv /\ [Next]_vars => PutBounded'
<1> SUFFICES ASSUME Inv, [Next]_vars PROVE PutBounded'
  OBVIOUS
<1>1. ASSUME UNCHANGED <<stream, lpc, cur, put, parts>> PROVE PutBounded'
  BY <1>1 DEF Inv, PutBounded, None
<1>2. CASE FeedTest \/ FeedGate \/ PushBufQueue \/ AppendMessage \/ UseGone
          \/ FlushBegin \/ FlushBreak \/ ClearMessages \/ ClearBufQueue
          \/ FlushReturn \/ FlushComponents \/ FlushEnd \/ UnloadBegin
          \/ UnloadCodec \/ (\E on \in BOOLEAN : SetRunningState(on) \/ SetDecodes(on))
          \/ Decoded \/ SendConfig \/ UNCHANGED vars
  BY <1>1, <1>2 DEF FeedTest, FeedGate, PushBufQueue, AppendMessage, UseGone,
     FlushBegin, FlushBreak, ClearMessages, ClearBufQueue, FlushReturn, FlushComponents,
     FlushEnd, UnloadBegin, UnloadCodec, SetRunningState, SetDecodes, Decoded, SendConfig, vars,
     playerVars, looperVars, history, LooperTo
<1> USE FeedAssumption DEF Inv, Frames, None, playerVars, looperVars, history, LooperTo,
   TypeOK, QueueOrdered, HandlerFirst, PutInOrder, PutBounded, Index
<1>3. CASE TakeMessage
  BY <1>3 DEF TakeMessage
<1>4. CASE HandlerGate
  BY <1>4 DEF HandlerGate
<1>5. CASE TestCodec
  BY <1>5 DEF TestCodec
<1>6. CASE GetBufQueue
  <2>1. CASE queue = <<>>
    BY <1>6, <2>1 DEF GetBufQueue
  <2>2. CASE queue # <<>>
    <3>1. /\ queue \in Seq(Frames) /\ Len(queue) > 0
          /\ cur' = queue[1] /\ queue[1] \in Frames /\ lpc = "get"
      BY <1>6, <2>2 DEF GetBufQueue, TypeOK
    <3>2. put[queue[1]] = 0
      <4>1. 1 \in Index /\ put[queue[1]] \in Nat
        BY <2>2, <3>1, QueueFacts DEF TypeOK
      <4>2. ~(put[queue[1]] > 0)
        BY <3>1, <4>1 DEF PutInOrder
      <4>3. QED
        BY <4>1, <4>2
    <3>3. QED
      BY <1>6, <3>1, <3>2 DEF GetBufQueue, PutBounded, TypeOK
  <2>3. QED
    BY <2>1, <2>2
<1>7. CASE CountFree
  BY <1>7 DEF CountFree
<1>8. CASE WritePart
  BY <1>8 DEF WritePart
<1>9. CASE PopBufQueue
  BY <1>9 DEF PopBufQueue
<1>10. CASE PopMessage
  BY <1>10 DEF PopMessage
<1>11. QED
  BY <1>2, <1>3, <1>4, <1>5, <1>6, <1>7, <1>8, <1>9, <1>10 DEF Next, Feeder, Looper, GoOn

(* Nobody but a flush() takes the handler's frame. *)
LEMMA FrontStep == Inv /\ [Next]_vars => FrontInHand'
<1> SUFFICES ASSUME Inv, [Next]_vars PROVE FrontInHand'
  OBVIOUS
<1>1. ASSUME UNCHANGED <<queue, lpc, cur, past>> PROVE FrontInHand'
  BY <1>1 DEF Inv, FrontInHand, None
<1>2. CASE FeedTest \/ FeedGate \/ AppendMessage \/ FlushBegin \/ FlushBreak
          \/ FlushReturn \/ FlushComponents \/ FlushEnd \/ UnloadCodec
          \/ (\E on \in BOOLEAN : SetRunningState(on) \/ SetDecodes(on)) \/ Decoded
          \/ UNCHANGED vars
  BY <1>1, <1>2 DEF FeedTest, FeedGate, AppendMessage, FlushBegin, FlushBreak,
     FlushReturn, FlushComponents, FlushEnd, UnloadCodec, SetRunningState, SetDecodes, Decoded,
     vars, playerVars, looperVars, history, LooperTo
<1>3. CASE PushBufQueue
  <2>1. queue' = Append(queue, fed) /\ UNCHANGED <<lpc, cur, past>>
    BY <1>3 DEF PushBufQueue, looperVars, history
  <2>2. queue \in Seq(Frames)
    BY DEF Inv, TypeOK
  <2>3. queue # <<>> => queue' # <<>> /\ Head(queue') = Head(queue)
    BY <2>1, <2>2
  <2>4. QED
    BY <2>1, <2>3 DEF Inv, FrontInHand
<1> USE FeedAssumption DEF Inv, Frames, None, playerVars, looperVars, history, LooperTo,
   TypeOK, HandlerFirst, FrontInHand, CaughtNow
<1>4. CASE TakeMessage
  BY <1>4 DEF TakeMessage
<1>5. CASE HandlerGate
  BY <1>5 DEF HandlerGate
<1>6. CASE TestCodec
  BY <1>6 DEF TestCodec
<1>7. CASE GetBufQueue
  BY <1>7 DEF GetBufQueue
<1>8. CASE CountFree
  BY <1>8 DEF CountFree
<1>9. CASE WritePart
  BY <1>9 DEF WritePart
<1>10. CASE UseGone
  BY <1>10 DEF UseGone
<1>11. CASE PopBufQueue
  BY <1>11 DEF PopBufQueue
<1>12. CASE PopMessage
  BY <1>12 DEF PopMessage
<1>13. CASE ClearMessages
  BY <1>13 DEF ClearMessages
<1>14. CASE ClearBufQueue
  BY <1>14 DEF ClearBufQueue
<1>15. CASE UnloadBegin
  BY <1>15 DEF UnloadBegin
<1>16. CASE SendConfig
  BY <1>16 DEF SendConfig
<1>17. QED
  BY <1>2, <1>3, <1>4, <1>5, <1>6, <1>7, <1>8, <1>9, <1>10, <1>11, <1>12, <1>13, <1>14,
     <1>15, <1>16 DEF Next, Feeder, Looper, GoOn

(* No step leaves a frame without a message. *)
LEMMA CountStep == Inv /\ [Next]_vars => Counted'
<1> SUFFICES ASSUME Inv, [Next]_vars PROVE Counted'
  OBVIOUS
<1>1. ASSUME UNCHANGED <<queue, msgs, codec, fpc, lpc, opc, past>> PROVE Counted'
  BY <1>1 DEF Inv, Counted
<1>2. CASE (\E on \in BOOLEAN : SetRunningState(on) \/ SetDecodes(on)) \/ Decoded
          \/ UNCHANGED vars
  BY <1>1, <1>2 DEF SetRunningState, SetDecodes, Decoded, vars, playerVars, looperVars, history,
     LooperTo
<1>3. CASE PopMessage
  <2>1. /\ lpc = "pop" /\ lpc' = "idle" /\ msgs' = IF msgs = 0 THEN 0 ELSE msgs - 1
        /\ UNCHANGED <<queue, codec, fpc, opc, past>>
    BY <1>3 DEF PopMessage, LooperTo, playerVars, history
  <2>2. msgs \in Nat /\ Len(queue) \in Nat
    BY QueueFacts DEF Inv, TypeOK
  <2>3. CASE past \cap {"inHandler", "unload"} = {}
    <3>1. msgs > 0 /\ msgs' = msgs - 1
      BY <2>1, <2>2, <2>3 DEF Inv, Counted
    <3>2. opc # "clearBufs" => Len(queue) <= msgs' + (IF fpc = "append" THEN 1 ELSE 0)
      BY <2>1, <2>2, <2>3, <3>1 DEF Inv, Counted
    <3>3. QED
      BY <2>1, <2>2, <2>3, <3>1, <3>2 DEF Inv, Counted
  <2>4. QED
    BY <2>1, <2>3 DEF Counted
<1>4. CASE FlushBegin
  <2>1. /\ opc = "none" /\ opc' = "clearMsgs"
        /\ UNCHANGED <<queue, msgs, codec, fpc, lpc, past>>
    BY <1>4 DEF FlushBegin, MutexFree, looperVars, history
  <2>2. QED
    BY <2>1 DEF Inv, Counted
<1> USE FeedAssumption DEF Inv, Frames, None, playerVars, looperVars, history, LooperTo,
   TypeOK, HandlerFirst, FrontInHand, Counted, CaughtNow
<1>5. CASE FeedTest
  BY <1>5 DEF FeedTest
<1>6. CASE FeedGate
  BY <1>6 DEF FeedGate
<1>7. CASE PushBufQueue
  BY <1>7 DEF PushBufQueue
<1>8. CASE AppendMessage
  BY <1>8 DEF AppendMessage
<1>9. CASE TakeMessage
  BY <1>9 DEF TakeMessage
<1>10. CASE HandlerGate
  BY <1>10 DEF HandlerGate
<1>11. CASE TestCodec
  BY <1>11 DEF TestCodec
<1>12. CASE GetBufQueue
  BY <1>12 DEF GetBufQueue
<1>13. CASE CountFree
  BY <1>13 DEF CountFree
<1>14. CASE WritePart
  BY <1>14 DEF WritePart
<1>15. CASE UseGone
  BY <1>15 DEF UseGone
<1>16. CASE PopBufQueue
  <2>1. SUFFICES ASSUME past \cap {"inHandler", "unload"} = {}
        PROVE  Counted'
    BY <1>16 DEF PopBufQueue, Counted
  <2>2. queue \in Seq(Frames) /\ queue # <<>>
    BY <1>16, <2>1 DEF PopBufQueue, TypeOK, HandlerFirst, FrontInHand
  <2>3. queue' = Tail(queue) /\ Len(queue') = Len(queue) - 1 /\ Len(queue) \in Nat
    BY <1>16, <2>2 DEF PopBufQueue
  <2>4. lpc = "write" /\ lpc' \in {"idle", "pop"}
    BY <1>16 DEF PopBufQueue
  <2>5. UNCHANGED <<msgs, fpc, opc, codec, past>>
    BY <1>16 DEF PopBufQueue
  <2>6. opc # "clearBufs" => Len(queue) <= msgs + (IF fpc = "append" THEN 1 ELSE 0)
    BY <2>1, <2>4 DEF Counted
  <2>7. msgs \in Nat /\ msgs > 0 /\ codec = "there" /\ opc \notin {"free", "destroy"}
    BY <2>1, <2>4 DEF Counted, TypeOK
  <2>8. ASSUME opc # "clearBufs"
        PROVE  Len(queue') + (IF lpc' = "pop" THEN 1 ELSE 0) <= msgs + (IF fpc = "append" THEN 1 ELSE 0)
    <3>1. CASE lpc' = "pop"
      BY <2>3, <2>6, <2>7, <2>8, <3>1
    <3>2. CASE lpc' = "idle"
      BY <2>3, <2>6, <2>7, <2>8, <3>2
    <3>3. QED
      BY <2>4, <3>1, <3>2
  <2>9. QED
    BY <2>5, <2>7, <2>8 DEF Counted
<1>17. CASE FlushBreak
  BY <1>17 DEF FlushBreak
<1>18. CASE ClearMessages
  BY <1>18 DEF ClearMessages
<1>19. CASE ClearBufQueue
  BY <1>19 DEF ClearBufQueue
<1>20. CASE FlushReturn
  BY <1>20 DEF FlushReturn
<1>21. CASE FlushComponents
  BY <1>21 DEF FlushComponents
<1>22. CASE FlushEnd
  BY <1>22 DEF FlushEnd
<1>23. CASE UnloadBegin
  BY <1>23 DEF UnloadBegin
<1>24. CASE UnloadCodec
  BY <1>24 DEF UnloadCodec
<1>25. CASE SendConfig
  BY <1>25 DEF SendConfig
<1>26. QED
  BY <1>2, <1>3, <1>4, <1>5, <1>6, <1>7, <1>8, <1>9, <1>10, <1>11, <1>12, <1>13, <1>14,
     <1>15, <1>16, <1>17, <1>18, <1>19, <1>20, <1>21, <1>22, <1>23, <1>24, <1>25 DEF
     Next, Feeder, Looper, GoOn

(* What is lost or dead has its reason. *)
LEMMA HistoryStep == Inv /\ [Next]_vars => History'
<1> SUFFICES ASSUME Inv, [Next]_vars PROVE History'
  OBVIOUS
<1>1. ASSUME UNCHANGED <<fate, past>> PROVE History'
  BY <1>1 DEF Inv, History
<1>2. CASE FeedTest \/ FeedGate \/ PushBufQueue \/ AppendMessage \/ TakeMessage
          \/ HandlerGate \/ GetBufQueue \/ CountFree \/ PopMessage \/ FlushBegin
          \/ FlushBreak \/ FlushReturn \/ FlushComponents \/ FlushEnd
          \/ UnloadCodec \/ (\E on \in BOOLEAN : SetRunningState(on) \/ SetDecodes(on))
          \/ Decoded \/ UNCHANGED vars
  BY <1>1, <1>2 DEF FeedTest, FeedGate, PushBufQueue, AppendMessage, TakeMessage,
     HandlerGate, GetBufQueue, CountFree, PopMessage, FlushBegin, FlushBreak,
     FlushReturn, FlushComponents, FlushEnd, UnloadCodec, SetRunningState, SetDecodes, Decoded,
     vars, playerVars, looperVars, history, LooperTo
<1> USE FeedAssumption DEF Inv, Frames, None, playerVars, looperVars, history, LooperTo,
   TypeOK, HandlerFirst, FrontInHand, History, CaughtNow, Alive, ClearedNow
<1>3. CASE TestCodec
  BY <1>3 DEF TestCodec
<1>4. CASE WritePart
  BY <1>4 DEF WritePart
<1>5. CASE UseGone
  BY <1>5 DEF UseGone
<1>6. CASE PopBufQueue
  BY <1>6 DEF PopBufQueue
<1>7. CASE ClearMessages
  BY <1>7 DEF ClearMessages
<1>8. CASE ClearBufQueue
  BY <1>8 DEF ClearBufQueue
<1>9. CASE UnloadBegin
  BY <1>9 DEF UnloadBegin
<1>10. CASE SendConfig
  BY <1>10 DEF SendConfig
<1>11. QED
  BY <1>2, <1>3, <1>4, <1>5, <1>6, <1>7, <1>8, <1>9, <1>10 DEF Next, Feeder, Looper, GoOn

(* No step brings back what a flush() cleared. *)
LEMMA FlushStep == Inv /\ [Next]_vars => AfterFlush'
<1> SUFFICES ASSUME Inv, [Next]_vars PROVE AfterFlush'
  OBVIOUS
<1>1. ASSUME UNCHANGED <<queue, fpc, fed, old>> PROVE AfterFlush'
  BY <1>1 DEF Inv, AfterFlush, Index
<1>2. CASE TakeMessage \/ HandlerGate \/ GetBufQueue \/ CountFree \/ PopMessage
          \/ FlushBegin \/ FlushBreak \/ FlushReturn \/ FlushComponents
          \/ FlushEnd \/ UnloadCodec
          \/ (\E on \in BOOLEAN : SetRunningState(on) \/ SetDecodes(on)) \/ Decoded
          \/ UNCHANGED vars
  BY <1>1, <1>2 DEF TakeMessage, HandlerGate, GetBufQueue, CountFree, PopMessage,
     FlushBegin, FlushBreak, FlushReturn, FlushComponents, FlushEnd, UnloadCodec,
     SetRunningState, SetDecodes, Decoded, vars, playerVars, looperVars, history, LooperTo
<1>5. CASE PushBufQueue
  <2>1. /\ fpc = "push" /\ queue \in Seq(Frames) /\ queue' = Append(queue, fed)
        /\ UNCHANGED <<fed, old>>
    BY <1>5 DEF PushBufQueue, Inv, TypeOK, history
  <2>2. fed \in Frames /\ Len(queue) \in Nat
    BY <2>1, FeedAssumption, QueueFacts DEF Inv, TypeOK, QueueOrdered, Frames
  <2>3. ASSUME NEW i \in 1 .. Len(queue')
        PROVE  (i \in 1 .. Len(queue) /\ queue'[i] = queue[i]) \/ queue'[i] = fed
    BY <2>1, <2>2
  <2>4. QED
    BY <2>1, <2>3 DEF Inv, AfterFlush, Index
<1> USE FeedAssumption DEF Inv, Frames, None, playerVars, looperVars, history, LooperTo,
   TypeOK, QueueOrdered, AfterFlush, CaughtNow, Index
<1>3. CASE FeedTest
  BY <1>3 DEF FeedTest
<1>4. CASE FeedGate
  BY <1>4 DEF FeedGate
<1>6. CASE AppendMessage
  BY <1>6 DEF AppendMessage
<1>7. CASE TestCodec
  BY <1>7 DEF TestCodec
<1>8. CASE WritePart
  BY <1>8 DEF WritePart
<1>9. CASE UseGone
  BY <1>9 DEF UseGone
<1>10. CASE PopBufQueue
  BY <1>10 DEF PopBufQueue
<1>11. CASE ClearMessages
  BY <1>11 DEF ClearMessages
<1>12. CASE ClearBufQueue
  BY <1>12 DEF ClearBufQueue, FedBefore
<1>13. CASE UnloadBegin
  BY <1>13 DEF UnloadBegin
<1>14. CASE SendConfig
  BY <1>14 DEF SendConfig
<1>15. QED
  BY <1>2, <1>3, <1>4, <1>5, <1>6, <1>7, <1>8, <1>9, <1>10, <1>11, <1>12, <1>13, <1>14
     DEF Next, Feeder, Looper, GoOn

(* No step takes the room the handler counted. *)
LEMMA RoomStep == Inv /\ [Next]_vars => RoomKept'
<1> SUFFICES ASSUME Inv, [Next]_vars PROVE RoomKept'
  OBVIOUS
<1>1. ASSUME UNCHANGED <<stream, free, lpc, cur, parts, room, put, past>> PROVE RoomKept'
  BY <1>1 DEF Inv, RoomKept
<1>2. CASE FeedTest \/ FeedGate \/ PushBufQueue \/ AppendMessage \/ FlushBegin
          \/ FlushBreak \/ FlushReturn \/ FlushEnd \/ UnloadCodec
          \/ (\E on \in BOOLEAN : SetRunningState(on) \/ SetDecodes(on)) \/ UNCHANGED vars
  BY <1>1, <1>2 DEF FeedTest, FeedGate, PushBufQueue, AppendMessage, FlushBegin,
     FlushBreak, FlushReturn, FlushEnd, UnloadCodec, SetRunningState, SetDecodes, vars, playerVars,
     looperVars, history, LooperTo
<1>3. CASE CountFree
  <2>1. /\ lpc = "count" /\ room' = free /\ parts' = parts
        /\ lpc' = (IF free = 0 THEN "idle" ELSE IF stream = "video" THEN "write" ELSE "get")
        /\ UNCHANGED <<stream, free, cur, put, past>>
    BY <1>3 DEF CountFree, LooperTo, playerVars, looperVars, history
  <2>2. parts = 0
    BY <2>1 DEF Inv, RoomKept
  <2>3. stream = "video" => cur \in Frames /\ put[cur] \in Nat /\ put[cur] <= 0
    BY <2>1, <2>2, FeedAssumption DEF Inv, HandlerFirst, PutBounded, TypeOK, None
  <2>4. lpc' = "write" => put'[cur'] = 0
    BY <2>1, <2>3 DEF Inv, TypeOK
  <2>5. room' <= free' + parts'
    BY <2>1, <2>2, FeedAssumption DEF Inv, TypeOK
  <2>6. QED
    BY <2>1, <2>2, <2>4, <2>5 DEF RoomKept
<1>4. CASE GetBufQueue
  <2>1. lpc = "get" /\ UNCHANGED <<stream, free, parts, room, put, past>>
    BY <1>4 DEF GetBufQueue, playerVars, history
  <2>2. CASE queue = <<>>
    BY <1>4, <2>1, <2>2 DEF GetBufQueue, LooperTo, Inv, RoomKept
  <2>3. CASE queue # <<>>
    <3>1. cur' = queue[1] /\ lpc' = IF stream = "video" THEN "count" ELSE "write"
      BY <1>4, <2>3, QueueFacts DEF GetBufQueue, LooperTo, Inv
    <3>2. 1 \in Index /\ queue[1] \in Frames /\ parts = 0
      BY <2>1, <2>3, QueueFacts DEF Inv, RoomKept
    <3>3. put[queue[1]] = 0
      <4>1. put[queue[1]] \in Nat
        BY <3>2, FeedAssumption DEF Inv, TypeOK
      <4>2. ~(put[queue[1]] > 0)
        BY <2>1, <3>2 DEF Inv, PutInOrder
      <4>3. QED
        BY <4>1, <4>2
    <3>4. (lpc' = "write" /\ past \cap {"rejected", "config"} = {}) => room <= free + parts
      BY <2>1, <3>1 DEF Inv, TypeOK, RoomKept
    <3>5. QED
      BY <2>1, <3>1, <3>2, <3>3, <3>4 DEF RoomKept
  <2>4. QED
    BY <2>2, <2>3
<1>5. CASE WritePart
  <2>1. /\ lpc = "write" /\ parts' = parts + 1
        /\ UNCHANGED <<stream, lpc, cur, room>>
    BY <1>5 DEF WritePart, playerVars
  <2>2. cur \in Frames /\ put[cur] \in Nat /\ parts \in Nat /\ free \in Nat /\ room \in Nat
    BY <2>1, FeedAssumption DEF Inv, TypeOK, HandlerFirst, None
  <2>3. CASE free > 0 /\ free' = free - 1 /\ put' = [put EXCEPT ![cur] = @ + 1] /\ past' = past
    <3>1. put'[cur'] = put[cur] + 1 /\ free' + parts' = free + parts
      BY <2>1, <2>2, <2>3 DEF Inv, TypeOK
    <3>2. QED
      BY <2>1, <2>2, <2>3, <3>1 DEF Inv, RoomKept
  <2>4. CASE past' = past \cup {"rejected"}
    BY <2>1, <2>4 DEF RoomKept
  <2>5. CASE free = 0 /\ UNCHANGED <<free, put, past>>
    BY <2>1, <2>2, <2>5 DEF Inv, RoomKept
  <2>6. QED
    BY <1>5, <2>3, <2>4, <2>5 DEF WritePart
<1> USE FeedAssumption DEF Inv, Frames, None, playerVars, looperVars, history, LooperTo,
   TypeOK, HandlerFirst, PutInOrder, PutBounded, RoomKept, Index
<1>6. CASE TakeMessage
  BY <1>6 DEF TakeMessage
<1>7. CASE HandlerGate
  BY <1>7 DEF HandlerGate
<1>8. CASE TestCodec
  BY <1>8 DEF TestCodec
<1>9. CASE UseGone
  BY <1>9 DEF UseGone
<1>10. CASE PopBufQueue
  BY <1>10 DEF PopBufQueue
<1>11. CASE PopMessage
  BY <1>11 DEF PopMessage
<1>12. CASE ClearMessages
  BY <1>12 DEF ClearMessages
<1>13. CASE ClearBufQueue
  BY <1>13 DEF ClearBufQueue
<1>14. CASE FlushComponents
  BY <1>14 DEF FlushComponents
<1>15. CASE UnloadBegin
  BY <1>15 DEF UnloadBegin
<1>16. CASE Decoded
  BY <1>16 DEF Decoded
<1>17. CASE SendConfig
  BY <1>17 DEF SendConfig
<1>18. QED
  BY <1>2, <1>3, <1>4, <1>5, <1>6, <1>7, <1>8, <1>9, <1>10, <1>11, <1>12, <1>13, <1>14,
     <1>15, <1>16, <1>17 DEF Next, Feeder, Looper, GoOn
-----------------------------------------------------------------------------
(* A fresh player satisfies the invariant, and so does every state after it. *)
LEMMA InitInv == Init => Inv
<1> SUFFICES ASSUME Init PROVE Inv
  OBVIOUS
<1>1. queue = <<>> /\ Len(queue) = 0 /\ queue \in Seq(Frames)
  BY EmptySeq DEF Init
<1>2. \A f \in Frames : put[f] = 0 /\ fate[f] = "fed"
  BY DEF Init
<1>3. TypeOK
  BY <1>1, FeedAssumption DEF Init, TypeOK, None
<1>4. QueueOrdered /\ HandlerFirst /\ AfterFlush
  BY <1>1 DEF Init, QueueOrdered, HandlerFirst, AfterFlush, Index, None
<1>5. PutInOrder
  BY <1>2 DEF PutInOrder
<1>6. PutBounded /\ FrontInHand /\ RoomKept
  BY FeedAssumption DEF Init, PutBounded, FrontInHand, RoomKept
<1>7. Counted
  BY <1>1 DEF Init, Counted
<1>8. History
  BY <1>2 DEF Init, History
<1>9. QED
  BY <1>3, <1>4, <1>5, <1>6, <1>7, <1>8 DEF Inv

(* The invariant holds of every reachable state. *)
LEMMA Invariance == Spec => []Inv
<1>1. Inv /\ [Next]_vars => Inv'
  BY TypeStep, OrderStep, FirstStep, PutStep, BoundStep, FrontStep, CountStep,
     HistoryStep,
     FlushStep, RoomStep DEF Inv
<1>2. QED
  BY InitInv, <1>1, PTL DEF Spec

(* Only popBufQueue() is done with a frame. *)
LEMMA DoneOnlyByPop ==
    ASSUME [Next]_vars, Inv, NEW f \in Frames, fate'[f] = "done", fate[f] # "done"
    PROVE  PopBufQueue
<1>1. CASE TestCodec
  BY <1>1 DEF TestCodec, ClearedNow
<1>2. CASE ClearBufQueue
  BY <1>2 DEF ClearBufQueue, ClearedNow
<1>3. ASSUME ~TestCodec, ~ClearBufQueue, ~PopBufQueue PROVE UNCHANGED fate
  BY <1>3 DEF Next, Feeder, Looper, GoOn, FeedTest, FeedGate, PushBufQueue, AppendMessage,
     TakeMessage, HandlerGate, GetBufQueue, CountFree, WritePart, UseGone, PopMessage,
     FlushBegin, FlushBreak, ClearMessages, FlushReturn, FlushComponents, FlushEnd,
     UnloadBegin, UnloadCodec, SetRunningState, SetDecodes, Decoded, SendConfig, vars, history
<1>4. QED
  BY <1>1, <1>2, <1>3

(* The variables keep their types: in particular no part of a frame, and no  *)
(* free buffer, is counted that there is not.                                *)
THEOREM Typing == Spec => []TypeOK
<1>1. Inv => TypeOK
  BY DEF Inv
<1>2. QED
  BY Invariance, <1>1, PTL

(* The handler's raw pointer (getBufQueue()) is good until it pops the frame *)
(* or a flush() clears the queue under it.                                   *)
THEOREM FrameAlive == Spec => []DeadFrameNeedsClear
<1>1. Inv => DeadFrameNeedsClear
  BY DEF Inv, History, DeadFrameNeedsClear
<1>2. QED
  BY Invariance, <1>1, PTL

(* popBufQueue() pops the frame that was written, with the same exception.   *)
THEOREM PopsItsFrame == Spec => []LossNeedsClear
<1>1. Inv => LossNeedsClear
  BY DEF Inv, History, LossNeedsClear
<1>2. QED
  BY Invariance, <1>1, PTL

(* At rest each frame in the queue has a message that will fetch it.         *)
THEOREM MessageForEachFrame == Spec => []FrameHasMessage
<1>1. Inv => FrameHasMessage
  <2> SUFFICES ASSUME Inv, lpc = "idle", fpc = "idle", opc = "none",
                      past \cap {"inHandler", "unload"} = {}
               PROVE  Len(queue) <= msgs
    BY DEF FrameHasMessage
  <2>1. Len(queue) + 0 <= msgs + 0
    BY DEF Inv, Counted
  <2>2. Len(queue) \in Nat /\ msgs \in Nat
    BY QueueFacts DEF Inv, TypeOK
  <2>3. QED
    BY <2>1, <2>2
<1>2. QED
  BY Invariance, <1>1, PTL

(* Only clearBufQueue() changes what is cut off, and only feedData() counts  *)
(* a frame more; the frames of a player are what they are.                   *)
LEMMA QuietSteps ==
    ASSUME [Next]_vars
    PROVE  /\ ~FeedTest => UNCHANGED fed
           /\ ~ClearBufQueue => UNCHANGED old
           /\ ~WritePart => UNCHANGED put
           /\ UNCHANGED <<stream, size>>
  BY DEF Next, Feeder, Looper, GoOn, FeedTest, FeedGate, PushBufQueue, AppendMessage,
     TakeMessage, HandlerGate, TestCodec, GetBufQueue, CountFree, WritePart, UseGone, PopBufQueue, PopMessage,
     FlushBegin, FlushBreak, ClearMessages, ClearBufQueue, FlushReturn, FlushComponents, FlushEnd,
     UnloadBegin, UnloadCodec, SetRunningState, SetDecodes, Decoded, SendConfig, vars, history, playerVars

(* A write delivers a part of a frame that was not cut off and that no later *)
(* one overtook.                                                             *)
LEMMA WriteDelivers ==
    ASSUME Inv, WritePart, put' # put
    PROVE  cur \in Frames /\ Stream!Deliver(cur)
<1>1. /\ put' = [put EXCEPT ![cur] = @ + 1] /\ lpc = "write" /\ parts < Calls(cur) /\ Alive(cur)
      /\ UNCHANGED <<size, fed, old>>
  BY DEF WritePart, playerVars
<1>2. cur \in Frames /\ cur \in Nat /\ fed \in Nat /\ old \in Nat
  BY <1>1, FeedAssumption DEF Inv, TypeOK, HandlerFirst, Frames, None
<1>3. put[cur] < size[cur]
  <2>1. put[cur] <= parts /\ put[cur] \in Nat /\ parts \in Nat /\ size[cur] \in Nat \ {0}
    BY <1>1, <1>2, FeedAssumption DEF Inv, TypeOK, Sizes, PutBounded, None, Frames
  <2>2. Calls(cur) <= size[cur] /\ Calls(cur) \in Nat
    BY <2>1 DEF Calls
  <2>3. QED
    BY <1>1, <2>1, <2>2
<1>4. cur > old /\ cur <= fed
  BY <1>1, <1>2 DEF Inv, AfterFlush, QueueOrdered, Pushed, Alive, Index
<1>5. ASSUME NEW g \in Frames, g > cur PROVE put[g] = 0
  <2>1. g \in Nat /\ put[g] \in Nat
    BY FeedAssumption DEF Inv, TypeOK, Frames
  <2>2. CASE \E i \in Index : queue[i] = cur
    BY <1>2, <1>5, <2>1, <2>2 DEF Inv, PutInOrder
  <2>3. CASE cur = fed
    BY <1>2, <1>5, <2>1, <2>3 DEF Inv, PutInOrder, Pushed
  <2>4. QED
    BY <1>1, <2>2, <2>3 DEF Alive, Index
<1>6. QED
  BY <1>1, <1>2, <1>3, <1>4, <1>5 DEF Stream!Deliver, Stream!Frames, Frames

(* The queues, messages and threads implement FrameStream: frames reach the  *)
(* codec in feeding order, each part at most once, and after a flush()       *)
(* nothing of what was fed before it, whatever flush(), unload() and the     *)
(* two threads do meanwhile.                                                 *)
THEOREM Implements == Spec => StreamsFrames
<1>1. Init => Stream!Init
  BY FeedAssumption DEF Init, Sizes, Stream!Init, Stream!Frames, Frames, None
<1>2. Inv /\ [Next]_vars => [Stream!Next]_(Stream!vars)
  <2> SUFFICES ASSUME Inv, [Next]_vars PROVE [Stream!Next]_(Stream!vars)
    OBVIOUS
  <2>1. CASE FeedTest
    <3>1. fed < MaxFrames /\ fed' = fed + 1 /\ UNCHANGED <<size, old, put>>
      BY <2>1 DEF FeedTest, playerVars, history
    <3>2. QED
      BY <3>1 DEF Stream!Next, Stream!Feed
  <2>2. CASE ClearBufQueue
    <3>1. old' = FedBefore /\ UNCHANGED <<size, fed, put>>
      BY <2>2 DEF ClearBufQueue, playerVars
    <3>2. old' \in {fed - 1, fed} /\ old' >= old
      BY <3>1, FeedAssumption DEF Inv, TypeOK, AfterFlush, FedBefore
    <3>3. QED
      BY <3>1, <3>2 DEF Stream!Next, Stream!Cut
  <2>3. CASE WritePart /\ put' # put
    <3>1. cur \in Stream!Frames /\ Stream!Deliver(cur)
      BY <2>3, WriteDelivers DEF Stream!Frames, Frames
    <3>2. QED
      BY <3>1 DEF Stream!Next
  <2>4. CASE ~FeedTest /\ ~ClearBufQueue /\ (WritePart => put' = put)
    BY <2>4, QuietSteps DEF Stream!vars
  <2>5. QED
    BY <2>1, <2>2, <2>3, <2>4
<1>3. QED
  BY Invariance, <1>1, <1>2, PTL DEF Spec, StreamsFrames, Stream!Spec

(* A frame the handler is done with is in the codec whole, if the handler    *)
(* counted room for it, every write was taken, and no configuration came     *)
(* between: but for audio that does not fit into one buffer.                 *)
THEOREM Whole == Spec => WholeIfRoom
<1> DEFINE Kept(f) == \/ put[f] = size[f] \/ TooLong(f)
                      \/ room < size[f] \/ past \cap {"rejected", "config"} # {}
           Step == \A f \in Frames : (fate'[f] = "done" /\ fate[f] # "done") => Kept(f)
<1>1. Inv /\ [Next]_vars => [Step]_vars
  <2> SUFFICES ASSUME Inv, [Next]_vars, NEW f \in Frames, fate'[f] = "done", fate[f] # "done"
               PROVE  Kept(f)
    OBVIOUS
  <2>1. PopBufQueue
    BY DoneOnlyByPop
  <2>2. f = cur /\ lpc = "write" /\ parts = Calls(f)
    BY <2>1 DEF PopBufQueue, Inv, TypeOK
  <2>3. room \in Nat /\ size[f] \in Nat \ {0} /\ stream \in {"video", "audio"}
    BY FeedAssumption DEF Inv, TypeOK, Sizes
  <2>4. past \cap {"rejected", "config"} = {} /\ Calls(f) <= room => put[f] = Calls(f)
    BY <2>2 DEF Inv, RoomKept
  <2>5. Calls(f) = size[f] \/ TooLong(f)
    BY <2>3 DEF Calls, TooLong
  <2>6. QED
    BY <2>3, <2>4, <2>5
<1>2. QED
  BY Invariance, <1>1, PTL DEF Spec, WholeIfRoom
=============================================================================
