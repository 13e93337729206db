------------------------ MODULE MessageLooperProofs ------------------------
(***************************************************************************)
(* Proofs about MessageLooper, for any number of messages and of threads     *)
(* that post: what is lost, what is handled twice and in which order frames  *)
(* go, over every interleaving of feeder, flush, retries, stops and quit.    *)
(***************************************************************************)
EXTENDS MessageLooper, SequenceTheorems, WellFoundedInduction, TLAPS

Messages == Ids \cup {Quit}

(* A thread in a handler has a message; a joined thread has left.           *)
Handling ==
    /\ pc = "handle" => inflight \in Ids
    /\ quit = "joined" => pc = "exited"

(* Nobody but a client that says so changes the front under a handler.      *)
FrontKept == (pc = "handle" /\ ~disturbed) => queue # <<>> /\ Head(queue) = inflight

(* A renderer's list: nothing is posted to it, its frames are in the order   *)
(* they were made in, and none is older than the last one taken.            *)
FramesSorted ==
    kind = "renderer" =>
        /\ \A p \in Posters : made[p] = NoMsg
        /\ lastTaken < nextId
        /\ \A i \in 1 .. Len(queue) : /\ queue[i] < nextId
                                      /\ queue[i] # Quit => lastTaken <= queue[i]
        /\ \A i, j \in 1 .. Len(queue) : i < j => queue[i] < queue[j]

(* Until the quit message comes: what is in the list was not handled yet,    *)
(* and what is being handled is in front, or was cleared.                   *)
InList(m) == \E i \in 1 .. Len(queue) : queue[i] = m

FramesOnce ==
    (kind = "renderer" /\ quit \in {"no", "started"}) =>
        /\ repeated = {}
        /\ \A i \in 1 .. Len(queue) : queue[i] # Quit /\ fate[queue[i]] = "queued"
        /\ pc = "handle" => /\ inflight < nextId /\ fate[inflight] \in {"queued", "cleared"}
                            /\ InList(inflight) => queue[1] = inflight

Inv == TypeOK /\ Handling /\ FrontKept /\ FramesSorted /\ FramesOnce
-----------------------------------------------------------------------------
(* A set of numbers that is not empty has a least one. *)
LEMMA LeastOf ==
    ASSUME NEW S \in SUBSET Nat, S # {}
    PROVE  \E i \in S : \A j \in S : i <= j
<1>1. PICK i \in S : \A j \in S : ~ (<<j, i>> \in OpToRel(<, Nat))
  BY NatLessThanWellFounded, WFMin
<1>2. \A j \in S : ~(j < i)
  BY <1>1 DEF OpToRel
<1>3. QED
  BY <1>2

Inserted(q, m, r, at) ==
    /\ at \in 1 .. Len(q) + 1
    /\ r \in Seq(Messages) /\ Len(r) = Len(q) + 1 /\ r[at] = m
    /\ \A i \in 1 .. at - 1 : r[i] = q[i] /\ q[i] <= m
    /\ \A i \in at .. Len(q) : r[i + 1] = q[i]
    /\ at <= Len(q) => q[at] > m

(* A message inserted at a place: those before it stay, those behind it    *)
(* move by one.                                                            *)
LEMMA InsertAtFacts ==
    ASSUME NEW q \in Seq(Messages), NEW m \in Messages, NEW at \in 1 .. Len(q) + 1
    PROVE  /\ InsertAt(q, at, m) \in Seq(Messages) /\ Len(InsertAt(q, at, m)) = Len(q) + 1
           /\ InsertAt(q, at, m)[at] = m
           /\ \A i \in 1 .. at - 1 : InsertAt(q, at, m)[i] = q[i]
           /\ \A i \in at .. Len(q) : InsertAt(q, at, m)[i + 1] = q[i]
<1> DEFINE front == SubSeq(q, 1, at - 1)
           back == SubSeq(q, at, Len(q))
           first == front \o <<m>>
           r == first \o back
<1>1. Len(q) \in Nat /\ at \in Nat /\ at >= 1 /\ at <= Len(q) + 1 /\ \A i \in 1 .. Len(q) : q[i] \in Messages
  OBVIOUS
<1>2. /\ front \in Seq(Messages) /\ Len(front) = at - 1
      /\ \A i \in 1 .. at - 1 : front[i] = q[i]
  <2>1. 1 \in Int /\ at - 1 \in Int /\ \A i \in 1 .. at - 1 : q[i] \in Messages
    BY <1>1
  <2>2. /\ front \in Seq(Messages) /\ Len(front) = IF 1 <= at - 1 THEN (at - 1) - 1 + 1 ELSE 0
        /\ \A i \in 1 .. (at - 1) - 1 + 1 : front[i] = q[1 + i - 1]
    BY <2>1, SubSeqProperties
  <2> HIDE DEF front
  <2>3. QED
    BY <1>1, <2>2
<1>3. /\ back \in Seq(Messages) /\ Len(back) = Len(q) - at + 1
      /\ \A i \in 1 .. Len(q) - at + 1 : back[i] = q[at + i - 1]
  <2>1. at \in Int /\ Len(q) \in Int /\ \A i \in at .. Len(q) : q[i] \in Messages
    BY <1>1
  <2>2. /\ back \in Seq(Messages) /\ Len(back) = IF at <= Len(q) THEN Len(q) - at + 1 ELSE 0
        /\ \A i \in 1 .. Len(q) - at + 1 : back[i] = q[at + i - 1]
    BY <2>1, SubSeqProperties
  <2> HIDE DEF back
  <2>3. QED
    BY <1>1, <2>2
<1> HIDE DEF front, back
<1>4. /\ first \in Seq(Messages) /\ Len(first) = at /\ first[at] = m
      /\ \A i \in 1 .. at - 1 : first[i] = q[i]
  <2>1. <<m>> \in Seq(Messages) /\ Len(<<m>>) = 1 /\ <<m>>[1] = m
    OBVIOUS
  <2>2. /\ first \in Seq(Messages) /\ Len(first) = Len(front) + 1
        /\ \A i \in 1 .. Len(front) + 1 : first[i] = IF i <= Len(front) THEN front[i] ELSE <<m>>[i - Len(front)]
    BY <1>2, <2>1, ConcatProperties
  <2> HIDE DEF first
  <2>3. QED
    BY <1>1, <1>2, <2>1, <2>2
<1> HIDE DEF first
<1>5. /\ r \in Seq(Messages) /\ Len(r) = at + Len(back)
      /\ \A i \in 1 .. at + Len(back) : r[i] = IF i <= at THEN first[i] ELSE back[i - at]
  BY <1>3, <1>4, ConcatProperties
<1> HIDE DEF r
<1>6. Len(r) = Len(q) + 1 /\ r[at] = m /\ \A i \in 1 .. at - 1 : r[i] = q[i]
  BY <1>1, <1>3, <1>4, <1>5
<1>7. ASSUME NEW i \in at .. Len(q) PROVE r[i + 1] = q[i]
  <2>1. i + 1 \in 1 .. at + Len(back) /\ ~(i + 1 <= at) /\ i + 1 - at \in 1 .. Len(q) - at + 1
    BY <1>1, <1>3
  <2>2. r[i + 1] = back[i + 1 - at]
    BY <1>5, <2>1
  <2>3. back[i + 1 - at] = q[at + (i + 1 - at) - 1]
    BY <1>3, <2>1
  <2>4. at + (i + 1 - at) - 1 = i
    BY <1>1
  <2>5. QED
    BY <2>2, <2>3, <2>4
<1>8. InsertAt(q, at, m) = r
  BY DEF InsertAt, r, first, front, back
<1>9. QED
  BY <1>5, <1>6, <1>7, <1>8

(* post() puts a message before the first that is younger.                  *)
LEMMA InsertFacts ==
    ASSUME NEW q \in Seq(Messages), NEW m \in Messages
    PROVE  \E at \in 1 .. Len(q) + 1 : Inserted(q, m, InsertByRunAt(q, m), at)
<1> DEFINE later == {i \in 1 .. Len(q) : q[i] > m}
<1>1. Len(q) \in Nat /\ m \in Nat /\ \A i \in 1 .. Len(q) : q[i] \in Nat
  BY LooperAssumption DEF Messages, Ids, Quit
<1>2. PICK at \in 1 .. Len(q) + 1 :
        /\ InsertByRunAt(q, m) = InsertAt(q, at, m)
        /\ at <= Len(q) => q[at] > m
        /\ \A i \in 1 .. at - 1 : i \in 1 .. Len(q) /\ i \notin later
  <2>1. CASE later = {}
    <3>1. InsertByRunAt(q, m) = InsertAt(q, Len(q) + 1, m)
      BY <2>1 DEF InsertByRunAt
    <3>2. Len(q) + 1 \in 1 .. Len(q) + 1
      BY <1>1
    <3>3. \A i \in 1 .. (Len(q) + 1) - 1 : i \in 1 .. Len(q) /\ i \notin later
      BY <1>1, <2>1
    <3>4. ~(Len(q) + 1 <= Len(q))
      BY <1>1
    <3>5. QED
      BY <3>1, <3>2, <3>3, <3>4
  <2>2. CASE later # {}
    <3> DEFINE at == CHOOSE i \in later : \A j \in later : i <= j
    <3>1. later \in SUBSET Nat
      BY <1>1
    <3>2. \E i \in later : \A j \in later : i <= j
      BY <2>2, <3>1, LeastOf
    <3>3. at \in later /\ \A j \in later : at <= j
      BY <3>2
    <3>4. InsertByRunAt(q, m) = InsertAt(q, at, m)
      BY <2>2 DEF InsertByRunAt
    <3> HIDE DEF at
    <3>5. at \in 1 .. Len(q) /\ q[at] > m
      BY <3>3
    <3>6. \A i \in 1 .. at - 1 : i \in 1 .. Len(q) /\ i \notin later
      <4>1. SUFFICES ASSUME NEW i \in 1 .. at - 1 PROVE i \in 1 .. Len(q) /\ i \notin later
        OBVIOUS
      <4>2. i \in 1 .. Len(q) /\ ~(at <= i)
        BY <1>1, <3>5
      <4>3. QED
        BY <3>3, <4>2
    <3>7. at \in 1 .. Len(q) + 1
      BY <1>1, <3>5
    <3>8. QED
      BY <3>4, <3>5, <3>6, <3>7
  <2>3. QED
    BY <2>1, <2>2
<1>3. \A i \in 1 .. at - 1 : q[i] <= m
  BY <1>1, <1>2
<1> DEFINE r == InsertAt(q, at, m)
<1>4. /\ r \in Seq(Messages) /\ Len(r) = Len(q) + 1 /\ r[at] = m
      /\ \A i \in 1 .. at - 1 : r[i] = q[i]
      /\ \A i \in at .. Len(q) : r[i + 1] = q[i]
  BY InsertAtFacts
<1> HIDE DEF r, later
<1>5. at <= Len(q) => q[at] > m
  BY <1>2
<1>6. Inserted(q, m, r, at)
  BY <1>3, <1>4, <1>5 DEF Inserted
<1>7. QED
  BY <1>2, <1>6 DEF r

(* The queue without its front. *)
LEMMA TailFacts ==
    ASSUME queue \in Seq(Messages), queue # <<>>
    PROVE  /\ Len(queue) \in Nat /\ Len(queue) >= 1 /\ Head(queue) = queue[1] /\ Head(queue) \in Messages
           /\ Tail(queue) \in Seq(Messages) /\ Len(Tail(queue)) = Len(queue) - 1
           /\ \A i \in 1 .. Len(queue) - 1 : Tail(queue)[i] = queue[i + 1]
OBVIOUS

(* The queue with one message more at its end. *)
LEMMA AppendFacts ==
    ASSUME queue \in Seq(Messages), NEW m \in Messages, queue' = Append(queue, m)
    PROVE  /\ Len(queue) \in Nat /\ queue' \in Seq(Messages) /\ Len(queue') = Len(queue) + 1
           /\ queue'[Len(queue) + 1] = m /\ queue' # <<>>
           /\ \A i \in 1 .. Len(queue) : queue'[i] = queue[i]
OBVIOUS

(* The quit message is one apart from those that are handled, and no       *)
(* message is neither.                                                     *)
LEMMA IdFacts ==
    /\ Ids \subseteq Nat /\ Messages \subseteq Nat /\ NoMsg \notin Nat
    /\ Quit \in Messages /\ Quit \notin Ids /\ Ids \subseteq Messages /\ NoMsg \in Int
    /\ \A m \in Messages : m \in Ids <=> m # Quit
    /\ \A m \in Ids : NoMsg < m /\ m >= 1
BY LooperAssumption DEF Ids, Messages, Quit, NoMsg
-----------------------------------------------------------------------------
(* The variables keep their types.                                          *)
LEMMA TypeStep == TypeOK /\ Handling /\ [Next]_vars => TypeOK' /\ Handling'
<1> SUFFICES ASSUME TypeOK, Handling, [Next]_vars PROVE TypeOK' /\ Handling'
  OBVIOUS
<1> USE DEF Handling, history
<1>0. queue \in Seq(Messages) /\ Ids \subseteq Messages
  BY IdFacts DEF TypeOK, Messages
<1>1. CASE UNCHANGED vars
  BY <1>1 DEF TypeOK, vars
<1>2. CASE ParkStopped \/ ParkEmpty \/ TakeQuit
  BY <1>2 DEF TypeOK, ParkStopped, ParkEmpty, TakeQuit
<1>3. CASE TakeFront
  <2>1. Head(queue) \in Ids
    BY <1>0, <1>3, TailFacts, IdFacts DEF TakeFront
  <2>2. QED
    BY <1>3, <2>1 DEF TypeOK, TakeFront
<1>4. CASE HandleSuccess
  <2>1. inflight \in Ids
    BY <1>4 DEF HandleSuccess
  <2>2. queue' \in Seq(Ids \cup {Quit})
    BY <1>0, <1>4, TailFacts DEF HandleSuccess, Messages
  <2>3. repeated' \subseteq Ids
    BY <1>4, <2>1 DEF TypeOK, HandleSuccess, Settle
  <2>4. fate' \in [Ids -> {"none", "queued", "handled", "cleared", "dropped"}]
    BY <1>4 DEF TypeOK, HandleSuccess, Settle
  <2>5. /\ pc' = "check" /\ inflight' = NoMsg
        /\ UNCHANGED <<kind, running, made, nextId, quit, lastTaken, disturbed>>
    BY <1>4 DEF HandleSuccess
  <2>6. quit # "joined"
    BY <1>4 DEF HandleSuccess
  <2>7. QED
    BY <2>2, <2>3, <2>4, <2>5, <2>6 DEF TypeOK
<1>5. CASE HandleRetry
  BY <1>5 DEF TypeOK, HandleRetry
<1>6. ASSUME NEW p \in Posters, Make(p) PROVE TypeOK' /\ Handling'
  <2>1. nextId + 1 \in 1 .. MaxMsgs + 1
    BY <1>6, LooperAssumption DEF Make, Ids
  <2>2. QED
    BY <1>6, <2>1 DEF TypeOK, Make
<1>7. ASSUME NEW p \in Posters, Post(p) PROVE TypeOK' /\ Handling'
  <2>1. made[p] \in Ids
    BY <1>7 DEF TypeOK, Post
  <2>2. queue' \in Seq(Ids \cup {Quit})
    <3>1. PICK at : Inserted(queue, made[p], InsertByRunAt(queue, made[p]), at)
      BY <1>0, <2>1, InsertFacts
    <3>2. QED
      BY <1>7, <3>1 DEF Post, Inserted, Messages
  <2>3. made' \in [Posters -> Ids \cup {NoMsg}]
    BY <1>7 DEF TypeOK, Post
  <2>4. fate' \in [Ids -> {"none", "queued", "handled", "cleared", "dropped"}]
    BY <1>7, <2>1 DEF TypeOK, Post
  <2>5. disturbed' \in BOOLEAN
    BY <1>7 DEF Post
  <2>6. /\ pc' = pc \/ (pc = "waitQueue" /\ pc' = "check")
        /\ UNCHANGED <<kind, running, inflight, nextId, quit, repeated, lastTaken>>
    BY <1>7 DEF Post, WakeFrom
  <2>7. QED
    BY <2>2, <2>3, <2>4, <2>5, <2>6 DEF TypeOK
<1>8. CASE AppendMsg
  <2>1. nextId \in Ids /\ nextId + 1 \in 1 .. MaxMsgs + 1
    BY <1>8, LooperAssumption DEF AppendMsg, Ids
  <2>2. queue' \in Seq(Ids \cup {Quit})
    BY <1>0, <1>8, <2>1, AppendFacts DEF AppendMsg, Messages
  <2>3. fate' \in [Ids -> {"none", "queued", "handled", "cleared", "dropped"}]
    BY <1>8, <2>1 DEF TypeOK, AppendMsg
  <2>4. /\ pc' = pc \/ (pc = "waitQueue" /\ pc' = "check")
        /\ UNCHANGED <<kind, running, inflight, made, quit, repeated, lastTaken, disturbed>>
        /\ nextId' = nextId + 1
    BY <1>8 DEF AppendMsg, WakeFrom
  <2>5. QED
    BY <2>1, <2>2, <2>3, <2>4 DEF TypeOK
<1>9. CASE ClearAll
  <2>1. fate' \in [Ids -> {"none", "queued", "handled", "cleared", "dropped"}]
    BY <1>9 DEF TypeOK, ClearAll
  <2>2. queue' \in Seq(Ids \cup {Quit})
    BY <1>9, EmptySeq DEF ClearAll
  <2>3. /\ disturbed' = TRUE
        /\ UNCHANGED <<kind, running, pc, inflight, made, nextId, quit, repeated, lastTaken>>
    BY <1>9 DEF ClearAll
  <2>4. QED
    BY <2>1, <2>2, <2>3 DEF TypeOK
<1>10. ASSUME NEW run \in BOOLEAN, SetRunningState(run) PROVE TypeOK' /\ Handling'
  BY <1>10 DEF TypeOK, SetRunningState, WakeFrom
<1>11. CASE QuitStart
  BY <1>11 DEF TypeOK, QuitStart, WakeFrom
<1>12. CASE QuitPost
  <2>1. queue' \in Seq(Ids \cup {Quit})
    <3>1. PICK at : Inserted(queue, Quit, InsertByRunAt(queue, Quit), at)
      BY <1>0, IdFacts, InsertFacts
    <3>2. QED
      BY <1>12, <3>1 DEF QuitPost, Inserted, Messages
  <2>2. /\ pc' = pc \/ (pc = "waitQueue" /\ pc' = "check")
        /\ quit' = "posted" /\ disturbed' = TRUE
        /\ UNCHANGED <<kind, running, inflight, made, nextId, fate, repeated, lastTaken>>
    BY <1>12 DEF QuitPost, WakeFrom
  <2>3. QED
    BY <2>1, <2>2 DEF TypeOK
<1>13. CASE Join
  BY <1>13 DEF TypeOK, Join
<1>14. QED
  BY <1>1, <1>2, <1>3, <1>4, <1>5, <1>6, <1>7, <1>8, <1>9, <1>10, <1>11, <1>12, <1>13 DEF Next
-----------------------------------------------------------------------------
(* The front of the list is what is handled, or a client has noted that it   *)
(* changed it.                                                              *)
LEMMA FrontStep == TypeOK /\ FrontKept /\ [Next]_vars => FrontKept'
<1> SUFFICES ASSUME TypeOK, FrontKept, [Next]_vars PROVE FrontKept'
  OBVIOUS
<1> USE DEF FrontKept, history
<1>0. queue \in Seq(Messages) /\ Ids \subseteq Messages
  BY IdFacts DEF TypeOK, Messages
<1>1. CASE UNCHANGED vars
  BY <1>1 DEF vars
<1>2. CASE ParkStopped \/ ParkEmpty \/ TakeQuit \/ HandleSuccess \/ HandleRetry
  BY <1>2 DEF ParkStopped, ParkEmpty, TakeQuit, HandleSuccess, HandleRetry
<1>3. CASE TakeFront
  BY <1>3 DEF TakeFront
<1>4. ASSUME NEW p \in Posters, Make(p) PROVE FrontKept'
  BY <1>4 DEF Make
<1>5. ASSUME NEW p \in Posters, Post(p) PROVE FrontKept'
  <2>1. SUFFICES ASSUME pc' = "handle", ~disturbed' PROVE queue' # <<>> /\ Head(queue') = inflight'
    OBVIOUS
  <2>2. pc = "handle" /\ ~disturbed /\ Head(queue') # made[p] /\ inflight' = inflight
    BY <1>5, <2>1 DEF Post, WakeFrom
  <2>3. made[p] \in Messages
    BY <1>0, <1>5 DEF TypeOK, Post
  <2>4. PICK at : Inserted(queue, made[p], queue', at)
    BY <1>0, <1>5, <2>3, InsertFacts DEF Post
  <2>5. queue # <<>> /\ Head(queue) = inflight /\ Head(queue) = queue[1] /\ Len(queue) \in Nat /\ Len(queue) >= 1
    BY <1>0, <2>2, TailFacts
  <2>6. queue' # <<>> /\ Head(queue') = queue'[1]
    <3>1. queue' \in Seq(Messages) /\ Len(queue') = Len(queue) + 1
      BY <2>4 DEF Inserted
    <3>2. queue' # <<>>
      BY <2>5, <3>1, EmptySeq
    <3>3. QED
      BY <3>1, <3>2
  <2>7. at # 1
    BY <2>2, <2>4, <2>6 DEF Inserted
  <2>8. 1 \in 1 .. at - 1
    BY <2>4, <2>5, <2>7 DEF Inserted
  <2>9. queue'[1] = queue[1]
    BY <2>4, <2>8 DEF Inserted
  <2>10. QED
    BY <2>2, <2>5, <2>6, <2>9
<1>6. CASE AppendMsg
  <2>1. SUFFICES ASSUME pc' = "handle", ~disturbed' PROVE queue' # <<>> /\ Head(queue') = inflight'
    OBVIOUS
  <2>2. pc = "handle" /\ ~disturbed /\ inflight' = inflight /\ queue' = Append(queue, nextId) /\ nextId \in Ids
    BY <1>6, <2>1 DEF AppendMsg, WakeFrom
  <2>3. queue # <<>> /\ Head(queue) = inflight
    BY <2>2
  <2>4. QED
    BY <1>0, <2>2, <2>3
<1>7. CASE ClearAll
  BY <1>7 DEF ClearAll
<1>8. ASSUME NEW run \in BOOLEAN, SetRunningState(run) PROVE FrontKept'
  BY <1>8 DEF SetRunningState, WakeFrom
<1>9. CASE QuitStart \/ QuitPost \/ Join
  BY <1>9 DEF QuitStart, QuitPost, Join, WakeFrom
<1>10. QED
  BY <1>1, <1>2, <1>3, <1>4, <1>5, <1>6, <1>7, <1>8, <1>9 DEF Next

(* The frames stay in order, also when the quit message goes to the front.  *)
LEMMA SortedStep == TypeOK /\ FramesSorted /\ FramesOnce /\ [Next]_vars => FramesSorted'
<1> SUFFICES ASSUME TypeOK, FramesSorted, FramesOnce, [Next]_vars PROVE FramesSorted'
  OBVIOUS
<1> USE DEF FramesSorted, history
<1>0. /\ queue \in Seq(Messages) /\ Ids \subseteq Messages /\ Len(queue) \in Nat
      /\ \A i \in 1 .. Len(queue) : queue[i] \in Nat
      /\ lastTaken \in Int /\ nextId \in Nat /\ Quit = 0
  <2>1. queue \in Seq(Messages) /\ Ids \subseteq Messages
    BY IdFacts DEF TypeOK, Messages
  <2>2. Len(queue) \in Nat /\ \A i \in 1 .. Len(queue) : queue[i] \in Nat
    <3>1. Len(queue) \in Nat /\ \A i \in 1 .. Len(queue) : queue[i] \in Messages
      BY <2>1
    <3>2. QED
      BY <3>1, IdFacts
  <2>3. lastTaken \in Int /\ nextId \in Nat
    BY IdFacts, LooperAssumption DEF TypeOK
  <2>4. QED
    BY <2>1, <2>2, <2>3 DEF Quit
<1>1. ASSUME UNCHANGED <<kind, queue, made, nextId, lastTaken>> PROVE FramesSorted'
  BY <1>1
<1>2. CASE ParkStopped \/ ParkEmpty \/ TakeQuit \/ HandleRetry \/ QuitStart \/ Join
  BY <1>1, <1>2 DEF ParkStopped, ParkEmpty, TakeQuit, HandleRetry, QuitStart, Join
<1>3. CASE TakeFront
  <2>1. /\ queue # <<>> /\ Head(queue) # Quit /\ lastTaken' = Head(queue)
        /\ UNCHANGED <<kind, queue, made, nextId>>
    BY <1>3 DEF TakeFront
  <2>2. Head(queue) = queue[1] /\ Len(queue) >= 1
    BY <1>0, <2>1, TailFacts
  <2>3. ASSUME kind = "renderer", NEW i \in 1 .. Len(queue) PROVE queue[1] <= queue[i]
    <3>1. 1 \in 1 .. Len(queue) /\ (i = 1 \/ 1 < i)
      BY <1>0, <2>2
    <3>2. QED
      BY <1>0, <2>3, <3>1
  <2>4. kind = "renderer" => queue[1] < nextId
    BY <1>0, <2>2
  <2>5. QED
    BY <2>1, <2>2, <2>3, <2>4
<1>4. CASE HandleSuccess
  <2>1. UNCHANGED <<kind, made, nextId, lastTaken>>
    BY <1>4 DEF HandleSuccess
  <2>2. CASE queue = <<>>
    BY <1>1, <1>4, <2>1, <2>2 DEF HandleSuccess
  <2>3. CASE queue # <<>>
    <3>1. queue' = Tail(queue)
      BY <1>4, <2>3 DEF HandleSuccess
    <3>2. \A i \in 1 .. Len(queue') : i + 1 \in 1 .. Len(queue) /\ queue'[i] = queue[i + 1]
      BY <1>0, <2>3, <3>1, TailFacts
    <3>3. ASSUME kind = "renderer", NEW i \in 1 .. Len(queue'), NEW j \in 1 .. Len(queue'), i < j
          PROVE  queue'[i] < queue'[j]
      <4>1. i + 1 < j + 1
        BY <3>3
      <4>2. QED
        BY <3>2, <3>3, <4>1
    <3>4. QED
      BY <2>1, <3>2, <3>3
  <2>4. QED
    BY <2>2, <2>3
<1>5. ASSUME NEW p \in Posters, Make(p) \/ Post(p) PROVE FramesSorted'
  BY <1>5 DEF Make, Post
<1>6. CASE AppendMsg
  <2>1. /\ nextId \in Ids /\ nextId' = nextId + 1 /\ queue' = Append(queue, nextId)
        /\ UNCHANGED <<kind, made, lastTaken>>
    BY <1>6 DEF AppendMsg
  <2>2. /\ Len(queue') = Len(queue) + 1 /\ queue'[Len(queue) + 1] = nextId
        /\ \A i \in 1 .. Len(queue) : queue'[i] = queue[i]
    BY <1>0, <2>1, AppendFacts
  <2>3. \A i \in 1 .. Len(queue') : i = Len(queue) + 1 \/ (i \in 1 .. Len(queue) /\ queue'[i] = queue[i])
    BY <1>0, <2>2
  <2>4. ASSUME kind = "renderer", NEW i \in 1 .. Len(queue')
        PROVE  queue'[i] < nextId' /\ (queue'[i] # Quit => lastTaken <= queue'[i])
    BY <1>0, <2>1, <2>2, <2>3, <2>4
  <2>5. ASSUME kind = "renderer", NEW i \in 1 .. Len(queue'), NEW j \in 1 .. Len(queue'), i < j
        PROVE  queue'[i] < queue'[j]
    <3>1. i \in 1 .. Len(queue) /\ queue'[i] = queue[i]
      BY <1>0, <2>2, <2>5
    <3>2. CASE j = Len(queue) + 1
      BY <2>2, <2>5, <3>1, <3>2
    <3>3. CASE j # Len(queue) + 1
      BY <2>3, <2>5, <3>1, <3>3
    <3>4. QED
      BY <3>2, <3>3
  <2>6. kind = "renderer" => lastTaken' < nextId'
    BY <1>0, <2>1
  <2>7. SUFFICES ASSUME kind = "renderer" PROVE FramesSorted'
    BY <2>1
  <2>8. \A p \in Posters : made'[p] = NoMsg
    BY <2>1, <2>7
  <2>9. \A i \in 1 .. Len(queue') : /\ queue'[i] < nextId'
                                    /\ queue'[i] # Quit => lastTaken' <= queue'[i]
    <3>1. lastTaken' = lastTaken
      BY <2>1
    <3>2. \A i \in 1 .. Len(queue') : /\ queue'[i] < nextId'
                                      /\ queue'[i] # Quit => lastTaken <= queue'[i]
      BY <2>4, <2>7
    <3>3. QED
      BY <3>1, <3>2
  <2>10. \A i, j \in 1 .. Len(queue') : i < j => queue'[i] < queue'[j]
    BY <2>5, <2>7
  <2>11. QED
    BY <2>6, <2>7, <2>8, <2>9, <2>10
<1>7. CASE ClearAll
  <2>1. queue' = <<>> /\ UNCHANGED <<kind, made, nextId, lastTaken>>
    BY <1>7 DEF ClearAll
  <2>2. 1 .. Len(queue') = {}
    <3>1. Len(queue') = 0
      BY <2>1, EmptySeq
    <3>2. QED
      BY <3>1
  <2>3. QED
    BY <2>1, <2>2
<1>8. ASSUME NEW run \in BOOLEAN, SetRunningState(run) PROVE FramesSorted'
  BY <1>1, <1>8 DEF SetRunningState
<1>9. CASE QuitPost
  <2>1. UNCHANGED <<kind, made, nextId, lastTaken>> /\ queue' = InsertByRunAt(queue, Quit)
    BY <1>9 DEF QuitPost
  <2>2. SUFFICES ASSUME kind = "renderer" PROVE FramesSorted'
    BY <2>1
  <2>3. PICK at \in 1 .. Len(queue) + 1 : Inserted(queue, Quit, queue', at)
    BY <1>0, <2>1, IdFacts, InsertFacts
  <2>4. \A i \in 1 .. Len(queue) : queue[i] > 0
    BY <1>0, <1>9, <2>2 DEF QuitPost, FramesOnce
  <2>5. at = 1
    <3>1. SUFFICES ASSUME at # 1 PROVE FALSE
      OBVIOUS
    <3>2. 1 \in 1 .. at - 1 /\ 1 \in 1 .. Len(queue)
      BY <1>0, <3>1
    <3>3. queue[1] <= 0
      BY <1>0, <2>3, <3>2 DEF Inserted
    <3>4. QED
      BY <1>0, <2>4, <3>2, <3>3
  <2>6. /\ Len(queue') = Len(queue) + 1 /\ queue'[1] = 0
        /\ \A i \in 1 .. Len(queue) : queue'[i + 1] = queue[i]
    BY <1>0, <2>3, <2>5 DEF Inserted
  <2>7. ASSUME NEW i \in 1 .. Len(queue'), i # 1
        PROVE  i - 1 \in 1 .. Len(queue) /\ queue'[i] = queue[i - 1]
    <3>1. i - 1 \in 1 .. Len(queue) /\ (i - 1) + 1 = i
      BY <1>0, <2>6, <2>7
    <3>2. QED
      BY <2>6, <3>1
  <2>8. 0 < nextId
    BY LooperAssumption DEF TypeOK
  <2>9. ASSUME NEW i \in 1 .. Len(queue')
        PROVE  queue'[i] < nextId' /\ (queue'[i] # Quit => lastTaken' <= queue'[i])
    <3>1. CASE i = 1
      BY <1>0, <2>1, <2>6, <2>8, <3>1
    <3>2. CASE i # 1
      BY <2>1, <2>2, <2>7, <3>2
    <3>3. QED
      BY <3>1, <3>2
  <2>10. ASSUME NEW i \in 1 .. Len(queue'), NEW j \in 1 .. Len(queue'), i < j
         PROVE  queue'[i] < queue'[j]
    <3>1. j # 1 /\ j - 1 \in 1 .. Len(queue) /\ queue'[j] = queue[j - 1]
      BY <1>0, <2>6, <2>7, <2>10
    <3>2. CASE i = 1
      BY <2>4, <2>6, <3>1, <3>2
    <3>3. CASE i # 1
      <4>1. i - 1 \in 1 .. Len(queue) /\ queue'[i] = queue[i - 1] /\ i - 1 < j - 1
        BY <1>0, <2>6, <2>7, <2>10, <3>3
      <4>2. QED
        BY <2>2, <3>1, <4>1
    <3>4. QED
      BY <3>2, <3>3
  <2>11. QED
    BY <2>1, <2>2, <2>9, <2>10
<1>10. CASE UNCHANGED vars
  BY <1>1, <1>10 DEF vars
<1>11. QED
  BY <1>2, <1>3, <1>4, <1>5, <1>6, <1>7, <1>8, <1>9, <1>10 DEF Next

(* Until the quit message: what was handled has left the list.              *)
LEMMA OnceStep == TypeOK /\ Handling /\ FramesSorted /\ FramesOnce /\ [Next]_vars => FramesOnce'
<1> SUFFICES ASSUME TypeOK, Handling, FramesSorted, FramesOnce, [Next]_vars,
                    kind' = "renderer", quit' \in {"no", "started"}
             PROVE FramesOnce'
  BY DEF FramesOnce
<1> USE DEF FramesOnce, history
<1>0. /\ queue \in Seq(Messages) /\ Len(queue) \in Nat
      /\ \A i \in 1 .. Len(queue) : queue[i] \in Messages
      /\ Ids \subseteq Nat /\ nextId \in Nat
  <2>1. queue \in Seq(Messages)
    BY IdFacts DEF TypeOK, Messages
  <2>2. Len(queue) \in Nat /\ \A i \in 1 .. Len(queue) : queue[i] \in Messages
    BY <2>1
  <2>3. QED
    BY <2>1, <2>2, IdFacts DEF TypeOK
<1>1. kind = "renderer" /\ quit \in {"no", "started"}
  BY DEF Next, vars, ParkStopped, ParkEmpty, TakeQuit, TakeFront, HandleSuccess, HandleRetry, Make, Post,
         AppendMsg, ClearAll, SetRunningState, QuitStart, QuitPost, Join
<1>2. /\ repeated = {}
      /\ \A i \in 1 .. Len(queue) : queue[i] \in Ids /\ fate[queue[i]] = "queued"
      /\ pc = "handle" => /\ inflight \in Ids /\ inflight < nextId /\ fate[inflight] \in {"queued", "cleared"}
                          /\ InList(inflight) => queue[1] = inflight
  BY <1>0, <1>1, IdFacts DEF Handling
<1>3. ASSUME UNCHANGED <<queue, nextId, fate, repeated, inflight>>, pc' = "handle" => pc = "handle"
      PROVE  FramesOnce'
  BY <1>1, <1>3 DEF InList
<1>4. CASE ParkStopped \/ ParkEmpty \/ TakeQuit
  BY <1>1, <1>3, <1>4 DEF ParkStopped, ParkEmpty, TakeQuit, FramesOnce
<1>5. CASE HandleRetry
  <2>1. pc' = "check" /\ UNCHANGED <<queue, nextId, fate, repeated>>
    BY <1>5 DEF HandleRetry
  <2>2. QED
    BY <1>1, <2>1
<1>6. CASE TakeFront
  <2>1. /\ queue # <<>> /\ Head(queue) # Quit /\ inflight' = Head(queue)
        /\ UNCHANGED <<queue, nextId, fate, repeated>>
    BY <1>6 DEF TakeFront
  <2>2. Head(queue) = queue[1] /\ 1 \in 1 .. Len(queue)
    BY <1>0, <2>1, TailFacts
  <2>3. queue[1] < nextId /\ fate[queue[1]] = "queued"
    BY <1>1, <1>2, <2>2 DEF FramesSorted
  <2>4. QED
    BY <1>1, <2>1, <2>2, <2>3
<1>7. CASE HandleSuccess
  <2>1. /\ pc = "handle" /\ pc' = "check" /\ UNCHANGED nextId
        /\ queue' = IF queue = <<>> THEN queue ELSE Tail(queue)
        /\ Settle(inflight, IF queue = <<>> THEN NoMsg ELSE Head(queue))
    BY <1>7 DEF HandleSuccess
  <2>2. repeated' = {}
    <3>1. fate[inflight] # "handled"
      BY <1>2, <2>1
    <3>2. repeated' = IF fate[inflight] = "handled" THEN repeated \cup {inflight} ELSE repeated
      BY <2>1 DEF Settle
    <3>3. QED
      BY <1>2, <3>1, <3>2
  <2>3. ASSUME NEW i \in 1 .. Len(queue') PROVE queue'[i] # Quit /\ fate'[queue'[i]] = "queued"
    <3>1. queue # <<>> /\ queue' = Tail(queue)
      <4>1. queue = <<>> => 1 .. Len(queue') = {}
        <5>1. queue = <<>> => Len(queue') = 0
          BY <2>1, EmptySeq
        <5>2. QED
          BY <5>1
      <4>2. QED
        BY <2>1, <2>3, <4>1
    <3>2. /\ i + 1 \in 1 .. Len(queue) /\ 1 \in 1 .. Len(queue) /\ 1 < i + 1
          /\ queue'[i] = queue[i + 1] /\ Head(queue) = queue[1]
      BY <1>0, <2>3, <3>1, TailFacts
    <3>3. queue[1] < queue[i + 1]
      BY <1>1, <3>2 DEF FramesSorted
    <3>4. queue[1] # queue[i + 1]
      <4>1. queue[1] \in Nat /\ queue[i + 1] \in Nat
        BY <1>0, <1>2, <3>2
      <4>2. QED
        BY <3>3, <4>1
    <3>5. queue[i + 1] # inflight
      <4>1. queue[i + 1] = inflight => InList(inflight)
        BY <3>2 DEF InList
      <4>2. QED
        BY <1>2, <2>1, <3>4, <4>1
    <3>6. fate' = [m \in Ids |-> IF m = inflight
                                   THEN IF fate[m] = "cleared" THEN "cleared" ELSE "handled"
                                 ELSE IF m = Head(queue) /\ fate[m] = "queued" THEN "dropped"
                                 ELSE fate[m]]
      BY <2>1, <3>1 DEF Settle
    <3>7. queue[i + 1] \in Ids /\ fate[queue[i + 1]] = "queued"
      BY <1>2, <3>2
    <3>8. fate'[queue[i + 1]] = "queued"
      BY <3>2, <3>4, <3>5, <3>6, <3>7
    <3>9. QED
      BY <3>2, <3>7, <3>8, IdFacts
  <2>4. QED
    BY <2>1, <2>2, <2>3
<1>8. ASSUME NEW p \in Posters, Make(p) \/ Post(p) PROVE FramesOnce'
  BY <1>1, <1>8 DEF Make, Post, FramesSorted
<1>9. CASE AppendMsg
  <2>1. /\ nextId \in Ids /\ nextId' = nextId + 1 /\ queue' = Append(queue, nextId)
        /\ fate' = [fate EXCEPT ![nextId] = "queued"]
        /\ pc' = "handle" => pc = "handle" /\ UNCHANGED <<inflight, repeated>>
    BY <1>9 DEF AppendMsg, WakeFrom
  <2>2. /\ Len(queue') = Len(queue) + 1 /\ queue'[Len(queue) + 1] = nextId
        /\ \A i \in 1 .. Len(queue) : queue'[i] = queue[i]
    BY <1>0, <2>1, AppendFacts, IdFacts
  <2>3. \A i \in 1 .. Len(queue') : i = Len(queue) + 1 \/ (i \in 1 .. Len(queue) /\ queue'[i] = queue[i])
    BY <1>0, <2>2
  <2>4. \A i \in 1 .. Len(queue) : queue[i] # nextId
    BY <1>0, <1>1, <1>2 DEF FramesSorted
  <2>5. \A m \in Ids : fate'[m] = IF m = nextId THEN "queued" ELSE fate[m]
    BY <2>1 DEF TypeOK
  <2>6. \A i \in 1 .. Len(queue') : queue'[i] # Quit /\ fate'[queue'[i]] = "queued"
    BY <1>2, <2>1, <2>2, <2>3, <2>5, IdFacts
  <2>7. repeated' = {}
    BY <1>2, <1>9 DEF AppendMsg
  <2>8. ASSUME pc' = "handle"
        PROVE  /\ inflight' < nextId' /\ fate'[inflight'] \in {"queued", "cleared"}
               /\ InList(inflight)' => queue'[1] = inflight'
    <3>1. /\ inflight' = inflight /\ inflight \in Ids /\ inflight < nextId
          /\ fate[inflight] \in {"queued", "cleared"}
          /\ InList(inflight) => queue[1] = inflight
      BY <1>2, <1>9, <2>1, <2>8 DEF AppendMsg
    <3>2. inflight # nextId /\ inflight < nextId + 1
      BY <1>0, <3>1
    <3>3. fate'[inflight] = fate[inflight]
      BY <2>5, <3>1, <3>2
    <3>4. ASSUME InList(inflight)' PROVE queue'[1] = inflight
      <4>1. PICK i \in 1 .. Len(queue') : queue'[i] = inflight
        BY <3>1, <3>4 DEF InList
      <4>2. i \in 1 .. Len(queue) /\ queue[i] = inflight
        BY <2>2, <2>3, <3>2, <4>1
      <4>3. 1 \in 1 .. Len(queue) /\ queue[1] = inflight
        <5>1. InList(inflight)
          BY <4>2 DEF InList
        <5>2. 1 \in 1 .. Len(queue)
          BY <1>0, <4>2
        <5>3. QED
          BY <3>1, <5>1, <5>2
      <4>4. QED
        BY <2>2, <4>3
    <3>5. inflight' < nextId' /\ fate'[inflight'] \in {"queued", "cleared"}
      BY <2>1, <3>1, <3>2, <3>3
    <3>6. QED
      BY <3>1, <3>4, <3>5
  <2>9. QED
    BY <2>6, <2>7, <2>8
<1>10. CASE ClearAll
  <2>1. /\ queue' = <<>> /\ UNCHANGED <<pc, inflight, nextId, repeated>>
        /\ fate' = [m \in Ids |-> IF m \in Queued /\ fate[m] = "queued" THEN "cleared" ELSE fate[m]]
    BY <1>10 DEF ClearAll
  <2>2. 1 .. Len(queue') = {}
    <3>1. Len(queue') = 0
      BY <2>1, EmptySeq
    <3>2. QED
      BY <3>1
  <2>3. pc = "handle" => fate'[inflight] \in {"queued", "cleared"}
    BY <1>2, <2>1
  <2>4. ~InList(inflight)'
    BY <2>2 DEF InList
  <2>5. QED
    BY <1>2, <2>1, <2>2, <2>3, <2>4
<1>11. ASSUME NEW run \in BOOLEAN, SetRunningState(run) PROVE FramesOnce'
  BY <1>3, <1>11 DEF SetRunningState, WakeFrom
<1>12. CASE QuitStart
  BY <1>3, <1>12 DEF QuitStart, WakeFrom
<1>13. CASE QuitPost \/ Join
  BY <1>13 DEF QuitPost, Join
<1>14. CASE UNCHANGED vars
  BY <1>3, <1>14 DEF vars
<1>15. QED
  BY <1>4, <1>5, <1>6, <1>7, <1>8, <1>9, <1>10, <1>11, <1>12, <1>13, <1>14 DEF Next
-----------------------------------------------------------------------------
(* The invariant holds at first. *)
LEMMA InvInit == Init => Inv
<1> SUFFICES ASSUME Init PROVE Inv
  OBVIOUS
<1>1. queue = <<>> /\ queue \in Seq(Ids \cup {Quit}) /\ 1 .. Len(queue) = {}
  <2>1. queue = <<>> /\ Len(<<>>) = 0
    BY EmptySeq DEF Init
  <2>2. Len(queue) = 0
    BY <2>1, Zenon
  <2>3. QED
    BY <2>1, <2>2
<1>2. TypeOK
  <2>1. nextId \in 1 .. MaxMsgs + 1
    BY LooperAssumption DEF Init
  <2>2. /\ made \in [Posters -> Ids \cup {NoMsg}] /\ repeated \subseteq Ids
        /\ fate \in [Ids -> {"none", "queued", "handled", "cleared", "dropped"}]
    BY DEF Init
  <2>3. QED
    BY <1>1, <2>1, <2>2 DEF Init, TypeOK
<1>3. Handling /\ FrontKept
  BY DEF Init, Handling, FrontKept
<1>4. FramesSorted
  BY <1>1 DEF Init, FramesSorted, NoMsg
<1>5. FramesOnce
  BY <1>1 DEF Init, FramesOnce
<1>6. QED
  BY <1>2, <1>3, <1>4, <1>5 DEF Inv

(* Every step keeps it. *)
LEMMA InvStep == Inv /\ [Next]_vars => Inv'
BY TypeStep, FrontStep, SortedStep, OnceStep DEF Inv

(* The variables have their types, for any number of messages.              *)
THEOREM Typing == Spec => []TypeOK
<1>1. Inv => TypeOK
  BY DEF Inv
<1>2. QED
  BY <1>1, InvInit, InvStep, PTL DEF Spec

(* The front that the loop pops is the message it handled.                  *)
THEOREM PopsItsMessage == Spec => []InFlightStaysFront
<1>1. Inv => InFlightStaysFront
  <2>1. SUFFICES ASSUME Inv, kind = "renderer", pc = "handle", inflight \in Queued, quit # "posted"
                 PROVE  Head(queue) = inflight
    BY DEF InFlightStaysFront
  <2>2. queue \in Seq(Messages) /\ quit \in {"no", "started"}
    BY <2>1 DEF Inv, TypeOK, Handling, Messages
  <2>3. InList(inflight)
    BY <2>1 DEF Queued, InList
  <2>4. queue[1] = inflight
    BY <2>1, <2>2, <2>3 DEF Inv, FramesOnce
  <2>5. queue # <<>>
    <3>1. 1 .. Len(queue) # {}
      BY <2>3 DEF InList
    <3>2. Len(<<>>) = 0
      BY EmptySeq
    <3>3. queue = <<>> => Len(queue) = 0
      BY <3>2, Zenon
    <3>4. QED
      BY <3>1, <3>3
  <2>6. QED
    BY <2>2, <2>4, <2>5, TailFacts
<1>2. QED
  BY <1>1, InvInit, InvStep, PTL DEF Spec

(* A renderer's handler succeeds once for a frame.                          *)
THEOREM Once == Spec => []HandledOnce
<1>1. Inv => HandledOnce
  BY DEF Inv, FramesOnce, HandledOnce
<1>2. QED
  BY <1>1, InvInit, InvStep, PTL DEF Spec

(* The frames of a renderer go in the order they were fed.                  *)
THEOREM InOrder == Spec => FramesInOrder
<1>1. Inv /\ [Next]_vars => [kind = "renderer" => lastTaken' >= lastTaken]_vars
  <2>1. SUFFICES ASSUME Inv, Next, kind = "renderer" PROVE lastTaken' >= lastTaken
    OBVIOUS
  <2>2. lastTaken \in Int
    BY <2>1, IdFacts DEF Inv, TypeOK
  <2>3. CASE TakeFront
    <3>1. queue # <<>> /\ Head(queue) # Quit /\ lastTaken' = Head(queue)
      BY <2>3 DEF TakeFront
    <3>2. queue \in Seq(Messages)
      BY <2>1 DEF Inv, TypeOK, Messages
    <3>3. Head(queue) = queue[1] /\ 1 \in 1 .. Len(queue) /\ Head(queue) \in Messages
      BY <3>1, <3>2, TailFacts
    <3>4. Head(queue) \in Int
      <4>1. Head(queue) \in Nat
        BY <3>3, IdFacts
      <4>2. QED
        BY <4>1
    <3>5. lastTaken <= queue[1]
      BY <2>1, <3>1, <3>3 DEF Inv, FramesSorted
    <3>6. QED
      BY <2>2, <3>1, <3>3, <3>4, <3>5
  <2>4. CASE ~TakeFront
    <3>1. lastTaken' = lastTaken
      BY <2>1, <2>4 DEF Next, history, ParkStopped, ParkEmpty, TakeQuit, HandleSuccess, HandleRetry, Make, Post,
             AppendMsg, ClearAll, SetRunningState, QuitStart, QuitPost, Join
    <3>2. QED
      BY <2>2, <3>1
  <2>5. QED
    BY <2>3, <2>4
<1>2. QED
  BY <1>1, InvInit, InvStep, PTL DEF Spec, FramesInOrder

(* A message is lost only when a client changed the front under a handler.  *)
THEOREM LostByRace == Spec => LossOnlyByRace
<1> DEFINE Step == \A m \in Ids : (fate'[m] = "dropped" /\ fate[m] # "dropped") => disturbed
<1>1. Inv /\ [Next]_vars => [Step]_vars
  <2>1. SUFFICES ASSUME Inv, Next, NEW m \in Ids, fate'[m] = "dropped", fate[m] # "dropped"
                 PROVE  disturbed
    OBVIOUS
  <2>2. HandleSuccess
    <3>1. CASE UNCHANGED fate
      BY <2>1, <3>1
    <3>2. ASSUME NEW p \in Posters, Post(p) PROVE FALSE
      BY <2>1, <3>2 DEF Post, Inv, TypeOK
    <3>3. CASE AppendMsg
      BY <2>1, <3>3 DEF AppendMsg, Inv, TypeOK
    <3>4. CASE ClearAll
      BY <2>1, <3>4 DEF ClearAll
    <3>5. QED
      BY <2>1, <3>1, <3>2, <3>3, <3>4
      DEF Next, history, ParkStopped, ParkEmpty, TakeQuit, TakeFront, HandleRetry, Make, SetRunningState,
          QuitStart, QuitPost, Join
  <2>3. /\ pc = "handle"
        /\ fate' = [k \in Ids |->
                      IF k = inflight THEN IF fate[k] = "cleared" THEN "cleared" ELSE "handled"
                      ELSE IF k = (IF queue = <<>> THEN NoMsg ELSE Head(queue)) /\ fate[k] = "queued"
                           THEN "dropped" ELSE fate[k]]
    BY <2>2 DEF HandleSuccess, Settle
  <2>4. m # inflight /\ m = IF queue = <<>> THEN NoMsg ELSE Head(queue)
    BY <2>1, <2>3
  <2>5. queue # <<>> /\ Head(queue) # inflight
    BY <2>4, IdFacts
  <2>6. QED
    BY <2>1, <2>3, <2>5 DEF Inv, FrontKept, TypeOK
<1>2. QED
  BY <1>1, InvInit, InvStep, PTL DEF Spec, LossOnlyByRace
-----------------------------------------------------------------------------
(* The safety of what StartedLooperDrains and CleanQuitJoins promise: a       *)
(* parked thread has a reason, for who takes it away wakes the thread, and    *)
(* the thread of a looper that was asked to leave is never stopped again.     *)
Parked ==
    /\ pc = "waitQueue" => queue = <<>>
    /\ pc = "waitState" => ~running
    /\ quit # "no" => running /\ \A p \in Posters : made[p] = NoMsg

(* The quit message is in front, and no handler is running.                  *)
QuitInFront == quit = "posted" /\ pc # "handle" /\ queue # <<>> /\ Head(queue) = Quit

(* Every step keeps a parked thread's reason or wakes the thread. *)
LEMMA ParkedStep == TypeOK /\ Parked /\ [Next]_vars => Parked'
<1> SUFFICES ASSUME TypeOK, Parked, [Next]_vars PROVE Parked'
  OBVIOUS
<1> USE DEF Parked, history
<1>1. CASE ParkStopped \/ ParkEmpty \/ TakeQuit \/ TakeFront \/ HandleSuccess \/ HandleRetry
  BY <1>1 DEF ParkStopped, ParkEmpty, TakeQuit, TakeFront, HandleSuccess, HandleRetry
<1>2. ASSUME NEW p \in Posters, Make(p) PROVE Parked'
  BY <1>2 DEF Make
<1>3. ASSUME NEW p \in Posters, Post(p) PROVE Parked'
  BY <1>3 DEF Post, WakeFrom, TypeOK
<1>4. CASE AppendMsg \/ ClearAll
  BY <1>4 DEF AppendMsg, ClearAll, WakeFrom
<1>5. ASSUME NEW run \in BOOLEAN, SetRunningState(run) PROVE Parked'
  BY <1>5 DEF SetRunningState, WakeFrom
<1>6. CASE QuitStart \/ QuitPost \/ Join
  BY <1>6 DEF QuitStart, QuitPost, Join, WakeFrom
<1>7. CASE UNCHANGED vars
  BY <1>7 DEF vars
<1>8. QED
  BY <1>1, <1>2, <1>3, <1>4, <1>5, <1>6, <1>7 DEF Next

(* No wakeup is lost: a thread sleeps on an empty list, or while its looper   *)
(* is stopped, and at no other time (the three notify_one() calls).          *)
THEOREM NoWakeupLost == Spec => []Parked
<1>1. Init => Parked
  BY DEF Init, Parked
<1>2. QED
  BY <1>1, ParkedStep, Typing, PTL DEF Spec

(* Once the quit message is in front and no handler runs, the thread is awake *)
(* and nobody gets ahead of it: the thread can only leave, and its destructor *)
(* only join.                                                                *)
THEOREM QuitStaysNext ==
    Spec => /\ [](QuitInFront => running /\ pc \in {"check", "exited"})
            /\ [][QuitInFront => QuitInFront' \/ quit' = "joined"]_vars
<1>1. TypeOK /\ Parked => (QuitInFront => running /\ pc \in {"check", "exited"})
  BY DEF TypeOK, Parked, QuitInFront
<1>2. TypeOK /\ Parked /\ [Next]_vars => [QuitInFront => QuitInFront' \/ quit' = "joined"]_vars
  <2> SUFFICES ASSUME TypeOK, Parked, Next, QuitInFront PROVE QuitInFront' \/ quit' = "joined"
    OBVIOUS
  <2>1. /\ running /\ pc \in {"check", "exited"} /\ quit = "posted" /\ queue # <<>> /\ Head(queue) = Quit
        /\ \A p \in Posters : made[p] = NoMsg
    BY <1>1 DEF QuitInFront, Parked
  <2>2. TakeQuit \/ Join
    BY <2>1 DEF Next, ParkStopped, ParkEmpty, TakeFront, HandleSuccess, HandleRetry, Make, Post, AppendMsg,
                ClearAll, SetRunningState, QuitStart, QuitPost
  <2>3. QED
    BY <2>1, <2>2 DEF TakeQuit, Join, QuitInFront
<1>3. QED
  BY <1>1, <1>2, NoWakeupLost, Typing, PTL DEF Spec
=============================================================================
