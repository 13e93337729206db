--------------------------- MODULE PtsWrapProofs ---------------------------
(***************************************************************************)
(* Proofs about PtsWrap, for any range of the time stamps, any threshold     *)
(* and any number of frames and flushes.                                    *)
(*                                                                          *)
(* That times are exact and never jump rests on where the one wrap a        *)
(* content can meet lies (Edge): by the assumption it spans less than half  *)
(* the range, so two times are far apart as stamps exactly when the wrap    *)
(* lies between them (Sides). TimesInv says what this makes of each         *)
(* stream's state, up to the step between two accesses its thread is at.    *)
(***************************************************************************)
EXTENDS PtsWrap, TLAPS

(* A number of wraps, each of which counts for max.                         *)
WholeWraps == {k * max : k \in Nat}

(* A base is raised in whole wraps, whichever thread read and wrote it, and  *)
(* whatever flush() did in between.                                         *)
BasesAreWhole ==
    /\ \A s \in Streams : base[s] \in WholeWraps
    /\ \A s \in Streams : pc[s] \in {"bump", "commit"} => read[s] \in WholeWraps
-----------------------------------------------------------------------------
(* The range is a positive number. *)
LEMMA RangeFacts == Wrap \in Nat /\ Wrap > 0 /\ max \in Nat /\ max = Wrap - 1
BY PtsWrapAssumption DEF max

(* A time stamp is within the range, and the wraps before it are counted.   *)
LEMMA StampFacts ==
    ASSUME NEW t \in Nat
    PROVE  t % Wrap \in 0 .. max /\ t \div Wrap \in Nat
BY RangeFacts

(* One more wrap on top of a whole number of them.                          *)
LEMMA OneMore ==
    ASSUME NEW b \in WholeWraps
    PROVE  b + max \in WholeWraps /\ 0 \in WholeWraps
<1>1. PICK k \in Nat : b = k * max
  BY DEF WholeWraps
<1>2. b + max = (k + 1) * max /\ k + 1 \in Nat
  BY <1>1, RangeFacts
<1>3. 0 = 0 * max
  BY RangeFacts
<1>4. QED
  BY <1>2, <1>3 DEF WholeWraps

(* Frames are made at a time, even one that is ahead of its turn.           *)
LEMMA TurnFacts ==
    ASSUME TypeOK, NEW s \in Streams, NEW j \in -Jitter .. Jitter
    PROVE  start[s] + fed[s] + j \in Nat
<1>1. start[s] \in Starts /\ fed[s] \in 0 .. MaxFrames
  BY DEF TypeOK
<1>2. Jitter \in Nat /\ MaxFrames \in Nat /\ Starts \subseteq Nat /\ \A t \in Starts : t >= Jitter
  BY PtsWrapAssumption
<1>3. start[s] \in Nat /\ start[s] >= Jitter /\ fed[s] \in Nat
  <2>1. start[s] \in Nat
    BY <1>1, <1>2
  <2>2. start[s] >= Jitter
    BY <1>1, <1>2, Zenon
  <2>3. fed[s] \in Nat
    BY <1>1
  <2>4. QED
    BY <2>1, <2>2, <2>3
<1>4. j \in Int /\ j >= -Jitter
  BY <1>2
<1>5. QED
  BY <1>2, <1>3, <1>4

(* The variables keep their types. *)
LEMMA TypeStep == TypeOK /\ [Next]_vars => TypeOK'
<1> SUFFICES ASSUME TypeOK, [Next]_vars PROVE TypeOK'
  OBVIOUS
<1> USE PtsWrapAssumption, RangeFacts DEF TypeOK, sharedVars, frameVars, contentVars, NoPts
<1>1. CASE UNCHANGED vars
  BY <1>1 DEF vars
<1>2. CASE Flush
  BY <1>2 DEF Flush, Disturbances
<1>3. ASSUME NEW s \in Streams, NEW j \in -Jitter .. Jitter, Enter(s, start[s] + fed[s] + j)
      PROVE TypeOK'
  <2> DEFINE t == start[s] + fed[s] + j
  <2>1. t \in Nat /\ Wraps(t) \in Nat
    BY TurnFacts, StampFacts DEF Wraps
  <2>2. Meets(s, t) \subseteq Disturbances /\ Smaller(s, t % Wrap) \in Streams
    BY DEF Meets, Disturbances, Smaller, Other, Streams
  <2> HIDE DEF t
  <2>3. Enter(s, t)
    BY <1>3 DEF t
  <2>4. /\ time' \in [Streams -> Nat] /\ first' \in [Streams -> Nat \cup {NoPts}]
        /\ past' \subseteq Disturbances
    BY <2>1, <2>2, <2>3 DEF Enter
  <2>5. fed' \in [Streams -> 0 .. MaxFrames]
    BY <2>3 DEF Enter
  <2>6. /\ target' \in [Streams -> Streams] /\ read' \in [Streams -> Nat]
        /\ pc' \in [Streams -> Steps]
    <3>1. CASE FarApart(s, t % Wrap)
      <4> DEFINE r == Smaller(s, t % Wrap)
      <4>1. r \in Streams /\ base[r] \in Nat
        BY <2>2
      <4>2. /\ target' = [target EXCEPT ![s] = r] /\ read' = [read EXCEPT ![s] = base[r]]
            /\ pc' = [pc EXCEPT ![s] = "bump"]
        BY <2>3, <3>1 DEF Enter
      <4> HIDE DEF r
      <4>3. QED
        BY <4>1, <4>2 DEF Steps
    <3>2. CASE ~FarApart(s, t % Wrap)
      BY <2>3, <3>2 DEF Enter, Steps
    <3>3. QED
      BY <3>1, <3>2
  <2>7. QED
    BY <2>3, <2>4, <2>5, <2>6 DEF Enter
<1>4. ASSUME NEW s \in Streams, Bump(s) \/ Commit(s) PROVE TypeOK'
  <2>1. Pts(s) \in 0 .. max /\ read[s] + max \in Nat
    BY StampFacts DEF Pts
  <2>2. CASE Bump(s)
    BY <2>1, <2>2 DEF Bump, Steps
  <2>3. CASE Commit(s)
    BY <2>1, <2>3 DEF Commit, Steps
  <2>4. QED
    BY <1>4, <2>2, <2>3
<1>5. ASSUME NEW s \in Streams, JudgeDrop(s) PROVE TypeOK'
  BY <1>5 DEF JudgeDrop, Steps
<1>6. ASSUME NEW s \in Streams, JudgeWrap(s) PROVE TypeOK'
  BY <1>6 DEF JudgeWrap, Steps
<1>7. ASSUME NEW s \in Streams, JudgePlain(s) PROVE TypeOK'
  <2>1. Pts(s) \in 0 .. max
    BY StampFacts DEF Pts
  <2>2. QED
    BY <1>7, <2>1 DEF JudgePlain, Steps
<1>8. ASSUME NEW s \in Streams, Return(s) PROVE TypeOK'
  <2>1. Pts(s) + extra[s] + base[s] \in Nat
    BY StampFacts DEF Pts
  <2>2. Micro(Pts(s) + extra[s] + base[s]) \in Int
    BY <2>1 DEF Micro
  <2>3. QED
    BY <1>8, <2>2 DEF Return, Steps
<1>9. QED
  BY <1>1, <1>2, <1>3, <1>4, <1>5, <1>6, <1>7, <1>8 DEF Next, Adjust

(* Bases stay whole. *)
LEMMA BaseStep == TypeOK /\ BasesAreWhole /\ [Next]_vars => BasesAreWhole'
<1> SUFFICES ASSUME TypeOK, BasesAreWhole, [Next]_vars PROVE BasesAreWhole'
  OBVIOUS
<1> USE DEF BasesAreWhole
<1>1. ASSUME UNCHANGED <<base, read>>,
             \A s \in Streams : pc'[s] \in {"bump", "commit"} => pc[s] \in {"bump", "commit"}
      PROVE BasesAreWhole'
  BY <1>1
<1>2. CASE Flush
  <2>1. 0 \in WholeWraps
    BY OneMore DEF Streams
  <2>2. QED
    BY <1>2, <2>1 DEF Flush, frameVars
<1>3. ASSUME NEW s \in Streams, NEW t, Enter(s, t) PROVE BasesAreWhole'
  <2>1. Smaller(s, t % Wrap) \in Streams
    BY DEF Smaller, Other, Streams
  <2>2. base' = base
    BY <1>3 DEF Enter, sharedVars
  <2>3. \A r \in Streams : r # s => read'[r] = read[r] /\ pc'[r] = pc[r]
    BY <1>3 DEF Enter, TypeOK
  <2>4. pc'[s] = "judge" \/ read'[s] = base[Smaller(s, t % Wrap)]
    BY <1>3 DEF Enter, TypeOK
  <2>5. QED
    BY <2>1, <2>2, <2>3, <2>4
<1>4. ASSUME NEW s \in Streams, Bump(s) \/ Commit(s) PROVE BasesAreWhole'
  <2>1. read[s] + max \in WholeWraps
    BY <1>4, OneMore DEF Bump, Commit
  <2>2. /\ \A r \in Streams : base'[r] = base[r] \/ base'[r] = read[s] + max
        /\ read' = read
        /\ \A r \in Streams : pc'[r] \in {"bump", "commit"} => pc[r] \in {"bump", "commit"}
    BY <1>4 DEF Bump, Commit, TypeOK
  <2>3. QED
    BY <2>1, <2>2
<1>5. ASSUME NEW s \in Streams, JudgeDrop(s) \/ JudgePlain(s) PROVE BasesAreWhole'
  BY <1>1, <1>5 DEF JudgeDrop, JudgePlain, TypeOK
<1>6. ASSUME NEW s \in Streams, JudgeWrap(s) PROVE BasesAreWhole'
  BY <1>6 DEF JudgeWrap, TypeOK
<1>7. ASSUME NEW s \in Streams, Return(s) PROVE BasesAreWhole'
  BY <1>7 DEF Return, TypeOK, sharedVars
<1>8. QED
  BY <1>1, <1>2, <1>3, <1>4, <1>5, <1>6, <1>7 DEF Next, Adjust, vars, sharedVars, frameVars

(* Both hold at first. *)
LEMMA InvInit == Init => TypeOK /\ BasesAreWhole
<1> SUFFICES ASSUME Init PROVE TypeOK /\ BasesAreWhole
  OBVIOUS
<1>1. 0 \in WholeWraps
  <2>1. 0 = 0 * max
    BY RangeFacts
  <2>2. QED
    BY <2>1 DEF WholeWraps
<1>2. TypeOK
  BY PtsWrapAssumption, RangeFacts DEF Init, TypeOK, Steps, NoPts
<1>3. QED
  BY <1>1, <1>2 DEF Init, BasesAreWhole
-----------------------------------------------------------------------------
(* The variables have their types: a row of drops is never longer than the  *)
(* threshold, a last time never out of range.                               *)
THEOREM Typing == Spec => []TypeOK
BY InvInit, TypeStep, PTL DEF Spec

(* Bases are whole numbers of wraps, also of the stream whose base the other *)
(* thread raises and when both raise one at once.                           *)
THEOREM WholeBases == Spec => []BasesAreWhole
<1>1. TypeOK /\ BasesAreWhole /\ [Next]_vars => (TypeOK /\ BasesAreWhole)'
  BY TypeStep, BaseStep
<1>2. QED
  BY <1>1, InvInit, PTL DEF Spec
-----------------------------------------------------------------------------
(* What follows is about frames that are not disturbed by a flush() around   *)
(* them or by a frame from before a wrap behind a first frame from after it. *)
Clean == past \cap {"leading", "inFlush"} = {}
Exact == past \cap {"crossedStart", "lateStart"} = {}
Smooth == "rebased" \notin past

(* The times frames of a stream may be made at, and those of its nth frame.  *)
Reach(n) == n - Jitter .. n + MaxFrames - 1 + Jitter
Window(s) == Reach(start[s])
Turn(s, n, t) == start[s] + n - Jitter =< t /\ t =< start[s] + n + Jitter

(* A time in reach of the content, which meets one wrap, the kth, at e.      *)
At(t, k, e) ==
    /\ t \in Nat /\ Wraps(t) \in Nat /\ t % Wrap \in 0 .. max
    /\ \/ t >= e /\ Wraps(t) = k /\ t % Wrap = t - e
       \/ t < e /\ Wraps(t) = k - 1 /\ t % Wrap = t - e + Wrap

Edge(k, e) == \A s \in Streams : \A t \in Window(s) : At(t, k, e)

(* Frames of a stream that were compared with the last one, and returned.    *)
Judged(s) == IF pc[s] \in {"bump", "judge"} THEN fed[s] - 1 ELSE fed[s]
Returned(s) == IF pc[s] = "idle" THEN fed[s] ELSE fed[s] - 1

(* The other thread is about to raise the base of stream s.                  *)
Pending(s) == pc[Other(s)] = "bump" /\ target[Other(s)] = s

(* Where a stream is: before its first frame, with the first one in hand,    *)
(* or past it; a frame in hand was made at its turn, on the side of the      *)
(* first frame or after the wrap.                                           *)
Timeline(s, k) ==
    /\ Begins(s) <=> fed[s] = 0
    /\ Begins(s) => /\ pc[s] = "idle" /\ previous[s] = NoPts
                    /\ base[s] = 0 /\ out[s] = NoPts
    /\ ~Begins(s) => first[s] \in {k - 1, k}
    /\ pc[s] # "idle" => /\ fed[s] >= 1 /\ Turn(s, fed[s] - 1, time[s])
                         /\ first[s] =< Wraps(time[s])
    /\ ~Begins(s) /\ previous[s] = NoPts =>
         /\ pc[s] \in {"bump", "judge"} /\ fed[s] = 1
         /\ Wraps(time[s]) = first[s] /\ out[s] = NoPts
    /\ pc[s] = "bump" => previous[s] = NoPts /\ previous[Other(s)] # NoPts
    /\ pc[s] # "out" => extra[s] = 0

(* The last time of a stream is that of a frame made at v. If the wrap was   *)
(* counted, or met by a first frame, no frame to come is from before it; a   *)
(* row of drops began at the wrap.                                           *)
Counted(s, v, k, e) ==
    /\ previous[s] = v % Wrap /\ first[s] =< Wraps(v)
    /\ Wraps(v) = k /\ first[s] = k - 1 => e =< start[s] + Judged(s) - Jitter
    /\ drops[s] > 0 => Wraps(v) = k - 1 /\ e =< start[s] + Judged(s) - drops[s] + Jitter
    /\ pc[s] = "commit" => /\ read[s] = base[s] /\ drops[s] = 0 /\ Wraps(v) = k - 1
                           /\ Wraps(time[s]) = k /\ e =< start[s] + fed[s] - Jitter
    /\ pc[s] = "out" => \/ Wraps(time[s]) = Wraps(v) /\ extra[s] = 0
                        \/ Wraps(time[s]) = k /\ Wraps(v) = k - 1 /\ extra[s] = max
    /\ Pending(s) => Wraps(v) = k

(* The base of a stream whose last time has w wraps before it.               *)
Fits(s, w) == base[s] = IF ~Pending(s) /\ w > Lowest(s) THEN max ELSE 0

(* What a first frame is about to raise is the base of the stream that is    *)
(* past the wrap, and no base was raised before.                            *)
BumpFits(s, k) ==
    /\ pc[s] = "bump" => /\ read[s] = 0 /\ base[s] = 0
                         /\ \/ target[s] = s /\ first[s] = k /\ first[Other(s)] = k - 1
                            \/ target[s] = Other(s) /\ first[s] = k - 1 /\ first[Other(s)] = k
    /\ previous[s] = NoPts /\ pc[s] = "judge" => Fits(s, first[s])

(* What a frame made at u gets while the last time counted is v.             *)
Lift(u, v) == IF Wraps(u) > Wraps(v) THEN max ELSE IF Wraps(u) < Wraps(v) THEN -max ELSE 0

(* The last time returned is what the last frame would get now.              *)
Steady(s, v) ==
    out[s] # NoPts => \E u \in Window(s) : /\ Turn(s, Returned(s) - 1, u)
                                           /\ out[s] = Micro((u % Wrap) + Lift(u, v) + base[s])

(* What is known of a stream, v being when the frame was made whose time is  *)
(* the last one.                                                            *)
StreamInv(s, k, e) ==
    /\ Timeline(s, k)
    /\ Exact => BumpFits(s, k)
    /\ Smooth => ~Pending(s)
    /\ previous[s] # NoPts =>
         \E v \in Window(s) : /\ Counted(s, v, k, e)
                              /\ Exact => Fits(s, Wraps(v))
                              /\ Smooth => Steady(s, v)

(* The inductive invariant: both streams of an undisturbed content fit the   *)
(* wrap that the content meets.                                             *)
TimesInv ==
    Clean => \E k \in Int, e \in Int : Edge(k, e) /\ \A s \in Streams : StreamInv(s, k, e)
-----------------------------------------------------------------------------
(* A multiple of a larger number is no smaller. *)
LEMMA Multiples ==
    ASSUME NEW w \in Nat, NEW m \in Nat, NEW n \in Nat, m < n
    PROVE  m * w + w =< n * w
<1>1. PICK d \in Nat : n = m + 1 + d
  <2>1. n - m - 1 \in Nat /\ n = m + 1 + (n - m - 1)
    OBVIOUS
  <2>2. QED
    BY <2>1
<1>2. n * w = m * w + w + d * w
  BY <1>1
<1>3. d * w \in Nat /\ m * w \in Nat
  BY <1>1
<1>4. QED
  BY <1>2, <1>3

(* What division is. *)
LEMMA Division ==
    ASSUME NEW t \in Int, NEW w \in Nat, w > 0
    PROVE  t = (t \div w) * w + (t % w)
OBVIOUS

(* The quotient and the remainder of a time between two wraps.              *)
LEMMA Quotient ==
    ASSUME NEW t \in Nat, NEW q \in Nat, q * Wrap =< t, t < q * Wrap + Wrap
    PROVE  t \div Wrap = q /\ t % Wrap = t - q * Wrap
<1> DEFINE d == t \div Wrap
<1>1. d \in Nat /\ t % Wrap \in 0 .. max
  BY StampFacts
<1>2. t = d * Wrap + (t % Wrap)
  BY Division, RangeFacts
<1> HIDE DEF d
<1> DEFINE dw == d * Wrap
           r == t % Wrap
<1>3. d * Wrap =< t /\ t < d * Wrap + Wrap /\ d * Wrap \in Nat /\ q * Wrap \in Nat
  <2>1. dw \in Nat /\ q * Wrap \in Nat
    BY <1>1, RangeFacts
  <2>2. t = dw + r /\ r \in 0 .. max
    BY <1>1, <1>2
  <2> HIDE DEF dw, r
  <2>3. dw =< t /\ t < dw + Wrap
    BY <2>1, <2>2, RangeFacts
  <2>4. QED
    BY <2>1, <2>3 DEF dw
<1>4. ~(d < q)
  <2>1. SUFFICES ASSUME d < q PROVE FALSE
    OBVIOUS
  <2>2. d * Wrap + Wrap =< q * Wrap
    BY <2>1, <1>1, Multiples, RangeFacts
  <2>3. QED
    BY <2>2, <1>3, RangeFacts
<1>5. ~(q < d)
  <2>1. SUFFICES ASSUME q < d PROVE FALSE
    OBVIOUS
  <2>2. q * Wrap + Wrap =< d * Wrap
    BY <2>1, <1>1, Multiples, RangeFacts
  <2>3. QED
    BY <2>2, <1>3, RangeFacts
<1>6. d = q
  BY <1>1, <1>4, <1>5
<1>7. t % Wrap = t - q * Wrap
  <2>1. t = dw + r /\ r \in 0 .. max /\ dw \in Nat
    BY <1>1, <1>2, <1>3
  <2> HIDE DEF dw, r
  <2>2. r = t - dw
    BY <2>1, RangeFacts
  <2>3. QED
    BY <2>2, <1>6 DEF dw, r
<1>8. QED
  BY <1>6, <1>7 DEF d

(* The numbers the assumption is about; half the range is big + 1.          *)
LEMMA Sizes ==
    /\ Wrap \in Nat /\ big \in Int /\ Wrap = 2 * big + 2 /\ max = 2 * big + 1
    /\ Jitter \in Nat /\ MaxFrames \in Nat /\ DropThreshold \in Nat
    /\ 2 * Jitter =< DropThreshold + 1
BY PtsWrapAssumption DEF big, max

(* A content spans less than half the range.                                *)
LEMMA SpreadOf ==
    ASSUME NEW a \in Starts, NEW b \in Starts
    PROVE  a \in Nat /\ b \in Nat /\ a >= Jitter /\ a - b + MaxFrames + 2 * Jitter =< big
<1>1. /\ Starts \subseteq Nat /\ \A t \in Starts : t >= Jitter
      /\ \A t, u \in Starts : t - u + MaxFrames + 2 * Jitter < Wrap \div 2
  BY PtsWrapAssumption
<1>2. a \in Nat /\ b \in Nat
  BY <1>1
<1>3. a >= Jitter
  BY <1>1, Zenon
<1>4. a - b + MaxFrames + 2 * Jitter < Wrap \div 2
  BY <1>1, Zenon
<1>5. Wrap \div 2 = big + 1
  BY Sizes
<1>6. QED
  BY <1>2, <1>3, <1>4, <1>5, Sizes

(* The same of the two streams of a content.                                *)
LEMMA Spread ==
    ASSUME TypeOK, NEW s \in Streams, NEW r \in Streams
    PROVE  /\ start[s] \in Nat /\ start[s] >= Jitter
           /\ start[s] - start[r] + MaxFrames + 2 * Jitter =< big
BY SpreadOf DEF TypeOK

(* Two times of a content are less than half the range apart.               *)
LEMMA CloseBy ==
    ASSUME TypeOK, NEW s \in Streams, NEW r \in Streams, NEW t \in Window(s), NEW u \in Window(r)
    PROVE  t \in Nat /\ u \in Nat /\ t - u < big /\ u - t < big
<1>1. /\ start[s] \in Nat /\ start[s] >= Jitter
      /\ start[s] - start[r] + MaxFrames + 2 * Jitter =< big
  BY Spread
<1>2. /\ start[r] \in Nat /\ start[r] >= Jitter
      /\ start[r] - start[s] + MaxFrames + 2 * Jitter =< big
  BY Spread
<1>3. QED
  BY <1>1, <1>2, Sizes DEF Reach, Window

(* So a content meets one wrap at most.                                     *)
LEMMA EdgeExists ==
    ASSUME NEW starts \in [Streams -> Starts]
    PROVE  \E k \in Int, e \in Int : \A s \in Streams : \A t \in Reach(starts[s]) : At(t, k, e)
<1>1. PICK r \in Streams : \A s \in Streams : starts[r] =< starts[s]
  <2>1. starts["video"] \in Nat /\ starts["audio"] \in Nat
    BY SpreadOf DEF Streams
  <2>2. CASE starts["video"] =< starts["audio"]
    BY <2>1, <2>2 DEF Streams
  <2>3. CASE starts["audio"] =< starts["video"]
    BY <2>1, <2>3 DEF Streams
  <2>4. QED
    BY <2>1, <2>2, <2>3
<1> DEFINE low == starts[r] - Jitter
           q == low \div Wrap
           base0 == q * Wrap
<1>2. low \in Nat
  BY SpreadOf, Sizes
<1> HIDE DEF low
<1>3. q \in Nat /\ low % Wrap \in 0 .. max
  BY <1>2, StampFacts
<1>4. low = base0 + (low % Wrap)
  BY <1>2, Division, RangeFacts
<1> HIDE DEF q
<1>5. base0 \in Nat
  BY <1>3, RangeFacts
<1>6. (q + 1) * Wrap = base0 + Wrap
  BY <1>3, RangeFacts
<1> HIDE DEF base0
<1>7. ASSUME NEW s \in Streams, NEW t \in Reach(starts[s]) PROVE At(t, q + 1, base0 + Wrap)
  <2>1. t \in Nat /\ low =< t /\ t =< low + Wrap
    <3>1. /\ starts[s] \in Nat /\ starts[s] >= Jitter /\ starts[r] \in Nat
          /\ starts[s] - starts[r] + MaxFrames + 2 * Jitter =< big
      BY SpreadOf
    <3>2. QED
      BY <3>1, <1>1, Sizes DEF Reach, low
  <2>2. t \div Wrap \in Nat /\ t % Wrap \in 0 .. max
    BY <2>1, StampFacts
  <2>3. CASE t >= base0 + Wrap
    <3>1. (q + 1) * Wrap =< t /\ t < (q + 1) * Wrap + Wrap
      BY <1>2, <1>3, <1>4, <1>5, <1>6, <2>1, <2>3, RangeFacts
    <3>2. t \div Wrap = q + 1 /\ t % Wrap = t - (q + 1) * Wrap
      BY <1>3, <2>1, <3>1, Quotient
    <3>3. QED
      BY <1>6, <2>1, <2>2, <2>3, <3>2 DEF At, Wraps
  <2>4. CASE ~(t >= base0 + Wrap)
    <3>1. base0 =< t /\ t < base0 + Wrap
      <4> DEFINE rest == low % Wrap
      <4>1. rest \in 0 .. max /\ low = base0 + rest
        BY <1>3, <1>4
      <4> HIDE DEF rest
      <4>2. QED
        BY <1>2, <1>5, <2>1, <2>4, <4>1, RangeFacts
    <3>2. t \div Wrap = q /\ t % Wrap = t - base0
      BY <1>3, <2>1, <3>1, Quotient DEF base0
    <3>3. t \div Wrap = (q + 1) - 1 /\ t % Wrap = t - (base0 + Wrap) + Wrap
      BY <1>3, <1>5, <2>1, <3>2, RangeFacts
    <3>4. QED
      BY <1>5, <2>1, <2>2, <2>4, <3>3, RangeFacts DEF At, Wraps
  <2>5. QED
    BY <2>3, <2>4
<1>8. q + 1 \in Int /\ base0 + Wrap \in Int
  BY <1>3, <1>5, RangeFacts
<1>9. QED
  BY <1>7, <1>8

(* Times on the same side of the wrap are near each other as time stamps,   *)
(* times on different sides are far apart.                                  *)
LEMMA Sides ==
    ASSUME TypeOK, NEW k \in Int, NEW e \in Int, Edge(k, e), NEW s \in Streams, NEW r \in Streams,
           NEW t \in Window(s), NEW u \in Window(r)
    PROVE  /\ Wraps(t) \in {k - 1, k} /\ Wraps(u) \in {k - 1, k}
           /\ t % Wrap \in 0 .. max /\ u % Wrap \in 0 .. max
           /\ Wraps(t) = Wraps(u) =>
                /\ ~((t % Wrap) - (u % Wrap) > big) /\ ~((u % Wrap) - (t % Wrap) > big)
                /\ ~(Gap(t % Wrap, u % Wrap) >= big)
           /\ Wraps(t) = k /\ Wraps(u) = k - 1 =>
                /\ (u % Wrap) - (t % Wrap) > big /\ ~((t % Wrap) - (u % Wrap) > big)
                /\ Gap(t % Wrap, u % Wrap) >= big /\ Gap(u % Wrap, t % Wrap) >= big
                /\ u % Wrap > t % Wrap /\ ~(t % Wrap > u % Wrap)
<1>1. At(t, k, e) /\ At(u, k, e)
  BY DEF Edge
<1>2. t \in Nat /\ u \in Nat /\ t - u < big /\ u - t < big
  BY CloseBy
<1> DEFINE p == t % Wrap
           q == u % Wrap
<1>3. p \in 0 .. max /\ q \in 0 .. max
  BY <1>1 DEF At
<1>4. \/ t >= e /\ Wraps(t) = k /\ p = t - e
      \/ t < e /\ Wraps(t) = k - 1 /\ p = t - e + Wrap
  BY <1>1 DEF At
<1>5. \/ u >= e /\ Wraps(u) = k /\ q = u - e
      \/ u < e /\ Wraps(u) = k - 1 /\ q = u - e + Wrap
  BY <1>1 DEF At
<1> HIDE DEF p, q
<1>6. Wraps(t) \in {k - 1, k} /\ Wraps(u) \in {k - 1, k}
  BY <1>4, <1>5
<1>7. ASSUME Wraps(t) = Wraps(u) PROVE ~(p - q > big) /\ ~(q - p > big) /\ ~(Gap(p, q) >= big)
  BY <1>2, <1>3, <1>4, <1>5, <1>7, Sizes DEF Gap
<1>8. ASSUME Wraps(t) = k, Wraps(u) = k - 1
      PROVE  /\ q - p > big /\ ~(p - q > big) /\ Gap(p, q) >= big /\ Gap(q, p) >= big
             /\ q > p /\ ~(p > q)
  BY <1>2, <1>3, <1>4, <1>5, <1>8, Sizes DEF Gap
<1>9. QED
  BY <1>3, <1>6, <1>7, <1>8, Zenon DEF p, q
-----------------------------------------------------------------------------
(* There are two streams, the other of each other. *)
LEMMA TwoStreams ==
    ASSUME NEW s \in Streams
    PROVE  /\ Other(s) \in Streams /\ Other(s) # s /\ Other(Other(s)) = s
           /\ \A r \in Streams : r = s \/ r = Other(s)
BY DEF Streams, Other

(* A frame in a thread's hand was made at a time of its stream.             *)
LEMMA InHand ==
    ASSUME TypeOK, NEW s \in Streams, NEW k \in Int, Timeline(s, k), pc[s] # "idle"
    PROVE  /\ time[s] \in Window(s) /\ ~Begins(s) /\ first[s] \in {k - 1, k} /\ first[s] =< Wraps(time[s])
           /\ time[s] >= start[s] + fed[s] - 1 - Jitter /\ time[s] =< start[s] + fed[s] - 1 + Jitter
<1>1. /\ fed[s] >= 1 /\ Turn(s, fed[s] - 1, time[s]) /\ first[s] =< Wraps(time[s])
  BY DEF Timeline
<1>2. fed[s] \in 0 .. MaxFrames /\ time[s] \in Nat /\ start[s] \in Nat
  BY Spread DEF TypeOK
<1>3. ~Begins(s) /\ first[s] \in {k - 1, k}
  BY <1>1, <1>2 DEF Timeline
<1>4. QED
  BY <1>1, <1>2, <1>3, Sizes DEF Turn, Reach, Window

(* What a time compared with the last one tells.                            *)
LEMMA Compared ==
    ASSUME TypeOK, NEW s \in Streams, NEW k \in Int, NEW e \in Int, Edge(k, e), Timeline(s, k), pc[s] = "judge",
           NEW v \in Window(s), Counted(s, v, k, e)
    PROVE  /\ Wraps(time[s]) \in {k - 1, k} /\ Wraps(v) \in {k - 1, k}
           /\ Fallen(s) => Wraps(v) = k - 1 /\ Wraps(time[s]) = k
           /\ ~Fallen(s) => Wraps(time[s]) = Wraps(v)
<1> PICK t : t = time[s]
  OBVIOUS
<1>1. t \in Window(s) /\ first[s] \in {k - 1, k} /\ first[s] =< Wraps(t) /\ t >= start[s] + fed[s] - 1 - Jitter
  BY InHand
<1>2. /\ Wraps(t) \in {k - 1, k} /\ Wraps(v) \in {k - 1, k}
      /\ Wraps(t) = Wraps(v) => ~((v % Wrap) - (t % Wrap) > big)
      /\ Wraps(t) = k /\ Wraps(v) = k - 1 => (v % Wrap) - (t % Wrap) > big
  BY <1>1, Sides
<1>3. /\ previous[s] = v % Wrap /\ first[s] =< Wraps(v)
      /\ Wraps(v) = k /\ first[s] = k - 1 => e =< start[s] + fed[s] - 1 - Jitter
  BY DEF Counted, Judged
<1>4. Fallen(s) <=> (v % Wrap) - (t % Wrap) > big
  BY <1>3 DEF Fallen, Pts
<1>5. ~(Wraps(v) = k /\ Wraps(t) = k - 1)
  <2>1. SUFFICES ASSUME Wraps(v) = k, Wraps(t) = k - 1 PROVE FALSE
    OBVIOUS
  <2>2. e =< t
    <3>1. e =< start[s] + fed[s] - 1 - Jitter
      BY <1>1, <1>3, <2>1
    <3>2. start[s] \in Nat /\ fed[s] \in Nat /\ t \in Nat
      BY Spread, Sizes DEF TypeOK
    <3>3. QED
      BY <1>1, <3>1, <3>2, Sizes
  <2>3. At(t, k, e)
    BY <1>1 DEF Edge
  <2>4. QED
    BY <2>1, <2>2, <2>3 DEF At
<1>6. QED
  BY <1>2, <1>4, <1>5

(* What belongs to stream s is left alone.                                  *)
Untouched(s) ==
    /\ base'[s] = base[s] /\ previous'[s] = previous[s] /\ drops'[s] = drops[s]
    /\ pc'[s] = pc[s] /\ time'[s] = time[s] /\ target'[s] = target[s] /\ read'[s] = read[s]
    /\ extra'[s] = extra[s] /\ out'[s] = out[s] /\ fed'[s] = fed[s] /\ first'[s] = first[s]
    /\ start' = start

(* It stays as it is while the other thread does not deal with its base.    *)
LEMMA OtherKept ==
    ASSUME NEW s \in Streams, NEW k \in Int, NEW e \in Int, StreamInv(s, k, e), Untouched(s),
           past \subseteq past', ~Pending(s), ~Pending(s)',
           ~Begins(s) /\ Exact' => Lowest(s)' = Lowest(s),
           pc[s] = "bump" => first'[Other(s)] = first[Other(s)],
           previous[Other(s)] # NoPts => previous'[Other(s)] # NoPts
    PROVE  StreamInv(s, k, e)'
<1>1. Timeline(s, k)'
  BY DEF StreamInv, Timeline, Untouched, Begins, Turn
<1>2. (Exact' => Exact) /\ (Smooth' => Smooth)
  BY DEF Exact, Smooth
<1>3. Begins(s) => previous[s] = NoPts /\ pc[s] = "idle"
  BY DEF StreamInv, Timeline
<1>4. (Exact => BumpFits(s, k))'
  <2> SUFFICES ASSUME Exact' PROVE BumpFits(s, k)'
    OBVIOUS
  <2>1. BumpFits(s, k)
    BY <1>2 DEF StreamInv
  <2>2. previous[s] = NoPts /\ pc[s] = "judge" => Fits(s, first[s])'
    BY <1>3, <2>1 DEF BumpFits, Fits, Untouched
  <2>3. QED
    BY <2>1, <2>2 DEF BumpFits, Untouched
<1>5. ASSUME previous'[s] # NoPts
      PROVE  \E v \in Window(s)' : /\ Counted(s, v, k, e)'
                                   /\ (Exact => Fits(s, Wraps(v)))'
                                   /\ (Smooth => Steady(s, v))'
  <2>1. PICK v \in Window(s) : /\ Counted(s, v, k, e)
                               /\ Exact => Fits(s, Wraps(v))
                               /\ Smooth => Steady(s, v)
    BY <1>5 DEF StreamInv, Untouched
  <2>2. v \in Window(s)'
    BY DEF Window, Untouched
  <2>3. Counted(s, v, k, e)'
    BY <2>1 DEF Counted, Judged, Untouched
  <2>4. (Exact => Fits(s, Wraps(v)))'
    BY <1>2, <1>3, <1>5, <2>1 DEF Fits, Untouched
  <2>5. (Smooth => Steady(s, v))'
    BY <1>2, <2>1 DEF Steady, Window, Turn, Returned, Untouched
  <2>6. QED
    BY <2>2, <2>3, <2>4, <2>5
<1>6. QED
  BY <1>1, <1>4, <1>5 DEF StreamInv

(* A step that raises no base, meets no first frame and disturbs nothing.    *)
LEMMA PlainOther ==
    ASSUME NEW s \in Streams, NEW k \in Int, NEW e \in Int, StreamInv(Other(s), k, e), Untouched(Other(s)),
           past' = past, first' = first, pc[s] # "bump", pc'[s] # "bump", previous'[s] \in 0 .. max
    PROVE  StreamInv(Other(s), k, e)'
<1> DEFINE o == Other(s)
<1>1. o \in Streams /\ Other(o) = s
  BY TwoStreams
<1> HIDE DEF o
<1>2. ~Pending(o) /\ ~Pending(o)'
  BY <1>1 DEF Pending
<1>3. Lowest(o)' = Lowest(o)
  BY DEF Lowest, Begins
<1>4. previous'[s] # NoPts
  BY RangeFacts DEF NoPts
<1>5. StreamInv(o, k, e) /\ Untouched(o)
  BY DEF o
<1>6. StreamInv(o, k, e)'
  BY <1>1, <1>2, <1>3, <1>4, <1>5, OtherKept
<1>7. QED
  BY <1>6 DEF o

(* A time that did not fall back becomes the last one, on its side.          *)
LEMMA PlainKeeps ==
    ASSUME TypeOK, NEW s \in Streams, NEW k \in Int, NEW e \in Int, Edge(k, e),
           \A r \in Streams : StreamInv(r, k, e), JudgePlain(s)
    PROVE  \A r \in Streams : StreamInv(r, k, e)'
<1> DEFINE o == Other(s)
<1> PICK t : t = time[s]
  OBVIOUS
<1>1. o \in Streams /\ o # s /\ Other(o) = s
  BY TwoStreams
<1>2. StreamInv(s, k, e) /\ StreamInv(o, k, e)
  BY <1>1
<1>3. /\ pc[s] = "judge" /\ ~Fallen(s) /\ drops'[s] = 0 /\ previous'[s] = Pts(s) /\ pc'[s] = "out"
      /\ UNCHANGED <<base, time, target, read, extra, out, start, fed, first, past>>
      /\ pc'[o] = pc[o] /\ previous'[o] = previous[o] /\ drops'[o] = drops[o]
  BY <1>1 DEF JudgePlain, TypeOK, contentVars
<1>4. /\ t \in Window(s) /\ ~Begins(s) /\ first[s] \in {k - 1, k} /\ first[s] =< Wraps(t)
      /\ Timeline(s, k)
  BY <1>2, <1>3, InHand DEF StreamInv
<1>5. Pts(s) = t % Wrap /\ Pts(s) \in 0 .. max /\ Pts(s) # NoPts
  BY RangeFacts, StampFacts DEF Pts, NoPts, TypeOK
<1>6. StreamInv(o, k, e)'
  BY <1>2, <1>3, <1>5, PlainOther DEF Untouched
<1>7. Timeline(s, k)'
  BY <1>1, <1>3, <1>4, <1>5 DEF Timeline, Begins, Turn
<1>8. Pending(s)' = Pending(s) /\ Lowest(s)' = Lowest(s) /\ Returned(s)' = Returned(s)
  BY <1>1, <1>3 DEF Pending, Lowest, Begins, Returned
<1>9. (Exact => BumpFits(s, k))'
  BY <1>3, <1>5 DEF BumpFits
<1>10. (Smooth => ~Pending(s))'
  BY <1>2, <1>3, <1>8 DEF StreamInv, Smooth
<1>11. /\ Counted(s, t, k, e)'
       /\ (Exact => Fits(s, Wraps(t)))'
       /\ (Smooth => Steady(s, t))'
  <2>1. CASE previous[s] = NoPts
    <3>1. Wraps(t) = first[s] /\ out[s] = NoPts
      BY <1>3, <1>4, <2>1 DEF Timeline
    <3>2. ~Pending(s)
      BY <1>1, <1>2, <2>1 DEF Pending, StreamInv, Timeline
    <3>3. Counted(s, t, k, e)'
      BY <1>3, <1>4, <1>5, <1>8, <3>1, <3>2 DEF Counted, Judged, Timeline
    <3>4. (Exact => Fits(s, Wraps(t)))'
      BY <1>2, <1>3, <1>8, <2>1, <3>1 DEF Fits, StreamInv, BumpFits, Exact
    <3>5. Steady(s, t)'
      BY <1>3, <3>1 DEF Steady
    <3>6. QED
      BY <3>3, <3>4, <3>5
  <2>2. CASE previous[s] # NoPts
    <3>1. PICK v \in Window(s) : /\ Counted(s, v, k, e)
                                 /\ Exact => Fits(s, Wraps(v))
                                 /\ Smooth => Steady(s, v)
      BY <1>2, <2>2 DEF StreamInv
    <3>2. Wraps(t) = Wraps(v)
      BY <1>3, <1>4, <3>1, Compared
    <3>3. Counted(s, t, k, e)'
      <4>1. Wraps(v) = k /\ first[s] = k - 1 => e =< start[s] + fed[s] - Jitter
        <5>1. Wraps(v) = k /\ first[s] = k - 1 => e =< start[s] + fed[s] - 1 - Jitter
          BY <1>3, <3>1 DEF Counted, Judged
        <5>2. start[s] \in Nat /\ fed[s] \in Nat
          BY Spread, Sizes DEF TypeOK
        <5>3. QED
          BY <5>1, <5>2, Sizes
      <4>2. Pending(s) => Wraps(v) = k
        BY <3>1 DEF Counted
      <4>3. QED
        BY <1>3, <1>4, <1>5, <1>8, <3>2, <4>1, <4>2 DEF Counted, Judged, Timeline
    <3>4. (Exact => Fits(s, Wraps(t)))'
      BY <1>3, <1>8, <3>1, <3>2 DEF Fits, Exact
    <3>5. (Smooth => Steady(s, t))'
      BY <1>3, <1>8, <3>1, <3>2 DEF Steady, Smooth, Lift, Turn, Window
    <3>6. QED
      BY <3>3, <3>4, <3>5
  <2>3. QED
    BY <2>1, <2>2
<1>12. t \in Window(s)'
  BY <1>3, <1>4 DEF Window
<1>13. StreamInv(s, k, e)'
  <2>1. \E v \in Window(s)' : /\ Counted(s, v, k, e)'
                               /\ (Exact => Fits(s, Wraps(v)))'
                               /\ (Smooth => Steady(s, v))'
    BY <1>11, <1>12
  <2>2. QED
    BY <1>7, <1>9, <1>10, <2>1 DEF StreamInv
<1>14. QED
  BY <1>1, <1>6, <1>13, TwoStreams

(* Before the first time of a stream is kept, no time is a fallen one.      *)
LEMMA FallsFromOne ==
    ASSUME TypeOK, NEW s \in Streams, Fallen(s)
    PROVE  previous[s] # NoPts
<1>1. Pts(s) \in 0 .. max
  BY StampFacts DEF Pts, TypeOK
<1>2. QED
  BY <1>1, Sizes DEF Fallen, NoPts

(* One that did lengthens the row of drops, and gets the wrap on top.        *)
LEMMA DropKeeps ==
    ASSUME TypeOK, NEW s \in Streams, NEW k \in Int, NEW e \in Int, Edge(k, e),
           \A r \in Streams : StreamInv(r, k, e), JudgeDrop(s)
    PROVE  \A r \in Streams : StreamInv(r, k, e)'
<1> DEFINE o == Other(s)
<1> PICK t : t = time[s]
  OBVIOUS
<1>1. o \in Streams /\ o # s /\ Other(o) = s
  BY TwoStreams
<1>2. StreamInv(s, k, e) /\ StreamInv(o, k, e)
  BY <1>1
<1>3. /\ pc[s] = "judge" /\ Fallen(s) /\ drops'[s] = drops[s] + 1 /\ extra'[s] = max /\ pc'[s] = "out"
      /\ UNCHANGED <<base, previous, time, target, read, out, start, fed, first, past>>
      /\ pc'[o] = pc[o] /\ extra'[o] = extra[o] /\ drops'[o] = drops[o]
  BY <1>1 DEF JudgeDrop, TypeOK, contentVars
<1>4. /\ t \in Window(s) /\ ~Begins(s) /\ first[s] =< Wraps(t) /\ t =< start[s] + fed[s] - 1 + Jitter
      /\ Timeline(s, k) /\ previous[s] # NoPts /\ previous[s] \in 0 .. max
  BY <1>2, <1>3, InHand, FallsFromOne DEF StreamInv, TypeOK, NoPts
<1>5. PICK v \in Window(s) : /\ Counted(s, v, k, e)
                             /\ Exact => Fits(s, Wraps(v))
                             /\ Smooth => Steady(s, v)
  BY <1>2, <1>4 DEF StreamInv
<1>6. StreamInv(o, k, e)'
  BY <1>2, <1>3, <1>4, PlainOther DEF Untouched
<1>7. /\ Wraps(v) = k - 1 /\ Wraps(t) = k /\ e =< t
      /\ Pending(s)' = Pending(s) /\ Lowest(s)' = Lowest(s) /\ Returned(s)' = Returned(s)
  <2>1. Wraps(v) = k - 1 /\ Wraps(t) = k
    BY <1>3, <1>4, <1>5, Compared
  <2>2. At(t, k, e)
    BY <1>4 DEF Edge
  <2>3. QED
    BY <1>1, <1>3, <2>1, <2>2 DEF Pending, Lowest, Begins, Returned, At
<1>8. Timeline(s, k)'
  BY <1>1, <1>3, <1>4 DEF Timeline, Begins, Turn
<1>9. (Exact => BumpFits(s, k))'
  BY <1>3 DEF BumpFits
<1>10. (Smooth => ~Pending(s))'
  BY <1>2, <1>3, <1>7 DEF StreamInv, Smooth
<1>11. /\ v \in Window(s)'
       /\ Counted(s, v, k, e)'
       /\ (Exact => Fits(s, Wraps(v)))'
       /\ (Smooth => Steady(s, v))'
  <2>1. e =< start[s] + fed[s] - (drops[s] + 1) + Jitter
    <3>1. start[s] \in Nat /\ fed[s] \in Nat /\ drops[s] \in Nat /\ t \in Nat
      BY <1>4, CloseBy, Spread, Sizes DEF TypeOK
    <3>2. drops[s] > 0 => e =< start[s] + (fed[s] - 1) - drops[s] + Jitter
      BY <1>3, <1>5 DEF Counted, Judged
    <3>3. QED
      BY <1>4, <1>7, <3>1, <3>2, Sizes
  <2>2. Counted(s, v, k, e)'
    BY <1>3, <1>5, <1>7, <2>1 DEF Counted, Judged
  <2>3. (Exact => Fits(s, Wraps(v)))'
    BY <1>3, <1>5, <1>7 DEF Fits, Exact
  <2>4. (Smooth => Steady(s, v))'
    BY <1>3, <1>5, <1>7 DEF Steady, Smooth, Turn, Window
  <2>5. v \in Window(s)'
    BY <1>3 DEF Window
  <2>6. QED
    BY <2>2, <2>3, <2>4, <2>5
<1>12. StreamInv(s, k, e)'
  <2>1. \E w \in Window(s)' : /\ Counted(s, w, k, e)'
                               /\ (Exact => Fits(s, Wraps(w)))'
                               /\ (Smooth => Steady(s, w))'
    BY <1>11
  <2>2. QED
    BY <1>8, <1>9, <1>10, <2>1 DEF StreamInv
<1>13. QED
  BY <1>1, <1>6, <1>12, TwoStreams

(* The drop after the threshold: every frame to come is from after the wrap, *)
(* for the first of the row was, and frames are out of order by less.        *)
LEMMA WrapKeeps ==
    ASSUME TypeOK, NEW s \in Streams, NEW k \in Int, NEW e \in Int, Edge(k, e),
           \A r \in Streams : StreamInv(r, k, e), JudgeWrap(s)
    PROVE  \A r \in Streams : StreamInv(r, k, e)'
<1> DEFINE o == Other(s)
<1> PICK t : t = time[s]
  OBVIOUS
<1>1. o \in Streams /\ o # s /\ Other(o) = s
  BY TwoStreams
<1>2. StreamInv(s, k, e) /\ StreamInv(o, k, e)
  BY <1>1
<1>3. /\ pc[s] = "judge" /\ Fallen(s) /\ drops[s] >= DropThreshold /\ drops'[s] = 0
      /\ read'[s] = base[s] /\ pc'[s] = "commit"
      /\ UNCHANGED <<base, previous, time, target, extra, out, start, fed, first, past>>
      /\ pc'[o] = pc[o] /\ read'[o] = read[o] /\ drops'[o] = drops[o]
  BY <1>1 DEF JudgeWrap, TypeOK, contentVars
<1>4. /\ t \in Window(s) /\ ~Begins(s) /\ first[s] =< Wraps(t) /\ t =< start[s] + fed[s] - 1 + Jitter
      /\ Timeline(s, k) /\ previous[s] # NoPts /\ previous[s] \in 0 .. max
  BY <1>2, <1>3, InHand, FallsFromOne DEF StreamInv, TypeOK, NoPts
<1>5. PICK v \in Window(s) : /\ Counted(s, v, k, e)
                             /\ Exact => Fits(s, Wraps(v))
                             /\ Smooth => Steady(s, v)
  BY <1>2, <1>4 DEF StreamInv
<1>6. StreamInv(o, k, e)'
  BY <1>2, <1>3, <1>4, PlainOther DEF Untouched
<1>7. /\ Wraps(v) = k - 1 /\ Wraps(t) = k /\ e =< t
      /\ Pending(s)' = Pending(s) /\ Lowest(s)' = Lowest(s) /\ Returned(s)' = Returned(s)
  <2>1. Wraps(v) = k - 1 /\ Wraps(t) = k
    BY <1>3, <1>4, <1>5, Compared
  <2>2. At(t, k, e)
    BY <1>4 DEF Edge
  <2>3. QED
    BY <1>1, <1>3, <2>1, <2>2 DEF Pending, Lowest, Begins, Returned, At
<1>8. Timeline(s, k)'
  BY <1>1, <1>3, <1>4 DEF Timeline, Begins, Turn
<1>9. (Exact => BumpFits(s, k))'
  BY <1>3 DEF BumpFits
<1>10. (Smooth => ~Pending(s))'
  BY <1>2, <1>3, <1>7 DEF StreamInv, Smooth
<1>11. /\ v \in Window(s)'
       /\ Counted(s, v, k, e)'
       /\ (Exact => Fits(s, Wraps(v)))'
       /\ (Smooth => Steady(s, v))'
  <2>1. e =< start[s] + fed[s] - Jitter
    <3>1. start[s] \in Nat /\ fed[s] \in Nat /\ drops[s] \in 0 .. DropThreshold /\ t \in Nat
      BY <1>4, CloseBy, Spread, Sizes DEF TypeOK
    <3>2. drops[s] > 0 => e =< start[s] + (fed[s] - 1) - drops[s] + Jitter
      BY <1>3, <1>5 DEF Counted, Judged
    <3>3. QED
      BY <1>3, <1>4, <1>7, <3>1, <3>2, Sizes
  <2>2. Counted(s, v, k, e)'
    BY <1>3, <1>5, <1>7, <2>1 DEF Counted, Judged
  <2>3. (Exact => Fits(s, Wraps(v)))'
    BY <1>3, <1>5, <1>7 DEF Fits, Exact
  <2>4. (Smooth => Steady(s, v))'
    BY <1>3, <1>5, <1>7 DEF Steady, Smooth, Turn, Window
  <2>5. v \in Window(s)'
    BY <1>3 DEF Window
  <2>6. QED
    BY <2>2, <2>3, <2>4, <2>5
<1>12. StreamInv(s, k, e)'
  <2>1. \E w \in Window(s)' : /\ Counted(s, w, k, e)'
                               /\ (Exact => Fits(s, Wraps(w)))'
                               /\ (Smooth => Steady(s, w))'
    BY <1>11
  <2>2. QED
    BY <1>8, <1>9, <1>10, <2>1 DEF StreamInv
<1>13. QED
  BY <1>1, <1>6, <1>12, TwoStreams

(* The frame that counts a wrap: base and last time move over it together.   *)
LEMMA CommitKeeps ==
    ASSUME TypeOK, NEW s \in Streams, NEW k \in Int, NEW e \in Int, Edge(k, e),
           \A r \in Streams : StreamInv(r, k, e), Commit(s)
    PROVE  \A r \in Streams : StreamInv(r, k, e)'
<1> DEFINE o == Other(s)
<1> PICK t : t = time[s]
  OBVIOUS
<1>1. o \in Streams /\ o # s /\ Other(o) = s
  BY TwoStreams
<1>2. StreamInv(s, k, e) /\ StreamInv(o, k, e)
  BY <1>1
<1>3. /\ pc[s] = "commit" /\ base'[s] = read[s] + max /\ previous'[s] = t % Wrap /\ pc'[s] = "out"
      /\ UNCHANGED <<drops, time, target, read, extra, out, start, fed, first, past>>
      /\ pc'[o] = pc[o] /\ base'[o] = base[o] /\ previous'[o] = previous[o]
  BY <1>1 DEF Commit, TypeOK, contentVars, Pts
<1>4. /\ t \in Window(s) /\ ~Begins(s) /\ first[s] =< Wraps(t) /\ first[s] \in {k - 1, k}
      /\ Timeline(s, k) /\ previous[s] # NoPts /\ extra[s] = 0
      /\ t % Wrap \in 0 .. max /\ t % Wrap # NoPts
  <2>1. t % Wrap \in 0 .. max
    BY StampFacts DEF TypeOK
  <2>2. Timeline(s, k)
    BY <1>2 DEF StreamInv
  <2>3. t \in Window(s) /\ ~Begins(s) /\ first[s] =< Wraps(t) /\ first[s] \in {k - 1, k}
    BY <1>3, <2>2, InHand
  <2>4. previous[s] # NoPts /\ extra[s] = 0
    BY <1>3, <2>2, <2>3 DEF Timeline
  <2>5. QED
    BY <2>1, <2>2, <2>3, <2>4, RangeFacts DEF NoPts
<1>5. PICK v \in Window(s) : /\ Counted(s, v, k, e)
                             /\ Exact => Fits(s, Wraps(v))
                             /\ Smooth => Steady(s, v)
  BY <1>2, <1>4 DEF StreamInv
<1>6. StreamInv(o, k, e)'
  BY <1>2, <1>3, <1>4, PlainOther DEF Untouched
<1>7. /\ Wraps(v) = k - 1 /\ Wraps(t) = k /\ base'[s] = base[s] + max /\ e =< start[s] + fed[s] - Jitter
      /\ first[s] = k - 1 /\ drops[s] = 0
      /\ ~Pending(s) /\ Pending(s)' = Pending(s) /\ Lowest(s)' = Lowest(s) /\ Returned(s)' = Returned(s)
  <2>1. /\ Wraps(v) = k - 1 /\ Wraps(t) = k /\ read[s] = base[s] /\ e =< start[s] + fed[s] - Jitter
        /\ drops[s] = 0 /\ first[s] =< k - 1
    BY <1>3, <1>5 DEF Counted
  <2>2. ~Pending(s)
    BY <1>5, <2>1 DEF Counted
  <2>3. Pending(s)' = Pending(s) /\ Lowest(s)' = Lowest(s) /\ Returned(s)' = Returned(s)
    BY <1>1, <1>3 DEF Pending, Lowest, Begins, Returned
  <2>4. QED
    BY <1>3, <1>4, <2>1, <2>2, <2>3
<1>8. Timeline(s, k)'
  BY <1>1, <1>3, <1>4 DEF Timeline, Begins, Turn
<1>9. (Exact => BumpFits(s, k))'
  BY <1>3, <1>4 DEF BumpFits
<1>10. (Smooth => ~Pending(s))'
  BY <1>7
<1>11. /\ t \in Window(s)'
       /\ Counted(s, t, k, e)'
       /\ (Exact => Fits(s, Wraps(t)))'
       /\ (Smooth => Steady(s, t))'
  <2>1. t \in Window(s)'
    BY <1>3, <1>4 DEF Window
  <2>2. Counted(s, t, k, e)'
    BY <1>3, <1>4, <1>7 DEF Counted, Judged
  <2>3. (Exact => Fits(s, Wraps(t)))'
    <3>1. ASSUME Exact PROVE base[s] = 0 /\ Lowest(s) = k - 1
      <4>1. Lowest(s) = k - 1
        <5>1. ~Begins(o) => first[o] \in {k - 1, k}
          BY <1>2 DEF StreamInv, Timeline
        <5>2. QED
          BY <1>7, <5>1 DEF Lowest
      <4>2. base[s] = 0
        BY <1>5, <1>7, <3>1, <4>1 DEF Fits
      <4>3. QED
        BY <4>1, <4>2
    <3>2. QED
      BY <1>3, <1>7, <3>1, Sizes DEF Fits, Exact
  <2>4. (Smooth => Steady(s, t))'
    <3> SUFFICES ASSUME Smooth, out[s] # NoPts
                 PROVE  \E u \in Window(s)' : /\ Turn(s, Returned(s) - 1, u)'
                                              /\ out[s] = Micro((u % Wrap) + Lift(u, t) + base'[s])
      BY <1>3 DEF Smooth, Steady
    <3>1. PICK u \in Window(s) : /\ Turn(s, Returned(s) - 1, u)
                                 /\ out[s] = Micro((u % Wrap) + Lift(u, v) + base[s])
      BY <1>5 DEF Steady
    <3>2. Wraps(u) \in {k - 1, k} /\ u % Wrap \in 0 .. max
      BY <1>4, Sides
    <3>3. Lift(u, v) = Lift(u, t) + max
      BY <1>7, <3>2, Sizes DEF Lift
    <3>4. (u % Wrap) + Lift(u, v) + base[s] = (u % Wrap) + Lift(u, t) + base'[s]
      <4>1. Lift(u, t) \in Int /\ base[s] \in Nat
        BY Sizes DEF Lift, TypeOK
      <4>2. QED
        BY <1>7, <3>2, <3>3, <4>1, Sizes
    <3>5. Turn(s, Returned(s) - 1, u)' /\ u \in Window(s)'
      BY <1>3, <1>7, <3>1 DEF Turn, Window
    <3>6. QED
      BY <3>1, <3>4, <3>5
  <2>5. QED
    BY <2>1, <2>2, <2>3, <2>4
<1>12. StreamInv(s, k, e)'
  <2>1. \E w \in Window(s)' : /\ Counted(s, w, k, e)'
                               /\ (Exact => Fits(s, Wraps(w)))'
                               /\ (Smooth => Steady(s, w))'
    BY <1>11
  <2>2. QED
    BY <1>8, <1>9, <1>10, <2>1 DEF StreamInv
<1>13. QED
  BY <1>1, <1>6, <1>12, TwoStreams

(* What a frame gets on top is what it has over the last time counted.       *)
LEMMA ReturnGets ==
    ASSUME TypeOK, NEW s \in Streams, NEW k \in Int, NEW e \in Int, Edge(k, e), Timeline(s, k),
           pc[s] = "out", NEW v \in Window(s), Counted(s, v, k, e)
    PROVE  /\ time[s] \in Window(s) /\ Wraps(v) \in {k - 1, k} /\ Wraps(time[s]) \in {k - 1, k}
           /\ extra[s] = Lift(time[s], v)
           /\ Pts(s) + extra[s] + base[s] = (time[s] % Wrap) + Lift(time[s], v) + base[s]
<1> PICK t : t = time[s]
  OBVIOUS
<1>1. t \in Window(s)
  BY InHand
<1>2. Wraps(v) \in {k - 1, k} /\ Wraps(t) \in {k - 1, k}
  BY <1>1, Sides
<1>3. \/ Wraps(t) = Wraps(v) /\ extra[s] = 0
      \/ Wraps(t) = k /\ Wraps(v) = k - 1 /\ extra[s] = max
  BY DEF Counted
<1>4. extra[s] = Lift(t, v)
  BY <1>2, <1>3 DEF Lift
<1>5. QED
  BY <1>1, <1>2, <1>4 DEF Pts

(* The time returned is within the disorder of its turn. *)
LEMMA ReturnKeeps ==
    ASSUME TypeOK, NEW s \in Streams, NEW k \in Int, NEW e \in Int, Edge(k, e),
           \A r \in Streams : StreamInv(r, k, e), Return(s)
    PROVE  \A r \in Streams : StreamInv(r, k, e)'
<1> DEFINE o == Other(s)
<1> PICK t : t = time[s]
  OBVIOUS
<1>1. o \in Streams /\ o # s /\ Other(o) = s
  BY TwoStreams
<1>2. StreamInv(s, k, e) /\ StreamInv(o, k, e)
  BY <1>1
<1>3. /\ pc[s] = "out" /\ pc'[s] = "idle" /\ out'[s] = Micro(Pts(s) + extra[s] + base[s]) /\ extra'[s] = 0
      /\ UNCHANGED <<base, previous, drops, start, fed, first, past>>
      /\ pc'[o] = pc[o] /\ out'[o] = out[o] /\ extra'[o] = extra[o] /\ read'[o] = read[o]
      /\ target'[o] = target[o] /\ time'[o] = time[o]
  BY <1>1 DEF Return, TypeOK, contentVars, sharedVars
<1>4. /\ t \in Window(s) /\ ~Begins(s) /\ Turn(s, fed[s] - 1, t)
      /\ Timeline(s, k) /\ previous[s] # NoPts /\ previous[s] \in 0 .. max
  <2>1. Timeline(s, k)
    BY <1>2 DEF StreamInv
  <2>2. t \in Window(s) /\ ~Begins(s)
    BY <1>3, <2>1, InHand
  <2>3. Turn(s, fed[s] - 1, t) /\ previous[s] # NoPts
    BY <1>3, <2>1, <2>2 DEF Timeline
  <2>4. QED
    BY <2>1, <2>2, <2>3 DEF TypeOK, NoPts
<1>5. PICK v \in Window(s) : /\ Counted(s, v, k, e)
                             /\ Exact => Fits(s, Wraps(v))
                             /\ Smooth => Steady(s, v)
  BY <1>2, <1>4 DEF StreamInv
<1>6. StreamInv(o, k, e)'
  BY <1>2, <1>3, <1>4, PlainOther DEF Untouched
<1>7. /\ Pending(s)' = Pending(s) /\ Lowest(s)' = Lowest(s) /\ Returned(s)' = fed[s] /\ Judged(s)' = Judged(s)
      /\ out'[s] = Micro((t % Wrap) + Lift(t, v) + base[s])
  <2>1. out'[s] = Micro((t % Wrap) + Lift(t, v) + base[s])
    BY <1>3, <1>4, <1>5, ReturnGets
  <2>2. QED
    BY <1>1, <1>3, <2>1 DEF Pending, Lowest, Begins, Returned, Judged
<1>8. Timeline(s, k)'
  BY <1>1, <1>3, <1>4 DEF Timeline, Begins, Turn
<1>9. (Exact => BumpFits(s, k))'
  BY <1>3, <1>4 DEF BumpFits
<1>10. (Smooth => ~Pending(s))'
  BY <1>2, <1>3, <1>7 DEF StreamInv, Smooth
<1>11. /\ v \in Window(s)'
       /\ Counted(s, v, k, e)'
       /\ (Exact => Fits(s, Wraps(v)))'
       /\ (Smooth => Steady(s, v))'
  <2>1. v \in Window(s)' /\ t \in Window(s)' /\ Turn(s, fed[s] - 1, t)'
    BY <1>3, <1>4 DEF Window, Turn
  <2>2. Counted(s, v, k, e)'
    BY <1>3, <1>5, <1>7 DEF Counted
  <2>3. (Exact => Fits(s, Wraps(v)))'
    BY <1>3, <1>5, <1>7 DEF Fits, Exact
  <2>4. Steady(s, v)'
    BY <1>3, <1>7, <2>1 DEF Steady
  <2>5. QED
    BY <2>1, <2>2, <2>3, <2>4
<1>12. StreamInv(s, k, e)'
  <2>1. \E w \in Window(s)' : /\ Counted(s, w, k, e)'
                               /\ (Exact => Fits(s, Wraps(w)))'
                               /\ (Smooth => Steady(s, w))'
    BY <1>11
  <2>2. QED
    BY <1>8, <1>9, <1>10, <2>1 DEF StreamInv
<1>13. QED
  BY <1>1, <1>6, <1>12, TwoStreams

(* The base that the first frame of a stream raises, its own or the other's. *)
LEMMA BumpKeeps ==
    ASSUME TypeOK, NEW s \in Streams, NEW k \in Int, NEW e \in Int, Edge(k, e),
           \A r \in Streams : StreamInv(r, k, e), Bump(s)
    PROVE  \A r \in Streams : StreamInv(r, k, e)'
<1> DEFINE o == Other(s)
<1> PICK t : t = time[s]
  OBVIOUS
<1>1. o \in Streams /\ o # s /\ Other(o) = s
  BY TwoStreams
<1>2. StreamInv(s, k, e) /\ StreamInv(o, k, e)
  BY <1>1
<1>3. /\ pc[s] = "bump" /\ pc'[s] = "judge" /\ target[s] \in {s, o}
      /\ base'[target[s]] = read[s] + max /\ (target[s] = o => base'[s] = base[s])
      /\ (target[s] = s => base'[o] = base[o])
      /\ UNCHANGED <<previous, drops, time, target, read, extra, out, start, fed, first, past>>
      /\ pc'[o] = pc[o]
  BY <1>1, TwoStreams DEF Bump, TypeOK, contentVars
<1>4. /\ Timeline(s, k) /\ Timeline(o, k) /\ previous[s] = NoPts /\ previous[o] # NoPts
      /\ pc[o] # "bump" /\ ~Begins(s) /\ ~Begins(o) /\ ~Pending(s) /\ ~Pending(s)' /\ ~Pending(o)'
  <2>1. Timeline(s, k) /\ Timeline(o, k)
    BY <1>2 DEF StreamInv
  <2>2. ~Begins(s) /\ previous[s] = NoPts /\ previous[o] # NoPts
    BY <1>3, <2>1, InHand DEF Timeline
  <2>3. pc[o] # "bump" /\ ~Begins(o)
    BY <1>1, <2>1, <2>2 DEF Timeline
  <2>4. QED
    BY <1>1, <1>3, <2>1, <2>2, <2>3 DEF Pending
<1>5. Exact => /\ read[s] = 0 /\ base[s] = 0
               /\ \/ target[s] = s /\ first[s] = k /\ first[o] = k - 1
                  \/ target[s] = o /\ first[s] = k - 1 /\ first[o] = k
  BY <1>2, <1>3 DEF StreamInv, BumpFits
<1>6. Lowest(s)' = Lowest(s) /\ Lowest(o)' = Lowest(o) /\ Exact' = Exact /\ Smooth' = Smooth
  BY <1>3 DEF Lowest, Begins, Exact, Smooth
<1>7. StreamInv(s, k, e)'
  <2>1. Timeline(s, k)'
    BY <1>3, <1>4 DEF Timeline, Begins, Turn
  <2>2. (Exact => BumpFits(s, k))'
    <3> SUFFICES ASSUME Exact PROVE Fits(s, first[s])'
      BY <1>3, <1>6 DEF BumpFits
    <3>1. Lowest(s) = k - 1
      BY <1>1, <1>4, <1>5 DEF Lowest
    <3>2. QED
      BY <1>3, <1>4, <1>5, <1>6, <3>1, Sizes DEF Fits
  <2>3. QED
    BY <1>3, <1>4, <2>1, <2>2 DEF StreamInv
<1>8. StreamInv(o, k, e)'
  <2>1. CASE target[s] = s
    <3>1. ~Pending(o)
      BY <1>1, <2>1 DEF Pending
    <3>2. Untouched(o)
      BY <1>3, <2>1 DEF Untouched
    <3>3. QED
      BY <1>1, <1>2, <1>3, <1>4, <1>6, <3>1, <3>2, OtherKept
  <2>2. CASE target[s] = o
    <3>1. Pending(o) /\ ~Smooth
      BY <1>1, <1>2, <1>3, <2>2 DEF Pending, StreamInv
    <3>2. Timeline(o, k)'
      BY <1>1, <1>3, <1>4 DEF Timeline, Begins, Turn
    <3>3. (Exact => BumpFits(o, k))'
      BY <1>3, <1>4 DEF BumpFits
    <3>4. PICK v \in Window(o) : Counted(o, v, k, e) /\ (Exact => Fits(o, Wraps(v)))
      BY <1>2, <1>4 DEF StreamInv
    <3>5. Wraps(v) = k
      BY <3>1, <3>4 DEF Counted
    <3>6. v \in Window(o)'
      BY <1>3 DEF Window
    <3>7. Counted(o, v, k, e)'
      BY <1>3, <1>4, <3>4, <3>5 DEF Counted, Judged
    <3>8. (Exact => Fits(o, Wraps(v)))'
      <4> SUFFICES ASSUME Exact PROVE Fits(o, Wraps(v))'
        BY <1>6
      <4>1. Lowest(o) = k - 1 /\ read[s] = 0
        BY <1>1, <1>4, <1>5, <2>2 DEF Lowest
      <4>2. QED
        BY <1>3, <1>4, <1>6, <2>2, <3>5, <4>1, Sizes DEF Fits
    <3>9. QED
      <4>1. \E w \in Window(o)' : /\ Counted(o, w, k, e)'
                                   /\ (Exact => Fits(o, Wraps(w)))'
                                   /\ (Smooth => Steady(o, w))'
        BY <1>6, <3>1, <3>6, <3>7, <3>8
      <4>2. QED
        BY <1>4, <3>2, <3>3, <4>1 DEF StreamInv
  <2>3. QED
    BY <1>3, <2>1, <2>2
<1>9. QED
  BY <1>1, <1>7, <1>8, TwoStreams

(* A frame that is not the first of its stream.                             *)
LEMMA NextFrameKeeps ==
    ASSUME TypeOK, NEW s \in Streams, NEW k \in Int, NEW e \in Int, Edge(k, e),
           \A r \in Streams : StreamInv(r, k, e), NEW t \in Nat, Turn(s, fed[s], t), Enter(s, t),
           Clean', ~Begins(s)
    PROVE  \A r \in Streams : StreamInv(r, k, e)'
<1> DEFINE o == Other(s)
<1>1. o \in Streams /\ o # s /\ Other(o) = s
  BY TwoStreams
<1>2. StreamInv(s, k, e) /\ StreamInv(o, k, e)
  BY <1>1
<1>3. pc[s] = "idle" /\ Timeline(s, k) /\ previous[s] # NoPts
  <2>1. pc[s] = "idle" /\ Timeline(s, k)
    BY <1>2 DEF Enter, StreamInv
  <2>2. QED
    BY <2>1 DEF Timeline
<1>4. ~FarApart(s, t % Wrap)
  BY <1>3 DEF FarApart
<1>5. /\ pc'[s] = "judge" /\ time'[s] = t /\ fed'[s] = fed[s] + 1 /\ past \subseteq past'
      /\ UNCHANGED <<base, previous, drops, target, read, extra, out, start, first>>
      /\ pc'[o] = pc[o] /\ time'[o] = time[o] /\ fed'[o] = fed[o]
  BY <1>1, <1>4 DEF Enter, TypeOK, sharedVars
<1>6. first[s] =< Wraps(t)
  <2>1. Meets(s, t) \subseteq past'
    BY DEF Enter
  <2>2. ~(Wraps(t) < first[s])
    BY <2>1 DEF Clean, Meets
  <2>3. Wraps(t) \in Nat /\ first[s] \in Nat
    BY StampFacts DEF Wraps, TypeOK, Begins
  <2>4. QED
    BY <2>2, <2>3
<1>7. /\ Pending(s)' = Pending(s) /\ Lowest(s)' = Lowest(s) /\ Returned(s)' = Returned(s)
      /\ Judged(s)' = Judged(s) /\ (Exact' => Exact) /\ (Smooth' => Smooth)
  <2>1. fed[s] \in Nat
    BY Sizes DEF TypeOK
  <2>2. QED
    BY <1>1, <1>3, <1>5, <2>1 DEF Pending, Lowest, Begins, Returned, Judged, Exact, Smooth
<1>8. StreamInv(o, k, e)'
  <2>1. Untouched(o) /\ ~Pending(o) /\ ~Pending(o)' /\ Lowest(o)' = Lowest(o)
    BY <1>1, <1>3, <1>5 DEF Untouched, Pending, Lowest, Begins
  <2>2. QED
    BY <1>1, <1>2, <1>5, <2>1, OtherKept
<1>9. Timeline(s, k)'
  <2>1. fed[s] \in Nat /\ fed'[s] - 1 = fed[s] /\ fed'[s] >= 1 /\ fed'[s] # 0
    BY <1>5, Sizes DEF TypeOK
  <2>2. QED
    BY <1>1, <1>3, <1>5, <1>6, <2>1 DEF Timeline, Begins, Turn
<1>10. (Exact => BumpFits(s, k))'
  BY <1>3, <1>5 DEF BumpFits
<1>11. (Smooth => ~Pending(s))'
  BY <1>2, <1>7 DEF StreamInv
<1>12. \E v \in Window(s)' : /\ Counted(s, v, k, e)'
                             /\ (Exact => Fits(s, Wraps(v)))'
                             /\ (Smooth => Steady(s, v))'
  <2>1. PICK v \in Window(s) : /\ Counted(s, v, k, e)
                               /\ Exact => Fits(s, Wraps(v))
                               /\ Smooth => Steady(s, v)
    BY <1>2, <1>3 DEF StreamInv
  <2>2. v \in Window(s)' /\ Counted(s, v, k, e)'
    BY <1>5, <1>7, <2>1 DEF Counted, Window
  <2>3. (Exact => Fits(s, Wraps(v)))'
    BY <1>5, <1>7, <2>1 DEF Fits
  <2>4. (Smooth => Steady(s, v))'
    BY <1>5, <1>7, <2>1 DEF Steady, Turn, Window
  <2>5. QED
    BY <2>2, <2>3, <2>4
<1>13. StreamInv(s, k, e)'
  BY <1>9, <1>10, <1>11, <1>12 DEF StreamInv
<1>14. QED
  BY <1>1, <1>8, <1>13, TwoStreams

(* What the first frame of a stream finds of the other one.                  *)
LEMMA FirstFrameFinds ==
    ASSUME TypeOK, NEW s \in Streams, NEW k \in Int, NEW e \in Int, Edge(k, e),
           StreamInv(Other(s), k, e), NEW t \in Window(s), Begins(s), pc[s] = "idle",
           previous[s] = NoPts, previous[Other(s)] # NoPts
    PROVE  /\ Wraps(t) \in {k - 1, k} /\ first[Other(s)] \in {k - 1, k}
           /\ ~FarApart(s, t % Wrap) /\ Exact /\ base[Other(s)] = 0 => first[Other(s)] = Wraps(t)
           /\ FarApart(s, t % Wrap) =>
                \/ /\ Wraps(t) = k /\ first[Other(s)] = k - 1 /\ Smaller(s, t % Wrap) = s
                \/ /\ Wraps(t) = k - 1 /\ Smaller(s, t % Wrap) = Other(s)
                   /\ Exact /\ base[Other(s)] = 0 => first[Other(s)] = k
                   /\ \A v \in Window(Other(s)) : Counted(Other(s), v, k, e) => Wraps(v) = k
<1> DEFINE o == Other(s)
<1>1. o \in Streams /\ o # s /\ Other(o) = s
  BY TwoStreams
<1>2. ~Begins(o) /\ first[o] \in {k - 1, k}
  BY DEF StreamInv, Timeline
<1>3. ASSUME NEW v \in Window(o), Counted(o, v, k, e)
      PROVE  /\ Wraps(t) \in {k - 1, k} /\ Wraps(v) \in {k - 1, k} /\ first[o] =< Wraps(v)
             /\ ~FarApart(s, t % Wrap) => Wraps(t) = Wraps(v)
             /\ FarApart(s, t % Wrap) =>
                  \/ Wraps(t) = k /\ Wraps(v) = k - 1 /\ Smaller(s, t % Wrap) = s
                  \/ Wraps(t) = k - 1 /\ Wraps(v) = k /\ Smaller(s, t % Wrap) = o
  <2>1. previous[o] = v % Wrap /\ first[o] =< Wraps(v)
    BY <1>3 DEF Counted
  <2>2. /\ Wraps(t) \in {k - 1, k} /\ Wraps(v) \in {k - 1, k}
        /\ Wraps(v) = Wraps(t) => ~(Gap(v % Wrap, t % Wrap) >= big)
        /\ Wraps(v) = k /\ Wraps(t) = k - 1 =>
             Gap(v % Wrap, t % Wrap) >= big /\ ~(v % Wrap > t % Wrap)
    BY <1>1, <1>3, Sides
  <2>3. Wraps(t) = k /\ Wraps(v) = k - 1 =>
             Gap(v % Wrap, t % Wrap) >= big /\ v % Wrap > t % Wrap
    BY <1>1, <1>3, Sides
  <2>4. FarApart(s, t % Wrap) <=> Gap(v % Wrap, t % Wrap) >= big
    BY <2>1 DEF FarApart
  <2>5. Smaller(s, t % Wrap) = IF v % Wrap > t % Wrap THEN s ELSE o
    BY <2>1 DEF Smaller
  <2>6. QED
    BY <2>1, <2>2, <2>3, <2>4, <2>5
<1>4. PICK v \in Window(o) : Counted(o, v, k, e) /\ (Exact => Fits(o, Wraps(v)))
  BY DEF StreamInv
<1>5. Exact /\ base[o] = 0 => first[o] = Wraps(v)
  <2>1. SUFFICES ASSUME Exact, base[o] = 0 PROVE first[o] = Wraps(v)
    OBVIOUS
  <2>2. ~Pending(o) /\ Lowest(o) = first[o]
    BY <1>1 DEF Pending, Lowest
  <2>3. ~(Wraps(v) > first[o])
    BY <1>4, <2>1, <2>2, Sizes DEF Fits
  <2>4. QED
    BY <1>2, <1>3, <1>4, <2>3
<1>6. ASSUME FarApart(s, t % Wrap), Wraps(t) = k - 1, NEW w \in Window(o), Counted(o, w, k, e)
      PROVE  Wraps(w) = k
  BY <1>3, <1>6
<1>7. QED
  BY <1>2, <1>3, <1>4, <1>5, <1>6

(* The first frame of a stream, which may find that a base is to be raised. *)
LEMMA FirstFrameKeeps ==
    ASSUME TypeOK, NEW s \in Streams, NEW k \in Int, NEW e \in Int, Edge(k, e),
           \A r \in Streams : StreamInv(r, k, e), NEW t \in Nat, Turn(s, fed[s], t), Enter(s, t),
           Begins(s)
    PROVE  \A r \in Streams : StreamInv(r, k, e)'
<1> DEFINE o == Other(s)
           x == Smaller(s, t % Wrap)
<1>1. o \in Streams /\ o # s /\ Other(o) = s
  BY TwoStreams
<1>2. StreamInv(s, k, e) /\ StreamInv(o, k, e) /\ Timeline(s, k) /\ Timeline(o, k)
  BY <1>1 DEF StreamInv
<1>3. /\ pc[s] = "idle" /\ previous[s] = NoPts /\ base[s] = 0 /\ out[s] = NoPts /\ fed[s] = 0
      /\ extra[s] = 0 /\ pc[o] # "bump" /\ ~Pending(s) /\ ~Pending(o)
  <2>1. pc[s] = "idle" /\ previous[s] = NoPts /\ base[s] = 0 /\ out[s] = NoPts /\ fed[s] = 0
    BY <1>2 DEF Timeline
  <2>2. extra[s] = 0 /\ pc[o] # "bump"
    BY <1>1, <1>2, <2>1 DEF Timeline
  <2>3. QED
    BY <1>1, <2>1, <2>2 DEF Pending
<1>4. t \in Window(s) /\ Wraps(t) \in {k - 1, k} /\ Wraps(t) \in Nat /\ Wraps(t) # NoPts
  <2>1. t \in Window(s)
    <3>1. start[s] \in Nat /\ fed[s] < MaxFrames
      BY Spread DEF Enter
    <3>2. QED
      BY <1>3, <3>1, Sizes DEF Turn, Window, Reach
  <2>2. Wraps(t) \in Nat
    BY StampFacts DEF Wraps
  <2>3. QED
    BY <2>1, <2>2, Sides DEF NoPts
<1>5. /\ time'[s] = t /\ fed'[s] = 1 /\ first'[s] = Wraps(t) /\ past \subseteq past'
      /\ UNCHANGED <<base, previous, drops, extra, out, start>>
      /\ time'[o] = time[o] /\ fed'[o] = fed[o] /\ first'[o] = first[o]
  BY <1>1, <1>3 DEF Enter, TypeOK, sharedVars
<1>6. IF FarApart(s, t % Wrap)
      THEN /\ pc'[s] = "bump" /\ target'[s] = x /\ read'[s] = base[x]
           /\ pc'[o] = pc[o] /\ target'[o] = target[o] /\ read'[o] = read[o]
      ELSE pc'[s] = "judge" /\ pc'[o] = pc[o] /\ UNCHANGED <<target, read>>
  <2> HIDE DEF x
  <2>1. CASE FarApart(s, t % Wrap)
    BY <1>1, <2>1 DEF Enter, TypeOK, x
  <2>2. CASE ~FarApart(s, t % Wrap)
    BY <1>1, <2>2 DEF Enter, TypeOK
  <2>3. QED
    BY <2>1, <2>2
<1>7. /\ Exact' => Exact /\ (Begins(o) \/ previous[o] # NoPts) /\ base[o] = 0
      /\ Smooth' => Smooth /\ ~(FarApart(s, t % Wrap) /\ x # s)
  <2>1. Meets(s, t) \subseteq past'
    BY DEF Enter
  <2>2. QED
    BY <1>5, <2>1 DEF Meets, Exact, Smooth
<1>8. previous[o] # NoPts => ~Begins(o) /\ first[o] \in {k - 1, k}
  BY <1>2 DEF Timeline
<1>9. ~Pending(s)' /\ pc'[o] = pc[o]
  BY <1>3, <1>6 DEF Pending
<1>10. Timeline(s, k)'
  <2>1. Begins(s)' <=> FALSE
    BY <1>4, <1>5 DEF Begins
  <2>2. Turn(s, fed[s] - 1, time[s])'
    BY <1>3, <1>5 DEF Turn
  <2>3. pc'[s] \in {"bump", "judge"} /\ (pc'[s] = "bump" => previous'[o] # NoPts)
    BY <1>5, <1>6 DEF FarApart
  <2>4. first'[s] =< Wraps(t) /\ first'[s] \in {k - 1, k}
    BY <1>4, <1>5
  <2>5. QED
    BY <1>3, <1>5, <2>1, <2>2, <2>3, <2>4 DEF Timeline
<1>11. CASE FarApart(s, t % Wrap) /\ x = o
  <2>1. /\ previous[o] # NoPts /\ Wraps(t) = k - 1
        /\ Exact /\ base[o] = 0 => first[o] = k
        /\ \A v \in Window(o) : Counted(o, v, k, e) => Wraps(v) = k
    <3>1. previous[o] # NoPts
      BY <1>11 DEF FarApart
    <3>2. QED
      BY <1>1, <1>2, <1>3, <1>4, <1>11, <3>1, FirstFrameFinds
  <2>2. (Exact => BumpFits(s, k))'
    BY <1>3, <1>5, <1>6, <1>7, <1>11, <2>1 DEF BumpFits
  <2>3. StreamInv(s, k, e)'
    BY <1>3, <1>5, <1>9, <1>10, <2>2 DEF StreamInv
  <2>4. Pending(o)' /\ ~Smooth'
    BY <1>1, <1>6, <1>7, <1>11 DEF Pending
  <2>5. StreamInv(o, k, e)'
    <3>1. Timeline(o, k)'
      BY <1>1, <1>2, <1>3, <1>5, <1>9, <2>1 DEF Timeline, Begins, Turn
    <3>2. (Exact => BumpFits(o, k))'
      BY <1>3, <1>5, <1>9, <2>1 DEF BumpFits
    <3>3. PICK v \in Window(o) : Counted(o, v, k, e)
      BY <1>2, <2>1 DEF StreamInv
    <3>4. v \in Window(o)' /\ Counted(o, v, k, e)'
      BY <1>5, <1>6, <1>9, <1>11, <2>1, <3>3 DEF Counted, Window, Judged
    <3>5. (Exact => Fits(o, Wraps(v)))'
      BY <1>5, <1>7, <2>4 DEF Fits
    <3>6. \E w \in Window(o)' : /\ Counted(o, w, k, e)'
                                 /\ (Exact => Fits(o, Wraps(w)))'
                                 /\ (Smooth => Steady(o, w))'
      BY <2>4, <3>4, <3>5
    <3>7. QED
      BY <2>4, <3>1, <3>2, <3>6 DEF StreamInv
  <2>6. QED
    BY <1>1, <2>3, <2>5, TwoStreams
<1>12. CASE ~(FarApart(s, t % Wrap) /\ x = o)
  <2>1. FarApart(s, t % Wrap) => x = s /\ Wraps(t) = k /\ first[o] = k - 1 /\ previous[o] # NoPts
    <3>1. SUFFICES ASSUME FarApart(s, t % Wrap)
                   PROVE  x = s /\ Wraps(t) = k /\ first[o] = k - 1 /\ previous[o] # NoPts
      OBVIOUS
    <3>2. previous[o] # NoPts
      BY <3>1 DEF FarApart
    <3>3. QED
      BY <1>1, <1>2, <1>3, <1>4, <1>12, <3>1, <3>2, FirstFrameFinds
  <2>2. ~FarApart(s, t % Wrap) /\ Exact' => Begins(o) \/ first[o] = Wraps(t)
    BY <1>2, <1>3, <1>4, <1>7, FirstFrameFinds
  <2>3. Exact' /\ ~FarApart(s, t % Wrap) => Lowest(s)' = Wraps(t)
    BY <1>5, <2>2 DEF Lowest, Begins
  <2>4. ~Begins(o) /\ Exact' => Lowest(o)' = Lowest(o)
    <3>1. SUFFICES ASSUME ~Begins(o), Exact' PROVE Lowest(o)' = Lowest(o)
      OBVIOUS
    <3>2. Lowest(o) = first[o] /\ first[o] =< Wraps(t) /\ first[o] \in {k - 1, k}
      BY <1>1, <1>2, <1>4, <2>1, <2>2, <3>1 DEF Lowest, Timeline
    <3>3. QED
      BY <1>1, <1>4, <1>5, <3>2 DEF Lowest, Begins
  <2>5. StreamInv(s, k, e)'
    <3>1. (Exact => BumpFits(s, k))'
      <4> SUFFICES ASSUME Exact' PROVE BumpFits(s, k)'
        OBVIOUS
      <4>1. CASE FarApart(s, t % Wrap)
        BY <1>3, <1>5, <1>6, <2>1, <4>1 DEF BumpFits
      <4>2. CASE ~FarApart(s, t % Wrap)
        <5>1. Fits(s, first[s])'
          BY <1>3, <1>4, <1>5, <2>3, <4>2 DEF Fits
        <5>2. QED
          BY <1>6, <4>2, <5>1 DEF BumpFits
      <4>3. QED
        BY <4>1, <4>2
    <3>2. QED
      BY <1>3, <1>5, <1>9, <1>10, <3>1 DEF StreamInv
  <2>6. StreamInv(o, k, e)'
    <3>1. ~Pending(o)' /\ Untouched(o)
      BY <1>1, <1>5, <1>6, <2>1 DEF Pending, Untouched
    <3>2. QED
      BY <1>1, <1>2, <1>3, <1>5, <2>4, <3>1, OtherKept
  <2>7. QED
    BY <1>1, <2>5, <2>6, TwoStreams
<1>13. QED
  BY <1>11, <1>12

(* The variables of a content that begins, and nothing in hand.              *)
LEMMA FlushKeeps ==
    ASSUME TypeOK, TimesInv, Flush, Clean'
    PROVE  TimesInv'
<1>1. PICK k \in Int, e \in Int : Edge(k, e)'
  <2>1. start' \in [Streams -> Starts]
    BY DEF Flush
  <2>2. QED
    BY <2>1, EdgeExists DEF Edge, Window
<1>2. Clean /\ \A s \in Streams : pc[s] = "idle"
  BY DEF Clean, Flush
<1>3. \A s \in Streams : extra[s] = 0
  BY <1>2 DEF TimesInv, StreamInv, Timeline
<1>4. ASSUME NEW s \in Streams PROVE StreamInv(s, k, e)'
  <2>1. Other(s) \in Streams
    BY TwoStreams
  <2>2. /\ pc'[s] = "idle" /\ pc'[Other(s)] = "idle" /\ extra'[s] = 0 /\ fed'[s] = 0
        /\ previous'[s] = NoPts /\ base'[s] = 0 /\ out'[s] = NoPts /\ first'[s] = NoPts
    BY <1>2, <1>3, <2>1 DEF Flush, frameVars
  <2>3. QED
    BY <2>2 DEF StreamInv, Timeline, BumpFits, Pending, Begins
<1>5. QED
  BY <1>1, <1>4 DEF TimesInv

(* Nothing was counted at first. *)
LEMMA TimesInit == Init => TimesInv
<1> SUFFICES ASSUME Init PROVE TimesInv
  OBVIOUS
<1>1. PICK k \in Int, e \in Int : Edge(k, e)
  BY EdgeExists DEF Edge, Window, Init
<1>2. ASSUME NEW s \in Streams PROVE StreamInv(s, k, e)
  <2>1. Other(s) \in Streams
    BY TwoStreams
  <2>2. /\ pc[s] = "idle" /\ pc[Other(s)] = "idle" /\ extra[s] = 0 /\ fed[s] = 0
        /\ previous[s] = NoPts /\ base[s] = 0 /\ out[s] = NoPts /\ first[s] = NoPts
    BY <2>1 DEF Init
  <2>3. QED
    BY <2>2 DEF StreamInv, Timeline, BumpFits, Pending, Begins
<1>3. QED
  BY <1>1, <1>2 DEF TimesInv

(* Every step keeps what is known of the times. *)
LEMMA TimesStep == TypeOK /\ TimesInv /\ [Next]_vars => TimesInv'
<1> SUFFICES ASSUME TypeOK, TimesInv, [Next]_vars, Clean' PROVE TimesInv'
  BY DEF TimesInv
<1>1. CASE Flush
  BY <1>1, FlushKeeps
<1>2. CASE UNCHANGED vars
  <2>1. UNCHANGED <<base, previous, drops, pc, time, target, read, extra, out, start, fed, first, past>>
    BY <1>2 DEF vars, sharedVars, frameVars, contentVars
  <2>2. Clean
    BY <2>1 DEF Clean
  <2>3. PICK k \in Int, e \in Int : Edge(k, e) /\ \A s \in Streams : StreamInv(s, k, e)
    BY <2>2 DEF TimesInv
  <2>4. Edge(k, e)'
    BY <2>1, <2>3 DEF Edge, Window
  <2>5. ASSUME NEW s \in Streams PROVE StreamInv(s, k, e)'
    <3>1. Untouched(s) /\ Lowest(s)' = Lowest(s)
      BY <2>1 DEF Untouched, Lowest, Begins
    <3>2. Timeline(s, k)'
      BY <2>1, <2>3 DEF StreamInv, Timeline, Begins, Turn
    <3>3. (Exact => BumpFits(s, k))' /\ (Smooth => ~Pending(s))'
      BY <2>1, <2>3, <3>1 DEF StreamInv, BumpFits, Fits, Exact, Smooth, Pending
    <3>4. QED
      BY <2>1, <2>3, <3>1, <3>2, <3>3
      DEF StreamInv, Counted, Judged, Pending, Fits, Exact, Smooth, Steady, Window, Turn, Returned
  <2>6. QED
    BY <2>4, <2>5 DEF TimesInv
<1>3. ASSUME NEW s \in Streams, Adjust(s) PROVE TimesInv'
  <2>1. start' = start /\ past \subseteq past'
    BY <1>3 DEF Adjust, Enter, Bump, JudgeDrop, JudgeWrap, JudgePlain, Commit, Return, contentVars
  <2>2. Clean
    BY <2>1 DEF Clean
  <2>3. PICK k \in Int, e \in Int : Edge(k, e) /\ \A r \in Streams : StreamInv(r, k, e)
    BY <2>2 DEF TimesInv
  <2>4. ASSUME NEW j \in -Jitter .. Jitter, Enter(s, start[s] + fed[s] + j)
        PROVE  \A r \in Streams : StreamInv(r, k, e)'
    <3> DEFINE t == start[s] + fed[s] + j
    <3>1. t \in Nat /\ Turn(s, fed[s], t)
      <4>1. t \in Nat
        BY TurnFacts
      <4>2. start[s] \in Nat /\ fed[s] \in Nat
        BY Spread, Sizes DEF TypeOK
      <4>3. QED
        BY <4>1, <4>2, Sizes DEF Turn
    <3> HIDE DEF t
    <3>2. Enter(s, t)
      BY <2>4 DEF t
    <3>3. QED
      BY <2>3, <3>1, <3>2, FirstFrameKeeps, NextFrameKeeps
  <2>5. \A r \in Streams : StreamInv(r, k, e)'
    BY <1>3, <2>3, <2>4, BumpKeeps, DropKeeps, WrapKeeps, PlainKeeps, CommitKeeps, ReturnKeeps DEF Adjust
  <2>6. Edge(k, e)'
    BY <2>1, <2>3 DEF Edge, Window
  <2>7. QED
    BY <2>5, <2>6 DEF TimesInv
<1>4. QED
  BY <1>1, <1>2, <1>3 DEF Next

(* So it always holds. *)
LEMMA TimesInvHolds == Spec => [](TypeOK /\ TimesInv)
<1>1. Init => TypeOK /\ TimesInv
  BY InvInit, TimesInit
<1>2. TypeOK /\ TimesInv /\ [Next]_vars => (TypeOK /\ TimesInv)'
  BY TypeStep, TimesStep
<1>3. QED
  BY <1>1, <1>2, PTL DEF Spec

(* What TimesAreExact says of the step that returns a time.                  *)
LEMMA ExactTimes ==
    ASSUME TypeOK, TimesInv, Clean, Exact, NEW s \in Streams, Return(s), pc[Other(s)] # "bump"
    PROVE  out'[s] = Expected(s, time[s])
<1> DEFINE o == Other(s)
<1> PICK t : t = time[s]
  OBVIOUS
<1>1. PICK k \in Int, e \in Int : Edge(k, e) /\ \A r \in Streams : StreamInv(r, k, e)
  BY DEF TimesInv
<1>2. pc[s] = "out" /\ Timeline(s, k) /\ ~Pending(s) /\ o \in Streams /\ Timeline(o, k)
  BY <1>1, TwoStreams DEF Return, StreamInv, Pending
<1>3. ~Begins(s) /\ first[s] \in {k - 1, k} /\ previous[s] # NoPts
  BY <1>2, InHand DEF Timeline
<1>4. PICK v \in Window(s) : Counted(s, v, k, e) /\ Fits(s, Wraps(v))
  BY <1>1, <1>3 DEF StreamInv
<1>5. /\ t \in Window(s) /\ Wraps(v) \in {k - 1, k} /\ Wraps(t) \in {k - 1, k}
      /\ Pts(s) + extra[s] + base[s] = (t % Wrap) + Lift(t, v) + base[s]
  BY <1>1, <1>2, <1>4, ReturnGets
<1>6. /\ first[s] =< Wraps(v)
      /\ Wraps(t) = Wraps(v) \/ (Wraps(t) = k /\ Wraps(v) = k - 1)
  BY <1>2, <1>4 DEF Counted
<1>7. Lowest(s) \in {k - 1, k} /\ Lowest(s) =< first[s]
  BY <1>2, <1>3 DEF Lowest, Timeline
<1>8. base[s] = IF Wraps(v) > Lowest(s) THEN max ELSE 0
  BY <1>2, <1>4 DEF Fits
<1>9. Lift(t, v) + base[s] = (Wraps(t) - Lowest(s)) * max
  <2>1. 0 * max = 0 /\ 1 * max = max
    BY Sizes
  <2>2. Lift(t, v) + base[s] = IF Wraps(t) > Lowest(s) THEN max ELSE 0
    BY <1>3, <1>5, <1>6, <1>7, <1>8, Sizes DEF Lift
  <2>3. Wraps(t) - Lowest(s) = IF Wraps(t) > Lowest(s) THEN 1 ELSE 0
    BY <1>3, <1>5, <1>6, <1>7
  <2>4. QED
    BY <2>1, <2>2, <2>3
<1>10. (t % Wrap) + Lift(t, v) + base[s] = (t % Wrap) + (Wraps(t) - Lowest(s)) * max
  <2>1. Lift(t, v) \in Int /\ base[s] \in Int /\ t % Wrap \in Int
    BY StampFacts, Sizes DEF Lift, TypeOK
  <2>2. (t % Wrap) + Lift(t, v) + base[s] = (t % Wrap) + (Lift(t, v) + base[s])
    BY <2>1
  <2>3. QED
    BY <1>9, <2>2
<1>11. out'[s] = Micro(Pts(s) + extra[s] + base[s])
  BY DEF Return, TypeOK
<1>12. QED
  BY <1>5, <1>10, <1>11 DEF Expected

(* A difference in ticks is the same in microseconds, but for what is cut.  *)
LEMMA MicroGap ==
    ASSUME NEW x \in Int, NEW y \in Int, NEW d \in Nat, x - y =< d, y - x =< d
    PROVE  Gap(Micro(x), Micro(y)) =< Micro(d) + 1
BY DEF Gap, Micro

(* What NoJump says of it.                                                   *)
LEMMA NoJumps ==
    ASSUME TypeOK, TimesInv, Clean, Smooth, NEW s \in Streams, Return(s), out[s] # NoPts
    PROVE  Gap(out'[s], out[s]) =< Micro(2 * Jitter + 2) + 1
<1> PICK t : t = time[s]
  OBVIOUS
<1>1. PICK k \in Int, e \in Int : Edge(k, e) /\ \A r \in Streams : StreamInv(r, k, e)
  BY DEF TimesInv
<1>2. pc[s] = "out" /\ Timeline(s, k)
  BY <1>1 DEF Return, StreamInv
<1>3. /\ ~Begins(s) /\ previous[s] # NoPts /\ t \in Window(s)
      /\ t >= start[s] + fed[s] - 1 - Jitter /\ t =< start[s] + fed[s] - 1 + Jitter
  BY <1>2, InHand DEF Timeline
<1>4. PICK v \in Window(s) : Counted(s, v, k, e) /\ Steady(s, v)
  BY <1>1, <1>3 DEF StreamInv
<1>5. PICK u \in Window(s) : /\ Turn(s, Returned(s) - 1, u)
                             /\ out[s] = Micro((u % Wrap) + Lift(u, v) + base[s])
  BY <1>4 DEF Steady
<1>6. out'[s] = Micro((t % Wrap) + Lift(t, v) + base[s])
  <2>1. out'[s] = Micro(Pts(s) + extra[s] + base[s])
    BY DEF Return, TypeOK
  <2>2. QED
    BY <1>1, <1>2, <1>4, <2>1, ReturnGets
<1> DEFINE p == t % Wrap
           q == u % Wrap
<1>7. /\ t \in Nat /\ u \in Nat
      /\ \/ t >= e /\ Wraps(t) = k /\ p = t - e
         \/ t < e /\ Wraps(t) = k - 1 /\ p = t - e + Wrap
      /\ \/ u >= e /\ Wraps(u) = k /\ q = u - e
         \/ u < e /\ Wraps(u) = k - 1 /\ q = u - e + Wrap
  BY <1>1, <1>3, <1>5 DEF Edge, At
<1>8. Wraps(v) \in {k - 1, k}
  BY <1>1, <1>4, Sides
<1> HIDE DEF p, q
<1>9. t - u =< 2 * Jitter + 1 /\ u - t =< 2 * Jitter + 1
  <2>1. start[s] \in Nat /\ fed[s] \in Nat
    BY Spread, Sizes DEF TypeOK
  <2>2. u >= start[s] + fed[s] - 2 - Jitter /\ u =< start[s] + fed[s] - 2 + Jitter
    BY <1>2, <1>5, <1>7, <2>1, Sizes DEF Turn, Returned
  <2>3. QED
    BY <1>3, <1>7, <2>1, <2>2, Sizes
<1> DEFINE x == p + Lift(t, v) + base[s]
           y == q + Lift(u, v) + base[s]
<1>10. p \in Int /\ q \in Int /\ Lift(t, v) \in Int /\ Lift(u, v) \in Int /\ base[s] \in Int
  BY <1>7, Sizes DEF Lift, TypeOK
<1>11. /\ (p + Lift(t, v)) - (q + Lift(u, v)) =< 2 * Jitter + 2
       /\ (q + Lift(u, v)) - (p + Lift(t, v)) =< 2 * Jitter + 2
  BY <1>7, <1>8, <1>9, Sizes DEF Lift
<1>12. x \in Int /\ y \in Int /\ x - y =< 2 * Jitter + 2 /\ y - x =< 2 * Jitter + 2
  BY <1>10, <1>11, Sizes
<1> HIDE DEF x, y
<1>13. Gap(Micro(x), Micro(y)) =< Micro(2 * Jitter + 2) + 1
  BY <1>12, MicroGap, Sizes
<1>14. QED
  BY <1>5, <1>6, <1>13 DEF x, y, p, q

(* Every frame gets the time it was made at, for any range, threshold and    *)
(* disorder the assumption allows: a wrap before the first frame of a        *)
(* stream, between frames out of order or in both streams at different       *)
(* times is counted once in each, in whatever order the two threads go.      *)
THEOREM ExactTimesAlways == Spec => TimesAreExact
<1>1. TypeOK /\ TimesInv => [\A s \in Streams :
         Return(s) => \/ out'[s] = Expected(s, time[s])
                      \/ past \cap {"crossedStart", "lateStart", "leading", "inFlush"} # {}
                      \/ pc[Other(s)] = "bump"]_vars
  <2> SUFFICES ASSUME TypeOK, TimesInv, NEW s \in Streams, Return(s), pc[Other(s)] # "bump",
                      past \cap {"crossedStart", "lateStart", "leading", "inFlush"} = {}
               PROVE  out'[s] = Expected(s, time[s])
    OBVIOUS
  <2>1. Clean /\ Exact
    BY DEF Clean, Exact
  <2>2. QED
    BY <2>1, ExactTimes
<1>2. QED
  BY <1>1, TimesInvHolds, PTL DEF TimesAreExact

(* The time of a stream never jumps by more than disorder and a lost tick,   *)
(* whatever wraps, drops and first frames do to its own base.                *)
THEOREM NoJumpAlways == Spec => NoJump
<1>1. TypeOK /\ TimesInv => [\A s \in Streams :
         Return(s) /\ out[s] # NoPts =>
           \/ Gap(out'[s], out[s]) =< Micro(2 * Jitter + 2) + 1
           \/ past \cap {"rebased", "leading", "inFlush"} # {}]_vars
  <2> SUFFICES ASSUME TypeOK, TimesInv, NEW s \in Streams, Return(s), out[s] # NoPts,
                      past \cap {"rebased", "leading", "inFlush"} = {}
               PROVE  Gap(out'[s], out[s]) =< Micro(2 * Jitter + 2) + 1
    OBVIOUS
  <2>1. Clean /\ Smooth
    BY DEF Clean, Smooth
  <2>2. QED
    BY <2>1, NoJumps
<1>2. QED
  BY <1>1, TimesInvHolds, PTL DEF NoJump
=============================================================================
