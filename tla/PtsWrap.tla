------------------------------ MODULE PtsWrap ------------------------------
(***************************************************************************)
(* Presentation times (adjustPtsToMicrosecond() of src/src/esplayer.cpp).   *)
(* A stream's time stamps are a 33-bit count that wraps; the player turns   *)
(* them into microseconds that do not, with a base per stream that a wrap   *)
(* raises. A time that falls back by more than half the range is only       *)
(* noted at first, for it may be one frame out of order, and taken for a    *)
(* wrap at the drop after PTS_DROP_THRESHOLD of them in a row. The first    *)
(* time of a stream is compared with the last one of the other, in case the *)
(* two start on different sides of a wrap.                                  *)
(*                                                                          *)
(* Each stream's renderer thread runs it on its own frames, without a lock, *)
(* though the test of the first time reads and may write what belongs to    *)
(* the other thread, and flush() resets everything: it is cut at its reads  *)
(* and writes of shared state. The reference is the time the stream was     *)
(* made with, which never wraps: frame n of a stream is made at its start   *)
(* plus n, give or take Jitter, which is how far frames are out of order.   *)
(***************************************************************************)
EXTENDS Integers

CONSTANTS
    Wrap,          (* the range of a time stamp: 2^33 in the code           *)
    DropThreshold, (* PTS_DROP_THRESHOLD: 10 in the code                    *)
    Jitter,        (* how far, in frames, a frame's time is from its turn   *)
    Starts,        (* the times at which a stream may start                 *)
    MaxFrames,     (* bound on the frames of a stream                       *)
    MaxFlushes     (* bound on the flushes                                  *)

(* Frames out of order look like a wrap for less than the threshold, and   *)
(* the streams of a content start within a quarter of the range.           *)
ASSUME PtsWrapAssumption ==
    /\ Wrap \in Nat /\ Wrap % 2 = 0 /\ Wrap > 0
    /\ DropThreshold \in Nat /\ Jitter \in Nat /\ 2 * Jitter =< DropThreshold + 1
    /\ MaxFrames \in Nat /\ MaxFlushes \in Nat
    /\ Starts \subseteq Nat /\ \A t \in Starts : t >= Jitter
    /\ \A t, u \in Starts : t - u + MaxFrames + 2 * Jitter < Wrap \div 2

Streams == {"video", "audio"}
Other(s) == IF s = "video" THEN "audio" ELSE "video"
max == Wrap - 1
big == Wrap \div 2 - 1
NoPts == -1
Steps == {"idle", "bump", "judge", "commit", "out"}

VARIABLES
    base,      (* pts_base_                                               *)
    previous,  (* pts_previous_                                           *)
    drops,     (* pts_drop_count_                                         *)
    pc,        (* where each thread is                                    *)
    time,      (* when the frame in hand was made                         *)
    target,    (* whose base the first time of a stream raises            *)
    read,      (* the base as it was read to be raised                    *)
    extra,     (* what the frame in hand gets on top: max or 0            *)
    out,       (* the last presentation time of each stream               *)
    start,     (* when each stream of this content starts                 *)
    fed,       (* frames of each stream so far                            *)
    first,     (* the wraps before each stream's first frame, or NoPts    *)
    flushes,   (* flushes so far                                          *)
    past       (* history: the disturbances that happened so far          *)

sharedVars == <<base, previous, drops>>
frameVars == <<pc, time, target, read, extra>>
contentVars == <<start, fed, first, flushes>>
vars == <<sharedVars, frameVars, out, contentVars, past>>

Disturbances ==
    {"crossedStart",  (* both threads had their first frame in hand at once *)
     "lateStart",     (* a stream started when the other's base was raised  *)
     "leading",       (* a frame from before a wrap, behind a first frame   *)
                      (* from after it                                      *)
     "rebased",       (* a stream's first frame raised the other's base     *)
     "inFlush"}       (* a frame was in hand during flush()                 *)

Pts(s) == time[s] % Wrap
Wraps(t) == t \div Wrap
Gap(x, y) == IF x >= y THEN x - y ELSE y - x

(* A tick is 100/9 of a microsecond; the quotient is cut off.              *)
Micro(t) == (t * 100) \div 9
-----------------------------------------------------------------------------
Init ==
    /\ base = [s \in Streams |-> 0] /\ previous = [s \in Streams |-> NoPts]
    /\ drops = [s \in Streams |-> 0]
    /\ pc = [s \in Streams |-> "idle"] /\ time = [s \in Streams |-> 0]
    /\ target = [s \in Streams |-> s] /\ read = [s \in Streams |-> 0]
    /\ extra = [s \in Streams |-> 0] /\ out = [s \in Streams |-> NoPts]
    /\ start \in [Streams -> Starts] /\ fed = [s \in Streams |-> 0]
    /\ first = [s \in Streams |-> NoPts] /\ flushes = 0 /\ past = {}

(* The first time of a stream, far from the other's last: the one that is  *)
(* smaller has wrapped already, and its base is to be raised.              *)
FarApart(s, pts) ==
    /\ previous[s] = NoPts /\ previous[Other(s)] # NoPts
    /\ Gap(previous[Other(s)], pts) >= big

Smaller(s, pts) == IF previous[Other(s)] > pts THEN s ELSE Other(s)

(* History: what a frame of stream s, made at t, meets.                    *)
Begins(s) == first[s] = NoPts

Meets(s, t) ==
    (IF Begins(s) /\ ~Begins(Other(s)) /\ previous[Other(s)] = NoPts THEN {"crossedStart"} ELSE {})
    \cup (IF Begins(s) /\ base[Other(s)] # 0 THEN {"lateStart"} ELSE {})
    \cup (IF FarApart(s, t % Wrap) /\ Smaller(s, t % Wrap) # s THEN {"rebased"} ELSE {})
    \cup (IF Wraps(t) < first[s] THEN {"leading"} ELSE {})

(* The thread takes its next frame, made at about its turn.                *)
Enter(s, t) ==
    /\ pc[s] = "idle" /\ fed[s] < MaxFrames
    /\ time' = [time EXCEPT ![s] = t]
    /\ fed' = [fed EXCEPT ![s] = @ + 1]
    /\ first' = IF Begins(s) THEN [first EXCEPT ![s] = Wraps(t)] ELSE first
    /\ past' = past \cup Meets(s, t)
    /\ IF FarApart(s, t % Wrap)
       THEN /\ target' = [target EXCEPT ![s] = Smaller(s, t % Wrap)]
            /\ read' = [read EXCEPT ![s] = base[Smaller(s, t % Wrap)]]
            /\ pc' = [pc EXCEPT ![s] = "bump"]
       ELSE pc' = [pc EXCEPT ![s] = "judge"] /\ UNCHANGED <<target, read>>
    /\ UNCHANGED <<sharedVars, extra, out, start, flushes>>

Bump(s) ==
    /\ pc[s] = "bump" /\ pc' = [pc EXCEPT ![s] = "judge"]
    /\ base' = [base EXCEPT ![target[s]] = read[s] + max]
    /\ UNCHANGED <<previous, drops, time, target, read, extra, out, contentVars, past>>

Fallen(s) == previous[s] - Pts(s) > big

(* Mutant: the time that fell back is kept as the last one.                *)
JudgeDropKept(s) ==
    /\ pc[s] = "judge" /\ Fallen(s) /\ drops[s] < DropThreshold
    /\ drops' = [drops EXCEPT ![s] = @ + 1]
    /\ extra' = [extra EXCEPT ![s] = max]
    /\ previous' = [previous EXCEPT ![s] = Pts(s)]
    /\ pc' = [pc EXCEPT ![s] = "out"]
    /\ UNCHANGED <<base, time, target, read, out, contentVars, past>>

(* A time that fell back is noted, and the last one kept; past the         *)
(* threshold the base goes up. Any other time ends a row of drops.         *)
JudgeDrop(s) ==
    /\ pc[s] = "judge" /\ Fallen(s) /\ drops[s] < DropThreshold
    /\ drops' = [drops EXCEPT ![s] = @ + 1]
    /\ extra' = [extra EXCEPT ![s] = max]
    /\ pc' = [pc EXCEPT ![s] = "out"]
    /\ UNCHANGED <<base, previous, time, target, read, out, contentVars, past>>

JudgeWrap(s) ==
    /\ pc[s] = "judge" /\ Fallen(s) /\ drops[s] >= DropThreshold
    /\ drops' = [drops EXCEPT ![s] = 0]
    /\ read' = [read EXCEPT ![s] = base[s]]
    /\ pc' = [pc EXCEPT ![s] = "commit"]
    /\ UNCHANGED <<base, previous, time, target, extra, out, contentVars, past>>

(* Mutant: drops are counted over all frames, not in a row.                *)
JudgePlainCounts(s) ==
    /\ pc[s] = "judge" /\ ~Fallen(s)
    /\ previous' = [previous EXCEPT ![s] = Pts(s)]
    /\ pc' = [pc EXCEPT ![s] = "out"]
    /\ UNCHANGED <<base, drops, time, target, read, extra, out, contentVars, past>>

JudgePlain(s) ==
    /\ pc[s] = "judge" /\ ~Fallen(s)
    /\ drops' = [drops EXCEPT ![s] = 0]
    /\ previous' = [previous EXCEPT ![s] = Pts(s)]
    /\ pc' = [pc EXCEPT ![s] = "out"]
    /\ UNCHANGED <<base, time, target, read, extra, out, contentVars, past>>

Commit(s) ==
    /\ pc[s] = "commit" /\ pc' = [pc EXCEPT ![s] = "out"]
    /\ base' = [base EXCEPT ![s] = read[s] + max]
    /\ previous' = [previous EXCEPT ![s] = Pts(s)]
    /\ UNCHANGED <<drops, time, target, read, extra, out, contentVars, past>>

(* The result, in microseconds; what was local to the call is set back.    *)
Return(s) ==
    /\ pc[s] = "out" /\ pc' = [pc EXCEPT ![s] = "idle"]
    /\ out' = [out EXCEPT ![s] = Micro(Pts(s) + extra[s] + base[s])]
    /\ extra' = [extra EXCEPT ![s] = 0] /\ read' = [read EXCEPT ![s] = 0]
    /\ target' = [target EXCEPT ![s] = s] /\ time' = [time EXCEPT ![s] = 0]
    /\ UNCHANGED <<sharedVars, contentVars, past>>

(* flush() clears the wraparound info, pts_drop_count_ excepted; frames    *)
(* that were queued are gone, one in a thread's hand is not.               *)
Flush ==
    /\ flushes < MaxFlushes /\ flushes' = flushes + 1
    /\ base' = [s \in Streams |-> 0] /\ previous' = [s \in Streams |-> NoPts]
    /\ start' \in [Streams -> Starts] /\ fed' = [s \in Streams |-> 0]
    /\ first' = [s \in Streams |-> NoPts]
    /\ past' = IF \E s \in Streams : pc[s] # "idle" THEN past \cup {"inFlush"} ELSE past
    /\ out' = [s \in Streams |-> NoPts]
    /\ UNCHANGED <<drops, frameVars>>

Adjust(s) ==
    \/ \E j \in -Jitter .. Jitter : Enter(s, start[s] + fed[s] + j)
    \/ Bump(s) \/ JudgeDrop(s) \/ JudgeWrap(s) \/ JudgePlain(s) \/ Commit(s) \/ Return(s)

Next == Flush \/ \E s \in Streams : Adjust(s)

Spec == Init /\ [][Next]_vars
-----------------------------------------------------------------------------
(* Every variable keeps its type; no row of drops outgrows the threshold.  *)
TypeOK ==
    /\ base \in [Streams -> Nat] /\ previous \in [Streams -> -1 .. max]
    /\ drops \in [Streams -> 0 .. DropThreshold]
    /\ pc \in [Streams -> Steps] /\ time \in [Streams -> Nat]
    /\ target \in [Streams -> Streams] /\ read \in [Streams -> Nat]
    /\ extra \in [Streams -> {0, max}] /\ out \in [Streams -> Int]
    /\ start \in [Streams -> Starts] /\ fed \in [Streams -> 0 .. MaxFrames]
    /\ first \in [Streams -> Nat \cup {NoPts}] /\ flushes \in 0 .. MaxFlushes
    /\ past \subseteq Disturbances

(* The wraps before the earliest first frame, stream s having begun.       *)
Lowest(s) ==
    IF Begins(Other(s)) \/ first[s] < first[Other(s)] THEN first[s] ELSE first[Other(s)]

(* The time a frame made at t should get: counted from the wrap the        *)
(* content started in, one tick short for every wrap since, for a wrap     *)
(* raises the base by max and not by the range (986, 1008).                *)
Expected(s, t) == Micro((t % Wrap) + (Wraps(t) - Lowest(s)) * max)

(* Every frame gets the time it was made at, whether the wrap comes before *)
(* the first frame of one stream, between frames out of order or in both   *)
(* streams at different times. Five things break it: the two first frames  *)
(* looked at at once, a stream that starts after the other has counted a   *)
(* wrap, a frame made before the wrap behind a first frame made after it,  *)
(* a frame in hand during flush(), and a base read while the other thread  *)
(* is about to raise it.                                                   *)
TimesAreExact ==
    [][\A s \in Streams :
         Return(s) => \/ out'[s] = Expected(s, time[s])
                      \/ past \cap {"crossedStart", "lateStart", "leading", "inFlush"} # {}
                      \/ pc[Other(s)] = "bump"]_vars

(* The time of a stream never jumps by more than frames out of order and   *)
(* one lost tick explain: not when it wraps, not while a wrap is only      *)
(* suspected and not when it is counted. Only the other stream's first     *)
(* frame, or a frame in hand during flush(), can make it jump.             *)
NoJump ==
    [][\A s \in Streams :
         Return(s) /\ out[s] # NoPts =>
           \/ Gap(out'[s], out[s]) =< Micro(2 * Jitter + 2) + 1
           \/ past \cap {"rebased", "leading", "inFlush"} # {}]_vars
=============================================================================
