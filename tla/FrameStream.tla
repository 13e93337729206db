----------------------------- MODULE FrameStream -----------------------------
(***************************************************************************)
(* What feedData() and flush() promise together of one stream, without      *)
(* queues, messages and threads: frames reach the codec in the order they   *)
(* were fed, no part of one twice, and a flush() cuts the stream: of what    *)
(* was fed before it nothing is delivered any more. FeedPath implements it.  *)
(***************************************************************************)
EXTENDS Naturals

CONSTANT MaxFrames (* bound on the frames fed *)

VARIABLES
    need, (* per frame, its parts, of which some may never be delivered *)
    fed,  (* the frame fed last                                         *)
    cut,  (* the last frame a flush() threw away                        *)
    got   (* per frame, the parts the codec got                         *)

vars == <<need, fed, cut, got>>
Frames == 1 .. MaxFrames

Init ==
    /\ need \in [Frames -> Nat \ {0}]
    /\ fed = 0 /\ cut = 0 /\ got = [f \in Frames |-> 0]

Feed ==
    /\ fed < MaxFrames
    /\ fed' = fed + 1
    /\ UNCHANGED <<need, cut, got>>

(* A part of a frame that no flush() cut, and that no later frame overtook. *)
Deliver(f) ==
    /\ f > cut /\ f <= fed
    /\ got[f] < need[f]
    /\ \A g \in Frames : g > f => got[g] = 0
    /\ got' = [got EXCEPT ![f] = @ + 1]
    /\ UNCHANGED <<need, fed, cut>>

(* All that was fed, but at most the frame whose feedData() is in course. *)
Cut ==
    /\ cut' \in {fed - 1, fed} /\ cut' >= cut
    /\ UNCHANGED <<need, fed, got>>

Next == Feed \/ Cut \/ \E f \in Frames : Deliver(f)

Spec == Init /\ [][Next]_vars
=============================================================================
