---------------------------- MODULE AvSyncProofs ----------------------------
(***************************************************************************)
(* Proofs about AvSync, for any thresholds, any differences of the time      *)
(* stamps and any number of frames, buffers, events and commands.            *)
(***************************************************************************)
EXTENDS AvSync, SequenceTheorems, TLAPS

Places == {"idle", "judge", "decide", "hold", "high", "allow", "low", "write"}
Announcing(s) == pc[s] \in {"high", "low"}
Undisturbed(kinds) == past \subseteq kinds /\ ~crossed

(* What the client will do once it has heard everything that was posted.    *)
WillFeed == IF events = <<>> THEN feeding ELSE events[Len(events)] # "HIGH"

(* Announcements that nothing crossed come one at a time.                   *)
OneAtATime ==
    ~crossed =>
        /\ port => \A s \in Streams : ~Announcing(s)
        /\ \A r, s \in Streams : Announcing(r) /\ Announcing(s) => r = s

FlushNoted == flushing => "flush" \in past

(* Before the first video frame is judged nobody asks for a hold.           *)
Beginning ==
    (past \subseteq {"port"} /\ "video" \notin stamped) =>
        /\ sync = "ALLOW" /\ WillFeed
        /\ \A s \in Streams : new[s] = "ALLOW" /\ pc[s] \notin {"hold", "high"}

(* A client that will be stopped is remembered, also before it is told.     *)
Remembered ==
    Undisturbed({"port"}) =>
        /\ ~Unposted /\ ~WillFeed => sync # "ALLOW"
        /\ \A s \in Streams : pc[s] = "high" => sync # "ALLOW"

(* A client that will feed is not held, also before it is told.             *)
Released ==
    Undisturbed({"port", "play", "zero"}) =>
        /\ ~Unposted /\ WillFeed => sync # "HOLD"
        /\ port \/ (\E s \in Streams : pc[s] = "low") => sync # "HOLD"

(* Video ends no hold: it is the audio thread that does. A hold that the    *)
(* audio thread has read stays, but while the video thread, which has read  *)
(* it too, has written a skip and is about to write the hold again.         *)
VideoWillHold == pc["video"] \in {"decide", "hold"} /\ new["video"] = "HOLD"

AudioEndsHolds ==
    past \subseteq {"flush", "zero"} =>
        /\ (pc["audio"] \in {"judge", "decide", "hold"} /\ new["audio"] = "HOLD")
              => sync = "HOLD" \/ VideoWillHold
        /\ pc["video"] = "hold" => new["video"] = "HOLD"
        /\ (pc["audio"] = "hold") => new["audio"] = "HOLD"
        /\ (pc["video"] = "judge" /\ sync = "HOLD") => new["video"] = "HOLD"
        /\ (pc["video"] = "decide" /\ sync = "HOLD") => new["video"] # "ALLOW"
        /\ pc["video"] \notin {"allow", "low"}

(* After a LOW there is no hold to end until the next HIGH is on its way.   *)
EndsInLow == events # <<>> /\ events[Len(events)] = "LOW"

HoldHasHigh ==
    Undisturbed({"flush", "zero"}) =>
        /\ EndsInLow => \/ sync # "HOLD" /\ pc["audio"] # "allow"
                        \/ \E s \in Streams : pc[s] = "high"
        /\ pc["audio"] = "low" => ~EndsInLow /\ sync # "HOLD"

Inv == TypeOK /\ OneAtATime /\ FlushNoted /\ Beginning /\ Remembered /\ Released
       /\ AudioEndsHolds /\ HoldHasHigh /\ LowOnlyAfterHigh
-----------------------------------------------------------------------------
(* Posting puts an event last; the client takes the first.                  *)
LEMMA PostFacts ==
    ASSUME TypeOK, NEW e \in {"HIGH", "LOW", "PORT"}, Notify(e)
    PROVE  /\ events' \in Seq({"HIGH", "LOW", "PORT"}) /\ Len(events') <= MaxEvents
           /\ Len(events') = Len(events) + 1 /\ Len(events) \in Nat
           /\ events' # <<>> /\ events'[Len(events')] = e
           /\ \A i \in 1 .. Len(events) : events'[i] = events[i]
<1>1. events \in Seq({"HIGH", "LOW", "PORT"}) /\ MaxEvents \in Nat
  BY AvSyncAssumption DEF TypeOK
<1>2. events' = Append(events, e) /\ Len(events) < MaxEvents
  BY DEF Notify
<1>3. QED
  BY <1>1, <1>2

(* Taking the first event leaves the others in their order; the newest     *)
(* stays.                                                                  *)
LEMMA TakeFacts ==
    ASSUME TypeOK, events # <<>>, events' = Tail(events)
    PROVE  /\ events' \in Seq({"HIGH", "LOW", "PORT"}) /\ Len(events') <= MaxEvents
           /\ Len(events') = Len(events) - 1 /\ Len(events) \in Nat /\ Len(events) > 0
           /\ \A i \in 1 .. Len(events') : events'[i] = events[i + 1]
           /\ events' # <<>> => events'[Len(events')] = events[Len(events)]
           /\ events' = <<>> => Head(events) = events[Len(events)]
<1>1. events \in Seq({"HIGH", "LOW", "PORT"}) /\ MaxEvents \in Nat /\ Len(events) <= MaxEvents
  BY AvSyncAssumption DEF TypeOK
<1>2. /\ events' \in Seq({"HIGH", "LOW", "PORT"}) /\ Len(events') = Len(events) - 1
      /\ Len(events) \in Nat /\ Len(events) > 0
  BY <1>1
<1>3. \A i \in 1 .. Len(events') : events'[i] = events[i + 1]
  BY <1>1, <1>2
<1>4. events' # <<>> => events'[Len(events')] = events[Len(events)]
  <2>1. events' # <<>> => Len(events') \in 1 .. Len(events')
    BY <1>2
  <2>2. QED
    BY <1>2, <1>3, <2>1
<1>5. events' = <<>> => Head(events) = events[Len(events)]
  <2>1. Len(<<>>) = 0
    BY EmptySeq
  <2>2. ASSUME events' = <<>> PROVE Len(events) = 1
    <3>1. Len(events') = 0
      BY <2>1, <2>2, Zenon
    <3>2. QED
      BY <1>2, <3>1
  <2>3. Head(events) = events[1]
    BY <1>1
  <2>4. QED
    BY <2>2, <2>3
<1>6. QED
  BY <1>1, <1>2, <1>3, <1>4, <1>5

(* The variables keep their types. *)
LEMMA TypeStep == TypeOK /\ [Next]_vars => TypeOK'
<1> SUFFICES ASSUME TypeOK, [Next]_vars PROVE TypeOK'
  OBVIOUS
<1> USE AvSyncAssumption DEF Streams, Places, GoTo, localVars, commandVars
<1>1. CASE UNCHANGED vars
  BY <1>1 DEF TypeOK, vars
<1>2. ASSUME NEW s \in Streams, Enter(s) PROVE TypeOK'
  BY <1>2 DEF TypeOK, Enter
<1>3. CASE JudgeVideo
  <2>1. VideoSync \in {"ALLOW", "HOLD", "SKIP"} /\ VideoWish \in {"ALLOW", "HOLD", "SKIP"}
    BY DEF TypeOK, VideoSync, VideoWish
  <2>2. stamped' \subseteq Streams /\ past' \subseteq {"port", "flush", "play", "zero"}
    BY <1>3 DEF TypeOK, JudgeVideo, Judged
  <2>3. QED
    BY <1>3, <2>1, <2>2 DEF TypeOK, JudgeVideo, Judged
<1>4. CASE JudgeAudio
  <2>1. stamped' \subseteq Streams /\ past' \subseteq {"port", "flush", "play", "zero"}
    BY <1>4 DEF TypeOK, JudgeAudio, Judged
  <2>2. QED
    BY <1>4, <2>1 DEF TypeOK, JudgeAudio, Judged
<1>5. ASSUME NEW s \in Streams, Decide(s) PROVE TypeOK'
  BY <1>5 DEF TypeOK, Decide, Done
<1>6. ASSUME NEW s \in Streams, WriteHold(s) \/ WriteAllow(s) PROVE TypeOK'
  <2>1. crossed' \in BOOLEAN /\ sync' \in {"ALLOW", "HOLD", "SKIP"}
    BY <1>6 DEF WriteHold, WriteAllow, WriteSync
  <2>2. pc' \in [Streams -> Places]
    BY <1>6 DEF TypeOK, WriteHold, WriteAllow, WriteSync
  <2>3. UNCHANGED <<stamped, used, events, feeding, localVars, commandVars>>
    BY <1>6 DEF WriteHold, WriteAllow, WriteSync
  <2>4. QED
    BY <2>1, <2>2, <2>3 DEF TypeOK
<1>7. ASSUME NEW s \in Streams, PostHigh(s) \/ PostLow(s) PROVE TypeOK'
  <2>1. events' \in Seq({"HIGH", "LOW", "PORT"}) /\ Len(events') <= MaxEvents
    BY <1>7, PostFacts DEF PostHigh, PostLow
  <2>2. pc' \in [Streams -> Places]
    BY <1>7 DEF TypeOK, PostHigh, PostLow, Done
  <2>3. UNCHANGED <<sync, stamped, used, feeding, localVars, commandVars, crossed>>
    BY <1>7 DEF PostHigh, PostLow
  <2>4. QED
    BY <2>1, <2>2, <2>3 DEF TypeOK
<1>8. CASE WriteVideo
  BY <1>8 DEF TypeOK, WriteVideo
<1>9. CASE Decoded
  BY <1>9 DEF TypeOK, Decoded
<1>10. CASE Deliver
  <2>1. events' \in Seq({"HIGH", "LOW", "PORT"}) /\ Len(events') <= MaxEvents
    BY <1>10, TakeFacts DEF Deliver
  <2>2. QED
    BY <1>10, <2>1 DEF TypeOK, Deliver
<1>11. CASE PortAllow
  <2>1. crossed' \in BOOLEAN
    BY <1>11 DEF PortAllow
  <2>2. QED
    BY <1>11, <2>1 DEF TypeOK, PortAllow, Command
<1>12. CASE PortNotify
  <2>1. events' \in Seq({"HIGH", "LOW", "PORT"}) /\ Len(events') <= MaxEvents
    BY <1>12, PostFacts DEF PortNotify
  <2>2. QED
    BY <1>12, <2>1 DEF TypeOK, PortNotify
<1>13. CASE FlushReset
  BY <1>13 DEF TypeOK, FlushReset, Command
<1>14. CASE FlushReturn
  BY <1>14 DEF TypeOK, FlushReturn
<1>15. CASE Play
  <2>1. stamped' \subseteq Streams /\ sync' = "ALLOW"
    BY <1>15 DEF TypeOK, Play
  <2>2. commands' \in 0 .. MaxCommands /\ past' \subseteq {"port", "flush", "play", "zero"}
    BY <1>15 DEF TypeOK, Play, Command
  <2>3. QED
    BY <1>15, <2>1, <2>2 DEF TypeOK, Play
<1>16. QED
  BY <1>1, <1>2, <1>3, <1>4, <1>5, <1>6, <1>7, <1>8, <1>9, <1>10, <1>11, <1>12, <1>13, <1>14, <1>15
  DEF Next, SetOmxFlags
-----------------------------------------------------------------------------
(* What the actions do to what the invariants below read.                   *)
WriteOf(s, state, place) ==
    /\ sync' = state /\ pc'[s] = place /\ \A r \in Streams : r # s => pc'[r] = pc[r]
    /\ crossed' = (crossed \/ Unposted)
    /\ UNCHANGED <<new, events, feeding, stamped, port, flushing, past>>

(* The write of a stream that decided to hold: the flag, then its event    *)
(* is due.                                                                 *)
LEMMA HoldFacts ==
    ASSUME TypeOK, NEW s \in Streams, WriteHold(s)
    PROVE  WriteOf(s, "HOLD", "high") /\ pc[s] = "hold"
BY DEF TypeOK, WriteHold, WriteSync, GoTo, WriteOf, localVars, commandVars

(* The write of a stream that ends the hold, with the LOW event due next. *)
LEMMA AllowFacts ==
    ASSUME TypeOK, NEW s \in Streams, WriteAllow(s)
    PROVE  WriteOf(s, "ALLOW", "low") /\ pc[s] = "allow"
BY DEF TypeOK, WriteAllow, WriteSync, GoTo, WriteOf, localVars, commandVars

PostOf(s, place, event) ==
    /\ pc[s] = place /\ pc'[s] \in {"write", "idle"} /\ (s = "audio" => pc'[s] = "idle")
    /\ \A r \in Streams : r # s => pc'[r] = pc[r]
    /\ Notify(event)
    /\ UNCHANGED <<sync, new, feeding, stamped, port, flushing, past, crossed>>

(* Posting HIGH puts it behind the events not yet delivered. *)
LEMMA HighFacts ==
    ASSUME TypeOK, NEW s \in Streams, PostHigh(s)
    PROVE  PostOf(s, "high", "HIGH")
BY DEF TypeOK, PostHigh, GoTo, Done, PostOf, localVars, commandVars

(* The same of LOW. *)
LEMMA LowFacts ==
    ASSUME TypeOK, NEW s \in Streams, PostLow(s)
    PROVE  PostOf(s, "low", "LOW")
BY DEF TypeOK, PostLow, GoTo, Done, PostOf, localVars, commandVars

(* A thread looks, judges and decides; it writes only sync_state_, if that. *)
LEMMA EnterFacts ==
    ASSUME TypeOK, NEW s \in Streams, Enter(s)
    PROVE  /\ pc[s] = "idle" /\ pc'[s] = "judge" /\ new'[s] = sync
           /\ \A r \in Streams : r # s => pc'[r] = pc[r] /\ new'[r] = new[r]
           /\ UNCHANGED <<sync, events, feeding, stamped, port, flushing, past, crossed>>
BY DEF TypeOK, Enter, GoTo, commandVars

(* A stream has begun when a frame of it was judged, unless its time stamp  *)
(* was 0, which is noted.                                                  *)
StampOf(s) ==
    \/ stamped' = stamped \cup {s} /\ UNCHANGED past
    \/ stamped' \subseteq stamped /\ past' = past \cup {"zero"}

(* What the gap makes of a video frame: a wish, and what is kept of the    *)
(* gap.                                                                    *)
LEMMA VideoFacts ==
    ASSUME TypeOK, JudgeVideo
    PROVE  /\ pc["video"] = "judge" /\ pc'["video"] = "decide" /\ pc'["audio"] = pc["audio"]
           /\ sync' = VideoSync /\ new'["video"] = VideoWish /\ new'["audio"] = new["audio"]
           /\ StampOf("video")
           /\ UNCHANGED <<events, feeding, port, flushing, crossed>>
BY DEF TypeOK, JudgeVideo, Judged, GoTo, Streams, StampOf

(* An audio frame can only wish to end a hold, never to begin one. *)
LEMMA AudioFacts ==
    ASSUME TypeOK, JudgeAudio
    PROVE  /\ pc["audio"] = "judge" /\ pc'["audio"] = "decide" /\ pc'["video"] = pc["video"]
           /\ new'["video"] = new["video"]
           /\ new'["audio"] = new["audio"] \/ (new'["audio"] = "ALLOW" /\ sync # "ALLOW")
           /\ StampOf("audio")
           /\ UNCHANGED <<sync, events, feeding, port, flushing, crossed>>
BY DEF TypeOK, JudgeAudio, Judged, GoTo, Streams, StampOf

(* Where a stream goes on after it compared its wish with the flag. *)
LEMMA DecideFacts ==
    ASSUME TypeOK, NEW s \in Streams, Decide(s)
    PROVE  /\ pc[s] = "decide" /\ pc'[s] \in {"hold", "allow", "write", "idle"}
           /\ pc'[s] = "hold" <=> Holds(s)
           /\ pc'[s] = "allow" <=> EndsHold(s)
           /\ s = "audio" => pc'[s] # "write"
           /\ \A r \in Streams : r # s => pc'[r] = pc[r]
           /\ UNCHANGED <<sync, new, events, feeding, stamped, port, flushing, past, crossed>>
<1>1. ~(Holds(s) /\ EndsHold(s))
  BY DEF Holds, EndsHold
<1>2. Done(s) \in {"write", "idle"} /\ (s = "audio" => Done(s) = "idle")
  BY DEF Done
<1>3. /\ pc[s] = "decide" /\ \A r \in Streams : r # s => pc'[r] = pc[r]
      /\ UNCHANGED <<sync, new, events, feeding, stamped, port, flushing, past, crossed>>
  BY DEF TypeOK, Decide, GoTo, localVars, commandVars
<1>4. \/ Holds(s) /\ pc'[s] = "hold"
      \/ EndsHold(s) /\ pc'[s] = "allow"
      \/ ~Holds(s) /\ ~EndsHold(s) /\ pc'[s] = Done(s)
  BY DEF TypeOK, Decide, GoTo
<1>5. QED
  BY <1>1, <1>2, <1>3, <1>4

(* Writing and decoding a video frame touch neither the flag nor the       *)
(* events.                                                                 *)
LEMMA FrameFacts ==
    ASSUME TypeOK, WriteVideo \/ Decoded
    PROVE  /\ pc'["audio"] = pc["audio"] /\ new'["audio"] = new["audio"]
           /\ \/ pc'["video"] = pc["video"] /\ new'["video"] = new["video"]
              \/ pc["video"] \in {"idle", "write"} /\ pc'["video"] = "idle" /\ new'["video"] = "ALLOW"
           /\ UNCHANGED <<sync, events, feeding, stamped, port, flushing, past, crossed>>
BY DEF TypeOK, WriteVideo, Decoded, GoTo, Streams, localVars, commandVars

(* Delivering an event makes of feeding what was to come of the events. *)
LEMMA DeliverFacts ==
    ASSUME TypeOK, Deliver
    PROVE  /\ WillFeed' = WillFeed /\ (EndsInLow' => EndsInLow)
           /\ UNCHANGED <<sync, pc, new, stamped, port, flushing, past, crossed>>
<1>1. events # <<>> /\ events' = Tail(events) /\ feeding' = (Head(events) # "HIGH")
  BY DEF Deliver
<1>2. WillFeed' = WillFeed
  <2>1. CASE events' = <<>>
    <3>1. Head(events) = events[Len(events)]
      BY <1>1, <2>1, TakeFacts
    <3>2. QED
      BY <1>1, <2>1, <3>1 DEF WillFeed
  <2>2. CASE events' # <<>>
    <3>1. events'[Len(events')] = events[Len(events)]
      BY <1>1, <2>2, TakeFacts
    <3>2. QED
      BY <1>1, <2>2, <3>1 DEF WillFeed
  <2>3. QED
    BY <2>1, <2>2
<1>3. EndsInLow' => EndsInLow
  BY <1>1, TakeFacts DEF EndsInLow
<1>4. QED
  BY <1>2, <1>3 DEF Deliver, localVars, commandVars

(* What is posted last decides what the client will do.                     *)
LEMMA NotifyFacts ==
    ASSUME TypeOK, NEW e \in {"HIGH", "LOW", "PORT"}, Notify(e)
    PROVE  /\ WillFeed' = (e # "HIGH")
           /\ EndsInLow' <=> e = "LOW"
BY PostFacts DEF WillFeed, EndsInLow
-----------------------------------------------------------------------------
(* At most one stream is between its write of the flag and its event:      *)
(* every step keeps it.                                                    *)
LEMMA OneStep == TypeOK /\ OneAtATime /\ [Next]_vars => OneAtATime'
<1> SUFFICES ASSUME TypeOK, OneAtATime, [Next]_vars PROVE OneAtATime'
  OBVIOUS
<1> USE DEF OneAtATime, Announcing
<1>1. ASSUME UNCHANGED <<port, crossed>>, \A s \in Streams : Announcing(s)' => Announcing(s)
      PROVE OneAtATime'
  BY <1>1
<1>2. ASSUME NEW s \in Streams, Enter(s) PROVE OneAtATime'
  BY <1>2, EnterFacts
<1>3. CASE JudgeVideo
  BY <1>3, VideoFacts DEF Streams
<1>4. CASE JudgeAudio
  BY <1>4, AudioFacts DEF Streams
<1>5. ASSUME NEW s \in Streams, Decide(s) PROVE OneAtATime'
  BY <1>5, DecideFacts
<1>6. ASSUME NEW s \in Streams, NEW state, NEW place, WriteOf(s, state, place) PROVE OneAtATime'
  BY <1>6 DEF WriteOf, Unposted
<1>7. ASSUME NEW s \in Streams, NEW place, NEW event, PostOf(s, place, event) PROVE OneAtATime'
  BY <1>7 DEF PostOf
<1>8. CASE WriteVideo \/ Decoded
  BY <1>8, FrameFacts DEF Streams
<1>9. CASE Deliver
  BY <1>9, DeliverFacts
<1>10. CASE PortAllow
  BY <1>10 DEF PortAllow, Unposted
<1>11. CASE PortNotify
  BY <1>11 DEF PortNotify
<1>12. CASE FlushReset \/ FlushReturn \/ Play
  BY <1>12 DEF FlushReset, FlushReturn, Play
<1>13. QED
  BY <1>1, <1>2, <1>3, <1>4, <1>5, <1>6, <1>7, <1>8, <1>9, <1>10, <1>11, <1>12,
     HoldFacts, AllowFacts, HighFacts, LowFacts
  DEF Next, SetOmxFlags, vars, commandVars

(* A flush that meets a frame in hand is noted: every step keeps it. *)
LEMMA NotedStep == TypeOK /\ FlushNoted /\ [Next]_vars => FlushNoted'
<1> SUFFICES ASSUME TypeOK, FlushNoted, [Next]_vars PROVE FlushNoted'
  OBVIOUS
<1>1. ASSUME UNCHANGED flushing, past \subseteq past' PROVE FlushNoted'
  BY <1>1 DEF FlushNoted
<1>2. CASE \E s \in Streams : SetOmxFlags(s)
  BY <1>1, <1>2, EnterFacts, DecideFacts, HoldFacts, AllowFacts, HighFacts, LowFacts
  DEF SetOmxFlags, WriteOf, PostOf
<1>3. CASE JudgeVideo \/ JudgeAudio \/ WriteVideo \/ Decoded \/ Deliver
  BY <1>1, <1>3, VideoFacts, AudioFacts, FrameFacts, DeliverFacts DEF StampOf
<1>4. CASE PortAllow \/ PortNotify \/ FlushReset \/ FlushReturn \/ Play
  BY <1>4 DEF FlushNoted, PortAllow, PortNotify, FlushReset, FlushReturn, Play, Command
<1>5. QED
  BY <1>1, <1>2, <1>3, <1>4 DEF Next, vars, commandVars

(* Nothing but a first video frame ends the time of Beginning.               *)
LEMMA BeginStep == TypeOK /\ Beginning /\ [Next]_vars => Beginning'
<1> SUFFICES ASSUME TypeOK, Beginning, [Next]_vars PROVE Beginning'
  OBVIOUS
<1> USE DEF Beginning
<1>1. ASSUME UNCHANGED <<sync, events, feeding, pc, new, stamped, past>> PROVE Beginning'
  BY <1>1 DEF WillFeed
<1>0. ASSUME UNCHANGED <<events, feeding>> PROVE WillFeed' = WillFeed
  BY <1>0 DEF WillFeed
<1>2. ASSUME NEW s \in Streams, Enter(s) PROVE Beginning'
  <2>1. WillFeed' = WillFeed
    BY <1>0, <1>2, EnterFacts
  <2>2. QED
    BY <1>2, <2>1, EnterFacts
<1>3. CASE JudgeVideo
  BY <1>3, VideoFacts DEF StampOf
<1>4. CASE JudgeAudio
  <2>1. WillFeed' = WillFeed
    BY <1>0, <1>4, AudioFacts
  <2>2. past' \subseteq {"port"} /\ "video" \notin stamped' => past \subseteq {"port"} /\ "video" \notin stamped
    <3>1. CASE stamped' = stamped \cup {"audio"} /\ past' = past
      BY <3>1
    <3>2. CASE past' = past \cup {"zero"}
      <4>1. "zero" \in past'
        BY <3>2
      <4>2. QED
        BY <4>1
    <3>3. QED
      BY <1>4, <3>1, <3>2, AudioFacts DEF StampOf
  <2>3. QED
    BY <1>4, <2>1, <2>2, AudioFacts DEF Streams
<1>5. ASSUME NEW s \in Streams, Decide(s) PROVE Beginning'
  <2>1. WillFeed' = WillFeed
    BY <1>0, <1>5, DecideFacts
  <2>2. new[s] = "ALLOW" => pc'[s] # "hold"
    BY <1>5, DecideFacts DEF Holds
  <2>3. pc'[s] # "high"
    BY <1>5, DecideFacts
  <2>4. QED
    BY <1>5, <2>1, <2>2, <2>3, DecideFacts
<1>6. ASSUME NEW s \in Streams, WriteHold(s) PROVE Beginning'
  BY <1>6, HoldFacts DEF WriteOf
<1>7. ASSUME NEW s \in Streams, WriteAllow(s) PROVE Beginning'
  <2>1. WillFeed' = WillFeed
    BY <1>0, <1>7, AllowFacts DEF WriteOf
  <2>2. QED
    BY <1>7, <2>1, AllowFacts DEF WriteOf
<1>8. ASSUME NEW s \in Streams, PostHigh(s) PROVE Beginning'
  BY <1>8, HighFacts DEF PostOf
<1>9. ASSUME NEW s \in Streams, PostLow(s) PROVE Beginning'
  <2>1. WillFeed'
    BY <1>9, LowFacts, NotifyFacts DEF PostOf
  <2>2. QED
    BY <1>9, <2>1, LowFacts DEF PostOf
<1>10. CASE WriteVideo \/ Decoded
  <2>1. WillFeed' = WillFeed
    BY <1>0, <1>10, FrameFacts
  <2>2. QED
    BY <1>10, <2>1, FrameFacts DEF Streams
<1>11. CASE Deliver
  BY <1>11, DeliverFacts
<1>12. CASE PortAllow
  BY <1>12 DEF PortAllow, Command, localVars, WillFeed
<1>13. CASE PortNotify
  <2>1. WillFeed'
    BY <1>13, NotifyFacts DEF PortNotify
  <2>2. QED
    BY <1>13, <2>1 DEF PortNotify, localVars
<1>14. CASE FlushReset \/ Play
  BY <1>14 DEF FlushReset, Play, Command
<1>15. CASE FlushReturn
  BY <1>15 DEF FlushReturn, localVars, WillFeed
<1>16. QED
  BY <1>1, <1>2, <1>3, <1>4, <1>5, <1>6, <1>7, <1>8, <1>9, <1>10, <1>11, <1>12, <1>13, <1>14, <1>15
  DEF Next, SetOmxFlags, vars, localVars, commandVars

(* A client that will be stopped is still remembered after every step. *)
LEMMA RememberStep == TypeOK /\ OneAtATime /\ Beginning /\ Remembered /\ [Next]_vars => Remembered'
<1> SUFFICES ASSUME TypeOK, OneAtATime, Beginning, Remembered, [Next]_vars PROVE Remembered'
  OBVIOUS
<1> USE DEF Remembered, Undisturbed, Unposted
<1>1. ASSUME UNCHANGED <<sync, port, crossed>>, past \subseteq past', WillFeed' = WillFeed,
             \A s \in Streams : /\ pc'[s] = "high" <=> pc[s] = "high"
                                /\ pc'[s] = "low" <=> pc[s] = "low"
      PROVE Remembered'
  BY <1>1
<1>2. ASSUME NEW s \in Streams, Enter(s) PROVE Remembered'
  BY <1>1, <1>2, EnterFacts DEF WillFeed
<1>3. CASE JudgeVideo
  <2>1. "video" \in stamped => VideoSync = sync \/ VideoSync = "SKIP"
    BY DEF VideoSync
  <2>2. WillFeed' = WillFeed
    BY <1>3, VideoFacts DEF WillFeed
  <2>3. QED
    BY <1>3, <2>1, <2>2, VideoFacts DEF Beginning, Streams, StampOf
<1>4. CASE JudgeAudio
  BY <1>1, <1>4, AudioFacts DEF WillFeed, Streams, StampOf
<1>5. ASSUME NEW s \in Streams, Decide(s) PROVE Remembered'
  BY <1>1, <1>5, DecideFacts DEF WillFeed
<1>6. ASSUME NEW s \in Streams, WriteHold(s) PROVE Remembered'
  BY <1>6, HoldFacts DEF WriteOf
<1>7. ASSUME NEW s \in Streams, WriteAllow(s) PROVE Remembered'
  BY <1>7, AllowFacts DEF WriteOf
<1>8. ASSUME NEW s \in Streams, PostHigh(s) PROVE Remembered'
  BY <1>8, HighFacts DEF PostOf
<1>9. ASSUME NEW s \in Streams, PostLow(s) PROVE Remembered'
  <2>1. WillFeed'
    BY <1>9, LowFacts, NotifyFacts DEF PostOf
  <2>2. QED
    BY <1>9, <2>1, LowFacts DEF PostOf
<1>10. CASE WriteVideo \/ Decoded
  BY <1>1, <1>10, FrameFacts DEF WillFeed, Streams
<1>11. CASE Deliver
  BY <1>1, <1>11, DeliverFacts
<1>12. CASE PortAllow
  BY <1>12 DEF PortAllow
<1>13. CASE PortNotify
  <2>1. WillFeed'
    BY <1>13, NotifyFacts DEF PortNotify
  <2>2. QED
    BY <1>13, <2>1 DEF PortNotify
<1>14. CASE FlushReset \/ Play
  BY <1>14 DEF FlushReset, Play, Command
<1>15. CASE FlushReturn
  BY <1>15 DEF FlushReturn, WillFeed
<1>16. CASE UNCHANGED vars
  BY <1>1, <1>16 DEF vars, commandVars, WillFeed
<1>17. QED
  BY <1>2, <1>3, <1>4, <1>5, <1>6, <1>7, <1>8, <1>9, <1>10, <1>11, <1>12, <1>13, <1>14, <1>15, <1>16
  DEF Next, SetOmxFlags

(* A client that will feed is still not held after every step. *)
LEMMA ReleaseStep == TypeOK /\ OneAtATime /\ FlushNoted /\ Released /\ [Next]_vars => Released'
<1> SUFFICES ASSUME TypeOK, OneAtATime, FlushNoted, Released, [Next]_vars PROVE Released'
  OBVIOUS
<1> USE DEF Released, Undisturbed, Unposted
<1>1. ASSUME UNCHANGED <<sync, port, crossed>>, past \subseteq past', WillFeed' = WillFeed,
             \A s \in Streams : /\ pc'[s] = "high" <=> pc[s] = "high"
                                /\ pc'[s] = "low" <=> pc[s] = "low"
      PROVE Released'
  BY <1>1
<1>2. ASSUME NEW s \in Streams, Enter(s) PROVE Released'
  BY <1>1, <1>2, EnterFacts DEF WillFeed
<1>3. CASE JudgeVideo
  <2>1. VideoSync = sync \/ VideoSync # "HOLD"
    BY DEF VideoSync
  <2>2. WillFeed' = WillFeed
    BY <1>3, VideoFacts DEF WillFeed
  <2>3. QED
    BY <1>3, <2>1, <2>2, VideoFacts DEF Streams, StampOf
<1>4. CASE JudgeAudio
  BY <1>1, <1>4, AudioFacts DEF WillFeed, Streams, StampOf
<1>5. ASSUME NEW s \in Streams, Decide(s) PROVE Released'
  BY <1>1, <1>5, DecideFacts DEF WillFeed
<1>6. ASSUME NEW s \in Streams, WriteHold(s) PROVE Released'
  BY <1>6, HoldFacts DEF WriteOf
<1>7. ASSUME NEW s \in Streams, WriteAllow(s) PROVE Released'
  BY <1>7, AllowFacts DEF WriteOf
<1>8. ASSUME NEW s \in Streams, PostHigh(s) PROVE Released'
  <2>1. ~WillFeed'
    BY <1>8, HighFacts, NotifyFacts DEF PostOf
  <2>2. QED
    BY <1>8, <2>1, HighFacts DEF PostOf
<1>9. ASSUME NEW s \in Streams, PostLow(s) PROVE Released'
  BY <1>9, LowFacts DEF PostOf
<1>10. CASE WriteVideo \/ Decoded
  BY <1>1, <1>10, FrameFacts DEF WillFeed, Streams
<1>11. CASE Deliver
  BY <1>1, <1>11, DeliverFacts
<1>12. CASE PortAllow
  BY <1>12 DEF PortAllow
<1>13. CASE PortNotify
  BY <1>13 DEF PortNotify
<1>14. CASE FlushReset
  BY <1>14 DEF FlushReset, Command
<1>15. CASE FlushReturn
  BY <1>15 DEF FlushReturn, FlushNoted
<1>16. CASE Play
  BY <1>16 DEF Play, Command
<1>17. CASE UNCHANGED vars
  BY <1>1, <1>17 DEF vars, commandVars, WillFeed
<1>18. QED
  BY <1>2, <1>3, <1>4, <1>5, <1>6, <1>7, <1>8, <1>9, <1>10, <1>11, <1>12, <1>13, <1>14, <1>15,
     <1>16, <1>17
  DEF Next, SetOmxFlags

(* Only the audio thread ends a hold, and only one there is: every step    *)
(* keeps it.                                                               *)
LEMMA EndsStep == TypeOK /\ AudioEndsHolds /\ [Next]_vars => AudioEndsHolds'
<1> SUFFICES ASSUME TypeOK, AudioEndsHolds, [Next]_vars PROVE AudioEndsHolds'
  OBVIOUS
<1> USE DEF AudioEndsHolds, VideoWillHold, Streams
<1>1. ASSUME UNCHANGED <<sync, pc, new, past>> PROVE AudioEndsHolds'
  BY <1>1
<1>2. ASSUME NEW s \in Streams, Enter(s) PROVE AudioEndsHolds'
  BY <1>2, EnterFacts
<1>3. CASE JudgeVideo
  <2>1. sync = "HOLD" /\ new["video"] = "HOLD" => VideoWish = "HOLD"
    BY DEF VideoSync, VideoWish
  <2>2. sync # "HOLD" => VideoSync # "HOLD"
    BY DEF VideoSync
  <2>3. QED
    BY <1>3, <2>1, <2>2, VideoFacts DEF StampOf
<1>4. CASE JudgeAudio
  BY <1>4, AudioFacts DEF StampOf
<1>5. ASSUME NEW s \in Streams, Decide(s) PROVE AudioEndsHolds'
  BY <1>5, DecideFacts DEF Holds, EndsHold
<1>6. ASSUME NEW s \in Streams, WriteHold(s) PROVE AudioEndsHolds'
  BY <1>6, HoldFacts DEF WriteOf
<1>7. ASSUME NEW s \in Streams, WriteAllow(s) PROVE AudioEndsHolds'
  BY <1>7, AllowFacts DEF WriteOf
<1>8. ASSUME NEW s \in Streams, PostHigh(s) \/ PostLow(s) PROVE AudioEndsHolds'
  BY <1>8, HighFacts, LowFacts DEF PostOf
<1>9. CASE WriteVideo \/ Decoded
  BY <1>9, FrameFacts
<1>10. CASE Deliver
  BY <1>10, DeliverFacts
<1>11. CASE PortAllow \/ Play
  BY <1>11 DEF PortAllow, Play, Command
<1>12. CASE PortNotify \/ FlushReturn
  BY <1>1, <1>12 DEF PortNotify, FlushReturn, localVars
<1>13. CASE FlushReset
  BY <1>13 DEF FlushReset, Command, localVars
<1>14. QED
  BY <1>1, <1>2, <1>3, <1>4, <1>5, <1>6, <1>7, <1>8, <1>9, <1>10, <1>11, <1>12, <1>13
  DEF Next, SetOmxFlags, vars, localVars, commandVars

(* After a LOW there is no hold without a HIGH on its way: every step      *)
(* keeps it.                                                               *)
LEMMA HighStep == TypeOK /\ AudioEndsHolds /\ HoldHasHigh /\ [Next]_vars => HoldHasHigh'
<1> SUFFICES ASSUME TypeOK, AudioEndsHolds, HoldHasHigh, [Next]_vars PROVE HoldHasHigh'
  OBVIOUS
<1> USE DEF HoldHasHigh, Undisturbed, Streams
<1>1. ASSUME UNCHANGED <<sync, events, crossed>>, past \subseteq past',
             \A s \in Streams : pc[s] = "high" => pc'[s] = "high",
             pc'["audio"] \in {"allow", "low"} => pc'["audio"] = pc["audio"]
      PROVE HoldHasHigh'
  BY <1>1 DEF EndsInLow
<1>2. ASSUME NEW s \in Streams, Enter(s) PROVE HoldHasHigh'
  BY <1>1, <1>2, EnterFacts
<1>3. CASE JudgeVideo
  <2>1. sync # "HOLD" => VideoSync # "HOLD"
    BY DEF VideoSync
  <2>2. QED
    BY <1>3, <2>1, VideoFacts DEF EndsInLow, StampOf
<1>4. CASE JudgeAudio
  BY <1>1, <1>4, AudioFacts DEF StampOf
<1>5. ASSUME NEW s \in Streams, Decide(s) PROVE HoldHasHigh'
  BY <1>5, DecideFacts DEF EndsInLow, EndsHold
<1>6. ASSUME NEW s \in Streams, WriteHold(s) PROVE HoldHasHigh'
  <2>1. pc'[s] = "high" /\ crossed' = (crossed \/ Unposted) /\ UNCHANGED <<events, past>>
    BY <1>6, HoldFacts DEF WriteOf
  <2>2. pc'["audio"] = "low" => pc["audio"] = "low"
    BY <1>6, HoldFacts DEF WriteOf
  <2>3. pc["audio"] = "low" => Unposted
    BY DEF Unposted
  <2>4. QED
    BY <2>1, <2>2, <2>3
<1>7. ASSUME NEW s \in Streams, WriteAllow(s) PROVE HoldHasHigh'
  <2>1. /\ pc[s] = "allow" /\ pc'[s] = "low" /\ sync' = "ALLOW"
        /\ \A r \in Streams : r # s => pc'[r] = pc[r]
        /\ crossed' = (crossed \/ Unposted) /\ UNCHANGED <<events, past>>
    BY <1>7, AllowFacts DEF WriteOf
  <2>2. EndsInLow' = EndsInLow
    BY <2>1 DEF EndsInLow
  <2>3. SUFFICES ASSUME ~crossed, ~Unposted, past \subseteq {"flush", "zero"} PROVE HoldHasHigh'
    BY <2>1
  <2>4. s = "audio"
    BY <2>1, <2>3 DEF AudioEndsHolds
  <2>5. ~EndsInLow
    BY <2>1, <2>3, <2>4 DEF Unposted
  <2>6. QED
    BY <2>1, <2>2, <2>5
<1>8. ASSUME NEW s \in Streams, PostHigh(s) PROVE HoldHasHigh'
  <2>1. ~EndsInLow'
    BY <1>8, HighFacts, NotifyFacts DEF PostOf
  <2>2. pc'["audio"] = "low" => pc["audio"] = "low"
    BY <1>8, HighFacts DEF PostOf
  <2>3. UNCHANGED <<sync, past, crossed>>
    BY <1>8, HighFacts DEF PostOf
  <2>4. QED
    BY <2>1, <2>2, <2>3
<1>9. ASSUME NEW s \in Streams, PostLow(s), ~crossed, past \subseteq {"flush", "zero"}
      PROVE HoldHasHigh'
  <2>1. s = "audio"
    BY <1>9, LowFacts DEF PostOf, AudioEndsHolds
  <2>2. QED
    BY <1>9, <2>1, LowFacts DEF PostOf
<1>10. CASE WriteVideo \/ Decoded
  BY <1>1, <1>10, FrameFacts
<1>11. CASE Deliver
  BY <1>11, DeliverFacts
<1>12. CASE PortAllow \/ Play
  BY <1>12 DEF PortAllow, Play, Command
<1>13. CASE PortNotify
  <2>1. ~EndsInLow'
    BY <1>13, NotifyFacts DEF PortNotify
  <2>2. UNCHANGED <<sync, pc, past, crossed>>
    BY <1>13 DEF PortNotify
  <2>3. QED
    BY <2>1, <2>2
<1>14. CASE FlushReset
  BY <1>14 DEF FlushReset, Command, localVars, EndsInLow
<1>15. CASE FlushReturn
  BY <1>1, <1>15 DEF FlushReturn
<1>16. CASE UNCHANGED vars
  BY <1>1, <1>16 DEF vars, commandVars
<1>17. QED
  <2>1. ASSUME NEW s \in Streams, PostLow(s) PROVE HoldHasHigh'
    BY <1>9, <2>1, LowFacts DEF PostOf
  <2>2. QED
    BY <2>1, <1>2, <1>3, <1>4, <1>5, <1>6, <1>7, <1>8, <1>10, <1>11, <1>12, <1>13, <1>14, <1>15, <1>16
    DEF Next, SetOmxFlags

(* A LOW is posted behind something else.                                   *)
LEMMA LowStep == TypeOK /\ AudioEndsHolds /\ HoldHasHigh /\ LowOnlyAfterHigh /\ [Next]_vars
                   => LowOnlyAfterHigh'
<1> SUFFICES ASSUME TypeOK, AudioEndsHolds, HoldHasHigh, LowOnlyAfterHigh, [Next]_vars
             PROVE LowOnlyAfterHigh'
  OBVIOUS
<1>1. ASSUME UNCHANGED events, past \subseteq past', crossed => crossed' PROVE LowOnlyAfterHigh'
  BY <1>1 DEF LowOnlyAfterHigh
<1>2. ASSUME NEW e \in {"HIGH", "LOW", "PORT"}, Notify(e), past \subseteq past', crossed' = crossed,
             (e = "LOW" /\ past \subseteq {"flush", "zero"} /\ ~crossed) => ~EndsInLow
      PROVE LowOnlyAfterHigh'
  <2>1. SUFFICES ASSUME past \subseteq {"flush", "zero"}, ~crossed,
                        NEW i \in 1 .. Len(events') - 1, events'[i] = "LOW"
                 PROVE events'[i + 1] # "LOW"
    BY <1>2 DEF LowOnlyAfterHigh
  <2>2. /\ Len(events) \in Nat /\ Len(events') = Len(events) + 1 /\ events'[Len(events')] = e
        /\ \A k \in 1 .. Len(events) : events'[k] = events[k]
    BY <1>2, PostFacts
  <2>3. i \in 1 .. Len(events) /\ events[i] = "LOW"
    BY <2>1, <2>2
  <2>4. CASE i = Len(events)
    <3>1. EndsInLow
      BY <2>2, <2>3, <2>4, EmptySeq DEF EndsInLow
    <3>2. QED
      BY <1>2, <2>1, <2>2, <2>4, <3>1
  <2>5. CASE i # Len(events)
    <3>1. i \in 1 .. Len(events) - 1 /\ i + 1 \in 1 .. Len(events)
      BY <2>2, <2>3, <2>5
    <3>2. events[i + 1] # "LOW"
      BY <2>1, <2>3, <3>1 DEF LowOnlyAfterHigh
    <3>3. QED
      BY <2>2, <3>1, <3>2
  <2>6. QED
    BY <2>4, <2>5
<1>3. ASSUME NEW s \in Streams, PostHigh(s) PROVE LowOnlyAfterHigh'
  BY <1>2, <1>3, HighFacts DEF PostOf
<1>4. ASSUME NEW s \in Streams, PostLow(s) PROVE LowOnlyAfterHigh'
  <2>1. Notify("LOW") /\ past' = past /\ crossed' = crossed /\ pc[s] = "low"
    BY <1>4, LowFacts DEF PostOf
  <2>2. (past \subseteq {"flush", "zero"} /\ ~crossed) => ~EndsInLow
    BY <2>1 DEF AudioEndsHolds, HoldHasHigh, Undisturbed, Streams
  <2>3. QED
    BY <1>2, <2>1, <2>2
<1>5. CASE PortNotify
  BY <1>2, <1>5 DEF PortNotify
<1>6. CASE Deliver
  <2>1. /\ Len(events') = Len(events) - 1 /\ Len(events) \in Nat
        /\ \A i \in 1 .. Len(events') : events'[i] = events[i + 1]
    BY <1>6, TakeFacts DEF Deliver
  <2>2. UNCHANGED <<past, crossed>>
    BY <1>6 DEF Deliver, commandVars
  <2>3. SUFFICES ASSUME past \subseteq {"flush", "zero"}, ~crossed,
                        NEW i \in 1 .. Len(events') - 1, events'[i] = "LOW"
                 PROVE events'[i + 1] # "LOW"
    BY <2>2, <2>3 DEF LowOnlyAfterHigh
  <2>4. /\ i + 1 \in 1 .. Len(events) - 1 /\ events'[i] = events[i + 1]
        /\ events'[i + 1] = events[(i + 1) + 1]
    BY <2>1
  <2>5. QED
    BY <2>3, <2>4 DEF LowOnlyAfterHigh
<1>7. ASSUME NEW s \in Streams, Enter(s) \/ Decide(s) \/ WriteHold(s) \/ WriteAllow(s)
      PROVE LowOnlyAfterHigh'
  BY <1>1, <1>7, EnterFacts, DecideFacts, HoldFacts, AllowFacts DEF WriteOf
<1>8. CASE JudgeVideo \/ JudgeAudio \/ WriteVideo \/ Decoded
  BY <1>1, <1>8, VideoFacts, AudioFacts, FrameFacts DEF StampOf
<1>9. CASE PortAllow \/ FlushReset \/ FlushReturn \/ Play
  BY <1>1, <1>9 DEF PortAllow, FlushReset, FlushReturn, Play, Command
<1>10. CASE UNCHANGED vars
  BY <1>1, <1>10 DEF vars, commandVars
<1>11. QED
  BY <1>3, <1>4, <1>5, <1>6, <1>7, <1>8, <1>9, <1>10 DEF Next, SetOmxFlags
-----------------------------------------------------------------------------
(* The invariant holds at first. *)
LEMMA InvInit == Init => Inv
<1> SUFFICES ASSUME Init PROVE Inv
  OBVIOUS
<1>1. /\ sync = "ALLOW" /\ events = <<>> /\ feeding = TRUE /\ ~flushing /\ ~port
      /\ \A s \in Streams : pc[s] = "idle" /\ new[s] = "ALLOW"
  BY DEF Init
<1>2. TypeOK
  <2>1. events \in Seq({"HIGH", "LOW", "PORT"}) /\ Len(events) = 0
    BY <1>1, EmptySeq
  <2>2. /\ gap \in [Streams -> Gaps] /\ new \in [Streams -> {"ALLOW", "HOLD", "SKIP"}]
        /\ count \in [Streams -> 0 .. VideoBufs] /\ used \in 0 .. VideoBufs
    <3>1. 0 \in Gaps /\ 0 \in 0 .. VideoBufs
      BY AvSyncAssumption
    <3>2. QED
      BY <3>1 DEF Init
  <2>3. pc \in [Streams -> {"idle", "judge", "decide", "hold", "high", "allow", "low", "write"}]
    BY DEF Init
  <2>4. commands \in 0 .. MaxCommands /\ past \subseteq {"port", "flush", "play", "zero"} /\ MaxEvents \in Nat
    BY AvSyncAssumption DEF Init
  <2>5. /\ sync \in {"ALLOW", "HOLD", "SKIP"} /\ stamped \subseteq Streams
        /\ feeding \in BOOLEAN /\ flushing \in BOOLEAN /\ port \in BOOLEAN /\ crossed \in BOOLEAN
    BY DEF Init
  <2>6. Len(events) <= MaxEvents
    BY <2>1, <2>4
  <2>7. QED
    BY <2>1, <2>2, <2>3, <2>4, <2>5, <2>6 DEF TypeOK
<1>3. OneAtATime /\ FlushNoted
  BY <1>1 DEF OneAtATime, Announcing, FlushNoted
<1>4. Beginning /\ Remembered /\ Released
  BY <1>1 DEF Beginning, Remembered, Released, WillFeed
<1>5. AudioEndsHolds /\ HoldHasHigh
  BY <1>1 DEF AudioEndsHolds, HoldHasHigh, EndsInLow, Streams
<1>6. LowOnlyAfterHigh
  BY <1>1, EmptySeq DEF LowOnlyAfterHigh
<1>7. QED
  BY <1>2, <1>3, <1>4, <1>5, <1>6 DEF Inv

(* Every step keeps it. *)
LEMMA InvStep == Inv /\ [Next]_vars => Inv'
BY TypeStep, OneStep, NotedStep, BeginStep, RememberStep, ReleaseStep, EndsStep, HighStep, LowStep
DEF Inv

(* The variables have their types, for any number of frames and commands.   *)
THEOREM Typing == Spec => []TypeOK
<1>1. Inv => TypeOK
  BY DEF Inv
<1>2. QED
  BY <1>1, InvInit, InvStep, PTL DEF Spec

(* A client that was stopped and will not be told to go on is remembered.   *)
THEOREM ClientRemembered == Spec => []StoppedClientIsRemembered
<1>1. Inv => StoppedClientIsRemembered
  BY DEF Inv, StoppedClientIsRemembered, Quiet, Remembered, Undisturbed, Unposted, WillFeed
<1>2. QED
  BY <1>1, InvInit, InvStep, PTL DEF Spec

(* A hold at rest is one the client obeys.                                  *)
THEOREM HoldObeyed == Spec => []HeldClientIsStopped
<1>1. Inv => HeldClientIsStopped
  BY DEF Inv, HeldClientIsStopped, Quiet, Released, Undisturbed, Unposted, WillFeed
<1>2. QED
  BY <1>1, InvInit, InvStep, PTL DEF Spec

(* Only the audio thread ends holds, so the end of one is not told twice.   *)
THEOREM LowToldOnce == Spec => []LowOnlyAfterHigh
<1>1. Inv => LowOnlyAfterHigh
  BY DEF Inv
<1>2. QED
  BY <1>1, InvInit, InvStep, PTL DEF Spec
=============================================================================
