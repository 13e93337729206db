------------------------------- MODULE AvSync -------------------------------
(***************************************************************************)
(* How the player paces its client: setOmxFlags() of src/src/esplayer.cpp,  *)
(* which the renderer thread of each stream runs for every frame, the       *)
(* threshold events it posts, and the client of src/tests/esplayer-test.cpp *)
(* that stops feeding video at HIGH and goes on at LOW and PORT.            *)
(*                                                                          *)
(* sync_state_ and the time stamps are shared by both threads and the video *)
(* codec's callback without a lock: setOmxFlags() is cut where it first     *)
(* reads them, where it judges, where it tests sync_state_ once more, where *)
(* it writes it and where it posts. Time stamps are what the client feeds,  *)
(* so the difference of the last two is any of Gaps. A thread's gap, count  *)
(* and new are set back when it is done with them.                          *)
(***************************************************************************)
EXTENDS Integers, Sequences

CONSTANTS
    Skip, Low, High,  (* VIDEO_IN_BUFFER_MKSEC_SKIP, _LOW, _HIGH           *)
    Gaps,             (* differences video_last_pts_ - audio_last_pts_     *)
    BufHigh,          (* VIDEO_IN_BUFFER_COUNT_HIGH                        *)
    VideoBufs,        (* input buffers of the video codec                  *)
    MaxEvents,        (* bound on the events posted and not delivered      *)
    MaxCommands       (* bound on flush(), play() and port changes         *)

ASSUME AvSyncAssumption ==
    /\ Skip \in Int /\ Low \in Int /\ High \in Int
    /\ Skip < 0 /\ 0 < Low /\ Low < High
    /\ Gaps \subseteq Int /\ 0 \in Gaps
    /\ BufHigh \in Nat /\ VideoBufs \in Nat /\ BufHigh < VideoBufs
    /\ MaxEvents \in Nat /\ MaxCommands \in Nat

Streams == {"video", "audio"}

VARIABLES
    sync,      (* sync_state_                                             *)
    stamped,   (* streams whose last time stamp is not 0                  *)
    used,      (* video input buffers the codec holds                     *)
    events,    (* video_message_looper_: events not delivered yet         *)
    feeding,   (* the client feeds video                                  *)
    pc,        (* where each renderer thread is                           *)
    gap,       (* av_delta of each thread                                 *)
    count,     (* used video buffers as each thread saw them              *)
    new,       (* sync_state_new of each thread                           *)
    flushing,  (* flush() is at work                                      *)
    port,      (* the port change callback is at work                     *)
    commands,  (* commands so far                                         *)
    past,      (* history: kinds of commands so far, and "zero" when a    *)
               (* frame had the time stamp 0                              *)
    crossed    (* history: sync_state_ was written between the write and  *)
               (* the post of another announcement                        *)

localVars == <<gap, count, new>>
commandVars == <<flushing, port, commands, past>>
vars == <<sync, stamped, used, events, feeding, pc, localVars, commandVars, crossed>>

Init ==
    /\ sync = "ALLOW" /\ stamped = {}
    /\ used = 0 /\ events = <<>> /\ feeding = TRUE
    /\ pc = [s \in Streams |-> "idle"]
    /\ gap = [s \in Streams |-> 0] /\ count = [s \in Streams |-> 0]
    /\ new = [s \in Streams |-> "ALLOW"]
    /\ flushing = FALSE /\ port = FALSE
    /\ commands = 0 /\ past = {} /\ crossed = FALSE

GoTo(s, place) == pc' = [pc EXCEPT ![s] = place]

(* An announcement whose state is written and whose event is not posted. *)
Unposted == port \/ \E s \in Streams : pc[s] \in {"high", "low"}
-----------------------------------------------------------------------------
(* The first reads for a frame: the buffers in use, sync_state_ and the     *)
(* difference, 0 until both streams have a time stamp. Video only comes     *)
(* here with a free buffer to write to.                                     *)
Enter(s) ==
    /\ pc[s] = "idle"
    /\ s = "video" => used < VideoBufs
    /\ count' = [count EXCEPT ![s] = used]
    /\ new' = [new EXCEPT ![s] = sync]
    /\ \E g \in Gaps : (stamped = Streams \/ g = 0) /\ gap' = [gap EXCEPT ![s] = g]
    /\ GoTo(s, "judge")
    /\ UNCHANGED <<sync, stamped, used, events, feeding, commandVars, crossed>>

(* The frame's time stamp becomes the last one of its stream; after a 0 the *)
(* stream passes for one that has not begun.                                *)
Judged(s) ==
    /\ \/ stamped' = stamped \cup {s} /\ UNCHANGED past
       \/ stamped' = stamped \ {s} /\ past' = past \cup {"zero"}
    /\ count' = [count EXCEPT ![s] = 0]
    /\ gap' = IF s = "audio" THEN [gap EXCEPT ![s] = 0] ELSE gap
    /\ GoTo(s, "decide")
    /\ UNCHANGED <<used, events, feeding, flushing, port, commands, crossed>>

BuffersHigh(n) == n > BufHigh

(* Video: the first frame is allowed, and one behind the audio is skipped;  *)
(* both are written to sync_state_ at once and told to nobody.              *)
VideoSync ==
    IF "video" \notin stamped THEN "ALLOW"
    ELSE IF gap["video"] < Skip THEN "SKIP" ELSE sync

(* One far ahead, or too many in the codec, asks for a hold. The way back   *)
(* from a skip is asked for too, in sync_state_new.                         *)
VideoWish ==
    IF VideoSync = "ALLOW" /\ BuffersHigh(count["video"]) THEN "HOLD"
    ELSE IF "video" \notin stamped \/ gap["video"] < Skip THEN new["video"]
    ELSE IF sync # "HOLD" /\ gap["video"] > High THEN "HOLD"
    ELSE IF sync = "SKIP" /\ gap["video"] < Low THEN "ALLOW"
    ELSE new["video"]

JudgeVideo ==
    /\ pc["video"] = "judge"
    /\ sync' = VideoSync
    /\ new' = [new EXCEPT !["video"] = VideoWish]
    /\ Judged("video")

(* Audio: a frame that finds the video neither far ahead nor behind, and    *)
(* room in its codec, asks for the end of a hold.                           *)
Releases(g, n) == Skip < g /\ g < Low /\ ~BuffersHigh(n)

JudgeAudio ==
    /\ pc["audio"] = "judge"
    /\ new' = [new EXCEPT !["audio"] =
                 IF sync # "ALLOW" /\ Releases(gap["audio"], count["audio"]) THEN "ALLOW" ELSE @]
    /\ Judged("audio")
    /\ UNCHANGED sync

Holds(s) == sync # "HOLD" /\ new[s] = "HOLD"

(* Mutant: whoever wishes to allow video announces it. *)
EndsHoldUntested(s) == sync # "ALLOW" /\ new[s] = "ALLOW"

EndsHold(s) == sync = "HOLD" /\ new[s] = "ALLOW"

(* After the announcement video goes on to its write; audio has nothing     *)
(* more to do with the video's state.                                       *)
Done(s) == IF s = "video" THEN "write" ELSE "idle"

(* The wish is compared with sync_state_ as it is by now. *)
Decide(s) ==
    /\ pc[s] = "decide"
    /\ \/ Holds(s) /\ GoTo(s, "hold")
       \/ EndsHold(s) /\ GoTo(s, "allow")
       \/ ~Holds(s) /\ ~EndsHold(s) /\ GoTo(s, Done(s))
    /\ UNCHANGED <<sync, stamped, used, events, feeding, localVars, commandVars, crossed>>

WriteSync(s, from, state, to) ==
    /\ pc[s] = from
    /\ sync' = state
    /\ crossed' = (crossed \/ Unposted)
    /\ GoTo(s, to)
    /\ UNCHANGED <<stamped, used, events, feeding, localVars, commandVars>>

WriteHold(s) == WriteSync(s, "hold", "HOLD", "high")
WriteAllow(s) == WriteSync(s, "allow", "ALLOW", "low")

Notify(event) == Len(events) < MaxEvents /\ events' = Append(events, event)

(* Mutant: the hold is not told to the client. *)
PostHighNever(s) ==
    /\ pc[s] = "high"
    /\ GoTo(s, Done(s))
    /\ UNCHANGED <<sync, stamped, used, events, feeding, localVars, commandVars, crossed>>

PostHigh(s) ==
    /\ pc[s] = "high" /\ Notify("HIGH")
    /\ GoTo(s, Done(s))
    /\ UNCHANGED <<sync, stamped, used, feeding, localVars, commandVars, crossed>>

(* Mutant: the end of the hold is not told to the client. *)
PostLowNever(s) ==
    /\ pc[s] = "low"
    /\ GoTo(s, Done(s))
    /\ UNCHANGED <<sync, stamped, used, events, feeding, localVars, commandVars, crossed>>

PostLow(s) ==
    /\ pc[s] = "low" /\ Notify("LOW")
    /\ GoTo(s, Done(s))
    /\ UNCHANGED <<sync, stamped, used, feeding, localVars, commandVars, crossed>>

(* The frame goes to the codec in one or more input buffers; an empty one   *)
(* (end of stream) is written unjudged.                                     *)
WriteVideo ==
    /\ pc["video"] \in {"idle", "write"}
    /\ used' \in used + 1 .. VideoBufs
    /\ GoTo("video", "idle")
    /\ gap' = [gap EXCEPT !["video"] = 0] /\ new' = [new EXCEPT !["video"] = "ALLOW"]
    /\ UNCHANGED <<sync, stamped, events, feeding, count, commandVars, crossed>>

(* The codec returns an input buffer. *)
Decoded ==
    /\ used > 0
    /\ used' = used - 1
    /\ UNCHANGED <<sync, stamped, events, feeding, pc, localVars, commandVars, crossed>>
-----------------------------------------------------------------------------
(* The looper calls the client: HIGH stops video, LOW and PORT start it. *)
Deliver ==
    /\ events # <<>>
    /\ feeding' = (Head(events) # "HIGH")
    /\ events' = Tail(events)
    /\ UNCHANGED <<sync, stamped, used, pc, localVars, commandVars, crossed>>

Command(kind) ==
    /\ commands < MaxCommands
    /\ commands' = commands + 1
    /\ past' = past \cup {kind}

(* onVideoCodecCallback(), port settings changed: video is allowed, and the *)
(* client hears of it.                                                      *)
PortAllow ==
    /\ ~port /\ Command("port")
    /\ port' = TRUE
    /\ sync' = "ALLOW"
    /\ crossed' = (crossed \/ Unposted)
    /\ UNCHANGED <<stamped, used, events, feeding, pc, localVars, flushing>>

PortNotify ==
    /\ port /\ Notify("PORT")
    /\ port' = FALSE
    /\ UNCHANGED <<sync, stamped, used, feeding, pc, localVars, flushing, commands, past, crossed>>

(* flush() resets the time stamps, and the client feeds again when it is    *)
(* back; nothing is announced.                                              *)
FlushReset ==
    /\ ~flushing /\ Command("flush")
    /\ flushing' = TRUE
    /\ stamped' = {}
    /\ UNCHANGED <<sync, used, events, feeding, pc, localVars, port, crossed>>

FlushReturn ==
    /\ flushing
    /\ flushing' = FALSE
    /\ feeding' = TRUE
    /\ UNCHANGED <<sync, stamped, used, events, pc, localVars, port, commands, past, crossed>>

(* play(), from PAUSED, or else with the audio's time stamp reset. *)
Play ==
    /\ Command("play")
    /\ sync' = "ALLOW"
    /\ \/ UNCHANGED stamped
       \/ stamped' = stamped \ {"audio"}
    /\ UNCHANGED <<used, events, feeding, pc, localVars, flushing, port, crossed>>
-----------------------------------------------------------------------------
SetOmxFlags(s) ==
    \/ Enter(s) \/ Decide(s)
    \/ WriteHold(s) \/ PostHigh(s)
    \/ WriteAllow(s) \/ PostLow(s)

Next ==
    \/ \E s \in Streams : SetOmxFlags(s)
    \/ JudgeVideo \/ JudgeAudio \/ WriteVideo \/ Decoded
    \/ Deliver \/ PortAllow \/ PortNotify \/ FlushReset \/ FlushReturn \/ Play

Spec == Init /\ [][Next]_vars
-----------------------------------------------------------------------------
TypeOK ==
    /\ sync \in {"ALLOW", "HOLD", "SKIP"}
    /\ stamped \subseteq Streams
    /\ used \in 0 .. VideoBufs
    /\ events \in Seq({"HIGH", "LOW", "PORT"}) /\ Len(events) <= MaxEvents
    /\ feeding \in BOOLEAN
    /\ pc \in [Streams -> {"idle", "judge", "decide", "hold", "high", "allow", "low", "write"}]
    /\ gap \in [Streams -> Gaps] /\ count \in [Streams -> 0 .. VideoBufs]
    /\ new \in [Streams -> {"ALLOW", "HOLD", "SKIP"}]
    /\ flushing \in BOOLEAN /\ port \in BOOLEAN
    /\ commands \in 0 .. MaxCommands /\ past \subseteq {"port", "flush", "play", "zero"}
    /\ crossed \in BOOLEAN

(* Nobody is in the middle of anything, and no event is under way. *)
Quiet ==
    /\ events = <<>> /\ ~flushing /\ ~port
    /\ \A s \in Streams : pc[s] = "idle"

(* A client that was stopped is not forgotten by setOmxFlags(): at rest the  *)
(* player still is in the hold, or in the skip that followed it, whatever    *)
(* the two threads and the codec's callback read of each other; except after *)
(* play(), and the frame after a time stamp 0, which allow video without an  *)
(* event, after flush(), and when an announcement was overtaken between its  *)
(* write and its post.                                                       *)
StoppedClientIsRemembered ==
    (Quiet /\ ~feeding /\ past \subseteq {"port"} /\ ~crossed) => sync # "ALLOW"

(* And the other way round: at rest a hold has stopped its client, unless it *)
(* was told to feed when flush() came back.                                  *)
HeldClientIsStopped ==
    (Quiet /\ sync = "HOLD" /\ past \subseteq {"port", "play", "zero"} /\ ~crossed) => ~feeding

(* The client is not told the end of a hold twice: a thread that announces   *)
(* it has found the hold just then, not only when it judged; so every LOW    *)
(* has a HIGH of its own, and between two LOWs a HIGH was posted. Not so     *)
(* when play() or a port change allows video under a thread that judges.     *)
LowOnlyAfterHigh ==
    (past \subseteq {"flush", "zero"} /\ ~crossed) =>
        \A i \in 1 .. Len(events) - 1 : events[i] = "LOW" => events[i + 1] # "LOW"
=============================================================================
