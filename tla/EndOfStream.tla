---------------------------- MODULE EndOfStream ----------------------------
(***************************************************************************)
(* How the end of the stream travels (src/src/esplayer.cpp): the client     *)
(* feeds a last frame of each stream, the renderer threads write it, each   *)
(* codec raises end-of-stream on a callback thread of its own, the          *)
(* callbacks keep audio_eos_ and video_eos_ and post a notice on their      *)
(* message looper, and then tell the media server that playback stopped     *)
(* (src/src/mediaresource/requestor.cpp). play(), pause() and flush() run   *)
(* meanwhile: play() and pause() start and stop the loopers and tell the    *)
(* media server too, flush() resets the flags and drops what was fed.       *)
(*                                                                          *)
(* Nothing orders the callbacks against flush() or against each other. The  *)
(* audio callback posts whatever the video does (1994), the video callback  *)
(* posts if the audio has ended (1803); the message loopers are not cleared *)
(* by flush(), so a notice may be about content that is gone. Contents are  *)
(* numbered: a flush that reached the components begins the next one.       *)
(***************************************************************************)
EXTENDS Naturals, Sequences

CONSTANT MaxFlushes     (* bound on the flushes that reach the components *)

ASSUME EndOfStreamAssumption == MaxFlushes \in Nat

Streams == {"video", "audio"}
Contents == 0 .. MaxFlushes
Places == {"none", "queued", "inCodec", "out"}
CallbackSteps == {"idle", "entered", "judge", "tell"}
ClientSteps == {"idle", "playTell", "pausing", "pauseTell",
                "flushStop", "flushPause", "flushParts", "flushResume", "flushEnd"}

VARIABLES
    status,     (* state_                                                 *)
    running,    (* the four loopers are started                           *)
    executing,  (* the components are in OMX_StateExecuting               *)
    pc,         (* where the client's call is                             *)
    save,       (* save_state of flush()                                  *)
    gen,        (* the content being played                               *)
    end,        (* where the last frame of each stream is                 *)
    eos,        (* audio_eos_, video_eos_                                 *)
    cb,         (* each codec's callback: where, for which content        *)
    queue,      (* notices on each message looper                         *)
    server,     (* the playback state the media server was told           *)
    ends,       (* history: <<stream, content>> whose end was raised      *)
    told,       (* history: contents of which a notice was delivered that *)
                (* was posted when all its streams had ended              *)
    past        (* history: the disturbances that happened so far         *)

playerVars == <<status, running, executing, pc, save, gen>>
callbackVars == <<eos, cb, ends>>
noticeVars == <<queue, told>>
vars == <<playerVars, end, callbackVars, noticeVars, server, past>>

Disturbances ==
    {"endInFlush",      (* a callback for content that a flush was cutting *)
     "flushFailed",     (* flush() gave up before it reached the components *)
     "stoppedAtFlush",  (* a flush while playing, the server told STOPPED   *)
     "toldAfterEnd"}    (* play() or pause() told the server after the end  *)

Idle == [at |-> "idle", of |-> 0]

(* The streams of content g have all ended.                                *)
Ended(g) == \A s \in Streams : <<s, g>> \in ends

Init ==
    /\ status = "LOADED" /\ running = TRUE /\ executing = FALSE
    /\ pc = "idle" /\ save = "none" /\ gen = 0
    /\ end = [s \in Streams |-> "none"]
    /\ eos = [s \in Streams |-> FALSE]
    /\ cb = [s \in Streams |-> Idle]
    /\ queue = [s \in Streams |-> <<>>]
    /\ server = "none" /\ ends = {} /\ told = {} /\ past = {}
-----------------------------------------------------------------------------
(* The last frame of a stream: fed once per content, not while flushing.   *)
FeedEnd(s) ==
    /\ status # "FLUSHING" /\ end[s] = "none"
    /\ end' = [end EXCEPT ![s] = "queued"]
    /\ UNCHANGED <<playerVars, callbackVars, noticeVars, server, past>>

(* The renderer thread writes it to the codec. (What a flush finds in that *)
(* thread's hand is FeedPath's subject.)                                   *)
WriteEnd(s) ==
    /\ running /\ end[s] = "queued"
    /\ end' = [end EXCEPT ![s] = "inCodec"]
    /\ UNCHANGED <<playerVars, callbackVars, noticeVars, server, past>>

(* The codec reaches it: eventHandler() calls the player's listener.       *)
RaiseEnd(s) ==
    /\ executing /\ end[s] = "inCodec" /\ cb[s] = Idle
    /\ end' = [end EXCEPT ![s] = "out"]
    /\ cb' = [cb EXCEPT ![s] = [at |-> "entered", of |-> gen]]
    /\ ends' = ends \cup {<<s, gen>>}
    /\ UNCHANGED <<playerVars, eos, noticeVars, server, past>>
-----------------------------------------------------------------------------
(* The callback of a codec's end of stream.                                *)
NoteLate(s) ==
    past' = IF cb[s].of # gen \/ status = "FLUSHING"
            THEN past \cup {"endInFlush"} ELSE past

(* Mutant: the audio's callback does not note its end.                     *)
SetFlagOfVideo(s) ==
    /\ cb[s].at = "entered"
    /\ eos' = [eos EXCEPT ![s] = s = "video"]
    /\ cb' = [cb EXCEPT ![s].at = "judge"]
    /\ NoteLate(s)
    /\ UNCHANGED <<playerVars, end, ends, noticeVars, server>>

SetFlag(s) ==
    /\ cb[s].at = "entered"
    /\ eos' = [eos EXCEPT ![s] = TRUE]
    /\ cb' = [cb EXCEPT ![s].at = "judge"]
    /\ NoteLate(s)
    /\ UNCHANGED <<playerVars, end, ends, noticeVars, server>>

(* Mutant: the video's callback is a copy of the audio's.                  *)
NotifiesAlways(s) == TRUE

(* Whether the callback of s notifies: the audio's does in any case.       *)
Notifies(s) == s = "audio" \/ eos["audio"]

PostNotice(s) ==
    /\ cb[s].at = "judge" /\ Notifies(s)
    /\ queue' = [queue EXCEPT ![s] = Append(@, [of |-> cb[s].of, whole |-> Ended(cb[s].of)])]
    /\ cb' = [cb EXCEPT ![s].at = "tell"]
    /\ NoteLate(s)
    /\ UNCHANGED <<playerVars, end, eos, ends, told, server>>

KeepQuiet(s) ==
    /\ cb[s].at = "judge" /\ ~Notifies(s)
    /\ cb' = [cb EXCEPT ![s] = Idle]
    /\ NoteLate(s)
    /\ UNCHANGED <<playerVars, end, eos, ends, noticeVars, server>>

(* Mutant: only the client is told.                                        *)
TellNobody(s) ==
    /\ cb[s].at = "tell"
    /\ cb' = [cb EXCEPT ![s] = Idle]
    /\ NoteLate(s)
    /\ UNCHANGED <<playerVars, end, eos, ends, noticeVars, server>>

(* rm_->endOfStream(), after the notice is posted.                         *)
TellStopped(s) ==
    /\ cb[s].at = "tell"
    /\ server' = "STOPPED"
    /\ cb' = [cb EXCEPT ![s] = Idle]
    /\ NoteLate(s)
    /\ UNCHANGED <<playerVars, end, eos, ends, noticeVars>>
-----------------------------------------------------------------------------
(* The message loopers; notices are never cleared. (MessageLooper cuts     *)
(* this finer: a notice in hand is delivered even if pause() comes.)       *)
DeliverNotice(s) ==
    /\ running /\ queue[s] # <<>>
    /\ told' = IF Head(queue[s]).whole THEN told \cup {Head(queue[s]).of} ELSE told
    /\ queue' = [queue EXCEPT ![s] = Tail(@)]
    /\ UNCHANGED <<playerVars, end, callbackVars, server, past>>
-----------------------------------------------------------------------------
(* play(): a failing clock or component is logged, and it plays all the    *)
(* same; from PLAYING or FLUSHING the components are not touched.          *)
PlayStart ==
    /\ pc = "idle" /\ status \in {"LOADED", "PLAYING", "PAUSED", "FLUSHING"}
    /\ \/ status \in {"LOADED", "PAUSED"} /\ executing' \in {executing, TRUE}
       \/ status \in {"PLAYING", "FLUSHING"} /\ executing' = executing
    /\ status' = "PLAYING" /\ running' = TRUE /\ pc' = "playTell"
    /\ UNCHANGED <<save, gen, end, callbackVars, noticeVars, server, past>>

(* disableScreenSaver() and enableScreenSaver() report a playback state.   *)
Report(state) ==
    /\ server' = state
    /\ past' = IF Ended(gen) THEN past \cup {"toldAfterEnd"} ELSE past

PlayTell ==
    /\ pc = "playTell"
    /\ Report("PLAYING")
    /\ pc' = "idle"
    /\ UNCHANGED <<status, running, executing, save, gen, end, callbackVars, noticeVars>>

(* pause(): nothing to do from LOADED or PAUSED; otherwise the loopers     *)
(* stop first, and if a part fails the status stays but the server is told.*)
PauseStart ==
    /\ pc = "idle" /\ status \in {"PLAYING", "FLUSHING"}
    /\ running' = FALSE /\ pc' = "pausing"
    /\ UNCHANGED <<status, executing, save, gen, end, callbackVars, noticeVars, server, past>>

PauseParts ==
    /\ pc = "pausing" /\ pc' = "pauseTell"
    /\ \/ status' = "PAUSED" /\ executing' = FALSE
       \/ status' = status /\ executing' \in {executing, FALSE}
    /\ UNCHANGED <<running, save, gen, end, callbackVars, noticeVars, server, past>>

PauseTell ==
    /\ pc = "pauseTell"
    /\ Report("PAUSED")
    /\ pc' = "idle"
    /\ UNCHANGED <<status, running, executing, save, gen, end, callbackVars, noticeVars>>
-----------------------------------------------------------------------------
Dropped(gone) == [s \in Streams |-> IF s \in gone THEN "none" ELSE end[s]]

(* flush(): the flags are reset before anything is stopped.                *)
FlushReset ==
    /\ pc = "idle" /\ status \in {"LOADED", "PLAYING", "PAUSED", "FLUSHING"} /\ gen < MaxFlushes
    /\ eos' = [s \in Streams |-> FALSE]
    /\ save' = status /\ status' = "FLUSHING" /\ pc' = "flushStop"
    /\ past' = IF server = "STOPPED" /\ status # "PAUSED"
               THEN past \cup {"stoppedAtFlush"} ELSE past
    /\ UNCHANGED <<running, executing, gen, end, cb, ends, noticeVars, server>>

(* The clock does not stop: straight to the end, nothing was dropped.      *)
(* Otherwise clearFrameQueues() and clearBufQueue(), which leave the       *)
(* notices alone.                                                          *)
FlushStop ==
    /\ pc = "flushStop"
    /\ \/ /\ pc' = "flushPause" /\ past' = past
          /\ end' = Dropped({s \in Streams : end[s] = "queued"})
       \/ /\ pc' = "flushEnd" /\ past' = past \cup {"flushFailed"}
          /\ end' = end
    /\ UNCHANGED <<status, running, executing, save, gen, callbackVars, noticeVars, server>>

(* The components are paused unless the player was; if one fails, flush()  *)
(* returns and the status is left at FLUSHING.                             *)
FlushPause ==
    /\ pc = "flushPause"
    /\ \/ /\ pc' = "flushParts" /\ past' = past
          /\ executing' = IF save = "PAUSED" THEN executing ELSE FALSE
          /\ save' = save
       \/ /\ save # "PAUSED" /\ executing' \in {executing, FALSE}
          /\ pc' = "idle" /\ save' = "none" /\ past' = past \cup {"flushFailed"}
    /\ UNCHANGED <<status, running, gen, end, callbackVars, noticeVars, server>>

FlushParts ==
    /\ pc = "flushParts"
    /\ \/ /\ end' = Dropped(Streams) /\ gen' = gen + 1
          /\ pc' = "flushResume" /\ save' = save /\ past' = past
       \/ /\ \E gone \in SUBSET {s \in Streams : end[s] = "inCodec"} : end' = Dropped(gone)
          /\ gen' = gen /\ pc' = "idle" /\ save' = "none" /\ past' = past \cup {"flushFailed"}
    /\ UNCHANGED <<status, running, executing, callbackVars, noticeVars, server>>

(* The clock waits for a start time, and the components go on if it played. *)
FlushResume ==
    /\ pc = "flushResume" /\ pc' = "flushEnd"
    /\ executing' \in {executing, save = "PLAYING"}
    /\ UNCHANGED <<status, running, save, gen, end, callbackVars, noticeVars, server, past>>

FlushEnd ==
    /\ pc = "flushEnd" /\ pc' = "idle"
    /\ status' = save /\ save' = "none"
    /\ UNCHANGED <<running, executing, gen, end, callbackVars, noticeVars, server, past>>
-----------------------------------------------------------------------------
(* The client's calls, the codecs and their callbacks, the loopers.        *)
Play == PlayStart \/ PlayTell
Pause == PauseStart \/ PauseParts \/ PauseTell
Flush == FlushReset \/ FlushStop \/ FlushPause \/ FlushParts \/ FlushResume \/ FlushEnd
Frame(s) == FeedEnd(s) \/ WriteEnd(s)
Callback(s) == SetFlag(s) \/ PostNotice(s) \/ KeepQuiet(s) \/ TellStopped(s)

Next ==
    \/ Play \/ Pause \/ Flush
    \/ \E s \in Streams : Frame(s) \/ RaiseEnd(s) \/ Callback(s) \/ DeliverNotice(s)

Spec == Init /\ [][Next]_vars

(* A callback that was called and a call of the client go on, and a looper *)
(* that stays started handles its notices.                                 *)
FairSpec ==
    /\ Spec
    /\ \A s \in Streams : WF_vars(Callback(s)) /\ WF_vars(DeliverNotice(s))
    /\ WF_vars(PlayTell) /\ WF_vars(PauseParts \/ PauseTell) /\ WF_vars(Flush /\ pc # "idle")
-----------------------------------------------------------------------------
(* Every variable keeps its type; queues hold notices of known contents.   *)
Notices == [of : Contents, whole : BOOLEAN]

TypeOK ==
    /\ status \in {"LOADED", "PLAYING", "PAUSED", "FLUSHING"}
    /\ running \in BOOLEAN /\ executing \in BOOLEAN
    /\ pc \in ClientSteps /\ save \in {"none", "LOADED", "PLAYING", "PAUSED", "FLUSHING"}
    /\ gen \in Contents
    /\ end \in [Streams -> Places]
    /\ eos \in [Streams -> BOOLEAN]
    /\ cb \in [Streams -> [at : CallbackSteps, of : Contents]]
    /\ queue \in [Streams -> Seq(Notices)]
    /\ server \in {"none", "PLAYING", "PAUSED", "STOPPED"}
    /\ ends \subseteq Streams \X Contents /\ told \subseteq Contents
    /\ past \subseteq Disturbances

(* Only the audio callback tells the client of an end the other stream has *)
(* not reached: the video callback waits for audio_eos_ (1803), and that   *)
(* flag is about the same content unless a callback ran for a content that *)
(* a flush was cutting, whose reset of the flag (1550) it then undoes.     *)
OnlyAudioTellsEarly ==
    "endInFlush" \in past
    \/ \A i \in DOMAIN queue["video"] : queue["video"][i].whole

(* With nothing under way, the media server believes that a playing player *)
(* stopped only if a stream of this content ended, and learns of the end   *)
(* of a content. What breaks it: a callback in the middle of a flush, a    *)
(* flush that starts over without a play() that reports it (1517-1621 tell *)
(* the server nothing) or that fails after it reset audio_eos_, a play()   *)
(* or pause() that reports after the end.                                  *)
CallsDone == pc = "idle" /\ \A s \in Streams : cb[s].at = "idle"

ServerAgrees ==
    status = "PLAYING" /\ CallsDone =>
      /\ server = "STOPPED" =>
           \/ \E s \in Streams : <<s, gen>> \in ends
           \/ past \cap {"endInFlush", "stoppedAtFlush"} # {}
      /\ Ended(gen) => server = "STOPPED" \/ past \cap {"endInFlush", "flushFailed", "toldAfterEnd"} # {}

(* The client is told of the end after both streams have ended, whichever  *)
(* ended first, if its loopers are left started - but a flush() that gave  *)
(* up before it dropped anything has reset audio_eos_ all the same (1550), *)
(* and then nothing tells of the video's end.                              *)
EndIsTold ==
    <>[]running =>
      \A g \in Contents :
        Ended(g) ~> g \in told \/ past \cap {"flushFailed", "endInFlush"} # {}
=============================================================================
