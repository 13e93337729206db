------------------------- MODULE EndOfStreamProofs -------------------------
(***************************************************************************)
(* Proofs about EndOfStream, for any number of flushes.                     *)
(***************************************************************************)
EXTENDS EndOfStream, SequenceTheorems, TLAPS

FlushSteps == {"flushStop", "flushPause", "flushParts", "flushResume", "flushEnd"}
BeforeCut == {"flushStop", "flushPause", "flushParts"}
Undisturbed(d) == past \cap d = {}

(* FLUSHING is the status of a whole flush(), which has one to restore and   *)
(* a next content to begin; no other call runs then.                        *)
FlushIsFlushing ==
    /\ pc \in FlushSteps => status = "FLUSHING" /\ save # "none"
    /\ pc \in BeforeCut => gen < MaxFlushes

(* A callback is about an end that was raised, of this content or an older  *)
(* one, and nothing of a content to come was raised.                        *)
RaisedIsReal ==
    /\ \A s \in Streams : cb[s].at # "idle" => <<s, cb[s].of>> \in ends
    /\ \A e \in ends : e[2] <= gen

(* audio_eos_ is about the content being played, and down while flush()     *)
(* has yet to cut it.                                                       *)
FlagIsOfContent ==
    Undisturbed({"endInFlush"}) =>
        /\ eos["audio"] => <<"audio", gen>> \in ends
        /\ pc \in BeforeCut => ~eos["audio"]

(* The server believes in a stop of an older content only while the player  *)
(* is paused, or in a flush() that began while paused; so such a flush() is  *)
(* the only one that cuts a content while the server believes in a stop.     *)
StopHasReason ==
    (server = "STOPPED" /\ Undisturbed({"endInFlush", "stoppedAtFlush"})) =>
        /\ pc \in BeforeCut => save = "PAUSED"
        /\ \/ \E s \in Streams : <<s, gen>> \in ends
           \/ status = "PAUSED"
           \/ status = "FLUSHING" /\ (pc \in FlushSteps => save = "PAUSED")
           \/ pc = "playTell"

(* A content that ended whole: its audio's end is on record, in the flag or *)
(* in the audio's callback, and the stop was reported or a callback will.   *)
Reports(s) ==
    /\ cb[s].of = gen
    /\ \/ cb[s].at = "tell"
       \/ cb[s].at \in {"entered", "judge"} /\ (s = "audio" \/ eos["audio"])

EndOnRecord ==
    (Undisturbed({"endInFlush", "flushFailed"}) /\ pc \notin BeforeCut /\ <<"audio", gen>> \in ends)
        => eos["audio"] \/ (cb["audio"].at = "entered" /\ cb["audio"].of = gen)

EndIsReported ==
    (Undisturbed({"endInFlush", "flushFailed", "toldAfterEnd"}) /\ pc \notin BeforeCut /\ Ended(gen))
        => server = "STOPPED" \/ \E s \in Streams : Reports(s)

Inv == TypeOK /\ FlushIsFlushing /\ RaisedIsReal /\ FlagIsOfContent /\ OnlyAudioTellsEarly
       /\ StopHasReason /\ EndOnRecord /\ EndIsReported
-----------------------------------------------------------------------------
(* The variables keep their types.                                          *)
LEMMA TypeStep == TypeOK /\ FlushIsFlushing /\ [Next]_vars => TypeOK'
<1> SUFFICES ASSUME TypeOK, FlushIsFlushing, [Next]_vars PROVE TypeOK'
  OBVIOUS
<1> USE EndOfStreamAssumption DEF Streams, Contents, playerVars, callbackVars, noticeVars
<1>1. CASE UNCHANGED vars
  BY <1>1 DEF TypeOK, vars
<1>2. CASE Play
  BY <1>2 DEF TypeOK, Play, PlayStart, PlayTell, Report, ClientSteps, Disturbances
<1>3. CASE Pause
  <2>1. CASE PauseStart \/ PauseParts
    BY <2>1 DEF TypeOK, PauseStart, PauseParts, ClientSteps
  <2>2. CASE PauseTell
    BY <2>2 DEF TypeOK, PauseTell, Report, ClientSteps, Disturbances
  <2>3. QED
    BY <1>3, <2>1, <2>2 DEF Pause
<1>4. CASE FlushReset
  BY <1>4 DEF TypeOK, FlushReset, ClientSteps, Disturbances
<1>5. CASE FlushStop
  <2>1. end' \in [Streams -> Places]
    BY <1>5 DEF TypeOK, FlushStop, Dropped, Places
  <2>2. pc' \in ClientSteps /\ past' \subseteq Disturbances
    BY <1>5 DEF TypeOK, FlushStop, ClientSteps, Disturbances
  <2>3. QED
    BY <1>5, <2>1, <2>2 DEF TypeOK, FlushStop
<1>6. CASE FlushPause
  BY <1>6 DEF TypeOK, FlushPause, ClientSteps, Disturbances
<1>7. CASE FlushParts
  <2>1. gen' \in Contents
    BY <1>7 DEF TypeOK, FlushParts, FlushIsFlushing, BeforeCut
  <2>2. end' \in [Streams -> Places]
    BY <1>7 DEF TypeOK, FlushParts, Dropped, Places
  <2>3. QED
    BY <1>7, <2>1, <2>2 DEF TypeOK, FlushParts, ClientSteps, Disturbances
<1>8. CASE FlushResume \/ FlushEnd
  BY <1>8 DEF TypeOK, FlushResume, FlushEnd, ClientSteps, FlushIsFlushing, FlushSteps
<1>9. ASSUME NEW s \in Streams, Frame(s) PROVE TypeOK'
  BY <1>9 DEF TypeOK, Frame, FeedEnd, WriteEnd, Places
<1>10. ASSUME NEW s \in Streams, RaiseEnd(s) PROVE TypeOK'
  BY <1>10 DEF TypeOK, RaiseEnd, Places, CallbackSteps
<1>11. ASSUME NEW s \in Streams, Callback(s) PROVE TypeOK'
  <2>1. CASE SetFlag(s)
    BY <2>1 DEF TypeOK, SetFlag, NoteLate, CallbackSteps, Disturbances
  <2>2. CASE PostNotice(s)
    <3>1. [of |-> cb[s].of, whole |-> Ended(cb[s].of)] \in Notices
      BY DEF TypeOK, Notices, Ended
    <3>2. queue' \in [Streams -> Seq(Notices)]
      BY <2>2, <3>1 DEF TypeOK, PostNotice
    <3>3. QED
      BY <2>2, <3>2 DEF TypeOK, PostNotice, NoteLate, CallbackSteps, Disturbances
  <2>3. CASE KeepQuiet(s) \/ TellStopped(s)
    <3>1. Idle \in [at : CallbackSteps, of : Contents]
      BY DEF Idle, CallbackSteps
    <3>2. cb' = [cb EXCEPT ![s] = Idle] /\ server' \in {server, "STOPPED"}
      BY <2>3 DEF KeepQuiet, TellStopped
    <3>3. past' \subseteq Disturbances
      BY <2>3 DEF TypeOK, KeepQuiet, TellStopped, NoteLate, Disturbances
    <3>4. QED
      BY <2>3, <3>1, <3>2, <3>3 DEF TypeOK, KeepQuiet, TellStopped
  <2>4. QED
    BY <1>11, <2>1, <2>2, <2>3 DEF Callback
<1>12. ASSUME NEW s \in Streams, DeliverNotice(s) PROVE TypeOK'
  <2>1. Head(queue[s]) \in Notices /\ Tail(queue[s]) \in Seq(Notices)
    BY <1>12 DEF TypeOK, DeliverNotice
  <2>2. queue' \in [Streams -> Seq(Notices)]
    BY <1>12, <2>1 DEF TypeOK, DeliverNotice
  <2>3. told' \subseteq Contents
    BY <1>12, <2>1 DEF TypeOK, DeliverNotice, Notices
  <2>4. QED
    BY <1>12, <2>2, <2>3 DEF TypeOK, DeliverNotice
<1>13. QED
  BY <1>1, <1>2, <1>3, <1>4, <1>5, <1>6, <1>7, <1>8, <1>9, <1>10, <1>11, <1>12 DEF Next, Flush

(* A flush() runs from its first step to its last without another call.     *)
LEMMA FlushStep == TypeOK /\ FlushIsFlushing /\ [Next]_vars => FlushIsFlushing'
<1> SUFFICES ASSUME TypeOK, FlushIsFlushing, [Next]_vars PROVE FlushIsFlushing'
  OBVIOUS
<1> USE DEF FlushIsFlushing, FlushSteps, BeforeCut, playerVars
<1>1. ASSUME UNCHANGED <<status, pc, save, gen>> PROVE FlushIsFlushing'
  BY <1>1
<1>2. CASE Play \/ Pause
  BY <1>2 DEF Play, PlayStart, PlayTell, Pause, PauseStart, PauseParts, PauseTell
<1>3. CASE Flush
  BY <1>3 DEF TypeOK, Flush, FlushReset, FlushStop, FlushPause, FlushParts, FlushResume, FlushEnd
<1>4. ASSUME NEW s \in Streams,
             Frame(s) \/ RaiseEnd(s) \/ Callback(s) \/ DeliverNotice(s)
      PROVE FlushIsFlushing'
  BY <1>1, <1>4 DEF Frame, FeedEnd, WriteEnd, RaiseEnd, Callback, SetFlag, PostNotice, KeepQuiet,
     TellStopped, DeliverNotice
<1>5. QED
  BY <1>1, <1>2, <1>3, <1>4 DEF Next, vars

(* A callback only moves on with the end it was called for.                 *)
LEMMA CallbackKeeps ==
    ASSUME TypeOK, NEW s \in Streams, Callback(s)
    PROVE  /\ UNCHANGED <<playerVars, end, ends, told>>
           /\ past \subseteq past'
           /\ "endInFlush" \notin past' => cb[s].of = gen /\ status # "FLUSHING"
           /\ cb[s].at # "idle"
           /\ \A r \in Streams : r # s => cb'[r] = cb[r]
           /\ cb'[s] = Idle \/ cb'[s].of = cb[s].of
<1> USE DEF TypeOK, NoteLate, Idle
<1>1. CASE SetFlag(s)
  BY <1>1 DEF SetFlag, noticeVars
<1>2. CASE PostNotice(s)
  BY <1>2 DEF PostNotice, noticeVars
<1>3. CASE KeepQuiet(s)
  BY <1>3 DEF KeepQuiet, noticeVars
<1>4. CASE TellStopped(s)
  BY <1>4 DEF TellStopped, noticeVars
<1>5. QED
  BY <1>1, <1>2, <1>3, <1>4 DEF Callback

(* Ends are raised about the content being played.                          *)
LEMMA RaisedStep == TypeOK /\ RaisedIsReal /\ [Next]_vars => RaisedIsReal'
<1> SUFFICES ASSUME TypeOK, RaisedIsReal, [Next]_vars PROVE RaisedIsReal'
  OBVIOUS
<1> USE DEF RaisedIsReal
<1>1. ASSUME UNCHANGED <<cb, ends, gen>> PROVE RaisedIsReal'
  BY <1>1
<1>2. CASE Play \/ Pause
  BY <1>1, <1>2 DEF Play, PlayStart, PlayTell, Pause, PauseStart, PauseParts, PauseTell, callbackVars
<1>3. CASE Flush
  <2>1. UNCHANGED <<cb, ends>> /\ gen' \in {gen, gen + 1}
    BY <1>3 DEF Flush, FlushReset, FlushStop, FlushPause, FlushParts, FlushResume, FlushEnd, callbackVars
  <2>2. gen \in Nat /\ \A e \in ends : e[2] \in Nat
    BY EndOfStreamAssumption DEF TypeOK, Contents
  <2>3. QED
    BY <2>1, <2>2
<1>4. ASSUME NEW s \in Streams, RaiseEnd(s) PROVE RaisedIsReal'
  <2>1. gen' = gen /\ gen \in Nat /\ <<s, gen>>[2] = gen
    BY <1>4, EndOfStreamAssumption DEF TypeOK, RaiseEnd, Contents, playerVars
  <2>2. ends' = ends \cup {<<s, gen>>} /\ cb' = [cb EXCEPT ![s] = [at |-> "entered", of |-> gen]]
    BY <1>4 DEF RaiseEnd
  <2>3. \A r \in Streams : cb'[r] = IF r = s THEN [at |-> "entered", of |-> gen] ELSE cb[r]
    BY <2>2 DEF TypeOK
  <2>4. QED
    BY <2>1, <2>2, <2>3
<1>5. ASSUME NEW s \in Streams, Callback(s) PROVE RaisedIsReal'
  <2>1. UNCHANGED <<ends, gen>>
    BY <1>5, CallbackKeeps DEF playerVars
  <2>2. \A r \in Streams : cb'[r].at # "idle" => cb[r].at # "idle" /\ cb'[r].of = cb[r].of
    BY <1>5, CallbackKeeps DEF Idle
  <2>3. QED
    BY <2>1, <2>2
<1>6. ASSUME NEW s \in Streams, Frame(s) \/ DeliverNotice(s) PROVE RaisedIsReal'
  BY <1>1, <1>6 DEF Frame, FeedEnd, WriteEnd, DeliverNotice, playerVars, callbackVars
<1>7. QED
  BY <1>1, <1>2, <1>3, <1>4, <1>5, <1>6 DEF Next, vars, callbackVars, playerVars

(* audio_eos_ stays about the content being played.                         *)
LEMMA FlagStep == TypeOK /\ FlushIsFlushing /\ RaisedIsReal /\ FlagIsOfContent /\ [Next]_vars
                    => FlagIsOfContent'
<1> SUFFICES ASSUME TypeOK, FlushIsFlushing, RaisedIsReal, FlagIsOfContent, [Next]_vars
             PROVE FlagIsOfContent'
  OBVIOUS
<1>1. ASSUME UNCHANGED <<eos, gen, pc>>, ends \subseteq ends', past \subseteq past'
      PROVE FlagIsOfContent'
  BY <1>1 DEF FlagIsOfContent, Undisturbed
<1>2. CASE Play \/ Pause
  <2>1. UNCHANGED <<eos, cb, ends, gen>> /\ past \subseteq past'
    BY <1>2 DEF Play, PlayStart, PlayTell, Pause, PauseStart, PauseParts, PauseTell, Report, callbackVars
  <2>2. pc \notin BeforeCut /\ pc' \notin BeforeCut
    BY <1>2 DEF Play, PlayStart, PlayTell, Pause, PauseStart, PauseParts, PauseTell, BeforeCut
  <2>3. QED
    BY <2>1, <2>2 DEF FlagIsOfContent, Undisturbed
<1>3. CASE FlushReset
  BY <1>3 DEF FlushReset, FlagIsOfContent, Streams
<1>4. CASE FlushStop \/ FlushPause \/ FlushResume \/ FlushEnd
  <2>1. UNCHANGED <<eos, ends, gen>> /\ past \subseteq past'
    BY <1>4 DEF FlushStop, FlushPause, FlushResume, FlushEnd, callbackVars
  <2>2. pc' \in BeforeCut => pc \in BeforeCut
    BY <1>4 DEF FlushStop, FlushPause, FlushResume, FlushEnd, BeforeCut
  <2>3. QED
    BY <2>1, <2>2 DEF FlagIsOfContent, Undisturbed
<1>5. CASE FlushParts
  BY <1>5 DEF FlushParts, callbackVars, FlagIsOfContent, Undisturbed, BeforeCut
<1>6. ASSUME NEW s \in Streams, Frame(s) \/ RaiseEnd(s) \/ DeliverNotice(s)
      PROVE FlagIsOfContent'
  BY <1>1, <1>6 DEF Frame, FeedEnd, WriteEnd, RaiseEnd, DeliverNotice, playerVars, callbackVars
<1>7. ASSUME NEW s \in Streams, Callback(s) PROVE FlagIsOfContent'
  <2>1. UNCHANGED <<status, pc, gen, ends>> /\ past \subseteq past'
    BY <1>7, CallbackKeeps DEF playerVars
  <2>2. CASE SetFlag(s) /\ s = "audio"
    <3>1. SUFFICES ASSUME "endInFlush" \notin past'
                   PROVE <<"audio", gen>> \in ends /\ pc \notin BeforeCut
      BY <2>1, <3>1 DEF FlagIsOfContent, Undisturbed
    <3>2. cb[s].of = gen /\ status # "FLUSHING" /\ cb[s].at # "idle"
      BY <1>7, <3>1, CallbackKeeps
    <3>3. QED
      BY <2>2, <3>2 DEF RaisedIsReal, FlushIsFlushing, FlushSteps, BeforeCut
  <2>3. CASE ~(SetFlag(s) /\ s = "audio")
    <3>1. eos'["audio"] = eos["audio"]
      BY <1>7, <2>3 DEF TypeOK, Streams, Callback, SetFlag, PostNotice, KeepQuiet, TellStopped
    <3>2. QED
      BY <2>1, <3>1 DEF FlagIsOfContent, Undisturbed
  <2>4. QED
    BY <2>2, <2>3
<1>8. QED
  BY <1>1, <1>2, <1>3, <1>4, <1>5, <1>6, <1>7 DEF Next, Flush, vars, callbackVars, playerVars

(* What the video's callback posts is of a content that ended whole.        *)
LEMMA NoticeStep == TypeOK /\ RaisedIsReal /\ FlagIsOfContent /\ OnlyAudioTellsEarly /\ [Next]_vars
                      => OnlyAudioTellsEarly'
<1> SUFFICES ASSUME TypeOK, RaisedIsReal, FlagIsOfContent, OnlyAudioTellsEarly, [Next]_vars
             PROVE OnlyAudioTellsEarly'
  OBVIOUS
<1>1. ASSUME UNCHANGED queue, past \subseteq past' PROVE OnlyAudioTellsEarly'
  BY <1>1 DEF OnlyAudioTellsEarly
<1>2. CASE Play \/ Pause \/ Flush
  BY <1>1, <1>2 DEF Play, PlayStart, PlayTell, Pause, PauseStart, PauseParts, PauseTell, Report,
     Flush, FlushReset, FlushStop, FlushPause, FlushParts, FlushResume, FlushEnd, noticeVars
<1>3. ASSUME NEW s \in Streams, Frame(s) \/ RaiseEnd(s) PROVE OnlyAudioTellsEarly'
  BY <1>1, <1>3 DEF Frame, FeedEnd, WriteEnd, RaiseEnd, noticeVars
<1>4. ASSUME NEW s \in Streams, DeliverNotice(s) PROVE OnlyAudioTellsEarly'
  <2>1. CASE s = "video"
    <3>1. queue["video"] \in Seq(Notices) /\ queue["video"] # <<>> /\ past' = past
      BY <1>4, <2>1 DEF TypeOK, DeliverNotice, Streams
    <3>2. queue'["video"] = Tail(queue["video"])
      BY <1>4, <2>1 DEF TypeOK, DeliverNotice, Streams
    <3>3. \A i \in DOMAIN queue'["video"] : /\ i + 1 \in DOMAIN queue["video"]
                                            /\ queue'["video"][i] = queue["video"][i + 1]
      BY <3>1, <3>2
    <3>4. QED
      BY <3>1, <3>3 DEF OnlyAudioTellsEarly
  <2>2. CASE s # "video"
    BY <1>4, <2>2 DEF TypeOK, DeliverNotice, Streams, OnlyAudioTellsEarly
  <2>3. QED
    BY <2>1, <2>2
<1>5. ASSUME NEW s \in Streams, Callback(s) PROVE OnlyAudioTellsEarly'
  <2>1. past \subseteq past'
    BY <1>5, CallbackKeeps
  <2>2. CASE PostNotice(s) /\ s = "video"
    <3>1. SUFFICES ASSUME "endInFlush" \notin past'
                   PROVE \A i \in DOMAIN queue'["video"] : queue'["video"][i].whole
      BY DEF OnlyAudioTellsEarly
    <3> DEFINE notice == [of |-> cb[s].of, whole |-> Ended(cb[s].of)]
               q == queue["video"]
    <3>2. cb[s].of = gen /\ cb[s].at # "idle" /\ eos["audio"]
      BY <1>5, <2>2, <3>1, CallbackKeeps DEF PostNotice, Notifies
    <3>3. Ended(cb[s].of)
      <4>1. <<"audio", gen>> \in ends
        BY <2>1, <3>1, <3>2 DEF FlagIsOfContent, Undisturbed
      <4>2. <<"video", gen>> \in ends
        BY <2>2, <3>2 DEF RaisedIsReal
      <4>3. QED
        BY <3>2, <4>1, <4>2 DEF Ended, Streams
    <3>4. queue'["video"] = Append(q, notice) /\ q \in Seq(Notices)
      BY <2>2 DEF TypeOK, PostNotice, Streams
    <3>5. \A i \in DOMAIN q : q[i].whole
      BY <2>1, <3>1 DEF OnlyAudioTellsEarly
    <3>6. notice.whole
      BY <3>3
    <3> HIDE DEF notice, q
    <3>7. \A i \in DOMAIN Append(q, notice) :
             Append(q, notice)[i] = notice \/ (i \in DOMAIN q /\ Append(q, notice)[i] = q[i])
      BY <3>4
    <3>8. QED
      BY <3>4, <3>5, <3>6, <3>7
  <2>3. CASE ~(PostNotice(s) /\ s = "video")
    <3>1. queue'["video"] = queue["video"]
      BY <1>5, <2>3 DEF TypeOK, Streams, Callback, SetFlag, PostNotice, KeepQuiet, TellStopped, noticeVars
    <3>2. QED
      BY <2>1, <3>1 DEF OnlyAudioTellsEarly
  <2>4. QED
    BY <2>2, <2>3
<1>6. QED
  BY <1>1, <1>2, <1>3, <1>4, <1>5 DEF Next, vars, noticeVars

(* The server's belief in a stop keeps its reason.                          *)
LEMMA StopStep == TypeOK /\ FlushIsFlushing /\ RaisedIsReal /\ StopHasReason /\ [Next]_vars
                    => StopHasReason'
<1> SUFFICES ASSUME TypeOK, FlushIsFlushing, RaisedIsReal, StopHasReason, [Next]_vars
             PROVE StopHasReason'
  OBVIOUS
<1>1. ASSUME UNCHANGED <<status, pc, save, gen, server>>, ends \subseteq ends', past \subseteq past'
      PROVE StopHasReason'
  BY <1>1 DEF StopHasReason, Undisturbed
<1> USE DEF StopHasReason, Undisturbed, FlushSteps, BeforeCut
<1>2. CASE Play
  BY <1>2 DEF Play, PlayStart, PlayTell, Report, callbackVars
<1>3. CASE Pause
  BY <1>3 DEF Pause, PauseStart, PauseParts, PauseTell, Report, callbackVars
<1>4. CASE FlushReset
  BY <1>4 DEF FlushReset
<1>5. CASE FlushStop \/ FlushPause
  BY <1>5 DEF FlushStop, FlushPause, FlushIsFlushing, callbackVars
<1>6. CASE FlushParts \/ FlushResume \/ FlushEnd
  BY <1>6 DEF FlushParts, FlushResume, FlushEnd, FlushIsFlushing, callbackVars
<1>7. ASSUME NEW s \in Streams, Frame(s) \/ RaiseEnd(s) \/ DeliverNotice(s)
      PROVE StopHasReason'
  BY <1>1, <1>7 DEF Frame, FeedEnd, WriteEnd, RaiseEnd, DeliverNotice, playerVars, callbackVars
<1>8. ASSUME NEW s \in Streams, Callback(s) PROVE StopHasReason'
  <2>1. UNCHANGED <<status, pc, save, gen, ends>> /\ past \subseteq past'
    BY <1>8, CallbackKeeps DEF playerVars
  <2>2. CASE TellStopped(s)
    <3>1. SUFFICES ASSUME "endInFlush" \notin past'
                   PROVE <<s, gen>> \in ends /\ pc \notin BeforeCut
      BY <2>1, <3>1
    <3>2. cb[s].of = gen /\ status # "FLUSHING" /\ cb[s].at # "idle"
      BY <1>8, <3>1, CallbackKeeps
    <3>3. QED
      BY <3>2 DEF RaisedIsReal, FlushIsFlushing
  <2>3. CASE ~TellStopped(s)
    <3>1. server' = server
      BY <1>8, <2>3 DEF Callback, SetFlag, PostNotice, KeepQuiet
    <3>2. QED
      BY <1>1, <2>1, <3>1
  <2>4. QED
    BY <2>2, <2>3
<1>9. QED
  BY <1>1, <1>2, <1>3, <1>4, <1>5, <1>6, <1>7, <1>8 DEF Next, Flush, vars, callbackVars, playerVars

(* The audio's end stays on record until the next content.                  *)
LEMMA RecordStep == TypeOK /\ RaisedIsReal /\ EndOnRecord /\ [Next]_vars => EndOnRecord'
<1> SUFFICES ASSUME TypeOK, RaisedIsReal, EndOnRecord, [Next]_vars PROVE EndOnRecord'
  OBVIOUS
<1> USE DEF EndOnRecord, Undisturbed
<1>1. ASSUME UNCHANGED <<eos, cb, ends, gen, pc>>, past \subseteq past' PROVE EndOnRecord'
  BY <1>1
<1>2. CASE Play \/ Pause
  <2>1. UNCHANGED <<eos, cb, ends, gen>> /\ past \subseteq past'
    BY <1>2 DEF Play, PlayStart, PlayTell, Pause, PauseStart, PauseParts, PauseTell, Report, callbackVars
  <2>2. pc \notin BeforeCut /\ pc' \notin BeforeCut
    BY <1>2 DEF Play, PlayStart, PlayTell, Pause, PauseStart, PauseParts, PauseTell, BeforeCut
  <2>3. QED
    BY <2>1, <2>2
<1>3. CASE FlushReset
  BY <1>3 DEF FlushReset, BeforeCut
<1>4. CASE FlushStop \/ FlushPause \/ FlushResume \/ FlushEnd
  <2>1. UNCHANGED <<eos, cb, ends, gen>> /\ past \subseteq past'
    BY <1>4 DEF FlushStop, FlushPause, FlushResume, FlushEnd, callbackVars
  <2>2. "flushFailed" \in past' \/ pc' \in BeforeCut \/ pc \notin BeforeCut
    BY <1>4 DEF FlushStop, FlushPause, FlushResume, FlushEnd, BeforeCut
  <2>3. QED
    BY <2>1, <2>2
<1>5. CASE FlushParts
  <2>1. CASE gen' = gen + 1
    <3>1. gen \in Nat /\ <<"audio", gen + 1>>[2] = gen + 1
      BY EndOfStreamAssumption DEF TypeOK, Contents
    <3>2. <<"audio", gen + 1>> \notin ends
      BY <3>1 DEF RaisedIsReal
    <3>3. QED
      BY <1>5, <2>1, <3>2 DEF FlushParts, callbackVars
  <2>2. CASE gen' # gen + 1
    BY <1>5, <2>2 DEF FlushParts
  <2>3. QED
    BY <2>1, <2>2
<1>6. ASSUME NEW s \in Streams, Frame(s) \/ DeliverNotice(s) PROVE EndOnRecord'
  BY <1>1, <1>6 DEF Frame, FeedEnd, WriteEnd, DeliverNotice, playerVars, callbackVars
<1>7. ASSUME NEW s \in Streams, RaiseEnd(s) PROVE EndOnRecord'
  BY <1>7 DEF RaiseEnd, TypeOK, Streams, playerVars, noticeVars
<1>8. ASSUME NEW s \in Streams, Callback(s) PROVE EndOnRecord'
  <2>1. UNCHANGED <<pc, gen, ends>> /\ past \subseteq past'
    BY <1>8, CallbackKeeps DEF playerVars
  <2>2. CASE SetFlag(s)
    <3>1. eos'[s] /\ \A r \in Streams : r # s => eos'[r] = eos[r] /\ cb'[r] = cb[r]
      BY <2>2 DEF SetFlag, TypeOK
    <3>2. QED
      BY <2>1, <3>1 DEF Streams
  <2>3. CASE ~SetFlag(s)
    <3>1. eos' = eos /\ cb[s].at # "entered"
      BY <1>8, <2>3 DEF Callback, PostNotice, KeepQuiet, TellStopped
    <3>2. \A r \in Streams : cb[r].at = "entered" => cb'[r] = cb[r]
      BY <1>8, <3>1, CallbackKeeps
    <3>3. QED
      BY <2>1, <3>1, <3>2 DEF Streams
  <2>4. QED
    BY <2>2, <2>3
<1>9. QED
  BY <1>1, <1>2, <1>3, <1>4, <1>5, <1>6, <1>7, <1>8 DEF Next, Flush, vars, callbackVars, playerVars

(* The end of a whole content is reported to the server, or will be.        *)
LEMMA ReportStep == TypeOK /\ RaisedIsReal /\ EndOnRecord /\ EndIsReported /\ [Next]_vars
                      => EndIsReported'
<1> SUFFICES ASSUME TypeOK, RaisedIsReal, EndOnRecord, EndIsReported, [Next]_vars
             PROVE EndIsReported'
  OBVIOUS
<1>1. ASSUME UNCHANGED <<eos, cb, ends, gen, pc, server>>, past \subseteq past'
      PROVE EndIsReported'
  BY <1>1 DEF EndIsReported, Undisturbed, Reports, Ended
<1>2. CASE PlayStart \/ PauseStart \/ PauseParts
  BY <1>2 DEF PlayStart, PauseStart, PauseParts, callbackVars, EndIsReported, Undisturbed, Reports,
     Ended, BeforeCut
<1>3. CASE PlayTell \/ PauseTell
  BY <1>3 DEF PlayTell, PauseTell, Report, callbackVars, EndIsReported, Undisturbed, Ended
<1>4. CASE FlushReset \/ FlushStop \/ FlushPause \/ FlushResume \/ FlushEnd
  BY <1>4 DEF FlushReset, FlushStop, FlushPause, FlushResume, FlushEnd, callbackVars,
     EndIsReported, Undisturbed, Reports, Ended, BeforeCut
<1>5. CASE FlushParts
  <2>1. CASE gen' = gen + 1
    <3>1. gen \in Nat /\ <<"audio", gen + 1>>[2] = gen + 1
      BY EndOfStreamAssumption DEF TypeOK, Contents
    <3>2. <<"audio", gen + 1>> \notin ends
      BY <3>1 DEF RaisedIsReal
    <3>3. QED
      BY <1>5, <2>1, <3>2 DEF FlushParts, callbackVars, EndIsReported, Ended, Streams
  <2>2. CASE gen' # gen + 1
    BY <1>5, <2>2 DEF FlushParts, EndIsReported, Undisturbed
  <2>3. QED
    BY <2>1, <2>2
<1>6. ASSUME NEW s \in Streams, Frame(s) \/ DeliverNotice(s) PROVE EndIsReported'
  BY <1>1, <1>6 DEF Frame, FeedEnd, WriteEnd, DeliverNotice, playerVars, callbackVars
<1>7. ASSUME NEW s \in Streams, RaiseEnd(s) PROVE EndIsReported'
  <2>1. UNCHANGED <<pc, gen, eos, server, past>> /\ cb[s].at = "idle"
    BY <1>7 DEF RaiseEnd, playerVars, Idle
  <2>2. /\ cb'[s] = [at |-> "entered", of |-> gen]
        /\ \A r \in Streams : r # s => cb'[r] = cb[r]
    BY <1>7 DEF RaiseEnd, TypeOK
  <2>3. SUFFICES ASSUME Undisturbed({"endInFlush", "flushFailed", "toldAfterEnd"}),
                        pc \notin BeforeCut, Ended(gen)'
                 PROVE server = "STOPPED" \/ \E r \in Streams : Reports(r)'
    BY <2>1, <2>3 DEF EndIsReported, Undisturbed
  <2>4. CASE s = "audio"
    BY <2>1, <2>2, <2>4 DEF Reports
  <2>5. CASE s = "video"
    <3>1. <<"audio", gen>> \in ends
      BY <1>7, <2>1, <2>3, <2>5 DEF Ended, RaiseEnd, Streams
    <3>2. eos["audio"] \/ (cb["audio"].at = "entered" /\ cb["audio"].of = gen)
      BY <2>3, <3>1 DEF EndOnRecord, Undisturbed
    <3>3. QED
      BY <2>1, <2>2, <2>5, <3>2 DEF Reports, Streams
  <2>6. QED
    BY <2>4, <2>5 DEF Streams
<1>8. ASSUME NEW s \in Streams, Callback(s) PROVE EndIsReported'
  <2>1. UNCHANGED <<pc, gen, ends>> /\ past \subseteq past'
    BY <1>8, CallbackKeeps DEF playerVars
  <2>2. SUFFICES ASSUME server = "STOPPED" \/ \E r \in Streams : Reports(r)
                 PROVE server' = "STOPPED" \/ \E r \in Streams : Reports(r)'
    BY <2>1, <2>2 DEF EndIsReported, Undisturbed, Ended
  <2>3. \A r \in Streams : r # s => cb'[r] = cb[r]
    BY <1>8, CallbackKeeps
  <2>4. eos["audio"] => eos'["audio"]
    BY <1>8 DEF Callback, SetFlag, PostNotice, KeepQuiet, TellStopped, TypeOK, Streams
  <2>5. ASSUME NEW r \in Streams, r # s, Reports(r) PROVE Reports(r)'
    BY <2>1, <2>3, <2>4, <2>5 DEF Reports
  <2>6. CASE SetFlag(s)
    <3>1. cb'[s].at = "judge" /\ cb'[s].of = cb[s].of /\ cb[s].at = "entered" /\ server' = server
      BY <2>6 DEF SetFlag, TypeOK
    <3>2. Reports(s) => Reports(s)'
      BY <2>1, <2>4, <3>1 DEF Reports
    <3>3. QED
      BY <2>2, <2>5, <3>1, <3>2
  <2>7. CASE PostNotice(s)
    <3>1. cb'[s].at = "tell" /\ cb'[s].of = cb[s].of /\ server' = server
      BY <2>7 DEF PostNotice, TypeOK
    <3>2. Reports(s) => Reports(s)'
      BY <2>1, <3>1 DEF Reports
    <3>3. QED
      BY <2>2, <2>5, <3>1, <3>2
  <2>8. CASE KeepQuiet(s)
    <3>1. ~Reports(s) /\ server' = server
      BY <2>8 DEF KeepQuiet, Notifies, Reports
    <3>2. QED
      BY <2>2, <2>5, <3>1
  <2>9. CASE TellStopped(s)
    BY <2>9 DEF TellStopped
  <2>10. QED
    BY <1>8, <2>6, <2>7, <2>8, <2>9 DEF Callback
<1>9. QED
  BY <1>1, <1>2, <1>3, <1>4, <1>5, <1>6, <1>7, <1>8
  DEF Next, Play, Pause, Flush, vars, callbackVars, playerVars
-----------------------------------------------------------------------------
(* The invariant holds at first. *)
LEMMA InvInit == Init => Inv
<1> SUFFICES ASSUME Init PROVE Inv
  OBVIOUS
<1>1. TypeOK
  <2>1. queue \in [Streams -> Seq(Notices)]
    BY EmptySeq DEF Init
  <2>2. Idle \in [at : CallbackSteps, of : Contents]
    BY EndOfStreamAssumption DEF Idle, CallbackSteps, Contents
  <2>3. cb \in [Streams -> [at : CallbackSteps, of : Contents]]
    BY <2>2 DEF Init
  <2>4. end \in [Streams -> Places] /\ eos \in [Streams -> BOOLEAN] /\ gen \in Contents
    BY EndOfStreamAssumption DEF Init, Places, Contents
  <2>5. QED
    BY <2>1, <2>3, <2>4 DEF Init, TypeOK, ClientSteps
<1>2. FlushIsFlushing
  BY DEF Init, FlushIsFlushing, FlushSteps, BeforeCut
<1>3. \A s \in Streams : cb[s].at = "idle" /\ queue[s] = <<>> /\ ~eos[s]
  BY DEF Init, Idle
<1>4. ends = {} /\ server = "none" /\ pc = "idle"
  BY DEF Init
<1>5. RaisedIsReal /\ FlagIsOfContent /\ StopHasReason /\ EndOnRecord
  BY <1>3, <1>4 DEF RaisedIsReal, FlagIsOfContent, StopHasReason, EndOnRecord, BeforeCut, Streams
<1>6. OnlyAudioTellsEarly
  BY <1>3 DEF OnlyAudioTellsEarly, Streams
<1>7. EndIsReported
  BY <1>4 DEF EndIsReported, Ended, Streams
<1>8. QED
  BY <1>1, <1>2, <1>5, <1>6, <1>7 DEF Inv

(* Every step keeps it. *)
LEMMA InvStep == Inv /\ [Next]_vars => Inv'
BY TypeStep, FlushStep, RaisedStep, FlagStep, NoticeStep, StopStep, RecordStep, ReportStep DEF Inv

(* The variables have their types, however often the client flushes.        *)
THEOREM Typing == Spec => []TypeOK
<1>1. Inv => TypeOK
  BY DEF Inv
<1>2. QED
  BY <1>1, InvInit, InvStep, PTL DEF Spec

(* Notices of an end that is not the end of both streams come from the      *)
(* audio's callback, unless a callback ran while a flush was under way.      *)
THEOREM VideoWaits == Spec => []OnlyAudioTellsEarly
<1>1. Inv => OnlyAudioTellsEarly
  BY DEF Inv
<1>2. QED
  BY <1>1, InvInit, InvStep, PTL DEF Spec

(* Between calls and callbacks the media server knows whether the playing   *)
(* content has ended, but for the disturbances the property names.           *)
THEOREM ServerKnows == Spec => []ServerAgrees
<1>1. Inv => ServerAgrees
  <2> SUFFICES ASSUME Inv, status = "PLAYING", CallsDone
               PROVE  /\ server = "STOPPED" =>
                           \/ \E s \in Streams : <<s, gen>> \in ends
                           \/ past \cap {"endInFlush", "stoppedAtFlush"} # {}
                      /\ Ended(gen) => \/ server = "STOPPED"
                                       \/ past \cap {"endInFlush", "flushFailed", "toldAfterEnd"} # {}
    BY DEF ServerAgrees
  <2>1. pc = "idle" /\ pc \notin BeforeCut /\ \A s \in Streams : ~Reports(s)
    BY DEF CallsDone, Reports, BeforeCut
  <2>2. QED
    BY <2>1 DEF Inv, StopHasReason, EndIsReported, Undisturbed
<1>2. QED
  BY <1>1, InvInit, InvStep, PTL DEF Spec
=============================================================================
