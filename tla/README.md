# Verification of libndl-directmedia2

TLA+ models of the elementary-stream player of libndl-directmedia2 (`src/`), the
TLC runs that check them on small instances, and TLAPS proofs of what holds for
every instance. All line numbers are of the files under `src/`; `esplayer.cpp`,
`message.cpp`, `omxclient.cpp` and `requestor.cpp` stand for `src/src/esplayer.cpp`,
`src/src/message.cpp`, `src/src/omx/omxclient.cpp` and
`src/src/mediaresource/requestor.cpp`.

The build modelled is the one `src/src/CMakeLists.txt` makes for the Raspberry Pi:
`MSG_RETRY` is defined, `OMX_NONE_TUNNEL` and `SUPPORT_AUDIOMIXER` are not (the
codecs and renderers are tunnelled), and `NDLASSERT` is a log line.

## 1. The system

An application drives one *player* (`Esplayer`) through a C API. It loads the
content's metadata, feeds encoded frames of video and audio, and plays, pauses,
steps, flushes and unloads. The player owns OpenMAX *components* (codecs,
scheduler, renderers, clock), each behind an `OmxClient`, and four *loopers*, each
a thread with a queue. A media server lends it hardware resources, and may take
them back at any time.

### Components

| Part | State it keeps | Operations | Who calls it |
|---|---|---|---|
| `MessageLooper` (message.cpp) | `message_queue_`, `running_`, the thread, two condition variables | `post` (ordered by `run_at_`), `append`, `clearAll`, `setRunningState`, the loop, the destructor | two renderer loopers run `Feed_VideoData` and `Feed_AudioData`; two codec loopers tell the client of events |
| `OmxClient` buffers (omxclient.cpp) | per buffer a header, a `BufferInfo` with its owner; `buffer_lock_` | `writeToFreeBuffer`/`emptyBuffer`, `EmptyBufferDone`, `freeBuffer` | renderer loopers, the thread that sends codec configuration, the component's callback thread, `unload()` |
| `OmxClient` commands | `flushing_`, port flags, `omx_mutex_` and conditions | `setState`, `flush`, `enablePort` and their timed waits | the application's and the media server's threads, and callbacks |
| `Esplayer` lifecycle (esplayer.cpp) | `state_`, `loaded_`, `unload_mutex_`, the component pointers, `enable_*_` | `load`, `play`, `pause`, `stepFrame`, `flush`, `unload` | the application's thread; `unload()` also from the media server's |
| `ResourceRequestor` (requestor.cpp) | `acquiredResource_`, the callbacks, the connection | acquire, release, policy action, display notifications | `load()`, `unload()`; the media server's thread |
| Feed path (esplayer.cpp) | two buffer queues with a mutex each | `feedData`, `Feed_*Data`, `clearBufQueue` | application's feeder threads, renderer loopers, `flush()` |
| A/V pacing (esplayer.cpp) | `sync_state_`, `*_last_pts_`, unlocked | `setOmxFlags`, threshold events | both renderer loopers; the codec's callback, `play()`, `flush()` write it too |
| Time stamp adjustment | `pts_previous_`, `pts_base_`, `pts_drop_count_` per stream | `adjustPtsToMicrosecond` | both renderer loopers |
| Component callbacks, end of stream | `video_eos_`, `audio_eos_`, `is_first_port_setting_change_` | `on*Callback` | component threads |
| Components, clock (component-rpi.cpp, rpiclock.cpp) | ports, formats, the clock's rate and wait mask | `create`, `set*Format`, `setupTunnel`, `setWaitingForStartTime` | `load()`, `play()`, `flush()`, the port change |
| Frame parser, software audio decoder, `OmxCore`, C API, debug | little or none | see PROJECT.json | |

### How they interact

The application's thread calls `Esplayer`, which commands every component in a
fixed order (`changeComponentsState`, 900-935) and waits for each with a timeout;
only `flush()` resumes them with the timeout 0 (1608), which waits for none.
A feeder thread puts a frame into a buffer queue and a message into a renderer
looper; the looper's thread takes the frame, paces it (`setOmxFlags`), and writes
it into a free OMX buffer. The component's thread returns buffers and reports
port changes and the end of the stream by callbacks; those post events to a codec
looper, which calls the application's callback. The media server's thread calls
the policy handler of the requestor, which runs `unload()`.

### What is hard

* Three or more kinds of threads share `Esplayer` with one mutex that only some
  operations take, after they have tested the status.
* The loop of `MessageLooper` runs a handler without its mutex and then pops
  "the front".
* Each OMX command can fail or time out in the middle of a sequence; several
  paths return past the code that restores what was changed.
* Buffers may be returned late, after their owner has given up waiting.
* `sync_state_` and the time stamps are written by three threads without a lock.
* The end of a stream travels with the data and the news of it by callbacks,
  while `flush()` clears the flags that join the two.
* `flush()` returns before its components have resumed, and the next call finds them
  in the state they are about to leave.
* Most commands of `load()` are not waited for, and several failures in it are
  only logged; the callback of a port change waits for nothing.
* A 33-bit time stamp that falls back is a wraparound or a frame out of order, and
  only the frames after it tell.

### What makes each part correct

* Looper: each frame handled once and in order; nothing lost without a reason; a
  started looper drains; its destructor ends.
* Buffers: one owner each, none lost, none filled twice at once, none used after
  it is freed.
* Lifecycle: the status tells what the components do; an unloaded player has
  nothing left; no component disappears under a command or a null one is used;
  resources are held while, and only while, loaded.
* Pacing: the player and the client agree on whether video is stopped.
* Feed path: what comes out is what was fed, in order, from the last flush on.
* End of stream: the client is told once both streams are at their end, and what
  the media server was told last is what the player does.
* Time stamps: a frame is presented at the time it was made with.
* Pipeline: what is loaded is connected, what plays gets to the renderers, what is
  paused stands still.

`PROJECT.json` lists the hazards one by one, each with its line.

## 2. Modules

| Module | Models | Checked by | Proved in |
|---|---|---|---|
| `MessageLooper` | one looper of message.cpp with its posters | `MCMessageLooper` | `MessageLooperProofs` |
| `OmxBuffers` | the input buffers of one port | `MCOmxBuffers` | `OmxClientProofs` |
| `Esplayer` | lifecycle and requestor | `MCEsplayer` | `EsplayerProofs` |
| `AvSync` | pacing and the client that obeys it | `MCAvSync` | `AvSyncProofs` |
| `FrameStream` | what the feed path promises (abstract) | through `FeedPath` | `FeedPathProofs` |
| `FeedPath` | a frame's way from `feedData` into the codec | `MCFeedPath` | `FeedPathProofs` |
| `OmxCommands` | the commands to one component and their waits | `MCOmxCommands` | `OmxClientProofs` |
| `EndOfStream` | the end of both streams and who is told of it | `MCEndOfStream` | `EndOfStreamProofs` |
| `PtsWrap` | time stamps that wrap | `MCPtsWrap` | `PtsWrapProofs` |
| `Pipeline` | the OMX steps of load, play, pause and a port change | `MCPipeline` | `PipelineProofs` |

The modules meet at these places. `FeedPath` takes from `MessageLooper` that the
pop takes the message that was run and from `OmxBuffers` that a free buffer is one
writer's. `Esplayer` has the commands of a call as one step that succeeds or fails
with the components before the one that failed changed; `Pipeline` has those
commands one by one, without the mutex, `flush()` and `unload()`; `OmxCommands` has
the wait inside one of them. `EndOfStream` begins where `FeedPath` ends, with the
last frame in the codec, and uses a looper as a queue.

In every module a variable is the member whose name its comment gives. A thread's
place (`pc`, `wpc`, `fpc`) says between which two lines it is. An action is the
code from one such place to the next: the cuts are where a mutex is taken or
released, where shared state is read that is used later, and around calls out of
the code. Variables marked *history* are written only for the properties.
Operators whose comment begins with *Mutant* are not part of a model; each is a
plausible mistake in the definition that follows it, and replacing that definition
by it must break a property (PROJECT.json "mutants").

### MessageLooper

A message is the instant it was built at (`run_at_`; every caller passes delay 0).
`Make` and `Post` are two steps, because the time is read by the constructor and
the queue is locked later. `TakeFront` is the loop up to the call of the handler,
`HandleSuccess` the pop of what is then in front, `HandleRetry` the path of a
handler that failed (buffer full). `ParkStopped` and `ParkEmpty` are the two
waits, and `WakeFrom` a notify that reaches only a thread that waits. The quit
message is a null pointer with `run_at` 0. A behaviour is of one of two kinds of
looper, as the player uses them: *renderer* (one feeder, `append`, `clearAll`,
retries) or *notifier* (`post` from several threads). `reschedule` and `cancelAll`
have no caller and are left out.

### OmxBuffers

`Write*` are the steps of `writeToFreeBuffer` under `buffer_lock_`: pick, copy,
mark in `emptyBuffer`, hand over. The component accepts or rejects, and returns a
buffer whenever it likes (`ComponentReturn`, external). `Done*` are the steps of
`EmptyBufferDone`, which runs without the lock: it tells the listener, which counts
the buffers of the port, and only then notes the new owner. `Free*` are
`freeBuffer()` and `waitForBufferState()`, whose deadline is one second per buffer.
A read of a `BufferInfo` that is gone sets `crashed`, and the program stops.

### Esplayer

Each operation is cut where it tests the status, where it takes `unload_mutex_`,
and before and after its commands to the components. `ChangeAndWait` is
`changeComponentsState` with a timeout: all succeed, or those before the one that
failed have changed (`Changed`); a component found in the state is sent nothing
(`Sent`, omxclient.cpp:259). With the timeout 0 of `flush()` (`Resumed`) those sent to
become `late`, and `CarryOut` has each of them execute when it likes, or refuse.
`pause()` skips one it finds still paused, which the history `overtaken` notes. The
components are the codecs (`VideoParts`, `AudioParts`), the scheduler, the audio's
renderer and the clock; the video's renderer, which `pause()` leaves out (907-910) and
the codec's callback starts, is in `Pipeline`. `UnloadDestroy` destroys one part at a
time in the code's order.
`LoadBlocked`, `LoadFails` and `EarlyReturn` are the error paths, with exactly the
resets those paths make (often none). The application calls from one thread; the
policy threads run `policyActionHandler`, `unload()` and the release that follows
it. A dereference of a null component sets `crashed` and nothing moves on.

### AvSync

`setOmxFlags()` of both renderer threads, cut at the places where the other
thread or the codec's callback can come in between: `Enter` (first reads),
`JudgeVideo`/`JudgeAudio` (compare and wish), `Decide` (compare the wish with
`sync_state_` as it is by now), `WriteHold`/`WriteAllow`, `PostHigh`/`PostLow`.
`Deliver` is the test client (tests/esplayer-test.cpp:396-430), which stops
feeding at HIGH and goes on at LOW and PORT. The time stamps are whatever the
client feeds, so the difference read is any of `Gaps`, and a frame stamped 0 leaves
its stream as if it had not begun (the code's test for that is `== 0`, 1049 and 1079);
frames may arrive at any
time, also after the client was told to stop, because the looper's queue still
holds some.

### FeedPath

One stream, video or audio. The feeder's places are those of `feedData`: its tests,
the wait for the mutex (which it does not keep: the `lock_guard` is the body of an
`if`), the push into the buffer queue, the message. All messages of a renderer
looper are the same closure, so they are a number, `msgs`; what `MessageLooper`
shows of the queue behind it (the pop after a handler takes the message that was
run, a failed handler leaves it) is built into `TakeMessage` and `PopMessage`. The
handler's places are the calls of `Feed_VideoData` and `Feed_AudioData`, which test
for room and fetch the frame in opposite orders. A frame exists while the queue or
`feedData` refers to it: `getBufQueue` returns a raw pointer. `UseGone` is the use
of a frame or of a codec that is gone, after which the program stops. `flush()` is
cut between the clear of the messages and the clear of the frames, and leaves by
the two early exits `Esplayer` has too; `unload()` clears messages and no frames,
and then frees and destroys the codec, which is what a handler may still be using.

`size` is how many buffers the data of each frame fills. `Calls` are the calls of
`writeToFreeBuffer()` a handler makes: one for each part of a video frame, but one for
all of an audio frame, which is not split (1184). `WritePart` cuts what does not fit into
its buffer and succeeds, as the code does (omxclient.cpp:816-823); such a frame is
`TooLong`. `decodes` is whether the codec takes data: it is Idle before `play()`, in Pause
in a paused player and after a `flush()` that broke off (1576). `SetDecodes` lets it
change at any time.

`FrameStream` is the promise without threads: `Feed`, `Deliver` of a part of a frame
that no flush cut and no later frame overtook, and `Cut`. `StreamsFrames` is that
`FeedPath` implements it, with the mapping `Stream` in `FeedPath`: `fed` is the frame
fed last, `need` the parts of each frame, `got` what the codec got, `cut` the last frame
that was fed before the flush cleared the queue, or the one before it if its `feedData()` is still in course.

### OmxCommands

A call notes what it must (`current_state_`, `flushing_`), sends its command
(`Send`, `SendFails`), and with a timeout waits: `Test`, `EnterWait`, `Timeout`. The
cut between `Test` and `EnterWait` is the unlocked gap in which a signal is lost; a
signal (`Signal`) wakes any one of the threads on the one condition variable. The
component carries out its commands in order, late or not at all (`Refuse`), and
flushes port after port. `shared` is the case in which the thread that commands
from a callback (esplayer.cpp:1744, 1782) is the one that delivers the events.
That OMX_ALL flushes exactly the ports the map has as enabled is what the code
takes for granted of the component.

### EndOfStream

`end[s]` is where the last frame of a stream is: in the queue, in the codec, out.
`RaiseEnd` is OMX_EventBufferFlag of a codec, which the component raises when the
frame is out; the callback is cut into `SetFlag`, `Notifies` (the video's callback
tests the flag of the audio, 1803; the audio's tests nothing, 1994), `PostNotice` and
`TellStopped`. `PlayStart` .. `PauseTell` are the client's calls, with the report to
the media server as a step of its own, after the status. `flush()` is cut where a
callback can come between: the flags (1550), the status, the stop of the components,
their flush, the return to the saved status. A content is what is fed between
two flushes; `told` is the history of contents whose whole end a notice told, and
`past` names the disturbances the properties exempt. A notice that is posted is not
withdrawn by `flush()`, as in the code.

### PtsWrap

`adjustPtsToMicrosecond()` of both renderer threads, cut at the reads and writes of
the shared arrays: `Enter` (984-1004), `Bump` (raise a base for the first frames of
two streams on different sides of a wrap), `JudgeDrop`, `JudgeWrap` and `JudgePlain`,
`Commit`, `Return`, with the conversion to microseconds (`Micro`, cut off as the code
does). The reference is the time a frame was made with, which does not wrap; `Pts`
is that time modulo the range.
`flush()` resets bases and previous times and not `pts_drop_count_`, as in the code.

### Pipeline

`LoadScript`, `PlayScript`, `ChangeScript` and `PortChangeScript` are the commands in the
code's order with what their failure does: `BREAK_IF_NONZERO` ends the script,
`LOG_IF_NONZERO` goes on, and a failed audio tunnel skips the four that follow. One
action per kind of command executes them: `MakePart`, `SetParam`, `SendSetState` and
`EndWait`, `EnablePort`, `WaitForPortEnable`, `SetupTunnel`, `SetStartTime`. The
component is external: `CarryOut` takes the next of its commands and raises its
event, `Refuse` answers with an error, and what OMX itself demands is in `Allowed`,
`Blocked` and `MayTunnel`. The video codec changes its output settings up to
`MaxChanges` times, which runs `PortChangeScript` on its callback thread while the
application's script is at any of its steps. `Fault` is whatever can fail, once.

## 3. Runs

| Run | Instance | Shows |
|---|---|---|
| `looper` | 4 messages, 2 posters, both kinds of looper | see below; with liveness |
| `looper_quit` | 2 messages | finding: the destructor may wait for ever |
| `omx_buffers` | 3 buffers, 2 writers | ownership, no loss, freeing ends |
| `esplayer` | one application, one policy thread, video and audio, up to 3 kinds of disturbance | lifecycle properties; with liveness |
| `flush_pause` | no policy thread | finding: a paused player that executes |
| `single_stream` | no policy thread, content of one stream too | finding: null component |
| `avsync` | a gap for each case, 2 video buffers, 2 events, 1 command | pacing properties |
| `feed_path` | 2 frames of 1 or 2 parts, 2 buffers, 1 flush | implements `FrameStream`; with liveness |
| `omx_commands` | 3 threads, 2 ports, 2 states, 2 calls | waits and their answers; with liveness |
| `eos` | 2 contents, 1 flush | who is told of the end; with liveness |
| `pts` | a range of 32, 5 frames a stream, 1 flush | times across a wrap |
| `pipeline` | any content, 1 fault, 2 port changes, 4 calls | connections and states |

**looper.** `HandledOnce`: no frame is
written twice. `LossOnlyByRace`: a message is dropped only if a client changed the
front during a handler (a clear and new messages, or a message built earlier and
posted later). `FramesInOrder`. `StartedLooperDrains`: no wakeup is lost.
`CleanQuitJoins`: a quit message that no handler overlaps ends the thread.

**omx_buffers.** `OwnedByOne`, `FillIsExclusive`, `NoBufferLost`: the order mark,
hand over, return, release is right although the return does not take the lock.
`FlushedFreeIsSafe`: after a flush with no writer, freeing is safe. `FreeEnds`.

**esplayer.** `NoTeardownUnderCommand`, `NullUseNeedsPolicy`,
`FlushingHasFlusher`, `ReleasedOnceUnloaded`, `HeldWhileLoaded`, `StatusTellsParts`
and `MutexComesBack`. Several hold only while nothing unusual happened; the
variable `past` names the disturbances, and each property exempts exactly those
under which TLC shows it to fail: a policy action that is refused by `unload()` but
still releases the resources (requestor.cpp:245), a `flush()` after a failed
`load()` (which leads from IDLE to states `unload()` accepts), a command that failed
part of the way, a `flush()` of a loaded player, which leaves the clock paused.
`StatusTellsParts` counts a component that was told to execute and has not yet as one
that plays, and exempts a `pause()` that overtook it; without that exemption it is
`PausedStandsStill`, which is false (finding 3).

**avsync.** `StoppedClientIsRemembered` and `HeldClientIsStopped`: at rest the player
and its client agree. `LowOnlyAfterHigh`: no hold is ended twice. The exemptions are
again the cases TLC shows: `play()` allows video without telling the client,
`flush()` restarts the client without ending the hold, and `crossed`: the state is
written before the event is posted, so two threads may post in the other order and
the client obeys the older event. `StoppedClientIsRemembered` also exempts a frame
stamped 0: the next one then allows video without telling the client. The other two
hold over such frames.

**feed_path.** `StreamsFrames`: the codec gets each part of a frame once, and frames in
the order they were fed, although a handler that failed is run again and frames
and messages are matched by nothing but their number; and after a flush nothing
that was fed before comes out, but for the frame a `feedData()` had in hand, which
comes out behind the flush. `WholeIfRoom`: a frame that
leaves the queue is in the codec whole if there was room for all of it when the handler
counted, and it was not audio of more than one buffer (`TooLong`). The two exemptions are
what the code does: the -1 of a `writeToFreeBuffer()` that finds no buffer is only added
to a length, so a frame larger than the free buffers loses its rest; and decoded audio
that does not fit is cut off. `QueuedGetsOut`: once the looper stays started and the
codec executing, every frame gets out of the queue; a codec left idle or in Pause with
a started looper is not covered, and fails with a full codec. `DeadFrameNeedsClear`,
`LossNeedsClear` and `FrameHasMessage` hold until a `flush()` clears under a handler: then the handler
uses a dead frame, or pops a frame fed since, or leaves a frame that no message
will fetch. Each of the three fails without its exemption.

**omx_commands.** `FlushAccounted`: while the component owes a flushed port, however
late, `flushing_` is not empty, so no later flush takes the late event for its own.
`FlushUsableAgain`: a flush that timed out blocks the next one only until then, or
for good if the component gave up. `CurrentIsReal`: the state noted before the
command is sent is the component's in the end; two threads that note theirs at
once, or a refusal after the command was accepted, are the exceptions.
`TimeoutExplained`: a deadline that passes although the condition holds is due to a
missed signal. `CallReturns`, also for the callback whose thread is the one that
delivers events. With 3 calls (850 000 states) the same holds.

**eos.** `OnlyAudioTellsEarly`: the video's callback never tells of an end the audio has
not reached. The audio's does, whenever it is first: that is the asymmetry of 1803
and 1994, which the client cannot see. `EndIsTold`: whichever stream ends first, a
notice is delivered after both have ended. `ServerAgrees`: with nothing under way the
media server has the player as STOPPED only if a stream of this content has ended,
and knows of the end of the content. The exemptions are the disturbances TLC shows
to break each: a callback for old content in the middle of a flush, whose flag then
counts for the new content; a flush that broke off after it reset `audio_eos_`, after
which the end of the video is told to nobody; a flush of a stream that had ended, which
plays on while the media server still has STOPPED; a call that reports after the end.

**pts.** `TimesAreExact`: every frame is presented at the time it was made with, less
one tick for every wrap (the base is raised by 2^33-1, line 986, where the counter
wraps at 2^33). `NoJump`: from one frame to the next of a stream the time changes by no
more than frames out of order and that tick explain, also while a wrap is only
suspected. Five situations are exempt, each of which TLC shows to fail: two first
frames looked at at once, a stream that starts after the other has counted a wrap, a
frame from before the wrap behind a first frame from after it, a frame in hand
during `flush()`, a base read while the other thread is about to raise it.

**pipeline.** `LoadedIsConnected`: a `load()` that answered success has connected the
components of each stream and brought them where `play()` takes them on, although it
waits for few of its commands. Its exemptions are what it overlooks: the failed OMX
call of a tunnel, a port that was not enabled, a renderer that was late.
`PictureFlows`: while playing, after each change of the settings the video's tunnel is
set up for the new ones and enabled on both sides, whatever `play()` and `pause()` do
meanwhile, unless a command was lost, the settings could not be read (1754: both
ports stay disabled) or `setupTunnel()` was faster than the ports were disabled.
`PausedIsPaused`: a paused player's components stand still, but for the renderer of
the video and for a `setState()` that found its state because an earlier command was
still on its way (omxclient.cpp:259). `load()` of an H.265 codec fails by way of
`setVideoFormat()`, which `LoadedIsConnected` includes.

### Bounds

`MaxMsgs` 4: the longest scenario needs a message in its handler, one behind it,
one built and not yet posted, and one after a clear. Three buffers: one freed, one
waited for, one handed over. One policy thread: a second is refused by the status
or waits for the mutex; the proofs are for any number. Two events and one command
in `avsync`: a disagreement needs two announcements, and commands only exempt. Two
frames in `feed_path`: one in the handler and one fed after the flush; frames of one buffer
pass through, frames of two fill the codec, and a content has frames of one size. With
frames of different sizes (1.8 million states, not part of the runs) the safety
properties hold as well. In `esplayer` a command fails at most once (`FailAgain`), and
`FewDisturbances` ends behaviours at a fourth of the seven kinds of disturbance; without
it (2.8 million states, not part of the runs) the safety properties hold as well, and
the proofs have neither bound. The
difference of the time stamps has one value for each order to the three
thresholds. Two contents in `eos`: one whose end a flush cuts and one after. In `pts`
a stream starts before the wrap, at it, or after it, one frame is out of order, and a
wrap is counted after the second drop (10 in the code, for frames further out of
order). In `pipeline` one fault anywhere; two changes, so that the second is not the
first; four calls: play, pause, resume, pause. With two faults exemptions combine,
which is not explored.

Bounds are guards of the actions that build a message, post an event or start a
command. The two state constraints are `FewDisturbances` of `esplayer` and `StillAsked`
of `pts`, which cuts behaviours at disturbances that both properties exempt for good.

`CHECK_DEADLOCK FALSE` stands where the system may stop: a looper that has joined,
a port whose buffers are freed, a player that used a null pointer, streams that have
ended, a pipeline with no calls left.

### Fairness

* Looper: its thread and whoever has begun to post, to quit or to join go on (weak
  fairness: they are threads outside any wait but the modelled ones). The success
  of a handler is strongly fair: a full codec that runs frees a buffer sooner or
  later, and the handler is tried again every `RETRY_GAP_TIME`.
* Buffers: writers, callbacks and `freeBuffer()` go on. `freeBuffer()` is strongly
  fair because it asks for `buffer_lock_` again and again, and its timeout because
  the deadline is one instant. Nothing is assumed of the component.
* Commands: a call goes on, its deadline comes, the component answers or gives up,
  and events are handled.
* Feed path: the feeder, the looper, `flush()` and `unload()` go on, and a codec that
  executes (`decodes`) decodes the data it has. Nobody has to feed, to start the looper
  or to stop it, and nothing makes the codec execute (`SetDecodes` is not fair).
* End of stream: a callback or a call that has begun goes on, and a started looper
  handles its notices. Nobody has to feed the end, and the codec does not have to
  raise it: the property is about ends that were raised.
* Player: a call that has begun goes on, since every wait for a component has a
  timeout. Nothing obliges anyone to call, and nobody is promised the mutex.

## 4. Findings

Each is a violation run: a statement of the repository that the code does not keep.

1. `QuitJoins` (message.cpp:194). `postQuit()` sorts the null message before every
   other. If a handler runs at that moment, the quit message lands in front of the
   message being handled, the handler's success pops it, and the destructor's join
   waits for ever.
2. `SingleStreamPlays` (esplayer.cpp:1384). The metadata may say that there is no
   video or no audio; `play()` uses the scheduler and the audio codec untested.
3. `PausedStandsStill` (esplayer.cpp:1608). `pause()` means to "set state to pause and wait
   done" (1446). After a `flush()` of a playing player, which does not wait for its
   components to resume, `pause()` may find one still paused, send it nothing
   (omxclient.cpp:259) and report success; the component executes in a paused player.

Further disagreements met while modelling, which the models contain and no run is
spent on:

* The clock waits for the streams of a mask, "1 (audio only), ... 2 (video only), ... 3
  (audio and video)" (rpiclock.cpp:220); a player whose rate was set before `load()`
  passes the number of a port, 80 (537). The models leave the mask out.
* `writeToFreeBuffer()` cuts off data larger than the buffer and succeeds
  (omxclient.cpp:816), and `Feed_AudioData()` hands it all a decoder made in one call.
* `unload()` relies on "Flush all component(already done)" (esplayer.cpp:750), which
  nobody did; a buffer that comes back after `freeBuffer()` timed out makes the
  listener read the status of a null header (1729).
* A component that does not pause makes `flush()` return past the statement that
  restores the status it "saved to return back" (1553, 1576): FLUSHING for good.
* After a failed `load()`, `loaded_` stays set (161), and the next `load()` answers
  success (149) with nothing loaded.
* "ALLOW_VIDEO in SKIP" (1064) is stored only in a local that is then ignored: after
  one skip the state stays SKIP_VIDEO until a port change, a first frame or
  `play()`, and the test that stops the client when the codec's buffers fill up is off.
* "audio renderer input port is already enabled during setupTunnel" (447): the
  command is only on its way there.
* `policyActionHandler()` releases the resources even if `unload()` refused
  (requestor.cpp:245), which takes them from a player that still uses them.

## 5. Proofs

**OmxClientProofs**, of `OmxBuffers`: for every number of buffers and every set of writers (from
`BufferAssumption`: at least one buffer, and `NoOne` is not a writer).
`OwnedByOne` is not inductive: that a buffer just marked is not inside the
component yet depends on the writer's place. `BuffersInv` adds `LockInv` (exactly the
thread inside a write holds the lock), `FillInv` and `MarkInv` (what a writer's
place says of the buffer in its hand) and `ReturnInv` (a buffer on its way back has
left the component). Each action is shown to preserve it; `Ownership`,
`Conservation` and `ExclusiveFill` are parts or consequences. `FlushedFree` has an
invariant of its own: after a flush with every buffer home, nothing is held, so
nothing comes back.

**EsplayerProofs**, for any number of policy threads and any content. `Inv` is the
conjunction of `WhoIsWhere` (the policy threads only unload), `OwnerHoldsLock`
(exactly the thread inside a guarded body holds the mutex), `Typed`,
`FlushingExplained` (a FLUSHING without a flush was left behind by one that broke
off) and `Orderly` (nobody unloads an IDLE player; `load()` makes the parts of an
IDLE player; `unload()` has destroyed all it finds). `TypeOK` alone is not inductive:
that `flush()` puts back a status depends on what it saved. There is one lemma per
operation and one step per conjunct. From it follow `Typing`, `NothingLeftBehind`,
`FlushingExplainedAlways`, and the action property `TeardownExcluded`.
What holds only at rest needs to be known at every place of every thread, and each
kind of fact is an invariant of its own, inductive once `Inv` holds. `ResourceInv`: what is
lent is remembered until it is given back, which is by the time the status says
UNLOADED; no policy action comes before `load()` or releases a loaded player, and a
loaded player holds what `load()` got; `ReleasedOnceUnloadedAlways` and
`HeldWhileLoadedAlways` follow. `TellsInv`: as long as no command failed, each place of
`play()`, `pause()`, `stepFrame()` and `flush()` says what the components do, also behind the
status that `flush()` saved, and with those on their way: a late component is paused
(`LateFits`), a playing player's executes or is late (`Starting`), a paused one's is paused
with none late unless `pause()` overtook one (`PauseTold`, and then each is at least
paused or executing, `Commanded`). `CarryOut` and the commands that wait keep this;
`StatusTellsPartsAlways` follows. `NullInv`: without an `unload()` by the
policy only the application's thread takes parts away, the clock is the last to go,
and whoever uses a part has it; `NullUseNeedsPolicyAlways` follows, for contents with
both streams (`BothKinds`). That assumption is needed: content of one stream makes
`play()` use a part that was never made, which is a finding and a run of its own
(`SingleStreamPlays`).

**FeedPathProofs**, for any number of frames, parts, buffers and flushes (from
`FeedAssumption`: a frame has parts and the codec has buffers). None of the
properties is inductive. `Inv` says what the queue is (`QueueOrdered`: strictly
ordered, of pushed frames only), where the handler's frame is in it (`HandlerFirst`:
before all others; `FrontInHand`: its front, unless a flush cleared under the
handler), what the codec has (`PutInOrder`, `PutBounded`), how frames and messages
match at every place of every thread (`Counted`), what a flush leaves (`AfterFlush`)
and what becomes of the room the handler counted (`RoomKept`: unless the codec rejects a
buffer or a configuration takes one, as many of the frame's calls as there was room for
have succeeded). Each conjunct has a
lemma: the actions that change nothing it reads are one step, every other action
is a step of its own. All safety and action properties of the run follow:
`Typing`, `FrameAlive`, `PopsItsFrame`, `MessageForEachFrame`, `Whole`. `Implements` is the
refinement: the initial states map to those of `FrameStream`; pushing is `Feed`, writing
a part is `Deliver` (by `HandlerFirst`, `PutInOrder` and `AfterFlush`: the handler's frame
is not cut and nothing after it was written), clearing is `Cut`, everything else a stutter.

**MessageLooperProofs**, for any posters and any number of messages. `Inv` says what the
handler's message is (`Handling`), that it stays in front while no client has changed
the front (`FrontKept`), that a renderer's frames are sorted behind it (`FramesSorted`)
and that those handled are gone (`FramesOnce`). The place at which `post()` inserts is
a least index; that there is one is from the well-founded order of the numbers.
`Typing`, `PopsItsMessage` (`InFlightStaysFront`), `Once`, `InOrder` and `LostByRace`. Two
more are the safety behind the run's liveness: by `NoWakeupLost` a thread sleeps only on
an empty list or in a stopped looper, and by `QuitStaysNext` nothing gets ahead of a quit
message in front while no handler runs; what is left to TLC is that enabled steps are taken.

**AvSyncProofs**, for any thresholds, gaps and bounds. That player and client agree is
not inductive: between the write of `sync_state_` and the post they disagree, and
another thread may be deciding by an older value. `Inv` adds `OneAtATime`,
`FlushNoted`, `Beginning` (before a video frame was judged nobody asks for a hold), `Remembered`
and `Released` (what the last event and the events not yet posted leave the client
doing, against `sync_state_`), `AudioEndsHolds` (without `play()` and a port change only
the audio thread ends a hold) and `HoldHasHigh` (a hold has its event or will have).
`Typing`, `ClientRemembered`, `HoldObeyed`, `LowToldOnce`.

**OmxClientProofs**, of `OmxCommands`: for any callers, ports and states. `FlushAccounted` needs that
commands are well formed (`WellFormed`), that every owed port is in
`flushing_` (`Accounted`), that a flush not yet sent is all there is in it (`FlushNoted`), and that no port is owed twice (`OwedOnce`).
`CurrentIsReal` needs `WillBe`, the state the component comes to when it has done all it
was sent, and `OneSetsState`. `TimeoutExplained` needs `WaitInv`: one thread flushes at a
time, and a thread inside a wait whose condition already holds has missed the signal or
the event that will signal it has not been handled. `Typing`, `FlushAnswers`, `CurrentTold`,
`TimeoutsExplained`.

**EndOfStreamProofs**, for any number of flushes. `Inv` follows the end of a stream
through the places of callbacks and calls: callbacks are about raised ends
(`RaisedIsReal`), the flag of the audio is about the content being played
(`FlagIsOfContent`) and has its end on record (`EndOnRecord`), a server that has the
player as STOPPED has a reason that a flush does not cut away (`StopHasReason`), and a
content that ended whole was reported or a callback is about to (`EndIsReported`). `Typing`, `VideoWaits`, `ServerKnows`.

**PtsWrapProofs**, from `PtsWrapAssumption`, for every range, threshold, disorder and
number of frames it allows. `Typing`: `drops` stays within the threshold and times
within the range. `WholeBases`: each base is a multiple of 2^33-1 whatever the threads do
to each other. That the multiple is the right one is `ExactTimesAlways`, and that times
go on evenly `NoJumpAlways`. The argument: a content spans less than half the range, so
it meets at most one wrap (`EdgeExists`), and two of its times are far apart as stamps
exactly if the wrap lies between them (`Sides`). With the wrap at a fixed place,
`TimesInv` says of each stream, at each place of its thread, where its last time lies
(`Counted`): once it is past a wrap that the stream counted, no frame to come is from
before it, because a row of drops longer than the disorder began at the wrap; what the
base therefore is (`Fits`), what a first frame is about to raise (`BumpFits`), and that
the last time returned is what its frame would get now (`Steady`). Each holds only
without the disturbances that the properties name, and `TimesInv` says which each needs.
It was checked by TLC on the run's instance before it was proved.

**PipelineProofs**, for any number of faults, changes of the settings and calls (from
`PipelineAssumption`: they are numbers), and so for runs of calls as long as one likes.
What the four properties say when nothing is under way is true because of what was
done before and of what was still on its way, so the invariant speaks of both:
`DoneBy(t)` and `Done` are the steps a thread and `load()` have behind them, and `Only`,
`Calm`, `HasOn`, `Followed` are about the commands a component has not carried out.
`PausesInv`, for `Typing` and `PausedStays`, has `Types`, `Places` and `Order` (where the
threads are in their scripts, and which call belongs to which status), `NotYet` (no component
executes the video before `play()` or pauses before `pause()`) and `Pauses`: the changes of state on
their way to a component are first those into pause, then those out of it, or the other way
round, so that what `pause()` has seen in pause stays there whatever was given up before.
`PipelineInv`, for `LoadConnects` and `PictureKeepsFlowing`, adds two chains. Of states:
`Known` (the codec that `load()` has set up was made, hence is one it knows), `OneCommand` (a component has one change of state
on its way, the one the application waits for, until a wait was given up), `Reached` (what
`load()` has set is where the component is) and `Runs` (without a fault what `play()` has
started executes, and the video renderer from the first settings on). Of ports:
`Fresh` and `Untouched` (a component is told nothing before it is made; a port that
no step has named is disabled by the time its component leaves Loaded, which it does
not before its enabled ports have their tunnels - so `setupTunnel()` in `load()` never
races), `Tunnelled` (the tunnel of a step that connected is there, and each of its ports
is enabled or will be, unless the callback is about to set the tunnel up again) and
`Agreed`. Each has a lemma that every step keeps it, from those it depends on. The scripts
enter by what is at which place (`LoadAt`, `LoadOrder`), the steps by what they leave of a
thread (`Ahead`, `Over`, `Leaves`, `Tells`) and of the commands on their way (`Quiet`,
`News`). TLC checked the invariant on an instance of 455,890 states (1 fault, 1 change,
3 calls) before it was proved. Two more facts about what goes wrong follow from it.
`LoadNeverRaces`: a `setupTunnel()` that finds a port enabled on a component out of Loaded
is one of the port-change callback (`OnlyPlayRaces`), although `load()` sends its commands
without waiting for most of them. `CrashesExplained`: the modelled steps crash only where OMX gave no
handle, no buffer or no port numbers (`CrashExplained`), never because of the order of the
steps, of a command that failed or of one that was late; it needs `HandlesKnown` and
`MadeHasHandle`, that a component which an earlier step of `load()` made has its ports.

Only model-checked: `StartedLooperDrains`, `CleanQuitJoins`, `FreeEnds`,
`MutexComesBack`, `QueuedGetsOut`, `CallReturns`, `FlushUsableAgain` and `EndIsTold`:
liveness, which the prover cannot do. All other properties of the passing runs, the
safety and the action properties, are theorems. Proved and in no run: the type invariants
(but that of `Pipeline`), `InFlightStaysFront`, `Parked`, `UnloadedIsEmpty`,
`BasesAreWhole`, `OnlyPlayRaces`, `CrashExplained`.

## 6. Plan

Done: the looper, on which everything runs; the buffers; the lifecycle; the pacing;
the commands; the feed path and its abstraction; the end of the stream; the time
stamps; the pipeline. What would come next:

1. What is left of `NullUseNeedsPolicy` for content of one stream: which calls are safe
   until `play()`.
2. A second application thread in `Esplayer`, and the player's destructor.

## 7. Not modelled

* `setPlaybackRate`, `setTrickMode`, the display window calls and volume: one call each to a
  component, or to the media server, with no state of their own.
* The frame parser: compiled into the library, but only the test client calls it.
* The parameters of component-rpi.cpp and rpiclock.cpp (formats, regions, rates, media
  time): OMX structures handed through; what is known or refused is in `Pipeline`.
* `OmxCore`, the software decoder, the C API, debug output: a singleton around an
  initialisation, a wrapper of ffmpeg, casts, log lines.
* A second application thread, and the destructor of the player.
* The contents of frames, JSON replies and structures: data no property tells apart.
