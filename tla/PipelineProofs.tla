--------------------------- MODULE PipelineProofs ---------------------------
(***************************************************************************)
(* The four properties of Pipeline, for every number of faults, of changes *)
(* of the settings and of calls.                                           *)
(*                                                                         *)
(* A load() that succeeded has waited for little of what it asked for, and *)
(* play() and pause() give up their waits: what is true when nothing is    *)
(* under way follows from what every thread has done so far (Done, DoneBy) *)
(* together with what is still on its way to each component. The invariant *)
(* is a conjunction of parts, each proved to be kept by every step from    *)
(* the parts it depends on:                                                *)
(*   Types, Places, Order  where the threads are in their scripts          *)
(*   NotYet                no component runs before play() or pauses       *)
(*                         before pause()                                  *)
(*   Pauses                the changes of state on the way into pause and  *)
(*                         on the way out of it                            *)
(*   Known, OneCommand, Reached, Runs    the states the scripts lead to    *)
(*   Fresh, Untouched, Tunnelled, Agreed the ports and the tunnels         *)
(* The scripts are sequences put together with \o: LoadAt(k, x) and its    *)
(* likes say what the k-th step of one is, and the lemmas about their      *)
(* order (LoadOrder, SetsAt, ConnectsAt) are all that is used of them.     *)
(***************************************************************************)
EXTENDS Pipeline, SequenceTheorems, TLAPS

(***************************************************************************)
(* What the threads are about.                                             *)
(***************************************************************************)

(* play() was called on a loaded player.                                   *)
Playing == call["app"] = "play" \/ status \in {"PLAYING", "PAUSED"}

(* load() failed; the player stays where it is.                            *)
Broken == status = "IDLE" /\ call["app"] = "none"

(* The steps that thread t has behind it, and those of load().             *)
DoneBy(t) == {Script(t)[i] : i \in 1 .. step[t] - 1}
Done ==
    CASE status # "IDLE" -> ToSet(LoadScript(content))
      [] status = "IDLE" /\ call["app"] = "load" -> DoneBy("app")
      [] OTHER -> {}

(* The application waits for component c to change its state.              *)
AppSets(c) == waiting["app"] /\ Step("app").on = c
-----------------------------------------------------------------------------
(* Control: where the threads are, and what is on its way to a component.  *)
AnyCommand == [kind : {"on", "off", "state"}, arg : Ports \cup {"idle", "executing", "pause"}]
PortCommands(c) == {Command(k, p) : k \in {"on", "off"}, p \in ToSet(PortsOf[c])}
CommandsOf(c) == PortCommands(c) \cup {Command("state", s) : s \in {"idle", "executing", "pause"}}

(* Each thread is at a step of its script or behind the last one, and      *)
(* waits only at one that sets a state.                                    *)
Places ==
    /\ call["callback"] \in {"none", "change"} /\ call["app"] # "change"
    /\ step \in [Threads -> Nat \ {0}] /\ \A t \in Threads : step[t] <= Len(Script(t)) + 1
    /\ waiting \in [Threads -> BOOLEAN]
    /\ \A t \in Threads : waiting[t] => step[t] <= Len(Script(t)) /\ Step(t).op = "set"

(* The types, those of what is on its way included.                        *)
Types ==
    /\ TypeOK
    /\ content # {} /\ codecKnown \in BOOLEAN /\ first \in BOOLEAN
    /\ agreed \in Nat
    /\ sent \in [Parts -> Seq(AnyCommand)]
    /\ \A c \in Parts : \A i \in 1 .. Len(sent[c]) : sent[c][i] \in CommandsOf(c)

(* Which call leaves which status, and that the codec puts out nothing     *)
(* before play().                                                          *)
Order ==
    /\ call["app"] = "load" => status = "IDLE"
    /\ call["app"] = "play" => status = "LOADED"
    /\ call["app"] = "resume" => status = "PAUSED"
    /\ call["app"] = "pause" => status = "PLAYING"
    /\ Playing => content = Streams
    /\ call["callback"] = "change" \/ settings > 0 \/ ~first => Playing

(* The components a call uses are there.                                   *)
Known ==
    /\ "vcodec" \in handles => codecKnown
    /\ Make("clock") \in Done => "clock" \in handles
    /\ Param("vcodec", "end") \in Done => "vcodec" \in handles
-----------------------------------------------------------------------------
(* What is on its way to a component, as far as states are concerned.      *)
Calm(q) == \A i \in 1 .. Len(q) : q[i].kind # "state"
Only(q, S) == \A i \in 1 .. Len(q) : q[i].kind = "state" => q[i].arg \in S
AtMostOne(q) == \A i, j \in 1 .. Len(q) : q[i].kind = "state" /\ q[j].kind = "state" => i = j
PausesLast(q) == \A i, j \in 1 .. Len(q) :
    i < j /\ q[i].kind = "state" /\ q[j].kind = "state" /\ q[i].arg = "pause" => q[j].arg = "pause"
PausesFirst(q) == \A i, j \in 1 .. Len(q) :
    i < j /\ q[i].kind = "state" /\ q[j].kind = "state" /\ q[j].arg = "pause" => q[i].arg = "pause"

(* Before play() the video is at most idle, before pause() nothing pauses. *)
NotYet ==
    /\ ~Playing => \A c \in {"vcodec", "sched", "vrend"} :
         state[c] \in {"loaded", "idle"} /\ Only(sent[c], {"idle"})
    /\ status \notin {"PLAYING", "PAUSED"} =>
         \A c \in Parts : state[c] # "pause" /\ Only(sent[c], {"idle", "executing"})

(* Until a wait is given up, the only change of state on its way to a      *)
(* component is the one that the application waits for.                    *)
InHand(c) ==
    /\ AppSets(c) /\ state[c] # Step("app").to
    /\ AtMostOne(sent[c]) /\ Only(sent[c], {Step("app").to})
GivenUp(c) ==
    \/ "late" \in past /\ status \in {"PLAYING", "PAUSED"}
    \/ "late" \in past /\ Playing /\ c \in {"vcodec", "sched"}
    \/ "late" \in past /\ c = "vrend"
    \/ Playing /\ c = "vrend"
OneCommand == \A c \in Parts : Broken \/ Calm(sent[c]) \/ InHand(c) \/ GivenUp(c)

(* A step of load() that has set a state has left the component in it.     *)
Reached ==
    /\ ~Playing => \A c \in {"vcodec", "sched"} :
         SetState(c, "idle", "end") \in Done => state[c] = "idle"
    /\ ~Playing /\ SetState("vrend", "idle", "log") \in Done =>
         state["vrend"] = "idle" \/ past \cap {"late", "unsent"} # {}
    /\ status \notin {"PLAYING", "PAUSED"} => \A c \in {"acodec", "arend", "clock"} :
         SetState(c, "executing", "end") \in Done => state[c] = "executing"

(* On the way into pause, and on the way out of it.                        *)
ToPause(c) == PausesLast(sent[c]) /\ (state[c] = "pause" => Only(sent[c], {"pause"}))
FromPause(c) == state[c] = "pause" /\ PausesFirst(sent[c])
Paused(c) ==
    \/ call["app"] = "pause" /\ SetState(c, "pause", "end") \in DoneBy("app")
    \/ call["app"] = "none" /\ status = "PAUSED"
    \/ call["app"] = "resume" /\ SetState(c, "executing", "end") \notin DoneBy("app") /\ ~AppSets(c)
Pauses ==
    "staleSkip" \notin past => \A c \in Parts \ {"vrend"} :
        /\ ToPause(c) \/ FromPause(c)
        /\ call["app"] = "pause" /\ AppSets(c) => ToPause(c)
        /\ Paused(c) => state[c] = "pause" /\ Only(sent[c], {"pause"})

(* While nothing fails, play() leaves everything executing.                *)
Clean == past \cap {"late", "unsent", "refused", "param"} = {}
Started(c) ==
    \/ call["app"] \in {"play", "resume"} /\ \E f \in {"end", "log"} : SetState(c, "executing", f) \in DoneBy("app")
    \/ call["app"] = "play" /\ c \in {"acodec", "arend", "clock"}
    \/ call["app"] = "none" /\ status = "PLAYING"
Runs ==
    Clean /\ Playing =>
      /\ \A c \in Parts \ {"vrend"} : Started(c) => state[c] = "executing"
      /\ state["vrend"] \in {"idle", "executing"} /\ Only(sent["vrend"], {"executing"})
      /\ ~first \/ SetState("vrend", "executing", "log") \in DoneBy("callback") => state["vrend"] = "executing"
      /\ settings > 0 /\ call["callback"] = "none" => ~first
-----------------------------------------------------------------------------
(* A component that was told nothing yet is loaded.                        *)
Told(c) == \E x \in Done : x.op = "set" /\ x.on = c
Fresh ==
    \A c \in Parts : call["app"] = "load" /\ ~AppSets(c) /\ ~Told(c) =>
        state[c] = "loaded" /\ Calm(sent[c])

(* Commands for a port: none enables it, one does, each that disables it   *)
(* is followed by one that does.                                           *)
NoOn(q, p) == \A i \in 1 .. Len(q) : q[i] # Command("on", p)
HasOn(q, p) == \E i \in 1 .. Len(q) : q[i] = Command("on", p)
Followed(q, p) ==
    \A i \in 1 .. Len(q) : q[i] = Command("off", p) => \E j \in i + 1 .. Len(q) : q[j] = Command("on", p)

(* A port is enabled by the steps that name it, or was from the beginning. *)
Touches(x, p) == (x.op = "connect" /\ p \in {x.on, x.to}) \/ (x.op = "port" /\ x.on = p)
Touched(p) == \E x \in Done : Touches(x, p)
Untouched ==
    ~Broken =>
      /\ \A j \in tunnels : \A p \in ToSet(j) : Touched(p)
      /\ \A c \in Parts : \A p \in ToSet(PortsOf[c]) : ~Touched(p) =>
           /\ NoOn(sent[c], p)
           /\ state[c] # "loaded" => p \notin on

(* The port is enabled once all is done that is on its way.                *)
GoesOn(p) == (p \in on \/ HasOn(sent[Owner(p)], p)) /\ Followed(sent[Owner(p)], p)

(* The callback has disabled it and has not set its tunnel up again.       *)
Reconnects(p) ==
    /\ Playing /\ p \in ToSet(VideoJoin)
    /\ \/ past \cap {"param", "unsent"} # {}
       \/ /\ call["callback"] = "change" /\ Disable(p) \in DoneBy("callback")
          /\ Connect("vcodec.out", "sched.in", "log") \notin DoneBy("callback")

(* The audio tunnel failed: its renderer will not leave Loaded.            *)
Skipped(x) ==
    /\ call["app"] = "load" /\ x.on = "acodec.out" /\ SetState("arend", "idle", "end") \in Done
    /\ state["arend"] = "loaded" /\ Only(sent["arend"], {"executing"})
PortKept(p) == GoesOn(p) \/ "refused" \in past \/ Reconnects(p)
Paired(x) == <<x.on, x.to>> \in tunnels \/ "tunnel" \in past
Through(x) == Paired(x) /\ \A p \in {x.on, x.to} : PortKept(p)
Tunnelled == \A x \in Done : x.op = "connect" => Skipped(x) \/ Through(x)

(* The tunnel is set up for the settings the codec has.                    *)
Agreed ==
    /\ past \cap {"param", "unsent", "tunnel", "raced"} = {}
    /\ call["callback"] = "none" \/ Connect("vcodec.out", "sched.in", "log") \in DoneBy("callback")
    => agreed = settings
-----------------------------------------------------------------------------
IsCat(s, q, r) ==
    /\ Len(s) = Len(q) + Len(r)
    /\ \A k \in 1 .. Len(q) : s[k] = q[k]
    /\ \A k \in 1 .. Len(r) : s[Len(q) + k] = r[k]
    /\ \A k \in 1 .. Len(s) :
         \/ k \in 1 .. Len(q) /\ s[k] = q[k]
         \/ k - Len(q) \in 1 .. Len(r) /\ s[k] = r[k - Len(q)]

(* The elements of a concatenation, and where each of them comes from.     *)
LEMMA CatAt ==
    ASSUME NEW S, NEW q \in Seq(S), NEW r \in Seq(S)
    PROVE  q \o r \in Seq(S) /\ IsCat(q \o r, q, r)
BY DEF IsCat

Names == Parts \cup Ports \cup {"none", "idle", "executing", "pause", "on", "off"}
AnyStep == [op : {"make", "param", "set", "port", "allocate", "wait", "connect", "startTime"},
            on : Names, to : Names, fails : {"end", "log", "skip"}]

(* The names of components and ports, one by one.                          *)
LEMMA Names1 == {"clock", "vcodec", "sched", "vrend", "acodec", "arend",
  "clock.audio", "clock.video", "vcodec.in", "vcodec.out", "sched.in", "sched.out", "sched.clock", "vrend.in",
  "acodec.in", "acodec.out", "arend.in", "arend.clock", "none", "idle", "executing", "pause", "on", "off"} = Names
BY DEF Names, Parts, Ports, PortsOf, ToSet

VideoPart == VideoComponents \o VideoScript
AudioPart == AudioComponents \o AudioScript

(* The scripts that load() puts together, and their lengths.               *)
LEMMA Pieces ==
    /\ ClockScript \in Seq(AnyStep) /\ Len(ClockScript) = 2
    /\ VideoComponents \in Seq(AnyStep) /\ Len(VideoComponents) = 3
    /\ VideoScript \in Seq(AnyStep) /\ Len(VideoScript) = 10
    /\ AudioComponents \in Seq(AnyStep) /\ Len(AudioComponents) = 2
    /\ AudioScript \in Seq(AnyStep) /\ Len(AudioScript) = 15
    /\ <<StartTime>> \in Seq(AnyStep) /\ Len(<<StartTime>>) = 1
<1>1. ClockScript \in Seq(AnyStep) /\ Len(ClockScript) = 2
  BY Names1 DEF ClockScript, Make, SetState, AnyStep
<1>2. VideoComponents \in Seq(AnyStep) /\ Len(VideoComponents) = 3
  BY Names1 DEF VideoComponents, Make, AnyStep
<1>3. VideoScript \in Seq(AnyStep) /\ Len(VideoScript) = 10
  BY Names1 DEF VideoScript, Param, SetState, Enable, Allocate, WaitPort, Connect, AnyStep
<1>4. AudioComponents \in Seq(AnyStep) /\ Len(AudioComponents) = 2
  BY Names1 DEF AudioComponents, Make, AnyStep
<1>5. AudioScript \in Seq(AnyStep) /\ Len(AudioScript) = 15
  BY Names1 DEF AudioScript, Param, SetState, Enable, Allocate, WaitPort, Connect, AnyStep
<1>6. <<StartTime>> \in Seq(AnyStep) /\ Len(<<StartTime>>) = 1
  BY Names1 DEF StartTime, AnyStep
<1>7. QED
  BY <1>1, <1>2, <1>3, <1>4, <1>5, <1>6

(* The steps that load() takes for the video.                              *)
LEMMA VideoPartIs ==
    /\ VideoPart \in Seq(AnyStep) /\ Len(VideoPart) = 13
    /\ \A k \in 1 .. 13 : VideoPart[k] = IF k <= 3 THEN VideoComponents[k] ELSE VideoScript[k - 3]
<1> DEFINE q == VideoComponents  r == VideoScript  s == VideoPart
<1>1. q \in Seq(AnyStep) /\ r \in Seq(AnyStep) /\ Len(q) = 3 /\ Len(r) = 10
  BY Pieces
<1>2. s \in Seq(AnyStep) /\ IsCat(s, q, r)
  <2>1. q \in Seq(AnyStep)
    BY <1>1
  <2>2. r \in Seq(AnyStep)
    BY <1>1
  <2> HIDE DEF q, r
  <2>3. q \o r \in Seq(AnyStep) /\ IsCat(q \o r, q, r)
    BY CatAt, <2>1, <2>2, Zenon
  <2> QED BY <2>3 DEF VideoPart, q, r
<1> HIDE DEF q, r, s
<1>6. s \in Seq(AnyStep) /\ Len(s) = 13 /\ \A k \in 1 .. 13 : s[k] = IF k <= 3 THEN q[k] ELSE r[k - 3]
  BY <1>1, <1>2 DEF IsCat
<1>7. QED
  BY <1>6 DEF q, r, s

(* The steps that load() takes for the audio.                              *)
LEMMA AudioPartIs ==
    /\ AudioPart \in Seq(AnyStep) /\ Len(AudioPart) = 17
    /\ \A k \in 1 .. 17 : AudioPart[k] = IF k <= 2 THEN AudioComponents[k] ELSE AudioScript[k - 2]
<1> DEFINE q == AudioComponents  r == AudioScript  s == AudioPart
<1>1. q \in Seq(AnyStep) /\ r \in Seq(AnyStep) /\ Len(q) = 2 /\ Len(r) = 15
  BY Pieces
<1>2. s \in Seq(AnyStep) /\ IsCat(s, q, r)
  <2>1. q \in Seq(AnyStep)
    BY <1>1
  <2>2. r \in Seq(AnyStep)
    BY <1>1
  <2> HIDE DEF q, r
  <2>3. q \o r \in Seq(AnyStep) /\ IsCat(q \o r, q, r)
    BY CatAt, <2>1, <2>2, Zenon
  <2> QED BY <2>3 DEF AudioPart, q, r
<1> HIDE DEF q, r, s
<1>6. s \in Seq(AnyStep) /\ Len(s) = 17 /\ \A k \in 1 .. 17 : s[k] = IF k <= 2 THEN q[k] ELSE r[k - 2]
  BY <1>1, <1>2 DEF IsCat
<1>7. QED
  BY <1>6 DEF q, r, s

VideoAt(i, x) ==
    \/ i = 1 /\ x = Make("vcodec")
    \/ i = 2 /\ x = Make("vrend")
    \/ i = 3 /\ x = Make("sched")
    \/ i = 4 /\ x = Param("vcodec", "end")
    \/ i = 5 /\ x = SetState("vcodec", "idle", "end")
    \/ i = 6 /\ x = Enable("vcodec.in")
    \/ i = 7 /\ x = Allocate("vcodec.in")
    \/ i = 8 /\ x = WaitPort("vcodec.in")
    \/ i = 9 /\ x = Connect("clock.video", "sched.clock", "end")
    \/ i = 10 /\ x = SetState("sched", "idle", "end")
    \/ i = 11 /\ x = Connect("vcodec.out", "sched.in", "end")
    \/ i = 12 /\ x = Connect("sched.out", "vrend.in", "end")
    \/ i = 13 /\ x = SetState("vrend", "idle", "log")

AudioAt(i, x) ==
    \/ i = 1 /\ x = Make("acodec")
    \/ i = 2 /\ x = Make("arend")
    \/ i = 3 /\ x = Param("acodec", "end")
    \/ i = 4 /\ x = SetState("acodec", "idle", "end")
    \/ i = 5 /\ x = Enable("acodec.in")
    \/ i = 6 /\ x = Allocate("acodec.in")
    \/ i = 7 /\ x = WaitPort("acodec.in")
    \/ i = 8 /\ x = SetState("acodec", "executing", "end")
    \/ i = 9 /\ x = SetState("clock", "executing", "end")
    \/ i = 10 /\ x = Connect("clock.audio", "arend.clock", "end")
    \/ i = 11 /\ x = Param("acodec", "end")
    \/ i = 12 /\ x = Connect("acodec.out", "arend.in", "skip")
    \/ i = 13 /\ x = WaitPort("arend.in")
    \/ i = 14 /\ x = SetState("arend", "idle", "end")
    \/ i = 15 /\ x = WaitPort("acodec.out")
    \/ i = 16 /\ x = SetState("arend", "executing", "end")
    \/ i = 17 /\ x = Param("arend", "end")

(* VideoAt says which step each of them is.                                *)
LEMMA VideoAtIs ==
    ASSUME NEW i \in 1 .. 13
    PROVE  VideoAt(i, VideoPart[i])
<1>1. CASE i <= 3
  <2>1. VideoPart[i] = VideoComponents[i] /\ i \in 1 .. 3
    BY <1>1, VideoPartIs
  <2>2. VideoAt(i, VideoComponents[i])
    BY <2>1 DEF VideoAt, VideoComponents
  <2> QED BY <2>1, <2>2
<1>2. CASE i > 3
  <2>1. PICK j \in 1 .. 10 : j = i - 3 /\ VideoPart[i] = VideoScript[j]
    BY <1>2, VideoPartIs
  <2>2. VideoAt(i, VideoScript[j])
    BY <2>1 DEF VideoAt, VideoScript
  <2> QED BY <2>1, <2>2
<1>3. QED
  BY <1>1, <1>2

(* AudioAt says which step each of them is.                                *)
LEMMA AudioAtIs ==
    ASSUME NEW i \in 1 .. 17
    PROVE  AudioAt(i, AudioPart[i])
<1>1. CASE i <= 2
  <2>1. AudioPart[i] = AudioComponents[i] /\ i \in 1 .. 2
    BY <1>1, AudioPartIs
  <2>2. AudioAt(i, AudioComponents[i])
    BY <2>1 DEF AudioAt, AudioComponents
  <2> QED BY <2>1, <2>2
<1>2. CASE i > 2
  <2>1. PICK j \in 1 .. 15 : j = i - 2 /\ AudioPart[i] = AudioScript[j]
    BY <1>2, AudioPartIs
  <2>2. AudioAt(i, AudioScript[j])
    BY <2>1 DEF AudioAt, AudioScript
  <2> QED BY <2>1, <2>2
<1>3. QED
  BY <1>1, <1>2

VideoLen == IF "video" \in content THEN 13 ELSE 0
AudioLen == IF "audio" \in content THEN 17 ELSE 0
LoadLen == VideoLen + AudioLen + 3

LoadAt(k, x) ==
    \/ k = 1 /\ x = Make("clock")
    \/ k = 2 /\ x = SetState("clock", "idle", "end")
    \/ "video" \in content /\ VideoAt(k - 2, x)
    \/ "audio" \in content /\ AudioAt(k - 2 - VideoLen, x)
    \/ k = LoadLen /\ x = StartTime

(* LoadAt says of every number which step of load() it is.                 *)
LEMMA LoadIs ==
    /\ LoadScript(content) \in Seq(AnyStep) /\ Len(LoadScript(content)) = LoadLen
    /\ \A k \in 1 .. LoadLen : LoadAt(k, LoadScript(content)[k])
<1> DEFINE q == ClockScript
           v == IF "video" \in content THEN VideoPart ELSE <<>>
           a == IF "audio" \in content THEN AudioPart ELSE <<>>
           e == <<StartTime>>
           L == LoadScript(content)
<1>1. q \in Seq(AnyStep)
  BY Pieces
<1>2. v \in Seq(AnyStep)
  <2>1. <<>> \in Seq(AnyStep)
    OBVIOUS
  <2> QED BY VideoPartIs, <2>1
<1>3. a \in Seq(AnyStep)
  <2>1. <<>> \in Seq(AnyStep)
    OBVIOUS
  <2> QED BY AudioPartIs, <2>1
<1>4. e \in Seq(AnyStep)
  BY Pieces
<1>5. L = ((q \o v) \o a) \o e
  BY DEF LoadScript, VideoPart, AudioPart
<1>6. Len(q) = 2 /\ Len(e) = 1 /\ q[1] = Make("clock") /\ q[2] = SetState("clock", "idle", "end") /\ e[1] = StartTime
  BY Pieces DEF ClockScript
<1>7. Len(v) = VideoLen /\ Len(a) = AudioLen
  BY VideoPartIs, AudioPartIs DEF VideoLen, AudioLen
<1>8. \A i \in 1 .. VideoLen : "video" \in content /\ VideoAt(i, v[i])
  BY VideoAtIs DEF VideoLen
<1>9. \A i \in 1 .. AudioLen : "audio" \in content /\ AudioAt(i, a[i])
  BY AudioAtIs DEF AudioLen
<1>a. VideoLen \in Nat /\ AudioLen \in Nat
  BY DEF VideoLen, AudioLen
<1> HIDE DEF q, v, a, e, L
<1>10. q \o v \in Seq(AnyStep) /\ IsCat(q \o v, q, v)
  BY CatAt, <1>1, <1>2, Zenon
<1> DEFINE qv == q \o v
<1>11. qv \in Seq(AnyStep) /\ IsCat(qv, q, v)
  BY <1>10
<1>12. qv \in Seq(AnyStep)
  BY <1>11
<1> HIDE DEF qv
<1>13. qv \o a \in Seq(AnyStep) /\ IsCat(qv \o a, qv, a)
  BY CatAt, <1>12, <1>3, Zenon
<1> DEFINE qa == qv \o a
<1>14. qa \in Seq(AnyStep) /\ IsCat(qa, qv, a)
  BY <1>13
<1>15. qa \in Seq(AnyStep)
  BY <1>14
<1> HIDE DEF qa
<1>16. qa \o e \in Seq(AnyStep) /\ IsCat(qa \o e, qa, e)
  BY CatAt, <1>15, <1>4, Zenon
<1>17. L \in Seq(AnyStep) /\ IsCat(L, qa, e)
  BY <1>16, <1>5 DEF qa, qv
<1>18. Len(qv) = VideoLen + 2 /\ Len(qa) = VideoLen + AudioLen + 2 /\ Len(L) = LoadLen
  BY <1>6, <1>7, <1>a, <1>11, <1>14, <1>17 DEF IsCat, LoadLen
<1>19. ASSUME NEW k \in 1 .. LoadLen
       PROVE  LoadAt(k, L[k])
  <2>1. CASE k = LoadLen
    <3>1. k - Len(qa) = 1
      BY <2>1, <1>18, <1>a DEF LoadLen
    <3>2. L[k] = e[1]
      BY <3>1, <1>17, <1>6, <1>18, <1>a DEF IsCat
    <3> QED BY <2>1, <3>2, <1>6 DEF LoadAt
  <2>2. CASE k # LoadLen
    <3>1. k \in 1 .. Len(qa) /\ L[k] = qa[k]
      BY <2>2, <1>17, <1>18, <1>a, <1>6 DEF IsCat, LoadLen
    <3>2. CASE k \in 1 .. Len(qv) /\ qa[k] = qv[k]
      <4>1. CASE k \in 1 .. 2
        <5>1. qv[k] = q[k]
          BY <4>1, <1>11, <1>6 DEF IsCat
        <5> QED BY <4>1, <5>1, <3>1, <3>2, <1>6 DEF LoadAt
      <4>2. CASE k \notin 1 .. 2
        <5>1. k - 2 \in 1 .. VideoLen /\ qv[k] = v[k - 2]
          BY <4>2, <3>2, <1>11, <1>6, <1>7, <1>18, <1>a DEF IsCat
        <5>2. "video" \in content /\ VideoAt(k - 2, v[k - 2])
          BY <5>1, <1>8
        <5> QED BY <5>1, <5>2, <3>1, <3>2 DEF LoadAt
      <4> QED BY <4>1, <4>2
    <3>3. CASE k - Len(qv) \in 1 .. Len(a) /\ qa[k] = a[k - Len(qv)]
      <4>1. k - Len(qv) = k - 2 - VideoLen
        BY <1>18, <1>a
      <4>2. "audio" \in content /\ AudioAt(k - Len(qv), a[k - Len(qv)])
        BY <3>3, <1>7, <1>9
      <4> QED BY <4>1, <4>2, <3>1, <3>3 DEF LoadAt
    <3> QED BY <3>1, <3>2, <3>3, <1>14 DEF IsCat
  <2> QED BY <2>1, <2>2
<1>20. QED
  BY <1>17, <1>18, <1>19 DEF L

(* Conversely, what LoadAt says is in the script.                          *)
LEMMA LoadTotal ==
    ASSUME NEW k \in Nat, NEW x, LoadAt(k, x)
    PROVE  k \in 1 .. LoadLen /\ x = LoadScript(content)[k]
<1>1. k \in 1 .. LoadLen
  BY DEF LoadAt, LoadLen, VideoLen, AudioLen, VideoAt, AudioAt
<1> DEFINE y == LoadScript(content)[k]
<1>2. LoadAt(k, y)
  BY <1>1, LoadIs
<1> HIDE DEF y
<1>3. x = y
  BY <1>1, <1>2 DEF LoadAt, LoadLen, VideoLen, AudioLen, VideoAt, AudioAt
<1>4. QED
  BY <1>1, <1>3 DEF y

(* The steps of load() that set a state.                                   *)
LEMMA SetsAt ==
    ASSUME NEW k \in Nat, NEW x, LoadAt(k, x), x.op = "set"
    PROVE  \/ k = 2 /\ x = SetState("clock", "idle", "end")
           \/ /\ "video" \in content
              /\ \/ k = 7 /\ x = SetState("vcodec", "idle", "end")
                 \/ k = 12 /\ x = SetState("sched", "idle", "end")
                 \/ k = 15 /\ x = SetState("vrend", "idle", "log")
           \/ /\ "audio" \in content
              /\ \/ k = VideoLen + 6 /\ x = SetState("acodec", "idle", "end")
                 \/ k = VideoLen + 10 /\ x = SetState("acodec", "executing", "end")
                 \/ k = VideoLen + 11 /\ x = SetState("clock", "executing", "end")
                 \/ k = VideoLen + 16 /\ x = SetState("arend", "idle", "end")
                 \/ k = VideoLen + 18 /\ x = SetState("arend", "executing", "end")
<1>1. VideoLen \in Nat
  BY DEF VideoLen
<1>2. QED
  BY <1>1 DEF LoadAt, VideoAt, AudioAt, Make, Param, SetState, Enable, Allocate, WaitPort, Connect, StartTime

(* The steps of load() that set up a tunnel.                               *)
LEMMA ConnectsAt ==
    ASSUME NEW k \in Nat, NEW x, LoadAt(k, x), x.op = "connect"
    PROVE  \/ /\ "video" \in content
              /\ \/ k = 11 /\ x = Connect("clock.video", "sched.clock", "end")
                 \/ k = 13 /\ x = Connect("vcodec.out", "sched.in", "end")
                 \/ k = 14 /\ x = Connect("sched.out", "vrend.in", "end")
           \/ /\ "audio" \in content
              /\ \/ k = VideoLen + 12 /\ x = Connect("clock.audio", "arend.clock", "end")
                 \/ k = VideoLen + 14 /\ x = Connect("acodec.out", "arend.in", "skip")
<1>1. VideoLen \in Nat
  BY DEF VideoLen
<1>2. QED
  BY <1>1 DEF LoadAt, VideoAt, AudioAt, Make, Param, SetState, Enable, Allocate, WaitPort, Connect, StartTime

(* The steps of load() that enable a port.                                 *)
LEMMA PortsAt ==
    ASSUME NEW k \in Nat, NEW x, LoadAt(k, x), x.op = "port"
    PROVE  \/ "video" \in content /\ k = 8 /\ x = Enable("vcodec.in")
           \/ "audio" \in content /\ k = VideoLen + 7 /\ x = Enable("acodec.in")
<1>1. VideoLen \in Nat
  BY DEF VideoLen
<1>2. QED
  BY <1>1 DEF LoadAt, VideoAt, AudioAt, Make, Param, SetState, Enable, Allocate, WaitPort, Connect, StartTime

(* The steps of load() that make a component.                              *)
LEMMA MakesAt ==
    ASSUME NEW k \in Nat, NEW x, LoadAt(k, x), x.op = "make"
    PROVE  \/ k = 1 /\ x = Make("clock")
           \/ /\ "video" \in content
              /\ \/ k = 3 /\ x = Make("vcodec")
                 \/ k = 4 /\ x = Make("vrend")
                 \/ k = 5 /\ x = Make("sched")
           \/ /\ "audio" \in content
              /\ \/ k = VideoLen + 3 /\ x = Make("acodec")
                 \/ k = VideoLen + 4 /\ x = Make("arend")
<1>1. VideoLen \in Nat
  BY DEF VideoLen
<1>2. QED
  BY <1>1 DEF LoadAt, VideoAt, AudioAt, Make, Param, SetState, Enable, Allocate, WaitPort, Connect, StartTime

(* The ports of each component.                                            *)
LEMMA PortSets ==
    /\ ToSet(PortsOf["clock"]) = {"clock.audio", "clock.video"}
    /\ ToSet(PortsOf["vcodec"]) = {"vcodec.in", "vcodec.out"}
    /\ ToSet(PortsOf["sched"]) = {"sched.in", "sched.out", "sched.clock"}
    /\ ToSet(PortsOf["vrend"]) = {"vrend.in"}
    /\ ToSet(PortsOf["acodec"]) = {"acodec.in", "acodec.out"}
    /\ ToSet(PortsOf["arend"]) = {"arend.in", "arend.clock"}
    /\ Parts = {"clock", "vcodec", "sched", "vrend", "acodec", "arend"}
BY DEF PortsOf, ToSet, Parts

(* What comes before what in load(): no state is set, no tunnel set up and *)
(* no component made twice; idle comes before executing; a component is    *)
(* made before anything is done with it or its ports; a tunnel is the      *)
(* first that happens to its ports; and the audio renderer is told nothing *)
(* before its tunnel.                                                      *)
LEMMA LoadOrder ==
    ASSUME NEW i \in Nat, NEW k \in Nat, NEW x, NEW y, LoadAt(i, x), LoadAt(k, y), i < k
    PROVE  /\ y.op \in {"set", "connect", "make"} => x # y
           /\ y.op = "set" /\ x.op = "set" /\ x.on = y.on => x.to = "idle" /\ y.to = "executing"
           /\ y.op = "make" => ~(x.op = "set" /\ x.on = y.on)
           /\ y.op = "make" => \A p \in ToSet(PortsOf[y.on]) : ~Touches(x, p)
           /\ y.op = "connect" => \A p \in {y.on, y.to} : ~Touches(x, p)
           /\ y.op = "connect" /\ y.on = "acodec.out" => ~(x.op = "set" /\ x.on = "arend")
<1>1. VideoLen \in {0, 13} /\ ("video" \in content => VideoLen = 13)
  BY DEF VideoLen
<1>2. y.op = "set" => x # y
  BY <1>1, SetsAt DEF SetState
<1>3. y.op = "connect" => x # y
  BY <1>1, ConnectsAt DEF Connect
<1>4. y.op = "make" => x # y
  BY <1>1, MakesAt DEF Make
<1>5. y.op = "set" /\ x.op = "set" /\ x.on = y.on => x.to = "idle" /\ y.to = "executing"
  BY <1>1, SetsAt DEF SetState
<1>6. y.op = "make" => ~(x.op = "set" /\ x.on = y.on)
  BY <1>1, SetsAt, MakesAt DEF SetState, Make
<1>7. ASSUME y.op = "make", NEW p \in ToSet(PortsOf[y.on]) PROVE ~Touches(x, p)
  <2>1. x.op = "connect" => p \notin {x.on, x.to}
    BY <1>1, <1>7, ConnectsAt, MakesAt, PortSets DEF Connect, Make
  <2>2. x.op = "port" => p # x.on
    BY <1>1, <1>7, PortsAt, MakesAt, PortSets DEF Enable, Make
  <2>3. QED
    BY <2>1, <2>2 DEF Touches
<1>8. ASSUME y.op = "connect", NEW p \in {y.on, y.to} PROVE ~Touches(x, p)
  <2>1. x.op = "connect" => p \notin {x.on, x.to}
    BY <1>1, <1>8, ConnectsAt DEF Connect
  <2>2. x.op = "port" => p # x.on
    BY <1>1, <1>8, PortsAt, ConnectsAt DEF Enable, Connect
  <2>3. QED
    BY <2>1, <2>2 DEF Touches
<1>9. y.op = "connect" /\ y.on = "acodec.out" => ~(x.op = "set" /\ x.on = "arend")
  BY <1>1, SetsAt, ConnectsAt DEF SetState, Connect
<1>10. QED
  BY <1>2, <1>3, <1>4, <1>5, <1>6, <1>7, <1>8, <1>9

(* What a failure of the audio tunnel skips.                               *)
LEMMA LoadSkips ==
    ASSUME NEW k \in Nat, NEW x, LoadAt(k, x), x.fails = "skip"
    PROVE  /\ x = Connect("acodec.out", "arend.in", "skip") /\ k + 4 \in 1 .. LoadLen
           /\ LoadAt(k + 1, WaitPort("arend.in")) /\ LoadAt(k + 2, SetState("arend", "idle", "end"))
           /\ LoadAt(k + 3, WaitPort("acodec.out"))
<1>1. VideoLen \in {0, 13}
  BY DEF VideoLen
<1>2. "audio" \in content /\ k = VideoLen + 14 /\ x = Connect("acodec.out", "arend.in", "skip")
  BY <1>1 DEF LoadAt, VideoAt, AudioAt, Make, Param, SetState, Enable, Allocate, WaitPort, Connect, StartTime
<1>3. QED
  BY <1>1, <1>2 DEF LoadAt, AudioAt, LoadLen, AudioLen

(* The steps that the properties rest on are in load().                    *)
LEMMA LoadContains ==
    ASSUME NEW x
    PROVE  /\ x \in {Make("clock"), SetState("clock", "idle", "end")} => \E k \in Nat : LoadAt(k, x)
           /\ "video" \in content /\ x \in {Param("vcodec", "end"), SetState("vcodec", "idle", "end"),
                  SetState("sched", "idle", "end"), SetState("vrend", "idle", "log"),
                  Connect("clock.video", "sched.clock", "end"), Connect("vcodec.out", "sched.in", "end"),
                  Connect("sched.out", "vrend.in", "end")} => \E k \in Nat : LoadAt(k, x)
           /\ "audio" \in content /\ x \in {SetState("acodec", "executing", "end"),
                  SetState("clock", "executing", "end"), SetState("arend", "executing", "end"),
                  Connect("clock.audio", "arend.clock", "end"), Connect("acodec.out", "arend.in", "skip")}
              => \E k \in Nat : LoadAt(k, x)
<1>1. VideoLen \in Nat
  BY DEF VideoLen
<1>2. /\ LoadAt(1, Make("clock")) /\ LoadAt(2, SetState("clock", "idle", "end"))
  BY DEF LoadAt
<1>3. "video" \in content => /\ LoadAt(6, Param("vcodec", "end")) /\ LoadAt(7, SetState("vcodec", "idle", "end"))
    /\ LoadAt(12, SetState("sched", "idle", "end")) /\ LoadAt(15, SetState("vrend", "idle", "log"))
    /\ LoadAt(11, Connect("clock.video", "sched.clock", "end")) /\ LoadAt(13, Connect("vcodec.out", "sched.in", "end"))
    /\ LoadAt(14, Connect("sched.out", "vrend.in", "end"))
  BY DEF LoadAt, VideoAt
<1>4. "audio" \in content => /\ LoadAt(VideoLen + 10, SetState("acodec", "executing", "end"))
    /\ LoadAt(VideoLen + 11, SetState("clock", "executing", "end")) /\ LoadAt(VideoLen + 18, SetState("arend", "executing", "end"))
    /\ LoadAt(VideoLen + 12, Connect("clock.audio", "arend.clock", "end"))
    /\ LoadAt(VideoLen + 14, Connect("acodec.out", "arend.in", "skip"))
  BY <1>1 DEF LoadAt, AudioAt
<1>5. QED
  BY <1>1, <1>2, <1>3, <1>4

(* Every port belongs to the one component that has it.                    *)
LEMMA Owners ==
    /\ \A c \in Parts : \A p \in ToSet(PortsOf[c]) : Owner(p) = c
    /\ \A p \in Ports : Owner(p) \in Parts /\ p \in ToSet(PortsOf[Owner(p)])
<1>1. ASSUME NEW c \in Parts, NEW p \in ToSet(PortsOf[c]) PROVE Owner(p) = c
  <2>1. \A d \in Parts : p \in ToSet(PortsOf[d]) => d = c
    BY <1>1, PortSets
  <2>2. QED
    BY <2>1, <1>1 DEF Owner
<1>2. ASSUME NEW p \in Ports PROVE Owner(p) \in Parts /\ p \in ToSet(PortsOf[Owner(p)])
  BY <1>2 DEF Ports, Owner
<1>3. QED
  BY <1>1, <1>2

PlayAt(k, x) ==
    \/ k = 1 /\ x = Param("clock", "end")
    \/ k = 2 /\ x = SetState("vcodec", "executing", "log")
    \/ k = 3 /\ x = SetState("sched", "executing", "log")
    \/ k = 4 /\ x = SetState("acodec", "executing", "log")

ResumeAt(k, x) ==
    \/ k = 1 /\ x = Param("clock", "end")
    \/ k = 2 /\ x = SetState("vcodec", "executing", "end")
    \/ k = 3 /\ x = SetState("vrend", "executing", "end")
    \/ k = 4 /\ x = SetState("acodec", "executing", "end")
    \/ k = 5 /\ x = SetState("arend", "executing", "end")
    \/ k = 6 /\ x = SetState("sched", "executing", "end")
    \/ k = 7 /\ x = SetState("clock", "executing", "end")

PauseAt(k, x) ==
    \/ k = 1 /\ x = Param("clock", "end")
    \/ k = 2 /\ x = SetState("vcodec", "pause", "end")
    \/ k = 3 /\ x = SetState("acodec", "pause", "end")
    \/ k = 4 /\ x = SetState("arend", "pause", "end")
    \/ k = 5 /\ x = SetState("sched", "pause", "end")
    \/ k = 6 /\ x = SetState("clock", "pause", "end")

ChangeAt(k, x) ==
    \/ k = 1 /\ x = Disable("vcodec.out")
    \/ k = 2 /\ x = Disable("sched.in")
    \/ k = 3 /\ x = Param("vcodec", "end")
    \/ k = 4 /\ x = Connect("vcodec.out", "sched.in", "log")
    \/ k = 5 /\ x = SetState("vrend", "executing", "log") /\ first

(* The steps of play() on a loaded player.                                 *)
LEMMA PlayIs == Len(PlayScript) = 4 /\ \A k \in 1 .. 4 : PlayAt(k, PlayScript[k])
BY DEF PlayScript, PlayAt

(* changeComponentsState() for executing and for pause.                    *)
LEMMA ChangeStates ==
    /\ ChangeScript("executing") = <<SetState("vcodec", "executing", "end"), SetState("vrend", "executing", "end"),
         SetState("acodec", "executing", "end"), SetState("arend", "executing", "end"),
         SetState("sched", "executing", "end"), SetState("clock", "executing", "end")>>
    /\ ChangeScript("pause") = <<SetState("vcodec", "pause", "end"), SetState("acodec", "pause", "end"),
         SetState("arend", "pause", "end"), SetState("sched", "pause", "end"), SetState("clock", "pause", "end")>>
BY DEF ChangeScript

(* The steps of play() on a paused player.                                 *)
LEMMA ResumeIs ==
    /\ Len(<<Param("clock", "end")>> \o ChangeScript("executing")) = 7
    /\ \A k \in 1 .. 7 : ResumeAt(k, (<<Param("clock", "end")>> \o ChangeScript("executing"))[k])
<1> DEFINE p == <<Param("clock", "end")>>  q == ChangeScript("executing")
<1>1. p \in Seq(AnyStep) /\ Len(p) = 1 /\ p[1] = Param("clock", "end")
  BY Names1 DEF Param, AnyStep
<1>2. q \in Seq(AnyStep) /\ Len(q) = 6
  <2> DEFINE l == <<SetState("vcodec", "executing", "end"), SetState("vrend", "executing", "end"),
         SetState("acodec", "executing", "end"), SetState("arend", "executing", "end"),
         SetState("sched", "executing", "end"), SetState("clock", "executing", "end")>>
  <2>1. l \in Seq(AnyStep) /\ Len(l) = 6
    BY Names1 DEF SetState, AnyStep
  <2>2. q = l
    BY ChangeStates
  <2> HIDE DEF l, q
  <2>3. QED
    BY <2>1, <2>2
<1>3. \A k \in 1 .. 6 : ResumeAt(k + 1, q[k])
  BY ChangeStates DEF ResumeAt
<1>4. p \in Seq(AnyStep)
  BY <1>1
<1>5. q \in Seq(AnyStep)
  BY <1>2
<1> HIDE DEF p, q
<1>6. p \o q \in Seq(AnyStep) /\ IsCat(p \o q, p, q)
  BY CatAt, <1>4, <1>5, Zenon
<1> DEFINE r == p \o q
<1>7. r \in Seq(AnyStep) /\ IsCat(r, p, q)
  BY <1>6
<1> HIDE DEF r
<1>8. Len(r) = 7
  BY <1>1, <1>2, <1>7 DEF IsCat
<1>9. ASSUME NEW k \in 1 .. 7 PROVE ResumeAt(k, r[k])
  <2>1. CASE k = 1
    BY <2>1, <1>1, <1>7 DEF IsCat, ResumeAt
  <2>2. CASE k # 1
    <3>1. k - 1 \in 1 .. 6 /\ r[k] = q[k - 1]
      BY <2>2, <1>1, <1>2, <1>7, <1>8 DEF IsCat
    <3>2. ResumeAt((k - 1) + 1, q[k - 1])
      BY <3>1, <1>3
    <3>3. QED
      BY <3>1, <3>2
  <2>3. QED
    BY <2>1, <2>2
<1>10. QED
  BY <1>8, <1>9 DEF r, p, q

(* The steps of pause().                                                   *)
LEMMA PauseIs ==
    /\ Len(<<Param("clock", "end")>> \o ChangeScript("pause")) = 6
    /\ \A k \in 1 .. 6 : PauseAt(k, (<<Param("clock", "end")>> \o ChangeScript("pause"))[k])
<1> DEFINE p == <<Param("clock", "end")>>  q == ChangeScript("pause")
<1>1. p \in Seq(AnyStep) /\ Len(p) = 1 /\ p[1] = Param("clock", "end")
  BY Names1 DEF Param, AnyStep
<1>2. q \in Seq(AnyStep) /\ Len(q) = 5
  <2> DEFINE l == <<SetState("vcodec", "pause", "end"), SetState("acodec", "pause", "end"),
         SetState("arend", "pause", "end"), SetState("sched", "pause", "end"), SetState("clock", "pause", "end")>>
  <2>1. l \in Seq(AnyStep) /\ Len(l) = 5
    BY Names1 DEF SetState, AnyStep
  <2>2. q = l
    BY ChangeStates
  <2> HIDE DEF l, q
  <2>3. QED
    BY <2>1, <2>2
<1>3. \A k \in 1 .. 5 : PauseAt(k + 1, q[k])
  BY ChangeStates DEF PauseAt
<1>4. p \in Seq(AnyStep)
  BY <1>1
<1>5. q \in Seq(AnyStep)
  BY <1>2
<1> HIDE DEF p, q
<1>6. p \o q \in Seq(AnyStep) /\ IsCat(p \o q, p, q)
  BY CatAt, <1>4, <1>5, Zenon
<1> DEFINE r == p \o q
<1>7. r \in Seq(AnyStep) /\ IsCat(r, p, q)
  BY <1>6
<1> HIDE DEF r
<1>8. Len(r) = 6
  BY <1>1, <1>2, <1>7 DEF IsCat
<1>9. ASSUME NEW k \in 1 .. 6 PROVE PauseAt(k, r[k])
  <2>1. CASE k = 1
    BY <2>1, <1>1, <1>7 DEF IsCat, PauseAt
  <2>2. CASE k # 1
    <3>1. k - 1 \in 1 .. 5 /\ r[k] = q[k - 1]
      BY <2>2, <1>1, <1>2, <1>7, <1>8 DEF IsCat
    <3>2. PauseAt((k - 1) + 1, q[k - 1])
      BY <3>1, <1>3
    <3>3. QED
      BY <3>1, <3>2
  <2>3. QED
    BY <2>1, <2>2
<1>10. QED
  BY <1>8, <1>9 DEF r, p, q

(* The steps of the callback of a changed port.                            *)
LEMMA ChangeIs ==
    /\ Len(PortChangeScript(first)) = IF first THEN 5 ELSE 4
    /\ \A k \in 1 .. Len(PortChangeScript(first)) : ChangeAt(k, PortChangeScript(first)[k])
BY DEF PortChangeScript, ChangeAt

Calls == {"none", "load", "play", "resume", "pause", "change"}

StepAt(t, k, x) ==
    \/ call[t] = "load" /\ LoadAt(k, x)
    \/ call[t] = "play" /\ PlayAt(k, x)
    \/ call[t] = "resume" /\ ResumeAt(k, x)
    \/ call[t] = "pause" /\ PauseAt(k, x)
    \/ call[t] = "change" /\ ChangeAt(k, x)

(* Which script a thread runs.                                             *)
LEMMA Scripts ==
    ASSUME NEW t, call[t] \in Calls
    PROVE  /\ call[t] = "none" => Script(t) = <<>>
           /\ call[t] = "load" => Script(t) = LoadScript(content)
           /\ call[t] = "play" => Script(t) = PlayScript
           /\ call[t] = "resume" => Script(t) = <<Param("clock", "end")>> \o ChangeScript("executing")
           /\ call[t] = "pause" => Script(t) = <<Param("clock", "end")>> \o ChangeScript("pause")
           /\ call[t] = "change" => Script(t) = PortChangeScript(first)
BY DEF Script, Calls

(* How long it is and what its steps are.                                  *)
LEMMA StepIs ==
    ASSUME NEW t, call[t] \in Calls
    PROVE  /\ Len(Script(t)) \in Nat
           /\ call[t] = "none" => Len(Script(t)) = 0
           /\ call[t] = "load" => Len(Script(t)) = LoadLen
           /\ call[t] = "play" => Len(Script(t)) = 4
           /\ call[t] = "resume" => Len(Script(t)) = 7
           /\ call[t] = "pause" => Len(Script(t)) = 6
           /\ call[t] = "change" => Len(Script(t)) = IF first THEN 5 ELSE 4
           /\ \A k \in 1 .. Len(Script(t)) : StepAt(t, k, Script(t)[k])
<1>1. LoadLen \in Nat
  BY DEF LoadLen, VideoLen, AudioLen
<1>2. CASE call[t] = "none"
  BY <1>2, Scripts
<1>3. CASE call[t] = "load"
  BY <1>1, <1>3, Scripts, LoadIs DEF StepAt
<1>4. CASE call[t] = "play"
  BY <1>4, Scripts, PlayIs DEF StepAt
<1>5. CASE call[t] = "resume"
  <2> DEFINE r == <<Param("clock", "end")>> \o ChangeScript("executing")
  <2>1. Script(t) = r
    BY <1>5, Scripts
  <2>2. Len(r) = 7 /\ \A k \in 1 .. Len(r) : ResumeAt(k, r[k])
    BY ResumeIs
  <2> HIDE DEF r
  <2>3. QED
    BY <1>5, <2>1, <2>2 DEF StepAt
<1>6. CASE call[t] = "pause"
  <2> DEFINE r == <<Param("clock", "end")>> \o ChangeScript("pause")
  <2>1. Script(t) = r
    BY <1>6, Scripts
  <2>2. Len(r) = 6 /\ \A k \in 1 .. Len(r) : PauseAt(k, r[k])
    BY PauseIs
  <2> HIDE DEF r
  <2>3. QED
    BY <1>6, <2>1, <2>2 DEF StepAt
<1>7. CASE call[t] = "change"
  BY <1>7, Scripts, ChangeIs DEF StepAt
<1>8. QED
  BY <1>2, <1>3, <1>4, <1>5, <1>6, <1>7 DEF Calls

(* What StepAt says is in the script.                                      *)
LEMMA StepHas ==
    ASSUME NEW t, call[t] \in Calls, NEW k \in Nat, NEW x, StepAt(t, k, x)
    PROVE  k \in 1 .. Len(Script(t)) /\ x = Script(t)[k]
<1>1. CASE call[t] = "load"
  BY <1>1, LoadTotal, Scripts, StepIs DEF StepAt
<1>2. CASE call[t] # "load"
  <2>a. PICK n \in Nat : n = Len(Script(t))
    BY StepIs
  <2>b. /\ call[t] = "play" => n = 4
        /\ call[t] = "resume" => n = 7
        /\ call[t] = "pause" => n = 6
        /\ call[t] = "change" => n = IF first THEN 5 ELSE 4
    BY <2>a, StepIs
  <2>c. k \in 1 .. n
    BY <1>2, <2>b DEF StepAt, PlayAt, ResumeAt, PauseAt, ChangeAt
  <2>1. k \in 1 .. Len(Script(t))
    BY <2>a, <2>c
  <2>2. StepAt(t, k, Script(t)[k])
    BY <2>1, StepIs
  <2> DEFINE y == Script(t)[k]
  <2>3. StepAt(t, k, y)
    BY <2>2
  <2> HIDE DEF y
  <2>4. x = y
    BY <1>2, <2>3 DEF StepAt, PlayAt, ResumeAt, PauseAt, ChangeAt
  <2>5. QED
    BY <2>1, <2>4 DEF y
<1>3. QED
  BY <1>1, <1>2

(* sequences *)
LEMMA DoneIs ==
    ASSUME NEW t, call[t] \in Calls, step[t] \in Nat \ {0}, step[t] <= Len(Script(t)) + 1, NEW x
    PROVE  /\ x \in DoneBy(t) <=> \E k \in 1 .. step[t] - 1 : StepAt(t, k, x)
           /\ step[t] <= Len(Script(t)) => StepAt(t, step[t], Step(t))
<1>1. Len(Script(t)) \in Nat
  BY StepIs
<1>2. ASSUME x \in DoneBy(t) PROVE \E k \in 1 .. step[t] - 1 : StepAt(t, k, x)
  BY <1>1, <1>2, StepIs DEF DoneBy
<1>3. ASSUME NEW k \in 1 .. step[t] - 1, StepAt(t, k, x) PROVE x \in DoneBy(t)
  <2>1. x = Script(t)[k]
    BY <1>3, StepHas
  <2>2. QED
    BY <2>1 DEF DoneBy
<1>4. step[t] <= Len(Script(t)) => StepAt(t, step[t], Step(t))
  BY <1>1, StepIs DEF Step
<1>5. QED
  BY <1>2, <1>3, <1>4
-----------------------------------------------------------------------------
Adds(c, q, r) ==
    /\ Len(q) <= Len(r) /\ \A i \in 1 .. Len(q) : r[i] = q[i]
    /\ \A i \in 1 .. Len(r) : i > Len(q) => r[i] \in PortCommands(c)

(* A command for a port changes no state.                                  *)
LEMMA PortCommand == \A c : \A m \in PortCommands(c) : m.kind # "state" /\ m.kind \in {"on", "off"} /\ m.arg \in ToSet(PortsOf[c])
BY DEF PortCommands, Command

(* To send nothing adds nothing.                                           *)
LEMMA AddsSame == ASSUME NEW c, NEW q \in Seq(AnyCommand) PROVE Adds(c, q, q)
BY DEF Adds

(* One command for a port of the component is added.                       *)
LEMMA AddsOne ==
    ASSUME NEW c, NEW q \in Seq(AnyCommand), NEW m \in AnyCommand, m \in PortCommands(c)
    PROVE  Append(q, m) \in Seq(AnyCommand) /\ Adds(c, q, Append(q, m))
BY DEF Adds

(* Several commands for ports of the component are added.                  *)
LEMMA AddsMany ==
    ASSUME NEW c, NEW q \in Seq(AnyCommand), NEW r \in Seq(AnyCommand), \A i \in 1 .. Len(r) : r[i] \in PortCommands(c)
    PROVE  q \o r \in Seq(AnyCommand) /\ Adds(c, q, q \o r)
BY DEF Adds

(* Commands for ports leave what is on its way in changes of state.        *)
LEMMA QuietKeeps ==
    ASSUME NEW c, NEW q \in Seq(AnyCommand), NEW r \in Seq(AnyCommand), Adds(c, q, r)
    PROVE  /\ Calm(q) => Calm(r)
           /\ \A S : Only(q, S) => Only(r, S)
           /\ AtMostOne(q) => AtMostOne(r)
           /\ PausesLast(q) => PausesLast(r)
           /\ PausesFirst(q) => PausesFirst(r)
           /\ (\A i \in 1 .. Len(q) : q[i] \in CommandsOf(c)) => \A i \in 1 .. Len(r) : r[i] \in CommandsOf(c)
<1>1. \A i \in 1 .. Len(r) : i \notin 1 .. Len(q) => r[i].kind # "state" /\ r[i] \in CommandsOf(c)
  BY PortCommand DEF Adds, CommandsOf
<1>2. QED
  BY <1>1 DEF Adds, Calm, Only, AtMostOne, PausesLast, PausesFirst

(* What a further change of state does to what is on its way.              *)
LEMMA TellKeeps ==
    ASSUME NEW q \in Seq(AnyCommand), NEW s \in {"idle", "executing", "pause"}
    PROVE  LET r == Append(q, Command("state", s)) IN
           /\ r \in Seq(AnyCommand)
           /\ \A S : s \in S /\ Only(q, S) => Only(r, S)
           /\ Calm(q) => AtMostOne(r) /\ Only(r, {s})
           /\ s = "pause" /\ PausesLast(q) => PausesLast(r)
           /\ s # "pause" /\ PausesFirst(q) => PausesFirst(r)
<1> DEFINE r == Append(q, Command("state", s))
<1>1. Command("state", s) \in AnyCommand
  BY DEF Command, AnyCommand
<1>2. r \in Seq(AnyCommand) /\ Len(r) = Len(q) + 1 /\ (\A i \in 1 .. Len(q) : r[i] = q[i])
      /\ r[Len(q) + 1].kind = "state" /\ r[Len(q) + 1].arg = s
  BY <1>1 DEF Command
<1> HIDE DEF r
<1>3. \A S : s \in S /\ Only(q, S) => Only(r, S)
  BY <1>2 DEF Only
<1>4. Calm(q) => AtMostOne(r) /\ Only(r, {s})
  BY <1>2 DEF Calm, AtMostOne, Only
<1>5. s = "pause" /\ PausesLast(q) => PausesLast(r)
  BY <1>2 DEF PausesLast
<1>6. s # "pause" /\ PausesFirst(q) => PausesFirst(r)
  BY <1>2 DEF PausesFirst
<1>7. QED
  BY <1>2, <1>3, <1>4, <1>5, <1>6 DEF r

(* What remains on its way when the first command is carried out.          *)
LEMMA TailKeeps ==
    ASSUME NEW q \in Seq(AnyCommand), q # <<>>
    PROVE  /\ Tail(q) \in Seq(AnyCommand) /\ Head(q) = q[1] /\ Head(q) \in AnyCommand
           /\ Len(Tail(q)) = Len(q) - 1 /\ 1 \in 1 .. Len(q)
           /\ \A i \in 1 .. Len(Tail(q)) : Tail(q)[i] = q[i + 1] /\ i + 1 \in 1 .. Len(q)
           /\ Calm(q) => Calm(Tail(q)) /\ Head(q).kind # "state"
           /\ \A S : Only(q, S) => Only(Tail(q), S) /\ (Head(q).kind = "state" => Head(q).arg \in S)
           /\ AtMostOne(q) => AtMostOne(Tail(q)) /\ (Head(q).kind = "state" => Calm(Tail(q)))
           /\ PausesLast(q) => /\ PausesLast(Tail(q))
                               /\ Head(q).kind = "state" /\ Head(q).arg = "pause" => Only(Tail(q), {"pause"})
           /\ PausesFirst(q) => /\ PausesFirst(Tail(q))
                                /\ Head(q).kind = "state" /\ Head(q).arg # "pause" => PausesLast(Tail(q))
<1> DEFINE r == Tail(q)
<1>1. /\ r \in Seq(AnyCommand) /\ Head(q) = q[1] /\ Head(q) \in AnyCommand
      /\ Len(r) = Len(q) - 1 /\ 1 \in 1 .. Len(q)
      /\ \A i \in 1 .. Len(r) : r[i] = q[i + 1] /\ i + 1 \in 1 .. Len(q)
  OBVIOUS
<1> HIDE DEF r
<1>2. Calm(q) => Calm(r) /\ Head(q).kind # "state"
  BY <1>1 DEF Calm
<1>3. \A S : Only(q, S) => Only(r, S) /\ (Head(q).kind = "state" => Head(q).arg \in S)
  BY <1>1 DEF Only
<1>4. AtMostOne(q) => AtMostOne(r) /\ (Head(q).kind = "state" => Calm(r))
  BY <1>1 DEF AtMostOne, Calm
<1>5. PausesLast(q) => /\ PausesLast(r)
                       /\ Head(q).kind = "state" /\ Head(q).arg = "pause" => Only(r, {"pause"})
  <2>1. ASSUME PausesLast(q), NEW i \in 1 .. Len(r), NEW j \in 1 .. Len(r), i < j,
               r[i].kind = "state", r[j].kind = "state", r[i].arg = "pause"
        PROVE  r[j].arg = "pause"
    <3>1. /\ i + 1 \in 1 .. Len(q) /\ j + 1 \in 1 .. Len(q) /\ i + 1 < j + 1
          /\ r[i] = q[i + 1] /\ r[j] = q[j + 1]
      BY <1>1, <2>1
    <3>2. QED
      BY <2>1, <3>1 DEF PausesLast
  <2>2. ASSUME PausesLast(q), q[1].kind = "state", q[1].arg = "pause", NEW i \in 1 .. Len(r), r[i].kind = "state"
        PROVE  r[i].arg = "pause"
    <3>1. i + 1 \in 1 .. Len(q) /\ 1 < i + 1 /\ r[i] = q[i + 1]
      BY <1>1
    <3>2. QED
      BY <2>2, <3>1, <1>1 DEF PausesLast
  <2>3. QED
    BY <2>1, <2>2, <1>1 DEF Only, PausesLast
<1>6. PausesFirst(q) => /\ PausesFirst(r)
                        /\ Head(q).kind = "state" /\ Head(q).arg # "pause" =>
                             \A i \in 1 .. Len(r) : r[i].kind = "state" => r[i].arg # "pause"
  <2>1. ASSUME PausesFirst(q), NEW i \in 1 .. Len(r), NEW j \in 1 .. Len(r), i < j,
               r[i].kind = "state", r[j].kind = "state", r[j].arg = "pause"
        PROVE  r[i].arg = "pause"
    <3>1. /\ i + 1 \in 1 .. Len(q) /\ j + 1 \in 1 .. Len(q) /\ i + 1 < j + 1
          /\ r[i] = q[i + 1] /\ r[j] = q[j + 1]
      BY <1>1, <2>1
    <3>2. QED
      BY <2>1, <3>1 DEF PausesFirst
  <2>2. ASSUME PausesFirst(q), q[1].kind = "state", q[1].arg # "pause", NEW i \in 1 .. Len(r), r[i].kind = "state"
        PROVE  r[i].arg # "pause"
    <3>1. i + 1 \in 1 .. Len(q) /\ 1 < i + 1 /\ r[i] = q[i + 1]
      BY <1>1
    <3>2. QED
      BY <2>2, <3>1, <1>1 DEF PausesFirst
  <2>3. QED
    BY <2>1, <2>2, <1>1 DEF PausesFirst
<1>7. (\A i \in 1 .. Len(r) : r[i].kind = "state" => r[i].arg # "pause") => PausesLast(r)
  BY DEF PausesLast
<1>8. QED
  BY <1>1, <1>2, <1>3, <1>4, <1>5, <1>6, <1>7 DEF r
-----------------------------------------------------------------------------
(* The component of each port.                                             *)
LEMMA OwnerOf ==
    /\ Owner("clock.audio") = "clock" /\ Owner("clock.video") = "clock" /\ Owner("vcodec.in") = "vcodec"
    /\ Owner("vcodec.out") = "vcodec" /\ Owner("sched.in") = "sched" /\ Owner("sched.out") = "sched"
    /\ Owner("sched.clock") = "sched" /\ Owner("vrend.in") = "vrend" /\ Owner("acodec.in") = "acodec"
    /\ Owner("acodec.out") = "acodec" /\ Owner("arend.in") = "arend" /\ Owner("arend.clock") = "arend"
    /\ Ports = {"clock.audio", "clock.video", "vcodec.in", "vcodec.out", "sched.in", "sched.out",
                "sched.clock", "vrend.in", "acodec.in", "acodec.out", "arend.in", "arend.clock"}
BY Owners, PortSets DEF Ports

AllJoins == UNION {Joins[s] : s \in Streams}

(* The tunnels of each stream.                                             *)
LEMMA JoinsAre ==
    /\ Joins["video"] = {<<"clock.video", "sched.clock">>, <<"vcodec.out", "sched.in">>, <<"sched.out", "vrend.in">>}
    /\ Joins["audio"] = {<<"clock.audio", "arend.clock">>, <<"acodec.out", "arend.in">>}
    /\ AllJoins = Joins["video"] \cup Joins["audio"]
    /\ VideoJoin = <<"vcodec.out", "sched.in">>
BY DEF Joins, VideoJoin, AllJoins, Streams

StepKind(x) ==
    /\ x.fails \in {"end", "log", "skip"}
    /\ x.op \in {"make", "param", "set", "port", "allocate", "wait", "connect", "startTime"}
    /\ x.op \in {"param", "make", "wait", "startTime", "allocate"} => x.fails = "end"
    /\ x.op = "set" => x.on \in Parts /\ x.to \in {"idle", "executing", "pause"} /\ x.fails \in {"end", "log"}
    /\ x.op = "make" => x.on \in Parts
    /\ x.op = "port" => x.on \in Ports /\ x.to \in {"on", "off"} /\ x.fails \in {"end", "log"}
    /\ x.op = "wait" => x.on \in Ports
    /\ x.op = "connect" => /\ <<x.on, x.to>> \in AllJoins /\ x.on \in Ports /\ x.to \in Ports
                           /\ Owner(x.on) # Owner(x.to)

(* What the fields of a step can be.                                       *)
LEMMA StepKinds ==
    ASSUME NEW t, NEW k \in Nat, NEW x, StepAt(t, k, x)
    PROVE  StepKind(x) /\ (x.fails = "skip" => call[t] = "load")
<1>1. CASE call[t] = "load" /\ LoadAt(k, x)
  <2>1. VideoLen \in Nat
    BY DEF VideoLen
  <2>2. /\ x.fails \in {"end", "log", "skip"}
        /\ x.op \in {"make", "param", "set", "port", "allocate", "wait", "connect", "startTime"}
        /\ x.op \in {"param", "make", "wait", "startTime", "allocate"} => x.fails = "end"
        /\ x.op = "wait" => x.on \in {"vcodec.in", "acodec.in", "arend.in", "acodec.out"}
    BY <1>1, <2>1 DEF LoadAt, VideoAt, AudioAt, Make, Param, SetState, Enable, Allocate, WaitPort, Connect, StartTime
  <2>3. x.op = "set" => x.on \in Parts /\ x.to \in {"idle", "executing", "pause"} /\ x.fails \in {"end", "log"}
    BY <1>1, SetsAt, PortSets DEF SetState
  <2>4. x.op = "make" => x.on \in Parts
    BY <1>1, MakesAt, PortSets DEF Make
  <2>5. x.op = "port" => x.on \in Ports /\ x.to \in {"on", "off"} /\ x.fails \in {"end", "log"}
    BY <1>1, PortsAt, OwnerOf DEF Enable
  <2>6. x.op = "connect" => /\ <<x.on, x.to>> \in AllJoins /\ x.on \in Ports /\ x.to \in Ports
                           /\ Owner(x.on) # Owner(x.to)
    BY <1>1, ConnectsAt, OwnerOf, JoinsAre DEF Connect
  <2>7. QED
    BY <1>1, <2>2, <2>3, <2>4, <2>5, <2>6, OwnerOf DEF StepKind
<1>2. CASE call[t] # "load"
  BY <1>2, OwnerOf, JoinsAre, PortSets DEF StepAt, PlayAt, ResumeAt, PauseAt, ChangeAt, Param, SetState, Connect, Disable, StepKind
<1>3. QED
  BY <1>1, <1>2 DEF StepAt

(* Send() adds one command to the component of each port.                  *)
LEMMA SendIs ==
    ASSUME sent \in [Parts -> Seq(AnyCommand)], NEW kind \in {"on", "off"}, NEW ports \in SUBSET Ports,
           \A p, q \in ports : Owner(p) = Owner(q) => p = q
    PROVE  /\ Send(kind, ports) \in [Parts -> Seq(AnyCommand)]
           /\ \A p \in ports : Send(kind, ports)[Owner(p)] = Append(sent[Owner(p)], Command(kind, p))
           /\ \A c \in Parts : (\A p \in ports : Owner(p) # c) => Send(kind, ports)[c] = sent[c]
           /\ \A c \in Parts : Adds(c, sent[c], Send(kind, ports)[c])
<1>1. ASSUME NEW p \in ports PROVE Send(kind, ports)[Owner(p)] = Append(sent[Owner(p)], Command(kind, p))
  <2>1. Owner(p) \in Parts
    BY Owners
  <2>2. (CHOOSE q \in ports : Owner(q) = Owner(p)) = p
    OBVIOUS
  <2>3. QED
    BY <2>1, <2>2 DEF Send
<1>2. ASSUME NEW c \in Parts, \A p \in ports : Owner(p) # c PROVE Send(kind, ports)[c] = sent[c]
  BY <1>2 DEF Send
<1>3. ASSUME NEW c \in Parts PROVE Send(kind, ports)[c] \in Seq(AnyCommand) /\ Adds(c, sent[c], Send(kind, ports)[c])
  <2>1. CASE \A p \in ports : Owner(p) # c
    BY <1>2, <2>1, AddsSame
  <2>2. CASE \E p \in ports : Owner(p) = c
    <3>1. PICK p \in ports : Owner(p) = c
      BY <2>2
    <3>2. Command(kind, p) \in AnyCommand /\ Command(kind, p) \in PortCommands(c)
      <4>1. p \in ToSet(PortsOf[c]) /\ p \in Ports
        BY <3>1, Owners
      <4>2. QED
        BY <4>1 DEF Command, AnyCommand, PortCommands
    <3>3. sent[c] \in Seq(AnyCommand)
      OBVIOUS
    <3>4. Append(sent[c], Command(kind, p)) \in Seq(AnyCommand) /\ Adds(c, sent[c], Append(sent[c], Command(kind, p)))
      BY AddsOne, <3>2, <3>3
    <3>5. QED
      BY <1>1, <3>1, <3>4
  <2>3. QED
    BY <2>1, <2>2
<1>4. Send(kind, ports) \in [Parts -> Seq(AnyCommand)]
  BY <1>3 DEF Send
<1>5. QED
  BY <1>1, <1>2, <1>3, <1>4
-----------------------------------------------------------------------------
Control == Types /\ Places /\ Order

(* What the typing of the state and the places of the threads give of      *)
(* every thread and component.                                             *)
LEMMA Basics ==
    ASSUME Types, Places
    PROVE  /\ \A t \in Threads : call[t] \in Calls /\ step[t] \in Nat \ {0} /\ step[t] <= Len(Script(t)) + 1
                                 /\ waiting[t] \in BOOLEAN /\ Len(Script(t)) \in Nat
           /\ call \in [Threads -> Calls] /\ step \in [Threads -> Nat \ {0}] /\ waiting \in [Threads -> BOOLEAN]
           /\ call["callback"] \in {"none", "change"} /\ call["app"] \in Calls \ {"change"}
           /\ Threads = {"app", "callback"}
           /\ \A c \in Parts : sent[c] \in Seq(AnyCommand) /\ state[c] \in {"loaded", "idle", "executing", "pause"}
           /\ sent \in [Parts -> Seq(AnyCommand)] /\ state \in [Parts -> {"loaded", "idle", "executing", "pause"}]
<1>1. call \in [Threads -> Calls] /\ step \in [Threads -> Nat \ {0}] /\ waiting \in [Threads -> BOOLEAN]
      /\ sent \in [Parts -> Seq(AnyCommand)] /\ state \in [Parts -> {"loaded", "idle", "executing", "pause"}]
  BY DEF Types, TypeOK, Places, Calls
<1>2. call["callback"] \in {"none", "change"} /\ call["app"] # "change" /\ Threads = {"app", "callback"}
      /\ \A t \in Threads : step[t] <= Len(Script(t)) + 1
  BY DEF Places, Threads
<1>3. \A t \in Threads : Len(Script(t)) \in Nat
  BY <1>1, StepIs
<1>4. QED
  BY <1>1, <1>2, <1>3

(* A thread that is within its script is at a step of it.                  *)
LEMMA ThisStep ==
    ASSUME Types, Places, NEW t \in Threads, step[t] <= Len(Script(t))
    PROVE  StepAt(t, step[t], Step(t)) /\ StepKind(Step(t)) /\ (Step(t).fails = "skip" => call[t] = "load" /\ t = "app")
           /\ call[t] # "none"
<1>1. StepAt(t, step[t], Step(t)) /\ step[t] \in Nat
  BY Basics, DoneIs
<1>2. StepKind(Step(t)) /\ (Step(t).fails = "skip" => call[t] = "load")
  BY <1>1, StepKinds
<1>3. QED
  BY <1>1, <1>2, Basics DEF StepAt

Ahead(t) ==
    /\ step[t] <= Len(Script(t)) /\ Forward(t, 1) /\ waiting' = [waiting EXCEPT ![t] = FALSE]
    /\ Step(t).op = "param" => Step(t).on \in handles
    /\ Step(t).op = "make" /\ (Step(t).on # "vcodec" \/ codecKnown) => Step(t).on \in handles'
    /\ Step(t).op = "set" =>
         \/ /\ state[Step(t).on] = Step(t).to
            /\ waiting[t] \/ ~Stale(Step(t).on) \/ "staleSkip" \in past'
         \/ /\ Step(t).fails = "log"
            /\ "late" \in past' \/ (~waiting[t] /\ "unsent" \in past')
Over(t) ==
    /\ step[t] <= Len(Script(t)) /\ Forward(t, 4) /\ waiting' = waiting /\ ~waiting[t]
    /\ Step(t).fails = "skip" /\ Step(t).op = "connect" /\ "unsent" \in past'
Ends(t) ==
    /\ step[t] > Len(Script(t)) /\ call[t] # "none" /\ Leave(t, TRUE)
    /\ waiting' = waiting /\ ~waiting[t]
Breaks(t) ==
    /\ step[t] <= Len(Script(t)) /\ Step(t).fails = "end" /\ Leave(t, FALSE)
    /\ waiting' = [waiting EXCEPT ![t] = FALSE]
    /\ past' \cap {"late", "unsent", "param"} # {} \/ (Step(t).op = "param" /\ Step(t).on \notin handles)
    /\ waiting[t] => "late" \in past'
Rests == UNCHANGED <<threadVars, playerVars>>

Tells(t) ==
    /\ ~waiting[t] /\ step[t] <= Len(Script(t)) /\ Step(t).op = "set"
    /\ state[Step(t).on] # Step(t).to
    /\ sent' = [sent EXCEPT ![Step(t).on] = Append(@, Command("state", Step(t).to))]
    /\ waiting' = [waiting EXCEPT ![t] = TRUE]
    /\ UNCHANGED <<call, step, playerVars, clientVars, state, on, tunnelVars, past, crashed, faults>>

Quiet ==
    /\ state' = state /\ sent' \in [Parts -> Seq(AnyCommand)]
    /\ \A c \in Parts : Adds(c, sent[c], sent'[c])
    /\ past \subseteq past' /\ handles \subseteq handles'
    /\ "vcodec" \in handles' => "vcodec" \in handles \/ codecKnown

(* A step that sends nothing is quiet.                                     *)
LEMMA SameIsQuiet ==
    ASSUME Types, Places, state' = state, sent' = sent, past \subseteq past', handles' = handles
    PROVE  Quiet
BY Basics, AddsSame DEF Quiet

(* So is one that sends commands for ports.                                *)
LEMMA SendIsQuiet ==
    ASSUME Types, Places, state' = state, past \subseteq past', handles' = handles,
           NEW kind \in {"on", "off"}, NEW ports \in SUBSET Ports,
           \A p, q \in ports : Owner(p) = Owner(q) => p = q, sent' = Send(kind, ports)
    PROVE  Quiet
BY Basics, SendIs DEF Quiet

(* A thread that does not wait is left not waiting.                        *)
LEMMA NotWaiting ==
    ASSUME Types, Places, NEW t \in Threads, ~waiting[t]
    PROVE  waiting = [waiting EXCEPT ![t] = FALSE]
BY Basics

Moves(t) == Quiet /\ (Ahead(t) \/ Over(t) \/ Ends(t) \/ Breaks(t) \/ Rests)

(* A sequence without one of its elements has the same kind of elements.   *)
LEMMA RemoveIs ==
    ASSUME NEW S, NEW q \in Seq(S), NEW i \in DOMAIN q
    PROVE  RemoveAt(q, i) \in Seq(S)
<1>1. i \in 1 .. Len(q) /\ Len(q) \in Nat
  OBVIOUS
<1>2. SubSeq(q, 1, i - 1) \in Seq(S) /\ SubSeq(q, i + 1, Len(q)) \in Seq(S)
  BY <1>1
<1>3. QED
  BY <1>2, ConcatProperties, Zenon DEF RemoveAt

(* The commands of create() disable ports of the component.                *)
LEMMA OffsAre ==
    ASSUME NEW c \in Parts, NEW told \in Seq(ToSet(PortsOf[c]))
    PROVE  LET r == [i \in DOMAIN told |-> Command("off", told[i])] IN
           r \in Seq(AnyCommand) /\ \A i \in 1 .. Len(r) : r[i] \in PortCommands(c)
<1> DEFINE r == [i \in DOMAIN told |-> Command("off", told[i])]
<1>1. DOMAIN told = 1 .. Len(told) /\ Len(told) \in Nat
  OBVIOUS
<1>2. \A i \in 1 .. Len(told) : told[i] \in ToSet(PortsOf[c]) /\ told[i] \in Ports
  BY DEF Ports
<1>3. \A i \in 1 .. Len(told) : Command("off", told[i]) \in AnyCommand /\ Command("off", told[i]) \in PortCommands(c)
  BY <1>2 DEF Command, AnyCommand, PortCommands
<1>4. r \in [1 .. Len(told) -> AnyCommand]
  BY <1>1, <1>3
<1>5. r \in Seq(AnyCommand) /\ Len(r) = Len(told)
  BY <1>1, <1>4
<1>6. QED
  BY <1>1, <1>3, <1>5

(* The ports of a component are a sequence of its ports.                   *)
LEMMA PortsOfIs ==
    ASSUME NEW c \in Parts
    PROVE  PortsOf[c] \in Seq(ToSet(PortsOf[c]))
<1>1. /\ PortsOf["clock"] = <<"clock.audio", "clock.video">>
      /\ PortsOf["vcodec"] = <<"vcodec.in", "vcodec.out">>
      /\ PortsOf["sched"] = <<"sched.in", "sched.out", "sched.clock">>
      /\ PortsOf["vrend"] = <<"vrend.in">>
      /\ PortsOf["acodec"] = <<"acodec.in", "acodec.out">>
      /\ PortsOf["arend"] = <<"arend.in", "arend.clock">>
  BY DEF PortsOf
<1>2. /\ <<"clock.audio", "clock.video">> \in Seq({"clock.audio", "clock.video"})
      /\ <<"vcodec.in", "vcodec.out">> \in Seq({"vcodec.in", "vcodec.out"})
      /\ <<"sched.in", "sched.out", "sched.clock">> \in Seq({"sched.in", "sched.out", "sched.clock"})
      /\ <<"vrend.in">> \in Seq({"vrend.in"})
      /\ <<"acodec.in", "acodec.out">> \in Seq({"acodec.in", "acodec.out"})
      /\ <<"arend.in", "arend.clock">> \in Seq({"arend.in", "arend.clock"})
  OBVIOUS
<1>3. c \in {"clock", "vcodec", "sched", "vrend", "acodec", "arend"}
  BY PortSets
<1>4. QED
  BY <1>1, <1>2, <1>3, PortSets

(* How making a component moves the thread.                                *)
LEMMA MakeMoves ==
    ASSUME Types, Places, NEW t \in Threads, MakePart(t) \/ MakeNothing(t) \/ MakeFails(t)
    PROVE  Moves(t)
<1>1. CASE MakeFails(t)
  <2>1. Rests /\ state' = state /\ sent' = sent /\ past \subseteq past' /\ handles' = handles
    BY <1>1 DEF MakeFails, Fault, Crash, Rests, clientVars, componentVars, playerVars, threadVars
  <2>2. QED
    BY <2>1, SameIsQuiet DEF Moves
<1>2. CASE MakeNothing(t)
  <2>1. state' = state /\ sent' = sent /\ past \subseteq past' /\ handles' = handles
    BY <1>2 DEF MakeNothing, NoFault, clientVars, componentVars
  <2>2. Ahead(t)
    BY <1>2, NotWaiting DEF MakeNothing, At, Ahead, Step
  <2>3. QED
    BY <2>1, <2>2, SameIsQuiet DEF Moves
<1>3. CASE MakePart(t)
  <2>1. /\ ~waiting[t] /\ step[t] <= Len(Script(t)) /\ Step(t).op = "make" /\ waiting' = waiting
        /\ Step(t).on # "vcodec" \/ codecKnown
        /\ handles' = handles \cup {Step(t).on} /\ Forward(t, 1) /\ state' = state
    BY <1>3 DEF MakePart, Makes, At, Step
  <2>2. Ahead(t)
    BY <2>1, NotWaiting DEF Ahead
  <2>3. past \subseteq past'
    BY <1>3 DEF MakePart, NoFault, Fault
  <2> DEFINE c == Step(t).on
  <2>4. c \in Parts
    BY <2>1, ThisStep DEF StepKind
  <2>a. PICK what \in {"none", "unread", "unsent"}, bad \in DOMAIN PortsOf[c] :
          LET told == IF what = "none" THEN PortsOf[c] ELSE RemoveAt(PortsOf[c], bad)
          IN  sent' = [sent EXCEPT ![c] = @ \o [i \in DOMAIN told |-> Command("off", told[i])]]
    BY <1>3 DEF MakePart
  <2> DEFINE told == IF what = "none" THEN PortsOf[c] ELSE RemoveAt(PortsOf[c], bad)
  <2>5. sent' = [sent EXCEPT ![c] = @ \o [i \in DOMAIN told |-> Command("off", told[i])]]
    BY <2>a
  <2>b. told \in Seq(ToSet(PortsOf[c]))
    <3>1. PortsOf[c] \in Seq(ToSet(PortsOf[c]))
      BY <2>4, PortsOfIs
    <3>2. RemoveAt(PortsOf[c], bad) \in Seq(ToSet(PortsOf[c]))
      BY <3>1, RemoveIs
    <3>3. QED
      BY <3>1, <3>2
  <2> HIDE DEF told
  <2> DEFINE r == [i \in DOMAIN told |-> Command("off", told[i])]
  <2>6. r \in Seq(AnyCommand) /\ \A i \in 1 .. Len(r) : r[i] \in PortCommands(c)
    BY <2>4, <2>b, OffsAre
  <2>7. sent' = [sent EXCEPT ![c] = sent[c] \o r]
    BY <2>5
  <2> HIDE DEF c, r
  <2>8. sent[c] \in Seq(AnyCommand)
    BY <2>4, Basics
  <2>9. sent[c] \o r \in Seq(AnyCommand) /\ Adds(c, sent[c], sent[c] \o r)
    BY <2>6, <2>8, AddsMany
  <2>10. sent' \in [Parts -> Seq(AnyCommand)] /\ \A d \in Parts : Adds(d, sent[d], sent'[d])
    BY <2>4, <2>7, <2>9, Basics, AddsSame
  <2>11. Quiet
    BY <2>1, <2>3, <2>10 DEF Quiet
  <2>12. QED
    BY <2>2, <2>11 DEF Moves
<1>4. QED
  BY <1>1, <1>2, <1>3

(* What a failure does, for each kind of step.                             *)
LEMMA FailIs ==
    ASSUME NEW t, StepKind(Step(t)), Fail(t)
    PROVE  \/ Step(t).fails = "end" /\ Leave(t, FALSE)
           \/ Step(t).fails = "log" /\ Forward(t, 1)
           \/ Step(t).fails = "skip" /\ Forward(t, 4)
BY DEF Fail, StepKind

(* How setting a parameter moves the thread.                               *)
LEMMA ParamMoves ==
    ASSUME Types, Places, NEW t \in Threads, SetParam(t)
    PROVE  Moves(t)
<1>1. /\ ~waiting[t] /\ step[t] <= Len(Script(t)) /\ Step(t).op = "param" /\ waiting' = waiting
      /\ state' = state /\ sent' = sent /\ past \subseteq past' /\ handles' = handles
  BY DEF SetParam, At, Step, Fault, NoFault, clientVars, componentVars
<1>2. StepKind(Step(t)) /\ Step(t).fails = "end"
  BY <1>1, ThisStep DEF StepKind
<1>3. \/ Step(t).on \in handles /\ Forward(t, 1)
      \/ ("param" \in past' \/ Step(t).on \notin handles) /\ Leave(t, FALSE)
  BY <1>2, FailIs DEF SetParam, Fault
<1>4. Quiet
  BY <1>1, SameIsQuiet
<1>5. Ahead(t) \/ Breaks(t)
  BY <1>1, <1>2, <1>3, NotWaiting DEF Ahead, Breaks
<1>6. QED
  BY <1>4, <1>5 DEF Moves

(* How setting a state moves the thread, or tells the component.           *)
LEMMA SetMoves ==
    ASSUME Types, Places, NEW t \in Threads, SkipSetState(t) \/ SendSetState(t) \/ EndWait(t)
    PROVE  Moves(t) \/ Tells(t)
<1>1. CASE SkipSetState(t)
  <2>1. /\ ~waiting[t] /\ step[t] <= Len(Script(t)) /\ Step(t).op = "set" /\ waiting' = waiting
        /\ state' = state /\ sent' = sent /\ past \subseteq past' /\ handles' = handles
        /\ state[Step(t).on] = Step(t).to /\ Forward(t, 1) /\ (~Stale(Step(t).on) \/ "staleSkip" \in past')
    BY <1>1 DEF SkipSetState, At, Step, clientVars, componentVars
  <2>2. Quiet /\ Ahead(t)
    BY <2>1, SameIsQuiet, NotWaiting DEF Ahead
  <2>3. QED
    BY <2>2 DEF Moves
<1>2. CASE SendSetState(t)
  <2>1. /\ ~waiting[t] /\ step[t] <= Len(Script(t)) /\ Step(t).op = "set" /\ state[Step(t).on] # Step(t).to
        /\ state' = state /\ past \subseteq past' /\ handles' = handles
    BY <1>2 DEF SendSetState, At, Step, Fault, NoFault, clientVars
  <2>2. StepKind(Step(t)) /\ Step(t).fails \in {"end", "log"}
    BY <2>1, ThisStep DEF StepKind
  <2>3. CASE Tells(t)
    BY <2>3
  <2>4. CASE "unsent" \in past' /\ Fail(t) /\ UNCHANGED <<sent, waiting>>
    <3>1. Quiet
      BY <2>1, <2>4, SameIsQuiet
    <3>2. Ahead(t) \/ Breaks(t)
      BY <2>1, <2>2, <2>4, FailIs, NotWaiting DEF Ahead, Breaks
    <3>3. QED
      BY <3>1, <3>2 DEF Moves
  <2>5. QED
    BY <1>2, <2>1, <2>3, <2>4 DEF SendSetState, Tells, Fault, NoFault
<1>3. CASE EndWait(t)
  <2>1. /\ waiting[t] /\ waiting' = [waiting EXCEPT ![t] = FALSE] /\ past \subseteq past'
        /\ state' = state /\ sent' = sent /\ handles' = handles
        /\ \/ state[Step(t).on] = Step(t).to /\ Forward(t, 1)
           \/ "late" \in past' /\ Fail(t)
    BY <1>3 DEF EndWait, Late, Fault, NoFault, clientVars, componentVars
  <2>2. step[t] <= Len(Script(t)) /\ Step(t).op = "set"
    BY <2>1 DEF Places
  <2>3. StepKind(Step(t)) /\ Step(t).fails \in {"end", "log"}
    BY <2>2, ThisStep DEF StepKind
  <2>4. Quiet
    BY <2>1, SameIsQuiet
  <2>5. Ahead(t) \/ Breaks(t)
    BY <2>1, <2>2, <2>3, FailIs DEF Ahead, Breaks
  <2>6. QED
    BY <2>4, <2>5 DEF Moves
<1>4. QED
  BY <1>1, <1>2, <1>3

(* How the steps that name one port move the thread.                       *)
LEMMA PortMoves ==
    ASSUME Types, Places, NEW t \in Threads, EnablePort(t) \/ AllocateBuffer(t) \/ WaitForPortEnable(t)
    PROVE  Moves(t)
<1>1. CASE EnablePort(t)
  <2>1. /\ ~waiting[t] /\ step[t] <= Len(Script(t)) /\ Step(t).op = "port" /\ waiting' = waiting
        /\ state' = state /\ past \subseteq past' /\ handles' = handles
        /\ \/ sent' = Send(Step(t).to, {Step(t).on}) /\ Forward(t, 1)
           \/ "unsent" \in past' /\ Fail(t) /\ sent' = sent
    <3>1. At(t, "port") /\ waiting' = waiting /\ state' = state /\ handles' = handles
      BY <1>1 DEF EnablePort, clientVars
    <3>2. \/ sent' = Send(Step(t).to, {Step(t).on}) /\ Forward(t, 1) /\ NoFault
          \/ Fault("unsent") /\ Fail(t) /\ sent' = sent
      BY <1>1 DEF EnablePort
    <3>3. QED
      BY <3>1, <3>2 DEF At, Step, Fault, NoFault
  <2>2. StepKind(Step(t)) /\ Step(t).fails \in {"end", "log"} /\ Step(t).to \in {"on", "off"} /\ {Step(t).on} \in SUBSET Ports
    <3>1. StepKind(Step(t))
      BY <2>1, ThisStep
    <3>2. Step(t).on \in Ports
      BY <2>1, <3>1 DEF StepKind
    <3>3. QED
      BY <2>1, <3>1, <3>2 DEF StepKind
  <2>3. Quiet
    <3>1. CASE sent' = sent
      BY <2>1, <3>1, SameIsQuiet
    <3>2. CASE sent' = Send(Step(t).to, {Step(t).on})
      BY <2>1, <2>2, <3>2, SendIsQuiet
    <3>3. QED
      BY <2>1, <3>1, <3>2
  <2>4. Ahead(t) \/ Breaks(t)
    BY <2>1, <2>2, FailIs, NotWaiting DEF Ahead, Breaks
  <2>5. QED
    BY <2>3, <2>4 DEF Moves
<1>2. CASE AllocateBuffer(t)
  <2>1. state' = state /\ sent' = sent /\ past \subseteq past' /\ handles' = handles
    BY <1>2 DEF AllocateBuffer, Crash, Fault, NoFault, clientVars, componentVars
  <2>2. Ahead(t) \/ Rests
    BY <1>2, NotWaiting DEF AllocateBuffer, Crash, At, Ahead, Rests, Step
  <2>3. QED
    BY <2>1, <2>2, SameIsQuiet DEF Moves
<1>3. CASE WaitForPortEnable(t)
  <2>1. /\ state' = state /\ sent' = sent /\ past \subseteq past' /\ handles' = handles
        /\ ~waiting[t] /\ step[t] <= Len(Script(t)) /\ Step(t).op = "wait" /\ waiting' = waiting
        /\ Rests \/ Forward(t, 1) \/ ("late" \in past' /\ Fail(t))
    BY <1>3 DEF WaitForPortEnable, Crash, Late, Fault, NoFault, clientVars, componentVars, threadVars, At, Rests, Step
  <2>2. StepKind(Step(t)) /\ Step(t).fails = "end"
    BY <2>1, ThisStep DEF StepKind
  <2>3. Ahead(t) \/ Breaks(t) \/ Rests
    BY <2>1, <2>2, FailIs, NotWaiting DEF Ahead, Breaks
  <2>4. QED
    BY <2>1, <2>3, SameIsQuiet DEF Moves
<1>4. QED
  BY <1>1, <1>2, <1>3

(* How setting up a tunnel moves the thread.                               *)
LEMMA TunnelMoves ==
    ASSUME Types, Places, NEW t \in Threads, SetupTunnel(t)
    PROVE  Moves(t)
<1> DEFINE p == Step(t).on  q == Step(t).to
<1>1. /\ ~waiting[t] /\ step[t] <= Len(Script(t)) /\ Step(t).op = "connect" /\ waiting' = waiting
      /\ state' = state /\ past \subseteq past' /\ handles' = handles
      /\ \/ sent' = Send("on", {p, q}) /\ Forward(t, 1)
         \/ "unsent" \in past' /\ Fail(t) /\ \E asked \in {{}, {p}} : sent' = Send("on", asked)
  BY DEF SetupTunnel, At, Step, Fault, NoFault, clientVars
<1>2. StepKind(Step(t)) /\ p \in Ports /\ q \in Ports /\ Owner(p) # Owner(q)
  BY <1>1, ThisStep DEF StepKind
<1>3. Quiet
  <2>1. PICK ports \in {{}, {p}, {p, q}} : sent' = Send("on", ports)
    BY <1>1
  <2>2. ports \in SUBSET Ports /\ \A x, y \in ports : Owner(x) = Owner(y) => x = y
    BY <1>2
  <2>3. QED
    BY <1>1, <2>1, <2>2, SendIsQuiet
<1>4. Ahead(t) \/ Breaks(t) \/ Over(t)
  BY <1>1, <1>2, FailIs, NotWaiting DEF Ahead, Breaks, Over
<1>5. QED
  BY <1>3, <1>4 DEF Moves

(* How the last steps move the thread.                                     *)
LEMMA EndMoves ==
    ASSUME Types, Places, NEW t \in Threads, SetStartTime(t) \/ Return(t)
    PROVE  Moves(t)
<1>1. CASE SetStartTime(t)
  <2>1. /\ state' = state /\ sent' = sent /\ past \subseteq past' /\ handles' = handles
        /\ ~waiting[t] /\ step[t] <= Len(Script(t)) /\ Step(t).op = "startTime" /\ waiting' = waiting
        /\ Forward(t, 1) \/ ("param" \in past' /\ Fail(t))
    BY <1>1 DEF SetStartTime, Fault, NoFault, clientVars, componentVars, At, Step
  <2>2. StepKind(Step(t)) /\ Step(t).fails = "end"
    BY <2>1, ThisStep DEF StepKind
  <2>3. Ahead(t) \/ Breaks(t)
    BY <2>1, <2>2, FailIs, NotWaiting DEF Ahead, Breaks
  <2>4. QED
    BY <2>1, <2>3, SameIsQuiet DEF Moves
<1>2. CASE Return(t)
  <2>1. state' = state /\ sent' = sent /\ past \subseteq past' /\ handles' = handles
        /\ call[t] # "none" /\ step[t] > Len(Script(t)) /\ Leave(t, TRUE) /\ waiting' = waiting
    BY <1>2 DEF Return, NoFault, clientVars, componentVars
  <2>2. ~waiting[t]
    BY <2>1, Basics DEF Places
  <2>3. QED
    BY <2>1, <2>2, SameIsQuiet DEF Moves, Ends
<1>3. QED
  BY <1>1, <1>2

(* So every step of a thread moves it or tells a component.                *)
LEMMA RunMoves ==
    ASSUME Types, Places, NEW t \in Threads, Run(t)
    PROVE  Moves(t) \/ Tells(t)
BY MakeMoves, ParamMoves, SetMoves, PortMoves, TunnelMoves, EndMoves DEF Run
-----------------------------------------------------------------------------
(* A thread whose call stays has the same script.                          *)
LEMMA SameScript ==
    ASSUME Types, Places, NEW u \in Threads, call'[u] = call[u], content' = content,
           call[u] # "change" \/ first' = first
    PROVE  Script(u)' = Script(u)
<1>1. call[u] \in Calls
  BY Basics
<1>2. CASE call[u] = "none"
  BY <1>2 DEF Script
<1>3. CASE call[u] = "load"
  BY <1>3 DEF Script
<1>4. CASE call[u] = "play"
  BY <1>4 DEF Script
<1>5. CASE call[u] = "resume"
  BY <1>5 DEF Script
<1>6. CASE call[u] = "pause"
  BY <1>6 DEF Script
<1>7. CASE call[u] = "change"
  BY <1>7 DEF Script
<1>8. QED
  BY <1>1, <1>2, <1>3, <1>4, <1>5, <1>6, <1>7 DEF Calls

(* A thread that does not move has done what it had done.                  *)
LEMMA SameThread ==
    ASSUME Types, Places, NEW u \in Threads, call'[u] = call[u], content' = content,
           call[u] # "change" \/ first' = first, step'[u] = step[u]
    PROVE  Script(u)' = Script(u) /\ DoneBy(u)' = DoneBy(u) /\ Step(u)' = Step(u)
<1>1. Script(u)' = Script(u)
  BY SameScript
<1>2. QED
  BY <1>1 DEF DoneBy, Step

(* The steps of load() as a set.                                           *)
LEMMA LoadSet ==
    ASSUME NEW x
    PROVE  x \in ToSet(LoadScript(content)) <=> \E k \in Nat : LoadAt(k, x)
<1>1. LoadLen \in Nat /\ LoadScript(content) \in Seq(AnyStep) /\ Len(LoadScript(content)) = LoadLen
  BY LoadIs DEF LoadLen, VideoLen, AudioLen
<1>2. ASSUME x \in ToSet(LoadScript(content)) PROVE \E k \in Nat : LoadAt(k, x)
  BY <1>1, <1>2, LoadIs DEF ToSet
<1>3. ASSUME NEW k \in Nat, LoadAt(k, x) PROVE x \in ToSet(LoadScript(content))
  <2>1. k \in 1 .. Len(LoadScript(content)) /\ x = LoadScript(content)[k]
    BY <1>1, <1>3, LoadTotal
  <2>2. QED
    BY <1>1, <2>1 DEF ToSet
<1>4. QED
  BY <1>2, <1>3

(* The steps of load() that are done, for each status.                     *)
LEMMA DoneIsBy ==
    ASSUME Types, Places, Order
    PROVE  /\ call["app"] = "load" => Done = DoneBy("app") /\ status = "IDLE"
           /\ status # "IDLE" => Done = ToSet(LoadScript(content))
           /\ Broken => Done = {}
           /\ status = "IDLE" => call["app"] = "load" \/ Broken
           /\ \A x : x \in Done => \E k \in Nat : LoadAt(k, x)
           /\ status # "IDLE" => \A x : x \in Done <=> \E k \in Nat : LoadAt(k, x)
<1>1. call["app"] = "load" => Done = DoneBy("app") /\ status = "IDLE"
  BY DEF Done, Order
<1>2. status # "IDLE" => Done = ToSet(LoadScript(content))
  BY DEF Done
<1>3. Broken => Done = {}
  BY DEF Done, Broken
<1>4. status = "IDLE" => call["app"] = "load" \/ Broken
  BY Basics DEF Order, Broken, Calls
<1>5. ASSUME status # "IDLE", NEW x PROVE x \in Done <=> \E k \in Nat : LoadAt(k, x)
  BY <1>2, <1>5, LoadSet
<1>6. ASSUME call["app"] = "load", NEW x \in Done PROVE \E k \in Nat : LoadAt(k, x)
  <2>1. "app" \in Threads
    BY DEF Threads
  <2>2. PICK k \in 1 .. step["app"] - 1 : StepAt("app", k, x)
    BY <1>1, <1>6, <2>1, Basics, DoneIs
  <2>3. QED
    BY <1>6, <2>1, <2>2, Basics DEF StepAt
<1>7. QED
  BY <1>1, <1>2, <1>3, <1>4, <1>5, <1>6

Unmoved(u) ==
    /\ call'[u] = call[u] /\ step'[u] = step[u] /\ waiting'[u] = waiting[u]
    /\ Script(u)' = Script(u) /\ DoneBy(u)' = DoneBy(u) /\ Step(u)' = Step(u)

(* A thread that goes ahead has one step more behind it.                   *)
LEMMA AheadIs ==
    ASSUME Types, Places, Order, NEW t \in Threads, Ahead(t)
    PROVE  /\ call' = call /\ status' = status /\ content' = content /\ first' = first /\ codecKnown' = codecKnown
           /\ step' = [step EXCEPT ![t] = step[t] + 1] /\ ~waiting'[t] /\ waiting' \in [Threads -> BOOLEAN]
           /\ Script(t)' = Script(t) /\ DoneBy(t)' = DoneBy(t) \cup {Step(t)}
           /\ \A u \in Threads \ {t} : Unmoved(u)
           /\ Done' = IF t = "app" /\ call["app"] = "load" THEN Done \cup {Step(t)} ELSE Done
<1>1. /\ call' = call /\ status' = status /\ content' = content /\ first' = first /\ codecKnown' = codecKnown
      /\ step' = [step EXCEPT ![t] = step[t] + 1] /\ waiting' = [waiting EXCEPT ![t] = FALSE] /\ calls' = calls
      /\ step[t] <= Len(Script(t))
  BY DEF Ahead, Forward, playerVars
<1>2. step[t] \in Nat \ {0} /\ step'[t] = step[t] + 1 /\ ~waiting'[t] /\ waiting' \in [Threads -> BOOLEAN]
      /\ \A u \in Threads \ {t} : step'[u] = step[u] /\ waiting'[u] = waiting[u]
  BY <1>1, Basics
<1>3. Script(t)' = Script(t)
  BY <1>1, SameScript
<1>4. DoneBy(t)' = DoneBy(t) \cup {Step(t)}
  <2>1. DoneBy(t)' = {Script(t)[i] : i \in 1 .. step[t]}
    BY <1>2, <1>3 DEF DoneBy
  <2>2. 1 .. step[t] = (1 .. step[t] - 1) \cup {step[t]}
    BY <1>2
  <2>3. QED
    BY <2>1, <2>2 DEF DoneBy, Step
<1>5. \A u \in Threads \ {t} : Unmoved(u)
  BY <1>1, <1>2, SameThread DEF Unmoved
<1>6. Done' = IF t = "app" /\ call["app"] = "load" THEN Done \cup {Step(t)} ELSE Done
  <2>1. CASE status # "IDLE"
    BY <2>1, <1>1 DEF Done, Order
  <2>2. CASE Broken
    <3>1. Done = {} /\ Done' = {}
      BY <2>2, <1>1 DEF Done, Broken
    <3>2. call["app"] # "load"
      BY <2>2 DEF Broken
    <3>3. QED
      BY <3>1, <3>2
  <2>3. CASE call["app"] = "load"
    <3>1. Done = DoneBy("app") /\ Done' = DoneBy("app")'
      BY <2>3, <1>1 DEF Done, Order
    <3>2. t # "app" => DoneBy("app")' = DoneBy("app")
      BY <1>5 DEF Unmoved, Threads
    <3>3. QED
      BY <2>3, <3>1, <3>2, <1>4
  <2>4. QED
    BY <2>1, <2>2, <2>3, DoneIsBy
<1>7. QED
  BY <1>1, <1>2, <1>3, <1>4, <1>5, <1>6

(* Only the failed audio tunnel steps over others.                         *)
LEMMA OverIs ==
    ASSUME Types, Places, Order, NEW t \in Threads, Over(t)
    PROVE  /\ call' = call /\ status' = status /\ content' = content /\ first' = first /\ codecKnown' = codecKnown
           /\ t = "app" /\ call["app"] = "load"
           /\ step' = [step EXCEPT ![t] = step[t] + 4] /\ step[t] + 4 <= Len(Script(t)) /\ waiting' = waiting
           /\ Script(t)' = Script(t)
           /\ Step(t) = Connect("acodec.out", "arend.in", "skip") /\ ~waiting[t]
           /\ \A u \in Threads \ {t} : Unmoved(u)
           /\ Done' = Done \cup {Step(t), WaitPort("arend.in"), SetState("arend", "idle", "end"), WaitPort("acodec.out")}
           /\ DoneBy(t)' = Done'
<1>1. /\ call' = call /\ status' = status /\ content' = content /\ first' = first /\ codecKnown' = codecKnown
      /\ step' = [step EXCEPT ![t] = step[t] + 4] /\ waiting' = waiting /\ step[t] <= Len(Script(t))
      /\ ~waiting[t] /\ Step(t).fails = "skip"
  BY DEF Over, Forward, playerVars
<1>2. /\ t = "app" /\ call["app"] = "load" /\ StepAt(t, step[t], Step(t)) /\ step[t] \in Nat \ {0}
      /\ step'[t] = step[t] + 4 /\ \A u \in Threads \ {t} : step'[u] = step[u]
  BY <1>1, ThisStep, Basics
<1>3. LoadAt(step[t], Step(t))
  BY <1>2 DEF StepAt
<1>4. /\ Step(t) = Connect("acodec.out", "arend.in", "skip") /\ step[t] + 4 \in 1 .. LoadLen
      /\ LoadAt(step[t] + 1, WaitPort("arend.in")) /\ LoadAt(step[t] + 2, SetState("arend", "idle", "end"))
      /\ LoadAt(step[t] + 3, WaitPort("acodec.out"))
  BY <1>1, <1>2, <1>3, LoadSkips
<1>5. Script(t)' = Script(t) /\ Script(t) = LoadScript(content) /\ Len(Script(t)) = LoadLen
  BY <1>1, <1>2, SameScript, Basics, Scripts, StepIs
<1>6. /\ Script(t)[step[t] + 1] = WaitPort("arend.in") /\ Script(t)[step[t] + 2] = SetState("arend", "idle", "end")
      /\ Script(t)[step[t] + 3] = WaitPort("acodec.out")
  BY <1>2, <1>4, <1>5, LoadTotal
<1>7. DoneBy(t)' = DoneBy(t) \cup {Step(t), WaitPort("arend.in"), SetState("arend", "idle", "end"), WaitPort("acodec.out")}
  <2>1. DoneBy(t)' = {Script(t)[i] : i \in 1 .. step[t] + 3}
    <3>1. step'[t] - 1 = step[t] + 3
      BY <1>2
    <3>2. DoneBy(t)' = {Script(t)[i] : i \in 1 .. step'[t] - 1}
      BY <1>5 DEF DoneBy
    <3>3. QED
      BY <3>1, <3>2
  <2>2. 1 .. step[t] + 3 = (1 .. step[t] - 1) \cup {step[t], step[t] + 1, step[t] + 2, step[t] + 3}
    BY <1>2
  <2>3. QED
    BY <2>1, <2>2, <1>6 DEF DoneBy, Step
<1>8. Done = DoneBy(t) /\ Done' = DoneBy(t)'
  BY <1>1, <1>2 DEF Done, Order
<1>9. \A u \in Threads \ {t} : Unmoved(u)
  BY <1>1, <1>2, SameThread DEF Unmoved
<1>10. step[t] + 4 <= Len(Script(t))
  <2>1. LoadLen \in Nat
    BY DEF LoadLen, VideoLen, AudioLen
  <2>2. QED
    BY <1>4, <1>5, <2>1
<1>11. QED
  BY <1>1, <1>2, <1>4, <1>5, <1>7, <1>8, <1>9, <1>10

Leaves(t) == Ends(t) \/ Breaks(t)

(* What the end of a call leaves, and that a call which came to its end    *)
(* has every step behind it.                                               *)
LEMMA LeaveIs ==
    ASSUME Types, Places, Order, NEW t \in Threads, Leaves(t)
    PROVE  /\ call' = [call EXCEPT ![t] = "none"] /\ step' = [step EXCEPT ![t] = 1] /\ call[t] # "none"
           /\ content' = content /\ codecKnown' = codecKnown
           /\ ~waiting'[t] /\ waiting' \in [Threads -> BOOLEAN] /\ Script(t)' = <<>> /\ DoneBy(t)' = {}
           /\ \A u \in Threads \ {t} : Unmoved(u)
           /\ t = "callback" => status' = status /\ Done' = Done
           /\ t = "app" => first' = first
           /\ call["app"] = "load" /\ t = "app" => (Ends(t) /\ status' = "LOADED" /\ Done' = Done) \/ (Breaks(t) /\ Broken')
           /\ call["app"] # "load" => Done' = Done
           /\ call["app"] = "play" /\ t = "app" => status' = "PLAYING"
           /\ call["app"] = "resume" /\ t = "app" => status' = "PLAYING"
           /\ call["app"] = "pause" /\ t = "app" => (Ends(t) /\ status' = "PAUSED") \/ (Breaks(t) /\ status' = "PLAYING")
           /\ t = "callback" => (Ends(t) /\ first' = FALSE) \/ (Breaks(t) /\ first' = first)
           /\ Ends(t) => \A k \in Nat : \A x : StepAt(t, k, x) => x \in DoneBy(t)
<1>1. PICK done \in BOOLEAN : Leave(t, done) /\ (done => Ends(t)) /\ (~done => Breaks(t))
  BY DEF Leaves, Ends, Breaks
<1>2. call[t] # "none" /\ waiting' = [waiting EXCEPT ![t] = FALSE]
  BY ThisStep, NotWaiting DEF Leaves, Ends, Breaks
<1>3. /\ call' = [call EXCEPT ![t] = "none"] /\ step' = [step EXCEPT ![t] = 1]
      /\ content' = content /\ codecKnown' = codecKnown
      /\ first' = (first /\ ~(call[t] = "change" /\ done))
      /\ status' = CASE call[t] = "load" /\ done -> "LOADED"
                   [] call[t] \in {"play", "resume"} -> "PLAYING"
                   [] call[t] = "pause" /\ done -> "PAUSED"
                   [] OTHER -> status
  BY <1>1 DEF Leave
<1>4. /\ call'[t] = "none" /\ step'[t] = 1 /\ ~waiting'[t] /\ waiting' \in [Threads -> BOOLEAN]
      /\ \A u \in Threads \ {t} : call'[u] = call[u] /\ step'[u] = step[u] /\ waiting'[u] = waiting[u]
  BY <1>2, <1>3, Basics
<1>5. Script(t)' = <<>>
  BY <1>4 DEF Script
<1>6. DoneBy(t)' = {}
  BY <1>4 DEF DoneBy
<1>7. t = "app" => first' = first
  BY <1>3, Basics DEF Types
<1>8. \A u \in Threads \ {t} : Unmoved(u)
  <2>1. SUFFICES ASSUME NEW u \in Threads \ {t} PROVE Unmoved(u)
    OBVIOUS
  <2>2. call[u] # "change" \/ first' = first
    BY <1>7, Basics
  <2>3. QED
    BY <1>3, <1>4, <2>2, SameThread DEF Unmoved
<1>9. t = "callback" => call[t] = "change" /\ status' = status
  BY <1>2, <1>3, Basics
<1>10. ASSUME Ends(t) PROVE \A k \in Nat : \A x : StepAt(t, k, x) => x \in DoneBy(t)
  <2>1. SUFFICES ASSUME NEW k \in Nat, NEW x, StepAt(t, k, x) PROVE x \in DoneBy(t)
    OBVIOUS
  <2>2. step[t] - 1 = Len(Script(t)) /\ Len(Script(t)) \in Nat
    BY <1>10, Basics DEF Ends
  <2>3. k \in 1 .. step[t] - 1
    BY <2>1, <2>2, Basics, StepHas
  <2>4. QED
    BY <2>1, <2>3, Basics, DoneIs
<1>11. call["app"] # "load" => Done' = Done
  <2>1. CASE status # "IDLE"
    <3>1. status' # "IDLE"
      BY <2>1, <1>3, Basics DEF Calls
    <3>2. QED
      BY <2>1, <3>1, <1>3 DEF Done
  <2>2. CASE Broken
    <3>1. call'["app"] = "none" /\ status' = "IDLE"
      BY <2>2, <1>2, <1>4, <1>9, Basics DEF Broken
    <3>2. QED
      BY <2>2, <3>1 DEF Done, Broken
  <2>3. QED
    BY <2>1, <2>2, DoneIsBy
<1>12. call["app"] = "load" /\ t = "callback" => Done' = Done
  BY <1>8, <1>9, Basics DEF Done, Order, Unmoved
<1>13. ASSUME call["app"] = "load", t = "app" PROVE (Ends(t) /\ status' = "LOADED" /\ Done' = Done) \/ (Breaks(t) /\ Broken')
  <2>1. CASE done
    <3>1. Ends(t) /\ status' = "LOADED"
      BY <1>1, <1>3, <1>13, <2>1
    <3>2. Done' = ToSet(LoadScript(content))
      BY <3>1, <1>3 DEF Done
    <3>3. Done = DoneBy(t)
      BY <1>13, DoneIsBy
    <3>4. \A x : x \in DoneBy(t) <=> \E k \in Nat : LoadAt(k, x)
      <4>1. \A x : x \in DoneBy(t) => \E k \in Nat : LoadAt(k, x)
        BY <3>3, DoneIsBy
      <4>2. \A x : \A k \in Nat : LoadAt(k, x) => StepAt(t, k, x)
        BY <1>13 DEF StepAt
      <4>3. QED
        BY <4>1, <4>2, <1>10, <3>1
    <3>5. \A x : x \in Done <=> x \in Done'
      BY <3>2, <3>3, <3>4, LoadSet
    <3>6. QED
      BY <3>1, <3>5
  <2>2. CASE ~done
    BY <1>1, <1>3, <1>4, <1>13, <2>2 DEF Broken, Order
  <2>3. QED
    BY <2>1, <2>2
<1>14. call["app"] = "play" /\ t = "app" => status' = "PLAYING"
  BY <1>3
<1>15. call["app"] = "resume" /\ t = "app" => status' = "PLAYING"
  BY <1>3
<1>16. call["app"] = "pause" /\ t = "app" => (Ends(t) /\ status' = "PAUSED") \/ (Breaks(t) /\ status' = "PLAYING")
  BY <1>1, <1>3 DEF Order
<1>17. t = "callback" => (Ends(t) /\ first' = FALSE) \/ (Breaks(t) /\ first' = first)
  BY <1>1, <1>3, <1>9 DEF Types
<1>18. QED
  BY <1>2, <1>3, <1>4, <1>5, <1>6, <1>7, <1>8, <1>9, <1>10, <1>11, <1>12, <1>13, <1>14, <1>15, <1>16, <1>17

(* Every step is one of these.                                             *)
LEMMA NextMoves ==
    ASSUME Types, Places, Next
    PROVE  \/ \E t \in Threads : Run(t) /\ (Moves(t) \/ Tells(t))
           \/ \E c \in Parts : CarryOut(c) \/ Refuse(c)
           \/ Call \/ PortSettingsChange
BY RunMoves DEF Next

(* What a new call leaves as it is.                                        *)
LEMMA CallIs ==
    ASSUME Types, Places, Order, Call
    PROVE  /\ call["app"] = "none" /\ ~waiting["app"] /\ waiting' = waiting /\ step' = step
           /\ status' = status /\ content' = content /\ first' = first /\ codecKnown' = codecKnown
           /\ DoneBy("app")' = {} /\ Unmoved("callback") /\ Done' = Done /\ status # "IDLE"
           /\ step'["app"] = 1
           /\ \/ status = "LOADED" /\ content = Streams /\ call' = [call EXCEPT !["app"] = "play"]
              \/ status = "PAUSED" /\ call' = [call EXCEPT !["app"] = "resume"]
              \/ status = "PLAYING" /\ call' = [call EXCEPT !["app"] = "pause"]
           /\ state' = state /\ sent' = sent /\ past' = past /\ handles' = handles /\ settings' = settings
           /\ on' = on /\ tunnels' = tunnels /\ agreed' = agreed
<1>1. /\ call["app"] = "none" /\ waiting' = waiting /\ step' = step
      /\ status' = status /\ content' = content /\ first' = first /\ codecKnown' = codecKnown
      /\ \/ status = "LOADED" /\ content = Streams /\ call' = [call EXCEPT !["app"] = "play"]
         \/ status = "PAUSED" /\ call' = [call EXCEPT !["app"] = "resume"]
         \/ status = "PLAYING" /\ call' = [call EXCEPT !["app"] = "pause"]
      /\ state' = state /\ sent' = sent /\ past' = past /\ handles' = handles /\ settings' = settings
      /\ on' = on /\ tunnels' = tunnels /\ agreed' = agreed
  BY DEF Call, Start, NoFault, clientVars, componentVars, tunnelVars
<1>2. "app" \in Threads /\ "callback" \in Threads
  BY DEF Threads
<1>3. step["app"] = 1 /\ ~waiting["app"]
  <2>1. Len(Script("app")) = 0
    BY <1>1, <1>2, Basics, StepIs
  <2>2. QED
    BY <1>2, <2>1, Basics DEF Places
<1>4. DoneBy("app")' = {}
  BY <1>1, <1>3 DEF DoneBy
<1>5. Unmoved("callback")
  <2>1. call'["callback"] = call["callback"]
    BY <1>1, <1>2, Basics
  <2>2. QED
    BY <1>1, <1>2, <2>1, SameThread DEF Unmoved
<1>6. Done' = Done /\ status # "IDLE"
  BY <1>1 DEF Done
<1>7. QED
  BY <1>1, <1>3, <1>4, <1>5, <1>6

(* What a change of the settings leaves as it is.                          *)
LEMMA SettingsIs ==
    ASSUME Types, Places, Order, PortSettingsChange
    PROVE  /\ call["callback"] = "none" /\ ~waiting["callback"] /\ waiting' = waiting /\ step' = step
           /\ status' = status /\ content' = content /\ first' = first /\ codecKnown' = codecKnown
           /\ DoneBy("callback")' = {} /\ Unmoved("app") /\ Done' = Done
           /\ step'["callback"] = 1 /\ settings < MaxChanges /\ settings' = settings + 1
           /\ call' = [call EXCEPT !["callback"] = "change"]
           /\ state["vcodec"] = "executing" /\ agreed' = agreed
           /\ state' = state /\ sent' = sent /\ past' = past /\ handles' = handles
           /\ on' = on /\ tunnels' = tunnels
<1>1. /\ call["callback"] = "none" /\ waiting' = waiting /\ step' = step
      /\ status' = status /\ content' = content /\ first' = first /\ codecKnown' = codecKnown
      /\ settings < MaxChanges /\ settings' = settings + 1
      /\ call' = [call EXCEPT !["callback"] = "change"]
      /\ state["vcodec"] = "executing" /\ agreed' = agreed
      /\ state' = state /\ sent' = sent /\ past' = past /\ handles' = handles
      /\ on' = on /\ tunnels' = tunnels
  BY DEF PortSettingsChange, Start, NoFault, playerVars, clientVars, componentVars
<1>2. "app" \in Threads /\ "callback" \in Threads
  BY DEF Threads
<1>3. step["callback"] = 1 /\ ~waiting["callback"]
  <2>1. Len(Script("callback")) = 0
    BY <1>1, <1>2, Basics, StepIs
  <2>2. QED
    BY <1>2, <2>1, Basics DEF Places
<1>4. DoneBy("callback")' = {}
  BY <1>1, <1>3 DEF DoneBy
<1>5. Unmoved("app")
  <2>1. call'["app"] = call["app"]
    BY <1>1, <1>2, Basics
  <2>2. QED
    BY <1>1, <1>2, <2>1, SameThread DEF Unmoved
<1>6. Done' = Done
  BY <1>1, <1>5 DEF Done, Unmoved
<1>7. QED
  BY <1>1, <1>3, <1>4, <1>5, <1>6

(* Nothing moves when a component does its work, or a thread only waits.   *)
Still ==
    /\ call' = call /\ step' = step /\ status' = status /\ content' = content
    /\ first' = first /\ codecKnown' = codecKnown
    /\ \A u \in Threads : Script(u)' = Script(u) /\ DoneBy(u)' = DoneBy(u) /\ Step(u)' = Step(u)
    /\ Done' = Done

(* When no thread moves, what they have done stays.                        *)
LEMMA StillIs ==
    ASSUME Types, Places, Order, call' = call, step' = step, UNCHANGED playerVars
    PROVE  Still
<1>1. status' = status /\ content' = content /\ first' = first /\ codecKnown' = codecKnown
  BY DEF playerVars
<1>2. \A u \in Threads : Script(u)' = Script(u) /\ DoneBy(u)' = DoneBy(u) /\ Step(u)' = Step(u)
  BY <1>1, SameThread
<1>3. Done' = Done
  BY <1>1, <1>2 DEF Done, Threads
<1>4. QED
  BY <1>1, <1>2, <1>3 DEF Still

(* No thread moves when one rests or a component works.                    *)
LEMMA RestsIs ==
    ASSUME Types, Places, Order,
           \/ Rests \/ \E c \in Parts : CarryOut(c) \/ Refuse(c)
    PROVE  Still /\ waiting' = waiting
<1>1. call' = call /\ step' = step /\ waiting' = waiting /\ UNCHANGED playerVars
  BY DEF Rests, CarryOut, Refuse, threadVars, playerVars
<1>2. QED
  BY <1>1, StillIs

(* Telling a component moves no thread; the one that told it waits.        *)
LEMMA TellsIs ==
    ASSUME Types, Places, Order, NEW t \in Threads, Tells(t)
    PROVE  Still /\ waiting' = [waiting EXCEPT ![t] = TRUE]
<1>1. call' = call /\ step' = step /\ waiting' = [waiting EXCEPT ![t] = TRUE] /\ UNCHANGED playerVars
  BY DEF Tells, playerVars
<1>2. QED
  BY <1>1, StillIs

(* Only the codec changes its settings.                                    *)
LEMMA RunSettings ==
    ASSUME NEW t, Run(t)
    PROVE  settings' = settings
<1>1. CASE MakePart(t) \/ MakeNothing(t) \/ MakeFails(t) \/ SetParam(t) \/ SkipSetState(t) \/ SendSetState(t)
  BY <1>1 DEF MakePart, MakeNothing, MakeFails, Crash, SetParam, SkipSetState, SendSetState, tunnelVars
<1>2. CASE EndWait(t) \/ EnablePort(t) \/ AllocateBuffer(t) \/ WaitForPortEnable(t) \/ SetStartTime(t) \/ Return(t)
  BY <1>2 DEF EndWait, EnablePort, AllocateBuffer, WaitForPortEnable, Crash, SetStartTime, Return, tunnelVars
<1>3. CASE SetupTunnel(t)
  BY <1>3 DEF SetupTunnel
<1>4. QED
  BY <1>1, <1>2, <1>3 DEF Run

PlaceOf(u) ==
    /\ step[u] \in Nat \ {0} /\ step[u] <= Len(Script(u)) + 1
    /\ waiting[u] \in BOOLEAN /\ (waiting[u] => step[u] <= Len(Script(u)) /\ Step(u).op = "set")

(* A thread that does not move keeps its place.                            *)
LEMMA UnmovedPlace ==
    ASSUME Types, Places, NEW u \in Threads, Unmoved(u)
    PROVE  PlaceOf(u)'
<1>1. PlaceOf(u)
  BY Basics DEF Places, PlaceOf
<1>2. QED
  BY <1>1 DEF Unmoved, PlaceOf

Functions ==
    /\ call \in [Threads -> Calls] /\ step \in [Threads -> Nat \ {0}] /\ waiting \in [Threads -> BOOLEAN]
    /\ call["callback"] \in {"none", "change"} /\ call["app"] # "change"
    /\ status \in {"IDLE", "LOADED", "PLAYING", "PAUSED"} /\ content \subseteq Streams /\ content # {}
    /\ codecKnown \in BOOLEAN /\ first \in BOOLEAN

(* Every step keeps the threads within their scripts.                      *)
LEMMA PlacesStep ==
    ASSUME Types, Places, Order, Next
    PROVE  Places' /\ Functions'
<1> "app" \in Threads /\ "callback" \in Threads /\ "app" # "callback"
  BY DEF Threads
<1>1. SUFFICES Functions' /\ \A u \in Threads : PlaceOf(u)'
  BY DEF Places, Functions, PlaceOf
<1>2. Functions
  BY Basics DEF Functions, Types, TypeOK
<1>3. ASSUME NEW t \in Threads, Ahead(t) PROVE Functions' /\ \A u \in Threads : PlaceOf(u)'
  <2>0. step[t] \in Nat \ {0} /\ step' = [step EXCEPT ![t] = step[t] + 1] /\ waiting' \in [Threads -> BOOLEAN]
    BY <1>3, AheadIs, Basics
  <2>1. Functions'
    <3>1. step' \in [Threads -> Nat \ {0}]
      BY <2>0, Basics
    <3>2. QED
      BY <1>2, <1>3, <2>0, <3>1, AheadIs DEF Functions
  <2>2. PlaceOf(t)'
    <3>1. step'[t] = step[t] + 1 /\ step[t] <= Len(Script(t)) /\ Len(Script(t)) \in Nat /\ ~waiting'[t] /\ waiting'[t] \in BOOLEAN
      BY <1>3, <2>0, AheadIs, Basics DEF Ahead
    <3>2. QED
      BY <1>3, <2>0, <3>1, AheadIs DEF PlaceOf
  <2>3. QED
    BY <1>3, <2>1, <2>2, AheadIs, UnmovedPlace
<1>4. ASSUME NEW t \in Threads, Over(t) PROVE Functions' /\ \A u \in Threads : PlaceOf(u)'
  <2>0. step[t] \in Nat \ {0} /\ step' = [step EXCEPT ![t] = step[t] + 4] /\ waiting' \in [Threads -> BOOLEAN]
    BY <1>4, OverIs, Basics
  <2>1. Functions'
    <3>1. step' \in [Threads -> Nat \ {0}]
      BY <2>0, Basics
    <3>2. QED
      BY <1>2, <1>4, <2>0, <3>1, OverIs DEF Functions
  <2>2. PlaceOf(t)'
    <3>1. step'[t] = step[t] + 4 /\ step[t] + 4 <= Len(Script(t)) /\ Len(Script(t)) \in Nat /\ ~waiting'[t] /\ waiting'[t] \in BOOLEAN
      BY <1>4, <2>0, OverIs, Basics
    <3>2. QED
      BY <1>4, <2>0, <3>1, OverIs DEF PlaceOf
  <2>3. QED
    BY <1>4, <2>1, <2>2, OverIs, UnmovedPlace
<1>5. ASSUME NEW t \in Threads, Leaves(t) PROVE Functions' /\ \A u \in Threads : PlaceOf(u)'
  <2>0. /\ call' = [call EXCEPT ![t] = "none"] /\ step' = [step EXCEPT ![t] = 1]
        /\ waiting' \in [Threads -> BOOLEAN] /\ ~waiting'[t] /\ Script(t)' = <<>>
    BY <1>5, LeaveIs
  <2>1. Functions'
    <3>1. /\ call' \in [Threads -> Calls] /\ step' \in [Threads -> Nat \ {0}] /\ waiting' \in [Threads -> BOOLEAN]
          /\ call'["callback"] \in {"none", "change"} /\ call'["app"] # "change"
      BY <1>2, <2>0 DEF Functions, Calls
    <3>2. status' \in {"IDLE", "LOADED", "PLAYING", "PAUSED"} /\ first' \in BOOLEAN
      BY <1>2, <1>5, LeaveIs, Basics DEF Functions, Broken, Calls
    <3>3. QED
      BY <1>2, <1>5, <3>1, <3>2, LeaveIs DEF Functions
  <2>2. PlaceOf(t)'
    <3>1. step'[t] = 1 /\ ~waiting'[t] /\ waiting'[t] \in BOOLEAN /\ Script(t)' = <<>>
      BY <1>2, <2>0 DEF Functions
    <3>2. QED
      BY <3>1 DEF PlaceOf
  <2>3. QED
    BY <1>5, <2>1, <2>2, LeaveIs, UnmovedPlace
<1>6. CASE Call
  <2>1. Functions'
    BY <1>2, <1>6, CallIs, Basics DEF Functions, Calls
  <2>2. PlaceOf("app")'
    <3>1. step'["app"] = 1 /\ ~waiting'["app"] /\ waiting'["app"] \in BOOLEAN /\ call'["app"] \in Calls
      BY <1>6, <2>1, CallIs, Basics DEF Functions
    <3>2. Len(Script("app")') \in Nat
      <4>1. CASE call'["app"] = "play"
        BY <4>1, PlayIs DEF Script
      <4>2. CASE call'["app"] = "resume"
        BY <4>2, ResumeIs DEF Script
      <4>3. CASE call'["app"] = "pause"
        BY <4>3, PauseIs DEF Script
      <4>4. QED
        BY <1>6, <4>1, <4>2, <4>3, CallIs, Basics
    <3>3. QED
      BY <3>1, <3>2 DEF PlaceOf
  <2>3. QED
    BY <1>6, <2>1, <2>2, CallIs, UnmovedPlace DEF Threads
<1>7. CASE PortSettingsChange
  <2>1. Functions'
    BY <1>2, <1>7, SettingsIs, Basics DEF Functions, Calls
  <2>2. PlaceOf("callback")'
    <3>1. step'["callback"] = 1 /\ ~waiting'["callback"] /\ waiting'["callback"] \in BOOLEAN
      BY <1>7, <2>1, SettingsIs, Basics DEF Functions
    <3>2. call'["callback"] = "change" /\ first' = first
      BY <1>7, SettingsIs, Basics
    <3>3. Script("callback")' = PortChangeScript(first)
      BY <3>2 DEF Script
    <3>4. Len(Script("callback")') \in Nat
      BY <3>3, ChangeIs
    <3>5. QED
      BY <3>1, <3>4 DEF PlaceOf
  <2>3. QED
    BY <1>7, <2>1, <2>2, SettingsIs, UnmovedPlace DEF Threads
<1>8. ASSUME Still, waiting' = waiting PROVE Functions' /\ \A u \in Threads : PlaceOf(u)'
  <2>1. Functions'
    BY <1>2, <1>8 DEF Functions, Still
  <2>2. \A u \in Threads : PlaceOf(u)'
    BY <1>8, UnmovedPlace DEF Unmoved, Still
  <2>3. QED
    BY <2>1, <2>2
<1>9. ASSUME NEW t \in Threads, Tells(t) PROVE Functions' /\ \A u \in Threads : PlaceOf(u)'
  <2>1. Still /\ waiting' = [waiting EXCEPT ![t] = TRUE] /\ step[t] <= Len(Script(t)) /\ Step(t).op = "set"
    BY <1>9, TellsIs DEF Tells
  <2>2. Functions'
    BY <1>2, <2>1 DEF Functions, Still
  <2>3. PlaceOf(t)'
    BY <2>1, Basics DEF Still, PlaceOf
  <2>4. \A u \in Threads \ {t} : PlaceOf(u)'
    BY <2>1, Basics, UnmovedPlace DEF Unmoved, Still
  <2>5. QED
    BY <2>2, <2>3, <2>4
<1>10. QED
  BY <1>3, <1>4, <1>5, <1>6, <1>7, <1>8, <1>9, NextMoves, RestsIs DEF Moves, Leaves

Evolves ==
    /\ Playing => Playing'
    /\ Playing' => Playing \/ (Call /\ status = "LOADED")
    /\ Broken => Broken'
    /\ content' = content /\ codecKnown' = codecKnown
    /\ status' \notin {"PLAYING", "PAUSED"} => status \notin {"PLAYING", "PAUSED"}
    /\ Order' \/ PortSettingsChange

(* Once it plays it plays, and what broke stays broken.                    *)
LEMMA PlayingStep ==
    ASSUME Types, Places, Order, Next
    PROVE  /\ Playing => Playing'
           /\ Playing' => Playing \/ (Call /\ status = "LOADED")
           /\ Broken => Broken'
           /\ content' = content /\ codecKnown' = codecKnown
           /\ status' \notin {"PLAYING", "PAUSED"} => status \notin {"PLAYING", "PAUSED"}
           /\ Order' \/ PortSettingsChange
<1> "app" \in Threads /\ "callback" \in Threads /\ "app" # "callback"
  BY DEF Threads
<1>1. ASSUME call' = call, status' = status, content' = content, first' = first, codecKnown' = codecKnown,
             settings' = settings
      PROVE  Evolves
  BY <1>1 DEF Evolves, Playing, Broken, Order
<1>2. ASSUME NEW t \in Threads, Leaves(t), settings' = settings PROVE Evolves
  <2>1. /\ call' = [call EXCEPT ![t] = "none"] /\ call[t] # "none" /\ content' = content /\ codecKnown' = codecKnown
        /\ t = "callback" => status' = status /\ call[t] = "change"
        /\ t = "app" => first' = first
        /\ call["app"] = "load" /\ t = "app" => status' = "LOADED" \/ status' = "IDLE"
        /\ call["app"] = "play" /\ t = "app" => status' = "PLAYING"
        /\ call["app"] = "resume" /\ t = "app" => status' = "PLAYING"
        /\ call["app"] = "pause" /\ t = "app" => status' = "PAUSED" \/ status' = "PLAYING"
    BY <1>2, LeaveIs, Basics DEF Broken
  <2>2. CASE t = "callback"
    <3>1. call'["app"] = call["app"] /\ call'["callback"] = "none"
      BY <2>1, <2>2, Basics
    <3>2. Playing
      BY <2>1, <2>2 DEF Order
    <3>3. QED
      BY <1>2, <2>1, <2>2, <3>1, <3>2 DEF Evolves, Playing, Broken, Order
  <2>3. CASE t = "app"
    <3>1. call'["app"] = "none" /\ call'["callback"] = call["callback"]
          /\ call["app"] \in {"load", "play", "resume", "pause"}
      BY <2>1, <2>3, Basics DEF Calls
    <3>2. Playing <=> Playing'
      BY <2>1, <2>3, <3>1 DEF Playing, Order
    <3>3. QED
      BY <1>2, <2>1, <2>3, <3>1, <3>2 DEF Evolves, Playing, Broken, Order
  <2>4. QED
    BY <2>2, <2>3 DEF Threads
<1>3. ASSUME Call PROVE Evolves
  <2>1. call'["callback"] = call["callback"] /\ call'["app"] \in {"play", "resume", "pause"}
        /\ call["app"] = "none" /\ status # "IDLE" /\ status' = status /\ content' = content /\ first' = first
        /\ codecKnown' = codecKnown /\ settings' = settings
        /\ \/ status = "LOADED" /\ content = Streams /\ call'["app"] = "play"
           \/ status = "PAUSED" /\ call'["app"] = "resume"
           \/ status = "PLAYING" /\ call'["app"] = "pause"
    BY <1>3, CallIs, Basics
  <2>2. QED
    BY <1>3, <2>1 DEF Evolves, Playing, Broken, Order
<1>4. ASSUME PortSettingsChange PROVE Evolves
  <2>1. call'["app"] = call["app"] /\ status' = status /\ content' = content /\ codecKnown' = codecKnown
    BY <1>4, SettingsIs, Basics
  <2>2. QED
    BY <1>4, <2>1 DEF Evolves, Playing, Broken
<1>5. ASSUME NEW t \in Threads, Run(t), Moves(t) \/ Tells(t) PROVE Evolves
  <2>1. settings' = settings
    BY <1>5, RunSettings
  <2>2. QED
    BY <1>1, <1>2, <1>5, <2>1, AheadIs, OverIs, RestsIs, TellsIs DEF Moves, Leaves, Still
<1>6. ASSUME NEW c \in Parts, CarryOut(c) \/ Refuse(c) PROVE Evolves
  <2>1. settings' = settings
    BY <1>6 DEF CarryOut, Refuse, tunnelVars
  <2>2. QED
    BY <1>1, <1>6, <2>1, RestsIs DEF Still
<1>7. Evolves
  BY <1>3, <1>4, <1>5, <1>6, NextMoves
<1>8. QED
  BY <1>7 DEF Evolves

(* Every step keeps the order of calls and statuses: the codec that is not *)
(* yet executing cannot change its settings.                               *)
LEMMA OrderStep ==
    ASSUME Types, Places, Order, NotYet, Next
    PROVE  Order'
<1>1. CASE PortSettingsChange
  <2>1. Playing
    BY <1>1, SettingsIs DEF NotYet
  <2>2. call'["app"] = call["app"] /\ status' = status /\ content' = content
    BY <1>1, SettingsIs, Basics DEF Threads
  <2>3. QED
    BY <2>1, <2>2 DEF Order, Playing
<1>2. QED
  BY <1>1, PlayingStep
-----------------------------------------------------------------------------
(* What happens to the commands and the states.                            *)
LEMMA TellsSent ==
    ASSUME Types, Places, NEW t \in Threads, Tells(t)
    PROVE  /\ Step(t).on \in Parts /\ Step(t).to \in {"idle", "executing", "pause"}
           /\ StepAt(t, step[t], Step(t)) /\ Step(t).op = "set" /\ state[Step(t).on] # Step(t).to
           /\ state' = state /\ past' = past /\ ~waiting[t]
           /\ sent'[Step(t).on] = Append(sent[Step(t).on], Command("state", Step(t).to))
           /\ \A c \in Parts \ {Step(t).on} : sent'[c] = sent[c]
           /\ sent' \in [Parts -> Seq(AnyCommand)]
<1>1. /\ ~waiting[t] /\ step[t] <= Len(Script(t)) /\ Step(t).op = "set"
      /\ state[Step(t).on] # Step(t).to /\ state' = state /\ past' = past
      /\ sent' = [sent EXCEPT ![Step(t).on] = Append(sent[Step(t).on], Command("state", Step(t).to))]
  BY DEF Tells
<1>2. /\ Step(t).on \in Parts /\ Step(t).to \in {"idle", "executing", "pause"} /\ StepAt(t, step[t], Step(t))
  BY <1>1, ThisStep DEF StepKind
<1>3. Command("state", Step(t).to) \in AnyCommand
  BY <1>2 DEF Command, AnyCommand
<1>4. sent[Step(t).on] \in Seq(AnyCommand)
  BY <1>2, Basics
<1>5. Append(sent[Step(t).on], Command("state", Step(t).to)) \in Seq(AnyCommand)
  BY <1>3, <1>4
<1>6. QED
  BY <1>1, <1>2, <1>5, Basics

Works(c) == CarryOut(c) \/ Refuse(c)

(* What a component does with the first command on its way.                *)
LEMMA WorksIs ==
    ASSUME Types, Places, NEW c \in Parts, Works(c)
    PROVE  /\ sent[c] # <<>> /\ sent'[c] = Tail(sent[c]) /\ \A d \in Parts \ {c} : sent'[d] = sent[d] /\ state'[d] = state[d]
           /\ sent' \in [Parts -> Seq(AnyCommand)] /\ state' \in [Parts -> {"loaded", "idle", "executing", "pause"}]
           /\ sent[c][1] \in CommandsOf(c) /\ 1 \in 1 .. Len(sent[c])
           /\ \/ state'[c] = state[c] /\ (sent[c][1].kind = "state" => Refuse(c) \/ ~Allowed(c, sent[c][1].arg))
              \/ CarryOut(c) /\ sent[c][1].kind = "state" /\ state'[c] = sent[c][1].arg /\ Allowed(c, sent[c][1].arg)
           /\ past \subseteq past' /\ (Refuse(c) => "refused" \in past') /\ (CarryOut(c) => past' = past)
           /\ handles' = handles /\ tunnels' = tunnels /\ settings' = settings /\ agreed' = agreed
<1>1. /\ sent[c] # <<>> /\ sent' = [sent EXCEPT ![c] = Tail(sent[c])]
      /\ handles' = handles /\ tunnels' = tunnels /\ settings' = settings /\ agreed' = agreed
      /\ past \subseteq past' /\ (Refuse(c) => "refused" \in past') /\ (CarryOut(c) => past' = past)
  BY DEF Works, CarryOut, Refuse, tunnelVars, clientVars, Fault, NoFault
<1>2. sent[c] \in Seq(AnyCommand) /\ Tail(sent[c]) \in Seq(AnyCommand) /\ Head(sent[c]) = sent[c][1] /\ 1 \in 1 .. Len(sent[c])
  BY <1>1, Basics, TailKeeps
<1>3. sent[c][1] \in CommandsOf(c)
  BY <1>2 DEF Types
<1>4. sent' \in [Parts -> Seq(AnyCommand)] /\ sent'[c] = Tail(sent[c]) /\ \A d \in Parts \ {c} : sent'[d] = sent[d]
  BY <1>1, <1>2, Basics
<1>5. \/ state' = state /\ (sent[c][1].kind = "state" => Refuse(c) \/ ~Allowed(c, sent[c][1].arg))
      \/ CarryOut(c) /\ sent[c][1].kind = "state" /\ state' = [state EXCEPT ![c] = sent[c][1].arg] /\ Allowed(c, sent[c][1].arg)
  BY <1>2 DEF Works, CarryOut, Refuse
<1>6. sent[c][1].kind = "state" => sent[c][1].arg \in {"idle", "executing", "pause"}
  BY <1>3 DEF CommandsOf, PortCommands, Command
<1>7. state' \in [Parts -> {"loaded", "idle", "executing", "pause"}] /\ \A d \in Parts \ {c} : state'[d] = state[d]
  BY <1>5, <1>6, Basics
<1>8. \/ state'[c] = state[c] /\ (sent[c][1].kind = "state" => Refuse(c) \/ ~Allowed(c, sent[c][1].arg))
      \/ CarryOut(c) /\ sent[c][1].kind = "state" /\ state'[c] = sent[c][1].arg /\ Allowed(c, sent[c][1].arg)
  BY <1>5, Basics
<1>9. QED
  BY <1>1, <1>2, <1>3, <1>4, <1>7, <1>8
-----------------------------------------------------------------------------
(* The kinds of step there are.                                            *)
Strides(t) == Run(t) /\ Quiet /\ (Ahead(t) \/ Over(t) \/ Leaves(t) \/ Rests)

(* The kinds of steps that the following tells apart.                      *)
LEMMA Kinds ==
    ASSUME Types, Places, Order, Next
    PROVE  \/ \E t \in Threads : Strides(t) \/ (Run(t) /\ Tells(t))
           \/ \E c \in Parts : Works(c)
           \/ Call /\ Quiet
           \/ PortSettingsChange /\ Quiet
<1>1. ASSUME Call PROVE Quiet
  <2>1. state' = state /\ sent' = sent /\ past \subseteq past' /\ handles' = handles
    BY <1>1, CallIs
  <2>2. QED
    BY <2>1, SameIsQuiet
<1>2. ASSUME PortSettingsChange PROVE Quiet
  <2>1. state' = state /\ sent' = sent /\ past \subseteq past' /\ handles' = handles
    BY <1>2, SettingsIs
  <2>2. QED
    BY <2>1, SameIsQuiet
<1>3. QED
  BY <1>1, <1>2, NextMoves DEF Works, Moves, Strides, Leaves

(* A quiet step keeps every state and adds no change of one.               *)
LEMMA QuietIs ==
    ASSUME Types, Places, Quiet, NEW c \in Parts
    PROVE  /\ state'[c] = state[c] /\ sent'[c] \in Seq(AnyCommand)
           /\ Adds(c, sent[c], sent'[c])
           /\ Calm(sent[c]) => Calm(sent'[c])
           /\ \A S : Only(sent[c], S) => Only(sent'[c], S)
           /\ AtMostOne(sent[c]) => AtMostOne(sent'[c])
           /\ PausesLast(sent[c]) => PausesLast(sent'[c])
           /\ PausesFirst(sent[c]) => PausesFirst(sent'[c])
<1>1. sent[c] \in Seq(AnyCommand) /\ sent'[c] \in Seq(AnyCommand) /\ Adds(c, sent[c], sent'[c]) /\ state'[c] = state[c]
  BY Basics DEF Quiet
<1>2. QED
  BY <1>1, QuietKeeps

(* What telling a component a state adds to what is on its way.            *)
LEMMA TellsTo ==
    ASSUME Types, Places, NEW t \in Threads, Tells(t), NEW c, c = Step(t).on
    PROVE  /\ \A S : Step(t).to \in S /\ Only(sent[c], S) => Only(sent'[c], S)
           /\ Calm(sent[c]) => AtMostOne(sent'[c]) /\ Only(sent'[c], {Step(t).to})
           /\ Step(t).to = "pause" /\ PausesLast(sent[c]) => PausesLast(sent'[c])
           /\ Step(t).to # "pause" /\ PausesFirst(sent[c]) => PausesFirst(sent'[c])
<1>1. c \in Parts /\ Step(t).to \in {"idle", "executing", "pause"} /\ sent'[c] = Append(sent[c], Command("state", Step(t).to))
  BY TellsSent
<1>2. sent[c] \in Seq(AnyCommand)
  BY <1>1, Basics
<1> DEFINE s == Step(t).to
<1>3. s \in {"idle", "executing", "pause"}
  BY <1>1
<1> HIDE DEF s
<1>4. LET r == Append(sent[c], Command("state", s)) IN
           /\ \A S : s \in S /\ Only(sent[c], S) => Only(r, S)
           /\ Calm(sent[c]) => AtMostOne(r) /\ Only(r, {s})
           /\ s = "pause" /\ PausesLast(sent[c]) => PausesLast(r)
           /\ s # "pause" /\ PausesFirst(sent[c]) => PausesFirst(r)
  BY <1>2, <1>3, TellKeeps
<1>5. QED
  BY <1>1, <1>4 DEF s

(* What a command that is carried out takes from it.                       *)
LEMMA WorksOn ==
    ASSUME Types, Places, NEW c \in Parts, Works(c)
    PROVE  /\ Calm(sent[c]) => Calm(sent'[c]) /\ state'[c] = state[c]
           /\ \A S : Only(sent[c], S) => Only(sent'[c], S) /\ state'[c] \in S \cup {state[c]}
           /\ AtMostOne(sent[c]) => AtMostOne(sent'[c]) /\ (Calm(sent'[c]) \/ state'[c] = state[c])
           /\ AtMostOne(sent[c]) /\ sent[c][1].kind = "state" => Calm(sent'[c])
           /\ sent[c][1].kind # "state" => state'[c] = state[c]
           /\ PausesLast(sent[c]) =>
                /\ PausesLast(sent'[c])
                /\ state'[c] # state[c] /\ state'[c] = "pause" => Only(sent'[c], {"pause"})
           /\ PausesFirst(sent[c]) =>
                /\ PausesFirst(sent'[c])
                /\ state'[c] # state[c] /\ state'[c] # "pause" => PausesLast(sent'[c])
<1> DEFINE q == sent[c]
<1>1. q \in Seq(AnyCommand) /\ q # <<>> /\ sent'[c] = Tail(q)
  BY WorksIs, Basics
<1>2. \/ state'[c] = state[c]
      \/ q[1].kind = "state" /\ state'[c] = q[1].arg
  BY WorksIs
<1> HIDE DEF q
<1>3. Calm(q) => Calm(Tail(q)) /\ q[1].kind # "state"
  BY <1>1, TailKeeps
<1>4. \A S : Only(q, S) => Only(Tail(q), S) /\ (q[1].kind = "state" => q[1].arg \in S)
  BY <1>1, TailKeeps
<1>5. AtMostOne(q) => AtMostOne(Tail(q)) /\ (q[1].kind = "state" => Calm(Tail(q)))
  BY <1>1, TailKeeps
<1>6. PausesLast(q) => /\ PausesLast(Tail(q))
                       /\ q[1].kind = "state" /\ q[1].arg = "pause" => Only(Tail(q), {"pause"})
  BY <1>1, TailKeeps
<1>7. PausesFirst(q) => /\ PausesFirst(Tail(q))
                        /\ q[1].kind = "state" /\ q[1].arg # "pause" => PausesLast(Tail(q))
  BY <1>1, TailKeeps
<1>9. \A S : Only(q, S) => Only(Tail(q), S) /\ state'[c] \in S \cup {state[c]}
  BY <1>2, <1>4
<1>8. QED
  BY <1>1, <1>2, <1>3, <1>9, <1>5, <1>6, <1>7 DEF q

(* The step of a thread that tells a component to change its state.        *)
LEMMA TellsWhich ==
    ASSUME Types, Places, Order, NEW t \in Threads, Tells(t)
    PROVE  /\ t = "callback" => Playing /\ Step(t) = SetState("vrend", "executing", "log") /\ first
           /\ t = "app" => call[t] \in {"load", "play", "resume", "pause"}
           /\ t = "app" /\ call[t] = "load" => LoadAt(step[t], Step(t)) /\ ~Playing /\ status = "IDLE"
           /\ t = "app" /\ call[t] \in {"play", "resume"} => Step(t).to = "executing" /\ Playing
           /\ t = "app" /\ call[t] = "pause" => Step(t).to = "pause" /\ Step(t).on # "vrend" /\ Playing
           /\ Step(t).to = "pause" => t = "app" /\ call[t] = "pause" /\ status = "PLAYING"
<1>1. StepAt(t, step[t], Step(t)) /\ Step(t).op = "set"
  BY TellsSent
<1>2. t = "callback" => call[t] = "change" /\ Playing
  <2>1. t = "callback" => call[t] \in {"none", "change"} 
    BY Basics
  <2>2. t = "callback" => call[t] = "change"
    BY <1>1, <2>1 DEF StepAt
  <2>3. QED
    BY <2>2 DEF Order
<1>3. t = "app" => call[t] \in {"load", "play", "resume", "pause"}
  BY <1>1, Basics DEF StepAt, Calls
<1>4. t = "callback" => Step(t) = SetState("vrend", "executing", "log") /\ first
  BY <1>1, <1>2 DEF StepAt, ChangeAt, Disable, Param, Connect
<1>5. t = "app" /\ call[t] = "load" => LoadAt(step[t], Step(t)) /\ ~Playing /\ status = "IDLE"
  BY <1>1 DEF StepAt, Playing, Order
<1>6. t = "app" /\ call[t] \in {"play", "resume"} => Step(t).to = "executing" /\ Playing
  BY <1>1 DEF StepAt, PlayAt, ResumeAt, SetState, Param, Playing, Order
<1>7. t = "app" /\ call[t] = "pause" => Step(t).to = "pause" /\ Step(t).on # "vrend" /\ Playing /\ status = "PLAYING"
  BY <1>1 DEF StepAt, PauseAt, SetState, Param, Playing, Order
<1>8. t = "app" /\ call[t] = "load" => Step(t).to # "pause"
  BY <1>1, <1>5, SetsAt, Basics DEF SetState
<1>9. t \in {"app", "callback"}
  BY DEF Threads
<1>10. QED
  BY <1>2, <1>3, <1>4, <1>5, <1>6, <1>7, <1>8, <1>9 DEF SetState

(* No component runs before play(), none pauses before pause().            *)
LEMMA NotYetStep ==
    ASSUME Types, Places, Order, NotYet, Next
    PROVE  NotYet'
<1>0. /\ ~Playing' => ~Playing
      /\ status' \notin {"PLAYING", "PAUSED"} => status \notin {"PLAYING", "PAUSED"}
      /\ \A c \in {"vcodec", "sched", "vrend"} : c \in Parts
  BY PlayingStep, PortSets DEF Evolves
<1>1. ASSUME Quiet PROVE NotYet'
  BY <1>0, <1>1, QuietIs DEF NotYet
<1>2. ASSUME NEW t \in Threads, Tells(t) PROVE NotYet'
  <2>1. state' = state /\ Step(t).on \in Parts /\ \A c \in Parts \ {Step(t).on} : sent'[c] = sent[c]
    BY <1>2, TellsSent
  <2>2. \A S : Step(t).to \in S /\ Only(sent[Step(t).on], S) => Only(sent'[Step(t).on], S)
    BY <1>2, TellsTo
  <2>3. ~Playing /\ Step(t).on \in {"vcodec", "sched", "vrend"} => Step(t).to = "idle"
    <3>1. ~Playing => LoadAt(step[t], Step(t)) /\ Step(t).op = "set" /\ step[t] \in Nat
      BY <1>2, TellsWhich, TellsSent, Basics
    <3>2. QED
      BY <3>1, SetsAt DEF SetState
  <2>4. Step(t).to \in {"idle", "executing", "pause"} /\ (Step(t).to = "pause" => status = "PLAYING")
    BY <1>2, TellsWhich, TellsSent
  <2>5. ASSUME ~Playing, NEW c \in {"vcodec", "sched", "vrend"}
        PROVE  state'[c] \in {"loaded", "idle"} /\ Only(sent'[c], {"idle"})
    BY <1>0, <2>1, <2>2, <2>3, <2>5 DEF NotYet
  <2>6. ASSUME status \notin {"PLAYING", "PAUSED"}, NEW c \in Parts
        PROVE  state'[c] # "pause" /\ Only(sent'[c], {"idle", "executing"})
    BY <1>0, <2>1, <2>2, <2>4, <2>6 DEF NotYet
  <2>7. QED
    BY <1>0, <2>5, <2>6 DEF NotYet
<1>3. ASSUME NEW d \in Parts, Works(d) PROVE NotYet'
  <2>1. \A c \in Parts \ {d} : sent'[c] = sent[c] /\ state'[c] = state[c]
    BY <1>3, WorksIs
  <2>2. \A S : Only(sent[d], S) => Only(sent'[d], S) /\ state'[d] \in S \cup {state[d]}
    BY <1>3, WorksOn
  <2>5. ASSUME ~Playing, NEW c \in {"vcodec", "sched", "vrend"}
        PROVE  state'[c] \in {"loaded", "idle"} /\ Only(sent'[c], {"idle"})
    BY <1>0, <2>1, <2>2, <2>5 DEF NotYet
  <2>6. ASSUME status \notin {"PLAYING", "PAUSED"}, NEW c \in Parts
        PROVE  state'[c] # "pause" /\ Only(sent'[c], {"idle", "executing"})
    BY <1>0, <2>1, <2>2, <2>6 DEF NotYet
  <2>7. QED
    BY <1>0, <2>5, <2>6 DEF NotYet
<1>4. QED
  BY <1>1, <1>2, <1>3, Kinds DEF Strides
-----------------------------------------------------------------------------
ClientTypes ==
    /\ on \subseteq Ports /\ known \subseteq Ports /\ enabled \subseteq known
    /\ handles \subseteq Parts /\ tunnels \subseteq AllJoins /\ past \subseteq Faults

(* A step of a thread keeps the types of what the client notes.            *)
LEMMA RunClient ==
    ASSUME Types, Places, NEW t \in Threads, Run(t)
    PROVE  ClientTypes' /\ agreed' \in {agreed, settings}
<1>1. ClientTypes
  BY DEF Types, TypeOK, ClientTypes, AllJoins
<1>2. CASE MakePart(t)
  <2>1. Step(t).on \in Parts
    BY <1>2, ThisStep DEF MakePart, Makes, At, Step, StepKind
  <2>2. ToSet(PortsOf[Step(t).on]) \subseteq Ports
    BY <2>1 DEF Ports
  <2>3. /\ handles' = handles \cup {Step(t).on} /\ on' = on \cup ToSet(PortsOf[Step(t).on])
        /\ known' \subseteq known \cup ToSet(PortsOf[Step(t).on]) /\ known \subseteq known'
        /\ past' \subseteq past \cup {"unread", "unsent"}
        /\ enabled' = enabled /\ tunnels' = tunnels /\ agreed' = agreed
    BY <1>2 DEF MakePart, NoFault, Fault, tunnelVars
  <2>4. QED
    BY <1>1, <2>1, <2>2, <2>3 DEF ClientTypes, Faults
<1>3. CASE MakeNothing(t) \/ MakeFails(t) \/ SetParam(t) \/ AllocateBuffer(t) \/ WaitForPortEnable(t) \/ Return(t) \/ SetStartTime(t)
  <2>1. /\ handles' = handles /\ on' = on /\ known' = known /\ enabled' = enabled /\ tunnels' = tunnels /\ agreed' = agreed
    BY <1>3 DEF MakeNothing, MakeFails, SetParam, AllocateBuffer, WaitForPortEnable, Return,
       SetStartTime, Crash, clientVars, componentVars, tunnelVars
  <2>2. past' \subseteq past \cup Faults
    BY <1>3 DEF MakeNothing, MakeFails, SetParam, AllocateBuffer, WaitForPortEnable, Return, SetStartTime, Late, NoFault, Fault, Faults
  <2>3. QED
    BY <1>1, <2>1, <2>2 DEF ClientTypes
<1>4. CASE SkipSetState(t) \/ SendSetState(t) \/ EndWait(t) \/ EnablePort(t)
  <2>1. /\ handles' = handles /\ on' = on /\ known' = known /\ enabled' = enabled /\ tunnels' = tunnels /\ agreed' = agreed
    BY <1>4 DEF SkipSetState, SendSetState, EndWait, EnablePort, clientVars, componentVars, tunnelVars
  <2>2. past' \subseteq past \cup Faults
    BY <1>4 DEF SkipSetState, SendSetState, EndWait, EnablePort, Late, NoFault, Fault, Faults
  <2>3. QED
    BY <1>1, <2>1, <2>2 DEF ClientTypes
<1>5. CASE SetupTunnel(t)
  <2>1. step[t] <= Len(Script(t)) /\ Step(t).op = "connect"
    BY <1>5 DEF SetupTunnel, At, Step
  <2>2. <<Step(t).on, Step(t).to>> \in AllJoins
    BY <2>1, ThisStep DEF StepKind
  <2>3. /\ handles' = handles /\ on' = on /\ known' = known /\ enabled' = enabled
        /\ tunnels' = tunnels \/ tunnels' = tunnels \cup {<<Step(t).on, Step(t).to>>}
        /\ agreed' \in {agreed, settings}
    BY <1>5 DEF SetupTunnel, clientVars
  <2>4. past' \subseteq past \cup Faults
    BY <1>5 DEF SetupTunnel, NoFault, Fault, Faults
  <2>5. QED
    BY <1>1, <2>2, <2>3, <2>4 DEF ClientTypes
<1>6. QED
  BY <1>2, <1>3, <1>4, <1>5 DEF Run

(* Every step keeps the types.                                             *)
LEMMA TypesStep ==
    ASSUME Types, Places, Order, Next
    PROVE  Types'
<1>1. ClientTypes /\ settings \in 0 .. MaxChanges /\ agreed \in Nat /\ agreed <= settings
  BY DEF Types, TypeOK, ClientTypes, AllJoins
<1>2. Functions'
  BY PlacesStep
<1>3. ClientTypes' /\ settings' \in 0 .. MaxChanges /\ agreed' \in Nat /\ agreed' <= settings'
  <2>1. ASSUME NEW t \in Threads, Run(t) PROVE ClientTypes' /\ settings' \in 0 .. MaxChanges /\ agreed' \in Nat /\ agreed' <= settings'
    <3>1. ClientTypes' /\ agreed' \in {agreed, settings} /\ settings' = settings
      BY <2>1, RunClient, RunSettings
    <3>2. QED
      BY <1>1, <3>1
  <2>2. ASSUME NEW c \in Parts, Works(c) PROVE ClientTypes' /\ settings' \in 0 .. MaxChanges /\ agreed' \in Nat /\ agreed' <= settings'
    <3>1. handles' = handles /\ known' = known /\ tunnels' = tunnels /\ agreed' = agreed /\ settings' = settings
      BY <2>2 DEF Works, CarryOut, Refuse, clientVars, tunnelVars
    <3>2. past' \subseteq past \cup Faults
      BY <2>2 DEF Works, CarryOut, Refuse, NoFault, Fault, Faults
    <3>3. sent[c][1] = Head(sent[c]) /\ sent[c][1] \in CommandsOf(c)
      BY <2>2, WorksIs, Basics, TailKeeps
    <3>4. Head(sent[c]).kind \in {"on", "off"} => Head(sent[c]).arg \in Ports
      BY <3>3 DEF CommandsOf, PortCommands, Command, Ports
    <3>5. Head(sent[c]).kind \in {"on", "off", "state"}
      BY <3>3 DEF CommandsOf, PortCommands, Command
    <3>6. on' \subseteq Ports /\ enabled' \subseteq known
      BY <1>1, <2>2, <3>4, <3>5 DEF Works, CarryOut, Refuse, clientVars, ClientTypes
    <3>7. QED
      BY <1>1, <3>1, <3>2, <3>6 DEF ClientTypes
  <2>3. ASSUME Call PROVE ClientTypes' /\ settings' \in 0 .. MaxChanges /\ agreed' \in Nat /\ agreed' <= settings'
    <3>1. UNCHANGED <<handles, on, known, enabled, tunnels, agreed, settings, past>>
      BY <2>3 DEF Call, NoFault, clientVars, componentVars, tunnelVars
    <3>2. QED
      BY <1>1, <3>1 DEF ClientTypes
  <2>4. ASSUME PortSettingsChange PROVE ClientTypes' /\ settings' \in 0 .. MaxChanges /\ agreed' \in Nat /\ agreed' <= settings'
    <3>1. UNCHANGED <<handles, on, known, enabled, tunnels, agreed, past>> /\ settings < MaxChanges /\ settings' = settings + 1
      BY <2>4 DEF PortSettingsChange, NoFault, clientVars, componentVars
    <3>2. MaxChanges \in Nat
      BY PipelineAssumption
    <3>3. QED
      BY <1>1, <3>1, <3>2 DEF ClientTypes
  <2>5. QED
    BY <2>1, <2>2, <2>3, <2>4, Kinds DEF Strides
<1>4. state' \in [Parts -> {"loaded", "idle", "executing", "pause"}] /\ sent' \in [Parts -> Seq(AnyCommand)]
  BY Kinds, WorksIs, TellsSent, Basics DEF Quiet, Strides
<1>5. ASSUME NEW c \in Parts PROVE \A i \in 1 .. Len(sent'[c]) : sent'[c][i] \in CommandsOf(c)
  <2>0. sent[c] \in Seq(AnyCommand) /\ \A i \in 1 .. Len(sent[c]) : sent[c][i] \in CommandsOf(c)
    BY Basics DEF Types
  <2>1. ASSUME Quiet PROVE \A i \in 1 .. Len(sent'[c]) : sent'[c][i] \in CommandsOf(c)
    BY <2>0, <2>1, QuietIs, QuietKeeps
  <2>2. ASSUME NEW t \in Threads, Tells(t) PROVE \A i \in 1 .. Len(sent'[c]) : sent'[c][i] \in CommandsOf(c)
    <3>1. CASE c = Step(t).on
      <4>1. sent'[c] = Append(sent[c], Command("state", Step(t).to)) /\ Command("state", Step(t).to) \in CommandsOf(c)
        BY <2>2, <3>1, TellsSent DEF CommandsOf
      <4> DEFINE m == Command("state", Step(t).to)
      <4>2. m \in CommandsOf(c) /\ sent'[c] = Append(sent[c], m)
        BY <4>1
      <4> HIDE DEF m
      <4>3. QED
        BY <2>0, <4>2
    <3>2. CASE c # Step(t).on
      BY <2>0, <2>2, <3>2, TellsSent
    <3>3. QED
      BY <3>1, <3>2
  <2>3. ASSUME NEW d \in Parts, Works(d) PROVE \A i \in 1 .. Len(sent'[c]) : sent'[c][i] \in CommandsOf(c)
    <3>1. CASE c = d
      <4>1. sent'[c] = Tail(sent[c]) /\ sent[c] # <<>>
        BY <2>3, <3>1, WorksIs
      <4>2. \A i \in 1 .. Len(Tail(sent[c])) : Tail(sent[c])[i] = sent[c][i + 1] /\ i + 1 \in 1 .. Len(sent[c])
        BY <2>0, <4>1, TailKeeps
      <4>3. QED
        BY <2>0, <4>1, <4>2
    <3>2. CASE c # d
      BY <2>0, <2>3, <3>2, WorksIs
    <3>3. QED
      BY <3>1, <3>2
  <2>4. QED
    BY <2>1, <2>2, <2>3, Kinds DEF Strides
<1>6. call' \in [Threads -> {"none", "load", "play", "resume", "pause", "change"}]
  BY <1>2 DEF Functions, Calls
<1>7. TypeOK'
  BY <1>2, <1>3, <1>4, <1>6 DEF Functions, TypeOK, ClientTypes, AllJoins
<1>8. content' # {} /\ codecKnown' \in BOOLEAN /\ first' \in BOOLEAN /\ agreed' \in Nat
  BY <1>2, <1>3 DEF Functions
<1>9. QED
  BY <1>4, <1>5, <1>7, <1>8 DEF Types
-----------------------------------------------------------------------------
(* The callback does not move the application.                             *)
LEMMA CallbackStrides ==
    ASSUME Types, Places, Order, Strides("callback")
    PROVE  Unmoved("app") /\ status' = status /\ Done' = Done
<1> "app" \in Threads /\ "callback" \in Threads /\ "app" # "callback"
  BY DEF Threads
<1>1. CASE Ahead("callback")
  BY <1>1, AheadIs
<1>2. CASE Leaves("callback")
  BY <1>2, LeaveIs
<1>3. CASE Rests
  BY <1>3, RestsIs DEF Still, Unmoved
<1>4. QED
  BY <1>1, <1>2, <1>3, OverIs DEF Strides

(* The application goes on only when it does not wait any more.            *)
LEMMA AppGoesOn ==
    ASSUME Types, Places, Order, Strides("app")
    PROVE  Unmoved("app") \/ Ahead("app") \/ Over("app") \/ Leaves("app")
<1>1. Rests => Unmoved("app")
  BY RestsIs DEF Still, Unmoved, Threads
<1>2. QED
  BY <1>1 DEF Strides

(* Before pause() nothing has to be said of pauses.                        *)
LEMMA NoPauseYet ==
    ASSUME NotYet, status \notin {"PLAYING", "PAUSED"}, NEW c \in Parts
    PROVE  ToPause(c)
BY DEF NotYet, ToPause, PausesLast, Only
-----------------------------------------------------------------------------
PausesOf(c) ==
    /\ ToPause(c) \/ FromPause(c)
    /\ call["app"] = "pause" /\ AppSets(c) => ToPause(c)
    /\ Paused(c) => state[c] = "pause" /\ Only(sent[c], {"pause"})

(* One component, when the application does not move.                      *)
LEMMA PausesSame ==
    ASSUME NEW c \in Parts, PausesOf(c), Unmoved("app"), status' = status,
           ToPause(c) => ToPause(c)', FromPause(c) => FromPause(c)' \/ ToPause(c)',
           state[c] = "pause" /\ Only(sent[c], {"pause"}) => state'[c] = "pause" /\ Only(sent'[c], {"pause"})
    PROVE  PausesOf(c)'
<1>1. call'["app"] = call["app"] /\ (AppSets(c)' <=> AppSets(c)) /\ (Paused(c)' <=> Paused(c))
  BY DEF Unmoved, AppSets, Paused
<1>2. QED
  BY <1>1 DEF PausesOf

(* The steps of the application keep them: while pause() goes on its own   *)
(* commands are the last, and play() resumes in the other order.           *)
LEMMA AppPauses ==
    ASSUME Types, Places, Order, NotYet, NEW c \in Parts \ {"vrend"}, PausesOf(c),
           Strides("app"), "staleSkip" \notin past'
    PROVE  PausesOf(c)'
<1> "app" \in Threads
  BY DEF Threads
<1>0. c \in Parts /\ state'[c] = state[c]
      /\ (ToPause(c) => ToPause(c)') /\ (FromPause(c) => FromPause(c)')
      /\ (Only(sent[c], {"pause"}) => Only(sent'[c], {"pause"}))
  BY QuietIs DEF Strides, ToPause, FromPause
<1>1. CASE Unmoved("app")
  <2>1. status' = status
    <3>1. step \in [Threads -> Nat \ {0}] /\ call \in [Threads -> Calls]
      BY Basics
    <3>2. CASE Ahead("app") \/ Over("app")
      BY <3>2, AheadIs, OverIs
    <3>3. CASE Leaves("app")
      <4>1. call' = [call EXCEPT !["app"] = "none"] /\ call["app"] # "none"
        BY <3>3, LeaveIs
      <4>2. QED
        BY <1>1, <3>1, <4>1 DEF Unmoved
    <3>4. CASE Rests
      BY <3>4, RestsIs DEF Still
    <3>5. QED
      BY <3>2, <3>3, <3>4 DEF Strides
  <2>2. QED
    BY <1>0, <1>1, <2>1, PausesSame
<1>2. CASE Ahead("app")
  <2>1. /\ call' = call /\ status' = status /\ ~waiting'["app"] /\ DoneBy("app")' = DoneBy("app") \cup {Step("app")}
        /\ step["app"] <= Len(Script("app")) /\ StepAt("app", step["app"], Step("app"))
    BY <1>2, AheadIs, ThisStep DEF Ahead
  <2>2. ~AppSets(c)'
    BY <2>1 DEF AppSets
  <2>3. ASSUME Paused(c)' PROVE state[c] = "pause" /\ Only(sent[c], {"pause"})
    <3>1. call["app"] # "none"
      BY <2>1 DEF StepAt
    <3>2. CASE call["app"] = "pause" /\ SetState(c, "pause", "end") \in DoneBy("app")
      BY <3>2 DEF PausesOf, Paused
    <3>3. CASE call["app"] = "pause" /\ Step("app") = SetState(c, "pause", "end")
      <4>1. Step("app").op = "set" /\ Step("app").on = c /\ Step("app").to = "pause" /\ Step("app").fails = "end"
        BY <3>3 DEF SetState
      <4>2. state[c] = "pause" /\ (waiting["app"] \/ ~Stale(c))
        BY <1>2, <4>1 DEF Ahead
      <4>3. CASE waiting["app"]
        BY <3>3, <4>1, <4>2, <4>3 DEF PausesOf, AppSets, ToPause
      <4>4. CASE ~Stale(c)
        <5>1. DOMAIN sent[c] = 1 .. Len(sent[c])
          BY <1>0, Basics
        <5>2. QED
          BY <4>2, <4>4, <5>1 DEF Stale, Only
      <4>5. QED
        BY <4>2, <4>3, <4>4
    <3>4. CASE call["app"] = "resume" /\ SetState(c, "executing", "end") \notin DoneBy("app")'
      <4>1. Step("app") # SetState(c, "executing", "end") /\ SetState(c, "executing", "end") \notin DoneBy("app")
        BY <2>1, <3>4
      <4>2. Step("app").op = "set" => Step("app") = SetState(Step("app").on, "executing", "end")
        BY <2>1, <3>4 DEF StepAt, ResumeAt, SetState, Param
      <4>3. AppSets(c) => Step("app").op = "set" /\ Step("app").on = c
        BY DEF AppSets, Places
      <4>4. ~AppSets(c)
        BY <4>1, <4>2, <4>3
      <4>5. QED
        BY <3>4, <4>1, <4>4 DEF PausesOf, Paused
    <3>5. QED
      BY <2>1, <2>3, <3>1, <3>2, <3>3, <3>4 DEF Paused
  <2>4. QED
    BY <1>0, <2>2, <2>3 DEF PausesOf
<1>3. CASE Over("app")
  <2>1. call'["app"] = "load"
    BY <1>3, OverIs
  <2>2. QED
    BY <1>0, <2>1 DEF PausesOf, Paused
<1>4. CASE Leaves("app")
  <2>0. call' = [call EXCEPT !["app"] = "none"] /\ call["app"] # "none"
    BY <1>4, LeaveIs
  <2>1. call'["app"] = "none"
    BY <2>0, Basics
  <2>2. ASSUME Paused(c)' PROVE state[c] = "pause" /\ Only(sent[c], {"pause"})
    <3>1. status' = "PAUSED"
      BY <2>1, <2>2 DEF Paused
    <3>2. call["app"] \in {"load", "play", "resume", "pause"}
      BY <2>0, Basics DEF Calls
    <3>3. call["app"] = "pause" /\ Ends("app")
      BY <1>4, <3>1, <3>2, LeaveIs DEF Broken
    <3>4. \A k \in Nat : \A x : StepAt("app", k, x) => x \in DoneBy("app")
      BY <1>4, <3>3, LeaveIs
    <3>5. \E k \in Nat : PauseAt(k, SetState(c, "pause", "end"))
      <4>1. c \in {"clock", "vcodec", "sched", "acodec", "arend"}
        BY PortSets
      <4>2. /\ PauseAt(2, SetState("vcodec", "pause", "end")) /\ PauseAt(3, SetState("acodec", "pause", "end"))
            /\ PauseAt(4, SetState("arend", "pause", "end")) /\ PauseAt(5, SetState("sched", "pause", "end"))
            /\ PauseAt(6, SetState("clock", "pause", "end"))
        BY DEF PauseAt
      <4>3. QED
        BY <4>1, <4>2
    <3>6. SetState(c, "pause", "end") \in DoneBy("app")
      BY <3>3, <3>4, <3>5 DEF StepAt
    <3>7. QED
      BY <3>3, <3>6 DEF PausesOf, Paused
  <2>3. QED
    BY <1>0, <2>1, <2>2 DEF PausesOf
<1>5. QED
  BY <1>1, <1>2, <1>3, <1>4, AppGoesOn

(* Every step keeps what is said of pauses.                                *)
LEMMA PausesStep ==
    ASSUME Types, Places, Order, NotYet, Pauses, Next
    PROVE  Pauses'
<1> "app" \in Threads /\ "callback" \in Threads /\ "app" # "callback"
  BY DEF Threads
<1>0. past \subseteq past'
  BY Kinds, TellsSent, WorksIs DEF Quiet, Strides
<1>1. SUFFICES ASSUME "staleSkip" \notin past', NEW c \in Parts \ {"vrend"} PROVE PausesOf(c)'
  BY DEF Pauses, PausesOf
<1>2. c \in Parts /\ PausesOf(c)
  BY <1>0, <1>1 DEF Pauses, PausesOf
<1>3. ASSUME Quiet, Unmoved("app"), status' = status PROVE PausesOf(c)'
  BY <1>2, <1>3, QuietIs, PausesSame DEF ToPause, FromPause
<1>4. ASSUME Strides("callback") PROVE PausesOf(c)'
  BY <1>3, <1>4, CallbackStrides DEF Strides
<1>5. ASSUME Strides("app") PROVE PausesOf(c)'
  BY <1>1, <1>2, <1>5, AppPauses
<1>6. ASSUME NEW t \in Threads, Tells(t) PROVE PausesOf(c)'
  <2>1. Still /\ waiting' = [waiting EXCEPT ![t] = TRUE] /\ state' = state
        /\ DoneBy("app")' = DoneBy("app") /\ Step("app")' = Step("app") /\ call' = call /\ status' = status
    BY <1>6, TellsIs, TellsSent DEF Still
  <2>2. CASE c # Step(t).on
    <3>1. sent'[c] = sent[c]
      BY <1>2, <1>6, <2>2, TellsSent
    <3>2. AppSets(c)' => AppSets(c)
      BY <2>1, <2>2, Basics DEF AppSets
    <3>3. Paused(c)' => Paused(c)
      <4>1. AppSets(c) => AppSets(c)'
        BY <2>1, Basics DEF AppSets
      <4>2. QED
        BY <2>1, <4>1 DEF Paused
    <3>4. QED
      BY <1>2, <2>1, <3>1, <3>2, <3>3 DEF PausesOf, ToPause, FromPause
  <2>3. CASE c = Step(t).on
    <3>1. t = "app" /\ call["app"] \in {"load", "play", "resume", "pause"} /\ ~waiting["app"]
      <4>1. t # "callback"
        BY <1>1, <1>6, <2>3, TellsWhich DEF SetState
      <4>2. QED
        BY <1>6, <4>1, TellsWhich, TellsSent DEF Threads
    <3>2. state[c] # Step("app").to /\ Step("app").op = "set" /\ StepAt("app", step["app"], Step("app"))
      BY <1>6, <2>3, <3>1, TellsSent
    <3>3. AppSets(c)' /\ ~AppSets(c)
      BY <2>1, <2>3, <3>1, Basics DEF AppSets
    <3>4. CASE call["app"] = "pause"
      <4>1. Step("app").to = "pause"
        BY <1>6, <3>1, <3>4, TellsWhich
      <4>2. state[c] # "pause" /\ PausesLast(sent[c])
        BY <1>2, <3>2, <4>1 DEF PausesOf, ToPause, FromPause
      <4>3. PausesLast(sent'[c])
        BY <1>6, <2>3, <3>1, <4>1, <4>2, TellsTo
      <4>4. ToPause(c)'
        BY <2>1, <4>2, <4>3 DEF ToPause
      <4>5. ~Paused(c)'
        BY <1>2, <2>1, <3>4, <4>2 DEF Paused, PausesOf
      <4>6. QED
        BY <4>4, <4>5 DEF PausesOf
    <3>5. CASE call["app"] \in {"load", "play"}
      <4>1. status' \notin {"PLAYING", "PAUSED"}
        BY <2>1, <3>5 DEF Order
      <4>2. NotYet'
        BY NotYetStep
      <4>3. ToPause(c)'
        BY <1>2, <4>1, <4>2, NoPauseYet DEF NotYet, ToPause, PausesLast, Only
      <4>4. call'["app"] \in {"load", "play"}
        BY <2>1, <3>5
      <4>5. QED
        BY <4>3, <4>4 DEF PausesOf, Paused
    <3>6. CASE call["app"] = "resume"
      <4>1. Step("app").to = "executing" /\ ResumeAt(step["app"], Step("app"))
        BY <1>6, <3>1, <3>2, <3>6, TellsWhich DEF StepAt
      <4>2. Step("app") = SetState(c, "executing", "end")
        BY <2>3, <3>1, <3>2, <3>6, <4>1 DEF ResumeAt, SetState, Param
      <4>3. SetState(c, "executing", "end") \notin DoneBy("app")
        <5>1. SUFFICES ASSUME NEW k \in 1 .. step["app"] - 1, StepAt("app", k, SetState(c, "executing", "end")) PROVE FALSE
          BY DoneIs, Basics
        <5>2. ResumeAt(k, SetState(c, "executing", "end")) /\ step["app"] \in Nat
          BY <3>6, <5>1, Basics DEF StepAt
        <5>3. k < step["app"] /\ k \in Nat
          BY <5>1, <5>2
        <5>4. QED
          BY <4>1, <4>2, <5>2, <5>3 DEF ResumeAt, SetState, Param
      <4>4. Paused(c)
        BY <3>3, <3>6, <4>3 DEF Paused
      <4>5. state[c] = "pause" /\ PausesFirst(sent[c])
        BY <1>2, <4>4 DEF PausesOf, Only, PausesFirst
      <4>6. PausesFirst(sent'[c])
        BY <1>6, <2>3, <3>1, <4>1, <4>5, TellsTo
      <4>7. FromPause(c)'
        BY <2>1, <4>5, <4>6 DEF FromPause
      <4>8. call'["app"] = "resume"
        BY <2>1, <3>6
      <4>9. QED
        BY <3>3, <4>7, <4>8 DEF PausesOf, Paused
    <3>7. QED
      BY <3>1, <3>4, <3>5, <3>6
  <2>4. QED
    BY <2>2, <2>3
<1>7. ASSUME NEW d \in Parts, Works(d) PROVE PausesOf(c)'
  <2>1. Unmoved("app") /\ status' = status
    <3>1. Still /\ waiting' = waiting
      BY <1>7, RestsIs DEF Works
    <3>2. QED
      BY <3>1 DEF Still, Unmoved
  <2>2. CASE c # d
    <3>1. sent'[c] = sent[c] /\ state'[c] = state[c]
      BY <1>2, <1>7, <2>2, WorksIs
    <3>2. QED
      BY <1>2, <2>1, <3>1, PausesSame DEF ToPause, FromPause
  <2>3. CASE c = d
    <3>1. /\ PausesLast(sent[c]) =>
               /\ PausesLast(sent'[c])
               /\ state'[c] # state[c] /\ state'[c] = "pause" => Only(sent'[c], {"pause"})
          /\ PausesFirst(sent[c]) =>
               /\ PausesFirst(sent'[c])
               /\ state'[c] # state[c] /\ state'[c] # "pause" => PausesLast(sent'[c])
      BY <1>7, <2>3, WorksOn
    <3>2. Only(sent[c], {"pause"}) => Only(sent'[c], {"pause"}) /\ state'[c] \in {"pause"} \cup {state[c]}
      BY <1>7, <2>3, WorksOn
    <3>3. ToPause(c) => ToPause(c)'
      BY <3>1, <3>2 DEF ToPause
    <3>4. FromPause(c) => FromPause(c)' \/ ToPause(c)'
      BY <3>1 DEF ToPause, FromPause
    <3>5. QED
      BY <1>2, <2>1, <3>2, <3>3, <3>4, PausesSame
  <2>4. QED
    BY <2>2, <2>3
<1>8. ASSUME Call, Quiet PROVE PausesOf(c)'
  <2>1. /\ call["app"] = "none" /\ status' = status /\ DoneBy("app")' = {} /\ ~AppSets(c)'
        /\ call'["app"] \in {"play", "resume", "pause"} /\ (call'["app"] = "resume" => status = "PAUSED")
    BY <1>8, CallIs, Basics DEF AppSets
  <2>2. Paused(c)' => Paused(c)
    BY <2>1 DEF Paused
  <2>3. QED
    BY <1>2, <1>8, <2>1, <2>2, QuietIs DEF PausesOf, ToPause, FromPause
<1>9. ASSUME PortSettingsChange, Quiet PROVE PausesOf(c)'
  BY <1>3, <1>9, SettingsIs
<1>10. Strides("app") \/ Strides("callback") \/ (\E t \in Threads : Tells(t)) \/ (\E d \in Parts : Works(d))
       \/ (Call /\ Quiet) \/ (PortSettingsChange /\ Quiet)
  BY Kinds DEF Threads
<1>11. QED
  BY <1>4, <1>5, <1>6, <1>7, <1>8, <1>9, <1>10
-----------------------------------------------------------------------------
(* The initial state, as the parts of the invariant see it.                *)
LEMMA InitIs ==
    ASSUME Init
    PROVE  /\ call["app"] = "load" /\ call["callback"] = "none" /\ status = "IDLE"
           /\ \A t \in Threads : step[t] = 1 /\ ~waiting[t] /\ DoneBy(t) = {}
           /\ Done = {} /\ first = TRUE /\ tunnels = {} /\ settings = 0 /\ agreed = 0 /\ past = {} /\ on = {} /\ handles = {}
           /\ \A c \in Parts : sent[c] = <<>> /\ state[c] = "loaded" /\ ~AppSets(c)
<1>1. /\ call["app"] = "load" /\ call["callback"] = "none" /\ status = "IDLE"
      /\ \A t \in Threads : step[t] = 1 /\ ~waiting[t]
      /\ first = TRUE /\ tunnels = {} /\ settings = 0 /\ agreed = 0 /\ past = {} /\ on = {} /\ handles = {}
      /\ \A c \in Parts : sent[c] = <<>> /\ state[c] = "loaded"
  BY DEF Init, Threads
<1>2. \A t \in Threads : DoneBy(t) = {}
  BY <1>1 DEF DoneBy
<1>3. Done = {}
  BY <1>1, <1>2 DEF Done, Threads
<1>4. ~waiting["app"]
  BY <1>1 DEF Threads
<1>5. QED
  BY <1>1, <1>2, <1>3, <1>4 DEF AppSets

(* The first invariant holds initially.                                    *)
LEMMA InitPlaces ==
    ASSUME Init
    PROVE  Types /\ Places /\ Order /\ NotYet /\ Pauses
<1>1. /\ status = "IDLE" /\ content \in (SUBSET Streams) \ {{}} /\ codecKnown \in BOOLEAN
      /\ call = [t \in Threads |-> IF t = "app" THEN "load" ELSE "none"]
      /\ step = [t \in Threads |-> 1] /\ waiting = [t \in Threads |-> FALSE]
      /\ first = TRUE /\ known = {} /\ enabled = {} /\ handles = {}
      /\ state = [c \in Parts |-> "loaded"] /\ on = {} /\ sent = [c \in Parts |-> <<>>]
      /\ tunnels = {} /\ settings = 0 /\ agreed = 0 /\ past = {}
  BY DEF Init
<1>2. MaxChanges \in Nat
  BY PipelineAssumption
<1>3. TypeOK
  BY <1>1, <1>2 DEF TypeOK
<1>4. sent \in [Parts -> Seq(AnyCommand)] /\ \A c \in Parts : Len(sent[c]) = 0
  BY <1>1
<1>5. Types
  BY <1>1, <1>3, <1>4 DEF Types
<1>6. Places
  <2>1. \A t \in Threads : call[t] \in Calls /\ step[t] = 1 /\ ~waiting[t]
    BY <1>1 DEF Calls
  <2>2. \A t \in Threads : Len(Script(t)) \in Nat
    BY <2>1, StepIs
  <2>3. call["callback"] \in {"none", "change"} /\ call["app"] # "change"
    BY <1>1 DEF Threads
  <2>4. QED
    BY <1>1, <2>1, <2>2, <2>3 DEF Places
<1>7. Order
  BY InitIs DEF Order, Playing
<1>8. NotYet
  <2>1. \A c \in {"vcodec", "sched", "vrend"} : c \in Parts
    BY PortSets
  <2>2. QED
    BY <1>4, <2>1, InitIs DEF NotYet, Only
<1>9. Pauses
  BY <1>4, InitIs DEF Pauses, ToPause, PausesLast, Paused
<1>10. QED
  BY <1>5, <1>6, <1>7, <1>8, <1>9

(* The invariant for TypeOK and PausedIsPaused.                            *)
PausesInv == Types /\ Places /\ Order /\ NotYet /\ Pauses

(* Every step keeps it.                                                    *)
LEMMA PausesInvStep ==
    ASSUME PausesInv, Next
    PROVE  PausesInv'
BY TypesStep, PlacesStep, OrderStep, NotYetStep, PausesStep DEF PausesInv

(* So does a step that changes nothing.                                    *)
LEMMA PausesInvStutter ==
    ASSUME PausesInv, UNCHANGED vars
    PROVE  PausesInv'
<1>1. UNCHANGED <<call, step, waiting, status, content, codecKnown, first, calls, known, enabled, handles,
                  state, on, sent, tunnels, settings, agreed, past>>
  BY DEF vars, threadVars, playerVars, clientVars, componentVars, tunnelVars
<1>2. \A t : Script(t)' = Script(t)
  BY <1>1 DEF Script
<1>3. Types' /\ Places'
  BY <1>1, <1>2 DEF PausesInv, Types, TypeOK, Places, Step
<1>4. \A t : DoneBy(t)' = DoneBy(t) /\ Step(t)' = Step(t)
  BY <1>1, <1>2 DEF DoneBy, Step
<1>5. Order' /\ NotYet'
  BY <1>1 DEF PausesInv, Order, NotYet, Playing
<1>6. Pauses'
  <2>1. \A c : (AppSets(c)' <=> AppSets(c)) /\ (Paused(c)' <=> Paused(c))
    BY <1>1, <1>4 DEF AppSets, Paused
  <2>2. QED
    BY <1>1, <2>1 DEF PausesInv, Pauses, ToPause, FromPause
<1>7. QED
  BY <1>3, <1>5, <1>6 DEF PausesInv

(* Every variable keeps its type, whatever fails and is late.              *)
THEOREM Typing == Spec => []TypeOK
<1>1. Init => PausesInv
  BY InitPlaces DEF PausesInv
<1>2. PausesInv /\ [Next]_vars => PausesInv'
  BY PausesInvStep, PausesInvStutter
<1>3. PausesInv => TypeOK
  BY DEF PausesInv, Types
<1>4. QED
  BY <1>1, <1>2, <1>3, PTL DEF Spec

(* A paused player is paused: with nothing under way every component but   *)
(* the video renderer is in pause, whatever failed or was late before,     *)
(* unless setState() skipped a command although another was on its way     *)
(* (omxclient.cpp, setState).                                              *)
THEOREM PausedStays == Spec => []PausedIsPaused
<1>1. Init => PausesInv
  BY InitPlaces DEF PausesInv
<1>2. PausesInv /\ [Next]_vars => PausesInv'
  BY PausesInvStep, PausesInvStutter
<1>3. PausesInv => PausedIsPaused
  <2>1. SUFFICES ASSUME PausesInv, status = "PAUSED", Settled, "staleSkip" \notin past, NEW c \in Parts \ {"vrend"}
                 PROVE  state[c] = "pause"
    BY DEF PausedIsPaused
  <2>2. call["app"] = "none"
    BY <2>1 DEF Settled, Threads
  <2>3. QED
    BY <2>1, <2>2 DEF PausesInv, Pauses, Paused
<1>4. QED
  BY <1>1, <1>2, <1>3, PTL DEF Spec
-----------------------------------------------------------------------------
(* What is done of load() after a step.                                    *)
SkippedSteps == {Connect("acodec.out", "arend.in", "skip"), WaitPort("arend.in"),
                 SetState("arend", "idle", "end"), WaitPort("acodec.out")}

LoadMoves ==
    \/ Done' = Done
    \/ Broken' /\ Done' = {}
    \/ /\ Strides("app") /\ Ahead("app") /\ call["app"] = "load" /\ call'["app"] = "load"
       /\ Done' = Done \cup {Step("app")} /\ LoadAt(step["app"], Step("app"))
    \/ /\ Strides("app") /\ Over("app") /\ call["app"] = "load" /\ call'["app"] = "load"
       /\ Done' = Done \cup SkippedSteps

(* How the steps of load() that are done change.                           *)
LEMMA DoneStep ==
    ASSUME Types, Places, Order, Next
    PROVE  LoadMoves
<1> "app" \in Threads /\ "callback" \in Threads /\ "app" # "callback"
  BY DEF Threads
<1>1. ASSUME Strides("app"), Ahead("app") PROVE LoadMoves
  <2>1. call' = call /\ Done' = IF call["app"] = "load" THEN Done \cup {Step("app")} ELSE Done
    BY <1>1, AheadIs
  <2>2. StepAt("app", step["app"], Step("app"))
    BY <1>1, ThisStep DEF Ahead
  <2>3. call["app"] = "load" => LoadAt(step["app"], Step("app"))
    BY <2>2 DEF StepAt
  <2>4. QED
    BY <1>1, <2>1, <2>3 DEF LoadMoves
<1>2. ASSUME Strides("app"), Over("app") PROVE LoadMoves
  <2>1. call' = call /\ call["app"] = "load" /\ Step("app") = Connect("acodec.out", "arend.in", "skip")
        /\ Done' = Done \cup {Step("app"), WaitPort("arend.in"), SetState("arend", "idle", "end"), WaitPort("acodec.out")}
    BY <1>2, OverIs
  <2>2. QED
    BY <1>2, <2>1 DEF SkippedSteps, LoadMoves
<1>3. ASSUME NEW t \in Threads, Leaves(t) PROVE LoadMoves
  <2>1. Broken' => Done' = {}
    BY DEF Broken, Done
  <2>2. call["app"] # "load" => Done' = Done
    BY <1>3, LeaveIs
  <2>3. t = "callback" => Done' = Done
    BY <1>3, LeaveIs
  <2>4. call["app"] = "load" /\ t = "app" => Done' = Done \/ Broken'
    BY <1>3, LeaveIs
  <2>5. t = "app" \/ t = "callback"
    BY DEF Threads
  <2>6. Done' = Done \/ (Broken' /\ Done' = {})
    BY <2>1, <2>2, <2>3, <2>4, <2>5
  <2>7. QED
    BY <2>6 DEF LoadMoves
<1>4. ASSUME Strides("callback") PROVE LoadMoves
  BY <1>4, CallbackStrides DEF LoadMoves
<1>5. ASSUME Rests \/ (\E t \in Threads : Tells(t)) \/ (\E c \in Parts : Works(c)) PROVE LoadMoves
  <2>1. Done' = Done
    BY <1>5, RestsIs, TellsIs DEF Works, Still
  <2>2. QED
    BY <2>1 DEF LoadMoves
<1>6. ASSUME Call \/ PortSettingsChange PROVE LoadMoves
  <2>1. Done' = Done
    BY <1>6, CallIs, SettingsIs
  <2>2. QED
    BY <2>1 DEF LoadMoves
<1>7. ASSUME Strides("app") PROVE LoadMoves
  BY <1>1, <1>2, <1>3, <1>5, <1>7 DEF Strides
<1>8. QED
  BY <1>4, <1>5, <1>6, <1>7, Kinds DEF Threads

(* What has happened stays, and so do the handles.                         *)
LEMMA PastGrows ==
    ASSUME Types, Places, Order, Next
    PROVE  past \subseteq past' /\ handles \subseteq handles' /\ ("vcodec" \in handles' => "vcodec" \in handles \/ codecKnown)
<1>1. ASSUME NEW t \in Threads, Tells(t) PROVE past' = past /\ handles' = handles
  BY <1>1 DEF Tells, clientVars
<1>2. QED
  BY <1>1, Kinds, WorksIs DEF Quiet, Strides

(* Every step keeps what is known of the handles.                          *)
LEMMA KnownStep ==
    ASSUME Types, Places, Order, Known, Next
    PROVE  Known'
<1>1. codecKnown' = codecKnown
  BY PlayingStep DEF Evolves
<1>2. past \subseteq past' /\ handles \subseteq handles' /\ ("vcodec" \in handles' => "vcodec" \in handles \/ codecKnown)
  BY PastGrows
<1>3. Make("clock") \in Done' => Make("clock") \in Done \/ "clock" \in handles'
  <2>1. ASSUME Ahead("app"), Step("app") = Make("clock") PROVE "clock" \in handles'
    BY <2>1 DEF Ahead, Make
  <2>2. Make("clock") \notin SkippedSteps
    BY DEF SkippedSteps, Make, Connect, WaitPort, SetState
  <2>3. QED
    BY <2>1, <2>2, DoneStep DEF LoadMoves
<1>4. Param("vcodec", "end") \in Done' => Param("vcodec", "end") \in Done \/ "vcodec" \in handles'
  <2>1. ASSUME Ahead("app"), Step("app") = Param("vcodec", "end") PROVE "vcodec" \in handles
    BY <2>1 DEF Ahead, Param
  <2>2. Param("vcodec", "end") \notin SkippedSteps
    BY DEF SkippedSteps, Param, Connect, WaitPort, SetState
  <2>3. QED
    BY <1>2, <2>1, <2>2, DoneStep DEF LoadMoves
<1>5. QED
  BY <1>1, <1>2, <1>3, <1>4 DEF Known

(* A step of the application that sets a state.                            *)
SetsBy(x) ==
    /\ x = SetState(x.on, x.to, x.fails)
    /\ call["app"] \in {"load", "play", "resume", "pause"}
    /\ call["app"] = "load" => ~Playing /\ x.to \in {"idle", "executing"} /\ (x.fails = "log" => x.on = "vrend")
    /\ call["app"] = "play" => /\ Playing /\ x.to = "executing" /\ x.fails = "log"
                               /\ x.on \in {"vcodec", "sched", "acodec"}
    /\ call["app"] = "resume" => Playing /\ x.to = "executing" /\ x.fails = "end"
    /\ call["app"] = "pause" => Playing /\ x.to = "pause" /\ x.fails = "end" /\ x.on # "vrend"

(* The states that the application sets, for each call.                    *)
LEMMA SetsByApp ==
    ASSUME Types, Places, Order, NEW k \in Nat, NEW x, StepAt("app", k, x), x.op = "set"
    PROVE  SetsBy(x)
<1>1. call["app"] \in {"load", "play", "resume", "pause"}
  BY Basics DEF StepAt
<1>2. CASE call["app"] = "load"
  <2>1. LoadAt(k, x) /\ ~Playing
    BY <1>2 DEF StepAt, Playing, Order
  <2>2. QED
    BY <1>1, <1>2, <2>1, SetsAt DEF SetsBy, SetState
<1>3. CASE call["app"] = "play"
  BY <1>1, <1>3 DEF StepAt, PlayAt, SetState, Param, SetsBy, Playing
<1>4. CASE call["app"] = "resume"
  BY <1>1, <1>4 DEF StepAt, ResumeAt, SetState, Param, SetsBy, Playing, Order
<1>5. CASE call["app"] = "pause"
  BY <1>1, <1>5 DEF StepAt, PauseAt, SetState, Param, SetsBy, Playing, Order
<1>6. QED
  BY <1>1, <1>2, <1>3, <1>4, <1>5

(* What is true while it waits for one.                                    *)
LEMMA AppSetsIs ==
    ASSUME Types, Places, Order, NEW c, AppSets(c)
    PROVE  /\ waiting["app"] /\ step["app"] <= Len(Script("app")) /\ step["app"] \in Nat
           /\ StepAt("app", step["app"], Step("app")) /\ Step("app").op = "set" /\ Step("app").on = c
           /\ c \in Parts /\ SetsBy(Step("app"))
<1> "app" \in Threads
  BY DEF Threads
<1>1. waiting["app"] /\ step["app"] <= Len(Script("app")) /\ step["app"] \in Nat /\ Step("app").op = "set" /\ Step("app").on = c
  BY Basics DEF AppSets, Places
<1>2. StepAt("app", step["app"], Step("app")) /\ c \in Parts
  BY <1>1, ThisStep DEF StepKind
<1>3. QED
  BY <1>1, <1>2, SetsByApp

(* Every step keeps that a component which was told nothing is loaded.     *)
LEMMA FreshStep ==
    ASSUME Types, Places, Order, Fresh, Next
    PROVE  Fresh'
<1> "app" \in Threads /\ "callback" \in Threads /\ "app" # "callback"
  BY DEF Threads
<1>1. SUFFICES ASSUME NEW c \in Parts, call'["app"] = "load", ~AppSets(c)', ~Told(c)'
               PROVE  state'[c] = "loaded" /\ Calm(sent'[c])
  BY DEF Fresh
<1>2. Done \subseteq Done'
  BY <1>1, DoneStep DEF Broken, LoadMoves
<1>3. ~Told(c)
  BY <1>1, <1>2 DEF Told
<1>4. call["app"] = "load" => (~AppSets(c) => state[c] = "loaded" /\ Calm(sent[c]))
  BY <1>3 DEF Fresh
<1>5. call["app"] = "load" => ~Playing
  BY DEF Order, Playing
<1>6. ASSUME Quiet, Unmoved("app") PROVE state'[c] = "loaded" /\ Calm(sent'[c])
  BY <1>1, <1>4, <1>6, QuietIs DEF Unmoved, AppSets
<1>7. ASSUME Strides("app") PROVE state'[c] = "loaded" /\ Calm(sent'[c])
  <2>1. CASE Ahead("app")
    <3>1. call["app"] = "load" /\ Done' = Done \cup {Step("app")}
      BY <1>1, <2>1, AheadIs
    <3>2. ~AppSets(c)
      <4>1. SUFFICES ASSUME AppSets(c) PROVE FALSE
        OBVIOUS
      <4>2. Step("app").op = "set" /\ Step("app").on = c
        BY <4>1, AppSetsIs
      <4>3. QED
        BY <1>1, <3>1, <4>2 DEF Told
    <3>3. QED
      BY <1>4, <1>7, <3>1, <3>2, QuietIs DEF Strides
  <2>2. CASE Over("app")
    BY <1>4, <1>7, <2>2, OverIs, QuietIs DEF Strides, AppSets
  <2>3. CASE Leaves("app")
    <3>1. call' = [call EXCEPT !["app"] = "none"]
      BY <2>3, LeaveIs
    <3>2. QED
      BY <1>1, <3>1, Basics
  <2>4. QED
    BY <1>6, <1>7, <2>1, <2>2, <2>3, AppGoesOn DEF Strides
<1>8. ASSUME NEW t \in Threads, Tells(t) PROVE state'[c] = "loaded" /\ Calm(sent'[c])
  <2>1. call' = call /\ waiting' = [waiting EXCEPT ![t] = TRUE] /\ state' = state /\ Step("app")' = Step("app")
    BY <1>8, TellsIs, TellsSent DEF Still
  <2>2. t = "app" /\ ~waiting["app"]
    BY <1>1, <1>5, <1>8, <2>1, TellsWhich, TellsSent DEF Threads
  <2>3. c # Step("app").on
    BY <1>1, <2>1, <2>2, Basics DEF AppSets
  <2>4. QED
    BY <1>1, <1>4, <1>8, <2>1, <2>2, <2>3, TellsSent DEF AppSets
<1>9. ASSUME NEW d \in Parts, Works(d) PROVE state'[c] = "loaded" /\ Calm(sent'[c])
  <2>1. Still /\ waiting' = waiting
    BY <1>9, RestsIs DEF Works
  <2>2. state[c] = "loaded" /\ Calm(sent[c])
    BY <1>1, <1>4, <2>1 DEF Still, AppSets
  <2>3. c # d => sent'[c] = sent[c] /\ state'[c] = state[c]
    BY <1>9, WorksIs
  <2>4. c = d => Calm(sent'[c]) /\ state'[c] = state[c]
    BY <1>9, <2>2, WorksOn
  <2>5. QED
    BY <2>2, <2>3, <2>4
<1>10. ASSUME Call PROVE FALSE
  BY <1>1, <1>10, CallIs, Basics
<1>11. QED
  BY <1>6, <1>7, <1>8, <1>9, <1>10, Kinds, CallbackStrides, SettingsIs DEF Threads, Strides
-----------------------------------------------------------------------------
OneOf(c) == Calm(sent[c]) \/ InHand(c)

(* A wait that was given up stays so.                                      *)
LEMMA GivenUpStays ==
    ASSUME Types, Places, Order, Next, NEW c, GivenUp(c)
    PROVE  GivenUp(c)'
<1>1. past \subseteq past'
  BY PastGrows
<1>2. (Playing => Playing') /\ (status' \notin {"PLAYING", "PAUSED"} => status \notin {"PLAYING", "PAUSED"})
  BY PlayingStep DEF Evolves
<1>3. QED
  BY <1>1, <1>2 DEF GivenUp

(* What load() brings a component to stays until play().                   *)
LEMMA LoadedStates ==
    ASSUME Types, Places, Order, status \notin {"IDLE"}
    PROVE  /\ "audio" \in content => \A c \in {"acodec", "arend", "clock"} : SetState(c, "executing", "end") \in Done
           /\ "video" \in content => /\ \A c \in {"vcodec", "sched"} : SetState(c, "idle", "end") \in Done
                                     /\ SetState("vrend", "idle", "log") \in Done
                                     /\ Param("vcodec", "end") \in Done
           /\ Make("clock") \in Done
<1>1. \A x : x \in Done <=> \E k \in Nat : LoadAt(k, x)
  BY DoneIsBy
<1>2. ASSUME "audio" \in content, NEW c \in {"acodec", "arend", "clock"} PROVE SetState(c, "executing", "end") \in Done
  BY <1>1, <1>2, LoadContains
<1>3. ASSUME "video" \in content, NEW x \in {SetState("vcodec", "idle", "end"), SetState("sched", "idle", "end"),
                 SetState("vrend", "idle", "log"), Param("vcodec", "end")} PROVE x \in Done
  BY <1>1, <1>3, LoadContains
<1>4. Make("clock") \in Done
  BY <1>1, LoadContains
<1>5. QED
  BY <1>2, <1>3, <1>4

(* The end of a wait that the application gave up.                         *)
LEMMA GivesUp ==
    ASSUME Types, Places, Order, Reached, NEW c \in Parts, InHand(c), Ahead("app") \/ Leaves("app")
    PROVE  Broken' \/ GivenUp(c)'
<1> "app" \in Threads
  BY DEF Threads
<1>1. /\ waiting["app"] /\ step["app"] <= Len(Script("app")) /\ Step("app").op = "set" /\ Step("app").on = c
      /\ SetsBy(Step("app")) /\ state[c] # Step("app").to
  BY AppSetsIs DEF InHand
<1>2. CASE Ahead("app")
  <2>1. Step("app").fails = "log" /\ "late" \in past'
    BY <1>1, <1>2 DEF Ahead
  <2>2. call' = call /\ status' = status
    BY <1>2, AheadIs
  <2>3. CASE call["app"] = "load"
    <3>1. c = "vrend"
      BY <1>1, <2>1, <2>3 DEF SetsBy
    <3>2. QED
      BY <2>1, <3>1 DEF GivenUp
  <2>4. CASE call["app"] = "play"
    <3>1. Step("app").to = "executing" /\ c \in {"vcodec", "sched", "acodec"} /\ Playing
      BY <1>1, <2>4 DEF SetsBy
    <3>2. CASE c = "acodec"
      <4>1. status = "LOADED" /\ content = Streams
        BY <2>4, <3>1 DEF Order
      <4>2. SetState("acodec", "executing", "end") \in Done
        BY <4>1, LoadedStates DEF Streams
      <4>3. state["acodec"] = "executing"
        BY <4>1, <4>2 DEF Reached
      <4>4. QED
        BY <1>1, <3>1, <3>2, <4>3
    <3>3. CASE c \in {"vcodec", "sched"}
      BY <2>1, <2>2, <2>4, <3>3 DEF GivenUp, Playing
    <3>4. QED
      BY <3>1, <3>2, <3>3
  <2>5. QED
    BY <1>1, <2>1, <2>3, <2>4 DEF SetsBy
<1>3. CASE Leaves("app")
  <2>1. Breaks("app")
    BY <1>1, <1>3 DEF Leaves, Ends
  <2>2. Step("app").fails = "end" /\ "late" \in past'
    BY <1>1, <2>1 DEF Breaks
  <2>3. CASE call["app"] = "load"
    <3>1. ~Ends("app")
      BY <1>1 DEF Ends
    <3>2. QED
      BY <1>3, <2>3, <3>1, LeaveIs
  <2>4. CASE call["app"] \in {"resume", "pause"}
    <3>1. status' \in {"PLAYING", "PAUSED"}
      BY <1>3, <2>4, LeaveIs
    <3>2. QED
      BY <2>2, <3>1 DEF GivenUp
  <2>5. QED
    BY <1>1, <2>2, <2>3, <2>4 DEF SetsBy
<1>4. QED
  BY <1>2, <1>3

(* Every step keeps that a component has one change of state on its way.   *)
LEMMA OneCommandStep ==
    ASSUME Types, Places, Order, OneCommand, Reached, Next
    PROVE  OneCommand'
<1> "app" \in Threads /\ "callback" \in Threads /\ "app" # "callback"
  BY DEF Threads
<1>1. SUFFICES ASSUME NEW c \in Parts, ~Broken', ~GivenUp(c)'
               PROVE  OneOf(c)'
  BY DEF OneCommand, OneOf
<1>2. OneOf(c)
  <2>1. ~Broken /\ ~GivenUp(c)
    BY <1>1, PlayingStep, GivenUpStays DEF Evolves
  <2>2. QED
    BY <2>1 DEF OneCommand, OneOf
<1>3. ASSUME Quiet, Unmoved("app") PROVE OneOf(c)'
  <2>1. AppSets(c) => AppSets(c)' /\ Step("app")' = Step("app")
    BY <1>3 DEF Unmoved, AppSets
  <2>2. QED
    BY <1>2, <1>3, <2>1, QuietIs DEF OneOf, InHand
<1>4. ASSUME Strides("app") PROVE OneOf(c)'
  <2>1. Quiet
    BY <1>4 DEF Strides
  <2>2. Calm(sent[c]) => Calm(sent'[c])
    BY <2>1, QuietIs
  <2>3. CASE Over("app")
    <3>1. ~InHand(c)
      BY <2>3 DEF Over, InHand, AppSets
    <3>2. QED
      BY <1>2, <2>2, <3>1 DEF OneOf
  <2>4. CASE Ahead("app") \/ Leaves("app")
    <3>1. ~InHand(c)
      BY <1>1, <2>4, GivesUp
    <3>2. QED
      BY <1>2, <2>2, <3>1 DEF OneOf
  <2>5. QED
    BY <1>3, <1>4, <2>1, <2>3, <2>4, AppGoesOn
<1>5. ASSUME NEW t \in Threads, Tells(t) PROVE OneOf(c)'
  <2>1. /\ waiting' = [waiting EXCEPT ![t] = TRUE] /\ state' = state /\ Step("app")' = Step("app") /\ ~waiting[t]
        /\ call' = call /\ status' = status
    BY <1>5, TellsIs, TellsSent DEF Still
  <2>2. CASE c # Step(t).on
    <3>1. sent'[c] = sent[c]
      BY <1>5, <2>2, TellsSent
    <3>2. AppSets(c) => AppSets(c)'
      BY <2>1, Basics DEF AppSets
    <3>3. QED
      BY <1>2, <2>1, <3>1, <3>2 DEF OneOf, InHand
  <2>3. CASE c = Step(t).on
    <3>1. CASE t = "callback"
      <4>1. Playing /\ c = "vrend"
        BY <1>5, <2>3, <3>1, TellsWhich DEF SetState
      <4>2. QED
        BY <1>1, <2>1, <4>1 DEF GivenUp, Playing
    <3>2. CASE t = "app"
      <4>1. Calm(sent[c])
        BY <1>2, <2>1, <3>2 DEF OneOf, InHand, AppSets
      <4>2. AtMostOne(sent'[c]) /\ Only(sent'[c], {Step("app").to})
        BY <1>5, <2>3, <3>2, <4>1, TellsTo
      <4>3. state[c] # Step("app").to
        BY <1>5, <2>3, <3>2, TellsSent
      <4>4. AppSets(c)'
        BY <2>1, <2>3, <3>2, Basics DEF AppSets
      <4>5. QED
        BY <2>1, <4>2, <4>3, <4>4 DEF OneOf, InHand
    <3>3. QED
      BY <3>1, <3>2 DEF Threads
  <2>4. QED
    BY <2>2, <2>3
<1>6. ASSUME NEW d \in Parts, Works(d) PROVE OneOf(c)'
  <2>1. Still /\ waiting' = waiting
    BY <1>6, RestsIs DEF Works
  <2>2. (AppSets(c) => AppSets(c)') /\ Step("app")' = Step("app")
    BY <2>1 DEF AppSets, Still
  <2>3. CASE c # d
    <3>1. sent'[c] = sent[c] /\ state'[c] = state[c]
      BY <1>6, <2>3, WorksIs
    <3>2. QED
      BY <1>2, <2>2, <3>1 DEF OneOf, InHand
  <2>4. CASE c = d
    <3>1. Calm(sent[c]) => Calm(sent'[c])
      BY <1>6, <2>4, WorksOn
    <3>2. \A S : Only(sent[c], S) => Only(sent'[c], S)
      BY <1>6, <2>4, WorksOn
    <3>3. AtMostOne(sent[c]) => AtMostOne(sent'[c]) /\ (Calm(sent'[c]) \/ state'[c] = state[c])
      BY <1>6, <2>4, WorksOn
    <3>4. QED
      BY <1>2, <2>2, <3>1, <3>2, <3>3 DEF OneOf, InHand
  <2>5. QED
    BY <2>3, <2>4
<1>7. ASSUME Call, Quiet PROVE OneOf(c)'
  <2>1. ~InHand(c)
    BY <1>7, CallIs DEF InHand, AppSets
  <2>2. QED
    BY <1>2, <1>7, <2>1, QuietIs DEF OneOf
<1>8. QED
  BY <1>3, <1>4, <1>5, <1>6, <1>7, Kinds, CallbackStrides, SettingsIs DEF Threads, Strides
-----------------------------------------------------------------------------
(* A component is brought to a state by steps in this order.               *)
LEMMA Later ==
    ASSUME Types, Places, Order, call["app"] = "load", step["app"] <= Len(Script("app")), NEW x \in Done
    PROVE  \E i \in Nat : LoadAt(i, x) /\ i < step["app"] /\ LoadAt(step["app"], Step("app")) /\ step["app"] \in Nat
<1> "app" \in Threads
  BY DEF Threads
<1>1. x \in DoneBy("app")
  BY DoneIsBy
<1>2. step["app"] \in Nat \ {0} /\ StepAt("app", step["app"], Step("app"))
  BY Basics, ThisStep
<1>3. PICK k \in 1 .. step["app"] - 1 : StepAt("app", k, x)
  BY <1>1, DoneIs, Basics
<1>4. k \in Nat /\ k < step["app"] /\ LoadAt(k, x) /\ LoadAt(step["app"], Step("app"))
  BY <1>2, <1>3 DEF StepAt
<1>5. QED
  BY <1>2, <1>4

(* Every step keeps that what load() has set was reached.                  *)
LEMMA ReachedStep ==
    ASSUME Types, Places, Order, NotYet, OneCommand, Reached, Next
    PROVE  Reached'
<1> "app" \in Threads /\ "callback" \in Threads /\ "app" # "callback"
  BY DEF Threads
<1> "clock" \in Parts /\ "vcodec" \in Parts /\ "sched" \in Parts /\ "vrend" \in Parts /\ "acodec" \in Parts /\ "arend" \in Parts
  BY PortSets
<1>0. past \subseteq past'
  BY PastGrows
<1>1. (Playing => Playing') /\ (status' \notin {"PLAYING", "PAUSED"} => status \notin {"PLAYING", "PAUSED"})
  BY PlayingStep DEF Evolves
<1>2. ASSUME state' = state, Done' = Done \/ Done' = {} PROVE Reached'
  BY <1>0, <1>1, <1>2 DEF Reached
<1>3. ASSUME NEW t \in Threads, Tells(t) PROVE Reached'
  <2>1. state' = state /\ Done' = Done
    BY <1>3, TellsIs, TellsSent DEF Still
  <2>2. QED
    BY <1>2, <2>1
<1>4. ASSUME Quiet PROVE Reached'
  <2>1. state' = state
    BY <1>4 DEF Quiet
  <2>2. ASSUME Ahead("app"), Done' = Done \cup {Step("app")} PROVE Reached'
    <3>1. ASSUME NEW c \in {"vcodec", "sched"}, Step("app") = SetState(c, "idle", "end") PROVE state[c] = "idle"
      BY <2>2, <3>1 DEF Ahead, SetState
    <3>2. ASSUME Step("app") = SetState("vrend", "idle", "log") PROVE state["vrend"] = "idle" \/ past' \cap {"late", "unsent"} # {}
      BY <2>2, <3>2 DEF Ahead, SetState
    <3>3. ASSUME NEW c \in {"acodec", "arend", "clock"}, Step("app") = SetState(c, "executing", "end") PROVE state[c] = "executing"
      BY <2>2, <3>3 DEF Ahead, SetState
    <3>4. QED
      BY <1>0, <1>1, <2>1, <2>2, <3>1, <3>2, <3>3 DEF Reached
  <2>3. ASSUME Done' = Done \cup SkippedSteps PROVE Reached'
    <3>1. /\ \A c \in {"vcodec", "sched"} : SetState(c, "idle", "end") \notin SkippedSteps
          /\ SetState("vrend", "idle", "log") \notin SkippedSteps
          /\ \A c : SetState(c, "executing", "end") \notin SkippedSteps
      BY DEF SkippedSteps, SetState, Connect, WaitPort
    <3>2. QED
      BY <1>0, <1>1, <2>1, <2>3, <3>1 DEF Reached
  <2>4. QED
    BY <1>2, <2>1, <2>2, <2>3, DoneStep DEF LoadMoves
<1>5. ASSUME NEW d \in Parts, Works(d) PROVE Reached'
  <2>1. Done' = Done
    BY <1>5, RestsIs DEF Works, Still
  <2>2. \A c \in Parts \ {d} : state'[c] = state[c]
    BY <1>5, WorksIs
  <2>3. \A S : Only(sent[d], S) => state'[d] \in S \cup {state[d]}
    BY <1>5, WorksOn
  <2>4. ASSUME ~Playing, NEW c \in {"vcodec", "sched", "vrend"}, state[c] = "idle" PROVE state'[c] = "idle"
    BY <2>2, <2>3, <2>4 DEF NotYet
  <2>5. ASSUME status \notin {"PLAYING", "PAUSED"}, NEW c \in {"acodec", "arend", "clock"}, SetState(c, "executing", "end") \in Done
        PROVE  state'[c] = "executing"
    <3>1. state[c] = "executing" /\ c \in Parts
      BY <2>5 DEF Reached
    <3>2. ~Broken
      BY <2>5, DoneIsBy
    <3>3. Calm(sent[c]) \/ InHand(c)
      BY <2>5, <3>1, <3>2 DEF OneCommand, GivenUp
    <3>4. ~InHand(c)
      <4>1. SUFFICES ASSUME InHand(c) PROVE FALSE
        OBVIOUS
      <4>2. /\ step["app"] <= Len(Script("app")) /\ Step("app").op = "set" /\ Step("app").on = c
            /\ SetsBy(Step("app")) /\ Step("app").to # "executing"
        BY <3>1, <4>1, AppSetsIs DEF InHand
      <4>3. call["app"] = "load"
        BY <2>5, <4>2 DEF SetsBy, Order
      <4>4. PICK i \in Nat : LoadAt(i, SetState(c, "executing", "end")) /\ i < step["app"]
                             /\ LoadAt(step["app"], Step("app")) /\ step["app"] \in Nat
        BY <2>5, <4>2, <4>3, Later
      <4>5. SetState(c, "executing", "end").op = "set" /\ SetState(c, "executing", "end").on = c
            /\ SetState(c, "executing", "end").to = "executing"
        BY DEF SetState
      <4>6. QED
        BY <4>2, <4>4, <4>5, LoadOrder
    <3>5. c = d => state'[c] = state[c]
      BY <1>5, <3>3, <3>4, WorksOn
    <3>6. QED
      BY <2>2, <3>1, <3>5
  <2>6. QED
    BY <1>0, <1>1, <2>1, <2>4, <2>5 DEF Reached
<1>6. QED
  BY <1>3, <1>4, <1>5, Kinds DEF Strides
-----------------------------------------------------------------------------
RunsNow ==
    /\ \A c \in Parts \ {"vrend"} : Started(c) => state[c] = "executing"
    /\ state["vrend"] \in {"idle", "executing"} /\ Only(sent["vrend"], {"executing"})
    /\ ~first \/ SetState("vrend", "executing", "log") \in DoneBy("callback") => state["vrend"] = "executing"
    /\ settings > 0 /\ call["callback"] = "none" => ~first

(* While it plays, the calls find what they use.                           *)
LEMMA PlayingKnows ==
    ASSUME Types, Places, Order, Known, Playing
    PROVE  "clock" \in handles /\ "vcodec" \in handles /\ content = Streams /\ status # "IDLE"
<1>1. status # "IDLE" /\ content = Streams
  BY DEF Order, Playing
<1>2. Make("clock") \in Done /\ Param("vcodec", "end") \in Done
  BY <1>1, LoadedStates DEF Streams
<1>3. QED
  BY <1>1, <1>2 DEF Known

(* Of what play() finds.                                                   *)
LEMMA RunsFirst ==
    ASSUME Types, Places, Order, NotYet, OneCommand, Reached, Clean, Call, status = "LOADED"
    PROVE  RunsNow'
<1> "vrend" \in Parts /\ "callback" \in Threads
  BY PortSets DEF Threads
<1>1. /\ call["app"] = "none" /\ ~waiting["app"] /\ content = Streams /\ state' = state /\ sent' = sent
      /\ status' = "LOADED" /\ first' = first /\ settings' = settings /\ DoneBy("app")' = {}
      /\ call'["app"] = "play" /\ Unmoved("callback")
  BY CallIs, Basics
<1>2. ~Playing
  BY <1>1 DEF Playing
<1>3. first /\ settings = 0 /\ call["callback"] # "change"
  BY <1>2 DEF Order, Types, TypeOK
<1>5. ASSUME NEW c \in Parts \ {"vrend"}, Started(c)' PROVE state'[c] = "executing"
  <2>1. c \in {"acodec", "arend", "clock"}
    BY <1>1, <1>5 DEF Started
  <2>2. SetState(c, "executing", "end") \in Done
    BY <1>1, <2>1, LoadedStates DEF Streams
  <2>3. QED
    BY <1>1, <2>1, <2>2 DEF Reached
<1>6. state["vrend"] = "idle"
  <2>1. SetState("vrend", "idle", "log") \in Done
    BY <1>1, LoadedStates DEF Streams
  <2>2. QED
    BY <1>2, <2>1 DEF Reached, Clean
<1>7. Only(sent["vrend"], {"executing"})
  BY <1>1, <1>2 DEF OneCommand, Broken, GivenUp, Clean, InHand, AppSets, Calm, Only
<1>8. SetState("vrend", "executing", "log") \notin DoneBy("callback")
  <2>1. call["callback"] = "none"
    BY <1>3, Basics
  <2>2. QED
    BY <2>1, DoneIs, Basics DEF StepAt
<1>9. QED
  BY <1>1, <1>3, <1>5, <1>6, <1>7, <1>8 DEF RunsNow, Unmoved

(* A call that broke off was not clean.                                    *)
LEMMA CleanEnds ==
    ASSUME Types, Places, Order, Known, Playing, NEW t \in Threads, Breaks(t), Clean'
    PROVE  FALSE
<1>1. "clock" \in handles /\ "vcodec" \in handles
  BY PlayingKnows
<1>2. StepAt(t, step[t], Step(t)) /\ call[t] # "load"
  <2>1. call["app"] # "load" /\ call["callback"] # "load"
    BY Basics DEF Playing, Order
  <2>2. QED
    BY <2>1, ThisStep DEF Breaks, Threads
<1>3. Step(t).op = "param" => Step(t).on \in handles
  BY <1>1, <1>2 DEF StepAt, PlayAt, ResumeAt, PauseAt, ChangeAt, Param, SetState, Disable, Connect
<1>4. QED
  BY <1>3 DEF Breaks, Clean

(* The steps of the application keep that what was started executes.       *)
LEMMA RunsApp ==
    ASSUME Types, Places, Order, Known, Playing, RunsNow, Strides("app"), Clean', NEW c \in Parts \ {"vrend"},
           Started(c)'
    PROVE  state'[c] = "executing"
<1> "app" \in Threads
  BY DEF Threads
<1>0. state'[c] = state[c]
  BY QuietIs DEF Strides
<1>1. SUFFICES state[c] = "executing"
  BY <1>0
<1>2. Started(c) => state[c] = "executing"
  BY DEF RunsNow
<1>3. CASE Unmoved("app") /\ status' = status
  BY <1>2, <1>3 DEF Unmoved, Started
<1>4. CASE Ahead("app")
  <2>1. /\ call' = call /\ status' = status /\ DoneBy("app")' = DoneBy("app") \cup {Step("app")}
    BY <1>4, AheadIs
  <2>2. ASSUME NEW f \in {"end", "log"}, Step("app") = SetState(c, "executing", f) PROVE state[c] = "executing"
    BY <1>4, <2>2 DEF Ahead, SetState, Clean
  <2>3. QED
    BY <1>2, <2>1, <2>2 DEF Started
<1>5. CASE Over("app")
  <2>1. call["app"] = "load"
    BY <1>5, OverIs
  <2>2. QED
    BY <2>1 DEF Order, Playing
<1>6. CASE Leaves("app")
  <2>1. Ends("app")
    BY <1>6, CleanEnds DEF Leaves
  <2>2. call' = [call EXCEPT !["app"] = "none"] /\ call["app"] # "none"
    BY <1>6, LeaveIs
  <2>3. call'["app"] = "none" /\ status' = "PLAYING" /\ call["app"] \in {"load", "play", "resume", "pause"}
    BY <2>2, Basics DEF Started, Calls
  <2>4. call["app"] \in {"play", "resume"}
    <3>1. call["app"] # "load"
      BY DEF Order, Playing
    <3>2. call["app"] = "pause" => status' = "PAUSED"
      BY <2>1 DEF Ends, Leave
    <3>3. QED
      BY <2>3, <3>1, <3>2
  <2>5. \A k \in Nat : \A x : StepAt("app", k, x) => x \in DoneBy("app")
    BY <1>6, <2>1, LeaveIs
  <2>6. c \in {"clock", "vcodec", "sched", "acodec", "arend"}
    BY PortSets
  <2>7. CASE call["app"] = "play"
    <3>1. /\ PlayAt(2, SetState("vcodec", "executing", "log")) /\ PlayAt(3, SetState("sched", "executing", "log"))
          /\ PlayAt(4, SetState("acodec", "executing", "log"))
      BY DEF PlayAt
    <3>2. c \in {"vcodec", "sched", "acodec"} => SetState(c, "executing", "log") \in DoneBy("app")
      BY <2>5, <2>7, <3>1 DEF StepAt
    <3>3. Started(c)
      BY <2>6, <2>7, <3>2 DEF Started
    <3>4. QED
      BY <1>2, <3>3
  <2>8. CASE call["app"] = "resume"
    <3>1. /\ ResumeAt(2, SetState("vcodec", "executing", "end")) /\ ResumeAt(4, SetState("acodec", "executing", "end"))
          /\ ResumeAt(5, SetState("arend", "executing", "end")) /\ ResumeAt(6, SetState("sched", "executing", "end"))
          /\ ResumeAt(7, SetState("clock", "executing", "end"))
      BY DEF ResumeAt
    <3>2. SetState(c, "executing", "end") \in DoneBy("app")
      BY <2>5, <2>6, <2>8, <3>1 DEF StepAt
    <3>3. Started(c)
      BY <2>8, <3>2 DEF Started
    <3>4. QED
      BY <1>2, <3>3
  <2>9. QED
    BY <2>4, <2>7, <2>8
<1>7. CASE Rests
  BY <1>3, <1>7, RestsIs DEF Still, Unmoved
<1>8. QED
  BY <1>4, <1>5, <1>6, <1>7 DEF Strides

(* So do those of the callback, for the video renderer.                    *)
LEMMA RunsCallback ==
    ASSUME Types, Places, Order, Known, Playing, RunsNow, Strides("callback"), Clean'
    PROVE  /\ ~first' \/ SetState("vrend", "executing", "log") \in DoneBy("callback")' => state'["vrend"] = "executing"
           /\ settings' > 0 /\ call'["callback"] = "none" => ~first'
<1> "callback" \in Threads /\ "vrend" \in Parts
  BY PortSets DEF Threads
<1>0. state'["vrend"] = state["vrend"] /\ settings' = settings
  BY QuietIs, RunSettings DEF Strides
<1> DEFINE x == SetState("vrend", "executing", "log")
<1>1. /\ ~first \/ x \in DoneBy("callback") => state["vrend"] = "executing"
      /\ settings > 0 /\ call["callback"] = "none" => ~first
  BY DEF RunsNow
<1>2. CASE Ahead("callback")
  <2>1. call' = call /\ first' = first /\ DoneBy("callback")' = DoneBy("callback") \cup {Step("callback")}
    BY <1>2, AheadIs
  <2>2. ASSUME Step("callback") = x PROVE state["vrend"] = "executing"
    BY <1>2, <2>2 DEF Ahead, SetState, Clean
  <2>3. QED
    BY <1>0, <1>1, <2>1, <2>2
<1>3. CASE Over("callback")
  BY <1>3, OverIs
<1>4. CASE Leaves("callback")
  <2>1. Ends("callback")
    BY <1>4, CleanEnds DEF Leaves
  <2>2. call["callback"] # "none" /\ DoneBy("callback")' = {}
    BY <1>4, LeaveIs
  <2>3. first' = FALSE
    BY <2>1, <2>2, Basics DEF Ends, Leave
  <2>4. \A k \in Nat : \A y : StepAt("callback", k, y) => y \in DoneBy("callback")
    BY <1>4, <2>1, LeaveIs
  <2>5. first => x \in DoneBy("callback")
    <3>1. first => ChangeAt(5, x)
      BY DEF ChangeAt
    <3>2. call["callback"] = "change"
      BY <2>2, Basics
    <3>3. QED
      BY <2>4, <3>1, <3>2 DEF StepAt
  <2>6. state["vrend"] = "executing"
    BY <1>1, <2>5
  <2>7. QED
    BY <1>0, <2>2, <2>3, <2>6
<1>5. CASE Rests
  <2>1. call' = call /\ first' = first /\ DoneBy("callback")' = DoneBy("callback")
    BY <1>5, RestsIs DEF Still
  <2>2. QED
    BY <1>0, <1>1, <2>1
<1>6. QED
  BY <1>2, <1>3, <1>4, <1>5 DEF Strides

(* Every step keeps it.                                                    *)
LEMMA RunsStep ==
    ASSUME Types, Places, Order, NotYet, Known, OneCommand, Reached, Runs, Next
    PROVE  Runs'
<1> "app" \in Threads /\ "callback" \in Threads /\ "app" # "callback" /\ "vrend" \in Parts
  BY PortSets DEF Threads
<1>0. past \subseteq past'
  BY PastGrows
<1>1. SUFFICES ASSUME Clean', Playing' PROVE RunsNow'
  BY DEF Runs, RunsNow
<1>2. Clean
  BY <1>0, <1>1 DEF Clean
<1>3. CASE ~Playing
  BY <1>1, <1>2, <1>3, PlayingStep, RunsFirst DEF Evolves
<1>4. CASE Playing
  <2>1. RunsNow
    BY <1>2, <1>4 DEF Runs, RunsNow
  <2> DEFINE x == SetState("vrend", "executing", "log")
  <2> DEFINE V == /\ ~first \/ x \in DoneBy("callback") => state["vrend"] = "executing"
                  /\ settings > 0 /\ call["callback"] = "none" => ~first
  <2>2. V
    BY <2>1 DEF RunsNow
  <2>3. ASSUME Quiet PROVE state'["vrend"] \in {"idle", "executing"} /\ Only(sent'["vrend"], {"executing"})
    BY <2>1, <2>3, QuietIs DEF RunsNow
  <2>4. ASSUME Quiet, Unmoved("app"), status' = status, NEW c \in Parts \ {"vrend"}, Started(c)' PROVE state'[c] = "executing"
    BY <2>1, <2>4, QuietIs DEF RunsNow, Started, Unmoved
  <2>5. ASSUME Strides("app") PROVE RunsNow'
    <3>1. \A c \in Parts \ {"vrend"} : Started(c)' => state'[c] = "executing"
      BY <1>1, <1>4, <2>1, <2>5, RunsApp
    <3>2. Unmoved("callback") /\ first' = first
      <4>1. CASE Leaves("app")
        BY <4>1, LeaveIs
      <4>2. CASE Rests
        BY <4>2, RestsIs DEF Still, Unmoved
      <4>3. QED
        BY <2>5, <4>1, <4>2, AheadIs, OverIs DEF Strides
    <3>3. state' = state /\ settings' = settings
      BY <2>5, RunSettings DEF Strides, Quiet
    <3>4. V'
      BY <2>2, <3>2, <3>3 DEF Unmoved
    <3>5. QED
      BY <2>3, <2>5, <3>1, <3>4 DEF RunsNow, Strides
  <2>6. ASSUME Strides("callback") PROVE RunsNow'
    <3>1. Quiet /\ Unmoved("app") /\ status' = status
      BY <2>6, CallbackStrides DEF Strides
    <3>2. V'
      BY <1>1, <1>4, <2>1, <2>6, RunsCallback
    <3>3. QED
      BY <2>3, <2>4, <3>1, <3>2 DEF RunsNow
  <2>7. ASSUME NEW t \in Threads, Tells(t) PROVE RunsNow'
    <3>1. /\ state' = state /\ settings' = settings /\ call' = call /\ first' = first /\ status' = status
          /\ \A u \in Threads : DoneBy(u)' = DoneBy(u)
      BY <2>7, TellsIs, TellsSent DEF Still, Tells, tunnelVars
    <3>2. Only(sent'["vrend"], {"executing"})
      <4>1. CASE Step(t).on = "vrend"
        <5>1. Step(t).to = "executing"
          BY <1>4, <2>7, <4>1, TellsWhich DEF SetState, Threads
        <5>2. \A S : Step(t).to \in S /\ Only(sent["vrend"], S) => Only(sent'["vrend"], S)
          BY <2>7, <4>1, TellsTo
        <5>3. QED
          BY <2>1, <5>1, <5>2 DEF RunsNow
      <4>2. CASE Step(t).on # "vrend"
        BY <2>1, <2>7, <4>2, TellsSent DEF RunsNow
      <4>3. QED
        BY <4>1, <4>2
    <3>3. \A c : Started(c)' <=> Started(c)
      BY <3>1 DEF Started
    <3>4. V'
      BY <2>2, <3>1
    <3>5. QED
      BY <2>1, <3>1, <3>2, <3>3, <3>4 DEF RunsNow
  <2>8. ASSUME NEW d \in Parts, Works(d) PROVE RunsNow'
    <3>1. /\ settings' = settings /\ call' = call /\ first' = first /\ status' = status
          /\ \A u \in Threads : DoneBy(u)' = DoneBy(u)
      BY <2>8, RestsIs, WorksIs DEF Still, Works
    <3>2. \A c : Started(c)' <=> Started(c)
      BY <3>1 DEF Started
    <3>3. \A c \in Parts \ {d} : sent'[c] = sent[c] /\ state'[c] = state[c]
      BY <2>8, WorksIs
    <3>4. \A S : Only(sent[d], S) => Only(sent'[d], S) /\ state'[d] \in S \cup {state[d]}
      BY <2>8, WorksOn
    <3>5. Only(sent'["vrend"], {"executing"}) /\ state'["vrend"] \in {"executing", state["vrend"]}
      BY <2>1, <3>3, <3>4 DEF RunsNow
    <3>6. V'
      BY <2>2, <3>1, <3>5
    <3>7. ASSUME NEW c \in Parts \ {"vrend"}, Started(c) PROVE state'[c] = "executing"
      <4>1. state[c] = "executing"
        BY <2>1, <3>7 DEF RunsNow
      <4>2. Calm(sent[c]) \/ InHand(c)
        BY <1>2, <1>4 DEF OneCommand, Broken, Playing, Order, GivenUp, Clean
      <4>3. ~InHand(c)
        <5>1. SUFFICES ASSUME InHand(c) PROVE FALSE
          OBVIOUS
        <5>2. SetsBy(Step("app")) /\ Step("app").to # "executing"
          BY <4>1, <5>1, AppSetsIs DEF InHand
        <5>3. call["app"] = "pause"
          BY <1>4, <5>2 DEF SetsBy
        <5>4. QED
          BY <3>7, <5>3 DEF Started
      <4>4. c = d => state'[c] = state[c]
        BY <2>8, <4>2, <4>3, WorksOn
      <4>5. QED
        BY <3>3, <4>1, <4>4
    <3>8. QED
      BY <2>1, <3>2, <3>5, <3>6, <3>7 DEF RunsNow
  <2>9. ASSUME Call, Quiet PROVE RunsNow'
    <3>1. /\ DoneBy("app")' = {} /\ Unmoved("callback") /\ state' = state /\ settings' = settings
          /\ first' = first /\ call["app"] = "none" /\ status' = status
      BY <2>9, CallIs
    <3>2. call'["app"] \in {"resume", "pause"}
      BY <1>4, <2>9, <3>1, CallIs, Basics DEF Playing
    <3>3. \A c : ~Started(c)'
      BY <3>1, <3>2 DEF Started
    <3>4. V'
      BY <2>2, <3>1 DEF Unmoved
    <3>5. QED
      BY <2>3, <2>9, <3>3, <3>4 DEF RunsNow
  <2>10. ASSUME PortSettingsChange, Quiet PROVE RunsNow'
    <3>1. /\ DoneBy("callback")' = {} /\ Unmoved("app") /\ state' = state /\ first' = first /\ status' = status
          /\ call'["callback"] = "change"
      BY <2>10, SettingsIs, Basics
    <3>2. V'
      BY <2>2, <3>1
    <3>3. QED
      BY <2>3, <2>4, <2>10, <3>1, <3>2 DEF RunsNow
  <2>11. QED
    BY <2>5, <2>6, <2>7, <2>8, <2>9, <2>10, Kinds DEF Threads
<1>5. QED
  BY <1>3, <1>4
-----------------------------------------------------------------------------
(* Commands are told apart by their kind and argument.                     *)
LEMMA SameCommand ==
    ASSUME NEW k, NEW x, NEW l, NEW y, Command(k, x) = Command(l, y)
    PROVE  k = l /\ x = y
<1>1. Command(k, x).kind = k /\ Command(k, x).arg = x /\ Command(l, y).kind = l /\ Command(l, y).arg = y
  BY DEF Command
<1>2. QED
  BY <1>1

(* What further commands do to those for a port.                           *)
LEMMA MoreCommands ==
    ASSUME NEW q \in Seq(AnyCommand), NEW r \in Seq(AnyCommand), NEW p,
           Len(q) <= Len(r), \A i \in 1 .. Len(q) : r[i] = q[i]
    PROVE  /\ NoOn(q, p) /\ (\A i \in 1 .. Len(r) : i > Len(q) => r[i] # Command("on", p)) => NoOn(r, p)
           /\ Followed(q, p) /\ (\A i \in 1 .. Len(r) : i > Len(q) => r[i] # Command("off", p)) => Followed(r, p)
           /\ HasOn(q, p) => HasOn(r, p)
           /\ Len(r) > Len(q) /\ r[Len(r)] = Command("on", p) => HasOn(r, p) /\ Followed(r, p)
<1>1. Len(q) \in Nat /\ Len(r) \in Nat
  OBVIOUS
<1>2. Command("on", p) # Command("off", p)
  BY SameCommand
<1> DEFINE a == Command("on", p)  b == Command("off", p)
<1>3. ASSUME Followed(q, p), \A i \in 1 .. Len(r) : i > Len(q) => r[i] # b PROVE Followed(r, p)
  <2>1. SUFFICES ASSUME NEW i \in 1 .. Len(r), r[i] = b PROVE \E j \in i + 1 .. Len(r) : r[j] = a
    BY DEF Followed
  <2>2. i \in 1 .. Len(q) /\ q[i] = b
    BY <1>1, <1>3, <2>1
  <2>3. PICK j \in i + 1 .. Len(q) : q[j] = a
    BY <1>3, <2>2 DEF Followed
  <2>4. j \in i + 1 .. Len(r) /\ r[j] = a
    BY <1>1, <2>2, <2>3
  <2>5. QED
    BY <2>4
<1>4. ASSUME Len(r) > Len(q), r[Len(r)] = a PROVE HasOn(r, p) /\ Followed(r, p)
  <2>1. Len(r) \in 1 .. Len(r)
    BY <1>1, <1>4
  <2>2. ASSUME NEW i \in 1 .. Len(r), r[i] = b PROVE \E j \in i + 1 .. Len(r) : r[j] = a
    <3>1. i # Len(r)
      BY <1>2, <1>4, <2>2
    <3>2. Len(r) \in i + 1 .. Len(r)
      BY <1>1, <2>2, <3>1
    <3>3. QED
      BY <1>4, <3>2
  <2>3. QED
    BY <1>4, <2>1, <2>2 DEF HasOn, Followed
<1>5. NoOn(q, p) /\ (\A i \in 1 .. Len(r) : i > Len(q) => r[i] # Command("on", p)) => NoOn(r, p)
  BY <1>1 DEF NoOn
<1>6. HasOn(q, p) => HasOn(r, p)
  BY <1>1 DEF HasOn
<1>7. QED
  BY <1>3, <1>4, <1>5, <1>6

(* What remains of them when the first is carried out.                     *)
LEMMA LessCommands ==
    ASSUME NEW q \in Seq(AnyCommand), NEW p, q # <<>>
    PROVE  /\ NoOn(q, p) => NoOn(Tail(q), p) /\ q[1] # Command("on", p)
           /\ Followed(q, p) => Followed(Tail(q), p) /\ (q[1] = Command("off", p) => HasOn(Tail(q), p))
           /\ HasOn(q, p) => q[1] = Command("on", p) \/ HasOn(Tail(q), p)
<1> DEFINE a == Command("on", p)  b == Command("off", p)  r == Tail(q)
<1>1. /\ r \in Seq(AnyCommand) /\ Len(r) = Len(q) - 1 /\ 1 \in 1 .. Len(q) /\ Len(q) \in Nat
      /\ \A i \in 1 .. Len(r) : r[i] = q[i + 1] /\ i + 1 \in 1 .. Len(q)
  OBVIOUS
<1> HIDE DEF r
<1>2. \A j \in 2 .. Len(q) : j - 1 \in 1 .. Len(r) /\ r[j - 1] = q[j]
  <2>1. SUFFICES ASSUME NEW j \in 2 .. Len(q) PROVE j - 1 \in 1 .. Len(r) /\ r[j - 1] = q[j]
    OBVIOUS
  <2>2. j - 1 \in 1 .. Len(r) /\ (j - 1) + 1 = j
    BY <1>1
  <2>3. QED
    BY <1>1, <2>2
<1>3. NoOn(q, p) => NoOn(r, p) /\ q[1] # a
  BY <1>1 DEF NoOn
<1>4. HasOn(q, p) => q[1] = a \/ HasOn(r, p)
  <2>1. SUFFICES ASSUME NEW i \in 1 .. Len(q), q[i] = a, q[1] # a PROVE HasOn(r, p)
    BY DEF HasOn
  <2>2. i \in 2 .. Len(q)
    BY <1>1, <2>1
  <2>3. QED
    BY <1>2, <2>1, <2>2 DEF HasOn
<1>5. ASSUME Followed(q, p) PROVE Followed(r, p) /\ (q[1] = b => HasOn(r, p))
  <2>1. ASSUME NEW i \in 1 .. Len(r), r[i] = b PROVE \E j \in i + 1 .. Len(r) : r[j] = a
    <3>1. i + 1 \in 1 .. Len(q) /\ q[i + 1] = b
      BY <1>1, <2>1
    <3>2. PICK j \in (i + 1) + 1 .. Len(q) : q[j] = a
      BY <1>5, <3>1 DEF Followed
    <3>3. j \in 2 .. Len(q) /\ j - 1 \in i + 1 .. Len(r)
      BY <1>1, <2>1, <3>1, <3>2
    <3>4. r[j - 1] = a
      BY <1>2, <3>2, <3>3
    <3>5. QED
      BY <3>3, <3>4
  <2>2. ASSUME q[1] = b PROVE HasOn(r, p)
    <3>1. PICK j \in 1 + 1 .. Len(q) : q[j] = a
      BY <1>1, <1>5, <2>2 DEF Followed
    <3>2. QED
      BY <1>2, <3>1 DEF HasOn
  <2>3. QED
    BY <2>1, <2>2 DEF Followed
<1>6. QED
  BY <1>3, <1>4, <1>5 DEF r

(* A thread's step puts command m behind those of component c.             *)
News(c, m) == \E i \in 1 .. Len(sent'[c]) : i > Len(sent[c]) /\ sent'[c][i] = m

(* A component that is sent nothing has no new command.                    *)
LEMMA NoNews ==
    ASSUME NEW c \in Parts, NEW m, Types, Places, sent'[c] = sent[c]
    PROVE  ~News(c, m)
<1>1. Len(sent[c]) \in Nat
  BY Basics
<1>2. QED
  BY <1>1 DEF News

(* The new command is the one that was added.                              *)
LEMMA OneNews ==
    ASSUME NEW c \in Parts, NEW m, NEW n, Types, Places, sent'[c] = Append(sent[c], n), News(c, m)
    PROVE  m = n
<1>1. sent[c] \in Seq(AnyCommand)
  BY Basics
<1>2. Len(Append(sent[c], n)) = Len(sent[c]) + 1 /\ Append(sent[c], n)[Len(sent[c]) + 1] = n /\ Len(sent[c]) \in Nat
  BY <1>1
<1>3. QED
  BY <1>2 DEF News

(* The new commands of Send() are for its ports.                           *)
LEMMA SendNews ==
    ASSUME Types, Places, NEW kind \in {"on", "off"}, NEW ports \in SUBSET Ports,
           \A p, q \in ports : Owner(p) = Owner(q) => p = q, sent' = Send(kind, ports),
           NEW c \in Parts, NEW m, News(c, m)
    PROVE  \E x \in ports : m = Command(kind, x)
<1>1. sent \in [Parts -> Seq(AnyCommand)]
  BY Basics
<1>2. /\ \A p \in ports : sent'[Owner(p)] = Append(sent[Owner(p)], Command(kind, p))
      /\ \A d \in Parts : (\A p \in ports : Owner(p) # d) => sent'[d] = sent[d]
  BY <1>1, SendIs
<1>3. PICK p \in ports : Owner(p) = c
  BY <1>2, NoNews
<1>4. m = Command(kind, p)
  BY <1>2, <1>3, OneNews
<1>5. QED
  BY <1>4

(* The new commands of a component that is made disable ports.             *)
LEMMA MakeNews ==
    ASSUME Types, Places, NEW t \in Threads, MakePart(t), NEW c \in Parts, NEW m, News(c, m)
    PROVE  c = Step(t).on /\ m.kind = "off" /\ Step(t).op = "make" /\ step[t] <= Len(Script(t)) /\ ~waiting[t]
<1>1. ~waiting[t] /\ step[t] <= Len(Script(t)) /\ Step(t).op = "make"
  BY DEF MakePart, Makes, At, Step
<1>2. Step(t).on \in Parts
  BY <1>1, ThisStep DEF StepKind
<1> DEFINE d == Step(t).on
<1>3. PICK what \in {"none", "unread", "unsent"}, bad \in DOMAIN PortsOf[d] :
        LET told == IF what = "none" THEN PortsOf[d] ELSE RemoveAt(PortsOf[d], bad)
        IN  sent' = [sent EXCEPT ![d] = @ \o [i \in DOMAIN told |-> Command("off", told[i])]]
  BY DEF MakePart
<1> DEFINE told == IF what = "none" THEN PortsOf[d] ELSE RemoveAt(PortsOf[d], bad)
<1>4. sent' = [sent EXCEPT ![d] = @ \o [i \in DOMAIN told |-> Command("off", told[i])]]
  BY <1>3
<1>5. told \in Seq(ToSet(PortsOf[d]))
  <2>1. PortsOf[d] \in Seq(ToSet(PortsOf[d]))
    BY <1>2, PortsOfIs
  <2>2. RemoveAt(PortsOf[d], bad) \in Seq(ToSet(PortsOf[d]))
    BY <2>1, RemoveIs
  <2>3. QED
    BY <2>1, <2>2
<1> HIDE DEF told
<1> DEFINE r == [i \in DOMAIN told |-> Command("off", told[i])]
<1>6. r \in Seq(AnyCommand)
  BY <1>2, <1>5, OffsAre
<1>7. \A i \in 1 .. Len(r) : r[i].kind = "off"
  <2>1. DOMAIN r = DOMAIN told /\ \A i \in DOMAIN r : r[i].kind = "off"
    BY DEF Command
  <2>2. DOMAIN r = 1 .. Len(r)
    BY <1>6
  <2>3. QED
    BY <2>1, <2>2
<1>8. sent' = [sent EXCEPT ![d] = sent[d] \o r]
  BY <1>4
<1> HIDE DEF r
<1>9. c = d
  <2>1. c # d => sent'[c] = sent[c]
    BY <1>8, Basics
  <2>2. QED
    BY <2>1, NoNews
<1>10. m.kind = "off"
  <2>1. sent[c] \in Seq(AnyCommand) /\ sent'[c] = sent[c] \o r
    BY <1>8, <1>9, Basics
  <2>2. PICK i \in 1 .. Len(sent'[c]) : i > Len(sent[c]) /\ sent'[c][i] = m
    BY DEF News
  <2> DEFINE q == sent[c]
  <2>3. q \in Seq(AnyCommand) /\ i \in 1 .. Len(q \o r) /\ i > Len(q) /\ (q \o r)[i] = m
    BY <2>1, <2>2
  <2> HIDE DEF q
  <2>4. i - Len(q) \in 1 .. Len(r) /\ m = r[i - Len(q)]
    BY <1>6, <2>3
  <2>5. QED
    BY <1>7, <2>4
<1>11. QED
  BY <1>1, <1>9, <1>10

(* The steps that ask for a port to be enabled, and to be disabled.        *)
AsksOn(t, p) ==
    \/ EnablePort(t) /\ Step(t).to = "on" /\ p = Step(t).on
    \/ SetupTunnel(t) /\ p \in {Step(t).on, Step(t).to}
AsksOff(t, p) ==
    \/ EnablePort(t) /\ Step(t).to = "off" /\ p = Step(t).on
    \/ MakePart(t) /\ Owner(p) = Step(t).on

(* Where new commands for a port come from.                                *)
LEMMA RunNews ==
    ASSUME Types, Places, NEW t \in Threads, Run(t), NEW p \in Ports
    PROVE  /\ News(Owner(p), Command("on", p)) => AsksOn(t, p)
           /\ News(Owner(p), Command("off", p)) => AsksOff(t, p)
<1> DEFINE c == Owner(p)
<1>1. c \in Parts
  BY Owners
<1>2. ASSUME sent' = sent PROVE \A m : ~News(c, m)
  BY <1>1, <1>2, NoNews
<1>3. CASE MakePart(t)
  <2>1. Command("on", p).kind = "on"
    BY DEF Command
  <2>2. QED
    BY <1>1, <1>3, <2>1, MakeNews DEF AsksOff
<1>4. CASE MakeNothing(t) \/ MakeFails(t) \/ SetParam(t) \/ AllocateBuffer(t) \/ WaitForPortEnable(t) \/ Return(t) \/ SetStartTime(t)
  <2>1. sent' = sent
    BY <1>4 DEF MakeNothing, MakeFails, SetParam, AllocateBuffer, WaitForPortEnable, Return, SetStartTime, Crash, componentVars
  <2>2. QED
    BY <1>2, <2>1
<1>5. CASE SkipSetState(t) \/ EndWait(t)
  <2>1. sent' = sent
    BY <1>5 DEF SkipSetState, EndWait, componentVars
  <2>2. QED
    BY <1>2, <2>1
<1>6. CASE SendSetState(t)
  <2>1. sent' = sent \/ sent' = [sent EXCEPT ![Step(t).on] = Append(sent[Step(t).on], Command("state", Step(t).to))]
    BY <1>6 DEF SendSetState
  <2>2. sent'[c] = sent[c] \/ sent'[c] = Append(sent[c], Command("state", Step(t).to))
    BY <1>1, <2>1, Basics
  <2>3. ASSUME NEW k \in {"on", "off"}, News(c, Command(k, p)) PROVE FALSE
    BY <1>1, <2>2, <2>3, NoNews, OneNews, SameCommand
  <2>4. QED
    BY <2>3
<1>7. CASE EnablePort(t)
  <2>1. sent' = sent \/ sent' = Send(Step(t).to, {Step(t).on})
    BY <1>7 DEF EnablePort
  <2>2. StepKind(Step(t)) /\ Step(t).op = "port"
    BY <1>7, ThisStep DEF EnablePort, At, Step
  <2>3. Step(t).to \in {"on", "off"} /\ {Step(t).on} \in SUBSET Ports
    BY <2>2 DEF StepKind
  <2>4. ASSUME NEW k \in {"on", "off"}, News(c, Command(k, p)) PROVE k = Step(t).to /\ p = Step(t).on
    <3>1. sent' = Send(Step(t).to, {Step(t).on})
      BY <1>2, <2>1, <2>4
    <3>2. \E x \in {Step(t).on} : Command(k, p) = Command(Step(t).to, x)
      BY <1>1, <2>3, <2>4, <3>1, SendNews
    <3>3. QED
      BY <3>2, SameCommand
  <2>5. QED
    BY <1>7, <2>4 DEF AsksOn, AsksOff
<1>8. CASE SetupTunnel(t)
  <2> DEFINE x == Step(t).on  y == Step(t).to
  <2>1. \E ports \in {{}, {x}, {x, y}} : sent' = Send("on", ports)
    BY <1>8 DEF SetupTunnel
  <2>2. StepKind(Step(t)) /\ Step(t).op = "connect"
    BY <1>8, ThisStep DEF SetupTunnel, At, Step
  <2>3. x \in Ports /\ y \in Ports /\ Owner(x) # Owner(y)
    BY <2>2 DEF StepKind
  <2>4. PICK ports \in {{}, {x}, {x, y}} : sent' = Send("on", ports)
    BY <2>1
  <2>5. ports \in SUBSET Ports /\ \A a, b \in ports : Owner(a) = Owner(b) => a = b
    BY <2>3
  <2>6. ASSUME NEW k \in {"on", "off"}, News(c, Command(k, p)) PROVE k = "on" /\ p \in {x, y}
    <3>1. \E z \in ports : Command(k, p) = Command("on", z)
      BY <1>1, <2>4, <2>5, <2>6, SendNews
    <3>2. QED
      BY <3>1, SameCommand
  <2>7. QED
    BY <1>8, <2>6 DEF AsksOn
<1>9. QED
  BY <1>3, <1>4, <1>5, <1>6, <1>7, <1>8 DEF Run

(* The steps that change what is connected.                                *)
LEMMA RunOns ==
    ASSUME Types, Places, NEW t \in Threads, Run(t)
    PROVE  /\ tunnels' = tunnels \/ (SetupTunnel(t) /\ tunnels' = tunnels \cup {<<Step(t).on, Step(t).to>>})
           /\ on' = on \/ (MakePart(t) /\ on' = on \cup ToSet(PortsOf[Step(t).on]))
           /\ agreed' = agreed \/ (SetupTunnel(t) /\ agreed' = settings)
<1>1. CASE MakePart(t)
  BY <1>1 DEF MakePart, tunnelVars
<1>2. CASE MakeNothing(t) \/ MakeFails(t) \/ SetParam(t) \/ AllocateBuffer(t) \/ WaitForPortEnable(t) \/ Return(t) \/ SetStartTime(t)
  BY <1>2 DEF MakeNothing, MakeFails, SetParam, AllocateBuffer, WaitForPortEnable, Return, SetStartTime, Crash, componentVars, tunnelVars
<1>3. CASE SkipSetState(t) \/ EndWait(t) \/ SendSetState(t) \/ EnablePort(t)
  BY <1>3 DEF SkipSetState, EndWait, SendSetState, EnablePort, componentVars, tunnelVars
<1>4. CASE SetupTunnel(t)
  BY <1>4 DEF SetupTunnel
<1>5. QED
  BY <1>1, <1>2, <1>3, <1>4 DEF Run

(* Steps of the callback that name a port.                                 *)
LEMMA CallbackPorts ==
    ASSUME Types, Places, Order, step["callback"] <= Len(Script("callback"))
    PROVE  /\ Playing /\ call["callback"] = "change" /\ ChangeAt(step["callback"], Step("callback"))
           /\ Step("callback").op = "port" => \E p \in ToSet(VideoJoin) : Step("callback") = Disable(p)
           /\ Step("callback").op = "connect" => Step("callback") = Connect("vcodec.out", "sched.in", "log")
           /\ Step("callback").op # "make" /\ Step("callback").fails \in {"end", "log"}
           /\ Step("callback").fails = "end" => Step("callback") = Param("vcodec", "end")
           /\ ToSet(VideoJoin) = {"vcodec.out", "sched.in"}
<1> "callback" \in Threads
  BY DEF Threads
<1>1. StepAt("callback", step["callback"], Step("callback")) /\ call["callback"] # "none"
  BY ThisStep
<1>2. call["callback"] = "change" /\ Playing
  BY <1>1, Basics DEF Order
<1>3. ChangeAt(step["callback"], Step("callback"))
  BY <1>1, <1>2 DEF StepAt
<1>4. ToSet(VideoJoin) = {"vcodec.out", "sched.in"}
  BY DEF VideoJoin, ToSet
<1>5. QED
  BY <1>2, <1>3, <1>4 DEF ChangeAt, Disable, Param, Connect, SetState

(* Of the application only load() makes, enables and connects.             *)
LEMMA AppPorts ==
    ASSUME Types, Places, Order, step["app"] <= Len(Script("app")), Step("app").op \in {"make", "port", "connect"}
    PROVE  call["app"] = "load" /\ LoadAt(step["app"], Step("app")) /\ step["app"] \in Nat
<1> "app" \in Threads
  BY DEF Threads
<1>1. StepAt("app", step["app"], Step("app")) /\ step["app"] \in Nat /\ call["app"] # "change"
  BY ThisStep, Basics
<1>2. QED
  BY <1>1 DEF StepAt, PlayAt, ResumeAt, PauseAt, SetState, Param

(* A thread that moves does not rest.                                      *)
LEMMA NotRests ==
    ASSUME Types, Places, NEW t \in Threads, call[t] # "none", Forward(t, 1) \/ Forward(t, 4) \/ Leave(t, FALSE)
    PROVE  ~Rests
<1>1. Forward(t, 1) \/ Forward(t, 4) => step' # step
  BY Basics DEF Forward
<1>2. Leave(t, FALSE) => call' # call
  BY Basics DEF Leave
<1>3. QED
  BY <1>1, <1>2 DEF Rests, threadVars

(* A step that has asked for a port is noted among the steps done.         *)
LEMMA Noted ==
    ASSUME Types, Places, Order, Next, NEW t \in Threads, EnablePort(t) \/ SetupTunnel(t) \/ MakePart(t)
    PROVE  /\ t = "app" => call["app"] = "load" /\ LoadAt(step["app"], Step("app")) /\ step["app"] \in Nat
                           /\ (Broken' \/ (Done' = Done \cup {Step("app")} /\ Forward("app", 1))
                               \/ (Over("app") /\ Step("app") \in Done'))
           /\ ~waiting[t] /\ step[t] <= Len(Script(t))
           /\ t = "callback" => Step(t).op \in {"port", "connect"} /\ Playing /\ Done' = Done
<1>1. ~waiting[t] /\ step[t] <= Len(Script(t)) /\ Step(t).op \in {"make", "port", "connect"}
  BY DEF EnablePort, SetupTunnel, MakePart, Makes, At, Step
<1>2. Moves(t)
  BY MakeMoves, PortMoves, TunnelMoves
<1>3. Forward(t, 1) \/ Forward(t, 4) \/ Leave(t, FALSE)
  <2>1. StepKind(Step(t))
    BY <1>1, ThisStep
  <2>2. Forward(t, 1) \/ Fail(t)
    BY DEF EnablePort, SetupTunnel, MakePart
  <2>3. QED
    BY <2>1, <2>2, FailIs
<1>4. ~Rests
  <2>1. call[t] # "none"
    BY <1>1, ThisStep
  <2>2. QED
    BY <1>3, <2>1, NotRests
<1>5. Ahead(t) \/ Over(t) \/ (Breaks(t) /\ ~Ends(t))
  <2>1. step[t] \in Nat /\ Len(Script(t)) \in Nat
    BY Basics
  <2>2. ~Ends(t)
    <3>1. SUFFICES ASSUME Ends(t) PROVE FALSE
      OBVIOUS
    <3>2. step[t] > Len(Script(t)) /\ step[t] <= Len(Script(t))
      BY <1>1, <3>1 DEF Ends
    <3> DEFINE n == Len(Script(t))  k == step[t]
    <3>3. n \in Nat /\ k \in Nat /\ k > n /\ k <= n
      BY <2>1, <3>2
    <3> HIDE DEF n, k
    <3>4. QED
      BY <3>3
  <2>3. QED
    BY <1>2, <1>4, <2>2 DEF Moves
<1>6. ASSUME t = "app" PROVE call["app"] = "load" /\ LoadAt(step["app"], Step("app")) /\ step["app"] \in Nat
  BY <1>1, <1>6, AppPorts
<1>7. ASSUME t = "app"
      PROVE  Broken' \/ (Done' = Done \cup {Step("app")} /\ Forward("app", 1)) \/ (Over("app") /\ Step("app") \in Done')
  <2>1. CASE Ahead(t)
    BY <1>6, <1>7, <2>1, AheadIs DEF Ahead
  <2>2. CASE Over(t)
    BY <1>6, <1>7, <2>2, OverIs
  <2>3. CASE Breaks(t) /\ ~Ends(t)
    BY <1>6, <1>7, <2>3, LeaveIs DEF Leaves
  <2>4. QED
    BY <1>5, <2>1, <2>2, <2>3
<1>8. ASSUME t = "callback" PROVE Step(t).op \in {"port", "connect"} /\ Playing /\ Done' = Done
  <2>1. Step(t).op # "make" /\ Playing
    BY <1>1, <1>8, CallbackPorts
  <2>2. Done' = Done
    BY <1>5, <1>8, AheadIs, OverIs, LeaveIs DEF Leaves
  <2>3. QED
    BY <1>1, <2>1, <2>2
<1>9. QED
  BY <1>1, <1>6, <1>7, <1>8

(* A port that was asked for is touched.                                   *)
LEMMA NowTouched ==
    ASSUME Types, Places, Order, Next, NEW t \in Threads, NEW p, AsksOn(t, p)
    PROVE  Broken' \/ Touched(p)'
<1>1. EnablePort(t) \/ SetupTunnel(t)
  BY DEF AsksOn
<1>2. CASE t = "app"
  <2>1. Broken' \/ Step("app") \in Done'
    BY <1>1, <1>2, Noted
  <2>2. \/ Step("app").op = "connect" /\ p \in {Step("app").on, Step("app").to}
        \/ Step("app").op = "port" /\ Step("app").on = p
    <3>1. EnablePort("app") => Step("app").op = "port"
      BY DEF EnablePort, At, Step
    <3>2. SetupTunnel("app") => Step("app").op = "connect"
      BY DEF SetupTunnel, At, Step
    <3>3. QED
      BY <1>2, <3>1, <3>2 DEF AsksOn
  <2>3. Touches(Step("app"), p)
    BY <2>2 DEF Touches
  <2>4. QED
    BY <2>1, <2>3 DEF Touched, Touches
<1>3. CASE t = "callback"
  <2>1. step[t] <= Len(Script(t)) /\ Playing /\ Done' = Done
    BY <1>1, <1>3, Noted
  <2>2. p \in {"vcodec.out", "sched.in"}
    <3>1. CASE EnablePort(t)
      <4>1. Step(t).op = "port"
        BY <3>1 DEF EnablePort, At, Step
      <4>2. \E x : Step(t) = Disable(x)
        BY <1>3, <2>1, <4>1, CallbackPorts
      <4>3. Step(t).to = "off"
        BY <4>2 DEF Disable
      <4>4. ~SetupTunnel(t)
        BY <4>1 DEF SetupTunnel, At, Step
      <4>5. QED
        BY <4>3, <4>4 DEF AsksOn
    <3>2. CASE SetupTunnel(t)
      <4>1. Step(t).op = "connect"
        BY <3>2 DEF SetupTunnel, At, Step
      <4>2. Step(t) = Connect("vcodec.out", "sched.in", "log")
        BY <1>3, <2>1, <4>1, CallbackPorts
      <4>3. ~EnablePort(t)
        BY <4>1 DEF EnablePort, At, Step
      <4>4. QED
        BY <4>2, <4>3 DEF AsksOn, Connect
    <3>3. QED
      BY <1>1, <3>1, <3>2
  <2>3. status # "IDLE" /\ "video" \in content
    BY <2>1 DEF Playing, Order, Streams
  <2>4. Connect("vcodec.out", "sched.in", "end") \in Done
    BY <2>3, LoadContains, DoneIsBy
  <2>5. Touches(Connect("vcodec.out", "sched.in", "end"), p)
    BY <2>2 DEF Touches, Connect
  <2>6. QED
    BY <2>1, <2>4, <2>5 DEF Touched
<1>4. QED
  BY <1>2, <1>3 DEF Threads
-----------------------------------------------------------------------------
(* What was on its way stays in front of what is new.                      *)
LEMMA RunPrefix ==
    ASSUME Types, Places, NEW t \in Threads, Strides(t) \/ Tells(t), NEW c \in Parts
    PROVE  /\ sent[c] \in Seq(AnyCommand) /\ sent'[c] \in Seq(AnyCommand) /\ state'[c] = state[c]
           /\ Len(sent[c]) <= Len(sent'[c]) /\ \A i \in 1 .. Len(sent[c]) : sent'[c][i] = sent[c][i]
<1>1. sent[c] \in Seq(AnyCommand)
  BY Basics
<1>2. CASE Strides(t)
  BY <1>1, <1>2, QuietIs DEF Strides, Adds
<1>3. CASE Tells(t)
  <2> DEFINE m == Command("state", Step(t).to)
  <2>1. sent'[c] = sent[c] \/ sent'[c] = Append(sent[c], m)
    BY <1>3, TellsSent
  <2>2. state' = state /\ sent'[c] \in Seq(AnyCommand)
    BY <1>3, TellsSent
  <2> HIDE DEF m
  <2>3. Len(sent[c]) <= Len(sent'[c]) /\ \A i \in 1 .. Len(sent[c]) : sent'[c][i] = sent[c][i]
    BY <1>1, <2>1
  <2>4. QED
    BY <1>1, <2>2, <2>3
<1>4. QED
  BY <1>2, <1>3

(* Only the command for a port changes whether it is enabled.              *)
LEMMA WorksOns ==
    ASSUME Types, Places, NEW d \in Parts, Works(d), NEW p \in Ports
    PROVE  /\ p \in on' => p \in on \/ (d = Owner(p) /\ CarryOut(d) /\ sent[d][1] = Command("on", p))
           /\ p \in on => p \in on' \/ (d = Owner(p) /\ CarryOut(d) /\ sent[d][1] = Command("off", p))
           /\ CarryOut(d) /\ sent[d][1] = Command("on", p) => p \in on'
<1> DEFINE m == Head(sent[d])
<1>1. sent[d][1] = m /\ m \in CommandsOf(d)
  BY WorksIs, Basics, TailKeeps
<1>2. \/ on' = on /\ ~CarryOut(d)
      \/ CarryOut(d) /\ on' = CASE m.kind = "on" -> on \cup {m.arg}
                                [] m.kind = "off" -> on \ {m.arg}
                                [] m.kind = "state" -> on
  BY DEF Works, CarryOut, Refuse
<1>3. m.kind \in {"on", "off", "state"}
  BY <1>1 DEF CommandsOf, PortCommands, Command
<1>4. m.kind \in {"on", "off"} => m = Command(m.kind, m.arg) /\ m.arg \in ToSet(PortsOf[d]) /\ Owner(m.arg) = d
  BY <1>1, Owners DEF CommandsOf, PortCommands, Command
<1>5. m = Command("on", p) => m.kind = "on" /\ m.arg = p
  BY DEF Command
<1> HIDE DEF m
<1>6. QED
  BY <1>1, <1>2, <1>3, <1>4, <1>5

(* What is done stays done.                                                *)
LEMMA DoneGrows ==
    ASSUME Types, Places, Order, Next, ~Broken'
    PROVE  Done \subseteq Done' /\ \A p : Touched(p) => Touched(p)'
<1>1. Done \subseteq Done'
  BY DoneStep DEF LoadMoves
<1>2. QED
  BY <1>1 DEF Touched

(* A component that is made was not told anything before.                  *)
LEMMA MadeFresh ==
    ASSUME Types, Places, Order, Fresh, NEW t \in Threads, MakePart(t), Next
    PROVE  /\ t = "app" /\ state[Step(t).on] = "loaded"
           /\ \A p \in ToSet(PortsOf[Step(t).on]) : ~Touched(p)
<1>1. ~waiting[t] /\ step[t] <= Len(Script(t)) /\ Step(t).op = "make"
  BY DEF MakePart, Makes, At, Step
<1>2. t = "app"
  BY <1>1, CallbackPorts DEF Threads
<1>3. call["app"] = "load" /\ LoadAt(step["app"], Step("app")) /\ step["app"] \in Nat /\ Step(t).on \in Parts
  BY <1>1, <1>2, AppPorts, ThisStep DEF StepKind
<1>4. ASSUME NEW x \in Done PROVE ~(x.op = "set" /\ x.on = Step(t).on) /\ \A p \in ToSet(PortsOf[Step(t).on]) : ~Touches(x, p)
  <2>1. PICK i \in Nat : LoadAt(i, x) /\ i < step["app"]
    BY <1>1, <1>2, <1>3, <1>4, Later
  <2>2. QED
    BY <1>1, <1>2, <1>3, <2>1, LoadOrder
<1>5. ~Told(Step(t).on) /\ ~AppSets(Step(t).on)
  BY <1>1, <1>2, <1>4 DEF Told, AppSets
<1>6. QED
  BY <1>2, <1>3, <1>4, <1>5 DEF Fresh, Touched

(* Every step keeps that a port which no step has touched has no tunnel    *)
(* and, once its component has left Loaded, is disabled: a component       *)
(* leaves Loaded only when its enabled ports have their tunnels.           *)
LEMMA UntouchedStep ==
    ASSUME Types, Places, Order, Fresh, Untouched, Next
    PROVE  Untouched'
<1>1. SUFFICES ASSUME ~Broken' PROVE Untouched'
  BY DEF Untouched
<1>2. ~Broken /\ \A p : Touched(p) => Touched(p)'
  BY <1>1, PlayingStep, DoneGrows DEF Evolves
<1>3. /\ \A j \in tunnels : \A p \in ToSet(j) : Touched(p)
      /\ \A c \in Parts : \A p \in ToSet(PortsOf[c]) : ~Touched(p) =>
           NoOn(sent[c], p) /\ (state[c] # "loaded" => p \notin on)
  BY <1>2 DEF Untouched, NoOn
<1>4. ASSUME tunnels' = tunnels, on' = on, state' = state, sent' = sent
      PROVE  Untouched'
  BY <1>2, <1>3, <1>4 DEF Untouched, NoOn
<1>5. ASSUME NEW t \in Threads, Run(t), Strides(t) \/ Tells(t) PROVE Untouched'
  <2>1. ASSUME NEW j \in tunnels', NEW p \in ToSet(j) PROVE Touched(p)'
    <3>1. CASE j \in tunnels
      BY <1>2, <1>3, <2>1, <3>1
    <3>2. CASE j \notin tunnels
      <4>1. SetupTunnel(t) /\ j = <<Step(t).on, Step(t).to>>
        BY <1>5, <2>1, <3>2, RunOns
      <4>2. p \in {Step(t).on, Step(t).to}
        BY <2>1, <4>1 DEF ToSet
      <4>3. QED
        BY <1>1, <4>1, <4>2, NowTouched DEF AsksOn
    <3>3. QED
      BY <3>1, <3>2
  <2>2. ASSUME NEW c \in Parts, NEW p \in ToSet(PortsOf[c]), ~Touched(p)'
        PROVE  NoOn(sent'[c], p) /\ (state'[c] # "loaded" => p \notin on')
    <3>1. p \in Ports /\ Owner(p) = c /\ ~Touched(p)
      BY <1>2, <2>2, Owners DEF Ports
    <3>2. ~News(c, Command("on", p))
      BY <1>1, <1>5, <2>2, <3>1, RunNews, NowTouched
    <3>3. /\ sent[c] \in Seq(AnyCommand) /\ sent'[c] \in Seq(AnyCommand) /\ state'[c] = state[c]
          /\ Len(sent[c]) <= Len(sent'[c]) /\ \A i \in 1 .. Len(sent[c]) : sent'[c][i] = sent[c][i]
      BY <1>5, RunPrefix
    <3>4. NoOn(sent'[c], p)
      <4>1. NoOn(sent[c], p) /\ \A i \in 1 .. Len(sent'[c]) : i > Len(sent[c]) => sent'[c][i] # Command("on", p)
        BY <1>3, <3>1, <3>2 DEF News
      <4> DEFINE q == sent[c]  r == sent'[c]
      <4>2. /\ q \in Seq(AnyCommand) /\ r \in Seq(AnyCommand) /\ Len(q) <= Len(r)
            /\ \A i \in 1 .. Len(q) : r[i] = q[i]
            /\ NoOn(q, p) /\ \A i \in 1 .. Len(r) : i > Len(q) => r[i] # Command("on", p)
        BY <3>3, <4>1
      <4> HIDE DEF q, r
      <4>3. NoOn(r, p)
        BY <4>2, MoreCommands
      <4>4. QED
        BY <4>3 DEF r
    <3>5. ASSUME state[c] # "loaded" PROVE p \notin on'
      <4>1. p \notin on
        BY <1>3, <3>1, <3>5
      <4>2. ASSUME MakePart(t) PROVE p \notin ToSet(PortsOf[Step(t).on])
        <5>1. Step(t).on \in Parts
          <6>1. Step(t).op = "make" /\ step[t] <= Len(Script(t))
            BY <4>2 DEF MakePart, Makes, At, Step
          <6>2. QED
            BY <6>1, ThisStep DEF StepKind
        <5>2. state[Step(t).on] = "loaded"
          BY <4>2, MadeFresh
        <5>3. QED
          BY <3>1, <3>5, <5>1, <5>2, Owners
      <4>3. QED
        BY <1>5, <4>1, <4>2, RunOns
    <3>6. QED
      BY <3>3, <3>4, <3>5
  <2>3. QED
    BY <2>1, <2>2 DEF Untouched, NoOn
<1>6. ASSUME NEW d \in Parts, Works(d) PROVE Untouched'
  <2>1. tunnels' = tunnels
    BY <1>6, WorksIs
  <2>2. ASSUME NEW c \in Parts, NEW p \in ToSet(PortsOf[c]), ~Touched(p)'
        PROVE  NoOn(sent'[c], p) /\ (state'[c] # "loaded" => p \notin on')
    <3>1. p \in Ports /\ Owner(p) = c /\ ~Touched(p)
      BY <1>2, <2>2, Owners DEF Ports
    <3>2. NoOn(sent[c], p) /\ (state[c] # "loaded" => p \notin on)
      BY <1>3, <3>1
    <3>3. c # d => sent'[c] = sent[c] /\ state'[c] = state[c]
      BY <1>6, WorksIs
    <3>4. c = d => sent'[c] = Tail(sent[c]) /\ sent[c] # <<>> /\ sent[c] \in Seq(AnyCommand)
      BY <1>6, WorksIs, Basics
    <3>5. NoOn(sent'[c], p) /\ (c = d => sent[c][1] # Command("on", p))
      BY <3>2, <3>3, <3>4, LessCommands
    <3>6. p \in on' => p \in on
      BY <1>6, <3>1, <3>5, WorksOns
    <3>7. ASSUME state'[c] # "loaded", p \in on PROVE FALSE
      <4>1. state[c] = "loaded" /\ c = d
        BY <3>2, <3>3, <3>7
      <4>2. CarryOut(c) /\ sent[c][1].kind = "state" /\ Allowed(c, sent[c][1].arg) /\ sent[c][1] \in CommandsOf(c)
        BY <1>6, <3>7, <4>1, WorksIs
      <4>3. sent[c][1].arg = "idle"
        BY <4>1, <4>2 DEF Allowed
      <4>4. sent[c][1] = Command("state", "idle")
        BY <4>2, <4>3, PortCommand DEF CommandsOf, Command
      <4>5. Head(sent[c]) = Command("state", "idle") /\ sent[c] # <<>>
        BY <3>4, <4>1, <4>4, TailKeeps
      <4>6. \A j \in tunnels : p \notin ToSet(j)
        BY <1>3, <3>1
      <4>7. Blocked(c)
        BY <3>1, <3>7, <4>1, <4>5, <4>6 DEF Blocked
      <4>8. QED
        BY <4>2, <4>7 DEF CarryOut
    <3>8. QED
      BY <3>5, <3>6, <3>7
  <2>3. QED
    BY <1>2, <1>3, <2>1, <2>2 DEF Untouched, NoOn
<1>7. QED
  BY <1>4, <1>5, <1>6, Kinds, CallIs, SettingsIs DEF Strides
-----------------------------------------------------------------------------
(* A step that connects is carried out by setupTunnel(), and what that     *)
(* leaves.                                                                 *)
LEMMA Connects ==
    ASSUME Types, Places, NEW t \in Threads, Run(t), step[t] <= Len(Script(t)), Step(t).op = "connect"
    PROVE  SetupTunnel(t)
<1>1. ~waiting[t]
  BY DEF Places
<1>2. ~Return(t)
  <2>1. SUFFICES ASSUME Return(t) PROVE FALSE
    OBVIOUS
  <2> DEFINE n == Len(Script(t))  k == step[t]
  <2>2. n \in Nat /\ k \in Nat
    BY Basics
  <2>3. k > n /\ k <= n
    BY <2>1 DEF Return
  <2> HIDE DEF n, k
  <2>4. QED
    BY <2>2, <2>3
<1>3. ~At(t, "make") /\ ~At(t, "param") /\ ~At(t, "set") /\ ~At(t, "port") /\ ~At(t, "allocate")
      /\ ~At(t, "wait") /\ ~At(t, "startTime")
  BY DEF At, Step
<1>4. QED
  BY <1>1, <1>2, <1>3 DEF Run, MakePart, Makes, MakeNothing, MakeFails, SetParam, SkipSetState, SendSetState,
     EndWait, EnablePort, AllocateBuffer, WaitForPortEnable, SetStartTime

Joined(t) ==
    /\ Step(t).on \in Ports /\ Step(t).to \in Ports
    /\ sent' \in [Parts -> Seq(AnyCommand)]
    /\ \A p \in {Step(t).on, Step(t).to} : sent'[Owner(p)] = Append(sent[Owner(p)], Command("on", p))
    /\ \/ <<Step(t).on, Step(t).to>> \in tunnels' \/ "tunnel" \in past'
       \/ ~MayTunnel(Step(t).on, Step(t).to)

(* What setupTunnel() leaves when it goes on, and when it does not.        *)
LEMMA TunnelIs ==
    ASSUME Types, Places, NEW t \in Threads, SetupTunnel(t)
    PROVE  /\ Step(t).op = "connect" /\ ~waiting[t] /\ step[t] <= Len(Script(t))
           /\ (Joined(t) /\ Forward(t, 1)) \/ ("unsent" \in past' /\ Fail(t))
           /\ <<Step(t).on, Step(t).to>> = VideoJoin =>
                agreed' = settings \/ past' \cap {"unsent", "tunnel", "raced"} # {}
<1>1. Step(t).op = "connect" /\ ~waiting[t] /\ step[t] <= Len(Script(t))
  BY DEF SetupTunnel, At, Step
<1> DEFINE p == Step(t).on  q == Step(t).to
<1>2. p \in Ports /\ q \in Ports /\ Owner(p) # Owner(q)
  BY <1>1, ThisStep DEF StepKind
<1>3. CASE "unsent" \in past' /\ Fail(t)
  BY <1>1, <1>3
<1>4. CASE ~("unsent" \in past' /\ Fail(t))
  <2>1. /\ sent' = Send("on", {p, q}) /\ Forward(t, 1)
        /\ \/ tunnels' = tunnels \cup {<<p, q>>} /\ agreed' = IF <<p, q>> = VideoJoin THEN settings ELSE agreed
           \/ "tunnel" \in past'
           \/ ~MayTunnel(p, q) /\ "raced" \in past'
    <3> DEFINE set == /\ tunnels' = tunnels \cup {<<p, q>>}
                      /\ agreed' = IF <<p, q>> = VideoJoin THEN settings ELSE agreed
               both == sent' = Send("on", {p, q}) /\ Forward(t, 1)
    <3>1. \/ set /\ both
          \/ both /\ Fault("tunnel")
          \/ both /\ ~MayTunnel(p, q) /\ past' = past \cup {"raced"}
          \/ Fault("unsent") /\ Fail(t)
      BY DEF SetupTunnel
    <3>2. Fault("tunnel") => "tunnel" \in past'
      BY DEF Fault
    <3>3. Fault("unsent") => "unsent" \in past'
      BY DEF Fault
    <3>4. past' = past \cup {"raced"} => "raced" \in past'
      OBVIOUS
    <3> HIDE DEF p, q
    <3>5. QED
      BY <1>4, <3>1, <3>2, <3>3, <3>4
  <2>2. {p, q} \in SUBSET Ports /\ \A u, v \in {p, q} : Owner(u) = Owner(v) => u = v
    BY <1>2
  <2>3. /\ Send("on", {p, q}) \in [Parts -> Seq(AnyCommand)]
        /\ \A u \in {p, q} : Send("on", {p, q})[Owner(u)] = Append(sent[Owner(u)], Command("on", u))
    BY <2>2, SendIs, Basics
  <2>4. Joined(t)
    BY <1>2, <2>1, <2>3 DEF Joined
  <2>5. QED
    BY <1>1, <2>1, <2>4
<1>5. QED
  BY <1>3, <1>4

(* A port whose last command is to be enabled.                             *)
LEMMA JoinedGoesOn ==
    ASSUME Types, Places, NEW t \in Threads, Joined(t), NEW p \in {Step(t).on, Step(t).to}
    PROVE  HasOn(sent'[Owner(p)], p) /\ Followed(sent'[Owner(p)], p)
<1> DEFINE q == sent[Owner(p)]  r == sent'[Owner(p)]
<1>1. p \in Ports /\ r = Append(q, Command("on", p))
  BY DEF Joined
<1>2. Owner(p) \in Parts /\ q \in Seq(AnyCommand) /\ r \in Seq(AnyCommand)
  BY <1>1, Owners, Basics DEF Joined
<1> HIDE DEF q, r
<1>3. Len(r) = Len(q) + 1 /\ Len(q) <= Len(r) /\ Len(r) > Len(q) /\ r[Len(r)] = Command("on", p)
      /\ \A i \in 1 .. Len(q) : r[i] = q[i]
  BY <1>1, <1>2
<1>4. HasOn(r, p) /\ Followed(r, p)
  BY <1>2, <1>3, MoreCommands
<1>5. QED
  BY <1>4 DEF r

(* The callback breaks off only when the new settings cannot be read.      *)
LEMMA CallbackBreaks ==
    ASSUME Types, Places, Order, Known, Run("callback"), Breaks("callback")
    PROVE  "param" \in past'
<1> "callback" \in Threads
  BY DEF Threads
<1> DEFINE t == "callback"
<1>1. step[t] <= Len(Script(t)) /\ Step(t).fails = "end" /\ Leave(t, FALSE)
  BY DEF Breaks
<1>2. Step(t) = Param("vcodec", "end") /\ Playing /\ call[t] = "change"
  BY <1>1, CallbackPorts
<1>3. "vcodec" \in handles /\ Step(t).op = "param" /\ Step(t).on = "vcodec"
  BY <1>2, PlayingKnows DEF Param
<1>4. ~waiting[t]
  BY <1>3 DEF Places
<1>5. call'[t] = "none"
  BY <1>1, Basics DEF Leave
<1>6. ~Return(t)
  <2>1. SUFFICES ASSUME Return(t) PROVE FALSE
    OBVIOUS
  <2> DEFINE n == Len(Script(t))  k == step[t]
  <2>2. n \in Nat /\ k \in Nat
    BY Basics
  <2>3. k > n /\ k <= n
    BY <1>1, <2>1 DEF Return
  <2> HIDE DEF n, k
  <2>4. QED
    BY <2>2, <2>3
<1>7. ~At(t, "make") /\ ~At(t, "connect") /\ ~At(t, "set") /\ ~At(t, "port") /\ ~At(t, "allocate")
      /\ ~At(t, "wait") /\ ~At(t, "startTime")
  BY <1>3 DEF At, Step
<1>8. SetParam(t)
  BY <1>4, <1>6, <1>7 DEF Run, MakePart, Makes, MakeNothing, MakeFails, SetupTunnel, SkipSetState, SendSetState,
     EndWait, EnablePort, AllocateBuffer, WaitForPortEnable, SetStartTime
<1>9. ~Forward(t, 1)
  BY <1>2, <1>5 DEF Forward
<1>10. Fault("param")
  BY <1>3, <1>8, <1>9 DEF SetParam
<1>11. QED
  BY <1>10 DEF Fault

(* While the callback has to set the tunnel up again it either still has   *)
(* to, or has just done so, or something is in past.                       *)
LEMMA ReconnectsStays ==
    ASSUME Types, Places, Order, Known, Next, NEW p, Reconnects(p)
    PROVE  Reconnects(p)' \/ (HasOn(sent'[Owner(p)], p) /\ Followed(sent'[Owner(p)], p))
<1> DEFINE cb == "callback"  last == Connect("vcodec.out", "sched.in", "log")
<1> cb \in Threads /\ "app" \in Threads
  BY DEF Threads
<1>1. Playing' /\ p \in ToSet(VideoJoin) /\ Playing
  BY PlayingStep DEF Evolves, Reconnects
<1>2. past \subseteq past'
  BY PastGrows
<1>3. CASE past \cap {"param", "unsent"} # {}
  BY <1>1, <1>2, <1>3 DEF Reconnects
<1>4. CASE past \cap {"param", "unsent"} = {}
  <2>1. call[cb] = "change" /\ Disable(p) \in DoneBy(cb) /\ last \notin DoneBy(cb)
    BY <1>4 DEF Reconnects
  <2>2. ASSUME Unmoved(cb) PROVE Reconnects(p)'
    BY <1>1, <2>1, <2>2 DEF Reconnects, Unmoved
  <2>3. CASE Strides(cb)
    <3>1. CASE Rests
      BY <2>2, <3>1, RestsIs DEF Still, Unmoved
    <3>2. CASE Ahead(cb)
      <4>1. call' = call /\ DoneBy(cb)' = DoneBy(cb) \cup {Step(cb)} /\ step[cb] <= Len(Script(cb))
        BY <3>2, AheadIs DEF Ahead
      <4>2. CASE Step(cb) # last
        BY <1>1, <2>1, <4>1, <4>2 DEF Reconnects
      <4>3. CASE Step(cb) = last
        <5>1. SetupTunnel(cb)
          BY <2>3, <4>1, <4>3, Connects DEF Strides, Connect
        <5>2. (Joined(cb) /\ Forward(cb, 1)) \/ "unsent" \in past'
          BY <5>1, TunnelIs
        <5>3. CASE "unsent" \in past'
          BY <1>1, <5>3 DEF Reconnects
        <5>4. CASE Joined(cb)
          <6>1. p \in {Step(cb).on, Step(cb).to}
            BY <1>1, <4>3, <4>1, CallbackPorts DEF Connect
          <6>2. QED
            BY <5>4, <6>1, JoinedGoesOn
        <5>5. QED
          BY <5>2, <5>3, <5>4
      <4>4. QED
        BY <4>2, <4>3
    <3>3. CASE Over(cb)
      BY <3>3, OverIs
    <3>4. CASE Leaves(cb)
      <4>1. ~Ends(cb)
        <5>1. SUFFICES ASSUME Ends(cb) PROVE FALSE
          OBVIOUS
        <5>2. StepAt(cb, 4, last)
          BY <2>1 DEF StepAt, ChangeAt
        <5>3. last \in DoneBy(cb)
          BY <3>4, <5>1, <5>2, LeaveIs
        <5>4. QED
          BY <2>1, <5>3
      <4>2. "param" \in past'
        BY <2>3, <3>4, <4>1, CallbackBreaks DEF Leaves, Strides
      <4>3. QED
        BY <1>1, <4>2 DEF Reconnects
    <3>5. QED
      BY <2>3, <3>1, <3>2, <3>3, <3>4 DEF Strides
  <2>4. CASE Strides("app")
    <3>1. CASE Leaves("app")
      BY <2>2, <3>1, LeaveIs
    <3>2. CASE Rests
      BY <2>2, <3>2, RestsIs DEF Still, Unmoved
    <3>3. QED
      BY <2>2, <2>4, <3>1, <3>2, AheadIs, OverIs DEF Strides
  <2>5. ASSUME Still PROVE Reconnects(p)'
    BY <1>1, <2>1, <2>5 DEF Still, Reconnects
  <2>6. CASE Call
    BY <2>2, <2>6, CallIs
  <2>7. CASE PortSettingsChange
    BY <2>1, <2>7, SettingsIs
  <2>8. QED
    BY <2>3, <2>4, <2>5, <2>6, <2>7, Kinds, TellsIs, RestsIs DEF Threads, Works
<1>5. QED
  BY <1>3, <1>4

(* A port that goes on keeps doing so, unless a command is refused or the  *)
(* callback disables it on its way to set the tunnel up again.             *)
LEMMA DisableNow ==
    ASSUME Types, Places, Order, Next, EnablePort("callback"), Strides("callback"), NEW p, Step("callback") = Disable(p)
    PROVE  Reconnects(p)'
<1> DEFINE cb == "callback"  last == Connect("vcodec.out", "sched.in", "log")
<1> cb \in Threads
  BY DEF Threads
<1>1. ~waiting[cb] /\ step[cb] <= Len(Script(cb)) /\ Playing
  BY Noted
<1>2. ChangeAt(step[cb], Disable(p)) /\ call[cb] = "change" /\ Step(cb).op = "port" /\ Step(cb).fails = "log" /\ Step(cb).on = p
  BY <1>1, CallbackPorts DEF Disable
<1>3. p \in ToSet(VideoJoin) /\ step[cb] \in {1, 2}
  <2>1. \E q \in ToSet(VideoJoin) : Disable(p) = Disable(q)
    BY <1>1, <1>2, CallbackPorts
  <2>2. QED
    BY <1>2, <2>1 DEF Disable, ChangeAt, Param, Connect, SetState
<1>4. Forward(cb, 1)
  <2>1. StepKind(Step(cb))
    BY <1>1, ThisStep
  <2>2. QED
    BY <1>2, <2>1, FailIs DEF EnablePort
<1>5. Ahead(cb)
  <2>1. ~Rests
    BY <1>2, <1>4, NotRests
  <2>2. ~Leaves(cb)
    <3>1. SUFFICES ASSUME Leaves(cb) PROVE FALSE
      OBVIOUS
    <3>2. call' = [call EXCEPT ![cb] = "none"] /\ call \in [Threads -> Calls]
      BY <3>1, LeaveIs, Basics
    <3>3. call'[cb] = "none"
      BY <3>2
    <3>4. QED
      BY <1>2, <1>4, <3>3 DEF Forward
  <2>3. ~Over(cb)
    BY OverIs
  <2>4. QED
    BY <2>1, <2>2, <2>3 DEF Strides
<1>6. call' = call /\ DoneBy(cb)' = DoneBy(cb) \cup {Disable(p)}
  BY <1>5, AheadIs
<1>7. last \notin DoneBy(cb)
  <2>1. SUFFICES ASSUME last \in DoneBy(cb) PROVE FALSE
    OBVIOUS
  <2>2. PICK k \in 1 .. step[cb] - 1 : StepAt(cb, k, last)
    BY <2>1, DoneIs, Basics
  <2>3. k = 4
    BY <1>2, <2>2 DEF StepAt, ChangeAt, Disable, Param, Connect, SetState
  <2>4. QED
    BY <1>3, <2>2, <2>3
<1>8. Playing'
  BY <1>1, PlayingStep DEF Evolves
<1>9. last # Disable(p)
  BY DEF Connect, Disable
<1>10. QED
  BY <1>2, <1>3, <1>6, <1>7, <1>8, <1>9 DEF Reconnects

(* Every step keeps that a port of a tunnel goes on.                       *)
LEMMA PortStays ==
    ASSUME Types, Places, Order, Known, Fresh, Next, NEW p \in Ports, Touched(p), PortKept(p)
    PROVE  PortKept(p)'
<1> DEFINE c == Owner(p)
<1> USE DEF Threads
<1>1. c \in Parts /\ p \in ToSet(PortsOf[c]) /\ sent[c] \in Seq(AnyCommand)
  BY Owners, Basics
<1>2. past \subseteq past'
  BY PastGrows
<1>3. CASE "refused" \in past
  BY <1>2, <1>3 DEF PortKept
<1>4. CASE Reconnects(p)
  BY <1>4, ReconnectsStays DEF PortKept, GoesOn
<1>5. CASE GoesOn(p)
  <2>1. (p \in on \/ HasOn(sent[c], p)) /\ Followed(sent[c], p)
    BY <1>5 DEF GoesOn
  <2>2. ASSUME NEW t \in Threads, Run(t), Strides(t) \/ Tells(t) PROVE PortKept(p)'
    <3>1. p \in on => p \in on'
      BY <2>2, RunOns
    <3>2. CASE ~News(c, Command("off", p))
      <4>1. /\ sent[c] \in Seq(AnyCommand) /\ sent'[c] \in Seq(AnyCommand)
            /\ Len(sent[c]) <= Len(sent'[c]) /\ \A i \in 1 .. Len(sent[c]) : sent'[c][i] = sent[c][i]
            /\ \A i \in 1 .. Len(sent'[c]) : i > Len(sent[c]) => sent'[c][i] # Command("off", p)
        BY <1>1, <2>2, <3>2, RunPrefix DEF News
      <4>2. Followed(sent'[c], p) /\ (HasOn(sent[c], p) => HasOn(sent'[c], p))
        <5> DEFINE q == sent[c]  r == sent'[c]
        <5>1. /\ q \in Seq(AnyCommand) /\ r \in Seq(AnyCommand)
              /\ Len(q) <= Len(r) /\ \A i \in 1 .. Len(q) : r[i] = q[i]
              /\ \A i \in 1 .. Len(r) : i > Len(q) => r[i] # Command("off", p)
              /\ Followed(q, p)
          BY <2>1, <4>1
        <5> HIDE DEF q, r
        <5>2. Followed(r, p) /\ (HasOn(q, p) => HasOn(r, p))
          BY <5>1, MoreCommands
        <5>3. QED
          BY <5>2 DEF q, r
      <4>3. QED
        BY <2>1, <3>1, <4>2 DEF PortKept, GoesOn
    <3>3. CASE News(c, Command("off", p))
      <4>1. AsksOff(t, p)
        BY <2>2, <3>3, RunNews
      <4>2. ~MakePart(t)
        <5>1. SUFFICES ASSUME MakePart(t) PROVE FALSE
          OBVIOUS
        <5>2. Step(t).op = "make"
          BY <5>1 DEF MakePart, Makes, At, Step
        <5>3. ~EnablePort(t)
          BY <5>2 DEF EnablePort, At, Step
        <5>4. c = Step(t).on
          BY <4>1, <5>3 DEF AsksOff
        <5>5. QED
          BY <1>1, <5>1, <5>4, MadeFresh
      <4>3. EnablePort(t) /\ Step(t).to = "off" /\ p = Step(t).on /\ Step(t).op = "port"
        BY <4>1, <4>2 DEF AsksOff, EnablePort, At, Step
      <4>4. t = "callback"
        <5>1. SUFFICES ASSUME t = "app" PROVE FALSE
          OBVIOUS
        <5>2. LoadAt(step["app"], Step("app")) /\ step["app"] \in Nat
          BY <4>3, <5>1, Noted
        <5>3. QED
          BY <4>3, <5>1, <5>2, PortsAt DEF Enable
      <4>5. Step(t) = Disable(p)
        <5>1. step[t] <= Len(Script(t))
          BY <4>3, Noted
        <5>2. PICK x \in ToSet(VideoJoin) : Step(t) = Disable(x)
          BY <4>3, <4>4, <5>1, CallbackPorts
        <5>3. x = p
          BY <4>3, <5>2 DEF Disable
        <5>4. QED
          BY <5>2, <5>3
      <4>6. Strides(t)
        BY <2>2, <4>3 DEF Tells
      <4>7. QED
        BY <4>3, <4>4, <4>5, <4>6, DisableNow DEF PortKept
    <3>4. QED
      BY <3>2, <3>3
  <2>3. ASSUME NEW d \in Parts, Works(d) PROVE PortKept(p)'
    <3>1. CASE d # c
      BY <1>1, <2>1, <2>3, <3>1, WorksIs, WorksOns DEF PortKept, GoesOn
    <3>2. CASE d = c
      <4>1. sent'[c] = Tail(sent[c]) /\ sent[c] # <<>> /\ (Refuse(c) => "refused" \in past')
        BY <2>3, <3>2, WorksIs
      <4>2. /\ Followed(sent'[c], p) /\ (sent[c][1] = Command("off", p) => HasOn(sent'[c], p))
            /\ HasOn(sent[c], p) => sent[c][1] = Command("on", p) \/ HasOn(sent'[c], p)
        BY <1>1, <2>1, <4>1, LessCommands
      <4>3. /\ p \in on => p \in on' \/ sent[c][1] = Command("off", p)
            /\ CarryOut(c) /\ sent[c][1] = Command("on", p) => p \in on'
        BY <2>3, <3>2, WorksOns
      <4>4. QED
        BY <2>1, <2>3, <3>2, <4>1, <4>2, <4>3 DEF PortKept, GoesOn, Works
    <3>3. QED
      BY <3>1, <3>2
  <2>4. ASSUME on' = on, sent' = sent PROVE PortKept(p)'
    BY <2>1, <2>4 DEF PortKept, GoesOn
  <2>5. QED
    BY <2>2, <2>3, <2>4, Kinds, CallIs, SettingsIs DEF Strides
<1>6. QED
  BY <1>3, <1>4, <1>5 DEF PortKept

(* A renderer whose tunnel failed stays in Loaded until load() fails.      *)
LEMMA SkippedStays ==
    ASSUME Types, Places, Order, Reached, Next, ~Broken', NEW x, Skipped(x)
    PROVE  Skipped(x)'
<1> USE DEF Threads
<1> DEFINE idle == SetState("arend", "idle", "end")  runs == SetState("arend", "executing", "end")
<1>1. /\ call["app"] = "load" /\ x.on = "acodec.out" /\ idle \in Done
      /\ state["arend"] = "loaded" /\ Only(sent["arend"], {"executing"})
  BY DEF Skipped
<1>2. "arend" \in Parts /\ idle \in Done'
  BY <1>1, PortSets, DoneGrows
<1>3. ASSUME call'["app"] = "load", state'["arend"] = "loaded", Only(sent'["arend"], {"executing"}) PROVE Skipped(x)'
  BY <1>1, <1>2, <1>3 DEF Skipped
<1>4. status = "IDLE" /\ ~Playing /\ Done = DoneBy("app")
  BY <1>1, DoneIsBy DEF Playing
<1>5. ASSUME Quiet, call'["app"] = "load" PROVE Skipped(x)'
  BY <1>1, <1>2, <1>3, <1>5, QuietIs
<1>6. ASSUME NEW t \in Threads, Strides(t) PROVE Skipped(x)'
  <2>1. CASE t = "callback"
    BY <1>1, <1>5, <1>6, <2>1, CallbackStrides DEF Strides, Unmoved
  <2>2. CASE t = "app"
    <3>1. CASE Leaves("app")
      <4>1. Ends("app")
        BY <1>1, <3>1, LeaveIs
      <4>2. "audio" \in content
        <5>1. PICK k \in Nat : LoadAt(k, idle)
          BY <1>1, DoneIsBy
        <5>2. QED
          BY <5>1, SetsAt DEF SetState
      <4>3. PICK k \in Nat : LoadAt(k, runs)
        BY <4>2, LoadContains
      <4>4. runs \in Done
        BY <1>1, <1>4, <3>1, <4>1, <4>3, LeaveIs DEF StepAt
      <4>5. state["arend"] = "executing"
        BY <1>4, <4>4 DEF Reached
      <4>6. QED
        BY <1>1, <4>5
    <3>2. QED
      BY <1>1, <1>5, <1>6, <2>2, <3>1, AppGoesOn, AheadIs, OverIs DEF Strides, Unmoved
  <2>3. QED
    BY <2>1, <2>2
<1>7. ASSUME NEW t \in Threads, Tells(t) PROVE Skipped(x)'
  <2>1. t = "app" /\ LoadAt(step[t], Step(t))
    BY <1>1, <1>4, <1>7, TellsWhich
  <2>2. call' = call /\ state' = state
    BY <1>7, TellsIs, TellsSent DEF Still
  <2>3. CASE Step(t).on # "arend"
    BY <1>1, <1>2, <1>3, <1>7, <2>2, <2>3, TellsSent
  <2>4. CASE Step(t).on = "arend"
    <3>1. step[t] \in Nat /\ Step(t).op = "set" /\ step["app"] <= Len(Script("app"))
      BY <1>7, <2>1, Basics DEF Tells
    <3>2. Step(t) # idle
      <4>1. PICK i \in Nat : LoadAt(i, idle) /\ i < step["app"]
        BY <1>1, <3>1, Later
      <4>2. QED
        BY <2>1, <3>1, <4>1, LoadOrder
    <3>3. Step(t).to = "executing"
      BY <2>1, <2>4, <3>1, <3>2, SetsAt DEF SetState
    <3>4. Only(sent'["arend"], {"executing"})
      BY <1>1, <1>7, <2>4, <3>3, TellsTo
    <3>5. QED
      BY <1>1, <1>3, <2>2, <3>4
  <2>5. QED
    BY <2>3, <2>4
<1>8. ASSUME NEW d \in Parts, Works(d) PROVE Skipped(x)'
  <2>1. call' = call
    BY <1>8, RestsIs DEF Still, Works
  <2>2. CASE d # "arend"
    BY <1>1, <1>2, <1>3, <1>8, <2>1, <2>2, WorksIs
  <2>3. CASE d = "arend"
    <3>1. Only(sent'["arend"], {"executing"})
      BY <1>1, <1>8, <2>3, WorksOn
    <3>2. state'["arend"] = "loaded"
      <4>1. SUFFICES ASSUME state'["arend"] # "loaded" PROVE FALSE
        OBVIOUS
      <4>2. sent["arend"][1].kind = "state" /\ Allowed("arend", sent["arend"][1].arg) /\ 1 \in 1 .. Len(sent["arend"])
        BY <1>1, <1>8, <2>3, <4>1, WorksIs
      <4>3. sent["arend"][1].arg = "executing"
        BY <1>1, <4>2 DEF Only
      <4>4. QED
        BY <1>1, <4>2, <4>3 DEF Allowed
    <3>3. QED
      BY <1>1, <1>3, <2>1, <3>1, <3>2
  <2>4. QED
    BY <2>2, <2>3
<1>9. CASE PortSettingsChange /\ Quiet
  BY <1>1, <1>5, <1>9, SettingsIs DEF Unmoved
<1>10. ~Call
  BY <1>1, CallIs
<1>11. QED
  BY <1>6, <1>7, <1>8, <1>9, <1>10, Kinds

(* The steps before a step that connects do not touch its ports, nor does  *)
(* one before the audio tunnel set a state of the renderer.                *)
LEMMA ConnectsFirst ==
    ASSUME Types, Places, Order, call["app"] = "load", step["app"] <= Len(Script("app")), Step("app").op = "connect"
    PROVE  /\ \A p \in {Step("app").on, Step("app").to} : ~Touched(p)
           /\ Step("app").on = "acodec.out" => ~Told("arend")
<1>1. ASSUME NEW y \in Done
      PROVE  /\ \A p \in {Step("app").on, Step("app").to} : ~Touches(y, p)
             /\ Step("app").on = "acodec.out" => ~(y.op = "set" /\ y.on = "arend")
  <2>1. PICK i \in Nat : LoadAt(i, y) /\ i < step["app"] /\ LoadAt(step["app"], Step("app")) /\ step["app"] \in Nat
    BY <1>1, Later
  <2>2. QED
    BY <2>1, LoadOrder
<1>2. QED
  BY <1>1 DEF Touched, Told

(* load() sets up a tunnel when its ports are not touched yet, so that a   *)
(* Loaded component takes it, or its port is disabled.                     *)
LEMMA NewlyThrough ==
    ASSUME Types, Places, Order, Untouched, Strides("app"), Ahead("app"), call["app"] = "load", call'["app"] = "load",
           NEW x, x = Step("app"), x.op = "connect"
    PROVE  Through(x)'
<1> DEFINE t == "app"
<1> t \in Threads
  BY DEF Threads
<1>1. step[t] <= Len(Script(t)) /\ Forward(t, 1) /\ Run(t)
  BY DEF Ahead, Strides
<1>2. SetupTunnel(t)
  BY <1>1, Connects
<1>3. LoadAt(step[t], x) /\ step[t] \in Nat
  BY <1>1, AppPorts
<1>4. ~Fail(t)
  <2>1. StepKind(Step(t)) /\ Step(t).fails \in {"end", "skip"}
    BY <1>1, <1>3, ThisStep, ConnectsAt DEF Connect
  <2>2. ~Forward(t, 4)
    BY <1>1, Basics DEF Forward
  <2>3. ~Leave(t, FALSE)
    BY Basics DEF Leave
  <2>4. QED
    BY <2>1, <2>2, <2>3, FailIs
<1>5. Joined(t)
  BY <1>2, <1>4, TunnelIs
<1>6. MayTunnel(x.on, x.to)
  <2>1. ~Broken
    BY DEF Broken
  <2>2. ASSUME NEW p \in {x.on, x.to} PROVE p \notin on \/ state[Owner(p)] = "loaded"
    <3>1. ~Touched(p)
      BY <1>1, <2>2, ConnectsFirst
    <3>2. p \in Ports
      BY <1>5, <2>2 DEF Joined
    <3>3. Owner(p) \in Parts /\ p \in ToSet(PortsOf[Owner(p)])
      BY <3>2, Owners
    <3>4. QED
      BY <2>1, <3>1, <3>3 DEF Untouched
  <2>3. QED
    BY <2>2 DEF MayTunnel
<1>7. Paired(x)'
  BY <1>5, <1>6 DEF Joined, Paired
<1>8. \A p \in {x.on, x.to} : PortKept(p)'
  BY <1>5, JoinedGoesOn DEF PortKept, GoesOn
<1>9. QED
  BY <1>7, <1>8 DEF Through

(* A tunnel that fails leaves the renderer as it was made.                 *)
LEMMA NewlySkipped ==
    ASSUME Types, Places, Order, Fresh, Strides("app"), Over("app"), call["app"] = "load", call'["app"] = "load",
           Done' = Done \cup SkippedSteps, NEW x \in SkippedSteps, x.op = "connect"
    PROVE  Skipped(x)'
<1>1. Step("app") = Connect("acodec.out", "arend.in", "skip") /\ ~waiting["app"] /\ step["app"] <= Len(Script("app"))
  BY OverIs, Basics DEF Over
<1>2. x.on = "acodec.out" /\ SetState("arend", "idle", "end") \in Done'
  BY DEF SkippedSteps, WaitPort, SetState, Connect
<1>3. ~Told("arend") /\ ~AppSets("arend") /\ "arend" \in Parts
  BY <1>1, ConnectsFirst, PortSets DEF AppSets, Connect
<1>4. state["arend"] = "loaded" /\ Calm(sent["arend"])
  BY <1>3 DEF Fresh
<1>5. state'["arend"] = "loaded" /\ Calm(sent'["arend"])
  BY <1>3, <1>4, QuietIs DEF Strides
<1>6. QED
  BY <1>2, <1>5 DEF Skipped, Only, Calm

(* No tunnel is taken down.                                                *)
LEMMA TunnelsStay ==
    ASSUME Types, Places, Order, Next
    PROVE  tunnels \subseteq tunnels'
<1>1. ASSUME NEW t \in Threads, Run(t) PROVE tunnels \subseteq tunnels'
  BY <1>1, RunOns
<1>2. QED
  BY <1>1, Kinds, WorksIs, CallIs, SettingsIs DEF Strides

(* Every step keeps that the steps which connect have done so.             *)
LEMMA TunnelledStep ==
    ASSUME Types, Places, Order, Known, Reached, Fresh, Untouched, Tunnelled, Next
    PROVE  Tunnelled'
<1>1. SUFFICES ASSUME ~Broken', NEW x \in Done', x.op = "connect"
               PROVE  Skipped(x)' \/ Through(x)'
  BY DEF Tunnelled, Broken, Done
<1>2. CASE x \in Done
  <2>1. CASE Skipped(x)
    BY <1>1, <2>1, SkippedStays
  <2>2. CASE Through(x)
    <3>1. Paired(x)'
      BY <2>2, TunnelsStay, PastGrows DEF Through, Paired
    <3>2. ASSUME NEW p \in {x.on, x.to} PROVE PortKept(p)'
      <4>1. Touched(p)
        BY <1>1, <1>2 DEF Touched, Touches
      <4>2. p \in Ports
        <5>1. PICK k \in Nat : LoadAt(k, x)
          BY <1>2, DoneIsBy
        <5>2. QED
          BY <1>1, <5>1, ConnectsAt, OwnerOf DEF Connect
      <4>3. QED
        BY <2>2, <4>1, <4>2, PortStays DEF Through
    <3>3. QED
      BY <3>1, <3>2 DEF Through
  <2>3. QED
    BY <1>1, <1>2, <2>1, <2>2 DEF Tunnelled
<1>3. CASE x \notin Done
  BY <1>1, <1>3, DoneStep, NewlyThrough, NewlySkipped DEF LoadMoves
<1>4. QED
  BY <1>2, <1>3
-----------------------------------------------------------------------------
(* Every step keeps that the tunnel is set up for the settings there are,  *)
(* once the callback has done so.                                          *)
LEMMA AgreedStep ==
    ASSUME Types, Places, Order, Known, Agreed, Next
    PROVE  Agreed'
<1> DEFINE cb == "callback"  last == Connect("vcodec.out", "sched.in", "log")
<1> cb \in Threads /\ "app" \in Threads /\ Threads = {"app", cb}
  BY DEF Threads
<1>1. SUFFICES ASSUME past' \cap {"param", "unsent", "tunnel", "raced"} = {}, call'[cb] = "none" \/ last \in DoneBy(cb)'
               PROVE  agreed' = settings'
  BY DEF Agreed
<1>2. past \cap {"param", "unsent", "tunnel", "raced"} = {}
  BY <1>1, PastGrows
<1>3. ASSUME Unmoved(cb), settings' = settings, agreed' \in {agreed, settings} PROVE agreed' = settings'
  BY <1>1, <1>2, <1>3 DEF Unmoved, Agreed
<1>4. ASSUME NEW t \in Threads, Run(t) PROVE settings' = settings /\ agreed' \in {agreed, settings}
  BY <1>4, RunSettings, RunOns
<1>5. CASE Strides("app")
  <2>1. Unmoved(cb)
    <3>1. CASE Leaves("app")
      BY <3>1, LeaveIs
    <3>2. CASE Rests
      BY <3>2, RestsIs DEF Still, Unmoved
    <3>3. QED
      BY <1>5, <3>1, <3>2, AheadIs, OverIs DEF Strides
  <2>2. QED
    BY <1>3, <1>4, <1>5, <2>1 DEF Strides
<1>6. CASE Strides(cb)
  <2>1. settings' = settings /\ agreed' \in {agreed, settings} /\ Run(cb)
    BY <1>4, <1>6 DEF Strides
  <2>2. last \in DoneBy(cb) => agreed = settings
    BY <1>2 DEF Agreed
  <2>3. CASE Rests
    BY <1>3, <2>1, <2>3, RestsIs DEF Still, Unmoved
  <2>4. CASE Ahead(cb)
    <3>1. call' = call /\ DoneBy(cb)' = DoneBy(cb) \cup {Step(cb)} /\ step[cb] <= Len(Script(cb))
      BY <2>4, AheadIs DEF Ahead
    <3>2. call[cb] = "change"
      BY <3>1, CallbackPorts
    <3>3. CASE Step(cb) = last
      <4>1. SetupTunnel(cb) /\ <<Step(cb).on, Step(cb).to>> = VideoJoin
        BY <2>1, <3>1, <3>3, Connects DEF Connect, VideoJoin
      <4>2. QED
        BY <1>1, <2>1, <4>1, TunnelIs
    <3>4. CASE Step(cb) # last
      BY <1>1, <2>1, <2>2, <3>1, <3>2, <3>4
    <3>5. QED
      BY <3>3, <3>4
  <2>5. CASE Over(cb)
    BY <2>5, OverIs
  <2>6. CASE Leaves(cb)
    <3>1. Ends(cb)
      BY <1>1, <2>1, <2>6, CallbackBreaks DEF Leaves
    <3>2. call[cb] = "change"
      BY <2>6, LeaveIs, Basics
    <3>3. StepAt(cb, 4, last)
      BY <3>2 DEF StepAt, ChangeAt
    <3>4. last \in DoneBy(cb)
      BY <2>6, <3>1, <3>3, LeaveIs
    <3>5. QED
      BY <2>1, <2>2, <3>4
  <2>7. QED
    BY <1>6, <2>3, <2>4, <2>5, <2>6 DEF Strides
<1>7. ASSUME Still, settings' = settings, agreed' = agreed PROVE agreed' = settings'
  BY <1>1, <1>2, <1>7 DEF Still, Agreed
<1>8. ASSUME NEW t \in Threads, Tells(t) PROVE agreed' = settings'
  BY <1>7, <1>8, TellsIs DEF Tells, tunnelVars
<1>9. ASSUME NEW c \in Parts, Works(c) PROVE agreed' = settings'
  BY <1>7, <1>9, WorksIs, RestsIs DEF Works
<1>10. CASE Call
  BY <1>3, <1>10, CallIs
<1>11. ~PortSettingsChange
  <2>1. SUFFICES ASSUME PortSettingsChange PROVE FALSE
    OBVIOUS
  <2>2. call' = [call EXCEPT ![cb] = "change"] /\ DoneBy(cb)' = {} /\ call \in [Threads -> Calls]
    BY <2>1, SettingsIs, Basics
  <2>3. call'[cb] = "change"
    BY <2>2
  <2>4. QED
    BY <1>1, <2>2, <2>3
<1>12. QED
  BY <1>5, <1>6, <1>8, <1>9, <1>10, <1>11, Kinds
-----------------------------------------------------------------------------
(* The invariant for LoadedIsConnected and PictureFlows.                   *)
PipelineInv ==
    /\ PausesInv
    /\ Known /\ OneCommand /\ Reached /\ Runs
    /\ Fresh /\ Untouched /\ Tunnelled /\ Agreed

(* The invariant holds initially.                                          *)
LEMMA InitConnects ==
    ASSUME Init
    PROVE  PipelineInv
<1> "app" \in Threads /\ "callback" \in Threads
  BY DEF Threads
<1>1. PausesInv
  BY InitPlaces DEF PausesInv
<1>2. /\ call["app"] = "load" /\ Done = {} /\ handles = {} /\ tunnels = {} /\ settings = 0 /\ agreed = 0
      /\ status = "IDLE" /\ ~Playing
      /\ \A c \in Parts : sent[c] = <<>> /\ state[c] = "loaded"
  BY InitIs DEF Playing
<1>3. ASSUME NEW c \in Parts PROVE Calm(sent[c]) /\ \A p : NoOn(sent[c], p)
  <2>1. sent[c] = <<>>
    BY <1>2
  <2>2. Calm(<<>>) /\ \A p : NoOn(<<>>, p)
    BY DEF Calm, NoOn
  <2>3. QED
    BY <2>1, <2>2
<1>4. Known /\ Tunnelled /\ Agreed /\ Reached /\ Runs
  BY <1>2 DEF Known, Tunnelled, Agreed, Reached, Runs
<1>5. OneCommand /\ Fresh /\ Untouched
  BY <1>2, <1>3 DEF OneCommand, Fresh, Untouched
<1>6. QED
  BY <1>1, <1>4, <1>5 DEF PipelineInv

(* Every step keeps it.                                                    *)
LEMMA PipelineInvStep ==
    ASSUME PipelineInv, Next
    PROVE  PipelineInv'
<1>1. Types /\ Places /\ Order /\ NotYet /\ Known /\ OneCommand /\ Reached /\ Runs
      /\ Fresh /\ Untouched /\ Tunnelled /\ Agreed
  BY DEF PipelineInv, PausesInv
<1>2. PausesInv'
  BY PausesInvStep DEF PipelineInv
<1>3. Known' /\ OneCommand' /\ Reached' /\ Runs'
  BY <1>1, KnownStep, OneCommandStep, ReachedStep, RunsStep
<1>4. Fresh' /\ Untouched' /\ Tunnelled' /\ Agreed'
  BY <1>1, FreshStep, UntouchedStep, TunnelledStep, AgreedStep
<1>5. QED
  BY <1>2, <1>3, <1>4 DEF PipelineInv
-----------------------------------------------------------------------------
(* So does a step that changes nothing.                                    *)
LEMMA PipelineInvStutter ==
    ASSUME PipelineInv, UNCHANGED vars
    PROVE  PipelineInv'
<1>1. UNCHANGED <<call, step, waiting, status, content, codecKnown, first, calls, known, enabled, handles,
                  state, on, sent, tunnels, settings, agreed, past>>
  BY DEF vars, threadVars, playerVars, clientVars, componentVars, tunnelVars
<1>2. \A t : Script(t)' = Script(t)
  BY <1>1 DEF Script
<1>3. \A t : DoneBy(t)' = DoneBy(t) /\ Step(t)' = Step(t)
  BY <1>1, <1>2 DEF DoneBy, Step
<1>4. Done' = Done
  BY <1>1, <1>3 DEF Done
<1>5. PausesInv'
  BY PausesInvStutter DEF PipelineInv
<1>6. Known' /\ Reached'
  BY <1>1, <1>4 DEF PipelineInv, Known, Reached, Playing
<1>7. OneCommand' /\ Fresh'
  <2>1. \A c : AppSets(c)' <=> AppSets(c)
    BY <1>1, <1>3 DEF AppSets
  <2>2. \A c : (InHand(c)' <=> InHand(c)) /\ (GivenUp(c)' <=> GivenUp(c)) /\ (Told(c)' <=> Told(c))
    BY <1>1, <1>3, <1>4, <2>1 DEF InHand, GivenUp, Told, Playing
  <2>3. QED
    BY <1>1, <2>1, <2>2 DEF PipelineInv, OneCommand, Fresh, Broken
<1>8. Runs' /\ Agreed'
  <2>1. \A c : Started(c)' <=> Started(c)
    BY <1>1, <1>3 DEF Started
  <2>2. Clean' <=> Clean
    BY <1>1 DEF Clean
  <2>3. Playing' <=> Playing
    BY <1>1 DEF Playing
  <2>4. QED
    BY <1>1, <1>3, <2>1, <2>2, <2>3 DEF PipelineInv, Runs, Agreed
<1>9. Untouched'
  <2>1. \A p : Touched(p)' <=> Touched(p)
    BY <1>4 DEF Touched
  <2>2. QED
    BY <1>1, <2>1 DEF PipelineInv, Untouched, Broken
<1>10. Tunnelled'
  <2>1. \A x : Skipped(x)' <=> Skipped(x)
    BY <1>1, <1>4 DEF Skipped
  <2>2. \A p : (GoesOn(p)' <=> GoesOn(p)) /\ (Reconnects(p)' <=> Reconnects(p))
    BY <1>1, <1>3 DEF GoesOn, Reconnects, Playing
  <2>3. \A x : Through(x)' <=> Through(x)
    BY <1>1, <2>2 DEF Through, Paired, PortKept
  <2>4. QED
    BY <1>4, <2>1, <2>3 DEF PipelineInv, Tunnelled
<1>11. QED
  BY <1>5, <1>6, <1>7, <1>8, <1>9, <1>10 DEF PipelineInv
-----------------------------------------------------------------------------
(* With nothing under way the steps that connect have come to their end.   *)
LEMMA NowConnected ==
    ASSUME PipelineInv, Settled, status # "IDLE", NEW s \in content, past \cap {"tunnel", "refused"} = {},
           Playing => past \cap {"param", "unsent"} = {}
    PROVE  Connected(s)
<1>1. SUFFICES ASSUME NEW j \in Joins[s] PROVE j \in tunnels /\ ToSet(j) \subseteq on
  BY DEF Connected
<1>2. Types /\ Places /\ Order /\ Tunnelled /\ s \in {"video", "audio"}
  BY DEF PipelineInv, PausesInv, Types, TypeOK, Streams
<1>3. call["app"] = "none" /\ call["callback"] = "none" /\ \A c \in Parts : sent[c] = <<>>
  BY DEF Settled, Threads
<1>4. PICK x : /\ \E k \in Nat : LoadAt(k, x)
               /\ x.op = "connect" /\ j = <<x.on, x.to>> /\ x.on \in Ports /\ x.to \in Ports
  <2>1. CASE s = "video"
    <3> DEFINE x1 == Connect("clock.video", "sched.clock", "end")  x2 == Connect("vcodec.out", "sched.in", "end")
               x3 == Connect("sched.out", "vrend.in", "end")
    <3>1. /\ \E k \in Nat : LoadAt(k, x1)
          /\ \E k \in Nat : LoadAt(k, x2)
          /\ \E k \in Nat : LoadAt(k, x3)
      BY <2>1, LoadContains
    <3>2. /\ x1.op = "connect" /\ x1.on = "clock.video" /\ x1.to = "sched.clock"
          /\ x2.op = "connect" /\ x2.on = "vcodec.out" /\ x2.to = "sched.in"
          /\ x3.op = "connect" /\ x3.on = "sched.out" /\ x3.to = "vrend.in"
      BY DEF Connect
    <3>3. \/ j = <<"clock.video", "sched.clock">> \/ j = <<"vcodec.out", "sched.in">> \/ j = <<"sched.out", "vrend.in">>
      BY <2>1, <1>1, JoinsAre
    <3> HIDE DEF x1, x2, x3
    <3>4. QED
      BY <3>1, <3>2, <3>3, OwnerOf
  <2>2. CASE s = "audio"
    <3> DEFINE x1 == Connect("clock.audio", "arend.clock", "end")  x2 == Connect("acodec.out", "arend.in", "skip")
    <3>1. /\ \E k \in Nat : LoadAt(k, x1)
          /\ \E k \in Nat : LoadAt(k, x2)
      BY <2>2, LoadContains
    <3>2. /\ x1.op = "connect" /\ x1.on = "clock.audio" /\ x1.to = "arend.clock"
          /\ x2.op = "connect" /\ x2.on = "acodec.out" /\ x2.to = "arend.in"
      BY DEF Connect
    <3>3. \/ j = <<"clock.audio", "arend.clock">> \/ j = <<"acodec.out", "arend.in">>
      BY <2>2, <1>1, JoinsAre
    <3> HIDE DEF x1, x2
    <3>4. QED
      BY <3>1, <3>2, <3>3, OwnerOf
  <2>3. QED
    BY <1>2, <2>1, <2>2
<1>5. x \in Done
  BY <1>2, <1>4, DoneIsBy
<1>6. Through(x)
  BY <1>2, <1>3, <1>4, <1>5 DEF Tunnelled, Skipped
<1>7. j \in tunnels
  BY <1>4, <1>6 DEF Through, Paired
<1>8. ASSUME NEW p \in {x.on, x.to} PROVE p \in on
  <2>1. sent[Owner(p)] = <<>>
    BY <1>3, <1>4, <1>8, Owners
  <2>2. ~HasOn(<<>>, p)
    BY DEF HasOn
  <2>3. ~Reconnects(p)
    BY <1>3 DEF Reconnects
  <2>4. GoesOn(p)
    BY <1>6, <2>3 DEF Through, PortKept
  <2>5. QED
    BY <2>1, <2>2, <2>4 DEF GoesOn
<1>9. ToSet(j) = {x.on, x.to}
  BY <1>4 DEF ToSet
<1>10. QED
  BY <1>7, <1>8, <1>9

(* The invariant implies LoadedIsConnected.                                *)
LEMMA LoadedIs ==
    ASSUME PipelineInv
    PROVE  LoadedIsConnected
<1>1. SUFFICES ASSUME status = "LOADED", Settled
               PROVE  /\ \A s \in content : Connected(s) \/ past \cap {"tunnel", "refused"} # {}
                      /\ "video" \in content =>
                           /\ codecKnown /\ state["vcodec"] = "idle" /\ state["sched"] = "idle"
                           /\ state["vrend"] = "idle" \/ past \cap {"late", "unsent"} # {}
                      /\ "audio" \in content => \A c \in {"acodec", "arend", "clock"} : state[c] = "executing"
  BY DEF LoadedIsConnected
<1>2. Types /\ Places /\ Order /\ Known /\ Reached
  BY DEF PipelineInv, PausesInv
<1>3. ~Playing
  BY <1>1 DEF Settled, Threads, Playing
<1>4. \A s \in content : Connected(s) \/ past \cap {"tunnel", "refused"} # {}
  BY <1>1, <1>3, NowConnected
<1>5. ASSUME "video" \in content
      PROVE  /\ codecKnown /\ state["vcodec"] = "idle" /\ state["sched"] = "idle"
             /\ state["vrend"] = "idle" \/ past \cap {"late", "unsent"} # {}
  <2>1. /\ \A c \in {"vcodec", "sched"} : SetState(c, "idle", "end") \in Done
        /\ SetState("vrend", "idle", "log") \in Done /\ Param("vcodec", "end") \in Done
    BY <1>1, <1>2, <1>5, LoadedStates
  <2>2. QED
    BY <1>2, <1>3, <2>1 DEF Known, Reached
<1>6. ASSUME "audio" \in content, NEW c \in {"acodec", "arend", "clock"} PROVE state[c] = "executing"
  BY <1>1, <1>2, <1>6, LoadedStates DEF Reached
<1>7. QED
  BY <1>4, <1>5, <1>6

(* The invariant implies PictureFlows.                                     *)
LEMMA PictureIs ==
    ASSUME PipelineInv
    PROVE  PictureFlows
<1>1. SUFFICES ASSUME status = "PLAYING", Settled, past \cap {"param", "refused", "unsent"} = {}
               PROVE  /\ past \cap {"tunnel", "raced"} = {} =>
                           Connected("video") /\ Connected("audio") /\ agreed = settings
                      /\ "late" \notin past =>
                           \A c \in Parts : state[c] = "executing" \/ (c = "vrend" /\ settings = 0)
  BY DEF PictureFlows
<1>2. Types /\ Places /\ Order /\ Runs /\ Agreed
  BY DEF PipelineInv, PausesInv
<1>3. call["app"] = "none" /\ call["callback"] = "none" /\ Playing /\ content = Streams
  BY <1>1, <1>2 DEF Settled, Threads, Playing, Order
<1>4. ASSUME past \cap {"tunnel", "raced"} = {}
      PROVE  Connected("video") /\ Connected("audio") /\ agreed = settings
  <2>1. Connected("video") /\ Connected("audio")
    BY <1>1, <1>3, <1>4, NowConnected DEF Streams
  <2>2. agreed = settings
    BY <1>1, <1>2, <1>3, <1>4 DEF Agreed
  <2>3. QED
    BY <2>1, <2>2
<1>5. ASSUME "late" \notin past, NEW c \in Parts PROVE state[c] = "executing" \/ (c = "vrend" /\ settings = 0)
  <2>1. Clean
    BY <1>1, <1>5 DEF Clean
  <2>2. c # "vrend" => state[c] = "executing"
    BY <1>1, <1>2, <1>3, <2>1 DEF Runs, Started
  <2>3. settings = 0 \/ settings > 0
    BY <1>2, PipelineAssumption DEF Types, TypeOK
  <2>4. settings > 0 => state["vrend"] = "executing"
    BY <1>2, <1>3, <2>1 DEF Runs
  <2>5. QED
    BY <2>2, <2>3, <2>4
<1>6. QED
  BY <1>4, <1>5

(* A load() that answered success has connected every stream it has        *)
(* enabled, and every component is in the state that play() takes it from, *)
(* although load() waits for few of the commands it sends.                 *)
THEOREM LoadConnects == Spec => []LoadedIsConnected
<1>1. Init => PipelineInv
  BY InitConnects
<1>2. PipelineInv /\ [Next]_vars => PipelineInv'
  BY PipelineInvStep, PipelineInvStutter
<1>3. PipelineInv => LoadedIsConnected
  BY LoadedIs
<1>4. QED
  BY <1>1, <1>2, <1>3, PTL DEF Spec

(* While it plays and nothing is under way, both streams are connected and *)
(* the video tunnel agrees with the codec's settings; and when nothing was *)
(* late every component executes - whatever play(), pause() and the        *)
(* callbacks of changed settings did before, in every order of their       *)
(* steps.                                                                  *)
THEOREM PictureKeepsFlowing == Spec => []PictureFlows
<1>1. Init => PipelineInv
  BY InitConnects
<1>2. PipelineInv /\ [Next]_vars => PipelineInv'
  BY PipelineInvStep, PipelineInvStutter
<1>3. PipelineInv => PictureFlows
  BY PictureIs
<1>4. QED
  BY <1>1, <1>2, <1>3, PTL DEF Spec
-----------------------------------------------------------------------------
(* What setupTunnel() asks of its two ports it can miss only once play()   *)
(* was called: the calls that race are those of the port-change callback.  *)
OnlyPlayRaces == "raced" \in past => Playing

(* The only step that records a race is a setupTunnel() that finds one of  *)
(* its ports enabled on a component that has left Loaded.                  *)
LEMMA RacedBy ==
    ASSUME Next, "raced" \in past', "raced" \notin past
    PROVE  \E t \in Threads : SetupTunnel(t) /\ ~MayTunnel(Step(t).on, Step(t).to)
<1>1. ASSUME NEW what, Fault(what) \/ past' = past \cup {what} PROVE what = "raced"
  BY <1>1 DEF Fault
<1>2. ~NoFault /\ past' # past
  BY DEF NoFault
<1>3. \A c : ~Late(c)
  <2>1. SUFFICES ASSUME NEW c, Late(c) PROVE FALSE
    OBVIOUS
  <2>2. past' = past \cup {"late"} \/ Fault("late")
    BY <2>1 DEF Late
  <2>3. QED
    BY <1>1, <2>2
<1>4. ASSUME NEW t \in Threads, Run(t) PROVE SetupTunnel(t) /\ ~MayTunnel(Step(t).on, Step(t).to)
  <2>1. ~MakePart(t)
    <3>1. SUFFICES ASSUME MakePart(t) PROVE FALSE
      OBVIOUS
    <3>2. PICK what \in {"none", "unread", "unsent"} : IF what = "none" THEN NoFault ELSE Fault(what)
      BY <3>1 DEF MakePart
    <3>3. QED
      BY <1>1, <1>2, <3>2
  <2>2. ~MakeNothing(t) /\ ~MakeFails(t) /\ ~AllocateBuffer(t) /\ ~Return(t)
    BY <1>1, <1>2 DEF MakeNothing, MakeFails, AllocateBuffer, Return
  <2>3. ~SetParam(t) /\ ~SendSetState(t) /\ ~EnablePort(t)
    BY <1>1, <1>2 DEF SetParam, SendSetState, EnablePort
  <2>4. ~SkipSetState(t) /\ ~SetStartTime(t)
    BY <1>1, <1>2 DEF SkipSetState, SetStartTime
  <2>5. ~EndWait(t) /\ ~WaitForPortEnable(t)
    BY <1>2, <1>3 DEF EndWait, WaitForPortEnable
  <2>6. SetupTunnel(t)
    BY <1>4, <2>1, <2>2, <2>3, <2>4, <2>5 DEF Run
  <2>7. ~MayTunnel(Step(t).on, Step(t).to)
    BY <1>1, <1>2, <2>6 DEF SetupTunnel
  <2>8. QED
    BY <2>6, <2>7
<1>5. \A c \in Parts : ~CarryOut(c) /\ ~Refuse(c)
  BY <1>1, <1>2 DEF CarryOut, Refuse
<1>6. ~Call /\ ~PortSettingsChange
  BY <1>2 DEF Call, PortSettingsChange
<1>7. QED
  BY <1>4, <1>5, <1>6 DEF Next

(* A setupTunnel() of load() finds its ports as create() left them:        *)
(* nothing load() sent before, waited for or not, is for those ports.      *)
LEMMA LoadMayTunnel ==
    ASSUME Types, Places, Order, Untouched, SetupTunnel("app")
    PROVE  MayTunnel(Step("app").on, Step("app").to)
<1> "app" \in Threads
  BY DEF Threads
<1>1. Step("app").op = "connect" /\ step["app"] <= Len(Script("app"))
  BY DEF SetupTunnel, At, Step
<1>2. call["app"] = "load" /\ ~Broken
  BY <1>1, AppPorts DEF Broken
<1>3. Step("app").on \in Ports /\ Step("app").to \in Ports
  BY <1>1, ThisStep DEF StepKind
<1>4. ASSUME NEW p \in {Step("app").on, Step("app").to} PROVE p \notin on \/ state[Owner(p)] = "loaded"
  <2>1. ~Touched(p)
    BY <1>1, <1>2, ConnectsFirst
  <2>2. Owner(p) \in Parts /\ p \in ToSet(PortsOf[Owner(p)])
    BY <1>3, Owners
  <2>3. QED
    BY <1>2, <2>1, <2>2 DEF Untouched
<1>5. QED
  BY <1>4 DEF MayTunnel

(* A race recorded in a step is one of the callback, and the callback runs *)
(* its script only in a player that plays.                                 *)
LEMMA RacesStep ==
    ASSUME Types, Places, Order, Untouched, OnlyPlayRaces, Next
    PROVE  OnlyPlayRaces'
<1>1. SUFFICES ASSUME "raced" \in past', "raced" \notin past PROVE Playing'
  BY PlayingStep DEF OnlyPlayRaces, Evolves
<1>2. PICK t \in Threads : SetupTunnel(t) /\ ~MayTunnel(Step(t).on, Step(t).to)
  BY <1>1, RacedBy
<1>3. t = "callback"
  BY <1>2, LoadMayTunnel DEF Threads
<1>4. step[t] <= Len(Script(t))
  BY <1>2 DEF SetupTunnel, At
<1>5. Playing
  BY <1>3, <1>4, CallbackPorts
<1>6. QED
  BY <1>5, PlayingStep DEF Evolves

(* Whatever load() does not wait for, each of its setupTunnel() finds both *)
(* ports disabled or their component in Loaded: commands of load() that    *)
(* are still on their way never get in the way of its tunnels.             *)
THEOREM LoadNeverRaces == Spec => []OnlyPlayRaces
<1> DEFINE I == PipelineInv /\ OnlyPlayRaces
<1>1. Init => I
  BY InitConnects, InitIs DEF OnlyPlayRaces
<1>2. I /\ [Next]_vars => I'
  <2>1. ASSUME I, Next PROVE I'
    BY <2>1, PipelineInvStep, RacesStep DEF PipelineInv, PausesInv
  <2>2. ASSUME I, UNCHANGED vars PROVE I'
    BY <2>2, PipelineInvStutter DEF OnlyPlayRaces, Playing, vars, threadVars, playerVars
  <2>3. QED
    BY <2>1, <2>2
<1>3. I => OnlyPlayRaces
  OBVIOUS
<1>4. QED
  BY <1>1, <1>2, <1>3, PTL DEF Spec
-----------------------------------------------------------------------------
(* A crash has a cause on record: a component whose handle was not         *)
(* obtained, a buffer that was not allocated or port numbers that were not *)
(* read.                                                                   *)
CrashExplained == crashed => past \cap {"noHandle", "noBuffer", "unread"} # {}

(* A component with a handle knows its ports, unless a create() did not    *)
(* read its port numbers.                                                  *)
HandlesKnown == \A c \in handles : ToSet(PortsOf[c]) \subseteq known \/ "unread" \in past
(* A create() that load() has passed left a handle, except the video       *)
(* codec's: load() looks at its result and a later step may fail.          *)
MadeHasHandle == \A c \in Parts : Make(c) \in Done => c \in handles \/ c = "vcodec"

(* The port a wait of load() is for belongs to a component that an earlier *)
(* step of load() made.                                                    *)
LEMMA WaitsAt ==
    ASSUME NEW k \in Nat, NEW x, LoadAt(k, x), x.op = "wait"
    PROVE  \/ x.on = "vcodec.in" /\ \E i \in Nat : i < k /\ LoadAt(i, Param("vcodec", "end"))
           \/ x.on \in {"acodec.in", "acodec.out"} /\ \E i \in Nat : i < k /\ LoadAt(i, Make("acodec"))
           \/ x.on = "arend.in" /\ \E i \in Nat : i < k /\ LoadAt(i, Make("arend"))
<1>1. \/ "video" \in content /\ k = 10 /\ x.on = "vcodec.in"
      \/ "audio" \in content /\ k \in {VideoLen + 9, VideoLen + 17} /\ x.on \in {"acodec.in", "acodec.out"}
      \/ "audio" \in content /\ k = VideoLen + 15 /\ x.on = "arend.in"
  BY DEF LoadAt, VideoAt, AudioAt, VideoLen, AudioLen, Make, Param, SetState, Enable, Allocate, WaitPort, Connect, StartTime
<1>2. VideoLen \in Nat
  BY DEF VideoLen
<1>3. CASE "video" \in content /\ k = 10 /\ x.on = "vcodec.in"
  <2>1. LoadAt(6, Param("vcodec", "end"))
    BY <1>3 DEF LoadAt, VideoAt
  <2>2. QED
    BY <1>3, <2>1
<1>4. CASE "audio" \in content /\ k \in {VideoLen + 9, VideoLen + 17} /\ x.on \in {"acodec.in", "acodec.out"}
  <2>1. LoadAt(VideoLen + 3, Make("acodec"))
    BY <1>2, <1>4 DEF LoadAt, AudioAt
  <2>2. VideoLen + 3 \in Nat /\ VideoLen + 3 < k
    BY <1>2, <1>4
  <2>3. QED
    BY <1>4, <2>1, <2>2
<1>5. CASE "audio" \in content /\ k = VideoLen + 15 /\ x.on = "arend.in"
  <2>1. LoadAt(VideoLen + 4, Make("arend"))
    BY <1>2, <1>5 DEF LoadAt, AudioAt
  <2>2. VideoLen + 4 \in Nat /\ VideoLen + 4 < k
    BY <1>2, <1>5
  <2>3. QED
    BY <1>5, <2>1, <2>2
<1>6. QED
  BY <1>1, <1>3, <1>4, <1>5

(* The port that waitForPortEnable() looks up is known, if every create()  *)
(* read its port numbers.                                                  *)
LEMMA WaitsKnown ==
    ASSUME Types, Places, Order, Known, HandlesKnown, MadeHasHandle, NEW t \in Threads, At(t, "wait"),
           "unread" \notin past
    PROVE  Step(t).on \in known
<1>1. step[t] <= Len(Script(t)) /\ Step(t).op = "wait"
  BY DEF At, Step
<1>2. StepAt(t, step[t], Step(t)) /\ step[t] \in Nat
  BY <1>1, ThisStep, Basics
<1>3. call[t] = "load"
  BY <1>1, <1>2 DEF StepAt, PlayAt, ResumeAt, PauseAt, ChangeAt, SetState, Param, Disable, Connect
<1>4. t = "app" /\ Done = DoneBy("app")
  BY <1>3, DoneIsBy, Basics DEF Threads
<1>5. ASSUME NEW i \in Nat, NEW x, i < step[t], LoadAt(i, x) PROVE x \in Done
  <2>1. i \in 1 .. step[t] - 1
    <3>1. i >= 1
      BY <1>5, LoadTotal
    <3>2. QED
      BY <1>2, <1>5, <3>1
  <2>2. StepAt("app", i, x)
    BY <1>3, <1>4, <1>5 DEF StepAt
  <2>3. QED
    BY <1>4, <2>1, <2>2, DoneIs, Basics
<1>6. LoadAt(step[t], Step(t))
  BY <1>2, <1>3 DEF StepAt
<1>7. ASSUME NEW c \in handles, Step(t).on \in ToSet(PortsOf[c]) PROVE Step(t).on \in known
  BY <1>7 DEF HandlesKnown
<1>8. CASE Step(t).on = "vcodec.in" /\ \E i \in Nat : i < step[t] /\ LoadAt(i, Param("vcodec", "end"))
  BY <1>5, <1>7, <1>8, PortSets DEF Known
<1>9. CASE Step(t).on \in {"acodec.in", "acodec.out"} /\ \E i \in Nat : i < step[t] /\ LoadAt(i, Make("acodec"))
  BY <1>5, <1>7, <1>9, PortSets DEF MadeHasHandle
<1>10. CASE Step(t).on = "arend.in" /\ \E i \in Nat : i < step[t] /\ LoadAt(i, Make("arend"))
  BY <1>5, <1>7, <1>10, PortSets DEF MadeHasHandle
<1>11. QED
  BY <1>1, <1>2, <1>6, <1>8, <1>9, <1>10, WaitsAt

(* A create() that obtains a handle enters the ports, or it is on record   *)
(* that it did not read them.                                              *)
LEMMA HandlesStep ==
    ASSUME Types, Places, Order, HandlesKnown, Next
    PROVE  HandlesKnown'
<1>1. past \subseteq past'
  BY PastGrows
<1>2. ASSUME handles' = handles, known' = known PROVE HandlesKnown'
  BY <1>1, <1>2 DEF HandlesKnown
<1>3. ASSUME NEW t \in Threads, MakePart(t) PROVE HandlesKnown'
  <2> DEFINE c == Step(t).on
  <2>1. /\ handles' = handles \cup {c} /\ known \subseteq known'
        /\ "unread" \in past' \/ ToSet(PortsOf[c]) \subseteq known'
    BY <1>3 DEF MakePart, Fault
  <2> HIDE DEF c
  <2>2. QED
    BY <1>1, <2>1 DEF HandlesKnown
<1>4. ASSUME NEW t \in Threads, Run(t), ~MakePart(t) PROVE handles' = handles /\ known' = known
  <2>1. CASE MakeNothing(t) \/ MakeFails(t) \/ SetParam(t) \/ AllocateBuffer(t) \/ WaitForPortEnable(t) \/ Return(t)
    BY <2>1 DEF MakeNothing, MakeFails, SetParam, AllocateBuffer, WaitForPortEnable, Return, Crash, clientVars
  <2>2. CASE SkipSetState(t) \/ EndWait(t) \/ SendSetState(t) \/ EnablePort(t) \/ SetupTunnel(t) \/ SetStartTime(t)
    BY <2>2 DEF SkipSetState, EndWait, SendSetState, EnablePort, SetupTunnel, SetStartTime, clientVars
  <2>3. QED
    BY <1>4, <2>1, <2>2 DEF Run
<1>5. ASSUME NEW c \in Parts, CarryOut(c) \/ Refuse(c) PROVE handles' = handles /\ known' = known
  BY <1>5 DEF CarryOut, Refuse, clientVars
<1>6. Call \/ PortSettingsChange => handles' = handles /\ known' = known
  BY DEF Call, PortSettingsChange, clientVars
<1>7. QED
  BY <1>2, <1>3, <1>4, <1>5, <1>6 DEF Next

(* No step takes a handle away, and load() passes a create() with one.     *)
LEMMA MadeStep ==
    ASSUME Types, Places, Order, MadeHasHandle, Next
    PROVE  MadeHasHandle'
<1>1. handles \subseteq handles'
  BY PastGrows
<1>2. SUFFICES ASSUME NEW c \in Parts, Make(c) \in Done', c # "vcodec" PROVE c \in handles'
  BY DEF MadeHasHandle
<1>3. ASSUME Ahead("app"), Step("app") = Make(c) PROVE c \in handles'
  BY <1>2, <1>3 DEF Ahead, Make
<1>4. Make(c) \notin SkippedSteps
  BY DEF SkippedSteps, Make, Connect, WaitPort, SetState
<1>5. Make(c) \in Done => c \in handles'
  BY <1>1, <1>2 DEF MadeHasHandle
<1>6. QED
  BY <1>2, <1>3, <1>4, <1>5, DoneStep DEF LoadMoves

(* A step that crashes has its cause on record.                            *)
LEMMA CrashStep ==
    ASSUME Types, Places, Order, Known, HandlesKnown, MadeHasHandle, CrashExplained, Next
    PROVE  CrashExplained'
<1>1. past \subseteq past'
  BY PastGrows
<1>2. ASSUME crashed' = crashed PROVE CrashExplained'
  BY <1>1, <1>2 DEF CrashExplained
<1>3. ASSUME NEW t \in Threads, Run(t) PROVE CrashExplained'
  <2>1. CASE MakeFails(t)
    BY <2>1 DEF MakeFails, Fault, CrashExplained
  <2>2. CASE AllocateBuffer(t)
    <3>1. crashed' = crashed \/ Fault("noBuffer")
      BY <2>2 DEF AllocateBuffer
    <3>2. QED
      BY <1>2, <3>1 DEF Fault, CrashExplained
  <2>3. CASE WaitForPortEnable(t)
    <3>1. crashed' = crashed \/ (At(t, "wait") /\ Step(t).on \notin known)
      BY <2>3 DEF WaitForPortEnable
    <3>2. "unread" \in past => CrashExplained'
      BY <1>1 DEF CrashExplained
    <3>3. QED
      BY <1>2, <3>1, <3>2, WaitsKnown
  <2>4. CASE MakePart(t) \/ MakeNothing(t) \/ SetParam(t) \/ SkipSetState(t) \/ SendSetState(t) \/ EndWait(t)
    <3>1. crashed' = crashed
      BY <2>4 DEF MakePart, MakeNothing, SetParam, SkipSetState, SendSetState, EndWait
    <3>2. QED
      BY <1>2, <3>1
  <2>5. CASE EnablePort(t) \/ SetupTunnel(t) \/ SetStartTime(t) \/ Return(t)
    <3>1. crashed' = crashed
      BY <2>5 DEF EnablePort, SetupTunnel, SetStartTime, Return
    <3>2. QED
      BY <1>2, <3>1
  <2>6. QED
    BY <1>3, <2>1, <2>2, <2>3, <2>4, <2>5 DEF Run
<1>4. ASSUME NEW c \in Parts, CarryOut(c) \/ Refuse(c) PROVE crashed' = crashed
  BY <1>4 DEF CarryOut, Refuse
<1>5. Call \/ PortSettingsChange => crashed' = crashed
  BY DEF Call, PortSettingsChange
<1>6. QED
  BY <1>2, <1>3, <1>4, <1>5 DEF Next

(* load(), play(), pause() and the callbacks use a handle, a buffer or a   *)
(* port that is not there only if an OMX call did not give it: the other   *)
(* failures, the late commands and the order of the steps never make them  *)
(* crash.                                                                  *)
THEOREM CrashesExplained == Spec => []CrashExplained
<1> DEFINE I == PipelineInv /\ HandlesKnown /\ MadeHasHandle /\ CrashExplained
<1>1. Init => I
  <2>1. ASSUME Init PROVE HandlesKnown /\ MadeHasHandle /\ CrashExplained
    <3>1. handles = {} /\ Done = {} /\ crashed = FALSE
      BY <2>1, InitIs DEF Init
    <3>2. QED
      BY <3>1 DEF HandlesKnown, MadeHasHandle, CrashExplained
  <2>2. QED
    BY <2>1, InitConnects
<1>2. I /\ [Next]_vars => I'
  <2>1. ASSUME I, Next PROVE I'
    BY <2>1, PipelineInvStep, HandlesStep, MadeStep, CrashStep DEF PipelineInv, PausesInv
  <2>2. ASSUME I, UNCHANGED vars PROVE I'
    <3>1. UNCHANGED <<call, step, status, content, first, handles, known, past, crashed>>
      BY <2>2 DEF vars, threadVars, playerVars, clientVars
    <3>2. DoneBy("app")' = DoneBy("app")
      BY <3>1 DEF DoneBy, Script
    <3>3. Done' = Done
      BY <3>1, <3>2 DEF Done
    <3>4. QED
      BY <2>2, <3>1, <3>3, PipelineInvStutter DEF HandlesKnown, MadeHasHandle, CrashExplained
  <2>3. QED
    BY <2>1, <2>2
<1>3. I => CrashExplained
  OBVIOUS
<1>4. QED
  BY <1>1, <1>2, <1>3, PTL DEF Spec
=============================================================================
