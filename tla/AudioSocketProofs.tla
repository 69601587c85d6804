------------------------- MODULE AudioSocketProofs -------------------------
(***************************************************************************)
(* For any number of replies, fillers of a turn and messages on the wire:  *)
(* one stream at a time, whole, that nobody leaves behind, and a report    *)
(* of playback at most for each reply.                                     *)
(*                                                                         *)
(* Two parts.  The floor of the speakers: the loop and the filler both     *)
(* abort and then start in two steps, and it is the loop's wait for the    *)
(* filler that keeps the one out of the other's gap (Speakers).  The life  *)
(* of a reply: unspoken, then spoken by one stream, of which the browser   *)
(* makes one report, at its announcement or at its end (Reporting).        *)
(***************************************************************************)
EXTENDS AudioSocket, FiniteSetTheorems, TLAPS

InTurn == \/ loop.at \in {"transcribing", "thinking", "telling", "settling", "outwaiting"}
          \/ At("acking") /\ loop.next \in {"turn", "recover", "drop"}

\* The turn under way has a reply's number left to give.
RoomForReply ==
  At("transcribing") \/ At("thinking") \/ (At("acking") /\ loop.next \in {"turn", "recover"})
    => replies < MaxReplies

\* abort() has been called and start() may be about to be, by the loop or the filler.
Hush == loop.at \in {"terminating", "speak", "gone"} \/ filler.at \in {"terminating", "starting"}

Speakers ==
  /\ Filling => InTurn
  /\ filler.at \in {"terminating", "starting"} => filler.said < MaxPerTurn
  /\ RoomForReply
  /\ Hush => \A s \in Streams : ~Live(s)
  /\ \A s \in Streams : Live(s) => s = sender

-----------------------------------------------------------------------------
IsBegin(m, r) == m.say = "begin" /\ m.of = r
Ends(m, r) == m.say = "end" /\ m.of = r
Closes(m) == m.say = "end" /\ m.frames > 0
Continues(m) == m.say = "frame" \/ Closes(m)

\* What follows another stream's announcement is behind its own as well.
AnnouncedSince(w, i, j, r) == \E k \in DOMAIN w : i < k /\ k < j /\ IsBegin(w[k], r)
Ordered ==
  \A i, j \in DOMAIN wire :
    i < j /\ wire[i].say = "begin" /\ Continues(wire[j]) /\ wire[i].of # wire[j].of
      => AnnouncedSince(wire, i, j, wire[j].of)

\* And so it is with what a voice that was announced will still write.
Leading ==
  \A s \in Streams, i \in DOMAIN wire :
    Live(s) /\ voice[s].sent > 0 /\ wire[i].say = "begin" /\ wire[i].of # voice[s].of
      => AnnouncedSince(wire, i, Len(wire) + 1, voice[s].of)

-----------------------------------------------------------------------------
\* What makes the browser owe, or speak, a reply it owed nothing for.
Creates(m, r) ==
  /\ m.of = r
  /\ \/ m.say = "begin" \/ (m.say = "end" /\ m.frames = 0)
     \/ m.say = "reply" /\ voiced = "no"

Owed(r) == (\E i \in DOMAIN reports : reports[i] = r) \/ browser.owes = r \/ browser.speaks = r

OnceOwed(r) ==
  /\ \A i, j \in DOMAIN reports : reports[i] = r /\ reports[j] = r => i = j
  /\ (\E i \in DOMAIN reports : reports[i] = r) => browser.owes # r /\ browser.speaks # r
  /\ ~(browser.owes = r /\ browser.speaks = r)

\* A reply that has not been given, or whose telling or speaking is to come.
Awaits == \/ At("telling") /\ loop.next = "answer"
          \/ voiced = "yes" /\ (loop.next \in {"start", "speak"} \/ loop.at \in {"start", "speak"})
Unspoken(r) == r > replies \/ (r = replies /\ Awaits)

Voiceless(r) == \A s \in Streams : Live(s) => voice[s].of # r
Unheard(r) == \A j \in DOMAIN wire : ~Creates(wire[j], r) /\ ~(Closes(wire[j]) /\ wire[j].of = r)

\* The stream of r has begun and its end is to come.
Midway(r) == \/ \E s \in Streams : Live(s) /\ voice[s].of = r /\ voice[s].sent > 0
             \/ \E j \in DOMAIN wire : Closes(wire[j]) /\ wire[j].of = r

ReplyRight(r) ==
  /\ OnceOwed(r)
  /\ Unspoken(r) => Voiceless(r) /\ Unheard(r) /\ ~Owed(r)
  /\ \A s \in Streams : Live(s) /\ voice[s].of = r =>
       /\ voice[s].sent = 0 => Unheard(r) /\ ~Owed(r)
       /\ \A j \in DOMAIN wire : ~(wire[j].say = "end" /\ wire[j].of = r)
  /\ \A i, j \in DOMAIN wire : Creates(wire[i], r) /\ Creates(wire[j], r) => i = j
  /\ \A i, j \in DOMAIN wire :
       wire[i].say = "end" /\ wire[i].of = r /\ wire[j].say = "end" /\ wire[j].of = r => i = j
  /\ \A i, j \in DOMAIN wire : Creates(wire[i], r) /\ Closes(wire[j]) /\ wire[j].of = r => i < j
  /\ \A i \in DOMAIN wire : Creates(wire[i], r) => ~Owed(r)
  /\ Midway(r) => browser.audio = "off" \/ ~Owed(r)

\* Without a synthesizer nobody speaks here: the browser does.
Mute ==
  voiced = "no" => /\ ~Filling /\ ~At("speak") /\ loop.next # "speak"
                   /\ \A s \in Streams : ~Live(s)
                   /\ \A j \in DOMAIN wire : wire[j].say # "end"

\* The floor is the reply's that is about to be told.
AnswersFloor == At("telling") /\ loop.next = "answer" => floor = replies

Reporting ==
  /\ Mute
  /\ AnswersFloor
  /\ \A r \in Replies : ReplyRight(r)

IInv == TypeOK /\ Speakers /\ Ordered /\ Leading /\ Reporting

-----------------------------------------------------------------------------
(* Types *)

Shape(at, next) ==
  \/ at \in {"receiving", "transcribing", "thinking", "start", "leave"} /\ next = "none"
  \/ at = "acking" /\ next \in {"receiving", "barge", "turn", "recover", "drop"}
  \/ at = "telling" /\ next \in {"answer", "drop"}
  \/ at = "settling" /\ next \in {"start", "receiving", "leave"}
  \/ at = "outwaiting" /\ next \in {"start", "receiving", "leave", "silence", "close"}
  \/ at = "terminating" /\ next \in {"speak", "barge", "gone"}
  \/ at \in {"speak", "silence", "barge", "close", "gone"} /\ next \in {"none", at}

LEMMA PositionFacts ==
  /\ \A at, next : Shape(at, next) => [at |-> at, next |-> next] \in Positions
  /\ \A p \in Positions : Shape(p.at, p.next) /\ p = [at |-> p.at, next |-> p.next]
<1>1. ASSUME NEW at, NEW next, Shape(at, next) PROVE [at |-> at, next |-> next] \in Positions
  BY <1>1 DEF Shape, Positions, Stages
<1>2. ASSUME NEW p \in Positions PROVE Shape(p.at, p.next) /\ p = [at |-> p.at, next |-> p.next]
  BY <1>2 DEF Shape, Positions, Stages
<1> QED
  BY <1>1, <1>2

LEMMA GoesTyped ==
  ASSUME NEW stage, NEW next, Goes(stage, next), Shape(stage, next)
  PROVE  loop' \in Positions
BY PositionFacts DEF Goes

LEMMA LoopShape ==
  ASSUME TypeOK
  PROVE  Shape(loop.at, loop.next)
BY PositionFacts DEF TypeOK

\* No voice is used again while another is at it.
LEMMA IdleFacts ==
  ASSUME \A s \in Streams : ~Live(s)
  PROVE  Idle = 1 /\ Idle \in Streams
<1>1. 1 \in Streams /\ \A s \in Streams : s \in Nat /\ s >= 1
  BY DEF Streams
<1>2. ~Live(1) /\ \A t \in 1..(1 - 1) : Live(t)
  BY <1>1
<1>3. ASSUME NEW s \in Streams, ~Live(s), \A t \in 1..(s - 1) : Live(t) PROVE s = 1
  <2>1. s > 1 => 1 \in 1..(s - 1)
    BY <1>1
  <2> QED
    BY <1>1, <1>3, <2>1
<1> QED
  BY <1>1, <1>2, <1>3 DEF Idle

\* sender.abort(), and sender.start() after it
LEMMA AbortsFacts ==
  ASSUME TypeOK, Speakers, Aborts
  PROVE  /\ sender' = 0 /\ \A s \in Streams : ~Live(s)'
         /\ voice' \in [Streams -> [at : {"none", "live"}, of : Given, sent : 0..2]]
<1>1. sender \in {0} \cup Streams /\ 0 \notin Streams /\ MaxReplies \in Nat
  BY BoundsAssumption DEF TypeOK, Streams
<1>2. NoVoice \in [at : {"none", "live"}, of : Given, sent : 0..2] /\ NoVoice.at # "live"
  BY <1>1 DEF NoVoice, Given
<1>3. CASE Live(sender)
  <2>1. sender \in Streams /\ voice' = [voice EXCEPT ![sender] = NoVoice]
    BY <1>1, <1>3 DEF Live, Aborts
  <2>2. \A s \in Streams : voice'[s] = IF s = sender THEN NoVoice ELSE voice[s]
    BY <2>1 DEF TypeOK
  <2>3. \A s \in Streams : ~Live(s)'
    BY <1>2, <2>2 DEF Speakers, Live
  <2> QED
    BY <1>2, <2>1, <2>3 DEF Aborts, TypeOK
<1>4. CASE ~Live(sender)
  BY <1>4 DEF Speakers, Live, Aborts, TypeOK
<1> QED
  BY <1>3, <1>4

LEMMA StartsFacts ==
  ASSUME TypeOK, \A s \in Streams : ~Live(s), NEW of \in Given, Starts(of)
  PROVE  /\ sender' \in Streams /\ \A s \in Streams : Live(s)' <=> s = sender'
         /\ voice'[sender'].of = of /\ voice'[sender'].sent = 0
         /\ voice' \in [Streams -> [at : {"none", "live"}, of : Given, sent : 0..2]]
<1>1. PICK v : v = [at |-> "live", of |-> of, sent |-> 0]
  OBVIOUS
<1>2. v \in [at : {"none", "live"}, of : Given, sent : 0..2] /\ v.at = "live" /\ v.of = of /\ v.sent = 0
  BY <1>1
<1>3. sender' = 1 /\ 1 \in Streams /\ voice' = [voice EXCEPT ![1] = v] /\ 0 \notin Streams
  BY <1>1, IdleFacts DEF Starts, Streams
<1>4. voice'[1] = v /\ \A s \in Streams \ {1} : voice'[s] = voice[s]
  BY <1>3 DEF TypeOK
<1> QED
  BY <1>2, <1>3, <1>4 DEF Live, TypeOK

-----------------------------------------------------------------------------
(* The wire *)

Messages == [say : Says, of : Given, frames : 0..1]

LEMMA WritesFacts ==
  ASSUME TypeOK, NEW m \in Messages, Writes(m)
  PROVE  /\ wire' = Append(wire, m) /\ socket = "open"
         /\ wire' \in Seq(Messages) /\ Len(wire') = Len(wire) + 1 /\ Len(wire') =< MaxWire
         /\ Len(wire) \in Nat /\ DOMAIN wire = 1..Len(wire) /\ DOMAIN wire' = 1..(Len(wire) + 1)
         /\ wire'[Len(wire) + 1] = m /\ \A i \in DOMAIN wire : wire'[i] = wire[i]
<1>1. wire \in Seq(Messages) /\ MaxWire \in Nat
  BY BoundsAssumption DEF TypeOK, Messages
<1>2. wire' = Append(wire, m) /\ Len(wire) < MaxWire /\ socket = "open"
  BY DEF Writes, Room
<1> HIDE DEF Messages
<1> QED
  BY <1>1, <1>2

LEMMA SendTyped ==
  ASSUME TypeOK, NEW m \in Messages, Writes(m) \/ Fails
  PROVE  wire' \in Seq(Messages) /\ Len(wire') =< MaxWire
<1>1. CASE Writes(m)
  BY <1>1, WritesFacts
<1>2. CASE Fails
  BY <1>2 DEF Fails, TypeOK, Messages
<1> QED
  BY <1>1, <1>2

LEMMA EmptyTyped ==
  /\ <<>> \in Seq(Messages) /\ Len(<<>>) =< MaxWire /\ <<>> \in Seq(Replies)
BY BoundsAssumption

LEMMA ReceivedFacts ==
  ASSUME TypeOK, wire # <<>>
  PROVE  /\ Head(wire) \in Messages /\ Head(wire) = wire[1] /\ Tail(wire) \in Seq(Messages)
         /\ Len(Tail(wire)) = Len(wire) - 1 /\ Len(Tail(wire)) =< MaxWire
         /\ Len(wire) \in Nat /\ DOMAIN wire = 1..Len(wire) /\ Len(wire) >= 1
         /\ DOMAIN Tail(wire) = 1..(Len(wire) - 1)
         /\ \A i \in 1..(Len(wire) - 1) : Tail(wire)[i] = wire[i + 1]
<1>1. wire \in Seq(Messages) /\ MaxWire \in Nat /\ Len(wire) =< MaxWire
  BY BoundsAssumption DEF TypeOK, Messages
<1> HIDE DEF Messages
<1> QED
  BY <1>1

-----------------------------------------------------------------------------
(* Every step keeps the types. *)

LEMMA GivenFacts ==
  /\ 0 \in Given /\ Replies \subseteq Given /\ MaxReplies \in Nat
  /\ \A r \in Given : r # 0 => r \in Replies
BY BoundsAssumption DEF Given, Replies

\* What the browser does on a message, without CASE.
LEMMA ReceiveCases ==
  ASSUME NEW m \in Messages, Receive(m)
  PROVE  /\ m.say = "begin" => Begin(m)
         /\ m.say = "frame" => browser' = browser \/ browser' = [browser EXCEPT !.playing = "yes"]
         /\ Closes(m) => EndPlayed(m)
         /\ m.say = "end" /\ m.frames = 0 =>
              IF m.of = Filler THEN browser' = Stopped ELSE Speaks(Stopped, m.of)
         /\ m.say = "aborted" => browser' = Stopped
         /\ m.say = "barge-in" => browser' = [Stopped EXCEPT !.speaks = 0]
         /\ m.say = "reply" =>
              IF voiced = "yes" THEN UNCHANGED browser ELSE Speaks(browser, m.of)
<1>1. m.frames \in 0..1 /\ (m.frames > 0 <=> m.frames # 0)
  BY DEF Messages
<1>2. CASE m.say = "end" /\ m.frames = 0
  BY <1>1, <1>2 DEF Receive, Closes
<1>3. CASE Closes(m)
  BY <1>1, <1>3 DEF Receive, Closes
<1>4. CASE m.say # "end"
  BY <1>4 DEF Receive, Closes
<1> QED
  BY <1>1, <1>2, <1>3, <1>4 DEF Closes

Players == [audio : {"on", "off"}, ended : {"yes", "no"}, playing : {"yes", "no"},
            owes : Given, speaks : Given]

LEMMA ReceiveTyped ==
  ASSUME TypeOK, BrowserReceives
  PROVE  TypeOK'
<1>1. PICK m \in Messages : m = Head(wire) /\ Receive(m) /\ wire' = Tail(wire)
  BY ReceivedFacts DEF BrowserReceives
<1>2. browser \in Players
  BY DEF TypeOK, Players
<1>3. m.of \in Given /\ 0 \in Given
  BY GivenFacts DEF Messages
<1>4. browser' \in Players
  <2>1. PICK stopped \in Players : stopped = Stopped
    BY <1>2, <1>3 DEF Stopped, Players
  <2>2. /\ [stopped EXCEPT !.audio = "on"] \in Players
        /\ \A r \in Given : /\ [stopped EXCEPT !.speaks = r] \in Players
                           /\ [browser EXCEPT !.speaks = r] \in Players
    BY <1>2, <1>3 DEF Players
  <2>3. CASE m.say = "begin"
    <3>1. [browser EXCEPT !.audio = "on", !.ended = "no", !.owes = 0] \in Players
      BY <1>2, <1>3 DEF Players
    <3> QED
      BY <1>1, <1>3, <2>1, <2>2, <2>3, <3>1, ReceiveCases DEF Begin, Speaks
  <2>4. CASE Closes(m)
    <3>1. EndPlayed(m)
      BY <1>1, <2>4, ReceiveCases
    <3> QED
      BY <1>2, <1>3, <3>1 DEF EndPlayed, Players
  <2>5. CASE m.say = "end" /\ m.frames = 0
    BY <1>1, <1>3, <2>1, <2>2, <2>5, ReceiveCases DEF Speaks
  <2>6. CASE m.say = "frame"
    <3>1. browser' = browser \/ browser' = [browser EXCEPT !.playing = "yes"]
      BY <1>1, <2>6, ReceiveCases
    <3> QED
      BY <1>2, <3>1 DEF Players
  <2>7. CASE m.say \in {"aborted", "barge-in"}
    BY <1>1, <1>3, <2>1, <2>2, <2>7, ReceiveCases
  <2>8. CASE m.say = "reply"
    BY <1>1, <1>2, <1>3, <2>2, <2>8, ReceiveCases DEF Speaks
  <2>9. m.say = "end" => Closes(m) \/ m.frames = 0
    BY DEF Messages, Closes
  <2> QED
    BY <2>3, <2>4, <2>5, <2>6, <2>7, <2>8, <2>9 DEF Messages, Says
<1>5. wire' \in Seq(Messages) /\ Len(wire') =< MaxWire
  BY <1>1, ReceivedFacts DEF BrowserReceives
<1> QED
  BY <1>4, <1>5 DEF BrowserReceives, TypeOK, server, Messages, Players

LEMMA PlayedTyped ==
  ASSUME TypeOK, PlaysOut \/ SpokenOut
  PROVE  TypeOK'
<1>1. browser' \in [audio : {"on", "off"}, ended : {"yes", "no"}, playing : {"yes", "no"},
                    owes : Given, speaks : Given]
  BY GivenFacts DEF TypeOK, PlaysOut, SpokenOut
<1>2. reports' \in Seq(Replies)
  <2>1. /\ reports \in Seq(Replies)
        /\ browser.owes # 0 => browser.owes \in Replies
        /\ browser.speaks # 0 => browser.speaks \in Replies
    BY GivenFacts DEF TypeOK
  <2> HIDE DEF Replies
  <2> QED
    BY <2>1 DEF PlaysOut, SpokenOut, Reports
<1> QED
  BY <1>1, <1>2 DEF PlaysOut, SpokenOut, TypeOK, server

LEMMA VoiceTyped ==
  ASSUME TypeOK, NEW s \in Streams, VoiceStep(s)
  PROVE  TypeOK'
<1>1. voice[s] \in [at : {"none", "live"}, of : Given, sent : 0..2] /\ NoVoice \in [at : {"none", "live"}, of : Given, sent : 0..2]
  BY GivenFacts DEF TypeOK, NoVoice
<1>2. voice' \in [Streams -> [at : {"none", "live"}, of : Given, sent : 0..2]]
  <2>1. PICK v \in [at : {"none", "live"}, of : Given, sent : 0..2] : voice' = [voice EXCEPT ![s] = v]
    BY <1>1 DEF VoiceStep, Announce, Frame, Terminate, Moves, IsOver
  <2> QED
    BY <2>1 DEF TypeOK
<1>3. wire' \in Seq(Messages) /\ Len(wire') =< MaxWire
  <2>1. /\ [say |-> "begin", of |-> voice[s].of, frames |-> 0] \in Messages
        /\ [say |-> "frame", of |-> voice[s].of, frames |-> 0] \in Messages
        /\ [say |-> "end", of |-> voice[s].of, frames |-> FramesOf(s)] \in Messages
    BY <1>1 DEF Messages, Says, FramesOf
  <2> QED
    BY <2>1, SendTyped DEF VoiceStep, Announce, Frame, Terminate
<1> QED
  BY <1>2, <1>3 DEF VoiceStep, TypeOK, Messages

Fillers == [at : {"none", "waiting", "terminating", "starting", "draining", "ended"},
            stop : {"yes", "no"}, said : 0..MaxPerTurn]

\* What the loop does to the filler, and what the filler does to itself.
LEMMA FillerTypes ==
  ASSUME TypeOK
  PROVE  /\ NoFiller \in Fillers /\ [filler EXCEPT !.stop = "yes"] \in Fillers
         /\ [at |-> "waiting", stop |-> "no", said |-> 0] \in Fillers
         /\ \A at \in {"waiting", "terminating", "starting", "ended"} :
              [filler EXCEPT !.at = at] \in Fillers
         /\ filler.said < MaxPerTurn => /\ [filler EXCEPT !.said = @ + 1] \in Fillers
                                        /\ [filler EXCEPT !.at = "draining", !.said = @ + 1] \in Fillers
<1>1. filler \in Fillers /\ MaxPerTurn \in Nat /\ filler.said \in 0..MaxPerTurn
  BY BoundsAssumption DEF TypeOK, Fillers
<1>2. filler.said < MaxPerTurn => filler.said + 1 \in 0..MaxPerTurn
  BY <1>1
<1>3. 0 \in 0..MaxPerTurn
  BY <1>1
<1> QED
  BY <1>1, <1>2, <1>3 DEF Fillers, NoFiller

LEMMA FillerTyped ==
  ASSUME TypeOK, Speakers, FillerStep
  PROVE  TypeOK'
<1>1. filler' \in Fillers
  <2>1. CASE FillerDue
    BY <2>1, FillerTypes DEF FillerDue, FillerAt
  <2>2. CASE FillerSilent
    BY <2>2, FillerTypes DEF FillerSilent
  <2>3. CASE FillerTerminates \/ FillerDrained \/ FillerEnds
    BY <2>3, FillerTypes DEF FillerTerminates, FillerDrained, FillerEnds, FillerAt
  <2>4. CASE FillerSpeaks
    BY <2>4, FillerTypes DEF FillerSpeaks, Speakers
  <2> QED
    BY <2>1, <2>2, <2>3, <2>4 DEF FillerStep
<1>2. /\ voice' \in [Streams -> [at : {"none", "live"}, of : Given, sent : 0..2]]
      /\ sender' \in {0} \cup Streams
  <2>1. CASE FillerDue
    BY <2>1, AbortsFacts DEF FillerDue
  <2>2. CASE FillerSpeaks
    <3>1. \A s \in Streams : ~Live(s)
      BY <2>2 DEF FillerSpeaks, Speakers, Hush
    <3> QED
      BY <2>2, <3>1, StartsFacts, GivenFacts DEF FillerSpeaks, Filler
  <2>3. CASE FillerSilent \/ FillerTerminates \/ FillerDrained \/ FillerEnds
    BY <2>3 DEF FillerSilent, FillerTerminates, FillerDrained, FillerEnds, TypeOK
  <2> QED
    BY <2>1, <2>2, <2>3 DEF FillerStep
<1>3. wire' \in Seq(Messages) /\ Len(wire') =< MaxWire
  <2>1. EndAborted \in Messages
    BY GivenFacts DEF EndAborted, Messages, Says
  <2>2. CASE FillerTerminates
    BY <2>1, <2>2, SendTyped DEF FillerTerminates, TriesToSend
  <2>3. CASE UNCHANGED wire
    BY <2>3 DEF TypeOK, Messages
  <2> QED
    BY <2>2, <2>3 DEF FillerStep, FillerDue, FillerSilent, FillerSpeaks, FillerDrained, FillerEnds
<1> QED
  BY <1>1, <1>2, <1>3 DEF FillerStep, TypeOK, Fillers, Messages

LEMMA LoopTyped ==
  ASSUME TypeOK, Speakers, LoopStep \/ ReceiveStep
  PROVE  TypeOK'
<1>1. loop' \in Positions
  <2> USE LoopShape, GoesTyped DEF Shape, At
  <2>1. CASE SettleTimesOut \/ FillerGone
    BY <2>1 DEF SettleTimesOut, FillerGone
  <2>2. CASE Transcribed
    BY <2>2 DEF Transcribed
  <2>3. CASE Acknowledge
    BY <2>3 DEF Acknowledge, Receives, Quits, Settles
  <2>4. CASE Thought \/ Tell
    BY <2>4 DEF Thought, Tell, Settles
  <2>5. CASE StartsReply \/ Silence("silence", "barge") \/ Silence("close", "gone")
    BY <2>5 DEF StartsReply, Silence, Receives
  <2>6. CASE TerminateOld
    BY <2>6 DEF TerminateOld
  <2>7. CASE SpeakReply \/ TellBargeIn
    BY <2>7 DEF SpeakReply, TellBargeIn, Receives
  <2>8. CASE Leave
    BY <2>8 DEF Leave, Quits
  <2>9. CASE Reported
    BY <2>9 DEF Reported, TypeOK
  <2>10. CASE Quiet \/ BargeIn \/ Utterance
    BY <2>10 DEF Quiet, BargeIn, Utterance
  <2> QED
    BY <2>1, <2>2, <2>3, <2>4, <2>5, <2>6, <2>7, <2>8, <2>9, <2>10 DEF LoopStep, ReceiveStep
<1>2. filler' \in Fillers
  <2>1. filler' \in {filler, NoFiller, [filler EXCEPT !.stop = "yes"],
                     [at |-> "waiting", stop |-> "no", said |-> 0]}
    BY DEF LoopStep, ReceiveStep, SettleTimesOut, FillerGone, Transcribed, Acknowledge, Thought, Tell,
       StartsReply, Silence, TerminateOld, SpeakReply, TellBargeIn, Leave, Reported, Quiet, BargeIn,
       Utterance, Begins, Settles, Quits, Cancelled
  <2> QED
    BY <2>1, FillerTypes DEF TypeOK, Fillers
<1>3. floor' \in Given /\ replies' \in Given
  <2>1. floor \in Given /\ replies \in Given
    BY DEF TypeOK
  <2>2. TakesFloor /\ replies < MaxReplies => floor' \in Given /\ replies' \in Given
    BY <2>1, GivenFacts DEF TakesFloor, Given
  <2>3. CASE Acknowledge \/ Thought
    BY <2>1, <2>2, <2>3 DEF Acknowledge, Thought, Speakers, RoomForReply, At
  <2>4. CASE UNCHANGED replies /\ floor' \in {floor, 0}
    BY <2>1, <2>4, GivenFacts
  <2> QED
    BY <2>3, <2>4 DEF LoopStep, ReceiveStep, SettleTimesOut, FillerGone, Transcribed, Tell,
       StartsReply, Silence, TerminateOld, SpeakReply, TellBargeIn, Leave, Reported, Quiet, BargeIn,
       Utterance
<1>4. /\ voice' \in [Streams -> [at : {"none", "live"}, of : Given, sent : 0..2]]
      /\ sender' \in {0} \cup Streams
  <2>1. CASE StartsReply \/ Silence("silence", "barge") \/ Silence("close", "gone")
    BY <2>1, AbortsFacts DEF StartsReply, Silence, TypeOK
  <2>2. CASE SpeakReply
    <3>1. \A s \in Streams : ~Live(s)
      BY <2>2 DEF SpeakReply, Speakers, Hush, At
    <3> QED
      BY <2>2, <3>1, StartsFacts DEF SpeakReply, TypeOK
  <2>3. CASE UNCHANGED <<voice, sender>>
    BY <2>3 DEF TypeOK
  <2> QED
    BY <2>1, <2>2, <2>3 DEF LoopStep, ReceiveStep, SettleTimesOut, FillerGone, Transcribed, Acknowledge,
       Thought, Tell, TerminateOld, TellBargeIn, Leave, Reported, Quiet, BargeIn, Utterance
<1>5. wire' \in Seq(Messages) /\ Len(wire') =< MaxWire
  <2>1. /\ EndAborted \in Messages /\ [say |-> "barge-in", of |-> 0, frames |-> 0] \in Messages
        /\ [say |-> "reply", of |-> floor, frames |-> 0] \in Messages
    BY GivenFacts DEF EndAborted, Messages, Says, TypeOK
  <2>2. CASE TerminateOld \/ TellBargeIn \/ Tell
    BY <2>1, <2>2, SendTyped DEF TerminateOld, TellBargeIn, Tell, TriesToSend, Fails, TypeOK, Messages
  <2>3. CASE UNCHANGED wire
    BY <2>3 DEF TypeOK, Messages
  <2>4. CASE wire' = <<>>
    BY <2>4, EmptyTyped
  <2> QED
    BY <2>2, <2>3, <2>4 DEF LoopStep, ReceiveStep, SettleTimesOut, FillerGone, Transcribed, Acknowledge,
       Thought, StartsReply, Silence, SpeakReply, Leave, Reported, Quiet, BargeIn, Utterance
<1>6. reports' \in Seq(Replies)
  <2>1. reports \in Seq(Replies)
    BY DEF TypeOK
  <2>2. CASE Reported
    BY <2>1, <2>2 DEF Reported
  <2>3. CASE reports' = <<>> \/ UNCHANGED reports
    BY <2>1, <2>3, EmptyTyped
  <2> QED
    BY <2>2, <2>3 DEF LoopStep, ReceiveStep, SettleTimesOut, FillerGone, Transcribed, Acknowledge,
       Thought, Tell, StartsReply, Silence, TerminateOld, SpeakReply, TellBargeIn, Leave, Quiet,
       BargeIn, Utterance
<1>7. UNCHANGED <<voiced, browser>> /\ socket' \in {socket, "gone"}
  BY DEF LoopStep, ReceiveStep, SettleTimesOut, FillerGone, Transcribed, Acknowledge, Thought, Tell,
     StartsReply, Silence, TerminateOld, SpeakReply, TellBargeIn, Leave, Reported, Quiet, BargeIn,
     Utterance
<1> QED
  BY <1>1, <1>2, <1>3, <1>4, <1>5, <1>6, <1>7 DEF TypeOK, Fillers, Messages

LEMMA TypeStep ==
  ASSUME TypeOK, Speakers, [Next]_vars
  PROVE  TypeOK'
<1>1. CASE Disconnect
  BY <1>1, EmptyTyped DEF Disconnect, TypeOK, Messages
<1>2. CASE UNCHANGED vars
  BY <1>2 DEF vars, TypeOK
<1> QED
  BY <1>1, <1>2, ReceiveTyped, PlayedTyped, VoiceTyped, FillerTyped, LoopTyped DEF Next, BrowserStep

-----------------------------------------------------------------------------
(* Who may speak *)

\* A voice that goes on, or is over, and a loop and a filler that stay.
LEMMA VoiceSpeakers ==
  ASSUME TypeOK, Speakers, NEW s \in Streams, VoiceStep(s)
  PROVE  Speakers'
<1>1. \A t \in Streams : Live(t)' => Live(t)
  <2>1. \/ \E n \in 0..2 : voice' = [voice EXCEPT ![s].sent = n]
        \/ voice' = [voice EXCEPT ![s] = NoVoice]
    BY DEF VoiceStep, Announce, Frame, Terminate, Moves, IsOver
  <2>2. NoVoice.at # "live"
    BY DEF NoVoice
  <2>3. voice \in [Streams -> [at : {"none", "live"}, of : Given, sent : 0..2]]
    BY DEF TypeOK
  <2>4. ASSUME NEW n \in 0..2, voice' = [voice EXCEPT ![s].sent = n], NEW t \in Streams
        PROVE  voice'[t].at = voice[t].at
    BY <2>3, <2>4
  <2>5. ASSUME voice' = [voice EXCEPT ![s] = NoVoice], NEW t \in Streams
        PROVE  voice'[t].at \in {voice[t].at, NoVoice.at}
    BY <2>3, <2>5
  <2> QED
    BY <2>1, <2>2, <2>4, <2>5 DEF Live
<1>2. UNCHANGED <<loop, filler, replies, sender>>
  BY DEF VoiceStep
<1> QED
  BY <1>1, <1>2 DEF Speakers, Filling, InTurn, At, RoomForReply, Hush

LEMMA FillerSpeakers ==
  ASSUME TypeOK, Speakers, FillerStep
  PROVE  Speakers'
<1>1. /\ UNCHANGED <<loop, replies>> /\ Filling
      /\ filler.at \in {"waiting", "terminating", "starting", "draining"}
      /\ filler.said \in Nat /\ MaxPerTurn \in Nat /\ filler \in Fillers
  BY BoundsAssumption DEF FillerStep, FillerDue, FillerSilent, FillerTerminates, FillerSpeaks,
     FillerDrained, FillerEnds, Filling, TypeOK, Fillers
<1>2. loop.at \notin {"terminating", "speak", "gone"} /\ InTurn
  BY <1>1 DEF Speakers, InTurn, At
<1>3. CASE FillerDue
  <2>1. filler'.at \in {"terminating", "starting"} /\ filler'.said < MaxPerTurn
    BY <1>1, <1>3 DEF FillerDue, FillerAt, Fillers
  <2> QED
    BY <1>1, <1>2, <1>3, <2>1, AbortsFacts
       DEF FillerDue, Speakers, Filling, InTurn, At, RoomForReply, Hush
<1>4. CASE FillerSpeaks
  <2>1. filler'.at = "draining"
    BY <1>1, <1>4 DEF FillerSpeaks, Fillers
  <2>2. \A s \in Streams : ~Live(s)
    BY <1>4 DEF FillerSpeaks, Speakers, Hush
  <2>3. \A s \in Streams : Live(s)' => s = sender'
    BY <1>4, <2>2, StartsFacts, GivenFacts DEF FillerSpeaks, Filler
  <2> QED
    BY <1>1, <1>2, <2>1, <2>3 DEF Speakers, Filling, InTurn, At, RoomForReply, Hush
<1>5. CASE FillerSilent \/ FillerTerminates \/ FillerDrained \/ FillerEnds
  <2>1. /\ UNCHANGED <<sender, voice>>
        /\ filler'.at \in {"terminating", "starting"} => filler.at = "terminating" /\ filler'.said = filler.said
    BY <1>1, <1>5 DEF FillerSilent, FillerTerminates, FillerDrained, FillerEnds, FillerAt, Fillers
  <2>2. \A s \in Streams : Live(s)' <=> Live(s)
    BY <2>1 DEF Live
  <2> QED
    BY <1>1, <1>2, <2>1, <2>2 DEF Speakers, Filling, InTurn, At, RoomForReply, Hush
<1> QED
  BY <1>3, <1>4, <1>5 DEF FillerStep

\* The loop's steps: what they say of the filler, of the room for a reply, of the voices.
LEMMA LoopSpeakers ==
  ASSUME TypeOK, Speakers, LoopStep \/ ReceiveStep
  PROVE  Speakers'
<1> USE LoopShape DEF Shape, At
<1>1. \/ filler'.at = filler.at /\ filler'.said = filler.said
      \/ filler' = NoFiller
      \/ Utterance /\ filler' = [at |-> "waiting", stop |-> "no", said |-> 0]
  BY DEF LoopStep, ReceiveStep, SettleTimesOut, FillerGone, Transcribed, Acknowledge, Thought, Tell,
     StartsReply, Silence, TerminateOld, SpeakReply, TellBargeIn, Leave, Reported, Quiet, BargeIn,
     Utterance, Begins, Settles, Quits, Cancelled, TypeOK
<1>2. NoFiller.at = "none"
  BY DEF NoFiller
<1>3. Filling' => InTurn'
  <2>1. CASE Utterance
    BY <2>1 DEF Utterance, Goes, InTurn
  <2>2. CASE Reported
    BY <2>2 DEF Reported, Speakers, Filling, InTurn
  <2>3. CASE Quiet \/ BargeIn
    BY <2>3 DEF Quiet, BargeIn, Speakers, Filling, InTurn
  <2>4. CASE Leave
    BY <1>2, <2>4 DEF Leave, Quits, Goes, Speakers, Filling, InTurn
  <2>5. CASE SettleTimesOut \/ FillerGone
    BY <1>2, <2>5 DEF SettleTimesOut, FillerGone, Goes, Filling, InTurn
  <2>6. CASE Transcribed
    BY <2>6 DEF Transcribed, Goes, InTurn
  <2>7. CASE Acknowledge
    BY <1>2, <2>7 DEF Acknowledge, Receives, Quits, Settles, Goes, Speakers, Filling, InTurn
  <2>8. CASE Thought \/ Tell
    BY <2>8 DEF Thought, Tell, Settles, Goes, InTurn
  <2>9. CASE StartsReply \/ Silence("silence", "barge") \/ Silence("close", "gone") \/ TerminateOld
             \/ SpeakReply \/ TellBargeIn
    BY <2>9 DEF StartsReply, Silence, TerminateOld, SpeakReply, TellBargeIn, Speakers, Filling, InTurn
  <2> QED
    BY <2>1, <2>2, <2>3, <2>4, <2>5, <2>6, <2>7, <2>8, <2>9 DEF LoopStep, ReceiveStep
<1>4. filler'.at \in {"terminating", "starting"} => filler'.said < MaxPerTurn /\ filler.at = filler'.at
  BY <1>1, <1>2 DEF Speakers
<1>5. RoomForReply'
  <2> USE DEF Speakers, RoomForReply
  <2>1. CASE Utterance
    BY <2>1 DEF Utterance, TurnFits, Goes
  <2>2. CASE Reported
    BY <2>2 DEF Reported
  <2>3. CASE Quiet \/ BargeIn
    BY <2>3 DEF Quiet, BargeIn, Goes
  <2>4. CASE Leave
    BY <2>4 DEF Leave, Quits, Goes
  <2>5. CASE SettleTimesOut \/ FillerGone
    BY <2>5 DEF SettleTimesOut, FillerGone, Goes
  <2>6. CASE Transcribed
    BY <2>6 DEF Transcribed, Goes
  <2>7. CASE Acknowledge
    BY <2>7 DEF Acknowledge, Receives, Quits, Settles, Goes
  <2>8. CASE Thought \/ Tell
    BY <2>8 DEF Thought, Tell, Settles, Goes
  <2>9. CASE StartsReply \/ Silence("silence", "barge") \/ Silence("close", "gone") \/ TerminateOld
             \/ SpeakReply \/ TellBargeIn
    BY <2>9 DEF StartsReply, Silence, TerminateOld, SpeakReply, TellBargeIn, Receives, Goes
  <2> QED
    BY <2>1, <2>2, <2>3, <2>4, <2>5, <2>6, <2>7, <2>8, <2>9 DEF LoopStep, ReceiveStep
<1>6. CASE StartsReply \/ Silence("silence", "barge") \/ Silence("close", "gone")
  <2>1. (\A s \in Streams : ~Live(s)') \/ (UNCHANGED <<sender, voice>> /\ Receives)
    BY <1>6, AbortsFacts DEF StartsReply, Silence
  <2>2. CASE \A s \in Streams : ~Live(s)'
    BY <1>3, <1>4, <1>5, <2>2 DEF Speakers
  <2>3. CASE UNCHANGED <<sender, voice>> /\ Receives
    BY <1>3, <1>4, <1>5, <2>3 DEF Speakers, Receives, Goes, Hush, Live
  <2> QED
    BY <2>1, <2>2, <2>3
<1>7. CASE SpeakReply
  <2>1. \A s \in Streams : ~Live(s)
    BY <1>7 DEF SpeakReply, Speakers, Hush
  <2>2. \A s \in Streams : Live(s)' => s = sender'
    BY <1>7, <2>1, StartsFacts DEF SpeakReply, TypeOK
  <2>3. ~Filling
    BY <1>7 DEF SpeakReply, Speakers, InTurn
  <2>4. ~Hush'
    BY <1>7, <2>3 DEF SpeakReply, Receives, Goes, Hush, Filling
  <2> QED
    BY <1>3, <1>4, <1>5, <2>2, <2>4 DEF Speakers
<1>8. CASE /\ ~SpeakReply /\ ~StartsReply
           /\ ~Silence("silence", "barge") /\ ~Silence("close", "gone")
  <2>0. UNCHANGED <<sender, voice>>
    BY <1>8 DEF LoopStep, ReceiveStep, SettleTimesOut, FillerGone, Transcribed, Acknowledge,
       Thought, Tell, TerminateOld, TellBargeIn, Leave, Reported, Quiet, BargeIn, Utterance
  <2>1. \A s \in Streams : Live(s)' <=> Live(s)
    BY <2>0 DEF Live
  <2>2. CASE loop'.at \notin {"terminating", "speak", "gone"} \/ TerminateOld
    <3>1. Hush' => Hush
      BY <1>4, <2>2 DEF Hush, TerminateOld
    <3> QED
      BY <1>3, <1>4, <1>5, <2>0, <2>1, <3>1 DEF Speakers
  <2>3. CASE ~TerminateOld /\ loop'.at \in {"terminating", "speak", "gone"}
    <3>1. loop' = loop
      BY <1>8, <2>3 DEF LoopStep, ReceiveStep, SettleTimesOut, FillerGone, Transcribed,
         Acknowledge, Thought, Tell, TellBargeIn, Leave, Reported, Quiet, BargeIn, Utterance,
         Receives, Goes, Quits, Settles
    <3> QED
      BY <1>3, <1>4, <1>5, <2>0, <2>1, <3>1 DEF Speakers, Hush
  <2> QED
    BY <2>2, <2>3
<1> QED
  BY <1>6, <1>7, <1>8

\* One voice, which the sender knows: ReplyAudioSender's start() and abort().
LEMMA OneVoiceFollows ==
  ASSUME TypeOK, Speakers
  PROVE  OneVoice
<1>1. \A s \in Speaking : s = sender
  BY DEF Speaking, Speakers
<1>2. Speaking \subseteq {sender}
  BY <1>1
<1>3. IsFiniteSet({sender}) /\ Cardinality({sender}) = 1
  BY FS_Singleton
<1>4. Cardinality(Speaking) =< 1
  BY <1>2, <1>3, FS_Subset
<1> QED
  BY <1>1, <1>4 DEF OneVoice

LEMMA OutlivesFollows ==
  ASSUME TypeOK, Speakers
  PROVE  NothingOutlives
BY DEF Speakers, InTurn, At, Hush, NothingOutlives, Speaking

-----------------------------------------------------------------------------
(* The order on the wire *)

\* Voices that begin are yet to be announced.
Calm == \A s \in Streams : Live(s)' /\ voice'[s].sent > 0 =>
                             Live(s) /\ voice[s].sent > 0 /\ voice'[s].of = voice[s].of

LEMMA ShrinkOrdered ==
  ASSUME TypeOK, Ordered, Leading, Calm,
         wire' = wire \/ wire' = <<>> \/ (wire # <<>> /\ wire' = Tail(wire))
  PROVE  Ordered' /\ Leading'
<1>1. CASE wire' = wire
  BY <1>1 DEF Ordered, Leading, AnnouncedSince, Calm
<1>2. CASE wire' = <<>>
  BY <1>2 DEF Ordered, Leading
<1>3. CASE wire # <<>> /\ wire' = Tail(wire)
  <2>1. /\ Len(wire) \in Nat /\ DOMAIN wire = 1..Len(wire) /\ DOMAIN wire' = 1..(Len(wire) - 1)
        /\ Len(wire') = Len(wire) - 1
        /\ \A i \in DOMAIN wire' : wire'[i] = wire[i + 1] /\ i + 1 \in DOMAIN wire
    <3>1. /\ Len(wire) \in Nat /\ DOMAIN wire = 1..Len(wire) /\ DOMAIN wire' = 1..(Len(wire) - 1)
          /\ Len(wire') = Len(wire) - 1
          /\ \A i \in 1..(Len(wire) - 1) : wire'[i] = wire[i + 1]
      BY <1>3, ReceivedFacts
    <3> QED
      BY <3>1
  <2>2. ASSUME NEW i \in DOMAIN wire', NEW j \in Nat, j =< Len(wire'), NEW r, AnnouncedSince(wire, i + 1, j + 1, r)
        PROVE  AnnouncedSince(wire', i, j, r)
    <3>1. PICK k \in DOMAIN wire : i + 1 < k /\ k < j + 1 /\ IsBegin(wire[k], r)
      BY <2>2 DEF AnnouncedSince
    <3>2. k - 1 \in DOMAIN wire' /\ i < k - 1 /\ k - 1 < j /\ wire'[k - 1] = wire[k]
      BY <2>1, <2>2, <3>1
    <3> QED
      BY <3>1, <3>2 DEF AnnouncedSince, IsBegin
  <2>3. ASSUME NEW i \in DOMAIN wire', NEW r, AnnouncedSince(wire, i + 1, Len(wire) + 1, r)
        PROVE  AnnouncedSince(wire', i, Len(wire') + 1, r)
    <3>1. PICK k \in DOMAIN wire : i + 1 < k /\ k < Len(wire) + 1 /\ IsBegin(wire[k], r)
      BY <2>3 DEF AnnouncedSince
    <3>2. k - 1 \in DOMAIN wire' /\ i < k - 1 /\ k - 1 < Len(wire') + 1 /\ wire'[k - 1] = wire[k]
      BY <2>1, <3>1
    <3> QED
      BY <3>1, <3>2 DEF AnnouncedSince, IsBegin
  <2>4. Ordered'
    <3> SUFFICES ASSUME NEW i \in DOMAIN wire', NEW j \in DOMAIN wire', i < j, wire'[i].say = "begin",
                        Continues(wire'[j]), wire'[i].of # wire'[j].of
                 PROVE  AnnouncedSince(wire', i, j, wire'[j].of)
      BY DEF Ordered, Continues, Closes
    <3>1. i + 1 \in DOMAIN wire /\ j + 1 \in DOMAIN wire /\ i + 1 < j + 1 /\ j =< Len(wire')
          /\ wire'[i] = wire[i + 1] /\ wire'[j] = wire[j + 1] /\ j \in Nat
      BY <2>1
    <3>2. AnnouncedSince(wire, i + 1, j + 1, wire'[j].of)
      BY <3>1 DEF Ordered
    <3> QED
      BY <2>2, <3>1, <3>2
  <2>5. Leading'
    <3> SUFFICES ASSUME NEW s \in Streams, NEW i \in DOMAIN wire', Live(s)', voice'[s].sent > 0,
                        wire'[i].say = "begin", wire'[i].of # voice'[s].of
                 PROVE  AnnouncedSince(wire', i, Len(wire') + 1, voice'[s].of)
      BY DEF Leading
    <3>1. AnnouncedSince(wire, i + 1, Len(wire) + 1, voice'[s].of)
      BY <2>1 DEF Leading, Calm
    <3> QED
      BY <2>3, <3>1
  <2> QED
    BY <2>4, <2>5
<1> QED
  BY <1>1, <1>2, <1>3

LEMMA GrowOrdered ==
  ASSUME TypeOK, Ordered, Leading, NEW m \in Messages, Writes(m),
         m.say = "begin" => \A s \in Streams : Live(s)' /\ voice'[s].sent > 0 => voice'[s].of = m.of,
         m.say # "begin" => Calm,
         Continues(m) => \E s \in Streams : Live(s) /\ voice[s].sent > 0 /\ voice[s].of = m.of
  PROVE  Ordered' /\ Leading'
<1>1. /\ Len(wire) \in Nat /\ DOMAIN wire = 1..Len(wire) /\ DOMAIN wire' = 1..(Len(wire) + 1)
      /\ Len(wire') = Len(wire) + 1 /\ wire'[Len(wire) + 1] = m
      /\ \A i \in DOMAIN wire : i \in DOMAIN wire' /\ wire'[i] = wire[i]
  BY WritesFacts
<1>2. ASSUME NEW i, NEW j, NEW r, AnnouncedSince(wire, i, j, r)
      PROVE  \E k \in DOMAIN wire' : i < k /\ k < j /\ IsBegin(wire'[k], r)
  BY <1>1, <1>2 DEF AnnouncedSince, IsBegin
<1>3. Ordered'
  <2> SUFFICES ASSUME NEW i \in DOMAIN wire', NEW j \in DOMAIN wire', i < j, wire'[i].say = "begin",
                      Continues(wire'[j]), wire'[i].of # wire'[j].of
               PROVE  AnnouncedSince(wire', i, j, wire'[j].of)
    BY DEF Ordered, Continues, Closes
  <2>1. i \in DOMAIN wire /\ wire'[i] = wire[i]
    BY <1>1
  <2>2. AnnouncedSince(wire, i, j, wire'[j].of)
    <3>1. CASE j \in DOMAIN wire
      BY <1>1, <2>1, <3>1 DEF Ordered
    <3>2. CASE j = Len(wire) + 1
      <4>1. PICK s \in Streams : Live(s) /\ voice[s].sent > 0 /\ voice[s].of = m.of
        BY <1>1, <3>2
      <4> QED
        BY <1>1, <2>1, <3>2, <4>1 DEF Leading
    <3> QED
      BY <1>1, <3>1, <3>2
  <2> QED
    BY <1>2, <2>2 DEF AnnouncedSince
<1>4. Leading'
  <2> SUFFICES ASSUME NEW s \in Streams, NEW i \in DOMAIN wire', Live(s)', voice'[s].sent > 0,
                      wire'[i].say = "begin", wire'[i].of # voice'[s].of
               PROVE  AnnouncedSince(wire', i, Len(wire') + 1, voice'[s].of)
    BY DEF Leading
  <2>1. CASE m.say = "begin"
    <3>1. voice'[s].of = m.of /\ i < Len(wire) + 1
      BY <1>1, <2>1
    <3>2. IsBegin(wire'[Len(wire) + 1], voice'[s].of) /\ Len(wire) + 1 < Len(wire') + 1
      BY <1>1, <2>1, <3>1 DEF IsBegin
    <3> QED
      BY <1>1, <3>1, <3>2 DEF AnnouncedSince
  <2>2. CASE m.say # "begin"
    <3>1. i \in DOMAIN wire /\ wire'[i] = wire[i]
      BY <1>1, <2>2
    <3>2. AnnouncedSince(wire, i, Len(wire) + 1, voice'[s].of)
      BY <2>2, <3>1 DEF Leading, Calm
    <3>3. \E k \in DOMAIN wire' : i < k /\ k < Len(wire) + 1 /\ IsBegin(wire'[k], voice'[s].of)
      BY <1>2, <3>2
    <3> QED
      BY <1>1, <3>3 DEF AnnouncedSince
  <2> QED
    BY <2>1, <2>2
<1> QED
  BY <1>3, <1>4

\* abort() leaves no voice, start() one that is yet to be announced.
LEMMA StillCalm ==
  \/ UNCHANGED voice
  \/ \A s \in Streams : ~Live(s)'
  \/ \A s \in Streams : Live(s)' => voice'[s].sent = 0
  => Calm
BY DEF Calm, Live

LEMMA VoiceOrdered ==
  ASSUME TypeOK, Speakers, Ordered, Leading, NEW s \in Streams, VoiceStep(s)
  PROVE  Ordered' /\ Leading'
<1>1. /\ voice[s] \in [at : {"none", "live"}, of : Given, sent : 0..2] /\ Live(s)
      /\ \A t \in Streams : Live(t) => t = s
  BY DEF TypeOK, Speakers, VoiceStep, Announce, Frame, Terminate
<1>2. ASSUME IsOver(s) PROVE Calm
  BY <1>2 DEF IsOver, Calm, Live, NoVoice, TypeOK
<1>3. ASSUME NEW n \in 1..2, Moves(s, n)
      PROVE  \A t \in Streams : Live(t)' => t = s /\ voice'[t].of = voice[s].of
  BY <1>1, <1>3 DEF Moves, Live, TypeOK
<1>4. ASSUME Fails PROVE Ordered' /\ Leading'
  BY <1>2, <1>4, ShrinkOrdered DEF Fails, VoiceStep, Announce, Frame, Terminate, Writes, Room
<1>5. CASE Announce(s) /\ socket = "open"
  <2>1. PICK m \in Messages : m = [say |-> "begin", of |-> voice[s].of, frames |-> 0]
    <3>1. [say |-> "begin", of |-> voice[s].of, frames |-> 0] \in Messages
      BY <1>1 DEF Messages, Says
    <3> QED
      BY <3>1
  <2>2. Writes(m) /\ Moves(s, 1)
    BY <1>5, <2>1 DEF Announce, Fails
  <2> QED
    BY <1>3, <2>1, <2>2, GrowOrdered DEF Continues, Closes
<1>6. CASE Frame(s) /\ socket = "open"
  <2>1. PICK m \in Messages : m = [say |-> "frame", of |-> voice[s].of, frames |-> 0]
    <3>1. [say |-> "frame", of |-> voice[s].of, frames |-> 0] \in Messages
      BY <1>1 DEF Messages, Says
    <3> QED
      BY <3>1
  <2>2. Writes(m) /\ Moves(s, 2) /\ voice[s].sent = 1
    BY <1>6, <2>1 DEF Frame, Fails
  <2>3. Calm
    BY <1>1, <1>3, <2>2 DEF Calm
  <2> QED
    BY <1>1, <2>1, <2>2, <2>3, GrowOrdered DEF Continues, Closes
<1>7. CASE Terminate(s) /\ socket = "open"
  <2>1. PICK m \in Messages : m = [say |-> "end", of |-> voice[s].of, frames |-> FramesOf(s)]
    <3>1. [say |-> "end", of |-> voice[s].of, frames |-> FramesOf(s)] \in Messages
      BY <1>1 DEF Messages, Says, FramesOf
    <3> QED
      BY <3>1
  <2>2. Writes(m) /\ IsOver(s)
    BY <1>7, <2>1 DEF Terminate, Fails
  <2>3. Continues(m) => voice[s].sent > 0
    BY <1>1, <2>1 DEF Continues, Closes, FramesOf
  <2> QED
    BY <1>1, <1>2, <2>1, <2>2, <2>3, GrowOrdered
<1>8. socket = "open" \/ Fails
  BY DEF VoiceStep, Announce, Frame, Terminate, Writes, Room
<1> QED
  BY <1>4, <1>5, <1>6, <1>7, <1>8 DEF VoiceStep

\* What the loop and the filler write neither begins a stream nor goes on with one.
LEMMA TellsOrdered ==
  ASSUME TypeOK, Ordered, Leading, Calm,
         \/ wire' \in {wire, <<>>}
         \/ \E m \in Messages : /\ m.say \in {"aborted", "barge-in", "reply"} /\ Writes(m)
  PROVE  Ordered' /\ Leading'
<1>1. CASE wire' \in {wire, <<>>}
  BY <1>1, ShrinkOrdered
<1>2. ASSUME NEW m \in Messages, m.say \in {"aborted", "barge-in", "reply"}, Writes(m)
      PROVE  Ordered' /\ Leading'
  BY <1>2, GrowOrdered DEF Continues, Closes
<1> QED
  BY <1>1, <1>2

\* The messages the loop writes.
LEMMA LoopWrites ==
  ASSUME TypeOK, LoopStep \/ ReceiveStep
  PROVE  \/ wire' \in {wire, <<>>}
         \/ \E m \in Messages :
              /\ Writes(m) /\ UNCHANGED <<voiced, voice, sender, replies, reports, browser>>
              /\ \/ m.say \in {"aborted", "barge-in"}
                 \/ m.say = "reply" /\ m.of = floor /\ Tell /\ loop.next = "answer"
<1>1. CASE TerminateOld \/ TellBargeIn
  <2>1. /\ EndAborted \in Messages /\ EndAborted.say = "aborted"
        /\ [say |-> "barge-in", of |-> 0, frames |-> 0] \in Messages
    BY GivenFacts DEF EndAborted, Messages, Says
  <2> QED
    BY <1>1, <2>1 DEF TerminateOld, TellBargeIn, TriesToSend, Fails
<1>2. CASE Tell
  <2>1. PICK m \in Messages : m = [say |-> "reply", of |-> floor, frames |-> 0]
    <3>1. [say |-> "reply", of |-> floor, frames |-> 0] \in Messages
      BY DEF Messages, Says, TypeOK
    <3> QED
      BY <3>1
  <2>2. CASE wire' = wire
    BY <2>2
  <2>3. CASE wire' # wire
    <3>1. Writes(m) /\ loop.next = "answer"
      BY <1>2, <2>1, <2>3 DEF Tell, Fails
    <3> QED
      BY <1>2, <2>1, <3>1 DEF Tell
  <2> QED
    BY <2>2, <2>3
<1> QED
  BY <1>1, <1>2 DEF LoopStep, ReceiveStep, SettleTimesOut, FillerGone, Transcribed, Acknowledge,
     Thought, StartsReply, Silence, SpeakReply, Leave, Reported, Quiet, BargeIn, Utterance

LEMMA FillerWrites ==
  ASSUME TypeOK, FillerStep
  PROVE  \/ wire' = wire
         \/ Writes(EndAborted) /\ EndAborted \in Messages /\ EndAborted.say = "aborted" /\ UNCHANGED voice
<1>1. EndAborted \in Messages /\ EndAborted.say = "aborted"
  BY GivenFacts DEF EndAborted, Messages, Says
<1> QED
  BY <1>1 DEF FillerStep, FillerDue, FillerSilent, FillerTerminates, FillerSpeaks, FillerDrained,
     FillerEnds, TriesToSend, Fails

\* The voices the loop and the filler leave.
LEMMA LeftVoices ==
  ASSUME TypeOK, Speakers, LoopStep \/ ReceiveStep \/ FillerStep
  PROVE  \/ UNCHANGED voice
         \/ \A s \in Streams : ~Live(s)'
         \/ \E of \in Given : /\ \A s \in Streams : Live(s)' => voice'[s].of = of /\ voice'[s].sent = 0
                              /\ \/ FillerStep /\ of = Filler
                                 \/ SpeakReply /\ of = replies
<1>1. ASSUME NEW of \in Given, \A s \in Streams : ~Live(s), Starts(of)
      PROVE  \A s \in Streams : Live(s)' => voice'[s].of = of /\ voice'[s].sent = 0
  BY <1>1, StartsFacts
<1>2. CASE SpeakReply
  <2>1. (\A s \in Streams : ~Live(s)) /\ replies \in Given
    BY <1>2 DEF SpeakReply, Speakers, Hush, At, TypeOK
  <2> QED
    BY <1>1, <1>2, <2>1 DEF SpeakReply
<1>3. CASE FillerStep
  <2>1. CASE FillerSpeaks
    <3>1. (\A s \in Streams : ~Live(s)) /\ Filler \in Given
      BY <2>1, GivenFacts DEF FillerSpeaks, Speakers, Hush, Filler
    <3> QED
      BY <1>1, <1>3, <2>1, <3>1 DEF FillerSpeaks
  <2>2. CASE FillerDue
    BY <2>2, AbortsFacts DEF FillerDue
  <2> QED
    BY <1>3, <2>1, <2>2 DEF FillerStep, FillerSilent, FillerTerminates, FillerDrained, FillerEnds
<1>4. CASE LoopStep \/ ReceiveStep
  BY <1>2, <1>4, AbortsFacts DEF LoopStep, ReceiveStep, SettleTimesOut, FillerGone, Transcribed,
     Acknowledge, Thought, Tell, StartsReply, Silence, TerminateOld, TellBargeIn, Leave, Reported,
     Quiet, BargeIn, Utterance
<1> QED
  BY <1>3, <1>4

LEMMA OrderStep ==
  ASSUME TypeOK, Speakers, Ordered, Leading, [Next]_vars
  PROVE  Ordered' /\ Leading'
<1>1. CASE LoopStep \/ ReceiveStep \/ FillerStep
  <2>1. Calm
    BY <1>1, LeftVoices, StillCalm
  <2>2. \/ wire' \in {wire, <<>>}
        \/ \E m \in Messages : m.say \in {"aborted", "barge-in", "reply"} /\ Writes(m)
    BY <1>1, LoopWrites, FillerWrites
  <2> QED
    BY <2>1, <2>2, TellsOrdered
<1>2. CASE BrowserStep \/ Disconnect \/ UNCHANGED vars
  <2>1. Calm
    BY <1>2, StillCalm DEF BrowserStep, BrowserReceives, PlaysOut, SpokenOut, Disconnect, vars, server
  <2>2. wire' = wire \/ wire' = <<>> \/ (wire # <<>> /\ wire' = Tail(wire))
    BY <1>2 DEF BrowserStep, BrowserReceives, PlaysOut, SpokenOut, Disconnect, vars
  <2> QED
    BY <2>1, <2>2, ShrinkOrdered
<1> QED
  BY <1>1, <1>2, VoiceOrdered DEF Next

-----------------------------------------------------------------------------
(* Where a reply is in its life *)

LEMMA MuteStep ==
  ASSUME TypeOK, Speakers, Mute, [Next]_vars
  PROVE  Mute'
<1> SUFFICES ASSUME voiced = "no" PROVE Mute'
  BY DEF Mute, Next, vars, server, Disconnect, VoiceStep, BrowserStep, BrowserReceives, PlaysOut,
     SpokenOut, FillerStep, LoopStep, ReceiveStep, SettleTimesOut, FillerGone, Transcribed,
     Acknowledge, Thought, Tell, StartsReply, Silence, TerminateOld, SpeakReply, TellBargeIn,
     Leave, Reported, Quiet, BargeIn, Utterance
<1>1. ~FillerStep /\ ~SpeakReply /\ \A s \in Streams : ~VoiceStep(s)
  BY DEF Mute, SpeakReply, VoiceStep, Announce, Frame, Terminate, FillerStep, FillerDue, FillerSilent,
     FillerTerminates, FillerSpeaks, FillerDrained, FillerEnds, Filling
<1>2. CASE LoopStep \/ ReceiveStep
  <2>1. ~Filling'
    <3>1. filler'.at = filler.at \/ filler' \in {filler, NoFiller}
      BY <1>2 DEF LoopStep, ReceiveStep, SettleTimesOut, FillerGone, Transcribed, Acknowledge, Thought,
         Tell, StartsReply, Silence, TerminateOld, SpeakReply, TellBargeIn, Leave, Reported, Quiet,
         BargeIn, Utterance, Begins, Settles, Quits, Cancelled, TypeOK
    <3> QED
      BY <3>1 DEF Mute, Filling, NoFiller
  <2>2. loop'.at # "speak" /\ loop'.next # "speak"
    <3> USE LoopShape DEF Shape, At, Mute
    <3>1. CASE LoopStep
      BY <1>1, <3>1 DEF LoopStep, SettleTimesOut, FillerGone, Transcribed, Acknowledge, Thought,
         Tell, StartsReply, Silence, TerminateOld, TellBargeIn, Leave, Settles, Quits, Receives, Goes
    <3>2. CASE ReceiveStep
      BY <3>2 DEF ReceiveStep, Reported, Quiet, BargeIn, Utterance, Leave, Quits, Goes
    <3> QED
      BY <1>2, <3>1, <3>2
  <2>3. \A s \in Streams : ~Live(s)'
    <3>1. UNCHANGED voice \/ \A s \in Streams : ~Live(s)'
      BY <1>1, <1>2, LeftVoices
    <3> QED
      BY <3>1 DEF Mute, Live
  <2>4. \A j \in DOMAIN wire' : wire'[j].say # "end"
    <3>1. CASE wire' \in {wire, <<>>}
      BY <3>1 DEF Mute
    <3>2. ASSUME NEW m \in Messages, Writes(m), m.say # "end" PROVE \A j \in DOMAIN wire' : wire'[j].say # "end"
      <4>1. \A j \in DOMAIN wire' : j \in DOMAIN wire \/ wire'[j] = m
        BY <3>2, WritesFacts
      <4> QED
        BY <3>2, <4>1, WritesFacts DEF Mute
    <3> QED
      BY <1>2, <3>1, <3>2, LoopWrites
  <2> QED
    BY <2>1, <2>2, <2>3, <2>4 DEF Mute, At
<1>3. CASE BrowserStep \/ Disconnect \/ UNCHANGED vars
  <2>1. UNCHANGED <<loop, filler, voice>>
    BY <1>3 DEF BrowserStep, BrowserReceives, PlaysOut, SpokenOut, Disconnect, vars, server
  <2>2. \A j \in DOMAIN wire' : wire'[j].say # "end"
    <3>1. CASE wire' \in {wire, <<>>}
      BY <3>1 DEF Mute
    <3>2. CASE wire # <<>> /\ wire' = Tail(wire)
      <4>1. \A i \in DOMAIN wire' : wire'[i] = wire[i + 1] /\ i + 1 \in DOMAIN wire
        BY <3>2, ReceivedFacts
      <4> QED
        BY <4>1 DEF Mute
    <3> QED
      BY <1>3, <3>1, <3>2 DEF BrowserStep, BrowserReceives, PlaysOut, SpokenOut, Disconnect, vars
  <2> QED
    BY <2>1, <2>2 DEF Mute, Filling, At, Live
<1> QED
  BY <1>1, <1>2, <1>3 DEF Next

LEMMA AnswerStep ==
  ASSUME TypeOK, AnswersFloor, [Next]_vars
  PROVE  AnswersFloor'
<1> USE LoopShape DEF Shape, At, AnswersFloor
<1>1. CASE LoopStep
  BY <1>1 DEF LoopStep, SettleTimesOut, FillerGone, Transcribed, Acknowledge, Thought, Tell,
     StartsReply, Silence, TerminateOld, SpeakReply, TellBargeIn, Leave, Settles, Quits, Receives, Goes,
     TakesFloor
<1>2. CASE ReceiveStep
  BY <1>2 DEF ReceiveStep, Reported, Quiet, BargeIn, Utterance, Leave, Quits, Goes
<1>3. CASE UNCHANGED <<loop, floor, replies>>
  BY <1>3
<1> QED
  BY <1>1, <1>2, <1>3 DEF Next, vars, server, Disconnect, VoiceStep, BrowserStep, BrowserReceives,
     PlaysOut, SpokenOut, FillerStep

\* A reply that was given, told and begun is not to be again.
LEMMA UnspokenShrinks ==
  ASSUME TypeOK, Speakers, [Next]_vars, NEW r \in Replies, Unspoken(r)'
  PROVE  Unspoken(r)
<1>1. r \in Nat /\ replies \in Nat /\ voiced' = voiced
  BY DEF Replies, TypeOK, Given, Next, vars, server, Disconnect, VoiceStep, BrowserStep,
     BrowserReceives, PlaysOut, SpokenOut, FillerStep, LoopStep, ReceiveStep, SettleTimesOut,
     FillerGone, Transcribed, Acknowledge, Thought, Tell, StartsReply, Silence, TerminateOld,
     SpeakReply, TellBargeIn, Leave, Reported, Quiet, BargeIn, Utterance
<1>2. CASE TakesFloor
  BY <1>1, <1>2 DEF TakesFloor, Unspoken
<1>3. ASSUME UNCHANGED replies, Awaits' => Awaits PROVE Unspoken(r)
  BY <1>3 DEF Unspoken
<1> USE LoopShape DEF Shape, At, Awaits
<1>4. CASE SettleTimesOut \/ FillerGone \/ Transcribed
  BY <1>1, <1>3, <1>4 DEF SettleTimesOut, FillerGone, Transcribed, Goes
<1>5. CASE Acknowledge
  BY <1>1, <1>2, <1>3, <1>5 DEF Acknowledge, Receives, Quits, Settles, Goes
<1>6. CASE Thought
  BY <1>1, <1>2, <1>3, <1>6 DEF Thought, Settles, Goes
<1>7. CASE Tell \/ StartsReply
  BY <1>1, <1>3, <1>7 DEF Tell, Settles, StartsReply, Silence, Receives, Goes
<1>8. CASE Silence("silence", "barge") \/ Silence("close", "gone") \/ TerminateOld \/ SpeakReply \/ TellBargeIn
  BY <1>1, <1>3, <1>8 DEF Silence, TerminateOld, SpeakReply, TellBargeIn, Receives, Goes
<1>9. CASE Leave \/ ReceiveStep
  BY <1>1, <1>3, <1>9 DEF ReceiveStep, Reported, Quiet, BargeIn, Utterance, Leave, Quits, Goes
<1>10. CASE UNCHANGED <<loop, replies>>
  BY <1>1, <1>3, <1>10
<1> QED
  BY <1>4, <1>5, <1>6, <1>7, <1>8, <1>9, <1>10
     DEF Next, vars, server, Disconnect, VoiceStep, BrowserStep, BrowserReceives,
         PlaysOut, SpokenOut, FillerStep, LoopStep

-----------------------------------------------------------------------------
(* Reports *)

LEMMA ReportsShrink ==
  ASSUME TypeOK, NEW r \in Replies,
         reports' = reports \/ reports' = <<>> \/ (reports # <<>> /\ reports' = Tail(reports)),
         browser'.owes = r => browser.owes = r, browser'.speaks = r => browser.speaks = r
  PROVE  (Owed(r)' => Owed(r)) /\ (OnceOwed(r) => OnceOwed(r)')
<1>1. CASE reports' = reports \/ reports' = <<>>
  BY <1>1 DEF Owed, OnceOwed
<1>2. CASE reports # <<>> /\ reports' = Tail(reports)
  <2>1. /\ DOMAIN reports \subseteq Nat
        /\ \A i \in DOMAIN reports' : i \in Nat /\ i + 1 \in DOMAIN reports /\ reports'[i] = reports[i + 1]
    <3>1. reports \in Seq(Replies)
      BY DEF TypeOK
    <3> HIDE DEF Replies
    <3> QED
      BY <1>2, <3>1
  <2>2. \A i, j \in DOMAIN reports' : i + 1 = j + 1 => i = j
    BY <2>1
  <2> QED
    BY <2>1, <2>2 DEF Owed, OnceOwed
<1> QED
  BY <1>1, <1>2

\* A playback that ends: what the browser owed or spoke is now a report.
LEMMA ReportsGrow ==
  ASSUME TypeOK, NEW r \in Replies, NEW q \in Replies, OnceOwed(r), reports' = Append(reports, q),
         \/ browser.owes = q /\ browser'.owes = 0 /\ browser'.speaks = browser.speaks
         \/ browser.speaks = q /\ browser'.speaks = 0 /\ browser'.owes = browser.owes
  PROVE  (Owed(r)' => Owed(r)) /\ OnceOwed(r)'
<1>1. /\ Len(reports) \in Nat /\ DOMAIN reports = 1..Len(reports)
      /\ DOMAIN reports' = 1..(Len(reports) + 1) /\ reports'[Len(reports) + 1] = q
      /\ \A i \in DOMAIN reports : reports'[i] = reports[i]
  <2>1. reports \in Seq(Replies)
    BY DEF TypeOK
  <2> HIDE DEF Replies
  <2> QED
    BY <2>1
<1>2. \A i \in DOMAIN reports' : i \in DOMAIN reports \/ i = Len(reports) + 1
  BY <1>1
<1>3. r # 0 /\ q # 0
  BY DEF Replies
<1>4. CASE r = q
  <2>1. /\ \A i \in DOMAIN reports : reports[i] # r
        /\ ~(browser.owes = r /\ browser.speaks = r)
    BY <1>4 DEF OnceOwed
  <2> QED
    BY <1>1, <1>2, <1>3, <1>4, <2>1 DEF Owed, OnceOwed
<1>5. CASE r # q
  <2>1. \A i \in DOMAIN reports' : reports'[i] = r => i \in DOMAIN reports /\ reports[i] = r
    BY <1>1, <1>2, <1>5
  <2> QED
    BY <1>3, <2>1 DEF Owed, OnceOwed
<1> QED
  BY <1>4, <1>5

-----------------------------------------------------------------------------
(* The life of a reply r *)

\* A step after which nothing more is known of r on the wire, nor by a voice.
LEMMA ReplyRests ==
  ASSUME TypeOK, NEW r \in Replies, ReplyRight(r), UNCHANGED voiced,
         Owed(r)' => Owed(r), OnceOwed(r)', Unspoken(r)' => Unspoken(r),
         browser'.audio = browser.audio \/ browser'.audio = "off",
         \A i \in DOMAIN wire' : \/ i \in DOMAIN wire /\ wire'[i] = wire[i]
                                 \/ ~Creates(wire'[i], r) /\ ~Ends(wire'[i], r),
         \A s \in Streams : Live(s)' /\ voice'[s].of = r =>
           Live(s) /\ voice[s].of = r /\ (voice'[s].sent = 0 <=> voice[s].sent = 0)
                   /\ (voice'[s].sent > 0 <=> voice[s].sent > 0)
  PROVE  ReplyRight(r)'
<1>1. \A m : Creates(m, r)' <=> Creates(m, r)
  BY DEF Creates
<1>2. \A i \in DOMAIN wire' :
        Creates(wire'[i], r) \/ (wire'[i].say = "end" /\ wire'[i].of = r)
          => i \in DOMAIN wire /\ wire'[i] = wire[i]
  BY DEF Ends
<1>3. Unheard(r) => Unheard(r)'
  BY <1>1, <1>2 DEF Unheard, Closes, Creates
<1>4. Voiceless(r) => Voiceless(r)'
  BY DEF Voiceless
<1>5. Midway(r)' => Midway(r)
  BY <1>2 DEF Midway, Closes
<1>6. Unspoken(r)' => Voiceless(r)' /\ Unheard(r)' /\ ~Owed(r)'
  BY <1>3, <1>4 DEF ReplyRight
<1>7. \A s \in Streams : Live(s)' /\ voice'[s].of = r =>
        /\ voice'[s].sent = 0 => Unheard(r)' /\ ~Owed(r)'
        /\ \A j \in DOMAIN wire' : ~(wire'[j].say = "end" /\ wire'[j].of = r)
  BY <1>2, <1>3 DEF ReplyRight
<1>8. /\ \A i, j \in DOMAIN wire' : Creates(wire'[i], r) /\ Creates(wire'[j], r) => i = j
      /\ \A i, j \in DOMAIN wire' :
           wire'[i].say = "end" /\ wire'[i].of = r /\ wire'[j].say = "end" /\ wire'[j].of = r => i = j
      /\ \A i, j \in DOMAIN wire' :
           Creates(wire'[i], r) /\ Closes(wire'[j]) /\ wire'[j].of = r => i < j
      /\ \A i \in DOMAIN wire' : Creates(wire'[i], r) => ~Owed(r)'
  BY <1>2 DEF ReplyRight, Closes
<1>9. Midway(r)' => browser'.audio = "off" \/ ~Owed(r)'
  BY <1>5 DEF ReplyRight
<1> QED
  BY <1>1, <1>6, <1>7, <1>8, <1>9 DEF ReplyRight, Creates, Closes

\* The voice of r begins: nothing was heard or owed of it before.
LEMMA ReplySpoken ==
  ASSUME TypeOK, NEW r \in Replies, ReplyRight(r), Unspoken(r), ~Unspoken(r)',
         UNCHANGED <<voiced, wire, reports, browser>>,
         \A s \in Streams : Live(s)' /\ voice'[s].of = r => voice'[s].sent = 0
  PROVE  ReplyRight(r)'
<1>1. Unheard(r)' /\ ~Owed(r)' /\ ~Midway(r)'
  BY DEF ReplyRight, Unheard, Owed, Midway, Creates, Closes
<1>2. OnceOwed(r)'
  BY DEF ReplyRight, OnceOwed
<1>3. \A j \in DOMAIN wire' : ~(wire'[j].say = "end" /\ wire'[j].of = r)
  <2> SUFFICES ASSUME NEW j \in DOMAIN wire, wire[j].say = "end", wire[j].of = r PROVE FALSE
    OBVIOUS
  <2>1. wire[j] \in Messages
    <3>1. wire \in Seq(Messages)
      BY DEF TypeOK, Messages
    <3> HIDE DEF Messages
    <3> QED
      BY <3>1
  <2>2. wire[j].frames = 0 \/ wire[j].frames > 0
    BY <2>1 DEF Messages
  <2> QED
    BY <2>2 DEF ReplyRight, Unheard, Creates, Closes
<1> QED
  BY <1>1, <1>2, <1>3 DEF ReplyRight, Unheard, Creates, Closes

\* r is told as text, for the browser to speak.
LEMMA ReplyTold ==
  ASSUME TypeOK, Mute, NEW r \in Replies, ReplyRight(r), Unspoken(r), ~Unspoken(r)', voiced = "no",
         UNCHANGED <<voiced, voice, reports, browser>>,
         NEW m \in Messages, m.say = "reply", m.of = r, Writes(m)
  PROVE  ReplyRight(r)'
<1>1. /\ \A i \in DOMAIN wire' : (i \in DOMAIN wire /\ wire'[i] = wire[i]) \/ (i = Len(wire) + 1 /\ wire'[i] = m)
      /\ Len(wire) + 1 \notin DOMAIN wire /\ Len(wire) \in Nat
  BY WritesFacts
<1>2. (\A j \in DOMAIN wire' : wire'[j].say # "end") /\ \A s \in Streams : ~Live(s)'
  BY <1>1 DEF Mute, Live
<1>3. Unheard(r) /\ ~Owed(r) /\ ~Owed(r)' /\ OnceOwed(r)'
  BY DEF ReplyRight, Owed, OnceOwed
<1>4. \A i \in DOMAIN wire' : Creates(wire'[i], r) => i = Len(wire) + 1
  BY <1>1, <1>3 DEF Unheard, Creates
<1> QED
  BY <1>2, <1>3, <1>4 DEF ReplyRight, Voiceless, Midway, Closes, Creates

\* The stream of r is announced.
LEMMA ReplyAnnounced ==
  ASSUME TypeOK, NEW r \in Replies, ReplyRight(r), Unspoken(r)' => Unspoken(r),
         UNCHANGED <<voiced, reports, browser>>,
         NEW s \in Streams, Live(s), voice[s].of = r, voice[s].sent = 0, \A t \in Streams : Live(t)' => t = s,
         voice'[s].of = r, voice'[s].sent = 1,
         NEW m \in Messages, m.say = "begin", m.of = r, Writes(m)
  PROVE  ReplyRight(r)'
<1>1. /\ \A i \in DOMAIN wire' : (i \in DOMAIN wire /\ wire'[i] = wire[i]) \/ (i = Len(wire) + 1 /\ wire'[i] = m)
      /\ Len(wire) + 1 \notin DOMAIN wire /\ Len(wire) \in Nat
  BY WritesFacts
<1>2. /\ Unheard(r) /\ ~Owed(r) /\ ~Owed(r)' /\ OnceOwed(r)' /\ ~Unspoken(r)
      /\ \A j \in DOMAIN wire : ~(wire[j].say = "end" /\ wire[j].of = r)
  BY DEF ReplyRight, Owed, OnceOwed, Voiceless
<1>3. \A i \in DOMAIN wire' : Creates(wire'[i], r) => i = Len(wire) + 1
  BY <1>1, <1>2 DEF Unheard, Creates
<1>4. \A j \in DOMAIN wire' : ~(wire'[j].say = "end" /\ wire'[j].of = r)
  BY <1>1, <1>2
<1>5. \A t \in Streams : Live(t)' /\ voice'[t].of = r => voice'[t].sent # 0
  OBVIOUS
<1> QED
  BY <1>2, <1>3, <1>4, <1>5 DEF ReplyRight, Closes, Creates

\* The stream of r ends, announced or not.
LEMMA ReplyEnds ==
  ASSUME TypeOK, NEW r \in Replies, ReplyRight(r), Unspoken(r)' => Unspoken(r),
         UNCHANGED <<voiced, reports, browser>>,
         NEW s \in Streams, Live(s), voice[s].of = r, \A t \in Streams : ~Live(t)',
         NEW m \in Messages, m.say = "end", m.of = r, Writes(m),
         m.frames = 0 => voice[s].sent = 0, m.frames # 0 => voice[s].sent > 0
  PROVE  ReplyRight(r)'
<1>1. /\ \A i \in DOMAIN wire' : (i \in DOMAIN wire /\ wire'[i] = wire[i]) \/ (i = Len(wire) + 1 /\ wire'[i] = m)
      /\ Len(wire) + 1 \notin DOMAIN wire /\ Len(wire) \in Nat
      /\ \A i \in DOMAIN wire : i \in Nat /\ i < Len(wire) + 1
  BY WritesFacts
<1>2. /\ ~Unspoken(r) /\ OnceOwed(r)' /\ (Owed(r)' <=> Owed(r))
      /\ \A j \in DOMAIN wire : ~(wire[j].say = "end" /\ wire[j].of = r)
  BY DEF ReplyRight, Owed, OnceOwed, Voiceless
<1>3. \A i \in DOMAIN wire' : wire'[i].say = "end" /\ wire'[i].of = r => i = Len(wire) + 1
  BY <1>1, <1>2
<1>4. m.frames \in 0..1
  BY DEF Messages
<1>5. CASE m.frames = 0
  <2>1. Unheard(r) /\ ~Owed(r)
    BY <1>5 DEF ReplyRight
  <2>2. \A i \in DOMAIN wire' : Creates(wire'[i], r) => i = Len(wire) + 1
    BY <1>1, <2>1 DEF Unheard, Creates
  <2>3. \A i \in DOMAIN wire' : ~(Closes(wire'[i]) /\ wire'[i].of = r)
    BY <1>1, <1>3, <1>5 DEF Closes
  <2> QED
    BY <1>2, <1>3, <2>1, <2>2, <2>3 DEF ReplyRight, Midway, Closes, Creates
<1>6. CASE m.frames # 0
  <2>1. Midway(r) /\ ~Creates(m, r)
    BY <1>6 DEF Midway, Creates
  <2>2. browser'.audio = "off" \/ ~Owed(r)'
    BY <1>2, <2>1 DEF ReplyRight
  <2>3. \A i \in DOMAIN wire' : Creates(wire'[i], r) => i \in DOMAIN wire /\ Creates(wire[i], r)
    BY <1>1, <2>1 DEF Creates
  <2>4. \A i, j \in DOMAIN wire' : Creates(wire'[i], r) /\ Creates(wire'[j], r) => i = j
    BY <2>3 DEF ReplyRight
  <2>5. \A i, j \in DOMAIN wire' : Creates(wire'[i], r) /\ Closes(wire'[j]) /\ wire'[j].of = r => i < j
    BY <1>1, <1>3, <2>3 DEF Closes
  <2>6. \A i \in DOMAIN wire' : Creates(wire'[i], r) => ~Owed(r)'
    BY <1>2, <2>3 DEF ReplyRight
  <2> QED
    BY <1>2, <1>3, <2>2, <2>4, <2>5, <2>6 DEF ReplyRight, Closes, Creates
<1> QED
  BY <1>5, <1>6

\* What the browser comes to owe, to speak and to play.
LEMMA BrowserFacts ==
  ASSUME TypeOK, NEW r \in Replies, NEW m \in Messages, Receive(m)
  PROVE  /\ browser'.speaks = r => browser.speaks = r \/ Creates(m, r)
         /\ browser'.owes = r => browser.owes = r \/ (Closes(m) /\ m.of = r /\ browser.audio = "on")
         /\ browser'.audio = "on" => browser.audio = "on" \/ m.say = "begin"
         /\ m.say = "begin" /\ m.of = r => browser'.audio = "off" \/ browser'.speaks = browser.speaks
         /\ m.say = "end" /\ m.frames = 0 => browser'.audio = "off"
         /\ Closes(m) => browser'.speaks = browser.speaks
<1>1. browser \in Players /\ r # 0 /\ Filler = 0
  BY DEF TypeOK, Players, Replies, Filler
<1>2. PICK stopped : stopped = Stopped
  OBVIOUS
<1>3. /\ stopped.audio = "off" /\ stopped.owes = 0 /\ stopped.speaks = browser.speaks
      /\ [stopped EXCEPT !.audio = "on"].owes = 0
      /\ [stopped EXCEPT !.audio = "on"].speaks = browser.speaks
      /\ \A q : /\ [stopped EXCEPT !.speaks = q].audio = "off"
                /\ [stopped EXCEPT !.speaks = q].owes = 0 /\ [stopped EXCEPT !.speaks = q].speaks = q
  BY <1>1, <1>2 DEF Stopped, Players
<1>4. CASE m.say = "begin"
  <2>1. Begin(m) /\ ~Closes(m)
    BY <1>4, ReceiveCases DEF Closes
  <2>2. m.of = r => Creates(m, r)
    BY <1>4 DEF Creates
  <2>3. CASE browser' = [browser EXCEPT !.audio = "on", !.ended = "no", !.owes = 0]
    BY <1>1, <1>4, <2>1, <2>3 DEF Players
  <2>4. CASE browser' = [stopped EXCEPT !.audio = "on"]
    BY <1>1, <1>3, <1>4, <2>1, <2>4
  <2>5. CASE browser' = IF m.of = Filler THEN stopped ELSE [stopped EXCEPT !.speaks = m.of]
    <3>1. browser'.audio = "off" /\ browser'.owes = 0 /\ browser'.speaks \in {browser.speaks, m.of}
      BY <1>3, <2>5
    <3> QED
      BY <1>1, <1>4, <2>1, <2>2, <3>1
  <2> QED
    BY <1>2, <2>1, <2>3, <2>4, <2>5 DEF Begin, Speaks
<1>5. CASE Closes(m)
  <2>1. EndPlayed(m)
    BY <1>5, ReceiveCases
  <2>2. m.frames # 0
    BY <1>5 DEF Closes, Messages
  <2>3. /\ browser'.speaks = browser.speaks /\ browser'.audio = browser.audio
        /\ browser'.owes \in {browser.owes, 0} \/ (browser'.owes = m.of /\ browser.audio = "on")
    BY <1>1, <2>1 DEF EndPlayed, Players
  <2>4. m.say # "begin"
    BY <1>5 DEF Closes
  <2> QED
    BY <1>1, <1>5, <2>2, <2>3, <2>4
<1>6. CASE m.say = "end" /\ m.frames = 0
  <2>1. m.of = r => Creates(m, r)
    BY <1>6 DEF Creates
  <2>2. browser' = IF m.of = Filler THEN stopped ELSE [stopped EXCEPT !.speaks = m.of]
    BY <1>2, <1>6, ReceiveCases DEF Speaks
  <2>3. ~Closes(m)
    BY <1>6 DEF Closes
  <2>4. browser'.audio = "off" /\ browser'.owes = 0 /\ browser'.speaks \in {browser.speaks, m.of}
    BY <1>3, <2>2
  <2> QED
    BY <1>1, <1>6, <2>1, <2>3, <2>4
<1>7. CASE m.say = "frame"
  <2>1. browser' = browser \/ browser' = [browser EXCEPT !.playing = "yes"]
    BY <1>7, ReceiveCases
  <2>2. /\ browser'.speaks = browser.speaks /\ browser'.owes = browser.owes
        /\ browser'.audio = browser.audio
    BY <1>1, <2>1 DEF Players
  <2> QED
    BY <1>7, <2>2 DEF Closes
<1>8. CASE m.say \in {"aborted", "barge-in"}
  <2>1. browser' = stopped \/ browser' = [stopped EXCEPT !.speaks = 0]
    BY <1>2, <1>8, ReceiveCases
  <2>2. /\ browser'.audio = "off" /\ browser'.owes = 0
        /\ browser'.speaks = browser.speaks \/ browser'.speaks = 0
    BY <1>3, <2>1
  <2> QED
    BY <1>1, <1>8, <2>2 DEF Closes
<1>9. CASE m.say = "reply"
  <2>1. browser' = browser \/ (voiced # "yes" /\ browser' = [browser EXCEPT !.speaks = m.of])
    BY <1>9, ReceiveCases DEF Speaks
  <2>2. m.of = r /\ voiced # "yes" => Creates(m, r)
    BY <1>9 DEF Creates, TypeOK
  <2>3. /\ browser'.owes = browser.owes /\ browser'.audio = browser.audio
        /\ browser'.speaks = browser.speaks \/ (voiced # "yes" /\ browser'.speaks = m.of)
    BY <1>1, <2>1 DEF Players
  <2> QED
    BY <1>9, <2>2, <2>3 DEF Closes
<1>10. m.say = "end" => Closes(m) \/ m.frames = 0
  BY DEF Messages, Closes
<1> QED
  BY <1>4, <1>5, <1>6, <1>7, <1>8, <1>9, <1>10 DEF Messages, Says

\* The browser reads a message: r's own announcement or end, or another's.
LEMMA ReplyReceives ==
  ASSUME TypeOK, Mute, Ordered, Leading, NEW r \in Replies, ReplyRight(r), BrowserReceives,
         Unspoken(r)' => Unspoken(r)
  PROVE  ReplyRight(r)'
<1>1. PICK m \in Messages : m = wire[1] /\ Receive(m)
  BY ReceivedFacts DEF BrowserReceives
<1>2. /\ 1 \in DOMAIN wire /\ Len(wire) \in Nat /\ DOMAIN wire = 1..Len(wire)
      /\ \A i \in DOMAIN wire' : i \in Nat /\ i + 1 \in DOMAIN wire /\ wire'[i] = wire[i + 1] /\ i + 1 > 1
  <2>1. /\ Len(wire) \in Nat /\ DOMAIN wire = 1..Len(wire) /\ Len(wire) >= 1
        /\ DOMAIN wire' = 1..(Len(wire) - 1) /\ \A i \in 1..(Len(wire) - 1) : wire'[i] = wire[i + 1]
    BY ReceivedFacts DEF BrowserReceives
  <2> QED
    BY <2>1
<1>3. /\ UNCHANGED <<voiced, voice, reports>> /\ \A s \in Streams : Live(s)' <=> Live(s)
      /\ \A x : Creates(x, r)' <=> Creates(x, r)
  BY DEF BrowserReceives, server, Live, Creates
<1>4. \A i, j \in DOMAIN wire' : (i + 1 = j + 1 => i = j) /\ (i + 1 < j + 1 => i < j)
  BY <1>2
<1>5. /\ \A i, j \in DOMAIN wire' : Creates(wire'[i], r) /\ Creates(wire'[j], r) => i = j
      /\ \A i, j \in DOMAIN wire' :
           wire'[i].say = "end" /\ wire'[i].of = r /\ wire'[j].say = "end" /\ wire'[j].of = r => i = j
      /\ \A i, j \in DOMAIN wire' :
           Creates(wire'[i], r) /\ Closes(wire'[j]) /\ wire'[j].of = r => i < j
      /\ \A s \in Streams : Live(s)' /\ voice'[s].of = r =>
           \A j \in DOMAIN wire' : ~(wire'[j].say = "end" /\ wire'[j].of = r)
  BY <1>2, <1>3, <1>4 DEF ReplyRight
<1>6. Midway(r)' => Midway(r)
  BY <1>2, <1>3 DEF Midway, Closes
<1>7. Unheard(r) => Unheard(r)' /\ ~Creates(m, r) /\ ~(Closes(m) /\ m.of = r)
  BY <1>1, <1>2, <1>3 DEF Unheard, Closes, Creates
<1>8. \A s \in Streams : Live(s)' /\ voice'[s].of = r /\ voice'[s].sent = 0 => Unheard(r) /\ ~Owed(r)
  BY <1>3 DEF ReplyRight
<1>9. Unspoken(r)' => Voiceless(r)' /\ Unheard(r) /\ ~Owed(r)
  BY <1>3 DEF ReplyRight, Voiceless
<1>10. ASSUME \A i \in DOMAIN wire' : Creates(wire'[i], r) => ~Owed(r)',
              Unheard(r) /\ ~Owed(r) => ~Owed(r)',
              OnceOwed(r)', Midway(r)' => browser'.audio = "off" \/ ~Owed(r)'
       PROVE  ReplyRight(r)'
  BY <1>3, <1>5, <1>7, <1>8, <1>9, <1>10 DEF ReplyRight, Creates, Closes
<1>11. CASE Creates(m, r)
  <2>1. ~Owed(r) /\ ~Unheard(r)
    BY <1>1, <1>2, <1>7, <1>11 DEF ReplyRight
  <2>2. ~Closes(m)
    BY <1>11 DEF Creates, Closes
  <2>3. browser'.owes # r
    BY <1>1, <2>1, <2>2, BrowserFacts DEF Owed
  <2>4. OnceOwed(r)'
    BY <1>3, <2>1, <2>3 DEF OnceOwed, Owed
  <2>5. \A i \in DOMAIN wire' : ~Creates(wire'[i], r)
    BY <1>1, <1>2, <1>11 DEF ReplyRight
  <2>6. Midway(r)' => browser'.audio = "off" \/ ~Owed(r)'
    <3>1. CASE m.say = "reply" /\ voiced = "no"
      BY <1>3, <1>2, <3>1 DEF Mute, Midway, Closes
    <3>2. CASE m.say = "end" /\ m.frames = 0
      BY <1>1, <3>2, BrowserFacts
    <3>3. CASE m.say = "begin" /\ m.of = r
      <4>1. browser'.audio = "off" \/ browser'.speaks = browser.speaks
        BY <1>1, <3>3, BrowserFacts
      <4> QED
        BY <1>3, <2>1, <2>3, <4>1 DEF Owed
    <3> QED
      BY <1>11, <3>1, <3>2, <3>3 DEF Creates
  <2> QED
    BY <1>10, <2>1, <2>4, <2>5, <2>6
<1>12. CASE Closes(m) /\ m.of = r
  <2>1. ~Unheard(r) /\ Midway(r) /\ m.say = "end" /\ ~Creates(m, r)
    BY <1>1, <1>2, <1>12 DEF Unheard, Midway, Closes, Creates, Messages
  <2>2. \A i \in DOMAIN wire' : ~Creates(wire'[i], r)
    BY <1>1, <1>2, <1>12 DEF ReplyRight
  <2>3. ~Midway(r)'
    BY <1>1, <1>2, <1>3, <1>12, <2>1 DEF ReplyRight, Midway, Closes
  <2>4. browser'.speaks = browser.speaks /\ (browser'.owes = r => browser.owes = r \/ browser.audio = "on")
    BY <1>1, <1>12, BrowserFacts
  <2>5. OnceOwed(r)'
    <3>1. CASE browser.audio = "off"
      BY <1>3, <2>4, <3>1 DEF ReplyRight, OnceOwed
    <3>2. CASE ~Owed(r)
      BY <1>3, <2>4, <3>2 DEF Owed, OnceOwed
    <3> QED
      BY <2>1, <3>1, <3>2 DEF ReplyRight
  <2> QED
    BY <1>10, <2>1, <2>2, <2>3, <2>5
<1>13. CASE ~Creates(m, r) /\ ~(Closes(m) /\ m.of = r)
  <2>1. (browser'.owes = r => browser.owes = r) /\ (browser'.speaks = r => browser.speaks = r)
    BY <1>1, <1>13, BrowserFacts
  <2>2. (Owed(r)' => Owed(r)) /\ OnceOwed(r)'
    BY <1>3, <2>1, ReportsShrink DEF ReplyRight
  <2>3. \A i \in DOMAIN wire' : Creates(wire'[i], r) => ~Owed(r)'
    BY <1>2, <2>2 DEF ReplyRight
  <2>4. ASSUME Midway(r)', Owed(r), m.say = "begin" PROVE FALSE
    <3>1. m.of # r
      BY <1>13, <2>4 DEF Creates
    <3>2. AnnouncedSince(wire, 1, Len(wire) + 1, r)
      <4>1. CASE \E s \in Streams : Live(s)' /\ voice'[s].of = r /\ voice'[s].sent > 0
        BY <1>1, <1>2, <1>3, <2>4, <3>1, <4>1 DEF Leading
      <4>2. CASE \E j \in DOMAIN wire' : Closes(wire'[j]) /\ wire'[j].of = r
        <5>1. PICK j \in DOMAIN wire : 1 < j /\ Closes(wire[j]) /\ wire[j].of = r
          BY <1>2, <4>2 DEF Closes
        <5>2. AnnouncedSince(wire, 1, j, r)
          BY <1>1, <1>2, <2>4, <3>1, <5>1 DEF Ordered, Continues
        <5> QED
          BY <1>2, <5>2 DEF AnnouncedSince
      <4> QED
        BY <2>4, <4>1, <4>2 DEF Midway, Closes
    <3>3. PICK k \in DOMAIN wire : IsBegin(wire[k], r)
      BY <3>2 DEF AnnouncedSince
    <3> QED
      BY <2>4, <3>3 DEF ReplyRight, IsBegin, Creates
  <2>5. Midway(r)' => browser'.audio = "off" \/ ~Owed(r)'
    <3>1. browser'.audio = "on" => browser.audio = "on" \/ m.say = "begin"
      BY <1>1, BrowserFacts
    <3>2. browser'.audio \in {"on", "off"}
      BY ReceiveTyped DEF TypeOK
    <3> QED
      BY <1>6, <2>2, <2>4, <3>1, <3>2 DEF ReplyRight
  <2> QED
    BY <1>10, <2>2, <2>3, <2>5
<1> QED
  BY <1>11, <1>12, <1>13

\* The browser's playback ends.
LEMMA ReplyHeard ==
  ASSUME TypeOK, NEW r \in Replies, ReplyRight(r), PlaysOut \/ SpokenOut, Unspoken(r)' => Unspoken(r)
  PROVE  ReplyRight(r)'
<1>1. /\ UNCHANGED <<voiced, voice, wire>> /\ r # 0 /\ OnceOwed(r)
      /\ browser'.audio \in {browser.audio, "off"}
      /\ \A s \in Streams : Live(s)' <=> Live(s)
  <2>1. UNCHANGED <<voiced, voice, wire>>
    BY DEF PlaysOut, SpokenOut, server
  <2>2. browser'.audio \in {browser.audio, "off"}
    BY DEF PlaysOut, SpokenOut, TypeOK
  <2> QED
    BY <2>1, <2>2 DEF Live, ReplyRight, Replies
<1>2. (Owed(r)' => Owed(r)) /\ OnceOwed(r)'
  <2>1. \/ PlaysOut /\ browser'.owes = 0 /\ browser'.speaks = browser.speaks
        \/ SpokenOut /\ browser'.speaks = 0 /\ browser'.owes = browser.owes
    BY DEF PlaysOut, SpokenOut, TypeOK
  <2>2. CASE UNCHANGED reports
    BY <1>1, <2>1, <2>2, ReportsShrink
  <2>3. CASE PlaysOut /\ browser.owes # 0 /\ reports' = Append(reports, browser.owes)
    <3>1. browser.owes \in Replies
      BY <2>3, GivenFacts DEF TypeOK
    <3>2. browser'.owes = 0 /\ browser'.speaks = browser.speaks
      BY <2>3 DEF PlaysOut, TypeOK
    <3> QED
      BY <1>1, <2>3, <3>1, <3>2, ReportsGrow
  <2>4. CASE SpokenOut /\ reports' = Append(reports, browser.speaks)
    <3>1. browser.speaks \in Replies
      BY <2>4, GivenFacts DEF TypeOK, SpokenOut
    <3>2. browser'.speaks = 0 /\ browser'.owes = browser.owes
      BY <2>4 DEF SpokenOut, TypeOK
    <3> QED
      BY <1>1, <2>4, <3>1, <3>2, ReportsGrow
  <2> QED
    BY <2>2, <2>3, <2>4 DEF PlaysOut, SpokenOut, Reports
<1> QED
  BY <1>1, <1>2, ReplyRests

\* The loop and the filler: they tell and give a voice to the reply that awaits
\* it, and silence any other.
LEMMA ReplyServed ==
  ASSUME TypeOK, Speakers, Mute, AnswersFloor, NEW r \in Replies, ReplyRight(r),
         LoopStep \/ ReceiveStep \/ FillerStep, Unspoken(r)' => Unspoken(r)
  PROVE  ReplyRight(r)'
<1>1. UNCHANGED <<voiced, browser>> /\ r # 0
  BY DEF Replies, FillerStep, LoopStep, ReceiveStep, SettleTimesOut, FillerGone, Transcribed,
     Acknowledge, Thought, Tell, StartsReply, Silence, TerminateOld, SpeakReply, TellBargeIn, Leave,
     Reported, Quiet, BargeIn, Utterance
<1>2. (Owed(r)' => Owed(r)) /\ OnceOwed(r)'
  <2>1. reports' = reports \/ reports' = <<>> \/ (reports # <<>> /\ reports' = Tail(reports))
    BY DEF FillerStep, LoopStep, ReceiveStep, SettleTimesOut, FillerGone, Transcribed, Acknowledge,
       Thought, Tell, StartsReply, Silence, TerminateOld, SpeakReply, TellBargeIn, Leave, Reported,
       Quiet, BargeIn, Utterance
  <2> QED
    BY <1>1, <2>1, ReportsShrink DEF ReplyRight
<1>3. CASE SpeakReply /\ r = replies
  <2>1. /\ Unspoken(r) /\ ~Unspoken(r)' /\ UNCHANGED <<wire, reports>>
    <3>1. At("speak") /\ voiced = "yes"
      BY <1>3 DEF SpeakReply, Mute, TypeOK
    <3>2. loop'.at = "receiving" /\ loop'.next = "none" /\ UNCHANGED <<replies, wire, reports>>
      BY <1>3 DEF SpeakReply, Receives, Goes
    <3> QED
      BY <1>3, <3>1, <3>2 DEF Unspoken, Awaits, At, TypeOK, Given
  <2>2. \A s \in Streams : Live(s)' => voice'[s].sent = 0
    <3>1. (\A s \in Streams : ~Live(s)) /\ replies \in Given /\ Starts(replies)
      BY <1>3 DEF SpeakReply, Speakers, Hush, TypeOK, At
    <3> QED
      BY <3>1, StartsFacts
  <2> QED
    BY <1>1, <2>1, <2>2, ReplySpoken
<1>4. CASE ~(SpeakReply /\ r = replies)
  <2>1. \A s \in Streams : Live(s)' /\ voice'[s].of = r =>
           Live(s) /\ voice[s].of = r /\ voice'[s].sent = voice[s].sent
    <3>1. CASE UNCHANGED voice
      BY <3>1 DEF Live
    <3>2. CASE \A s \in Streams : ~Live(s)'
      BY <3>2
    <3>3. ASSUME NEW of \in Given, \A s \in Streams : Live(s)' => voice'[s].of = of,
                 (FillerStep /\ of = Filler) \/ (SpeakReply /\ of = replies)
          PROVE  \A s \in Streams : ~(Live(s)' /\ voice'[s].of = r)
      BY <1>1, <1>4, <3>3 DEF Filler
    <3> QED
      BY <3>1, <3>2, <3>3, LeftVoices
  <2>2. CASE \A i \in DOMAIN wire' : \/ i \in DOMAIN wire /\ wire'[i] = wire[i]
                                     \/ ~Creates(wire'[i], r) /\ ~Ends(wire'[i], r)
    BY <1>1, <1>2, <2>1, <2>2, ReplyRests
  <2>3. CASE wire' \in {wire, <<>>}
    BY <2>2, <2>3
  <2>4. ASSUME NEW m \in Messages, Writes(m), ~Ends(m, r), ~Creates(m, r) PROVE ReplyRight(r)'
    <3>1. \A i \in DOMAIN wire' : (i \in DOMAIN wire /\ wire'[i] = wire[i]) \/ wire'[i] = m
      BY <2>4, WritesFacts
    <3> QED
      BY <2>2, <2>4, <3>1
  <2>5. ASSUME NEW m \in Messages, Writes(m), m.say = "reply", m.of = floor, Tell, loop.next = "answer"
        PROVE  ReplyRight(r)'
    <3>1. floor = replies
      BY <2>5 DEF AnswersFloor, Tell
    <3>2. CASE voiced = "no" /\ r = replies
      <4>1. /\ UNCHANGED <<voice, reports, replies>> /\ At("telling")
            /\ loop'.at \in {"settling"} /\ loop'.next \in {"start", "receiving", "leave"}
        BY <2>5 DEF Tell, Settles, Goes
      <4>2. Unspoken(r) /\ ~Unspoken(r)'
        BY <1>1, <2>5, <3>2, <4>1 DEF Unspoken, Awaits, At, TypeOK, Given
      <4> QED
        BY <1>1, <2>5, <3>1, <3>2, <4>1, <4>2, ReplyTold
    <3>3. CASE voiced # "no" \/ r # replies
      BY <2>4, <2>5, <3>1, <3>3 DEF Creates, Ends
    <3> QED
      BY <3>2, <3>3
  <2>6. ASSUME NEW m \in Messages, Writes(m), m.say \in {"aborted", "barge-in"} PROVE ReplyRight(r)'
    BY <2>4, <2>6 DEF Creates, Ends
  <2> QED
    BY <2>3, <2>5, <2>6, LoopWrites, FillerWrites
<1> QED
  BY <1>3, <1>4

\* A voice writes, or is over.
LEMMA ReplySaid ==
  ASSUME TypeOK, Speakers, NEW r \in Replies, ReplyRight(r), NEW s \in Streams, VoiceStep(s),
         Unspoken(r)' => Unspoken(r)
  PROVE  ReplyRight(r)'
<1>1. /\ voice[s] \in [at : {"none", "live"}, of : Given, sent : 0..2] /\ Live(s)
      /\ UNCHANGED <<voiced, reports, browser>> /\ \A t \in Streams : Live(t) => t = s
  BY DEF TypeOK, Speakers, VoiceStep, Announce, Frame, Terminate
<1>2. OnceOwed(r)' /\ (Owed(r)' => Owed(r))
  BY <1>1 DEF ReplyRight, OnceOwed, Owed
<1>3. ASSUME IsOver(s) PROVE \A t \in Streams : ~Live(t)'
  BY <1>1, <1>3 DEF IsOver, Live, NoVoice, TypeOK
<1>4. ASSUME NEW n \in 1..2, Moves(s, n)
      PROVE  /\ \A t \in Streams : Live(t)' => t = s
             /\ voice'[s].of = voice[s].of /\ voice'[s].sent = n
  BY <1>1, <1>4 DEF Moves, Live, TypeOK
<1>5. ASSUME NEW m \in Messages, Writes(m), ~Creates(m, r), ~Ends(m, r)
      PROVE  \A i \in DOMAIN wire' : \/ i \in DOMAIN wire /\ wire'[i] = wire[i]
                                     \/ ~Creates(wire'[i], r) /\ ~Ends(wire'[i], r)
  <2>1. \A i \in DOMAIN wire' : (i \in DOMAIN wire /\ wire'[i] = wire[i]) \/ wire'[i] = m
    BY <1>5, WritesFacts
  <2> QED
    BY <1>5, <2>1
<1>6. CASE Fails
  <2>1. IsOver(s)
    BY <1>6 DEF Fails, VoiceStep, Announce, Frame, Terminate, Writes, Room
  <2> QED
    BY <1>1, <1>2, <1>3, <1>6, <2>1, ReplyRests DEF Fails
<1>7. CASE Announce(s) /\ socket = "open"
  <2>1. PICK m \in Messages : m = [say |-> "begin", of |-> voice[s].of, frames |-> 0]
    <3>1. [say |-> "begin", of |-> voice[s].of, frames |-> 0] \in Messages
      BY <1>1 DEF Messages, Says
    <3> QED
      BY <3>1
  <2>2. Writes(m) /\ Moves(s, 1) /\ voice[s].sent = 0 /\ m.say = "begin" /\ m.of = voice[s].of
    BY <1>7, <2>1 DEF Announce, Fails
  <2>3. CASE voice[s].of = r
    BY <1>1, <1>4, <2>2, <2>3, ReplyAnnounced
  <2>4. CASE voice[s].of # r
    <3>1. ~Creates(m, r) /\ ~Ends(m, r)
      BY <2>2, <2>4 DEF Creates, Ends
    <3>2. \A t \in Streams : ~(Live(t)' /\ voice'[t].of = r)
      BY <1>4, <2>2, <2>4
    <3> QED
      BY <1>1, <1>2, <1>5, <2>2, <3>1, <3>2, ReplyRests
  <2> QED
    BY <2>3, <2>4
<1>8. CASE Frame(s) /\ socket = "open"
  <2>1. PICK m \in Messages : m = [say |-> "frame", of |-> voice[s].of, frames |-> 0]
    <3>1. [say |-> "frame", of |-> voice[s].of, frames |-> 0] \in Messages
      BY <1>1 DEF Messages, Says
    <3> QED
      BY <3>1
  <2>2. Writes(m) /\ Moves(s, 2) /\ voice[s].sent = 1 /\ ~Creates(m, r) /\ ~Ends(m, r)
    BY <1>8, <2>1 DEF Frame, Fails, Creates, Ends
  <2>3. \A t \in Streams : Live(t)' /\ voice'[t].of = r =>
           Live(t) /\ voice[t].of = r /\ (voice'[t].sent = 0 <=> voice[t].sent = 0)
                   /\ (voice'[t].sent > 0 <=> voice[t].sent > 0)
    BY <1>1, <1>4, <2>2
  <2> QED
    BY <1>1, <1>2, <1>5, <2>2, <2>3, ReplyRests
<1>9. CASE Terminate(s) /\ socket = "open"
  <2>1. PICK m \in Messages : m = [say |-> "end", of |-> voice[s].of, frames |-> FramesOf(s)]
    <3>1. [say |-> "end", of |-> voice[s].of, frames |-> FramesOf(s)] \in Messages
      BY <1>1 DEF Messages, Says, FramesOf
    <3> QED
      BY <3>1
  <2>2. /\ Writes(m) /\ IsOver(s) /\ m.say = "end" /\ m.of = voice[s].of
        /\ m.frames = 0 => voice[s].sent = 0
        /\ m.frames # 0 => voice[s].sent > 0
    BY <1>1, <1>9, <2>1 DEF Terminate, Fails, FramesOf
  <2>3. CASE voice[s].of = r
    BY <1>1, <1>3, <2>2, <2>3, ReplyEnds
  <2>4. CASE voice[s].of # r
    <3>1. ~Creates(m, r) /\ ~Ends(m, r)
      BY <2>2, <2>4 DEF Creates, Ends
    <3> QED
      BY <1>1, <1>2, <1>3, <1>5, <2>2, <3>1, ReplyRests
  <2> QED
    BY <2>3, <2>4
<1>10. socket = "open" \/ Fails
  BY DEF VoiceStep, Announce, Frame, Terminate, Writes, Room
<1> QED
  BY <1>6, <1>7, <1>8, <1>9, <1>10 DEF VoiceStep

LEMMA ReportingStep ==
  ASSUME TypeOK, Speakers, Ordered, Leading, Reporting, [Next]_vars
  PROVE  Reporting'
<1>1. Mute /\ AnswersFloor /\ Mute' /\ AnswersFloor'
  BY MuteStep, AnswerStep DEF Reporting
<1>2. ASSUME NEW r \in Replies PROVE ReplyRight(r)'
  <2>1. ReplyRight(r) /\ (Unspoken(r)' => Unspoken(r))
    BY UnspokenShrinks DEF Reporting
  <2>2. CASE LoopStep \/ ReceiveStep \/ FillerStep
    BY <1>1, <2>1, <2>2, ReplyServed
  <2>3. CASE BrowserStep
    BY <1>1, <2>1, <2>3, ReplyReceives, ReplyHeard DEF BrowserStep
  <2>4. CASE \E s \in Streams : VoiceStep(s)
    BY <2>1, <2>4, ReplySaid
  <2>5. CASE Disconnect \/ UNCHANGED vars
    <3>1. /\ UNCHANGED <<voiced, voice, browser>> /\ wire' \in {wire, <<>>} /\ reports' \in {reports, <<>>}
          /\ \A s \in Streams : Live(s)' <=> Live(s)
      BY <2>5 DEF Disconnect, vars, Live
    <3>2. (Owed(r)' => Owed(r)) /\ OnceOwed(r)'
      BY <2>1, <3>1, ReportsShrink DEF ReplyRight
    <3> QED
      BY <2>1, <3>1, <3>2, ReplyRests
  <2> QED
    BY <2>2, <2>3, <2>4, <2>5 DEF Next
<1> QED
  BY <1>1, <1>2 DEF Reporting

-----------------------------------------------------------------------------
(* The theorems *)

LEMMA InitInv == Init => IInv
<1> SUFFICES ASSUME Init PROVE IInv
  OBVIOUS
<1>1. TypeOK
  <2>1. /\ loop \in Positions /\ 0 \in Given
        /\ NoVoice \in [at : {"none", "live"}, of : Given, sent : 0..2] /\ NoFiller \in Fillers
    BY BoundsAssumption, GivenFacts, PositionFacts DEF Init, Shape, NoVoice, NoFiller, Fillers
  <2>2. wire \in Seq(Messages) /\ Len(wire) =< MaxWire /\ reports \in Seq(Replies)
    BY EmptyTyped DEF Init
  <2> QED
    BY <2>1, <2>2 DEF Init, TypeOK, Fillers, Messages
<1>2. \A s \in Streams : ~Live(s)
  BY DEF Init, Live, NoVoice
<1>3. DOMAIN wire = {} /\ DOMAIN reports = {}
  BY DEF Init
<1>4. Speakers
  BY <1>2 DEF Init, Speakers, Filling, NoFiller, At, RoomForReply, Hush
<1>5. Ordered /\ Leading
  BY <1>2, <1>3 DEF Ordered, Leading
<1>6. ASSUME NEW r \in Replies PROVE ReplyRight(r)
  <2>1. ~Owed(r) /\ OnceOwed(r) /\ Unheard(r) /\ Voiceless(r) /\ ~Midway(r)
    BY <1>2, <1>3 DEF Init, Replies, Owed, OnceOwed, Unheard, Voiceless, Midway
  <2> QED
    BY <1>2, <1>3, <2>1 DEF ReplyRight
<1>7. Mute /\ AnswersFloor
  BY <1>2, <1>3 DEF Init, Mute, AnswersFloor, At, Filling, NoFiller
<1> QED
  BY <1>1, <1>4, <1>5, <1>6, <1>7 DEF IInv, Reporting

\* What every state of the connection satisfies: the types, who may speak, the
\* order of what is on the wire and the life of every reply.
THEOREM Inductive == Spec => []IInv
<1>1. IInv /\ [Next]_vars => IInv'
  <2> SUFFICES ASSUME IInv, [Next]_vars PROVE IInv'
    OBVIOUS
  <2>1. Speakers'
    <3>1. CASE BrowserStep \/ Disconnect \/ UNCHANGED vars
      <4>1. UNCHANGED <<loop, filler, replies, sender, voice>>
        BY <3>1 DEF BrowserStep, BrowserReceives, PlaysOut, SpokenOut, Disconnect, vars, server
      <4> QED
        BY <4>1 DEF IInv, Speakers, Filling, InTurn, At, RoomForReply, Hush, Live
    <3> QED
      BY <3>1, VoiceSpeakers, FillerSpeakers, LoopSpeakers DEF IInv, Next
  <2> QED
    BY <2>1, TypeStep, OrderStep, ReportingStep DEF IInv
<1> QED
  BY <1>1, InitInv, PTL DEF Spec

\* Every variable keeps its type.
THEOREM TypeCorrect == Spec => []TypeOK
<1>1. IInv => TypeOK
  BY DEF IInv
<1> QED
  BY <1>1, Inductive, PTL

\* At most one stream speaks, the one ReplyAudioSender knows of, and on the wire a
\* frame follows its own stream's announcement, whatever was begun before it.
THEOREM StreamsWholeHolds == Spec => []StreamsWhole
<1>1. IInv => StreamsWhole
  <2> SUFFICES ASSUME IInv PROVE StreamsWhole
    OBVIOUS
  <2>1. ASSUME NEW j \in DOMAIN wire, wire[j].say = "frame", FollowsAnother(j) PROVE FALSE
    <3>1. Len(wire) \in Nat /\ DOMAIN wire = 1..Len(wire)
      <4>1. wire \in Seq(Messages)
        BY DEF IInv, TypeOK, Messages
      <4> HIDE DEF Messages
      <4> QED
        BY <4>1
    <3>2. PICK i \in 1..(j - 1) : /\ wire[i].say = "begin" /\ wire[i].of # wire[j].of
                                  /\ \A k \in (i + 1)..(j - 1) : wire[k].say # "begin"
      BY <2>1 DEF FollowsAnother
    <3>3. i \in DOMAIN wire /\ i < j
      BY <3>1, <3>2
    <3>4. AnnouncedSince(wire, i, j, wire[j].of)
      BY <2>1, <3>2, <3>3 DEF IInv, Ordered, Continues
    <3>5. PICK k \in DOMAIN wire : i < k /\ k < j /\ wire[k].say = "begin"
      BY <3>4 DEF AnnouncedSince, IsBegin
    <3>6. k \in (i + 1)..(j - 1)
      BY <3>1, <3>2, <3>5
    <3> QED
      BY <3>2, <3>5, <3>6
  <2> QED
    BY <2>1, OneVoiceFollows DEF IInv, StreamsWhole
<1> QED
  BY <1>1, Inductive, PTL

\* The receive loop listens again only when the turn's filler is done, and leaves
\* the connection only when nobody speaks.
THEOREM NothingOutlivesHolds == Spec => []NothingOutlives
<1>1. IInv => NothingOutlives
  BY OutlivesFollows DEF IInv
<1> QED
  BY <1>1, Inductive, PTL

\* A reply is reported once at most, by its audio or by the browser's own speech,
\* whatever ends the playback, and a filler never.
THEOREM ReportedOnceHolds == Spec => []ReportedOnce
<1>1. IInv => ReportedOnce
  <2> SUFFICES ASSUME IInv PROVE ReportedOnce
    OBVIOUS
  <2>1. \A i \in DOMAIN reports : reports[i] \in Replies
    <3>1. reports \in Seq(Replies)
      BY DEF IInv, TypeOK
    <3> HIDE DEF Replies
    <3> QED
      BY <3>1
  <2>2. Pending(Filler) = {}
    BY <2>1 DEF Pending, Filler, Replies
  <2>3. ASSUME NEW r \in Replies
        PROVE  Cardinality(Pending(r)) + (IF browser.owes = r THEN 1 ELSE 0)
                 + (IF browser.speaks = r THEN 1 ELSE 0) =< 1
    <3>1. OnceOwed(r)
      BY DEF IInv, Reporting, ReplyRight
    <3>2. CASE Pending(r) = {}
      <4>1. Cardinality(Pending(r)) = 0
        BY <3>2, FS_EmptySet
      <4> QED
        BY <3>1, <4>1 DEF OnceOwed
    <3>3. CASE Pending(r) # {}
      <4>1. PICK i \in DOMAIN reports : reports[i] = r
        BY <3>3 DEF Pending
      <4>2. Pending(r) = {i}
        BY <3>1, <4>1 DEF Pending, OnceOwed
      <4>3. Cardinality(Pending(r)) = 1
        BY <4>2, FS_Singleton
      <4>4. browser.owes # r /\ browser.speaks # r
        BY <3>1, <4>1 DEF OnceOwed
      <4> QED
        BY <4>3, <4>4
    <3> QED
      BY <3>2, <3>3
  <2> QED
    BY <2>2, <2>3 DEF ReportedOnce
<1> QED
  BY <1>1, Inductive, PTL
=============================================================================
