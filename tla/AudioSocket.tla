---------------------------- MODULE AudioSocket ----------------------------
(***************************************************************************)
(* One audio connection: the receive loop of simulator/router.py, the      *)
(* thinking filler and the reply's voice of simulator/speech_output.py,    *)
(* which write to one socket, and the browser's player (apps/web/app.js,   *)
(* reply-audio.js), which says when a reply has been heard.                *)
(*                                                                         *)
(* The loop, the filler and the voice are tasks of one event loop.  A      *)
(* write is one step, for LockedSocket lets no two overlap; so is a        *)
(* cancellation, after which a voice writes nothing more.  SpeechTurns has *)
(* the inside of pipeline.push(): here it ends in nothing, an interruption *)
(* or an utterance.                                                        *)
(*                                                                         *)
(* A reply is known by its number, which is not on the wire: a report of   *)
(* playback carries nothing.                                               *)
(***************************************************************************)
EXTENDS Naturals, Sequences, FiniteSets

CONSTANTS MaxPerTurn,  \* fillers of a turn
          MaxReplies,  \* bound
          MaxWire      \* messages the network holds before a write has to wait

ASSUME BoundsAssumption == MaxPerTurn \in Nat /\ MaxReplies \in Nat /\ MaxWire \in Nat \ {0}

Streams == 1..2             \* tasks that speak; the number of one that is over is used again
Replies == 1..MaxReplies
Filler == 0                 \* what a filler's voice speaks for

VARIABLES voiced,    \* a synthesizer is configured
          loop,      \* the receive loop: where it is, and what it is about to do
          floor,     \* the reply that holds the floor, 0: nobody, the buyer may speak
          replies,   \* replies given so far
          sender,    \* ReplyAudioSender._task
          voice,     \* the tasks that speak
          filler,    \* ThinkingFiller._task, its stop event and its count
          socket,    \* "open" or "gone"
          wire,      \* messages on their way to the browser
          reports,   \* reports on their way back, by the reply they are for
          browser    \* the player, and the browser's own speech

vars == <<voiced, loop, floor, replies, sender, voice, filler, socket, wire, reports, browser>>
server == <<voiced, loop, floor, replies, sender, voice, filler, socket>>
-----------------------------------------------------------------------------
Live(s) == s # 0 /\ voice[s].at = "live"
NoVoice == [at |-> "none", of |-> 0, sent |-> 0]
NoFiller == [at |-> "none", stop |-> "no", said |-> 0]
Speaking == {s \in Streams : Live(s)}
Idle == CHOOSE s \in Streams : ~Live(s) /\ \A t \in 1..(s - 1) : Live(t)

Room == socket = "open" /\ Len(wire) < MaxWire
Writes(m) == Room /\ wire' = Append(wire, m)
Fails == socket = "gone" /\ UNCHANGED wire
\* mutant: a write to a socket that is gone is waited for
TriesToSendForEver(m) == Writes(m)
TriesToSend(m) == Writes(m) \/ Fails

At(stage) == loop.at = stage
Goes(stage, next) == loop' = [at |-> stage, next |-> next]
Receives == Goes("receiving", "none")

Init ==
  /\ voiced \in {"yes", "no"}
  /\ loop = [at |-> "receiving", next |-> "none"]
  /\ floor = 0 /\ replies = 0 /\ sender = 0
  /\ voice = [s \in Streams |-> NoVoice]
  /\ filler = NoFiller
  /\ socket = "open" /\ wire = <<>> /\ reports = <<>>
  /\ browser = [audio |-> "off", ended |-> "no", playing |-> "no", owes |-> 0, speaks |-> 0]
-----------------------------------------------------------------------------
(***************************************************************************)
(* ReplyAudioSender                                                        *)
(***************************************************************************)
\* abort(), up to the end of the task it cancels; what follows is EndAborted.
Aborts == sender' = 0 /\ voice' = IF Live(sender) THEN [voice EXCEPT ![sender] = NoVoice] ELSE voice
EndAborted == [say |-> "aborted", of |-> 0, frames |-> 0]

\* start() takes for granted that abort(), just before, has left nobody speaking.
Starts(of) ==
  /\ sender' = Idle
  /\ voice' = [voice EXCEPT ![Idle] = [at |-> "live", of |-> of, sent |-> 0]]

\* _speak(): the first frame is announced, the others follow, and the end is
\* told whatever came of it.  A socket that is gone ends it without a word.
Moves(s, n) == voice' = [voice EXCEPT ![s].sent = n]
IsOver(s) == voice' = [voice EXCEPT ![s] = NoVoice]

Announce(s) ==
  /\ Live(s) /\ voice[s].sent = 0
  /\ \/ Writes([say |-> "begin", of |-> voice[s].of, frames |-> 0]) /\ Moves(s, 1)
     \/ Fails /\ IsOver(s)

Frame(s) ==
  /\ Live(s) /\ voice[s].sent = 1
  /\ \/ Writes([say |-> "frame", of |-> voice[s].of, frames |-> 0]) /\ Moves(s, 2)
     \/ Fails /\ IsOver(s)

\* The frames run out, at once if there is nothing to say, or the synthesizer fails.
FramesOf(s) == IF voice[s].sent = 2 THEN 1 ELSE 0
Terminate(s) ==
  /\ Live(s) /\ voice[s].sent # 1
  /\ \/ Writes([say |-> "end", of |-> voice[s].of, frames |-> FramesOf(s)])
     \/ Fails
  /\ IsOver(s)

VoiceStep(s) ==
  /\ Announce(s) \/ Frame(s) \/ Terminate(s)
  /\ UNCHANGED <<voiced, loop, floor, replies, sender, filler, socket, reports, browser>>
-----------------------------------------------------------------------------
(***************************************************************************)
(* ThinkingFiller: it waits, starts a voice and waits for it, at most      *)
(* MaxPerTurn times.  "ended" is a task that is done.                      *)
(***************************************************************************)
Filling == filler.at \in {"waiting", "terminating", "starting", "draining"}
FillerAt(stage) == filler' = [filler EXCEPT !.at = stage]

\* start(), called inside push() before it awaits the transcript
Begins == IF voiced = "yes" /\ ~Filling
          THEN filler' = [at |-> "waiting", stop |-> "no", said |-> 0]
          ELSE UNCHANGED filler

\* A threshold has passed.  Only a sleep heeds the event: when the last
\* phrase took longer than the next threshold, there is no sleep.
FillerDue ==
  /\ filler.at = "waiting" /\ filler.said < MaxPerTurn
  /\ filler.stop = "no" \/ filler.said > 0
  /\ Aborts
  /\ FillerAt(IF Live(sender) THEN "terminating" ELSE "starting")
  /\ UNCHANGED wire

\* Backchannel.due(): there is no phrase in the language of the call
FillerSilent ==
  /\ filler.at = "waiting" /\ filler.said < MaxPerTurn
  /\ filler' = [filler EXCEPT !.said = @ + 1]
  /\ UNCHANGED <<sender, voice, wire>>

FillerTerminates ==
  /\ filler.at = "terminating"
  /\ TriesToSend(EndAborted)
  /\ FillerAt("starting")
  /\ UNCHANGED <<sender, voice>>

FillerSpeaks ==
  /\ filler.at = "starting"
  /\ Starts(Filler)
  /\ filler' = [filler EXCEPT !.at = "draining", !.said = @ + 1]
  /\ UNCHANGED wire

FillerDrained ==
  /\ filler.at = "draining" /\ ~Live(sender)
  /\ FillerAt("waiting")
  /\ UNCHANGED <<sender, voice, wire>>

FillerEnds ==
  /\ filler.at = "waiting"
  /\ filler.stop = "yes" \/ filler.said = MaxPerTurn
  /\ FillerAt("ended")
  /\ UNCHANGED <<sender, voice, wire>>

FillerStep ==
  /\ FillerDue \/ FillerSilent \/ FillerTerminates \/ FillerSpeaks \/ FillerDrained \/ FillerEnds
  /\ UNCHANGED <<voiced, loop, floor, replies, socket, reports, browser>>

\* A cancellation ends the task, but for one that meets abort() while it
\* awaits the voice it has cancelled, where it is taken for the voice's own.
Cancelled == \/ filler' = NoFiller
             \/ filler.at = "terminating" /\ filler' = [filler EXCEPT !.stop = "yes"]

\* settle() waits for the filler with a deadline, abort() cancels it at once.
\* Both wait for the task to be done, "settling" or "outwaiting" a cancellation.
\* mutants: neither waits
SettlesAtOnce(next) ==
  /\ Goes(next, "none")
  /\ filler' = [filler EXCEPT !.stop = "yes"]

Settles(next) ==
  /\ Goes("settling", next)
  /\ filler' = [filler EXCEPT !.stop = "yes"]

QuitsAtOnce(next) ==
  /\ Goes(next, next)
  /\ filler' = [filler EXCEPT !.stop = "yes"]

Quits(next) ==
  IF Filling THEN Goes("outwaiting", next) /\ Cancelled
             ELSE Goes(next, next) /\ filler' = NoFiller

SettleTimesOut ==
  /\ At("settling") /\ Filling
  /\ Goes("outwaiting", loop.next) /\ Cancelled
  /\ UNCHANGED <<voiced, floor, replies, sender, voice, socket, wire, reports, browser>>

FillerGone ==
  /\ loop.at \in {"settling", "outwaiting"} /\ ~Filling
  /\ Goes(loop.next, "none")
  /\ filler' = NoFiller
  /\ UNCHANGED <<voiced, floor, replies, sender, voice, socket, wire, reports, browser>>
-----------------------------------------------------------------------------
(***************************************************************************)
(* The receive loop                                                        *)
(***************************************************************************)
\* bound
TurnFits == replies < MaxReplies

Reported ==
  /\ At("receiving") /\ reports # <<>>
  /\ reports' = Tail(reports)
  /\ floor' = 0
  /\ UNCHANGED <<voiced, loop, replies, sender, voice, filler, socket, wire, browser>>

\* A frame that ends nothing, or with which the floor is reclaimed.
Quiet ==
  /\ At("receiving")
  /\ floor' \in {floor, 0}
  /\ Goes("acking", "receiving")
  /\ UNCHANGED <<voiced, replies, sender, voice, filler, socket, wire, reports, browser>>

BargeIn ==
  /\ At("receiving") /\ floor # 0
  /\ floor' = 0
  /\ Goes("acking", "barge")
  /\ UNCHANGED <<voiced, replies, sender, voice, filler, socket, wire, reports, browser>>

Utterance ==
  /\ At("receiving") /\ floor = 0 /\ TurnFits
  /\ Begins
  /\ Goes("transcribing", "none")
  /\ UNCHANGED <<voiced, floor, replies, sender, voice, socket, wire, reports, browser>>

\* A transcript, a failure of the system that is apologised for, or neither.
Transcribed ==
  /\ At("transcribing")
  /\ \E outcome \in {"turn", "drop"} \cup (IF voiced = "yes" THEN {"recover"} ELSE {}) :
       Goes("acking", outcome)
  /\ UNCHANGED <<voiced, floor, replies, sender, voice, filler, socket, wire, reports, browser>>

\* The agent takes the floor before it tells that it will speak.
TakesFloor == floor' = replies + 1 /\ replies' = replies + 1

Acknowledge ==
  /\ At("acking") /\ socket = "open"
  /\ \/ loop.next = "receiving" /\ Receives /\ UNCHANGED <<floor, replies, filler>>
     \/ loop.next = "barge" /\ Quits("silence") /\ UNCHANGED <<floor, replies>>
     \/ loop.next = "turn" /\ Goes("thinking", "none") /\ UNCHANGED <<floor, replies, filler>>
     \/ loop.next = "recover" /\ Goes("telling", "answer") /\ TakesFloor /\ UNCHANGED filler
     \/ loop.next = "drop" /\ Goes("telling", "drop") /\ UNCHANGED <<floor, replies, filler>>
     \* the session has been ended meanwhile
     \/ loop.next \in {"recover", "drop"} /\ Settles("leave") /\ UNCHANGED <<floor, replies>>
  /\ UNCHANGED <<voiced, sender, voice, socket, wire, reports, browser>>

\* process_turn() answers, fails, or finds its session gone.
Thought ==
  /\ At("thinking")
  /\ \/ Goes("telling", "answer") /\ TakesFloor /\ UNCHANGED <<filler, socket>>
     \/ Goes("telling", "drop") /\ UNCHANGED <<floor, replies, filler, socket>>
     \/ Settles("leave") /\ socket' = "gone" /\ UNCHANGED <<floor, replies>>
  /\ UNCHANGED <<voiced, sender, voice, wire, reports, browser>>

Tell ==
  /\ At("telling")
  /\ \/ /\ loop.next = "answer" /\ Writes([say |-> "reply", of |-> floor, frames |-> 0])
        /\ Settles("start")
     \/ loop.next = "drop" /\ Room /\ Settles("receiving") /\ UNCHANGED wire
     \/ Fails /\ Settles("leave")
  /\ UNCHANGED <<voiced, floor, replies, sender, voice, socket, reports, browser>>

\* sender.start() and sender.abort(), whose first half is alike
Silence(stage, after) ==
  /\ At(stage)
  /\ Aborts
  /\ Goes(IF Live(sender) THEN "terminating" ELSE after, after)
  /\ UNCHANGED <<voiced, floor, replies, filler, socket, wire, reports, browser>>

StartsReply ==
  \/ voiced = "yes" /\ Silence("start", "speak")
  \/ /\ voiced = "no" /\ At("start") /\ Receives
     /\ UNCHANGED <<voiced, floor, replies, sender, voice, filler, socket, wire, reports, browser>>

TerminateOld ==
  /\ At("terminating")
  /\ TriesToSend(EndAborted)
  /\ Goes(loop.next, "none")
  /\ UNCHANGED <<voiced, floor, replies, sender, voice, filler, socket, reports, browser>>

SpeakReply ==
  /\ At("speak")
  /\ Starts(replies)
  /\ Receives
  /\ UNCHANGED <<voiced, floor, replies, filler, socket, wire, reports, browser>>

TellBargeIn ==
  /\ At("barge")
  /\ \/ Writes([say |-> "barge-in", of |-> 0, frames |-> 0]) /\ Receives
     \/ Fails /\ Goes("leave", "none")
  /\ UNCHANGED <<voiced, floor, replies, sender, voice, filler, socket, reports, browser>>

\* A disconnection, a frame that is refused, or a write that raised.
Leave ==
  /\ At("leave") \/ At("receiving") \/ (At("acking") /\ socket = "gone")
  /\ socket' = "gone" /\ wire' = <<>> /\ reports' = <<>>
  /\ Quits("close")
  /\ UNCHANGED <<voiced, floor, replies, sender, voice, browser>>

LoopStep == \/ SettleTimesOut \/ FillerGone \/ Transcribed \/ Acknowledge \/ Thought \/ Tell
            \/ StartsReply \/ TerminateOld \/ SpeakReply
            \/ Silence("silence", "barge") \/ TellBargeIn \/ Silence("close", "gone")
            \/ Leave /\ ~At("receiving")

ReceiveStep == Reported \/ Quiet \/ BargeIn \/ Utterance \/ (Leave /\ At("receiving"))

Disconnect ==
  /\ socket = "open"
  /\ socket' = "gone" /\ wire' = <<>> /\ reports' = <<>>
  /\ UNCHANGED <<voiced, loop, floor, replies, sender, voice, filler, browser>>
-----------------------------------------------------------------------------
(***************************************************************************)
(* The browser                                                             *)
(***************************************************************************)
Reports(r) == reports' = Append(reports, r)

\* ReplyAudioPlayer.stop()
Stopped == [browser EXCEPT !.audio = "off", !.ended = "no", !.playing = "no", !.owes = 0]

\* app.js speak(): its newest utterance reports when it ends, whatever ends it.
Speaks(b, r) == browser' = [b EXCEPT !.speaks = r]

\* player.begin(): a reply queues behind a filler that has come whole, if little
\* of it is left; without WebAudio the browser speaks the reply itself.
\* mutant: what the browser speaks is not the audio's stead
BeginBoth(m) ==
  browser' = [Stopped EXCEPT !.audio = "on", !.speaks = m.of]

Begin(m) ==
  \/ /\ m.of # Filler /\ browser.ended = "yes" /\ browser.playing = "yes"
     /\ browser' = [browser EXCEPT !.audio = "on", !.ended = "no", !.owes = 0]
  \/ browser' = [Stopped EXCEPT !.audio = "on"]
  \/ IF m.of = Filler THEN browser' = Stopped ELSE Speaks(Stopped, m.of)

\* player.end(): the end of the last source reports, if it is yet to come.
EndPlayed(m) ==
  IF browser.audio = "on"
  THEN browser' = [browser EXCEPT !.ended = "yes",
                                  !.owes = IF browser.playing = "yes" THEN m.of ELSE 0]
  ELSE UNCHANGED browser

Receive(m) ==
  CASE m.say = "begin" -> Begin(m)
    [] m.say = "frame" -> IF browser.audio = "on"
                          THEN browser' = [browser EXCEPT !.playing = "yes"]
                          ELSE UNCHANGED browser
    [] m.say = "end" /\ m.frames > 0 -> EndPlayed(m)
    [] m.say = "end" /\ m.frames = 0 -> IF m.of = Filler THEN browser' = Stopped
                                                         ELSE Speaks(Stopped, m.of)
    [] m.say = "aborted" -> browser' = Stopped
    [] m.say = "barge-in" -> browser' = [Stopped EXCEPT !.speaks = 0]
    [] m.say = "reply" -> IF voiced = "yes" THEN UNCHANGED browser ELSE Speaks(browser, m.of)

BrowserReceives ==
  /\ wire # <<>>
  /\ Receive(Head(wire))
  /\ wire' = Tail(wire)
  /\ UNCHANGED <<server, reports>>

\* The audio that was scheduled has been heard.
PlaysOut ==
  /\ browser.playing = "yes"
  /\ browser' = [browser EXCEPT !.playing = "no", !.owes = 0,
                                !.audio = IF browser.ended = "yes" THEN "off" ELSE @]
  /\ IF browser.owes # 0 /\ socket = "open" THEN Reports(browser.owes) ELSE UNCHANGED reports
  /\ UNCHANGED <<server, wire>>

SpokenOut ==
  /\ browser.speaks # 0
  /\ browser' = [browser EXCEPT !.speaks = 0]
  /\ IF socket = "open" THEN Reports(browser.speaks) ELSE UNCHANGED reports
  /\ UNCHANGED <<server, wire>>

BrowserStep == BrowserReceives \/ PlaysOut \/ SpokenOut
-----------------------------------------------------------------------------
Next == \/ ReceiveStep \/ LoopStep \/ FillerStep \/ BrowserStep \/ Disconnect
        \/ \E s \in Streams : VoiceStep(s)

Spec == Init /\ [][Next]_vars

\* The loop's tasks are scheduled and a synthesizer ends or fails; the browser
\* reads what it is sent.  Nobody owes it a message, a report or a disconnection.
FairSpec ==
  /\ Spec
  /\ WF_vars(LoopStep) /\ WF_vars(FillerStep) /\ WF_vars(BrowserReceives)
  /\ \A s \in Streams : WF_vars(VoiceStep(s))
-----------------------------------------------------------------------------
(***************************************************************************)
(* Properties                                                              *)
(***************************************************************************)
Stages(at, next) == [at : at, next : next]

Positions ==
  UNION {Stages({"receiving", "transcribing", "thinking", "start", "leave"}, {"none"}),
         Stages({"acking"}, {"receiving", "barge", "turn", "recover", "drop"}),
         Stages({"telling"}, {"answer", "drop"}),
         Stages({"settling"}, {"start", "receiving", "leave"}),
         Stages({"outwaiting"}, {"start", "receiving", "leave", "silence", "close"}),
         Stages({"terminating"}, {"speak", "barge", "gone"}),
         Stages({"speak"}, {"none", "speak"}), Stages({"silence"}, {"none", "silence"}),
         Stages({"barge"}, {"none", "barge"}), Stages({"close"}, {"none", "close"}),
         Stages({"gone"}, {"none", "gone"})}

Given == 0..MaxReplies      \* what a stream may be of, the filler's included
Says == {"begin", "frame", "end", "aborted", "barge-in", "reply"}

TypeOK ==
  /\ voiced \in {"yes", "no"} /\ socket \in {"open", "gone"}
  /\ loop \in Positions
  /\ floor \in Given /\ replies \in Given /\ sender \in {0} \cup Streams
  /\ voice \in [Streams -> [at : {"none", "live"}, of : Given, sent : 0..2]]
  /\ filler \in [at : {"none", "waiting", "terminating", "starting", "draining", "ended"},
                 stop : {"yes", "no"}, said : 0..MaxPerTurn]
  /\ wire \in Seq([say : Says, of : Given, frames : 0..1]) /\ Len(wire) =< MaxWire
  /\ reports \in Seq(Replies)
  /\ browser \in [audio : {"on", "off"}, ended : {"yes", "no"}, playing : {"yes", "no"},
                  owes : Given, speaks : Given]

\* One voice at a time, and the sender knows which: start() cancels no stream
\* but the one it knows of (speech_output.py "at most one reply is being spoken").
OneVoice == Cardinality(Speaking) =< 1 /\ \A s \in Speaking : s = sender

\* On the wire a frame follows the announcement of its own stream, never another's.
FollowsAnother(j) ==
  \E i \in 1..(j - 1) : /\ wire[i].say = "begin" /\ wire[i].of # wire[j].of
                        /\ \A k \in (i + 1)..(j - 1) : wire[k].say # "begin"
StreamsWhole == OneVoice /\ \A j \in DOMAIN wire : wire[j].say = "frame" => ~FollowsAnother(j)

\* The loop listens again only when the turn's filler is done, and the
\* connection is left only when nobody speaks (audio_socket's two finally).
NothingOutlives ==
  /\ At("receiving") => ~Filling
  /\ At("gone") => ~Filling /\ Speaking = {}

\* Whatever ends its playback, a reply is reported once, and a filler never:
\* its report would hand back a floor it does not hold.
Pending(r) == {i \in DOMAIN reports : reports[i] = r}
ReportedOnce ==
  /\ Pending(Filler) = {}
  /\ \A r \in Replies : Cardinality(Pending(r)) + (IF browser.owes = r THEN 1 ELSE 0)
                          + (IF browser.speaks = r THEN 1 ELSE 0) =< 1

\* A turn ends: the receive loop, which alone hears the buyer, listens again.
LoopReturns == At("transcribing") ~> loop.at \in {"receiving", "gone"}
=============================================================================
