---------------------------- MODULE SpeechTurns ----------------------------
(***************************************************************************)
(* speech/turn_taking.py and speech/pipeline.py: who holds the floor, and  *)
(* which audio becomes an utterance.  Each connection has one pipeline.    *)
(* Its caller awaits push() before it takes the next frame, so frames,     *)
(* playback reports and replies come one after another; a detection of the *)
(* language runs beside them, and ends when it likes.                      *)
(*                                                                         *)
(* TurnTaking keeps counters only and the pipeline keeps the audio: they   *)
(* have to agree on what an utterance is without looking at each other.    *)
(*                                                                         *)
(* Time is in frames' units, audio in units of one such frame of PCM.      *)
(* Left out: dropped_frames and all timing, which are only reported, and   *)
(* what a transcript says.                                                 *)
(***************************************************************************)
EXTENDS Naturals, SequencesExt

CONSTANTS Lengths,         \* of the chunks a client sends
          PcmDurations,    \* lengths that are PCM frames, and last as long
          FrameDuration,   \* _frame_duration_ms, of any other chunk
          Transcribers,    \* the kinds of transcriber a deployment may have
          MinSpeech, EndSilence, MaxUtterance, BargeInSpeech, AgentFloor,
          MaxBytes,        \* _max_utterance_bytes
          EarlyBytes       \* _early_detection_bytes, 0 to disable it

ASSUME KindsAssumption == Transcribers \subseteq {"early", "plain", "none"}
ASSUME LengthsAssumption == Lengths \subseteq Nat /\ PcmDurations \subseteq Nat \ {0}
ASSUME ThresholdsAssumption ==
  /\ {FrameDuration, MinSpeech, EndSilence, MaxUtterance, BargeInSpeech,
      AgentFloor, MaxBytes} \subseteq Nat \ {0}
  /\ EarlyBytes \in Nat /\ MinSpeech =< MaxUtterance

VARIABLES transcriber,  \* _transcriber, for the whole connection
          machine,      \* TurnTaking's counters
          audio,        \* the pipeline's buffer, oversize latch and detection task
          job           \* what the caller awaits

vars == <<transcriber, machine, audio, job>>

DurationOf(n) == IF n \in PcmDurations THEN n ELSE FrameDuration

\* A frame the detector fails on counts as silence.
IsSpeech(activity) == activity = "speech"

Frames == [length : Lengths, voice : {"speech", "silence"}]
FrameOf(n, activity) ==
  [length |-> n, voice |-> IF IsSpeech(activity) THEN "speech" ELSE "silence"]
-----------------------------------------------------------------------------
(***************************************************************************)
(* TurnTaking                                                              *)
(***************************************************************************)
Fresh == [state |-> "idle", speech |-> 0, silence |-> 0, trailing |-> 0,
          count |-> 0, started |-> "no", barge |-> 0, elapsed |-> 0]

\* _reset_utterance()
Blank(m) == [m EXCEPT !.speech = 0, !.silence = 0, !.trailing = 0,
                      !.count = 0, !.started = "no"]

Accumulate(m, f) ==
  IF f.voice = "speech"
  THEN [m EXCEPT !.count = @ + 1, !.trailing = 0,
                 !.speech = @ + DurationOf(f.length)]
  ELSE [m EXCEPT !.count = @ + 1, !.trailing = @ + DurationOf(f.length),
                 !.silence = @ + DurationOf(f.length)]

Start(m, f) == Accumulate([m EXCEPT !.started = "yes"], f)

ReleaseFloor(m) == Blank([m EXCEPT !.state = "idle", !.barge = 0, !.elapsed = 0])

NoSegment == [count |-> 0, speech |-> 0, silence |-> 0]
SegmentOf(m) == [count |-> m.count, speech |-> m.speech, silence |-> m.silence]
Idle(m) == [Blank(m) EXCEPT !.state = "idle"]

\* TurnTakingDecision, and the machine it leaves
Decide(m, capture, discarded) ==
  [to |-> m, segment |-> NoSegment, capture |-> capture, discarded |-> discarded]
Nothing(m) == Decide(m, "no", "no")
Captured(m) == Decide(m, "yes", "no")
Discarded(m) == Decide(m, "no", "yes")
\* _close()
Closed(m) == [to |-> Idle(m), segment |-> SegmentOf(m),
              capture |-> "yes", discarded |-> "no"]

Ends(m) == m.speech + m.silence >= MaxUtterance \/ m.trailing >= EndSilence

WhileListening(m, f) ==
  LET heard == Accumulate(m, f)
  IN  CASE m.state = "idle" /\ f.voice = "silence" -> Nothing(m)
        [] m.state = "idle" /\ f.voice = "speech" ->
             Captured(Start([m EXCEPT !.state = "listening"], f))
        [] m.state = "listening" /\ ~Ends(heard) -> Captured(heard)
        [] m.state = "listening" /\ Ends(heard) ->
             IF heard.speech < MinSpeech THEN Discarded(Idle(heard)) ELSE Closed(heard)

Reclaimed(m, f) ==
  LET d == WhileListening(ReleaseFloor(m), f)
  IN  IF m.barge > 0 THEN [d EXCEPT !.discarded = "yes"] ELSE d

BreaksOff(m) ==
  IF m.barge = 0 THEN Nothing(m) ELSE Discarded(Blank([m EXCEPT !.barge = 0]))

Interrupts(m, f) ==
  LET run == IF m.barge = 0 THEN Start(m, f) ELSE Accumulate(m, f)
      lasted == m.barge + DurationOf(f.length)
  IN  IF lasted < BargeInSpeech
      THEN Captured([run EXCEPT !.barge = lasted])
      ELSE Captured([run EXCEPT !.barge = 0, !.elapsed = 0, !.state = "listening"])

\* mutant: a buyer who is heard shows that the connection lives
TimedFromSpeech(m, f) ==
  [m EXCEPT !.elapsed = IF f.voice = "speech" THEN 0 ELSE @ + DurationOf(f.length)]

Timed(m, f) == [m EXCEPT !.elapsed = @ + DurationOf(f.length)]

WhileAgentSpeaks(m, f) ==
  LET timed == Timed(m, f)
  IN  CASE timed.elapsed >= AgentFloor -> Reclaimed(timed, f)
        [] timed.elapsed < AgentFloor /\ f.voice = "silence" -> BreaksOff(timed)
        [] timed.elapsed < AgentFloor /\ f.voice = "speech" -> Interrupts(timed, f)

Observe(m, f) ==
  IF m.state = "agent-speaking" THEN WhileAgentSpeaks(m, f) ELSE WhileListening(m, f)
-----------------------------------------------------------------------------
(***************************************************************************)
(* SpeechTurnPipeline's audio.  A detection is of the audio there was when *)
(* it began.  _detection_started says no more than that there is one.      *)
(***************************************************************************)
Released == [buffer |-> <<>>, oversize |-> "no", detection |-> "none", prefix |-> <<>>]

\* What chunks add up to, by a weight of each.
Total(weight, chunks) ==
  LET upTo[n \in 0..Len(chunks)] ==
        IF n = 0 THEN 0 ELSE upTo[n - 1] + weight[chunks[n]]
  IN  upTo[Len(chunks)]

Bytes(chunks) == Total([f \in Frames |-> f.length], chunks)

\* _maybe_start_early_detection()
Detecting(a) ==
  IF /\ transcriber = "early" /\ EarlyBytes > 0
     /\ a.detection = "none" /\ Bytes(a.buffer) >= EarlyBytes
  THEN [a EXCEPT !.detection = "running", !.prefix = a.buffer]
  ELSE a

\* mutant: what no longer fits starts the buffer again
OversizeRestarts == Released
Oversize == [Released EXCEPT !.oversize = "yes"]

BufferAudio(a, f) ==
  IF a.oversize = "yes" \/ transcriber = "none" THEN a
  ELSE IF Bytes(a.buffer) + f.length > MaxBytes THEN Oversize
  ELSE Detecting([a EXCEPT !.buffer = Append(@, f)])

\* _take_detection_hint(): one that is not done is given up.
Hint(a) == IF a.detection = "hinted" THEN a.prefix ELSE <<>>

\* _transcribe(), to its await or to its end
Transcribe(a, segment) ==
  /\ audio' = Released
  /\ job' = IF transcriber = "none" \/ a.oversize = "yes"
            THEN [at |-> "answered"]
            ELSE [at |-> "transcribing", chunks |-> a.buffer, hint |-> Hint(a),
                  segment |-> segment]

After(decision, a) ==
  IF decision.segment = NoSegment
  THEN audio' = a /\ UNCHANGED job
  ELSE Transcribe(a, decision.segment)

Init ==
  /\ transcriber \in Transcribers
  /\ machine = Fresh
  /\ audio = Released
  /\ job = [at |-> "answered"]         \* cli/talk.py opens with a sentence of its own

\* push()
Push(f) ==
  LET decision == Observe(machine, f)
      kept == IF decision.discarded = "yes" THEN Released ELSE audio
  IN  /\ job.at = "idle"
      /\ machine' = decision.to
      /\ After(decision, IF decision.capture = "yes" THEN BufferAudio(kept, f) ELSE kept)
      /\ UNCHANGED transcriber

\* stop().  Only the tests call it, and never between the frames of an interruption.
Stop ==
  /\ job.at = "idle" /\ machine.barge = 0
  /\ machine' = IF machine.state = "agent-speaking" THEN Blank(machine) ELSE Idle(machine)
  /\ IF machine.state = "listening" /\ machine.speech >= MinSpeech
     THEN Transcribe(audio, SegmentOf(machine))
     ELSE audio' = Released /\ UNCHANGED job
  /\ UNCHANGED transcriber

\* The transcript, a refusal or the deadline.
TranscriptionEnds ==
  /\ job.at = "transcribing"
  /\ job' = [at |-> "answered"]
  /\ UNCHANGED <<transcriber, machine, audio>>

\* The caller says something, a reply or a phrase of recovery.
AgentStarts ==
  /\ job.at = "answered"
  /\ machine' = [Blank(machine) EXCEPT !.state = "agent-speaking", !.barge = 0, !.elapsed = 0]
  /\ audio' = Released
  /\ job' = [at |-> "idle"]
  /\ UNCHANGED transcriber

SaysNothing ==
  /\ job.at = "answered"
  /\ job' = [at |-> "idle"]
  /\ UNCHANGED <<transcriber, machine, audio>>

YieldsAlways == TRUE                         \* mutant: any report of playback drops audio
Yields == machine.state = "agent-speaking"

\* agent_stopped_speaking(), whenever the client reports it
AgentStops ==
  /\ job.at = "idle"
  /\ machine' = IF machine.state = "agent-speaking" THEN ReleaseFloor(machine) ELSE machine
  /\ audio' = IF Yields THEN Released ELSE audio
  /\ UNCHANGED <<transcriber, job>>

\* _timed_detection() ends, with a hint or with none; its task is what a
\* cancellation stops, so an abandoned one is never heard of again.
DetectionEnds ==
  /\ audio.detection = "running"
  /\ \E end \in {"hinted", "failed"} : audio' = [audio EXCEPT !.detection = end]
  /\ UNCHANGED <<transcriber, machine, job>>

PushAny == \E n \in Lengths, activity \in {"speech", "silence", "failed"} :
             Push(FrameOf(n, activity))

Next == PushAny \/ Stop \/ TranscriptionEnds \/ AgentStarts \/ SaysNothing
        \/ AgentStops \/ DetectionEnds

Spec == Init /\ [][Next]_vars
-----------------------------------------------------------------------------
(***************************************************************************)
(* Every variable keeps its type.                                          *)
(***************************************************************************)
TypeOK ==
  /\ transcriber \in Transcribers
  /\ machine.state \in {"idle", "listening", "agent-speaking"}
  /\ machine.elapsed < AgentFloor /\ machine.barge < BargeInSpeech
  /\ audio.buffer \in Seq(Frames) /\ Bytes(audio.buffer) =< MaxBytes
  /\ audio.detection \in {"none", "running", "hinted", "failed"}
  /\ job.at \in {"idle", "transcribing", "answered"}

Durations(voice) == [f \in Frames |-> IF f.voice = voice THEN DurationOf(f.length) ELSE 0]
Lasting(chunks, voice) == Total(Durations(voice), chunks)

Is(chunks, counted) ==
  /\ Len(chunks) = counted.count
  /\ Lasting(chunks, "speech") = counted.speech
  /\ Lasting(chunks, "silence") = counted.silence

(***************************************************************************)
(* The audio that is held is the utterance TurnTaking is counting, from    *)
(* its first frame, or all of it is gone: no frame of an abandoned         *)
(* utterance or interruption is left for the next, and nothing is held     *)
(* when nobody is speaking (pipeline.py:176: "Audio is held only for the   *)
(* utterance currently being spoken").                                     *)
(***************************************************************************)
AudioIsUtterance ==
  /\ transcriber # "none" /\ audio.oversize = "no" => Is(audio.buffer, machine)
  /\ machine.count = 0 => audio = Released
  /\ machine.count > 0 => machine.started = "yes"
  /\ machine.state = "agent-speaking" => machine.speech = machine.barge /\ machine.silence = 0

(***************************************************************************)
(* What the transcriber is given is a whole utterance, which begins with   *)
(* speech and has enough of it; "a half sentence" is never attributed to   *)
(* the buyer (pipeline.py:391-392).  A hint it is given was drawn from the *)
(* beginning of that very utterance.                                       *)
(***************************************************************************)
SentWhole ==
  job.at = "transcribing" =>
    /\ Is(job.chunks, job.segment)
    /\ job.segment.speech >= MinSpeech
    /\ job.chunks[1].voice = "speech"
    /\ IsPrefix(job.hint, job.chunks)
=============================================================================
