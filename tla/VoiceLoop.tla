----------------------------- MODULE VoiceLoop -----------------------------
(***************************************************************************)
(* The two callers of the speech pipeline.  simulator/router.py gives it   *)
(* the frames of a socket, one after another: SpeechTurns, as it is.       *)
(* cli/talk.py gives it those of speech/microphone.py, in half duplex: a   *)
(* thread of the audio device captures frames, the loop's _offer keeps the *)
(* latest of them, and the microphone is paused while the agent speaks,    *)
(* whose voice it would hear.  While a turn is transcribed a task of its   *)
(* own, the filler, says short things, and is cancelled when the           *)
(* transcript is there.                                                    *)
(*                                                                         *)
(* Of a frame one keeps whose voice it has.  A capture is of one instant.  *)
(* Left out: what is said, the languages and voices, and the timing of the *)
(* fillers: one may be said at any time of the wait, or never.             *)
(***************************************************************************)
EXTENDS SpeechTurns

CONSTANTS MicFrame,         \* the length of a captured frame
          MaxQueuedFrames,  \* max_queued_frames
          MaxFillers        \* MAX_PER_TURN, and the thresholds of _fill()

ASSUME MicrophoneAssumption ==
  MicFrame \in Lengths /\ MaxQueuedFrames \in Nat \ {0} /\ MaxFillers \in Nat \ {0}

VARIABLES caller,    \* who calls the pipeline
          mic,       \* the microphone, and the frame its thread handed over
          loop,      \* where run() is, inside next_turn() or speak()
          filler,    \* _thinking
          sounding   \* what the loudspeaker plays; a "stray" is a filler nobody awaits

voice == <<mic, loop, filler, sounding>>
allVars == <<vars, caller, voice>>

Agent == {"reply", "filler", "stray"}
Voices == {"buyer", "nobody"} \cup Agent

NoFiller == [at |-> "none", left |-> 0]
-----------------------------------------------------------------------------
(***************************************************************************)
(* The microphone                                                          *)
(***************************************************************************)
Pause(m) == [m EXCEPT !.paused = "yes"]

Resume(m) == [m EXCEPT !.paused = "no", !.queue = <<>>]

\* _on_audio(), on the device's thread
Capture ==
  /\ caller = "listener" /\ mic.device = "open" /\ mic.paused = "no" /\ mic.handed = <<>>
  /\ \E source \in {"buyer", "nobody"} \cup sounding : mic' = [mic EXCEPT !.handed = <<source>>]
  /\ UNCHANGED <<vars, caller, loop, filler, sounding>>

\* _offer(), on the loop, whenever it gets round to it
Offer ==
  /\ mic.handed # <<>>
  /\ LET kept == IF Len(mic.queue) = MaxQueuedFrames THEN Tail(mic.queue) ELSE mic.queue
     IN  mic' = [mic EXCEPT !.queue = kept \o mic.handed, !.handed = <<>>]
  /\ UNCHANGED <<vars, caller, loop, filler, sounding>>

\* start(), from the first frames(); a device that cannot be opened ends the program.
StartMicrophone ==
  /\ loop = "starting"
  /\ \/ mic' = [mic EXCEPT !.device = "open"] /\ loop' = "waiting"
     \/ UNCHANGED mic /\ loop' = "over"
  /\ UNCHANGED <<vars, caller, filler, sounding>>

\* stop(), from another task, which is how a conversation is to be ended
StopMicrophone ==
  /\ mic.device = "open"
  /\ mic' = [mic EXCEPT !.device = "closed", !.queue = <<>>]
  /\ UNCHANGED <<vars, caller, loop, filler, sounding>>

\* frames() opens the device, and looks whether it is open before it waits for a frame.
Waits == CASE mic.device = "unopened" -> "starting"
           [] mic.device = "open"     -> "waiting"
           [] mic.device = "closed"   -> "over"

FramesEnd ==
  /\ loop = "waiting" /\ mic.device = "closed" /\ mic.queue = <<>> /\ loop' = "over"
  /\ UNCHANGED <<vars, caller, mic, filler, sounding>>
-----------------------------------------------------------------------------
(***************************************************************************)
(* Listener                                                                *)
(***************************************************************************)
VoiceInit ==
  /\ mic = [device |-> "unopened", paused |-> "no", queue |-> <<>>, handed |-> <<>>]
  /\ loop = IF caller = "listener" THEN "heard" ELSE "over"
  /\ filler = NoFiller
  /\ sounding = {}

\* The detector takes the agent's voice for speech like any other.
Activities(source) == IF source = "nobody" THEN {"silence"} ELSE {"speech", "failed"}

\* next_turn() pushes a frame; start_thinking() begins where the transcription does.
Receive ==
  /\ loop = "waiting" /\ mic.queue # <<>>
  /\ \E activity \in Activities(Head(mic.queue)) : Push(FrameOf(MicFrame, activity))
  /\ mic' = [mic EXCEPT !.queue = Tail(@)]
  /\ loop' = CASE job'.at = "idle"         -> Waits
               [] job'.at = "answered"     -> "skipped"
               [] job'.at = "transcribing" -> "pushing"
  /\ filler' = IF job'.at = "transcribing"
               THEN [at |-> "sleeping", left |-> MaxFillers] ELSE filler
  /\ UNCHANGED <<caller, sounding>>

\* _fill() wakes and says something.
FillerSpeaks ==
  /\ filler.at = "sleeping" /\ loop = "pushing"
  /\ filler' = [filler EXCEPT !.at = "saying", !.left = @ - 1]
  /\ mic' = Pause(mic)
  /\ sounding' = sounding \cup {"filler"}
  /\ UNCHANGED <<vars, caller, loop>>

\* It has said it, or could not, which ends it.
FillerSaid ==
  /\ filler.at = "saying"
  /\ filler' \in {IF filler.left > 0 THEN [filler EXCEPT !.at = "sleeping"] ELSE NoFiller, NoFiller}
  /\ mic' = Resume(mic)
  /\ sounding' = sounding \ {"filler"}
  /\ UNCHANGED <<vars, caller, loop>>

\* push() returns, and _stop_thinking() cancels the filler.
TranscriptArrives ==
  /\ loop = "pushing"
  /\ TranscriptionEnds
  /\ loop' \in {"heard", "skipped"}
  /\ filler' = IF filler.at = "saying" THEN [filler EXCEPT !.at = "canceling"] ELSE NoFiller
  /\ UNCHANGED <<caller, mic, sounding>>

\* The cancelled filler runs its finally; what it was saying is shielded and goes on.
FillerCanceled ==
  /\ filler.at = "canceling"
  /\ filler' = NoFiller
  /\ mic' = Resume(mic)
  /\ sounding' = (sounding \ {"filler"}) \cup {"stray"}
  /\ UNCHANGED <<vars, caller, loop>>

StrayEnds ==
  /\ "stray" \in sounding /\ sounding' = sounding \ {"stray"}
  /\ UNCHANGED <<vars, caller, mic, loop, filler>>

\* mutant: a filler is cancelled and not waited for
StoppedAtOnce == TRUE
\* _stop_thinking() gathers the task.
StoppedThinking == filler.at = "none"

Skips ==
  /\ loop = "skipped" /\ StoppedThinking
  /\ SaysNothing /\ loop' = Waits
  /\ UNCHANGED <<caller, mic, filler, sounding>>

\* run() has nothing more to say, or no voice to say it with.
StaysSilent ==
  /\ loop = "heard" /\ StoppedThinking
  /\ SaysNothing /\ loop' = Waits
  /\ UNCHANGED <<caller, mic, filler, sounding>>

\* speak(): the opener, or the reply
Speaks ==
  /\ loop = "heard" /\ StoppedThinking
  /\ AgentStarts /\ loop' = "speaking"
  /\ mic' = Pause(mic)
  /\ sounding' = sounding \cup {"reply"}
  /\ UNCHANGED <<caller, filler>>

\* It was said, or could not be, or the player raised, which ends the program.
ReplyEnds ==
  /\ loop = "speaking"
  /\ AgentStops
  /\ mic' = Resume(mic)
  /\ loop' \in {Waits, "over"}
  /\ sounding' = sounding \ {"reply"}
  /\ UNCHANGED <<caller, filler>>

DetectsLanguage == DetectionEnds /\ UNCHANGED <<caller, voice>>

\* run() returns.
Returned == caller = "listener" /\ loop = "over" /\ UNCHANGED allVars

\* On a socket there is SpeechTurns alone.
OnSocket(A) == caller = "socket" /\ A /\ UNCHANGED <<caller, voice>>
-----------------------------------------------------------------------------
AllInit == Init /\ caller \in {"socket", "listener"} /\ VoiceInit
           /\ (caller = "listener" => transcriber # "none")

AllNext ==
  \/ OnSocket(Next)
  \/ caller = "listener" /\ DetectsLanguage
  \/ Capture \/ Offer \/ StartMicrophone \/ StopMicrophone \/ FramesEnd
  \/ Receive \/ FillerSpeaks \/ FillerSaid \/ TranscriptArrives \/ FillerCanceled
  \/ StrayEnds \/ Skips \/ StaysSilent \/ Speaks \/ ReplyEnds \/ Returned

AllSpec == AllInit /\ [][AllNext]_allVars

\* A microphone sends frames of silence too, a transcription has a deadline, a
\* sentence an end, and the loop runs what is ready.
FairSpec ==
  /\ AllSpec
  /\ WF_allVars(OnSocket(PushAny)) /\ WF_allVars(OnSocket(TranscriptionEnds))
  /\ WF_allVars(OnSocket(AgentStarts \/ SaysNothing))
  /\ WF_allVars(Capture) /\ WF_allVars(Offer) /\ WF_allVars(Receive)
  /\ WF_allVars(StartMicrophone) /\ WF_allVars(FramesEnd)
  /\ WF_allVars(TranscriptArrives) /\ WF_allVars(FillerCanceled)
  /\ WF_allVars(Skips) /\ WF_allVars(StaysSilent \/ Speaks) /\ WF_allVars(ReplyEnds)
-----------------------------------------------------------------------------
(***************************************************************************)
(* In half duplex the agent does not hear itself: no frame of a reply, or  *)
(* of a filler that is being awaited, reaches the loop, whenever the       *)
(* transcript cuts in on the filler (microphone.py:150-157).  It does hear *)
(* a stray, a filler that was cancelled while it was said.                 *)
(***************************************************************************)
OnlyStraysHeard ==
  {"reply", "filler"} \cap (ToSet(mic.queue) \cup ToSet(mic.handed)) = {}

(***************************************************************************)
(* A loop that waits for the buyer has a microphone that hears: however a  *)
(* filler or a reply ended, no pause is left over (talk.py, speak(): it    *)
(* "would end the conversation silently").                                 *)
(***************************************************************************)
ListensUnpaused == loop = "waiting" => mic.paused = "no"

(***************************************************************************)
(* Half duplex, both ways: deaf while it speaks, and only then.            *)
(***************************************************************************)
HalfDuplex == OnlyStraysHeard /\ ListensUnpaused

(***************************************************************************)
(* talk.py:451: _stop_thinking() is "waiting for any half-spoken filler to *)
(* finish first".  It does not: the shield's wait ends when it is          *)
(* cancelled (README, known deviations).                                   *)
(***************************************************************************)
FillersFinish == "stray" \notin sounding

(***************************************************************************)
(* The floor changes hands: neither a buyer who never falls silent nor a   *)
(* report of playback that is lost keeps it for ever, whoever calls.       *)
(***************************************************************************)
FloorsEnd ==
  \A holder \in {"listening", "agent-speaking"} :
    machine.state = holder ~> (machine.state # holder \/ (caller = "listener" /\ loop = "over"))
=============================================================================
