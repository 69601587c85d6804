---------------------------- MODULE Conversation ----------------------------
(***************************************************************************)
(* conversation/engine.py: one conversation, turn by turn.  A turn decides *)
(* its language, is judged for safety, states facts and gives evidence,    *)
(* is answered from a plan, and classifies the lead.  The engine can be    *)
(* rebuilt from its checkpoint between turns, as a restart or another      *)
(* worker does.                                                            *)
(*                                                                         *)
(* live is the engine that is rebuilt; twin is given the same turns and    *)
(* never rebuilt.  spoken and cause are the observer's own account of the  *)
(* languages heard, said counts the sentences of live since it was built,  *)
(* and saying is the one text a buyer who dictates word by word repeats.   *)
(***************************************************************************)
EXTENDS BusinessRules, Functions

CONSTANTS Texts,          \* what the buyer says, whole
          Alphabet,       \* the words a text is dictated from
          MaxWords,       \* bound: words of a dictated text
          Declared,       \* languages a caller opens with, or moves a call to
          Labels,         \* languages a transcriber reports, None for a typed turn
          Claims,         \* slots a model claims the turn fills, None for no model
          MaxTurns, MaxFacts, MaxGoalChanges,
          MaxRestarts     \* bound: rebuilds of live

ASSUME CapacitiesPositive == {MaxTurns, MaxFacts, MaxGoalChanges} \subseteq Nat \ {0}
ASSUME BudgetsNatural == {MaxWords, MaxRestarts} \subseteq Nat

VARIABLES live, twin, spoken, cause, said, saying, restarts

conversationVars == <<live, twin, spoken, cause, said, saying, restarts>>

SwitchAfter == 2
MaxAsks == 2
AskOrder == <<"business_type", "requested_features", "budget_stated", "timeline">>

(***************************************************************************)
(* ConversationState.  Evidence is deduplicated by dimension and the       *)
(* recent turns are fewer than their deque holds, so both are sets; tilt   *)
(* is the last bit of the score where it decides.                          *)
(***************************************************************************)
Fresh ==
  [phase |-> "discovery", turns |-> 0, redirected |-> FALSE, stopped |-> FALSE,
   recent |-> {}, facts |-> [slot \in {} |-> <<>>], evidence |-> {}, changes |-> 0,
   temperature |-> None, tilt |-> None,
   language |-> None, declared |-> None, pending |-> None, count |-> 0,
   asked |-> [slot \in Slots |-> 0], closings |-> 0, understood |-> {}]

Transient == {"asked", "closings", "understood"}
Durable(c) == [field \in DOMAIN c \ Transient |-> c[field]]

\* export_checkpoint and _state_from_checkpoint.
RestoredBare(c) ==     \* mutant: a checkpoint of schema "1", without the language fields
  [field \in DOMAIN c |->
     IF field \in Transient \cup {"language", "declared", "pending", "count"}
     THEN Fresh[field] ELSE c[field]]
Restored(c) ==
  [field \in DOMAIN c |-> IF field \in Transient THEN Fresh[field] ELSE c[field]]

\* ConversationStateCheckpoint.validate_checkpoint.
Acceptable(c) ==
  /\ c.turns =< MaxTurns
  /\ Cardinality(c.recent) =< MaxTurns
  /\ Cardinality(DOMAIN c.facts) =< MaxFacts
  /\ c.stopped <=> c.phase = "closed"
  /\ c.pending = None <=> c.count = 0

(***************************************************************************)
(* The language of the turn.                                               *)
(***************************************************************************)
\* decide_language.
DecideSticky(c, reading) ==   \* mutant: a turn in the current language forgets no vote
  LET heard == reading.language
      votes == IF c.pending = heard THEN c.count + 1 ELSE 1
  IN CASE heard \in {None, c.language} -> c
       [] heard \notin {None, c.language} /\ (reading.request \/ votes >= SwitchAfter) ->
            [c EXCEPT !.language = heard, !.pending = None, !.count = 0]
       [] OTHER -> [c EXCEPT !.pending = heard, !.count = votes]

Decide(c, reading) ==
  LET heard == reading.language
      votes == IF c.pending = heard THEN c.count + 1 ELSE 1
  IN CASE heard = None -> c
       [] heard # None /\ heard = c.language -> [c EXCEPT !.pending = None, !.count = 0]
       [] heard \notin {None, c.language} /\ (reading.request \/ votes >= SwitchAfter) ->
            [c EXCEPT !.language = heard, !.pending = None, !.count = 0]
       [] OTHER -> [c EXCEPT !.pending = heard, !.count = votes]

Redeclares(c, turn) == c.declared # None /\ turn.declared # c.declared

\* _resolve_language: the opening language is a default, a later one an order.
Resolve(c, turn, reading) ==
  LET told == [c EXCEPT !.declared = turn.declared, !.language = turn.declared]
  IN IF Redeclares(c, turn) THEN [told EXCEPT !.pending = None, !.count = 0]
     ELSE Decide(IF c.declared = None THEN told ELSE c, reading)

(***************************************************************************)
(* What the lead is worth.  The score is a sum of floats in the order the  *)
(* evidence came: on the thresholds below it, rounding decides.            *)
(***************************************************************************)
Score(c) == 35 + SumFunctionOnSet(Weight, c.evidence)

RoundingDecides(evidence) ==
  \E cue \in {"budget", "timeline"} :
    evidence \ {"decision"} = {"requirement", cue, "nextstep", "noneed"}

Reaches(c, line) == Score(c) > line \/ (Score(c) = line /\ c.tilt # "down")

\* _classify.
Temperature(c) ==
  CASE c.evidence = {} -> "review"
    [] Reaches(c, 75) /\ Cardinality(c.evidence) >= 2 -> "hot"
    [] Reaches(c, 45) /\ ~(Reaches(c, 75) /\ Cardinality(c.evidence) >= 2) -> "warm"
    [] OTHER -> "cold"
Classify(c) == [c EXCEPT !.temperature = Temperature(c)]

\* _phase_for.
PhaseFor(temperature) ==
  CASE temperature = "hot" -> "next-step"
    [] temperature = "warm" -> "qualification"
    [] OTHER -> "discovery"

(***************************************************************************)
(* What a text says, read once.                                            *)
(***************************************************************************)
Read(text) ==
  [normal |-> Normal(text), signals |-> SafetySignals(text), candidates |-> Candidates(text),
   evidence |-> Evidence(text, FALSE), intent |-> DetectIntent(text),
   shown |-> ReadLanguage(text)]

Utterance(text) == [text |-> text, heard |-> Read(text)]
Utterances == {Utterance(text) : text \in Texts}

(***************************************************************************)
(* The turn, as what it makes of the state.                                *)
(***************************************************************************)
Begun(c, turn, heard) ==
  LET reading == DetectLanguage(heard.shown, turn.transcribed)
  IN [Resolve(c, turn, reading) EXCEPT !.turns = @ + 1, !.recent = @ \cup {heard.normal}]

OptedOut(c) == [c EXCEPT !.stopped = TRUE, !.phase = "closed", !.temperature = "cold"]

Abused(c) ==
  Classify(IF c.redirected THEN [c EXCEPT !.stopped = TRUE, !.phase = "closed"]
           ELSE [c EXCEPT !.redirected = TRUE])

\* extract_business_signals: the facts that are new, or differ from those recorded.
News(c, heard) ==
  {slot \in Slots :
     /\ heard.candidates[slot] # <<>>
     /\ slot \in DOMAIN c.facts => c.facts[slot] # heard.candidates[slot]}

\* The facts a full table still takes: slots it has, then as many as fit.
Accepted(c, news) ==
  LET fresh == {i \in 1..Len(AskOrder) : AskOrder[i] \in news \ DOMAIN c.facts}
      room == MaxFacts - Cardinality(DOMAIN c.facts)
  IN (news \cap DOMAIN c.facts)
     \cup {AskOrder[i] : i \in {j \in fresh : Cardinality({k \in fresh : k < j}) < room}}

Extracted(c, heard, tilt) ==
  LET news == News(c, heard)
      taken == Accepted(c, news)
      found == heard.evidence \cup (IF "requested_features" \in news THEN {"requirement"} ELSE {})
      evidence == c.evidence \cup found
  IN [c EXCEPT
        !.facts = [slot \in DOMAIN @ \cup taken |->
                     IF slot \in taken THEN heard.candidates[slot] ELSE @[slot]],
        !.changes = @ + Cardinality(taken \cap DOMAIN c.facts),
        !.evidence = evidence,
        !.tilt = IF evidence = c.evidence THEN @
                 ELSE IF RoundingDecides(evidence) THEN tilt ELSE None]

\* accept_slots, as understand calls it: in the language the caller declared.
Understood(turn) == AcceptSlots(turn.said.text, turn.declared, {turn.claimed})

\* plan_reply: the first slot that is missing and was not asked for twice.
AskedForever(c, known) ==     \* mutant: a slot is asked for as long as it is missing
  LET open == {i \in 1..Len(AskOrder) : AskOrder[i] \notin known}
  IN IF open = {} THEN None ELSE AskOrder[CHOOSE i \in open : \A j \in open : i =< j]

Asked(c, known) ==
  LET open == {i \in 1..Len(AskOrder) :
                 AskOrder[i] \notin known /\ c.asked[AskOrder[i]] < MaxAsks}
  IN IF open = {} THEN None ELSE AskOrder[CHOOSE i \in open : \A j \in open : i =< j]

\* What the turn asks for: nothing of a buyer who is ready.
Ask(c, turn, heard) ==
  IF heard.intent = "ready" THEN None
  ELSE Asked(c, DOMAIN c.facts \cup c.understood \cup Understood(turn))

\* render_reply: the sentence that asks or closes.
Sentence(c, ask, intent) ==
  CASE ask # None -> <<IF c.asked[ask] = 0 THEN "ask" ELSE "ask_again", ask>>
    [] ask = None /\ intent = "ready" -> <<"confirm", None>>
    [] OTHER -> <<CASE c.closings = 0 -> "closing"
                    [] c.closings = 1 -> "closing_again"
                    [] OTHER -> "closing_final", None>>

ReviewsGoals(c) == c.changes >= MaxGoalChanges

\* The counts that only a reply that was sent may raise.
Replied(c, turn, heard) ==
  LET ask == Ask(c, turn, heard)
  IN IF ask # None THEN [c EXCEPT !.asked[ask] = @ + 1]
     ELSE IF heard.intent = "ready" THEN c ELSE [c EXCEPT !.closings = @ + 1]

\* The turn up to its reply: what it leaves the planner to read.
Prepared(c, turn, heard, tilt) ==
  LET begun == Begun(c, turn, heard)
      told == IF heard.normal \in c.recent THEN begun ELSE Extracted(begun, heard, tilt)
  IN IF ReviewsGoals(told) THEN told
     ELSE [told EXCEPT !.understood = @ \cup Understood(turn)]

Answered(told, turn, heard) ==
  IF ReviewsGoals(told) THEN told ELSE Replied(told, turn, heard)

Concluded(answered) == [Classify(answered) EXCEPT !.phase = PhaseFor(Temperature(answered))]

Discussed(c, turn, heard, tilt) ==
  Concluded(Answered(Prepared(c, turn, heard, tilt), turn, heard))

\* process_turn.
After(c, turn, heard, tilt) ==
  LET begun == Begun(c, turn, heard)
  IN CASE "opt-out" \in heard.signals -> OptedOut(begun)
       [] heard.signals \cap {"opt-out", "abuse"} = {"abuse"} -> Abused(begun)
       [] heard.signals # {} /\ heard.signals \cap {"opt-out", "abuse"} = {} -> Classify(begun)
       [] OTHER -> Discussed(c, turn, heard, tilt)

(***************************************************************************)
(* The steps.                                                              *)
(***************************************************************************)
Unsaid == [sentence \in {} |-> 0]

ConversationInit ==
  /\ live = Fresh /\ twin = Fresh
  /\ spoken = None /\ cause = None
  /\ said = Unsaid
  /\ saying = <<>>
  /\ restarts = 0

\* The buyer's text grows by a word before anything is said.
Dictate(word) ==
  /\ live.turns = 0
  /\ Len(saying) < MaxWords
  /\ saying' = Append(saying, word)
  /\ UNCHANGED <<live, twin, spoken, cause, said, restarts>>

Voiced(turn, heard, tilt) ==
  LET told == Prepared(live, turn, heard, tilt)
      sentence == Sentence(told, Ask(told, turn, heard), heard.intent)
  IN IF heard.signals = {} /\ ~ReviewsGoals(told)
     THEN [s \in DOMAIN said \cup {sentence} |->
             (IF s \in DOMAIN said THEN said[s] ELSE 0) + (IF s = sentence THEN 1 ELSE 0)]
     ELSE said

\* Why the language may change on this turn, by the languages heard alone.
Observe(turn, reading) ==
  /\ cause' = CASE Redeclares(live, turn) -> "declared"
                [] ~Redeclares(live, turn) /\ reading.request -> "requested"
                [] OTHER -> IF live.declared = None THEN "declared"
                            ELSE IF reading.language = spoken THEN "again" ELSE None
  /\ spoken' = CASE Redeclares(live, turn) -> None
                 [] ~Redeclares(live, turn) /\ reading.language # None -> reading.language
                 [] OTHER -> spoken

Turn(turn, tilt) ==
  LET heard == turn.said.heard IN
  /\ live.turns < MaxTurns
  /\ ~live.stopped
  /\ live' = After(live, turn, heard, tilt)
  /\ twin' = After(twin, turn, heard, tilt)
  /\ said' = Voiced(turn, heard, tilt)
  /\ Observe(turn, DetectLanguage(heard.shown, turn.transcribed))
  /\ UNCHANGED <<saying, restarts>>

\* A new process restores the checkpoint, if it accepts it.
Restart ==
  /\ restarts < MaxRestarts
  /\ live.turns > 0
  /\ Acceptable(live)
  /\ live' = Restored(live)
  /\ said' = Unsaid
  /\ restarts' = restarts + 1
  /\ UNCHANGED <<twin, spoken, cause, saying>>

Turns ==
  IF saying = <<>>
  THEN [said : Utterances, declared : Declared, transcribed : Labels, claimed : Claims]
  ELSE [said : {Utterance(saying)}, declared : {"en"}, transcribed : {None}, claimed : {None}]

ConversationNext ==
  \/ \E word \in Alphabet : Dictate(word)
  \/ \E turn \in Turns, tilt \in {"up", "down"} : Turn(turn, tilt)
  \/ Restart

ConversationSpec == ConversationInit /\ [][ConversationNext]_conversationVars

(***************************************************************************)
(* Properties.                                                             *)
(***************************************************************************)
\* The languages there are, and what callers and transcribers may call one.
Spoken == Languages \cup Declared \cup Labels \cup {None}

\* Every field of both conversations keeps its type: no vote is pending that would be
\* enough to switch, and no slot was asked for more often than it may be.
Typed(c) ==
  /\ DOMAIN c = DOMAIN Fresh
  /\ c.phase \in {"discovery", "qualification", "next-step", "closed"}
  /\ c.turns \in 0..MaxTurns
  /\ {c.redirected, c.stopped} \subseteq BOOLEAN
  /\ DOMAIN c.facts \subseteq Slots /\ c.understood \subseteq Slots
  /\ c.evidence \subseteq DOMAIN Weight
  /\ c.changes \in Nat /\ c.closings \in Nat
  /\ c.temperature \in {None, "review", "cold", "warm", "hot"}
  /\ c.tilt \in {None, "up", "down"}
  /\ {c.language, c.declared, c.pending} \subseteq Spoken
  /\ c.count \in 0..(SwitchAfter - 1)
  /\ c.asked \in [Slots -> 0..MaxAsks]

ConversationTypeOK ==
  /\ Typed(live) /\ Typed(twin)
  /\ spoken \in Spoken /\ cause \in {None, "declared", "requested", "again"}
  /\ \A sentence \in DOMAIN said : said[sentence] \in Nat \ {0}
  /\ saying \in Seq(Alphabet) /\ Len(saying) =< MaxWords
  /\ restarts \in 0..MaxRestarts

\* Every state the engine reaches is one validate_checkpoint accepts, so a
\* conversation can be restored whatever was said in it.
CheckpointAccepted == Acceptable(live) /\ Acceptable(twin)

\* A conversation rebuilt from its checkpoint goes on as if it had not been: what
\* is forgotten on the way, the questions asked and what a model understood,
\* changes no fact, no evidence, no classification and no language.
RestoredAgrees == Durable(live) = Durable(twin)

\* A checkpoint can be taken at any time and stands for the conversation.
Restorable == CheckpointAccepted /\ RestoredAgrees

\* The language changes only because the caller moved the call, the buyer asked,
\* or the new language was heard on two turns with no other heard between them;
\* and a buyer who asks is answered in that language at once.
SwitchesAreMeant ==
  [][/\ live'.language # live.language => cause' # None
     /\ cause' = "requested" => live'.language = spoken']_conversationVars

\* A safety phrase or template is heard in a text exactly when it is heard in one
\* of its clauses, unless the text is broken into fragments.
ClauseBound ==
  live.turns = 0 /\ ~Obfuscated(Normal(saying)) =>
    \A kind \in {<<OptOutPhrases, OptOutTemplates>>, <<AbuseTerms, AbuseTemplates>>,
                 <<InternalInfoPhrases, InternalInfoTemplates>>} :
      Heard(Forms(saying), kind[1], kind[2])
        <=> \E clause \in Clauses(saying) : Heard(Forms(clause), kind[1], kind[2])

\* No question and no closing is put to the buyer twice in the same words, save the
\* last closing and the confirmation.
QuestionsRephrased ==
  \A sentence \in DOMAIN said :
    sentence[1] \notin {"closing_final", "confirm"} => said[sentence] = 1

\* What live was told that no safety rule answered.
Told ==
  {utterance \in (IF saying = <<>> THEN Utterances ELSE {Utterance(saying)}) :
     utterance.heard.normal \in live.recent /\ utterance.heard.signals = {}}

\* Some clause of the text, not a refusal and not about a third party, names money, a
\* date, a decision, a next step or a feature.
Wants(text) ==
  \E clause \in BusinessClauses(text) :
    /\ ~Says(clause, RefusalCues \cup ThirdPartyCues)
    /\ \/ \E d \in DOMAIN PositiveEvidence : Says(clause, PositiveEvidence[d])
       \/ \E f \in DOMAIN Features : Says(clause, Features[f])

WorthOf(told) ==
  LET silent == \A utterance \in told :
                  /\ utterance.heard.evidence = {}
                  /\ utterance.heard.candidates.requested_features = <<>>
  IN /\ live.temperature = "review" => silent
     /\ silent => live.temperature \in {"review", "cold"}
     /\ live.temperature \in {"warm", "hot"} => \E utterance \in told : Wants(utterance.text)

\* No two utterances have the same words and different readings.  A turn is taken for a
\* repetition by its words alone, and then nothing more is read in it.
ReadAlike ==
  \A u, v \in Utterances : u.heard.normal = v.heard.normal => u.heard = v.heard

\* The lead is worth what the buyer said: it waits for review exactly while nothing
\* was said for or against, it is warm or hot only if some clause wanted something,
\* and it is cold once the buyer opted out.
ClassifiedAsSaid ==
  live.turns > 0 =>
    /\ WorthOf(Told)
    /\ live.stopped /\ ~live.redirected => live.temperature = "cold"
=============================================================================
