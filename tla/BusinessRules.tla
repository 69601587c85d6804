--------------------------- MODULE BusinessRules ---------------------------
(***************************************************************************)
(* What the business half of conversation/rules.py, domain/catalog.py,     *)
(* conversation/language.py and conversation/model_trust.py read in a      *)
(* buyer's words: the facts a turn states, the evidence it gives of        *)
(* interest, the buyer's stance, and the language it is spoken in.         *)
(*                                                                         *)
(* Texts are those of SafetyRules, with But for a word that ends a clause  *)
(* here and not there.  Every table holds one or two of its phrases.       *)
(***************************************************************************)
EXTENDS Integers, SafetyRules

But == "but"

\* _contains_any: one of the phrases is in the words.
Says(words, phrases) ==
  \E phrase \in phrases : \E i \in 0..(Len(words) - Len(phrase)) :
    SubSeq(words, i + 1, i + Len(phrase)) = phrase

(***************************************************************************)
(* The catalogue, and the cues that qualify a clause.                      *)
(***************************************************************************)
BusinessTypes == [apparel |-> {<<"clothes">>}, books |-> {<<"books">>}]
BusinessOrder == <<"apparel", "books">>
Features == [catalog |-> {<<"catalogue">>}, payments |-> {<<"payment">>}]

BudgetWords == {<<"budget">>}
BudgetIntentCues == {<<"can", "spend">>}
CurrencyMarkers == {<<"rs">>}
Hedges == {"around"}
Scales == {"lakh"}
WordNumbers == {"five"}
Digits == {"150000", "3"}
Copulas == {"is"}

PresentStateCues == {<<"currently">>}
PastStateCues == {<<"used", "to">>}
RefusalCues == {<<"do", "not", "want">>, <<"no", "budget">>, <<"not", "interested">>}
ThirdPartyCues == {<<"competitor">>}
RequestCues == {<<"want">>}

PositiveEvidence ==
  [budget |-> BudgetWords \cup BudgetIntentCues \cup {<<"rupees">>},
   timeline |-> {<<"this", "month">>, <<"month">>, <<"months">>},
   decision |-> {<<"lets", "start">>},
   nextstep |-> {<<"demo">>}]
NegativeEvidence ==
  [rejection |-> {<<"not", "interested">>}, noneed |-> {<<"no", "website">>}]

\* INTENT_PHRASES, INTENT_PRIORITY.
IntentPhrases ==
  [ready |-> {<<"lets", "start">>}, objecting |-> {<<"expensive">>},
   comparing |-> {<<"other", "quotes">>}, stalling |-> {<<"later">>},
   social |-> {<<"who", "else">>}, steps |-> {<<"what", "next">>}]
IntentPriority == <<"ready", "objecting", "comparing", "stalling", "social", "steps">>

None == "none"

\* The first of the names whose phrases the words hold.
FirstSaid(words, names, phrases) ==
  LET at == {i \in 1..Len(names) : Says(words, phrases[names[i]])}
  IN IF at = {} THEN None
     ELSE names[CHOOSE i \in at : \A j \in at : i =< j]

\* detect_intent.
DetectIntent(text) == FirstSaid(Normal(text), IntentPriority, IntentPhrases)

(***************************************************************************)
(* Clauses.  Here they end at a but as well.                               *)
(***************************************************************************)
BusinessClauses(text) ==
  {Normal(clause) : clause \in
     Clauses([i \in 1..Len(text) |-> IF text[i] = But THEN Barrier ELSE text[i]])}

\* _requesting_clauses.
RequestingClauses(text) ==
  {clause \in BusinessClauses(text) :
     /\ ~Says(clause, RefusalCues)
     /\ ~Says(clause, ThirdPartyCues)
     /\ Says(clause, PresentStateCues \cup PastStateCues) => Says(clause, RequestCues)}

CommittingClausesOpen(text) ==          \* mutant: a refusal is read as what it refuses
  {clause \in BusinessClauses(text) : ~Says(clause, ThirdPartyCues \cup PastStateCues)}

\* _committing_clauses: no request rescues a clause about the past.
CommittingClauses(text) ==
  {clause \in BusinessClauses(text) :
     ~Says(clause, RefusalCues \cup ThirdPartyCues \cup PastStateCues)}

(***************************************************************************)
(* Facts.  A budget keeps the words it was stated in, cue and hedge and    *)
(* all; both it and the timeline are read across clauses.                  *)
(***************************************************************************)
\* _BUDGET_PATTERN at words[i..j].
BudgetAt(words, i, j) ==
  \E cue \in BudgetWords \cup BudgetIntentCues \cup CurrencyMarkers :
    LET a == i + Len(cue)
        b == IF a =< Len(words) /\ words[a] \in Copulas THEN a + 1 ELSE a
        c == IF b =< Len(words) /\ words[b] \in Hedges THEN b + 1 ELSE b
    IN /\ c =< j
       /\ SubSeq(words, i, a - 1) = cue
       /\ \/ words[c] \in Digits /\ j = IF c < Len(words) /\ words[c + 1] \in Scales
                                        THEN c + 1 ELSE c
          \/ words[c] \in WordNumbers /\ j = c + 1 /\ words[j] \in Scales

FirstOf(words, found) ==
  IF found = {} THEN <<>>
  ELSE LET first == CHOOSE s \in found : \A t \in found : s[1] =< t[1]
       IN SubSeq(words, first[1], first[2])

BudgetStated(words) ==
  FirstOf(words, {s \in (1..Len(words)) \X (1..Len(words)) : BudgetAt(words, s[1], s[2])})

\* _match_timeline, or the near term.
TimelineStated(words) ==
  IF \E i \in 1..(Len(words) - 1) : words[i] = "3" /\ words[i + 1] = "months"
  THEN <<"3", "months">>
  ELSE IF Says(words, {<<"this", "month">>}) THEN <<"near-term">> ELSE <<>>

Slots == {"business_type", "requested_features", "budget_stated", "timeline"}

\* What the turn states of every slot, <<>> where nothing.
Candidates(text) ==
  LET words == Normal(text)
      business == FirstSaid(words, BusinessOrder, BusinessTypes)
      features == {name \in DOMAIN Features :
                     \E clause \in RequestingClauses(text) : Says(clause, Features[name])}
  IN [business_type |-> IF business = None THEN <<>> ELSE <<business>>,
      requested_features |-> IF features = {} THEN <<>> ELSE <<features>>,
      budget_stated |-> BudgetStated(words),
      timeline |-> TimelineStated(words)]

(***************************************************************************)
(* Evidence.  A commitment is read clause by clause, a refusal in the      *)
(* whole turn; a requirement only when its fact is new.                    *)
(***************************************************************************)
Evidence(text, requirementRecorded) ==
  (IF requirementRecorded THEN {"requirement"} ELSE {})
  \cup {dimension \in DOMAIN PositiveEvidence :
          \E clause \in CommittingClauses(text) : Says(clause, PositiveEvidence[dimension])}
  \cup {dimension \in DOMAIN NegativeEvidence :
          Says(Normal(text), NegativeEvidence[dimension])}

\* _REQUIREMENT_WEIGHT, _POSITIVE_EVIDENCE, _NEGATIVE_EVIDENCE, in hundredths.
Weight == [requirement |-> 15, budget |-> 25, timeline |-> 25, decision |-> 30,
           nextstep |-> 20, rejection |-> -70, noneed |-> -50]

(***************************************************************************)
(* The language of a turn.                                                 *)
(***************************************************************************)
Languages == {"en", "hi", "te", "mixed"}
LanguageNames == [en |-> {"english"}, hi |-> {"hindi"}, te |-> {"telugu"}, mixed |-> {"hinglish"}]
SpeechCues == {"speak"}
Romanised == [mixed |-> {"kya", "hai"}, te |-> {"meeru", "kavali"}]
MinRomanisedMarkers == 2

DevanagariWords == {"dukan-in-devanagari"}
TeluguWords == {"dukanam-in-telugu"}
ScriptOf(word) ==
  CASE word \in DevanagariWords -> "hi"
    [] word \in TeluguWords -> "te"
    [] word \in Digits \cup {Barrier, Joint} -> None
    [] OTHER -> "latin"

\* dominant_script; the script met first wins a tie.
DominantScript(text) ==
  LET written == {i \in 1..Len(text) : ScriptOf(text[i]) # None}
      inScript(s) == {i \in written : ScriptOf(text[i]) = s}
      share(i) == Cardinality(inScript(ScriptOf(text[i])))
      most == {i \in written : \A j \in written : share(j) =< share(i)}
  IN IF written = {} THEN None
     ELSE ScriptOf(text[CHOOSE i \in most : \A j \in most : i =< j])

\* _requested_language: exactly one language is named.
RequestedLanguage(text) ==
  LET named == {l \in Languages : LanguageNames[l] \cap WordsOf(text) # {}}
  IN IF SpeechCues \cap WordsOf(text) # {} /\ Cardinality(named) = 1
     THEN CHOOSE l \in Languages : named = {l}
     ELSE None

\* _romanised_language: enough markers, and more than of any other language.
RomanisedLanguage(text) ==
  LET score == [l \in DOMAIN Romanised |-> Cardinality(Romanised[l] \cap WordsOf(text))]
      best == {l \in DOMAIN Romanised : \A m \in DOMAIN Romanised : score[m] =< score[l]}
  IN IF Cardinality(best) = 1 /\ \A l \in best : score[l] >= MinRomanisedMarkers
     THEN CHOOSE l \in DOMAIN Romanised : best = {l}
     ELSE None

\* detect_language, where the text itself shows its language.
ReadLanguage(text) ==
  LET requested == RequestedLanguage(text)
      script == DominantScript(text)
      romanised == RomanisedLanguage(text)
      read(language) == [language |-> language, request |-> FALSE]
  IN CASE requested # None -> [language |-> requested, request |-> TRUE]
       [] requested = None /\ script = "latin" ->
            read(IF romanised # None THEN romanised ELSE "en")
       [] OTHER -> read(script)

\* detect_language: the transcriber's label serves a text that shows none.
DetectLanguage(shown, transcribed) ==
  IF shown.language = None THEN [shown EXCEPT !.language = transcribed] ELSE shown

(***************************************************************************)
(* What may be believed of a model's reading of a turn.                    *)
(***************************************************************************)
TrustedLanguages == {"en", "hi", "mixed"}
Markers == [business_type |-> {"sell"}, requested_features |-> {"catalogue"},
            budget_stated |-> {"budget", "spend"}, timeline |-> {"months"}]

\* accept_slots.
AcceptSlots(text, language, claimed) ==
  {slot \in Slots : /\ language \in TrustedLanguages
                    /\ slot \in claimed
                    /\ Markers[slot] \cap WordsOf(text) # {}}
=============================================================================
