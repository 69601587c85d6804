---------------------------- MODULE SafetyRules ----------------------------
(***************************************************************************)
(* What the safety half of conversation/rules.py reads in a buyer's words: *)
(* whole-phrase matches, templates of co-occurring groups of synonyms      *)
(* inside one clause, and the readings of a turn whose words were split.   *)
(*                                                                         *)
(* A text is a sequence of words, with Barrier for a run of punctuation    *)
(* and Joint for a zero-width character written inside a word.  Of every   *)
(* table of synonyms there are one or two words here: enough for every     *)
(* distinction the templates make, and every word that two tables share.   *)
(***************************************************************************)
EXTENDS Naturals, Sequences, FiniteSets

Barrier == "|"
Joint == "~"

TerminationVerbs == {"stop", "mat"}
Negators == {"not"}
InvitationMarkers == {"why"}
ContactNouns == {"call"}
MessageChannels == {"message"}
MessageRecipients == {"me", "mujhe"}
TimeQualifiers == {"before", "baad"}
RecurrenceMarkers == {"again"}
RemovalVerbs == {"remove", "hatao"}
SelfReference == {"me", "my", "mujhe"}
TimeDeferrals == {"later", "baad"}
ContactRecords == {"number", "list"}
CapabilityMarkers == {"let"}
OwnedContent == {"product"}
OptOutTriggers == TerminationVerbs \cup Negators

DisclosureVerbs == {"tell"}
InternalArtefacts == {"prompt", "prompts"}
InternalQualifiers == {"your", "system"}
Interrogatives == {"what"}
SecondPersonPossessive == {"your"}
GovernanceArtefacts == {"rules"}
ScopingPrepositions == {"on", "ke"}
ScopingPostpositions == {"ke"}

OverrideVerbs == {"forget", "bypass", "hatao"}
DirectiveNouns == {"rules", "prompt", "prompts"}
AntecedentMarkers == {"before", "everything"}
SecondPerson == {"you", "your"}
InsultAdjectives == {"useless"}
ReportedDirective == {"told"}

FirstPersonSubjects == {"i"}
FirstPersonPossessive == {"my"}
SelfReportingVerbs == {"said", "told"}

(***************************************************************************)
(* The templates.                                                          *)
(***************************************************************************)
TemplateWindow == 6

\* _IntentTemplate with its defaults.
Template(groups) ==
  [groups |-> groups, gaps |-> <<>>, ordered |-> FALSE, quotes |-> FALSE,
   before |-> {}, within |-> {}, adjacent |-> {}, after |-> {}]

OptOutTemplates ==
  {[Template(<<TerminationVerbs, ContactNouns, RecurrenceMarkers>>) EXCEPT
      !.gaps = <<2, 4>>, !.ordered = TRUE],
   [Template(<<Negators, ContactNouns, RecurrenceMarkers>>) EXCEPT
      !.gaps = <<2, 4>>, !.ordered = TRUE, !.before = InvitationMarkers],
   [Template(<<RemovalVerbs, SelfReference, ContactRecords>>) EXCEPT
      !.gaps = <<4, 4>>, !.before = CapabilityMarkers,
      !.within = OwnedContent \cup CapabilityMarkers],
   [Template(<<OptOutTriggers, MessageChannels, MessageRecipients>>) EXCEPT
      !.gaps = <<3, 2>>, !.before = InvitationMarkers, !.within = TimeQualifiers],
   [Template(<<OptOutTriggers, MessageChannels, RecurrenceMarkers>>) EXCEPT
      !.gaps = <<2, 4>>, !.before = InvitationMarkers, !.within = TimeQualifiers]}

Governed(groups) ==
  [Template(groups) EXCEPT !.adjacent = {3}, !.before = ScopingPostpositions,
                           !.after = ScopingPrepositions]

InternalInfoTemplates ==
  {Template(<<DisclosureVerbs, InternalQualifiers, InternalArtefacts>>),
   Template(<<Interrogatives, SecondPersonPossessive, InternalArtefacts>>),
   Governed(<<DisclosureVerbs, InternalQualifiers, GovernanceArtefacts>>),
   Governed(<<Interrogatives, SecondPersonPossessive, GovernanceArtefacts>>)}

AbuseTemplates ==
  {[Template(<<SecondPerson, InsultAdjectives>>) EXCEPT !.ordered = TRUE, !.gaps = <<3>>]}

Directive(groups) == [Template(groups) EXCEPT !.ordered = TRUE, !.quotes = TRUE]

PromptInjectionTemplates ==
  {Directive(<<OverrideVerbs, DirectiveNouns>>),
   Directive(<<OverrideVerbs, AntecedentMarkers>>),
   Directive(<<OverrideVerbs, SecondPerson, ReportedDirective>>)}

\* _reports_own_words: "forget everything I said" revises the buyer's words.
ReportsOwnWords(words, start, end) ==
  \E i \in start..end :
    /\ i < Len(words)
    /\ \/ words[i] \in FirstPersonSubjects /\ words[i + 1] \in SelfReportingVerbs
       \/ words[i] \in FirstPersonPossessive
          /\ words[i + 1] \in DirectiveNouns \cup AntecedentMarkers

\* A template never spans a clause boundary.
WindowEndOpen(words, start) ==          \* mutant: the window runs over a barrier
  CHOOSE end \in start..Len(words) :
    end < start + TemplateWindow /\ end \in {Len(words), start + TemplateWindow - 1}

WindowEnd(words, start) ==
  CHOOSE end \in start..Len(words) :
    /\ end < start + TemplateWindow
    /\ \A i \in start..end : words[i] # Barrier
    /\ \/ end \in {Len(words), start + TemplateWindow - 1}
       \/ words[end + 1] = Barrier

Distance(i, j) == IF i < j THEN j - i ELSE i - j

\* _assign_groups: each group has a word of its own in the window.
Assigned(words, template, at) ==
  LET n == Len(template.groups) IN
  /\ \A g \in 1..n : words[at[g]] \in template.groups[g]
  /\ \A g, h \in 1..n : g # h => at[g] # at[h]
  /\ \A g \in 2..n :
       /\ template.ordered => at[g - 1] < at[g]
       /\ g \in template.adjacent => at[g] = at[g - 1] + 1
       /\ template.gaps # <<>> => Distance(at[g - 1], at[g]) =< template.gaps[g - 1]
  /\ at[n] < Len(words) => words[at[n] + 1] \notin template.after

\* Where a window of the template may begin.
Anchors(template) ==
  IF template.ordered THEN template.groups[1]
  ELSE UNION {template.groups[g] : g \in 1..Len(template.groups)}

WordsOf(words) == {words[i] : i \in 1..Len(words)}

Matches(words, template) ==
  /\ \A g \in 1..Len(template.groups) : template.groups[g] \cap WordsOf(words) # {}
  /\ \E start \in 1..Len(words) :
       LET end == WindowEnd(words, start) IN
       /\ words[start] \in Anchors(template)
       /\ start > 1 => words[start - 1] \notin template.before
       /\ \A i \in start..end : words[i] \notin template.within
       /\ ~(template.quotes /\ ReportsOwnWords(words, start, end))
       /\ \E at \in [1..Len(template.groups) -> start..end] :
            Assigned(words, template, at)

MatchesAny(words, templates) == \E template \in templates : Matches(words, template)

(***************************************************************************)
(* Whole phrases.  A phrase may come with its separators removed, and its  *)
(* last word may carry an ending unless the phrase ends the conversation.  *)
(***************************************************************************)
Phrase(words, joined, inflected) ==
  [words |-> words, joined |-> joined, inflected |-> inflected]

OptOutPhrases == {Phrase(<<"do", "not", "call">>, "donotcall", FALSE),
                  Phrase(<<"call", "mat">>, "callmat", FALSE)}
AbuseTerms == {Phrase(<<"get", "lost">>, "getlost", TRUE)}
InternalInfoPhrases == {Phrase(<<"system", "prompt">>, "systemprompt", TRUE),
                        Phrase(<<"tell", "me", "your", "rules">>, "tellmeyourrules", TRUE)}
PromptInjectionPhrases == {Phrase(<<"bypass", "your", "rules">>, "bypassyourrules", TRUE)}

InflectionsOf(word) == IF word = "prompt" THEN {"prompts"} ELSE {}

Carries(word, stem, inflected) ==
  word = stem \/ (inflected /\ word \in InflectionsOf(stem))

\* "your rules on bulk discounts" is a product question again.
ScopeFollows(words, last, phrase) ==
  /\ phrase.words[Len(phrase.words)] \in GovernanceArtefacts
  /\ last < Len(words)
  /\ words[last + 1] \in ScopingPrepositions

\* _phrase_span: the phrase is at words[start..last].
Spans(words, start, last, phrase) ==
  LET n == Len(phrase.words) IN
  \/ n > 1 /\ last = start /\ Carries(words[start], phrase.joined, phrase.inflected)
  \/ /\ last = start + n - 1
     /\ \A k \in 1..(n - 1) : words[start + k - 1] = phrase.words[k]
     /\ Carries(words[last], phrase.words[n], phrase.inflected)

ContainsPhrase(words, phrases) ==
  \E phrase \in phrases : \E start \in 1..Len(words) : \E last \in start..Len(words) :
    Spans(words, start, last, phrase) /\ ~ScopeFollows(words, last, phrase)

(***************************************************************************)
(* Readings of a text: a word split by spaces or by a zero-width character *)
(* is spelled by the fragments it was split into.                          *)
(***************************************************************************)
SpellingOf(word) ==
  CASE word = "call" -> <<"c", "all">>
    [] word = "stop" -> <<"st", "op">>
    [] word = "mat" -> <<"m", "at">>
    [] word = "callmat" -> <<"c", "all", "m", "at">>
    [] word = "donotcall" -> <<"do", "not", "c", "all">>
    [] OTHER -> <<word>>

Spelled(words) ==
  LET upto[i \in 0..Len(words)] ==
        IF i = 0 THEN <<>> ELSE upto[i - 1] \o SpellingOf(words[i])
  IN upto[Len(words)]

Fragments == {"c", "m", "i", "st", "op", "at", "do", "me", "my", "on", "ke"}
ShortWords ==                           \* of at most _MERGE_PART_LENGTH letters
  Fragments \cup {"all", "mat", "not", "let", "you", "why", "get", "lost", "call", "stop",
                  "list", "what", "tell", "told", "said", "your", "baad"}
BelowMinimum == {"mat", "not", "let", "you", "get"}   \* shorter than _MERGE_MINIMUM
MergeStopwords == {"at", "do", "me", "my", "on", "ke"}

\* _SAFETY_VOCABULARY: the insults are not part of it.
SafetyVocabulary ==
  LET phrases == OptOutPhrases \cup AbuseTerms \cup InternalInfoPhrases
                 \cup PromptInjectionPhrases
      templates == OptOutTemplates \cup InternalInfoTemplates \cup PromptInjectionTemplates
  IN {phrase.joined : phrase \in phrases}
     \cup (UNION {WordsOf(phrase.words) : phrase \in phrases})
     \cup (UNION {UNION WordsOf(template.groups) : template \in templates})

Unknown == "unknown"                    \* a word of no table
Known(words, fragments) ==
  IF \E word \in words : SpellingOf(word) = fragments
  THEN CHOOSE word \in words : SpellingOf(word) = fragments
  ELSE Unknown
WordSpelled(fragments) == Known(SafetyVocabulary, fragments)

\* A zero-width character stands before text[i], and there is a word to weld it to.
Welds(text, i, done) ==
  /\ i > 1 /\ text[i - 1] = Joint /\ text[i] # Barrier
  /\ Len(done) > 0 /\ done[Len(done)] # Barrier

Taking(text, i, done) ==
  IF text[i] = Joint THEN done
  ELSE IF Welds(text, i, done)
  THEN [done EXCEPT ![Len(done)] = WordSpelled(Spelled(<<@, text[i]>>))]
  ELSE Append(done, text[i])

\* Zero-width characters dropped: their neighbours become one word.
Dropped(text) ==
  LET upto[i \in 0..Len(text)] ==
        IF i = 0 THEN <<>> ELSE Taking(text, i, upto[i - 1])
  IN upto[Len(text)]

\* The words of a text but for one of them.
Without(words, word) ==
  LET upto[i \in 0..Len(words)] ==
        IF i = 0 THEN <<>>
        ELSE IF words[i] = word THEN upto[i - 1] ELSE Append(upto[i - 1], words[i])
  IN upto[Len(words)]

Spaced(text) == Without(text, Joint)

\* _merge_span: two or three short pieces that make a word of the vocabulary.
Mergeable(words, i, span) ==
  LET last == i + span - 1 IN
  /\ last =< Len(words)
  /\ \A k \in i..last : words[k] \in ShortWords \ MergeStopwords
  /\ \E k \in i..last : words[k] \in Fragments
  /\ WordSpelled(Spelled(SubSeq(words, i, last))) \notin BelowMinimum \cup {Unknown}

\* _merge_split_tokens, which rejoins the longest span it finds.
SpanAt(words, i) ==
  CHOOSE span \in 1..3 :
    /\ span > 1 => Mergeable(words, i, span)
    /\ \A longer \in (span + 1)..3 : ~Mergeable(words, i, longer)

Rejoined(words, i, span) ==
  IF span = 1 THEN words[i] ELSE WordSpelled(Spelled(SubSeq(words, i, i + span - 1)))

Merged(words) ==
  LET spans == [i \in 1..Len(words) |-> SpanAt(words, i)]
      from[i \in 1..(Len(words) + 1)] ==
        IF i > Len(words) THEN <<>>
        ELSE <<Rejoined(words, i, spans[i])>> \o from[i + spans[i]]
  IN from[1]

\* _template_token_variants.
WithMerged(plain) == plain \cup {Merged(words) : words \in plain}
Readings(text) ==
  WithMerged({Dropped(text)} \cup (IF Joint \in WordsOf(text) THEN {Spaced(text)} ELSE {}))

\* normalize_text, which drops punctuation with the zero-width characters.
Normal(text) == Without(Dropped(text), Barrier)

\* A run of three fragments, one of them no ordinary short word.
Obfuscated(words) ==
  \E i, j \in 1..Len(words) :
    /\ i + 2 =< j
    /\ \A k \in i..j : words[k] \in Fragments
    /\ \E k \in i..j : words[k] \notin MergeStopwords

ContainsCompact(words, phrases) ==
  LET spelled == Spelled(words) IN
  \E wanted \in {Spelled(phrase.words) : phrase \in phrases} :
    \E i \in 0..(Len(spelled) - Len(wanted)) :
      SubSeq(spelled, i + 1, i + Len(wanted)) = wanted

\* What a text is matched in.
Forms(text) == [readings |-> Readings(text), normal |-> Normal(text)]

ContainsAnyForm(forms, phrases) ==
  \/ \E words \in forms.readings : ContainsPhrase(words, phrases)
  \/ Obfuscated(forms.normal) /\ ContainsCompact(forms.normal, phrases)

Clauses(words) ==
  {SubSeq(words, span[1], span[2]) : span \in
     {w \in (1..Len(words)) \X (1..Len(words)) :
        /\ w[1] =< w[2]
        /\ \A k \in w[1]..w[2] : words[k] # Barrier
        /\ w[1] > 1 => words[w[1] - 1] = Barrier
        /\ w[2] < Len(words) => words[w[2] + 1] = Barrier}}

\* _requests_recontact: some clause asks to be contacted, and negates nothing.
RequestsRecontact(words) ==
  \E clause \in Clauses(words) :
    LET present == WordsOf(clause) IN
    /\ present \cap (Negators \cup TerminationVerbs \cup RemovalVerbs) = {}
    /\ present \cap (ContactNouns \cup MessageChannels) # {}
    /\ present \cap (RecurrenceMarkers \cup TimeDeferrals) # {}

OptsOut(forms) ==
  \E words \in forms.readings :
    /\ ContainsAnyForm(forms, OptOutPhrases) \/ MatchesAny(words, OptOutTemplates)
    /\ ~RequestsRecontact(words)

Heard(forms, phrases, templates) ==
  \/ ContainsAnyForm(forms, phrases)
  \/ \E words \in forms.readings : MatchesAny(words, templates)

\* detect_safety_signals.
SignalsIn(forms) ==
  {signal \in {"opt-out", "abuse", "internal-info", "prompt-injection"} :
     CASE signal = "opt-out" -> OptsOut(forms)
       [] signal = "abuse" -> Heard(forms, AbuseTerms, AbuseTemplates)
       [] signal = "internal-info" -> Heard(forms, InternalInfoPhrases, InternalInfoTemplates)
       [] OTHER -> Heard(forms, PromptInjectionPhrases, PromptInjectionTemplates)}
SafetySignals(text) == SignalsIn(Forms(text))
=============================================================================
