-------------------------- MODULE DeliberationProofs --------------------------
(***************************************************************************)
(* Proofs about Deliberation, for any number of sessions, threads and      *)
(* briefings and any length of a plan.                                     *)
(***************************************************************************)
EXTENDS Deliberation, FiniteSetTheorems, WellFoundedInduction, TLAPS

-----------------------------------------------------------------------------
\* A task has a briefing to plan for.
TasksPlan == \A s \in Sessions : work[s] # NoWork => background[s] # 0

\* The flag of the deliberator, without counting: one task at a time.
FlagExact ==
  /\ \A s, u \in Sessions : work[s].at = "generating" /\ work[u].at = "generating" => s = u
  /\ running <=> \E s \in Sessions : work[s].at = "generating"

\* A plan is stamped with what it was drawn from.
PlansStamped == \A b \in Briefings : plan[b].saw = plan[b].from

\* A thread that shared the CPU with the turns in flight has not begun another
\* token, and none has when there is no turn.
OverlapSpent ==
  \A t \in Threads : /\ overlap[t] =< 1
                     /\ ~TurnInFlight => overlap[t] = 0
                     /\ overlap[t] # 0 => thread[t].at # "token"

IInv == TypeOK /\ TasksPlan /\ FlagExact /\ PlansStamped /\ OverlapSpent

-----------------------------------------------------------------------------
\* The least-number principle, by which a fresh briefing can be chosen.
LEMMA LeastNatural ==
  ASSUME NEW S \in SUBSET Nat, S # {}
  PROVE  \E n \in S : \A m \in S : n =< m
<1> DEFINE R == {p \in Nat \X Nat : p[1] < p[2]}
<1>1. IsWellFoundedOn(R, Nat)
  BY NatLessThanWellFounded DEF OpToRel
<1>2. \E x \in S : \A y \in S : ~ (<<y, x>> \in R)
  <2> HIDE DEF R
  <2> QED
    BY <1>1, WFMin
<1>3. PICK x \in S : \A y \in S : ~ (<<y, x>> \in R)
  BY <1>2
<1>4. ASSUME NEW y \in S PROVE x =< y
  <2>1. <<y, x>> \in Nat \X Nat /\ ~ (<<y, x>> \in R)
    BY <1>3
  <2>2. ~(y < x)
    BY <2>1
  <2> QED
    BY <2>2
<1> QED
  BY <1>4

LEMMA BriefingIsOne ==
  ASSUME TypeOK, NEW s \in Sessions, briefing[s] # 0 \/ Briefings \ Held # {}
  PROVE  BriefingOf(s) \in Briefings
<1>1. CASE briefing[s] # 0
  BY <1>1, BoundsAssumption DEF TypeOK, BriefingOf, Briefings
<1>2. CASE briefing[s] = 0
  <2> DEFINE free == Briefings \ Held
  <2>1. free \in SUBSET Nat /\ free # {}
    BY <1>2 DEF Briefings
  <2>2. \E b \in free : \A a \in free : b =< a
    BY <2>1, LeastNatural
  <2>3. (CHOOSE b \in free : \A a \in free : b =< a) \in free
    BY <2>2
  <2> QED
    BY <1>2, <2>3 DEF BriefingOf
<1> QED
  BY <1>1, <1>2

LEMMA InitInv == Init => IInv
<1> SUFFICES ASSUME Init PROVE IInv
  OBVIOUS
<1>0. /\ 0 \in 0..MaxBriefings /\ NoPlan \in [from : Nat, saw : Nat]
      /\ NoWork \in Work /\ Unused \in [at : Stages, tokens : 0..Tokens]
  BY BoundsAssumption DEF NoPlan, NoWork, Work, Unused, Stages
<1>1. TypeOK
  BY <1>0 DEF Init, TypeOK
<1>2. TasksPlan /\ FlagExact
  BY DEF Init, TasksPlan, FlagExact, NoWork
<1>3. PlansStamped /\ OverlapSpent
  BY DEF Init, PlansStamped, OverlapSpent, NoPlan
<1> QED
  BY <1>1, <1>2, <1>3 DEF IInv

-----------------------------------------------------------------------------
(***************************************************************************)
(* Typing, action by action.                                               *)
(***************************************************************************)
\* A thread moved on, with a count of tokens that fits, is a thread.
LEMMA MovesTyped ==
  ASSUME TypeOK, NEW t \in Threads, NEW stage \in Stages, NEW n \in 0..Tokens,
         Moves(t, stage, n)
  PROVE  thread' \in [Threads -> [at : Stages, tokens : 0..Tokens]]
BY DEF TypeOK, Moves

LEMMA ReturnsTyped ==
  ASSUME TypeOK, NEW t \in Threads, NEW result \in {"complete", "stopped"}, Returns(t, result)
  PROVE  /\ thread' \in [Threads -> [at : Stages, tokens : 0..Tokens]]
         /\ thread'[t].at # "token"
         /\ \A u \in Threads : u # t => thread'[u] = thread[u]
<1>1. Unused \in [at : Stages, tokens : 0..Tokens] /\ 0 \in 0..Tokens /\ result \in Stages
  BY BoundsAssumption DEF Unused, Stages
<1>2. CASE Answers(t)
  BY <1>1, <1>2, MovesTyped DEF Returns, Moves, TypeOK
<1>3. CASE ~Answers(t)
  BY <1>1, <1>3 DEF Returns, TypeOK, Unused
<1> QED
  BY <1>2, <1>3

LEMMA TurnTyped ==
  ASSUME TypeOK, NEW s \in Sessions,
         StartTurn(s) \/ EndTurn(s) \/ CancelTurn(s) \/ FinishTurn(s)
  PROVE  TypeOK'
<1>1. CASE StartTurn(s)
  BY <1>1 DEF StartTurn, TypeOK
<1>2. CASE EndTurn(s)
  <2> DEFINE b == BriefingOf(s)
  <2>1. b \in Briefings
    BY <1>2, BriefingIsOne DEF EndTurn
  <2>2. briefing' \in [Sessions -> 0..MaxBriefings]
    <3>1. b \in 0..MaxBriefings
      BY <2>1, BoundsAssumption DEF Briefings
    <3>2. briefing' = [briefing EXCEPT ![s] = b]
      BY <1>2 DEF EndTurn
    <3> HIDE DEF b
    <3> QED
      BY <3>1, <3>2 DEF TypeOK
  <2>3. version' \in [Briefings -> Nat]
    BY <1>2, <2>1 DEF EndTurn, TypeOK
  <2>4. background' \in [Sessions -> 0..MaxBriefings]
    BY <1>2, <2>2 DEF EndTurn, StartDeliberation, TypeOK
  <2>5. work' \in [Sessions -> Work]
    BY <1>2 DEF EndTurn, StartDeliberation, TypeOK, Work
  <2>6. overlap' \in [Threads -> Nat] /\ turn' \in [Sessions -> {"idle", "lane", "acting"}]
    BY <1>2 DEF EndTurn, Quiet, TypeOK
  <2> QED
    BY <1>2, <2>2, <2>3, <2>4, <2>5, <2>6 DEF EndTurn, TypeOK
<1>3. CASE CancelTurn(s)
  BY <1>3 DEF CancelTurn, Quiet, TypeOK
<1>4. CASE FinishTurn(s)
  BY <1>4 DEF FinishTurn, TypeOK
<1> QED
  BY <1>1, <1>2, <1>3, <1>4

\* The worker of a task that is generating.
LEMMA Generator ==
  ASSUME TypeOK, TasksPlan, NEW s \in Sessions, work[s].at \in {"created", "generating"}
  PROVE  /\ background[s] \in Briefings
         /\ work[s].at = "generating" => work[s].by \in Threads /\ work[s].from \in Nat
<1>1. work[s] # NoWork
  BY DEF NoWork
<1>2. background[s] \in 0..MaxBriefings /\ background[s] # 0
  BY <1>1 DEF TypeOK, TasksPlan
<1> QED
  BY <1>1, <1>2, BoundsAssumption DEF TypeOK, Work, Briefings

LEMMA TaskTyped ==
  ASSUME TypeOK, TasksPlan, NEW s \in Sessions, TaskStep(s)
  PROVE  TypeOK'
<1>1. CASE Skip(s)
  BY <1>1 DEF Skip, TypeOK, lane, Work
<1>2. CASE Deliberate(s)
  <2>1. background[s] \in Briefings
    BY <1>2, Generator DEF Deliberate
  <2>2. version[background[s]] \in Nat
    BY <2>1 DEF TypeOK
  <2>3. PICK t \in Threads :
          /\ work' = [work EXCEPT ![s] = [at |-> "generating", by |-> t,
                                          from |-> version[background[s]]]]
          /\ thread' = [thread EXCEPT ![t].at = "asking"]
    BY <1>2 DEF Deliberate
  <2>4. work' \in [Sessions -> Work]
    BY <2>2, <2>3 DEF TypeOK, Work
  <2>5. thread' \in [Threads -> [at : Stages, tokens : 0..Tokens]]
    <3>1. thread[t] \in [at : Stages, tokens : 0..Tokens] /\ "asking" \in Stages
      BY DEF TypeOK, Stages
    <3> DEFINE asking == [thread[t] EXCEPT !.at = "asking"]
    <3>2. asking \in [at : Stages, tokens : 0..Tokens]
      BY <3>1
    <3>3. thread' = [thread EXCEPT ![t] = asking]
      BY <2>3 DEF TypeOK
    <3> HIDE DEF asking
    <3> QED
      BY <3>2, <3>3 DEF TypeOK
  <2> QED
    BY <1>2, <2>4, <2>5 DEF Deliberate, TypeOK, lane
<1>3. CASE Answered(s)
  <2>1. /\ background[s] \in Briefings
        /\ work[s].by \in Threads /\ work[s].from \in Nat
    BY <1>3, Generator DEF Answered
  <2>2. plan' \in [Briefings -> [from : Nat, saw : Nat]]
    <3>1. PICK stamped \in [from : Nat, saw : Nat] :
            stamped = [from |-> work[s].from, saw |-> work[s].from]
      BY <2>1
    <3>2. plan' = plan \/ plan' = [plan EXCEPT ![background[s]] = stamped]
      BY <1>3, <3>1 DEF Answered, Conclude, Stamp
    <3> QED
      BY <2>1, <3>1, <3>2 DEF TypeOK
  <2>3. thread' \in [Threads -> [at : Stages, tokens : 0..Tokens]]
    <3>1. Unused \in [at : Stages, tokens : 0..Tokens]
      BY BoundsAssumption DEF Unused, Stages
    <3>2. thread' = [thread EXCEPT ![work[s].by] = Unused]
      BY <1>3 DEF Answered
    <3> QED
      BY <2>1, <3>1, <3>2 DEF TypeOK
  <2> QED
    BY <1>3, <2>2, <2>3 DEF Answered, TypeOK, lane, Work
<1> QED
  BY <1>1, <1>2, <1>3 DEF TaskStep

LEMMA ThreadTyped ==
  ASSUME TypeOK, NEW t \in Threads, Generate(t)
  PROVE  TypeOK'
<1>1. thread[t].tokens \in 0..Tokens
  BY DEF TypeOK
<1>2. CASE Ask(t)
  <2>1. thread' \in [Threads -> [at : Stages, tokens : 0..Tokens]]
    BY <1>1, <1>2, MovesTyped, ReturnsTyped DEF Ask, Stages
  <2> QED
    BY <1>2, <2>1 DEF Ask, TypeOK, lane
<1>3. CASE Token(t)
  <2>1. thread' \in [Threads -> [at : Stages, tokens : 0..Tokens]]
    <3>1. thread[t].tokens + 1 < Tokens => thread[t].tokens + 1 \in 0..Tokens
      BY <1>1, BoundsAssumption
    <3> QED
      BY <1>3, <3>1, MovesTyped, ReturnsTyped DEF Token, Stages
  <2>2. overlap' \in [Threads -> Nat]
    BY <1>3 DEF Token, TypeOK
  <2> QED
    BY <1>3, <2>1, <2>2 DEF Token, TypeOK, lane
<1> QED
  BY <1>2, <1>3 DEF Generate

LEMMA SessionTyped ==
  ASSUME TypeOK, NEW s \in Sessions, Close(s) \/ Discard(s) \/ Resume(s)
  PROVE  TypeOK'
<1>0. /\ 0 \in 0..MaxBriefings /\ NoPlan \in [from : Nat, saw : Nat]
      /\ NoWork \in Work /\ Unused \in [at : Stages, tokens : 0..Tokens]
  BY BoundsAssumption DEF NoPlan, NoWork, Work, Unused, Stages
<1>1. Collects => /\ version' \in [Briefings -> Nat]
                  /\ plan' \in [Briefings -> [from : Nat, saw : Nat]]
  BY <1>0 DEF Collects, TypeOK
<1>2. CASE Close(s)
  <2>1. /\ background' \in [Sessions -> 0..MaxBriefings]
        /\ briefing' \in [Sessions -> 0..MaxBriefings]
        /\ live' \subseteq Sessions
    BY <1>0, <1>2 DEF Close, Forgotten, TypeOK
  <2>2. /\ work' \in [Sessions -> Work] /\ running' \in BOOLEAN
        /\ thread' \in [Threads -> [at : Stages, tokens : 0..Tokens]]
    BY <1>0, <1>2 DEF Close, Stop, CancelledResets, TypeOK
  <2> QED
    BY <1>1, <1>2, <2>1, <2>2 DEF Close, TypeOK
<1>3. CASE Discard(s)
  BY <1>0, <1>1, <1>3 DEF Discard, TypeOK
<1>4. CASE Resume(s)
  BY <1>4 DEF Resume, TypeOK
<1> QED
  BY <1>2, <1>3, <1>4

LEMMA TypeStep ==
  ASSUME TypeOK, TasksPlan, [Next]_vars
  PROVE  TypeOK'
<1>1. UNCHANGED vars => TypeOK'
  BY DEF vars, lane, TypeOK
<1> QED
  BY <1>1, TurnTyped, TaskTyped, ThreadTyped, SessionTyped DEF Next

-----------------------------------------------------------------------------
(***************************************************************************)
(* The tasks.                                                              *)
(***************************************************************************)
\* What every step does to the tasks and their briefings.
TaskCreated(s) == work' = [work EXCEPT ![s] = [at |-> "created"]] /\ work[s] = NoWork
TaskEnds(s) == work' = [work EXCEPT ![s] = NoWork]
TaskGenerates(s) ==
  /\ work[s].at = "created" /\ ~running /\ running'
  /\ \E t \in Threads, n \in Nat :
       work' = [work EXCEPT ![s] = [at |-> "generating", by |-> t, from |-> n]]

TasksAfter ==
  \/ UNCHANGED <<work, running>>
  \/ \E s \in Sessions : TaskCreated(s) /\ UNCHANGED running
  \/ \E s \in Sessions : TaskGenerates(s)
  \/ \E s \in Sessions : TaskEnds(s) /\ work[s].at # "generating" /\ UNCHANGED running
  \/ \E s \in Sessions : TaskEnds(s) /\ work[s].at = "generating" /\ ~running'

LEMMA TasksMove ==
  ASSUME TypeOK, TasksPlan, [Next]_vars
  PROVE  TasksAfter
<1>1. ASSUME NEW s \in Sessions, EndTurn(s) PROVE TasksAfter
  BY <1>1 DEF EndTurn, StartDeliberation, TasksAfter, TaskCreated
<1>2. ASSUME NEW s \in Sessions, Skip(s) PROVE TasksAfter
  BY <1>2 DEF Skip, TasksAfter, TaskEnds
<1>3. ASSUME NEW s \in Sessions, Deliberate(s) PROVE TasksAfter
  <2>1. version[background[s]] \in Nat
    BY <1>3, Generator DEF Deliberate, TypeOK
  <2>2. TaskGenerates(s)
    BY <1>3, <2>1 DEF Deliberate, TaskGenerates, MayRun
  <2> QED
    BY <2>2 DEF TasksAfter
<1>4. ASSUME NEW s \in Sessions, Answered(s) PROVE TasksAfter
  BY <1>4 DEF Answered, TasksAfter, TaskEnds
<1>5. ASSUME NEW s \in Sessions, Close(s) PROVE TasksAfter
  BY <1>5 DEF Close, Stop, CancelledResets, TasksAfter, TaskEnds
<1>6. ASSUME NEW s \in Sessions,
             StartTurn(s) \/ CancelTurn(s) \/ FinishTurn(s) \/ Discard(s) \/ Resume(s)
      PROVE  TasksAfter
  BY <1>6 DEF StartTurn, CancelTurn, FinishTurn, Discard, Resume, TasksAfter
<1>7. ASSUME NEW t \in Threads, Generate(t) PROVE TasksAfter
  BY <1>7 DEF Generate, Ask, Token, TasksAfter
<1>8. CASE UNCHANGED vars
  BY <1>8 DEF vars, TasksAfter
<1> QED
  BY <1>1, <1>2, <1>3, <1>4, <1>5, <1>6, <1>7, <1>8 DEF Next, TaskStep

LEMMA FlagStep ==
  ASSUME TypeOK, TasksPlan, FlagExact, [Next]_vars
  PROVE  FlagExact'
<1> USE DEF FlagExact
<1>1. CASE UNCHANGED <<work, running>>
  BY <1>1
<1>2. ASSUME NEW s \in Sessions, TaskCreated(s), UNCHANGED running PROVE FlagExact'
  BY <1>2 DEF TaskCreated, TypeOK, NoWork
<1>3. ASSUME NEW s \in Sessions, TaskGenerates(s) PROVE FlagExact'
  BY <1>3 DEF TaskGenerates, TypeOK
<1>4. ASSUME NEW s \in Sessions, TaskEnds(s), work[s].at # "generating", UNCHANGED running
      PROVE  FlagExact'
  BY <1>4 DEF TaskEnds, TypeOK, NoWork
<1>5. ASSUME NEW s \in Sessions, TaskEnds(s), work[s].at = "generating", ~running'
      PROVE  FlagExact'
  BY <1>5 DEF TaskEnds, TypeOK, NoWork
<1> QED
  BY <1>1, <1>2, <1>3, <1>4, <1>5, TasksMove DEF TasksAfter

LEMMA PlanningStep ==
  ASSUME TypeOK, TasksPlan, [Next]_vars
  PROVE  TasksPlan'
<1>1. ASSUME NEW s \in Sessions, EndTurn(s) PROVE TasksPlan'
  <2>1. BriefingOf(s) # 0
    BY <1>1, BriefingIsOne DEF EndTurn, Briefings
  <2>2. briefing'[s] # 0
    BY <1>1, <2>1 DEF EndTurn, TypeOK
  <2>3. background'[s] # 0 /\ \A u \in Sessions : u # s => background'[u] = background[u]
    BY <1>1, <2>2 DEF EndTurn, StartDeliberation, TypeOK
  <2>4. \A u \in Sessions : u # s => work'[u] = work[u]
    BY <1>1 DEF EndTurn, StartDeliberation, TypeOK
  <2> QED
    BY <2>3, <2>4 DEF TasksPlan
<1>2. ASSUME NEW s \in Sessions, Close(s) PROVE TasksPlan'
  BY <1>2 DEF Close, Stop, Forgotten, TasksPlan, TypeOK
<1>3. ASSUME NEW s \in Sessions, TaskStep(s) PROVE TasksPlan'
  <2>1. work[s] # NoWork /\ UNCHANGED background
    BY <1>3 DEF TaskStep, Skip, Deliberate, Answered, NoWork, lane
  <2>2. \A u \in Sessions : u # s => work'[u] = work[u]
    BY <1>3 DEF TaskStep, Skip, Deliberate, Answered, TypeOK
  <2> QED
    BY <2>1, <2>2 DEF TasksPlan
<1>4. ASSUME UNCHANGED <<background, work>> PROVE TasksPlan'
  BY <1>4 DEF TasksPlan
<1>5. ASSUME NEW s \in Sessions,
             StartTurn(s) \/ CancelTurn(s) \/ FinishTurn(s) \/ Discard(s) \/ Resume(s)
      PROVE  TasksPlan'
  BY <1>4, <1>5 DEF StartTurn, CancelTurn, FinishTurn, Discard, Resume
<1>6. ASSUME NEW t \in Threads, Generate(t) PROVE TasksPlan'
  BY <1>4, <1>6 DEF Generate, Ask, Token, lane
<1>7. CASE UNCHANGED vars
  BY <1>4, <1>7 DEF vars, lane
<1> QED
  BY <1>1, <1>2, <1>3, <1>5, <1>6, <1>7 DEF Next

-----------------------------------------------------------------------------
(***************************************************************************)
(* The plans, and the tokens beside the turns.                             *)
(***************************************************************************)
LEMMA PlansStep ==
  ASSUME TypeOK, TasksPlan, PlansStamped, [Next]_vars
  PROVE  PlansStamped'
<1> USE DEF PlansStamped
<1>1. ASSUME Collects PROVE PlansStamped'
  BY <1>1 DEF Collects, NoPlan
<1>2. ASSUME NEW s \in Sessions, Answered(s) PROVE PlansStamped'
  <2>1. background[s] \in Briefings
    BY <1>2, Generator DEF Answered
  <2> QED
    BY <1>2, <2>1 DEF Answered, Conclude, Stamp, TypeOK
<1>3. ASSUME UNCHANGED plan PROVE PlansStamped'
  BY <1>3
<1>4. ASSUME NEW s \in Sessions,
             \/ StartTurn(s) \/ EndTurn(s) \/ CancelTurn(s) \/ FinishTurn(s)
             \/ Resume(s) \/ Skip(s) \/ Deliberate(s)
      PROVE  PlansStamped'
  BY <1>3, <1>4 DEF StartTurn, EndTurn, CancelTurn, FinishTurn, Resume, Skip, Deliberate
<1>5. ASSUME NEW t \in Threads, Generate(t) PROVE PlansStamped'
  BY <1>3, <1>5 DEF Generate, Ask, Token
<1>6. CASE UNCHANGED vars
  BY <1>3, <1>6 DEF vars
<1> QED
  BY <1>1, <1>2, <1>4, <1>5, <1>6 DEF Next, TaskStep, Close, Discard

\* Overlap may be forgotten, and a thread may leave its token, at any time.
LEMMA OverlapKept ==
  ASSUME OverlapSpent,
         \A t \in Threads : \/ overlap'[t] = 0
                            \/ /\ overlap'[t] = overlap[t]
                               /\ TurnInFlight' \/ ~TurnInFlight
                               /\ thread'[t].at = "token" => thread[t].at = "token"
  PROVE  OverlapSpent'
BY DEF OverlapSpent

LEMMA OverlapStep ==
  ASSUME TypeOK, TasksPlan, OverlapSpent, [Next]_vars
  PROVE  OverlapSpent'
<1>1. ASSUME NEW s \in Sessions, StartTurn(s) PROVE OverlapSpent'
  <2>1. TurnInFlight'
    BY <1>1 DEF StartTurn, TurnInFlight, TypeOK
  <2> QED
    BY <1>1, <2>1, OverlapKept DEF StartTurn
<1>2. ASSUME NEW s \in Sessions, EndTurn(s) \/ CancelTurn(s) PROVE OverlapSpent'
  <2>1. overlap' = Quiet(turn') /\ UNCHANGED thread
    BY <1>2 DEF EndTurn, CancelTurn
  <2>2. \A t \in Threads : overlap'[t] = 0 \/ (overlap'[t] = overlap[t] /\ TurnInFlight')
    BY <2>1 DEF Quiet, TurnInFlight
  <2> QED
    BY <2>1, <2>2, OverlapKept
<1>3. ASSUME UNCHANGED overlap, TurnInFlight' \/ ~TurnInFlight,
             \A t \in Threads : thread'[t].at = "token" => thread[t].at = "token"
      PROVE  OverlapSpent'
  BY <1>3, OverlapKept
<1>4. ASSUME NEW s \in Sessions, FinishTurn(s) \/ Discard(s) PROVE OverlapSpent'
  <2>1. TurnInFlight' <=> TurnInFlight
    BY <1>4 DEF FinishTurn, Discard, TurnInFlight, TypeOK
  <2> QED
    BY <1>3, <1>4, <2>1 DEF FinishTurn, Discard
<1>5. ASSUME NEW s \in Sessions, Resume(s) \/ Skip(s) PROVE OverlapSpent'
  BY <1>3, <1>5 DEF Resume, Skip, lane, TurnInFlight
<1>6. ASSUME NEW s \in Sessions, Deliberate(s) PROVE OverlapSpent'
  <2>1. UNCHANGED <<overlap, turn>>
    BY <1>6 DEF Deliberate, lane
  <2>2. \A t \in Threads : thread'[t].at = "token" => thread[t].at = "token"
    BY <1>6 DEF Deliberate, TypeOK
  <2> QED
    BY <1>3, <2>1, <2>2 DEF TurnInFlight
<1>7. ASSUME NEW s \in Sessions, Answered(s) PROVE OverlapSpent'
  <2>1. UNCHANGED <<overlap, turn>>
    BY <1>7 DEF Answered, lane
  <2>2. \A t \in Threads : thread'[t].at = "token" => thread[t].at = "token"
    BY <1>7 DEF Answered, TypeOK, Unused
  <2> QED
    BY <1>3, <2>1, <2>2 DEF TurnInFlight
<1>8. ASSUME NEW s \in Sessions, Close(s) PROVE OverlapSpent'
  <2>1. UNCHANGED <<overlap, turn>>
    BY <1>8 DEF Close
  <2>2. \A t \in Threads : thread'[t].at = "token" => thread[t].at = "token"
    BY <1>8 DEF Close, Stop, Unused
  <2> QED
    BY <1>3, <2>1, <2>2 DEF TurnInFlight
<1>9. ASSUME NEW t \in Threads, Ask(t) PROVE OverlapSpent'
  <2>1. UNCHANGED <<overlap, turn>>
    BY <1>9 DEF Ask, lane
  <2>2. CASE Returns(t, "stopped")
    BY <1>3, <2>1, <2>2, ReturnsTyped DEF TurnInFlight
  <2>3. CASE ~ShouldStop /\ Moves(t, "token", thread[t].tokens)
    <3>1. \A u \in Threads : overlap[u] = 0
      BY <2>3 DEF ShouldStop, OverlapSpent
    <3> QED
      BY <2>1, <3>1, OverlapKept
  <2> QED
    BY <1>9, <2>2, <2>3 DEF Ask
<1>10. ASSUME NEW t \in Threads, Token(t) PROVE OverlapSpent'
  <2>1. overlap[t] = 0
    BY <1>10 DEF Token, OverlapSpent
  <2>2. /\ overlap'[t] = IF TurnInFlight THEN 1 ELSE 0
        /\ \A u \in Threads : u # t => overlap'[u] = overlap[u]
    BY <1>10, <2>1 DEF Token, TypeOK
  <2>3. /\ thread'[t].at # "token"
        /\ \A u \in Threads : u # t => thread'[u] = thread[u]
    BY <1>10, ReturnsTyped DEF Token, Moves, TypeOK
  <2>4. UNCHANGED turn
    BY <1>10 DEF Token, lane
  <2> QED
    BY <2>2, <2>3, <2>4 DEF OverlapSpent, TurnInFlight
<1>11. CASE UNCHANGED vars
  BY <1>3, <1>11 DEF vars, lane, TurnInFlight
<1> QED
  BY <1>1, <1>2, <1>4, <1>5, <1>6, <1>7, <1>8, <1>9, <1>10, <1>11 DEF Next, TaskStep, Generate

-----------------------------------------------------------------------------
\* The slow lane keeps its inductive invariant.
THEOREM Inductive == Spec => []IInv
<1>1. IInv /\ [Next]_vars => IInv'
  BY TypeStep, FlagStep, PlanningStep, PlansStep, OverlapStep DEF IInv
<1> QED
  BY <1>1, InitInv, PTL DEF Spec

\* Every variable of the slow lane keeps its type.
THEOREM TypeCorrect == Spec => []TypeOK
<1>1. IInv => TypeOK
  BY DEF IInv
<1> QED
  BY <1>1, Inductive, PTL

\* briefing.py site_plan(): a plan that is shown was drawn from everything that
\* its buyer has established, whatever turns went on while it was written.
THEOREM ShownPlanHolds == Spec => []ShownPlanIsCurrent
<1>1. IInv => ShownPlanIsCurrent
  <2> SUFFICES ASSUME IInv, NEW s \in Sessions, briefing[s] # 0, Current(briefing[s])
               PROVE  plan[briefing[s]].saw = version[briefing[s]]
    BY DEF ShownPlanIsCurrent
  <2>1. briefing[s] \in Briefings
    BY BoundsAssumption DEF IInv, TypeOK, Briefings
  <2> QED
    BY <2>1 DEF IInv, PlansStamped, Current
<1> QED
  BY <1>1, Inductive, PTL

\* deliberator.py: the flag is up exactly while a deliberation runs, and one runs
\* at a time, whichever tasks are created together, stopped or closed over.
THEOREM RunningHolds == Spec => []RunningIsHonest
<1>1. IInv => RunningIsHonest
  <2> SUFFICES ASSUME IInv PROVE RunningIsHonest
    OBVIOUS
  <2>1. CASE running
    <3>1. PICK s \in Sessions : work[s].at = "generating"
      BY <2>1 DEF IInv, FlagExact
    <3>2. Generating = {s}
      BY <3>1 DEF IInv, FlagExact, Generating
    <3> QED
      BY <2>1, <3>2, FS_Singleton DEF RunningIsHonest
  <2>2. CASE ~running
    <3>1. Generating = {}
      BY <2>2 DEF IInv, FlagExact, Generating
    <3> QED
      BY <2>2, <3>1, FS_EmptySet DEF RunningIsHonest
  <2> QED
    BY <2>1, <2>2
<1> QED
  BY <1>1, Inductive, PTL

\* onnx_genai_model.py _generate(): no generation, abandoned ones included, takes
\* more than the token it had begun from a buyer's turn.
THEOREM OneTokenHolds == Spec => []OneTokenOverlap
<1>1. IInv => OneTokenOverlap
  BY DEF IInv, OverlapSpent, OneTokenOverlap
<1> QED
  BY <1>1, Inductive, PTL

-----------------------------------------------------------------------------
\* service.py:949: a deliberation does not outlive the briefing it writes into.
\* It does when a turn discards its session (MCPlanLost.cfg), and that is the
\* only way: where no turn finds its journal gone, plans go where the facts are.
THEOREM PlansMeetFactsUnlessDiscarded ==
  ASSUME Discarded = {}
  PROVE  Spec => []PlansMeetFacts
<1> DEFINE Meet == \A s \in Sessions : background[s] # 0 => briefing[s] = background[s]
<1>1. Init => Meet
  BY DEF Init
<1>2. TypeOK /\ Meet /\ [Next]_vars => Meet'
  <2> SUFFICES ASSUME TypeOK, Meet, [Next]_vars PROVE Meet'
    OBVIOUS
  <2>1. ASSUME NEW s \in Sessions, EndTurn(s) PROVE Meet'
    <3>1. briefing'[s] = BriefingOf(s) /\ \A u \in Sessions : u # s => briefing'[u] = briefing[u]
      BY <2>1 DEF EndTurn, TypeOK
    <3>2. /\ background'[s] = IF background[s] = 0 THEN briefing'[s] ELSE background[s]
          /\ \A u \in Sessions : u # s => background'[u] = background[u]
      BY <2>1 DEF EndTurn, StartDeliberation, TypeOK
    <3> QED
      BY <3>1, <3>2 DEF BriefingOf
  <2>2. ASSUME NEW s \in Sessions, Close(s) PROVE Meet'
    BY <2>2 DEF Close, Forgotten, TypeOK
  <2>3. ASSUME UNCHANGED <<briefing, background>> PROVE Meet'
    BY <2>3
  <2>4. ASSUME NEW s \in Sessions,
               \/ StartTurn(s) \/ CancelTurn(s) \/ FinishTurn(s) \/ Resume(s)
               \/ TaskStep(s) \/ Discard(s)
        PROVE  Meet'
    BY <2>3, <2>4 DEF StartTurn, CancelTurn, FinishTurn, Resume, TaskStep, Skip,
       Deliberate, Answered, Discard, lane
  <2>5. ASSUME NEW t \in Threads, Generate(t) PROVE Meet'
    BY <2>3, <2>5 DEF Generate, Ask, Token, lane
  <2>6. CASE UNCHANGED vars
    BY <2>3, <2>6 DEF vars, lane
  <2> QED
    BY <2>1, <2>2, <2>4, <2>5, <2>6 DEF Next
<1>3. Meet => PlansMeetFacts
  BY DEF PlansMeetFacts
<1> QED
  BY <1>1, <1>2, <1>3, TypeCorrect, PTL DEF Spec
=============================================================================
