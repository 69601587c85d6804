---------------------------- MODULE Deliberation ----------------------------
(***************************************************************************)
(* The slow lane: deliberation/{briefing, lanes, deliberator}.py, as       *)
(* simulator/service.py drives it and adapters/onnx_genai_model.py runs    *)
(* it.  After a turn the service may start a background task that asks a   *)
(* model for a plan from what the session's briefing holds.  The model     *)
(* generates in a worker thread, token by token, and asks between tokens   *)
(* whether to stop.  Turns, tasks and closes run on the event loop; only   *)
(* the worker threads run beside it.                                       *)
(*                                                                         *)
(* A briefing is an object: closing a session forgets it, resuming the     *)
(* session makes another.                                                  *)
(***************************************************************************)
EXTENDS Naturals, FiniteSets, Functions

CONSTANTS Sessions,
          Discarded,      \* sessions whose turns may find their journal gone
          MinTopics,      \* what must be known before thinking is worth it
          Tokens,         \* length of a plan
          MaxFacts,       \* bound: observations in all briefings
          MaxBriefings,   \* bound: Briefing objects held at once
          MaxThreads      \* bound: generations at once, abandoned ones included

ASSUME BoundsAssumption ==
  /\ MinTopics \in Nat \ {0} /\ Tokens \in Nat \ {0}
  /\ MaxFacts \in Nat /\ MaxBriefings \in Nat /\ MaxThreads \in Nat
ASSUME DiscardedAssumption == Discarded \subseteq Sessions

Briefings == 1..MaxBriefings
Threads == 1..MaxThreads

VARIABLES live,        \* sessions in the registry
          turn,        \* sessions: idle, in the lane, or acting on the outcome
          briefing,    \* _briefings: a session's Briefing, 0: none yet
          version,     \* Briefing._version
          plan,        \* Briefing._deliberation: what it is stamped with and what it saw
          background,  \* _deliberations: the Briefing a session's task plans for, 0: none
          work,        \* the background task of a session
          running,     \* Deliberator._running
          thread,      \* worker threads: where each is in its generation
          overlap      \* history: tokens a thread ended beside the turns in flight

lane == <<live, turn, briefing, version, background>>
vars == <<lane, plan, work, running, thread, overlap>>

-----------------------------------------------------------------------------
NoPlan == [from |-> 0, saw |-> 0]
NoWork == [at |-> "none"]
Unused == [at |-> "unused", tokens |-> 0]

TurnInFlight == \E s \in Sessions : turn[s] = "lane"

HasPlan(b) == plan[b] # NoPlan
Current(b) == HasPlan(b) /\ plan[b].from = version[b]     \* current_deliberation()

Init ==
  /\ live = Sessions
  /\ turn = [s \in Sessions |-> "idle"]
  /\ briefing = [s \in Sessions |-> 0]
  /\ version = [b \in Briefings |-> 0]
  /\ plan = [b \in Briefings |-> NoPlan]
  /\ background = [s \in Sessions |-> 0]
  /\ work = [s \in Sessions |-> NoWork]
  /\ running = FALSE
  /\ thread = [t \in Threads |-> Unused]
  /\ overlap = [t \in Threads |-> 0]
-----------------------------------------------------------------------------
(***************************************************************************)
(* A turn claims the lane, and gives it up when the engine is done; from   *)
(* there it goes on without an await to start a deliberation.              *)
(***************************************************************************)
StartTurn(s) ==
  /\ s \in live /\ turn[s] = "idle"
  /\ turn' = [turn EXCEPT ![s] = "lane"]
  /\ UNCHANGED <<live, briefing, version, background, plan, work, running, thread,
                 overlap>>

\* Engine._record_observations() and Engine.briefing() make what they miss.
Held == {briefing[s] : s \in Sessions} \cup {background[s] : s \in Sessions}
BriefingOf(s) == IF briefing[s] # 0 THEN briefing[s]
                 ELSE CHOOSE b \in Briefings \ Held : \A a \in Briefings \ Held : b =< a

\* Overlap is measured against the turns in flight: none are left.
Quiet(laneTurns) == IF \E s \in Sessions : laneTurns[s] = "lane" THEN overlap
                    ELSE [t \in Threads |-> 0]

\* Deliberator.should_deliberate() and BackgroundDeliberation.maybe_start()
ShouldDeliberate(b) == /\ ~running
                       /\ \A s \in Sessions : turn'[s] # "lane"
                       /\ version'[b] >= MinTopics
                       /\ ~(HasPlan(b) /\ plan[b].from = version'[b])

\* The task is created here and runs from a later turn of the event loop.
StartDeliberation(s) ==
  /\ background' = IF background[s] = 0 THEN [background EXCEPT ![s] = briefing'[s]]
                   ELSE background
  /\ work' = IF work[s] = NoWork /\ ShouldDeliberate(background'[s])
             THEN [work EXCEPT ![s] = [at |-> "created"]] ELSE work

EndTurn(s) ==
  /\ turn[s] = "lane"
  /\ turn' = [turn EXCEPT ![s] = "acting"]
  /\ overlap' = Quiet(turn')
  /\ briefing[s] # 0 \/ Briefings \ Held # {}                        \* bound
  /\ briefing' = [briefing EXCEPT ![s] = BriefingOf(s)]
  /\ \E facts \in 0..1 :
       /\ SumFunction(version) + facts =< MaxFacts                    \* bound
       /\ version' = [version EXCEPT ![BriefingOf(s)] = @ + facts]
  /\ StartDeliberation(s)
  /\ UNCHANGED <<live, plan, running, thread>>

\* The task of the turn is cancelled while it asks the turn path's own model.
CancelTurn(s) ==
  /\ turn[s] = "lane"
  /\ turn' = [turn EXCEPT ![s] = "idle"]
  /\ overlap' = Quiet(turn')
  /\ UNCHANGED <<live, briefing, version, background, plan, work, running, thread>>

\* The rest of the turn: recorded, or taken back.  Neither touches the briefing.
FinishTurn(s) ==
  /\ turn[s] = "acting"
  /\ turn' = [turn EXCEPT ![s] = "idle"]
  /\ UNCHANGED <<live, briefing, version, background, plan, work, running, thread,
                 overlap>>
-----------------------------------------------------------------------------
(***************************************************************************)
(* The background task: Deliberator.deliberate()                           *)
(***************************************************************************)
MayRunAlways == TRUE              \* mutant: only should_deliberate() looks at the flag
MayRun == ~running

\* No fact to plan from, or another session's task got there first.
Skip(s) ==
  /\ work[s].at = "created"
  /\ ~MayRun \/ version[background[s]] = 0
  /\ work' = [work EXCEPT ![s] = NoWork]
  /\ UNCHANGED <<lane, plan, running, thread, overlap>>

Deliberate(s) ==
  LET b == background[s]
  IN  /\ work[s].at = "created"
      /\ MayRun /\ version[b] # 0
      /\ running' = TRUE
      /\ \E t \in Threads :
           /\ thread[t] = Unused
           /\ \A u \in Threads : thread[u] = Unused => t =< u
           /\ work' = [work EXCEPT ![s] = [at |-> "generating", by |-> t, from |-> version[b]]]
           /\ thread' = [thread EXCEPT ![t].at = "asking"]
      /\ UNCHANGED <<lane, plan, overlap>>

StampLate(s) == version[background[s]]    \* mutant: stamped when it is finished
Stamp(s) == work[s].from

\* Briefing.conclude() refuses what is older than what it has.
Conclude(s) ==
  LET b == background[s]
  IN  IF HasPlan(b) /\ Stamp(s) < plan[b].from THEN UNCHANGED plan
      ELSE plan' = [plan EXCEPT ![b] = [from |-> Stamp(s), saw |-> work[s].from]]

\* The thread answered: a plan, or one of the ordinary reasons there is none.
Answered(s) ==
  /\ work[s].at = "generating"
  /\ LET t == work[s].by
     IN  /\ thread[t].at \in {"complete", "stopped"}
         /\ IF thread[t].at = "complete" THEN Conclude(s) ELSE UNCHANGED plan
         /\ thread' = [thread EXCEPT ![t] = Unused]
  /\ running' = FALSE
  /\ work' = [work EXCEPT ![s] = NoWork]
  /\ UNCHANGED <<lane, overlap>>
-----------------------------------------------------------------------------
(***************************************************************************)
(* A worker thread: OnnxGenAiModelAdapter._generate()                      *)
(***************************************************************************)
Answers(t) == \E s \in Sessions : work[s].at = "generating" /\ work[s].by = t
Moves(t, stage, n) == thread' = [thread EXCEPT ![t] = [at |-> stage, tokens |-> n]]
\* mutant: an answer is lost
ReturnsNobody(t, result) == thread' = [thread EXCEPT ![t] = Unused]

\* A result nobody waits for is dropped.
Returns(t, result) == IF Answers(t) THEN Moves(t, result, 0)
                      ELSE thread' = [thread EXCEPT ![t] = Unused]

ShouldStopNever == FALSE      \* mutant: the model is not given should_stop
ShouldStop == TurnInFlight

\* Between tokens: stop for a turn or for the time spent, or begin a token.
Ask(t) ==
  /\ thread[t].at = "asking"
  /\ \/ Returns(t, "stopped")                 \* for a turn, or for the time spent
     \/ ~ShouldStop /\ Moves(t, "token", thread[t].tokens)
  /\ UNCHANGED <<lane, plan, work, running, overlap>>

\* A token is done.  An answer that is not a plan is as good as none.
Token(t) ==
  LET n == thread[t].tokens + 1
  IN  /\ thread[t].at = "token"
      /\ overlap' = [overlap EXCEPT ![t] = IF TurnInFlight THEN @ + 1 ELSE 0]
      /\ \/ n < Tokens /\ Moves(t, "asking", n)
         \/ n = Tokens /\ \E result \in {"complete", "stopped"} : Returns(t, result)
      /\ UNCHANGED <<lane, plan, work, running>>

Generate(t) == Ask(t) \/ Token(t)
-----------------------------------------------------------------------------
(***************************************************************************)
(* close_session() stops the task, waits for it, and forgets the briefing; *)
(* the cancelled task leaves its worker thread to itself.                  *)
(***************************************************************************)
CancelledResets(s) == running' = IF work[s].at = "generating" THEN FALSE ELSE running

Stop(s) ==
  /\ CancelledResets(s)
  /\ work' = [work EXCEPT ![s] = NoWork]
  /\ thread' = [t \in Threads |->
       IF work[s].at = "generating" /\ work[s].by = t
          /\ thread[t].at \in {"complete", "stopped"} THEN Unused ELSE thread[t]]

Forgotten(s) == background' = [background EXCEPT ![s] = 0]

\* A briefing nothing refers to is no more.
Collects ==
  /\ version' = [b \in Briefings |-> IF b \in Held' THEN version[b] ELSE 0]
  /\ plan' = [b \in Briefings |-> IF b \in Held' THEN plan[b] ELSE NoPlan]

Close(s) ==
  /\ s \in live /\ turn[s] = "idle"
  /\ live' = live \ {s}
  /\ Forgotten(s) /\ Stop(s)
  /\ briefing' = [briefing EXCEPT ![s] = 0]
  /\ Collects
  /\ UNCHANGED <<turn, overlap>>

\* _discard_session(): neither the task nor _deliberations is touched.
Discard(s) ==
  /\ s \in Discarded /\ turn[s] = "acting"
  /\ live' = live \ {s}
  /\ turn' = [turn EXCEPT ![s] = "idle"]
  /\ briefing' = [briefing EXCEPT ![s] = 0]
  /\ UNCHANGED <<background, work, running, thread, overlap>>
  /\ Collects

Resume(s) ==
  /\ s \notin live
  /\ live' = live \cup {s}
  /\ UNCHANGED <<turn, briefing, version, background, plan, work, running, thread,
                 overlap>>

TaskStep(s) == Skip(s) \/ Deliberate(s) \/ Answered(s)

Next ==
  \/ \E s \in Sessions : StartTurn(s) \/ EndTurn(s) \/ CancelTurn(s) \/ FinishTurn(s)
                         \/ Close(s) \/ Discard(s) \/ Resume(s) \/ TaskStep(s)
  \/ \E t \in Threads : Generate(t)

Spec == Init /\ [][Next]_vars

\* Tasks and threads that may run are run, tasks in the order they got ready (the
\* loop's queue; MaxThreads may hold a task back again and again).  Nothing else need
\* happen.
FairSpec == /\ Spec
            /\ \A s \in Sessions : SF_vars(TaskStep(s))
            /\ \A t \in Threads : WF_vars(Generate(t))
-----------------------------------------------------------------------------
(***************************************************************************)
(* Every variable keeps its type.                                          *)
(***************************************************************************)
Stages == {"unused", "asking", "token", "complete", "stopped"}
Work == {NoWork, [at |-> "created"]}
          \cup [at : {"generating"}, by : Threads, from : Nat]

TypeOK ==
  /\ live \subseteq Sessions
  /\ turn \in [Sessions -> {"idle", "lane", "acting"}]
  /\ briefing \in [Sessions -> 0..MaxBriefings] /\ background \in [Sessions -> 0..MaxBriefings]
  /\ version \in [Briefings -> Nat] /\ plan \in [Briefings -> [from : Nat, saw : Nat]]
  /\ work \in [Sessions -> Work] /\ running \in BOOLEAN
  /\ thread \in [Threads -> [at : Stages, tokens : 0..Tokens]]
  /\ overlap \in [Threads -> Nat]

(***************************************************************************)
(* site_plan(): a plan that is shown was drawn from everything its buyer   *)
(* had established, though turns go on while it is being written.          *)
(***************************************************************************)
ShownPlanIsCurrent ==
  \A s \in Sessions : briefing[s] # 0 /\ Current(briefing[s])
    => plan[briefing[s]].saw = version[briefing[s]]

(***************************************************************************)
(* One deliberation runs at a time for all sessions, and the flag that     *)
(* says so is up exactly while one does: it can neither be passed by two   *)
(* tasks created together nor be left up by a task that was stopped, which *)
(* would end planning for every later session.                             *)
(***************************************************************************)
Generating == {s \in Sessions : work[s].at = "generating"}
RunningIsHonest == Cardinality(Generating) = IF running THEN 1 ELSE 0

(***************************************************************************)
(* A buyer's turn shares the CPU with at most the token that had begun:    *)
(* no generation, abandoned ones included, begins another.                 *)
(***************************************************************************)
OneTokenOverlap == \A t \in Threads : overlap[t] =< 1

(***************************************************************************)
(* service.py:949: "so a deliberation cannot outlive the briefing it is    *)
(* about to write into": a session's plans go where its facts are.         *)
(***************************************************************************)
PlansMeetFacts ==
  \A s \in Sessions : background[s] # 0 /\ briefing[s] # 0 => background[s] = briefing[s]

(***************************************************************************)
(* onnx_genai_model.py:415: calls are "serialised: one generator per       *)
(* schema is reused across calls, so two concurrent turns would interleave *)
(* into one another's token sequence".                                     *)
(***************************************************************************)
GeneratorUnshared ==
  Cardinality({t \in Threads : thread[t].at \in {"asking", "token"}}) =< 1

(***************************************************************************)
(* A deliberation ends, whatever turns, closes and other sessions do.      *)
(***************************************************************************)
DeliberationsEnd == \A s \in Sessions : work[s] # NoWork ~> work[s] = NoWork
=============================================================================
