---------------------------- MODULE DurableTurns ----------------------------
(***************************************************************************)
(* A buyer's turn with durable history: simulator/service.py process_turn  *)
(* around conversation/journal.py prepare_turn and commit_turn, over one   *)
(* lead's event stream and the in-memory states of conversation/engine.py. *)
(*                                                                         *)
(* A place is one session in one server process.  A session may be open in *)
(* two places (resumed elsewhere, or after a restart), and two sessions of *)
(* a buyer share the lead's stream.  The turns of a place are serialised   *)
(* by session.lock; the journal's two calls run on worker threads, which   *)
(* read and write the place's engine state while the coroutine awaits, and *)
(* which run on when the coroutine is cancelled.                           *)
(*                                                                         *)
(* repository.append is one step (EventStore!AppendAtomic); so is a load,  *)
(* which reads the stream between two equal statuses or gives up.          *)
(***************************************************************************)
EXTENDS Naturals, Sequences, FiniteSets

CONSTANTS Places,
          Processes,
          ProcessOf,    \* the server process of each place
          Sessions,
          SessionOf,    \* the session of each place
          Requests,     \* what clients submit: [op, text, act]
          MaxEvents,    \* ConversationJournal._max_events
          MaxOperations,\* SimulatorService._max_turn_operations_per_session
          MaxFaults,    \* bound: database faults
          MaxCancels,   \* bound: cancelled turns
          MaxCrashes    \* bound: process crashes

Texts == {"plain", "abuse", "optout"}
Operations == {r.op : r \in Requests}

ASSUME PlacesAssumption ==
  ProcessOf \in [Places -> Processes] /\ SessionOf \in [Places -> Sessions]
ASSUME RequestsAssumption ==
  \A r \in Requests : DOMAIN r = {"op", "text", "act"} /\ r.text \in Texts
                      /\ r.act \in {"none", "preview"}
ASSUME BoundsAssumption ==
  /\ MaxEvents \in Nat /\ MaxOperations \in Nat \ {0}
  /\ MaxFaults \in Nat /\ MaxCancels \in Nat /\ MaxCrashes \in Nat

VARIABLES log,          \* the lead's accepted turns, oldest first
          store,        \* "whole", "holed" by a purge, or "closed" by an erasure
          live,         \* ConversationEngine._states
          registry,     \* SimulatorService._sessions
          memo,         \* _Session.turn_operations
          task,         \* the coroutine that holds session.lock
          jobs,         \* the worker threads it has started
          born,         \* sessions that have been created
          told,         \* history: the answers clients have received
          spent         \* the bounded environment's budget so far

vars == <<log, store, live, registry, memo, task, jobs, born, told, spent>>
-----------------------------------------------------------------------------
(***************************************************************************)
(* The engine, as far as the journal and the retries can tell turns apart. *)
(***************************************************************************)
NoState == [count |-> 0, digests |-> <<"none">>, marks |-> {}]
Fresh == [count |-> 0, digests |-> <<>>, marks |-> {}]

Disposition(state, text) ==
  CASE text = "optout" -> "STOP"
    [] text = "abuse" -> IF "abused" \in state.marks THEN "STOP" ELSE "REDIRECT"
    [] text = "plain" -> "CONTINUE"

Marked(state, text) ==
  state.marks \cup (IF Disposition(state, text) = "STOP" THEN {"stopped"} ELSE {})
              \cup (IF text = "abuse" THEN {"abused"} ELSE {})

EngineTurn(state, text) ==
  [count |-> state.count + 1,
   digests |-> Append(state.digests, text),
   marks |-> Marked(state, text)]

Answer(state, text) ==
  [count |-> state.count + 1, disposition |-> Disposition(state, text)]
NoAnswer == [count |-> 0, disposition |-> "none"]

(***************************************************************************)
(* The journal's readers.                                                  *)
(***************************************************************************)
\* ConversationTurnEvent, built from the exported state and the turn's result.
EventOf(x, request, state, answer) ==
  [session |-> SessionOf[x], request |-> request,
   digest |-> state.digests[Len(state.digests)], marks |-> state.marks,
   result |-> answer]
NoEvent == [session |-> "none"]

TurnsOf(history, s) ==
  LET turns[n \in 0..Len(history)] ==
        IF n = 0 THEN <<>>
        ELSE IF history[n].session = s THEN Append(turns[n - 1], history[n])
        ELSE turns[n - 1]
  IN  turns[Len(history)]

\* _validate_replay_event: turn numbers, nothing after closure, abuse stays.
Replayable(turns) ==
  \A i \in 1..Len(turns) :
    /\ turns[i].result.count = i
    /\ i > 1 => /\ "stopped" \notin turns[i-1].marks
                /\ "abused" \in turns[i-1].marks => "abused" \in turns[i].marks

Replay(turns) ==
  [count |-> turns[Len(turns)].result.count,
   digests |-> [i \in 1..Len(turns) |-> turns[i].digest],
   marks |-> turns[Len(turns)].marks]

Readable == store = "whole" /\ Len(log) =< MaxEvents

\* _find_operation: an operation belongs to one session and one input.
Recorded(op) == {i \in 1..Len(log) : log[i].request.op = op}
Taken(x, r) ==
  \E i \in Recorded(r.op) : log[i].session # SessionOf[x] \/ log[i].request # r
RecordedAnswer(r) ==
  IF Recorded(r.op) = {} THEN NoAnswer
  ELSE log[CHOOSE i \in Recorded(r.op) : TRUE].result
-----------------------------------------------------------------------------
Idle == [stage |-> "idle"]
NoRequest == [op |-> "none", text |-> "none", act |-> "none"]
NoMemo == [request |-> NoRequest, answer |-> NoAnswer, acted |-> "no"]

Init ==
  /\ log = <<>> /\ store = "whole"
  /\ live = [x \in Places |-> NoState]
  /\ registry = [x \in Places |-> "absent"]
  /\ memo = [x \in Places |-> [op \in Operations |-> NoMemo]]
  /\ task = [x \in Places |-> Idle]
  /\ jobs = {} /\ born = {} /\ told = {}
  /\ spent = [faults |-> 0, cancels |-> 0, crashes |-> 0]

Stages == {"preparing", "understanding", "previewing", "previewing again", "committing",
           "recalling"}

Forgotten(x) == [memo EXCEPT ![x] = [op \in Operations |-> NoMemo]]

\* create_session: a new uuid4, registered with a fresh engine state.
Create(x) ==
  /\ SessionOf[x] \notin born
  /\ born' = born \cup {SessionOf[x]}
  /\ live' = [live EXCEPT ![x] = Fresh]
  /\ registry' = [registry EXCEPT ![x] = "active"]
  /\ UNCHANGED <<log, store, memo, task, jobs, told, spent>>

\* resume_session: replay, and restore_checkpoint unless the engine still has
\* a state under this id, in which case the state is dropped and the resume
\* refused.
Resume(x) ==
  LET turns == TurnsOf(log, SessionOf[x])
  IN  /\ registry[x] = "absent"
      /\ Readable /\ turns # <<>> /\ Replayable(turns)
      /\ IF live[x] = NoState
         THEN /\ live' = [live EXCEPT ![x] = Replay(turns)]
              /\ registry' = [registry EXCEPT ![x] = "recovered"]
         ELSE /\ live' = [live EXCEPT ![x] = NoState]
              /\ UNCHANGED registry
      /\ UNCHANGED <<log, store, memo, task, jobs, born, told, spent>>

\* A teardown drops the session and its state, or its clean-up of previews
\* fails and the session stays published as closing.
Teardown(x) ==
  \/ /\ registry' = [registry EXCEPT ![x] = "absent"]
     /\ live' = [live EXCEPT ![x] = NoState]
     /\ memo' = Forgotten(x)
  \/ /\ registry' = [registry EXCEPT ![x] = "closing"]
     /\ UNCHANGED <<live, memo>>

Close(x) ==
  /\ registry[x] # "absent" /\ task[x] = Idle
  /\ Teardown(x)
  /\ UNCHANGED <<log, store, task, jobs, born, told, spent>>
-----------------------------------------------------------------------------
(***************************************************************************)
(* Worker threads.  A job whose coroutine was cancelled is abandoned: it   *)
(* runs on, known by the number of the cancellation, and its result is     *)
(* dropped.                                                                *)
(***************************************************************************)
Job(x, step, r) ==
  [place |-> x, abandoned |-> 0, step |-> step, request |-> r, before |-> NoState,
   version |-> 0, answer |-> NoAnswer, event |-> NoEvent, recorded |-> NoAnswer,
   result |-> "none"]

Advance(j, next) == jobs' = (jobs \ {j}) \cup {next}

\* The job's outcome, for its coroutine if that still waits for it.
Finish(j, outcome) ==
  jobs' = (jobs \ {j}) \cup (IF j.abandoned = 0 THEN {outcome} ELSE {})

Done(j, result) == [j EXCEPT !.step = "done", !.result = result]

TurnsAt(x) == TurnsOf(log, SessionOf[x])

SetLive(x, state) == live' = [live EXCEPT ![x] = state]

Unmoved == <<store, registry, memo, task, born, told>>

\* prepare_turn: the live state is copied and exported before the load.
PrepareExport(j) ==
  /\ j.step = "export"
  /\ IF live[j.place] = NoState
     THEN Finish(j, Done(j, "error"))
     ELSE Advance(j, [j EXCEPT !.step = "load", !.before = live[j.place]])
  /\ UNCHANGED <<live, log, spent>> /\ UNCHANGED Unmoved

\* The exported state is the durable one, or the session has nothing durable
\* and nothing to lose.
InSync(j) ==
  IF TurnsAt(j.place) = <<>> THEN j.before.count = 0
                             ELSE j.before = Replay(TurnsAt(j.place))

HasRoom == Len(log) < MaxEvents

\* mutant: the journal is not asked whether it has this operation
VerdictForgetful(j) ==
  CASE ~Readable \/ ~Replayable(TurnsAt(j.place)) -> "refused"
    [] Readable /\ Replayable(TurnsAt(j.place)) ->
         IF ~InSync(j) THEN "conflict"
         ELSE IF ~HasRoom THEN "refused"
         ELSE "ready"

Verdict(j) ==
  CASE ~Readable \/ ~Replayable(TurnsAt(j.place)) -> "refused"
    [] Readable /\ Replayable(TurnsAt(j.place)) ->
         IF Taken(j.place, j.request) THEN "misused"
         ELSE IF Recorded(j.request.op) # {} THEN "existing"
         ELSE IF ~InSync(j) THEN "conflict"
         ELSE IF ~HasRoom THEN "refused"
         ELSE "ready"

\* Back to the durable state: replace_checkpoint, LookupError without a state.
Resynchronise(j, result) ==
  IF live[j.place] = NoState
  THEN /\ Finish(j, Done(j, "error"))
       /\ UNCHANGED live
  ELSE /\ Finish(j, [Done(j, result) EXCEPT !.recorded = RecordedAnswer(j.request)])
       /\ SetLive(j.place, Replay(TurnsAt(j.place)))

PrepareLoad(j) ==
  /\ j.step = "load"
  /\ IF Verdict(j) = "existing"
     THEN Resynchronise(j, "existing")
     ELSE /\ Finish(j, [Done(j, Verdict(j)) EXCEPT !.version = Len(log)])
          /\ UNCHANGED live
  /\ UNCHANGED <<log, spent>> /\ UNCHANGED Unmoved

-----------------------------------------------------------------------------
(***************************************************************************)
(* commit_turn on its worker thread.  Whatever fails first, the prepared   *)
(* state is restored, unconditionally, and the error goes to the turn.     *)
(***************************************************************************)
RollbackNone(j) == UNCHANGED live       \* mutant: a failed commit keeps the turn
Rollback(j) == SetLive(j.place, j.before)

\* The event takes its flags and its digest from the state as it is now, and
\* its answer from the turn.  ConversationTurnEvent refuses a stopped state
\* under an answer that did not stop, and the other way round.
Consistent(j) ==
  LET state == live[j.place]
  IN  /\ state # NoState /\ state.digests # <<>>
      /\ ("stopped" \in state.marks) <=> (j.answer.disposition = "STOP")

CommitBuild(j) ==
  /\ j.step = "build"
  /\ \/ /\ Consistent(j)
        /\ Advance(j, [j EXCEPT !.step = "append",
                       !.event = EventOf(j.place, j.request, live[j.place], j.answer)])
        /\ UNCHANGED live
     \/ /\ ~Consistent(j)
        /\ Finish(j, Done(j, "error"))
        /\ Rollback(j)
  /\ UNCHANGED <<log, spent>> /\ UNCHANGED Unmoved

ExpectedAny(j) == TRUE                  \* mutant: a blind append
Expected(j) == Len(log) = j.version
Appended(j) == log' = Append(log, j.event)

\* store = "holed" does not refuse an append: the head is still there.
CommitAppend(j) ==
  /\ j.step = "append"
  /\ \/ /\ store = "closed"
        /\ Finish(j, Done(j, "refused"))
        /\ Rollback(j)
        /\ UNCHANGED log
     \/ /\ store # "closed" /\ Expected(j)
        /\ Appended(j)
        /\ Finish(j, Done(j, "ok"))
        /\ UNCHANGED live
     \/ /\ store # "closed" /\ ~Expected(j)
        /\ Advance(j, [j EXCEPT !.step = "reload"])
        /\ Rollback(j)
        /\ UNCHANGED log
  /\ UNCHANGED spent /\ UNCHANGED Unmoved

\* After a lost race: was it this very operation that won?
CommitReload(j) ==
  /\ j.step = "reload"
  /\ \/ /\ ~Readable
        /\ Finish(j, Done(j, "refused"))
        /\ UNCHANGED live
     \/ /\ Readable /\ Taken(j.place, j.request)
        /\ Finish(j, Done(j, "error"))
        /\ UNCHANGED live
     \/ /\ Readable /\ ~Taken(j.place, j.request) /\ TurnsAt(j.place) = <<>>
        /\ Finish(j, Done(j, "conflict"))
        /\ UNCHANGED live
     \/ /\ Readable /\ ~Taken(j.place, j.request) /\ TurnsAt(j.place) # <<>>
        /\ IF Replayable(TurnsAt(j.place))
           THEN Resynchronise(j, IF Recorded(j.request.op) # {} THEN "ok" ELSE "conflict")
           ELSE Finish(j, Done(j, "refused")) /\ UNCHANGED live
  /\ UNCHANGED <<log, spent>> /\ UNCHANGED Unmoved

\* The database fails.  A load gives up on contention, or raises; an append
\* raises with its transaction rolled back or, unknown to the caller, done.
DatabaseFault(j) ==
  /\ spent.faults < MaxFaults                                       \* bound
  /\ spent' = [spent EXCEPT !.faults = @ + 1]
  /\ \/ /\ j.step \in {"load", "reload"}
        /\ \E result \in {"conflict", "error"} : Finish(j, Done(j, result))
        /\ UNCHANGED <<live, log>>
     \/ /\ j.step = "append" /\ store # "closed"
        /\ Finish(j, Done(j, "error"))
        /\ Rollback(j)
        /\ \/ UNCHANGED log
           \/ Expected(j) /\ Appended(j)
  /\ UNCHANGED Unmoved

JobStep(j) ==
  \/ PrepareExport(j) \/ PrepareLoad(j)
  \/ CommitBuild(j) \/ CommitAppend(j) \/ CommitReload(j)
-----------------------------------------------------------------------------
(***************************************************************************)
(* process_turn: the coroutine that holds session.lock.                    *)
(***************************************************************************)
Admits(x, r) ==
  /\ registry[x] = "active" \/ (registry[x] = "recovered" /\ r.act = "none")
  /\ \/ memo[x][r.op].request = r /\ memo[x][r.op].answer = NoAnswer
     \/ /\ memo[x][r.op] = NoMemo
        /\ Cardinality({op \in Operations : memo[x][op] # NoMemo}) < MaxOperations

\* An answered operation is answered from the memo; the others start here.
Submit(x, r) ==
  /\ task[x] = Idle /\ Admits(x, r)
  /\ memo' = [memo EXCEPT ![x][r.op].request = r]
  /\ task' = [task EXCEPT ![x] = [stage |-> "preparing", request |-> r,
                                  checkpoint |-> NoState, before |-> NoState,
                                  version |-> 0, answer |-> NoAnswer]]
  /\ jobs' = jobs \cup {Job(x, "export", r)}
  /\ UNCHANGED <<log, store, live, registry, born, told, spent>>

Ended(x) == task' = [task EXCEPT ![x] = Idle]
OwnJobs(x) == {j \in jobs : j.place = x /\ j.abandoned = 0}
Collect(x) == jobs' = jobs \ OwnJobs(x)
Outcome(x, stage, results) ==
  {j \in OwnJobs(x) : task[x].stage = stage /\ j.step = "done" /\ j.result \in results}

Respond(x, answer) ==
  /\ told' = told \cup {[session |-> SessionOf[x], request |-> task[x].request,
                         answer |-> answer]}
  /\ memo' = [memo EXCEPT ![x][task[x].request.op].answer = answer]
  /\ Ended(x)

Stopped(x) == "stopped" \in live[x].marks

\* A fresh preparation: the rollback point is taken and the engine may run.
Prepared(x) ==
  \E j \in Outcome(x, "preparing", {"ready"}) :
    /\ IF Stopped(x)
       THEN Ended(x)
       ELSE task' = [task EXCEPT ![x] = [@ EXCEPT !.stage = "understanding",
                       !.checkpoint = live[x], !.before = j.before, !.version = j.version]]
    /\ Collect(x)
    /\ UNCHANGED <<log, store, live, registry, memo, born, told, spent>>

\* The operation is in the journal.  Its answer is repeated; a preview that
\* went with it is asked for again, if this process has completed it before.
Replayed(x) ==
  \E j \in Outcome(x, "preparing", {"existing"}) :
    LET r == task[x].request
        again == r.act = "preview" /\ j.recorded.disposition = "CONTINUE"
    IN  /\ IF r.act = "preview" /\ memo[x][r.op].acted = "no"
           THEN Ended(x) /\ UNCHANGED <<memo, told>>
           ELSE IF again
           THEN /\ task' = [task EXCEPT ![x] = [@ EXCEPT !.stage = "previewing again",
                              !.checkpoint = live[x], !.answer = j.recorded]]
                /\ UNCHANGED <<memo, told>>
           ELSE Respond(x, j.recorded)
        /\ Collect(x)
        /\ UNCHANGED <<log, store, live, registry, born, spent>>

\* mutant: an error of the journal is not delivered
UnpreparedMisused(x) ==
  \E j \in Outcome(x, "preparing", {"misused"}) :
    /\ memo' = [memo EXCEPT ![x][task[x].request.op] = NoMemo]
    /\ Ended(x) /\ Collect(x)
    /\ UNCHANGED <<log, store, live, registry, born, told, spent>>

\* An operation identifier used before for something else is forgotten here;
\* another error of the journal leaves everything as it is.
Unprepared(x) ==
  \E j \in Outcome(x, "preparing", {"misused", "error"}) :
    /\ memo' = IF j.result = "misused"
               THEN [memo EXCEPT ![x][task[x].request.op] = NoMemo] ELSE memo
    /\ Ended(x) /\ Collect(x)
    /\ UNCHANGED <<log, store, live, registry, born, told, spent>>

\* The live state cannot be trusted, or the stream cannot: the session goes.
Discard(x) ==
  /\ Outcome(x, "preparing", {"conflict", "refused"})
       \cup Outcome(x, "committing", {"conflict", "refused"}) # {}
  /\ Teardown(x)
  /\ Ended(x) /\ Collect(x)
  /\ UNCHANGED <<log, store, born, told, spent>>

CommitStage(x, answer) ==
  /\ task' = [task EXCEPT ![x].stage = "committing", ![x].answer = answer]
  /\ jobs' = jobs \cup {[Job(x, "build", task[x].request) EXCEPT
                           !.before = task[x].before, !.version = task[x].version,
                           !.answer = answer]}

\* The model has read the turn; the engine advances.
Process(x) ==
  LET r == task[x].request
      answer == Answer(live[x], r.text)
  IN  /\ task[x].stage = "understanding"
      /\ IF Stopped(x)
         THEN Ended(x) /\ UNCHANGED <<live, jobs>>
         ELSE /\ SetLive(x, EngineTurn(live[x], r.text))
              /\ IF r.act = "preview" /\ answer.disposition = "CONTINUE"
                 THEN /\ task' = [task EXCEPT ![x].stage = "previewing", ![x].answer = answer]
                      /\ UNCHANGED jobs
                 ELSE CommitStage(x, answer)
      /\ UNCHANGED <<log, store, registry, memo, born, told, spent>>

Acted(x) == [memo EXCEPT ![x][task[x].request.op].acted = "yes"]

Preview(x) ==
  /\ task[x].stage = "previewing"
  /\ memo' = Acted(x)
  /\ CommitStage(x, task[x].answer)
  /\ UNCHANGED <<log, store, live, registry, born, told, spent>>

PreviewAgain(x) ==
  /\ task[x].stage = "previewing again"
  /\ Respond(x, task[x].answer)
  /\ UNCHANGED <<log, store, live, registry, jobs, born, spent>>

PreviewFail(x) ==
  /\ task[x].stage \in {"previewing", "previewing again"}
  /\ SetLive(x, task[x].checkpoint)
  /\ Ended(x)
  /\ UNCHANGED <<log, store, registry, memo, jobs, born, told, spent>>

\* mutant: whatever the commit says is taken for success
CommittedAnyway(x) ==
  /\ Outcome(x, "committing", {"ok", "error", "conflict", "refused"}) # {}
  /\ task' = [task EXCEPT ![x].stage = "recalling"]
  /\ Collect(x)
  /\ UNCHANGED <<log, store, live, registry, memo, born, told, spent>>

\* Recall follows the commit; it may take its time but decides nothing.
Committed(x) ==
  /\ Outcome(x, "committing", {"ok"}) # {}
  /\ task' = [task EXCEPT ![x].stage = "recalling"]
  /\ Collect(x)
  /\ UNCHANGED <<log, store, live, registry, memo, born, told, spent>>

CommitFailed(x) ==
  /\ Outcome(x, "committing", {"error"}) # {}
  /\ SetLive(x, task[x].checkpoint)
  /\ Ended(x) /\ Collect(x)
  /\ UNCHANGED <<log, store, registry, memo, born, told, spent>>

Recalled(x) ==
  /\ task[x].stage = "recalling"
  /\ Respond(x, task[x].answer)
  /\ UNCHANGED <<log, store, live, registry, jobs, born, spent>>

TurnStep(x) ==
  \/ Prepared(x) \/ Replayed(x) \/ Unprepared(x) \/ Discard(x) \/ Process(x)
  \/ Preview(x) \/ PreviewAgain(x) \/ PreviewFail(x)
  \/ Committed(x) \/ CommitFailed(x) \/ Recalled(x)

\* Cancellation arrives at an await.  It stops a worker thread that has not
\* started; one that runs goes on, and nobody waits for it.
Cancel(x) ==
  /\ task[x] # Idle
  /\ spent.cancels < MaxCancels                                     \* bound
  /\ spent' = [spent EXCEPT !.cancels = @ + 1]
  /\ \/ /\ \A j \in OwnJobs(x) : j.step \in {"export", "build", "done"}
        /\ Collect(x)
     \/ /\ \E j \in OwnJobs(x) : j.step # "done"
        /\ jobs' = (jobs \ OwnJobs(x)) \cup
                     {[j EXCEPT !.abandoned = spent.cancels + 1] : j \in OwnJobs(x)}
  /\ IF task[x].stage \in {"previewing", "previewing again", "committing"}
     THEN SetLive(x, task[x].checkpoint)
     ELSE UNCHANGED live
  /\ Ended(x)
  /\ UNCHANGED <<log, store, registry, memo, born, told>>

-----------------------------------------------------------------------------
(***************************************************************************)
(* The environment: the operator's purge and erasure, and crashes.         *)
(***************************************************************************)
Purge ==
  /\ store = "whole" /\ log # <<>>
  /\ store' = "holed"
  /\ UNCHANGED <<log, live, registry, memo, task, jobs, born, told, spent>>

Erase ==
  /\ store # "closed" /\ log # <<>>
  /\ store' = "closed"
  /\ UNCHANGED <<log, live, registry, memo, task, jobs, born, told, spent>>

\* All that is in the process's memory goes, its threads included.
Crash(p) ==
  LET down == {x \in Places : ProcessOf[x] = p}
      reset(f, value) == [x \in Places |-> IF x \in down THEN value ELSE f[x]]
  IN  /\ spent.crashes < MaxCrashes                                 \* bound
      /\ spent' = [spent EXCEPT !.crashes = @ + 1]
      /\ live' = reset(live, NoState)
      /\ registry' = reset(registry, "absent")
      /\ memo' = reset(memo, [op \in Operations |-> NoMemo])
      /\ task' = reset(task, Idle)
      /\ jobs' = {j \in jobs : j.place \notin down}
      /\ UNCHANGED <<log, store, born, told>>

Next ==
  \/ \E x \in Places : Create(x) \/ Resume(x) \/ Close(x)
  \/ \E x \in Places, r \in Requests : Submit(x, r)
  \/ \E x \in Places : TurnStep(x) \/ Cancel(x)
  \/ \E j \in jobs : JobStep(j) \/ DatabaseFault(j)
  \/ Purge \/ Erase
  \/ \E p \in Processes : Crash(p)

Spec == Init /\ [][Next]_vars

\* The coroutines run on, and so do their worker threads.
FairSpec ==
  /\ Spec
  /\ \A x \in Places :
       /\ WF_vars(TurnStep(x))
       /\ WF_vars(\E j \in OwnJobs(x) : JobStep(j))

-----------------------------------------------------------------------------
States == [count : Nat, digests : Seq(Texts \cup {"none"}), marks : SUBSET {"abused", "stopped"}]
Answers == [count : Nat, disposition : {"none", "STOP", "REDIRECT", "CONTINUE"}]
Events == [session : Sessions, request : Requests, digest : Texts,
           marks : SUBSET {"abused", "stopped"}, result : Answers]
Memos == [request : Requests \cup {NoRequest}, answer : Answers, acted : {"no", "yes"}]
Turns == [stage : Stages, request : Requests, checkpoint : States, before : States,
          version : Nat, answer : Answers]
Threads == [place : Places, abandoned : 0..MaxCancels,
            step : {"export", "load", "build", "append", "reload", "done"},
            request : Requests, before : States, version : Nat,
            answer : Answers, event : {NoEvent} \cup Events, recorded : Answers,
            result : {"none", "refused", "misused", "existing", "conflict",
                      "ready", "error", "ok"}]

TypeOK ==
  /\ log \in Seq(Events)
  /\ store \in {"whole", "holed", "closed"}
  /\ live \in [Places -> States]
  /\ registry \in [Places -> {"absent", "active", "recovered", "closing"}]
  /\ memo \in [Places -> [Operations -> Memos]]
  /\ task \in [Places -> {Idle} \cup Turns]
  /\ jobs \subseteq Threads
  /\ born \subseteq Sessions
  /\ told \subseteq [session : Sessions, request : Requests, answer : Answers]
  /\ spent \in [faults : 0..MaxFaults, cancels : 0..MaxCancels, crashes : 0..MaxCrashes]

\* Retries, races between two places and lost acknowledgements never record an
\* operation twice.
OperationOnce ==
  \A i, k \in 1..Len(log) : log[i].request.op = log[k].request.op => i = k

\* What is written can be read again: no interleaving leaves a stream that a
\* replay refuses as corrupt, or one longer than a load accepts.
StreamReadable ==
  /\ Len(log) =< MaxEvents
  /\ \A s \in Sessions : Replayable(TurnsOf(log, s))

Before(turns, i) == IF i = 1 THEN Fresh ELSE Replay(SubSeq(turns, 1, i - 1))

\* "stale live state cannot fork a session" (docs/ARCHITECTURE.md:540): every
\* event is what the engine makes of its text after the session's events
\* before it, flags and digest included.
TurnsCompose ==
  \A s \in Sessions :
    LET turns == TurnsOf(log, s)
    IN  \A i \in 1..Len(turns) :
          LET e == turns[i]
              state == Before(turns, i)
          IN  /\ e.result = Answer(state, e.request.text)
              /\ e.marks = Marked(state, e.request.text)
              /\ e.digest = e.request.text

\* Two processes and a session beside them leave a stream that is read again and
\* says what happened.
StreamSound == StreamReadable /\ TurnsCompose

\* "an exact retry returns the persisted event even after an ambiguous
\* acknowledgement" (docs/DATA_MODEL.md:87): whatever a client has been
\* answered is on record, with that very answer.  process_turn answers what
\* it computed, not what commit_turn found recorded, so this holds while one
\* place serves the session and no two turns of it have left threads behind.
ToldAsRecorded ==
  \A a \in told :
    \E i \in 1..Len(log) : /\ log[i].session = a.session
                           /\ log[i].request = a.request
                           /\ log[i].result = a.answer

\* An answer is never given for a turn that is not on record.
ToldOnRecord ==
  \A a \in told : \E i \in 1..Len(log) : /\ log[i].session = a.session
                                        /\ log[i].request = a.request

Resting(x) == task[x] = Idle /\ \A j \in jobs : j.place # x

\* A place between turns holds a state its session really had: failed actions,
\* failed commits and lost races leave nothing of the turn they undid.
RestsOnRecord ==
  \A x \in Places :
    Resting(x) /\ registry[x] # "absent" =>
      \/ live[x] = Fresh
      \/ \E i \in 1..Len(TurnsAt(x)) : live[x] = Replay(SubSeq(TurnsAt(x), 1, i))

\* A session that is gone has left no conversation in the engine's memory.
NothingLeaks ==
  \A x \in Places : Resting(x) /\ registry[x] = "absent" => live[x] = NoState

\* What two processes tell their clients and keep in memory is on record.
MemoryOnRecord == ToldOnRecord /\ RestsOnRecord /\ NothingLeaks

\* Every turn ends: it is answered, refused, or its session is discarded.
TurnsEnd == \A x \in Places : task[x] # Idle ~> task[x] = Idle
=============================================================================
