--------------------------- MODULE SessionRegistry ---------------------------
(***************************************************************************)
(* simulator/service.py: the registry of live sessions.  Sessions are made *)
(* under a capacity, resumed from the journal by threads of the request    *)
(* pool, closed by requests, and discarded by a turn that finds its        *)
(* history gone; every teardown cleans up what the session left with the   *)
(* action providers, which may fail or be cancelled half way.              *)
(*                                                                         *)
(* Handlers run on the event loop, where a step lasts to the next await,   *)
(* except resume_session, which runs in a thread and interleaves anywhere  *)
(* it does not hold the registry lock, and the journal calls of a turn:    *)
(* those go on when the turn is cancelled, and write its conversation back *)
(* whenever they come to it.  Otherwise a turn is here only for what it    *)
(* does to the registry; DurableTurns has its inside.                      *)
(***************************************************************************)
EXTENDS Naturals, FiniteSets

CONSTANTS Ids,          \* session identifiers
          Tasks,        \* concurrent requests
          MaxSessions,
          MaxObjects,   \* bound: _Session objects ever made
          MaxThreads,   \* bound: sessions with a cancelled turn's thread at one time
          CancelPoints  \* where a request's task may be cancelled

ASSUME BoundsAssumption == MaxSessions \in Nat \ {0} /\ {MaxObjects, MaxThreads} \subseteq Nat
ASSUME CancelAssumption == CancelPoints \subseteq {"waiting", "turning", "closing", "discarding"}

VARIABLES sessions,   \* _sessions: an object by identifier, 0 where there is none
          admitting,  \* _admitting
          engine,     \* identifiers for which the engine holds a conversation
          resources,  \* external: identifiers with callbacks or decks at a provider
          made,       \* _Session objects made so far
          closing,    \* objects whose closing flag is up
          task,       \* requests: where they are, for which session and object
          abandoned,  \* identifiers at which a thread of a cancelled turn still runs
          reinstated  \* history: the conversations such a thread put back

threads == <<abandoned, reinstated>>
vars == <<sessions, admitting, engine, resources, made, closing, task, threads>>

Objects == 1..MaxObjects
Idle == [at |-> "idle"]
At(t, stages) == task[t].at \in stages
Sets(t, stage) == [task EXCEPT ![t].at = stage]
Ends(t) == [task EXCEPT ![t] = Idle]

\* session.lock: these stages are inside it
Locked == {"turning", "discarding", "closing", "stopping"}
Held(o) == \E t \in Tasks : At(t, Locked) /\ task[t].object = o

Registered == {i \in Ids : sessions[i] # 0}

Init ==
  /\ sessions = [i \in Ids |-> 0]
  /\ admitting = {} /\ engine = {} /\ resources = {} /\ closing = {}
  /\ abandoned = {} /\ reinstated = {}
  /\ made = 0
  /\ task = [t \in Tasks |-> Idle]
-----------------------------------------------------------------------------

\* ConversationEngine.close_session()
Forget(i) == engine' = engine \ {i} /\ reinstated' = reinstated \ {i}

\* _reserve_capacity()
HasCapacity == Cardinality(Registered) + Cardinality(admitting) < MaxSessions

\* create_session(): a new identifier, in one step under the registry lock.
Create(i) ==
  /\ made < MaxObjects                                              \* bound
  /\ sessions[i] = 0 /\ i \notin admitting \cup engine \cup resources
  /\ HasCapacity
  /\ made' = made + 1
  /\ sessions' = [sessions EXCEPT ![i] = made']
  /\ engine' = engine \cup {i}
  /\ UNCHANGED <<admitting, resources, closing, task, threads>>
-----------------------------------------------------------------------------
(***************************************************************************)
(* resume_session(), in a thread                                           *)
(***************************************************************************)
Unclaimed(i) == sessions[i] = 0                  \* mutant: a reservation is not looked for
Resumable(i) == sessions[i] = 0 /\ i \notin admitting

Resume(t, i) ==
  /\ At(t, {"idle"}) /\ made < MaxObjects                           \* bound
  /\ Resumable(i) /\ HasCapacity
  /\ admitting' = admitting \cup {i}
  /\ task' = [task EXCEPT ![t] = [at |-> "restoring", id |-> i, object |-> 0]]
  /\ UNCHANGED <<sessions, engine, resources, made, closing, threads>>

\* restore_checkpoint() raises if the engine has the session; so may the replay.
Restore(t) ==
  LET i == task[t].id
  IN  /\ At(t, {"restoring"})
      /\ \/ i \notin engine /\ engine' = engine \cup {i} /\ task' = Sets(t, "restored")
         \/ UNCHANGED engine /\ task' = Sets(t, "failing")
      /\ UNCHANGED <<sessions, admitting, resources, made, closing, threads>>

Publish(t) ==
  LET i == task[t].id
  IN  /\ At(t, {"restored"}) /\ made < MaxObjects                    \* bound
      /\ made' = made + 1
      /\ sessions' = [sessions EXCEPT ![i] = made']
      /\ admitting' = admitting \ {i}
      /\ task' = Ends(t)
      /\ UNCHANGED <<engine, resources, closing, threads>>

ResumeFails(t) ==
  LET i == task[t].id
  IN  /\ \/ /\ At(t, {"failing", "restored"})
            /\ Forget(i)
            /\ task' = Sets(t, "failed")
            /\ UNCHANGED admitting
         \/ /\ At(t, {"failed"})
            /\ admitting' = admitting \ {i}
            /\ task' = Ends(t)
            /\ UNCHANGED <<engine, reinstated>>
      /\ UNCHANGED <<sessions, resources, made, closing, abandoned>>
-----------------------------------------------------------------------------
(***************************************************************************)
(* _get_session(), and the wait for session.lock of a turn or a close      *)
(***************************************************************************)
Found(i) == sessions[i]

Await(t, i, stage) ==
  /\ At(t, {"idle"}) /\ sessions[i] # 0
  /\ task' = [task EXCEPT ![t] = [at |-> stage, id |-> i, object |-> Found(i)]]
  /\ UNCHANGED <<sessions, admitting, engine, resources, made, closing, threads>>

Request(t, i) == \/ sessions[i] \notin closing /\ Await(t, i, "turn")
                 \/ Await(t, i, "close")

\* mutant: a session resumed meanwhile is taken for the one that was found
IsRegistered(o, i) == sessions[i] # 0

\* _ensure_session_active()
IsActive(o, i) == o \notin closing /\ sessions[i] = o

LockTurn(t) ==
  LET i == task[t].id
      o == task[t].object
  IN  /\ At(t, {"turn"}) /\ ~Held(o)
      /\ task' = IF IsActive(o, i) THEN Sets(t, "turning") ELSE Ends(t)
      /\ UNCHANGED <<sessions, admitting, engine, resources, made, closing, threads>>

\* The previews of a turn leave callbacks and decks behind.
Preview(t) ==
  /\ At(t, {"turning"})
  /\ resources' = resources \cup {task[t].id}
  /\ UNCHANGED <<sessions, admitting, engine, made, closing, task, threads>>

EndTurn(t) ==
  /\ At(t, {"turning"})
  /\ task' = Ends(t)
  /\ UNCHANGED <<sessions, admitting, engine, resources, made, closing, threads>>

\* _begin_teardown(): the identifier is held so that no resume interleaves.
BeginTeardown(i) ==
  sessions' = [sessions EXCEPT ![i] = 0] /\ admitting' = admitting \cup {i}

Teardown(t, stage) ==
  LET i == task[t].id
      o == task[t].object
  IN  /\ closing' = closing \cup {o}
      /\ \/ /\ sessions[i] = o
            /\ BeginTeardown(i)
            /\ task' = Sets(t, stage)
         \/ /\ sessions[i] # o
            /\ task' = Ends(t)
            /\ UNCHANGED <<sessions, admitting>>
      /\ UNCHANGED <<engine, resources, made, threads>>

\* _discard_session(), from a turn whose journal is gone or contradicts it.
Discard(t) == At(t, {"turning"}) /\ Teardown(t, "discarding")

LockClose(t) == At(t, {"close"}) /\ ~Held(task[t].object) /\ Teardown(t, "closing")

\* cleanup_session() ended.  A close goes on to await its deliberation.
CleansUp(t) ==
  LET i == task[t].id
  IN  /\ At(t, {"closing", "discarding"})
      /\ resources' = resources \ {i}
      /\ \/ /\ At(t, {"closing"})
            /\ task' = Sets(t, "stopping")
            /\ UNCHANGED <<admitting, engine, reinstated>>
         \/ /\ At(t, {"discarding"})
            /\ Forget(i) /\ admitting' = admitting \ {i}
            /\ task' = Ends(t)
      /\ UNCHANGED <<sessions, made, closing, abandoned>>

FinishClose(t) ==
  LET i == task[t].id
  IN  /\ At(t, {"stopping"})
      /\ Forget(i) /\ admitting' = admitting \ {i}
      /\ task' = Ends(t)
      /\ UNCHANGED <<sessions, resources, made, closing, abandoned>>

\* mutant: a session whose cleanup failed is dropped
AbortDrops(t) ==
  /\ admitting' = admitting \ {task[t].id}
  /\ UNCHANGED sessions

\* mutant: the reservation of a failed teardown is kept
AbortHolds(t) ==
  /\ sessions' = [sessions EXCEPT ![task[t].id] = task[t].object]
  /\ UNCHANGED admitting

\* _abort_teardown(): the session is back, still closing.
AbortTeardown(t) ==
  /\ sessions' = [sessions EXCEPT ![task[t].id] = task[t].object]
  /\ admitting' = admitting \ {task[t].id}

\* cleanup_session() raised.
CleanupFails(t) ==
  /\ At(t, {"closing", "discarding"})
  /\ AbortTeardown(t)
  /\ task' = Ends(t)
  /\ UNCHANGED <<engine, resources, made, closing, threads>>
-----------------------------------------------------------------------------
(***************************************************************************)
(* Cancellation at an await.  close_session() catches it like any error of *)
(* the cleanup; _discard_session() catches three kinds of error, and       *)
(* cancellation is none of them.  What stop() awaits swallows it.  A turn  *)
(* that is cancelled while a journal call runs for it leaves the thread.   *)
(***************************************************************************)
CancelCleanup(t) ==
  \/ At(t, {"closing"}) /\ AbortTeardown(t)
  \/ At(t, {"discarding"}) /\ UNCHANGED <<sessions, admitting>>

Cancel(t) ==
  /\ \/ /\ "waiting" \in CancelPoints /\ At(t, {"turn", "close"})
        /\ UNCHANGED <<sessions, admitting, abandoned>>
     \/ /\ "turning" \in CancelPoints /\ At(t, {"turning"})
        /\ \/ UNCHANGED abandoned
           \/ /\ abandoned' = abandoned \cup {task[t].id}
              /\ Cardinality(abandoned') =< MaxThreads                    \* bound
        /\ UNCHANGED <<sessions, admitting>>
     \/ /\ At(t, {"closing", "discarding"} \cap CancelPoints)
        /\ CancelCleanup(t)
        /\ UNCHANGED abandoned
  /\ task' = Ends(t)
  /\ UNCHANGED <<engine, resources, made, closing, reinstated>>

\* The thread of a commit that failed restores the conversation it began from, with
\* no look at the registry; then, or without, it ends.
Reinstate(i) ==
  /\ i \in abandoned
  /\ engine' = engine \cup {i}
  /\ reinstated' = reinstated \cup ({i} \ engine)
  /\ abandoned' \in {abandoned, abandoned \ {i}}
  /\ UNCHANGED <<sessions, admitting, resources, made, closing, task>>

ThreadEnds(i) ==
  /\ i \in abandoned
  /\ abandoned' = abandoned \ {i}
  /\ UNCHANGED <<sessions, admitting, engine, resources, made, closing, task, reinstated>>

Proceed(t) == \/ Restore(t) \/ Publish(t) \/ ResumeFails(t)
              \/ LockTurn(t) \/ EndTurn(t) \/ LockClose(t)
              \/ CleansUp(t) \/ FinishClose(t) \/ CleanupFails(t)

Next ==
  \/ \E i \in Ids : Create(i) \/ Reinstate(i) \/ ThreadEnds(i)
  \/ \E t \in Tasks, i \in Ids : Resume(t, i) \/ Request(t, i)
  \/ \E t \in Tasks : Preview(t) \/ Discard(t) \/ Proceed(t) \/ Cancel(t)

Spec == Init /\ [][Next]_vars

\* A request that has begun is carried on: awaits end, and locks are handed on.
FairSpec == Spec /\ \A t \in Tasks : WF_vars(Proceed(t))
-----------------------------------------------------------------------------
Stages == {"turn", "close", "turning", "discarding", "closing", "stopping",
           "restoring", "restored", "failing", "failed"}

(***************************************************************************)
(* Every variable keeps its type.                                          *)
(***************************************************************************)
TypeOK ==
  /\ sessions \in [Ids -> 0..MaxObjects]
  /\ admitting \subseteq Ids /\ engine \subseteq Ids /\ resources \subseteq Ids
  /\ abandoned \subseteq Ids /\ reinstated \subseteq Ids
  /\ made \in 0..MaxObjects /\ closing \subseteq Objects
  /\ task \in [Tasks -> {Idle} \cup [at : Stages, id : Ids, object : 0..MaxObjects]]

(***************************************************************************)
(* Sessions served, restored and torn down never exceed the capacity:      *)
(* a teardown that fails always finds room to put its session back.        *)
(***************************************************************************)
WithinCapacity == Cardinality(Registered) + Cardinality(admitting) =< MaxSessions

Tearing(i) == {t \in Tasks : At(t, {"discarding", "closing", "stopping"}) /\ task[t].id = i}
Resuming(i) == {t \in Tasks : At(t, {"restoring", "restored", "failing", "failed"})
                              /\ task[t].id = i}

(***************************************************************************)
(* An identifier is served, or one request restores it, or one tears it    *)
(* down; never two of these, so no cleanup by prefix erases what a resume  *)
(* has just made.                                                          *)
(***************************************************************************)
OneOwner ==
  \A i \in Ids : /\ Cardinality(Tearing(i) \cup Resuming(i)) =< 1
                 /\ Tearing(i) \cup Resuming(i) # {} => sessions[i] = 0 /\ i \in admitting

(***************************************************************************)
(* The engine has a conversation for every session that is served.  One    *)
(* that is neither served nor being torn down or restored was put back by  *)
(* the thread of a cancelled turn, and what was so put back is never       *)
(* served: a resume that meets it is refused.                              *)
(***************************************************************************)
ConversationsMatch ==
  /\ Registered \subseteq engine
  /\ engine \subseteq Registered \cup admitting \cup reinstated
  /\ Registered \cap reinstated = {}

(***************************************************************************)
(* docs/SIMULATOR.md:228: "Use Close session to remove process-local       *)
(* session [...] history".  Not so of the conversation, once a thread has  *)
(* put it back: MCConversationBack.cfg.                                    *)
(***************************************************************************)
ClosedForgotten == engine \subseteq Registered \cup admitting

(***************************************************************************)
(* What the registry, the reservations and the engine say of an identifier *)
(* agrees, through every overlap of resumes, closes and failures.          *)
(***************************************************************************)
AdmissionSound == WithinCapacity /\ OneOwner /\ ConversationsMatch

(***************************************************************************)
(* A turn that got the lock works on the session object that is served,    *)
(* whatever was closed, discarded or resumed while it waited.              *)
(***************************************************************************)
TurnsServed ==
  \A t \in Tasks : At(t, {"turning"}) =>
    sessions[task[t].id] = task[t].object /\ task[t].object \notin closing

(***************************************************************************)
(* docs/SIMULATOR.md:228: "A failed or canceled cleanup keeps the session  *)
(* closed to normal work but permits another close request to retry        *)
(* cleanup."  What a session left with a provider stays within reach: the  *)
(* session is still there to be closed, or a teardown is at it.            *)
(***************************************************************************)
CleanupRetryable == \A i \in resources : sessions[i] # 0 \/ Tearing(i) # {}

(***************************************************************************)
(* A reservation is given back: no identifier and no part of the capacity  *)
(* stays taken by a resume or a teardown that is over.                     *)
(***************************************************************************)
ReservationsEnd == \A i \in Ids : i \in admitting ~> i \notin admitting
=============================================================================
