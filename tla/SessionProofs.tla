---------------------------- MODULE SessionProofs ----------------------------
(***************************************************************************)
(* Proofs about sessions, for any number of identifiers, requests and      *)
(* sessions, and then about the conversation one holds, for any texts,     *)
(* languages, labels and claims.  The two share no state: a step of one    *)
(* says nothing of the other.                                              *)
(*                                                                         *)
(* IInv is inductive for SessionRegistry.  Of Conversation, Restoring says *)
(* that the rebuilt conversation and the other agree in all a checkpoint   *)
(* holds and that both are sound; Meaning, that the language pending is    *)
(* the last one heard; Rephrasing, that the counts of what was asked are   *)
(* past every sentence said; Typing, that every field is of its type; and  *)
(* Judged, that the evidence is exactly what the turns gave.  What safety  *)
(* hears in the clauses of a text needs no invariant: the text is any      *)
(* sequence, and the proofs are by least positions in it.                  *)
(***************************************************************************)
EXTENDS SessionRegistry, Conversation, FiniteSetTheorems, SequenceTheorems, WellFoundedInduction,
        TLAPS

-----------------------------------------------------------------------------
\* The requests that hold the reservation of their identifier.
Owning == {"restoring", "restored", "failing", "failed",
           "discarding", "closing", "stopping"}

\* An owner has its identifier to itself, and the identifier is not served.
OwnersAlone ==
  /\ \A t \in Tasks : At(t, Owning) => sessions[task[t].id] = 0 /\ task[t].id \in admitting
  /\ \A t, u \in Tasks :
       At(t, Owning) /\ At(u, Owning) /\ task[t].id = task[u].id => t = u

\* What a thread put back, and nobody has removed since, is in the engine.
StillBack == reinstated \subseteq engine

\* What a request knows of the engine at its stage, and of the object it found.
StagesKnow ==
  \A t \in Tasks :
    /\ At(t, {"restored", "discarding", "closing"}) => task[t].id \in engine \ reinstated
    /\ At(t, {"failed"}) => task[t].id \notin engine \ reinstated
    /\ At(t, Locked \cup {"turn", "close"}) => task[t].object # 0

\* A session's lock has one holder.
LocksExclusive ==
  \A t, u \in Tasks :
    At(t, Locked) /\ At(u, Locked) /\ task[t].object = task[u].object => t = u

Counted == IsFiniteSet(Registered) /\ IsFiniteSet(admitting)

IInv ==
  /\ TypeOK
  /\ OwnersAlone
  /\ StillBack
  /\ StagesKnow
  /\ LocksExclusive
  /\ ConversationsMatch
  /\ TurnsServed
  /\ Counted
  /\ WithinCapacity

-----------------------------------------------------------------------------
\* A request that goes on to another stage keeps its identifier and object.
LEMMA Staged ==
  ASSUME TypeOK, NEW t \in Tasks, NEW s \in Stages,
         task[t].at # "idle", task' = Sets(t, s)
  PROVE  /\ task[t] \in [at : Stages, id : Ids, object : 0..MaxObjects]
         /\ task'[t] = [at |-> s, id |-> task[t].id, object |-> task[t].object]
         /\ \A u \in Tasks : u # t => task'[u] = task[u]
         /\ task' \in [Tasks -> {Idle} \cup [at : Stages, id : Ids, object : 0..MaxObjects]]
<1>1. task[t] \in [at : Stages, id : Ids, object : 0..MaxObjects]
  BY DEF TypeOK, Idle
<1>2. task'[t] = [task[t] EXCEPT !.at = s]
  BY DEF TypeOK, Sets
<1>3. task'[t] = [at |-> s, id |-> task[t].id, object |-> task[t].object]
  BY <1>1, <1>2
<1> QED
  BY <1>1, <1>3 DEF TypeOK, Sets

LEMMA StagedAt ==
  ASSUME TypeOK, NEW t \in Tasks, NEW s \in Stages,
         task[t].at # "idle", task' = Sets(t, s)
  PROVE  /\ task'[t].at = s /\ task'[t].id = task[t].id
         /\ \A u \in Tasks : u # t => task'[u] = task[u]
<1>1. /\ task'[t] = [at |-> s, id |-> task[t].id, object |-> task[t].object]
      /\ \A u \in Tasks : u # t => task'[u] = task[u]
  BY Staged
<1> QED
  BY <1>1

\* A request that ends leaves no trace of its own.
LEMMA Ended ==
  ASSUME TypeOK, NEW t \in Tasks, task' = Ends(t)
  PROVE  /\ task'[t] = Idle /\ task'[t].at = "idle"
         /\ \A u \in Tasks : u # t => task'[u] = task[u]
         /\ task' \in [Tasks -> {Idle} \cup [at : Stages, id : Ids, object : 0..MaxObjects]]
BY DEF TypeOK, Ends, Idle

\* A request at work has an identifier and an object.
LEMMA Working ==
  ASSUME TypeOK, NEW t \in Tasks, task[t].at # "idle"
  PROVE  task[t].id \in Ids /\ task[t].object \in 0..MaxObjects /\ task[t].at \in Stages
BY DEF TypeOK, Idle

LEMMA InitInv == Init => IInv
<1> SUFFICES ASSUME Init PROVE IInv
  OBVIOUS
<1>1. TypeOK
  BY BoundsAssumption DEF Init, TypeOK
<1>2. \A t \in Tasks : task[t].at = "idle"
  BY DEF Init, Idle
<1>3. Registered = {} /\ admitting = {} /\ engine = {} /\ reinstated = {}
  BY DEF Init, Registered
<1>4. Counted /\ WithinCapacity
  BY <1>3, FS_EmptySet, BoundsAssumption DEF Counted, WithinCapacity
<1>5. OwnersAlone /\ StagesKnow /\ LocksExclusive /\ TurnsServed
  BY <1>2 DEF OwnersAlone, StagesKnow, LocksExclusive, TurnsServed, At, Owning, Locked
<1> QED
  BY <1>1, <1>3, <1>4, <1>5 DEF IInv, ConversationsMatch, StillBack

-----------------------------------------------------------------------------
(***************************************************************************)
(* The invariant but for the arithmetic of the capacity, action by action. *)
(***************************************************************************)
Core == /\ TypeOK /\ OwnersAlone /\ StillBack /\ StagesKnow /\ LocksExclusive
        /\ ConversationsMatch /\ TurnsServed

LEMMA CreateCore ==
  ASSUME Core, NEW i \in Ids, Create(i)
  PROVE  Core'
<1>1. TypeOK'
  BY BoundsAssumption DEF Core, TypeOK, Create, threads
<1>2. OwnersAlone' /\ StagesKnow' /\ LocksExclusive' /\ TurnsServed'
  BY Working DEF Core, OwnersAlone, StagesKnow, LocksExclusive, TurnsServed, TypeOK,
     Create, threads, At, Owning, Locked
<1>3. ConversationsMatch' /\ StillBack'
  BY DEF Core, ConversationsMatch, StillBack, Registered, TypeOK, Create, threads
<1> QED
  BY <1>1, <1>2, <1>3 DEF Core

LEMMA ResumeCore ==
  ASSUME Core, NEW t \in Tasks, NEW i \in Ids, Resume(t, i)
  PROVE  Core'
<1>1. [at |-> "restoring", id |-> i, object |-> 0]
        \in [at : Stages, id : Ids, object : 0..MaxObjects]
  BY BoundsAssumption DEF Stages
<1>2. /\ task'[t] = [at |-> "restoring", id |-> i, object |-> 0]
      /\ \A u \in Tasks : u # t => task'[u] = task[u]
      /\ TypeOK'
  BY <1>1 DEF Core, TypeOK, Resume, threads
<1>3. OwnersAlone'
  BY <1>2, Working DEF Core, OwnersAlone, Resume, Resumable, At, Owning
<1>4. StagesKnow' /\ LocksExclusive' /\ TurnsServed'
  BY <1>2 DEF Core, StagesKnow, LocksExclusive, TurnsServed, Resume, threads, At, Locked
<1>5. ConversationsMatch' /\ StillBack'
  BY DEF Core, ConversationsMatch, StillBack, Registered, Resume, threads
<1> QED
  BY <1>2, <1>3, <1>4, <1>5 DEF Core

LEMMA RestoreCore ==
  ASSUME Core, NEW t \in Tasks, Restore(t)
  PROVE  Core'
<1> DEFINE i == task[t].id
<1>1. i \in Ids /\ i \in admitting /\ sessions[i] = 0
  BY Working DEF Core, OwnersAlone, Restore, At, Owning
<1>2. PICK s \in {"restored", "failing"} :
        /\ task' = Sets(t, s)
        /\ s = "restored" => i \notin engine /\ engine' = engine \cup {i}
        /\ s = "failing" => UNCHANGED engine
  BY DEF Restore
<1>3. /\ task'[t] = [at |-> s, id |-> i, object |-> task[t].object]
      /\ \A u \in Tasks : u # t => task'[u] = task[u]
      /\ task' \in [Tasks -> {Idle} \cup [at : Stages, id : Ids, object : 0..MaxObjects]]
  BY <1>2, Staged DEF Core, Restore, At, Stages
<1>4. UNCHANGED <<sessions, admitting, resources, made, closing, abandoned, reinstated>>
  BY DEF Restore, threads
<1>5. TypeOK'
  BY <1>1, <1>2, <1>3, <1>4 DEF Core, TypeOK
<1>6. OwnersAlone'
  BY <1>2, <1>3, <1>4 DEF Core, OwnersAlone, Restore, At, Owning
<1>7. StagesKnow'
  BY <1>2, <1>3, <1>4, Working DEF Core, StagesKnow, StillBack, OwnersAlone, Restore, At, Owning, Locked
<1>8. LocksExclusive' /\ TurnsServed'
  BY <1>2, <1>3, <1>4 DEF Core, LocksExclusive, TurnsServed, At, Locked
<1>9. ConversationsMatch' /\ StillBack'
  BY <1>1, <1>2, <1>4 DEF Core, ConversationsMatch, StillBack, Registered
<1> QED
  BY <1>5, <1>6, <1>7, <1>8, <1>9 DEF Core

LEMMA PublishCore ==
  ASSUME Core, NEW t \in Tasks, Publish(t)
  PROVE  Core'
<1> DEFINE i == task[t].id
<1>1. i \in Ids /\ i \in admitting /\ sessions[i] = 0 /\ i \in engine /\ i \notin reinstated
  BY Working DEF Core, OwnersAlone, StagesKnow, Publish, At, Owning
<1>2. /\ task'[t].at = "idle"
      /\ \A u \in Tasks : u # t => task'[u] = task[u]
      /\ task' \in [Tasks -> {Idle} \cup [at : Stages, id : Ids, object : 0..MaxObjects]]
  BY Ended DEF Core, Publish
<1>3. /\ sessions' = [sessions EXCEPT ![i] = made + 1] /\ made' = made + 1
      /\ admitting' = admitting \ {i}
      /\ UNCHANGED <<engine, resources, closing, abandoned, reinstated>>
  BY DEF Publish, threads
<1>4. TypeOK'
  BY <1>1, <1>2, <1>3, BoundsAssumption DEF Core, TypeOK, Publish
<1>5. OwnersAlone'
  BY <1>1, <1>2, <1>3, Working DEF Core, OwnersAlone, TypeOK, Publish, At, Owning
<1>6. StagesKnow' /\ LocksExclusive'
  BY <1>2, <1>3 DEF Core, StagesKnow, LocksExclusive, At, Locked
<1>7. TurnsServed'
  BY <1>1, <1>2, <1>3, Working DEF Core, TurnsServed, StagesKnow, TypeOK, At, Locked
<1>8. ConversationsMatch' /\ StillBack'
  BY <1>1, <1>3 DEF Core, ConversationsMatch, StillBack, Registered, TypeOK
<1> QED
  BY <1>4, <1>5, <1>6, <1>7, <1>8 DEF Core

LEMMA ResumeFailsCore ==
  ASSUME Core, NEW t \in Tasks, ResumeFails(t)
  PROVE  Core'
<1> DEFINE i == task[t].id
<1>1. i \in Ids /\ i \in admitting /\ sessions[i] = 0
  BY Working DEF Core, OwnersAlone, ResumeFails, At, Owning
<1>2. UNCHANGED <<sessions, resources, made, closing, abandoned>>
  BY DEF ResumeFails
<1>3. ASSUME At(t, {"failing", "restored"}), Forget(i), task' = Sets(t, "failed"),
             UNCHANGED admitting
      PROVE  Core'
  <2>1. /\ task'[t] = [at |-> "failed", id |-> i, object |-> task[t].object]
        /\ \A u \in Tasks : u # t => task'[u] = task[u]
        /\ task' \in [Tasks -> {Idle} \cup [at : Stages, id : Ids, object : 0..MaxObjects]]
    BY <1>3, Staged DEF Core, At, Stages
  <2>2. TypeOK'
    BY <1>1, <1>2, <1>3, <2>1 DEF Core, TypeOK, Forget
  <2>3. OwnersAlone'
    BY <1>2, <1>3, <2>1 DEF Core, OwnersAlone, At, Owning
  <2>4. StagesKnow'
    BY <1>2, <1>3, <2>1 DEF Core, StagesKnow, OwnersAlone, At, Owning, Locked, Forget
  <2>5. LocksExclusive' /\ TurnsServed'
    BY <1>2, <2>1 DEF Core, LocksExclusive, TurnsServed, At, Locked
  <2>6. ConversationsMatch' /\ StillBack'
    BY <1>1, <1>2, <1>3 DEF Core, ConversationsMatch, StillBack, Registered, Forget
  <2> QED
    BY <2>2, <2>3, <2>4, <2>5, <2>6 DEF Core
<1>4. ASSUME At(t, {"failed"}), admitting' = admitting \ {i}, task' = Ends(t),
             UNCHANGED <<engine, reinstated>>
      PROVE  Core'
  <2>1. /\ task'[t].at = "idle"
        /\ \A u \in Tasks : u # t => task'[u] = task[u]
        /\ task' \in [Tasks -> {Idle} \cup [at : Stages, id : Ids, object : 0..MaxObjects]]
    BY <1>4, Ended DEF Core
  <2>2. TypeOK'
    BY <1>1, <1>2, <1>4, <2>1 DEF Core, TypeOK
  <2>3. OwnersAlone'
    BY <1>2, <1>4, <2>1 DEF Core, OwnersAlone, At, Owning
  <2>4. StagesKnow' /\ LocksExclusive' /\ TurnsServed'
    BY <1>2, <1>4, <2>1 DEF Core, StagesKnow, LocksExclusive, TurnsServed, At, Locked
  <2>5. ConversationsMatch' /\ StillBack'
    BY <1>1, <1>2, <1>4 DEF Core, ConversationsMatch, StillBack, StagesKnow, Registered, At
  <2> QED
    BY <2>2, <2>3, <2>4, <2>5 DEF Core
<1> QED
  BY <1>3, <1>4 DEF ResumeFails

LEMMA AwaitCore ==
  ASSUME Core, NEW t \in Tasks, NEW i \in Ids, NEW stage \in {"turn", "close"},
         Await(t, i, stage)
  PROVE  Core'
<1>1. sessions[i] # 0 /\ sessions[i] \in 0..MaxObjects
  BY DEF Core, TypeOK, Await
<1>2. [at |-> stage, id |-> i, object |-> sessions[i]]
        \in [at : Stages, id : Ids, object : 0..MaxObjects]
  BY <1>1 DEF Stages
<1>3. /\ task'[t] = [at |-> stage, id |-> i, object |-> sessions[i]]
      /\ \A u \in Tasks : u # t => task'[u] = task[u]
      /\ TypeOK'
  BY <1>2 DEF Core, TypeOK, Await, Found, threads
<1>4. UNCHANGED <<sessions, admitting, engine, resources, made, closing, abandoned, reinstated>>
  BY DEF Await, threads
<1>5. OwnersAlone' /\ StagesKnow' /\ LocksExclusive' /\ TurnsServed'
  BY <1>1, <1>3, <1>4 DEF Core, OwnersAlone, StagesKnow, LocksExclusive, TurnsServed,
     At, Owning, Locked
<1>6. ConversationsMatch' /\ StillBack'
  BY <1>4 DEF Core, ConversationsMatch, StillBack, Registered
<1> QED
  BY <1>3, <1>5, <1>6 DEF Core

\* A request that only ends, wherever it is, breaks nothing, and leaves a thread or none.
LEMMA EndCore ==
  ASSUME Core, NEW t \in Tasks, task' = Ends(t), abandoned' \subseteq Ids,
         UNCHANGED <<sessions, admitting, engine, resources, made, closing, reinstated>>
  PROVE  Core'
<1>1. /\ task'[t].at = "idle"
      /\ \A u \in Tasks : u # t => task'[u] = task[u]
      /\ TypeOK'
  BY Ended DEF Core, TypeOK
<1>2. OwnersAlone' /\ StagesKnow' /\ LocksExclusive' /\ TurnsServed'
  BY <1>1 DEF Core, OwnersAlone, StagesKnow, LocksExclusive, TurnsServed,
     At, Owning, Locked
<1>3. ConversationsMatch' /\ StillBack'
  BY DEF Core, ConversationsMatch, StillBack, Registered
<1> QED
  BY <1>1, <1>2, <1>3 DEF Core

LEMMA LockTurnCore ==
  ASSUME Core, NEW t \in Tasks, LockTurn(t)
  PROVE  Core'
<1> DEFINE i == task[t].id
<1> DEFINE o == task[t].object
<1>1. /\ UNCHANGED <<sessions, admitting, engine, resources, made, closing, abandoned, reinstated>>
      /\ task[t].at = "turn" /\ ~Held(o)
  BY DEF LockTurn, At, threads
<1>2. CASE IsActive(o, i)
  <2>1. /\ task'[t] = [at |-> "turning", id |-> i, object |-> o]
        /\ \A u \in Tasks : u # t => task'[u] = task[u]
        /\ task' \in [Tasks -> {Idle} \cup [at : Stages, id : Ids, object : 0..MaxObjects]]
    BY <1>1, <1>2, Staged DEF Core, LockTurn, Stages
  <2>2. TypeOK'
    BY <1>1, <2>1 DEF Core, TypeOK
  <2>3. OwnersAlone' /\ StagesKnow'
    BY <1>1, <2>1 DEF Core, OwnersAlone, StagesKnow, At, Owning, Locked
  <2>4. LocksExclusive'
    BY <1>1, <2>1 DEF Core, LocksExclusive, Held, At, Locked
  <2>5. TurnsServed'
    BY <1>1, <1>2, <2>1 DEF Core, TurnsServed, IsActive, At
  <2>6. ConversationsMatch' /\ StillBack'
    BY <1>1 DEF Core, ConversationsMatch, StillBack, Registered
  <2> QED
    BY <2>2, <2>3, <2>4, <2>5, <2>6 DEF Core
<1>3. CASE ~IsActive(o, i)
  <2>1. task' = Ends(t) /\ abandoned' \subseteq Ids
    BY <1>1, <1>3 DEF LockTurn, Core, TypeOK
  <2> QED
    BY <1>1, <2>1, EndCore
<1> QED
  BY <1>2, <1>3

LEMMA PreviewCore ==
  ASSUME Core, NEW t \in Tasks, Preview(t)
  PROVE  Core'
<1>1. TypeOK'
  BY Working DEF Core, TypeOK, Preview, At, threads
<1>2. UNCHANGED <<sessions, admitting, engine, made, closing, task, abandoned, reinstated>>
  BY DEF Preview, threads
<1> QED
  BY <1>1, <1>2 DEF Core, OwnersAlone, StillBack, StagesKnow, LocksExclusive, TurnsServed,
     ConversationsMatch, Registered, At

\* The teardown of a session, by the one request that is inside its lock.
LEMMA TeardownCore ==
  ASSUME Core, NEW t \in Tasks, NEW stage \in {"discarding", "closing"},
         At(t, {"turning", "close"}), Teardown(t, stage),
         \A u \in Tasks : u # t /\ At(u, Locked) => task[u].object # task[t].object
  PROVE  Core'
<1> DEFINE i == task[t].id
<1> DEFINE o == task[t].object
<1>1. /\ i \in Ids /\ o \in 0..MaxObjects /\ o # 0
      /\ closing' = closing \cup {o}
      /\ UNCHANGED <<engine, resources, made, abandoned, reinstated>>
  BY Working DEF Core, StagesKnow, Teardown, At, Locked, threads
<1>2. o \in Objects
  BY <1>1, BoundsAssumption DEF Objects
<1>3. CASE sessions[i] = o
  <2>1. /\ sessions' = [sessions EXCEPT ![i] = 0] /\ admitting' = admitting \cup {i}
        /\ task' = Sets(t, stage)
    BY <1>3 DEF Teardown, BeginTeardown
  <2>2. /\ task'[t] = [at |-> stage, id |-> i, object |-> o]
        /\ \A u \in Tasks : u # t => task'[u] = task[u]
        /\ task' \in [Tasks -> {Idle} \cup [at : Stages, id : Ids, object : 0..MaxObjects]]
    BY <2>1, Staged DEF Core, At, Stages
  <2>3. TypeOK'
    BY <1>1, <1>2, <2>1, <2>2, BoundsAssumption DEF Core, TypeOK
  <2>4. OwnersAlone'
    BY <1>1, <1>3, <2>1, <2>2, Working DEF Core, OwnersAlone, TypeOK, At, Owning
  <2>5. i \in engine \ reinstated
    BY <1>1, <1>3 DEF Core, ConversationsMatch, Registered
  <2>6. StagesKnow' /\ LocksExclusive'
    BY <1>1, <2>1, <2>2, <2>5 DEF Core, StagesKnow, LocksExclusive, At, Locked
  <2>7. ASSUME NEW u \in Tasks, At(u, {"turning"})', u # t
        PROVE  sessions'[task'[u].id] = task'[u].object /\ task'[u].object \notin closing'
    BY <1>1, <1>3, <2>1, <2>2, <2>7, Working DEF Core, TurnsServed, TypeOK, At, Locked
  <2>8. TurnsServed'
    BY <2>2, <2>7 DEF TurnsServed, At
  <2>9. ConversationsMatch' /\ StillBack'
    BY <1>1, <2>1 DEF Core, ConversationsMatch, StillBack, Registered, TypeOK
  <2> QED
    BY <2>3, <2>4, <2>6, <2>8, <2>9 DEF Core
<1>4. CASE sessions[i] # o
  <2>1. task' = Ends(t) /\ UNCHANGED <<sessions, admitting>>
    BY <1>4 DEF Teardown
  <2>2. /\ task'[t].at = "idle"
        /\ \A u \in Tasks : u # t => task'[u] = task[u]
        /\ TypeOK'
    BY <1>1, <1>2, <2>1, Ended DEF Core, TypeOK
  <2>3. OwnersAlone' /\ StagesKnow' /\ LocksExclusive' /\ TurnsServed'
    BY <1>1, <2>1, <2>2 DEF Core, OwnersAlone, StagesKnow, LocksExclusive, TurnsServed,
       At, Owning, Locked
  <2>4. ConversationsMatch' /\ StillBack'
    BY <1>1, <2>1 DEF Core, ConversationsMatch, StillBack, Registered
  <2> QED
    BY <2>2, <2>3, <2>4 DEF Core
<1> QED
  BY <1>3, <1>4

LEMMA DiscardCore ==
  ASSUME Core, NEW t \in Tasks, Discard(t)
  PROVE  Core'
<1>1. \A u \in Tasks : u # t /\ At(u, Locked) => task[u].object # task[t].object
  BY DEF Core, LocksExclusive, Discard, At, Locked
<1> QED
  BY <1>1, TeardownCore DEF Discard, At

LEMMA LockCloseCore ==
  ASSUME Core, NEW t \in Tasks, LockClose(t)
  PROVE  Core'
<1>1. \A u \in Tasks : u # t /\ At(u, Locked) => task[u].object # task[t].object
  BY DEF LockClose, Held
<1> QED
  BY <1>1, TeardownCore DEF LockClose, At

\* A teardown that is over gives back the reservation and the conversation.
LEMMA ReleaseCore ==
  ASSUME Core, NEW t \in Tasks, At(t, {"discarding", "stopping"}),
         Forget(task[t].id), admitting' = admitting \ {task[t].id},
         task' = Ends(t), resources' \subseteq resources,
         UNCHANGED <<sessions, made, closing, abandoned>>
  PROVE  Core'
<1> DEFINE i == task[t].id
<1>1. i \in Ids /\ i \in admitting /\ sessions[i] = 0
  BY Working DEF Core, OwnersAlone, At, Owning
<1>2. /\ task'[t].at = "idle"
      /\ \A u \in Tasks : u # t => task'[u] = task[u]
      /\ TypeOK'
  BY Ended DEF Core, TypeOK, Forget
<1>3. OwnersAlone'
  BY <1>1, <1>2 DEF Core, OwnersAlone, At, Owning
<1>4. StagesKnow'
  BY <1>1, <1>2 DEF Core, StagesKnow, OwnersAlone, At, Owning, Locked, Forget
<1>5. LocksExclusive' /\ TurnsServed'
  BY <1>2 DEF Core, LocksExclusive, TurnsServed, At, Locked
<1>6. ConversationsMatch' /\ StillBack'
  BY <1>1 DEF Core, ConversationsMatch, StillBack, Registered, Forget
<1> QED
  BY <1>2, <1>3, <1>4, <1>5, <1>6 DEF Core

LEMMA CleansUpCore ==
  ASSUME Core, NEW t \in Tasks, CleansUp(t)
  PROVE  Core'
<1> DEFINE i == task[t].id
<1>1. resources' = resources \ {i} /\ UNCHANGED <<sessions, made, closing, abandoned>>
  BY DEF CleansUp
<1>2. ASSUME At(t, {"closing"}), task' = Sets(t, "stopping"),
             UNCHANGED <<admitting, engine, reinstated>>
      PROVE  Core'
  <2>1. /\ task'[t] = [at |-> "stopping", id |-> i, object |-> task[t].object]
        /\ \A u \in Tasks : u # t => task'[u] = task[u]
        /\ task' \in [Tasks -> {Idle} \cup [at : Stages, id : Ids, object : 0..MaxObjects]]
    BY <1>2, Staged DEF Core, At, Stages
  <2>2. TypeOK'
    BY <1>1, <1>2, <2>1 DEF Core, TypeOK
  <2>3. OwnersAlone' /\ StagesKnow' /\ LocksExclusive' /\ TurnsServed'
    BY <1>1, <1>2, <2>1 DEF Core, OwnersAlone, StagesKnow, LocksExclusive, TurnsServed,
       At, Owning, Locked
  <2>4. ConversationsMatch' /\ StillBack'
    BY <1>1, <1>2 DEF Core, ConversationsMatch, StillBack, Registered
  <2> QED
    BY <2>2, <2>3, <2>4 DEF Core
<1>3. ASSUME At(t, {"discarding"}), Forget(i), admitting' = admitting \ {i}, task' = Ends(t)
      PROVE  Core'
  BY <1>1, <1>3, ReleaseCore DEF At
<1> QED
  BY <1>2, <1>3 DEF CleansUp

LEMMA FinishCloseCore ==
  ASSUME Core, NEW t \in Tasks, FinishClose(t)
  PROVE  Core'
BY ReleaseCore DEF FinishClose, At

\* A session whose teardown fails is served again by the object that was torn
\* down, and by no other: nobody else could take its identifier meanwhile.
LEMMA AbortCore ==
  ASSUME Core, NEW t \in Tasks, At(t, {"closing", "discarding"}), AbortTeardown(t),
         task' = Ends(t), UNCHANGED <<engine, resources, made, closing, abandoned, reinstated>>
  PROVE  Core'
<1> DEFINE i == task[t].id
<1> DEFINE o == task[t].object
<1>1. /\ i \in Ids /\ i \in admitting /\ sessions[i] = 0 /\ i \in engine \ reinstated
      /\ o \in 0..MaxObjects /\ o # 0
  BY Working DEF Core, OwnersAlone, StagesKnow, At, Owning, Locked
<1>2. sessions' = [sessions EXCEPT ![i] = o] /\ admitting' = admitting \ {i}
  BY DEF AbortTeardown
<1>3. /\ task'[t].at = "idle"
      /\ \A u \in Tasks : u # t => task'[u] = task[u]
      /\ TypeOK'
  BY <1>1, <1>2, Ended DEF Core, TypeOK
<1>4. OwnersAlone'
  BY <1>1, <1>2, <1>3, Working DEF Core, OwnersAlone, TypeOK, At, Owning
<1>5. StagesKnow' /\ LocksExclusive'
  BY <1>3 DEF Core, StagesKnow, LocksExclusive, At, Locked
<1>6. TurnsServed'
  BY <1>1, <1>2, <1>3, Working DEF Core, TurnsServed, StagesKnow, TypeOK, At, Locked
<1>7. ConversationsMatch' /\ StillBack'
  BY <1>1, <1>2 DEF Core, ConversationsMatch, StillBack, Registered, TypeOK
<1> QED
  BY <1>3, <1>4, <1>5, <1>6, <1>7 DEF Core

LEMMA CancelCore ==
  ASSUME Core, NEW t \in Tasks, Cancel(t)
  PROVE  Core'
<1>1. \/ UNCHANGED <<sessions, admitting>> /\ abandoned' \subseteq Ids
      \/ At(t, {"closing", "discarding"}) /\ AbortTeardown(t) /\ UNCHANGED abandoned
  BY Working DEF Cancel, CancelCleanup, At, Core, TypeOK
<1>2. task' = Ends(t) /\ UNCHANGED <<engine, resources, made, closing, reinstated>>
  BY DEF Cancel
<1> QED
  BY <1>1, <1>2, EndCore, AbortCore

\* What a thread puts back was in the engine, or is of no session served or restored:
\* those, and the ones being torn down, have theirs.
LEMMA ReinstateCore ==
  ASSUME Core, NEW i \in Ids, Reinstate(i)
  PROVE  Core'
<1>1. /\ engine' = engine \cup {i} /\ reinstated' = reinstated \cup ({i} \ engine)
      /\ UNCHANGED <<sessions, admitting, resources, made, closing, task>>
  BY DEF Reinstate
<1>2. TypeOK'
  BY <1>1 DEF Core, TypeOK, Reinstate
<1>3. OwnersAlone' /\ LocksExclusive' /\ TurnsServed'
  BY <1>1 DEF Core, OwnersAlone, LocksExclusive, TurnsServed, At
<1>4. StagesKnow'
  BY <1>1 DEF Core, StagesKnow, StillBack, At
<1>5. ConversationsMatch' /\ StillBack'
  BY <1>1 DEF Core, ConversationsMatch, StillBack, Registered
<1> QED
  BY <1>2, <1>3, <1>4, <1>5 DEF Core

LEMMA ThreadEndsCore ==
  ASSUME Core, NEW i \in Ids, ThreadEnds(i)
  PROVE  Core'
<1>1. TypeOK'
  BY DEF Core, TypeOK, ThreadEnds
<1>2. UNCHANGED <<sessions, admitting, engine, resources, made, closing, task, reinstated>>
  BY DEF ThreadEnds
<1> QED
  BY <1>1, <1>2 DEF Core, OwnersAlone, StillBack, StagesKnow, LocksExclusive, TurnsServed,
     ConversationsMatch, Registered, At

\* Every step of the registry keeps the invariant.
LEMMA CoreStep == Core /\ [Next]_vars => Core'
<1> SUFFICES ASSUME Core, [Next]_vars PROVE Core'
  OBVIOUS
<1>1. ASSUME NEW i \in Ids, Create(i) \/ Reinstate(i) \/ ThreadEnds(i) PROVE Core'
  BY <1>1, CreateCore, ReinstateCore, ThreadEndsCore
<1>2. ASSUME NEW t \in Tasks, NEW i \in Ids, Resume(t, i) PROVE Core'
  BY <1>2, ResumeCore
<1>3. ASSUME NEW t \in Tasks, NEW i \in Ids, Request(t, i) PROVE Core'
  BY <1>3, AwaitCore DEF Request
<1>4. ASSUME NEW t \in Tasks, Preview(t) \/ Discard(t) \/ Cancel(t) PROVE Core'
  BY <1>4, PreviewCore, DiscardCore, CancelCore
<1>5. ASSUME NEW t \in Tasks, EndTurn(t) PROVE Core'
  BY <1>5, EndCore DEF EndTurn, threads, Core, TypeOK
<1>6. ASSUME NEW t \in Tasks, CleanupFails(t) PROVE Core'
  BY <1>6, AbortCore DEF CleanupFails, threads
<1>7. ASSUME NEW t \in Tasks, Proceed(t) PROVE Core'
  BY <1>5, <1>6, <1>7, RestoreCore, PublishCore, ResumeFailsCore, LockTurnCore,
     LockCloseCore, CleansUpCore, FinishCloseCore DEF Proceed
<1>8. CASE UNCHANGED vars
  BY <1>8 DEF vars, threads, Core, TypeOK, OwnersAlone, StillBack, StagesKnow, LocksExclusive,
     TurnsServed, ConversationsMatch, Registered, At
<1> QED
  BY <1>1, <1>2, <1>3, <1>4, <1>7, <1>8 DEF Next

-----------------------------------------------------------------------------
(***************************************************************************)
(* The capacity.  Every step either leaves the two counts alone, or moves  *)
(* one identifier, and adds one only where there was room for it.          *)
(***************************************************************************)
Seated(i) == Registered' = Registered \cup {i} /\ i \notin Registered
Unreserved(i) == admitting' = admitting \ {i}

SeatsMove(i) ==
  \/ Seated(i) /\ HasCapacity /\ UNCHANGED admitting
  \/ admitting' = admitting \cup {i} /\ HasCapacity /\ Registered' = Registered
  \/ Seated(i) /\ Unreserved(i) /\ i \in admitting
  \/ Registered' = Registered /\ Unreserved(i)
  \/ /\ Registered' = Registered \ {i} /\ i \in Registered
     /\ admitting' = admitting \cup {i}

LEMMA SeatsAfter ==
  ASSUME Core, [Next]_vars
  PROVE  \/ Registered' = Registered /\ UNCHANGED admitting
         \/ \E i \in Ids : SeatsMove(i)
<1> DEFINE Goal == \/ Registered' = Registered /\ UNCHANGED admitting
                   \/ \E i \in Ids : SeatsMove(i)
<1>0. ASSUME UNCHANGED <<sessions, admitting>> PROVE Goal
  BY <1>0 DEF Registered
<1>1. ASSUME NEW i \in Ids, Create(i) PROVE Goal
  <2>1. Seated(i) /\ HasCapacity /\ UNCHANGED admitting
    BY <1>1 DEF Create, Seated, Registered, Core, TypeOK
  <2> QED
    BY <2>1 DEF SeatsMove
<1>2. ASSUME NEW t \in Tasks, NEW i \in Ids, Resume(t, i) PROVE Goal
  <2>1. admitting' = admitting \cup {i} /\ HasCapacity /\ Registered' = Registered
    BY <1>2 DEF Resume, Registered
  <2> QED
    BY <2>1 DEF SeatsMove
<1>3. ASSUME NEW t \in Tasks, At(t, Owning), NEW n \in Nat \ {0},
             sessions' = [sessions EXCEPT ![task[t].id] = n],
             admitting' = admitting \ {task[t].id}
      PROVE  Goal
  <2>1. task[t].id \in Ids /\ task[t].id \in admitting /\ sessions[task[t].id] = 0
    BY <1>3, Working DEF Core, OwnersAlone, At, Owning
  <2>2. Seated(task[t].id) /\ Unreserved(task[t].id)
    BY <1>3, <2>1 DEF Seated, Unreserved, Registered, Core, TypeOK
  <2> QED
    BY <2>1, <2>2 DEF SeatsMove
<1>4. ASSUME NEW t \in Tasks, At(t, {"closing", "discarding"}), AbortTeardown(t) PROVE Goal
  <2>1. task[t].object \in Nat \ {0}
    BY <1>4, Working, BoundsAssumption DEF Core, StagesKnow, At, Locked
  <2> QED
    BY <1>3, <1>4, <2>1 DEF AbortTeardown, At, Owning
<1>5. ASSUME NEW t \in Tasks, task[t].at # "idle", UNCHANGED sessions,
             admitting' = admitting \ {task[t].id}
      PROVE  Goal
  <2>1. task[t].id \in Ids
    BY <1>5, Working DEF Core
  <2>2. Registered' = Registered /\ Unreserved(task[t].id)
    BY <1>5 DEF Registered, Unreserved
  <2> QED
    BY <2>1, <2>2 DEF SeatsMove
<1>6. ASSUME NEW t \in Tasks, At(t, {"turning", "close"}), NEW stage \in Stages,
             Teardown(t, stage)
      PROVE  Goal
  <2> DEFINE i == task[t].id
  <2>1. CASE sessions[i] = task[t].object
    <3>1. i \in Ids /\ sessions[i] # 0
      BY <1>6, <2>1, Working DEF Core, StagesKnow, At, Locked
    <3>2. sessions' = [sessions EXCEPT ![i] = 0] /\ admitting' = admitting \cup {i}
      BY <1>6, <2>1 DEF Teardown, BeginTeardown
    <3>3. Registered' = Registered \ {i} /\ i \in Registered
      BY <3>1, <3>2 DEF Registered, Core, TypeOK
    <3> QED
      BY <3>1, <3>2, <3>3 DEF SeatsMove
  <2>2. CASE sessions[i] # task[t].object
    BY <1>0, <1>6, <2>2 DEF Teardown
  <2> QED
    BY <2>1, <2>2
<1>7. ASSUME NEW t \in Tasks, Proceed(t) PROVE Goal
  <2>1. CASE Restore(t) \/ LockTurn(t) \/ EndTurn(t)
    BY <1>0, <2>1 DEF Restore, LockTurn, EndTurn
  <2>2. CASE Publish(t)
    <3>1. made' \in Nat \ {0}
      BY <2>2, BoundsAssumption DEF Publish, Core, TypeOK
    <3> QED
      BY <1>3, <2>2, <3>1 DEF Publish, At, Owning
  <2>3. CASE ResumeFails(t)
    BY <1>0, <1>5, <2>3 DEF ResumeFails, At
  <2>4. CASE LockClose(t)
    BY <1>6, <2>4 DEF LockClose, At, Stages
  <2>5. CASE CleansUp(t)
    BY <1>0, <1>5, <2>5 DEF CleansUp, At
  <2>6. CASE FinishClose(t)
    BY <1>5, <2>6 DEF FinishClose, At
  <2>7. CASE CleanupFails(t)
    BY <1>4, <2>7 DEF CleanupFails
  <2> QED
    BY <1>7, <2>1, <2>2, <2>3, <2>4, <2>5, <2>6, <2>7 DEF Proceed
<1>8. ASSUME NEW t \in Tasks, Cancel(t) PROVE Goal
  BY <1>0, <1>4, <1>8 DEF Cancel, CancelCleanup, At
<1>9. ASSUME NEW t \in Tasks, Discard(t) PROVE Goal
  BY <1>6, <1>9 DEF Discard, At, Stages
<1>10. ASSUME NEW t \in Tasks, NEW i \in Ids, Request(t, i) PROVE Goal
  BY <1>0, <1>10 DEF Request, Await
<1>11. ASSUME NEW t \in Tasks, Preview(t) PROVE Goal
  BY <1>0, <1>11 DEF Preview
<1>12. ASSUME NEW i \in Ids, Reinstate(i) \/ ThreadEnds(i) PROVE Goal
  BY <1>0, <1>12 DEF Reinstate, ThreadEnds
<1>13. CASE UNCHANGED vars
  BY <1>0, <1>13 DEF vars
<1> QED
  BY <1>1, <1>2, <1>7, <1>8, <1>9, <1>10, <1>11, <1>12, <1>13 DEF Next

LEMMA CapacityStep ==
  ASSUME Core, Counted, WithinCapacity, [Next]_vars
  PROVE  Counted' /\ WithinCapacity'
<1>1. CASE Registered' = Registered /\ UNCHANGED admitting
  BY <1>1 DEF Counted, WithinCapacity
<1>2. ASSUME NEW i \in Ids, SeatsMove(i)
      PROVE  Counted' /\ WithinCapacity'
  <2>1. /\ Cardinality(Registered) \in Nat /\ Cardinality(admitting) \in Nat
        /\ Cardinality(Registered) + Cardinality(admitting) =< MaxSessions
        /\ MaxSessions \in Nat
    BY FS_CardinalityType, BoundsAssumption DEF Counted, WithinCapacity
  <2>2. /\ IsFiniteSet(Registered \cup {i})
        /\ i \notin Registered
             => Cardinality(Registered \cup {i}) = Cardinality(Registered) + 1
        /\ IsFiniteSet(Registered \ {i})
        /\ i \in Registered => Cardinality(Registered \ {i}) = Cardinality(Registered) - 1
    BY FS_AddElement, FS_RemoveElement DEF Counted
  <2>3. /\ IsFiniteSet(admitting \cup {i})
        /\ Cardinality(admitting \cup {i}) \in {Cardinality(admitting), Cardinality(admitting) + 1}
        /\ IsFiniteSet(admitting \ {i})
        /\ i \in admitting => Cardinality(admitting \ {i}) = Cardinality(admitting) - 1
        /\ Cardinality(admitting \ {i}) \in {Cardinality(admitting), Cardinality(admitting) - 1}
    BY FS_AddElement, FS_RemoveElement DEF Counted
  <2>4. Counted'
    BY <1>2, <2>2, <2>3 DEF SeatsMove, Seated, Unreserved, Counted
  <2>5. Cardinality(Registered') + Cardinality(admitting') =< MaxSessions
    <3>1. CASE Seated(i) /\ HasCapacity /\ UNCHANGED admitting
      BY <2>1, <2>2, <3>1 DEF Seated, HasCapacity
    <3>2. CASE admitting' = admitting \cup {i} /\ HasCapacity /\ Registered' = Registered
      BY <2>1, <2>3, <3>2 DEF HasCapacity
    <3>3. CASE Seated(i) /\ Unreserved(i) /\ i \in admitting
      BY <2>1, <2>2, <2>3, <3>3 DEF Seated, Unreserved
    <3>4. CASE Registered' = Registered /\ Unreserved(i)
      BY <2>1, <2>3, <3>4 DEF Unreserved
    <3>5. CASE /\ Registered' = Registered \ {i} /\ i \in Registered
               /\ admitting' = admitting \cup {i}
      BY <2>1, <2>2, <2>3, <3>5
    <3> QED
      BY <1>2, <3>1, <3>2, <3>3, <3>4, <3>5 DEF SeatsMove
  <2> QED
    BY <2>4, <2>5 DEF WithinCapacity
<1> QED
  BY <1>1, <1>2, SeatsAfter

-----------------------------------------------------------------------------
\* The registry keeps its inductive invariant.
THEOREM Inductive == Spec => []IInv
<1>1. IInv /\ [Next]_vars => IInv'
  <2> SUFFICES ASSUME IInv, [Next]_vars PROVE IInv'
    OBVIOUS
  <2>1. Core /\ Counted /\ WithinCapacity
    BY DEF IInv, Core
  <2>2. Core' /\ Counted' /\ WithinCapacity'
    BY <2>1, CoreStep, CapacityStep
  <2> QED
    BY <2>2 DEF IInv, Core
<1> QED
  BY <1>1, InitInv, PTL DEF Spec

\* Every variable of the registry keeps its type.
THEOREM TypeCorrect == Spec => []TypeOK
<1>1. IInv => TypeOK
  BY DEF IInv
<1> QED
  BY <1>1, Inductive, PTL

\* No interleaving of resumes, closes, discards and failures lets the sessions
\* exceed the capacity or gives an identifier two owners, and every session that
\* is served has its own conversation in the engine: the one a cancelled turn's
\* thread put back behind a close or a failed resume is never served.
THEOREM AdmissionHolds == Spec => []AdmissionSound
<1>1. ASSUME OwnersAlone, NEW i \in Ids, TypeOK
      PROVE  /\ Cardinality(Tearing(i) \cup Resuming(i)) =< 1
             /\ Tearing(i) \cup Resuming(i) # {} => sessions[i] = 0 /\ i \in admitting
  <2> DEFINE owners == Tearing(i) \cup Resuming(i)
  <2>1. \A t \in owners : t \in Tasks /\ At(t, Owning) /\ task[t].id = i
    BY DEF Tearing, Resuming, At, Owning
  <2>2. owners # {} => sessions[i] = 0 /\ i \in admitting
    BY <1>1, <2>1 DEF OwnersAlone
  <2>3. CASE owners = {}
    BY <2>2, <2>3, FS_EmptySet
  <2>4. CASE owners # {}
    <3>1. PICK t \in owners : TRUE
      BY <2>4
    <3>2. owners = {t}
      BY <1>1, <2>1, <3>1 DEF OwnersAlone
    <3>3. Cardinality(owners) = 1
      BY <3>2, FS_Singleton
    <3> QED
      BY <2>2, <3>3
  <2> QED
    BY <2>3, <2>4
<1>2. IInv => AdmissionSound
  BY <1>1 DEF IInv, AdmissionSound, OneOwner
<1> QED
  BY <1>2, Inductive, PTL

\* A turn inside the lock works on the object that is served.
THEOREM TurnsServedHolds == Spec => []TurnsServed
<1>1. IInv => TurnsServed
  BY DEF IInv
<1> QED
  BY <1>1, Inductive, PTL

-----------------------------------------------------------------------------
(***************************************************************************)
(* What a session left with a provider stays within reach of a cleanup, as *)
(* long as no discard is cancelled in the middle of its cleanup: the one   *)
(* await at which _discard_session() does not put the session back.        *)
(***************************************************************************)
CleanedWhenStopping == \A t \in Tasks : At(t, {"stopping"}) => task[t].id \notin resources

\* The requests whose teardown of an identifier is under way.
TearsDown(t, i) == At(t, {"discarding", "closing", "stopping"}) /\ task[t].id = i

Reachable == \A i \in resources : sessions[i] # 0 \/ \E t \in Tasks : TearsDown(t, i)

\* Of another identifier, a step of a request changes nothing that cleanups need.
LEMMA ReachKept ==
  ASSUME Core, Reachable, CleanedWhenStopping, NEW t \in Tasks,
         NEW i \in Ids,
         ~At(t, Owning) \/ task[t].id = i,
         \A u \in Tasks : u # t => task'[u] = task[u],
         \A j \in Ids : j # i => sessions'[j] = sessions[j],
         resources' \subseteq resources \cup {i},
         i \in resources' => sessions'[i] # 0 \/ \E u \in Tasks : TearsDown(u, i)',
         At(t, {"stopping"})' => task'[t].id = i /\ i \notin resources',
         i \in resources' \ resources => sessions[i] # 0
  PROVE  Reachable' /\ CleanedWhenStopping'
<1>1. ASSUME NEW j \in resources', j # i
      PROVE  sessions'[j] # 0 \/ \E u \in Tasks : TearsDown(u, j)'
  <2>1. j \in resources /\ j \in Ids
    BY <1>1 DEF Core, TypeOK
  <2>2. CASE sessions[j] # 0
    BY <1>1, <2>1, <2>2
  <2>3. ASSUME NEW u \in Tasks, TearsDown(u, j) PROVE TearsDown(u, j)'
    BY <1>1, <2>3 DEF TearsDown, At, Owning
  <2> QED
    BY <2>1, <2>2, <2>3 DEF Reachable
<1>2. Reachable'
  BY <1>1 DEF Reachable
<1>3. ASSUME NEW u \in Tasks, At(u, {"stopping"})'
      PROVE  task'[u].id \notin resources'
  <2>1. CASE u = t
    BY <1>3, <2>1 DEF At
  <2>2. CASE u # t
    BY <1>3, <2>2 DEF CleanedWhenStopping, Core, OwnersAlone, At, Owning
  <2> QED
    BY <2>1, <2>2
<1> QED
  BY <1>2, <1>3 DEF CleanedWhenStopping, At

\* A request that is not tearing anything down may end or go on freely.
LEMMA ReachBeside ==
  ASSUME Core, Reachable, CleanedWhenStopping, NEW t \in Tasks, ~At(t, Owning),
         \A u \in Tasks : u # t => task'[u] = task[u],
         ~At(t, {"stopping"})', UNCHANGED <<sessions, resources>>
  PROVE  Reachable' /\ CleanedWhenStopping'
<1>1. ASSUME NEW j \in resources', sessions'[j] = 0
      PROVE  \E u \in Tasks : TearsDown(u, j)'
  <2>1. PICK u \in Tasks : TearsDown(u, j)
    BY <1>1 DEF Reachable
  <2>2. TearsDown(u, j)'
    BY <2>1 DEF TearsDown, At, Owning
  <2> QED
    BY <2>2
<1>2. CleanedWhenStopping'
  BY DEF CleanedWhenStopping, At
<1> QED
  BY <1>1, <1>2 DEF Reachable

LEMMA TeardownReach ==
  ASSUME Core, Reachable, CleanedWhenStopping, NEW t \in Tasks,
         NEW stage \in {"discarding", "closing"},
         At(t, {"turning", "close"}), Teardown(t, stage)
  PROVE  Reachable' /\ CleanedWhenStopping'
<1> DEFINE i == task[t].id
<1>1. i \in Ids /\ ~At(t, Owning) /\ UNCHANGED resources
  BY Working DEF Core, Teardown, At, Owning
<1>2. CASE sessions[i] = task[t].object
  <2>1. task' = Sets(t, stage) /\ sessions' = [sessions EXCEPT ![i] = 0]
    BY <1>2 DEF Teardown, BeginTeardown
  <2>2. stage \in Stages /\ task[t].at # "idle"
    BY DEF At, Stages
  <2>3. /\ task'[t].at = stage /\ task'[t].id = i
        /\ \A u \in Tasks : u # t => task'[u] = task[u]
    BY <2>1, <2>2, StagedAt DEF Core
  <2>4. TearsDown(t, i)'
    BY <2>3 DEF TearsDown, At
  <2>5. \A j \in Ids : j # i => sessions'[j] = sessions[j]
    BY <2>1 DEF Core, TypeOK
  <2> QED
    BY <1>1, <2>3, <2>4, <2>5, ReachKept DEF At
<1>3. CASE sessions[i] # task[t].object
  BY <1>1, <1>3, Ended, ReachBeside DEF Teardown, Core, At
<1> QED
  BY <1>2, <1>3

LEMMA AbortReach ==
  ASSUME Core, Reachable, CleanedWhenStopping, NEW t \in Tasks,
         At(t, {"closing", "discarding"}), AbortTeardown(t), task' = Ends(t),
         UNCHANGED resources
  PROVE  Reachable' /\ CleanedWhenStopping'
<1> DEFINE i == task[t].id
<1>1. i \in Ids /\ task[t].object # 0
  BY Working DEF Core, StagesKnow, At, Locked
<1>2. sessions'[i] # 0 /\ \A j \in Ids : j # i => sessions'[j] = sessions[j]
  BY <1>1 DEF AbortTeardown, Core, TypeOK
<1>3. task'[t].at = "idle" /\ \A u \in Tasks : u # t => task'[u] = task[u]
  BY Ended DEF Core
<1> QED
  BY <1>1, <1>2, <1>3, ReachKept DEF At

\* While an identifier is being restored, or is not yet, nothing of it is left.
LEMMA NothingLeftAtResume ==
  ASSUME Core, Reachable, NEW i \in Ids, sessions[i] = 0,
         i \notin admitting
         \/ \E t \in Tasks : /\ At(t, {"restoring", "restored", "failing", "failed"})
                             /\ task[t].id = i
  PROVE  i \notin resources
<1>1. ASSUME NEW u \in Tasks, TearsDown(u, i) PROVE FALSE
  BY <1>1 DEF Core, OwnersAlone, TearsDown, At, Owning
<1> QED
  BY <1>1 DEF Reachable

LEMMA RestoringReach ==
  ASSUME Core, Reachable, CleanedWhenStopping, NEW t \in Tasks,
         Restore(t) \/ ResumeFails(t) \/ Publish(t)
  PROVE  Reachable' /\ CleanedWhenStopping'
<1> DEFINE i == task[t].id
<1>1. /\ At(t, {"restoring", "restored", "failing", "failed"})
      /\ UNCHANGED resources
  BY DEF Restore, ResumeFails, Publish, At
<1>2. i \in Ids /\ i \notin resources
  BY <1>1, Working, NothingLeftAtResume DEF Core, OwnersAlone, At, Owning
<1>3. \A u \in Tasks : u # t => task'[u] = task[u]
  BY DEF Restore, ResumeFails, Publish, Sets, Ends, Core, TypeOK
<1>4. ~At(t, {"stopping"})'
  <2>1. \E s \in {"restored", "failing", "failed"} : task' = Sets(t, s) \/ task' = Ends(t)
    BY DEF Restore, ResumeFails, Publish
  <2>2. task[t].at # "idle"
    BY <1>1 DEF At
  <2> QED
    BY <2>1, <2>2, StagedAt, Ended DEF Core, At, Stages
<1>5. \A j \in Ids : j # i => sessions'[j] = sessions[j]
  BY DEF Restore, ResumeFails, Publish, Core, TypeOK
<1> QED
  BY <1>1, <1>2, <1>3, <1>4, <1>5, ReachKept

LEMMA CleanReach ==
  ASSUME Core, Reachable, CleanedWhenStopping, NEW t \in Tasks,
         CleansUp(t) \/ FinishClose(t)
  PROVE  Reachable' /\ CleanedWhenStopping'
<1> DEFINE i == task[t].id
<1>1. At(t, {"closing", "discarding", "stopping"}) /\ i \in Ids
  BY Working DEF CleansUp, FinishClose, Core, At
<1>2. UNCHANGED sessions /\ resources' \subseteq resources /\ i \notin resources'
  BY DEF CleansUp, FinishClose, CleanedWhenStopping
<1>3. \A u \in Tasks : u # t => task'[u] = task[u]
  BY DEF CleansUp, FinishClose, Sets, Ends, Core, TypeOK
<1>4. At(t, {"stopping"})' => task'[t].id = i
  <2>1. task' = Sets(t, "stopping") \/ task' = Ends(t)
    BY DEF CleansUp, FinishClose
  <2>2. task[t].at # "idle"
    BY <1>1 DEF At
  <2> QED
    BY <2>1, <2>2, StagedAt, Ended DEF Core, At, Stages
<1> QED
  BY <1>1, <1>2, <1>3, <1>4, ReachKept

LEMMA ReachStep ==
  ASSUME "discarding" \notin CancelPoints, Core, Reachable, CleanedWhenStopping, [Next]_vars
  PROVE  Reachable' /\ CleanedWhenStopping'
<1> DEFINE Goal == Reachable' /\ CleanedWhenStopping'
<1>1. ASSUME NEW i \in Ids, Create(i) PROVE Goal
  BY <1>1 DEF Create, Reachable, CleanedWhenStopping, TearsDown, At, Core, TypeOK
<1>2. ASSUME NEW t \in Tasks, NEW i \in Ids, Resume(t, i) PROVE Goal
  <2>1. i \notin resources
    BY <1>2, NothingLeftAtResume DEF Resume, Resumable
  <2>2. task'[t].at = "restoring" /\ \A u \in Tasks : u # t => task'[u] = task[u]
    BY <1>2 DEF Resume, Core, TypeOK
  <2> QED
    BY <1>2, <2>1, <2>2, ReachBeside DEF Resume, At, Owning
<1>3. ASSUME NEW t \in Tasks, NEW i \in Ids, Request(t, i) PROVE Goal
  <2>1. /\ task'[t].at \in {"turn", "close"}
        /\ \A u \in Tasks : u # t => task'[u] = task[u]
    BY <1>3 DEF Request, Await, Core, TypeOK
  <2> QED
    BY <1>3, <2>1, ReachBeside DEF Request, Await, At, Owning
<1>4. ASSUME NEW t \in Tasks, Preview(t) PROVE Goal
  <2>1. sessions[task[t].id] # 0 /\ task[t].id \in Ids
    BY <1>4, Working DEF Preview, Core, TurnsServed, StagesKnow, At, Locked
  <2> QED
    BY <1>4, <2>1, ReachKept DEF Preview, At, Owning
<1>5. ASSUME NEW t \in Tasks, ~At(t, Owning), task' = Ends(t), UNCHANGED <<sessions, resources>>
      PROVE  Goal
  BY <1>5, Ended, ReachBeside DEF Core, At
<1>6. ASSUME NEW t \in Tasks, LockTurn(t) PROVE Goal
  <2>1. /\ task'[t].at \in {"turning", "idle"}
        /\ \A u \in Tasks : u # t => task'[u] = task[u]
    <3>1. task' = Sets(t, "turning") \/ task' = Ends(t)
      BY <1>6 DEF LockTurn
    <3>2. task[t].at # "idle"
      BY <1>6 DEF LockTurn, At
    <3> QED
      BY <3>1, <3>2, StagedAt, Ended DEF Core, Stages
  <2> QED
    BY <1>6, <2>1, ReachBeside DEF LockTurn, At, Owning
<1>7. ASSUME NEW t \in Tasks, Discard(t) \/ LockClose(t) PROVE Goal
  BY <1>7, TeardownReach DEF Discard, LockClose, At
<1>8. ASSUME NEW t \in Tasks, Cancel(t) PROVE Goal
  BY <1>5, <1>8, AbortReach DEF Cancel, CancelCleanup, At, Owning
<1>9. ASSUME NEW t \in Tasks, Proceed(t) PROVE Goal
  BY <1>5, <1>6, <1>7, <1>9, RestoringReach, CleanReach, AbortReach
     DEF Proceed, EndTurn, CleanupFails, At, Owning
<1>10. ASSUME NEW i \in Ids, Reinstate(i) \/ ThreadEnds(i) PROVE Goal
  BY <1>10 DEF Reinstate, ThreadEnds, Reachable, CleanedWhenStopping, TearsDown, At
<1>11. CASE UNCHANGED vars
  BY <1>11 DEF vars, Reachable, CleanedWhenStopping, TearsDown, At
<1> QED
  BY <1>1, <1>2, <1>3, <1>4, <1>7, <1>8, <1>9, <1>10, <1>11 DEF Next

\* Where a discard's cleanup is not cancelled half way, whatever callbacks and
\* decks there are belong to a session that can still be closed, or to one
\* that is being torn down.
THEOREM CleanupStaysRetryable ==
  ASSUME "discarding" \notin CancelPoints
  PROVE  Spec => []CleanupRetryable
<1> DEFINE RInv == Core /\ Reachable /\ CleanedWhenStopping
<1>1. Init => RInv
  <2>1. Init => Core
    BY InitInv DEF IInv, Core
  <2>2. Init => Reachable /\ CleanedWhenStopping
    BY DEF Init, Reachable, CleanedWhenStopping
  <2> QED
    BY <2>1, <2>2
<1>2. RInv /\ [Next]_vars => RInv'
  BY CoreStep, ReachStep
<1>3. RInv => CleanupRetryable
  BY DEF Reachable, CleanupRetryable, TearsDown, Tearing
<1> QED
  BY <1>1, <1>2, <1>3, PTL DEF Spec

-----------------------------------------------------------------------------
(***************************************************************************)
(* What safety hears in a text.                                            *)
(***************************************************************************)
LEMMA LeastNatural ==
  ASSUME NEW S \in SUBSET Nat, S # {}
  PROVE  \E n \in S : \A m \in S : n =< m
<1> DEFINE R == {p \in Nat \X Nat : p[1] < p[2]}
<1>1. IsWellFoundedOn(R, Nat)
  BY NatLessThanWellFounded DEF OpToRel
<1>2. \E x \in S : \A y \in S : ~ (<<y, x>> \in R)
  <2> HIDE DEF R
  <2> QED
    BY <1>1, WFMin
<1>3. PICK x \in S : \A y \in S : ~ (<<y, x>> \in R)
  BY <1>2
<1>4. ASSUME NEW y \in S PROVE x =< y
  <2>1. <<y, x>> \in Nat \X Nat /\ ~ (<<y, x>> \in R)
    BY <1>3
  <2> QED
    BY <2>1
<1> QED
  BY <1>4

-----------------------------------------------------------------------------
(***************************************************************************)
(* The clauses of a text of any length, and the windows inside them.       *)
(***************************************************************************)
\* words[p..q] is a clause.
Bounds(words, p, q) ==
  /\ p \in 1..Len(words) /\ q \in 1..Len(words) /\ p =< q
  /\ \A k \in p..q : words[k] # Barrier
  /\ p > 1 => words[p - 1] = Barrier
  /\ q < Len(words) => words[q + 1] = Barrier

LEMMA ClausesBounded ==
  ASSUME NEW words, NEW clause
  PROVE  clause \in Clauses(words) <=>
           \E p, q \in 1..Len(words) : Bounds(words, p, q) /\ clause = SubSeq(words, p, q)
<1> DEFINE n == Len(words)
           spans == {w \in (1..n) \X (1..n) :
                       /\ w[1] =< w[2]
                       /\ \A k \in w[1]..w[2] : words[k] # Barrier
                       /\ w[1] > 1 => words[w[1] - 1] = Barrier
                       /\ w[2] < n => words[w[2] + 1] = Barrier}
<1>1. clause \in Clauses(words) <=> \E w \in spans : clause = SubSeq(words, w[1], w[2])
  BY DEF Clauses
<1>2. \A p, q \in 1..n : <<p, q>> \in spans <=> Bounds(words, p, q)
  BY DEF Bounds
<1>3. \A w \in spans : w = <<w[1], w[2]>> /\ w[1] \in 1..n /\ w[2] \in 1..n
  OBVIOUS
<1> HIDE DEF spans
<1> QED
  BY <1>1, <1>2, <1>3

\* A clause, word by word.
LEMMA ClauseWords ==
  ASSUME NEW S, NEW words \in Seq(S), NEW p, NEW q, Bounds(words, p, q)
  PROVE  /\ p \in Nat /\ q \in Nat /\ Len(words) \in Nat
         /\ 1 =< p /\ p =< q /\ q =< Len(words)
         /\ SubSeq(words, p, q) \in Seq(S)
         /\ Len(SubSeq(words, p, q)) = q - p + 1
         /\ \A i \in p..q : SubSeq(words, p, q)[i - p + 1] = words[i]
         /\ \A i \in p..q : words[i] # Barrier
<1>1. p \in Nat /\ q \in Nat /\ Len(words) \in Nat /\ 1 =< p /\ p =< q /\ q =< Len(words)
  BY DEF Bounds
<1>2. \A i \in p..q : words[i] \in S
  BY <1>1
<1> DEFINE clause == SubSeq(words, p, q)
<1>3. /\ clause \in Seq(S) /\ Len(clause) = q - p + 1
      /\ \A j \in 1..q - p + 1 : clause[j] = words[p + j - 1]
  <2>1. /\ clause \in Seq(S) /\ Len(clause) = IF p =< q THEN q - p + 1 ELSE 0
        /\ \A j \in 1..q - p + 1 : clause[j] = words[p + j - 1]
    BY <1>1, <1>2, SubSeqProperties
  <2> HIDE DEF clause
  <2> QED
    BY <1>1, <2>1
<1> HIDE DEF clause
<1>4. ASSUME NEW i \in p..q PROVE clause[i - p + 1] = words[i]
  <2>1. i - p + 1 \in 1..q - p + 1 /\ p + (i - p + 1) - 1 = i
    BY <1>1
  <2> QED
    BY <1>3, <2>1
<1> QED
  BY <1>1, <1>3, <1>4 DEF clause, Bounds

\* Every word is in a clause.
LEMMA ClauseAround ==
  ASSUME NEW S, NEW words \in Seq(S), NEW i \in 1..Len(words), words[i] # Barrier
  PROVE  \E p, q \in 1..Len(words) : Bounds(words, p, q) /\ p =< i /\ i =< q
<1> DEFINE n == Len(words)
           P == {p \in 1..i : \A k \in p..i : words[k] # Barrier}
           Q == {q \in i..n : q = n \/ words[q + 1] = Barrier}
<1>1. n \in Nat /\ i \in Nat /\ 1 =< i /\ i =< n
  OBVIOUS
<1> HIDE DEF n
<1>2. PICK p \in P : \A m \in P : p =< m
  <2>1. i \in P /\ P \in SUBSET Nat
    <3>1. \A k \in i..i : k = i
      BY <1>1
    <3> QED
      BY <1>1, <3>1
  <2> HIDE DEF P
  <2> QED
    BY <2>1, LeastNatural
<1>3. PICK q \in Q : \A m \in Q : q =< m
  <2>1. n \in Q /\ Q \in SUBSET Nat
    BY <1>1
  <2> HIDE DEF Q
  <2> QED
    BY <2>1, LeastNatural
<1>4. /\ p \in Nat /\ 1 =< p /\ p =< i /\ \A k \in p..i : words[k] # Barrier
      /\ q \in Nat /\ i =< q /\ q =< n /\ (q = n \/ words[q + 1] = Barrier)
  BY <1>1, <1>2, <1>3
<1>5. p > 1 => words[p - 1] = Barrier
  <2> SUFFICES ASSUME p > 1, words[p - 1] # Barrier PROVE FALSE
    OBVIOUS
  <2>1. p - 1 \in 1..i /\ \A k \in (p - 1)..i : k = p - 1 \/ k \in p..i
    BY <1>1, <1>4
  <2>2. \A k \in (p - 1)..i : words[k] # Barrier
    BY <1>4, <2>1
  <2>3. p - 1 \in P
    BY <2>1, <2>2
  <2>4. p =< p - 1
    BY <1>2, <2>3
  <2> QED
    BY <1>4, <2>4
<1>6. ASSUME NEW k \in p..q PROVE words[k] # Barrier
  <2>1. CASE k =< i
    BY <1>1, <1>4, <2>1
  <2>2. CASE k > i
    <3> SUFFICES ASSUME words[k] = Barrier PROVE FALSE
      OBVIOUS
    <3>1. k - 1 \in i..n /\ k - 1 + 1 = k /\ k - 1 < q
      BY <1>1, <1>4, <2>2
    <3>2. k - 1 \in Q
      BY <3>1
    <3>3. q =< k - 1
      BY <1>3, <3>2
    <3> QED
      BY <1>4, <3>1, <3>3
  <2> QED
    BY <1>1, <1>4, <2>1, <2>2
<1>7. p \in 1..n /\ q \in 1..n /\ p =< q
  BY <1>1, <1>4
<1>8. q < n => words[q + 1] = Barrier
  BY <1>1, <1>4
<1>9. Bounds(words, p, q)
  BY <1>5, <1>6, <1>7, <1>8 DEF Bounds, n
<1> QED
  BY <1>4, <1>7, <1>9 DEF n

\* What WindowEnd chooses, and that there is one such end.
Closes(words, start, end) ==
  /\ end < start + TemplateWindow
  /\ \A i \in start..end : words[i] # Barrier
  /\ \/ end \in {Len(words), start + TemplateWindow - 1}
     \/ words[end + 1] = Barrier

LEMMA WindowIs ==
  ASSUME NEW S, NEW words \in Seq(S), NEW start \in 1..Len(words), words[start] # Barrier
  PROVE  /\ WindowEnd(words, start) \in start..Len(words)
         /\ Closes(words, start, WindowEnd(words, start))
         /\ \A e \in start..Len(words) : Closes(words, start, e) => e = WindowEnd(words, start)
<1> DEFINE n == Len(words)
           Q == {e \in start..n : e \in {n, start + TemplateWindow - 1} \/ words[e + 1] = Barrier}
<1>1. n \in Nat /\ start \in Nat /\ 1 =< start /\ start =< n
  OBVIOUS
<1> HIDE DEF n
<1>2. PICK e \in Q : \A m \in Q : e =< m
  <2>1. n \in Q /\ Q \in SUBSET Nat
    BY <1>1
  <2> HIDE DEF Q
  <2> QED
    BY <2>1, LeastNatural
<1>3. e \in start..n /\ (e \in {n, start + TemplateWindow - 1} \/ words[e + 1] = Barrier)
  BY <1>2
<1>4. e < start + TemplateWindow
  <2> SUFFICES ASSUME e >= start + TemplateWindow PROVE FALSE
    BY <1>1, <1>3 DEF TemplateWindow
  <2>1. start + TemplateWindow - 1 \in Q /\ ~ (e =< start + TemplateWindow - 1)
    BY <1>1, <1>3 DEF TemplateWindow
  <2> QED
    BY <1>2, <2>1
<1>5. ASSUME NEW i \in start..e PROVE words[i] # Barrier
  <2> SUFFICES ASSUME words[i] = Barrier PROVE FALSE
    OBVIOUS
  <2>1. i # start
    OBVIOUS
  <2>2. i - 1 \in start..n /\ i - 1 + 1 = i /\ ~ (e =< i - 1)
    BY <1>1, <1>3, <2>1
  <2>3. i - 1 \in Q
    BY <2>2
  <2> QED
    BY <1>2, <2>2, <2>3
<1>6. Closes(words, start, e)
  BY <1>3, <1>4, <1>5 DEF Closes, n
<1>7. ASSUME NEW d \in start..n, Closes(words, start, d) PROVE d = e
  <2>1. d \in Q /\ d < start + TemplateWindow
    BY <1>7 DEF Closes, n
  <2>2. e =< d
    BY <1>2, <2>1
  <2>3. CASE e < d
    <3>1. e + 1 \in start..d
      BY <1>1, <1>3, <2>3
    <3>2. words[e + 1] # Barrier
      BY <1>7, <3>1 DEF Closes
    <3>3. e \in {n, start + TemplateWindow - 1}
      BY <1>3, <3>2
    <3> QED
      BY <1>1, <1>3, <2>1, <2>3, <3>3 DEF TemplateWindow
  <2> QED
    BY <1>1, <1>3, <2>2, <2>3
<1>8. WindowEnd(words, start) = CHOOSE d \in start..n : Closes(words, start, d)
  BY DEF WindowEnd, Closes, n
<1>9. WindowEnd(words, start) = e
  BY <1>3, <1>6, <1>7, <1>8
<1> QED
  BY <1>3, <1>6, <1>7, <1>9 DEF n

\* A window is inside the clause it begins in, and is the clause's own.
LEMMA WindowInside ==
  ASSUME NEW S, NEW words \in Seq(S), NEW p, NEW q, Bounds(words, p, q), NEW s \in p..q
  PROVE  /\ WindowEnd(words, s) \in s..q
         /\ WindowEnd(SubSeq(words, p, q), s - p + 1) = WindowEnd(words, s) - p + 1
<1> DEFINE n == Len(words)
           clause == SubSeq(words, p, q)
           e == WindowEnd(words, s)
<1>1. /\ p \in Nat /\ q \in Nat /\ n \in Nat /\ 1 =< p /\ p =< q /\ q =< n
      /\ clause \in Seq(S) /\ Len(clause) = q - p + 1
      /\ \A i \in p..q : clause[i - p + 1] = words[i]
      /\ \A i \in p..q : words[i] # Barrier
  BY ClauseWords
<1>2. q < n => words[q + 1] = Barrier
  BY DEF Bounds
<1>3. s \in Nat /\ p =< s /\ s =< q /\ s \in 1..n /\ words[s] # Barrier
  BY <1>1
<1>4. e \in s..n /\ Closes(words, s, e)
  BY <1>3, WindowIs
<1> HIDE DEF clause, e, n
<1>5. e =< q
  <2> SUFFICES ASSUME e > q PROVE FALSE
    BY <1>1, <1>3, <1>4
  <2>1. q < n /\ q + 1 \in s..e
    BY <1>1, <1>3, <1>4
  <2> QED
    BY <1>2, <1>4, <2>1 DEF Closes
<1>6. e \in Nat /\ s =< e /\ e =< q
  BY <1>3, <1>4, <1>5
<1> DEFINE t == s - p + 1
           d == e - p + 1
<1>7. t \in 1..Len(clause) /\ d \in t..Len(clause) /\ clause[t] # Barrier
  BY <1>1, <1>3, <1>6
<1>8. Closes(clause, t, d)
  <2>1. d < t + TemplateWindow
    BY <1>1, <1>3, <1>4, <1>6 DEF Closes, TemplateWindow
  <2>2. ASSUME NEW i \in t..d PROVE clause[i] # Barrier
    <3>1. i + p - 1 \in p..q /\ (i + p - 1) - p + 1 = i
      BY <1>1, <1>3, <1>6
    <3> QED
      BY <1>1, <3>1
  <2>3. d \in {Len(clause), t + TemplateWindow - 1}
    <3>1. CASE e = q
      BY <1>1, <1>6, <3>1
    <3>2. CASE e < q
      <4>1. e + 1 \in p..q /\ e # n
        BY <1>1, <1>3, <1>6, <3>2
      <4>2. e = s + TemplateWindow - 1
        BY <1>1, <1>4, <4>1 DEF Closes, n
      <4> QED
        BY <1>1, <1>3, <4>2 DEF TemplateWindow
    <3> QED
      BY <1>1, <1>6, <3>1, <3>2
  <2> HIDE DEF t, d
  <2> QED
    BY <2>1, <2>2, <2>3 DEF Closes
<1> HIDE DEF t, d
<1>9. d = WindowEnd(clause, t)
  BY <1>1, <1>7, <1>8, WindowIs
<1> QED
  BY <1>6, <1>9 DEF t, d, e, clause

-----------------------------------------------------------------------------
(***************************************************************************)
(* Templates.                                                              *)
(***************************************************************************)
\* A template of words: no barrier is named in it.
OfWords(template) ==
  /\ Len(template.groups) \in Nat \ {0}
  /\ \A g \in 1..Len(template.groups) : Barrier \notin template.groups[g]
  /\ Barrier \notin template.before /\ Barrier \notin template.after

\* The template is matched in the window that begins at start.
MatchesAt(words, template, start) ==
  LET end == WindowEnd(words, start) IN
  /\ words[start] \in Anchors(template)
  /\ start > 1 => words[start - 1] \notin template.before
  /\ \A i \in start..end : words[i] \notin template.within
  /\ ~(template.quotes /\ ReportsOwnWords(words, start, end))
  /\ \E at \in [1..Len(template.groups) -> start..end] : Assigned(words, template, at)

LEMMA AnchorsAreWords ==
  ASSUME NEW template, OfWords(template)
  PROVE  Barrier \notin Anchors(template)
BY DEF OfWords, Anchors

\* That every group has a word somewhere is but a quick test.
LEMMA MatchesSomewhere ==
  ASSUME NEW S, NEW words \in Seq(S), NEW template, OfWords(template)
  PROVE  Matches(words, template) <=> \E start \in 1..Len(words) : MatchesAt(words, template, start)
<1>1. ASSUME NEW start \in 1..Len(words), MatchesAt(words, template, start)
      PROVE  \A g \in 1..Len(template.groups) : template.groups[g] \cap WordsOf(words) # {}
  <2> DEFINE end == WindowEnd(words, start)
  <2>1. words[start] # Barrier
    BY <1>1, AnchorsAreWords DEF MatchesAt
  <2>2. end \in start..Len(words)
    BY <2>1, WindowIs
  <2>3. PICK at \in [1..Len(template.groups) -> start..end] : Assigned(words, template, at)
    BY <1>1 DEF MatchesAt
  <2> SUFFICES ASSUME NEW g \in 1..Len(template.groups)
               PROVE  template.groups[g] \cap WordsOf(words) # {}
    OBVIOUS
  <2>4. words[at[g]] \in template.groups[g]
    BY <2>3 DEF Assigned
  <2> HIDE DEF end
  <2>5. at[g] \in start..end
    OBVIOUS
  <2>6. at[g] \in 1..Len(words)
    BY <2>2, <2>5
  <2>7. words[at[g]] \in WordsOf(words)
    BY <2>6 DEF WordsOf
  <2> QED
    BY <2>4, <2>7
<1> QED
  BY <1>1 DEF Matches, MatchesAt

\* An assignment of the groups to words of a clause, moved with the clause.
LEMMA AssignedMoves ==
  ASSUME NEW S, NEW words \in Seq(S), NEW p, NEW q, Bounds(words, p, q),
         NEW template, OfWords(template),
         NEW at \in [1..Len(template.groups) -> p..q]
  PROVE  Assigned(words, template, at)
           <=> Assigned(SubSeq(words, p, q), template,
                        [g \in 1..Len(template.groups) |-> at[g] - p + 1])
<1> DEFINE clause == SubSeq(words, p, q)
           n == Len(template.groups)
           to == [g \in 1..n |-> at[g] - p + 1]
           len == Len(words)
<1>1. /\ p \in Nat /\ q \in Nat /\ len \in Nat /\ 1 =< p /\ p =< q /\ q =< len
      /\ Len(clause) = q - p + 1
      /\ \A i \in p..q : clause[i - p + 1] = words[i]
  BY ClauseWords
<1>2. q < len => words[q + 1] = Barrier
  BY DEF Bounds
<1>3. n \in Nat \ {0} /\ Barrier \notin template.after
  BY DEF OfWords
<1>4. at \in [1..n -> p..q]
  OBVIOUS
<1> HIDE DEF clause, n, len
<1>5. \A g \in 1..n : at[g] \in Int /\ p =< at[g] /\ at[g] =< q /\ to[g] = at[g] - p + 1
  <2>1. \A g \in 1..n : at[g] \in p..q /\ to[g] = at[g] - p + 1
    BY <1>4
  <2> HIDE DEF to
  <2> QED
    BY <1>1, <2>1
<1>6. \A g \in 1..n : clause[to[g]] = words[at[g]]
  BY <1>1, <1>4, <1>5
<1>7. \A g \in 2..n : g \in 1..n /\ g - 1 \in 1..n
  BY <1>3
<1>8. \A g, h \in 1..n :
        /\ to[g] # to[h] <=> at[g] # at[h]
        /\ to[g] < to[h] <=> at[g] < at[h]
        /\ to[g] = to[h] + 1 <=> at[g] = at[h] + 1
        /\ Distance(to[h], to[g]) = Distance(at[h], at[g])
  <2> SUFFICES ASSUME NEW g \in 1..n, NEW h \in 1..n
               PROVE  /\ to[g] # to[h] <=> at[g] # at[h]
                      /\ to[g] < to[h] <=> at[g] < at[h]
                      /\ to[g] = to[h] + 1 <=> at[g] = at[h] + 1
                      /\ Distance(to[h], to[g]) = Distance(at[h], at[g])
    OBVIOUS
  <2>1. at[g] \in Int /\ at[h] \in Int /\ to[g] = at[g] - p + 1 /\ to[h] = at[h] - p + 1
    BY <1>5
  <2> DEFINE a == at[g]
             b == at[h]
             u == to[g]
             v == to[h]
  <2>2. a \in Int /\ b \in Int /\ p \in Int /\ u = a - p + 1 /\ v = b - p + 1
    BY <1>1, <2>1
  <2> HIDE DEF a, b, u, v
  <2>3. u # v <=> a # b
    BY <2>2
  <2>4. (u < v <=> a < b) /\ (v < u <=> b < a)
    BY <2>2
  <2>5. u = v + 1 <=> a = b + 1
    BY <2>2
  <2>6. u - v = a - b /\ v - u = b - a
    BY <2>2
  <2>7. Distance(v, u) = Distance(b, a)
    BY <2>4, <2>6 DEF Distance
  <2> QED
    BY <2>3, <2>4, <2>5, <2>7 DEF a, b, u, v
<1>9. (to[n] < Len(clause) => clause[to[n] + 1] \notin template.after)
        <=> (at[n] < len => words[at[n] + 1] \notin template.after)
  <2>1. at[n] \in Int /\ p =< at[n] /\ at[n] =< q /\ to[n] = at[n] - p + 1
    BY <1>3, <1>5
  <2> HIDE DEF to
  <2>2. CASE at[n] = q
    <3>1. ~ (to[n] < Len(clause))
      BY <1>1, <2>1, <2>2
    <3> QED
      BY <1>1, <1>2, <1>3, <2>2, <3>1
  <2>3. CASE at[n] < q
    <3>1. at[n] + 1 \in p..q /\ to[n] + 1 = (at[n] + 1) - p + 1
      BY <1>1, <2>1, <2>3
    <3>2. clause[to[n] + 1] = words[at[n] + 1]
      <4>1. \A i \in p..q : clause[i - p + 1] = words[i]
        BY <1>1
      <4> QED
        BY <3>1, <4>1
    <3>3. to[n] < Len(clause) /\ at[n] < len
      BY <1>1, <2>1, <2>3
    <3> QED
      BY <3>2, <3>3
  <2> QED
    BY <1>1, <2>1, <2>2, <2>3
<1> HIDE DEF to
<1>10. (\A g \in 1..n : clause[to[g]] \in template.groups[g])
         <=> \A g \in 1..n : words[at[g]] \in template.groups[g]
  BY <1>6
<1>11. (\A g, h \in 1..n : g # h => to[g] # to[h]) <=> \A g, h \in 1..n : g # h => at[g] # at[h]
  BY <1>8
<1>12. ASSUME NEW g \in 2..n
       PROVE  (/\ template.ordered => to[g - 1] < to[g]
               /\ g \in template.adjacent => to[g] = to[g - 1] + 1
               /\ template.gaps # <<>> => Distance(to[g - 1], to[g]) =< template.gaps[g - 1])
              <=> (/\ template.ordered => at[g - 1] < at[g]
                   /\ g \in template.adjacent => at[g] = at[g - 1] + 1
                   /\ template.gaps # <<>> => Distance(at[g - 1], at[g]) =< template.gaps[g - 1])
  <2>1. g \in 1..n /\ g - 1 \in 1..n
    BY <1>7
  <2>2. /\ to[g - 1] < to[g] <=> at[g - 1] < at[g]
        /\ to[g] = to[g - 1] + 1 <=> at[g] = at[g - 1] + 1
        /\ Distance(to[g - 1], to[g]) = Distance(at[g - 1], at[g])
    BY <1>8, <2>1
  <2> QED
    BY <2>2
<1>13. Assigned(clause, template, to) <=> Assigned(words, template, at)
  BY <1>9, <1>10, <1>11, <1>12 DEF Assigned, n, len
<1> QED
  BY <1>13 DEF clause, to, n

\* A template is matched from a word exactly when it is in the word's clause.
LEMMA MatchesInside ==
  ASSUME NEW S, NEW words \in Seq(S), NEW p, NEW q, Bounds(words, p, q), NEW s \in p..q,
         NEW template, OfWords(template)
  PROVE  MatchesAt(words, template, s)
           <=> MatchesAt(SubSeq(words, p, q), template, s - p + 1)
<1> DEFINE clause == SubSeq(words, p, q)
           n == Len(template.groups)
           len == Len(words)
           e == WindowEnd(words, s)
           t == s - p + 1
           d == e - p + 1
<1>1. /\ p \in Nat /\ q \in Nat /\ len \in Nat /\ 1 =< p /\ p =< q /\ q =< len
      /\ Len(clause) = q - p + 1
      /\ \A i \in p..q : clause[i - p + 1] = words[i]
  <2> HIDE DEF e, n, t, d
  <2> QED
    BY ClauseWords
<1>2. /\ p > 1 => words[p - 1] = Barrier
      /\ q < len => words[q + 1] = Barrier
  BY DEF Bounds
<1>3. e \in s..q /\ WindowEnd(clause, t) = d
  BY WindowInside
<1> HIDE DEF clause, e, len, n
<1>4. s \in Nat /\ p =< s /\ s =< e /\ e =< q /\ e \in Nat
  BY <1>1, <1>3
<1>5. clause[t] = words[s]
  BY <1>1
<1>6. (t > 1 => clause[t - 1] \notin template.before) <=> (s > 1 => words[s - 1] \notin template.before)
  <2>1. CASE s = p
    BY <1>1, <1>2, <2>1 DEF OfWords
  <2>2. CASE s > p
    <3>1. s - 1 \in p..q /\ t - 1 = (s - 1) - p + 1
      BY <1>1, <1>4, <2>2
    <3>2. clause[t - 1] = words[s - 1] /\ t > 1 /\ s > 1
      BY <1>1, <1>4, <2>2, <3>1
    <3> QED
      BY <3>2
  <2> QED
    BY <1>1, <1>4, <2>1, <2>2
<1>7. \A i \in s..e : i \in p..q /\ i - p + 1 \in t..d
  BY <1>1, <1>4
<1>8. \A j \in t..d : j + p - 1 \in s..e /\ (j + p - 1) - p + 1 = j
  BY <1>1, <1>4
<1> HIDE DEF t, d
<1>9. (\A i \in t..d : clause[i] \notin template.within)
        <=> \A i \in s..e : words[i] \notin template.within
  BY <1>1, <1>7, <1>8
<1>10. ReportsOwnWords(clause, t, d) <=> ReportsOwnWords(words, s, e)
  <2> DEFINE says(w, i) ==
        /\ i < Len(w)
        /\ \/ w[i] \in FirstPersonSubjects /\ w[i + 1] \in SelfReportingVerbs
           \/ w[i] \in FirstPersonPossessive
              /\ w[i + 1] \in DirectiveNouns \cup AntecedentMarkers
  <2>1. ASSUME NEW i \in s..e PROVE says(clause, i - p + 1) <=> says(words, i)
    <3>1. i \in p..q /\ i \in Nat /\ clause[i - p + 1] = words[i]
      BY <1>1, <1>7
    <3>2. CASE i = q
      <4>1. ~ (i - p + 1 < Len(clause))
        BY <1>1, <3>2
      <4>2. i < Len(words) => words[i + 1] = Barrier
        BY <1>2, <3>2 DEF len
      <4>3. Barrier \notin SelfReportingVerbs \cup DirectiveNouns \cup AntecedentMarkers
        BY DEF Barrier, SelfReportingVerbs, DirectiveNouns, AntecedentMarkers
      <4> QED
        BY <4>1, <4>2, <4>3
    <3>3. CASE i < q
      <4>1. i + 1 \in p..q /\ (i - p + 1) + 1 = (i + 1) - p + 1
        BY <1>1, <3>1, <3>3
      <4>2. clause[(i - p + 1) + 1] = words[i + 1]
        BY <1>1, <4>1
      <4>3. i - p + 1 < Len(clause) /\ i < Len(words)
        BY <1>1, <3>1, <3>3 DEF len
      <4> QED
        BY <3>1, <4>2, <4>3
    <3> QED
      BY <1>1, <3>1, <3>2, <3>3
  <2>2. /\ ReportsOwnWords(clause, t, d) <=> \E i \in t..d : says(clause, i)
        /\ ReportsOwnWords(words, s, e) <=> \E i \in s..e : says(words, i)
    BY DEF ReportsOwnWords
  <2> HIDE DEF says
  <2> QED
    BY <1>7, <1>8, <2>1, <2>2
<1>11. (\E at \in [1..n -> t..d] : Assigned(clause, template, at))
         <=> \E at \in [1..n -> s..e] : Assigned(words, template, at)
  <2>1. ASSUME NEW at \in [1..n -> s..e], Assigned(words, template, at)
        PROVE  \E to \in [1..n -> t..d] : Assigned(clause, template, to)
    <3> DEFINE to == [g \in 1..n |-> at[g] - p + 1]
    <3>1. at \in [1..n -> p..q]
      BY <1>7
    <3>2. to \in [1..n -> t..d]
      BY <1>7
    <3>3. Assigned(clause, template, to)
      BY <2>1, <3>1, AssignedMoves DEF n, clause
    <3> QED
      BY <3>2, <3>3
  <2>2. ASSUME NEW to \in [1..n -> t..d], Assigned(clause, template, to)
        PROVE  \E at \in [1..n -> s..e] : Assigned(words, template, at)
    <3> DEFINE at == [g \in 1..n |-> to[g] + p - 1]
               back == [g \in 1..n |-> at[g] - p + 1]
    <3>1. at \in [1..n -> s..e]
      BY <1>8
    <3>2. at \in [1..n -> p..q]
      <4> HIDE DEF at
      <4> QED
        BY <1>7, <3>1
    <3>3. back = to
      <4>1. \A g \in 1..n : back[g] = to[g]
        BY <1>8
      <4> HIDE DEF at
      <4> QED
        BY <4>1
    <3>4. Assigned(words, template, at) <=> Assigned(clause, template, back)
      <4> HIDE DEF at
      <4> QED
        BY <3>2, AssignedMoves DEF n, clause
    <3> HIDE DEF at, back
    <3> QED
      BY <2>2, <3>1, <3>3, <3>4
  <2> QED
    BY <2>1, <2>2
<1>12. /\ MatchesAt(words, template, s) <=>
            /\ words[s] \in Anchors(template)
            /\ s > 1 => words[s - 1] \notin template.before
            /\ \A i \in s..e : words[i] \notin template.within
            /\ ~(template.quotes /\ ReportsOwnWords(words, s, e))
            /\ \E at \in [1..n -> s..e] : Assigned(words, template, at)
       /\ MatchesAt(clause, template, t) <=>
            /\ clause[t] \in Anchors(template)
            /\ t > 1 => clause[t - 1] \notin template.before
            /\ \A i \in t..d : clause[i] \notin template.within
            /\ ~(template.quotes /\ ReportsOwnWords(clause, t, d))
            /\ \E at \in [1..n -> t..d] : Assigned(clause, template, at)
  BY <1>3 DEF MatchesAt, e, n
<1>13. MatchesAt(words, template, s) <=> MatchesAt(clause, template, t)
  BY <1>5, <1>6, <1>9, <1>10, <1>11, <1>12
<1> QED
  BY <1>13 DEF clause, t

\* A template is heard in a text of any length exactly when it is heard in one of
\* its clauses, whatever comes before and after: rules.py:278.
THEOREM TemplatesStayInClause ==
  ASSUME NEW S, NEW words \in Seq(S), NEW template, OfWords(template)
  PROVE  Matches(words, template) <=> \E clause \in Clauses(words) : Matches(clause, template)
<1>1. ASSUME NEW s \in 1..Len(words), MatchesAt(words, template, s)
      PROVE  \E clause \in Clauses(words) : Matches(clause, template)
  <2>1. words[s] # Barrier
    BY <1>1, AnchorsAreWords DEF MatchesAt
  <2>2. PICK p, q \in 1..Len(words) : Bounds(words, p, q) /\ p =< s /\ s =< q
    BY <2>1, ClauseAround
  <2> DEFINE clause == SubSeq(words, p, q)
  <2>3. clause \in Clauses(words)
    BY <2>2, ClausesBounded
  <2>4. clause \in Seq(S) /\ Len(clause) = q - p + 1
    BY <2>2, ClauseWords
  <2>5. s \in p..q
    BY <2>2
  <2>6. MatchesAt(clause, template, s - p + 1)
    BY <1>1, <2>2, <2>5, MatchesInside
  <2> HIDE DEF clause
  <2>7. s - p + 1 \in 1..Len(clause)
    BY <2>4, <2>5
  <2>8. Matches(clause, template)
    BY <2>4, <2>6, <2>7, MatchesSomewhere
  <2> QED
    BY <2>3, <2>8
<1>2. ASSUME NEW clause \in Clauses(words), Matches(clause, template)
      PROVE  \E s \in 1..Len(words) : MatchesAt(words, template, s)
  <2>1. PICK p, q \in 1..Len(words) : Bounds(words, p, q) /\ clause = SubSeq(words, p, q)
    BY ClausesBounded
  <2>2. clause \in Seq(S) /\ Len(clause) = q - p + 1 /\ q =< Len(words)
    BY <2>1, ClauseWords
  <2>3. PICK t \in 1..Len(clause) : MatchesAt(clause, template, t)
    BY <1>2, <2>2, MatchesSomewhere
  <2> DEFINE s == t + p - 1
  <2>4. s \in p..q /\ s \in 1..Len(words) /\ s - p + 1 = t
    BY <2>2
  <2> HIDE DEF s
  <2>5. MatchesAt(words, template, s)
    BY <2>1, <2>3, <2>4, MatchesInside
  <2> QED
    BY <2>4, <2>5
<1> QED
  BY <1>1, <1>2, MatchesSomewhere

-----------------------------------------------------------------------------
(***************************************************************************)
(* Phrases.                                                                *)
(***************************************************************************)
\* A phrase of words: neither it nor its joined form is a barrier.
OfWordsOnly(phrase) ==
  /\ Len(phrase.words) \in Nat \ {0}
  /\ \A k \in 1..Len(phrase.words) : phrase.words[k] # Barrier
  /\ phrase.joined # Barrier

LEMMA CarriesWords ==
  ASSUME NEW stem, stem # Barrier, NEW inflected
  PROVE  ~Carries(Barrier, stem, inflected)
BY DEF Carries, InflectionsOf, Barrier

LEMMA SpansAreWords ==
  ASSUME NEW S, NEW words \in Seq(S), NEW start \in 1..Len(words), NEW last \in start..Len(words),
         NEW phrase, OfWordsOnly(phrase), Spans(words, start, last, phrase)
  PROVE  \A i \in start..last : words[i] # Barrier
<1> DEFINE n == Len(phrase.words)
<1>1. /\ n \in Nat \ {0} /\ \A k \in 1..n : phrase.words[k] # Barrier
      /\ phrase.joined # Barrier /\ start \in Nat /\ last \in Nat /\ start =< last
  BY DEF OfWordsOnly
<1>2. \/ last = start /\ Carries(words[start], phrase.joined, phrase.inflected)
      \/ /\ last = start + n - 1
         /\ \A k \in 1..(n - 1) : words[start + k - 1] = phrase.words[k]
         /\ Carries(words[last], phrase.words[n], phrase.inflected)
  BY DEF Spans
<1> HIDE DEF n
<1>3. CASE last = start /\ Carries(words[start], phrase.joined, phrase.inflected)
  <2>1. words[start] # Barrier
    BY <1>1, <1>3, CarriesWords
  <2>2. \A i \in start..last : i = start
    BY <1>1, <1>3
  <2> QED
    BY <2>1, <2>2
<1>4. CASE /\ last = start + n - 1
           /\ \A k \in 1..(n - 1) : words[start + k - 1] = phrase.words[k]
           /\ Carries(words[last], phrase.words[n], phrase.inflected)
  <2> SUFFICES ASSUME NEW i \in start..last PROVE words[i] # Barrier
    OBVIOUS
  <2>1. CASE i = last
    <3>1. n \in 1..n
      BY <1>1
    <3> QED
      BY <1>1, <1>4, <2>1, <3>1, CarriesWords
  <2>2. CASE i < last
    <3>1. i - start + 1 \in 1..(n - 1) /\ i - start + 1 \in 1..n /\ start + (i - start + 1) - 1 = i
      BY <1>1, <1>4, <2>2
    <3> QED
      BY <1>1, <1>4, <3>1
  <2> QED
    BY <1>1, <2>1, <2>2
<1> QED
  BY <1>2, <1>3, <1>4

\* Where a phrase is in a text, it is in the clause there.
LEMMA SpansInside ==
  ASSUME NEW S, NEW words \in Seq(S), NEW p, NEW q, Bounds(words, p, q),
         NEW start \in p..q, NEW last \in start..q, NEW phrase, OfWordsOnly(phrase)
  PROVE  LET clause == SubSeq(words, p, q)
         IN  /\ Spans(words, start, last, phrase)
                  <=> Spans(clause, start - p + 1, last - p + 1, phrase)
             /\ ScopeFollows(words, last, phrase) <=> ScopeFollows(clause, last - p + 1, phrase)
<1> DEFINE clause == SubSeq(words, p, q)
           n == Len(phrase.words)
           len == Len(words)
           s == start - p + 1
           l == last - p + 1
<1>1. /\ p \in Nat /\ q \in Nat /\ len \in Nat /\ 1 =< p /\ p =< q /\ q =< len
      /\ Len(clause) = q - p + 1
      /\ \A i \in p..q : clause[i - p + 1] = words[i]
  BY ClauseWords
<1>2. q < len => words[q + 1] = Barrier
  BY DEF Bounds
<1>3. n \in Nat \ {0}
  BY DEF OfWordsOnly
<1> HIDE DEF clause, n, len
<1>4. start \in Nat /\ last \in Nat /\ p =< start /\ start =< last /\ last =< q
  BY <1>1
<1>5. clause[s] = words[start] /\ clause[l] = words[last]
  <2>1. start \in p..q /\ last \in p..q
    BY <1>1, <1>4
  <2> QED
    BY <1>1, <2>1
<1>6. (l = s <=> last = start) /\ (l = s + n - 1 <=> last = start + n - 1)
  BY <1>1, <1>3, <1>4
<1>7. last = start + n - 1 => \A k \in 1..(n - 1) : clause[s + k - 1] = words[start + k - 1]
  <2> SUFFICES ASSUME last = start + n - 1, NEW k \in 1..(n - 1)
               PROVE  clause[s + k - 1] = words[start + k - 1]
    OBVIOUS
  <2>1. start + k - 1 \in p..q /\ s + k - 1 = (start + k - 1) - p + 1
    BY <1>1, <1>3, <1>4
  <2> QED
    BY <1>1, <2>1
<1>8. (l < Len(clause) /\ clause[l + 1] \in ScopingPrepositions)
        <=> (last < len /\ words[last + 1] \in ScopingPrepositions)
  <2>1. CASE last = q
    <3>1. ~ (l < Len(clause)) /\ Barrier \notin ScopingPrepositions
      BY <1>1, <2>1 DEF Barrier, ScopingPrepositions
    <3> QED
      BY <1>2, <2>1, <3>1
  <2>2. CASE last < q
    <3>1. last + 1 \in p..q /\ l + 1 = (last + 1) - p + 1 /\ l < Len(clause) /\ last < len
      BY <1>1, <1>4, <2>2
    <3> QED
      BY <1>1, <3>1
  <2> QED
    BY <1>1, <1>4, <2>1, <2>2
<1> HIDE DEF s, l
<1>9. Spans(words, start, last, phrase) <=> Spans(clause, s, l, phrase)
  BY <1>5, <1>6, <1>7 DEF Spans, n
<1>10. ScopeFollows(words, last, phrase) <=> ScopeFollows(clause, l, phrase)
  BY <1>8 DEF ScopeFollows, len
<1> QED
  BY <1>9, <1>10 DEF clause, s, l

\* So is a phrase, with what would make a product question of it.
THEOREM PhrasesStayInClause ==
  ASSUME NEW S, NEW words \in Seq(S), NEW phrases, \A phrase \in phrases : OfWordsOnly(phrase)
  PROVE  ContainsPhrase(words, phrases)
           <=> \E clause \in Clauses(words) : ContainsPhrase(clause, phrases)
<1>1. ASSUME ContainsPhrase(words, phrases)
      PROVE  \E clause \in Clauses(words) : ContainsPhrase(clause, phrases)
  <2>1. PICK phrase \in phrases, start \in 1..Len(words), last \in 1..Len(words) :
          /\ last \in start..Len(words)
          /\ Spans(words, start, last, phrase) /\ ~ScopeFollows(words, last, phrase)
    <3>1. PICK phrase \in phrases, start \in 1..Len(words) :
            \E last \in start..Len(words) :
              Spans(words, start, last, phrase) /\ ~ScopeFollows(words, last, phrase)
      BY <1>1 DEF ContainsPhrase
    <3>2. \A last \in start..Len(words) : last \in 1..Len(words)
      OBVIOUS
    <3> QED
      BY <3>1, <3>2
  <2>2. \A i \in start..last : words[i] # Barrier
    BY <2>1, SpansAreWords
  <2>3. start \in start..last /\ start \in Nat /\ last \in Nat /\ start =< last /\ last =< Len(words)
    BY <2>1
  <2>4. PICK p, q \in 1..Len(words) : Bounds(words, p, q) /\ p =< start /\ start =< q
    BY <2>2, <2>3, ClauseAround
  <2> DEFINE clause == SubSeq(words, p, q)
             s == start - p + 1
             l == last - p + 1
  <2>5. last =< q
    <3> SUFFICES ASSUME last > q PROVE FALSE
      BY <2>3, <2>4
    <3>1. q + 1 \in start..last /\ q < Len(words)
      BY <2>3, <2>4
    <3>2. words[q + 1] = Barrier
      BY <2>4, <3>1 DEF Bounds
    <3> QED
      BY <2>2, <3>1, <3>2
  <2>6. start \in p..q /\ last \in start..q
    BY <2>3, <2>4, <2>5
  <2>7. Spans(clause, s, l, phrase) /\ ~ScopeFollows(clause, l, phrase)
    BY <2>1, <2>4, <2>6, SpansInside
  <2>8. clause \in Clauses(words) /\ Len(clause) = q - p + 1
    <3>1. clause \in Clauses(words)
      BY <2>4, ClausesBounded
    <3>2. Len(clause) = q - p + 1
      BY <2>4, ClauseWords
    <3> QED
      BY <3>1, <3>2
  <2> HIDE DEF clause
  <2>9. s \in 1..Len(clause) /\ l \in s..Len(clause)
    BY <2>4, <2>6, <2>8
  <2> QED
    BY <2>7, <2>8, <2>9 DEF ContainsPhrase
<1>2. ASSUME NEW clause \in Clauses(words), ContainsPhrase(clause, phrases)
      PROVE  ContainsPhrase(words, phrases)
  <2>1. PICK p, q \in 1..Len(words) : Bounds(words, p, q) /\ clause = SubSeq(words, p, q)
    BY ClausesBounded
  <2>2. Len(clause) = q - p + 1 /\ q =< Len(words)
    BY <2>1, ClauseWords
  <2>3. PICK phrase \in phrases, s \in 1..Len(clause), l \in 1..Len(clause) :
          /\ l \in s..Len(clause)
          /\ Spans(clause, s, l, phrase) /\ ~ScopeFollows(clause, l, phrase)
    <3>1. PICK phrase \in phrases, s \in 1..Len(clause) :
            \E l \in s..Len(clause) :
              Spans(clause, s, l, phrase) /\ ~ScopeFollows(clause, l, phrase)
      BY <1>2 DEF ContainsPhrase
    <3>2. \A l \in s..Len(clause) : l \in 1..Len(clause)
      OBVIOUS
    <3> QED
      BY <3>1, <3>2
  <2> DEFINE start == s + p - 1
             last == l + p - 1
  <2>4. /\ start \in p..q /\ last \in start..q /\ start - p + 1 = s /\ last - p + 1 = l
        /\ start \in 1..Len(words) /\ last \in start..Len(words)
    BY <2>2, <2>3
  <2> HIDE DEF start, last
  <2>5. Spans(words, start, last, phrase) /\ ~ScopeFollows(words, last, phrase)
    BY <2>1, <2>3, <2>4, SpansInside
  <2> QED
    BY <2>4, <2>5 DEF ContainsPhrase
<1> QED
  BY <1>1, <1>2

-----------------------------------------------------------------------------
(***************************************************************************)
(* The tables, and texts that are read in one way only.                    *)
(***************************************************************************)
SafetyTemplates ==
  OptOutTemplates \cup AbuseTemplates \cup InternalInfoTemplates \cup PromptInjectionTemplates
SafetyPhrases ==
  OptOutPhrases \cup AbuseTerms \cup InternalInfoPhrases \cup PromptInjectionPhrases

LEMMA PhrasesOfWords == \A phrase \in SafetyPhrases : OfWordsOnly(phrase)
BY DEF SafetyPhrases, OptOutPhrases, AbuseTerms, InternalInfoPhrases, PromptInjectionPhrases,
       Phrase, OfWordsOnly, Barrier

\* A template is known by its groups and what may not stand beside it.
LEMMA TemplateOfWords ==
  ASSUME NEW template, NEW a, NEW b, NEW c,
         template.groups = <<a, b, c>> \/ template.groups = <<a, b>>,
         Barrier \notin a \cup b \cup c \cup template.before \cup template.after
  PROVE  OfWords(template)
<1>1. CASE template.groups = <<a, b, c>>
  <2>1. Len(template.groups) = 3
    BY <1>1
  <2>2. \A g \in 1..3 : template.groups[g] \in {a, b, c}
    BY <1>1
  <2> QED
    BY <2>1, <2>2 DEF OfWords
<1>2. CASE template.groups = <<a, b>>
  <2>1. Len(template.groups) = 2
    BY <1>2
  <2>2. \A g \in 1..2 : template.groups[g] \in {a, b}
    BY <1>2
  <2> QED
    BY <2>1, <2>2 DEF OfWords
<1> QED
  BY <1>1, <1>2

LEMMA TemplatesOfWords == \A template \in SafetyTemplates : OfWords(template)
<1>1. ASSUME NEW t \in OptOutTemplates PROVE OfWords(t)
  <2>1. /\ \/ t.groups = <<TerminationVerbs, ContactNouns, RecurrenceMarkers>>
           \/ t.groups = <<Negators, ContactNouns, RecurrenceMarkers>>
           \/ t.groups = <<RemovalVerbs, SelfReference, ContactRecords>>
           \/ t.groups = <<OptOutTriggers, MessageChannels, MessageRecipients>>
           \/ t.groups = <<OptOutTriggers, MessageChannels, RecurrenceMarkers>>
        /\ t.before \in {{}, InvitationMarkers, CapabilityMarkers} /\ t.after = {}
    BY DEF OptOutTemplates, Template
  <2>2. /\ Barrier \notin TerminationVerbs \cup ContactNouns \cup RecurrenceMarkers \cup Negators
        /\ Barrier \notin RemovalVerbs \cup SelfReference \cup ContactRecords \cup OptOutTriggers
        /\ Barrier \notin MessageChannels \cup MessageRecipients \cup InvitationMarkers
        /\ Barrier \notin CapabilityMarkers
    BY DEF Barrier, TerminationVerbs, ContactNouns, RecurrenceMarkers, Negators, RemovalVerbs,
           SelfReference, ContactRecords, OptOutTriggers, MessageChannels, MessageRecipients,
           InvitationMarkers, CapabilityMarkers
  <2> QED
    BY <2>1, <2>2, TemplateOfWords
<1>2. ASSUME NEW t \in AbuseTemplates PROVE OfWords(t)
  <2>1. t.groups = <<SecondPerson, InsultAdjectives>> /\ t.before = {} /\ t.after = {}
    BY DEF AbuseTemplates, Template
  <2>2. Barrier \notin SecondPerson \cup InsultAdjectives
    BY DEF Barrier, SecondPerson, InsultAdjectives
  <2> QED
    BY <2>1, <2>2, TemplateOfWords
<1>3. ASSUME NEW t \in InternalInfoTemplates PROVE OfWords(t)
  <2>1. /\ \/ t.groups = <<DisclosureVerbs, InternalQualifiers, InternalArtefacts>>
           \/ t.groups = <<Interrogatives, SecondPersonPossessive, InternalArtefacts>>
           \/ t.groups = <<DisclosureVerbs, InternalQualifiers, GovernanceArtefacts>>
           \/ t.groups = <<Interrogatives, SecondPersonPossessive, GovernanceArtefacts>>
        /\ t.before \in {{}, ScopingPostpositions} /\ t.after \in {{}, ScopingPrepositions}
    <3>1. ASSUME NEW groups
          PROVE  /\ Template(groups).groups = groups /\ Governed(groups).groups = groups
                 /\ Template(groups).before = {} /\ Template(groups).after = {}
                 /\ Governed(groups).before = ScopingPostpositions
                 /\ Governed(groups).after = ScopingPrepositions
      BY DEF Template, Governed
    <3>2. t \in {Template(<<DisclosureVerbs, InternalQualifiers, InternalArtefacts>>),
                 Template(<<Interrogatives, SecondPersonPossessive, InternalArtefacts>>),
                 Governed(<<DisclosureVerbs, InternalQualifiers, GovernanceArtefacts>>),
                 Governed(<<Interrogatives, SecondPersonPossessive, GovernanceArtefacts>>)}
      BY DEF InternalInfoTemplates
    <3> QED
      BY <3>1, <3>2
  <2>2. /\ Barrier \notin DisclosureVerbs \cup InternalQualifiers \cup InternalArtefacts
        /\ Barrier \notin Interrogatives \cup SecondPersonPossessive \cup GovernanceArtefacts
        /\ Barrier \notin ScopingPostpositions \cup ScopingPrepositions
    BY DEF Barrier, DisclosureVerbs, InternalQualifiers, InternalArtefacts, Interrogatives,
           SecondPersonPossessive, GovernanceArtefacts, ScopingPostpositions, ScopingPrepositions
  <2> QED
    BY <2>1, <2>2, TemplateOfWords
<1>4. ASSUME NEW t \in PromptInjectionTemplates PROVE OfWords(t)
  <2>1. /\ \/ t.groups = <<OverrideVerbs, DirectiveNouns>>
           \/ t.groups = <<OverrideVerbs, AntecedentMarkers>>
           \/ t.groups = <<OverrideVerbs, SecondPerson, ReportedDirective>>
        /\ t.before = {} /\ t.after = {}
    BY DEF PromptInjectionTemplates, Template, Directive
  <2>2. /\ Barrier \notin OverrideVerbs \cup DirectiveNouns \cup AntecedentMarkers
        /\ Barrier \notin SecondPerson \cup ReportedDirective
    BY DEF Barrier, OverrideVerbs, DirectiveNouns, AntecedentMarkers, SecondPerson,
           ReportedDirective
  <2> QED
    BY <2>1, <2>2, TemplateOfWords
<1> QED
  BY <1>1, <1>2, <1>3, <1>4 DEF SafetyTemplates

-----------------------------------------------------------------------------
(***************************************************************************)
(* What a turn leaves alone.  Fields names the fields of a conversation,   *)
(* and Keeps(c, d, F) says that d is c in every field but those of F.      *)
(***************************************************************************)
Fields ==
  {"phase", "turns", "redirected", "stopped", "recent", "facts", "evidence", "changes",
   "temperature", "tilt", "language", "declared", "pending", "count",
   "asked", "closings", "understood"}

Keeps(c, d, F) == DOMAIN d = Fields /\ \A f \in Fields \ F : d[f] = c[f]

LEMMA FreshFields == DOMAIN Fresh = Fields
BY DEF Fresh, Fields

LEMMA KeepsOn ==
  ASSUME NEW c, NEW d, NEW e, NEW F, NEW G, Keeps(c, d, F), Keeps(d, e, G)
  PROVE  Keeps(c, e, F \cup G)
BY DEF Keeps

LEMMA DecideKeeps ==
  ASSUME NEW c, DOMAIN c = Fields, NEW reading
  PROVE  Keeps(c, Decide(c, reading), {"language", "pending", "count"})
<1> DEFINE heard == reading.language
           votes == IF c.pending = heard THEN c.count + 1 ELSE 1
           switched == [c EXCEPT !.language = heard, !.pending = None, !.count = 0]
           voted == [c EXCEPT !.pending = heard, !.count = votes]
           settled == [c EXCEPT !.pending = None, !.count = 0]
<1>1. Decide(c, reading) \in {c, switched, voted, settled}
  <2> HIDE DEF switched, voted, settled
  <2> QED
    BY DEF Decide, switched, voted, settled
<1>2. Keeps(c, c, {"language", "pending", "count"})
  BY DEF Keeps
<1>3. Keeps(c, settled, {"language", "pending", "count"})
  BY DEF Keeps, Fields
<1>4. Keeps(c, switched, {"language", "pending", "count"})
  BY DEF Keeps, Fields
<1>5. Keeps(c, voted, {"language", "pending", "count"})
  <2> HIDE DEF votes, heard
  <2> QED
    BY DEF Keeps, Fields
<1> QED
  BY <1>1, <1>2, <1>3, <1>4, <1>5

LEMMA ResolveKeeps ==
  ASSUME NEW c, DOMAIN c = Fields, NEW turn, NEW reading
  PROVE  Keeps(c, Resolve(c, turn, reading), {"declared", "language", "pending", "count"})
<1> DEFINE told == [c EXCEPT !.declared = turn.declared, !.language = turn.declared]
           F == {"declared", "language", "pending", "count"}
<1>1. Keeps(c, told, {"declared", "language"}) /\ DOMAIN told = Fields
  BY DEF Keeps, Fields
<1>2. Keeps(c, [told EXCEPT !.pending = None, !.count = 0], F)
  BY DEF Keeps, Fields
<1> HIDE DEF told
<1>3. Keeps(c, Decide(told, reading), F)
  BY <1>1, DecideKeeps DEF Keeps
<1>4. Keeps(c, Decide(c, reading), F)
  BY DecideKeeps DEF Keeps
<1> QED
  BY <1>2, <1>3, <1>4 DEF Resolve, told

LEMMA BegunKeeps ==
  ASSUME NEW c, DOMAIN c = Fields, NEW turn, NEW heard
  PROVE  LET b == Begun(c, turn, heard)
         IN  /\ Keeps(c, b, {"declared", "language", "pending", "count", "turns", "recent"})
             /\ b.turns = c.turns + 1 /\ b.recent = c.recent \cup {heard.normal}
             /\ Keeps(Resolve(c, turn, DetectLanguage(heard.shown, turn.transcribed)), b,
                      {"turns", "recent"})
<1> DEFINE r == Resolve(c, turn, DetectLanguage(heard.shown, turn.transcribed))
           b == [r EXCEPT !.turns = @ + 1, !.recent = @ \cup {heard.normal}]
<1>1. Begun(c, turn, heard) = b
  BY DEF Begun
<1>2. Keeps(c, r, {"declared", "language", "pending", "count"})
  BY ResolveKeeps
<1> HIDE DEF r
<1>3. DOMAIN r = Fields /\ r.turns = c.turns /\ r.recent = c.recent
  BY <1>2 DEF Keeps, Fields
<1>4. Keeps(r, b, {"turns", "recent"}) /\ b.turns = r.turns + 1 /\ b.recent = r.recent \cup {heard.normal}
  BY <1>3 DEF Keeps, Fields
<1> HIDE DEF b
<1>5. Keeps(c, b, {"declared", "language", "pending", "count", "turns", "recent"})
  BY <1>2, <1>4 DEF Keeps
<1> QED
  BY <1>1, <1>3, <1>4, <1>5 DEF r

LEMMA EndingsKeep ==
  ASSUME NEW c, DOMAIN c = Fields
  PROVE  /\ Keeps(c, Classify(c), {"temperature"})
         /\ Classify(c).temperature = Temperature(c)
         /\ Keeps(c, OptedOut(c), {"stopped", "phase", "temperature"})
         /\ OptedOut(c).stopped /\ OptedOut(c).phase = "closed"
         /\ Keeps(c, Abused(c), {"stopped", "phase", "temperature", "redirected"})
         /\ IF c.redirected THEN Abused(c).stopped = TRUE /\ Abused(c).phase = "closed"
            ELSE Abused(c).stopped = c.stopped /\ Abused(c).phase = c.phase
<1>1. ASSUME NEW d, DOMAIN d = Fields
      PROVE Keeps(d, Classify(d), {"temperature"}) /\ Classify(d).temperature = Temperature(d)
  <2> DEFINE t == Temperature(d)
  <2>1. Classify(d) = [d EXCEPT !.temperature = t]
    BY DEF Classify
  <2> HIDE DEF t
  <2>2. Keeps(d, Classify(d), {"temperature"}) /\ Classify(d).temperature = t
    BY <1>1, <2>1 DEF Keeps, Fields
  <2> QED
    BY <2>2 DEF t
<1>2. /\ Keeps(c, OptedOut(c), {"stopped", "phase", "temperature"})
      /\ OptedOut(c).stopped /\ OptedOut(c).phase = "closed"
  BY DEF OptedOut, Keeps, Fields
<1> DEFINE d == IF c.redirected THEN [c EXCEPT !.stopped = TRUE, !.phase = "closed"]
                ELSE [c EXCEPT !.redirected = TRUE]
<1>3. /\ Keeps(c, d, {"stopped", "phase", "redirected"})
      /\ IF c.redirected THEN d.stopped = TRUE /\ d.phase = "closed"
         ELSE d.stopped = c.stopped /\ d.phase = c.phase
  BY DEF Keeps, Fields
<1>4. Abused(c) = Classify(d)
  BY DEF Abused
<1> HIDE DEF d
<1>5. DOMAIN d = Fields /\ Keeps(d, Abused(c), {"temperature"})
  BY <1>1, <1>3, <1>4 DEF Keeps
<1>6. Keeps(c, Abused(c), {"stopped", "phase", "temperature", "redirected"})
  BY <1>3, <1>5 DEF Keeps
<1>7. Abused(c).stopped = d.stopped /\ Abused(c).phase = d.phase
  BY <1>5 DEF Keeps, Fields
<1> QED
  BY <1>1, <1>2, <1>3, <1>6, <1>7

\* What Extracted makes of each field it changes.
Taken(c, heard) == Accepted(c, News(c, heard))
FactsOf(c, heard) ==
  [slot \in DOMAIN c.facts \cup Taken(c, heard) |->
     IF slot \in Taken(c, heard) THEN heard.candidates[slot] ELSE c.facts[slot]]
ChangesOf(c, heard) == c.changes + Cardinality(Taken(c, heard) \cap DOMAIN c.facts)
EvidenceOf(c, heard) ==
  c.evidence \cup (heard.evidence \cup (IF "requested_features" \in News(c, heard)
                                       THEN {"requirement"} ELSE {}))
TiltOf(c, heard, tilt) ==
  IF EvidenceOf(c, heard) = c.evidence THEN c.tilt
  ELSE IF RoundingDecides(EvidenceOf(c, heard)) THEN tilt ELSE None

LEMMA ExtractedKeeps ==
  ASSUME NEW c, DOMAIN c = Fields, NEW heard, NEW tilt
  PROVE  LET e == Extracted(c, heard, tilt)
         IN  /\ Keeps(c, e, {"facts", "changes", "evidence", "tilt"})
             /\ e.facts = FactsOf(c, heard) /\ e.changes = ChangesOf(c, heard)
             /\ e.evidence = EvidenceOf(c, heard) /\ e.tilt = TiltOf(c, heard, tilt)
<1> DEFINE facts == FactsOf(c, heard)
           changes == ChangesOf(c, heard)
           evidence == EvidenceOf(c, heard)
           tipped == TiltOf(c, heard, tilt)
           e == [c EXCEPT !.facts = facts, !.changes = changes, !.evidence = evidence,
                          !.tilt = tipped]
<1>1. Extracted(c, heard, tilt) = e
  BY Zenon DEF Extracted, FactsOf, ChangesOf, EvidenceOf, TiltOf, Taken
<1> HIDE DEF facts, changes, evidence, tipped
<1>2. /\ Keeps(c, e, {"facts", "changes", "evidence", "tilt"}) /\ e.facts = facts
      /\ e.changes = changes /\ e.evidence = evidence /\ e.tilt = tipped
  BY DEF Keeps, Fields
<1> QED
  BY <1>1, <1>2 DEF facts, changes, evidence, tipped

LEMMA PreparedKeeps ==
  ASSUME NEW c, DOMAIN c = Fields, NEW turn, NEW heard, NEW tilt
  PROVE  LET b == Begun(c, turn, heard)
             told == IF heard.normal \in c.recent THEN b ELSE Extracted(b, heard, tilt)
             p == Prepared(c, turn, heard, tilt)
         IN  /\ DOMAIN told = Fields /\ Keeps(told, p, {"understood"})
             /\ ReviewsGoals(p) <=> ReviewsGoals(told)
             /\ Keeps(b, p, {"facts", "changes", "evidence", "tilt", "understood"})
<1> DEFINE b == Begun(c, turn, heard)
           told == IF heard.normal \in c.recent THEN b ELSE Extracted(b, heard, tilt)
           p == Prepared(c, turn, heard, tilt)
           more == Understood(turn)
<1>1. DOMAIN b = Fields
  BY BegunKeeps DEF Keeps
<1> HIDE DEF b
<1>2. Keeps(b, told, {"facts", "changes", "evidence", "tilt"})
  <2>1. Keeps(b, Extracted(b, heard, tilt), {"facts", "changes", "evidence", "tilt"})
    BY <1>1, ExtractedKeeps
  <2>2. Keeps(b, b, {"facts", "changes", "evidence", "tilt"})
    BY <1>1 DEF Keeps
  <2> QED
    BY <2>1, <2>2
<1>3. DOMAIN told = Fields
  BY <1>2 DEF Keeps
<1>4. p = IF ReviewsGoals(told) THEN told ELSE [told EXCEPT !.understood = @ \cup more]
  BY DEF Prepared, b
<1> HIDE DEF told, more, p
<1>5. Keeps(told, p, {"understood"})
  BY <1>3, <1>4 DEF Keeps, Fields
<1>6. ReviewsGoals(p) <=> ReviewsGoals(told)
  BY <1>5 DEF ReviewsGoals, Keeps, Fields
<1>7. Keeps(b, p, {"facts", "changes", "evidence", "tilt", "understood"})
  BY <1>2, <1>5 DEF Keeps
<1> QED
  BY <1>3, <1>5, <1>6, <1>7 DEF told, b, p

LEMMA AnsweredKeeps ==
  ASSUME NEW c, DOMAIN c = Fields, NEW turn, NEW heard
  PROVE  /\ Keeps(c, Answered(c, turn, heard), {"asked", "closings"})
         /\ Keeps(c, Concluded(c), {"temperature", "phase"})
         /\ Concluded(c).temperature = Temperature(c)
         /\ Concluded(c).phase = PhaseFor(Temperature(c))
<1> DEFINE ask == Ask(c, turn, heard)
           asks == [c EXCEPT !.asked[ask] = @ + 1]
           closes == [c EXCEPT !.closings = @ + 1]
<1>1. Answered(c, turn, heard) \in {c, asks, closes}
  <2> HIDE DEF asks, closes
  <2> QED
    BY DEF Answered, Replied, asks, closes
<1>2. Keeps(c, c, {"asked", "closings"}) /\ Keeps(c, closes, {"asked", "closings"})
  BY DEF Keeps, Fields
<1>3. Keeps(c, asks, {"asked", "closings"})
  <2> HIDE DEF ask
  <2> QED
    BY DEF Keeps, Fields
<1>4. Keeps(c, Answered(c, turn, heard), {"asked", "closings"})
  BY <1>1, <1>2, <1>3
<1> DEFINE k == Classify(c)
           phase == PhaseFor(Temperature(c))
           d == [k EXCEPT !.phase = phase]
<1>5. Keeps(c, k, {"temperature"}) /\ k.temperature = Temperature(c)
  BY EndingsKeep
<1>6. Concluded(c) = d
  BY DEF Concluded
<1> HIDE DEF k, phase
<1>7. DOMAIN k = Fields
  BY <1>5 DEF Keeps
<1>8. Keeps(k, d, {"phase"}) /\ d.phase = phase /\ d.temperature = k.temperature
  BY <1>7 DEF Keeps, Fields
<1> HIDE DEF d
<1>9. Keeps(c, d, {"temperature", "phase"})
  BY <1>5, <1>8 DEF Keeps
<1> QED
  BY <1>4, <1>5, <1>6, <1>8, <1>9 DEF phase

\* A turn, after the turn has begun: what any of its endings leaves alone.
Turning == {"phase", "redirected", "stopped", "facts", "evidence", "changes", "temperature",
            "tilt", "asked", "closings", "understood"}

LEMMA AfterKeeps ==
  ASSUME NEW c, DOMAIN c = Fields, NEW turn, NEW heard, NEW tilt
  PROVE  Keeps(Begun(c, turn, heard), After(c, turn, heard, tilt), Turning)
<1> DEFINE b == Begun(c, turn, heard)
           p == Prepared(c, turn, heard, tilt)
           a == Answered(p, turn, heard)
<1>1. DOMAIN b = Fields
  BY BegunKeeps DEF Keeps
<1>2. Keeps(b, p, {"facts", "changes", "evidence", "tilt", "understood"})
  BY PreparedKeeps
<1>3. DOMAIN p = Fields
  BY <1>2 DEF Keeps
<1> HIDE DEF p
<1>4. Keeps(p, a, {"asked", "closings"})
  BY <1>3, AnsweredKeeps
<1>5. DOMAIN a = Fields
  BY <1>4 DEF Keeps
<1> HIDE DEF a
<1>6. Keeps(a, Concluded(a), {"temperature", "phase"})
  BY <1>5, AnsweredKeeps
<1>7. Discussed(c, turn, heard, tilt) = Concluded(a)
  BY DEF Discussed, p, a
<1> HIDE DEF b
<1>8. Keeps(b, Discussed(c, turn, heard, tilt), Turning)
  BY <1>2, <1>4, <1>6, <1>7 DEF Keeps, Turning
<1>9. Keeps(b, OptedOut(b), Turning) /\ Keeps(b, Abused(b), Turning) /\ Keeps(b, Classify(b), Turning)
  BY <1>1, EndingsKeep DEF Keeps, Turning
<1>10. After(c, turn, heard, tilt)
       \in {OptedOut(b), Abused(b), Classify(b), Discussed(c, turn, heard, tilt)}
  BY DEF After, b
<1> QED
  BY <1>8, <1>9, <1>10 DEF b

-----------------------------------------------------------------------------
(***************************************************************************)
(* What a checkpoint forgets decides nothing it keeps.                     *)
(***************************************************************************)
Agree(a, b) ==
  /\ DOMAIN a = Fields /\ DOMAIN b = Fields
  /\ \A f \in Fields \ Transient : a[f] = b[f]

\* Two conversations that agree still do when what was changed in both agrees.
LEMMA StillAgree ==
  ASSUME NEW a, NEW b, Agree(a, b), NEW c, NEW d, NEW F, Keeps(a, c, F), Keeps(b, d, F),
         \A f \in F \ Transient : c[f] = d[f]
  PROVE  Agree(c, d)
BY DEF Agree, Keeps

LEMMA LanguagesAgree ==
  ASSUME NEW a, NEW b, Agree(a, b), NEW turn, NEW reading
  PROVE  Agree(Resolve(a, turn, reading), Resolve(b, turn, reading))
<1>1. ASSUME NEW c, NEW d, Agree(c, d) PROVE Agree(Decide(c, reading), Decide(d, reading))
  <2> DEFINE C == Decide(c, reading)
             D == Decide(d, reading)
             F == {"language", "pending", "count"}
  <2>1. /\ c.language = d.language /\ c.pending = d.pending /\ c.count = d.count
        /\ DOMAIN c = Fields /\ DOMAIN d = Fields
    BY <1>1 DEF Agree, Fields, Transient
  <2>2. Keeps(c, C, F) /\ Keeps(d, D, F)
    BY <2>1, DecideKeeps
  <2>3. C.language = D.language /\ C.pending = D.pending /\ C.count = D.count
    <3> DEFINE heard == reading.language
               votes(e) == IF e.pending = heard THEN e.count + 1 ELSE 1
    <3>1. votes(c) = votes(d)
      BY <2>1
    <3>2. CASE heard = None
      BY <2>1, <3>2 DEF Decide
    <3>3. CASE heard # None /\ heard = c.language
      <4>1. /\ C = [c EXCEPT !.pending = None, !.count = 0]
            /\ D = [d EXCEPT !.pending = None, !.count = 0]
        BY <2>1, <3>3 DEF Decide
      <4> QED
        BY <2>1, <4>1 DEF Fields
    <3>4. CASE /\ heard \notin {None, c.language}
               /\ reading.request \/ votes(c) >= SwitchAfter
      <4>1. /\ C = [c EXCEPT !.language = heard, !.pending = None, !.count = 0]
            /\ D = [d EXCEPT !.language = heard, !.pending = None, !.count = 0]
        BY <2>1, <3>1, <3>4 DEF Decide
      <4> QED
        BY <2>1, <4>1 DEF Fields
    <3>5. CASE /\ heard \notin {None, c.language}
               /\ ~ (reading.request \/ votes(c) >= SwitchAfter)
      <4>1. /\ C = [c EXCEPT !.pending = heard, !.count = votes(c)]
            /\ D = [d EXCEPT !.pending = heard, !.count = votes(d)]
        BY <2>1, <3>1, <3>5 DEF Decide
      <4> HIDE DEF heard, votes
      <4> QED
        BY <2>1, <3>1, <4>1 DEF Fields
    <3> QED
      BY <3>2, <3>3, <3>4, <3>5
  <2> HIDE DEF C, D
  <2>4. \A f \in F \ Transient : C[f] = D[f]
    BY <2>3
  <2> QED
    BY <1>1, <2>2, <2>4, StillAgree DEF C, D
<1> DEFINE told(c) == [c EXCEPT !.declared = turn.declared, !.language = turn.declared]
           reset(c) == [told(c) EXCEPT !.pending = None, !.count = 0]
<1>2. a.declared = b.declared /\ DOMAIN a = Fields /\ DOMAIN b = Fields
  BY DEF Agree, Fields, Transient
<1>3. Agree(told(a), told(b)) /\ Agree(reset(a), reset(b))
  BY DEF Agree, Fields
<1>4. Redeclares(a, turn) <=> Redeclares(b, turn)
  BY <1>2 DEF Redeclares
<1>5. CASE Redeclares(a, turn)
  <2>1. Resolve(a, turn, reading) = reset(a) /\ Resolve(b, turn, reading) = reset(b)
    BY <1>4, <1>5 DEF Resolve
  <2> QED
    BY <1>3, <2>1
<1>6. CASE ~Redeclares(a, turn) /\ a.declared = None
  <2>1. /\ Resolve(a, turn, reading) = Decide(told(a), reading)
        /\ Resolve(b, turn, reading) = Decide(told(b), reading)
    BY <1>2, <1>4, <1>6 DEF Resolve
  <2> HIDE DEF told
  <2> QED
    BY <1>1, <1>3, <2>1
<1>7. CASE ~Redeclares(a, turn) /\ a.declared # None
  <2>1. /\ Resolve(a, turn, reading) = Decide(a, reading)
        /\ Resolve(b, turn, reading) = Decide(b, reading)
    BY <1>2, <1>4, <1>7 DEF Resolve
  <2> QED
    BY <1>1, <2>1
<1> QED
  BY <1>5, <1>6, <1>7

LEMMA BeginningsAgree ==
  ASSUME NEW a, NEW b, Agree(a, b), NEW turn, NEW heard
  PROVE  Agree(Begun(a, turn, heard), Begun(b, turn, heard))
<1> DEFINE reading == DetectLanguage(heard.shown, turn.transcribed)
           A == Resolve(a, turn, reading)
           B == Resolve(b, turn, reading)
           C == Begun(a, turn, heard)
           D == Begun(b, turn, heard)
<1>1. Agree(A, B)
  BY LanguagesAgree
<1>2. /\ a.turns = b.turns /\ a.recent = b.recent /\ DOMAIN a = Fields /\ DOMAIN b = Fields
  BY DEF Agree, Fields, Transient
<1>3. /\ Keeps(A, C, {"turns", "recent"})
      /\ C.turns = a.turns + 1 /\ C.recent = a.recent \cup {heard.normal}
  BY <1>2, BegunKeeps
<1>4. /\ Keeps(B, D, {"turns", "recent"})
      /\ D.turns = b.turns + 1 /\ D.recent = b.recent \cup {heard.normal}
  BY <1>2, BegunKeeps
<1> HIDE DEF A, B, C, D
<1>5. \A f \in {"turns", "recent"} \ Transient : C[f] = D[f]
  BY <1>2, <1>3, <1>4
<1> QED
  BY <1>1, <1>3, <1>4, <1>5, StillAgree DEF C, D

LEMMA WorthAgrees ==
  ASSUME NEW a, NEW b, Agree(a, b)
  PROVE  /\ Temperature(a) = Temperature(b)
         /\ Agree(Classify(a), Classify(b)) /\ Agree(Concluded(a), Concluded(b))
         /\ Agree(OptedOut(a), OptedOut(b)) /\ Agree(Abused(a), Abused(b))
<1>1. ASSUME NEW c, NEW d, Agree(c, d)
      PROVE  Temperature(c) = Temperature(d) /\ Agree(Classify(c), Classify(d))
  <2>1. c.evidence = d.evidence /\ c.tilt = d.tilt /\ DOMAIN c = Fields /\ DOMAIN d = Fields
    BY <1>1 DEF Agree, Fields, Transient
  <2>2. Temperature(c) = Temperature(d)
    BY <2>1 DEF Temperature, Reaches, Score
  <2>3. Agree(Classify(c), Classify(d))
    <3> DEFINE C == Classify(c)
               D == Classify(d)
    <3>1. /\ Keeps(c, C, {"temperature"}) /\ Keeps(d, D, {"temperature"})
          /\ C.temperature = D.temperature
      BY <2>1, <2>2, EndingsKeep
    <3> HIDE DEF C, D
    <3>2. \A f \in {"temperature"} \ Transient : C[f] = D[f]
      BY <3>1
    <3> QED
      BY <1>1, <3>1, <3>2, StillAgree DEF C, D
  <2> QED
    BY <2>2, <2>3
<1>2. a.redirected = b.redirected /\ DOMAIN a = Fields /\ DOMAIN b = Fields
  BY DEF Agree, Fields, Transient
<1>3. Agree(Concluded(a), Concluded(b))
  <2>1. \A f \in {"temperature", "phase"} : Concluded(a)[f] = Concluded(b)[f]
    BY <1>1, <1>2, AnsweredKeeps
  <2> QED
    BY <1>2, <2>1, AnsweredKeeps, StillAgree
<1>4. Agree(OptedOut(a), OptedOut(b))
  BY DEF Agree, OptedOut, Fields
<1>5. Agree(Abused(a), Abused(b))
  <2> DEFINE d(c) == IF c.redirected THEN [c EXCEPT !.stopped = TRUE, !.phase = "closed"]
                     ELSE [c EXCEPT !.redirected = TRUE]
  <2>1. Agree(d(a), d(b))
    BY <1>2 DEF Agree, Fields
  <2>2. Abused(a) = Classify(d(a)) /\ Abused(b) = Classify(d(b))
    BY DEF Abused
  <2> HIDE DEF d
  <2> QED
    BY <1>1, <2>1, <2>2
<1> QED
  BY <1>1, <1>3, <1>4, <1>5

LEMMA FactsAgree ==
  ASSUME NEW a, NEW b, Agree(a, b), NEW heard, NEW tilt
  PROVE  Agree(Extracted(a, heard, tilt), Extracted(b, heard, tilt))
<1> DEFINE A == Extracted(a, heard, tilt)
           B == Extracted(b, heard, tilt)
           F == {"facts", "changes", "evidence", "tilt"}
<1>1. /\ a.facts = b.facts /\ a.changes = b.changes /\ a.evidence = b.evidence /\ a.tilt = b.tilt
      /\ DOMAIN a = Fields /\ DOMAIN b = Fields
  BY DEF Agree, Fields, Transient
<1>2. News(a, heard) = News(b, heard)
  BY <1>1 DEF News
<1>3. Taken(a, heard) = Taken(b, heard)
  BY <1>1, <1>2 DEF Taken, Accepted
<1>4. EvidenceOf(a, heard) = EvidenceOf(b, heard)
  BY <1>1, <1>2 DEF EvidenceOf
<1>5. TiltOf(a, heard, tilt) = TiltOf(b, heard, tilt)
  BY <1>1, <1>4 DEF TiltOf
<1>6. FactsOf(a, heard) = FactsOf(b, heard)
  BY <1>1, <1>3 DEF FactsOf
<1>7. ChangesOf(a, heard) = ChangesOf(b, heard)
  BY <1>1, <1>3 DEF ChangesOf
<1>8. /\ Keeps(a, A, F) /\ Keeps(b, B, F) /\ A.facts = B.facts /\ A.changes = B.changes
      /\ A.evidence = B.evidence /\ A.tilt = B.tilt
  BY <1>1, <1>4, <1>5, <1>6, <1>7, ExtractedKeeps
<1> HIDE DEF A, B
<1>9. \A f \in F \ Transient : A[f] = B[f]
  BY <1>8
<1> QED
  BY <1>8, <1>9, StillAgree DEF A, B

\* The whole turn: what was asked, how often it closed and what a model
\* understood are read, but only to say it.
LEMMA TurnsAgree ==
  ASSUME NEW a, NEW b, Agree(a, b), NEW turn, NEW heard, NEW tilt
  PROVE  Agree(After(a, turn, heard, tilt), After(b, turn, heard, tilt))
<1> DEFINE A == Begun(a, turn, heard)
           B == Begun(b, turn, heard)
           told(c) == IF heard.normal \in c.recent THEN Begun(c, turn, heard)
                      ELSE Extracted(Begun(c, turn, heard), heard, tilt)
           p(c) == Prepared(c, turn, heard, tilt)
           r(c) == Answered(p(c), turn, heard)
<1>1. Agree(A, B)
  BY BeginningsAgree
<1>2. Agree(told(a), told(b))
  <2>1. a.recent = b.recent
    BY DEF Agree, Fields, Transient
  <2>2. Agree(Extracted(A, heard, tilt), Extracted(B, heard, tilt))
    BY <1>1, FactsAgree
  <2> HIDE DEF A, B
  <2> QED
    BY <1>1, <2>1, <2>2 DEF A, B
<1>3. Agree(p(a), p(b))
  <2>1. /\ Keeps(told(a), p(a), {"understood"}) /\ Keeps(told(b), p(b), {"understood"})
    BY PreparedKeeps DEF Agree
  <2> HIDE DEF told, p
  <2> QED
    BY <1>2, <2>1, StillAgree DEF Transient
<1>4. Agree(r(a), r(b))
  <2>1. DOMAIN p(a) = Fields /\ DOMAIN p(b) = Fields
    BY <1>3 DEF Agree
  <2>2. Keeps(p(a), r(a), {"asked", "closings"}) /\ Keeps(p(b), r(b), {"asked", "closings"})
    BY <2>1, AnsweredKeeps
  <2> HIDE DEF p, r
  <2> QED
    BY <1>3, <2>2, StillAgree DEF Transient
<1>5. Agree(Discussed(a, turn, heard, tilt), Discussed(b, turn, heard, tilt))
  BY <1>4, WorthAgrees DEF Discussed
<1>6. Agree(OptedOut(A), OptedOut(B)) /\ Agree(Abused(A), Abused(B)) /\ Agree(Classify(A), Classify(B))
  BY <1>1, WorthAgrees
<1> HIDE DEF A, B
<1>7. CASE "opt-out" \in heard.signals
  <2>1. After(a, turn, heard, tilt) = OptedOut(A) /\ After(b, turn, heard, tilt) = OptedOut(B)
    BY <1>7 DEF After, A, B
  <2> QED
    BY <1>6, <2>1
<1>8. CASE "opt-out" \notin heard.signals /\ "abuse" \in heard.signals
  <2>1. After(a, turn, heard, tilt) = Abused(A) /\ After(b, turn, heard, tilt) = Abused(B)
    BY <1>8 DEF After, A, B
  <2> QED
    BY <1>6, <2>1
<1>9. CASE heard.signals \cap {"opt-out", "abuse"} = {} /\ heard.signals # {}
  <2>1. After(a, turn, heard, tilt) = Classify(A) /\ After(b, turn, heard, tilt) = Classify(B)
    BY <1>9 DEF After, A, B
  <2> QED
    BY <1>6, <2>1
<1>10. CASE heard.signals = {}
  <2>1. /\ After(a, turn, heard, tilt) = Discussed(a, turn, heard, tilt)
        /\ After(b, turn, heard, tilt) = Discussed(b, turn, heard, tilt)
    BY <1>10 DEF After
  <2> QED
    BY <1>5, <2>1
<1> QED
  BY <1>7, <1>8, <1>9, <1>10

-----------------------------------------------------------------------------
(***************************************************************************)
(* What is accepted of new facts fits the table.                           *)
(***************************************************************************)
Below(F, j) == {k \in F : k < j}
Lowest(F, r) == {j \in F : Cardinality(Below(F, j)) < r}

\* Of the members of a set of numbers, no more than r have fewer than r below.
LEMMA LowestAreFew ==
  ASSUME NEW F, F \in SUBSET Nat, IsFiniteSet(F), NEW r \in Int
  PROVE  /\ IsFiniteSet(Lowest(F, r))
         /\ Cardinality(Lowest(F, r)) =< IF r > 0 THEN r ELSE 0
<1> DEFINE rank(j) == Cardinality(Below(F, j))
           P == Lowest(F, r)
<1>1. ASSUME NEW j \in F PROVE IsFiniteSet(Below(F, j)) /\ rank(j) \in Nat
  <2>1. IsFiniteSet(Below(F, j))
    BY FS_Subset DEF Below
  <2> QED
    BY <2>1, FS_CardinalityType
<1>2. P \in SUBSET F /\ \A j \in P : rank(j) < r
  BY DEF Lowest
<1>3. IsFiniteSet(P)
  BY <1>2, FS_Subset
<1>4. CASE ~ (r > 0)
  <2>1. \A j \in P : FALSE
    <3> SUFFICES ASSUME NEW j \in P PROVE FALSE
      OBVIOUS
    <3>1. rank(j) \in Nat /\ rank(j) < r
      BY <1>1, <1>2
    <3> HIDE DEF rank, P
    <3> QED
      BY <1>4, <3>1
  <2>2. P = {}
    BY <2>1
  <2> HIDE DEF P
  <2>3. Cardinality(P) = 0
    BY <2>2, FS_EmptySet
  <2> QED
    BY <1>3, <1>4, <2>3 DEF P
<1>5. CASE r > 0
  <2> DEFINE R == 0..(r - 1)
             f == [j \in P |-> rank(j)]
  <2>1. ASSUME NEW i \in F, NEW j \in F, i < j PROVE rank(i) # rank(j)
    <3>1. \A k \in F : k < i => k < j
      BY <2>1
    <3>2. Below(F, i) \in SUBSET Below(F, j) /\ i \in Below(F, j) /\ i \notin Below(F, i)
      <4>1. ~ (i < i)
        BY <2>1
      <4> QED
        BY <2>1, <3>1, <4>1 DEF Below
    <3>3. IsFiniteSet(Below(F, j)) /\ Below(F, i) # Below(F, j)
      BY <1>1, <3>2
    <3>4. rank(i) < rank(j)
      BY <3>2, <3>3, FS_Subset, FS_CardinalityType, <1>1
    <3>5. rank(i) \in Nat /\ rank(j) \in Nat
      BY <1>1
    <3> HIDE DEF rank
    <3> QED
      BY <3>4, <3>5
  <2>2. \A i, j \in P : rank(i) = rank(j) => i = j
    <3>1. \A i, j \in F : i < j \/ j < i \/ i = j
      OBVIOUS
    <3> HIDE DEF rank, P
    <3> QED
      BY <1>2, <2>1, <3>1
  <2>3. \A j \in P : rank(j) \in R
    <3> SUFFICES ASSUME NEW j \in P PROVE rank(j) \in R
      OBVIOUS
    <3>1. rank(j) \in Nat /\ rank(j) < r
      BY <1>1, <1>2
    <3> HIDE DEF rank, P
    <3> QED
      BY <3>1
  <2>4. f \in Injection(P, R)
    <3> HIDE DEF rank, P, R
    <3> QED
      BY <2>2, <2>3 DEF Injection, IsInjective
  <2>5. IsFiniteSet(R) /\ Cardinality(R) = r
    BY <1>5, FS_Interval
  <2> HIDE DEF f, P, R
  <2>6. Cardinality(P) =< Cardinality(R)
    BY <2>4, <2>5, FS_Injection
  <2> QED
    BY <1>3, <1>5, <2>5, <2>6 DEF P
<1> QED
  BY <1>4, <1>5

LEMMA FactsFit ==
  ASSUME NEW c, NEW heard, IsFiniteSet(DOMAIN c.facts), Cardinality(DOMAIN c.facts) =< MaxFacts
  PROVE  /\ IsFiniteSet(DOMAIN FactsOf(c, heard))
         /\ Cardinality(DOMAIN FactsOf(c, heard)) =< MaxFacts
<1> DEFINE D == DOMAIN c.facts
           news == News(c, heard)
           fresh == {i \in 1..Len(AskOrder) : AskOrder[i] \in news \ D}
           room == MaxFacts - Cardinality(D)
           P == Lowest(fresh, room)
           I == {AskOrder[i] : i \in P}
<1>1. DOMAIN FactsOf(c, heard) = D \cup I
  <2>1. Taken(c, heard) = (news \cap D) \cup I
    BY DEF Taken, Accepted, Lowest, Below
  <2> HIDE DEF I
  <2> QED
    BY <2>1 DEF FactsOf
<1>2. Cardinality(D) \in Nat /\ room \in Nat
  <2>1. Cardinality(D) \in Nat
    BY FS_CardinalityType
  <2>2. MaxFacts \in Nat
    BY CapacitiesPositive
  <2> HIDE DEF D
  <2> QED
    BY <2>1, <2>2 DEF D
<1>3. fresh \in SUBSET Nat /\ IsFiniteSet(fresh)
  <2>1. Len(AskOrder) = 4
    BY DEF AskOrder
  <2>2. IsFiniteSet(1..4) /\ \A i \in 1..4 : i \in Nat
    <3>1. \A i \in 1..4 : i \in Nat
      OBVIOUS
    <3>2. 1 \in Int /\ 4 \in Int
      OBVIOUS
    <3>3. IsFiniteSet(1..4)
      BY <3>2, FS_Interval, Zenon
    <3> QED
      BY <3>1, <3>3
  <2>3. fresh \in SUBSET (1..4)
    BY <2>1
  <2> HIDE DEF fresh
  <2>4. IsFiniteSet(fresh)
    BY <2>2, <2>3, FS_Subset
  <2> QED
    BY <2>2, <2>3, <2>4
<1> HIDE DEF fresh, room, D
<1>4. IsFiniteSet(P) /\ Cardinality(P) =< room
  <2>1. room \in Int /\ (room > 0 \/ room = 0)
    BY <1>2
  <2>2. IsFiniteSet(P) /\ Cardinality(P) =< IF room > 0 THEN room ELSE 0
    BY <1>3, <2>1, LowestAreFew
  <2> QED
    BY <2>1, <2>2
<1> HIDE DEF P
<1>5. IsFiniteSet(I) /\ Cardinality(I) =< Cardinality(P)
  <2> DEFINE f == [i \in P |-> AskOrder[i]]
  <2>1. f \in Surjection(P, I)
    BY DEF Surjection
  <2> HIDE DEF f, I
  <2> QED
    BY <1>4, <2>1, FS_Surjection
<1> HIDE DEF I
<1>6. IsFiniteSet(D \cup I) /\ Cardinality(D \cup I) =< Cardinality(D) + Cardinality(I)
  <2>1. IsFiniteSet(D) /\ IsFiniteSet(D \cap I)
    BY FS_Intersection DEF D
  <2>2. Cardinality(D \cap I) \in Nat /\ Cardinality(I) \in Nat
    BY <1>5, <2>1, FS_CardinalityType
  <2> QED
    BY <1>2, <1>5, <2>1, <2>2, FS_Union
<1>7. Cardinality(I) \in Nat /\ Cardinality(P) \in Nat /\ Cardinality(D \cup I) \in Nat /\ MaxFacts \in Nat
  BY <1>4, <1>5, <1>6, FS_CardinalityType, CapacitiesPositive
<1> QED
  BY <1>1, <1>2, <1>4, <1>5, <1>6, <1>7 DEF room, D

-----------------------------------------------------------------------------
(***************************************************************************)
(* What every conversation keeps between turns: enough for a checkpoint of *)
(* it to be accepted.                                                      *)
(***************************************************************************)
Pends(c) == c.count \in Nat /\ (c.pending = None <=> c.count = 0)

Sound(c) ==
  /\ DOMAIN c = Fields
  /\ c.turns \in Nat /\ c.turns =< MaxTurns
  /\ IsFiniteSet(c.recent) /\ Cardinality(c.recent) =< c.turns
  /\ IsFiniteSet(DOMAIN c.facts) /\ Cardinality(DOMAIN c.facts) =< MaxFacts
  /\ c.stopped \in BOOLEAN /\ (c.stopped <=> c.phase = "closed")
  /\ Pends(c)

LEMMA SoundAccepted ==
  ASSUME NEW c, Sound(c)
  PROVE  Acceptable(c)
<1>1. Cardinality(c.recent) \in Nat /\ c.turns \in Nat /\ MaxTurns \in Nat
  BY FS_CardinalityType, CapacitiesPositive DEF Sound
<1> QED
  BY <1>1 DEF Sound, Pends, Acceptable

LEMMA SoundFresh == Sound(Fresh)
<1>1. /\ Fresh.turns = 0 /\ Fresh.recent = {} /\ DOMAIN Fresh.facts = {}
      /\ Fresh.stopped = FALSE /\ Fresh.phase = "discovery"
      /\ Fresh.count = 0 /\ Fresh.pending = None
  BY DEF Fresh
<1>2. IsFiniteSet({}) /\ Cardinality({}) = 0
  BY FS_EmptySet
<1>3. 0 =< MaxTurns /\ 0 =< MaxFacts
  BY CapacitiesPositive
<1>4. Fresh.stopped \in BOOLEAN /\ (Fresh.stopped <=> Fresh.phase = "closed")
  BY <1>1
<1>5. Fresh.count \in Nat /\ (Fresh.pending = None <=> Fresh.count = 0)
  BY <1>1
<1>6. Fresh.turns \in Nat /\ Fresh.turns =< MaxTurns
  BY <1>1, <1>3
<1>7. /\ IsFiniteSet(Fresh.recent) /\ Cardinality(Fresh.recent) =< Fresh.turns
      /\ IsFiniteSet(DOMAIN Fresh.facts) /\ Cardinality(DOMAIN Fresh.facts) =< MaxFacts
  BY <1>1, <1>2, <1>3
<1> QED
  BY <1>4, <1>5, <1>6, <1>7, FreshFields DEF Sound, Pends

\* decide_language() counts votes exactly while a language is pending.
LEMMA VotesPend ==
  ASSUME NEW c, DOMAIN c = Fields, Pends(c), NEW turn, NEW reading
  PROVE  Pends(Resolve(c, turn, reading))
<1>1. ASSUME NEW d, DOMAIN d = Fields, Pends(d) PROVE Pends(Decide(d, reading))
  <2> DEFINE heard == reading.language
             votes == IF d.pending = heard THEN d.count + 1 ELSE 1
             settled == [d EXCEPT !.pending = None, !.count = 0]
             switched == [d EXCEPT !.language = heard, !.pending = None, !.count = 0]
             voted == [d EXCEPT !.pending = heard, !.count = votes]
  <2>1. votes \in Nat \ {0}
    BY <1>1 DEF Pends
  <2>2. Pends(settled)
    <3>1. settled.pending = None /\ settled.count = 0
      BY <1>1 DEF Fields
    <3> QED
      BY <3>1 DEF Pends
  <2>3. Pends(switched)
    <3>1. switched.pending = None /\ switched.count = 0
      BY <1>1 DEF Fields
    <3> QED
      BY <3>1 DEF Pends
  <2>4. ASSUME heard # None PROVE Pends(voted)
    <3> HIDE DEF votes, heard
    <3>1. voted.pending = heard /\ voted.count = votes
      BY <1>1 DEF Fields
    <3> HIDE DEF voted
    <3> QED
      BY <2>1, <2>4, <3>1 DEF Pends
  <2>5. \/ Decide(d, reading) \in {d, settled, switched}
        \/ heard # None /\ Decide(d, reading) = voted
    <3> HIDE DEF settled, switched, voted
    <3> QED
      BY DEF Decide, settled, switched, voted
  <2> HIDE DEF settled, switched, voted, heard
  <2> QED
    BY <1>1, <2>2, <2>3, <2>4, <2>5
<1> DEFINE told == [c EXCEPT !.declared = turn.declared, !.language = turn.declared]
           reset == [told EXCEPT !.pending = None, !.count = 0]
<1>2. DOMAIN told = Fields /\ told.count = c.count /\ told.pending = c.pending
  BY DEF Fields
<1>3. Pends(reset)
  <2>1. reset.pending = None /\ reset.count = 0
    BY <1>2 DEF Fields
  <2> QED
    BY <2>1 DEF Pends
<1>4. Pends(told)
  BY <1>2 DEF Pends
<1>5. Resolve(c, turn, reading) \in {reset, Decide(told, reading), Decide(c, reading)}
  <2> HIDE DEF told
  <2> QED
    BY DEF Resolve, told
<1> HIDE DEF told, reset
<1> QED
  BY <1>1, <1>2, <1>3, <1>4, <1>5

LEMMA SoundAfter ==
  ASSUME NEW c, Sound(c), c.turns < MaxTurns, ~c.stopped, NEW turn, NEW heard, NEW tilt
  PROVE  Sound(After(c, turn, heard, tilt))
<1> DEFINE b == Begun(c, turn, heard)
           p == Prepared(c, turn, heard, tilt)
           r == Answered(p, turn, heard)
           R == Resolve(c, turn, DetectLanguage(heard.shown, turn.transcribed))
           d == Discussed(c, turn, heard, tilt)
<1>1. /\ DOMAIN c = Fields /\ c.turns \in Nat /\ IsFiniteSet(c.recent)
      /\ Cardinality(c.recent) =< c.turns
      /\ IsFiniteSet(DOMAIN c.facts) /\ Cardinality(DOMAIN c.facts) =< MaxFacts
      /\ c.stopped = FALSE /\ c.phase # "closed"
      /\ c.count \in Nat /\ (c.pending = None <=> c.count = 0) /\ MaxTurns \in Nat
  BY CapacitiesPositive DEF Sound, Pends
<1>2. Sound(b) /\ ~b.stopped /\ b.facts = c.facts
  <2>1. /\ Keeps(c, b, {"declared", "language", "pending", "count", "turns", "recent"})
        /\ b.turns = c.turns + 1 /\ b.recent = c.recent \cup {heard.normal}
        /\ Keeps(R, b, {"turns", "recent"})
    BY <1>1, BegunKeeps
  <2>2. R.count \in Nat /\ (R.pending = None <=> R.count = 0)
    BY <1>1, VotesPend DEF Pends
  <2> HIDE DEF b, R
  <2>3. /\ DOMAIN b = Fields /\ b.facts = c.facts /\ b.stopped = c.stopped /\ b.phase = c.phase
        /\ b.pending = R.pending /\ b.count = R.count
    BY <2>1 DEF Keeps, Fields
  <2>4. IsFiniteSet(b.recent) /\ Cardinality(b.recent) =< b.turns
    <3>1. /\ IsFiniteSet(c.recent \cup {heard.normal})
          /\ Cardinality(c.recent \cup {heard.normal})
             = IF heard.normal \in c.recent THEN Cardinality(c.recent)
               ELSE Cardinality(c.recent) + 1
          /\ Cardinality(c.recent) \in Nat
      BY <1>1, FS_AddElement, FS_CardinalityType
    <3> QED
      BY <1>1, <2>1, <3>1
  <2>5. b.turns \in Nat /\ b.turns =< MaxTurns
    BY <1>1, <2>1
  <2> QED
    BY <1>1, <2>2, <2>3, <2>4, <2>5 DEF Sound, Pends
<1> HIDE DEF b
<1>3. ASSUME NEW e, NEW F, Keeps(b, e, F), F \subseteq {"redirected", "evidence", "changes",
               "temperature", "tilt", "asked", "closings", "understood", "stopped", "phase"},
             e.stopped \in BOOLEAN, e.stopped <=> e.phase = "closed"
      PROVE  Sound(e)
  <2>1. /\ DOMAIN e = Fields /\ e.turns = b.turns /\ e.recent = b.recent /\ e.facts = b.facts
        /\ e.count = b.count /\ e.pending = b.pending
    BY <1>3 DEF Keeps, Fields
  <2> QED
    BY <1>2, <1>3, <2>1 DEF Sound, Pends
<1>4. DOMAIN b = Fields /\ b.stopped = FALSE /\ b.phase # "closed"
  BY <1>2 DEF Sound
<1>5. Sound(OptedOut(b))
  <2>1. Keeps(b, OptedOut(b), {"stopped", "phase", "temperature"})
        /\ OptedOut(b).stopped = TRUE /\ OptedOut(b).phase = "closed"
    BY <1>4 DEF OptedOut, Keeps, Fields
  <2> QED
    BY <1>3, <2>1
<1>6. Sound(Abused(b))
  <2>1. /\ Keeps(b, Abused(b), {"stopped", "phase", "temperature", "redirected"})
        /\ Abused(b).stopped \in BOOLEAN /\ (Abused(b).stopped <=> Abused(b).phase = "closed")
    BY <1>4, EndingsKeep
  <2> QED
    BY <1>3, <2>1
<1>7. Sound(Classify(b))
  <2>1. Keeps(b, Classify(b), {"temperature"})
    BY <1>4, EndingsKeep
  <2>2. Classify(b).stopped = b.stopped /\ Classify(b).phase = b.phase
    BY <2>1 DEF Keeps, Fields
  <2> QED
    BY <1>3, <1>4, <2>1, <2>2
<1>8. Sound(d)
  <2>1. Keeps(b, p, {"facts", "changes", "evidence", "tilt", "understood"})
    BY <1>1, PreparedKeeps DEF b
  <2>2. IsFiniteSet(DOMAIN p.facts) /\ Cardinality(DOMAIN p.facts) =< MaxFacts
    <3> DEFINE told == IF heard.normal \in c.recent THEN b ELSE Extracted(b, heard, tilt)
    <3>1. Keeps(told, p, {"understood"})
      BY <1>1, PreparedKeeps DEF b
    <3>2. p.facts = told.facts
      BY <3>1 DEF Keeps, Fields
    <3>3. Extracted(b, heard, tilt).facts = FactsOf(b, heard)
      BY <1>4, ExtractedKeeps
    <3>4. /\ IsFiniteSet(DOMAIN b.facts) /\ Cardinality(DOMAIN b.facts) =< MaxFacts
      BY <1>1, <1>2
    <3>5. /\ IsFiniteSet(DOMAIN FactsOf(b, heard))
          /\ Cardinality(DOMAIN FactsOf(b, heard)) =< MaxFacts
      BY <3>4, FactsFit
    <3> HIDE DEF p
    <3> QED
      BY <3>2, <3>3, <3>4, <3>5
  <2>3. DOMAIN p = Fields
    BY <2>1 DEF Keeps
  <2> HIDE DEF p
  <2>4. Keeps(p, r, {"asked", "closings"})
    BY <2>3, AnsweredKeeps
  <2>5. DOMAIN r = Fields
    BY <2>4 DEF Keeps
  <2> HIDE DEF r
  <2>6. /\ Keeps(r, Concluded(r), {"temperature", "phase"})
        /\ Concluded(r).phase = PhaseFor(Temperature(r))
    BY <2>5, AnsweredKeeps
  <2>7. d = Concluded(r)
    BY DEF Discussed, r, p
  <2> HIDE DEF d
  <2>8. /\ DOMAIN d = Fields /\ d.turns = b.turns /\ d.recent = b.recent /\ d.facts = p.facts
        /\ d.stopped = b.stopped /\ d.count = b.count /\ d.pending = b.pending
    BY <2>1, <2>4, <2>6, <2>7 DEF Keeps, Fields
  <2>9. d.phase # "closed"
    BY <2>6, <2>7 DEF PhaseFor
  <2> QED
    BY <1>2, <1>4, <2>2, <2>8, <2>9 DEF Sound, Pends
<1>9. After(c, turn, heard, tilt) \in {OptedOut(b), Abused(b), Classify(b), d}
  BY DEF After, b
<1> QED
  BY <1>5, <1>6, <1>7, <1>8, <1>9

-----------------------------------------------------------------------------
(***************************************************************************)
(* A conversation can be restored whatever was said in it.                 *)
(***************************************************************************)
LEMMA AgreeingIsDurable ==
  ASSUME NEW a, NEW b, Agree(a, b)
  PROVE  Durable(a) = Durable(b)
<1>1. DOMAIN a \ Transient = DOMAIN b \ Transient /\ \A f \in DOMAIN a \ Transient : a[f] = b[f]
  BY DEF Agree
<1> QED
  BY <1>1 DEF Durable

LEMMA RestoredKeeps ==
  ASSUME NEW c, DOMAIN c = Fields
  PROVE  /\ Keeps(c, Restored(c), Transient)
         /\ Restored(c).asked = Fresh.asked /\ Restored(c).closings = Fresh.closings
BY DEF Restored, Keeps, Fields, Transient

LEMMA RestoredStands ==
  ASSUME NEW a, NEW b, Agree(a, b), Sound(a)
  PROVE  Agree(Restored(a), b) /\ Sound(Restored(a))
<1> DEFINE r == Restored(a)
<1>1. DOMAIN a = Fields /\ Keeps(a, r, Transient)
  BY RestoredKeeps DEF Sound
<1> HIDE DEF r
<1>2. Agree(r, b)
  BY <1>1 DEF Agree, Keeps
<1>3. /\ DOMAIN r = Fields /\ r.turns = a.turns /\ r.recent = a.recent /\ r.facts = a.facts
      /\ r.stopped = a.stopped /\ r.phase = a.phase /\ r.count = a.count /\ r.pending = a.pending
  BY <1>1 DEF Keeps, Fields, Transient
<1>4. Sound(r)
  BY <1>3 DEF Sound, Pends
<1> QED
  BY <1>2, <1>4 DEF r

\* Both conversations are sound, and agree in all a checkpoint holds.
Restoring == Sound(live) /\ Sound(twin) /\ Agree(live, twin)

LEMMA RestoringInitially == ConversationInit => Restoring
<1> SUFFICES ASSUME ConversationInit PROVE Restoring
  OBVIOUS
<1>1. live = Fresh /\ twin = Fresh
  BY DEF ConversationInit
<1>2. Agree(Fresh, Fresh)
  BY FreshFields DEF Agree
<1> QED
  BY <1>1, <1>2, SoundFresh DEF Restoring

LEMMA RestoringInductive ==
  ASSUME Restoring, [ConversationNext]_conversationVars
  PROVE  Restoring'
<1>1. ASSUME NEW word \in Alphabet, Dictate(word) PROVE Restoring'
  BY <1>1 DEF Dictate, Restoring
<1>2. ASSUME NEW turn \in Turns, NEW tilt \in {"up", "down"}, Turn(turn, tilt) PROVE Restoring'
  <2> DEFINE heard == turn.said.heard
  <2>1. /\ live.turns < MaxTurns /\ ~live.stopped
        /\ live' = After(live, turn, heard, tilt) /\ twin' = After(twin, turn, heard, tilt)
    BY <1>2 DEF Turn
  <2> HIDE DEF heard
  <2>2. twin.turns = live.turns /\ twin.stopped = live.stopped
    BY DEF Restoring, Agree, Fields, Transient
  <2>3. Sound(After(live, turn, heard, tilt)) /\ Sound(After(twin, turn, heard, tilt))
    BY <2>1, <2>2, SoundAfter DEF Restoring
  <2>4. Agree(After(live, turn, heard, tilt), After(twin, turn, heard, tilt))
    BY TurnsAgree DEF Restoring
  <2> QED
    BY <2>1, <2>3, <2>4 DEF Restoring
<1>3. CASE Restart
  <2>1. live' = Restored(live) /\ twin' = twin
    BY <1>3 DEF Restart
  <2> QED
    BY <2>1, RestoredStands DEF Restoring
<1>4. CASE UNCHANGED conversationVars
  BY <1>4 DEF Restoring, conversationVars
<1> QED
  BY <1>1, <1>2, <1>3, <1>4 DEF ConversationNext

LEMMA RestoringInvariant == ConversationSpec => []Restoring
BY RestoringInitially, RestoringInductive, PTL DEF ConversationSpec

\* Whatever was said, the checkpoint of the conversation is accepted, and the
\* conversation that was restored from its checkpoints, any number of times and
\* at any turns, holds what the one that never was holds.
THEOREM CheckpointsStand == ConversationSpec => []Restorable
<1>1. Restoring => Restorable
  BY SoundAccepted, AgreeingIsDurable
     DEF Restoring, Restorable, CheckpointAccepted, RestoredAgrees
<1> QED
  BY <1>1, RestoringInvariant, PTL

-----------------------------------------------------------------------------
(***************************************************************************)
(* The language changes only because it was meant.                         *)
(***************************************************************************)
ReadingOf(turn) == DetectLanguage(turn.said.heard.shown, turn.transcribed)

\* A reading that asks for a language names one.
LEMMA RequestsName ==
  ASSUME NEW turn \in Turns
  PROVE  ReadingOf(turn).request => ReadingOf(turn).language # None
<1>1. PICK text : turn.said.heard.shown = ReadLanguage(text)
  <2>1. \E text : turn.said = Utterance(text)
    BY DEF Turns, Utterances
  <2> QED
    BY <2>1 DEF Utterance, Read
<1> DEFINE shown == ReadLanguage(text)
           requested == RequestedLanguage(text)
           script == DominantScript(text)
           romanised == RomanisedLanguage(text)
<1>2. \E language :
        \/ shown = [language |-> language, request |-> FALSE]
        \/ language # None /\ shown = [language |-> language, request |-> TRUE]
  <2>1. CASE requested # None
    BY <2>1 DEF ReadLanguage
  <2>2. CASE requested = None /\ script = "latin"
    BY <2>2 DEF ReadLanguage
  <2>3. CASE requested = None /\ script # "latin"
    BY <2>3 DEF ReadLanguage
  <2> QED
    BY <2>1, <2>2, <2>3
<1> HIDE DEF shown
<1>3. PICK language :
        \/ shown = [language |-> language, request |-> FALSE]
        \/ language # None /\ shown = [language |-> language, request |-> TRUE]
  BY <1>2
<1>4. CASE shown.language # None
  <2>1. ReadingOf(turn) = shown
    BY <1>1, <1>4 DEF ReadingOf, DetectLanguage, shown
  <2> QED
    BY <1>4, <2>1
<1>5. CASE shown.language = None
  <2>1. shown = [language |-> None, request |-> FALSE]
    BY <1>3, <1>5
  <2>2. ReadingOf(turn) = [shown EXCEPT !.language = turn.transcribed]
    BY <1>1, <1>5 DEF ReadingOf, DetectLanguage, shown
  <2>3. ReadingOf(turn).request = FALSE
    BY <2>1, <2>2
  <2> QED
    BY <2>3
<1> QED
  BY <1>4, <1>5

\* What decide_language makes of the language and of the one pending, whatever
\* the turn: it takes the language heard or keeps its own.
LEMMA Decided ==
  ASSUME NEW c, DOMAIN c = Fields, NEW reading
  PROVE  /\ reading.language = None =>
              Decide(c, reading).language = c.language /\ Decide(c, reading).pending = c.pending
         /\ reading.language # None =>
              /\ Decide(c, reading).language \in {c.language, reading.language}
              /\ Decide(c, reading).pending \in {None, reading.language}
              /\ reading.request => Decide(c, reading).language = reading.language
              /\ Decide(c, reading).language # c.language =>
                   reading.request \/ c.pending = reading.language
<1> DEFINE heard == reading.language
           votes == IF c.pending = heard THEN c.count + 1 ELSE 1
           d == Decide(c, reading)
           settled == [c EXCEPT !.pending = None, !.count = 0]
           switched == [c EXCEPT !.language = heard, !.pending = None, !.count = 0]
           voted == [c EXCEPT !.pending = heard, !.count = votes]
<1>1. settled.language = c.language /\ settled.pending = None
  BY DEF Fields
<1>2. switched.language = heard /\ switched.pending = None
  BY DEF Fields
<1>3. voted.language = c.language /\ voted.pending = heard
  <2> HIDE DEF heard, votes
  <2> QED
    BY DEF Fields
<1>4. votes >= SwitchAfter => c.pending = heard
  BY DEF SwitchAfter
<1>5. CASE heard = None
  <2>1. d = c
    BY <1>5 DEF Decide
  <2> QED
    BY <1>5, <2>1
<1>6. CASE heard # None /\ heard = c.language
  <2>1. d = settled
    BY <1>6 DEF Decide
  <2> HIDE DEF d, settled
  <2> QED
    BY <1>1, <1>6, <2>1 DEF d
<1>7. CASE heard \notin {None, c.language} /\ (reading.request \/ votes >= SwitchAfter)
  <2>1. d = switched
    BY <1>7 DEF Decide
  <2> HIDE DEF d, switched, votes
  <2> QED
    BY <1>2, <1>4, <1>7, <2>1 DEF d
<1>8. CASE heard \notin {None, c.language} /\ ~(reading.request \/ votes >= SwitchAfter)
  <2>1. d = voted
    BY <1>8 DEF Decide
  <2> HIDE DEF d, voted, votes
  <2> QED
    BY <1>3, <1>8, <2>1 DEF d
<1> QED
  BY <1>5, <1>6, <1>7, <1>8

\* The language pending is the one last heard, and a language that was asked for
\* is the one spoken.
Meaning ==
  /\ DOMAIN live = Fields
  /\ live.pending # None => spoken = live.pending
  /\ cause = "requested" => live.language = spoken

LEMMA MeaningInitially == ConversationInit => Meaning
<1> SUFFICES ASSUME ConversationInit PROVE Meaning
  OBVIOUS
<1>1. live = Fresh /\ cause = None
  BY DEF ConversationInit
<1>2. Fresh.pending = None /\ None # "requested"
  BY DEF Fresh, None
<1> QED
  BY <1>1, <1>2, FreshFields DEF Meaning

LEMMA TurnsMean ==
  ASSUME Meaning, NEW turn \in Turns, NEW tilt, Turn(turn, tilt)
  PROVE  /\ Meaning'
         /\ live'.language # live.language => cause' # None
         /\ cause' = "requested" => live'.language = spoken'
<1> DEFINE heard == turn.said.heard
           reading == ReadingOf(turn)
           told == [live EXCEPT !.declared = turn.declared, !.language = turn.declared]
           r == Resolve(live, turn, reading)
<1>1. /\ live' = After(live, turn, heard, tilt) /\ DOMAIN live = Fields
      /\ Observe(turn, reading)
  BY DEF Turn, ReadingOf, Meaning
<1>2. DOMAIN live' = Fields /\ live'.language = r.language /\ live'.pending = r.pending
  <2> DEFINE b == Begun(live, turn, heard)
  <2>1. Keeps(b, live', Turning) /\ Keeps(r, b, {"turns", "recent"})
    BY <1>1, AfterKeeps, BegunKeeps DEF ReadingOf
  <2> HIDE DEF b, r
  <2> QED
    BY <2>1 DEF Keeps, Fields, Turning
<1>3. reading.request => reading.language # None
  BY RequestsName
<1>4. /\ DOMAIN told = Fields /\ told.language = turn.declared /\ told.pending = live.pending
  BY <1>1 DEF Fields
<1>5. "declared" # None /\ "again" # None /\ "requested" # None
  BY DEF None
<1>6. CASE Redeclares(live, turn)
  <2>1. r = [told EXCEPT !.pending = None, !.count = 0]
    BY <1>6 DEF Resolve
  <2>2. r.pending = None
    BY <1>4, <2>1 DEF Fields
  <2>3. cause' = "declared"
    BY <1>1, <1>6 DEF Observe
  <2> HIDE DEF r
  <2> QED
    BY <1>2, <1>5, <2>2, <2>3 DEF Meaning
<1>7. CASE ~Redeclares(live, turn) /\ live.declared = None
  <2>1. r = Decide(told, reading)
    BY <1>7 DEF Resolve
  <2>2. cause' = (IF reading.request THEN "requested" ELSE "declared")
    BY <1>1, <1>7 DEF Observe
  <2>3. spoken' = IF reading.language # None THEN reading.language ELSE spoken
    BY <1>1, <1>7 DEF Observe
  <2> HIDE DEF r, told, reading
  <2>4. /\ reading.language = None => r.pending = told.pending
        /\ reading.language # None => /\ r.pending \in {None, reading.language}
                                      /\ reading.request => r.language = reading.language
    BY <1>4, <2>1, Decided
  <2>5. r.pending # None => spoken' = r.pending
    BY <1>4, <2>3, <2>4 DEF Meaning
  <2>6. cause' = "requested" => r.language = spoken'
    BY <1>3, <2>2, <2>3, <2>4
  <2> QED
    BY <1>2, <1>5, <2>2, <2>5, <2>6 DEF Meaning
<1>8. CASE ~Redeclares(live, turn) /\ live.declared # None
  <2>1. r = Decide(live, reading)
    BY <1>8 DEF Resolve
  <2>2. cause' = (IF reading.request THEN "requested"
                  ELSE IF reading.language = spoken THEN "again" ELSE None)
    BY <1>1, <1>8 DEF Observe
  <2>3. spoken' = IF reading.language # None THEN reading.language ELSE spoken
    BY <1>1, <1>8 DEF Observe
  <2> HIDE DEF r, told, reading
  <2>4. /\ reading.language = None => r.language = live.language /\ r.pending = live.pending
        /\ reading.language # None =>
             /\ r.pending \in {None, reading.language}
             /\ reading.request => r.language = reading.language
             /\ r.language # live.language => reading.request \/ live.pending = reading.language
    BY <1>1, <2>1, Decided
  <2>5. r.pending # None => spoken' = r.pending
    BY <2>3, <2>4 DEF Meaning
  <2>6. cause' = "requested" => r.language = spoken'
    BY <1>3, <1>5, <2>2, <2>3, <2>4
  <2>7. r.language # live.language => cause' # None
    BY <1>5, <2>2, <2>4 DEF Meaning
  <2> QED
    BY <1>2, <2>5, <2>6, <2>7 DEF Meaning
<1> QED
  BY <1>6, <1>7, <1>8

LEMMA MeaningInductive ==
  ASSUME Meaning, [ConversationNext]_conversationVars
  PROVE  /\ Meaning'
         /\ live'.language # live.language => cause' # None
         /\ cause' = "requested" => live'.language = spoken'
<1>1. ASSUME NEW word \in Alphabet, Dictate(word)
      PROVE  live' = live /\ spoken' = spoken /\ cause' = cause
  BY <1>1 DEF Dictate
<1>2. ASSUME live' = live, spoken' = spoken, cause' = cause
      PROVE  /\ Meaning'
             /\ live'.language # live.language => cause' # None
             /\ cause' = "requested" => live'.language = spoken'
  BY <1>2 DEF Meaning
<1>3. CASE Restart
  <2>1. live' = Restored(live) /\ spoken' = spoken /\ cause' = cause
    BY <1>3 DEF Restart
  <2>2. Keeps(live, live', Transient)
    BY <2>1, RestoredKeeps DEF Meaning
  <2>3. DOMAIN live' = Fields /\ live'.language = live.language /\ live'.pending = live.pending
    BY <2>2 DEF Keeps, Fields, Transient
  <2> QED
    BY <2>1, <2>3 DEF Meaning
<1>4. CASE UNCHANGED conversationVars
  BY <1>2, <1>4 DEF conversationVars
<1> QED
  BY <1>1, <1>2, <1>3, <1>4, TurnsMean DEF ConversationNext

\* Whatever is said and whatever a transcriber reports, the language changes only
\* on the caller's order, on the buyer's, or on the second turn heard in the new
\* one; and a buyer who asks is answered in that language at once.
THEOREM LanguageSwitchesMeant == ConversationSpec => SwitchesAreMeant
<1>1. /\ ConversationInit => Meaning
      /\ Meaning /\ [ConversationNext]_conversationVars => Meaning'
  BY MeaningInitially, MeaningInductive
<1>2. Meaning /\ [ConversationNext]_conversationVars
        => [/\ live'.language # live.language => cause' # None
            /\ cause' = "requested" => live'.language = spoken']_conversationVars
  BY MeaningInductive
<1> QED
  BY <1>1, <1>2, PTL DEF ConversationSpec, SwitchesAreMeant

-----------------------------------------------------------------------------
(***************************************************************************)
(* No question and no closing is put twice in the same words.              *)
(***************************************************************************)
Questions == {"ask", "ask_again"} \X Slots
Closings == {"confirm", "closing", "closing_again", "closing_final"} \X {None}
Counting(c) == DOMAIN c = Fields /\ c.asked \in [Slots -> Nat] /\ c.closings \in Nat

\* The counts of the conversation are past the sentence: it is not said again.
Passed(c, sentence) ==
  /\ sentence[1] = "ask" => c.asked[sentence[2]] >= 1
  /\ sentence[1] = "ask_again" => c.asked[sentence[2]] >= 2
  /\ sentence[1] = "closing" => c.closings >= 1
  /\ sentence[1] = "closing_again" => c.closings >= 2

\* Every sentence said is one of the planner's, is past, and if it may be said once
\* was said once.
Rephrasing ==
  /\ Counting(live)
  /\ DOMAIN said \in SUBSET (Questions \cup Closings)
  /\ \A sentence \in DOMAIN said :
       /\ Passed(live, sentence)
       /\ sentence[1] \notin {"closing_final", "confirm"} => said[sentence] = 1

\* d is no earlier than c in what it has asked and how often it has closed.
Further(c, d) ==
  /\ Counting(c) /\ Counting(d) /\ d.closings >= c.closings
  /\ \A slot \in Slots : d.asked[slot] >= c.asked[slot]

LEMMA PassedStays ==
  ASSUME NEW c, NEW d, Further(c, d), NEW sentence \in Questions \cup Closings,
         Passed(c, sentence)
  PROVE  Passed(d, sentence)
<1>1. CASE sentence \in Questions
  <2>1. /\ sentence[1] \in {"ask", "ask_again"} /\ sentence[2] \in Slots
    BY <1>1 DEF Questions
  <2>2. /\ c.asked[sentence[2]] \in Nat /\ d.asked[sentence[2]] \in Nat
        /\ d.asked[sentence[2]] >= c.asked[sentence[2]]
    BY <2>1 DEF Further, Counting
  <2> QED
    BY <2>1, <2>2 DEF Passed
<1>2. CASE sentence \in Closings
  <2>1. sentence[1] \in {"confirm", "closing", "closing_again", "closing_final"}
    BY <1>2 DEF Closings
  <2>2. c.closings \in Nat /\ d.closings \in Nat /\ d.closings >= c.closings
    BY DEF Further, Counting
  <2> QED
    BY <2>1, <2>2 DEF Passed
<1> QED
  BY <1>1, <1>2

\* The planner asks for a slot it has not asked for twice, or for none.
LEMMA AskedIsOpen ==
  ASSUME NEW c, Counting(c), NEW known, Asked(c, known) # None
  PROVE  Asked(c, known) \in Slots /\ c.asked[Asked(c, known)] < MaxAsks
<1> DEFINE open == {i \in 1..Len(AskOrder) :
                      AskOrder[i] \notin known /\ c.asked[AskOrder[i]] < MaxAsks}
           first == CHOOSE i \in open : \A j \in open : i =< j
<1>1. Len(AskOrder) = 4 /\ \A i \in 1..4 : AskOrder[i] \in Slots
  BY DEF AskOrder, Slots
<1>2. open # {} /\ Asked(c, known) = AskOrder[first]
  BY DEF Asked
<1>3. open \in SUBSET (1..4)
  BY <1>1
<1>4. \A i \in open : AskOrder[i] \in Slots /\ c.asked[AskOrder[i]] < MaxAsks
  BY <1>1
<1> HIDE DEF open
<1>5. \E i \in open : \A j \in open : i =< j
  <2>1. \A j \in open : j \in {1, 2, 3, 4}
    BY <1>3
  <2>2. 1 \in open \/ 2 \in open \/ 3 \in open \/ 4 \in open
    BY <1>2, <2>1
  <2>3. CASE 1 \in open
    BY <2>1, <2>3
  <2>4. CASE 1 \notin open /\ 2 \in open
    BY <2>1, <2>4
  <2>5. CASE 1 \notin open /\ 2 \notin open /\ 3 \in open
    BY <2>1, <2>5
  <2>6. CASE 1 \notin open /\ 2 \notin open /\ 3 \notin open /\ 4 \in open
    BY <2>1, <2>6
  <2> QED
    BY <2>2, <2>3, <2>4, <2>5, <2>6
<1>6. first \in open
  BY <1>5
<1> QED
  BY <1>2, <1>4, <1>6

\* A turn the planner answers: the sentence it says is new, unless it may be
\* repeated, and its counts are past it afterwards.
LEMMA RepliesPass ==
  ASSUME NEW c, Counting(c), NEW turn, NEW heard
  PROVE  LET sentence == Sentence(c, Ask(c, turn, heard), heard.intent)
         IN  /\ sentence \in Questions \cup Closings
             /\ Further(c, Replied(c, turn, heard))
             /\ Passed(Replied(c, turn, heard), sentence)
             /\ sentence[1] \notin {"closing_final", "confirm"} => ~Passed(c, sentence)
<1> DEFINE ask == Ask(c, turn, heard)
           sentence == Sentence(c, ask, heard.intent)
           d == Replied(c, turn, heard)
<1>1. DOMAIN c = Fields /\ c.asked \in [Slots -> Nat] /\ c.closings \in Nat
  BY DEF Counting
<1>2. Further(c, c)
  <2>1. \A slot \in Slots : c.asked[slot] \in Nat
    BY <1>1
  <2> QED
    BY <1>1, <2>1 DEF Further, Counting
<1>3. CASE ask # None
  <2>1. ask \in Slots /\ c.asked[ask] < 2
    BY <1>3, AskedIsOpen DEF Ask, MaxAsks
  <2>2. d = [c EXCEPT !.asked[ask] = @ + 1]
    BY <1>3 DEF Replied
  <2>3. sentence = <<IF c.asked[ask] = 0 THEN "ask" ELSE "ask_again", ask>>
    BY <1>3 DEF Sentence
  <2> HIDE DEF ask, d, sentence
  <2>4. /\ DOMAIN d = Fields /\ d.asked = [c.asked EXCEPT ![ask] = @ + 1]
        /\ d.closings = c.closings
    BY <1>1, <2>2 DEF Fields
  <2>5. c.asked[ask] \in {0, 1} /\ d.asked[ask] = c.asked[ask] + 1 /\ d.asked \in [Slots -> Nat]
    BY <1>1, <2>1, <2>4
  <2>6. \A slot \in Slots : d.asked[slot] >= c.asked[slot]
    BY <1>1, <2>1, <2>4
  <2>7. Further(c, d)
    BY <1>1, <2>4, <2>5, <2>6 DEF Further, Counting
  <2>8. sentence[1] \in {"ask", "ask_again"} /\ sentence[2] = ask /\ sentence \in Questions
    BY <2>1, <2>3 DEF Questions
  <2>9. sentence[1] = IF c.asked[ask] = 0 THEN "ask" ELSE "ask_again"
    BY <2>3
  <2>10. Passed(d, sentence) /\ ~Passed(c, sentence)
    BY <2>5, <2>8, <2>9 DEF Passed
  <2> QED
    BY <2>7, <2>8, <2>10 DEF d, sentence, ask
<1>4. CASE ask = None /\ heard.intent = "ready"
  <2>1. d = c /\ sentence = <<"confirm", None>>
    BY <1>4 DEF Replied, Sentence
  <2>2. sentence \in Closings /\ sentence[1] = "confirm"
    BY <2>1 DEF Closings
  <2>3. Passed(c, sentence)
    BY <2>2 DEF Passed
  <2> QED
    BY <1>2, <2>1, <2>2, <2>3
<1>5. CASE ask = None /\ heard.intent # "ready"
  <2> DEFINE kind == CASE c.closings = 0 -> "closing"
                       [] c.closings = 1 -> "closing_again"
                       [] OTHER -> "closing_final"
  <2>1. d = [c EXCEPT !.closings = @ + 1] /\ sentence = <<kind, None>>
    BY <1>5 DEF Replied, Sentence
  <2>2. /\ c.closings = 0 => kind = "closing"
        /\ c.closings = 1 => kind = "closing_again"
        /\ c.closings \notin {0, 1} => kind = "closing_final"
    OBVIOUS
  <2> HIDE DEF ask, d, sentence, kind
  <2>3. DOMAIN d = Fields /\ d.asked = c.asked /\ d.closings = c.closings + 1
    BY <1>1, <2>1 DEF Fields
  <2>4. \A slot \in Slots : c.asked[slot] \in Nat
    BY <1>1
  <2>5. Further(c, d)
    BY <1>1, <2>3, <2>4 DEF Further, Counting
  <2>6. sentence \in Closings /\ sentence[1] = kind
    BY <1>1, <2>1, <2>2 DEF Closings
  <2>7. /\ Passed(d, sentence)
        /\ sentence[1] \notin {"closing_final", "confirm"} => ~Passed(c, sentence)
    BY <1>1, <2>2, <2>3, <2>6 DEF Passed
  <2> QED
    BY <2>5, <2>6, <2>7 DEF d, sentence, ask
<1> QED
  BY <1>3, <1>4, <1>5

\* Two conversations that have asked and closed as often.
Level(c, d) == DOMAIN d = Fields /\ d.asked = c.asked /\ d.closings = c.closings

LEMMA LevelStands ==
  ASSUME NEW c, NEW d, Counting(c), Level(c, d)
  PROVE  /\ Counting(d) /\ Further(c, d)
         /\ \A sentence : Passed(c, sentence) <=> Passed(d, sentence)
<1>1. \A slot \in Slots : c.asked[slot] \in Nat
  BY DEF Counting
<1> QED
  BY <1>1 DEF Counting, Level, Further, Passed

LEMMA LevelTurns ==
  ASSUME NEW c, DOMAIN c = Fields, NEW turn, NEW heard, NEW tilt
  PROVE  LET told == Prepared(c, turn, heard, tilt)
         IN  /\ Level(c, told)
             /\ heard.signals # {} \/ ReviewsGoals(told) => Level(c, After(c, turn, heard, tilt))
             /\ heard.signals = {} /\ ~ReviewsGoals(told) =>
                  Level(Replied(told, turn, heard), After(c, turn, heard, tilt))
<1> DEFINE b == Begun(c, turn, heard)
           told == Prepared(c, turn, heard, tilt)
           r == Answered(told, turn, heard)
<1>1. Level(c, b)
  <2>1. Keeps(c, b, {"declared", "language", "pending", "count", "turns", "recent"})
    BY BegunKeeps
  <2> HIDE DEF b
  <2> QED
    BY <2>1 DEF Keeps, Fields, Level
<1>2. DOMAIN b = Fields
  BY <1>1 DEF Level
<1>3. Level(c, told)
  <2>1. Keeps(b, told, {"facts", "changes", "evidence", "tilt", "understood"})
    BY PreparedKeeps
  <2> HIDE DEF b, told
  <2> QED
    BY <1>1, <2>1 DEF Keeps, Fields, Level
<1>4. Level(r, Concluded(r))
  <2>1. Keeps(told, r, {"asked", "closings"})
    BY <1>3, AnsweredKeeps DEF Level
  <2> HIDE DEF r
  <2>2. Keeps(r, Concluded(r), {"temperature", "phase"})
    BY <2>1, AnsweredKeeps DEF Keeps
  <2> QED
    BY <2>2 DEF Keeps, Fields, Level
<1>5. Discussed(c, turn, heard, tilt) = Concluded(r)
  BY DEF Discussed
<1>6. CASE heard.signals # {}
  <2>1. After(c, turn, heard, tilt) \in {OptedOut(b), Abused(b), Classify(b)}
    BY <1>6 DEF After
  <2>2. /\ Keeps(b, OptedOut(b), {"stopped", "phase", "temperature"})
        /\ Keeps(b, Abused(b), {"stopped", "phase", "temperature", "redirected"})
        /\ Keeps(b, Classify(b), {"temperature"})
    BY <1>2, EndingsKeep
  <2> HIDE DEF b
  <2>3. Level(b, OptedOut(b)) /\ Level(b, Abused(b)) /\ Level(b, Classify(b))
    BY <2>2 DEF Keeps, Fields, Level
  <2> QED
    BY <1>1, <1>3, <1>6, <2>1, <2>3 DEF Level
<1>7. CASE heard.signals = {}
  <2>1. After(c, turn, heard, tilt) = Concluded(r)
    BY <1>5, <1>7 DEF After
  <2>2. r = IF ReviewsGoals(told) THEN told ELSE Replied(told, turn, heard)
    BY DEF Answered
  <2> HIDE DEF r, told
  <2> QED
    BY <1>3, <1>4, <1>7, <2>1, <2>2 DEF Level, told
<1> QED
  BY <1>6, <1>7

LEMMA TurnsRephrase ==
  ASSUME Rephrasing, NEW turn, NEW tilt, Turn(turn, tilt)
  PROVE  Rephrasing'
<1> DEFINE heard == turn.said.heard
           told == Prepared(live, turn, heard, tilt)
           sentence == Sentence(told, Ask(told, turn, heard), heard.intent)
           replied == Replied(told, turn, heard)
<1>1. live' = After(live, turn, heard, tilt) /\ said' = Voiced(turn, heard, tilt)
  BY DEF Turn
<1>2. Counting(live) /\ DOMAIN live = Fields
  BY DEF Rephrasing, Counting
<1>3. /\ Level(live, told)
      /\ heard.signals # {} \/ ReviewsGoals(told) => Level(live, live')
      /\ heard.signals = {} /\ ~ReviewsGoals(told) => Level(replied, live')
  BY <1>1, <1>2, LevelTurns
<1>4. CASE heard.signals # {} \/ ReviewsGoals(told)
  <2>1. said' = said
    BY <1>1, <1>4 DEF Voiced
  <2>2. Counting(live') /\ \A s : Passed(live, s) <=> Passed(live', s)
    BY <1>2, <1>3, <1>4, LevelStands
  <2> HIDE DEF told, heard
  <2> QED
    BY <2>1, <2>2 DEF Rephrasing
<1>5. CASE heard.signals = {} /\ ~ReviewsGoals(told)
  <2>1. said' = [s \in DOMAIN said \cup {sentence} |->
                   (IF s \in DOMAIN said THEN said[s] ELSE 0) + (IF s = sentence THEN 1 ELSE 0)]
    BY <1>1, <1>5 DEF Voiced
  <2>2. Counting(told) /\ \A s : Passed(live, s) <=> Passed(told, s)
    BY <1>2, <1>3, LevelStands
  <2>3. /\ sentence \in Questions \cup Closings /\ Further(told, replied)
        /\ Passed(replied, sentence)
        /\ sentence[1] \notin {"closing_final", "confirm"} => ~Passed(told, sentence)
    BY <2>2, RepliesPass
  <2> HIDE DEF told, heard, sentence, replied
  <2>4. Counting(live') /\ \A s : Passed(replied, s) <=> Passed(live', s)
    BY <1>3, <1>5, <2>3, LevelStands DEF Further
  <2>5. DOMAIN said' = DOMAIN said \cup {sentence}
    BY <2>1
  <2>6. \A s \in DOMAIN said' : Passed(live', s)
    <3> SUFFICES ASSUME NEW s \in DOMAIN said' PROVE Passed(live', s)
      OBVIOUS
    <3>1. CASE s = sentence
      BY <2>3, <2>4, <3>1
    <3>2. CASE s \in DOMAIN said
      <4>1. Passed(told, s) /\ s \in Questions \cup Closings
        BY <2>2, <3>2 DEF Rephrasing
      <4>2. Passed(replied, s)
        BY <2>3, <4>1, PassedStays
      <4> QED
        BY <2>4, <4>2
    <3> QED
      BY <2>5, <3>1, <3>2
  <2>7. ASSUME NEW s \in DOMAIN said', s[1] \notin {"closing_final", "confirm"}
        PROVE  said'[s] = 1
    <3>1. CASE s \in DOMAIN said
      <4>1. s # sentence /\ said[s] = 1
        BY <2>2, <2>3, <2>7, <3>1 DEF Rephrasing
      <4>2. said'[s] = said[s] + 0
        BY <2>1, <3>1, <4>1
      <4> QED
        BY <4>1, <4>2
    <3>2. CASE s \notin DOMAIN said
      <4>1. s = sentence
        BY <2>5, <2>7, <3>2
      <4>2. said'[s] = 0 + 1
        BY <2>1, <3>2, <4>1
      <4> QED
        BY <4>2
    <3> QED
      BY <3>1, <3>2
  <2>8. DOMAIN said' \in SUBSET (Questions \cup Closings)
    BY <2>3, <2>5 DEF Rephrasing
  <2> QED
    BY <2>4, <2>6, <2>7, <2>8 DEF Rephrasing
<1> QED
  BY <1>4, <1>5

LEMMA FreshCounts == Counting(Fresh)
<1>1. Fresh.asked = [slot \in Slots |-> 0] /\ Fresh.closings = 0
  BY DEF Fresh
<1>2. [slot \in Slots |-> 0] \in [Slots -> Nat]
  OBVIOUS
<1> QED
  BY <1>1, <1>2, FreshFields DEF Counting

LEMMA RephrasingInductive ==
  ASSUME Rephrasing, [ConversationNext]_conversationVars
  PROVE  Rephrasing'
<1>1. ASSUME NEW word \in Alphabet, Dictate(word) PROVE Rephrasing'
  BY <1>1 DEF Dictate, Rephrasing
<1>2. CASE Restart
  <2>1. live' = Restored(live) /\ said' = Unsaid
    BY <1>2 DEF Restart
  <2>2. /\ DOMAIN live' = Fields /\ live'.asked = Fresh.asked /\ live'.closings = Fresh.closings
    BY <2>1, RestoredKeeps DEF Keeps, Rephrasing, Counting
  <2>3. Counting(live')
    BY <2>2, FreshCounts DEF Counting
  <2>4. DOMAIN said' = {}
    BY <2>1 DEF Unsaid
  <2> QED
    BY <2>3, <2>4 DEF Rephrasing
<1>3. CASE UNCHANGED conversationVars
  BY <1>3 DEF Rephrasing, conversationVars
<1> QED
  BY <1>1, <1>2, <1>3, TurnsRephrase DEF ConversationNext

\* Since the engine was built, every question and every closing but the last was
\* put to the buyer in the same words at most once, whatever was said and understood.
THEOREM QuestionsAreNew == ConversationSpec => []QuestionsRephrased
<1>1. ConversationInit => Rephrasing
  <2> SUFFICES ASSUME ConversationInit PROVE Rephrasing
    OBVIOUS
  <2>1. live = Fresh /\ DOMAIN said = {}
    BY DEF ConversationInit, Unsaid
  <2> QED
    BY <2>1, FreshCounts DEF Rephrasing
<1>2. Rephrasing => QuestionsRephrased
  BY DEF Rephrasing, QuestionsRephrased
<1> QED
  BY <1>1, <1>2, RephrasingInductive, PTL DEF ConversationSpec

-----------------------------------------------------------------------------
(***************************************************************************)
(* The types of a conversation.  Fits(f, v) is what Typed says of field f, *)
(* so that a turn is typed by the fields it changes.                       *)
(***************************************************************************)
\* v is of the type of field f.
Fits(f, v) ==
  /\ f = "phase" => v \in {"discovery", "qualification", "next-step", "closed"}
  /\ f = "turns" => v \in 0..MaxTurns
  /\ f \in {"redirected", "stopped"} => v \in BOOLEAN
  /\ f = "facts" => DOMAIN v \in SUBSET Slots
  /\ f = "understood" => v \in SUBSET Slots
  /\ f = "evidence" => v \in SUBSET (DOMAIN Weight)
  /\ f \in {"changes", "closings"} => v \in Nat
  /\ f = "temperature" => v \in {None, "review", "cold", "warm", "hot"}
  /\ f = "tilt" => v \in {None, "up", "down"}
  /\ f \in {"language", "declared", "pending"} => v \in Spoken
  /\ f = "count" => v \in 0..(SwitchAfter - 1)
  /\ f = "asked" => v \in [Slots -> 0..MaxAsks]

LEMMA TypedByField ==
  ASSUME NEW c
  PROVE  Typed(c) <=> DOMAIN c = Fields /\ \A f \in Fields : Fits(f, c[f])
<1>1. ASSUME Typed(c) PROVE DOMAIN c = Fields /\ \A f \in Fields : Fits(f, c[f])
  <2>1. DOMAIN c = Fields
    BY <1>1, FreshFields DEF Typed
  <2>2. /\ Fits("phase", c.phase) /\ Fits("turns", c.turns) /\ Fits("redirected", c.redirected)
        /\ Fits("stopped", c.stopped) /\ Fits("facts", c.facts) /\ Fits("recent", c.recent)
    BY <1>1 DEF Typed, Fits
  <2>3. /\ Fits("understood", c.understood) /\ Fits("evidence", c.evidence)
        /\ Fits("changes", c.changes) /\ Fits("closings", c.closings)
        /\ Fits("temperature", c.temperature) /\ Fits("tilt", c.tilt)
    BY <1>1 DEF Typed, Fits
  <2>4. /\ Fits("language", c.language) /\ Fits("declared", c.declared)
        /\ Fits("pending", c.pending) /\ Fits("count", c.count) /\ Fits("asked", c.asked)
    BY <1>1 DEF Typed, Fits
  <2> QED
    BY <2>1, <2>2, <2>3, <2>4 DEF Fields
<1>2. ASSUME DOMAIN c = Fields, \A f \in Fields : Fits(f, c[f]) PROVE Typed(c)
  <2>1. DOMAIN c = DOMAIN Fresh
    BY <1>2, FreshFields
  <2>2. /\ Fits("phase", c.phase) /\ Fits("turns", c.turns) /\ Fits("redirected", c.redirected)
        /\ Fits("stopped", c.stopped) /\ Fits("facts", c.facts)
        /\ Fits("understood", c.understood) /\ Fits("evidence", c.evidence)
        /\ Fits("changes", c.changes) /\ Fits("closings", c.closings)
        /\ Fits("temperature", c.temperature) /\ Fits("tilt", c.tilt)
        /\ Fits("language", c.language) /\ Fits("declared", c.declared)
        /\ Fits("pending", c.pending) /\ Fits("count", c.count) /\ Fits("asked", c.asked)
    BY <1>2 DEF Fields
  <2> QED
    BY <2>1, <2>2 DEF Typed, Fits
<1> QED
  BY <1>1, <1>2

\* A conversation stays of its type when the fields that were changed are of theirs.
LEMMA TypedOn ==
  ASSUME NEW c, Typed(c), NEW d, NEW F, Keeps(c, d, F), \A f \in F : Fits(f, d[f])
  PROVE  Typed(d)
<1>1. DOMAIN d = Fields /\ \A f \in Fields : Fits(f, d[f])
  BY TypedByField DEF Keeps
<1> QED
  BY <1>1, TypedByField

LEMMA TypedFresh == Typed(Fresh)
<1>1. /\ Fresh.phase = "discovery" /\ Fresh.turns = 0 /\ Fresh.redirected = FALSE
      /\ Fresh.stopped = FALSE /\ DOMAIN Fresh.facts = {} /\ Fresh.evidence = {}
      /\ Fresh.changes = 0 /\ Fresh.temperature = None /\ Fresh.tilt = None
      /\ Fresh.language = None /\ Fresh.declared = None /\ Fresh.pending = None
      /\ Fresh.count = 0 /\ Fresh.asked = [slot \in Slots |-> 0] /\ Fresh.closings = 0
      /\ Fresh.understood = {}
  BY DEF Fresh
<1>2. None \in Spoken
  BY DEF Spoken
<1>3. 0 \in 0..MaxTurns /\ 0 \in 0..(SwitchAfter - 1)
  BY CapacitiesPositive DEF SwitchAfter
<1>4. [slot \in Slots |-> 0] \in [Slots -> 0..MaxAsks]
  BY DEF MaxAsks
<1> HIDE DEF Fresh
<1>5. /\ Fits("phase", Fresh.phase) /\ Fits("turns", Fresh.turns)
      /\ Fits("redirected", Fresh.redirected) /\ Fits("stopped", Fresh.stopped)
  BY <1>1, <1>3 DEF Fits
<1>6. /\ Fits("facts", Fresh.facts) /\ Fits("understood", Fresh.understood)
      /\ Fits("evidence", Fresh.evidence) /\ Fits("changes", Fresh.changes)
      /\ Fits("closings", Fresh.closings) /\ Fits("recent", Fresh.recent)
  BY <1>1 DEF Fits
<1>7. /\ Fits("temperature", Fresh.temperature) /\ Fits("tilt", Fresh.tilt)
  BY <1>1 DEF Fits
<1>8. /\ Fits("language", Fresh.language) /\ Fits("declared", Fresh.declared)
      /\ Fits("pending", Fresh.pending)
  BY <1>1, <1>2 DEF Fits
<1>9. Fits("count", Fresh.count) /\ Fits("asked", Fresh.asked)
  BY <1>1, <1>3, <1>4 DEF Fits
<1>10. \A f \in Fields : Fits(f, Fresh[f])
  BY <1>5, <1>6, <1>7, <1>8, <1>9 DEF Fields
<1> QED
  BY <1>10, FreshFields, TypedByField

LEMMA OneOf ==
  ASSUME NEW S, IsFiniteSet(S), Cardinality(S) = 1
  PROVE  \E x : S = {x}
BY FS_Singleton

LEMMA FiniteLanguages == IsFiniteSet(Languages) /\ IsFiniteSet({"mixed", "te"})
<1>1. \A x : IsFiniteSet({x})
  BY FS_Singleton
<1>2. IsFiniteSet({"mixed"} \cup {"te"}) /\ IsFiniteSet({"en"} \cup {"hi"})
  BY <1>1, FS_Union
<1>3. IsFiniteSet(({"en"} \cup {"hi"}) \cup ({"mixed"} \cup {"te"}))
  BY <1>2, FS_Union
<1>4. /\ Languages = ({"en"} \cup {"hi"}) \cup ({"mixed"} \cup {"te"})
      /\ {"mixed", "te"} = {"mixed"} \cup {"te"}
  BY DEF Languages
<1> QED
  BY <1>2, <1>3, <1>4

\* A text is read as one of the languages there are, or as none.
LEMMA ReadIsSpoken ==
  ASSUME NEW text
  PROVE  ReadLanguage(text).language \in Languages \cup {None}
<1> DEFINE requested == RequestedLanguage(text)
           script == DominantScript(text)
           romanised == RomanisedLanguage(text)
<1>1. requested \in Languages \cup {None}
  <2> DEFINE named == {l \in Languages : LanguageNames[l] \cap WordsOf(text) # {}}
  <2>1. CASE SpeechCues \cap WordsOf(text) # {} /\ Cardinality(named) = 1
    <3>1. IsFiniteSet(named) /\ named \in SUBSET Languages
      BY FiniteLanguages, FS_Subset
    <3>2. requested = CHOOSE l \in Languages : named = {l}
      BY <2>1 DEF RequestedLanguage
    <3> HIDE DEF named, requested
    <3>3. \E l \in Languages : named = {l}
      BY <2>1, <3>1, OneOf
    <3> QED
      BY <3>2, <3>3
  <2>2. CASE ~(SpeechCues \cap WordsOf(text) # {} /\ Cardinality(named) = 1)
    BY <2>2 DEF RequestedLanguage
  <2> QED
    BY <2>1, <2>2
<1>2. script \in {"hi", "te", None, "latin"}
  <2>1. \A word : ScriptOf(word) \in {"hi", "te", None, "latin"}
    BY DEF ScriptOf
  <2> QED
    BY <2>1 DEF DominantScript
<1>3. romanised \in {"mixed", "te", None}
  <2> DEFINE score == [l \in DOMAIN Romanised |-> Cardinality(Romanised[l] \cap WordsOf(text))]
             best == {l \in DOMAIN Romanised : \A m \in DOMAIN Romanised : score[m] =< score[l]}
  <2>1. DOMAIN Romanised = {"mixed", "te"}
    BY DEF Romanised
  <2>2. CASE Cardinality(best) = 1 /\ \A l \in best : score[l] >= MinRomanisedMarkers
    <3>1. IsFiniteSet(best) /\ best \in SUBSET {"mixed", "te"}
      BY <2>1, FiniteLanguages, FS_Subset
    <3>2. romanised = CHOOSE l \in DOMAIN Romanised : best = {l}
      BY <2>2 DEF RomanisedLanguage
    <3> HIDE DEF best, romanised, score
    <3>3. \E l \in DOMAIN Romanised : best = {l}
      BY <2>1, <2>2, <3>1, OneOf
    <3> QED
      BY <2>1, <3>2, <3>3
  <2>3. CASE ~(Cardinality(best) = 1 /\ \A l \in best : score[l] >= MinRomanisedMarkers)
    BY <2>3 DEF RomanisedLanguage
  <2> QED
    BY <2>2, <2>3
<1>4. \/ requested # None /\ ReadLanguage(text).language = requested
      \/ ReadLanguage(text).language \in {romanised, "en"} /\ romanised # None
      \/ ReadLanguage(text).language = "en"
      \/ script # "latin" /\ ReadLanguage(text).language = script
  <2>1. CASE requested # None
    BY <2>1 DEF ReadLanguage
  <2>2. CASE requested = None /\ script = "latin"
    BY <2>2 DEF ReadLanguage
  <2>3. CASE requested = None /\ script # "latin"
    BY <2>3 DEF ReadLanguage
  <2> QED
    BY <2>1, <2>2, <2>3
<1> HIDE DEF requested, script, romanised
<1> QED
  BY <1>1, <1>2, <1>3, <1>4 DEF Languages


\* What a turn brings: languages somebody may name, and evidence that weighs something.
LEMMA TurnsAreSpoken ==
  ASSUME NEW turn \in Turns
  PROVE  /\ ReadingOf(turn).language \in Spoken /\ turn.declared \in Spoken
         /\ turn.said.heard.evidence \in SUBSET (DOMAIN Weight)
<1>1. turn.transcribed \in Labels \cup {None} /\ turn.declared \in Declared \cup {"en"}
  BY DEF Turns
<1>2. PICK text : turn.said = Utterance(text)
  BY DEF Turns, Utterances
<1>3. turn.said.heard.shown = ReadLanguage(text) /\ turn.said.heard.evidence = Evidence(text, FALSE)
  <2>1. Read(text).shown = ReadLanguage(text) /\ Read(text).evidence = Evidence(text, FALSE)
    BY DEF Read
  <2>2. turn.said.heard = Read(text)
    BY <1>2 DEF Utterance
  <2> QED
    BY <2>1, <2>2
<1>4. Evidence(text, FALSE) \in SUBSET (DOMAIN Weight)
  <2>1. DOMAIN PositiveEvidence \cup DOMAIN NegativeEvidence \in SUBSET (DOMAIN Weight)
    BY DEF PositiveEvidence, NegativeEvidence, Weight
  <2> QED
    BY <2>1 DEF Evidence
<1>5. ReadingOf(turn).language \in Spoken
  <2> DEFINE shown == ReadLanguage(text)
  <2>1. shown.language \in Languages \cup {None}
    BY ReadIsSpoken
  <2>2. CASE shown.language # None
    <3>1. ReadingOf(turn) = shown
      BY <1>3, <2>2 DEF ReadingOf, DetectLanguage
    <3> HIDE DEF shown
    <3> QED
      BY <2>1, <3>1 DEF Spoken
  <2>3. CASE shown.language = None
    <3>1. ReadingOf(turn) = [shown EXCEPT !.language = turn.transcribed]
      BY <1>3, <2>3 DEF ReadingOf, DetectLanguage
    <3>2. "language" \in DOMAIN shown
      BY DEF ReadLanguage
    <3> HIDE DEF shown
    <3>3. ReadingOf(turn).language = turn.transcribed
      BY <3>1, <3>2
    <3> QED
      BY <1>1, <3>3 DEF Spoken
  <2> QED
    BY <2>2, <2>3
<1> QED
  BY <1>1, <1>3, <1>4, <1>5 DEF Spoken, Languages

\* What a typed conversation holds, field by field.
LEMMA FieldsTyped ==
  ASSUME NEW c, Typed(c)
  PROVE  /\ DOMAIN c = Fields /\ \A f \in Fields : Fits(f, c[f])
         /\ c.turns \in 0..MaxTurns /\ c.count \in {0, 1}
         /\ {c.language, c.declared, c.pending} \in SUBSET Spoken
         /\ DOMAIN c.facts \in SUBSET Slots /\ c.understood \in SUBSET Slots
         /\ c.evidence \in SUBSET (DOMAIN Weight) /\ c.changes \in Nat /\ c.closings \in Nat
         /\ c.tilt \in {None, "up", "down"}
         /\ c.asked \in [Slots -> 0..MaxAsks]
<1>1. c.count \in {0, 1}
  BY DEF Typed, SwitchAfter
<1> QED
  BY <1>1, TypedByField DEF Typed

LEMMA ResolveTyped ==
  ASSUME NEW c, Typed(c), NEW turn, turn.declared \in Spoken,
         NEW reading, reading.language \in Spoken
  PROVE  Typed(Resolve(c, turn, reading))
<1>0. None \in Spoken
  BY DEF Spoken
<1>1. ASSUME NEW d, Typed(d) PROVE Typed(Decide(d, reading))
  <2> DEFINE heard == reading.language
             votes == IF d.pending = heard THEN d.count + 1 ELSE 1
             settled == [d EXCEPT !.pending = None, !.count = 0]
             switched == [d EXCEPT !.language = heard, !.pending = None, !.count = 0]
             voted == [d EXCEPT !.pending = heard, !.count = votes]
             e == Decide(d, reading)
  <2>1. DOMAIN d = Fields /\ d.count \in {0, 1}
    BY <1>1, FieldsTyped
  <2>2. \/ e \in {d, settled, switched}
        \/ e = voted /\ votes < SwitchAfter
    <3>1. votes \in {1, 2}
      BY <2>1
    <3>2. CASE heard = None
      BY <3>2 DEF Decide
    <3>3. CASE heard # None /\ heard = d.language
      BY <3>3 DEF Decide
    <3>4. CASE heard \notin {None, d.language} /\ (reading.request \/ votes >= SwitchAfter)
      BY <3>4 DEF Decide
    <3>5. CASE heard \notin {None, d.language} /\ ~(reading.request \/ votes >= SwitchAfter)
      <4>1. e = voted
        BY <3>5 DEF Decide
      <4> HIDE DEF voted, e, votes
      <4> QED
        BY <3>1, <3>5, <4>1 DEF SwitchAfter
    <3> QED
      BY <3>2, <3>3, <3>4, <3>5
  <2>3. settled.pending = None /\ settled.count = 0 /\ settled.language = d.language
    BY <2>1 DEF Fields
  <2>4. switched.pending = None /\ switched.count = 0 /\ switched.language = heard
    BY <2>1 DEF Fields
  <2>5. voted.pending = heard /\ voted.count = votes /\ voted.language = d.language
    <3> HIDE DEF heard, votes
    <3> QED
      BY <2>1 DEF Fields
  <2>6. Keeps(d, e, {"language", "pending", "count"})
    BY <2>1, DecideKeeps
  <2>7. {d.language, d.pending} \in SUBSET Spoken /\ heard \in Spoken
    BY <1>1, FieldsTyped
  <2>8. votes \in {1, 2}
    BY <2>1
  <2> HIDE DEF settled, switched, voted, e, votes, heard
  <2>9. e.language \in Spoken /\ e.pending \in Spoken /\ e.count \in 0..(SwitchAfter - 1)
    BY <1>0, <2>1, <2>2, <2>3, <2>4, <2>5, <2>7, <2>8 DEF SwitchAfter
  <2>10. \A f \in {"language", "pending", "count"} : Fits(f, e[f])
    BY <2>9 DEF Fits
  <2> QED
    BY <1>1, <2>6, <2>10, TypedOn DEF e
<1> DEFINE told == [c EXCEPT !.declared = turn.declared, !.language = turn.declared]
           reset == [told EXCEPT !.pending = None, !.count = 0]
<1>2. DOMAIN c = Fields
  BY FieldsTyped
<1>3. /\ Keeps(c, told, {"declared", "language"})
      /\ told.declared = turn.declared /\ told.language = turn.declared
  BY <1>2 DEF Keeps, Fields
<1> HIDE DEF told
<1>4. Typed(told)
  <2>1. \A f \in {"declared", "language"} : Fits(f, told[f])
    BY <1>3 DEF Fits
  <2> QED
    BY <1>3, <2>1, TypedOn
<1>5. Typed(reset)
  <2>1. Keeps(told, reset, {"pending", "count"}) /\ reset.pending = None /\ reset.count = 0
    BY <1>3 DEF Keeps, Fields
  <2> HIDE DEF reset
  <2>2. 0 \in 0..(SwitchAfter - 1)
    BY DEF SwitchAfter
  <2>3. \A f \in {"pending", "count"} : Fits(f, reset[f])
    BY <1>0, <2>1, <2>2 DEF Fits
  <2> QED
    BY <1>4, <2>1, <2>3, TypedOn
<1>6. Resolve(c, turn, reading) \in {reset, Decide(told, reading), Decide(c, reading)}
  BY DEF Resolve, told
<1> HIDE DEF reset
<1> QED
  BY <1>1, <1>4, <1>5, <1>6

LEMMA BegunTyped ==
  ASSUME NEW c, Typed(c), c.turns < MaxTurns, NEW turn \in Turns
  PROVE  Typed(Begun(c, turn, turn.said.heard))
<1> DEFINE r == Resolve(c, turn, ReadingOf(turn))
           b == Begun(c, turn, turn.said.heard)
<1>1. Typed(r)
  BY TurnsAreSpoken, ResolveTyped
<1>2. Keeps(r, b, {"turns", "recent"}) /\ b.turns = c.turns + 1
  BY FieldsTyped, BegunKeeps DEF ReadingOf
<1> HIDE DEF r, b
<1>3. b.turns \in 0..MaxTurns
  BY <1>2, FieldsTyped, CapacitiesPositive
<1>4. \A f \in {"turns", "recent"} : Fits(f, b[f])
  BY <1>3 DEF Fits
<1> QED
  BY <1>1, <1>2, <1>4, TypedOn DEF b

LEMMA EndingsTyped ==
  ASSUME NEW c, Typed(c)
  PROVE  /\ Typed(Classify(c)) /\ Typed(OptedOut(c)) /\ Typed(Abused(c)) /\ Typed(Concluded(c))
<1>0. \A d : Temperature(d) \in {"review", "cold", "warm", "hot"}
  BY DEF Temperature
<1>1. ASSUME NEW d, Typed(d) PROVE Typed(Classify(d))
  <2>1. Keeps(d, Classify(d), {"temperature"}) /\ Classify(d).temperature = Temperature(d)
    BY <1>1, FieldsTyped, EndingsKeep
  <2>2. Fits("temperature", Classify(d).temperature)
    BY <1>0, <2>1 DEF Fits
  <2> QED
    BY <1>1, <2>1, <2>2, TypedOn
<1>2. Typed(OptedOut(c))
  <2> DEFINE d == OptedOut(c)
  <2>1. /\ Keeps(c, d, {"stopped", "phase", "temperature"})
        /\ d.stopped = TRUE /\ d.phase = "closed" /\ d.temperature = "cold"
    BY FieldsTyped DEF OptedOut, Keeps, Fields
  <2> HIDE DEF d
  <2>2. \A f \in {"stopped", "phase", "temperature"} : Fits(f, d[f])
    BY <2>1 DEF Fits
  <2> QED
    BY <2>1, <2>2, TypedOn DEF d
<1>3. Typed(Abused(c))
  <2> DEFINE d == IF c.redirected THEN [c EXCEPT !.stopped = TRUE, !.phase = "closed"]
                  ELSE [c EXCEPT !.redirected = TRUE]
  <2>1. CASE c.redirected
    <3>1. /\ Keeps(c, d, {"stopped", "phase"}) /\ d.stopped = TRUE /\ d.phase = "closed"
      BY <2>1, FieldsTyped DEF Keeps, Fields
    <3> HIDE DEF d
    <3>2. \A f \in {"stopped", "phase"} : Fits(f, d[f])
      BY <3>1 DEF Fits
    <3>3. Typed(d)
      BY <3>1, <3>2, TypedOn
    <3> QED
      BY <1>1, <3>3 DEF Abused, d
  <2>2. CASE ~c.redirected
    <3>1. Keeps(c, d, {"redirected"}) /\ d.redirected = TRUE
      BY <2>2, FieldsTyped DEF Keeps, Fields
    <3> HIDE DEF d
    <3>2. \A f \in {"redirected"} : Fits(f, d[f])
      BY <3>1 DEF Fits
    <3>3. Typed(d)
      BY <3>1, <3>2, TypedOn
    <3> QED
      BY <1>1, <3>3 DEF Abused, d
  <2> QED
    BY <2>1, <2>2
<1>4. Typed(Concluded(c))
  <2>1. /\ Keeps(c, Concluded(c), {"temperature", "phase"})
        /\ Concluded(c).temperature = Temperature(c)
        /\ Concluded(c).phase = PhaseFor(Temperature(c))
    BY FieldsTyped, AnsweredKeeps
  <2>2. PhaseFor(Temperature(c)) \in {"discovery", "qualification", "next-step"}
    BY DEF PhaseFor
  <2>3. \A f \in {"temperature", "phase"} : Fits(f, Concluded(c)[f])
    BY <1>0, <2>1, <2>2 DEF Fits
  <2> QED
    BY <2>1, <2>3, TypedOn
<1> QED
  BY <1>1, <1>2, <1>3, <1>4

LEMMA FiniteSlots == \A S \in SUBSET Slots : IsFiniteSet(S) /\ Cardinality(S) \in Nat
<1>1. \A x : IsFiniteSet({x})
  BY FS_Singleton
<1>2. /\ IsFiniteSet({"business_type"} \cup {"requested_features"})
      /\ IsFiniteSet({"budget_stated"} \cup {"timeline"})
  BY <1>1, FS_Union
<1>3. IsFiniteSet(({"business_type"} \cup {"requested_features"})
                  \cup ({"budget_stated"} \cup {"timeline"}))
  BY <1>2, FS_Union
<1>4. Slots = ({"business_type"} \cup {"requested_features"})
              \cup ({"budget_stated"} \cup {"timeline"})
  BY DEF Slots
<1> QED
  BY <1>3, <1>4, FS_Subset, FS_CardinalityType

LEMMA PreparedTyped ==
  ASSUME NEW c, Typed(c), c.turns < MaxTurns, NEW turn \in Turns, NEW tilt \in {"up", "down"}
  PROVE  Typed(Prepared(c, turn, turn.said.heard, tilt))
<1> DEFINE heard == turn.said.heard
           b == Begun(c, turn, heard)
           e == Extracted(b, heard, tilt)
           told == IF heard.normal \in c.recent THEN b ELSE e
           p == Prepared(c, turn, heard, tilt)
<1>1. Typed(b)
  BY BegunTyped
<1>2. heard.evidence \in SUBSET (DOMAIN Weight)
  BY TurnsAreSpoken
<1>3. Keeps(told, p, {"understood"}) /\ DOMAIN told = Fields
  BY FieldsTyped, PreparedKeeps
<1>4. p.understood \in {told.understood, told.understood \cup Understood(turn)}
  <2> HIDE DEF told
  <2>1. p = IF ReviewsGoals(told) THEN told
            ELSE [told EXCEPT !.understood = @ \cup Understood(turn)]
    BY DEF Prepared, told
  <2> HIDE DEF p
  <2> QED
    BY <1>3, <2>1 DEF Fields
<1>5. Understood(turn) \in SUBSET Slots
  BY DEF Understood, AcceptSlots
<1> HIDE DEF b, heard
<1>6. Typed(e)
  <2>1. /\ Keeps(b, e, {"facts", "changes", "evidence", "tilt"})
        /\ e.facts = FactsOf(b, heard) /\ e.changes = ChangesOf(b, heard)
        /\ e.evidence = EvidenceOf(b, heard) /\ e.tilt = TiltOf(b, heard, tilt)
    BY <1>1, FieldsTyped, ExtractedKeeps
  <2> HIDE DEF e
  <2>2. /\ DOMAIN b.facts \in SUBSET Slots /\ b.evidence \in SUBSET (DOMAIN Weight)
        /\ b.changes \in Nat /\ b.tilt \in {None, "up", "down"}
    BY <1>1, FieldsTyped
  <2>3. Taken(b, heard) \in SUBSET Slots
    <3>1. \A i \in 1..Len(AskOrder) : AskOrder[i] \in Slots
      <4>1. Len(AskOrder) = 4 /\ \A i \in 1..4 : AskOrder[i] \in Slots
        BY DEF AskOrder, Slots
      <4> QED
        BY <4>1
    <3> QED
      BY <2>2, <3>1 DEF Taken, Accepted
  <2>4. DOMAIN e.facts \in SUBSET Slots
    BY <2>1, <2>2, <2>3 DEF FactsOf
  <2>5. e.changes \in Nat
    <3>1. Cardinality(Taken(b, heard) \cap DOMAIN b.facts) \in Nat
      BY <2>3, FiniteSlots
    <3> QED
      BY <2>1, <2>2, <3>1 DEF ChangesOf
  <2>6. e.evidence \in SUBSET (DOMAIN Weight)
    <3>1. "requirement" \in DOMAIN Weight
      BY DEF Weight
    <3> QED
      BY <1>2, <2>1, <2>2, <3>1 DEF EvidenceOf
  <2>7. e.tilt \in {None, "up", "down"}
    BY <2>1, <2>2 DEF TiltOf
  <2>8. \A f \in {"facts", "changes", "evidence", "tilt"} : Fits(f, e[f])
    BY <2>4, <2>5, <2>6, <2>7 DEF Fits
  <2> QED
    BY <1>1, <2>1, <2>8, TypedOn
<1>7. Typed(told)
  BY <1>1, <1>6
<1> HIDE DEF told, p
<1>8. Fits("understood", p.understood)
  BY <1>4, <1>5, <1>7, FieldsTyped DEF Fits
<1> QED
  BY <1>3, <1>7, <1>8, TypedOn DEF p, heard

LEMMA AnsweredTyped ==
  ASSUME NEW c, Typed(c), NEW turn, NEW heard
  PROVE  Typed(Answered(c, turn, heard))
<1> DEFINE ask == Ask(c, turn, heard)
           asks == [c EXCEPT !.asked[ask] = @ + 1]
           closes == [c EXCEPT !.closings = @ + 1]
           a == Answered(c, turn, heard)
<1>1. /\ DOMAIN c = Fields /\ c.closings \in Nat /\ c.asked \in [Slots -> 0..MaxAsks]
  BY FieldsTyped
<1>2. Keeps(c, a, {"asked", "closings"})
  BY <1>1, AnsweredKeeps
<1>3. \/ a \in {c, closes}
      \/ ask # None /\ a = asks
  <2> HIDE DEF asks, closes
  <2> QED
    BY DEF Answered, Replied, asks, closes
<1>4. closes.asked = c.asked /\ closes.closings = c.closings + 1
  BY <1>1 DEF Fields
<1>5. asks.asked = [c.asked EXCEPT ![ask] = @ + 1] /\ asks.closings = c.closings
  <2> HIDE DEF ask
  <2> QED
    BY <1>1 DEF Fields
<1>6. ASSUME ask # None PROVE asks.asked \in [Slots -> 0..MaxAsks]
  <2>1. Counting(c)
    <3>1. c.asked \in [Slots -> Nat]
      BY <1>1 DEF MaxAsks
    <3> QED
      BY <1>1, <3>1 DEF Counting
  <2>2. ask \in Slots /\ c.asked[ask] < MaxAsks
    BY <1>6, <2>1, AskedIsOpen DEF Ask
  <2> HIDE DEF ask, asks
  <2>3. c.asked[ask] + 1 \in 0..MaxAsks
    BY <1>1, <2>2 DEF MaxAsks
  <2> QED
    BY <1>1, <1>5, <2>2, <2>3
<1> HIDE DEF ask, asks, closes, a
<1>7. a.asked \in [Slots -> 0..MaxAsks] /\ a.closings \in Nat
  BY <1>1, <1>3, <1>4, <1>5, <1>6
<1>8. \A f \in {"asked", "closings"} : Fits(f, a[f])
  BY <1>7 DEF Fits
<1> QED
  BY <1>2, <1>8, TypedOn DEF a

LEMMA AfterTyped ==
  ASSUME NEW c, Typed(c), c.turns < MaxTurns, NEW turn \in Turns, NEW tilt \in {"up", "down"}
  PROVE  Typed(After(c, turn, turn.said.heard, tilt))
<1> DEFINE b == Begun(c, turn, turn.said.heard)
           a == Answered(Prepared(c, turn, turn.said.heard, tilt), turn, turn.said.heard)
<1>1. Typed(b) /\ Typed(a)
  BY BegunTyped, PreparedTyped, AnsweredTyped
<1>2. After(c, turn, turn.said.heard, tilt)
      \in {OptedOut(b), Abused(b), Classify(b), Concluded(a)}
  BY DEF After, Discussed
<1> HIDE DEF a, b
<1> QED
  BY <1>1, <1>2, EndingsTyped

LEMMA RestoredTyped ==
  ASSUME NEW c, Typed(c)
  PROVE  Typed(Restored(c))
<1>1. Keeps(c, Restored(c), Transient)
  BY FieldsTyped, RestoredKeeps
<1>2. \A f \in Transient : Restored(c)[f] = Fresh[f]
  BY FieldsTyped DEF Restored, Transient, Fields
<1>3. \A f \in Transient : Fits(f, Fresh[f])
  BY TypedFresh, TypedByField DEF Transient, Fields
<1> QED
  BY <1>1, <1>2, <1>3, TypedOn

\* Both conversations are sound as well: the twin takes as many turns as live.
Typing == Restoring /\ ConversationTypeOK

LEMMA TypingInitially == ConversationInit => Typing
<1> SUFFICES ASSUME ConversationInit PROVE Typing
  OBVIOUS
<1>1. live = Fresh /\ twin = Fresh
  BY DEF ConversationInit
<1>2. Typed(live) /\ Typed(twin)
  BY <1>1, TypedFresh
<1>3. spoken \in Spoken /\ cause \in {None, "declared", "requested", "again"}
  BY DEF ConversationInit, Spoken
<1>4. \A sentence \in DOMAIN said : said[sentence] \in Nat \ {0}
  BY DEF ConversationInit, Unsaid
<1>5. saying \in Seq(Alphabet) /\ Len(saying) =< MaxWords /\ restarts \in 0..MaxRestarts
  BY BudgetsNatural DEF ConversationInit
<1> QED
  BY <1>2, <1>3, <1>4, <1>5, RestoringInitially DEF Typing, ConversationTypeOK

LEMMA TurnsTyped ==
  ASSUME Typing, NEW turn \in Turns, NEW tilt \in {"up", "down"}, Turn(turn, tilt)
  PROVE  ConversationTypeOK'
<1> DEFINE heard == turn.said.heard
           told == Prepared(live, turn, heard, tilt)
           sentence == Sentence(told, Ask(told, turn, heard), heard.intent)
<1>1. /\ live.turns < MaxTurns
      /\ live' = After(live, turn, heard, tilt) /\ twin' = After(twin, turn, heard, tilt)
      /\ said' = Voiced(turn, heard, tilt) /\ Observe(turn, ReadingOf(turn))
      /\ UNCHANGED <<saying, restarts>>
  BY DEF Turn, ReadingOf
<1>2. Typed(live) /\ Typed(twin)
  BY DEF Typing, ConversationTypeOK
<1>3. twin.turns = live.turns
  BY DEF Typing, Restoring, Agree, Fields, Transient
<1>4. Typed(live') /\ Typed(twin')
  BY <1>1, <1>2, <1>3, AfterTyped
<1>5. spoken' \in Spoken /\ cause' \in {None, "declared", "requested", "again"}
  <2>1. ReadingOf(turn).language \in Spoken /\ None \in Spoken
    BY TurnsAreSpoken DEF Spoken
  <2>2. spoken \in Spoken
    BY DEF Typing, ConversationTypeOK
  <2> QED
    BY <1>1, <2>1, <2>2 DEF Observe
<1>6. \A s \in DOMAIN said' : said'[s] \in Nat \ {0}
  <2>0. \A s \in DOMAIN said : said[s] \in Nat \ {0}
    BY DEF Typing, ConversationTypeOK
  <2>1. \/ said' = said
        \/ said' = [s \in DOMAIN said \cup {sentence} |->
                      (IF s \in DOMAIN said THEN said[s] ELSE 0) + (IF s = sentence THEN 1 ELSE 0)]
    BY <1>1 DEF Voiced
  <2> HIDE DEF sentence, told, heard
  <2> QED
    BY <2>0, <2>1
<1> QED
  BY <1>1, <1>4, <1>5, <1>6 DEF Typing, ConversationTypeOK

LEMMA TypingInductive ==
  ASSUME Typing, [ConversationNext]_conversationVars
  PROVE  Typing'
<1>1. Restoring'
  BY RestoringInductive DEF Typing
<1>2. ASSUME NEW word \in Alphabet, Dictate(word) PROVE ConversationTypeOK'
  <2>1. saying' = Append(saying, word) /\ Len(saying) < MaxWords /\ saying \in Seq(Alphabet)
    BY <1>2 DEF Dictate, Typing, ConversationTypeOK
  <2>2. saying' \in Seq(Alphabet) /\ Len(saying') =< MaxWords
    <3>1. saying' \in Seq(Alphabet) /\ Len(saying') = Len(saying) + 1 /\ Len(saying) \in Nat
      BY <2>1
    <3> QED
      BY <2>1, <3>1, BudgetsNatural
  <2> QED
    BY <1>2, <2>2 DEF Dictate, Typing, ConversationTypeOK
<1>3. CASE Restart
  <2>1. /\ live' = Restored(live) /\ said' = Unsaid /\ restarts < MaxRestarts
        /\ restarts' = restarts + 1 /\ UNCHANGED <<twin, spoken, cause, saying>>
    BY <1>3 DEF Restart
  <2>2. Typed(live')
    BY <2>1, RestoredTyped DEF Typing, ConversationTypeOK
  <2>3. restarts' \in 0..MaxRestarts
    BY <2>1, BudgetsNatural DEF Typing, ConversationTypeOK
  <2>4. \A sentence \in DOMAIN said' : said'[sentence] \in Nat \ {0}
    BY <2>1 DEF Unsaid
  <2> QED
    BY <1>1, <2>1, <2>2, <2>3, <2>4 DEF Typing, ConversationTypeOK
<1>4. CASE UNCHANGED conversationVars
  BY <1>1, <1>4 DEF Typing, ConversationTypeOK, conversationVars
<1> QED
  BY <1>1, <1>2, <1>3, <1>4, TurnsTyped DEF Typing, ConversationNext

\* Every field of both conversations keeps its type, whatever the buyer says and
\* whatever a caller, a transcriber or a model makes of it.
THEOREM ConversationTypes == ConversationSpec => []ConversationTypeOK
<1>1. Typing => ConversationTypeOK
  BY DEF Typing
<1> QED
  BY <1>1, TypingInitially, TypingInductive, PTL DEF ConversationSpec

-----------------------------------------------------------------------------
(***************************************************************************)
(* The score.  It is a sum over a set, taken in an order nobody chooses:   *)
(* by its definition it is the function that solves an equation over the   *)
(* subsets of the evidence, and the sum written out solves that equation.  *)
(***************************************************************************)
Worth(evidence, dimension) == IF dimension \in evidence THEN Weight[dimension] ELSE 0
WrittenOut(evidence) ==
  Worth(evidence, "requirement") + Worth(evidence, "budget") + Worth(evidence, "timeline")
  + Worth(evidence, "decision") + Worth(evidence, "nextstep")
  + Worth(evidence, "rejection") + Worth(evidence, "noneed")

Solves(f, S) ==
  f = [s \in SUBSET S |->
         IF s = {} THEN 0
         ELSE Weight[CHOOSE x \in s : TRUE] + f[s \ {CHOOSE x \in s : TRUE}]]

LEMMA SumSolves ==
  ASSUME NEW S, NEW f, Solves(f, S)
  PROVE  \E g : Solves(g, S) /\ SumFunctionOnSet(Weight, S) = g[S]
<1> DEFINE iter == CHOOSE iter : iter = [s \in SUBSET S |->
                     IF s = {} THEN 0
                     ELSE LET x == CHOOSE x \in s : TRUE
                          IN  Weight[x] + iter[s \ {x}]]
<1>1. SumFunctionOnSet(Weight, S) = iter[S]
  BY Zenon DEF SumFunctionOnSet, FoldFunctionOnSet, MapThenFoldSet
<1>2. iter = CHOOSE g : Solves(g, S)
  BY Zenon DEF Solves
<1> HIDE DEF iter
<1>3. Solves(iter, S)
  BY <1>2, Zenon
<1> QED
  BY <1>1, <1>3

LEMMA WeightIs ==
  /\ DOMAIN Weight = {"requirement", "budget", "timeline", "decision", "nextstep",
                      "rejection", "noneed"}
  /\ Weight["requirement"] = 15 /\ Weight["budget"] = 25 /\ Weight["timeline"] = 25
  /\ Weight["decision"] = 30 /\ Weight["nextstep"] = 20
  /\ Weight["rejection"] = -70 /\ Weight["noneed"] = -50
BY DEF Weight

LEMMA WorthsAdd ==
  ASSUME NEW s \in SUBSET (DOMAIN Weight), NEW x \in s
  PROVE  WrittenOut(s) = Weight[x] + WrittenOut(s \ {x})
<1> DEFINE Rest(d) == IF d = x THEN 0 ELSE Worth(s, d)
<1>1. \A d \in DOMAIN Weight : Worth(s, d) \in Int
  BY WeightIs DEF Worth
<1>2. \A d \in DOMAIN Weight : Worth(s \ {x}, d) = Rest(d)
  BY DEF Worth
<1>3. /\ Worth(s, "requirement") \in Int /\ Worth(s \ {x}, "requirement") = Rest("requirement")
        /\ Worth(s, "budget") \in Int /\ Worth(s \ {x}, "budget") = Rest("budget")
        /\ Worth(s, "timeline") \in Int /\ Worth(s \ {x}, "timeline") = Rest("timeline")
        /\ Worth(s, "decision") \in Int /\ Worth(s \ {x}, "decision") = Rest("decision")
        /\ Worth(s, "nextstep") \in Int /\ Worth(s \ {x}, "nextstep") = Rest("nextstep")
        /\ Worth(s, "rejection") \in Int /\ Worth(s \ {x}, "rejection") = Rest("rejection")
        /\ Worth(s, "noneed") \in Int /\ Worth(s \ {x}, "noneed") = Rest("noneed")
  BY <1>1, <1>2, WeightIs
<1>4. Worth(s, x) = Weight[x]
  BY DEF Worth
<1> HIDE DEF Worth
<1>5. WrittenOut(s) = Worth(s, x) + WrittenOut(s \ {x})
  <2>1. CASE x = "requirement"
    BY <1>3, <1>4, <2>1 DEF WrittenOut
  <2>2. CASE x = "budget"
    BY <1>3, <1>4, <2>2 DEF WrittenOut
  <2>3. CASE x = "timeline"
    BY <1>3, <1>4, <2>3 DEF WrittenOut
  <2>4. CASE x = "decision"
    BY <1>3, <1>4, <2>4 DEF WrittenOut
  <2>5. CASE x = "nextstep"
    BY <1>3, <1>4, <2>5 DEF WrittenOut
  <2>6. CASE x = "rejection"
    BY <1>3, <1>4, <2>6 DEF WrittenOut
  <2>7. CASE x = "noneed"
    BY <1>3, <1>4, <2>7 DEF WrittenOut
  <2> QED
    BY <2>1, <2>2, <2>3, <2>4, <2>5, <2>6, <2>7, WeightIs
<1> QED
  BY <1>4, <1>5

LEMMA FiniteWeights == IsFiniteSet(DOMAIN Weight)
<1>1. \A x : IsFiniteSet({x})
  BY FS_Singleton
<1>2. /\ IsFiniteSet({"requirement"} \cup {"budget"}) /\ IsFiniteSet({"timeline"} \cup {"decision"})
      /\ IsFiniteSet({"nextstep"} \cup {"rejection"})
  BY <1>1, FS_Union
<1>3. /\ IsFiniteSet(({"requirement"} \cup {"budget"}) \cup ({"timeline"} \cup {"decision"}))
      /\ IsFiniteSet(({"nextstep"} \cup {"rejection"}) \cup {"noneed"})
  BY <1>1, <1>2, FS_Union
<1>4. IsFiniteSet((({"requirement"} \cup {"budget"}) \cup ({"timeline"} \cup {"decision"}))
                  \cup (({"nextstep"} \cup {"rejection"}) \cup {"noneed"}))
  BY <1>3, FS_Union
<1>5. DOMAIN Weight = (({"requirement"} \cup {"budget"}) \cup ({"timeline"} \cup {"decision"}))
                      \cup (({"nextstep"} \cup {"rejection"}) \cup {"noneed"})
  BY WeightIs
<1> QED
  BY <1>4, <1>5

LEMMA SumIs ==
  ASSUME NEW S \in SUBSET (DOMAIN Weight)
  PROVE  SumFunctionOnSet(Weight, S) = WrittenOut(S)
<1> DEFINE f == [s \in SUBSET S |-> WrittenOut(s)]
<1>1. Solves(f, S)
  <2>1. ASSUME NEW s \in SUBSET S, s # {}
        PROVE  f[s] = Weight[CHOOSE x \in s : TRUE] + f[s \ {CHOOSE x \in s : TRUE}]
    <3>1. (CHOOSE x \in s : TRUE) \in s
      BY <2>1
    <3> QED
      BY <3>1, WorthsAdd
  <2>2. f[{}] = 0
    <3>1. "requirement" \in DOMAIN Weight
      BY WeightIs
    <3>2. WrittenOut({}) = 0
      BY DEF WrittenOut, Worth
    <3> QED
      BY <3>2
  <2> QED
    BY <2>1, <2>2 DEF Solves
<1>2. PICK g : Solves(g, S) /\ SumFunctionOnSet(Weight, S) = g[S]
  BY <1>1, SumSolves
<1> DEFINE wrong(s) == s \in SUBSET S /\ g[s] # WrittenOut(s)
           sizes == {n \in Nat : \E s : wrong(s) /\ Cardinality(s) = n}
<1>3. ASSUME NEW s, wrong(s) PROVE \E t : wrong(t) /\ Cardinality(t) < Cardinality(s)
  <2> DEFINE x == CHOOSE x \in s : TRUE
             t == s \ {x}
  <2>1. s # {}
    <3>1. g[{}] = 0
      BY <1>2 DEF Solves
    <3>2. WrittenOut({}) = 0
      BY DEF WrittenOut, Worth
    <3> QED
      BY <1>3, <3>1, <3>2
  <2>2. x \in s /\ s \in SUBSET (DOMAIN Weight)
    BY <1>3, <2>1
  <2>3. g[s] = Weight[x] + g[t]
    BY <1>2, <1>3, <2>1 DEF Solves
  <2>4. WrittenOut(s) = Weight[x] + WrittenOut(t)
    BY <2>2, WorthsAdd
  <2>5. t \in SUBSET S
    BY <1>3
  <2>6. IsFiniteSet(s)
    BY <2>2, FiniteWeights, FS_Subset
  <2> HIDE DEF x, t
  <2>7. Cardinality(t) = Cardinality(s) - 1 /\ Cardinality(s) \in Nat
    BY <2>2, <2>6, FS_RemoveElement, FS_CardinalityType DEF t
  <2>8. g[t] # WrittenOut(t)
    BY <1>3, <2>3, <2>4
  <2> QED
    BY <2>5, <2>7, <2>8
<1>4. sizes = {}
  <2> SUFFICES ASSUME sizes # {} PROVE FALSE
    OBVIOUS
  <2>1. PICK n \in sizes : \A m \in sizes : n =< m
    BY LeastNatural
  <2>2. PICK s : wrong(s) /\ Cardinality(s) = n
    BY <2>1
  <2>3. PICK t : wrong(t) /\ Cardinality(t) < Cardinality(s)
    BY <1>3, <2>2
  <2>4. IsFiniteSet(t)
    BY <2>3, FiniteWeights, FS_Subset
  <2>5. Cardinality(t) \in Nat
    BY <2>4, FS_CardinalityType
  <2>6. Cardinality(t) \in sizes
    BY <2>3, <2>5
  <2>7. n \in Nat
    BY <2>1
  <2> HIDE DEF sizes, wrong
  <2> QED
    BY <2>1, <2>2, <2>3, <2>5, <2>6, <2>7
<1>5. ~wrong(S)
  <2>1. IsFiniteSet(S)
    BY FiniteWeights, FS_Subset
  <2>2. Cardinality(S) \in Nat
    BY <2>1, FS_CardinalityType
  <2> HIDE DEF wrong
  <2> QED
    BY <1>4, <2>2
<1> QED
  BY <1>2, <1>5

-----------------------------------------------------------------------------
(***************************************************************************)
(* The lead is worth what the buyer said.                                  *)
(***************************************************************************)
\* The utterance is evidence of the dimension, a feature it asks for of a requirement.
Gives(utterance, dimension) ==
  \/ dimension \in utterance.heard.evidence
  \/ /\ dimension = "requirement"
     /\ utterance.heard.candidates.requested_features # <<>>

Sayable == IF saying = <<>> THEN Utterances ELSE {Utterance(saying)}

\* The evidence is exactly what the turns gave, the class is that of the evidence or
\* the one an opt-out leaves, and nothing is known before the first turn.
Judged ==
  /\ Typing
  /\ live.turns = 0 => live.evidence = {} /\ live.recent = {}
  /\ \A e : e \in live.evidence <=> \E u \in Told : Gives(u, e)
  /\ "requested_features" \in DOMAIN live.facts => "requirement" \in live.evidence
  /\ live.turns > 0 => live.temperature \in {Temperature(live), "cold"}
  /\ live.turns > 0 /\ live.stopped /\ ~live.redirected => live.temperature = "cold"

LEMMA ToldIs == Told = {u \in Sayable : u.heard.normal \in live.recent /\ u.heard.signals = {}}
BY DEF Told, Sayable

\* Nobody without a commitment, a request or a next step is worth a warm lead.
LEMMA ColdOnRefusals ==
  ASSUME NEW c, c.evidence \in SUBSET {"rejection", "noneed"}
  PROVE  /\ Temperature(c) \in {"review", "cold"}
         /\ c.evidence = {} => Temperature(c) = "review"
<1>1. c.evidence \in SUBSET (DOMAIN Weight)
  BY WeightIs
<1>2. Score(c) = 35 + WrittenOut(c.evidence)
  BY <1>1, SumIs DEF Score
<1>3. /\ \A d \in DOMAIN Weight : d \notin {"rejection", "noneed"} => Worth(c.evidence, d) = 0
      /\ Worth(c.evidence, "rejection") \in {0, -70} /\ Worth(c.evidence, "noneed") \in {0, -50}
  BY WeightIs DEF Worth
<1>4. /\ Worth(c.evidence, "requirement") = 0 /\ Worth(c.evidence, "budget") = 0
      /\ Worth(c.evidence, "timeline") = 0 /\ Worth(c.evidence, "decision") = 0
      /\ Worth(c.evidence, "nextstep") = 0
  BY <1>3, WeightIs
<1>5. Score(c) \in Int /\ Score(c) =< 35
  BY <1>2, <1>3, <1>4 DEF WrittenOut
<1>6. ~Reaches(c, 75) /\ ~Reaches(c, 45)
  BY <1>5 DEF Reaches
<1> QED
  BY <1>6 DEF Temperature

\* What a turn makes of the evidence and of the facts.
LEMMA TurnGives ==
  ASSUME NEW c, DOMAIN c = Fields, NEW turn, NEW tilt,
         "requested_features" \in DOMAIN c.facts => "requirement" \in c.evidence
  PROVE  LET heard == turn.said.heard
             d == After(c, turn, heard, tilt)
             fresh == heard.signals = {} /\ heard.normal \notin c.recent
         IN  /\ d.recent = c.recent \cup {heard.normal} /\ d.turns = c.turns + 1
             /\ \A e : e \in d.evidence <=> e \in c.evidence \/ (fresh /\ Gives(turn.said, e))
             /\ "requested_features" \in DOMAIN d.facts => "requirement" \in d.evidence
<1> DEFINE heard == turn.said.heard
           b == Begun(c, turn, heard)
           e == Extracted(b, heard, tilt)
           told == IF heard.normal \in c.recent THEN b ELSE e
           p == Prepared(c, turn, heard, tilt)
           a == Answered(p, turn, heard)
           d == After(c, turn, heard, tilt)
<1>1. /\ Keeps(c, b, {"declared", "language", "pending", "count", "turns", "recent"})
      /\ b.turns = c.turns + 1 /\ b.recent = c.recent \cup {heard.normal}
  BY BegunKeeps
<1>2. Keeps(b, d, Turning)
  BY AfterKeeps
<1>3. DOMAIN told = Fields /\ Keeps(told, p, {"understood"})
  BY PreparedKeeps
<1>4. DOMAIN p = Fields
  BY <1>3 DEF Keeps
<1>5. Keeps(p, a, {"asked", "closings"})
  <2> HIDE DEF p
  <2> QED
    BY <1>4, AnsweredKeeps
<1>6. Keeps(a, Concluded(a), {"temperature", "phase"})
  <2>1. DOMAIN a = Fields
    BY <1>5 DEF Keeps
  <2> HIDE DEF a
  <2> QED
    BY <2>1, AnsweredKeeps
<1>7. /\ heard.signals = {} => d = Concluded(a)
      /\ heard.signals # {} => d \in {OptedOut(b), Abused(b), Classify(b)}
  BY DEF After, Discussed
<1>8. DOMAIN b = Fields /\ b.facts = c.facts /\ b.evidence = c.evidence
  <2> HIDE DEF b
  <2> QED
    BY <1>1 DEF Keeps, Fields
<1>9. /\ Keeps(b, OptedOut(b), {"stopped", "phase", "temperature"})
      /\ Keeps(b, Abused(b), {"stopped", "phase", "temperature", "redirected"})
      /\ Keeps(b, Classify(b), {"temperature"})
  BY <1>8, EndingsKeep
<1>10. e.facts = FactsOf(b, heard) /\ e.evidence = EvidenceOf(b, heard)
  BY <1>8, ExtractedKeeps
<1> HIDE DEF b, e, told, p, a, d, heard
<1>11. d.recent = c.recent \cup {heard.normal} /\ d.turns = c.turns + 1
  BY <1>1, <1>2 DEF Keeps, Fields, Turning
<1>12. CASE heard.signals # {}
  <2>1. d.evidence = c.evidence /\ d.facts = c.facts
    BY <1>7, <1>8, <1>9, <1>12 DEF Keeps, Fields
  <2> QED
    BY <1>11, <1>12, <2>1 DEF d, heard
<1>13. CASE heard.signals = {}
  <2>1. d.evidence = told.evidence /\ d.facts = told.facts
    BY <1>3, <1>5, <1>6, <1>7, <1>13 DEF Keeps, Fields
  <2>2. CASE heard.normal \in c.recent
    <3>1. d.evidence = c.evidence /\ d.facts = c.facts
      BY <1>8, <2>1, <2>2 DEF told
    <3> QED
      BY <1>11, <2>2, <3>1 DEF d, heard
  <2>3. CASE heard.normal \notin c.recent
    <3>1. d.evidence = EvidenceOf(b, heard) /\ d.facts = FactsOf(b, heard)
      BY <1>10, <2>1, <2>3 DEF told
    <3>2. "requested_features" \in Slots
      BY DEF Slots
    <3>3. "requested_features" \in News(b, heard)
            <=> /\ heard.candidates.requested_features # <<>>
                /\ "requested_features" \in DOMAIN c.facts =>
                     c.facts["requested_features"] # heard.candidates.requested_features
      BY <1>8, <3>2 DEF News
    <3>4. \A x : x \in d.evidence <=> x \in c.evidence \/ Gives(turn.said, x)
      BY <1>8, <3>1, <3>3 DEF EvidenceOf, Gives, heard
    <3>5. "requested_features" \in DOMAIN d.facts => "requirement" \in d.evidence
      <4>1. Taken(b, heard) \cap {"requested_features"} \subseteq News(b, heard)
        <5>1. \A i \in 1..Len(AskOrder) : AskOrder[i] \in News(b, heard) \ DOMAIN b.facts
                => AskOrder[i] \in News(b, heard)
          OBVIOUS
        <5> QED
          BY <5>1 DEF Taken, Accepted
      <4>2. DOMAIN d.facts = DOMAIN c.facts \cup Taken(b, heard)
        BY <1>8, <3>1 DEF FactsOf
      <4> QED
        BY <3>1, <3>4, <4>1, <4>2 DEF EvidenceOf
    <3> QED
      BY <1>11, <1>13, <2>3, <3>4, <3>5 DEF d, heard
  <2> QED
    BY <2>2, <2>3
<1> QED
  BY <1>12, <1>13

\* What a turn makes of the class.
LEMMA TurnJudges ==
  ASSUME NEW c, DOMAIN c = Fields, c.stopped = FALSE, NEW turn, NEW heard, NEW tilt
  PROVE  LET d == After(c, turn, heard, tilt)
         IN  /\ d.temperature \in {Temperature(d), "cold"}
             /\ d.stopped /\ ~d.redirected => d.temperature = "cold"
<1> DEFINE b == Begun(c, turn, heard)
           p == Prepared(c, turn, heard, tilt)
           a == Answered(p, turn, heard)
           d == After(c, turn, heard, tilt)
<1>1. ASSUME NEW x, NEW y, x.evidence = y.evidence, x.tilt = y.tilt
      PROVE  Temperature(x) = Temperature(y)
  BY <1>1 DEF Temperature, Reaches, Score
<1>2. ASSUME NEW x, DOMAIN x = Fields PROVE Classify(x).temperature = Temperature(Classify(x))
  <2>1. Keeps(x, Classify(x), {"temperature"}) /\ Classify(x).temperature = Temperature(x)
    BY <1>2, EndingsKeep
  <2>2. Classify(x).evidence = x.evidence /\ Classify(x).tilt = x.tilt
    BY <2>1 DEF Keeps, Fields
  <2> QED
    BY <1>1, <2>1, <2>2
<1>3. DOMAIN b = Fields /\ b.stopped = FALSE
  <2>1. Keeps(c, b, {"declared", "language", "pending", "count", "turns", "recent"})
    BY BegunKeeps
  <2> HIDE DEF b
  <2> QED
    BY <2>1 DEF Keeps, Fields
<1>4. /\ DOMAIN a = Fields /\ a.stopped = b.stopped
  <2>1. Keeps(b, p, {"facts", "changes", "evidence", "tilt", "understood"})
    BY PreparedKeeps
  <2>2. DOMAIN p = Fields
    BY <2>1 DEF Keeps
  <2> HIDE DEF p
  <2>3. Keeps(p, a, {"asked", "closings"})
    BY <2>2, AnsweredKeeps
  <2> HIDE DEF a, b
  <2> QED
    BY <2>1, <2>3 DEF Keeps, Fields
<1>5. \/ d = OptedOut(b)
      \/ d = Abused(b)
      \/ d = Classify(b)
      \/ d = Concluded(a)
  BY DEF After, Discussed
<1> HIDE DEF a, b, p, d
<1>6. CASE d = OptedOut(b)
  <2>1. d.temperature = "cold"
    BY <1>3, <1>6 DEF OptedOut, Fields
  <2> QED
    BY <2>1 DEF d
<1>7. CASE d = Abused(b)
  <2> DEFINE e == IF b.redirected THEN [b EXCEPT !.stopped = TRUE, !.phase = "closed"]
                  ELSE [b EXCEPT !.redirected = TRUE]
  <2>1. DOMAIN e = Fields /\ (e.stopped => e.redirected)
    BY <1>3 DEF Fields
  <2>2. d = Classify(e)
    BY <1>7 DEF Abused
  <2> HIDE DEF e
  <2>3. Keeps(e, d, {"temperature"})
    BY <2>1, <2>2, EndingsKeep
  <2>4. d.stopped = e.stopped /\ d.redirected = e.redirected
    BY <2>3 DEF Keeps, Fields
  <2> QED
    BY <1>2, <2>1, <2>2, <2>4 DEF d
<1>8. CASE d = Classify(b)
  <2>1. Keeps(b, d, {"temperature"})
    BY <1>3, <1>8, EndingsKeep
  <2>2. d.stopped = FALSE
    BY <1>3, <2>1 DEF Keeps, Fields
  <2> QED
    BY <1>2, <1>3, <1>8, <2>2 DEF d
<1>9. CASE d = Concluded(a)
  <2>1. Keeps(a, d, {"temperature", "phase"}) /\ d.temperature = Temperature(a)
    BY <1>4, <1>9, AnsweredKeeps
  <2>2. d.stopped = FALSE /\ d.evidence = a.evidence /\ d.tilt = a.tilt
    BY <1>3, <1>4, <2>1 DEF Keeps, Fields
  <2> QED
    BY <1>1, <2>1, <2>2 DEF d
<1> QED
  BY <1>5, <1>6, <1>7, <1>8, <1>9

LEMMA JudgedInitially == ConversationInit => Judged
<1> SUFFICES ASSUME ConversationInit PROVE Judged
  OBVIOUS
<1>1. live = Fresh
  BY DEF ConversationInit
<1>2. /\ Fresh.evidence = {} /\ Fresh.recent = {} /\ DOMAIN Fresh.facts = {} /\ Fresh.turns = 0
  BY DEF Fresh
<1>3. Told = {}
  BY <1>1, <1>2, ToldIs
<1> QED
  BY <1>1, <1>2, <1>3, TypingInitially DEF Judged

LEMMA JudgedTurn ==
  ASSUME ReadAlike, Judged, NEW turn \in Turns, NEW tilt \in {"up", "down"}, Turn(turn, tilt)
  PROVE  Judged'
<1> DEFINE heard == turn.said.heard
           fresh == heard.signals = {} /\ heard.normal \notin live.recent
<1>1. /\ live' = After(live, turn, heard, tilt) /\ live.stopped \in BOOLEAN /\ ~live.stopped
      /\ DOMAIN live = Fields /\ live.turns \in Nat /\ saying' = saying
  BY DEF Turn, Judged, Typing, Restoring, Sound
<1>2. Typing'
  <2>1. ConversationNext
    BY DEF ConversationNext
  <2> QED
    BY <2>1, TypingInductive DEF Judged
<1>3. /\ live'.recent = live.recent \cup {heard.normal} /\ live'.turns = live.turns + 1
      /\ \A e : e \in live'.evidence <=> e \in live.evidence \/ (fresh /\ Gives(turn.said, e))
      /\ "requested_features" \in DOMAIN live'.facts => "requirement" \in live'.evidence
  BY <1>1, TurnGives DEF Judged
<1>4. /\ live'.temperature \in {Temperature(live'), "cold"}
      /\ live'.stopped /\ ~live'.redirected => live'.temperature = "cold"
  BY <1>1, TurnJudges
<1>5. turn.said \in Sayable
  BY DEF Turns, Sayable
<1>6. \A u, v \in Sayable : u.heard.normal = v.heard.normal => u.heard = v.heard
  BY DEF Sayable, ReadAlike
<1>7. Sayable' = Sayable
  BY <1>1 DEF Sayable
<1>8. Told' = {u \in Sayable : u.heard.normal \in live'.recent /\ u.heard.signals = {}}
  BY <1>7 DEF Told, Sayable
<1>9. \A u \in Told : u \in Told'
  BY <1>3, <1>8, ToldIs
<1>10. fresh => turn.said \in Told'
  BY <1>3, <1>5, <1>8
<1>11. ASSUME NEW u \in Told' PROVE u \in Told \/ (fresh /\ u.heard = heard)
  BY <1>3, <1>5, <1>6, <1>8, <1>11, ToldIs
<1>12. \A e : e \in live'.evidence <=> \E u \in Told' : Gives(u, e)
  <2>1. ASSUME NEW e, e \in live'.evidence PROVE \E u \in Told' : Gives(u, e)
    <3>1. CASE e \in live.evidence
      BY <1>9, <3>1 DEF Judged
    <3>2. CASE fresh /\ Gives(turn.said, e)
      BY <1>10, <3>2
    <3> QED
      BY <1>3, <2>1, <3>1, <3>2
  <2>2. ASSUME NEW e, NEW u \in Told', Gives(u, e) PROVE e \in live'.evidence
    <3>1. CASE u \in Told
      BY <1>3, <2>2, <3>1 DEF Judged
    <3>2. CASE fresh /\ u.heard = heard
      <4>1. Gives(turn.said, e)
        BY <2>2, <3>2 DEF Gives
      <4> QED
        BY <1>3, <3>2, <4>1
    <3> QED
      BY <1>11, <3>1, <3>2
  <2> QED
    BY <2>1, <2>2
<1>13. live'.turns # 0
  BY <1>1, <1>3
<1> QED
  BY <1>2, <1>3, <1>4, <1>12, <1>13 DEF Judged

LEMMA JudgedInductive ==
  ASSUME ReadAlike, Judged, [ConversationNext]_conversationVars
  PROVE  Judged'
<1>1. Typing'
  BY TypingInductive DEF Judged
<1>2. ASSUME NEW word \in Alphabet, Dictate(word) PROVE Judged'
  <2>1. live' = live /\ live.turns = 0
    BY <1>2 DEF Dictate
  <2>2. Told' = {} /\ Told = {}
    BY <2>1 DEF Told, Judged
  <2> QED
    BY <1>1, <2>1, <2>2 DEF Judged
<1>3. CASE Restart
  <2>1. live' = Restored(live) /\ saying' = saying
    BY <1>3 DEF Restart
  <2>2. Keeps(live, live', Transient)
    BY <2>1, RestoredKeeps DEF Judged, Typing, Restoring, Sound
  <2>3. /\ live'.recent = live.recent /\ live'.evidence = live.evidence /\ live'.turns = live.turns
        /\ live'.temperature = live.temperature /\ live'.tilt = live.tilt
        /\ live'.facts = live.facts /\ live'.stopped = live.stopped
        /\ live'.redirected = live.redirected
    BY <2>2 DEF Keeps, Fields, Transient
  <2>4. Temperature(live') = Temperature(live)
    BY <2>3 DEF Temperature, Reaches, Score
  <2>5. Told' = Told
    BY <2>1, <2>3 DEF Told
  <2> QED
    BY <1>1, <2>3, <2>4, <2>5 DEF Judged
<1>4. CASE UNCHANGED conversationVars
  <2>1. live' = live /\ saying' = saying
    BY <1>4 DEF conversationVars
  <2>2. Told' = Told
    BY <2>1 DEF Told
  <2> QED
    BY <1>1, <2>1, <2>2 DEF Judged
<1> QED
  BY <1>2, <1>3, <1>4, JudgedTurn DEF ConversationNext

\* Evidence that is no refusal was wanted by a clause.
LEMMA GivenIsWanted ==
  ASSUME NEW text, NEW e \in DOMAIN Weight \ {"rejection", "noneed"}, Gives(Utterance(text), e)
  PROVE  Wants(text)
<1>1. /\ Utterance(text).heard.evidence = Evidence(text, FALSE)
      /\ Utterance(text).heard.candidates = Candidates(text)
  <2>1. Read(text).evidence = Evidence(text, FALSE) /\ Read(text).candidates = Candidates(text)
    BY DEF Read
  <2>2. Utterance(text).heard = Read(text)
    BY DEF Utterance
  <2> QED
    BY <2>1, <2>2
<1>2. CASE e \in Evidence(text, FALSE)
  <2>1. DOMAIN NegativeEvidence = {"rejection", "noneed"}
    BY DEF NegativeEvidence
  <2>2. PICK d \in DOMAIN PositiveEvidence, clause \in CommittingClauses(text) :
          Says(clause, PositiveEvidence[d])
    BY <1>2, <2>1 DEF Evidence
  <2>3. /\ clause \in BusinessClauses(text)
        /\ ~Says(clause, RefusalCues \cup ThirdPartyCues \cup PastStateCues)
    BY DEF CommittingClauses
  <2>4. ~Says(clause, RefusalCues \cup ThirdPartyCues)
    BY <2>3 DEF Says
  <2> QED
    BY <2>2, <2>3, <2>4 DEF Wants
<1>3. CASE Candidates(text).requested_features # <<>>
  <2>1. PICK f \in DOMAIN Features, clause \in RequestingClauses(text) : Says(clause, Features[f])
    <3> DEFINE features == {name \in DOMAIN Features :
                              \E clause \in RequestingClauses(text) : Says(clause, Features[name])}
    <3>1. Candidates(text).requested_features = IF features = {} THEN <<>> ELSE <<features>>
      BY DEF Candidates
    <3>2. features # {}
      BY <1>3, <3>1
    <3> QED
      BY <3>2
  <2>2. clause \in BusinessClauses(text) /\ ~Says(clause, RefusalCues) /\ ~Says(clause, ThirdPartyCues)
    BY DEF RequestingClauses
  <2>3. ~Says(clause, RefusalCues \cup ThirdPartyCues)
    BY <2>2 DEF Says
  <2> QED
    BY <2>1, <2>2, <2>3 DEF Wants
<1> QED
  BY <1>1, <1>2, <1>3 DEF Gives

\* Whatever is said, in any number of turns and across restarts, the lead is worth
\* what the buyer said, where texts of the same words are read the same.
THEOREM WorthWhatWasSaid ==
  ASSUME ReadAlike
  PROVE  ConversationSpec => []ClassifiedAsSaid
<1>1. Judged => ClassifiedAsSaid
  <2> SUFFICES ASSUME Judged, live.turns > 0 PROVE ClassifiedAsSaid
    BY DEF ClassifiedAsSaid
  <2> DEFINE silent == \A u \in Told : /\ u.heard.evidence = {}
                                       /\ u.heard.candidates.requested_features = <<>>
  <2>1. silent <=> live.evidence = {}
    BY DEF Judged, Gives
  <2>2. live.temperature \in {Temperature(live), "cold"}
    BY DEF Judged
  <2>3. Temperature(live) \in {"review", "cold", "warm", "hot"}
        /\ (Temperature(live) = "review" <=> live.evidence = {})
    <3>1. CASE live.evidence = {}
      <4>1. Temperature(live) = "review"
        BY <3>1, ColdOnRefusals
      <4> QED
        BY <3>1, <4>1
    <3>2. CASE live.evidence # {}
      <4>1. Temperature(live) \in {"cold", "warm", "hot"}
        BY <3>2 DEF Temperature
      <4> QED
        BY <3>2, <4>1
    <3> QED
      BY <3>1, <3>2
  <2>4. ASSUME live.temperature \in {"warm", "hot"} PROVE \E u \in Told : Wants(u.text)
    <3>1. Temperature(live) \in {"warm", "hot"}
      BY <2>2, <2>4
    <3>2. live.evidence \in SUBSET (DOMAIN Weight)
      BY FieldsTyped DEF Judged, Typing, ConversationTypeOK
    <3>3. PICK e \in live.evidence : e \notin {"rejection", "noneed"}
      BY <3>1, ColdOnRefusals
    <3>4. PICK u \in Told : Gives(u, e)
      BY DEF Judged
    <3>5. PICK text : u = Utterance(text)
      BY DEF Told, Utterances
    <3>6. Wants(text)
      BY <3>2, <3>3, <3>4, <3>5, GivenIsWanted
    <3>7. u.text = text
      BY <3>5 DEF Utterance
    <3> QED
      BY <3>6, <3>7
  <2>5. WorthOf(Told)
    BY <2>1, <2>2, <2>3, <2>4 DEF WorthOf
  <2> QED
    BY <2>5 DEF Judged, ClassifiedAsSaid
<1>2. Judged /\ [ConversationNext]_conversationVars => Judged'
  BY JudgedInductive
<1> QED
  BY <1>1, <1>2, JudgedInitially, PTL DEF ConversationSpec

-----------------------------------------------------------------------------
(***************************************************************************)
(* Texts put together.  A text with a barrier is a shorter text, the       *)
(* barrier and another one; a text without is its only clause.             *)
(***************************************************************************)
Joined(u, v) == u \o <<Barrier>> \o v
Whole(text) == \A i \in 1..Len(text) : text[i] # Barrier

LEMMA JoinedWords ==
  ASSUME NEW T, Barrier \in T, NEW u \in Seq(T), NEW v \in Seq(T)
  PROVE  /\ Joined(u, v) \in Seq(T)
         /\ Len(u) \in Nat /\ Len(v) \in Nat
         /\ Len(Joined(u, v)) = Len(u) + 1 + Len(v)
         /\ \A i \in 1..Len(u) : Joined(u, v)[i] = u[i]
         /\ Joined(u, v)[Len(u) + 1] = Barrier
         /\ \A i \in 1..Len(v) : Joined(u, v)[Len(u) + 1 + i] = v[i]
<1> DEFINE w == u \o <<Barrier>>
<1>1. w \in Seq(T) /\ Len(w) = Len(u) + 1 /\ \A i \in 1..Len(u) : w[i] = u[i]
  OBVIOUS
<1>2. w[Len(u) + 1] = Barrier
  OBVIOUS
<1>3. Len(u) \in Nat /\ Len(v) \in Nat
  OBVIOUS
<1> HIDE DEF w
<1>4. /\ w \o v \in Seq(T) /\ Len(w \o v) = Len(w) + Len(v)
      /\ \A i \in 1..Len(w) : (w \o v)[i] = w[i]
      /\ \A i \in 1..Len(v) : (w \o v)[Len(w) + i] = v[i]
  BY <1>1
<1>5. Joined(u, v) = w \o v
  BY DEF Joined, w
<1> QED
  BY <1>1, <1>2, <1>3, <1>4, <1>5

\* Two texts are one if they are it word by word.
LEMMA SameWords ==
  ASSUME NEW T, NEW a \in Seq(T), NEW b \in Seq(T), Len(a) = Len(b),
         \A i \in 1..Len(a) : a[i] = b[i]
  PROVE  a = b
BY SeqEqual

LEMMA SplitText ==
  ASSUME NEW T, Barrier \in T, NEW text \in Seq(T), ~Whole(text)
  PROVE  \E u, v \in Seq(T) : /\ text = Joined(u, v)
                              /\ Len(u) < Len(text) /\ Len(v) < Len(text)
<1>1. PICK i \in 1..Len(text) : text[i] = Barrier
  BY DEF Whole
<1> DEFINE u == SubSeq(text, 1, i - 1)
           v == SubSeq(text, i + 1, Len(text))
<1>2. Len(text) \in Nat /\ i \in Nat /\ 1 =< i /\ i =< Len(text) /\ \A j \in 1..Len(text) : text[j] \in T
  BY <1>1
<1>3. /\ u \in Seq(T) /\ Len(u) = i - 1
      /\ \A j \in 1..i - 1 : u[j] = text[j]
  <2>1. /\ u \in Seq(T) /\ Len(u) = IF 1 =< i - 1 THEN i - 1 - 1 + 1 ELSE 0
        /\ \A j \in 1..i - 1 - 1 + 1 : u[j] = text[1 + j - 1]
    <3>1. \A j \in 1..(i - 1) : text[j] \in T
      BY <1>2
    <3> QED
      BY <1>2, <3>1, SubSeqProperties
  <2> HIDE DEF u
  <2> QED
    BY <1>2, <2>1
<1>4. /\ v \in Seq(T) /\ Len(v) = Len(text) - i
      /\ \A j \in 1..Len(text) - i : v[j] = text[i + j]
  <2>1. /\ v \in Seq(T) /\ Len(v) = IF i + 1 =< Len(text) THEN Len(text) - (i + 1) + 1 ELSE 0
        /\ \A j \in 1..Len(text) - (i + 1) + 1 : v[j] = text[i + 1 + j - 1]
    <3>1. \A j \in (i + 1)..Len(text) : text[j] \in T
      BY <1>2
    <3> QED
      BY <1>2, <3>1, SubSeqProperties
  <2> HIDE DEF v
  <2> QED
    BY <1>2, <2>1
<1> HIDE DEF u, v
<1>5. /\ Joined(u, v) \in Seq(T) /\ Len(Joined(u, v)) = Len(text)
      /\ \A j \in 1..(i - 1) : Joined(u, v)[j] = text[j]
      /\ Joined(u, v)[i] = text[i]
      /\ \A j \in 1..Len(text) - i : Joined(u, v)[i + j] = text[i + j]
  <2> DEFINE j == Joined(u, v)
  <2>1. /\ j \in Seq(T) /\ Len(j) = Len(u) + 1 + Len(v)
        /\ \A k \in 1..Len(u) : j[k] = u[k]
        /\ j[Len(u) + 1] = Barrier
        /\ \A k \in 1..Len(v) : j[Len(u) + 1 + k] = v[k]
    <3>0. u \in Seq(T) /\ v \in Seq(T)
      BY <1>3, <1>4
    <3>1. j \in Seq(T) /\ Len(j) = Len(u) + 1 + Len(v)
      BY <3>0, JoinedWords
    <3>2. j[Len(u) + 1] = Barrier /\ \A k \in 1..Len(u) : j[k] = u[k]
      BY <3>0, JoinedWords
    <3>3. \A k \in 1..Len(v) : j[Len(u) + 1 + k] = v[k]
      BY <3>0, JoinedWords
    <3> QED
      BY <3>1, <3>2, <3>3
  <2>2. Len(u) + 1 = i /\ Len(v) = Len(text) - i
    BY <1>2, <1>3, <1>4
  <2> HIDE DEF j
  <2>3. /\ Len(j) = Len(text) /\ j[i] = text[i]
        /\ \A k \in 1..(i - 1) : j[k] = text[k]
    <3>1. Len(u) = i - 1 /\ Len(u) + 1 + Len(v) = Len(text)
      BY <1>2, <1>3, <2>2
    <3> QED
      BY <1>1, <1>3, <2>1, <2>2, <3>1
  <2>4. \A k \in 1..Len(text) - i : j[i + k] = text[i + k]
    BY <1>2, <1>4, <2>1, <2>2
  <2> QED
    BY <2>1, <2>3, <2>4 DEF j
<1>6. ASSUME NEW k \in 1..Len(text) PROVE Joined(u, v)[k] = text[k]
  <2>1. CASE k < i
    BY <1>2, <1>5, <2>1
  <2>2. CASE k = i
    BY <1>5, <2>2
  <2>3. CASE k > i
    <3>1. k - i \in 1..Len(text) - i /\ i + (k - i) = k
      BY <1>2, <2>3
    <3> QED
      BY <1>5, <3>1
  <2> QED
    BY <1>2, <2>1, <2>2, <2>3
<1>7. text = Joined(u, v)
  BY <1>5, <1>6, SameWords
<1>8. u \in Seq(T) /\ v \in Seq(T)
  BY <1>3, <1>4
<1>9. Len(u) < Len(text) /\ Len(v) < Len(text)
  BY <1>2, <1>3, <1>4
<1> QED
  BY <1>7, <1>8, <1>9

LEMMA ClausesOfWhole ==
  ASSUME NEW T, NEW text \in Seq(T), Whole(text)
  PROVE  \A c : c \in Clauses(text) <=> c = text /\ text # <<>>
<1> DEFINE n == Len(text)
<1>1. n \in Nat /\ (text # <<>> <=> n >= 1)
  BY EmptySeq
<1>2. ASSUME NEW p, NEW q, Bounds(text, p, q) PROVE p = 1 /\ q = n /\ n >= 1
  <2>1. /\ p \in 1..n /\ q \in 1..n /\ (p > 1 => text[p - 1] = Barrier)
        /\ (q < n => text[q + 1] = Barrier)
    BY <1>2 DEF Bounds
  <2>2. ~(p > 1)
    <3>1. p > 1 => p - 1 \in 1..n
      BY <1>1, <2>1
    <3> QED
      BY <2>1, <3>1 DEF Whole
  <2>3. ~(q < n)
    <3>1. q < n => q + 1 \in 1..n
      BY <1>1, <2>1
    <3> QED
      BY <2>1, <3>1 DEF Whole
  <2> QED
    BY <1>1, <2>1, <2>2, <2>3
<1>3. n >= 1 => Bounds(text, 1, n)
  <2>1. n >= 1 => 1 \in 1..n /\ n \in 1..n
    BY <1>1
  <2> QED
    BY <1>1, <2>1 DEF Bounds, Whole
<1>4. n >= 1 => SubSeq(text, 1, n) = text
  <2> SUFFICES ASSUME n >= 1 PROVE SubSeq(text, 1, n) = text
    OBVIOUS
  <2>1. /\ SubSeq(text, 1, n) \in Seq(T) /\ Len(SubSeq(text, 1, n)) = n - 1 + 1
        /\ \A i \in 1..n : SubSeq(text, 1, n)[i - 1 + 1] = text[i]
    BY <1>3, ClauseWords
  <2>2. Len(SubSeq(text, 1, n)) = n /\ \A i \in 1..n : SubSeq(text, 1, n)[i] = text[i]
    BY <1>1, <2>1
  <2> QED
    BY <2>1, <2>2, SameWords
<1>5. n >= 1 => 1 \in 1..n /\ n \in 1..n
  BY <1>1
<1> QED
  BY <1>1, <1>2, <1>3, <1>4, <1>5, ClausesBounded

\* The words of two texts are the same over a stretch: so is what stands there.
LEMMA SameStretch ==
  ASSUME NEW T, NEW a \in Seq(T), NEW b \in Seq(T), NEW d \in Nat,
         NEW p \in Nat, NEW q \in Nat, 1 =< p, p =< q, q =< Len(a), q + d =< Len(b),
         \A k \in p..q : b[k + d] = a[k]
  PROVE  SubSeq(a, p, q) = SubSeq(b, p + d, q + d)
<1> DEFINE x == SubSeq(a, p, q)
           y == SubSeq(b, p + d, q + d)
<1>1. Len(a) \in Nat /\ Len(b) \in Nat
  OBVIOUS
<1>2. /\ x \in Seq(T) /\ Len(x) = q - p + 1
      /\ \A j \in 1..q - p + 1 : x[j] = a[p + j - 1]
  <2>1. /\ x \in Seq(T) /\ Len(x) = IF p =< q THEN q - p + 1 ELSE 0
        /\ \A j \in 1..q - p + 1 : x[j] = a[p + j - 1]
    <3>1. \A j \in p..q : a[j] \in T
      BY <1>1
    <3> QED
      BY <1>1, <3>1, SubSeqProperties
  <2> HIDE DEF x
  <2> QED
    BY <2>1
<1>3. /\ y \in Seq(T) /\ Len(y) = q - p + 1
      /\ \A j \in 1..q - p + 1 : y[j] = b[p + d + j - 1]
  <2>1. /\ y \in Seq(T) /\ Len(y) = IF p + d =< q + d THEN (q + d) - (p + d) + 1 ELSE 0
        /\ \A j \in 1..(q + d) - (p + d) + 1 : y[j] = b[(p + d) + j - 1]
    <3>1. \A j \in (p + d)..(q + d) : b[j] \in T
      BY <1>1
    <3> QED
      BY <1>1, <3>1, SubSeqProperties
  <2> HIDE DEF y
  <2>2. (q + d) - (p + d) + 1 = q - p + 1 /\ p + d =< q + d
    OBVIOUS
  <2> QED
    BY <2>1, <2>2
<1> HIDE DEF x, y
<1>4. ASSUME NEW j \in 1..Len(x) PROVE x[j] = y[j]
  <2>1. p + j - 1 \in p..q /\ (p + j - 1) + d = p + d + j - 1
    BY <1>2
  <2> QED
    BY <1>2, <1>3, <2>1
<1>5. x = y
  BY <1>2, <1>3, <1>4, SameWords
<1> QED
  BY <1>5 DEF x, y

LEMMA ClausesOfJoined ==
  ASSUME NEW T, Barrier \in T, NEW u \in Seq(T), NEW v \in Seq(T)
  PROVE  Clauses(Joined(u, v)) = Clauses(u) \cup Clauses(v)
<1> DEFINE t == Joined(u, v)
           m == Len(u)
           n == Len(v)
<1>1. /\ t \in Seq(T) /\ m \in Nat /\ n \in Nat /\ Len(t) = m + 1 + n
      /\ \A i \in 1..m : t[i] = u[i]
      /\ t[m + 1] = Barrier
      /\ \A i \in 1..n : t[m + 1 + i] = v[i]
  <2>1. t \in Seq(T) /\ m \in Nat /\ n \in Nat /\ Len(t) = m + 1 + n
    BY JoinedWords
  <2>2. t[m + 1] = Barrier /\ \A i \in 1..m : t[i] = u[i]
    BY JoinedWords
  <2>3. \A i \in 1..n : t[m + 1 + i] = v[i]
    BY JoinedWords
  <2> QED
    BY <2>1, <2>2, <2>3
<1> HIDE DEF t, m, n
<1>2. ASSUME NEW p \in 1..m, NEW q \in 1..m, p =< q
      PROVE  /\ Bounds(t, p, q) <=> Bounds(u, p, q)
             /\ SubSeq(t, p, q) = SubSeq(u, p, q)
  <2>1. \A k \in p..q : k \in 1..m
    BY <1>1
  <2>2. /\ p > 1 => p - 1 \in 1..m
        /\ q < m => q + 1 \in 1..m
        /\ ~(q < m) => q + 1 = m + 1
        /\ q < Len(t) /\ p \in 1..Len(t) /\ q \in 1..Len(t)
    BY <1>1, <1>2
  <2>3. Bounds(t, p, q) <=> Bounds(u, p, q)
    BY <1>1, <1>2, <2>1, <2>2 DEF Bounds, m
  <2>4. SubSeq(u, p, q) = SubSeq(t, p + 0, q + 0)
    <3>1. \A k \in p..q : t[k + 0] = u[k]
      BY <1>1, <2>1
    <3>2. q + 0 =< Len(t) /\ q =< Len(u) /\ 1 =< p /\ p \in Nat /\ q \in Nat
      BY <1>1, <2>2 DEF m
    <3> QED
      BY <1>1, <1>2, <3>1, <3>2, SameStretch
  <2>5. p + 0 = p /\ q + 0 = q
    BY <1>1
  <2> QED
    BY <2>3, <2>4, <2>5
<1>3. ASSUME NEW p \in 1..n, NEW q \in 1..n, p =< q
      PROVE  /\ Bounds(t, p + (m + 1), q + (m + 1)) <=> Bounds(v, p, q)
             /\ SubSeq(t, p + (m + 1), q + (m + 1)) = SubSeq(v, p, q)
  <2>1. \A k \in p..q : k \in 1..n /\ t[k + (m + 1)] = v[k]
    <3>1. \A k \in p..q : k \in 1..n /\ k + (m + 1) = m + 1 + k
      BY <1>1
    <3> QED
      BY <1>1, <3>1
  <2> DEFINE a == p + (m + 1)
             b == q + (m + 1)
  <2>2. /\ a \in 1..Len(t) /\ b \in 1..Len(t) /\ a =< b /\ a > 1
        /\ b < Len(t) <=> q < n
    BY <1>1, <1>3
  <2>3. (\A k \in a..b : t[k] # Barrier) <=> \A k \in p..q : v[k] # Barrier
    <3>1. \A k \in a..b : k - (m + 1) \in p..q /\ (k - (m + 1)) + (m + 1) = k
      BY <1>1
    <3>2. \A k \in p..q : k + (m + 1) \in a..b
      BY <1>1
    <3> QED
      BY <2>1, <3>1, <3>2
  <2>4. (a > 1 => t[a - 1] = Barrier) <=> (p > 1 => v[p - 1] = Barrier)
    <3>1. CASE p = 1
      <4>1. a - 1 = m + 1 /\ ~(p > 1)
        BY <1>1, <3>1
      <4> HIDE DEF a
      <4> QED
        BY <1>1, <4>1
    <3>2. CASE p > 1
      <4>1. a - 1 = m + 1 + (p - 1) /\ p - 1 \in 1..n /\ a > 1
        BY <1>1, <3>2
      <4> HIDE DEF a
      <4> QED
        BY <1>1, <3>2, <4>1
    <3> QED
      BY <1>1, <3>1, <3>2
  <2>6. (b < Len(t) => t[b + 1] = Barrier) <=> (q < n => v[q + 1] = Barrier)
    <3>1. q < n => b + 1 = m + 1 + (q + 1) /\ q + 1 \in 1..n
      BY <1>1
    <3>2. b < Len(t) <=> q < n
      BY <2>2
    <3> HIDE DEF b
    <3>3. q < n => t[b + 1] = v[q + 1]
      BY <1>1, <3>1
    <3> QED
      BY <3>2, <3>3
  <2>7. Bounds(t, a, b) <=> Bounds(v, p, q)
    <3> HIDE DEF a, b
    <3> QED
      BY <1>3, <2>2, <2>3, <2>4, <2>6 DEF Bounds, n
  <2>5. SubSeq(v, p, q) = SubSeq(t, p + (m + 1), q + (m + 1))
    <3>1. q + (m + 1) =< Len(t) /\ q =< Len(v) /\ 1 =< p /\ p \in Nat /\ q \in Nat /\ m + 1 \in Nat
      BY <1>1, <2>2 DEF n
    <3> QED
      BY <1>1, <1>3, <2>1, <3>1, SameStretch
  <2> QED
    BY <2>5, <2>7
<1>4. ASSUME NEW p, NEW q, Bounds(t, p, q)
      PROVE  \/ p \in 1..m /\ q \in 1..m
             \/ p - (m + 1) \in 1..n /\ q - (m + 1) \in 1..n
  <2>1. p \in 1..(m + 1 + n) /\ q \in 1..(m + 1 + n) /\ p =< q /\ m + 1 \notin p..q
    BY <1>1, <1>4 DEF Bounds
  <2> QED
    BY <1>1, <2>1
<1>5. ASSUME NEW c \in Clauses(t) PROVE c \in Clauses(u) \cup Clauses(v)
  <2>1. PICK p, q \in 1..Len(t) : Bounds(t, p, q) /\ c = SubSeq(t, p, q)
    BY ClausesBounded
  <2>2. p =< q
    BY <2>1 DEF Bounds
  <2>3. CASE p \in 1..m /\ q \in 1..m
    <3>1. Bounds(u, p, q) /\ c = SubSeq(u, p, q)
      BY <1>2, <2>1, <2>2, <2>3
    <3>2. c \in Clauses(u)
      BY <2>3, <3>1, ClausesBounded DEF m
    <3> QED
      BY <3>2
  <2>4. CASE p - (m + 1) \in 1..n /\ q - (m + 1) \in 1..n
    <3> DEFINE p1 == p - (m + 1)
               q1 == q - (m + 1)
    <3>1. p1 \in 1..n /\ q1 \in 1..n /\ p1 =< q1 /\ p1 + (m + 1) = p /\ q1 + (m + 1) = q
      BY <1>1, <2>1, <2>2, <2>4
    <3> HIDE DEF p1, q1
    <3>2. Bounds(v, p1, q1) /\ c = SubSeq(v, p1, q1)
      BY <1>3, <2>1, <3>1
    <3>3. c \in Clauses(v)
      BY <3>1, <3>2, ClausesBounded DEF n
    <3> QED
      BY <3>3
  <2> QED
    BY <1>4, <2>1, <2>3, <2>4
<1>6. ASSUME NEW c \in Clauses(u) PROVE c \in Clauses(t)
  <2>1. PICK p, q \in 1..Len(u) : Bounds(u, p, q) /\ c = SubSeq(u, p, q)
    BY ClausesBounded
  <2>2. p =< q /\ p \in 1..m /\ q \in 1..m
    BY <2>1 DEF Bounds, m
  <2>3. Bounds(t, p, q) /\ c = SubSeq(t, p, q) /\ p \in 1..Len(t) /\ q \in 1..Len(t)
    BY <1>2, <2>1, <2>2 DEF Bounds
  <2> QED
    BY <2>3, ClausesBounded
<1>7. ASSUME NEW c \in Clauses(v) PROVE c \in Clauses(t)
  <2>1. PICK p, q \in 1..Len(v) : Bounds(v, p, q) /\ c = SubSeq(v, p, q)
    BY ClausesBounded
  <2>2. p =< q /\ p \in 1..n /\ q \in 1..n
    BY <2>1 DEF Bounds, n
  <2> DEFINE a == p + (m + 1)
             b == q + (m + 1)
  <2>3. Bounds(t, a, b) /\ c = SubSeq(t, a, b)
    BY <1>3, <2>1, <2>2
  <2> HIDE DEF a, b
  <2>4. a \in 1..Len(t) /\ b \in 1..Len(t)
    BY <2>3 DEF Bounds
  <2> QED
    BY <2>3, <2>4, ClausesBounded
<1>8. Clauses(t) = Clauses(u) \cup Clauses(v)
  BY <1>5, <1>6, <1>7
<1> QED
  BY <1>8 DEF t

-----------------------------------------------------------------------------
(***************************************************************************)
(* A way of reading a text that reads what is around a barrier apart.      *)
(***************************************************************************)
Separates(r, T) ==
  /\ r \in [Seq(T) -> Seq(T)]
  /\ r[<<>>] = <<>>
  /\ \A text \in Seq(T) : Whole(text) => Whole(r[text])
  /\ \A u, v \in Seq(T) : r[Joined(u, v)] = Joined(r[u], r[v])

\* The clauses of what is read are what is read of the clauses.
ReadsByClause(r, text) == Clauses(r[text]) = {r[c] : c \in Clauses(text)} \ {<<>>}

LEMMA ClausesRead ==
  ASSUME NEW T, Barrier \in T, NEW r, Separates(r, T), NEW text \in Seq(T)
  PROVE  ReadsByClause(r, text)
<1> DEFINE Right(t) == Clauses(r[t]) = {r[c] : c \in Clauses(t)} \ {<<>>}
           Wrong == {n \in Nat : \E t \in Seq(T) : Len(t) = n /\ ~Right(t)}
<1>1. ASSUME NEW t \in Seq(T), Whole(t) PROVE Right(t)
  <2>1. r[t] \in Seq(T) /\ Whole(r[t]) /\ r[<<>>] = <<>>
    BY <1>1 DEF Separates
  <2>2. \A c : c \in Clauses(t) <=> c = t /\ t # <<>>
    BY <1>1, ClausesOfWhole
  <2>3. \A c : c \in Clauses(r[t]) <=> c = r[t] /\ r[t] # <<>>
    BY <2>1, ClausesOfWhole
  <2> QED
    BY <2>1, <2>2, <2>3
<1>2. ASSUME NEW u \in Seq(T), NEW v \in Seq(T), Right(u), Right(v) PROVE Right(Joined(u, v))
  <2>1. r[u] \in Seq(T) /\ r[v] \in Seq(T) /\ r[Joined(u, v)] = Joined(r[u], r[v])
    BY DEF Separates
  <2>2. Clauses(r[Joined(u, v)]) = Clauses(r[u]) \cup Clauses(r[v])
    BY <2>1, ClausesOfJoined
  <2>3. Clauses(Joined(u, v)) = Clauses(u) \cup Clauses(v)
    BY ClausesOfJoined
  <2> QED
    BY <1>2, <2>2, <2>3
<1> HIDE DEF Right
<1>3. Wrong = {}
  <2> SUFFICES ASSUME Wrong # {} PROVE FALSE
    OBVIOUS
  <2>1. PICK n \in Wrong : \A m \in Wrong : n =< m
    <3>1. Wrong \in SUBSET Nat
      OBVIOUS
    <3> HIDE DEF Wrong
    <3> QED
      BY <3>1, LeastNatural
  <2>2. PICK t \in Seq(T) : Len(t) = n /\ ~Right(t)
    OBVIOUS
  <2>3. PICK u, v \in Seq(T) : t = Joined(u, v) /\ Len(u) < Len(t) /\ Len(v) < Len(t)
    BY <1>1, <2>2, SplitText
  <2>4. Len(u) \in Nat /\ Len(v) \in Nat /\ n \in Nat
    OBVIOUS
  <2>5. Right(u) /\ Right(v)
    BY <2>1, <2>2, <2>3, <2>4
  <2> QED
    BY <1>2, <2>2, <2>3, <2>5
<1>4. Right(text)
  <2>1. Len(text) \in Nat
    OBVIOUS
  <2> QED
    BY <1>3, <2>1
<1> QED
  BY <1>4 DEF Right, ReadsByClause

\* One way of reading after another.
LEMMA SeparatesTwice ==
  ASSUME NEW T, Barrier \in T, NEW r, Separates(r, T), NEW q, Separates(q, T)
  PROVE  Separates([text \in Seq(T) |-> q[r[text]]], T)
<1> DEFINE s == [text \in Seq(T) |-> q[r[text]]]
<1>1. \A text \in Seq(T) : r[text] \in Seq(T) /\ q[text] \in Seq(T) /\ s[text] = q[r[text]]
  BY DEF Separates
<1>2. s \in [Seq(T) -> Seq(T)]
  BY <1>1
<1>3. <<>> \in Seq(T) /\ \A u, v \in Seq(T) : Joined(u, v) \in Seq(T)
  BY JoinedWords
<1> HIDE DEF s
<1>4. s[<<>>] = <<>>
  BY <1>1, <1>3 DEF Separates
<1>5. \A text \in Seq(T) : Whole(text) => Whole(s[text])
  BY <1>1 DEF Separates
<1>6. \A u, v \in Seq(T) : s[Joined(u, v)] = Joined(s[u], s[v])
  BY <1>1, <1>3 DEF Separates
<1>7. Separates(s, T)
  BY <1>2, <1>4, <1>5, <1>6 DEF Separates
<1> QED
  BY <1>7 DEF s

-----------------------------------------------------------------------------
(***************************************************************************)
(* Readings that go through a text word by word.  Each is a recursive      *)
(* function on the length of what has been read.                           *)
(***************************************************************************)
Follows(g, a, F, N, V) ==
  /\ g \in [0..N -> V]
  /\ g[0] = a
  /\ \A i \in 1..N : g[i] = F[<<g[i - 1], i>>]

LEMMA RunExists ==
  ASSUME NEW V, NEW a \in V, NEW N \in Nat, NEW F \in [V \X (1..N) -> V]
  PROVE  \E g : Follows(g, a, F, N, V)
<1> DEFINE Wrong == {n \in 0..N : ~ \E g : Follows(g, a, F, n, V)}
<1> SUFFICES ASSUME Wrong # {} PROVE FALSE
  <2>1. N \in 0..N
    OBVIOUS
  <2> QED
    BY <2>1
<1>1. PICK n \in Wrong : \A m \in Wrong : n =< m
  <2>1. Wrong \in SUBSET Nat
    OBVIOUS
  <2> HIDE DEF Wrong
  <2> QED
    BY <2>1, LeastNatural
<1>2. n \in 0..N /\ ~ \E g : Follows(g, a, F, n, V)
  OBVIOUS
<1>3. CASE n = 0
  <2>1. Follows([i \in 0..0 |-> a], a, F, 0, V)
    BY DEF Follows
  <2> QED
    BY <1>2, <1>3, <2>1
<1>4. CASE n # 0
  <2>1. n - 1 \in 0..N /\ n - 1 \notin Wrong
    <3>1. n - 1 \in 0..N /\ ~(n =< n - 1)
      BY <1>2, <1>4
    <3> HIDE DEF Wrong
    <3> QED
      BY <1>1, <3>1
  <2>2. PICK g : Follows(g, a, F, n - 1, V)
    BY <2>1
  <2> DEFINE longer == [i \in 0..n |-> IF i = n THEN F[<<g[n - 1], n>>] ELSE g[i]]
  <2>3. n \in 1..N /\ n - 1 \in 0..(n - 1) /\ g[n - 1] \in V
    BY <1>2, <1>4, <2>2 DEF Follows
  <2>4. F[<<g[n - 1], n>>] \in V
    BY <2>3
  <2>5. /\ \A i \in 0..n : i # n => i \in 0..(n - 1)
        /\ \A i \in 1..n : /\ i - 1 \in 0..n /\ i - 1 # n
                           /\ i # n => i \in 1..(n - 1)
    BY <1>2
  <2>6. longer \in [0..n -> V]
    BY <2>2, <2>4, <2>5 DEF Follows
  <2>7. longer[0] = a
    BY <1>2, <1>4, <2>2 DEF Follows
  <2>8. ASSUME NEW i \in 1..n PROVE longer[i] = F[<<longer[i - 1], i>>]
    <3>1. i \in 0..n /\ longer[i - 1] = g[i - 1]
      BY <2>5
    <3>2. CASE i = n
      BY <3>1, <3>2
    <3>3. CASE i # n
      BY <2>2, <2>5, <3>1, <3>3 DEF Follows
    <3> QED
      BY <3>2, <3>3
  <2>9. Follows(longer, a, F, n, V)
    BY <2>6, <2>7, <2>8 DEF Follows
  <2> QED
    BY <1>2, <2>9
<1> QED
  BY <1>3, <1>4

\* g[i] is what is left of the first i words, of N.
Leaves(g, words, word, N, T) ==
  /\ g \in [0..N -> Seq(T)]
  /\ g[0] = <<>>
  /\ \A i \in 1..N : g[i] = IF words[i] = word THEN g[i - 1] ELSE Append(g[i - 1], words[i])
  /\ Without(words, word) = g[N]

LEMMA WithoutRun ==
  ASSUME NEW T, NEW words \in Seq(T), NEW word
  PROVE  \E g : Leaves(g, words, word, Len(words), T)
<1> DEFINE N == Len(words)
           step(s, i) == IF words[i] = word THEN s ELSE Append(s, words[i])
           equation(g) == g = [i \in 0..Len(words) |->
                                 IF i = 0 THEN <<>>
                                 ELSE IF words[i] = word THEN g[i - 1]
                                 ELSE Append(g[i - 1], words[i])]
           run == CHOOSE g : equation(g)
<1>1. N \in Nat /\ \A s \in Seq(T) : \A i \in 1..N : step(s, i) \in Seq(T)
  OBVIOUS
<1>2. \E g : equation(g)
  <2> DEFINE F == [p \in Seq(T) \X (1..N) |-> step(p[1], p[2])]
  <2>1. F \in [Seq(T) \X (1..N) -> Seq(T)]
    BY <1>1
  <2>2. \A s \in Seq(T) : \A i \in 1..N : F[<<s, i>>] = step(s, i)
    OBVIOUS
  <2>3. <<>> \in Seq(T)
    OBVIOUS
  <2> HIDE DEF F, step, N
  <2>4. PICK g : Follows(g, <<>>, F, N, Seq(T))
    BY <1>1, <2>1, <2>3, RunExists
  <2>5. ASSUME NEW i \in 1..N PROVE g[i] = step(g[i - 1], i)
    <3>1. i - 1 \in 0..N
      BY <1>1
    <3> QED
      BY <2>2, <2>4, <3>1 DEF Follows
  <2>6. ASSUME NEW i \in 0..N PROVE g[i] = IF i = 0 THEN <<>> ELSE step(g[i - 1], i)
    <3>1. i # 0 => i \in 1..N
      BY <1>1
    <3> QED
      BY <2>4, <2>5, <3>1 DEF Follows
  <2>7. g = [i \in 0..N |-> IF i = 0 THEN <<>> ELSE step(g[i - 1], i)]
    BY <2>4, <2>6 DEF Follows
  <2> QED
    BY <2>7, Zenon DEF step, N
<1>3. Without(words, word) = run[Len(words)]
  BY Zenon DEF Without
<1>4. run = [i \in 0..N |-> IF i = 0 THEN <<>> ELSE step(run[i - 1], i)]
  <2>1. equation(run)
    <3> HIDE DEF equation
    <3> QED
      BY <1>2, Zenon
  <2> QED
    BY <2>1, Zenon
<1> HIDE DEF run, step, N, equation
<1>5. run[0] = <<>> /\ \A i \in 1..N : run[i] = step(run[i - 1], i)
  <2>1. \A i \in 0..N : run[i] = IF i = 0 THEN <<>> ELSE step(run[i - 1], i)
    BY <1>4, Zenon
  <2>2. 0 \in 0..N /\ \A i \in 1..N : i \in 0..N /\ i # 0
    BY <1>1
  <2> QED
    BY <2>1, <2>2
<1>6. \A i \in 0..N : run[i] \in Seq(T)
  <2> DEFINE Wrong == {i \in 0..N : run[i] \notin Seq(T)}
  <2> SUFFICES ASSUME Wrong # {} PROVE FALSE
    OBVIOUS
  <2>1. PICK n \in Wrong : \A m \in Wrong : n =< m
    <3>1. Wrong \in SUBSET Nat
      OBVIOUS
    <3> HIDE DEF Wrong
    <3> QED
      BY <3>1, LeastNatural
  <2>2. n \in 0..N /\ run[n] \notin Seq(T) /\ n # 0
    <3>1. <<>> \in Seq(T)
      OBVIOUS
    <3> QED
      BY <1>5, <3>1
  <2>3. n - 1 \in 0..N /\ n - 1 \notin Wrong /\ n \in 1..N
    BY <1>1, <2>1, <2>2
  <2> QED
    BY <1>1, <1>5, <2>2, <2>3
<1>7. run \in [0..N -> Seq(T)]
  BY <1>4, <1>6
<1> QED
  BY <1>3, <1>5, <1>7 DEF step, N, Leaves

LEMMA WithoutIn ==
  ASSUME NEW T, NEW words \in Seq(T), NEW word
  PROVE  Without(words, word) \in Seq(T)
<1>1. PICK g : Leaves(g, words, word, Len(words), T)
  BY WithoutRun
<1>2. Len(words) \in 0..Len(words)
  OBVIOUS
<1> QED
  BY <1>1, <1>2 DEF Leaves

LEMMA ConcatWords ==
  ASSUME NEW T, NEW a \in Seq(T), NEW b \in Seq(T)
  PROVE  /\ a \o b \in Seq(T) /\ Len(a \o b) = Len(a) + Len(b)
         /\ \A k \in 1..Len(a) : (a \o b)[k] = a[k]
         /\ \A k \in 1..Len(b) : (a \o b)[Len(a) + k] = b[k]
OBVIOUS

LEMMA AppendAfter ==
  ASSUME NEW T, NEW a \in Seq(T), NEW b \in Seq(T), NEW x \in T
  PROVE  a \o Append(b, x) = Append(a \o b, x)
OBVIOUS

LEMMA WithoutConcat ==
  ASSUME NEW T, NEW a \in Seq(T), NEW b \in Seq(T), NEW word
  PROVE  Without(a \o b, word) = Without(a, word) \o Without(b, word)
<1> DEFINE m == Len(a)
           n == Len(b)
           t == a \o b
<1>1. /\ m \in Nat /\ n \in Nat /\ t \in Seq(T) /\ Len(t) = m + n
      /\ \A i \in 1..m : t[i] = a[i] /\ a[i] \in T
      /\ \A i \in 1..n : t[m + i] = b[i] /\ b[i] \in T
  OBVIOUS
<1> HIDE DEF t
<1>2. PICK f : Leaves(f, a, word, m, T)
  BY WithoutRun
<1>3. PICK g : Leaves(g, b, word, n, T)
  BY WithoutRun
<1>4. PICK h : Leaves(h, t, word, m + n, T)
  <2>1. \E k : Leaves(k, t, word, Len(t), T)
    BY <1>1, WithoutRun
  <2> QED
    BY <1>1, <2>1
<1> HIDE DEF m, n
<1>5. h[m] = f[m]
  <2> DEFINE Wrong == {i \in 0..m : h[i] # f[i]}
  <2> SUFFICES ASSUME Wrong # {} PROVE FALSE
    BY <1>1
  <2>1. PICK k \in Wrong : \A j \in Wrong : k =< j
    <3>1. Wrong \in SUBSET Nat
      OBVIOUS
    <3> HIDE DEF Wrong
    <3> QED
      BY <3>1, LeastNatural
  <2>2. k \in 0..m /\ h[k] # f[k] /\ k # 0
    BY <1>2, <1>4 DEF Leaves
  <2>3. k \in 1..m /\ k \in 1..(m + n) /\ k - 1 \in 0..m /\ ~(k =< k - 1)
    BY <1>1, <2>2
  <2>5. k - 1 \notin Wrong
    BY <2>1, <2>3
  <2>4. h[k - 1] = f[k - 1] /\ t[k] = a[k]
    BY <1>1, <2>3, <2>5
  <2> QED
    BY <1>2, <1>4, <2>2, <2>3, <2>4 DEF Leaves
<1>6. h[m + n] = f[m] \o g[n]
  <2> DEFINE claim(i) == h[m + i] = f[m] \o g[i]
             Wrong == {i \in 0..n : ~claim(i)}
  <2> SUFFICES ASSUME Wrong # {} PROVE FALSE
    <3>1. n \in 0..n
      BY <1>1
    <3>2. claim(n) => h[m + n] = f[m] \o g[n]
      OBVIOUS
    <3> HIDE DEF claim
    <3> QED
      BY <3>1, <3>2
  <2>1. PICK k \in Wrong : \A j \in Wrong : k =< j
    <3> HIDE DEF claim
    <3>1. Wrong \in SUBSET Nat
      OBVIOUS
    <3> HIDE DEF Wrong
    <3> QED
      BY <3>1, LeastNatural
  <2>2. k \in 0..n /\ h[m + k] # f[m] \o g[k]
    OBVIOUS
  <2>3. f[m] \in Seq(T)
    BY <1>1, <1>2 DEF Leaves
  <2>4. k # 0
    <3>1. m + 0 = m /\ f[m] \o <<>> = f[m]
      BY <1>1, <2>3
    <3> QED
      BY <1>3, <1>5, <2>2, <3>1 DEF Leaves
  <2>5. /\ k \in 1..n /\ m + k \in 1..(m + n) /\ k - 1 \in 0..n /\ ~(k =< k - 1)
        /\ m + (k - 1) = m + k - 1
    BY <1>1, <2>2, <2>4
  <2>8. k - 1 \notin Wrong
    <3> HIDE DEF Wrong
    <3> QED
      BY <2>1, <2>5
  <2>6. /\ h[m + k - 1] = f[m] \o g[k - 1] /\ t[m + k] = b[k]
        /\ g[k - 1] \in Seq(T) /\ b[k] \in T
    BY <1>1, <1>3, <2>5, <2>8 DEF Leaves
  <2>7. f[m] \o Append(g[k - 1], b[k]) = Append(f[m] \o g[k - 1], b[k])
    <3> DEFINE x == f[m]
               y == g[k - 1]
               z == b[k]
    <3>1. x \in Seq(T) /\ y \in Seq(T) /\ z \in T
      BY <2>3, <2>6
    <3> HIDE DEF x, y, z
    <3>2. x \o Append(y, z) = Append(x \o y, z)
      BY <3>1, AppendAfter
    <3> QED
      BY <3>2 DEF x, y, z
  <2>9. g[k] = IF b[k] = word THEN g[k - 1] ELSE Append(g[k - 1], b[k])
    BY <1>3, <2>5 DEF Leaves
  <2> DEFINE at == m + k
  <2>10. /\ at \in 1..(m + n) /\ h[at - 1] = f[m] \o g[k - 1] /\ t[at] = b[k]
         /\ h[at] # f[m] \o g[k]
    <3>1. at \in 1..(m + n) /\ at - 1 = m + k - 1 /\ at = m + k
      BY <1>1, <2>5
    <3> HIDE DEF at
    <3>2. h[at - 1] = f[m] \o g[k - 1]
      BY <2>6, <3>1
    <3>3. t[at] = b[k] /\ h[at] # f[m] \o g[k]
      BY <2>2, <2>6, <3>1
    <3> QED
      BY <3>1, <3>2, <3>3
  <2> HIDE DEF at
  <2>11. h[at] = IF t[at] = word THEN h[at - 1] ELSE Append(h[at - 1], t[at])
    BY <1>4, <2>10 DEF Leaves
  <2> QED
    BY <2>7, <2>9, <2>10, <2>11, Zenon
<1> QED
  BY <1>2, <1>3, <1>4, <1>6 DEF t, Leaves

\* A word that is not in the text leaves it alone; a text of one word is left or gone.
LEMMA WithoutNone ==
  ASSUME NEW T, NEW words \in Seq(T), NEW word, \A i \in 1..Len(words) : words[i] # word
  PROVE  Without(words, word) = words
<1> DEFINE N == Len(words)
           claim(g, i) == Len(g[i]) = i /\ \A j \in 1..i : g[i][j] = words[j]
<1>1. N \in Nat /\ \A i \in 1..N : words[i] \in T
  OBVIOUS
<1>2. PICK g : Leaves(g, words, word, N, T)
  BY WithoutRun
<1> DEFINE Wrong == {i \in 0..N : ~claim(g, i)}
<1>3. Wrong = {}
  <2> SUFFICES ASSUME Wrong # {} PROVE FALSE
    OBVIOUS
  <2>1. PICK k \in Wrong : \A j \in Wrong : k =< j
    <3> HIDE DEF claim
    <3>1. Wrong \in SUBSET Nat
      OBVIOUS
    <3> HIDE DEF Wrong
    <3> QED
      BY <3>1, LeastNatural
  <2>2. k \in 0..N /\ ~claim(g, k)
    OBVIOUS
  <2>3. k # 0
    <3>1. claim(g, 0)
      BY <1>2 DEF Leaves
    <3> QED
      BY <2>2, <3>1
  <2>4. k \in 1..N /\ k - 1 \in 0..N /\ ~(k =< k - 1)
    BY <1>1, <2>2, <2>3
  <2>5. claim(g, k - 1)
    <3>1. k - 1 \notin Wrong
      <4> HIDE DEF Wrong
      <4> QED
        BY <2>1, <2>4
    <3> HIDE DEF claim
    <3> QED
      BY <2>4, <3>1
  <2>6. g[k] = Append(g[k - 1], words[k]) /\ g[k - 1] \in Seq(T) /\ words[k] \in T
    BY <1>1, <1>2, <2>4 DEF Leaves
  <2>7. claim(g, k)
    <3> DEFINE x == g[k - 1]
    <3>1. x \in Seq(T) /\ Len(x) = k - 1 /\ \A j \in 1..(k - 1) : x[j] = words[j]
      BY <2>5, <2>6
    <3>2. g[k] = Append(x, words[k])
      BY <2>6
    <3> HIDE DEF x
    <3>3. Len(Append(x, words[k])) = k
      BY <2>4, <2>6, <3>1
    <3>4. \A j \in 1..k : Append(x, words[k])[j] = words[j]
      BY <2>4, <2>6, <3>1
    <3> QED
      BY <3>2, <3>3, <3>4
  <2> QED
    BY <2>2, <2>7
<1>4. Without(words, word) \in Seq(T) /\ claim(g, N) /\ Without(words, word) = g[N]
  <2>1. N \in 0..N
    BY <1>1
  <2>2. claim(g, N)
    <3> HIDE DEF claim
    <3> QED
      BY <1>3, <2>1
  <2> QED
    BY <1>2, <2>2, WithoutIn DEF Leaves
<1> QED
  BY <1>4, SameWords

LEMMA WithoutSingle ==
  ASSUME NEW word, NEW x
  PROVE  Without(<<x>>, word) = IF x = word THEN <<>> ELSE <<x>>
<1>1. PICK g : Leaves(g, <<x>>, word, 1, {x})
  <2>1. <<x>> \in Seq({x}) /\ Len(<<x>>) = 1
    OBVIOUS
  <2>2. \E g : Leaves(g, <<x>>, word, Len(<<x>>), {x})
    BY <2>1, WithoutRun
  <2> QED
    BY <2>1, <2>2
<1>2. 1 \in 1..1 /\ 1 - 1 = 0
  OBVIOUS
<1>3. g[1] = IF x = word THEN g[0] ELSE Append(g[0], x)
  BY <1>1, <1>2 DEF Leaves
<1>4. g[0] = <<>> /\ Without(<<x>>, word) = g[1]
  BY <1>1 DEF Leaves
<1> QED
  BY <1>3, <1>4

\* Texts without a barrier are texts in an alphabet without one.
LEMMA WholeIn ==
  ASSUME NEW T, NEW text \in Seq(T)
  PROVE  Whole(text) <=> text \in Seq(T \ {Barrier})
<1>1. Len(text) \in Nat /\ \A i \in 1..Len(text) : text[i] \in T
  OBVIOUS
<1>2. Whole(text) => \A i \in 1..Len(text) : text[i] \in T \ {Barrier}
  BY <1>1 DEF Whole
<1>3. text = [i \in 1..Len(text) |-> text[i]]
  OBVIOUS
<1>4. (\A i \in 1..Len(text) : text[i] \in T \ {Barrier}) => text \in Seq(T \ {Barrier})
  BY <1>1, <1>3
<1>5. text \in Seq(T \ {Barrier}) => Whole(text)
  BY DEF Whole
<1> QED
  BY <1>2, <1>4, <1>5

LEMMA WithoutSeparates ==
  ASSUME NEW T, Barrier \in T, NEW word, word # Barrier
  PROVE  Separates([text \in Seq(T) |-> Without(text, word)], T)
<1> DEFINE r == [text \in Seq(T) |-> Without(text, word)]
<1>1. \A text \in Seq(T) : r[text] = Without(text, word)
  OBVIOUS
<1>2. r \in [Seq(T) -> Seq(T)]
  BY WithoutIn
<1> HIDE DEF r
<1>3. r[<<>>] = <<>>
  <2>1. <<>> \in Seq(T) /\ \A i \in 1..Len(<<>>) : <<>>[i] # word
    OBVIOUS
  <2> QED
    BY <1>1, <2>1, WithoutNone
<1>4. ASSUME NEW text \in Seq(T), Whole(text) PROVE Whole(r[text])
  <2>1. text \in Seq(T \ {Barrier})
    BY <1>4, WholeIn
  <2>2. Without(text, word) \in Seq(T \ {Barrier})
    BY <2>1, WithoutIn
  <2>3. r[text] \in Seq(T) /\ r[text] = Without(text, word)
    BY <1>1, <1>2
  <2> QED
    BY <2>2, <2>3, WholeIn
<1>5. ASSUME NEW u \in Seq(T), NEW v \in Seq(T)
      PROVE  r[Joined(u, v)] = Joined(r[u], r[v])
  <2>1. <<Barrier>> \in Seq(T) /\ u \o <<Barrier>> \in Seq(T) /\ Joined(u, v) \in Seq(T)
    BY JoinedWords
  <2> DEFINE b == <<Barrier>>
             w == u \o b
  <2>2. Without(w \o v, word) = Without(w, word) \o Without(v, word)
    <3>1. w \in Seq(T)
      BY <2>1
    <3> HIDE DEF w
    <3> QED
      BY <3>1, WithoutConcat
  <2>3. Without(u \o b, word) = Without(u, word) \o Without(b, word)
    <3>1. b \in Seq(T)
      OBVIOUS
    <3> HIDE DEF b
    <3> QED
      BY <3>1, WithoutConcat
  <2>4. Without(<<Barrier>>, word) = <<Barrier>>
    BY WithoutSingle
  <2> QED
    BY <1>1, <2>1, <2>2, <2>3, <2>4 DEF Joined
<1>6. Separates(r, T)
  BY <1>2, <1>3, <1>4, <1>5 DEF Separates
<1> QED
  BY <1>6 DEF r

-----------------------------------------------------------------------------
(***************************************************************************)
(* Zero-width characters.                                                  *)
(***************************************************************************)
Dictionary == SafetyVocabulary \cup {Unknown}

LEMMA SpelledKnown == \A fragments : WordSpelled(fragments) \in Dictionary
<1> SUFFICES ASSUME NEW fragments PROVE WordSpelled(fragments) \in Dictionary
  OBVIOUS
<1> DEFINE words == SafetyVocabulary
<1>1. Known(words, fragments) \in words \cup {Unknown}
  <2> HIDE DEF words
  <2> QED
    BY DEF Known
<1> QED
  BY <1>1 DEF WordSpelled, Dictionary

LEMMA TakingIn ==
  ASSUME NEW T, Dictionary \subseteq T, NEW text \in Seq(T), NEW i \in 1..Len(text),
         NEW done \in Seq(T)
  PROVE  Taking(text, i, done) \in Seq(T)
<1> DEFINE n == Len(done)
           new == WordSpelled(Spelled(<<done[n], text[i]>>))
<1>1. n \in Nat /\ text[i] \in T /\ new \in T
  BY SpelledKnown
<1> HIDE DEF new
<1>2. n > 0 => [done EXCEPT ![n] = new] \in Seq(T)
  BY <1>1
<1>3. Append(done, text[i]) \in Seq(T)
  BY <1>1
<1>4. Welds(text, i, done) => n > 0
  BY DEF Welds
<1>5. \/ Taking(text, i, done) = done
      \/ Taking(text, i, done) = [done EXCEPT ![n] = new]
      \/ Taking(text, i, done) = Append(done, text[i])
  BY DEF Taking, new
<1>6. CASE Welds(text, i, done)
  BY <1>2, <1>3, <1>4, <1>5, <1>6
<1>7. CASE ~Welds(text, i, done)
  <2>1. Taking(text, i, done) \in {done, Append(done, text[i])}
    BY <1>7 DEF Taking
  <2> QED
    BY <1>3, <2>1
<1> QED
  BY <1>6, <1>7

\* g[i] is what is kept of the first i words, of N.
Keepings(g, text, N, T) ==
  /\ g \in [0..N -> Seq(T)]
  /\ g[0] = <<>>
  /\ \A i \in 1..N : g[i] = Taking(text, i, g[i - 1])
  /\ Dropped(text) = g[N]

LEMMA DroppedRun ==
  ASSUME NEW T, Dictionary \subseteq T, NEW text \in Seq(T)
  PROVE  \E g : Keepings(g, text, Len(text), T)
<1> DEFINE N == Len(text)
           equation(g) == g = [i \in 0..Len(text) |->
                                 IF i = 0 THEN <<>> ELSE Taking(text, i, g[i - 1])]
           run == CHOOSE g : equation(g)
<1>1. N \in Nat /\ \A s \in Seq(T) : \A i \in 1..N : Taking(text, i, s) \in Seq(T)
  BY TakingIn
<1>2. \E g : equation(g)
  <2> DEFINE F == [p \in Seq(T) \X (1..N) |-> Taking(text, p[2], p[1])]
  <2>1. F \in [Seq(T) \X (1..N) -> Seq(T)]
    BY <1>1
  <2>2. \A s \in Seq(T) : \A i \in 1..N : F[<<s, i>>] = Taking(text, i, s)
    OBVIOUS
  <2>3. <<>> \in Seq(T)
    OBVIOUS
  <2> HIDE DEF F, N
  <2>4. PICK g : Follows(g, <<>>, F, N, Seq(T))
    BY <1>1, <2>1, <2>3, RunExists
  <2>5. ASSUME NEW i \in 1..N PROVE g[i] = Taking(text, i, g[i - 1])
    <3>1. i - 1 \in 0..N
      BY <1>1
    <3> QED
      BY <2>2, <2>4, <3>1 DEF Follows
  <2>6. ASSUME NEW i \in 0..N PROVE g[i] = IF i = 0 THEN <<>> ELSE Taking(text, i, g[i - 1])
    <3>1. i # 0 => i \in 1..N
      BY <1>1
    <3> QED
      BY <2>4, <2>5, <3>1 DEF Follows
  <2>7. g = [i \in 0..N |-> IF i = 0 THEN <<>> ELSE Taking(text, i, g[i - 1])]
    BY <2>4, <2>6 DEF Follows
  <2> QED
    BY <2>7, Zenon DEF N
<1>3. Dropped(text) = run[Len(text)]
  BY Zenon DEF Dropped
<1>4. run = [i \in 0..N |-> IF i = 0 THEN <<>> ELSE Taking(text, i, run[i - 1])]
  <2>1. equation(run)
    <3> HIDE DEF equation
    <3> QED
      BY <1>2, Zenon
  <2> QED
    BY <2>1, Zenon
<1> HIDE DEF run, N, equation
<1>5. run[0] = <<>> /\ \A i \in 1..N : run[i] = Taking(text, i, run[i - 1])
  <2>1. \A i \in 0..N : run[i] = IF i = 0 THEN <<>> ELSE Taking(text, i, run[i - 1])
    BY <1>4, Zenon
  <2>2. 0 \in 0..N /\ \A i \in 1..N : i \in 0..N /\ i # 0
    BY <1>1
  <2> QED
    BY <2>1, <2>2
<1>6. \A i \in 0..N : run[i] \in Seq(T)
  <2> DEFINE Wrong == {i \in 0..N : run[i] \notin Seq(T)}
  <2> SUFFICES ASSUME Wrong # {} PROVE FALSE
    OBVIOUS
  <2>1. PICK n \in Wrong : \A m \in Wrong : n =< m
    <3>1. Wrong \in SUBSET Nat
      OBVIOUS
    <3> HIDE DEF Wrong
    <3> QED
      BY <3>1, LeastNatural
  <2>2. n \in 0..N /\ run[n] \notin Seq(T) /\ n # 0
    <3>1. <<>> \in Seq(T)
      OBVIOUS
    <3> QED
      BY <1>5, <3>1
  <2>3. n - 1 \in 0..N /\ n - 1 \notin Wrong /\ n \in 1..N
    BY <1>1, <2>1, <2>2
  <2> QED
    BY <1>1, <1>5, <2>2, <2>3
<1>7. run \in [0..N -> Seq(T)]
  BY <1>4, <1>6
<1> QED
  BY <1>3, <1>5, <1>7 DEF N, Keepings

LEMMA DroppedIn ==
  ASSUME NEW T, Dictionary \subseteq T, NEW text \in Seq(T)
  PROVE  Dropped(text) \in Seq(T)
<1>1. PICK g : Keepings(g, text, Len(text), T)
  BY DroppedRun
<1>2. Len(text) \in 0..Len(text)
  OBVIOUS
<1> QED
  BY <1>1, <1>2 DEF Keepings

\* Where no zero-width character is, nothing is dropped.
LEMMA DroppedNone ==
  ASSUME NEW T, Dictionary \subseteq T, NEW text \in Seq(T),
         \A i \in 1..Len(text) : text[i] # Joint
  PROVE  Dropped(text) = text
<1> DEFINE N == Len(text)
           claim(g, i) == Len(g[i]) = i /\ \A j \in 1..i : g[i][j] = text[j]
<1>1. N \in Nat /\ \A i \in 1..N : text[i] \in T
  OBVIOUS
<1>2. PICK g : Keepings(g, text, N, T)
  BY DroppedRun
<1> DEFINE Wrong == {i \in 0..N : ~claim(g, i)}
<1>3. Wrong = {}
  <2> SUFFICES ASSUME Wrong # {} PROVE FALSE
    OBVIOUS
  <2>1. PICK k \in Wrong : \A j \in Wrong : k =< j
    <3> HIDE DEF claim
    <3>1. Wrong \in SUBSET Nat
      OBVIOUS
    <3> HIDE DEF Wrong
    <3> QED
      BY <3>1, LeastNatural
  <2>2. k \in 0..N /\ ~claim(g, k)
    OBVIOUS
  <2>3. k # 0
    <3>1. claim(g, 0)
      BY <1>2 DEF Keepings
    <3> QED
      BY <2>2, <3>1
  <2>4. k \in 1..N /\ k - 1 \in 0..N /\ ~(k =< k - 1) /\ (k > 1 => k - 1 \in 1..N)
    BY <1>1, <2>2, <2>3
  <2>5. claim(g, k - 1)
    <3>1. k - 1 \notin Wrong
      <4> HIDE DEF Wrong
      <4> QED
        BY <2>1, <2>4
    <3> HIDE DEF claim
    <3> QED
      BY <2>4, <3>1
  <2>6. g[k] = Append(g[k - 1], text[k]) /\ g[k - 1] \in Seq(T) /\ text[k] \in T
    <3>1. ~Welds(text, k, g[k - 1]) /\ text[k] # Joint
      BY <2>4 DEF Welds
    <3>2. g[k] = Taking(text, k, g[k - 1]) /\ g[k - 1] \in Seq(T)
      BY <1>2, <2>4 DEF Keepings
    <3> QED
      BY <1>1, <2>4, <3>1, <3>2 DEF Taking
  <2>7. claim(g, k)
    <3> DEFINE x == g[k - 1]
    <3>1. x \in Seq(T) /\ Len(x) = k - 1 /\ \A j \in 1..(k - 1) : x[j] = text[j]
      BY <2>5, <2>6
    <3>2. g[k] = Append(x, text[k])
      BY <2>6
    <3> HIDE DEF x
    <3>3. Len(Append(x, text[k])) = k
      BY <2>4, <2>6, <3>1
    <3>4. \A j \in 1..k : Append(x, text[k])[j] = text[j]
      BY <2>4, <2>6, <3>1
    <3> QED
      BY <3>2, <3>3, <3>4
  <2> QED
    BY <2>2, <2>7
<1>4. Dropped(text) \in Seq(T) /\ claim(g, N) /\ Dropped(text) = g[N]
  <2>1. N \in 0..N
    BY <1>1
  <2>2. claim(g, N)
    <3> HIDE DEF claim
    <3> QED
      BY <1>3, <2>1
  <2> QED
    BY <1>2, <2>2, DroppedIn DEF Keepings
<1> QED
  BY <1>4, SameWords

\* text[at] is rest[i], the rest comes after a barrier, and what was kept before it ends
\* in that barrier.
Resumes(text, at, rest, i, before, done, T) ==
  /\ Dictionary \subseteq T /\ Barrier \in T
  /\ text \in Seq(T) /\ rest \in Seq(T) /\ before \in Seq(T) /\ done \in Seq(T)
  /\ at \in 1..Len(text) /\ at > 1 /\ i \in 1..Len(rest)
  /\ text[at] = rest[i]
  /\ text[at - 1] = IF i = 1 THEN Barrier ELSE rest[i - 1]
  /\ Len(before) > 0 /\ before[Len(before)] = Barrier

\* What has been kept up to a barrier has no part in what is kept after it.
LEMMA TakingAfter ==
  ASSUME NEW T, NEW text, NEW rest, NEW i, NEW at, NEW before, NEW done,
         Resumes(text, at, rest, i, before, done, T)
  PROVE  Taking(text, at, before \o done) = before \o Taking(rest, i, done)
<1>0. /\ at \in 1..Len(text) /\ at > 1 /\ i \in 1..Len(rest)
      /\ text[at] = rest[i]
      /\ text[at - 1] = IF i = 1 THEN Barrier ELSE rest[i - 1]
      /\ Len(before) > 0 /\ before[Len(before)] = Barrier
      /\ text \in Seq(T) /\ rest \in Seq(T) /\ before \in Seq(T) /\ done \in Seq(T)
      /\ Dictionary \subseteq T /\ Barrier \in T
  BY DEF Resumes
<1> DEFINE all == before \o done
           m == Len(before)
           n == Len(done)
<1>1. /\ m \in Nat /\ n \in Nat /\ all \in Seq(T) /\ Len(all) = m + n /\ m > 0
      /\ \A k \in 1..m : all[k] = before[k]
      /\ \A k \in 1..n : all[m + k] = done[k]
      /\ rest[i] \in T
  BY <1>0
<1>2. Welds(text, at, all) <=> Welds(rest, i, done)
  <2> HIDE DEF all
  <2>1. n = 0 => all[Len(all)] = Barrier
    BY <1>0, <1>1
  <2>2. n > 0 => all[Len(all)] = done[n]
    BY <1>1
  <2>3. i = 1 => text[at - 1] # Joint
    BY <1>0 DEF Barrier, Joint
  <2>4. i # 1 => i > 1 /\ text[at - 1] = rest[i - 1]
    BY <1>0
  <2>5. Len(all) > 0
    BY <1>1
  <2> QED
    BY <1>0, <1>1, <2>1, <2>2, <2>3, <2>4, <2>5 DEF Welds
<1>3. CASE text[at] = Joint
  BY <1>0, <1>3 DEF Taking
<1>4. CASE text[at] # Joint /\ ~Welds(rest, i, done)
  <2>1. Taking(text, at, all) = Append(all, rest[i]) /\ Taking(rest, i, done) = Append(done, rest[i])
    BY <1>0, <1>2, <1>4 DEF Taking
  <2>2. before \o Append(done, rest[i]) = Append(before \o done, rest[i])
    <3> DEFINE x == rest[i]
    <3>1. x \in T
      BY <1>1
    <3> HIDE DEF x
    <3>2. before \o Append(done, x) = Append(before \o done, x)
      BY <3>1, AppendAfter
    <3> QED
      BY <3>2 DEF x
  <2> QED
    BY <2>1, <2>2
<1>5. CASE text[at] # Joint /\ Welds(rest, i, done)
  <2>1. n > 0
    BY <1>5 DEF Welds
  <2> DEFINE new == WordSpelled(Spelled(<<done[n], rest[i]>>))
  <2>2. new \in T /\ all[Len(all)] = done[n]
    <3>1. WordSpelled(Spelled(<<done[n], rest[i]>>)) \in T
      BY <1>0, SpelledKnown
    <3> HIDE DEF all
    <3>2. all[Len(all)] = done[n]
      BY <1>1, <2>1
    <3> QED
      BY <3>1, <3>2
  <2>3. Taking(rest, i, done) = [done EXCEPT ![n] = new]
    BY <1>0, <1>5 DEF Taking
  <2>4. Taking(text, at, all) = [all EXCEPT ![Len(all)] = new]
    BY <1>0, <1>2, <1>5, <2>2 DEF Taking
  <2> HIDE DEF new
  <2> DEFINE a == [all EXCEPT ![Len(all)] = new]
             d == [done EXCEPT ![n] = new]
  <2>5. d \in Seq(T) /\ Len(d) = n /\ \A k \in 1..n : d[k] = IF k = n THEN new ELSE done[k]
    BY <1>1, <2>1, <2>2
  <2>6. a \in Seq(T) /\ Len(a) = m + n
        /\ \A k \in 1..(m + n) : a[k] = IF k = m + n THEN new ELSE all[k]
    <3> HIDE DEF all
    <3> QED
      BY <1>1, <2>1, <2>2
  <2> HIDE DEF a, d, all
  <2>7. /\ before \o d \in Seq(T) /\ Len(before \o d) = m + n
        /\ \A k \in 1..m : (before \o d)[k] = before[k]
        /\ \A k \in 1..n : (before \o d)[m + k] = d[k]
    <3>1. d \in Seq(T) /\ Len(d) = n
      BY <2>5
    <3>2. before \o d \in Seq(T) /\ Len(before \o d) = m + Len(d)
      BY <1>0, <3>1, ConcatWords
    <3>3. \A k \in 1..m : (before \o d)[k] = before[k]
      BY <1>0, <3>1, ConcatWords
    <3>4. \A k \in 1..Len(d) : (before \o d)[m + k] = d[k]
      BY <1>0, <3>1, ConcatWords
    <3> QED
      BY <3>1, <3>2, <3>3, <3>4, Zenon
  <2> HIDE DEF m, n
  <2>8. ASSUME NEW k \in 1..(m + n) PROVE a[k] = (before \o d)[k]
    <3>1. CASE k =< m
      <4>1. k \in 1..m /\ k # m + n
        BY <1>1, <2>1, <3>1
      <4> QED
        BY <1>1, <2>6, <2>7, <4>1
    <3>2. CASE k > m
      <4> DEFINE j == k - m
      <4>1. j \in 1..n /\ m + j = k /\ (k = m + n <=> j = n)
        <5>1. m \in Nat /\ n \in Nat
          BY <1>1
        <5> QED
          BY <3>2, <5>1
      <4> HIDE DEF j
      <4>2. (before \o d)[k] = d[j] /\ all[k] = done[j]
        BY <1>1, <2>7, <4>1
      <4> QED
        BY <2>5, <2>6, <4>1, <4>2
    <3>3. k =< m \/ k > m
      <4>1. m \in Nat /\ n \in Nat
        BY <1>1
      <4> QED
        BY <4>1
    <3> QED
      BY <3>1, <3>2, <3>3, Zenon
  <2>9. a = before \o d
    BY <2>6, <2>7, <2>8, SameWords
  <2> QED
    BY <2>3, <2>4, <2>9 DEF a, d, all, m, n
<1> QED
  BY <1>3, <1>4, <1>5

LEMMA DroppedJoined ==
  ASSUME NEW T, Dictionary \subseteq T, Barrier \in T, NEW u \in Seq(T), NEW v \in Seq(T)
  PROVE  Dropped(Joined(u, v)) = Joined(Dropped(u), Dropped(v))
<1> DEFINE m == Len(u)
           n == Len(v)
           t == Joined(u, v)
<1>1. /\ t \in Seq(T) /\ m \in Nat /\ n \in Nat /\ Len(t) = m + 1 + n
      /\ \A i \in 1..m : t[i] = u[i]
      /\ t[m + 1] = Barrier
      /\ \A i \in 1..n : t[m + 1 + i] = v[i]
  <2>1. t \in Seq(T) /\ m \in Nat /\ n \in Nat /\ Len(t) = m + 1 + n
    BY JoinedWords
  <2>2. t[m + 1] = Barrier /\ \A i \in 1..m : t[i] = u[i]
    BY JoinedWords
  <2>3. \A i \in 1..n : t[m + 1 + i] = v[i]
    BY JoinedWords
  <2> QED
    BY <2>1, <2>2, <2>3
<1> HIDE DEF t
<1>2. PICK f : Keepings(f, u, m, T)
  BY DroppedRun
<1>3. PICK g : Keepings(g, v, n, T)
  BY DroppedRun
<1>4. PICK h : Keepings(h, t, m + 1 + n, T)
  <2>1. \E k : Keepings(k, t, Len(t), T)
    BY <1>1, DroppedRun
  <2> QED
    BY <1>1, <2>1
<1>5. h[m] = f[m]
  <2> DEFINE claim(i) == h[i] = f[i]
             Wrong == {i \in 0..m : ~claim(i)}
  <2> SUFFICES ASSUME Wrong # {} PROVE FALSE
    BY <1>1
  <2>1. PICK k \in Wrong : \A j \in Wrong : k =< j
    <3> HIDE DEF claim
    <3>1. Wrong \in SUBSET Nat
      OBVIOUS
    <3> HIDE DEF Wrong
    <3> QED
      BY <3>1, LeastNatural
  <2>2. k \in 0..m /\ h[k] # f[k] /\ k # 0
    BY <1>2, <1>4 DEF Keepings
  <2>3. /\ k \in 1..m /\ k \in 1..(m + 1 + n) /\ k - 1 \in 0..m /\ ~(k =< k - 1)
        /\ k > 1 => k - 1 \in 1..m
    BY <1>1, <2>2
  <2>4. claim(k - 1)
    <3>1. k - 1 \notin Wrong
      <4> HIDE DEF Wrong
      <4> QED
        BY <2>1, <2>3
    <3> HIDE DEF claim
    <3> QED
      BY <2>3, <3>1
  <2>5. h[k - 1] = f[k - 1] /\ t[k] = u[k] /\ (k > 1 => t[k - 1] = u[k - 1])
    BY <1>1, <2>3, <2>4
  <2>6. h[k] = Taking(t, k, h[k - 1]) /\ f[k] = Taking(u, k, f[k - 1])
    BY <1>2, <1>4, <2>3 DEF Keepings
  <2>7. Taking(t, k, f[k - 1]) = Taking(u, k, f[k - 1])
    BY <2>5 DEF Taking, Welds
  <2> QED
    BY <2>2, <2>5, <2>6, <2>7
<1>6. h[m + 1] = f[m] \o <<Barrier>> /\ f[m] \in Seq(T)
  <2>1. m + 1 \in 1..(m + 1 + n) /\ m \in 0..m /\ m + 1 - 1 = m
    BY <1>1
  <2>2. h[m + 1] = Taking(t, m + 1, h[m]) /\ f[m] \in Seq(T)
    BY <1>2, <1>4, <2>1 DEF Keepings
  <2>3. Taking(t, m + 1, f[m]) = Append(f[m], Barrier)
    BY <1>1 DEF Taking, Welds, Barrier, Joint
  <2>4. Append(f[m], Barrier) = f[m] \o <<Barrier>>
    <3> DEFINE x == f[m]
    <3>1. x \in Seq(T)
      BY <2>2
    <3> HIDE DEF x
    <3>2. Append(x, Barrier) = x \o <<Barrier>>
      BY <3>1
    <3> QED
      BY <3>2 DEF x
  <2> QED
    BY <1>5, <2>2, <2>3, <2>4
<1> DEFINE before == f[m] \o <<Barrier>>
<1>7. before \in Seq(T) /\ Len(before) > 0 /\ before[Len(before)] = Barrier
  <2> DEFINE x == f[m]
  <2>1. x \in Seq(T)
    BY <1>6
  <2> HIDE DEF x
  <2>2. Len(x \o <<Barrier>>) = Len(x) + 1 /\ (x \o <<Barrier>>)[Len(x) + 1] = Barrier
        /\ x \o <<Barrier>> \in Seq(T) /\ Len(x) \in Nat
    BY <2>1
  <2>3. before = x \o <<Barrier>>
    BY DEF x
  <2> HIDE DEF before
  <2> QED
    BY <2>2, <2>3
<1>71. ASSUME NEW k \in 1..n, NEW done \in Seq(T)
       PROVE  Taking(t, m + 1 + k, before \o done) = before \o Taking(v, k, done)
  <2> HIDE DEF before
  <2> DEFINE at == m + 1 + k
  <2>1. /\ at \in 1..(m + 1 + n) /\ at > 1 /\ at - 1 = m + 1 + (k - 1) /\ t[at] = v[k]
        /\ t[at - 1] = IF k = 1 THEN Barrier ELSE v[k - 1]
    <3>1. m \in Nat /\ n \in Nat /\ k \in 1..n
      BY <1>1
    <3> HIDE DEF m, n
    <3>2. /\ at \in 1..(m + 1 + n) /\ at > 1 /\ at - 1 = m + 1 + (k - 1)
          /\ k = 1 => at - 1 = m + 1
          /\ k # 1 => k - 1 \in 1..n
      BY <3>1
    <3>3. t[at] = v[k]
      BY <1>1, <3>1
    <3> HIDE DEF at
    <3>4. t[at - 1] = IF k = 1 THEN Barrier ELSE v[k - 1]
      BY <1>1, <3>2
    <3> QED
      BY <3>2, <3>3, <3>4
  <2> HIDE DEF at, n, m
  <2>2. Resumes(t, at, v, k, before, done, T)
    BY <1>1, <1>7, <2>1 DEF Resumes, m, n
  <2>3. Taking(t, at, before \o done) = before \o Taking(v, k, done)
    BY <2>2, TakingAfter, SMT
  <2> QED
    BY <2>3 DEF at
<1>8. h[m + 1 + n] = before \o g[n]
  <2> DEFINE claim(i) == h[m + 1 + i] = before \o g[i]
             Wrong == {i \in 0..n : ~claim(i)}
  <2> SUFFICES ASSUME Wrong # {} PROVE FALSE
    <3>1. n \in 0..n
      BY <1>1
    <3>2. claim(n) => h[m + 1 + n] = before \o g[n]
      OBVIOUS
    <3> HIDE DEF claim
    <3> QED
      BY <3>1, <3>2
  <2>1. PICK k \in Wrong : \A j \in Wrong : k =< j
    <3> HIDE DEF claim
    <3>1. Wrong \in SUBSET Nat
      OBVIOUS
    <3> HIDE DEF Wrong
    <3> QED
      BY <3>1, LeastNatural
  <2>2. k \in 0..n /\ h[m + 1 + k] # before \o g[k]
    OBVIOUS
  <2>3. k # 0
    <3>1. m + 1 + 0 = m + 1 /\ before \o <<>> = before
      BY <1>1, <1>7
    <3>2. g[0] = <<>>
      BY <1>3 DEF Keepings
    <3> QED
      BY <1>6, <2>2, <3>1, <3>2
  <2>4. k \in 1..n /\ k - 1 \in 0..n /\ ~(k =< k - 1)
    BY <1>1, <2>2, <2>3
  <2>5. claim(k - 1)
    <3>1. k - 1 \notin Wrong
      <4> HIDE DEF Wrong
      <4> QED
        BY <2>1, <2>4
    <3> HIDE DEF claim
    <3> QED
      BY <2>4, <3>1
  <2> DEFINE at == m + 1 + k
  <2>6. /\ at \in 1..(m + 1 + n) /\ at > 1 /\ at - 1 = m + 1 + (k - 1) /\ at = m + 1 + k
        /\ k = 1 => at - 1 = m + 1
        /\ k # 1 => k - 1 \in 1..n
    BY <1>1, <2>4
  <2> HIDE DEF at
  <2>7. h[at - 1] = before \o g[k - 1] /\ t[at] = v[k] /\ h[at] # before \o g[k]
    BY <1>1, <2>2, <2>4, <2>5, <2>6
  <2>8. t[at - 1] = IF k = 1 THEN Barrier ELSE v[k - 1]
    BY <1>1, <2>6
  <2>9. /\ g[k] = Taking(v, k, g[k - 1]) /\ g[k - 1] \in Seq(T)
        /\ h[at] = Taking(t, at, h[at - 1])
    BY <1>3, <1>4, <2>4, <2>6 DEF Keepings
  <2>10. Taking(t, at, before \o g[k - 1]) = before \o Taking(v, k, g[k - 1])
    <3> HIDE DEF before
    <3> QED
      BY <1>71, <2>4, <2>6, <2>9
  <2> QED
    BY <2>7, <2>9, <2>10
<1>9. Dropped(t) = h[m + 1 + n] /\ Dropped(u) = f[m] /\ Dropped(v) = g[n]
  BY <1>2, <1>3, <1>4 DEF Keepings
<1> QED
  BY <1>8, <1>9 DEF t, Joined

LEMMA DictionaryOfWords == Barrier \notin Dictionary
<1> DEFINE phrases == OptOutPhrases \cup AbuseTerms \cup InternalInfoPhrases
                      \cup PromptInjectionPhrases
           templates == OptOutTemplates \cup InternalInfoTemplates \cup PromptInjectionTemplates
<1>1. ASSUME NEW phrase \in phrases
      PROVE  phrase.joined # Barrier /\ Barrier \notin WordsOf(phrase.words)
  <2>1. OfWordsOnly(phrase)
    <3>1. phrase \in SafetyPhrases
      BY DEF SafetyPhrases
    <3> HIDE DEF phrases
    <3> QED
      BY <3>1, PhrasesOfWords
  <2> HIDE DEF phrases
  <2> QED
    BY <2>1 DEF OfWordsOnly, WordsOf
<1>2. ASSUME NEW template \in templates PROVE Barrier \notin UNION WordsOf(template.groups)
  <2>1. OfWords(template)
    <3>1. template \in SafetyTemplates
      BY DEF SafetyTemplates
    <3> HIDE DEF templates
    <3> QED
      BY <3>1, TemplatesOfWords
  <2> HIDE DEF templates
  <2> QED
    BY <2>1 DEF OfWords, WordsOf
<1> DEFINE joined == {phrase.joined : phrase \in phrases}
           uttered == UNION {WordsOf(phrase.words) : phrase \in phrases}
           grouped == UNION {UNION WordsOf(template.groups) : template \in templates}
<1>3. SafetyVocabulary = joined \cup uttered \cup grouped
  BY DEF SafetyVocabulary
<1>4. Barrier \notin joined \cup uttered \cup grouped
  <2> HIDE DEF phrases, templates
  <2>1. Barrier \notin joined
    BY <1>1
  <2>2. Barrier \notin uttered
    BY <1>1, Zenon
  <2>3. Barrier \notin grouped
    BY <1>2, Zenon
  <2> HIDE DEF joined, uttered, grouped
  <2> QED
    BY <2>1, <2>2, <2>3
<1> HIDE DEF joined, uttered, grouped
<1> QED
  BY <1>3, <1>4 DEF Dictionary, Unknown, Barrier

LEMMA DroppedSeparates ==
  ASSUME NEW T, Dictionary \subseteq T, Barrier \in T
  PROVE  Separates([text \in Seq(T) |-> Dropped(text)], T)
<1> DEFINE r == [text \in Seq(T) |-> Dropped(text)]
<1>1. \A text \in Seq(T) : r[text] = Dropped(text)
  OBVIOUS
<1>2. r \in [Seq(T) -> Seq(T)]
  BY DroppedIn
<1> HIDE DEF r
<1>3. r[<<>>] = <<>>
  <2>1. <<>> \in Seq(T) /\ \A i \in 1..Len(<<>>) : <<>>[i] # Joint
    OBVIOUS
  <2> QED
    BY <1>1, <2>1, DroppedNone
<1>4. ASSUME NEW text \in Seq(T), Whole(text) PROVE Whole(r[text])
  <2>1. text \in Seq(T \ {Barrier}) /\ Dictionary \subseteq T \ {Barrier}
    BY <1>4, WholeIn, DictionaryOfWords
  <2>2. Dropped(text) \in Seq(T \ {Barrier})
    BY <2>1, DroppedIn
  <2>3. r[text] \in Seq(T) /\ r[text] = Dropped(text)
    BY <1>1, <1>2
  <2> QED
    BY <2>2, <2>3, WholeIn
<1>5. ASSUME NEW u \in Seq(T), NEW v \in Seq(T)
      PROVE  r[Joined(u, v)] = Joined(r[u], r[v])
  <2>1. Joined(u, v) \in Seq(T)
    BY JoinedWords
  <2>2. Dropped(Joined(u, v)) = Joined(Dropped(u), Dropped(v))
    BY DroppedJoined
  <2>3. r[u] = Dropped(u) /\ r[v] = Dropped(v) /\ r[Joined(u, v)] = Dropped(Joined(u, v))
    BY <1>1, <2>1
  <2> QED
    BY <2>2, <2>3
<1>6. Separates(r, T)
  BY <1>2, <1>3, <1>4, <1>5 DEF Separates
<1> QED
  BY <1>6 DEF r

-----------------------------------------------------------------------------
(***************************************************************************)
(* Words rejoined.  The rejoined words are a recursive function from the   *)
(* end of the text, which takes one word, two or three at a time.          *)
(***************************************************************************)
LEMMA Backwards ==
  ASSUME NEW N \in Nat, NEW Good \in SUBSET (1..N),
         \A i \in 1..N : (\A j \in (i + 1)..N : j \in Good) => i \in Good
  PROVE  Good = 1..N
<1> DEFINE Wrong == {k \in Nat : N - k \in (1..N) \ Good}
<1> SUFFICES ASSUME Wrong # {} PROVE FALSE
  <2>1. ASSUME NEW i \in (1..N) \ Good PROVE N - i \in Wrong
    <3>1. N - i \in Nat /\ N - (N - i) = i
      OBVIOUS
    <3> QED
      BY <3>1
  <2> QED
    BY <2>1
<1>1. PICK k \in Wrong : \A m \in Wrong : k =< m
  <2>1. Wrong \in SUBSET Nat
    OBVIOUS
  <2> HIDE DEF Wrong
  <2> QED
    BY <2>1, LeastNatural
<1>2. k \in Nat /\ N - k \in 1..N /\ N - k \notin Good
  OBVIOUS
<1>3. ASSUME NEW j \in (N - k + 1)..N PROVE j \in Good
  <2>1. N - j \in Nat /\ N - (N - j) = j /\ j \in 1..N /\ ~(k =< N - j)
    BY <1>2
  <2>2. N - j \notin Wrong
    <3> HIDE DEF Wrong
    <3> QED
      BY <1>1, <2>1
  <2> QED
    BY <2>1, <2>2
<1> QED
  BY <1>2, <1>3

\* g[i] is read from i on, the steps after i first.
Retraces(g, a, F, jump, N, V) ==
  /\ g \in [1..(N + 1) -> V]
  /\ g[N + 1] = a
  /\ \A i \in 1..N : g[i] = F[<<g[jump[i]], i>>]

LEMMA RetraceExists ==
  ASSUME NEW V, NEW a \in V, NEW N \in Nat, NEW F \in [V \X (1..N) -> V],
         NEW jump, \A i \in 1..N : jump[i] \in (i + 1)..(N + 1)
  PROVE  \E g : Retraces(g, a, F, jump, N, V)
<1> DEFINE From(k, g) == /\ g \in [k..(N + 1) -> V]
                         /\ g[N + 1] = a
                         /\ \A i \in k..N : g[i] = F[<<g[jump[i]], i>>]
           Good == {k \in 1..(N + 1) : \E g : From(k, g)}
<1>1. N + 1 \in Good
  <2>1. From(N + 1, [i \in (N + 1)..(N + 1) |-> a])
    OBVIOUS
  <2> QED
    BY <2>1
<1>2. ASSUME NEW k \in 1..N, k + 1 \in Good PROVE k \in Good
  <2>1. PICK g : From(k + 1, g)
    BY <1>2
  <2>2. jump[k] \in (k + 1)..(N + 1) /\ k \in 1..(N + 1)
    OBVIOUS
  <2>3. F[<<g[jump[k]], k>>] \in V
    BY <2>1, <2>2
  <2> DEFINE longer == [i \in k..(N + 1) |-> IF i = k THEN F[<<g[jump[k]], k>>] ELSE g[i]]
  <2>4. \A i \in k..(N + 1) : i # k => i \in (k + 1)..(N + 1)
    OBVIOUS
  <2>5. longer \in [k..(N + 1) -> V]
    BY <2>1, <2>3, <2>4
  <2>6. longer[N + 1] = a
    BY <2>1
  <2>7. ASSUME NEW i \in k..N PROVE longer[i] = F[<<longer[jump[i]], i>>]
    <3>1. i \in 1..N /\ jump[i] \in (i + 1)..(N + 1)
      OBVIOUS
    <3>2. jump[i] \in k..(N + 1) /\ jump[i] # k /\ i \in k..(N + 1)
      BY <3>1
    <3>3. longer[jump[i]] = g[jump[i]] /\ longer[i] = IF i = k THEN F[<<g[jump[k]], k>>] ELSE g[i]
      BY <3>2
    <3> HIDE DEF longer
    <3>4. CASE i = k
      BY <3>3, <3>4
    <3>5. CASE i # k
      <4>1. i \in (k + 1)..N
        BY <3>5
      <4> QED
        BY <2>1, <3>3, <3>5, <4>1
    <3> QED
      BY <3>4, <3>5
  <2>8. From(k, longer)
    BY <2>5, <2>6, <2>7
  <2> QED
    BY <2>2, <2>8
<1> HIDE DEF Good
<1>3. Good = 1..(N + 1)
  <2>1. N + 1 \in Nat /\ Good \in SUBSET (1..(N + 1))
    BY DEF Good
  <2>2. ASSUME NEW i \in 1..(N + 1), \A j \in (i + 1)..(N + 1) : j \in Good PROVE i \in Good
    <3>1. CASE i = N + 1
      BY <1>1, <3>1
    <3>2. CASE i # N + 1
      <4>1. i \in 1..N /\ i + 1 \in (i + 1)..(N + 1)
        BY <3>2
      <4> QED
        BY <1>2, <2>2, <4>1
    <3> QED
      BY <3>1, <3>2
  <2> QED
    BY <2>1, <2>2, Backwards
<1>4. PICK g : From(1, g)
  <2>1. 1 \in 1..(N + 1)
    OBVIOUS
  <2> QED
    BY <1>3, <2>1 DEF Good
<1> QED
  BY <1>4 DEF Retraces

\* The longest span that can be rejoined, and otherwise the word alone.
LEMMA SpanFits ==
  ASSUME NEW T, NEW words \in Seq(T), NEW i \in 1..Len(words)
  PROVE  /\ SpanAt(words, i) = IF Mergeable(words, i, 3) THEN 3
                               ELSE IF Mergeable(words, i, 2) THEN 2 ELSE 1
         /\ SpanAt(words, i) \in 1..3
         /\ i + SpanAt(words, i) \in (i + 1)..(Len(words) + 1)
<1> DEFINE right(span) == /\ span > 1 => Mergeable(words, i, span)
                          /\ \A longer \in (span + 1)..3 : ~Mergeable(words, i, longer)
           wanted == IF Mergeable(words, i, 3) THEN 3
                     ELSE IF Mergeable(words, i, 2) THEN 2 ELSE 1
<1>1. \A span \in 1..3 : right(span) <=> span = wanted
  <2>1. 1..3 = {1, 2, 3} /\ 2..3 = {2, 3} /\ 3..3 = {3} /\ 4..3 = {}
    OBVIOUS
  <2>2. right(1) <=> ~Mergeable(words, i, 2) /\ ~Mergeable(words, i, 3)
    BY <2>1
  <2>3. right(2) <=> Mergeable(words, i, 2) /\ ~Mergeable(words, i, 3)
    BY <2>1
  <2>4. right(3) <=> Mergeable(words, i, 3)
    BY <2>1
  <2> HIDE DEF right
  <2> QED
    BY <2>1, <2>2, <2>3, <2>4
<1>2. wanted \in 1..3
  OBVIOUS
<1>3. SpanAt(words, i) = CHOOSE span \in 1..3 : right(span)
  BY Zenon DEF SpanAt
<1>4. wanted > 1 => i + wanted - 1 =< Len(words)
  BY DEF Mergeable
<1>5. Len(words) \in Nat
  OBVIOUS
<1> HIDE DEF right, wanted
<1>6. SpanAt(words, i) = wanted
  BY <1>1, <1>2, <1>3
<1>7. i + wanted \in (i + 1)..(Len(words) + 1)
  BY <1>2, <1>4, <1>5
<1> QED
  BY <1>2, <1>6, <1>7 DEF wanted

LEMMA RejoinedIn ==
  ASSUME NEW T, Dictionary \subseteq T, NEW words \in Seq(T), NEW i \in 1..Len(words), NEW span
  PROVE  Rejoined(words, i, span) \in T
<1>1. words[i] \in T
  OBVIOUS
<1>2. \A fragments : WordSpelled(fragments) \in T
  BY SpelledKnown
<1> QED
  BY <1>1, <1>2, Zenon DEF Rejoined

\* g[i] is what the words from i on are rejoined to.
Merges(g, words, N, T) ==
  /\ g \in [1..(N + 1) -> Seq(T)]
  /\ g[N + 1] = <<>>
  /\ \A i \in 1..N :
       g[i] = <<Rejoined(words, i, SpanAt(words, i))>> \o g[i + SpanAt(words, i)]
  /\ Merged(words) = g[1]

LEMMA MergedRun ==
  ASSUME NEW T, Dictionary \subseteq T, NEW words \in Seq(T)
  PROVE  \E g : Merges(g, words, Len(words), T)
<1> DEFINE N == Len(words)
           spans == [i \in 1..Len(words) |-> SpanAt(words, i)]
           equation(g) == g = [i \in 1..(Len(words) + 1) |->
                                 IF i > Len(words) THEN <<>>
                                 ELSE <<Rejoined(words, i, spans[i])>> \o g[i + spans[i]]]
           run == CHOOSE g : equation(g)
           head(i) == <<Rejoined(words, i, spans[i])>>
           jump == [i \in 1..Len(words) |-> i + spans[i]]
<1>0. N \in Nat
  OBVIOUS
<1>1. \A i \in 1..N : spans[i] = SpanAt(words, i) /\ jump[i] = i + spans[i]
  OBVIOUS
<1>2. \A i \in 1..N : jump[i] \in (i + 1)..(N + 1)
  <2> HIDE DEF jump, spans
  <2> QED
    BY <1>1, SpanFits
<1>3. \A i \in 1..N : head(i) \in Seq(T)
  <2> HIDE DEF spans
  <2>1. \A i \in 1..N : Rejoined(words, i, spans[i]) \in T
    BY RejoinedIn
  <2> QED
    BY <2>1
<1>4. \A s \in Seq(T) : \A i \in 1..N : head(i) \o s \in Seq(T)
  <2> HIDE DEF head
  <2> QED
    BY <1>3
<1>5. \E g : equation(g)
  <2> DEFINE F == [p \in Seq(T) \X (1..N) |-> head(p[2]) \o p[1]]
  <2>1. F \in [Seq(T) \X (1..N) -> Seq(T)]
    <3> HIDE DEF head
    <3> QED
      BY <1>4
  <2>2. \A s \in Seq(T) : \A i \in 1..N : F[<<s, i>>] = head(i) \o s
    <3> HIDE DEF head
    <3> QED
      OBVIOUS
  <2>3. <<>> \in Seq(T)
    OBVIOUS
  <2> HIDE DEF F, N, head, spans, jump
  <2>4. PICK g : Retraces(g, <<>>, F, jump, N, Seq(T))
    BY <1>0, <1>2, <2>1, <2>3, RetraceExists
  <2>5. ASSUME NEW i \in 1..N PROVE g[i] = head(i) \o g[i + spans[i]]
    <3>1. jump[i] \in 1..(N + 1) /\ jump[i] = i + spans[i]
      BY <1>0, <1>1, <1>2
    <3>2. g[i] = F[<<g[jump[i]], i>>] /\ g[jump[i]] \in Seq(T)
      BY <2>4, <3>1 DEF Retraces
    <3> QED
      BY <2>2, <3>1, <3>2
  <2>6. ASSUME NEW i \in 1..(N + 1)
        PROVE  g[i] = IF i > N THEN <<>> ELSE head(i) \o g[i + spans[i]]
    <3>1. i > N => i = N + 1
      BY <1>0
    <3>2. ~(i > N) => i \in 1..N
      BY <1>0
    <3> QED
      BY <2>4, <2>5, <3>1, <3>2 DEF Retraces
  <2>7. g = [i \in 1..(N + 1) |-> IF i > N THEN <<>> ELSE head(i) \o g[i + spans[i]]]
    BY <2>4, <2>6 DEF Retraces
  <2> QED
    BY <2>7, Zenon DEF N, head
<1>6. Merged(words) = run[1]
  BY Zenon DEF Merged
<1>7. run = [i \in 1..(N + 1) |-> IF i > N THEN <<>> ELSE head(i) \o run[i + spans[i]]]
  <2>1. equation(run)
    <3> HIDE DEF equation
    <3> QED
      BY <1>5, Zenon
  <2> QED
    BY <2>1, Zenon
<1> HIDE DEF run, N, equation
<1>8. run[N + 1] = <<>> /\ \A i \in 1..N : run[i] = head(i) \o run[i + spans[i]]
  <2> HIDE DEF head, spans
  <2>1. \A i \in 1..(N + 1) : run[i] = IF i > N THEN <<>> ELSE head(i) \o run[i + spans[i]]
    BY <1>7, Zenon
  <2>2. N + 1 \in 1..(N + 1) /\ N + 1 > N /\ \A i \in 1..N : i \in 1..(N + 1) /\ ~(i > N)
    BY <1>0
  <2> QED
    BY <2>1, <2>2
<1>9. \A i \in 1..(N + 1) : run[i] \in Seq(T)
  <2> HIDE DEF head, spans, jump
  <2> DEFINE Good == {i \in 1..(N + 1) : run[i] \in Seq(T)}
  <2>1. N + 1 \in Good
    <3>1. N + 1 \in 1..(N + 1) /\ <<>> \in Seq(T)
      BY <1>0
    <3> QED
      BY <1>8, <3>1
  <2>2. ASSUME NEW i \in 1..(N + 1), \A j \in (i + 1)..(N + 1) : j \in Good PROVE i \in Good
    <3>1. CASE i = N + 1
      BY <2>1, <3>1
    <3>2. CASE i # N + 1
      <4>1. i \in 1..N
        BY <1>0, <3>2
      <4>2. i + spans[i] \in Good
        BY <1>1, <1>2, <2>2, <4>1
      <4> QED
        BY <1>4, <1>8, <4>1, <4>2
    <3> QED
      BY <3>1, <3>2
  <2>3. N + 1 \in Nat /\ Good \in SUBSET (1..(N + 1))
    BY <1>0
  <2> HIDE DEF Good
  <2>4. Good = 1..(N + 1)
    BY <2>2, <2>3, Backwards
  <2> QED
    BY <2>4 DEF Good
<1>10. run \in [1..(N + 1) -> Seq(T)]
  <2> HIDE DEF head, spans
  <2> QED
    BY <1>7, <1>9
<1>11. \A i \in 1..N : run[i] = <<Rejoined(words, i, SpanAt(words, i))>> \o run[i + SpanAt(words, i)]
  <2> HIDE DEF spans
  <2> QED
    BY <1>1, <1>8
<1> QED
  BY <1>6, <1>8, <1>10, <1>11 DEF N, Merges

LEMMA MergedIn ==
  ASSUME NEW T, Dictionary \subseteq T, NEW words \in Seq(T)
  PROVE  Merged(words) \in Seq(T)
<1>1. PICK g : Merges(g, words, Len(words), T)
  BY MergedRun
<1>2. 1 \in 1..(Len(words) + 1)
  OBVIOUS
<1> QED
  BY <1>1, <1>2 DEF Merges

\* The span of a at i stands in b, d words on.
Stands(a, b, d, i, span, T) ==
  /\ a \in Seq(T) /\ b \in Seq(T) /\ d \in Nat /\ i \in Nat /\ span \in 1..3
  /\ 1 =< i /\ i + span - 1 =< Len(a) /\ i + span - 1 + d =< Len(b)
  /\ \A k \in i..(i + span - 1) : b[k + d] = a[k]

\* A span is rejoined by its own words, wherever they stand.
LEMMA MergeableSame ==
  ASSUME NEW T, NEW a, NEW b, NEW d, NEW i, NEW span, Stands(a, b, d, i, span, T)
  PROVE  /\ Mergeable(b, i + d, span) <=> Mergeable(a, i, span)
         /\ Rejoined(b, i + d, span) = Rejoined(a, i, span)
<1> DEFINE last == i + span - 1
           piece == SubSeq(a, i, last)
           short(w) == w \in ShortWords \ MergeStopwords
           fragment(w) == w \in Fragments
           wanted == WordSpelled(Spelled(piece)) \notin BelowMinimum \cup {Unknown}
<1>0. /\ a \in Seq(T) /\ b \in Seq(T) /\ d \in Nat /\ i \in Nat /\ span \in 1..3
      /\ 1 =< i /\ i + span - 1 =< Len(a) /\ i + span - 1 + d =< Len(b)
      /\ \A k \in i..(i + span - 1) : b[k + d] = a[k]
  BY DEF Stands
<1>1. last \in Nat /\ i =< last /\ Len(a) \in Nat /\ Len(b) \in Nat
      /\ (i + d) + span - 1 = last + d
  BY <1>0
<1>2. SubSeq(b, i + d, last + d) = piece
  <2> HIDE DEF last
  <2>1. last =< Len(a) /\ last + d =< Len(b) /\ \A k \in i..last : b[k + d] = a[k]
    BY <1>0 DEF last
  <2> QED
    BY <1>0, <1>1, <2>1, SameStretch
<1>3. ASSUME NEW S
      PROVE  /\ (\A k \in (i + d)..(last + d) : b[k] \in S) <=> \A k \in i..last : a[k] \in S
             /\ (\E k \in (i + d)..(last + d) : b[k] \in S) <=> \E k \in i..last : a[k] \in S
  <2> HIDE DEF last
  <2>1. \A k \in i..last : k + d \in (i + d)..(last + d) /\ b[k + d] = a[k]
    BY <1>0, <1>1 DEF last
  <2>2. \A k \in (i + d)..(last + d) : k - d \in i..last /\ (k - d) + d = k
    BY <1>0, <1>1
  <2>3. \A k \in (i + d)..(last + d) : b[k] = a[k - d]
    BY <2>1, <2>2
  <2>4. (\A k \in (i + d)..(last + d) : b[k] \in S) <=> \A k \in i..last : a[k] \in S
    BY <2>1, <2>2, <2>3
  <2>5. (\E k \in (i + d)..(last + d) : b[k] \in S) <=> \E k \in i..last : a[k] \in S
    BY <2>1, <2>2, <2>3
  <2> QED
    BY <2>4, <2>5
<1>4. Mergeable(a, i, span) <=>
        /\ last =< Len(a)
        /\ \A k \in i..last : a[k] \in ShortWords \ MergeStopwords
        /\ \E k \in i..last : a[k] \in Fragments
        /\ wanted
  BY Zenon DEF Mergeable
<1>5. Mergeable(b, i + d, span) <=>
        /\ last + d =< Len(b)
        /\ \A k \in (i + d)..(last + d) : b[k] \in ShortWords \ MergeStopwords
        /\ \E k \in (i + d)..(last + d) : b[k] \in Fragments
        /\ wanted
  <2>1. (i + d) + span - 1 = last + d
    BY <1>1
  <2> HIDE DEF last, piece
  <2> QED
    BY <1>2, <2>1, Zenon DEF Mergeable
<1>6. last =< Len(a) /\ last + d =< Len(b)
  BY <1>0, <1>1
<1> HIDE DEF last, piece, wanted
<1>7. Mergeable(b, i + d, span) <=> Mergeable(a, i, span)
  BY <1>3, <1>4, <1>5, <1>6, Zenon
<1>8. Rejoined(b, i + d, span) = Rejoined(a, i, span)
  <2>1. b[i + d] = a[i]
    BY <1>0, <1>1 DEF last
  <2> QED
    BY <1>1, <1>2, <2>1, Zenon DEF Rejoined, piece, last
<1> QED
  BY <1>7, <1>8

\* What starts before a barrier ends before it, as if nothing came after.
LEMMA SpanBefore ==
  ASSUME NEW T, Barrier \in T, NEW u \in Seq(T), NEW v \in Seq(T), NEW i \in 1..Len(u)
  PROVE  /\ SpanAt(Joined(u, v), i) = SpanAt(u, i)
         /\ Rejoined(Joined(u, v), i, SpanAt(u, i)) = Rejoined(u, i, SpanAt(u, i))
<1> DEFINE t == Joined(u, v)
           m == Len(u)
<1>1. t \in Seq(T) /\ m \in Nat /\ Len(v) \in Nat /\ Len(t) = m + 1 + Len(v)
  BY JoinedWords
<1>2. (\A k \in 1..m : t[k] = u[k]) /\ t[m + 1] = Barrier
  BY JoinedWords
<1>3. i \in 1..Len(t) /\ i \in Nat /\ 1 =< i /\ i =< m
  BY <1>1
<1> HIDE DEF t, m
<1>4. ASSUME NEW span \in 1..3, i + span - 1 =< m
      PROVE  /\ Mergeable(t, i, span) <=> Mergeable(u, i, span)
             /\ Rejoined(t, i, span) = Rejoined(u, i, span)
  <2>1. /\ i + span - 1 =< Len(u) /\ i + span - 1 + 0 =< Len(t) /\ 0 \in Nat /\ i + 0 = i
        /\ \A k \in i..(i + span - 1) : k \in 1..m /\ k + 0 = k
    BY <1>1, <1>3, <1>4 DEF m
  <2>2. \A k \in i..(i + span - 1) : t[k + 0] = u[k]
    BY <1>2, <2>1
  <2>3. /\ Mergeable(t, i + 0, span) <=> Mergeable(u, i, span)
        /\ Rejoined(t, i + 0, span) = Rejoined(u, i, span)
    <3>1. Stands(u, t, 0, i, span, T)
      BY <1>1, <1>3, <2>1, <2>2 DEF Stands
    <3> QED
      BY <3>1, MergeableSame
  <2> QED
    BY <2>1, <2>3
<1>5. ASSUME NEW span \in 1..3, i + span - 1 > m
      PROVE  ~Mergeable(t, i, span) /\ ~Mergeable(u, i, span)
  <2>1. m + 1 \in i..(i + span - 1)
    BY <1>1, <1>3, <1>5
  <2>2. Barrier \notin ShortWords
    BY DEF Barrier, ShortWords, Fragments
  <2>3. ~Mergeable(u, i, span)
    BY <1>1, <1>3, <1>5 DEF Mergeable, m
  <2>4. ~Mergeable(t, i, span)
    BY <1>2, <2>1, <2>2 DEF Mergeable
  <2> QED
    BY <2>3, <2>4
<1>6. \A span \in 1..3 : Mergeable(t, i, span) <=> Mergeable(u, i, span)
  <2>1. \A span \in 1..3 : i + span - 1 =< m \/ i + span - 1 > m
    BY <1>1, <1>3
  <2> QED
    BY <1>4, <1>5, <2>1
<1>7. SpanAt(t, i) = SpanAt(u, i)
  <2>1. SpanAt(t, i) = IF Mergeable(t, i, 3) THEN 3 ELSE IF Mergeable(t, i, 2) THEN 2 ELSE 1
    BY <1>1, <1>3, SpanFits
  <2>2. SpanAt(u, i) = IF Mergeable(u, i, 3) THEN 3 ELSE IF Mergeable(u, i, 2) THEN 2 ELSE 1
    BY SpanFits
  <2> QED
    BY <1>6, <2>1, <2>2
<1>8. SpanAt(u, i) \in 1..3 /\ i + SpanAt(u, i) \in (i + 1)..(m + 1)
  BY SpanFits DEF m
<1>9. Rejoined(t, i, SpanAt(u, i)) = Rejoined(u, i, SpanAt(u, i))
  <2> DEFINE span == SpanAt(u, i)
  <2>1. span \in 1..3 /\ i + span - 1 =< m
    BY <1>1, <1>3, <1>8
  <2> HIDE DEF span
  <2>2. Rejoined(t, i, span) = Rejoined(u, i, span)
    BY <1>4, <2>1
  <2> QED
    BY <2>2 DEF span
<1> QED
  BY <1>7, <1>9 DEF t

\* What starts after a barrier is as if nothing came before.
LEMMA SpanAfter ==
  ASSUME NEW T, Barrier \in T, NEW u \in Seq(T), NEW v \in Seq(T), NEW i \in 1..Len(v)
  PROVE  /\ SpanAt(Joined(u, v), i + (Len(u) + 1)) = SpanAt(v, i)
         /\ Rejoined(Joined(u, v), i + (Len(u) + 1), SpanAt(v, i)) = Rejoined(v, i, SpanAt(v, i))
<1> DEFINE t == Joined(u, v)
           d == Len(u) + 1
           n == Len(v)
<1>1. t \in Seq(T) /\ d \in Nat /\ n \in Nat /\ Len(t) = d + n
  BY JoinedWords
<1>2. \A k \in 1..n : t[k + d] = v[k]
  <2>1. \A k \in 1..n : t[Len(u) + 1 + k] = v[k]
    BY JoinedWords
  <2>2. \A k \in 1..n : k + d = Len(u) + 1 + k
    OBVIOUS
  <2> QED
    BY <2>1, <2>2
<1>3. i \in Nat /\ 1 =< i /\ i =< n /\ i + d \in 1..Len(t)
  BY <1>1
<1> HIDE DEF t, d, n
<1>4. ASSUME NEW span \in 1..3
      PROVE  /\ Mergeable(t, i + d, span) <=> Mergeable(v, i, span)
             /\ i + span - 1 =< n => Rejoined(t, i + d, span) = Rejoined(v, i, span)
  <2>1. CASE i + span - 1 =< n
    <3>1. /\ i + span - 1 =< Len(v) /\ i + span - 1 + d =< Len(t)
          /\ \A k \in i..(i + span - 1) : k \in 1..n
      BY <1>1, <1>3, <2>1 DEF n
    <3>2. \A k \in i..(i + span - 1) : t[k + d] = v[k]
      BY <1>2, <3>1
    <3>3. Stands(v, t, d, i, span, T)
      BY <1>1, <1>3, <3>1, <3>2 DEF Stands
    <3> QED
      BY <3>3, MergeableSame
  <2>2. CASE i + span - 1 > n
    <3>1. ~(i + span - 1 =< Len(v)) /\ ~(i + d + span - 1 =< Len(t)) /\ ~(i + span - 1 =< n)
      BY <1>1, <1>3, <2>2 DEF n
    <3> QED
      BY <3>1 DEF Mergeable
  <2>3. i + span - 1 =< n \/ i + span - 1 > n
    BY <1>1, <1>3
  <2> QED
    BY <2>1, <2>2, <2>3
<1>5. SpanAt(t, i + d) = SpanAt(v, i)
  <2>1. SpanAt(t, i + d) = IF Mergeable(t, i + d, 3) THEN 3
                           ELSE IF Mergeable(t, i + d, 2) THEN 2 ELSE 1
    BY <1>1, <1>3, SpanFits
  <2>2. SpanAt(v, i) = IF Mergeable(v, i, 3) THEN 3 ELSE IF Mergeable(v, i, 2) THEN 2 ELSE 1
    BY SpanFits
  <2> QED
    BY <1>4, <2>1, <2>2
<1>6. SpanAt(v, i) \in 1..3 /\ i + SpanAt(v, i) \in (i + 1)..(n + 1)
  BY SpanFits DEF n
<1>7. Rejoined(t, i + d, SpanAt(v, i)) = Rejoined(v, i, SpanAt(v, i))
  <2> DEFINE span == SpanAt(v, i)
  <2>1. span \in 1..3 /\ i + span - 1 =< n
    BY <1>1, <1>3, <1>6
  <2> HIDE DEF span
  <2>2. Rejoined(t, i + d, span) = Rejoined(v, i, span)
    BY <1>4, <2>1
  <2> QED
    BY <2>2 DEF span
<1> QED
  BY <1>5, <1>7 DEF t, d

\* A barrier is rejoined with nothing.
LEMMA SpanOfBarrier ==
  ASSUME NEW T, NEW words \in Seq(T), NEW i \in 1..Len(words), words[i] = Barrier
  PROVE  SpanAt(words, i) = 1 /\ Rejoined(words, i, 1) = Barrier
<1>1. Barrier \notin ShortWords
  BY DEF Barrier, ShortWords, Fragments
<1>2. ASSUME NEW span \in 1..3 PROVE ~Mergeable(words, i, span)
  <2>1. i \in i..(i + span - 1)
    OBVIOUS
  <2> QED
    BY <1>1, <2>1 DEF Mergeable
<1>3. SpanAt(words, i) = 1
  <2>1. SpanAt(words, i) = IF Mergeable(words, i, 3) THEN 3
                           ELSE IF Mergeable(words, i, 2) THEN 2 ELSE 1
    BY SpanFits
  <2> QED
    BY <1>2, <2>1
<1> QED
  BY <1>3 DEF Rejoined

LEMMA MergedJoined ==
  ASSUME NEW T, Dictionary \subseteq T, Barrier \in T, NEW u \in Seq(T), NEW v \in Seq(T)
  PROVE  Merged(Joined(u, v)) = Joined(Merged(u), Merged(v))
<1> DEFINE t == Joined(u, v)
           m == Len(u)
           n == Len(v)
           d == m + 1
<1>1. t \in Seq(T) /\ m \in Nat /\ n \in Nat /\ Len(t) = d + n /\ t[d] = Barrier /\ d = m + 1
  BY JoinedWords
<1>2. \A i \in 1..m : /\ SpanAt(t, i) = SpanAt(u, i)
                      /\ Rejoined(t, i, SpanAt(u, i)) = Rejoined(u, i, SpanAt(u, i))
                      /\ i + SpanAt(u, i) \in (i + 1)..(m + 1)
  BY SpanBefore, SpanFits
<1>3. \A i \in 1..n : /\ SpanAt(t, i + d) = SpanAt(v, i)
                      /\ Rejoined(t, i + d, SpanAt(v, i)) = Rejoined(v, i, SpanAt(v, i))
                      /\ SpanAt(v, i) \in 1..3
                      /\ i + SpanAt(v, i) \in (i + 1)..(n + 1)
  BY SpanAfter, SpanFits
<1>4. PICK f : Merges(f, u, m, T)
  BY MergedRun
<1>5. PICK g : Merges(g, v, n, T)
  BY MergedRun
<1>6. PICK h : Merges(h, t, d + n, T)
  <2> HIDE DEF t
  <2>1. \E k : Merges(k, t, Len(t), T)
    BY <1>1, MergedRun
  <2> QED
    BY <1>1, <2>1
<1> HIDE DEF t, m, n, d
<1>7. \A i \in 1..(n + 1) : h[i + d] = g[i]
  <2> DEFINE Good == {i \in 1..(n + 1) : h[i + d] = g[i]}
  <2>1. n + 1 \in Good
    <3>1. n + 1 + d = d + n + 1 /\ n + 1 \in 1..(n + 1)
      BY <1>1
    <3>2. h[d + n + 1] = <<>> /\ g[n + 1] = <<>>
      BY <1>5, <1>6 DEF Merges
    <3> QED
      BY <3>1, <3>2
  <2>2. ASSUME NEW i \in 1..(n + 1), i # n + 1, \A j \in (i + 1)..(n + 1) : j \in Good
        PROVE  i \in Good
    <3> DEFINE s == SpanAt(v, i)
               x == Rejoined(v, i, s)
    <3>1. i \in 1..n /\ i + d \in 1..(d + n) /\ d \in Nat /\ n \in Nat
      BY <1>1, <2>2
    <3>2. s \in 1..3 /\ i + s \in (i + 1)..(n + 1)
      BY <1>3, <3>1
    <3>3. SpanAt(t, i + d) = s /\ Rejoined(t, i + d, s) = x
      BY <1>3, <3>1
    <3>4. g[i] = <<x>> \o g[i + s]
      BY <1>5, <3>1 DEF Merges
    <3>5. h[i + d] = <<x>> \o h[i + d + s]
      <4>1. h[i + d] = <<Rejoined(t, i + d, SpanAt(t, i + d))>> \o h[i + d + SpanAt(t, i + d)]
        BY <1>6, <3>1 DEF Merges
      <4> HIDE DEF s, x
      <4> QED
        BY <3>3, <4>1
    <3> HIDE DEF s, x
    <3>6. i + d + s = (i + s) + d
      BY <3>1, <3>2
    <3>7. h[(i + s) + d] = g[i + s]
      BY <2>2, <3>2
    <3> QED
      BY <3>4, <3>5, <3>6, <3>7
  <2>3. n + 1 \in Nat /\ Good \in SUBSET (1..(n + 1))
    BY <1>1
  <2> HIDE DEF Good
  <2>4. Good = 1..(n + 1)
    BY <2>1, <2>2, <2>3, Backwards
  <2> QED
    BY <2>4 DEF Good
<1> DEFINE tail == <<Barrier>> \o g[1]
<1>8. h[d] = tail
  <2>1. d \in 1..(d + n) /\ 1 \in 1..(n + 1) /\ d + 1 = 1 + d /\ d \in 1..Len(t)
    BY <1>1
  <2>2. SpanAt(t, d) = 1 /\ Rejoined(t, d, 1) = Barrier
    BY <1>1, <2>1, SpanOfBarrier
  <2>3. h[d] = <<Rejoined(t, d, SpanAt(t, d))>> \o h[d + SpanAt(t, d)]
    BY <1>6, <2>1 DEF Merges
  <2> QED
    BY <1>7, <2>1, <2>2, <2>3
<1>9. /\ \A i \in 1..(m + 1) : f[i] \in Seq(T)
      /\ g[1] \in Seq(T) /\ tail \in Seq(T)
  <2>1. 1 \in 1..(n + 1)
    BY <1>1
  <2>2. g[1] \in Seq(T) /\ \A i \in 1..(m + 1) : f[i] \in Seq(T)
    BY <1>4, <1>5, <2>1 DEF Merges
  <2> DEFINE a == g[1]
  <2>3. a \in Seq(T)
    BY <2>2
  <2> HIDE DEF a
  <2>4. <<Barrier>> \o a \in Seq(T)
    BY <2>3
  <2> QED
    BY <2>2, <2>4 DEF a
<1>10. \A i \in 1..(m + 1) : h[i] = f[i] \o tail
  <2> HIDE DEF tail
  <2> DEFINE Good == {i \in 1..(m + 1) : h[i] = f[i] \o tail}
  <2>1. m + 1 \in Good
    <3>1. m + 1 \in 1..(m + 1) /\ d = m + 1
      BY <1>1
    <3>2. f[m + 1] = <<>> /\ <<>> \o tail = tail
      BY <1>4, <1>9 DEF Merges
    <3> QED
      BY <1>8, <3>1, <3>2
  <2>2. ASSUME NEW i \in 1..(m + 1), i # m + 1, \A j \in (i + 1)..(m + 1) : j \in Good
        PROVE  i \in Good
    <3> DEFINE s == SpanAt(u, i)
               x == Rejoined(u, i, s)
               rest == f[i + s]
    <3>1. i \in 1..m /\ i \in 1..(d + n)
      BY <1>1, <2>2
    <3>2. i + s \in (i + 1)..(m + 1) /\ i + s \in 1..(m + 1)
      BY <1>2, <3>1
    <3>3. SpanAt(t, i) = s /\ Rejoined(t, i, s) = x
      BY <1>2, <3>1
    <3>4. f[i] = <<x>> \o rest
      BY <1>4, <3>1 DEF Merges
    <3>5. h[i] = <<x>> \o h[i + s]
      <4>1. h[i] = <<Rejoined(t, i, SpanAt(t, i))>> \o h[i + SpanAt(t, i)]
        BY <1>6, <3>1 DEF Merges
      <4> HIDE DEF s, x
      <4> QED
        BY <3>3, <4>1
    <3>6. h[i + s] = rest \o tail
      BY <2>2, <3>2
    <3>7. x \in T /\ rest \in Seq(T)
      <4>1. \A w \in Seq(T) : \A k \in 1..Len(w), l \in 1..3 : Rejoined(w, k, l) \in T
        BY RejoinedIn
      <4>2. s \in 1..3
        BY <3>1, SpanFits DEF m
      <4>3. x \in T
        BY <3>1, <4>1, <4>2 DEF m
      <4> QED
        BY <1>9, <3>2, <4>3
    <3> HIDE DEF s, x, rest
    <3>8. <<x>> \o (rest \o tail) = (<<x>> \o rest) \o tail
      <4>1. <<x>> \in Seq(T)
        BY <3>7
      <4> QED
        BY <1>9, <3>7, <4>1, ConcatAssociative
    <3> QED
      BY <3>4, <3>5, <3>6, <3>8
  <2>3. m + 1 \in Nat /\ Good \in SUBSET (1..(m + 1))
    BY <1>1
  <2> HIDE DEF Good
  <2>4. Good = 1..(m + 1)
    BY <2>1, <2>2, <2>3, Backwards
  <2> QED
    BY <2>4 DEF Good
<1>11. h[1] = f[1] \o tail /\ f[1] \in Seq(T)
  <2>1. 1 \in 1..(m + 1)
    BY <1>1
  <2> QED
    BY <1>9, <1>10, <2>1
<1>12. f[1] \o tail = Joined(f[1], g[1])
  <2> DEFINE a == f[1]
             b == g[1]
  <2>1. a \in Seq(T) /\ b \in Seq(T) /\ <<Barrier>> \in Seq(T)
    BY <1>9, <1>11
  <2> HIDE DEF a, b
  <2>2. a \o (<<Barrier>> \o b) = (a \o <<Barrier>>) \o b
    BY <2>1, ConcatAssociative
  <2> QED
    BY <2>2 DEF Joined, a, b
<1>13. Merged(t) = h[1] /\ Merged(u) = f[1] /\ Merged(v) = g[1]
  BY <1>4, <1>5, <1>6 DEF Merges
<1> QED
  BY <1>11, <1>12, <1>13 DEF t

LEMMA MergedSeparates ==
  ASSUME NEW T, Dictionary \subseteq T, Barrier \in T
  PROVE  Separates([text \in Seq(T) |-> Merged(text)], T)
<1> DEFINE r == [text \in Seq(T) |-> Merged(text)]
<1>1. \A text \in Seq(T) : r[text] = Merged(text)
  OBVIOUS
<1>2. r \in [Seq(T) -> Seq(T)]
  BY MergedIn
<1> HIDE DEF r
<1>3. r[<<>>] = <<>>
  <2>1. <<>> \in Seq(T) /\ Len(<<>>) = 0
    OBVIOUS
  <2>2. PICK g : Merges(g, <<>>, 0, T)
    BY <2>1, MergedRun
  <2> QED
    BY <1>1, <2>1, <2>2 DEF Merges
<1>4. ASSUME NEW text \in Seq(T), Whole(text) PROVE Whole(r[text])
  <2>1. text \in Seq(T \ {Barrier}) /\ Dictionary \subseteq T \ {Barrier}
    BY <1>4, WholeIn, DictionaryOfWords
  <2>2. Merged(text) \in Seq(T \ {Barrier})
    BY <2>1, MergedIn
  <2>3. r[text] \in Seq(T) /\ r[text] = Merged(text)
    BY <1>1, <1>2
  <2> QED
    BY <2>2, <2>3, WholeIn
<1>5. ASSUME NEW u \in Seq(T), NEW v \in Seq(T)
      PROVE  r[Joined(u, v)] = Joined(r[u], r[v])
  <2>1. Joined(u, v) \in Seq(T)
    BY JoinedWords
  <2>2. Merged(Joined(u, v)) = Joined(Merged(u), Merged(v))
    BY MergedJoined
  <2>3. r[u] = Merged(u) /\ r[v] = Merged(v) /\ r[Joined(u, v)] = Merged(Joined(u, v))
    BY <1>1, <2>1
  <2> QED
    BY <2>2, <2>3
<1>6. Separates(r, T)
  BY <1>2, <1>3, <1>4, <1>5 DEF Separates
<1> QED
  BY <1>6 DEF r

-----------------------------------------------------------------------------
(***************************************************************************)
(* What is heard in the readings of a text.                                *)
(***************************************************************************)
\* The ways a text is read in, one for each of its readings.
Ways(T) ==
  LET dropped == [text \in Seq(T) |-> Dropped(text)]
      spaced == [text \in Seq(T) |-> Spaced(text)]
      merged == [text \in Seq(T) |-> Merged(text)]
  IN {dropped, spaced, [text \in Seq(T) |-> merged[dropped[text]]],
      [text \in Seq(T) |-> merged[spaced[text]]]}

LEMMA WaysSeparate ==
  ASSUME NEW T, Dictionary \subseteq T, Barrier \in T
  PROVE  \A r \in Ways(T) : Separates(r, T)
<1> DEFINE dropped == [text \in Seq(T) |-> Dropped(text)]
           spaced == [text \in Seq(T) |-> Spaced(text)]
           merged == [text \in Seq(T) |-> Merged(text)]
           dropmerged == [text \in Seq(T) |-> merged[dropped[text]]]
           spacemerged == [text \in Seq(T) |-> merged[spaced[text]]]
<1>1. Separates(dropped, T)
  BY DroppedSeparates
<1>2. Separates(spaced, T)
  <2>1. Separates([text \in Seq(T) |-> Without(text, Joint)], T)
    <3>1. Joint # Barrier
      BY DEF Joint, Barrier
    <3> QED
      BY <3>1, WithoutSeparates
  <2> QED
    BY <2>1 DEF Spaced
<1>3. Separates(merged, T)
  BY MergedSeparates
<1> HIDE DEF dropped, spaced, merged
<1>4. Separates(dropmerged, T) /\ Separates(spacemerged, T)
  <2>1. Separates(dropmerged, T)
    BY <1>1, <1>3, SeparatesTwice
  <2>2. Separates(spacemerged, T)
    BY <1>2, <1>3, SeparatesTwice
  <2> QED
    BY <2>1, <2>2
<1>5. Ways(T) = {dropped, spaced, dropmerged, spacemerged}
  BY DEF Ways, dropped, spaced, merged
<1> HIDE DEF dropmerged, spacemerged
<1> QED
  BY <1>1, <1>2, <1>4, <1>5

LEMMA ReadingsByWay ==
  ASSUME NEW T, Dictionary \subseteq T, NEW text \in Seq(T)
  PROVE  Readings(text) = {r[text] : r \in Ways(T)}
<1> DEFINE dropped == [t \in Seq(T) |-> Dropped(t)]
           spaced == [t \in Seq(T) |-> Spaced(t)]
           merged == [t \in Seq(T) |-> Merged(t)]
           dropmerged == [t \in Seq(T) |-> merged[dropped[t]]]
           spacemerged == [t \in Seq(T) |-> merged[spaced[t]]]
<1>1. Dropped(text) \in Seq(T) /\ Spaced(text) \in Seq(T)
  BY DroppedIn, WithoutIn DEF Spaced
<1>2. /\ dropped[text] = Dropped(text) /\ spaced[text] = Spaced(text)
      /\ dropmerged[text] = Merged(Dropped(text)) /\ spacemerged[text] = Merged(Spaced(text))
  BY <1>1
<1>3. Ways(T) = {dropped, spaced, dropmerged, spacemerged}
  BY DEF Ways
<1>4. {r[text] : r \in Ways(T)}
        = {Dropped(text), Spaced(text), Merged(Dropped(text)), Merged(Spaced(text))}
  <2> HIDE DEF dropped, spaced, merged, dropmerged, spacemerged
  <2> QED
    BY <1>2, <1>3
<1>5. Joint \notin WordsOf(text) => Dropped(text) = text /\ Spaced(text) = text
  <2> SUFFICES ASSUME Joint \notin WordsOf(text)
               PROVE  Dropped(text) = text /\ Spaced(text) = text
    OBVIOUS
  <2>1. \A i \in 1..Len(text) : text[i] # Joint
    BY DEF WordsOf
  <2>2. Dropped(text) = text
    BY <2>1, DroppedNone
  <2>3. Spaced(text) = text
    BY <2>1, WithoutNone DEF Spaced
  <2> QED
    BY <2>2, <2>3
<1>6. Readings(text) = {Dropped(text), Spaced(text), Merged(Dropped(text)), Merged(Spaced(text))}
  <2> DEFINE plain == {Dropped(text)} \cup (IF Joint \in WordsOf(text) THEN {Spaced(text)} ELSE {})
  <2>1. Readings(text) = plain \cup {Merged(words) : words \in plain}
    BY Zenon DEF Readings, WithMerged
  <2>2. plain = {Dropped(text), Spaced(text)}
    BY <1>5
  <2> HIDE DEF plain
  <2> QED
    BY <2>1, <2>2
<1> QED
  BY <1>4, <1>6

LEMMA ClausesIn ==
  ASSUME NEW T, NEW text \in Seq(T), NEW clause \in Clauses(text)
  PROVE  clause \in Seq(T)
<1>1. PICK p, q \in 1..Len(text) : Bounds(text, p, q) /\ clause = SubSeq(text, p, q)
  BY ClausesBounded
<1>2. Len(text) \in Nat /\ \A j \in p..q : text[j] \in T
  OBVIOUS
<1> QED
  BY <1>1, <1>2, SubSeqProperties

\* Hearing is what is heard in one reading.
Hearing(words, phrases, templates) ==
  ContainsPhrase(words, phrases) \/ \E template \in templates : Matches(words, template)

LEMMA HearingByReading ==
  ASSUME NEW text, ~Obfuscated(Normal(text)), NEW phrases, NEW templates
  PROVE  Heard(Forms(text), phrases, templates)
           <=> \E words \in Readings(text) : Hearing(words, phrases, templates)
<1>1. Forms(text).readings = Readings(text) /\ Forms(text).normal = Normal(text)
  BY DEF Forms
<1> QED
  BY <1>1, Zenon DEF Heard, ContainsAnyForm, MatchesAny, Hearing

LEMMA HearingByClause ==
  ASSUME NEW S, NEW words \in Seq(S),
         NEW phrases \in SUBSET SafetyPhrases, NEW templates \in SUBSET SafetyTemplates
  PROVE  Hearing(words, phrases, templates)
           <=> \E clause \in Clauses(words) : Hearing(clause, phrases, templates)
<1>1. ContainsPhrase(words, phrases)
        <=> \E clause \in Clauses(words) : ContainsPhrase(clause, phrases)
  BY PhrasesOfWords, PhrasesStayInClause
<1>2. \A t \in templates :
        Matches(words, t) <=> \E clause \in Clauses(words) : Matches(clause, t)
  BY TemplatesOfWords, TemplatesStayInClause
<1> QED
  BY <1>1, <1>2, Zenon DEF Hearing

LEMMA HearingNothing ==
  ASSUME NEW phrases, NEW templates
  PROVE  ~Hearing(<<>>, phrases, templates)
<1>1. 1..Len(<<>>) = {}
  OBVIOUS
<1> QED
  BY <1>1 DEF Hearing, ContainsPhrase, Matches

\* Fragments are a run in a part of a text only if they are one in the text.
LEMMA ObfuscatedPart ==
  ASSUME NEW T, NEW a \in Seq(T), NEW b \in Seq(T), Obfuscated(a) \/ Obfuscated(b)
  PROVE  Obfuscated(a \o b)
<1> DEFINE w == a \o b
           m == Len(a)
           n == Len(b)
<1>1. /\ m \in Nat /\ n \in Nat /\ Len(w) = m + n
      /\ \A k \in 1..m : w[k] = a[k]
  OBVIOUS
<1>2. \A k \in 1..n : w[m + k] = b[k]
  OBVIOUS
<1> HIDE DEF w
<1>3. CASE Obfuscated(a)
  <2>1. PICK i, j \in 1..m : /\ i + 2 =< j
                             /\ \A k \in i..j : a[k] \in Fragments
                             /\ \E k \in i..j : a[k] \notin MergeStopwords
    BY <1>3 DEF Obfuscated
  <2>2. i \in 1..Len(w) /\ j \in 1..Len(w) /\ \A k \in i..j : k \in 1..m /\ w[k] = a[k]
    BY <1>1
  <2>3. Obfuscated(w)
    BY <2>1, <2>2 DEF Obfuscated
  <2> QED
    BY <2>3 DEF w
<1>4. CASE Obfuscated(b)
  <2>1. PICK i, j \in 1..n : /\ i + 2 =< j
                             /\ \A k \in i..j : b[k] \in Fragments
                             /\ \E k \in i..j : b[k] \notin MergeStopwords
    BY <1>4 DEF Obfuscated
  <2>2. m + i \in 1..Len(w) /\ m + j \in 1..Len(w) /\ m + i + 2 =< m + j
    BY <1>1, <2>1
  <2>3. \A k \in (m + i)..(m + j) : k - m \in i..j /\ k - m \in 1..n /\ m + (k - m) = k
    BY <1>1
  <2>4. \A k \in (m + i)..(m + j) : w[k] \in Fragments
    BY <1>2, <2>1, <2>3
  <2>5. \E k \in (m + i)..(m + j) : w[k] \notin MergeStopwords
    <3>1. PICK k \in i..j : b[k] \notin MergeStopwords
      BY <2>1
    <3>2. m + k \in (m + i)..(m + j) /\ k \in 1..n
      BY <1>1
    <3> QED
      BY <1>2, <3>1, <3>2
  <2>6. Obfuscated(w)
    BY <2>2, <2>4, <2>5 DEF Obfuscated
  <2> QED
    BY <2>6 DEF w
<1> QED
  BY <1>3, <1>4 DEF w

LEMMA NormalJoined ==
  ASSUME NEW T, Dictionary \subseteq T, Barrier \in T, NEW u \in Seq(T), NEW v \in Seq(T)
  PROVE  /\ Normal(Joined(u, v)) = Normal(u) \o Normal(v)
         /\ Normal(u) \in Seq(T) /\ Normal(v) \in Seq(T)
<1> DEFINE a == Dropped(u)
           b == Dropped(v)
           bar == <<Barrier>>
           c == a \o bar
<1>0. ASSUME NEW p \in Seq(T), NEW q \in Seq(T)
      PROVE  Without(p \o q, Barrier) = Without(p, Barrier) \o Without(q, Barrier)
  BY WithoutConcat
<1>1. a \in Seq(T) /\ b \in Seq(T) /\ bar \in Seq(T)
  BY DroppedIn
<1>2. Dropped(Joined(u, v)) = c \o b
  BY DroppedJoined DEF Joined
<1>3. Without(bar, Barrier) = <<>>
  BY WithoutSingle
<1> HIDE DEF a, b, bar
<1>4. c \in Seq(T) /\ Without(c, Barrier) = Without(a, Barrier) \o Without(bar, Barrier)
  <2>1. c \in Seq(T)
    BY <1>1
  <2>2. Without(c, Barrier) = Without(a, Barrier) \o Without(bar, Barrier)
    BY <1>0, <1>1
  <2> QED
    BY <2>1, <2>2
<1> HIDE DEF c
<1>5. Without(c \o b, Barrier) = Without(c, Barrier) \o Without(b, Barrier)
  BY <1>0, <1>1, <1>4
<1> DEFINE x == Without(a, Barrier)
           y == Without(b, Barrier)
<1>6. x \in Seq(T) /\ y \in Seq(T)
  BY <1>1, WithoutIn
<1> HIDE DEF x, y
<1>7. x \o <<>> = x
  BY <1>6
<1>8. Without(c \o b, Barrier) = x \o y
  BY <1>3, <1>4, <1>5, <1>7 DEF x, y
<1>9. /\ Normal(Joined(u, v)) = Without(c \o b, Barrier)
      /\ Normal(u) = x /\ Normal(v) = y
  BY <1>2 DEF Normal, x, y, a, b
<1> QED
  BY <1>6, <1>8, <1>9

LEMMA ObfuscatedByClause ==
  ASSUME NEW T, Dictionary \subseteq T, Barrier \in T, NEW text \in Seq(T),
         NEW clause \in Clauses(text), Obfuscated(Normal(clause))
  PROVE  Obfuscated(Normal(text))
<1> DEFINE Right(t) == (\E c \in Clauses(t) : Obfuscated(Normal(c))) => Obfuscated(Normal(t))
           Wrong == {n \in Nat : \E t \in Seq(T) : Len(t) = n /\ ~Right(t)}
<1>1. ASSUME NEW t \in Seq(T), Whole(t) PROVE Right(t)
  <2>1. \A c \in Clauses(t) : c = t
    BY <1>1, ClausesOfWhole
  <2> QED
    BY <2>1
<1>2. ASSUME NEW u \in Seq(T), NEW v \in Seq(T), Right(u), Right(v) PROVE Right(Joined(u, v))
  <2>1. Clauses(Joined(u, v)) = Clauses(u) \cup Clauses(v)
    BY ClausesOfJoined
  <2>2. /\ Normal(Joined(u, v)) = Normal(u) \o Normal(v)
        /\ Normal(u) \in Seq(T) /\ Normal(v) \in Seq(T)
    BY NormalJoined
  <2>3. Obfuscated(Normal(u)) \/ Obfuscated(Normal(v)) => Obfuscated(Normal(u) \o Normal(v))
    BY <2>2, ObfuscatedPart
  <2> QED
    BY <1>2, <2>1, <2>2, <2>3
<1> HIDE DEF Right
<1>3. Wrong = {}
  <2> SUFFICES ASSUME Wrong # {} PROVE FALSE
    OBVIOUS
  <2>1. PICK n \in Wrong : \A m \in Wrong : n =< m
    <3>1. Wrong \in SUBSET Nat
      OBVIOUS
    <3> HIDE DEF Wrong
    <3> QED
      BY <3>1, LeastNatural
  <2>2. PICK t \in Seq(T) : Len(t) = n /\ ~Right(t)
    OBVIOUS
  <2>3. PICK u, v \in Seq(T) : t = Joined(u, v) /\ Len(u) < Len(t) /\ Len(v) < Len(t)
    BY <1>1, <2>2, SplitText
  <2>4. Len(u) \in Nat /\ Len(v) \in Nat /\ n \in Nat
    OBVIOUS
  <2>5. Right(u) /\ Right(v)
    BY <2>1, <2>2, <2>3, <2>4
  <2> QED
    BY <1>2, <2>2, <2>3, <2>5
<1>4. Right(text)
  <2>1. Len(text) \in Nat
    OBVIOUS
  <2> QED
    BY <1>3, <2>1
<1> QED
  BY <1>4 DEF Right

\* What safety hears in a text it hears in a clause, for every table and every length:
\* the clause before and the clause after neither make a phrase or template nor
\* unmake one, in any reading.
THEOREM SafetyHearsByClause ==
  ASSUME NEW S, NEW text \in Seq(S), ~Obfuscated(Normal(text)),
         NEW phrases \in SUBSET SafetyPhrases, NEW templates \in SUBSET SafetyTemplates
  PROVE  Heard(Forms(text), phrases, templates)
           <=> \E clause \in Clauses(text) : Heard(Forms(clause), phrases, templates)
<1> DEFINE T == S \cup Dictionary \cup {Barrier}
           hears(words) == Hearing(words, phrases, templates)
<1>1. text \in Seq(T) /\ Dictionary \subseteq T /\ Barrier \in T
  <2>1. Len(text) \in Nat /\ text = [i \in 1..Len(text) |-> text[i]]
        /\ \A i \in 1..Len(text) : text[i] \in S
    OBVIOUS
  <2>2. \A i \in 1..Len(text) : text[i] \in T
    BY <2>1
  <2> HIDE DEF T
  <2>3. text \in Seq(T)
    BY <2>1, <2>2
  <2> QED
    BY <2>3 DEF T
<1> HIDE DEF T
<1>2. \A clause \in Clauses(text) : clause \in Seq(T)
  BY <1>1, ClausesIn
<1>3. \A r \in Ways(T) : Separates(r, T)
  BY <1>1, WaysSeparate
<1>4. \A r \in Ways(T) : r[text] \in Seq(T)
  BY <1>1, <1>3 DEF Separates
<1>5. Heard(Forms(text), phrases, templates) <=> \E r \in Ways(T) : hears(r[text])
  <2>1. Readings(text) = {r[text] : r \in Ways(T)}
    BY <1>1, ReadingsByWay
  <2> HIDE DEF hears
  <2>2. Heard(Forms(text), phrases, templates) <=> \E words \in Readings(text) : hears(words)
    BY HearingByReading DEF hears
  <2> QED
    BY <2>1, <2>2
<1>6. ASSUME NEW clause \in Clauses(text)
      PROVE  Heard(Forms(clause), phrases, templates) <=> \E r \in Ways(T) : hears(r[clause])
  <2>1. Readings(clause) = {r[clause] : r \in Ways(T)}
    BY <1>1, <1>2, ReadingsByWay
  <2>2. ~Obfuscated(Normal(clause))
    BY <1>1, ObfuscatedByClause
  <2> HIDE DEF hears
  <2>3. Heard(Forms(clause), phrases, templates) <=> \E words \in Readings(clause) : hears(words)
    BY <2>2, HearingByReading DEF hears
  <2> QED
    BY <2>1, <2>3
<1>7. ASSUME NEW r \in Ways(T)
      PROVE  hears(r[text]) <=> \E clause \in Clauses(text) : hears(r[clause])
  <2>1. hears(r[text]) <=> \E c \in Clauses(r[text]) : hears(c)
    BY <1>4, HearingByClause
  <2>2. ReadsByClause(r, text)
    BY <1>1, <1>3, ClausesRead
  <2>3. ~hears(<<>>)
    BY HearingNothing
  <2> HIDE DEF hears
  <2> QED
    BY <2>1, <2>2, <2>3 DEF ReadsByClause
<1> HIDE DEF hears
<1> QED
  BY <1>5, <1>6, <1>7

\* Whatever a buyer dictates, a safety rule is heard in it exactly when it is heard in
\* one of its clauses: rules.py:1435, 2066, 2260.
THEOREM ClausesBound == ConversationSpec => []ClauseBound
<1>1. ConversationTypeOK => ClauseBound
  <2> SUFFICES ASSUME ConversationTypeOK, ~Obfuscated(Normal(saying)) PROVE ClauseBound
    BY DEF ClauseBound
  <2>1. saying \in Seq(Alphabet)
    BY DEF ConversationTypeOK
  <2>2. /\ OptOutPhrases \in SUBSET SafetyPhrases /\ OptOutTemplates \in SUBSET SafetyTemplates
        /\ AbuseTerms \in SUBSET SafetyPhrases /\ AbuseTemplates \in SUBSET SafetyTemplates
        /\ InternalInfoPhrases \in SUBSET SafetyPhrases
        /\ InternalInfoTemplates \in SUBSET SafetyTemplates
    BY DEF SafetyPhrases, SafetyTemplates
  <2> DEFINE Bound(phrases, templates) ==
               Heard(Forms(saying), phrases, templates)
                 <=> \E clause \in Clauses(saying) : Heard(Forms(clause), phrases, templates)
  <2>3. /\ Bound(OptOutPhrases, OptOutTemplates) /\ Bound(AbuseTerms, AbuseTemplates)
        /\ Bound(InternalInfoPhrases, InternalInfoTemplates)
    BY <2>1, <2>2, SafetyHearsByClause
  <2> HIDE DEF Bound
  <2>4. \A kind \in {<<OptOutPhrases, OptOutTemplates>>, <<AbuseTerms, AbuseTemplates>>,
                     <<InternalInfoPhrases, InternalInfoTemplates>>} : Bound(kind[1], kind[2])
    BY <2>3
  <2> QED
    BY <2>4, Zenon DEF ClauseBound, Bound
<1> QED
  BY <1>1, ConversationTypes, PTL
=============================================================================
