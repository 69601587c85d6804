----------------------------- MODULE EventStore -----------------------------
(***************************************************************************)
(* storage/repository.py: the append-only event store behind every         *)
(* conversation, with the privacy operations an operator runs beside it.   *)
(*                                                                         *)
(* Several writers (worker threads of the API process, the operator's CLI) *)
(* share one database and no lock.  append() is two steps apart in time:   *)
(* an unlocked SELECT of the aggregate head, then one transaction that     *)
(* compares and sets the head and inserts the event.  Its refusal after a  *)
(* lost race is a third step, with a read of its own.  Each remaining      *)
(* statement group between BEGIN and COMMIT is one step, because the       *)
(* database serialises write transactions.                                 *)
(***************************************************************************)
EXTENDS Naturals, Sequences, FiniteSets

CONSTANTS Leads,        \* aggregate ids
          Writers,      \* concurrent callers of append()
          Types,        \* aggregate types
          Kinds,        \* event types
          Protected,    \* PROTECTED_RETENTION_EVENT_TYPES
          Times,        \* occurred_at and cutoff instants
          MaxVersion,   \* bound: no append starts on a lead with this many
          Requests,     \* the arguments append() is called with
          NoType,       \* the aggregate row does not exist
          AnyVersion    \* expected_version=None

ASSUME BoundAssumption == MaxVersion \in Nat \ {0}
ASSUME ProtectedAssumption == Protected \subseteq Kinds
ASSUME TimesAssumption == Times \subseteq Nat
ASSUME SentinelAssumption == NoType \notin Types /\ AnyVersion \notin Nat
ASSUME RequestsAssumption ==
  Requests \subseteq [lead : Leads, type : Types, kind : Kinds, at : Times,
                      expected : Nat \cup {AnyVersion}]

VARIABLES aggType,      \* aggregate_records.aggregate_type, NoType: no row
          version,      \* aggregate_records.current_version, 0: no row
          privacy,      \* aggregate_records.privacy_state
          events,       \* event_records
          operations,   \* privacy_operation_records, oldest first
          call,         \* each writer's append(), running or answered
          purging,      \* cutoffs a purge_expired() has counted for
          purged        \* history: versions a purge has deleted

heads == <<aggType, version, privacy>>
vars == <<aggType, version, privacy, events, operations, call, purging, purged>>

Versions == 1..MaxVersion
PrivacyStates == {"active", "anonymized", "hard-deleted"}

Event == [version : Versions, kind : Kinds, at : Times,
          content : {"payload", "anonymized"}]

Operation == [operation : {"anonymized", "hard-deleted"}, affected : Nat]

\* `head` is the current_version the call has read: an "ok" call was answered
\* with event number head + 1.
Running == {"write", "refused"}
Answers == {"ok", "type", "closed", "expected", "conflict", "error"}
Call == [stage : Running \cup Answers, to : Requests, head : 0..MaxVersion]
NoCall == [stage |-> "none"]

TypeOK ==
  /\ aggType \in [Leads -> Types \cup {NoType}]
  /\ version \in [Leads -> 0..MaxVersion]
  /\ privacy \in [Leads -> PrivacyStates]
  /\ events \in [Leads -> SUBSET Event]
  /\ operations \in [Leads -> Seq(Operation)]
  /\ call \in [Writers -> {NoCall} \cup Call]
  /\ purging \in SUBSET Times
  /\ purged \in [Leads -> SUBSET Versions]

Init ==
  /\ aggType = [l \in Leads |-> NoType]
  /\ version = [l \in Leads |-> 0]
  /\ privacy = [l \in Leads |-> "active"]
  /\ events = [l \in Leads |-> {}]
  /\ operations = [l \in Leads |-> <<>>]
  /\ call = [w \in Writers |-> NoCall]
  /\ purging = {}
  /\ purged = [l \in Leads |-> {}]

Exists(l) == aggType[l] # NoType

-----------------------------------------------------------------------------
(***************************************************************************)
(* append(): the unlocked read of the head, and the refusals it may lead   *)
(* to in the code's order.                                                 *)
(***************************************************************************)
\* mutant: a stale expected_version is not refused
RefusalUnexpecting(r) ==
  IF Exists(r.lead) /\ aggType[r.lead] # r.type THEN "type"
  ELSE IF Exists(r.lead) /\ privacy[r.lead] # "active" THEN "closed"
  ELSE "write"

Refusal(r) ==
  IF Exists(r.lead) /\ aggType[r.lead] # r.type THEN "type"
  ELSE IF Exists(r.lead) /\ privacy[r.lead] # "active" THEN "closed"
  ELSE IF r.expected \notin {AnyVersion, version[r.lead]} THEN "expected"
  ELSE "write"

AppendRead(w, r) ==
  /\ call[w].stage \notin Running
  /\ Refusal(r) = "write" => version[r.lead] < MaxVersion     \* bound
  /\ call' = [call EXCEPT ![w] = [stage |-> Refusal(r), to |-> r,
                                  head |-> version[r.lead]]]
  /\ UNCHANGED <<heads, events, operations, purging, purged>>

\* aggregate_version=current_version + 1
NextVersion(head) == head + 1

\* mutant: the UPDATE does not compare the version it has read
SwapsAnyVersion(r, head) ==
  IF head = 0 THEN ~Exists(r.lead)
  ELSE aggType[r.lead] = r.type /\ privacy[r.lead] = "active"

\* The row was absent and is inserted, or the conditional UPDATE finds it
\* as it was read.
Swaps(r, head) ==
  IF head = 0
  THEN ~Exists(r.lead)
  ELSE /\ aggType[r.lead] = r.type
       /\ version[r.lead] = head
       /\ privacy[r.lead] = "active"

\* UniqueConstraint(aggregate_id, aggregate_version) on event_records.
Duplicate(l, v) == \E e \in events[l] : e.version = v

NewEvent(c) == [version |-> NextVersion(c.head), kind |-> c.to.kind,
                at |-> c.to.at, content |-> "payload"]

\* BEGIN; INSERT or UPDATE of the head; INSERT of the event; COMMIT.
AppendCommit(w) ==
  LET c == call[w]
      r == c.to
  IN  /\ c.stage = "write"
      /\ Swaps(r, c.head)
      /\ ~Duplicate(r.lead, NextVersion(c.head))
      /\ aggType' = [aggType EXCEPT ![r.lead] = r.type]
      /\ version' = [version EXCEPT ![r.lead] = NextVersion(c.head)]
      /\ events' = [events EXCEPT ![r.lead] = @ \cup {NewEvent(c)}]
      /\ call' = [call EXCEPT ![w].stage = "ok"]
      /\ UNCHANGED <<privacy, operations, purging, purged>>

\* An UPDATE that matched no row rolls back, and status() is asked why.
AppendLose(w) ==
  /\ call[w].stage = "write"
  /\ call[w].head > 0
  /\ ~Swaps(call[w].to, call[w].head)
  /\ call' = [call EXCEPT ![w].stage = "refused"]
  /\ UNCHANGED <<heads, events, operations, purging, purged>>

\* An INSERT that violates a key rolls back and is a conflict at once: a head
\* inserted by another writer meanwhile, or an event number already taken.
AppendViolate(w) ==
  LET c == call[w]
  IN  /\ c.stage = "write"
      /\ IF Swaps(c.to, c.head) THEN Duplicate(c.to.lead, NextVersion(c.head))
                                ELSE c.head = 0
      /\ call' = [call EXCEPT ![w].stage = "conflict"]
      /\ UNCHANGED <<heads, events, operations, purging, purged>>

AppendReport(w) ==
  /\ call[w].stage = "refused"
  /\ call' = [call EXCEPT ![w].stage =
                IF privacy[call[w].to.lead] # "active" THEN "closed" ELSE "conflict"]
  /\ UNCHANGED <<heads, events, operations, purging, purged>>

\* The database is locked, or the process dies: the transaction is rolled back.
AppendFail(w) ==
  /\ call[w].stage \in Running
  /\ call' = [call EXCEPT ![w].stage = "error"]
  /\ UNCHANGED <<heads, events, operations, purging, purged>>

-----------------------------------------------------------------------------
(***************************************************************************)
(* SqlAlchemyPrivacyRepository: one transaction each, decided by the       *)
(* row count of the first UPDATE.  A call that matches no row changes      *)
(* nothing, so only the effective ones are steps.                          *)
(***************************************************************************)
Record(l, op, n) ==
  operations' = [operations EXCEPT ![l] =
                   Append(@, [operation |-> op, affected |-> n])]

Redacted(e) == [e EXCEPT !.content = "anonymized"]

AnonymizableAlways(l) == Exists(l)      \* mutant: the UPDATE matches any state
Anonymizable(l) == Exists(l) /\ privacy[l] = "active"

Anonymize(l) ==
  /\ Anonymizable(l)
  /\ privacy' = [privacy EXCEPT ![l] = "anonymized"]
  /\ events' = [events EXCEPT ![l] = {Redacted(e) : e \in @}]
  /\ Record(l, "anonymized", Cardinality({e \in events[l] : e.content = "payload"}))
  /\ UNCHANGED <<aggType, version, call, purging, purged>>

Deletable(l) == Exists(l) /\ privacy[l] # "hard-deleted"

HardDelete(l) ==
  /\ Deletable(l)
  /\ privacy' = [privacy EXCEPT ![l] = "hard-deleted"]
  /\ events' = [events EXCEPT ![l] = {}]
  /\ Record(l, "hard-deleted", Cardinality(events[l]))
  /\ UNCHANGED <<aggType, version, call, purging, purged>>

(***************************************************************************)
(* purge_expired(): a count outside any write transaction, then a delete   *)
(* that evaluates the same predicate again.  A dry run, or a count of 0,   *)
(* ends after the first step and changes nothing.                          *)
(***************************************************************************)
Expired(l, cutoff) == {e \in events[l] : e.at < cutoff /\ e.kind \notin Protected}

PurgeCount(cutoff) ==
  /\ cutoff \notin purging
  /\ \E l \in Leads : Expired(l, cutoff) # {}
  /\ purging' = purging \cup {cutoff}
  /\ UNCHANGED <<heads, events, operations, call, purged>>

PurgeDelete(cutoff) ==
  /\ cutoff \in purging
  /\ events' = [l \in Leads |-> events[l] \ Expired(l, cutoff)]
  /\ purged' = [l \in Leads |-> purged[l] \cup {e.version : e \in Expired(l, cutoff)}]
  /\ purging' = purging \ {cutoff}
  /\ UNCHANGED <<heads, operations, call>>

-----------------------------------------------------------------------------
AppendCall(w) ==
  \/ \E r \in Requests : AppendRead(w, r)
  \/ AppendCommit(w)
  \/ AppendLose(w)
  \/ AppendViolate(w)
  \/ AppendReport(w)
  \/ AppendFail(w)

Next ==
  \/ \E w \in Writers : AppendCall(w)
  \/ \E l \in Leads : Anonymize(l) \/ HardDelete(l)
  \/ \E cutoff \in Times : PurgeCount(cutoff) \/ PurgeDelete(cutoff)

Spec == Init /\ [][Next]_vars

-----------------------------------------------------------------------------
VersionsOf(l) == {e.version : e \in events[l]}

\* The stream of a lead has no gap and no repetition of its own making: every
\* number up to the head is on exactly one event, unless a purge took it.
\* Journal replay (journal.py _load_events) takes a gap for a purge.
VersionsAccounted ==
  \A l \in Leads :
    /\ \A e, f \in events[l] : e.version = f.version => e = f
    /\ VersionsOf(l) \cap purged[l] = {}
    /\ privacy[l] # "hard-deleted" => VersionsOf(l) \cup purged[l] = 1..version[l]

\* Two append() calls are never told that they wrote the same event, and what
\* they were told stays written: the head never falls behind an answer.
AnswersDistinct ==
  \A w, u \in Writers :
    call[w].stage = "ok" =>
      /\ call[w].head < version[call[w].to.lead]
      /\ (call[u].stage = "ok" /\ call[u].to.lead = call[w].to.lead
            /\ call[u].head = call[w].head) => u = w

\* append() sees the head long before it commits; still, at the instant of the
\* commit the lead is open, of the caller's type, and at the version the caller
\* expected, and the caller's event is the next one.
AppendAtomic ==
  [][\A w \in Writers :
       call'[w].stage = "ok" /\ call[w].stage # "ok" =>
         LET r == call'[w].to  l == r.lead
         IN  /\ privacy[l] = "active"
             /\ aggType[l] \in {NoType, r.type}
             /\ r.expected \in {AnyVersion, version[l]}
             /\ version'[l] = version[l] + 1
             /\ \E e \in events'[l] :
                  /\ e.version = version'[l] /\ e.kind = r.kind /\ e.at = r.at
                  /\ e.content = "payload"]_vars

\* A refusal is earned.  "closed" and a type conflict are final, and a caller
\* that passed its checks and lost is told "conflict" only because someone
\* else's append won: the optimistic protocol cannot make every writer lose.
RefusalsEarned ==
  \A w \in Writers :
    /\ call[w].stage = "closed" => privacy[call[w].to.lead] # "active"
    /\ call[w].stage = "type" => aggType[call[w].to.lead] \notin {NoType, call[w].to.type}
    /\ call[w].stage = "conflict" => version[call[w].to.lead] > call[w].head

\* Whatever writers were half-way through an append(), nothing readable is left
\* of an anonymised lead and nothing at all of a deleted one.
ErasureComplete ==
  \A l \in Leads :
    /\ privacy[l] = "anonymized" => \A e \in events[l] : e.content = "anonymized"
    /\ privacy[l] = "hard-deleted" => events[l] = {}

\* privacy_operation_records tells the erasures of a lead exactly once, in
\* order, and counts all that was erased.
ErasureAudited ==
  \A l \in Leads :
    LET ops == operations[l]
    IN  /\ Len(ops) =< 2
        /\ privacy[l] = "active" => Len(ops) = 0
        /\ privacy[l] # "active" => Len(ops) > 0 /\ ops[Len(ops)].operation = privacy[l]
        /\ privacy[l] = "anonymized" =>
             Len(ops) = 1 /\ Cardinality(events[l]) =< ops[1].affected
        /\ Len(ops) = 2 => /\ ops[1].operation = "anonymized"
                           /\ ops[2].affected =< ops[1].affected

\* A tombstone is for ever: once a lead is closed its head is frozen and its
\* privacy state moves one way; an open one only counts upwards.
TombstonesFrozen ==
  [][\A l \in Leads :
       /\ version'[l] >= version[l]
       /\ Exists(l) => aggType'[l] = aggType[l]
       /\ privacy[l] # "active" =>
            /\ version'[l] = version[l]
            /\ privacy'[l] \in {privacy[l], "hard-deleted"}
            /\ VersionsOf(l)' \subseteq VersionsOf(l)]_vars

\* "Opt-out and consent-revocation events are protected from automatic event
\* cleanup" (docs/DATA_MODEL.md:54): only a hard deletion removes one.
ProtectedKept ==
  [][\A l \in Leads : \A e \in events[l] :
       e.kind \in Protected /\ e.version \notin VersionsOf(l)' =>
         privacy[l] # "hard-deleted" /\ privacy'[l] = "hard-deleted"]_vars

-----------------------------------------------------------------------------
(***************************************************************************)
(* The abstract ledger, read off the rows.                                 *)
(***************************************************************************)
LedgerState(l) ==
  CASE privacy[l] = "active" -> "open"
    [] privacy[l] = "anonymized" -> "anonymized"
    [] privacy[l] = "hard-deleted" -> "erased"

LedgerEntry(l, v) ==
  IF v > version[l] THEN "free"
  ELSE IF \E e \in events[l] : e.version = v /\ e.content = "payload" THEN "kept"
  ELSE IF \E e \in events[l] : e.version = v THEN "anonymized"
  ELSE "gone"

Ledger == INSTANCE LeadLedger WITH
  state <- [l \in Leads |-> LedgerState(l)],
  length <- version,
  entries <- [l \in Leads |-> [v \in Versions |-> LedgerEntry(l, v)]]

\* The rows, the optimistic writers and the privacy transactions implement the
\* ledger: an append takes effect once, at its commit, and content only decays.
ImplementsLedger == Ledger!Spec
=============================================================================
