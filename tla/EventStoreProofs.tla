-------------------------- MODULE EventStoreProofs --------------------------
(***************************************************************************)
(* Proofs about EventStore, for any number of leads, writers, kinds and    *)
(* versions.  The safety invariants are not inductive by themselves: they  *)
(* need to know that a row is blank until it is created, that a purge only *)
(* takes numbers that were given out, and above all what an append() in    *)
(* flight may still rely on of what it read (CallsBehind).                 *)
(***************************************************************************)
EXTENDS JournalReader, FiniteSetTheorems, FunctionTheorems, TLAPS

USE DEF NextVersion, Anonymizable, Deletable

-----------------------------------------------------------------------------
\* A lead without a row is blank.
BlankRows ==
  \A l \in Leads :
    /\ Exists(l) <=> version[l] > 0
    /\ ~Exists(l) => /\ privacy[l] = "active"
                     /\ events[l] = {}
                     /\ purged[l] = {}

\* What a call in flight has read is not ahead of the store, and what it has
\* checked about the lead's type and the caller's expectation still holds.
CallsBehind ==
  \A w \in Writers : call[w].stage \in {"write", "refused", "ok", "conflict"} =>
    LET c == call[w]
    IN  /\ c.head < MaxVersion
        /\ c.head =< version[c.to.lead]
        /\ c.to.expected \in {AnyVersion, c.head}
        /\ c.head > 0 => aggType[c.to.lead] = c.to.type
        /\ c.stage = "refused" => \/ privacy[c.to.lead] # "active"
                                  \/ version[c.to.lead] > c.head

RowsBounded ==
  \A l \in Leads :
    /\ purged[l] \subseteq 1..version[l]
    /\ VersionsOf(l) \subseteq 1..version[l]
    /\ IsFiniteSet(events[l])

IInv ==
  /\ TypeOK
  /\ BlankRows
  /\ CallsBehind
  /\ RowsBounded
  /\ VersionsAccounted
  /\ AnswersDistinct
  /\ RefusalsEarned
  /\ ErasureComplete

-----------------------------------------------------------------------------
\* The five steps of an append() that do not commit touch nothing but the call.
Quiet(w) ==
  \/ \E r \in Requests : AppendRead(w, r)
  \/ AppendLose(w)
  \/ AppendViolate(w)
  \/ AppendReport(w)
  \/ AppendFail(w)

\* Changing the stage of a running call leaves it a call.
LEMMA Restaged ==
  ASSUME TypeOK, NEW w \in Writers, call[w].stage \in Running,
         NEW s \in Running \cup Answers, call' = [call EXCEPT ![w].stage = s]
  PROVE  /\ call' \in [Writers -> {NoCall} \cup Call]
         /\ call[w] \in Call
         /\ call'[w] = [stage |-> s, to |-> call[w].to, head |-> call[w].head]
         /\ \A u \in Writers : u # w => call'[u] = call[u]
<1>1. call[w] \in {NoCall} \cup Call
  BY DEF TypeOK
<1>2. call[w] \in Call
  BY <1>1 DEF NoCall, Running
<1>3. call'[w] = [call[w] EXCEPT !.stage = s]
  BY DEF TypeOK
<1>4. [call[w] EXCEPT !.stage = s]
        = [stage |-> s, to |-> call[w].to, head |-> call[w].head]
  BY <1>2 DEF Call
<1>5. call'[w] \in Call
  BY <1>2, <1>3, <1>4 DEF Call
<1> QED
  BY <1>2, <1>3, <1>4, <1>5 DEF TypeOK

\* Each quiet step leaves the rows alone and gives its call a legal new value.
LEMMA QuietStep ==
  ASSUME TypeOK, NEW w \in Writers, Quiet(w)
  PROVE  /\ UNCHANGED <<aggType, version, privacy, events, operations, purging, purged>>
         /\ call' \in [Writers -> {NoCall} \cup Call]
         /\ \A u \in Writers : u # w => call'[u] = call[u]
<1>1. ASSUME NEW r \in Requests, AppendRead(w, r)
      PROVE  /\ UNCHANGED <<aggType, version, privacy, events, operations, purging, purged>>
             /\ call' \in [Writers -> {NoCall} \cup Call]
             /\ \A u \in Writers : u # w => call'[u] = call[u]
  <2>1. Refusal(r) \in Running \cup Answers
    BY DEF Refusal, Running, Answers
  <2>2. [stage |-> Refusal(r), to |-> r, head |-> version[r.lead]] \in Call
    BY <2>1, RequestsAssumption DEF TypeOK, Call
  <2> QED
    BY <1>1, <2>2 DEF AppendRead, TypeOK, heads
<1>2. CASE AppendLose(w)
  BY <1>2, Restaged DEF AppendLose, heads, Running, Answers
<1>3. CASE AppendViolate(w)
  BY <1>3, Restaged DEF AppendViolate, heads, Running, Answers
<1>4. CASE AppendReport(w)
  <2> DEFINE s == IF privacy[call[w].to.lead] # "active" THEN "closed" ELSE "conflict"
  <2>1. s \in Running \cup Answers
    BY DEF Running, Answers
  <2>2. call' = [call EXCEPT ![w].stage = s]
    BY <1>4 DEF AppendReport
  <2> QED
    BY <1>4, <2>1, <2>2, Restaged DEF AppendReport, heads, Running
<1>5. CASE AppendFail(w)
  BY <1>5, Restaged DEF AppendFail, heads, Running, Answers
<1> QED
  BY <1>1, <1>2, <1>3, <1>4, <1>5 DEF Quiet

\* At its commit an append() meets the lead as it read it: open, still its own
\* type or not yet created, and at the very version it is about to follow.
LEMMA CommitStep ==
  ASSUME IInv, NEW w \in Writers, AppendCommit(w)
  PROVE  LET c == call[w]  l == c.to.lead
         IN  /\ c \in Call
             /\ l \in Leads
             /\ c.head = version[l]
             /\ c.head \in 0..(MaxVersion - 1)
             /\ privacy[l] = "active"
             /\ aggType[l] \in {NoType, c.to.type}
             /\ c.to.expected \in {AnyVersion, version[l]}
             /\ call'[w] = [stage |-> "ok", to |-> c.to, head |-> c.head]
             /\ \A u \in Writers : u # w => call'[u] = call[u]
             /\ call' \in [Writers -> {NoCall} \cup Call]
<1> DEFINE c == call[w]
<1> DEFINE l == c.to.lead
<1>1. c \in Call /\ c.stage = "write"
  BY Restaged DEF AppendCommit, IInv, Running, Answers
<1>2. l \in Leads /\ c.to \in Requests /\ c.head \in 0..MaxVersion
  BY <1>1, RequestsAssumption DEF Call
<1>3. version[l] \in 0..MaxVersion
  BY <1>2 DEF IInv, TypeOK
<1>4. c.head < MaxVersion /\ c.head =< version[l] /\ c.to.expected \in {AnyVersion, c.head}
  BY <1>1 DEF IInv, CallsBehind
<1>5. /\ c.head = version[l]
      /\ privacy[l] = "active"
      /\ aggType[l] \in {NoType, c.to.type}
  <2>1. Swaps(c.to, c.head)
    BY DEF AppendCommit
  <2>2. CASE c.head = 0
    BY <1>2, <1>3, <2>1, <2>2 DEF Swaps, Exists, IInv, BlankRows
  <2>3. CASE c.head # 0
    BY <2>1, <2>3 DEF Swaps
  <2> QED
    BY <2>2, <2>3
<1>6. /\ call'[w] = [stage |-> "ok", to |-> c.to, head |-> c.head]
      /\ \A u \in Writers : u # w => call'[u] = call[u]
      /\ call' \in [Writers -> {NoCall} \cup Call]
  BY <1>1, Restaged DEF AppendCommit, IInv, Running, Answers
<1> QED
  BY <1>1, <1>2, <1>3, <1>4, <1>5, <1>6, BoundAssumption

\* The steps, with the quiet ones taken together.
LEMMA StepCases ==
  ASSUME [Next]_vars
  PROVE  \/ \E w \in Writers : Quiet(w) \/ AppendCommit(w)
         \/ \E l \in Leads : Anonymize(l) \/ HardDelete(l)
         \/ \E cutoff \in Times : PurgeCount(cutoff) \/ PurgeDelete(cutoff)
         \/ UNCHANGED vars
BY DEF Next, AppendCall, Quiet

\* Anonymising an event changes neither its place nor its kind.
LEMMA Redaction ==
  ASSUME NEW e \in Event
  PROVE  /\ Redacted(e) \in Event
         /\ Redacted(e).content = "anonymized"
         /\ Redacted(e).version = e.version
         /\ Redacted(e).kind = e.kind
<1>1. Redacted(e) = [version |-> e.version, kind |-> e.kind, at |-> e.at,
                     content |-> "anonymized"]
  BY DEF Event, Redacted
<1> QED
  BY <1>1 DEF Event

-----------------------------------------------------------------------------
LEMMA InitInv == Init => IInv
<1> SUFFICES ASSUME Init PROVE IInv
  OBVIOUS
<1>1. TypeOK
  BY BoundAssumption DEF Init, TypeOK, PrivacyStates
<1>2. \A w \in Writers : call[w].stage = "none"
  BY DEF Init, NoCall
<1>3. \A l \in Leads : IsFiniteSet(events[l])
  BY FS_EmptySet DEF Init
<1>4. \A l \in Leads : events[l] = {} /\ purged[l] = {} /\ version[l] = 0 /\ ~Exists(l)
                       /\ privacy[l] = "active"
  BY DEF Init, Exists
<1>5. BlankRows /\ RowsBounded /\ VersionsAccounted /\ ErasureComplete
  BY <1>3, <1>4 DEF BlankRows, RowsBounded, VersionsAccounted, VersionsOf, ErasureComplete
<1>6. CallsBehind /\ AnswersDistinct /\ RefusalsEarned
  BY <1>2 DEF CallsBehind, AnswersDistinct, RefusalsEarned
<1> QED
  BY <1>1, <1>5, <1>6 DEF IInv

LEMMA TypeStep == IInv /\ [Next]_vars => TypeOK'
<1> SUFFICES ASSUME IInv, [Next]_vars PROVE TypeOK'
  OBVIOUS
<1>t. TypeOK
  BY DEF IInv
<1>1. ASSUME NEW w \in Writers, Quiet(w) PROVE TypeOK'
  BY <1>1, <1>t, QuietStep DEF TypeOK
<1>2. ASSUME NEW w \in Writers, AppendCommit(w) PROVE TypeOK'
  <2> DEFINE c == call[w]
  <2> DEFINE l == c.to.lead
  <2> DEFINE new == NewEvent(c)
  <2>1. c \in Call /\ l \in Leads /\ c.head \in 0..(MaxVersion - 1)
        /\ call' \in [Writers -> {NoCall} \cup Call]
    BY <1>2, CommitStep
  <2>2. c.to.type \in Types /\ c.to.kind \in Kinds /\ c.to.at \in Times
    BY <2>1, RequestsAssumption DEF Call
  <2>3. c.head + 1 \in 0..MaxVersion /\ new \in Event
    BY <2>1, <2>2, BoundAssumption DEF Event, Versions, NewEvent
  <2>4. aggType' \in [Leads -> Types \cup {NoType}]
    BY <1>2, <1>t, <2>1, <2>2 DEF AppendCommit, TypeOK
  <2>5. version' \in [Leads -> 0..MaxVersion]
    BY <1>2, <1>t, <2>1, <2>3 DEF AppendCommit, TypeOK
  <2>6. events' \in [Leads -> SUBSET Event]
    BY <1>2, <1>t, <2>1, <2>3 DEF AppendCommit, TypeOK
  <2> QED
    BY <1>2, <1>t, <2>1, <2>4, <2>5, <2>6 DEF AppendCommit, TypeOK
<1>3. ASSUME NEW l \in Leads, Anonymize(l) PROVE TypeOK'
  <2> DEFINE readable == {e \in events[l] : e.content = "payload"}
  <2>1. Cardinality(readable) \in Nat
    BY FS_Subset, FS_CardinalityType DEF IInv, RowsBounded
  <2>2. [operation |-> "anonymized", affected |-> Cardinality(readable)] \in Operation
    BY <2>1 DEF Operation
  <2>3. operations' \in [Leads -> Seq(Operation)]
    BY <1>3, <1>t, <2>2 DEF Anonymize, Record, TypeOK
  <2>4. \A e \in events[l] : Redacted(e) \in Event
    BY <1>t, Redaction DEF TypeOK
  <2>5. events' \in [Leads -> SUBSET Event]
    BY <1>3, <1>t, <2>4 DEF Anonymize, TypeOK
  <2> QED
    BY <1>3, <1>t, <2>3, <2>5 DEF Anonymize, TypeOK, PrivacyStates
<1>4. ASSUME NEW l \in Leads, HardDelete(l) PROVE TypeOK'
  <2>1. Cardinality(events[l]) \in Nat
    BY FS_CardinalityType DEF IInv, RowsBounded
  <2>2. [operation |-> "hard-deleted", affected |-> Cardinality(events[l])] \in Operation
    BY <2>1 DEF Operation
  <2>3. operations' \in [Leads -> Seq(Operation)]
    BY <1>4, <1>t, <2>2 DEF HardDelete, Record, TypeOK
  <2> QED
    BY <1>4, <1>t, <2>3 DEF HardDelete, TypeOK, PrivacyStates
<1>5. ASSUME NEW cutoff \in Times, PurgeCount(cutoff) PROVE TypeOK'
  BY <1>5, <1>t DEF PurgeCount, TypeOK, heads
<1>6. ASSUME NEW cutoff \in Times, PurgeDelete(cutoff) PROVE TypeOK'
  <2>1. \A l \in Leads : {e.version : e \in Expired(l, cutoff)} \subseteq Versions
    BY <1>t DEF Expired, TypeOK, Event
  <2>2. purged' \in [Leads -> SUBSET Versions]
    BY <1>6, <1>t, <2>1 DEF PurgeDelete, TypeOK
  <2>3. events' \in [Leads -> SUBSET Event]
    BY <1>6, <1>t DEF PurgeDelete, TypeOK
  <2> QED
    BY <1>6, <1>t, <2>2, <2>3 DEF PurgeDelete, TypeOK, heads
<1>7. CASE UNCHANGED vars
  BY <1>7, <1>t DEF TypeOK, vars
<1> QED
  BY <1>1, <1>2, <1>3, <1>4, <1>5, <1>6, <1>7, StepCases

-----------------------------------------------------------------------------
\* The rows after a commit.
LEMMA CommitRows ==
  ASSUME IInv, NEW w \in Writers, AppendCommit(w), NEW k \in Leads
  PROVE  LET c == call[w]  l == c.to.lead
         IN  /\ k # l => /\ version'[k] = version[k]
                         /\ aggType'[k] = aggType[k]
                         /\ events'[k] = events[k]
             /\ k = l => /\ version'[k] = version[k] + 1
                         /\ version[k] = c.head
                         /\ c.head \in Nat
                         /\ aggType'[k] = c.to.type
                         /\ aggType'[k] # NoType
                         /\ privacy[k] = "active"
                         /\ events'[k] = events[k] \cup {NewEvent(c)}
             /\ privacy' = privacy
             /\ purged' = purged
             /\ version[k] \in Nat
<1>1. call[w].to.type # NoType
  <2>1. call[w].to \in Requests
    BY CommitStep DEF Call
  <2> QED
    BY <2>1, RequestsAssumption, SentinelAssumption
<1>2. /\ call[w].to.lead \in Leads
      /\ call[w].head = version[call[w].to.lead]
      /\ privacy[call[w].to.lead] = "active"
  BY CommitStep
<1> QED
  BY <1>1, <1>2 DEF AppendCommit, NewEvent, IInv, TypeOK

\* Which steps write rows, and which write calls.
LEMMA RowsAfter ==
  ASSUME IInv, [Next]_vars
  PROVE
    \/ /\ UNCHANGED <<aggType, version, privacy, events, purged>>
       /\ \/ UNCHANGED call
          \/ \E w \in Writers : Quiet(w)
    \/ \E w \in Writers : AppendCommit(w)
    \/ UNCHANGED call /\ \E l \in Leads : Anonymize(l)
    \/ UNCHANGED call /\ \E l \in Leads : HardDelete(l)
    \/ UNCHANGED call /\ \E cutoff \in Times : PurgeDelete(cutoff)
<1>1. ASSUME NEW w \in Writers, Quiet(w)
      PROVE  UNCHANGED <<aggType, version, privacy, events, purged>>
  BY <1>1, QuietStep DEF IInv
<1>3. ASSUME NEW l \in Leads, Anonymize(l) \/ HardDelete(l) PROVE UNCHANGED call
  BY <1>3 DEF Anonymize, HardDelete
<1>4. ASSUME NEW cutoff \in Times, PurgeCount(cutoff)
      PROVE UNCHANGED <<aggType, version, privacy, events, purged, call>>
  BY <1>4 DEF PurgeCount, heads
<1>5. ASSUME NEW cutoff \in Times, PurgeDelete(cutoff) PROVE UNCHANGED call
  BY <1>5 DEF PurgeDelete
<1>6. UNCHANGED vars => UNCHANGED <<aggType, version, privacy, events, purged, call>>
  BY DEF vars
<1> QED
  BY <1>1, <1>3, <1>4, <1>5, <1>6, StepCases

\* The rows after an anonymisation.
LEMMA AnonymizeRows ==
  ASSUME IInv, NEW l \in Leads, Anonymize(l), NEW k \in Leads
  PROVE  /\ k # l => events'[k] = events[k] /\ privacy'[k] = privacy[k]
         /\ k = l => /\ privacy[k] = "active" /\ privacy'[k] = "anonymized"
                     /\ events'[k] = {Redacted(e) : e \in events[k]}
                     /\ Exists(k)
         /\ aggType' = aggType /\ version' = version /\ purged' = purged
         /\ VersionsOf(k)' = VersionsOf(k)
<1>1. /\ k # l => events'[k] = events[k] /\ privacy'[k] = privacy[k]
      /\ k = l => /\ privacy[k] = "active" /\ privacy'[k] = "anonymized"
                  /\ events'[k] = {Redacted(e) : e \in events[k]}
                  /\ Exists(k)
      /\ aggType' = aggType /\ version' = version /\ purged' = purged
  BY DEF Anonymize, IInv, TypeOK
<1>2. \A e \in events[k] : Redacted(e).version = e.version
  BY Redaction DEF IInv, TypeOK
<1>3. VersionsOf(k)' = VersionsOf(k)
  BY <1>1, <1>2 DEF VersionsOf
<1> QED
  BY <1>1, <1>3

\* The rows after a hard deletion.
LEMMA HardDeleteRows ==
  ASSUME IInv, NEW l \in Leads, HardDelete(l), NEW k \in Leads
  PROVE  /\ k # l => events'[k] = events[k] /\ privacy'[k] = privacy[k]
         /\ k = l => /\ privacy[k] # "hard-deleted" /\ privacy'[k] = "hard-deleted"
                     /\ events'[k] = {}
                     /\ Exists(k)
         /\ aggType' = aggType /\ version' = version /\ purged' = purged
BY DEF HardDelete, IInv, TypeOK

\* The rows after a purge.
LEMMA PurgeRows ==
  ASSUME IInv, NEW cutoff \in Times, PurgeDelete(cutoff), NEW k \in Leads
  PROVE  /\ events'[k] = events[k] \ Expired(k, cutoff)
         /\ purged'[k] = purged[k] \cup {e.version : e \in Expired(k, cutoff)}
         /\ aggType' = aggType /\ version' = version /\ privacy' = privacy
         /\ Expired(k, cutoff) \subseteq events[k]
BY DEF PurgeDelete, heads, Expired

-----------------------------------------------------------------------------
LEMMA BlankRowsStep == IInv /\ [Next]_vars => BlankRows'
<1> SUFFICES ASSUME IInv, [Next]_vars PROVE BlankRows'
  OBVIOUS
<1> USE DEF BlankRows, Exists
<1>i. BlankRows
  BY DEF IInv
<1>1. CASE UNCHANGED <<aggType, version, privacy, events, purged>>
  BY <1>1, <1>i
<1>2. ASSUME NEW w \in Writers, AppendCommit(w) PROVE BlankRows'
  BY <1>2, <1>i, CommitRows
<1>3. ASSUME NEW l \in Leads, Anonymize(l) PROVE BlankRows'
  BY <1>3, <1>i, AnonymizeRows
<1>4. ASSUME NEW l \in Leads, HardDelete(l) PROVE BlankRows'
  BY <1>4, <1>i, HardDeleteRows
<1>5. ASSUME NEW cutoff \in Times, PurgeDelete(cutoff) PROVE BlankRows'
  BY <1>5, <1>i, PurgeRows
<1> QED
  BY <1>1, <1>2, <1>3, <1>4, <1>5, RowsAfter

LEMMA RowsBoundedStep == IInv /\ [Next]_vars => RowsBounded'
<1> SUFFICES ASSUME IInv, [Next]_vars PROVE RowsBounded'
  OBVIOUS
<1>i. RowsBounded
  BY DEF IInv
<1>1. CASE UNCHANGED <<aggType, version, privacy, events, purged>>
  BY <1>1, <1>i DEF RowsBounded, VersionsOf
<1>2. ASSUME NEW w \in Writers, AppendCommit(w) PROVE RowsBounded'
  <2> SUFFICES ASSUME NEW k \in Leads
               PROVE  /\ purged'[k] \subseteq 1..version'[k]
                      /\ VersionsOf(k)' \subseteq 1..version'[k]
                      /\ IsFiniteSet(events'[k])
    BY DEF RowsBounded
  <2>1. CASE k # call[w].to.lead
    BY <1>2, <1>i, <2>1, CommitRows DEF RowsBounded, VersionsOf
  <2>2. CASE k = call[w].to.lead
    <3>1. /\ version'[k] = version[k] + 1
          /\ version[k] \in Nat
          /\ events'[k] = events[k] \cup {NewEvent(call[w])}
          /\ NewEvent(call[w]).version = version'[k]
          /\ purged'[k] = purged[k]
      BY <1>2, <2>2, CommitRows DEF NewEvent
    <3>2. IsFiniteSet(events'[k])
      <4>1. IsFiniteSet(events[k])
        BY <1>i DEF RowsBounded
      <4>2. IsFiniteSet(events[k] \cup {NewEvent(call[w])})
        BY <4>1, FS_AddElement
      <4> QED
        BY <3>1, <4>2
    <3>3. VersionsOf(k)' = VersionsOf(k) \cup {version'[k]}
      BY <3>1 DEF VersionsOf
    <3> QED
      BY <1>i, <3>1, <3>2, <3>3 DEF RowsBounded
  <2> QED
    BY <2>1, <2>2
<1>3. ASSUME NEW l \in Leads, Anonymize(l) PROVE RowsBounded'
  <2>1. IsFiniteSet({Redacted(e) : e \in events[l]})
    <3> DEFINE T == {Redacted(e) : e \in events[l]}
    <3> DEFINE f == [e \in events[l] |-> Redacted(e)]
    <3>1. f \in Surjection(events[l], T)
      BY DEF Surjection
    <3> QED
      BY <1>i, <3>1, FS_Surjection DEF RowsBounded
  <2>2. \A k \in Leads : IsFiniteSet(events'[k])
    BY <1>3, <1>i, <2>1, AnonymizeRows DEF RowsBounded
  <2> QED
    BY <1>3, <1>i, <2>2, AnonymizeRows DEF RowsBounded
<1>4. ASSUME NEW l \in Leads, HardDelete(l) PROVE RowsBounded'
  BY <1>4, <1>i, HardDeleteRows, FS_EmptySet DEF RowsBounded, VersionsOf
<1>5. ASSUME NEW cutoff \in Times, PurgeDelete(cutoff) PROVE RowsBounded'
  <2>1. \A k \in Leads : IsFiniteSet(events'[k])
    BY <1>5, <1>i, PurgeRows, FS_Subset DEF RowsBounded
  <2>2. \A k \in Leads : purged'[k] \subseteq purged[k] \cup VersionsOf(k)
    BY <1>5, PurgeRows DEF VersionsOf
  <2>3. \A k \in Leads : VersionsOf(k)' \subseteq VersionsOf(k)
    BY <1>5, PurgeRows DEF VersionsOf
  <2> QED
    BY <1>5, <1>i, <2>1, <2>2, <2>3, PurgeRows DEF RowsBounded
<1> QED
  BY <1>1, <1>2, <1>3, <1>4, <1>5, RowsAfter

-----------------------------------------------------------------------------
LEMMA AccountedStep == IInv /\ [Next]_vars => VersionsAccounted'
<1> SUFFICES ASSUME IInv, [Next]_vars PROVE VersionsAccounted'
  OBVIOUS
<1>i. VersionsAccounted /\ RowsBounded /\ BlankRows /\ TypeOK
  BY DEF IInv
<1>1. CASE UNCHANGED <<aggType, version, privacy, events, purged>>
  BY <1>1, <1>i DEF VersionsAccounted, VersionsOf
<1>2. ASSUME NEW w \in Writers, AppendCommit(w) PROVE VersionsAccounted'
  <2> SUFFICES ASSUME NEW k \in Leads
               PROVE  /\ \A e, f \in events'[k] : e.version = f.version => e = f
                      /\ VersionsOf(k)' \cap purged'[k] = {}
                      /\ privacy'[k] # "hard-deleted" =>
                           VersionsOf(k)' \cup purged'[k] = 1..version'[k]
    BY DEF VersionsAccounted
  <2>1. CASE k # call[w].to.lead
    BY <1>2, <1>i, <2>1, CommitRows DEF VersionsAccounted, VersionsOf
  <2>2. CASE k = call[w].to.lead
    <3> DEFINE new == NewEvent(call[w])
    <3>1. /\ version'[k] = version[k] + 1
          /\ version[k] \in Nat
          /\ events'[k] = events[k] \cup {new}
          /\ new.version = version[k] + 1
          /\ purged'[k] = purged[k]
          /\ privacy[k] = "active"
          /\ privacy'[k] = privacy[k]
      BY <1>2, <2>2, CommitRows DEF NewEvent
    <3>2. VersionsOf(k)' = VersionsOf(k) \cup {version[k] + 1}
      BY <3>1 DEF VersionsOf
    <3>3. version[k] + 1 \notin VersionsOf(k) /\ version[k] + 1 \notin purged[k]
      BY <1>i, <3>1 DEF RowsBounded
    <3>4. \A e \in events[k] : e.version # new.version
      BY <3>1, <3>3 DEF VersionsOf
    <3>5. \A e, f \in events'[k] : e.version = f.version => e = f
      BY <1>i, <3>1, <3>4 DEF VersionsAccounted
    <3>6. VersionsOf(k) \cup purged[k] = 1..version[k]
      BY <1>i, <3>1 DEF VersionsAccounted
    <3>7. 1..version'[k] = 1..version[k] \cup {version[k] + 1}
      BY <3>1
    <3> QED
      BY <1>i, <3>1, <3>2, <3>3, <3>5, <3>6, <3>7 DEF VersionsAccounted
  <2> QED
    BY <2>1, <2>2
<1>3. ASSUME NEW l \in Leads, Anonymize(l) PROVE VersionsAccounted'
  <2> SUFFICES ASSUME NEW k \in Leads
               PROVE  \A e, f \in events'[k] : e.version = f.version => e = f
    BY <1>3, <1>i, AnonymizeRows DEF VersionsAccounted
  <2>1. CASE k # l
    BY <1>3, <1>i, <2>1, AnonymizeRows DEF VersionsAccounted
  <2>2. CASE k = l
    <3>1. \A e \in events[k] : Redacted(e).version = e.version
      BY <1>i, Redaction DEF TypeOK
    <3> QED
      BY <1>3, <1>i, <2>2, <3>1, AnonymizeRows DEF VersionsAccounted
  <2> QED
    BY <2>1, <2>2
<1>4. ASSUME NEW l \in Leads, HardDelete(l) PROVE VersionsAccounted'
  BY <1>4, <1>i, HardDeleteRows DEF VersionsAccounted, VersionsOf
<1>5. ASSUME NEW cutoff \in Times, PurgeDelete(cutoff) PROVE VersionsAccounted'
  <2> SUFFICES ASSUME NEW k \in Leads
               PROVE  /\ \A e, f \in events'[k] : e.version = f.version => e = f
                      /\ VersionsOf(k)' \cap purged'[k] = {}
                      /\ privacy'[k] # "hard-deleted" =>
                           VersionsOf(k)' \cup purged'[k] = 1..version'[k]
    BY DEF VersionsAccounted
  <2> DEFINE gone == {e.version : e \in Expired(k, cutoff)}
  <2>1. /\ events'[k] = events[k] \ Expired(k, cutoff)
        /\ purged'[k] = purged[k] \cup gone
        /\ version' = version /\ privacy' = privacy
        /\ Expired(k, cutoff) \subseteq events[k]
    BY <1>5, PurgeRows
  <2>2. \A e, f \in events[k] : e.version = f.version => e = f
    BY <1>i DEF VersionsAccounted
  <2>3. VersionsOf(k)' = VersionsOf(k) \ gone
    BY <2>1, <2>2 DEF VersionsOf
  <2>4. gone \subseteq VersionsOf(k)
    BY <2>1 DEF VersionsOf
  <2> QED
    BY <1>i, <2>1, <2>2, <2>3, <2>4 DEF VersionsAccounted
<1> QED
  BY <1>1, <1>2, <1>3, <1>4, <1>5, RowsAfter

LEMMA ErasureStep == IInv /\ [Next]_vars => ErasureComplete'
<1> SUFFICES ASSUME IInv, [Next]_vars PROVE ErasureComplete'
  OBVIOUS
<1>i. ErasureComplete
  BY DEF IInv
<1>1. CASE UNCHANGED <<aggType, version, privacy, events, purged>>
  BY <1>1, <1>i DEF ErasureComplete
<1>2. ASSUME NEW w \in Writers, AppendCommit(w) PROVE ErasureComplete'
  BY <1>2, <1>i, CommitRows DEF ErasureComplete
<1>3. ASSUME NEW l \in Leads, Anonymize(l) PROVE ErasureComplete'
  <2>1. \A e \in events[l] : Redacted(e).content = "anonymized"
    BY Redaction DEF IInv, TypeOK
  <2> QED
    BY <1>3, <1>i, <2>1, AnonymizeRows DEF ErasureComplete
<1>4. ASSUME NEW l \in Leads, HardDelete(l) PROVE ErasureComplete'
  BY <1>4, <1>i, HardDeleteRows DEF ErasureComplete
<1>5. ASSUME NEW cutoff \in Times, PurgeDelete(cutoff) PROVE ErasureComplete'
  BY <1>5, <1>i, PurgeRows DEF ErasureComplete
<1> QED
  BY <1>1, <1>2, <1>3, <1>4, <1>5, RowsAfter

-----------------------------------------------------------------------------
\* A head only counts upwards, keeps its type, and never opens again.
LEMMA HeadsMonotone ==
  ASSUME IInv, [Next]_vars, NEW l \in Leads
  PROVE  /\ version[l] \in Nat /\ version'[l] \in Nat
         /\ version'[l] >= version[l]
         /\ Exists(l) => aggType'[l] = aggType[l]
         /\ privacy[l] # "active" => /\ privacy'[l] # "active"
                                     /\ version'[l] = version[l]
                                     /\ privacy'[l] \in {privacy[l], "hard-deleted"}
<1>t. version[l] \in Nat /\ version'[l] \in Nat
  BY TypeStep, BoundAssumption DEF IInv, TypeOK
<1>1. CASE UNCHANGED <<aggType, version, privacy, events, purged>>
  BY <1>t, <1>1
<1>2. ASSUME NEW w \in Writers, AppendCommit(w)
      PROVE  /\ version'[l] >= version[l]
             /\ Exists(l) => aggType'[l] = aggType[l]
             /\ privacy'[l] = privacy[l]
             /\ privacy[l] # "active" => version'[l] = version[l]
  <2>1. l = call[w].to.lead => aggType[l] \in {NoType, call[w].to.type}
    BY <1>2, CommitStep
  <2> QED
    BY <1>t, <1>2, <2>1, CommitRows DEF Exists
<1>3. ASSUME NEW k \in Leads, Anonymize(k)
      PROVE  /\ version' = version /\ aggType' = aggType
             /\ privacy[l] # "active" => privacy'[l] = privacy[l]
  BY <1>3, AnonymizeRows
<1>4. ASSUME NEW k \in Leads, HardDelete(k)
      PROVE  /\ version' = version /\ aggType' = aggType
             /\ privacy'[l] \in {privacy[l], "hard-deleted"}
  BY <1>4, HardDeleteRows
<1>5. ASSUME NEW cutoff \in Times, PurgeDelete(cutoff)
      PROVE  version' = version /\ aggType' = aggType /\ privacy' = privacy
  BY <1>5, PurgeRows
<1> QED
  BY <1>t, <1>1, <1>2, <1>3, <1>4, <1>5, RowsAfter

\* A step moves one call at most, and a quiet step moves no row.
LEMMA CallMoves ==
  ASSUME IInv, [Next]_vars, NEW w \in Writers
  PROVE  \/ call'[w] = call[w]
         \/ Quiet(w) /\ UNCHANGED <<aggType, version, privacy, events, purged>>
         \/ AppendCommit(w)
<1>1. ASSUME NEW u \in Writers, Quiet(u), u # w PROVE call'[w] = call[w]
  BY <1>1, QuietStep DEF IInv
<1>2. ASSUME NEW u \in Writers, AppendCommit(u), u # w PROVE call'[w] = call[w]
  BY <1>2, CommitStep
<1> QED
  BY <1>1, <1>2, RowsAfter

\* The lead a call is about.
LEMMA CallTyped ==
  ASSUME TypeOK, NEW w \in Writers, call[w].stage \in Running \cup Answers
  PROVE  /\ call[w] \in Call
         /\ call[w].to.lead \in Leads
         /\ call[w].to.type \in Types
         /\ call[w].to.type # NoType
         /\ call[w].head \in Nat
<1>1. call[w] \in Call
  BY DEF TypeOK, NoCall, Running, Answers
<1> QED
  BY <1>1, RequestsAssumption, SentinelAssumption, BoundAssumption DEF Call

\* What a quiet step does to its own call.
LEMMA QuietCall ==
  ASSUME TypeOK, NEW w \in Writers, Quiet(w)
  PROVE  \/ \E r \in Requests :
              /\ AppendRead(w, r)
              /\ r.lead \in Leads /\ version[r.lead] \in Nat
              /\ call'[w] = [stage |-> Refusal(r), to |-> r, head |-> version[r.lead]]
         \/ /\ call[w].stage \in Running
            /\ call'[w].to = call[w].to
            /\ call'[w].head = call[w].head
            /\ \/ AppendLose(w) /\ call'[w].stage = "refused"
               \/ AppendViolate(w) /\ call'[w].stage = "conflict"
               \/ AppendReport(w) /\ \/ /\ privacy[call[w].to.lead] # "active"
                                        /\ call'[w].stage = "closed"
                                     \/ /\ privacy[call[w].to.lead] = "active"
                                        /\ call'[w].stage = "conflict"
               \/ AppendFail(w) /\ call'[w].stage = "error"
<1>1. ASSUME NEW r \in Requests, AppendRead(w, r)
      PROVE  /\ r.lead \in Leads /\ version[r.lead] \in Nat
             /\ call'[w] = [stage |-> Refusal(r), to |-> r, head |-> version[r.lead]]
  BY <1>1, RequestsAssumption, BoundAssumption DEF AppendRead, TypeOK
<1>2. ASSUME call[w].stage \in Running, NEW s \in Running \cup Answers,
             call' = [call EXCEPT ![w].stage = s]
      PROVE  /\ call'[w].to = call[w].to
             /\ call'[w].head = call[w].head
             /\ call'[w].stage = s
  <2>1. call'[w] = [stage |-> s, to |-> call[w].to, head |-> call[w].head]
    BY <1>2, Restaged
  <2> QED
    BY <2>1
<1>3. CASE AppendLose(w)
  BY <1>2, <1>3 DEF AppendLose, Running
<1>4. CASE AppendViolate(w)
  BY <1>2, <1>4 DEF AppendViolate, Running, Answers
<1>5. CASE AppendReport(w)
  <2>1. CASE privacy[call[w].to.lead] # "active"
    BY <1>2, <1>5, <2>1 DEF AppendReport, Running, Answers
  <2>2. CASE privacy[call[w].to.lead] = "active"
    BY <1>2, <1>5, <2>2 DEF AppendReport, Running, Answers
  <2> QED
    BY <2>1, <2>2
<1>6. CASE AppendFail(w)
  BY <1>2, <1>6 DEF AppendFail, Answers
<1> QED
  BY <1>1, <1>3, <1>4, <1>5, <1>6 DEF Quiet

LEMMA CallsStep == IInv /\ [Next]_vars => CallsBehind'
<1> SUFFICES ASSUME IInv, [Next]_vars, NEW w \in Writers,
                    call'[w].stage \in {"write", "refused", "ok", "conflict"}
             PROVE  LET c == call'[w]
                    IN  /\ c.head < MaxVersion
                        /\ c.head =< version'[c.to.lead]
                        /\ c.to.expected \in {AnyVersion, c.head}
                        /\ c.head > 0 => aggType'[c.to.lead] = c.to.type
                        /\ c.stage = "refused" => \/ privacy'[c.to.lead] # "active"
                                                  \/ version'[c.to.lead] > c.head
  BY DEF CallsBehind
<1> DEFINE c == call[w]
<1>i. TypeOK /\ BlankRows /\ CallsBehind /\ TypeOK'
  BY TypeStep DEF IInv
<1>1. CASE call'[w] = call[w]
  <2>1. /\ c.to.lead \in Leads /\ c.to.type # NoType /\ c.head \in Nat
    BY <1>i, <1>1, CallTyped DEF Running, Answers
  <2>2. /\ c.head < MaxVersion
        /\ c.head =< version[c.to.lead]
        /\ c.to.expected \in {AnyVersion, c.head}
        /\ c.head > 0 => aggType[c.to.lead] = c.to.type
        /\ c.stage = "refused" => \/ privacy[c.to.lead] # "active"
                                  \/ version[c.to.lead] > c.head
    BY <1>i, <1>1 DEF CallsBehind
  <2> QED
    BY <1>1, <2>1, <2>2, HeadsMonotone DEF Exists
<1>2. CASE AppendCommit(w)
  <2>1. /\ c.to.lead \in Leads /\ c.head = version[c.to.lead]
        /\ c.head \in 0..(MaxVersion - 1)
        /\ c.to.expected \in {AnyVersion, version[c.to.lead]}
        /\ call'[w] = [stage |-> "ok", to |-> c.to, head |-> c.head]
    BY <1>2, CommitStep
  <2>2. /\ version'[c.to.lead] = version[c.to.lead] + 1
        /\ aggType'[c.to.lead] = c.to.type
    BY <1>2, <2>1, CommitRows
  <2> QED
    BY <2>1, <2>2, BoundAssumption
<1>3. CASE Quiet(w) /\ UNCHANGED <<aggType, version, privacy, events, purged>>
  <2>1. ASSUME NEW r \in Requests, AppendRead(w, r), r.lead \in Leads,
               version[r.lead] \in Nat,
               call'[w] = [stage |-> Refusal(r), to |-> r, head |-> version[r.lead]]
        PROVE  /\ call'[w].stage = "write"
               /\ version[r.lead] < MaxVersion
               /\ r.expected \in {AnyVersion, version[r.lead]}
               /\ version[r.lead] > 0 => aggType[r.lead] = r.type
    <3>1. Exists(r.lead) <=> version[r.lead] > 0
      BY <1>i, <2>1 DEF BlankRows
    <3>2. Refusal(r) = "write"
      BY <2>1 DEF Refusal
    <3> QED
      BY <2>1, <3>1, <3>2 DEF AppendRead, Refusal
  <2>2. ASSUME c.stage \in Running, call'[w].to = c.to, call'[w].head = c.head
        PROVE  /\ c.head < MaxVersion
               /\ c.head =< version[c.to.lead]
               /\ c.to.expected \in {AnyVersion, c.head}
               /\ c.head > 0 => aggType[c.to.lead] = c.to.type
               /\ AppendLose(w) => \/ privacy[c.to.lead] # "active"
                                   \/ version[c.to.lead] > c.head
    <3>1. /\ c.to.lead \in Leads /\ c.head \in Nat /\ version[c.to.lead] \in Nat
      BY <1>i, <2>2, CallTyped, HeadsMonotone
    <3>2. /\ c.head < MaxVersion
          /\ c.head =< version[c.to.lead]
          /\ c.to.expected \in {AnyVersion, c.head}
          /\ c.head > 0 => aggType[c.to.lead] = c.to.type
      BY <1>i, <2>2 DEF CallsBehind, Running
    <3> QED
      BY <3>1, <3>2 DEF AppendLose, Swaps
  <2>3. CASE \E r \in Requests :
              /\ AppendRead(w, r)
              /\ r.lead \in Leads /\ version[r.lead] \in Nat
              /\ call'[w] = [stage |-> Refusal(r), to |-> r, head |-> version[r.lead]]
    BY <1>3, <2>1, <2>3
  <2>4. CASE /\ call[w].stage \in Running
             /\ call'[w].to = call[w].to
             /\ call'[w].head = call[w].head
             /\ call'[w].stage = "refused" => AppendLose(w)
    BY <1>3, <2>2, <2>4
  <2> QED
    BY <1>i, <1>3, <2>3, <2>4, QuietCall
<1> QED
  BY <1>1, <1>2, <1>3, CallMoves

LEMMA RefusalsStep == IInv /\ [Next]_vars => RefusalsEarned'
<1> SUFFICES ASSUME IInv, [Next]_vars, NEW w \in Writers,
                    call'[w].stage \in {"closed", "type", "conflict"}
             PROVE  LET c == call'[w]
                    IN  /\ c.stage = "closed" => privacy'[c.to.lead] # "active"
                        /\ c.stage = "type" => aggType'[c.to.lead] \notin {NoType, c.to.type}
                        /\ c.stage = "conflict" => version'[c.to.lead] > c.head
  BY DEF RefusalsEarned
<1> DEFINE c == call[w]
<1>i. TypeOK /\ BlankRows /\ RowsBounded /\ CallsBehind /\ RefusalsEarned
  BY DEF IInv
<1>1. CASE call'[w] = call[w]
  <2>1. c.to.lead \in Leads /\ c.head \in Nat
    BY <1>i, <1>1, CallTyped DEF Answers
  <2> QED
    BY <1>i, <1>1, <2>1, HeadsMonotone DEF RefusalsEarned, Exists
<1>2. ASSUME AppendCommit(w) PROVE FALSE
  <2>1. call'[w] = [stage |-> "ok", to |-> c.to, head |-> c.head]
    BY <1>2, CommitStep
  <2> QED
    BY <2>1
<1>3. CASE Quiet(w) /\ UNCHANGED <<aggType, version, privacy, events, purged>>
  <2>1. ASSUME NEW r \in Requests,
               call'[w] = [stage |-> Refusal(r), to |-> r, head |-> version[r.lead]]
        PROVE  /\ call'[w].stage = "closed" => privacy[r.lead] # "active"
               /\ call'[w].stage = "type" => aggType[r.lead] \notin {NoType, r.type}
               /\ call'[w].stage # "conflict"
    BY <2>1 DEF Refusal, Exists
  <2>2. ASSUME c.stage \in Running
        PROVE  /\ c.to.lead \in Leads /\ c.head \in Nat /\ version[c.to.lead] \in Nat
               /\ c.head =< version[c.to.lead]
               /\ c.stage = "refused" => \/ privacy[c.to.lead] # "active"
                                         \/ version[c.to.lead] > c.head
    BY <1>i, <2>2, CallTyped, HeadsMonotone DEF CallsBehind, Running
  <2>3. ASSUME AppendViolate(w) PROVE version[c.to.lead] > c.head
    <3>1. /\ c.to.lead \in Leads /\ c.head \in Nat /\ version[c.to.lead] \in Nat
          /\ c.head =< version[c.to.lead]
      BY <2>2, <2>3 DEF AppendViolate, Running
    <3>2. CASE Swaps(c.to, c.head)
      <4>1. c.head + 1 \in VersionsOf(c.to.lead)
        BY <2>3, <3>2 DEF AppendViolate, Duplicate, VersionsOf
      <4> QED
        BY <1>i, <3>1, <4>1 DEF RowsBounded
    <3>3. CASE ~Swaps(c.to, c.head)
      <4>1. c.head = 0 /\ Exists(c.to.lead)
        BY <2>3, <3>3 DEF AppendViolate, Swaps
      <4> QED
        BY <1>i, <3>1, <4>1 DEF BlankRows
    <3> QED
      BY <3>2, <3>3
  <2>4. ASSUME AppendReport(w), privacy[c.to.lead] = "active"
        PROVE  version[c.to.lead] > c.head
    BY <2>2, <2>4 DEF AppendReport, Running
  <2>5. CASE \E r \in Requests :
               call'[w] = [stage |-> Refusal(r), to |-> r, head |-> version[r.lead]]
    BY <1>3, <2>1, <2>5
  <2>6. CASE /\ c.stage \in Running
             /\ call'[w].to = c.to
             /\ call'[w].head = c.head
             /\ \/ AppendViolate(w) /\ call'[w].stage = "conflict"
                \/ AppendReport(w) /\ \/ /\ privacy[c.to.lead] # "active"
                                         /\ call'[w].stage = "closed"
                                      \/ /\ privacy[c.to.lead] = "active"
                                         /\ call'[w].stage = "conflict"
    BY <1>3, <2>3, <2>4, <2>6
  <2> QED
    BY <1>i, <1>3, <2>5, <2>6, QuietCall
<1> QED
  BY <1>1, <1>2, <1>3, CallMoves

LEMMA AnswersStep == IInv /\ [Next]_vars => AnswersDistinct'
<1> SUFFICES ASSUME IInv, [Next]_vars PROVE AnswersDistinct'
  OBVIOUS
<1>i. TypeOK /\ AnswersDistinct
  BY DEF IInv
\* A step answers one call at most.
<1>1. ASSUME NEW w \in Writers, call'[w].stage = "ok", ~AppendCommit(w)
      PROVE  call'[w] = call[w]
  <2>1. ASSUME Quiet(w) PROVE FALSE
    <3>1. ASSUME NEW r \in Requests,
                 call'[w] = [stage |-> Refusal(r), to |-> r, head |-> version[r.lead]]
          PROVE  FALSE
      BY <1>1, <3>1 DEF Refusal
    <3> QED
      BY <1>i, <1>1, <2>1, <3>1, QuietCall
  <2> QED
    BY <1>1, <2>1, CallMoves
<1>2. ASSUME NEW w \in Writers, call'[w].stage = "ok"
      PROVE  /\ call'[w].to.lead \in Leads /\ call'[w].head \in Nat
             /\ call'[w].head < version'[call'[w].to.lead]
  <2>1. CASE AppendCommit(w)
    <3> DEFINE c == call[w]
    <3>1. /\ c.to.lead \in Leads /\ c.head = version[c.to.lead]
          /\ c.head \in 0..(MaxVersion - 1)
          /\ call'[w] = [stage |-> "ok", to |-> c.to, head |-> c.head]
      BY <2>1, CommitStep
    <3>2. version'[c.to.lead] = version[c.to.lead] + 1
      BY <2>1, <3>1, CommitRows
    <3> QED
      BY <3>1, <3>2, BoundAssumption
  <2>2. CASE ~AppendCommit(w)
    <3>1. call'[w] = call[w]
      BY <1>1, <1>2, <2>2
    <3>2. call[w].to.lead \in Leads /\ call[w].head \in Nat
      BY <1>i, <1>2, <3>1, CallTyped DEF Answers
    <3>3. call[w].head < version[call[w].to.lead]
      BY <1>i, <1>2, <3>1 DEF AnswersDistinct
    <3> QED
      BY <3>1, <3>2, <3>3, HeadsMonotone
  <2> QED
    BY <2>1, <2>2
<1>3. ASSUME NEW w \in Writers, NEW u \in Writers, u # w, AppendCommit(w),
             call'[u].stage = "ok", call'[u].to.lead = call'[w].to.lead
      PROVE  call'[u].head # call'[w].head
  <2>0. /\ call'[w] = [stage |-> "ok", to |-> call[w].to, head |-> call[w].head]
        /\ call[w].head = version[call[w].to.lead]
        /\ call'[u] = call[u]
        /\ call[w].to.lead \in Leads
    BY <1>3, CommitStep
  <2>1. /\ call'[w].to = call[w].to /\ call'[w].head = call[w].head
        /\ call[w].head = version[call[w].to.lead]
        /\ call'[u] = call[u]
        /\ call[w].to.lead \in Leads
    BY <2>0
  <2>2. call[u].head < version[call[u].to.lead]
    BY <1>i, <1>3, <2>1 DEF AnswersDistinct
  <2>3. call[u].head \in Nat /\ version[call[u].to.lead] \in Nat
    BY <1>i, <1>3, <2>1, CallTyped, HeadsMonotone DEF Answers
  <2> QED
    BY <1>3, <2>1, <2>2, <2>3
<1> QED
  BY <1>i, <1>1, <1>2, <1>3 DEF AnswersDistinct

-----------------------------------------------------------------------------
LEMMA StepInv == IInv /\ [Next]_vars => IInv'
BY TypeStep, BlankRowsStep, CallsStep, RowsBoundedStep, AccountedStep, AnswersStep,
   RefusalsStep, ErasureStep
   DEF IInv

\* The strengthening is inductive.
THEOREM Inductive == Spec => []IInv
BY InitInv, StepInv, PTL DEF Spec

\* Every variable of the event store keeps its type.
THEOREM TypeCorrect == Spec => []TypeOK
  BY Inductive, PTL DEF IInv

\* repository.py append(), purge_expired(): no writer leaves a gap or reuses a
\* number, so a gap in a stream is always the mark of a purge.
THEOREM StreamsGapless == Spec => []VersionsAccounted
  BY Inductive, PTL DEF IInv

\* repository.py append(): no two calls are told the same number of a lead.
THEOREM AppendsDistinct == Spec => []AnswersDistinct
  BY Inductive, PTL DEF IInv

\* repository.py append(): closed, type conflict and conflict are never raised
\* without cause, and a lost race always has a winner.
THEOREM RefusalsJust == Spec => []RefusalsEarned
  BY Inductive, PTL DEF IInv

\* repository.py anonymize(), hard_delete(): erasure is complete for any number
\* of writers caught half-way through an append.
THEOREM NothingLeft == Spec => []ErasureComplete
  BY Inductive, PTL DEF IInv

-----------------------------------------------------------------------------
\* repository.py: a closed lead is a tombstone.  Its head is frozen, its privacy
\* state moves one way, and no event is ever added to it.
THEOREM TombstonesFrozenHolds == Spec => TombstonesFrozen
<1> DEFINE Frozen == \A l \in Leads :
                       /\ version'[l] >= version[l]
                       /\ Exists(l) => aggType'[l] = aggType[l]
                       /\ privacy[l] # "active" =>
                            /\ version'[l] = version[l]
                            /\ privacy'[l] \in {privacy[l], "hard-deleted"}
                            /\ VersionsOf(l)' \subseteq VersionsOf(l)
<1>1. IInv /\ [Next]_vars => Frozen
  <2> SUFFICES ASSUME IInv, [Next]_vars, NEW l \in Leads, privacy[l] # "active"
               PROVE  VersionsOf(l)' \subseteq VersionsOf(l)
    BY HeadsMonotone
  <2>1. CASE UNCHANGED <<aggType, version, privacy, events, purged>>
    BY <2>1 DEF VersionsOf
  <2>2. ASSUME NEW w \in Writers, AppendCommit(w) PROVE events'[l] = events[l]
    BY <2>2, CommitRows
  <2>3. ASSUME NEW k \in Leads, Anonymize(k) PROVE VersionsOf(l)' = VersionsOf(l)
    BY <2>3, AnonymizeRows
  <2>4. ASSUME NEW k \in Leads, HardDelete(k) PROVE events'[l] \subseteq events[l]
    BY <2>4, HardDeleteRows
  <2>5. ASSUME NEW cutoff \in Times, PurgeDelete(cutoff) PROVE events'[l] \subseteq events[l]
    BY <2>5, PurgeRows
  <2>6. events'[l] \subseteq events[l] => VersionsOf(l)' \subseteq VersionsOf(l)
    BY DEF VersionsOf
  <2> QED
    BY <2>1, <2>2, <2>3, <2>4, <2>5, <2>6, RowsAfter
<1> QED
  BY <1>1, Inductive, PTL DEF Spec, TombstonesFrozen

\* repository.py append(): the check-then-act of an append is atomic after all.
THEOREM AppendAtomicHolds == Spec => AppendAtomic
<1> DEFINE Atomic == \A w \in Writers :
       call'[w].stage = "ok" /\ call[w].stage # "ok" =>
         LET r == call'[w].to  l == r.lead
         IN  /\ privacy[l] = "active"
             /\ aggType[l] \in {NoType, r.type}
             /\ r.expected \in {AnyVersion, version[l]}
             /\ version'[l] = version[l] + 1
             /\ \E e \in events'[l] :
                  /\ e.version = version'[l] /\ e.kind = r.kind /\ e.at = r.at
                  /\ e.content = "payload"
<1>1. IInv /\ [Next]_vars => Atomic
  <2> SUFFICES ASSUME IInv, [Next]_vars, NEW w \in Writers,
                      call'[w].stage = "ok", call[w].stage # "ok"
               PROVE  LET r == call'[w].to  l == r.lead
                      IN  /\ privacy[l] = "active"
                          /\ aggType[l] \in {NoType, r.type}
                          /\ r.expected \in {AnyVersion, version[l]}
                          /\ version'[l] = version[l] + 1
                          /\ \E e \in events'[l] :
                               /\ e.version = version'[l] /\ e.kind = r.kind
                               /\ e.at = r.at /\ e.content = "payload"
    OBVIOUS
  <2> DEFINE c == call[w]
  <2>1. ~Quiet(w)
    <3>1. ASSUME NEW r \in Requests,
                 call'[w] = [stage |-> Refusal(r), to |-> r, head |-> version[r.lead]]
          PROVE  FALSE
      BY <3>1 DEF Refusal
    <3> QED
      BY <3>1, QuietCall DEF IInv
  <2>2. AppendCommit(w)
    BY <2>1, CallMoves
  <2>3. /\ call'[w] = [stage |-> "ok", to |-> c.to, head |-> c.head]
        /\ c.to.lead \in Leads
        /\ c.head = version[c.to.lead]
        /\ privacy[c.to.lead] = "active"
        /\ aggType[c.to.lead] \in {NoType, c.to.type}
        /\ c.to.expected \in {AnyVersion, version[c.to.lead]}
    BY <2>2, CommitStep
  <2>4. /\ version'[c.to.lead] = version[c.to.lead] + 1
        /\ events'[c.to.lead] = events[c.to.lead] \cup {NewEvent(c)}
    BY <2>2, <2>3, CommitRows
  <2>5. /\ NewEvent(c).version = c.head + 1 /\ NewEvent(c).kind = c.to.kind
        /\ NewEvent(c).at = c.to.at /\ NewEvent(c).content = "payload"
    BY DEF NewEvent
  <2>6. call'[w].to = c.to
    BY <2>3
  <2> QED
    BY <2>3, <2>4, <2>5, <2>6
<1> QED
  BY <1>1, Inductive, PTL DEF Spec, AppendAtomic

\* docs/DATA_MODEL.md:54 of events stored under a protected type: no purge and
\* no anonymisation removes one.
THEOREM ProtectedKeptHolds == Spec => ProtectedKept
<1> DEFINE Kept == \A l \in Leads : \A e \in events[l] :
       e.kind \in Protected /\ e.version \notin VersionsOf(l)' =>
         privacy[l] # "hard-deleted" /\ privacy'[l] = "hard-deleted"
<1>1. IInv /\ [Next]_vars => Kept
  <2> SUFFICES ASSUME IInv, [Next]_vars, NEW l \in Leads, NEW e \in events[l],
                      e.kind \in Protected, e.version \notin VersionsOf(l)'
               PROVE  privacy[l] # "hard-deleted" /\ privacy'[l] = "hard-deleted"
    OBVIOUS
  <2>0. e.version \in VersionsOf(l)
    BY DEF VersionsOf
  <2>e. e \in events'[l] => e.version \in VersionsOf(l)'
    BY DEF VersionsOf
  <2>1. CASE UNCHANGED <<aggType, version, privacy, events, purged>>
    BY <2>1, <2>e
  <2>2. ASSUME NEW w \in Writers, AppendCommit(w) PROVE FALSE
    BY <2>2, <2>e, CommitRows
  <2>3. ASSUME NEW k \in Leads, Anonymize(k) PROVE FALSE
    BY <2>0, <2>3, AnonymizeRows
  <2>4. ASSUME NEW k \in Leads, HardDelete(k)
        PROVE  privacy[l] # "hard-deleted" /\ privacy'[l] = "hard-deleted"
    BY <2>4, <2>e, HardDeleteRows
  <2>5. ASSUME NEW cutoff \in Times, PurgeDelete(cutoff) PROVE FALSE
    <3>1. e \notin Expired(l, cutoff)
      BY DEF Expired
    <3> QED
      BY <2>5, <2>e, <3>1, PurgeRows
  <2> QED
    BY <2>1, <2>2, <2>3, <2>4, <2>5, RowsAfter
<1> QED
  BY <1>1, Inductive, PTL DEF Spec, ProtectedKept

-----------------------------------------------------------------------------
(***************************************************************************)
(* The audit trail.  The count of an anonymisation bounds what is left     *)
(* only because every event of an open lead still has its content.         *)
(***************************************************************************)
OpenReadable ==
  \A l \in Leads : privacy[l] = "active" => \A e \in events[l] : e.content = "payload"

AuditInv == IInv /\ OpenReadable /\ ErasureAudited

LEMMA OpenReadableStep == IInv /\ OpenReadable /\ [Next]_vars => OpenReadable'
<1> SUFFICES ASSUME IInv, OpenReadable, [Next]_vars PROVE OpenReadable'
  OBVIOUS
<1> USE DEF OpenReadable
<1>1. CASE UNCHANGED <<aggType, version, privacy, events, purged>>
  BY <1>1
<1>2. ASSUME NEW w \in Writers, AppendCommit(w) PROVE OpenReadable'
  BY <1>2, CommitRows DEF NewEvent
<1>3. ASSUME NEW l \in Leads, Anonymize(l) PROVE OpenReadable'
  BY <1>3, AnonymizeRows
<1>4. ASSUME NEW l \in Leads, HardDelete(l) PROVE OpenReadable'
  BY <1>4, HardDeleteRows
<1>5. ASSUME NEW cutoff \in Times, PurgeDelete(cutoff) PROVE OpenReadable'
  BY <1>5, PurgeRows
<1> QED
  BY <1>1, <1>2, <1>3, <1>4, <1>5, RowsAfter

\* Only the privacy operations write the audit trail.
LEMMA TrailAfter ==
  ASSUME IInv, [Next]_vars
  PROVE  \/ UNCHANGED operations
         \/ \E l \in Leads : Anonymize(l) \/ HardDelete(l)
<1>1. ASSUME NEW w \in Writers, Quiet(w) PROVE UNCHANGED operations
  BY <1>1, QuietStep DEF IInv
<1> QED
  BY <1>1, StepCases DEF AppendCommit, PurgeCount, PurgeDelete, vars

LEMMA AuditStep == AuditInv /\ [Next]_vars => ErasureAudited'
<1> SUFFICES ASSUME IInv, OpenReadable, ErasureAudited, [Next]_vars, NEW k \in Leads
             PROVE  LET ops == operations'[k]
                    IN  /\ Len(ops) =< 2
                        /\ privacy'[k] = "active" => Len(ops) = 0
                        /\ privacy'[k] # "active" =>
                             Len(ops) > 0 /\ ops[Len(ops)].operation = privacy'[k]
                        /\ privacy'[k] = "anonymized" =>
                             Len(ops) = 1 /\ Cardinality(events'[k]) =< ops[1].affected
                        /\ Len(ops) = 2 => /\ ops[1].operation = "anonymized"
                                           /\ ops[2].affected =< ops[1].affected
  BY DEF ErasureAudited, AuditInv
<1> DEFINE ops == operations[k]
<1>i. /\ Len(ops) =< 2
      /\ privacy[k] = "active" => Len(ops) = 0
      /\ privacy[k] # "active" => Len(ops) > 0 /\ ops[Len(ops)].operation = privacy[k]
      /\ privacy[k] = "anonymized" =>
           Len(ops) = 1 /\ Cardinality(events[k]) =< ops[1].affected
      /\ Len(ops) = 2 => /\ ops[1].operation = "anonymized"
                         /\ ops[2].affected =< ops[1].affected
  BY DEF ErasureAudited
<1>t. /\ ops \in Seq(Operation) /\ Len(ops) \in Nat
      /\ IsFiniteSet(events[k]) /\ Cardinality(events[k]) \in Nat
      /\ privacy[k] \in PrivacyStates
      /\ events[k] \subseteq Event
      /\ operations \in [Leads -> Seq(Operation)]
  BY FS_CardinalityType DEF IInv, TypeOK, RowsBounded
<1>c. \A i \in 1..Len(ops) : ops[i].affected \in Nat
  <2>1. \A i \in 1..Len(ops) : ops[i] \in Operation
    BY <1>t
  <2> QED
    BY <2>1 DEF Operation
<1>1. ASSUME operations'[k] = ops, privacy'[k] = privacy[k],
             \/ events'[k] \subseteq events[k]
             \/ privacy[k] = "active"
      PROVE  LET new == operations'[k]
             IN  /\ Len(new) =< 2
                 /\ privacy'[k] = "active" => Len(new) = 0
                 /\ privacy'[k] # "active" =>
                      Len(new) > 0 /\ new[Len(new)].operation = privacy'[k]
                 /\ privacy'[k] = "anonymized" =>
                      Len(new) = 1 /\ Cardinality(events'[k]) =< new[1].affected
                 /\ Len(new) = 2 => /\ new[1].operation = "anonymized"
                                    /\ new[2].affected =< new[1].affected
  <2>1. CASE privacy[k] = "active"
    BY <1>1, <1>i, <1>t, <2>1
  <2>2. CASE events'[k] \subseteq events[k]
    <3>1. Cardinality(events'[k]) \in Nat /\ Cardinality(events'[k]) =< Cardinality(events[k])
      BY <1>t, <2>2, FS_Subset, FS_CardinalityType
    <3> QED
      BY <1>1, <1>i, <1>t, <1>c, <3>1
  <2> QED
    BY <1>1, <2>1, <2>2
<1>2. ASSUME NEW l \in Leads, Anonymize(l) \/ HardDelete(l), l # k
      PROVE  operations'[k] = ops /\ privacy'[k] = privacy[k] /\ events'[k] = events[k]
  BY <1>2, <1>t, AnonymizeRows, HardDeleteRows DEF Anonymize, HardDelete, Record
<1>3. ASSUME Anonymize(k)
      PROVE  LET new == operations'[k]
             IN  /\ privacy'[k] = "anonymized"
                 /\ Len(new) = 1 /\ new[1].operation = "anonymized"
                 /\ Cardinality(events'[k]) =< new[1].affected
  <2>1. /\ privacy[k] = "active" /\ privacy'[k] = "anonymized"
        /\ events'[k] = {Redacted(e) : e \in events[k]}
    BY <1>3, AnonymizeRows
  <2>2. {e \in events[k] : e.content = "payload"} = events[k]
    BY <2>1 DEF OpenReadable
  <2>3. operations'[k] = Append(ops, [operation |-> "anonymized",
                                      affected |-> Cardinality(events[k])])
    BY <1>3, <1>t, <2>2 DEF Anonymize, Record
  <2>4. Cardinality(events'[k]) =< Cardinality(events[k])
    <3> DEFINE f == [e \in events[k] |-> Redacted(e)]
    <3> DEFINE T == {Redacted(e) : e \in events[k]}
    <3>1. f \in Surjection(events[k], T)
      BY DEF Surjection
    <3> QED
      BY <1>t, <2>1, <3>1, FS_Surjection
  <2>5. Len(ops) = 0
    BY <1>i, <2>1
  <2> QED
    BY <1>t, <2>1, <2>3, <2>4, <2>5
<1>4. ASSUME HardDelete(k)
      PROVE  LET new == operations'[k]
             IN  /\ privacy'[k] = "hard-deleted"
                 /\ Len(new) > 0 /\ Len(new) =< 2
                 /\ new[Len(new)].operation = "hard-deleted"
                 /\ Len(new) = 2 => /\ new[1].operation = "anonymized"
                                    /\ new[2].affected =< new[1].affected
  <2> DEFINE last == [operation |-> "hard-deleted", affected |-> Cardinality(events[k])]
  <2>1. /\ privacy[k] # "hard-deleted" /\ privacy'[k] = "hard-deleted"
        /\ operations'[k] = Append(ops, last)
    BY <1>4, <1>t, HardDeleteRows DEF HardDelete, Record
  <2>2. last \in Operation
    BY <1>t DEF Operation
  <2>3. /\ Len(Append(ops, last)) = Len(ops) + 1
        /\ Append(ops, last)[Len(ops) + 1] = last
        /\ \A i \in 1..Len(ops) : Append(ops, last)[i] = ops[i]
    BY <1>t, <2>2
  <2>4. CASE privacy[k] = "active"
    BY <1>i, <2>1, <2>3, <2>4
  <2>5. CASE privacy[k] = "anonymized"
    <3>1. Len(ops) = 1 /\ ops[1].operation = "anonymized"
      BY <1>i, <2>5
    <3> QED
      BY <1>i, <1>t, <1>c, <2>1, <2>3, <2>5, <3>1
  <2> QED
    BY <1>t, <2>1, <2>4, <2>5 DEF PrivacyStates
<1>5. CASE \E l \in Leads : Anonymize(l) \/ HardDelete(l)
  <2>1. PICK l \in Leads : Anonymize(l) \/ HardDelete(l)
    BY <1>5
  <2>2. CASE l # k
    BY <1>1, <1>2, <2>1, <2>2
  <2>3. CASE Anonymize(k)
    BY <1>3, <2>3
  <2>4. CASE HardDelete(k)
    BY <1>4, <2>4
  <2> QED
    BY <2>1, <2>2, <2>3, <2>4
<1>6. CASE UNCHANGED operations /\ ~\E l \in Leads : Anonymize(l) \/ HardDelete(l)
  <2>1. ASSUME NEW w \in Writers, AppendCommit(w)
        PROVE  privacy' = privacy /\ (events'[k] = events[k] \/ privacy[k] = "active")
    BY <2>1, CommitRows
  <2>2. ASSUME NEW cutoff \in Times, PurgeDelete(cutoff)
        PROVE  privacy' = privacy /\ events'[k] \subseteq events[k]
    BY <2>2, PurgeRows
  <2> QED
    BY <1>1, <1>6, <2>1, <2>2, RowsAfter
<1> QED
  BY <1>5, <1>6, TrailAfter

\* repository.py anonymize(), hard_delete(): an erasure is on the audit trail
\* exactly once, however often it is asked for.
THEOREM ErasuresAudited == Spec => []ErasureAudited
<1>1. Init => OpenReadable /\ ErasureAudited
  BY DEF Init, OpenReadable, ErasureAudited
<1>2. AuditInv /\ IInv' /\ [Next]_vars => AuditInv'
  BY OpenReadableStep, AuditStep DEF AuditInv
<1>3. Init => AuditInv
  BY <1>1, InitInv DEF AuditInv
<1>4. Spec => []AuditInv
  BY <1>2, <1>3, Inductive, PTL DEF Spec
<1> QED
  BY <1>4, PTL DEF AuditInv

-----------------------------------------------------------------------------
(***************************************************************************)
(* The rows implement the ledger, step by step.                            *)
(***************************************************************************)
LEMMA LedgerInit == Init => Ledger!Init
  BY DEF Init, Ledger!Init, LedgerState, LedgerEntry, Versions, Ledger!Versions

\* The entries of a lead after a step, version by version, are all that is
\* needed: the mapped functions agree when they agree there.
LEMMA SameLedger ==
  ASSUME UNCHANGED <<version, privacy, events>>
  PROVE  UNCHANGED Ledger!ledger
BY DEF Ledger!ledger, LedgerState, LedgerEntry

LEMMA CommitImplements ==
  ASSUME IInv, NEW w \in Writers, AppendCommit(w)
  PROVE  Ledger!Commit(call[w].to.lead)
<1> DEFINE entriesNow == [k \in Leads |-> [v \in Versions |-> LedgerEntry(k, v)]]
<1> DEFINE l == call[w].to.lead
<1>1. /\ l \in Leads
      /\ version[l] \in 0..(MaxVersion - 1)
      /\ privacy[l] = "active"
      /\ version \in [Leads -> 0..MaxVersion]
  BY CommitStep DEF IInv, TypeOK
<1>2. version' = [version EXCEPT ![l] = version[l] + 1]
  BY CommitStep DEF AppendCommit
<1>3. ASSUME NEW k \in Leads, NEW v \in Versions
      PROVE  LedgerEntry(k, v)' = IF k = l /\ v = version[l] + 1 THEN "kept"
                                                                 ELSE LedgerEntry(k, v)
  <2>1. CASE k # l
    BY <2>1, CommitRows DEF LedgerEntry
  <2>2. CASE k = l
    <3>1. /\ version'[l] = version[l] + 1 /\ version[l] \in Nat
          /\ events'[l] = events[l] \cup {NewEvent(call[w])}
          /\ NewEvent(call[w]).version = version[l] + 1
          /\ NewEvent(call[w]).content = "payload"
      BY <1>1, CommitRows DEF NewEvent
    <3>2. \A e \in events[l] : e.version # version[l] + 1
      <4>1. VersionsOf(l) \subseteq 1..version[l]
        BY <1>1 DEF IInv, RowsBounded
      <4>2. version[l] + 1 \notin VersionsOf(l)
        BY <3>1, <4>1
      <4> QED
        BY <4>2 DEF VersionsOf
    <3>3. v \in Nat
      BY DEF Versions
    <3>4. CASE v = version[l] + 1
      BY <2>2, <3>1, <3>2, <3>4 DEF LedgerEntry
    <3>5. CASE v # version[l] + 1
      <4>1. v > version'[l] <=> v > version[l]
        BY <3>1, <3>3, <3>5
      <4>2. \A e \in events'[l] : e.version = v => e \in events[l]
        BY <3>1, <3>5
      <4> QED
        BY <2>2, <3>1, <3>5, <4>1, <4>2 DEF LedgerEntry
    <3> QED
      BY <3>4, <3>5
  <2> QED
    BY <2>1, <2>2
<1>4. privacy' = privacy
  BY DEF AppendCommit
<1>5. LedgerState(l) = "open"
  BY <1>1 DEF LedgerState
<1>6. entriesNow' = [entriesNow EXCEPT ![l] =
         [v \in Versions |-> IF v = version[l] + 1 THEN "kept" ELSE entriesNow[l][v]]]
  BY <1>3
<1>7. UNCHANGED [k \in Leads |-> LedgerState(k)]
  BY <1>4 DEF LedgerState
<1> QED
  BY <1>1, <1>2, <1>5, <1>6, <1>7, BoundAssumption
  DEF Ledger!Commit, Ledger!Versions, Versions

LEMMA AnonymizeImplements ==
  ASSUME IInv, NEW l \in Leads, Anonymize(l)
  PROVE  Ledger!Anonymize(l)
<1> DEFINE entriesNow == [k \in Leads |-> [v \in Versions |-> LedgerEntry(k, v)]]
<1>1. /\ privacy[l] = "active" /\ privacy' = [privacy EXCEPT ![l] = "anonymized"]
      /\ version' = version
      /\ version[l] > 0
      /\ privacy \in [Leads -> PrivacyStates]
  BY DEF Anonymize, IInv, BlankRows, TypeOK
<1>2. ASSUME NEW k \in Leads, NEW v \in Versions
      PROVE  LedgerEntry(k, v)' = IF k = l /\ LedgerEntry(k, v) = "kept"
                                  THEN "anonymized" ELSE LedgerEntry(k, v)
  <2>1. CASE k # l
    BY <1>1, <2>1, AnonymizeRows DEF LedgerEntry
  <2>2. CASE k = l
    <3>1. events'[l] = {Redacted(e) : e \in events[l]}
      BY AnonymizeRows
    <3>2. \A e \in events[l] : Redacted(e).version = e.version
                               /\ Redacted(e).content = "anonymized"
      BY Redaction DEF IInv, TypeOK
    <3> QED
      BY <1>1, <2>2, <3>1, <3>2 DEF LedgerEntry
  <2> QED
    BY <2>1, <2>2
<1>3. LedgerState(l) = "open"
  BY <1>1 DEF LedgerState
<1>4. [k \in Leads |-> LedgerState(k)]'
        = [[k \in Leads |-> LedgerState(k)] EXCEPT ![l] = "anonymized"]
  <2>1. \A k \in Leads : k # l => LedgerState(k)' = LedgerState(k)
    BY <1>1 DEF LedgerState
  <2>2. LedgerState(l)' = "anonymized"
    BY <1>1 DEF LedgerState
  <2> QED
    BY <2>1, <2>2
<1>5. entriesNow' = [entriesNow EXCEPT ![l] =
         [v \in Versions |-> IF entriesNow[l][v] = "kept" THEN "anonymized"
                                                         ELSE entriesNow[l][v]]]
  BY <1>2
<1> QED
  BY <1>1, <1>3, <1>4, <1>5 DEF Ledger!Anonymize, Ledger!Versions, Versions

LEMMA HardDeleteImplements ==
  ASSUME IInv, NEW l \in Leads, HardDelete(l)
  PROVE  Ledger!Erase(l)
<1> DEFINE entriesNow == [k \in Leads |-> [v \in Versions |-> LedgerEntry(k, v)]]
<1>1. /\ privacy[l] # "hard-deleted" /\ privacy' = [privacy EXCEPT ![l] = "hard-deleted"]
      /\ events' = [events EXCEPT ![l] = {}]
      /\ version' = version
      /\ version[l] > 0
      /\ privacy \in [Leads -> PrivacyStates]
      /\ events \in [Leads -> SUBSET Event]
  BY DEF HardDelete, IInv, BlankRows, TypeOK
<1>2. ASSUME NEW k \in Leads, NEW v \in Versions
      PROVE  LedgerEntry(k, v)' = IF k = l /\ LedgerEntry(k, v) # "free"
                                  THEN "gone" ELSE LedgerEntry(k, v)
  BY <1>1 DEF LedgerEntry
<1>3. LedgerState(l) # "erased"
  BY <1>1 DEF LedgerState, PrivacyStates
<1>4. [k \in Leads |-> LedgerState(k)]'
        = [[k \in Leads |-> LedgerState(k)] EXCEPT ![l] = "erased"]
  <2>1. \A k \in Leads : k # l => LedgerState(k)' = LedgerState(k)
    BY <1>1 DEF LedgerState
  <2>2. LedgerState(l)' = "erased"
    BY <1>1 DEF LedgerState
  <2> QED
    BY <2>1, <2>2
<1>5. entriesNow' = [entriesNow EXCEPT ![l] =
         [v \in Versions |-> IF entriesNow[l][v] = "free" THEN "free" ELSE "gone"]]
  BY <1>2
<1> QED
  BY <1>1, <1>3, <1>4, <1>5 DEF Ledger!Erase, Ledger!Versions, Versions

LEMMA PurgeImplements ==
  ASSUME IInv, NEW cutoff \in Times, PurgeDelete(cutoff)
  PROVE  \E expired \in SUBSET (Leads \X Ledger!Versions) : Ledger!Expire(expired)
<1> DEFINE gone == {p \in Leads \X Versions : \E e \in Expired(p[1], cutoff) : e.version = p[2]}
<1>1. ASSUME NEW k \in Leads
      PROVE  /\ events'[k] = events[k] \ Expired(k, cutoff)
             /\ Expired(k, cutoff) \subseteq events[k]
             /\ \A e, f \in events[k] : e.version = f.version => e = f
             /\ VersionsOf(k) \subseteq 1..version[k] /\ version[k] \in Nat
  BY PurgeRows, BoundAssumption DEF IInv, VersionsAccounted, RowsBounded, TypeOK
<1>2. version' = version /\ privacy' = privacy
  BY DEF PurgeDelete, heads
<1>3. ASSUME NEW k \in Leads, NEW v \in Versions
      PROVE  LedgerEntry(k, v)' = IF <<k, v>> \in gone /\ LedgerEntry(k, v) # "free"
                                  THEN "gone" ELSE LedgerEntry(k, v)
  <2>1. CASE <<k, v>> \in gone
    <3>1. PICK e \in Expired(k, cutoff) : e.version = v
      BY <2>1
    <3>2. \A f \in events'[k] : f.version # v
      BY <1>1, <3>1
    <3> QED
      BY <1>2, <2>1, <3>2 DEF LedgerEntry
  <2>2. CASE <<k, v>> \notin gone
    <3>1. \A e \in events[k] : e.version = v => e \in events'[k]
      BY <1>1, <2>2
    <3>2. events'[k] \subseteq events[k]
      BY <1>1
    <3> QED
      BY <1>2, <2>2, <3>1, <3>2 DEF LedgerEntry
  <2> QED
    BY <2>1, <2>2
<1>4. Ledger!Expire(gone)
  BY <1>2, <1>3 DEF Ledger!Expire, Ledger!Versions, Versions, LedgerState
<1>5. gone \in SUBSET (Leads \X Ledger!Versions)
  BY DEF Ledger!Versions, Versions
<1> QED
  BY <1>4, <1>5

\* storage/repository.py as a whole: with writers racing on unlocked reads, and
\* privacy operations between any two of their steps, the store is still a
\* ledger whose appends are atomic and whose content only decays.
THEOREM StoreImplementsLedger == Spec => ImplementsLedger
<1>1. IInv /\ [Next]_vars => [Ledger!Next]_(Ledger!ledger)
  <2> SUFFICES ASSUME IInv, [Next]_vars PROVE Ledger!Next \/ UNCHANGED Ledger!ledger
    OBVIOUS
  <2>1. CASE UNCHANGED <<aggType, version, privacy, events, purged>>
    BY <2>1, SameLedger
  <2>2. ASSUME NEW w \in Writers, AppendCommit(w) PROVE Ledger!Next
    BY <2>2, CommitImplements, CommitStep DEF Ledger!Next
  <2>3. ASSUME NEW l \in Leads, Anonymize(l) PROVE Ledger!Next
    BY <2>3, AnonymizeImplements DEF Ledger!Next
  <2>4. ASSUME NEW l \in Leads, HardDelete(l) PROVE Ledger!Next
    BY <2>4, HardDeleteImplements DEF Ledger!Next
  <2>5. ASSUME NEW cutoff \in Times, PurgeDelete(cutoff) PROVE Ledger!Next
    BY <2>5, PurgeImplements DEF Ledger!Next
  <2> QED
    BY <2>1, <2>2, <2>3, <2>4, <2>5, RowsAfter
<1> QED
  BY <1>1, LedgerInit, Inductive, PTL DEF Spec, ImplementsLedger, Ledger!Spec

-----------------------------------------------------------------------------
(***************************************************************************)
(* JournalReader.  A load keeps no lock, so what it has read says nothing  *)
(* of the store as it is.  What it has read says something of any later    *)
(* moment at which the head is found as it was: heads never come back to   *)
(* where they were, so at that moment nothing was appended or erased since *)
(* the first read.                                                         *)
(***************************************************************************)
\* A status that was once read is not ahead of the lead.
Seen(status, l) ==
  /\ status.type \in {NoType, aggType[l]}
  /\ status.version \in 0..Limit /\ status.version =< version[l]
  /\ status.privacy # "active" => privacy[l] # "active"

Numbered(rows) == \A e, f \in rows : e.version = f.version => e = f

\* Rows that were read after that status are what they were then, if the head
\* still is.
RowsSeen(rows, status, l) ==
  /\ IsFiniteSet(rows) /\ Numbered(rows)
  /\ ~Exists(l) => rows = {}
  /\ privacy[l] = "active" /\ version[l] = status.version =>
       \A e \in rows : e.version \in 1..status.version /\ e.content = "payload"

LoadKnows ==
  /\ load.stage \in Loading => load.lead \in Leads
  /\ load.stage \in {"reading", "confirming"} => Seen(load.before, load.lead)
  /\ load.stage = "confirming" =>
       /\ load = [stage |-> "confirming", lead |-> load.lead, attempt |-> load.attempt,
                  before |-> load.before, rows |-> load.rows]
       /\ RowsSeen(load.rows, load.before, load.lead)

ReaderInv == IInv /\ OpenReadable /\ LoadKnows /\ LoadsWhole

\* The store moves on under a load.
LEMMA KnowsOn ==
  ASSUME IInv, LoadKnows, [Next]_vars, UNCHANGED load
  PROVE  LoadKnows'
<1>1. ASSUME load.stage \in {"reading", "confirming"}
      PROVE  Seen(load.before, load.lead)'
  BY <1>1, HeadsMonotone DEF LoadKnows, Loading, Seen, Exists
<1>2. ASSUME load.stage = "confirming"
      PROVE  RowsSeen(load.rows, load.before, load.lead)'
  <2> DEFINE l == load.lead
  <2>1. l \in Leads /\ Seen(load.before, l) /\ RowsSeen(load.rows, load.before, l)
    BY <1>2 DEF LoadKnows, Loading
  <2>2. /\ ~Exists(l)' => ~Exists(l)
        /\ privacy'[l] = "active" /\ version'[l] = load.before.version
             => privacy[l] = "active" /\ version[l] = load.before.version
    BY <2>1, HeadsMonotone, SentinelAssumption, ReaderAssumption DEF Seen, Exists
  <2> QED
    BY <2>1, <2>2 DEF RowsSeen, Numbered
<1> QED
  BY <1>1, <1>2 DEF LoadKnows

\* A set of rows with as many rows as there are numbers has every number.
LEMMA AllNumbers ==
  ASSUME NEW rows, IsFiniteSet(rows), Numbered(rows), NEW n \in Nat,
         Cardinality(rows) = n, \A e \in rows : e.version \in 1..n
  PROVE  {e.version : e \in rows} = 1..n
<1> DEFINE number == [e \in rows |-> e.version]
<1>1. number \in Injection(rows, 1..n)
  BY DEF Numbered, Injection, IsInjective
<1>2. IsFiniteSet(1..n) /\ Cardinality(1..n) = n
  BY FS_Interval
<1>3. number \in Surjection(rows, 1..n)
  BY <1>1, <1>2, FS_Injection
<1> QED
  BY <1>3 DEF Surjection

\* What is returned once the head is found unmoved.
LEMMA ConfirmedWhole ==
  ASSUME IInv, LoadKnows, load.stage = "confirming", Confirmed
  PROVE  /\ Verdict # "corrupt"
         /\ Verdict = "loaded" =>
              /\ {e.version : e \in load.rows} = 1..load.before.version
              /\ \A e \in load.rows : e.content = "payload"
<1> DEFINE l == load.lead
<1> DEFINE B == load.before
<1> DEFINE rows == load.rows
<1>1. l \in Leads /\ RowsSeen(rows, B, l)
  BY DEF LoadKnows, Loading
<1>2. B.type = aggType[l] /\ B.version = version[l] /\ B.privacy = privacy[l]
  BY DEF Confirmed, StatusOf
<1>3. version[l] \in Nat
  BY <1>1, BoundAssumption DEF IInv, TypeOK
<1>4. CASE B.type = NoType
  <2>0. ~Exists(l)
    BY <1>2, <1>4 DEF Exists
  <2>1. rows = {} /\ version[l] = 0
    BY <1>1, <1>3, <2>0 DEF RowsSeen, IInv, BlankRows
  <2>2. Cardinality(rows) = 0
    BY <2>1, FS_EmptySet
  <2>3. {e.version : e \in rows} = 1..0
    BY <2>1
  <2> QED
    BY <1>2, <2>1, <2>2, <2>3 DEF Verdict, Contiguous
<1>5. CASE B.type # NoType /\ B.privacy = "active" /\ B.version = Cardinality(rows)
  <2>1. \A e \in rows : e.version \in 1..B.version /\ e.content = "payload"
    BY <1>1, <1>2, <1>5 DEF RowsSeen
  <2>2. {e.version : e \in rows} = 1..B.version
    BY <1>1, <1>2, <1>3, <1>5, <2>1, AllNumbers DEF RowsSeen
  <2> QED
    BY <1>5, <2>1, <2>2 DEF Verdict, Contiguous
<1>6. CASE B.type # NoType /\ ~(B.privacy = "active" /\ B.version = Cardinality(rows))
  BY <1>6 DEF Verdict
<1> QED
  BY <1>4, <1>5, <1>6

LEMMA LoadStepKnows ==
  ASSUME IInv, OpenReadable, LoadKnows, LoadsWhole, LoadStep
  PROVE  LoadKnows' /\ LoadsWhole'
<1>0. UNCHANGED vars
  BY DEF LoadStep, LoadBegins, ReadStatus, ReadRows, ReadStatusAgain
<1>e. ASSUME NEW result \in {"over", "foreign", "unavailable", "conflict"}, Ends(result)
      PROVE  LoadKnows' /\ LoadsWhole'
  BY <1>e DEF Ends, LoadKnows, LoadsWhole, Loading
<1>1. ASSUME NEW l \in Leads, LoadBegins(l) PROVE LoadKnows' /\ LoadsWhole'
  BY <1>1 DEF LoadBegins, LoadKnows, LoadsWhole, Loading
<1>2. CASE ReadStatus
  <2> DEFINE l == load.lead
  <2>1. CASE version[l] > Limit
    BY <1>2, <1>e, <2>1 DEF ReadStatus
  <2>2. CASE ~(version[l] > Limit)
    <3>1. load' = [stage |-> "reading", lead |-> l, attempt |-> load.attempt,
                   before |-> StatusOf(l)]
      BY <1>2, <2>2 DEF ReadStatus
    <3>2. l \in Leads
      BY <1>2 DEF ReadStatus, LoadKnows, Loading
    <3>3. version[l] \in Nat
      BY <3>2, BoundAssumption DEF IInv, TypeOK
    <3>4. Seen(StatusOf(l), l)
      BY <2>2, <3>3, ReaderAssumption DEF Seen, StatusOf
    <3>5. Seen(StatusOf(l), l)'
      BY <1>0, <3>1, <3>4 DEF Seen, StatusOf, vars
    <3> QED
      BY <1>0, <3>1, <3>2, <3>4 DEF LoadKnows, LoadsWhole, Loading, Seen, vars
  <2> QED
    BY <2>1, <2>2
<1>3. CASE ReadRows
  <2> DEFINE l == load.lead
  <2>1. load' = [stage |-> "confirming", lead |-> l, attempt |-> load.attempt,
                 before |-> load.before, rows |-> FirstRows(l)]
    BY <1>3 DEF ReadRows
  <2>2. l \in Leads /\ Seen(load.before, l)
    BY <1>3 DEF ReadRows, LoadKnows, Loading
  <2>3. FirstRows(l) \subseteq events[l]
    BY DEF FirstRows
  <2>4. IsFiniteSet(FirstRows(l))
    BY <2>2, <2>3, FS_Subset DEF IInv, RowsBounded
  <2>5. Numbered(FirstRows(l))
    BY <2>2, <2>3 DEF Numbered, IInv, VersionsAccounted
  <2>6. RowsSeen(FirstRows(l), load.before, l)
    BY <2>2, <2>3, <2>4, <2>5 DEF RowsSeen, IInv, BlankRows, RowsBounded, VersionsOf, OpenReadable
  <2> QED
    BY <1>0, <2>1, <2>2, <2>6 DEF LoadKnows, LoadsWhole, Loading, Seen, RowsSeen, Numbered,
       Exists, vars
<1>4. CASE ReadStatusAgain
  <2>1. CASE Confirmed /\ Verdict = "loaded"
    <3>1. load' = [load EXCEPT !.stage = "loaded"]
      BY <1>4, <2>1 DEF ReadStatusAgain
    <3>2. /\ load.stage = "confirming"
          /\ load = [stage |-> "confirming", lead |-> load.lead, attempt |-> load.attempt,
                     before |-> load.before, rows |-> load.rows]
      BY <1>4 DEF ReadStatusAgain, LoadKnows
    <3>3. load' = [stage |-> "loaded", lead |-> load.lead, attempt |-> load.attempt,
                   before |-> load.before, rows |-> load.rows]
      BY <3>1, <3>2
    <3> QED
      BY <2>1, <3>2, <3>3, ConfirmedWhole DEF LoadKnows, LoadsWhole, Loading
  <2>2. CASE Confirmed /\ Verdict # "loaded"
    <3>1. Verdict \in {"over", "foreign", "unavailable", "conflict"}
      BY <1>4, <2>2, ConfirmedWhole DEF ReadStatusAgain, Verdict
    <3> QED
      BY <1>4, <1>e, <2>2, <3>1 DEF ReadStatusAgain
  <2>3. CASE ~Confirmed /\ load.attempt < LoadAttempts
    <3>1. load' = [stage |-> "starting", lead |-> load.lead, attempt |-> load.attempt + 1]
      BY <1>4, <2>3 DEF ReadStatusAgain
    <3> QED
      BY <1>4, <3>1 DEF ReadStatusAgain, LoadKnows, LoadsWhole, Loading
  <2>4. CASE ~Confirmed /\ ~(load.attempt < LoadAttempts)
    BY <1>4, <1>e, <2>4 DEF ReadStatusAgain
  <2> QED
    BY <2>1, <2>2, <2>3, <2>4
<1> QED
  BY <1>1, <1>2, <1>3, <1>4 DEF LoadStep

\* journal.py _load_events(): whatever is appended, erased or purged between the
\* reads of a load, what it returns is the whole stream up to the head it read,
\* all of it readable, and never a claim that the database is corrupt.
THEOREM LoadsWholeHolds == ReaderSpec => []LoadsWhole
<1>1. ReaderInit => ReaderInv
  <2> SUFFICES ASSUME ReaderInit PROVE ReaderInv
    OBVIOUS
  <2>1. IInv /\ OpenReadable
    BY InitInv DEF ReaderInit, Init, OpenReadable
  <2>2. LoadKnows /\ LoadsWhole
    BY DEF ReaderInit, NoLoad, LoadKnows, LoadsWhole, Loading
  <2> QED
    BY <2>1, <2>2 DEF ReaderInv
<1>2. ReaderInv /\ [ReaderNext]_<<vars, load>> => ReaderInv'
  <2> SUFFICES ASSUME ReaderInv, [ReaderNext]_<<vars, load>> PROVE ReaderInv'
    OBVIOUS
  <2>1. [Next]_vars
    BY DEF ReaderNext, LoadStep, LoadBegins, ReadStatus, ReadRows, ReadStatusAgain
  <2>2. IInv' /\ OpenReadable'
    BY <2>1, StepInv, OpenReadableStep DEF ReaderInv
  <2>3. CASE UNCHANGED load
    BY <2>1, <2>2, <2>3, KnowsOn DEF ReaderInv, LoadsWhole
  <2>4. CASE LoadStep
    BY <2>2, <2>4, LoadStepKnows DEF ReaderInv
  <2> QED
    BY <2>3, <2>4 DEF ReaderNext
<1>3. ReaderInv => LoadsWhole
  BY DEF ReaderInv
<1> QED
  BY <1>1, <1>2, <1>3, PTL DEF ReaderSpec
=============================================================================
