------------------------------ MODULE Callbacks ------------------------------
(***************************************************************************)
(* actions/callbacks.py: scheduling, cancelling, dialling and tearing down *)
(* callbacks over a scheduler and a telephony provider that may fail for   *)
(* good, fail for now, or fail after having done what they were asked.     *)
(*                                                                         *)
(* The service is asyncio code: what runs between two awaits is one step.  *)
(* A lock per callback is held across each provider call; operations on    *)
(* different callbacks interleave at every call.  A teardown sweeps the    *)
(* callbacks of one session, a dispatch batch those that are due, taking   *)
(* one lock at a time.                                                     *)
(***************************************************************************)
EXTENDS Naturals, FiniteSets

CONSTANTS Callbacks,
          Owners,       \* sessions, by the prefix of their callback ids
          OwnerOf,
          Schedules,    \* requests: [key, callback, at]
          Cancels,      \* cancellations: [key, callback]
          MaxCallbacks,
          MaxFuture,    \* how far ahead a callback may be scheduled
          MaxTime,      \* bound: the clock
          MaxFaults     \* bound: provider failures

Keys == {r.key : r \in Schedules}
CancelKeys == {r.key : r \in Cancels}

ASSUME OwnersAssumption == OwnerOf \in [Callbacks -> Owners]
ASSUME RequestsAssumption ==
  /\ \A r \in Schedules : DOMAIN r = {"key", "callback", "at"}
                          /\ r.callback \in Callbacks /\ r.at \in Nat
  /\ \A r, q \in Schedules \cup Cancels : r.key = q.key => r = q
  /\ \A r \in Cancels : DOMAIN r = {"key", "callback"} /\ r.callback \in Callbacks
  /\ Keys \cap CancelKeys = {}
ASSUME BoundsAssumption ==
  MaxCallbacks \in Nat \ {0} /\ MaxFuture \in Nat \ {0} /\ MaxTime \in Nat /\ MaxFaults \in Nat

VARIABLES now,
          records,      \* _records
          results,      \* _operation_results: keys that have been answered
          pending,      \* _pending_schedules: incarnation by key, 0: not pending
          cancelKey,    \* _pending_cancellations
          sweepKey,     \* _pending_schedule_cancellations
          failed,       \* _failed_cancellations
          incarnation,  \* _callback_incarnations, 0: none
          attempts,     \* _cleanup_attempts
          sequence,     \* _incarnation_sequence
          holder,       \* the provider call made under each callback's lock
          batch,        \* what a running dispatch_due has not reached
          sweep,        \* what a running remove_by_prefix has not reached
          ended,        \* sessions: open, closing, or closed
          optedOut,     \* owners whose contact policy has turned
          armed,        \* external: the scheduler's jobs, 0: none
          acted,        \* external: idempotency keys the providers have served
          rejected,     \* history: keys the scheduler refused for good
          canceled,     \* history: schedules acknowledged as canceled
          faults

service == <<records, results, pending, cancelKey, sweepKey, failed, incarnation,
             attempts, sequence>>
provider == <<armed, acted, faults>>
vars == <<now, service, holder, batch, sweep, ended, optedOut, provider, rejected, canceled>>

-----------------------------------------------------------------------------
NoKey == <<"none">>
ClientKey(k) == <<"client", k>>
CleanupKey(c, i, n) == <<"cleanup", c, i, n>>
DialKey(k) == <<"dispatch", k>>

RequestOf(k) == CHOOSE r \in Schedules : r.key = k
CallbackFor(k) == (CHOOSE r \in Schedules \cup Cancels : r.key = k).callback
NoRecord == [status |-> "none"]
Record(r, status) == [status |-> status, key |-> r.key, at |-> r.at]
Status(c, status) == [records EXCEPT ![c].status = status]
Free == [call |-> "none"]

Live == {"scheduled", "cancellation-pending", "cancellation-required"}
PendingKeys(c) == {k \in Keys : pending[k] # 0 /\ RequestOf(k).callback = c}
Active == {c \in Callbacks : records[c].status \in Live \/ PendingKeys(c) # {}}
Of(s) == {c \in Callbacks : OwnerOf[c] = s}
Idle(c) == holder[c] = Free
Serves(c) == Idle(c) /\ ended[OwnerOf[c]] = "open"

Init ==
  /\ now = 0
  /\ records = [c \in Callbacks |-> NoRecord]
  /\ results = [k \in Keys \cup CancelKeys |-> "none"]
  /\ pending = [k \in Keys |-> 0]
  /\ cancelKey = [c \in Callbacks |-> NoKey]
  /\ sweepKey = [k \in Keys |-> NoKey]
  /\ failed = {}
  /\ incarnation = [c \in Callbacks |-> 0]
  /\ attempts = [a \in {} |-> 0]
  /\ sequence = 0
  /\ holder = [c \in Callbacks |-> Free]
  /\ batch = {}
  /\ sweep = [s \in Owners |-> [stage |-> "none"]]
  /\ ended = [s \in Owners |-> "open"]
  /\ optedOut = {}
  /\ armed = [c \in Callbacks |-> 0]
  /\ acted = {} /\ rejected = {} /\ canceled = {}
  /\ faults = 0

(***************************************************************************)
(* What a provider may make of a call: serve it, refuse it for good, fail  *)
(* without serving it, or fail having served it.  A key that was served is *)
(* never refused.                                                          *)
(***************************************************************************)
Serve(c, job) == armed' = [armed EXCEPT ![c] = job]

Served(c, job) ==
  /\ Serve(c, job)
  /\ acted' = acted \cup {holder[c].key}
  /\ UNCHANGED <<faults, rejected>>

Faulty == faults < MaxFaults /\ faults' = faults + 1                \* bound

Refused(c) ==
  /\ Faulty
  /\ holder[c].key \notin acted
  /\ rejected' = rejected \cup {holder[c].key}
  /\ UNCHANGED <<armed, acted>>

Lost(c, job) ==
  /\ Faulty
  /\ \/ UNCHANGED <<armed, acted>>
     \/ Serve(c, job) /\ acted' = acted \cup {holder[c].key}
  /\ UNCHANGED rejected

Calls(c, call, key, k) ==
  holder' = [holder EXCEPT ![c] = [call |-> call, key |-> key, for |-> k, was |-> records[c]]]
Releases(c) == holder' = [holder EXCEPT ![c] = Free]
-----------------------------------------------------------------------------
(***************************************************************************)
(* schedule()                                                              *)
(***************************************************************************)
Block(r) ==
  /\ records' = [records EXCEPT ![r.callback] = Record(r, "blocked")]
  /\ results' = [results EXCEPT ![r.key] = "blocked"]
  /\ UNCHANGED <<pending, cancelKey, sweepKey, failed, incarnation, attempts, sequence, holder>>

HasRoom(c) == c \in Active \/ Cardinality(Active) < MaxCallbacks

\* mutant: a schedule of unknown outcome does not stop another
AdmitsPending(r) == records[r.callback].status \notin Live

Admits(r) == records[r.callback].status \notin Live /\ PendingKeys(r.callback) = {}

TimeInvalid(r) == r.at =< now \/ r.at > now + MaxFuture

\* A request whose outcome is unknown is asked again under its old pending
\* entry; a time that is past, or too far, is blocked before anything else is
\* looked at.
Schedule(r) ==
  LET c == r.callback
  IN  /\ Serves(c) /\ results[r.key] = "none"
      /\ \/ /\ pending[r.key] # 0
            /\ Calls(c, "schedule", ClientKey(r.key), r.key)
            /\ UNCHANGED service
         \/ /\ pending[r.key] = 0 /\ TimeInvalid(r)
            /\ Block(r)
         \/ /\ pending[r.key] = 0 /\ ~TimeInvalid(r)
            /\ HasRoom(c) /\ Admits(r)
            /\ OwnerOf[c] \in optedOut
            /\ Block(r)
         \/ /\ pending[r.key] = 0 /\ ~TimeInvalid(r)
            /\ HasRoom(c) /\ Admits(r)
            /\ OwnerOf[c] \notin optedOut
            /\ sequence' = sequence + 1
            /\ pending' = [pending EXCEPT ![r.key] = sequence']
            /\ Calls(c, "schedule", ClientKey(r.key), r.key)
            /\ UNCHANGED <<records, results, cancelKey, sweepKey, failed, incarnation, attempts>>
      /\ UNCHANGED <<now, batch, sweep, ended, optedOut, provider, rejected, canceled>>

\* mutant: a call whose outcome is unknown is taken to have done nothing
OutcomeUnknownDrops(k) == pending' = [pending EXCEPT ![k] = 0]

\* The entry stays until the provider has answered for it.
OutcomeUnknown(k) == UNCHANGED pending

Incarnates(c, i) == incarnation' = [incarnation EXCEPT ![c] = i]

ScheduleReturns(c) ==
  LET k == holder[c].for
      r == RequestOf(k)
  IN  /\ holder[c].call = "schedule"
      /\ Releases(c)
      /\ \/ /\ Served(c, r.at)
            /\ records' = [records EXCEPT ![c] = Record(r, "scheduled")]
            /\ results' = [results EXCEPT ![k] = "scheduled"]
            /\ pending' = [pending EXCEPT ![k] = 0]
            /\ Incarnates(c, pending[k])
            /\ UNCHANGED <<cancelKey, sweepKey, failed, attempts, sequence>>
         \/ /\ Refused(c)
            /\ pending' = [pending EXCEPT ![k] = 0]
            /\ UNCHANGED <<records, results, cancelKey, sweepKey, failed, incarnation,
                           attempts, sequence>>
         \/ /\ Lost(c, r.at)
            /\ OutcomeUnknown(k)
            /\ UNCHANGED <<records, results, cancelKey, sweepKey, failed, incarnation,
                           attempts, sequence>>
      /\ UNCHANGED <<now, batch, sweep, ended, optedOut, canceled>>
-----------------------------------------------------------------------------
(***************************************************************************)
(* cancel()                                                                *)
(***************************************************************************)
Cancel(r) ==
  LET c == r.callback
  IN  /\ Serves(c) /\ results[r.key] = "none" /\ ClientKey(r.key) \notin failed
      /\ \/ /\ records[c].status = "cancellation-pending"
            /\ cancelKey[c] = ClientKey(r.key)
            /\ UNCHANGED service
         \/ /\ records[c].status \in {"scheduled", "cancellation-required"}
            /\ records' = Status(c, "cancellation-pending")
            /\ cancelKey' = [cancelKey EXCEPT ![c] = ClientKey(r.key)]
            /\ UNCHANGED <<results, pending, sweepKey, failed, incarnation, attempts, sequence>>
      /\ Calls(c, "cancel", ClientKey(r.key), r.key)
      /\ UNCHANGED <<now, batch, sweep, ended, optedOut, provider, rejected, canceled>>

\* The provider keeps the job: the callback is not dispatched, and only a new
\* key may try again.
Rejected(c) ==
  /\ records' = Status(c, "cancellation-required")
  /\ cancelKey' = [cancelKey EXCEPT ![c] = NoKey]
  /\ failed' = failed \cup {holder[c].key}
  /\ UNCHANGED <<results, pending, sweepKey, incarnation, attempts, sequence>>

CancelReturns(c) ==
  /\ holder[c].call = "cancel"
  /\ Releases(c)
  /\ \/ /\ Served(c, 0)
        /\ records' = Status(c, "canceled")
        /\ cancelKey' = [cancelKey EXCEPT ![c] = NoKey]
        /\ results' = [results EXCEPT ![holder[c].for] = "canceled"]
        /\ canceled' = canceled \cup {records[c].key}
        /\ UNCHANGED <<pending, sweepKey, failed, incarnation, attempts, sequence>>
     \/ /\ Refused(c)
        /\ Rejected(c)
        /\ UNCHANGED canceled
     \/ /\ Lost(c, 0)
        /\ UNCHANGED service /\ UNCHANGED canceled
  /\ UNCHANGED <<now, batch, sweep, ended, optedOut>>
-----------------------------------------------------------------------------
(***************************************************************************)
(* dispatch_due(): the due set is taken once, each member is looked at     *)
(* again under its lock.  A dial that raises ends the batch.               *)
(***************************************************************************)
Due(c) == records[c].status = "scheduled" /\ records[c].at =< now

Dispatch ==
  /\ batch = {} /\ \E c \in Callbacks : Due(c)
  /\ \A c \in Callbacks : holder[c] = Free \/ holder[c].call # "dial"
  /\ batch' = {c \in Callbacks : Due(c)}
  /\ UNCHANGED <<now, service, holder, sweep, ended, optedOut, provider, rejected, canceled>>

StillDueTrusting(c) == records[c].status # "none" \* mutant: the batch is taken for a claim
StillDue(c) == Due(c)

DispatchOne(c) ==
  /\ c \in batch /\ Idle(c)
  /\ \A d \in Callbacks : Idle(d) \/ holder[d].call # "dial"
  /\ \/ /\ ~StillDue(c)
        /\ batch' = batch \ {c}
        /\ UNCHANGED <<service, holder>>
     \/ /\ StillDue(c) /\ OwnerOf[c] \in optedOut
        /\ records' = Status(c, "blocked")
        /\ batch' = batch \ {c}
        /\ UNCHANGED <<results, pending, cancelKey, sweepKey, failed, incarnation, attempts,
                       sequence, holder>>
     \/ /\ StillDue(c) /\ OwnerOf[c] \notin optedOut
        /\ Calls(c, "dial", DialKey(records[c].key), records[c].key)
        /\ UNCHANGED <<service, batch>>
  /\ UNCHANGED <<now, sweep, ended, optedOut, provider, rejected, canceled>>

DialReturns(c) ==
  /\ holder[c].call = "dial"
  /\ Releases(c)
  /\ \/ /\ acted' = acted \cup {holder[c].key}
        /\ records' = Status(c, "dispatched")
        /\ batch' = batch \ {c}
        /\ UNCHANGED faults
     \/ /\ Faulty
        /\ acted' \in {acted, acted \cup {holder[c].key}}
        /\ batch' = {}
        /\ UNCHANGED records
  /\ UNCHANGED <<now, results, pending, cancelKey, sweepKey, failed, incarnation, attempts,
                 sequence, sweep, ended, optedOut, armed, rejected, canceled>>
-----------------------------------------------------------------------------
(***************************************************************************)
(* remove_by_prefix(): first the schedules of unknown outcome, then the    *)
(* records, as each set stands when its stage begins.  An error ends the   *)
(* sweep where it is; the session stays closing and may be swept again.    *)
(***************************************************************************)
NoSweep == [stage |-> "none"]
SweepCalls == {"unschedule", "remove", "forget"}
Sweepable(s) == \A c \in Of(s) : holder[c].call \notin SweepCalls
ReachedNot(s, x) == UNCHANGED sweep     \* mutant: an entry that is gone is waited for
Reached(s, x) == sweep' = [sweep EXCEPT ![s].left = @ \ {x}]
Aborts(s) == sweep' = [sweep EXCEPT ![s] = NoSweep]

BeginSweep(s) ==
  /\ ended[s] # "closed" /\ sweep[s] = NoSweep
  /\ ended' = [ended EXCEPT ![s] = "closing"]
  /\ sweep' = [sweep EXCEPT ![s] =
       [stage |-> "pending", left |-> UNION {PendingKeys(c) : c \in Of(s)}]]
  /\ UNCHANGED <<now, service, holder, batch, optedOut, provider, rejected, canceled>>

NextAttempt(c, i) == IF <<c, i>> \in DOMAIN attempts THEN attempts[<<c, i>>] + 1 ELSE 1

MintCleanupKey(c, i) ==
  attempts' = [a \in DOMAIN attempts \cup {<<c, i>>} |->
                 IF a = <<c, i>> THEN NextAttempt(c, i) ELSE attempts[a]]
ForgetAttempts(c, i) == attempts' = [a \in DOMAIN attempts \ {<<c, i>>} |-> attempts[a]]
NextCleanupKey(c, i) == CleanupKey(c, i, NextAttempt(c, i))

\* _remove_pending_schedule(): a key of unknown outcome is used again.
RemovePending(s, k) ==
  LET c == RequestOf(k).callback
  IN  /\ sweep[s].stage = "pending" /\ k \in sweep[s].left
      /\ Sweepable(s) /\ Idle(c)
      /\ \/ /\ pending[k] = 0
            /\ Reached(s, k)
            /\ UNCHANGED <<service, holder>>
         \/ /\ pending[k] # 0 /\ sweepKey[k] # NoKey
            /\ Calls(c, "unschedule", sweepKey[k], k)
            /\ UNCHANGED <<service, sweep>>
         \/ /\ pending[k] # 0 /\ sweepKey[k] = NoKey
            /\ MintCleanupKey(c, pending[k])
            /\ sweepKey' = [sweepKey EXCEPT ![k] = NextCleanupKey(c, pending[k])]
            /\ Calls(c, "unschedule", NextCleanupKey(c, pending[k]), k)
            /\ UNCHANGED <<records, results, pending, cancelKey, failed, incarnation, sequence,
                           sweep>>
      /\ UNCHANGED <<now, batch, ended, optedOut, provider, rejected, canceled>>

UnscheduleReturns(c) ==
  LET k == holder[c].for
      s == OwnerOf[c]
  IN  /\ holder[c].call = "unschedule"
      /\ Releases(c)
      /\ \/ /\ Served(c, 0)
            /\ pending' = [pending EXCEPT ![k] = 0]
            /\ sweepKey' = [sweepKey EXCEPT ![k] = NoKey]
            /\ ForgetAttempts(c, pending[k])
            /\ Reached(s, k)
            /\ UNCHANGED failed
         \/ /\ Refused(c)
            /\ sweepKey' = [sweepKey EXCEPT ![k] = NoKey]
            /\ failed' = failed \cup {holder[c].key}
            /\ Aborts(s)
            /\ UNCHANGED <<pending, attempts>>
         \/ /\ Lost(c, 0)
            /\ Aborts(s)
            /\ OutcomeUnknown(k)
            /\ UNCHANGED <<sweepKey, failed, attempts>>
      /\ UNCHANGED <<now, records, results, cancelKey, incarnation, sequence, batch, ended,
                     optedOut, canceled>>

SweepRecords(s) ==
  /\ sweep[s].stage = "pending" /\ sweep[s].left = {} /\ Sweepable(s)
  /\ sweep' = [sweep EXCEPT ![s] =
       [stage |-> "records", left |-> {c \in Of(s) : records[c] # NoRecord}]]
  /\ UNCHANGED <<now, service, holder, batch, ended, optedOut, provider, rejected, canceled>>

\* _remove_record() with nothing to ask of the scheduler, or after its answer.
Drop(c) ==
  /\ records' = [records EXCEPT ![c] = NoRecord]
  /\ cancelKey' = [cancelKey EXCEPT ![c] = NoKey]
  /\ results' = [k \in Keys \cup CancelKeys |->
                   IF CallbackFor(k) = c THEN "none" ELSE results[k]]
  /\ incarnation' = [incarnation EXCEPT ![c] = 0]
  /\ ForgetAttempts(c, incarnation[c])
  /\ UNCHANGED <<pending, sweepKey, failed, sequence>>

RemoveRecord(c) ==
  LET s == OwnerOf[c]
      status == records[c].status
      key == NextCleanupKey(c, incarnation[c])
  IN  /\ sweep[s].stage = "records" /\ c \in sweep[s].left
      /\ Sweepable(s) /\ Idle(c)
      /\ \/ /\ status \in {"scheduled", "cancellation-required"}
            /\ MintCleanupKey(c, incarnation[c])
            /\ cancelKey' = [cancelKey EXCEPT ![c] = key]
            /\ records' = Status(c, "cancellation-pending")
            /\ Calls(c, "remove", key, records[c].key)
            /\ UNCHANGED <<results, pending, sweepKey, failed, incarnation, sequence, sweep>>
         \/ /\ status = "cancellation-pending"
            /\ Calls(c, "remove", cancelKey[c], records[c].key)
            /\ UNCHANGED <<service, sweep>>
         \/ /\ status = "dispatched"
            /\ MintCleanupKey(c, incarnation[c])
            /\ Calls(c, "forget", key, records[c].key)
            /\ UNCHANGED <<records, results, pending, cancelKey, sweepKey, failed, incarnation,
                           sequence, sweep>>
         \/ /\ status \in {"blocked", "canceled"}
            /\ Drop(c)
            /\ Reached(s, c)
            /\ UNCHANGED holder
      /\ UNCHANGED <<now, batch, ended, optedOut, provider, rejected, canceled>>

RemoveReturns(c) ==
  LET s == OwnerOf[c]
  IN  /\ holder[c].call \in {"remove", "forget"}
      /\ Releases(c)
      /\ \/ /\ Served(c, 0)
            /\ Drop(c)
            /\ canceled' = IF holder[c].call = "remove" THEN canceled \cup {records[c].key}
                           ELSE canceled
            /\ Reached(s, c)
         \/ /\ Refused(c) /\ holder[c].call = "remove"
            /\ Rejected(c)
            /\ Aborts(s)
            /\ UNCHANGED canceled
         \/ /\ Lost(c, 0) \/ (Refused(c) /\ holder[c].call = "forget")
            /\ Aborts(s)
            /\ UNCHANGED service /\ UNCHANGED canceled
      /\ UNCHANGED <<now, batch, ended, optedOut>>

CallbackOf(key) == IF key[1] = "cleanup" THEN key[2] ELSE CallbackFor(key[2])

\* _release_failed_cancellations() and the providers' clear_operations().
EndSweep(s) ==
  /\ sweep[s].stage = "records" /\ sweep[s].left = {} /\ Sweepable(s)
  /\ Aborts(s)
  /\ ended' = [ended EXCEPT ![s] = "closed"]
  /\ failed' = {key \in failed : \/ CallbackOf(key) \notin Of(s)
                                 \/ records[CallbackOf(key)] # NoRecord
                                 \/ PendingKeys(CallbackOf(key)) # {}}
  /\ acted' = {key \in acted : CallbackOf(key) \notin Of(s)}
  /\ UNCHANGED <<now, records, results, pending, cancelKey, sweepKey, incarnation, attempts,
                 sequence, holder, batch, optedOut, armed, faults, rejected, canceled>>
-----------------------------------------------------------------------------
Tick ==
  /\ now < MaxTime
  /\ now' = now + 1
  /\ UNCHANGED <<service, holder, batch, sweep, ended, optedOut, provider, rejected, canceled>>

OptOut(s) ==
  /\ optedOut' = optedOut \cup {s}
  /\ UNCHANGED <<now, service, holder, batch, sweep, ended, provider, rejected, canceled>>

Returns(c) == ScheduleReturns(c) \/ CancelReturns(c) \/ DialReturns(c) \/ UnscheduleReturns(c)
              \/ RemoveReturns(c)
SweepStep(s) == \/ \E k \in Keys : RemovePending(s, k)
                \/ \E c \in Of(s) : RemoveRecord(c)
                \/ SweepRecords(s)
                \/ EndSweep(s)

Next ==
  \/ \E r \in Schedules : Schedule(r)
  \/ \E r \in Cancels : Cancel(r)
  \/ Dispatch
  \/ \E c \in Callbacks : DispatchOne(c) \/ Returns(c)
  \/ \E s \in Owners : BeginSweep(s) \/ SweepStep(s) \/ OptOut(s)
  \/ Tick

Spec == Init /\ [][Next]_vars

(***************************************************************************)
(* A provider call ends, if only by its timeout, and a task that may run   *)
(* is run.  Nobody need ask for anything, and no sweep need be begun.      *)
(***************************************************************************)
Fairness ==
  /\ \A c \in Callbacks : WF_vars(Returns(c)) /\ WF_vars(DispatchOne(c))
  /\ \A s \in Owners : WF_vars(SweepStep(s))
FairSpec == Spec /\ Fairness
-----------------------------------------------------------------------------
Jobs == {r.at : r \in Schedules} \cup {0}
SentKeys == ({"client"} \X (Keys \cup CancelKeys)) \cup ({"dispatch"} \X Keys)
            \cup ({"cleanup"} \X Callbacks \X Nat \X Nat)
Recorded == [status : Live \cup {"blocked", "canceled", "dispatched"}, key : Keys, at : Nat]
CallMade == [call : {"schedule", "cancel", "dial"} \cup SweepCalls, key : SentKeys,
             for : Keys \cup CancelKeys, was : {NoRecord} \cup Recorded]
Sweeps == {NoSweep} \cup [stage : {"pending"}, left : SUBSET Keys]
                    \cup [stage : {"records"}, left : SUBSET Callbacks]

(***************************************************************************)
(* Every variable keeps its type.                                          *)
(***************************************************************************)
TypeOK ==
  /\ now \in 0..MaxTime /\ faults \in 0..MaxFaults
  /\ records \in [Callbacks -> {NoRecord} \cup Recorded]
  /\ holder \in [Callbacks -> {Free} \cup CallMade]
  /\ cancelKey \in [Callbacks -> SentKeys \cup {NoKey}]
  /\ armed \in [Callbacks -> Jobs]
  /\ results \in [Keys \cup CancelKeys -> {"none", "blocked", "scheduled", "canceled"}]
  /\ sequence \in Nat
  /\ pending \in [Keys -> 0..sequence] /\ incarnation \in [Callbacks -> 0..sequence]
  /\ DOMAIN attempts \subseteq Callbacks \X (1..sequence)
  /\ \A a \in DOMAIN attempts : attempts[a] \in Nat \ {0}
  /\ sweepKey \in [Keys -> SentKeys \cup {NoKey}]
  /\ failed \subseteq SentKeys /\ acted \subseteq SentKeys /\ rejected \subseteq SentKeys
  /\ batch \subseteq Callbacks /\ canceled \subseteq Keys
  /\ sweep \in [Owners -> Sweeps]
  /\ ended \in [Owners -> {"open", "closing", "closed"}] /\ optedOut \subseteq Owners

(***************************************************************************)
(* A job the scheduler will still run belongs to a callback the service    *)
(* can cancel: whatever a provider lost or refused, and whatever overlaps, *)
(* no future job is orphaned.                                              *)
(***************************************************************************)
FutureJobsAreKnown == \A c \in Callbacks : armed[c] > now => c \in Active

(***************************************************************************)
(* One schedule at most is of unknown outcome for a callback, and none     *)
(* beside a live record: a callback never has two incarnations to cancel.  *)
(***************************************************************************)
OneIncarnation ==
  \A c \in Callbacks : /\ Cardinality(PendingKeys(c)) =< 1
                       /\ PendingKeys(c) # {} => records[c].status \notin Live

(***************************************************************************)
(* A cancellation key the scheduler refused for good is never sent again,  *)
(* by a client or by a sweep of any later attempt.                         *)
(***************************************************************************)
RefusedKeysStayUnused ==
  \A c \in Callbacks :
    holder[c].call \in {"cancel"} \cup SweepCalls => holder[c].key \notin rejected

(***************************************************************************)
(* Whatever is still to run can be cancelled: the service knows it, there  *)
(* is one incarnation of it, and the key that would cancel it is not spent.*)
(***************************************************************************)
JobsCancelable == FutureJobsAreKnown /\ OneIncarnation /\ RefusedKeysStayUnused

(***************************************************************************)
(* Nobody is dialled for a callback whose cancellation was acknowledged,   *)
(* nor for a session that is closed, however old the batch.                *)
(***************************************************************************)
DialsAreWanted ==
  [][\A k \in Keys : DialKey(k) \in acted' \ acted
       => k \notin canceled /\ ended[OwnerOf[RequestOf(k).callback]] # "closed"]_vars

(***************************************************************************)
(* A closed session has left nothing: no record, pending entry, refused    *)
(* key or tombstone in the service, no job in the scheduler yet to run.    *)
(***************************************************************************)
ClosedLeavesNothing ==
  \A s \in Owners : ended[s] = "closed" =>
    /\ \A c \in Of(s) : /\ records[c] = NoRecord /\ PendingKeys(c) = {} /\ armed[c] =< now
                        /\ cancelKey[c] = NoKey /\ incarnation[c] = 0
    /\ \A key \in failed : CallbackOf(key) \notin Of(s)
    /\ \A a \in DOMAIN attempts : OwnerOf[a[1]] # s

(***************************************************************************)
(* docs/PROVIDER_CONTRACTS.md:247: cleanup removes "local state only after *)
(* provider acknowledgement"; docs/SIMULATOR.md: scheduled callbacks "are  *)
(* canceled before removal".                                               *)
(***************************************************************************)
CanceledBeforeRemoval ==
  \A c \in Callbacks : ended[OwnerOf[c]] = "closed" => armed[c] =< now

(***************************************************************************)
(* A sweep that began ends, closed or with an error, though it waits for   *)
(* one lock after another while clients and a dispatch batch take them.    *)
(***************************************************************************)
SweepsEnd == \A s \in Owners : sweep[s] # NoSweep ~> sweep[s] = NoSweep
=============================================================================
