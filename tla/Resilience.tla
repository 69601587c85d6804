----------------------------- MODULE Resilience -----------------------------
(***************************************************************************)
(* adapters/resilience.py: calls to a provider through a circuit breaker,  *)
(* each a bounded retry with a timeout per attempt, the order that         *)
(* docs/PROVIDER_CONTRACTS.md recommends.  Tasks of one event loop share   *)
(* the breaker; a step lasts to the next await, so a call admitted in one  *)
(* state of the breaker may end in any other.                              *)
(*                                                                         *)
(* Two abstractions, both exact: "age" is now - opened_at as far as        *)
(* recovery_timeout, and "failures" is _failure_count as far as            *)
(* failure_threshold, for nothing compares them beyond.  The delays of the *)
(* backoff are left out, and a clock that steps back.                      *)
(***************************************************************************)
EXTENDS Naturals

CONSTANTS Calls,             \* tasks that may call the provider, again and again
          FailureThreshold,
          RecoveryTimeout,
          MaxAttempts

ASSUME FailureThresholdAssumption == FailureThreshold \in Nat \ {0}
ASSUME RecoveryTimeoutAssumption == RecoveryTimeout \in Nat \ {0}
ASSUME MaxAttemptsAssumption == MaxAttempts \in Nat \ {0}

VARIABLES stored,    \* _state
          failures,
          age,
          slot,      \* _half_open_probe_in_flight: "taken" or "free"
          call,      \* where each call is
          attempt,   \* the attempt each call makes
          admitted   \* history: as what before_call() let each call in

breaker == <<stored, failures, age, slot>>
breakerVars == <<stored, failures, age, slot, call, attempt, admitted>>

States == {"closed", "open", "half-open"}

BreakerTypeOK ==
  /\ stored \in States
  /\ failures \in 0..FailureThreshold
  /\ age \in 0..RecoveryTimeout
  /\ slot \in {"free", "taken"}
  /\ call \in [Calls -> {"idle", "trying", "sleeping"}]
  /\ attempt \in [Calls -> 1..MaxAttempts]
  /\ admitted \in [Calls -> {"nothing", "regular", "probe"}]

BreakerInit ==
  /\ stored = "closed" /\ failures = 0 /\ age = 0 /\ slot = "free"
  /\ call = [c \in Calls |-> "idle"]
  /\ attempt = [c \in Calls |-> 1]
  /\ admitted = [c \in Calls |-> "nothing"]

\* What the property "state" answers.
State == IF stored = "open" /\ age = RecoveryTimeout THEN "half-open" ELSE stored

\* The clock moves on, and "age" with it while that says something.
Tick ==
  /\ age' = IF stored = "open" /\ age < RecoveryTimeout THEN age + 1 ELSE age
  /\ UNCHANGED <<stored, failures, slot, call, attempt, admitted>>
-----------------------------------------------------------------------------
(* CircuitBreaker *)

\* before_call(), when it does not raise CircuitOpenError.
Admit ==
  /\ State # "open"
  /\ State = "half-open" => slot = "free"
  /\ stored' = State
  /\ slot' = IF State = "half-open" THEN "taken" ELSE slot
  /\ UNCHANGED <<failures, age>>

RecordSuccess == stored' = "closed" /\ failures' = 0 /\ age' = 0 /\ slot' = "free"

CountUp == IF failures < FailureThreshold THEN failures + 1 ELSE failures

\* mutant: the slot outlives a failed probe
RecordFailureTaken ==
  /\ failures' = CountUp
  /\ IF stored = "half-open" \/ CountUp = FailureThreshold
     THEN stored' = "open" /\ age' = 0
     ELSE UNCHANGED <<stored, age>>
  /\ UNCHANGED slot

RecordFailure ==
  /\ failures' = CountUp
  /\ slot' = "free"
  /\ IF stored = "half-open" \/ CountUp = FailureThreshold
     THEN stored' = "open" /\ age' = 0
     ELSE UNCHANGED <<stored, age>>

\* mutants: an abort opens any circuit; an abort lets nothing go
RecordAbortedAny == stored' = "open" /\ age' = 0 /\ slot' = "free" /\ UNCHANGED failures
RecordAbortedNothing == UNCHANGED breaker

RecordAbortedProbe ==
  \/ /\ slot = "taken"
     /\ stored' = "open" /\ age' = 0 /\ slot' = "free"
     /\ UNCHANGED failures
  \/ slot = "free" /\ UNCHANGED breaker
-----------------------------------------------------------------------------
(* execute_with_circuit_breaker() around execute_with_retry() *)

\* A call that is refused leaves everything as it was, and is no step here.
Enter(c) ==
  /\ call[c] = "idle"
  /\ Admit
  /\ call' = [call EXCEPT ![c] = "trying"]
  /\ attempt' = [attempt EXCEPT ![c] = 1]
  /\ admitted' = [admitted EXCEPT ![c] = IF State = "half-open" THEN "probe" ELSE "regular"]

\* The caller has its result or its exception.
Leave(c) ==
  /\ call' = [call EXCEPT ![c] = "idle"]
  /\ admitted' = [admitted EXCEPT ![c] = "nothing"]
  /\ UNCHANGED attempt

Succeed(c) == call[c] = "trying" /\ RecordSuccess /\ Leave(c)

\* A TransientAdapterError or a timeout, and attempts left: back off.
BackOff(c) ==
  /\ call[c] = "trying" /\ attempt[c] < MaxAttempts
  /\ call' = [call EXCEPT ![c] = "sleeping"]
  /\ UNCHANGED <<breaker, attempt, admitted>>

TryAgain(c) ==
  /\ call[c] = "sleeping"
  /\ call' = [call EXCEPT ![c] = "trying"]
  /\ attempt' = [attempt EXCEPT ![c] = @ + 1]
  /\ UNCHANGED <<breaker, admitted>>

\* The last attempt fails so: last_error is raised to the breaker.
GiveUp(c) ==
  /\ call[c] = "trying" /\ attempt[c] = MaxAttempts
  /\ RecordFailure
  /\ Leave(c)

\* Anything else ends the call where it is: a PermanentAdapterError from the
\* operation, or the cancellation of the task, asleep or not.
Abort(c) == call[c] # "idle" /\ RecordAbortedProbe /\ Leave(c)

CallStep(c) == Succeed(c) \/ BackOff(c) \/ TryAgain(c) \/ GiveUp(c) \/ Abort(c)

BreakerNext == Tick \/ \E c \in Calls : Enter(c) \/ CallStep(c)

BreakerSpec == BreakerInit /\ [][BreakerNext]_breakerVars

\* The clock moves; an attempt ends by its timeout and a sleep by its delay.
FairBreakerSpec == BreakerSpec /\ WF_breakerVars(Tick) /\ \A c \in Calls : WF_breakerVars(CallStep(c))
-----------------------------------------------------------------------------
Probes == {c \in Calls : admitted[c] = "probe"}

\* The probe slot is taken exactly while the breaker is half open, and then
\* a probe is in flight to give it back: none of record_success(),
\* record_failure(), record_aborted_probe() leaves it taken by nobody, in
\* whatever order probes and calls admitted before the trouble come back.
SlotHeld ==
  /\ slot = "taken" <=> stored = "half-open"
  /\ slot = "taken" => Probes # {}

\* The breaker is closed exactly while fewer than failure_threshold failures
\* have come back since the last success: the count and the state never
\* part, though record_failure() may run when the breaker is open already.
CountMatchesState == stored = "closed" <=> failures < FailureThreshold

\* Only a transient failure, the last of failure_threshold, opens a closed
\* circuit; cancellations and permanent errors never do.
OnlyFailuresOpen ==
  [][stored = "closed" /\ stored' = "open" => failures' > failures]_breakerVars

\* The breaker lets a call in again and again, whatever the calls end with:
\* no order of late results, aborts and probes shuts the provider off for ever.
Admits == State = "closed" \/ (State = "half-open" /\ slot = "free")
AlwaysRecovers == []<>Admits
=============================================================================
