--------------------------- MODULE CallbacksProofs ---------------------------
(***************************************************************************)
(* Proofs about Callbacks, for any callbacks, sessions, requests, cancel-  *)
(* lations and provider failures.  The service keeps its answers, its      *)
(* unknown outcomes, its cancellation keys and its cleanup attempts in     *)
(* separate dictionaries; the inductive invariant says how they agree, one *)
(* callback at a time (Local), and what a call in flight may rely on when  *)
(* it comes back (HolderRight).                                            *)
(***************************************************************************)
EXTENDS Callbacks, FiniteSetTheorems, TLAPS

-----------------------------------------------------------------------------
Asked == Live \cup {"canceled", "dispatched"}
KeysOf(c) == {k \in Keys : RequestOf(k).callback = c}
RefusedOf(c) == {key \in rejected : CallbackOf(key) = c}
FailedOf(c) == {key \in failed : CallbackOf(key) = c}
CanceledOf(c) == {k \in canceled : RequestOf(k).callback = c}

\* The attempts that a cleanup key of an incarnation has been minted for.
Spent(c, i) == IF <<c, i>> \in DOMAIN attempts THEN attempts[<<c, i>>] ELSE 0

\* The incarnations of a callback that may still have to be canceled.
Alive(c, i) == i = incarnation[c] \/ \E k \in KeysOf(c) : pending[k] = i

\* A record has its request, and what was scheduled has its incarnation and its
\* answer.
RecordRight(c) ==
  /\ records[c] # NoRecord => /\ records[c].key \in KeysOf(c)
                              /\ records[c].at = RequestOf(records[c].key).at
  /\ records[c] = NoRecord => cancelKey[c] = NoKey /\ incarnation[c] = 0
  /\ records[c].status \in Asked => /\ incarnation[c] # 0
                                    /\ results[records[c].key] = "scheduled"

\* One schedule of unknown outcome, new, unanswered, and beside no live record.
PendingRight(c) ==
  \A k \in KeysOf(c) : pending[k] # 0 =>
    /\ results[k] = "none" /\ pending[k] # incarnation[c]
    /\ records[c].status \notin Live
    /\ \A q \in KeysOf(c) : pending[q] # 0 => q = k

\* The keys under which a cancellation is under way: the client's, or minted for
\* the incarnation it cancels.
CancelKeyRight(c) ==
  /\ \/ cancelKey[c] = NoKey
     \/ \E x \in CancelKeys : cancelKey[c] = ClientKey(x) /\ CallbackFor(x) = c
     \/ \E n \in 1..Spent(c, incarnation[c]) : cancelKey[c] = CleanupKey(c, incarnation[c], n)
  /\ records[c].status = "cancellation-pending" =>
       cancelKey[c] # NoKey /\ cancelKey[c] \notin RefusedOf(c)

SweepKeyRight(c) ==
  \A k \in KeysOf(c) : sweepKey[k] # NoKey =>
    /\ pending[k] # 0
    /\ \E n \in 1..Spent(c, pending[k]) : sweepKey[k] = CleanupKey(c, pending[k], n)
    /\ sweepKey[k] \notin RefusedOf(c)

\* A refused key is behind: the client's is remembered while the session is open,
\* a minted one has an attempt that is over.
RefusedRight(c) ==
  \A key \in RefusedOf(c) :
    /\ key[1] = "cleanup" => /\ key[3] \in 1..sequence
                             /\ Alive(c, key[3]) => key[4] =< Spent(c, key[3])
    /\ key[1] = "client" /\ key[2] \in CancelKeys =>
         ended[OwnerOf[c]] # "open" \/ key \in FailedOf(c)

\* Keys are minted by sweeps only, for incarnations that are alive.
SpentRight(c) ==
  \A i \in 1..sequence : Spent(c, i) > 0 =>
    Alive(c, i) /\ ended[OwnerOf[c]] # "open" /\ holder[c].call # "schedule"

\* An acknowledged cancellation is final.
CanceledRight(c) ==
  \A k \in CanceledOf(c) :
    /\ pending[k] = 0
    /\ ended[OwnerOf[c]] # "open" \/ results[k] # "none"
    /\ records[c].status \in Live => records[c].key # k

\* What a call in flight left behind is still as it was.
HolderRight(c) ==
  LET h == holder[c]  s == OwnerOf[c]
  IN  /\ h # Free => CallbackOf(h.key) = c
      /\ h.call = "schedule" =>
           /\ h.for \in KeysOf(c) /\ pending[h.for] # 0 /\ h.key = ClientKey(h.for)
      /\ h.call \in {"cancel", "remove"} =>
           records[c].status = "cancellation-pending" /\ cancelKey[c] = h.key
      /\ h.call = "cancel" => h.for \in CancelKeys
      /\ h.call = "dial" =>
           records[c].status = "scheduled" /\ h.key = DialKey(records[c].key)
      /\ h.call = "unschedule" =>
           /\ h.for \in KeysOf(c) /\ pending[h.for] # 0 /\ sweepKey[h.for] = h.key
           /\ sweep[s].stage = "pending" /\ h.for \in sweep[s].left
      /\ h.call \in {"remove", "forget"} => sweep[s].stage = "records" /\ c \in sweep[s].left
      /\ h.call = "forget" =>
           /\ records[c].status = "dispatched"
           /\ h.key = CleanupKey(c, incarnation[c], Spent(c, incarnation[c]))
           /\ h.key \notin RefusedOf(c)

\* A sweep has what it has not reached, and a closed session has nothing.
SweepRight(c) ==
  LET s == OwnerOf[c]
  IN  /\ sweep[s].stage # "none" => ended[s] = "closing"
      /\ sweep[s].stage = "pending" =>
           \A k \in KeysOf(c) : pending[k] # 0 => k \in sweep[s].left
      /\ sweep[s].stage = "records" =>
           /\ \A k \in KeysOf(c) : pending[k] = 0
           /\ records[c] # NoRecord => c \in sweep[s].left
      /\ ended[s] = "closed" =>
           /\ records[c] = NoRecord /\ holder[c] = Free /\ FailedOf(c) = {}
           /\ \A k \in KeysOf(c) : pending[k] = 0

Local(c) ==
  /\ RecordRight(c) /\ PendingRight(c) /\ CancelKeyRight(c) /\ SweepKeyRight(c)
  /\ RefusedRight(c) /\ SpentRight(c) /\ CanceledRight(c) /\ HolderRight(c) /\ SweepRight(c)

\* Sweeps look after their own, one call at a time.
SweepsOwn ==
  \A s \in Owners :
    /\ sweep[s].stage = "pending" => \A k \in sweep[s].left : OwnerOf[RequestOf(k).callback] = s
    /\ sweep[s].stage = "records" => sweep[s].left \subseteq Of(s)

OneSweepCall ==
  \A c, d \in Callbacks :
    OwnerOf[c] = OwnerOf[d] /\ {holder[c].call, holder[d].call} \subseteq SweepCalls => c = d

IInv == TypeOK /\ (\A c \in Callbacks : Local(c)) /\ SweepsOwn /\ OneSweepCall

-----------------------------------------------------------------------------
(* Requests and keys. *)

LEMMA RequestFacts ==
  /\ \A r \in Schedules : r.key \in Keys /\ RequestOf(r.key) = r /\ CallbackFor(r.key) = r.callback
  /\ \A r \in Cancels : r.key \in CancelKeys /\ CallbackFor(r.key) = r.callback
  /\ \A k \in Keys : /\ RequestOf(k) \in Schedules /\ RequestOf(k).key = k
                     /\ RequestOf(k).callback \in Callbacks /\ RequestOf(k).at \in Nat
                     /\ CallbackFor(k) = RequestOf(k).callback /\ k \in KeysOf(RequestOf(k).callback)
  /\ \A k \in Keys \cup CancelKeys : CallbackFor(k) \in Callbacks
<1>1. ASSUME NEW k \in Keys \cup CancelKeys
      PROVE  /\ (CHOOSE r \in Schedules \cup Cancels : r.key = k) \in Schedules \cup Cancels
             /\ (CHOOSE r \in Schedules \cup Cancels : r.key = k).key = k
  BY DEF Keys, CancelKeys
<1>2. ASSUME NEW k \in Keys PROVE RequestOf(k) \in Schedules /\ RequestOf(k).key = k
  BY DEF Keys, RequestOf
<1>3. \A r \in Schedules : r.key \in Keys /\ r.key \in Keys \cup CancelKeys
  BY DEF Keys
<1>4. \A r \in Cancels : r.key \in CancelKeys /\ r.key \in Keys \cup CancelKeys
  BY DEF CancelKeys
<1>5. \A r, q \in Schedules \cup Cancels : r.key = q.key => r = q
  BY RequestsAssumption
<1>6. \A r \in Schedules \cup Cancels : r.callback \in Callbacks
  BY RequestsAssumption
<1>7. \A r \in Schedules \cup Cancels : CallbackFor(r.key) = r.callback
  <2>1. ASSUME NEW r \in Schedules \cup Cancels PROVE CallbackFor(r.key) = r.callback
    <3>1. r.key \in Keys \cup CancelKeys
      BY <1>3, <1>4
    <3>2. (CHOOSE q \in Schedules \cup Cancels : q.key = r.key) = r
      BY <1>1, <1>5, <3>1
    <3> QED
      BY <3>2, Zenon DEF CallbackFor
  <2> QED
    BY <2>1
<1>8. \A r \in Schedules : RequestOf(r.key) = r
  BY <1>2, <1>3, <1>5
<1>9. \A k \in Keys : /\ RequestOf(k).callback \in Callbacks /\ RequestOf(k).at \in Nat
                      /\ CallbackFor(k) = RequestOf(k).callback
                      /\ k \in KeysOf(RequestOf(k).callback)
  BY <1>2, <1>6, <1>7, RequestsAssumption DEF KeysOf
<1>10. \A k \in Keys \cup CancelKeys : CallbackFor(k) \in Callbacks
  BY <1>1, <1>6 DEF CallbackFor
<1> QED
  BY <1>2, <1>3, <1>4, <1>7, <1>8, <1>9, <1>10

\* The keys of the three kinds differ, and each is of one callback.
LEMMA KeyKinds ==
  /\ \A k : /\ ClientKey(k)[1] = "client" /\ ClientKey(k)[2] = k
            /\ CallbackOf(ClientKey(k)) = CallbackFor(k) /\ ClientKey(k) # NoKey
            /\ DialKey(k)[1] = "dispatch" /\ DialKey(k)[2] = k
            /\ CallbackOf(DialKey(k)) = CallbackFor(k)
  /\ \A c, i, n : /\ CleanupKey(c, i, n)[1] = "cleanup" /\ CleanupKey(c, i, n)[3] = i
                  /\ CleanupKey(c, i, n)[4] = n /\ CallbackOf(CleanupKey(c, i, n)) = c
                  /\ CleanupKey(c, i, n) # NoKey
  /\ \A k \in Keys \cup CancelKeys : ClientKey(k) \in SentKeys
  /\ \A k \in Keys : DialKey(k) \in SentKeys
  /\ \A c \in Callbacks : \A i, n \in Nat : CleanupKey(c, i, n) \in SentKeys
<1>1. \A k : /\ ClientKey(k)[1] = "client" /\ ClientKey(k)[2] = k
             /\ CallbackOf(ClientKey(k)) = CallbackFor(k) /\ ClientKey(k) # NoKey
  BY DEF ClientKey, CallbackOf, NoKey
<1>2. \A k : /\ DialKey(k)[1] = "dispatch" /\ DialKey(k)[2] = k
             /\ CallbackOf(DialKey(k)) = CallbackFor(k)
  BY DEF DialKey, CallbackOf
<1>3. \A c, i, n : /\ CleanupKey(c, i, n)[1] = "cleanup" /\ CleanupKey(c, i, n)[3] = i
                  /\ CleanupKey(c, i, n)[4] = n /\ CallbackOf(CleanupKey(c, i, n)) = c
                  /\ CleanupKey(c, i, n) # NoKey
  BY DEF CleanupKey, CallbackOf, NoKey
<1>4. /\ \A k \in Keys \cup CancelKeys : ClientKey(k) \in SentKeys
      /\ \A k \in Keys : DialKey(k) \in SentKeys
  BY DEF ClientKey, DialKey, SentKeys
<1>5. \A c \in Callbacks : \A i, n \in Nat : CleanupKey(c, i, n) \in SentKeys
  BY DEF CleanupKey, SentKeys
<1> QED
  BY <1>1, <1>2, <1>3, <1>4, <1>5

LEMMA SpentFacts ==
  ASSUME TypeOK, NEW c \in Callbacks, NEW i \in Nat
  PROVE  /\ Spent(c, i) \in Nat /\ NextAttempt(c, i) = Spent(c, i) + 1
         /\ Spent(c, i) > 0 => i \in 1..sequence
         /\ <<c, i>> \in DOMAIN attempts <=> Spent(c, i) > 0
<1>1. CASE <<c, i>> \in DOMAIN attempts
  <2>1. attempts[<<c, i>>] \in Nat \ {0} /\ i \in 1..sequence
    BY <1>1 DEF TypeOK
  <2> QED
    BY <1>1, <2>1 DEF Spent, NextAttempt
<1>2. CASE <<c, i>> \notin DOMAIN attempts
  BY <1>2 DEF Spent, NextAttempt
<1> QED
  BY <1>1, <1>2

LEMMA MintSpent ==
  ASSUME TypeOK, NEW c \in Callbacks, NEW i \in 1..sequence, MintCleanupKey(c, i)
  PROVE  /\ DOMAIN attempts' \subseteq Callbacks \X (1..sequence)
         /\ \A a \in DOMAIN attempts' : attempts'[a] \in Nat \ {0}
         /\ \A d \in Callbacks, j \in Nat :
              Spent(d, j)' = IF d = c /\ j = i THEN Spent(c, i) + 1 ELSE Spent(d, j)
<1>1. /\ DOMAIN attempts' = DOMAIN attempts \cup {<<c, i>>}
      /\ \A a \in DOMAIN attempts' :
           attempts'[a] = IF a = <<c, i>> THEN NextAttempt(c, i) ELSE attempts[a]
  BY DEF MintCleanupKey
<1>2. Spent(c, i) \in Nat /\ NextAttempt(c, i) = Spent(c, i) + 1 /\ i \in Nat
  <2>1. sequence \in Nat /\ i \in Nat
    BY DEF TypeOK
  <2> QED
    BY <2>1, SpentFacts
<1>3. /\ DOMAIN attempts \subseteq Callbacks \X (1..sequence)
      /\ \A a \in DOMAIN attempts : attempts[a] \in Nat \ {0}
  BY DEF TypeOK
<1>4. ASSUME NEW d \in Callbacks, NEW j \in Nat
      PROVE  Spent(d, j)' = IF d = c /\ j = i THEN Spent(c, i) + 1 ELSE Spent(d, j)
  <2>1. (<<d, j>> = <<c, i>>) <=> (d = c /\ j = i)
    OBVIOUS
  <2>2. CASE d = c /\ j = i
    BY <1>1, <1>2, <2>2 DEF Spent
  <2>3. CASE ~(d = c /\ j = i)
    BY <1>1, <2>1, <2>3 DEF Spent
  <2> QED
    BY <2>2, <2>3
<1> QED
  BY <1>1, <1>2, <1>3, <1>4

LEMMA ForgetSpent ==
  ASSUME TypeOK, NEW c \in Callbacks, NEW i \in Nat, ForgetAttempts(c, i)
  PROVE  /\ DOMAIN attempts' \subseteq Callbacks \X (1..sequence)
         /\ \A a \in DOMAIN attempts' : attempts'[a] \in Nat \ {0}
         /\ \A d \in Callbacks, j \in Nat :
              Spent(d, j)' = IF d = c /\ j = i THEN 0 ELSE Spent(d, j)
<1>1. /\ DOMAIN attempts' = DOMAIN attempts \ {<<c, i>>}
      /\ \A a \in DOMAIN attempts' : attempts'[a] = attempts[a]
  BY DEF ForgetAttempts
<1>2. /\ DOMAIN attempts \subseteq Callbacks \X (1..sequence)
      /\ \A a \in DOMAIN attempts : attempts[a] \in Nat \ {0}
  BY DEF TypeOK
<1>3. ASSUME NEW d \in Callbacks, NEW j \in Nat
      PROVE  Spent(d, j)' = IF d = c /\ j = i THEN 0 ELSE Spent(d, j)
  <2>1. (<<d, j>> = <<c, i>>) <=> (d = c /\ j = i)
    OBVIOUS
  <2> QED
    BY <1>1, <2>1 DEF Spent
<1> QED
  BY <1>1, <1>2, <1>3

-----------------------------------------------------------------------------
(* A step of one callback leaves the others alone. *)

SweepKept(c) ==
  \A s \in Owners :
    \/ sweep'[s] = sweep[s]
    \/ /\ \A d \in Of(s) : d # c => holder[d].call \notin SweepCalls
       /\ \/ sweep'[s].stage = "none"
          \/ /\ sweep'[s].stage = sweep[s].stage
             /\ sweep[s].stage = "pending" =>
                  \A k \in sweep[s].left : k \notin KeysOf(c) => k \in sweep'[s].left
             /\ sweep[s].stage = "records" =>
                  \A d \in sweep[s].left : d # c => d \in sweep'[s].left

Frame(c) ==
  /\ \A d \in Callbacks \ {c} :
       /\ records'[d] = records[d] /\ holder'[d] = holder[d]
       /\ cancelKey'[d] = cancelKey[d] /\ incarnation'[d] = incarnation[d]
       /\ \A i \in Nat : Spent(d, i)' = Spent(d, i)
       /\ \A k \in KeysOf(d) :
            /\ pending'[k] = pending[k] /\ sweepKey'[k] = sweepKey[k] /\ results'[k] = results[k]
       /\ RefusedOf(d)' = RefusedOf(d) /\ FailedOf(d)' = FailedOf(d)
       /\ CanceledOf(d)' = CanceledOf(d)
  /\ sequence' >= sequence /\ ended' = ended /\ SweepKept(c)

LEMMA OthersKept ==
  ASSUME IInv, NEW c \in Callbacks, Frame(c), sequence' \in Nat, NEW d \in Callbacks, d # c
  PROVE  Local(d)'
<1>1. /\ records'[d] = records[d] /\ holder'[d] = holder[d]
      /\ cancelKey'[d] = cancelKey[d] /\ incarnation'[d] = incarnation[d]
      /\ \A i \in Nat : Spent(d, i)' = Spent(d, i)
      /\ \A k \in KeysOf(d) :
            /\ pending'[k] = pending[k] /\ sweepKey'[k] = sweepKey[k] /\ results'[k] = results[k]
      /\ RefusedOf(d)' = RefusedOf(d) /\ FailedOf(d)' = FailedOf(d)
      /\ CanceledOf(d)' = CanceledOf(d) /\ ended' = ended
  BY DEF Frame
<1>2. KeysOf(d)' = KeysOf(d) /\ KeysOf(d) \subseteq Keys
  BY DEF KeysOf
<1>3. /\ incarnation[d] \in 0..sequence /\ \A k \in KeysOf(d) : pending[k] \in 0..sequence
      /\ sequence \in Nat /\ sequence' >= sequence
      /\ \A i \in 1..sequence : i \in 1..sequence' /\ i \in Nat
      /\ \A i \in Nat : Spent(d, i) \in Nat /\ (Spent(d, i) > 0 => i \in 1..sequence)
  <2>1. sequence \in Nat /\ sequence' >= sequence /\ incarnation[d] \in 0..sequence
    BY DEF IInv, TypeOK, Frame
  <2>2. \A k \in KeysOf(d) : pending[k] \in 0..sequence
    BY <1>2 DEF IInv, TypeOK
  <2>3. \A i \in Nat : Spent(d, i) \in Nat /\ (Spent(d, i) > 0 => i \in 1..sequence)
    BY SpentFacts DEF IInv
  <2> QED
    BY <2>1, <2>2, <2>3
<1>4. Local(d) /\ \A k \in KeysOf(d) : k \notin KeysOf(c)
  BY DEF IInv, KeysOf
<1>5. RecordRight(d)' /\ PendingRight(d)'
  BY <1>1, <1>2, <1>4 DEF Local, RecordRight, PendingRight
<1>6. CancelKeyRight(d)'
  BY <1>1, <1>2, <1>3, <1>4 DEF Local, CancelKeyRight
<1>7. SweepKeyRight(d)'
  BY <1>1, <1>2, <1>3, <1>4 DEF Local, SweepKeyRight
<1>8. RefusedRight(d)'
  BY <1>1, <1>2, <1>3, <1>4 DEF Local, RefusedRight, Alive
<1>9. SpentRight(d)'
  BY <1>1, <1>2, <1>3, <1>4 DEF Local, SpentRight, Alive
<1>10. CanceledRight(d)'
  <2>1. CanceledOf(d) \subseteq KeysOf(d)
    BY DEF CanceledOf, KeysOf, IInv, TypeOK
  <2> QED
    BY <1>1, <1>4, <2>1 DEF Local, CanceledRight
<1> DEFINE s == OwnerOf[d]
<1>11. s \in Owners /\ d \in Of(s)
  BY OwnersAssumption DEF Of
<1>12. \/ sweep'[s] = sweep[s]
       \/ /\ holder[d].call \notin SweepCalls
          /\ \/ sweep'[s].stage = "none"
             \/ /\ sweep'[s].stage = sweep[s].stage
                /\ sweep[s].stage = "pending" =>
                     \A k \in sweep[s].left : k \notin KeysOf(c) => k \in sweep'[s].left
                /\ sweep[s].stage = "records" =>
                     \A e \in sweep[s].left : e # c => e \in sweep'[s].left
  BY <1>11 DEF Frame, SweepKept
<1>13. HolderRight(d)'
  <2>1. HolderRight(d)
    BY <1>4 DEF Local
  <2>2. incarnation[d] \in Nat
    BY <1>3
  <2> QED
    BY <1>1, <1>2, <1>12, <2>1, <2>2 DEF HolderRight, SweepCalls
<1>14. SweepRight(d)'
  <2>1. SweepRight(d)
    BY <1>4 DEF Local
  <2> QED
    BY <1>1, <1>2, <1>4, <1>12, <2>1 DEF SweepRight
<1> QED
  BY <1>5, <1>6, <1>7, <1>8, <1>9, <1>10, <1>13, <1>14 DEF Local

\* So a step is right when it is right for its own callback.
LEMMA StepRight ==
  ASSUME IInv, TypeOK', NEW c \in Callbacks, Frame(c), Local(c)', SweepsOwn', OneSweepCall'
  PROVE  IInv'
<1>1. \A d \in Callbacks : Local(d)'
  BY OthersKept DEF TypeOK
<1> QED
  BY <1>1 DEF IInv

-----------------------------------------------------------------------------
(* Calls, records and sweeps, as the actions write them. *)

CallKinds == {"schedule", "cancel", "dial"} \cup SweepCalls

LEMMA CallTyped ==
  ASSUME TypeOK, NEW c \in Callbacks, NEW call \in CallKinds, NEW key \in SentKeys,
         NEW k \in Keys \cup CancelKeys, Calls(c, call, key, k)
  PROVE  /\ holder' \in [Callbacks -> {Free} \cup CallMade]
         /\ holder'[c] # Free /\ holder'[c].call = call /\ holder'[c].key = key
         /\ holder'[c].for = k
         /\ \A d \in Callbacks \ {c} : holder'[d] = holder[d]
<1>1. PICK h : h = [call |-> call, key |-> key, for |-> k, was |-> records[c]]
  OBVIOUS
<1>2. records[c] \in {NoRecord} \cup Recorded
  BY DEF TypeOK
<1>3. h \in CallMade /\ h.call = call /\ h.key = key /\ h.for = k
  BY <1>1, <1>2 DEF CallMade, CallKinds
<1>4. h # Free
  BY <1>3 DEF Free, CallKinds, SweepCalls
<1>5. holder' = [holder EXCEPT ![c] = h] /\ holder \in [Callbacks -> {Free} \cup CallMade]
  BY <1>1 DEF Calls, TypeOK
<1> QED
  BY <1>3, <1>4, <1>5

LEMMA ReleaseTyped ==
  ASSUME TypeOK, NEW c \in Callbacks, Releases(c)
  PROVE  /\ holder' \in [Callbacks -> {Free} \cup CallMade]
         /\ holder'[c] = Free /\ holder'[c].call = "none"
         /\ \A d \in Callbacks \ {c} : holder'[d] = holder[d]
<1>1. Free.call = "none"
  BY DEF Free
<1> QED
  BY <1>1 DEF Releases, TypeOK

\* A call in flight, its fields.
LEMMA HeldTyped ==
  ASSUME TypeOK, NEW c \in Callbacks, holder[c] # Free
  PROVE  /\ holder[c].call \in CallKinds /\ holder[c].key \in SentKeys
         /\ holder[c].for \in Keys \cup CancelKeys
<1>1. holder[c] \in CallMade
  BY DEF TypeOK
<1> QED
  BY <1>1 DEF CallMade, CallKinds

LEMMA HeldIfCalling ==
  ASSUME TypeOK, NEW c \in Callbacks, holder[c].call \in CallKinds
  PROVE  holder[c] # Free
BY DEF Free, CallKinds, SweepCalls

LEMMA IdleTyped ==
  ASSUME TypeOK, NEW c \in Callbacks, Idle(c)
  PROVE  holder[c] = Free /\ holder[c].call = "none"
BY DEF Free, Idle

RecordKinds == Live \cup {"blocked", "canceled", "dispatched"}

LEMMA HasRecord ==
  ASSUME TypeOK, NEW c \in Callbacks
  PROVE  /\ records[c].status \in RecordKinds \cup {"none"}
         /\ records[c].status = "none" <=> records[c] = NoRecord
         /\ records[c] # NoRecord => records[c].key \in Keys /\ records[c].at \in Nat
<1>1. records[c] = NoRecord \/ records[c] \in Recorded
  BY DEF TypeOK
<1>2. NoRecord.status = "none"
  BY DEF NoRecord
<1>3. \A r \in Recorded : r.status \in RecordKinds /\ r.key \in Keys /\ r.at \in Nat
  BY DEF Recorded, RecordKinds
<1>4. "none" \notin RecordKinds
  BY DEF RecordKinds, Live
<1> QED
  BY <1>1, <1>2, <1>3, <1>4

LEMMA StatusTyped ==
  ASSUME TypeOK, NEW c \in Callbacks, records[c] # NoRecord, NEW status \in RecordKinds,
         records' = Status(c, status)
  PROVE  /\ records' \in [Callbacks -> {NoRecord} \cup Recorded]
         /\ records'[c].status = status /\ records'[c].key = records[c].key
         /\ records'[c].at = records[c].at /\ records'[c] # NoRecord
         /\ \A d \in Callbacks \ {c} : records'[d] = records[d]
<1>1. records[c] \in Recorded /\ records \in [Callbacks -> {NoRecord} \cup Recorded]
  BY DEF TypeOK
<1>2. PICK r : r = [records[c] EXCEPT !.status = status]
  OBVIOUS
<1>3. r \in Recorded /\ r.status = status /\ r.key = records[c].key /\ r.at = records[c].at
  BY <1>1, <1>2 DEF Recorded, RecordKinds
<1>4. records' = [records EXCEPT ![c] = r]
  BY <1>1, <1>2 DEF Status
<1>5. r # NoRecord
  BY <1>3 DEF NoRecord, RecordKinds, Live
<1> QED
  BY <1>1, <1>3, <1>4, <1>5

LEMMA RecordTyped ==
  ASSUME TypeOK, NEW r \in Schedules, NEW status \in RecordKinds,
         records' = [records EXCEPT ![r.callback] = Record(r, status)]
  PROVE  /\ records' \in [Callbacks -> {NoRecord} \cup Recorded]
         /\ records'[r.callback].status = status /\ records'[r.callback].key = r.key
         /\ records'[r.callback].at = r.at /\ records'[r.callback] # NoRecord
         /\ \A d \in Callbacks \ {r.callback} : records'[d] = records[d]
<1>1. r.key \in Keys /\ r.at \in Nat /\ r.callback \in Callbacks
  BY RequestsAssumption, RequestFacts
<1>2. PICK q : q = Record(r, status)
  OBVIOUS
<1>3. q \in Recorded /\ q.status = status /\ q.key = r.key /\ q.at = r.at
  BY <1>1, <1>2 DEF Record, Recorded, RecordKinds
<1>4. q # NoRecord
  BY <1>3 DEF NoRecord, RecordKinds, Live
<1>5. records' = [records EXCEPT ![r.callback] = q]
  BY <1>2
<1> QED
  BY <1>1, <1>3, <1>4, <1>5 DEF TypeOK

LEMMA OneSweepKept ==
  ASSUME IInv, NEW c \in Callbacks, \A d \in Callbacks \ {c} : holder'[d] = holder[d],
         holder'[c].call \notin SweepCalls \/ Sweepable(OwnerOf[c])
  PROVE  OneSweepCall'
<1>1. ASSUME NEW d \in Callbacks, NEW e \in Callbacks, OwnerOf[d] = OwnerOf[e],
             holder'[d].call \in SweepCalls, holder'[e].call \in SweepCalls
      PROVE  d = e
  <2>1. CASE d # c /\ e # c
    BY <1>1, <2>1 DEF IInv, OneSweepCall
  <2>2. CASE d = c \/ e = c
    BY <1>1, <2>2 DEF Sweepable, Of
  <2> QED
    BY <2>1, <2>2
<1> QED
  BY <1>1 DEF OneSweepCall

LEMMA SweepShapes ==
  ASSUME TypeOK, NEW s \in Owners
  PROVE  /\ sweep[s].stage \in {"none", "pending", "records"}
         /\ sweep[s].stage = "none" <=> sweep[s] = NoSweep
         /\ sweep[s].stage = "pending" =>
              sweep[s] = [stage |-> "pending", left |-> sweep[s].left] /\ sweep[s].left \subseteq Keys
         /\ sweep[s].stage = "records" =>
              sweep[s] = [stage |-> "records", left |-> sweep[s].left] /\ sweep[s].left \subseteq Callbacks
<1>1. /\ sweep[s] \in {NoSweep} \/ sweep[s] \in [stage : {"pending"}, left : SUBSET Keys]
         \/ sweep[s] \in [stage : {"records"}, left : SUBSET Callbacks]
  BY DEF TypeOK, Sweeps
<1>2. NoSweep.stage = "none"
  BY DEF NoSweep
<1> QED
  BY <1>1, <1>2

LEMMA AbortsMoves ==
  ASSUME IInv, NEW s \in Owners, Aborts(s)
  PROVE  /\ sweep' \in [Owners -> Sweeps] /\ SweepsOwn'
         /\ sweep'[s] = NoSweep /\ sweep'[s].stage = "none"
         /\ \A t \in Owners \ {s} : sweep'[t] = sweep[t]
<1>1. /\ sweep' \in [Owners -> Sweeps] /\ sweep'[s] = NoSweep /\ sweep'[s].stage = "none"
      /\ \A t \in Owners \ {s} : sweep'[t] = sweep[t]
  BY DEF Aborts, IInv, TypeOK, Sweeps, NoSweep
<1> QED
  BY <1>1 DEF IInv, SweepsOwn, Of

LEMMA ReachedMoves ==
  ASSUME IInv, NEW s \in Owners, NEW x, sweep[s].stage # "none", Reached(s, x)
  PROVE  /\ sweep' \in [Owners -> Sweeps] /\ SweepsOwn'
         /\ sweep'[s].stage = sweep[s].stage /\ sweep'[s].left = sweep[s].left \ {x}
         /\ \A t \in Owners \ {s} : sweep'[t] = sweep[t]
<1>1. TypeOK /\ SweepsOwn
  BY DEF IInv
<1>2. PICK new : new = [sweep[s] EXCEPT !.left = @ \ {x}]
  OBVIOUS
<1>3. new \in Sweeps /\ new.stage = sweep[s].stage /\ new.left = sweep[s].left \ {x}
  <2>1. CASE sweep[s].stage = "pending"
    <3>1. PICK left \in SUBSET Keys : sweep[s] = [stage |-> "pending", left |-> left]
      BY <1>1, <2>1, SweepShapes
    <3>2. new = [stage |-> "pending", left |-> left \ {x}]
      BY <1>2, <3>1
    <3> QED
      BY <2>1, <3>1, <3>2 DEF Sweeps
  <2>2. CASE sweep[s].stage = "records"
    <3>1. PICK left \in SUBSET Callbacks : sweep[s] = [stage |-> "records", left |-> left]
      BY <1>1, <2>2, SweepShapes
    <3>2. new = [stage |-> "records", left |-> left \ {x}]
      BY <1>2, <3>1
    <3> QED
      BY <2>2, <3>1, <3>2 DEF Sweeps
  <2> QED
    BY <1>1, <2>1, <2>2, SweepShapes
<1>4. sweep' = [sweep EXCEPT ![s] = new] /\ sweep \in [Owners -> Sweeps]
  BY <1>1, <1>2 DEF Reached, TypeOK
<1>5. /\ sweep' \in [Owners -> Sweeps] /\ sweep'[s] = new
      /\ \A t \in Owners \ {s} : sweep'[t] = sweep[t]
  BY <1>3, <1>4
<1> QED
  BY <1>1, <1>3, <1>5 DEF SweepsOwn, Of

LEMMA FrameHolds ==
  ASSUME IInv, TypeOK', NEW c \in Callbacks,
         \A d \in Callbacks \ {c} :
            /\ records'[d] = records[d] /\ holder'[d] = holder[d]
            /\ cancelKey'[d] = cancelKey[d] /\ incarnation'[d] = incarnation[d]
            /\ \A i \in Nat : Spent(d, i)' = Spent(d, i),
         \A k \in Keys \ KeysOf(c) :
            /\ pending'[k] = pending[k] /\ sweepKey'[k] = sweepKey[k] /\ results'[k] = results[k]
            /\ k \in canceled' <=> k \in canceled,
         \A key : CallbackOf(key) # c => /\ key \in rejected' <=> key \in rejected
                                         /\ key \in failed' <=> key \in failed,
         sequence' >= sequence, ended' = ended, SweepKept(c)
  PROVE  Frame(c)
<1>1. ASSUME NEW d \in Callbacks \ {c}
      PROVE  /\ \A k \in KeysOf(d) : k \in Keys \ KeysOf(c)
             /\ RefusedOf(d)' = RefusedOf(d) /\ FailedOf(d)' = FailedOf(d)
             /\ CanceledOf(d)' = CanceledOf(d)
  <2>1. \A k \in KeysOf(d) : k \in Keys \ KeysOf(c)
    BY DEF KeysOf
  <2>2. \A key : CallbackOf(key) = d => CallbackOf(key) # c
    OBVIOUS
  <2>3. RefusedOf(d)' = RefusedOf(d) /\ FailedOf(d)' = FailedOf(d)
    BY <2>2 DEF RefusedOf, FailedOf, CallbackOf, CallbackFor
  <2>4. canceled \subseteq Keys /\ canceled' \subseteq Keys
    BY DEF IInv, TypeOK
  <2>5. CanceledOf(d)' = CanceledOf(d)
    BY <2>4 DEF CanceledOf, KeysOf, RequestOf
  <2> QED
    BY <2>1, <2>3, <2>5
<1> QED
  BY <1>1 DEF Frame

\* A step that takes a lock or gives it back, and changes nothing else.
LEMMA LockStep ==
  ASSUME IInv, NEW c \in Callbacks, holder' \in [Callbacks -> {Free} \cup CallMade],
         \A d \in Callbacks \ {c} : holder'[d] = holder[d],
         UNCHANGED <<now, service, sweep, ended, optedOut, rejected, canceled>>,
         armed' \in [Callbacks -> Jobs], faults' \in 0..MaxFaults, acted' \subseteq SentKeys, batch' \subseteq Callbacks,
         holder'[c].call \notin SweepCalls \/ Sweepable(OwnerOf[c]),
         ended[OwnerOf[c]] = "closed" => holder'[c] = Free,
         holder'[c].call = "schedule" => ended[OwnerOf[c]] = "open",
         HolderRight(c)'
  PROVE  IInv'
<1>1. TypeOK'
  BY DEF IInv, TypeOK, service
<1>2. SweepsOwn'
  BY DEF IInv, SweepsOwn, Of
<1>3. OneSweepCall'
  BY OneSweepKept
<1>4. SweepKept(c)
  BY DEF SweepKept
<1>5. Frame(c)
  <2>1. \A d \in Callbacks, i \in Nat : Spent(d, i)' = Spent(d, i)
    BY DEF Spent, service
  <2>2. sequence' >= sequence
    BY DEF IInv, TypeOK, service
  <2> QED
    BY <1>1, <1>4, <2>1, <2>2, FrameHolds DEF service
<1>6. Local(c)
  BY DEF IInv
<1>7. RecordRight(c)' /\ PendingRight(c)' /\ CanceledRight(c)'
  BY <1>6 DEF Local, RecordRight, PendingRight, CanceledRight, CanceledOf, KeysOf, RequestOf, service
<1>8. CancelKeyRight(c)' /\ SweepKeyRight(c)'
  BY <1>6 DEF Local, CancelKeyRight, SweepKeyRight, Spent, RefusedOf, KeysOf, RequestOf, service
<1>9. RefusedRight(c)'
  BY <1>6 DEF Local, RefusedRight, Spent, RefusedOf, FailedOf, Alive, KeysOf, RequestOf, service
<1>10. SpentRight(c)'
  BY <1>6 DEF Local, SpentRight, Spent, Alive, KeysOf, RequestOf, service
<1>11. SweepRight(c)'
  BY <1>6 DEF Local, SweepRight, FailedOf, KeysOf, RequestOf, service
<1> QED
  BY <1>1, <1>2, <1>3, <1>5, <1>7, <1>8, <1>9, <1>10, <1>11, StepRight DEF Local

-----------------------------------------------------------------------------
(* schedule() *)

\* While its session is open, no cleanup key of a callback is minted and no sweep
\* of it runs.
LEMMA OpenFacts ==
  ASSUME IInv, NEW c \in Callbacks, ended[OwnerOf[c]] = "open"
  PROVE  /\ \A i \in Nat : Spent(c, i) = 0
         /\ sweep[OwnerOf[c]].stage = "none"
         /\ \A k \in KeysOf(c) : sweepKey[k] = NoKey
<1>1. \A i \in Nat : Spent(c, i) = 0
  <2>1. ASSUME NEW i \in Nat PROVE Spent(c, i) = 0
    <3>1. Spent(c, i) \in Nat /\ (Spent(c, i) > 0 => i \in 1..sequence)
      BY SpentFacts DEF IInv
    <3>2. i \in 1..sequence => ~(Spent(c, i) > 0)
      BY DEF IInv, Local, SpentRight
    <3> QED
      BY <3>1, <3>2
  <2> QED
    BY <2>1
<1>2. sweep[OwnerOf[c]].stage = "none"
  BY DEF IInv, Local, SweepRight
<1>3. \A k \in KeysOf(c) : sweepKey[k] = NoKey
  <2>1. SweepKeyRight(c) /\ \A k \in KeysOf(c) : pending[k] \in Nat
    BY DEF IInv, Local, TypeOK, KeysOf
  <2>2. \A k \in KeysOf(c) : Spent(c, pending[k]) = 0
    BY <1>1, <2>1
  <2> QED
    BY <2>1, <2>2 DEF SweepKeyRight
<1> QED
  BY <1>1, <1>2, <1>3

LEMMA BlockStep ==
  ASSUME IInv, NEW r \in Schedules, Serves(r.callback), results[r.key] = "none", pending[r.key] = 0,
         Block(r),
         UNCHANGED <<now, batch, sweep, ended, optedOut, provider, rejected, canceled>>
  PROVE  IInv'
<1> DEFINE c == r.callback
<1>1. /\ c \in Callbacks /\ r.key \in Keys /\ r.key \in KeysOf(c) /\ RequestOf(r.key) = r
      /\ ended[OwnerOf[c]] = "open" /\ holder[c] = Free /\ Local(c) /\ TypeOK
  BY RequestFacts, RequestsAssumption DEF Serves, Idle, IInv, KeysOf
<1>2. /\ records' \in [Callbacks -> {NoRecord} \cup Recorded]
      /\ records'[c].status = "blocked" /\ records'[c].key = r.key
      /\ records'[c].at = r.at /\ records'[c] # NoRecord
      /\ \A d \in Callbacks \ {c} : records'[d] = records[d]
  BY <1>1, RecordTyped DEF Block, RecordKinds
<1>3. /\ results' \in [Keys \cup CancelKeys -> {"none", "blocked", "scheduled", "canceled"}]
      /\ results'[r.key] = "blocked" /\ \A k \in Keys \cup CancelKeys : k # r.key => results'[k] = results[k]
      /\ UNCHANGED <<pending, cancelKey, sweepKey, failed, incarnation, attempts, sequence, holder>>
  BY <1>1 DEF Block, TypeOK
<1>4. UNCHANGED <<now, batch, sweep, ended, optedOut, armed, acted, faults, rejected, canceled>>
  BY DEF provider
<1> HIDE DEF c
<1>5. TypeOK'
  BY <1>1, <1>2, <1>3, <1>4 DEF TypeOK
<1>6. SweepsOwn' /\ OneSweepCall'
  BY <1>3, <1>4 DEF IInv, SweepsOwn, OneSweepCall, Of
<1>7. \A d \in Callbacks, i \in Nat : Spent(d, i)' = Spent(d, i)
  BY <1>3 DEF Spent
<1>8. Frame(c)
  <2>1. SweepKept(c) /\ sequence' >= sequence
    BY <1>1, <1>3, <1>4 DEF SweepKept, TypeOK
  <2> QED
    BY <1>1, <1>2, <1>3, <1>4, <1>5, <1>7, <2>1, FrameHolds
<1>9. RecordRight(c)' /\ PendingRight(c)'
  <2>1. KeysOf(c)' = KeysOf(c) /\ KeysOf(c) \subseteq Keys \cup CancelKeys
    BY DEF KeysOf, RequestOf
  <2>2. RecordRight(c)'
    BY <1>1, <1>2, <2>1 DEF RecordRight, Live, Asked, RequestOf
  <2>3. PendingRight(c)'
    BY <1>1, <1>2, <1>3, <2>1 DEF Local, PendingRight, Live
  <2> QED
    BY <2>2, <2>3
<1>10. CancelKeyRight(c)' /\ SweepKeyRight(c)'
  BY <1>1, <1>2, <1>3, <1>4
     DEF Local, CancelKeyRight, SweepKeyRight, Spent, RefusedOf, KeysOf, RequestOf
<1>11. RefusedRight(c)' /\ SpentRight(c)'
  BY <1>1, <1>3, <1>4
     DEF Local, RefusedRight, SpentRight, Spent, RefusedOf, FailedOf, Alive, KeysOf, RequestOf
<1>12. CanceledRight(c)'
  <2>1. \A k \in CanceledOf(c) : k \in Keys /\ k \in Keys \cup CancelKeys
    BY <1>1 DEF CanceledOf, TypeOK
  <2> QED
    BY <1>1, <1>2, <1>3, <1>4, <2>1 DEF Local, CanceledRight, CanceledOf, RequestOf, Live
<1>13. HolderRight(c)' /\ SweepRight(c)'
  <2>1. sweep[OwnerOf[c]].stage = "none" /\ Free.call = "none"
    BY <1>1, OpenFacts DEF Free
  <2> QED
    BY <1>1, <1>3, <1>4, <2>1 DEF HolderRight, SweepRight, SweepCalls
<1> QED
  BY <1>1, <1>5, <1>6, <1>8, <1>9, <1>10, <1>11, <1>12, <1>13, StepRight DEF Local

\* A new request: pending, as an incarnation that never was before.
LEMMA NewSchedule ==
  ASSUME IInv, NEW r \in Schedules, Serves(r.callback), results[r.key] = "none", pending[r.key] = 0,
         Admits(r), sequence' = sequence + 1,
         pending' = [pending EXCEPT ![r.key] = sequence'],
         Calls(r.callback, "schedule", ClientKey(r.key), r.key),
         UNCHANGED <<records, results, cancelKey, sweepKey, failed, incarnation, attempts>>,
         UNCHANGED <<now, batch, sweep, ended, optedOut, provider, rejected, canceled>>
  PROVE  IInv'
<1> DEFINE c == r.callback
<1>1. /\ c \in Callbacks /\ r.key \in Keys /\ r.key \in KeysOf(c) /\ CallbackFor(r.key) = c
      /\ ended[OwnerOf[c]] = "open" /\ holder[c] = Free /\ Local(c) /\ TypeOK
      /\ sequence \in Nat
  BY RequestFacts, RequestsAssumption DEF Serves, Idle, IInv, KeysOf, TypeOK
<1>2. /\ holder' \in [Callbacks -> {Free} \cup CallMade]
      /\ holder'[c] # Free /\ holder'[c].call = "schedule" /\ holder'[c].key = ClientKey(r.key)
      /\ holder'[c].for = r.key /\ \A d \in Callbacks \ {c} : holder'[d] = holder[d]
  BY <1>1, CallTyped, KeyKinds DEF CallKinds
<1>3. /\ pending' \in [Keys -> 0..sequence'] /\ pending'[r.key] = sequence + 1
      /\ \A k \in Keys : k # r.key => pending'[k] = pending[k]
      /\ \A k \in Keys : pending[k] \in 0..sequence
      /\ sequence' \in Nat /\ incarnation[c] \in 0..sequence
  BY <1>1 DEF TypeOK
<1>4. UNCHANGED <<now, batch, sweep, ended, optedOut, armed, acted, faults, rejected, canceled>>
  BY DEF provider
<1>5. records[c].status \notin Live /\ \A k \in KeysOf(c) : pending[k] = 0
  BY <1>1 DEF Admits, PendingKeys, KeysOf
<1> HIDE DEF c
<1>6. TypeOK'
  <2>1. incarnation' \in [Callbacks -> 0..sequence'] /\ DOMAIN attempts' \subseteq Callbacks \X (1..sequence')
    <3>1. 0..sequence \subseteq 0..sequence' /\ 1..sequence \subseteq 1..sequence'
      BY <1>1, <1>3
    <3> QED
      BY <1>1, <3>1 DEF TypeOK
  <2> QED
    BY <1>1, <1>2, <1>3, <1>4, <2>1 DEF TypeOK
<1>7. SweepsOwn' /\ OneSweepCall'
  <2>1. SweepsOwn'
    BY <1>4 DEF IInv, SweepsOwn, Of
  <2> QED
    BY <1>1, <1>2, <2>1, OneSweepKept DEF SweepCalls
<1>8. \A d \in Callbacks, i \in Nat : Spent(d, i)' = Spent(d, i)
  BY DEF Spent
<1>9. Frame(c)
  <2>1. SweepKept(c) /\ sequence' >= sequence
    BY <1>1, <1>3, <1>4 DEF SweepKept
  <2> QED
    BY <1>1, <1>2, <1>3, <1>4, <1>6, <1>8, <2>1, FrameHolds DEF KeysOf
<1>10. KeysOf(c)' = KeysOf(c) /\ KeysOf(c) \subseteq Keys
  BY DEF KeysOf, RequestOf
<1>11. \A i \in Nat : Spent(c, i) = 0
  BY <1>1, OpenFacts
<1>12. \A k \in KeysOf(c) : sweepKey[k] = NoKey
  BY <1>1, OpenFacts
<1>13. /\ RefusedOf(c)' = RefusedOf(c) /\ FailedOf(c)' = FailedOf(c) /\ CanceledOf(c)' = CanceledOf(c)
  BY <1>4 DEF RefusedOf, FailedOf, CanceledOf, RequestOf, CallbackOf, CallbackFor
<1>14. RecordRight(c)' /\ PendingRight(c)'
  BY <1>1, <1>3, <1>5, <1>10 DEF Local, RecordRight, PendingRight, RequestOf
<1>15. CancelKeyRight(c)' /\ SweepKeyRight(c)'
  BY <1>1, <1>3, <1>8, <1>10, <1>12, <1>13 DEF Local, CancelKeyRight, SweepKeyRight
<1>16. RefusedRight(c)'
  <2>1. \A i \in 1..sequence : i \in 1..sequence' /\ (Alive(c, i)' => Alive(c, i))
    BY <1>1, <1>3, <1>5, <1>10 DEF Alive
  <2> QED
    BY <1>1, <1>3, <1>4, <1>8, <1>13, <2>1 DEF Local, RefusedRight
<1>17. SpentRight(c)'
  BY <1>1, <1>3, <1>8, <1>11 DEF SpentRight
<1>18. CanceledRight(c)'
  <2>1. \A k \in CanceledOf(c) : k \in Keys /\ k # r.key
    BY <1>1, <1>4 DEF Local, CanceledRight, CanceledOf, TypeOK
  <2> QED
    BY <1>1, <1>3, <1>4, <1>13, <2>1 DEF Local, CanceledRight
<1>19. HolderRight(c)' /\ SweepRight(c)'
  <2>1. sweep[OwnerOf[c]].stage = "none"
    BY <1>1, OpenFacts
  <2>2. CallbackOf(ClientKey(r.key))' = c
    BY <1>1, KeyKinds DEF CallbackOf, CallbackFor, ClientKey
  <2> QED
    BY <1>1, <1>2, <1>3, <1>4, <1>10, <2>1, <2>2 DEF HolderRight, SweepRight, ClientKey
<1> QED
  BY <1>1, <1>6, <1>7, <1>9, <1>14, <1>15, <1>16, <1>17, <1>18, <1>19, StepRight DEF Local

LEMMA ScheduleStep ==
  ASSUME IInv, NEW r \in Schedules, Schedule(r)
  PROVE  IInv'
<1> DEFINE c == r.callback
<1>1. /\ Serves(c) /\ results[r.key] = "none"
      /\ UNCHANGED <<now, batch, sweep, ended, optedOut, provider, rejected, canceled>>
  BY DEF Schedule
<1>2. CASE /\ pending[r.key] # 0 /\ UNCHANGED service
           /\ Calls(c, "schedule", ClientKey(r.key), r.key)
  <2>1. /\ c \in Callbacks /\ r.key \in Keys /\ r.key \in KeysOf(c) /\ CallbackFor(r.key) = c
        /\ ended[OwnerOf[c]] = "open" /\ TypeOK
    BY <1>1, RequestFacts, RequestsAssumption DEF Serves, IInv, KeysOf
  <2>2. /\ holder' \in [Callbacks -> {Free} \cup CallMade]
        /\ holder'[c] # Free /\ holder'[c].call = "schedule" /\ holder'[c].key = ClientKey(r.key)
        /\ holder'[c].for = r.key /\ \A d \in Callbacks \ {c} : holder'[d] = holder[d]
    <3>1. ClientKey(r.key) \in SentKeys
      BY <2>1, KeyKinds
    <3>2. "schedule" \in CallKinds
      BY DEF CallKinds
    <3> HIDE DEF c
    <3> QED
      BY <1>2, <2>1, <3>1, <3>2, CallTyped
  <2> HIDE DEF c
  <2>3. HolderRight(c)'
    <3>1. CallbackOf(ClientKey(r.key))' = c /\ KeysOf(c)' = KeysOf(c)
      BY <2>1, KeyKinds DEF CallbackOf, CallbackFor, ClientKey, KeysOf, RequestOf
    <3> QED
      BY <1>2, <2>1, <2>2, <3>1 DEF HolderRight, service, ClientKey
  <2>4. /\ armed' \in [Callbacks -> Jobs] /\ faults' \in 0..MaxFaults /\ acted' \subseteq SentKeys
        /\ batch' \subseteq Callbacks
    BY <1>1, <2>1 DEF TypeOK, provider
  <2> QED
    BY <1>1, <1>2, <2>1, <2>2, <2>3, <2>4, LockStep DEF SweepCalls
<1>3. CASE pending[r.key] = 0 /\ Block(r)
  BY <1>1, <1>3, BlockStep
<1>4. CASE /\ pending[r.key] = 0 /\ Admits(r)
           /\ sequence' = sequence + 1
           /\ pending' = [pending EXCEPT ![r.key] = sequence']
           /\ Calls(c, "schedule", ClientKey(r.key), r.key)
           /\ UNCHANGED <<records, results, cancelKey, sweepKey, failed, incarnation, attempts>>
  BY <1>1, <1>4, NewSchedule
<1> HIDE DEF c
<1> QED
  BY <1>2, <1>3, <1>4, Zenon DEF Schedule, c

\* What a provider call may do to what the providers keep.
LEMMA ProviderTyped ==
  ASSUME TypeOK, NEW c \in Callbacks, holder[c] # Free, NEW job \in Jobs
  PROVE  /\ Served(c, job) => /\ armed' \in [Callbacks -> Jobs] /\ acted' \subseteq SentKeys
                              /\ UNCHANGED <<faults, rejected>>
         /\ Refused(c) => /\ UNCHANGED <<armed, acted>> /\ faults' \in 0..MaxFaults
                          /\ rejected' = rejected \cup {holder[c].key}
                          /\ rejected' \subseteq SentKeys
         /\ Lost(c, job) => /\ armed' \in [Callbacks -> Jobs] /\ acted' \subseteq SentKeys
                            /\ faults' \in 0..MaxFaults /\ UNCHANGED rejected
<1>1. /\ holder[c].key \in SentKeys /\ acted \subseteq SentKeys /\ rejected \subseteq SentKeys
      /\ armed \in [Callbacks -> Jobs] /\ faults \in 0..MaxFaults
  BY HeldTyped DEF TypeOK
<1>2. Faulty => faults' \in 0..MaxFaults
  BY <1>1, BoundsAssumption DEF Faulty
<1>3. Served(c, job) => /\ armed' \in [Callbacks -> Jobs] /\ acted' \subseteq SentKeys
                        /\ UNCHANGED <<faults, rejected>>
  BY <1>1 DEF Served, Serve
<1>4. Refused(c) => /\ UNCHANGED <<armed, acted>> /\ faults' \in 0..MaxFaults
                    /\ rejected' = rejected \cup {holder[c].key} /\ rejected' \subseteq SentKeys
  BY <1>1, <1>2 DEF Refused
<1>5. Lost(c, job) => /\ armed' \in [Callbacks -> Jobs] /\ acted' \subseteq SentKeys
                      /\ faults' \in 0..MaxFaults /\ UNCHANGED rejected
  BY <1>1, <1>2 DEF Lost, Serve
<1> QED
  BY <1>3, <1>4, <1>5

LEMMA JobsKnown == 0 \in Jobs /\ \A k \in Keys : RequestOf(k).at \in Jobs
BY RequestFacts DEF Jobs

\* A call that failed without an answer leaves everything as it found it.
LEMMA LostStep ==
  ASSUME IInv, NEW c \in Callbacks, holder[c] # Free, NEW job \in Jobs, Releases(c), Lost(c, job),
         UNCHANGED <<now, service, batch, sweep, ended, optedOut, canceled>>
  PROVE  IInv'
<1>1. /\ holder' \in [Callbacks -> {Free} \cup CallMade]
      /\ holder'[c] = Free /\ holder'[c].call = "none"
      /\ \A d \in Callbacks \ {c} : holder'[d] = holder[d]
  BY ReleaseTyped DEF IInv
<1>2. /\ armed' \in [Callbacks -> Jobs] /\ acted' \subseteq SentKeys
      /\ faults' \in 0..MaxFaults /\ UNCHANGED rejected /\ batch' \subseteq Callbacks
  BY ProviderTyped DEF IInv, TypeOK
<1>3. HolderRight(c)'
  BY <1>1 DEF HolderRight
<1> QED
  BY <1>1, <1>2, <1>3, LockStep DEF SweepCalls

\* A schedule that was refused, or served: its entry is gone, the incarnation is
\* the record's.
LEMMA ScheduleAnswered ==
  ASSUME IInv, NEW c \in Callbacks, holder[c].call = "schedule", Releases(c),
         \/ /\ Served(c, RequestOf(holder[c].for).at)
            /\ records' = [records EXCEPT ![c] = Record(RequestOf(holder[c].for), "scheduled")]
            /\ results' = [results EXCEPT ![holder[c].for] = "scheduled"]
            /\ Incarnates(c, pending[holder[c].for])
         \/ /\ Refused(c)
            /\ UNCHANGED <<records, results, incarnation>>,
         pending' = [pending EXCEPT ![holder[c].for] = 0],
         UNCHANGED <<cancelKey, sweepKey, failed, attempts, sequence>>,
         UNCHANGED <<now, batch, sweep, ended, optedOut, canceled>>
  PROVE  IInv'
<1> DEFINE k == holder[c].for
           r == RequestOf(k)
<1>1. /\ TypeOK /\ Local(c) /\ holder[c] # Free
  BY HeldIfCalling DEF IInv, CallKinds
<1>2. /\ k \in KeysOf(c) /\ pending[k] # 0 /\ holder[c].key = ClientKey(k)
  BY <1>1 DEF Local, HolderRight
<1>3. /\ k \in Keys /\ r \in Schedules /\ r.key = k /\ r.callback = c /\ r.at \in Jobs
      /\ k \notin CancelKeys /\ CallbackFor(k) = c
  BY <1>2, RequestFacts, JobsKnown, RequestsAssumption DEF KeysOf
<1> HIDE DEF k
<1>4. /\ holder' \in [Callbacks -> {Free} \cup CallMade]
      /\ holder'[c] = Free /\ holder'[c].call = "none"
      /\ \A d \in Callbacks \ {c} : holder'[d] = holder[d]
  BY <1>1, ReleaseTyped
<1>5. /\ pending' \in [Keys -> 0..sequence] /\ pending'[k] = 0 /\ sequence \in Nat
      /\ \A q \in Keys : q # k => pending'[q] = pending[q]
      /\ \A q \in Keys : pending[q] \in 0..sequence
  BY <1>1, <1>3 DEF TypeOK, k
<1>6. KeysOf(c)' = KeysOf(c) /\ KeysOf(c) \subseteq Keys
  BY DEF KeysOf, RequestOf
<1>7. /\ \A i \in Nat : Spent(c, i) = 0
      /\ \A d \in Callbacks, i \in Nat : Spent(d, i)' = Spent(d, i)
  <2>1. ASSUME NEW i \in Nat PROVE Spent(c, i) = 0
    <3>1. Spent(c, i) \in Nat /\ (Spent(c, i) > 0 => i \in 1..sequence)
      BY <1>1, SpentFacts
    <3>2. i \in 1..sequence => ~(Spent(c, i) > 0)
      BY <1>1 DEF Local, SpentRight
    <3> QED
      BY <3>1, <3>2
  <2> QED
    BY <2>1 DEF Spent
<1>8. \A q \in KeysOf(c) : sweepKey[q] = NoKey /\ (q # k => pending[q] = 0)
  <2>1. \A q \in KeysOf(c) : Spent(c, pending[q]) = 0
    BY <1>5, <1>6, <1>7
  <2> QED
    BY <1>1, <1>2, <2>1 DEF Local, SweepKeyRight, PendingRight
<1>9. /\ records[c].status \notin Live /\ pending[k] # incarnation[c] /\ results[k] = "none"
      /\ k \notin canceled
  <2>1. k \notin canceled
    BY <1>1, <1>2 DEF Local, CanceledRight, CanceledOf, KeysOf
  <2> QED
    BY <1>1, <1>2, <2>1 DEF Local, PendingRight
<1>10. sweep[OwnerOf[c]].stage # "records" /\ ended[OwnerOf[c]] # "closed"
  BY <1>1, <1>2 DEF Local, SweepRight
<1>11. FailedOf(c)' = FailedOf(c) /\ CanceledOf(c)' = CanceledOf(c) /\ \A q \in CanceledOf(c) : q \in Keys /\ q # k
  <2>1. \A q \in CanceledOf(c) : q \in Keys /\ q # k
    BY <1>1, <1>9 DEF CanceledOf, TypeOK
  <2> QED
    BY <2>1 DEF FailedOf, CanceledOf, RequestOf, CallbackOf, CallbackFor
<1>12. SweepsOwn' /\ OneSweepCall'
  <2>1. SweepsOwn'
    BY DEF IInv, SweepsOwn, Of, RequestOf
  <2> QED
    BY <1>4, <2>1, OneSweepKept DEF SweepCalls
<1>13. SweepKept(c) /\ sequence' >= sequence
  BY <1>5 DEF SweepKept
<1>14. HolderRight(c)' /\ SweepRight(c)'
  BY <1>1, <1>4, <1>5, <1>6, <1>10 DEF Local, HolderRight, SweepRight
<1>15. SweepKeyRight(c)' /\ SpentRight(c)'
  <2>1. SweepKeyRight(c)'
    BY <1>6, <1>8 DEF SweepKeyRight
  <2>2. SpentRight(c)'
    BY <1>5, <1>7 DEF SpentRight
  <2> QED
    BY <2>1, <2>2
<1>16. CASE /\ Served(c, r.at)
            /\ records' = [records EXCEPT ![c] = Record(r, "scheduled")]
            /\ results' = [results EXCEPT ![k] = "scheduled"]
            /\ Incarnates(c, pending[k])
  <2>1. /\ records' \in [Callbacks -> {NoRecord} \cup Recorded]
        /\ records'[c].status = "scheduled" /\ records'[c].key = k
        /\ records'[c].at = r.at /\ records'[c] # NoRecord
        /\ \A d \in Callbacks \ {c} : records'[d] = records[d]
    <3> HIDE DEF r
    <3>1. "scheduled" \in RecordKinds
      BY DEF RecordKinds, Live
    <3>2. records' = [records EXCEPT ![r.callback] = Record(r, "scheduled")]
      BY <1>3, <1>16
    <3>3. /\ records' \in [Callbacks -> {NoRecord} \cup Recorded]
          /\ records'[r.callback].status = "scheduled" /\ records'[r.callback].key = r.key
          /\ records'[r.callback].at = r.at /\ records'[r.callback] # NoRecord
          /\ \A d \in Callbacks \ {r.callback} : records'[d] = records[d]
      <4>1. r \in Schedules /\ TypeOK
        BY <1>1, <1>3
      <4> QED
        BY ONLY <3>1, <3>2, <4>1, RecordTyped
    <3> QED
      BY ONLY <1>3, <3>3
  <2>2. /\ results' \in [Keys \cup CancelKeys -> {"none", "blocked", "scheduled", "canceled"}]
        /\ results'[k] = "scheduled" /\ \A q \in Keys \cup CancelKeys : q # k => results'[q] = results[q]
        /\ incarnation' \in [Callbacks -> 0..sequence] /\ incarnation'[c] = pending[k]
        /\ \A d \in Callbacks \ {c} : incarnation'[d] = incarnation[d]
    BY <1>1, <1>3, <1>5, <1>16 DEF TypeOK, Incarnates
  <2>3. /\ armed' \in [Callbacks -> Jobs] /\ acted' \subseteq SentKeys
        /\ UNCHANGED <<faults, rejected>>
    BY <1>1, <1>3, <1>16, ProviderTyped
  <2>4. TypeOK'
    BY <1>1, <1>4, <1>5, <2>1, <2>2, <2>3 DEF TypeOK
  <2>5. Frame(c)
    BY <1>2, <1>4, <1>5, <1>7, <1>13, <2>1, <2>2, <2>3, <2>4, FrameHolds
  <2>6. RefusedOf(c)' = RefusedOf(c)
    BY <2>3 DEF RefusedOf, CallbackOf, CallbackFor
  <2>7. RecordRight(c)'
    BY <1>2, <1>5, <1>6, <2>1, <2>2 DEF RecordRight, RequestOf, r
  <2>8. PendingRight(c)'
    BY <1>5, <1>6, <1>8 DEF PendingRight
  <2>9. CancelKeyRight(c)'
    <3>1. \/ cancelKey[c] = NoKey
          \/ \E x \in CancelKeys : cancelKey[c] = ClientKey(x) /\ CallbackFor(x) = c
      <4>1. incarnation[c] \in Nat
        BY <1>1 DEF TypeOK
      <4> QED
        BY <1>1, <1>7, <4>1 DEF Local, CancelKeyRight
    <3> QED
      BY <2>1, <3>1 DEF CancelKeyRight, ClientKey, NoKey, CallbackFor
  <2>10. RefusedRight(c)'
    <3>1. \A i \in 1..sequence : Alive(c, i)' => Alive(c, i)
      BY <1>2, <1>5, <1>6, <1>8, <2>2 DEF Alive
    <3> QED
      BY <1>1, <1>5, <1>7, <1>11, <2>6, <3>1 DEF Local, RefusedRight
  <2>11. CanceledRight(c)'
    BY <1>1, <1>5, <1>11, <2>1, <2>2 DEF Local, CanceledRight
  <2> QED
    BY <1>12, <1>14, <1>15, <2>4, <2>5, <2>7, <2>8, <2>9, <2>10, <2>11, StepRight DEF Local
<1>17. CASE Refused(c) /\ UNCHANGED <<records, results, incarnation>>
  <2>1. /\ UNCHANGED <<armed, acted>> /\ faults' \in 0..MaxFaults
        /\ rejected' = rejected \cup {ClientKey(k)} /\ rejected' \subseteq SentKeys
    BY <1>1, <1>2, <1>3, <1>17, ProviderTyped
  <2>2. TypeOK'
    BY <1>1, <1>4, <1>5, <1>17, <2>1 DEF TypeOK
  <2>3. CallbackOf(ClientKey(k)) = c /\ ClientKey(k)[1] = "client" /\ ClientKey(k)[2] = k
    BY <1>3, KeyKinds
  <2>4. Frame(c)
    BY <1>2, <1>4, <1>5, <1>7, <1>13, <1>17, <2>1, <2>2, <2>3, FrameHolds
  <2>5. RefusedOf(c)' \subseteq RefusedOf(c) \cup {ClientKey(k)}
    BY <2>1 DEF RefusedOf, CallbackOf, CallbackFor
  <2>6. RecordRight(c)' /\ PendingRight(c)'
    BY <1>1, <1>5, <1>6, <1>8, <1>17 DEF Local, RecordRight, PendingRight, RequestOf
  <2>7. CancelKeyRight(c)'
    BY <1>1, <1>7, <1>9, <1>17 DEF Local, CancelKeyRight, Spent, Live, CallbackFor
  <2>8. RefusedRight(c)'
    <3>1. \A i \in 1..sequence : Alive(c, i)' => Alive(c, i)
      BY <1>2, <1>5, <1>6, <1>8, <1>17 DEF Alive
    <3>2. \A key \in RefusedOf(c)' : key \in RefusedOf(c) \/ key = ClientKey(k)
      BY <2>5
    <3> QED
      BY <1>1, <1>3, <1>5, <1>7, <1>11, <2>3, <3>1, <3>2 DEF Local, RefusedRight
  <2>9. CanceledRight(c)'
    BY <1>1, <1>5, <1>11, <1>17 DEF Local, CanceledRight
  <2> QED
    BY <1>12, <1>14, <1>15, <2>2, <2>4, <2>6, <2>7, <2>8, <2>9, StepRight DEF Local
<1> QED
  BY <1>16, <1>17 DEF k

LEMMA ScheduleReturnsStep ==
  ASSUME IInv, NEW c \in Callbacks, ScheduleReturns(c)
  PROVE  IInv'
<1>1. /\ holder[c].call = "schedule" /\ Releases(c)
      /\ UNCHANGED <<now, batch, sweep, ended, optedOut, canceled>>
  BY DEF ScheduleReturns
<1>2. CASE /\ Lost(c, RequestOf(holder[c].for).at) /\ OutcomeUnknown(holder[c].for)
           /\ UNCHANGED <<records, results, cancelKey, sweepKey, failed, incarnation,
                           attempts, sequence>>
  <2>1. holder[c] # Free /\ holder[c].for \in Keys
    BY <1>1, HeldIfCalling DEF IInv, CallKinds, Local, HolderRight, KeysOf
  <2> QED
    BY <1>1, <1>2, <2>1, JobsKnown, LostStep DEF OutcomeUnknown, service
<1> QED
  BY <1>1, <1>2, ScheduleAnswered DEF ScheduleReturns

-----------------------------------------------------------------------------
(* A step that changes the status of a live record, or nothing that counts. *)

LEMMA Untouched ==
  ASSUME IInv, TypeOK', UNCHANGED <<service, holder, sweep, ended, rejected, canceled>>
  PROVE  IInv'
<1>1. ASSUME NEW c \in Callbacks PROVE Local(c)'
  <2>1. Local(c)
    BY DEF IInv
  <2>2. RecordRight(c)' /\ PendingRight(c)' /\ CanceledRight(c)'
    BY <2>1 DEF Local, RecordRight, PendingRight, CanceledRight, CanceledOf, KeysOf, RequestOf, service
  <2>3. CancelKeyRight(c)' /\ SweepKeyRight(c)'
    BY <2>1 DEF Local, CancelKeyRight, SweepKeyRight, Spent, RefusedOf, KeysOf, RequestOf, service
  <2>4. RefusedRight(c)' /\ SpentRight(c)'
    BY <2>1 DEF Local, RefusedRight, SpentRight, Spent, RefusedOf, FailedOf, Alive, KeysOf, RequestOf,
                service
  <2>5. HolderRight(c)' /\ SweepRight(c)'
    BY <2>1 DEF Local, HolderRight, SweepRight, Spent, RefusedOf, FailedOf, KeysOf, RequestOf, service
  <2> QED
    BY <2>2, <2>3, <2>4, <2>5 DEF Local
<1>2. SweepsOwn' /\ OneSweepCall'
  BY DEF IInv, SweepsOwn, OneSweepCall, Of
<1> QED
  BY <1>1, <1>2 DEF IInv

\* Beside a live record there is no pending entry, and its session is not closed.
LEMMA LiveFacts ==
  ASSUME IInv, NEW c \in Callbacks, records[c].status \in Live
  PROVE  /\ \A k \in KeysOf(c) : pending[k] = 0 /\ sweepKey[k] = NoKey
         /\ ended[OwnerOf[c]] # "closed" /\ records[c] # NoRecord
         /\ records[c].key \in KeysOf(c) /\ incarnation[c] \in 1..sequence
<1>1. TypeOK /\ Local(c) /\ records[c].status \in Asked
  BY DEF IInv, Asked
<1>2. records[c] # NoRecord
  BY <1>1, HasRecord DEF Live
<1>3. \A k \in KeysOf(c) : pending[k] = 0
  BY <1>1 DEF Local, PendingRight
<1>4. \A k \in KeysOf(c) : sweepKey[k] = NoKey
  BY <1>1, <1>3 DEF Local, SweepKeyRight
<1>5. ended[OwnerOf[c]] # "closed" /\ records[c].key \in KeysOf(c) /\ incarnation[c] # 0
  BY <1>1, <1>2 DEF Local, SweepRight, RecordRight
<1>6. incarnation[c] \in 1..sequence
  <2>1. incarnation[c] \in 0..sequence /\ sequence \in Nat
    BY <1>1 DEF TypeOK
  <2> QED
    BY <1>5, <2>1
<1> QED
  BY <1>2, <1>3, <1>4, <1>5, <1>6

LEMMA StatusKept ==
  ASSUME IInv, NEW c \in Callbacks, records[c].status \in Live, NEW status \in RecordKinds,
         records' = Status(c, status),
         \A k \in Keys : results'[k] = results[k],
         UNCHANGED <<pending, sweepKey, incarnation, sequence, ended>>,
         \/ canceled' = canceled
         \/ status \notin Live /\ canceled' = canceled \cup {records[c].key},
         holder'[c].call # "schedule",
         \A i \in Nat : \/ Spent(c, i)' = Spent(c, i)
                        \/ i = incarnation[c] /\ ended[OwnerOf[c]] # "open",
         sweep'[OwnerOf[c]] = sweep[OwnerOf[c]] \/ sweep'[OwnerOf[c]].stage = "none"
  PROVE  /\ RecordRight(c)' /\ PendingRight(c)' /\ SweepKeyRight(c)'
         /\ SpentRight(c)' /\ CanceledRight(c)' /\ SweepRight(c)'
<1>1. /\ TypeOK /\ Local(c) /\ records[c].status \in Asked
      /\ \A k \in KeysOf(c) : pending[k] = 0 /\ sweepKey[k] = NoKey
      /\ ended[OwnerOf[c]] # "closed" /\ records[c] # NoRecord
      /\ records[c].key \in KeysOf(c) /\ incarnation[c] \in 1..sequence
  BY LiveFacts DEF IInv, Asked
<1>2. /\ records'[c].status = status /\ records'[c].key = records[c].key
      /\ records'[c].at = records[c].at /\ records'[c] # NoRecord
  BY <1>1, StatusTyped
<1>3. KeysOf(c)' = KeysOf(c) /\ KeysOf(c) \subseteq Keys
  BY DEF KeysOf, RequestOf
<1>4. RecordRight(c)'
  <2>1. incarnation[c] # 0 /\ results[records[c].key] = "scheduled"
        /\ records[c].at = RequestOf(records[c].key).at
    BY <1>1 DEF Local, RecordRight
  <2> QED
    BY <1>1, <1>2, <1>3, <2>1 DEF RecordRight, RequestOf
<1>5. PendingRight(c)' /\ SweepKeyRight(c)'
  BY <1>1, <1>3 DEF PendingRight, SweepKeyRight
<1>6. SpentRight(c)'
  <2>1. \A i \in 1..sequence : i \in Nat
    BY <1>1 DEF TypeOK
  <2>2. \A i \in 1..sequence : Alive(c, i)' <=> Alive(c, i)
    BY <1>3 DEF Alive
  <2>3. \A i \in 1..sequence : i = incarnation[c] => Alive(c, i)
    BY DEF Alive
  <2>4. SpentRight(c)
    BY <1>1 DEF Local
  <2> QED
    BY <2>1, <2>2, <2>3, <2>4 DEF SpentRight
<1>7. CanceledRight(c)'
  <2>1. \A k \in CanceledOf(c)' : k \in CanceledOf(c) \/ (k = records[c].key /\ status \notin Live)
    BY DEF CanceledOf, RequestOf
  <2>2. \A k \in CanceledOf(c)' : k \in KeysOf(c) /\ k \in Keys
    BY <1>1, <1>3, <2>1 DEF CanceledOf, KeysOf, TypeOK
  <2>3. results[records[c].key] = "scheduled"
    BY <1>1 DEF Local, RecordRight
  <2>4. CanceledRight(c)
    BY <1>1 DEF Local
  <2> QED
    BY <1>1, <1>2, <2>1, <2>2, <2>3, <2>4 DEF CanceledRight
<1>8. SweepRight(c)'
  <2>1. SweepRight(c)
    BY <1>1 DEF Local
  <2> QED
    BY <1>1, <1>2, <1>3, <2>1 DEF SweepRight
<1> QED
  BY <1>4, <1>5, <1>6, <1>7, <1>8

\* A scheduled callback is dispatched, or blocked.
LEMMA StatusStep ==
  ASSUME IInv, TypeOK', NEW c \in Callbacks, records[c].status = "scheduled",
         NEW status \in {"blocked", "dispatched"}, records' = Status(c, status),
         UNCHANGED <<results, pending, cancelKey, sweepKey, failed, incarnation, attempts, sequence>>,
         UNCHANGED <<sweep, ended, rejected, canceled>>,
         holder'[c] = Free, \A d \in Callbacks \ {c} : holder'[d] = holder[d]
  PROVE  IInv'
<1>1. /\ TypeOK /\ Local(c) /\ records[c] # NoRecord /\ status \in RecordKinds
      /\ records[c].status \in Live
  BY LiveFacts DEF IInv, Live, RecordKinds
<1>2. /\ records'[c].status = status /\ \A d \in Callbacks \ {c} : records'[d] = records[d]
  BY <1>1, StatusTyped
<1>3. \A d \in Callbacks, i \in Nat : Spent(d, i)' = Spent(d, i)
  BY DEF Spent
<1>4. holder'[c].call = "none"
  BY DEF Free
<1>5. /\ RecordRight(c)' /\ PendingRight(c)' /\ SweepKeyRight(c)'
      /\ SpentRight(c)' /\ CanceledRight(c)' /\ SweepRight(c)'
  BY <1>1, <1>3, <1>4, StatusKept
<1>6. CancelKeyRight(c)'
  BY <1>1, <1>2, <1>3 DEF Local, CancelKeyRight, Spent, CallbackFor, ClientKey, CleanupKey, NoKey
<1>7. RefusedRight(c)'
  BY <1>1 DEF Local, RefusedRight, Spent, RefusedOf, FailedOf, Alive, KeysOf, RequestOf, CallbackOf,
              CallbackFor
<1>8. HolderRight(c)'
  BY <1>4 DEF HolderRight
<1>9. SweepsOwn'
  BY DEF IInv, SweepsOwn, Of, RequestOf
<1>10. OneSweepCall'
  BY <1>4, OneSweepKept DEF SweepCalls
<1>11. SweepKept(c) /\ sequence' >= sequence
  BY <1>1 DEF SweepKept, TypeOK
<1>12. Frame(c)
  BY <1>2, <1>3, <1>11, FrameHolds
<1> QED
  BY <1>5, <1>6, <1>7, <1>8, <1>9, <1>10, <1>12, StepRight DEF Local

-----------------------------------------------------------------------------
(* cancel() *)

LEMMA CancelStep ==
  ASSUME IInv, NEW r \in Cancels, Cancel(r)
  PROVE  IInv'
<1> DEFINE c == r.callback
           key == ClientKey(r.key)
<1>1. /\ Serves(c) /\ results[r.key] = "none" /\ key \notin failed
      /\ Calls(c, "cancel", key, r.key)
      /\ UNCHANGED <<now, batch, sweep, ended, optedOut, provider, rejected, canceled>>
  BY DEF Cancel
<1>2. /\ c \in Callbacks /\ r.key \in CancelKeys /\ CallbackFor(r.key) = c
      /\ ended[OwnerOf[c]] = "open" /\ holder[c] = Free /\ Local(c) /\ TypeOK
  BY <1>1, RequestFacts, RequestsAssumption DEF Serves, Idle, IInv
<1>3. /\ key \in SentKeys /\ CallbackOf(key) = c /\ key[1] = "client" /\ key[2] = r.key
      /\ key # NoKey
  BY <1>2, KeyKinds
<1>4. CASE /\ records[c].status \in {"scheduled", "cancellation-required"}
           /\ records' = Status(c, "cancellation-pending")
           /\ cancelKey' = [cancelKey EXCEPT ![c] = key]
           /\ UNCHANGED <<results, pending, sweepKey, failed, incarnation, attempts, sequence>>
  <2>1. /\ holder' \in [Callbacks -> {Free} \cup CallMade]
        /\ holder'[c] # Free /\ holder'[c].call = "cancel" /\ holder'[c].key = key
        /\ holder'[c].for = r.key /\ \A d \in Callbacks \ {c} : holder'[d] = holder[d]
    BY <1>1, <1>2, <1>3, CallTyped DEF CallKinds
  <2> HIDE DEF c, key
  <2>2. /\ records[c].status \in Live /\ records[c] # NoRecord
        /\ "cancellation-pending" \in RecordKinds
    BY <1>2, <1>4, LiveFacts DEF Live, RecordKinds
  <2>3. /\ records' \in [Callbacks -> {NoRecord} \cup Recorded]
        /\ records'[c].status = "cancellation-pending"
        /\ \A d \in Callbacks \ {c} : records'[d] = records[d]
    BY <1>2, <1>4, <2>2, StatusTyped
  <2>4. /\ cancelKey' \in [Callbacks -> SentKeys \cup {NoKey}] /\ cancelKey'[c] = key
        /\ \A d \in Callbacks \ {c} : cancelKey'[d] = cancelKey[d]
    BY <1>2, <1>3, <1>4 DEF TypeOK
  <2>5. TypeOK'
    BY <1>1, <1>2, <1>4, <2>1, <2>3, <2>4 DEF TypeOK, provider
  <2>6. \A d \in Callbacks, i \in Nat : Spent(d, i)' = Spent(d, i)
    BY <1>4 DEF Spent
  <2>7. /\ RecordRight(c)' /\ PendingRight(c)' /\ SweepKeyRight(c)'
        /\ SpentRight(c)' /\ CanceledRight(c)' /\ SweepRight(c)'
    BY <1>1, <1>2, <1>4, <2>1, <2>2, <2>6, StatusKept
  <2>8. RefusedOf(c)' = RefusedOf(c) /\ FailedOf(c)' = FailedOf(c)
    BY <1>1, <1>4 DEF RefusedOf, FailedOf, CallbackOf, CallbackFor
  <2>9. CancelKeyRight(c)'
    <3>1. key \notin RefusedOf(c)
      BY <1>1, <1>2, <1>3 DEF Local, RefusedRight, FailedOf
    <3>2. CallbackFor(r.key)' = c /\ cancelKey'[c] = ClientKey(r.key)
      BY <1>2, <2>4 DEF CallbackFor, key
    <3> QED
      BY <1>2, <1>3, <2>4, <2>8, <3>1, <3>2 DEF CancelKeyRight, ClientKey
  <2>10. RefusedRight(c)'
    BY <1>1, <1>2, <1>4, <2>8 DEF Local, RefusedRight, Spent, Alive, KeysOf, RequestOf
  <2>11. HolderRight(c)'
    <3>1. CallbackOf(key)' = c
      BY <1>3 DEF CallbackOf, CallbackFor, key, ClientKey
    <3> QED
      BY <1>2, <2>1, <2>3, <2>4, <3>1 DEF HolderRight
  <2>12. SweepsOwn'
    BY <1>1 DEF IInv, SweepsOwn, Of, RequestOf
  <2>13. OneSweepCall'
    BY <1>2, <2>1, OneSweepKept DEF SweepCalls
  <2>14. SweepKept(c) /\ sequence' >= sequence
    BY <1>1, <1>2, <1>4 DEF SweepKept, TypeOK
  <2>15. Frame(c)
    BY <1>1, <1>2, <1>4, <2>1, <2>3, <2>4, <2>5, <2>6, <2>14, FrameHolds
  <2> QED
    BY <1>2, <2>5, <2>7, <2>9, <2>10, <2>11, <2>12, <2>13, <2>15, StepRight DEF Local
<1>5. CASE /\ records[c].status = "cancellation-pending"
           /\ cancelKey[c] = key
           /\ UNCHANGED service
  <2>1. /\ holder' \in [Callbacks -> {Free} \cup CallMade]
        /\ holder'[c] # Free /\ holder'[c].call = "cancel" /\ holder'[c].key = key
        /\ holder'[c].for = r.key /\ \A d \in Callbacks \ {c} : holder'[d] = holder[d]
    BY <1>1, <1>2, <1>3, CallTyped DEF CallKinds
  <2> HIDE DEF c, key
  <2>2. HolderRight(c)'
    <3>1. CallbackOf(key)' = c
      BY <1>3 DEF CallbackOf, CallbackFor, key, ClientKey
    <3> QED
      BY <1>2, <1>5, <2>1, <3>1 DEF HolderRight, service
  <2>3. /\ armed' \in [Callbacks -> Jobs] /\ faults' \in 0..MaxFaults /\ acted' \subseteq SentKeys
        /\ batch' \subseteq Callbacks
    BY <1>1, <1>2 DEF TypeOK, provider
  <2> QED
    BY <1>1, <1>2, <1>5, <2>1, <2>2, <2>3, LockStep DEF SweepCalls
<1> QED
  BY <1>4, <1>5 DEF Cancel

\* A sweep that goes on without what it reached, or ends.
LEMMA SweepMoved ==
  ASSUME IInv, NEW c \in Callbacks, NEW x,
         holder[c].call \in SweepCalls \/ Sweepable(OwnerOf[c]),
         sweep[OwnerOf[c]].stage # "none",
         \/ Aborts(OwnerOf[c])
         \/ /\ Reached(OwnerOf[c], x)
            /\ sweep[OwnerOf[c]].stage = "pending" => x \in KeysOf(c)
            /\ sweep[OwnerOf[c]].stage = "records" => x = c
  PROVE  /\ sweep' \in [Owners -> Sweeps] /\ SweepsOwn' /\ SweepKept(c)
         /\ \/ Aborts(OwnerOf[c]) /\ sweep'[OwnerOf[c]].stage = "none"
            \/ /\ sweep'[OwnerOf[c]].stage = sweep[OwnerOf[c]].stage
               /\ sweep'[OwnerOf[c]].left = sweep[OwnerOf[c]].left \ {x}
<1> DEFINE s == OwnerOf[c]
<1>1. s \in Owners
  BY OwnersAssumption
<1>2. \A d \in Of(s) : d # c => holder[d].call \notin SweepCalls
  BY DEF IInv, OneSweepCall, Sweepable, Of
<1>3. CASE Aborts(s)
  <2>1. /\ sweep' \in [Owners -> Sweeps] /\ SweepsOwn' /\ sweep'[s].stage = "none"
        /\ \A t \in Owners \ {s} : sweep'[t] = sweep[t]
    BY <1>1, <1>3, AbortsMoves
  <2>2. SweepKept(c)
    BY <1>2, <2>1 DEF SweepKept
  <2> QED
    BY <1>3, <2>1, <2>2
<1>4. CASE /\ Reached(s, x)
           /\ sweep[s].stage = "pending" => x \in KeysOf(c)
           /\ sweep[s].stage = "records" => x = c
  <2>1. /\ sweep' \in [Owners -> Sweeps] /\ SweepsOwn'
        /\ sweep'[s].stage = sweep[s].stage /\ sweep'[s].left = sweep[s].left \ {x}
        /\ \A t \in Owners \ {s} : sweep'[t] = sweep[t]
    BY <1>1, <1>4, ReachedMoves
  <2>2. SweepKept(c)
    BY <1>2, <1>4, <2>1 DEF SweepKept
  <2> QED
    BY <2>1, <2>2
<1> QED
  BY <1>3, <1>4

\* A cancellation the scheduler refused for good: its key is spent, the record
\* needs a new one.
LEMMA RejectedStep ==
  ASSUME IInv, NEW c \in Callbacks, holder[c].call \in {"cancel", "remove"}, Releases(c),
         Refused(c), Rejected(c),
         \/ holder[c].call = "cancel" /\ sweep' = sweep
         \/ holder[c].call = "remove" /\ Aborts(OwnerOf[c]),
         UNCHANGED <<now, batch, ended, optedOut, canceled>>
  PROVE  IInv'
<1> DEFINE key == holder[c].key
           s == OwnerOf[c]
<1>1. /\ TypeOK /\ Local(c) /\ holder[c] # Free /\ CallbackOf(key) = c
      /\ records[c].status = "cancellation-pending" /\ cancelKey[c] = key
  BY HeldIfCalling DEF IInv, CallKinds, SweepCalls, Local, HolderRight
<1>2. /\ records[c].status \in Live /\ records[c] # NoRecord
      /\ "cancellation-required" \in RecordKinds /\ incarnation[c] \in 1..sequence
  BY <1>1, LiveFacts DEF Live, RecordKinds
<1>3. key \in SentKeys /\ failed \subseteq SentKeys
  BY <1>1, HeldTyped DEF TypeOK
<1>4. /\ holder' \in [Callbacks -> {Free} \cup CallMade]
      /\ holder'[c] = Free /\ holder'[c].call = "none"
      /\ \A d \in Callbacks \ {c} : holder'[d] = holder[d]
  BY <1>1, ReleaseTyped
<1>5. /\ UNCHANGED <<armed, acted>> /\ faults' \in 0..MaxFaults
      /\ rejected' = rejected \cup {key} /\ rejected' \subseteq SentKeys
  BY <1>1, JobsKnown, ProviderTyped
<1>6. /\ records' = Status(c, "cancellation-required")
      /\ cancelKey' = [cancelKey EXCEPT ![c] = NoKey]
      /\ failed' = failed \cup {key}
      /\ UNCHANGED <<results, pending, sweepKey, incarnation, attempts, sequence>>
  BY DEF Rejected
<1>7. /\ records' \in [Callbacks -> {NoRecord} \cup Recorded]
      /\ records'[c].status = "cancellation-required"
      /\ \A d \in Callbacks \ {c} : records'[d] = records[d]
  BY <1>1, <1>2, <1>6, StatusTyped
<1>8. /\ sweep' \in [Owners -> Sweeps] /\ SweepsOwn' /\ SweepKept(c)
      /\ sweep'[s] = sweep[s] \/ sweep'[s].stage = "none"
  <2>1. CASE sweep' = sweep
    BY <1>1, <2>1 DEF TypeOK, SweepsOwn, IInv, Of, RequestOf, SweepKept
  <2>2. CASE holder[c].call = "remove" /\ Aborts(s)
    <3>1. sweep[s].stage # "none" /\ holder[c].call \in SweepCalls
      BY <1>1, <2>2 DEF Local, HolderRight, SweepCalls
    <3>2. s \in Owners
      BY OwnersAssumption
    <3>3. sweep'[s].stage = "none"
      BY <2>2, <3>2, AbortsMoves
    <3> QED
      BY <2>2, <3>1, <3>3, SweepMoved
  <2> QED
    BY <2>1, <2>2
<1> HIDE DEF key, s
<1>9. TypeOK'
  BY <1>1, <1>3, <1>4, <1>5, <1>6, <1>7, <1>8 DEF TypeOK
<1>10. \A d \in Callbacks, i \in Nat : Spent(d, i)' = Spent(d, i)
  BY <1>6 DEF Spent
<1>11. /\ RecordRight(c)' /\ PendingRight(c)' /\ SweepKeyRight(c)'
       /\ SpentRight(c)' /\ CanceledRight(c)' /\ SweepRight(c)'
  BY <1>2, <1>4, <1>6, <1>8, <1>10, StatusKept DEF s
<1>12. CancelKeyRight(c)'
  BY <1>1, <1>6, <1>7 DEF CancelKeyRight, TypeOK
<1>13. RefusedRight(c)'
  <2>1. \A k \in RefusedOf(c)' : k \in RefusedOf(c) \/ k = key
    BY <1>5 DEF RefusedOf, CallbackOf, CallbackFor
  <2>2. \A i : Alive(c, i)' <=> Alive(c, i)
    BY <1>6 DEF Alive, KeysOf, RequestOf
  <2>3. /\ key[1] = "cleanup" => /\ key[3] \in 1..sequence
                                 /\ key[4] =< Spent(c, key[3])
    <3>1. CASE \E x \in CancelKeys : cancelKey[c] = ClientKey(x)
      BY <1>1, <3>1, KeyKinds
    <3>2. CASE \E n \in 1..Spent(c, incarnation[c]) : cancelKey[c] = CleanupKey(c, incarnation[c], n)
      <4>1. Spent(c, incarnation[c]) \in Nat
        <5>1. incarnation[c] \in Nat
          BY <1>1 DEF TypeOK
        <5> QED
          BY <1>1, <5>1, SpentFacts
      <4>2. PICK n \in 1..Spent(c, incarnation[c]) : key = CleanupKey(c, incarnation[c], n)
        BY <1>1, <3>2
      <4>3. key[3] = incarnation[c] /\ key[4] = n
        BY <4>2, KeyKinds
      <4> QED
        BY <1>2, <4>1, <4>2, <4>3
    <3> QED
      BY <1>1, <3>1, <3>2 DEF Local, CancelKeyRight
  <2>4. FailedOf(c) \subseteq FailedOf(c)' /\ key \in FailedOf(c)'
    BY <2>1, <1>1, <1>6 DEF FailedOf, CallbackOf, CallbackFor
  <2>5. \A i \in 1..sequence : Spent(c, i)' = Spent(c, i)
    BY <1>1, <1>10 DEF TypeOK
  <2>6. RefusedRight(c) /\ sequence' = sequence /\ ended' = ended
    BY <1>1, <1>6 DEF Local
  <2>7. ASSUME NEW k \in RefusedOf(c)'
        PROVE  /\ k[1] = "cleanup" => /\ k[3] \in 1..sequence'
                                      /\ Alive(c, k[3])' => k[4] =< Spent(c, k[3])'
               /\ k[1] = "client" /\ k[2] \in CancelKeys =>
                    ended'[OwnerOf[c]] # "open" \/ k \in FailedOf(c)'
    <3>1. CASE k = key
      BY <2>3, <2>4, <2>5, <2>6, <3>1
    <3>2. CASE k \in RefusedOf(c)
      BY <2>2, <2>4, <2>5, <2>6, <3>2 DEF RefusedRight
    <3> QED
      BY <2>1, <3>1, <3>2
  <2> QED
    BY <2>7 DEF RefusedRight
<1>14. HolderRight(c)'
  BY <1>4 DEF HolderRight
<1>15. OneSweepCall'
  BY <1>4, OneSweepKept DEF SweepCalls
<1>16. Frame(c)
  <2>1. sequence' >= sequence
    BY <1>1, <1>6 DEF TypeOK
  <2> QED
    BY <1>1, <1>4, <1>5, <1>6, <1>7, <1>8, <1>9, <1>10, <2>1, FrameHolds
<1> QED
  BY <1>8, <1>9, <1>11, <1>12, <1>13, <1>14, <1>15, <1>16, StepRight DEF Local

\* A cancellation that was served: the record says so, and its schedule is
\* canceled for good.
LEMMA CanceledStep ==
  ASSUME IInv, NEW c \in Callbacks, holder[c].call = "cancel", Releases(c), Served(c, 0),
         records' = Status(c, "canceled"),
         cancelKey' = [cancelKey EXCEPT ![c] = NoKey],
         results' = [results EXCEPT ![holder[c].for] = "canceled"],
         canceled' = canceled \cup {records[c].key},
         UNCHANGED <<pending, sweepKey, failed, incarnation, attempts, sequence>>,
         UNCHANGED <<now, batch, sweep, ended, optedOut>>
  PROVE  IInv'
<1> DEFINE k == holder[c].for
<1>1. /\ TypeOK /\ Local(c) /\ holder[c] # Free /\ k \in CancelKeys /\ k \notin Keys
      /\ records[c].status = "cancellation-pending"
  BY HeldIfCalling, RequestsAssumption DEF IInv, CallKinds, Local, HolderRight
<1>2. /\ records[c].status \in Live /\ records[c] # NoRecord
      /\ "canceled" \in RecordKinds /\ "canceled" \notin Live
      /\ records[c].key \in KeysOf(c) /\ KeysOf(c) \subseteq Keys
  BY <1>1, LiveFacts DEF Live, RecordKinds, KeysOf
<1>3. /\ holder' \in [Callbacks -> {Free} \cup CallMade]
      /\ holder'[c] = Free /\ holder'[c].call = "none"
      /\ \A d \in Callbacks \ {c} : holder'[d] = holder[d]
  BY <1>1, ReleaseTyped
<1>4. armed' \in [Callbacks -> Jobs] /\ acted' \subseteq SentKeys /\ UNCHANGED <<faults, rejected>>
  BY <1>1, JobsKnown, ProviderTyped
<1>5. /\ records' \in [Callbacks -> {NoRecord} \cup Recorded]
      /\ records'[c].status = "canceled"
      /\ \A d \in Callbacks \ {c} : records'[d] = records[d]
  BY <1>1, <1>2, StatusTyped
<1> HIDE DEF k
<1>6. /\ results' \in [Keys \cup CancelKeys -> {"none", "blocked", "scheduled", "canceled"}]
      /\ \A q \in Keys : results'[q] = results[q]
  BY <1>1 DEF TypeOK, k
<1>7. /\ cancelKey' \in [Callbacks -> SentKeys \cup {NoKey}] /\ cancelKey'[c] = NoKey
      /\ \A d \in Callbacks \ {c} : cancelKey'[d] = cancelKey[d]
  BY <1>1 DEF TypeOK
<1>8. TypeOK'
  BY <1>1, <1>2, <1>3, <1>4, <1>5, <1>6, <1>7 DEF TypeOK
<1>9. \A d \in Callbacks, i \in Nat : Spent(d, i)' = Spent(d, i)
  BY DEF Spent
<1>10. /\ RecordRight(c)' /\ PendingRight(c)' /\ SweepKeyRight(c)'
       /\ SpentRight(c)' /\ CanceledRight(c)' /\ SweepRight(c)'
  BY <1>2, <1>3, <1>6, <1>9, StatusKept
<1>11. CancelKeyRight(c)'
  BY <1>5, <1>7 DEF CancelKeyRight
<1>12. RefusedRight(c)'
  BY <1>1, <1>4 DEF Local, RefusedRight, Spent, RefusedOf, FailedOf, Alive, KeysOf, RequestOf,
                    CallbackOf, CallbackFor
<1>13. HolderRight(c)'
  BY <1>3 DEF HolderRight
<1>14. SweepsOwn'
  BY DEF IInv, SweepsOwn, Of, RequestOf
<1>15. OneSweepCall'
  BY <1>3, OneSweepKept DEF SweepCalls
<1>16. SweepKept(c) /\ sequence' >= sequence
  BY <1>1 DEF SweepKept, TypeOK
<1>17. Frame(c)
  BY <1>2, <1>3, <1>4, <1>5, <1>6, <1>7, <1>8, <1>9, <1>16, FrameHolds
<1> QED
  BY <1>8, <1>10, <1>11, <1>12, <1>13, <1>14, <1>15, <1>17, StepRight DEF Local

LEMMA CancelReturnsStep ==
  ASSUME IInv, NEW c \in Callbacks, CancelReturns(c)
  PROVE  IInv'
<1>1. /\ holder[c].call = "cancel" /\ Releases(c)
      /\ UNCHANGED <<now, batch, sweep, ended, optedOut>>
  BY DEF CancelReturns
<1>2. CASE /\ Served(c, 0)
           /\ records' = Status(c, "canceled")
           /\ cancelKey' = [cancelKey EXCEPT ![c] = NoKey]
           /\ results' = [results EXCEPT ![holder[c].for] = "canceled"]
           /\ canceled' = canceled \cup {records[c].key}
           /\ UNCHANGED <<pending, sweepKey, failed, incarnation, attempts, sequence>>
  BY <1>1, <1>2, CanceledStep
<1>3. CASE Refused(c) /\ Rejected(c) /\ UNCHANGED canceled
  BY <1>1, <1>3, RejectedStep
<1>4. CASE Lost(c, 0) /\ UNCHANGED service /\ UNCHANGED canceled
  <2>1. holder[c] # Free
    BY <1>1, HeldIfCalling DEF IInv, CallKinds
  <2> QED
    BY <1>1, <1>4, <2>1, JobsKnown, LostStep
<1> QED
  BY <1>2, <1>3, <1>4 DEF CancelReturns

-----------------------------------------------------------------------------
(* dispatch_due() *)

LEMMA DispatchStep ==
  ASSUME IInv, Dispatch
  PROVE  IInv'
<1>1. /\ batch' = {c \in Callbacks : Due(c)}
      /\ UNCHANGED <<now, service, holder, sweep, ended, optedOut, provider, rejected, canceled>>
  BY DEF Dispatch
<1>2. TypeOK'
  BY <1>1 DEF IInv, TypeOK, service, provider
<1> QED
  BY <1>1, <1>2, Untouched

LEMMA DispatchOneStep ==
  ASSUME IInv, NEW c \in Callbacks, DispatchOne(c)
  PROVE  IInv'
<1>1. /\ Idle(c) /\ holder[c] = Free /\ TypeOK /\ Local(c)
      /\ UNCHANGED <<now, sweep, ended, optedOut, provider, rejected, canceled>>
  BY DEF DispatchOne, Idle, IInv
<1>2. StillDue(c) => records[c].status = "scheduled"
  BY DEF StillDue, Due
<1>3. CASE batch' = batch \ {c} /\ UNCHANGED <<service, holder>>
  <2>1. TypeOK'
    BY <1>1, <1>3 DEF TypeOK, service, provider
  <2> QED
    BY <1>1, <1>3, <2>1, Untouched
<1>4. CASE /\ StillDue(c) /\ OwnerOf[c] \in optedOut
           /\ records' = Status(c, "blocked")
           /\ batch' = batch \ {c}
           /\ UNCHANGED <<results, pending, cancelKey, sweepKey, failed, incarnation, attempts,
                          sequence, holder>>
  <2>1. records[c] # NoRecord /\ "blocked" \in RecordKinds
    BY <1>2, <1>4, LiveFacts DEF Live, RecordKinds
  <2>2. records' \in [Callbacks -> {NoRecord} \cup Recorded]
    BY <1>1, <1>4, <2>1, StatusTyped
  <2>3. TypeOK'
    BY <1>1, <1>4, <2>2 DEF TypeOK, provider
  <2> QED
    BY <1>1, <1>2, <1>4, <2>3, StatusStep
<1>5. CASE /\ StillDue(c) /\ OwnerOf[c] \notin optedOut
           /\ Calls(c, "dial", DialKey(records[c].key), records[c].key)
           /\ UNCHANGED <<service, batch>>
  <2> DEFINE k == records[c].key
             key == DialKey(k)
  <2>1. /\ records[c].status = "scheduled" /\ k \in KeysOf(c) /\ k \in Keys
        /\ k \in Keys \cup CancelKeys /\ CallbackFor(k) = c
        /\ ended[OwnerOf[c]] # "closed"
    BY <1>2, <1>5, LiveFacts, RequestFacts DEF Live, KeysOf
  <2>2. /\ key \in SentKeys /\ CallbackOf(key) = c
    BY <2>1, KeyKinds
  <2>3. /\ holder' \in [Callbacks -> {Free} \cup CallMade]
        /\ holder'[c] # Free /\ holder'[c].call = "dial" /\ holder'[c].key = key
        /\ holder'[c].for = k /\ \A d \in Callbacks \ {c} : holder'[d] = holder[d]
    BY <1>1, <1>5, <2>1, <2>2, CallTyped DEF CallKinds
  <2>4. HolderRight(c)'
    <3>1. /\ records'[c].status = "scheduled" /\ holder'[c].key = DialKey(records'[c].key)
          /\ CallbackOf(holder'[c].key) = c /\ holder'[c].call = "dial"
      BY <1>5, <2>1, <2>2, <2>3 DEF service
    <3> QED
      BY <3>1 DEF HolderRight
  <2>5. /\ armed' \in [Callbacks -> Jobs] /\ faults' \in 0..MaxFaults /\ acted' \subseteq SentKeys
        /\ batch' \subseteq Callbacks
    BY <1>1, <1>5 DEF TypeOK, provider
  <2> QED
    BY <1>1, <1>5, <2>1, <2>3, <2>4, <2>5, LockStep DEF SweepCalls
<1> QED
  BY <1>3, <1>4, <1>5 DEF DispatchOne

LEMMA DialReturnsStep ==
  ASSUME IInv, NEW c \in Callbacks, DialReturns(c)
  PROVE  IInv'
<1>1. /\ holder[c].call = "dial" /\ Releases(c) /\ TypeOK /\ Local(c)
      /\ UNCHANGED <<now, results, pending, cancelKey, sweepKey, failed, incarnation, attempts,
                 sequence, sweep, ended, optedOut, armed, rejected, canceled>>
  BY DEF DialReturns, IInv
<1>2. holder[c] # Free /\ records[c].status = "scheduled" /\ holder[c].key \in SentKeys
  BY <1>1, HeldIfCalling, HeldTyped DEF CallKinds, Local, HolderRight
<1>3. /\ holder' \in [Callbacks -> {Free} \cup CallMade]
      /\ holder'[c] = Free /\ holder'[c].call = "none"
      /\ \A d \in Callbacks \ {c} : holder'[d] = holder[d]
  BY <1>1, ReleaseTyped
<1>4. CASE /\ acted' = acted \cup {holder[c].key}
           /\ records' = Status(c, "dispatched")
           /\ batch' = batch \ {c}
           /\ UNCHANGED faults
  <2>1. records[c] # NoRecord /\ "dispatched" \in RecordKinds
    BY <1>2, LiveFacts DEF Live, RecordKinds
  <2>2. records' \in [Callbacks -> {NoRecord} \cup Recorded]
    BY <1>1, <1>4, <2>1, StatusTyped
  <2>3. TypeOK'
    BY <1>1, <1>2, <1>3, <1>4, <2>2 DEF TypeOK
  <2> QED
    BY <1>1, <1>2, <1>3, <1>4, <2>3, StatusStep
<1>5. CASE /\ Faulty
           /\ acted' \in {acted, acted \cup {holder[c].key}}
           /\ batch' = {}
           /\ UNCHANGED records
  <2>1. acted' \subseteq SentKeys /\ armed' \in [Callbacks -> Jobs] /\ batch' \subseteq Callbacks
    BY <1>1, <1>2, <1>5 DEF TypeOK
  <2>2. faults' \in 0..MaxFaults
    BY <1>1, <1>5, BoundsAssumption DEF TypeOK, Faulty
  <2>3. HolderRight(c)'
    BY <1>3 DEF HolderRight
  <2> QED
    BY <1>1, <1>3, <1>5, <2>1, <2>2, <2>3, LockStep DEF SweepCalls, service
<1> QED
  BY <1>4, <1>5 DEF DialReturns

-----------------------------------------------------------------------------
(* remove_by_prefix(): the schedules of unknown outcome *)

LEMMA PendingOf ==
  /\ \A c \in Callbacks : PendingKeys(c) = {k \in KeysOf(c) : pending[k] # 0}
  /\ \A s \in Owners : \A c \in Of(s) : c \in Callbacks /\ OwnerOf[c] = s
BY DEF PendingKeys, KeysOf, Of

LEMMA BeginSweepStep ==
  ASSUME IInv, NEW s \in Owners, BeginSweep(s)
  PROVE  IInv'
<1>1. PICK left : left = UNION {PendingKeys(c) : c \in Of(s)}
  OBVIOUS
<1>2. /\ ended[s] # "closed" /\ sweep[s] = NoSweep /\ TypeOK
      /\ ended' = [ended EXCEPT ![s] = "closing"]
      /\ sweep' = [sweep EXCEPT ![s] = [stage |-> "pending", left |-> left]]
      /\ UNCHANGED <<now, service, holder, batch, optedOut, provider, rejected, canceled>>
  BY <1>1 DEF BeginSweep, IInv
<1>3. left \subseteq Keys /\ \A k \in left : OwnerOf[RequestOf(k).callback] = s
  BY <1>1, PendingOf DEF KeysOf
<1>4. PICK new : new = [stage |-> "pending", left |-> left]
  OBVIOUS
<1>5. new \in Sweeps /\ new.stage = "pending" /\ new.left = left
  BY <1>3, <1>4 DEF Sweeps
<1>6. /\ sweep' \in [Owners -> Sweeps] /\ sweep'[s] = new
      /\ \A t \in Owners \ {s} : sweep'[t] = sweep[t] /\ ended'[t] = ended[t]
      /\ ended' \in [Owners -> {"open", "closing", "closed"}] /\ ended'[s] = "closing"
  BY <1>2, <1>4, <1>5 DEF TypeOK
<1>7. TypeOK'
  BY <1>2, <1>6 DEF TypeOK, service, provider
<1>8. SweepsOwn' /\ OneSweepCall'
  BY <1>2, <1>3, <1>5, <1>6 DEF IInv, SweepsOwn, OneSweepCall, Of, RequestOf
<1>9. ASSUME NEW c \in Callbacks PROVE Local(c)'
  <2>1. Local(c) /\ OwnerOf[c] \in Owners /\ sweep[s].stage = "none"
    BY <1>2, OwnersAssumption DEF IInv, NoSweep
  <2>2. /\ ended[OwnerOf[c]] = "closed" <=> ended'[OwnerOf[c]] = "closed"
        /\ ended[OwnerOf[c]] # "open" => ended'[OwnerOf[c]] # "open"
    BY <1>2, <1>6, <2>1
  <2>3. RecordRight(c)' /\ PendingRight(c)' /\ CanceledRight(c)'
    BY <1>2, <2>1, <2>2 DEF Local, RecordRight, PendingRight, CanceledRight, CanceledOf, KeysOf,
                           RequestOf, service
  <2>4. CancelKeyRight(c)' /\ SweepKeyRight(c)'
    BY <1>2, <2>1 DEF Local, CancelKeyRight, SweepKeyRight, Spent, RefusedOf, KeysOf, RequestOf,
                     service
  <2>5. RefusedRight(c)' /\ SpentRight(c)'
    BY <1>2, <2>1, <2>2 DEF Local, RefusedRight, SpentRight, Spent, RefusedOf, FailedOf, Alive,
                           KeysOf, RequestOf, service
  <2>6. HolderRight(c)'
    <3>1. CASE OwnerOf[c] = s
      BY <1>2, <2>1, <3>1 DEF Local, HolderRight, RequestOf, KeysOf, service
    <3>2. CASE OwnerOf[c] # s
      BY <1>2, <1>6, <2>1, <3>2 DEF Local, HolderRight, Spent, RefusedOf, KeysOf, RequestOf, service
    <3> QED
      BY <3>1, <3>2
  <2>7. SweepRight(c)'
    <3>1. CASE OwnerOf[c] = s
      <4>1. \A k \in KeysOf(c) : pending[k] # 0 => k \in left
        <5>1. c \in Of(s)
          BY <3>1 DEF Of
        <5> QED
          BY <1>1, <5>1, PendingOf
      <4>2. KeysOf(c)' = KeysOf(c) /\ pending' = pending
        BY <1>2 DEF KeysOf, RequestOf, service
      <4> QED
        BY <1>5, <1>6, <2>1, <3>1, <4>1, <4>2 DEF SweepRight
    <3>2. CASE OwnerOf[c] # s
      BY <1>2, <1>6, <2>1, <3>2 DEF Local, SweepRight, FailedOf, KeysOf, RequestOf, service
    <3> QED
      BY <3>1, <3>2
  <2> QED
    BY <2>3, <2>4, <2>5, <2>6, <2>7 DEF Local
<1> QED
  BY <1>7, <1>8, <1>9 DEF IInv

\* A sweep steps past an entry that is gone.
LEMMA PassedStep ==
  ASSUME IInv, NEW s \in Owners, NEW k \in Keys, sweep[s].stage = "pending", pending[k] = 0,
         RequestOf(k).callback \in Of(s), Sweepable(s), Reached(s, k),
         UNCHANGED <<service, holder>>,
         UNCHANGED <<now, batch, ended, optedOut, provider, rejected, canceled>>
  PROVE  IInv'
<1>1. TypeOK
  BY DEF IInv
<1>2. /\ sweep' \in [Owners -> Sweeps] /\ SweepsOwn'
      /\ sweep'[s].stage = "pending" /\ sweep'[s].left = sweep[s].left \ {k}
      /\ \A t \in Owners \ {s} : sweep'[t] = sweep[t]
  BY ReachedMoves
<1>3. TypeOK'
  BY <1>1, <1>2 DEF TypeOK, service, provider
<1>4. OneSweepCall'
  BY DEF IInv, OneSweepCall
<1>5. ASSUME NEW c \in Callbacks PROVE Local(c)'
  <2>1. Local(c) /\ OwnerOf[c] \in Owners
    BY OwnersAssumption DEF IInv
  <2>2. RecordRight(c)' /\ PendingRight(c)' /\ CanceledRight(c)'
    BY <2>1 DEF Local, RecordRight, PendingRight, CanceledRight, CanceledOf, KeysOf, RequestOf, service
  <2>3. CancelKeyRight(c)' /\ SweepKeyRight(c)'
    BY <2>1 DEF Local, CancelKeyRight, SweepKeyRight, Spent, RefusedOf, KeysOf, RequestOf, service
  <2>4. RefusedRight(c)' /\ SpentRight(c)'
    BY <2>1 DEF Local, RefusedRight, SpentRight, Spent, RefusedOf, FailedOf, Alive, KeysOf, RequestOf,
                service
  <2>5. HolderRight(c)'
    <3>1. CASE OwnerOf[c] = s
      <4>1. holder[c].call \notin SweepCalls
        BY <3>1 DEF Sweepable, Of
      <4> QED
        BY <2>1, <4>1 DEF Local, HolderRight, SweepCalls, KeysOf, RequestOf, service
    <3>2. CASE OwnerOf[c] # s
      BY <1>2, <2>1, <3>2 DEF Local, HolderRight, Spent, RefusedOf, KeysOf, RequestOf, service
    <3> QED
      BY <3>1, <3>2
  <2>6. SweepRight(c)'
    <3>1. KeysOf(c)' = KeysOf(c) /\ FailedOf(c)' = FailedOf(c) /\ pending' = pending /\ records' = records
      BY DEF KeysOf, RequestOf, FailedOf, CallbackOf, CallbackFor, service
    <3>2. CASE OwnerOf[c] = s
      BY <1>2, <2>1, <3>1, <3>2 DEF Local, SweepRight
    <3>3. CASE OwnerOf[c] # s
      BY <1>2, <2>1, <3>1, <3>3 DEF Local, SweepRight
    <3> QED
      BY <3>2, <3>3
  <2> QED
    BY <2>2, <2>3, <2>4, <2>5, <2>6 DEF Local
<1> QED
  BY <1>2, <1>3, <1>4, <1>5 DEF IInv

\* No key minted for an incarnation that is alive has been refused beyond its
\* attempts: the next one is fresh.
LEMMA NextKeyFresh ==
  ASSUME IInv, NEW c \in Callbacks, NEW i \in 1..sequence, Alive(c, i)
  PROVE  /\ NextCleanupKey(c, i) = CleanupKey(c, i, Spent(c, i) + 1) /\ Spent(c, i) \in Nat
         /\ NextCleanupKey(c, i) \notin RefusedOf(c) /\ NextCleanupKey(c, i) \in SentKeys
         /\ CallbackOf(NextCleanupKey(c, i)) = c /\ NextCleanupKey(c, i) # NoKey
<1>1. TypeOK /\ RefusedRight(c) /\ i \in Nat
  BY DEF IInv, Local, TypeOK
<1>2. Spent(c, i) \in Nat /\ NextCleanupKey(c, i) = CleanupKey(c, i, Spent(c, i) + 1)
  BY <1>1, SpentFacts DEF NextCleanupKey
<1>3. PICK n \in Nat : n = Spent(c, i) + 1
  BY <1>2
<1>4. /\ CleanupKey(c, i, n)[1] = "cleanup" /\ CleanupKey(c, i, n)[3] = i
      /\ CleanupKey(c, i, n)[4] = n /\ CallbackOf(CleanupKey(c, i, n)) = c
      /\ CleanupKey(c, i, n) # NoKey /\ CleanupKey(c, i, n) \in SentKeys
  <2>1. i \in Nat
    BY <1>1
  <2> QED
    BY ONLY <2>1, KeyKinds, c \in Callbacks, n \in Nat
<1>5. CleanupKey(c, i, n) \notin RefusedOf(c)
  <2>1. SUFFICES ASSUME CleanupKey(c, i, n) \in RefusedOf(c) PROVE FALSE
    OBVIOUS
  <2>2. n =< Spent(c, i)
    BY <1>1, <1>4, <2>1 DEF RefusedRight
  <2> QED
    BY <1>2, <1>3, <2>2
<1> QED
  BY <1>2, <1>3, <1>4, <1>5

\* A key is minted for a schedule of unknown outcome.
LEMMA UnscheduleStep ==
  ASSUME IInv, NEW c \in Callbacks, NEW k \in KeysOf(c), pending[k] # 0,
         sweep[OwnerOf[c]].stage = "pending", k \in sweep[OwnerOf[c]].left,
         Sweepable(OwnerOf[c]), Idle(c), sweepKey[k] = NoKey,
         MintCleanupKey(c, pending[k]),
         sweepKey' = [sweepKey EXCEPT ![k] = NextCleanupKey(c, pending[k])],
         Calls(c, "unschedule", NextCleanupKey(c, pending[k]), k),
         UNCHANGED <<records, results, pending, cancelKey, failed, incarnation, sequence, sweep>>,
         UNCHANGED <<now, batch, ended, optedOut, provider, rejected, canceled>>
  PROVE  IInv'
<1> DEFINE s == OwnerOf[c]
<1>i. PICK i : i = pending[k]
  OBVIOUS
<1>1. /\ TypeOK /\ Local(c) /\ k \in Keys /\ i \in 1..sequence /\ Alive(c, i) /\ i \in Nat
  <2>1. k \in Keys /\ TypeOK /\ Local(c)
    BY DEF KeysOf, IInv
  <2>2. pending[k] \in 0..sequence /\ sequence \in Nat
    BY <2>1 DEF TypeOK
  <2> QED
    BY <1>i, <2>1, <2>2 DEF Alive
<1>key. PICK key : key = NextCleanupKey(c, i)
  OBVIOUS
<1>2. /\ key = CleanupKey(c, i, Spent(c, i) + 1) /\ Spent(c, i) \in Nat
      /\ key \notin RefusedOf(c) /\ key \in SentKeys /\ CallbackOf(key) = c /\ key # NoKey
  BY <1>1, <1>key, NextKeyFresh
<1>3. /\ DOMAIN attempts' \subseteq Callbacks \X (1..sequence)
      /\ \A a \in DOMAIN attempts' : attempts'[a] \in Nat \ {0}
      /\ \A d \in Callbacks, j \in Nat :
           Spent(d, j)' = IF d = c /\ j = i THEN Spent(c, i) + 1 ELSE Spent(d, j)
  BY <1>i, <1>1, MintSpent
<1>4. /\ holder' \in [Callbacks -> {Free} \cup CallMade]
      /\ holder'[c] # Free /\ holder'[c].call = "unschedule" /\ holder'[c].key = key
      /\ holder'[c].for = k /\ \A d \in Callbacks \ {c} : holder'[d] = holder[d]
  BY <1>i, <1>1, <1>2, <1>key, CallTyped DEF CallKinds, SweepCalls
<1>5. /\ ended[s] = "closing" /\ holder[c] = Free
      /\ \A q \in KeysOf(c) : q # k => pending[q] = 0 /\ sweepKey[q] = NoKey
  <2>1. \A q \in KeysOf(c) : q # k => pending[q] = 0
    BY <1>1 DEF Local, PendingRight
  <2> QED
    BY <1>1, <2>1 DEF Local, SweepRight, SweepKeyRight, Idle
<1> HIDE DEF s
<1>6. /\ sweepKey' \in [Keys -> SentKeys \cup {NoKey}] /\ sweepKey'[k] = key
      /\ \A q \in Keys : q # k => sweepKey'[q] = sweepKey[q]
  <2>1. sweepKey' = [sweepKey EXCEPT ![k] = key]
    BY <1>i, <1>key
  <2> QED
    BY <1>1, <1>2, <2>1 DEF TypeOK
<1>7. TypeOK'
  BY <1>1, <1>3, <1>4, <1>6 DEF TypeOK, provider
<1>8. SweepsOwn'
  BY DEF IInv, SweepsOwn, Of, RequestOf
<1>9. OneSweepCall'
  BY <1>4, OneSweepKept
<1>10. Frame(c)
  <2>1. sequence' >= sequence /\ SweepKept(c)
    BY <1>1 DEF TypeOK, SweepKept
  <2>2. \A d \in Callbacks \ {c} : \A j \in Nat : Spent(d, j)' = Spent(d, j)
    BY <1>3
  <2>3. \A q \in Keys \ KeysOf(c) : sweepKey'[q] = sweepKey[q]
    BY <1>6
  <2> QED
    BY <1>4, <1>7, <2>1, <2>2, <2>3, FrameHolds
<1>11. KeysOf(c)' = KeysOf(c) /\ KeysOf(c) \subseteq Keys
  BY DEF KeysOf, RequestOf
<1>12. RefusedOf(c)' = RefusedOf(c) /\ FailedOf(c)' = FailedOf(c) /\ CanceledOf(c)' = CanceledOf(c)
  BY DEF RefusedOf, FailedOf, CanceledOf, RequestOf, CallbackOf, CallbackFor
<1>13. \A j \in Nat : /\ Spent(c, j) \in Nat /\ Spent(c, j)' \in Nat /\ Spent(c, j)' >= Spent(c, j)
                      /\ j # i => Spent(c, j)' = Spent(c, j)
  <2>1. \A j \in Nat : Spent(c, j) \in Nat
    BY <1>1, SpentFacts
  <2> QED
    BY <1>2, <1>3, <2>1
<1>14. \A j : Alive(c, j)' <=> Alive(c, j)
  BY <1>11 DEF Alive
<1>15. RecordRight(c)' /\ PendingRight(c)' /\ CanceledRight(c)'
  BY <1>1, <1>11, <1>12 DEF Local, RecordRight, PendingRight, CanceledRight, RequestOf
<1>16. CancelKeyRight(c)'
  <2>1. incarnation[c] \in Nat
    BY <1>1 DEF TypeOK
  <2> QED
    BY <1>1, <1>12, <1>13, <2>1 DEF Local, CancelKeyRight, CallbackFor, ClientKey, CleanupKey
<1>17. SweepKeyRight(c)'
  <2>1. \E n \in 1..Spent(c, i)' : key = CleanupKey(c, i, n)
    BY <1>1, <1>2, <1>3
  <2>2. /\ \A q \in KeysOf(c) : sweepKey'[q] # NoKey => q = k
        /\ sweepKey'[k] = key /\ pending'[k] = i /\ i # 0
    BY <1>i, <1>1, <1>5, <1>6, <1>11
  <2> QED
    BY <1>2, <1>11, <1>12, <2>1, <2>2 DEF SweepKeyRight, CleanupKey
<1>18. RefusedRight(c)'
  <2>1. \A j \in 1..sequence : j \in Nat
    BY <1>1 DEF TypeOK
  <2>2. ASSUME NEW x \in RefusedOf(c), x[1] = "cleanup", Alive(c, x[3])
        PROVE  x[4] =< Spent(c, x[3])'
    <3>1. x[3] \in Nat /\ x[4] =< Spent(c, x[3])
      BY <1>1, <2>1, <2>2 DEF Local, RefusedRight
    <3>2. x[4] \in Nat
      <4>1. x \in SentKeys /\ x \in {"cleanup"} \X Callbacks \X Nat \X Nat
        BY <1>1, <2>2 DEF RefusedOf, TypeOK, SentKeys
      <4> QED
        BY <4>1
    <3> QED
      BY <1>13, <3>1, <3>2
  <2> QED
    BY <1>1, <1>12, <1>14, <2>2 DEF Local, RefusedRight
<1>19. SpentRight(c)'
  <2>1. ended'[s] = "closing" /\ Alive(c, i)' /\ \A j \in 1..sequence : j \in Nat
    BY <1>1, <1>5, <1>14 DEF TypeOK, s
  <2> QED
    BY <1>1, <1>4, <1>13, <1>14, <2>1 DEF Local, SpentRight, s
<1>20. HolderRight(c)' /\ SweepRight(c)'
  <2>1. SweepRight(c)'
    BY <1>1, <1>5, <1>11, <1>12 DEF Local, SweepRight, s
  <2>2. CallbackOf(holder'[c].key) = c /\ sweepKey'[k] = holder'[c].key
    BY <1>2, <1>4, <1>6
  <2> QED
    BY <1>4, <1>11, <2>1, <2>2 DEF HolderRight, SweepCalls
<1> QED
  BY <1>7, <1>8, <1>9, <1>10, <1>15, <1>16, <1>17, <1>18, <1>19, <1>20, StepRight DEF Local

LEMMA RemovePendingStep ==
  ASSUME IInv, NEW s \in Owners, NEW k \in Keys, RemovePending(s, k)
  PROVE  IInv'
<1>1. PICK c : c = RequestOf(k).callback
  OBVIOUS
<1>2. /\ sweep[s].stage = "pending" /\ k \in sweep[s].left
      /\ Sweepable(s) /\ Idle(c) /\ TypeOK
      /\ UNCHANGED <<now, batch, ended, optedOut, provider, rejected, canceled>>
  BY <1>1 DEF RemovePending, IInv
<1>3. c \in Callbacks /\ OwnerOf[c] = s /\ k \in KeysOf(c) /\ c \in Of(s) /\ Local(c)
  BY <1>1, <1>2, RequestFacts DEF IInv, SweepsOwn, Of
<1>4. CASE pending[k] = 0 /\ Reached(s, k) /\ UNCHANGED <<service, holder>>
  BY <1>1, <1>2, <1>3, <1>4, PassedStep
<1>5. CASE /\ pending[k] # 0 /\ sweepKey[k] # NoKey
           /\ Calls(c, "unschedule", sweepKey[k], k)
           /\ UNCHANGED <<service, sweep>>
  <2>1. sweepKey[k] \in SentKeys /\ CallbackOf(sweepKey[k]) = c
    <3>1. \E n : sweepKey[k] = CleanupKey(c, pending[k], n)
      BY <1>3, <1>5 DEF Local, SweepKeyRight
    <3> QED
      BY <1>2, <1>5, <3>1, KeyKinds DEF TypeOK
  <2>2. PICK key \in SentKeys : key = sweepKey[k]
    BY <2>1
  <2>3. /\ holder' \in [Callbacks -> {Free} \cup CallMade]
        /\ holder'[c] # Free /\ holder'[c].call = "unschedule" /\ holder'[c].key = key
        /\ holder'[c].for = k /\ \A d \in Callbacks \ {c} : holder'[d] = holder[d]
    BY <1>2, <1>3, <1>5, <2>2, CallTyped DEF CallKinds, SweepCalls
  <2>4. HolderRight(c)'
    <3>1. /\ CallbackOf(holder'[c].key) = c /\ sweepKey'[k] = holder'[c].key /\ pending'[k] # 0
          /\ KeysOf(c)' = KeysOf(c) /\ sweep' = sweep
      BY <1>5, <2>1, <2>2, <2>3 DEF KeysOf, RequestOf, service
    <3> QED
      BY <1>2, <1>3, <2>3, <3>1 DEF HolderRight
  <2>5. /\ armed' \in [Callbacks -> Jobs] /\ faults' \in 0..MaxFaults /\ acted' \subseteq SentKeys
        /\ batch' \subseteq Callbacks
    BY <1>2 DEF TypeOK, provider
  <2>6. ended[s] # "closed"
    BY <1>2, <1>3 DEF Local, SweepRight
  <2> QED
    BY <1>2, <1>3, <1>5, <2>3, <2>4, <2>5, <2>6, LockStep
<1>6. CASE /\ pending[k] # 0 /\ sweepKey[k] = NoKey
           /\ MintCleanupKey(c, pending[k])
           /\ sweepKey' = [sweepKey EXCEPT ![k] = NextCleanupKey(c, pending[k])]
           /\ Calls(c, "unschedule", NextCleanupKey(c, pending[k]), k)
           /\ UNCHANGED <<records, results, pending, cancelKey, failed, incarnation, sequence,
                          sweep>>
  BY <1>2, <1>3, <1>6, UnscheduleStep
<1> QED
  BY <1>1, <1>4, <1>5, <1>6 DEF RemovePending

\* A sweep that meets an error ends, with its lock given back.
LEMMA AbortStep ==
  ASSUME IInv, NEW c \in Callbacks, holder[c].call \in SweepCalls, Releases(c), Aborts(OwnerOf[c]),
         \/ Lost(c, 0)
         \/ Refused(c) /\ holder[c].call = "forget",
         UNCHANGED <<now, service, batch, ended, optedOut, canceled>>
  PROVE  IInv'
<1> DEFINE s == OwnerOf[c]
<1>1. /\ TypeOK /\ Local(c) /\ holder[c] # Free /\ sweep[s].stage # "none"
  BY HeldIfCalling DEF IInv, CallKinds, SweepCalls, Local, HolderRight
<1>2. /\ holder' \in [Callbacks -> {Free} \cup CallMade]
      /\ holder'[c] = Free /\ holder'[c].call = "none"
      /\ \A d \in Callbacks \ {c} : holder'[d] = holder[d]
  BY <1>1, ReleaseTyped
<1>3. /\ armed' \in [Callbacks -> Jobs] /\ acted' \subseteq SentKeys /\ faults' \in 0..MaxFaults
      /\ rejected' \subseteq SentKeys
      /\ \/ rejected' = rejected
         \/ rejected' = rejected \cup {holder[c].key} /\ holder[c].call = "forget"
  BY <1>1, JobsKnown, ProviderTyped DEF TypeOK
<1>4. /\ sweep' \in [Owners -> Sweeps] /\ SweepsOwn' /\ SweepKept(c) /\ sweep'[s].stage = "none"
  <2>1. s \in Owners
    BY OwnersAssumption
  <2> QED
    BY <1>1, <2>1, SweepMoved, AbortsMoves
<1>5. UNCHANGED <<records, results, pending, cancelKey, sweepKey, failed, incarnation, attempts,
                  sequence>>
  BY DEF service
<1>6. TypeOK'
  BY <1>1, <1>2, <1>3, <1>4, <1>5 DEF TypeOK
<1>7. CallbackOf(holder[c].key) = c
  BY <1>1 DEF Local, HolderRight
<1>8. \A d \in Callbacks, i \in Nat : Spent(d, i)' = Spent(d, i)
  BY <1>5 DEF Spent
<1>9. OneSweepCall'
  BY <1>2, OneSweepKept DEF SweepCalls
<1>10. Frame(c)
  <2>1. sequence' >= sequence
    BY <1>1, <1>5 DEF TypeOK
  <2> QED
    BY <1>2, <1>3, <1>4, <1>5, <1>6, <1>7, <1>8, <2>1, FrameHolds
<1>11. RecordRight(c)' /\ PendingRight(c)' /\ CanceledRight(c)' /\ SpentRight(c)'
  BY <1>1, <1>2, <1>5 DEF Local, RecordRight, PendingRight, CanceledRight, CanceledOf, KeysOf, RequestOf,
                         SpentRight, Spent, Alive
<1>12. HolderRight(c)' /\ SweepRight(c)'
  BY <1>1, <1>2, <1>4, <1>5 DEF Local, HolderRight, SweepRight, FailedOf, KeysOf, RequestOf
<1>13. CancelKeyRight(c)' /\ SweepKeyRight(c)' /\ RefusedRight(c)'
  <2>1. CASE rejected' = rejected
    BY <1>1, <1>5, <2>1 DEF Local, CancelKeyRight, SweepKeyRight, RefusedRight, Spent, RefusedOf,
                            FailedOf, Alive, KeysOf, RequestOf
  <2>2. CASE rejected' = rejected \cup {holder[c].key} /\ holder[c].call = "forget"
    <3>1. /\ records[c].status = "dispatched" /\ sweep[s].stage = "records"
          /\ holder[c].key = CleanupKey(c, incarnation[c], Spent(c, incarnation[c]))
      BY <1>1, <2>2 DEF Local, HolderRight
    <3>2. incarnation[c] \in 1..sequence /\ incarnation[c] \in Nat
      <4>1. incarnation[c] \in 0..sequence /\ sequence \in Nat
        BY <1>1 DEF TypeOK
      <4>2. incarnation[c] # 0
        BY <1>1, <3>1 DEF Local, RecordRight, Asked
      <4> QED
        BY <4>1, <4>2
    <3>key. PICK key : key = holder[c].key
      OBVIOUS
    <3>3. PICK n \in Nat : n = Spent(c, incarnation[c])
      BY <1>1, <3>2, SpentFacts
    <3>4. key[1] = "cleanup" /\ key[3] = incarnation[c] /\ key[4] = n
      BY <3>1, <3>3, <3>key, KeyKinds
    <3>5. \A x \in RefusedOf(c)' : x \in RefusedOf(c) \/ x = key
      BY <2>2, <3>key DEF RefusedOf, CallbackOf, CallbackFor
    <3>6. CancelKeyRight(c)'
      BY <1>1, <1>5, <3>1 DEF Local, CancelKeyRight, Spent
    <3>7. SweepKeyRight(c)'
      <4>1. \A k \in KeysOf(c) : sweepKey[k] = NoKey
        BY <1>1, <3>1 DEF Local, SweepRight, SweepKeyRight
      <4> QED
        BY <1>5, <4>1 DEF SweepKeyRight, KeysOf, RequestOf
    <3>8. RefusedRight(c)'
      <4>1. \A i : Alive(c, i)' <=> Alive(c, i)
        BY <1>5 DEF Alive, KeysOf, RequestOf
      <4>2. \A i : Spent(c, i)' = Spent(c, i)
        BY <1>5 DEF Spent
      <4>3. FailedOf(c)' = FailedOf(c) /\ RefusedRight(c)
        BY <1>1, <1>5 DEF FailedOf, CallbackOf, CallbackFor, Local
      <4>4. key[1] # "client" /\ key[4] =< Spent(c, key[3])
        BY <3>3, <3>4
      <4>5. ASSUME NEW x \in RefusedOf(c)'
            PROVE  /\ x[1] = "cleanup" => /\ x[3] \in 1..sequence'
                                          /\ Alive(c, x[3])' => x[4] =< Spent(c, x[3])'
                   /\ x[1] = "client" /\ x[2] \in CancelKeys =>
                        ended'[OwnerOf[c]] # "open" \/ x \in FailedOf(c)'
        <5>1. CASE x = key
          BY <1>5, <3>2, <3>4, <4>1, <4>2, <4>4, <5>1
        <5>2. CASE x \in RefusedOf(c)
          BY <1>5, <4>1, <4>2, <4>3, <5>2 DEF RefusedRight
        <5> QED
          BY <3>5, <5>1, <5>2
      <4> QED
        BY <4>5 DEF RefusedRight
    <3> QED
      BY <3>6, <3>7, <3>8
  <2> QED
    BY <1>3, <2>1, <2>2
<1> QED
  BY <1>4, <1>6, <1>9, <1>10, <1>11, <1>12, <1>13, StepRight DEF Local

LEMMA UnscheduleReturnsStep ==
  ASSUME IInv, NEW c \in Callbacks, UnscheduleReturns(c)
  PROVE  IInv'
<1> DEFINE s == OwnerOf[c]
<1>k. PICK k : k = holder[c].for
  OBVIOUS
<1>i. PICK i : i = pending[k]
  OBVIOUS
<1>key. PICK key : key = holder[c].key
  OBVIOUS
<1>1. /\ holder[c].call = "unschedule" /\ Releases(c) /\ TypeOK /\ Local(c)
      /\ UNCHANGED <<now, records, results, cancelKey, incarnation, sequence, batch, ended,
                     optedOut, canceled>>
  BY DEF UnscheduleReturns, IInv
<1>2. /\ holder[c] # Free /\ key \in SentKeys /\ CallbackOf(key) = c
      /\ k \in KeysOf(c) /\ k \in Keys /\ i # 0 /\ i \in 1..sequence /\ i \in Nat /\ sweepKey[k] = key
      /\ sweep[s].stage = "pending" /\ k \in sweep[s].left /\ sequence \in Nat
  <2>1. /\ holder[c] # Free /\ key \in SentKeys
    BY <1>1, <1>key, HeldIfCalling, HeldTyped DEF CallKinds, SweepCalls
  <2>2. /\ CallbackOf(key) = c
        /\ k \in KeysOf(c) /\ k \in Keys /\ i # 0 /\ sweepKey[k] = key
        /\ sweep[s].stage = "pending" /\ k \in sweep[s].left
    BY <1>k, <1>i, <1>key, <1>1, <2>1 DEF Local, HolderRight, KeysOf
  <2>3. i \in 0..sequence /\ sequence \in Nat
    BY <1>i, <1>1, <2>2 DEF TypeOK
  <2> QED
    BY <2>1, <2>2, <2>3
<1>3. /\ holder' \in [Callbacks -> {Free} \cup CallMade]
      /\ holder'[c] = Free /\ holder'[c].call = "none"
      /\ \A d \in Callbacks \ {c} : holder'[d] = holder[d]
  BY <1>1, ReleaseTyped
<1>4. /\ \A q \in KeysOf(c) : q # k => pending[q] = 0 /\ sweepKey[q] = NoKey
      /\ i # incarnation[c] /\ records[c].status \notin Live /\ ended[s] = "closing"
      /\ \A q \in CanceledOf(c) : q # k
  <2>1. /\ \A q \in KeysOf(c) : q # k => pending[q] = 0
        /\ i # incarnation[c] /\ records[c].status \notin Live
    BY <1>1, <1>2, <1>i DEF Local, PendingRight
  <2>2. \A q \in KeysOf(c) : q # k => sweepKey[q] = NoKey
    BY <1>1, <2>1 DEF Local, SweepKeyRight
  <2> QED
    BY <1>1, <1>2, <1>i, <2>1, <2>2 DEF Local, SweepRight, CanceledRight
<1>5. KeysOf(c)' = KeysOf(c) /\ KeysOf(c) \subseteq Keys /\ CanceledOf(c)' = CanceledOf(c)
  BY <1>1 DEF KeysOf, RequestOf, CanceledOf
<1>6. OneSweepCall' /\ sequence' >= sequence
  BY <1>1, <1>2, <1>3, OneSweepKept DEF SweepCalls
<1>7. HolderRight(c)'
  BY <1>3 DEF HolderRight
<1>8. CASE /\ Served(c, 0)
           /\ pending' = [pending EXCEPT ![k] = 0]
           /\ sweepKey' = [sweepKey EXCEPT ![k] = NoKey]
           /\ ForgetAttempts(c, i)
           /\ Reached(s, k)
           /\ UNCHANGED failed
  <2>1. armed' \in [Callbacks -> Jobs] /\ acted' \subseteq SentKeys /\ UNCHANGED <<faults, rejected>>
    BY <1>1, <1>2, <1>8, JobsKnown, ProviderTyped
  <2>2. /\ pending' \in [Keys -> 0..sequence] /\ pending'[k] = 0
        /\ sweepKey' \in [Keys -> SentKeys \cup {NoKey}] /\ sweepKey'[k] = NoKey
        /\ \A q \in Keys : q # k => pending'[q] = pending[q] /\ sweepKey'[q] = sweepKey[q]
    BY <1>1, <1>2, <1>8 DEF TypeOK
  <2>3. /\ DOMAIN attempts' \subseteq Callbacks \X (1..sequence)
        /\ \A a \in DOMAIN attempts' : attempts'[a] \in Nat \ {0}
        /\ \A d \in Callbacks, j \in Nat :
             Spent(d, j)' = IF d = c /\ j = i THEN 0 ELSE Spent(d, j)
    BY <1>1, <1>2, <1>8, ForgetSpent
  <2>4. /\ sweep' \in [Owners -> Sweeps] /\ SweepsOwn' /\ SweepKept(c)
        /\ sweep'[s].stage = "pending" /\ sweep'[s].left = sweep[s].left \ {k}
    <3>1. s \in Owners
      BY OwnersAssumption
    <3>2. /\ sweep'[s].stage = "pending" /\ sweep'[s].left = sweep[s].left \ {k}
      BY <1>2, <1>8, <3>1, ReachedMoves
    <3> QED
      BY <1>1, <1>2, <1>8, <3>2, SweepMoved DEF SweepCalls
  <2> HIDE DEF s
  <2>5. TypeOK'
    BY <1>1, <1>3, <1>8, <2>1, <2>2, <2>3, <2>4 DEF TypeOK
  <2>6. Frame(c)
    <3>1. \A d \in Callbacks \ {c} : \A j \in Nat : Spent(d, j)' = Spent(d, j)
      BY <2>3
    <3>2. \A q \in Keys \ KeysOf(c) : pending'[q] = pending[q] /\ sweepKey'[q] = sweepKey[q]
      BY <1>2, <2>2
    <3> QED
      BY <1>1, <1>3, <1>6, <1>8, <2>1, <2>4, <2>5, <3>1, <3>2, FrameHolds
  <2>7. RefusedOf(c)' = RefusedOf(c) /\ FailedOf(c)' = FailedOf(c)
    BY <1>8, <2>1 DEF RefusedOf, FailedOf, CallbackOf, CallbackFor
  <2>8. \A j \in 1..sequence : /\ j \in Nat /\ (Alive(c, j)' => j = incarnation[c])
                               /\ j # i /\ Alive(c, j) => Alive(c, j)'
    BY <1>1, <1>2, <1>4, <1>5, <1>i, <2>2 DEF Alive
  <2>9. \A j \in Nat : j # i => Spent(c, j)' = Spent(c, j)
    BY <2>3
  <2>10. RecordRight(c)' /\ PendingRight(c)' /\ SweepKeyRight(c)'
    BY <1>1, <1>4, <1>5, <2>2 DEF Local, RecordRight, PendingRight, SweepKeyRight, RequestOf
  <2>11. CancelKeyRight(c)'
    <3>1. incarnation[c] \in Nat
      BY <1>1 DEF TypeOK
    <3> QED
      BY <1>1, <1>4, <2>7, <2>9, <3>1 DEF Local, CancelKeyRight, CallbackFor, ClientKey, CleanupKey
  <2>12. RefusedRight(c)'
    BY <1>1, <1>4, <2>7, <2>8, <2>9 DEF Local, RefusedRight, Alive
  <2>13. SpentRight(c)'
    <3>1. Spent(c, i)' = 0
      BY <1>2, <2>3
    <3> QED
      BY <1>1, <1>3, <1>4, <2>8, <2>9, <3>1 DEF Local, SpentRight
  <2>14. CanceledRight(c)'
    BY <1>1, <1>4, <1>5, <2>2 DEF Local, CanceledRight, CanceledOf, KeysOf, TypeOK
  <2>15. SweepRight(c)'
    BY <1>1, <1>2, <1>4, <1>5, <2>2, <2>4 DEF Local, SweepRight, s
  <2> QED
    BY <1>6, <1>7, <2>4, <2>5, <2>6, <2>10, <2>11, <2>12, <2>13, <2>14, <2>15, StepRight DEF Local
<1>9. CASE /\ Refused(c)
           /\ sweepKey' = [sweepKey EXCEPT ![k] = NoKey]
           /\ failed' = failed \cup {key}
           /\ Aborts(s)
           /\ UNCHANGED <<pending, attempts>>
  <2>1. /\ UNCHANGED <<armed, acted>> /\ faults' \in 0..MaxFaults
        /\ rejected' = rejected \cup {key} /\ rejected' \subseteq SentKeys
    BY <1>1, <1>2, <1>9, <1>key, JobsKnown, ProviderTyped
  <2>2. /\ sweepKey' \in [Keys -> SentKeys \cup {NoKey}] /\ sweepKey'[k] = NoKey
        /\ \A q \in Keys : q # k => sweepKey'[q] = sweepKey[q]
        /\ failed' \subseteq SentKeys
    BY <1>1, <1>2, <1>9 DEF TypeOK
  <2>3. /\ sweep' \in [Owners -> Sweeps] /\ SweepsOwn' /\ SweepKept(c) /\ sweep'[s].stage = "none"
    <3>1. s \in Owners
      BY OwnersAssumption
    <3> QED
      BY <1>1, <1>2, <1>9, <3>1, SweepMoved, AbortsMoves DEF SweepCalls
  <2> HIDE DEF s
  <2>4. TypeOK'
    BY <1>1, <1>3, <1>9, <2>1, <2>2, <2>3 DEF TypeOK
  <2>5. \A d \in Callbacks, j \in Nat : Spent(d, j)' = Spent(d, j)
    BY <1>9 DEF Spent
  <2>6. Frame(c)
    <3>1. \A q \in Keys \ KeysOf(c) : sweepKey'[q] = sweepKey[q]
      BY <1>2, <2>2
    <3> QED
      BY <1>1, <1>2, <1>3, <1>6, <1>9, <2>1, <2>3, <2>4, <2>5, <3>1, FrameHolds
  <2>7. /\ \A x \in RefusedOf(c)' : x \in RefusedOf(c) \/ x = key
        /\ FailedOf(c) \subseteq FailedOf(c)'
    BY <1>9, <2>1 DEF RefusedOf, FailedOf, CallbackOf, CallbackFor
  <2>8. \A j : Alive(c, j)' <=> Alive(c, j)
    BY <1>1, <1>5, <1>9 DEF Alive
  <2>9. RecordRight(c)' /\ PendingRight(c)' /\ CanceledRight(c)'
    BY <1>1, <1>5, <1>9 DEF Local, RecordRight, PendingRight, CanceledRight, RequestOf
  <2>10. SweepKeyRight(c)'
    BY <1>4, <1>5, <2>2 DEF SweepKeyRight
  <2>11. CancelKeyRight(c)'
    BY <1>1, <1>4, <1>9 DEF Local, CancelKeyRight, Spent, Live, CallbackFor
  <2>12. RefusedRight(c)'
    <3>1. PICK n \in Nat : n =< Spent(c, i) /\ key = CleanupKey(c, i, n)
      <4>1. Spent(c, i) \in Nat
        BY <1>1, <1>2, SpentFacts
      <4>2. key # NoKey
        <5>1. \A x \in SentKeys : x[1] \in {"client", "dispatch", "cleanup"}
          BY DEF SentKeys
        <5> QED
          BY <1>2, <5>1 DEF NoKey
      <4>3. \E n \in 1..Spent(c, i) : key = CleanupKey(c, i, n)
        BY <1>1, <1>2, <1>i, <4>2 DEF Local, SweepKeyRight
      <4> QED
        BY <4>1, <4>3
    <3>2. key[1] = "cleanup" /\ key[3] = i /\ key[4] = n
      BY <3>1, KeyKinds
    <3>3. ASSUME NEW x \in RefusedOf(c)'
          PROVE  /\ x[1] = "cleanup" => /\ x[3] \in 1..sequence'
                                        /\ Alive(c, x[3])' => x[4] =< Spent(c, x[3])'
                 /\ x[1] = "client" /\ x[2] \in CancelKeys =>
                      ended'[OwnerOf[c]] # "open" \/ x \in FailedOf(c)'
      <4>1. Spent(c, i)' = Spent(c, i)
        BY <1>2, <2>5
      <4>2. CASE x = key
        BY <1>1, <1>2, <3>1, <3>2, <4>1, <4>2
      <4>3. CASE x \in RefusedOf(c)
        BY <1>1, <1>9, <2>7, <2>8, <4>3 DEF Local, RefusedRight, Spent
      <4> QED
        BY <2>7, <4>2, <4>3
    <3> QED
      BY <3>3 DEF RefusedRight
  <2>13. SpentRight(c)'
    BY <1>1, <1>3, <1>9, <2>8 DEF Local, SpentRight, Spent
  <2>14. SweepRight(c)'
    BY <1>1, <1>4, <1>5, <1>9, <2>3 DEF Local, SweepRight, s
  <2> QED
    BY <1>6, <1>7, <2>3, <2>4, <2>6, <2>9, <2>10, <2>11, <2>12, <2>13, <2>14, StepRight DEF Local
<1>10. CASE /\ Lost(c, 0) /\ Aborts(s) /\ OutcomeUnknown(k)
            /\ UNCHANGED <<sweepKey, failed, attempts>>
  <2>1. UNCHANGED <<now, service, batch, ended, optedOut, canceled>>
    BY <1>1, <1>10 DEF OutcomeUnknown, service
  <2> QED
    BY <1>1, <1>10, <2>1, AbortStep DEF SweepCalls
<1> QED
  BY <1>k, <1>i, <1>key, <1>8, <1>9, <1>10 DEF UnscheduleReturns

-----------------------------------------------------------------------------
(* remove_by_prefix(): the records *)

LEMMA SweepRecordsStep ==
  ASSUME IInv, NEW s \in Owners, SweepRecords(s)
  PROVE  IInv'
<1>1. PICK left : left = {c \in Of(s) : records[c] # NoRecord}
  OBVIOUS
<1>2. /\ sweep[s].stage = "pending" /\ sweep[s].left = {} /\ Sweepable(s) /\ TypeOK
      /\ sweep' = [sweep EXCEPT ![s] = [stage |-> "records", left |-> left]]
      /\ UNCHANGED <<now, service, holder, batch, ended, optedOut, provider, rejected, canceled>>
  BY <1>1 DEF SweepRecords, IInv
<1>3. left \subseteq Callbacks /\ left \subseteq Of(s)
  BY <1>1 DEF Of
<1>4. PICK new : new = [stage |-> "records", left |-> left]
  OBVIOUS
<1>5. new \in Sweeps /\ new.stage = "records" /\ new.left = left
  BY <1>3, <1>4 DEF Sweeps
<1>6. /\ sweep' \in [Owners -> Sweeps] /\ sweep'[s] = new
      /\ \A t \in Owners \ {s} : sweep'[t] = sweep[t]
  BY <1>2, <1>4, <1>5 DEF TypeOK
<1>7. TypeOK'
  BY <1>2, <1>6 DEF TypeOK, service, provider
<1>8. SweepsOwn' /\ OneSweepCall'
  <2>1. OneSweepCall'
    BY <1>2 DEF IInv, OneSweepCall
  <2>2. SweepsOwn'
    <3>1. Of(s)' = Of(s)
      BY DEF Of
    <3> QED
      BY <1>3, <1>5, <1>6, <3>1 DEF IInv, SweepsOwn, Of, RequestOf
  <2> QED
    BY <2>1, <2>2
<1>9. ASSUME NEW c \in Callbacks PROVE Local(c)'
  <2>1. Local(c) /\ OwnerOf[c] \in Owners
    BY OwnersAssumption DEF IInv
  <2>2. RecordRight(c)' /\ PendingRight(c)' /\ CanceledRight(c)'
    BY <1>2, <2>1 DEF Local, RecordRight, PendingRight, CanceledRight, CanceledOf, KeysOf, RequestOf,
                     service
  <2>3. CancelKeyRight(c)' /\ SweepKeyRight(c)'
    BY <1>2, <2>1 DEF Local, CancelKeyRight, SweepKeyRight, Spent, RefusedOf, KeysOf, RequestOf,
                     service
  <2>4. RefusedRight(c)' /\ SpentRight(c)'
    BY <1>2, <2>1 DEF Local, RefusedRight, SpentRight, Spent, RefusedOf, FailedOf, Alive, KeysOf,
                     RequestOf, service
  <2>5. HolderRight(c)' /\ SweepRight(c)'
    <3>1. CASE OwnerOf[c] = s
      <4>1. holder[c].call \notin SweepCalls /\ c \in Of(s)
        BY <1>2, <3>1 DEF Sweepable, Of
      <4>2. \A k \in KeysOf(c) : pending[k] = 0
        BY <1>2, <2>1, <3>1 DEF Local, SweepRight
      <4>3. records[c] # NoRecord => c \in left
        BY <1>1, <4>1
      <4>4. HolderRight(c)'
        BY <1>2, <2>1, <4>1 DEF Local, HolderRight, SweepCalls, KeysOf, RequestOf, service
      <4>5. SweepRight(c)'
        BY <1>2, <1>5, <1>6, <2>1, <3>1, <4>2, <4>3 DEF Local, SweepRight, FailedOf, KeysOf, RequestOf,
                                                    service
      <4> QED
        BY <4>4, <4>5
    <3>2. CASE OwnerOf[c] # s
      BY <1>2, <1>6, <2>1, <3>2 DEF Local, HolderRight, SweepRight, Spent, RefusedOf, FailedOf, KeysOf,
                                   RequestOf, service
    <3> QED
      BY <3>1, <3>2
  <2> QED
    BY <2>2, <2>3, <2>4, <2>5 DEF Local
<1> QED
  BY <1>7, <1>8, <1>9 DEF IInv

\* A record is dropped, with all that was kept for it.
LEMMA DropStep ==
  ASSUME IInv, NEW c \in Callbacks,
         sweep[OwnerOf[c]].stage = "records", c \in sweep[OwnerOf[c]].left,
         records[c] # NoRecord, Drop(c), Reached(OwnerOf[c], c),
         holder[c].call \in SweepCalls \/ Sweepable(OwnerOf[c]),
         holder' \in [Callbacks -> {Free} \cup CallMade], holder'[c] = Free,
         \A d \in Callbacks \ {c} : holder'[d] = holder[d],
         armed' \in [Callbacks -> Jobs], acted' \subseteq SentKeys,
         canceled' = canceled \/ canceled' = canceled \cup {records[c].key},
         UNCHANGED <<now, batch, ended, optedOut, faults, rejected>>
  PROVE  IInv'
<1> DEFINE s == OwnerOf[c]
<1>i. PICK i : i = incarnation[c]
  OBVIOUS
<1>1. /\ TypeOK /\ Local(c) /\ i \in Nat /\ sequence \in Nat /\ ended[s] = "closing"
      /\ \A k \in KeysOf(c) : pending[k] = 0
      /\ records[c].key \in Keys /\ \A k \in KeysOf(c) : k \in Keys /\ sweepKey[k] = NoKey
  <2>1. TypeOK /\ Local(c) /\ \A k \in KeysOf(c) : k \in Keys
    BY DEF IInv, KeysOf
  <2>2. /\ ended[s] = "closing" /\ \A k \in KeysOf(c) : pending[k] = 0
    BY <2>1 DEF Local, SweepRight
  <2>3. \A k \in KeysOf(c) : sweepKey[k] = NoKey
    BY <2>1, <2>2 DEF Local, SweepKeyRight
  <2>4. i \in Nat /\ sequence \in Nat
    BY <1>i, <2>1 DEF TypeOK
  <2> QED
    BY <2>1, <2>2, <2>3, <2>4, HasRecord
<1>2. /\ records' = [records EXCEPT ![c] = NoRecord]
      /\ cancelKey' = [cancelKey EXCEPT ![c] = NoKey]
      /\ results' = [k \in Keys \cup CancelKeys |->
                       IF CallbackFor(k) = c THEN "none" ELSE results[k]]
      /\ incarnation' = [incarnation EXCEPT ![c] = 0]
      /\ ForgetAttempts(c, i)
      /\ UNCHANGED <<pending, sweepKey, failed, sequence>>
  BY <1>i DEF Drop
<1>3. /\ DOMAIN attempts' \subseteq Callbacks \X (1..sequence)
      /\ \A a \in DOMAIN attempts' : attempts'[a] \in Nat \ {0}
      /\ \A d \in Callbacks, j \in Nat :
           Spent(d, j)' = IF d = c /\ j = i THEN 0 ELSE Spent(d, j)
  BY <1>1, <1>2, ForgetSpent
<1>4. /\ records' \in [Callbacks -> {NoRecord} \cup Recorded] /\ records'[c] = NoRecord
      /\ records'[c].status = "none"
      /\ cancelKey' \in [Callbacks -> SentKeys \cup {NoKey}] /\ cancelKey'[c] = NoKey
      /\ incarnation' \in [Callbacks -> 0..sequence] /\ incarnation'[c] = 0
      /\ \A d \in Callbacks \ {c} : /\ records'[d] = records[d] /\ cancelKey'[d] = cancelKey[d]
                                    /\ incarnation'[d] = incarnation[d]
  BY <1>1, <1>2 DEF TypeOK, NoRecord
<1>5. /\ results' \in [Keys \cup CancelKeys -> {"none", "blocked", "scheduled", "canceled"}]
      /\ \A k \in Keys : CallbackFor(k) # c => results'[k] = results[k]
  BY <1>1, <1>2 DEF TypeOK
<1>6. /\ sweep' \in [Owners -> Sweeps] /\ SweepsOwn' /\ SweepKept(c)
      /\ sweep'[s].stage = "records"
  <2>1. s \in Owners
    BY OwnersAssumption
  <2>2. /\ sweep'[s].stage = "records"
    BY <2>1, ReachedMoves
  <2> QED
    BY <2>2, SweepMoved
<1> HIDE DEF s
<1>7. TypeOK'
  BY <1>1, <1>2, <1>3, <1>4, <1>5, <1>6 DEF TypeOK
<1>8. OneSweepCall'
  BY OneSweepKept DEF SweepCalls, Free
<1>9. Frame(c)
  <2>1. sequence' >= sequence
    BY <1>1, <1>2
  <2>2. \A d \in Callbacks \ {c} : \A j \in Nat : Spent(d, j)' = Spent(d, j)
    BY <1>3
  <2>3. \A q \in Keys \ KeysOf(c) : results'[q] = results[q] /\ q # records[c].key
    <3>1. \A q \in Keys \ KeysOf(c) : CallbackFor(q) # c
      BY RequestFacts DEF KeysOf
    <3>2. records[c].key \in KeysOf(c)
      BY <1>1 DEF Local, RecordRight
    <3> QED
      BY <1>5, <3>1, <3>2
  <2> QED
    BY <1>2, <1>4, <1>6, <1>7, <2>1, <2>2, <2>3, FrameHolds
<1>10. KeysOf(c)' = KeysOf(c) /\ RefusedOf(c)' = RefusedOf(c)
  BY DEF KeysOf, RequestOf, RefusedOf, CallbackOf, CallbackFor
<1>11. \A j \in 1..sequence : ~Alive(c, j)' /\ (Alive(c, j) => j = i)
  BY <1>i, <1>1, <1>2, <1>4, <1>10 DEF Alive
<1>12. RecordRight(c)' /\ PendingRight(c)' /\ SweepKeyRight(c)'
  BY <1>1, <1>2, <1>4, <1>10 DEF RecordRight, PendingRight, SweepKeyRight, Asked, Live
<1>13. CancelKeyRight(c)'
  BY <1>4 DEF CancelKeyRight
<1>14. RefusedRight(c)'
  BY <1>1, <1>2, <1>10, <1>11 DEF Local, RefusedRight, s
<1>15. SpentRight(c)'
  <2>1. \A j \in 1..sequence : j \in Nat
    BY <1>1
  <2>2. \A j \in 1..sequence : ~(Spent(c, j)' > 0)
    <3>1. ASSUME NEW j \in 1..sequence PROVE ~(Spent(c, j)' > 0)
      <4>1. CASE j = i
        <5>1. Spent(c, j)' = 0
          BY <1>1, <1>3, <4>1
        <5> QED
          BY <5>1
      <4>2. CASE j # i
        <5>1. Spent(c, j)' = Spent(c, j) /\ ~Alive(c, j)
          BY <1>3, <1>11, <2>1, <4>2
        <5> QED
          BY <1>1, <5>1 DEF Local, SpentRight
      <4> QED
        BY <4>1, <4>2
    <3> QED
      BY <3>1
  <2> QED
    BY <1>2, <2>2 DEF SpentRight
<1>16. CanceledRight(c)'
  <2>1. \A k \in CanceledOf(c)' : k \in KeysOf(c)
    BY <1>1, <1>7 DEF CanceledOf, KeysOf, RequestOf, TypeOK
  <2> QED
    BY <1>1, <1>2, <1>4, <2>1 DEF CanceledRight, Live, s
<1>17. HolderRight(c)' /\ SweepRight(c)'
  BY <1>1, <1>2, <1>4, <1>6, <1>10 DEF HolderRight, SweepRight, Free, s
<1> QED
  BY <1>6, <1>7, <1>8, <1>9, <1>12, <1>13, <1>14, <1>15, <1>16, <1>17, StepRight DEF Local

\* A cleanup key is minted for the incarnation of a record.
LEMMA MintForRecord ==
  ASSUME IInv, NEW c \in Callbacks, records[c].status \in Asked, ended[OwnerOf[c]] # "open",
         MintCleanupKey(c, incarnation[c]), UNCHANGED <<pending, incarnation, sequence, sweepKey>>,
         UNCHANGED <<ended, failed, rejected>>
  PROVE  /\ incarnation[c] \in 1..sequence /\ incarnation[c] \in Nat
         /\ DOMAIN attempts' \subseteq Callbacks \X (1..sequence)
         /\ \A a \in DOMAIN attempts' : attempts'[a] \in Nat \ {0}
         /\ \A d \in Callbacks \ {c}, j \in Nat : Spent(d, j)' = Spent(d, j)
         /\ Spent(c, incarnation[c]) \in Nat
         /\ \A j \in Nat : Spent(c, j)' = IF j = incarnation[c] THEN Spent(c, incarnation[c]) + 1
                                          ELSE Spent(c, j)
         /\ RefusedRight(c)'
<1>i. PICK i : i = incarnation[c]
  OBVIOUS
<1>1. TypeOK /\ Local(c) /\ i \in 1..sequence /\ i \in Nat /\ sequence \in Nat
  <2>1. TypeOK /\ Local(c)
    BY DEF IInv
  <2>2. i \in 0..sequence /\ sequence \in Nat /\ i # 0
    BY <1>i, <2>1 DEF TypeOK, Local, RecordRight
  <2> QED
    BY <2>1, <2>2
<1>2. /\ DOMAIN attempts' \subseteq Callbacks \X (1..sequence)
      /\ \A a \in DOMAIN attempts' : attempts'[a] \in Nat \ {0}
      /\ \A d \in Callbacks, j \in Nat :
           Spent(d, j)' = IF d = c /\ j = i THEN Spent(c, i) + 1 ELSE Spent(d, j)
  BY <1>i, <1>1, MintSpent
<1>3. \A j \in Nat : Spent(c, j) \in Nat
  BY <1>1, SpentFacts
<1>4. \A j \in Nat : Spent(c, j)' = IF j = i THEN Spent(c, i) + 1 ELSE Spent(c, j)
  BY <1>2
<1>5. \A j \in 1..sequence : j \in Nat /\ (Alive(c, j)' => Alive(c, j))
  BY <1>1 DEF Alive, KeysOf, RequestOf
<1>6. RefusedOf(c)' = RefusedOf(c)
  BY DEF RefusedOf, CallbackOf, CallbackFor
<1>7. RefusedRight(c)'
  <2>1. ASSUME NEW x \in RefusedOf(c), x[1] = "cleanup", Alive(c, x[3])
        PROVE  x[4] =< Spent(c, x[3])'
    <3>1. x[3] \in Nat /\ x[4] =< Spent(c, x[3])
      BY <1>1, <1>5, <2>1 DEF Local, RefusedRight
    <3>2. x[4] \in Nat
      <4>1. x \in {"cleanup"} \X Callbacks \X Nat \X Nat
        BY <1>1, <2>1 DEF RefusedOf, TypeOK, SentKeys
      <4> QED
        BY <4>1
    <3> QED
      BY <1>3, <1>4, <3>1, <3>2
  <2> QED
    BY <1>1, <1>5, <1>6, <2>1 DEF Local, RefusedRight
<1> QED
  BY <1>i, <1>1, <1>2, <1>3, <1>4, <1>7

\* A scheduled callback is canceled by the sweep, with a key minted for it.
LEMMA RemoveStep ==
  ASSUME IInv, NEW c \in Callbacks,
         sweep[OwnerOf[c]].stage = "records", c \in sweep[OwnerOf[c]].left,
         Sweepable(OwnerOf[c]), Idle(c),
         records[c].status \in {"scheduled", "cancellation-required"},
         MintCleanupKey(c, incarnation[c]),
         cancelKey' = [cancelKey EXCEPT ![c] = NextCleanupKey(c, incarnation[c])],
         records' = Status(c, "cancellation-pending"),
         Calls(c, "remove", NextCleanupKey(c, incarnation[c]), records[c].key),
         UNCHANGED <<results, pending, sweepKey, failed, incarnation, sequence, sweep>>,
         UNCHANGED <<now, batch, ended, optedOut, provider, rejected, canceled>>
  PROVE  IInv'
<1>i. PICK i : i = incarnation[c]
  OBVIOUS
<1>key. PICK key : key = NextCleanupKey(c, i)
  OBVIOUS
<1>1. /\ TypeOK /\ Local(c) /\ records[c].status \in Live /\ records[c].status \in Asked
      /\ ended[OwnerOf[c]] = "closing" /\ records[c] # NoRecord /\ records[c].key \in Keys
      /\ "cancellation-pending" \in RecordKinds
  <2>1. TypeOK /\ Local(c) /\ records[c].status \in Live
    BY DEF IInv, Live
  <2>2. records[c] # NoRecord /\ records[c].key \in Keys
    BY <2>1, LiveFacts DEF KeysOf
  <2> QED
    BY <2>1, <2>2 DEF Local, SweepRight, Asked, RecordKinds, Live
<1>2. /\ i \in 1..sequence /\ i \in Nat
      /\ DOMAIN attempts' \subseteq Callbacks \X (1..sequence)
      /\ \A a \in DOMAIN attempts' : attempts'[a] \in Nat \ {0}
      /\ \A d \in Callbacks \ {c}, j \in Nat : Spent(d, j)' = Spent(d, j)
      /\ Spent(c, i) \in Nat
      /\ \A j \in Nat : Spent(c, j)' = IF j = i THEN Spent(c, i) + 1 ELSE Spent(c, j)
      /\ RefusedRight(c)'
  <2>1. ended[OwnerOf[c]] # "open"
    BY <1>1
  <2> QED
    BY <1>i, <1>1, <2>1, MintForRecord
<1>3. /\ key = CleanupKey(c, i, Spent(c, i) + 1)
      /\ key \notin RefusedOf(c) /\ key \in SentKeys /\ CallbackOf(key) = c /\ key # NoKey
  <2>1. Alive(c, i)
    BY <1>i DEF Alive
  <2> QED
    BY <1>key, <1>2, <2>1, NextKeyFresh
<1>4. /\ holder' \in [Callbacks -> {Free} \cup CallMade]
      /\ holder'[c] # Free /\ holder'[c].call = "remove" /\ holder'[c].key = key
      /\ \A d \in Callbacks \ {c} : holder'[d] = holder[d]
  BY <1>i, <1>key, <1>1, <1>3, CallTyped DEF CallKinds, SweepCalls
<1>5. /\ records' \in [Callbacks -> {NoRecord} \cup Recorded]
      /\ records'[c].status = "cancellation-pending"
      /\ \A d \in Callbacks \ {c} : records'[d] = records[d]
  BY <1>1, StatusTyped
<1>6. /\ cancelKey' \in [Callbacks -> SentKeys \cup {NoKey}] /\ cancelKey'[c] = key
      /\ \A d \in Callbacks \ {c} : cancelKey'[d] = cancelKey[d]
  BY <1>i, <1>key, <1>1, <1>3 DEF TypeOK
<1>7. TypeOK'
  BY <1>1, <1>2, <1>4, <1>5, <1>6 DEF TypeOK, provider
<1>8. SweepsOwn'
  BY DEF IInv, SweepsOwn, Of, RequestOf
<1>9. OneSweepCall'
  BY <1>4, OneSweepKept
<1>10. Frame(c)
  <2>1. sequence' >= sequence /\ SweepKept(c)
    BY <1>1 DEF TypeOK, SweepKept
  <2> QED
    BY <1>2, <1>4, <1>5, <1>6, <1>7, <2>1, FrameHolds
<1>11. /\ RecordRight(c)' /\ PendingRight(c)' /\ SweepKeyRight(c)'
       /\ SpentRight(c)' /\ CanceledRight(c)' /\ SweepRight(c)'
  <2>1. \A j \in Nat : \/ Spent(c, j)' = Spent(c, j)
                       \/ j = incarnation[c] /\ ended[OwnerOf[c]] # "open"
    BY <1>i, <1>1, <1>2
  <2>2. holder'[c].call # "schedule"
    BY <1>4
  <2> QED
    BY <1>1, <2>1, <2>2, StatusKept
<1>12. CancelKeyRight(c)'
  <2>1. key \in RefusedOf(c)' => key \in RefusedOf(c)
    BY DEF RefusedOf, CallbackOf, CallbackFor
  <2>2. incarnation'[c] = i /\ \E n \in 1..Spent(c, i)' : key = CleanupKey(c, i, n)
    <3>1. PICK n \in Nat : n = Spent(c, i) + 1
      BY <1>2
    <3> QED
      BY <1>i, <1>2, <1>3, <3>1
  <2> QED
    BY <1>3, <1>5, <1>6, <2>1, <2>2 DEF CancelKeyRight, CleanupKey
<1>13. HolderRight(c)'
  BY <1>3, <1>4, <1>5, <1>6 DEF HolderRight
<1> QED
  BY <1>2, <1>7, <1>8, <1>9, <1>10, <1>11, <1>12, <1>13, StepRight DEF Local

\* A callback that was dispatched is forgotten by the scheduler, with a key
\* minted for it.
LEMMA ForgetStep ==
  ASSUME IInv, NEW c \in Callbacks,
         sweep[OwnerOf[c]].stage = "records", c \in sweep[OwnerOf[c]].left,
         Sweepable(OwnerOf[c]), Idle(c), records[c].status = "dispatched",
         MintCleanupKey(c, incarnation[c]),
         Calls(c, "forget", NextCleanupKey(c, incarnation[c]), records[c].key),
         UNCHANGED <<records, results, pending, cancelKey, sweepKey, failed, incarnation, sequence,
                     sweep>>,
         UNCHANGED <<now, batch, ended, optedOut, provider, rejected, canceled>>
  PROVE  IInv'
<1>i. PICK i : i = incarnation[c]
  OBVIOUS
<1>key. PICK key : key = NextCleanupKey(c, i)
  OBVIOUS
<1>1. /\ TypeOK /\ Local(c) /\ records[c].status \in Asked
      /\ ended[OwnerOf[c]] = "closing" /\ records[c] # NoRecord /\ records[c].key \in Keys
  <2>1. TypeOK /\ Local(c) /\ records[c].status \in Asked
    BY DEF IInv, Asked
  <2>2. records[c] # NoRecord
    BY <2>1 DEF NoRecord
  <2> QED
    BY <2>1, <2>2, HasRecord DEF Local, SweepRight
<1>2. /\ i \in 1..sequence /\ i \in Nat
      /\ DOMAIN attempts' \subseteq Callbacks \X (1..sequence)
      /\ \A a \in DOMAIN attempts' : attempts'[a] \in Nat \ {0}
      /\ \A d \in Callbacks \ {c}, j \in Nat : Spent(d, j)' = Spent(d, j)
      /\ Spent(c, i) \in Nat
      /\ \A j \in Nat : Spent(c, j)' = IF j = i THEN Spent(c, i) + 1 ELSE Spent(c, j)
      /\ RefusedRight(c)'
  <2>1. ended[OwnerOf[c]] # "open"
    BY <1>1
  <2> QED
    BY <1>i, <1>1, <2>1, MintForRecord
<1>3. /\ key = CleanupKey(c, i, Spent(c, i) + 1)
      /\ key \notin RefusedOf(c) /\ key \in SentKeys /\ CallbackOf(key) = c /\ key # NoKey
  <2>1. Alive(c, i)
    BY <1>i DEF Alive
  <2> QED
    BY <1>key, <1>2, <2>1, NextKeyFresh
<1>4. /\ holder' \in [Callbacks -> {Free} \cup CallMade]
      /\ holder'[c] # Free /\ holder'[c].call = "forget" /\ holder'[c].key = key
      /\ \A d \in Callbacks \ {c} : holder'[d] = holder[d]
  BY <1>i, <1>key, <1>1, <1>3, CallTyped DEF CallKinds, SweepCalls
<1>5. TypeOK'
  BY <1>1, <1>2, <1>4 DEF TypeOK, provider
<1>6. SweepsOwn'
  BY DEF IInv, SweepsOwn, Of, RequestOf
<1>7. OneSweepCall'
  BY <1>4, OneSweepKept
<1>8. Frame(c)
  <2>1. sequence' >= sequence /\ SweepKept(c)
    BY <1>1 DEF TypeOK, SweepKept
  <2> QED
    BY <1>2, <1>4, <1>5, <2>1, FrameHolds
<1>9. /\ KeysOf(c)' = KeysOf(c) /\ RefusedOf(c)' = RefusedOf(c) /\ FailedOf(c)' = FailedOf(c)
      /\ CanceledOf(c)' = CanceledOf(c) /\ \A k \in KeysOf(c) : pending[k] = 0 /\ sweepKey[k] = NoKey
  <2>1. \A k \in KeysOf(c) : pending[k] = 0
    BY <1>1 DEF Local, SweepRight
  <2>2. \A k \in KeysOf(c) : sweepKey[k] = NoKey
    BY <1>1, <2>1 DEF Local, SweepKeyRight
  <2> QED
    BY <2>1, <2>2 DEF KeysOf, RequestOf, RefusedOf, FailedOf, CanceledOf, CallbackOf, CallbackFor
<1>10. RecordRight(c)' /\ PendingRight(c)' /\ CanceledRight(c)' /\ SweepKeyRight(c)'
  BY <1>1, <1>9 DEF Local, RecordRight, PendingRight, CanceledRight, SweepKeyRight, RequestOf
<1>11. CancelKeyRight(c)'
  <2>1. Spent(c, i)' = Spent(c, i) + 1 /\ incarnation' = incarnation /\ cancelKey' = cancelKey
    BY <1>2
  <2>2. \A n \in 1..Spent(c, i) : n \in 1..Spent(c, i)'
    BY <1>2, <2>1
  <2> QED
    BY <1>i, <1>1, <1>9, <2>1, <2>2 DEF Local, CancelKeyRight, CallbackFor, ClientKey, CleanupKey
<1>12. SpentRight(c)'
  <2>1. \A j \in 1..sequence : /\ j \in Nat /\ (Alive(c, j)' <=> Alive(c, j))
                               /\ j = i => Alive(c, j)
    BY <1>i, <1>1, <1>9 DEF Alive, TypeOK
  <2> QED
    BY <1>1, <1>2, <1>4, <2>1 DEF Local, SpentRight
<1>13. HolderRight(c)' /\ SweepRight(c)'
  <2>1. incarnation'[c] = i /\ Spent(c, i)' = Spent(c, i) + 1 /\ holder'[c].key = CleanupKey(c, i, Spent(c, i) + 1)
    BY <1>i, <1>2, <1>3, <1>4
  <2>2. HolderRight(c)'
    <3>1. holder'[c].key = CleanupKey(c, incarnation[c], Spent(c, incarnation[c]))'
      BY <2>1 DEF CleanupKey
    <3> QED
      BY <1>3, <1>4, <1>9, <3>1 DEF HolderRight
  <2> QED
    BY <1>1, <1>9, <2>2 DEF Local, SweepRight
<1> QED
  BY <1>2, <1>5, <1>6, <1>7, <1>8, <1>10, <1>11, <1>12, <1>13, StepRight DEF Local

LEMMA RemoveRecordStep ==
  ASSUME IInv, NEW c \in Callbacks, RemoveRecord(c)
  PROVE  IInv'
<1> DEFINE s == OwnerOf[c]
<1>1. /\ sweep[s].stage = "records" /\ c \in sweep[s].left
      /\ Sweepable(s) /\ Idle(c) /\ holder[c] = Free /\ TypeOK /\ Local(c)
      /\ UNCHANGED <<now, batch, ended, optedOut, provider, rejected, canceled>>
  BY DEF RemoveRecord, Idle, IInv
<1>2. CASE /\ records[c].status \in {"scheduled", "cancellation-required"}
           /\ MintCleanupKey(c, incarnation[c])
           /\ cancelKey' = [cancelKey EXCEPT ![c] = NextCleanupKey(c, incarnation[c])]
           /\ records' = Status(c, "cancellation-pending")
           /\ Calls(c, "remove", NextCleanupKey(c, incarnation[c]), records[c].key)
           /\ UNCHANGED <<results, pending, sweepKey, failed, incarnation, sequence, sweep>>
  BY <1>1, <1>2, RemoveStep
<1>3. CASE /\ records[c].status = "cancellation-pending"
           /\ Calls(c, "remove", cancelKey[c], records[c].key)
           /\ UNCHANGED <<service, sweep>>
  <2>key. PICK key : key = cancelKey[c]
    OBVIOUS
  <2>1. /\ records[c].key \in Keys /\ ended[s] # "closed"
    BY <1>3, LiveFacts DEF Live, KeysOf
  <2>2. key \in SentKeys /\ CallbackOf(key) = c
    <3>1. key # NoKey
      BY <2>key, <1>1, <1>3 DEF Local, CancelKeyRight
    <3>2. key \in SentKeys
      BY <2>key, <1>1, <3>1 DEF TypeOK
    <3>3. CallbackOf(key) = c
      BY <2>key, <1>1, <3>1, KeyKinds DEF Local, CancelKeyRight
    <3> QED
      BY <3>2, <3>3
  <2>3. /\ holder' \in [Callbacks -> {Free} \cup CallMade]
        /\ holder'[c] # Free /\ holder'[c].call = "remove" /\ holder'[c].key = key
        /\ \A d \in Callbacks \ {c} : holder'[d] = holder[d]
    BY <2>key, <1>1, <1>3, <2>1, <2>2, CallTyped DEF CallKinds, SweepCalls
  <2>4. HolderRight(c)'
    BY <2>key, <1>1, <1>3, <2>2, <2>3 DEF HolderRight, service
  <2>5. /\ armed' \in [Callbacks -> Jobs] /\ faults' \in 0..MaxFaults /\ acted' \subseteq SentKeys
        /\ batch' \subseteq Callbacks
    BY <1>1 DEF TypeOK, provider
  <2> QED
    BY <1>1, <1>3, <2>1, <2>3, <2>4, <2>5, LockStep
<1>4. CASE /\ records[c].status = "dispatched"
           /\ MintCleanupKey(c, incarnation[c])
           /\ Calls(c, "forget", NextCleanupKey(c, incarnation[c]), records[c].key)
           /\ UNCHANGED <<records, results, pending, cancelKey, sweepKey, failed, incarnation,
                          sequence, sweep>>
  BY <1>1, <1>4, ForgetStep
<1>5. CASE /\ records[c].status \in {"blocked", "canceled"}
           /\ Drop(c) /\ Reached(s, c)
           /\ UNCHANGED holder
  <2>1. /\ records[c] # NoRecord /\ holder' \in [Callbacks -> {Free} \cup CallMade]
        /\ armed' \in [Callbacks -> Jobs] /\ acted' \subseteq SentKeys
    BY <1>1, <1>5 DEF NoRecord, TypeOK, provider
  <2> QED
    BY <1>1, <1>5, <2>1, DropStep DEF provider
<1> QED
  BY <1>2, <1>3, <1>4, <1>5 DEF RemoveRecord

LEMMA RemoveReturnsStep ==
  ASSUME IInv, NEW c \in Callbacks, RemoveReturns(c)
  PROVE  IInv'
<1> DEFINE s == OwnerOf[c]
<1>1. /\ holder[c].call \in {"remove", "forget"} /\ Releases(c) /\ TypeOK /\ Local(c)
      /\ UNCHANGED <<now, batch, ended, optedOut>>
  BY DEF RemoveReturns, IInv
<1>2. /\ holder[c] # Free /\ holder[c].call \in SweepCalls
      /\ sweep[s].stage = "records" /\ c \in sweep[s].left /\ records[c] # NoRecord
  <2>1. /\ records[c].status \in {"cancellation-pending", "dispatched"}
        /\ sweep[s].stage = "records" /\ c \in sweep[s].left
    BY <1>1 DEF Local, HolderRight
  <2> QED
    BY <1>1, <2>1, HeldIfCalling DEF CallKinds, SweepCalls, NoRecord
<1>3. CASE /\ Served(c, 0) /\ Drop(c) /\ Reached(s, c)
           /\ canceled' = IF holder[c].call = "remove" THEN canceled \cup {records[c].key}
                          ELSE canceled
  <2>1. /\ armed' \in [Callbacks -> Jobs] /\ acted' \subseteq SentKeys
        /\ UNCHANGED <<faults, rejected>>
    BY <1>1, <1>2, <1>3, JobsKnown, ProviderTyped
  <2>2. /\ holder' \in [Callbacks -> {Free} \cup CallMade] /\ holder'[c] = Free
        /\ \A d \in Callbacks \ {c} : holder'[d] = holder[d]
    BY <1>1, ReleaseTyped
  <2>3. canceled' = canceled \/ canceled' = canceled \cup {records[c].key}
    BY <1>3
  <2> QED
    BY <1>1, <1>2, <1>3, <2>1, <2>2, <2>3, DropStep
<1>4. CASE Refused(c) /\ holder[c].call = "remove" /\ Rejected(c) /\ Aborts(s) /\ UNCHANGED canceled
  BY <1>1, <1>4, RejectedStep
<1>5. CASE /\ Lost(c, 0) \/ (Refused(c) /\ holder[c].call = "forget")
           /\ Aborts(s) /\ UNCHANGED service /\ UNCHANGED canceled
  BY <1>1, <1>2, <1>5, AbortStep
<1> QED
  BY <1>3, <1>4, <1>5 DEF RemoveReturns

LEMMA EndSweepStep ==
  ASSUME IInv, NEW s \in Owners, EndSweep(s)
  PROVE  IInv'
<1>1. /\ sweep[s].stage = "records" /\ sweep[s].left = {} /\ Sweepable(s) /\ TypeOK
      /\ Aborts(s)
      /\ ended' = [ended EXCEPT ![s] = "closed"]
      /\ failed' = {key \in failed : \/ CallbackOf(key) \notin Of(s)
                                     \/ records[CallbackOf(key)] # NoRecord
                                     \/ PendingKeys(CallbackOf(key)) # {}}
      /\ acted' = {key \in acted : CallbackOf(key) \notin Of(s)}
      /\ UNCHANGED <<now, records, results, pending, cancelKey, sweepKey, incarnation, attempts,
                     sequence, holder, batch, optedOut, armed, faults, rejected, canceled>>
  BY DEF EndSweep, IInv
<1>2. /\ sweep' \in [Owners -> Sweeps] /\ SweepsOwn' /\ sweep'[s].stage = "none"
      /\ \A t \in Owners \ {s} : sweep'[t] = sweep[t]
  BY <1>1, AbortsMoves
<1>3. /\ ended' \in [Owners -> {"open", "closing", "closed"}] /\ ended'[s] = "closed"
      /\ \A t \in Owners \ {s} : ended'[t] = ended[t]
      /\ failed' \subseteq SentKeys /\ acted' \subseteq SentKeys
  BY <1>1 DEF TypeOK
<1>4. TypeOK'
  BY <1>1, <1>2, <1>3 DEF TypeOK
<1>5. OneSweepCall'
  BY <1>1 DEF IInv, OneSweepCall
<1>6. ASSUME NEW c \in Callbacks PROVE Local(c)'
  <2>1. Local(c) /\ OwnerOf[c] \in Owners
    BY OwnersAssumption DEF IInv
  <2>2. KeysOf(c)' = KeysOf(c) /\ RefusedOf(c)' = RefusedOf(c) /\ CanceledOf(c)' = CanceledOf(c)
    BY <1>1 DEF KeysOf, RequestOf, RefusedOf, CanceledOf, CallbackOf, CallbackFor
  <2>3. RecordRight(c)' /\ PendingRight(c)' /\ CancelKeyRight(c)' /\ SweepKeyRight(c)'
    BY <1>1, <2>1, <2>2 DEF Local, RecordRight, PendingRight, CancelKeyRight, SweepKeyRight, Spent,
                           RequestOf, CallbackFor
  <2>4. ended[OwnerOf[c]] # "open" => ended'[OwnerOf[c]] # "open"
    BY <1>3, <2>1
  <2>5. CanceledRight(c)' /\ SpentRight(c)'
    BY <1>1, <2>1, <2>2, <2>4 DEF Local, CanceledRight, SpentRight, Spent, Alive
  <2>6. CASE OwnerOf[c] = s
    <3>1. /\ records[c] = NoRecord /\ \A k \in KeysOf(c) : pending[k] = 0
      BY <1>1, <2>1, <2>6 DEF Local, SweepRight
    <3>2. holder[c] = Free
      <4>1. holder[c].call \notin SweepCalls
        BY <1>1, <2>6 DEF Sweepable, Of
      <4>2. records[c].status = "none"
        BY <3>1 DEF NoRecord
      <4>3. holder[c].call \notin {"schedule", "cancel", "dial"}
        BY <2>1, <3>1, <4>2 DEF Local, HolderRight
      <4> QED
        BY <1>1, <4>1, <4>3, HeldTyped DEF CallKinds
    <3>3. FailedOf(c)' = {}
      <4>1. PendingKeys(c) = {} /\ c \in Of(s)
        BY <2>6, <3>1 DEF PendingKeys, KeysOf, Of
      <4> QED
        BY <1>1, <3>1, <4>1 DEF FailedOf, CallbackOf, CallbackFor
    <3>4. RefusedRight(c)'
      BY <1>1, <1>3, <2>1, <2>2, <2>6 DEF Local, RefusedRight, Spent, Alive
    <3>5. HolderRight(c)'
      BY <1>1, <3>2 DEF HolderRight, Free
    <3>6. SweepRight(c)'
      BY <1>1, <1>2, <1>3, <2>2, <2>6, <3>1, <3>2, <3>3 DEF SweepRight
    <3> QED
      BY <2>3, <2>5, <3>4, <3>5, <3>6 DEF Local
  <2>7. CASE OwnerOf[c] # s
    <3>1. FailedOf(c)' = FailedOf(c)
      BY <1>1, <2>7 DEF FailedOf, Of, CallbackOf, CallbackFor
    <3>2. ended'[OwnerOf[c]] = ended[OwnerOf[c]] /\ sweep'[OwnerOf[c]] = sweep[OwnerOf[c]]
      BY <1>2, <1>3, <2>1, <2>7
    <3>3. RefusedRight(c)'
      BY <1>1, <2>1, <2>2, <3>1, <3>2 DEF Local, RefusedRight, Spent, Alive
    <3>4. HolderRight(c)' /\ SweepRight(c)'
      BY <1>1, <2>1, <2>2, <3>1, <3>2 DEF Local, HolderRight, SweepRight, Spent
    <3> QED
      BY <2>3, <2>5, <3>3, <3>4 DEF Local
  <2> QED
    BY <2>6, <2>7
<1> QED
  BY <1>2, <1>4, <1>5, <1>6 DEF IInv

-----------------------------------------------------------------------------
(* The invariant *)

LEMMA InitInv == Init => IInv
<1> SUFFICES ASSUME Init PROVE IInv
  OBVIOUS
<1>1. TypeOK
  <2>1. /\ records \in [Callbacks -> {NoRecord} \cup Recorded]
        /\ holder \in [Callbacks -> {Free} \cup CallMade]
        /\ cancelKey \in [Callbacks -> SentKeys \cup {NoKey}]
        /\ results \in [Keys \cup CancelKeys -> {"none", "blocked", "scheduled", "canceled"}]
        /\ armed \in [Callbacks -> Jobs] /\ sequence \in Nat
    BY JobsKnown DEF Init
  <2>2. /\ now \in 0..MaxTime /\ faults \in 0..MaxFaults
        /\ pending \in [Keys -> 0..sequence] /\ incarnation \in [Callbacks -> 0..sequence]
        /\ DOMAIN attempts \subseteq Callbacks \X (1..sequence)
        /\ \A a \in DOMAIN attempts : attempts[a] \in Nat \ {0}
    BY BoundsAssumption DEF Init
  <2>3. /\ sweepKey \in [Keys -> SentKeys \cup {NoKey}]
        /\ failed \subseteq SentKeys /\ acted \subseteq SentKeys /\ rejected \subseteq SentKeys
        /\ batch \subseteq Callbacks /\ canceled \subseteq Keys
        /\ sweep \in [Owners -> Sweeps]
        /\ ended \in [Owners -> {"open", "closing", "closed"}] /\ optedOut \subseteq Owners
    BY DEF Init, Sweeps, NoSweep
  <2> QED
    BY <2>1, <2>2, <2>3 DEF TypeOK
<1>2. ASSUME NEW c \in Callbacks PROVE Local(c)
  <2>1. /\ records[c] = NoRecord /\ NoRecord.status = "none" /\ holder[c].call = "none"
        /\ holder[c] = Free /\ cancelKey[c] = NoKey /\ incarnation[c] = 0
        /\ \A k \in KeysOf(c) : pending[k] = 0 /\ sweepKey[k] = NoKey
        /\ RefusedOf(c) = {} /\ FailedOf(c) = {} /\ CanceledOf(c) = {}
        /\ sweep[OwnerOf[c]].stage = "none" /\ ended[OwnerOf[c]] = "open" /\ sequence = 0
    BY OwnersAssumption DEF Init, NoRecord, Free, KeysOf, RefusedOf, FailedOf, CanceledOf
  <2>2. RecordRight(c) /\ PendingRight(c) /\ CancelKeyRight(c) /\ SweepKeyRight(c)
    BY <2>1 DEF RecordRight, PendingRight, CancelKeyRight, SweepKeyRight, Asked, Live
  <2>3. RefusedRight(c) /\ SpentRight(c) /\ CanceledRight(c)
    BY <2>1 DEF RefusedRight, SpentRight, CanceledRight
  <2>4. HolderRight(c) /\ SweepRight(c)
    BY <2>1 DEF HolderRight, SweepRight
  <2> QED
    BY <2>2, <2>3, <2>4 DEF Local
<1>3. SweepsOwn
  BY DEF Init, SweepsOwn
<1>4. OneSweepCall
  BY DEF Init, OneSweepCall, Free, SweepCalls
<1> QED
  BY <1>1, <1>2, <1>3, <1>4 DEF IInv

LEMMA StepInv == IInv /\ [Next]_vars => IInv'
<1> SUFFICES ASSUME IInv, [Next]_vars PROVE IInv'
  OBVIOUS
<1>1. ASSUME NEW r \in Schedules, Schedule(r) PROVE IInv'
  BY <1>1, ScheduleStep
<1>2. ASSUME NEW r \in Cancels, Cancel(r) PROVE IInv'
  BY <1>2, CancelStep
<1>3. CASE Dispatch
  BY <1>3, DispatchStep
<1>4. ASSUME NEW c \in Callbacks, DispatchOne(c) PROVE IInv'
  BY <1>4, DispatchOneStep
<1>5. ASSUME NEW c \in Callbacks, Returns(c) PROVE IInv'
  BY <1>5, ScheduleReturnsStep, CancelReturnsStep, DialReturnsStep, UnscheduleReturnsStep,
     RemoveReturnsStep DEF Returns
<1>6. ASSUME NEW s \in Owners, BeginSweep(s) PROVE IInv'
  BY <1>6, BeginSweepStep
<1>7. ASSUME NEW s \in Owners, SweepStep(s) PROVE IInv'
  <2>1. ASSUME NEW k \in Keys, RemovePending(s, k) PROVE IInv'
    BY <2>1, RemovePendingStep
  <2>2. ASSUME NEW c \in Of(s), RemoveRecord(c) PROVE IInv'
    BY <2>2, RemoveRecordStep DEF Of
  <2> QED
    BY <1>7, <2>1, <2>2, SweepRecordsStep, EndSweepStep DEF SweepStep
<1>8. ASSUME NEW s \in Owners, OptOut(s) PROVE IInv'
  <2>1. TypeOK'
    BY <1>8 DEF OptOut, IInv, TypeOK, service, provider
  <2> QED
    BY <1>8, <2>1, Untouched DEF OptOut
<1>9. CASE Tick
  <2>1. now' \in 0..MaxTime
    BY <1>9, BoundsAssumption DEF Tick, IInv, TypeOK
  <2>2. TypeOK'
    BY <1>9, <2>1 DEF Tick, IInv, TypeOK, service, provider
  <2> QED
    BY <1>9, <2>2, Untouched DEF Tick
<1>10. CASE UNCHANGED vars
  <2>1. TypeOK'
    BY <1>10 DEF vars, IInv, TypeOK, service, provider
  <2> QED
    BY <1>10, <2>1, Untouched DEF vars
<1> QED
  BY <1>1, <1>2, <1>3, <1>4, <1>5, <1>6, <1>7, <1>8, <1>9, <1>10 DEF Next

\* The dictionaries agree, callback by callback, and a call in flight finds what
\* it left, in every state.
THEOREM Inductive == Spec => []IInv
BY InitInv, StepInv, PTL DEF Spec

\* Every variable keeps its type: TypeOK.
THEOREM TypeCorrect == Spec => []TypeOK
<1>1. IInv => TypeOK
  BY DEF IInv
<1> QED
  BY Inductive, <1>1, PTL

-----------------------------------------------------------------------------
(* What can be canceled *)

LEMMA IncarnationFollows == IInv => OneIncarnation
<1> SUFFICES ASSUME IInv, NEW c \in Callbacks
             PROVE  /\ Cardinality(PendingKeys(c)) =< 1
                    /\ PendingKeys(c) # {} => records[c].status \notin Live
  BY DEF OneIncarnation
<1>1. PendingRight(c) /\ PendingKeys(c) = {k \in KeysOf(c) : pending[k] # 0}
  BY PendingOf DEF IInv, Local
<1>2. CASE PendingKeys(c) = {}
  <2>1. Cardinality(PendingKeys(c)) = 0
    BY <1>2, FS_EmptySet, Zenon
  <2> QED
    BY <1>2, <2>1
<1>3. CASE PendingKeys(c) # {}
  <2>1. PICK k : k \in PendingKeys(c)
    BY <1>3
  <2>2. PendingKeys(c) = {k} /\ records[c].status \notin Live
    BY <1>1, <2>1 DEF PendingRight
  <2>3. Cardinality(PendingKeys(c)) = 1
    BY <2>2, FS_Singleton, Zenon
  <2> QED
    BY <2>2, <2>3
<1> QED
  BY <1>2, <1>3

LEMMA UnusedFollows == IInv => RefusedKeysStayUnused
<1> SUFFICES ASSUME IInv, NEW c \in Callbacks, holder[c].call \in {"cancel"} \cup SweepCalls
             PROVE  holder[c].key \notin rejected
  BY DEF RefusedKeysStayUnused
<1>1. /\ TypeOK /\ Local(c) /\ CallbackOf(holder[c].key) = c /\ holder[c].key \in SentKeys
  BY HeldIfCalling, HeldTyped DEF IInv, CallKinds, Local, HolderRight
<1>2. CASE holder[c].call \in {"cancel", "remove"}
  BY <1>1, <1>2 DEF Local, HolderRight, CancelKeyRight, RefusedOf
<1>3. CASE holder[c].call = "unschedule"
  <2>1. holder[c].key # NoKey
    <3>1. \A x \in SentKeys : x[1] \in {"client", "dispatch", "cleanup"}
      BY DEF SentKeys
    <3> QED
      BY <1>1, <3>1 DEF NoKey
  <2> QED
    BY <1>1, <1>3, <2>1 DEF Local, HolderRight, SweepKeyRight, RefusedOf
<1>4. CASE holder[c].call = "forget"
  BY <1>1, <1>4 DEF Local, HolderRight, RefusedOf
<1> QED
  BY <1>2, <1>3, <1>4 DEF SweepCalls

\* A callback never has two incarnations to cancel: OneIncarnation.
THEOREM IncarnationHolds == Spec => []OneIncarnation
BY Inductive, IncarnationFollows, PTL

\* A key the scheduler refused for good is never sent again, by a client or by a
\* sweep: RefusedKeysStayUnused.
THEOREM UnusedHolds == Spec => []RefusedKeysStayUnused
BY Inductive, UnusedFollows, PTL

\* Nobody is dialled for a callback whose cancellation was acknowledged, nor for a
\* closed session: DialsAreWanted.
THEOREM DialsWantedHolds == Spec => DialsAreWanted
<1> DEFINE Wanted == \A k \in Keys : DialKey(k) \in acted' \ acted
                       => k \notin canceled /\ ended[OwnerOf[RequestOf(k).callback]] # "closed"
<1>1. IInv /\ [Next]_vars => [Wanted]_vars
  <2> SUFFICES ASSUME IInv, Next, NEW k \in Keys, DialKey(k) \in acted', DialKey(k) \notin acted
               PROVE  k \notin canceled /\ ended[OwnerOf[RequestOf(k).callback]] # "closed"
    BY DEF Wanted
  <2>1. PICK c \in Callbacks : holder[c].call \in CallKinds /\ holder[c].key = DialKey(k)
    <3>1. ASSUME NEW c \in Callbacks, Returns(c)
          PROVE  holder[c].call \in CallKinds /\ holder[c].key = DialKey(k)
      <4>1. acted' \subseteq acted \cup {holder[c].key}
        BY <3>1 DEF Returns, ScheduleReturns, CancelReturns, DialReturns, UnscheduleReturns,
                    RemoveReturns, Served, Refused, Lost
      <4>2. holder[c].call \in CallKinds
        BY <3>1 DEF Returns, ScheduleReturns, CancelReturns, DialReturns, UnscheduleReturns,
                    RemoveReturns, CallKinds, SweepCalls
      <4> QED
        BY <4>1, <4>2
    <3>2. ASSUME NEW r \in Schedules PROVE ~Schedule(r)
      BY DEF Schedule, provider
    <3>3. ASSUME NEW r \in Cancels PROVE ~Cancel(r)
      BY DEF Cancel, provider
    <3>4. ASSUME NEW c \in Callbacks PROVE ~DispatchOne(c)
      BY DEF DispatchOne, provider
    <3>5. ~Dispatch /\ ~Tick
      BY DEF Dispatch, Tick, provider
    <3>6. ASSUME NEW s \in Owners PROVE ~BeginSweep(s) /\ ~OptOut(s) /\ ~SweepStep(s)
      BY DEF BeginSweep, OptOut, SweepStep, RemovePending, RemoveRecord, SweepRecords, EndSweep, provider
    <3> QED
      BY <3>1, <3>2, <3>3, <3>4, <3>5, <3>6 DEF Next
  <2>2. TypeOK /\ Local(c) /\ holder[c] # Free
    BY <2>1, HeldIfCalling DEF IInv
  <2>3. DialKey(k)[1] = "dispatch" /\ DialKey(k)[2] = k
    BY KeyKinds
  <2>4. holder[c].call = "dial"
    <3>1. \A x : ClientKey(x)[1] = "client"
      BY KeyKinds
    <3>2. \A i, n : CleanupKey(c, i, n)[1] = "cleanup"
      BY KeyKinds
    <3>3. NoKey[1] = "none"
      BY DEF NoKey
    <3>4. holder[c].call # "schedule"
      BY <2>1, <2>2, <2>3, <3>1 DEF Local, HolderRight
    <3>5. holder[c].call \notin {"cancel", "remove"}
      <4>1. cancelKey[c] # DialKey(k)
        BY <2>2, <2>3, <3>1, <3>2, <3>3 DEF Local, CancelKeyRight
      <4> QED
        BY <2>1, <2>2, <4>1 DEF Local, HolderRight
    <3>6. holder[c].call # "unschedule"
      BY <2>1, <2>2, <2>3, <3>2, <3>3 DEF Local, HolderRight, SweepKeyRight
    <3>7. holder[c].call # "forget"
      BY <2>1, <2>2, <2>3, <3>2 DEF Local, HolderRight
    <3> QED
      BY <2>1, <3>4, <3>5, <3>6, <3>7 DEF CallKinds, SweepCalls
  <2>5. records[c].status = "scheduled" /\ DialKey(k) = DialKey(records[c].key)
    BY <2>1, <2>2, <2>4 DEF Local, HolderRight
  <2>6. records[c].key = k
    BY <2>5, KeyKinds
  <2>7. /\ RequestOf(k).callback = c /\ ended[OwnerOf[c]] # "closed"
    BY <2>5, <2>6, LiveFacts DEF Live, KeysOf
  <2>8. k \notin canceled
    BY <2>2, <2>5, <2>6, <2>7 DEF Local, CanceledRight, CanceledOf, Live
  <2> QED
    BY <2>7, <2>8
<1> QED
  BY Inductive, <1>1, PTL DEF Spec, DialsAreWanted

-----------------------------------------------------------------------------
(* What is still to run *)

\* A job that is still to run belongs to a live record, or to a schedule whose
\* outcome is unknown though the scheduler has served it.
Future(c) ==
  /\ armed[c] > now => \/ records[c].status \in Live
                       \/ \E k \in KeysOf(c) : pending[k] # 0 /\ ClientKey(k) \in acted
  /\ records[c].status \in Live => armed[c] \in {0, records[c].at}
  /\ holder[c].call = "dial" => records[c].at =< now

FutureInv == \A c \in Callbacks : Future(c)

\* No callback that is yet to run is blocked, by a reschedule at a time that is
\* invalid: schedule() would store the blocked record over the live one.
NoneReplaced ==
  \A c \in Callbacks :
    records[c].status \in Live /\ records[c].at > now => records'[c].status # "blocked"

LEMMA ArmedTyped ==
  ASSUME IInv, NEW c \in Callbacks
  PROVE  /\ now \in Nat /\ armed[c] \in Nat
         /\ records[c].status \in Live => records[c].at \in Nat
<1>1. TypeOK /\ Jobs \subseteq Nat
  BY RequestsAssumption DEF IInv, Jobs
<1>2. now \in Nat /\ armed[c] \in Nat
  <2>1. now \in 0..MaxTime /\ armed \in [Callbacks -> Jobs]
    BY <1>1 DEF TypeOK
  <2>2. now \in Nat
    BY <2>1, BoundsAssumption
  <2>3. armed[c] \in Jobs
    BY <2>1
  <2> QED
    BY <1>1, <2>2, <2>3
<1>3. records[c].status \in Live => records[c].at \in Nat
  BY <1>1, LiveFacts, HasRecord
<1> QED
  BY <1>2, <1>3

\* What a step may do to a callback without orphaning its job.
LEMMA FutureKept ==
  ASSUME IInv, NEW c \in Callbacks, Future(c),
         armed'[c] = armed[c] \/ armed'[c] = 0,
         now' \in Nat, now' >= now,
         \A k \in KeysOf(c) : ClientKey(k) \in acted => ClientKey(k) \in acted',
         \A k \in KeysOf(c) : pending[k] # 0 => pending'[k] # 0,
         records[c].status \in Live => records'[c].at = records[c].at,
         records'[c].status \in Live <=> records[c].status \in Live,
         holder'[c].call = "dial" => holder[c].call = "dial" \/ Due(c)
  PROVE  Future(c)'
<1>1. /\ now \in Nat /\ armed[c] \in Nat
      /\ records[c].status \in Live => records[c].at \in Nat
  BY ArmedTyped
<1>2. armed'[c] > now' => armed[c] > now /\ armed'[c] = armed[c]
  BY <1>1
<1>3. KeysOf(c)' = KeysOf(c)
  BY DEF KeysOf, RequestOf
<1>4. armed'[c] > now' => \/ records'[c].status \in Live
                          \/ \E k \in KeysOf(c) : pending'[k] # 0 /\ ClientKey(k) \in acted'
  BY <1>2 DEF Future
<1>5. records'[c].status \in Live => armed'[c] \in {0, records'[c].at}
  BY DEF Future
<1>6. holder'[c].call = "dial" => records'[c].at =< now'
  <2>1. ASSUME holder'[c].call = "dial" PROVE records'[c].at =< now'
    <3>1. records[c].at =< now /\ records[c].status = "scheduled"
      BY <2>1 DEF Future, IInv, Local, HolderRight, Due
    <3>2. records[c].at \in Nat /\ records'[c].at = records[c].at
      BY <1>1, <3>1 DEF Live
    <3> QED
      BY <1>1, <3>1, <3>2
  <2> QED
    BY <2>1
<1> QED
  BY <1>3, <1>4, <1>5, <1>6 DEF Future, ClientKey

\* Where there is no job to run, none is orphaned.
LEMMA FutureQuiet ==
  ASSUME NEW c \in Callbacks, ~(armed'[c] > now'), records'[c].status \notin Live,
         holder'[c].call # "dial"
  PROVE  Future(c)'
BY DEF Future

\* A step of one callback leaves the jobs of the others alone.
Elsewhere(e) ==
  /\ \A d \in Callbacks \ {e} :
       /\ records'[d] = records[d] /\ armed'[d] = armed[d] /\ holder'[d] = holder[d]
       /\ \A k \in KeysOf(d) : pending'[k] = pending[k]
  /\ acted \subseteq acted' /\ now' = now

LEMMA FutureElsewhere ==
  ASSUME IInv, FutureInv, NEW e \in Callbacks, Elsewhere(e), Future(e)'
  PROVE  FutureInv'
<1>1. now \in Nat
  BY ArmedTyped
<1>2. ASSUME NEW c \in Callbacks, c # e PROVE Future(c)'
  <2>1. /\ records'[c] = records[c] /\ armed'[c] = armed[c] /\ holder'[c] = holder[c]
        /\ \A k \in KeysOf(c) : pending'[k] = pending[k]
        /\ acted \subseteq acted' /\ now' = now
    BY <1>2 DEF Elsewhere
  <2>2. now' \in Nat /\ now' >= now /\ Future(c)
    BY <1>1, <2>1 DEF FutureInv
  <2> QED
    BY <2>1, <2>2, FutureKept
<1> QED
  BY <1>2 DEF FutureInv

\* A step that dials nobody, disarms nothing and keeps records and entries.
LEMMA FutureUntouched ==
  ASSUME IInv, FutureInv, UNCHANGED <<service, provider, holder>>, now' \in Nat, now' >= now
  PROVE  FutureInv'
<1>1. ASSUME NEW c \in Callbacks PROVE Future(c)'
  <2>1. /\ records' = records /\ armed' = armed /\ holder' = holder /\ pending' = pending
        /\ acted' = acted /\ Future(c)
    BY DEF FutureInv, service, provider
  <2> QED
    BY <2>1, FutureKept
<1> QED
  BY <1>1 DEF FutureInv

LEMMA FutureLocks ==
  ASSUME IInv, FutureInv, NEW c \in Callbacks, UNCHANGED <<now, records, pending>>,
         armed' = armed \/ armed' = [armed EXCEPT ![c] = 0],
         acted \subseteq acted',
         \A d \in Callbacks \ {c} : holder'[d] = holder[d],
         holder'[c].call = "dial" => Due(c)
  PROVE  FutureInv'
<1>1. now \in Nat /\ Future(c) /\ armed \in [Callbacks -> Jobs]
  BY ArmedTyped DEF FutureInv, IInv, TypeOK
<1>2. armed'[c] \in {armed[c], 0} /\ \A d \in Callbacks \ {c} : armed'[d] = armed[d]
  BY <1>1
<1>3. Elsewhere(c)
  BY <1>2 DEF Elsewhere
<1>4. Future(c)'
  BY <1>1, <1>2, FutureKept
<1> QED
  BY <1>3, <1>4, FutureElsewhere

LEMMA FutureSchedule ==
  ASSUME IInv, FutureInv, NoneReplaced, NEW r \in Schedules, Schedule(r)
  PROVE  FutureInv'
<1>c. PICK c \in Callbacks : c = r.callback
  BY RequestsAssumption
<1>1. /\ Serves(c) /\ results[r.key] = "none"
      /\ UNCHANGED <<now, batch, sweep, ended, optedOut, armed, acted, faults, rejected, canceled>>
  BY <1>c DEF Schedule, provider
<1>2. /\ TypeOK /\ Local(c) /\ Future(c) /\ now \in Nat /\ now' \in Nat /\ now' >= now
      /\ r.key \in KeysOf(c) /\ r.key \in Keys /\ RequestOf(r.key) = r /\ holder[c].call = "none"
  BY <1>1, <1>c, RequestFacts, ArmedTyped DEF IInv, FutureInv, KeysOf, Serves, Idle, Free
<1>3. CASE Calls(c, "schedule", ClientKey(r.key), r.key) /\ UNCHANGED service
  <2>1. /\ holder'[c].call = "schedule" /\ \A d \in Callbacks \ {c} : holder'[d] = holder[d]
    BY <1>2, <1>3, CallTyped, KeyKinds DEF CallKinds
  <2> QED
    BY <1>1, <1>3, <2>1, FutureLocks DEF service
<1>4. CASE Block(r)
  <2>1. "blocked" \in RecordKinds /\ "blocked" \notin Live
    BY DEF RecordKinds, Live
  <2>2. records' = [records EXCEPT ![r.callback] = Record(r, "blocked")]
    BY <1>4 DEF Block
  <2>3. /\ records'[c].status = "blocked"
        /\ \A d \in Callbacks \ {c} : records'[d] = records[d]
    BY <1>2, <1>c, <2>1, <2>2, RecordTyped
  <2>4. UNCHANGED <<pending, holder>>
    BY <1>4 DEF Block
  <2>5. Elsewhere(c)
    BY <1>1, <2>3, <2>4 DEF Elsewhere
  <2>6. Future(c)'
    <3>1. CASE records[c].status \in Live
      <4>1. ~(records[c].at > now) /\ armed[c] \in {0, records[c].at}
        BY <1>2, <2>3, <3>1 DEF NoneReplaced, Future
      <4>2. ~(armed'[c] > now')
        BY <1>1, <1>2, <4>1
      <4> QED
        BY <1>2, <2>1, <2>3, <2>4, <4>2, FutureQuiet
    <3>2. CASE records[c].status \notin Live
      BY <1>1, <1>2, <2>1, <2>3, <2>4, <3>2, FutureKept
    <3> QED
      BY <3>1, <3>2
  <2> QED
    BY <2>5, <2>6, FutureElsewhere
<1>5. CASE /\ pending[r.key] = 0
           /\ sequence' = sequence + 1
           /\ pending' = [pending EXCEPT ![r.key] = sequence']
           /\ Calls(c, "schedule", ClientKey(r.key), r.key)
           /\ UNCHANGED <<records, results, cancelKey, sweepKey, failed, incarnation, attempts>>
  <2>1. /\ holder'[c].call = "schedule" /\ \A d \in Callbacks \ {c} : holder'[d] = holder[d]
    <3>1. ClientKey(r.key) \in SentKeys /\ "schedule" \in CallKinds /\ r.key \in Keys \cup CancelKeys
      BY <1>2, KeyKinds DEF CallKinds
    <3> QED
      BY <1>2, <1>5, <3>1, CallTyped
  <2>2. \A k \in Keys : k # r.key => pending'[k] = pending[k]
    BY <1>2, <1>5 DEF TypeOK
  <2>3. Elsewhere(c)
    <3>1. \A d \in Callbacks \ {c} : \A k \in KeysOf(d) : k \in Keys /\ k # r.key
      BY <1>2 DEF KeysOf
    <3> QED
      BY <1>1, <1>5, <2>1, <2>2, <3>1 DEF Elsewhere
  <2>4. \A k \in KeysOf(c) : pending[k] # 0 => pending'[k] # 0
    BY <1>5, <2>2 DEF KeysOf
  <2>5. Future(c)'
    BY <1>1, <1>2, <1>5, <2>1, <2>4, FutureKept
  <2> QED
    BY <2>3, <2>5, FutureElsewhere
<1> QED
  BY <1>c, <1>3, <1>4, <1>5 DEF Schedule

LEMMA FutureScheduleReturns ==
  ASSUME IInv, FutureInv, NEW c \in Callbacks, ScheduleReturns(c)
  PROVE  FutureInv'
<1>k. PICK k : k = holder[c].for
  OBVIOUS
<1>1. /\ holder[c].call = "schedule" /\ Releases(c) /\ now' = now
  BY DEF ScheduleReturns
<1>2. /\ TypeOK /\ Local(c) /\ Future(c) /\ now \in Nat /\ holder[c] # Free
      /\ holder'[c] = Free /\ holder'[c].call = "none"
      /\ \A d \in Callbacks \ {c} : holder'[d] = holder[d]
  BY <1>1, ArmedTyped, HeldIfCalling, ReleaseTyped DEF IInv, FutureInv, CallKinds
<1>3. /\ k \in KeysOf(c) /\ k \in Keys /\ pending[k] # 0 /\ holder[c].key = ClientKey(k)
      /\ records[c].status \notin Live /\ \A q \in KeysOf(c) : pending[q] # 0 => q = k
  BY <1>1, <1>2, <1>k DEF Local, HolderRight, PendingRight, KeysOf
<1>r. PICK r \in Schedules : r = RequestOf(k) /\ r.callback = c
  BY <1>3, RequestFacts DEF KeysOf
<1>4. \A d \in Callbacks \ {c} : \A q \in KeysOf(d) : q \in Keys /\ q # k
  BY <1>3 DEF KeysOf
<1>5. KeysOf(c)' = KeysOf(c)
  BY DEF KeysOf, RequestOf
<1>6. CASE /\ Served(c, r.at)
           /\ records' = [records EXCEPT ![c] = Record(r, "scheduled")]
           /\ pending' = [pending EXCEPT ![k] = 0]
  <2>1. "scheduled" \in RecordKinds /\ "scheduled" \in Live
    BY DEF RecordKinds, Live
  <2>2. /\ records'[c].status = "scheduled" /\ records'[c].at = r.at
        /\ \A d \in Callbacks \ {c} : records'[d] = records[d]
    BY <1>2, <1>6, <1>r, <2>1, RecordTyped
  <2>3. /\ armed'[c] = r.at /\ \A d \in Callbacks \ {c} : armed'[d] = armed[d]
        /\ acted \subseteq acted'
    BY <1>2, <1>6 DEF Served, Serve, TypeOK
  <2>4. Elsewhere(c)
    BY <1>1, <1>2, <1>4, <1>6, <2>2, <2>3 DEF Elsewhere, TypeOK
  <2>5. Future(c)'
    BY <1>2, <2>1, <2>2, <2>3 DEF Future
  <2> QED
    BY <2>4, <2>5, FutureElsewhere
<1>7. CASE Refused(c) /\ pending' = [pending EXCEPT ![k] = 0] /\ UNCHANGED records
  <2>1. ClientKey(k) \notin acted /\ UNCHANGED <<armed, acted>>
    BY <1>3, <1>7 DEF Refused
  <2>2. ~(armed'[c] > now')
    BY <1>1, <1>2, <1>3, <2>1 DEF Future
  <2>3. Elsewhere(c)
    BY <1>1, <1>2, <1>4, <1>7, <2>1 DEF Elsewhere, TypeOK
  <2>4. Future(c)'
    BY <1>2, <1>3, <1>7, <2>2, FutureQuiet
  <2> QED
    BY <2>3, <2>4, FutureElsewhere
<1>8. CASE Lost(c, r.at) /\ UNCHANGED <<pending, records>>
  <2>1. CASE UNCHANGED <<armed, acted>>
    BY <1>1, <1>2, <1>8, <2>1, FutureLocks
  <2>2. CASE Serve(c, r.at) /\ acted' = acted \cup {holder[c].key}
    <3>1. /\ \A d \in Callbacks \ {c} : armed'[d] = armed[d]
          /\ acted \subseteq acted' /\ ClientKey(k) \in acted'
      BY <1>2, <1>3, <2>2 DEF Serve, TypeOK
    <3>2. Elsewhere(c)
      BY <1>1, <1>2, <1>8, <3>1 DEF Elsewhere
    <3>3. Future(c)'
      BY <1>2, <1>3, <1>5, <1>8, <3>1 DEF Future, ClientKey
    <3> QED
      BY <3>2, <3>3, FutureElsewhere
  <2> QED
    BY <1>8, <2>1, <2>2 DEF Lost
<1> QED
  BY <1>k, <1>r, <1>6, <1>7, <1>8 DEF ScheduleReturns, OutcomeUnknown

\* A step that keeps a live record live, or one that is not live as it is.
LEMMA FutureStatus ==
  ASSUME IInv, FutureInv, NEW c \in Callbacks, NEW status \in Live, records[c].status \in Live,
         records' = Status(c, status), UNCHANGED <<now, pending, armed, acted>>,
         holder'[c].call # "dial", \A d \in Callbacks \ {c} : holder'[d] = holder[d]
  PROVE  FutureInv'
<1>1. /\ now \in Nat /\ Future(c) /\ TypeOK /\ records[c] # NoRecord /\ status \in RecordKinds
  BY ArmedTyped, LiveFacts DEF IInv, FutureInv, RecordKinds
<1>2. /\ records'[c].status = status /\ records'[c].at = records[c].at
      /\ \A d \in Callbacks \ {c} : records'[d] = records[d]
  BY <1>1, StatusTyped
<1>3. Elsewhere(c)
  BY <1>2 DEF Elsewhere
<1>4. Future(c)'
  BY <1>1, <1>2, FutureKept
<1> QED
  BY <1>3, <1>4, FutureElsewhere

\* A step that leaves a callback with no job to run.
LEMMA FutureOver ==
  ASSUME IInv, FutureInv, NEW c \in Callbacks, now' = now,
         (armed' = armed /\ ~(armed[c] > now)) \/ armed' = [armed EXCEPT ![c] = 0],
         records'[c].status \notin Live, holder'[c].call # "dial", acted \subseteq acted',
         \A d \in Callbacks \ {c} :
           /\ records'[d] = records[d] /\ holder'[d] = holder[d]
           /\ \A k \in KeysOf(d) : pending'[k] = pending[k]
  PROVE  FutureInv'
<1>1. /\ now \in Nat /\ armed \in [Callbacks -> Jobs]
  BY ArmedTyped DEF IInv, TypeOK
<1>2. ~(armed'[c] > now') /\ \A d \in Callbacks \ {c} : armed'[d] = armed[d]
  BY <1>1
<1>3. Elsewhere(c)
  BY <1>2 DEF Elsewhere
<1> QED
  BY <1>2, <1>3, FutureQuiet, FutureElsewhere

LEMMA FutureCancel ==
  ASSUME IInv, FutureInv, NEW r \in Cancels, Cancel(r)
  PROVE  FutureInv'
<1>c. PICK c \in Callbacks : c = r.callback
  BY RequestsAssumption
<1>1. /\ Calls(c, "cancel", ClientKey(r.key), r.key) /\ TypeOK
      /\ UNCHANGED <<now, armed, acted>>
  BY <1>c DEF Cancel, provider, IInv
<1>2. /\ holder'[c].call = "cancel" /\ \A d \in Callbacks \ {c} : holder'[d] = holder[d]
  <2>1. ClientKey(r.key) \in SentKeys /\ "cancel" \in CallKinds /\ r.key \in Keys \cup CancelKeys
    BY KeyKinds, RequestFacts DEF CallKinds
  <2> QED
    BY <1>1, <2>1, CallTyped
<1>3. CASE UNCHANGED service
  BY <1>1, <1>2, <1>3, FutureLocks DEF service
<1>4. CASE /\ records[c].status \in {"scheduled", "cancellation-required"}
           /\ records' = Status(c, "cancellation-pending")
           /\ UNCHANGED pending
  <2>1. records[c].status \in Live /\ "cancellation-pending" \in Live
    BY <1>4 DEF Live
  <2> QED
    BY <1>1, <1>2, <1>4, <2>1, FutureStatus
<1> QED
  BY <1>c, <1>3, <1>4 DEF Cancel

\* A cancellation that was refused, or whose answer was lost, orphans nothing.
LEMMA FutureUnserved ==
  ASSUME IInv, FutureInv, NEW c \in Callbacks, holder[c] # Free, Releases(c), now' = now,
         \/ Refused(c) /\ Rejected(c) /\ holder[c].call \in {"cancel", "remove"}
         \/ Refused(c) /\ UNCHANGED <<records, pending>>
         \/ Lost(c, 0) /\ UNCHANGED <<records, pending>>
  PROVE  FutureInv'
<1>1. /\ holder'[c].call = "none" /\ \A d \in Callbacks \ {c} : holder'[d] = holder[d]
  BY ReleaseTyped DEF IInv
<1>2. CASE Refused(c) /\ Rejected(c) /\ holder[c].call \in {"cancel", "remove"}
  <2>1. records[c].status \in Live /\ "cancellation-required" \in Live
    BY <1>2 DEF IInv, Local, HolderRight, Live
  <2> QED
    BY <1>1, <1>2, <2>1, FutureStatus DEF Refused, Rejected
<1>3. CASE Refused(c) /\ UNCHANGED <<records, pending>>
  BY <1>1, <1>3, FutureLocks DEF Refused
<1>4. CASE Lost(c, 0) /\ UNCHANGED <<records, pending>>
  BY <1>1, <1>4, FutureLocks DEF Lost, Serve
<1> QED
  BY <1>2, <1>3, <1>4

LEMMA FutureCancelReturns ==
  ASSUME IInv, FutureInv, NEW c \in Callbacks, CancelReturns(c)
  PROVE  FutureInv'
<1>1. /\ holder[c].call = "cancel" /\ Releases(c) /\ now' = now /\ TypeOK /\ Local(c)
  BY DEF CancelReturns, IInv
<1>2. holder[c] # Free
  BY <1>1, HeldIfCalling DEF CallKinds
<1>3. /\ holder'[c].call = "none" /\ \A d \in Callbacks \ {c} : holder'[d] = holder[d]
  BY <1>1, ReleaseTyped
<1>4. CASE Served(c, 0) /\ records' = Status(c, "canceled") /\ UNCHANGED pending
  <2>1. /\ records[c] # NoRecord /\ "canceled" \in RecordKinds /\ "canceled" \notin Live
    BY <1>1, LiveFacts DEF Local, HolderRight, Live, RecordKinds
  <2>2. /\ records'[c].status = "canceled" /\ \A d \in Callbacks \ {c} : records'[d] = records[d]
    BY <1>1, <1>4, <2>1, StatusTyped
  <2>3. armed' = [armed EXCEPT ![c] = 0] /\ acted \subseteq acted'
    BY <1>4 DEF Served, Serve
  <2> QED
    BY <1>1, <1>3, <1>4, <2>1, <2>2, <2>3, FutureOver
<1>5. CASE Refused(c) /\ Rejected(c)
  BY <1>1, <1>2, <1>5, FutureUnserved
<1>6. CASE Lost(c, 0) /\ UNCHANGED service
  BY <1>1, <1>2, <1>6, FutureUnserved DEF service
<1> QED
  BY <1>4, <1>5, <1>6 DEF CancelReturns

\* What is due has no job that is still to run.
LEMMA DueFuture ==
  ASSUME IInv, FutureInv, NEW c \in Callbacks, records[c].status = "scheduled", records[c].at =< now
  PROVE  ~(armed[c] > now) /\ records[c] # NoRecord
<1>1. now \in Nat /\ armed[c] \in {0, records[c].at} /\ records[c].at \in Nat
  BY ArmedTyped DEF FutureInv, Future, Live
<1>2. records[c] # NoRecord
  BY LiveFacts DEF Live
<1> QED
  BY <1>1, <1>2

LEMMA FutureDispatchOne ==
  ASSUME IInv, FutureInv, NEW c \in Callbacks, DispatchOne(c)
  PROVE  FutureInv'
<1>1. /\ holder[c] = Free /\ TypeOK /\ Local(c) /\ UNCHANGED <<now, armed, acted, faults>>
      /\ Free.call = "none" /\ now \in Nat
  BY ArmedTyped DEF DispatchOne, Idle, IInv, provider, Free
<1>2. CASE UNCHANGED <<service, holder>>
  BY <1>1, <1>2, FutureUntouched DEF provider
<1>3. CASE /\ StillDue(c) /\ records' = Status(c, "blocked") /\ UNCHANGED <<pending, holder>>
  <2>1. records[c] # NoRecord /\ ~(armed[c] > now) /\ "blocked" \in RecordKinds /\ "blocked" \notin Live
    BY <1>3, DueFuture DEF StillDue, Due, Live, RecordKinds
  <2>2. /\ records'[c].status = "blocked" /\ \A d \in Callbacks \ {c} : records'[d] = records[d]
    BY <1>1, <1>3, <2>1, StatusTyped
  <2> QED
    BY <1>1, <1>3, <2>1, <2>2, FutureOver
<1>4. CASE /\ StillDue(c) /\ Calls(c, "dial", DialKey(records[c].key), records[c].key)
           /\ UNCHANGED service
  <2>1. Due(c) /\ records[c].key \in Keys
    BY <1>4, LiveFacts DEF StillDue, Due, Live, KeysOf
  <2>2. \A d \in Callbacks \ {c} : holder'[d] = holder[d]
    BY <1>1, <1>4 DEF Calls, TypeOK
  <2> QED
    BY <1>1, <1>4, <2>1, <2>2, FutureLocks DEF service
<1> QED
  BY <1>2, <1>3, <1>4 DEF DispatchOne

LEMMA FutureDialReturns ==
  ASSUME IInv, FutureInv, NEW c \in Callbacks, DialReturns(c)
  PROVE  FutureInv'
<1>1. /\ holder[c].call = "dial" /\ Releases(c) /\ TypeOK /\ Local(c)
      /\ UNCHANGED <<now, pending, armed>>
  BY DEF DialReturns, IInv
<1>2. /\ holder'[c].call = "none" /\ \A d \in Callbacks \ {c} : holder'[d] = holder[d]
      /\ acted \subseteq acted'
  BY <1>1, ReleaseTyped DEF DialReturns
<1>3. CASE records' = Status(c, "dispatched")
  <2>1. records[c].status = "scheduled" /\ records[c].at =< now
    BY <1>1 DEF Local, HolderRight, FutureInv, Future
  <2>2. /\ records[c] # NoRecord /\ ~(armed[c] > now) /\ "dispatched" \in RecordKinds
        /\ "dispatched" \notin Live
    BY <2>1, DueFuture DEF Live, RecordKinds
  <2>3. /\ records'[c].status = "dispatched" /\ \A d \in Callbacks \ {c} : records'[d] = records[d]
    BY <1>1, <1>3, <2>2, StatusTyped
  <2> QED
    BY <1>1, <1>2, <2>2, <2>3, FutureOver
<1>4. CASE UNCHANGED records
  BY <1>1, <1>2, <1>4, FutureLocks
<1> QED
  BY <1>3, <1>4 DEF DialReturns

LEMMA FutureUnscheduleReturns ==
  ASSUME IInv, FutureInv, NEW c \in Callbacks, UnscheduleReturns(c)
  PROVE  FutureInv'
<1>k. PICK k : k = holder[c].for
  OBVIOUS
<1>1. /\ holder[c].call = "unschedule" /\ Releases(c) /\ TypeOK /\ Local(c)
      /\ UNCHANGED <<now, records>>
  BY DEF UnscheduleReturns, IInv
<1>2. /\ holder[c] # Free
      /\ k \in KeysOf(c) /\ k \in Keys /\ records[c].status \notin Live
  BY <1>1, <1>k, HeldIfCalling DEF CallKinds, SweepCalls, Local, HolderRight, PendingRight, KeysOf
<1>3. /\ holder'[c].call = "none" /\ \A d \in Callbacks \ {c} : holder'[d] = holder[d]
  BY <1>1, ReleaseTyped
<1>4. CASE Served(c, 0) /\ pending' = [pending EXCEPT ![k] = 0]
  <2>1. armed' = [armed EXCEPT ![c] = 0] /\ acted \subseteq acted'
    BY <1>4 DEF Served, Serve
  <2>2. \A d \in Callbacks \ {c} : \A q \in KeysOf(d) : pending'[q] = pending[q]
    BY <1>1, <1>2, <1>4 DEF TypeOK, KeysOf
  <2> QED
    BY <1>1, <1>2, <1>3, <2>1, <2>2, FutureOver
<1>5. CASE Refused(c) /\ UNCHANGED pending
  BY <1>1, <1>2, <1>5, FutureUnserved
<1>6. CASE Lost(c, 0) /\ UNCHANGED pending
  BY <1>1, <1>2, <1>6, FutureUnserved
<1> QED
  BY <1>k, <1>4, <1>5, <1>6 DEF UnscheduleReturns, OutcomeUnknown

LEMMA FutureRemovePending ==
  ASSUME IInv, FutureInv, NEW s \in Owners, NEW k \in Keys, RemovePending(s, k)
  PROVE  FutureInv'
<1>c. PICK c \in Callbacks : c = RequestOf(k).callback
  BY RequestFacts
<1>1. /\ TypeOK /\ UNCHANGED <<now, armed, acted, faults>> /\ now \in Nat
  BY <1>c, ArmedTyped DEF RemovePending, provider, IInv
<1>2. CASE UNCHANGED <<service, holder>>
  BY <1>1, <1>2, FutureUntouched DEF provider
<1>3. ASSUME NEW key, Calls(c, "unschedule", key, k), UNCHANGED <<records, pending>>
      PROVE  FutureInv'
  <2>1. holder'[c].call = "unschedule" /\ \A d \in Callbacks \ {c} : holder'[d] = holder[d]
    BY <1>1, <1>3 DEF Calls, TypeOK
  <2> QED
    BY <1>1, <1>3, <2>1, FutureLocks
<1> QED
  BY <1>c, <1>2, <1>3 DEF RemovePending, service

LEMMA FutureRemoveRecord ==
  ASSUME IInv, FutureInv, NEW c \in Callbacks, RemoveRecord(c)
  PROVE  FutureInv'
<1>1. /\ TypeOK /\ UNCHANGED <<now, armed, acted, faults>> /\ now \in Nat /\ holder[c].call = "none"
  BY ArmedTyped DEF RemoveRecord, provider, IInv, Idle, Free
<1>2. ASSUME NEW call \in {"remove", "forget"}, NEW key, Calls(c, call, key, records[c].key)
      PROVE  holder'[c].call = call /\ \A d \in Callbacks \ {c} : holder'[d] = holder[d]
  BY <1>1, <1>2 DEF Calls, TypeOK
<1>3. CASE /\ records[c].status \in {"scheduled", "cancellation-required"}
           /\ records' = Status(c, "cancellation-pending")
           /\ Calls(c, "remove", NextCleanupKey(c, incarnation[c]), records[c].key)
           /\ UNCHANGED pending
  <2>1. /\ records[c].status \in Live /\ "cancellation-pending" \in Live
        /\ holder'[c].call = "remove" /\ \A d \in Callbacks \ {c} : holder'[d] = holder[d]
    BY <1>2, <1>3 DEF Live
  <2> QED
    BY <1>1, <1>3, <2>1, FutureStatus
<1>4. ASSUME NEW call \in {"remove", "forget"}, NEW key, Calls(c, call, key, records[c].key),
             UNCHANGED <<records, pending>>
      PROVE  FutureInv'
  BY <1>1, <1>2, <1>4, FutureLocks
<1>5. CASE records[c].status \in {"blocked", "canceled"} /\ Drop(c) /\ UNCHANGED holder
  <2>1. /\ Future(c) /\ records[c].status \notin Live /\ UNCHANGED pending
    BY <1>5 DEF FutureInv, Drop, Live
  <2>2. /\ records'[c].status \notin Live /\ \A d \in Callbacks \ {c} : records'[d] = records[d]
    BY <1>1, <1>5 DEF Drop, NoRecord, Live, TypeOK
  <2>3. Future(c)'
    BY <1>1, <1>5, <2>1, <2>2, FutureKept
  <2>4. Elsewhere(c)
    BY <1>1, <1>5, <2>1, <2>2 DEF Elsewhere
  <2> QED
    BY <2>3, <2>4, FutureElsewhere
<1> QED
  BY <1>3, <1>4, <1>5 DEF RemoveRecord, service

LEMMA FutureRemoveReturns ==
  ASSUME IInv, FutureInv, NEW c \in Callbacks, RemoveReturns(c)
  PROVE  FutureInv'
<1>1. /\ holder[c].call \in {"remove", "forget"} /\ Releases(c) /\ now' = now /\ TypeOK
  BY DEF RemoveReturns, IInv
<1>2. holder[c] # Free
  BY <1>1, HeldIfCalling DEF CallKinds, SweepCalls
<1>3. /\ holder'[c].call = "none" /\ \A d \in Callbacks \ {c} : holder'[d] = holder[d]
  BY <1>1, ReleaseTyped
<1>4. CASE Served(c, 0) /\ Drop(c)
  <2>1. /\ records'[c].status \notin Live /\ UNCHANGED pending
        /\ \A d \in Callbacks \ {c} : records'[d] = records[d]
    BY <1>1, <1>4 DEF Drop, NoRecord, Live, TypeOK
  <2>2. armed' = [armed EXCEPT ![c] = 0] /\ acted \subseteq acted'
    BY <1>4 DEF Served, Serve
  <2> QED
    BY <1>1, <1>3, <2>1, <2>2, FutureOver
<1>5. CASE Refused(c) /\ holder[c].call = "remove" /\ Rejected(c)
  BY <1>1, <1>2, <1>5, FutureUnserved
<1>6. CASE (Lost(c, 0) \/ Refused(c)) /\ UNCHANGED service
  BY <1>1, <1>2, <1>6, FutureUnserved DEF service
<1> QED
  BY <1>4, <1>5, <1>6 DEF RemoveReturns

LEMMA FutureEndSweep ==
  ASSUME IInv, FutureInv, NEW s \in Owners, EndSweep(s)
  PROVE  FutureInv'
<1>1. /\ sweep[s].stage = "records" /\ sweep[s].left = {}
      /\ acted' = {key \in acted : CallbackOf(key) \notin Of(s)}
      /\ UNCHANGED <<now, records, pending, holder, armed>>
  BY DEF EndSweep
<1>2. ASSUME NEW c \in Callbacks PROVE Future(c)'
  <2>1. now \in Nat /\ Future(c) /\ Local(c) /\ TypeOK
    BY ArmedTyped DEF FutureInv, IInv
  <2>2. CASE OwnerOf[c] = s
    <3>1. records[c] = NoRecord /\ \A k \in KeysOf(c) : pending[k] = 0
      BY <1>1, <2>1, <2>2 DEF Local, SweepRight
    <3>2. records[c].status \notin Live /\ holder[c].call # "dial"
      BY <2>1, <3>1 DEF NoRecord, Live, Local, HolderRight
    <3>3. ~(armed[c] > now)
      BY <2>1, <3>1, <3>2 DEF Future
    <3> QED
      BY <1>1, <3>2, <3>3, FutureQuiet
  <2>3. CASE OwnerOf[c] # s
    <3>1. \A k \in KeysOf(c) : ClientKey(k) \in acted => ClientKey(k) \in acted'
      <4>1. \A k \in KeysOf(c) : CallbackOf(ClientKey(k)) = c
        BY KeyKinds, RequestFacts DEF KeysOf
      <4> QED
        BY <1>1, <2>3, <4>1 DEF Of
    <3> QED
      BY <1>1, <2>1, <3>1, FutureKept
  <2> QED
    BY <2>2, <2>3
<1> QED
  BY <1>2 DEF FutureInv

LEMMA FutureStep == IInv /\ FutureInv /\ [Next]_vars /\ [NoneReplaced]_vars => FutureInv'
<1> SUFFICES ASSUME IInv, FutureInv, [Next]_vars, [NoneReplaced]_vars PROVE FutureInv'
  OBVIOUS
<1>1. CASE UNCHANGED vars
  BY <1>1 DEF vars, service, provider, FutureInv, Future, KeysOf, RequestOf
<1>2. CASE Next /\ NoneReplaced
  <2>1. ASSUME NEW r \in Schedules, Schedule(r) PROVE FutureInv'
    BY <1>2, <2>1, FutureSchedule
  <2>2. ASSUME NEW r \in Cancels, Cancel(r) PROVE FutureInv'
    BY <2>2, FutureCancel
  <2>3. ASSUME NEW c \in Callbacks, DispatchOne(c) PROVE FutureInv'
    BY <2>3, FutureDispatchOne
  <2>4. ASSUME NEW c \in Callbacks, Returns(c) PROVE FutureInv'
    BY <2>4, FutureScheduleReturns, FutureCancelReturns, FutureDialReturns, FutureUnscheduleReturns,
       FutureRemoveReturns DEF Returns
  <2>5. ASSUME NEW s \in Owners, SweepStep(s) PROVE FutureInv'
    <3>1. ASSUME NEW k \in Keys, RemovePending(s, k) PROVE FutureInv'
      BY <3>1, FutureRemovePending
    <3>2. ASSUME NEW c \in Of(s), RemoveRecord(c) PROVE FutureInv'
      BY <3>2, FutureRemoveRecord DEF Of
    <3>3. CASE SweepRecords(s)
      BY <3>3, ArmedTyped, FutureUntouched DEF SweepRecords, FutureInv, IInv, TypeOK
    <3> QED
      BY <2>5, <3>1, <3>2, <3>3, FutureEndSweep DEF SweepStep
  <2>6. ASSUME NEW s \in Owners, BeginSweep(s) \/ OptOut(s) PROVE FutureInv'
    BY <2>6, ArmedTyped, FutureUntouched DEF BeginSweep, OptOut, FutureInv
  <2>7. CASE Dispatch \/ Tick
    BY <2>7, ArmedTyped, FutureUntouched DEF Dispatch, Tick, FutureInv
  <2> QED
    BY <1>2, <2>1, <2>2, <2>3, <2>4, <2>5, <2>6, <2>7 DEF Next
<1> QED
  BY <1>1, <1>2

LEMMA FutureHolds == Spec /\ [][NoneReplaced]_vars => []FutureInv
<1>1. Init => FutureInv
  BY DEF Init, FutureInv, Future, NoRecord, Free, Live
<1> QED
  BY Inductive, <1>1, FutureStep, PTL DEF Spec

LEMMA KnownFollows == IInv /\ FutureInv => FutureJobsAreKnown
<1> SUFFICES ASSUME IInv, FutureInv, NEW c \in Callbacks, armed[c] > now PROVE c \in Active
  BY DEF FutureJobsAreKnown
<1>1. \/ records[c].status \in Live
      \/ \E k \in KeysOf(c) : pending[k] # 0
  BY DEF FutureInv, Future
<1> QED
  BY <1>1, PendingOf DEF Active

LEMMA ClosedFollows == IInv /\ FutureInv => ClosedLeavesNothing
<1> SUFFICES ASSUME IInv, FutureInv, NEW s \in Owners, ended[s] = "closed"
             PROVE  /\ \A c \in Of(s) : /\ records[c] = NoRecord /\ PendingKeys(c) = {}
                                        /\ armed[c] =< now
                                        /\ cancelKey[c] = NoKey /\ incarnation[c] = 0
                    /\ \A key \in failed : CallbackOf(key) \notin Of(s)
                    /\ \A a \in DOMAIN attempts : OwnerOf[a[1]] # s
  BY DEF ClosedLeavesNothing
<1>1. ASSUME NEW c \in Of(s)
      PROVE  /\ c \in Callbacks /\ Local(c) /\ records[c] = NoRecord
             /\ \A k \in KeysOf(c) : pending[k] = 0
             /\ FailedOf(c) = {} /\ cancelKey[c] = NoKey /\ incarnation[c] = 0
  <2>1. c \in Callbacks /\ OwnerOf[c] = s /\ Local(c)
    BY DEF Of, IInv
  <2>2. records[c] = NoRecord /\ FailedOf(c) = {} /\ \A k \in KeysOf(c) : pending[k] = 0
    BY <2>1 DEF Local, SweepRight
  <2> QED
    BY <2>1, <2>2 DEF Local, RecordRight
<1>2. ASSUME NEW c \in Of(s) PROVE PendingKeys(c) = {} /\ armed[c] =< now
  <2>1. PendingKeys(c) = {}
    BY <1>1, PendingOf
  <2>2. ~(armed[c] > now)
    BY <1>1 DEF FutureInv, Future, NoRecord, Live
  <2>3. armed[c] \in Nat /\ now \in Nat
    BY <1>1, ArmedTyped
  <2> QED
    BY <2>1, <2>2, <2>3
<1>3. ASSUME NEW key \in failed PROVE CallbackOf(key) \notin Of(s)
  BY <1>1 DEF FailedOf
<1>4. ASSUME NEW a \in DOMAIN attempts PROVE OwnerOf[a[1]] # s
  <2>1. TypeOK
    BY DEF IInv
  <2>2. PICK c \in Callbacks, i \in 1..sequence : a = <<c, i>>
    BY <2>1 DEF TypeOK
  <2>3. SUFFICES ASSUME OwnerOf[c] = s PROVE FALSE
    BY <2>2
  <2>4. i \in Nat /\ i # 0
    BY <2>1 DEF TypeOK
  <2>5. Spent(c, i) > 0
    BY <2>1, <2>2, <2>4, SpentFacts
  <2>6. Alive(c, i)
    BY <2>5 DEF IInv, Local, SpentRight
  <2> QED
    BY <1>1, <2>3, <2>4, <2>6 DEF Alive, Of
<1> QED
  BY <1>1, <1>2, <1>3, <1>4

\* As long as no live callback is replaced by an invalid reschedule, whatever is
\* still to run can be canceled: JobsCancelable.
THEOREM JobsCancelableHolds == Spec /\ [][NoneReplaced]_vars => []JobsCancelable
<1>1. IInv /\ FutureInv => JobsCancelable
  BY KnownFollows, IncarnationFollows, UnusedFollows DEF JobsCancelable
<1> QED
  BY Inductive, FutureHolds, <1>1, PTL

\* And a closed session has left nothing behind: ClosedLeavesNothing.
THEOREM ClosedHolds == Spec /\ [][NoneReplaced]_vars => []ClosedLeavesNothing
BY Inductive, FutureHolds, ClosedFollows, PTL

\* The sequence of requests that replaces a live callback is the only obstacle: where
\* the requests of a callback agree on its time, and none is beyond the horizon, no
\* live callback is replaced, and nothing is orphaned: CanceledBeforeRemoval.
THEOREM AgreedTimesSuffice ==
  ASSUME \A r, q \in Schedules : r.callback = q.callback => r.at = q.at,
         \A r \in Schedules : r.at =< MaxFuture
  PROVE  Spec => []JobsCancelable /\ []ClosedLeavesNothing /\ []CanceledBeforeRemoval
<1>1. IInv /\ [Next]_vars => [NoneReplaced]_vars
  <2> SUFFICES ASSUME IInv, Next, NEW c \in Callbacks, records[c].status \in Live,
                      records[c].at > now, records'[c].status = "blocked"
               PROVE  FALSE
    BY DEF NoneReplaced
  <2>1. /\ TypeOK /\ Local(c) /\ records[c] # NoRecord /\ records[c].key \in KeysOf(c)
        /\ "blocked" \notin Live /\ now \in Nat /\ records[c].at \in Nat
    BY LiveFacts, ArmedTyped DEF IInv, Live
  <2>2. records'[c].status # records[c].status
    BY <2>1
  <2>3. ASSUME NEW d \in Callbacks, NEW status, records' = Status(d, status), status # "blocked"
        PROVE  FALSE
    <3>1. CASE d = c
      <4>1. records[c] \in Recorded
        BY <2>1 DEF TypeOK
      <4> QED
        BY <2>1, <2>3, <3>1, <4>1 DEF Status, TypeOK, Recorded
    <3>2. CASE d # c
      BY <2>1, <2>2, <2>3, <3>2 DEF Status, TypeOK
    <3> QED
      BY <3>1, <3>2
  <2>4. ASSUME NEW r \in Schedules, Schedule(r) PROVE FALSE
    <3>1. Block(r) /\ (TimeInvalid(r) \/ Admits(r))
      BY <2>2, <2>4 DEF Schedule, service
    <3>2. r.callback = c /\ r.callback \in Callbacks
      BY <2>1, <2>2, <3>1, RequestsAssumption DEF Block, TypeOK
    <3>3. r.at = records[c].at /\ r.at =< MaxFuture /\ r.at \in Nat
      BY <2>1, <3>2, RequestFacts, RequestsAssumption DEF Local, RecordRight, KeysOf
    <3>4. MaxFuture \in Nat
      BY BoundsAssumption
    <3>5. ~TimeInvalid(r)
      BY <2>1, <3>3, <3>4 DEF TimeInvalid
    <3>6. ~Admits(r)
      BY <3>2 DEF Admits
    <3> QED
      BY <3>1, <3>5, <3>6
  <2>5. ASSUME NEW r \in Cancels, Cancel(r) PROVE FALSE
    <3>1. r.callback \in Callbacks
      BY RequestsAssumption
    <3> QED
      BY <2>2, <2>3, <2>5, <3>1 DEF Cancel, service
  <2>6. ASSUME NEW d \in Callbacks, DispatchOne(d) PROVE FALSE
    <3>1. StillDue(d) /\ records' = Status(d, "blocked")
      BY <2>2, <2>6 DEF DispatchOne, service
    <3>2. d # c
      BY <2>1, <3>1 DEF StillDue, Due
    <3> QED
      BY <2>1, <2>2, <3>1, <3>2 DEF Status, TypeOK
  <2>7. ASSUME NEW d \in Callbacks, ScheduleReturns(d) PROVE FALSE
    <3>1. PICK r : records' = [records EXCEPT ![d] = Record(r, "scheduled")]
      BY <2>2, <2>7 DEF ScheduleReturns
    <3>2. Record(r, "scheduled").status = "scheduled"
      BY DEF Record
    <3> QED
      BY <2>1, <2>2, <3>1, <3>2 DEF TypeOK
  <2>8. ASSUME NEW d \in Callbacks, CancelReturns(d) \/ DialReturns(d) PROVE FALSE
    BY <2>2, <2>3, <2>8 DEF CancelReturns, DialReturns, Rejected, service
  <2>9. ASSUME NEW d \in Callbacks, Drop(d) PROVE FALSE
    BY <2>1, <2>2, <2>9 DEF Drop, NoRecord, TypeOK
  <2>10. ASSUME NEW d \in Callbacks, UnscheduleReturns(d) \/ RemoveReturns(d) PROVE FALSE
    BY <2>2, <2>3, <2>9, <2>10 DEF UnscheduleReturns, RemoveReturns, Rejected, service
  <2>11. ASSUME NEW s \in Owners, SweepStep(s) PROVE FALSE
    <3>1. ASSUME NEW d \in Of(s), RemoveRecord(d) PROVE FALSE
      BY <2>2, <2>3, <2>9, <3>1 DEF RemoveRecord, Of, service
    <3> QED
      BY <2>2, <2>11, <3>1 DEF SweepStep, RemovePending, SweepRecords, EndSweep, service
  <2>12. ASSUME NEW s \in Owners, BeginSweep(s) \/ OptOut(s) PROVE FALSE
    BY <2>2, <2>12 DEF BeginSweep, OptOut, service
  <2>13. CASE Dispatch \/ Tick
    BY <2>2, <2>13 DEF Dispatch, Tick, service
  <2> QED
    BY <2>4, <2>5, <2>6, <2>7, <2>8, <2>10, <2>11, <2>12, <2>13 DEF Next, Returns
<1>2. Spec => [][NoneReplaced]_vars
  BY Inductive, <1>1, PTL DEF Spec
<1>3. ClosedLeavesNothing => CanceledBeforeRemoval
  BY OwnersAssumption DEF ClosedLeavesNothing, CanceledBeforeRemoval, Of
<1> QED
  BY <1>2, <1>3, JobsCancelableHolds, ClosedHolds, PTL
=============================================================================
