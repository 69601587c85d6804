---------------------------- MODULE MessagingProofs ----------------------------
(***************************************************************************)
(* Proofs about Messaging, for any windows, capacities, operations and     *)
(* numbers of messages and attempts.                                       *)
(***************************************************************************)
EXTENDS Messaging, FiniteSetTheorems, SequenceTheorems, WellFoundedInduction, TLAPS

-----------------------------------------------------------------------------
(***************************************************************************)
(* The sends of an operation, counted.                                     *)
(***************************************************************************)
Places(s, outcome) == {n \in DOMAIN s : s[n] = outcome}
Taken(k) == Cardinality(Places(attempts[k], "accepted"))
Flying(k) == Cardinality(Places(attempts[k], "flying"))

OpsTyped == /\ ops \in [Keys -> Operation] /\ results \in [Keys -> Statuses]
            /\ attempts \in [Keys -> Seq(Outcomes)]

Refusals == {"refused-invalid-destination", "refused-would-be-charged"}

\* Requests that were or may yet be taken are those that went unanswered, the
\* one in flight, and the one whose answer is stored.
SendsCounted ==
  \A k \in Keys :
    Taken(k) + Flying(k) =< ops[k].unanswered
                              + (IF ops[k].stage = "posting" THEN 1 ELSE 0)
                              + (IF results[k] = "sent" THEN 1 ELSE 0)

\* What is stored and what was told come from what happened.
AnswersStored ==
  \A k \in Keys :
    /\ ops[k].stage = "posting" => /\ results[k] = "none" /\ ops[k].told = "raised"
                                   /\ attempts[k] # <<>>
    /\ "sent" \in {results[k], ops[k].told} => Taken(k) >= 1
    /\ ops[k].told \in Refusals => results[k] = ops[k].told

SendInv == OpsTyped /\ SendsCounted /\ AnswersStored

LEMMA PlacesFinite ==
  ASSUME NEW s \in Seq(Outcomes), NEW x
  PROVE  /\ IsFiniteSet(Places(s, x)) /\ Cardinality(Places(s, x)) \in Nat
         /\ Places(s, x) \subseteq 1..Len(s)
<1>1. Places(s, x) \subseteq 1..Len(s)
  BY DEF Places
<1>2. IsFiniteSet(1..Len(s))
  BY FS_Interval
<1> QED
  BY <1>1, <1>2, FS_Subset, FS_CardinalityType

\* Another attempt.
LEMMA PlacesAppend ==
  ASSUME NEW s \in Seq(Outcomes), NEW o \in Outcomes, NEW x
  PROVE  Cardinality(Places(Append(s, o), x))
           = Cardinality(Places(s, x)) + (IF o = x THEN 1 ELSE 0)
<1>1. CASE o = x
  <2>1. Places(Append(s, o), x) = Places(s, x) \cup {Len(s) + 1}
    BY <1>1 DEF Places
  <2>2. Len(s) + 1 \notin Places(s, x)
    BY DEF Places
  <2> QED
    BY <1>1, <2>1, <2>2, PlacesFinite, FS_AddElement
<1>2. CASE o # x
  <2>1. Places(Append(s, o), x) = Places(s, x)
    BY <1>2 DEF Places
  <2> QED
    BY <1>2, <2>1, PlacesFinite
<1> QED
  BY <1>1, <1>2

\* An attempt in flight meets its outcome.
LEMMA PlacesSettle ==
  ASSUME NEW s \in Seq(Outcomes), NEW n \in DOMAIN s, s[n] = "flying",
         NEW o \in {"accepted", "rejected"}
  PROVE  LET settled == [s EXCEPT ![n] = o]
         IN  /\ settled \in Seq(Outcomes)
             /\ Cardinality(Places(settled, "flying")) = Cardinality(Places(s, "flying")) - 1
             /\ Cardinality(Places(settled, "accepted"))
                  = Cardinality(Places(s, "accepted")) + (IF o = "accepted" THEN 1 ELSE 0)
<1> DEFINE settled == [s EXCEPT ![n] = o]
<1>1. settled \in Seq(Outcomes)
  BY DEF Outcomes
<1>2. Places(settled, "flying") = Places(s, "flying") \ {n} /\ n \in Places(s, "flying")
  BY DEF Places
<1>3. Cardinality(Places(settled, "flying")) = Cardinality(Places(s, "flying")) - 1
  BY <1>2, PlacesFinite, FS_RemoveElement
<1>4. CASE o = "accepted"
  <2>1. Places(settled, "accepted") = Places(s, "accepted") \cup {n} /\ n \notin Places(s, "accepted")
    BY <1>4 DEF Places
  <2> QED
    BY <1>1, <1>3, <1>4, <2>1, PlacesFinite, FS_AddElement
<1>5. CASE o # "accepted"
  <2>1. Places(settled, "accepted") = Places(s, "accepted")
    BY <1>5 DEF Places
  <2> QED
    BY <1>1, <1>3, <1>5, <2>1, PlacesFinite
<1> QED
  BY <1>4, <1>5

\* A send that the provider answered with an error was its key's last.
LEMMA FrontRejected ==
  ASSUME NEW s \in Seq(Outcomes), s # <<>>
  PROVE  /\ Len(s) \in DOMAIN s
         /\ Append(Front(s), "rejected") = [s EXCEPT ![Len(s)] = "rejected"]
<1>1. Len(s) \in Nat \ {0} /\ DOMAIN s = 1..Len(s)
  OBVIOUS
<1>2. /\ Front(s) \in Seq(Outcomes) /\ Len(Front(s)) = Len(s) - 1
      /\ \A i \in 1..(Len(s) - 1) : Front(s)[i] = s[i]
  BY <1>1 DEF Front
<1>3. "rejected" \in Outcomes
  BY DEF Outcomes
<1>4. \A front \in Seq(Outcomes) :
        Len(front) = Len(s) - 1 /\ (\A i \in 1..(Len(s) - 1) : front[i] = s[i])
          => Append(front, "rejected") = [s EXCEPT ![Len(s)] = "rejected"]
  <2> SUFFICES ASSUME NEW front \in Seq(Outcomes), Len(front) = Len(s) - 1,
                      \A i \in 1..(Len(s) - 1) : front[i] = s[i]
               PROVE  Append(front, "rejected") = [s EXCEPT ![Len(s)] = "rejected"]
    OBVIOUS
  <2>1. Append(front, "rejected") = [i \in 1..Len(s) |-> IF i = Len(s) THEN "rejected" ELSE s[i]]
    <3> DEFINE replaced == Append(front, "rejected")
               wanted == [i \in 1..Len(s) |-> IF i = Len(s) THEN "rejected" ELSE s[i]]
    <3>1. /\ replaced \in Seq(Outcomes) /\ Len(replaced) = Len(front) + 1
          /\ \A i \in 1..Len(front) : replaced[i] = front[i]
          /\ replaced[Len(front) + 1] = "rejected"
      BY <1>3, AppendProperties
    <3>2. wanted \in Seq(Outcomes) /\ Len(wanted) = Len(s)
      BY <1>1, <1>3
    <3> HIDE DEF replaced
    <3>3. Len(replaced) = Len(wanted) /\ \A i \in 1..Len(replaced) : replaced[i] = wanted[i]
      BY <1>1, <3>1, <3>2
    <3> HIDE DEF wanted
    <3>4. replaced = wanted
      BY <3>1, <3>2, <3>3, SeqEqual
    <3> QED
      BY <3>4 DEF replaced, wanted
  <2>2. [s EXCEPT ![Len(s)] = "rejected"] = [i \in 1..Len(s) |-> IF i = Len(s) THEN "rejected" ELSE s[i]]
    BY <1>1
  <2> QED
    BY <2>1, <2>2
<1>5. Len(s) \in DOMAIN s
  BY <1>1
<1> QED
  BY <1>2, <1>4, <1>5

\* The two counts of a key are numbers.
LEMMA CountsAreNumbers ==
  ASSUME OpsTyped, NEW k \in Keys
  PROVE  Taken(k) \in Nat /\ Flying(k) \in Nat
BY PlacesFinite DEF OpsTyped, Taken, Flying

\* A step of one operation, as the counts see it.
LEMMA SendMoves ==
  ASSUME SendInv, NEW k \in Keys,
         OpsTyped',
         \A j \in Keys : j # k => /\ ops'[j] = ops[j] /\ results'[j] = results[j]
                                  /\ attempts'[j] = attempts[j],
         Taken(k)' + Flying(k)' =< ops'[k].unanswered
                              + (IF ops'[k].stage = "posting" THEN 1 ELSE 0)
                              + (IF results'[k] = "sent" THEN 1 ELSE 0),
         ops'[k].stage = "posting" => /\ results'[k] = "none" /\ ops'[k].told = "raised"
                                      /\ attempts'[k] # <<>>,
         "sent" \in {results'[k], ops'[k].told} => Taken(k)' >= 1,
         ops'[k].told \in Refusals => results'[k] = ops'[k].told
  PROVE  SendInv'
<1>1. SendsCounted'
  <2> SUFFICES ASSUME NEW j \in Keys
               PROVE  Taken(j)' + Flying(j)' =< ops'[j].unanswered
                              + (IF ops'[j].stage = "posting" THEN 1 ELSE 0)
                              + (IF results'[j] = "sent" THEN 1 ELSE 0)
    BY DEF SendsCounted
  <2>1. CASE j = k
    BY <2>1
  <2>2. CASE j # k
    BY <2>2 DEF SendInv, SendsCounted, Taken, Flying
  <2> QED
    BY <2>1, <2>2
<1>2. AnswersStored'
  <2> SUFFICES ASSUME NEW j \in Keys
               PROVE  /\ ops'[j].stage = "posting" =>
                           /\ results'[j] = "none" /\ ops'[j].told = "raised"
                           /\ attempts'[j] # <<>>
                      /\ "sent" \in {results'[j], ops'[j].told} => Taken(j)' >= 1
                      /\ ops'[j].told \in Refusals => results'[j] = ops'[j].told
    BY DEF AnswersStored
  <2>1. CASE j = k
    BY <2>1
  <2>2. CASE j # k
    BY <2>2 DEF SendInv, AnswersStored, Taken
  <2> QED
    BY <2>1, <2>2
<1> QED
  BY <1>1, <1>2 DEF SendInv

\* What the invariant says of one operation, its parts spelt out.
LEMMA OperationFacts ==
  ASSUME SendInv, NEW k \in Keys
  PROVE  /\ ops[k] = [stage |-> ops[k].stage, request |-> ops[k].request,
                      told |-> ops[k].told, unanswered |-> ops[k].unanswered]
         /\ ops[k].stage \in Stages /\ ops[k].request \in Requests \union {NoRequest}
         /\ ops[k].told \in Statuses \union {"raised"} /\ ops[k].unanswered \in Nat
         /\ results[k] \in Statuses /\ attempts[k] \in Seq(Outcomes)
         /\ Taken(k) \in Nat /\ Flying(k) \in Nat
         /\ Taken(k) + Flying(k) =< ops[k].unanswered
                              + (IF ops[k].stage = "posting" THEN 1 ELSE 0)
                              + (IF results[k] = "sent" THEN 1 ELSE 0)
         /\ ops[k].stage = "posting" => /\ results[k] = "none" /\ ops[k].told = "raised"
                                        /\ attempts[k] # <<>>
         /\ "sent" \in {results[k], ops[k].told} => Taken(k) >= 1
         /\ ops[k].told \in Refusals => results[k] = ops[k].told
<1>1. ops[k] \in Operation
  BY DEF SendInv, OpsTyped
<1>2. ops[k] = [stage |-> ops[k].stage, request |-> ops[k].request,
                      told |-> ops[k].told, unanswered |-> ops[k].unanswered]
  BY <1>1 DEF Operation
<1>3. /\ ops[k].stage \in Stages /\ ops[k].request \in Requests \union {NoRequest}
      /\ ops[k].told \in Statuses \union {"raised"} /\ ops[k].unanswered \in Nat
  BY <1>1 DEF Operation
<1> QED
  BY <1>2, <1>3, CountsAreNumbers DEF SendInv, OpsTyped, SendsCounted, AnswersStored

\* An operation replaced by another.
LEMMA OpReplaced ==
  ASSUME OpsTyped, NEW k \in Keys, NEW op \in Operation, ops' = [ops EXCEPT ![k] = op]
  PROVE  /\ ops' \in [Keys -> Operation] /\ ops'[k] = op
         /\ \A j \in Keys : j # k => ops'[j] = ops[j]
BY DEF OpsTyped

\* The turn's own steps, which post nothing: an operation, and perhaps its
\* result, are replaced.
LEMMA TurnMoves ==
  ASSUME SendInv, NEW k \in Keys, NEW op \in Operation, NEW result \in Statuses,
         ops' = [ops EXCEPT ![k] = op], results' = [results EXCEPT ![k] = result],
         attempts' = attempts,
         Taken(k) + Flying(k) =< op.unanswered + (IF op.stage = "posting" THEN 1 ELSE 0)
                                  + (IF result = "sent" THEN 1 ELSE 0),
         op.stage # "posting",
         "sent" \in {result, op.told} => Taken(k) >= 1,
         op.told \in Refusals => result = op.told
  PROVE  SendInv'
<1>1. /\ ops' \in [Keys -> Operation] /\ ops'[k] = op
      /\ \A j \in Keys : j # k => ops'[j] = ops[j]
  BY OpReplaced DEF SendInv
<1>2. /\ results' \in [Keys -> Statuses] /\ results'[k] = result
      /\ \A j \in Keys : j # k => results'[j] = results[j]
  BY DEF SendInv, OpsTyped
<1>3. OpsTyped'
  BY <1>1, <1>2 DEF SendInv, OpsTyped
<1>4. Taken(k)' = Taken(k) /\ Flying(k)' = Flying(k)
  BY DEF Taken, Flying
<1> QED
  BY <1>1, <1>2, <1>3, <1>4, SendMoves

\* The provider's steps on the requests of one key.
LEMMA RequestMoves ==
  ASSUME SendInv, NEW k \in Keys, NEW op \in Operation, NEW sends \in Seq(Outcomes),
         ops' = [ops EXCEPT ![k] = op], results' = results,
         attempts' = [attempts EXCEPT ![k] = sends],
         Cardinality(Places(sends, "accepted")) + Cardinality(Places(sends, "flying"))
           =< op.unanswered + (IF op.stage = "posting" THEN 1 ELSE 0)
                 + (IF results[k] = "sent" THEN 1 ELSE 0),
         op.stage = "posting" => results[k] = "none" /\ op.told = "raised" /\ sends # <<>>,
         "sent" \in {results[k], op.told} => Cardinality(Places(sends, "accepted")) >= 1,
         op.told \in Refusals => results[k] = op.told
  PROVE  SendInv'
<1>1. /\ ops' \in [Keys -> Operation] /\ ops'[k] = op
      /\ \A j \in Keys : j # k => ops'[j] = ops[j]
  BY OpReplaced DEF SendInv
<1>2. /\ attempts' \in [Keys -> Seq(Outcomes)] /\ attempts'[k] = sends
      /\ \A j \in Keys : j # k => attempts'[j] = attempts[j]
  BY DEF SendInv, OpsTyped
<1>3. OpsTyped'
  BY <1>1, <1>2 DEF SendInv, OpsTyped
<1>4. /\ Taken(k)' = Cardinality(Places(sends, "accepted"))
      /\ Flying(k)' = Cardinality(Places(sends, "flying"))
  BY <1>2 DEF Taken, Flying
<1> QED
  BY <1>1, <1>2, <1>3, <1>4, SendMoves

-----------------------------------------------------------------------------
(* The steps. *)

\* A turn that is blocked or over forgets its request and nothing else.
LEMMA CloseMoves ==
  ASSUME SendInv, NEW k \in Keys, ops[k].stage # "posting",
         ops' = [ops EXCEPT ![k] = Closed(@)], results' = results, attempts' = attempts
  PROVE  SendInv'
<1> DEFINE op == Closed(ops[k])
<1>1. /\ op \in Operation /\ op.stage = "done" /\ op.told = ops[k].told
      /\ op.unanswered = ops[k].unanswered
  <2>1. ops[k] \in Operation /\ "done" \in Stages /\ NoRequest \in Requests \union {NoRequest}
    BY DEF SendInv, OpsTyped, Stages
  <2> HIDE DEF NoRequest
  <2> QED
    BY <2>1 DEF Closed, Operation
<1>2. ops' = [ops EXCEPT ![k] = op]
  BY DEF SendInv, OpsTyped
<1>3. results' = [results EXCEPT ![k] = results[k]] /\ results[k] \in Statuses
  BY DEF SendInv, OpsTyped
<1> HIDE DEF op
<1> QED
  <2>1. /\ Taken(k) + Flying(k) =< op.unanswered + (IF op.stage = "posting" THEN 1 ELSE 0)
                                     + (IF results[k] = "sent" THEN 1 ELSE 0)
        /\ "sent" \in {results[k], op.told} => Taken(k) >= 1
        /\ op.told \in Refusals => results[k] = op.told
    BY <1>1, OperationFacts
  <2> QED
    BY <1>1, <1>2, <1>3, <2>1, TurnMoves

\* An answer: the stored one, a refusal, or the provider's.
LEMMA AnswerMoves ==
  ASSUME SendInv, NEW k \in Keys, NEW request \in Requests \union {NoRequest},
         NEW told \in Statuses \ {"none"},
         Answer(k, request, told), results' = [results EXCEPT ![k] = told],
         attempts' = attempts,
         results[k] = told \/ results[k] = "none",
         ops[k].stage = "posting" => told = "sent",
         told = "sent" => Taken(k) >= 1,
         told = "sent" /\ results[k] # "sent" => ops[k].stage = "posting"
  PROVE  SendInv'
<1> DEFINE op == [ops[k] EXCEPT !.stage = "answered", !.request = request, !.told = told]
<1>1. /\ op \in Operation /\ op.stage = "answered" /\ op.told = told
      /\ op.unanswered = ops[k].unanswered
  <2>1. /\ "answered" \in Stages /\ told \in Statuses \union {"raised"}
        /\ ops[k] \in Operation
    BY DEF Stages, SendInv, OpsTyped
  <2> QED
    BY <2>1 DEF Operation
<1>2. ops' = [ops EXCEPT ![k] = op]
  BY DEF SendInv, OpsTyped, Answer
<1> HIDE DEF op
<1>3. Taken(k) + Flying(k) =< op.unanswered + (IF op.stage = "posting" THEN 1 ELSE 0)
                                  + (IF told = "sent" THEN 1 ELSE 0)
  <2>1. /\ ops[k].unanswered \in Nat /\ Taken(k) \in Nat /\ Flying(k) \in Nat
        /\ Taken(k) + Flying(k) =< ops[k].unanswered
                              + (IF ops[k].stage = "posting" THEN 1 ELSE 0)
                              + (IF results[k] = "sent" THEN 1 ELSE 0)
        /\ ops[k].stage = "posting" => results[k] = "none"
    BY OperationFacts
  <2>2. CASE ops[k].stage = "posting"
    BY <1>1, <2>1, <2>2
  <2>3. CASE ops[k].stage # "posting"
    BY <1>1, <2>1, <2>3
  <2> QED
    BY <2>2, <2>3
<1> QED
  BY <1>1, <1>2, <1>3, OperationFacts, TurnMoves

LEMMA PostMoves ==
  ASSUME SendInv, NEW k \in Keys, NEW request \in Requests, Post(k, request)
  PROVE  SendInv'
<1> DEFINE op == [ops[k] EXCEPT !.stage = "posting", !.request = request, !.told = "raised"]
           sends == Append(attempts[k], "flying")
<1>1. /\ op \in Operation /\ op.stage = "posting" /\ op.told = "raised"
      /\ op.unanswered = ops[k].unanswered
  <2>1. /\ "posting" \in Stages /\ "raised" \in Statuses \union {"raised"}
        /\ request \in Requests \union {NoRequest} /\ ops[k] \in Operation
    BY DEF Stages, SendInv, OpsTyped
  <2> QED
    BY <2>1 DEF Operation
<1>2. /\ ops' = [ops EXCEPT ![k] = op] /\ attempts' = [attempts EXCEPT ![k] = sends]
      /\ results' = results /\ results[k] = "none" /\ ops[k].stage = "idle"
  BY DEF SendInv, OpsTyped, Post, client, Asked, Idle
<1>3. /\ sends \in Seq(Outcomes) /\ sends # <<>>
      /\ Cardinality(Places(sends, "accepted")) = Taken(k)
      /\ Cardinality(Places(sends, "flying")) = Flying(k) + 1
  <2>1. attempts[k] \in Seq(Outcomes) /\ "flying" \in Outcomes
    BY OperationFacts DEF Outcomes
  <2>2. sends \in Seq(Outcomes) /\ sends # <<>>
    BY <2>1, AppendProperties
  <2>3. Taken(k) \in Nat /\ Flying(k) \in Nat
    BY OperationFacts
  <2> QED
    BY <2>1, <2>2, <2>3, PlacesAppend DEF Taken, Flying
<1> HIDE DEF op, sends
<1>4. Taken(k) + Flying(k) =< ops[k].unanswered /\ ops[k].unanswered \in Nat
      /\ Taken(k) \in Nat /\ Flying(k) \in Nat
  <2>1. /\ ops[k].unanswered \in Nat /\ Taken(k) \in Nat /\ Flying(k) \in Nat
        /\ Taken(k) + Flying(k) =< ops[k].unanswered
                              + (IF ops[k].stage = "posting" THEN 1 ELSE 0)
                              + (IF results[k] = "sent" THEN 1 ELSE 0)
    BY OperationFacts
  <2> QED
    BY <1>2, <2>1
<1>5. /\ Cardinality(Places(sends, "accepted")) + Cardinality(Places(sends, "flying"))
           =< op.unanswered + (IF op.stage = "posting" THEN 1 ELSE 0)
                 + (IF results[k] = "sent" THEN 1 ELSE 0)
      /\ op.told \notin Refusals /\ "sent" \notin {results[k], op.told}
  BY <1>1, <1>2, <1>3, <1>4 DEF Refusals
<1> QED
  BY <1>1, <1>2, <1>3, <1>5, RequestMoves

\* One request of a key meets its outcome; a refused one is the end of the call.
LEMMA SettleMoves ==
  ASSUME SendInv, NEW k \in Keys, NEW n \in DOMAIN attempts[k], attempts[k][n] = "flying",
         NEW o \in {"accepted", "rejected"},
         attempts' = [attempts EXCEPT ![k] = [@ EXCEPT ![n] = o]], results' = results,
         \/ ops' = ops
         \/ ops[k].stage = "posting" /\ o = "rejected" /\ ops' = [ops EXCEPT ![k].stage = "idle"]
  PROVE  SendInv'
<1> DEFINE op == ops'[k]
           sends == [attempts[k] EXCEPT ![n] = o]
<1>1. /\ op \in Operation /\ op.told = ops[k].told /\ op.unanswered = ops[k].unanswered
      /\ ops' = [ops EXCEPT ![k] = op]
      /\ \/ op.stage = ops[k].stage
         \/ op.stage = "idle" /\ ops[k].stage = "posting" /\ o = "rejected"
  <2>1. CASE ops' = ops
    BY <2>1 DEF SendInv, OpsTyped
  <2>2. CASE /\ ops[k].stage = "posting" /\ o = "rejected"
             /\ ops' = [ops EXCEPT ![k].stage = "idle"]
    <3>1. "idle" \in Stages /\ ops[k] \in Operation /\ ops \in [Keys -> Operation]
      BY DEF Stages, SendInv, OpsTyped
    <3>2. \A moved : moved = [ops[k] EXCEPT !.stage = "idle"]
              => /\ moved \in Operation /\ moved.stage = "idle" /\ moved.told = ops[k].told
                 /\ moved.unanswered = ops[k].unanswered
      BY <3>1 DEF Operation
    <3>3. op = [ops[k] EXCEPT !.stage = "idle"] /\ ops' = [ops EXCEPT ![k] = op]
      BY <2>2 DEF SendInv, OpsTyped
    <3> QED
      BY <2>2, <3>2, <3>3
  <2> QED
    BY <2>1, <2>2
<1>2. /\ sends \in Seq(Outcomes)
      /\ Cardinality(Places(sends, "flying")) = Flying(k) - 1
      /\ Cardinality(Places(sends, "accepted")) = Taken(k) + (IF o = "accepted" THEN 1 ELSE 0)
  BY OperationFacts, PlacesSettle DEF Taken, Flying
<1>3. sends # <<>> /\ attempts' = [attempts EXCEPT ![k] = sends]
  <2>1. DOMAIN sends = DOMAIN attempts[k] /\ n \in DOMAIN sends
    BY OperationFacts
  <2> QED
    BY <2>1 DEF SendInv, OpsTyped
<1> HIDE DEF op, sends
<1>4. /\ ops[k].unanswered \in Nat /\ Taken(k) \in Nat /\ Flying(k) \in Nat
      /\ Taken(k) + Flying(k) =< ops[k].unanswered
                              + (IF ops[k].stage = "posting" THEN 1 ELSE 0)
                              + (IF results[k] = "sent" THEN 1 ELSE 0)
      /\ ops[k].stage = "posting" => results[k] = "none" /\ ops[k].told = "raised"
      /\ "sent" \in {results[k], ops[k].told} => Taken(k) >= 1
      /\ ops[k].told \in Refusals => results[k] = ops[k].told
  BY OperationFacts
<1>5. Cardinality(Places(sends, "accepted")) + Cardinality(Places(sends, "flying"))
           =< op.unanswered + (IF op.stage = "posting" THEN 1 ELSE 0)
                 + (IF results[k] = "sent" THEN 1 ELSE 0)
  BY <1>1, <1>2, <1>4
<1>6. /\ op.stage = "posting" => results[k] = "none" /\ op.told = "raised" /\ sends # <<>>
      /\ "sent" \in {results[k], op.told} => Cardinality(Places(sends, "accepted")) >= 1
      /\ op.told \in Refusals => results[k] = op.told
  BY <1>1, <1>2, <1>3, <1>4
<1> QED
  BY <1>1, <1>2, <1>3, <1>5, <1>6, RequestMoves

\* The turn stops waiting: what its request did, nobody knows.
LEMMA GiveUpMoves ==
  ASSUME SendInv, NEW k \in Keys, GiveUp(k)
  PROVE  SendInv'
<1> DEFINE op == [ops[k] EXCEPT !.stage = "idle", !.unanswered = @ + 1]
<1>1. /\ op \in Operation /\ op.stage = "idle" /\ op.told = ops[k].told
      /\ op.unanswered = ops[k].unanswered + 1 /\ ops' = [ops EXCEPT ![k] = op]
  <2>1. /\ ops[k] \in Operation /\ ops \in [Keys -> Operation] /\ "idle" \in Stages
        /\ ops[k].unanswered \in Nat
    BY DEF SendInv, OpsTyped, Stages, Operation
  <2>2. PICK n \in Nat : n = ops[k].unanswered + 1
    BY <2>1
  <2>3. op = [ops[k] EXCEPT !.stage = "idle", !.unanswered = n]
    BY <2>2, Zenon
  <2>4. /\ op \in Operation /\ op.stage = "idle" /\ op.told = ops[k].told
        /\ op.unanswered = n
    <3> HIDE DEF op
    <3> QED
      BY <2>1, <2>3 DEF Operation
  <2>5. ops' = [ops EXCEPT ![k] = op]
    BY <2>1 DEF GiveUp, Operation
  <2> QED
    BY <2>2, <2>4, <2>5
<1>2. /\ results' = [results EXCEPT ![k] = results[k]] /\ results[k] \in Statuses
      /\ attempts' = attempts /\ ops[k].stage = "posting"
  BY DEF SendInv, OpsTyped, GiveUp, client
<1> HIDE DEF op
<1>3. /\ ops[k].unanswered \in Nat /\ Taken(k) \in Nat /\ Flying(k) \in Nat
      /\ Taken(k) + Flying(k) =< ops[k].unanswered
                              + (IF ops[k].stage = "posting" THEN 1 ELSE 0)
                              + (IF results[k] = "sent" THEN 1 ELSE 0)
      /\ "sent" \in {results[k], ops[k].told} => Taken(k) >= 1
      /\ ops[k].told \in Refusals => results[k] = ops[k].told
  BY OperationFacts
<1>4. /\ Taken(k) + Flying(k) =< op.unanswered + (IF op.stage = "posting" THEN 1 ELSE 0)
                                     + (IF results[k] = "sent" THEN 1 ELSE 0)
      /\ "sent" \in {results[k], op.told} => Taken(k) >= 1
      /\ op.told \in Refusals => results[k] = op.told
  BY <1>1, <1>2, <1>3
<1> QED
  BY <1>1, <1>2, <1>4, TurnMoves

\* A turn that fails after its answer leaves the operation open.
LEMMA TurnFailsMoves ==
  ASSUME SendInv, NEW k \in Keys, TurnFails(k)
  PROVE  SendInv'
<1> DEFINE op == [ops[k] EXCEPT !.stage = "idle"]
<1>1. /\ op \in Operation /\ op.stage = "idle" /\ op.told = ops[k].told
      /\ op.unanswered = ops[k].unanswered /\ ops' = [ops EXCEPT ![k] = op]
  <2>1. ops[k] \in Operation /\ ops \in [Keys -> Operation] /\ "idle" \in Stages
    BY DEF SendInv, OpsTyped, Stages
  <2> QED
    BY <2>1 DEF TurnFails, Operation
<1>2. /\ results' = [results EXCEPT ![k] = results[k]] /\ results[k] \in Statuses
      /\ attempts' = attempts /\ ops[k].stage = "answered"
  BY DEF SendInv, OpsTyped, TurnFails, client
<1> HIDE DEF op
<1>3. /\ Taken(k) + Flying(k) =< op.unanswered + (IF op.stage = "posting" THEN 1 ELSE 0)
                                     + (IF results[k] = "sent" THEN 1 ELSE 0)
      /\ "sent" \in {results[k], op.told} => Taken(k) >= 1
      /\ op.told \in Refusals => results[k] = op.told
  BY <1>1, <1>2, OperationFacts
<1> QED
  BY <1>1, <1>2, <1>3, TurnMoves

LEMMA SendUnchanged ==
  ASSUME SendInv, UNCHANGED <<ops, results, attempts>>
  PROVE  SendInv'
BY DEF SendInv, OpsTyped, SendsCounted, AnswersStored, Taken, Flying

LEMMA SendStep == SendInv /\ [Next]_vars => SendInv'
<1> SUFFICES ASSUME SendInv, [Next]_vars PROVE SendInv'
  OBVIOUS
<1>1. CASE UNCHANGED vars
  BY <1>1, SendUnchanged DEF vars, client, session
<1>2. CASE Tick \/ CustomerWrites \/ Bundle \/ RecordFreeEntryPoint
  BY <1>2, SendUnchanged
     DEF Tick, CustomerWrites, Bundle, RecordFreeEntryPoint, client, session
<1>3. ASSUME NEW i \in DOMAIN payloads, Retry(i) \/ Redeliver(i) PROVE SendInv'
  BY <1>3, SendUnchanged DEF Retry, Redeliver, Deliver, session
<1>4. ASSUME NEW k \in Keys, NEW n \in DOMAIN attempts[k], Accept(k, n) PROVE SendInv'
  BY <1>4, SettleMoves DEF Accept, client, SendInv, OpsTyped
<1>5. ASSUME NEW k \in Keys, Block(k) PROVE SendInv'
  BY <1>5, CloseMoves DEF Block, Idle, client
<1>6. ASSUME NEW k \in Keys, NEW request \in Requests, Repeat(k, request) PROVE SendInv'
  <2>1. /\ results[k] \in Statuses \ {"none"} /\ results' = [results EXCEPT ![k] = results[k]]
        /\ Answer(k, request, results[k]) /\ attempts' = attempts /\ ops[k].stage = "idle"
        /\ "sent" \in {results[k], ops[k].told} => Taken(k) >= 1
    BY <1>6, OperationFacts DEF Repeat, Asked, Idle, client, SendInv, OpsTyped
  <2> QED
    BY <2>1, AnswerMoves
<1>7. ASSUME NEW k \in Keys, NEW request \in Requests, Refuse(k, request) PROVE SendInv'
  <2>1. /\ Refusal(request) \in Statuses \ {"none"} /\ Refusal(request) # "sent"
        /\ results' = [results EXCEPT ![k] = Refusal(request)] /\ results[k] = "none"
        /\ Answer(k, request, Refusal(request)) /\ attempts' = attempts
        /\ ops[k].stage = "idle"
    BY <1>7 DEF Refuse, Refusal, Statuses, Asked, Idle
  <2> HIDE DEF Refusal
  <2> QED
    BY <2>1, AnswerMoves
<1>8. ASSUME NEW k \in Keys, NEW request \in Requests, Post(k, request) PROVE SendInv'
  BY <1>8, PostMoves
<1>9. ASSUME NEW k \in Keys, Confirmed(k) PROVE SendInv'
  <2>1. /\ ops[k].stage = "posting" /\ results' = [results EXCEPT ![k] = "sent"]
        /\ Answer(k, ops[k].request, "sent") /\ attempts' = attempts
        /\ ops[k].request \in Requests \union {NoRequest}
        /\ results[k] = "none" /\ attempts[k] \in Seq(Outcomes) /\ attempts[k] # <<>>
    BY <1>9, OperationFacts DEF Confirmed
  <2>2. Len(attempts[k]) \in Places(attempts[k], "accepted")
    BY <1>9, <2>1 DEF Confirmed, Last, Places
  <2>3. Taken(k) >= 1
    BY <2>1, <2>2, PlacesFinite, FS_EmptySet DEF Taken
  <2>4. "sent" \in Statuses \ {"none"}
    BY DEF Statuses
  <2> HIDE DEF Answer
  <2> QED
    BY <2>1, <2>3, <2>4, AnswerMoves
<1>10. ASSUME NEW k \in Keys, Failed(k) PROVE SendInv'
  <2>1. attempts[k] \in Seq(Outcomes) /\ attempts[k] # <<>> /\ ops[k].stage = "posting"
    BY <1>10, OperationFacts DEF Failed
  <2>2. /\ Len(attempts[k]) \in DOMAIN attempts[k]
        /\ Append(Front(attempts[k]), "rejected")
             = [attempts[k] EXCEPT ![Len(attempts[k])] = "rejected"]
    BY <2>1, FrontRejected
  <2>3. /\ attempts' = [attempts EXCEPT ![k] = [@ EXCEPT ![Len(attempts[k])] = "rejected"]]
        /\ attempts[k][Len(attempts[k])] = "flying"
    BY <1>10, <2>2 DEF Failed, Last, SendInv, OpsTyped
  <2>4. results' = results /\ ops' = [ops EXCEPT ![k].stage = "idle"]
    BY <1>10 DEF Failed, client
  <2> QED
    BY <2>1, <2>2, <2>3, <2>4, SettleMoves
<1>11. ASSUME NEW k \in Keys, GiveUp(k) PROVE SendInv'
  BY <1>11, GiveUpMoves
<1>12. ASSUME NEW k \in Keys, TurnCommits(k) PROVE SendInv'
  BY <1>12, CloseMoves DEF TurnCommits, client
<1>13. ASSUME NEW k \in Keys, TurnFails(k) PROVE SendInv'
  BY <1>13, TurnFailsMoves
<1> QED
  BY <1>1, <1>2, <1>3, <1>4, <1>5, <1>6, <1>7, <1>8, <1>9, <1>10, <1>11, <1>12, <1>13
     DEF Next, ProviderStep, Ask, Resolve

LEMMA SendInit == Init => SendInv
<1> SUFFICES ASSUME Init PROVE SendInv
  OBVIOUS
<1>1. OpsTyped
  BY DEF Init, OpsTyped, Operation, Stages, Statuses
<1>2. ASSUME NEW k \in Keys
      PROVE  /\ Taken(k) = 0 /\ Flying(k) = 0 /\ results[k] = "none"
             /\ ops[k].stage = "idle" /\ ops[k].told = "none" /\ ops[k].unanswered = 0
  <2>1. Places(attempts[k], "accepted") = {} /\ Places(attempts[k], "flying") = {}
    BY DEF Init, Places
  <2> QED
    BY <2>1, FS_EmptySet DEF Init, Taken, Flying
<1>3. SendsCounted /\ AnswersStored
  BY <1>2 DEF SendsCounted, AnswersStored, Refusals
<1> QED
  BY <1>1, <1>3 DEF SendInv

\* The operator is told what happened, and only an unanswered attempt repeats a
\* message: send_message, the memory of its results and the turn's retries, for
\* any number of operations and attempts.
THEOREM SendsHonestHolds == Spec => []SendsHonest
<1>1. SendInv => SendsHonest
  <2> SUFFICES ASSUME SendInv, NEW k \in Keys
               PROVE  /\ Accepted(k) =< 1 + ops[k].unanswered
                      /\ ops[k].told = "sent" => Accepted(k) >= 1
                      /\ ops[k].told \in Refusals /\ ops[k].unanswered = 0 => Accepted(k) = 0
    BY DEF SendsHonest, NoSilentRepeat, ToldTruth, Refusals
  <2>1. Accepted(k) = Taken(k)
    BY DEF Accepted, Taken, Places
  <2>2. /\ ops[k].unanswered \in Nat /\ Taken(k) \in Nat /\ Flying(k) \in Nat
        /\ Taken(k) + Flying(k) =< ops[k].unanswered
                              + (IF ops[k].stage = "posting" THEN 1 ELSE 0)
                              + (IF results[k] = "sent" THEN 1 ELSE 0)
        /\ ops[k].stage = "posting" => results[k] = "none" /\ ops[k].told = "raised"
        /\ "sent" \in {results[k], ops[k].told} => Taken(k) >= 1
        /\ ops[k].told \in Refusals => results[k] = ops[k].told
    BY OperationFacts
  <2>3. Taken(k) =< 1 + ops[k].unanswered
    BY <2>2
  <2>4. ops[k].told \in Refusals /\ ops[k].unanswered = 0 => Taken(k) = 0
    BY <2>2 DEF Refusals
  <2> QED
    BY <2>1, <2>2, <2>3, <2>4
<1> QED
  BY <1>1, SendInit, SendStep, PTL DEF Spec

-----------------------------------------------------------------------------
(***************************************************************************)
(* The inbound side.  A batch is a run of steps over a recursive function; *)
(* its equation comes from the least number without a run, since the       *)
(* library's induction on numbers takes an operator.                       *)
(***************************************************************************)
Chain(g, p, n, faulty) ==
  g = [i \in 0..n |-> IF i = 0 THEN Unrun(faulty) ELSE DeliverOne(g[i - 1], p.first + i - 1)]

\* A set of natural numbers has a least.
LEMMA LeastNatural ==
  ASSUME NEW S \in SUBSET Nat, S # {}
  PROVE  \E n \in S : \A m \in S : n =< m
<1> DEFINE R == {p \in Nat \X Nat : p[1] < p[2]}
<1>1. IsWellFoundedOn(R, Nat)
  BY NatLessThanWellFounded DEF OpToRel
<1>2. \E x \in S : \A y \in S : ~ (<<y, x>> \in R)
  <2> HIDE DEF R
  <2> QED
    BY <1>1, WFMin
<1>3. PICK x \in S : \A y \in S : ~ (<<y, x>> \in R)
  BY <1>2
<1>4. ASSUME NEW y \in S PROVE x =< y
  <2>1. <<y, x>> \in Nat \X Nat /\ ~ (<<y, x>> \in R)
    BY <1>3
  <2> QED
    BY <2>1
<1> QED
  BY <1>4

LEMMA ChainExists ==
  ASSUME NEW p, p.first \in Nat, NEW faulty, NEW N \in Nat
  PROVE  \E g : Chain(g, p, N, faulty)
<1> DEFINE Without == {n \in Nat : ~ \E g : Chain(g, p, n, faulty)}
<1> SUFFICES ASSUME Without # {} PROVE FALSE
  OBVIOUS
<1>1. PICK n \in Without : \A m \in Without : n =< m
  BY LeastNatural
<1>2. CASE n = 0
  <2>1. Chain([i \in 0..0 |-> Unrun(faulty)], p, 0, faulty)
    BY DEF Chain
  <2> QED
    BY <1>2, <2>1
<1>3. CASE n # 0
  <2>1. n - 1 \in Nat /\ n - 1 \notin Without
    BY <1>1, <1>3
  <2>2. PICK g : Chain(g, p, n - 1, faulty)
    BY <2>1
  <2> DEFINE h == [i \in 0..n |-> IF i = n THEN DeliverOne(g[n - 1], p.first + n - 1) ELSE g[i]]
  <2>3. ASSUME NEW i \in 0..n
        PROVE  h[i] = IF i = 0 THEN Unrun(faulty) ELSE DeliverOne(h[i - 1], p.first + i - 1)
    <3>1. CASE i = n
      BY <1>3, <3>1
    <3>2. CASE i # n
      <4>1. /\ i \in 0..(n - 1) /\ h[i] = g[i]
            /\ i # 0 => i - 1 \in 0..n /\ i - 1 # n /\ h[i - 1] = g[i - 1]
        BY <3>2
      <4>2. g[i] = IF i = 0 THEN Unrun(faulty) ELSE DeliverOne(g[i - 1], p.first + i - 1)
        BY <2>2, <4>1 DEF Chain
      <4> QED
        BY <4>1, <4>2
    <3> QED
      BY <3>1, <3>2
  <2>4. Chain(h, p, n, faulty)
    BY <2>3 DEF Chain
  <2> QED
    BY <2>4
<1> QED
  BY <1>2, <1>3

\* The recursion of a batch: it begins with what the client knew, and each of
\* its messages is delivered to what the ones before it left.
LEMMA RunSteps ==
  ASSUME NEW p, p.first \in Nat, p.last \in Nat, p.first =< p.last, NEW faulty
  PROVE  /\ Run(p, faulty)[0] = Unrun(faulty)
         /\ \A n \in 1..(p.last - p.first + 1) :
              Run(p, faulty)[n] = DeliverOne(Run(p, faulty)[n - 1], p.first + n - 1)
<1> DEFINE N == p.last - p.first + 1
           equation(g) == g = [n \in 0..(p.last - p.first + 1) |->
                                 IF n = 0 THEN Unrun(faulty)
                                 ELSE DeliverOne(g[n - 1], p.first + n - 1)]
<1>1. \E g : equation(g)
  <2>1. \E g : Chain(g, p, N, faulty)
    <3>1. N \in Nat
      OBVIOUS
    <3> HIDE DEF N
    <3> QED
      BY <3>1, ChainExists
  <2> QED
    BY <2>1, Zenon DEF Chain
<1>2. Run(p, faulty) = CHOOSE g : equation(g)
  BY Zenon DEF Run
<1>3. equation(CHOOSE g : equation(g))
  <2> HIDE DEF equation
  <2> QED
    BY <1>1, Zenon
<1>4. Chain(Run(p, faulty), p, N, faulty)
  BY <1>2, <1>3, Zenon DEF Chain
<1> HIDE DEF equation
<1>5. N \in Nat
  OBVIOUS
<1> QED
  BY <1>4, <1>5 DEF Chain

-----------------------------------------------------------------------------
(* What the client knows of the customer never runs ahead of the customer. *)

ClockTyped == clock \in 0..MaxTime /\ spelling \in Refs

\* Nothing is dated after the customer last wrote, but for what was guessed.
WindowKnown ==
  /\ opened \in Int /\ -1 =< opened /\ opened =< clock
  /\ guessed \in Int /\ -1 =< guessed /\ guessed =< clock
  /\ entry \in Int /\ -1 =< entry /\ entry =< clock
  /\ \A m \in DOMAIN written : written[m].at =< opened
  /\ \A r \in Refs : lastInbound[r] =< Later(opened, guessed)

Messages == [at : 0..MaxTime, stamped : BOOLEAN]

WrittenTyped ==
  /\ written \in Seq(Messages)
  /\ lastInbound \in [Refs -> Int]
  /\ \A r \in Refs : -1 =< lastInbound[r]

Batches == [first : Nat, last : Nat, acked : BOOLEAN]

\* A batch is of messages that were written.
BatchesWritten ==
  /\ payloads \in Seq(Batches)
  /\ \A i \in DOMAIN payloads :
       /\ 1 =< payloads[i].first /\ payloads[i].first =< payloads[i].last
       /\ payloads[i].last =< Len(written)

\* What is remembered was received.
MemoryReceived ==
  /\ seen \in Seq(1..Len(written)) /\ Len(seen) =< DedupeCapacity
  /\ ToSet(seen) \subseteq received /\ received \subseteq 1..Len(written)

Billed == billed \subseteq [key : Keys, at : Times, guessed : Times] /\ FreeOnly

InboundInv ==
  /\ ClockTyped /\ WindowKnown /\ WrittenTyped /\ BatchesWritten /\ MemoryReceived
  /\ Billed /\ AckedWhole

\* A batch part-way through.
RunRecords ==
  [seen : Seq(1..Len(written)), received : SUBSET (1..Len(written)), last : [Refs -> Int],
   guessed : Int, faulty : SUBSET (1..Len(written)), raised : BOOLEAN]

\* Every message the customer has written carries its date.
AllDated == \A m \in DOMAIN written : written[m].stamped

RunSound(run, p, n) ==
  /\ run \in RunRecords
  /\ Len(run.seen) =< DedupeCapacity /\ ToSet(run.seen) \subseteq run.received
  /\ received \subseteq run.received
  /\ ~run.raised => \A m \in p.first..(p.first + n - 1) : m \in run.received
  /\ -1 =< run.guessed /\ run.guessed =< clock
  /\ AllDated => run.guessed = guessed
  /\ \A r \in Refs : -1 =< run.last[r] /\ run.last[r] =< Later(opened, run.guessed)

LEMMA RememberFacts ==
  ASSUME NEW S, NEW ids \in Seq(S), Len(ids) =< DedupeCapacity, NEW m \in S
  PROVE  /\ Remember(ids, m) \in Seq(S) /\ Len(Remember(ids, m)) =< DedupeCapacity
         /\ ToSet(Remember(ids, m)) \subseteq ToSet(ids) \cup {m}
<1>1. CASE Len(ids) >= DedupeCapacity
  <2>1. Len(ids) = DedupeCapacity /\ DedupeCapacity \in Nat \ {0} /\ ids # <<>>
    BY <1>1, CapacityPositive
  <2>2. /\ Tail(ids) \in Seq(S) /\ Len(Tail(ids)) = Len(ids) - 1
        /\ \A i \in 1..Len(Tail(ids)) : Tail(ids)[i] = ids[i + 1]
    BY <2>1
  <2>3. PICK rest \in Seq(S) : rest = Tail(ids)
    BY <2>2
  <2>4. /\ Append(rest, m) \in Seq(S) /\ Len(Append(rest, m)) = Len(rest) + 1
        /\ \A i \in 1..Len(rest) : Append(rest, m)[i] = rest[i]
        /\ Append(rest, m)[Len(rest) + 1] = m
    BY AppendProperties
  <2>5. Remember(ids, m) = Append(rest, m)
    BY <1>1, <2>3 DEF Remember
  <2>6. \A i \in DOMAIN Append(rest, m) : Append(rest, m)[i] \in ToSet(ids) \cup {m}
    BY <2>1, <2>2, <2>3, <2>4 DEF ToSet
  <2>7. ToSet(Append(rest, m)) \subseteq ToSet(ids) \cup {m}
    BY <2>6 DEF ToSet
  <2> QED
    BY <2>1, <2>2, <2>3, <2>4, <2>5, <2>7
<1>2. CASE ~(Len(ids) >= DedupeCapacity)
  <2>1. Len(ids) < DedupeCapacity /\ DedupeCapacity \in Nat
    BY <1>2, CapacityPositive
  <2>2. /\ Append(ids, m) \in Seq(S) /\ Len(Append(ids, m)) = Len(ids) + 1
        /\ \A i \in 1..Len(ids) : Append(ids, m)[i] = ids[i]
        /\ Append(ids, m)[Len(ids) + 1] = m
    BY AppendProperties
  <2>3. \A i \in DOMAIN Append(ids, m) : Append(ids, m)[i] \in ToSet(ids) \cup {m}
    BY <2>2 DEF ToSet
  <2>4. ToSet(Append(ids, m)) \subseteq ToSet(ids) \cup {m}
    BY <2>3 DEF ToSet
  <2> QED
    BY <1>2, <2>1, <2>2, <2>4 DEF Remember
<1> QED
  BY <1>1, <1>2

\* The customer's time is filed and never moves the record back or ahead.
LEMMA RecordFacts ==
  ASSUME NEW last \in [Refs -> Int], NEW ref \in Refs, NEW at \in Nat, NEW limit \in Int,
         at =< limit, \A r \in Refs : -1 =< last[r] /\ last[r] =< limit
  PROVE  /\ RecordInbound(last, ref, at) \in [Refs -> Int]
         /\ \A r \in Refs : /\ -1 =< RecordInbound(last, ref, at)[r]
                            /\ RecordInbound(last, ref, at)[r] =< limit
<1>1. Later(last[ref], at) \in Int /\ -1 =< Later(last[ref], at) /\ Later(last[ref], at) =< limit
  BY DEF Later
<1> HIDE DEF Later
<1> QED
  BY <1>1 DEF RecordInbound

\* One message more.
LEMMA DeliverSound ==
  ASSUME InboundInv, NEW p, p.first \in Nat, NEW n \in Nat, NEW run, RunSound(run, p, n),
         p.first + n \in 1..Len(written)
  PROVE  RunSound(DeliverOne(run, p.first + n), p, n + 1)
<1> DEFINE m == p.first + n
<1>0. m \in 1..Len(written) /\ p.first..(p.first + n + 1 - 1) = p.first..(p.first + n - 1) \cup {m}
  OBVIOUS
<1>1. CASE run.raised \/ m \in ToSet(run.seen)
  <2>1. DeliverOne(run, m) = run
    BY <1>1 DEF DeliverOne
  <2>2. ~run.raised => m \in run.received
    BY <1>1 DEF RunSound
  <2> QED
    BY <1>0, <2>1, <2>2 DEF RunSound
<1>2. CASE ~(run.raised \/ m \in ToSet(run.seen))
  <2> DEFINE next == DeliverOne(run, m)
  <2>1. /\ written[m] \in Messages /\ written[m].at =< opened
        /\ spelling \in Refs /\ clock \in Nat /\ opened \in Int /\ opened =< clock
    <3>1. /\ written \in Seq(Messages)
          /\ \A j \in DOMAIN written : written[j].at =< opened
          /\ spelling \in Refs /\ clock \in 0..MaxTime /\ opened \in Int /\ opened =< clock
      BY DEF InboundInv, WrittenTyped, WindowKnown, ClockTyped
    <3>0. m \in 1..Len(written)
      BY <1>0
    <3> HIDE DEF m
    <3>2. written[m] \in Messages /\ m \in DOMAIN written
      BY <3>0, <3>1, ElementOfSeq
    <3> QED
      BY <3>1, <3>2, BoundsAssumption
  <2>2. written[m].at \in Nat /\ written[m].stamped \in BOOLEAN
    BY <2>1, BoundsAssumption DEF Messages
  <2>3. run \in RunRecords
    BY DEF RunSound
  <2>4. /\ next.seen = Remember(run.seen, m) /\ next.received = run.received \union {m}
        /\ next.raised = (m \in run.faulty) /\ next.faulty = run.faulty
        /\ next.last = (IF m \in run.faulty THEN run.last
                        ELSE RecordInbound(run.last, spelling, Sent(m)))
        /\ next.guessed = (IF written[m].stamped \/ m \in run.faulty THEN run.guessed ELSE clock)
        /\ next = [seen |-> next.seen, received |-> next.received, last |-> next.last,
                   guessed |-> next.guessed, faulty |-> next.faulty, raised |-> next.raised]
    BY <1>2, <2>3 DEF DeliverOne, Filed, Guesses, RunRecords
  <2> HIDE DEF next
  <2>5. /\ run.seen \in Seq(1..Len(written)) /\ run.received \subseteq 1..Len(written)
        /\ run.last \in [Refs -> Int] /\ run.guessed \in Int /\ run.faulty \subseteq 1..Len(written)
    BY <2>3 DEF RunRecords
  <2>6. /\ next.seen \in Seq(1..Len(written)) /\ Len(next.seen) =< DedupeCapacity
        /\ ToSet(next.seen) \subseteq ToSet(run.seen) \cup {m}
    <3>1. Len(run.seen) =< DedupeCapacity
      BY DEF RunSound
    <3>2. PICK S : S = 1..Len(written)
      OBVIOUS
    <3>3. run.seen \in Seq(S) /\ m \in S
      BY <1>0, <2>5, <3>2
    <3> HIDE DEF m
    <3>4. /\ Remember(run.seen, m) \in Seq(S) /\ Len(Remember(run.seen, m)) =< DedupeCapacity
          /\ ToSet(Remember(run.seen, m)) \subseteq ToSet(run.seen) \cup {m}
      BY <3>1, <3>3, RememberFacts
    <3> QED
      BY <2>4, <3>2, <3>4
  <2>7. /\ next.received \subseteq 1..Len(written) /\ ToSet(next.seen) \subseteq next.received
        /\ received \subseteq next.received
        /\ \A j \in p.first..(p.first + n + 1 - 1) : j \in next.received
    BY <1>0, <1>2, <2>4, <2>5, <2>6 DEF RunSound
  <2>12. AllDated => next.guessed = guessed
    <3>1. m \in DOMAIN written
      BY <1>0 DEF InboundInv, WrittenTyped
    <3> QED
      BY <2>4, <3>1 DEF AllDated, RunSound
  <2>8. /\ next.guessed \in Int /\ -1 =< next.guessed /\ next.guessed =< clock
        /\ run.guessed =< next.guessed
    BY <2>1, <2>4, <2>5 DEF RunSound
  <2>9. /\ next.last \in [Refs -> Int]
        /\ \A r \in Refs : -1 =< next.last[r] /\ next.last[r] =< Later(opened, next.guessed)
    <3>1. \A r \in Refs : -1 =< run.last[r] /\ run.last[r] =< Later(opened, next.guessed)
      BY <2>1, <2>5, <2>8 DEF RunSound, Later
    <3>2. CASE m \in run.faulty
      BY <2>4, <2>5, <3>1, <3>2
    <3>3. CASE m \notin run.faulty
      <4>1. /\ Sent(m) \in Nat /\ Sent(m) =< Later(opened, next.guessed)
            /\ Later(opened, next.guessed) \in Int
        BY <2>1, <2>2, <2>4, <2>8, <3>3 DEF Sent, Later
      <4>2. PICK at \in Nat, limit \in Int : at = Sent(m) /\ limit = Later(opened, next.guessed)
        BY <4>1
      <4>3. PICK last \in [Refs -> Int] : last = run.last
        BY <2>5
      <4>4. at =< limit /\ \A r \in Refs : -1 =< last[r] /\ last[r] =< limit
        BY <3>1, <4>1, <4>2, <4>3
      <4>5. /\ RecordInbound(last, spelling, at) \in [Refs -> Int]
            /\ \A r \in Refs : /\ -1 =< RecordInbound(last, spelling, at)[r]
                               /\ RecordInbound(last, spelling, at)[r] =< limit
        BY <2>1, <4>4, RecordFacts
      <4>6. next.last = RecordInbound(last, spelling, at)
        BY <2>4, <3>3, <4>2, <4>3
      <4> QED
        BY <4>2, <4>5, <4>6
    <3> QED
      BY <3>2, <3>3
  <2>10. next \in RunRecords
    <3>1. next.raised \in BOOLEAN /\ next.faulty \in SUBSET (1..Len(written))
      BY <2>4, <2>5
    <3>2. /\ next.seen \in Seq(1..Len(written)) /\ next.received \in SUBSET (1..Len(written))
          /\ next.last \in [Refs -> Int] /\ next.guessed \in Int
      BY <2>6, <2>7, <2>8, <2>9
    <3>3. next = [seen |-> next.seen, received |-> next.received, last |-> next.last,
                  guessed |-> next.guessed, faulty |-> next.faulty, raised |-> next.raised]
      BY <2>4
    <3> QED
      BY <3>1, <3>2, <3>3 DEF RunRecords
  <2>11. RunSound(next, p, n + 1)
    <3>1. Len(next.seen) =< DedupeCapacity /\ ToSet(next.seen) \subseteq next.received
          /\ received \subseteq next.received
      BY <2>6, <2>7
    <3>2. /\ -1 =< next.guessed /\ next.guessed =< clock
          /\ \A r \in Refs : -1 =< next.last[r] /\ next.last[r] =< Later(opened, next.guessed)
      BY <2>8, <2>9
    <3>3. ~next.raised => \A j \in p.first..(p.first + (n + 1) - 1) : j \in next.received
      BY <2>7
    <3> QED
      BY ONLY <2>10, <2>12, <3>1, <3>2, <3>3, Zenon DEF RunSound
  <2> QED
    BY <2>11 DEF next
<1> QED
  BY <1>1, <1>2

\* A whole batch: by the least length at which it could go wrong.
LEMMA DeliveredSound ==
  ASSUME InboundInv, NEW i \in DOMAIN payloads, NEW faulty \in SUBSET Batch(payloads[i])
  PROVE  RunSound(Delivered(payloads[i], faulty), payloads[i],
                  payloads[i].last - payloads[i].first + 1)
<1> DEFINE p == payloads[i]
           N == p.last - p.first + 1
<1>1. /\ p.first \in Nat /\ p.last \in Nat /\ 1 =< p.first /\ p.first =< p.last
      /\ p.last =< Len(written) /\ Len(written) \in Nat
  <2>1. p \in Batches
    BY DEF InboundInv, BatchesWritten
  <2> QED
    BY <2>1 DEF InboundInv, BatchesWritten, WrittenTyped, Batches
<1>2. /\ Run(p, faulty)[0] = Unrun(faulty)
      /\ \A n \in 1..N : Run(p, faulty)[n] = DeliverOne(Run(p, faulty)[n - 1], p.first + n - 1)
  BY <1>1, RunSteps
<1>3. faulty \subseteq 1..Len(written)
  BY <1>1 DEF Batch
<1> HIDE DEF p
<1>4. RunSound(Unrun(faulty), p, 0)
  <2>1. Unrun(faulty) \in RunRecords
    BY <1>3 DEF Unrun, RunRecords, InboundInv, MemoryReceived, WrittenTyped, WindowKnown
  <2>2. /\ Unrun(faulty).seen = seen /\ Unrun(faulty).received = received
        /\ Unrun(faulty).last = lastInbound /\ Unrun(faulty).guessed = guessed
    BY DEF Unrun
  <2>3. \A m \in p.first..(p.first + 0 - 1) : FALSE
    BY <1>1
  <2> QED
    BY <2>1, <2>2, <2>3
       DEF RunSound, InboundInv, MemoryReceived, WrittenTyped, WindowKnown
<1> DEFINE Unsound == {n \in Nat : n =< N /\ ~RunSound(Run(p, faulty)[n], p, n)}
<1>5. Unsound = {}
  <2> SUFFICES ASSUME Unsound # {} PROVE FALSE
    OBVIOUS
  <2>1. PICK n \in Unsound : \A k \in Unsound : n =< k
    BY LeastNatural
  <2>2. n # 0
    BY <1>2, <1>4, <2>1
  <2>3. n - 1 \in Nat /\ n - 1 =< N /\ n \in 1..N /\ n - 1 \notin Unsound
    BY <1>1, <2>1, <2>2
  <2>4. RunSound(Run(p, faulty)[n - 1], p, n - 1)
    BY <2>3
  <2>5. p.first + (n - 1) \in 1..Len(written)
    BY <1>1, <2>3
  <2>6. RunSound(DeliverOne(Run(p, faulty)[n - 1], p.first + (n - 1)), p, (n - 1) + 1)
    BY <1>1, <2>3, <2>4, <2>5, DeliverSound
  <2>7. (n - 1) + 1 = n /\ p.first + (n - 1) = p.first + n - 1
    BY <1>1, <2>1
  <2>8. RunSound(Run(p, faulty)[n], p, n)
    BY <1>2, <2>3, <2>6, <2>7
  <2> QED
    BY <2>1, <2>8
<1>6. N \in Nat
  BY <1>1
<1> QED
  BY <1>5, <1>6 DEF Delivered, p

\* What the webhook's steps need, apart from the clock.
LEMMA DeliverMoves ==
  ASSUME InboundInv, NEW i \in DOMAIN payloads, Deliver(i)
  PROVE  InboundInv'
<1>1. PICK faulty \in SUBSET Batch(payloads[i]) :
        LET run == Delivered(payloads[i], faulty)
        IN  /\ seen' = run.seen /\ received' = run.received /\ lastInbound' = run.last
            /\ guessed' = run.guessed
            /\ payloads' = [payloads EXCEPT ![i].acked = @ \/ ~run.raised]
            /\ UNCHANGED <<clock, spelling, written, opened, entry, billed>>
  BY DEF Deliver, session
<1>2. PICK run : run = Delivered(payloads[i], faulty)
  OBVIOUS
<1> DEFINE p == payloads[i]
<1>3. RunSound(run, p, p.last - p.first + 1)
  BY <1>2, DeliveredSound
<1>4. /\ p \in Batches /\ p.first \in Nat /\ p.last \in Nat
      /\ p.first + (p.last - p.first + 1) - 1 = p.last
  <2>1. p \in Batches
    BY DEF InboundInv, BatchesWritten
  <2> QED
    BY <2>1 DEF Batches
<1>5. /\ run \in RunRecords /\ Len(run.seen) =< DedupeCapacity
      /\ ToSet(run.seen) \subseteq run.received /\ received \subseteq run.received
      /\ ~run.raised => Batch(p) \subseteq run.received
      /\ -1 =< run.guessed /\ run.guessed =< clock
      /\ \A r \in Refs : -1 =< run.last[r] /\ run.last[r] =< Later(opened, run.guessed)
  <2>1. ~run.raised => \A m \in p.first..p.last : m \in run.received
    BY <1>3, <1>4 DEF RunSound
  <2> QED
    BY <1>3, <2>1 DEF RunSound, Batch
<1>6. /\ run.seen \in Seq(1..Len(written)) /\ run.received \subseteq 1..Len(written)
      /\ run.last \in [Refs -> Int] /\ run.guessed \in Int
  BY <1>5 DEF RunRecords
<1>7. /\ seen' = run.seen /\ received' = run.received /\ lastInbound' = run.last
      /\ guessed' = run.guessed /\ UNCHANGED <<clock, spelling, written, opened, entry, billed>>
      /\ payloads' = [payloads EXCEPT ![i].acked = @ \/ ~run.raised]
  BY <1>1, <1>2
<1>8. /\ payloads' \in Seq(Batches) /\ DOMAIN payloads' = DOMAIN payloads
      /\ \A j \in DOMAIN payloads : /\ payloads'[j].first = payloads[j].first
                                    /\ payloads'[j].last = payloads[j].last
                                    /\ j # i => payloads'[j].acked = payloads[j].acked
      /\ payloads'[i].acked = (payloads[i].acked \/ ~run.raised)
  <2>1. PICK acked \in BOOLEAN : acked = (payloads[i].acked \/ ~run.raised)
    OBVIOUS
  <2>2. payloads \in Seq(Batches)
    BY DEF InboundInv, BatchesWritten
  <2>3. payloads' = [payloads EXCEPT ![i] = [payloads[i] EXCEPT !.acked = acked]]
    BY <1>7, <2>1, <2>2
  <2>4. \A batch : batch = [payloads[i] EXCEPT !.acked = acked]
          => /\ batch \in Batches /\ batch.first = payloads[i].first
             /\ batch.last = payloads[i].last /\ batch.acked = acked
    BY <1>4 DEF Batches
  <2>5. PICK batch : batch = [payloads[i] EXCEPT !.acked = acked]
    OBVIOUS
  <2>6. payloads' = [payloads EXCEPT ![i] = batch] /\ batch \in Batches
    BY <2>3, <2>4, <2>5
  <2>7. /\ payloads' \in Seq(Batches) /\ DOMAIN payloads' = DOMAIN payloads
        /\ payloads'[i] = batch /\ \A j \in DOMAIN payloads : j # i => payloads'[j] = payloads[j]
    BY <2>2, <2>6
  <2>8. /\ batch.first = payloads[i].first /\ batch.last = payloads[i].last
        /\ batch.acked = acked
    BY <2>4, <2>5
  <2> QED
    BY <2>1, <2>7, <2>8
<1> HIDE DEF p
<1>9. ClockTyped' /\ MemoryReceived' /\ Billed'
  BY <1>5, <1>6, <1>7 DEF InboundInv, ClockTyped, MemoryReceived, Billed, FreeOnly, ToSet
<1>10. WindowKnown'
  BY <1>5, <1>6, <1>7 DEF InboundInv, WindowKnown
<1>11. WrittenTyped'
  BY <1>5, <1>6, <1>7 DEF InboundInv, WrittenTyped
<1>12. BatchesWritten'
  BY <1>7, <1>8 DEF InboundInv, BatchesWritten
<1>13. AckedWhole'
  BY <1>5, <1>7, <1>8 DEF InboundInv, AckedWhole, Batch, p
<1> QED
  BY <1>9, <1>10, <1>11, <1>12, <1>13 DEF InboundInv

\* A message that is posted is free by the client's record of the window, and so
\* by the provider's, or else the record is a guess that is not over.
LEMMA PostIsFreeOrGuessed ==
  ASSUME InboundInv, NEW k \in Keys, NEW request \in Requests, Post(k, request)
  PROVE  Billed'
<1>1. billed' = billed \/ billed' = billed \cup {[key |-> k, at |-> clock, guessed |-> guessed]}
  BY DEF Post
<1>2. /\ "full" \in Refs /\ opened \in Int /\ guessed \in Int /\ clock \in Int /\ entry \in Int
      /\ lastInbound["full"] \in Int /\ Window \in Int /\ EntryWindow \in Int
      /\ lastInbound["full"] =< Later(opened, guessed) /\ -1 =< lastInbound["full"]
      /\ -1 =< guessed /\ guessed =< clock /\ 0 =< clock /\ clock =< MaxTime
  BY BoundsAssumption, WindowsNested
     DEF InboundInv, WindowKnown, WrittenTyped, ClockTyped, Refs
<1>3. clock \in Times /\ guessed \in Times
  BY <1>2, BoundsAssumption DEF Times, Never
<1>4. CASE billed' = billed
  BY <1>4 DEF InboundInv, Billed, FreeOnly
<1>5. CASE Posture = "free-only" /\ Charges(request[2], entry)
  <2>1. FreeTo(request[2], ServiceOpen(lastInbound["full"], clock), EntryOpen(entry, clock))
    BY <1>5 DEF Post, Refusal, Allowed
  <2>2. EntryOpen(entry, clock) => entry # Never /\ clock < entry + EntryWindow
    BY <1>2 DEF EntryOpen, Never
  <2>3. /\ ServiceOpen(lastInbound["full"], clock)
        /\ ~(opened # Never /\ clock < opened + Window)
    BY <1>5, <2>1, <2>2, Zenon DEF Charges, FreeTo
  <2>4. guessed # Never /\ clock < guessed + Window
    BY <1>2, <2>3 DEF ServiceOpen, Later, Never
  <2>5. PICK post : post = [key |-> k, at |-> clock, guessed |-> guessed]
    OBVIOUS
  <2>6. /\ post \in [key : Keys, at : Times, guessed : Times]
        /\ post.guessed # Never /\ post.at < post.guessed + Window
    BY <1>3, <2>4, <2>5
  <2>7. \A other \in billed' : other \in billed \/ other = post
    BY <1>1, <2>5
  <2> QED
    BY <2>6, <2>7 DEF InboundInv, Billed, FreeOnly
<1> QED
  BY <1>4, <1>5 DEF Post

LEMMA InboundUnchanged ==
  ASSUME InboundInv,
         UNCHANGED <<clock, spelling, written, payloads, seen, received, opened, guessed,
                     lastInbound, entry>>,
         Billed'
  PROVE  InboundInv'
<1>1. ClockTyped' /\ WindowKnown' /\ WrittenTyped'
  BY DEF InboundInv, ClockTyped, WindowKnown, WrittenTyped
<1>2. BatchesWritten' /\ MemoryReceived' /\ AckedWhole'
  BY DEF InboundInv, BatchesWritten, MemoryReceived, AckedWhole, Batch, ToSet
<1> QED
  BY <1>1, <1>2 DEF InboundInv

LEMMA WritesMoves ==
  ASSUME InboundInv, CustomerWrites
  PROVE  InboundInv'
<1>1. PICK stamped \in BOOLEAN : written' = Append(written, [at |-> clock, stamped |-> stamped])
  BY DEF CustomerWrites
<1>2. /\ opened' = clock
      /\ UNCHANGED <<clock, spelling, payloads, seen, received, guessed, lastInbound, entry, billed>>
  BY DEF CustomerWrites, client, session
<1>3. PICK new : new = [at |-> clock, stamped |-> stamped]
  OBVIOUS
<1>14. new \in Messages /\ new.at = clock
  BY <1>3 DEF InboundInv, ClockTyped, Messages
<1>4. written \in Seq(Messages)
  BY DEF InboundInv, WrittenTyped
<1>5. /\ written' \in Seq(Messages) /\ Len(written') = Len(written) + 1
      /\ \A m \in 1..Len(written) : written'[m] = written[m]
      /\ written'[Len(written) + 1] = new
  BY <1>1, <1>3, <1>4, <1>14, AppendProperties
<1>6. /\ clock \in Int /\ 0 =< clock /\ opened \in Int /\ opened =< clock /\ entry \in Int
      /\ guessed \in Int /\ guessed =< clock
  BY BoundsAssumption DEF InboundInv, ClockTyped, WindowKnown
<1>7. \A m \in DOMAIN written' : written'[m].at =< clock
  <2>1. ASSUME NEW m \in DOMAIN written' PROVE written'[m].at =< clock
    <3>1. CASE m = Len(written) + 1
      BY <1>5, <1>6, <1>14, <3>1
    <3>2. CASE m # Len(written) + 1
      <4>1. m \in 1..Len(written) /\ m \in DOMAIN written
        BY <1>4, <1>5, <3>2
      <4>2. written[m] \in Messages /\ written[m].at =< opened
        BY <1>4, <4>1, ElementOfSeq DEF InboundInv, WindowKnown
      <4>3. written[m].at \in Int
        BY <4>2 DEF Messages
      <4> QED
        BY <1>5, <1>6, <4>1, <4>2, <4>3
    <3> QED
      BY <3>1, <3>2
  <2> QED
    BY <2>1
<1>8. \A r \in Refs : lastInbound[r] =< Later(clock, guessed)
  BY <1>6 DEF InboundInv, WindowKnown, WrittenTyped, Later
<1>9. ClockTyped' /\ WindowKnown' /\ WrittenTyped' /\ Billed'
  BY <1>2, <1>5, <1>6, <1>7, <1>8
     DEF InboundInv, ClockTyped, WindowKnown, WrittenTyped, Billed, FreeOnly
<1>10. Len(written) \in Nat /\ 1..Len(written) \subseteq 1..Len(written')
  BY <1>4, <1>5
<1>11. MemoryReceived'
  <2>1. seen \in Seq(1..Len(written'))
    <3>1. PICK S, T : S = 1..Len(written) /\ T = 1..Len(written')
      OBVIOUS
    <3>2. seen \in Seq(S) /\ S \subseteq T
      BY <1>10, <3>1 DEF InboundInv, MemoryReceived
    <3>3. seen \in Seq(T)
      BY <3>2
    <3> QED
      BY <3>1, <3>3
  <2> QED
    BY <1>2, <1>10, <2>1 DEF InboundInv, MemoryReceived, ToSet
<1>12. BatchesWritten'
  <2>1. \A i \in DOMAIN payloads : payloads[i].last \in Int /\ payloads[i].last =< Len(written)
    <3>1. \A i \in DOMAIN payloads : payloads[i] \in Batches
      BY DEF InboundInv, BatchesWritten
    <3> QED
      BY <3>1 DEF InboundInv, BatchesWritten, Batches
  <2> QED
    BY <1>2, <1>5, <1>10, <2>1 DEF InboundInv, BatchesWritten
<1>13. AckedWhole'
  BY <1>2 DEF InboundInv, AckedWhole, Batch
<1> QED
  BY <1>9, <1>11, <1>12, <1>13 DEF InboundInv

LEMMA BundleMoves ==
  ASSUME InboundInv, Bundle
  PROVE  InboundInv'
<1>1. PICK last \in (Bundled + 1)..Len(written) :
        payloads' = Append(payloads, [first |-> Bundled + 1, last |-> last, acked |-> FALSE])
  BY DEF Bundle
<1>2. UNCHANGED <<clock, spelling, written, seen, received, opened, guessed, lastInbound, entry, billed>>
  BY DEF Bundle, client, session
<1>3. payloads \in Seq(Batches)
  BY DEF InboundInv, BatchesWritten
<1>4. Bundled \in Nat
  <2>1. CASE payloads = <<>>
    BY <2>1 DEF Bundled
  <2>2. CASE payloads # <<>>
    <3>1. payloads[Len(payloads)] \in Batches
      BY <1>3, <2>2
    <3> QED
      BY <2>2, <3>1 DEF Bundled, Last, Batches
  <2> QED
    BY <2>1, <2>2
<1>5. last \in Nat /\ Bundled + 1 =< last /\ last =< Len(written)
  BY <1>4 DEF InboundInv, WrittenTyped
<1>6. PICK new : new = [first |-> Bundled + 1, last |-> last, acked |-> FALSE]
  OBVIOUS
<1>12. new \in Batches /\ new.first = Bundled + 1 /\ new.last = last /\ ~new.acked
  BY <1>4, <1>5, <1>6 DEF Batches
<1>7. /\ payloads' \in Seq(Batches) /\ Len(payloads') = Len(payloads) + 1
      /\ \A i \in 1..Len(payloads) : payloads'[i] = payloads[i]
      /\ payloads'[Len(payloads) + 1] = new
  BY <1>1, <1>3, <1>6, <1>12, AppendProperties
<1>8. DOMAIN payloads' = DOMAIN payloads \cup {Len(payloads) + 1} /\ DOMAIN payloads = 1..Len(payloads)
  BY <1>3, <1>7
<1>9. ClockTyped' /\ WindowKnown' /\ WrittenTyped' /\ Billed' /\ MemoryReceived'
  BY <1>2 DEF InboundInv, ClockTyped, WindowKnown, WrittenTyped, Billed, FreeOnly, MemoryReceived,
              ToSet
<1>10. BatchesWritten'
  <2>1. 1 =< new.first /\ new.first =< new.last /\ new.last =< Len(written)
    BY <1>4, <1>5, <1>12
  <2> QED
    BY <1>2, <1>7, <1>8, <2>1 DEF InboundInv, BatchesWritten
<1>11. AckedWhole'
  BY <1>2, <1>7, <1>8, <1>12 DEF InboundInv, AckedWhole, Batch
<1> QED
  BY <1>9, <1>10, <1>11 DEF InboundInv

LEMMA InboundStep == InboundInv /\ [Next]_vars => InboundInv'
<1> SUFFICES ASSUME InboundInv, [Next]_vars PROVE InboundInv'
  OBVIOUS
<1>0. UNCHANGED billed => Billed'
  BY DEF InboundInv, Billed, FreeOnly
<1>1. CASE UNCHANGED vars
  BY <1>0, <1>1, InboundUnchanged DEF vars, webhook, client, session
<1>2. CASE Tick
  <2>1. /\ clock' = clock + 1 /\ clock < MaxTime
        /\ UNCHANGED <<spelling, written, payloads, seen, received, opened, guessed, lastInbound,
                     entry, billed>>
    BY <1>2 DEF Tick, webhook, client, session
  <2>2. ClockTyped' /\ WindowKnown'
    BY <2>1, BoundsAssumption DEF InboundInv, ClockTyped, WindowKnown
  <2>3. WrittenTyped' /\ BatchesWritten' /\ MemoryReceived' /\ Billed' /\ AckedWhole'
    BY <2>1 DEF InboundInv, WrittenTyped, BatchesWritten, MemoryReceived, Billed, FreeOnly,
                AckedWhole, Batch, ToSet
  <2> QED
    BY <2>2, <2>3 DEF InboundInv
<1>3. CASE CustomerWrites
  BY <1>3, WritesMoves
<1>4. CASE Bundle
  BY <1>4, BundleMoves
<1>5. CASE RecordFreeEntryPoint
  <2>1. /\ entry' = clock
        /\ UNCHANGED <<clock, spelling, written, payloads, seen, received, opened, guessed, lastInbound,
                     billed>>
    BY <1>5 DEF RecordFreeEntryPoint, webhook, session
  <2>2. WindowKnown'
    BY <2>1, BoundsAssumption DEF InboundInv, ClockTyped, WindowKnown
  <2>3. ClockTyped' /\ WrittenTyped' /\ BatchesWritten' /\ MemoryReceived' /\ Billed' /\ AckedWhole'
    BY <2>1 DEF InboundInv, ClockTyped, WrittenTyped, BatchesWritten, MemoryReceived, Billed,
                FreeOnly, AckedWhole, Batch, ToSet
  <2> QED
    BY <2>2, <2>3 DEF InboundInv
<1>6. ASSUME NEW i \in DOMAIN payloads, Retry(i) \/ Redeliver(i) PROVE InboundInv'
  BY <1>6, DeliverMoves DEF Retry, Redeliver
<1>7. ASSUME NEW k \in Keys, NEW request \in Requests, Post(k, request) PROVE InboundInv'
  BY <1>7, PostIsFreeOrGuessed, InboundUnchanged DEF Post, webhook, client
<1>8. ASSUME NEW k \in Keys, NEW request \in Requests, Repeat(k, request) \/ Refuse(k, request)
      PROVE  InboundInv'
  BY <1>0, <1>8, InboundUnchanged DEF Repeat, Refuse, webhook, client
<1>9. ASSUME NEW k \in Keys, Block(k) \/ Resolve(k) PROVE InboundInv'
  BY <1>0, <1>9, InboundUnchanged
     DEF Block, Resolve, Confirmed, Failed, GiveUp, TurnCommits, TurnFails, webhook, client
<1>10. ASSUME NEW k \in Keys, NEW n \in DOMAIN attempts[k], Accept(k, n) PROVE InboundInv'
  BY <1>0, <1>10, InboundUnchanged DEF Accept, webhook, client
<1> QED
  BY <1>1, <1>2, <1>3, <1>4, <1>5, <1>6, <1>7, <1>8, <1>9, <1>10 DEF Next, ProviderStep, Ask

LEMMA InboundInit == Init => InboundInv
<1> SUFFICES ASSUME Init PROVE InboundInv
  OBVIOUS
<1>1. ClockTyped /\ WindowKnown /\ WrittenTyped /\ Billed
  BY BoundsAssumption DEF Init, ClockTyped, WindowKnown, WrittenTyped, Billed, FreeOnly, Later, Never
<1>2. BatchesWritten /\ MemoryReceived /\ AckedWhole
  BY CapacityPositive DEF Init, BatchesWritten, MemoryReceived, AckedWhole, ToSet
<1> QED
  BY <1>1, <1>2 DEF InboundInv

\* What a client in its default posture posts is free, but inside a window that an
\* undated message, new to the receiver, has opened: pricing, record_inbound and the
\* receiver's deliver, for any windows, any memory and any batching.
THEOREM FreeOnlyHolds == Spec => []FreeOnly
<1>1. InboundInv => FreeOnly
  BY DEF InboundInv, Billed
<1> QED
  BY <1>1, InboundInit, InboundStep, PTL DEF Spec

\* While every message carries its date, nothing is guessed, and so nothing at all
\* that the provider would charge for is posted (pricing.py:65).
THEOREM DatedNeverCharged == Spec /\ []AllDated => []NothingCharged
<1> DEFINE NoGuess == guessed = Never /\ billed = {}
<1>1. Init => NoGuess
  BY DEF Init
<1>2. ASSUME InboundInv, InboundInv', AllDated, NoGuess, [Next]_vars PROVE NoGuess'
  <2>1. ASSUME NEW i \in DOMAIN payloads, Deliver(i) PROVE NoGuess'
    <3>1. PICK faulty \in SUBSET Batch(payloads[i]) :
            guessed' = Delivered(payloads[i], faulty).guessed /\ billed' = billed
      BY <2>1 DEF Deliver, session
    <3>2. Delivered(payloads[i], faulty).guessed = guessed
      BY <1>2, DeliveredSound DEF RunSound
    <3> QED
      BY <1>2, <3>1, <3>2
  <2>2. ASSUME NEW k \in Keys, NEW request \in Requests, Post(k, request) PROVE NoGuess'
    <3>1. guessed' = guessed
      BY <2>2 DEF Post
    <3>2. ASSUME NEW post, billed' = {post}, post = [key |-> k, at |-> clock, guessed |-> guessed]
          PROVE  FALSE
      <4>1. post.guessed # Never
        BY <1>2, <3>2 DEF InboundInv, Billed, FreeOnly
      <4> QED
        BY <1>2, <3>2, <4>1
    <3>3. billed' = {} \/ billed' = {[key |-> k, at |-> clock, guessed |-> guessed]}
      BY <1>2, <2>2 DEF Post
    <3> QED
      BY <1>2, <3>1, <3>2, <3>3
  <2>3. CASE ~(\E i \in DOMAIN payloads : Deliver(i))
             /\ ~(\E k \in Keys : \E request \in Requests : Post(k, request))
    <3>1. UNCHANGED <<guessed, billed>>
      BY <1>2, <2>3
         DEF Next, vars, Tick, ProviderStep, CustomerWrites, Bundle, RecordFreeEntryPoint, Retry,
             Redeliver, Accept, Block, Ask, Repeat, Refuse, Resolve, Confirmed, Failed, GiveUp,
             TurnCommits, TurnFails, session
    <3> QED
      BY <1>2, <3>1
  <2> QED
    BY <2>1, <2>2, <2>3
<1>3. NoGuess => NothingCharged
  BY DEF NothingCharged
<1> QED
  BY <1>1, <1>2, <1>3, InboundInit, InboundStep, PTL DEF Spec

\* A batch answered 200 was taken in whole: the webhook handler and the receiver,
\* for any batches and any memory of delivered messages.
THEOREM AckedWholeHolds == Spec => []AckedWhole
<1>1. InboundInv => AckedWhole
  BY DEF InboundInv
<1> QED
  BY <1>1, InboundInit, InboundStep, PTL DEF Spec

-----------------------------------------------------------------------------
(* One turn at a time, and only below the quota: what keeps the quota. *)

Turning == {k \in Keys : InTurn(k)}

QuotaInv ==
  /\ approved \in 0..MaxActions
  /\ \A k \in Turning : approved < MaxActions /\ Turning = {k}

\* A turn that ends, or goes on, leaves the quota as it was.
LEMMA QuotaKept ==
  ASSUME QuotaInv, OpsTyped, NEW k \in Keys, NEW op, ops' = [ops EXCEPT ![k] = op],
         approved' = approved, InTurn(k) \/ op.stage \notin {"posting", "answered"}
  PROVE  QuotaInv'
<1>1. ASSUME NEW j \in Turning' PROVE j \in Turning
  BY <1>1 DEF Turning, InTurn, OpsTyped
<1> QED
  BY <1>1 DEF QuotaInv, Turning

\* A turn that begins found the session idle and the quota open.
LEMMA QuotaSpent ==
  ASSUME QuotaInv, OpsTyped, NEW k \in Keys, NEW op, ops' = [ops EXCEPT ![k] = op],
         approved' = approved, Idle(k), approved < MaxActions
  PROVE  QuotaInv'
<1>1. ASSUME NEW j \in Turning' PROVE j = k
  BY <1>1 DEF Turning, InTurn, OpsTyped, Idle
<1>2. \A j \in Turning' : approved < MaxActions /\ Turning' = {j}
  BY <1>1
<1> QED
  BY <1>2 DEF QuotaInv, Turning

LEMMA QuotaStep == OpsTyped /\ QuotaInv /\ [Next]_vars => QuotaInv'
<1> SUFFICES ASSUME OpsTyped, QuotaInv, [Next]_vars PROVE QuotaInv'
  OBVIOUS
<1>0. (UNCHANGED <<ops, approved>>) => QuotaInv'
  BY DEF QuotaInv, Turning, InTurn
<1>1. CASE UNCHANGED vars
  BY <1>0, <1>1 DEF vars, session
<1>2. CASE Tick \/ ProviderStep
  BY <1>0, <1>2 DEF Tick, ProviderStep, CustomerWrites, Bundle, RecordFreeEntryPoint, Retry,
                    Redeliver, Deliver, Accept, session
<1>3. ASSUME NEW k \in Keys, Block(k) PROVE QuotaInv'
  <2>1. PICK op : op = Closed(ops[k])
    OBVIOUS
  <2>2. op.stage = "done" /\ ops' = [ops EXCEPT ![k] = op] /\ approved' = approved
    <3>1. ops[k] \in Operation
      BY DEF OpsTyped
    <3> QED
      BY <1>3, <2>1, <3>1 DEF Block, Closed, OpsTyped, Operation
  <2> QED
    BY <2>2, QuotaKept
<1>4. ASSUME NEW k \in Keys, Ask(k) PROVE QuotaInv'
  <2>1. Idle(k) /\ approved < MaxActions /\ approved' = approved
    BY <1>4 DEF Ask, Repeat, Refuse, Post, Asked, Authorized
  <2>2. \E op : ops' = [ops EXCEPT ![k] = op]
    BY <1>4, Zenon DEF Ask, Repeat, Refuse, Post, Answer
  <2> QED
    BY <2>1, <2>2, QuotaSpent
<1>5. ASSUME NEW k \in Keys, Confirmed(k) PROVE QuotaInv'
  <2>1. InTurn(k) /\ approved' = approved /\ \E op : ops' = [ops EXCEPT ![k] = op]
    BY <1>5 DEF Confirmed, Answer, InTurn
  <2> QED
    BY <2>1, QuotaKept
<1>6. ASSUME NEW k \in Keys, Failed(k) \/ TurnFails(k) PROVE QuotaInv'
  <2>1. InTurn(k) /\ approved' = approved /\ ops' = [ops EXCEPT ![k] = [ops[k] EXCEPT !.stage = "idle"]]
    BY <1>6 DEF Failed, TurnFails, InTurn, OpsTyped
  <2> QED
    BY <2>1, QuotaKept
<1>7. ASSUME NEW k \in Keys, GiveUp(k) PROVE QuotaInv'
  <2>1. /\ InTurn(k) /\ approved' = approved
        /\ ops' = [ops EXCEPT ![k] = [ops[k] EXCEPT !.stage = "idle", !.unanswered = @ + 1]]
    <3>1. ops[k] \in Operation
      BY DEF OpsTyped
    <3> QED
      BY <1>7, <3>1 DEF GiveUp, InTurn, OpsTyped, Operation
  <2> QED
    BY <2>1, QuotaKept
<1>8. ASSUME NEW k \in Keys, TurnCommits(k) PROVE QuotaInv'
  <2>1. PICK op : op = Closed(ops[k])
    OBVIOUS
  <2>2. /\ op.stage = "done" /\ ops' = [ops EXCEPT ![k] = op] /\ approved' = approved + 1
        /\ k \in Turning
    <3>1. ops[k] \in Operation
      BY DEF OpsTyped
    <3> QED
      BY <1>8, <2>1, <3>1 DEF TurnCommits, Closed, OpsTyped, Operation, Turning, InTurn
  <2>3. Turning = {k} /\ approved < MaxActions
    BY <2>2 DEF QuotaInv
  <2>4. Turning' = {}
    <3>1. ASSUME NEW j \in Turning' PROVE FALSE
      BY <2>2, <2>3, <3>1 DEF Turning, InTurn, OpsTyped
    <3> QED
      BY <3>1
  <2> QED
    BY <2>2, <2>3, <2>4, BoundsAssumption DEF QuotaInv
<1> QED
  BY <1>1, <1>2, <1>3, <1>4, <1>5, <1>6, <1>7, <1>8 DEF Next, Resolve

LEMMA QuotaInit == Init => QuotaInv
BY BoundsAssumption DEF Init, QuotaInv, Turning, InTurn

\* Types; the memory of delivered messages and the quota keep their bounds.
THEOREM TypeCorrect == Spec => []TypeOK
<1>1. SendInv /\ InboundInv /\ QuotaInv => TypeOK
  <2> SUFFICES ASSUME SendInv, InboundInv, QuotaInv PROVE TypeOK
    OBVIOUS
  <2>1. /\ clock \in 0..MaxTime /\ spelling \in Refs
        /\ {opened, guessed, entry} \subseteq Times /\ lastInbound \in [Refs -> Times]
    BY BoundsAssumption
       DEF InboundInv, ClockTyped, WindowKnown, WrittenTyped, Times, Never, Later
  <2>2. written \in Seq([at : Times, stamped : BOOLEAN])
    <3>1. PICK S : S = [at : Times, stamped : BOOLEAN]
      OBVIOUS
    <3>2. Messages \subseteq S
      BY <3>1 DEF Messages, Times
    <3>3. written \in Seq(Messages)
      BY DEF InboundInv, WrittenTyped
    <3>4. written \in Seq(S)
      BY <3>2, <3>3
    <3> QED
      BY <3>1, <3>4, Zenon
  <2>3. payloads \in Seq([first : Nat, last : Nat, acked : BOOLEAN])
    BY DEF InboundInv, BatchesWritten, Batches
  <2>4. /\ seen \in Seq(DOMAIN written) /\ Len(seen) =< DedupeCapacity
        /\ received \subseteq DOMAIN written
    <3>1. DOMAIN written = 1..Len(written)
      BY <2>2
    <3> QED
      BY <3>1 DEF InboundInv, MemoryReceived
  <2>5. /\ results \in [Keys -> Statuses] /\ ops \in [Keys -> Operation]
        /\ attempts \in [Keys -> Seq(Outcomes)] /\ approved \in 0..MaxActions
    BY DEF SendInv, OpsTyped, QuotaInv
  <2>6. billed \subseteq [key : Keys, at : Times, guessed : Times]
    BY DEF InboundInv, Billed
  <2> QED
    BY <2>1, <2>2, <2>3, <2>4, <2>5, <2>6 DEF TypeOK
<1>2. SendInv => OpsTyped
  BY DEF SendInv
<1> QED
  BY <1>1, <1>2, SendInit, SendStep, InboundInit, InboundStep, QuotaInit, QuotaStep, PTL DEF Spec
=============================================================================
