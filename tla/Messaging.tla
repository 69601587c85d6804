------------------------------ MODULE Messaging ------------------------------
(***************************************************************************)
(* WhatsApp: the webhook that learns when a customer wrote, the client     *)
(* that may reply for free only because of it, and the turn of one session *)
(* that asks for a follow-up message and may be retried.                   *)
(*                                                                         *)
(* The provider is outside the repository: it batches a customer's         *)
(* messages, delivers a batch again until it is answered 200 (and          *)
(* sometimes after), and takes, refuses or loses a send.  One customer and *)
(* one session are enough: nothing the code keeps is shared by two of      *)
(* them except the memory of delivered messages.                           *)
(***************************************************************************)
EXTENDS Integers, FiniteSets, SequencesExt

CONSTANTS
    Posture,          \* the client's CostPosture
    Keys,             \* the operations of the session, one idempotency key each
    Window,           \* SERVICE_WINDOW, in ticks of the clock
    EntryWindow,      \* FREE_ENTRY_POINT_WINDOW, in ticks
    DedupeCapacity,   \* DEDUPE_CAPACITY
    MaxActions,       \* the session's quota of approved previews
    MaxMessages, MaxBatch, MaxTime, MaxAttempts   \* bounds of the instance

ASSUME WindowsNested == Window \in Nat \ {0} /\ EntryWindow \in Nat /\ EntryWindow >= Window
ASSUME PostureKnown == Posture \in {"free-only", "allow-paid"}
ASSUME CapacityPositive == DedupeCapacity \in Nat \ {0}
ASSUME BoundsAssumption == MaxActions \in Nat /\ MaxTime \in Nat

VARIABLES
    clock,
    spelling,     \* how the webhook spells the customer's number
    written,      \* the customer's messages, in the order written
    payloads,     \* the batches the provider made of them
    seen,         \* WebhookReceiver._seen, oldest first
    received,     \* the messages in WebhookReceiver.received
    opened,       \* external: when the customer last wrote, as the provider knows
    guessed,      \* history: when an undated message was last filed as of now
    lastInbound,  \* WhatsAppCloudAdapter._last_inbound
    entry,        \* _free_entry_point
    results,      \* _results
    ops,          \* what the session asked with each key, and was told
    attempts,     \* the requests posted with each key, by outcome
    approved,     \* SimulatorSession.approved_preview_count
    billed        \* history: what was posted free-only while the provider would charge

webhook == <<written, payloads, seen, received>>
client == <<lastInbound, entry, results>>
session == <<ops, attempts, approved, billed>>
vars == <<clock, spelling, webhook, opened, guessed, client, session>>

Never == -1

\* A number with its plus sign, and anything else: the same number as a wa_id
\* spells it, or the reference a simulated lead has.
Refs == {"full", "bare"}
Categories == {"none", "utility", "marketing"}
Requests == ({"full"} \X Categories) \union {<<"bare", "none">>}
NoRequest == <<"none", "none">>
Statuses == {"none", "sent", "refused-invalid-destination", "refused-would-be-charged"}
Outcomes == {"flying", "accepted", "rejected"}

-----------------------------------------------------------------------------
(* Pricing: what may be sent without being billed. *)

EntryOpen(at, now) == at # Never /\ now - at < EntryWindow

\* mutant: the window's last instant counted as inside it
ServiceOpenInclusive(at, now) == at # Never /\ now - at <= Window

ServiceOpen(at, now) == at # Never /\ now - at < Window

FreeTo(category, service, entryPoint) ==
    entryPoint \/ (category \in {"none", "utility"} /\ service)

Allowed(category, at, entryAt, now) ==
    \/ FreeTo(category, ServiceOpen(at, now), EntryOpen(entryAt, now))
    \/ Posture = "allow-paid"

\* The provider's own view of the same question: the window the customer opened by
\* writing, whenever that was delivered, and the entry point, whatever reference
\* the client filed them under.
Charges(category, entryAt) ==
    ~FreeTo(category, opened # Never /\ clock < opened + Window,
                      entryAt # Never /\ clock < entryAt + EntryWindow)

-----------------------------------------------------------------------------
(* The webhook. *)

Later(a, b) == IF a > b THEN a ELSE b

\* WebhookReceiver.deliver for one message m of a batch: a repeat is skipped, a
\* new one is remembered (forgetting the oldest), filed and handed on.  The
\* handler files the customer's time with the client, or raises, which leaves
\* the rest of the batch undelivered.
Sent(m) == IF written[m].stamped THEN written[m].at ELSE clock

Remember(ids, m) ==
    IF Len(ids) >= DedupeCapacity THEN Append(Tail(ids), m) ELSE Append(ids, m)

\* For the history: the message has no date and is no repeat, so that its time is
\* the receiver's to guess.
Guesses(run, m) ==
    ~written[m].stamped /\ m \notin run.faulty /\ m \notin ToSet(run.seen)

RecordInbound(last, ref, at) == [last EXCEPT ![ref] = Later(@, at)]

Filed(run, m) ==
    [run EXCEPT
        !.seen = Remember(@, m),
        !.received = @ \union {m},
        !.raised = m \in run.faulty,
        !.last = IF m \in run.faulty THEN @ ELSE RecordInbound(@, spelling, Sent(m)),
        !.guessed = IF Guesses(run, m) THEN clock ELSE @]

\* mutant: a message that is remembered is filed again
DeliverAgain(run, m) == IF run.raised THEN run ELSE Filed(run, m)

DeliverOne(run, m) ==
    IF run.raised \/ m \in ToSet(run.seen) THEN run ELSE Filed(run, m)

Batch(p) == p.first..p.last

Unrun(faulty) ==
    [seen |-> seen, received |-> received, last |-> lastInbound,
     guessed |-> guessed, faulty |-> faulty, raised |-> FALSE]

\* The messages of a batch, one after the other.
Run(p, faulty) ==
    LET run[n \in 0..(p.last - p.first + 1)] ==
          IF n = 0 THEN Unrun(faulty) ELSE DeliverOne(run[n - 1], p.first + n - 1)
    IN run

Delivered(p, faulty) == Run(p, faulty)[p.last - p.first + 1]

-----------------------------------------------------------------------------
Init ==
    /\ clock = 0
    /\ spelling \in Refs
    /\ written = <<>>
    /\ payloads = <<>>
    /\ seen = <<>>
    /\ received = {}
    /\ opened = Never /\ guessed = Never
    /\ lastInbound = [r \in Refs |-> Never]
    /\ entry = Never
    /\ results = [k \in Keys |-> "none"]
    /\ ops = [k \in Keys |-> [stage |-> "idle", request |-> NoRequest,
                              told |-> "none", unanswered |-> 0]]
    /\ attempts = [k \in Keys |-> <<>>]
    /\ approved = 0
    /\ billed = {}

Tick ==
    /\ clock < MaxTime
    /\ clock' = clock + 1
    /\ UNCHANGED <<spelling, webhook, opened, guessed, client, session>>

(* The customer and the provider. *)

CustomerWrites ==
    /\ Len(written) < MaxMessages
    /\ \E stamped \in BOOLEAN : written' = Append(written, [at |-> clock, stamped |-> stamped])
    /\ opened' = clock
    /\ UNCHANGED <<clock, spelling, payloads, seen, received, guessed, client, session>>

\* The messages already in a batch.
Bundled == IF payloads = <<>> THEN 0 ELSE Last(payloads).last

Bundle ==
    /\ Bundled < Len(written)
    /\ \E last \in (Bundled + 1)..Len(written) :
          /\ last - Bundled <= MaxBatch
          /\ payloads' = Append(payloads, [first |-> Bundled + 1, last |-> last, acked |-> FALSE])
    /\ UNCHANGED <<clock, spelling, written, seen, received, opened, guessed, client, session>>

\* mutant: the receiver answers 200 although its handler raised
DeliverQuietly(i) ==
    \E faulty \in SUBSET Batch(payloads[i]) :
      LET run == Delivered(payloads[i], faulty)
      IN /\ seen' = run.seen
         /\ received' = run.received
         /\ lastInbound' = run.last
         /\ guessed' = run.guessed
         /\ payloads' = [payloads EXCEPT ![i].acked = TRUE]
         /\ UNCHANGED <<clock, spelling, written, opened, entry, results, session>>

\* POST /webhook, for a signed, well-formed payload: 200 unless a handler raised.
Deliver(i) ==
    \E faulty \in SUBSET Batch(payloads[i]) :
      LET run == Delivered(payloads[i], faulty)
      IN /\ seen' = run.seen
         /\ received' = run.received
         /\ lastInbound' = run.last
         /\ guessed' = run.guessed
         /\ payloads' = [payloads EXCEPT ![i].acked = @ \/ ~run.raised]
         /\ UNCHANGED <<clock, spelling, written, opened, entry, results, session>>

Retry(i) == ~payloads[i].acked /\ Deliver(i)

Redeliver(i) == payloads[i].acked /\ Deliver(i)

\* The customer came from an advertisement and was answered just now (once, at
\* the start, in this model).
RecordFreeEntryPoint ==
    /\ entry = Never /\ clock = 0
    /\ entry' = clock
    /\ UNCHANGED <<clock, spelling, webhook, opened, guessed, lastInbound, results, session>>

(* The session's turns.  They run one at a time, under the session's lock. *)

InTurn(k) == ops[k].stage \in {"posting", "answered"}

Idle(k) == ops[k].stage = "idle" /\ \A j \in Keys : ~InTurn(j)

\* ActionPolicy.authorize: everything the contact and the conversation allow,
\* and the quota.
Authorized(permitted) == permitted /\ approved < MaxActions

\* The request of an operation, which a retry must repeat.
Asked(k, request) ==
    /\ Idle(k)
    /\ Authorized(TRUE)
    /\ ops[k].request \in {NoRequest, request}

Answer(k, request, told) ==
    ops' = [ops EXCEPT ![k] = [@ EXCEPT !.stage = "answered", !.request = request,
                                        !.told = told]]

\* The turn is over: its operation is answered from the session's memory.
Closed(op) == [op EXCEPT !.stage = "done", !.request = NoRequest]

\* ActionPolicy blocks the preview: the turn is over and nothing was asked.
Block(k) ==
    /\ Idle(k)
    /\ \E permitted \in BOOLEAN : ~Authorized(permitted)
    /\ ops' = [ops EXCEPT ![k] = Closed(@)]
    /\ UNCHANGED <<clock, spelling, webhook, opened, guessed, client, attempts, approved, billed>>

\* send_message up to its only await.  A key with a result returns it ...
Repeat(k, request) ==
    /\ Asked(k, request)
    /\ results[k] # "none"
    /\ Answer(k, request, results[k])
    /\ UNCHANGED <<clock, spelling, webhook, opened, guessed, client, attempts, approved, billed>>

\* ... and so does every refusal, from then on: a destination that is not a full
\* number, or a message that would be billed.
Refusal(request) ==
    IF request[1] # "full" THEN "refused-invalid-destination"
    ELSE IF Allowed(request[2], lastInbound["full"], entry, clock) THEN "none"
    ELSE "refused-would-be-charged"

Refuse(k, request) ==
    /\ Asked(k, request)
    /\ results[k] = "none"
    /\ Refusal(request) # "none"
    /\ results' = [results EXCEPT ![k] = Refusal(request)]
    /\ Answer(k, request, Refusal(request))
    /\ UNCHANGED <<clock, spelling, webhook, opened, guessed, lastInbound, entry,
                   attempts, approved, billed>>

Post(k, request) ==
    /\ Asked(k, request)
    /\ results[k] = "none"
    /\ Refusal(request) = "none"
    /\ Len(attempts[k]) < MaxAttempts
    /\ attempts' = [attempts EXCEPT ![k] = Append(@, "flying")]
    /\ ops' = [ops EXCEPT ![k] = [@ EXCEPT !.stage = "posting", !.request = request,
                                           !.told = "raised"]]
    /\ billed' = IF Posture = "free-only" /\ Charges(request[2], entry)
                 THEN billed \union {[key |-> k, at |-> clock, guessed |-> guessed]}
                 ELSE billed
    /\ UNCHANGED <<clock, spelling, webhook, opened, guessed, client, approved>>

\* The provider takes a request, at any time: after the client gave it up as
\* well.
Accept(k, n) ==
    /\ attempts[k][n] = "flying"
    /\ attempts' = [attempts EXCEPT ![k][n] = "accepted"]
    /\ UNCHANGED <<clock, spelling, webhook, opened, guessed, client, ops, approved, billed>>

\* mutant: the result of a send is returned and not stored
ConfirmedUnstored(k) ==
    /\ ops[k].stage = "posting"
    /\ Last(attempts[k]) = "accepted"
    /\ Answer(k, ops[k].request, "sent")
    /\ UNCHANGED <<clock, spelling, webhook, opened, guessed, client,
                   attempts, approved, billed>>

\* The provider's answer reaches the client: 200 is stored under the key ...
Confirmed(k) ==
    /\ ops[k].stage = "posting"
    /\ Last(attempts[k]) = "accepted"
    /\ results' = [results EXCEPT ![k] = "sent"]
    /\ Answer(k, ops[k].request, "sent")
    /\ UNCHANGED <<clock, spelling, webhook, opened, guessed, lastInbound, entry,
                   attempts, approved, billed>>

\* ... and an error raises, stores nothing and rolls the turn back.
Failed(k) ==
    /\ ops[k].stage = "posting"
    /\ Last(attempts[k]) = "flying"
    /\ attempts' = [attempts EXCEPT ![k] = Append(Front(@), "rejected")]
    /\ ops' = [ops EXCEPT ![k].stage = "idle"]
    /\ UNCHANGED <<clock, spelling, webhook, opened, guessed, client, approved, billed>>

\* The client's time-out, or the turn's cancellation, while the answer is away.
GiveUp(k) ==
    /\ ops[k].stage = "posting"
    /\ ops' = [ops EXCEPT ![k].stage = "idle", ![k].unanswered = @ + 1]
    /\ UNCHANGED <<clock, spelling, webhook, opened, guessed, client, attempts, approved, billed>>

\* The rest of the turn: committed, or rolled back with its operation open.
TurnCommits(k) ==
    /\ ops[k].stage = "answered"
    /\ ops' = [ops EXCEPT ![k] = Closed(@)]
    /\ approved' = approved + 1
    /\ UNCHANGED <<clock, spelling, webhook, opened, guessed, client, attempts, billed>>

TurnFails(k) ==
    /\ ops[k].stage = "answered"
    /\ ops' = [ops EXCEPT ![k].stage = "idle"]
    /\ UNCHANGED <<clock, spelling, webhook, opened, guessed, client, attempts, approved, billed>>

-----------------------------------------------------------------------------
ProviderStep ==
    \/ CustomerWrites \/ Bundle \/ RecordFreeEntryPoint
    \/ \E i \in DOMAIN payloads : Retry(i) \/ Redeliver(i)
    \/ \E k \in Keys : \E n \in DOMAIN attempts[k] : Accept(k, n)

Ask(k) ==
    \E request \in Requests :
        Repeat(k, request) \/ Refuse(k, request) \/ Post(k, request)

Resolve(k) == Confirmed(k) \/ Failed(k) \/ GiveUp(k) \/ TurnCommits(k) \/ TurnFails(k)

Next == Tick \/ ProviderStep \/ (\E k \in Keys : Block(k) \/ Ask(k) \/ Resolve(k))

Spec == Init /\ [][Next]_vars

-----------------------------------------------------------------------------
Times == {Never} \union 0..MaxTime

Stages == {"idle", "posting", "answered", "done"}
Operation == [stage : Stages, request : Requests \union {NoRequest},
              told : Statuses \union {"raised"}, unanswered : Nat]

\* Types, and the bounds the code keeps: the memory of delivered messages, the
\* quota.
TypeOK ==
    /\ clock \in 0..MaxTime /\ spelling \in Refs
    /\ written \in Seq([at : Times, stamped : BOOLEAN])
    /\ payloads \in Seq([first : Nat, last : Nat, acked : BOOLEAN])
    /\ seen \in Seq(DOMAIN written) /\ Len(seen) <= DedupeCapacity
    /\ received \subseteq DOMAIN written
    /\ lastInbound \in [Refs -> Times] /\ {opened, guessed, entry} \subseteq Times
    /\ results \in [Keys -> Statuses] /\ ops \in [Keys -> Operation]
    /\ attempts \in [Keys -> Seq(Outcomes)]
    /\ approved \in 0..MaxActions
    /\ billed \subseteq [key : Keys, at : Times, guessed : Times]

Accepted(k) == Cardinality({n \in DOMAIN attempts[k] : attempts[k][n] = "accepted"})

\* A client in its default posture posts what the provider would charge for only
\* inside a window of its own guessing: one it opened by filing an undated message,
\* new to it, as of now (webhook.py:121).  Its record of the window never runs ahead
\* of the customer otherwise, however batches are delayed, reordered, repeated or
\* interrupted; and a repeat it remembers opens none.
FreeOnly ==
    \A post \in billed : post.guessed # Never /\ post.at < post.guessed + Window

\* pricing.py:65 of the default posture: "a sender in this posture cannot emit a
\* chargeable message even when asked to".  Not so once an undated message is
\* delivered late: MCSendCharged.cfg.
NothingCharged == billed = {}

\* Retrying an operation delivers its message again only for an attempt whose
\* answer never came: a key that was answered is never posted again.
NoSilentRepeat == \A k \in Keys : Accepted(k) <= 1 + ops[k].unanswered

\* What the operator is told is what happened: a message reported sent was taken
\* by the provider, one reported refused was not (unless an earlier attempt of
\* the operation went unanswered).
ToldTruth ==
    \A k \in Keys :
        /\ ops[k].told = "sent" => Accepted(k) >= 1
        /\ ops[k].told \in {"refused-invalid-destination", "refused-would-be-charged"}
           /\ ops[k].unanswered = 0 => Accepted(k) = 0

\* An operation's answers and its deliveries tell the same story.
SendsHonest == NoSilentRepeat /\ ToldTruth

\* A handler that raises loses its own message and no other: a batch the webhook
\* has answered 200, however often it was interrupted, was taken in whole, and a
\* batch that was not is still the provider's to deliver.
AckedWhole ==
    \A i \in DOMAIN payloads :
        payloads[i].acked => Batch(payloads[i]) \subseteq received

=============================================================================
