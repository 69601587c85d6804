# A verification development for PitchBot

PitchBot (`src/src/pitchbot`, Python) is a sales agent that talks to a buyer in text or by
voice, keeps each accepted turn in a durable event stream, and acts on the buyer's behalf
through providers: callbacks, decks, WhatsApp messages. This directory models the parts of it
in which several actors meet (requests, worker threads, processes, providers, a microphone),
checks them with TLC on small instances, and proves part of what is checked for every value
of the constants with TLAPS.

Paths below are relative to `src/src/pitchbot` unless they begin with `docs/` or `tests/`.

    tlc -workers 2 -config MCEventStore.cfg MCEventStore      # a run; the table in section 4 has them all
    tlapm EventStoreProofs.tla                                # the proofs: any module named *Proofs

## 1. The system, part by part

The server is one asyncio event loop and the worker threads it starts with
`asyncio.to_thread` or FastAPI's request pool. An asyncio handler runs without interruption
from one `await` to the next; a thread interleaves anywhere. This is what decides where a
model's steps begin and end.

### Event store — `storage/repository.py`, `models.py`, `database.py`

* State: a row per lead (`aggregate_records`: type, version, privacy state), the events of
  each lead by version, `privacy_operation_records`, suppression states.
* Operations: `append` with an optional expected version; `read`, `status`; `anonymize_lead`,
  `hard_delete_lead`, `purge_expired`; `record_suppression`, `is_suppressed`.
* Who meets whom: worker threads of every server process and the operator's command line share
  the database and no lock. `append` reads the head in autocommit and compares and sets it in
  a later transaction.
* Correct when: streams are gapless whoever races; `append` is as atomic as if it had held a
  lock; refusals have a cause; an erasure leaves nothing, whatever was in flight; opt-outs
  survive retention; a tombstone is for ever.

### Durable turns — `simulator/service.py` `process_turn`, `conversation/journal.py`

* State: the session's engine state (in memory), its memo of operations, the lead's stream.
* Operations: `prepare_turn` (export, look for the operation, check the version, the room and
  the agreement of engine and stream), understanding, the action preview, `commit_turn`
  (consistency, event, append; or roll back; or reload after a lost race), recall, discard,
  resume.
* Who meets whom: turns of one session are serialised by `session.lock`, but the two journal
  calls run in threads that outlive a cancelled turn and write the engine's state; two sessions
  of a buyer write one stream; one session may be live in two processes; purge and erasure run
  at any time; a process dies.
* Correct when: an operation is recorded once and its retry is answered as it was; the stream
  can be replayed and is what the engine computes; an undone turn leaves nothing.

### Callbacks — `actions/callbacks.py`

* State: records by callback, results by idempotency key, pending schedules and cancellations,
  refused cleanup keys, incarnation and attempt counters, a lock per callback.
* Operations: `schedule`, `cancel`, `dispatch_due`, `remove_by_prefix` (a session's teardown).
* Who meets whom: requests, dispatch batches and sweeps interleave at each provider call; the
  scheduler may do what it was asked and lose the answer, fail for now, or refuse for good.
* Correct when: no job is orphaned, no callback is scheduled twice, no refused key is sent
  again, nobody is dialled who cancelled, a closed session has left nothing, sweeps end.

### Session registry — `simulator/service.py`

* State: `_sessions`, `_admitting` (reservations), the closing flags, the engine's
  conversations, what a session has left with providers.
* Operations: `create_session`, `resume_session` (a pool thread), `process_turn` (looks up,
  waits for the lock, looks again), `close_session`, `_discard_session`, `_begin_teardown`,
  `_abort_teardown`.
* Who meets whom: a resume, in its thread, meets closes and discards on the loop; a journal thread
  that a cancelled turn left behind writes the conversation back without a look at the registry.
* Correct when: an identifier has one owner, capacity holds even when a failed teardown puts a
  session back, a session that is served has its own conversation, a failed cleanup can be
  retried, no reservation is left.

### Deliberation — `deliberation/*.py`, driven by `service.py`, run by `adapters/onnx_genai_model.py`

* State: a briefing (observations, version, plan) per session, a background task per session,
  one `_running` flag and one lane scheduler for all, the model's worker threads, its
  generator and lock.
* Operations: a turn enters and leaves the lane, starts the background task, which asks a
  worker thread for a plan token by token; a turn preempts it; a close stops it.
* Correct when: a plan that is shown accounts for every fact; the flag is neither passed by two
  nor left up; a turn waits for one token at most; plans go to the briefing the session has.

### Provider resilience — `adapters/resilience.py`

* State: breaker state, failure count, time of opening, the half-open probe's slot; each
  caller's attempt.
* Operations: `before_call`, `record_success`, `record_failure`, `record_aborted_probe`, the
  retry loop with a time-out for each attempt.
* Correct when: the probe's slot is never leaked, only counted failures open the breaker, and
  it lets calls in again.

### Speech turns — `speech/turn_taking.py`, `speech/pipeline.py`

* State: `TurnTaking`'s counters and floor; the pipeline's audio buffer, oversize latch and
  language detection task.
* Operations: a frame arrives (endpointing, barge-in, reclaim of the floor), playback is
  reported, the agent begins to speak, an utterance is transcribed, a detection ends, `stop`.
* Who meets whom: counters and audio are kept by two objects which must agree on what an
  utterance is; a detection runs beside them; the report of playback may never come.
* Correct when: the audio held is the utterance counted; the transcriber gets whole utterances;
  nobody keeps the floor for ever.

### Microphone and voice CLI — `speech/microphone.py`, `cli/talk.py`

* State: the device and whether it is paused, a bounded queue of frames, the listener's position
  in its loop, the filler's task, what the loudspeaker plays.
* Operations: `start`, `stop`, `pause`, `resume`, the device's callback and `_offer`; `next_turn`,
  `speak`, `_fill`, and the cancellation of the filler when the transcript is there.
* Who meets whom: the device's thread captures while the loop awaits; a filler speaks while a
  turn is transcribed; both share one microphone, which must not hear the agent.
* Correct when: no frame of the agent's own reply reaches the pipeline; a listener that waits
  for the buyer has an open microphone; every floor taken is given back.

### Audio socket and reply audio — `simulator/router.py`, `simulator/speech_output.py`, `speech/reply_audio.py`, `apps/web/{app,reply-audio}.js`

* State: the receive loop's position, the thinking filler's task, the reply stream's task, a
  locked socket; in the browser the player and the report it owes.
* Operations: a frame, a report, an utterance, a barge-in, a time-out, a disconnection; the
  filler's thresholds; the stream's begin, frames and terminator.
* Who meets whom: the loop, two tasks and the browser write and read one socket; a report may
  cross a newer reply, a disconnection may meet any write.
* Correct when: streams do not mix, nothing of a connection outlives it, a reply is reported
  once, and the loop always gets back to the microphone.

### Conversation engine, rules and language — `conversation/{engine,rules,planning,language,model_trust}.py`

* State: phase, facts, evidence, revisions, limits, marks, the language with its votes, the
  questions asked. A checkpoint carries what concerns the buyer, and not what shapes the agent's
  next sentence only: the counts of questions and closings, the slots a model reported
  (`state.py:28-50`).
* Operations: `process_turn`, one synchronous step: decide the language, judge the text for
  safety, read facts, evidence and stance from it, plan and choose the reply, classify;
  `checkpoint` and `restore`.
* Hard because: the hazards are long legal sequences, texts that cut a cue off from what it
  qualifies, and a restart in the middle of any of it.
* Correct when: a restored engine agrees, in all that is saved, with the one that was never restarted; a negation, a refusal or a
  third party reaches no further than its clause; the lead's class follows from what the buyer
  said and not from the order of the rules; a language is not changed by one stray turn; no
  question is repeated word by word.

### WhatsApp messaging — `whatsapp/{webhook,pricing}.py`, `adapters/whatsapp_cloud.py`, the preview of `service.py`

* State: seen and received messages, the time of the last inbound message by destination, entry
  points, results by idempotency key, the session's quota.
* Operations: `deliver`, `record_inbound`, `send_message`, the turn around it and its retry.
* Who meets whom: the provider redelivers batches while a send is awaited and a window closes; a
  post may be taken and its answer lost; the turn that asked may fail afterwards and be retried.
* Correct when: with the default posture nothing that costs money is posted; no send is repeated
  unless an answer was lost; what the session is told is true; what is acknowledged was taken, each
  message handed to the handler once (one at which the handler raises is lost to it, section 7).

### Reading a stream — `journal.py` `_load_events`

* State: one call's attempt, the head it saw and the rows it read.
* Who meets whom: it reads head, rows and head again without a transaction, while appends,
  erasures and purges go on.
* Correct when: what it returns is the whole of one state of the stream, and otherwise it refuses.

### Parts that are not modelled

* **Contact suppression** (`repository.py:243-311`): latest state for a channel and for all, read
  in two statements. No code of the repository but its tests calls it, so there is no behaviour
  of the program to state a property of.
* **Knowledge and retrieval** (`knowledge/*.py`, `retrieval/*.py`): a ranking of claims that are a
  function of a validated history; nothing is kept between calls.
* **Decks, summaries, workflows**: text rendered under one lock. The action policy's
  `authorize` is in `Messaging`, the cleanup of actions in `SessionRegistry`.
* **Speech and voice providers**: wrappers of native models behind one asyncio lock. Their callers
  take them as calls that answer, fail or are late, and are modelled so.
* **Domain types and configuration, observability, security, HTTP wiring, command lines,
  benchmarks**: validated data, counters that nothing reads back, sequential code without
  awaits, and single calls of operations that are modelled.
* Of parts that are modelled: recall and `knowledge_source` of the journal (they read, and decide
  nothing), the remaining entries of the rules' tables, the spelling of numbers, the wording of
  replies, timings.

## 2. How the parts meet

    browser ── audio ──> AudioSocket ─┐
    microphone ── frames ─> VoiceLoop ┴> SpeechTurns ── text ──┐
                                                               v
    HTTP ── create, resume, close ──> SessionRegistry ── turn ──> DurableTurns ──> EventStore
                                            │ teardown            │    │   │        │  ^  │ refines
                                            v                     v    │   v        │  │  v
                                        Callbacks     Conversation     │ Messaging  │  │ LeadLedger
                                            │                          v   │        │ JournalReader
                                            v                  Deliberation│
                                        Resilience ──> providers <─────────┘

* `DurableTurns` takes `repository.append` as one step. `EventStore!AppendAtomic`, which is
  proved, is the licence for it.
* `SessionRegistry` has a turn as what it does to the registry, and a cleanup as one external
  call that works, fails or is cancelled; `DurableTurns` has the inside of the turn, and takes
  teardown as one step, which `SessionRegistry!TurnsServed` allows: no turn runs on a session
  that is being torn down. `Callbacks` has the inside of the cleanup, sweeps that abort included.
* `Deliberation` has a turn as entering and leaving the lane, and teardown as what it does to
  briefings and tasks.
* `VoiceLoop` extends `SpeechTurns`: every action of the pipeline is a step of the composition, with
  the socket's loop or the microphone's listener as the caller. `JournalReader` extends
  `EventStore`, whose every step may come between two of a reader's.
* `AudioSocket` has the pipeline as a call that ends in nothing, an interruption or an utterance,
  which `SpeechTurns` has the inside of.
* `DurableTurns` has the engine as an opaque, deterministic function of state and text;
  `Conversation!RestoredAgrees` is the licence for it: an engine rebuilt from its checkpoint cannot
  be told from the one that was saved.
* `Messaging` has the turn around a send as something that commits or fails, `DurableTurns` its inside.

## 3. Plan

Built in this order, the durable path first, because what it promises is for ever and everything
else can be asked again:

1. `LeadLedger`, `EventStore`, `EventStoreProofs` — done, proved
2. `DurableTurns`, `DurableTurnsProofs` — done, proved
3. `Callbacks`, `CallbacksProofs` — done, proved
4. `SessionRegistry`, `SessionProofs` — done, proved
5. `Deliberation`, `DeliberationProofs` — done, proved
6. `Resilience`, `VoiceProofs` — done, proved
7. `SpeechTurns`, `VoiceProofs` — done, proved
8. `AudioSocket`, `AudioSocketProofs` — done, proved
9. `SafetyRules`, `BusinessRules`, `Conversation`, `SessionProofs` — done, proved
10. `JournalReader` — done, composed with `EventStore`, proved with it
11. `Messaging`, `MessagingProofs` — done, proved
12. `VoiceLoop` — done, composed with `SpeechTurns`, proved with it
13. Proofs (section 6) — done: every safety invariant and action property of the runs has its
    theorem.

No module has a `RECURSIVE` operator.

Abstract specifications worth stating: the ledger (done); a session's lifecycle (absent,
served, in teardown), which `SessionRegistry` implements; an exactly-once register of
operations, which `DurableTurns` implements in one process.

## 4. Modules, and what each run shows

Each `MC*` module gives values to the constants of the module it extends; no cfg replaces a
definition. Deadlock is checked where the system cannot stop (`store`, `deliberation`,
`resilience`, `voice_loop`). In the others bounded budgets (events, operations, faults, turns,
attempts) run out, closed sessions stay closed and a lost connection stays lost: there the system
may really stop.

| run | module | distinct states | what is asked |
|---|---|---|---|
| `store` | `MCEventStore` | 547,949 | appends race, with erasures, purges and a reader in between |
| `turns` | `MCDurableTurns` | 163,925 | one session; cancellation, faults, crash, retries |
| `turns_beside` | `MCDurableTurns` | 717,909 | two sessions of a buyer, one of them in two processes |
| `callbacks` | `MCCallbacks` | 204,506 | two callbacks, a batch, a sweep, a provider fault |
| `registry` | `MCSessionRegistry` | 310,352 | three identifiers, two requests, room for two, threads of cancelled turns |
| `deliberation` | `MCDeliberation` | 363,634 | two sessions and one deliberator |
| `resilience` | `MCResilience` | 2,730 | three callers of one breaker |
| `voice_loop` | `MCVoiceLoop` | 64,852 | the pipeline under a socket, and under a microphone in half duplex |
| `audio_socket` | `MCAudioSocket` | 184,552 | loop, filler, reply voice and browser on one socket |
| `conversation` | `MCConversation` | 50,046 | three turns, a restart, and texts dictated word by word |
| `messaging` | `MCMessaging` | 787,656 | redelivered batches, closing windows, a retried send |
| `turn_forked` | `MCDurableTurns` | violation | the finding of section 7 |

Seven more configurations reproduce deviations of section 7, each violating its one property:
`MCCallbackOrphaned.cfg`, `MCPlanLost.cfg`, `MCGeneratorShared.cfg`, `MCFillerStray.cfg`,
`MCToldUnlike.cfg`, `MCSendCharged.cfg`, `MCConversationBack.cfg`.

Every module has a `TypeOK`; in `Conversation` and `Resilience` it is called `ConversationTypeOK`
and `BreakerTypeOK`, as are their specifications (`ConversationSpec`, `BreakerSpec`), because they
share a module of proofs with another component. The types are proved (section 6) and not in the
cfgs, whose properties are kept to what can really be wrong.

### `LeadLedger` and `EventStore`

`LeadLedger` is what the store promises, in one step for each operation: append an entry to an
open lead, anonymise, erase, forget expired entries. `EventStore` has the rows, and each
`append` as the statements it is made of: `AppendRead` (the unlocked SELECT and the checks on
it, `repository.py:111-135`), `AppendCommit` (UPDATE … WHERE version and state, or INSERT of the
head, with the event, in one transaction), `AppendLose` and `AppendViolate` (no row matched; the
primary key was taken), `AppendReport` (its own read decides what to raise), `AppendFail`.
`purge_expired` counts and deletes in two steps, `Anonymize` and `HardDelete` are one
transaction each.

* `VersionsAccounted`: every number up to the head is on one event or was purged. Replay reads
  a gap as a purge, so a gap of any other origin would be a silent loss.
* `AppendAtomic`: what was checked on the unlocked read holds at the commit.
* `ImplementsLedger`: refinement, with a lead's entries read off its rows.
* Proved only: `AnswersDistinct`, `RefusalsEarned`, `ErasureComplete`, `ErasureAudited`,
  `TombstonesFrozen`, `ProtectedKept`.

Bounds: two writers are all that one compare-and-set can tell apart; three versions give a
first append, a second, and a purge between; two instants and two kinds give an expired event, a
fresh one and a protected one; three requests, reused for ever, have no expectation, one that
may hold and one of another type. More need not be tried: what is invariant of the store is
proved for any set of requests. Writers are symmetric.

### `JournalReader`

One call of `_load_events()` beside the store: `ReadStatus`, `ReadRows` (at most a row more than
the limit) and `ReadStatusAgain`, which compares the heads, tries again, or gives its verdict.
Every step of `EventStore` may come between.

* `LoadsWhole`: what is returned is every event up to the head, readable; a purge, an erasure or
  an append that overtakes the read makes it try again or refuse, and never makes it report a
  corrupt stream.

Bounds: a limit of two under three versions, so that a stream can be too long; two attempts, so
that the second can fail too.

### `DurableTurns`

A place is a session in a process: `live` is its engine state, `memo` its operations, `task` the
coroutine that holds its lock, `jobs` the threads that work for it. A step of a coroutine lasts
from one await to the next; a thread's step is one of its reads or writes of shared state:
`PrepareExport`, `PrepareLoad`, `CommitBuild`, `CommitAppend`, `CommitReload`. `Cancel` ends the
task as the code's `except` clauses do, and leaves the thread running, known from then on by
the number of the cancellation. `DatabaseFault` fails any
read or write, and may lose the acknowledgement of an append that took place. `Crash` drops
everything in memory; `Resume` rebuilds it from the stream.

The engine is here as far as the journal can tell turns apart: turn count, digests, and the
marks "redirected" and "stopped". Left out: facts, goals, the language of the answer, latency
and failure knobs of the simulator. A load and a teardown are one step each.

* `OperationOnce`, `ToldAsRecorded`: no interleaving of retries, cancelled turns, faults and a
  crash records an operation twice or answers what is not on record.
* `StreamSound` (`StreamReadable`, `TurnsCompose`): what is written can be replayed, and each event
  is what the engine makes of its text after the session's events before it.
* `MemoryOnRecord` (`ToldOnRecord`, `RestsOnRecord`, `NothingLeaks`): answers have an event; a
  session at rest is in a state it really had; a session that is gone leaves none.
* `TurnsEnd` (fairness: below).

Bounds: run `turns` has one session, two events, one operation identifier used for two inputs,
one each of fault, cancellation and crash: a thread left behind by a cancelled turn needs one
cancellation, its conflict with the retry one more turn. With a second cancellation
`ToldAsRecorded` is false (`MCToldUnlike.cfg`, section 7). Run `turns_beside` has no faults, but
three places: same session twice, another session of the buyer beside it. The third turn that
the fork needs is in `turn_forked`, with nothing but one cancellation.

### `Callbacks`

A step is what runs between two awaits under one callback's lock. `holder` says what provider
call is outstanding for a callback. The scheduler and the telephony provider are external and
modelled by what the code's error handling supposes: they serve a key at most once (`acted`),
may do so and lose the answer, may fail for now (both consume `MaxFaults`), or refuse for good;
a job at its time runs once. `Dispatch` takes a batch of what is due, `DispatchOne` looks at each
again under its lock, in any order and one batch at a time. `BeginSweep`, `RemovePending`,
`SweepRecords`, `RemoveRecord`, `EndSweep` are the stages of `remove_by_prefix`. `TimeInvalid` is
a time that has passed or is beyond the horizon, which is `MaxFuture`. `attempts` is the
dictionary `_cleanup_attempts`, a function on the incarnations it has an entry for. An idempotency
key belongs to one request (`RequestsAssumption`): a key used again with another input is
`IdempotencyConflictError` before anything is done.

* `JobsCancelable`: at most one schedule of unknown outcome for a callback and none beside a live
  record (`OneIncarnation`); a job still to run belongs to a callback that can be cancelled
  (`FutureJobsAreKnown`), by a key that no failed cleanup has used up (`RefusedKeysStayUnused`).
* `ClosedLeavesNothing`: after the sweep, no record, no tombstone, no job to come.
* `DialsAreWanted`: no dial after an acknowledged cancellation or after the close.
* `SweepsEnd`.

Bounds: two callbacks are needed for a sweep that stops half way, two keys for one callback for
a replacement, one fault for each unknown outcome, one tick for a callback to fall due. In this
run all requests are for the same time: with an earlier one, that has passed, a job is orphaned
(section 7).

### `SessionRegistry`

`sessions` maps an identifier to a session object, so that a handler that waits for an object's
lock can be told from one that holds the current one. `Resume`, `Restore`, `Publish`,
`ResumeFails` are the pool thread's stages; `LockTurn` is the second look after the lock; `Teardown`,
`CleansUp`, `FinishClose`, `CleanupFails`, `CancelCleanup` are the stages of close and discard.
A turn that is cancelled in a journal call leaves its thread in `abandoned`; `Reinstate` is the
rollback of that thread, a plain `engine.restore`, at any later time: during the next turn, which
`DurableTurns` is about, or behind a close or a resume, which is the matter here. `reinstated`
remembers what it put back that was not there.

* `AdmissionSound`: `OneOwner`, `WithinCapacity`, and `ConversationsMatch`: what is served has a
  conversation, and not one that a thread put back; what is in the engine beside is being restored
  or torn down, or was put back. `ClosedForgotten`, without that last clause, is violated (section 7).
* `TurnsServed`, `CleanupRetryable`, `ReservationsEnd` are as in section 1.

Bounds: three identifiers over a capacity of two, so that one is refused and a failed teardown
would find its place taken; two requests; three objects, so that an identifier can be served
twice; one abandoned thread at a time. A request may be cancelled at any await but that of a discard's cleanup: adding
`"discarding"` to `CancelPoints` violates `CleanupRetryable` (section 7).

### `Deliberation`

Turns, tasks and closes run on the loop, `Generate` in threads. A briefing is an object with a
count of its facts, so that "the session's briefing" and "the one the task writes into" can part.
`Deliberate` stamps the version before it generates, `Ask` consults the lane between tokens,
`Token` is uninterruptible, `Stop` cancels the task and leaves the thread. `Close` waits for the
stopped task in one step.

* `ShownPlanIsCurrent`, `RunningIsHonest`, `OneTokenOverlap`, `DeliberationsEnd`.
* `PlansMeetFacts`, `GeneratorUnshared`: violated (section 7). The passing run has a session that
  is discarded, so the first of these happens in it too; what it checks holds nevertheless.

Bounds: two sessions compete for the flag; two facts make a plan stale; two tokens leave a turn
something to wait for; three briefings; two threads, of which one may be abandoned.

### `Resilience`

`age` and `failures` saturate where the code stops comparing, so the state is finite without a
bound and the abstraction loses nothing. `Enter` is `before_call`, `Succeed`, `BackOff`, `GiveUp`
and `Abort` the ways an attempt ends. A call admitted in one state may return in any other.
`SlotHeld`, `OnlyFailuresOpen`, `AlwaysRecovers`; `CountMatchesState` is proved only. The delays
of the backoff and a clock that goes back are left out.

Bounds: three callers, so that two late results may meet one probe; threshold 3, recovery 2.

### `SpeechTurns`

`machine` is `TurnTaking`, `audio` the pipeline, `job` what the caller waits for. The caller awaits
`push` before it takes another frame, so only the detection runs beside. A chunk is PCM,
which lasts as long as it is, or encoded, which is taken to last `FrameDuration`. `Total`, what a
buffer lasts or weighs, is a recursive function on the buffer's length.

* `AudioIsUtterance`: the counters and the audio, kept by two objects, never part: through
  interruptions that break off, a reclaimed floor, and reports of playback at any time.
* `SentWhole`: what is transcribed is whole, from its first frame; a hint is of its own beginning.

Bounds: thresholds of a few frames, in such an order that each can be the first to be reached:
the byte cap before the longest utterance and after it, the barge-in before the floor's reclaim.
Transcribers with early detection, without, and none. Left out: timings, `dropped_frames`, and
what a transcript says.

### `VoiceLoop`

`SpeechTurns` with its two callers: the socket, which pushes a frame at any time, and
`cli/talk.py`'s listener. `mic` has the device, the pause and the queue; `Capture` is the device
thread's step, `Offer` the loop's, which drops the oldest frame when the queue is full. `loop` is
where `next_turn`, `speak` or `run` is; `filler` the task that speaks while a turn is
transcribed; `sounding` what the loudspeaker plays. Each frame is remembered by whose voice it has.

* `HalfDuplex`: `OnlyStraysHeard`, no frame of a reply or of a filler that is awaited reaches the
  loop; `ListensUnpaused`, however a reply or filler ended, no pause is left over.
* `FloorsEnd`: the floor comes back, whoever calls, buyer that never falls silent included.
* `FillersFinish` is violated (section 7): a filler that is cancelled while it is said sounds on,
  a "stray", which the two properties above leave out.

Bounds: a queue of two frames, so that one is dropped; two fillers, so that a second follows a
first that was heard; a captured frame is of one instant, a voice sounds from the start of `say`.

### `AudioSocket`

`loop` is the receive loop between two awaits, with what it is about to do next; `filler` and
`voice` the two kinds of task; a write is one step, for `LockedSocket` lets no two overlap, and
blocks while the network is full. `SettleTimesOut`, `FillerGone`, `Cancelled` are the ways the
filler ends; `Disconnect` may come at any step, after which every write raises. `browser` is the
player of `reply-audio.js` and the browser's own speech, its `reports` are on their way back.

* `StreamsWhole`: one voice at a time, known to the sender; a frame is never behind the
  announcement of another stream.
* `NothingOutlives`: the loop listens again only when the filler is done, and a connection is left
  only when nobody speaks.
* `ReportedOnce`: a reply is reported once at most, a filler never.
* `LoopReturns`: from a transcript the loop gets back to the microphone.

Bounds: two replies, so that a second meets the stream, the filler and the report of the first;
two messages on the wire, so that a write waits; two fillers a turn, as in the code.

### `SafetyRules`, `BusinessRules`, `Conversation`

`SafetyRules` and `BusinessRules` have the matching itself: normalisation, clauses and their
boundaries, phrases and templates with their negations, refusals, third parties, the rejoining of
fragments, the extraction of facts, evidence and stance, the trust given to what a model claims.
A text is a sequence of words; of each table there are one or two members, and every word that
two tables share. `Conversation` has `process_turn` on top of it: `Decide` and `Resolve` are the
language, `OptedOut`, `Abused`, `Discussed` the dispositions, `Extracted` the facts, `Asked` and `Sentence`
the plan, `Classify` the score. `live` is restarted from its checkpoint, its `twin` never is.

* `Restorable`: every state is one the checkpoint's validation accepts (`CheckpointAccepted`), and
  the twins never differ (`RestoredAgrees`).
* `ClauseBound`: a safety rule is heard in a text exactly when it is heard in one of its clauses,
  fragments aside; over every text of three words that can be dictated.
* `ClassifiedAsSaid`: the class of a lead against what was said, read independently of the order
  in which the rules ran.
* `QuestionsRephrased`: no question or closing twice in the same words.
* `SwitchesAreMeant`: the language changes for a reason, and at once when asked.

Bounds: three turns and a restart: a vote needs two turns to switch, a question two to be asked
again. The texts are a buyer's, chosen so that every rule applies in some and is overruled in
another; `ReadAlike`, which `ClassifiedAsSaid` takes for granted of them (section 6), is evaluated
with the assumptions. Score arithmetic is in integers; where floating point decides at a boundary,
`tilt` is either.

### `Messaging`

`Deliver` is the webhook's handler on a batch, which may raise at any of its messages;
`DeliverOne` one iteration, `Run` the batch as a recursive function on its length. `opened` is the
provider's window, from when the customer last wrote; `guessed`, when the receiver last filed an
undated message as of its delivery, which is where its own window may part from it. `Ask` is the preview of a turn with an idempotency key, up to the
post; `Accept` and the provider's rejection are outside; `Confirmed`, `Failed`, `GiveUp` end the
await, `TurnCommits` and `TurnFails` the turn. `billed` is the observer's: each post for which the
provider would charge, when it was made and what had been guessed by then. (Of the two ways the
provider can take a message outside its window, refusing a free-form one and billing a template,
both are a failure of the decision; the model has the bill.)

* `FreeOnly`: with the default posture, what is posted that costs is posted within a window's length
  of a guess; no delay, reordering, repetition or interruption of dated messages, and no repeat that
  is remembered, makes a closed window pass for open. `NothingCharged`, without the exception, is
  violated (section 7).
* `SendsHonest`: a key is delivered again only for an attempt that got no answer
  (`NoSilentRepeat`), and what is told is what happened (`ToldTruth`).
* `AckedWhole`: a batch that was acknowledged was taken whole.

Bounds: two messages in a batch or alone, remembered one at a time, so that forgetting happens;
a service window of one tick inside an entry window of two, so that each closes first; one key of
two attempts, which is a retry. The decision is modelled for every posture and run with the
default one. Signature, parsing and the process's network gate are taken as passed. The process does
not restart: `_results`, `_seen` and `_last_inbound` are in its memory only, so what the model says of
a key or a repeat it says within one process.

## 5. Fairness

| module | assumed | because |
|---|---|---|
| `DurableTurns` | turns and the threads they wait for go on | the loop runs ready coroutines, the pool its threads; loads and appends are bounded |
| `Callbacks` | provider calls return, batches and sweeps go on | calls have time-outs; asyncio locks are first come, first served |
| `SessionRegistry` | begun requests go on | as above; no one is made to send a request |
| `Deliberation` | threads go on (weak), tasks are run (strong) | the loop's queue is first in, first out, so a task that is ready again and again is run; the strength is needed because the bound on threads can hold a task back |
| `Resilience` | the clock ticks, attempts end | each attempt has a time-out, each back-off a delay |
| `VoiceLoop` | the device captures, frames are offered and pushed, transcriptions, fillers and replies end, the loop goes on | a microphone captures silence too; `_transcribe` has a deadline, a player an end |
| `AudioSocket` | the loop, the filler and each voice go on; the browser reads | the event loop runs what is ready; a browser that reads no more is a disconnection sooner or later |

Nothing is assumed of clients' requests, cancellations, faults, crashes, detections, disconnections
or reports of playback. `EventStore`, `JournalReader`, `Conversation` and `Messaging` state no
liveness and assume no fairness.

## 6. What is proved

TLAPS checks every leaf. Assumptions are the named `ASSUME`s of the modules, which TLC evaluates
in the runs, and the hypotheses that some theorems state, named below. Each `*Proofs` module has an
inductive invariant (`IInv`, or one for each part of the state that hardly meets the others),
lemmas for its actions, and a theorem for the types and for each property.

**`EventStoreProofs`** — for any leads, writers, types, kinds, requests and bound.
`VersionsAccounted` is not inductive: a commit adds number head + 1, so one needs to know that
no row has a number above the head, and that the head a writer read is not beyond the current
one. `IInv` is `TypeOK`, `BlankRows` (a lead without a row has nothing), `CallsBehind` (a call's
head is at most the lead's, and what it checked of type and expectation still holds of that head), `RowsBounded`, and
the four state properties. `QuietStep` disposes of the steps that move a call only;
`CommitStep`, `HeadsMonotone` and the pointwise `*Rows` lemmas say what a step does to a lead;
then each conjunct has its `*Step` lemma with a case for each action. From `IInv`:
`TypeCorrect`, `StreamsGapless`, `AppendsDistinct`, `RefusalsJust`, `NothingLeft`, and the action
properties `TombstonesFrozenHolds`, `AppendAtomicHolds`, `ProtectedKeptHolds`. `ErasuresAudited`
adds `OpenReadable` (events of an open lead are readable) and is about cardinalities.
`StoreImplementsLedger` maps each step to a step of the ledger or a stutter, one lemma for each
operation.

`LoadsWholeHolds` is about the reader beside the store. It holds because heads never go back:
if a lead is open and its head is, at the third read, what it was at the first, then it was so
at the second, and the rows read are those of that head. `LoadKnows` says it of each stage of
the read, `KnowsOn` that any step of the store leaves it so; `ConfirmedWhole` counts the rows:
as many different numbers in 1..head as head are all of them.

**`VoiceProofs`** — for any thresholds, lengths of chunks, transcriber and queue. `PipelineInv` is
inductive for `SpeechTurns`: the counters are the sums of what the pipeline holds, frame by frame
(`AudioRight`), and they are what `TurnTaking` says they are in each of its states
(`MachineRight`); without the second, a floor that is reclaimed or an interruption that breaks off
could leave audio that was not counted. A frame does one of three things to the machine (`Quiet`,
`Takes`, `Closes`), and what it decides is known beside it (`Decided`). The sums are `Total`, whose
equations are had by the least length at which they would fail (`SumsExist`). `CallersUsePipeline`
says that every step of `VoiceLoop` is a step of the pipeline or leaves it alone, so both callers
have what is proved of it: `HeldIsUtterance` is `AudioIsUtterance`, `UtterancesWhole` is `SentWhole`.
`MicrophoneHalfDuplex` is `HalfDuplex`, from `DuplexInv`: the microphone is paused exactly
while the loop speaks or the filler is at its phrase, a reply or filler that is awaited sounds only
then, and nothing that waits in the queue has the voice of either.

The breaker is in the same module and shares nothing with the pipeline: for any callers, threshold,
timeout and attempts, `BreakerInv` joins `BreakerTypeOK`, `SlotHeld`, `CountMatchesState` and
`SleepsBetween` (a call that sleeps between attempts has attempts left). `Recorded` and `Admitted`
say what the breaker's methods leave, whatever state they are called in. From it `BreakerTypes`,
`SlotIsHeld`, `CountAndStateAgree`, `OpenedByFailures`.

**`SessionProofs`** — of the registry, for any identifiers, requests, objects and capacity. The parts of
`AdmissionSound` need each other: that an identifier has one owner rests on a request at an
owner's stage having it to itself (`OwnersAlone`), that the engine has what is served, and that it
is no conversation a thread put back, on what each stage knows of the engine (`StagesKnow`, `StillBack`):
a resume that meets such a conversation is refused and, failing, removes it; `TurnsServed` on a lock having one holder
(`LocksExclusive`). Capacity is proved last, on top of these, by the cardinalities of the two sets
a step moves an identifier between (`SeatsAfter`). `CleanupStaysRetryable` assumes that
`"discarding"` is not in `CancelPoints`, which the run assumes too: a discard cancelled in its
cleanup loses the session, and that is a deviation of the code (section 7).

Of the conversation, in the same module, for any texts, languages, labels and claims: a turn is a
long function of a record, so the proofs rest on frames: `Keeps(c, d, F)` says that `d` is `c` but
for the fields `F`, and one lemma for each stage of a turn says which fields it touches.

* `CheckpointsStand` is `Restorable`. `Restoring` has both conversations `Sound`, which is what the
  checkpoint's validation asks and what makes that inductive (there are no more digests than turns, a
  language is pending exactly while it has votes, stopped and closed are one), and in agreement on
  every field that is saved (`Agree`). The state a turn leaves depends on those fields alone.
* `LanguageSwitchesMeant` is `SwitchesAreMeant`: `Meaning` says that a pending language is the
  one last spoken, so that the vote it needs is for what was heard twice in a row.
* `QuestionsAreNew` is `QuestionsRephrased`: `Rephrasing` says that a sentence said is one its count
  has passed (`Passed`), and counts only go up (`Further`).
* `ConversationTypes` is `ConversationTypeOK`, with `Fits(f, v)` for each field.
* `WorthWhatWasSaid` is `ClassifiedAsSaid`. `Judged` says that the evidence is exactly what the turns
  gave, a turn that was a repetition giving nothing. The score adds weights over a set, which the
  prover cannot unfold; `SumIs` writes it out as one sum of all dimensions, in any order. The theorem
  assumes `ReadAlike`, that no two utterances have the same normalised words and different readings:
  a turn counts as a repetition by those words alone (`engine.py:142-148`), and nothing more is read
  in it.
* `TemplatesStayInClause` and `PhrasesStayInClause`: in any text, a template or phrase made of words is
  found exactly when it is found in one of the clauses. The first needs that a window never reaches
  over a boundary (`WindowIs`), the second that a negation or a refusal is looked for in the clause
  only.
* `ClausesBound` is `ClauseBound`, from the two and from what the four readings of a text do at a
  boundary. A way of reading `Separates` when it reads `u | v` as its reading of `u`, the boundary
  and its reading of `v`, and puts no boundary where there was none; dropping zero-width characters,
  reading them as spaces, and rejoining split words each do (`DroppedSeparates`, `WithoutSeparates`,
  `MergedSeparates`), and so does one after another. Then the clauses of a reading are the readings
  of the clauses (`ClausesRead`, by the shortest text for which they are not), and `SafetyHearsByClause`
  follows. Each reading is a recursive function on positions, whose equations come from the existence
  of one that solves them (`RunExists` from the front, `RetraceExists` from the end, for the rejoined
  words, which are taken up to three at a time). `ObfuscatedByClause` is why the hypothesis on the
  text holds of its clauses too: fragments in a clause are fragments in the text.

**`DeliberationProofs`** — for any sessions, threads, briefings and length of a plan. `FlagExact`:
the flag is up exactly while one task generates; it is that statement, without a count, which is
inductive, and `RunningIsHonest` follows. `PlansStamped`: a plan knows what it was drawn from, so
the comparison when it is shown means something. `OverlapSpent`: a thread that a turn in flight
has already waited for has not begun another token. `PlansMeetFactsUnlessDiscarded` states
`PlansMeetFacts`, which `MCPlanLost` violates, under `Discarded = {}`: the discard is the only
way to it.

**`MessagingProofs`** — for any windows, capacities, operations, messages and attempts, and either
posture. `SendInv` counts: posts that were taken or may yet be are at most those that went
unanswered, the one in flight, and the one whose answer is stored; `SendsHonest` follows.
`InboundInv` says that the window the code remembers is never later than the last of two times, when
the customer wrote and when the receiver last guessed (`WindowKnown`), and that what was seen was
received; it gives `FreeOnly` and `AckedWhole`. `DatedNeverCharged` draws the rest of the conclusion:
under `[]AllDated`, that every message written carries its date, `NothingCharged` holds as it stands.
A batch is run by induction on its length: the library's induction takes an operator, so
`ChainExists` and `DeliveredSound` argue by the least number for which the claim fails
(`LeastNatural`, from the well-foundedness of `<`). `QuotaInv` is what the type of `approved` needs.

**`CallbacksProofs`** — for any callbacks, sessions, requests, cancellations and faults. The
service keeps results, pending schedules, cancellation keys, sweep keys, refused keys, attempts
and incarnations in dictionaries of their own. `Local(c)` says, for one callback, how they agree,
and what a provider call that is in flight may rely on when it comes back (`HolderRight`);
`SweepsOwn` and `OneSweepCall` say the same of the sweeps. The hard part is that a key a cleanup
mints was never refused: `RefusedRight` has every refused key behind the attempts that were
spent, `SpentRight` that attempts are only spent on incarnations that are alive. From these
`IncarnationHolds`, `UnusedHolds`, and the action property `DialsWantedHolds`.
`FutureInv` adds what is armed at the provider. Of it, `JobsCancelableHolds` and `ClosedHolds` assume
`[][NoneReplaced]_vars`: no request for an invalid time is made for a callback that is scheduled.
Without it both are false (`MCCallbackOrphaned`, section 7). `AgreedTimesSuffice` derives it from
a condition on the constants, the one `MCCallbacks` meets: the requests for a callback agree on
its time, which is within the horizon.

**`AudioSocketProofs`** — for any number of replies, fillers and messages on the wire. Two parts.
`Speakers`: `abort()` and `start()` are two steps, of the loop and of the filler, and neither may
come in the other's gap; so a filler that is not done keeps the loop in its turn, and whoever is
between the two finds nobody speaking. `StreamsWhole` and `NothingOutlives` rest on it, with
`Ordered` and `Leading`: what follows another stream's announcement, on the wire or yet to be
written, has its own announcement in between. `Reporting` is the life of a reply (`ReplyRight`):
unspoken, it has no voice, no message and no report; while its voice is unannounced, nothing
either; what makes the browser speak or owe it is on the wire once, before its end, and while it
is there nothing is owed; between beginning and end (`Midway`) either the player is off or
nothing is owed. The last is why the browser's own speech and the audio are not both
reported. Without a synthesizer nobody speaks here at all (`Mute`). From it `ReportedOnceHolds`.

**`DurableTurnsProofs`** — for any places, sessions, processes and requests, and any bounds.
`TurnInv` needs no hypothesis. Its heart is `Cleared`: from the moment a turn has looked for its
operation until its thread appends, the operation is not on record as long as the stream has not
grown, and an append is only taken while it has not; that goes for threads whose turn was
cancelled long ago. From it `TypeCorrect`, `OperationOnceHolds`, `ToldOnRecordHolds`.

`LineInv` says that every engine state a place holds is one its session had on record, or one step
of the engine from there (`StateLine`), that a turn started at its session's head and goes back to
where it started (`TurnLine`), and that each recorded event is the engine's step from those before
(`StreamLine`). It is inductive only while no worker thread outlives its turn: `StreamSoundHolds`,
`MemoryOnRecordHolds` and `ToldAsRecordedHolds` assume `[]NoneAbandoned`. That is the finding
`turn_forked`, not a convenience: with one abandoned thread TLC violates the first two, with two
of them the third (section 7). Turns may still be cancelled where no thread is running for them,
faults, crashes, purges, erasures and races between places are all within the hypothesis: none of
them is a way to the finding without an abandoned thread.

`SoleInv` adds that what a turn is about to commit is not on record, so that the commit answers
with its own event; `ToldAsRecordedHolds` assumes for it that a session is open in one place
(`OneHome`, an injective `SessionOf`, as in run `turns`), without which the loser of a race
answers what it computed (section 7).

`TurnsOf`, the session's events in the stream, is a recursive function on the stream's length. Its
equations (`TurnsSteps`, `TurnsOfAppend`) are had by the least length at which they would fail;
from them `TurnAdded` and `LineStep` say what one more event does to every state on record.

Model-checked only, in the instances of section 4:

* every liveness property (`TurnsEnd`, `SweepsEnd`, `ReservationsEnd`, `DeliberationsEnd`,
  `AlwaysRecovers`, `FloorsEnd`, `LoopReturns`), which is beyond the prover;
* `DurableTurns` where a thread outlives its turn: `ToldAsRecorded` with one cancellation (run
  `turns`).

## 7. Findings

One is kept as a run that TLC finds violated; `PROJECT.json` quotes the sentence it contradicts.

**`turn_forked`** — a turn is cancelled during its commit; its thread goes on, loses to the
retry, and restores its old engine state under the next turn (`journal.py:396`). That turn is
recorded with a number the stream already has, and every replay refuses the session from then
on. `docs/ARCHITECTURE.md:540`: "stale live state cannot fork a session".

Deviations with a configuration of their own, which TLC reports as violated:

* `MCCallbackOrphaned.cfg` — asking again for a scheduled callback, at a time that has passed,
  stores a "blocked" record over the scheduled one (`callbacks.py:147-151`). The sweep then
  removes it without cancelling the provider's job. `docs/PROVIDER_CONTRACTS.md:247`.
* `MCPlanLost.cfg` — `_discard_session` does not stop the session's deliberation, unlike
  `close_session`; after a resume, plans go into the old briefing for ever (`service.py:1159`).
* `MCGeneratorShared.cfg` — stopping a deliberation releases the model's asyncio lock while the
  thread generates on; the next call drives the same generator (`onnx_genai_model.py:432`).
* `MCFillerStray.cfg` — cancelling a filler ends its shielded wait at once, not after "any
  half-spoken filler" (`cli/talk.py:451`): the microphone is resumed while the agent's voice
  sounds, and the reply may overlap it.
* `MCToldUnlike.cfg` — two turns of one session are cancelled in their commits, and both threads run
  on. One restores its old engine state under the retry of the other's operation
  (`journal.py:396`); the other then records it; the retry's commit finds it recorded and is
  content, so that the client is told what was computed on the stale state (`service.py:618-662`)
  and not what is on record. `docs/DATA_MODEL.md:87`: "an exact retry returns the persisted event".

* `MCSendCharged.cfg` — a message without a readable date counts as sent when it is delivered
  (`webhook.py:128-133`); delivered late, or again after it was forgotten (4096 others), it opens
  a window the provider has closed, and the default posture posts what is charged. `pricing.py:65`:
  "a sender in this posture cannot emit a chargeable message even when asked to"; `webhook.py:123`
  calls the assumption "the conservative reading".
* `MCConversationBack.cfg` — a turn is cancelled in its commit, the session is closed, and the thread
  then rolls back: `engine.restore` (`journal.py:396`, `421`) puts the conversation of a session that
  is gone into the engine, where it stays; a resume of it is refused once, and clears it.
  `docs/SIMULATOR.md:228`: "Use **Close session** to remove process-local session [...] history".

Deviations met while modelling. Those marked (m) were seen in a counterexample of the models or
are behaviours the models have, the others were read in the code.

Turns, sessions, providers:

* (m) A discard whose cleanup is cancelled is caught by no handler: its identifier and place stay
  reserved (`service.py:1150`; `docs/SIMULATOR.md:228`).
* (m) With two processes the loser of a race for one operation answers what it computed, not
  what is recorded (`service.py:621`; `docs/DATA_MODEL.md:87`). So `ToldAsRecorded` is checked
  for one process, `ToldOnRecord` for two.
* (m) A cancelled commit can record the marks of a state that has been rolled back
  (`journal.py:377`; `docs/DATA_MODEL.md:84`).
* (m) Two probes can be in flight in one half-open period, one of them from an earlier one
  (`resilience.py:127`; `docs/PROVIDER_CONTRACTS.md:234`).
* A retry wrapped around the breaker reports a time-out to it as an abort, so such time-outs never
  open it. The model has the order the docs recommend, the breaker outside.
* Opt-outs are recorded within turn events, whose type retention does not protect
  (`repository.py:29`; `docs/DATA_MODEL.md:54`).
* `resume_session` answers for a session whose teardown failed and that refuses turns
  (`service.py:864`).
* `TurnTaking.stop()` during an interruption leaves `_barge_in_speech_ms`, which a later frame
  trips over (`turn_taking.py:111`). Only tests call it, none at that point; `Stop` in the model
  excludes it.
* Facts observed in a turn that is rolled back stay in the briefing (`engine.py:596-604`).
* `process_turn` sets the session's language to the request's, a replay to the outcome's
  (`service.py:478`, `499`).

Audio socket and voice:

* (m) A filler that does not settle in time leaves its stream running into the next turn when no
  reply follows (`router.py:539-543`).
* (m) `ReplyAudioSender.abort` swallows a cancellation that meets it while it awaits the stream
  (`speech_output.py:192`), and the filler goes on.
* (m) A report of playback names no reply (`router.py:438`): one that crosses a newer reply
  releases that one's floor.
* (m) A cancellation that meets the terminator's write loses the "aborted".
* (m) An "end" that arrives after the last source was drained finds nothing to report for
  (`reply-audio.js` `end()`); the floor then waits for its reclaim.
* `LockedSocket.try_send_json` "Never raises" (`speech_output.py:89`), but catches `RuntimeError` and
  `OSError` only; a `WebSocketDisconnect` from a write ends the task that wrote. In `AudioSocket` such
  a write fails without a word (`TriesToSend`), and what is left of the task fails after it.
* A filler due after a phrase that overran the next threshold does not heed its stop event.
* `run()` of the voice CLI has no `finally`: an exception leaves the listener open. Resuming after
  a filler drops what the buyer said meanwhile.

Conversation:

* (m) An opt-out in Hindi, as the first turn of an English session, is answered in English;
  `engine.py:134`: "must be told in Hindi" (a first vote does not switch).
* (m) A timeline or budget is read from the whole turn, its evidence only from clauses that commit
  (against the comment at `rules.py:1138`), so that a slot can be filled without its evidence.
  Requirement evidence is given even for a fact refused at `max_facts`.
* (m) "Not interested" with a low negative score may still be warm; at 45 and 75 the class depends
  on the order in which the same evidence came, for sums of floats differ.
* (m) A buyer in the language the caller declared re-declares it at the next turn, which skips the
  detection. A repeated amount counts as a change of goal.
* "Do not call, call me later" may be an opt-out, depending on how it is punctuated;
  "id io t" is not rejoined (`rules.py:1060`); `normalize_text` drops the comma of "1,50,000" and
  reads a budget of 1.

Messaging:

* (m) A send that is taken but times out stores nothing, and its retry delivers a second message
  (`whatsapp_cloud.py:19-21`); past the window the retry is told "not sent" of one that was.
* (m) A refusal is stored under its key: a retry after the customer wrote is refused still. A key
  used for another input answers for the first, where the fake raises `IdempotencyConflictError`.
* (m) A message is marked seen before its handler runs (`webhook.py:217`): one that raises is never
  handled again.
* (m) The webhook records a number without "+", sends are by a number with it: the window is filed
  where no send looks. The demo's own number has none and is refused.
* (m) A window is decided upon before the post, and the quota counts previews that were answered.
* The adapter's `_results` has no `clear_operations` and grows for ever; after a restart it is empty,
  so that a key that was answered is posted again.

## 8. Hazards

`PROJECT.json` lists forty places where this code can go wrong in a way a test would hardly
reach, each with the properties that would notice, or the reason why none does.
