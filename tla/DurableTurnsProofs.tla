------------------------- MODULE DurableTurnsProofs -------------------------
(***************************************************************************)
(* Proofs about DurableTurns, for any number of places, sessions and       *)
(* requests and any bounds.                                                *)
(*                                                                         *)
(* Three inductive invariants, each on top of the one before.  TurnInv     *)
(* needs no hypothesis: an append is only ever tried at a version at which *)
(* its operation was not on record.  LineInv holds while no worker thread  *)
(* outlives its turn (NoneAbandoned; the run turn_forked shows why that is *)
(* needed): the state a commit writes down is the engine's step from the   *)
(* head of its session.  SoleInv holds when moreover one place serves each *)
(* session: what a turn is about to commit is nowhere on record yet.       *)
(***************************************************************************)
EXTENDS DurableTurns, SequenceTheorems, WellFoundedInduction, TLAPS

-----------------------------------------------------------------------------
(* The invariants. *)

Real == [count : Nat, digests : Seq(Texts), marks : SUBSET {"abused", "stopped"}]
Known == Real \cup {NoState}

\* What TypeOK says, with an engine state told apart from the lack of one.
KnownTurns == [stage : Stages, request : Requests, checkpoint : Known, before : Known,
               version : Nat, answer : Answers]
Steps == {"export", "load", "build", "append", "reload", "done"}
Results == {"none", "refused", "misused", "existing", "conflict", "ready", "error", "ok"}
KnownThreads == [place : Places, abandoned : 0..MaxCancels, step : Steps,
                 request : Requests, before : Known, version : Nat,
                 answer : Answers, event : {NoEvent} \cup Events, recorded : Answers,
                 result : Results]
Tellings == [session : Sessions, request : Requests, answer : Answers]

LogTyped == log \in Seq(Events) /\ store \in {"whole", "holed", "closed"}
LiveTyped == live \in [Places -> Known]
RegistryTyped == registry \in [Places -> {"absent", "active", "recovered", "closing"}]
MemoTyped == memo \in [Places -> [Operations -> Memos]]
TaskTyped == task \in [Places -> {Idle} \cup KnownTurns]
JobsTyped == jobs \subseteq KnownThreads
HistoryTyped == born \subseteq Sessions /\ told \subseteq Tellings
SpentTyped == spent \in [faults : 0..MaxFaults, cancels : 0..MaxCancels, crashes : 0..MaxCrashes]

Typed == /\ LogTyped /\ LiveTyped /\ RegistryTyped /\ MemoTyped
         /\ TaskTyped /\ JobsTyped /\ HistoryTyped /\ SpentTyped

\* Where the engine has a state: in every session that is open, and in what a
\* turn and its threads may restore.
PlaceHeld(x) ==
  /\ registry[x] # "absent" => live[x] # NoState
  /\ task[x] # Idle =>
       /\ registry[x] # "absent"
       /\ task[x].stage \in {"understanding", "previewing", "committing"}
            => task[x].before # NoState /\ task[x].checkpoint # NoState
       /\ task[x].stage = "previewing again" => task[x].checkpoint # NoState
JobHeld(j) ==
  j.step \in {"load", "build", "append"} \/ (j.step = "done" /\ j.result = "ready")
    => j.before # NoState

\* The readers of the stream.
StreamTurns ==
  /\ \A s \in Sessions : TurnsOf(log, s) \in Seq(Events)
  /\ \A i \in 1..Len(log) : TurnsOf(log, log[i].session) # <<>>

OnRecord(s, r) == \E i \in 1..Len(log) : log[i].session = s /\ log[i].request = r

\* An operation that was unknown to the journal at this version.
Cleared(version, op) ==
  /\ version =< Len(log) /\ version < MaxEvents
  /\ Len(log) = version => Recorded(op) = {}

JobRight(j) ==
  /\ j.step \in {"build", "append"} \/ (j.step = "done" /\ j.result = "ready")
       => Cleared(j.version, j.request.op)
  /\ j.step = "append" => /\ j.event \in Events
                          /\ j.event.session = SessionOf[j.place]
                          /\ j.event.request = j.request
  /\ j.step = "done" /\ j.result \in {"existing", "ok"}
       => OnRecord(SessionOf[j.place], j.request)

\* A thread that is waited for serves the turn that waits.
JobServes(j) ==
  j.abandoned = 0 => /\ task[j.place] # Idle
                     /\ task[j.place].stage \in {"preparing", "committing"}
                     /\ task[j.place].request = j.request

TaskRight(x) ==
  task[x] # Idle =>
    /\ task[x].stage \in {"understanding", "previewing"}
         => Cleared(task[x].version, task[x].request.op)
    /\ task[x].stage \in {"previewing again", "recalling"}
         => OnRecord(SessionOf[x], task[x].request)

TurnInv ==
  /\ Typed /\ StreamTurns /\ OperationOnce
  /\ Len(log) =< MaxEvents
  /\ \A j \in jobs : JobHeld(j) /\ JobRight(j) /\ JobServes(j)
  /\ \A x \in Places : PlaceHeld(x) /\ TaskRight(x)
  /\ ToldOnRecord

-----------------------------------------------------------------------------
(* While no thread outlives its turn. *)

NoneAbandoned == \A j \in jobs : j.abandoned = 0

JobsAt(x) == {j \in jobs : j.place = x}

\* The state of a session after its first i - 1 turns, for some i.
SoFar(s, state) == \E i \in 1..(Len(TurnsOf(log, s)) + 1) : state = Before(TurnsOf(log, s), i)
AtHead(s) == Before(TurnsOf(log, s), Len(TurnsOf(log, s)) + 1)

\* As long as the stream has not grown, the state is the session's last.
Synced(s, state, version) ==
  /\ SoFar(s, state) /\ version =< Len(log)
  /\ Len(log) = version => state = AtHead(s)

\* The engine has run and nothing is decided.
Ahead(t, J) ==
  t # Idle /\ (t.stage = "previewing" \/ \E j \in J : j.step \in {"build", "append"})

\* A live state is one its session had, or one step of the engine from there.
StateLine(x, st, g, t, J) ==
  /\ g = "absent" => st = NoState /\ t = Idle
  /\ g # "absent" => IF Ahead(t, J) THEN st = EngineTurn(t.before, t.request.text)
                     ELSE SoFar(SessionOf[x], st)

\* A turn starts at its session's head and goes back to where it started.
TurnLine(x, st, t) ==
  t # Idle =>
    /\ t.stage \in {"understanding", "previewing", "committing"}
         => /\ t.checkpoint = t.before
            /\ Synced(SessionOf[x], t.before, t.version) /\ "stopped" \notin t.before.marks
    /\ t.stage = "understanding" => st = t.before
    /\ t.stage \in {"previewing", "committing"} => t.answer = Answer(t.before, t.request.text)
    /\ t.stage = "previewing again" => SoFar(SessionOf[x], t.checkpoint)

\* A thread is at its turn's stage and works on what the turn gave it.
ThreadLine(x, st, t, j) ==
  /\ t.stage = "preparing" => j.step \in {"export", "load", "done"}
  /\ t.stage = "committing" => j.step \in {"build", "append", "reload", "done"}
  /\ j.step = "load" => j.before = st
  /\ t.stage = "preparing" /\ j.step = "done" /\ j.result = "ready"
       => j.before = st /\ Synced(SessionOf[x], st, j.version)
  /\ j.step \in {"build", "append"}
       => j.before = t.before /\ j.version = t.version /\ j.answer = t.answer
  /\ j.step = "append" => /\ j.event.digest = j.request.text
                          /\ j.event.marks = Marked(j.before, j.request.text)
                          /\ j.event.result = Answer(j.before, j.request.text)

PlaceLine(x, st, g, t, J) ==
  /\ StateLine(x, st, g, t, J) /\ TurnLine(x, st, t)
  /\ \A j \in J : ThreadLine(x, st, t, j)
  /\ \A j, k \in J : j = k

\* Sessions are created once, before anything else.
BornFirst ==
  /\ \A x \in Places : registry[x] # "absent" => SessionOf[x] \in born
  /\ \A s \in Sessions : TurnsOf(log, s) # <<>> => s \in born

StreamLine ==
  /\ \A s \in Sessions : Replayable(TurnsOf(log, s))
  /\ TurnsCompose

PlacesLine == \A x \in Places : PlaceLine(x, live[x], registry[x], task[x], JobsAt(x))

LineInv ==
  /\ PlacesLine /\ BornFirst /\ StreamLine

\* For the last invariant.
OnRecordAs(s, r, answer) ==
  \E i \in 1..Len(log) : log[i].session = s /\ log[i].request = r /\ log[i].result = answer

\* One place serves each session.
OneHome == \A x, y \in Places : SessionOf[x] = SessionOf[y] => x = y

\* What a turn has yet to commit is nowhere on record; what it is to repeat or
\* has committed is on record as it will be told.
TurnSole(x, t) ==
  t # Idle =>
    /\ t.stage \in {"understanding", "previewing"} => ~OnRecord(SessionOf[x], t.request)
    /\ t.stage \in {"previewing again", "recalling"}
         => OnRecordAs(SessionOf[x], t.request, t.answer)
ThreadSole(x, t, j) ==
  /\ j.step \in {"build", "append", "reload"} \/ (j.step = "done" /\ j.result = "ready")
       => ~OnRecord(SessionOf[x], j.request)
  /\ j.step = "done" /\ j.result = "existing" => OnRecordAs(SessionOf[x], j.request, j.recorded)
  /\ j.step = "done" /\ j.result = "ok" => OnRecordAs(SessionOf[x], j.request, t.answer)
PlaceSole(x, t, J) == TurnSole(x, t) /\ \A j \in J : ThreadSole(x, t, j)

PlacesSole == \A x \in Places : PlaceSole(x, task[x], JobsAt(x))

SoleInv == ToldAsRecorded /\ PlacesSole

-----------------------------------------------------------------------------
(***************************************************************************)
(* The turns of a session are a recursive function of the stream.  Its     *)
(* equations come from the least number at which they fail, since the      *)
(* library's induction on numbers takes an operator.                       *)
(***************************************************************************)
TurnsUpTo(g, h, s, n) ==
  g = [i \in 0..n |-> IF i = 0 THEN <<>>
                      ELSE IF h[i].session = s THEN Append(g[i - 1], h[i])
                      ELSE g[i - 1]]

\* A set of natural numbers has a least.
LEMMA LeastNatural ==
  ASSUME NEW S \in SUBSET Nat, S # {}
  PROVE  \E n \in S : \A m \in S : n =< m
<1> DEFINE R == {p \in Nat \X Nat : p[1] < p[2]}
<1>1. IsWellFoundedOn(R, Nat)
  BY NatLessThanWellFounded DEF OpToRel
<1>2. \E x \in S : \A y \in S : ~ (<<y, x>> \in R)
  <2> HIDE DEF R
  <2> QED
    BY <1>1, WFMin
<1>3. PICK x \in S : \A y \in S : ~ (<<y, x>> \in R)
  BY <1>2
<1>4. ASSUME NEW y \in S PROVE x =< y
  <2>1. <<y, x>> \in Nat \X Nat /\ ~ (<<y, x>> \in R)
    BY <1>3
  <2> QED
    BY <2>1
<1> QED
  BY <1>4

LEMMA StepsExist ==
  ASSUME NEW h, NEW s, NEW N \in Nat
  PROVE  \E g : TurnsUpTo(g, h, s, N)
<1> DEFINE Without == {n \in Nat : ~ \E g : TurnsUpTo(g, h, s, n)}
<1> SUFFICES ASSUME Without # {} PROVE FALSE
  OBVIOUS
<1>1. PICK n \in Without : \A m \in Without : n =< m
  BY LeastNatural
<1>2. CASE n = 0
  <2>1. TurnsUpTo([i \in 0..0 |-> <<>>], h, s, 0)
    BY DEF TurnsUpTo
  <2> QED
    BY <1>2, <2>1
<1>3. CASE n # 0
  <2>1. n - 1 \in Nat /\ n - 1 \notin Without
    BY <1>1, <1>3
  <2>2. PICK g : TurnsUpTo(g, h, s, n - 1)
    BY <2>1
  <2> DEFINE next(f, i) == IF h[i].session = s THEN Append(f[i - 1], h[i]) ELSE f[i - 1]
             longer == [i \in 0..n |-> IF i = n THEN next(g, n) ELSE g[i]]
  <2>3. ASSUME NEW i \in 0..n
        PROVE  longer[i] = IF i = 0 THEN <<>> ELSE next(longer, i)
    <3>1. CASE i = n
      <4>1. i # 0 /\ i - 1 \in 0..n /\ i - 1 # n /\ longer[i - 1] = g[i - 1]
        BY <1>3, <3>1
      <4> QED
        BY <3>1, <4>1
    <3>2. CASE i # n
      <4>1. /\ i \in 0..(n - 1) /\ longer[i] = g[i]
            /\ i # 0 => i - 1 \in 0..n /\ i - 1 # n /\ longer[i - 1] = g[i - 1]
        BY <3>2
      <4>2. g[i] = IF i = 0 THEN <<>> ELSE next(g, i)
        BY <2>2, <4>1 DEF TurnsUpTo
      <4> QED
        BY <4>1, <4>2
    <3> QED
      BY <3>1, <3>2
  <2>4. TurnsUpTo(longer, h, s, n)
    BY <2>3 DEF TurnsUpTo
  <2> QED
    BY <2>4
<1> QED
  BY <1>2, <1>3

\* The first turns of a stream depend on the first events alone.
LEMMA StepsAgree ==
  ASSUME NEW s, NEW h, NEW H, NEW n \in Nat, NEW N \in Nat, n =< N,
         NEW g, NEW G, TurnsUpTo(g, h, s, n), TurnsUpTo(G, H, s, N),
         \A i \in 1..n : h[i] = H[i]
  PROVE  g[n] = G[n]
<1> DEFINE Unlike == {k \in 0..n : g[k] # G[k]}
<1> SUFFICES ASSUME Unlike # {} PROVE FALSE
  OBVIOUS
<1>1. PICK k \in Unlike : \A m \in Unlike : k =< m
  <2>1. Unlike \in SUBSET Nat
    OBVIOUS
  <2> HIDE DEF Unlike
  <2> QED
    BY <2>1, LeastNatural
<1>2. g[0] = <<>> /\ G[0] = <<>>
  BY DEF TurnsUpTo
<1>3. k # 0 /\ k \in 1..n /\ k \in 1..N
  BY <1>2
<1>4. /\ g[k] = IF h[k].session = s THEN Append(g[k - 1], h[k]) ELSE g[k - 1]
      /\ G[k] = IF H[k].session = s THEN Append(G[k - 1], H[k]) ELSE G[k - 1]
  <2>1. k # 0 /\ k \in 0..n /\ k \in 0..N
    BY <1>3
  <2>2. g[k] = IF h[k].session = s THEN Append(g[k - 1], h[k]) ELSE g[k - 1]
    BY ONLY <2>1, TurnsUpTo(g, h, s, n) DEF TurnsUpTo
  <2>3. G[k] = IF H[k].session = s THEN Append(G[k - 1], H[k]) ELSE G[k - 1]
    BY ONLY <2>1, TurnsUpTo(G, H, s, N) DEF TurnsUpTo
  <2> QED
    BY <2>2, <2>3
<1>5. g[k - 1] = G[k - 1]
  <2>1. k - 1 \in 0..n /\ k - 1 \notin Unlike
    BY <1>1, <1>3
  <2> QED
    BY <2>1
<1> QED
  BY <1>3, <1>4, <1>5

LEMMA TurnsSteps ==
  ASSUME NEW h, NEW s, Len(h) \in Nat
  PROVE  \E g : TurnsUpTo(g, h, s, Len(h)) /\ TurnsOf(h, s) = g[Len(h)]
<1> DEFINE equation(g) == g = [n \in 0..Len(h) |->
                                 IF n = 0 THEN <<>>
                                 ELSE IF h[n].session = s THEN Append(g[n - 1], h[n])
                                 ELSE g[n - 1]]
           turns == CHOOSE g : equation(g)
<1>1. \E g : equation(g)
  <2>1. \E g : TurnsUpTo(g, h, s, Len(h))
    BY StepsExist
  <2> QED
    BY <2>1, Zenon DEF TurnsUpTo
<1>2. TurnsOf(h, s) = turns[Len(h)]
  BY Zenon DEF TurnsOf
<1>3. equation(turns)
  <2> HIDE DEF equation
  <2> QED
    BY <1>1, Zenon
<1>4. TurnsUpTo(turns, h, s, Len(h))
  BY <1>3, Zenon DEF TurnsUpTo
<1> QED
  BY <1>2, <1>4

LEMMA TurnsOfNone ==
  ASSUME NEW s
  PROVE  TurnsOf(<<>>, s) = <<>>
<1>1. PICK g : TurnsUpTo(g, <<>>, s, Len(<<>>)) /\ TurnsOf(<<>>, s) = g[Len(<<>>)]
  BY TurnsSteps
<1> QED
  BY <1>1 DEF TurnsUpTo

\* An event is added to the turns of its own session.
LEMMA TurnsOfAppend ==
  ASSUME NEW T, NEW h \in Seq(T), NEW e \in T, NEW s
  PROVE  TurnsOf(Append(h, e), s) = IF e.session = s THEN Append(TurnsOf(h, s), e)
                                    ELSE TurnsOf(h, s)
<1> DEFINE H == Append(h, e)
<1>1. /\ Len(h) \in Nat /\ Len(H) = Len(h) + 1 /\ H[Len(h) + 1] = e
      /\ \A i \in 1..Len(h) : h[i] = H[i]
  OBVIOUS
<1> HIDE DEF H
<1>2. PICK g : TurnsUpTo(g, h, s, Len(h)) /\ TurnsOf(h, s) = g[Len(h)]
  BY <1>1, TurnsSteps
<1>3. PICK G : TurnsUpTo(G, H, s, Len(h) + 1) /\ TurnsOf(H, s) = G[Len(h) + 1]
  BY <1>1, TurnsSteps
<1>4. g[Len(h)] = G[Len(h)]
  <2>1. Len(h) + 1 \in Nat /\ Len(h) =< Len(h) + 1
    BY <1>1
  <2> QED
    BY ONLY <1>1, <1>2, <1>3, <2>1, StepsAgree
<1>5. G[Len(h) + 1] = IF e.session = s THEN Append(G[Len(h)], e) ELSE G[Len(h)]
  <2>1. Len(h) + 1 \in 0..(Len(h) + 1) /\ Len(h) + 1 # 0 /\ (Len(h) + 1) - 1 = Len(h)
    BY <1>1
  <2> QED
    BY <1>1, <1>3, <2>1 DEF TurnsUpTo
<1> QED
  BY <1>2, <1>3, <1>4, <1>5 DEF H

-----------------------------------------------------------------------------
(* Types. *)

LEMMA KnownIsState ==
  /\ Real \subseteq States /\ NoState \in States
  /\ NoState \notin Real /\ Fresh \in Real
<1>1. \A st \in Real : st \in States
  BY DEF Real, States
<1>2. NoState.digests \notin Seq(Texts)
  <2> SUFFICES ASSUME NoState.digests \in Seq(Texts) PROVE FALSE
    OBVIOUS
  <2>1. Len(NoState.digests) = 1 /\ NoState.digests[1] = "none"
    BY DEF NoState
  <2>2. NoState.digests[1] \in Texts
    BY <2>1
  <2> QED
    BY <2>1, <2>2 DEF Texts
<1>3. NoState \in States
  <2>1. <<"none">> \in Seq(Texts \cup {"none"})
    OBVIOUS
  <2> QED
    BY <2>1 DEF NoState, States
<1>4. Fresh \in Real
  BY DEF Fresh, Real
<1> QED
  BY <1>1, <1>2, <1>3, <1>4 DEF Real

LEMMA TypedIsTypeOK == Typed => TypeOK
<1> SUFFICES ASSUME Typed PROVE TypeOK
  OBVIOUS
<1>1. Known \subseteq States
  BY KnownIsState DEF Known
<1>2. KnownTurns \subseteq Turns /\ KnownThreads \subseteq Threads
  BY <1>1 DEF KnownTurns, Turns, KnownThreads, Threads, Steps, Results
<1>3. live \in [Places -> States]
  BY <1>1 DEF Typed, LiveTyped
<1>4. task \in [Places -> {Idle} \cup Turns] /\ jobs \subseteq Threads
  BY <1>2 DEF Typed, TaskTyped, JobsTyped
<1> QED
  BY <1>3, <1>4 DEF Typed, TypeOK, LogTyped, RegistryTyped, MemoTyped, HistoryTyped,
                    SpentTyped, Tellings

\* The fields of a turn under way.
LEMMA TurnFields ==
  ASSUME TaskTyped, NEW x \in Places, task[x] # Idle
  PROVE  /\ task[x] \in KnownTurns
         /\ task[x].stage \in Stages /\ task[x].request \in Requests
         /\ task[x].checkpoint \in Known /\ task[x].before \in Known
         /\ task[x].version \in Nat /\ task[x].answer \in Answers
BY DEF TaskTyped, KnownTurns

LEMMA RequestFields ==
  ASSUME NEW r \in Requests
  PROVE  r.op \in Operations /\ r.text \in Texts /\ r.act \in {"none", "preview"}
BY RequestsAssumption DEF Operations

LEMMA ThreadFields ==
  ASSUME NEW j \in KnownThreads
  PROVE  /\ j.place \in Places /\ j.abandoned \in Nat /\ j.step \in Steps
         /\ j.request \in Requests /\ j.before \in Known /\ j.version \in Nat
         /\ j.answer \in Answers /\ j.event \in {NoEvent} \cup Events
         /\ j.recorded \in Answers /\ j.result \in Results
         /\ SessionOf[j.place] \in Sessions
  BY PlacesAssumption, BoundsAssumption DEF KnownThreads

\* What the engine makes of a text.
LEMMA EngineTyped ==
  ASSUME NEW st \in Real, NEW text \in Texts
  PROVE  /\ EngineTurn(st, text) \in Real
         /\ Answer(st, text) \in Answers
         /\ Marked(st, text) \in SUBSET {"abused", "stopped"}
<1>1. Disposition(st, text) \in {"STOP", "REDIRECT", "CONTINUE"}
  BY DEF Disposition, Texts
<1>2. /\ st.count \in Nat /\ st.digests \in Seq(Texts)
      /\ st.marks \in SUBSET {"abused", "stopped"}
  BY DEF Real
<1>3. Marked(st, text) \in SUBSET {"abused", "stopped"}
  BY <1>2 DEF Marked
<1>4. Answer(st, text) \in Answers
  BY <1>1, <1>2 DEF Answer, Answers
<1>5. Append(st.digests, text) \in Seq(Texts)
  BY <1>2
<1>6. EngineTurn(st, text) \in Real
  BY <1>2, <1>3, <1>5 DEF EngineTurn, Real
<1> QED
  BY <1>3, <1>4, <1>6

LEMMA NoAnswerTyped == NoAnswer \in Answers
BY DEF NoAnswer, Answers

LEMMA ReplayTyped ==
  ASSUME NEW turns \in Seq(Events), turns # <<>>
  PROVE  Replay(turns) \in Real
<1>1. Len(turns) \in Nat \ {0}
  BY EmptySeq
<1>2. \A i \in 1..Len(turns) : turns[i] \in Events
  OBVIOUS
<1>3. /\ turns[Len(turns)].result.count \in Nat
      /\ turns[Len(turns)].marks \in SUBSET {"abused", "stopped"}
  BY <1>1, <1>2 DEF Events, Answers
<1>4. [i \in 1..Len(turns) |-> turns[i].digest] \in Seq(Texts)
  <2>1. \A i \in 1..Len(turns) : turns[i].digest \in Texts
    BY <1>2 DEF Events
  <2> QED
    BY <1>1, <2>1
<1> QED
  BY <1>3, <1>4 DEF Replay, Real

\* What the journal finds of an operation.
LEMMA RecordFound ==
  ASSUME LogTyped, StreamTurns, NEW x \in Places, NEW r \in Requests,
         ~Taken(x, r), Recorded(r.op) # {}
  PROVE  /\ OnRecord(SessionOf[x], r) /\ OnRecordAs(SessionOf[x], r, RecordedAnswer(r))
         /\ TurnsAt(x) # <<>>
         /\ RecordedAnswer(r) \in Answers
<1> DEFINE n == CHOOSE i \in Recorded(r.op) : TRUE
<1>1. n \in Recorded(r.op)
  OBVIOUS
<1>2. n \in 1..Len(log) /\ log[n].session = SessionOf[x] /\ log[n].request = r
  BY <1>1 DEF Recorded, Taken
<1>3. RecordedAnswer(r) = log[n].result
  BY DEF RecordedAnswer
<1> HIDE DEF n
<1>4. log[n] \in Events
  BY <1>2 DEF LogTyped
<1>5. RecordedAnswer(r) \in Answers
  BY <1>3, <1>4 DEF Events
<1>6. TurnsAt(x) # <<>>
  BY <1>2 DEF StreamTurns, TurnsAt
<1>7. OnRecord(SessionOf[x], r) /\ OnRecordAs(SessionOf[x], r, RecordedAnswer(r))
  BY <1>2, <1>3 DEF OnRecord, OnRecordAs
<1> QED
  BY <1>5, <1>6, <1>7

LEMMA RecordedTyped ==
  ASSUME LogTyped, NEW r
  PROVE  RecordedAnswer(r) \in Answers
<1>1. CASE Recorded(r.op) = {}
  BY <1>1, NoAnswerTyped DEF RecordedAnswer
<1>2. CASE Recorded(r.op) # {}
  <2> DEFINE n == CHOOSE i \in Recorded(r.op) : TRUE
  <2>1. n \in 1..Len(log)
    BY <1>2 DEF Recorded
  <2>2. RecordedAnswer(r) = log[n].result
    BY <1>2 DEF RecordedAnswer
  <2> HIDE DEF n
  <2>3. log[n] \in Events
    BY <2>1 DEF LogTyped
  <2> QED
    BY <2>2, <2>3 DEF Events
<1> QED
  BY <1>1, <1>2

-----------------------------------------------------------------------------
(* The stream only grows, by an event of a thread that finds its version. *)

LEMMA StreamSteps ==
  ASSUME [Next]_vars
  PROVE  \/ log' = log
         \/ \E j \in jobs : j.step = "append" /\ Expected(j) /\ Appended(j)
<1>1. CASE UNCHANGED vars
  BY <1>1 DEF vars
<1>2. CASE \E x \in Places : Create(x) \/ Resume(x) \/ Close(x)
  BY <1>2 DEF Create, Resume, Close
<1>3. CASE \E x \in Places, r \in Requests : Submit(x, r)
  BY <1>3 DEF Submit
<1>4. ASSUME NEW x \in Places, TurnStep(x) \/ Cancel(x) PROVE log' = log
  BY <1>4 DEF TurnStep, Cancel, Prepared, Replayed, Unprepared, Discard, Process, Preview,
              PreviewAgain, PreviewFail, Committed, CommitFailed, Recalled
<1>5. ASSUME NEW j \in jobs, JobStep(j) \/ DatabaseFault(j)
      PROVE  log' = log \/ (j.step = "append" /\ Expected(j) /\ Appended(j))
  BY <1>5 DEF JobStep, PrepareExport, PrepareLoad, CommitBuild, CommitAppend, CommitReload,
              DatabaseFault
<1>6. CASE Purge \/ Erase
  BY <1>6 DEF Purge, Erase
<1>7. CASE \E p \in Processes : Crash(p)
  BY <1>7 DEF Crash
<1> QED
  BY <1>1, <1>2, <1>3, <1>4, <1>5, <1>6, <1>7 DEF Next

\* What is on record stays on record, and an operation unknown at a version
\* stays unknown at it.
LEMMA StreamGrows ==
  ASSUME Typed, \A j \in jobs : JobRight(j), [Next]_vars
  PROVE  /\ LogTyped' /\ Len(log) =< Len(log')
         /\ \A i \in 1..Len(log) : log'[i] = log[i]
         /\ Len(log') = Len(log) => log' = log
<1>0. log \in Seq(Events) /\ store' \in {"whole", "holed", "closed"}
  <2>1. store' = store \/ store' \in {"holed", "closed"}
    BY DEF vars, Next, Create, Resume, Close, Submit, Cancel,
           TurnStep, Prepared, Replayed, Unprepared, Discard, Process, Preview,
           PreviewAgain, PreviewFail, Committed, CommitFailed, Recalled, Unmoved,
           JobStep, PrepareExport, PrepareLoad, CommitBuild, CommitAppend, CommitReload,
           DatabaseFault, Purge, Erase, Crash
  <2> QED
    BY <2>1 DEF Typed, LogTyped
<1>1. CASE log' = log
  BY <1>0, <1>1 DEF LogTyped
<1>2. ASSUME NEW j \in jobs, j.step = "append", Appended(j) PROVE
         /\ LogTyped' /\ Len(log) =< Len(log')
         /\ \A i \in 1..Len(log) : log'[i] = log[i]
         /\ Len(log') = Len(log) => log' = log
  <2>1. j.event \in Events
    BY <1>2 DEF JobRight
  <2>2. log' = Append(log, j.event)
    BY <1>2 DEF Appended
  <2>3. log' \in Seq(Events) /\ Len(log') = Len(log) + 1 /\ Len(log) \in Nat
    BY <1>0, <2>1, <2>2
  <2>4. \A i \in 1..Len(log) : log'[i] = log[i]
    BY <1>0, <2>1, <2>2
  <2> QED
    BY <1>0, <2>3, <2>4 DEF LogTyped
<1> QED
  BY <1>1, <1>2, StreamSteps

LEMMA RecordKept ==
  ASSUME LogTyped, Len(log) =< Len(log'), Len(log') \in Nat, \A i \in 1..Len(log) : log'[i] = log[i],
         NEW s, NEW r, NEW answer
  PROVE  /\ OnRecord(s, r) => OnRecord(s, r)'
         /\ OnRecordAs(s, r, answer) => OnRecordAs(s, r, answer)'
<1>1. Len(log) \in Nat
  BY DEF LogTyped
<1>2. \A i \in 1..Len(log) : i \in 1..Len(log')
  BY <1>1
<1> QED
  BY <1>2 DEF OnRecord, OnRecordAs

LEMMA ClearanceKept ==
  ASSUME LogTyped, Len(log) =< Len(log'), Len(log') \in Nat, Len(log') = Len(log) => log' = log,
         NEW version \in Nat, NEW op, Cleared(version, op)
  PROVE  Cleared(version, op)'
<1>1. Len(log) \in Nat
  BY DEF LogTyped
<1>2. version =< Len(log') /\ version < MaxEvents
  BY <1>1, BoundsAssumption DEF Cleared
<1>3. ASSUME Len(log') = version PROVE Recorded(op)' = {}
  <2>1. log' = log /\ Len(log) = version
    BY <1>1, <1>3 DEF Cleared
  <2>2. Recorded(op) = {}
    BY <2>1 DEF Cleared
  <2> QED
    BY <2>1, <2>2 DEF Recorded
<1> QED
  BY <1>2, <1>3 DEF Cleared

LEMMA EventAdded ==
  ASSUME NEW turns \in Seq(Events), NEW e \in Events
  PROVE  Append(turns, e) \in Seq(Events) /\ Append(turns, e) # <<>>
<1> HIDE DEF Events
<1>1. Append(turns, e) \in Seq(Events) /\ Len(Append(turns, e)) = Len(turns) + 1
  OBVIOUS
<1>2. Len(turns) \in Nat
  OBVIOUS
<1> QED
  BY <1>1, <1>2, EmptySeq

\* A stream that is read again, whose operations are all different.
LEMMA StreamStep ==
  ASSUME TurnInv, [Next]_vars
  PROVE  StreamTurns' /\ OperationOnce' /\ (Len(log) =< MaxEvents)'
<1>1. CASE log' = log
  BY <1>1 DEF TurnInv, StreamTurns, OperationOnce
<1>2. ASSUME NEW j \in jobs, j.step = "append", Expected(j), Appended(j)
      PROVE  StreamTurns' /\ OperationOnce' /\ (Len(log) =< MaxEvents)'
  <2>1. /\ j.event \in Events /\ j.event.request = j.request
        /\ Cleared(Len(log), j.request.op)
    BY <1>2 DEF TurnInv, JobRight, Expected
  <2>2. log \in Seq(Events) /\ log' = Append(log, j.event)
    BY <1>2 DEF Appended, TurnInv, Typed, LogTyped
  <2>3. /\ Len(log) \in Nat /\ Len(log') = Len(log) + 1 /\ log'[Len(log) + 1] = j.event
        /\ \A i \in 1..Len(log) : log'[i] = log[i] /\ log[i] \in Events
    BY <2>1, <2>2
  <2>4. Recorded(j.request.op) = {} /\ Len(log) < MaxEvents
    BY <2>1 DEF Cleared
  <2>5. OperationOnce'
    <3>1. \A i \in 1..Len(log) : log[i].request.op # j.request.op
      BY <2>4 DEF Recorded
    <3>2. ASSUME NEW i \in 1..(Len(log) + 1), NEW k \in 1..(Len(log) + 1),
                 log'[i].request.op = log'[k].request.op
          PROVE  i = k
      <4>1. CASE i \in 1..Len(log) /\ k \in 1..Len(log)
        BY <2>3, <3>2, <4>1 DEF TurnInv, OperationOnce
      <4>2. CASE i \in 1..Len(log) /\ k = Len(log) + 1
        BY <2>1, <2>3, <3>1, <3>2, <4>2
      <4>3. CASE k \in 1..Len(log) /\ i = Len(log) + 1
        BY <2>1, <2>3, <3>1, <3>2, <4>3
      <4>4. CASE i = Len(log) + 1 /\ k = Len(log) + 1
        BY <4>4
      <4>5. \A m \in 1..(Len(log) + 1) : m \in 1..Len(log) \/ m = Len(log) + 1
        BY <2>3
      <4> QED
        BY <4>1, <4>2, <4>3, <4>4, <4>5
    <3> QED
      BY <2>3, <3>2 DEF OperationOnce
  <2>6. StreamTurns'
    <3>1. ASSUME NEW s \in Sessions
          PROVE  TurnsOf(log', s) = IF j.event.session = s THEN Append(TurnsOf(log, s), j.event)
                                    ELSE TurnsOf(log, s)
      BY <2>1, <2>2, TurnsOfAppend
    <3>2. ASSUME NEW s \in Sessions
          PROVE  TurnsOf(log', s) \in Seq(Events) /\ (TurnsOf(log, s) # <<>> => TurnsOf(log', s) # <<>>)
      <4>1. TurnsOf(log, s) \in Seq(Events)
        BY DEF TurnInv, StreamTurns
      <4> QED
        BY <2>1, <3>1, <4>1, EventAdded
    <3>3. ASSUME NEW i \in 1..Len(log') PROVE TurnsOf(log', log'[i].session) # <<>>
      <4>1. CASE i \in 1..Len(log)
        <5>1. log'[i] = log[i] /\ log[i].session \in Sessions
          BY <2>3, <4>1 DEF Events
        <5>2. TurnsOf(log, log[i].session) # <<>>
          BY <4>1 DEF TurnInv, StreamTurns
        <5> QED
          BY <3>2, <5>1, <5>2
      <4>2. CASE i = Len(log) + 1
        <5>1. log'[i] = j.event /\ j.event.session \in Sessions
          BY <2>1, <2>3, <4>2 DEF Events
        <5>2. TurnsOf(log, j.event.session) \in Seq(Events)
          BY <5>1 DEF TurnInv, StreamTurns
        <5> QED
          BY <2>1, <3>1, <5>1, <5>2, EventAdded
      <4> QED
        BY <2>3, <4>1, <4>2
    <3> QED
      BY <3>2, <3>3 DEF StreamTurns
  <2>7. Len(log') =< MaxEvents
    BY <2>3, <2>4, BoundsAssumption
  <2> QED
    BY <2>5, <2>6, <2>7
<1> QED
  BY <1>1, <1>2, StreamSteps

\* What has been established of a thread and of a turn by the stream stays so.
LEMMA JobKept ==
  ASSUME Typed, \A k \in jobs : JobRight(k), [Next]_vars, NEW j \in KnownThreads, JobRight(j)
  PROVE  JobRight(j)'
<1>1. LogTyped /\ LogTyped' /\ Len(log') \in Nat /\ j.version \in Nat
  BY StreamGrows, ThreadFields DEF Typed, LogTyped
<1>2. Cleared(j.version, j.request.op) => Cleared(j.version, j.request.op)'
  <2> DEFINE v == j.version
             op == j.request.op
  <2>1. Cleared(v, op) => Cleared(v, op)'
    <3>1. v \in Nat
      BY <1>1
    <3> HIDE DEF v, op
    <3> QED
      BY <1>1, <3>1, StreamGrows, ClearanceKept
  <2> QED
    BY <2>1
<1>3. OnRecord(SessionOf[j.place], j.request) => OnRecord(SessionOf[j.place], j.request)'
  <2> DEFINE s == SessionOf[j.place]
             r == j.request
  <2>1. OnRecord(s, r) => OnRecord(s, r)'
    <3> HIDE DEF s, r
    <3> QED
      BY <1>1, StreamGrows, RecordKept
  <2> QED
    BY <2>1
<1> QED
  BY <1>2, <1>3 DEF JobRight

LEMMA TurnKept ==
  ASSUME Typed, \A k \in jobs : JobRight(k), [Next]_vars, NEW t \in KnownTurns, NEW x
  PROVE  /\ Cleared(t.version, t.request.op) => Cleared(t.version, t.request.op)'
         /\ OnRecord(SessionOf[x], t.request) => OnRecord(SessionOf[x], t.request)'
<1>1. LogTyped /\ LogTyped' /\ Len(log') \in Nat /\ t.version \in Nat
  BY StreamGrows DEF Typed, LogTyped, KnownTurns
<1>2. Cleared(t.version, t.request.op) => Cleared(t.version, t.request.op)'
  <2> DEFINE v == t.version
             op == t.request.op
  <2>1. Cleared(v, op) => Cleared(v, op)'
    <3>1. v \in Nat
      BY <1>1
    <3> HIDE DEF v, op
    <3> QED
      BY <1>1, <3>1, StreamGrows, ClearanceKept
  <2> QED
    BY <2>1
<1>3. OnRecord(SessionOf[x], t.request) => OnRecord(SessionOf[x], t.request)'
  <2> DEFINE s == SessionOf[x]
             r == t.request
  <2>1. OnRecord(s, r) => OnRecord(s, r)'
    <3> HIDE DEF s, r
    <3> QED
      BY <1>1, StreamGrows, RecordKept
  <2> QED
    BY <2>1
<1> QED
  BY <1>2, <1>3

-----------------------------------------------------------------------------
(* One step of a worker thread. *)

LEMMA DoneFields ==
  ASSUME NEW j \in KnownThreads, NEW result \in Results
  PROVE  LET k == Done(j, result)
         IN  /\ k \in KnownThreads /\ k.step = "done" /\ k.result = result
             /\ k.place = j.place /\ k.request = j.request /\ k.abandoned = j.abandoned
             /\ k.before = j.before /\ k.version = j.version /\ k.answer = j.answer
BY DEF Done, KnownThreads, Steps

LEMMA VersionFields ==
  ASSUME NEW j \in KnownThreads, NEW version \in Nat
  PROVE  LET k == [j EXCEPT !.version = version]
         IN  /\ k \in KnownThreads /\ k.step = j.step /\ k.result = j.result
             /\ k.place = j.place /\ k.request = j.request /\ k.abandoned = j.abandoned
             /\ k.before = j.before /\ k.version = version /\ k.answer = j.answer
BY DEF KnownThreads

LEMMA RecordedFields ==
  ASSUME NEW j \in KnownThreads, NEW recorded \in Answers
  PROVE  LET k == [j EXCEPT !.recorded = recorded]
         IN  /\ k \in KnownThreads /\ k.step = j.step /\ k.result = j.result
             /\ k.place = j.place /\ k.request = j.request /\ k.abandoned = j.abandoned
             /\ k.before = j.before /\ k.version = j.version /\ k.answer = j.answer
             /\ k.recorded = recorded
BY DEF KnownThreads

\* What becomes of a thread in a step, and of the state it works on.
Continues(j, k) ==
  /\ k \in KnownThreads /\ JobHeld(k)
  /\ k.place = j.place /\ k.request = j.request /\ k.abandoned = j.abandoned
BecomesAt(next, j) == {(jobs \ {j}) \cup {next}, jobs \ {j}}
Rewritten(x) == {live} \cup {[live EXCEPT ![x] = st] : st \in Real}

LEMMA MoveSound ==
  ASSUME NEW j \in jobs, NEW k, Finish(j, k) \/ Advance(j, k)
  PROVE  jobs' \in BecomesAt(k, j)
BY DEF Finish, Advance, BecomesAt

\* The live state is in reach of a thread only as a state.
LEMMA LiveKnown ==
  ASSUME LiveTyped, NEW x \in Places, live[x] # NoState
  PROVE  live[x] \in Real
BY DEF LiveTyped, Known

LEMMA ExportStep ==
  ASSUME TurnInv, NEW j \in jobs, PrepareExport(j)
  PROVE  \E k : Continues(j, k) /\ JobRight(k)' /\ jobs' \in BecomesAt(k, j)
                /\ live' \in Rewritten(j.place)
<1>1. j \in KnownThreads /\ j.place \in Places
  BY ThreadFields DEF TurnInv, Typed, JobsTyped
<1>2. CASE live[j.place] = NoState
  <2> DEFINE k == Done(j, "error")
  <2>1. Finish(j, k) /\ live' = live
    BY <1>2 DEF PrepareExport
  <2>2. k \in KnownThreads /\ k.step = "done" /\ k.result = "error"
        /\ k.place = j.place /\ k.request = j.request /\ k.abandoned = j.abandoned
    BY <1>1, DoneFields DEF Results
  <2> HIDE DEF k
  <2>3. Continues(j, k) /\ JobRight(k)'
    BY <2>2 DEF Continues, JobRight, JobHeld
  <2> QED
    BY <2>1, <2>3, MoveSound DEF Rewritten
<1>3. CASE live[j.place] # NoState
  <2>1. PICK k : k = [j EXCEPT !.step = "load", !.before = live[j.place]]
    OBVIOUS
  <2>2. Advance(j, k) /\ live' = live /\ live[j.place] \in Known
    BY <1>1, <1>3, <2>1 DEF PrepareExport, TurnInv, Typed, LiveTyped
  <2>3. k \in KnownThreads /\ k.step = "load" /\ k.before = live[j.place]
        /\ k.place = j.place /\ k.request = j.request /\ k.abandoned = j.abandoned
    BY <1>1, <2>1, <2>2 DEF KnownThreads, Steps
  <2>4. Continues(j, k) /\ JobRight(k)'
    BY <1>3, <2>3 DEF Continues, JobRight, JobHeld
  <2> QED
    BY <2>2, <2>4, MoveSound DEF Rewritten
<1> QED
  BY <1>2, <1>3

\* A replay found the operation: the durable state is put in place.
LEMMA ResyncStep ==
  ASSUME TurnInv, NEW j \in jobs, log' = log, NEW result \in {"existing", "ok", "conflict"},
         TurnsAt(j.place) # <<>>,
         result \in {"existing", "ok"} => ~Taken(j.place, j.request) /\ Recorded(j.request.op) # {},
         Resynchronise(j, result)
  PROVE  \E k : Continues(j, k) /\ JobRight(k)' /\ jobs' \in BecomesAt(k, j)
                /\ live' \in Rewritten(j.place)
<1>1. /\ j \in KnownThreads /\ j.place \in Places /\ j.request \in Requests
      /\ SessionOf[j.place] \in Sessions
  BY ThreadFields DEF TurnInv, Typed, JobsTyped
<1>2. CASE live[j.place] = NoState
  <2> DEFINE k == Done(j, "error")
  <2>1. Finish(j, k) /\ live' = live
    BY <1>2 DEF Resynchronise
  <2>2. k \in KnownThreads /\ k.step = "done" /\ k.result = "error"
        /\ k.place = j.place /\ k.request = j.request /\ k.abandoned = j.abandoned
    BY <1>1, DoneFields DEF Results
  <2> HIDE DEF k
  <2>3. Continues(j, k) /\ JobRight(k)'
    BY <2>2 DEF Continues, JobRight, JobHeld
  <2> QED
    BY <2>1, <2>3, MoveSound DEF Rewritten
<1>3. CASE live[j.place] # NoState
  <2> DEFINE d == Done(j, result)
             st == Replay(TurnsAt(j.place))
  <2>0. PICK k : k = [d EXCEPT !.recorded = RecordedAnswer(j.request)]
    OBVIOUS
  <2>1. Finish(j, k) /\ live' = [live EXCEPT ![j.place] = st]
    BY <1>3, <2>0 DEF Resynchronise, SetLive
  <2>2. d \in KnownThreads /\ d.step = "done" /\ d.result = result
        /\ d.place = j.place /\ d.request = j.request /\ d.abandoned = j.abandoned
    BY <1>1, DoneFields DEF Results
  <2>3. RecordedAnswer(j.request) \in Answers
    BY RecordedTyped DEF TurnInv, Typed
  <2>4. k \in KnownThreads /\ k.step = "done" /\ k.result = result
        /\ k.place = j.place /\ k.request = j.request /\ k.abandoned = j.abandoned
    <3> HIDE DEF d
    <3> QED
      BY <2>0, <2>2, <2>3, RecordedFields
  <2>5. Continues(j, k)
    BY <2>4 DEF Continues, JobHeld
  <2>6. JobRight(k)'
    <3>1. result \in {"existing", "ok"} => OnRecord(SessionOf[j.place], j.request)
      BY <1>1, RecordFound DEF TurnInv, Typed
    <3>2. result \in {"existing", "ok"} => OnRecord(SessionOf[j.place], j.request)'
      BY <3>1 DEF OnRecord
    <3> QED
      BY <2>4, <3>2 DEF JobRight
  <2>7. st \in Real
    <3>1. TurnsAt(j.place) \in Seq(Events)
      BY <1>1 DEF TurnInv, StreamTurns, TurnsAt
    <3> QED
      BY <3>1, ReplayTyped
  <2> HIDE DEF st, d
  <2>8. live' \in Rewritten(j.place)
    BY <2>1, <2>7 DEF Rewritten
  <2> QED
    BY <2>1, <2>5, <2>6, <2>8, MoveSound
<1> QED
  BY <1>2, <1>3

LEMMA LoadStep ==
  ASSUME TurnInv, NEW j \in jobs, PrepareLoad(j)
  PROVE  \E k : Continues(j, k) /\ JobRight(k)' /\ jobs' \in BecomesAt(k, j)
                /\ live' \in Rewritten(j.place)
<1>1. /\ j \in KnownThreads /\ j.place \in Places /\ j.request \in Requests
      /\ SessionOf[j.place] \in Sessions
  BY ThreadFields DEF TurnInv, Typed, JobsTyped
<1>2. CASE Verdict(j) = "existing"
  <2>1. ~Taken(j.place, j.request) /\ Recorded(j.request.op) # {}
    BY <1>2 DEF Verdict
  <2>2. TurnsAt(j.place) # <<>>
    BY <1>1, <2>1, RecordFound DEF TurnInv, Typed
  <2>3. Resynchronise(j, "existing") /\ log' = log
    BY <1>2 DEF PrepareLoad
  <2> QED
    BY <2>1, <2>2, <2>3, ResyncStep
<1>3. CASE Verdict(j) # "existing"
  <2>0. PICK verdict : verdict = Verdict(j)
    OBVIOUS
  <2> DEFINE d == Done(j, verdict)
  <2>1. PICK k : k = [d EXCEPT !.version = Len(log)]
    OBVIOUS
  <2>2. /\ Finish(j, k) /\ live' = live /\ log' = log /\ j.step = "load"
        /\ verdict \in {"refused", "misused", "conflict", "ready"}
        /\ verdict = "ready" => Recorded(j.request.op) = {} /\ HasRoom
    <3>1. Finish(j, k) /\ live' = live /\ log' = log /\ j.step = "load"
      BY <1>3, <2>0, <2>1 DEF PrepareLoad
    <3>2. verdict \in {"refused", "misused", "conflict", "ready"}
      BY <1>3, <2>0 DEF Verdict
    <3>3. verdict = "ready" => Recorded(j.request.op) = {} /\ HasRoom
      BY <2>0 DEF Verdict
    <3> QED
      BY <3>1, <3>2, <3>3
  <2>3. d \in KnownThreads /\ d.step = "done" /\ d.result = verdict /\ d.before = j.before
        /\ d.place = j.place /\ d.request = j.request /\ d.abandoned = j.abandoned
    BY <1>1, <2>2, DoneFields DEF Results
  <2>4. Len(log) \in Nat
    BY DEF TurnInv, Typed, LogTyped
  <2>5. k \in KnownThreads /\ k.step = "done" /\ k.result = verdict /\ k.before = j.before
        /\ k.place = j.place /\ k.request = j.request /\ k.abandoned = j.abandoned
        /\ k.version = Len(log)
    <3> HIDE DEF d
    <3> QED
      BY <2>1, <2>3, <2>4, VersionFields
  <2> HIDE DEF d
  <2>6. Continues(j, k)
    BY <2>2, <2>5 DEF Continues, JobHeld, TurnInv
  <2>7. verdict = "ready" => Cleared(k.version, k.request.op)
    BY <2>2, <2>4, <2>5 DEF Cleared, HasRoom
  <2>8. JobRight(k)'
    <3>1. verdict = "ready" => Cleared(k.version, k.request.op)'
      BY <2>2, <2>7 DEF Cleared, Recorded
    <3> QED
      BY <2>2, <2>5, <3>1 DEF JobRight
  <2> QED
    BY <2>2, <2>6, <2>8, MoveSound DEF Rewritten
<1> QED
  BY <1>2, <1>3

\* A thread that has failed holds nothing that could be wrong.
LEMMA FailedFields ==
  ASSUME NEW j \in KnownThreads, NEW result \in {"refused", "conflict", "error"}
  PROVE  /\ Continues(j, Done(j, result))
         /\ JobRight(Done(j, result)) /\ JobRight(Done(j, result))'
<1> DEFINE k == Done(j, result)
<1>1. k \in KnownThreads /\ k.step = "done" /\ k.result = result
      /\ k.place = j.place /\ k.request = j.request /\ k.abandoned = j.abandoned
  BY DoneFields DEF Results
<1>2. Continues(j, k) /\ JobRight(k) /\ JobRight(k)'
  <2> HIDE DEF k
  <2>1. PICK d : d = k
    OBVIOUS
  <2> QED
    BY <1>1 DEF Continues, JobHeld, JobRight, k
<1> QED
  BY <1>2

\* The state prepared for the turn is put back.
LEMMA RollbackStep ==
  ASSUME TurnInv, NEW j \in jobs, j.step \in {"build", "append"}, Rollback(j)
  PROVE  live' \in Rewritten(j.place)
<1>1. j.before \in Real
  BY ThreadFields DEF TurnInv, Typed, JobsTyped, JobHeld, Known
<1> QED
  BY <1>1 DEF Rollback, SetLive, Rewritten

LEMMA BuildStep ==
  ASSUME TurnInv, NEW j \in jobs, CommitBuild(j)
  PROVE  \E k : Continues(j, k) /\ JobRight(k)' /\ jobs' \in BecomesAt(k, j)
                /\ live' \in Rewritten(j.place)
<1>1. /\ j \in KnownThreads /\ j.place \in Places /\ j.request \in Requests
      /\ SessionOf[j.place] \in Sessions /\ j.answer \in Answers
      /\ j.step = "build" /\ JobHeld(j) /\ JobRight(j) /\ log' = log
  BY ThreadFields DEF TurnInv, Typed, JobsTyped, CommitBuild
<1>2. CASE Consistent(j)
  <2>1. PICK e : e = EventOf(j.place, j.request, live[j.place], j.answer)
    OBVIOUS
  <2>2. PICK k : k = [j EXCEPT !.step = "append", !.event = e]
    OBVIOUS
  <2>3. Advance(j, k) /\ live' = live
    BY <1>2, <2>1, <2>2 DEF CommitBuild
  <2>4. live[j.place] \in Real /\ live[j.place].digests # <<>>
    BY <1>1, <1>2, LiveKnown DEF Consistent, TurnInv, Typed
  <2>5. e \in Events /\ e.session = SessionOf[j.place] /\ e.request = j.request
    <3>1. PICK st : st = live[j.place]
      OBVIOUS
    <3>2. st.digests \in Seq(Texts) /\ st.digests # <<>> /\ st.marks \in SUBSET {"abused", "stopped"}
      BY <2>4, <3>1 DEF Real
    <3>3. st.digests[Len(st.digests)] \in Texts
      BY <3>2, EmptySeq
    <3>4. e = [session |-> SessionOf[j.place], request |-> j.request,
               digest |-> st.digests[Len(st.digests)], marks |-> st.marks, result |-> j.answer]
      BY <2>1, <3>1 DEF EventOf
    <3> QED
      BY <1>1, <3>2, <3>3, <3>4 DEF Events
  <2>6. k \in KnownThreads /\ k.step = "append" /\ k.event = e /\ k.before = j.before
        /\ k.place = j.place /\ k.request = j.request /\ k.abandoned = j.abandoned
        /\ k.version = j.version
    BY <1>1, <2>2, <2>5 DEF KnownThreads, Steps
  <2>7. Continues(j, k)
    BY <1>1, <2>6 DEF Continues, JobHeld
  <2>8. JobRight(k)'
    <3>1. Cleared(j.version, j.request.op)
      BY <1>1 DEF JobRight
    <3>2. Cleared(k.version, k.request.op)'
      BY <1>1, <2>6, <3>1 DEF Cleared, Recorded
    <3> QED
      BY <2>5, <2>6, <3>2 DEF JobRight
  <2> QED
    BY <2>3, <2>7, <2>8, MoveSound DEF Rewritten
<1>3. CASE ~Consistent(j)
  <2>1. Finish(j, Done(j, "error")) /\ Rollback(j)
    BY <1>3 DEF CommitBuild
  <2> QED
    BY <1>1, <2>1, FailedFields, MoveSound, RollbackStep
<1> QED
  BY <1>2, <1>3

LEMMA AppendStep ==
  ASSUME TurnInv, NEW j \in jobs, CommitAppend(j)
  PROVE  \E k : Continues(j, k) /\ JobRight(k)' /\ jobs' \in BecomesAt(k, j)
                /\ live' \in Rewritten(j.place)
<1>1. /\ j \in KnownThreads /\ j.place \in Places /\ j.request \in Requests
      /\ j.step = "append" /\ JobHeld(j) /\ JobRight(j) /\ log \in Seq(Events)
  BY ThreadFields DEF TurnInv, Typed, JobsTyped, LogTyped, CommitAppend
<1>2. CASE store = "closed" /\ Finish(j, Done(j, "refused")) /\ Rollback(j)
  BY <1>1, <1>2, FailedFields, MoveSound, RollbackStep
<1>3. CASE Appended(j) /\ Finish(j, Done(j, "ok")) /\ live' = live
  <2> DEFINE k == Done(j, "ok")
  <2>1. k \in KnownThreads /\ k.step = "done" /\ k.result = "ok"
        /\ k.place = j.place /\ k.request = j.request /\ k.abandoned = j.abandoned
    BY <1>1, DoneFields DEF Results
  <2>2. Continues(j, k)
    BY <2>1 DEF Continues, JobHeld
  <2>3. OnRecord(SessionOf[j.place], j.request)'
    <3>1. j.event \in Events /\ j.event.session = SessionOf[j.place] /\ j.event.request = j.request
      BY <1>1 DEF JobRight
    <3>2. log' = Append(log, j.event)
      BY <1>3 DEF Appended
    <3>3. Len(log') \in Nat \ {0} /\ log'[Len(log')] = j.event
      BY <1>1, <3>1, <3>2
    <3> QED
      BY <3>1, <3>3 DEF OnRecord
  <2>4. JobRight(k)'
    <3>1. PICK d : d = k
      OBVIOUS
    <3>2. OnRecord(SessionOf[d.place], d.request)'
      BY <2>1, <2>3, <3>1
    <3>3. JobRight(d)'
      BY <2>1, <3>1, <3>2 DEF JobRight
    <3> QED
      BY <3>1, <3>3
  <2> QED
    BY <1>3, <2>2, <2>4, MoveSound DEF Rewritten
<1>4. CASE Advance(j, [j EXCEPT !.step = "reload"]) /\ Rollback(j)
  <2> DEFINE k == [j EXCEPT !.step = "reload"]
  <2>1. k \in KnownThreads /\ k.step = "reload"
        /\ k.place = j.place /\ k.request = j.request /\ k.abandoned = j.abandoned
    BY <1>1 DEF KnownThreads, Steps
  <2>2. Continues(j, k) /\ JobRight(k)'
    <3>1. PICK d : d = k
      OBVIOUS
    <3>2. Continues(j, d) /\ JobRight(d)'
      BY <2>1, <3>1 DEF Continues, JobHeld, JobRight
    <3> QED
      BY <3>1, <3>2
  <2> QED
    BY <1>1, <1>4, <2>2, MoveSound, RollbackStep
<1> QED
  BY <1>2, <1>3, <1>4 DEF CommitAppend

LEMMA ReloadStep ==
  ASSUME TurnInv, NEW j \in jobs, CommitReload(j)
  PROVE  \E k : Continues(j, k) /\ JobRight(k)' /\ jobs' \in BecomesAt(k, j)
                /\ live' \in Rewritten(j.place)
<1>1. j \in KnownThreads /\ log' = log
  BY DEF TurnInv, Typed, JobsTyped, CommitReload
<1>2. ASSUME NEW result \in {"refused", "error", "conflict"}, Finish(j, Done(j, result)), live' = live
      PROVE  \E k : Continues(j, k) /\ JobRight(k)' /\ jobs' \in BecomesAt(k, j)
                    /\ live' \in Rewritten(j.place)
  BY <1>1, <1>2, FailedFields, MoveSound DEF Rewritten
<1>3. CASE /\ ~Taken(j.place, j.request) /\ TurnsAt(j.place) # <<>>
           /\ Resynchronise(j, IF Recorded(j.request.op) # {} THEN "ok" ELSE "conflict")
  <2>1. CASE Recorded(j.request.op) # {}
    <3>1. Resynchronise(j, "ok")
      BY <1>3, <2>1
    <3> QED
      BY <1>1, <1>3, <2>1, <3>1, ResyncStep
  <2>2. CASE Recorded(j.request.op) = {}
    <3>1. Resynchronise(j, "conflict")
      BY <1>3, <2>2
    <3> QED
      BY <1>1, <1>3, <3>1, ResyncStep
  <2> QED
    BY <2>1, <2>2
<1> QED
  BY <1>2, <1>3 DEF CommitReload

LEMMA FaultStep ==
  ASSUME TurnInv, NEW j \in jobs, DatabaseFault(j)
  PROVE  \E k : Continues(j, k) /\ JobRight(k)' /\ jobs' \in BecomesAt(k, j)
                /\ live' \in Rewritten(j.place)
<1>1. j \in KnownThreads
  BY DEF TurnInv, Typed, JobsTyped
<1>2. ASSUME NEW result \in {"error", "conflict"}, Finish(j, Done(j, result)), live' \in Rewritten(j.place)
      PROVE  \E k : Continues(j, k) /\ JobRight(k)' /\ jobs' \in BecomesAt(k, j)
                    /\ live' \in Rewritten(j.place)
  BY <1>1, <1>2, FailedFields, MoveSound
<1>3. CASE /\ \E result \in {"conflict", "error"} : Finish(j, Done(j, result))
           /\ live' = live
  BY <1>2, <1>3 DEF Rewritten
<1>4. CASE j.step = "append" /\ Finish(j, Done(j, "error")) /\ Rollback(j)
  BY <1>2, <1>4, RollbackStep
<1> QED
  BY <1>3, <1>4 DEF DatabaseFault

\* A thread's step touches its own place's state and itself.
LEMMA ThreadStep ==
  ASSUME TurnInv, NEW j \in jobs, JobStep(j) \/ DatabaseFault(j)
  PROVE  /\ \E k : Continues(j, k) /\ JobRight(k)' /\ jobs' \in BecomesAt(k, j)
                   /\ live' \in Rewritten(j.place)
         /\ UNCHANGED <<registry, memo, task, born, told>>
<1>1. UNCHANGED <<registry, memo, task, born, told>>
  BY DEF JobStep, PrepareExport, PrepareLoad, CommitBuild, CommitAppend, CommitReload,
         DatabaseFault, Unmoved
<1> QED
  BY <1>1, ExportStep, LoadStep, BuildStep, AppendStep, ReloadStep, FaultStep DEF JobStep

-----------------------------------------------------------------------------
(***************************************************************************)
(* One step of a place: its live state, registration and turn become st, g *)
(* and t, and the threads that remain are old ones, or its own and sound.  *)
(***************************************************************************)
Registrations == {"absent", "active", "recovered", "closing"}

Turning(x, st, g, t) ==
  /\ st \in Known /\ g \in Registrations /\ t \in {Idle} \cup KnownTurns
  /\ live' = [live EXCEPT ![x] = st]
  /\ registry' = [registry EXCEPT ![x] = g]
  /\ task' = [task EXCEPT ![x] = t]

TurnSound(x, st, g, t) ==
  /\ g # "absent" => st # NoState
  /\ t # Idle =>
       /\ g # "absent"
       /\ t.stage \in {"understanding", "previewing", "committing"}
            => t.before # NoState /\ t.checkpoint # NoState
       /\ t.stage = "previewing again" => t.checkpoint # NoState
       /\ t.stage \in {"understanding", "previewing"} => Cleared(t.version, t.request.op)
       /\ t.stage \in {"previewing again", "recalling"} => OnRecord(SessionOf[x], t.request)

Serves(j, t) ==
  t # Idle /\ t.stage \in {"preparing", "committing"} /\ t.request = j.request

ThreadsSound(x, t) ==
  \A k \in jobs' :
    /\ k \in jobs \/ (k \in KnownThreads /\ JobHeld(k) /\ JobRight(k) /\ k.place = x)
    /\ k.place = x /\ k.abandoned = 0 => Serves(k, t)

PlaceMoves(x) ==
  \E st, g, t : Turning(x, st, g, t) /\ TurnSound(x, st, g, t) /\ ThreadsSound(x, t)

\* The part of TurnInv that is about the places and their threads.
PlacesInv ==
  /\ LiveTyped /\ RegistryTyped /\ TaskTyped /\ JobsTyped
  /\ \A j \in jobs : JobHeld(j) /\ JobRight(j) /\ JobServes(j)
  /\ \A x \in Places : PlaceHeld(x) /\ TaskRight(x)

LEMMA PlaceFacts ==
  ASSUME TurnInv, NEW x \in Places
  PROVE  /\ live[x] \in Known /\ registry[x] \in Registrations
         /\ task[x] \in {Idle} \cup KnownTurns
         /\ live = [live EXCEPT ![x] = live[x]]
         /\ registry = [registry EXCEPT ![x] = registry[x]]
         /\ task = [task EXCEPT ![x] = task[x]]
         /\ TurnSound(x, live[x], registry[x], task[x])
         /\ \A k \in jobs : k.place = x /\ k.abandoned = 0 => Serves(k, task[x])
<1>1. live \in [Places -> Known] /\ task \in [Places -> {Idle} \cup KnownTurns]
  BY DEF TurnInv, Typed, LiveTyped, TaskTyped
<1>2. registry \in [Places -> Registrations]
  BY DEF TurnInv, Typed, RegistryTyped, Registrations
<1>3. PlaceHeld(x) /\ TaskRight(x)
  BY DEF TurnInv
<1>4. TurnSound(x, live[x], registry[x], task[x])
  BY <1>3 DEF PlaceHeld, TaskRight, TurnSound
<1>5. \A k \in jobs : k.place = x /\ k.abandoned = 0 => Serves(k, task[x])
  BY DEF TurnInv, JobServes, Serves
<1> QED
  BY <1>1, <1>2, <1>4, <1>5

LEMMA PlaceStep ==
  ASSUME TurnInv, [Next]_vars, NEW x \in Places, PlaceMoves(x)
  PROVE  PlacesInv'
<1>1. PICK st, g, t : Turning(x, st, g, t) /\ TurnSound(x, st, g, t) /\ ThreadsSound(x, t)
  BY DEF PlaceMoves
<1>2. LiveTyped' /\ RegistryTyped' /\ TaskTyped'
  BY <1>1 DEF Turning, TurnInv, Typed, LiveTyped, RegistryTyped, TaskTyped, Registrations
<1>3. ASSUME NEW k \in jobs'
      PROVE  k \in KnownThreads /\ JobHeld(k) /\ JobRight(k)'
  <2>1. k \in KnownThreads /\ JobHeld(k) /\ JobRight(k)
    BY <1>1, <1>3 DEF ThreadsSound, TurnInv, Typed, JobsTyped
  <2> QED
    BY <2>1, JobKept DEF TurnInv
<1>4. JobsTyped'
  BY <1>3 DEF JobsTyped
<1>5. ASSUME NEW k \in jobs' PROVE JobHeld(k)' /\ JobRight(k)' /\ JobServes(k)'
  <2>1. JobHeld(k)' /\ JobRight(k)'
    BY <1>3 DEF JobHeld
  <2>2. CASE k.place = x
    <3>1. task'[k.place] = t
      BY <1>1, <2>2 DEF Turning, TurnInv, Typed, TaskTyped
    <3>2. k.abandoned = 0 => Serves(k, t)
      BY <1>1, <2>2 DEF ThreadsSound
    <3> QED
      BY <2>1, <3>1, <3>2 DEF JobServes, Serves
  <2>3. CASE k.place # x
    <3>1. k \in jobs /\ k.place \in Places
      BY <1>1, <1>3, <2>3, ThreadFields DEF ThreadsSound
    <3>2. task'[k.place] = task[k.place]
      BY <1>1, <2>3, <3>1 DEF Turning, TurnInv, Typed, TaskTyped
    <3>3. JobServes(k)
      BY <3>1 DEF TurnInv
    <3> QED
      BY <2>1, <3>2, <3>3 DEF JobServes
  <2> QED
    BY <2>2, <2>3
<1>6. ASSUME NEW y \in Places PROVE PlaceHeld(y)' /\ TaskRight(y)'
  <2>1. PICK u : u = task'[y]
    OBVIOUS
  <2>2. u \in {Idle} \cup KnownTurns
    BY <1>2, <2>1 DEF TaskTyped
  <2>3. u # Idle => /\ Cleared(u.version, u.request.op) => Cleared(u.version, u.request.op)'
                    /\ OnRecord(SessionOf[y], u.request) => OnRecord(SessionOf[y], u.request)'
    BY <2>2, TurnKept DEF TurnInv
  <2>4. TurnSound(y, live'[y], registry'[y], u)
    <3>1. CASE y = x
      <4>1. live'[y] = st /\ registry'[y] = g /\ u = t
        BY <1>1, <2>1, <3>1 DEF Turning, TurnInv, Typed, LiveTyped, RegistryTyped, TaskTyped
      <4> QED
        BY <1>1, <3>1, <4>1
    <3>2. CASE y # x
      <4>1. live'[y] = live[y] /\ registry'[y] = registry[y] /\ u = task[y]
        BY <1>1, <2>1, <3>2 DEF Turning, TurnInv, Typed, LiveTyped, RegistryTyped, TaskTyped
      <4> QED
        BY <4>1, PlaceFacts
    <3> QED
      BY <3>1, <3>2
  <2>5. PlaceHeld(y)'
    BY <2>1, <2>4 DEF PlaceHeld, TurnSound
  <2>6. TaskRight(y)'
    <3>1. u # Idle =>
            /\ u.stage \in {"understanding", "previewing"} => Cleared(u.version, u.request.op)'
            /\ u.stage \in {"previewing again", "recalling"} => OnRecord(SessionOf[y], u.request)'
      BY <2>3, <2>4 DEF TurnSound
    <3> QED
      BY <2>1, <3>1 DEF TaskRight
  <2> QED
    BY <2>5, <2>6
<1> QED
  BY <1>2, <1>4, <1>5, <1>6 DEF PlacesInv

\* A place without a turn has no thread that anyone waits for.
LEMMA IdleAlone ==
  ASSUME TurnInv, NEW x \in Places, task[x].stage \notin {"preparing", "committing"} \/ task[x] = Idle
  PROVE  \A k \in jobs : k.place = x => k.abandoned # 0
BY PlaceFacts DEF Serves

\* A turn that ends has been answered by its threads, or its place had none.
LEMMA EndedAlone ==
  ASSUME TurnInv, NEW x \in Places,
         Collect(x) \/ (jobs' = jobs /\ task[x].stage \notin {"preparing", "committing"})
                    \/ (jobs' = jobs /\ task[x] = Idle),
         NEW t
  PROVE  ThreadsSound(x, t)
<1>1. jobs' \subseteq jobs
  BY DEF Collect
<1>2. \A k \in jobs' : k.place = x => k.abandoned # 0
  <2>1. CASE Collect(x)
    BY <2>1 DEF Collect, OwnJobs
  <2>2. CASE jobs' = jobs
    BY <2>2, IdleAlone, <2>1
  <2> QED
    BY <2>1, <2>2
<1> QED
  BY <1>1, <1>2 DEF ThreadsSound

LEMMA CreateStep ==
  ASSUME TurnInv, NEW x \in Places, Create(x)
  PROVE  PlaceMoves(x)
<1>1. Turning(x, Fresh, "active", task[x])
  BY PlaceFacts, KnownIsState DEF Create, Turning, Known, Registrations
<1>2. TurnSound(x, Fresh, "active", task[x])
  BY PlaceFacts, KnownIsState DEF TurnSound
<1>3. ThreadsSound(x, task[x])
  BY PlaceFacts DEF Create, ThreadsSound
<1> QED
  BY <1>1, <1>2, <1>3 DEF PlaceMoves

LEMMA ResumeStep ==
  ASSUME TurnInv, NEW x \in Places, Resume(x)
  PROVE  PlaceMoves(x)
<1>1. /\ registry[x] = "absent" /\ TurnsOf(log, SessionOf[x]) # <<>>
      /\ jobs' = jobs /\ task' = task
  BY DEF Resume
<1>2. task[x] = Idle
  BY <1>1 DEF TurnInv, PlaceHeld
<1>3. ThreadsSound(x, Idle)
  BY <1>1, <1>2, EndedAlone
<1>4. Replay(TurnsOf(log, SessionOf[x])) \in Real
  <2>1. TurnsOf(log, SessionOf[x]) \in Seq(Events)
    BY PlacesAssumption DEF TurnInv, StreamTurns
  <2> QED
    BY <1>1, <2>1, ReplayTyped
<1>5. CASE live[x] = NoState
  <2>1. Turning(x, Replay(TurnsOf(log, SessionOf[x])), "recovered", Idle)
    BY <1>1, <1>2, <1>4, <1>5, PlaceFacts DEF Resume, Turning, Known, Registrations
  <2>2. TurnSound(x, Replay(TurnsOf(log, SessionOf[x])), "recovered", Idle)
    BY <1>4, KnownIsState DEF TurnSound
  <2> QED
    BY <1>3, <2>1, <2>2 DEF PlaceMoves
<1>6. CASE live[x] # NoState
  <2>1. Turning(x, NoState, "absent", Idle)
    BY <1>1, <1>2, <1>6, PlaceFacts DEF Resume, Turning, Known, Registrations
  <2>2. TurnSound(x, NoState, "absent", Idle)
    BY DEF TurnSound
  <2> QED
    BY <1>3, <2>1, <2>2 DEF PlaceMoves
<1> QED
  BY <1>5, <1>6

\* A session that is torn down while it is published and its turn, if any, ends.
LEMMA TeardownStep ==
  ASSUME TurnInv, NEW x \in Places, Teardown(x), registry[x] # "absent",
         task' = [task EXCEPT ![x] = Idle], ThreadsSound(x, Idle)
  PROVE  PlaceMoves(x)
<1>1. live[x] # NoState
  BY DEF TurnInv, PlaceHeld
<1>2. CASE /\ registry' = [registry EXCEPT ![x] = "absent"]
           /\ live' = [live EXCEPT ![x] = NoState]
  <2>1. Turning(x, NoState, "absent", Idle)
    BY <1>2 DEF Turning, Known, Registrations
  <2>2. TurnSound(x, NoState, "absent", Idle)
    BY DEF TurnSound
  <2> QED
    BY <2>1, <2>2 DEF PlaceMoves
<1>3. CASE registry' = [registry EXCEPT ![x] = "closing"] /\ live' = live
  <2>1. Turning(x, live[x], "closing", Idle)
    BY <1>3, PlaceFacts DEF Turning, Known, Registrations
  <2>2. TurnSound(x, live[x], "closing", Idle)
    BY <1>1 DEF TurnSound
  <2> QED
    BY <2>1, <2>2 DEF PlaceMoves
<1> QED
  BY <1>2, <1>3 DEF Teardown

LEMMA CloseStep ==
  ASSUME TurnInv, NEW x \in Places, Close(x)
  PROVE  PlaceMoves(x)
<1>1. /\ Teardown(x) /\ registry[x] # "absent" /\ task[x] = Idle
      /\ task' = task /\ jobs' = jobs
  BY DEF Close
<1>2. task' = [task EXCEPT ![x] = Idle]
  BY <1>1, PlaceFacts
<1> QED
  BY <1>1, <1>2, EndedAlone, TeardownStep

LEMMA SubmitStep ==
  ASSUME TurnInv, NEW x \in Places, NEW r \in Requests, Submit(x, r)
  PROVE  PlaceMoves(x)
<1> DEFINE t == [stage |-> "preparing", request |-> r, checkpoint |-> NoState,
                 before |-> NoState, version |-> 0, answer |-> NoAnswer]
           k == Job(x, "export", r)
<1>1. t \in KnownTurns /\ t # Idle
  <2>1. t \in KnownTurns
    BY NoAnswerTyped DEF KnownTurns, Known, Stages
  <2>2. t.stage # Idle.stage
    BY DEF Idle
  <2> QED
    BY <2>1, <2>2
<1>2. k \in KnownThreads /\ k.step = "export" /\ k.place = x /\ k.request = r
  BY NoAnswerTyped, BoundsAssumption DEF Job, KnownThreads, Known, Steps, Results
<1>3. JobHeld(k) /\ JobRight(k)
  <2> HIDE DEF k
  <2> QED
    BY <1>2 DEF JobHeld, JobRight
<1>4. task[x] = Idle /\ task' = [task EXCEPT ![x] = t] /\ jobs' = jobs \cup {k}
      /\ live' = live /\ registry' = registry /\ registry[x] # "absent"
  BY DEF Submit, Admits
<1>5. live[x] # NoState
  BY <1>4 DEF TurnInv, PlaceHeld
<1>6. t.stage = "preparing" /\ t.request = r
  OBVIOUS
<1> HIDE DEF t, k
<1>7. Turning(x, live[x], registry[x], t)
  BY <1>1, <1>4, PlaceFacts DEF Turning
<1>8. TurnSound(x, live[x], registry[x], t)
  BY <1>4, <1>5, <1>6 DEF TurnSound
<1>9. ThreadsSound(x, t)
  <2>1. \A j \in jobs : j.place = x => j.abandoned # 0
    BY <1>4, IdleAlone
  <2>2. Serves(k, t)
    BY <1>1, <1>2, <1>6 DEF Serves
  <2> QED
    BY <1>2, <1>3, <1>4, <2>1, <2>2 DEF ThreadsSound
<1> QED
  BY <1>7, <1>8, <1>9 DEF PlaceMoves

\* A turn that ends with a state of its own or the one that is there.
LEMMA EndStep ==
  ASSUME TurnInv, NEW x \in Places, task[x] # Idle, Ended(x), registry' = registry,
         NEW st \in Known, st # NoState, live' = [live EXCEPT ![x] = st], ThreadsSound(x, Idle)
  PROVE  PlaceMoves(x)
<1>1. Turning(x, st, registry[x], Idle)
  BY PlaceFacts DEF Ended, Turning
<1>2. TurnSound(x, st, registry[x], Idle)
  BY DEF TurnSound
<1> QED
  BY <1>1, <1>2 DEF PlaceMoves

LEMMA EndQuietly ==
  ASSUME TurnInv, NEW x \in Places, task[x] # Idle, Ended(x), registry' = registry,
         live' = live, ThreadsSound(x, Idle)
  PROVE  PlaceMoves(x)
<1>1. live[x] # NoState
  BY DEF TurnInv, PlaceHeld
<1> QED
  BY <1>1, EndStep, PlaceFacts

\* A turn that has an outcome is at that stage.
LEMMA OutcomeFacts ==
  ASSUME TurnInv, NEW x \in Places, NEW stage, NEW results, NEW j \in Outcome(x, stage, results)
  PROVE  /\ task[x] # Idle /\ task[x] \in KnownTurns /\ task[x].stage = stage
         /\ j \in jobs /\ j \in KnownThreads /\ j.place = x /\ j.abandoned = 0
         /\ j.step = "done" /\ j.result \in results /\ j.request = task[x].request
<1>1. /\ j \in jobs /\ j.place = x /\ j.abandoned = 0 /\ task[x].stage = stage
      /\ j.step = "done" /\ j.result \in results
  BY DEF Outcome, OwnJobs
<1>2. Serves(j, task[x])
  BY <1>1, PlaceFacts
<1> QED
  BY <1>1, <1>2, PlaceFacts DEF Serves, TurnInv, Typed, JobsTyped

\* The live state of a turn under way.
LEMMA BusyFacts ==
  ASSUME TurnInv, NEW x \in Places, task[x] # Idle
  PROVE  /\ registry[x] # "absent" /\ live[x] \in Real /\ live[x] # NoState
         /\ task[x] \in KnownTurns /\ task[x].request \in Requests
<1>1. registry[x] # "absent" /\ live[x] # NoState
  BY DEF TurnInv, PlaceHeld
<1> QED
  BY <1>1, LiveKnown, TurnFields DEF TurnInv, Typed

LEMMA PreparedStep ==
  ASSUME TurnInv, NEW x \in Places, Prepared(x)
  PROVE  PlaceMoves(x)
<1>1. PICK j \in Outcome(x, "preparing", {"ready"}) :
        /\ IF Stopped(x)
           THEN Ended(x)
           ELSE task' = [task EXCEPT ![x] = [@ EXCEPT !.stage = "understanding",
                           !.checkpoint = live[x], !.before = j.before, !.version = j.version]]
        /\ Collect(x)
        /\ live' = live /\ registry' = registry
  BY DEF Prepared
<1>2. /\ task[x] # Idle /\ task[x] \in KnownTurns
      /\ j \in jobs /\ j \in KnownThreads
      /\ j.step = "done" /\ j.result = "ready" /\ j.request = task[x].request
  BY OutcomeFacts
<1>3. ThreadsSound(x, Idle)
  BY <1>1, EndedAlone
<1>4. CASE Stopped(x)
  BY <1>1, <1>2, <1>3, <1>4, EndQuietly
<1>5. CASE ~Stopped(x)
  <2>1. PICK t : t = [task[x] EXCEPT !.stage = "understanding", !.checkpoint = live[x],
                        !.before = j.before, !.version = j.version]
    OBVIOUS
  <2>2. task' = [task EXCEPT ![x] = t]
    BY <1>1, <1>5, <2>1
  <2>3. live[x] \in Known /\ live[x] # NoState /\ registry[x] # "absent"
    BY <1>2, BusyFacts DEF Known
  <2>4. j.before \in Known /\ j.version \in Nat
    BY <1>2, ThreadFields
  <2>5. /\ t \in KnownTurns /\ t.stage = "understanding" /\ t.checkpoint = live[x]
        /\ t.before = j.before /\ t.version = j.version /\ t.request = task[x].request
    BY <1>2, <2>1, <2>3, <2>4 DEF KnownTurns, Stages
  <2>6. j.before # NoState /\ Cleared(j.version, j.request.op)
    BY <1>2 DEF TurnInv, JobHeld, JobRight
  <2>7. Turning(x, live[x], registry[x], t)
    BY <1>1, <2>2, <2>5, PlaceFacts DEF Turning
  <2>8. TurnSound(x, live[x], registry[x], t)
    BY <1>2, <2>3, <2>5, <2>6 DEF TurnSound
  <2>9. ThreadsSound(x, t)
    BY <1>1, EndedAlone
  <2> QED
    BY <2>7, <2>8, <2>9 DEF PlaceMoves
<1> QED
  BY <1>4, <1>5

LEMMA ReplayedStep ==
  ASSUME TurnInv, NEW x \in Places, Replayed(x)
  PROVE  PlaceMoves(x)
<1>1. PICK j \in Outcome(x, "preparing", {"existing"}) :
        /\ \/ Ended(x)
           \/ task' = [task EXCEPT ![x] = [@ EXCEPT !.stage = "previewing again",
                         !.checkpoint = live[x], !.answer = j.recorded]]
        /\ Collect(x)
        /\ live' = live /\ registry' = registry
  BY DEF Replayed, Respond
<1>2. /\ task[x] # Idle /\ task[x] \in KnownTurns
      /\ j \in jobs /\ j \in KnownThreads /\ j.place = x
      /\ j.step = "done" /\ j.result = "existing" /\ j.request = task[x].request
  BY OutcomeFacts
<1>3. CASE Ended(x)
  BY <1>1, <1>2, <1>3, EndedAlone, EndQuietly
<1>4. CASE task' = [task EXCEPT ![x] = [@ EXCEPT !.stage = "previewing again",
                         !.checkpoint = live[x], !.answer = j.recorded]]
  <2>1. PICK t : t = [task[x] EXCEPT !.stage = "previewing again",
                         !.checkpoint = live[x], !.answer = j.recorded]
    OBVIOUS
  <2>2. task' = [task EXCEPT ![x] = t]
    BY <1>4, <2>1
  <2>3. live[x] \in Known /\ live[x] # NoState /\ registry[x] # "absent"
    BY <1>2, BusyFacts DEF Known
  <2>4. j.recorded \in Answers
    BY <1>2, ThreadFields
  <2>5. /\ t \in KnownTurns /\ t.stage = "previewing again" /\ t.checkpoint = live[x]
        /\ t.request = task[x].request
    BY <1>2, <2>1, <2>3, <2>4 DEF KnownTurns, Stages
  <2>6. OnRecord(SessionOf[x], task[x].request)
    BY <1>2 DEF TurnInv, JobRight
  <2>7. Turning(x, live[x], registry[x], t)
    BY <1>1, <2>2, <2>5, PlaceFacts DEF Turning
  <2>8. TurnSound(x, live[x], registry[x], t)
    BY <2>3, <2>5, <2>6 DEF TurnSound
  <2>9. ThreadsSound(x, t)
    BY <1>1, EndedAlone
  <2> QED
    BY <2>7, <2>8, <2>9 DEF PlaceMoves
<1> QED
  BY <1>1, <1>3, <1>4

LEMMA UnpreparedStep ==
  ASSUME TurnInv, NEW x \in Places, Unprepared(x)
  PROVE  PlaceMoves(x)
<1>1. PICK j \in Outcome(x, "preparing", {"misused", "error"}) :
        Ended(x) /\ Collect(x) /\ live' = live /\ registry' = registry
  BY DEF Unprepared
<1>2. task[x] # Idle
  BY OutcomeFacts
<1> QED
  BY <1>1, <1>2, EndedAlone, EndQuietly

LEMMA DiscardStep ==
  ASSUME TurnInv, NEW x \in Places, Discard(x)
  PROVE  PlaceMoves(x)
<1>1. task[x] # Idle
  BY OutcomeFacts DEF Discard
<1>2. registry[x] # "absent"
  BY <1>1, BusyFacts
<1>3. Teardown(x) /\ task' = [task EXCEPT ![x] = Idle] /\ Collect(x)
  BY DEF Discard, Ended
<1> QED
  BY <1>2, <1>3, EndedAlone, TeardownStep

\* The turn is handed to a thread for its commit.
LEMMA CommitStageStep ==
  ASSUME TurnInv, NEW x \in Places, task[x].stage \in {"understanding", "previewing"},
         NEW answer \in Answers, CommitStage(x, answer),
         NEW st \in Real, live' = [live EXCEPT ![x] = st], registry' = registry
  PROVE  PlaceMoves(x)
<1>1. task[x] # Idle
  BY DEF Idle
<1>2. PICK u : u = task[x]
  OBVIOUS
<1>3. /\ u \in KnownTurns /\ u.request \in Requests /\ u.before \in Known /\ u.version \in Nat
      /\ u.checkpoint \in Known
      /\ u.before # NoState /\ u.checkpoint # NoState /\ registry[x] # "absent"
      /\ Cleared(u.version, u.request.op)
  BY <1>1, <1>2, TurnFields DEF TurnInv, Typed, PlaceHeld, TaskRight
<1>4. PICK t : t = [u EXCEPT !.stage = "committing", !.answer = answer]
  OBVIOUS
<1>5. task' = [task EXCEPT ![x] = t]
  BY <1>2, <1>4 DEF CommitStage, TurnInv, Typed, TaskTyped
<1>6. t \in KnownTurns /\ t.stage = "committing" /\ t.request = u.request
      /\ t.before = u.before /\ t.checkpoint = u.checkpoint /\ t # Idle
  <2>1. t \in KnownTurns /\ t.stage = "committing" /\ t.request = u.request
        /\ t.before = u.before /\ t.checkpoint = u.checkpoint
    BY <1>3, <1>4 DEF KnownTurns, Stages
  <2>2. Idle.stage = "idle"
    BY DEF Idle
  <2> QED
    BY <2>1, <2>2
<1>7. PICK k : k = [Job(x, "build", u.request) EXCEPT !.before = u.before,
                      !.version = u.version, !.answer = answer]
  OBVIOUS
<1>8. jobs' = jobs \cup {k}
  BY <1>2, <1>7 DEF CommitStage
<1>9. /\ k \in KnownThreads /\ k.step = "build" /\ k.place = x /\ k.request = u.request
      /\ k.before = u.before /\ k.version = u.version
  <2>1. Job(x, "build", u.request) \in KnownThreads
        /\ Job(x, "build", u.request).step = "build" /\ Job(x, "build", u.request).place = x
        /\ Job(x, "build", u.request).request = u.request
    BY <1>3, NoAnswerTyped, BoundsAssumption DEF Job, KnownThreads, Known, Steps, Results
  <2> QED
    BY <1>3, <1>7, <2>1 DEF KnownThreads
<1>10. JobHeld(k) /\ JobRight(k)
  BY <1>3, <1>9 DEF JobHeld, JobRight
<1>11. Turning(x, st, registry[x], t)
  BY <1>5, <1>6, PlaceFacts DEF Turning, Known
<1>12. TurnSound(x, st, registry[x], t)
  BY <1>3, <1>6, KnownIsState DEF TurnSound
<1>13. ThreadsSound(x, t)
  <2>1. \A j \in jobs : j.place = x => j.abandoned # 0
    BY IdleAlone
  <2>2. Serves(k, t)
    BY <1>6, <1>9 DEF Serves
  <2> QED
    BY <1>8, <1>9, <1>10, <2>1, <2>2 DEF ThreadsSound
<1> QED
  BY <1>11, <1>12, <1>13 DEF PlaceMoves

LEMMA ProcessStep ==
  ASSUME TurnInv, NEW x \in Places, Process(x)
  PROVE  PlaceMoves(x)
<1>1. task[x].stage = "understanding" /\ registry' = registry
  BY DEF Process
<1>2. task[x] # Idle
  BY <1>1 DEF Idle
<1>3. /\ live[x] \in Real /\ task[x] \in KnownTurns /\ task[x].request.text \in Texts
      /\ registry[x] # "absent"
  BY <1>2, BusyFacts, RequestFields
<1>4. CASE Stopped(x)
  BY <1>1, <1>2, <1>4, EndedAlone, EndQuietly DEF Process
<1>5. CASE ~Stopped(x)
  <2>1. PICK st, answer : st = EngineTurn(live[x], task[x].request.text)
                          /\ answer = Answer(live[x], task[x].request.text)
    OBVIOUS
  <2>2. st \in Real /\ answer \in Answers
    BY <1>3, <2>1, EngineTyped
  <2>3. live' = [live EXCEPT ![x] = st]
    BY <1>5, <2>1 DEF Process, SetLive
  <2>4. CASE CommitStage(x, answer)
    BY <1>1, <2>2, <2>3, <2>4, CommitStageStep
  <2>5. CASE /\ task' = [task EXCEPT ![x].stage = "previewing", ![x].answer = answer]
             /\ jobs' = jobs
    <3>1. PICK t : t = [task[x] EXCEPT !.stage = "previewing", !.answer = answer]
      OBVIOUS
    <3>2. task' = [task EXCEPT ![x] = t]
      BY <2>5, <3>1 DEF TurnInv, Typed, TaskTyped
    <3>3. /\ t \in KnownTurns /\ t.stage = "previewing" /\ t.request = task[x].request
          /\ t.before = task[x].before /\ t.checkpoint = task[x].checkpoint
          /\ t.version = task[x].version
      BY <1>3, <2>2, <3>1 DEF KnownTurns, Stages
    <3>4. TurnSound(x, live[x], registry[x], task[x])
      BY PlaceFacts
    <3>5. TurnSound(x, st, registry[x], t)
      BY <1>1, <1>2, <1>3, <2>2, <3>3, <3>4, KnownIsState DEF TurnSound
    <3>6. Turning(x, st, registry[x], t)
      BY <1>1, <2>2, <2>3, <3>2, <3>3, PlaceFacts DEF Turning, Known
    <3>7. ThreadsSound(x, t)
      BY <1>1, <2>5, EndedAlone
    <3> QED
      BY <3>5, <3>6, <3>7 DEF PlaceMoves
  <2> QED
    BY <1>5, <2>1, <2>4, <2>5 DEF Process
<1> QED
  BY <1>4, <1>5

LEMMA PreviewStep ==
  ASSUME TurnInv, NEW x \in Places, Preview(x)
  PROVE  PlaceMoves(x)
<1>1. /\ task[x].stage = "previewing" /\ CommitStage(x, task[x].answer)
      /\ live' = live /\ registry' = registry
  BY DEF Preview
<1>2. task[x] # Idle
  BY <1>1 DEF Idle
<1>3. task[x].answer \in Answers /\ live[x] \in Real
  BY <1>2, TurnFields, BusyFacts DEF TurnInv, Typed
<1> QED
  BY <1>1, <1>3, CommitStageStep, PlaceFacts

LEMMA EndingSteps ==
  ASSUME TurnInv, NEW x \in Places,
         PreviewAgain(x) \/ PreviewFail(x) \/ CommitFailed(x) \/ Recalled(x)
  PROVE  PlaceMoves(x)
<1>0. Idle.stage = "idle"
  BY DEF Idle
<1>1. CASE PreviewAgain(x) \/ Recalled(x)
  <2>1. /\ task[x].stage \in {"previewing again", "recalling"}
        /\ Ended(x) /\ live' = live /\ registry' = registry /\ jobs' = jobs
    BY <1>1 DEF PreviewAgain, Recalled, Respond
  <2>2. task[x] # Idle
    BY <1>0, <2>1
  <2> QED
    BY <2>1, <2>2, EndedAlone, EndQuietly
<1>2. ASSUME task[x].stage \in {"previewing", "previewing again", "committing"},
             live' = [live EXCEPT ![x] = task[x].checkpoint], registry' = registry,
             Ended(x), ThreadsSound(x, Idle)
      PROVE  PlaceMoves(x)
  <2>1. task[x] # Idle
    BY <1>0, <1>2
  <2>2. task[x].checkpoint \in Known /\ task[x].checkpoint # NoState
    BY <1>2, <2>1, TurnFields DEF TurnInv, Typed, PlaceHeld
  <2> QED
    BY <1>2, <2>1, <2>2, EndStep
<1>3. CASE PreviewFail(x)
  <2>1. /\ task[x].stage \in {"previewing", "previewing again"} /\ jobs' = jobs
        /\ live' = [live EXCEPT ![x] = task[x].checkpoint] /\ registry' = registry
        /\ Ended(x)
    BY <1>3 DEF PreviewFail, SetLive
  <2> QED
    BY <1>2, <2>1, EndedAlone
<1>4. CASE CommitFailed(x)
  <2>1. /\ task[x].stage = "committing" /\ Collect(x)
        /\ live' = [live EXCEPT ![x] = task[x].checkpoint] /\ registry' = registry
        /\ Ended(x)
    BY <1>4, OutcomeFacts DEF CommitFailed, SetLive
  <2> QED
    BY <1>2, <2>1, EndedAlone
<1> QED
  BY <1>1, <1>3, <1>4

LEMMA CommittedStep ==
  ASSUME TurnInv, NEW x \in Places, Committed(x)
  PROVE  PlaceMoves(x)
<1>1. PICK j : j \in Outcome(x, "committing", {"ok"})
  BY DEF Committed
<1>2. /\ task[x] # Idle /\ task[x] \in KnownTurns /\ j \in jobs /\ j.place = x
      /\ j.step = "done" /\ j.result = "ok" /\ j.request = task[x].request
  BY <1>1, OutcomeFacts
<1>3. OnRecord(SessionOf[x], task[x].request)
  BY <1>2 DEF TurnInv, JobRight
<1>4. PICK t : t = [task[x] EXCEPT !.stage = "recalling"]
  OBVIOUS
<1>5. task' = [task EXCEPT ![x] = t] /\ live' = live /\ registry' = registry /\ Collect(x)
  BY <1>4 DEF Committed, TurnInv, Typed, TaskTyped
<1>6. t \in KnownTurns /\ t.stage = "recalling" /\ t.request = task[x].request
  BY <1>2, <1>4 DEF KnownTurns, Stages
<1>7. Turning(x, live[x], registry[x], t)
  BY <1>5, <1>6, PlaceFacts DEF Turning
<1>8. TurnSound(x, live[x], registry[x], t)
  BY <1>2, <1>3, <1>6, BusyFacts DEF TurnSound
<1>9. ThreadsSound(x, t)
  BY <1>5, EndedAlone
<1> QED
  BY <1>7, <1>8, <1>9 DEF PlaceMoves

\* A cancelled turn leaves its thread behind under the cancellation's number.
LEMMA CancelStep ==
  ASSUME TurnInv, NEW x \in Places, Cancel(x)
  PROVE  PlaceMoves(x)
<1>1. task[x] # Idle /\ Ended(x) /\ registry' = registry
  BY DEF Cancel
<1>2. ThreadsSound(x, Idle)
  <2>1. CASE Collect(x)
    BY <2>1, EndedAlone
  <2>2. CASE jobs' = (jobs \ OwnJobs(x)) \cup
                       {[j EXCEPT !.abandoned = spent.cancels + 1] : j \in OwnJobs(x)}
    <3>1. PICK n : n = spent.cancels + 1
      OBVIOUS
    <3>2. n \in 0..MaxCancels /\ n # 0
      <4>1. spent.cancels \in 0..MaxCancels
        BY DEF TurnInv, Typed, SpentTyped
      <4>2. spent.cancels < MaxCancels
        BY DEF Cancel
      <4> QED
        BY <3>1, <4>1, <4>2, BoundsAssumption
    <3>3. ASSUME NEW j \in OwnJobs(x), NEW k, k = [j EXCEPT !.abandoned = n]
          PROVE  k \in KnownThreads /\ JobHeld(k) /\ JobRight(k) /\ k.place = x /\ k.abandoned # 0
      <4>1. j \in KnownThreads /\ j.place = x /\ JobHeld(j) /\ JobRight(j)
        BY <3>3 DEF OwnJobs, TurnInv, Typed, JobsTyped
      <4>2. /\ k \in KnownThreads /\ k.place = x /\ k.abandoned # 0
            /\ k.step = j.step /\ k.result = j.result /\ k.before = j.before
            /\ k.version = j.version /\ k.request = j.request /\ k.event = j.event
        BY <3>2, <3>3, <4>1 DEF KnownThreads
      <4> QED
        BY <4>1, <4>2 DEF JobHeld, JobRight
    <3>4. ASSUME NEW k \in jobs' PROVE
            /\ k \in jobs \/ (k \in KnownThreads /\ JobHeld(k) /\ JobRight(k) /\ k.place = x)
            /\ k.place = x => k.abandoned # 0
      <4>1. CASE k \in jobs \ OwnJobs(x)
        BY <4>1 DEF OwnJobs
      <4>2. CASE \E j \in OwnJobs(x) : k = [j EXCEPT !.abandoned = n]
        BY <3>3, <4>2
      <4> QED
        BY <2>2, <3>1, <4>1, <4>2
    <3> QED
      BY <3>4 DEF ThreadsSound
  <2> QED
    BY <2>1, <2>2 DEF Cancel
<1>3. CASE /\ task[x].stage \in {"previewing", "previewing again", "committing"}
           /\ live' = [live EXCEPT ![x] = task[x].checkpoint]
  <2>1. task[x].checkpoint \in Known /\ task[x].checkpoint # NoState
    BY <1>1, <1>3, TurnFields DEF TurnInv, Typed, PlaceHeld
  <2> QED
    BY <1>1, <1>2, <1>3, <2>1, EndStep
<1>4. CASE live' = live
  BY <1>1, <1>2, <1>4, EndQuietly
<1> QED
  BY <1>3, <1>4 DEF Cancel, SetLive

-----------------------------------------------------------------------------
(* What the process remembers of its operations, and what clients were told. *)

LEMMA MemoParts ==
  ASSUME MemoTyped, NEW x \in Places, NEW op \in Operations
  PROVE  /\ [memo EXCEPT ![x][op] = NoMemo] \in [Places -> [Operations -> Memos]]
         /\ Forgotten(x) \in [Places -> [Operations -> Memos]]
         /\ \A r \in Requests :
              [memo EXCEPT ![x][op].request = r] \in [Places -> [Operations -> Memos]]
         /\ \A answer \in Answers :
              [memo EXCEPT ![x][op].answer = answer] \in [Places -> [Operations -> Memos]]
         /\ [memo EXCEPT ![x][op].acted = "yes"] \in [Places -> [Operations -> Memos]]
<1>1. NoMemo \in Memos
  BY NoAnswerTyped DEF NoMemo, Memos
<1>2. memo \in [Places -> [Operations -> Memos]] /\ memo[x] \in [Operations -> Memos]
      /\ memo[x][op] \in Memos
  BY DEF MemoTyped
<1>3. ASSUME NEW m \in Memos
      PROVE  [memo EXCEPT ![x][op] = m] \in [Places -> [Operations -> Memos]]
  BY <1>2, <1>3
<1>4. ASSUME NEW r \in Requests
      PROVE  [memo EXCEPT ![x][op].request = r] \in [Places -> [Operations -> Memos]]
  <2>1. [memo[x][op] EXCEPT !.request = r] \in Memos
    BY <1>2 DEF Memos
  <2> QED
    BY <1>2, <2>1
<1>5. ASSUME NEW answer \in Answers
      PROVE  [memo EXCEPT ![x][op].answer = answer] \in [Places -> [Operations -> Memos]]
  <2>1. [memo[x][op] EXCEPT !.answer = answer] \in Memos
    BY <1>2 DEF Memos
  <2> QED
    BY <1>2, <2>1
<1>6. [memo EXCEPT ![x][op].acted = "yes"] \in [Places -> [Operations -> Memos]]
  <2>1. [memo[x][op] EXCEPT !.acted = "yes"] \in Memos
    BY <1>2 DEF Memos
  <2> QED
    BY <1>2, <2>1
<1>7. Forgotten(x) \in [Places -> [Operations -> Memos]]
  BY <1>1, <1>2 DEF Forgotten
<1> QED
  BY <1>1, <1>3, <1>4, <1>5, <1>6, <1>7

\* An answer that is on record is remembered and told.
LEMMA RespondSound ==
  ASSUME TurnInv, NEW x \in Places, task[x] # Idle, NEW answer \in Answers,
         OnRecord(SessionOf[x], task[x].request), Respond(x, answer)
  PROVE  /\ MemoTyped'
         /\ \A a \in told' : a \in Tellings /\ (a \in told \/ OnRecord(a.session, a.request))
<1>1. task[x].request \in Requests /\ task[x].request.op \in Operations
  BY BusyFacts, RequestFields
<1>2. MemoTyped'
  <2>1. memo' = [memo EXCEPT ![x][task[x].request.op].answer = answer]
    BY DEF Respond
  <2>2. MemoTyped
    BY DEF TurnInv, Typed
  <2> QED
    BY <1>1, <2>1, <2>2, MemoParts DEF MemoTyped
<1>3. ASSUME NEW a \in told'
      PROVE  a \in Tellings /\ (a \in told \/ OnRecord(a.session, a.request))
  <2>1. CASE a \in told
    BY <2>1 DEF TurnInv, Typed, HistoryTyped
  <2>2. CASE a = [session |-> SessionOf[x], request |-> task[x].request, answer |-> answer]
    BY <1>1, <2>2, PlacesAssumption DEF Tellings
  <2> QED
    BY <2>1, <2>2 DEF Respond
<1> QED
  BY <1>2, <1>3

\* The same of every step.
LEMMA MemoSteps ==
  ASSUME TurnInv, [Next]_vars
  PROVE  /\ MemoTyped'
         /\ \A a \in told' : a \in Tellings /\ (a \in told \/ OnRecord(a.session, a.request))
<1>1. /\ MemoTyped /\ told \subseteq Tellings
  BY DEF TurnInv, Typed, HistoryTyped
<1>2. CASE memo' = memo /\ told' = told
  BY <1>1, <1>2 DEF MemoTyped
<1>3. ASSUME NEW x \in Places, Teardown(x), told' = told
      PROVE  /\ MemoTyped'
             /\ \A a \in told' : a \in Tellings /\ (a \in told \/ OnRecord(a.session, a.request))
  <2>1. memo' = memo \/ memo' = Forgotten(x)
    BY <1>3 DEF Teardown
  <2>2. Forgotten(x) \in [Places -> [Operations -> Memos]]
    BY <1>1, NoAnswerTyped DEF Forgotten, MemoTyped, NoMemo, Memos
  <2> QED
    BY <1>1, <1>3, <2>1, <2>2 DEF MemoTyped
<1>4. ASSUME NEW x \in Places, NEW r \in Requests, Submit(x, r)
      PROVE  MemoTyped' /\ told' = told
  <2>1. memo' = [memo EXCEPT ![x][r.op].request = r] /\ told' = told
    BY <1>4 DEF Submit
  <2> QED
    BY <1>1, <2>1, RequestFields, MemoParts DEF MemoTyped
<1>5. ASSUME NEW x \in Places, TurnStep(x)
      PROVE  /\ MemoTyped'
             /\ \A a \in told' : a \in Tellings /\ (a \in told \/ OnRecord(a.session, a.request))
  <2>1. CASE Prepared(x) \/ Process(x) \/ PreviewFail(x) \/ Committed(x) \/ CommitFailed(x)
    BY <1>2, <2>1 DEF Prepared, Process, PreviewFail, Committed, CommitFailed
  <2>2. CASE Replayed(x)
    <3>1. PICK j \in Outcome(x, "preparing", {"existing"}) :
            (memo' = memo /\ told' = told) \/ Respond(x, j.recorded)
      BY <2>2 DEF Replayed
    <3>2. task[x] # Idle /\ j \in jobs /\ j \in KnownThreads /\ j.place = x /\ j.step = "done"
          /\ j.result = "existing" /\ j.request = task[x].request
      BY OutcomeFacts
    <3>3. j.recorded \in Answers
      BY <3>2, ThreadFields
    <3>4. OnRecord(SessionOf[x], task[x].request)
      BY <3>2 DEF TurnInv, JobRight
    <3>5. Respond(x, j.recorded) => /\ MemoTyped'
                                    /\ \A a \in told' : /\ a \in Tellings
                                                        /\ a \in told \/ OnRecord(a.session, a.request)
      BY <3>2, <3>3, <3>4, RespondSound
    <3> QED
      BY <1>2, <3>1, <3>5
  <2>3. CASE Unprepared(x)
    <3>1. task[x] # Idle
      BY <2>3, OutcomeFacts DEF Unprepared
    <3>2. task[x].request.op \in Operations
      BY <3>1, BusyFacts, RequestFields
    <3>3. /\ memo' = [memo EXCEPT ![x][task[x].request.op] = NoMemo] \/ memo' = memo
          /\ told' = told
      BY <2>3 DEF Unprepared
    <3>4. [memo EXCEPT ![x][task[x].request.op] = NoMemo] \in [Places -> [Operations -> Memos]]
      BY <1>1, <3>2, MemoParts
    <3> QED
      BY <1>1, <3>3, <3>4 DEF MemoTyped
  <2>4. CASE Discard(x)
    BY <1>3, <2>4 DEF Discard
  <2>5. CASE Preview(x)
    <3>1. task[x] # Idle
      BY <2>5 DEF Preview, Idle
    <3>2. task[x].request.op \in Operations
      BY <3>1, BusyFacts, RequestFields
    <3>3. memo' = [memo EXCEPT ![x][task[x].request.op].acted = "yes"] /\ told' = told
      BY <2>5 DEF Preview, Acted
    <3> QED
      BY <1>1, <3>2, <3>3, MemoParts DEF MemoTyped
  <2>6. CASE PreviewAgain(x) \/ Recalled(x)
    <3>1. /\ task[x].stage \in {"previewing again", "recalling"} /\ Respond(x, task[x].answer)
      BY <2>6 DEF PreviewAgain, Recalled
    <3>2. task[x] # Idle
      <4>1. Idle.stage = "idle"
        BY DEF Idle
      <4> QED
        BY <3>1, <4>1
    <3>3. task[x].answer \in Answers /\ OnRecord(SessionOf[x], task[x].request)
      BY <3>1, <3>2, TurnFields DEF TurnInv, Typed, TaskRight
    <3> QED
      BY <3>1, <3>2, <3>3, RespondSound
  <2> QED
    BY <1>5, <2>1, <2>2, <2>3, <2>4, <2>5, <2>6 DEF TurnStep
<1>6. ASSUME NEW x \in Places, Create(x) \/ Resume(x) \/ Cancel(x)
      PROVE  memo' = memo /\ told' = told
  BY <1>6 DEF Create, Resume, Cancel
<1>7. ASSUME NEW p \in Processes, Crash(p)
      PROVE  MemoTyped' /\ told' = told
  <2>1. /\ memo' = [x \in Places |-> IF x \in {y \in Places : ProcessOf[y] = p}
                                     THEN [op \in Operations |-> NoMemo] ELSE memo[x]]
        /\ told' = told
    BY <1>7 DEF Crash
  <2>2. NoMemo \in Memos
    BY NoAnswerTyped DEF NoMemo, Memos
  <2> QED
    BY <1>1, <2>1, <2>2 DEF MemoTyped
<1>8. CASE UNCHANGED vars \/ Purge \/ Erase
  BY <1>2, <1>8 DEF vars, Purge, Erase
<1>9. ASSUME NEW j \in jobs, JobStep(j) \/ DatabaseFault(j)
      PROVE  memo' = memo /\ told' = told
  BY <1>9, ThreadStep
<1>10. ASSUME NEW x \in Places, Close(x)
       PROVE  /\ MemoTyped'
              /\ \A a \in told' : a \in Tellings /\ (a \in told \/ OnRecord(a.session, a.request))
  BY <1>3, <1>10 DEF Close
<1> QED
  BY <1>1, <1>2, <1>4, <1>5, <1>6, <1>7, <1>8, <1>9, <1>10 DEF Next

-----------------------------------------------------------------------------
(* Every step keeps TurnInv. *)

\* A crash leaves a process's places empty and the others as they are.
LEMMA CrashStep ==
  ASSUME TurnInv, NEW p \in Processes, Crash(p)
  PROVE  PlacesInv'
<1> DEFINE down == {x \in Places : ProcessOf[x] = p}
<1>1. /\ live' = [x \in Places |-> IF x \in down THEN NoState ELSE live[x]]
      /\ registry' = [x \in Places |-> IF x \in down THEN "absent" ELSE registry[x]]
      /\ task' = [x \in Places |-> IF x \in down THEN Idle ELSE task[x]]
      /\ jobs' = {j \in jobs : j.place \notin down} /\ log' = log
  BY DEF Crash
<1> HIDE DEF down
<1>2. LiveTyped' /\ RegistryTyped' /\ TaskTyped' /\ JobsTyped'
  BY <1>1 DEF TurnInv, Typed, LiveTyped, RegistryTyped, TaskTyped, JobsTyped, Known
<1>3. ASSUME NEW j \in jobs' PROVE JobHeld(j)' /\ JobRight(j)' /\ JobServes(j)'
  <2>1. j \in jobs /\ j.place \in Places /\ j.place \notin down
    BY <1>1, ThreadFields DEF TurnInv, Typed, JobsTyped
  <2>2. JobHeld(j) /\ JobRight(j) /\ JobServes(j)
    BY <2>1 DEF TurnInv
  <2>3. task'[j.place] = task[j.place]
    BY <1>1, <2>1
  <2> QED
    BY <1>1, <2>2, <2>3 DEF JobHeld, JobRight, JobServes, Cleared, Recorded, OnRecord
<1>4. ASSUME NEW y \in Places PROVE PlaceHeld(y)' /\ TaskRight(y)'
  <2>1. CASE y \in down
    BY <1>1, <2>1 DEF PlaceHeld, TaskRight
  <2>2. CASE y \notin down
    <3>1. live'[y] = live[y] /\ registry'[y] = registry[y] /\ task'[y] = task[y]
      BY <1>1, <2>2
    <3>2. PlaceHeld(y) /\ TaskRight(y)
      BY DEF TurnInv
    <3> QED
      BY <1>1, <3>1, <3>2 DEF PlaceHeld, TaskRight, Cleared, Recorded, OnRecord
  <2> QED
    BY <2>1, <2>2
<1> QED
  BY <1>2, <1>3, <1>4 DEF PlacesInv

\* A thread's step moves its place's live state only.
LEMMA ThreadPlaceStep ==
  ASSUME TurnInv, [Next]_vars, NEW j \in jobs, JobStep(j) \/ DatabaseFault(j)
  PROVE  PlacesInv'
<1>1. PICK k : Continues(j, k) /\ JobRight(k)' /\ jobs' \in BecomesAt(k, j)
               /\ live' \in Rewritten(j.place)
  BY ThreadStep
<1>2. UNCHANGED <<registry, memo, task, born, told>>
  BY ThreadStep
<1>3. j \in KnownThreads /\ j.place \in Places
  BY ThreadFields DEF TurnInv, Typed, JobsTyped
<1>4. /\ LiveTyped'
      /\ \A y \in Places : live'[y] = live[y] \/ live'[y] # NoState
  <2>1. CASE live' = live
    BY <2>1 DEF TurnInv, Typed, LiveTyped
  <2>2. ASSUME NEW st \in Real, live' = [live EXCEPT ![j.place] = st]
        PROVE  /\ LiveTyped'
               /\ \A y \in Places : live'[y] = live[y] \/ live'[y] # NoState
    BY <1>3, <2>2, KnownIsState DEF TurnInv, Typed, LiveTyped, Known
  <2> QED
    BY <1>1, <2>1, <2>2 DEF Rewritten
<1>5. RegistryTyped' /\ TaskTyped'
  BY <1>2 DEF TurnInv, Typed, RegistryTyped, TaskTyped
<1>6. ASSUME NEW m \in jobs'
      PROVE  m \in KnownThreads /\ JobHeld(m)' /\ JobRight(m)' /\ JobServes(m)'
  <2>1. CASE m \in jobs
    <3>1. m \in KnownThreads /\ JobHeld(m) /\ JobRight(m) /\ JobServes(m)
      BY <2>1 DEF TurnInv, Typed, JobsTyped
    <3>2. JobRight(m)'
      BY <3>1, JobKept DEF TurnInv
    <3> QED
      BY <1>2, <3>1, <3>2 DEF JobHeld, JobServes
  <2>2. CASE m = k
    <3>1. k \in KnownThreads /\ JobHeld(k) /\ JobServes(k) /\ JobRight(k)'
      BY <1>1 DEF Continues, TurnInv, JobServes
    <3> QED
      BY <1>2, <2>2, <3>1 DEF JobHeld, JobServes
  <2> QED
    BY <1>1, <2>1, <2>2 DEF BecomesAt
<1>7. ASSUME NEW y \in Places PROVE PlaceHeld(y)' /\ TaskRight(y)'
  <2>1. PlaceHeld(y) /\ TaskRight(y)
    BY DEF TurnInv
  <2>2. PlaceHeld(y)'
    BY <1>2, <1>4, <2>1 DEF PlaceHeld
  <2>3. TaskRight(y)'
    <3>1. CASE task[y] = Idle
      BY <1>2, <3>1 DEF TaskRight
    <3>2. CASE task[y] # Idle
      <4>1. PICK u \in KnownTurns : u = task[y]
        BY <3>2, PlaceFacts
      <4>2. /\ Cleared(u.version, u.request.op) => Cleared(u.version, u.request.op)'
            /\ OnRecord(SessionOf[y], u.request) => OnRecord(SessionOf[y], u.request)'
        BY TurnKept DEF TurnInv
      <4> QED
        BY <1>2, <2>1, <4>1, <4>2 DEF TaskRight
    <3> QED
      BY <3>1, <3>2
  <2> QED
    BY <2>2, <2>3
<1> QED
  BY <1>4, <1>5, <1>6, <1>7 DEF PlacesInv, JobsTyped

LEMMA PlacesKept ==
  ASSUME TurnInv, [Next]_vars
  PROVE  PlacesInv'
<1>1. ASSUME NEW x \in Places, NEW r \in Requests, Submit(x, r) PROVE PlaceMoves(x)
  BY <1>1, SubmitStep
<1>2. ASSUME NEW x \in Places, Create(x) \/ Resume(x) \/ Close(x) PROVE PlaceMoves(x)
  BY <1>2, CreateStep, ResumeStep, CloseStep
<1>3. ASSUME NEW x \in Places, TurnStep(x) \/ Cancel(x) PROVE PlaceMoves(x)
  BY <1>3, PreparedStep, ReplayedStep, UnpreparedStep, DiscardStep, ProcessStep, PreviewStep,
     EndingSteps, CommittedStep, CancelStep DEF TurnStep
<1>4. CASE UNCHANGED <<log, live, registry, memo, task, jobs, born, told, spent>>
  <2>1. LiveTyped' /\ RegistryTyped' /\ TaskTyped' /\ JobsTyped'
    BY <1>4 DEF TurnInv, Typed, LiveTyped, RegistryTyped, TaskTyped, JobsTyped
  <2>2. ASSUME NEW j \in jobs PROVE JobHeld(j)' /\ JobRight(j)' /\ JobServes(j)'
    <3>1. JobHeld(j) /\ JobRight(j) /\ JobServes(j)
      BY DEF TurnInv
    <3> QED
      BY <1>4, <3>1 DEF JobHeld, JobRight, JobServes, Cleared, Recorded, OnRecord
  <2>3. ASSUME NEW y \in Places PROVE PlaceHeld(y)' /\ TaskRight(y)'
    <3>1. PlaceHeld(y) /\ TaskRight(y)
      BY DEF TurnInv
    <3> QED
      BY <1>4, <3>1 DEF PlaceHeld, TaskRight, Cleared, Recorded, OnRecord
  <2> QED
    BY <1>4, <2>1, <2>2, <2>3 DEF PlacesInv
<1>5. CASE Purge \/ Erase \/ UNCHANGED vars
  BY <1>4, <1>5 DEF Purge, Erase, vars
<1> QED
  BY <1>1, <1>2, <1>3, <1>5, PlaceStep, CrashStep, ThreadPlaceStep DEF Next

\* Budgets and births.
LEMMA BudgetKept ==
  ASSUME TurnInv, [Next]_vars
  PROVE  SpentTyped' /\ born' \subseteq Sessions
<1>1. SpentTyped /\ born \subseteq Sessions
  BY DEF TurnInv, Typed, HistoryTyped
<1>2. CASE spent' = spent /\ born' = born
  BY <1>1, <1>2 DEF SpentTyped
<1>3. ASSUME NEW x \in Places, Create(x)
      PROVE  spent' = spent /\ born' \subseteq Sessions
  BY <1>1, <1>3, PlacesAssumption DEF Create
<1>4. ASSUME NEW x \in Places, Resume(x) \/ Close(x) \/ (\E r \in Requests : Submit(x, r)) \/ TurnStep(x)
      PROVE  spent' = spent /\ born' = born
  BY <1>4 DEF Resume, Close, Submit, TurnStep, Prepared, Replayed, Unprepared, Discard, Process,
              Preview, PreviewAgain, PreviewFail, Committed, CommitFailed, Recalled
<1>5. ASSUME
           \/ /\ spent.faults < MaxFaults
              /\ spent' = [spent EXCEPT !.faults = @ + 1]
           \/ /\ spent.cancels < MaxCancels
              /\ spent' = [spent EXCEPT !.cancels = @ + 1]
           \/ /\ spent.crashes < MaxCrashes
              /\ spent' = [spent EXCEPT !.crashes = @ + 1]
      PROVE  SpentTyped'
  BY <1>1, <1>5, BoundsAssumption DEF SpentTyped
<1>6. ASSUME NEW j \in jobs, JobStep(j)
      PROVE  spent' = spent /\ born' = born
  BY <1>6 DEF JobStep, PrepareExport, PrepareLoad, CommitBuild, CommitAppend, CommitReload, Unmoved
<1>7. CASE Purge \/ Erase \/ UNCHANGED vars
  BY <1>2, <1>7 DEF Purge, Erase, vars
<1>8. ASSUME NEW j \in jobs, DatabaseFault(j)
      PROVE  SpentTyped' /\ born' \subseteq Sessions
  <2>1. /\ spent.faults < MaxFaults /\ spent' = [spent EXCEPT !.faults = @ + 1]
        /\ born' = born
    BY <1>8 DEF DatabaseFault, Unmoved
  <2> QED
    BY <1>1, <1>5, <2>1
<1>9. ASSUME NEW x \in Places, Cancel(x)
      PROVE  SpentTyped' /\ born' \subseteq Sessions
  <2>1. /\ spent.cancels < MaxCancels /\ spent' = [spent EXCEPT !.cancels = @ + 1]
        /\ born' = born
    BY <1>9 DEF Cancel
  <2> QED
    BY <1>1, <1>5, <2>1
<1>10. ASSUME NEW p \in Processes, Crash(p)
       PROVE  SpentTyped' /\ born' \subseteq Sessions
  <2>1. /\ spent.crashes < MaxCrashes /\ spent' = [spent EXCEPT !.crashes = @ + 1]
        /\ born' = born
    BY <1>10 DEF Crash
  <2> QED
    BY <1>1, <1>5, <2>1
<1> QED
  BY <1>1, <1>2, <1>3, <1>4, <1>6, <1>7, <1>8, <1>9, <1>10 DEF Next, SpentTyped

LEMMA ToldKept ==
  ASSUME TurnInv, [Next]_vars
  PROVE  ToldOnRecord'
<1> SUFFICES ASSUME NEW a \in told'
             PROVE  OnRecord(a.session, a.request)'
  BY DEF ToldOnRecord, OnRecord
<1>1. OnRecord(a.session, a.request)
  BY MemoSteps DEF TurnInv, ToldOnRecord, OnRecord
<1>2. LogTyped /\ LogTyped' /\ Len(log') \in Nat
  BY StreamGrows DEF TurnInv, Typed, LogTyped
<1>3. PICK s, r : s = a.session /\ r = a.request
  OBVIOUS
<1>4. OnRecord(s, r)'
  BY <1>1, <1>2, <1>3, StreamGrows, RecordKept DEF TurnInv
<1> QED
  BY <1>3, <1>4

LEMMA TurnInvInit == Init => TurnInv
<1> SUFFICES ASSUME Init PROVE TurnInv
  OBVIOUS
<1>1. Typed
  <2>1. NoMemo \in Memos
    BY NoAnswerTyped DEF NoMemo, Memos
  <2> QED
    BY <2>1, BoundsAssumption DEF Init, Typed, LogTyped, LiveTyped, RegistryTyped, MemoTyped,
       TaskTyped, JobsTyped, HistoryTyped, SpentTyped, Known
<1>2. StreamTurns
  <2>1. log = <<>> /\ <<>> \in Seq(Events)
    BY DEF Init
  <2>2. \A s : TurnsOf(<<>>, s) = <<>>
    BY TurnsOfNone
  <2>3. \A s \in Sessions : TurnsOf(log, s) \in Seq(Events)
    BY <2>1, <2>2, Zenon
  <2>4. \A i \in 1..Len(log) : FALSE
    BY <2>1
  <2> QED
    BY <2>3, <2>4, Zenon DEF StreamTurns
<1>3. OperationOnce /\ Len(log) =< MaxEvents /\ ToldOnRecord
  BY BoundsAssumption DEF Init, OperationOnce, ToldOnRecord
<1>4. \A x \in Places : PlaceHeld(x) /\ TaskRight(x)
  BY DEF Init, PlaceHeld, TaskRight
<1> QED
  BY <1>1, <1>2, <1>3, <1>4 DEF TurnInv, Init

LEMMA TurnInvStep == TurnInv /\ [Next]_vars => TurnInv'
<1> SUFFICES ASSUME TurnInv, [Next]_vars PROVE TurnInv'
  OBVIOUS
<1>1. PlacesInv'
  BY PlacesKept
<1>2. LogTyped'
  BY StreamGrows DEF TurnInv
<1>3. MemoTyped' /\ HistoryTyped' /\ SpentTyped'
  BY MemoSteps, BudgetKept DEF HistoryTyped
<1>4. StreamTurns' /\ OperationOnce' /\ (Len(log) =< MaxEvents)' /\ ToldOnRecord'
  BY StreamStep, ToldKept
<1> QED
  BY <1>1, <1>2, <1>3, <1>4 DEF TurnInv, Typed, PlacesInv

LEMMA TurnInvHolds == Spec => []TurnInv
  BY TurnInvInit, TurnInvStep, PTL DEF Spec

\* Every variable keeps its type, for any places, requests and bounds.
THEOREM TypeCorrect == Spec => []TypeOK
<1>1. TurnInv => TypeOK
  BY TypedIsTypeOK DEF TurnInv
<1> QED
  BY <1>1, TurnInvHolds, PTL

\* Retries, races between places, abandoned threads, crashes and appends whose
\* acknowledgement is lost never record an operation twice: process_turn and
\* the journal's prepare_turn and commit_turn, for any number of processes.
THEOREM OperationOnceHolds == Spec => []OperationOnce
<1>1. TurnInv => OperationOnce
  BY DEF TurnInv
<1> QED
  BY <1>1, TurnInvHolds, PTL

\* No client is given an answer for a turn that is not on record, and no stream
\* outgrows what a load accepts.
THEOREM ToldOnRecordHolds == Spec => [](ToldOnRecord /\ Len(log) =< MaxEvents)
<1>1. TurnInv => ToldOnRecord /\ Len(log) =< MaxEvents
  BY DEF TurnInv
<1> QED
  BY <1>1, TurnInvHolds, PTL

-----------------------------------------------------------------------------
(***************************************************************************)
(* The states of a session along its stream.                               *)
(***************************************************************************)
LEMMA EventFields ==
  ASSUME NEW e \in Events
  PROVE  /\ e.session \in Sessions /\ e.request \in Requests /\ e.digest \in Texts
         /\ e.marks \in SUBSET {"abused", "stopped"} /\ e.result.count \in Nat
BY DEF Events, Answers

\* What a session's first turns were does not depend on a turn after them.
LEMMA BeforeKept ==
  ASSUME NEW turns \in Seq(Events), NEW e \in Events, NEW i \in 1..(Len(turns) + 1)
  PROVE  Before(Append(turns, e), i) = Before(turns, i)
<1>1. CASE i = 1
  BY <1>1 DEF Before
<1>2. CASE i # 1
  <2>1. SubSeq(Append(turns, e), 1, i - 1) = SubSeq(turns, 1, i - 1)
    <3> HIDE DEF Events
    <3>1. i - 1 \in 1..Len(turns)
      BY <1>2
    <3>2. SubSeq(Append(turns, e), 1, i - 1) = [k \in 1..(i - 1) |-> Append(turns, e)[k]]
      BY <3>1
    <3>3. SubSeq(turns, 1, i - 1) = [k \in 1..(i - 1) |-> turns[k]]
      BY <3>1
    <3>4. \A k \in 1..(i - 1) : Append(turns, e)[k] = turns[k]
      BY <3>1
    <3> QED
      BY <3>2, <3>3, <3>4
  <2> QED
    BY <1>2, <2>1 DEF Before
<1> QED
  BY <1>1, <1>2

LEMMA HeadIsReplay ==
  ASSUME NEW turns \in Seq(Events)
  PROVE  /\ turns = <<>> => Before(turns, Len(turns) + 1) = Fresh
         /\ turns # <<>> => Before(turns, Len(turns) + 1) = Replay(turns)
<1>1. CASE turns = <<>>
  BY <1>1 DEF Before
<1>2. CASE turns # <<>>
  <2>1. Len(turns) \in Nat \ {0}
    BY <1>2, EmptySeq
  <2>2. SubSeq(turns, 1, (Len(turns) + 1) - 1) = turns
    <3> HIDE DEF Events
    <3>1. (Len(turns) + 1) - 1 = Len(turns)
      BY <2>1
    <3>2. SubSeq(turns, 1, Len(turns)) = turns
      BY SubSeqFull
    <3> QED
      BY <3>1, <3>2
  <2>3. Len(turns) + 1 # 1
    BY <2>1
  <2>4. Before(turns, Len(turns) + 1) = Replay(SubSeq(turns, 1, (Len(turns) + 1) - 1))
    BY <2>3, Zenon DEF Before
  <2>5. Before(turns, Len(turns) + 1) = Replay(turns)
    BY <2>2, <2>4, Zenon
  <2> QED
    BY <1>2, <2>5
<1> QED
  BY <1>1, <1>2

\* The head of a readable session: its turn number, its digests and its marks.
LEMMA HeadFields ==
  ASSUME NEW turns \in Seq(Events), Replayable(turns), NEW st, st = Before(turns, Len(turns) + 1)
  PROVE  /\ st \in Real /\ st.count = Len(turns)
         /\ Len(st.digests) = Len(turns) /\ \A i \in 1..Len(turns) : st.digests[i] = turns[i].digest
         /\ turns # <<>> => st.marks = turns[Len(turns)].marks
<1>1. CASE turns = <<>>
  <2>1. st = Fresh
    BY <1>1, HeadIsReplay
  <2> QED
    BY <1>1, <2>1, KnownIsState DEF Fresh
<1>2. CASE turns # <<>>
  <2>1. st = Replay(turns) /\ st \in Real
    BY <1>2, HeadIsReplay, ReplayTyped
  <2>2. Len(turns) \in 1..Len(turns)
    BY <1>2, EmptySeq
  <2>3. st.count = Len(turns)
    BY <2>1, <2>2 DEF Replay, Replayable
  <2>4. st.digests = [i \in 1..Len(turns) |-> turns[i].digest]
    BY <2>1 DEF Replay
  <2>5. Len(st.digests) = Len(turns)
    <3>1. st.digests \in Seq(Texts) /\ DOMAIN st.digests = 1..Len(turns) /\ Len(turns) \in Nat
      BY <2>1, <2>2, <2>4 DEF Real
    <3> QED
      BY <3>1
  <2> QED
    BY <1>2, <2>1, <2>3, <2>4, <2>5 DEF Replay
<1> QED
  BY <1>1, <1>2

\* The states a session has been in are states.
LEMMA BeforeTyped ==
  ASSUME NEW turns \in Seq(Events), NEW i \in 1..(Len(turns) + 1)
  PROVE  Before(turns, i) \in Real
<1>1. CASE i = 1
  BY <1>1, KnownIsState DEF Before
<1>2. CASE i # 1
  <2>1. i - 1 \in 1..Len(turns)
    BY <1>2
  <2> DEFINE part == SubSeq(turns, 1, i - 1)
  <2>2. part \in Seq(Events) /\ part # <<>>
    <3> HIDE DEF Events
    <3>1. part \in Seq(Events) /\ Len(part) = i - 1
      BY <2>1
    <3> QED
      BY <2>1, <3>1, EmptySeq
  <2> HIDE DEF part
  <2>3. Replay(part) \in Real
    BY <2>2, ReplayTyped
  <2> QED
    BY <1>2, <2>3 DEF Before, part
<1> QED
  BY <1>1, <1>2

\* The event of a turn that starts from the head.
FollowsFrom(e, st) ==
  /\ e.digest = e.request.text
  /\ e.marks = Marked(st, e.request.text)
  /\ e.result = Answer(st, e.request.text)

\* It takes the session where the engine went, and the stream stays readable.
LEMMA TurnAdded ==
  ASSUME NEW turns \in Seq(Events), NEW e \in Events, Replayable(turns),
         NEW st, st = Before(turns, Len(turns) + 1), FollowsFrom(e, st), "stopped" \notin st.marks
  PROVE  /\ Replayable(Append(turns, e))
         /\ Before(Append(turns, e), Len(turns) + 2) = EngineTurn(st, e.request.text)
<1> DEFINE longer == Append(turns, e)
<1>1. /\ Len(turns) \in Nat /\ longer \in Seq(Events) /\ Len(longer) = Len(turns) + 1
      /\ longer[Len(turns) + 1] = e
      /\ \A i \in 1..Len(turns) : longer[i] = turns[i]
  <2> HIDE DEF Events
  <2> QED
    OBVIOUS
<1> HIDE DEF longer
<1>2. /\ st \in Real /\ st.count = Len(turns)
      /\ Len(st.digests) = Len(turns) /\ \A i \in 1..Len(turns) : st.digests[i] = turns[i].digest
      /\ turns # <<>> => st.marks = turns[Len(turns)].marks
  BY HeadFields
<1>3. e.result.count = Len(turns) + 1
  BY <1>2 DEF FollowsFrom, Answer
<1>4. Replayable(longer)
  <2> SUFFICES ASSUME NEW i \in 1..Len(longer)
               PROVE  /\ longer[i].result.count = i
                      /\ i > 1 => /\ "stopped" \notin longer[i-1].marks
                                  /\ "abused" \in longer[i-1].marks => "abused" \in longer[i].marks
    BY DEF Replayable
  <2>1. CASE i \in 1..Len(turns)
    <3>1. longer[i] = turns[i] /\ (i > 1 => longer[i - 1] = turns[i - 1])
      BY <1>1, <2>1
    <3> QED
      BY <2>1, <3>1 DEF Replayable
  <2>2. CASE i = Len(turns) + 1
    <3>1. longer[i].result.count = i
      BY <1>1, <1>3, <2>2
    <3>2. ASSUME i > 1
          PROVE  /\ "stopped" \notin longer[i-1].marks
                 /\ "abused" \in longer[i-1].marks => "abused" \in longer[i].marks
      <4>1. longer[i - 1] = turns[Len(turns)] /\ turns # <<>> /\ longer[i] = e
        BY <1>1, <2>2, <3>2
      <4>2. longer[i - 1].marks = st.marks
        BY <1>2, <4>1
      <4>3. st.marks \subseteq e.marks
        BY DEF FollowsFrom, Marked
      <4> QED
        BY <4>1, <4>2, <4>3
    <3> QED
      BY <3>1, <3>2
  <2> QED
    BY <1>1, <2>1, <2>2
<1>5. Replay(longer) = EngineTurn(st, e.request.text)
  <2>1. Replay(longer) = [count |-> e.result.count,
                          digests |-> [i \in 1..(Len(turns) + 1) |-> longer[i].digest],
                          marks |-> e.marks]
    BY <1>1 DEF Replay
  <2>2. EngineTurn(st, e.request.text) = [count |-> st.count + 1,
                          digests |-> Append(st.digests, e.request.text),
                          marks |-> Marked(st, e.request.text)]
    BY DEF EngineTurn
  <2>3. [i \in 1..(Len(turns) + 1) |-> longer[i].digest] = Append(st.digests, e.request.text)
    <3>1. st.digests \in Seq(Texts)
      BY <1>2 DEF Real
    <3>2. Append(st.digests, e.request.text)
            = [i \in 1..(Len(turns) + 1) |-> IF i = Len(turns) + 1 THEN e.request.text
                                             ELSE st.digests[i]]
      BY <1>1, <1>2, <3>1
    <3>3. \A i \in 1..(Len(turns) + 1) :
            longer[i].digest = IF i = Len(turns) + 1 THEN e.request.text ELSE st.digests[i]
      <4> SUFFICES ASSUME NEW i \in 1..(Len(turns) + 1)
                   PROVE  longer[i].digest = IF i = Len(turns) + 1 THEN e.request.text
                                             ELSE st.digests[i]
        OBVIOUS
      <4>1. CASE i = Len(turns) + 1
        BY <1>1, <4>1 DEF FollowsFrom
      <4>2. CASE i # Len(turns) + 1
        <5>1. i \in 1..Len(turns)
          BY <1>1, <4>2
        <5> QED
          BY <1>1, <1>2, <4>2, <5>1
      <4> QED
        BY <4>1, <4>2
    <3> QED
      BY <3>2, <3>3
  <2> QED
    BY <1>2, <1>3, <2>1, <2>2, <2>3 DEF FollowsFrom
<1>6. Before(longer, Len(turns) + 2) = Replay(longer)
  <2>1. longer # <<>> /\ Len(turns) + 2 = Len(longer) + 1
    BY <1>1
  <2> QED
    BY <1>1, <2>1, HeadIsReplay
<1> QED
  BY <1>4, <1>5, <1>6 DEF longer

-----------------------------------------------------------------------------
(* What holds of a place while only others act. *)

LEMMA TurnsTyped ==
  ASSUME TurnInv, NEW s \in Sessions
  PROVE  TurnsOf(log, s) \in Seq(Events) /\ Len(TurnsOf(log, s)) \in Nat
<1>1. TurnsOf(log, s) \in Seq(Events)
  BY DEF TurnInv, StreamTurns
<1> QED
  BY <1>1

\* The turns of a session stay, or grow by one event.
LEMMA TurnsGrow ==
  ASSUME TurnInv, [Next]_vars, NEW s \in Sessions
  PROVE  \/ TurnsOf(log', s) = TurnsOf(log, s)
         \/ \E e \in Events : TurnsOf(log', s) = Append(TurnsOf(log, s), e)
<1>1. CASE log' = log
  BY <1>1
<1>2. ASSUME NEW j \in jobs, j.step = "append", Appended(j)
      PROVE  \/ TurnsOf(log', s) = TurnsOf(log, s)
             \/ \E e \in Events : TurnsOf(log', s) = Append(TurnsOf(log, s), e)
  <2>1. j.event \in Events /\ log \in Seq(Events) /\ log' = Append(log, j.event)
    BY <1>2 DEF TurnInv, Typed, LogTyped, JobRight, Appended
  <2>2. TurnsOf(log', s) = IF j.event.session = s THEN Append(TurnsOf(log, s), j.event)
                           ELSE TurnsOf(log, s)
    BY <2>1, TurnsOfAppend
  <2> QED
    BY <2>1, <2>2
<1> QED
  BY <1>1, <1>2, StreamSteps

LEMMA SoFarKept ==
  ASSUME TurnInv, [Next]_vars, NEW s \in Sessions, NEW state, SoFar(s, state)
  PROVE  SoFar(s, state)'
<1>1. PICK turns, new : turns = TurnsOf(log, s) /\ new = TurnsOf(log', s)
  OBVIOUS
<1>2. turns \in Seq(Events) /\ Len(turns) \in Nat
  BY <1>1, TurnsTyped
<1>3. PICK i \in 1..(Len(turns) + 1) : state = Before(turns, i)
  BY <1>1 DEF SoFar
<1>4. CASE new = turns
  BY <1>1, <1>3, <1>4 DEF SoFar
<1>5. ASSUME NEW e \in Events, new = Append(turns, e)
      PROVE  SoFar(s, state)'
  <2>1. Len(new) = Len(turns) + 1
    <3> HIDE DEF Events
    <3> QED
      BY <1>2, <1>5
  <2>2. state = Before(new, i) /\ i \in 1..(Len(new) + 1)
    BY <1>2, <1>3, <1>5, <2>1, BeforeKept
  <2> QED
    BY <1>1, <2>2 DEF SoFar
<1> QED
  BY <1>1, <1>4, <1>5, TurnsGrow

LEMMA SyncedKept ==
  ASSUME TurnInv, [Next]_vars, NEW s \in Sessions, NEW state, NEW version \in Nat,
         Synced(s, state, version)
  PROVE  Synced(s, state, version)'
<1>1. SoFar(s, state)'
  BY SoFarKept DEF Synced
<1>2. LogTyped' /\ Len(log) =< Len(log') /\ (Len(log') = Len(log) => log' = log)
      /\ Len(log) \in Nat /\ Len(log') \in Nat
  BY StreamGrows DEF TurnInv, Typed, LogTyped
<1>3. version =< Len(log')
  BY <1>2 DEF Synced
<1>4. ASSUME Len(log') = version PROVE state = AtHead(s)'
  <2>1. log' = log /\ Len(log) = version
    BY <1>2, <1>4 DEF Synced
  <2> QED
    BY <2>1 DEF Synced, AtHead
<1> QED
  BY <1>1, <1>3, <1>4 DEF Synced

LEMMA PlaceLineKept ==
  ASSUME TurnInv, [Next]_vars, NEW x \in Places, NEW st, NEW g, NEW t \in {Idle} \cup KnownTurns,
         NEW J \in SUBSET KnownThreads, PlaceLine(x, st, g, t, J)
  PROVE  PlaceLine(x, st, g, t, J)'
<1>1. PICK s \in Sessions : s = SessionOf[x]
  BY PlacesAssumption
<1>2. StateLine(x, st, g, t, J)'
  <2>1. SoFar(s, st) => SoFar(s, st)'
    BY SoFarKept
  <2> QED
    BY <1>1, <2>1 DEF PlaceLine, StateLine, Ahead
<1>3. TurnLine(x, st, t)'
  <2>1. CASE t = Idle
    BY <2>1 DEF TurnLine
  <2>2. CASE t # Idle
    <3>1. PICK before, checkpoint, version : before = t.before /\ checkpoint = t.checkpoint
                                             /\ version = t.version
      OBVIOUS
    <3>2. version \in Nat
      BY <2>2, <3>1 DEF KnownTurns
    <3>3. /\ Synced(s, before, version) => Synced(s, before, version)'
          /\ SoFar(s, checkpoint) => SoFar(s, checkpoint)'
      BY <3>2, SyncedKept, SoFarKept
    <3> QED
      BY <1>1, <3>1, <3>3 DEF PlaceLine, TurnLine
  <2> QED
    BY <2>1, <2>2
<1>4. ASSUME NEW j \in J PROVE ThreadLine(x, st, t, j)'
  <2>1. PICK version : version = j.version
    OBVIOUS
  <2>2. version \in Nat
    BY <2>1, ThreadFields
  <2>3. Synced(s, st, version) => Synced(s, st, version)'
    BY <2>2, SyncedKept
  <2>4. ThreadLine(x, st, t, j)
    BY DEF PlaceLine
  <2> QED
    BY <1>1, <2>1, <2>3, <2>4 DEF ThreadLine
<1> QED
  BY <1>2, <1>3, <1>4 DEF PlaceLine

\* A step of one place, in which it stays in line.
LineMoves(x) ==
  /\ \E st, g, t, J : /\ st \in Known /\ g \in Registrations /\ t \in {Idle} \cup KnownTurns
                      /\ live' = [live EXCEPT ![x] = st]
                      /\ registry' = [registry EXCEPT ![x] = g]
                      /\ task' = [task EXCEPT ![x] = t]
                      /\ J \in SUBSET KnownThreads /\ JobsAt(x)' = J
                      /\ PlaceLine(x, st, g, t, J) \/ PlaceLine(x, st, g, t, J)'
  /\ \A j \in (jobs \ jobs') \cup (jobs' \ jobs) : j.place = x

LEMMA LineStep ==
  ASSUME TurnInv, PlacesLine, [Next]_vars, NEW x \in Places, LineMoves(x)
  PROVE  PlacesLine'
<1>1. PICK st, g, t, J :
        /\ st \in Known /\ g \in Registrations /\ t \in {Idle} \cup KnownTurns
        /\ live' = [live EXCEPT ![x] = st]
        /\ registry' = [registry EXCEPT ![x] = g]
        /\ task' = [task EXCEPT ![x] = t]
        /\ J \in SUBSET KnownThreads /\ JobsAt(x)' = J
        /\ PlaceLine(x, st, g, t, J) \/ PlaceLine(x, st, g, t, J)'
  BY DEF LineMoves
<1>2. PlaceLine(x, st, g, t, J)'
  BY <1>1, PlaceLineKept
<1>3. live \in [Places -> Known] /\ registry \in [Places -> Registrations]
      /\ task \in [Places -> {Idle} \cup KnownTurns] /\ jobs \subseteq KnownThreads
  BY DEF TurnInv, Typed, LiveTyped, RegistryTyped, TaskTyped, JobsTyped, Registrations
<1>4. ASSUME NEW y \in Places
      PROVE  PlaceLine(y, live[y], registry[y], task[y], JobsAt(y))'
  <2>1. CASE y = x
    <3>1. live'[y] = st /\ registry'[y] = g /\ task'[y] = t /\ JobsAt(y)' = J
      BY <1>1, <1>3, <2>1
    <3> QED
      BY <1>2, <2>1, <3>1
  <2>2. CASE y # x
    <3>1. PICK sty, gy, ty, Jy : /\ sty = live[y] /\ gy = registry[y] /\ ty = task[y]
                                 /\ Jy = JobsAt(y)
      OBVIOUS
    <3>2. JobsAt(y)' = JobsAt(y)
      BY <2>2 DEF LineMoves, JobsAt
    <3>3. live'[y] = sty /\ registry'[y] = gy /\ task'[y] = ty /\ JobsAt(y)' = Jy
      BY <1>1, <1>3, <2>2, <3>1, <3>2
    <3>4. ty \in {Idle} \cup KnownTurns /\ Jy \in SUBSET KnownThreads
      BY <1>3, <3>1 DEF JobsAt
    <3>5. PlaceLine(y, sty, gy, ty, Jy)
      BY <3>1 DEF PlacesLine
    <3>6. PlaceLine(y, sty, gy, ty, Jy)'
      BY <3>4, <3>5, PlaceLineKept
    <3> QED
      BY <3>3, <3>6
  <2> QED
    BY <2>1, <2>2
<1> QED
  BY <1>4 DEF PlacesLine

-----------------------------------------------------------------------------
(* The steps of a place, in line. *)

LEMMA InLine ==
  ASSUME TurnInv, PlacesLine, NoneAbandoned, NEW x \in Places
  PROVE  /\ PlaceLine(x, live[x], registry[x], task[x], JobsAt(x))
         /\ JobsAt(x) = OwnJobs(x) /\ JobsAt(x) \in SUBSET KnownThreads
         /\ \A j \in JobsAt(x) : Serves(j, task[x]) /\ j \in jobs /\ j.place = x
         /\ SessionOf[x] \in Sessions
<1>1. JobsAt(x) = OwnJobs(x)
  BY DEF NoneAbandoned, JobsAt, OwnJobs
<1>2. \A j \in JobsAt(x) : Serves(j, task[x]) /\ j \in jobs /\ j.place = x
  BY PlaceFacts DEF NoneAbandoned, JobsAt
<1>3. JobsAt(x) \in SUBSET KnownThreads
  BY DEF JobsAt, TurnInv, Typed, JobsTyped
<1> QED
  BY <1>1, <1>2, <1>3, PlacesAssumption DEF PlacesLine

\* A place that rests.
LEMMA RestLine ==
  ASSUME NEW x, NEW st, NEW g, \/ g = "absent" /\ st = NoState
                               \/ g # "absent" /\ SoFar(SessionOf[x], st)
  PROVE  PlaceLine(x, st, g, Idle, {})
BY DEF PlaceLine, StateLine, TurnLine, Ahead

\* Before the engine has run for a turn, and after its commit has been decided,
\* the live state is one the session really had.
LEMMA NotAhead ==
  ASSUME TurnInv, PlacesLine, NoneAbandoned, NEW x \in Places, registry[x] # "absent",
         \/ task[x] = Idle
         \/ task[x].stage \notin {"previewing", "committing"}
         \/ \E j \in JobsAt(x) : j.step = "done"
  PROVE  SoFar(SessionOf[x], live[x])
<1>1. /\ StateLine(x, live[x], registry[x], task[x], JobsAt(x))
      /\ \A j \in JobsAt(x) : ThreadLine(x, live[x], task[x], j) /\ Serves(j, task[x])
      /\ \A j, k \in JobsAt(x) : j = k
  BY InLine DEF PlaceLine
<1>2. ~ Ahead(task[x], JobsAt(x))
  <2>1. CASE task[x] = Idle
    BY <2>1 DEF Ahead
  <2>2. CASE task[x].stage \notin {"previewing", "committing"}
    <3>1. \A j \in JobsAt(x) : j.step \in {"export", "load", "done"}
      BY <1>1, <2>2 DEF ThreadLine, Serves
    <3> QED
      BY <2>2, <3>1 DEF Ahead
  <2>3. ASSUME NEW j \in JobsAt(x), j.step = "done"
        PROVE  ~ Ahead(task[x], JobsAt(x))
    <3>1. \A k \in JobsAt(x) : k.step = "done"
      BY <1>1, <2>3
    <3>2. task[x].stage # "previewing"
      BY <1>1 DEF Serves
    <3> QED
      BY <3>1, <3>2 DEF Ahead
  <2> QED
    BY <2>1, <2>2, <2>3
<1> QED
  BY <1>1, <1>2 DEF StateLine

\* A turn ends.
LEMMA EndLine ==
  ASSUME TurnInv, PlacesLine, NoneAbandoned, NEW x \in Places, Ended(x),
         \/ Collect(x)
         \/ jobs' = jobs /\ (task[x] = Idle \/ task[x].stage \notin {"preparing", "committing"}),
         NEW st \in Known, NEW g \in Registrations,
         live' = [live EXCEPT ![x] = st], registry' = [registry EXCEPT ![x] = g],
         \/ g = "absent" /\ st = NoState
         \/ g # "absent" /\ SoFar(SessionOf[x], st)
  PROVE  LineMoves(x)
<1>1. JobsAt(x)' = {} /\ \A j \in (jobs \ jobs') \cup (jobs' \ jobs) : j.place = x
  <2>1. CASE Collect(x)
    BY <2>1, InLine DEF Collect, JobsAt, OwnJobs
  <2>2. CASE jobs' = jobs /\ (task[x] = Idle \/ task[x].stage \notin {"preparing", "committing"})
    <3>1. JobsAt(x) = {}
      BY <2>2, InLine DEF Serves
    <3> QED
      BY <2>2, <3>1 DEF JobsAt
  <2> QED
    BY <2>1, <2>2
<1>2. PlaceLine(x, st, g, Idle, {})
  BY RestLine
<1>3. task' = [task EXCEPT ![x] = Idle]
  BY DEF Ended
<1> QED
  BY <1>1, <1>2, <1>3 DEF LineMoves

LEMMA EndQuietlyLine ==
  ASSUME TurnInv, PlacesLine, NoneAbandoned, NEW x \in Places, Ended(x), task[x] # Idle,
         \/ Collect(x) /\ (task[x].stage \notin {"previewing", "committing"}
                           \/ \E j \in JobsAt(x) : j.step = "done")
         \/ jobs' = jobs /\ task[x].stage \notin {"preparing", "committing", "previewing"},
         live' = live, registry' = registry
  PROVE  LineMoves(x)
<1>1. registry[x] # "absent"
  BY BusyFacts
<1>2. SoFar(SessionOf[x], live[x])
  BY <1>1, NotAhead
<1> QED
  BY <1>1, <1>2, PlaceFacts, EndLine

LEMMA CreateLine ==
  ASSUME TurnInv, PlacesLine, BornFirst, NoneAbandoned, NEW x \in Places, Create(x)
  PROVE  LineMoves(x)
<1>1. registry[x] = "absent"
  BY DEF Create, BornFirst
<1>2. task[x] = Idle
  BY <1>1, InLine DEF PlaceLine, StateLine
<1>3. SoFar(SessionOf[x], Fresh)
  <2>1. Len(TurnsOf(log, SessionOf[x])) \in Nat
    BY TurnsTyped, InLine
  <2>2. Fresh = Before(TurnsOf(log, SessionOf[x]), 1)
    BY DEF Before
  <2> QED
    BY <2>1, <2>2 DEF SoFar
<1>4. Ended(x) /\ jobs' = jobs
  BY <1>2, PlaceFacts DEF Create, Ended
<1> QED
  BY <1>2, <1>3, <1>4, KnownIsState, EndLine DEF Create, Known, Registrations

\* The durable state of a session that has one.
LEMMA ReplayInLine ==
  ASSUME TurnInv, NEW s \in Sessions, TurnsOf(log, s) # <<>>
  PROVE  /\ SoFar(s, Replay(TurnsOf(log, s))) /\ AtHead(s) = Replay(TurnsOf(log, s))
         /\ Replay(TurnsOf(log, s)) \in Real
<1>1. PICK turns : turns = TurnsOf(log, s)
  OBVIOUS
<1>2. turns \in Seq(Events) /\ Len(turns) \in Nat /\ turns # <<>>
  BY <1>1, TurnsTyped
<1>3. Before(turns, Len(turns) + 1) = Replay(turns) /\ Replay(turns) \in Real
  BY <1>2, HeadIsReplay, ReplayTyped
<1>4. Len(turns) + 1 \in 1..(Len(turns) + 1)
  BY <1>2
<1> QED
  BY <1>1, <1>3, <1>4 DEF SoFar, AtHead

LEMMA ResumeLine ==
  ASSUME TurnInv, PlacesLine, NoneAbandoned, NEW x \in Places, Resume(x)
  PROVE  LineMoves(x)
<1>1. /\ registry[x] = "absent" /\ TurnsOf(log, SessionOf[x]) # <<>>
      /\ jobs' = jobs /\ task' = task
  BY DEF Resume
<1>2. task[x] = Idle /\ live[x] = NoState
  BY <1>1, InLine DEF PlaceLine, StateLine
<1>3. Ended(x)
  BY <1>1, <1>2, PlaceFacts DEF Ended
<1>4. PICK st : st = Replay(TurnsOf(log, SessionOf[x]))
  OBVIOUS
<1>5. /\ live' = [live EXCEPT ![x] = st]
      /\ registry' = [registry EXCEPT ![x] = "recovered"]
  BY <1>2, <1>4 DEF Resume
<1>6. st \in Real /\ SoFar(SessionOf[x], st)
  BY <1>1, <1>4, InLine, ReplayInLine
<1> QED
  BY <1>1, <1>2, <1>3, <1>5, <1>6, EndLine DEF Known, Registrations

LEMMA TeardownLine ==
  ASSUME TurnInv, PlacesLine, NoneAbandoned, NEW x \in Places, Teardown(x), Ended(x),
         registry[x] # "absent", SoFar(SessionOf[x], live[x]),
         \/ Collect(x)
         \/ jobs' = jobs /\ (task[x] = Idle \/ task[x].stage \notin {"preparing", "committing"})
  PROVE  LineMoves(x)
<1>1. CASE /\ registry' = [registry EXCEPT ![x] = "absent"]
           /\ live' = [live EXCEPT ![x] = NoState]
  BY <1>1, EndLine DEF Known, Registrations
<1>2. CASE registry' = [registry EXCEPT ![x] = "closing"] /\ live' = live
  <2>1. live' = [live EXCEPT ![x] = live[x]] /\ live[x] \in Known
    BY <1>2, PlaceFacts
  <2> QED
    BY <1>2, <2>1, EndLine DEF Registrations
<1> QED
  BY <1>1, <1>2 DEF Teardown

LEMMA CloseLine ==
  ASSUME TurnInv, PlacesLine, NoneAbandoned, NEW x \in Places, Close(x)
  PROVE  LineMoves(x)
<1>1. /\ Teardown(x) /\ registry[x] # "absent" /\ task[x] = Idle
      /\ task' = task /\ jobs' = jobs
  BY DEF Close
<1>2. Ended(x)
  BY <1>1, PlaceFacts DEF Ended
<1> QED
  BY <1>1, <1>2, NotAhead, TeardownLine

LEMMA DiscardLine ==
  ASSUME TurnInv, PlacesLine, NoneAbandoned, NEW x \in Places, Discard(x)
  PROVE  LineMoves(x)
<1>1. /\ Teardown(x) /\ Ended(x) /\ Collect(x)
  BY DEF Discard
<1>2. PICK j \in Outcome(x, "preparing", {"conflict", "refused"})
                   \cup Outcome(x, "committing", {"conflict", "refused"}) : TRUE
  BY DEF Discard
<1>3. task[x] # Idle /\ j \in JobsAt(x) /\ j.step = "done"
  BY <1>2, OutcomeFacts DEF JobsAt
<1>4. registry[x] # "absent"
  BY <1>3, BusyFacts
<1> QED
  BY <1>1, <1>3, <1>4, NotAhead, TeardownLine

LEMMA SubmitLine ==
  ASSUME TurnInv, PlacesLine, NoneAbandoned, NEW x \in Places, NEW r \in Requests, Submit(x, r)
  PROVE  LineMoves(x)
<1> DEFINE t == [stage |-> "preparing", request |-> r, checkpoint |-> NoState,
                 before |-> NoState, version |-> 0, answer |-> NoAnswer]
           k == Job(x, "export", r)
<1>1. t \in KnownTurns /\ t.stage = "preparing"
  BY NoAnswerTyped DEF KnownTurns, Known, Stages
<1>2. k \in KnownThreads /\ k.step = "export" /\ k.place = x
  BY NoAnswerTyped, BoundsAssumption DEF Job, KnownThreads, Known, Steps, Results
<1>3. task[x] = Idle /\ task' = [task EXCEPT ![x] = t] /\ jobs' = jobs \cup {k}
      /\ live' = live /\ registry' = registry /\ registry[x] # "absent"
  BY DEF Submit, Admits
<1> HIDE DEF t, k
<1>4. JobsAt(x) = {}
  BY <1>3, InLine DEF Serves
<1>5. JobsAt(x)' = {k} /\ \A j \in (jobs \ jobs') \cup (jobs' \ jobs) : j.place = x
  BY <1>2, <1>3, <1>4 DEF JobsAt
<1>6. SoFar(SessionOf[x], live[x])
  BY <1>3, NotAhead
<1>7. PlaceLine(x, live[x], registry[x], t, {k})
  <2>1. StateLine(x, live[x], registry[x], t, {k})
    BY <1>1, <1>2, <1>3, <1>6 DEF StateLine, Ahead
  <2>2. TurnLine(x, live[x], t)
    BY <1>1 DEF TurnLine
  <2>3. ThreadLine(x, live[x], t, k)
    BY <1>1, <1>2 DEF ThreadLine
  <2> QED
    BY <2>1, <2>2, <2>3 DEF PlaceLine
<1> QED
  BY <1>1, <1>2, <1>3, <1>5, <1>7, PlaceFacts DEF LineMoves

\* A turn moves on with no thread, its live state being its session's.
LEMMA TurnMovesLine ==
  ASSUME TurnInv, PlacesLine, NoneAbandoned, NEW x \in Places,
         NEW t \in KnownTurns, t # Idle, t.stage # "previewing", task' = [task EXCEPT ![x] = t],
         live' = live, registry' = registry, registry[x] # "absent", Collect(x),
         SoFar(SessionOf[x], live[x]), TurnLine(x, live[x], t)
  PROVE  LineMoves(x)
<1>1. JobsAt(x)' = {} /\ \A j \in (jobs \ jobs') \cup (jobs' \ jobs) : j.place = x
  BY InLine DEF Collect, JobsAt, OwnJobs
<1>2. PlaceLine(x, live[x], registry[x], t, {})
  BY DEF PlaceLine, StateLine, Ahead
<1> QED
  BY <1>1, <1>2, PlaceFacts DEF LineMoves

LEMMA PreparedLine ==
  ASSUME TurnInv, PlacesLine, NoneAbandoned, NEW x \in Places, Prepared(x)
  PROVE  LineMoves(x)
<1>1. PICK j \in Outcome(x, "preparing", {"ready"}) :
        /\ IF Stopped(x)
           THEN Ended(x)
           ELSE task' = [task EXCEPT ![x] = [@ EXCEPT !.stage = "understanding",
                           !.checkpoint = live[x], !.before = j.before, !.version = j.version]]
        /\ Collect(x)
        /\ live' = live /\ registry' = registry
  BY DEF Prepared
<1>2. /\ task[x] # Idle /\ task[x] \in KnownTurns /\ task[x].stage = "preparing"
      /\ j \in JobsAt(x) /\ j \in KnownThreads /\ j.step = "done" /\ j.result = "ready"
  BY OutcomeFacts DEF JobsAt
<1>3. registry[x] # "absent" /\ SoFar(SessionOf[x], live[x])
  BY <1>2, BusyFacts, NotAhead
<1>4. CASE Stopped(x)
  BY <1>1, <1>2, <1>4, EndQuietlyLine
<1>5. CASE ~Stopped(x)
  <2>1. PICK t : t = [task[x] EXCEPT !.stage = "understanding", !.checkpoint = live[x],
                        !.before = j.before, !.version = j.version]
    OBVIOUS
  <2>2. task' = [task EXCEPT ![x] = t]
    BY <1>1, <1>5, <2>1
  <2>3. ThreadLine(x, live[x], task[x], j)
    BY <1>2, InLine DEF PlaceLine
  <2>4. j.before = live[x] /\ Synced(SessionOf[x], live[x], j.version)
    BY <1>2, <2>3 DEF ThreadLine
  <2>5. live[x] \in Known /\ j.version \in Nat
    BY <1>2, PlaceFacts, ThreadFields
  <2>6. /\ t \in KnownTurns /\ t.stage = "understanding" /\ t.checkpoint = live[x]
        /\ t.before = live[x] /\ t.version = j.version
    BY <1>2, <2>1, <2>4, <2>5 DEF KnownTurns, Stages
  <2>7. t # Idle
    <3>1. Idle.stage = "idle"
      BY DEF Idle
    <3>2. t.stage = "understanding"
      BY <2>6
    <3> QED
      BY ONLY <3>1, <3>2
  <2>8. TurnLine(x, live[x], t)
    BY <1>5, <2>4, <2>6 DEF TurnLine, Stopped
  <2> QED
    BY <1>1, <1>3, <2>2, <2>6, <2>7, <2>8, TurnMovesLine
<1> QED
  BY <1>4, <1>5

LEMMA ReplayedLine ==
  ASSUME TurnInv, PlacesLine, NoneAbandoned, NEW x \in Places, Replayed(x)
  PROVE  LineMoves(x)
<1>1. PICK j \in Outcome(x, "preparing", {"existing"}) :
        /\ \/ Ended(x)
           \/ task' = [task EXCEPT ![x] = [@ EXCEPT !.stage = "previewing again",
                         !.checkpoint = live[x], !.answer = j.recorded]]
        /\ Collect(x)
        /\ live' = live /\ registry' = registry
  BY DEF Replayed, Respond
<1>2. /\ task[x] # Idle /\ task[x] \in KnownTurns /\ task[x].stage = "preparing"
      /\ j \in JobsAt(x) /\ j \in KnownThreads /\ j.step = "done"
  BY OutcomeFacts DEF JobsAt
<1>3. registry[x] # "absent" /\ SoFar(SessionOf[x], live[x])
  BY <1>2, BusyFacts, NotAhead
<1>4. CASE Ended(x)
  BY <1>1, <1>2, <1>4, EndQuietlyLine
<1>5. CASE task' = [task EXCEPT ![x] = [@ EXCEPT !.stage = "previewing again",
                         !.checkpoint = live[x], !.answer = j.recorded]]
  <2>1. PICK t : t = [task[x] EXCEPT !.stage = "previewing again",
                         !.checkpoint = live[x], !.answer = j.recorded]
    OBVIOUS
  <2>2. task' = [task EXCEPT ![x] = t]
    BY <1>5, <2>1
  <2>3. live[x] \in Known /\ j.recorded \in Answers
    BY <1>2, PlaceFacts, ThreadFields
  <2>4. t \in KnownTurns /\ t.stage = "previewing again" /\ t.checkpoint = live[x]
    BY <1>2, <2>1, <2>3 DEF KnownTurns, Stages
  <2>5. t # Idle
    <3>1. Idle.stage = "idle"
      BY DEF Idle
    <3>2. t.stage = "previewing again"
      BY <2>4
    <3> QED
      BY ONLY <3>1, <3>2
  <2>6. TurnLine(x, live[x], t)
    BY <1>3, <2>4 DEF TurnLine
  <2> QED
    BY <1>1, <1>3, <2>2, <2>4, <2>5, <2>6, TurnMovesLine
<1> QED
  BY <1>1, <1>4, <1>5

LEMMA UnpreparedLine ==
  ASSUME TurnInv, PlacesLine, NoneAbandoned, NEW x \in Places, Unprepared(x)
  PROVE  LineMoves(x)
<1>1. PICK j \in Outcome(x, "preparing", {"misused", "error"}) :
        Ended(x) /\ Collect(x) /\ live' = live /\ registry' = registry
  BY DEF Unprepared
<1>2. task[x] # Idle /\ task[x].stage = "preparing"
  BY OutcomeFacts
<1> QED
  BY <1>1, <1>2, EndQuietlyLine

LEMMA CommittedLine ==
  ASSUME TurnInv, PlacesLine, NoneAbandoned, NEW x \in Places, Committed(x)
  PROVE  LineMoves(x)
<1>1. PICK j : j \in Outcome(x, "committing", {"ok"})
  BY DEF Committed
<1>2. task[x] # Idle /\ task[x] \in KnownTurns /\ j \in JobsAt(x) /\ j.step = "done"
  BY <1>1, OutcomeFacts DEF JobsAt
<1>3. registry[x] # "absent" /\ SoFar(SessionOf[x], live[x])
  BY <1>2, BusyFacts, NotAhead
<1>4. PICK t : t = [task[x] EXCEPT !.stage = "recalling"]
  OBVIOUS
<1>5. task' = [task EXCEPT ![x] = t] /\ live' = live /\ registry' = registry /\ Collect(x)
  BY <1>4 DEF Committed, TurnInv, Typed, TaskTyped
<1>6. t \in KnownTurns /\ t.stage = "recalling"
  BY <1>2, <1>4 DEF KnownTurns, Stages
<1>7. t # Idle
  <2>1. Idle.stage = "idle"
    BY DEF Idle
  <2>2. t.stage = "recalling"
    BY <1>6
  <2> QED
    BY ONLY <2>1, <2>2
<1>8. TurnLine(x, live[x], t)
  BY <1>6 DEF TurnLine
<1> QED
  BY <1>3, <1>5, <1>6, <1>7, <1>8, TurnMovesLine

\* A turn that is undone leaves the state it started from.
LEMMA UndoneLine ==
  ASSUME TurnInv, PlacesLine, NoneAbandoned, NEW x \in Places,
         task[x].stage \in {"previewing", "previewing again", "committing"}, Ended(x),
         live' = [live EXCEPT ![x] = task[x].checkpoint], registry' = registry,
         \/ Collect(x)
         \/ jobs' = jobs /\ task[x].stage # "committing"
  PROVE  LineMoves(x)
<1>0. Idle.stage = "idle"
  BY DEF Idle
<1>1. task[x] # Idle
  BY <1>0
<1>2. SoFar(SessionOf[x], task[x].checkpoint)
  BY <1>1, InLine DEF PlaceLine, TurnLine, Synced
<1>3. task[x].checkpoint \in Known /\ registry[x] # "absent"
  BY <1>1, TurnFields, BusyFacts DEF TurnInv, Typed
<1>4. registry' = [registry EXCEPT ![x] = registry[x]] /\ registry[x] \in Registrations
  BY PlaceFacts
<1>5. Collect(x) \/ (jobs' = jobs /\ (task[x] = Idle \/ task[x].stage \notin {"preparing", "committing"}))
  OBVIOUS
<1>6. PICK st \in Known : st = task[x].checkpoint
  BY <1>3
<1>7. PICK g \in Registrations : g = registry[x]
  BY <1>4
<1>8. /\ live' = [live EXCEPT ![x] = st] /\ registry' = [registry EXCEPT ![x] = g]
      /\ g # "absent" /\ SoFar(SessionOf[x], st)
  BY <1>2, <1>3, <1>4, <1>6, <1>7
<1> QED
  BY <1>5, <1>8, EndLine

LEMMA EndingLines ==
  ASSUME TurnInv, PlacesLine, NoneAbandoned, NEW x \in Places,
         PreviewAgain(x) \/ PreviewFail(x) \/ CommitFailed(x) \/ Recalled(x)
  PROVE  LineMoves(x)
<1>0. Idle.stage = "idle"
  BY DEF Idle
<1>1. CASE PreviewAgain(x) \/ Recalled(x)
  <2>1. /\ task[x].stage \in {"previewing again", "recalling"}
        /\ Ended(x) /\ live' = live /\ registry' = registry /\ jobs' = jobs
    BY <1>1 DEF PreviewAgain, Recalled, Respond
  <2>2. task[x] # Idle
    BY <1>0, <2>1
  <2> QED
    BY <2>1, <2>2, EndQuietlyLine
<1>2. CASE PreviewFail(x)
  <2>1. /\ task[x].stage \in {"previewing", "previewing again"} /\ jobs' = jobs
        /\ live' = [live EXCEPT ![x] = task[x].checkpoint] /\ registry' = registry
        /\ Ended(x)
    BY <1>2 DEF PreviewFail, SetLive
  <2> QED
    BY <2>1, UndoneLine
<1>3. CASE CommitFailed(x)
  <2>1. /\ task[x].stage = "committing" /\ Collect(x)
        /\ live' = [live EXCEPT ![x] = task[x].checkpoint] /\ registry' = registry
        /\ Ended(x)
    BY <1>3, OutcomeFacts DEF CommitFailed, SetLive
  <2> QED
    BY <2>1, UndoneLine
<1> QED
  BY <1>1, <1>2, <1>3

\* While no thread is left behind, a cancellation takes the turn's with it.
LEMMA CancelLine ==
  ASSUME TurnInv, PlacesLine, NoneAbandoned, NoneAbandoned', NEW x \in Places, Cancel(x)
  PROVE  LineMoves(x)
<1>1. task[x] # Idle /\ Ended(x) /\ registry' = registry
  BY DEF Cancel
<1>2. Collect(x) /\ \A j \in OwnJobs(x) : j.step \in {"export", "build", "done"}
  <2>1. CASE /\ \E j \in OwnJobs(x) : j.step # "done"
             /\ jobs' = (jobs \ OwnJobs(x)) \cup
                          {[j EXCEPT !.abandoned = spent.cancels + 1] : j \in OwnJobs(x)}
    <3>1. PICK n : n = spent.cancels + 1
      OBVIOUS
    <3>2. n # 0
      <4>1. spent.cancels \in Nat
        BY BoundsAssumption DEF TurnInv, Typed, SpentTyped
      <4> QED
        BY <3>1, <4>1
    <3>3. PICK j \in OwnJobs(x) : TRUE
      BY <2>1
    <3>4. j \in KnownThreads
      BY DEF OwnJobs, TurnInv, Typed, JobsTyped
    <3>5. [j EXCEPT !.abandoned = n].abandoned = n
      BY <3>4 DEF KnownThreads
    <3>6. [j EXCEPT !.abandoned = n] \in jobs'
      BY <2>1, <3>1
    <3> QED
      BY <3>2, <3>5, <3>6 DEF NoneAbandoned
  <2> QED
    BY <2>1 DEF Cancel
<1>3. CASE task[x].stage \in {"previewing", "previewing again", "committing"}
  <2>1. live' = [live EXCEPT ![x] = task[x].checkpoint]
    BY <1>3 DEF Cancel, SetLive
  <2> QED
    BY <1>1, <1>2, <1>3, <2>1, UndoneLine
<1>4. CASE task[x].stage \notin {"previewing", "previewing again", "committing"}
  <2>1. live' = live
    BY <1>4 DEF Cancel
  <2> QED
    BY <1>1, <1>2, <1>4, <2>1, EndQuietlyLine
<1> QED
  BY <1>3, <1>4

\* A turn is handed to its commit after the engine's step.
LEMMA CommitStageLine ==
  ASSUME TurnInv, PlacesLine, NoneAbandoned, NEW x \in Places,
         task[x].stage \in {"understanding", "previewing"},
         NEW answer \in Answers, CommitStage(x, answer),
         answer = Answer(task[x].before, task[x].request.text),
         NEW st \in Known, live' = [live EXCEPT ![x] = st], registry' = registry,
         st = EngineTurn(task[x].before, task[x].request.text)
  PROVE  LineMoves(x)
<1>0. Idle.stage = "idle"
  BY DEF Idle
<1>1. task[x] # Idle
  BY <1>0
<1>2. PICK u : u = task[x]
  OBVIOUS
<1>3. /\ u \in KnownTurns /\ u.request \in Requests /\ u.before \in Known /\ u.version \in Nat
      /\ registry[x] # "absent"
  BY <1>1, <1>2, TurnFields, BusyFacts DEF TurnInv, Typed
<1>4. PICK t : t = [u EXCEPT !.stage = "committing", !.answer = answer]
  OBVIOUS
<1>5. task' = [task EXCEPT ![x] = t]
  BY <1>2, <1>4 DEF CommitStage, TurnInv, Typed, TaskTyped
<1>6. /\ t \in KnownTurns /\ t.stage = "committing" /\ t.request = u.request
      /\ t.before = u.before /\ t.checkpoint = u.checkpoint /\ t.version = u.version
      /\ t.answer = answer
  BY <1>3, <1>4 DEF KnownTurns, Stages
<1>7. PICK k : k = [Job(x, "build", u.request) EXCEPT !.before = u.before,
                      !.version = u.version, !.answer = answer]
  OBVIOUS
<1>8. jobs' = jobs \cup {k}
  BY <1>2, <1>7 DEF CommitStage
<1>9. /\ k \in KnownThreads /\ k.step = "build" /\ k.place = x
      /\ k.before = u.before /\ k.version = u.version /\ k.answer = answer
  <2>1. Job(x, "build", u.request) \in KnownThreads
        /\ Job(x, "build", u.request).step = "build" /\ Job(x, "build", u.request).place = x
    BY <1>3, NoAnswerTyped, BoundsAssumption DEF Job, KnownThreads, Known, Steps, Results
  <2> QED
    BY <1>3, <1>7, <2>1 DEF KnownThreads
<1>10. JobsAt(x) = {}
  BY InLine DEF Serves
<1>11. JobsAt(x)' = {k} /\ \A j \in (jobs \ jobs') \cup (jobs' \ jobs) : j.place = x
  BY <1>8, <1>9, <1>10 DEF JobsAt
<1>12. t # Idle
  BY <1>0, <1>6
<1>13. PlaceLine(x, st, registry[x], t, {k})
  <2>1. StateLine(x, st, registry[x], t, {k})
    <3>1. Ahead(t, {k})
      BY <1>9, <1>12 DEF Ahead
    <3> QED
      BY <1>2, <1>3, <1>6, <3>1 DEF StateLine
  <2>2. TurnLine(x, st, t)
    <3>1. /\ u.checkpoint = u.before
          /\ Synced(SessionOf[x], u.before, u.version) /\ "stopped" \notin u.before.marks
      BY <1>1, <1>2, InLine DEF PlaceLine, TurnLine
    <3> QED
      BY <1>2, <1>6, <3>1 DEF TurnLine
  <2>3. ThreadLine(x, st, t, k)
    BY <1>6, <1>9 DEF ThreadLine
  <2> QED
    BY <2>1, <2>2, <2>3 DEF PlaceLine
<1> QED
  BY <1>3, <1>5, <1>6, <1>9, <1>11, <1>13, PlaceFacts DEF LineMoves

LEMMA ProcessLine ==
  ASSUME TurnInv, PlacesLine, NoneAbandoned, NEW x \in Places, Process(x)
  PROVE  LineMoves(x)
<1>0. Idle.stage = "idle"
  BY DEF Idle
<1>1. task[x].stage = "understanding" /\ registry' = registry
  BY DEF Process
<1>2. task[x] # Idle
  BY <1>0, <1>1
<1>3. /\ live[x] \in Real /\ task[x] \in KnownTurns /\ task[x].request.text \in Texts
      /\ registry[x] # "absent"
  BY <1>2, BusyFacts, RequestFields
<1>4. JobsAt(x) = {}
  BY <1>1, InLine DEF Serves
<1>5. /\ live[x] = task[x].before /\ task[x].checkpoint = task[x].before
      /\ Synced(SessionOf[x], task[x].before, task[x].version)
      /\ "stopped" \notin task[x].before.marks
  BY <1>1, <1>2, InLine DEF PlaceLine, TurnLine
<1>6. ~Stopped(x)
  BY <1>5 DEF Stopped
<1>7. PICK st, answer : st = EngineTurn(live[x], task[x].request.text)
                        /\ answer = Answer(live[x], task[x].request.text)
  OBVIOUS
<1>8. st \in Known /\ answer \in Answers
  BY <1>3, <1>7, EngineTyped DEF Known
<1>9. live' = [live EXCEPT ![x] = st]
  BY <1>6, <1>7 DEF Process, SetLive
<1>10. CASE CommitStage(x, answer)
  BY <1>1, <1>5, <1>7, <1>8, <1>9, <1>10, CommitStageLine
<1>11. CASE /\ task' = [task EXCEPT ![x].stage = "previewing", ![x].answer = answer]
            /\ jobs' = jobs
  <2>1. PICK t : t = [task[x] EXCEPT !.stage = "previewing", !.answer = answer]
    OBVIOUS
  <2>2. task' = [task EXCEPT ![x] = t]
    BY <1>11, <2>1 DEF TurnInv, Typed, TaskTyped
  <2>3. /\ t \in KnownTurns /\ t.stage = "previewing" /\ t.request = task[x].request
        /\ t.before = task[x].before /\ t.checkpoint = task[x].checkpoint
        /\ t.version = task[x].version /\ t.answer = answer
    BY <1>3, <1>8, <2>1 DEF KnownTurns, Stages
  <2>4. t # Idle
    <3>1. t.stage = "previewing"
      BY <2>3
    <3> QED
      BY <1>0, <3>1
  <2>5. PlaceLine(x, st, registry[x], t, {})
    <3>1. StateLine(x, st, registry[x], t, {})
      BY <1>3, <1>5, <1>7, <2>3, <2>4 DEF StateLine, Ahead
    <3>2. TurnLine(x, st, t)
      BY <1>5, <1>7, <2>3 DEF TurnLine
    <3> QED
      BY <3>1, <3>2 DEF PlaceLine
  <2>6. JobsAt(x)' = {} /\ jobs' = jobs
    BY <1>4, <1>11 DEF JobsAt
  <2> QED
    BY <1>1, <1>8, <1>9, <2>2, <2>3, <2>5, <2>6, PlaceFacts DEF LineMoves
<1> QED
  BY <1>6, <1>7, <1>10, <1>11 DEF Process

LEMMA PreviewLine ==
  ASSUME TurnInv, PlacesLine, NoneAbandoned, NEW x \in Places, Preview(x)
  PROVE  LineMoves(x)
<1>0. Idle.stage = "idle"
  BY DEF Idle
<1>1. /\ task[x].stage = "previewing" /\ CommitStage(x, task[x].answer)
      /\ live' = live /\ registry' = registry
  BY DEF Preview
<1>2. task[x] # Idle
  BY <1>0, <1>1
<1>3. task[x].answer \in Answers /\ registry[x] # "absent"
  BY <1>2, TurnFields, BusyFacts DEF TurnInv, Typed
<1>4. task[x].answer = Answer(task[x].before, task[x].request.text)
  BY <1>1, <1>2, InLine DEF PlaceLine, TurnLine
<1>5. live[x] = EngineTurn(task[x].before, task[x].request.text)
  <2>1. Ahead(task[x], JobsAt(x))
    BY <1>1, <1>2 DEF Ahead
  <2> QED
    BY <1>3, <2>1, InLine DEF PlaceLine, StateLine
<1>6. live' = [live EXCEPT ![x] = live[x]] /\ live[x] \in Known
  BY <1>1, PlaceFacts
<1>7. PICK st \in Known, answer \in Answers : st = live[x] /\ answer = task[x].answer
  BY <1>3, <1>6
<1> QED
  BY <1>1, <1>4, <1>5, <1>6, <1>7, CommitStageLine

-----------------------------------------------------------------------------
(* The steps of a thread, in line. *)

\* The one thread of a place goes on as k.
LEMMA ThreadMoves ==
  ASSUME TurnInv, PlacesLine, NoneAbandoned, NEW j \in jobs, NEW k \in KnownThreads,
         k.place = j.place, Finish(j, k) \/ Advance(j, k),
         NEW st \in Known, live' = [live EXCEPT ![j.place] = st],
         registry' = registry, task' = task,
         \/ PlaceLine(j.place, st, registry[j.place], task[j.place], {k})
         \/ PlaceLine(j.place, st, registry[j.place], task[j.place], {k})'
  PROVE  LineMoves(j.place)
<1>1. PICK x \in Places : x = j.place
  BY ThreadFields DEF TurnInv, Typed, JobsTyped
<1>2. JobsAt(x) = {j}
  <2>1. j \in JobsAt(x)
    BY <1>1 DEF JobsAt
  <2>2. \A m, n \in JobsAt(x) : m = n
    BY InLine DEF PlaceLine
  <2> QED
    BY <2>1, <2>2
<1>3. jobs' = (jobs \ {j}) \cup {k}
  BY DEF Finish, Advance, NoneAbandoned
<1>4. JobsAt(x)' = {k} /\ \A m \in (jobs \ jobs') \cup (jobs' \ jobs) : m.place = x
  BY <1>1, <1>2, <1>3 DEF JobsAt
<1>5. PICK g \in Registrations, t \in {Idle} \cup KnownTurns : g = registry[x] /\ t = task[x]
  BY PlaceFacts
<1>6. /\ registry' = [registry EXCEPT ![x] = g] /\ task' = [task EXCEPT ![x] = t]
      /\ registry'[x] = g /\ task'[x] = t
  BY <1>5, PlaceFacts
<1>7. PlaceLine(x, st, g, t, {k}) \/ PlaceLine(x, st, g, t, {k})'
  BY <1>1, <1>5, <1>6
<1>8. LineMoves(x)
  BY <1>1, <1>4, <1>5, <1>6, <1>7 DEF LineMoves
<1> QED
  BY <1>1, <1>8

\* What is known of a thread that its turn waits for.
LEMMA ThreadInLine ==
  ASSUME TurnInv, PlacesLine, NoneAbandoned, NEW j \in jobs
  PROVE  LET x == j.place
         IN  /\ j \in KnownThreads /\ j.abandoned = 0 /\ x \in Places /\ j \in JobsAt(x)
             /\ Serves(j, task[x]) /\ task[x] \in KnownTurns
             /\ registry[x] # "absent" /\ live[x] \in Real /\ live[x] # NoState
             /\ ThreadLine(x, live[x], task[x], j)
             /\ TurnLine(x, live[x], task[x])
             /\ StateLine(x, live[x], registry[x], task[x], JobsAt(x))
             /\ JobsAt(x) = {j}
             /\ SessionOf[x] \in Sessions
<1>1. PICK x : x = j.place
  OBVIOUS
<1>2. j \in KnownThreads /\ j.abandoned = 0 /\ x \in Places /\ j \in JobsAt(x)
  BY <1>1, ThreadFields DEF TurnInv, Typed, JobsTyped, NoneAbandoned, JobsAt
<1>3. Serves(j, task[x]) /\ PlaceLine(x, live[x], registry[x], task[x], JobsAt(x))
      /\ SessionOf[x] \in Sessions
  BY <1>2, InLine
<1>4. task[x] # Idle
  BY <1>3 DEF Serves
<1>5. JobsAt(x) = {j}
  BY <1>2, <1>3 DEF PlaceLine
<1> QED
  BY <1>1, <1>2, <1>3, <1>4, <1>5, BusyFacts DEF PlaceLine

\* A thread that has decided leaves a state its session had.
LEMMA SettledLine ==
  ASSUME TurnInv, PlacesLine, NoneAbandoned, NEW j \in jobs, NEW k, NEW st, st # NoState,
         \/ k.step = "done"
         \/ k.step = "reload" /\ task[j.place].stage = "committing",
         k.step = "done" /\ k.result = "ready" /\ task[j.place].stage = "preparing"
           => k.before = st /\ Synced(SessionOf[j.place], st, k.version),
         SoFar(SessionOf[j.place], st)
  PROVE  PlaceLine(j.place, st, registry[j.place], task[j.place], {k})
<1>1. PICK x, g, t : x = j.place /\ g = registry[x] /\ t = task[x]
  OBVIOUS
<1>2. /\ Serves(j, t) /\ g # "absent" /\ TurnLine(x, live[x], t)
  BY <1>1, ThreadInLine
<1>3. t # Idle /\ t.stage \in {"preparing", "committing"}
  BY <1>2 DEF Serves
<1>4. StateLine(x, st, g, t, {k})
  BY <1>1, <1>2, <1>3 DEF StateLine, Ahead
<1>5. TurnLine(x, st, t)
  BY <1>2, <1>3 DEF TurnLine
<1>6. ThreadLine(x, st, t, k)
  BY <1>1, <1>3 DEF ThreadLine
<1>7. PlaceLine(x, st, g, t, {k})
  BY <1>4, <1>5, <1>6 DEF PlaceLine
<1> QED
  BY <1>1, <1>7

\* A thread that fails or gives up, the state being what the turn started from
\* or what it was.
LEMMA FailedLine ==
  ASSUME TurnInv, PlacesLine, NoneAbandoned, NEW j \in jobs,
         NEW result \in {"refused", "conflict", "error"}, Finish(j, Done(j, result)),
         registry' = registry, task' = task,
         \/ live' = live /\ j.step \notin {"build", "append"}
         \/ j.step \in {"build", "append"} /\ Rollback(j)
  PROVE  LineMoves(j.place)
<1> DEFINE k == Done(j, result)
<1>1. k \in KnownThreads /\ k.step = "done" /\ k.result = result /\ k.place = j.place
  BY ThreadInLine, DoneFields DEF Results
<1> HIDE DEF k
<1>2. ThreadLine(j.place, live[j.place], task[j.place], j) /\ Serves(j, task[j.place])
  BY ThreadInLine
<1>3. PICK st \in Known : live' = [live EXCEPT ![j.place] = st] /\ st # NoState
                          /\ SoFar(SessionOf[j.place], st)
  <2>1. CASE live' = live /\ j.step \notin {"build", "append"}
    <3>1. live[j.place] \in Known /\ live' = [live EXCEPT ![j.place] = live[j.place]]
      BY <2>1, ThreadInLine, PlaceFacts
    <3>2. SoFar(SessionOf[j.place], live[j.place])
      <4>1. ~ Ahead(task[j.place], JobsAt(j.place))
        BY <1>2, <2>1, ThreadInLine DEF Ahead, Serves
      <4> QED
        BY <4>1, ThreadInLine DEF StateLine
    <3> QED
      BY <3>1, <3>2, ThreadInLine
  <2>2. CASE j.step \in {"build", "append"} /\ Rollback(j)
    <3>1. task[j.place].stage = "committing" /\ j.before = task[j.place].before
          /\ task[j.place] # Idle
      BY <1>2, <2>2 DEF ThreadLine, Serves
    <3>2. SoFar(SessionOf[j.place], j.before)
      BY <3>1, ThreadInLine DEF TurnLine, Synced
    <3>3. j.before \in Known /\ j.before # NoState
      BY <2>2, ThreadInLine, ThreadFields DEF TurnInv, JobHeld
    <3>4. live' = [live EXCEPT ![j.place] = j.before]
      BY <2>2 DEF Rollback, SetLive
    <3> QED
      BY <3>2, <3>3, <3>4
  <2> QED
    BY <2>1, <2>2
<1>4. PlaceLine(j.place, st, registry[j.place], task[j.place], {k})
  BY <1>1, <1>3, SettledLine
<1> QED
  BY <1>1, <1>3, <1>4, ThreadMoves DEF k

LEMMA ExportLine ==
  ASSUME TurnInv, PlacesLine, NoneAbandoned, NEW j \in jobs, PrepareExport(j)
  PROVE  LineMoves(j.place)
<1>1. PICK x, st, g, t : x = j.place /\ st = live[x] /\ g = registry[x] /\ t = task[x]
  OBVIOUS
<1>2. /\ j \in KnownThreads /\ x \in Places /\ Serves(j, t) /\ g # "absent"
      /\ st \in Real /\ st # NoState
      /\ ThreadLine(x, st, t, j) /\ TurnLine(x, st, t) /\ StateLine(x, st, g, t, JobsAt(x))
      /\ JobsAt(x) = {j}
  BY <1>1, ThreadInLine
<1>3. j.step = "export" /\ registry' = registry /\ task' = task
  BY DEF PrepareExport, Unmoved
<1>4. PICK k : k = [j EXCEPT !.step = "load", !.before = st]
  OBVIOUS
<1>5. Advance(j, k) /\ live' = live
  BY <1>1, <1>2, <1>4 DEF PrepareExport
<1>6. k \in KnownThreads /\ k.step = "load" /\ k.before = st /\ k.place = j.place
  BY <1>2, <1>4 DEF KnownThreads, Steps, Known
<1>7. t.stage = "preparing"
  BY <1>2, <1>3 DEF ThreadLine, Serves
<1>8. PlaceLine(x, st, g, t, {k})
  <2>1. StateLine(x, st, g, t, {k})
    BY <1>2, <1>3, <1>6, <1>7 DEF StateLine, Ahead
  <2>2. ThreadLine(x, st, t, k)
    BY <1>6, <1>7 DEF ThreadLine
  <2> QED
    BY <1>2, <2>1, <2>2 DEF PlaceLine
<1>9. live' = [live EXCEPT ![j.place] = st] /\ st \in Known
  BY <1>1, <1>2, <1>5, PlaceFacts DEF Known
<1> QED
  BY <1>1, <1>3, <1>5, <1>6, <1>8, <1>9, ThreadMoves

\* A replay puts the session's durable state in place.
LEMMA ResyncLine ==
  ASSUME TurnInv, PlacesLine, NoneAbandoned, NEW j \in jobs, NEW result \in {"existing", "ok", "conflict"},
         TurnsAt(j.place) # <<>>, Resynchronise(j, result), registry' = registry, task' = task
  PROVE  LineMoves(j.place)
<1>1. PICK x : x = j.place
  OBVIOUS
<1>2. j \in KnownThreads /\ x \in Places /\ live[x] # NoState /\ SessionOf[x] \in Sessions
  BY <1>1, ThreadInLine
<1>3. PICK k, st : /\ k = [Done(j, result) EXCEPT !.recorded = RecordedAnswer(j.request)]
                   /\ st = Replay(TurnsAt(x))
  OBVIOUS
<1>4. Finish(j, k) /\ live' = [live EXCEPT ![x] = st]
  BY <1>1, <1>2, <1>3 DEF Resynchronise, SetLive
<1>5. Done(j, result) \in KnownThreads /\ Done(j, result).step = "done"
      /\ Done(j, result).result = result /\ Done(j, result).place = j.place
  BY <1>2, DoneFields DEF Results
<1>6. RecordedAnswer(j.request) \in Answers
  BY RecordedTyped DEF TurnInv, Typed
<1>7. k \in KnownThreads /\ k.step = "done" /\ k.result = result /\ k.place = j.place
  BY <1>3, <1>5, <1>6, RecordedFields
<1>8. st \in Real /\ SoFar(SessionOf[x], st)
  BY <1>1, <1>2, <1>3, ReplayInLine DEF TurnsAt
<1>9. st \in Known /\ st # NoState
  BY <1>8, KnownIsState DEF Known
<1>10. PlaceLine(x, st, registry[x], task[x], {k})
  BY <1>1, <1>7, <1>8, <1>9, SettledLine
<1> QED
  BY <1>1, <1>4, <1>7, <1>9, <1>10, ThreadMoves

LEMMA LoadLine ==
  ASSUME TurnInv, PlacesLine, NoneAbandoned, NEW j \in jobs, PrepareLoad(j)
  PROVE  LineMoves(j.place)
<1>1. PICK x, st, t : x = j.place /\ st = live[x] /\ t = task[x]
  OBVIOUS
<1>2. /\ j \in KnownThreads /\ x \in Places /\ Serves(j, t) /\ registry[x] # "absent"
      /\ st \in Real /\ st # NoState /\ ThreadLine(x, st, t, j)
      /\ j.request \in Requests /\ SessionOf[x] \in Sessions /\ j \in JobsAt(x)
  BY <1>1, ThreadInLine, ThreadFields
<1>3. j.step = "load" /\ registry' = registry /\ task' = task
  BY DEF PrepareLoad, Unmoved
<1>4. t.stage = "preparing" /\ j.before = st
  BY <1>2, <1>3 DEF ThreadLine, Serves
<1>5. SoFar(SessionOf[x], st)
  BY <1>1, <1>2, <1>4, NotAhead
<1>6. CASE Verdict(j) = "existing"
  <2>1. ~Taken(j.place, j.request) /\ Recorded(j.request.op) # {}
    BY <1>6 DEF Verdict
  <2>2. TurnsAt(j.place) # <<>>
    BY <1>1, <1>2, <2>1, RecordFound DEF TurnInv, Typed
  <2>3. Resynchronise(j, "existing")
    BY <1>6 DEF PrepareLoad
  <2> QED
    BY <1>3, <2>2, <2>3, ResyncLine
<1>7. CASE Verdict(j) # "existing"
  <2>1. PICK verdict : verdict = Verdict(j)
    OBVIOUS
  <2>2. PICK k : k = [Done(j, verdict) EXCEPT !.version = Len(log)]
    OBVIOUS
  <2>3. Finish(j, k) /\ live' = live
    BY <1>7, <2>1, <2>2 DEF PrepareLoad
  <2>4. verdict \in {"refused", "misused", "conflict", "ready"}
    BY <1>7, <2>1 DEF Verdict
  <2>5. verdict = "ready" => InSync(j)
    BY <2>1 DEF Verdict
  <2>6. Done(j, verdict) \in KnownThreads /\ Done(j, verdict).step = "done"
        /\ Done(j, verdict).result = verdict /\ Done(j, verdict).before = st
        /\ Done(j, verdict).place = j.place
    BY <1>2, <1>4, <2>4, DoneFields DEF Results
  <2>7. Len(log) \in Nat
    BY DEF TurnInv, Typed, LogTyped
  <2>8. k \in KnownThreads /\ k.step = "done" /\ k.result = verdict /\ k.before = st
        /\ k.place = j.place /\ k.version = Len(log)
    BY <2>2, <2>6, <2>7, VersionFields
  <2>9. ASSUME InSync(j) PROVE st = AtHead(SessionOf[x])
    <3>1. CASE TurnsOf(log, SessionOf[x]) = <<>>
      <4>1. PICK turns : turns = TurnsOf(log, SessionOf[x])
        OBVIOUS
      <4>2. PICK i \in 1..(Len(turns) + 1) : st = Before(turns, i)
        BY <1>5, <4>1 DEF SoFar
      <4>3. i = 1 /\ Len(turns) + 1 = 1
        BY <3>1, <4>1
      <4> QED
        BY <4>1, <4>2, <4>3 DEF AtHead
    <3>2. CASE TurnsOf(log, SessionOf[x]) # <<>>
      <4>1. st = Replay(TurnsOf(log, SessionOf[x]))
        BY <1>1, <1>4, <2>9, <3>2 DEF InSync, TurnsAt
      <4> QED
        BY <1>2, <3>2, <4>1, ReplayInLine
    <3> QED
      BY <3>1, <3>2
  <2>10. verdict = "ready" => Synced(SessionOf[x], st, Len(log))
    BY <1>5, <2>5, <2>7, <2>9 DEF Synced
  <2>11. PlaceLine(x, st, registry[x], task[x], {k})
    BY <1>1, <1>2, <1>5, <2>8, <2>10, SettledLine
  <2>12. live' = [live EXCEPT ![x] = st] /\ st \in Known
    BY <1>1, <1>2, <2>3, PlaceFacts
  <2> QED
    BY <1>1, <1>3, <2>3, <2>8, <2>11, <2>12, ThreadMoves
<1> QED
  BY <1>6, <1>7

LEMMA BuildLine ==
  ASSUME TurnInv, PlacesLine, NoneAbandoned, NEW j \in jobs, CommitBuild(j)
  PROVE  LineMoves(j.place)
<1>1. PICK x, st, t, g : x = j.place /\ st = live[x] /\ t = task[x] /\ g = registry[x]
  OBVIOUS
<1>2. /\ j \in KnownThreads /\ x \in Places /\ Serves(j, t) /\ g # "absent"
      /\ st \in Real /\ ThreadLine(x, st, t, j) /\ TurnLine(x, st, t)
      /\ StateLine(x, st, g, t, {j}) /\ t \in KnownTurns /\ j.request \in Requests
      /\ SessionOf[x] \in Sessions /\ j.answer \in Answers
  BY <1>1, ThreadInLine, ThreadFields
<1>3. j.step = "build" /\ registry' = registry /\ task' = task
  BY DEF CommitBuild, Unmoved
<1>4. CASE ~Consistent(j)
  <2>1. Finish(j, Done(j, "error")) /\ Rollback(j)
    BY <1>4 DEF CommitBuild
  <2> QED
    BY <1>3, <2>1, FailedLine
<1>5. CASE Consistent(j)
  <2>1. t.stage = "committing" /\ t # Idle /\ t.request = j.request
    BY <1>2, <1>3 DEF ThreadLine, Serves
  <2>2. /\ st = EngineTurn(t.before, t.request.text)
        /\ t.answer = Answer(t.before, t.request.text)
        /\ j.before = t.before /\ j.version = t.version /\ j.answer = t.answer
    <3>1. Ahead(t, {j})
      BY <1>3, <2>1 DEF Ahead
    <3> QED
      BY <1>2, <1>3, <2>1, <3>1 DEF StateLine, TurnLine, ThreadLine
  <2>3. j.before \in Real
    BY <1>2, <1>3, ThreadFields DEF TurnInv, JobHeld, Known
  <2>4. PICK e : e = EventOf(x, j.request, st, j.answer)
    OBVIOUS
  <2>5. PICK k : k = [j EXCEPT !.step = "append", !.event = e]
    OBVIOUS
  <2>6. Advance(j, k) /\ live' = live
    BY <1>1, <1>5, <2>4, <2>5 DEF CommitBuild
  <2>7. /\ e.marks = Marked(j.before, j.request.text)
        /\ e.result = Answer(j.before, j.request.text)
        /\ e.digest = j.request.text
    <3>1. PICK digests \in Seq(Texts) : digests = j.before.digests
      BY <2>3 DEF Real
    <3>2. st.digests = Append(digests, j.request.text)
          /\ st.marks = Marked(j.before, j.request.text)
      BY <2>1, <2>2, <3>1 DEF EngineTurn
    <3>3. Append(digests, j.request.text)[Len(Append(digests, j.request.text))] = j.request.text
      BY <1>2, RequestFields
    <3> QED
      BY <2>1, <2>2, <2>4, <3>2, <3>3 DEF EventOf
  <2>8. e \in Events
    <3>1. e.session \in Sessions /\ e.request \in Requests /\ e.digest \in Texts
          /\ e.result \in Answers /\ e.marks \in SUBSET {"abused", "stopped"}
      BY <1>2, <2>2, <2>3, <2>4, <2>7, RequestFields, EngineTyped DEF EventOf
    <3>2. e = [session |-> e.session, request |-> e.request, digest |-> e.digest,
               marks |-> e.marks, result |-> e.result]
      BY <2>4 DEF EventOf
    <3> QED
      BY <3>1, <3>2 DEF Events
  <2>9. /\ k \in KnownThreads /\ k.step = "append" /\ k.event = e /\ k.before = j.before
        /\ k.place = j.place /\ k.request = j.request /\ k.version = j.version
        /\ k.answer = j.answer
    BY <1>2, <2>5, <2>8 DEF KnownThreads, Steps
  <2>10. PlaceLine(x, st, g, t, {k})
    <3>1. StateLine(x, st, g, t, {k})
      BY <1>2, <2>1, <2>2, <2>9 DEF StateLine, Ahead
    <3>2. ThreadLine(x, st, t, k)
      BY <2>1, <2>2, <2>7, <2>9 DEF ThreadLine
    <3> QED
      BY <1>2, <3>1, <3>2 DEF PlaceLine
  <2>11. live' = [live EXCEPT ![j.place] = st] /\ st \in Known
    BY <1>1, <1>2, <2>6, PlaceFacts DEF Known
  <2> QED
    BY <1>1, <1>3, <2>6, <2>9, <2>10, <2>11, ThreadMoves
<1> QED
  BY <1>4, <1>5

\* The event of a turn that finds its version takes its session where the
\* engine went.
LEMMA AppendInLine ==
  ASSUME TurnInv, PlacesLine, StreamLine, NoneAbandoned,
         NEW j \in jobs, j.step = "append", Expected(j), Appended(j),
         NEW s, s = SessionOf[j.place], NEW turns, turns = TurnsOf(log, s),
         NEW e, e = j.event
  PROVE  /\ s \in Sessions /\ turns \in Seq(Events) /\ e \in Events /\ e.session = s
         /\ e.request = j.request /\ log \in Seq(Events) /\ log' = Append(log, e)
         /\ TurnsOf(log', s) = Append(turns, e)
         /\ FollowsFrom(e, Before(turns, Len(turns) + 1))
         /\ Replayable(Append(turns, e))
         /\ live[j.place] = Before(Append(turns, e), Len(turns) + 2)
<1>1. PICK x, st, t : x = j.place /\ st = live[x] /\ t = task[x]
  OBVIOUS
<1>2. /\ Serves(j, t) /\ registry[x] # "absent" /\ ThreadLine(x, st, t, j) /\ TurnLine(x, st, t)
      /\ StateLine(x, st, registry[x], t, {j}) /\ s \in Sessions
  BY <1>1, ThreadInLine
<1>3. t.stage = "committing" /\ t # Idle /\ t.request = j.request
  BY <1>2 DEF ThreadLine, Serves
<1>4. st = EngineTurn(t.before, j.request.text)
  <2>1. Ahead(t, {j})
    BY <1>3 DEF Ahead
  <2> QED
    BY <1>2, <1>3, <2>1 DEF StateLine
<1>5. /\ j.before = t.before /\ j.version = t.version
      /\ e.digest = j.request.text /\ e.marks = Marked(t.before, j.request.text)
      /\ e.result = Answer(t.before, j.request.text)
  BY <1>2 DEF ThreadLine
<1>6. e \in Events /\ e.session = s /\ e.request = j.request
  BY DEF TurnInv, JobRight
<1>7. t.before = Before(turns, Len(turns) + 1) /\ "stopped" \notin t.before.marks
  BY <1>1, <1>2, <1>3, <1>5 DEF TurnLine, Synced, Expected, AtHead
<1>8. FollowsFrom(e, t.before)
  BY <1>5, <1>6 DEF FollowsFrom
<1>9. turns \in Seq(Events) /\ Replayable(turns)
  BY <1>2, TurnsTyped DEF StreamLine
<1>10. PICK before : before = t.before
  OBVIOUS
<1>11. /\ Replayable(Append(turns, e))
       /\ Before(Append(turns, e), Len(turns) + 2) = EngineTurn(before, e.request.text)
  BY <1>6, <1>7, <1>8, <1>9, <1>10, TurnAdded
<1>12. log \in Seq(Events) /\ log' = Append(log, e)
  BY DEF Appended, TurnInv, Typed, LogTyped
<1>13. TurnsOf(log', s) = Append(turns, e)
  BY <1>6, <1>12, TurnsOfAppend
<1> QED
  BY <1>1, <1>2, <1>4, <1>6, <1>7, <1>8, <1>9, <1>10, <1>11, <1>12, <1>13

LEMMA AppendLine ==
  ASSUME TurnInv, PlacesLine, StreamLine, NoneAbandoned, [Next]_vars,
         NEW j \in jobs, CommitAppend(j)
  PROVE  LineMoves(j.place)
<1>1. PICK x, st, t, g : x = j.place /\ st = live[x] /\ t = task[x] /\ g = registry[x]
  OBVIOUS
<1>2. /\ j \in KnownThreads /\ x \in Places /\ Serves(j, t) /\ g # "absent" /\ j \in JobsAt(x)
      /\ st \in Real /\ st # NoState /\ ThreadLine(x, st, t, j) /\ TurnLine(x, st, t)
      /\ t \in KnownTurns /\ SessionOf[x] \in Sessions /\ JobsAt(x) = {j}
  BY <1>1, ThreadInLine
<1>3. j.step = "append" /\ registry' = registry /\ task' = task
  BY DEF CommitAppend, Unmoved
<1>4. t.stage = "committing" /\ t # Idle /\ j.before = t.before
  BY <1>2, <1>3 DEF ThreadLine, Serves
<1>5. CASE Finish(j, Done(j, "refused")) /\ Rollback(j)
  BY <1>3, <1>5, FailedLine
<1>6. CASE Expected(j) /\ Appended(j) /\ Finish(j, Done(j, "ok")) /\ live' = live
  <2>1. PICK k : k = Done(j, "ok")
    OBVIOUS
  <2>2. k \in KnownThreads /\ k.step = "done" /\ k.result = "ok" /\ k.place = j.place
    BY <1>2, <2>1, DoneFields DEF Results
  <2>3. SoFar(SessionOf[x], st)'
    <3>1. PICK s, turns, e, new : /\ s = SessionOf[x] /\ turns = TurnsOf(log, s)
                                  /\ e = j.event /\ new = Append(turns, e)
      OBVIOUS
    <3>2. /\ turns \in Seq(Events) /\ e \in Events
          /\ TurnsOf(log', s) = new /\ st = Before(new, Len(turns) + 2)
      BY <1>1, <1>3, <1>6, <3>1, AppendInLine
    <3>3. Len(turns) \in Nat /\ Len(new) = Len(turns) + 1
      <4> HIDE DEF Events
      <4> QED
        BY <3>1, <3>2
    <3>4. Len(turns) + 2 \in 1..(Len(new) + 1)
      BY <3>3
    <3> QED
      BY <3>1, <3>2, <3>4 DEF SoFar
  <2>4. TurnLine(x, st, t)'
    <3>1. PlaceLine(x, st, g, t, {j})
      BY <1>1, <1>2, InLine
    <3>2. PlaceLine(x, st, g, t, {j})'
      BY <1>2, <3>1, PlaceLineKept
    <3> QED
      BY <3>2 DEF PlaceLine
  <2>5. PlaceLine(x, st, g, t, {k})'
    <3>1. StateLine(x, st, g, t, {k})'
      BY <1>2, <1>4, <2>2, <2>3 DEF StateLine, Ahead
    <3>2. ThreadLine(x, st, t, k)'
      BY <1>4, <2>2 DEF ThreadLine
    <3> QED
      BY <2>4, <3>1, <3>2 DEF PlaceLine
  <2>6. live' = [live EXCEPT ![j.place] = st] /\ st \in Known
    BY <1>1, <1>2, <1>6, PlaceFacts
  <2>7. PlaceLine(j.place, st, registry[j.place], task[j.place], {k})'
    BY <1>1, <1>3, <2>5
  <2> QED
    BY <1>3, <1>6, <2>1, <2>2, <2>6, <2>7, ThreadMoves
<1>7. CASE Advance(j, [j EXCEPT !.step = "reload"]) /\ Rollback(j)
  <2>1. PICK k : k = [j EXCEPT !.step = "reload"]
    OBVIOUS
  <2>2. k \in KnownThreads /\ k.step = "reload" /\ k.place = j.place
    BY <1>2, <2>1 DEF KnownThreads, Steps
  <2>3. PICK before \in Known : before = j.before /\ before # NoState
    BY <1>2, <1>3, ThreadFields DEF TurnInv, JobHeld
  <2>4. SoFar(SessionOf[x], before)
    BY <1>2, <1>4, <2>3 DEF TurnLine, Synced
  <2>5. PlaceLine(j.place, before, registry[j.place], task[j.place], {k})
    BY <1>1, <1>4, <2>2, <2>3, <2>4, SettledLine
  <2>6. live' = [live EXCEPT ![j.place] = before] /\ Advance(j, k)
    BY <1>7, <2>1, <2>3 DEF Rollback, SetLive
  <2> QED
    BY <1>3, <2>2, <2>3, <2>5, <2>6, ThreadMoves
<1> QED
  BY <1>5, <1>6, <1>7 DEF CommitAppend

LEMMA ReloadLine ==
  ASSUME TurnInv, PlacesLine, NoneAbandoned, NEW j \in jobs, CommitReload(j)
  PROVE  LineMoves(j.place)
<1>1. j.step = "reload" /\ registry' = registry /\ task' = task
  BY DEF CommitReload, Unmoved
<1>2. ASSUME NEW result \in {"refused", "error", "conflict"}, Finish(j, Done(j, result)), live' = live
      PROVE  LineMoves(j.place)
  BY <1>1, <1>2, FailedLine
<1>3. ASSUME NEW result \in {"ok", "conflict"}, TurnsAt(j.place) # <<>>, Resynchronise(j, result)
      PROVE  LineMoves(j.place)
  BY <1>1, <1>3, ResyncLine
<1>4. CASE Finish(j, Done(j, "refused")) /\ live' = live
  BY <1>2, <1>4
<1>5. CASE Finish(j, Done(j, "error")) /\ live' = live
  BY <1>2, <1>5
<1>6. CASE Finish(j, Done(j, "conflict")) /\ live' = live
  BY <1>2, <1>6
<1>7. CASE /\ TurnsAt(j.place) # <<>>
           /\ Resynchronise(j, IF Recorded(j.request.op) # {} THEN "ok" ELSE "conflict")
  <2>1. PICK result \in {"ok", "conflict"} :
          result = IF Recorded(j.request.op) # {} THEN "ok" ELSE "conflict"
    OBVIOUS
  <2> QED
    BY <1>3, <1>7, <2>1
<1> QED
  BY <1>4, <1>5, <1>6, <1>7 DEF CommitReload

\* A fault leaves the turn undone in memory, whether or not its event is there.
LEMMA FaultLine ==
  ASSUME TurnInv, PlacesLine, NoneAbandoned, NEW j \in jobs, DatabaseFault(j)
  PROVE  LineMoves(j.place)
<1>1. registry' = registry /\ task' = task
  BY DEF DatabaseFault, Unmoved
<1>2. CASE /\ j.step \in {"load", "reload"} /\ live' = live
           /\ \E result \in {"conflict", "error"} : Finish(j, Done(j, result))
  <2>1. PICK result \in {"conflict", "error"} : Finish(j, Done(j, result))
    BY <1>2
  <2> QED
    BY <1>1, <1>2, <2>1, FailedLine
<1>3. CASE j.step = "append" /\ Finish(j, Done(j, "error")) /\ Rollback(j)
  BY <1>1, <1>3, FailedLine
<1> QED
  BY <1>2, <1>3 DEF DatabaseFault

LEMMA CrashLine ==
  ASSUME TurnInv, PlacesLine, NEW p \in Processes, Crash(p), [Next]_vars
  PROVE  PlacesLine'
<1> DEFINE down == {x \in Places : ProcessOf[x] = p}
<1>1. /\ live' = [x \in Places |-> IF x \in down THEN NoState ELSE live[x]]
      /\ registry' = [x \in Places |-> IF x \in down THEN "absent" ELSE registry[x]]
      /\ task' = [x \in Places |-> IF x \in down THEN Idle ELSE task[x]]
      /\ jobs' = {j \in jobs : j.place \notin down} /\ log' = log
  BY DEF Crash
<1> HIDE DEF down
<1>2. ASSUME NEW y \in Places
      PROVE  PlaceLine(y, live[y], registry[y], task[y], JobsAt(y))'
  <2>1. CASE y \in down
    <3>1. live'[y] = NoState /\ registry'[y] = "absent" /\ task'[y] = Idle /\ JobsAt(y)' = {}
      BY <1>1, <2>1 DEF JobsAt
    <3>2. PlaceLine(y, NoState, "absent", Idle, {})'
      BY DEF PlaceLine, StateLine, TurnLine, Ahead
    <3> QED
      BY <3>1, <3>2
  <2>2. CASE y \notin down
    <3>1. PICK st, g, t, J : st = live[y] /\ g = registry[y] /\ t = task[y] /\ J = JobsAt(y)
      OBVIOUS
    <3>2. JobsAt(y)' = JobsAt(y)
      BY <1>1, <2>2 DEF JobsAt
    <3>3. live'[y] = st /\ registry'[y] = g /\ task'[y] = t /\ JobsAt(y)' = J
      BY <1>1, <2>2, <3>1, <3>2
    <3>4. t \in {Idle} \cup KnownTurns /\ J \in SUBSET KnownThreads
      BY <3>1, PlaceFacts DEF JobsAt, TurnInv, Typed, JobsTyped
    <3>5. PlaceLine(y, st, g, t, J)
      BY <3>1 DEF PlacesLine
    <3>6. PlaceLine(y, st, g, t, J)'
      BY <3>4, <3>5, PlaceLineKept
    <3> QED
      BY <3>3, <3>6
  <2> QED
    BY <2>1, <2>2
<1> QED
  BY <1>2 DEF PlacesLine

LEMMA StillLine ==
  ASSUME TurnInv, PlacesLine, [Next]_vars,
         UNCHANGED <<log, live, registry, memo, task, jobs, born, told, spent>>
  PROVE  PlacesLine'
<1>1. ASSUME NEW y \in Places
      PROVE  PlaceLine(y, live[y], registry[y], task[y], JobsAt(y))'
  <2>1. PICK st, g, t, J : st = live[y] /\ g = registry[y] /\ t = task[y] /\ J = JobsAt(y)
    OBVIOUS
  <2>2. live'[y] = st /\ registry'[y] = g /\ task'[y] = t /\ JobsAt(y)' = J
    BY <2>1 DEF JobsAt
  <2>3. t \in {Idle} \cup KnownTurns /\ J \in SUBSET KnownThreads
    BY <2>1, PlaceFacts DEF JobsAt, TurnInv, Typed, JobsTyped
  <2>4. PlaceLine(y, st, g, t, J)
    BY <2>1 DEF PlacesLine
  <2>5. PlaceLine(y, st, g, t, J)'
    BY <2>3, <2>4, PlaceLineKept
  <2> QED
    BY <2>2, <2>5
<1> QED
  BY <1>1 DEF PlacesLine

LEMMA PlacesStayInLine ==
  ASSUME TurnInv, LineInv, NoneAbandoned, NoneAbandoned', [Next]_vars
  PROVE  PlacesLine'
<1>0. PlacesLine /\ BornFirst /\ StreamLine
  BY DEF LineInv
<1>1. ASSUME NEW x \in Places, NEW r \in Requests, Submit(x, r) PROVE LineMoves(x)
  BY <1>0, <1>1, SubmitLine
<1>2. ASSUME NEW x \in Places, Create(x) \/ Resume(x) \/ Close(x) PROVE LineMoves(x)
  BY <1>0, <1>2, CreateLine, ResumeLine, CloseLine
<1>3. ASSUME NEW x \in Places, TurnStep(x) \/ Cancel(x) PROVE LineMoves(x)
  BY <1>0, <1>3, PreparedLine, ReplayedLine, UnpreparedLine, DiscardLine, ProcessLine, PreviewLine,
     EndingLines, CommittedLine, CancelLine DEF TurnStep
<1>4. ASSUME NEW j \in jobs, JobStep(j) \/ DatabaseFault(j) PROVE LineMoves(j.place)
  BY <1>0, <1>4, ExportLine, LoadLine, BuildLine, AppendLine, ReloadLine, FaultLine DEF JobStep
<1>5. \A j \in jobs : j.place \in Places
  BY ThreadFields DEF TurnInv, Typed, JobsTyped
<1>6. CASE Purge \/ Erase \/ UNCHANGED vars
  BY <1>0, <1>6, StillLine DEF Purge, Erase, vars
<1> QED
  BY <1>0, <1>1, <1>2, <1>3, <1>4, <1>5, <1>6, LineStep, CrashLine DEF Next

-----------------------------------------------------------------------------
(* Sessions that have been created, and their streams. *)

\* A session is opened in a place by its creation, or where it has turns.
LEMMA Openings ==
  ASSUME TurnInv, BornFirst, [Next]_vars, NEW x \in Places
  PROVE  born \subseteq born' /\ (registry'[x] # "absent" => SessionOf[x] \in born')
<1>0. registry[x] # "absent" => SessionOf[x] \in born
  BY DEF BornFirst
<1>1. CASE UNCHANGED <<registry, born>>
  BY <1>0, <1>1
<1>2. ASSUME NEW y \in Places, NEW g \in Registrations, registry' = [registry EXCEPT ![y] = g],
             born \subseteq born', g # "absent" => SessionOf[y] \in born'
      PROVE  born \subseteq born' /\ (registry'[x] # "absent" => SessionOf[x] \in born')
  <2>1. registry \in [Places -> Registrations]
    BY DEF TurnInv, Typed, RegistryTyped, Registrations
  <2> QED
    BY <1>0, <1>2, <2>1
<1>3. ASSUME NEW y \in Places, Create(y)
      PROVE  /\ registry' = [registry EXCEPT ![y] = "active"] /\ born \subseteq born'
             /\ SessionOf[y] \in born'
  BY <1>3 DEF Create
<1>4. ASSUME NEW y \in Places, Resume(y)
      PROVE  /\ UNCHANGED registry \/ registry' = [registry EXCEPT ![y] = "recovered"]
             /\ born' = born /\ SessionOf[y] \in born
  <2>1. TurnsOf(log, SessionOf[y]) # <<>> /\ SessionOf[y] \in Sessions
    BY <1>4, PlacesAssumption DEF Resume
  <2> QED
    BY <1>4, <2>1 DEF Resume, BornFirst
<1>5. ASSUME NEW y \in Places, Teardown(y), registry[y] # "absent", born' = born
      PROVE  born \subseteq born' /\ (registry'[x] # "absent" => SessionOf[x] \in born')
  <2>1. SessionOf[y] \in born'
    BY <1>5 DEF BornFirst
  <2>2. registry' = [registry EXCEPT ![y] = "absent"] \/ registry' = [registry EXCEPT ![y] = "closing"]
    BY <1>5 DEF Teardown
  <2> QED
    BY <1>2, <1>5, <2>1, <2>2 DEF Registrations
<1>6. ASSUME NEW y \in Places, Close(y)
      PROVE  Teardown(y) /\ registry[y] # "absent" /\ born' = born
  BY <1>6 DEF Close
<1>7. ASSUME NEW y \in Places, Discard(y)
      PROVE  Teardown(y) /\ registry[y] # "absent" /\ born' = born
  <2>1. Outcome(y, "preparing", {"conflict", "refused"})
          \cup Outcome(y, "committing", {"conflict", "refused"}) # {}
    BY <1>7 DEF Discard
  <2>2. task[y] # Idle
    BY <2>1, OutcomeFacts
  <2> QED
    BY <1>7, <2>2, BusyFacts DEF Discard
<1>8. ASSUME NEW y \in Places, TurnStep(y), ~Discard(y)
      PROVE  UNCHANGED <<registry, born>>
  BY <1>8 DEF TurnStep, Prepared, Replayed, Unprepared, Process, Preview, PreviewAgain, PreviewFail,
              Committed, CommitFailed, Recalled
<1>9. ASSUME NEW y \in Places, Cancel(y) \/ (\E r \in Requests : Submit(y, r))
      PROVE  UNCHANGED <<registry, born>>
  BY <1>9 DEF Cancel, Submit
<1>10. ASSUME NEW j \in jobs, JobStep(j) \/ DatabaseFault(j)
       PROVE  UNCHANGED <<registry, born>>
  BY <1>10, ThreadStep
<1>11. ASSUME NEW p \in Processes, Crash(p)
       PROVE  born' = born /\ (registry'[x] # "absent" => SessionOf[x] \in born')
  BY <1>0, <1>11 DEF Crash
<1>12. CASE Purge \/ Erase \/ UNCHANGED vars
  BY <1>1, <1>12 DEF Purge, Erase, vars
<1>13. ASSUME NEW y \in Places, Create(y) \/ Resume(y)
       PROVE  born \subseteq born' /\ (registry'[x] # "absent" => SessionOf[x] \in born')
  BY <1>1, <1>2, <1>3, <1>4, <1>13 DEF Registrations
<1> QED
  BY <1>1, <1>5, <1>6, <1>7, <1>8, <1>9, <1>10, <1>11, <1>12, <1>13 DEF Next

LEMMA StreamGrowsInLine ==
  ASSUME TurnInv, LineInv, NoneAbandoned, [Next]_vars
  PROVE  StreamLine' /\ (\A s \in Sessions : TurnsOf(log', s) # <<>> => s \in born')
<1>0. PlacesLine /\ BornFirst /\ StreamLine
  BY DEF LineInv
<1>1. born \subseteq born'
  <2>1. CASE Places # {}
    BY <1>0, <2>1, Openings
  <2>2. CASE Places = {}
    BY <2>2, ThreadStep DEF Next, vars, Purge, Erase, Crash
  <2> QED
    BY <2>1, <2>2
<1>2. CASE log' = log
  BY <1>0, <1>1, <1>2 DEF StreamLine, TurnsCompose, BornFirst
<1>3. ASSUME NEW j \in jobs, j.step = "append", Expected(j), Appended(j)
      PROVE  StreamLine' /\ (\A s \in Sessions : TurnsOf(log', s) # <<>> => s \in born')
  <2>1. PICK own, turns, e : own = SessionOf[j.place] /\ turns = TurnsOf(log, own) /\ e = j.event
    OBVIOUS
  <2>2. PICK longer : longer = Append(turns, e)
    OBVIOUS
  <2>3. /\ own \in Sessions /\ turns \in Seq(Events) /\ e \in Events /\ e.session = own
        /\ log \in Seq(Events) /\ log' = Append(log, e)
        /\ TurnsOf(log', own) = longer /\ Replayable(longer)
        /\ FollowsFrom(e, Before(turns, Len(turns) + 1))
    BY <1>0, <1>3, <2>1, <2>2, AppendInLine
  <2>4. ASSUME NEW s, s # own PROVE TurnsOf(log', s) = TurnsOf(log, s)
    BY <2>3, <2>4, TurnsOfAppend
  <2>5. own \in born'
    <3>1. registry[j.place] # "absent" /\ j.place \in Places
      BY <1>0, ThreadInLine
    <3> QED
      BY <1>0, <1>1, <2>1, <3>1 DEF BornFirst
  <2>6. \A s \in Sessions : TurnsOf(log', s) # <<>> => s \in born'
    BY <1>0, <1>1, <2>4, <2>5 DEF BornFirst
  <2>7. \A s \in Sessions : Replayable(TurnsOf(log', s))
    BY <1>0, <2>3, <2>4 DEF StreamLine
  <2>8. ASSUME NEW i \in 1..Len(longer)
        PROVE  /\ longer[i].result = Answer(Before(longer, i), longer[i].request.text)
               /\ longer[i].marks = Marked(Before(longer, i), longer[i].request.text)
               /\ longer[i].digest = longer[i].request.text
    <3>1. /\ Len(turns) \in Nat /\ Len(longer) = Len(turns) + 1 /\ longer[Len(turns) + 1] = e
          /\ \A k \in 1..Len(turns) : longer[k] = turns[k]
      <4> HIDE DEF Events
      <4> QED
        BY <2>2, <2>3
    <3>2. i \in 1..(Len(turns) + 1)
      BY <3>1
    <3>3. Before(longer, i) = Before(turns, i)
      BY <2>2, <2>3, <3>2, BeforeKept
    <3>4. CASE i = Len(turns) + 1
      BY <2>3, <3>1, <3>3, <3>4 DEF FollowsFrom
    <3>5. CASE i # Len(turns) + 1
      <4>1. i \in 1..Len(turns) /\ longer[i] = turns[i]
        BY <3>1, <3>2, <3>5
      <4>2. /\ turns[i].result = Answer(Before(turns, i), turns[i].request.text)
            /\ turns[i].marks = Marked(Before(turns, i), turns[i].request.text)
            /\ turns[i].digest = turns[i].request.text
        BY <1>0, <2>1, <2>3, <4>1 DEF StreamLine, TurnsCompose
      <4> QED
        BY <3>3, <4>1, <4>2
    <3> QED
      BY <3>4, <3>5
  <2>9. TurnsCompose'
    <3> SUFFICES ASSUME NEW s \in Sessions, NEW i \in 1..Len(TurnsOf(log', s))
                 PROVE  LET e1 == TurnsOf(log', s)[i]
                            st == Before(TurnsOf(log', s), i)
                        IN  /\ e1.result = Answer(st, e1.request.text)
                            /\ e1.marks = Marked(st, e1.request.text)
                            /\ e1.digest = e1.request.text
      BY DEF TurnsCompose
    <3>1. CASE s = own
      BY <2>3, <2>8, <3>1
    <3>2. CASE s # own
      BY <1>0, <2>4, <3>2 DEF StreamLine, TurnsCompose
    <3> QED
      BY <3>1, <3>2
  <2> QED
    BY <2>6, <2>7, <2>9 DEF StreamLine
<1> QED
  BY <1>2, <1>3, StreamSteps

LEMMA LineInvInit == Init => LineInv
<1> SUFFICES ASSUME Init PROVE LineInv
  OBVIOUS
<1>1. \A s : TurnsOf(log, s) = <<>>
  BY TurnsOfNone DEF Init
<1>2. PlacesLine
  <2> SUFFICES ASSUME NEW x \in Places
               PROVE  PlaceLine(x, live[x], registry[x], task[x], JobsAt(x))
    BY DEF PlacesLine
  <2>1. live[x] = NoState /\ registry[x] = "absent" /\ task[x] = Idle /\ JobsAt(x) = {}
    BY DEF Init, JobsAt
  <2> QED
    BY <2>1, RestLine
<1>3. BornFirst
  BY <1>1 DEF Init, BornFirst
<1>4. StreamLine
  BY <1>1 DEF StreamLine, Replayable, TurnsCompose
<1> QED
  BY <1>2, <1>3, <1>4 DEF LineInv

LEMMA LineInvStep ==
  TurnInv /\ LineInv /\ NoneAbandoned /\ NoneAbandoned' /\ [Next]_vars => LineInv'
<1> SUFFICES ASSUME TurnInv, LineInv, NoneAbandoned, NoneAbandoned', [Next]_vars PROVE LineInv'
  OBVIOUS
<1>1. PlacesLine'
  BY PlacesStayInLine
<1>2. StreamLine' /\ (\A s \in Sessions : TurnsOf(log', s) # <<>> => s \in born')
  BY StreamGrowsInLine
<1>3. \A x \in Places : registry'[x] # "absent" => SessionOf[x] \in born'
  BY Openings DEF LineInv
<1>4. BornFirst'
  BY <1>2, <1>3 DEF BornFirst
<1> QED
  BY <1>1, <1>2, <1>4 DEF LineInv

LEMMA LineInvHolds == Spec /\ []NoneAbandoned => []LineInv
<1>1. Init => LineInv
  BY LineInvInit
<1>2. TurnInv /\ LineInv /\ NoneAbandoned /\ NoneAbandoned' /\ [Next]_vars => LineInv'
  BY LineInvStep
<1> QED
  BY <1>1, <1>2, TurnInvHolds, PTL DEF Spec

-----------------------------------------------------------------------------
\* While no worker thread outlives its turn, what is written is read again, and
\* every event of a session is what the engine makes of its text after the
\* session's events before it: commit_turn under races of any number of places
\* and processes, lost acknowledgements, crashes and cancelled turns.
THEOREM StreamSoundHolds == Spec /\ []NoneAbandoned => []StreamSound
<1>1. TurnInv /\ LineInv => StreamSound
  BY DEF TurnInv, LineInv, StreamLine, StreamSound, StreamReadable
<1> QED
  BY <1>1, TurnInvHolds, LineInvHolds, PTL

\* While no worker thread outlives its turn, no answer is given for a turn that
\* is not on record, a place between turns holds a state its session had, and a
\* session that is gone holds none: process_turn's roll-backs and discards.
THEOREM MemoryOnRecordHolds == Spec /\ []NoneAbandoned => []MemoryOnRecord
<1>1. TurnInv /\ LineInv /\ NoneAbandoned => MemoryOnRecord
  <2> SUFFICES ASSUME TurnInv, LineInv, NoneAbandoned PROVE MemoryOnRecord
    OBVIOUS
  <2>0. PlacesLine
    BY DEF LineInv
  <2>1. RestsOnRecord
    <3> SUFFICES ASSUME NEW x \in Places, Resting(x), registry[x] # "absent"
                 PROVE  \/ live[x] = Fresh
                        \/ \E i \in 1..Len(TurnsAt(x)) : live[x] = Replay(SubSeq(TurnsAt(x), 1, i))
      BY DEF RestsOnRecord
    <3>1. SoFar(SessionOf[x], live[x])
      BY <2>0, NotAhead DEF Resting
    <3>2. PICK turns : turns = TurnsAt(x)
      OBVIOUS
    <3>3. Len(turns) \in Nat
      BY <3>2, TurnsTyped, PlacesAssumption DEF TurnsAt
    <3>4. PICK i \in 1..(Len(turns) + 1) : live[x] = Before(turns, i)
      BY <3>1, <3>2 DEF SoFar, TurnsAt
    <3>5. CASE i = 1
      BY <3>4, <3>5 DEF Before
    <3>6. CASE i # 1
      <4>1. i - 1 \in 1..Len(turns)
        BY <3>3, <3>6
      <4>2. live[x] = Replay(SubSeq(turns, 1, i - 1))
        BY <3>4, <3>6, Zenon DEF Before
      <4> QED
        BY <3>2, <4>1, <4>2
    <3> QED
      BY <3>5, <3>6
  <2>2. NothingLeaks
    BY <2>0, InLine DEF NothingLeaks, PlaceLine, StateLine
  <2> QED
    BY <2>1, <2>2 DEF MemoryOnRecord, TurnInv
<1> QED
  BY <1>1, TurnInvHolds, LineInvHolds, PTL

-----------------------------------------------------------------------------
(***************************************************************************)
(* While, besides, one place serves each session.                          *)
(***************************************************************************)
OwnStream(x) == log' = log \/ \E e \in Events : e.session = SessionOf[x] /\ log' = Append(log, e)

\* What is on record for a session whose place does not append.
LEMMA PlaceSoleKept ==
  ASSUME TurnInv, [Next]_vars, NEW x, NEW t, NEW J, PlaceSole(x, t, J),
         \A i \in 1..Len(log') : log'[i].session = SessionOf[x] => i \in 1..Len(log)
  PROVE  PlaceSole(x, t, J)'
<1>1. LogTyped /\ Len(log) =< Len(log') /\ \A i \in 1..Len(log) : log'[i] = log[i]
  BY StreamGrows DEF TurnInv, Typed
<1>2. Len(log') \in Nat
  BY StreamGrows DEF TurnInv, Typed, LogTyped
<1>3. ASSUME NEW r, ~OnRecord(SessionOf[x], r) PROVE ~OnRecord(SessionOf[x], r)'
  BY <1>1, <1>3 DEF OnRecord
<1>4. ASSUME NEW r, NEW answer, OnRecordAs(SessionOf[x], r, answer)
      PROVE  OnRecordAs(SessionOf[x], r, answer)'
  <2>1. PICK s : s = SessionOf[x]
    OBVIOUS
  <2>2. OnRecordAs(s, r, answer)'
    BY <1>1, <1>2, <1>4, <2>1, RecordKept
  <2> QED
    BY <2>1, <2>2
<1>5. TurnSole(x, t)'
  <2>1. PICK r, answer : r = t.request /\ answer = t.answer
    OBVIOUS
  <2> QED
    BY <1>3, <1>4, <2>1 DEF PlaceSole, TurnSole
<1>6. ASSUME NEW j \in J PROVE ThreadSole(x, t, j)'
  <2>1. PICK r, answer, recorded : r = j.request /\ answer = t.answer /\ recorded = j.recorded
    OBVIOUS
  <2>2. ThreadSole(x, t, j)
    BY DEF PlaceSole
  <2> QED
    BY <1>3, <1>4, <2>1, <2>2 DEF ThreadSole
<1> QED
  BY <1>5, <1>6 DEF PlaceSole

LEMMA PlaceSoleStill ==
  ASSUME log' = log, NEW x, NEW t, NEW J, PlaceSole(x, t, J)
  PROVE  PlaceSole(x, t, J)'
<1>1. /\ \A s, r : OnRecord(s, r)' <=> OnRecord(s, r)
      /\ \A s, r, answer : OnRecordAs(s, r, answer)' <=> OnRecordAs(s, r, answer)
  BY DEF OnRecord, OnRecordAs
<1>2. TurnSole(x, t)'
  BY <1>1 DEF PlaceSole, TurnSole
<1>3. ASSUME NEW j \in J PROVE ThreadSole(x, t, j)'
  <2>1. ThreadSole(x, t, j)
    BY DEF PlaceSole
  <2> QED
    BY <1>1, <2>1 DEF ThreadSole
<1> QED
  BY <1>2, <1>3 DEF PlaceSole

LEMMA SoleStep ==
  ASSUME TurnInv, PlacesSole, OneHome, [Next]_vars, NEW x \in Places, LineMoves(x), OwnStream(x),
         PlaceSole(x, task[x], JobsAt(x))'
  PROVE  PlacesSole'
<1>1. ASSUME NEW y \in Places, y # x
      PROVE  PlaceSole(y, task[y], JobsAt(y))'
  <2>1. PICK t, J : t = task[y] /\ J = JobsAt(y)
    OBVIOUS
  <2>2. JobsAt(y)' = JobsAt(y)
    BY <1>1 DEF LineMoves, JobsAt
  <2>3. task'[y] = task[y]
    BY <1>1 DEF LineMoves, TurnInv, Typed, TaskTyped
  <2>4. \A i \in 1..Len(log') : log'[i].session = SessionOf[y] => i \in 1..Len(log)
    <3>1. SessionOf[y] # SessionOf[x]
      BY <1>1 DEF OneHome
    <3>2. ASSUME NEW e \in Events, e.session = SessionOf[x], log' = Append(log, e)
          PROVE  \A i \in 1..Len(log') : log'[i].session = SessionOf[y] => i \in 1..Len(log)
      <4>1. log \in Seq(Events)
        BY DEF TurnInv, Typed, LogTyped
      <4>2. Len(log) \in Nat /\ Len(log') = Len(log) + 1 /\ log'[Len(log) + 1] = e
        BY <3>2, <4>1
      <4> QED
        BY <3>1, <3>2, <4>2
    <3> QED
      BY <3>2 DEF OwnStream
  <2>5. PlaceSole(y, t, J)
    BY <2>1 DEF PlacesSole
  <2>6. PlaceSole(y, t, J)'
    BY <2>4, <2>5, PlaceSoleKept
  <2> QED
    BY <2>1, <2>2, <2>3, <2>6
<1> QED
  BY <1>1 DEF PlacesSole

\* A turn that waits for no thread has none.
LEMMA NoThreads ==
  ASSUME TurnInv', NoneAbandoned', NEW x \in Places,
         task'[x] = Idle \/ task'[x].stage \notin {"preparing", "committing"}
  PROVE  JobsAt(x)' = {}
<1> SUFFICES ASSUME NEW j \in jobs', j.place = x PROVE FALSE
  BY DEF JobsAt
<1>1. JobServes(j)' /\ j.abandoned = 0
  BY DEF TurnInv, NoneAbandoned
<1> QED
  BY <1>1 DEF JobServes

LEMMA EndedSole ==
  ASSUME TurnInv, TurnInv', NoneAbandoned', NEW x \in Places, Ended(x)
  PROVE  PlaceSole(x, task[x], JobsAt(x))'
<1>1. task'[x] = Idle
  BY DEF Ended, TurnInv, Typed, TaskTyped
<1>2. JobsAt(x)' = {}
  BY <1>1, NoThreads
<1> QED
  BY <1>1, <1>2 DEF PlaceSole, TurnSole

\* A turn that goes on by itself.
LEMMA MovedSole ==
  ASSUME TurnInv, TurnInv', NoneAbandoned', log' = log, NEW x \in Places, NEW t,
         task' = [task EXCEPT ![x] = t], t.stage \notin {"preparing", "committing"}, TurnSole(x, t)
  PROVE  PlaceSole(x, task[x], JobsAt(x))'
<1>1. task'[x] = t
  BY DEF TurnInv, Typed, TaskTyped
<1>2. JobsAt(x)' = {}
  BY <1>1, NoThreads
<1>3. TurnSole(x, t)'
  BY DEF TurnSole, OnRecord, OnRecordAs
<1> QED
  BY <1>1, <1>2, <1>3 DEF PlaceSole

LEMMA PreparedSole ==
  ASSUME TurnInv, TurnInv', PlacesSole, NoneAbandoned', NEW x \in Places,
         Prepared(x) \/ Replayed(x) \/ Committed(x)
  PROVE  PlaceSole(x, task[x], JobsAt(x))'
<1>1. ASSUME NEW stage, NEW results, NEW j \in Outcome(x, stage, results)
      PROVE  /\ ThreadSole(x, task[x], j) /\ j.step = "done" /\ j.result \in results
             /\ j.request = task[x].request /\ task[x] \in KnownTurns
  BY OutcomeFacts DEF PlacesSole, PlaceSole, JobsAt
<1>2. CASE Ended(x)
  BY <1>2, EndedSole
<1>3. CASE Prepared(x) /\ ~Ended(x)
  <2>1. PICK j \in Outcome(x, "preparing", {"ready"}) :
          task' = [task EXCEPT ![x] = [@ EXCEPT !.stage = "understanding",
                     !.checkpoint = live[x], !.before = j.before, !.version = j.version]]
    BY <1>3 DEF Prepared
  <2>2. PICK t : t = [task[x] EXCEPT !.stage = "understanding",
                        !.checkpoint = live[x], !.before = j.before, !.version = j.version]
    OBVIOUS
  <2>3. task' = [task EXCEPT ![x] = t] /\ log' = log
    BY <1>3, <2>1, <2>2 DEF Prepared
  <2>4. t.stage = "understanding" /\ t.request = task[x].request
    BY <1>1, <2>2 DEF KnownTurns
  <2>5. ~OnRecord(SessionOf[x], task[x].request)
    BY <1>1 DEF ThreadSole
  <2>6. TurnSole(x, t)
    BY <2>4, <2>5 DEF TurnSole
  <2> QED
    BY <2>3, <2>4, <2>6, MovedSole
<1>4. CASE Replayed(x) /\ ~Ended(x)
  <2>1. PICK j \in Outcome(x, "preparing", {"existing"}) :
          task' = [task EXCEPT ![x] = [@ EXCEPT !.stage = "previewing again",
                     !.checkpoint = live[x], !.answer = j.recorded]]
    BY <1>4 DEF Replayed, Respond
  <2>2. PICK t : t = [task[x] EXCEPT !.stage = "previewing again",
                        !.checkpoint = live[x], !.answer = j.recorded]
    OBVIOUS
  <2>3. task' = [task EXCEPT ![x] = t] /\ log' = log
    BY <1>4, <2>1, <2>2 DEF Replayed
  <2>4. t.stage = "previewing again" /\ t.request = task[x].request /\ t.answer = j.recorded
    BY <1>1, <2>2 DEF KnownTurns
  <2>5. OnRecordAs(SessionOf[x], task[x].request, j.recorded)
    BY <1>1 DEF ThreadSole
  <2>6. TurnSole(x, t)
    BY <2>4, <2>5 DEF TurnSole
  <2> QED
    BY <2>3, <2>4, <2>6, MovedSole
<1>5. CASE Committed(x)
  <2>1. PICK j : j \in Outcome(x, "committing", {"ok"})
    BY <1>5 DEF Committed
  <2>2. PICK t : t = [task[x] EXCEPT !.stage = "recalling"]
    OBVIOUS
  <2>3. task' = [task EXCEPT ![x] = t] /\ log' = log
    BY <1>5, <2>2 DEF Committed, TurnInv, Typed, TaskTyped
  <2>4. t.stage = "recalling" /\ t.request = task[x].request /\ t.answer = task[x].answer
    BY <1>1, <2>1, <2>2 DEF KnownTurns
  <2>5. OnRecordAs(SessionOf[x], task[x].request, task[x].answer)
    BY <1>1, <2>1 DEF ThreadSole
  <2>6. TurnSole(x, t)
    BY <2>4, <2>5 DEF TurnSole
  <2> QED
    BY <2>3, <2>4, <2>6, MovedSole
<1> QED
  BY <1>2, <1>3, <1>4, <1>5

LEMMA CommitStageSole ==
  ASSUME TurnInv, PlacesLine, NoneAbandoned, PlacesSole, log' = log, NEW x \in Places,
         task[x].stage \in {"understanding", "previewing"},
         NEW answer, CommitStage(x, answer)
  PROVE  PlaceSole(x, task[x], JobsAt(x))'
<1>0. Idle.stage = "idle"
  BY DEF Idle
<1>1. task[x] # Idle
  BY <1>0
<1>2. PICK u : u = task[x]
  OBVIOUS
<1>3. u \in KnownTurns /\ ~OnRecord(SessionOf[x], u.request)
  BY <1>1, <1>2, TurnFields DEF TurnInv, Typed, PlacesSole, PlaceSole, TurnSole
<1>4. PICK t : t = [u EXCEPT !.stage = "committing", !.answer = answer]
  OBVIOUS
<1>5. task'[x] = t /\ t.stage = "committing"
  BY <1>2, <1>3, <1>4 DEF CommitStage, TurnInv, Typed, TaskTyped, KnownTurns
<1>6. PICK k : k = [Job(x, "build", u.request) EXCEPT !.before = u.before,
                      !.version = u.version, !.answer = answer]
  OBVIOUS
<1>7. jobs' = jobs \cup {k}
  BY <1>2, <1>6 DEF CommitStage
<1>8. k.step = "build" /\ k.request = u.request
  BY <1>6 DEF Job
<1>9. JobsAt(x) = {}
  BY InLine DEF Serves
<1>10. \A j \in JobsAt(x)' : j = k
  BY <1>7, <1>9 DEF JobsAt
<1>11. ~OnRecord(SessionOf[x], u.request)'
  BY <1>3 DEF OnRecord
<1>12. ThreadSole(x, t, k)'
  BY <1>8, <1>11 DEF ThreadSole
<1>13. TurnSole(x, t)'
  BY <1>5 DEF TurnSole
<1> QED
  BY <1>5, <1>10, <1>12, <1>13 DEF PlaceSole

LEMMA ProcessSole ==
  ASSUME TurnInv, TurnInv', PlacesLine, NoneAbandoned, NoneAbandoned', PlacesSole,
         NEW x \in Places, Process(x) \/ Preview(x)
  PROVE  PlaceSole(x, task[x], JobsAt(x))'
<1>0. Idle.stage = "idle"
  BY DEF Idle
<1>1. log' = log /\ task[x].stage \in {"understanding", "previewing"}
  BY DEF Process, Preview
<1>2. CASE Ended(x)
  BY <1>2, EndedSole
<1>3. ASSUME NEW answer, CommitStage(x, answer) PROVE PlaceSole(x, task[x], JobsAt(x))'
  BY <1>1, <1>3, CommitStageSole
<1>4. ASSUME NEW answer,
             task' = [task EXCEPT ![x].stage = "previewing", ![x].answer = answer]
      PROVE  PlaceSole(x, task[x], JobsAt(x))'
  <2>1. task[x] \in KnownTurns /\ ~OnRecord(SessionOf[x], task[x].request)
    BY <1>0, <1>1, TurnFields DEF TurnInv, Typed, PlacesSole, PlaceSole, TurnSole
  <2>2. PICK t : t = [task[x] EXCEPT !.stage = "previewing", !.answer = answer]
    OBVIOUS
  <2>3. task' = [task EXCEPT ![x] = t]
    BY <1>4, <2>2 DEF TurnInv, Typed, TaskTyped
  <2>4. t.stage = "previewing" /\ t.request = task[x].request
    BY <2>1, <2>2 DEF KnownTurns
  <2>5. TurnSole(x, t)
    BY <2>1, <2>4 DEF TurnSole
  <2> QED
    BY <1>1, <2>3, <2>4, <2>5, MovedSole
<1> QED
  BY <1>2, <1>3, <1>4 DEF Process, Preview

LEMMA SubmitSole ==
  ASSUME TurnInv, PlacesLine, NoneAbandoned, NEW x \in Places, NEW r \in Requests, Submit(x, r)
  PROVE  PlaceSole(x, task[x], JobsAt(x))'
<1>1. PICK k : k = Job(x, "export", r)
  OBVIOUS
<1>2. k.step = "export"
  BY <1>1 DEF Job
<1>3. task[x] = Idle /\ jobs' = jobs \cup {k} /\ task'[x].stage = "preparing"
  BY <1>1 DEF Submit, TurnInv, Typed, TaskTyped
<1>4. JobsAt(x) = {}
  BY <1>3, InLine DEF Serves
<1>5. \A j \in JobsAt(x)' : j = k
  BY <1>3, <1>4 DEF JobsAt
<1>6. PICK t : t = task'[x]
  OBVIOUS
<1>7. TurnSole(x, t)' /\ ThreadSole(x, t, k)'
  BY <1>2, <1>3, <1>6 DEF TurnSole, ThreadSole
<1> QED
  BY <1>5, <1>6, <1>7 DEF PlaceSole

\* The one thread of a place goes on as k.
LEMMA ThreadMovesSole ==
  ASSUME TurnInv, PlacesLine, NoneAbandoned, NEW j \in jobs, NEW k,
         Finish(j, k) \/ Advance(j, k), task' = task,
         NEW x, x = j.place, NEW t, t = task[x], ThreadSole(x, t, k)'
  PROVE  PlaceSole(j.place, task[j.place], JobsAt(j.place))'
<1>1. JobsAt(x) = {j} /\ Serves(j, t)
  BY ThreadInLine
<1>2. jobs' = (jobs \ {j}) \cup {k}
  BY DEF Finish, Advance, NoneAbandoned
<1>3. \A m \in JobsAt(x)' : m = k
  BY <1>1, <1>2 DEF JobsAt
<1>4. TurnSole(x, t)'
  BY <1>1 DEF Serves, TurnSole
<1>5. PlaceSole(x, t, JobsAt(x))'
  BY <1>3, <1>4 DEF PlaceSole
<1> QED
  BY <1>5

\* A thread that fails has nothing to say.
LEMMA FailedSole ==
  ASSUME TurnInv, PlacesLine, NoneAbandoned, NEW j \in jobs,
         NEW result \in {"refused", "misused", "conflict", "error"},
         Finish(j, Done(j, result)), task' = task
  PROVE  PlaceSole(j.place, task[j.place], JobsAt(j.place))'
<1>1. PICK k, x, t : k = Done(j, result) /\ x = j.place /\ t = task[x]
  OBVIOUS
<1>2. k.step = "done" /\ k.result = result
  BY <1>1, ThreadInLine, DoneFields DEF Results
<1>3. ThreadSole(x, t, k)'
  BY <1>2 DEF ThreadSole
<1> QED
  BY <1>1, <1>3, ThreadMovesSole

\* What a replay finds is told as it is recorded.
LEMMA ResyncSole ==
  ASSUME TurnInv, PlacesLine, NoneAbandoned, NEW j \in jobs, NEW result \in {"existing", "conflict"},
         log' = log, task' = task,
         Resynchronise(j, result), result = "existing" => ~Taken(j.place, j.request) /\ Recorded(j.request.op) # {}
  PROVE  PlaceSole(j.place, task[j.place], JobsAt(j.place))'
<1>1. j \in KnownThreads /\ j.place \in Places /\ live[j.place] # NoState /\ j.request \in Requests
  BY ThreadInLine, ThreadFields
<1>2. PICK recorded : recorded = RecordedAnswer(j.request)
  OBVIOUS
<1>3. PICK k, x, t : k = [Done(j, result) EXCEPT !.recorded = recorded] /\ x = j.place /\ t = task[x]
  OBVIOUS
<1>4. Finish(j, k)
  BY <1>1, <1>2, <1>3 DEF Resynchronise
<1>5. Done(j, result) \in KnownThreads /\ Done(j, result).step = "done"
      /\ Done(j, result).result = result /\ Done(j, result).request = j.request
  BY <1>1, DoneFields DEF Results
<1>6. recorded \in Answers
  BY <1>2, RecordedTyped DEF TurnInv, Typed
<1>7. k.step = "done" /\ k.result = result /\ k.request = j.request /\ k.recorded = recorded
  BY <1>3, <1>5, <1>6, RecordedFields
<1>8. result = "existing" => OnRecordAs(SessionOf[x], j.request, recorded)
  BY <1>1, <1>2, <1>3, RecordFound DEF TurnInv, Typed
<1>9. result = "existing" => OnRecordAs(SessionOf[x], j.request, recorded)'
  BY <1>8 DEF OnRecordAs
<1>10. ThreadSole(x, t, k)'
  BY <1>7, <1>9 DEF ThreadSole
<1> QED
  BY <1>3, <1>4, <1>10, ThreadMovesSole

LEMMA PrepareSole ==
  ASSUME TurnInv, PlacesLine, NoneAbandoned, NEW j \in jobs, PrepareExport(j) \/ PrepareLoad(j)
  PROVE  PlaceSole(j.place, task[j.place], JobsAt(j.place))'
<1>1. PICK x, t : x = j.place /\ t = task[x]
  OBVIOUS
<1>2. /\ j \in KnownThreads /\ x \in Places /\ live[x] # NoState /\ j.request \in Requests
      /\ SessionOf[x] \in Sessions
  BY <1>1, ThreadInLine, ThreadFields
<1>3. task' = task /\ log' = log
  BY DEF PrepareExport, PrepareLoad, Unmoved
<1>4. CASE PrepareExport(j)
  <2>1. PICK k : k = [j EXCEPT !.step = "load", !.before = live[j.place]]
    OBVIOUS
  <2>2. Advance(j, k)
    BY <1>1, <1>2, <1>4, <2>1 DEF PrepareExport
  <2>3. k.step = "load"
    BY <1>2, <2>1 DEF KnownThreads
  <2>4. ThreadSole(x, t, k)'
    BY <2>3 DEF ThreadSole
  <2> QED
    BY <1>1, <1>3, <2>2, <2>4, ThreadMovesSole
<1>5. CASE PrepareLoad(j) /\ Verdict(j) = "existing"
  <2>1. ~Taken(j.place, j.request) /\ Recorded(j.request.op) # {}
    BY <1>5 DEF Verdict
  <2>2. Resynchronise(j, "existing")
    BY <1>5 DEF PrepareLoad
  <2> QED
    BY <1>3, <2>1, <2>2, ResyncSole
<1>6. CASE PrepareLoad(j) /\ Verdict(j) # "existing"
  <2>1. PICK verdict : verdict = Verdict(j)
    OBVIOUS
  <2>2. PICK k : k = [Done(j, verdict) EXCEPT !.version = Len(log)]
    OBVIOUS
  <2>3. Finish(j, k)
    BY <1>6, <2>1, <2>2 DEF PrepareLoad
  <2>4. verdict \in {"refused", "misused", "conflict", "ready"}
        /\ (verdict = "ready" => Recorded(j.request.op) = {})
    <3>1. verdict \in {"refused", "misused", "conflict", "ready"}
      BY <1>6, <2>1 DEF Verdict
    <3>2. verdict = "ready" => Recorded(j.request.op) = {}
      BY <2>1 DEF Verdict
    <3> QED
      BY <3>1, <3>2
  <2>5. Done(j, verdict) \in KnownThreads /\ Done(j, verdict).step = "done"
        /\ Done(j, verdict).result = verdict /\ Done(j, verdict).request = j.request
    BY <1>2, <2>4, DoneFields DEF Results
  <2>6. Len(log) \in Nat
    BY DEF TurnInv, Typed, LogTyped
  <2>7. k.step = "done" /\ k.result = verdict /\ k.request = j.request
    BY <2>2, <2>5, <2>6, VersionFields
  <2>8. verdict = "ready" => ~OnRecord(SessionOf[x], j.request)'
    BY <1>3, <2>4 DEF Recorded, OnRecord
  <2>9. ThreadSole(x, t, k)'
    BY <2>4, <2>7, <2>8 DEF ThreadSole
  <2> QED
    BY <1>1, <1>3, <2>3, <2>9, ThreadMovesSole
<1> QED
  BY <1>4, <1>5, <1>6

\* A commit records the answer its turn will tell, or finds that another thread
\* has recorded the operation, which none can have.
LEMMA CommitSole ==
  ASSUME TurnInv, PlacesLine, StreamLine, NoneAbandoned, PlacesSole, NEW j \in jobs,
         CommitBuild(j) \/ CommitAppend(j) \/ CommitReload(j) \/ DatabaseFault(j)
  PROVE  PlaceSole(j.place, task[j.place], JobsAt(j.place))'
<1>1. PICK x, t : x = j.place /\ t = task[x]
  OBVIOUS
<1>2. /\ j \in KnownThreads /\ x \in Places /\ j.request \in Requests /\ j \in JobsAt(x)
      /\ SessionOf[x] \in Sessions /\ ThreadLine(x, live[x], t, j) /\ TurnLine(x, live[x], t)
      /\ Serves(j, t)
  BY <1>1, ThreadInLine, ThreadFields
<1>3. ThreadSole(x, t, j) /\ task' = task
  BY <1>1, <1>2 DEF PlacesSole, PlaceSole, CommitBuild, CommitAppend, CommitReload, DatabaseFault, Unmoved
<1>4. ASSUME NEW result \in {"refused", "conflict", "error"}, Finish(j, Done(j, result))
      PROVE  PlaceSole(j.place, task[j.place], JobsAt(j.place))'
  BY <1>3, <1>4, FailedSole
<1>5. ASSUME NEW k, k.step \in {"append", "reload"}, k.request = j.request, Advance(j, k),
             j.step \in {"build", "append"}, log' = log
      PROVE  PlaceSole(j.place, task[j.place], JobsAt(j.place))'
  <2>1. ~OnRecord(SessionOf[x], j.request)
    BY <1>3, <1>5 DEF ThreadSole
  <2>2. ThreadSole(x, t, k)'
    BY <1>5, <2>1 DEF ThreadSole, OnRecord
  <2> QED
    BY <1>1, <1>3, <1>5, <2>2, ThreadMovesSole
<1>6. CASE CommitBuild(j)
  <2>1. CASE Finish(j, Done(j, "error"))
    BY <1>4, <2>1
  <2>2. CASE Consistent(j)
    <3>1. PICK e : e = EventOf(j.place, j.request, live[j.place], j.answer)
      OBVIOUS
    <3>2. PICK k : k = [j EXCEPT !.step = "append", !.event = e]
      OBVIOUS
    <3>3. Advance(j, k) /\ log' = log /\ j.step = "build"
      BY <1>6, <2>2, <3>1, <3>2 DEF CommitBuild
    <3>4. k.step = "append" /\ k.request = j.request
      BY <1>2, <3>2 DEF KnownThreads
    <3> QED
      BY <1>5, <3>3, <3>4
  <2> QED
    BY <1>6, <2>1, <2>2 DEF CommitBuild
<1>7. CASE CommitAppend(j)
  <2>1. CASE Finish(j, Done(j, "refused"))
    BY <1>4, <2>1
  <2>2. CASE Advance(j, [j EXCEPT !.step = "reload"]) /\ log' = log
    <3>1. PICK k : k = [j EXCEPT !.step = "reload"]
      OBVIOUS
    <3>2. k.step = "reload" /\ k.request = j.request
      BY <1>2, <3>1 DEF KnownThreads
    <3>3. j.step \in {"build", "append"}
      BY <1>7 DEF CommitAppend
    <3>4. Advance(j, k) /\ log' = log
      BY <2>2, <3>1
    <3> QED
      BY <1>5, <3>2, <3>3, <3>4
  <2>3. CASE Expected(j) /\ Appended(j) /\ Finish(j, Done(j, "ok"))
    <3>1. PICK k : k = Done(j, "ok")
      OBVIOUS
    <3>2. k.step = "done" /\ k.result = "ok" /\ k.request = j.request
      BY <1>2, <3>1, DoneFields DEF Results
    <3>3. PICK s, turns, e, answer : s = SessionOf[x] /\ turns = TurnsOf(log, s) /\ e = j.event
                                     /\ answer = t.answer
      OBVIOUS
    <3>4. j.step = "append"
      BY <1>7 DEF CommitAppend
    <3>5. e \in Events /\ e.session = s /\ e.request = j.request /\ log \in Seq(Events)
          /\ log' = Append(log, e)
      BY <1>1, <2>3, <3>3, <3>4, AppendInLine
    <3>6. e.result = answer
      <4>1. t.stage = "committing" /\ t # Idle /\ t.request = j.request
        BY <1>2, <3>4 DEF ThreadLine, Serves
      <4> QED
        BY <1>2, <3>3, <3>4, <4>1 DEF ThreadLine, TurnLine
    <3>7. Len(log') \in Nat \ {0} /\ log'[Len(log')] = e
      BY <3>5
    <3>8. OnRecordAs(SessionOf[x], j.request, t.answer)'
      BY <3>3, <3>5, <3>6, <3>7 DEF OnRecordAs
    <3>9. ThreadSole(x, t, k)'
      BY <3>2, <3>8 DEF ThreadSole
    <3> QED
      BY <1>1, <1>3, <2>3, <3>1, <3>9, ThreadMovesSole
  <2> QED
    BY <1>7, <2>1, <2>2, <2>3 DEF CommitAppend
<1>8. CASE CommitReload(j)
  <2>1. log' = log /\ ~OnRecord(SessionOf[x], j.request)
    BY <1>3, <1>8 DEF CommitReload, ThreadSole
  <2>2. CASE Finish(j, Done(j, "refused"))
    BY <1>4, <2>2
  <2>3. CASE Finish(j, Done(j, "error"))
    BY <1>4, <2>3
  <2>4. CASE Finish(j, Done(j, "conflict"))
    BY <1>4, <2>4
  <2>5. CASE /\ ~Taken(j.place, j.request)
             /\ Resynchronise(j, IF Recorded(j.request.op) # {} THEN "ok" ELSE "conflict")
    <3>1. Recorded(j.request.op) = {}
      BY <1>1, <1>2, <2>1, <2>5, RecordFound DEF TurnInv, Typed
    <3>2. Resynchronise(j, "conflict")
      BY <2>5, <3>1
    <3> QED
      BY <1>3, <2>1, <3>2, ResyncSole
  <2> QED
    BY <1>8, <2>2, <2>3, <2>4, <2>5 DEF CommitReload
<1>9. CASE DatabaseFault(j)
  <2>1. PICK result \in {"conflict", "error"} : Finish(j, Done(j, result))
    BY <1>9 DEF DatabaseFault
  <2> QED
    BY <1>4, <2>1
<1> QED
  BY <1>6, <1>7, <1>8, <1>9

LEMMA CrashSole ==
  ASSUME TurnInv, PlacesSole, NEW p \in Processes, Crash(p)
  PROVE  PlacesSole'
<1> DEFINE down == {x \in Places : ProcessOf[x] = p}
<1>1. /\ task' = [x \in Places |-> IF x \in down THEN Idle ELSE task[x]]
      /\ jobs' = {j \in jobs : j.place \notin down} /\ log' = log
  BY DEF Crash
<1> HIDE DEF down
<1>2. ASSUME NEW y \in Places PROVE PlaceSole(y, task[y], JobsAt(y))'
  <2>1. CASE y \in down
    BY <1>1, <2>1 DEF PlaceSole, TurnSole, JobsAt
  <2>2. CASE y \notin down
    <3>1. PICK t, J : t = task[y] /\ J = JobsAt(y)
      OBVIOUS
    <3>2. task'[y] = t /\ JobsAt(y)' = J
      BY <1>1, <2>2, <3>1 DEF JobsAt
    <3>3. PlaceSole(y, t, J)
      BY <3>1 DEF PlacesSole
    <3>4. PlaceSole(y, t, J)'
      BY <1>1, <3>3, PlaceSoleStill
    <3> QED
      BY <3>2, <3>4
  <2> QED
    BY <2>1, <2>2
<1> QED
  BY <1>2 DEF PlacesSole

LEMMA PlacesStaySole ==
  ASSUME TurnInv, TurnInv', LineInv, SoleInv, NoneAbandoned, NoneAbandoned', OneHome, [Next]_vars
  PROVE  PlacesSole'
<1>0. PlacesLine /\ BornFirst /\ StreamLine /\ PlacesSole
  BY DEF LineInv, SoleInv
<1>1. CASE UNCHANGED <<log, task, jobs>>
  <2>1. ASSUME NEW y \in Places PROVE PlaceSole(y, task[y], JobsAt(y))'
    <3>1. PICK t, J : t = task[y] /\ J = JobsAt(y)
      OBVIOUS
    <3>2. task'[y] = t /\ JobsAt(y)' = J
      BY <1>1, <3>1 DEF JobsAt
    <3>3. PlaceSole(y, t, J)
      BY <1>0, <3>1 DEF PlacesSole
    <3>4. PlaceSole(y, t, J)'
      BY <1>1, <3>3, PlaceSoleStill
    <3> QED
      BY <3>2, <3>4
  <2> QED
    BY <2>1 DEF PlacesSole
<1>2. CASE \/ \E x \in Places : Create(x) \/ Resume(x) \/ Close(x)
           \/ Purge \/ Erase \/ UNCHANGED vars
  BY <1>1, <1>2 DEF Create, Resume, Close, Purge, Erase, vars
<1>3. ASSUME NEW x \in Places, TurnStep(x) \/ Cancel(x) PROVE PlacesSole'
  <2>1. LineMoves(x)
    BY <1>0, <1>3, PreparedLine, ReplayedLine, UnpreparedLine, DiscardLine, ProcessLine,
       PreviewLine, EndingLines, CommittedLine, CancelLine DEF TurnStep
  <2>2. OwnStream(x)
    BY <1>3 DEF OwnStream, TurnStep, Cancel, Prepared, Replayed, Unprepared, Discard, Process,
                Preview, PreviewAgain, PreviewFail, Committed, CommitFailed, Recalled
  <2>3. PlaceSole(x, task[x], JobsAt(x))'
    <3>1. CASE Prepared(x) \/ Replayed(x) \/ Committed(x)
      BY <1>0, <3>1, PreparedSole
    <3>2. CASE Process(x) \/ Preview(x)
      BY <1>0, <3>2, ProcessSole
    <3>3. CASE Unprepared(x) \/ Discard(x) \/ PreviewAgain(x) \/ PreviewFail(x) \/ CommitFailed(x)
               \/ Recalled(x) \/ Cancel(x)
      <4>1. Ended(x)
        BY <3>3 DEF Unprepared, Discard, PreviewAgain, PreviewFail, CommitFailed, Recalled, Cancel,
                    Respond
      <4> QED
        BY <4>1, EndedSole
    <3> QED
      BY <1>3, <3>1, <3>2, <3>3 DEF TurnStep
  <2> QED
    BY <1>0, <2>1, <2>2, <2>3, SoleStep
<1>4. ASSUME NEW x \in Places, NEW r \in Requests, Submit(x, r) PROVE PlacesSole'
  <2>1. LineMoves(x) /\ PlaceSole(x, task[x], JobsAt(x))'
    BY <1>0, <1>4, SubmitLine, SubmitSole
  <2>2. OwnStream(x)
    BY <1>4 DEF OwnStream, Submit
  <2> QED
    BY <1>0, <2>1, <2>2, SoleStep
<1>5. ASSUME NEW j \in jobs, JobStep(j) \/ DatabaseFault(j) PROVE PlacesSole'
  <2>1. LineMoves(j.place)
    BY <1>0, <1>5, ExportLine, LoadLine, BuildLine, AppendLine, ReloadLine, FaultLine DEF JobStep
  <2>2. PlaceSole(j.place, task[j.place], JobsAt(j.place))'
    BY <1>0, <1>5, PrepareSole, CommitSole DEF JobStep
  <2>3. OwnStream(j.place)
    <3>1. log' = log \/ (j.step = "append" /\ Appended(j))
      BY <1>5 DEF JobStep, PrepareExport, PrepareLoad, CommitBuild, CommitAppend, CommitReload,
                  DatabaseFault
    <3>2. j.step = "append" => j.event \in Events /\ j.event.session = SessionOf[j.place]
      BY DEF TurnInv, JobRight
    <3> QED
      BY <3>1, <3>2 DEF OwnStream, Appended
  <2>4. PICK x \in Places : x = j.place
    BY ThreadFields DEF TurnInv, Typed, JobsTyped
  <2>5. LineMoves(x) /\ OwnStream(x) /\ PlaceSole(x, task[x], JobsAt(x))'
    BY <2>1, <2>2, <2>3, <2>4
  <2> QED
    BY <1>0, <2>5, SoleStep
<1> QED
  BY <1>0, <1>2, <1>3, <1>4, <1>5, CrashSole DEF Next

\* What is told is on record, as it is told.
LEMMA ToldStaysSole ==
  ASSUME TurnInv, SoleInv, [Next]_vars
  PROVE  ToldAsRecorded'
<1>0. PlacesSole /\ ToldAsRecorded
  BY DEF SoleInv
<1>1. ASSUME NEW x \in Places, NEW answer, Respond(x, answer),
             OnRecordAs(SessionOf[x], task[x].request, answer)
      PROVE  \A a \in told' : a \in told \/ OnRecordAs(a.session, a.request, a.answer)
  BY <1>1 DEF Respond
<1>2. ASSUME NEW x \in Places, Replayed(x)
      PROVE  \A a \in told' : a \in told \/ OnRecordAs(a.session, a.request, a.answer)
  <2>1. PICK j \in Outcome(x, "preparing", {"existing"}) : told' = told \/ Respond(x, j.recorded)
    BY <1>2 DEF Replayed
  <2>2. /\ j \in JobsAt(x) /\ j.step = "done" /\ j.result = "existing" /\ j.request = task[x].request
    BY OutcomeFacts DEF JobsAt
  <2>3. OnRecordAs(SessionOf[x], task[x].request, j.recorded)
    BY <1>0, <2>2 DEF PlacesSole, PlaceSole, ThreadSole
  <2> QED
    BY <1>1, <2>1, <2>3
<1>3. ASSUME NEW x \in Places, PreviewAgain(x) \/ Recalled(x)
      PROVE  \A a \in told' : a \in told \/ OnRecordAs(a.session, a.request, a.answer)
  <2>1. task[x].stage \in {"previewing again", "recalling"} /\ Respond(x, task[x].answer)
    BY <1>3 DEF PreviewAgain, Recalled
  <2>2. Idle.stage = "idle"
    BY DEF Idle
  <2>3. OnRecordAs(SessionOf[x], task[x].request, task[x].answer)
    BY <1>0, <2>1, <2>2 DEF PlacesSole, PlaceSole, TurnSole
  <2> QED
    BY <1>1, <2>1, <2>3
<1>4. ASSUME NEW x \in Places, TurnStep(x), ~Replayed(x), ~PreviewAgain(x), ~Recalled(x)
      PROVE  told' = told
  BY <1>4 DEF TurnStep, Prepared, Unprepared, Discard, Process, Preview, PreviewFail, Committed,
              CommitFailed
<1>5. ASSUME NEW x \in Places, Create(x) \/ Resume(x) \/ Close(x) \/ Cancel(x)
                               \/ (\E r \in Requests : Submit(x, r))
      PROVE  told' = told
  BY <1>5 DEF Create, Resume, Close, Cancel, Submit
<1>6. ASSUME NEW j \in jobs, JobStep(j) \/ DatabaseFault(j) PROVE told' = told
  BY <1>6, ThreadStep
<1>7. ASSUME (\E p \in Processes : Crash(p)) \/ Purge \/ Erase \/ UNCHANGED vars
      PROVE  told' = told
  BY <1>7 DEF Crash, Purge, Erase, vars
<1>8. \A a \in told' : a \in told \/ OnRecordAs(a.session, a.request, a.answer)
  <2>1. CASE told' = told
    BY <2>1
  <2>2. CASE \E x \in Places : TurnStep(x)
    BY <1>2, <1>3, <1>4, <2>1, <2>2
  <2>3. CASE ~\E x \in Places : TurnStep(x)
    <3>1. told' = told
      BY <1>5, <1>6, <1>7, <2>3 DEF Next
    <3> QED
      BY <2>1, <3>1
  <2> QED
    BY <2>2, <2>3
<1>9. ASSUME NEW a \in told' PROVE OnRecordAs(a.session, a.request, a.answer)'
  <2>1. OnRecordAs(a.session, a.request, a.answer)
    <3>1. \A b \in told : OnRecordAs(b.session, b.request, b.answer)
      BY <1>0 DEF ToldAsRecorded, OnRecordAs
    <3> QED
      BY <1>8, <3>1
  <2>2. PICK s, r, answer : s = a.session /\ r = a.request /\ answer = a.answer
    OBVIOUS
  <2>3. LogTyped /\ LogTyped' /\ Len(log') \in Nat
    BY StreamGrows DEF TurnInv, Typed, LogTyped
  <2>4. OnRecordAs(s, r, answer)'
    BY <2>1, <2>2, <2>3, StreamGrows, RecordKept DEF TurnInv
  <2> QED
    BY <2>2, <2>4
<1> QED
  <2>1. ASSUME NEW a \in told'
        PROVE  \E i \in 1..Len(log') : /\ log'[i].session = a.session
                                       /\ log'[i].request = a.request
                                       /\ log'[i].result = a.answer
    BY <1>9, <2>1 DEF OnRecordAs
  <2> QED
    BY <2>1 DEF ToldAsRecorded

LEMMA SoleInvInit == Init => SoleInv
BY DEF Init, SoleInv, ToldAsRecorded, PlacesSole, PlaceSole, TurnSole, JobsAt

LEMMA SoleInvHolds ==
  ASSUME OneHome
  PROVE  Spec /\ []NoneAbandoned => []SoleInv
<1>1. Init => SoleInv
  BY SoleInvInit
<1>2. TurnInv /\ TurnInv' /\ LineInv /\ NoneAbandoned /\ NoneAbandoned' /\ SoleInv /\ [Next]_vars
        => SoleInv'
  BY PlacesStaySole, ToldStaysSole DEF SoleInv
<1> QED
  BY <1>1, <1>2, TurnInvHolds, LineInvHolds, PTL DEF Spec

\* While one place serves each session and no worker thread outlives its turn,
\* whatever a client has been answered is on record with that very answer: an
\* exact retry repeats the persisted event, even after an append whose
\* acknowledgement was lost (process_turn, prepare_turn, commit_turn).
THEOREM ToldAsRecordedHolds ==
  ASSUME OneHome
  PROVE  Spec /\ []NoneAbandoned => []ToldAsRecorded
<1>1. SoleInv => ToldAsRecorded
  BY DEF SoleInv
<1> QED
  BY <1>1, SoleInvHolds, PTL
=============================================================================
