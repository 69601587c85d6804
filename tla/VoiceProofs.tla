---------------------------- MODULE VoiceProofs ----------------------------
(***************************************************************************)
(* Proofs about the speech pipeline and its two callers, for any lengths   *)
(* of chunks, any thresholds, any transcriber and any queue; and, at the   *)
(* end, about the circuit breaker providers are called through.  The two   *)
(* share no state: a step of one says nothing of the other.                *)
(*                                                                         *)
(* PipelineInv is inductive for SpeechTurns: what TurnTaking has counted   *)
(* is what the pipeline holds, frame by frame.  Every step of VoiceLoop is *)
(* a step of the pipeline or leaves it alone, so both of its callers have  *)
(* it.  DuplexInv is the microphone's side, BreakerInv the breaker's.      *)
(***************************************************************************)
EXTENDS VoiceLoop, Resilience, SequenceTheorems, WellFoundedInduction, TLAPS

-----------------------------------------------------------------------------
(***************************************************************************)
(* Sums over chunks.                                                       *)
(***************************************************************************)
LEMMA LeastNatural ==
  ASSUME NEW S \in SUBSET Nat, S # {}
  PROVE  \E n \in S : \A m \in S : n =< m
<1> DEFINE R == {p \in Nat \X Nat : p[1] < p[2]}
<1>1. IsWellFoundedOn(R, Nat)
  BY NatLessThanWellFounded DEF OpToRel
<1>2. \E x \in S : \A y \in S : ~ (<<y, x>> \in R)
  <2> HIDE DEF R
  <2> QED
    BY <1>1, WFMin
<1>3. PICK x \in S : \A y \in S : ~ (<<y, x>> \in R)
  BY <1>2
<1>4. ASSUME NEW y \in S PROVE x =< y
  <2>1. <<y, x>> \in Nat \X Nat /\ ~ (<<y, x>> \in R)
    BY <1>3
  <2> QED
    BY <2>1
<1> QED
  BY <1>4

\* g is the sum of the first chunks, up to N of them.
SumsTo(g, w, chunks, N) ==
  g = [n \in 0..N |-> IF n = 0 THEN 0 ELSE g[n - 1] + w[chunks[n]]]

LEMMA SumsExist ==
  ASSUME NEW w, NEW chunks, NEW N \in Nat
  PROVE  \E g : SumsTo(g, w, chunks, N)
<1> DEFINE Without == {n \in Nat : ~ \E g : SumsTo(g, w, chunks, n)}
<1> SUFFICES ASSUME Without # {} PROVE FALSE
  OBVIOUS
<1>1. PICK n \in Without : \A m \in Without : n =< m
  BY LeastNatural
<1>2. CASE n = 0
  <2>1. SumsTo([i \in 0..0 |-> 0], w, chunks, 0)
    BY DEF SumsTo
  <2> QED
    BY <1>2, <2>1
<1>3. CASE n # 0
  <2>1. n - 1 \in Nat /\ n - 1 \notin Without
    BY <1>1, <1>3
  <2>2. PICK g : SumsTo(g, w, chunks, n - 1)
    BY <2>1
  <2> DEFINE next(f, i) == f[i - 1] + w[chunks[i]]
             longer == [i \in 0..n |-> IF i = n THEN next(g, n) ELSE g[i]]
  <2>3. ASSUME NEW i \in 0..n
        PROVE  longer[i] = IF i = 0 THEN 0 ELSE next(longer, i)
    <3>1. CASE i = n
      <4>1. i # 0 /\ i - 1 \in 0..n /\ i - 1 # n /\ longer[i - 1] = g[i - 1]
        BY <1>3, <3>1
      <4> QED
        BY <3>1, <4>1
    <3>2. CASE i # n
      <4>1. /\ i \in 0..(n - 1) /\ longer[i] = g[i]
            /\ i # 0 => i - 1 \in 0..n /\ i - 1 # n /\ longer[i - 1] = g[i - 1]
        BY <3>2
      <4>2. g[i] = IF i = 0 THEN 0 ELSE next(g, i)
        BY <2>2, <4>1 DEF SumsTo
      <4> QED
        BY <4>1, <4>2
    <3> QED
      BY <3>1, <3>2
  <2>4. SumsTo(longer, w, chunks, n)
    BY <2>3 DEF SumsTo
  <2> QED
    BY <2>4
<1> QED
  BY <1>2, <1>3

\* The first sums depend on the first chunks alone.
LEMMA SumsAgree ==
  ASSUME NEW w, NEW c, NEW C, NEW n \in Nat, NEW N \in Nat, n =< N,
         NEW g, NEW G, SumsTo(g, w, c, n), SumsTo(G, w, C, N),
         \A i \in 1..n : c[i] = C[i]
  PROVE  g[n] = G[n]
<1> DEFINE Unlike == {k \in 0..n : g[k] # G[k]}
<1> SUFFICES ASSUME Unlike # {} PROVE FALSE
  OBVIOUS
<1>1. PICK k \in Unlike : \A m \in Unlike : k =< m
  <2>1. Unlike \in SUBSET Nat
    OBVIOUS
  <2> HIDE DEF Unlike
  <2> QED
    BY <2>1, LeastNatural
<1>2. g[0] = 0 /\ G[0] = 0
  BY DEF SumsTo
<1>3. k # 0 /\ k \in 1..n /\ k \in 1..N /\ k \in 0..n /\ k \in 0..N
  BY <1>2
<1>4. g[k] = g[k - 1] + w[c[k]]
  BY ONLY <1>3, SumsTo(g, w, c, n) DEF SumsTo
<1>5. G[k] = G[k - 1] + w[C[k]]
  BY ONLY <1>3, SumsTo(G, w, C, N) DEF SumsTo
<1>6. g[k - 1] = G[k - 1]
  <2>1. k - 1 \in 0..n /\ k - 1 \notin Unlike
    BY <1>1, <1>3
  <2> QED
    BY <2>1
<1> QED
  BY <1>3, <1>4, <1>5, <1>6

LEMMA TotalSums ==
  ASSUME NEW w, NEW chunks, Len(chunks) \in Nat
  PROVE  \E g : SumsTo(g, w, chunks, Len(chunks)) /\ Total(w, chunks) = g[Len(chunks)]
<1> DEFINE equation(g) == g = [n \in 0..Len(chunks) |->
                                 IF n = 0 THEN 0 ELSE g[n - 1] + w[chunks[n]]]
           sums == CHOOSE g : equation(g)
<1>1. \E g : equation(g)
  <2>1. \E g : SumsTo(g, w, chunks, Len(chunks))
    BY SumsExist
  <2> QED
    BY <2>1, Zenon DEF SumsTo
<1>2. Total(w, chunks) = sums[Len(chunks)]
  BY Zenon DEF Total
<1>3. equation(sums)
  <2> HIDE DEF equation
  <2> QED
    BY <1>1, Zenon
<1>4. SumsTo(sums, w, chunks, Len(chunks))
  BY <1>3, Zenon DEF SumsTo
<1> QED
  BY <1>2, <1>4

\* Nothing adds up to nothing, and a chunk more adds its weight.
LEMMA TotalOfNone ==
  ASSUME NEW w
  PROVE  Total(w, <<>>) = 0
<1>1. PICK g : SumsTo(g, w, <<>>, Len(<<>>)) /\ Total(w, <<>>) = g[Len(<<>>)]
  BY TotalSums
<1> QED
  BY <1>1 DEF SumsTo

LEMMA TotalOfAppend ==
  ASSUME NEW T, NEW chunks \in Seq(T), NEW f \in T, NEW w
  PROVE  Total(w, Append(chunks, f)) = Total(w, chunks) + w[f]
<1> DEFINE C == Append(chunks, f)
<1>1. /\ Len(chunks) \in Nat /\ Len(C) = Len(chunks) + 1 /\ C[Len(chunks) + 1] = f
      /\ \A i \in 1..Len(chunks) : chunks[i] = C[i]
  OBVIOUS
<1> HIDE DEF C
<1>2. PICK g : SumsTo(g, w, chunks, Len(chunks)) /\ Total(w, chunks) = g[Len(chunks)]
  BY <1>1, TotalSums
<1>3. PICK G : SumsTo(G, w, C, Len(chunks) + 1) /\ Total(w, C) = G[Len(chunks) + 1]
  BY <1>1, TotalSums
<1>4. g[Len(chunks)] = G[Len(chunks)]
  <2>1. Len(chunks) + 1 \in Nat /\ Len(chunks) =< Len(chunks) + 1
    BY <1>1
  <2> QED
    BY ONLY <1>1, <1>2, <1>3, <2>1, SumsAgree
<1>5. G[Len(chunks) + 1] = G[Len(chunks)] + w[f]
  <2>1. /\ Len(chunks) + 1 \in 0..(Len(chunks) + 1) /\ Len(chunks) + 1 # 0
        /\ (Len(chunks) + 1) - 1 = Len(chunks)
    BY <1>1
  <2> QED
    BY <1>1, <1>3, <2>1 DEF SumsTo
<1> QED
  BY <1>2, <1>3, <1>4, <1>5 DEF C

-----------------------------------------------------------------------------
(***************************************************************************)
(* TurnTaking.                                                             *)
(***************************************************************************)
Segments == [count : Nat, speech : Nat, silence : Nat]

Machines == [state : {"idle", "listening", "agent-speaking"}, speech : Nat, silence : Nat,
             trailing : Nat, count : Nat, started : {"yes", "no"}, barge : Nat, elapsed : Nat]

\* What a state of TurnTaking says of its counters.
MachineRight(m) ==
  /\ m.count = 0 => m.speech = 0 /\ m.silence = 0
  /\ m.count > 0 => m.started = "yes"
  /\ m.state = "idle" => m.count = 0
  /\ m.state = "listening" => m.count > 0
  /\ m.state = "agent-speaking" =>
       m.speech = m.barge /\ m.silence = 0 /\ (m.barge = 0 <=> m.count = 0)
  /\ m.elapsed < AgentFloor /\ m.barge < BargeInSpeech

\* A segment with one frame more.
Added(s, f) ==
  [count |-> s.count + 1,
   speech |-> s.speech + (IF f.voice = "speech" THEN DurationOf(f.length) ELSE 0),
   silence |-> s.silence + (IF f.voice = "silence" THEN DurationOf(f.length) ELSE 0)]

LEMMA Thresholds ==
  /\ FrameDuration \in Nat \ {0} /\ MinSpeech \in Nat \ {0} /\ EndSilence \in Nat \ {0}
  /\ MaxUtterance \in Nat \ {0} /\ BargeInSpeech \in Nat \ {0} /\ AgentFloor \in Nat \ {0}
  /\ MaxBytes \in Nat \ {0} /\ EarlyBytes \in Nat
  BY ThresholdsAssumption

LEMMA FrameFields ==
  ASSUME NEW f \in Frames
  PROVE  /\ f.length \in Nat /\ f.voice \in {"speech", "silence"}
         /\ DurationOf(f.length) \in Nat \ {0}
  BY Thresholds, LengthsAssumption DEF Frames, DurationOf

\* The fields of a machine, after each of TurnTaking's operations on it.
LEMMA Accumulated ==
  ASSUME NEW m \in Machines, NEW f \in Frames
  PROVE  /\ Accumulate(m, f) \in Machines
         /\ SegmentOf(Accumulate(m, f)) = Added(SegmentOf(m), f)
         /\ Accumulate(m, f).state = m.state /\ Accumulate(m, f).started = m.started
         /\ Accumulate(m, f).barge = m.barge /\ Accumulate(m, f).elapsed = m.elapsed
         /\ Accumulate(m, f).count = m.count + 1
         /\ f.voice = "speech" => Accumulate(m, f).speech = m.speech + DurationOf(f.length)
                                  /\ Accumulate(m, f).silence = m.silence
<1> DEFINE lasts == DurationOf(f.length)
           a == Accumulate(m, f)
<1>1. f.voice \in {"speech", "silence"} /\ lasts \in Nat
  BY FrameFields
<1>2. CASE f.voice = "speech"
  <2>1. a = [state |-> m.state, speech |-> m.speech + lasts, silence |-> m.silence,
             trailing |-> 0, count |-> m.count + 1, started |-> m.started,
             barge |-> m.barge, elapsed |-> m.elapsed]
    BY <1>2 DEF Accumulate, Machines
  <2> HIDE DEF a, lasts
  <2>2. a \in Machines
    BY <1>1, <2>1 DEF Machines
  <2>3. SegmentOf(a) = [count |-> m.count + 1, speech |-> m.speech + lasts, silence |-> m.silence]
    BY <2>1 DEF SegmentOf
  <2>4. Added(SegmentOf(m), f) = [count |-> m.count + 1, speech |-> m.speech + lasts,
                                  silence |-> m.silence + 0]
    BY <1>2 DEF SegmentOf, Added, lasts
  <2>5. m.silence + 0 = m.silence
    BY DEF Machines
  <2> QED
    BY <2>1, <2>2, <2>3, <2>4, <2>5 DEF a, lasts
<1>3. CASE f.voice = "silence"
  <2>1. a = [state |-> m.state, speech |-> m.speech, silence |-> m.silence + lasts,
             trailing |-> m.trailing + lasts, count |-> m.count + 1, started |-> m.started,
             barge |-> m.barge, elapsed |-> m.elapsed]
    BY <1>3 DEF Accumulate, Machines
  <2> HIDE DEF a, lasts
  <2>2. a \in Machines
    BY <1>1, <2>1 DEF Machines
  <2>3. SegmentOf(a) = [count |-> m.count + 1, speech |-> m.speech, silence |-> m.silence + lasts]
    BY <2>1 DEF SegmentOf
  <2>4. Added(SegmentOf(m), f) = [count |-> m.count + 1, speech |-> m.speech + 0,
                                  silence |-> m.silence + lasts]
    BY <1>3 DEF SegmentOf, Added, lasts
  <2>5. m.speech + 0 = m.speech
    BY DEF Machines
  <2> QED
    BY <1>3, <2>1, <2>2, <2>3, <2>4, <2>5 DEF a
<1> QED
  BY <1>1, <1>2, <1>3

LEMMA BlankFields ==
  ASSUME NEW m \in Machines
  PROVE  /\ Blank(m) \in Machines /\ SegmentOf(Blank(m)) = NoSegment
         /\ Blank(m).state = m.state /\ Blank(m).barge = m.barge /\ Blank(m).elapsed = m.elapsed
         /\ Idle(m) \in Machines /\ SegmentOf(Idle(m)) = NoSegment /\ Idle(m).state = "idle"
         /\ Idle(m).barge = m.barge /\ Idle(m).elapsed = m.elapsed
         /\ ReleaseFloor(m) \in Machines /\ SegmentOf(ReleaseFloor(m)) = NoSegment
         /\ ReleaseFloor(m).state = "idle" /\ ReleaseFloor(m).barge = 0
         /\ ReleaseFloor(m).elapsed = 0
  BY DEF Machines, Blank, Idle, ReleaseFloor, SegmentOf, NoSegment

\* A machine that counts nothing.
LEMMA EmptyRight ==
  ASSUME NEW m \in Machines, SegmentOf(m) = NoSegment, m.state # "listening",
         m.elapsed < AgentFloor, m.barge < BargeInSpeech,
         m.state = "agent-speaking" => m.barge = 0
  PROVE  MachineRight(m)
<1>1. m.count = 0 /\ m.speech = 0 /\ m.silence = 0
  BY DEF SegmentOf, NoSegment
<1> QED
  BY <1>1 DEF MachineRight, Machines

LEMMA Released0 ==
  ASSUME NEW m \in Machines, MachineRight(m)
  PROVE  MachineRight(Idle(m)) /\ MachineRight(ReleaseFloor(m))
<1>1. m.elapsed < AgentFloor /\ m.barge < BargeInSpeech /\ 0 < AgentFloor /\ 0 < BargeInSpeech
  BY Thresholds DEF MachineRight
<1> QED
  BY <1>1, BlankFields, EmptyRight

\* What observe() decides about a frame: it is not wanted, or it is the next
\* of the utterance, or the last.
Quiet(m, d) ==
  /\ d.capture = "no" /\ d.segment = NoSegment
  /\ SegmentOf(d.to) = NoSegment
  /\ d.discarded = "yes" \/ (d.discarded = "no" /\ SegmentOf(m) = NoSegment)

Takes(m, d, f) ==
  LET base == IF d.discarded = "yes" THEN NoSegment ELSE SegmentOf(m)
  IN  /\ d.capture = "yes" /\ d.segment = NoSegment
      /\ d.discarded \in {"yes", "no"}
      /\ SegmentOf(d.to) = Added(base, f)
      /\ base = NoSegment => f.voice = "speech"

Closes(m, d, f) ==
  /\ d.capture = "yes" /\ d.discarded = "no"
  /\ d.segment = Added(SegmentOf(m), f) /\ d.segment.speech >= MinSpeech
  /\ SegmentOf(m) # NoSegment
  /\ SegmentOf(d.to) = NoSegment

Decided(m, d, f) ==
  /\ d.to \in Machines /\ MachineRight(d.to)
  /\ Quiet(m, d) \/ Takes(m, d, f) \/ Closes(m, d, f)

\* With nobody speaking, and while the buyer does.
LEMMA ListenDecides ==
  ASSUME NEW m \in Machines, MachineRight(m), m.state # "agent-speaking", NEW f \in Frames
  PROVE  Decided(m, WhileListening(m, f), f)
<1> DEFINE d == WhileListening(m, f)
           heard == Accumulate(m, f)
<1>0. /\ heard \in Machines /\ SegmentOf(heard) = Added(SegmentOf(m), f)
      /\ heard.state = m.state /\ heard.started = m.started
      /\ heard.barge = m.barge /\ heard.elapsed = m.elapsed /\ heard.count = m.count + 1
  BY Accumulated
<1>1. f.voice \in {"speech", "silence"} /\ m.state \in {"idle", "listening"}
  BY FrameFields DEF Machines
<1>2. m.state = "idle" => SegmentOf(m) = NoSegment
  BY DEF MachineRight, SegmentOf, NoSegment
<1>3. m.state = "listening" => SegmentOf(m) # NoSegment
  BY DEF MachineRight, SegmentOf, NoSegment
<1>4. CASE m.state = "idle" /\ f.voice = "silence"
  <2>1. d = Nothing(m)
    BY <1>4 DEF WhileListening
  <2> QED
    BY <1>2, <1>4, <2>1 DEF Decided, Quiet, Nothing, Decide
<1>5. CASE m.state = "idle" /\ f.voice = "speech"
  <2> DEFINE begun == [[m EXCEPT !.state = "listening"] EXCEPT !.started = "yes"]
             to == Accumulate(begun, f)
  <2>1. d = Captured(to)
    BY <1>5 DEF WhileListening, Start
  <2>2. /\ begun \in Machines /\ SegmentOf(begun) = SegmentOf(m)
        /\ begun.state = "listening" /\ begun.started = "yes" /\ begun.barge = m.barge
        /\ begun.elapsed = m.elapsed /\ begun.count = m.count
    BY DEF Machines, SegmentOf
  <2> HIDE DEF begun
  <2>3. /\ to \in Machines /\ SegmentOf(to) = Added(SegmentOf(m), f)
        /\ to.state = "listening" /\ to.started = "yes" /\ to.barge = m.barge
        /\ to.elapsed = m.elapsed /\ to.count = m.count + 1
    BY <2>2, Accumulated
  <2> HIDE DEF to
  <2>4. m.count \in Nat
    BY DEF Machines
  <2>5. MachineRight(to)
    BY <2>3, <2>4 DEF MachineRight
  <2> QED
    BY <1>2, <1>5, <2>1, <2>3, <2>5 DEF Decided, Takes, Captured, Decide
<1>6. CASE m.state = "listening" /\ ~Ends(heard)
  <2>1. d = Captured(heard)
    BY <1>6 DEF WhileListening
  <2> HIDE DEF heard
  <2>2. m.count \in Nat /\ m.count > 0
    BY <1>6 DEF Machines, MachineRight
  <2>3. MachineRight(heard)
    BY <1>0, <1>6, <2>2 DEF MachineRight
  <2> QED
    BY <1>0, <1>3, <1>6, <2>1, <2>3 DEF Decided, Takes, Captured, Decide
<1>7. CASE m.state = "listening" /\ Ends(heard)
  <2>1. d = IF heard.speech < MinSpeech THEN Discarded(Idle(heard)) ELSE Closed(heard)
    BY <1>7 DEF WhileListening
  <2> HIDE DEF heard
  <2>2. Idle(heard) \in Machines /\ SegmentOf(Idle(heard)) = NoSegment
    BY <1>0, BlankFields
  <2>3. MachineRight(Idle(heard))
    <3>1. heard.elapsed < AgentFloor /\ heard.barge < BargeInSpeech
      BY <1>0 DEF MachineRight
    <3> QED
      BY <1>0, <3>1, BlankFields, EmptyRight
  <2>4. CASE heard.speech < MinSpeech
    BY <2>1, <2>2, <2>3, <2>4 DEF Decided, Quiet, Discarded, Decide
  <2>5. CASE ~(heard.speech < MinSpeech)
    <3>1. SegmentOf(heard).speech = heard.speech /\ heard.speech \in Nat
      BY <1>0 DEF SegmentOf, Machines
    <3>2. heard.speech >= MinSpeech
      BY <2>5, <3>1, Thresholds
    <3> QED
      BY <1>0, <1>3, <1>7, <2>1, <2>2, <2>3, <2>5, <3>1, <3>2 DEF Decided, Closes, Closed
  <2> QED
    BY <2>4, <2>5
<1> QED
  BY <1>1, <1>4, <1>5, <1>6, <1>7

\* While the agent speaks: the floor is reclaimed, a short sound breaks off,
\* or the buyer interrupts.
LEMMA InterruptDecides ==
  ASSUME NEW m \in Machines, MachineRight(m), m.state = "agent-speaking",
         NEW f \in Frames, NEW n \in Machines, n = Timed(m, f), n.elapsed < AgentFloor
  PROVE  /\ f.voice = "silence" => Decided(m, BreaksOff(n), f)
         /\ f.voice = "speech" => Decided(m, Interrupts(n, f), f)
<1>1. /\ SegmentOf(n) = SegmentOf(m) /\ n.state = "agent-speaking" /\ n.barge = m.barge
      /\ n.count = m.count /\ n.started = m.started /\ n.speech = m.speech
      /\ n.silence = m.silence
  BY DEF Timed, Machines, SegmentOf
<1>2. /\ m.speech = m.barge /\ m.silence = 0 /\ (m.barge = 0 <=> m.count = 0)
      /\ m.count > 0 => m.started = "yes"
      /\ m.barge \in Nat /\ m.count \in Nat /\ m.barge < BargeInSpeech /\ n.elapsed \in Nat
  BY DEF MachineRight, Machines
<1>3. m.barge = 0 => SegmentOf(m) = NoSegment
  BY <1>2 DEF SegmentOf, NoSegment
<1>4. ASSUME f.voice = "silence" PROVE Decided(m, BreaksOff(n), f)
  <2>1. CASE m.barge = 0
    <3>1. BreaksOff(n) = Nothing(n)
      BY <1>1, <2>1 DEF BreaksOff
    <3>2. MachineRight(n)
      BY <1>1, <1>2, <1>3, <2>1, EmptyRight
    <3> QED
      BY <1>1, <1>3, <2>1, <3>1, <3>2 DEF Decided, Quiet, Nothing, Decide
  <2>2. CASE m.barge # 0
    <3> DEFINE o == [n EXCEPT !.barge = 0]
    <3>1. o \in Machines /\ o.barge = 0 /\ o.state = "agent-speaking" /\ o.elapsed = n.elapsed
      BY <1>1 DEF Machines
    <3>2. BreaksOff(n) = Discarded(Blank(o))
      BY <1>1, <2>2 DEF BreaksOff
    <3> HIDE DEF o
    <3>3. /\ Blank(o) \in Machines /\ SegmentOf(Blank(o)) = NoSegment
          /\ Blank(o).state = "agent-speaking" /\ Blank(o).barge = 0
          /\ Blank(o).elapsed = n.elapsed
      BY <3>1, BlankFields
    <3>4. MachineRight(Blank(o))
      BY <3>3, EmptyRight, Thresholds
    <3> QED
      BY <3>2, <3>3, <3>4 DEF Decided, Quiet, Discarded, Decide
  <2> QED
    BY <2>1, <2>2
<1>5. ASSUME f.voice = "speech" PROVE Decided(m, Interrupts(n, f), f)
  <2> DEFINE begun == IF n.barge = 0 THEN [n EXCEPT !.started = "yes"] ELSE n
             run == Accumulate(begun, f)
             lasted == n.barge + DurationOf(f.length)
             to == IF lasted < BargeInSpeech THEN [run EXCEPT !.barge = lasted]
                   ELSE [run EXCEPT !.barge = 0, !.elapsed = 0, !.state = "listening"]
  <2>1. Interrupts(n, f) = Captured(to)
    BY DEF Interrupts, Start
  <2>2. /\ begun \in Machines /\ SegmentOf(begun) = SegmentOf(m)
        /\ begun.state = "agent-speaking" /\ begun.started = "yes" /\ begun.barge = m.barge
        /\ begun.elapsed = n.elapsed /\ begun.count = m.count
        /\ begun.speech = m.barge /\ begun.silence = 0
    <3>1. CASE n.barge = 0
      BY <1>1, <1>2, <3>1 DEF Machines, SegmentOf
    <3>2. CASE n.barge # 0
      BY <1>1, <1>2, <3>2
    <3> QED
      BY <3>1, <3>2
  <2>3. /\ run \in Machines /\ SegmentOf(run) = Added(SegmentOf(m), f)
        /\ run.state = "agent-speaking" /\ run.started = "yes" /\ run.barge = m.barge
        /\ run.elapsed = n.elapsed /\ run.count = m.count + 1
        /\ run.speech = lasted /\ run.silence = 0
    <3> HIDE DEF begun
    <3> QED
      BY <1>1, <1>5, <2>2, Accumulated
  <2>4. lasted \in Nat \ {0}
    BY <1>1, <1>2, FrameFields
  <2> HIDE DEF run, begun
  <2>5. to \in Machines /\ SegmentOf(to) = Added(SegmentOf(m), f)
    <3> HIDE DEF lasted
    <3>1. CASE lasted < BargeInSpeech
      BY <2>3, <2>4, <3>1 DEF Machines, SegmentOf
    <3>2. CASE ~(lasted < BargeInSpeech)
      BY <2>3, <2>4, <3>2 DEF Machines, SegmentOf
    <3> QED
      BY <3>1, <3>2
  <2>6. MachineRight(to)
    <3> HIDE DEF lasted
    <3>1. CASE lasted < BargeInSpeech
      <4>1. /\ to.state = "agent-speaking" /\ to.barge = lasted /\ to.speech = lasted
            /\ to.silence = 0 /\ to.count = m.count + 1 /\ to.started = "yes"
            /\ to.elapsed = n.elapsed
        BY <2>3, <3>1 DEF Machines
      <4> QED
        BY <1>2, <2>4, <3>1, <4>1 DEF MachineRight
    <3>2. CASE ~(lasted < BargeInSpeech)
      <4>1. /\ to.state = "listening" /\ to.barge = 0 /\ to.elapsed = 0
            /\ to.count = m.count + 1 /\ to.started = "yes"
        BY <2>3, <3>2 DEF Machines
      <4> QED
        BY <1>2, <4>1, Thresholds DEF MachineRight
    <3> QED
      BY <3>1, <3>2
  <2> HIDE DEF to
  <2> QED
    BY <1>5, <2>1, <2>5, <2>6 DEF Decided, Takes, Captured, Decide
<1> QED
  BY <1>4, <1>5

LEMMA ReclaimDecides ==
  ASSUME NEW m \in Machines, MachineRight(m), m.state = "agent-speaking",
         NEW f \in Frames, NEW n \in Machines, SegmentOf(n) = SegmentOf(m), n.barge = m.barge
  PROVE  Decided(m, Reclaimed(n, f), f)
<1> DEFINE free == ReleaseFloor(n)
           d == WhileListening(free, f)
<1>1. free \in Machines /\ SegmentOf(free) = NoSegment /\ free.state = "idle"
  BY BlankFields
<1>2. MachineRight(free)
  BY <1>1, BlankFields, EmptyRight, Thresholds
<1> HIDE DEF free
<1>3. Decided(free, d, f)
  BY <1>1, <1>2, ListenDecides
<1>4. d.discarded = "no"
  <2>1. f.voice \in {"speech", "silence"}
    BY FrameFields
  <2> QED
    BY <1>1, <2>1 DEF WhileListening, Nothing, Captured, Decide
<1>5. ~Closes(free, d, f)
  BY <1>1 DEF Closes
<1>6. CASE m.barge > 0
  <2> DEFINE e == [d EXCEPT !.discarded = "yes"]
  <2>1. Reclaimed(n, f) = e
    BY <1>6 DEF Reclaimed, free
  <2>2. /\ e.to = d.to /\ e.capture = d.capture /\ e.segment = d.segment /\ e.discarded = "yes"
    <3>1. d = Nothing(free) \/ \E x : d = Captured(x)
      <4>1. f.voice \in {"speech", "silence"}
        BY FrameFields
      <4> QED
        BY <1>1, <4>1 DEF WhileListening
    <3> QED
      BY <3>1 DEF Nothing, Captured, Decide
  <2> HIDE DEF e, d
  <2> QED
    BY <1>1, <1>3, <1>4, <1>5, <2>1, <2>2 DEF Decided, Quiet, Takes
<1>7. CASE ~(m.barge > 0)
  <2>1. Reclaimed(n, f) = d
    BY <1>7 DEF Reclaimed, free
  <2>2. SegmentOf(m) = NoSegment
    BY <1>7 DEF MachineRight, Machines, SegmentOf, NoSegment
  <2> HIDE DEF d
  <2> QED
    BY <1>1, <1>3, <1>4, <1>5, <2>1, <2>2 DEF Decided, Quiet, Takes
<1> QED
  BY <1>6, <1>7

LEMMA ObserveDecides ==
  ASSUME NEW m \in Machines, MachineRight(m), NEW f \in Frames
  PROVE  Decided(m, Observe(m, f), f)
<1>1. CASE m.state # "agent-speaking"
  BY <1>1, ListenDecides DEF Observe
<1>2. CASE m.state = "agent-speaking"
  <2> DEFINE n == Timed(m, f)
  <2>1. n \in Machines /\ SegmentOf(n) = SegmentOf(m) /\ n.barge = m.barge
    BY FrameFields DEF Timed, Machines, SegmentOf
  <2>2. f.voice \in {"speech", "silence"} /\ n.elapsed \in Nat
    BY <2>1, FrameFields DEF Machines
  <2>3. Observe(m, f) = WhileAgentSpeaks(m, f)
    BY <1>2 DEF Observe
  <2>4. CASE n.elapsed >= AgentFloor
    <3>1. Observe(m, f) = Reclaimed(n, f)
      BY <2>2, <2>3, <2>4, Thresholds DEF WhileAgentSpeaks
    <3> HIDE DEF n
    <3> QED
      BY <1>2, <2>1, <3>1, ReclaimDecides
  <2>5. CASE n.elapsed < AgentFloor
    <3>1. /\ f.voice = "silence" => Observe(m, f) = BreaksOff(n)
          /\ f.voice = "speech" => Observe(m, f) = Interrupts(n, f)
      BY <2>2, <2>3, <2>5, Thresholds DEF WhileAgentSpeaks
    <3> HIDE DEF n
    <3>2. n = Timed(m, f)
      BY DEF n
    <3> QED
      BY <1>2, <2>1, <2>2, <2>5, <3>1, <3>2, InterruptDecides
  <2> QED
    BY <2>2, <2>4, <2>5, Thresholds
<1> QED
  BY <1>1, <1>2

-----------------------------------------------------------------------------
(***************************************************************************)
(* The pipeline's audio.                                                   *)
(***************************************************************************)
Audios == [buffer : Seq(Frames), oversize : {"yes", "no"},
           detection : {"none", "running", "hinted", "failed"}, prefix : Seq(Frames)]

\* The audio of an utterance of which s has been counted.
AudioRight(a, s) ==
  /\ a \in Audios
  /\ transcriber # "none" /\ a.oversize = "no" => Is(a.buffer, s)
  /\ s.count = 0 => a = Released
  /\ a.buffer # <<>> => a.buffer[1].voice = "speech"
  /\ IsPrefix(a.prefix, a.buffer)
  /\ Bytes(a.buffer) \in Nat /\ Bytes(a.buffer) =< MaxBytes

LEMMA Beginnings ==
  ASSUME NEW T, NEW p \in Seq(T), NEW b \in Seq(T)
  PROVE  /\ IsPrefix(<<>>, b) /\ IsPrefix(b, b)
         /\ \A f \in T : IsPrefix(p, b) => IsPrefix(p, Append(b, f))
<1>1. IsPrefix(<<>>, b) /\ IsPrefix(b, b)
  BY DEF IsPrefix
<1>2. ASSUME NEW f \in T, IsPrefix(p, b) PROVE IsPrefix(p, Append(b, f))
  <2>1. Len(p) =< Len(b) /\ SubSeq(p, 1, Len(p)) = SubSeq(b, 1, Len(p))
    BY <1>2 DEF IsPrefix
  <2>2. SubSeq(b, 1, Len(p)) = SubSeq(Append(b, f), 1, Len(p))
    BY <2>1
  <2>3. Len(p) =< Len(Append(b, f))
    BY <2>1
  <2> QED
    BY <2>1, <2>2, <2>3 DEF IsPrefix
<1> QED
  BY <1>1, <1>2

LEMMA ReleasedRight == AudioRight(Released, NoSegment)
<1>1. Bytes(<<>>) = 0 /\ \A v : Lasting(<<>>, v) = 0
  BY TotalOfNone DEF Bytes, Lasting
<1>2. IsPrefix(<<>>, <<>>)
  BY DEF IsPrefix
<1>3. <<>> \in Seq(Frames) /\ Len(<<>>) = 0 /\ 0 =< MaxBytes
  BY Thresholds
<1> QED
  BY <1>1, <1>2, <1>3 DEF AudioRight, Audios, Released, NoSegment, Is

LEMMA OversizeRight ==
  ASSUME NEW s, s.count # 0
  PROVE  AudioRight(Oversize, s)
<1>1. Bytes(<<>>) = 0 /\ <<>> \in Seq(Frames) /\ 0 =< MaxBytes
  BY Thresholds, TotalOfNone DEF Bytes
<1>2. IsPrefix(<<>>, <<>>)
  BY DEF IsPrefix
<1>3. Oversize = [buffer |-> <<>>, oversize |-> "yes", detection |-> "none", prefix |-> <<>>]
  BY DEF Oversize, Released
<1> QED
  BY <1>1, <1>2, <1>3 DEF AudioRight, Audios

\* What is buffered keeps up with what is counted.
LEMMA BufferedRight ==
  ASSUME NEW a, NEW s \in Segments, AudioRight(a, s), NEW f \in Frames,
         s.count = 0 => f.voice = "speech"
  PROVE  AudioRight(BufferAudio(a, f), Added(s, f))
<1> DEFINE t == Added(s, f)
           b == [a EXCEPT !.buffer = Append(@, f)]
<1>1. t.count = s.count + 1 /\ t.count # 0
  BY DEF Added, Segments
<1>2. CASE a.oversize = "yes" \/ transcriber = "none"
  <2>1. BufferAudio(a, f) = a
    BY <1>2 DEF BufferAudio
  <2> QED
    BY <1>1, <1>2, <2>1 DEF AudioRight
<1>3. CASE ~ (a.oversize = "yes" \/ transcriber = "none") /\ Bytes(a.buffer) + f.length > MaxBytes
  <2>1. BufferAudio(a, f) = Oversize
    BY <1>3 DEF BufferAudio
  <2> QED
    BY <1>1, <2>1, OversizeRight
<1>4. CASE /\ ~ (a.oversize = "yes" \/ transcriber = "none")
           /\ ~ (Bytes(a.buffer) + f.length > MaxBytes)
  <2>1. BufferAudio(a, f) = Detecting(b)
    BY <1>4 DEF BufferAudio
  <2>2. /\ a \in Audios /\ a.buffer \in Seq(Frames) /\ a.prefix \in Seq(Frames)
        /\ Is(a.buffer, s) /\ IsPrefix(a.prefix, a.buffer) /\ Bytes(a.buffer) \in Nat
        /\ a.buffer # <<>> => a.buffer[1].voice = "speech"
    BY <1>4 DEF AudioRight, Audios
  <2>3. /\ b \in Audios /\ b.buffer = Append(a.buffer, f) /\ b.prefix = a.prefix
        /\ b.oversize = a.oversize
    <3>1. Append(a.buffer, f) \in Seq(Frames)
      BY <2>2
    <3> QED
      BY <2>2, <3>1 DEF Audios
  <2>4. Bytes(b.buffer) = Bytes(a.buffer) + f.length
    <3>1. [g \in Frames |-> g.length][f] = f.length
      OBVIOUS
    <3> QED
      BY <2>2, <2>3, <3>1, TotalOfAppend DEF Bytes
  <2>5. Bytes(b.buffer) \in Nat /\ Bytes(b.buffer) =< MaxBytes
    BY <1>4, <2>2, <2>4, FrameFields, Thresholds
  <2>6. Is(b.buffer, t)
    <3>1. ASSUME NEW v
          PROVE  Lasting(b.buffer, v)
                 = Lasting(a.buffer, v) + (IF f.voice = v THEN DurationOf(f.length) ELSE 0)
      <4>1. Durations(v)[f] = IF f.voice = v THEN DurationOf(f.length) ELSE 0
        BY DEF Durations
      <4> QED
        BY <2>2, <2>3, <4>1, TotalOfAppend DEF Lasting
    <3>2. Len(b.buffer) = Len(a.buffer) + 1
      BY <2>2, <2>3
    <3> QED
      BY <2>2, <3>1, <3>2 DEF Is, Added
  <2>7. b.buffer # <<>> /\ b.buffer[1].voice = "speech"
    <3>1. CASE a.buffer = <<>>
      <4>1. s.count = 0
        BY <2>2, <3>1 DEF Is
      <4> QED
        BY <2>3, <3>1, <4>1
    <3>2. CASE a.buffer # <<>>
      <4>1. b.buffer # <<>> /\ b.buffer[1] = a.buffer[1]
        BY <2>2, <2>3, <3>2
      <4> QED
        BY <2>2, <3>2, <4>1
    <3> QED
      BY <3>1, <3>2
  <2>8. IsPrefix(b.prefix, b.buffer) /\ IsPrefix(b.buffer, b.buffer) /\ b.buffer \in Seq(Frames)
    <3>1. b.buffer \in Seq(Frames)
      BY <2>3 DEF Audios
    <3>2. IsPrefix(a.prefix, Append(a.buffer, f))
      BY <2>2, Beginnings
    <3> HIDE DEF b
    <3> QED
      BY <2>3, <3>1, <3>2, Beginnings
  <2> HIDE DEF b, t
  <2>9. AudioRight(b, t)
    BY <1>1, <2>3, <2>5, <2>6, <2>7, <2>8 DEF AudioRight
  <2>10. CASE Detecting(b) = b
    BY <2>1, <2>9, <2>10 DEF t
  <2>11. CASE Detecting(b) = [b EXCEPT !.detection = "running", !.prefix = b.buffer]
    <3>1. /\ Detecting(b) \in Audios /\ Detecting(b).buffer = b.buffer
          /\ Detecting(b).prefix = b.buffer
      BY <2>3, <2>8, <2>11 DEF Audios
    <3>2. AudioRight(Detecting(b), t)
      BY <1>1, <2>5, <2>6, <2>7, <2>8, <3>1 DEF AudioRight
    <3> QED
      BY <2>1, <3>2 DEF t
  <2> QED
    BY <2>10, <2>11 DEF Detecting
<1> QED
  BY <1>2, <1>3, <1>4

-----------------------------------------------------------------------------
(***************************************************************************)
(* The pipeline.                                                           *)
(***************************************************************************)
PipelineInv ==
  /\ transcriber \in Transcribers
  /\ machine \in Machines /\ MachineRight(machine)
  /\ AudioRight(audio, SegmentOf(machine))
  /\ job.at \in {"idle", "transcribing", "answered"}
  /\ SentWhole

\* The invariant after a step that leaves m, a and the job as it was, or answered.
LEMMA StillRight ==
  ASSUME NEW m \in Machines, MachineRight(m), NEW a, AudioRight(a, SegmentOf(m)),
         PipelineInv, machine' = m, audio' = a, transcriber' = transcriber,
         job' = job \/ job' = [at |-> "answered"] \/ job' = [at |-> "idle"]
  PROVE  PipelineInv'
<1>1. job'.at \in {"idle", "transcribing", "answered"} /\ SentWhole'
  BY DEF PipelineInv, SentWhole
<1>2. transcriber' \in Transcribers
  BY DEF PipelineInv
<1>3. machine' \in Machines /\ MachineRight(machine)'
  BY DEF MachineRight
<1>4. AudioRight(audio, SegmentOf(machine))'
  BY DEF AudioRight, SegmentOf
<1> QED
  BY <1>1, <1>2, <1>3, <1>4 DEF PipelineInv

\* What is given to the transcriber, of audio that is right.
LEMMA Transcribing ==
  ASSUME NEW a, NEW s \in Segments, AudioRight(a, s), s.speech >= MinSpeech, s.count # 0,
         NEW m \in Machines, MachineRight(m), SegmentOf(m) = NoSegment,
         PipelineInv, machine' = m, transcriber' = transcriber, Transcribe(a, s)
  PROVE  PipelineInv'
<1>1. AudioRight(Released, SegmentOf(m)) /\ audio' = Released
  BY ReleasedRight DEF Transcribe
<1>2. CASE transcriber = "none" \/ a.oversize = "yes"
  <2>1. job' = [at |-> "answered"]
    BY <1>2 DEF Transcribe
  <2> QED
    BY <1>1, <2>1, StillRight
<1>3. CASE ~ (transcriber = "none" \/ a.oversize = "yes")
  <2>1. job' = [at |-> "transcribing", chunks |-> a.buffer, hint |-> Hint(a), segment |-> s]
    BY <1>3 DEF Transcribe
  <2>2. /\ a \in Audios /\ Is(a.buffer, s) /\ IsPrefix(a.prefix, a.buffer)
        /\ a.buffer # <<>> => a.buffer[1].voice = "speech"
    BY <1>3 DEF AudioRight, Audios
  <2>3. a.buffer \in Seq(Frames) /\ a.buffer # <<>>
    BY <2>2 DEF Audios, Is
  <2>4. IsPrefix(Hint(a), a.buffer)
    BY <2>2, <2>3, Beginnings DEF Hint
  <2>5. SentWhole'
    BY <2>1, <2>2, <2>3, <2>4 DEF SentWhole, Is
  <2>6. job'.at = "transcribing" /\ transcriber' \in Transcribers
    BY <2>1 DEF PipelineInv
  <2>7. machine' \in Machines /\ MachineRight(machine)'
    BY DEF MachineRight
  <2>8. AudioRight(audio, SegmentOf(machine))'
    BY <1>1 DEF AudioRight, SegmentOf
  <2> QED
    BY <2>5, <2>6, <2>7, <2>8 DEF PipelineInv
<1> QED
  BY <1>2, <1>3

LEMMA PipelineInvInit == Init => PipelineInv
<1> SUFFICES ASSUME Init PROVE PipelineInv
  OBVIOUS
<1>1. Fresh \in Machines /\ MachineRight(Fresh) /\ SegmentOf(Fresh) = NoSegment
  BY Thresholds DEF Fresh, Machines, MachineRight, SegmentOf, NoSegment
<1> QED
  BY <1>1, ReleasedRight DEF Init, PipelineInv, SentWhole

LEMMA PushRight ==
  ASSUME PipelineInv, NEW f \in Frames, Push(f)
  PROVE  PipelineInv'
<1> DEFINE d == Observe(machine, f)
           kept == IF d.discarded = "yes" THEN Released ELSE audio
           held == IF d.capture = "yes" THEN BufferAudio(kept, f) ELSE kept
           s == SegmentOf(machine)
<1>1. machine' = d.to /\ transcriber' = transcriber /\ After(d, held)
  BY DEF Push
<1>2. /\ machine \in Machines /\ MachineRight(machine) /\ AudioRight(audio, s)
  BY DEF PipelineInv
<1>3. Decided(machine, d, f)
  BY <1>2, ObserveDecides
<1>4. s \in Segments /\ s.count \in Nat /\ (s.count = 0 => s = NoSegment)
  BY <1>2 DEF Machines, MachineRight, Segments, SegmentOf, NoSegment
<1>5. NoSegment \in Segments /\ NoSegment.count = 0 /\ AudioRight(Released, NoSegment)
  BY ReleasedRight DEF NoSegment, Segments
<1> HIDE DEF d
<1>6. d.to \in Machines /\ MachineRight(d.to)
  BY <1>3 DEF Decided
<1>7. CASE Quiet(machine, d)
  <2>1. d.segment = NoSegment /\ SegmentOf(d.to) = NoSegment /\ held = kept
    BY <1>7 DEF Quiet
  <2>2. AudioRight(kept, NoSegment)
    BY <1>2, <1>5, <1>7 DEF Quiet
  <2>3. audio' = kept /\ job' = job
    BY <1>1, <2>1 DEF After
  <2> HIDE DEF kept, held, s
  <2> QED
    BY <1>1, <1>6, <2>1, <2>2, <2>3, StillRight
<1>8. CASE Takes(machine, d, f)
  <2> DEFINE base == IF d.discarded = "yes" THEN NoSegment ELSE s
  <2>1. /\ d.segment = NoSegment /\ SegmentOf(d.to) = Added(base, f)
        /\ held = BufferAudio(kept, f)
        /\ base = NoSegment => f.voice = "speech"
    BY <1>8 DEF Takes
  <2>2. base \in Segments /\ AudioRight(kept, base)
    BY <1>2, <1>4, <1>5
  <2>3. base.count = 0 => f.voice = "speech"
    BY <1>4, <2>1
  <2>4. audio' = held /\ job' = job
    BY <1>1, <2>1 DEF After
  <2> HIDE DEF base, kept, s
  <2>5. AudioRight(held, SegmentOf(d.to))
    BY <2>1, <2>2, <2>3, BufferedRight
  <2> HIDE DEF held
  <2> QED
    BY <1>1, <1>6, <2>4, <2>5, StillRight
<1>9. CASE Closes(machine, d, f)
  <2>1. /\ d.segment = Added(s, f) /\ d.segment.speech >= MinSpeech /\ s # NoSegment
        /\ SegmentOf(d.to) = NoSegment /\ held = BufferAudio(audio, f)
    BY <1>9 DEF Closes
  <2>2. s.count # 0 /\ Added(s, f) \in Segments /\ Added(s, f).count # 0
    BY <1>4, <2>1, FrameFields DEF Added, Segments
  <2>3. AudioRight(held, d.segment)
    BY <1>2, <1>4, <2>1, <2>2, BufferedRight
  <2>4. Transcribe(held, d.segment)
    BY <1>1, <1>5, <2>1, <2>2 DEF After
  <2> HIDE DEF held, kept, s
  <2> QED
    BY <1>1, <1>6, <2>1, <2>2, <2>3, <2>4, Transcribing
<1> QED
  BY <1>3, <1>7, <1>8, <1>9 DEF Decided

LEMMA PipelineInvNext == PipelineInv /\ [Next]_vars => PipelineInv'
<1> SUFFICES ASSUME PipelineInv, [Next]_vars PROVE PipelineInv'
  OBVIOUS
<1>1. /\ machine \in Machines /\ MachineRight(machine)
      /\ AudioRight(audio, SegmentOf(machine)) /\ AudioRight(Released, NoSegment)
  BY ReleasedRight DEF PipelineInv
<1>2. CASE PushAny
  <2>1. PICK n \in Lengths, activity \in {"speech", "silence", "failed"} : Push(FrameOf(n, activity))
    BY <1>2 DEF PushAny
  <2>2. FrameOf(n, activity) \in Frames
    BY DEF FrameOf, Frames
  <2> QED
    BY <2>1, <2>2, PushRight
<1>3. CASE Stop
  <2> DEFINE m == IF machine.state = "agent-speaking" THEN Blank(machine) ELSE Idle(machine)
             s == SegmentOf(machine)
  <2>1. machine' = m /\ transcriber' = transcriber /\ machine.barge = 0
    BY <1>3 DEF Stop
  <2>2. m \in Machines /\ SegmentOf(m) = NoSegment /\ MachineRight(m)
    <3>1. /\ Blank(machine) \in Machines /\ SegmentOf(Blank(machine)) = NoSegment
          /\ Idle(machine) \in Machines /\ SegmentOf(Idle(machine)) = NoSegment
          /\ MachineRight(Idle(machine))
      BY <1>1, BlankFields, Released0
    <3>2. MachineRight(Blank(machine)) \/ machine.state # "agent-speaking"
      <4>1. /\ Blank(machine).state = machine.state /\ Blank(machine).barge = machine.barge
            /\ Blank(machine).elapsed = machine.elapsed
        BY <1>1, BlankFields
      <4>2. machine.elapsed < AgentFloor /\ machine.barge < BargeInSpeech
        BY <1>1 DEF MachineRight
      <4> QED
        BY <2>1, <3>1, <4>1, <4>2, EmptyRight
    <3> QED
      BY <3>1, <3>2
  <2> HIDE DEF m
  <2>3. CASE machine.state = "listening" /\ machine.speech >= MinSpeech
    <3>1. s \in Segments /\ s.count # 0 /\ s.speech >= MinSpeech
      BY <1>1, <2>3 DEF SegmentOf, Segments, Machines, MachineRight
    <3>2. Transcribe(audio, s)
      BY <1>3, <2>3 DEF Stop
    <3> HIDE DEF s
    <3>3. AudioRight(audio, s)
      BY <1>1 DEF s
    <3> QED
      BY <2>1, <2>2, <3>1, <3>2, <3>3, Transcribing
  <2>4. CASE ~ (machine.state = "listening" /\ machine.speech >= MinSpeech)
    <3>1. audio' = Released /\ job' = job
      BY <1>3, <2>4 DEF Stop
    <3> QED
      BY <1>1, <2>1, <2>2, <3>1, StillRight
  <2> QED
    BY <2>3, <2>4
<1>4. CASE TranscriptionEnds \/ SaysNothing
  <2>1. /\ machine' = machine /\ audio' = audio /\ transcriber' = transcriber
        /\ job' = [at |-> "answered"] \/ job' = [at |-> "idle"]
    BY <1>4 DEF TranscriptionEnds, SaysNothing
  <2> QED
    BY <1>1, <2>1, StillRight
<1>5. CASE AgentStarts
  <2> DEFINE m == [Blank(machine) EXCEPT !.state = "agent-speaking", !.barge = 0, !.elapsed = 0]
  <2>1. /\ machine' = m /\ audio' = Released /\ transcriber' = transcriber
        /\ job' = [at |-> "idle"]
    BY <1>5 DEF AgentStarts
  <2>2. /\ m \in Machines /\ SegmentOf(m) = NoSegment /\ m.state = "agent-speaking"
        /\ m.barge = 0 /\ m.elapsed = 0
    <3>1. ASSUME NEW b \in Machines
          PROVE  LET n == [b EXCEPT !.state = "agent-speaking", !.barge = 0, !.elapsed = 0]
                 IN  /\ n \in Machines /\ SegmentOf(n) = SegmentOf(b)
                     /\ n.state = "agent-speaking" /\ n.barge = 0 /\ n.elapsed = 0
      BY DEF Machines, SegmentOf
    <3>2. Blank(machine) \in Machines /\ SegmentOf(Blank(machine)) = NoSegment
      BY <1>1, BlankFields
    <3> QED
      BY <3>1, <3>2
  <2> HIDE DEF m
  <2>3. MachineRight(m)
    BY <2>2, EmptyRight, Thresholds
  <2> QED
    BY <1>1, <2>1, <2>2, <2>3, StillRight
<1>6. CASE AgentStops
  <2>1. CASE machine.state = "agent-speaking"
    <3>1. /\ machine' = ReleaseFloor(machine) /\ audio' = Released /\ job' = job
          /\ transcriber' = transcriber
      BY <1>6, <2>1 DEF AgentStops, Yields
    <3>2. /\ ReleaseFloor(machine) \in Machines /\ MachineRight(ReleaseFloor(machine))
          /\ SegmentOf(ReleaseFloor(machine)) = NoSegment
      BY <1>1, BlankFields, Released0
    <3> QED
      BY <1>1, <3>1, <3>2, StillRight
  <2>2. CASE machine.state # "agent-speaking"
    <3>1. machine' = machine /\ audio' = audio /\ job' = job /\ transcriber' = transcriber
      BY <1>6, <2>2 DEF AgentStops, Yields
    <3> QED
      BY <1>1, <3>1, StillRight
  <2> QED
    BY <2>1, <2>2
<1>7. CASE DetectionEnds
  <2> DEFINE s == SegmentOf(machine)
  <2>1. PICK end \in {"hinted", "failed"} : audio' = [audio EXCEPT !.detection = end]
    BY <1>7 DEF DetectionEnds
  <2>2. machine' = machine /\ job' = job /\ transcriber' = transcriber
    BY <1>7 DEF DetectionEnds
  <2> DEFINE a == [audio EXCEPT !.detection = end]
  <2>3. audio # Released
    BY <1>7 DEF DetectionEnds, Released
  <2>4. /\ a \in Audios /\ a.buffer = audio.buffer /\ a.prefix = audio.prefix
        /\ a.oversize = audio.oversize
    BY <1>1 DEF AudioRight, Audios
  <2> HIDE DEF a, s
  <2>5. AudioRight(a, s)
    BY <1>1, <2>3, <2>4 DEF AudioRight, s
  <2> QED
    BY <1>1, <2>1, <2>2, <2>5, StillRight DEF a, s
<1>8. CASE UNCHANGED vars
  BY <1>1, <1>8, StillRight DEF vars
<1> QED
  BY <1>2, <1>3, <1>4, <1>5, <1>6, <1>7, <1>8 DEF Next

LEMMA PipelineInvImplies == PipelineInv => TypeOK /\ AudioIsUtterance /\ SentWhole
<1> SUFFICES ASSUME PipelineInv PROVE TypeOK /\ AudioIsUtterance
  BY DEF PipelineInv
<1>1. /\ machine \in Machines /\ MachineRight(machine) /\ audio \in Audios
      /\ AudioRight(audio, SegmentOf(machine))
  BY DEF PipelineInv, AudioRight
<1>2. TypeOK
  BY <1>1 DEF PipelineInv, TypeOK, Machines, MachineRight, Audios, AudioRight
<1>3. /\ SegmentOf(machine).count = machine.count /\ SegmentOf(machine).speech = machine.speech
      /\ SegmentOf(machine).silence = machine.silence
  BY DEF SegmentOf
<1>4. AudioIsUtterance
  BY <1>1, <1>3 DEF AudioIsUtterance, MachineRight, AudioRight, Is
<1> QED
  BY <1>2, <1>4

-----------------------------------------------------------------------------
(***************************************************************************)
(* The two callers.  Each of their steps is the pipeline's own, or leaves  *)
(* it alone.                                                               *)
(***************************************************************************)
LEMMA StepsOfCallers == [AllNext]_allVars => [Next]_vars
<1> SUFFICES ASSUME [AllNext]_allVars PROVE [Next]_vars
  OBVIOUS
<1>1. CASE Receive
  <2>1. PICK activity \in Activities(Head(mic.queue)) : Push(FrameOf(MicFrame, activity))
    BY <1>1 DEF Receive
  <2>2. MicFrame \in Lengths /\ activity \in {"speech", "silence", "failed"}
    BY MicrophoneAssumption DEF Activities
  <2>3. PushAny
    BY <2>1, <2>2 DEF PushAny
  <2> QED
    BY <2>3 DEF Next
<1>2. CASE OnSocket(Next)
  BY <1>2 DEF OnSocket
<1>3. CASE (caller = "listener" /\ DetectsLanguage) \/ TranscriptArrives \/ Skips
           \/ StaysSilent \/ Speaks \/ ReplyEnds
  BY <1>3 DEF DetectsLanguage, TranscriptArrives, Skips, StaysSilent, Speaks, ReplyEnds, Next
<1>4. CASE Capture \/ Offer \/ StartMicrophone \/ StopMicrophone \/ FramesEnd
           \/ FillerSpeaks \/ FillerSaid \/ FillerCanceled \/ StrayEnds \/ Returned
           \/ UNCHANGED allVars
  <2>1. UNCHANGED vars
    BY <1>4 DEF Capture, Offer, StartMicrophone, StopMicrophone, FramesEnd, FillerSpeaks,
                FillerSaid, FillerCanceled, StrayEnds, Returned, allVars
  <2> QED
    BY <2>1
<1> QED
  BY <1>1, <1>2, <1>3, <1>4 DEF AllNext

Mics == [device : {"unopened", "open", "closed"}, paused : {"yes", "no"},
         queue : Seq(Voices), handed : Seq(Voices)]

Fillers == [at : {"none", "sleeping", "saying", "canceling"}, left : Int]

\* What the microphone's pause, the fillers and the loop know of one another.
DuplexInv ==
  /\ mic \in Mics /\ filler \in Fillers /\ sounding \subseteq Agent
  /\ loop \in {"heard", "starting", "waiting", "over", "pushing", "skipped", "speaking"}
  /\ filler.at \in {"sleeping", "saying"} => loop = "pushing"
  /\ filler.at = "canceling" => loop \in {"heard", "skipped"}
  /\ mic.paused = "yes" <=> loop = "speaking" \/ filler.at \in {"saying", "canceling"}
  /\ "reply" \in sounding => loop = "speaking"
  /\ "filler" \in sounding => filler.at \in {"saying", "canceling"}
  /\ OnlyStraysHeard

\* Frames a microphone that is not heard of the agent.
Others == Voices \ {"reply", "filler"}

LEMMA HeardOthers ==
  ASSUME NEW m \in Mics
  PROVE  {"reply", "filler"} \cap (ToSet(m.queue) \cup ToSet(m.handed)) = {}
         <=> m.queue \in Seq(Others) /\ m.handed \in Seq(Others)
<1>1. ASSUME NEW s \in Seq(Voices)
      PROVE  {"reply", "filler"} \cap ToSet(s) = {} <=> s \in Seq(Others)
  <2>1. ASSUME {"reply", "filler"} \cap ToSet(s) = {} PROVE s \in Seq(Others)
    <3>1. \A i \in 1..Len(s) : s[i] \in Others
      BY <2>1 DEF ToSet, Others
    <3>2. s = [i \in 1..Len(s) |-> s[i]] /\ Len(s) \in Nat
      OBVIOUS
    <3> QED
      BY <3>1, <3>2, SeqDef
  <2>2. ASSUME s \in Seq(Others) PROVE {"reply", "filler"} \cap ToSet(s) = {}
    BY <2>2 DEF ToSet, Others
  <2> QED
    BY <2>1, <2>2
<1>2. m.queue \in Seq(Voices) /\ m.handed \in Seq(Voices)
  BY DEF Mics
<1> QED
  BY <1>1, <1>2

LEMMA DuplexInit == AllInit => DuplexInv
<1> SUFFICES ASSUME AllInit PROVE DuplexInv
  OBVIOUS
<1>1. mic \in Mics /\ mic.paused = "no" /\ mic.queue = <<>> /\ mic.handed = <<>>
  BY DEF AllInit, VoiceInit, Mics
<1>2. OnlyStraysHeard
  BY <1>1 DEF OnlyStraysHeard, ToSet
<1> QED
  BY <1>1, <1>2 DEF AllInit, VoiceInit, DuplexInv, NoFiller, Fillers

\* The parts of the invariant, with what is queued as sequences.
LEMMA DuplexParts ==
  DuplexInv <=> /\ mic \in Mics /\ filler \in Fillers /\ sounding \subseteq Agent
                /\ loop \in {"heard", "starting", "waiting", "over", "pushing", "skipped", "speaking"}
                /\ filler.at \in {"sleeping", "saying"} => loop = "pushing"
                /\ filler.at = "canceling" => loop \in {"heard", "skipped"}
                /\ mic.paused = "yes" <=> loop = "speaking" \/ filler.at \in {"saying", "canceling"}
                /\ "reply" \in sounding => loop = "speaking"
                /\ "filler" \in sounding => filler.at \in {"saying", "canceling"}
                /\ mic.queue \in Seq(Others) /\ mic.handed \in Seq(Others)
<1>1. mic \in Mics => (OnlyStraysHeard <=> mic.queue \in Seq(Others) /\ mic.handed \in Seq(Others))
  BY HeardOthers DEF OnlyStraysHeard
<1> QED
  BY <1>1 DEF DuplexInv

\* What pausing and resuming make of a microphone.
LEMMA MicPauses ==
  ASSUME NEW m \in Mics
  PROVE  /\ LET n == Pause(m)
            IN  n \in Mics /\ n.paused = "yes" /\ n.queue = m.queue /\ n.handed = m.handed
         /\ LET n == Resume(m)
            IN  n \in Mics /\ n.paused = "no" /\ n.queue = <<>> /\ n.handed = m.handed
<1>1. <<>> \in Seq(Voices)
  OBVIOUS
<1>2. LET n == Pause(m)
      IN  n \in Mics /\ n.paused = "yes" /\ n.queue = m.queue /\ n.handed = m.handed
  BY DEF Pause, Mics
<1>3. LET n == Resume(m)
      IN  n \in Mics /\ n.paused = "no" /\ n.queue = <<>> /\ n.handed = m.handed
  BY <1>1 DEF Resume, Mics
<1> QED
  BY <1>2, <1>3

LEMMA DuplexNext == DuplexInv /\ [AllNext]_allVars => DuplexInv'
<1> SUFFICES ASSUME DuplexInv, [AllNext]_allVars PROVE DuplexInv'
  OBVIOUS
<1> DEFINE Loops == {"heard", "starting", "waiting", "over", "pushing", "skipped", "speaking"}
           Right == /\ mic \in Mics /\ filler \in Fillers /\ sounding \subseteq Agent
                    /\ loop \in Loops
                    /\ filler.at \in {"sleeping", "saying"} => loop = "pushing"
                    /\ filler.at = "canceling" => loop \in {"heard", "skipped"}
                    /\ mic.paused = "yes" <=> loop = "speaking" \/ filler.at \in {"saying", "canceling"}
                    /\ "reply" \in sounding => loop = "speaking"
                    /\ "filler" \in sounding => filler.at \in {"saying", "canceling"}
                    /\ mic.queue \in Seq(Others) /\ mic.handed \in Seq(Others)
<1>1. Right
  BY DuplexParts
<1> SUFFICES Right'
  <2>1. Right' <=> DuplexInv'
    BY DuplexParts, PTL
  <2> QED
    BY <2>1
<1>2. /\ mic.queue \in Seq(Others) /\ mic.handed \in Seq(Others) /\ <<>> \in Seq(Others)
      /\ mic \in Mics /\ filler \in Fillers
      /\ \A s \in Seq(Others) : s \in Seq(Voices)
  BY <1>1 DEF Others
<1>3. Waits \in {"starting", "waiting", "over"}
  BY <1>2 DEF Waits, Mics
<1>4. CASE UNCHANGED voice
  BY <1>1, <1>4 DEF voice
<1>5. CASE Capture
  <2>1. PICK source \in {"buyer", "nobody"} \cup sounding : mic' = [mic EXCEPT !.handed = <<source>>]
    BY <1>5 DEF Capture
  <2>2. source \in Others
    BY <1>1, <1>5 DEF Capture, Others, Voices, Agent
  <2>3. <<source>> \in Seq(Others)
    BY <2>2
  <2>4. mic' \in Mics /\ mic'.paused = mic.paused /\ mic'.queue \in Seq(Others) /\ mic'.handed \in Seq(Others)
    <3> DEFINE h == <<source>>
    <3>1. mic \in Mics /\ h \in Seq(Voices) /\ mic' = [mic EXCEPT !.handed = h]
      BY <1>2, <2>1, <2>3
    <3> HIDE DEF h
    <3>2. mic' \in Mics /\ mic'.paused = mic.paused /\ mic'.queue = mic.queue /\ mic'.handed = h
      BY ONLY <3>1 DEF Mics
    <3> QED
      BY <1>2, <2>3, <3>2 DEF h
  <2> QED
    BY <1>1, <1>5, <2>4 DEF Capture
<1>6. CASE Offer
  <2> DEFINE kept == IF Len(mic.queue) = MaxQueuedFrames THEN Tail(mic.queue) ELSE mic.queue
  <2>1. mic' = [mic EXCEPT !.queue = kept \o mic.handed, !.handed = <<>>]
    BY <1>6 DEF Offer
  <2>2. kept \o mic.handed \in Seq(Others)
    <3>1. Len(mic.queue) = MaxQueuedFrames => mic.queue # <<>>
      BY MicrophoneAssumption
    <3> QED
      BY <1>2, <3>1
  <2>3. mic' \in Mics /\ mic'.paused = mic.paused /\ mic'.queue \in Seq(Others) /\ mic'.handed \in Seq(Others)
    <3> DEFINE q == kept \o mic.handed
    <3>1. /\ mic \in Mics /\ q \in Seq(Voices) /\ <<>> \in Seq(Voices)
          /\ mic' = [mic EXCEPT !.queue = q, !.handed = <<>>]
      BY <1>2, <2>1, <2>2
    <3> HIDE DEF q
    <3>2. mic' \in Mics /\ mic'.paused = mic.paused /\ mic'.queue = q /\ mic'.handed = <<>>
      BY ONLY <3>1 DEF Mics
    <3> QED
      BY <1>2, <2>2, <3>2 DEF q
  <2> QED
    BY <1>1, <1>6, <2>3 DEF Offer
<1>7. CASE StartMicrophone \/ StopMicrophone
  <2>1. mic' \in Mics /\ mic'.paused = mic.paused /\ mic'.queue \in Seq(Others) /\ mic'.handed \in Seq(Others)
    <3>1. mic' \in {mic, [mic EXCEPT !.device = "open"], [mic EXCEPT !.device = "closed", !.queue = <<>>]}
      BY <1>7 DEF StartMicrophone, StopMicrophone
    <3>2. <<>> \in Seq(Voices) /\ mic.queue \in Seq(Voices) /\ mic.handed \in Seq(Voices)
      BY <1>2 DEF Mics
    <3> QED
      BY <1>2, <3>1, <3>2 DEF Mics
  <2>2. loop = "starting" => filler.at = "none"
    BY <1>1 DEF Fillers
  <2> QED
    BY <1>1, <1>7, <2>1, <2>2 DEF StartMicrophone, StopMicrophone
<1>8. CASE FramesEnd
  BY <1>1, <1>8 DEF FramesEnd, Fillers
<1>9. CASE Receive
  <2>1. mic' = [mic EXCEPT !.queue = Tail(mic.queue)] /\ loop = "waiting" /\ mic.queue # <<>>
    BY <1>9 DEF Receive
  <2>2. Tail(mic.queue) \in Seq(Others)
    BY <1>2, <2>1
  <2>3. mic' \in Mics /\ mic'.paused = mic.paused /\ mic'.queue \in Seq(Others) /\ mic'.handed \in Seq(Others)
    <3> DEFINE q == Tail(mic.queue)
    <3>1. mic \in Mics /\ q \in Seq(Voices) /\ mic' = [mic EXCEPT !.queue = q]
      BY <1>2, <2>1, <2>2
    <3> HIDE DEF q
    <3>2. mic' \in Mics /\ mic'.paused = mic.paused /\ mic'.queue = q /\ mic'.handed = mic.handed
      BY ONLY <3>1 DEF Mics
    <3> QED
      BY <1>2, <2>2, <3>2 DEF q
  <2>4. filler.at = "none" /\ mic.paused = "no" /\ sounding \cap {"reply", "filler"} = {}
    BY <1>1, <2>1 DEF Fillers, Mics
  <2>5. \/ filler' = filler /\ loop' \in {"starting", "waiting", "over", "skipped"}
        \/ filler' = [at |-> "sleeping", left |-> MaxFillers] /\ loop' = "pushing"
    <3>1. PICK activity \in Activities(Head(mic.queue)) : Push(FrameOf(MicFrame, activity))
      BY <1>9 DEF Receive
    <3>2. job'.at \in {"idle", "answered", "transcribing"}
      BY <3>1 DEF Push, After, Transcribe
    <3> QED
      BY <1>3, <1>9, <3>2 DEF Receive
  <2>6. MaxFillers \in Int
    BY MicrophoneAssumption
  <2> QED
    BY <1>1, <1>9, <2>3, <2>4, <2>5, <2>6 DEF Receive, Fillers
<1>10. CASE FillerSpeaks
  <2>1. /\ mic' = Pause(mic) /\ filler.at = "sleeping" /\ loop = "pushing" /\ loop' = loop
        /\ filler' = [filler EXCEPT !.at = "saying", !.left = @ - 1]
        /\ sounding' = sounding \cup {"filler"}
    BY <1>10 DEF FillerSpeaks
  <2>2. /\ mic' \in Mics /\ mic'.paused = "yes" /\ mic'.queue \in Seq(Others) /\ mic'.handed \in Seq(Others)
    BY <1>2, <2>1, MicPauses
  <2>3. filler' \in Fillers /\ filler'.at = "saying"
    <3>1. /\ filler = [at |-> filler.at, left |-> filler.left] /\ filler.left \in Int
      BY <1>2 DEF Fillers
    <3>2. filler' = [at |-> "saying", left |-> filler.left - 1]
      BY ONLY <2>1, <3>1
    <3> QED
      BY <3>1, <3>2 DEF Fillers
  <2> QED
    BY <1>1, <2>1, <2>2, <2>3 DEF Agent
<1>11. CASE FillerSaid \/ FillerCanceled
  <2>1. /\ mic' = Resume(mic) /\ filler.at \in {"saying", "canceling"} /\ loop' = loop
        /\ sounding' \subseteq (sounding \ {"filler"}) \cup {"stray"}
    BY <1>11 DEF FillerSaid, FillerCanceled
  <2>2. /\ mic' \in Mics /\ mic'.paused = "no" /\ mic'.queue \in Seq(Others) /\ mic'.handed \in Seq(Others)
    BY <1>2, <2>1, MicPauses
  <2>3. filler' \in Fillers /\ (filler'.at = "none" \/ (filler'.at = "sleeping" /\ filler.at = "saying"))
    BY <1>1, <1>11 DEF FillerSaid, FillerCanceled, Fillers, NoFiller
  <2> QED
    BY <1>1, <2>1, <2>2, <2>3 DEF Agent
<1>12. CASE TranscriptArrives
  <2>1. /\ loop = "pushing" /\ loop' \in {"heard", "skipped"} /\ mic' = mic /\ sounding' = sounding
        /\ filler' = IF filler.at = "saying" THEN [filler EXCEPT !.at = "canceling"] ELSE NoFiller
    BY <1>12 DEF TranscriptArrives
  <2>2. /\ filler' \in Fillers
        /\ IF filler.at = "saying" THEN filler'.at = "canceling" ELSE filler'.at = "none"
    BY <1>1, <2>1 DEF Fillers, NoFiller
  <2> QED
    BY <1>1, <2>1, <2>2 DEF Fillers
<1>13. CASE StrayEnds
  BY <1>1, <1>13 DEF StrayEnds
<1>14. CASE Skips \/ StaysSilent
  BY <1>1, <1>3, <1>14 DEF Skips, StaysSilent, StoppedThinking
<1>15. CASE Speaks
  <2>1. mic' = Pause(mic) /\ filler.at = "none" /\ filler' = filler /\ loop' = "speaking"
        /\ sounding' = sounding \cup {"reply"}
    BY <1>15 DEF Speaks, StoppedThinking
  <2>2. /\ mic' \in Mics /\ mic'.paused = "yes" /\ mic'.queue \in Seq(Others) /\ mic'.handed \in Seq(Others)
    BY <1>2, <2>1, MicPauses
  <2> QED
    BY <1>1, <2>1, <2>2 DEF Agent
<1>16. CASE ReplyEnds
  <2>1. /\ mic' = Resume(mic) /\ loop = "speaking" /\ filler' = filler
        /\ loop' \in {"starting", "waiting", "over"} /\ sounding' = sounding \ {"reply"}
    BY <1>3, <1>16 DEF ReplyEnds
  <2>2. /\ mic' \in Mics /\ mic'.paused = "no" /\ mic'.queue \in Seq(Others) /\ mic'.handed \in Seq(Others)
    BY <1>2, <2>1, MicPauses
  <2>3. filler.at = "none"
    BY <1>1, <2>1 DEF Fillers
  <2> QED
    BY <1>1, <2>1, <2>2, <2>3
<1>17. OnSocket(Next) \/ DetectsLanguage \/ Returned \/ UNCHANGED allVars => UNCHANGED voice
  BY DEF OnSocket, DetectsLanguage, Returned, allVars
<1> HIDE DEF Right
<1> QED
  BY <1>4, <1>5, <1>6, <1>7, <1>8, <1>9, <1>10, <1>11, <1>12, <1>13, <1>14, <1>15, <1>16, <1>17
  DEF AllNext

LEMMA DuplexImplies == DuplexInv => HalfDuplex
<1> SUFFICES ASSUME DuplexInv PROVE ListensUnpaused
  BY DEF HalfDuplex, DuplexInv
<1> QED
  BY DEF DuplexInv, ListensUnpaused, Mics

-----------------------------------------------------------------------------
(***************************************************************************)
(* The results.                                                            *)
(***************************************************************************)
\* TurnTaking's counters and the pipeline's audio agree frame by frame, whoever
\* calls push(), stop() and the reports of playback, in whatever order.
THEOREM PipelineInvariant == Spec => []PipelineInv
BY PipelineInvInit, PipelineInvNext, PTL DEF Spec

\* The callers of simulator/router.py and of cli/talk.py do nothing to the
\* pipeline that SpeechTurns does not allow: VoiceLoop implements it.
THEOREM CallersUsePipeline == AllSpec => Spec
<1>1. AllInit => Init
  BY DEF AllInit
<1> QED
  BY <1>1, StepsOfCallers, PTL DEF Spec, AllSpec

\* The pipeline's variables keep their types: the floor's timer and an
\* interruption's length stay under their thresholds, the buffer under its.
THEOREM PipelineTypes == Spec => []TypeOK
BY PipelineInvariant, PipelineInvImplies, PTL

\* What is held is what is counted, from the first frame of the utterance, or
\* nothing is: with either caller.
THEOREM HeldIsUtterance == AllSpec => []AudioIsUtterance
BY CallersUsePipeline, PipelineInvariant, PipelineInvImplies, PTL

\* The transcriber is given whole utterances, which begin with speech, have
\* enough of it, and whose hint is of their own beginning: with either caller.
THEOREM UtterancesWhole == AllSpec => []SentWhole
BY CallersUsePipeline, PipelineInvariant, PipelineInvImplies, PTL

\* The microphone is deaf while the agent speaks and only then, however a
\* reply or a filler ends, for a queue of any size and any number of fillers.
THEOREM MicrophoneHalfDuplex == AllSpec => []HalfDuplex
BY DuplexInit, DuplexNext, DuplexImplies, PTL DEF AllSpec

-----------------------------------------------------------------------------
(***************************************************************************)
(* The circuit breaker keeps its count, its state and its probe slot       *)
(* together, for any number of callers, any threshold and any timeout.     *)
(***************************************************************************)
USE FailureThresholdAssumption, RecoveryTimeoutAssumption, MaxAttemptsAssumption

\* A call that sleeps has an attempt left to make.
SleepsBetween == \A c \in Calls : call[c] = "sleeping" => attempt[c] < MaxAttempts

BreakerInv == BreakerTypeOK /\ SlotHeld /\ CountMatchesState /\ SleepsBetween

\* What the three record_* methods make of the breaker's own fields.
BreakerOK ==
  /\ stored \in States /\ failures \in 0..FailureThreshold /\ age \in 0..RecoveryTimeout
  /\ slot \in {"free", "taken"}
  /\ slot = "taken" <=> stored = "half-open"
  /\ CountMatchesState

\* A record_* method leaves the breaker consistent and its slot free, or,
\* when it changes nothing, as free as it was.
LEMMA Recorded ==
  ASSUME BreakerOK, RecordSuccess \/ RecordFailure \/ RecordAbortedProbe
  PROVE BreakerOK' /\ slot' = "free"
<1>1. CASE RecordSuccess
  BY <1>1 DEF BreakerOK, RecordSuccess, CountMatchesState, States
<1>2. CASE RecordFailure
  BY <1>2 DEF BreakerOK, RecordFailure, CountMatchesState, CountUp, States
<1>3. CASE RecordAbortedProbe
  BY <1>3 DEF BreakerOK, RecordAbortedProbe, CountMatchesState, States, breaker
<1> QED
  BY <1>1, <1>2, <1>3

\* before_call() lets a call in with the breaker consistent, and takes the
\* slot only for a probe.
LEMMA Admitted ==
  ASSUME BreakerOK, Admit
  PROVE /\ BreakerOK'
        /\ slot' = "taken" => State = "half-open"
  BY DEF BreakerOK, Admit, State, States, CountMatchesState

\* The invariant of the whole holds that of the breaker.
LEMMA BreakerSplit == BreakerInv => BreakerOK /\ BreakerTypeOK
  BY DEF BreakerInv, BreakerTypeOK, SlotHeld, BreakerOK

\* The invariant is inductive: one step per action, the three endings of a
\* call together, for the breaker's part of them is the lemma Recorded.
LEMMA BreakerInductive == BreakerInv /\ [BreakerNext]_breakerVars => BreakerInv'
<1> SUFFICES ASSUME BreakerInv, [BreakerNext]_breakerVars PROVE BreakerInv'
  OBVIOUS
<1>0. BreakerOK /\ BreakerTypeOK
  BY BreakerSplit
<1>1. CASE UNCHANGED breakerVars
  BY <1>1 DEF BreakerInv, BreakerTypeOK, SlotHeld, CountMatchesState, SleepsBetween, Probes, breakerVars
<1>2. CASE Tick
  BY <1>2 DEF BreakerInv, Tick, BreakerTypeOK, SlotHeld, CountMatchesState, SleepsBetween, Probes
<1>3. ASSUME NEW c \in Calls, Enter(c)
      PROVE BreakerInv'
  <2>1. BreakerOK' /\ (slot' = "taken" => State = "half-open")
    BY <1>0, <1>3, Admitted DEF Enter
  <2>2. call' \in [Calls -> {"idle", "trying", "sleeping"}]
    BY <1>0, <1>3 DEF Enter, BreakerTypeOK
  <2>3. attempt' \in [Calls -> 1..MaxAttempts]
    BY <1>0, <1>3 DEF Enter, BreakerTypeOK
  <2>4. admitted' \in [Calls -> {"nothing", "regular", "probe"}]
    BY <1>0, <1>3 DEF Enter, BreakerTypeOK
  <2>5. slot' = "taken" => Probes' # {}
    <3> SUFFICES ASSUME slot' = "taken" PROVE c \in Probes'
      OBVIOUS
    <3>1. admitted'[c] = "probe"
      BY <1>0, <1>3, <2>1 DEF Enter, BreakerTypeOK
    <3> QED
      BY <3>1 DEF Probes
  <2>6. SleepsBetween'
    BY <1>3 DEF Enter, BreakerInv, BreakerTypeOK, SleepsBetween
  <2> QED
    BY <2>1, <2>2, <2>3, <2>4, <2>5, <2>6 DEF BreakerInv, BreakerTypeOK, SlotHeld, BreakerOK, CountMatchesState
<1>4. ASSUME NEW c \in Calls, Leave(c),
             RecordSuccess \/ RecordFailure \/ RecordAbortedProbe
      PROVE BreakerInv'
  <2>1. BreakerOK' /\ slot' = "free"
    BY <1>0, <1>4, Recorded
  <2>2. call' \in [Calls -> {"idle", "trying", "sleeping"}]
    BY <1>0, <1>4 DEF Leave, BreakerTypeOK
  <2>3. attempt' \in [Calls -> 1..MaxAttempts]
    BY <1>0, <1>4 DEF Leave, BreakerTypeOK
  <2>4. admitted' \in [Calls -> {"nothing", "regular", "probe"}]
    BY <1>0, <1>4 DEF Leave, BreakerTypeOK
  <2>5. SleepsBetween'
    BY <1>4 DEF Leave, BreakerInv, BreakerTypeOK, SleepsBetween
  <2> QED
    BY <2>1, <2>2, <2>3, <2>4, <2>5 DEF BreakerInv, BreakerTypeOK, SlotHeld, BreakerOK, CountMatchesState
<1>5. ASSUME NEW c \in Calls, BackOff(c)
      PROVE BreakerInv'
  <2>1. BreakerTypeOK' /\ SlotHeld' /\ CountMatchesState'
    BY <1>5 DEF BreakerInv, BackOff, breaker, BreakerTypeOK, SlotHeld, CountMatchesState, Probes
  <2>2. SleepsBetween'
    BY <1>5 DEF BreakerInv, BackOff, BreakerTypeOK, SleepsBetween
  <2> QED
    BY <2>1, <2>2 DEF BreakerInv
<1>6. ASSUME NEW c \in Calls, TryAgain(c)
      PROVE BreakerInv'
  <2>1. attempt[c] < MaxAttempts /\ attempt[c] \in 1..MaxAttempts
    BY <1>6 DEF BreakerInv, BreakerTypeOK, SleepsBetween, TryAgain
  <2>2. attempt' \in [Calls -> 1..MaxAttempts] /\ SleepsBetween'
    BY <1>6, <2>1 DEF BreakerInv, TryAgain, BreakerTypeOK, SleepsBetween
  <2>3. BreakerTypeOK' /\ SlotHeld' /\ CountMatchesState'
    BY <1>6, <2>2 DEF BreakerInv, TryAgain, breaker, BreakerTypeOK, SlotHeld, CountMatchesState, Probes
  <2> QED
    BY <2>2, <2>3 DEF BreakerInv
<1> QED
  BY <1>1, <1>2, <1>3, <1>4, <1>5, <1>6 DEF BreakerNext, CallStep, Succeed, GiveUp, Abort

LEMMA BreakerInitially == BreakerInit => BreakerInv
  BY DEF BreakerInit, BreakerInv, BreakerTypeOK, SlotHeld, CountMatchesState, SleepsBetween, States

LEMMA BreakerInvariant == BreakerSpec => []BreakerInv
  BY BreakerInitially, BreakerInductive, PTL DEF BreakerSpec

-----------------------------------------------------------------------------
\* Every variable keeps its type: the count, the age and the attempts stay
\* within their limits.
THEOREM BreakerTypes == BreakerSpec => []BreakerTypeOK
<1>1. BreakerInv => BreakerTypeOK
  BY DEF BreakerInv
<1> QED
  BY <1>1, BreakerInvariant, PTL

\* The probe slot is taken exactly while the breaker is half open, by a
\* probe that is in flight: no order of late results leaks it.
THEOREM SlotIsHeld == BreakerSpec => []SlotHeld
<1>1. BreakerInv => SlotHeld
  BY DEF BreakerInv
<1> QED
  BY <1>1, BreakerInvariant, PTL

\* The breaker is closed exactly while the failures since the last success
\* are below the threshold, whenever record_failure() runs.
THEOREM CountAndStateAgree == BreakerSpec => []CountMatchesState
<1>1. BreakerInv => CountMatchesState
  BY DEF BreakerInv
<1> QED
  BY <1>1, BreakerInvariant, PTL

\* A closed circuit is opened by a transient failure that is counted, and
\* by nothing else: an abort finds the slot free when the circuit is closed.
THEOREM OpenedByFailures == BreakerSpec => OnlyFailuresOpen
<1>1. BreakerInv /\ [BreakerNext]_breakerVars => [stored = "closed" /\ stored' = "open" => failures' > failures]_breakerVars
  <2> SUFFICES ASSUME BreakerInv, [BreakerNext]_breakerVars, stored = "closed", stored' = "open"
               PROVE failures' > failures
    OBVIOUS
  <2>1. slot = "free" /\ failures \in 0..FailureThreshold /\ failures < FailureThreshold
    BY DEF BreakerInv, BreakerTypeOK, SlotHeld, CountMatchesState
  <2>2. PICK c \in Calls : Enter(c) \/ CallStep(c)
    BY DEF BreakerNext, breakerVars, Tick
  <2>3. CASE Enter(c)
    BY <2>3 DEF Enter, Admit, State
  <2>4. CASE GiveUp(c)
    BY <2>1, <2>4 DEF GiveUp, RecordFailure, CountUp
  <2>5. CASE Abort(c)
    BY <2>1, <2>5 DEF Abort, RecordAbortedProbe, breaker
  <2>6. CASE Succeed(c) \/ BackOff(c) \/ TryAgain(c)
    BY <2>6 DEF Succeed, RecordSuccess, BackOff, TryAgain, breaker
  <2> QED
    BY <2>2, <2>3, <2>4, <2>5, <2>6 DEF CallStep
<1> QED
  BY <1>1, BreakerInvariant, PTL DEF BreakerSpec, OnlyFailuresOpen
=============================================================================
