------------------------- MODULE EventManagerProofs -------------------------
(***************************************************************************)
(* TLAPS proofs about EventManager, for all limits, all processes and      *)
(* goroutines, and every sequence of events: also those that the probes    *)
(* would never send.                                                       *)
(*                                                                         *)
(* What is counted is a set: Held(goEvents, gs) is the set of positions of *)
(* the events retained for the goroutines gs.  An event of g changes what  *)
(* g holds and what the goroutines of an evicted process hold, and leaves  *)
(* the rest alone, so each proof about the budget adds up three numbers.   *)
(* That the two pairings agree is by induction on the events: the lemmas   *)
(* about AggregateStack say what it makes of one event more, so that the   *)
(* invariant relates it to the observed stack.                             *)
(*                                                                         *)
(* SuppressedHoldNothing survives an event that is retained only because   *)
(* one of a suppressed goroutine comes that far when it is a TRACE_START,  *)
(* which has lifted the suppression; and without --sample, where nothing   *)
(* is lifted, only because nothing is ever suppressed.                     *)
(*                                                                         *)
(* Events that come in order of time give calls that share neither entry   *)
(* nor return, and an event Handle takes either joins what is retained or  *)
(* turns all of it into reports.                                           *)
(*                                                                         *)
(* The last part replays the manager for one goroutine.  A replica is what *)
(* Handle would hold of the goroutine had it room for everything; one      *)
(* event more changes it (Replayed) and may yield calls (Yield).  The maps *)
(* mirror the replica, or are empty after an eviction (HandleReplays), and *)
(* what is reported is what the replica yields (HandleOutputs).            *)
(***************************************************************************)
EXTENDS EventManager, DataInduction

-----------------------------------------------------------------------------
(* Pairing entries with returns. *)

\* LIFO and Drop of the model's stacks.
LEMMA LastFacts ==
    ASSUME NEW S, NEW q \in Seq(S), q # <<>>
    PROVE  /\ LIFO(q) \in S /\ LIFO(q) = q[Len(q)]
           /\ Drop(q) \in Seq(S) /\ Len(Drop(q)) = Len(q) - 1
           /\ \A i \in 1 .. Len(q) - 1 : Drop(q)[i] = q[i]
<1> DEFINE n == Len(q) - 1
<1>1. Len(q) \in Nat \ {0} /\ n \in 0 .. Len(q)
  BY EmptySeqFacts
<1>2. LIFO(q) \in S /\ LIFO(q) = q[Len(q)]
  BY <1>1 DEF LIFO
<1>3. /\ SubSeq(q, 1, n) \in Seq(S) /\ Len(SubSeq(q, 1, n)) = n
      /\ \A i \in 1 .. n : SubSeq(q, 1, n)[i] = q[i]
  <2> HIDE DEF n
  <2> QED BY <1>1, SubSeqFacts
<1>4. QED
  BY <1>2, <1>3 DEF Drop

\* What Add reads of an event; entries and returns are of a function.
LEMMA EventFields ==
    ASSUME NEW e \in Event
    PROVE  /\ e.goid \in Goroutines /\ PidOf[e.goid] \in Pids
           /\ e.time \in Nat /\ e.sample_denominator \in Nat
           /\ e.location # EXIT => e.ip \in Functions /\ e \in CallEvent
BY ScopeAssumption DEF Event, EventRecord, CallEvent

\* An entry and a return make a call.
LEMMA PairType ==
    ASSUME NEW entry \in CallEvent, NEW ret \in CallEvent
    PROVE  Pair(entry, ret) \in PairedCall
<1>1. /\ entry.time \in Nat /\ entry.sample_denominator \in Nat
      /\ ret.goid \in Goroutines /\ ret.ip \in Functions /\ ret.time \in Nat
  BY EventFields DEF CallEvent
<1>2. QED
  BY <1>1 DEF Pair, PairedCall

\* The accumulators of the two loops.
AggregateAcc == [open : Seq(CallEvent), ok : BOOLEAN, pairs : Seq(PairedCall)]
AggregateStart == [open |-> <<>>, ok |-> TRUE, pairs |-> <<>>]
PrintAcc == [open : Seq(CallEvent), pairs : Seq(PairedCall)]
PrintStart == [open |-> <<>>, pairs |-> <<>>]

\* One iteration of the loop of AggregateStack, field by field.
LEMMA AggregateStepDoes ==
    ASSUME NEW a \in AggregateAcc, NEW e \in CallEvent
    PROVE  /\ ~a.ok => AggregateStep(a, e) = a
           /\ a.ok /\ e.location = ENT =>
                AggregateStep(a, e) = [open |-> Append(a.open, e), ok |-> a.ok, pairs |-> a.pairs]
           /\ a.ok /\ e.location # ENT /\ (a.open = <<>> \/ LIFO(a.open).ip # e.ip) =>
                AggregateStep(a, e) = [open |-> a.open, ok |-> FALSE, pairs |-> a.pairs]
           /\ a.ok /\ e.location # ENT /\ ~(a.open = <<>> \/ LIFO(a.open).ip # e.ip) =>
                AggregateStep(a, e) = [open |-> Drop(a.open), ok |-> a.ok,
                                       pairs |-> Append(a.pairs, Pair(LIFO(a.open), e))]
BY DEF AggregateStep, AggregateAcc

\* aggregateStack keeps the shape of its state, event by event,
LEMMA AggregateStepType ==
    ASSUME NEW a \in AggregateAcc, NEW e \in CallEvent
    PROVE  AggregateStep(a, e) \in AggregateAcc
<1>1. a.open \in Seq(CallEvent) /\ a.ok \in BOOLEAN /\ a.pairs \in Seq(PairedCall)
  BY DEF AggregateAcc
<1>2. CASE ~a.ok
  BY <1>2, AggregateStepDoes
<1>3. CASE a.ok /\ e.location = ENT
  <2>1. Append(a.open, e) \in Seq(CallEvent)
    BY <1>1, AppendFacts
  <2>2. AggregateStep(a, e) = [open |-> Append(a.open, e), ok |-> a.ok, pairs |-> a.pairs]
    BY <1>3, AggregateStepDoes
  <2>3. QED
    BY <1>1, <2>1, <2>2 DEF AggregateAcc
<1>4. CASE a.ok /\ e.location # ENT /\ (a.open = <<>> \/ LIFO(a.open).ip # e.ip)
  <2>1. AggregateStep(a, e) = [open |-> a.open, ok |-> FALSE, pairs |-> a.pairs]
    BY <1>4, AggregateStepDoes
  <2>2. QED
    BY <1>1, <2>1 DEF AggregateAcc
<1>5. CASE a.ok /\ e.location # ENT /\ ~(a.open = <<>> \/ LIFO(a.open).ip # e.ip)
  <2>1. LIFO(a.open) \in CallEvent /\ Drop(a.open) \in Seq(CallEvent)
    BY <1>1, <1>5, LastFacts
  <2>2. Append(a.pairs, Pair(LIFO(a.open), e)) \in Seq(PairedCall)
    <3>1. Pair(LIFO(a.open), e) \in PairedCall
      BY <2>1, PairType
    <3>2. QED
      BY <1>1, <3>1, AppendFacts
  <2>3. AggregateStep(a, e) = [open |-> Drop(a.open), ok |-> a.ok,
                               pairs |-> Append(a.pairs, Pair(LIFO(a.open), e))]
    BY <1>5, AggregateStepDoes
  <2>4. QED
    BY <1>1, <2>1, <2>2, <2>3 DEF AggregateAcc
<1>6. QED
  BY <1>2, <1>3, <1>4, <1>5

\* The loop of AggregateStack, event by event.
AggregateRun(f, q) ==
    /\ f \in [0 .. Len(q) -> AggregateAcc]
    /\ f[0] = AggregateStart
    /\ \A n \in 1 .. Len(q) : f[n] = AggregateStep(f[n - 1], q[n])

\* AggregateStack is the end of such a run: the recursive function it is defined by
\* exists.
LEMMA AggregateUnfolds ==
    ASSUME NEW q \in Seq(CallEvent)
    PROVE  \E f : AggregateRun(f, q) /\ AggregateStack(q) = f[Len(q)]
<1> DEFINE N == Len(q)
           taken(n, a) == IF n \in 1 .. N THEN AggregateStep(a, q[n]) ELSE a
           step == [p \in Nat \X AggregateAcc |-> taken(p[1], p[2])]
           G(f) == [n \in 0 .. N |-> IF n = 0 THEN AggregateStart ELSE AggregateStep(f[n - 1], q[n])]
           after == CHOOSE f : f = G(f)
<1>1. N \in Nat /\ \A n \in 1 .. N : q[n] \in CallEvent
  OBVIOUS
<1>2. AggregateStart \in AggregateAcc
  BY DEF AggregateStart, AggregateAcc
<1>3. \A n \in Nat, a \in AggregateAcc : taken(n, a) \in AggregateAcc
  BY <1>1, AggregateStepType
<1>4. /\ step \in [Nat \X AggregateAcc -> AggregateAcc]
      /\ \A n \in Nat, a \in AggregateAcc : step[<<n, a>>] = taken(n, a)
  <2> HIDE DEF taken
  <2> QED BY <1>3
<1>5. PICK f \in [0 .. N -> AggregateAcc] : Recurses(f, N, AggregateStart, step)
  <2> HIDE DEF step, N
  <2> QED BY <1>1, <1>2, <1>4, RecursionExists
<1>6. ASSUME NEW n \in 1 .. N PROVE f[n] = AggregateStep(f[n - 1], q[n])
  <2>1. n \in Nat /\ n - 1 \in 0 .. N
    BY <1>1
  <2>2. f[n] = taken(n, f[n - 1])
    <3> HIDE DEF step, taken
    <3> QED BY <1>4, <1>5, <2>1 DEF Recurses
  <2>3. QED
    BY <2>2
<1>7. f = G(f)
  <2> HIDE DEF N
  <2> QED BY <1>1, <1>5, <1>6 DEF Recurses
<1>8. after = G(after)
  BY <1>7
<1>9. AggregateStack(q) = after[N]
  BY DEF AggregateStack, AggregateStart
<1>10. /\ after[0] = AggregateStart
       /\ \A n \in 1 .. N : after[n] = AggregateStep(after[n - 1], q[n])
       /\ after = [n \in 0 .. N |-> after[n]]
  <2> HIDE DEF after
  <2> QED BY <1>1, <1>8
<1> HIDE DEF after, N
<1>11. \A n \in 0 .. N : after[n] \in AggregateAcc
  <2> DEFINE D == {n \in Nat : n <= N => after[n] \in AggregateAcc}
  <2>1. 0 \in D
    BY <1>2, <1>10
  <2>2. ASSUME NEW n \in Nat, n \in D PROVE n + 1 \in D
    <3> SUFFICES ASSUME n + 1 <= N PROVE after[n + 1] \in AggregateAcc
      OBVIOUS
    <3>1. n + 1 \in 1 .. N /\ (n + 1) - 1 = n /\ after[n] \in AggregateAcc
      BY <1>1, <2>2
    <3>2. q[n + 1] \in CallEvent /\ after[n + 1] = AggregateStep(after[n], q[n + 1])
      BY <1>1, <1>10, <3>1
    <3>3. QED
      BY <3>1, <3>2, AggregateStepType
  <2> HIDE DEF D
  <2>3. Nat \subseteq D
    BY <2>1, <2>2, NatSetInduction
  <2>4. QED
    BY <1>1, <2>3 DEF D
<1>12. QED
  BY <1>9, <1>10, <1>11 DEF N, AggregateRun

\* Two runs that see the same events do the same.
LEMMA AggregateRunsAgree ==
    ASSUME NEW q \in Seq(CallEvent), NEW r \in Seq(CallEvent), NEW f, NEW h, NEW N \in Nat,
           AggregateRun(f, q), AggregateRun(h, r), N <= Len(q), N <= Len(r),
           \A n \in 1 .. N : q[n] = r[n]
    PROVE  \A n \in 0 .. N : f[n] = h[n]
<1> DEFINE D == {n \in Nat : n <= N => f[n] = h[n]}
<1>0. Len(q) \in Nat /\ Len(r) \in Nat
  OBVIOUS
<1>1. 0 \in D
  BY DEF AggregateRun
<1>2. ASSUME NEW n \in Nat, n \in D PROVE n + 1 \in D
  <2> SUFFICES ASSUME n + 1 <= N PROVE f[n + 1] = h[n + 1]
    OBVIOUS
  <2>1. /\ f[n] = h[n] /\ n + 1 \in 1 .. Len(q) /\ n + 1 \in 1 .. Len(r)
        /\ n + 1 \in 1 .. N /\ (n + 1) - 1 = n
    BY <1>0, <1>2
  <2>2. f[n + 1] = AggregateStep(f[n], q[n + 1]) /\ h[n + 1] = AggregateStep(h[n], r[n + 1])
    BY <2>1 DEF AggregateRun
  <2>3. QED
    BY <2>1, <2>2
<1> HIDE DEF D
<1>3. Nat \subseteq D
  BY <1>1, <1>2, NatSetInduction
<1>4. QED
  BY <1>3 DEF D

\* Of nothing, AggregateStack makes nothing.
LEMMA AggregateNothing == AggregateStack(<<>>) = AggregateStart
<1>1. <<>> \in Seq(CallEvent) /\ Len(<<>>) = 0
  OBVIOUS
<1>2. QED
  BY <1>1, AggregateUnfolds DEF AggregateRun

\* AggregateStack goes on from what it made of the events before.
LEMMA AggregateAppends ==
    ASSUME NEW q \in Seq(CallEvent), NEW e \in CallEvent
    PROVE  /\ AggregateStack(q) \in AggregateAcc
           /\ AggregateStack(Append(q, e)) = AggregateStep(AggregateStack(q), e)
<1>1. PICK f : AggregateRun(f, q) /\ AggregateStack(q) = f[Len(q)]
  BY AggregateUnfolds
<1>2. /\ Append(q, e) \in Seq(CallEvent) /\ Len(Append(q, e)) = Len(q) + 1 /\ Len(q) \in Nat
      /\ \A i \in 1 .. Len(q) : Append(q, e)[i] = q[i]
      /\ Append(q, e)[Len(q) + 1] = e
  BY AppendFacts
<1>3. PICK h : AggregateRun(h, Append(q, e))
                 /\ AggregateStack(Append(q, e)) = h[Len(Append(q, e))]
  BY <1>2, AggregateUnfolds
<1>4. f[Len(q)] = h[Len(q)]
  <2>1. \A n \in 0 .. Len(q) : f[n] = h[n]
    <3>1. Len(q) <= Len(q) /\ Len(q) <= Len(Append(q, e))
          /\ \A n \in 1 .. Len(q) : q[n] = Append(q, e)[n]
      BY <1>2
    <3> DEFINE r == Append(q, e)
               N == Len(q)
    <3>2. /\ r \in Seq(CallEvent) /\ N \in Nat /\ N <= Len(q) /\ N <= Len(r)
          /\ \A n \in 1 .. N : q[n] = r[n]
          /\ AggregateRun(f, q) /\ AggregateRun(h, r)
      BY <1>1, <1>2, <1>3, <3>1
    <3> HIDE DEF r, N
    <3>3. \A n \in 0 .. N : f[n] = h[n]
      BY <3>2, AggregateRunsAgree
    <3>4. QED
      BY <3>3 DEF N
  <2>2. QED
    BY <1>2, <2>1
<1>5. h[Len(q) + 1] = AggregateStep(h[Len(q)], e)
  <2>1. Len(q) + 1 \in 1 .. Len(Append(q, e)) /\ (Len(q) + 1) - 1 = Len(q)
    BY <1>2
  <2>2. QED
    BY <1>2, <1>3, <2>1 DEF AggregateRun
<1>6. AggregateStack(q) \in AggregateAcc
  BY <1>1, <1>2 DEF AggregateRun
<1>7. QED
  BY <1>1, <1>2, <1>3, <1>4, <1>5, <1>6

\* and so does PrintStack.
LEMMA PrintStepType ==
    ASSUME NEW a \in PrintAcc, NEW e \in CallEvent
    PROVE  PrintStep(a, e) \in PrintAcc
<1>1. a.open \in Seq(CallEvent) /\ a.pairs \in Seq(PairedCall)
  BY DEF PrintAcc
<1>2. CASE e.location = ENT
  <2>1. Append(a.open, e) \in Seq(CallEvent)
    BY <1>1, AppendFacts
  <2>2. PrintStep(a, e) = [open |-> Append(a.open, e), pairs |-> a.pairs]
    BY <1>2 DEF PrintStep, PrintAcc
  <2>3. QED
    BY <1>1, <2>1, <2>2 DEF PrintAcc
<1>3. CASE e.location # ENT /\ a.open = <<>>
  BY <1>3 DEF PrintStep
<1>4. CASE e.location # ENT /\ a.open # <<>>
  <2>1. LIFO(a.open) \in CallEvent /\ Drop(a.open) \in Seq(CallEvent)
    BY <1>1, <1>4, LastFacts
  <2>2. Append(a.pairs, Pair(LIFO(a.open), e)) \in Seq(PairedCall)
    <3>1. Pair(LIFO(a.open), e) \in PairedCall
      BY <2>1, PairType
    <3>2. QED
      BY <1>1, <3>1, AppendFacts
  <2>3. PrintStep(a, e) = [open |-> Drop(a.open),
                           pairs |-> Append(a.pairs, Pair(LIFO(a.open), e))]
    BY <1>4 DEF PrintStep, PrintAcc
  <2>4. QED
    BY <1>1, <2>1, <2>2, <2>3 DEF PrintAcc
<1>5. QED
  BY <1>2, <1>3, <1>4

\* The loop of PrintStack, event by event.
PrintRun(f, q) ==
    /\ f \in [0 .. Len(q) -> PrintAcc]
    /\ f[0] = PrintStart
    /\ \A n \in 1 .. Len(q) : f[n] = PrintStep(f[n - 1], q[n])

\* PrintStack is the end of such a run.
LEMMA PrintUnfolds ==
    ASSUME NEW q \in Seq(CallEvent)
    PROVE  \E f : PrintRun(f, q) /\ PrintStack(q) = f[Len(q)]
<1> DEFINE N == Len(q)
           taken(n, a) == IF n \in 1 .. N THEN PrintStep(a, q[n]) ELSE a
           step == [p \in Nat \X PrintAcc |-> taken(p[1], p[2])]
           G(f) == [n \in 0 .. N |-> IF n = 0 THEN PrintStart ELSE PrintStep(f[n - 1], q[n])]
           after == CHOOSE f : f = G(f)
<1>1. N \in Nat /\ \A n \in 1 .. N : q[n] \in CallEvent
  OBVIOUS
<1>2. PrintStart \in PrintAcc
  BY DEF PrintStart, PrintAcc
<1>3. \A n \in Nat, a \in PrintAcc : taken(n, a) \in PrintAcc
  BY <1>1, PrintStepType
<1>4. /\ step \in [Nat \X PrintAcc -> PrintAcc]
      /\ \A n \in Nat, a \in PrintAcc : step[<<n, a>>] = taken(n, a)
  <2> HIDE DEF taken
  <2> QED BY <1>3
<1>5. PICK f \in [0 .. N -> PrintAcc] : Recurses(f, N, PrintStart, step)
  <2> HIDE DEF step, N
  <2> QED BY <1>1, <1>2, <1>4, RecursionExists
<1>6. ASSUME NEW n \in 1 .. N PROVE f[n] = PrintStep(f[n - 1], q[n])
  <2>1. n \in Nat /\ n - 1 \in 0 .. N
    BY <1>1
  <2>2. f[n] = taken(n, f[n - 1])
    <3> HIDE DEF step, taken
    <3> QED BY <1>4, <1>5, <2>1 DEF Recurses
  <2>3. QED
    BY <2>2
<1>7. f = G(f)
  <2> HIDE DEF N
  <2> QED BY <1>1, <1>5, <1>6 DEF Recurses
<1>8. after = G(after)
  BY <1>7
<1>9. PrintStack(q) = after[N]
  BY DEF PrintStack, PrintStart
<1>10. /\ after[0] = PrintStart
       /\ \A n \in 1 .. N : after[n] = PrintStep(after[n - 1], q[n])
       /\ after = [n \in 0 .. N |-> after[n]]
  <2> HIDE DEF after
  <2> QED BY <1>1, <1>8
<1> HIDE DEF after, N
<1>11. \A n \in 0 .. N : after[n] \in PrintAcc
  <2> DEFINE D == {n \in Nat : n <= N => after[n] \in PrintAcc}
  <2>1. 0 \in D
    BY <1>2, <1>10
  <2>2. ASSUME NEW n \in Nat, n \in D PROVE n + 1 \in D
    <3> SUFFICES ASSUME n + 1 <= N PROVE after[n + 1] \in PrintAcc
      OBVIOUS
    <3>1. n + 1 \in 1 .. N /\ (n + 1) - 1 = n /\ after[n] \in PrintAcc
      BY <1>1, <2>2
    <3>2. q[n + 1] \in CallEvent /\ after[n + 1] = PrintStep(after[n], q[n + 1])
      BY <1>1, <1>10, <3>1
    <3>3. QED
      BY <3>1, <3>2, PrintStepType
  <2> HIDE DEF D
  <2>3. Nat \subseteq D
    BY <2>1, <2>2, NatSetInduction
  <2>4. QED
    BY <1>1, <2>3 DEF D
<1>12. QED
  BY <1>9, <1>10, <1>11 DEF N, PrintRun

\* PrintStack only ever writes calls.
LEMMA PrintStackType ==
    ASSUME NEW q \in Seq(CallEvent)
    PROVE  PrintStack(q) \in PrintAcc
<1>1. PICK f : PrintRun(f, q) /\ PrintStack(q) = f[Len(q)]
  BY PrintUnfolds
<1>2. Len(q) \in 0 .. Len(q)
  OBVIOUS
<1>3. QED
  BY <1>1, <1>2 DEF PrintRun

-----------------------------------------------------------------------------
(* Sequences and counts. *)

\* Concatenating two sequences over S gives one over S.
LEMMA ConcatType ==
    ASSUME NEW S, NEW p \in Seq(S), NEW q \in Seq(S)
    PROVE  p \o q \in Seq(S)
OBVIOUS

\* FlattenSeq, sequence by sequence: a recursive function that exists.
FlattenRun(S, N, f, seqs) ==
    /\ \A n \in 0 .. N : f[n] \in Seq(S)
    /\ f[0] = <<>>
    /\ \A n \in 1 .. N : f[n] = f[n - 1] \o seqs[n]

\* FlattenSeq is the end of such a run.
LEMMA FlattenUnfolds ==
    ASSUME NEW S, NEW N \in Nat, NEW seqs \in [1 .. N -> Seq(S)]
    PROVE  \E f : FlattenRun(S, N, f, seqs) /\ FlattenSeq(seqs) = f[N]
<1>1. seqs \in Seq(Seq(S)) /\ Len(seqs) = N /\ \A n \in 1 .. N : seqs[n] \in Seq(S)
  OBVIOUS
<1>2. CASE N = 0
  <2>1. seqs = <<>> /\ <<>> \in Seq(S)
    BY <1>1, <1>2
  <2>2. FlattenSeq(seqs) = <<>>
    BY <2>1 DEF FlattenSeq
  <2> DEFINE h == [n \in 0 .. N |-> <<>>]
  <2>3. FlattenRun(S, N, h, seqs) /\ h[N] = <<>>
    BY <1>2, <2>1 DEF FlattenRun
  <2>4. QED
    BY <2>2, <2>3
<1>3. CASE N # 0
  <2> DEFINE taken(n, a) == IF n \in 1 .. N THEN a \o seqs[n] ELSE a
             step == [p \in Nat \X Seq(S) |-> taken(p[1], p[2])]
             G(f) == [i \in 1 .. N |-> IF i = 1 THEN seqs[i] ELSE f[i - 1] \o seqs[i]]
             flatten == CHOOSE f : f = G(f)
  <2>1. \A n \in Nat, a \in Seq(S) : taken(n, a) \in Seq(S)
    BY <1>1, ConcatType
  <2>2. /\ step \in [Nat \X Seq(S) -> Seq(S)]
        /\ \A n \in Nat, a \in Seq(S) : step[<<n, a>>] = taken(n, a)
    <3> HIDE DEF taken
    <3> QED BY <2>1
  <2>3. <<>> \in Seq(S)
    OBVIOUS
  <2>4. PICK f \in [0 .. N -> Seq(S)] : Recurses(f, N, <<>>, step)
    <3> HIDE DEF step
    <3> QED BY <2>2, <2>3, RecursionExists
  <2>5. ASSUME NEW n \in 1 .. N PROVE f[n] = f[n - 1] \o seqs[n] /\ f[n - 1] \in Seq(S)
    <3>1. n \in Nat /\ n - 1 \in 0 .. N
      OBVIOUS
    <3>2. f[n] = taken(n, f[n - 1])
      <4> HIDE DEF step, taken
      <4> QED BY <2>2, <2>4, <3>1 DEF Recurses
    <3>3. QED
      BY <3>1, <3>2
  <2> DEFINE h == [i \in 1 .. N |-> f[i]]
  <2>6. h = G(h)
    <3>1. f[0] = <<>> /\ \A q \in Seq(S) : <<>> \o q = q
      BY <2>4 DEF Recurses
    <3>2. ASSUME NEW i \in 1 .. N
          PROVE  f[i] = IF i = 1 THEN seqs[i] ELSE h[i - 1] \o seqs[i]
      <4>1. CASE i = 1
        <5>1. f[i] = f[i - 1] \o seqs[i] /\ i - 1 = 0
          BY <2>5, <4>1
        <5>2. f[i] = <<>> \o seqs[i] /\ seqs[i] \in Seq(S)
          BY <1>1, <3>1, <5>1
        <5>3. f[i] = seqs[i]
          BY <3>1, <5>2
        <5>4. QED
          BY <4>1, <5>3
      <4>2. CASE i # 1
        <5>1. i - 1 \in 1 .. N
          BY <4>2
        <5>2. h[i - 1] = f[i - 1]
          BY <5>1
        <5>3. f[i] = f[i - 1] \o seqs[i]
          BY <2>5
        <5> HIDE DEF h
        <5>4. QED
          BY <4>2, <5>2, <5>3
      <4>3. QED
        BY <4>1, <4>2
    <3> HIDE DEF h
    <3>3. G(h) = [i \in 1 .. N |-> f[i]]
      BY <3>2
    <3>4. QED
      BY <3>3 DEF h
  <2>7. flatten = G(flatten)
    <3> HIDE DEF h, G
    <3> QED BY <2>6
  <2>8. FlattenSeq(seqs) = flatten[N]
    BY <1>1, <1>3 DEF FlattenSeq
  <2>9. \A i \in 1 .. N : flatten[i] = IF i = 1 THEN seqs[i] ELSE flatten[i - 1] \o seqs[i]
    <3> HIDE DEF flatten
    <3> QED BY <2>7
  <2> HIDE DEF flatten
  <2> DEFINE D == {n \in Nat : n + 1 <= N => flatten[n + 1] = f[n + 1]}
  <2>10. 0 \in D
    <3>1. f[1] = f[0] \o seqs[1] /\ f[0] = <<>> /\ seqs[1] \in Seq(S) /\ flatten[1] = seqs[1]
      <4>1. 1 \in 1 .. N /\ 1 - 1 = 0
        BY <1>3
      <4>2. QED
        BY <1>1, <2>4, <2>5, <2>9, <4>1 DEF Recurses
    <3>2. \A q \in Seq(S) : <<>> \o q = q
      OBVIOUS
    <3>3. flatten[1] = f[1]
      BY <3>1, <3>2
    <3>4. QED
      BY <3>3
  <2>11. ASSUME NEW n \in Nat, n \in D PROVE n + 1 \in D
    <3> SUFFICES ASSUME (n + 1) + 1 <= N PROVE flatten[(n + 1) + 1] = f[(n + 1) + 1]
      OBVIOUS
    <3>1. flatten[n + 1] = f[n + 1] /\ n + 2 \in 1 .. N /\ n + 2 # 1 /\ (n + 2) - 1 = n + 1
          /\ (n + 1) + 1 = n + 2
      BY <2>11
    <3>2. flatten[n + 2] = flatten[n + 1] \o seqs[n + 2]
      BY <2>9, <3>1
    <3>3. f[n + 2] = f[n + 1] \o seqs[n + 2]
      BY <2>5, <3>1
    <3>4. QED
      BY <3>1, <3>2, <3>3
  <2> HIDE DEF D
  <2>12. Nat \subseteq D
    BY <2>10, <2>11, NatSetInduction
  <2>13. N - 1 \in Nat /\ (N - 1) + 1 = N
    BY <1>3
  <2>14. N - 1 \in D
    BY <2>12, <2>13
  <2>15. flatten[(N - 1) + 1] = f[(N - 1) + 1]
    BY <2>13, <2>14 DEF D
  <2>16. FlattenRun(S, N, f, seqs)
    BY <2>4, <2>5 DEF FlattenRun, Recurses
  <2>17. QED
    BY <2>8, <2>13, <2>15, <2>16
<1>4. QED
  BY <1>2, <1>3

\* Concatenating sequences over S gives one over S.
LEMMA FlattenType ==
    ASSUME NEW S, NEW N \in Nat, NEW seqs \in [1 .. N -> Seq(S)]
    PROVE  FlattenSeq(seqs) \in Seq(S)
<1>1. PICK f : FlattenRun(S, N, f, seqs) /\ FlattenSeq(seqs) = f[N]
  BY FlattenUnfolds
<1>2. QED
  BY <1>1 DEF FlattenRun

\* SetToSeq lists a finite set, each element once.
LEMMA SetToSeqType ==
    ASSUME NEW S, IsFiniteSet(S)
    PROVE  /\ SetToSeq(S) \in [1 .. Cardinality(S) -> S] /\ Cardinality(S) \in Nat
           /\ \A i, j \in 1 .. Cardinality(S) : SetToSeq(S)[i] = SetToSeq(S)[j] => i = j
<1>1. Cardinality(S) \in Nat /\ ExistsBijection(1 .. Cardinality(S), S)
  BY FS_CardinalityType
<1>2. \E f \in [1 .. Cardinality(S) -> S] : IsInjective(f)
  BY <1>1 DEF ExistsBijection, Bijection, Injection, IsInjective
<1> DEFINE f == SetToSeq(S)
<1>3. f \in [1 .. Cardinality(S) -> S] /\ IsInjective(f)
  BY <1>2 DEF SetToSeq
<1> HIDE DEF f
<1>4. \A i, j \in 1 .. Cardinality(S) : f[i] = f[j] => i = j
  BY <1>3 DEF IsInjective
<1>5. QED
  BY <1>1, <1>3, <1>4 DEF f

\* Releasing never goes below zero, nor does it add.
LEMMA ReleaseType ==
    ASSUME NEW p \in Nat, NEW n \in Nat
    PROVE  Release(p, n) \in Nat /\ Release(p, n) <= p
BY DEF Release

\* Counting a discard leaves a count.
LEMMA DiscardType ==
    ASSUME NEW d \in [Reasons -> Nat], NEW r \in Reasons
    PROVE  Discard(d, r) \in [Reasons -> Nat]
BY DEF Discard

\* Retained, for any goEvents.
Held(ev, gs) == UNION {{h} \X (1 .. Len(ev[h])) : h \in gs}

\* Finitely many events are retained.
LEMMA HeldFinite ==
    ASSUME NEW ev \in [Goroutines -> Seq(CallEvent)], NEW gs, gs \subseteq Goroutines
    PROVE  IsFiniteSet(Held(ev, gs)) /\ Cardinality(Held(ev, gs)) \in Nat
<1> DEFINE T == {{h} \X (1 .. Len(ev[h])) : h \in gs}
           f == [h \in gs |-> {h} \X (1 .. Len(ev[h]))]
<1>1. IsFiniteSet(gs)
  BY ScopeAssumption, FS_Subset
<1>2. f \in Surjection(gs, T)
  BY DEF Surjection
<1>3. IsFiniteSet(T)
  BY <1>1, <1>2, FS_Surjection
<1>4. ASSUME NEW t \in T PROVE IsFiniteSet(t)
  <2>1. PICK h \in gs : t = {h} \X (1 .. Len(ev[h]))
    OBVIOUS
  <2>2. Len(ev[h]) \in Int
    OBVIOUS
  <2>3. IsFiniteSet({h})
    BY FS_Singleton
  <2>4. IsFiniteSet(1 .. Len(ev[h]))
    BY <2>2, FS_Interval
  <2>5. QED
    BY <2>1, <2>3, <2>4, FS_Product
<1> HIDE DEF T
<1>5. IsFiniteSet(UNION T)
  BY <1>3, <1>4, FS_UNION
<1>6. QED
  BY <1>5, FS_CardinalityType DEF Held, T

\* What one goroutine holds is the length of its stack.
LEMMA HeldOne ==
    ASSUME NEW ev \in [Goroutines -> Seq(CallEvent)], NEW g \in Goroutines
    PROVE  Cardinality(Held(ev, {g})) = Len(ev[g]) /\ Len(ev[g]) \in Nat
<1>1. Held(ev, {g}) = {g} \X (1 .. Len(ev[g]))
  BY DEF Held
<1>2. Len(ev[g]) \in Nat /\ 1 \in Int /\ Len(ev[g]) \in Int
  OBVIOUS
<1>3. IsFiniteSet(1 .. Len(ev[g])) /\ Cardinality(1 .. Len(ev[g])) = Len(ev[g])
  <2>1. IsFiniteSet(1 .. Len(ev[g])) /\ Cardinality(1 .. Len(ev[g]))
           = IF 1 > Len(ev[g]) THEN 0 ELSE Len(ev[g]) - 1 + 1
    BY <1>2, FS_Interval
  <2>2. QED
    BY <1>2, <2>1
<1>4. IsFiniteSet({g}) /\ Cardinality({g}) = 1
  BY FS_Singleton
<1>5. Cardinality({g} \X (1 .. Len(ev[g]))) = Cardinality({g}) * Cardinality(1 .. Len(ev[g]))
  BY <1>3, <1>4, FS_Product
<1>6. Cardinality(Held(ev, {g})) = 1 * Len(ev[g])
  BY <1>1, <1>3, <1>4, <1>5, Zenon
<1>7. QED
  BY <1>2, <1>6

\* Goroutines of two disjoint groups hold what both hold.
LEMMA HeldSplit ==
    ASSUME NEW ev \in [Goroutines -> Seq(CallEvent)],
           NEW A, NEW B, A \subseteq Goroutines, B \subseteq Goroutines, A \cap B = {}
    PROVE  Cardinality(Held(ev, A \cup B)) = Cardinality(Held(ev, A)) + Cardinality(Held(ev, B))
<1>1. Held(ev, A \cup B) = Held(ev, A) \cup Held(ev, B)
  BY DEF Held
<1>2. Held(ev, A) \cap Held(ev, B) = {}
  BY DEF Held
<1>3. /\ IsFiniteSet(Held(ev, A)) /\ IsFiniteSet(Held(ev, B))
      /\ Cardinality(Held(ev, A)) \in Nat /\ Cardinality(Held(ev, B)) \in Nat
  BY HeldFinite
<1>4. Cardinality(Held(ev, A) \cup Held(ev, B))
        = Cardinality(Held(ev, A)) + Cardinality(Held(ev, B))
            - Cardinality(Held(ev, A) \cap Held(ev, B))
  BY <1>3, FS_Union
<1>5. Cardinality(Held(ev, A) \cap Held(ev, B)) = 0
  BY <1>2, FS_EmptySet
<1>6. Cardinality(Held(ev, A \cup B))
        = Cardinality(Held(ev, A)) + Cardinality(Held(ev, B)) - 0
  BY <1>1, <1>4, <1>5, Zenon
<1>7. QED
  BY <1>3, <1>6

\* The same stacks hold the same.
LEMMA HeldSame ==
    ASSUME NEW ev, NEW ev2, NEW gs, \A h \in gs : ev2[h] = ev[h]
    PROVE  Held(ev2, gs) = Held(ev, gs)
BY DEF Held

\* Empty stacks hold nothing.
LEMMA HeldNothing ==
    ASSUME NEW ev, NEW gs, \A h \in gs : ev[h] = <<>>
    PROVE  Held(ev, gs) = {} /\ Cardinality(Held(ev, gs)) = 0
<1>1. \A h \in gs : 1 .. Len(ev[h]) = {}
  OBVIOUS
<1>2. Held(ev, gs) = {}
  BY <1>1 DEF Held
<1>3. QED
  BY <1>2, FS_EmptySet

\* What is held by one goroutine, by the evicted ones and by the rest.
LEMMA HeldParts ==
    ASSUME NEW ev \in [Goroutines -> Seq(CallEvent)],
           NEW g \in Goroutines, NEW gone, gone \subseteq Goroutines \ {g}
    PROVE  LET rest == Cardinality(Held(ev, Goroutines \ (gone \cup {g})))
           IN  /\ Cardinality(Held(ev, Goroutines))
                     = rest + Cardinality(Held(ev, gone)) + Len(ev[g])
               /\ rest \in Nat /\ Cardinality(Held(ev, gone)) \in Nat /\ Len(ev[g]) \in Nat
<1> DEFINE others == Goroutines \ (gone \cup {g})
<1>1. others \cup gone \subseteq Goroutines /\ {g} \subseteq Goroutines
      /\ others \cap gone = {} /\ (others \cup gone) \cap {g} = {}
      /\ (others \cup gone) \cup {g} = Goroutines
      /\ others \subseteq Goroutines /\ gone \subseteq Goroutines
  OBVIOUS
<1> HIDE DEF others
<1>2. Cardinality(Held(ev, (others \cup gone) \cup {g}))
        = Cardinality(Held(ev, others \cup gone)) + Cardinality(Held(ev, {g}))
  BY <1>1, HeldSplit
<1>3. Cardinality(Held(ev, others \cup gone))
        = Cardinality(Held(ev, others)) + Cardinality(Held(ev, gone))
  BY <1>1, HeldSplit
<1>4. /\ Cardinality(Held(ev, {g})) = Len(ev[g]) /\ Len(ev[g]) \in Nat
      /\ Cardinality(Held(ev, others)) \in Nat /\ Cardinality(Held(ev, gone)) \in Nat
  BY <1>1, HeldOne, HeldFinite
<1>5. QED
  BY <1>1, <1>2, <1>3, <1>4 DEF others

\* A concatenation, position by position.
LEMMA ConcatFacts ==
    ASSUME NEW S, NEW p \in Seq(S), NEW q \in Seq(S)
    PROVE  /\ p \o q \in Seq(S) /\ Len(p \o q) = Len(p) + Len(q)
           /\ Len(p) \in Nat /\ Len(q) \in Nat
           /\ \A k \in 1 .. Len(p) : (p \o q)[k] = p[k]
           /\ \A k \in 1 .. Len(q) : (p \o q)[Len(p) + k] = q[k]
OBVIOUS

\* RemoveAt loses one element and nothing else.
LEMMA RemoveFacts ==
    ASSUME NEW S, NEW q \in Seq(S), NEW i \in 1 .. Len(q)
    PROVE  /\ RemoveAt(q, i) \in Seq(S) /\ Len(RemoveAt(q, i)) = Len(q) - 1
           /\ ToSet(q) \ {q[i]} \subseteq ToSet(RemoveAt(q, i))
<1> DEFINE p == SubSeq(q, 1, i - 1)
           r == SubSeq(q, i + 1, Len(q))
           t == p \o r
<1>1. p \in Seq(S) /\ Len(p) = i - 1 /\ \A k \in 1 .. i - 1 : p[k] = q[k]
  OBVIOUS
<1>2. r \in Seq(S) /\ Len(r) = Len(q) - i /\ \A k \in 1 .. Len(q) - i : r[k] = q[i + k]
  OBVIOUS
<1> HIDE DEF p, r
<1>3. /\ t \in Seq(S) /\ Len(t) = Len(q) - 1
      /\ \A k \in 1 .. i - 1 : t[k] = q[k]
      /\ \A k \in 1 .. Len(q) - i : t[(i - 1) + k] = q[i + k]
  <2>1. /\ t \in Seq(S) /\ Len(t) = Len(p) + Len(r)
        /\ \A k \in 1 .. Len(p) : t[k] = p[k]
        /\ \A k \in 1 .. Len(r) : t[Len(p) + k] = r[k]
    <3>1. p \in Seq(S) /\ r \in Seq(S)
      BY <1>1, <1>2
    <3>2. QED
      BY <3>1, ConcatFacts
  <2>2. Len(q) \in Nat
    OBVIOUS
  <2> HIDE DEF t
  <2>3. QED
    BY <1>1, <1>2, <2>1, <2>2
<1> HIDE DEF t
<1>4. ASSUME NEW k \in 1 .. Len(q), k # i PROVE \E m \in 1 .. Len(t) : t[m] = q[k]
  <2>1. CASE k < i
    <3>1. k \in 1 .. i - 1 /\ k \in 1 .. Len(t)
      BY <1>3, <2>1
    <3>2. QED
      BY <1>3, <3>1
  <2>2. CASE k > i
    <3>1. k - i \in 1 .. Len(q) - i /\ (i - 1) + (k - i) = k - 1 /\ i + (k - i) = k
          /\ k - 1 \in 1 .. Len(t)
      BY <1>3, <2>2
    <3>2. t[(i - 1) + (k - i)] = q[i + (k - i)]
      BY <1>3, <3>1
    <3>3. QED
      BY <3>1, <3>2
  <2>3. QED
    BY <1>4, <2>1, <2>2
<1>5. RemoveAt(q, i) = t
  BY DEF RemoveAt, t, p, r
<1>6. ToSet(q) \ {q[i]} \subseteq ToSet(t)
  <2> SUFFICES ASSUME NEW k \in 1 .. Len(q), q[k] # q[i] PROVE q[k] \in ToSet(t)
    BY DEF ToSet
  <2>1. PICK m \in 1 .. Len(t) : t[m] = q[k]
    BY <1>4
  <2>2. DOMAIN t = 1 .. Len(t)
    BY <1>3
  <2>3. QED
    BY <2>1, <2>2 DEF ToSet
<1>7. QED
  BY <1>3, <1>5, <1>6

\* Append adds one member.
LEMMA AppendSet ==
    ASSUME NEW S, NEW q \in Seq(S), NEW x \in S
    PROVE  ToSet(Append(q, x)) = ToSet(q) \cup {x}
<1>1. /\ Len(q) \in Nat /\ Len(Append(q, x)) = Len(q) + 1
      /\ DOMAIN Append(q, x) = 1 .. Len(q) + 1 /\ DOMAIN q = 1 .. Len(q)
      /\ \A i \in 1 .. Len(q) : Append(q, x)[i] = q[i]
      /\ Append(q, x)[Len(q) + 1] = x
  OBVIOUS
<1>2. 1 .. Len(q) + 1 = (1 .. Len(q)) \cup {Len(q) + 1}
  BY <1>1
<1>3. QED
  BY <1>1, <1>2 DEF ToSet

\* Tail, position by position.
LEMMA TailFacts ==
    ASSUME NEW S, NEW q \in Seq(S), q # <<>>
    PROVE  /\ Tail(q) \in Seq(S) /\ Len(Tail(q)) = Len(q) - 1 /\ Len(q) \in Nat \ {0}
           /\ Head(q) \in ToSet(q) /\ ToSet(q) \subseteq S
           /\ ToSet(q) \ {Head(q)} \subseteq ToSet(Tail(q))
           /\ \A i \in 1 .. Len(q) - 1 : Tail(q)[i] = q[i + 1]
<1>1. /\ Tail(q) \in Seq(S) /\ Len(Tail(q)) = Len(q) - 1 /\ Len(q) \in Nat \ {0}
      /\ Head(q) = q[1] /\ \A i \in 1 .. Len(q) - 1 : Tail(q)[i] = q[i + 1]
      /\ DOMAIN q = 1 .. Len(q)
  OBVIOUS
<1>2. DOMAIN Tail(q) = 1 .. Len(q) - 1
  BY <1>1
<1>3. ASSUME NEW k \in 1 .. Len(q), q[k] # q[1] PROVE q[k] \in ToSet(Tail(q))
  <2>1. k - 1 \in 1 .. Len(q) - 1 /\ (k - 1) + 1 = k
    BY <1>1, <1>3
  <2>2. Tail(q)[k - 1] = q[(k - 1) + 1]
    BY <1>1, <2>1
  <2>3. QED
    BY <1>2, <2>1, <2>2 DEF ToSet
<1>4. Head(q) \in ToSet(q) /\ ToSet(q) \subseteq S
  BY <1>1 DEF ToSet
<1>5. QED
  BY <1>1, <1>3, <1>4 DEF ToSet

-----------------------------------------------------------------------------
(* Types. *)

\* pidState: a process that is looked up is known afterwards, at most one other is
\* not any more, and the limit is kept.
LEMMA TouchDoes ==
    ASSUME pids \in Seq(Pids), evictedPIDs \in Nat, NEW pid \in Pids, TouchPid(pid)
    PROVE  /\ pids' \in Seq(Pids) /\ evictedPIDs' \in Nat
           /\ pid \in Known' /\ Known \ Evicted(pid) \subseteq Known'
           /\ Evicted(pid) \subseteq Pids \ {pid}
           /\ Adaptive /\ Len(pids) <= MaxPids => Len(pids') <= MaxPids
<1> DEFINE o == Others(pid)
<1>1. /\ o \in Seq(Pids) /\ Known \ (Evicted(pid) \cup {pid}) \subseteq ToSet(o)
      /\ Adaptive /\ Len(pids) <= MaxPids => Len(o) < MaxPids
      /\ Evicted(pid) \subseteq Pids \ {pid}
      /\ IsFiniteSet(Evicted(pid))
  <2>0. Len(pids) \in Nat /\ MaxPids \in Nat \ {0}
    BY ManagerAssumption
  <2>1. CASE pid \in Known
    <3> DEFINE i == CHOOSE i \in DOMAIN pids : pids[i] = pid
    <3>1. \E k \in DOMAIN pids : pids[k] = pid
      BY <2>1 DEF Known, ToSet
    <3>2. i \in 1 .. Len(pids) /\ pids[i] = pid
      BY <3>1
    <3>3. o = RemoveAt(pids, i) /\ Evicted(pid) = {}
      BY <2>1 DEF Others, Evicted
    <3> HIDE DEF i, o
    <3>4. o \in Seq(Pids) /\ Len(o) = Len(pids) - 1 /\ Known \ {pid} \subseteq ToSet(o)
      BY <3>2, <3>3, RemoveFacts DEF Known
    <3>5. QED
      BY <2>0, <3>3, <3>4, FS_EmptySet
  <2>2. CASE pid \notin Known /\ Adaptive /\ Len(pids) >= MaxPids
    <3>1. Evicted(pid) = {Head(pids)} /\ o = Tail(pids) /\ pids # <<>>
      BY <2>0, <2>2 DEF Others, Evicted
    <3> HIDE DEF o
    <3>2. /\ Tail(pids) \in Seq(Pids) /\ Len(Tail(pids)) = Len(pids) - 1
          /\ Head(pids) \in Known /\ Known \subseteq Pids
          /\ Known \ {Head(pids)} \subseteq ToSet(Tail(pids))
      BY <3>1, TailFacts DEF Known
    <3>3. IsFiniteSet(Evicted(pid))
      BY <3>1, FS_Singleton
    <3>4. QED
      BY <2>0, <2>2, <3>1, <3>2, <3>3
  <2>3. CASE pid \notin Known /\ ~(Adaptive /\ Len(pids) >= MaxPids)
    <3>1. Evicted(pid) = {} /\ o = pids
      BY <2>3 DEF Others, Evicted
    <3> HIDE DEF o
    <3>2. QED
      BY <2>0, <2>3, <3>1, FS_EmptySet DEF Known
  <2>4. QED
    BY <2>1, <2>2, <2>3
<1>2. pids' = Append(o, pid) /\ evictedPIDs' = evictedPIDs + Cardinality(Evicted(pid))
  BY DEF TouchPid
<1> HIDE DEF o
<1>3. pids' \in Seq(Pids) /\ Len(pids') = Len(o) + 1 /\ Known' = ToSet(o) \cup {pid}
  BY <1>1, <1>2, AppendFacts, AppendSet DEF Known
<1>4. Cardinality(Evicted(pid)) \in Nat
  BY <1>1, FS_CardinalityType
<1>5. Len(o) \in Nat /\ MaxPids \in Nat
  BY <1>1, ManagerAssumption
<1>6. QED
  BY <1>1, <1>2, <1>3, <1>4, <1>5

\* Retained counts what Held does, and the count is a number.
LEMMA RetainedType ==
    ASSUME ManagerTypeOK, NEW gs, gs \subseteq Goroutines
    PROVE  Retained(gs) = Held(goEvents, gs) /\ Cardinality(Retained(gs)) \in Nat
<1>1. Retained(gs) = Held(goEvents, gs)
  BY DEF Retained, Held
<1>2. QED
  BY <1>1, HeldFinite DEF ManagerTypeOK

\* The values of Add are of the types of the variables they are stored in.
LEMMA NowType ==
    ASSUME ManagerTypeOK, NEW e \in CallEvent
    PROVE  /\ EventsNow(e) \in Seq(CallEvent) /\ StackNow(e) \in Seq(Functions)
           /\ InvalidNow(e) \subseteq Goroutines /\ SuppressedNow(e) \subseteq suppressed
           /\ PendingNow(e) \in Nat /\ DiscardedNow(e) \in [Reasons -> Nat]
           /\ e \in Event /\ e.goid \in Goroutines /\ PidOf[e.goid] \in Pids /\ e.ip \in Functions
<1>1. e \in Event /\ e.goid \in Goroutines /\ PidOf[e.goid] \in Pids /\ e.ip \in Functions
  BY EventFields DEF CallEvent
<1>2. goEvents[e.goid] \in Seq(CallEvent) /\ goEventStack[e.goid] \in Seq(Functions)
  BY <1>1 DEF ManagerTypeOK
<1>3. EventsNow(e) \in Seq(CallEvent)
  BY <1>2 DEF EventsNow
<1>4. StackNow(e) \in Seq(Functions)
  BY <1>2 DEF StackNow
<1>5. PendingNow(e) \in Nat
  <2>1. Len(goEvents[e.goid]) \in Nat /\ pendingEvents \in Nat
    BY <1>2 DEF ManagerTypeOK
  <2>2. QED
    BY <2>1, ReleaseType DEF PendingNow
<1>6. DiscardedNow(e) \in [Reasons -> Nat]
  BY DiscardType DEF DiscardedNow, ManagerTypeOK, Reasons
<1>7. QED
  BY <1>1, <1>3, <1>4, <1>5, <1>6 DEF InvalidNow, SuppressedNow, ManagerTypeOK

\* The observed stack holds functions.
LEMMA ObservedType ==
    ASSUME ManagerTypeOK, NEW e \in CallEvent
    PROVE  ObservedStack(e) \in Seq(Functions) /\ InvalidAfter(e) \subseteq {e.goid}
<1> SUFFICES ObservedStack(e) \in Seq(Functions)
  BY DEF InvalidAfter
<1>1. StackNow(e) \in Seq(Functions) /\ e.ip \in Functions
  BY NowType
<1>2. CASE e.location = ENT
  <2>1. ObservedStack(e) = Append(StackNow(e), e.ip)
    BY <1>2 DEF ObservedStack
  <2>2. QED
    BY <1>1, <2>1, AppendFacts
<1>3. CASE e.location # ENT /\ ~Mismatch(e) /\ StackNow(e) # <<>>
  <2>1. ObservedStack(e) = Drop(StackNow(e))
    BY <1>3 DEF ObservedStack
  <2>2. QED
    BY <1>1, <1>3, <2>1, LastFacts
<1>4. CASE e.location # ENT /\ ~(~Mismatch(e) /\ StackNow(e) # <<>>)
  <2>1. ObservedStack(e) = StackNow(e)
    BY <1>4 DEF ObservedStack
  <2>2. QED
    BY <1>1, <2>1
<1>5. QED
  BY <1>2, <1>3, <1>4

\* What Store counts is a number.
LEMMA PendingType ==
    ASSUME ManagerTypeOK, NEW e \in CallEvent
    PROVE  PendingAfterEviction(PidOf[e.goid], PendingNow(e)) \in Nat
<1>1. EvictedGoroutines(PidOf[e.goid]) \subseteq Goroutines
  BY DEF EvictedGoroutines
<1>2. Cardinality(Retained(EvictedGoroutines(PidOf[e.goid]))) \in Nat /\ PendingNow(e) \in Nat
  BY <1>1, RetainedType, NowType
<1>3. QED
  BY <1>2, ReleaseType DEF PendingAfterEviction

\* Store keeps the shape of what it writes.
LEMMA StoreType ==
    ASSUME ManagerTypeOK, NEW e \in CallEvent, NEW events \in Seq(CallEvent),
           NEW stack \in Seq(Functions), NEW bad, bad \subseteq Goroutines, NEW pending \in Nat,
           Store(e, events, stack, bad, pending)
    PROVE  /\ pids' \in Seq(Pids) /\ evictedPIDs' \in Nat
           /\ goEvents' \in [Goroutines -> Seq(CallEvent)]
           /\ goEventStack' \in [Goroutines -> Seq(Functions)]
           /\ invalid' \subseteq Goroutines /\ suppressed' \subseteq Goroutines
           /\ pendingEvents' \in Nat
<1>1. /\ TouchPid(PidOf[e.goid]) /\ PidOf[e.goid] \in Pids
      /\ pids \in Seq(Pids) /\ evictedPIDs \in Nat
  BY NowType DEF Store, ManagerTypeOK
<1>2. pids' \in Seq(Pids) /\ evictedPIDs' \in Nat
  BY <1>1, TouchDoes
<1>3. <<>> \in Seq(CallEvent) /\ <<>> \in Seq(Functions)
  OBVIOUS
<1>4. goEvents' \in [Goroutines -> Seq(CallEvent)]
  BY <1>3 DEF Store, ManagerTypeOK
<1>5. goEventStack' \in [Goroutines -> Seq(Functions)]
  BY <1>3 DEF Store, ManagerTypeOK
<1>6. QED
  BY <1>2, <1>4, <1>5, NowType DEF Store, ManagerTypeOK

\* DropStack keeps the shape of what it writes.
LEMMA DropStackType ==
    ASSUME ManagerTypeOK, NEW g \in Goroutines, DropStack(g)
    PROVE  /\ goEvents' \in [Goroutines -> Seq(CallEvent)]
           /\ goEventStack' \in [Goroutines -> Seq(Functions)]
           /\ invalid' \subseteq Goroutines /\ pendingEvents' \in Nat
<1>1. <<>> \in Seq(CallEvent) /\ <<>> \in Seq(Functions)
  OBVIOUS
<1>2. Len(goEvents[g]) \in Nat /\ pendingEvents \in Nat
  <2>1. goEvents[g] \in Seq(CallEvent)
    BY DEF ManagerTypeOK
  <2>2. QED
    BY <2>1 DEF ManagerTypeOK
<1>3. pendingEvents' \in Nat
  BY <1>2, ReleaseType DEF DropStack
<1>4. QED
  BY <1>1, <1>3 DEF DropStack, ManagerTypeOK

\* What remains aggregated after an eviction has the shape of agg.
LEMMA AggKeptType ==
    ASSUME ManagerTypeOK, NEW pid
    PROVE  AggKept(pid) \in [Pids -> Seq(PairedCall)]
<1>1. <<>> \in Seq(PairedCall)
  OBVIOUS
<1>2. QED
  BY <1>1 DEF AggKept, ManagerTypeOK

\* clearStack keeps the shape of what it writes.
LEMMA ClearedType ==
    ASSUME ManagerTypeOK, NEW e \in CallEvent, Cleared(e)
    PROVE  /\ pids' \in Seq(Pids) /\ evictedPIDs' \in Nat
           /\ goEvents' \in [Goroutines -> Seq(CallEvent)]
           /\ goEventStack' \in [Goroutines -> Seq(Functions)]
           /\ invalid' \subseteq Goroutines /\ suppressed' \subseteq Goroutines
           /\ pendingEvents' \in Nat
<1> DEFINE pending == IF Adaptive
            THEN Release(PendingAfterEviction(PidOf[e.goid], PendingNow(e)) + 1,
                         Len(EventsNow(e)) + 1)
            ELSE pendingEvents
<1>1. PendingAfterEviction(PidOf[e.goid], PendingNow(e)) + 1 \in Nat
  BY PendingType
<1>2. Len(EventsNow(e)) + 1 \in Nat
  <2>1. EventsNow(e) \in Seq(CallEvent)
    BY NowType
  <2>2. QED
    BY <2>1
<1>3. pending \in Nat
  BY <1>1, <1>2, ReleaseType DEF ManagerTypeOK
<1>4. Store(e, <<>>, <<>>, {}, pending)
  BY DEF Cleared
<1>5. <<>> \in Seq(CallEvent) /\ <<>> \in Seq(Functions)
  OBVIOUS
<1> HIDE DEF pending
<1>6. QED
  BY <1>3, <1>4, <1>5, StoreType

\* Handle keeps the shapes.
LEMMA HandleType ==
    ASSUME ManagerTypeOK, NEW e \in Event, Handle(e)
    PROVE  ManagerTypeOK'
<1> DEFINE g == e.goid
           pid == PidOf[g]
           pending == PendingAfterEviction(pid, PendingNow(e))
<1>0. /\ g \in Goroutines /\ pid \in Pids
      /\ e.location # EXIT => e \in CallEvent
  BY EventFields
<1>1. CASE HandleExit(e)
  BY <1>0, <1>1, DropStackType DEF HandleExit, ManagerTypeOK
<1>2. CASE HandleAbort(e)
  <2>1. discarded' \in [Reasons -> Nat]
    BY <1>2, DiscardType DEF HandleAbort, ManagerTypeOK, Reasons
  <2>2. QED
    BY <1>0, <1>2, <2>1, DropStackType DEF HandleAbort, ManagerTypeOK
<1>3. CASE Suppressed(e)
  BY <1>3 DEF Suppressed, stackVars, ManagerTypeOK
<1>4. ASSUME ~HandleExit(e), ~HandleAbort(e), ~Suppressed(e) PROVE e \in CallEvent
  BY <1>0, <1>4 DEF Handle, OverBudget, Orphan, DuplicateEntry, Retain, CloseAggregated,
     CloseIncomplete, ClosePrinted, Remembers, Appends, Admissible, Ordinary
<1>5. CASE OverBudget(e)
  <2>1. e \in CallEvent
    BY <1>0, <1>5 DEF OverBudget, Admissible, Ordinary
  <2>2. discarded' \in [Reasons -> Nat]
    BY <1>5, <2>1, NowType, DiscardType DEF OverBudget, Reasons
  <2>3. suppressed' \subseteq Goroutines
    BY <1>0, <1>5, <2>1, NowType DEF OverBudget, ManagerTypeOK
  <2>4. QED
    BY <1>0, <1>5, <2>2, <2>3, DropStackType DEF OverBudget, ManagerTypeOK
<1>6. CASE e \in CallEvent /\ (Orphan(e) \/ DuplicateEntry(e) \/ Retain(e))
  <2>1. /\ EventsNow(e) \in Seq(CallEvent) /\ StackNow(e) \in Seq(Functions)
        /\ DiscardedNow(e) \in [Reasons -> Nat] /\ pending \in Nat
        /\ InvalidNow(e) \cap {g} \subseteq Goroutines /\ InvalidAfter(e) \subseteq Goroutines
        /\ ObservedStack(e) \in Seq(Functions)
    BY <1>0, <1>6, NowType, PendingType, ObservedType
  <2>2. InvalidNow(e) \cap {g} \subseteq Goroutines /\ <<>> \in Seq(CallEvent)
    BY <1>0
  <2>3. /\ pids' \in Seq(Pids) /\ evictedPIDs' \in Nat
        /\ goEvents' \in [Goroutines -> Seq(CallEvent)]
        /\ goEventStack' \in [Goroutines -> Seq(Functions)]
        /\ invalid' \subseteq Goroutines /\ suppressed' \subseteq Goroutines
        /\ pendingEvents' \in Nat
    <3>1. CASE Orphan(e)
      <4>1. Store(e, <<>>, StackNow(e), InvalidNow(e) \cap {g}, pending)
        BY <3>1 DEF Orphan
      <4> HIDE DEF pending, g
      <4>2. QED
        BY <1>6, <2>1, <2>2, <4>1, StoreType
    <3>2. CASE DuplicateEntry(e)
      <4> DEFINE replaced == Append(Drop(EventsNow(e)), e)
      <4>1. replaced \in Seq(CallEvent)
        <5>1. EventsNow(e) # <<>>
          BY <3>2 DEF DuplicateEntry, IsDuplicate
        <5>2. Drop(EventsNow(e)) \in Seq(CallEvent)
          BY <2>1, <5>1, LastFacts
        <5>3. QED
          BY <1>6, <5>2, AppendFacts
      <4>2. Store(e, replaced, StackNow(e), InvalidNow(e) \cap {g}, pending)
        BY <3>2 DEF DuplicateEntry
      <4> HIDE DEF pending, g, replaced
      <4>3. QED
        BY <1>6, <2>1, <2>2, <4>1, <4>2, StoreType
    <3>3. CASE Retain(e)
      <4> DEFINE all == Append(EventsNow(e), e)
                 more == pending + (IF Adaptive THEN 1 ELSE 0)
      <4>1. all \in Seq(CallEvent)
        BY <1>6, <2>1, AppendFacts
      <4>2. Store(e, all, ObservedStack(e), InvalidAfter(e), more)
        BY <3>3 DEF Retain
      <4>3. more \in Nat
        BY <2>1
      <4> HIDE DEF all, more
      <4>4. QED
        BY <1>6, <2>1, <4>1, <4>2, <4>3, StoreType
    <3>4. QED
      BY <1>6, <3>1, <3>2, <3>3
  <2>4. agg' = AggKept(pid) /\ discarded' = DiscardedNow(e) /\ printed' = printed
    BY <1>6 DEF Orphan, DuplicateEntry, Retain
  <2>5. QED
    BY <2>1, <2>3, <2>4, AggKeptType DEF ManagerTypeOK
<1>7. CASE e \in CallEvent /\ (CloseAggregated(e) \/ CloseIncomplete(e) \/ ClosePrinted(e))
  <2> DEFINE all == Append(EventsNow(e), e)
  <2>1. /\ DiscardedNow(e) \in [Reasons -> Nat] /\ all \in Seq(CallEvent)
    BY <1>7, NowType, AppendFacts
  <2>2. Cleared(e)
    BY <1>7 DEF CloseAggregated, CloseIncomplete, ClosePrinted
  <2>3. /\ pids' \in Seq(Pids) /\ evictedPIDs' \in Nat
        /\ goEvents' \in [Goroutines -> Seq(CallEvent)]
        /\ goEventStack' \in [Goroutines -> Seq(Functions)]
        /\ invalid' \subseteq Goroutines /\ suppressed' \subseteq Goroutines
        /\ pendingEvents' \in Nat
    BY <1>7, <2>2, ClearedType
  <2>4. AggKept(pid) \in [Pids -> Seq(PairedCall)] /\ printed \in Seq(PairedCall)
    BY AggKeptType DEF ManagerTypeOK
  <2>5. AggregateStack(all).pairs \in Seq(PairedCall) /\ PrintStack(all).pairs \in Seq(PairedCall)
    <3>1. AggregateStack(all) \in AggregateAcc /\ PrintStack(all) \in PrintAcc
      <4> HIDE DEF all
      <4>1. PICK f : AggregateRun(f, all) /\ AggregateStack(all) = f[Len(all)]
        BY <2>1, AggregateUnfolds
      <4>2. Len(all) \in 0 .. Len(all)
        BY <2>1
      <4>3. QED
        BY <2>1, <4>1, <4>2, PrintStackType DEF AggregateRun
    <3> HIDE DEF all
    <3>2. QED
      BY <3>1 DEF AggregateAcc, PrintAcc
  <2> HIDE DEF all
  <2>6. discarded' \in [Reasons -> Nat]
    BY <1>7, <2>1, DiscardType DEF CloseAggregated, CloseIncomplete, ClosePrinted, Reasons
  <2>7. agg' \in [Pids -> Seq(PairedCall)] /\ printed' \in Seq(PairedCall)
    <3>1. CASE CloseAggregated(e)
      <4>1. /\ agg' = [AggKept(pid) EXCEPT ![pid] = @ \o AggregateStack(all).pairs]
            /\ printed' = printed
        BY <3>1 DEF CloseAggregated, all
      <4>2. AggKept(pid)[pid] \in Seq(PairedCall)
        BY <1>0, <2>4
      <4>3. AggKept(pid)[pid] \o AggregateStack(all).pairs \in Seq(PairedCall)
        BY <2>5, <4>2, ConcatType
      <4> HIDE DEF pid
      <4>4. QED
        BY <2>4, <4>1, <4>3
    <3>2. CASE CloseIncomplete(e)
      BY <2>4, <3>2 DEF CloseIncomplete
    <3>3. CASE ClosePrinted(e)
      <4>1. printed \o PrintStack(all).pairs \in Seq(PairedCall)
        BY <2>4, <2>5, ConcatType
      <4>2. QED
        BY <2>4, <3>3, <4>1 DEF ClosePrinted, all
    <3>4. QED
      BY <1>7, <3>1, <3>2, <3>3
  <2>8. QED
    BY <2>3, <2>6, <2>7 DEF ManagerTypeOK
<1>8. QED
  BY <1>1, <1>2, <1>3, <1>4, <1>5, <1>6, <1>7 DEF Handle

\* And so does PrintRemaining.
LEMMA PrintRemainingType ==
    ASSUME ManagerTypeOK, PrintRemaining
    PROVE  ManagerTypeOK'
<1>1. Unfinished \subseteq Goroutines /\ IsFiniteSet(Unfinished) /\ Cardinality(Unfinished) \in Nat
  <2>1. Unfinished \subseteq Goroutines
    BY DEF Unfinished
  <2>2. IsFiniteSet(Unfinished)
    BY <2>1, ScopeAssumption, FS_Subset
  <2>3. QED
    BY <2>1, <2>2, FS_CardinalityType
<1>2. CASE Aggregate
  <2>1. <<>> \in Seq(CallEvent) /\ <<>> \in Seq(Functions)
    OBVIOUS
  <2>2. discarded' \in [Reasons -> Nat]
    <3>1. discarded \in [Reasons -> Nat] /\ "incomplete" \in Reasons
      BY DEF ManagerTypeOK, Reasons
    <3>2. discarded["incomplete"] + Cardinality(Unfinished) \in Nat
      BY <1>1, <3>1
    <3>3. discarded' = [discarded EXCEPT !["incomplete"] = @ + Cardinality(Unfinished)]
      BY <1>2 DEF PrintRemaining
    <3>4. QED
      BY <3>1, <3>2, <3>3
  <2>3. pendingEvents' \in Nat
    <3>1. Cardinality(Retained(Unfinished)) \in Nat /\ pendingEvents \in Nat
      BY <1>1, RetainedType DEF ManagerTypeOK
    <3>2. Release(pendingEvents, Cardinality(Retained(Unfinished))) \in Nat
      BY <3>1, ReleaseType
    <3>3. QED
      BY <1>2, <3>1, <3>2 DEF PrintRemaining
  <2>4. QED
    BY <1>2, <2>1, <2>2, <2>3 DEF PrintRemaining, ManagerTypeOK
<1>3. CASE ~Aggregate
  <2> DEFINE rest == [i \in 1 .. Cardinality(Unfinished) |->
                        PrintStack(goEvents[SetToSeq(Unfinished)[i]]).pairs]
  <2>1. ASSUME NEW i \in 1 .. Cardinality(Unfinished) PROVE rest[i] \in Seq(PairedCall)
    <3>1. SetToSeq(Unfinished)[i] \in Goroutines
      BY <1>1, SetToSeqType
    <3>2. goEvents[SetToSeq(Unfinished)[i]] \in Seq(CallEvent)
      BY <3>1 DEF ManagerTypeOK
    <3>3. PrintStack(goEvents[SetToSeq(Unfinished)[i]]) \in PrintAcc
      BY <3>2, PrintStackType
    <3>4. QED
      BY <3>3 DEF PrintAcc
  <2>2. rest \in [1 .. Cardinality(Unfinished) -> Seq(PairedCall)]
    BY <2>1
  <2>3. printed' = printed \o FlattenSeq(rest)
    BY <1>3 DEF PrintRemaining
  <2> HIDE DEF rest
  <2>4. printed' \in Seq(PairedCall)
    <3>1. FlattenSeq(rest) \in Seq(PairedCall)
      BY <1>1, <2>2, FlattenType
    <3>2. QED
      BY <2>3, <3>1, ConcatType DEF ManagerTypeOK
  <2>5. UNCHANGED <<goEvents, goEventStack, invalid, pendingEvents, discarded, pids,
                    suppressed, evictedPIDs, agg>>
    BY <1>3 DEF PrintRemaining, stackVars
  <2>6. QED
    BY <2>4, <2>5 DEF ManagerTypeOK
<1>4. QED
  BY <1>2, <1>3

\* ManagerNext keeps the shapes.
LEMMA ManagerTypeKept ==
    ManagerTypeOK /\ [ManagerNext]_<<cfg, managerVars>> => ManagerTypeOK'
<1> SUFFICES ASSUME ManagerTypeOK, [ManagerNext]_<<cfg, managerVars>> PROVE ManagerTypeOK'
  OBVIOUS
<1>1. CASE UNCHANGED <<cfg, managerVars>>
  BY <1>1 DEF managerVars, stackVars, ManagerTypeOK
<1>2. CASE PrintRemaining
  BY <1>2, PrintRemainingType
<1>3. ASSUME NEW e \in Event, Handle(e) PROVE ManagerTypeOK'
  BY <1>3, HandleType
<1>4. QED
  BY <1>1, <1>2, <1>3 DEF ManagerNext

\* The manager starts with empty maps.
LEMMA ManagerTypeStarts == ManagerInit => ManagerTypeOK
<1>1. /\ <<>> \in Seq(Pids) /\ <<>> \in Seq(CallEvent) /\ <<>> \in Seq(Functions)
      /\ <<>> \in Seq(PairedCall)
  OBVIOUS
<1>2. QED
  BY <1>1 DEF ManagerInit, ManagerTypeOK

\* The manager's maps, counters and reports keep their shapes: only entries and returns
\* are retained, and the subtractions of dropStack and pidState never go below zero.
THEOREM ManagerTypeCorrect == ManagerSpec => []ManagerTypeOK
BY ManagerTypeStarts, ManagerTypeKept, PTL DEF ManagerSpec

-----------------------------------------------------------------------------
(* The budget of retained events, the processes and the suppressed goroutines. *)

\* Events of goroutines that an event of e.goid neither evicts nor belongs to.
Elsewhere(e) ==
    Cardinality(Held(goEvents, Goroutines \ (EvictedGoroutines(PidOf[e.goid]) \cup {e.goid})))

\* resetStaleSample gives back what it drops.
LEMMA EventsNowCount ==
    ASSUME ManagerTypeOK, NEW e \in CallEvent, Adaptive,
           NEW rest \in Nat, pendingEvents = rest + Len(goEvents[e.goid])
    PROVE  PendingNow(e) = rest + Len(EventsNow(e)) /\ Len(EventsNow(e)) \in Nat
<1>1. goEvents[e.goid] \in Seq(CallEvent)
  BY NowType DEF ManagerTypeOK
<1>2. Len(goEvents[e.goid]) \in Nat /\ Len(<<>>) = 0
  BY <1>1
<1>3. CASE Stale(e)
  <2>1. /\ EventsNow(e) = <<>>
        /\ PendingNow(e) = Release(rest + Len(goEvents[e.goid]), Len(goEvents[e.goid]))
    BY <1>3 DEF EventsNow, PendingNow
  <2>2. \A r, n \in Nat : Release(r + n, n) = r
    BY DEF Release
  <2>3. PendingNow(e) = rest
    BY <1>2, <2>1, <2>2
  <2>4. Len(EventsNow(e)) = 0
    BY <1>2, <2>1
  <2>5. QED
    BY <2>3, <2>4
<1>4. CASE ~Stale(e)
  <2>1. EventsNow(e) = goEvents[e.goid] /\ PendingNow(e) = pendingEvents
    BY <1>4 DEF EventsNow, PendingNow
  <2>2. QED
    BY <1>2, <2>1
<1>5. QED
  BY <1>3, <1>4

\* The counter follows what Add retains and evicts.
LEMMA StoreCounts ==
    ASSUME ManagerTypeOK, PendingExact, Adaptive, NEW e \in CallEvent, NEW events \in Seq(CallEvent),
           NEW stack, NEW bad, NEW pending, Store(e, events, stack, bad, pending)
    PROVE  /\ Elsewhere(e) \in Nat /\ Len(EventsNow(e)) \in Nat /\ Len(events) \in Nat
           /\ Elsewhere(e) + Len(EventsNow(e)) <= PendingNow(e) /\ PendingNow(e) \in Nat
           /\ PendingAfterEviction(PidOf[e.goid], PendingNow(e)) = Elsewhere(e) + Len(EventsNow(e))
           /\ Cardinality(Retained(Goroutines))' = Elsewhere(e) + Len(events)
<1> DEFINE g == e.goid
           gone == EvictedGoroutines(PidOf[g])
           away == Goroutines \ (gone \cup {g})
           lost == Cardinality(Held(goEvents, gone))
<1>1. g \in Goroutines /\ PidOf[g] \in Pids /\ PendingNow(e) \in Nat
  BY NowType
<1>2. TouchPid(PidOf[g]) /\ pids \in Seq(Pids) /\ evictedPIDs \in Nat
  BY DEF Store, ManagerTypeOK
<1>3. Evicted(PidOf[g]) \subseteq Pids \ {PidOf[g]}
  BY <1>1, <1>2, TouchDoes
<1>4. gone \subseteq Goroutines \ {g}
  BY <1>3 DEF EvictedGoroutines
<1>5. goEvents \in [Goroutines -> Seq(CallEvent)]
  BY DEF ManagerTypeOK
<1>6. /\ Cardinality(Retained(Goroutines)) = Elsewhere(e) + lost + Len(goEvents[g])
      /\ Elsewhere(e) \in Nat /\ lost \in Nat /\ Len(goEvents[g]) \in Nat
  <2>1. Retained(Goroutines) = Held(goEvents, Goroutines)
    BY RetainedType
  <2> HIDE DEF gone, g
  <2>2. LET rest == Cardinality(Held(goEvents, Goroutines \ (gone \cup {g})))
        IN  /\ Cardinality(Held(goEvents, Goroutines))
                 = rest + Cardinality(Held(goEvents, gone)) + Len(goEvents[g])
            /\ rest \in Nat /\ Cardinality(Held(goEvents, gone)) \in Nat /\ Len(goEvents[g]) \in Nat
    BY <1>1, <1>4, <1>5, HeldParts
  <2>3. QED
    BY <2>1, <2>2 DEF Elsewhere, gone, g
<1>7. pendingEvents = (Elsewhere(e) + lost) + Len(goEvents[g])
  BY <1>6 DEF PendingExact
<1>8. PendingNow(e) = (Elsewhere(e) + lost) + Len(EventsNow(e)) /\ Len(EventsNow(e)) \in Nat
  <2>1. Elsewhere(e) + lost \in Nat
    BY <1>6
  <2> HIDE DEF lost
  <2>2. QED
    BY <1>7, <2>1, EventsNowCount
<1>9. PendingAfterEviction(PidOf[g], PendingNow(e)) = Elsewhere(e) + Len(EventsNow(e))
  <2>1. Retained(gone) = Held(goEvents, gone)
    BY <1>4, RetainedType
  <2>2. PendingAfterEviction(PidOf[g], PendingNow(e)) = Release(PendingNow(e), lost)
    BY <2>1 DEF PendingAfterEviction
  <2>3. \A r, n, m \in Nat : Release((r + n) + m, n) = r + m
    BY DEF Release
  <2> HIDE DEF lost
  <2>4. QED
    BY <1>6, <1>8, <2>2, <2>3
<1>10. Cardinality(Retained(Goroutines))' = Elsewhere(e) + Len(events) /\ Len(events) \in Nat
  <2>1. goEvents' = [h \in Goroutines |-> IF h = g THEN events
                                          ELSE IF h \in gone THEN <<>> ELSE goEvents[h]]
    BY DEF Store
  <2>2. <<>> \in Seq(CallEvent)
    OBVIOUS
  <2>3. goEvents' \in [Goroutines -> Seq(CallEvent)]
    BY <1>5, <2>1, <2>2
  <2>4. /\ goEvents'[g] = events
        /\ \A h \in gone : goEvents'[h] = <<>>
        /\ \A h \in away : goEvents'[h] = goEvents[h]
    BY <1>1, <1>4, <2>1
  <2>5. Retained(Goroutines)' = Held(goEvents', Goroutines)
    BY DEF Retained, Held
  <2> HIDE DEF gone, g
  <2>6. LET rest == Cardinality(Held(goEvents', Goroutines \ (gone \cup {g})))
        IN  /\ Cardinality(Held(goEvents', Goroutines))
                 = rest + Cardinality(Held(goEvents', gone)) + Len(goEvents'[g])
            /\ rest \in Nat /\ Cardinality(Held(goEvents', gone)) \in Nat /\ Len(goEvents'[g]) \in Nat
    BY <1>1, <1>4, <2>3, HeldParts
  <2>7. Held(goEvents', away) = Held(goEvents, away)
    BY <2>4, HeldSame
  <2>8. Cardinality(Held(goEvents', gone)) = 0
    BY <2>4, HeldNothing
  <2>9. Cardinality(Held(goEvents', away)) = Elsewhere(e)
    BY <2>7 DEF Elsewhere, gone, g
  <2>10. Cardinality(Held(goEvents', Goroutines)) = Elsewhere(e) + 0 + Len(events)
    BY <2>4, <2>6, <2>8, <2>9
  <2>11. Cardinality(Retained(Goroutines)') = Elsewhere(e) + 0 + Len(events)
    BY <2>5, <2>10
  <2>12. QED
    BY <1>6, <2>4, <2>6, <2>11
<1>11. Elsewhere(e) + Len(EventsNow(e)) <= PendingNow(e)
  <2> HIDE DEF lost
  <2> QED BY <1>6, <1>8
<1>12. QED
  BY <1>1, <1>6, <1>8, <1>9, <1>10, <1>11

\* dropStack gives back what it drops.
LEMMA DropStackCounts ==
    ASSUME ManagerTypeOK, PendingExact, Adaptive, NEW g \in Goroutines, DropStack(g)
    PROVE  /\ pendingEvents' = Cardinality(Retained(Goroutines))'
           /\ pendingEvents' <= pendingEvents
<1> DEFINE away == Goroutines \ ({} \cup {g})
           rest == Cardinality(Held(goEvents, away))
<1>1. goEvents \in [Goroutines -> Seq(CallEvent)]
  BY DEF ManagerTypeOK
<1>2. \A ev : Held(ev, {}) = {} /\ Cardinality(Held(ev, {})) = 0
  BY HeldNothing
<1>3. /\ Cardinality(Retained(Goroutines)) = rest + 0 + Len(goEvents[g])
      /\ rest \in Nat /\ Len(goEvents[g]) \in Nat
  <2>1. Retained(Goroutines) = Held(goEvents, Goroutines)
    BY RetainedType
  <2>2. LET r == Cardinality(Held(goEvents, Goroutines \ ({} \cup {g})))
        IN  /\ Cardinality(Held(goEvents, Goroutines))
                 = r + Cardinality(Held(goEvents, {})) + Len(goEvents[g])
            /\ r \in Nat /\ Cardinality(Held(goEvents, {})) \in Nat /\ Len(goEvents[g]) \in Nat
    <3>1. {} \subseteq Goroutines \ {g}
      OBVIOUS
    <3>2. QED
      BY <1>1, <3>1, HeldParts
  <2>3. QED
    BY <1>2, <2>1, <2>2
<1>4. /\ goEvents' = [goEvents EXCEPT ![g] = <<>>]
      /\ pendingEvents' = Release(pendingEvents, Len(goEvents[g]))
  BY DEF DropStack
<1>5. Cardinality(Retained(Goroutines)') = rest + 0 + 0
  <2>1. <<>> \in Seq(CallEvent)
    OBVIOUS
  <2>2. /\ goEvents' \in [Goroutines -> Seq(CallEvent)] /\ goEvents'[g] = <<>>
        /\ \A h \in away : goEvents'[h] = goEvents[h]
    BY <1>1, <1>4, <2>1
  <2>3. Retained(Goroutines)' = Held(goEvents', Goroutines)
    BY DEF Retained, Held
  <2>4. LET r == Cardinality(Held(goEvents', Goroutines \ ({} \cup {g})))
        IN  /\ Cardinality(Held(goEvents', Goroutines))
                 = r + Cardinality(Held(goEvents', {})) + Len(goEvents'[g])
            /\ r \in Nat /\ Cardinality(Held(goEvents', {})) \in Nat /\ Len(goEvents'[g]) \in Nat
    <3>1. {} \subseteq Goroutines \ {g}
      OBVIOUS
    <3>2. QED
      BY <2>2, <3>1, HeldParts
  <2>5. Held(goEvents', away) = Held(goEvents, away)
    BY <2>2, HeldSame
  <2>6. Len(goEvents'[g]) = 0
    BY <2>2
  <2>7. QED
    BY <1>2, <2>3, <2>4, <2>5, <2>6
<1>6. pendingEvents = rest + 0 + Len(goEvents[g])
  BY <1>3 DEF PendingExact
<1>7. \A r, n \in Nat : Release(r + 0 + n, n) = r + 0 + 0 /\ r + 0 + 0 <= r + 0 + n
  BY DEF Release
<1> HIDE DEF rest
<1>8. QED
  BY <1>3, <1>4, <1>5, <1>6, <1>7

\* Processes and suppressed goroutines stay in their bounds when Add stores something.
LEMMA StoreBounded ==
    ASSUME ManagerTypeOK, MemoryBounded, cfg' = cfg, NEW e \in CallEvent, NEW events,
           NEW stack, NEW bad, NEW pending, Store(e, events, stack, bad, pending)
    PROVE  MemoryBounded'
<1> SUFFICES ASSUME Adaptive
             PROVE  /\ Len(pids') <= MaxPids
                    /\ Cardinality(suppressed') <= MaxSuppressed
                    /\ \A h \in Goroutines : goEvents'[h] # <<>> => PidOf[h] \in Known'
  BY DEF MemoryBounded, Adaptive
<1> DEFINE pid == PidOf[e.goid]
<1>1. /\ Len(pids) <= MaxPids /\ Cardinality(suppressed) <= MaxSuppressed
      /\ \A h \in Goroutines : goEvents[h] # <<>> => PidOf[h] \in Known
  BY DEF MemoryBounded
<1>2. /\ TouchPid(pid) /\ pid \in Pids /\ pids \in Seq(Pids) /\ evictedPIDs \in Nat
  BY NowType DEF Store, ManagerTypeOK
<1>3. /\ pid \in Known' /\ Known \ Evicted(pid) \subseteq Known'
      /\ Len(pids') <= MaxPids
  BY <1>1, <1>2, TouchDoes
<1>4. Cardinality(suppressed') <= MaxSuppressed
  <2>1. suppressed' \subseteq suppressed /\ suppressed \subseteq Goroutines
    BY NowType DEF Store, ManagerTypeOK
  <2>2. IsFiniteSet(suppressed)
    BY <2>1, ScopeAssumption, FS_Subset
  <2>3. Cardinality(suppressed') <= Cardinality(suppressed)
    BY <2>1, <2>2, FS_Subset
  <2>4. IsFiniteSet(suppressed')
    BY <2>1, <2>2, FS_Subset
  <2>5. Cardinality(suppressed') \in Nat /\ Cardinality(suppressed) \in Nat
    BY <2>2, <2>4, FS_CardinalityType
  <2>6. QED
    BY <1>1, <2>3, <2>5, ManagerAssumption
<1>5. ASSUME NEW h \in Goroutines, goEvents'[h] # <<>> PROVE PidOf[h] \in Known'
  <2>1. goEvents' = [k \in Goroutines |-> IF k = e.goid THEN events
                                          ELSE IF k \in EvictedGoroutines(pid) THEN <<>>
                                          ELSE goEvents[k]]
    BY DEF Store
  <2>2. CASE h = e.goid
    BY <1>3, <2>2
  <2>3. CASE h # e.goid
    <3>1. h \notin EvictedGoroutines(pid) /\ goEvents[h] # <<>>
      BY <1>5, <2>1, <2>3
    <3>2. PidOf[h] \in Known \ Evicted(pid)
      BY <1>1, <3>1 DEF EvictedGoroutines
    <3>3. QED
      BY <1>3, <3>2
  <2>4. QED
    BY <2>2, <2>3
<1>6. QED
  BY <1>3, <1>4, <1>5

\* A dropped stack frees memory and takes none.
LEMMA DropStackBounded ==
    ASSUME ManagerTypeOK, MemoryBounded, cfg' = cfg, pids' = pids,
           NEW g \in Goroutines, DropStack(g), Cardinality(suppressed') <= MaxSuppressed
    PROVE  MemoryBounded'
<1>1. Adaptive' = Adaptive /\ Known' = Known
  BY DEF Adaptive, Known
<1>2. \A h \in Goroutines : goEvents'[h] # <<>> => goEvents[h] # <<>>
  BY DEF DropStack, ManagerTypeOK
<1>3. QED
  BY <1>1, <1>2 DEF MemoryBounded

\* Fewer suppressed goroutines are within the bound.
LEMMA FewerSuppressed ==
    ASSUME ManagerTypeOK, MemoryBounded, Adaptive, NEW T, T \subseteq suppressed
    PROVE  /\ IsFiniteSet(T) /\ Cardinality(T) \in Nat
           /\ Cardinality(T) <= MaxSuppressed
<1>1. suppressed \subseteq Goroutines /\ Cardinality(suppressed) <= MaxSuppressed
  BY DEF MemoryBounded, ManagerTypeOK
<1>2. IsFiniteSet(suppressed)
  BY <1>1, ScopeAssumption, FS_Subset
<1>3. IsFiniteSet(T)
  BY <1>2, FS_Subset
<1>4. Cardinality(T) <= Cardinality(suppressed)
  BY <1>2, FS_Subset
<1>5. Cardinality(T) \in Nat /\ Cardinality(suppressed) \in Nat
  BY <1>2, <1>3, FS_CardinalityType
<1>6. QED
  BY <1>1, <1>3, <1>4, <1>5, ManagerAssumption

\* The counter is exact only while it is in its type, and evicting a process gives back
\* all it held only while what is held belongs to processes that are known.
BudgetInv == ManagerTypeOK /\ PendingExact /\ MemoryBounded

\* Every outcome of Handle.
LEMMA HandleKeepsBudget ==
    ASSUME BudgetInv, cfg' = cfg, NEW e \in Event, Handle(e)
    PROVE  PendingExact' /\ MemoryBounded'
<1> USE DEF BudgetInv
<1> DEFINE g == e.goid
           pid == PidOf[g]
<1>0. /\ g \in Goroutines /\ pid \in Pids /\ Adaptive' = Adaptive
      /\ e.location # EXIT => e \in CallEvent
      /\ pendingEvents \in Nat /\ MaxPending \in Nat
  BY EventFields, ManagerAssumption DEF Adaptive, ManagerTypeOK
\* What an event does that is not stored.
<1>1. ASSUME DropStack(g), pids' = pids, Adaptive => Cardinality(suppressed') <= MaxSuppressed
      PROVE  PendingExact' /\ MemoryBounded'
  <2>1. CASE ~Adaptive
    BY <1>0, <2>1 DEF PendingExact, MemoryBounded
  <2>2. CASE Adaptive
    <3>1. /\ pendingEvents' = Cardinality(Retained(Goroutines))'
          /\ pendingEvents' <= pendingEvents /\ pendingEvents <= MaxPending
      BY <1>0, <1>1, <2>2, DropStackCounts DEF PendingExact
    <3>2. pendingEvents' \in Nat
      BY <1>0, <1>1, DropStackType
    <3>3. QED
      BY <1>0, <1>1, <2>2, <3>1, <3>2, DropStackBounded DEF PendingExact
  <2>3. QED
    BY <2>1, <2>2
<1>2. CASE HandleExit(e) \/ HandleAbort(e)
  <2>1. DropStack(g) /\ pids' = pids /\ suppressed' \subseteq suppressed
    BY <1>2 DEF HandleExit, HandleAbort
  <2>2. QED
    BY <1>1, <2>1, FewerSuppressed
<1>3. CASE Suppressed(e)
  <2>1. UNCHANGED <<goEvents, pids, pendingEvents>> /\ suppressed' \subseteq suppressed
    BY <1>3 DEF Suppressed, stackVars
  <2>2. Adaptive => Cardinality(suppressed') <= MaxSuppressed
    BY <2>1, FewerSuppressed
  <2>3. PendingExact'
    <3>1. Retained(Goroutines)' = Retained(Goroutines)
      BY <2>1 DEF Retained
    <3>2. QED
      BY <1>0, <2>1, <3>1 DEF PendingExact
  <2>4. MemoryBounded'
    BY <1>0, <2>1, <2>2 DEF MemoryBounded, Known
  <2>5. QED
    BY <2>3, <2>4
<1>4. CASE OverBudget(e)
  <2>1. DropStack(g) /\ pids' = pids /\ Adaptive
    BY <1>4 DEF OverBudget, OverBudgetNow
  <2>2. SuppressedNow(e) \subseteq suppressed
    BY DEF SuppressedNow
  <2>3. /\ IsFiniteSet(SuppressedNow(e)) /\ Cardinality(SuppressedNow(e)) \in Nat
        /\ Cardinality(SuppressedNow(e)) <= MaxSuppressed
    BY <2>1, <2>2, FewerSuppressed
  <2>4. MaxSuppressed \in Nat \ {0}
    BY ManagerAssumption
  <2> DEFINE kept == IF Cardinality(SuppressedNow(e)) >= MaxSuppressed
                       THEN {} ELSE SuppressedNow(e)
  <2>5. IsFiniteSet(kept) /\ Cardinality(kept) \in Nat /\ Cardinality(kept) <= MaxSuppressed - 1
    <3>1. IsFiniteSet({}) /\ Cardinality({}) = 0
      BY FS_EmptySet
    <3>2. CASE Cardinality(SuppressedNow(e)) >= MaxSuppressed
      <4>1. kept = {}
        BY <3>2
      <4> HIDE DEF kept
      <4>2. QED
        BY <2>4, <3>1, <4>1
    <3>3. CASE ~(Cardinality(SuppressedNow(e)) >= MaxSuppressed)
      <4>1. kept = SuppressedNow(e)
        BY <3>3
      <4>2. Cardinality(SuppressedNow(e)) <= MaxSuppressed - 1
        BY <2>3, <2>4, <3>3
      <4> HIDE DEF kept
      <4>3. QED
        BY <2>3, <4>1, <4>2
    <3>4. QED
      BY <3>2, <3>3
  <2> HIDE DEF kept
  <2>6. Cardinality(kept \cup {g}) <= MaxSuppressed
    <3>1. Cardinality(kept \cup {g})
            = IF g \in kept THEN Cardinality(kept) ELSE Cardinality(kept) + 1
      BY <2>5, FS_AddElement
    <3>2. QED
      BY <2>4, <2>5, <3>1
  <2>7. suppressed' = SuppressedNow(e) \/ suppressed' = kept \cup {g}
    BY <1>4 DEF OverBudget, kept
  <2>8. QED
    BY <1>1, <2>1, <2>3, <2>6, <2>7
\* What is stored.
<1>5. ASSUME e \in CallEvent, NEW events \in Seq(CallEvent), NEW stack, NEW bad, NEW pending,
             Store(e, events, stack, bad, pending), ~Adaptive
      PROVE  PendingExact' /\ MemoryBounded'
  BY <1>0, <1>5 DEF PendingExact, MemoryBounded
<1>6. ASSUME e \in CallEvent, NEW events \in Seq(CallEvent), NEW stack, NEW bad, NEW pending,
             Store(e, events, stack, bad, pending), Adaptive,
             pending = Elsewhere(e) + Len(events), pending <= MaxPending
      PROVE  PendingExact' /\ MemoryBounded'
  <2>1. Cardinality(Retained(Goroutines))' = Elsewhere(e) + Len(events)
    BY <1>6, StoreCounts
  <2>2. pendingEvents' = pending
    BY <1>6 DEF Store
  <2>3. MemoryBounded'
    BY <1>6, StoreBounded
  <2>4. QED
    BY <1>0, <1>6, <2>1, <2>2, <2>3 DEF PendingExact
<1>7. ASSUME e \in CallEvent, NEW events \in Seq(CallEvent), NEW stack, NEW bad, NEW pending,
             Store(e, events, stack, bad, pending),
             Remembers(e), Adaptive
      PROVE  /\ Elsewhere(e) \in Nat /\ Len(EventsNow(e)) \in Nat
             /\ PendingAfterEviction(pid, PendingNow(e)) = Elsewhere(e) + Len(EventsNow(e))
             /\ Elsewhere(e) + Len(EventsNow(e)) + 1 <= MaxPending
  <2>1. /\ Elsewhere(e) \in Nat /\ Len(EventsNow(e)) \in Nat /\ PendingNow(e) \in Nat
        /\ Elsewhere(e) + Len(EventsNow(e)) <= PendingNow(e)
        /\ PendingAfterEviction(pid, PendingNow(e)) = Elsewhere(e) + Len(EventsNow(e))
    BY <1>7, StoreCounts
  <2>2. PendingNow(e) < MaxPending
    BY <1>0, <1>7, <2>1 DEF Remembers, OverBudgetNow
  <2>3. QED
    BY <1>0, <2>1, <2>2
<1>8. ASSUME Remembers(e) PROVE e \in CallEvent /\ EventsNow(e) \in Seq(CallEvent)
  BY <1>0, <1>8, NowType DEF Remembers, Admissible, Ordinary
<1>9. CASE Orphan(e)
  <2> DEFINE none == <<>>
             pending == PendingAfterEviction(pid, PendingNow(e))
             bad == InvalidNow(e) \cap {g}
  <2>1. /\ Store(e, none, StackNow(e), bad, pending)
        /\ Remembers(e) /\ EventsNow(e) = none
    BY <1>9 DEF Orphan, IsOrphan
  <2>2. none \in Seq(CallEvent) /\ Len(none) \in Nat
    OBVIOUS
  <2> HIDE DEF none, bad
  <2>3. Adaptive => pending = Elsewhere(e) + Len(none) /\ pending <= MaxPending
    BY <1>0, <1>7, <1>8, <2>1, <2>2
  <2> HIDE DEF pending, g
  <2>4. QED
    BY <1>5, <1>6, <1>8, <2>1, <2>2, <2>3
<1>10. CASE DuplicateEntry(e)
  <2> DEFINE replaced == Append(Drop(EventsNow(e)), e)
             pending == PendingAfterEviction(pid, PendingNow(e))
             bad == InvalidNow(e) \cap {g}
  <2>1. /\ Store(e, replaced, StackNow(e), bad, pending)
        /\ Remembers(e) /\ EventsNow(e) # <<>>
    BY <1>10 DEF DuplicateEntry, IsDuplicate
  <2>2. replaced \in Seq(CallEvent) /\ Len(replaced) = Len(EventsNow(e))
    <3>1. /\ Drop(EventsNow(e)) \in Seq(CallEvent)
          /\ Len(Drop(EventsNow(e))) = Len(EventsNow(e)) - 1 /\ Len(EventsNow(e)) \in Nat
      BY <1>8, <2>1, LastFacts
    <3>2. replaced \in Seq(CallEvent) /\ Len(replaced) = Len(Drop(EventsNow(e))) + 1
      BY <1>8, <2>1, <3>1, AppendFacts
    <3>3. QED
      BY <3>1, <3>2
  <2> HIDE DEF replaced, bad
  <2>3. Adaptive => pending = Elsewhere(e) + Len(replaced) /\ pending <= MaxPending
    BY <1>0, <1>7, <1>8, <2>1, <2>2
  <2> HIDE DEF pending, g
  <2>4. QED
    BY <1>5, <1>6, <1>8, <2>1, <2>2, <2>3
<1>11. CASE Retain(e)
  <2> DEFINE all == Append(EventsNow(e), e)
             before == PendingAfterEviction(pid, PendingNow(e))
             pending == before + (IF Adaptive THEN 1 ELSE 0)
  <2>1. Store(e, all, ObservedStack(e), InvalidAfter(e), pending) /\ Remembers(e)
    BY <1>11 DEF Retain, Appends
  <2>2. all \in Seq(CallEvent) /\ Len(all) = Len(EventsNow(e)) + 1
    BY <1>8, <2>1, AppendFacts
  <2> HIDE DEF all
  <2>3. Adaptive => pending = Elsewhere(e) + Len(all) /\ pending <= MaxPending
    <3> SUFFICES ASSUME Adaptive
                 PROVE  pending = Elsewhere(e) + Len(all) /\ pending <= MaxPending
      OBVIOUS
    <3> HIDE DEF before
    <3>1. /\ Elsewhere(e) \in Nat /\ Len(EventsNow(e)) \in Nat
          /\ before = Elsewhere(e) + Len(EventsNow(e))
          /\ Elsewhere(e) + Len(EventsNow(e)) + 1 <= MaxPending
      <4> HIDE DEF pending
      <4> QED BY <1>7, <1>8, <2>1, <2>2 DEF before
    <3>2. QED
      BY <1>0, <2>2, <3>1
  <2> HIDE DEF pending, g
  <2>4. QED
    BY <1>5, <1>6, <1>8, <2>1, <2>2, <2>3
<1>12. CASE CloseAggregated(e) \/ CloseIncomplete(e) \/ ClosePrinted(e)
  <2> DEFINE none == <<>>
             bad == {}
             before == PendingAfterEviction(pid, PendingNow(e))
             pending == IF Adaptive THEN Release(before + 1, Len(EventsNow(e)) + 1)
                                    ELSE pendingEvents
  <2>1. Store(e, none, none, bad, pending) /\ Remembers(e)
    BY <1>12 DEF CloseAggregated, CloseIncomplete, ClosePrinted, Appends, Cleared
  <2>2. none \in Seq(CallEvent) /\ Len(none) = 0
    OBVIOUS
  <2> HIDE DEF none, bad
  <2>3. Adaptive => pending = Elsewhere(e) + Len(none) /\ pending <= MaxPending
    <3> SUFFICES ASSUME Adaptive
                 PROVE  pending = Elsewhere(e) + Len(none) /\ pending <= MaxPending
      OBVIOUS
    <3> HIDE DEF before
    <3>1. /\ Elsewhere(e) \in Nat /\ Len(EventsNow(e)) \in Nat
          /\ before = Elsewhere(e) + Len(EventsNow(e))
          /\ Elsewhere(e) + Len(EventsNow(e)) + 1 <= MaxPending
      <4> HIDE DEF pending
      <4> QED BY <1>7, <1>8, <2>1, <2>2 DEF before
    <3>2. \A r, n \in Nat : Release((r + n) + 1, n + 1) = r
      BY DEF Release
    <3>3. pending = Elsewhere(e)
      BY <3>1, <3>2
    <3> HIDE DEF pending
    <3>4. QED
      BY <1>0, <2>2, <3>1, <3>3
  <2> HIDE DEF pending, g
  <2>4. QED
    BY <1>5, <1>6, <1>8, <2>1, <2>2, <2>3
<1>13. QED
  BY <1>2, <1>3, <1>4, <1>9, <1>10, <1>11, <1>12 DEF Handle

\* PrintRemaining leaves the budget alone.
LEMMA PrintRemainingKeepsBudget ==
    ASSUME BudgetInv, cfg' = cfg, PrintRemaining
    PROVE  PendingExact' /\ MemoryBounded'
<1>1. /\ Adaptive' = Adaptive /\ pids' = pids /\ suppressed' = suppressed /\ Known' = Known
  BY DEF PrintRemaining, Adaptive, Known
<1>2. CASE Aggregate
  <2>1. goEvents' = [g \in Goroutines |-> <<>>]
    BY <1>2 DEF PrintRemaining
  <2>2. MemoryBounded'
    BY <1>1, <2>1 DEF BudgetInv, MemoryBounded
  <2>3. Cardinality(Retained(Goroutines))' = 0
    <3>1. \A h \in Goroutines : goEvents'[h] = <<>>
      BY <2>1
    <3>2. Retained(Goroutines)' = Held(goEvents', Goroutines)
      BY DEF Retained, Held
    <3>3. QED
      BY <3>1, <3>2, HeldNothing
  <2>4. Adaptive => pendingEvents' = 0
    <3> SUFFICES ASSUME Adaptive PROVE pendingEvents' = 0
      OBVIOUS
    <3>1. Retained(Unfinished) = Retained(Goroutines)
      <4>1. Unfinished \subseteq Goroutines
        BY DEF Unfinished
      <4>2. \A h \in Goroutines \ Unfinished : {h} \X (1 .. Len(goEvents[h])) = {}
        BY DEF Unfinished
      <4>3. QED
        BY <4>1, <4>2 DEF Retained
    <3>2. pendingEvents = Cardinality(Retained(Unfinished)) /\ pendingEvents \in Nat
      BY <3>1 DEF BudgetInv, PendingExact, ManagerTypeOK
    <3>3. pendingEvents' = Release(pendingEvents, pendingEvents)
      BY <1>2, <3>2 DEF PrintRemaining
    <3>4. QED
      BY <3>2, <3>3 DEF Release
  <2>5. 0 <= MaxPending
    BY ManagerAssumption
  <2>6. QED
    BY <1>1, <2>2, <2>3, <2>4, <2>5 DEF PendingExact
<1>3. CASE ~Aggregate
  <2>1. goEvents' = goEvents /\ pendingEvents' = pendingEvents
    BY <1>3 DEF PrintRemaining, stackVars
  <2>2. Retained(Goroutines)' = Retained(Goroutines)
    BY <2>1 DEF Retained
  <2>3. QED
    BY <1>1, <2>1, <2>2 DEF BudgetInv, PendingExact, MemoryBounded
<1>4. QED
  BY <1>2, <1>3

\* Nothing is retained at the start.
LEMMA BudgetStarts == ManagerInit => BudgetInv
<1> SUFFICES ASSUME ManagerInit PROVE BudgetInv
  OBVIOUS
<1>1. MaxPending \in Nat /\ MaxPids \in Nat /\ MaxSuppressed \in Nat
  BY ManagerAssumption
<1>2. Cardinality(Retained(Goroutines)) = 0
  <2>1. \A h \in Goroutines : goEvents[h] = <<>>
    BY DEF ManagerInit
  <2>2. Retained(Goroutines) = Held(goEvents, Goroutines)
    BY DEF Retained, Held
  <2>3. QED
    BY <2>1, <2>2, HeldNothing
<1>3. PendingExact
  BY <1>1, <1>2 DEF ManagerInit, PendingExact
<1>4. MemoryBounded
  <2>1. Len(pids) = 0 /\ \A g \in Goroutines : goEvents[g] = <<>>
    BY DEF ManagerInit
  <2>2. Cardinality(suppressed) = 0
    BY FS_EmptySet DEF ManagerInit
  <2>3. QED
    BY <1>1, <2>1, <2>2 DEF MemoryBounded
<1>5. QED
  BY <1>3, <1>4, ManagerTypeStarts DEF BudgetInv

\* BudgetInv is inductive.
LEMMA BudgetKept == BudgetInv /\ [ManagerNext]_<<cfg, managerVars>> => BudgetInv'
<1> SUFFICES ASSUME BudgetInv, [ManagerNext]_<<cfg, managerVars>> PROVE BudgetInv'
  OBVIOUS
<1>0. ManagerTypeOK'
  BY ManagerTypeKept DEF BudgetInv
<1>1. CASE UNCHANGED <<cfg, managerVars>>
  BY <1>0, <1>1 DEF managerVars, stackVars, BudgetInv, PendingExact, MemoryBounded, Retained,
     Known, Adaptive
<1>2. ASSUME cfg' = cfg, PrintRemaining PROVE BudgetInv'
  BY <1>0, <1>2, PrintRemainingKeepsBudget DEF BudgetInv
<1>3. ASSUME cfg' = cfg, NEW e \in Event, Handle(e) PROVE BudgetInv'
  BY <1>0, <1>3, HandleKeepsBudget DEF BudgetInv
<1>4. QED
  BY <1>1, <1>2, <1>3 DEF ManagerNext

\* pendingEvents, which dropStack, pidState and Add update, each in its own way, is at every
\* moment the number of events retained, and never exceeds the budget, however samples
\* are closed, restarted, dropped, aborted or evicted with their process.
THEOREM PendingCorrect == ManagerSpec => []PendingExact
<1>1. BudgetInv => PendingExact
  BY DEF BudgetInv
<1>2. QED
  BY <1>1, BudgetStarts, BudgetKept, PTL DEF ManagerSpec

\* The limits on process states and on suppressed goroutines hold, and no event outlives
\* the state of its process.
THEOREM MemoryCorrect == ManagerSpec => []MemoryBounded
<1>1. BudgetInv => MemoryBounded
  BY DEF BudgetInv
<1>2. QED
  BY <1>1, BudgetStarts, BudgetKept, PTL DEF ManagerSpec

-----------------------------------------------------------------------------
(* The observed stack. *)

\* The entries that are open, as the observed stack records them.
Ips(open) == [i \in 1 .. Len(open) |-> open[i].ip]

\* The part of ObservedStackConsistent about one goroutine's events and stack.
Agrees(events, stack) ==
    AggregateStack(events).ok /\ stack = Ips(AggregateStack(events).open)

\* The functions of the open entries, position by position,
LEMMA IpsFacts ==
    ASSUME NEW open \in Seq(CallEvent)
    PROVE  /\ Len(Ips(open)) = Len(open) /\ Ips(open) \in Seq(Functions)
           /\ \A i \in 1 .. Len(open) : Ips(open)[i] = open[i].ip
           /\ Ips(open) = <<>> <=> open = <<>>
<1>1. \A i \in 1 .. Len(open) : open[i] \in CallEvent /\ open[i].ip \in Functions
  BY EventFields DEF CallEvent
<1>2. Len(open) \in Nat
  OBVIOUS
<1>3. Ips(open) \in Seq(Functions) /\ Len(Ips(open)) = Len(open)
  BY <1>1, <1>2 DEF Ips
<1>4. open = <<>> <=> Len(open) = 0
  BY EmptySeqFacts
<1>5. Ips(open) = <<>> <=> Len(Ips(open)) = 0
  BY <1>3, EmptySeqFacts
<1>6. QED
  BY <1>3, <1>4, <1>5 DEF Ips

\* as an entry is pushed,
LEMMA IpsAppend ==
    ASSUME NEW open \in Seq(CallEvent), NEW e \in CallEvent
    PROVE  Ips(Append(open, e)) = Append(Ips(open), e.ip)
<1>1. /\ Append(open, e) \in Seq(CallEvent) /\ Len(Append(open, e)) = Len(open) + 1
      /\ Len(open) \in Nat /\ Append(open, e)[Len(open) + 1] = e
      /\ \A i \in 1 .. Len(open) : Append(open, e)[i] = open[i]
  BY AppendFacts
<1>2. /\ Ips(open) \in Seq(Functions) /\ Len(Ips(open)) = Len(open)
      /\ \A i \in 1 .. Len(open) : Ips(open)[i] = open[i].ip
  BY IpsFacts
<1>3. e.ip \in Functions
  BY EventFields DEF CallEvent
<1>4. /\ Append(Ips(open), e.ip) \in Seq(Functions)
      /\ Len(Append(Ips(open), e.ip)) = Len(open) + 1
      /\ Append(Ips(open), e.ip)[Len(open) + 1] = e.ip
      /\ \A i \in 1 .. Len(open) : Append(Ips(open), e.ip)[i] = open[i].ip
  BY <1>2, <1>3, AppendFacts
<1>5. /\ Ips(Append(open, e)) \in Seq(Functions)
      /\ Len(Ips(Append(open, e))) = Len(open) + 1
      /\ \A i \in 1 .. Len(open) + 1 : Ips(Append(open, e))[i] = Append(open, e)[i].ip
  BY <1>1, IpsFacts
<1> DEFINE p == Ips(Append(open, e))
           q == Append(Ips(open), e.ip)
<1>6. \A i \in 1 .. Len(open) + 1 : p[i] = q[i]
  BY <1>1, <1>4, <1>5
<1> HIDE DEF p, q
<1>7. QED
  BY <1>1, <1>4, <1>5, <1>6 DEF p, q

\* and as one is popped.
LEMMA IpsDrop ==
    ASSUME NEW open \in Seq(CallEvent), open # <<>>
    PROVE  Ips(Drop(open)) = Drop(Ips(open)) /\ LIFO(Ips(open)) = LIFO(open).ip
<1>1. /\ Drop(open) \in Seq(CallEvent) /\ Len(Drop(open)) = Len(open) - 1
      /\ \A i \in 1 .. Len(open) - 1 : Drop(open)[i] = open[i]
      /\ LIFO(open) = open[Len(open)]
  BY LastFacts
<1>2. /\ Ips(open) \in Seq(Functions) /\ Len(Ips(open)) = Len(open) /\ Ips(open) # <<>>
      /\ \A i \in 1 .. Len(open) : Ips(open)[i] = open[i].ip
  BY IpsFacts
<1>3. /\ Drop(Ips(open)) \in Seq(Functions) /\ Len(Drop(Ips(open))) = Len(open) - 1
      /\ \A i \in 1 .. Len(open) - 1 : Drop(Ips(open))[i] = Ips(open)[i]
      /\ LIFO(Ips(open)) = Ips(open)[Len(open)]
  BY <1>2, LastFacts
<1>4. /\ Ips(Drop(open)) \in Seq(Functions) /\ Len(Ips(Drop(open))) = Len(open) - 1
      /\ \A i \in 1 .. Len(open) - 1 : Ips(Drop(open))[i] = Drop(open)[i].ip
  BY <1>1, IpsFacts
<1>5. Len(open) \in Nat \ {0}
  BY EmptySeqFacts
<1> DEFINE p == Ips(Drop(open))
           q == Drop(Ips(open))
<1>6. \A i \in 1 .. Len(open) - 1 : p[i] = q[i]
  BY <1>1, <1>2, <1>3, <1>4, <1>5
<1>7. p = q
  <2> HIDE DEF p, q
  <2> QED BY <1>3, <1>4, <1>5, <1>6 DEF p, q
<1>8. LIFO(Ips(open)) = LIFO(open).ip
  BY <1>1, <1>2, <1>3, <1>5
<1>9. QED
  BY <1>7, <1>8

\* No events leave no stack.
LEMMA NothingAgrees == Agrees(<<>>, <<>>)
<1>1. AggregateStack(<<>>) = AggregateStart
  BY AggregateNothing
<1>2. Ips(<<>>) = <<>>
  BY DEF Ips
<1>3. QED
  BY <1>1, <1>2 DEF Agrees, AggregateStart

\* Events of the same function and kind have the same effect on what is open.
LEMMA SameStep ==
    ASSUME NEW a \in AggregateAcc, NEW e \in CallEvent, NEW d \in CallEvent,
           d.location = e.location, d.ip = e.ip
    PROVE  /\ AggregateStep(a, d).ok = AggregateStep(a, e).ok
           /\ Ips(AggregateStep(a, d).open) = Ips(AggregateStep(a, e).open)
<1>1. a.open \in Seq(CallEvent)
  BY DEF AggregateAcc
<1>2. CASE ~a.ok
  BY <1>2, AggregateStepDoes
<1>3. CASE a.ok /\ e.location = ENT
  <2>1. /\ AggregateStep(a, e) = [open |-> Append(a.open, e), ok |-> a.ok, pairs |-> a.pairs]
        /\ AggregateStep(a, d) = [open |-> Append(a.open, d), ok |-> a.ok, pairs |-> a.pairs]
    BY <1>3, AggregateStepDoes
  <2>2. Ips(Append(a.open, e)) = Append(Ips(a.open), e.ip)
    BY <1>1, IpsAppend
  <2>3. Ips(Append(a.open, d)) = Append(Ips(a.open), e.ip)
    BY <1>1, IpsAppend
  <2>4. /\ AggregateStep(a, e).ok = a.ok /\ AggregateStep(a, e).open = Append(a.open, e)
        /\ AggregateStep(a, d).ok = a.ok /\ AggregateStep(a, d).open = Append(a.open, d)
    BY <2>1
  <2>5. QED
    BY <2>2, <2>3, <2>4
<1>4. CASE a.ok /\ e.location # ENT /\ (a.open = <<>> \/ LIFO(a.open).ip # e.ip)
  BY <1>4, AggregateStepDoes
<1>5. CASE a.ok /\ e.location # ENT /\ ~(a.open = <<>> \/ LIFO(a.open).ip # e.ip)
  <2>1. AggregateStep(a, e) = [open |-> Drop(a.open), ok |-> a.ok,
                               pairs |-> Append(a.pairs, Pair(LIFO(a.open), e))]
    BY <1>5, AggregateStepDoes
  <2>2. AggregateStep(a, d) = [open |-> Drop(a.open), ok |-> a.ok,
                               pairs |-> Append(a.pairs, Pair(LIFO(a.open), d))]
    BY <1>5, AggregateStepDoes
  <2>3. QED
    BY <2>1, <2>2
<1>6. QED
  BY <1>2, <1>3, <1>4, <1>5

\* updateObservedStack pairs as AggregateStack will.
LEMMA RetainedAgree ==
    ASSUME ManagerTypeOK, Aggregate, NEW e \in CallEvent, ~Mismatch(e),
           Agrees(EventsNow(e), StackNow(e))
    PROVE  Agrees(Append(EventsNow(e), e), ObservedStack(e))
<1> DEFINE a == AggregateStack(EventsNow(e))
<1>1. /\ EventsNow(e) \in Seq(CallEvent) /\ e.location \in {ENT, RET}
  BY NowType DEF CallEvent, Event, EventRecord
<1>2. a \in AggregateAcc /\ AggregateStack(Append(EventsNow(e), e)) = AggregateStep(a, e)
  BY <1>1, AggregateAppends
<1>3. a.ok /\ StackNow(e) = Ips(a.open)
  BY DEF Agrees
<1> HIDE DEF a
<1>4. a.open \in Seq(CallEvent)
  BY <1>2 DEF AggregateAcc
<1>5. CASE e.location = ENT
  <2>1. AggregateStep(a, e) = [open |-> Append(a.open, e), ok |-> a.ok, pairs |-> a.pairs]
    BY <1>2, <1>3, <1>5, AggregateStepDoes
  <2>2. Ips(Append(a.open, e)) = Append(Ips(a.open), e.ip)
    BY <1>4, IpsAppend
  <2>3. ObservedStack(e) = Append(StackNow(e), e.ip)
    BY <1>5 DEF ObservedStack
  <2>4. QED
    BY <1>2, <1>3, <2>1, <2>2, <2>3 DEF Agrees
<1>6. CASE e.location # ENT
  <2>1. e.location = RET /\ StackNow(e) # <<>> /\ LIFO(StackNow(e)) = e.ip
    BY <1>1, <1>6 DEF Mismatch
  <2>2. a.open # <<>>
    BY <1>3, <1>4, <2>1, IpsFacts
  <2>3. Ips(Drop(a.open)) = Drop(Ips(a.open)) /\ LIFO(Ips(a.open)) = LIFO(a.open).ip
    BY <1>4, <2>2, IpsDrop
  <2>4. LIFO(a.open).ip = e.ip
    BY <1>3, <2>1, <2>3
  <2>5. AggregateStep(a, e) = [open |-> Drop(a.open), ok |-> a.ok,
                               pairs |-> Append(a.pairs, Pair(LIFO(a.open), e))]
    BY <1>2, <1>3, <1>6, <2>2, <2>4, AggregateStepDoes
  <2>6. ObservedStack(e) = Drop(StackNow(e))
    BY <1>6, <2>1 DEF ObservedStack
  <2>7. QED
    BY <1>2, <1>3, <2>3, <2>5, <2>6 DEF Agrees
<1>7. QED
  BY <1>5, <1>6

\* Replacing the last event by a restart of the same function changes nothing of that.
LEMMA ReplacedAgree ==
    ASSUME ManagerTypeOK, NEW e \in CallEvent, IsDuplicate(e),
           Agrees(EventsNow(e), StackNow(e))
    PROVE  Agrees(Append(Drop(EventsNow(e)), e), StackNow(e))
<1> DEFINE q == EventsNow(e)
           d == LIFO(q)
           r == Drop(q)
<1>1. /\ q \in Seq(CallEvent) /\ q # <<>> /\ d.location = e.location /\ d.ip = e.ip
  BY NowType DEF IsDuplicate
<1>2. /\ d \in CallEvent /\ r \in Seq(CallEvent) /\ Len(r) = Len(q) - 1 /\ d = q[Len(q)]
      /\ \A i \in 1 .. Len(q) - 1 : r[i] = q[i]
      /\ Len(q) \in Nat \ {0}
  BY <1>1, LastFacts, EmptySeqFacts
<1> HIDE DEF q, d, r
<1>3. q = Append(r, d)
  <2>1. /\ Append(r, d) \in Seq(CallEvent) /\ Len(Append(r, d)) = Len(r) + 1
        /\ Append(r, d)[Len(r) + 1] = d
        /\ \A i \in 1 .. Len(r) : Append(r, d)[i] = r[i]
    BY <1>2, AppendFacts
  <2>2. \A i \in 1 .. Len(q) : Append(r, d)[i] = q[i]
    BY <1>2, <2>1
  <2>3. QED
    BY <1>1, <1>2, <2>1, <2>2
<1>4. /\ AggregateStack(r) \in AggregateAcc
      /\ AggregateStack(q) = AggregateStep(AggregateStack(r), d)
  BY <1>2, <1>3, AggregateAppends
<1>5. AggregateStack(Append(r, e)) = AggregateStep(AggregateStack(r), e)
  BY <1>2, AggregateAppends
<1>6. /\ AggregateStack(q).ok = AggregateStack(Append(r, e)).ok
      /\ Ips(AggregateStack(q).open) = Ips(AggregateStack(Append(r, e)).open)
  BY <1>1, <1>2, <1>4, <1>5, SameStep
<1>7. QED
  BY <1>6 DEF Agrees, q, r

\* ObservedStackConsistent, goroutine by goroutine.
StackAgrees == Aggregate => \A g \in Goroutines \ invalid : Agrees(goEvents[g], goEventStack[g])

\* StackAgrees is the property the runs check, under another name.
LEMMA StackAgreesIsConsistent == StackAgrees <=> ObservedStackConsistent
BY DEF StackAgrees, Agrees, Ips, ObservedStackConsistent

\* Inductive as it stands, with the types.
StackInv == ManagerTypeOK /\ StackAgrees

\* A dropped stack has no events and no observed stack.
LEMMA DropStackAgrees ==
    ASSUME StackInv, cfg' = cfg, NEW g \in Goroutines, DropStack(g)
    PROVE  StackAgrees'
<1>1. Aggregate' = Aggregate
  BY DEF Aggregate
<1>2. /\ goEvents'[g] = <<>> /\ goEventStack'[g] = <<>> /\ invalid' = invalid \ {g}
      /\ \A h \in Goroutines \ {g} :
            goEvents'[h] = goEvents[h] /\ goEventStack'[h] = goEventStack[h]
  BY DEF DropStack, StackInv, ManagerTypeOK
<1>3. ASSUME Aggregate, NEW h \in Goroutines \ invalid' PROVE Agrees(goEvents'[h], goEventStack'[h])
  <2>1. CASE h = g
    BY <1>2, <2>1, NothingAgrees
  <2>2. CASE h # g
    <3>1. /\ goEvents'[h] = goEvents[h] /\ goEventStack'[h] = goEventStack[h]
          /\ h \in Goroutines \ invalid
      BY <1>2, <1>3, <2>2
    <3>2. Agrees(goEvents[h], goEventStack[h])
      BY <1>3, <3>1 DEF StackInv, StackAgrees
    <3>3. QED
      BY <3>1, <3>2
  <2>3. QED
    BY <2>1, <2>2
<1>4. QED
  BY <1>1, <1>3 DEF StackAgrees, Agrees

\* A sample found stale was dropped; one that was not is as it was.
LEMMA NowAgrees ==
    ASSUME StackInv, Aggregate, NEW e \in CallEvent, e.goid \notin InvalidNow(e)
    PROVE  Agrees(EventsNow(e), StackNow(e))
<1>1. e.goid \in Goroutines
  BY NowType DEF StackInv
<1>2. CASE Stale(e)
  BY <1>2, NothingAgrees DEF EventsNow, StackNow
<1>3. CASE ~Stale(e)
  <2>1. Agrees(goEvents[e.goid], goEventStack[e.goid])
    BY <1>1, <1>3 DEF StackInv, StackAgrees, InvalidNow
  <2>2. QED
    BY <1>3, <2>1 DEF EventsNow, StackNow
<1>4. QED
  BY <1>2, <1>3

\* What is stored for the event's goroutine must agree; evicted goroutines hold nothing.
LEMMA StoreAgrees ==
    ASSUME StackInv, cfg' = cfg, NEW e \in CallEvent, NEW events, NEW stack,
           NEW bad, bad \subseteq {e.goid}, NEW pending, Store(e, events, stack, bad, pending),
           Aggregate /\ e.goid \notin bad => Agrees(events, stack)
    PROVE  StackAgrees'
<1> DEFINE g == e.goid
           gone == EvictedGoroutines(PidOf[g])
<1>1. Aggregate' = Aggregate /\ g \in Goroutines
  BY NowType DEF Aggregate, StackInv
<1>2. /\ goEvents' = [h \in Goroutines |-> IF h = g THEN events
                                           ELSE IF h \in gone THEN <<>> ELSE goEvents[h]]
      /\ goEventStack' = [h \in Goroutines |-> IF h = g THEN stack
                                               ELSE IF h \in gone THEN <<>> ELSE goEventStack[h]]
      /\ invalid' = ((InvalidNow(e) \ {g}) \ gone) \cup bad
  BY DEF Store
<1>3. InvalidNow(e) = invalid \/ InvalidNow(e) = invalid \ {g}
  BY DEF InvalidNow
<1>4. ASSUME Aggregate, NEW h \in Goroutines \ invalid' PROVE Agrees(goEvents'[h], goEventStack'[h])
  <2>1. CASE h = g
    <3>1. goEvents'[h] = events /\ goEventStack'[h] = stack /\ g \notin bad
      BY <1>1, <1>2, <1>4, <2>1
    <3>2. QED
      BY <1>4, <3>1
  <2>2. CASE h # g /\ h \in gone
    <3>1. goEvents'[h] = <<>> /\ goEventStack'[h] = <<>>
      BY <1>2, <1>4, <2>2
    <3>2. QED
      BY <3>1, NothingAgrees
  <2>3. CASE h # g /\ h \notin gone
    <3>1. /\ goEvents'[h] = goEvents[h] /\ goEventStack'[h] = goEventStack[h]
          /\ h \in Goroutines \ invalid
      BY <1>2, <1>3, <1>4, <2>3
    <3>2. Agrees(goEvents[h], goEventStack[h])
      BY <1>4, <3>1 DEF StackInv, StackAgrees
    <3>3. QED
      BY <3>1, <3>2
  <2>4. QED
    BY <2>1, <2>2, <2>3
<1>5. QED
  BY <1>1, <1>4 DEF StackAgrees, Agrees

\* Every outcome of Handle.
LEMMA HandleAgrees ==
    ASSUME StackInv, cfg' = cfg, NEW e \in Event, Handle(e)
    PROVE  StackAgrees'
<1> DEFINE g == e.goid
<1>0. /\ g \in Goroutines /\ Aggregate' = Aggregate
      /\ e.location # EXIT => e \in CallEvent
  BY EventFields DEF Aggregate
<1>1. ASSUME Remembers(e) PROVE e \in CallEvent
  BY <1>0, <1>1 DEF Remembers, Admissible, Ordinary
<1>2. CASE HandleExit(e) \/ HandleAbort(e) \/ OverBudget(e)
  BY <1>0, <1>2, DropStackAgrees DEF HandleExit, HandleAbort, OverBudget
<1>3. CASE Suppressed(e)
  BY <1>0, <1>3 DEF Suppressed, stackVars, StackInv, StackAgrees
<1>4. CASE Orphan(e)
  <2> DEFINE bad == InvalidNow(e) \cap {g}
             none == <<>>
             pending == PendingAfterEviction(PidOf[g], PendingNow(e))
  <2>1. e \in CallEvent /\ Store(e, none, StackNow(e), bad, pending) /\ EventsNow(e) = none
    BY <1>1, <1>4 DEF Orphan, IsOrphan
  <2>2. Aggregate /\ g \notin bad => Agrees(none, StackNow(e))
    BY <2>1, NowAgrees
  <2>3. bad \subseteq {g}
    OBVIOUS
  <2> HIDE DEF bad, none, pending
  <2>4. QED
    BY <2>1, <2>2, <2>3, StoreAgrees
<1>5. CASE DuplicateEntry(e)
  <2> DEFINE bad == InvalidNow(e) \cap {g}
             replaced == Append(Drop(EventsNow(e)), e)
             pending == PendingAfterEviction(PidOf[g], PendingNow(e))
  <2>1. e \in CallEvent /\ Store(e, replaced, StackNow(e), bad, pending) /\ IsDuplicate(e)
    BY <1>1, <1>5 DEF DuplicateEntry
  <2>2. Aggregate /\ g \notin bad => Agrees(replaced, StackNow(e))
    BY <2>1, NowAgrees, ReplacedAgree DEF StackInv
  <2>3. bad \subseteq {g}
    OBVIOUS
  <2> HIDE DEF bad, replaced, pending
  <2>4. QED
    BY <2>1, <2>2, <2>3, StoreAgrees
<1>6. CASE Retain(e)
  <2> DEFINE bad == InvalidAfter(e)
             all == Append(EventsNow(e), e)
             pending == PendingAfterEviction(PidOf[g], PendingNow(e)) + (IF Adaptive THEN 1 ELSE 0)
  <2>1. e \in CallEvent /\ Store(e, all, ObservedStack(e), bad, pending)
    BY <1>1, <1>6 DEF Retain, Appends
  <2>2. Aggregate /\ g \notin bad => Agrees(all, ObservedStack(e))
    <3> SUFFICES ASSUME Aggregate, g \notin bad PROVE Agrees(all, ObservedStack(e))
      OBVIOUS
    <3>1. ~Mismatch(e) /\ g \notin InvalidNow(e)
      BY DEF InvalidAfter
    <3>2. QED
      BY <2>1, <3>1, NowAgrees, RetainedAgree DEF StackInv
  <2>3. bad \subseteq {g}
    BY DEF InvalidAfter
  <2> HIDE DEF bad, all, pending
  <2>4. QED
    BY <2>1, <2>2, <2>3, StoreAgrees
<1>7. CASE CloseAggregated(e) \/ CloseIncomplete(e) \/ ClosePrinted(e)
  <2> DEFINE bad == {}
             none == <<>>
             pending == IF Adaptive
                          THEN Release(PendingAfterEviction(PidOf[g], PendingNow(e)) + 1,
                                       Len(EventsNow(e)) + 1)
                          ELSE pendingEvents
  <2>1. e \in CallEvent /\ Store(e, none, none, bad, pending)
    BY <1>1, <1>7 DEF CloseAggregated, CloseIncomplete, ClosePrinted, Appends, Cleared
  <2>2. Agrees(none, none) /\ bad \subseteq {g}
    BY NothingAgrees
  <2> HIDE DEF bad, none, pending
  <2>3. QED
    BY <2>1, <2>2, StoreAgrees
<1>8. QED
  BY <1>2, <1>3, <1>4, <1>5, <1>6, <1>7 DEF Handle

\* PrintRemaining leaves the stacks alone.
LEMMA PrintRemainingAgrees ==
    ASSUME StackInv, cfg' = cfg, PrintRemaining
    PROVE  StackAgrees'
<1>1. Aggregate' = Aggregate
  BY DEF Aggregate
<1>2. CASE Aggregate
  <2>1. /\ goEvents' = [g \in Goroutines |-> <<>>]
        /\ goEventStack' = [g \in Goroutines |-> IF g \in Unfinished THEN <<>> ELSE goEventStack[g]]
        /\ invalid' = invalid \ Unfinished
    BY <1>2 DEF PrintRemaining
  <2>2. ASSUME NEW h \in Goroutines \ invalid' PROVE Agrees(goEvents'[h], goEventStack'[h])
    <3>1. CASE h \in Unfinished
      <4>1. goEvents'[h] = <<>> /\ goEventStack'[h] = <<>>
        BY <2>1, <2>2, <3>1
      <4>2. QED
        BY <4>1, NothingAgrees
    <3>2. CASE h \notin Unfinished
      <4>1. /\ goEvents'[h] = goEvents[h] /\ goEventStack'[h] = goEventStack[h]
            /\ h \in Goroutines \ invalid
        BY <2>1, <2>2, <3>2 DEF Unfinished
      <4>2. Agrees(goEvents[h], goEventStack[h])
        BY <1>2, <4>1 DEF StackInv, StackAgrees
      <4>3. QED
        BY <4>1, <4>2
    <3>3. QED
      BY <3>1, <3>2
  <2>3. QED
    BY <1>1, <2>2 DEF StackAgrees, Agrees
<1>3. CASE ~Aggregate
  BY <1>1, <1>3 DEF StackAgrees
<1>4. QED
  BY <1>2, <1>3

\* No stack is observed at the start.
LEMMA StackStarts == ManagerInit => StackInv
<1> SUFFICES ASSUME ManagerInit PROVE StackAgrees
  BY ManagerTypeStarts DEF StackInv
<1>1. \A g \in Goroutines : goEvents[g] = <<>> /\ goEventStack[g] = <<>>
  BY DEF ManagerInit
<1>2. QED
  BY <1>1, NothingAgrees DEF StackAgrees

\* StackInv is inductive.
LEMMA StackKept == StackInv /\ [ManagerNext]_<<cfg, managerVars>> => StackInv'
<1> SUFFICES ASSUME StackInv, [ManagerNext]_<<cfg, managerVars>> PROVE StackInv'
  OBVIOUS
<1>0. ManagerTypeOK'
  BY ManagerTypeKept DEF StackInv
<1>1. CASE UNCHANGED <<cfg, managerVars>>
  BY <1>0, <1>1 DEF managerVars, stackVars, StackInv, StackAgrees, Agrees, Aggregate
<1>2. ASSUME cfg' = cfg, PrintRemaining PROVE StackInv'
  BY <1>0, <1>2, PrintRemainingAgrees DEF StackInv
<1>3. ASSUME cfg' = cfg, NEW e \in Event, Handle(e) PROVE StackInv'
  BY <1>0, <1>3, HandleAgrees DEF StackInv
<1>4. QED
  BY <1>1, <1>2, <1>3 DEF ManagerNext

\* updateObservedStack and AggregateStack pair alike: while no mismatch is noted for a
\* goroutine, AggregateStack would pair what is retained for it, and the observed stack
\* is exactly the entries it would leave open.
THEOREM ObservedStackCorrect == ManagerSpec => []ObservedStackConsistent
<1>1. StackInv => ObservedStackConsistent
  BY StackAgreesIsConsistent DEF StackInv
<1>2. QED
  BY <1>1, StackStarts, StackKept, PTL DEF ManagerSpec

\* What Handle hands to AggregateStack pairs up without a remainder.
AggregatedPairUp ==
    \A e \in Event :
        CloseAggregated(e) =>
            LET paired == AggregateStack(Append(EventsNow(e), e))
            IN  paired.ok /\ paired.open = <<>>

\* A stack that CloseStack trusts is aggregated completely: AggregateStack neither gives
\* up on it nor leaves an entry of it without a return.
THEOREM AggregatedPairUpCorrect == ManagerSpec => [][AggregatedPairUp]_<<cfg, managerVars>>
<1>1. StackInv => AggregatedPairUp
  <2> SUFFICES ASSUME StackInv, NEW e \in Event, CloseAggregated(e)
               PROVE  /\ AggregateStack(Append(EventsNow(e), e)).ok
                      /\ AggregateStack(Append(EventsNow(e), e)).open = <<>>
    BY DEF AggregatedPairUp
  <2>1. e \in CallEvent /\ Aggregate /\ InvalidAfter(e) = {} /\ ObservedStack(e) = <<>>
    BY EventFields DEF CloseAggregated, Trusted, Appends, Remembers, Admissible, Ordinary
  <2>2. ~Mismatch(e) /\ e.goid \notin InvalidNow(e)
    BY <2>1 DEF InvalidAfter
  <2>3. Agrees(Append(EventsNow(e), e), <<>>)
    BY <2>1, <2>2, NowAgrees, RetainedAgree DEF StackInv
  <2>4. AggregateStack(Append(EventsNow(e), e)) \in AggregateAcc
    <3>1. EventsNow(e) \in Seq(CallEvent)
      BY <2>1, NowType DEF StackInv
    <3>2. Append(EventsNow(e), e) \in Seq(CallEvent)
      BY <2>1, <3>1, AppendFacts
    <3>3. QED
      BY <2>1, <3>2, AggregateAppends
  <2>5. AggregateStack(Append(EventsNow(e), e)).open \in Seq(CallEvent)
    BY <2>4 DEF AggregateAcc
  <2>6. QED
    BY <2>3, <2>5, IpsFacts DEF Agrees
<1>2. QED
  BY <1>1, StackStarts, StackKept, PTL DEF ManagerSpec

-----------------------------------------------------------------------------
(* Suppressed goroutines. *)

\* Only sampling suppresses, and goEvents has an entry for every goroutine.
SuppressedInv ==
    /\ suppressed \subseteq Goroutines
    /\ ~Adaptive => suppressed = {}
    /\ goEvents = [g \in Goroutines |-> goEvents[g]]
    /\ SuppressedHoldNothing

\* dropStack empties its goroutine and touches no other.
LEMMA DropStackEmpties ==
    ASSUME SuppressedInv, NEW g \in Goroutines, DropStack(g)
    PROVE  /\ goEvents' = [h \in Goroutines |-> goEvents'[h]]
           /\ goEvents'[g] = <<>>
           /\ \A h \in Goroutines \ {g} : goEvents'[h] = goEvents[h]
BY DEF SuppressedInv, DropStack

\* What Add stores, it stores for a goroutine that is not suppressed any more; the
\* goroutines of an evicted process lose their events and their marks.
LEMMA StoreKeeps ==
    ASSUME SuppressedInv, cfg' = cfg, NEW e \in Event, NEW events, NEW stack, NEW bad, NEW pending,
           Store(e, events, stack, bad, pending)
    PROVE  SuppressedInv'
<1>1. e.goid \in Goroutines /\ Adaptive' = Adaptive
  BY EventFields DEF Adaptive
<1>2. e.goid \notin suppressed' /\ suppressed' \subseteq suppressed
  BY DEF Store, SuppressedNow, SuppressedInv
<1>3. goEvents' = [g \in Goroutines |-> goEvents'[g]]
  BY DEF Store
<1>4. \A g \in suppressed' : goEvents'[g] = <<>>
  <2> TAKE g \in suppressed'
  <2>1. g \in Goroutines /\ g # e.goid /\ goEvents[g] = <<>>
    BY <1>2 DEF SuppressedInv, SuppressedHoldNothing
  <2>2. QED
    BY <2>1 DEF Store
<1>5. QED
  BY <1>1, <1>2, <1>3, <1>4 DEF SuppressedInv, SuppressedHoldNothing

\* Every outcome of Handle.
LEMMA HandleKeeps ==
    ASSUME SuppressedInv, cfg' = cfg, NEW e \in Event, Handle(e)
    PROVE  SuppressedInv'
<1> DEFINE g == e.goid
<1>0. g \in Goroutines /\ Adaptive' = Adaptive
  BY EventFields DEF Adaptive
<1>1. ASSUME DropStack(g), suppressed' \subseteq suppressed
      PROVE  SuppressedInv'
  BY <1>0, <1>1, DropStackEmpties DEF SuppressedInv, SuppressedHoldNothing
<1>2. CASE HandleExit(e)
  BY <1>1, <1>2 DEF HandleExit
<1>3. CASE HandleAbort(e)
  BY <1>1, <1>3 DEF HandleAbort
<1>4. CASE Suppressed(e)
  <2>1. goEvents' = goEvents /\ suppressed' \subseteq suppressed
    BY <1>4 DEF Suppressed, stackVars
  <2>2. QED
    BY <1>0, <2>1 DEF SuppressedInv, SuppressedHoldNothing
<1>5. CASE OverBudget(e)
  <2>1. DropStack(g) /\ Adaptive /\ suppressed' \subseteq suppressed \cup {g}
    BY <1>5 DEF OverBudget, OverBudgetNow, SuppressedNow
  <2>2. \A h \in suppressed' : goEvents'[h] = <<>>
    BY <1>0, <2>1, DropStackEmpties DEF SuppressedInv, SuppressedHoldNothing
  <2>3. QED
    BY <1>0, <2>1, <2>2, DropStackEmpties DEF SuppressedInv, SuppressedHoldNothing
<1>6. CASE Orphan(e)
  BY <1>6, StoreKeeps DEF Orphan
<1>7. CASE DuplicateEntry(e)
  BY <1>7, StoreKeeps DEF DuplicateEntry
<1>8. CASE Retain(e)
  BY <1>8, StoreKeeps DEF Retain
<1>9. CASE CloseAggregated(e) \/ CloseIncomplete(e) \/ ClosePrinted(e)
  BY <1>9, StoreKeeps DEF CloseAggregated, CloseIncomplete, ClosePrinted, Cleared
<1>10. QED
  BY <1>2, <1>3, <1>4, <1>5, <1>6, <1>7, <1>8, <1>9 DEF Handle

\* Nothing is suppressed at the start, and nothing is retained of what is suppressed later.
LEMMA SuppressedStarts == cfg \in Configs /\ ManagerInit => SuppressedInv
BY DEF ManagerInit, SuppressedInv, SuppressedHoldNothing

\* No step of the manager retains an event of a suppressed goroutine.
LEMMA SuppressedStays ==
    ASSUME SuppressedInv, [ManagerNext]_<<cfg, managerVars>>
    PROVE  SuppressedInv'
<1>1. CASE UNCHANGED <<cfg, managerVars>>
  BY <1>1 DEF managerVars, stackVars, SuppressedInv, SuppressedHoldNothing, Adaptive
<1>2. ASSUME cfg' = cfg, PrintRemaining PROVE SuppressedInv'
  <2>1. suppressed' = suppressed /\ Adaptive' = Adaptive
    BY <1>2 DEF PrintRemaining, Adaptive
  <2>2. goEvents' = goEvents \/ goEvents' = [g \in Goroutines |-> <<>>]
    BY <1>2 DEF PrintRemaining, stackVars
  <2>3. QED
    BY <2>1, <2>2 DEF SuppressedInv, SuppressedHoldNothing
<1>3. ASSUME cfg' = cfg, NEW e \in Event, Handle(e) PROVE SuppressedInv'
  BY <1>3, HandleKeeps
<1>4. QED
  BY <1>1, <1>2, <1>3 DEF ManagerNext

\* A suppressed goroutine holds none of the event budget: its sample was dropped, and
\* nothing of the rest of it is retained.
THEOREM SuppressedCorrect == ManagerSpec => []SuppressedHoldNothing
<1>1. SuppressedInv /\ [ManagerNext]_<<cfg, managerVars>> => SuppressedInv'
  BY SuppressedStays
<1>2. SuppressedInv => SuppressedHoldNothing
  BY DEF SuppressedInv
<1>3. QED
  BY <1>1, <1>2, SuppressedStarts, PTL DEF ManagerSpec

-----------------------------------------------------------------------------
(* What a pairing makes of events in order of time. *)

\* Events of g in order of time.
Ordered(q, g) ==
    \A i \in 1 .. Len(q) : /\ q[i].goid = g
                           /\ \A j \in 1 .. i - 1 : q[j].time < q[i].time

\* No latency is negative, and calls of one goroutine share neither entry nor return.
Distinct(calls) ==
    \A i, j \in 1 .. Len(calls) :
        /\ calls[i].start < calls[i].end
        /\ (calls[i].goid = calls[j].goid
              /\ (calls[i].start = calls[j].start \/ calls[i].end = calls[j].end)) => i = j

\* Calls of g that lie above the times L and below the times U.
Within(calls, g, L, U) ==
    \A i \in 1 .. Len(calls) :
        /\ calls[i].goid = g
        /\ \A x \in L : x < calls[i].start
        /\ \A u \in U : calls[i].end < u

\* One step of either pairing: nothing, an entry that is pushed, or a return that
\* takes the innermost entry.
PairingStep(open, pairs, e, opened, paired) ==
    \/ opened = open /\ paired = pairs
    \/ opened = Append(open, e) /\ paired = pairs
    \/ /\ open # <<>>
       /\ opened = Drop(open)
       /\ paired = Append(pairs, Pair(LIFO(open), e))

\* aggregateStack is such a pairing,
LEMMA AggregatePairs ==
    ASSUME NEW a \in AggregateAcc, NEW e \in CallEvent
    PROVE  PairingStep(a.open, a.pairs, e, AggregateStep(a, e).open, AggregateStep(a, e).pairs)
<1>1. CASE ~a.ok
  BY <1>1, AggregateStepDoes DEF PairingStep
<1>2. CASE a.ok /\ e.location = ENT
  <2>1. AggregateStep(a, e) = [open |-> Append(a.open, e), ok |-> a.ok, pairs |-> a.pairs]
    BY <1>2, AggregateStepDoes
  <2>2. QED
    BY <2>1 DEF PairingStep
<1>3. CASE a.ok /\ e.location # ENT /\ (a.open = <<>> \/ LIFO(a.open).ip # e.ip)
  <2>1. AggregateStep(a, e) = [open |-> a.open, ok |-> FALSE, pairs |-> a.pairs]
    BY <1>3, AggregateStepDoes
  <2>2. QED
    BY <2>1 DEF PairingStep
<1>4. CASE a.ok /\ e.location # ENT /\ ~(a.open = <<>> \/ LIFO(a.open).ip # e.ip)
  <2>1. AggregateStep(a, e) = [open |-> Drop(a.open), ok |-> a.ok,
                               pairs |-> Append(a.pairs, Pair(LIFO(a.open), e))]
    BY <1>4, AggregateStepDoes
  <2>2. QED
    BY <1>4, <2>1 DEF PairingStep
<1>5. QED
  BY <1>1, <1>2, <1>3, <1>4 DEF AggregateAcc

\* and so is PrintStack.
LEMMA PrintPairs ==
    ASSUME NEW a \in PrintAcc, NEW e \in CallEvent
    PROVE  PairingStep(a.open, a.pairs, e, PrintStep(a, e).open, PrintStep(a, e).pairs)
<1>1. CASE e.location = ENT
  <2>1. PrintStep(a, e) = [open |-> Append(a.open, e), pairs |-> a.pairs]
    BY <1>1 DEF PrintStep, PrintAcc
  <2>2. QED
    BY <2>1 DEF PairingStep
<1>2. CASE e.location # ENT /\ a.open = <<>>
  BY <1>2 DEF PrintStep, PairingStep
<1>3. CASE e.location # ENT /\ a.open # <<>>
  <2>1. PrintStep(a, e) = [open |-> Drop(a.open),
                           pairs |-> Append(a.pairs, Pair(LIFO(a.open), e))]
    BY <1>3 DEF PrintStep, PrintAcc
  <2>2. QED
    BY <1>3, <2>1 DEF PairingStep
<1>4. QED
  BY <1>1, <1>2, <1>3

\* The open entries are in order, above L and below U, and none is paired yet.
OpenWithin(open, pairs, g, L, U) ==
    /\ Ordered(open, g)
    /\ \A i \in 1 .. Len(open) :
          /\ \A x \in L : x < open[i].time
          /\ \A u \in U : open[i].time < u
          /\ \A k \in 1 .. Len(pairs) : pairs[k].start # open[i].time

Clean(open, pairs, g, L, U) ==
    Distinct(pairs) /\ Within(pairs, g, L, U) /\ OpenWithin(open, pairs, g, L, U)

\* The call that a return makes of the innermost entry.
LEMMA PairFields ==
    ASSUME NEW entry \in CallEvent, NEW ret \in CallEvent
    PROVE  /\ Pair(entry, ret).goid = ret.goid
           /\ Pair(entry, ret).start = entry.time /\ Pair(entry, ret).end = ret.time
           /\ entry.time \in Nat /\ ret.time \in Nat
BY EventFields DEF Pair, CallEvent

\* The times of a call are numbers.
LEMMA CallFields ==
    ASSUME NEW S \in SUBSET PairedCall, NEW calls \in Seq(S), NEW i \in 1 .. Len(calls)
    PROVE  calls[i] \in PairedCall /\ calls[i].start \in Nat /\ calls[i].end \in Nat
<1>1. calls[i] \in S
  OBVIOUS
<1>2. QED
  BY <1>1 DEF PairedCall

\* Order is kept by a later event,
LEMMA OrderedAppends ==
    ASSUME NEW q \in Seq(CallEvent), NEW g, NEW e \in CallEvent, Ordered(q, g), e.goid = g,
           \A i \in 1 .. Len(q) : q[i].time < e.time
    PROVE  Ordered(Append(q, e), g)
<1> DEFINE r == Append(q, e)
<1>1. /\ Len(q) \in Nat /\ Len(r) = Len(q) + 1
      /\ \A i \in 1 .. Len(q) : r[i] = q[i]
      /\ r[Len(q) + 1] = e
  BY AppendFacts
<1> HIDE DEF r
<1>2. ASSUME NEW i \in 1 .. Len(r)
      PROVE  r[i].goid = g /\ \A j \in 1 .. i - 1 : r[j].time < r[i].time
  <2>1. CASE i = Len(q) + 1
    <3>1. r[i] = e /\ \A j \in 1 .. i - 1 : j \in 1 .. Len(q) /\ r[j] = q[j]
      BY <1>1, <2>1
    <3>2. QED
      BY <3>1
  <2>2. CASE i # Len(q) + 1
    <3>1. i \in 1 .. Len(q) /\ r[i] = q[i]
      BY <1>1, <2>2
    <3>2. \A j \in 1 .. i - 1 : j \in 1 .. Len(q) /\ r[j] = q[j]
      BY <1>1, <3>1
    <3>3. QED
      BY <3>1, <3>2 DEF Ordered
  <2>3. QED
    BY <2>1, <2>2
<1>3. QED
  BY <1>2 DEF Ordered, r

\* and by dropping the last one, which is later than the rest.
LEMMA OrderedDrops ==
    ASSUME NEW q \in Seq(CallEvent), NEW g, Ordered(q, g), q # <<>>
    PROVE  /\ Ordered(Drop(q), g)
           /\ \A i \in 1 .. Len(Drop(q)) : Drop(q)[i].time < LIFO(q).time
<1> DEFINE r == Drop(q)
<1>1. /\ Len(q) \in Nat \ {0} /\ Len(r) = Len(q) - 1 /\ LIFO(q) = q[Len(q)]
      /\ \A i \in 1 .. Len(r) : r[i] = q[i]
  BY LastFacts, EmptySeqFacts
<1> HIDE DEF r
<1>2. ASSUME NEW i \in 1 .. Len(r)
      PROVE  /\ r[i].goid = g /\ r[i].time < LIFO(q).time
             /\ \A j \in 1 .. i - 1 : r[j].time < r[i].time
  <2>1. i \in 1 .. Len(q) /\ i \in 1 .. Len(q) - 1 /\ Len(q) \in 1 .. Len(q) /\ r[i] = q[i]
    BY <1>1
  <2>2. \A j \in 1 .. i - 1 : r[j] = q[j]
    BY <1>1, <2>1
  <2>3. QED
    BY <1>1, <2>1, <2>2 DEF Ordered
<1>3. QED
  BY <1>2 DEF Ordered, r

\* A call is added whose times are new.
LEMMA DistinctAppends ==
    ASSUME NEW calls \in Seq(PairedCall), NEW c \in PairedCall, Distinct(calls), c.start < c.end,
           \A i \in 1 .. Len(calls) :
               calls[i].goid = c.goid => calls[i].start # c.start /\ calls[i].end # c.end
    PROVE  Distinct(Append(calls, c))
<1> DEFINE r == Append(calls, c)
<1>1. /\ Len(calls) \in Nat /\ Len(r) = Len(calls) + 1
      /\ \A i \in 1 .. Len(calls) : r[i] = calls[i]
      /\ r[Len(calls) + 1] = c
  BY AppendFacts
<1> HIDE DEF r
<1>2. ASSUME NEW i \in 1 .. Len(r), NEW j \in 1 .. Len(r)
      PROVE  /\ r[i].start < r[i].end
             /\ (r[i].goid = r[j].goid
                   /\ (r[i].start = r[j].start \/ r[i].end = r[j].end)) => i = j
  <2>1. i \in 1 .. Len(calls) \/ i = Len(calls) + 1
    BY <1>1
  <2>2. j \in 1 .. Len(calls) \/ j = Len(calls) + 1
    BY <1>1
  <2>3. QED
    BY <1>1, <2>1, <2>2 DEF Distinct
<1>3. QED
  BY <1>2 DEF Distinct, r

\* Calls stay within the same bounds as one more call within them is added.
LEMMA WithinAppends ==
    ASSUME NEW calls \in Seq(PairedCall), NEW c \in PairedCall, NEW g, NEW L, NEW U,
           Within(calls, g, L, U), c.goid = g,
           \A x \in L : x < c.start, \A u \in U : c.end < u
    PROVE  Within(Append(calls, c), g, L, U)
<1> DEFINE r == Append(calls, c)
<1>1. /\ Len(calls) \in Nat /\ Len(r) = Len(calls) + 1
      /\ \A i \in 1 .. Len(calls) : r[i] = calls[i]
      /\ r[Len(calls) + 1] = c
  BY AppendFacts
<1> HIDE DEF r
<1>2. ASSUME NEW i \in 1 .. Len(r)
      PROVE  /\ r[i].goid = g
             /\ \A x \in L : x < r[i].start
             /\ \A u \in U : r[i].end < u
  <2>1. i \in 1 .. Len(calls) \/ i = Len(calls) + 1
    BY <1>1
  <2>2. QED
    BY <1>1, <2>1 DEF Within
<1>3. QED
  BY <1>2 DEF Within, r

\* One event more, later than all before it.
LEMMA CleanStep ==
    ASSUME NEW open \in Seq(CallEvent), NEW pairs \in Seq(PairedCall), NEW e \in CallEvent,
           NEW g, NEW L, NEW U, NEW V, NEW opened, NEW paired,
           Clean(open, pairs, g, L, U), PairingStep(open, pairs, e, opened, paired),
           e.goid = g, e.time \in U, V \subseteq U,
           \A x \in L : x < e.time, \A v \in V : e.time < v
    PROVE  Clean(opened, paired, g, L, V)
<1>1. Distinct(pairs) /\ Within(pairs, g, L, V) /\ OpenWithin(open, pairs, g, L, V)
  BY DEF Clean, Within, OpenWithin
<1>2. /\ \A i \in 1 .. Len(open) : open[i] \in CallEvent /\ open[i].time < e.time
      /\ \A k \in 1 .. Len(pairs) : pairs[k].end < e.time
      /\ \A k \in 1 .. Len(pairs) : pairs[k].start < pairs[k].end
      /\ \A k \in 1 .. Len(pairs) : pairs[k].start \in Nat /\ pairs[k].end \in Nat
      /\ e.time \in Nat
  <2>1. \A k \in 1 .. Len(pairs) : pairs[k].start \in Nat /\ pairs[k].end \in Nat
    BY CallFields
  <2>2. e.time \in Nat
    BY EventFields DEF CallEvent
  <2>3. \A i \in 1 .. Len(open) : open[i] \in CallEvent /\ open[i].time < e.time
    BY DEF Clean, OpenWithin
  <2>4. \A k \in 1 .. Len(pairs) : pairs[k].end < e.time /\ pairs[k].start < pairs[k].end
    BY DEF Clean, Within, Distinct
  <2>5. QED
    BY <2>1, <2>2, <2>3, <2>4
<1>3. CASE opened = open /\ paired = pairs
  BY <1>1, <1>3 DEF Clean
<1>4. CASE opened = Append(open, e) /\ paired = pairs
  <2>1. Ordered(opened, g)
    BY <1>1, <1>2, <1>4, OrderedAppends DEF OpenWithin
  <2>2. /\ Len(open) \in Nat /\ Len(opened) = Len(open) + 1
        /\ \A i \in 1 .. Len(open) : opened[i] = open[i]
        /\ opened[Len(open) + 1] = e
    BY <1>4, AppendFacts
  <2>3. ASSUME NEW i \in 1 .. Len(opened)
        PROVE  /\ \A x \in L : x < opened[i].time
               /\ \A u \in V : opened[i].time < u
               /\ \A k \in 1 .. Len(pairs) : pairs[k].start # opened[i].time
    <3>1. CASE i = Len(open) + 1
      <4>1. opened[i] = e
        BY <2>2, <3>1
      <4>2. \A k \in 1 .. Len(pairs) : pairs[k].start # e.time
        BY <1>2
      <4>3. QED
        BY <4>1, <4>2
    <3>2. CASE i # Len(open) + 1
      BY <1>1, <2>2, <3>2 DEF OpenWithin
    <3>3. QED
      BY <3>1, <3>2
  <2>4. QED
    BY <1>1, <1>4, <2>1, <2>3 DEF Clean, OpenWithin
<1>5. CASE /\ open # <<>>
           /\ opened = Drop(open)
           /\ paired = Append(pairs, Pair(LIFO(open), e))
  <2> DEFINE entry == LIFO(open)
             c == Pair(entry, e)
  <2>1. /\ entry \in CallEvent /\ entry = open[Len(open)] /\ Len(open) \in 1 .. Len(open)
        /\ Len(opened) = Len(open) - 1
        /\ \A i \in 1 .. Len(opened) : i \in 1 .. Len(open) /\ opened[i] = open[i]
    <3>1. /\ LIFO(open) \in CallEvent /\ LIFO(open) = open[Len(open)]
          /\ Len(Drop(open)) = Len(open) - 1
          /\ \A i \in 1 .. Len(open) - 1 : Drop(open)[i] = open[i]
      BY <1>5, LastFacts
    <3>2. Len(open) \in Nat \ {0} /\ opened = Drop(open)
      BY <1>5, EmptySeqFacts
    <3>3. QED
      BY <3>1, <3>2
  <2>2. Ordered(opened, g) /\ \A i \in 1 .. Len(opened) : opened[i].time < entry.time
    BY <1>1, <1>5, OrderedDrops DEF OpenWithin
  <2>3. /\ c \in PairedCall /\ c.goid = g /\ c.start = entry.time /\ c.end = e.time
        /\ entry.time \in Nat
    <3> HIDE DEF entry
    <3> QED BY <2>1, PairType, PairFields
  <2>4. /\ entry.time < e.time
        /\ \A x \in L : x < entry.time
        /\ \A k \in 1 .. Len(pairs) : pairs[k].start # entry.time
    BY <1>1, <1>2, <2>1 DEF OpenWithin
  <2> HIDE DEF c, entry
  <2>5. Distinct(Append(pairs, c))
    <3>1. \A k \in 1 .. Len(pairs) : pairs[k].start # c.start /\ pairs[k].end # c.end
      BY <1>2, <2>3, <2>4
    <3>2. c.start < c.end
      BY <2>3, <2>4
    <3>3. QED
      BY <1>1, <2>3, <3>1, <3>2, DistinctAppends
  <2>6. Within(Append(pairs, c), g, L, V)
    BY <1>1, <2>3, <2>4, WithinAppends
  <2>7. /\ Len(pairs) \in Nat /\ Len(Append(pairs, c)) = Len(pairs) + 1
        /\ \A k \in 1 .. Len(pairs) : Append(pairs, c)[k] = pairs[k]
        /\ Append(pairs, c)[Len(pairs) + 1] = c
    BY <2>3, AppendFacts
  <2> DEFINE longer == Append(pairs, c)
  <2> HIDE DEF longer
  <2>8. OpenWithin(opened, longer, g, L, V)
    <3>1. ASSUME NEW i \in 1 .. Len(opened), NEW k \in 1 .. Len(longer)
          PROVE  longer[k].start # opened[i].time
      <4>1. CASE k = Len(pairs) + 1
        <5>1. longer[k].start = entry.time
          BY <2>3, <2>7, <4>1 DEF longer
        <5>2. opened[i].time < entry.time /\ opened[i] \in CallEvent /\ opened[i].time \in Nat
          BY <1>2, <2>1, <2>2, EventFields DEF CallEvent
        <5>3. QED
          BY <2>3, <5>1, <5>2
      <4>2. CASE k # Len(pairs) + 1
        <5>1. k \in 1 .. Len(pairs) /\ longer[k] = pairs[k]
          BY <2>7, <4>2 DEF longer
        <5>2. QED
          BY <1>1, <2>1, <5>1 DEF OpenWithin
      <4>3. QED
        BY <4>1, <4>2
    <3>2. QED
      BY <1>1, <2>1, <2>2, <3>1 DEF OpenWithin
  <2>9. QED
    BY <1>5, <2>5, <2>6, <2>8 DEF Clean, c, entry, longer
<1>6. QED
  BY <1>3, <1>4, <1>5 DEF PairingStep

\* The times that are still to come after the first n events of q.
Rest(q, n, U) == {q[i].time : i \in n + 1 .. Len(q)} \cup U

\* A run of either pairing over events of g in order of time, above L and below U, is
\* clean all along.
LEMMA RunIsClean ==
    ASSUME NEW q \in Seq(CallEvent), NEW g, NEW L, NEW U, NEW open, NEW pairs,
           Ordered(q, g),
           \A i \in 1 .. Len(q) : (\A x \in L : x < q[i].time) /\ (\A u \in U : q[i].time < u),
           open[0] = <<>>, pairs[0] = <<>>,
           \A n \in 0 .. Len(q) : open[n] \in Seq(CallEvent) /\ pairs[n] \in Seq(PairedCall),
           \A n \in 1 .. Len(q) :
               PairingStep(open[n - 1], pairs[n - 1], q[n], open[n], pairs[n])
    PROVE  Distinct(pairs[Len(q)]) /\ Within(pairs[Len(q)], g, L, U)
<1> DEFINE N == Len(q)
           D == {n \in Nat : n <= N => Clean(open[n], pairs[n], g, L, Rest(q, n, U))}
<1>0. N \in Nat
  OBVIOUS
<1>1. 0 \in D
  <2>1. Len(<<>>) = 0
    OBVIOUS
  <2>2. Clean(<<>>, <<>>, g, L, Rest(q, 0, U))
    BY <2>1 DEF Clean, Distinct, Within, OpenWithin, Ordered
  <2>3. QED
    BY <2>2
<1>2. ASSUME NEW n \in Nat, n \in D PROVE n + 1 \in D
  <2> SUFFICES ASSUME n + 1 <= N
               PROVE  Clean(open[n + 1], pairs[n + 1], g, L, Rest(q, n + 1, U))
    OBVIOUS
  <2>1. /\ n \in 0 .. N /\ n + 1 \in 1 .. N /\ (n + 1) - 1 = n
        /\ Clean(open[n], pairs[n], g, L, Rest(q, n, U))
    BY <1>0, <1>2
  <2> DEFINE e == q[n + 1]
  <2>2. /\ e \in CallEvent /\ e.goid = g
        /\ \A x \in L : x < e.time
        /\ open[n] \in Seq(CallEvent) /\ pairs[n] \in Seq(PairedCall)
        /\ PairingStep(open[n], pairs[n], e, open[n + 1], pairs[n + 1])
    BY <2>1 DEF Ordered
  <2>3. e.time \in Rest(q, n, U) /\ Rest(q, n + 1, U) \subseteq Rest(q, n, U)
    BY <1>0, <2>1 DEF Rest
  <2>4. ASSUME NEW u \in Rest(q, n + 1, U) PROVE e.time < u
    <3>1. CASE u \in U
      BY <2>1, <3>1
    <3>2. ASSUME NEW i \in (n + 1) + 1 .. N, u = q[i].time PROVE e.time < u
      <4>1. i \in 1 .. Len(q) /\ n + 1 \in 1 .. i - 1
        BY <1>0, <2>1
      <4>2. QED
        BY <3>2, <4>1 DEF Ordered
    <3>3. QED
      BY <3>1, <3>2 DEF Rest
  <2> DEFINE o == open[n]
             p == pairs[n]
             opened == open[n + 1]
             paired == pairs[n + 1]
             before == Rest(q, n, U)
             after == Rest(q, n + 1, U)
  <2>5. /\ o \in Seq(CallEvent) /\ p \in Seq(PairedCall) /\ Clean(o, p, g, L, before)
        /\ PairingStep(o, p, e, opened, paired) /\ e.time \in before /\ after \subseteq before
        /\ \A v \in after : e.time < v
    BY <2>1, <2>2, <2>3, <2>4
  <2> HIDE DEF e, o, p, opened, paired, before, after
  <2>6. Clean(opened, paired, g, L, after)
    BY <2>2, <2>5, CleanStep
  <2>7. QED
    BY <2>6 DEF opened, paired, after
<1> HIDE DEF D
<1>3. Nat \subseteq D
  BY <1>1, <1>2, NatSetInduction
<1>4. Clean(open[N], pairs[N], g, L, Rest(q, N, U))
  BY <1>0, <1>3 DEF D
<1>5. U \subseteq Rest(q, N, U)
  BY DEF Rest
<1>6. QED
  BY <1>4, <1>5 DEF Clean, Within

\* AggregateStack and PrintStack make distinct calls of events of g in order of time, with
\* the times of these events.
LEMMA PairedInOrder ==
    ASSUME NEW q \in Seq(CallEvent), NEW g, NEW L, NEW U,
           Ordered(q, g),
           \A i \in 1 .. Len(q) : (\A x \in L : x < q[i].time) /\ (\A u \in U : q[i].time < u)
    PROVE  /\ AggregateStack(q).pairs \in Seq(PairedCall) /\ PrintStack(q).pairs \in Seq(PairedCall)
           /\ Distinct(AggregateStack(q).pairs) /\ Within(AggregateStack(q).pairs, g, L, U)
           /\ Distinct(PrintStack(q).pairs) /\ Within(PrintStack(q).pairs, g, L, U)
<1>0. Len(q) \in Nat /\ \A n \in 1 .. Len(q) : n - 1 \in 0 .. Len(q) /\ n \in 0 .. Len(q) /\ q[n] \in CallEvent
  OBVIOUS
<1>1. /\ AggregateStack(q).pairs \in Seq(PairedCall)
      /\ Distinct(AggregateStack(q).pairs) /\ Within(AggregateStack(q).pairs, g, L, U)
  <2>1. PICK f : AggregateRun(f, q) /\ AggregateStack(q) = f[Len(q)]
    BY AggregateUnfolds
  <2>2. \A n \in 0 .. Len(q) : f[n] \in AggregateAcc
    BY <2>1 DEF AggregateRun
  <2> DEFINE open == [n \in 0 .. Len(q) |-> f[n].open]
             pairs == [n \in 0 .. Len(q) |-> f[n].pairs]
  <2>3. \A n \in 0 .. Len(q) : open[n] \in Seq(CallEvent) /\ pairs[n] \in Seq(PairedCall)
    BY <2>2 DEF AggregateAcc
  <2>4. open[0] = <<>> /\ pairs[0] = <<>>
    BY <1>0, <2>1 DEF AggregateRun, AggregateStart
  <2>5. ASSUME NEW n \in 1 .. Len(q)
        PROVE  PairingStep(open[n - 1], pairs[n - 1], q[n], open[n], pairs[n])
    <3>1. f[n] = AggregateStep(f[n - 1], q[n]) /\ f[n - 1] \in AggregateAcc
      BY <1>0, <2>1, <2>2 DEF AggregateRun
    <3>2. PairingStep(f[n - 1].open, f[n - 1].pairs, q[n], f[n].open, f[n].pairs)
      BY <1>0, <3>1, AggregatePairs
    <3>3. QED
      BY <1>0, <3>2
  <2>6. AggregateStack(q).pairs = pairs[Len(q)]
    BY <1>0, <2>1
  <2> HIDE DEF open, pairs
  <2>7. Distinct(pairs[Len(q)]) /\ Within(pairs[Len(q)], g, L, U)
    BY <2>3, <2>4, <2>5, RunIsClean
  <2>8. QED
    BY <1>0, <2>3, <2>6, <2>7
<1>2. /\ PrintStack(q).pairs \in Seq(PairedCall)
      /\ Distinct(PrintStack(q).pairs) /\ Within(PrintStack(q).pairs, g, L, U)
  <2>1. PICK f : PrintRun(f, q) /\ PrintStack(q) = f[Len(q)]
    BY PrintUnfolds
  <2>2. \A n \in 0 .. Len(q) : f[n] \in PrintAcc
    BY <2>1 DEF PrintRun
  <2> DEFINE open == [n \in 0 .. Len(q) |-> f[n].open]
             pairs == [n \in 0 .. Len(q) |-> f[n].pairs]
  <2>3. \A n \in 0 .. Len(q) : open[n] \in Seq(CallEvent) /\ pairs[n] \in Seq(PairedCall)
    BY <2>2 DEF PrintAcc
  <2>4. open[0] = <<>> /\ pairs[0] = <<>>
    BY <1>0, <2>1 DEF PrintRun, PrintStart
  <2>5. ASSUME NEW n \in 1 .. Len(q)
        PROVE  PairingStep(open[n - 1], pairs[n - 1], q[n], open[n], pairs[n])
    <3>1. f[n] = PrintStep(f[n - 1], q[n]) /\ f[n - 1] \in PrintAcc
      BY <1>0, <2>1, <2>2 DEF PrintRun
    <3>2. PairingStep(f[n - 1].open, f[n - 1].pairs, q[n], f[n].open, f[n].pairs)
      BY <1>0, <3>1, PrintPairs
    <3>3. QED
      BY <1>0, <3>2
  <2>6. PrintStack(q).pairs = pairs[Len(q)]
    BY <1>0, <2>1
  <2> HIDE DEF open, pairs
  <2>7. Distinct(pairs[Len(q)]) /\ Within(pairs[Len(q)], g, L, U)
    BY <2>3, <2>4, <2>5, RunIsClean
  <2>8. QED
    BY <1>0, <2>3, <2>6, <2>7
<1>3. QED
  BY <1>1, <1>2

\* Calls follow others: where both are of one goroutine, the new one starts later.
Follows(calls, more) ==
    \A i \in 1 .. Len(calls), j \in 1 .. Len(more) :
        calls[i].goid = more[j].goid => calls[i].end < more[j].start

\* Calls that follow distinct calls are distinct from them.
LEMMA DistinctConcat ==
    ASSUME NEW calls \in Seq(PairedCall), NEW more \in Seq(PairedCall),
           Distinct(calls), Distinct(more), Follows(calls, more)
    PROVE  Distinct(calls \o more)
<1> DEFINE r == calls \o more
<1>1. /\ Len(calls) \in Nat /\ Len(more) \in Nat /\ Len(r) = Len(calls) + Len(more)
      /\ \A i \in 1 .. Len(calls) : r[i] = calls[i]
      /\ \A i \in Len(calls) + 1 .. Len(r) : r[i] = more[i - Len(calls)]
  OBVIOUS
<1> HIDE DEF r
<1>2. ASSUME NEW i \in 1 .. Len(calls), NEW j \in 1 .. Len(more), calls[i].goid = more[j].goid
      PROVE  calls[i].start # more[j].start /\ calls[i].end # more[j].end
  <2>1. calls[i].end < more[j].start /\ more[j].start < more[j].end /\ calls[i].start < calls[i].end
    BY <1>2 DEF Follows, Distinct
  <2>2. /\ calls[i].start \in Nat /\ calls[i].end \in Nat
        /\ more[j].start \in Nat /\ more[j].end \in Nat
    BY CallFields
  <2>3. QED
    BY <2>1, <2>2
<1>3. ASSUME NEW i \in 1 .. Len(r), NEW j \in 1 .. Len(r)
      PROVE  /\ r[i].start < r[i].end
             /\ (r[i].goid = r[j].goid
                   /\ (r[i].start = r[j].start \/ r[i].end = r[j].end)) => i = j
  <2>1. CASE i \in 1 .. Len(calls) /\ j \in 1 .. Len(calls)
    BY <1>1, <2>1 DEF Distinct
  <2>2. CASE i \in 1 .. Len(calls) /\ j \notin 1 .. Len(calls)
    <3>1. j - Len(calls) \in 1 .. Len(more) /\ r[j] = more[j - Len(calls)] /\ r[i] = calls[i]
      BY <1>1, <2>2
    <3>2. QED
      BY <1>2, <2>2, <3>1 DEF Distinct
  <2>3. CASE i \notin 1 .. Len(calls) /\ j \in 1 .. Len(calls)
    <3>1. i - Len(calls) \in 1 .. Len(more) /\ r[i] = more[i - Len(calls)] /\ r[j] = calls[j]
      BY <1>1, <2>3
    <3>2. QED
      BY <1>2, <2>3, <3>1 DEF Distinct
  <2>4. CASE i \notin 1 .. Len(calls) /\ j \notin 1 .. Len(calls)
    <3>1. /\ i - Len(calls) \in 1 .. Len(more) /\ r[i] = more[i - Len(calls)]
          /\ j - Len(calls) \in 1 .. Len(more) /\ r[j] = more[j - Len(calls)]
      BY <1>1, <2>4
    <3>2. (r[i].goid = r[j].goid /\ (r[i].start = r[j].start \/ r[i].end = r[j].end))
             => i - Len(calls) = j - Len(calls)
      BY <3>1 DEF Distinct
    <3>3. r[i].start < r[i].end
      BY <3>1 DEF Distinct
    <3>4. QED
      BY <1>1, <3>2, <3>3
  <2>5. QED
    BY <2>1, <2>2, <2>3, <2>4
<1>4. QED
  BY <1>3 DEF Distinct, r

\* A member of a concatenation is a member of one of its parts.
LEMMA ConcatMembers ==
    ASSUME NEW S, NEW p \in Seq(S), NEW q \in Seq(S), NEW i \in 1 .. Len(p \o q)
    PROVE  \/ i \in 1 .. Len(p) /\ (p \o q)[i] = p[i]
           \/ i - Len(p) \in 1 .. Len(q) /\ (p \o q)[i] = q[i - Len(p)]
<1>1. /\ Len(p) \in Nat /\ Len(q) \in Nat /\ Len(p \o q) = Len(p) + Len(q)
      /\ \A k \in 1 .. Len(p) : (p \o q)[k] = p[k]
      /\ \A k \in Len(p) + 1 .. Len(p \o q) : (p \o q)[k] = q[k - Len(p)]
  OBVIOUS
<1>2. CASE i \in 1 .. Len(p)
  BY <1>1, <1>2
<1>3. CASE i \notin 1 .. Len(p)
  BY <1>1, <1>3
<1>4. QED
  BY <1>2, <1>3

-----------------------------------------------------------------------------
(* What an event does to what is retained and reported. *)

\* The reports are kept or, for an evicted process, lost.
ReportsKept(ps) == \A p \in ps : agg'[p] \in {<<>>, agg[p]}

\* A call event joins what is retained of its goroutine, or of its open sample, or takes
\* the place of the last one.
Joins(e) ==
    LET before == goEvents[e.goid]
    IN  \/ goEvents'[e.goid] = <<e>>
        \/ goEvents'[e.goid] = Append(before, e)
        \/ before # <<>> /\ goEvents'[e.goid] = Append(Drop(before), e)

\* The event closes a stack, and what is made of it is added to the reports.
Reports(e) ==
    LET all == Append(EventsNow(e), e)
        pid == PidOf[e.goid]
    IN  /\ goEvents'[e.goid] = <<>>
        /\ ReportsKept(Pids \ {pid})
        /\ \/ /\ Aggregate /\ printed' = printed
              /\ \E kept \in {<<>>, agg[pid]} :
                    agg'[pid] = kept \o AggregateStack(all).pairs
           \/ /\ ~Aggregate /\ printed' = printed \o PrintStack(all).pairs
              /\ ReportsKept({pid})

\* An eviction keeps what is aggregated for a process, or drops all of it.
LEMMA AggKeptKeeps ==
    ASSUME NEW pid, NEW p \in Pids
    PROVE  AggKept(pid)[p] \in {<<>>, agg[p]}
BY DEF AggKept

\* Store writes one stack; an eviction empties others.
LEMMA StoreLeaves ==
    ASSUME ManagerTypeOK, NEW e \in CallEvent, NEW events, NEW stack, NEW bad, NEW pending,
           Store(e, events, stack, bad, pending)
    PROVE  /\ goEvents'[e.goid] = events
           /\ \A h \in Goroutines \ {e.goid} : goEvents'[h] \in {<<>>, goEvents[h]}
<1>1. e.goid \in Goroutines
  BY NowType
<1>2. QED
  BY <1>1 DEF Store

\* DropStack empties one stack; an eviction empties others.
LEMMA DropStackLeaves ==
    ASSUME ManagerTypeOK, NEW g \in Goroutines, DropStack(g)
    PROVE  /\ goEvents'[g] = <<>>
           /\ \A h \in Goroutines \ {g} : goEvents'[h] \in {<<>>, goEvents[h]}
BY DEF DropStack, ManagerTypeOK

\* Every outcome of Handle.
LEMMA HandleDoes ==
    ASSUME ManagerTypeOK, NEW e \in Event, Handle(e)
    PROVE  /\ \A h \in Goroutines \ {e.goid} : goEvents'[h] \in {<<>>, goEvents[h]}
           /\ goEvents'[e.goid] \in {<<>>, goEvents[e.goid]} \/ (e \in CallEvent /\ Joins(e))
           /\ (ReportsKept(Pids) /\ printed' = printed) \/ (e \in CallEvent /\ Reports(e))
<1> DEFINE g == e.goid
           pid == PidOf[g]
<1>0. /\ g \in Goroutines /\ pid \in Pids
      /\ e.location # EXIT => e \in CallEvent
      /\ EventsNow(e) \in {<<>>, goEvents[g]}
  BY EventFields DEF EventsNow
<1>1. CASE HandleExit(e) \/ HandleAbort(e) \/ OverBudget(e)
  BY <1>0, <1>1, DropStackLeaves DEF HandleExit, HandleAbort, OverBudget, ReportsKept
<1>2. CASE Suppressed(e)
  BY <1>0, <1>2 DEF Suppressed, stackVars, ReportsKept
<1>3. CASE Orphan(e) \/ DuplicateEntry(e) \/ Retain(e)
  <2>1. e \in CallEvent
    BY <1>0, <1>3 DEF Orphan, DuplicateEntry, Retain, Remembers, Appends, Admissible, Ordinary
  <2>2. ReportsKept(Pids) /\ printed' = printed
    BY <1>3, AggKeptKeeps DEF Orphan, DuplicateEntry, Retain, ReportsKept
  <2>3. CASE Orphan(e)
    BY <2>1, <2>2, <2>3, StoreLeaves DEF Orphan
  <2>4. CASE DuplicateEntry(e)
    <3>1. EventsNow(e) = goEvents[g] /\ goEvents[g] # <<>>
      BY <1>0, <2>4 DEF DuplicateEntry, IsDuplicate
    <3>2. /\ goEvents'[g] = Append(Drop(EventsNow(e)), e)
          /\ \A h \in Goroutines \ {e.goid} : goEvents'[h] \in {<<>>, goEvents[h]}
      BY <2>1, <2>4, StoreLeaves DEF DuplicateEntry
    <3>3. Joins(e)
      BY <3>1, <3>2 DEF Joins
    <3>4. QED
      BY <2>1, <2>2, <3>2, <3>3
  <2>5. CASE Retain(e)
    <3>1. /\ goEvents'[g] = Append(EventsNow(e), e)
          /\ \A h \in Goroutines \ {e.goid} : goEvents'[h] \in {<<>>, goEvents[h]}
      BY <2>1, <2>5, StoreLeaves DEF Retain
    <3>2. Append(<<>>, e) = <<e>>
      OBVIOUS
    <3>3. Joins(e)
      BY <1>0, <3>1, <3>2 DEF Joins
    <3>4. QED
      BY <2>1, <2>2, <3>1, <3>3
  <2>6. QED
    BY <1>3, <2>3, <2>4, <2>5
<1>4. CASE CloseAggregated(e) \/ CloseIncomplete(e) \/ ClosePrinted(e)
  <2>1. e \in CallEvent /\ Cleared(e)
    BY <1>0, <1>4 DEF CloseAggregated, CloseIncomplete, ClosePrinted, Remembers, Appends,
       Admissible, Ordinary
  <2>2. /\ goEvents'[g] = <<>>
        /\ \A h \in Goroutines \ {e.goid} : goEvents'[h] \in {<<>>, goEvents[h]}
    BY <2>1, StoreLeaves DEF Cleared
  <2>3. CASE CloseIncomplete(e)
    BY <2>2, <2>3, AggKeptKeeps DEF CloseIncomplete, ReportsKept
  <2>4. CASE CloseAggregated(e)
    <3> DEFINE fresh == AggregateStack(Append(EventsNow(e), e)).pairs
               kept == AggKept(pid)
    <3>1. /\ agg' = [kept EXCEPT ![pid] = @ \o fresh] /\ printed' = printed /\ Aggregate
      BY <2>4 DEF CloseAggregated
    <3>2. kept = [p \in Pids |-> kept[p]] /\ \A p \in Pids : kept[p] \in {<<>>, agg[p]}
      BY AggKeptKeeps DEF AggKept
    <3> HIDE DEF fresh, kept, pid
    <3>3. agg'[pid] = kept[pid] \o fresh /\ \A p \in Pids \ {pid} : agg'[p] = kept[p]
      BY <1>0, <3>1, <3>2
    <3>4. kept[pid] \in {<<>>, agg[pid]} /\ ReportsKept(Pids \ {pid})
      BY <1>0, <3>2, <3>3 DEF ReportsKept
    <3>5. Reports(e)
      BY <2>2, <3>1, <3>3, <3>4 DEF Reports, fresh, pid
    <3>6. QED
      BY <2>1, <2>2, <3>5
  <2>5. CASE ClosePrinted(e)
    <3>1. ReportsKept(Pids)
      BY <2>5, AggKeptKeeps DEF ClosePrinted, ReportsKept
    <3>2. ReportsKept({pid}) /\ ReportsKept(Pids \ {pid})
      BY <1>0, <3>1 DEF ReportsKept
    <3>3. /\ ~Aggregate
          /\ printed' = printed \/ printed' = printed \o PrintStack(Append(EventsNow(e), e)).pairs
      BY <2>5 DEF ClosePrinted
    <3>4. printed' = printed \/ Reports(e)
      BY <2>2, <3>2, <3>3 DEF Reports
    <3>5. QED
      BY <2>1, <2>2, <3>1, <3>4
  <2>6. QED
    BY <1>4, <2>3, <2>4, <2>5
<1>5. QED
  BY <1>1, <1>2, <1>3, <1>4 DEF Handle

-----------------------------------------------------------------------------
(* The manager of one goroutine, replayed. *)

\* As the programs send them: a return has no base pointers.
Sent == {e \in Event : e.location = RET => e.bp = Zero /\ e.caller_bp = Zero}
SentCall == {e \in Sent : e.location # EXIT}

\* What Handle would hold of a goroutine had it room for everything: the open
\* entries and the calls that AggregateStack or PrintStack makes of the retained
\* events, the observed stack, whether it is invalid, and the last event.
Blank == [open |-> <<>>, pairs |-> {}, stack |-> <<>>, bad |-> FALSE, last |-> {}]

Replicas ==
    {s \in [open : Seq(CallEvent), pairs : SUBSET PairedCall, stack : Seq(Functions),
            bad : BOOLEAN, last : SUBSET SentCall] :
        s.last = {} => s = Blank}

\* What is retained, the observed stack and the mark of invalidity are those of s.
PairUp(events, open, pairs) ==
    IF Aggregate
      THEN LET a == AggregateStack(events)
           IN  a.ok /\ a.open = open /\ ToSet(a.pairs) = pairs
      ELSE LET a == PrintStack(events)
           IN  a.open = open /\ ToSet(a.pairs) = pairs

Depicts(events, stack, bad, s) ==
    /\ (s.bad <=> bad) /\ (bad => Aggregate) /\ s.stack = stack
    /\ s.last = IF events = <<>> THEN {} ELSE {LIFO(events)}
    /\ ~bad => PairUp(events, s.open, s.pairs) /\ stack = Ips(s.open)

Mirrors(g, s) == Depicts(goEvents[g], goEventStack[g], g \in invalid, s)

\* One event e of the goroutine, guard by guard as in Handle.
Leaves(e) == e.location = EXIT \/ (Adaptive /\ e.flag = ABORT)
Anew(s, e) == IF Adaptive /\ e.flag = START THEN Blank ELSE s

Skips(s, e) == s.last = {} /\ (e.location # ENT \/ (Adaptive /\ e.flag # START))
Repeats(s, e) ==
    \E d \in s.last : d.location = e.location /\ d.ip = e.ip /\ d.bp # e.caller_bp
Differs(s, e) == Aggregate /\ e.location = RET /\ (s.stack = <<>> \/ LIFO(s.stack) # e.ip)
StackAfter(s, e) ==
    CASE e.location = ENT -> Append(s.stack, e.ip)
      [] e.location # ENT /\ ~Differs(s, e) /\ s.stack # <<>> -> Drop(s.stack)
      [] OTHER -> s.stack
OpenAfter(s, e) ==
    CASE e.location = ENT -> Append(s.open, e)
      [] e.location # ENT /\ s.open # <<>> -> Drop(s.open)
      [] OTHER -> s.open
PairsAfter(s, e) ==
    IF e.location # ENT /\ s.open # <<>> THEN s.pairs \cup {Pair(LIFO(s.open), e)} ELSE s.pairs
Finishes(s, e) == IF Aggregate /\ Adaptive THEN e.flag = END ELSE StackAfter(s, e) = <<>>

Taken(s, e) ==
    CASE Skips(s, e) -> s
      [] ~Skips(s, e) /\ Repeats(s, e) ->
           [s EXCEPT !.open = Append(Drop(@), e), !.last = {e}]
      [] ~Skips(s, e) /\ ~Repeats(s, e) /\ Finishes(s, e) -> Blank
      [] OTHER -> [open |-> OpenAfter(s, e), pairs |-> PairsAfter(s, e),
                   stack |-> StackAfter(s, e), bad |-> s.bad \/ Differs(s, e), last |-> {e}]

\* What the goroutine g has after any event e, and the calls that it yields.
Replayed(g, s, e) ==
    CASE e.goid # g -> s
      [] e.goid = g /\ Leaves(e) -> Blank
      [] OTHER -> Taken(Anew(s, e), e)

Shown(s, e) ==
    IF /\ ~Skips(s, e) /\ ~Repeats(s, e) /\ Finishes(s, e)
       /\ Aggregate => ~s.bad /\ ~Differs(s, e) /\ StackAfter(s, e) = <<>>
      THEN PairsAfter(s, e) ELSE {}
Yield(g, s, e) == IF e.goid # g \/ Leaves(e) THEN {} ELSE Shown(Anew(s, e), e)

\* The calls that AggregateStack and PrintStack make of what is retained.
LEMMA PairUpNothing == PairUp(<<>>, <<>>, {})
<1>1. AggregateStack(<<>>) = AggregateStart
  BY AggregateNothing
<1>2. PrintStack(<<>>) = PrintStart
  <2>1. <<>> \in Seq(CallEvent) /\ Len(<<>>) = 0
    OBVIOUS
  <2>2. QED
    BY <2>1, PrintUnfolds DEF PrintRun
<1>3. ToSet(<<>>) = {}
  BY DEF ToSet
<1>4. QED
  BY <1>1, <1>2, <1>3 DEF PairUp, AggregateStart, PrintStart

\* Two runs of PrintStack that see the same events do the same.
LEMMA PrintRunsAgree ==
    ASSUME NEW q \in Seq(CallEvent), NEW r \in Seq(CallEvent), NEW f, NEW h, NEW N \in Nat,
           PrintRun(f, q), PrintRun(h, r), N <= Len(q), N <= Len(r),
           \A n \in 1 .. N : q[n] = r[n]
    PROVE  \A n \in 0 .. N : f[n] = h[n]
<1> DEFINE D == {n \in Nat : n <= N => f[n] = h[n]}
<1>0. Len(q) \in Nat /\ Len(r) \in Nat
  OBVIOUS
<1>1. 0 \in D
  BY DEF PrintRun
<1>2. ASSUME NEW n \in Nat, n \in D PROVE n + 1 \in D
  <2> SUFFICES ASSUME n + 1 <= N PROVE f[n + 1] = h[n + 1]
    OBVIOUS
  <2>1. /\ f[n] = h[n] /\ n + 1 \in 1 .. Len(q) /\ n + 1 \in 1 .. Len(r)
        /\ n + 1 \in 1 .. N /\ (n + 1) - 1 = n
    BY <1>0, <1>2
  <2>2. f[n + 1] = PrintStep(f[n], q[n + 1]) /\ h[n + 1] = PrintStep(h[n], r[n + 1])
    BY <2>1 DEF PrintRun
  <2>3. QED
    BY <2>1, <2>2
<1> HIDE DEF D
<1>3. Nat \subseteq D
  BY <1>1, <1>2, NatSetInduction
<1>4. QED
  BY <1>3 DEF D

\* PrintStack, too, goes on from what it made of the events before.
LEMMA PrintAppends ==
    ASSUME NEW q \in Seq(CallEvent), NEW e \in CallEvent
    PROVE  /\ PrintStack(q) \in PrintAcc
           /\ PrintStack(Append(q, e)) = PrintStep(PrintStack(q), e)
<1> DEFINE r == Append(q, e)
           N == Len(q)
<1>1. PICK f : PrintRun(f, q) /\ PrintStack(q) = f[Len(q)]
  BY PrintUnfolds
<1>2. /\ r \in Seq(CallEvent) /\ Len(r) = N + 1 /\ N \in Nat
      /\ \A i \in 1 .. N : r[i] = q[i]
      /\ r[N + 1] = e
  BY AppendFacts
<1> HIDE DEF r
<1>3. PICK h : PrintRun(h, r) /\ PrintStack(r) = h[Len(r)]
  BY <1>2, PrintUnfolds
<1>4. f[N] = h[N]
  <2>1. N <= Len(q) /\ N <= Len(r) /\ \A n \in 1 .. N : q[n] = r[n]
    BY <1>2
  <2> HIDE DEF N
  <2>2. \A n \in 0 .. N : f[n] = h[n]
    BY <1>1, <1>2, <1>3, <2>1, PrintRunsAgree
  <2>3. QED
    BY <1>2, <2>2
<1>5. h[N + 1] = PrintStep(h[N], e)
  <2>1. N + 1 \in 1 .. Len(r) /\ (N + 1) - 1 = N
    BY <1>2
  <2>2. QED
    BY <1>2, <1>3, <2>1 DEF PrintRun
<1>6. PrintStack(q) \in PrintAcc
  BY PrintStackType
<1>7. QED
  BY <1>1, <1>2, <1>3, <1>4, <1>5, <1>6 DEF r

\* One event more, where AggregateStack would not give up on it.
LEMMA PairUpAppends ==
    ASSUME NEW q \in Seq(CallEvent), NEW e \in CallEvent, NEW s \in Replicas,
           PairUp(q, s.open, s.pairs),
           Aggregate /\ e.location # ENT => s.open # <<>> /\ LIFO(s.open).ip = e.ip
    PROVE  PairUp(Append(q, e), OpenAfter(s, e), PairsAfter(s, e))
<1>1. CASE Aggregate
  <2> DEFINE a == AggregateStack(q)
  <2>1. a \in AggregateAcc /\ AggregateStack(Append(q, e)) = AggregateStep(a, e)
    BY AggregateAppends
  <2>2. a.ok /\ a.open = s.open /\ ToSet(a.pairs) = s.pairs
    BY <1>1 DEF PairUp
  <2> HIDE DEF a
  <2>3. a.open \in Seq(CallEvent) /\ a.pairs \in Seq(PairedCall)
    BY <2>1 DEF AggregateAcc
  <2>4. CASE e.location = ENT
    <3>1. AggregateStep(a, e) = [open |-> Append(a.open, e), ok |-> a.ok, pairs |-> a.pairs]
      BY <2>1, <2>2, <2>4, AggregateStepDoes
    <3>2. QED
      BY <1>1, <2>1, <2>2, <2>4, <3>1 DEF PairUp, OpenAfter, PairsAfter
  <2>5. CASE e.location # ENT
    <3>1. a.open # <<>> /\ LIFO(a.open).ip = e.ip
      BY <1>1, <2>2, <2>5
    <3>2. AggregateStep(a, e) = [open |-> Drop(a.open), ok |-> a.ok,
                                 pairs |-> Append(a.pairs, Pair(LIFO(a.open), e))]
      BY <2>1, <2>2, <2>5, <3>1, AggregateStepDoes
    <3>3. Pair(LIFO(a.open), e) \in PairedCall
      BY <2>3, <3>1, LastFacts, PairType
    <3>4. ToSet(Append(a.pairs, Pair(LIFO(a.open), e))) = ToSet(a.pairs) \cup {Pair(LIFO(a.open), e)}
      BY <2>3, <3>3, AppendSet
    <3>5. QED
      BY <1>1, <2>1, <2>2, <2>5, <3>1, <3>2, <3>4 DEF PairUp, OpenAfter, PairsAfter
  <2>6. QED
    BY <2>4, <2>5
<1>2. CASE ~Aggregate
  <2> DEFINE a == PrintStack(q)
  <2>1. a \in PrintAcc /\ PrintStack(Append(q, e)) = PrintStep(a, e)
    BY PrintAppends
  <2>2. a.open = s.open /\ ToSet(a.pairs) = s.pairs
    BY <1>2 DEF PairUp
  <2> HIDE DEF a
  <2>3. a.open \in Seq(CallEvent) /\ a.pairs \in Seq(PairedCall)
    BY <2>1 DEF PrintAcc
  <2>4. CASE e.location = ENT
    <3>1. PrintStep(a, e) = [open |-> Append(a.open, e), pairs |-> a.pairs]
      BY <2>1, <2>4 DEF PrintStep, PrintAcc
    <3>2. QED
      BY <1>2, <2>1, <2>2, <2>4, <3>1 DEF PairUp, OpenAfter, PairsAfter
  <2>5. CASE e.location # ENT /\ a.open # <<>>
    <3>1. PrintStep(a, e) = [open |-> Drop(a.open),
                             pairs |-> Append(a.pairs, Pair(LIFO(a.open), e))]
      BY <2>1, <2>5 DEF PrintStep, PrintAcc
    <3>2. Pair(LIFO(a.open), e) \in PairedCall
      BY <2>3, <2>5, LastFacts, PairType
    <3>3. ToSet(Append(a.pairs, Pair(LIFO(a.open), e))) = ToSet(a.pairs) \cup {Pair(LIFO(a.open), e)}
      BY <2>3, <3>2, AppendSet
    <3>4. QED
      BY <1>2, <2>1, <2>2, <2>5, <3>1, <3>3 DEF PairUp, OpenAfter, PairsAfter
  <2>6. CASE e.location # ENT /\ a.open = <<>>
    <3>1. PrintStep(a, e) = a
      BY <2>6 DEF PrintStep
    <3>2. QED
      BY <1>2, <2>1, <2>2, <2>6, <3>1 DEF PairUp, OpenAfter, PairsAfter
  <2>7. QED
    BY <2>4, <2>5, <2>6
<1>3. QED
  BY <1>1, <1>2

\* A sequence is its last element behind the others.
LEMMA LastSplit ==
    ASSUME NEW S, NEW q \in Seq(S), q # <<>>
    PROVE  /\ Drop(q) \in Seq(S) /\ LIFO(q) \in S /\ q = Append(Drop(q), LIFO(q))
<1> DEFINE r == Drop(q)
           d == LIFO(q)
<1>1. /\ d \in S /\ r \in Seq(S) /\ Len(r) = Len(q) - 1 /\ d = q[Len(q)]
      /\ \A i \in 1 .. Len(q) - 1 : r[i] = q[i]
      /\ Len(q) \in Nat \ {0}
  BY LastFacts, EmptySeqFacts
<1> HIDE DEF r, d
<1>2. /\ Append(r, d) \in Seq(S) /\ Len(Append(r, d)) = Len(r) + 1
      /\ Append(r, d)[Len(r) + 1] = d
      /\ \A i \in 1 .. Len(r) : Append(r, d)[i] = r[i]
  BY <1>1, AppendFacts
<1>3. \A i \in 1 .. Len(q) : Append(r, d)[i] = q[i]
  BY <1>1, <1>2
<1>4. q = Append(r, d)
  BY <1>1, <1>2, <1>3
<1>5. QED
  BY <1>1, <1>4 DEF r, d

\* Appending and dropping again changes nothing.
LEMMA DropAppend ==
    ASSUME NEW S, NEW q \in Seq(S), NEW x \in S
    PROVE  Drop(Append(q, x)) = q /\ LIFO(Append(q, x)) = x /\ Append(q, x) # <<>>
<1> DEFINE p == Append(q, x)
<1>1. /\ p \in Seq(S) /\ Len(p) = Len(q) + 1 /\ Len(q) \in Nat
      /\ \A i \in 1 .. Len(q) : p[i] = q[i]
      /\ p[Len(q) + 1] = x
  BY AppendFacts
<1> HIDE DEF p
<1>2. p # <<>>
  BY <1>1, EmptySeqFacts
<1>3. /\ LIFO(p) = p[Len(p)] /\ Drop(p) \in Seq(S) /\ Len(Drop(p)) = Len(p) - 1
      /\ \A i \in 1 .. Len(p) - 1 : Drop(p)[i] = p[i]
  BY <1>1, <1>2, LastFacts
<1>4. Len(Drop(p)) = Len(q) /\ \A i \in 1 .. Len(q) : Drop(p)[i] = q[i]
  BY <1>1, <1>3
<1>5. Drop(p) = q
  BY <1>3, <1>4
<1>6. QED
  BY <1>1, <1>2, <1>3, <1>5 DEF p

\* A restarted entry takes the place of the entry on top.
LEMMA PairUpReplaces ==
    ASSUME NEW q \in Seq(CallEvent), q # <<>>, NEW e \in CallEvent, NEW s \in Replicas,
           PairUp(q, s.open, s.pairs), LIFO(q).location = ENT, e.location = ENT
    PROVE  /\ s.open # <<>> /\ LIFO(s.open) = LIFO(q)
           /\ PairUp(Append(Drop(q), e), Append(Drop(s.open), e), s.pairs)
<1> DEFINE r == Drop(q)
           d == LIFO(q)
<1>1. d \in CallEvent /\ r \in Seq(CallEvent) /\ q = Append(r, d)
  BY LastSplit
<1> HIDE DEF r, d
<1>2. CASE Aggregate
  <2> DEFINE a == AggregateStack(r)
  <2>1. /\ a \in AggregateAcc /\ AggregateStack(q) = AggregateStep(a, d)
        /\ AggregateStack(Append(r, e)) = AggregateStep(a, e)
    BY <1>1, AggregateAppends
  <2> HIDE DEF a
  <2>2. /\ AggregateStack(q).ok /\ AggregateStack(q).open = s.open
        /\ ToSet(AggregateStack(q).pairs) = s.pairs
    BY <1>2 DEF PairUp
  <2>3. a.ok
    BY <2>1, <2>2, <1>1, AggregateStepDoes
  <2>4. /\ AggregateStep(a, d) = [open |-> Append(a.open, d), ok |-> a.ok, pairs |-> a.pairs]
        /\ AggregateStep(a, e) = [open |-> Append(a.open, e), ok |-> a.ok, pairs |-> a.pairs]
    BY <2>1, <2>3, <1>1, AggregateStepDoes DEF d
  <2>5. a.open \in Seq(CallEvent) /\ s.open = Append(a.open, d) /\ ToSet(a.pairs) = s.pairs
    BY <2>1, <2>2, <2>4 DEF AggregateAcc
  <2>6. Drop(s.open) = a.open /\ LIFO(s.open) = d /\ s.open # <<>>
    BY <1>1, <2>5, DropAppend
  <2>7. QED
    BY <1>2, <2>1, <2>3, <2>4, <2>5, <2>6 DEF PairUp, r, d
<1>3. CASE ~Aggregate
  <2> DEFINE a == PrintStack(r)
  <2>1. /\ a \in PrintAcc /\ PrintStack(q) = PrintStep(a, d)
        /\ PrintStack(Append(r, e)) = PrintStep(a, e)
    BY <1>1, PrintAppends
  <2> HIDE DEF a
  <2>2. /\ PrintStack(q).open = s.open /\ ToSet(PrintStack(q).pairs) = s.pairs
    BY <1>3 DEF PairUp
  <2>3. /\ PrintStep(a, d) = [open |-> Append(a.open, d), pairs |-> a.pairs]
        /\ PrintStep(a, e) = [open |-> Append(a.open, e), pairs |-> a.pairs]
    BY <2>1 DEF PrintStep, PrintAcc, d
  <2>4. a.open \in Seq(CallEvent) /\ s.open = Append(a.open, d) /\ ToSet(a.pairs) = s.pairs
    BY <2>1, <2>2, <2>3 DEF PrintAcc
  <2>5. Drop(s.open) = a.open /\ LIFO(s.open) = d /\ s.open # <<>>
    BY <1>1, <2>4, DropAppend
  <2>6. QED
    BY <1>3, <2>1, <2>3, <2>4, <2>5 DEF PairUp, r, d
<1>4. QED
  BY <1>2, <1>3

\* The fields of a replica.
LEMMA ReplicaFields ==
    ASSUME NEW s \in Replicas
    PROVE  /\ s.open \in Seq(CallEvent) /\ s.pairs \subseteq PairedCall
           /\ s.stack \in Seq(Functions) /\ s.bad \in BOOLEAN /\ s.last \subseteq SentCall
           /\ s.last = {} => s = Blank
BY DEF Replicas

\* Nothing retained is a replica.
LEMMA BlankType == Blank \in Replicas
<1>1. <<>> \in Seq(CallEvent) /\ <<>> \in Seq(Functions)
  OBVIOUS
<1>2. QED
  BY <1>1 DEF Blank, Replicas

\* The fields of what is sent.
LEMMA SentFields ==
    ASSUME NEW e \in SentCall
    PROVE  /\ e \in CallEvent /\ e \in Event /\ e.location \in {ENT, RET} /\ e.ip \in Functions
           /\ e.location = RET => e.bp = Zero /\ e.caller_bp = Zero
           /\ ENT # RET /\ ENT # EXIT /\ RET # EXIT
BY EventFields DEF SentCall, Sent, CallEvent, Event, EventRecord, ENT, RET, EXIT

\* A record of the right parts, after an event, is a replica.
LEMMA ReplicaMade ==
    ASSUME NEW o \in Seq(CallEvent), NEW c, c \subseteq PairedCall, NEW k \in Seq(Functions),
           NEW b \in BOOLEAN, NEW e \in SentCall
    PROVE  [open |-> o, pairs |-> c, stack |-> k, bad |-> b, last |-> {e}] \in Replicas
<1> DEFINE r == [open |-> o, pairs |-> c, stack |-> k, bad |-> b, last |-> {e}]
           R == [open : Seq(CallEvent), pairs : SUBSET PairedCall, stack : Seq(Functions),
                 bad : BOOLEAN, last : SUBSET SentCall]
<1>1. r \in R
  OBVIOUS
<1>2. r.last # {}
  OBVIOUS
<1>3. Replicas = {s \in R : s.last = {} => s = Blank}
  BY DEF Replicas
<1> HIDE DEF r, R
<1>4. r \in Replicas
  BY <1>1, <1>2, <1>3
<1>5. QED
  BY <1>4 DEF r

\* What one event makes of the parts of a replica.
LEMMA PartsType ==
    ASSUME NEW s \in Replicas, NEW e \in SentCall
    PROVE  /\ OpenAfter(s, e) \in Seq(CallEvent) /\ PairsAfter(s, e) \subseteq PairedCall
           /\ StackAfter(s, e) \in Seq(Functions)
<1>1. /\ s.open \in Seq(CallEvent) /\ s.pairs \subseteq PairedCall /\ s.stack \in Seq(Functions)
      /\ e \in CallEvent /\ e.ip \in Functions
  BY ReplicaFields, SentFields
<1>2. /\ Append(s.open, e) \in Seq(CallEvent) /\ Append(s.stack, e.ip) \in Seq(Functions)
  BY <1>1, AppendFacts
<1>3. /\ s.open # <<>> => Drop(s.open) \in Seq(CallEvent) /\ LIFO(s.open) \in CallEvent
      /\ s.stack # <<>> => Drop(s.stack) \in Seq(Functions)
  BY <1>1, LastFacts
<1>4. s.open # <<>> => Pair(LIFO(s.open), e) \in PairedCall
  BY <1>1, <1>3, PairType
<1>5. OpenAfter(s, e) \in Seq(CallEvent)
  BY <1>1, <1>2, <1>3 DEF OpenAfter
<1>6. StackAfter(s, e) \in Seq(Functions)
  BY <1>1, <1>2, <1>3 DEF StackAfter
<1>7. PairsAfter(s, e) \subseteq PairedCall
  BY <1>1, <1>4 DEF PairsAfter
<1>8. QED
  BY <1>5, <1>6, <1>7

\* A return never takes the place of another: neither has a base pointer.
LEMMA OnlyEntriesRepeat ==
    ASSUME NEW s \in Replicas, NEW e \in SentCall, Repeats(s, e)
    PROVE  e.location = ENT /\ \E d \in s.last : d.location = ENT /\ d.ip = e.ip /\ d.bp # e.caller_bp
<1>1. PICK d \in s.last : d.location = e.location /\ d.ip = e.ip /\ d.bp # e.caller_bp
  BY DEF Repeats
<1>2. d \in SentCall
  BY ReplicaFields
<1>3. e.location = ENT
  BY <1>1, <1>2, SentFields
<1>4. QED
  BY <1>1, <1>3

\* Nothing is dropped from an empty stack.
LEMMA DropType ==
    ASSUME NEW S, NEW q \in Seq(S)
    PROVE  Drop(q) \in Seq(S)
<1>1. CASE q # <<>>
  BY <1>1, LastFacts
<1>2. CASE q = <<>>
  <2>1. Len(q) = 0 /\ Drop(q) = SubSeq(q, 1, -1)
    BY <1>2 DEF Drop
  <2>2. SubSeq(q, 1, -1) = <<>>
    BY <1>2
  <2>3. QED
    BY <2>1, <2>2
<1>3. QED
  BY <1>1, <1>2

\* One event of the goroutine keeps the shape,
LEMMA TakenType ==
    ASSUME NEW s \in Replicas, NEW e \in SentCall
    PROVE  Taken(s, e) \in Replicas
<1>1. /\ s.open \in Seq(CallEvent) /\ s.pairs \subseteq PairedCall
      /\ s.stack \in Seq(Functions) /\ s.bad \in BOOLEAN /\ e \in CallEvent
  BY ReplicaFields, SentFields
<1>2. CASE Skips(s, e)
  BY <1>2 DEF Taken
<1>3. CASE ~Skips(s, e) /\ Repeats(s, e)
  <2> DEFINE o == Append(Drop(s.open), e)
             p == s.pairs
             k == s.stack
             b == s.bad
  <2>1. Taken(s, e) = [open |-> o, pairs |-> p, stack |-> k, bad |-> b, last |-> {e}]
    BY <1>3 DEF Taken, Replicas
  <2>2. o \in Seq(CallEvent) /\ p \subseteq PairedCall /\ k \in Seq(Functions) /\ b \in BOOLEAN
    <3>1. Drop(s.open) \in Seq(CallEvent)
      BY <1>1, DropType
    <3>2. QED
      BY <1>1, <3>1, AppendFacts
  <2> HIDE DEF o, p, k, b
  <2>3. QED
    BY <2>1, <2>2, ReplicaMade
<1>4. CASE ~Skips(s, e) /\ ~Repeats(s, e) /\ Finishes(s, e)
  BY <1>4, BlankType DEF Taken
<1>5. CASE ~Skips(s, e) /\ ~Repeats(s, e) /\ ~Finishes(s, e)
  <2> DEFINE o == OpenAfter(s, e)
             p == PairsAfter(s, e)
             k == StackAfter(s, e)
             b == s.bad \/ Differs(s, e)
  <2>1. Taken(s, e) = [open |-> o, pairs |-> p, stack |-> k, bad |-> b, last |-> {e}]
    BY <1>5 DEF Taken
  <2>2. o \in Seq(CallEvent) /\ p \subseteq PairedCall /\ k \in Seq(Functions) /\ b \in BOOLEAN
    BY <1>1, PartsType DEF Differs
  <2> HIDE DEF o, p, k, b
  <2>3. QED
    BY <2>1, <2>2, ReplicaMade
<1>6. QED
  BY <1>2, <1>3, <1>4, <1>5

\* A goroutine for which nothing is retained is depicted by Blank,
LEMMA BlankDepicts == Depicts(<<>>, <<>>, FALSE, Blank)
<1>1. Ips(<<>>) = <<>>
  BY DEF Ips
<1>2. QED
  BY <1>1, PairUpNothing DEF Depicts, Blank

\* and by nothing else.
LEMMA NothingIsBlank ==
    ASSUME NEW s \in Replicas, NEW stack, NEW bad, Depicts(<<>>, stack, bad, s)
    PROVE  s = Blank
BY ReplicaFields DEF Depicts

\* What Add finds after resetStaleSample.
LEMMA NowDepicts ==
    ASSUME NEW e \in SentCall, NEW s \in Replicas, Mirrors(e.goid, s)
    PROVE  /\ Anew(s, e) \in Replicas
           /\ Depicts(EventsNow(e), StackNow(e), e.goid \in InvalidNow(e), Anew(s, e))
<1>1. Depicts(goEvents[e.goid], goEventStack[e.goid], e.goid \in invalid, s)
  BY DEF Mirrors
<1>2. CASE Stale(e)
  <2>1. Anew(s, e) = Blank
    BY <1>2 DEF Stale, Anew
  <2>2. EventsNow(e) = <<>> /\ StackNow(e) = <<>> /\ ~(e.goid \in InvalidNow(e))
    BY <1>2 DEF EventsNow, StackNow, InvalidNow
  <2>3. QED
    BY <2>1, <2>2, BlankType, BlankDepicts DEF Depicts
<1>3. CASE ~Stale(e)
  <2>1. /\ EventsNow(e) = goEvents[e.goid] /\ StackNow(e) = goEventStack[e.goid]
        /\ InvalidNow(e) = invalid
    BY <1>3 DEF EventsNow, StackNow, InvalidNow
  <2>2. Anew(s, e) = s
    <3>1. CASE Adaptive /\ e.flag = START
      <4>1. goEvents[e.goid] = <<>>
        BY <1>3, <3>1 DEF Stale
      <4>2. s = Blank
        BY <1>1, <4>1, NothingIsBlank
      <4>3. QED
        BY <4>2 DEF Anew
    <3>2. CASE ~(Adaptive /\ e.flag = START)
      BY <3>2 DEF Anew
    <3>3. QED
      BY <3>1, <3>2
  <2>3. QED
    BY <1>1, <2>1, <2>2
<1>4. QED
  BY <1>2, <1>3

\* What decides about the event, in Handle and in the replica.
LEMMA NowDecides ==
    ASSUME ManagerTypeOK, NEW e \in SentCall, NEW n \in Replicas,
           Depicts(EventsNow(e), StackNow(e), e.goid \in InvalidNow(e), n)
    PROVE  /\ n.last = {} <=> EventsNow(e) = <<>>
           /\ IsOrphan(e) <=> Skips(n, e)
           /\ IsDuplicate(e) <=> Repeats(n, e)
           /\ Mismatch(e) <=> Differs(n, e)
           /\ ObservedStack(e) = StackAfter(n, e)
           /\ Closes(e) <=> Finishes(n, e)
           /\ n.bad \/ Differs(n, e) <=> e.goid \in InvalidAfter(e)
           /\ n.bad \/ Differs(n, e) <=> InvalidAfter(e) # {}
<1>1. /\ n.bad <=> e.goid \in InvalidNow(e)
      /\ n.stack = StackNow(e)
      /\ n.last = IF EventsNow(e) = <<>> THEN {} ELSE {LIFO(EventsNow(e))}
  BY DEF Depicts
<1>2. n.last = {} <=> EventsNow(e) = <<>>
  BY <1>1
<1>3. IsOrphan(e) <=> Skips(n, e)
  BY <1>2 DEF IsOrphan, Skips
<1>4. IsDuplicate(e) <=> Repeats(n, e)
  <2>1. CASE EventsNow(e) = <<>>
    BY <1>1, <2>1 DEF IsDuplicate, Repeats
  <2>2. CASE EventsNow(e) # <<>>
    <3>1. n.last = {LIFO(EventsNow(e))}
      BY <1>1, <2>2
    <3>2. QED
      BY <2>2, <3>1 DEF IsDuplicate, Repeats
  <2>3. QED
    BY <2>1, <2>2
<1>5. Mismatch(e) <=> Differs(n, e)
  BY <1>1 DEF Mismatch, Differs
<1>6. ObservedStack(e) = StackAfter(n, e)
  <2>1. CASE e.location = ENT
    BY <1>1, <2>1 DEF ObservedStack, StackAfter
  <2>2. CASE e.location # ENT /\ ~Mismatch(e) /\ StackNow(e) # <<>>
    BY <1>1, <1>5, <2>2 DEF ObservedStack, StackAfter
  <2>3. CASE e.location # ENT /\ ~(~Mismatch(e) /\ StackNow(e) # <<>>)
    BY <1>1, <1>5, <2>3 DEF ObservedStack, StackAfter
  <2>4. QED
    BY <2>1, <2>2, <2>3
<1>7. Closes(e) <=> Finishes(n, e)
  BY <1>6 DEF Closes, Finishes
<1>8. InvalidAfter(e) \subseteq {e.goid}
  BY DEF InvalidAfter
<1>9. n.bad \/ Differs(n, e) <=> e.goid \in InvalidAfter(e)
  BY <1>1, <1>5 DEF InvalidAfter
<1>10. QED
  BY <1>2, <1>3, <1>4, <1>5, <1>6, <1>7, <1>8, <1>9

\* An event joins a sample that is not invalid: the observed stack stays that of
\* the entries that are open.
LEMMA NowPairsUp ==
    ASSUME ManagerTypeOK, NEW e \in SentCall, NEW n \in Replicas,
           Depicts(EventsNow(e), StackNow(e), e.goid \in InvalidNow(e), n),
           ~n.bad, ~Differs(n, e)
    PROVE  /\ PairUp(Append(EventsNow(e), e), OpenAfter(n, e), PairsAfter(n, e))
           /\ StackAfter(n, e) = Ips(OpenAfter(n, e))
<1>1. /\ PairUp(EventsNow(e), n.open, n.pairs) /\ n.stack = Ips(n.open)
      /\ EventsNow(e) \in Seq(CallEvent) /\ e \in CallEvent /\ e.location \in {ENT, RET}
      /\ n.open \in Seq(CallEvent) /\ ENT # RET
  BY NowType, SentFields, ReplicaFields DEF Depicts
<1>2. n.stack = <<>> <=> n.open = <<>>
  BY <1>1, IpsFacts
<1>3. n.open # <<>> => LIFO(n.stack) = LIFO(n.open).ip /\ Ips(Drop(n.open)) = Drop(n.stack)
  BY <1>1, IpsDrop
<1>4. Aggregate /\ e.location # ENT => n.open # <<>> /\ LIFO(n.open).ip = e.ip
  BY <1>1, <1>2, <1>3 DEF Differs
<1>5. PairUp(Append(EventsNow(e), e), OpenAfter(n, e), PairsAfter(n, e))
  BY <1>1, <1>4, PairUpAppends
<1>6. StackAfter(n, e) = Ips(OpenAfter(n, e))
  <2>1. CASE e.location = ENT
    <3>1. Ips(Append(n.open, e)) = Append(Ips(n.open), e.ip)
      BY <1>1, IpsAppend
    <3>2. QED
      BY <1>1, <2>1, <3>1 DEF StackAfter, OpenAfter
  <2>2. CASE e.location # ENT /\ n.open # <<>>
    BY <1>2, <1>3, <2>2 DEF StackAfter, OpenAfter
  <2>3. CASE e.location # ENT /\ n.open = <<>>
    BY <1>1, <1>2, <2>3 DEF StackAfter, OpenAfter
  <2>4. QED
    BY <2>1, <2>2, <2>3
<1>7. QED
  BY <1>5, <1>6

\* What is stored for the goroutine of the event is what the replica has then.
LEMMA OrphanTaken ==
    ASSUME ManagerTypeOK, NEW e \in SentCall, NEW n \in Replicas,
           Depicts(EventsNow(e), StackNow(e), e.goid \in InvalidNow(e), n), IsOrphan(e)
    PROVE  Depicts(<<>>, StackNow(e), e.goid \in InvalidNow(e) \cap {e.goid}, Taken(n, e))
<1>1. Skips(n, e) /\ EventsNow(e) = <<>>
  BY NowDecides DEF IsOrphan
<1>2. Taken(n, e) = n
  BY <1>1 DEF Taken
<1>3. QED
  BY <1>1, <1>2 DEF Depicts

\* replaced,
LEMMA DuplicateTaken ==
    ASSUME ManagerTypeOK, NEW e \in SentCall, NEW n \in Replicas,
           Depicts(EventsNow(e), StackNow(e), e.goid \in InvalidNow(e), n),
           IsDuplicate(e)
    PROVE  Depicts(Append(Drop(EventsNow(e)), e), StackNow(e),
                   e.goid \in InvalidNow(e) \cap {e.goid}, Taken(n, e))
<1> DEFINE q == EventsNow(e)
           r == Append(Drop(q), e)
           t == Taken(n, e)
           bad == e.goid \in InvalidNow(e)
<1>1. Repeats(n, e) /\ q # <<>> /\ n.last # {}
  BY NowDecides DEF IsDuplicate
<1>2. e.location = ENT /\ LIFO(q).location = ENT
  BY <1>1, OnlyEntriesRepeat DEF IsDuplicate
<1>3. q \in Seq(CallEvent) /\ e \in CallEvent
  BY NowType, SentFields
<1>4. Drop(q) \in Seq(CallEvent)
  BY <1>3, DropType
<1>5. LIFO(r) = e /\ r # <<>>
  BY <1>3, <1>4, DropAppend
<1>6. /\ t.open = Append(Drop(n.open), e) /\ t.pairs = n.pairs /\ t.stack = n.stack
      /\ t.bad = n.bad /\ t.last = {e}
  <2>1. ~Skips(n, e)
    BY <1>1 DEF Skips
  <2>2. t = [n EXCEPT !.open = Append(Drop(@), e), !.last = {e}]
    BY <1>1, <2>1 DEF Taken
  <2>3. QED
    BY <2>2 DEF Replicas
<1>7. (n.bad <=> bad) /\ (bad => Aggregate) /\ n.stack = StackNow(e)
  BY DEF Depicts
<1>8. ASSUME ~bad PROVE PairUp(r, t.open, t.pairs) /\ StackNow(e) = Ips(t.open)
  <2>1. PairUp(q, n.open, n.pairs) /\ StackNow(e) = Ips(n.open)
    BY <1>8 DEF Depicts
  <2>2. n.open # <<>> /\ PairUp(r, Append(Drop(n.open), e), n.pairs)
    BY <1>1, <1>2, <1>3, <2>1, PairUpReplaces
  <2>3. /\ n.open \in Seq(CallEvent) /\ Drop(n.open) \in Seq(CallEvent)
        /\ LIFO(n.open) \in CallEvent /\ n.open = Append(Drop(n.open), LIFO(n.open))
    BY <2>2, ReplicaFields, LastSplit
  <2>4. Ips(n.open) = Append(Ips(Drop(n.open)), LIFO(n.open).ip)
    BY <2>3, IpsAppend
  <2>5. Ips(t.open) = Append(Ips(Drop(n.open)), e.ip)
    BY <1>3, <1>6, <2>3, IpsAppend
  <2>6. LIFO(n.open).ip = e.ip
    <3>1. LIFO(n.open) = LIFO(q)
      BY <1>1, <1>2, <1>3, <2>1, PairUpReplaces
    <3>2. QED
      BY <3>1 DEF IsDuplicate
  <2>7. QED
    BY <1>6, <2>1, <2>2, <2>4, <2>5, <2>6
<1>9. QED
  <2>1. e.goid \in InvalidNow(e) \cap {e.goid} <=> bad
    OBVIOUS
  <2> HIDE DEF r, t, bad
  <2>2. Depicts(r, StackNow(e), e.goid \in InvalidNow(e) \cap {e.goid}, t)
    BY <1>5, <1>6, <1>7, <1>8, <2>1 DEF Depicts
  <2>3. QED
    BY <2>2 DEF r, t

\* retained,
LEMMA RetainTaken ==
    ASSUME ManagerTypeOK, NEW e \in SentCall, NEW n \in Replicas,
           Depicts(EventsNow(e), StackNow(e), e.goid \in InvalidNow(e), n),
           ~IsOrphan(e), ~IsDuplicate(e), ~Closes(e)
    PROVE  Depicts(Append(EventsNow(e), e), ObservedStack(e), e.goid \in InvalidAfter(e), Taken(n, e))
<1> DEFINE r == Append(EventsNow(e), e)
           t == Taken(n, e)
           bad == e.goid \in InvalidAfter(e)
           k == ObservedStack(e)
<1>1. ~Skips(n, e) /\ ~Repeats(n, e) /\ ~Finishes(n, e)
  BY NowDecides
<1>2. /\ t.open = OpenAfter(n, e) /\ t.pairs = PairsAfter(n, e) /\ t.stack = StackAfter(n, e)
      /\ t.bad = (n.bad \/ Differs(n, e)) /\ t.last = {e}
  BY <1>1 DEF Taken
<1>3. (n.bad \/ Differs(n, e) <=> bad) /\ (bad => Aggregate) /\ k = StackAfter(n, e)
  BY NowDecides DEF Depicts, Differs
<1>4. LIFO(r) = e /\ r # <<>>
  <2>1. EventsNow(e) \in Seq(CallEvent) /\ e \in CallEvent
    BY NowType, SentFields
  <2>2. QED
    BY <2>1, DropAppend
<1>5. ~bad => PairUp(r, t.open, t.pairs) /\ k = Ips(t.open)
  BY <1>2, <1>3, NowPairsUp
<1> HIDE DEF r, t, bad, k
<1>6. Depicts(r, k, bad, t)
  BY <1>2, <1>3, <1>4, <1>5 DEF Depicts
<1>7. QED
  BY <1>6 DEF r, t, bad, k

\* A stack that closes leaves nothing.
LEMMA ClosedTaken ==
    ASSUME ManagerTypeOK, NEW e \in SentCall, NEW n \in Replicas,
           Depicts(EventsNow(e), StackNow(e), e.goid \in InvalidNow(e), n),
           ~IsOrphan(e), ~IsDuplicate(e), Closes(e)
    PROVE  /\ Taken(n, e) = Blank
           /\ Aggregate => (Trusted(e) <=> ~n.bad /\ ~Differs(n, e) /\ StackAfter(n, e) = <<>>)
           /\ Aggregate /\ Trusted(e) =>
                ToSet(AggregateStack(Append(EventsNow(e), e)).pairs) = Shown(n, e)
           /\ ~Aggregate => ToSet(PrintStack(Append(EventsNow(e), e)).pairs) = Shown(n, e)
<1>1. ~Skips(n, e) /\ ~Repeats(n, e) /\ Finishes(n, e)
  BY NowDecides
<1>2. Taken(n, e) = Blank
  BY <1>1 DEF Taken
<1>3. Trusted(e) <=> ~n.bad /\ ~Differs(n, e) /\ StackAfter(n, e) = <<>>
  BY NowDecides DEF Trusted
<1>4. CASE Aggregate /\ Trusted(e)
  <2>1. PairUp(Append(EventsNow(e), e), OpenAfter(n, e), PairsAfter(n, e))
    BY <1>3, <1>4, NowPairsUp
  <2>2. Shown(n, e) = PairsAfter(n, e)
    BY <1>1, <1>3, <1>4 DEF Shown
  <2>3. QED
    BY <1>2, <1>3, <1>4, <2>1, <2>2 DEF PairUp
<1>5. CASE ~Aggregate
  <2>1. ~Differs(n, e)
    BY <1>5 DEF Differs
  <2>2. Shown(n, e) = PairsAfter(n, e)
    BY <1>1, <1>5 DEF Shown
  <2>3. ~n.bad
    BY <1>5 DEF Depicts
  <2>4. PairUp(Append(EventsNow(e), e), OpenAfter(n, e), PairsAfter(n, e))
    BY <2>1, <2>3, NowPairsUp
  <2>5. QED
    BY <1>2, <1>5, <2>2, <2>4 DEF PairUp
<1>6. QED
  BY <1>2, <1>3, <1>4, <1>5

\* Everything that was reported and is not lost again.
Output == ToSet(printed) \cup UNION {ToSet(agg[p]) : p \in Pids}

\* Handle has room for the event and for all processes.
Roomy ==
    /\ discarded'["overBudget"] = discarded["overBudget"]
    /\ evictedPIDs' = evictedPIDs
    /\ suppressed = {}

\* The maps of a goroutine after a step, and the replica that they mirror:
LEMMA MirrorsMade ==
    ASSUME cfg' = cfg, NEW h, NEW t, NEW events, NEW stack, NEW bad,
           goEvents'[h] = events, goEventStack'[h] = stack, h \in invalid' <=> bad,
           Depicts(events, stack, bad, t)
    PROVE  Mirrors(h, t)'
<1>1. Aggregate' = Aggregate
  BY DEF Aggregate
<1>2. QED
  BY <1>1 DEF Mirrors, Depicts, PairUp

\* What is left alone is mirrored as before.
LEMMA MirrorsKept ==
    ASSUME cfg' = cfg, NEW h, NEW s, Mirrors(h, s),
           goEvents'[h] = goEvents[h], goEventStack'[h] = goEventStack[h],
           h \in invalid' <=> h \in invalid
    PROVE  Mirrors(h, s)'
<1>1. Aggregate' = Aggregate
  BY DEF Aggregate
<1>2. QED
  BY <1>1 DEF Mirrors, Depicts, PairUp

\* emptied,
LEMMA MirrorsBlank ==
    ASSUME cfg' = cfg, NEW h,
           goEvents'[h] = <<>>, goEventStack'[h] = <<>>, h \notin invalid'
    PROVE  Mirrors(h, Blank)'
<1> DEFINE t == Blank
           none == <<>>
           bad == FALSE
<1>1. Depicts(none, none, bad, t)
  BY BlankDepicts
<1> HIDE DEF t, none, bad
<1>2. goEvents'[h] = none /\ goEventStack'[h] = none /\ (h \in invalid' <=> bad)
  BY DEF none, bad
<1>3. Mirrors(h, t)'
  BY <1>1, <1>2, MirrorsMade
<1>4. QED
  BY <1>3 DEF t

\* dropStack blanks its goroutine and touches no other.
LEMMA DropStackMirrors ==
    ASSUME ManagerTypeOK, cfg' = cfg, NEW g \in Goroutines, DropStack(g)
    PROVE  /\ Mirrors(g, Blank)'
           /\ \A h \in Goroutines \ {g}, s \in Replicas : Mirrors(h, s) => Mirrors(h, s)'
<1>1. /\ goEvents'[g] = <<>> /\ goEventStack'[g] = <<>> /\ invalid' = invalid \ {g}
      /\ \A h \in Goroutines \ {g} :
            goEvents'[h] = goEvents[h] /\ goEventStack'[h] = goEventStack[h]
  BY DEF DropStack, ManagerTypeOK
<1>2. Mirrors(g, Blank)'
  BY <1>1, MirrorsBlank
<1>3. ASSUME NEW h \in Goroutines \ {g}, NEW s \in Replicas, Mirrors(h, s) PROVE Mirrors(h, s)'
  BY <1>1, <1>3, MirrorsKept
<1>4. QED
  BY <1>2, <1>3

\* Only an eviction empties others.
LEMMA EvictionShows ==
    ASSUME evictedPIDs \in Nat, NEW pid, TouchPid(pid)
    PROVE  /\ evictedPIDs' = evictedPIDs => Evicted(pid) = {}
           /\ Evicted(pid) # {} => Adaptive
<1>1. Evicted(pid) = {} \/ (Evicted(pid) = {Head(pids)} /\ Adaptive)
  BY DEF Evicted
<1>2. CASE Evicted(pid) = {Head(pids)} /\ Adaptive
  <2>1. Cardinality(Evicted(pid)) = 1
    BY <1>2, FS_Singleton
  <2>2. evictedPIDs' = evictedPIDs + 1
    BY <2>1 DEF TouchPid
  <2>3. QED
    BY <1>2, <2>2
<1>3. QED
  BY <1>1, <1>2

\* Store writes what is depicted for the goroutine of the event.
LEMMA StoreMirrors ==
    ASSUME ManagerTypeOK, cfg' = cfg, NEW e \in SentCall, NEW events, NEW stack, NEW marks,
           NEW pending, Store(e, events, stack, marks, pending), NEW t,
           Depicts(events, stack, e.goid \in marks, t)
    PROVE  Mirrors(e.goid, t)'
<1> DEFINE g == e.goid
           bad == g \in marks
<1>1. g \in Goroutines /\ e \in CallEvent
  BY SentFields, EventFields
<1>2. goEvents'[g] = events /\ goEventStack'[g] = stack
  BY <1>1 DEF Store
<1>3. g \in invalid' <=> bad
  BY DEF Store
<1>4. Depicts(events, stack, bad, t)
  OBVIOUS
<1> HIDE DEF g, bad
<1>5. Mirrors(g, t)'
  BY <1>2, <1>3, <1>4, MirrorsMade
<1>6. QED
  BY <1>5 DEF g

\* The other goroutines keep what they have, unless their process is evicted.
LEMMA StoreMirrorsOthers ==
    ASSUME ManagerTypeOK, cfg' = cfg, NEW e \in SentCall, NEW events, NEW stack, NEW marks,
           marks \subseteq {e.goid}, NEW pending, Store(e, events, stack, marks, pending),
           NEW h \in Goroutines \ {e.goid}, NEW s \in Replicas, Mirrors(h, s)
    PROVE  /\ Mirrors(h, s)' \/ (Adaptive /\ Mirrors(h, Blank)')
           /\ evictedPIDs' = evictedPIDs => Mirrors(h, s)'
<1> DEFINE g == e.goid
           gone == EvictedGoroutines(PidOf[g])
<1>1. /\ goEvents'[h] = IF h \in gone THEN <<>> ELSE goEvents[h]
      /\ goEventStack'[h] = IF h \in gone THEN <<>> ELSE goEventStack[h]
      /\ invalid' = ((InvalidNow(e) \ {g}) \ gone) \cup marks
      /\ InvalidNow(e) = invalid \/ InvalidNow(e) = invalid \ {g}
  BY DEF Store, InvalidNow
<1>2. /\ evictedPIDs' = evictedPIDs => Evicted(PidOf[g]) = {}
      /\ Evicted(PidOf[g]) # {} => Adaptive
  BY EvictionShows DEF Store, ManagerTypeOK
<1>3. h \in gone => Evicted(PidOf[g]) # {}
  BY DEF EvictedGoroutines
<1>4. CASE h \in gone
  <2>1. goEvents'[h] = <<>> /\ goEventStack'[h] = <<>> /\ h \notin invalid'
    BY <1>1, <1>4
  <2>2. Mirrors(h, Blank)'
    BY <2>1, MirrorsBlank
  <2>3. QED
    BY <1>2, <1>3, <1>4, <2>2
<1>5. CASE h \notin gone
  <2>1. /\ goEvents'[h] = goEvents[h] /\ goEventStack'[h] = goEventStack[h]
        /\ h \in invalid' <=> h \in invalid
    BY <1>1, <1>5
  <2>2. QED
    BY <2>1, MirrorsKept
<1>6. QED
  BY <1>4, <1>5

\* What Handle makes of the goroutine of the event, where it takes the event in.
LEMMA AddMirrors ==
    ASSUME ManagerTypeOK, cfg' = cfg, NEW e \in SentCall, NEW s \in Replicas, Mirrors(e.goid, s),
           Orphan(e) \/ DuplicateEntry(e) \/ Retain(e) \/ CloseAggregated(e)
             \/ CloseIncomplete(e) \/ ClosePrinted(e),
           NEW t, t = Taken(Anew(s, e), e)
    PROVE  Mirrors(e.goid, t)'
<1> DEFINE n == Anew(s, e)
           g == e.goid
<1>1. n \in Replicas /\ Depicts(EventsNow(e), StackNow(e), e.goid \in InvalidNow(e), n)
  BY NowDepicts
<1>2. t = Taken(n, e)
  OBVIOUS
<1> HIDE DEF n
<1>3. CASE Orphan(e)
  <2> DEFINE none == <<>>
             marks == InvalidNow(e) \cap {g}
             k == StackNow(e)
             pending == PendingAfterEviction(PidOf[g], PendingNow(e))
  <2>1. Store(e, none, k, marks, pending) /\ IsOrphan(e)
    BY <1>3 DEF Orphan
  <2>2. Depicts(none, k, e.goid \in marks, t)
    BY <1>1, <1>2, <2>1, OrphanTaken
  <2> HIDE DEF none, marks, k, pending
  <2>3. QED
    BY <2>1, <2>2, StoreMirrors
<1>4. CASE DuplicateEntry(e)
  <2> DEFINE all == Append(Drop(EventsNow(e)), e)
             marks == InvalidNow(e) \cap {g}
             k == StackNow(e)
             pending == PendingAfterEviction(PidOf[g], PendingNow(e))
  <2>1. Store(e, all, k, marks, pending) /\ IsDuplicate(e)
    BY <1>4 DEF DuplicateEntry
  <2>2. Depicts(all, k, e.goid \in marks, t)
    BY <1>1, <1>2, <2>1, DuplicateTaken
  <2> HIDE DEF all, marks, k, pending
  <2>3. QED
    BY <2>1, <2>2, StoreMirrors
<1>5. CASE Retain(e)
  <2> DEFINE all == Append(EventsNow(e), e)
             marks == InvalidAfter(e)
             k == ObservedStack(e)
             pending == PendingAfterEviction(PidOf[g], PendingNow(e)) + (IF Adaptive THEN 1 ELSE 0)
  <2>1. Store(e, all, k, marks, pending) /\ ~IsOrphan(e) /\ ~IsDuplicate(e) /\ ~Closes(e)
    BY <1>5 DEF Retain, Appends
  <2>2. Depicts(all, k, e.goid \in marks, t)
    BY <1>1, <1>2, <2>1, RetainTaken
  <2> HIDE DEF all, marks, k, pending
  <2>3. QED
    BY <2>1, <2>2, StoreMirrors
<1>6. CASE CloseAggregated(e) \/ CloseIncomplete(e) \/ ClosePrinted(e)
  <2> DEFINE none == <<>>
             marks == {}
             pending == IF Adaptive
                          THEN Release(PendingAfterEviction(PidOf[g], PendingNow(e)) + 1,
                                       Len(EventsNow(e)) + 1)
                          ELSE pendingEvents
  <2>1. Cleared(e) /\ ~IsOrphan(e) /\ ~IsDuplicate(e) /\ Closes(e)
    BY <1>6 DEF CloseAggregated, CloseIncomplete, ClosePrinted, Appends
  <2>2. Store(e, none, none, marks, pending)
    BY <2>1 DEF Cleared
  <2>3. t = Blank
    BY <1>1, <1>2, <2>1, ClosedTaken
  <2>4. Depicts(none, none, e.goid \in marks, t)
    BY <2>3, BlankDepicts DEF Depicts
  <2> HIDE DEF none, marks, pending
  <2>5. QED
    BY <2>2, <2>4, StoreMirrors
<1>7. QED
  BY <1>3, <1>4, <1>5, <1>6

\* Without anything retained, Add takes an event in as if from a replica, or not at all.
LEMMA BlankTakes ==
    ASSUME NEW s \in Replicas, NEW e \in SentCall, Adaptive
    PROVE  /\ Taken(Anew(Blank, e), e) \in {Blank, Taken(Anew(s, e), e)}
           /\ Shown(Anew(Blank, e), e) \subseteq Shown(Anew(s, e), e)
<1>1. CASE e.flag = START
  BY <1>1 DEF Anew
<1>2. CASE e.flag # START
  <2>1. Anew(Blank, e) = Blank
    BY <1>2 DEF Anew
  <2>2. Skips(Blank, e)
    BY <1>2 DEF Skips, Blank
  <2>3. Taken(Blank, e) = Blank /\ Shown(Blank, e) = {}
    BY <2>2 DEF Taken, Shown
  <2>4. QED
    BY <2>1, <2>3
<1>3. QED
  BY <1>1, <1>2

\* Handle does to the goroutine of the event what the event does to the replica, or,
\* for want of room, nothing is retained of the goroutine.
LEMMA HandleReplays ==
    ASSUME ManagerTypeOK, SuppressedInv, cfg' = cfg, NEW e \in Sent, Handle(e),
           NEW s \in Replicas, Mirrors(e.goid, s) \/ (Adaptive /\ Mirrors(e.goid, Blank)),
           NEW t, t = Replayed(e.goid, s, e)
    PROVE  /\ Mirrors(e.goid, t)' \/ (Adaptive /\ Mirrors(e.goid, Blank)')
           /\ Mirrors(e.goid, s) /\ Roomy => Mirrors(e.goid, t)'
<1> DEFINE g == e.goid
<1>0. g \in Goroutines /\ (e.location # EXIT => e \in SentCall)
  BY EventFields DEF Sent, SentCall
<1>1. CASE HandleExit(e) \/ HandleAbort(e)
  <2>1. DropStack(g) /\ Leaves(e)
    BY <1>1 DEF HandleExit, HandleAbort, Leaves
  <2>2. t = Blank
    BY <2>1 DEF Replayed
  <2>3. Mirrors(g, Blank)'
    BY <1>0, <2>1, DropStackMirrors
  <2>4. QED
    BY <2>2, <2>3
<1>2. CASE Suppressed(e)
  <2>1. Adaptive /\ g \in suppressed /\ goEvents[g] = <<>>
    BY <1>2 DEF Suppressed, IsSuppressed, SuppressedInv, SuppressedHoldNothing
  <2>2. Mirrors(g, Blank)
    BY <2>1, NothingIsBlank DEF Mirrors
  <2>3. goEvents' = goEvents /\ goEventStack' = goEventStack /\ invalid' = invalid
    BY <1>2 DEF Suppressed, stackVars
  <2>4. Mirrors(g, Blank)'
    BY <2>2, <2>3, MirrorsKept
  <2>5. ~Roomy
    BY <2>1 DEF Roomy
  <2>6. QED
    BY <2>1, <2>4, <2>5
<1>3. CASE OverBudget(e)
  <2>1. Adaptive /\ DropStack(g)
    BY <1>3 DEF OverBudget, OverBudgetNow
  <2>2. Mirrors(g, Blank)'
    BY <1>0, <2>1, DropStackMirrors
  <2>3. ~Roomy
    <3>1. discarded \in [Reasons -> Nat] /\ "overBudget" \in Reasons /\ "incomplete" # "overBudget"
      BY DEF ManagerTypeOK, Reasons
    <3>2. /\ DiscardedNow(e) \in [Reasons -> Nat]
          /\ DiscardedNow(e)["overBudget"] = discarded["overBudget"]
      BY <3>1 DEF DiscardedNow, Discard, Reasons
    <3>3. discarded'["overBudget"] = discarded["overBudget"] + 1
      BY <1>3, <3>1, <3>2 DEF OverBudget, Discard
    <3>4. discarded["overBudget"] \in Nat
      BY <3>1
    <3>5. QED
      BY <3>3, <3>4 DEF Roomy
  <2>4. QED
    BY <2>1, <2>2, <2>3
<1>4. CASE Orphan(e) \/ DuplicateEntry(e) \/ Retain(e) \/ CloseAggregated(e)
             \/ CloseIncomplete(e) \/ ClosePrinted(e)
  <2>1. e \in SentCall /\ ~Leaves(e)
    BY <1>0, <1>4 DEF Orphan, DuplicateEntry, Retain, CloseAggregated, CloseIncomplete,
       ClosePrinted, Appends, Remembers, Admissible, Ordinary, Leaves
  <2>2. t = Taken(Anew(s, e), e)
    BY <2>1 DEF Replayed
  <2>3. CASE Mirrors(g, s)
    BY <1>4, <2>1, <2>2, <2>3, AddMirrors
  <2>4. CASE Adaptive /\ Mirrors(g, Blank)
    <3> DEFINE u == Taken(Anew(Blank, e), e)
    <3>1. u \in {Blank, t}
      BY <2>1, <2>2, <2>4, BlankTakes
    <3>2. \A v : v = u => Mirrors(g, v)'
      BY <1>4, <2>1, <2>4, BlankType, AddMirrors
    <3> HIDE DEF u
    <3>3. Mirrors(g, t)' \/ Mirrors(g, Blank)'
      BY <3>1, <3>2
    <3>4. QED
      BY <2>3, <2>4, <3>3
  <2>5. QED
    BY <2>3, <2>4
<1>5. QED
  BY <1>1, <1>2, <1>3, <1>4 DEF Handle

\* The others keep what they have, or, evicted, nothing.
LEMMA HandleReplaysOthers ==
    ASSUME ManagerTypeOK, cfg' = cfg, NEW e \in Sent, Handle(e),
           NEW h \in Goroutines \ {e.goid}, NEW s \in Replicas,
           Mirrors(h, s) \/ (Adaptive /\ Mirrors(h, Blank))
    PROVE  /\ Mirrors(h, s)' \/ (Adaptive /\ Mirrors(h, Blank)')
           /\ Mirrors(h, s) /\ Roomy => Mirrors(h, s)'
<1> DEFINE g == e.goid
<1>0. g \in Goroutines /\ (e.location # EXIT => e \in SentCall)
  BY EventFields DEF Sent, SentCall
<1>1. ASSUME NEW r \in Replicas, Mirrors(h, r)
      PROVE  /\ Mirrors(h, r)' \/ (Adaptive /\ Mirrors(h, Blank)')
             /\ evictedPIDs' = evictedPIDs => Mirrors(h, r)'
  <2>1. CASE HandleExit(e) \/ HandleAbort(e) \/ OverBudget(e)
    <3>1. DropStack(g)
      BY <2>1 DEF HandleExit, HandleAbort, OverBudget
    <3>2. QED
      BY <1>0, <1>1, <3>1, DropStackMirrors
  <2>2. CASE Suppressed(e)
    <3>1. goEvents' = goEvents /\ goEventStack' = goEventStack /\ invalid' = invalid
      BY <2>2 DEF Suppressed, stackVars
    <3>2. QED
      BY <1>1, <3>1, MirrorsKept
  <2>3. CASE Orphan(e) \/ DuplicateEntry(e) \/ Retain(e) \/ CloseAggregated(e)
               \/ CloseIncomplete(e) \/ ClosePrinted(e)
    <3>1. e \in SentCall
      BY <1>0, <2>3 DEF Orphan, DuplicateEntry, Retain, CloseAggregated, CloseIncomplete,
         ClosePrinted, Appends, Remembers, Admissible, Ordinary
    <3>2. InvalidNow(e) \cap {g} \subseteq {g} /\ InvalidAfter(e) \subseteq {g} /\ {} \subseteq {g}
      BY DEF InvalidAfter
    <3>3. PICK events, stack, marks, pending :
            Store(e, events, stack, marks, pending) /\ marks \subseteq {g}
      <4>1. CASE Orphan(e)
        BY <3>2, <4>1 DEF Orphan
      <4>2. CASE DuplicateEntry(e)
        BY <3>2, <4>2 DEF DuplicateEntry
      <4>3. CASE Retain(e)
        BY <3>2, <4>3 DEF Retain
      <4>4. CASE CloseAggregated(e) \/ CloseIncomplete(e) \/ ClosePrinted(e)
        <5>1. Cleared(e)
          BY <4>4 DEF CloseAggregated, CloseIncomplete, ClosePrinted
        <5>2. QED
          BY <3>2, <5>1 DEF Cleared
      <4>5. QED
        BY <2>3, <4>1, <4>2, <4>3, <4>4
    <3>4. QED
      BY <1>1, <3>1, <3>3, StoreMirrorsOthers
  <2>4. QED
    BY <2>1, <2>2, <2>3 DEF Handle
<1>2. Roomy => evictedPIDs' = evictedPIDs
  BY DEF Roomy
<1>3. CASE Mirrors(h, s)
  BY <1>1, <1>2, <1>3
<1>4. CASE Adaptive /\ Mirrors(h, Blank)
  <2>1. Mirrors(h, Blank)'
    BY <1>1, <1>4, BlankType
  <2>2. Mirrors(h, s) /\ Roomy => Mirrors(h, s)'
    BY <1>1, <1>2
  <2>3. QED
    BY <1>4, <2>1, <2>2
<1>5. QED
  BY <1>3, <1>4

\* An event makes a replica of a replica.
LEMMA ReplayedType ==
    ASSUME NEW g, NEW s \in Replicas, NEW e \in Sent
    PROVE  Replayed(g, s, e) \in Replicas
<1>1. CASE e.goid = g /\ ~Leaves(e)
  <2>1. e \in SentCall
    BY <1>1 DEF SentCall, Leaves
  <2>2. Anew(s, e) \in Replicas
    BY BlankType DEF Anew
  <2>3. QED
    BY <1>1, <2>1, <2>2, TakenType DEF Replayed
<1>2. CASE ~(e.goid = g /\ ~Leaves(e))
  BY <1>2, BlankType DEF Replayed
<1>3. QED
  BY <1>1, <1>2

\* What is reported stays reported unless a process is evicted, and nothing is added.
LEMMA OutputKept ==
    ASSUME printed' = printed, ReportsKept(Pids)
    PROVE  /\ Output' \subseteq Output
           /\ (\A p \in Pids : agg'[p] = agg[p]) => Output' = Output
<1>1. ToSet(<<>>) = {}
  BY DEF ToSet
<1>2. \A p \in Pids : ToSet(agg'[p]) \subseteq ToSet(agg[p])
  BY <1>1 DEF ReportsKept
<1>3. Output' \subseteq Output
  BY <1>2 DEF Output
<1>4. (\A p \in Pids : agg'[p] = agg[p]) => Output' = Output
  BY DEF Output
<1>5. QED
  BY <1>3, <1>4

\* Two sequences of calls, one behind the other.
LEMMA ToSetConcat ==
    ASSUME NEW S, NEW p \in Seq(S), NEW q \in Seq(S)
    PROVE  ToSet(p \o q) = ToSet(p) \cup ToSet(q)
<1>1. p \o q \in Seq(S)
  OBVIOUS
<1>2. /\ Len(p) \in Nat /\ Len(q) \in Nat /\ Len(p \o q) = Len(p) + Len(q)
      /\ \A k \in 1 .. Len(p) : (p \o q)[k] = p[k]
      /\ \A k \in Len(p) + 1 .. Len(p \o q) : (p \o q)[k] = q[k - Len(p)]
  OBVIOUS
<1>3. ASSUME NEW x \in ToSet(p \o q) PROVE x \in ToSet(p) \cup ToSet(q)
  <2>1. PICK i \in 1 .. Len(p \o q) : x = (p \o q)[i]
    BY <1>3 DEF ToSet
  <2>2. QED
    BY <2>1, ConcatMembers DEF ToSet
<1>4. ASSUME NEW x \in ToSet(p) PROVE x \in ToSet(p \o q)
  <2>1. PICK i \in 1 .. Len(p) : x = p[i]
    BY <1>4 DEF ToSet
  <2>2. i \in 1 .. Len(p \o q) /\ x = (p \o q)[i]
    BY <1>2, <2>1
  <2>3. QED
    BY <2>2 DEF ToSet
<1>5. ASSUME NEW x \in ToSet(q) PROVE x \in ToSet(p \o q)
  <2>1. PICK i \in 1 .. Len(q) : x = q[i]
    BY <1>5 DEF ToSet
  <2>2. /\ Len(p) + i \in Len(p) + 1 .. Len(p \o q) /\ Len(p) + i \in 1 .. Len(p \o q)
        /\ (Len(p) + i) - Len(p) = i
    BY <1>2, <2>1
  <2>3. x = (p \o q)[Len(p) + i]
    BY <1>2, <2>1, <2>2
  <2>4. QED
    BY <2>2, <2>3 DEF ToSet
<1>6. QED
  BY <1>3, <1>4, <1>5

\* What Handle reports when it takes an event in.
LEMMA AddOutputs ==
    ASSUME ManagerTypeOK, NEW e \in SentCall, NEW s \in Replicas, Mirrors(e.goid, s),
           Orphan(e) \/ DuplicateEntry(e) \/ Retain(e) \/ CloseAggregated(e)
             \/ CloseIncomplete(e) \/ ClosePrinted(e),
           NEW y, y = Shown(Anew(s, e), e)
    PROVE  /\ Output' \subseteq Output \cup y
           /\ evictedPIDs' = evictedPIDs /\ (Aggregate \/ Drilldown = Zero) =>
                Output \cup y \subseteq Output'
<1> DEFINE n == Anew(s, e)
           g == e.goid
           pid == PidOf[g]
           kept == AggKept(pid)
           room == evictedPIDs' = evictedPIDs
<1>0. /\ n \in Replicas /\ Depicts(EventsNow(e), StackNow(e), e.goid \in InvalidNow(e), n)
      /\ y = Shown(n, e)
  BY NowDepicts
<1>1. g \in Goroutines /\ pid \in Pids /\ e \in CallEvent /\ e \in Event
  <2>1. e \in Event /\ e \in CallEvent
    BY SentFields
  <2>2. QED
    BY <2>1, EventFields
<1>2. \A p \in Pids : kept[p] \in {<<>>, agg[p]}
  BY AggKeptKeeps
<1>3. room => \A p \in Pids : kept[p] = agg[p]
  <2>1. TouchPid(pid)
    BY DEF Orphan, DuplicateEntry, Retain, CloseAggregated, CloseIncomplete, ClosePrinted,
       Cleared, Store
  <2>2. room => Evicted(pid) = {}
    BY <2>1, EvictionShows DEF ManagerTypeOK
  <2>3. QED
    BY <2>2 DEF AggKept
<1>4. ASSUME agg' = kept, printed' = printed, y = {}
      PROVE  Output' \subseteq Output \cup y /\ (room => Output \cup y \subseteq Output')
  <2>1. ReportsKept(Pids)
    BY <1>2, <1>4 DEF ReportsKept
  <2>2. room => \A p \in Pids : agg'[p] = agg[p]
    BY <1>3, <1>4
  <2> HIDE DEF room, kept
  <2>3. QED
    BY <1>4, <2>1, <2>2, OutputKept
<1>5. CASE Orphan(e) \/ DuplicateEntry(e) \/ Retain(e)
  <2>1. agg' = kept /\ printed' = printed
    BY <1>5 DEF Orphan, DuplicateEntry, Retain
  <2>2. Skips(n, e) \/ Repeats(n, e) \/ ~Finishes(n, e)
    <3>1. IsOrphan(e) \/ IsDuplicate(e) \/ ~Closes(e)
      BY <1>5 DEF Orphan, DuplicateEntry, Retain
    <3> HIDE DEF n
    <3>2. QED
      BY <1>0, <3>1, NowDecides
  <2>3. y = {}
    <3> HIDE DEF n
    <3> QED BY <1>0, <2>2 DEF Shown
  <2> HIDE DEF room, kept
  <2>4. QED
    BY <1>4, <2>1, <2>3 DEF room
<1>6. CASE CloseIncomplete(e)
  <2>1. agg' = kept /\ printed' = printed
    BY <1>6 DEF CloseIncomplete
  <2>2. Aggregate /\ ~Trusted(e) /\ ~IsOrphan(e) /\ ~IsDuplicate(e) /\ Closes(e)
    BY <1>6 DEF CloseIncomplete, Appends
  <2> HIDE DEF room, kept, n
  <2>3. ~(~n.bad /\ ~Differs(n, e) /\ StackAfter(n, e) = <<>>)
    BY <1>0, <2>2, ClosedTaken
  <2>4. y = {}
    BY <1>0, <2>2, <2>3 DEF Shown
  <2>5. QED
    BY <1>4, <2>1, <2>4 DEF room
<1>7. CASE CloseAggregated(e)
  <2> DEFINE more == AggregateStack(Append(EventsNow(e), e)).pairs
  <2>1. /\ Aggregate /\ Trusted(e) /\ ~IsOrphan(e) /\ ~IsDuplicate(e) /\ Closes(e)
        /\ agg' = [kept EXCEPT ![pid] = @ \o more] /\ printed' = printed
    BY <1>7 DEF CloseAggregated, Appends
  <2>2. ToSet(more) = y
    <3> HIDE DEF room, kept, n
    <3> QED BY <1>0, <2>1, ClosedTaken
  <2>3. more \in Seq(PairedCall)
    <3>1. EventsNow(e) \in Seq(CallEvent)
      BY <1>1, NowType
    <3>2. Append(EventsNow(e), e) \in Seq(CallEvent)
      BY <1>1, <3>1, AppendFacts
    <3>3. AggregateStack(Append(EventsNow(e), e)) \in AggregateAcc
      BY <1>1, <3>1, <3>2, AggregateAppends
    <3>4. QED
      BY <3>3 DEF AggregateAcc
  <2>4. kept = [p \in Pids |-> kept[p]] /\ kept[pid] \in Seq(PairedCall)
    <3>1. kept = [p \in Pids |-> kept[p]]
      BY DEF AggKept
    <3>2. kept[pid] \in {<<>>, agg[pid]} /\ agg[pid] \in Seq(PairedCall)
      BY <1>1, <1>2 DEF ManagerTypeOK
    <3>3. <<>> \in Seq(PairedCall)
      OBVIOUS
    <3> HIDE DEF kept, pid
    <3>4. QED
      BY <3>1, <3>2, <3>3
  <2> HIDE DEF more, kept, pid, room
  <2>5. agg'[pid] = kept[pid] \o more /\ \A p \in Pids \ {pid} : agg'[p] = kept[p]
    BY <1>1, <2>1, <2>4
  <2>6. ToSet(agg'[pid]) = ToSet(kept[pid]) \cup y
    BY <2>2, <2>3, <2>4, <2>5, ToSetConcat
  <2>7. \A p \in Pids : ToSet(kept[p]) \subseteq ToSet(agg[p])
    BY <1>2 DEF ToSet
  <2>8. Output' \subseteq Output \cup y
    <3> SUFFICES ASSUME NEW x \in Output' PROVE x \in Output \cup y
      OBVIOUS
    <3>1. CASE x \in ToSet(printed)'
      BY <2>1, <3>1 DEF Output
    <3>2. ASSUME NEW p \in Pids, x \in ToSet(agg'[p]) PROVE x \in Output \cup y
      <4>1. CASE p = pid
        BY <1>1, <2>6, <2>7, <3>2, <4>1 DEF Output
      <4>2. CASE p # pid
        BY <2>5, <2>7, <3>2, <4>2 DEF Output
      <4>3. QED
        BY <4>1, <4>2
    <3>3. QED
      BY <3>1, <3>2 DEF Output
  <2>9. room => Output \cup y \subseteq Output'
    <3> SUFFICES ASSUME room, NEW x \in Output \cup y PROVE x \in Output'
      OBVIOUS
    <3>1. CASE x \in ToSet(printed)
      BY <2>1, <3>1 DEF Output
    <3>2. ASSUME NEW p \in Pids, x \in ToSet(agg[p]) PROVE x \in Output'
      <4>1. kept[p] = agg[p]
        BY <1>3, <3>2
      <4>2. x \in ToSet(agg'[p])
        <5>1. CASE p = pid
          BY <2>6, <3>2, <4>1, <5>1
        <5>2. CASE p # pid
          BY <2>5, <3>2, <4>1, <5>2
        <5>3. QED
          BY <5>1, <5>2
      <4>3. QED
        BY <3>2, <4>2 DEF Output
    <3>3. CASE x \in y
      BY <1>1, <2>6, <3>3 DEF Output
    <3>4. QED
      BY <3>1, <3>2, <3>3 DEF Output
  <2>10. QED
    BY <2>8, <2>9 DEF room
<1>8. CASE ClosePrinted(e)
  <2> DEFINE more == PrintStack(Append(EventsNow(e), e)).pairs
  <2>1. /\ ~Aggregate /\ ~IsOrphan(e) /\ ~IsDuplicate(e) /\ Closes(e) /\ agg' = kept
        /\ printed' = IF Drilldown \in {Zero, e.ip} THEN printed \o more ELSE printed
    BY <1>8 DEF ClosePrinted, Appends
  <2>2. ToSet(more) = y
    <3> HIDE DEF room, kept, n
    <3> QED BY <1>0, <2>1, ClosedTaken
  <2>3. more \in Seq(PairedCall) /\ printed \in Seq(PairedCall)
    <3>1. EventsNow(e) \in Seq(CallEvent)
      BY <1>1, NowType
    <3>2. Append(EventsNow(e), e) \in Seq(CallEvent)
      BY <1>1, <3>1, AppendFacts
    <3>3. PrintStack(Append(EventsNow(e), e)) \in PrintAcc
      BY <3>2, PrintStackType
    <3>4. QED
      BY <3>3 DEF PrintAcc, ManagerTypeOK
  <2>4. ToSet(printed') \subseteq ToSet(printed) \cup y /\ ToSet(printed) \subseteq ToSet(printed')
        /\ (Drilldown = Zero => y \subseteq ToSet(printed'))
    <3>1. ToSet(printed \o more) = ToSet(printed) \cup y
      BY <2>2, <2>3, ToSetConcat
    <3>2. QED
      BY <2>1, <3>1
  <2> HIDE DEF more, kept, pid, room
  <2>5. \A p \in Pids : ToSet(agg'[p]) \subseteq ToSet(agg[p])
    BY <1>2, <2>1 DEF ToSet
  <2>6. room => \A p \in Pids : agg'[p] = agg[p]
    BY <1>3, <2>1
  <2>7. Output' \subseteq Output \cup y
    BY <2>4, <2>5 DEF Output
  <2>8. room /\ Drilldown = Zero => Output \cup y \subseteq Output'
    BY <2>4, <2>6 DEF Output
  <2>9. QED
    BY <2>1, <2>7, <2>8 DEF room
<1>9. QED
  BY <1>5, <1>6, <1>7, <1>8

\* Handle reports nothing but what the event yields, all of it where there is room.
LEMMA HandleOutputs ==
    ASSUME ManagerTypeOK, SuppressedInv, NEW e \in Sent, Handle(e),
           NEW s \in Replicas, Mirrors(e.goid, s) \/ (Adaptive /\ Mirrors(e.goid, Blank)),
           NEW y, y = Yield(e.goid, s, e)
    PROVE  /\ Output' \subseteq Output \cup y
           /\ Mirrors(e.goid, s) /\ Roomy /\ (Aggregate \/ Drilldown = Zero) =>
                Output \cup y \subseteq Output'
<1> DEFINE g == e.goid
<1>0. g \in Goroutines /\ (e.location # EXIT => e \in SentCall)
  BY EventFields DEF Sent, SentCall
<1>1. CASE HandleExit(e) \/ HandleAbort(e) \/ Suppressed(e) \/ OverBudget(e)
  <2>1. agg' = agg /\ printed' = printed
    BY <1>1 DEF HandleExit, HandleAbort, Suppressed, OverBudget
  <2>2. Output' = Output
    BY <2>1 DEF Output
  <2>3. CASE HandleExit(e) \/ HandleAbort(e)
    <3>1. y = {}
      BY <2>3 DEF HandleExit, HandleAbort, Yield, Leaves
    <3>2. QED
      BY <2>2, <3>1
  <2>4. CASE Suppressed(e)
    <3>1. ~Roomy
      BY <2>4 DEF Suppressed, IsSuppressed, Roomy
    <3>2. QED
      BY <2>2, <3>1
  <2>5. CASE OverBudget(e)
    <3>1. discarded \in [Reasons -> Nat] /\ "overBudget" \in Reasons /\ "incomplete" # "overBudget"
      BY DEF ManagerTypeOK, Reasons
    <3>2. /\ DiscardedNow(e) \in [Reasons -> Nat]
          /\ DiscardedNow(e)["overBudget"] = discarded["overBudget"]
      BY <3>1 DEF DiscardedNow, Discard, Reasons
    <3>3. discarded'["overBudget"] = discarded["overBudget"] + 1
      BY <2>5, <3>1, <3>2 DEF OverBudget, Discard
    <3>4. discarded["overBudget"] \in Nat
      BY <3>1
    <3>5. ~Roomy
      BY <3>3, <3>4 DEF Roomy
    <3>6. QED
      BY <2>2, <3>5
  <2>6. QED
    BY <1>1, <2>3, <2>4, <2>5
<1>2. CASE Orphan(e) \/ DuplicateEntry(e) \/ Retain(e) \/ CloseAggregated(e)
             \/ CloseIncomplete(e) \/ ClosePrinted(e)
  <2>1. e \in SentCall /\ ~Leaves(e)
    BY <1>0, <1>2 DEF Orphan, DuplicateEntry, Retain, CloseAggregated, CloseIncomplete,
       ClosePrinted, Appends, Remembers, Admissible, Ordinary, Leaves
  <2>2. y = Shown(Anew(s, e), e)
    BY <2>1 DEF Yield
  <2>3. CASE Mirrors(g, s)
    <3>1. /\ Output' \subseteq Output \cup y
          /\ evictedPIDs' = evictedPIDs /\ (Aggregate \/ Drilldown = Zero) =>
               Output \cup y \subseteq Output'
      BY <1>2, <2>1, <2>2, <2>3, AddOutputs
    <3>2. QED
      BY <3>1 DEF Roomy
  <2>4. CASE Adaptive /\ Mirrors(g, Blank) /\ ~Mirrors(g, s)
    <3> DEFINE z == Shown(Anew(Blank, e), e)
    <3>1. z \subseteq y
      BY <2>1, <2>2, <2>4, BlankTakes
    <3>2. \A w : w = z => Output' \subseteq Output \cup w
      BY <1>2, <2>1, <2>4, BlankType, AddOutputs
    <3> HIDE DEF z
    <3>3. QED
      BY <2>4, <3>1, <3>2
  <2>5. QED
    BY <2>3, <2>4
<1>3. QED
  BY <1>1, <1>2 DEF Handle

\* Handle never gives room back, and suppresses only for want of it.
LEMMA HandleRoom ==
    ASSUME ManagerTypeOK, NEW e \in Event, Handle(e),
           discarded'["overBudget"] = 0, evictedPIDs' = 0
    PROVE  /\ discarded["overBudget"] = 0 /\ evictedPIDs = 0
           /\ suppressed' \subseteq suppressed
<1>0. /\ discarded \in [Reasons -> Nat] /\ evictedPIDs \in Nat
      /\ "overBudget" \in Reasons /\ "incomplete" \in Reasons /\ "aborted" \in Reasons
      /\ "incomplete" # "overBudget" /\ "aborted" # "overBudget"
  BY DEF ManagerTypeOK, Reasons
<1>1. /\ DiscardedNow(e) \in [Reasons -> Nat]
      /\ DiscardedNow(e)["overBudget"] = discarded["overBudget"]
  BY <1>0 DEF DiscardedNow, Discard
<1>2. \A d \in [Reasons -> Nat], r \in Reasons \ {"overBudget"} :
         Discard(d, r)["overBudget"] = d["overBudget"]
  BY <1>0 DEF Discard
<1>3. ASSUME NEW pid, TouchPid(pid) PROVE evictedPIDs = 0
  <2>1. Cardinality(Evicted(pid)) \in Nat
    BY FS_EmptySet, FS_Singleton, FS_CardinalityType DEF Evicted
  <2>2. QED
    BY <1>0, <1>3, <2>1 DEF TouchPid
<1>4. SuppressedNow(e) \subseteq suppressed
  BY DEF SuppressedNow
<1>5. CASE HandleExit(e) \/ HandleAbort(e) \/ Suppressed(e)
  BY <1>0, <1>2, <1>5 DEF HandleExit, HandleAbort, Suppressed
<1>6. CASE OverBudget(e)
  <2>1. discarded'["overBudget"] = discarded["overBudget"] + 1
    BY <1>0, <1>1, <1>6 DEF OverBudget, Discard
  <2>2. discarded["overBudget"] \in Nat
    BY <1>0
  <2>3. QED
    BY <2>1, <2>2
<1>7. CASE Orphan(e) \/ DuplicateEntry(e) \/ Retain(e) \/ CloseAggregated(e)
             \/ CloseIncomplete(e) \/ ClosePrinted(e)
  <2>1. TouchPid(PidOf[e.goid]) /\ suppressed' \subseteq SuppressedNow(e)
    BY <1>7 DEF Orphan, DuplicateEntry, Retain, CloseAggregated, CloseIncomplete, ClosePrinted,
       Cleared, Store
  <2>2. discarded' = DiscardedNow(e) \/ discarded' = Discard(DiscardedNow(e), "incomplete")
    BY <1>7 DEF Orphan, DuplicateEntry, Retain, CloseAggregated, CloseIncomplete, ClosePrinted
  <2>3. discarded'["overBudget"] = discarded["overBudget"]
    BY <1>0, <1>1, <1>2, <2>2
  <2>4. QED
    BY <1>3, <1>4, <2>1, <2>3
<1>8. QED
  BY <1>5, <1>6, <1>7 DEF Handle

-----------------------------------------------------------------------------
(* What an event of the programs does to a replica *)

\* The event yields nothing.
Silent(g, s, e) == Yield(g, s, e) = {}

\* t is the replica after the first entry.
Opens(e, t) ==
    /\ t.open = <<e>> /\ t.pairs = {} /\ t.stack = <<e.ip>> /\ t.bad = FALSE /\ t.last = {e}

\* A trace that is given up leaves nothing.
LEMMA LeavingReplayed ==
    ASSUME NEW g, NEW s \in Replicas, NEW e, e.goid = g, Leaves(e)
    PROVE  Replayed(g, s, e) = Blank /\ Silent(g, s, e)
BY DEF Replayed, Yield, Silent

\* The first entry of a sample.
LEMMA FirstReplayed ==
    ASSUME NEW g, NEW e \in SentCall, e.goid = g, e.location = ENT,
           e.flag = IF Adaptive THEN START ELSE NoFlag, NEW t, t = Replayed(g, Blank, e)
    PROVE  t \in Replicas /\ Silent(g, Blank, e) /\ Opens(e, t)
<1>1. e \in CallEvent /\ e.ip \in Functions /\ ENT # RET /\ ENT # EXIT
  BY SentFields
<1>2. START # ABORT /\ NoFlag # ABORT /\ START # END /\ NoFlag # END
  BY DEF START, ABORT, NoFlag, END
<1>3. ~Leaves(e)
  BY <1>1, <1>2 DEF Leaves
<1>4. Blank.open = <<>> /\ Blank.pairs = {} /\ Blank.stack = <<>> /\ Blank.bad = FALSE /\ Blank.last = {}
  BY DEF Blank
<1>5. Anew(Blank, e) = Blank
  BY DEF Anew
<1>6. ~Skips(Blank, e) /\ ~Repeats(Blank, e) /\ ~Differs(Blank, e)
  BY <1>1, <1>4 DEF Skips, Repeats, Differs
<1>7. /\ StackAfter(Blank, e) = <<e.ip>> /\ OpenAfter(Blank, e) = <<e>> /\ PairsAfter(Blank, e) = {}
  <2>1. Append(<<>>, e.ip) = <<e.ip>> /\ Append(<<>>, e) = <<e>>
    OBVIOUS
  <2>2. QED
    BY <1>4, <2>1 DEF StackAfter, OpenAfter, PairsAfter
<1>8. ~Finishes(Blank, e)
  BY <1>2, <1>7 DEF Finishes
<1>9. Taken(Blank, e) = [open |-> <<e>>, pairs |-> {}, stack |-> <<e.ip>>, bad |-> FALSE, last |-> {e}]
  BY <1>4, <1>6, <1>7, <1>8 DEF Taken
<1>10. t = Taken(Blank, e)
  BY <1>3, <1>5 DEF Replayed
<1>11. Silent(g, Blank, e)
  BY <1>3, <1>5, <1>8 DEF Yield, Shown, Silent
<1>12. t \in Replicas
  BY <1>10, BlankType, TakenType
<1>13. Opens(e, t)
  BY <1>9, <1>10 DEF Opens
<1>14. QED
  BY <1>11, <1>12, <1>13

\* t is s with an entry more, or with its last entry replaced.
Grown(s, e, t) ==
    /\ t.open = Append(s.open, e) /\ t.stack = Append(s.stack, e.ip)
    /\ t.pairs = s.pairs /\ t.bad = s.bad /\ t.last = {e}

Swapped(s, e, t) ==
    /\ t.open = Append(Drop(s.open), e) /\ t.stack = s.stack
    /\ t.pairs = s.pairs /\ t.bad = s.bad /\ t.last = {e}

\* An entry within a sample.
LEMMA EntryReplayed ==
    ASSUME NEW g, NEW s \in Replicas, NEW e \in SentCall, e.goid = g, e.location = ENT,
           e.flag = NoFlag, ~Adaptive \/ s.last # {}
    PROVE  /\ Replayed(g, s, e) \in Replicas /\ Silent(g, s, e)
           /\ Replayed(g, s, e).last = {e}
           /\ Repeats(s, e) => Swapped(s, e, Replayed(g, s, e))
           /\ ~Repeats(s, e) => Grown(s, e, Replayed(g, s, e))
<1> DEFINE t == Replayed(g, s, e)
<1>1. e \in CallEvent /\ e.ip \in Functions /\ ENT # RET /\ ENT # EXIT
  BY SentFields
<1>2. NoFlag # ABORT /\ START # NoFlag /\ NoFlag # END
  BY DEF START, ABORT, NoFlag, END
<1>3. ~Leaves(e) /\ Anew(s, e) = s
  BY <1>1, <1>2 DEF Leaves, Anew
<1>4. ~Skips(s, e) /\ ~Differs(s, e)
  BY <1>1 DEF Skips, Differs
<1>5. /\ s.open \in Seq(CallEvent) /\ s.stack \in Seq(Functions) /\ s.bad \in BOOLEAN
      /\ s = [open |-> s.open, pairs |-> s.pairs, stack |-> s.stack, bad |-> s.bad, last |-> s.last]
  BY DEF Replicas
<1>6. /\ StackAfter(s, e) = Append(s.stack, e.ip) /\ OpenAfter(s, e) = Append(s.open, e)
      /\ PairsAfter(s, e) = s.pairs
  BY DEF StackAfter, OpenAfter, PairsAfter
<1>7. StackAfter(s, e) # <<>>
  BY <1>1, <1>5, <1>6, DropAppend
<1>8. ~Finishes(s, e)
  BY <1>2, <1>7 DEF Finishes
<1>9. t = Taken(s, e) /\ t \in Replicas
  BY <1>3, TakenType DEF Replayed
<1>10. Silent(g, s, e)
  BY <1>3, <1>8 DEF Yield, Shown, Silent
<1> HIDE DEF t
<1>11. CASE Repeats(s, e)
  <2>1. t = [s EXCEPT !.open = Append(Drop(@), e), !.last = {e}]
    BY <1>4, <1>9, <1>11 DEF Taken
  <2>2. Swapped(s, e, t)
    BY <1>5, <2>1 DEF Swapped
  <2>3. QED
    BY <1>9, <1>10, <1>11, <2>2 DEF Swapped, t
<1>12. CASE ~Repeats(s, e)
  <2>1. t = [open |-> OpenAfter(s, e), pairs |-> PairsAfter(s, e), stack |-> StackAfter(s, e),
             bad |-> s.bad \/ Differs(s, e), last |-> {e}]
    BY <1>4, <1>8, <1>9, <1>12 DEF Taken
  <2>2. t.bad = s.bad
    BY <1>4, <1>5, <2>1
  <2>3. Grown(s, e, t)
    BY <1>6, <2>1, <2>2 DEF Grown
  <2>4. QED
    BY <1>9, <1>10, <1>12, <2>3 DEF Grown, t
<1>13. QED
  BY <1>11, <1>12

\* A return that changes nothing, one that ends what the replica has, and one that is
\* not the last.
Rests(s, t, y) == t = s /\ y = {}
Shuts(s, e, t, y) ==
    /\ t = Blank
    /\ y = IF Aggregate => ~s.bad /\ ~Differs(s, e) /\ StackAfter(s, e) = <<>>
             THEN PairsAfter(s, e) ELSE {}
Passes(s, e, t, y) ==
    /\ y = {} /\ t.open = OpenAfter(s, e) /\ t.pairs = PairsAfter(s, e)
    /\ t.stack = StackAfter(s, e) /\ t.bad = (s.bad \/ Differs(s, e)) /\ t.last = {e}

\* A return within a sample, or its last.
LEMMA ReturnReplayed ==
    ASSUME NEW g, NEW s \in Replicas, NEW e \in SentCall, e.goid = g, e.location = RET,
           e.flag \in {NoFlag, END}, NEW t, t = Replayed(g, s, e), NEW y, y = Yield(g, s, e)
    PROVE  /\ t \in Replicas
           /\ s.last = {} => Rests(s, t, y)
           /\ s.last # {} /\ Finishes(s, e) => Shuts(s, e, t, y)
           /\ s.last # {} /\ ~Finishes(s, e) => Passes(s, e, t, y)
<1>1. e \in CallEvent /\ e.ip \in Functions /\ ENT # RET /\ RET # EXIT
  BY SentFields
<1>2. NoFlag # ABORT /\ END # ABORT /\ START # NoFlag /\ START # END
  BY DEF START, ABORT, NoFlag, END
<1>3. ~Leaves(e) /\ Anew(s, e) = s
  BY <1>1, <1>2 DEF Leaves, Anew
<1>4. Skips(s, e) <=> s.last = {}
  BY <1>1 DEF Skips
<1>5. ~Repeats(s, e)
  BY <1>1, OnlyEntriesRepeat
<1>6. t = Taken(s, e) /\ t \in Replicas /\ y = Shown(s, e)
  BY <1>3, TakenType DEF Replayed, Yield
<1>7. CASE s.last = {}
  BY <1>4, <1>6, <1>7 DEF Taken, Shown, Rests
<1>8. CASE s.last # {} /\ Finishes(s, e)
  BY <1>4, <1>5, <1>6, <1>8 DEF Taken, Shown, Shuts
<1>9. CASE s.last # {} /\ ~Finishes(s, e)
  <2>1. t = [open |-> OpenAfter(s, e), pairs |-> PairsAfter(s, e), stack |-> StackAfter(s, e),
             bad |-> s.bad \/ Differs(s, e), last |-> {e}]
    BY <1>4, <1>5, <1>6, <1>9 DEF Taken
  <2>2. y = {}
    BY <1>6, <1>9 DEF Shown
  <2>3. QED
    BY <1>6, <1>9, <2>1, <2>2 DEF Passes
<1>10. QED
  BY <1>7, <1>8, <1>9

EntryLast(s) == \E d \in s.last : d.location = ENT

\* Open entries in order of time.
Ascending(open, c) ==
    /\ \A i \in 1 .. Len(open) : open[i].time <= c
    /\ \A j \in 1 .. Len(open) : \A i \in 1 .. j - 1 : open[i].time < open[j].time

\* Open entries have times, and every position holds one.
LEMMA OpenFields ==
    ASSUME NEW open \in Seq(CallEvent)
    PROVE  /\ Len(open) \in Nat /\ (open # <<>> <=> Len(open) > 0)
           /\ \A i \in 1 .. Len(open) : open[i] \in CallEvent /\ open[i].time \in Nat
<1>1. \A i \in 1 .. Len(open) : open[i] \in CallEvent
  OBVIOUS
<1>2. \A e \in CallEvent : e.time \in Nat
  BY DEF CallEvent, Event, EventRecord
<1>3. QED
  BY <1>1, <1>2, EmptySeqFacts

\* A later entry goes on top,
LEMMA OpenPushed ==
    ASSUME NEW open \in Seq(CallEvent), NEW e \in CallEvent, NEW c \in Nat,
           Ascending(open, c), e.time = c + 1
    PROVE  /\ Ascending(Append(open, e), c + 1) /\ Ips(Append(open, e)) = Append(Ips(open), e.ip)
           /\ Len(Append(open, e)) = Len(open) + 1 /\ Append(open, e) # <<>> /\ LIFO(Append(open, e)) = e
           /\ Append(open, e)[Len(open) + 1] = e /\ \A i \in 1 .. Len(open) : Append(open, e)[i] = open[i]
<1> DEFINE more == Append(open, e)
<1>1. /\ more \in Seq(CallEvent) /\ Len(more) = Len(open) + 1 /\ more[Len(open) + 1] = e
      /\ \A i \in 1 .. Len(open) : more[i] = open[i]
  BY AppendFacts
<1>2. /\ Len(open) \in Nat /\ more # <<>> /\ LIFO(more) = e
      /\ \A i \in 1 .. Len(open) : open[i].time \in Nat
  BY OpenFields, DropAppend
<1>3. Ips(more) = Append(Ips(open), e.ip)
  BY IpsAppend
<1>4. Ascending(more, c + 1)
  <2>1. ASSUME NEW i \in 1 .. Len(open) PROVE more[i].time <= c
    BY <1>1, <2>1 DEF Ascending
  <2>2. ASSUME NEW i \in 1 .. Len(more) PROVE more[i].time <= c + 1
    <3>1. CASE i = Len(open) + 1
      BY <1>1, <3>1
    <3>2. CASE i # Len(open) + 1
      <4>1. i \in 1 .. Len(open)
        BY <1>1, <1>2, <3>2
      <4>2. QED
        BY <1>1, <1>2, <2>1, <4>1
    <3>3. QED
      BY <3>1, <3>2
  <2>3. ASSUME NEW j \in 1 .. Len(more), NEW i \in 1 .. j - 1 PROVE more[i].time < more[j].time
    <3>1. i \in 1 .. Len(open)
      BY <1>1, <1>2
    <3>2. CASE j = Len(open) + 1
      BY <1>1, <1>2, <2>1, <3>1, <3>2
    <3>3. CASE j # Len(open) + 1
      <4>1. j \in 1 .. Len(open)
        BY <1>1, <1>2, <3>3
      <4>2. QED
        BY <1>1, <3>1, <4>1 DEF Ascending
    <3>4. QED
      BY <3>2, <3>3
  <2>4. QED
    BY <2>2, <2>3 DEF Ascending
<1>5. QED
  BY <1>1, <1>2, <1>3, <1>4

\* the one on top goes away,
LEMMA OpenPopped ==
    ASSUME NEW open \in Seq(CallEvent), open # <<>>, NEW c \in Nat, Ascending(open, c)
    PROVE  /\ Drop(open) \in Seq(CallEvent)
           /\ Ascending(Drop(open), c) /\ Ascending(Drop(open), c + 1)
           /\ Ips(Drop(open)) = Drop(Ips(open))
           /\ LIFO(Ips(open)) = LIFO(open).ip /\ Len(Drop(open)) = Len(open) - 1
           /\ \A i \in 1 .. Len(open) - 1 : i \in 1 .. Len(open) /\ Drop(open)[i] = open[i]
<1> DEFINE less == Drop(open)
<1>1. /\ less \in Seq(CallEvent) /\ Len(less) = Len(open) - 1
      /\ \A i \in 1 .. Len(open) - 1 : less[i] = open[i]
  BY LastFacts
<1>2. Len(open) \in Nat /\ Len(open) > 0 /\ \A i \in 1 .. Len(open) : open[i].time \in Nat
  BY OpenFields
<1>3. Ips(less) = Drop(Ips(open)) /\ LIFO(Ips(open)) = LIFO(open).ip
  BY IpsDrop
<1>4. \A i \in 1 .. Len(open) - 1 : i \in 1 .. Len(open)
  BY <1>2
<1>5. \A i \in 1 .. Len(less) : less[i].time <= c /\ less[i].time <= c + 1
  <2>1. ASSUME NEW i \in 1 .. Len(less) PROVE less[i].time <= c /\ less[i].time <= c + 1
    <3>1. i \in 1 .. Len(open) /\ less[i] = open[i]
      BY <1>1, <1>4
    <3>2. open[i].time <= c /\ open[i].time \in Nat
      BY <1>2, <3>1 DEF Ascending
    <3>3. QED
      BY <3>1, <3>2
  <2>2. QED
    BY <2>1
<1>6. ASSUME NEW j \in 1 .. Len(less), NEW i \in 1 .. j - 1 PROVE less[i].time < less[j].time
  <2>1. j \in 1 .. Len(open) - 1 /\ i \in 1 .. Len(open) - 1
    BY <1>1, <1>2
  <2>2. QED
    BY <1>1, <1>4, <2>1 DEF Ascending
<1>7. QED
  BY <1>1, <1>3, <1>4, <1>5, <1>6 DEF Ascending

\* or is replaced.
LEMMA OpenSwapped ==
    ASSUME NEW open \in Seq(CallEvent), open # <<>>, NEW e \in CallEvent, NEW c \in Nat,
           Ascending(open, c), e.time = c + 1, e.ip = LIFO(open).ip
    PROVE  /\ Ascending(Append(Drop(open), e), c + 1) /\ Ips(Append(Drop(open), e)) = Ips(open)
           /\ Len(Append(Drop(open), e)) = Len(open) /\ Append(Drop(open), e) # <<>>
           /\ LIFO(Append(Drop(open), e)) = e /\ Append(Drop(open), e)[Len(open)] = e
           /\ \A i \in 1 .. Len(open) - 1 : Append(Drop(open), e)[i] = open[i]
<1> DEFINE less == Drop(open)
<1>1. Len(open) \in Nat /\ Len(open) > 0
  BY OpenFields
<1>2. /\ less \in Seq(CallEvent) /\ Ascending(less, c) /\ Ips(less) = Drop(Ips(open))
      /\ LIFO(Ips(open)) = LIFO(open).ip /\ Len(less) = Len(open) - 1
      /\ \A i \in 1 .. Len(open) - 1 : less[i] = open[i]
  BY OpenPopped
<1> HIDE DEF less
<1>4. /\ Ascending(Append(less, e), c + 1) /\ Ips(Append(less, e)) = Append(Ips(less), e.ip)
      /\ Len(Append(less, e)) = Len(less) + 1 /\ Append(less, e) # <<>>
      /\ LIFO(Append(less, e)) = e /\ Append(less, e)[Len(less) + 1] = e
      /\ \A i \in 1 .. Len(less) : Append(less, e)[i] = less[i]
  BY <1>2, OpenPushed
<1>5. Ips(open) \in Seq(Functions) /\ Ips(open) # <<>>
  BY IpsFacts
<1>6. Ips(open) = Append(Drop(Ips(open)), LIFO(Ips(open)))
  BY <1>5, LastSplit
<1>7. Len(less) + 1 = Len(open)
  BY <1>1, <1>2
<1>8. Ips(Append(less, e)) = Ips(open)
  BY <1>2, <1>4, <1>6
<1>9. QED
  BY <1>2, <1>4, <1>7, <1>8 DEF less

\* Two open entries of one time are one.
LEMMA OneOfTime ==
    ASSUME NEW open \in Seq(CallEvent), NEW c, Ascending(open, c),
           NEW i \in 1 .. Len(open), NEW j \in 1 .. Len(open)
    PROVE  /\ open[i].time = open[j].time => i = j
           /\ open[i].time < open[j].time => i < j
<1>1. Len(open) \in Nat /\ open[i].time \in Nat /\ open[j].time \in Nat
  BY OpenFields
<1>2. i < j => open[i].time < open[j].time
  <2>1. i < j => i \in 1 .. j - 1
    OBVIOUS
  <2>2. QED
    BY <2>1 DEF Ascending
<1>3. j < i => open[j].time < open[i].time
  <2>1. j < i => j \in 1 .. i - 1
    OBVIOUS
  <2>2. QED
    BY <2>1 DEF Ascending
<1>4. QED
  BY <1>1, <1>2, <1>3

\* A return takes at most one entry off the observed stack.
LEMMA OneOff ==
    ASSUME NEW s \in Replicas, NEW e \in SentCall, e.location = RET
    PROVE  /\ StackAfter(s, e) \in Seq(Functions) /\ Len(StackAfter(s, e)) \in Nat
           /\ Len(StackAfter(s, e)) >= Len(s.stack) - 1 /\ Len(s.stack) \in Nat
           /\ Len(StackAfter(s, e)) > 0 => StackAfter(s, e) # <<>>
<1>1. s.stack \in Seq(Functions) /\ StackAfter(s, e) \in Seq(Functions) /\ ENT # RET
  BY ReplicaFields, PartsType, SentFields
<1>2. StackAfter(s, e) = s.stack \/ (StackAfter(s, e) = Drop(s.stack) /\ s.stack # <<>>)
  BY <1>1 DEF StackAfter
<1>3. Len(s.stack) \in Nat /\ Len(StackAfter(s, e)) \in Nat
  BY <1>1
<1>4. s.stack # <<>> => Len(Drop(s.stack)) = Len(s.stack) - 1
  BY <1>1, LastFacts
<1>5. Len(StackAfter(s, e)) >= Len(s.stack) - 1
  <2>1. CASE StackAfter(s, e) = s.stack
    <3>1. Len(StackAfter(s, e)) = Len(s.stack)
      BY <2>1, Zenon
    <3>2. QED
      BY <1>3, <3>1
  <2>2. CASE StackAfter(s, e) = Drop(s.stack) /\ s.stack # <<>>
    <3>1. Len(StackAfter(s, e)) = Len(Drop(s.stack))
      BY <2>2, Zenon
    <3>2. QED
      BY <1>3, <1>4, <2>2, <3>1
  <2>3. QED
    BY <1>2, <2>1, <2>2
<1>6. Len(StackAfter(s, e)) > 0 => StackAfter(s, e) # <<>>
  BY <1>1, EmptySeqFacts
<1>7. QED
  BY <1>1, <1>3, <1>5, <1>6

-----------------------------------------------------------------------------
(* A queue of events, replayed *)

\* The settings stay, and so does what an event does.
LEMMA ReplayedSame ==
    ASSUME cfg' = cfg, NEW g, NEW s, NEW e
    PROVE  Replayed(g, s, e)' = Replayed(g, s, e) /\ Yield(g, s, e)' = Yield(g, s, e)
<1>1. Adaptive' = Adaptive /\ Aggregate' = Aggregate
  BY DEF Adaptive, Aggregate
<1>2. \A r : Differs(r, e)' = Differs(r, e)
  BY <1>1 DEF Differs
<1>3. \A r : StackAfter(r, e)' = StackAfter(r, e) /\ Skips(r, e)' = Skips(r, e)
  BY <1>1, <1>2 DEF StackAfter, Skips
<1>4. \A r : Finishes(r, e)' = Finishes(r, e)
  BY <1>1, <1>3 DEF Finishes
<1>5. \A r : Taken(r, e)' = Taken(r, e)
  BY <1>2, <1>3, <1>4 DEF Taken
<1>6. \A r : Shown(r, e)' = Shown(r, e)
  BY <1>1, <1>2, <1>3, <1>4 DEF Shown
<1>7. Leaves(e)' = Leaves(e) /\ Anew(s, e)' = Anew(s, e)
  BY <1>1 DEF Leaves, Anew
<1>8. Taken(Anew(s, e), e)' = Taken(Anew(s, e), e) /\ Shown(Anew(s, e), e)' = Shown(Anew(s, e), e)
  <2>1. PICK r : r = Anew(s, e)
    OBVIOUS
  <2>2. Taken(r, e)' = Taken(r, e) /\ Shown(r, e)' = Shown(r, e)
    BY <1>5, <1>6
  <2>3. QED
    BY <1>7, <2>1, <2>2
<1>9. QED
  BY <1>7, <1>8 DEF Replayed, Yield

\* The calls that g has paired are its own.
Own(g, s) == \A c \in s.pairs : c.goid = g

\* An event adds none of another goroutine, and yields none.
LEMMA OwnReplayed ==
    ASSUME NEW g, NEW s \in Replicas, Own(g, s), NEW e \in Sent
    PROVE  Own(g, Replayed(g, s, e)) /\ \A c \in Yield(g, s, e) : c.goid = g
<1>1. CASE e.goid # g \/ Leaves(e)
  <2>1. Own(g, Blank)
    BY DEF Own, Blank
  <2>2. QED
    BY <1>1, <2>1 DEF Replayed, Yield
<1>2. CASE e.goid = g /\ ~Leaves(e)
  <2>1. PICK r : r = Anew(s, e)
    OBVIOUS
  <2>2. Own(g, r) /\ r \in Replicas
    BY <2>1, BlankType DEF Anew, Own, Blank
  <2>3. \A c \in PairsAfter(r, e) : c.goid = g
    BY <1>2, <2>2 DEF PairsAfter, Pair, Own
  <2>4. r = [open |-> r.open, pairs |-> r.pairs, stack |-> r.stack, bad |-> r.bad, last |-> r.last]
    BY <2>2 DEF Replicas
  <2>5. Own(g, Taken(r, e))
    <3>1. CASE Skips(r, e)
      BY <2>2, <3>1 DEF Taken
    <3>2. CASE ~Skips(r, e) /\ Repeats(r, e)
      <4>1. Taken(r, e).pairs = r.pairs
        BY <2>4, <3>2 DEF Taken
      <4>2. QED
        BY <2>2, <4>1 DEF Own
    <3>3. CASE ~Skips(r, e) /\ ~Repeats(r, e) /\ Finishes(r, e)
      BY <3>3 DEF Taken, Own, Blank
    <3>4. CASE ~Skips(r, e) /\ ~Repeats(r, e) /\ ~Finishes(r, e)
      <4>1. Taken(r, e).pairs = PairsAfter(r, e)
        BY <3>4 DEF Taken
      <4>2. QED
        BY <2>3, <4>1 DEF Own
    <3>5. QED
      BY <3>1, <3>2, <3>3, <3>4
  <2>6. \A c \in Shown(r, e) : c.goid = g
    BY <2>3 DEF Shown
  <2>7. Replayed(g, s, e) = Taken(r, e) /\ Yield(g, s, e) = Shown(r, e)
    BY <1>2, <2>1 DEF Replayed, Yield
  <2>8. QED
    BY <2>5, <2>6, <2>7, Zenon
<1>3. QED
  BY <1>1, <1>2

\* Replicas of g before and after each event of the queue q.
Chain(g, q, m) ==
    /\ q \in Seq(Sent) /\ m \in [0 .. Len(q) -> Replicas]
    /\ \A k \in 0 .. Len(q) : Own(g, m[k])
    /\ \A k \in 1 .. Len(q) : m[k] = Replayed(g, m[k - 1], q[k])

\* What the events of q yield from k on.
Yields(g, q, m) == UNION {Yield(g, m[k - 1], q[k]) : k \in 1 .. Len(q)}

\* The settings stay.
LEMMA ChainSame ==
    ASSUME cfg' = cfg, NEW g, NEW q, NEW m, Chain(g, q, m)
    PROVE  Chain(g, q, m)' /\ Yields(g, q, m)' = Yields(g, q, m)
<1>1. \A k : /\ Replayed(g, m[k - 1], q[k])' = Replayed(g, m[k - 1], q[k])
             /\ Yield(g, m[k - 1], q[k])' = Yield(g, m[k - 1], q[k])
  BY ReplayedSame
<1>2. QED
  BY <1>1 DEF Chain, Yields, Own

\* An event more.
LEMMA ChainPushed ==
    ASSUME NEW g, NEW q, NEW m, Chain(g, q, m), NEW e \in Sent,
           NEW t, t = Replayed(g, m[Len(q)], e), NEW y, y = Yield(g, m[Len(q)], e)
    PROVE  \E n : /\ Chain(g, Append(q, e), n) /\ n[0] = m[0] /\ n[Len(Append(q, e))] = t
                  /\ Yields(g, Append(q, e), n) = Yields(g, q, m) \cup y
<1> DEFINE L == Len(q)
           r == Append(q, e)
           n == [k \in 0 .. L + 1 |-> IF k = L + 1 THEN t ELSE m[k]]
<1>1. L \in Nat /\ q \in Seq(Sent) /\ m \in [0 .. L -> Replicas]
  BY DEF Chain
<1>2. /\ r \in Seq(Sent) /\ Len(r) = L + 1 /\ r[L + 1] = e /\ \A i \in 1 .. L : r[i] = q[i]
  BY <1>1, AppendFacts
<1> HIDE DEF r
<1>3. m[L] \in Replicas /\ Own(g, m[L])
  BY <1>1 DEF Chain
<1>4. t \in Replicas /\ Own(g, t)
  BY <1>3, ReplayedType, OwnReplayed
<1>5. n[L + 1] = t /\ \A k \in 0 .. L : n[k] = m[k]
  BY <1>1
<1>6. n \in [0 .. Len(r) -> Replicas]
  BY <1>1, <1>2, <1>4
<1> HIDE DEF n
<1>7. \A k \in 0 .. L + 1 : k = L + 1 \/ k \in 0 .. L
  BY <1>1
<1>8. \A k \in 0 .. Len(r) : Own(g, n[k])
  BY <1>2, <1>4, <1>5, <1>7 DEF Chain
<1>9. \A k \in 1 .. L : k \in 1 .. L + 1 /\ k - 1 \in 0 .. L /\ k \in 0 .. L
  BY <1>1
<1>10. L \in 0 .. L /\ L + 1 \in 1 .. L + 1 /\ (L + 1) - 1 = L
  BY <1>1
<1>11. \A k \in 1 .. L + 1 : k = L + 1 \/ k \in 1 .. L
  BY <1>1
<1>12. \A k \in 1 .. Len(r) : n[k] = Replayed(g, n[k - 1], r[k])
  <2>1. ASSUME NEW k \in 1 .. L PROVE n[k] = Replayed(g, n[k - 1], r[k])
    <3>1. n[k] = m[k] /\ n[k - 1] = m[k - 1] /\ r[k] = q[k]
      BY <1>2, <1>5, <1>9
    <3>2. m[k] = Replayed(g, m[k - 1], q[k])
      BY DEF Chain
    <3>3. QED
      BY <3>1, <3>2
  <2>2. n[L + 1] = Replayed(g, n[(L + 1) - 1], r[L + 1])
    BY <1>2, <1>5, <1>10
  <2>3. QED
    BY <1>2, <1>11, <2>1, <2>2
<1>13. Yields(g, r, n) = Yields(g, q, m) \cup y
  <2>1. Yield(g, n[(L + 1) - 1], r[L + 1]) = y
    BY <1>2, <1>5, <1>10
  <2>2. \A k \in 1 .. L : Yield(g, n[k - 1], r[k]) = Yield(g, m[k - 1], q[k])
    BY <1>2, <1>5, <1>9
  <2>3. \A c : c \in Yields(g, r, n) <=> \E k \in 1 .. L + 1 : c \in Yield(g, n[k - 1], r[k])
    BY <1>2 DEF Yields
  <2>4. \A c : c \in Yields(g, q, m) <=> \E k \in 1 .. L : c \in Yield(g, m[k - 1], q[k])
    BY DEF Yields
  <2>5. ASSUME NEW c, c \in Yields(g, r, n) PROVE c \in Yields(g, q, m) \cup y
    <3>1. PICK k \in 1 .. L + 1 : c \in Yield(g, n[k - 1], r[k])
      BY <2>3, <2>5
    <3>2. CASE k = L + 1
      BY <2>1, <3>1, <3>2
    <3>3. CASE k \in 1 .. L
      BY <2>2, <2>4, <3>1, <3>3
    <3>4. QED
      BY <1>11, <3>2, <3>3
  <2>6. ASSUME NEW c, c \in Yields(g, q, m) \cup y PROVE c \in Yields(g, r, n)
    <3>1. CASE c \in y
      BY <1>10, <2>1, <2>3, <3>1
    <3>2. CASE c \in Yields(g, q, m)
      BY <1>9, <2>2, <2>3, <2>4, <3>2
    <3>3. QED
      BY <2>6, <3>1, <3>2
  <2>7. QED
    BY <2>5, <2>6
<1>14. /\ Chain(g, r, n) /\ n[0] = m[0] /\ n[Len(r)] = t
       /\ Yields(g, r, n) = Yields(g, q, m) \cup y
  BY <1>1, <1>2, <1>5, <1>6, <1>8, <1>12, <1>13 DEF Chain
<1>15. QED
  BY <1>14 DEF r

\* The first event less.
LEMMA ChainTaken ==
    ASSUME NEW g, NEW q, NEW m, Chain(g, q, m), q # <<>>
    PROVE  \E n : /\ Chain(g, Tail(q), n) /\ n[0] = Replayed(g, m[0], Head(q))
                  /\ n[Len(Tail(q))] = m[Len(q)] /\ Head(q) \in Sent /\ m[0] \in Replicas
                  /\ Yields(g, q, m) = Yields(g, Tail(q), n) \cup Yield(g, m[0], Head(q))
<1> DEFINE L == Len(q)
           r == Tail(q)
           n == [k \in 0 .. L - 1 |-> m[k + 1]]
<1>1. L \in Nat \ {0} /\ q \in Seq(Sent) /\ m \in [0 .. L -> Replicas]
  BY EmptySeqFacts DEF Chain
<1>2. /\ r \in Seq(Sent) /\ Len(r) = L - 1 /\ \A i \in 1 .. L - 1 : r[i] = q[i + 1]
      /\ Head(q) = q[1] /\ q[1] \in Sent
  BY <1>1, TailFacts
<1> HIDE DEF r
<1>3. \A k \in 0 .. L - 1 : k + 1 \in 0 .. L /\ n[k] = m[k + 1]
  BY <1>1
<1>4. n \in [0 .. Len(r) -> Replicas]
  BY <1>1, <1>2, <1>3
<1> HIDE DEF n
<1>5. \A k \in 0 .. Len(r) : Own(g, n[k])
  BY <1>2, <1>3 DEF Chain
<1>6. \A k \in 1 .. L - 1 : /\ k \in 0 .. L - 1 /\ k - 1 \in 0 .. L - 1 /\ (k - 1) + 1 = k
                            /\ (k + 1) - 1 = k /\ k + 1 \in 1 .. L
  BY <1>1
<1>7. \A k \in 1 .. L - 1 : n[k] = m[k + 1] /\ n[k - 1] = m[(k + 1) - 1] /\ r[k] = q[k + 1]
  BY <1>2, <1>3, <1>6
<1>8. \A k \in 1 .. Len(r) : n[k] = Replayed(g, n[k - 1], r[k])
  <2>1. ASSUME NEW k \in 1 .. L - 1 PROVE n[k] = Replayed(g, n[k - 1], r[k])
    <3>1. m[k + 1] = Replayed(g, m[(k + 1) - 1], q[k + 1])
      BY <1>6 DEF Chain
    <3>2. QED
      BY <1>7, <3>1
  <2>2. QED
    BY <1>2, <2>1
<1>9. 1 \in 1 .. L /\ 1 - 1 = 0 /\ 0 \in 0 .. L - 1 /\ 0 + 1 = 1 /\ L - 1 \in 0 .. L - 1 /\ (L - 1) + 1 = L
      /\ 0 \in 0 .. L
  BY <1>1
<1>10. n[0] = Replayed(g, m[0], Head(q))
  <2>1. m[1] = Replayed(g, m[1 - 1], q[1])
    BY <1>9 DEF Chain
  <2>2. n[0] = m[1]
    BY <1>3, <1>9
  <2>3. QED
    BY <1>2, <1>9, <2>1, <2>2
<1>11. n[Len(r)] = m[L]
  BY <1>2, <1>3, <1>9
<1>12. Yields(g, q, m) = Yields(g, r, n) \cup Yield(g, m[0], Head(q))
  <2>1. Yield(g, m[1 - 1], q[1]) = Yield(g, m[0], Head(q))
    BY <1>2, <1>9
  <2>2. \A k \in 1 .. L - 1 : Yield(g, n[k - 1], r[k]) = Yield(g, m[(k + 1) - 1], q[k + 1])
    BY <1>7
  <2>3. \A c : c \in Yields(g, r, n) <=> \E k \in 1 .. L - 1 : c \in Yield(g, n[k - 1], r[k])
    BY <1>2 DEF Yields
  <2>4. \A c : c \in Yields(g, q, m) <=> \E k \in 1 .. L : c \in Yield(g, m[k - 1], q[k])
    BY DEF Yields
  <2>5. \A k \in 1 .. L : k = 1 \/ (k - 1 \in 1 .. L - 1 /\ (k - 1) + 1 = k)
    BY <1>1
  <2>6. ASSUME NEW c, c \in Yields(g, q, m)
        PROVE  c \in Yields(g, r, n) \cup Yield(g, m[0], Head(q))
    <3>1. PICK k \in 1 .. L : c \in Yield(g, m[k - 1], q[k])
      BY <2>4, <2>6
    <3>2. CASE k = 1
      BY <2>1, <3>1, <3>2
    <3>3. CASE k # 1
      <4>1. k - 1 \in 1 .. L - 1 /\ (k - 1) + 1 = k
        BY <2>5, <3>3
      <4>2. PICK j \in 1 .. L - 1 : j + 1 = k
        BY <4>1
      <4>3. c \in Yield(g, m[(j + 1) - 1], q[j + 1])
        BY <3>1, <4>2
      <4>4. c \in Yield(g, n[j - 1], r[j])
        BY <2>2, <4>3
      <4>5. QED
        BY <2>3, <4>4
    <3>4. QED
      BY <3>2, <3>3
  <2>7. ASSUME NEW c, c \in Yields(g, r, n) PROVE c \in Yields(g, q, m)
    <3>1. PICK k \in 1 .. L - 1 : c \in Yield(g, n[k - 1], r[k])
      BY <2>3, <2>7
    <3>2. c \in Yield(g, m[(k + 1) - 1], q[k + 1]) /\ k + 1 \in 1 .. L
      BY <1>6, <2>2, <3>1
    <3>3. QED
      BY <2>4, <3>2
  <2>8. ASSUME NEW c, c \in Yield(g, m[0], Head(q)) PROVE c \in Yields(g, q, m)
    BY <1>9, <2>1, <2>4, <2>8
  <2>9. QED
    BY <2>6, <2>7, <2>8
<1>13. /\ Chain(g, r, n) /\ n[0] = Replayed(g, m[0], Head(q)) /\ n[Len(r)] = m[L]
       /\ Head(q) \in Sent /\ m[0] \in Replicas
       /\ Yields(g, q, m) = Yields(g, r, n) \cup Yield(g, m[0], Head(q))
  BY <1>1, <1>2, <1>4, <1>5, <1>8, <1>9, <1>10, <1>11, <1>12 DEF Chain
<1>14. QED
  BY <1>13 DEF r

\* The events q take a replica of g from a to z and yield y.
Path(g, q, a, z, y) ==
    \E m : Chain(g, q, m) /\ a = m[0] /\ z = m[Len(q)] /\ y = Yields(g, q, m)

\* Its ends are replicas.
LEMMA PathEnds ==
    ASSUME NEW g, NEW q, NEW a, NEW z, NEW y, Path(g, q, a, z, y)
    PROVE  /\ q \in Seq(Sent) /\ a \in Replicas /\ z \in Replicas /\ Own(g, a) /\ Own(g, z)
           /\ q = <<>> => a = z /\ y = {}
<1>1. PICK m : Chain(g, q, m) /\ a = m[0] /\ z = m[Len(q)] /\ y = Yields(g, q, m)
  BY DEF Path
<1>2. q \in Seq(Sent) /\ m \in [0 .. Len(q) -> Replicas] /\ \A k \in 0 .. Len(q) : Own(g, m[k])
  BY <1>1 DEF Chain
<1>3. Len(q) \in Nat /\ 0 \in 0 .. Len(q) /\ Len(q) \in 0 .. Len(q)
  BY <1>2
<1>4. ASSUME q = <<>> PROVE a = z /\ y = {}
  <2>1. Len(q) = 0
    BY <1>4
  <2>2. \A k : k \notin 1 .. Len(q)
    BY <2>1
  <2>3. Yields(g, q, m) = {}
    BY <2>2 DEF Yields
  <2>4. QED
    BY <1>1, <2>1, <2>3
<1>5. QED
  BY <1>1, <1>2, <1>3, <1>4

\* No event, no change.
LEMMA PathNothing ==
    ASSUME NEW g, NEW a \in Replicas, Own(g, a), NEW q, q = <<>>
    PROVE  Path(g, q, a, a, {})
<1> DEFINE m == [k \in {0} |-> a]
<1>1. Len(q) = 0 /\ q \in Seq(Sent)
  OBVIOUS
<1>2. m \in [0 .. Len(q) -> Replicas] /\ m[0] = a
  BY <1>1
<1> HIDE DEF m
<1>3. (\A k : k \notin 1 .. Len(q)) /\ \A k \in 0 .. Len(q) : k = 0
  BY <1>1
<1>4. Chain(g, q, m)
  BY <1>1, <1>2, <1>3 DEF Chain
<1>5. Yields(g, q, m) = {}
  BY <1>3 DEF Yields
<1>6. Chain(g, q, m) /\ a = m[0] /\ a = m[Len(q)] /\ {} = Yields(g, q, m)
  BY <1>1, <1>2, <1>4, <1>5
<1>7. QED
  BY <1>6 DEF Path

\* The settings stay.
LEMMA PathSame ==
    ASSUME cfg' = cfg, NEW g, NEW q, NEW a, NEW z, NEW y, Path(g, q, a, z, y)
    PROVE  Path(g, q, a, z, y)'
<1>1. PICK m : Chain(g, q, m) /\ a = m[0] /\ z = m[Len(q)] /\ y = Yields(g, q, m)
  BY DEF Path
<1>2. Chain(g, q, m)' /\ Yields(g, q, m)' = Yields(g, q, m)
  BY <1>1, ChainSame
<1>3. QED
  BY <1>1, <1>2 DEF Path

\* The programs send an event more.
LEMMA PathPushed ==
    ASSUME NEW g, NEW q, NEW a, NEW z, NEW y, Path(g, q, a, z, y), NEW e \in Sent,
           NEW t, t = Replayed(g, z, e), NEW x, x = Yield(g, z, e)
    PROVE  Path(g, Append(q, e), a, t, y \cup x)
<1>1. PICK m : Chain(g, q, m) /\ a = m[0] /\ z = m[Len(q)] /\ y = Yields(g, q, m)
  BY DEF Path
<1>2. t = Replayed(g, m[Len(q)], e) /\ x = Yield(g, m[Len(q)], e)
  BY <1>1
<1>3. PICK n : /\ Chain(g, Append(q, e), n) /\ n[0] = m[0] /\ n[Len(Append(q, e))] = t
               /\ Yields(g, Append(q, e), n) = Yields(g, q, m) \cup x
  BY <1>1, <1>2, ChainPushed
<1>4. PICK r : r = Append(q, e)
  OBVIOUS
<1>5. /\ Chain(g, r, n) /\ a = n[0] /\ t = n[Len(r)] /\ y \cup x = Yields(g, r, n)
  BY <1>1, <1>3, <1>4, Zenon
<1>6. Path(g, r, a, t, y \cup x)
  BY <1>5 DEF Path
<1>7. QED
  BY <1>4, <1>6

\* The manager takes the first one.
LEMMA PathTaken ==
    ASSUME NEW g, NEW q, NEW a, NEW z, NEW y, Path(g, q, a, z, y), q # <<>>
    PROVE  /\ Head(q) \in Sent
           /\ \E b, x, w : /\ b = Replayed(g, a, Head(q)) /\ x = Yield(g, a, Head(q))
                           /\ Path(g, Tail(q), b, z, w) /\ y = w \cup x
<1>1. PICK m : Chain(g, q, m) /\ a = m[0] /\ z = m[Len(q)] /\ y = Yields(g, q, m)
  BY DEF Path
<1>2. PICK n : /\ Chain(g, Tail(q), n) /\ n[0] = Replayed(g, m[0], Head(q))
               /\ n[Len(Tail(q))] = m[Len(q)] /\ Head(q) \in Sent /\ m[0] \in Replicas
               /\ Yields(g, q, m) = Yields(g, Tail(q), n) \cup Yield(g, m[0], Head(q))
  BY <1>1, ChainTaken
<1>3. PICK r : r = Tail(q)
  OBVIOUS
<1>4. PICK b, x, w : b = n[0] /\ x = Yield(g, a, Head(q)) /\ w = Yields(g, r, n)
  OBVIOUS
<1>5. Chain(g, r, n) /\ b = n[0] /\ z = n[Len(r)] /\ w = Yields(g, r, n)
  BY <1>1, <1>2, <1>3, <1>4, Zenon
<1>6. Path(g, r, b, z, w)
  BY <1>5 DEF Path
<1>7. b = Replayed(g, a, Head(q)) /\ y = w \cup x
  BY <1>1, <1>2, <1>3, <1>4, Zenon
<1>8. Head(q) \in Sent
  BY <1>2
<1>9. b = Replayed(g, a, Head(q)) /\ x = Yield(g, a, Head(q)) /\ Path(g, Tail(q), b, z, w) /\ y = w \cup x
  BY <1>3, <1>4, <1>6, <1>7, Zenon
<1>10. QED
  BY <1>8, <1>9

\* What PrintRemaining writes are the calls it makes of what is retained.
LEMMA RemainingPrinted ==
    ASSUME ManagerTypeOK, ~Aggregate, PrintRemaining
    PROVE  /\ ToSet(printed) \subseteq ToSet(printed')
           /\ \A c \in ToSet(printed') :
                 c \in ToSet(printed) \/ \E u \in Unfinished : c \in ToSet(PrintStack(goEvents[u]).pairs)
<1> DEFINE N == Cardinality(Unfinished)
           s == SetToSeq(Unfinished)
           rest == [i \in 1 .. N |-> PrintStack(goEvents[s[i]]).pairs]
<1>1. Unfinished \subseteq Goroutines
  BY DEF Unfinished
<1>2. IsFiniteSet(Unfinished)
  BY <1>1, ScopeAssumption, FS_Subset
<1>3. s \in [1 .. N -> Unfinished] /\ N \in Nat
  BY <1>2, SetToSeqType
<1>4. printed' = printed \o FlattenSeq(rest)
  BY DEF PrintRemaining
<1> HIDE DEF N, s
<1>5. ASSUME NEW i \in 1 .. N
      PROVE  rest[i] \in Seq(PairedCall) /\ rest[i] = PrintStack(goEvents[s[i]]).pairs /\ s[i] \in Unfinished
  <2>1. goEvents[s[i]] \in Seq(CallEvent)
    BY <1>1, <1>3 DEF ManagerTypeOK
  <2>2. PrintStack(goEvents[s[i]]) \in PrintAcc
    BY <2>1, PrintStackType
  <2>3. PrintStack(goEvents[s[i]]).pairs \in Seq(PairedCall)
    BY <2>2 DEF PrintAcc
  <2>4. QED
    BY <1>3, <2>3
<1>6. rest \in [1 .. N -> Seq(PairedCall)]
  BY <1>5
<1> HIDE DEF rest
<1>7. PICK f : FlattenRun(PairedCall, N, f, rest) /\ FlattenSeq(rest) = f[N]
  BY <1>3, <1>6, FlattenUnfolds
<1> DEFINE Made(c) == \E u \in Unfinished : c \in ToSet(PrintStack(goEvents[u]).pairs)
           D == {n \in Nat : n <= N => \A c \in ToSet(f[n]) : Made(c)}
<1>8. 0 \in D
  <2>1. f[0] = <<>>
    BY <1>7 DEF FlattenRun
  <2>2. ToSet(f[0]) = {}
    BY <2>1 DEF ToSet
  <2>3. QED
    BY <2>2
<1>9. ASSUME NEW n \in Nat, n \in D PROVE n + 1 \in D
  <2> SUFFICES ASSUME n + 1 <= N, NEW c \in ToSet(f[n + 1]) PROVE Made(c)
    OBVIOUS
  <2>1. /\ n + 1 \in 1 .. N /\ n \in 0 .. N /\ (n + 1) - 1 = n
        /\ \A d \in ToSet(f[n]) : Made(d)
    BY <1>3, <1>9
  <2>2. f[n + 1] = f[n] \o rest[n + 1] /\ f[n] \in Seq(PairedCall) /\ rest[n + 1] \in Seq(PairedCall)
    BY <1>5, <1>7, <2>1 DEF FlattenRun
  <2>3. ToSet(f[n] \o rest[n + 1]) = ToSet(f[n]) \cup ToSet(rest[n + 1])
    BY <2>2, ToSetConcat
  <2>4. \A d \in ToSet(rest[n + 1]) : Made(d)
    BY <1>5, <2>1
  <2> HIDE DEF Made
  <2>5. c \in ToSet(f[n]) \cup ToSet(rest[n + 1])
    BY <2>2, <2>3
  <2>6. QED
    BY <2>1, <2>4, <2>5
<1> HIDE DEF D
<1>10. Nat \subseteq D
  BY <1>8, <1>9, NatSetInduction
<1>11. \A c \in ToSet(f[N]) : Made(c)
  BY <1>3, <1>10 DEF D
<1>12. printed \in Seq(PairedCall) /\ f[N] \in Seq(PairedCall)
  BY <1>3, <1>7 DEF ManagerTypeOK, FlattenRun
<1>13. ToSet(printed \o f[N]) = ToSet(printed) \cup ToSet(f[N])
  BY <1>12, ToSetConcat
<1>14. printed' = printed \o f[N]
  BY <1>4, <1>7
<1>15. ToSet(printed') = ToSet(printed) \cup ToSet(f[N])
  BY <1>13, <1>14
<1>16. QED
  BY <1>11, <1>15

=============================================================================
