--------------------------- MODULE HistoryProofs ----------------------------
(***************************************************************************)
(* TLAPS proofs that what the pipeline (Ftrace) reports is what was called, *)
(* and all of it: ReportedAreRealCalls and CompletedAreReported, for every *)
(* number of goroutines and functions, every size of the maps and the      *)
(* queue, every call depth and every kind of disturbance.                  *)
(*                                                                         *)
(* They rest on a replay (HistoryInv).  The queue takes a replica of each  *)
(* goroutine from what the manager holds to where the goroutine now is:    *)
(* its open frames, and the calls of the open sample that have returned    *)
(* (Abreast).  A probe hit prolongs the path at one end by the event it    *)
(* sends (TargetAdvances) and handling an event shortens it at the other   *)
(* (DeliverLives).  With --aggregate a missed return leaves an entry on    *)
(* the observed stack that gives the sample away at its end (Dirty).       *)
(***************************************************************************)
EXTENDS FtraceProofs

-----------------------------------------------------------------------------
(* A replica that has seen everything that was sent, and the goroutine *)

\* Goroutines with a missed return.  With --aggregate a return that does not belong to
\* the innermost open entry gives the sample away, unless a stray one makes up for it.
Blurred == IF Aggregate THEN unreturned \cap stray ELSE unreturned

\* The frames of the sample are those above b.  An entry seen last is the one of the
\* frame on top, or later; it is that of a function in its prologue.
Heads(g, b, s) ==
    /\ \A d \in s.last :
          d.location = ENT /\ Len(frames[g]) > b =>
             /\ Top(g).start <= d.time
             /\ d.time = Top(g).start => /\ d.ip = Top(g).fn
                                         /\ d.bp = <<moves[g], Len(frames[g])>>
    /\ g \in fresh => /\ Len(frames[g]) > b
                      /\ \E d \in s.last : d.location = ENT /\ d.time = Top(g).start
    /\ Adaptive => s.last # {}

\* Every frame of the sample has an open entry, as far up as the frame or further.
Covers(g, b, open) ==
    \A j \in b + 1 .. Len(frames[g]) :
        \E i \in 1 .. Len(open) :
            i >= j - b /\ open[i].time = frames[g][j].start /\ open[i].ip = frames[g][j].fn

\* The calls paired so far, and those of the program.
Accounts(g, s) ==
    /\ g \notin unreturned => inSample[g] \subseteq s.pairs
    /\ s.pairs \subseteq completed \cup inSample[g]
    /\ s.open = <<>> \/ (Len(s.open) = 1 /\ EntryLast(s)) => s.pairs \subseteq completed

\* All that the replica has paired so far are calls.
Tidy(g, b, s) ==
    /\ s.bad = FALSE /\ s.stack = Ips(s.open)
    /\ Ascending(s.open, clock[g])
    /\ \A i \in 1 .. Len(s.open) : s.open[i].sample_denominator = admittedAt[g]
    /\ Covers(g, b, s.open)
    /\ g \notin unreturned => Len(s.open) = Len(frames[g]) - b
    /\ Accounts(g, s)
    /\ \A d \in s.last : d.location = ENT => s.open # <<>> /\ LIFO(s.open) = d
    /\ ~(Aggregate /\ Adaptive) => (s.open = <<>> => s.last = {})

\* Missed returns have left entries on the observed stack that no return will pop.
Dirty(g, b, s) ==
    /\ Aggregate /\ g \in unreturned /\ g \notin stray
    /\ Len(s.stack) >= Len(frames[g]) - b + 1
    /\ \A d \in s.last :
          d.location = ENT /\ (Len(frames[g]) = b \/ d.time # Top(g).start) =>
             Len(s.stack) >= Len(frames[g]) - b + 2

Tracks(g, s) ==
    /\ state[g].sample_denominator = admittedAt[g]
    /\ \E b \in 0 .. Len(frames[g]) :
          Recorded(g) = b + 1 .. Len(frames[g]) /\ Heads(g, b, s) /\ (Tidy(g, b, s) \/ Dirty(g, b, s))

Abreast(g, s) ==
    IF state[g] = NoState THEN s = Blank /\ (g \notin unreturned => inSample[g] = {})
                          ELSE Tracks(g, s)

\* The history of each goroutine is of its own calls.
HistoryOK ==
    /\ admittedAt = [g \in Goroutines |-> admittedAt[g]]
    /\ inSample = [g \in Goroutines |-> inSample[g]]
    /\ \A g \in Goroutines : \A c \in inSample[g] : c.goid = g

\* Calls y are reported by a step that completes them, and while no return is missed
\* these are all.
Grows(g, y) ==
    /\ completed \subseteq completed' /\ y \subseteq completed'
    /\ g \notin unreturned' => completed' \subseteq completed \cup y

\* A step of g that sends nothing, or an event.
Advances(g, s) ==
    \/ queue' = queue /\ Abreast(g, s)' /\ Grows(g, {})
    \/ \E e \in Sent : \E t, y :
          /\ queue' = Append(queue, e) /\ e.goid = g
          /\ t = Replayed(g, s, e) /\ y = Yield(g, s, e)
          /\ Abreast(g, t)' /\ Grows(g, y)

\* What Follow does.
LEMMA FollowDoes ==
    ASSUME HistoryOK, NEW g \in Goroutines, Follow(g)
    PROVE  /\ admittedAt'[g] = AdmittedAtNext(g)
           /\ inSample'[g] = IF SampleAborts(g) \/ SampleCompletes(g) THEN {}
                             ELSE inSample[g] \cup CallNext(g)
           /\ completed' = IF SampleCompletes(g) /\ ~SampleAborts(g)
                             THEN completed \cup inSample[g] \cup CallNext(g) ELSE completed
           /\ \A h \in Goroutines \ {g} : admittedAt'[h] = admittedAt[h] /\ inSample'[h] = inSample[h]
           /\ \A c \in CallNext(g) : c.goid = g
           /\ HistoryOK'
<1>1. /\ admittedAt'[g] = AdmittedAtNext(g)
      /\ inSample'[g] = IF SampleAborts(g) \/ SampleCompletes(g) THEN {}
                        ELSE inSample[g] \cup CallNext(g)
      /\ completed' = IF SampleCompletes(g) /\ ~SampleAborts(g)
                        THEN completed \cup inSample[g] \cup CallNext(g) ELSE completed
      /\ \A h \in Goroutines \ {g} : admittedAt'[h] = admittedAt[h] /\ inSample'[h] = inSample[h]
  BY DEF Follow, HistoryOK
<1>2. \A c \in CallNext(g) : c.goid = g
  BY DEF CallNext
<1>3. admittedAt' = [h \in Goroutines |-> admittedAt'[h]] /\ inSample' = [h \in Goroutines |-> inSample'[h]]
  BY DEF Follow, HistoryOK
<1>4. \A h \in Goroutines : \A c \in inSample'[h] : c.goid = h
  BY <1>1, <1>2 DEF HistoryOK
<1>5. QED
  BY <1>1, <1>2, <1>3, <1>4 DEF HistoryOK

\* A step in which no recorded call returns.
LEMMA QuietFollow ==
    ASSUME HistoryOK, NEW g \in Goroutines, Follow(g), CallNext(g) = {}
    PROVE  /\ completed' = completed
           /\ inSample'[g] = IF SampleAborts(g) THEN {} ELSE inSample[g]
           /\ state[g] # NoState => admittedAt'[g] = admittedAt[g]
<1>1. ~SampleCompletes(g)
  BY DEF SampleCompletes
<1>2. QED
  BY <1>1, FollowDoes DEF AdmittedAtNext

\* Nobody else's replica is touched.
LEMMA SameAbreast ==
    ASSUME NEW h, NEW s, Abreast(h, s), cfg' = cfg,
           frames'[h] = frames[h], moves'[h] = moves[h], clock'[h] = clock[h],
           state'[h] = state[h], since'[h] = since[h], h \in fresh' <=> h \in fresh,
           h \in unreturned' <=> h \in unreturned, h \in stray' <=> h \in stray,
           admittedAt'[h] = admittedAt[h], inSample'[h] = inSample[h],
           completed \subseteq completed'
    PROVE  Abreast(h, s)'
<1>1. Recorded(h)' = Recorded(h) /\ Top(h)' = Top(h) /\ Adaptive' = Adaptive /\ Aggregate' = Aggregate
  BY DEF Recorded, Top, Adaptive, Aggregate
<1>2. CASE state[h] = NoState
  BY <1>2 DEF Abreast
<1>3. CASE state[h] # NoState
  <2>1. PICK b \in 0 .. Len(frames[h]) :
            Recorded(h) = b + 1 .. Len(frames[h]) /\ Heads(h, b, s) /\ (Tidy(h, b, s) \/ Dirty(h, b, s))
    BY <1>3 DEF Abreast, Tracks
  <2>2. Heads(h, b, s)'
    BY <1>1, <2>1 DEF Heads
  <2>3. Accounts(h, s) => Accounts(h, s)'
    BY DEF Accounts
  <2>4. Tidy(h, b, s) => Tidy(h, b, s)'
    BY <1>1, <2>3 DEF Tidy, Covers
  <2>5. Dirty(h, b, s) => Dirty(h, b, s)'
    BY <1>1 DEF Dirty
  <2>6. Tracks(h, s)'
    BY <1>1, <1>3, <2>1, <2>2, <2>4, <2>5 DEF Abreast, Tracks
  <2>7. QED
    BY <1>3, <2>6 DEF Abreast
<1>4. QED
  BY <1>2, <1>3

\* Nothing returns when a function is entered.
LEMMA EnteredFollow ==
    ASSUME HistoryOK, NEW g \in Goroutines, Follow(g), Len(frames[g]) \in Nat,
           NEW fn, NEW at, NEW n \in Len(frames[g]) .. Len(frames[g]) + 1, Enters(g, fn, at, n)
    PROVE  /\ completed' = completed
           /\ inSample'[g] = IF SampleAborts(g) THEN {} ELSE inSample[g]
           /\ state[g] # NoState => admittedAt'[g] = admittedAt[g]
<1>1. Len(frames'[g]) = n
  BY DEF Enters
<1>2. Len(frames[g]) \notin Recorded(g) \ (1 .. Len(frames'[g]))
  BY <1>1 DEF Recorded
<1>3. CallNext(g) = {}
  BY <1>2 DEF CallNext
<1>4. QED
  BY <1>3, QuietFollow

\* The entry is that of the frame on top.
LEMMA EnteredHeads ==
    ASSUME NEW g \in Goroutines, NEW fn, NEW at, NEW n \in Nat \ {0}, Enters(g, fn, at, n),
           clock[g] \in Nat, NEW e, NEW caller_bp, EntryOf(e, g, fn, <<at, n>>, caller_bp),
           NEW b \in 0 .. n - 1, NEW t, t.last = {e}
    PROVE  Heads(g, b, t)' /\ EntryLast(t) /\ Top(g)'.start = e.time
<1>1. /\ e.location = ENT /\ e.ip = fn /\ e.bp = <<at, n>> /\ e.time = clock'[g]
  BY DEF EntryOf
<1>2. /\ clock'[g] = clock[g] + 1 /\ moves'[g] = at /\ Len(frames'[g]) = n
      /\ frames'[g][n] = [fn |-> fn, start |-> clock[g] + 1, at |-> at]
  BY DEF Enters
<1>3. Top(g)'.start = e.time /\ Top(g)'.fn = fn /\ Len(frames'[g]) > b /\ e.time \in Nat
  BY <1>1, <1>2 DEF Top
<1>4. QED
  BY <1>1, <1>2, <1>3 DEF Heads, EntryLast

\* The frame entered belongs to the open sample.
LEMMA EnteredRecorded ==
    ASSUME DepthInv, NEW g \in Goroutines, NEW fn, NEW at,
           NEW n \in Len(frames[g]) .. Len(frames[g]) + 1, Enters(g, fn, at, n),
           since[g] # 0, since'[g] = since[g], NEW b \in 0 .. n - 1,
           Recorded(g) = b + 1 .. Len(frames[g])
    PROVE  Recorded(g)' = b + 1 .. n
<1>1. /\ Len(frames[g]) \in Nat /\ since[g] \in Nat /\ clock[g] \in Nat /\ since[g] <= clock[g]
  BY Shapes
<1>2. /\ Len(frames'[g]) = n /\ frames'[g][n].start = clock[g] + 1
      /\ \A i \in 1 .. n - 1 : i \in 1 .. Len(frames[g]) /\ frames'[g][i] = frames[g][i]
  BY DEF Enters
<1>3. ASSUME NEW i \in 1 .. n - 1 PROVE i \in Recorded(g)' <=> i \in b + 1 .. n
  <2>1. i \in Recorded(g)' <=> i \in Recorded(g)
    BY <1>2 DEF Recorded
  <2>2. i \in b + 1 .. Len(frames[g]) <=> i \in b + 1 .. n
    BY <1>1, <1>2
  <2>3. QED
    BY <2>1, <2>2
<1>4. n \in Recorded(g)' /\ n \in b + 1 .. n
  BY <1>1, <1>2 DEF Recorded
<1>5. Recorded(g)' \subseteq 1 .. n
  BY <1>2 DEF Recorded
<1>6. \A i \in 1 .. n : i \in 1 .. n - 1 \/ i = n
  BY <1>1
<1>7. b + 1 .. n \subseteq 1 .. n
  BY <1>1
<1>8. QED
  BY <1>3, <1>4, <1>5, <1>6, <1>7

\* A call whose entry is not taken for a restart.
LEMMA CallPushes ==
    ASSUME DepthInv, NEW g \in Goroutines, cfg' = cfg, NEW fn \in Functions,
           Enters(g, fn, moves[g], Len(frames[g]) + 1), NEW e \in SentCall,
           e.ip = fn, e.time = clock'[g], e.sample_denominator = admittedAt[g],
           completed' = completed, inSample'[g] = inSample[g], admittedAt'[g] = admittedAt[g],
           NEW b \in 0 .. Len(frames[g]), NEW s \in Replicas, Tidy(g, b, s),
           NEW t, Grown(s, e, t)
    PROVE  Tidy(g, b, t)'
<1> DEFINE L == Len(frames[g])
           N == Len(s.open)
<1>1. L \in Nat /\ clock[g] \in Nat /\ b \in Nat /\ b <= L
  BY Shapes
<1>2. /\ clock'[g] = clock[g] + 1 /\ Len(frames'[g]) = L + 1
      /\ frames'[g][L + 1] = [fn |-> fn, start |-> clock[g] + 1, at |-> moves[g]]
      /\ \A i \in 1 .. L : frames'[g][i] = frames[g][i]
      /\ unreturned' = unreturned
  BY <1>1 DEF Enters
<1>3. s.open \in Seq(CallEvent) /\ N \in Nat /\ e \in CallEvent /\ (s.open # <<>> <=> N > 0)
  BY ReplicaFields, SentFields, OpenFields
<1>4. /\ s.bad = FALSE /\ s.stack = Ips(s.open) /\ Ascending(s.open, clock[g])
      /\ \A i \in 1 .. N : s.open[i].sample_denominator = admittedAt[g]
      /\ Covers(g, b, s.open)
      /\ g \notin unreturned => N = L - b
      /\ Accounts(g, s)
  BY DEF Tidy
<1>5. e.time = clock[g] + 1
  BY <1>2
<1>6. /\ Ascending(t.open, clock[g] + 1) /\ Ips(t.open) = Append(Ips(s.open), e.ip)
      /\ Len(t.open) = N + 1 /\ t.open # <<>> /\ LIFO(t.open) = e
      /\ t.open[N + 1] = e /\ \A i \in 1 .. N : t.open[i] = s.open[i]
  <2>1. /\ Ascending(Append(s.open, e), clock[g] + 1)
        /\ Ips(Append(s.open, e)) = Append(Ips(s.open), e.ip)
        /\ Len(Append(s.open, e)) = N + 1 /\ Append(s.open, e) # <<>> /\ LIFO(Append(s.open, e)) = e
        /\ Append(s.open, e)[N + 1] = e /\ \A i \in 1 .. N : Append(s.open, e)[i] = s.open[i]
    BY <1>1, <1>3, <1>4, <1>5, OpenPushed
  <2>2. t.open = Append(s.open, e)
    BY DEF Grown
  <2>3. QED
    BY <2>1, <2>2, Zenon
<1>7. \A i \in 1 .. Len(t.open) : t.open[i].sample_denominator = admittedAt'[g]
  <2>1. \A i \in 1 .. N + 1 : i \in 1 .. N \/ i = N + 1
    BY <1>3
  <2>2. QED
    BY <1>4, <1>6, <2>1
<1>8. N >= L - b
  <2>1. CASE L = b
    BY <1>1, <1>3, <2>1
  <2>2. CASE L # b
    <3>1. L \in b + 1 .. L
      BY <1>1, <2>2
    <3>2. PICK i \in 1 .. N : i >= L - b
      BY <1>4, <3>1 DEF Covers
    <3>3. QED
      BY <1>1, <1>3, <3>2
  <2>3. QED
    BY <2>1, <2>2
<1>9. Covers(g, b, t.open)'
  <2>1. SUFFICES ASSUME NEW j \in b + 1 .. L + 1
                 PROVE  \E i \in 1 .. N + 1 : /\ i >= j - b /\ t.open[i].time = frames'[g][j].start
                                              /\ t.open[i].ip = frames'[g][j].fn
    BY <1>2, <1>6 DEF Covers
  <2>2. CASE j = L + 1
    <3>1. N + 1 \in 1 .. N + 1 /\ N + 1 >= j - b
      BY <1>1, <1>3, <1>8, <2>2
    <3>2. frames'[g][j].start = clock[g] + 1 /\ frames'[g][j].fn = fn
      BY <1>2, <2>2
    <3>3. t.open[N + 1].time = clock[g] + 1 /\ t.open[N + 1].ip = fn
      BY <1>5, <1>6
    <3>4. QED
      BY <3>1, <3>2, <3>3
  <2>3. CASE j # L + 1
    <3>1. j \in b + 1 .. L /\ j \in 1 .. L
      BY <1>1, <2>3
    <3>2. PICK i \in 1 .. N : /\ i >= j - b /\ s.open[i].time = frames[g][j].start
                              /\ s.open[i].ip = frames[g][j].fn
      BY <1>4, <3>1 DEF Covers
    <3>3. i \in 1 .. N + 1
      BY <1>3
    <3>4. QED
      BY <1>2, <1>6, <3>1, <3>2, <3>3
  <2>4. QED
    BY <2>2, <2>3
<1>10. Accounts(g, t)'
  <2>1. t.open = <<>> \/ (Len(t.open) = 1 /\ EntryLast(t)) => s.open = <<>>
    BY <1>3, <1>6
  <2>2. QED
    BY <1>2, <1>4, <2>1 DEF Accounts, Grown
<1>11. t.stack = Ips(t.open) /\ t.bad = FALSE
  BY <1>4, <1>6 DEF Grown
<1>12. g \notin unreturned' => Len(t.open) = Len(frames'[g]) - b
  <2>1. Len(t.open) = N + 1 /\ Len(frames'[g]) = L + 1 /\ (g \notin unreturned => N = L - b)
    BY <1>2, <1>4, <1>6
  <2>2. QED
    BY <1>1, <1>2, <1>3, <2>1
<1>13. QED
  BY <1>2, <1>6, <1>7, <1>9, <1>10, <1>11, <1>12 DEF Tidy, Grown

\* An entry that takes the place of the one seen last, which covers no frame below the top.
LEMMA EntrySwaps ==
    ASSUME DepthInv, NEW g \in Goroutines, cfg' = cfg, NEW fn \in Functions, NEW at,
           NEW n \in Len(frames[g]) .. Len(frames[g]) + 1, Enters(g, fn, at, n),
           NEW e \in SentCall,
           e.ip = fn, e.time = clock'[g], e.sample_denominator = admittedAt[g],
           completed' = completed, inSample'[g] = inSample[g], admittedAt'[g] = admittedAt[g],
           NEW b \in 0 .. n - 1, NEW s \in Replicas, Tidy(g, b, s),
           EntryLast(s), s.open # <<>>, LIFO(s.open).ip = fn, Len(s.open) >= n - b,
           \A j \in b + 1 .. n - 1 : \E i \in 1 .. Len(s.open) - 1 :
              i >= j - b /\ s.open[i].time = frames[g][j].start /\ s.open[i].ip = frames[g][j].fn,
           g \notin unreturned => n = Len(frames[g]),
           NEW t, Swapped(s, e, t)
    PROVE  Tidy(g, b, t)'
<1> DEFINE L == Len(frames[g])
           N == Len(s.open)
<1>1. L \in Nat /\ clock[g] \in Nat /\ n \in Nat /\ b \in Nat /\ b < n
  BY Shapes
<1>2. /\ clock'[g] = clock[g] + 1 /\ Len(frames'[g]) = n
      /\ frames'[g][n] = [fn |-> fn, start |-> clock[g] + 1, at |-> at]
      /\ \A i \in 1 .. n - 1 : frames'[g][i] = frames[g][i]
      /\ unreturned' = unreturned
  BY DEF Enters
<1>3. s.open \in Seq(CallEvent) /\ N \in Nat /\ e \in CallEvent /\ N > 0
  BY ReplicaFields, SentFields, OpenFields
<1>4. /\ s.bad = FALSE /\ s.stack = Ips(s.open) /\ Ascending(s.open, clock[g])
      /\ \A i \in 1 .. N : s.open[i].sample_denominator = admittedAt[g]
      /\ g \notin unreturned => N = L - b
      /\ Accounts(g, s)
  BY DEF Tidy
<1>5. e.time = clock[g] + 1
  BY <1>2
<1>6. /\ Ascending(t.open, clock[g] + 1) /\ Ips(t.open) = Ips(s.open)
      /\ Len(t.open) = N /\ t.open # <<>> /\ LIFO(t.open) = e
      /\ t.open[N] = e /\ \A i \in 1 .. N - 1 : t.open[i] = s.open[i]
  <2>1. /\ Ascending(Append(Drop(s.open), e), clock[g] + 1)
        /\ Ips(Append(Drop(s.open), e)) = Ips(s.open)
        /\ Len(Append(Drop(s.open), e)) = N /\ Append(Drop(s.open), e) # <<>>
        /\ LIFO(Append(Drop(s.open), e)) = e
        /\ Append(Drop(s.open), e)[N] = e
        /\ \A i \in 1 .. N - 1 : Append(Drop(s.open), e)[i] = s.open[i]
    <3>1. e.ip = LIFO(s.open).ip
      OBVIOUS
    <3>2. QED
      BY <1>1, <1>3, <1>4, <1>5, <3>1, OpenSwapped
  <2>2. t.open = Append(Drop(s.open), e)
    BY DEF Swapped
  <2>3. QED
    BY <2>1, <2>2, Zenon
<1>7. \A i \in 1 .. Len(t.open) : t.open[i].sample_denominator = admittedAt'[g]
  <2>1. \A i \in 1 .. N : i \in 1 .. N - 1 \/ i = N
    BY <1>3
  <2>2. QED
    BY <1>4, <1>6, <2>1
<1>8. Covers(g, b, t.open)'
  <2>1. SUFFICES ASSUME NEW j \in b + 1 .. n
                 PROVE  \E i \in 1 .. N : /\ i >= j - b /\ t.open[i].time = frames'[g][j].start
                                          /\ t.open[i].ip = frames'[g][j].fn
    BY <1>2, <1>6 DEF Covers
  <2>2. CASE j = n
    <3>1. N \in 1 .. N /\ N >= j - b
      BY <1>1, <1>3, <2>2
    <3>2. frames'[g][j].start = clock[g] + 1 /\ frames'[g][j].fn = fn
      BY <1>2, <2>2
    <3>3. t.open[N].time = clock[g] + 1 /\ t.open[N].ip = fn
      BY <1>5, <1>6
    <3>4. QED
      BY <3>1, <3>2, <3>3
  <2>3. CASE j # n
    <3>1. j \in b + 1 .. n - 1 /\ j \in 1 .. n - 1
      BY <1>1, <2>3
    <3>2. PICK i \in 1 .. N - 1 : /\ i >= j - b /\ s.open[i].time = frames[g][j].start
                                  /\ s.open[i].ip = frames[g][j].fn
      BY <3>1
    <3>3. i \in 1 .. N
      BY <1>3
    <3>4. QED
      BY <1>2, <1>6, <3>1, <3>2, <3>3
  <2>4. QED
    BY <2>2, <2>3
<1>9. Accounts(g, t)'
  <2>1. t.open = <<>> \/ (Len(t.open) = 1 /\ EntryLast(t)) => Len(s.open) = 1 /\ EntryLast(s)
    BY <1>6
  <2>2. QED
    BY <1>2, <1>4, <2>1 DEF Accounts, Swapped
<1>10. t.stack = Ips(t.open) /\ t.bad = FALSE
  BY <1>4, <1>6 DEF Swapped
<1>11. g \notin unreturned' => Len(t.open) = Len(frames'[g]) - b
  BY <1>2, <1>4, <1>6
<1>12. QED
  BY <1>2, <1>6, <1>7, <1>8, <1>9, <1>10, <1>11 DEF Tidy, Swapped

\* A sample that is given away stays so with an entry more.
LEMMA EntryDirty ==
    ASSUME DepthInv, NEW g \in Goroutines, cfg' = cfg, NEW fn, NEW at,
           NEW n \in Nat, Enters(g, fn, at, n), NEW e, e.time = clock'[g],
           NEW b, NEW s, Dirty(g, b, s), Len(s.stack) \in Nat, b \in 0 .. n - 1,
           NEW t, t.last = {e}, Len(t.stack) >= n - b + 1
    PROVE  Dirty(g, b, t)'
<1>1. clock[g] \in Nat
  BY Shapes
<1>2. /\ clock'[g] = clock[g] + 1 /\ Len(frames'[g]) = n
      /\ frames'[g][n] = [fn |-> fn, start |-> clock[g] + 1, at |-> at]
      /\ unreturned' = unreturned /\ stray' = stray
  BY DEF Enters
<1>3. Top(g)'.start = e.time /\ Len(frames'[g]) # b
  BY <1>1, <1>2 DEF Top
<1>4. QED
  BY <1>2, <1>3 DEF Dirty, Aggregate

\* A call within a sample.
LEMMA NestedCall ==
    ASSUME DepthInv, NEW g \in Goroutines, Called(g), cfg' = cfg, NEW fn \in Functions,
           Enters(g, fn, moves[g], Len(frames[g]) + 1),
           completed' = completed, inSample'[g] = inSample[g], admittedAt'[g] = admittedAt[g],
           since[g] # 0, since'[g] = since[g],
           state'[g].sample_denominator = state[g].sample_denominator,
           NEW e, EntryOf(e, g, fn, <<moves[g], Len(frames[g]) + 1>>, <<moves[g], Len(frames[g])>>),
           e.flag = NoFlag, e.sample_denominator = state[g].sample_denominator,
           NEW s \in Replicas, Tracks(g, s), g \notin Blurred,
           NEW t, t = Replayed(g, s, e)
    PROVE  Tracks(g, t)' /\ Silent(g, s, e)
<1> DEFINE L == Len(frames[g])
           N == Len(s.open)
<1>1. /\ L \in Nat /\ clock[g] \in Nat
      /\ \A i \in 1 .. L : frames[g][i].start \in Nat
  BY Shapes
<1>2. /\ e \in SentCall /\ e.goid = g /\ e.location = ENT /\ e.ip = fn
      /\ e.caller_bp = <<moves[g], L>> /\ e.time = clock'[g]
  BY DEF EntryOf
<1>3. PICK b \in 0 .. L :
         Recorded(g) = b + 1 .. L /\ Heads(g, b, s) /\ (Tidy(g, b, s) \/ Dirty(g, b, s))
  BY DEF Tracks
<1>4. e.sample_denominator = admittedAt[g]
  BY DEF Tracks
<1>5. /\ t \in Replicas /\ Silent(g, s, e) /\ t.last = {e}
      /\ IF Repeats(s, e) THEN Swapped(s, e, t) ELSE Grown(s, e, t)
  <2>1. ~Adaptive \/ s.last # {}
    BY <1>3 DEF Heads
  <2>2. e \in SentCall
    BY <1>2
  <2>3. e.goid = g /\ e.location = ENT /\ e.flag = NoFlag
    BY <1>2
  <2>4. Replayed(g, s, e) \in Replicas
    BY <2>1, <2>2, <2>3, EntryReplayed
  <2>5. Silent(g, s, e)
    BY <2>1, <2>2, <2>3, EntryReplayed, Zenon
  <2>6. Repeats(s, e) => Swapped(s, e, Replayed(g, s, e))
    BY <2>1, <2>2, <2>3, EntryReplayed
  <2>7. ~Repeats(s, e) => Grown(s, e, Replayed(g, s, e))
    BY <2>1, <2>2, <2>3, EntryReplayed
  <2>8. Replayed(g, s, e).last = {e}
    BY <2>6, <2>7 DEF Swapped, Grown
  <2>9. QED
    BY <2>4, <2>5, <2>6, <2>7, <2>8, Zenon
<1>6. L + 1 \in Nat \ {0} /\ L + 1 \in L .. L + 1 /\ b \in 0 .. (L + 1) - 1 /\ b \in Nat /\ b <= L
  BY <1>1
<1>7. Heads(g, b, t)'
  BY <1>1, <1>5, <1>6, EnteredHeads
<1>8. Recorded(g)' = b + 1 .. L + 1
  BY <1>3, <1>6, EnteredRecorded
<1>16. Len(frames'[g]) = L + 1
  BY DEF Enters
<1>9. /\ s.open \in Seq(CallEvent) /\ N \in Nat /\ (s.open # <<>> <=> N > 0)
      /\ s.stack \in Seq(Functions) /\ Len(s.stack) \in Nat
  BY ReplicaFields, OpenFields, EmptySeqFacts
<1>10. ASSUME ~Repeats(s, e), Tidy(g, b, s) PROVE Tidy(g, b, t)'
  BY <1>2, <1>4, <1>5, <1>10, CallPushes
<1>11. ASSUME ~Repeats(s, e), Dirty(g, b, s) PROVE Dirty(g, b, t)'
  <2>1. Len(s.stack) >= L - b + 1
    BY <1>11 DEF Dirty
  <2>2. Len(t.stack) = Len(s.stack) + 1
    <3>1. Len(Append(s.stack, e.ip)) = Len(s.stack) + 1
      BY <1>2, <1>9, AppendFacts
    <3>2. t.stack = Append(s.stack, e.ip)
      BY <1>5, <1>11 DEF Grown
    <3>3. QED
      BY <3>1, <3>2, Zenon
  <2>3. Len(t.stack) >= (L + 1) - b + 1
    BY <1>1, <1>6, <1>9, <2>1, <2>2
  <2>4. QED
    BY <1>2, <1>5, <1>6, <1>9, <1>11, <2>3, EntryDirty
<1>12. ASSUME Repeats(s, e) PROVE Tidy(g, b, t)' \/ Dirty(g, b, t)'
  <2>1. PICK d \in s.last : d.location = ENT /\ d.ip = fn /\ d.bp # <<moves[g], L>>
    BY <1>2, <1>12 DEF Repeats
  <2>2. L > b => Top(g).start <= d.time /\ d.time # Top(g).start
    BY <1>3, <2>1 DEF Heads
  <2>3. ASSUME Tidy(g, b, s) PROVE Tidy(g, b, t)'
    <3>1. /\ Ascending(s.open, clock[g]) /\ Covers(g, b, s.open)
          /\ g \notin unreturned => N = L - b
          /\ s.open # <<>> /\ LIFO(s.open) = d
      BY <2>1, <2>3 DEF Tidy
    <3>2. N > 0 /\ N \in 1 .. N /\ s.open[N] = d /\ d.time \in Nat
      <4>1. N > 0 /\ N \in 1 .. N
        BY <1>9, <3>1
      <4>2. s.open[N] = d
        BY <3>1 DEF LIFO
      <4>3. s.open[N].time \in Nat
        BY <1>9, <4>1, OpenFields
      <4>4. QED
        BY <4>1, <4>2, <4>3
    <3>3. ASSUME NEW j \in b + 1 .. L
          PROVE  \E i \in 1 .. N - 1 : /\ i >= j - b /\ s.open[i].time = frames[g][j].start
                                       /\ s.open[i].ip = frames[g][j].fn
      <4>1. PICK i \in 1 .. N : /\ i >= j - b /\ s.open[i].time = frames[g][j].start
                                /\ s.open[i].ip = frames[g][j].fn
        BY <3>1 DEF Covers
      <4>2. j \in 1 .. L /\ L \in 1 .. L /\ (j = L \/ j \in 1 .. L - 1) /\ L > b
        BY <1>1, <1>6
      <4>3. frames[g][j].start <= Top(g).start
        <5>1. frames[g][j].start \in Nat /\ frames[g][L].start \in Nat
          BY <1>1, <4>2
        <5>2. j = L \/ frames[g][j].start < frames[g][L].start
          BY <4>2 DEF Called
        <5>3. QED
          BY <5>1, <5>2 DEF Top
      <4>4. frames[g][j].start < d.time
        <5>1. Top(g).start \in Nat /\ frames[g][j].start \in Nat
          BY <1>1, <4>2 DEF Top
        <5>2. QED
          BY <2>2, <3>2, <4>2, <4>3, <5>1
      <4>5. i # N
        BY <1>1, <3>2, <4>1, <4>2, <4>4
      <4>6. i \in 1 .. N - 1
        BY <1>9, <4>5
      <4>7. QED
        BY <4>1, <4>6
    <3>4. N >= (L + 1) - b
      <4>1. CASE L = b
        BY <1>1, <1>9, <3>2, <4>1
      <4>2. CASE L # b
        <5>1. L \in b + 1 .. L
          BY <1>1, <1>6, <4>2
        <5>2. PICK i \in 1 .. N - 1 : i >= L - b
          BY <3>3, <5>1
        <5>3. QED
          BY <1>1, <1>6, <1>9, <5>2
      <4>3. QED
        BY <4>1, <4>2
    <3>5. g \in unreturned
      BY <1>1, <1>6, <1>9, <3>1, <3>4
    <3>6. (L + 1) - 1 = L /\ EntryLast(s)
      BY <1>1, <2>1 DEF EntryLast
    <3>7. Swapped(s, e, t) /\ LIFO(s.open).ip = fn
      BY <1>5, <1>12, <2>1, <3>1
    <3>8. Tidy(g, b, t)'
      BY <1>2, <1>4, <1>6, <2>3, <3>1, <3>3, <3>4, <3>5, <3>6, <3>7, EntrySwaps
    <3>9. QED
      BY <3>8
  <2>4. ASSUME Dirty(g, b, s) PROVE Dirty(g, b, t)'
    <3>1. Len(s.stack) >= L - b + 2
      <4>1. L = b \/ d.time # Top(g).start
        BY <1>1, <1>6, <2>2
      <4>2. QED
        BY <2>1, <2>4, <4>1 DEF Dirty
    <3>2. t.stack = s.stack
      BY <1>5, <1>12 DEF Swapped
    <3>3. Len(t.stack) >= (L + 1) - b + 1
      BY <1>1, <1>6, <1>9, <3>1, <3>2
    <3>4. Dirty(g, b, t)'
      BY <1>2, <1>5, <1>6, <1>9, <2>4, <3>3, EntryDirty
    <3>5. QED
      BY <3>4
  <2>5. Tidy(g, b, t)' \/ Dirty(g, b, t)'
    BY <1>3, <2>3, <2>4
  <2>6. QED
    BY <2>5
<1>13. Tidy(g, b, t)' \/ Dirty(g, b, t)'
  BY <1>3, <1>10, <1>11, <1>12
<1>14. Tracks(g, t)'
  BY <1>4, <1>6, <1>7, <1>8, <1>13, <1>16 DEF Tracks
<1>15. QED
  BY <1>5, <1>14

\* A restart within a sample is always recognised.
LEMMA NestedRestart ==
    ASSUME DepthInv, NEW g \in Goroutines, Called(g), cfg' = cfg, g \in fresh, frames[g] # <<>>,
           NEW at \in Nat, Enters(g, Top(g).fn, at, Len(frames[g])),
           completed' = completed, inSample'[g] = inSample[g], admittedAt'[g] = admittedAt[g],
           since[g] # 0, since'[g] = since[g],
           state'[g].sample_denominator = state[g].sample_denominator,
           NEW e, EntryOf(e, g, Top(g).fn, <<at, Len(frames[g])>>, <<at, Len(frames[g]) - 1>>),
           e.flag = NoFlag, e.sample_denominator = state[g].sample_denominator,
           NEW s \in Replicas, Tracks(g, s), g \notin Blurred,
           NEW t, t = Replayed(g, s, e)
    PROVE  Tracks(g, t)' /\ Silent(g, s, e)
<1> DEFINE L == Len(frames[g])
           N == Len(s.open)
           fn == Top(g).fn
<1>1. /\ L \in Nat /\ L > 0 /\ clock[g] \in Nat
      /\ \A i \in 1 .. L : frames[g][i].start \in Nat
  BY Shapes
<1>2. /\ e \in SentCall /\ e.goid = g /\ e.location = ENT /\ e.ip = fn
      /\ e.caller_bp = <<at, L - 1>> /\ e.time = clock'[g]
  BY DEF EntryOf
<1>3. PICK b \in 0 .. L :
         Recorded(g) = b + 1 .. L /\ Heads(g, b, s) /\ (Tidy(g, b, s) \/ Dirty(g, b, s))
  BY DEF Tracks
<1>4. e.sample_denominator = admittedAt[g]
  BY DEF Tracks
<1>5. PICK d \in s.last : d.location = ENT /\ d.time = Top(g).start
  BY <1>3 DEF Heads
<1>6. L > b /\ d.ip = fn /\ d.bp = <<moves[g], L>>
  BY <1>3, <1>5 DEF Heads
<1>7. Repeats(s, e)
  <2>1. L # L - 1
    BY <1>1
  <2>2. d.bp # e.caller_bp
    BY <1>2, <1>6, <2>1
  <2>3. QED
    BY <1>2, <1>5, <1>6, <2>2 DEF Repeats
<1>8. t \in Replicas /\ Silent(g, s, e) /\ t.last = {e} /\ Swapped(s, e, t)
  <2>1. ~Adaptive \/ s.last # {}
    BY <1>5
  <2>2. e \in SentCall
    BY <1>2
  <2>3. e.goid = g /\ e.location = ENT /\ e.flag = NoFlag
    BY <1>2
  <2>4. Replayed(g, s, e) \in Replicas
    BY <2>1, <2>2, <2>3, EntryReplayed
  <2>5. Silent(g, s, e)
    BY <2>1, <2>2, <2>3, EntryReplayed, Zenon
  <2>6. Swapped(s, e, Replayed(g, s, e))
    BY <1>7, <2>1, <2>2, <2>3, EntryReplayed
  <2>7. Replayed(g, s, e).last = {e}
    BY <2>6 DEF Swapped
  <2>8. QED
    BY <2>4, <2>5, <2>6, <2>7, Zenon
<1>9. L \in Nat \ {0} /\ L \in L .. L + 1 /\ b \in 0 .. L - 1 /\ b \in Nat /\ b < L /\ L \in b + 1 .. L
      /\ L \in 1 .. L
  BY <1>1, <1>6
<1>10. Heads(g, b, t)'
  <2>1. EntryOf(e, g, fn, <<at, L>>, <<at, L - 1>>) /\ Enters(g, fn, at, L)
    OBVIOUS
  <2>2. clock[g] \in Nat /\ L \in Nat \ {0} /\ b \in 0 .. L - 1 /\ t.last = {e}
    BY <1>1, <1>8, <1>9
  <2>3. QED
    <3> HIDE DEF fn, L
    <3>1. QED
      BY <2>1, <2>2, EnteredHeads
<1>11. Recorded(g)' = b + 1 .. L
  BY <1>3, <1>9, EnteredRecorded
<1>12. Len(frames'[g]) = L
  BY DEF Enters
<1>13. /\ s.open \in Seq(CallEvent) /\ N \in Nat /\ (s.open # <<>> <=> N > 0)
       /\ s.stack \in Seq(Functions) /\ Len(s.stack) \in Nat
  BY ReplicaFields, OpenFields, EmptySeqFacts
<1>14. fn \in Functions
  BY <1>9 DEF Called, Top
<1>15. ASSUME Tidy(g, b, s) PROVE Tidy(g, b, t)'
  <2>1. Ascending(s.open, clock[g]) /\ Covers(g, b, s.open) /\ s.open # <<>> /\ LIFO(s.open) = d
    BY <1>5, <1>15 DEF Tidy
  <2>2. N > 0 /\ N \in 1 .. N
    BY <1>13, <2>1
  <2>3. s.open[N] = d
    BY <2>1 DEF LIFO
  <2>4. s.open[N].time = frames[g][L].start
    BY <1>5, <2>3 DEF Top
  <2>5. N >= L - b
    <3>1. PICK i \in 1 .. N : i >= L - b /\ s.open[i].time = frames[g][L].start
      BY <1>9, <2>1 DEF Covers
    <3>2. i = N
      BY <1>13, <2>1, <2>2, <2>4, <3>1, OneOfTime
    <3>3. QED
      BY <3>1, <3>2
  <2>6. ASSUME NEW j \in b + 1 .. L - 1
        PROVE  \E i \in 1 .. N - 1 : /\ i >= j - b /\ s.open[i].time = frames[g][j].start
                                     /\ s.open[i].ip = frames[g][j].fn
    <3>1. j \in b + 1 .. L /\ j \in 1 .. L - 1 /\ j \in 1 .. L
      BY <1>1, <1>9
    <3>2. PICK i \in 1 .. N : /\ i >= j - b /\ s.open[i].time = frames[g][j].start
                              /\ s.open[i].ip = frames[g][j].fn
      BY <2>1, <3>1 DEF Covers
    <3>3. frames[g][j].start < frames[g][L].start
      BY <1>9, <3>1 DEF Called
    <3>4. frames[g][j].start \in Nat /\ frames[g][L].start \in Nat
      BY <1>1, <1>9, <3>1
    <3>5. i # N
      <4>1. frames[g][j].start # frames[g][L].start
        BY <3>3, <3>4
      <4>2. s.open[i].time # s.open[N].time
        BY <2>4, <3>2, <4>1
      <4>3. QED
        BY <4>2
    <3>6. i \in 1 .. N - 1
      BY <1>13, <3>5
    <3>7. QED
      BY <3>2, <3>6
  <2>7. EntryLast(s)
    BY <1>5 DEF EntryLast
  <2>8. LIFO(s.open).ip = fn
    BY <1>6, <2>1
  <2>9. QED
    BY <1>2, <1>4, <1>8, <1>9, <1>14, <1>15, <2>1, <2>5, <2>6, <2>7, <2>8, EntrySwaps
<1>16. ASSUME Dirty(g, b, s) PROVE Dirty(g, b, t)'
  <2>1. Len(s.stack) >= L - b + 1
    BY <1>16 DEF Dirty
  <2>2. t.stack = s.stack
    BY <1>8 DEF Swapped
  <2>3. Len(t.stack) >= L - b + 1
    BY <2>1, <2>2
  <2>4. QED
    BY <1>2, <1>8, <1>9, <1>13, <1>16, <2>3, EntryDirty
<1>17. Tidy(g, b, t)' \/ Dirty(g, b, t)'
  BY <1>3, <1>15, <1>16
<1>18. b \in 0 .. Len(frames'[g])
  BY <1>9, <1>12
<1>19. state'[g].sample_denominator = admittedAt'[g]
  BY <1>4
<1>20. Tracks(g, t)'
  BY <1>10, <1>11, <1>12, <1>17, <1>18, <1>19 DEF Tracks
<1>21. QED
  BY <1>8, <1>20

\* The first entry of a sample.
LEMMA FirstEntry ==
    ASSUME DepthInv, NEW g \in Goroutines, cfg' = cfg, NEW fn \in Functions, NEW at \in Nat,
           NEW n \in Nat \ {0}, n <= Len(frames[g]) + 1, Enters(g, fn, at, n),
           NEW caller_bp, NEW e, EntryOf(e, g, fn, <<at, n>>, caller_bp),
           e.flag = IF Adaptive THEN START ELSE NoFlag, e.sample_denominator = denominator,
           state'[g].sample_denominator = denominator, admittedAt'[g] = denominator,
           since'[g] = clock'[g], g \notin unreturned => inSample'[g] = {},
           NEW t, t = Replayed(g, Blank, e)
    PROVE  Tracks(g, t)' /\ Silent(g, Blank, e)
<1>1. /\ Len(frames[g]) \in Nat /\ clock[g] \in Nat
      /\ \A i \in 1 .. Len(frames[g]) : frames[g][i].start \in Nat /\ frames[g][i].start <= clock[g]
  BY Shapes
<1>2. /\ clock'[g] = clock[g] + 1 /\ Len(frames'[g]) = n
      /\ frames'[g][n] = [fn |-> fn, start |-> clock[g] + 1, at |-> at]
      /\ \A i \in 1 .. n - 1 : i \in 1 .. Len(frames[g]) /\ frames'[g][i] = frames[g][i]
      /\ unreturned' = unreturned
  BY DEF Enters
<1>3. /\ e \in SentCall /\ e.goid = g /\ e.location = ENT /\ e.ip = fn /\ e.time = clock'[g]
  BY DEF EntryOf
<1>17. t \in Replicas /\ Silent(g, Blank, e) /\ Opens(e, t)
  BY <1>3, FirstReplayed
<1>4. t.open = <<e>> /\ t.pairs = {} /\ t.stack = <<e.ip>> /\ t.bad = FALSE /\ t.last = {e}
  BY <1>17 DEF Opens
<1>5. n - 1 \in 0 .. n - 1 /\ n - 1 \in 0 .. n /\ (n - 1) + 1 = n /\ n \in 1 .. n
  OBVIOUS
<1>6. Heads(g, n - 1, t)'
  BY <1>1, <1>4, <1>5, EnteredHeads
<1>7. Recorded(g)' = (n - 1) + 1 .. n
  <2>1. n \in Recorded(g)'
    BY <1>1, <1>2, <1>5 DEF Recorded
  <2>2. ASSUME NEW i \in 1 .. n - 1 PROVE i \notin Recorded(g)'
    <3>1. frames'[g][i].start \in Nat /\ frames'[g][i].start <= clock[g]
      BY <1>1, <1>2
    <3>2. ~(frames'[g][i].start >= since'[g])
      BY <1>1, <1>2, <3>1
    <3>3. QED
      BY <3>2 DEF Recorded
  <2>3. Recorded(g)' \subseteq 1 .. n
    BY <1>2 DEF Recorded
  <2>4. \A i \in 1 .. n : i \in 1 .. n - 1 \/ i = n
    OBVIOUS
  <2>5. Recorded(g)' = {n}
    BY <2>1, <2>2, <2>3, <2>4
  <2>6. (n - 1) + 1 .. n = {n}
    OBVIOUS
  <2>7. QED
    BY <2>5, <2>6
<1>8. t.open # <<>> /\ Len(t.open) = 1 /\ t.open[1] = e /\ LIFO(t.open) = e /\ t.stack = Ips(t.open)
  <2>1. Len(<<e>>) = 1 /\ <<e>>[1] = e /\ <<e>> # <<>> /\ LIFO(<<e>>) = e
    BY DEF LIFO
  <2>2. <<e.ip>> = Ips(<<e>>)
    BY DEF Ips
  <2>3. QED
    BY <1>4, <2>1, <2>2, Zenon
<1>9. Ascending(t.open, clock'[g])
  BY <1>1, <1>2, <1>3, <1>8 DEF Ascending
<1>10. Covers(g, n - 1, t.open)'
  <2>1. SUFFICES ASSUME NEW j \in (n - 1) + 1 .. n
                 PROVE  \E i \in 1 .. 1 : /\ i >= j - (n - 1) /\ t.open[i].time = frames'[g][j].start
                                          /\ t.open[i].ip = frames'[g][j].fn
    BY <1>2, <1>8 DEF Covers
  <2>2. j = n /\ 1 \in 1 .. 1 /\ 1 >= j - (n - 1)
    OBVIOUS
  <2>5. frames'[g][n].start = clock[g] + 1 /\ frames'[g][n].fn = fn
    BY <1>2
  <2>3. frames'[g][j].start = clock[g] + 1 /\ frames'[g][j].fn = fn
    BY <2>2, <2>5
  <2>4. QED
    BY <1>2, <1>3, <1>8, <2>2, <2>3
<1>11. Accounts(g, t)'
  BY <1>2, <1>4 DEF Accounts
<1>12. \A i \in 1 .. Len(t.open) : t.open[i].sample_denominator = admittedAt'[g]
  BY <1>8
<1>13. Len(t.open) = Len(frames'[g]) - (n - 1)
  BY <1>2, <1>8
<1>14. Tidy(g, n - 1, t)'
  BY <1>4, <1>8, <1>9, <1>10, <1>11, <1>12, <1>13 DEF Tidy
<1>15. Tracks(g, t)'
  BY <1>2, <1>5, <1>6, <1>7, <1>14 DEF Tracks
<1>16. QED
  BY <1>15, <1>17

\* An event that yields nothing.
LEMMA SilentAdvances ==
    ASSUME NEW g, NEW s, NEW e \in Sent, queue' = Append(queue, e), e.goid = g,
           NEW t, t = Replayed(g, s, e), Silent(g, s, e), Abreast(g, t)', Grows(g, {})
    PROVE  Advances(g, s)
<1> DEFINE y == Yield(g, s, e)
<1>1. y = {}
  BY DEF Silent
<1>2. Grows(g, y)
  BY <1>1, Zenon
<1>3. QED
  BY <1>2, Zenon DEF Advances

\* What an entry does.
LEMMA EntryAdvances ==
    ASSUME DepthInv, DepthInv', HistoryOK, NEW g \in Goroutines, Called(g), cfg' = cfg,
           NEW fn \in Functions, NEW at \in Nat, NEW n \in Nat \ {0}, Enters(g, fn, at, n),
           \/ n = Len(frames[g]) + 1 /\ at = moves[g]
           \/ n = Len(frames[g]) /\ g \in fresh /\ fn = Top(g).fn,
           Follow(g), stats'["dropped_events"] = 0,
           NEW s \in Replicas, g \notin Blurred, Abreast(g, s)
    PROVE  Advances(g, s)
<1>1. /\ Len(frames[g]) \in Nat /\ n \in Len(frames[g]) .. Len(frames[g]) + 1
      /\ n <= Len(frames[g]) + 1
  BY Shapes
<1>2. /\ completed' = completed
      /\ inSample'[g] = IF SampleAborts(g) THEN {} ELSE inSample[g]
      /\ state[g] # NoState => admittedAt'[g] = admittedAt[g]
  BY <1>1, EnteredFollow
<1>3. unreturned' = unreturned
  BY DEF Enters
<1>4. EntSends(g, fn, <<at, n>>, <<at, n - 1>>)
  <2>1. <<at, n>> \in Addresses /\ <<at, n - 1>> \in Addresses
    BY DEF Addresses
  <2>2. KernelTypeOK /\ clock'[g] \in Nat
    BY Shapes, ShapesNext
  <2>3. Ent(g, fn, <<at, n>>, <<at, n - 1>>)
    BY DEF Enters
  <2>4. QED
    BY <2>1, <2>2, <2>3, EntSendsOne
<1>5. \A e, c : EntryOf(e, g, fn, <<at, n>>, c) => e \in Sent /\ e.goid = g
  BY DEF EntryOf, SentCall
<1>6. \A e : Pushes(e) => queue' = Append(queue, e)
  BY DEF Pushes
<1>7. Grows(g, {})
  BY <1>2 DEF Grows
<1>8. CASE state[g] = NoState /\ UNCHANGED <<state, queue, since>>
  <2>1. ~SampleAborts(g)
    BY <1>8 DEF SampleAborts
  <2>2. Abreast(g, s)'
    BY <1>2, <1>3, <1>8, <2>1 DEF Abreast
  <2>3. QED
    BY <1>7, <1>8, <2>2 DEF Advances
<1>9. ASSUME NEW e, EntryOf(e, g, fn, <<at, n>>, <<at, n - 1>>), Pushes(e),
             NEW t, t = Replayed(g, s, e), Abreast(g, t)', Silent(g, s, e)
      PROVE  Advances(g, s)
  <2>1. e \in Sent /\ e.goid = g /\ queue' = Append(queue, e)
    BY <1>5, <1>6, <1>9
  <2>2. QED
    BY <1>7, <1>9, <2>1, SilentAdvances
<1>10. ASSUME NEW e, EntryOf(e, g, fn, <<at, n>>, <<at, n - 1>>), Pushes(e),
              state[g] = NoState, state'[g] # NoState, since'[g] = clock'[g],
              e.flag = IF Adaptive THEN START ELSE NoFlag,
              e.sample_denominator = denominator, state'[g].sample_denominator = denominator
       PROVE  Advances(g, s)
  <2>1. admittedAt'[g] = denominator
    BY <1>10, FollowDoes DEF AdmittedAtNext
  <2>2. s = Blank /\ (g \notin unreturned => inSample[g] = {})
    BY <1>10 DEF Abreast
  <2>3. g \notin unreturned => inSample'[g] = {}
    BY <1>2, <2>2
  <2>4. PICK t : t = Replayed(g, Blank, e)
    OBVIOUS
  <2>5. Tracks(g, t)' /\ Silent(g, Blank, e)
    BY <1>1, <1>10, <2>1, <2>3, <2>4, FirstEntry
  <2>6. Abreast(g, t)'
    BY <1>10, <2>5 DEF Abreast
  <2>7. t = Replayed(g, s, e) /\ Silent(g, s, e)
    BY <2>2, <2>4, <2>5, Zenon
  <2>8. QED
    BY <1>9, <1>10, <2>6, <2>7
<1>11. ASSUME NEW e, EntryOf(e, g, fn, <<at, n>>, <<at, n - 1>>), Pushes(e),
              state[g] # NoState, state'[g] = NoState,
              Adaptive, state[g].event_count >= MaxSampleEvents, e.flag = ABORT
       PROVE  Advances(g, s)
  <2>1. Leaves(e) /\ e.goid = g
    BY <1>11 DEF Leaves, EntryOf
  <2>2. Replayed(g, s, e) = Blank /\ Silent(g, s, e)
    BY <2>1, LeavingReplayed
  <2>3. SampleAborts(g)
    BY <1>11 DEF SampleAborts
  <2>4. PICK t : t = Replayed(g, s, e)
    OBVIOUS
  <2>5. t = Blank /\ Silent(g, s, e)
    BY <2>2, <2>4, Zenon
  <2>6. Blank' = Blank
    BY DEF Blank
  <2>7. Abreast(g, t)'
    BY <1>2, <1>11, <2>3, <2>5, <2>6 DEF Abreast
  <2>8. QED
    BY <1>9, <1>11, <2>4, <2>5, <2>7
<1>12. ASSUME NEW e, EntryOf(e, g, fn, <<at, n>>, <<at, n - 1>>), Pushes(e),
              state[g] # NoState, state'[g] # NoState, since'[g] = since[g], e.flag = NoFlag,
              e.sample_denominator = state[g].sample_denominator,
              state'[g].sample_denominator = state[g].sample_denominator
       PROVE  Advances(g, s)
  <2>1. ~SampleAborts(g)
    BY <1>12 DEF SampleAborts
  <2>2. inSample'[g] = inSample[g] /\ admittedAt'[g] = admittedAt[g]
    BY <1>2, <1>12, <2>1
  <2>3. since[g] # 0
    <3>1. GoroutineInv(g) /\ since[g] \in Nat
      BY Shapes
    <3>2. QED
      BY <1>12, <3>1 DEF GoroutineInv, SampleInv, Opened
  <2>4. Tracks(g, s)
    BY <1>12 DEF Abreast
  <2>9. PICK t : t = Replayed(g, s, e)
    OBVIOUS
  <2>5. ASSUME n = Len(frames[g]) + 1, at = moves[g]
        PROVE  Tracks(g, t)' /\ Silent(g, s, e)
    <3>1. n - 1 = Len(frames[g])
      BY <1>1, <2>5
    <3>2. Enters(g, fn, moves[g], Len(frames[g]) + 1)
      BY <2>5
    <3>3. EntryOf(e, g, fn, <<moves[g], Len(frames[g]) + 1>>, <<moves[g], Len(frames[g])>>)
      BY <1>12, <2>5, <3>1
    <3>4. QED
      BY <1>2, <1>12, <2>2, <2>3, <2>4, <2>9, <3>2, <3>3, NestedCall
  <2>6. ASSUME n = Len(frames[g]), g \in fresh, fn = Top(g).fn
        PROVE  Tracks(g, t)' /\ Silent(g, s, e)
    <3>1. frames[g] # <<>>
      BY <2>6
    <3>2. Enters(g, Top(g).fn, at, Len(frames[g]))
      BY <2>6
    <3>3. EntryOf(e, g, Top(g).fn, <<at, Len(frames[g])>>, <<at, Len(frames[g]) - 1>>)
      BY <1>12, <2>6
    <3>4. QED
      BY <1>2, <1>12, <2>2, <2>3, <2>4, <2>6, <2>9, <3>1, <3>2, <3>3, NestedRestart
  <2>7. Abreast(g, t)' /\ Silent(g, s, e)
    BY <1>12, <2>5, <2>6 DEF Abreast
  <2>8. QED
    BY <1>9, <1>12, <2>7, <2>9
<1>13. QED
  BY <1>4, <1>8, <1>10, <1>11, <1>12 DEF EntSends

-----------------------------------------------------------------------------
(* Returns *)

\* The call that returns.
Returning(g) ==
    [goid |-> g, fn |-> Top(g).fn, start |-> Top(g).start, end |-> clock'[g],
     weight |-> admittedAt[g]]

\* A return of a recorded call is that call, the last one ends the sample.
LEMMA ReturnCalls ==
    ASSUME DepthInv, NEW g \in Goroutines, Called(g), Return(g), NEW b \in 0 .. Len(frames[g]),
           Recorded(g) = b + 1 .. Len(frames[g])
    PROVE  /\ Len(frames[g]) > b => CallNext(g) = {Returning(g)} /\ Len(frames[g]) \in Recorded(g)
           /\ ~(Len(frames[g]) > b) => CallNext(g) = {} /\ Len(frames[g]) \notin Recorded(g)
           /\ SampleCompletes(g) <=> Len(frames[g]) = b + 1
<1> DEFINE L == Len(frames[g])
<1>1. L \in Nat /\ clock[g] \in Nat /\ b \in Nat /\ b <= L
  BY Shapes
<1>2. Len(frames'[g]) = L - 1 /\ clock'[g] = clock[g] + 1
  BY ReturnLeaves
<1>3. clock'[g] # clock[g] /\ L \notin 1 .. L - 1
  BY <1>1, <1>2
<1>4. L \in Recorded(g) <=> L > b
  BY <1>1
<1>5. L > b => CallNext(g) = {Returning(g)}
  BY <1>2, <1>3, <1>4 DEF CallNext, Returning
<1>6. ~(L > b) => CallNext(g) = {}
  BY <1>4 DEF CallNext
<1>7. SampleCompletes(g) <=> L = b + 1
  <2>1. CASE L > b
    <3>1. Recorded(g) = {L} <=> L = b + 1
      <4>1. L = b + 1 => b + 1 .. L = {L}
        BY <1>1
      <4>2. L # b + 1 => b + 1 \in b + 1 .. L /\ b + 1 # L
        BY <1>1, <2>1
      <4>3. QED
        BY <4>1, <4>2
    <3>2. CallNext(g) # {}
      BY <1>5, <2>1
    <3>3. QED
      BY <3>1, <3>2 DEF SampleCompletes
  <2>2. CASE ~(L > b)
    BY <1>1, <1>6, <2>2 DEF SampleCompletes
  <2>3. QED
    BY <2>1, <2>2
<1>8. QED
  BY <1>4, <1>5, <1>6, <1>7

\* What remains of the sample.
LEMMA ReturnRecorded ==
    ASSUME DepthInv, NEW g \in Goroutines, Called(g), Return(g), NEW b \in 0 .. Len(frames[g]),
           Recorded(g) = b + 1 .. Len(frames[g]), since'[g] = since[g],
           NEW c \in 0 .. Len(frames[g]) - 1, c = b \/ (b = Len(frames[g]) /\ c = b - 1)
    PROVE  Recorded(g)' = c + 1 .. Len(frames[g]) - 1
<1> DEFINE L == Len(frames[g])
<1>1. L \in Nat /\ b \in Nat /\ b <= L
  BY Shapes
<1>2. Len(frames'[g]) = L - 1 /\ \A i \in 1 .. L - 1 : frames'[g][i] = frames[g][i]
  BY ReturnLeaves
<1>3. ASSUME NEW i \in 1 .. L - 1 PROVE i \in Recorded(g)' <=> i \in c + 1 .. L - 1
  <2>1. i \in Recorded(g)' <=> i \in Recorded(g)
    BY <1>1, <1>2 DEF Recorded
  <2>2. i \in b + 1 .. L <=> i \in c + 1 .. L - 1
    BY <1>1
  <2>3. QED
    BY <2>1, <2>2
<1>4. Recorded(g)' \subseteq 1 .. L - 1
  BY <1>2 DEF Recorded
<1>5. c + 1 .. L - 1 \subseteq 1 .. L - 1
  BY <1>1
<1>6. QED
  BY <1>3, <1>4, <1>5

\* With --sample the last recorded call of a sample without a missed return is its root.
LEMMA LastIsRoot ==
    ASSUME DepthInv, NEW g \in Goroutines, Exact(g), Strays(g), Adaptive, state[g] # NoState,
           g \notin unreturned, Recorded(g) = {Len(frames[g])}
    PROVE  /\ Top(g).fn = state[g].root_ip /\ state[g].root_ip \in Wanted
           /\ ~(state[g].root_depth > 1)
<1> DEFINE L == Len(frames[g])
<1>1. Sound(g)
  BY DEF Strays, Sound
<1>2. state[g].root_depth = Cardinality(RootFrames(g))
  BY <1>1 DEF Exact
<1>3. state[g].root_ip \in Wanted /\ state[g].root_depth > 0
  <2>1. GoroutineInv(g)
    BY Shapes
  <2>2. QED
    BY <2>1 DEF GoroutineInv, SampleInv, Opened
<1>4. RootFrames(g) \in {{}, {L}}
  BY DEF RootFrames
<1>5. Cardinality({}) = 0 /\ Cardinality({L}) = 1
  BY FS_EmptySet, FS_Singleton
<1>6. RootFrames(g) = {L}
  <2>1. RootFrames(g) = {} \/ RootFrames(g) = {L}
    BY <1>4
  <2>2. CASE RootFrames(g) = {}
    <3>1. Cardinality(RootFrames(g)) = 0
      BY <1>5, <2>2, Zenon
    <3>2. QED
      BY <1>2, <1>3, <3>1
  <2>3. QED
    BY <2>1, <2>2
<1>7. frames[g][L].fn = state[g].root_ip
  <2>1. L \in RootFrames(g)
    BY <1>6
  <2>2. QED
    BY <2>1 DEF RootFrames
<1>8. Cardinality(RootFrames(g)) = 1
  BY <1>5, <1>6, Zenon
<1>9. QED
  BY <1>2, <1>3, <1>7, <1>8 DEF Top

\* The return of the root at depth 1 is that of the last recorded call.
LEMMA RootIsLast ==
    ASSUME DepthInv, NEW g \in Goroutines, Called(g), Exact(g), Strays(g), Adaptive,
           state[g] # NoState, g \notin unreturned, frames[g] # <<>>,
           Top(g).fn = state[g].root_ip, ~(state[g].root_depth > 1)
    PROVE  Recorded(g) = {Len(frames[g])}
<1> DEFINE L == Len(frames[g])
<1>1. Sound(g)
  BY DEF Strays, Sound
<1>2. state[g].root_depth = Cardinality(RootFrames(g))
  BY <1>1 DEF Exact
<1>3. L \in Recorded(g)
  BY <1>1, SampledTop
<1>4. L \in RootFrames(g)
  BY <1>3 DEF RootFrames, Top
<1>5. /\ GoroutineInv(g) /\ L \in Nat /\ Recorded(g) \subseteq 1 .. L
  BY Shapes DEF Recorded
<1>6. RootFrames(g) = {L}
  <2>1. IsFiniteSet(RootFrames(g))
    <3>1. IsFiniteSet(1 .. L)
      BY <1>5, FS_Interval
    <3>2. RootFrames(g) \subseteq 1 .. L
      BY <1>5 DEF RootFrames
    <3>3. QED
      BY <3>1, <3>2, FS_Subset
  <2>2. Cardinality(RootFrames(g)) \in Nat /\ Cardinality(RootFrames(g)) <= 1
    BY <1>2, <2>1, FS_CardinalityType
  <2>3. IsFiniteSet({L}) /\ Cardinality({L}) = 1
    BY FS_Singleton
  <2>4. {L} \subseteq RootFrames(g)
    BY <1>4
  <2>5. Cardinality({L}) <= Cardinality(RootFrames(g))
    BY <2>1, <2>4, FS_Subset
  <2>6. Cardinality({L}) = Cardinality(RootFrames(g))
    BY <2>2, <2>3, <2>5
  <2>7. QED
    BY <2>1, <2>4, <2>6, FS_Subset
<1>7. \A i \in Recorded(g) : L <= i
  BY <1>1, <1>5, <1>6 DEF GoroutineInv, SampleInv, Bottom
<1>8. QED
  BY <1>3, <1>5, <1>7

\* The frame on top has an open entry.
LEMMA TopOpen ==
    ASSUME DepthInv, NEW g \in Goroutines, NEW b \in 0 .. Len(frames[g]), Len(frames[g]) > b,
           NEW s \in Replicas, Tidy(g, b, s)
    PROVE  \E i \in 1 .. Len(s.open) : /\ i >= Len(frames[g]) - b /\ s.open[i].time = Top(g).start
                                       /\ s.open[i].ip = Top(g).fn
<1>1. Len(frames[g]) \in b + 1 .. Len(frames[g])
  BY Shapes
<1>2. QED
  BY <1>1 DEF Tidy, Covers, Top

\* The return of a call whose entry is the innermost open one.
Closing(g, s) ==
    s.open # <<>> /\ s.open[Len(s.open)].time = Top(g).start /\ s.open[Len(s.open)].ip = Top(g).fn

\* What it leaves.
Left(g, s, e) ==
    /\ ~Differs(s, e) /\ OpenAfter(s, e) = Drop(s.open) /\ StackAfter(s, e) = Drop(s.stack)
    /\ PairsAfter(s, e) = s.pairs \cup {Returning(g)}

\* It is paired with that entry.
LEMMA ReturnPairs ==
    ASSUME NEW g, NEW e, ReturnOf(e, g, Top(g).fn), NEW b, NEW s \in Replicas, Tidy(g, b, s),
           Closing(g, s)
    PROVE  /\ Left(g, s, e) /\ Len(StackAfter(s, e)) = Len(s.open) - 1
           /\ (StackAfter(s, e) = <<>> <=> Len(s.open) = 1)
<1>1. e \in SentCall /\ e.goid = g /\ e.location = RET /\ e.ip = Top(g).fn /\ e.time = clock'[g]
  BY DEF ReturnOf
<1>2. ENT # RET
  BY DEF ENT, RET
<1>3. s.open \in Seq(CallEvent) /\ s.open # <<>> /\ Len(s.open) \in Nat \ {0}
  BY ReplicaFields, OpenFields DEF Closing
<1>4. LIFO(s.open) = s.open[Len(s.open)] /\ Len(s.open) \in 1 .. Len(s.open)
  BY <1>3 DEF LIFO
<1>5. s.stack = Ips(s.open) /\ s.open[Len(s.open)].sample_denominator = admittedAt[g]
  BY <1>4 DEF Tidy
<1>6. /\ Ips(s.open) \in Seq(Functions) /\ Ips(s.open) # <<>> /\ Len(Ips(s.open)) = Len(s.open)
      /\ LIFO(Ips(s.open)) = LIFO(s.open).ip
  BY <1>3, IpsFacts, IpsDrop
<1>7. s.stack \in Seq(Functions) /\ s.stack # <<>> /\ Len(s.stack) = Len(s.open) /\ LIFO(s.stack) = e.ip
  BY <1>1, <1>4, <1>5, <1>6 DEF Closing
<1>8. ~Differs(s, e)
  BY <1>7 DEF Differs
<1>9. StackAfter(s, e) = Drop(s.stack)
  BY <1>1, <1>2, <1>7, <1>8 DEF StackAfter
<1>10. OpenAfter(s, e) = Drop(s.open)
  BY <1>1, <1>2, <1>3 DEF OpenAfter
<1>11. Pair(LIFO(s.open), e) = Returning(g)
  BY <1>1, <1>4, <1>5 DEF Pair, Returning, Closing
<1>12. PairsAfter(s, e) = s.pairs \cup {Returning(g)}
  BY <1>1, <1>2, <1>3, <1>11 DEF PairsAfter
<1>13. Drop(s.stack) \in Seq(Functions) /\ Len(Drop(s.stack)) = Len(s.open) - 1
  BY <1>7, LastFacts
<1>17. Drop(s.stack) # <<>> <=> Len(Drop(s.stack)) \in Nat \ {0}
  BY <1>13, EmptySeqFacts
<1>18. Len(Drop(s.stack)) \in Nat \ {0} <=> Len(s.open) # 1
  BY <1>3, <1>13
<1>14. Drop(s.stack) = <<>> <=> Len(s.open) = 1
  BY <1>17, <1>18, Zenon
<1>15. Left(g, s, e)
  BY <1>8, <1>9, <1>10, <1>12 DEF Left
<1>16. QED
  BY <1>9, <1>13, <1>14, <1>15, Zenon

\* A sample that is given away, or whose innermost open entry is not that of the frame
\* on top, is given away after the return.
LEMMA ReturnDirties ==
    ASSUME DepthInv, NEW g \in Goroutines, Called(g), Return(g), cfg' = cfg,
           NEW b \in 0 .. Len(frames[g]), Len(frames[g]) > b,
           Aggregate, g \in unreturned, g \notin stray', NEW s \in Replicas,
           Len(s.stack) >= Len(frames[g]) - b + 1,
           NEW e, ReturnOf(e, g, Top(g).fn), e.flag = NoFlag, NEW t, NEW y
    PROVE  /\ ~Finishes(s, e)
           /\ Passes(s, e, t, y) => Dirty(g, b, t)'
<1> DEFINE L == Len(frames[g])
<1>1. L \in Nat /\ b \in Nat /\ b < L
  BY Shapes
<1>2. e \in SentCall /\ e.location = RET /\ ENT # RET /\ NoFlag # END
  BY DEF ReturnOf, ENT, RET, NoFlag, END
<1>3. /\ Len(StackAfter(s, e)) \in Nat /\ Len(s.stack) \in Nat
      /\ Len(StackAfter(s, e)) >= Len(s.stack) - 1
      /\ Len(StackAfter(s, e)) > 0 => StackAfter(s, e) # <<>>
  BY <1>2, OneOff
<1>4. Len(StackAfter(s, e)) >= L - b /\ Len(StackAfter(s, e)) > 0
  BY <1>1, <1>3
<1>5. ~Finishes(s, e)
  BY <1>2, <1>3, <1>4 DEF Finishes
<1>6. Len(frames'[g]) = L - 1 /\ unreturned' = unreturned
  BY ReturnLeaves
<1>7. ASSUME Passes(s, e, t, y) PROVE Dirty(g, b, t)'
  <2>1. t.stack = StackAfter(s, e) /\ t.last = {e}
    BY <1>7 DEF Passes
  <2>2. Len(t.stack) >= (L - 1) - b + 1
    <3>1. Len(t.stack) = Len(StackAfter(s, e))
      BY <2>1, Zenon
    <3>2. QED
      BY <1>1, <1>3, <1>4, <3>1
  <2>3. \A d \in t.last : d.location # ENT
    BY <1>2, <2>1
  <2>4. QED
    BY <1>6, <2>2, <2>3 DEF Dirty, Aggregate
<1>8. QED
  BY <1>5, <1>7

\* What the history makes of a return within a sample that goes on.
LEMMA ReturnFollows ==
    ASSUME DepthInv, HistoryOK, NEW g \in Goroutines, Called(g), Return(g), Follow(g),
           ~SampleAborts(g), NEW b \in 0 .. Len(frames[g]), Len(frames[g]) > b,
           Recorded(g) = b + 1 .. Len(frames[g])
    PROVE  /\ Len(frames[g]) = b + 1 =>
                inSample'[g] = {} /\ completed' = completed \cup inSample[g] \cup {Returning(g)}
           /\ Len(frames[g]) # b + 1 =>
                inSample'[g] = inSample[g] \cup {Returning(g)} /\ completed' = completed
<1>1. CallNext(g) = {Returning(g)}
  BY ReturnCalls
<1>2. SampleCompletes(g) <=> Len(frames[g]) = b + 1
  BY ReturnCalls
<1>3. QED
  BY <1>1, <1>2, FollowDoes

\* The return of the innermost open entry, when it is not the last.
LEMMA ReturnTidies ==
    ASSUME DepthInv, HistoryOK, NEW g \in Goroutines, Called(g), Return(g), Follow(g), cfg' = cfg,
           ~SampleAborts(g), admittedAt'[g] = admittedAt[g],
           NEW b \in 0 .. Len(frames[g]), Len(frames[g]) > b,
           Recorded(g) = b + 1 .. Len(frames[g]), g \notin unreturned => Len(frames[g]) # b + 1,
           NEW s \in Replicas, Tidy(g, b, s), Closing(g, s),
           NEW e, ReturnOf(e, g, Top(g).fn), e.flag = NoFlag, ~Finishes(s, e),
           NEW t, NEW y, Passes(s, e, t, y)
    PROVE  Tidy(g, b, t)' /\ Grows(g, {})
<1> DEFINE L == Len(frames[g])
           N == Len(s.open)
<1>1. /\ L \in Nat /\ b \in Nat /\ b < L /\ clock[g] \in Nat
      /\ \A i \in 1 .. L : frames[g][i].start \in Nat
  BY Shapes
<1>2. /\ L \in 1 .. L /\ Len(frames'[g]) = L - 1 /\ clock'[g] = clock[g] + 1
      /\ unreturned' = unreturned /\ \A i \in 1 .. L - 1 : frames'[g][i] = frames[g][i]
  BY ReturnLeaves
<1>3. s.open \in Seq(CallEvent) /\ s.open # <<>> /\ N \in Nat /\ N > 0
  BY ReplicaFields, OpenFields DEF Closing
<1>4. /\ s.bad = FALSE /\ s.stack = Ips(s.open) /\ Ascending(s.open, clock[g])
      /\ \A i \in 1 .. N : s.open[i].sample_denominator = admittedAt[g]
      /\ Covers(g, b, s.open)
      /\ g \notin unreturned => N = L - b
      /\ Accounts(g, s)
  BY DEF Tidy
<1>5. /\ Left(g, s, e) /\ (StackAfter(s, e) = <<>> <=> N = 1)
  BY ReturnPairs
<1>6. /\ t.open = Drop(s.open) /\ t.stack = Drop(s.stack) /\ t.bad = FALSE
      /\ t.pairs = s.pairs \cup {Returning(g)} /\ t.last = {e}
  <2>1. t.bad = (s.bad \/ Differs(s, e)) /\ ~Differs(s, e)
    BY <1>5 DEF Passes, Left
  <2>2. t.bad = FALSE
    BY <1>4, <2>1
  <2>3. t.open = Drop(s.open) /\ t.stack = Drop(s.stack)
    BY <1>5, Zenon DEF Passes, Left
  <2>4. t.pairs = s.pairs \cup {Returning(g)} /\ t.last = {e}
    BY <1>5, Zenon DEF Passes, Left
  <2>5. QED
    BY <2>2, <2>3, <2>4
<1>7. /\ Ascending(t.open, clock[g] + 1) /\ Ips(t.open) = Drop(Ips(s.open)) /\ Len(t.open) = N - 1
      /\ \A i \in 1 .. N - 1 : i \in 1 .. N /\ t.open[i] = s.open[i]
      /\ (t.open = <<>> <=> N = 1)
  <2>1. t.open = Drop(s.open)
    BY <1>6
  <2>2. /\ t.open \in Seq(CallEvent) /\ Ascending(t.open, clock[g] + 1)
        /\ Ips(t.open) = Drop(Ips(s.open)) /\ Len(t.open) = N - 1
        /\ \A i \in 1 .. N - 1 : i \in 1 .. N /\ t.open[i] = s.open[i]
    <3>1. /\ Drop(s.open) \in Seq(CallEvent) /\ Ascending(Drop(s.open), clock[g] + 1)
          /\ Ips(Drop(s.open)) = Drop(Ips(s.open)) /\ Len(Drop(s.open)) = N - 1
          /\ \A i \in 1 .. N - 1 : i \in 1 .. N /\ Drop(s.open)[i] = s.open[i]
      BY <1>1, <1>3, <1>4, OpenPopped
    <3>2. QED
      BY <2>1, <3>1, Zenon
  <2>3. t.open # <<>> <=> Len(t.open) > 0
    BY <2>2, OpenFields
  <2>6. Len(t.open) = N - 1
    BY <2>2
  <2>4. Len(t.open) > 0 <=> N # 1
    <3>1. N \in Nat /\ N > 0
      BY <1>3
    <3>2. ASSUME NEW k \in Nat \ {0} PROVE k - 1 > 0 <=> k # 1
      OBVIOUS
    <3>3. N - 1 > 0 <=> N # 1
      <4>1. N \in Nat \ {0}
        BY <3>1
      <4>2. QED
        BY <3>2, <4>1, Zenon
    <3>4. QED
      BY <2>6, <3>3, Zenon
  <2>5. t.open = <<>> <=> N = 1
    BY <2>3, <2>4, Zenon
  <2>7. QED
    BY <2>2, <2>5, Zenon
<1>8. t.stack = Ips(t.open)
  BY <1>4, <1>6, <1>7, Zenon
<1>9. \A i \in 1 .. Len(t.open) : t.open[i].sample_denominator = admittedAt'[g]
  BY <1>4, <1>7
<1>10. Covers(g, b, t.open)'
  <2>1. SUFFICES ASSUME NEW j \in b + 1 .. L - 1
                 PROVE  \E i \in 1 .. N - 1 : /\ i >= j - b /\ t.open[i].time = frames'[g][j].start
                                              /\ t.open[i].ip = frames'[g][j].fn
    BY <1>2, <1>7 DEF Covers
  <2>2. j \in b + 1 .. L /\ j \in 1 .. L - 1 /\ j \in 1 .. L
    BY <1>1
  <2>3. PICK i \in 1 .. N : /\ i >= j - b /\ s.open[i].time = frames[g][j].start
                            /\ s.open[i].ip = frames[g][j].fn
    BY <1>4, <2>2 DEF Covers
  <2>4. i # N
    <3>1. frames[g][j].start < frames[g][L].start
      BY <1>2, <2>2 DEF Called
    <3>2. frames[g][j].start # frames[g][L].start
      BY <1>1, <1>2, <2>2, <3>1
    <3>3. s.open[i].time # s.open[N].time
      BY <2>3, <3>2 DEF Closing, Top
    <3>4. QED
      BY <3>3
  <2>5. i \in 1 .. N - 1
    BY <1>3, <2>4
  <2>6. QED
    BY <1>2, <1>7, <2>2, <2>3, <2>5
<1>11. N = 1 => L = b + 1
  <2>1. PICK i \in 1 .. N : i >= L - b
    BY <1>1, TopOpen
  <2>2. QED
    BY <1>1, <2>1
<1>12. /\ L = b + 1 => inSample'[g] = {} /\ completed' = completed \cup inSample[g] \cup {Returning(g)}
       /\ L # b + 1 => inSample'[g] = inSample[g] \cup {Returning(g)} /\ completed' = completed
  BY <1>1, ReturnFollows
<1>13. Accounts(g, t)'
  <2>1. g \notin unreturned' => inSample'[g] \subseteq t.pairs
    BY <1>2, <1>4, <1>6, <1>12 DEF Accounts
  <2>2. t.pairs \subseteq completed' \cup inSample'[g]
    BY <1>4, <1>6, <1>12 DEF Accounts
  <2>3. ~EntryLast(t)
    <3>1. e.location = RET /\ ENT # RET
      BY DEF ReturnOf, ENT, RET
    <3>2. QED
      BY <1>6, <3>1 DEF EntryLast
  <2>4. t.open = <<>> => t.pairs \subseteq completed'
    BY <1>4, <1>6, <1>7, <1>11, <1>12 DEF Accounts
  <2>5. QED
    BY <2>1, <2>2, <2>3, <2>4 DEF Accounts
<1>14. \A d \in t.last : d.location # ENT
  <2>1. e.location = RET /\ ENT # RET
    BY DEF ReturnOf, ENT, RET
  <2>2. QED
    BY <1>6, <2>1
<1>15. ~(Aggregate /\ Adaptive) => t.open # <<>>
  BY <1>5, <1>7 DEF Finishes
<1>16. g \notin unreturned' => Len(t.open) = Len(frames'[g]) - b
  <2>1. Len(t.open) = N - 1 /\ Len(frames'[g]) = L - 1
    BY <1>2, <1>7
  <2>2. g \notin unreturned' => N = L - b
    BY <1>2, <1>4
  <2>3. L \in Nat /\ b \in Nat /\ N \in Nat
    BY <1>1, <1>3
  <2>4. QED
    <3> HIDE DEF L, N
    <3>1. QED
      BY <2>1, <2>2, <2>3
<1>17. Tidy(g, b, t)'
  <2>1. t.bad = FALSE /\ t.stack = Ips(t.open) /\ Ascending(t.open, clock'[g])
    BY <1>2, <1>6, <1>7, <1>8
  <2>2. \A d \in t.last : d.location = ENT => t.open # <<>> /\ LIFO(t.open) = d
    BY <1>14
  <2>3. (~(Aggregate /\ Adaptive) => (t.open = <<>> => t.last = {}))'
    BY <1>15 DEF Aggregate, Adaptive
  <2>4. QED
    BY <1>9, <1>10, <1>13, <1>16, <2>1, <2>2, <2>3, Zenon DEF Tidy
<1>18. Grows(g, {})
  BY <1>2, <1>12 DEF Grows
<1>19. QED
  BY <1>17, <1>18

\* The return that empties the observed stack is that of the only open entry.
LEMMA LastClosing ==
    ASSUME DepthInv, NEW g \in Goroutines, NEW b \in 0 .. Len(frames[g]), Len(frames[g]) > b,
           NEW s \in Replicas, Tidy(g, b, s), NEW e, ReturnOf(e, g, Top(g).fn)
    PROVE  /\ Len(s.open) = 1 => Closing(g, s) /\ Len(frames[g]) = b + 1
           /\ StackAfter(s, e) = <<>> => Closing(g, s) /\ Len(s.open) = 1 /\ Len(frames[g]) = b + 1
<1> DEFINE L == Len(frames[g])
           N == Len(s.open)
<1>1. L \in Nat /\ b \in Nat /\ b < L
  BY Shapes
<1>2. s.open \in Seq(CallEvent) /\ N \in Nat /\ (s.open # <<>> <=> N > 0)
  BY ReplicaFields, OpenFields
<1>3. PICK i \in 1 .. N : /\ i >= L - b /\ s.open[i].time = Top(g).start
                          /\ s.open[i].ip = Top(g).fn
  BY TopOpen
<1>4. N > 0
  BY <1>2, <1>3
<1>5. ASSUME N = 1 PROVE Closing(g, s) /\ L = b + 1
  <2>1. i = N /\ L - b <= 1
    BY <1>1, <1>3, <1>5
  <2>2. L = b + 1
    BY <1>1, <2>1
  <2>3. s.open # <<>>
    BY <1>2, <1>4
  <2>4. Closing(g, s)
    BY <1>3, <2>1, <2>3 DEF Closing
  <2>5. QED
    BY <2>2, <2>4
<1>6. ASSUME N # 1 PROVE StackAfter(s, e) # <<>>
  <2>1. e \in SentCall /\ e.location = RET
    BY DEF ReturnOf
  <2>2. /\ Len(StackAfter(s, e)) \in Nat /\ Len(s.stack) \in Nat
        /\ Len(StackAfter(s, e)) >= Len(s.stack) - 1
        /\ Len(StackAfter(s, e)) > 0 => StackAfter(s, e) # <<>>
    BY <2>1, OneOff
  <2>3. Len(s.stack) = N
    <3>1. Len(Ips(s.open)) = Len(s.open)
      BY <1>2, IpsFacts
    <3>2. s.stack = Ips(s.open)
      BY DEF Tidy
    <3>3. QED
      BY <3>1, <3>2, Zenon
  <2>4. Len(StackAfter(s, e)) > 0
    <3>1. ASSUME NEW m \in Nat, NEW n \in Nat \ {0, 1}, m >= n - 1 PROVE m > 0
      BY <3>1
    <3>2. N \in Nat \ {0, 1}
      BY <1>2, <1>4, <1>6
    <3>3. Len(StackAfter(s, e)) \in Nat /\ Len(StackAfter(s, e)) >= N - 1
      BY <2>2, <2>3
    <3>4. QED
      BY <3>1, <3>2, <3>3, Zenon
  <2>5. QED
    BY <2>2, <2>4, Zenon
<1>7. QED
  BY <1>2, <1>5, <1>6

\* The outermost recorded call returns, and what has been paired is reported or given
\* away.
LEMMA OutermostReturn ==
    ASSUME DepthInv, HistoryOK, NEW g \in Goroutines, Called(g), Return(g), Follow(g),
           ~SampleAborts(g), NEW b \in 0 .. Len(frames[g]), Len(frames[g]) = b + 1,
           Recorded(g) = b + 1 .. Len(frames[g]), NEW s, Accounts(g, s),
           NEW y, y = s.pairs \cup {Returning(g)}
    PROVE  Grows(g, y) /\ inSample'[g] = {}
<1>1. Len(frames[g]) > b
  BY Shapes
<1>2. inSample'[g] = {} /\ completed' = completed \cup inSample[g] \cup {Returning(g)}
  BY <1>1, ReturnFollows
<1>3. unreturned' = unreturned
  BY ReturnLeaves
<1>4. s.pairs \subseteq completed \cup inSample[g] /\ (g \notin unreturned => inSample[g] \subseteq s.pairs)
  BY DEF Accounts
<1>5. QED
  BY <1>2, <1>3, <1>4 DEF Grows

\* While a return is missing, a step may report nothing.
LEMMA GrowsNothing ==
    ASSUME HistoryOK, NEW g \in Goroutines, Follow(g), NEW y, y = {},
           g \in unreturned' \/ completed' = completed
    PROVE  Grows(g, y)
<1>1. completed \subseteq completed'
  BY FollowDoes
<1>2. QED
  BY <1>1 DEF Grows

\* The return of the root ends the sample.
LEMMA EndReturns ==
    ASSUME DepthInv, HistoryOK, NEW g \in Goroutines, Called(g), Exact(g), Strays(g),
           Return(g), Follow(g), cfg' = cfg, ~SampleAborts(g), Adaptive, state[g] # NoState,
           Top(g).fn = state[g].root_ip, ~(state[g].root_depth > 1),
           NEW s \in Replicas, Tracks(g, s), g \notin Blurred',
           NEW e, ReturnOf(e, g, Top(g).fn), e.flag = END,
           NEW t, t = Replayed(g, s, e), NEW y, y = Yield(g, s, e)
    PROVE  /\ t = Blank /\ Grows(g, y) /\ (g \notin unreturned' => inSample'[g] = {})
<1> DEFINE L == Len(frames[g])
<1>1. PICK b \in 0 .. L : Recorded(g) = b + 1 .. L /\ Heads(g, b, s) /\ (Tidy(g, b, s) \/ Dirty(g, b, s))
  BY DEF Tracks
<1>2. L \in Nat /\ b \in Nat /\ L \in 1 .. L
  BY Shapes, ReturnLeaves
<1>3. /\ unreturned' = unreturned
      /\ stray' = IF state[g] # NoState /\ L \notin Recorded(g) THEN stray \cup {g} ELSE stray
  BY ReturnLeaves
<1>4. g \in unreturned => Aggregate /\ g \notin stray'
  BY <1>3 DEF Blurred, Aggregate
<1>5. frames[g] # <<>>
  BY <1>2, Shapes
<1>6. g \notin unreturned => L = b + 1
  <2>1. SUFFICES ASSUME g \notin unreturned PROVE L = b + 1
    OBVIOUS
  <2>2. Recorded(g) = {L}
    BY <1>5, <2>1, RootIsLast
  <2>3. L \in b + 1 .. L /\ b + 1 <= L
    BY <1>1, <1>2, <2>2
  <2>4. b + 1 \in b + 1 .. L
    BY <1>2, <2>3
  <2>5. b + 1 \in {L}
    BY <1>1, <2>2, <2>4, Zenon
  <2>6. QED
    BY <2>5
<1>7. L > b
  <2>1. CASE g \notin unreturned
    BY <1>2, <1>6, <2>1
  <2>2. CASE g \in unreturned
    <3>1. L \in b + 1 .. L
      BY <1>1, <1>3, <1>4, <2>2
    <3>2. QED
      BY <1>2, <3>1
  <2>3. QED
    BY <2>1, <2>2
<1>8. s.last # {}
  BY <1>1 DEF Heads
<1>9. e \in SentCall /\ e.goid = g /\ e.location = RET /\ e.flag \in {NoFlag, END}
  BY DEF ReturnOf
<1>10. /\ Finishes(s, e) => Shuts(s, e, t, y)
  BY <1>8, <1>9, ReturnReplayed
<1>11. Aggregate => Finishes(s, e)
  BY DEF Finishes
<1>12. ASSUME Tidy(g, b, s), StackAfter(s, e) = <<>>
       PROVE  t = Blank /\ Grows(g, y) /\ inSample'[g] = {}
  <2>1. Closing(g, s) /\ L = b + 1
    BY <1>7, <1>12, LastClosing
  <2>2. Left(g, s, e)
    BY <1>12, <2>1, ReturnPairs
  <2>3. Finishes(s, e)
    BY <1>12 DEF Finishes
  <2>4. ~Differs(s, e) /\ PairsAfter(s, e) = s.pairs \cup {Returning(g)}
    BY <2>2 DEF Left
  <2>5. s.bad = FALSE /\ Accounts(g, s)
    BY <1>12 DEF Tidy
  <2>6. t = Blank /\ y = PairsAfter(s, e)
    BY <1>10, <1>12, <2>3, <2>4, <2>5 DEF Shuts
  <2>7. y = s.pairs \cup {Returning(g)}
    BY <2>4, <2>6, Zenon
  <2>8. Grows(g, y) /\ inSample'[g] = {}
    BY <1>1, <2>1, <2>5, <2>7, OutermostReturn
  <2>9. QED
    BY <2>6, <2>8
<1>13. CASE g \notin unreturned
  <2>1. Tidy(g, b, s)
    BY <1>1, <1>13 DEF Dirty
  <2>2. Len(s.open) = L - b
    BY <1>13, <2>1 DEF Tidy
  <2>3. Len(s.open) = 1
    BY <1>2, <1>6, <1>13, <2>2
  <2>4. Closing(g, s)
    BY <1>7, <2>1, <2>3, LastClosing
  <2>5. StackAfter(s, e) = <<>>
    BY <2>1, <2>3, <2>4, ReturnPairs
  <2>6. QED
    BY <1>12, <2>1, <2>5
<1>14. CASE g \in unreturned
  <2>1. Shuts(s, e, t, y) /\ Aggregate
    BY <1>4, <1>10, <1>11, <1>14
  <2>2. CASE StackAfter(s, e) # <<>>
    <3>1. t = Blank /\ y = {}
      BY <2>1, <2>2 DEF Shuts
    <3>2. Grows(g, y)
      BY <1>3, <1>14, <3>1, GrowsNothing
    <3>3. QED
      BY <1>3, <1>14, <3>1, <3>2
  <2>3. CASE StackAfter(s, e) = <<>> /\ Tidy(g, b, s)
    BY <1>12, <2>3
  <2>4. ASSUME Dirty(g, b, s) PROVE StackAfter(s, e) # <<>>
    <3>1. Len(s.stack) >= L - b + 1
      BY <2>4 DEF Dirty
    <3>2. /\ Len(StackAfter(s, e)) \in Nat /\ Len(s.stack) \in Nat
          /\ Len(StackAfter(s, e)) >= Len(s.stack) - 1
          /\ Len(StackAfter(s, e)) > 0 => StackAfter(s, e) # <<>>
      BY <1>9, OneOff
    <3>3. Len(StackAfter(s, e)) > 0
      BY <1>2, <1>7, <3>1, <3>2
    <3>4. QED
      BY <3>2, <3>3, Zenon
  <2>5. QED
    BY <1>1, <2>2, <2>3, <2>4
<1>15. QED
  BY <1>13, <1>14

\* Nothing is tidy.
LEMMA BlankTidy ==
    ASSUME NEW g, NEW b \in Nat, Len(frames'[g]) = b, g \notin unreturned' => inSample'[g] = {}
    PROVE  Tidy(g, b, Blank)'
<1> DEFINE B == Blank
<1>1. B.open = <<>> /\ B.pairs = {} /\ B.stack = <<>> /\ B.bad = FALSE /\ B.last = {}
  BY DEF Blank
<1>2. Len(B.open) = 0 /\ Ips(B.open) = B.stack
  BY <1>1 DEF Ips
<1>3. B' = B
  BY DEF Blank
<1> HIDE DEF B
<1>4. Accounts(g, B)'
  BY <1>1, <1>3 DEF Accounts
<1>5. Ascending(B.open, clock[g])'
  BY <1>2, <1>3 DEF Ascending
<1>6. Covers(g, b, B.open)'
  BY DEF Covers
<1>7. Tidy(g, b, B)'
  BY <1>1, <1>2, <1>3, <1>4, <1>5, <1>6 DEF Tidy
<1>8. QED
  BY <1>7 DEF B

\* A return that no entry of the sample belongs to changes nothing.
LEMMA StrayReturns ==
    ASSUME DepthInv, HistoryOK, NEW g \in Goroutines, Called(g), Strays(g), Return(g), Follow(g),
           cfg' = cfg, state[g] # NoState, state'[g] # NoState, since'[g] = since[g],
           state'[g].sample_denominator = state[g].sample_denominator,
           Recorded(g) = Len(frames[g]) + 1 .. Len(frames[g]),
           NEW s \in Replicas, Heads(g, Len(frames[g]), s),
           Tidy(g, Len(frames[g]), s) \/ Dirty(g, Len(frames[g]), s),
           state[g].sample_denominator = admittedAt[g], g \notin Blurred',
           NEW e, ReturnOf(e, g, Top(g).fn), e.flag = NoFlag,
           NEW t, t = Replayed(g, s, e), NEW y, y = Yield(g, s, e)
    PROVE  Tracks(g, t)' /\ Grows(g, y)
<1> DEFINE L == Len(frames[g])
           N == Len(s.open)
<1>1. L \in Nat /\ L \in 1 .. L /\ L \in 0 .. L /\ ~(L > L) /\ L - 1 \in 0 .. L - 1
  BY Shapes, ReturnLeaves
<1>2. CallNext(g) = {} /\ L \notin Recorded(g)
  BY <1>1, ReturnCalls
<1>3. /\ unreturned' = unreturned /\ stray' = stray \cup {g} /\ g \notin fresh'
      /\ Len(frames'[g]) = L - 1
  BY <1>2, ReturnLeaves
<1>4. g \notin unreturned
  BY <1>3 DEF Blurred, Aggregate
<1>5. ~Adaptive
  <2>1. SUFFICES ASSUME Adaptive PROVE FALSE
    OBVIOUS
  <2>2. Sound(g)
    BY <1>4, <2>1 DEF Sound, Strays
  <2>3. QED
    BY <1>2, <2>1, <2>2, SampledTop
<1>6. Tidy(g, L, s)
  BY <1>4 DEF Dirty
<1>7. /\ s.bad = FALSE /\ s.stack = Ips(s.open) /\ N = L - L /\ Accounts(g, s)
      /\ s.open = <<>> => s.last = {}
  BY <1>4, <1>5, <1>6 DEF Tidy
<1>8. N = 0 /\ s.open = <<>> /\ s.last = {}
  <2>1. s.open \in Seq(CallEvent)
    BY ReplicaFields
  <2>2. N = 0
    BY <1>1, <1>7
  <2>3. s.open = <<>>
    BY <2>1, <2>2, EmptySeqFacts
  <2>4. QED
    BY <1>7, <2>2, <2>3
<1>9. e \in SentCall /\ e.goid = g /\ e.location = RET /\ e.flag \in {NoFlag, END}
  BY DEF ReturnOf
<1>10. t = s /\ y = {} /\ s = Blank
  <2>1. Rests(s, t, y)
    BY <1>8, <1>9, ReturnReplayed
  <2>2. s = Blank
    BY <1>8, ReplicaFields
  <2>3. QED
    BY <2>1, <2>2 DEF Rests
<1>11. /\ completed' = completed /\ inSample'[g] = inSample[g] /\ admittedAt'[g] = admittedAt[g]
  <2>1. ~SampleAborts(g)
    BY DEF SampleAborts
  <2>2. QED
    BY <1>2, <2>1, QuietFollow
<1>12. Grows(g, y)
  BY <1>10, <1>11, GrowsNothing
<1>19. PICK c \in 0 .. L - 1 : c = L - 1
  BY <1>1
<1>13. Tidy(g, c, Blank)'
  <2>1. inSample[g] = {}
    <3>1. s.pairs = {}
      BY <1>10 DEF Blank
    <3>2. QED
      BY <1>4, <1>7, <3>1 DEF Accounts
  <2>2. c \in Nat /\ Len(frames'[g]) = c
    BY <1>1, <1>3, <1>19
  <2>3. QED
    BY <1>3, <1>11, <2>1, <2>2, BlankTidy
<1>14. Recorded(g)' = c + 1 .. L - 1
  BY <1>1, <1>19, ReturnRecorded
<1>15. Heads(g, c, Blank)'
  <2>1. Blank.last = {}
    BY DEF Blank
  <2>2. QED
    BY <1>3, <1>5, <2>1 DEF Heads, Adaptive
<1>16. Tracks(g, Blank)'
  BY <1>1, <1>3, <1>11, <1>13, <1>14, <1>15, <1>19 DEF Tracks
<1>17. t = Blank /\ Blank' = Blank
  BY <1>10 DEF Blank
<1>18. QED
  BY <1>12, <1>16, <1>17, Zenon

\* A return of the sample that does not end it.
LEMMA ReturnStays ==
    ASSUME DepthInv, HistoryOK, NEW g \in Goroutines, Called(g), Exact(g), Strays(g),
           Return(g), Follow(g), cfg' = cfg, state[g] # NoState, state'[g] # NoState,
           since'[g] = since[g],
           state'[g].sample_denominator = state[g].sample_denominator,
           ~(Adaptive /\ Top(g).fn \in Wanted /\ Top(g).fn = state[g].root_ip
               /\ ~(state[g].root_depth > 1)),
           NEW b \in 0 .. Len(frames[g]), Len(frames[g]) > b,
           Recorded(g) = b + 1 .. Len(frames[g]),
           NEW s \in Replicas, Heads(g, b, s), Tidy(g, b, s) \/ Dirty(g, b, s),
           state[g].sample_denominator = admittedAt[g], g \notin Blurred',
           NEW e, ReturnOf(e, g, Top(g).fn), e.flag = NoFlag,
           NEW t, t = Replayed(g, s, e), NEW y, y = Yield(g, s, e)
    PROVE  Tracks(g, t)' /\ Grows(g, y)
<1> DEFINE L == Len(frames[g])
           N == Len(s.open)
<1>1. L \in Nat /\ b \in Nat /\ b < L /\ L \in 1 .. L /\ b \in 0 .. L - 1
  BY Shapes, ReturnLeaves
<1>2. L \in Recorded(g)
  BY <1>1
<1>3. /\ unreturned' = unreturned /\ stray' = stray /\ g \notin fresh' /\ Len(frames'[g]) = L - 1
  BY <1>2, ReturnLeaves
<1>4. g \in unreturned => Aggregate /\ g \notin stray'
  BY <1>3 DEF Blurred, Aggregate
<1>5. /\ e \in SentCall /\ e.goid = g /\ e.location = RET /\ e.flag \in {NoFlag, END}
      /\ ENT # RET /\ NoFlag # END
  BY DEF ReturnOf, ENT, RET, NoFlag, END
<1>6. ~SampleAborts(g) /\ admittedAt'[g] = admittedAt[g]
  BY FollowDoes DEF SampleAborts, AdmittedAtNext
<1>7. Recorded(g)' = b + 1 .. L - 1
  BY <1>1, ReturnRecorded
<1>8. s.open \in Seq(CallEvent) /\ N \in Nat
  BY ReplicaFields, OpenFields
<1>9. s.last # {}
  <2>1. SUFFICES ASSUME s.last = {} PROVE FALSE
    OBVIOUS
  <2>2. s = Blank
    BY <2>1, ReplicaFields
  <2>3. Len(s.stack) = 0 /\ Len(s.open) = 0
    BY <2>2 DEF Blank
  <2>4. CASE Tidy(g, b, s)
    <3>1. \E i \in 1 .. Len(s.open) : TRUE
      BY <2>4, TopOpen
    <3>2. QED
      BY <2>3, <3>1
  <2>5. CASE Dirty(g, b, s)
    <3>1. Len(s.stack) >= L - b + 1
      BY <2>5 DEF Dirty
    <3>2. QED
      BY <1>1, <2>3, <3>1
  <2>6. QED
    BY <2>4, <2>5
<1>10. /\ Finishes(s, e) => Shuts(s, e, t, y)
       /\ ~Finishes(s, e) => Passes(s, e, t, y)
  BY <1>5, <1>9, ReturnReplayed
<1>11. ASSUME g \notin unreturned, L = b + 1, Adaptive PROVE FALSE
  <2>1. Recorded(g) = {L}
    BY <1>1, <1>11
  <2>2. QED
    BY <1>11, <2>1, LastIsRoot
<1>12. ASSUME Tidy(g, b, t)' \/ Dirty(g, b, t)', Passes(s, e, t, y), Grows(g, {})
       PROVE  Tracks(g, t)' /\ Grows(g, y)
  <2>1. y = {} /\ t.last = {e}
    BY <1>12 DEF Passes
  <2>2. Heads(g, b, t)'
    BY <1>3, <1>5, <2>1 DEF Heads
  <2>3. Tracks(g, t)'
    BY <1>1, <1>3, <1>6, <1>7, <1>12, <2>2 DEF Tracks
  <2>4. Grows(g, y)
    BY <1>12, <2>1, Zenon
  <2>5. QED
    BY <2>3, <2>4
<1>13. ASSUME g \in unreturned, Len(s.stack) >= L - b + 1
       PROVE  Tracks(g, t)' /\ Grows(g, y)
  <2>1. Aggregate /\ g \notin stray'
    BY <1>4, <1>13
  <2>2. ~Finishes(s, e) /\ (Passes(s, e, t, y) => Dirty(g, b, t)')
    BY <1>13, <2>1, ReturnDirties
  <2>3. Passes(s, e, t, y) /\ Dirty(g, b, t)'
    BY <1>10, <2>2
  <2>4. Grows(g, {})
    BY <1>3, <1>13, GrowsNothing
  <2>5. QED
    BY <1>12, <2>3, <2>4
<1>14. CASE Dirty(g, b, s)
  BY <1>13, <1>14 DEF Dirty
<1>15. CASE Tidy(g, b, s) /\ ~Closing(g, s)
  <2>1. PICK i \in 1 .. N : /\ i >= L - b /\ s.open[i].time = Top(g).start
                            /\ s.open[i].ip = Top(g).fn
    BY <1>15, TopOpen
  <2>2. s.open # <<>>
    <3>1. N > 0
      BY <1>8, <2>1
    <3>2. QED
      BY <1>8, <3>1, OpenFields
  <2>3. i # N
    BY <1>15, <2>1, <2>2 DEF Closing
  <2>4. N >= L - b + 1
    BY <1>1, <1>8, <2>1, <2>3
  <2>5. g \in unreturned
    <3>1. g \notin unreturned => N = L - b
      BY <1>15 DEF Tidy
    <3>2. QED
      BY <1>1, <2>4, <3>1
  <2>6. Len(s.stack) = N
    <3>1. Len(Ips(s.open)) = N
      BY <1>8, IpsFacts
    <3>2. s.stack = Ips(s.open)
      BY <1>15 DEF Tidy
    <3>3. QED
      BY <3>1, <3>2, Zenon
  <2>7. QED
    BY <1>13, <2>4, <2>5, <2>6
<1>16. CASE Tidy(g, b, s) /\ Closing(g, s) /\ Finishes(s, e)
  <2>1. ~(Aggregate /\ Adaptive) /\ StackAfter(s, e) = <<>>
    BY <1>5, <1>16 DEF Finishes
  <2>2. L = b + 1
    BY <1>16, <2>1, LastClosing
  <2>3. ~Adaptive
    BY <1>4, <1>11, <2>1, <2>2
  <2>4. ~Differs(s, e) /\ PairsAfter(s, e) = s.pairs \cup {Returning(g)}
    BY <1>16, ReturnPairs DEF Left
  <2>5. s.bad = FALSE /\ Accounts(g, s)
    BY <1>16 DEF Tidy
  <2>6. t = Blank /\ y = PairsAfter(s, e)
    BY <1>10, <1>16, <2>1, <2>4, <2>5 DEF Shuts
  <2>7. y = s.pairs \cup {Returning(g)}
    BY <2>4, <2>6, Zenon
  <2>8. Grows(g, y) /\ inSample'[g] = {}
    BY <1>6, <2>2, <2>5, <2>7, OutermostReturn
  <2>9. Tidy(g, b, Blank)'
    BY <1>1, <1>3, <2>2, <2>8, BlankTidy
  <2>10. Heads(g, b, Blank)'
    <3>1. Blank.last = {}
      BY DEF Blank
    <3>2. QED
      BY <1>3, <2>3, <3>1 DEF Heads, Adaptive
  <2>11. Tracks(g, Blank)'
    BY <1>1, <1>3, <1>6, <1>7, <2>9, <2>10 DEF Tracks
  <2>12. QED
    BY <2>6, <2>8, <2>11, Zenon DEF Blank
<1>17. CASE Tidy(g, b, s) /\ Closing(g, s) /\ ~Finishes(s, e)
  <2>1. g \notin unreturned => L # b + 1
    <3>1. SUFFICES ASSUME g \notin unreturned, L = b + 1 PROVE FALSE
      OBVIOUS
    <3>2. N = L - b
      BY <1>17, <3>1 DEF Tidy
    <3>3. N = 1
      BY <1>1, <3>1, <3>2
    <3>4. StackAfter(s, e) = <<>>
      BY <1>17, <3>3, ReturnPairs
    <3>5. Adaptive
      BY <1>17, <3>4 DEF Finishes
    <3>6. QED
      BY <1>11, <3>1, <3>5
  <2>2. Passes(s, e, t, y)
    BY <1>10, <1>17
  <2>3. Tidy(g, b, t)' /\ Grows(g, {})
    BY <1>6, <1>17, <2>1, <2>2, ReturnTidies
  <2>4. QED
    BY <1>12, <2>2, <2>3
<1>18. QED
  BY <1>14, <1>15, <1>16, <1>17

\* An event and what it yields.
LEMMA YieldAdvances ==
    ASSUME NEW g, NEW s, NEW e \in Sent, queue' = Append(queue, e), e.goid = g,
           NEW t, t = Replayed(g, s, e), NEW y, y = Yield(g, s, e), Abreast(g, t)', Grows(g, y)
    PROVE  Advances(g, s)
BY Zenon DEF Advances

\* What a return does.
LEMMA ReturnAdvances ==
    ASSUME DepthInv, DepthInv', HistoryOK, NEW g \in Goroutines, WellProbed(g), cfg' = cfg,
           Return(g), Follow(g), stats'["dropped_events"] = 0,
           NEW s \in Replicas, g \notin Blurred', Abreast(g, s)
    PROVE  Advances(g, s)
<1> DEFINE L == Len(frames[g])
           fn == Top(g).fn
<1>1. Called(g) /\ Closed(g) /\ Exact(g) /\ Strays(g)
  BY DEF WellProbed
<1>2. L \in Nat /\ L \in 1 .. L /\ fn \in Functions /\ unreturned' = unreturned
  BY <1>1, Shapes, ReturnLeaves
<1>3. RetSends(g, fn)
  <2>1. KernelTypeOK /\ clock'[g] \in Nat /\ Ret(g, fn)
    BY <1>1, Shapes, ShapesNext, ReturnLeaves
  <2> HIDE DEF fn
  <2>2. QED
    BY <1>2, <2>1, RetSendsOne
<1>4. \A e : ReturnOf(e, g, fn) => e \in Sent /\ e.goid = g
  BY DEF ReturnOf, SentCall
<1>5. \A e : Pushes(e) => queue' = Append(queue, e)
  BY DEF Pushes
<1>6. ASSUME NEW e, ReturnOf(e, g, fn), Pushes(e), NEW t, t = Replayed(g, s, e),
             NEW y, y = Yield(g, s, e), Abreast(g, t)', Grows(g, y)
      PROVE  Advances(g, s)
  <2>1. e \in Sent /\ e.goid = g /\ queue' = Append(queue, e)
    BY <1>4, <1>5, <1>6
  <2>2. QED
    BY <1>6, <2>1, YieldAdvances
<1>7. Blank' = Blank
  BY DEF Blank
<1>8. CASE state[g] = NoState /\ UNCHANGED <<state, queue, since>>
  <2>1. CallNext(g) = {}
    <3>1. since[g] = 0
      BY <1>1, <1>8 DEF Closed
    <3>2. QED
      BY <3>1 DEF CallNext, Recorded
  <2>2. ~SampleAborts(g)
    BY <1>8 DEF SampleAborts
  <2>3. completed' = completed /\ inSample'[g] = inSample[g]
    BY <2>1, <2>2, QuietFollow
  <2>4. Abreast(g, s)'
    BY <1>2, <1>8, <2>3 DEF Abreast
  <2>5. Grows(g, {})
    BY <2>3, GrowsNothing
  <2>6. QED
    BY <1>8, <2>4, <2>5 DEF Advances
<1>9. ASSUME NEW e, ReturnOf(e, g, fn), Pushes(e), state[g] # NoState, state'[g] = NoState,
             Adaptive, state[g].event_count >= MaxSampleEvents, e.flag = ABORT
      PROVE  Advances(g, s)
  <2>1. Leaves(e) /\ e.goid = g
    BY <1>9 DEF Leaves, ReturnOf
  <2>2. PICK t : t = Replayed(g, s, e)
    OBVIOUS
  <2>3. PICK y : y = Yield(g, s, e)
    OBVIOUS
  <2>4. t = Blank /\ y = {}
    BY <2>1, <2>2, <2>3, LeavingReplayed DEF Silent
  <2>5. SampleAborts(g)
    BY <1>9 DEF SampleAborts
  <2>6. completed' = completed /\ inSample'[g] = {}
    BY <2>5, FollowDoes
  <2>7. Abreast(g, t)'
    BY <1>7, <1>9, <2>4, <2>6 DEF Abreast
  <2>8. Grows(g, y)
    BY <2>4, <2>6, GrowsNothing
  <2>9. QED
    BY <1>6, <1>9, <2>2, <2>3, <2>7, <2>8
<1>10. ASSUME NEW e, ReturnOf(e, g, fn), Pushes(e), state[g] # NoState, state'[g] = NoState,
              Adaptive, ~(state[g].event_count >= MaxSampleEvents),
              fn = state[g].root_ip, ~(state[g].root_depth > 1), e.flag = END
       PROVE  Advances(g, s)
  <2>1. ~SampleAborts(g)
    BY <1>1, <1>10, ReturnLeaves DEF SampleAborts
  <2>2. PICK t : t = Replayed(g, s, e)
    OBVIOUS
  <2>3. PICK y : y = Yield(g, s, e)
    OBVIOUS
  <2>4. Tracks(g, s)
    BY <1>10 DEF Abreast
  <2>5. t = Blank /\ Grows(g, y) /\ (g \notin unreturned' => inSample'[g] = {})
    BY <1>1, <1>10, <2>1, <2>2, <2>3, <2>4, EndReturns
  <2>6. Abreast(g, t)'
    BY <1>7, <1>10, <2>5 DEF Abreast
  <2>7. QED
    BY <1>6, <1>10, <2>2, <2>3, <2>5, <2>6
<1>11. ASSUME NEW e, ReturnOf(e, g, fn), Pushes(e), state[g] # NoState, state'[g] # NoState,
              since'[g] = since[g],
              state'[g].sample_denominator = state[g].sample_denominator,
              ~(Adaptive /\ fn \in Wanted /\ fn = state[g].root_ip
                  /\ ~(state[g].root_depth > 1)),
              e.flag = NoFlag
       PROVE  Advances(g, s)
  <2>1. PICK t : t = Replayed(g, s, e)
    OBVIOUS
  <2>2. PICK y : y = Yield(g, s, e)
    OBVIOUS
  <2>3. state[g].sample_denominator = admittedAt[g]
    BY <1>11 DEF Abreast, Tracks
  <2>4. PICK b \in 0 .. L : Recorded(g) = b + 1 .. L /\ Heads(g, b, s) /\ (Tidy(g, b, s) \/ Dirty(g, b, s))
    BY <1>11 DEF Abreast, Tracks
  <2>7. Tracks(g, t)' /\ Grows(g, y)
    <3>1. ASSUME b = L PROVE Tracks(g, t)' /\ Grows(g, y)
      BY <1>1, <1>11, <2>1, <2>2, <2>3, <2>4, <3>1, StrayReturns
    <3>2. ASSUME b # L PROVE Tracks(g, t)' /\ Grows(g, y)
      <4>1. L > b
        BY <1>2, <3>2
      <4>2. QED
        BY <1>1, <1>11, <2>1, <2>2, <2>3, <2>4, <4>1, ReturnStays
    <3>3. QED
      BY <3>1, <3>2
  <2>8. Abreast(g, t)'
    BY <1>11, <2>7 DEF Abreast
  <2>9. QED
    BY <1>6, <1>11, <2>1, <2>2, <2>7, <2>8
<1>12. QED
  BY <1>3, <1>8, <1>9, <1>10, <1>11 DEF RetSends

\* A stack that has room above the recorded frames of a call has more above those of a caller.
LEMMA RoomBelow ==
    ASSUME NEW L \in Nat, NEW depth \in Nat, NEW b \in 0 .. L, NEW n \in Nat,
           depth < L, b < L, n >= L - b + 1,
           NEW c, c = IF b < depth THEN b ELSE depth
    PROVE  n >= depth - c + 2
<1>1. CASE b < depth
  BY <1>1
<1>2. CASE ~(b < depth)
  BY <1>2
<1>3. QED
  BY <1>1, <1>2

\* A recovered panic sends nothing.
LEMMA UnwindAdvances ==
    ASSUME DepthInv, HistoryOK, NEW g \in Goroutines, WellProbed(g), cfg' = cfg,
           NEW depth \in 1 .. MaxDepth, Unwind(g, depth), Follow(g),
           NEW s \in Replicas, g \notin Blurred', Abreast(g, s)
    PROVE  Advances(g, s)
<1> DEFINE L == Len(frames[g])
<1>1. /\ Called(g) /\ L \in Nat /\ frames \in [Goroutines -> Seq(Frame)]
      /\ \A i \in 1 .. L : frames[g][i].start \in Nat
      /\ unreturned \subseteq Goroutines
  BY Shapes DEF WellProbed, TargetTypeOK
<1>2. /\ PopTo(g, depth) /\ fresh' = fresh \ {g} /\ Missed(g, depth) /\ stray' = stray
      /\ state' = state /\ since' = since /\ queue' = queue /\ clock' = clock
      /\ depth \in 0 .. L /\ depth \in Nat /\ depth < L /\ depth > 0 /\ state[g] # NoState
  BY <1>1, ProbesAssumption DEF Unwind, kernelVars, Tracked
<1>3. /\ Len(frames'[g]) = depth /\ \A i \in 1 .. depth : frames'[g][i] = frames[g][i]
  BY <1>1, <1>2, Popped
<1>4. unreturned \subseteq unreturned' /\ g \notin fresh'
  BY <1>2 DEF Missed
<1>5. CallNext(g) = {} /\ ~SampleAborts(g)
  BY <1>2 DEF CallNext, SampleAborts
<1>6. completed' = completed /\ inSample'[g] = inSample[g] /\ admittedAt'[g] = admittedAt[g]
  BY <1>2, <1>5, QuietFollow
<1>7. PICK b \in 0 .. L : Recorded(g) = b + 1 .. L /\ Heads(g, b, s) /\ (Tidy(g, b, s) \/ Dirty(g, b, s))
  BY <1>2 DEF Abreast, Tracks
<1>8. L > b => g \in unreturned'
  <2>1. SUFFICES ASSUME L > b PROVE g \in unreturned'
    OBVIOUS
  <2>2. L \in Recorded(g) /\ L > depth
    BY <1>1, <1>2, <1>7, <2>1
  <2>3. QED
    BY <1>2, <2>2 DEF Missed
<1>9. ~(L > b) => unreturned' = unreturned
  <2>1. SUFFICES ASSUME ~(L > b) PROVE unreturned' = unreturned
    OBVIOUS
  <2>2. Recorded(g) = {}
    BY <1>1, <1>7, <2>1
  <2>3. QED
    BY <1>2, <2>2 DEF Missed
<1>10. PICK c \in 0 .. depth : c = IF b < depth THEN b ELSE depth
  BY <1>2
<1>11. Recorded(g)' = c + 1 .. depth
  <2>1. Recorded(g)' = {i \in 1 .. depth : since[g] # 0 /\ frames[g][i].start >= since[g]}
    BY <1>2, <1>3 DEF Recorded
  <2>2. \A i \in 1 .. depth : i \in 1 .. L
    BY <1>1, <1>2
  <2>3. \A i \in 1 .. depth : i \in Recorded(g)' <=> i \in b + 1 .. L
    BY <1>7, <2>1, <2>2 DEF Recorded
  <2>4. \A i \in 1 .. depth : i \in b + 1 .. L <=> i \in c + 1 .. depth
    BY <1>1, <1>2, <1>10
  <2>5. \A i \in c + 1 .. depth : i \in 1 .. depth
    BY <1>2
  <2>6. Recorded(g)' \subseteq 1 .. depth
    BY <2>1
  <2>7. QED
    BY <2>3, <2>4, <2>5, <2>6
<1>12. depth > c => c = b /\ L > b
  BY <1>2, <1>10
<1>13. Heads(g, c, s)'
  <2>1. ASSUME depth > c, NEW d \in s.last, d.location = ENT
        PROVE  Top(g)'.start <= d.time /\ d.time # Top(g)'.start
    <3>1. Top(g).start <= d.time
      BY <1>7, <1>12, <2>1 DEF Heads
    <3>2. L \in 1 .. L /\ depth \in 1 .. L - 1 /\ depth \in 1 .. L /\ depth \in 1 .. depth
      BY <1>1, <1>2
    <3>3. frames[g][depth].start < frames[g][L].start
      BY <1>1, <3>2 DEF Called
    <3>4. Top(g)'.start = frames[g][depth].start /\ Top(g).start = frames[g][L].start
      BY <1>3, <3>2 DEF Top
    <3>5. d.time \in Nat
      <4>1. d \in SentCall
        BY <2>1, ReplicaFields
      <4>2. QED
        BY <4>1 DEF SentCall, Sent, Event, EventRecord
    <3>6. QED
      BY <1>1, <3>1, <3>2, <3>3, <3>4, <3>5
  <2>2. QED
    BY <1>3, <1>4, <1>7, <2>1 DEF Heads, Adaptive
<1>14. ASSUME Tidy(g, b, s) PROVE Tidy(g, c, s)'
  <2>1. Accounts(g, s)'
    BY <1>4, <1>6, <1>14 DEF Tidy, Accounts
  <2>2. Covers(g, c, s.open)'
    <3>1. SUFFICES ASSUME NEW j \in c + 1 .. depth
                   PROVE  \E i \in 1 .. Len(s.open) :
                             /\ i >= j - c /\ s.open[i].time = frames'[g][j].start
                             /\ s.open[i].ip = frames'[g][j].fn
      BY <1>3 DEF Covers
    <3>2. c = b /\ j \in b + 1 .. L /\ j \in 1 .. depth
      BY <1>1, <1>2, <1>10
    <3>3. QED
      BY <1>3, <1>14, <3>2 DEF Tidy, Covers
  <2>3. g \notin unreturned' => Len(s.open) = depth - c
    <3>1. SUFFICES ASSUME g \notin unreturned' PROVE Len(s.open) = depth - c
      OBVIOUS
    <3>2. L = b /\ Len(s.open) = L - b
      BY <1>1, <1>4, <1>8, <1>14, <3>1 DEF Tidy
    <3>3. c = depth
      BY <1>2, <1>10, <3>2
    <3>4. QED
      BY <1>1, <1>2, <3>2, <3>3
  <2>4. QED
    BY <1>2, <1>3, <1>6, <1>14, <2>1, <2>2, <2>3 DEF Tidy, Aggregate, Adaptive
<1>15. ASSUME Dirty(g, b, s) PROVE Dirty(g, c, s)'
  <2>1. /\ Aggregate /\ g \in unreturned /\ g \notin stray /\ Len(s.stack) >= L - b + 1
        /\ \A d \in s.last : d.location = ENT /\ L = b => Len(s.stack) >= L - b + 2
    BY <1>15 DEF Dirty
  <2>2. Len(s.stack) \in Nat
    BY ReplicaFields
  <2>3. Len(s.stack) >= depth - c + 1
    BY <1>1, <1>2, <1>10, <2>1, <2>2
  <2>4. ASSUME NEW d \in s.last, d.location = ENT PROVE Len(s.stack) >= depth - c + 2
    <3>1. CASE L = b
      BY <1>1, <1>2, <1>10, <2>1, <2>2, <2>4, <3>1
    <3>2. CASE L # b
      <4>1. L \in Nat /\ depth \in Nat /\ depth < L /\ b \in 0 .. L
        BY <1>1, <1>2
      <4>2. b < L
        BY <3>2, <4>1
      <4>3. L \in Nat /\ depth \in Nat /\ depth < L /\ Len(s.stack) >= L - b + 1
        BY <2>1, <4>1
      <4>4. QED
        <5> HIDE DEF L
        <5>1. QED
          BY <1>10, <2>2, <4>2, <4>3, RoomBelow
    <3>3. QED
      BY <3>1, <3>2
  <2>5. QED
    BY <1>2, <1>3, <1>4, <2>1, <2>3, <2>4 DEF Dirty, Aggregate
<1>16. Abreast(g, s)'
  <2>1. state'[g].sample_denominator = admittedAt'[g] /\ state'[g] # NoState
    BY <1>2, <1>6 DEF Abreast, Tracks
  <2>2. Tracks(g, s)'
    BY <1>3, <1>7, <1>11, <1>13, <1>14, <1>15, <2>1 DEF Tracks
  <2>3. QED
    BY <2>1, <2>2 DEF Abreast
<1>17. Grows(g, {})
  BY <1>6, GrowsNothing
<1>18. QED
  BY <1>2, <1>16, <1>17 DEF Advances

\* The end of a goroutine ends its sample.
LEMMA ExitAdvances ==
    ASSUME DepthInv, HistoryOK, NEW g \in Goroutines, cfg' = cfg,
           Exit(g), GoroutineExit(g), Follow(g), stats'["dropped_events"] = 0,
           NEW s \in Replicas, Abreast(g, s)
    PROVE  Advances(g, s)
<1>1. KernelTypeOK /\ clock' = clock /\ unreturned \subseteq unreturned' /\ g \notin alive'
  BY Shapes DEF Exit, Missed
<1>2. CallNext(g) = {}
  BY <1>1 DEF CallNext
<1>3. completed' = completed /\ inSample'[g] = IF SampleAborts(g) THEN {} ELSE inSample[g]
  BY <1>2, QuietFollow
<1>4. ExitSends(g)
  BY <1>1, ExitSendsOne
<1>5. CASE state[g] = NoState /\ UNCHANGED <<state, queue, since>>
  <2>1. Abreast(g, s)'
    <3>1. s = Blank /\ (g \notin unreturned => inSample[g] = {})
      BY <1>5 DEF Abreast
    <3>2. g \notin unreturned' => inSample'[g] = {}
      BY <1>1, <1>3, <3>1
    <3>3. s = Blank'
      BY <3>1 DEF Blank
    <3>4. QED
      BY <1>5, <3>2, <3>3 DEF Abreast
  <2>2. QED
    BY <1>3, <1>5, <2>1, GrowsNothing DEF Advances
<1>6. ASSUME NEW e \in Sent, Pushes(e), e.goid = g, e.location = EXIT,
             state[g] # NoState, state'[g] = NoState
      PROVE  Advances(g, s)
  <2>1. PICK t : t = Replayed(g, s, e)
    OBVIOUS
  <2>2. t = Blank /\ Silent(g, s, e)
    BY <1>6, <2>1, LeavingReplayed DEF Leaves
  <2>3. SampleAborts(g)
    BY <1>1, <1>6 DEF SampleAborts
  <2>4. t = Blank'
    BY <2>2 DEF Blank
  <2>5. Abreast(g, t)'
    BY <1>3, <1>6, <2>3, <2>4 DEF Abreast
  <2>6. Grows(g, {})
    BY <1>3, GrowsNothing
  <2>7. queue' = Append(queue, e)
    BY <1>6 DEF Pushes
  <2>8. QED
    BY <1>6, <2>1, <2>2, <2>5, <2>6, <2>7, SilentAdvances
<1>7. QED
  BY <1>4, <1>5, <1>6 DEF ExitSends

\* The end of a process leaves the replicas of its goroutines as they are.
LEMMA ReplaceAbreast ==
    ASSUME DepthInv, HistoryOK, NEW p \in Pids, Replace(p), cfg' = cfg,
           inSample' = [g \in Goroutines |-> IF PidOf[g] = p THEN {} ELSE inSample[g]],
           UNCHANGED <<admittedAt, completed>>,
           NEW g \in Goroutines, PidOf[g] = p, g \notin Blurred',
           NEW s \in Replicas, Abreast(g, s)
    PROVE  Abreast(g, s)'
<1>1. /\ frames'[g] = <<>> /\ clock' = clock /\ state' = state /\ since' = since
      /\ g \notin fresh' /\ (state[g] # NoState => g \in unreturned') /\ inSample'[g] = {}
      /\ stray' = stray /\ moves' = moves
  BY DEF Replace, Tracked, kernelVars
<1>2. Len(frames'[g]) = 0
  BY <1>1
<1>3. CASE state[g] = NoState
  <2>1. s = Blank /\ Blank' = Blank
    BY <1>3 DEF Abreast, Blank
  <2>2. QED
    BY <1>1, <1>3, <2>1 DEF Abreast
<1>4. CASE state[g] # NoState
  <2>1. PICK b \in 0 .. Len(frames[g]) :
            Recorded(g) = b + 1 .. Len(frames[g]) /\ Heads(g, b, s) /\ (Tidy(g, b, s) \/ Dirty(g, b, s))
    BY <1>4 DEF Abreast, Tracks
  <2>2. g \in unreturned' /\ Aggregate /\ g \notin stray'
    BY <1>1, <1>4 DEF Blurred, Aggregate
  <2>3. Heads(g, 0, s)'
    BY <1>1, <1>2, <2>1 DEF Heads, Adaptive
  <2>4. Recorded(g)' = 0 + 1 .. 0
    BY <1>2 DEF Recorded
  <2>5. s.open \in Seq(CallEvent) /\ (s.open # <<>> <=> Len(s.open) > 0)
        /\ Len(s.stack) \in Nat /\ Len(s.open) \in Nat
    BY ReplicaFields, OpenFields
  <2>6. ASSUME Len(s.stack) >= 1, \A d \in s.last : d.location = ENT => Len(s.stack) >= 2,
               g \in unreturned'
        PROVE  Dirty(g, 0, s)'
    BY <1>2, <2>2, <2>5, <2>6 DEF Dirty, Aggregate
  <2>7. ASSUME Dirty(g, b, s) PROVE Dirty(g, 0, s)'
    <3>1. /\ Len(s.stack) >= Len(frames[g]) - b + 1
          /\ \A d \in s.last : d.location = ENT /\ Len(frames[g]) = b =>
                Len(s.stack) >= Len(frames[g]) - b + 2
      BY <2>7 DEF Dirty
    <3>2. Len(frames[g]) \in Nat
      BY Shapes
    <3>3. Len(s.stack) >= 1
      BY <2>5, <3>1, <3>2
    <3>4. ASSUME NEW d \in s.last, d.location = ENT PROVE Len(s.stack) >= 2
      <4>1. CASE Len(frames[g]) = b
        BY <2>5, <3>1, <3>2, <3>4, <4>1
      <4>2. CASE Len(frames[g]) # b
        BY <2>5, <3>1, <3>2, <4>2
      <4>3. QED
        BY <4>1, <4>2
    <3>5. QED
      BY <2>2, <2>6, <3>3, <3>4
  <2>8. ASSUME Tidy(g, b, s), s.open = <<>> \/ (Len(s.open) = 1 /\ EntryLast(s))
        PROVE  Tidy(g, 0, s)'
    <3>1. Accounts(g, s) /\ s.pairs \subseteq completed
      BY <2>8 DEF Tidy, Accounts
    <3>2. Accounts(g, s)'
      BY <1>1, <2>2, <3>1 DEF Accounts
    <3>3. Covers(g, 0, s.open)'
      BY <1>2 DEF Covers
    <3>4. QED
      BY <1>1, <2>2, <2>8, <3>2, <3>3 DEF Tidy, Aggregate, Adaptive
  <2>9. ASSUME Tidy(g, b, s), ~(s.open = <<>> \/ (Len(s.open) = 1 /\ EntryLast(s)))
        PROVE  Dirty(g, 0, s)'
    <3>1. Len(s.stack) = Len(s.open)
      <4>1. Len(Ips(s.open)) = Len(s.open)
        BY <2>5, IpsFacts
      <4>2. s.stack = Ips(s.open)
        BY <2>9 DEF Tidy
      <4>3. QED
        BY <4>1, <4>2, Zenon
    <3>2. Len(s.open) > 0
      BY <2>5, <2>9
    <3>3. ASSUME NEW d \in s.last, d.location = ENT PROVE Len(s.stack) >= 2
      <4>1. EntryLast(s)
        BY <3>3 DEF EntryLast
      <4>2. Len(s.open) # 1
        BY <2>9, <4>1
      <4>3. ASSUME NEW k \in Nat, k > 0, k # 1 PROVE k >= 2
        BY <4>3
      <4>4. Len(s.open) >= 2
        BY <2>5, <3>2, <4>2, <4>3, Zenon
      <4>5. QED
        BY <3>1, <4>4
    <3>4. Len(s.stack) >= 1
      BY <2>5, <3>1, <3>2
    <3>5. QED
      BY <2>2, <2>6, <3>3, <3>4
  <2>10. Tidy(g, 0, s)' \/ Dirty(g, 0, s)'
    BY <2>1, <2>7, <2>8, <2>9
  <2>11. state'[g].sample_denominator = admittedAt'[g] /\ state'[g] # NoState
    BY <1>1, <1>4 DEF Abreast, Tracks
  <2>12. Tracks(g, s)'
    BY <1>2, <2>3, <2>4, <2>10, <2>11 DEF Tracks
  <2>13. QED
    BY <2>11, <2>12 DEF Abreast
<1>5. QED
  BY <1>3, <1>4

\* What a step of a goroutine puts into the queue.
LEMMA TargetSends ==
    ASSUME EveryCallProbed, DepthInv, DepthInv', Running, NEW g \in Goroutines, Called(g),
           TargetStep(g), stats'["dropped_events"] = 0
    PROVE  queue' = queue \/ \E e \in Sent : e.goid = g /\ queue' = Append(queue, e)
<1>1. KernelTypeOK /\ clock'[g] \in Nat /\ Len(frames[g]) \in Nat /\ moves[g] \in Nat
  BY Shapes, ShapesNext
<1>2. \A e : Pushes(e) => queue' = Append(queue, e)
  BY DEF Pushes
<1>3. ASSUME NEW fn \in Functions, NEW bp \in Addresses, NEW caller_bp \in Addresses,
             Ent(g, fn, bp, caller_bp)
      PROVE  queue' = queue \/ \E e \in Sent : e.goid = g /\ queue' = Append(queue, e)
  <2>1. EntSends(g, fn, bp, caller_bp)
    BY <1>1, <1>3, EntSendsOne
  <2>2. \A e : EntryOf(e, g, fn, bp, caller_bp) => e \in Sent /\ e.goid = g
    BY DEF EntryOf, SentCall
  <2>3. QED
    BY <1>2, <2>1, <2>2 DEF EntSends
<1>4. ASSUME NEW fn \in Functions, Ret(g, fn)
      PROVE  queue' = queue \/ \E e \in Sent : e.goid = g /\ queue' = Append(queue, e)
  <2>1. RetSends(g, fn)
    BY <1>1, <1>4, RetSendsOne
  <2>2. \A e : ReturnOf(e, g, fn) => e \in Sent /\ e.goid = g
    BY DEF ReturnOf, SentCall
  <2>3. QED
    BY <1>2, <2>1, <2>2 DEF RetSends
<1>5. ASSUME NEW fn \in Functions, Call(g, fn)
      PROVE  queue' = queue \/ \E e \in Sent : e.goid = g /\ queue' = Append(queue, e)
  <2> DEFINE n == Len(frames[g]) + 1
  <2>1. Ent(g, fn, <<moves[g], n>>, <<moves[g], n - 1>>)
    BY <1>5, CallEnters DEF Enters
  <2>2. <<moves[g], n>> \in Addresses /\ <<moves[g], n - 1>> \in Addresses
    BY <1>1 DEF Addresses
  <2>3. QED
    BY <1>3, <2>1, <2>2
<1>6. ASSUME NEW moved \in {0, 1}, Restart(g, moved)
      PROVE  queue' = queue \/ \E e \in Sent : e.goid = g /\ queue' = Append(queue, e)
  <2> DEFINE n == Len(frames[g])
             at == moves[g] + moved
  <2>1. Ent(g, Top(g).fn, <<at, n>>, <<at, n - 1>>) /\ frames[g] # <<>>
    BY <1>6, RestartEnters DEF Enters
  <2>2. Top(g).fn \in Functions /\ n > 0
    BY <2>1, TopProbed, Shapes
  <2>3. <<at, n>> \in Addresses /\ <<at, n - 1>> \in Addresses
    BY <1>1, <2>2 DEF Addresses
  <2>4. QED
    BY <1>3, <2>1, <2>2, <2>3
<1>7. ASSUME Return(g)
      PROVE  queue' = queue \/ \E e \in Sent : e.goid = g /\ queue' = Append(queue, e)
  BY <1>4, <1>7, ReturnLeaves
<1>8. ASSUME NEW depth, Unwind(g, depth) PROVE queue' = queue
  BY <1>8 DEF Unwind, kernelVars
<1>9. ASSUME GoroutineExit(g)
      PROVE  queue' = queue \/ \E e \in Sent : e.goid = g /\ queue' = Append(queue, e)
  <2>1. ExitSends(g)
    BY <1>1, <1>9, ExitSendsOne
  <2>2. QED
    BY <1>2, <2>1 DEF ExitSends
<1>10. QED
  BY <1>5, <1>6, <1>7, <1>8, <1>9, TargetCases

\* Missed and stray returns stay.
LEMMA BlurredStays ==
    ASSUME TargetTypeOK, NEW g \in Goroutines, TargetStep(g), cfg' = cfg
    PROVE  unreturned \subseteq unreturned' /\ stray \subseteq stray' /\ Blurred \subseteq Blurred'
<1>1. unreturned \subseteq unreturned' /\ stray \subseteq stray'
  BY DEF TargetStep, Call, CallUnprobed, Restart, Unwind, Return, ReturnUnprobed, Exit, Missed
<1>2. QED
  BY <1>1 DEF Blurred, Aggregate

\* Every step of a goroutine.
LEMMA TargetAdvances ==
    ASSUME EveryCallProbed, DepthInv, HistoryOK, Running, NEW g \in Goroutines, WellProbed(g),
           TargetStep(g), Follow(g), UNCHANGED <<cfg, phase, attached>>,
           stats'["dropped_events"] = 0, NEW s \in Replicas, g \notin Blurred', Abreast(g, s)
    PROVE  Advances(g, s)
<1>1. DepthInv' /\ Called(g) /\ cfg' = cfg
  BY TargetOnly DEF WellProbed
<1>2. ASSUME NEW fn \in Functions, Call(g, fn) PROVE Advances(g, s)
  <2> DEFINE n == Len(frames[g]) + 1
  <2>1. Enters(g, fn, moves[g], n)
    BY <1>2, CallEnters
  <2>2. moves[g] \in Nat /\ n \in Nat \ {0}
    BY Shapes
  <2>3. g \notin Blurred
    BY <1>1, <2>1 DEF Enters, Blurred, Aggregate
  <2> HIDE DEF n
  <2>4. n = Len(frames[g]) + 1
    BY DEF n
  <2>5. QED
    BY <1>1, <2>1, <2>2, <2>3, <2>4, EntryAdvances
<1>3. ASSUME NEW moved \in {0, 1}, Restart(g, moved) PROVE Advances(g, s)
  <2> DEFINE n == Len(frames[g])
             fn == Top(g).fn
             at == moves[g] + moved
  <2>1. Enters(g, fn, at, n) /\ frames[g] # <<>> /\ g \in fresh
    BY <1>3, RestartEnters
  <2>2. at \in Nat /\ n \in Nat \ {0} /\ fn \in Functions
    BY <1>1, <2>1, Shapes, TopProbed
  <2>3. g \notin Blurred
    BY <1>1, <2>1 DEF Enters, Blurred, Aggregate
  <2>4. n = Len(frames[g]) /\ fn = Top(g).fn
    OBVIOUS
  <2> HIDE DEF n, fn, at
  <2>5. QED
    BY <1>1, <2>1, <2>2, <2>3, <2>4, EntryAdvances
<1>4. QED
  BY <1>1, <1>2, <1>3, TargetCases, ReturnAdvances, UnwindAdvances, ExitAdvances

-----------------------------------------------------------------------------
(* What is reported is what was called *)

\* a is what the manager holds of g; an eviction may have emptied it.
HeldBy(g, a) ==
    /\ Mirrors(g, a) \/ (Adaptive /\ Mirrors(g, Blank))
    /\ Undisturbed => Mirrors(g, a)

\* What the queue will still yield has completed, and after it the replica is where g is.
Justified(g, y, z) == g \notin Blurred => y \subseteq completed /\ Abreast(g, z)

\* What has completed is reported, or the queue will still yield it.
Due(g, y) ==
    Undisturbed /\ g \notin unreturned /\ (Aggregate \/ Drilldown = Zero) =>
        \A c \in completed : c.goid = g => c \in Output \cup y

Replays(g, q) ==
    \E a, z, y : Path(g, q, a, z, y) /\ HeldBy(g, a) /\ Justified(g, y, z) /\ Due(g, y)

Live ==
    /\ HistoryOK
    /\ \A g \in Goroutines : WellProbed(g)
    /\ \A g \in Goroutines : \E q : q = queue /\ Replays(g, q)
    /\ \A c \in Output : c.goid \notin Blurred => c \in completed
    /\ Undisturbed => suppressed = {}
    /\ \A c \in completed : c.goid \in Goroutines

\* After the summary.
Settled ==
    /\ \A c \in Output : c.goid \notin Blurred =>
          c \in completed \/ (~Aggregate /\ \E g \in Goroutines : c \in inSample[g])
    /\ Undisturbed /\ (Aggregate \/ Drilldown = Zero) =>
          \A c \in completed : c.goid \notin unreturned => c \in Output

HistoryInv ==
    EveryCallProbed /\ stats["dropped_events"] = 0 =>
        /\ phase = "done" => Settled
        /\ phase # "done" => Live

\* It says that reported calls are real, and that completed ones are reported.
LEMMA HistoryIsReal == HistoryInv => ReportedAreRealCalls
<1> SUFFICES ASSUME HistoryInv, EveryCallProbed, stats["dropped_events"] = 0
             PROVE  {c \in Reported : c.goid \notin IF Aggregate THEN unreturned \cap stray ELSE unreturned \cup stray}
                      \subseteq completed \cup (IF phase = "done" /\ ~Aggregate
                                  THEN UNION {inSample[g] : g \in Goroutines} ELSE {})
  BY DEF ReportedAreRealCalls
<1>1. Reported = Output
  BY DEF Reported, Output
<1>2. \A c : c.goid \notin (IF Aggregate THEN unreturned \cap stray ELSE unreturned \cup stray) => c.goid \notin Blurred
  BY DEF Blurred
<1>3. CASE phase = "done"
  BY <1>1, <1>2, <1>3 DEF HistoryInv, Settled
<1>4. CASE phase # "done"
  BY <1>1, <1>2, <1>4 DEF HistoryInv, Live
<1>5. QED
  BY <1>3, <1>4

\* With --drilldown the calls of other functions are left out on purpose.
LEMMA HistoryIsComplete ==
    HistoryInv => ((Aggregate \/ Drilldown = Zero) => CompletedAreReported)
<1> SUFFICES ASSUME HistoryInv, Aggregate \/ Drilldown = Zero, EveryCallProbed, Undisturbed, queue = <<>>,
                    NEW c \in completed, c.goid \notin unreturned
             PROVE  c \in Output
  BY DEF CompletedAreReported, Reported, Output
<1>1. stats["dropped_events"] = 0
  BY DEF Undisturbed
<1>2. CASE phase = "done"
  BY <1>1, <1>2 DEF HistoryInv, Settled
<1>3. CASE phase # "done"
  <2>1. Live
    BY <1>1, <1>3 DEF HistoryInv
  <2>2. PICK g \in Goroutines : g = c.goid
    BY <2>1 DEF Live
  <2>3. PICK q : q = queue /\ Replays(g, q)
    BY <2>1 DEF Live
  <2>4. PICK a, z, y : Path(g, q, a, z, y) /\ Due(g, y)
    BY <2>3 DEF Replays
  <2>5. y = {}
    BY <2>3, <2>4, PathEnds
  <2>6. QED
    BY <2>2, <2>4, <2>5 DEF Due
<1>4. QED
  BY <1>2, <1>3

\* The manager does nothing.
LEMMA HeldStays ==
    ASSUME UNCHANGED <<cfg, managerVars>>, stats["dropped_events"] = 0, NEW g, NEW a, HeldBy(g, a)
    PROVE  HeldBy(g, a)' /\ Output' = Output /\ (Undisturbed' => Undisturbed)
<1>1. /\ goEvents' = goEvents /\ goEventStack' = goEventStack /\ invalid' = invalid
      /\ discarded' = discarded /\ evictedPIDs' = evictedPIDs /\ printed' = printed /\ agg' = agg
  BY DEF managerVars, stackVars
<1>2. Undisturbed' => Undisturbed
  BY <1>1 DEF Undisturbed
<1>3. \A s : Mirrors(g, s) => Mirrors(g, s)'
  BY <1>1, MirrorsKept
<1>4. Mirrors(g, a) => Mirrors(g, a)'
  BY <1>3
<1>5. PICK s : s = Blank
  OBVIOUS
<1>6. Mirrors(g, Blank) => Mirrors(g, Blank)'
  <2>1. Mirrors(g, s) => Mirrors(g, s)'
    BY <1>3
  <2>2. Blank' = Blank
    BY DEF Blank
  <2>3. QED
    BY <1>5, <2>1, <2>2
<1>7. Adaptive' = Adaptive
  BY DEF Adaptive
<1>8. HeldBy(g, a)'
  BY <1>2, <1>4, <1>6, <1>7 DEF HeldBy
<1>9. Output' = Output
  BY <1>1 DEF Output
<1>10. QED
  BY <1>2, <1>8, <1>9

\* The goroutine that moves.
LEMMA RunReplays ==
    ASSUME EveryCallProbed, DepthInv, Live, NEW g \in Goroutines, RunGoroutine(g), cfg' = cfg,
           stats["dropped_events"] = 0, stats'["dropped_events"] = 0,
           NEW q, q = queue, Replays(g, q)
    PROVE  \E r : r = queue' /\ Replays(g, r)'
<1>1. /\ Running /\ TargetStep(g) /\ Follow(g) /\ UNCHANGED <<cfg, managerVars>>
      /\ UNCHANGED <<cfg, phase, attached>>
  BY DEF RunGoroutine, linkVars
<1>2. HistoryOK /\ WellProbed(g) /\ Called(g) /\ DepthInv' /\ TargetTypeOK
  BY <1>1, TargetOnly, Shapes DEF Live, WellProbed
<1>3. PICK a, z, y : Path(g, q, a, z, y) /\ HeldBy(g, a) /\ Justified(g, y, z) /\ Due(g, y)
  BY DEF Replays
<1>4. a \in Replicas /\ z \in Replicas
  BY <1>3, PathEnds
<1>5. HeldBy(g, a)' /\ Output' = Output /\ (Undisturbed' => Undisturbed)
  BY <1>1, <1>3, HeldStays
<1>6. unreturned \subseteq unreturned' /\ Blurred \subseteq Blurred' /\ Blurred' \subseteq unreturned'
  BY <1>1, <1>2, BlurredStays DEF Blurred
<1>7. /\ Path(g, q, a, z, y)'
      /\ \A e \in Sent : \A t, x : t = Replayed(g, z, e) /\ x = Yield(g, z, e) =>
             Path(g, Append(q, e), a, t, y \cup x)'
  <2>1. ASSUME NEW e \in Sent, NEW t, NEW x, t = Replayed(g, z, e), x = Yield(g, z, e)
        PROVE  Path(g, Append(q, e), a, t, y \cup x)'
    <3>1. PICK r, w : r = Append(q, e) /\ w = y \cup x
      OBVIOUS
    <3>2. Path(g, r, a, t, w)
      BY <1>3, <2>1, <3>1, PathPushed
    <3>3. Path(g, r, a, t, w)'
      BY <1>1, <3>2, PathSame
    <3>4. QED
      BY <3>1, <3>3
  <2>2. QED
    BY <1>1, <1>3, <2>1, PathSame
<1>8. Aggregate' = Aggregate
  BY <1>1 DEF Aggregate
<1>9. CASE g \in Blurred'
  <2>1. \A w, t : Justified(g, w, t)' /\ Due(g, w)'
    BY <1>6, <1>9 DEF Justified, Due
  <2>2. CASE queue' = queue
    BY <1>5, <1>7, <2>1, <2>2 DEF Replays
  <2>3. ASSUME NEW e \in Sent, queue' = Append(queue, e)
        PROVE  \E r : r = queue' /\ Replays(g, r)'
    <3>1. PICK t, x, r, w : t = Replayed(g, z, e) /\ x = Yield(g, z, e) /\ r = Append(q, e) /\ w = y \cup x
      OBVIOUS
    <3>2. Path(g, r, a, t, w)'
      BY <1>7, <3>1
    <3>3. Replays(g, r)'
      BY <1>5, <2>1, <3>2 DEF Replays
    <3>4. QED
      BY <2>3, <3>1, <3>3
  <2>4. QED
    BY <1>1, <1>2, <2>2, <2>3, TargetSends
<1>10. CASE g \notin Blurred'
  <2>1. y \subseteq completed /\ Abreast(g, z)
    BY <1>3, <1>6, <1>10 DEF Justified
  <2>2. Advances(g, z)
    BY <1>1, <1>2, <1>4, <1>10, <2>1, TargetAdvances
  <2>3. ASSUME NEW x, Grows(g, x), NEW w, w = y \cup x PROVE w \subseteq completed' /\ Due(g, w)'
    <3>1. /\ completed \subseteq completed' /\ x \subseteq completed'
          /\ g \notin unreturned' => completed' \subseteq completed \cup x
      BY <2>3 DEF Grows
    <3>2. w \subseteq completed'
      BY <2>1, <2>3, <3>1
    <3>3. Due(g, w)'
      <4> SUFFICES ASSUME Undisturbed', g \notin unreturned', Aggregate' \/ Drilldown = Zero,
                          NEW c \in completed', c.goid = g
                   PROVE  c \in Output' \cup w
        BY DEF Due
      <4>1. c \in completed \/ c \in x
        BY <3>1
      <4>2. c \in completed => c \in Output \cup y
        BY <1>3, <1>5, <1>6, <1>8 DEF Due
      <4>3. QED
        BY <1>5, <2>3, <4>1, <4>2
    <3>4. QED
      BY <3>2, <3>3
  <2>4. CASE queue' = queue /\ Abreast(g, z)' /\ Grows(g, {})
    <3>1. y \subseteq completed' /\ Due(g, y)'
      <4>1. y = y \cup {}
        OBVIOUS
      <4>2. QED
        BY <2>3, <2>4, <4>1
    <3>2. Justified(g, y, z)'
      BY <2>4, <3>1 DEF Justified
    <3>3. Replays(g, q)'
      BY <1>5, <1>7, <3>1, <3>2 DEF Replays
    <3>4. QED
      BY <2>4, <3>3
  <2>5. ASSUME NEW e \in Sent, NEW t, NEW x, queue' = Append(queue, e),
               t = Replayed(g, z, e), x = Yield(g, z, e), Abreast(g, t)', Grows(g, x)
        PROVE  \E r : r = queue' /\ Replays(g, r)'
    <3>1. PICK r, w : r = Append(q, e) /\ w = y \cup x
      OBVIOUS
    <3>2. Path(g, r, a, t, w)'
      BY <1>7, <2>5, <3>1
    <3>3. w \subseteq completed' /\ Due(g, w)'
      BY <2>3, <2>5, <3>1
    <3>4. Justified(g, w, t)'
      BY <2>5, <3>3 DEF Justified
    <3>5. Replays(g, r)'
      BY <1>5, <3>2, <3>3, <3>4 DEF Replays
    <3>6. QED
      BY <2>5, <3>1, <3>5
  <2>6. QED
    BY <2>2, <2>4, <2>5 DEF Advances
<1>11. QED
  BY <1>9, <1>10

\* A step of others, or one that leaves the replica of g where it is.
LEMMA StillReplays ==
    ASSUME UNCHANGED <<cfg, managerVars>>, stats["dropped_events"] = 0,
           NEW g, NEW q, q = queue, Replays(g, q),
           queue' = queue \/ \E e \in Sent : e.goid # g /\ queue' = Append(queue, e),
           g \in Blurred => g \in Blurred', g \in unreturned => g \in unreturned',
           completed \subseteq completed', \A c \in completed' : c.goid = g => c \in completed,
           \A s \in Replicas : g \notin Blurred' /\ Abreast(g, s) => Abreast(g, s)'
    PROVE  \E r : r = queue' /\ Replays(g, r)'
<1>1. PICK a, z, y : Path(g, q, a, z, y) /\ HeldBy(g, a) /\ Justified(g, y, z) /\ Due(g, y)
  BY DEF Replays
<1>2. z \in Replicas
  BY <1>1, PathEnds
<1>3. HeldBy(g, a)' /\ Output' = Output /\ (Undisturbed' => Undisturbed)
  BY <1>1, HeldStays
<1>4. Justified(g, y, z)'
  <2> SUFFICES ASSUME g \notin Blurred' PROVE y \subseteq completed' /\ Abreast(g, z)'
    BY DEF Justified
  <2>1. y \subseteq completed /\ Abreast(g, z)
    BY <1>1 DEF Justified
  <2>2. QED
    BY <1>2, <2>1
<1>5. Aggregate' = Aggregate
  BY DEF Aggregate
<1>6. Due(g, y)'
  <2> SUFFICES ASSUME Undisturbed', g \notin unreturned', Aggregate' \/ Drilldown = Zero,
                      NEW c \in completed', c.goid = g
               PROVE  c \in Output' \cup y
    BY DEF Due
  <2>1. c \in Output \cup y
    BY <1>1, <1>3, <1>5 DEF Due
  <2>2. QED
    BY <1>3, <2>1
<1>7. CASE queue' = queue
  <2>1. Path(g, q, a, z, y)'
    BY <1>1, PathSame
  <2>2. QED
    BY <1>3, <1>4, <1>6, <1>7, <2>1 DEF Replays
<1>8. ASSUME NEW e \in Sent, e.goid # g, queue' = Append(queue, e)
      PROVE  \E r : r = queue' /\ Replays(g, r)'
  <2>1. PICK t, x, r : t = Replayed(g, z, e) /\ x = Yield(g, z, e) /\ r = Append(q, e)
    OBVIOUS
  <2>2. t = z /\ x = {}
    BY <1>8, <2>1 DEF Replayed, Yield
  <2>3. Path(g, Append(q, e), a, t, y \cup x)
    BY <1>1, <2>1, PathPushed
  <2>4. y \cup x = y
    BY <2>2
  <2>5. Path(g, r, a, z, y)
    BY <2>1, <2>2, <2>3, <2>4, Zenon
  <2>6. Path(g, r, a, z, y)'
    BY <2>5, PathSame
  <2>7. Replays(g, r)'
    BY <1>3, <1>4, <1>6, <2>6 DEF Replays
  <2>8. QED
    BY <1>8, <2>1, <2>7
<1>9. QED
  BY <1>7, <1>8

\* A goroutine runs.
LEMMA RunKeeps ==
    ASSUME EveryCallProbed, DepthInv, Live, NEW g \in Goroutines, RunGoroutine(g), cfg' = cfg,
           stats["dropped_events"] = 0, stats'["dropped_events"] = 0
    PROVE  Live'
<1>1. /\ Running /\ TargetStep(g) /\ Follow(g) /\ UNCHANGED <<cfg, managerVars>>
      /\ UNCHANGED <<cfg, phase, attached>>
  BY DEF RunGoroutine, linkVars
<1>2. /\ HistoryOK /\ WellProbed(g) /\ Called(g) /\ DepthInv' /\ Only(g) /\ TargetTypeOK
      /\ \A h \in Goroutines \ {g} : moves'[h] = moves[h]
  BY <1>1, TargetOnly, Shapes DEF Live, WellProbed
<1>3. /\ HistoryOK' /\ completed \subseteq completed'
      /\ \A c \in completed' : c \in completed \/ c.goid = g
      /\ \A h \in Goroutines \ {g} : admittedAt'[h] = admittedAt[h] /\ inSample'[h] = inSample[h]
  <2>1. /\ completed' = IF SampleCompletes(g) /\ ~SampleAborts(g)
                          THEN completed \cup inSample[g] \cup CallNext(g) ELSE completed
        /\ \A h \in Goroutines \ {g} : admittedAt'[h] = admittedAt[h] /\ inSample'[h] = inSample[h]
        /\ \A c \in CallNext(g) : c.goid = g
        /\ HistoryOK'
    BY <1>1, <1>2, FollowDoes
  <2>2. \A c \in inSample[g] : c.goid = g
    BY <1>2 DEF HistoryOK
  <2>3. QED
    BY <2>1, <2>2
<1>4. unreturned \subseteq unreturned' /\ Blurred \subseteq Blurred'
  BY <1>1, <1>2, BlurredStays
<1>5. \A h \in Goroutines : WellProbed(h)'
  BY <1>1, TargetProbed DEF Live
<1>6. queue' = queue \/ \E e \in Sent : e.goid = g /\ queue' = Append(queue, e)
  BY <1>1, <1>2, TargetSends
<1>7. ASSUME NEW h \in Goroutines PROVE \E r : r = queue' /\ Replays(h, r)'
  <2>1. PICK q : q = queue /\ Replays(h, q)
    BY DEF Live
  <2>2. CASE h = g
    BY <2>1, <2>2, RunReplays
  <2>3. CASE h # g
    <3>1. ASSUME NEW s \in Replicas, h \notin Blurred', Abreast(h, s) PROVE Abreast(h, s)'
      BY <1>1, <1>2, <1>3, <2>3, <3>1, SameAbreast DEF Only
    <3>2. \A c \in completed' : c.goid = h => c \in completed
      BY <1>3, <2>3
    <3>3. queue' = queue \/ \E e \in Sent : e.goid # h /\ queue' = Append(queue, e)
      BY <1>6, <2>3
    <3>4. QED
      BY <1>1, <1>3, <1>4, <2>1, <3>1, <3>2, <3>3, StillReplays
  <2>4. QED
    BY <2>2, <2>3
<1>8. /\ Output' = Output /\ suppressed' = suppressed /\ (Undisturbed' => Undisturbed)
  BY <1>1 DEF Output, Undisturbed, managerVars, stackVars
<1>9. \A c \in Output' : c.goid \notin Blurred' => c \in completed'
  BY <1>3, <1>4, <1>8 DEF Live
<1>10. \A c \in completed' : c.goid \in Goroutines
  BY <1>3 DEF Live
<1>11. Undisturbed' => suppressed' = {}
  BY <1>8 DEF Live
<1>12. QED
  BY <1>3, <1>5, <1>7, <1>9, <1>10, <1>11 DEF Live

\* A process is replaced.
LEMMA ReplaceLives ==
    ASSUME EveryCallProbed, DepthInv, Live, NEW p \in Pids, ReplaceProcess(p), cfg' = cfg,
           stats["dropped_events"] = 0
    PROVE  Live'
<1>1. /\ Replace(p) /\ UNCHANGED <<cfg, managerVars>> /\ UNCHANGED <<admittedAt, completed>>
      /\ inSample' = [h \in Goroutines |-> IF PidOf[h] = p THEN {} ELSE inSample[h]]
  BY DEF ReplaceProcess
<1>2. /\ queue' = queue /\ stray' = stray /\ unreturned \subseteq unreturned'
      /\ clock' = clock /\ moves' = moves /\ state' = state /\ since' = since
      /\ \A h \in Goroutines : PidOf[h] # p =>
            /\ frames'[h] = frames[h] /\ (h \in fresh' <=> h \in fresh)
            /\ (h \in unreturned' <=> h \in unreturned)
  BY <1>1 DEF Replace, kernelVars
<1>3. HistoryOK
  BY DEF Live
<1>4. HistoryOK'
  <2>1. admittedAt' = [h \in Goroutines |-> admittedAt'[h]]
    BY <1>1, <1>3 DEF HistoryOK
  <2>2. inSample' = [h \in Goroutines |-> inSample'[h]]
    BY <1>1
  <2>3. \A h \in Goroutines : \A c \in inSample'[h] : c.goid = h
    BY <1>1, <1>3 DEF HistoryOK
  <2>4. QED
    BY <2>1, <2>2, <2>3 DEF HistoryOK
<1>5. Blurred \subseteq Blurred'
  BY <1>2 DEF Blurred, Aggregate
<1>6. \A h \in Goroutines : PidOf[h] # p => inSample'[h] = inSample[h]
  BY <1>1
<1>7. ASSUME NEW h \in Goroutines PROVE WellProbed(h)'
  <2>1. WellProbed(h)
    BY DEF Live
  <2>2. CASE PidOf[h] = p
    BY <1>1, <2>1, <2>2, ReplaceProbed
  <2>3. CASE PidOf[h] # p
    BY <1>2, <2>1, <2>3, SameProbed
  <2>4. QED
    BY <2>2, <2>3
<1>8. ASSUME NEW h \in Goroutines PROVE \E r : r = queue' /\ Replays(h, r)'
  <2>1. PICK q : q = queue /\ Replays(h, q)
    BY DEF Live
  <2>2. ASSUME NEW s \in Replicas, h \notin Blurred', Abreast(h, s) PROVE Abreast(h, s)'
    <3>1. CASE PidOf[h] = p
      BY <1>1, <1>3, <2>2, <3>1, ReplaceAbreast
    <3>2. CASE PidOf[h] # p
      BY <1>1, <1>2, <1>6, <2>2, <3>2, SameAbreast
    <3>3. QED
      BY <3>1, <3>2
  <2>3. QED
    BY <1>1, <1>2, <1>5, <2>1, <2>2, StillReplays
<1>9. /\ Output' = Output /\ suppressed' = suppressed /\ (Undisturbed' => Undisturbed)
  BY <1>1 DEF Output, Undisturbed, managerVars, stackVars
<1>10. QED
  BY <1>1, <1>4, <1>5, <1>7, <1>8, <1>9 DEF Live

\* The tracer does something else than handling events.
LEMMA ControlLives ==
    ASSUME Live, Control, cfg' = cfg, stats["dropped_events"] = 0
    PROVE  Live'
<1>1. UNCHANGED <<cfg, managerVars>> /\ UNCHANGED <<admittedAt, inSample, completed>>
  BY DEF Control, historyVars
<1>2. /\ queue' = queue /\ UNCHANGED <<frames, moves, fresh, alive, faults, clock, indirect, unreturned, stray>>
      /\ state' = state /\ since' = since
  BY DEF Control, SetSampleDenominator, Attach, Interrupt, CloseLink, targetVars, kernelVars
<1>3. HistoryOK'
  BY <1>1 DEF Live, HistoryOK
<1>4. Blurred' = Blurred
  BY <1>2 DEF Blurred, Aggregate
<1>5. ASSUME NEW h \in Goroutines PROVE WellProbed(h)'
  <2>1. WellProbed(h)
    BY DEF Live
  <2>2. QED
    BY <1>2, <2>1, SameProbed
<1>6. ASSUME NEW h \in Goroutines PROVE \E r : r = queue' /\ Replays(h, r)'
  <2>1. PICK q : q = queue /\ Replays(h, q)
    BY DEF Live
  <2>2. ASSUME NEW s \in Replicas, h \notin Blurred', Abreast(h, s) PROVE Abreast(h, s)'
    BY <1>1, <1>2, <2>2, SameAbreast
  <2>3. QED
    BY <1>1, <1>2, <1>4, <2>1, <2>2, StillReplays
<1>7. /\ Output' = Output /\ suppressed' = suppressed /\ (Undisturbed' => Undisturbed)
  BY <1>1 DEF Output, Undisturbed, managerVars, stackVars
<1>8. QED
  BY <1>1, <1>3, <1>4, <1>5, <1>6, <1>7 DEF Live

\* With room for everything before, there was room in this step.
LEMMA DeliverRoom ==
    ASSUME ManagerTypeOK, NEW e \in Event, Handle(e), UNCHANGED stats, Undisturbed',
           Undisturbed => suppressed = {}
    PROVE  Undisturbed /\ Roomy /\ suppressed' = {}
<1>1. stats["dropped_events"] = 0 /\ discarded'["overBudget"] = 0 /\ evictedPIDs' = 0
  BY DEF Undisturbed
<1>2. discarded["overBudget"] = 0 /\ evictedPIDs = 0 /\ suppressed' \subseteq suppressed
  BY <1>1, HandleRoom
<1>3. Undisturbed
  BY <1>1, <1>2 DEF Undisturbed
<1>4. QED
  BY <1>1, <1>2, <1>3 DEF Roomy

\* What the handled event reports.
LEMMA DeliverReports ==
    ASSUME ManagerTypeOK, SuppressedInv, cfg' = cfg, UNCHANGED stats,
           Undisturbed => suppressed = {},
           NEW e \in Sent, Handle(e), NEW q, q # <<>>, e = Head(q),
           NEW a, NEW z, NEW y, Path(e.goid, q, a, z, y), HeldBy(e.goid, a), Justified(e.goid, y, z)
    PROVE  /\ \A c \in Output' : c \in Output \/ (c.goid = e.goid /\ (c.goid \notin Blurred => c \in completed))
           /\ Undisturbed' /\ (Aggregate \/ Drilldown = Zero) =>
                Output \cup Yield(e.goid, a, e) \subseteq Output'
<1> DEFINE g == e.goid
<1>1. a \in Replicas /\ Own(g, a)
  BY PathEnds
<1>2. PICK x : x = Yield(g, a, e)
  OBVIOUS
<1>3. Mirrors(g, a) \/ (Adaptive /\ Mirrors(g, Blank))
  BY DEF HeldBy
<1>4. /\ Output' \subseteq Output \cup x
      /\ Mirrors(g, a) /\ Roomy /\ (Aggregate \/ Drilldown = Zero) => Output \cup x \subseteq Output'
  BY <1>1, <1>2, <1>3, HandleOutputs
<1>5. \A c \in x : c.goid = g
  BY <1>1, <1>2, OwnReplayed
<1>6. x \subseteq y
  <2>1. PICK b, u, w : u = Yield(g, a, Head(q)) /\ y = w \cup u
    BY PathTaken
  <2>2. QED
    BY <1>2, <2>1
<1>7. g \notin Blurred => y \subseteq completed
  BY DEF Justified
<1>8. e \in Event
  BY DEF Sent
<1>9. Undisturbed' => Roomy /\ Mirrors(g, a)
  BY <1>8, DeliverRoom DEF HeldBy
<1>10. \A c \in Output' : c \in Output \/ (c.goid = g /\ (c.goid \notin Blurred => c \in completed))
  BY <1>4, <1>5, <1>6, <1>7
<1>11. Undisturbed' /\ (Aggregate \/ Drilldown = Zero) => Output \cup x \subseteq Output'
  BY <1>4, <1>9
<1>12. QED
  BY <1>2, <1>10, <1>11

\* What is then held of its goroutine, and of the others.
LEMMA DeliverHeld ==
    ASSUME ManagerTypeOK, SuppressedInv, cfg' = cfg, UNCHANGED stats,
           Undisturbed => suppressed = {},
           NEW e \in Sent, Handle(e), NEW h \in Goroutines, NEW a \in Replicas, HeldBy(h, a),
           NEW b, b = Replayed(h, a, e)
    PROVE  HeldBy(h, b)'
<1>1. Mirrors(h, a) \/ (Adaptive /\ Mirrors(h, Blank))
  BY DEF HeldBy
<1>2. e \in Event /\ Adaptive' = Adaptive
  BY DEF Sent, Adaptive
<1>3. Undisturbed' => Roomy /\ Mirrors(h, a)
  BY <1>2, DeliverRoom DEF HeldBy
<1>4. PICK s : s = Blank
  OBVIOUS
<1>5. Blank' = Blank
  BY DEF Blank
<1>6. Mirrors(h, s)' <=> Mirrors(h, Blank)'
  BY <1>4, <1>5
<1>7. CASE h = e.goid
  <2>1. Mirrors(e.goid, a) \/ (Adaptive /\ Mirrors(e.goid, Blank))
    BY <1>1, <1>7
  <2>2. b = Replayed(e.goid, a, e)
    BY <1>7
  <2>3. /\ Mirrors(e.goid, b)' \/ (Adaptive /\ Mirrors(e.goid, Blank)')
        /\ Mirrors(e.goid, a) /\ Roomy => Mirrors(e.goid, b)'
    BY <2>1, <2>2, HandleReplays
  <2>4. /\ Mirrors(h, b)' \/ (Adaptive /\ Mirrors(h, Blank)')
        /\ Mirrors(h, a) /\ Roomy => Mirrors(h, b)'
    BY <1>7, <2>3
  <2>5. QED
    BY <1>2, <1>3, <2>4 DEF HeldBy
<1>8. CASE h # e.goid
  <2>1. b = a
    BY <1>8 DEF Replayed
  <2>2. /\ Mirrors(h, a)' \/ (Adaptive /\ Mirrors(h, Blank)')
        /\ Mirrors(h, a) /\ Roomy => Mirrors(h, a)'
    BY <1>1, <1>8, HandleReplaysOthers
  <2>3. HeldBy(h, a)'
    BY <1>2, <1>3, <2>2 DEF HeldBy
  <2>4. QED
    BY <2>1, <2>3
<1>9. QED
  BY <1>7, <1>8

\* An event is handled.
LEMMA DeliverLives ==
    ASSUME ManagerTypeOK, SuppressedInv, DepthInv, Live, Deliver, cfg' = cfg
    PROVE  Live'
<1>1. /\ queue # <<>> /\ queue' = Tail(queue) /\ Handle(Head(queue))
      /\ UNCHANGED <<frames, moves, fresh, alive, faults, clock, indirect, unreturned, stray>>
      /\ UNCHANGED <<state, since, stats>> /\ UNCHANGED <<admittedAt, inSample, completed>>
  BY DEF Deliver, Dequeue, targetVars, historyVars
<1>2. PICK e, q : e = Head(queue) /\ q = queue
  OBVIOUS
<1>3. q # <<>> /\ e = Head(q) /\ Handle(e)
  BY <1>1, <1>2
<1>4. Head(queue) \in Event
  BY DequeueKeeps DEF Deliver
<1>5. e \in Event /\ e.goid \in Goroutines
  BY <1>2, <1>4, EventFields
<1>6. \A h \in Goroutines : Replays(h, q)
  BY <1>2 DEF Live
<1>7. PICK a0, z0, y0 : Path(e.goid, q, a0, z0, y0) /\ HeldBy(e.goid, a0) /\ Justified(e.goid, y0, z0)
  BY <1>5, <1>6 DEF Replays
<1>8. e \in Sent
  BY <1>3, <1>7, PathTaken
<1>9. Undisturbed => suppressed = {}
  BY DEF Live
<1>10. /\ \A c \in Output' : c \in Output \/ (c.goid = e.goid /\ (c.goid \notin Blurred => c \in completed))
       /\ Undisturbed' /\ (Aggregate \/ Drilldown = Zero) => Output \subseteq Output'
  BY <1>1, <1>3, <1>7, <1>8, <1>9, DeliverReports
<1>11. Undisturbed' => Undisturbed /\ suppressed' = {}
  BY <1>1, <1>3, <1>5, <1>9, DeliverRoom
<1>12. Blurred' = Blurred /\ Aggregate' = Aggregate
  BY <1>1 DEF Blurred, Aggregate
<1>13. HistoryOK'
  BY <1>1 DEF Live, HistoryOK
<1>14. ASSUME NEW h \in Goroutines PROVE WellProbed(h)'
  <2>1. WellProbed(h)
    BY DEF Live
  <2>2. QED
    BY <1>1, <2>1, SameProbed
<1>15. ASSUME NEW h \in Goroutines PROVE \E r : r = queue' /\ Replays(h, r)'
  <2>1. PICK a, z, y : Path(h, q, a, z, y) /\ HeldBy(h, a) /\ Justified(h, y, z) /\ Due(h, y)
    BY <1>6 DEF Replays
  <2>2. a \in Replicas /\ z \in Replicas
    BY <2>1, PathEnds
  <2>3. PICK b, x, w : b = Replayed(h, a, e) /\ x = Yield(h, a, e) /\ Path(h, Tail(q), b, z, w) /\ y = w \cup x
    BY <1>3, <2>1, PathTaken
  <2>4. PICK r : r = Tail(q)
    OBVIOUS
  <2>5. Path(h, r, b, z, w)
    BY <2>3, <2>4
  <2>6. Path(h, r, b, z, w)'
    BY <2>5, PathSame
  <2>7. HeldBy(h, b)'
    BY <1>1, <1>3, <1>8, <1>9, <2>1, <2>2, <2>3, DeliverHeld
  <2>8. Justified(h, w, z)'
    <3> SUFFICES ASSUME h \notin Blurred' PROVE w \subseteq completed' /\ Abreast(h, z)'
      BY DEF Justified
    <3>1. y \subseteq completed /\ Abreast(h, z)
      BY <1>12, <2>1 DEF Justified
    <3>2. Abreast(h, z)'
      BY <1>1, <3>1, SameAbreast
    <3>3. QED
      BY <1>1, <2>3, <3>1, <3>2
  <2>9. Due(h, w)'
    <3> SUFFICES ASSUME Undisturbed', h \notin unreturned', Aggregate' \/ Drilldown = Zero,
                        NEW c \in completed', c.goid = h
                 PROVE  c \in Output' \cup w
      BY DEF Due
    <3>1. c \in Output \cup y
      BY <1>1, <1>11, <1>12, <2>1 DEF Due
    <3>2. Output \subseteq Output'
      BY <1>10, <1>12
    <3>3. CASE h = e.goid
      <4>1. Path(e.goid, q, a, z, y) /\ HeldBy(e.goid, a) /\ Justified(e.goid, y, z)
        BY <2>1, <3>3
      <4>2. Output \cup Yield(e.goid, a, e) \subseteq Output'
        BY <1>1, <1>3, <1>8, <1>9, <1>12, <4>1, DeliverReports
      <4>3. x \subseteq Output'
        BY <2>3, <3>3, <4>2
      <4>4. QED
        BY <2>3, <3>1, <3>2, <4>3
    <3>4. CASE h # e.goid
      <4>1. x = {}
        BY <2>3, <3>4 DEF Yield
      <4>2. QED
        BY <2>3, <3>1, <3>2, <4>1
    <3>5. QED
      BY <3>3, <3>4
  <2>10. Replays(h, r)'
    BY <2>6, <2>7, <2>8, <2>9 DEF Replays
  <2>11. r = queue'
    BY <1>1, <1>2, <2>4
  <2>12. QED
    BY <2>10, <2>11
<1>16. \A c \in Output' : c.goid \notin Blurred' => c \in completed'
  BY <1>1, <1>10, <1>12 DEF Live
<1>17. QED
  BY <1>1, <1>11, <1>13, <1>14, <1>15, <1>16 DEF Live

\* Those of g are completed calls or returned ones of its open sample.
LEMMA RemainingReal ==
    ASSUME ~Aggregate, NEW g \in Unfinished, NEW q, q = <<>>, Replays(g, q)
    PROVE  \A c \in ToSet(PrintStack(goEvents[g]).pairs) :
              c.goid = g /\ (g \notin Blurred => c \in completed \cup inSample[g])
<1>1. PICK a, z, y : Path(g, q, a, z, y) /\ HeldBy(g, a) /\ Justified(g, y, z)
  BY DEF Replays
<1>2. a = z /\ a \in Replicas /\ Own(g, a)
  BY <1>1, PathEnds
<1>3. ~Mirrors(g, Blank)
  <2>1. goEvents[g] # <<>>
    BY DEF Unfinished
  <2>2. Blank.last = {}
    BY DEF Blank
  <2>3. QED
    BY <2>1, <2>2 DEF Mirrors, Depicts
<1>4. Mirrors(g, a)
  BY <1>1, <1>3 DEF HeldBy
<1>5. ToSet(PrintStack(goEvents[g]).pairs) = a.pairs
  BY <1>4 DEF Mirrors, Depicts, PairUp
<1>6. \A c \in a.pairs : c.goid = g
  BY <1>2 DEF Own
<1>7. ASSUME g \notin Blurred PROVE a.pairs \subseteq completed \cup inSample[g]
  <2>1. Abreast(g, a)
    BY <1>1, <1>2, <1>7 DEF Justified
  <2>2. CASE state[g] = NoState
    <3>1. a = Blank
      BY <2>1, <2>2 DEF Abreast
    <3>2. QED
      BY <3>1 DEF Blank
  <2>3. CASE state[g] # NoState
    <3>1. Accounts(g, a)
      BY <2>1, <2>3 DEF Abreast, Tracks, Tidy, Dirty
    <3>2. QED
      BY <3>1 DEF Accounts
  <2>4. QED
    BY <2>2, <2>3
<1>8. QED
  BY <1>5, <1>6, <1>7

\* The summary is printed.
LEMMA FinishSettles ==
    ASSUME ManagerTypeOK, Live, Finish, cfg' = cfg
    PROVE  Settled'
<1>1. /\ queue = <<>> /\ PrintRemaining /\ unreturned' = unreturned /\ stray' = stray /\ stats' = stats
      /\ UNCHANGED <<admittedAt, inSample, completed>>
  BY DEF Finish, targetVars, kernelVars, historyVars
<1>2. PICK q : q = queue
  OBVIOUS
<1>3. \A h \in Goroutines : Replays(h, q)
  BY <1>2 DEF Live
<1>4. Blurred' = Blurred /\ Aggregate' = Aggregate
  BY <1>1 DEF Blurred, Aggregate
<1>5. \A c \in completed : c.goid \in Goroutines
  BY DEF Live
<1>6. /\ agg' = agg /\ evictedPIDs' = evictedPIDs /\ (Aggregate => printed' = printed)
      /\ discarded'["overBudget"] = discarded["overBudget"]
  <2>1. discarded' = discarded \/ discarded' = [discarded EXCEPT !["incomplete"] = @ + Cardinality(Unfinished)]
    BY <1>1 DEF PrintRemaining
  <2>2. discarded'["overBudget"] = discarded["overBudget"]
    BY <2>1 DEF ManagerTypeOK, Reasons
  <2>3. QED
    BY <1>1, <2>2 DEF PrintRemaining
<1>7. Undisturbed' => Undisturbed
  BY <1>1, <1>6 DEF Undisturbed
<1>8. /\ Output \subseteq Output'
      /\ \A c \in Output' : c.goid \notin Blurred' =>
            c \in completed' \/ (~Aggregate' /\ \E g \in Goroutines : c \in inSample'[g])
  <2>1. \A c \in Output : c.goid \notin Blurred => c \in completed
    BY DEF Live
  <2>2. CASE Aggregate
    <3>1. Output' = Output
      BY <1>6, <2>2 DEF Output
    <3>2. QED
      BY <1>1, <1>4, <2>1, <3>1
  <2>3. CASE ~Aggregate
    <3>1. /\ ToSet(printed) \subseteq ToSet(printed')
          /\ \A c \in ToSet(printed') :
                c \in ToSet(printed) \/ \E u \in Unfinished : c \in ToSet(PrintStack(goEvents[u]).pairs)
      BY <1>1, <2>3, RemainingPrinted
    <3>2. Output \subseteq Output'
      BY <1>6, <3>1 DEF Output
    <3>3. ASSUME NEW c \in Output', c.goid \notin Blurred'
          PROVE  c \in completed' \/ (~Aggregate' /\ \E g \in Goroutines : c \in inSample'[g])
      <4>1. c \in Output \/ \E u \in Unfinished : c \in ToSet(PrintStack(goEvents[u]).pairs)
        BY <1>6, <3>1, <3>3 DEF Output
      <4>2. CASE c \in Output
        BY <1>1, <1>4, <2>1, <3>3, <4>2
      <4>3. ASSUME NEW u \in Unfinished, c \in ToSet(PrintStack(goEvents[u]).pairs)
            PROVE  c \in completed' \/ (~Aggregate' /\ \E g \in Goroutines : c \in inSample'[g])
        <5>1. u \in Goroutines
          BY DEF Unfinished
        <5>2. q = <<>> /\ Replays(u, q)
          BY <1>1, <1>2, <1>3, <5>1
        <5>3. c.goid = u /\ (u \notin Blurred => c \in completed \cup inSample[u])
          BY <2>3, <4>3, <5>2, RemainingReal
        <5>4. QED
          BY <1>1, <1>4, <2>3, <3>3, <5>1, <5>3
      <4>4. QED
        BY <4>1, <4>2, <4>3
    <3>4. QED
      BY <3>2, <3>3
  <2>4. QED
    BY <2>2, <2>3
<1>9. ASSUME Undisturbed', Aggregate' \/ Drilldown = Zero, NEW c \in completed', c.goid \notin unreturned'
      PROVE  c \in Output'
  <2>1. PICK g \in Goroutines : g = c.goid
    BY <1>1, <1>5, <1>9
  <2>2. PICK a, z, y : Path(g, q, a, z, y) /\ Due(g, y)
    BY <1>3 DEF Replays
  <2>3. y = {}
    BY <1>1, <1>2, <2>2, PathEnds
  <2>4. c \in Output
    BY <1>1, <1>4, <1>7, <1>9, <2>1, <2>2, <2>3 DEF Due
  <2>5. QED
    BY <1>8, <2>4
<1>10. QED
  BY <1>8, <1>9 DEF Settled

\* Nothing has been called at the start.
LEMMA HistoryStarts == Init => HistoryInv
<1> SUFFICES ASSUME Init PROVE Live
  BY DEF HistoryInv, Init, ProbesInit
<1>1. /\ queue = <<>> /\ unreturned = {} /\ stray = {} /\ fresh = {} /\ completed = {}
      /\ \A g \in Goroutines : /\ frames[g] = <<>> /\ state[g] = NoState /\ since[g] = 0
                               /\ inSample[g] = {}
      /\ admittedAt = [g \in Goroutines |-> 0] /\ inSample = [g \in Goroutines |-> {}]
  BY DEF Init, ProbesInit
<1>2. /\ \A g \in Goroutines : goEvents[g] = <<>> /\ goEventStack[g] = <<>>
      /\ invalid = {} /\ suppressed = {} /\ printed = <<>> /\ \A p \in Pids : agg[p] = <<>>
  BY DEF Init, ManagerInit
<1>3. HistoryOK
  BY <1>1 DEF HistoryOK
<1>4. ASSUME NEW g \in Goroutines PROVE WellProbed(g)
  <2>1. Len(frames[g]) = 0
    BY <1>1
  <2>2. QED
    BY <1>1, <2>1 DEF WellProbed, Called, Closed, Latest, Exact, Strays, Sound
<1>5. Output = {}
  <2>1. ToSet(<<>>) = {}
    BY DEF ToSet
  <2>2. QED
    BY <1>2, <2>1 DEF Output
<1>6. ASSUME NEW g \in Goroutines PROVE \E q : q = queue /\ Replays(g, q)
  <2>1. PICK q, a : q = queue /\ a = Blank
    OBVIOUS
  <2>2. a \in Replicas /\ Own(g, a)
    BY <2>1, BlankType DEF Own, Blank
  <2>3. Path(g, q, a, a, {})
    BY <1>1, <2>1, <2>2, PathNothing
  <2>4. Mirrors(g, a)
    <3>1. g \notin invalid /\ goEvents[g] = <<>> /\ goEventStack[g] = <<>>
      BY <1>2
    <3>2. Depicts(<<>>, <<>>, FALSE, a)
      BY <2>1, BlankDepicts
    <3>3. Depicts(<<>>, <<>>, g \in invalid, a)
      BY <3>1, <3>2 DEF Depicts
    <3>4. QED
      BY <3>1, <3>3 DEF Mirrors
  <2>5. HeldBy(g, a)
    BY <2>4 DEF HeldBy
  <2>6. Justified(g, {}, a) /\ Due(g, {})
    BY <1>1, <2>1 DEF Justified, Abreast, Due
  <2>7. QED
    BY <2>1, <2>3, <2>5, <2>6 DEF Replays
<1>7. QED
  BY <1>1, <1>2, <1>3, <1>4, <1>5, <1>6 DEF Live

\* Lost events stay counted.
LEMMA DroppedStays ==
    ASSUME DepthInv, [Next]_vars, stats'["dropped_events"] = 0
    PROVE  stats["dropped_events"] = 0
<1>1. stats \in [StatNames -> Nat] /\ "dropped_events" \in StatNames
  BY DEF DepthInv, ProbesTypeOK, StatNames
<1>2. StatsStep
  <2>1. CASE UNCHANGED vars
    BY <2>1 DEF vars, probesVars, kernelVars, StatsStep
  <2>2. ASSUME NEW g \in Goroutines, RunGoroutine(g) PROVE StatsStep
    BY <2>2, TargetCounts DEF RunGoroutine
  <2>3. ASSUME NEW p \in Pids, ReplaceProcess(p) PROVE StatsStep
    BY <2>3 DEF ReplaceProcess, Replace, kernelVars, StatsStep
  <2>4. CASE Control
    BY <2>4 DEF Control, SetSampleDenominator, Attach, Interrupt, CloseLink, kernelVars, StatsStep
  <2>5. CASE Deliver \/ Finish
    BY <2>5 DEF Deliver, Dequeue, Finish, kernelVars, StatsStep
  <2>6. QED
    BY <2>1, <2>2, <2>3, <2>4, <2>5 DEF Next
<1>3. CASE stats' = stats
  BY <1>3
<1>4. ASSUME NEW names, stats' = Count(stats, names) PROVE stats["dropped_events"] = 0
  <2>1. stats'["dropped_events"] \in {stats["dropped_events"], stats["dropped_events"] + 1}
    BY <1>1, <1>4 DEF Count
  <2>2. stats["dropped_events"] \in Nat
    BY <1>1
  <2>3. QED
    BY <2>1, <2>2
<1>5. QED
  BY <1>2, <1>3, <1>4 DEF StatsStep

\* Nothing happens: what has been said stays true.
LEMMA StutterLives ==
    ASSUME UNCHANGED vars, stats["dropped_events"] = 0
    PROVE  (Live => Live') /\ (Settled => Settled')
<1>1. /\ UNCHANGED <<cfg, managerVars>> /\ UNCHANGED <<admittedAt, inSample, completed>>
      /\ UNCHANGED <<frames, moves, fresh, alive, faults, clock, indirect, unreturned, stray>>
      /\ UNCHANGED <<state, since, queue, stats>>
  BY DEF vars, probesVars, historyVars, targetVars, kernelVars
<1>2. Blurred' = Blurred /\ Aggregate' = Aggregate
  BY <1>1 DEF Blurred, Aggregate
<1>3. Output' = Output /\ suppressed' = suppressed /\ (Undisturbed' <=> Undisturbed)
  BY <1>1 DEF Output, Undisturbed, managerVars, stackVars
<1>4. ASSUME Live PROVE Live'
  <2>1. HistoryOK'
    BY <1>1, <1>4 DEF Live, HistoryOK
  <2>2. ASSUME NEW h \in Goroutines PROVE WellProbed(h)'
    <3>1. WellProbed(h)
      BY <1>4 DEF Live
    <3>2. QED
      BY <1>1, <3>1, SameProbed
  <2>3. ASSUME NEW h \in Goroutines PROVE \E r : r = queue' /\ Replays(h, r)'
    <3>1. PICK q : q = queue /\ Replays(h, q)
      BY <1>4 DEF Live
    <3>2. ASSUME NEW s \in Replicas, h \notin Blurred', Abreast(h, s) PROVE Abreast(h, s)'
      BY <1>1, <3>2, SameAbreast
    <3>3. QED
      BY <1>1, <1>2, <3>1, <3>2, StillReplays
  <2>4. QED
    BY <1>1, <1>2, <1>3, <1>4, <2>1, <2>2, <2>3 DEF Live
<1>5. ASSUME Settled PROVE Settled'
  BY <1>1, <1>2, <1>3, <1>5 DEF Settled
<1>6. QED
  BY <1>4, <1>5

\* HistoryInv is inductive, beside the invariants of the programs and of the manager.
LEMMA HistoryKept ==
    ASSUME DepthInv, ManagerTypeOK, SuppressedInv, HistoryInv, [Next]_vars
    PROVE  HistoryInv'
<1> SUFFICES ASSUME EveryCallProbed, stats'["dropped_events"] = 0
             PROVE  (phase' = "done" => Settled') /\ (phase' # "done" => Live')
  BY DEF HistoryInv, EveryCallProbed
<1>1. stats["dropped_events"] = 0
  BY DroppedStays
<1>2. (phase = "done" => Settled) /\ (phase # "done" => Live)
  BY <1>1 DEF HistoryInv
<1>3. CASE UNCHANGED vars
  <2>1. phase' = phase
    BY <1>3 DEF vars, probesVars, linkVars
  <2>2. QED
    BY <1>1, <1>2, <1>3, <2>1, StutterLives
<1>4. ASSUME NEW g \in Goroutines, RunGoroutine(g), cfg' = cfg
      PROVE  (phase' = "done" => Settled') /\ (phase' # "done" => Live')
  <2>1. phase = "tracing" /\ phase' = phase
    BY <1>4, AllAttached DEF RunGoroutine, linkVars
  <2>2. Live'
    BY <1>1, <1>2, <1>4, <2>1, RunKeeps
  <2>3. QED
    BY <2>1, <2>2
<1>5. ASSUME NEW p \in Pids, ReplaceProcess(p), cfg' = cfg
      PROVE  (phase' = "done" => Settled') /\ (phase' # "done" => Live')
  <2>1. phase = "tracing" /\ phase' = phase
    BY <1>5, AllAttached DEF ReplaceProcess, linkVars
  <2>2. Live'
    BY <1>1, <1>2, <1>5, <2>1, ReplaceLives
  <2>3. QED
    BY <2>1, <2>2
<1>6. ASSUME Control, cfg' = cfg
      PROVE  (phase' = "done" => Settled') /\ (phase' # "done" => Live')
  <2>1. phase # "done" /\ phase' # "done"
    BY <1>6 DEF Control, SetSampleDenominator, Attach, Interrupt, CloseLink, linkVars
  <2>2. Live'
    BY <1>1, <1>2, <1>6, <2>1, ControlLives
  <2>3. QED
    BY <2>1, <2>2
<1>7. ASSUME Deliver, cfg' = cfg
      PROVE  (phase' = "done" => Settled') /\ (phase' # "done" => Live')
  <2>1. phase # "done" /\ phase' = phase
    BY <1>7 DEF Deliver, Dequeue, linkVars
  <2>2. Live'
    BY <1>2, <1>7, <2>1, DeliverLives
  <2>3. QED
    BY <2>1, <2>2
<1>8. ASSUME Finish, cfg' = cfg
      PROVE  (phase' = "done" => Settled') /\ (phase' # "done" => Live')
  <2>1. phase # "done" /\ phase' = "done"
    BY <1>8 DEF Finish
  <2>2. Settled'
    BY <1>2, <1>8, <2>1, FinishSettles
  <2>3. QED
    BY <2>1, <2>2
<1>9. QED
  BY <1>3, <1>4, <1>5, <1>6, <1>7, <1>8 DEF Next

\* The replay agrees with the goroutines in every state of the tool, whatever the settings.
THEOREM HistoryInvariant == Spec => []HistoryInv
<1>1. Init => SuppressedInv
  BY SuppressedStarts DEF Init, ProbesInit
<1>2. DepthInv /\ SuppressedInv /\ [Next]_vars => SuppressedInv'
  BY StepsAreManagerSteps, SuppressedStays
<1>3. DepthInv /\ ManagerTypeOK /\ SuppressedInv /\ HistoryInv /\ [Next]_vars => HistoryInv'
  BY HistoryKept
<1>4. Spec => []ManagerTypeOK
  BY PipelineImplementsManager, ManagerTypeCorrect, PTL
<1>5. QED
  BY <1>1, <1>2, <1>3, <1>4, HistoryStarts, PipelineDepthInvariant, PTL DEF Spec

\* print.go, "only complete root calls are valid samples": while the queue loses nothing,
\* every reported call is one that the program made, in a sample whose root returned.
THEOREM ReportedAreRealCallsCorrect == Spec => []ReportedAreRealCalls
BY HistoryInvariant, HistoryIsReal, PTL

\* While nothing is lost and no memory bound is reached, every call of a completed sample
\* is reported once its events have been handled; with --drilldown the others are left
\* out on purpose.
THEOREM CompletedAreReportedCorrect ==
    Spec => []((Aggregate \/ Drilldown = Zero) => CompletedAreReported)
BY HistoryInvariant, HistoryIsComplete, PTL
=============================================================================
