-------------------------- MODULE FetchPlanProofs --------------------------
(***************************************************************************)
(* TLAPS proofs about automatic argument fetching (FetchPlan), for every   *)
(* set of signatures whose fields do not overlap and every limit on leaves *)
(* and rules.                                                              *)
(*                                                                         *)
(* The plan: its leaves are those of its values, one value after the other *)
(* (LaidOut), each value has registers of its own (Disjoint), and its      *)
(* first register is the one of the Go ABI unless a parameter before it    *)
(* was left out (FollowsABI).  PlanInv holds from planning on, because a   *)
(* parameter that is left out for its size also leaves no later one known. *)
(*                                                                         *)
(* The hit: the arguments are what fetch_args reads for the leaves, and    *)
(* what is shown is what renderAuto makes of them (HitInv).  The rest is   *)
(* about that one function of the plan and the memory: where the steps of  *)
(* a rule lead (AddWalk, DerefTarget), which leaf the renderer finds at    *)
(* its cursor (EventFacts, TakenFacts), and that the two agree on what the *)
(* leaf is a copy of (SnapshotIsHonest, NilIsExact).                       *)
(***************************************************************************)
EXTENDS FetchPlan, DataInduction

-----------------------------------------------------------------------------
(* Sums *)

\* t[i] is the sum of the first i numbers of s.
SumsUp(s, t) ==
    /\ t \in [0 .. Len(s) -> Nat]
    /\ t[0] = 0
    /\ \A i \in 1 .. Len(s) : t[i] = t[i - 1] + s[i]

\* The definition of Totals, unfolded.
LEMMA TotalsUnfold ==
    ASSUME NEW s \in Seq(Nat)
    PROVE  SumsUp(s, Totals(s))
<1> DEFINE N == Len(s)
           step == [p \in Nat \X Nat |-> IF p[1] \in 1 .. N THEN p[2] + s[p[1]] ELSE 0]
           G(f) == [i \in 0 .. N |-> IF i = 0 THEN 0 ELSE f[i - 1] + s[i]]
           upto == CHOOSE f : f = G(f)
<1>1. N \in Nat /\ \A i \in 1 .. N : s[i] \in Nat
  OBVIOUS
<1> HIDE DEF N
<1>2. /\ step \in [Nat \X Nat -> Nat]
      /\ \A i \in 1 .. N, a \in Nat : step[<<i, a>>] = a + s[i]
  BY <1>1, SMTT(40)
<1>3. PICK f \in [0 .. N -> Nat] : Recurses(f, N, 0, step)
  <2> HIDE DEF step
  <2> QED BY <1>1, <1>2, RecursionExists
<1>4. ASSUME NEW i \in 1 .. N PROVE f[i] = f[i - 1] + s[i]
  <2>1. i - 1 \in 0 .. N
    BY <1>1
  <2>2. f[i - 1] \in Nat /\ f[i] = step[<<i, f[i - 1]>>]
    BY <1>3, <2>1 DEF Recurses
  <2> HIDE DEF step
  <2>3. QED
    BY <1>2, <2>2
<1>5. f = G(f)
  <2>1. f[0] = 0
    BY <1>3 DEF Recurses
  <2>2. QED
    BY <1>1, <1>3, <1>4, <2>1
<1>6. upto = G(upto)
  BY <1>5
<1>7. Totals(s) = upto
  BY DEF Totals, N
<1> HIDE DEF upto
<1>8. /\ upto[0] = 0
      /\ \A i \in 1 .. N : upto[i] = upto[i - 1] + s[i]
      /\ upto = [i \in 0 .. N |-> upto[i]]
  <2>1. upto[0] = 0
    <3>1. 0 \in 0 .. N
      BY <1>1
    <3>2. QED
      BY <1>6, <3>1
  <2>2. ASSUME NEW i \in 1 .. N PROVE upto[i] = upto[i - 1] + s[i]
    <3>1. i \in 0 .. N /\ i # 0
      BY <1>1
    <3>2. QED
      BY <1>6, <3>1
  <2>3. upto = [i \in 0 .. N |-> upto[i]]
    BY <1>6
  <2>4. QED
    BY <2>1, <2>2, <2>3
<1>9. \A i \in 0 .. N : upto[i] \in Nat
  <2> DEFINE D == {i \in Nat : i <= N => upto[i] \in Nat}
  <2>1. 0 \in D
    BY <1>8
  <2>2. ASSUME NEW i \in Nat, i \in D PROVE i + 1 \in D
    <3> SUFFICES ASSUME i + 1 <= N PROVE upto[i + 1] \in Nat
      OBVIOUS
    <3>1. i + 1 \in 1 .. N /\ (i + 1) - 1 = i /\ upto[i] \in Nat
      BY <1>1, <2>2
    <3>2. upto[i + 1] = upto[i] + s[i + 1] /\ s[i + 1] \in Nat
      BY <1>1, <1>8, <3>1
    <3>3. QED
      BY <3>1, <3>2
  <2> HIDE DEF D
  <2>3. Nat \subseteq D
    BY <2>1, <2>2, NatSetInduction
  <2>4. QED
    BY <1>1, <2>3 DEF D
<1>10. QED
  BY <1>7, <1>8, <1>9 DEF SumsUp, N

\* Sums only grow.
LEMMA TotalsGrow ==
    ASSUME NEW s \in Seq(Nat), NEW i \in 0 .. Len(s), NEW j \in 0 .. Len(s), i <= j
    PROVE  Totals(s)[i] <= Totals(s)[j]
<1> DEFINE t == Totals(s)
<1>1. SumsUp(s, t)
  BY TotalsUnfold
<1> HIDE DEF t
<1> DEFINE D == {k \in Nat : i + k <= Len(s) => t[i] <= t[i + k]}
<1>2. Len(s) \in Nat /\ \A k \in 0 .. Len(s) : t[k] \in Nat
  <2>1. t \in [0 .. Len(s) -> Nat]
    BY <1>1 DEF SumsUp
  <2>2. QED
    BY <2>1
<1>3. 0 \in D
  BY <1>2
<1>4. ASSUME NEW k \in Nat, k \in D PROVE k + 1 \in D
  <2> SUFFICES ASSUME i + (k + 1) <= Len(s) PROVE t[i] <= t[i + (k + 1)]
    OBVIOUS
  <2>1. /\ i + (k + 1) \in 1 .. Len(s) /\ (i + (k + 1)) - 1 = i + k /\ i + k \in 0 .. Len(s)
        /\ i + k <= Len(s)
    BY <1>2
  <2>2. t[i + (k + 1)] = t[i + k] + s[i + (k + 1)] /\ s[i + (k + 1)] \in Nat
    BY <1>1, <2>1 DEF SumsUp
  <2>3. t[i] <= t[i + k]
    BY <1>4, <2>1
  <2>4. QED
    BY <1>2, <2>1, <2>2, <2>3, SMTT(40)
<1> HIDE DEF D
<1>5. Nat \subseteq D
  BY <1>3, <1>4, NatSetInduction
<1>6. j - i \in D
  BY <1>2, <1>5
<1>7. QED
  BY <1>2, <1>6 DEF D, t

\* The first sums of sequences that begin alike.
LEMMA TotalsAgree ==
    ASSUME NEW s \in Seq(Nat), NEW r \in Seq(Nat), NEW n \in 0 .. Len(s), n <= Len(r),
           \A i \in 1 .. n : s[i] = r[i]
    PROVE  \A i \in 0 .. n : Totals(s)[i] = Totals(r)[i]
<1> DEFINE t == Totals(s)
           u == Totals(r)
<1>1. SumsUp(s, t) /\ SumsUp(r, u) /\ Len(s) \in Nat /\ Len(r) \in Nat
  BY TotalsUnfold
<1> HIDE DEF t, u
<1> DEFINE D == {i \in Nat : i <= n => t[i] = u[i]}
<1>2. 0 \in D
  BY <1>1 DEF SumsUp
<1>3. ASSUME NEW i \in Nat, i \in D PROVE i + 1 \in D
  <2> SUFFICES ASSUME i + 1 <= n PROVE t[i + 1] = u[i + 1]
    OBVIOUS
  <2>1. /\ i + 1 \in 1 .. Len(s) /\ i + 1 \in 1 .. Len(r) /\ i + 1 \in 1 .. n
        /\ (i + 1) - 1 = i /\ i <= n
    BY <1>1
  <2>2. t[i + 1] = t[i] + s[i + 1] /\ u[i + 1] = u[i] + r[i + 1]
    BY <1>1, <2>1 DEF SumsUp
  <2>3. QED
    BY <1>3, <2>1, <2>2
<1> HIDE DEF D
<1>4. Nat \subseteq D
  BY <1>2, <1>3, NatSetInduction
<1>5. QED
  BY <1>1, <1>4 DEF D, t, u

\* Every position up to the sum is in one of the summands.
LEMMA TotalsLocate ==
    ASSUME NEW s \in Seq(Nat), NEW p \in 1 .. Totals(s)[Len(s)]
    PROVE  \E i \in 1 .. Len(s) : \E k \in 1 .. s[i] : p = Totals(s)[i - 1] + k
<1> DEFINE t == Totals(s)
<1>1. SumsUp(s, t) /\ Len(s) \in Nat /\ p \in 1 .. t[Len(s)]
  BY TotalsUnfold
<1> HIDE DEF t
<1> DEFINE Found == \E i \in 1 .. Len(s) : \E k \in 1 .. s[i] : p = t[i - 1] + k
           D == {n \in Nat : (n <= Len(s) /\ p <= t[n]) => Found}
<1>2. \A n \in 0 .. Len(s) : t[n] \in Nat
  BY <1>1 DEF SumsUp
<1>3. 0 \in D
  <2>1. t[0] = 0
    BY <1>1 DEF SumsUp
  <2>2. QED
    BY <1>1, <1>2, <2>1
<1>4. ASSUME NEW n \in Nat, n \in D PROVE n + 1 \in D
  <2> SUFFICES ASSUME n + 1 <= Len(s), p <= t[n + 1] PROVE Found
    OBVIOUS
  <2>1. n + 1 \in 1 .. Len(s) /\ (n + 1) - 1 = n /\ n \in 0 .. Len(s)
    BY <1>1
  <2>2. t[n + 1] = t[n] + s[n + 1] /\ s[n + 1] \in Nat /\ t[n] \in Nat
    BY <1>1, <1>2, <2>1 DEF SumsUp
  <2>3. CASE p <= t[n]
    BY <1>1, <1>4, <2>3
  <2>4. CASE ~(p <= t[n])
    <3>1. p \in Nat
      BY <1>1, <1>2
    <3>2. p - t[n] \in 1 .. s[n + 1] /\ p = t[n] + (p - t[n])
      BY <2>2, <2>4, <3>1
    <3>3. QED
      BY <2>1, <3>2
  <2>5. QED
    BY <2>3, <2>4
<1> HIDE DEF D, Found
<1>5. Nat \subseteq D
  BY <1>3, <1>4, NatSetInduction
<1>6. QED
  BY <1>1, <1>2, <1>5 DEF D, Found, t

-----------------------------------------------------------------------------
(* Concatenation *)

\* Where the parts of ss are in q.
Parts(q, ss, t) ==
    /\ Len(q) = t[Len(ss)]
    /\ \A i \in 1 .. Len(ss) : \A k \in 1 .. Len(ss[i]) : q[t[i - 1] + k] = ss[i][k]

\* Where the elements of a concatenation come from.
LEMMA ConcatParts ==
    ASSUME NEW S, NEW q \in Seq(S), NEW r \in Seq(S)
    PROVE  /\ q \o r \in Seq(S) /\ Len(q \o r) = Len(q) + Len(r)
           /\ \A i \in 1 .. Len(q) : (q \o r)[i] = q[i]
           /\ \A k \in 1 .. Len(r) : (q \o r)[Len(q) + k] = r[k]
OBVIOUS

\* Sequences with the same elements are the same.
LEMMA SeqEqual ==
    ASSUME NEW S, NEW p \in Seq(S), NEW q \in Seq(S), Len(p) = Len(q),
           \A i \in 1 .. Len(p) : p[i] = q[i]
    PROVE  p = q
OBVIOUS

\* A sequence of one element.
LEMMA Singleton ==
    ASSUME NEW S, NEW x \in S
    PROVE  <<x>> \in Seq(S) /\ Len(<<x>>) = 1 /\ <<x>>[1] = x
OBVIOUS

\* Two singletons.
LEMMA Concat2 ==
    ASSUME NEW y, NEW z
    PROVE  <<y>> \o <<z>> = <<y, z>>
<1> DEFINE S == {y, z}
           a == <<y>>
           b == <<z>>
           c == <<y, z>>
<1>1. /\ a \in Seq(S) /\ b \in Seq(S) /\ c \in Seq(S) /\ Len(a) = 1 /\ Len(b) = 1 /\ Len(c) = 2
      /\ a[1] = y /\ b[1] = z /\ c[1] = y /\ c[2] = z
  OBVIOUS
<1> HIDE DEF a, b, c, S
<1>2. /\ a \o b \in Seq(S) /\ Len(a \o b) = Len(a) + Len(b)
      /\ \A i \in 1 .. Len(a) : (a \o b)[i] = a[i]
      /\ \A k \in 1 .. Len(b) : (a \o b)[Len(a) + k] = b[k]
  <2>1. a \in Seq(S) /\ b \in Seq(S)
    BY <1>1
  <2>2. QED
    BY <2>1, ConcatParts
<1> DEFINE d == a \o b
<1> HIDE DEF d
<1>3. d \in Seq(S) /\ Len(d) = 2 /\ d[1] = y /\ d[2] = z
  <2>1. 1 \in 1 .. Len(a) /\ 1 \in 1 .. Len(b) /\ Len(a) + 1 = 2 /\ Len(a) + Len(b) = 2
    BY <1>1
  <2>2. d \in Seq(S) /\ Len(d) = Len(a) + Len(b) /\ d[1] = a[1] /\ d[Len(a) + 1] = b[1]
    BY <1>2, <2>1 DEF d
  <2>3. QED
    BY <1>1, <2>1, <2>2
<1>4. \A i \in 1 .. Len(d) : d[i] = c[i]
  BY <1>1, <1>3
<1>5. d = c
  BY <1>1, <1>3, <1>4, SeqEqual
<1>6. QED
  BY <1>5 DEF a, b, c, d

\* Three singletons.
LEMMA Concat3 ==
    ASSUME NEW x, NEW y, NEW z
    PROVE  <<x>> \o <<y>> \o <<z>> = <<x, y, z>>
<1> DEFINE S == {x, y, z}
           a == <<x, y>>
           b == <<z>>
           c == <<x, y, z>>
<1>1. /\ a \in Seq(S) /\ b \in Seq(S) /\ c \in Seq(S) /\ Len(a) = 2 /\ Len(b) = 1 /\ Len(c) = 3
      /\ a[1] = x /\ a[2] = y /\ b[1] = z /\ c[1] = x /\ c[2] = y /\ c[3] = z
  OBVIOUS
<1> HIDE DEF a, b, c, S
<1>2. /\ a \o b \in Seq(S) /\ Len(a \o b) = Len(a) + Len(b)
      /\ \A i \in 1 .. Len(a) : (a \o b)[i] = a[i]
      /\ \A k \in 1 .. Len(b) : (a \o b)[Len(a) + k] = b[k]
  <2>1. a \in Seq(S) /\ b \in Seq(S)
    BY <1>1
  <2>2. QED
    BY <2>1, ConcatParts
<1> DEFINE d == a \o b
<1> HIDE DEF d
<1>3. d \in Seq(S) /\ Len(d) = 3 /\ d[1] = x /\ d[2] = y /\ d[3] = z
  <2>1. /\ 1 \in 1 .. Len(a) /\ 2 \in 1 .. Len(a) /\ 1 \in 1 .. Len(b) /\ Len(a) + 1 = 3
        /\ Len(a) + Len(b) = 3
    BY <1>1
  <2>2. /\ d \in Seq(S) /\ Len(d) = Len(a) + Len(b)
        /\ d[1] = a[1] /\ d[2] = a[2] /\ d[Len(a) + 1] = b[1]
    BY <1>2, <2>1 DEF d
  <2>3. QED
    BY <1>1, <2>1, <2>2
<1>4. \A i \in 1 .. Len(d) : d[i] = c[i]
  BY <1>1, <1>3
<1>5. d = c
  BY <1>1, <1>3, <1>4, SeqEqual
<1>6. <<x>> \o <<y>> = <<x, y>>
  BY Concat2
<1>7. QED
  BY <1>5, <1>6 DEF a, b, c, d

\* A position inside a part that is inside the whole.
LEMMA Within ==
    ASSUME NEW a \in Nat, NEW b \in Nat, NEW c \in Nat, a + b <= c, NEW k \in 1 .. b
    PROVE  a + k \in 1 .. c
OBVIOUS

\* A flattened sequence consists of its parts, at the sums of their lengths.
LEMMA FlattenParts ==
    ASSUME NEW S, NEW ss \in Seq(Seq(S)), NEW s \in Seq(Nat), Len(s) = Len(ss),
           \A i \in 1 .. Len(ss) : s[i] = Len(ss[i])
    PROVE  FlattenSeq(ss) \in Seq(S) /\ Parts(FlattenSeq(ss), ss, Totals(s))
<1> DEFINE N == Len(ss)
           t == Totals(s)
<1>1. N \in Nat /\ SumsUp(s, t) /\ Len(s) = N /\ \A i \in 1 .. N : ss[i] \in Seq(S) /\ s[i] = Len(ss[i])
  BY TotalsUnfold
<1> HIDE DEF t
<1>2. CASE N = 0
  <2>1. FlattenSeq(ss) = ss /\ ss = <<>>
    BY <1>2 DEF FlattenSeq
  <2>2. QED
    BY <1>1, <1>2, <2>1 DEF Parts, SumsUp, t
<1>3. CASE N # 0
  <2> DEFINE G(f) == [i \in 1 .. N |-> IF i = 1 THEN ss[i] ELSE f[i - 1] \o ss[i]]
             flatten == CHOOSE f : f = G(f)
             step == [p \in Nat \X Seq(S) |-> IF p[1] \in 1 .. N - 1 THEN p[2] \o ss[p[1] + 1] ELSE <<>>]
             first == ss[1]
  <2>1. FlattenSeq(ss) = flatten[N]
    BY <1>3 DEF FlattenSeq
  <2>2. first \in Seq(S) /\ N - 1 \in Nat
    BY <1>1, <1>3
  <2> HIDE DEF N
  <2>3. /\ step \in [Nat \X Seq(S) -> Seq(S)]
        /\ \A i \in 1 .. N - 1, a \in Seq(S) : step[<<i, a>>] = a \o ss[i + 1]
    <3>1. ASSUME NEW i \in 1 .. N - 1, NEW a \in Seq(S)
          PROVE  a \o ss[i + 1] \in Seq(S) /\ i \in Nat
      BY <1>1, ConcatParts
    <3>2. <<>> \in Seq(S)
      OBVIOUS
    <3>3. QED
      BY <3>1, <3>2
  <2>4. PICK h \in [0 .. N - 1 -> Seq(S)] : Recurses(h, N - 1, first, step)
    <3> HIDE DEF first, step
    <3> QED BY <2>2, <2>3, RecursionExists
  <2>5. h[0] = ss[1] /\ \A i \in 1 .. N - 1 : h[i] = h[i - 1] \o ss[i + 1]
    <3>1. h[0] = ss[1]
      BY <2>4 DEF Recurses
    <3>2. ASSUME NEW i \in 1 .. N - 1 PROVE h[i] = h[i - 1] \o ss[i + 1]
      <4>1. i - 1 \in 0 .. N - 1
        BY <1>1
      <4>2. h[i - 1] \in Seq(S) /\ h[i] = step[<<i, h[i - 1]>>]
        BY <2>4, <4>1 DEF Recurses
      <4> HIDE DEF step
      <4>3. QED
        BY <2>3, <4>2
    <3>3. QED
      BY <3>1, <3>2
  <2> DEFINE f == [i \in 1 .. N |-> h[i - 1]]
  <2>6. f = G(f)
    <3>1. ASSUME NEW i \in 1 .. N PROVE f[i] = IF i = 1 THEN ss[i] ELSE f[i - 1] \o ss[i]
      <4>1. CASE i = 1
        BY <2>5, <4>1
      <4>2. CASE i # 1
        <5>1. i - 1 \in 1 .. N - 1 /\ (i - 1) + 1 = i /\ i - 1 \in 1 .. N
          BY <1>1, <4>2
        <5>2. f[i] = h[i - 1] /\ f[i - 1] = h[(i - 1) - 1]
          BY <5>1
        <5>3. h[i - 1] = h[(i - 1) - 1] \o ss[i]
          BY <2>5, <5>1
        <5>4. QED
          BY <4>2, <5>2, <5>3
      <4>3. QED
        BY <4>1, <4>2
    <3> HIDE DEF f
    <3>2. f = [i \in 1 .. N |-> f[i]]
      BY DEF f
    <3>3. QED
      BY <3>1, <3>2
  <2> HIDE DEF f
  <2>7. flatten = G(flatten)
    BY <2>6
  <2> HIDE DEF flatten
  <2>8. \A i \in 1 .. N : flatten[i] = IF i = 1 THEN ss[i] ELSE flatten[i - 1] \o ss[i]
    BY <2>7
  <2> DEFINE Right(i) == /\ flatten[i] \in Seq(S) /\ Len(flatten[i]) = t[i]
                         /\ \A j \in 1 .. i : \A k \in 1 .. Len(ss[j]) : flatten[i][t[j - 1] + k] = ss[j][k]
             D == {i \in Nat : i + 1 <= N => Right(i + 1)}
  <2>9. 0 \in D
    <3>1. flatten[1] = ss[1] /\ ss[1] \in Seq(S) /\ s[1] = Len(ss[1]) /\ 1 \in 1 .. N
      BY <1>1, <1>3, <2>8
    <3>2. t[1] = s[1] /\ t[0] = 0
      BY <1>1, <3>1 DEF SumsUp
    <3>3. Right(1)
      BY <3>1, <3>2
    <3> HIDE DEF Right
    <3>4. QED
      BY <3>3
  <2>10. ASSUME NEW i \in Nat, i \in D PROVE i + 1 \in D
    <3> SUFFICES ASSUME (i + 1) + 1 <= N PROVE Right((i + 1) + 1)
      OBVIOUS
    <3> DEFINE m == i + 1
               n == (i + 1) + 1
    <3>1. /\ n \in 1 .. N /\ n # 1 /\ n - 1 = m /\ m \in 1 .. N /\ m <= N /\ m \in Nat
          /\ n = m + 1
      BY <1>1
    <3>2. Right(m)
      <4> HIDE DEF Right
      <4> QED BY <2>10, <3>1
    <3> HIDE DEF m, n
    <3>3. flatten[n] = flatten[m] \o ss[n] /\ ss[n] \in Seq(S) /\ s[n] = Len(ss[n])
      BY <1>1, <2>8, <3>1
    <3>4. t[n] = t[m] + s[n]
      BY <1>1, <3>1 DEF SumsUp
    <3>5. /\ flatten[n] \in Seq(S) /\ Len(flatten[n]) = Len(flatten[m]) + Len(ss[n])
          /\ \A k \in 1 .. Len(flatten[m]) : flatten[n][k] = flatten[m][k]
          /\ \A k \in 1 .. Len(ss[n]) : flatten[n][Len(flatten[m]) + k] = ss[n][k]
      <4> DEFINE a == flatten[m]
                 b == ss[n]
      <4>1. a \in Seq(S) /\ b \in Seq(S)
        BY <3>2, <3>3
      <4> HIDE DEF a, b
      <4>2. flatten[n] = a \o b
        BY <3>3 DEF a, b
      <4>3. /\ a \o b \in Seq(S) /\ Len(a \o b) = Len(a) + Len(b)
            /\ \A k \in 1 .. Len(a) : (a \o b)[k] = a[k]
            /\ \A k \in 1 .. Len(b) : (a \o b)[Len(a) + k] = b[k]
        BY <4>1, ConcatParts
      <4>4. QED
        BY <4>2, <4>3 DEF a, b
    <3>6. ASSUME NEW j \in 1 .. n, NEW k \in 1 .. Len(ss[j]) PROVE flatten[n][t[j - 1] + k] = ss[j][k]
      <4>1. CASE j = n
        BY <3>1, <3>2, <3>5, <4>1
      <4>2. CASE j # n
        <5>1. j \in 1 .. m /\ j \in 1 .. N /\ j - 1 \in 0 .. N
          BY <1>1, <3>1, <4>2, SMTT(40)
        <5>2. t[j] = t[j - 1] + s[j] /\ s[j] = Len(ss[j]) /\ t[j - 1] \in Nat /\ s[j] \in Nat
          <6>1. t \in [0 .. N -> Nat] /\ t[j] = t[j - 1] + s[j]
            BY <1>1, <5>1 DEF SumsUp
          <6>2. QED
            BY <1>1, <5>1, <6>1, SMTT(40)
        <5>3. t[j] <= t[m]
          <6>1. j \in 0 .. Len(s) /\ m \in 0 .. Len(s) /\ j <= m
            BY <1>1, <3>1, <5>1
          <6>2. QED
            BY <6>1, TotalsGrow DEF t
        <5>4. t[m] \in Nat
          <6>1. t \in [0 .. N -> Nat]
            BY <1>1 DEF SumsUp
          <6>3. m \in 0 .. N
            BY <1>1, <3>1
          <6>2. QED
            BY <6>1, <6>3
        <5>5. t[j - 1] + k \in 1 .. Len(flatten[m])
          <6>1. Len(flatten[m]) = t[m]
            BY <3>2
          <6>3. k \in 1 .. s[j]
            BY <5>2
          <6>4. t[j - 1] + s[j] <= t[m]
            BY <5>2, <5>3
          <6>5. t[j - 1] + k \in 1 .. t[m]
            BY <5>2, <5>4, <6>3, <6>4, Within
          <6>2. QED
            BY <6>1, <6>5
        <5>6. flatten[m][t[j - 1] + k] = ss[j][k]
          BY <3>2, <5>1
        <5>7. QED
          BY <3>5, <5>5, <5>6
      <4>3. QED
        BY <4>1, <4>2
    <3>7. Right(n)
      BY <3>2, <3>3, <3>4, <3>5, <3>6
    <3>8. QED
      BY <3>7 DEF n
  <2> HIDE DEF D
  <2>11. Nat \subseteq D
    BY <2>9, <2>10, NatSetInduction
  <2>12. Right(N)
    <3>1. N - 1 \in Nat /\ (N - 1) + 1 = N /\ N <= N
      BY <1>1, <2>2
    <3> HIDE DEF Right
    <3>2. N - 1 \in D
      BY <2>11, <3>1
    <3>3. QED
      BY <3>1, <3>2 DEF D
  <2>13. QED
    BY <2>1, <2>12 DEF Parts, N, t
<1>4. QED
  BY <1>2, <1>3

-----------------------------------------------------------------------------
(* The leaves of a value. *)

Step == [off : Int, deref : BOOLEAN]
LeafOf(R) == [reg : R, steps : Seq(Step), nilCheck : BOOLEAN]

\* The numbers that a plan adds up, field by field.
WordSeq(t) == [j \in 1 .. Len(t.fields) |-> Words(t.fields[j])]
MemSeq(t) == [j \in 1 .. Len(t.fields) |-> ExtraInMemory(t.fields[j])]
RegSeq(t) == [j \in 1 .. Len(t.fields) |-> ExtraInRegisters(t.fields[j])]

\* What a field counts, by its kind.
LEMMA FieldFacts ==
    ASSUME NEW field \in Field
    PROVE  /\ field.kind \in Kinds /\ field.at \in Seq(Nat)
           /\ Words(field) \in 0 .. 3
           /\ ExtraInMemory(field) \in 0 .. 3 /\ ExtraInRegisters(field) \in 0 .. 1
           /\ field.kind \in Interface => Words(field) = 2
<1>1. field.kind \in Kinds /\ field.at \in Seq(Nat)
  BY DEF Field
<1>2. QED
  BY <1>1 DEF Kinds, Words, ExtraInMemory, ExtraInRegisters, Interface

\* The components of a type.
LEMMA TypeFacts ==
    ASSUME NEW t \in Type
    PROVE  /\ t.fields \in Seq(Field) /\ Len(t.fields) \in Nat
           /\ \A i \in 1 .. Len(t.fields) : t.fields[i] \in Field
           /\ t.form \in {"plain", "struct", "pointer"}
<1>1. t.fields \in Seq(Field) /\ t.form \in {"plain", "struct", "pointer"}
  BY DEF Type
<1>2. QED
  BY <1>1

\* The numbers that planValue adds up are naturals, one for each field.
LEMMA SeqFacts ==
    ASSUME NEW t \in Type
    PROVE  /\ WordSeq(t) \in Seq(Nat) /\ Len(WordSeq(t)) = Len(t.fields)
           /\ MemSeq(t) \in Seq(Nat) /\ Len(MemSeq(t)) = Len(t.fields)
           /\ RegSeq(t) \in Seq(Nat) /\ Len(RegSeq(t)) = Len(t.fields)
           /\ \A i \in 1 .. Len(t.fields) :
                 /\ WordSeq(t)[i] = Words(t.fields[i])
                 /\ MemSeq(t)[i] = ExtraInMemory(t.fields[i])
                 /\ RegSeq(t)[i] = ExtraInRegisters(t.fields[i])
<1>1. \A i \in 1 .. Len(t.fields) :
         /\ Words(t.fields[i]) \in Nat
         /\ ExtraInMemory(t.fields[i]) \in Nat
         /\ ExtraInRegisters(t.fields[i]) \in Nat
  <2> TAKE i \in 1 .. Len(t.fields)
  <2>1. t.fields[i] \in Field
    BY TypeFacts
  <2>2. /\ Words(t.fields[i]) \in 0 .. 3
        /\ ExtraInMemory(t.fields[i]) \in 0 .. 3 /\ ExtraInRegisters(t.fields[i]) \in 0 .. 1
    BY <2>1, FieldFacts
  <2>3. QED
    BY <2>2
<1>2. Len(t.fields) \in Nat
  BY TypeFacts
<1>3. QED
  BY <1>1, <1>2 DEF WordSeq, MemSeq, RegSeq

\* What planValue counts, as sums.
LEMMA CountFacts ==
    ASSUME NEW t \in Type
    PROVE  /\ AbiWordCount(t) \in Nat /\ Extras(t) \in Nat
           /\ WordCount(t) \in Nat /\ Captures(t) \in Nat
           /\ AbiWordCount(t) > 0 =>
                /\ AbiWordCount(t) = Totals(WordSeq(t))[Len(t.fields)]
                /\ \A i \in 1 .. Len(t.fields) : Words(t.fields[i]) \in 1 .. 3
           /\ Behind(t) => WordCount(t) = 1 /\ Captures(t) = 1 + Totals(MemSeq(t))[Len(t.fields)]
           /\ ~Behind(t) => WordCount(t) = AbiWordCount(t)
                            /\ Captures(t) = Totals(RegSeq(t))[Len(t.fields)]
           /\ \A i \in 1 .. Len(t.fields) + 1 : Before(t, i) = Totals(WordSeq(t))[i - 1]
<1>1. /\ SumsUp(WordSeq(t), Totals(WordSeq(t))) /\ SumsUp(MemSeq(t), Totals(MemSeq(t)))
      /\ SumsUp(RegSeq(t), Totals(RegSeq(t)))
  BY SeqFacts, TotalsUnfold
<1>2. /\ Totals(WordSeq(t))[Len(t.fields)] \in Nat /\ Totals(MemSeq(t))[Len(t.fields)] \in Nat
      /\ Totals(RegSeq(t))[Len(t.fields)] \in Nat
  <2>1. Len(t.fields) \in 0 .. Len(t.fields)
    BY TypeFacts
  <2>2. QED
    BY <1>1, <2>1, SeqFacts DEF SumsUp
<1>3. /\ SumOver(Words, t.fields) = Totals(WordSeq(t))[Len(t.fields)]
      /\ SumOver(ExtraInMemory, t.fields) = Totals(MemSeq(t))[Len(t.fields)]
      /\ SumOver(ExtraInRegisters, t.fields) = Totals(RegSeq(t))[Len(t.fields)]
  BY DEF SumOver, WordSeq, MemSeq, RegSeq
<1>4. AbiWordCount(t) > 0 => \A i \in 1 .. Len(t.fields) : Words(t.fields[i]) \in 1 .. 3
  <2> SUFFICES ASSUME AbiWordCount(t) > 0, NEW i \in 1 .. Len(t.fields)
               PROVE  Words(t.fields[i]) \in 1 .. 3
    OBVIOUS
  <2>1. Words(t.fields[i]) \in 0 .. 3
    BY FieldFacts, TypeFacts
  <2>2. Words(t.fields[i]) # 0
    <3> SUFFICES ASSUME Words(t.fields[i]) = 0 PROVE FALSE
      OBVIOUS
    <3>1. \E j \in 1 .. Len(t.fields) : Words(t.fields[j]) = 0
      OBVIOUS
    <3>2. AbiWordCount(t) = 0
      BY <3>1, Zenon DEF AbiWordCount
    <3>3. QED
      BY <3>2
  <2>3. QED
    BY <2>1, <2>2
<1>5. AbiWordCount(t) \in {0, Totals(WordSeq(t))[Len(t.fields)]}
  BY <1>3 DEF AbiWordCount
<1>6. QED
  BY <1>2, <1>3, <1>4, <1>5 DEF Extras, WordCount, Captures, Before, WordSeq

\* The structs around a field become steps that add.
LEMMA AddFacts ==
    ASSUME NEW o \in Nat
    PROVE  Add(o) \in Seq(Step) /\ Len(Add(o)) \in 0 .. 1
<1>1. [off |-> o, deref |-> FALSE] \in Step
  BY DEF Step
<1>2. QED
  BY <1>1 DEF Add

Adds(field) == [i \in 1 .. Len(field.at) |-> Add(field.at[i])]
AddLens(field) == [i \in 1 .. Len(field.at) |-> Len(Add(field.at[i]))]

\* The steps that memLoc.add makes of the structs around a field.
LEMMA AddAllFacts ==
    ASSUME NEW field \in Field
    PROVE  /\ AddAll(field) \in Seq(Step) /\ AddLens(field) \in Seq(Nat)
           /\ Len(AddLens(field)) = Len(field.at)
           /\ Parts(AddAll(field), Adds(field), Totals(AddLens(field)))
<1>1. field.at \in Seq(Nat) /\ Len(field.at) \in Nat /\ \A i \in 1 .. Len(field.at) : field.at[i] \in Nat
  BY FieldFacts
<1>2. Adds(field) \in Seq(Seq(Step)) /\ Len(Adds(field)) = Len(field.at)
  <2>1. \A i \in 1 .. Len(field.at) : Add(field.at[i]) \in Seq(Step)
    BY <1>1, AddFacts
  <2>2. QED
    BY <1>1, <2>1 DEF Adds
<1>3. AddLens(field) \in Seq(Nat) /\ Len(AddLens(field)) = Len(field.at)
  <2>1. \A i \in 1 .. Len(field.at) : Len(Add(field.at[i])) \in Nat
    BY <1>1, AddFacts
  <2>2. QED
    BY <1>1, <2>1 DEF AddLens
<1>4. \A i \in 1 .. Len(Adds(field)) : AddLens(field)[i] = Len(Adds(field)[i])
  BY <1>2 DEF Adds, AddLens
<1>5. AddAll(field) = FlattenSeq(Adds(field))
  BY DEF AddAll, Adds
<1>6. QED
  BY <1>2, <1>3, <1>4, <1>5, FlattenParts

\* locSpec makes a leaf with at least one step.
LEMMA LocSpecFacts ==
    ASSUME NEW R, NEW reg \in R, NEW steps \in Seq(Step), NEW nilCheck \in BOOLEAN
    PROVE  /\ LocSpec(reg, steps, nilCheck) \in LeafOf(R)
           /\ RegLeaf(reg) \in LeafOf(R)
           /\ Len(LocSpec(reg, steps, nilCheck).steps) > 0
<1>1. [off |-> 0, deref |-> FALSE] \in Step
  BY DEF Step
<1>2. (IF steps = <<>> THEN <<[off |-> 0, deref |-> FALSE]>> ELSE steps) \in Seq(Step) \ {<<>>}
  BY <1>1
<1>3. <<>> \in Seq(Step)
  OBVIOUS
<1>4. LocSpec(reg, steps, nilCheck) \in LeafOf(R) /\ RegLeaf(reg) \in LeafOf(R)
  BY <1>2, <1>3 DEF LocSpec, RegLeaf, LeafOf
<1>5. LocSpec(reg, steps, nilCheck).steps \in Seq(Step) \ {<<>>}
  BY <1>2 DEF LocSpec
<1>6. QED
  BY <1>4, <1>5

\* The steps behind a field are sequences of steps.
LEMMA StepSeqs ==
    /\ Deref(0) \in Seq(Step) /\ Deref(8) \in Seq(Step) /\ Add(8) \in Seq(Step)
    /\ Deref(0) \o Add(8) \in Seq(Step)
    /\ Len(Deref(0)) = 1 /\ Len(Deref(8)) = 1 /\ Len(Add(8)) = 1 /\ Len(Deref(0) \o Add(8)) = 2
<1>1. [off |-> 0, deref |-> TRUE] \in Step /\ [off |-> 8, deref |-> TRUE] \in Step
      /\ [off |-> 8, deref |-> FALSE] \in Step
  BY DEF Step
<1>2. QED
  BY <1>1 DEF Deref, Add

\* emitABI makes as many leaves of a field as it has words.
LEMMA WordLeavesFacts ==
    ASSUME NEW field \in Field, NEW w \in Nat, NEW R, \A k \in 1 .. Words(field) : abiRegs[w + k] \in R
    PROVE  WordLeaves(field, w) \in Seq(LeafOf(R)) /\ Len(WordLeaves(field, w)) = Words(field)
<1>1. Words(field) \in Nat
  BY FieldFacts
<1>2. ASSUME NEW k \in 1 .. Words(field)
      PROVE  (IF field.kind = "iface" /\ k = 1 THEN LocSpec(abiRegs[w + 1], Add(8), TRUE)
                                               ELSE RegLeaf(abiRegs[w + k])) \in LeafOf(R)
  <2>1. abiRegs[w + k] \in R /\ <<>> \in Seq(Step)
    OBVIOUS
  <2>2. RegLeaf(abiRegs[w + k]) \in LeafOf(R)
    BY <2>1, LocSpecFacts
  <2>3. k = 1 => LocSpec(abiRegs[w + 1], Add(8), TRUE) \in LeafOf(R)
    BY <2>1, LocSpecFacts, StepSeqs
  <2>4. QED
    BY <2>2, <2>3
<1> DEFINE leaf(k) == IF field.kind = "iface" /\ k = 1 THEN LocSpec(abiRegs[w + 1], Add(8), TRUE)
                                                      ELSE RegLeaf(abiRegs[w + k])
<1>3. WordLeaves(field, w) = [k \in 1 .. Words(field) |-> leaf(k)]
  BY DEF WordLeaves
<1>4. \A k \in 1 .. Words(field) : leaf(k) \in LeafOf(R)
  BY <1>2
<1> HIDE DEF leaf
<1>5. QED
  BY <1>1, <1>3, <1>4

\* emitRegCaptures makes as many leaves of a field as extraCaptures counts.
LEMMA RegCapturesFacts ==
    ASSUME NEW field \in Field, NEW w \in Nat, NEW R, \A k \in 1 .. Words(field) : abiRegs[w + k] \in R
    PROVE  /\ RegCaptures(field, w) \in Seq(LeafOf(R))
           /\ Len(RegCaptures(field, w)) = ExtraInRegisters(field)
<1>1. field.kind \in Kinds
  BY FieldFacts
<1>2. field.kind \in {"string", "slice"} => abiRegs[w + 1] \in R
  BY DEF Words, Interface
<1>3. field.kind \in Interface => abiRegs[w + 2] \in R
  BY DEF Words, Interface
<1>4. <<>> \in Seq(Step)
  OBVIOUS
<1>5. /\ field.kind \in {"string", "slice"} =>
           LocSpec(abiRegs[w + 1], <<>>, FALSE) \in LeafOf(R) /\ LocSpec(abiRegs[w + 1], <<>>, TRUE) \in LeafOf(R)
      /\ field.kind \in Interface => LocSpec(abiRegs[w + 2], <<>>, TRUE) \in LeafOf(R)
  BY <1>2, <1>3, <1>4, LocSpecFacts
<1>6. CASE field.kind = "string"
  <2>1. RegCaptures(field, w) = <<LocSpec(abiRegs[w + 1], <<>>, FALSE)>> /\ ExtraInRegisters(field) = 1
    BY <1>6 DEF RegCaptures, ExtraInRegisters, Interface
  <2>2. QED
    BY <1>5, <1>6, <2>1, Singleton
<1>7. CASE field.kind = "slice"
  <2>1. RegCaptures(field, w) = <<LocSpec(abiRegs[w + 1], <<>>, TRUE)>> /\ ExtraInRegisters(field) = 1
    BY <1>7 DEF RegCaptures, ExtraInRegisters, Interface
  <2>2. QED
    BY <1>5, <1>7, <2>1, Singleton
<1>8. CASE field.kind \in Interface
  <2>1. RegCaptures(field, w) = <<LocSpec(abiRegs[w + 2], <<>>, TRUE)>> /\ ExtraInRegisters(field) = 1
    BY <1>8 DEF RegCaptures, ExtraInRegisters, Interface
  <2>2. QED
    BY <1>5, <1>8, <2>1, Singleton
<1>9. CASE field.kind \notin {"string", "slice"} \cup Interface
  BY <1>9 DEF RegCaptures, ExtraInRegisters, Interface
<1>10. QED
  BY <1>6, <1>7, <1>8, <1>9

\* The four ways on from a field.
MemLeaf(field, reg, rest) == LocSpec(reg, AddAll(field) \o rest, TRUE)

\* A leaf in memory goes through the structs around its field, and then on.
LEMMA MemLeafFacts ==
    ASSUME NEW field \in Field, NEW R, NEW reg \in R, NEW rest \in Seq(Step), Len(rest) > 0
    PROVE  /\ MemLeaf(field, reg, rest) \in LeafOf(R)
           /\ MemLeaf(field, reg, rest).reg = reg
           /\ MemLeaf(field, reg, rest).steps = AddAll(field) \o rest
<1>1. AddAll(field) \in Seq(Step)
  BY AddAllFacts
<1> DEFINE steps == AddAll(field) \o rest
<1>2. steps \in Seq(Step) /\ Len(steps) > 0
  BY <1>1
<1>3. MemLeaf(field, reg, rest) = LocSpec(reg, steps, TRUE)
  BY DEF MemLeaf
<1> HIDE DEF steps
<1>4. steps # <<>>
  BY <1>2
<1>5. LocSpec(reg, steps, TRUE) \in LeafOf(R)
  BY <1>2, LocSpecFacts
<1>6. LocSpec(reg, steps, TRUE).reg = reg /\ LocSpec(reg, steps, TRUE).steps = steps
  BY <1>4 DEF LocSpec
<1>7. QED
  BY <1>3, <1>5, <1>6 DEF steps

\* MemCaptures, kind by kind.
LEMMA MemCapturesAre ==
    ASSUME NEW field \in Field, NEW reg
    PROVE  /\ field.kind \in {"string", "slice"} =>
                MemCaptures(field, reg) = <<MemLeaf(field, reg, Deref(0))>>
           /\ field.kind = "eface" =>
                MemCaptures(field, reg) = <<MemLeaf(field, reg, Add(8)), MemLeaf(field, reg, Deref(8))>>
           /\ field.kind = "iface" =>
                MemCaptures(field, reg) = <<MemLeaf(field, reg, Deref(0) \o Add(8)),
                                            MemLeaf(field, reg, Add(8)), MemLeaf(field, reg, Deref(8))>>
           /\ field.kind \notin {"string", "slice", "eface", "iface"} => MemCaptures(field, reg) = <<>>
<1> DEFINE leaf(rest) == <<MemLeaf(field, reg, rest)>>
<1>1. MemCaptures(field, reg) =
        CASE field.kind \in {"string", "slice"} -> leaf(Deref(0))
          [] field.kind \in Interface ->
               (IF field.kind = "iface" THEN leaf(Deref(0) \o Add(8)) ELSE <<>>)
                 \o leaf(Add(8)) \o leaf(Deref(8))
          [] OTHER -> <<>>
  BY DEF MemCaptures, MemLeaf
<1>0. /\ leaf(Deref(0) \o Add(8)) \o leaf(Add(8)) \o leaf(Deref(8)) =
           <<MemLeaf(field, reg, Deref(0) \o Add(8)), MemLeaf(field, reg, Add(8)), MemLeaf(field, reg, Deref(8))>>
      /\ <<>> \o leaf(Add(8)) \o leaf(Deref(8)) = <<MemLeaf(field, reg, Add(8)), MemLeaf(field, reg, Deref(8))>>
  <2>1. leaf(Add(8)) \in Seq({MemLeaf(field, reg, Add(8))})
    OBVIOUS
  <2> HIDE DEF leaf
  <2>2. <<>> \o leaf(Add(8)) = leaf(Add(8))
    BY <2>1
  <2>3. QED
    BY <2>2, Concat2, Concat3 DEF leaf
<1> HIDE DEF leaf
<1>3. CASE field.kind \in {"string", "slice"}
  BY <1>1, <1>3 DEF Interface, leaf
<1>4. CASE field.kind = "eface"
  BY <1>0, <1>1, <1>4 DEF Interface
<1>5. CASE field.kind = "iface"
  BY <1>0, <1>1, <1>5 DEF Interface
<1>6. CASE field.kind \notin {"string", "slice", "eface", "iface"}
  BY <1>1, <1>6 DEF Interface
<1>7. QED
  BY <1>3, <1>4, <1>5, <1>6

\* emitMemCaptures makes as many leaves of a field as extraCaptures counts.
LEMMA MemCapturesFacts ==
    ASSUME NEW field \in Field, NEW R, NEW reg \in R
    PROVE  /\ MemCaptures(field, reg) \in Seq(LeafOf(R))
           /\ Len(MemCaptures(field, reg)) = ExtraInMemory(field)
<1>1. field.kind \in Kinds
  BY FieldFacts
<1>2. /\ MemLeaf(field, reg, Deref(0)) \in LeafOf(R) /\ MemLeaf(field, reg, Deref(8)) \in LeafOf(R)
      /\ MemLeaf(field, reg, Add(8)) \in LeafOf(R) /\ MemLeaf(field, reg, Deref(0) \o Add(8)) \in LeafOf(R)
  <2>1. \A rest \in Seq(Step) : Len(rest) > 0 => MemLeaf(field, reg, rest) \in LeafOf(R)
    BY MemLeafFacts
  <2> DEFINE d0 == Deref(0)
             d8 == Deref(8)
             a8 == Add(8)
             da == Deref(0) \o Add(8)
  <2>2. /\ d0 \in Seq(Step) /\ d8 \in Seq(Step) /\ a8 \in Seq(Step) /\ da \in Seq(Step)
        /\ Len(d0) > 0 /\ Len(d8) > 0 /\ Len(a8) > 0 /\ Len(da) > 0
    BY StepSeqs
  <2> HIDE DEF d0, d8, a8, da
  <2>3. /\ MemLeaf(field, reg, d0) \in LeafOf(R) /\ MemLeaf(field, reg, d8) \in LeafOf(R)
        /\ MemLeaf(field, reg, a8) \in LeafOf(R) /\ MemLeaf(field, reg, da) \in LeafOf(R)
    BY <2>1, <2>2
  <2>4. QED
    BY <2>3 DEF d0, d8, a8, da
<1> DEFINE a == MemLeaf(field, reg, Deref(0))
           b == MemLeaf(field, reg, Add(8))
           c == MemLeaf(field, reg, Deref(8))
           d == MemLeaf(field, reg, Deref(0) \o Add(8))
<1>0. /\ <<a>> \in Seq(LeafOf(R)) /\ <<b, c>> \in Seq(LeafOf(R)) /\ <<d, b, c>> \in Seq(LeafOf(R))
      /\ Len(<<a>>) = 1 /\ Len(<<b, c>>) = 2 /\ Len(<<d, b, c>>) = 3
  <2>1. a \in LeafOf(R) /\ b \in LeafOf(R) /\ c \in LeafOf(R) /\ d \in LeafOf(R)
    BY <1>2
  <2> HIDE DEF a, b, c, d
  <2> QED BY <2>1
<1>3. CASE field.kind \in {"string", "slice"}
  BY <1>0, <1>3, MemCapturesAre DEF ExtraInMemory
<1>4. CASE field.kind = "eface"
  BY <1>0, <1>4, MemCapturesAre DEF ExtraInMemory, Interface
<1>5. CASE field.kind = "iface"
  BY <1>0, <1>5, MemCapturesAre DEF ExtraInMemory, Interface
<1>6. CASE field.kind \notin {"string", "slice", "eface", "iface"}
  <2>1. MemCaptures(field, reg) = <<>> /\ ExtraInMemory(field) = 0
    BY <1>6, MemCapturesAre DEF ExtraInMemory
  <2>2. QED
    BY <2>1
<1>7. QED
  BY <1>3, <1>4, <1>5, <1>6

\* Element k of part i is inside the whole.
LEMMA PartInside ==
    ASSUME NEW s \in Seq(Nat), NEW i \in 1 .. Len(s), NEW k \in 1 .. s[i]
    PROVE  /\ Totals(s)[i - 1] \in Nat
           /\ Totals(s)[i - 1] + k \in 1 .. Totals(s)[Len(s)]
           /\ Totals(s)[i - 1] + s[i] <= Totals(s)[Len(s)]
<1>1. SumsUp(s, Totals(s))
  BY TotalsUnfold
<1>2. Len(s) \in Nat /\ s[i] \in Nat /\ i - 1 \in 0 .. Len(s) /\ i \in 0 .. Len(s) /\ i <= Len(s)
      /\ Len(s) \in 0 .. Len(s)
  OBVIOUS
<1>3. Totals(s) \in [0 .. Len(s) -> Nat] /\ Totals(s)[i] = Totals(s)[i - 1] + s[i]
  BY <1>1 DEF SumsUp
<1>4. Totals(s)[i] <= Totals(s)[Len(s)]
  BY <1>2, TotalsGrow
<1>5. Totals(s)[i - 1] \in Nat /\ Totals(s)[Len(s)] \in Nat
  BY <1>2, <1>3
<1>6. Totals(s)[i - 1] + s[i] <= Totals(s)[Len(s)]
  BY <1>3, <1>4
<1>7. QED
  BY <1>2, <1>5, <1>6, Within

MemParts(t, w) == [i \in 1 .. Len(t.fields) |-> MemCaptures(t.fields[i], abiRegs[w + 1])]
WordParts(t, w) == [i \in 1 .. Len(t.fields) |-> WordLeaves(t.fields[i], w + Before(t, i))]
RegParts(t, w) == [i \in 1 .. Len(t.fields) |-> RegCaptures(t.fields[i], w + Before(t, i))]

\* The leaves of a value that has n registers after the first w.
Owns(w, n, R) == \A k \in 1 .. n : abiRegs[w + k] \in R

\* The words of a field are among those of its value.
LEMMA OwnsField ==
    ASSUME NEW t \in Type, AbiWordCount(t) > 0, NEW w \in Nat, NEW R, Owns(w, AbiWordCount(t), R),
           NEW i \in 1 .. Len(t.fields)
    PROVE  /\ Before(t, i) \in Nat /\ w + Before(t, i) \in Nat
           /\ Before(t, i) + Words(t.fields[i]) <= AbiWordCount(t)
           /\ Words(t.fields[i]) \in 1 .. 3
           /\ Owns(w + Before(t, i), Words(t.fields[i]), R)
<1> DEFINE s == WordSeq(t)
           N == Len(t.fields)
<1>1. SumsUp(s, Totals(s)) /\ s \in Seq(Nat) /\ Len(s) = N /\ s[i] = Words(t.fields[i]) /\ N \in Nat
  BY SeqFacts, TotalsUnfold, TypeFacts
<1>2. /\ AbiWordCount(t) = Totals(s)[N] /\ Before(t, i) = Totals(s)[i - 1]
      /\ Words(t.fields[i]) \in 1 .. 3
  <2>1. i \in 1 .. N + 1
    BY <1>1
  <2>2. QED
    BY <2>1, CountFacts
<1> HIDE DEF s, N
<1>3. /\ i \in 0 .. Len(s) /\ i - 1 \in 0 .. Len(s) /\ N \in 0 .. Len(s) /\ i <= N /\ i \in 1 .. Len(s)
  BY <1>1 DEF N
<1>4. Totals(s)[i] <= Totals(s)[N]
  BY <1>1, <1>3, TotalsGrow
<1>5. Totals(s)[i - 1] \in Nat /\ Totals(s)[N] \in Nat
  <2>1. Totals(s) \in [0 .. Len(s) -> Nat]
    BY <1>1 DEF SumsUp
  <2>2. QED
    BY <1>3, <2>1
<1>6. Totals(s)[i] = Totals(s)[i - 1] + s[i]
  BY <1>1, <1>3 DEF SumsUp
<1> DEFINE b == Before(t, i)
           n == Words(t.fields[i])
<1>7. b \in Nat /\ n \in 1 .. 3 /\ b + n <= AbiWordCount(t) /\ AbiWordCount(t) \in Nat
  BY <1>1, <1>2, <1>4, <1>5, <1>6
<1> HIDE DEF b, n
<1>8. ASSUME NEW k \in 1 .. n PROVE abiRegs[(w + b) + k] \in R
  <2>1. b + k \in 1 .. AbiWordCount(t) /\ w + (b + k) = (w + b) + k
    BY <1>7
  <2>2. QED
    BY <2>1 DEF Owns
<1>9. QED
  BY <1>7, <1>8 DEF Owns, b, n

\* The parts of a plan have the lengths that planValue adds up.
LEMMA PartsFacts ==
    ASSUME NEW t \in Type, NEW w \in Nat, NEW R, WordCount(t) > 0, Owns(w, WordCount(t), R)
    PROVE  /\ Behind(t) => /\ MemParts(t, w) \in Seq(Seq(LeafOf(R))) /\ Len(MemParts(t, w)) = Len(t.fields)
                           /\ \A i \in 1 .. Len(t.fields) : MemSeq(t)[i] = Len(MemParts(t, w)[i])
           /\ ~Behind(t) =>
                /\ WordParts(t, w) \in Seq(Seq(LeafOf(R))) /\ Len(WordParts(t, w)) = Len(t.fields)
                /\ \A i \in 1 .. Len(t.fields) : WordSeq(t)[i] = Len(WordParts(t, w)[i])
                /\ RegParts(t, w) \in Seq(Seq(LeafOf(R))) /\ Len(RegParts(t, w)) = Len(t.fields)
                /\ \A i \in 1 .. Len(t.fields) : RegSeq(t)[i] = Len(RegParts(t, w)[i])
<1>1. Len(t.fields) \in Nat
  BY TypeFacts
<1>2. ASSUME Behind(t), NEW i \in 1 .. Len(t.fields)
      PROVE  /\ MemCaptures(t.fields[i], abiRegs[w + 1]) \in Seq(LeafOf(R))
             /\ MemSeq(t)[i] = Len(MemCaptures(t.fields[i], abiRegs[w + 1]))
  <2>1. abiRegs[w + 1] \in R
    BY <1>2, CountFacts DEF Owns
  <2>2. t.fields[i] \in Field
    BY TypeFacts
  <2>3. QED
    BY <2>1, <2>2, MemCapturesFacts, SeqFacts
<1>3. ASSUME ~Behind(t), NEW i \in 1 .. Len(t.fields)
      PROVE  /\ WordLeaves(t.fields[i], w + Before(t, i)) \in Seq(LeafOf(R))
             /\ WordSeq(t)[i] = Len(WordLeaves(t.fields[i], w + Before(t, i)))
             /\ RegCaptures(t.fields[i], w + Before(t, i)) \in Seq(LeafOf(R))
             /\ RegSeq(t)[i] = Len(RegCaptures(t.fields[i], w + Before(t, i)))
  <2>1. AbiWordCount(t) > 0 /\ Owns(w, AbiWordCount(t), R)
    BY <1>3 DEF WordCount
  <2>2. w + Before(t, i) \in Nat /\ Owns(w + Before(t, i), Words(t.fields[i]), R)
    BY <2>1, OwnsField
  <2>3. t.fields[i] \in Field
    BY TypeFacts
  <2> DEFINE u == w + Before(t, i)
  <2> HIDE DEF u
  <2>4. u \in Nat /\ \A k \in 1 .. Words(t.fields[i]) : abiRegs[u + k] \in R
    BY <2>2 DEF Owns, u
  <2>5. /\ WordLeaves(t.fields[i], u) \in Seq(LeafOf(R))
        /\ Len(WordLeaves(t.fields[i], u)) = Words(t.fields[i])
        /\ RegCaptures(t.fields[i], u) \in Seq(LeafOf(R))
        /\ Len(RegCaptures(t.fields[i], u)) = ExtraInRegisters(t.fields[i])
    BY <2>3, <2>4, WordLeavesFacts, RegCapturesFacts
  <2>6. QED
    BY <2>5, SeqFacts DEF u
<1>4. ASSUME Behind(t)
      PROVE  /\ MemParts(t, w) \in Seq(Seq(LeafOf(R))) /\ Len(MemParts(t, w)) = Len(t.fields)
             /\ \A i \in 1 .. Len(t.fields) : MemSeq(t)[i] = Len(MemParts(t, w)[i])
  BY <1>1, <1>2, <1>4 DEF MemParts
<1>5. ASSUME ~Behind(t)
      PROVE  /\ WordParts(t, w) \in Seq(Seq(LeafOf(R))) /\ Len(WordParts(t, w)) = Len(t.fields)
             /\ \A i \in 1 .. Len(t.fields) : WordSeq(t)[i] = Len(WordParts(t, w)[i])
  BY <1>1, <1>3, <1>5 DEF WordParts
<1>6. ASSUME ~Behind(t)
      PROVE  /\ RegParts(t, w) \in Seq(Seq(LeafOf(R))) /\ Len(RegParts(t, w)) = Len(t.fields)
             /\ \A i \in 1 .. Len(t.fields) : RegSeq(t)[i] = Len(RegParts(t, w)[i])
  BY <1>1, <1>3, <1>6 DEF RegParts
<1>7. QED
  BY <1>4, <1>5, <1>6

\* A pointer: the register, the object, and what its fields lead to.
PointerShape(q, t, w) ==
    /\ q[1] = RegLeaf(abiRegs[w + 1])
    /\ q[2] = LocSpec(abiRegs[w + 1], <<>>, TRUE)
    /\ \A i \in 1 .. Len(t.fields) : \A k \in 1 .. ExtraInMemory(t.fields[i]) :
           q[2 + (Totals(MemSeq(t))[i - 1] + k)] = MemCaptures(t.fields[i], abiRegs[w + 1])[k]

\* A value in registers: its words, and what they point to.
ValueShape(q, t, w) ==
    /\ \A i \in 1 .. Len(t.fields) : \A k \in 1 .. Words(t.fields[i]) :
           q[Before(t, i) + k] = WordLeaves(t.fields[i], w + Before(t, i))[k]
    /\ \A i \in 1 .. Len(t.fields) : \A k \in 1 .. ExtraInRegisters(t.fields[i]) :
           q[AbiWordCount(t) + (Totals(RegSeq(t))[i - 1] + k)] = RegCaptures(t.fields[i], w + Before(t, i))[k]

Shape(q, t, w) == IF Behind(t) THEN PointerShape(q, t, w) ELSE ValueShape(q, t, w)

\* planValue of a pointer makes as many leaves as it has reserved.
LEMMA PointerLeavesFacts ==
    ASSUME NEW t \in Type, NEW w \in Nat, NEW R, Behind(t), Owns(w, WordCount(t), R)
    PROVE  /\ PointerLeaves(t, w) \in Seq(LeafOf(R))
           /\ Len(PointerLeaves(t, w)) = WordCount(t) + Captures(t)
           /\ PointerShape(PointerLeaves(t, w), t, w)
<1> DEFINE N == Len(t.fields)
           ss == MemParts(t, w)
           s == MemSeq(t)
           q == FlattenSeq(ss)
           head == <<RegLeaf(abiRegs[w + 1]), LocSpec(abiRegs[w + 1], <<>>, TRUE)>>
<1>1. /\ WordCount(t) = 1 /\ Captures(t) = 1 + Totals(s)[N] /\ N \in Nat /\ Totals(s)[N] \in Nat
  <2>1. WordCount(t) = 1 /\ Captures(t) = 1 + Totals(s)[N] /\ N \in Nat
    BY CountFacts, TypeFacts
  <2>2. SumsUp(s, Totals(s)) /\ Len(s) = N
    BY SeqFacts, TotalsUnfold
  <2>3. Totals(s)[N] \in Nat
    <3> HIDE DEF s, N
    <3>1. Totals(s) \in [0 .. N -> Nat]
      BY <2>2 DEF SumsUp
    <3>2. QED
      BY <2>1, <3>1
  <2>4. QED
    BY <2>1, <2>3
<1>2. /\ ss \in Seq(Seq(LeafOf(R))) /\ Len(ss) = N /\ s \in Seq(Nat) /\ Len(s) = N
      /\ \A i \in 1 .. N : s[i] = Len(ss[i])
  <2>1. WordCount(t) > 0
    BY <1>1
  <2>2. QED
    BY <2>1, PartsFacts, SeqFacts
<1>3. q \in Seq(LeafOf(R)) /\ Parts(q, ss, Totals(s))
  <2> HIDE DEF ss, s, N
  <2>1. Len(s) = Len(ss) /\ \A i \in 1 .. Len(ss) : s[i] = Len(ss[i])
    BY <1>2
  <2>2. QED
    BY <1>2, <2>1, FlattenParts
<1>4. abiRegs[w + 1] \in R
  BY <1>1 DEF Owns
<1>5. head \in Seq(LeafOf(R)) /\ Len(head) = 2 /\ head[1] = RegLeaf(abiRegs[w + 1])
      /\ head[2] = LocSpec(abiRegs[w + 1], <<>>, TRUE)
  <2> DEFINE x == RegLeaf(abiRegs[w + 1])
             y == LocSpec(abiRegs[w + 1], <<>>, TRUE)
  <2>1. <<>> \in Seq(Step)
    OBVIOUS
  <2>2. x \in LeafOf(R) /\ y \in LeafOf(R)
    BY <1>4, <2>1, LocSpecFacts
  <2> HIDE DEF x, y
  <2>3. <<x, y>> \in Seq(LeafOf(R)) /\ Len(<<x, y>>) = 2 /\ <<x, y>>[1] = x /\ <<x, y>>[2] = y
    BY <2>2
  <2>4. QED
    BY <2>3 DEF x, y
<1>6. PointerLeaves(t, w) = head \o q
  BY DEF PointerLeaves, Flat, MemParts
<1> HIDE DEF head, q
<1> DEFINE p == head \o q
<1>7. /\ p \in Seq(LeafOf(R)) /\ Len(p) = Len(head) + Len(q)
      /\ \A i \in 1 .. Len(head) : p[i] = head[i]
      /\ \A k \in 1 .. Len(q) : p[Len(head) + k] = q[k]
  <2>1. head \in Seq(LeafOf(R)) /\ q \in Seq(LeafOf(R))
    BY <1>3, <1>5
  <2>2. QED
    BY <2>1, ConcatParts
<1> HIDE DEF p
<1>8. p \in Seq(LeafOf(R)) /\ Len(p) = WordCount(t) + Captures(t)
  <2>1. Len(q) = Totals(s)[N]
    <3> HIDE DEF s, N, ss
    <3> QED BY <1>2, <1>3 DEF Parts
  <2>2. QED
    BY <1>1, <1>5, <1>7, <2>1
<1>9. p[1] = RegLeaf(abiRegs[w + 1]) /\ p[2] = LocSpec(abiRegs[w + 1], <<>>, TRUE)
  <2>1. 1 \in 1 .. Len(head) /\ 2 \in 1 .. Len(head)
    BY <1>5
  <2>2. QED
    BY <1>5, <1>7, <2>1
<1>10. ASSUME NEW i \in 1 .. N, NEW k \in 1 .. ExtraInMemory(t.fields[i])
       PROVE  p[2 + (Totals(s)[i - 1] + k)] = MemCaptures(t.fields[i], abiRegs[w + 1])[k]
  <2>1. ss[i] = MemCaptures(t.fields[i], abiRegs[w + 1]) /\ s[i] = ExtraInMemory(t.fields[i])
    BY SeqFacts DEF MemParts
  <2>2. k \in 1 .. Len(ss[i]) /\ i \in 1 .. Len(ss)
    BY <1>2, <2>1
  <2> HIDE DEF ss, s, N
  <2>3. q[Totals(s)[i - 1] + k] = ss[i][k]
    BY <1>3, <2>2 DEF Parts
  <2>4. Totals(s)[i - 1] + k \in 1 .. Len(q)
    <3>1. i \in 1 .. Len(s) /\ k \in 1 .. s[i]
      BY <1>2, <2>2
    <3>2. Len(q) = Totals(s)[Len(s)]
      BY <1>2, <1>3 DEF Parts
    <3>3. QED
      BY <1>2, <3>1, <3>2, PartInside
  <2>5. QED
    BY <1>5, <1>7, <2>1, <2>3, <2>4
<1>11. PointerShape(p, t, w)
  BY <1>9, <1>10 DEF PointerShape
<1>12. QED
  BY <1>6, <1>8, <1>11 DEF p
\* planValue of a value in registers makes as many leaves as it has reserved.
LEMMA ValueLeavesFacts ==
    ASSUME NEW t \in Type, NEW w \in Nat, NEW R, ~Behind(t), WordCount(t) > 0, Owns(w, WordCount(t), R)
    PROVE  /\ ValueLeaves(t, w) \in Seq(LeafOf(R))
           /\ Len(ValueLeaves(t, w)) = WordCount(t) + Captures(t)
           /\ ValueShape(ValueLeaves(t, w), t, w)
<1> DEFINE N == Len(t.fields)
           ss == WordParts(t, w)
           s == WordSeq(t)
           q == FlattenSeq(ss)
           rr == RegParts(t, w)
           r == RegSeq(t)
           z == FlattenSeq(rr)
           p == q \o z
<1>1. /\ WordCount(t) = AbiWordCount(t) /\ Captures(t) = Totals(r)[N] /\ N \in Nat
      /\ AbiWordCount(t) = Totals(s)[N] /\ AbiWordCount(t) > 0
  <2>1. AbiWordCount(t) > 0
    BY DEF WordCount
  <2>2. QED
    BY <2>1, CountFacts, TypeFacts
<1>2. /\ ss \in Seq(Seq(LeafOf(R))) /\ Len(ss) = N /\ s \in Seq(Nat) /\ Len(s) = N
      /\ \A i \in 1 .. N : s[i] = Len(ss[i])
      /\ rr \in Seq(Seq(LeafOf(R))) /\ Len(rr) = N /\ r \in Seq(Nat) /\ Len(r) = N
      /\ \A i \in 1 .. N : r[i] = Len(rr[i])
  BY PartsFacts, SeqFacts
<1>3. /\ q \in Seq(LeafOf(R)) /\ Parts(q, ss, Totals(s))
      /\ z \in Seq(LeafOf(R)) /\ Parts(z, rr, Totals(r))
  <2> HIDE DEF ss, s, N, rr, r
  <2>1. /\ Len(s) = Len(ss) /\ \A i \in 1 .. Len(ss) : s[i] = Len(ss[i])
        /\ Len(r) = Len(rr) /\ \A i \in 1 .. Len(rr) : r[i] = Len(rr[i])
    BY <1>2
  <2>2. QED
    BY <1>2, <2>1, FlattenParts
<1>4. ValueLeaves(t, w) = p
  BY DEF ValueLeaves, Flat, WordParts, RegParts
<1> HIDE DEF q, z
<1>5. /\ p \in Seq(LeafOf(R)) /\ Len(p) = Len(q) + Len(z)
      /\ \A i \in 1 .. Len(q) : p[i] = q[i]
      /\ \A k \in 1 .. Len(z) : p[Len(q) + k] = z[k]
  <2>1. q \in Seq(LeafOf(R)) /\ z \in Seq(LeafOf(R))
    BY <1>3
  <2>2. QED
    BY <2>1, ConcatParts
<1> HIDE DEF p
<1>6. Len(q) = AbiWordCount(t) /\ Len(z) = Totals(r)[N] /\ Len(s) = N /\ Len(r) = N
  <2> HIDE DEF s, N, ss, rr, r
  <2> QED BY <1>1, <1>2, <1>3 DEF Parts
<1>7. Len(p) = WordCount(t) + Captures(t)
  BY <1>1, <1>5, <1>6
<1>8. ASSUME NEW i \in 1 .. N, NEW k \in 1 .. Words(t.fields[i])
      PROVE  p[Before(t, i) + k] = WordLeaves(t.fields[i], w + Before(t, i))[k]
  <2>1. ss[i] = WordLeaves(t.fields[i], w + Before(t, i)) /\ s[i] = Words(t.fields[i])
    BY SeqFacts DEF WordParts
  <2>2. Before(t, i) = Totals(s)[i - 1]
    <3>1. i \in 1 .. N + 1
      BY <1>1
    <3>2. QED
      BY <3>1, CountFacts
  <2> HIDE DEF ss, s, N
  <2>3. k \in 1 .. Len(ss[i]) /\ i \in 1 .. Len(ss) /\ i \in 1 .. Len(s) /\ k \in 1 .. s[i]
    BY <1>2, <2>1
  <2>4. q[Totals(s)[i - 1] + k] = ss[i][k]
    BY <1>3, <2>3 DEF Parts
  <2>5. Totals(s)[i - 1] + k \in 1 .. Len(q)
    BY <1>1, <1>2, <1>6, <2>3, PartInside
  <2>6. QED
    BY <1>5, <2>1, <2>2, <2>4, <2>5
<1>9. ASSUME NEW i \in 1 .. N, NEW k \in 1 .. ExtraInRegisters(t.fields[i])
      PROVE  p[AbiWordCount(t) + (Totals(r)[i - 1] + k)] = RegCaptures(t.fields[i], w + Before(t, i))[k]
  <2>1. rr[i] = RegCaptures(t.fields[i], w + Before(t, i)) /\ r[i] = ExtraInRegisters(t.fields[i])
    BY SeqFacts DEF RegParts
  <2> HIDE DEF rr, r, N
  <2>3. k \in 1 .. Len(rr[i]) /\ i \in 1 .. Len(rr) /\ i \in 1 .. Len(r) /\ k \in 1 .. r[i]
    BY <1>2, <2>1
  <2>4. z[Totals(r)[i - 1] + k] = rr[i][k]
    BY <1>3, <2>3 DEF Parts
  <2>5. Totals(r)[i - 1] + k \in 1 .. Len(z)
    BY <1>2, <1>6, <2>3, PartInside
  <2>6. QED
    BY <1>5, <1>6, <2>1, <2>4, <2>5
<1>10. ValueShape(p, t, w)
  BY <1>8, <1>9 DEF ValueShape
<1>11. QED
  BY <1>4, <1>5, <1>7, <1>10

\* What planValue appends.
LEMMA PlanLeavesFacts ==
    ASSUME NEW t \in Type, NEW w \in Nat, NEW R, WordCount(t) > 0, Owns(w, WordCount(t), R)
    PROVE  /\ PlanLeaves(t, w) \in Seq(LeafOf(R))
           /\ Len(PlanLeaves(t, w)) = WordCount(t) + Captures(t)
           /\ Shape(PlanLeaves(t, w), t, w)
BY PointerLeavesFacts, ValueLeavesFacts DEF PlanLeaves, Shape

-----------------------------------------------------------------------------
(* The registers of the Go ABI. *)

GoSeq(t) ==
    [i \in 1 .. Len(t.fields) |->
        CASE t.fields[i].kind \in {"int", "pointer", "func"} -> 1
          [] t.fields[i].kind = "empty" -> 0
          [] t.fields[i].kind = "slice" -> 3
          [] OTHER -> 2]

\* The registers of a type in the Go ABI, as a sum.
LEMMA GoSeqFacts ==
    ASSUME NEW t \in Type
    PROVE  /\ GoSeq(t) \in Seq(Nat) /\ Len(GoSeq(t)) = Len(t.fields)
           /\ ~Behind(t) => GoWords(t) \in {0, Totals(GoSeq(t))[Len(t.fields)]}
           /\ (~Behind(t) /\ \A i \in 1 .. Len(t.fields) : t.fields[i].kind # "array")
                => GoWords(t) = Totals(GoSeq(t))[Len(t.fields)]
<1>1. Len(t.fields) \in Nat
  BY TypeFacts
<1>2. \A i \in 1 .. Len(t.fields) :
         (CASE t.fields[i].kind \in {"int", "pointer", "func"} -> 1
            [] t.fields[i].kind = "empty" -> 0
            [] t.fields[i].kind = "slice" -> 3
            [] OTHER -> 2) \in Nat
  OBVIOUS
<1>3. GoSeq(t) \in Seq(Nat) /\ Len(GoSeq(t)) = Len(t.fields)
  BY <1>1, <1>2 DEF GoSeq
<1> DEFINE total == SumOver(LAMBDA f : CASE f.kind \in {"int", "pointer", "func"} -> 1
                                         [] f.kind = "empty" -> 0
                                         [] f.kind = "slice" -> 3
                                         [] OTHER -> 2, t.fields)
<1>4. GoWords(t) = IF Behind(t) THEN 1
                   ELSE IF \E i \in 1 .. Len(t.fields) : t.fields[i].kind = "array" THEN 0 ELSE total
  BY DEF GoWords
<1>5. total = Totals(GoSeq(t))[Len(t.fields)]
  BY DEF SumOver, GoSeq
<1> HIDE DEF total
<1>6. QED
  BY <1>3, <1>4, <1>5

\* A type that is planned has as many words as the ABI gives it registers.
LEMMA GoWordsFacts ==
    ASSUME NEW t \in Type
    PROVE  /\ GoWords(t) \in Nat
           /\ WordCount(t) > 0 => GoWords(t) = WordCount(t)
<1> DEFINE N == Len(t.fields)
<1>1. CASE Behind(t)
  BY <1>1, CountFacts DEF GoWords
<1>2. CASE ~Behind(t)
  <2>1. SumsUp(GoSeq(t), Totals(GoSeq(t))) /\ Len(GoSeq(t)) = N /\ N \in Nat
    BY GoSeqFacts, TotalsUnfold, TypeFacts
  <2>2. Totals(GoSeq(t))[N] \in Nat
    <3> HIDE DEF N
    <3>1. Totals(GoSeq(t)) \in [0 .. N -> Nat]
      BY <2>1 DEF SumsUp
    <3>2. QED
      BY <2>1, <3>1
  <2>3. ASSUME WordCount(t) > 0 PROVE GoWords(t) = WordCount(t)
    <3>1. /\ AbiWordCount(t) = Totals(WordSeq(t))[N] /\ WordCount(t) = AbiWordCount(t)
          /\ \A i \in 1 .. N : Words(t.fields[i]) \in 1 .. 3
      BY <1>2, <2>3, CountFacts
    <3>2. ASSUME NEW i \in 1 .. N
          PROVE  /\ t.fields[i].kind # "array"
                 /\ GoSeq(t)[i] = WordSeq(t)[i]
      <4> DEFINE field == t.fields[i]
      <4>1. field.kind \in Kinds /\ Words(field) \in 1 .. 3
        BY <3>1, FieldFacts, TypeFacts
      <4>2. GoSeq(t)[i] = CASE field.kind \in {"int", "pointer", "func"} -> 1
                            [] field.kind = "empty" -> 0
                            [] field.kind = "slice" -> 3
                            [] OTHER -> 2
        BY DEF GoSeq
      <4>3. WordSeq(t)[i] = Words(field)
        BY SeqFacts
      <4> HIDE DEF field
      <4>4. field.kind \notin {"func", "array", "empty"}
        BY <4>1 DEF Words, Interface
      <4>5. GoSeq(t)[i] = Words(field)
        BY <4>1, <4>2, <4>4 DEF Words, Interface, Kinds
      <4>6. QED
        BY <4>3, <4>4, <4>5 DEF field
    <3>3. GoWords(t) = Totals(GoSeq(t))[N]
      BY <1>2, <3>2, GoSeqFacts
    <3>4. Totals(GoSeq(t))[N] = Totals(WordSeq(t))[N]
      <4>1. /\ GoSeq(t) \in Seq(Nat) /\ WordSeq(t) \in Seq(Nat)
            /\ Len(GoSeq(t)) = N /\ Len(WordSeq(t)) = N
        BY GoSeqFacts, SeqFacts
      <4>2. N \in 0 .. Len(GoSeq(t)) /\ N <= Len(WordSeq(t)) /\ N \in 0 .. N
        BY <2>1, <4>1
      <4> HIDE DEF N
      <4>3. \A i \in 0 .. N : Totals(GoSeq(t))[i] = Totals(WordSeq(t))[i]
        BY <3>2, <4>1, <4>2, TotalsAgree
      <4>4. QED
        BY <4>2, <4>3
    <3>5. QED
      BY <3>1, <3>3, <3>4
  <2>4. QED
    BY <1>2, <2>2, <2>3, GoSeqFacts
<1>3. QED
  BY <1>1, <1>2

\* The registers that one parameter more takes.
GoTurn(params, f) ==
    /\ f \in [0 .. Len(params) -> Nat]
    /\ f[0] = 0
    /\ \A p \in 1 .. Len(params) :
          f[p] = IF f[p - 1] + GoWords(params[p]) > 9 THEN f[p - 1] ELSE f[p - 1] + GoWords(params[p])

\* The definition of GoUsed, unfolded.
LEMMA GoUsedUnfolds ==
    ASSUME NEW params \in Seq(Type)
    PROVE  GoTurn(params, GoUsed(params))
<1> DEFINE N == Len(params)
           turn(p, a) == IF a + GoWords(params[p]) > Len(GoRegisters) THEN a ELSE a + GoWords(params[p])
           step == [x \in Nat \X Nat |-> IF x[1] \in 1 .. N THEN turn(x[1], x[2]) ELSE 0]
           G(f) == [p \in 0 .. N |-> IF p = 0 THEN 0 ELSE turn(p, f[p - 1])]
           used == CHOOSE f : f = G(f)
<1>1. N \in Nat /\ \A p \in 1 .. N : GoWords(params[p]) \in Nat
  BY GoWordsFacts
<1>2. Len(GoRegisters) = 9
  BY DEF GoRegisters
<1>3. \A p \in 1 .. N, a \in Nat : turn(p, a) \in Nat
  <2> TAKE p \in 1 .. N, a \in Nat
  <2>1. GoWords(params[p]) \in Nat
    BY <1>1
  <2> DEFINE b == a + GoWords(params[p])
  <2>2. b \in Nat
    BY <2>1
  <2>3. turn(p, a) = IF b > Len(GoRegisters) THEN a ELSE b
    OBVIOUS
  <2> HIDE DEF b, turn
  <2>4. QED
    BY <2>2, <2>3
<1>4. GoUsed(params) = used
  BY DEF GoUsed
<1> HIDE DEF N, turn
<1>5. /\ step \in [Nat \X Nat -> Nat]
      /\ \A p \in 1 .. N, a \in Nat : step[<<p, a>>] = turn(p, a)
  <2> DEFINE value(x) == IF x[1] \in 1 .. N THEN turn(x[1], x[2]) ELSE 0
  <2>1. ASSUME NEW x \in Nat \X Nat PROVE value(x) \in Nat
    <3>1. CASE x[1] \in 1 .. N
      BY <1>3, <3>1
    <3>2. CASE x[1] \notin 1 .. N
      BY <3>2
    <3>3. QED
      BY <3>1, <3>2
  <2>2. ASSUME NEW p \in 1 .. N, NEW a \in Nat PROVE <<p, a>> \in Nat \X Nat /\ value(<<p, a>>) = turn(p, a)
    BY <1>1
  <2>3. step = [x \in Nat \X Nat |-> value(x)]
    OBVIOUS
  <2> HIDE DEF value, step
  <2>4. QED
    BY <2>1, <2>2, <2>3
<1>6. PICK f \in [0 .. N -> Nat] : Recurses(f, N, 0, step)
  <2> HIDE DEF step
  <2> QED BY <1>1, <1>5, RecursionExists
<1>7. ASSUME NEW p \in 1 .. N PROVE f[p] = turn(p, f[p - 1])
  <2>1. p - 1 \in 0 .. N
    BY <1>1
  <2>2. f[p - 1] \in Nat /\ f[p] = step[<<p, f[p - 1]>>]
    BY <1>6, <2>1 DEF Recurses
  <2> HIDE DEF step
  <2>3. QED
    BY <1>5, <2>2
<1>8. f = G(f)
  <2>1. f[0] = 0
    BY <1>6 DEF Recurses
  <2>2. QED
    BY <1>1, <1>6, <1>7, <2>1
<1>9. used = G(used)
  BY <1>8
<1> HIDE DEF used
<1>10. /\ used[0] = 0
       /\ \A p \in 1 .. N : used[p] = turn(p, used[p - 1])
       /\ used = [p \in 0 .. N |-> used[p]]
  <2>1. 0 \in 0 .. N
    BY <1>1
  <2>2. used[0] = 0
    BY <1>9, <2>1
  <2>3. ASSUME NEW p \in 1 .. N PROVE used[p] = turn(p, used[p - 1])
    <3>1. p \in 0 .. N /\ p # 0
      BY <1>1
    <3>2. QED
      BY <1>9, <3>1
  <2>4. used = [p \in 0 .. N |-> used[p]]
    BY <1>9
  <2>5. QED
    BY <2>2, <2>3, <2>4
<1>11. \A p \in 0 .. N : used[p] \in Nat
  <2> DEFINE D == {p \in Nat : p <= N => used[p] \in Nat}
  <2>1. 0 \in D
    BY <1>10
  <2>2. ASSUME NEW p \in Nat, p \in D PROVE p + 1 \in D
    <3> SUFFICES ASSUME p + 1 <= N PROVE used[p + 1] \in Nat
      OBVIOUS
    <3>1. p + 1 \in 1 .. N /\ (p + 1) - 1 = p /\ used[p] \in Nat
      BY <1>1, <2>2
    <3>2. QED
      BY <1>3, <1>10, <3>1
  <2> HIDE DEF D
  <2>3. Nat \subseteq D
    BY <2>1, <2>2, NatSetInduction
  <2>4. QED
    BY <1>1, <2>3 DEF D
<1>12. used \in [0 .. N -> Nat]
  BY <1>10, <1>11
<1>13. QED
  BY <1>2, <1>4, <1>10, <1>12 DEF GoTurn, N, turn

-----------------------------------------------------------------------------
(* The plan. *)

Value == [param : Nat, type : Type, start : Nat, words : Nat, captures : Nat]
Registers == {abiRegs[k] : k \in 1 .. 9}
Stages == {"planning", "built", "loaded", "rejected", "captured", "shown"}

\* Where the leaves of the values begin.
CountSeq(vs) == [m \in 1 .. Len(vs) |-> LeafCount(vs[m])]
Cursors(vs) == Totals(CountSeq(vs))

PlanTypes ==
    /\ stage \in Stages
    /\ sig \in Signatures /\ next \in 1 .. Len(sig) + 1
    /\ wi \in Nat /\ out \in Seq(LeafOf(Registers)) /\ values \in Seq(Value)

\* Each value is a parameter that was planned.
Planned(v, params, before) ==
    /\ v.param \in 1 .. before - 1 /\ v.type = params[v.param]
    /\ v.words = WordCount(v.type) /\ v.words > 0 /\ v.captures = Captures(v.type)

\* The values have registers of their own, out of those used.
Disjoint(vs, used) ==
    /\ \A n \in 1 .. Len(vs) : vs[n].start + vs[n].words <= used
    /\ \A m, n \in 1 .. Len(vs) : m < n => vs[m].start + vs[m].words <= vs[n].start

\* The leaves of the values, one value after the other.
LaidOut(vs, q) ==
    /\ Len(q) = Cursors(vs)[Len(vs)]
    /\ \A n \in 1 .. Len(vs) : \A k \in 1 .. LeafCount(vs[n]) :
          q[Cursors(vs)[n - 1] + k] = PlanLeaves(vs[n].type, vs[n].start)[k]

PlanShape ==
    /\ \A n \in 1 .. Len(values) : Planned(values[n], sig, next)
    /\ Disjoint(values, wi) /\ LaidOut(values, out)
    /\ wi <= Len(out) /\ Len(out) <= MaxFetchArgs

\* As long as every parameter before was planned, the registers are those of the ABI.
Known(p, vs) == InGoRegisters(p) => \E n \in 1 .. Len(vs) : vs[n].param = p
FollowsABI ==
    /\ (\A p \in 1 .. next - 1 : Known(p, values)) => wi = GoUsed(sig)[next - 1]
    /\ \A n \in 1 .. Len(values) :
          (\A p \in 1 .. values[n].param - 1 : Known(p, values))
             => values[n].start = GoUsed(sig)[values[n].param - 1]

PlanInv == PlanTypes /\ PlanShape /\ FollowsABI

\* The cursor of renderAuto, as sums of the leaves before a value.
LEMMA CursorsFacts ==
    ASSUME NEW vs \in Seq(Value)
    PROVE  /\ CountSeq(vs) \in Seq(Nat) /\ Len(CountSeq(vs)) = Len(vs) /\ SumsUp(CountSeq(vs), Cursors(vs))
           /\ \A m \in 1 .. Len(vs) : /\ CountSeq(vs)[m] = LeafCount(vs[m]) /\ LeafCount(vs[m]) \in Nat
                                      /\ vs[m].words \in Nat /\ vs[m].captures \in Nat
                                      /\ vs[m].start \in Nat /\ vs[m].param \in Nat /\ vs[m].type \in Type
           /\ \A m \in 0 .. Len(vs) : Cursors(vs)[m] \in Nat
<1>1. \A m \in 1 .. Len(vs) :
         /\ LeafCount(vs[m]) \in Nat /\ vs[m].words \in Nat /\ vs[m].captures \in Nat
         /\ vs[m].start \in Nat /\ vs[m].param \in Nat /\ vs[m].type \in Type
  <2> TAKE m \in 1 .. Len(vs)
  <2>1. vs[m] \in Value
    OBVIOUS
  <2>2. /\ vs[m].words \in Nat /\ vs[m].captures \in Nat
        /\ vs[m].start \in Nat /\ vs[m].param \in Nat /\ vs[m].type \in Type
    BY <2>1 DEF Value
  <2>3. QED
    BY <2>2 DEF LeafCount
<1>2. CountSeq(vs) \in Seq(Nat) /\ Len(CountSeq(vs)) = Len(vs)
      /\ \A m \in 1 .. Len(vs) : CountSeq(vs)[m] = LeafCount(vs[m])
  BY <1>1 DEF CountSeq
<1>3. SumsUp(CountSeq(vs), Cursors(vs))
  BY <1>2, TotalsUnfold DEF Cursors
<1>4. \A m \in 0 .. Len(vs) : Cursors(vs)[m] \in Nat
  <2>1. Cursors(vs) \in [0 .. Len(vs) -> Nat]
    BY <1>2, <1>3 DEF SumsUp
  <2>2. QED
    BY <2>1
<1>5. QED
  BY <1>1, <1>2, <1>3, <1>4

\* The cursor before value n.
LEMMA CursorIs ==
    ASSUME NEW n
    PROVE  Cursor(n) = Cursors(values)[n - 1]
BY DEF Cursor, Cursors, CountSeq

\* One value more.
LEMMA CursorsAppend ==
    ASSUME NEW vs \in Seq(Value), NEW v \in Value
    PROVE  /\ Append(vs, v) \in Seq(Value) /\ Len(Append(vs, v)) = Len(vs) + 1 /\ Len(vs) \in Nat
           /\ Append(vs, v)[Len(vs) + 1] = v
           /\ \A m \in 1 .. Len(vs) : Append(vs, v)[m] = vs[m]
           /\ \A m \in 0 .. Len(vs) : Cursors(Append(vs, v))[m] = Cursors(vs)[m]
           /\ Cursors(Append(vs, v))[Len(vs) + 1] = Cursors(vs)[Len(vs)] + LeafCount(v)
<1> DEFINE us == Append(vs, v)
           N == Len(vs)
<1>1. /\ us \in Seq(Value) /\ Len(us) = N + 1 /\ N \in Nat
      /\ us[N + 1] = v /\ \A m \in 1 .. N : us[m] = vs[m]
  BY AppendFacts
<1> HIDE DEF us
<1>2. /\ CountSeq(us) \in Seq(Nat) /\ Len(CountSeq(us)) = N + 1
      /\ \A m \in 1 .. N + 1 : CountSeq(us)[m] = LeafCount(us[m])
      /\ CountSeq(vs) \in Seq(Nat) /\ Len(CountSeq(vs)) = N
      /\ \A m \in 1 .. N : CountSeq(vs)[m] = LeafCount(vs[m])
      /\ SumsUp(CountSeq(us), Cursors(us))
  BY <1>1, CursorsFacts
<1> HIDE DEF N
<1>3. \A m \in 0 .. N : Cursors(us)[m] = Cursors(vs)[m]
  <2>1. \A m \in 1 .. N : CountSeq(us)[m] = CountSeq(vs)[m]
    BY <1>1, <1>2
  <2>2. N \in 0 .. Len(CountSeq(us)) /\ N <= Len(CountSeq(vs))
    BY <1>1, <1>2
  <2> DEFINE a == CountSeq(us)
             b == CountSeq(vs)
  <2>3. a \in Seq(Nat) /\ b \in Seq(Nat) /\ N \in 0 .. Len(a) /\ N <= Len(b) /\ \A m \in 1 .. N : a[m] = b[m]
    BY <1>2, <2>1, <2>2
  <2> HIDE DEF a, b
  <2>4. \A m \in 0 .. N : Totals(a)[m] = Totals(b)[m]
    BY <2>3, TotalsAgree
  <2>5. QED
    BY <2>4 DEF Cursors, a, b
<1>4. Cursors(us)[N + 1] = Cursors(us)[N] + LeafCount(v)
  <2>1. N + 1 \in 1 .. Len(CountSeq(us)) /\ (N + 1) - 1 = N /\ CountSeq(us)[N + 1] = LeafCount(v)
    BY <1>1, <1>2
  <2>2. QED
    BY <1>2, <2>1 DEF SumsUp
<1>5. N \in 0 .. N
  BY <1>1
<1>6. QED
  BY <1>1, <1>3, <1>4, <1>5 DEF us, N

\* What the assumptions say of the parameters of the probe.
LEMMA SigFacts ==
    ASSUME NEW params \in Signatures
    PROVE  /\ params \in Seq(Type) /\ Len(params) \in Nat
           /\ \A p \in 1 .. Len(params) :
                 /\ params[p] \in Type /\ Apart(params[p])
                 /\ params[p].form = "plain" => Len(params[p].fields) = 1
BY FetchPlanAssumption

\* Before the first parameter, nothing is planned.
LEMMA PlanInit == Init => PlanInv
<1> SUFFICES ASSUME Init PROVE PlanInv
  OBVIOUS
<1>1. PlanTypes
  <2>1. <<>> \in Seq(LeafOf(Registers)) /\ <<>> \in Seq(Value)
    OBVIOUS
  <2>2. Len(sig) \in Nat
    BY SigFacts DEF Init
  <2>3. QED
    BY <2>1, <2>2 DEF Init, PlanTypes, Stages
<1>2. PlanShape
  <2>1. values = <<>> /\ out = <<>> /\ wi = 0 /\ next = 1
    BY DEF Init
  <2>2. Len(values) = 0 /\ Len(out) = 0 /\ values \in Seq(Value)
    BY <2>1
  <2>3. Cursors(values)[0] = 0
    BY <2>2, CursorsFacts DEF SumsUp
  <2>4. MaxFetchArgs \in 1 .. 8
    BY FetchPlanAssumption
  <2>5. QED
    BY <2>1, <2>2, <2>3, <2>4 DEF PlanShape, Disjoint, LaidOut
<1>3. FollowsABI
  <2>1. Len(values) = 0 /\ wi = 0 /\ next = 1
    BY DEF Init
  <2>2. GoUsed(sig)[0] = 0
    BY GoUsedUnfolds, SigFacts DEF Init, GoTurn
  <2>3. QED
    BY <2>1, <2>2 DEF FollowsABI
<1>4. QED
  BY <1>1, <1>2, <1>3 DEF PlanInv

\* The registers are never used up.
LEMMA RegistersLeft ==
    ASSUME NEW w \in Nat, NEW n \in Nat, w + n <= 9
    PROVE  Owns(w, n, Registers)
<1> SUFFICES ASSUME NEW k \in 1 .. n PROVE abiRegs[w + k] \in Registers
  BY DEF Owns
<1>1. w + k \in 1 .. 9
  OBVIOUS
<1>2. QED
  BY <1>1 DEF Registers

\* The value that planValue appends, and what it needs of the plan before.
LEMMA PlanValueFacts ==
    ASSUME PlanInv, PlanValue
    PROVE  /\ next \in 1 .. Len(sig) /\ sig[next] \in Type
           /\ WordCount(sig[next]) \in Nat /\ Captures(sig[next]) \in Nat /\ WordCount(sig[next]) > 0
           /\ Len(out) \in Nat /\ Len(out) + WordCount(sig[next]) + Captures(sig[next]) <= MaxFetchArgs
           /\ MaxFetchArgs \in 1 .. 8 /\ wi + WordCount(sig[next]) <= 8
           /\ PlanLeaves(sig[next], wi) \in Seq(LeafOf(Registers))
           /\ Len(PlanLeaves(sig[next], wi)) = WordCount(sig[next]) + Captures(sig[next])
<1>1. sig \in Signatures /\ next \in 1 .. Len(sig) + 1 /\ wi \in Nat /\ out \in Seq(LeafOf(Registers))
      /\ wi <= Len(out)
  BY DEF PlanInv, PlanTypes, PlanShape
<1>2. next <= Len(sig) /\ WordCount(sig[next]) > 0
      /\ Len(out) + (WordCount(sig[next]) + Captures(sig[next])) <= MaxFetchArgs
  BY DEF PlanValue, Planning, Reserve
<1>3. next \in 1 .. Len(sig) /\ sig[next] \in Type
  BY <1>1, <1>2, SigFacts
<1>4. WordCount(sig[next]) \in Nat /\ Captures(sig[next]) \in Nat
  BY <1>3, CountFacts
<1>5. MaxFetchArgs \in 1 .. 8
  BY FetchPlanAssumption
<1> DEFINE n == WordCount(sig[next])
           c == Captures(sig[next])
<1>6. Len(out) \in Nat
  BY <1>1
<1> HIDE DEF n, c
<1>7. Len(out) + n + c <= MaxFetchArgs /\ wi + n <= 8
  BY <1>1, <1>2, <1>4, <1>5, <1>6, SMTT(40) DEF n, c
<1>8. Owns(wi, n, Registers)
  BY <1>1, <1>4, <1>7, RegistersLeft DEF n
<1>9. QED
  BY <1>1, <1>2, <1>3, <1>4, <1>5, <1>6, <1>7, <1>8, PlanLeavesFacts DEF n, c

\* The leaves stay where they are when those of one value more are appended.
LEMMA LaidOutAppend ==
    ASSUME NEW vs \in Seq(Value), NEW v \in Value, NEW S, NEW q \in Seq(S), LaidOut(vs, q),
           PlanLeaves(v.type, v.start) \in Seq(S),
           Len(PlanLeaves(v.type, v.start)) = LeafCount(v)
    PROVE  LaidOut(Append(vs, v), q \o PlanLeaves(v.type, v.start))
<1> DEFINE us == Append(vs, v)
           N == Len(vs)
           z == PlanLeaves(v.type, v.start)
           p == q \o z
<1>1. /\ us \in Seq(Value) /\ Len(us) = N + 1 /\ N \in Nat
      /\ us[N + 1] = v /\ \A m \in 1 .. N : us[m] = vs[m]
      /\ \A m \in 0 .. N : Cursors(us)[m] = Cursors(vs)[m]
      /\ Cursors(us)[N + 1] = Cursors(vs)[N] + LeafCount(v)
  BY CursorsAppend
<1>2. /\ p \in Seq(S) /\ Len(p) = Len(q) + Len(z)
      /\ \A i \in 1 .. Len(q) : p[i] = q[i]
      /\ \A k \in 1 .. Len(z) : p[Len(q) + k] = z[k]
  <2> HIDE DEF z
  <2>1. q \in Seq(S) /\ z \in Seq(S)
    BY DEF z
  <2>2. QED
    BY <2>1, ConcatParts
<1>3. Len(q) = Cursors(vs)[N] /\ Len(q) \in Nat /\ Len(z) = LeafCount(v)
  BY DEF LaidOut
<1>4. \A m \in 1 .. N : CountSeq(vs)[m] = LeafCount(vs[m])
  BY CursorsFacts
<1> HIDE DEF us, p, z, N
<1>5. ASSUME NEW m \in 1 .. N + 1, NEW k \in 1 .. LeafCount(us[m])
      PROVE  p[Cursors(us)[m - 1] + k] = PlanLeaves(us[m].type, us[m].start)[k]
  <2>1. CASE m \in 1 .. N
    <3>1. m - 1 \in 0 .. N /\ us[m] = vs[m]
      BY <1>1, <2>1
    <3>2. q[Cursors(vs)[m - 1] + k] = PlanLeaves(vs[m].type, vs[m].start)[k]
      BY <2>1, <3>1 DEF LaidOut, N
    <3>3. Cursors(vs)[m - 1] + k \in 1 .. Len(q)
      <4> DEFINE s == CountSeq(vs)
      <4>1. s \in Seq(Nat) /\ Len(s) = N
        BY CursorsFacts DEF N
      <4>2. s[m] = LeafCount(vs[m]) /\ Totals(s)[N] = Len(q) /\ Cursors(vs) = Totals(s)
        BY <1>3, <1>4, <2>1 DEF Cursors
      <4> HIDE DEF s
      <4>3. m \in 1 .. Len(s) /\ k \in 1 .. s[m]
        BY <2>1, <3>1, <4>1, <4>2
      <4>4. QED
        BY <4>1, <4>2, <4>3, PartInside
    <3>4. QED
      BY <1>1, <1>2, <3>1, <3>2, <3>3
  <2>2. CASE m = N + 1
    <3>1. m - 1 = N /\ us[m] = v /\ N \in 0 .. N
      BY <1>1, <2>2
    <3>2. k \in 1 .. Len(z) /\ Cursors(us)[m - 1] = Len(q)
      BY <1>1, <1>3, <3>1
    <3>3. QED
      BY <1>2, <3>1, <3>2 DEF z
  <2>3. QED
    BY <1>1, <2>1, <2>2
<1>6. Len(p) = Cursors(us)[N + 1]
  BY <1>1, <1>2, <1>3
<1>7. LaidOut(us, p)
  BY <1>1, <1>5, <1>6 DEF LaidOut
<1>8. QED
  BY <1>7 DEF us, p, z

\* A planned parameter gets the leaves and the registers after those in use.
LEMMA PlanValueKeeps ==
    ASSUME PlanInv, PlanValue
    PROVE  PlanInv'
<1> DEFINE t == sig[next]
           n == WordCount(t)
           c == Captures(t)
           v == [param |-> next, type |-> t, start |-> wi, words |-> n, captures |-> c]
           N == Len(values)
           z == PlanLeaves(t, wi)
<1>1. /\ next \in 1 .. Len(sig) /\ t \in Type /\ n \in Nat /\ c \in Nat /\ n > 0
      /\ Len(out) \in Nat /\ Len(out) + n + c <= MaxFetchArgs /\ MaxFetchArgs \in 1 .. 8 /\ wi + n <= 8
      /\ z \in Seq(LeafOf(Registers)) /\ Len(z) = n + c
  BY PlanValueFacts
<1>2. /\ wi' = wi + n /\ out' = out \o z /\ values' = Append(values, v)
      /\ next' = next + 1 /\ sig' = sig /\ stage' = stage
  BY DEF PlanValue
<1>3. /\ stage \in Stages /\ sig \in Signatures /\ wi \in Nat /\ out \in Seq(LeafOf(Registers))
      /\ values \in Seq(Value) /\ wi <= Len(out)
      /\ \A m \in 1 .. N : Planned(values[m], sig, next)
      /\ Disjoint(values, wi) /\ LaidOut(values, out) /\ FollowsABI
  BY DEF PlanInv, PlanTypes, PlanShape
<1>4. /\ v \in Value /\ v.param = next /\ v.type = t /\ v.start = wi /\ v.words = n /\ v.captures = c
      /\ LeafCount(v) = n + c
  BY <1>1, <1>3 DEF Value, LeafCount
<1>5. /\ values' \in Seq(Value) /\ Len(values') = N + 1 /\ N \in Nat
      /\ values'[N + 1] = v /\ \A m \in 1 .. N : values'[m] = values[m]
  <2> HIDE DEF v
  <2>1. QED
    BY <1>2, <1>3, <1>4, CursorsAppend
<1>6. out' \in Seq(LeafOf(Registers)) /\ Len(out') = Len(out) + n + c
  <2>1. out \in Seq(LeafOf(Registers)) /\ z \in Seq(LeafOf(Registers))
    BY <1>1, <1>3
  <2> HIDE DEF z
  <2>2. out \o z \in Seq(LeafOf(Registers)) /\ Len(out \o z) = Len(out) + Len(z)
    BY <2>1, ConcatParts
  <2>3. QED
    BY <1>1, <1>2, <2>2
<1>7. Len(sig) \in Nat
  BY <1>3, SigFacts
<1>8. PlanTypes'
  BY <1>1, <1>2, <1>3, <1>5, <1>6, <1>7, SMTT(40) DEF PlanTypes
<1>9. LaidOut(values', out')
  <2>1. PlanLeaves(v.type, v.start) = z
    BY <1>4
  <2> HIDE DEF v, z
  <2>2. LaidOut(Append(values, v), out \o z)
    BY <1>1, <1>3, <1>4, <2>1, LaidOutAppend
  <2>3. QED
    BY <1>2, <2>2
<1>10. \A m \in 1 .. N : /\ values[m].param \in 1 .. next - 1 /\ values[m].start \in Nat
                         /\ values[m].words \in Nat /\ values[m].start + values[m].words <= wi
  BY <1>3, CursorsFacts DEF Planned, Disjoint
<1> HIDE DEF v, t, n, c, N, z
<1>11. Disjoint(values', wi')
  <2>1. ASSUME NEW m \in 1 .. N + 1 PROVE values'[m].start + values'[m].words <= wi + n
    <3>1. CASE m \in 1 .. N
      <4>1. values'[m] = values[m]
        BY <1>5, <3>1
      <4>2. /\ values[m].start \in Nat /\ values[m].words \in Nat
            /\ values[m].start + values[m].words <= wi
        BY <1>10, <3>1
      <4>3. wi \in Nat /\ n \in Nat
        BY <1>1, <1>3
      <4>4. QED
        BY <4>1, <4>2, <4>3
    <3>2. CASE m = N + 1
      <4>1. values'[m] = v
        BY <1>5, <3>2
      <4>2. v.start + v.words = wi + n /\ wi + n \in Nat
        BY <1>1, <1>3, <1>4
      <4>3. QED
        BY <4>1, <4>2
    <3>3. QED
      BY <1>5, <3>1, <3>2
  <2>2. ASSUME NEW l \in 1 .. N + 1, NEW m \in 1 .. N + 1, l < m
        PROVE  values'[l].start + values'[l].words <= values'[m].start
    <3>1. l \in 1 .. N
      BY <1>5, <2>2
    <3>2. CASE m \in 1 .. N
      BY <1>3, <1>5, <2>2, <3>1, <3>2 DEF Disjoint, N
    <3>3. CASE m = N + 1
      BY <1>4, <1>5, <1>10, <3>1, <3>3
    <3>4. QED
      BY <1>5, <3>2, <3>3
  <2>3. QED
    BY <1>2, <1>5, <2>1, <2>2 DEF Disjoint
<1>12. \A m \in 1 .. N + 1 : Planned(values'[m], sig, next + 1)
  <2> TAKE m \in 1 .. N + 1
  <2>1. CASE m \in 1 .. N
    <3>1. Planned(values[m], sig, next) /\ values'[m] = values[m]
      BY <1>3, <1>5, <2>1
    <3>2. values[m].param \in 1 .. (next + 1) - 1
      BY <1>1, <3>1 DEF Planned
    <3>3. QED
      BY <3>1, <3>2 DEF Planned
  <2>2. CASE m = N + 1
    <3>1. next \in 1 .. (next + 1) - 1
      BY <1>1
    <3>2. QED
      BY <1>1, <1>4, <1>5, <2>2, <3>1 DEF Planned, t, n, c
  <2>3. QED
    BY <1>5, <2>1, <2>2
<1>13. PlanShape'
  BY <1>1, <1>2, <1>3, <1>5, <1>6, <1>9, <1>11, <1>12, SMTT(40) DEF PlanShape
<1>14. ASSUME NEW p \in 1 .. next - 1, Known(p, values)' PROVE Known(p, values)
  <2> SUFFICES ASSUME InGoRegisters(p) PROVE \E m \in 1 .. N : values[m].param = p
    BY DEF Known, N
  <2>1. InGoRegisters(p)'
    BY <1>2 DEF InGoRegisters
  <2>2. PICK m \in 1 .. N + 1 : values'[m].param = p
    BY <1>5, <1>14, <2>1 DEF Known
  <2>3. m # N + 1
    BY <1>1, <1>4, <1>5, <2>2, SMTT(40)
  <2>4. m \in 1 .. N
    BY <1>5, <2>3
  <2>5. QED
    BY <1>5, <2>2, <2>4
<1>15. /\ GoUsed(sig)[next - 1] \in Nat
       /\ wi = GoUsed(sig)[next - 1] => wi + n = GoUsed(sig)[next]
  <2>1. GoTurn(sig, GoUsed(sig))
    BY <1>3, SigFacts, GoUsedUnfolds
  <2>2. /\ GoUsed(sig) \in [0 .. Len(sig) -> Nat] /\ next - 1 \in 0 .. Len(sig)
        /\ GoUsed(sig)[next] = IF GoUsed(sig)[next - 1] + GoWords(sig[next]) > 9 THEN GoUsed(sig)[next - 1]
                               ELSE GoUsed(sig)[next - 1] + GoWords(sig[next])
    BY <1>1, <1>7, <2>1 DEF GoTurn
  <2>3. GoWords(sig[next]) = n
    BY <1>1, GoWordsFacts DEF t, n
  <2>4. GoUsed(sig)[next - 1] \in Nat
    BY <2>2
  <2>5. QED
    BY <1>1, <1>3, <2>2, <2>3, <2>4
<1>16. FollowsABI'
  <2>1. ASSUME \A p \in 1 .. next : Known(p, values)' PROVE wi + n = GoUsed(sig)[next]
    <3>1. \A p \in 1 .. next - 1 : Known(p, values)
      <4> TAKE p \in 1 .. next - 1
      <4>1. p \in 1 .. next
        BY <1>1
      <4>2. QED
        BY <1>14, <2>1, <4>1
    <3>2. QED
      BY <1>3, <1>15, <3>1 DEF FollowsABI
  <2>2. ASSUME NEW m \in 1 .. N + 1, \A p \in 1 .. values'[m].param - 1 : Known(p, values)'
        PROVE  values'[m].start = GoUsed(sig)[values'[m].param - 1]
    <3>1. CASE m \in 1 .. N
      <4>1. values'[m] = values[m] /\ values[m].param \in 1 .. next - 1
        BY <1>5, <1>10, <3>1
      <4>2. ASSUME NEW p \in 1 .. values[m].param - 1 PROVE Known(p, values)
        <5>1. p \in 1 .. next - 1
          BY <1>1, <4>1, SMTT(40)
        <5>2. Known(p, values)'
          BY <2>2, <4>1
        <5>3. QED
          BY <1>14, <5>1, <5>2
      <4>3. QED
        BY <1>3, <3>1, <4>1, <4>2 DEF FollowsABI, N
    <3>2. CASE m = N + 1
      <4>1. values'[m].param = next /\ values'[m].start = wi
        BY <1>4, <1>5, <3>2
      <4>2. \A p \in 1 .. next - 1 : Known(p, values)
        BY <1>14, <2>2, <4>1
      <4>3. QED
        BY <1>3, <4>1, <4>2 DEF FollowsABI
    <3>3. QED
      BY <1>5, <3>1, <3>2
  <2>3. (next + 1) - 1 = next
    BY <1>1
  <2>4. QED
    BY <1>2, <1>5, <2>1, <2>2, <2>3 DEF FollowsABI
<1>17. QED
  BY <1>8, <1>13, <1>16 DEF PlanInv

\* A parameter that is left out has no registers, or is not known from then on.
LEMMA SkipValueKeeps ==
    ASSUME PlanInv, SkipValue
    PROVE  PlanInv'
<1>1. /\ stage' = stage /\ sig' = sig /\ wi' = wi /\ out' = out /\ values' = values /\ next' = next + 1
      /\ next <= Len(sig)
  BY DEF SkipValue, Planning
<1>2. /\ PlanTypes /\ PlanShape /\ FollowsABI /\ sig \in Signatures /\ next \in 1 .. Len(sig) + 1 /\ wi \in Nat
  BY DEF PlanInv, PlanTypes
<1>3. next \in 1 .. Len(sig) /\ sig[next] \in Type /\ Len(sig) \in Nat /\ next' - 1 = next
  BY <1>1, <1>2, SigFacts
<1>4. PlanTypes'
  BY <1>1, <1>2, <1>3 DEF PlanTypes
<1>5. \A m \in 1 .. Len(values) : values[m].param \in 1 .. next - 1
  BY <1>2 DEF PlanShape, Planned
<1>6. PlanShape'
  <2>1. ASSUME NEW m \in 1 .. Len(values) PROVE Planned(values[m], sig, next + 1)
    <3>1. values[m].param \in 1 .. (next + 1) - 1
      BY <1>3, <1>5
    <3>2. QED
      BY <1>2, <3>1 DEF PlanShape, Planned
  <2>2. QED
    BY <1>1, <1>2, <2>1 DEF PlanShape
<1>7. \A p : Known(p, values)' <=> Known(p, values)
  BY <1>1 DEF Known, InGoRegisters
<1>8. ASSUME \A p \in 1 .. next : Known(p, values) PROVE wi = GoUsed(sig)[next]
  <2>1. wi = GoUsed(sig)[next - 1]
    <3>1. \A p \in 1 .. next - 1 : p \in 1 .. next
      BY <1>3
    <3>2. QED
      BY <1>2, <1>8, <3>1 DEF FollowsABI
  <2>2. ~InGoRegisters(next)
    <3>1. next \in 1 .. next /\ \A m \in 1 .. Len(values) : values[m].param # next
      BY <1>3, <1>5
    <3>2. QED
      BY <1>8, <3>1 DEF Known
  <2>3. GoWords(sig[next]) \in Nat
    BY <1>3, GoWordsFacts
  <2>4. GoWords(sig[next]) = 0 \/ GoUsed(sig)[next - 1] + GoWords(sig[next]) > 9
    <3>1. Len(GoRegisters) = 9
      BY DEF GoRegisters
    <3>2. QED
      BY <1>2, <2>1, <2>2, <2>3, <3>1 DEF InGoRegisters
  <2>5. GoTurn(sig, GoUsed(sig))
    BY <1>2, SigFacts, GoUsedUnfolds
  <2>6. GoUsed(sig)[next] = IF GoUsed(sig)[next - 1] + GoWords(sig[next]) > 9 THEN GoUsed(sig)[next - 1]
                            ELSE GoUsed(sig)[next - 1] + GoWords(sig[next])
    BY <1>3, <2>5 DEF GoTurn
  <2>7. QED
    BY <1>2, <2>1, <2>3, <2>4, <2>6
<1>9. FollowsABI'
  BY <1>1, <1>2, <1>3, <1>7, <1>8 DEF FollowsABI
<1>10. QED
  BY <1>4, <1>6, <1>9 DEF PlanInv

\* The later stages leave the plan alone.
LEMMA PlanUnchanged ==
    ASSUME PlanInv, UNCHANGED planVars, stage' \in Stages
    PROVE  PlanInv'
<1>1. sig' = sig /\ next' = next /\ wi' = wi /\ out' = out /\ values' = values
  BY DEF planVars
<1>2. PlanTypes'
  BY <1>1 DEF PlanInv, PlanTypes
<1>3. PlanShape'
  BY <1>1 DEF PlanInv, PlanShape
<1>4. \A p : Known(p, values)' <=> Known(p, values)
  BY <1>1 DEF Known, InGoRegisters
<1>5. FollowsABI'
  BY <1>1, <1>4 DEF PlanInv, FollowsABI
<1>6. QED
  BY <1>2, <1>3, <1>5 DEF PlanInv

\* Every step keeps the plan in order.
LEMMA PlanStep == PlanInv /\ [Next]_vars => PlanInv'
<1> SUFFICES ASSUME PlanInv, [Next]_vars PROVE PlanInv'
  OBVIOUS
<1>1. CASE PlanValue
  BY <1>1, PlanValueKeeps
<1>2. CASE SkipValue
  BY <1>2, SkipValueKeeps
<1>3. CASE Build \/ Load \/ Reject \/ Hit \/ Render
  <2>1. UNCHANGED planVars /\ stage' \in Stages
    BY <1>3 DEF Build, Load, Reject, Hit, Render, Stages
  <2>2. QED
    BY <2>1, PlanUnchanged
<1>4. CASE UNCHANGED vars
  <2>1. UNCHANGED planVars /\ stage' \in Stages
    BY <1>4 DEF vars, PlanInv, PlanTypes
  <2>2. QED
    BY <2>1, PlanUnchanged
<1>5. QED
  BY <1>1, <1>2, <1>3, <1>4 DEF Next

\* The plan of planValue: the leaves are those of the values, in order, with
\* registers of their own that follow the ABI as long as no parameter was left out.
THEOREM PlanHolds == Spec => []PlanInv
<1>1. Init => PlanInv
  BY PlanInit
<1>2. PlanInv /\ [Next]_vars => PlanInv'
  BY PlanStep
<1>3. QED
  BY <1>1, <1>2, PTL DEF Spec

\* The register numbers of the rules and read_reg agree.
LEMMA RegisterRoundTrip ==
    /\ \A k \in 1 .. 9 : abiRegs[k] \in Registers
    /\ \A r \in Registers : ReadReg(RegisterConstants[r]) = <<r>>
    /\ \A j, k \in 1 .. 9 : abiRegs[j] = abiRegs[k] => j = k
<1>1. \A k \in 1 .. 9 : abiRegs[k] \in Registers
  BY DEF Registers
<1>2. Registers \subseteq {"ax", "bx", "cx", "di", "si", "r8", "r9", "r10", "r11"}
  BY DEF Registers, abiRegs
<1>3. ASSUME NEW r \in Registers PROVE ReadReg(RegisterConstants[r]) = <<r>>
  <2>1. r \in {"ax", "bx", "cx", "di", "si", "r8", "r9", "r10", "r11"}
    BY <1>2
  <2>2. CASE r = "ax"
    BY <2>2 DEF ReadReg, RegisterConstants, PtRegs
  <2>3. CASE r = "bx"
    BY <2>3 DEF ReadReg, RegisterConstants, PtRegs
  <2>4. CASE r = "cx"
    BY <2>4 DEF ReadReg, RegisterConstants, PtRegs
  <2>5. CASE r = "di"
    BY <2>5 DEF ReadReg, RegisterConstants, PtRegs
  <2>6. CASE r = "si"
    BY <2>6 DEF ReadReg, RegisterConstants, PtRegs
  <2>7. CASE r = "r8"
    BY <2>7 DEF ReadReg, RegisterConstants, PtRegs
  <2>8. CASE r = "r9"
    BY <2>8 DEF ReadReg, RegisterConstants, PtRegs
  <2>9. CASE r = "r10"
    BY <2>9 DEF ReadReg, RegisterConstants, PtRegs
  <2>10. CASE r = "r11"
    BY <2>10 DEF ReadReg, RegisterConstants, PtRegs
  <2>11. QED
    BY <2>1, <2>2, <2>3, <2>4, <2>5, <2>6, <2>7, <2>8, <2>9, <2>10
<1>4. \A j, k \in 1 .. 9 : abiRegs[j] = abiRegs[k] => j = k
  <2>1. /\ abiRegs[1] = "ax" /\ abiRegs[2] = "bx" /\ abiRegs[3] = "cx" /\ abiRegs[4] = "di"
        /\ abiRegs[5] = "si" /\ abiRegs[6] = "r8" /\ abiRegs[7] = "r9" /\ abiRegs[8] = "r10"
        /\ abiRegs[9] = "r11"
    BY DEF abiRegs
  <2>2. \A k \in 1 .. 9 : k = 1 \/ k = 2 \/ k = 3 \/ k = 4 \/ k = 5 \/ k = 6 \/ k = 7 \/ k = 8 \/ k = 9
    OBVIOUS
  <2>3. QED
    BY <2>1, <2>2
<1>5. QED
  BY <1>1, <1>3, <1>4

\* The word leaves of a value are its registers, one after the other.
WordRegs(q, t, w) == \A k \in 1 .. WordCount(t) : q[k].reg = abiRegs[w + k]

\* The words of a plan are read from consecutive registers.
LEMMA WordRegsFacts ==
    ASSUME NEW t \in Type, NEW w \in Nat, WordCount(t) > 0, NEW q, Shape(q, t, w)
    PROVE  WordRegs(q, t, w)
<1> SUFFICES ASSUME NEW k \in 1 .. WordCount(t) PROVE q[k].reg = abiRegs[w + k]
  BY DEF WordRegs
<1>1. CASE Behind(t)
  <2>1. k = 1
    BY <1>1, CountFacts
  <2>2. q[1] = RegLeaf(abiRegs[w + 1])
    BY <1>1 DEF Shape, PointerShape
  <2>3. QED
    BY <2>1, <2>2 DEF RegLeaf
<1>2. CASE ~Behind(t)
  <2> DEFINE s == WordSeq(t)
  <2>1. /\ s \in Seq(Nat) /\ Len(s) = Len(t.fields) /\ \A i \in 1 .. Len(t.fields) : s[i] = Words(t.fields[i])
        /\ WordCount(t) = Totals(s)[Len(s)]
    <3>1. WordCount(t) = AbiWordCount(t) /\ AbiWordCount(t) > 0
      BY <1>2 DEF WordCount
    <3>2. QED
      BY <3>1, SeqFacts, CountFacts
  <2> HIDE DEF s
  <2>2. PICK i \in 1 .. Len(s) : \E l \in 1 .. s[i] : k = Totals(s)[i - 1] + l
    <3>1. s \in Seq(Nat) /\ k \in 1 .. Totals(s)[Len(s)]
      BY <2>1
    <3>2. QED
      BY <3>1, TotalsLocate
  <2>3. PICK l \in 1 .. s[i] : k = Totals(s)[i - 1] + l
    BY <2>2
  <2>4. Before(t, i) = Totals(s)[i - 1] /\ Totals(s)[i - 1] \in Nat
    <3>1. i \in 1 .. Len(t.fields) + 1 /\ Len(t.fields) \in Nat
      BY <2>1, TypeFacts
    <3>2. QED
      BY <2>1, <2>3, <3>1, CountFacts, PartInside DEF s
  <2> DEFINE b == Before(t, i)
             field == t.fields[i]
  <2>5. i \in 1 .. Len(t.fields) /\ l \in 1 .. Words(field) /\ b \in Nat /\ k = b + l
    BY <2>1, <2>3, <2>4
  <2>6. q[b + l] = WordLeaves(field, w + b)[l]
    <3>1. ValueShape(q, t, w)
      BY <1>2 DEF Shape
    <3>2. \A j \in 1 .. Len(t.fields) : \A m \in 1 .. Words(t.fields[j]) :
             q[Before(t, j) + m] = WordLeaves(t.fields[j], w + Before(t, j))[m]
      BY <3>1 DEF ValueShape
    <3>3. QED
      BY <2>5, <3>2
  <2> HIDE DEF b, field
  <2>7. WordLeaves(field, w + b)[l].reg = abiRegs[(w + b) + l]
    BY <2>5 DEF WordLeaves, LocSpec, RegLeaf
  <2>8. (w + b) + l = w + k
    BY <2>5
  <2>9. QED
    BY <2>5, <2>6, <2>7, <2>8
<1>3. QED
  BY <1>1, <1>2

\* A leaf of a value, in the plan and as a rule.
LeavesOf(n) ==
    \A k \in 1 .. LeafCount(values[n]) :
        /\ Cursor(n) + k \in 1 .. Len(out)
        /\ out[Cursor(n) + k] \in LeafOf(Registers)
        /\ out[Cursor(n) + k] = PlanLeaves(values[n].type, values[n].start)[k]
        /\ Rules[Cursor(n) + k] = ToRule(out[Cursor(n) + k])

\* What the plan says of value n.
LEMMA ValueFacts ==
    ASSUME PlanInv, NEW n \in 1 .. Len(values)
    PROVE  /\ values[n] \in Value /\ values[n].type \in Type /\ values[n].start \in Nat
           /\ values[n].type = sig[values[n].param] /\ values[n].param \in 1 .. Len(sig) /\ sig \in Signatures
           /\ values[n].words = WordCount(values[n].type) /\ values[n].words > 0 /\ values[n].words \in Nat
           /\ values[n].captures = Captures(values[n].type) /\ values[n].captures \in Nat
           /\ values[n].start + values[n].words <= 8
           /\ Owns(values[n].start, values[n].words, Registers)
           /\ Shape(PlanLeaves(values[n].type, values[n].start), values[n].type, values[n].start)
           /\ Cursor(n) \in Nat /\ LeavesOf(n)
<1>1. /\ values \in Seq(Value) /\ out \in Seq(LeafOf(Registers)) /\ sig \in Signatures
      /\ next \in 1 .. Len(sig) + 1 /\ wi \in Nat
      /\ Planned(values[n], sig, next) /\ Disjoint(values, wi) /\ LaidOut(values, out)
      /\ wi <= Len(out) /\ Len(out) <= MaxFetchArgs /\ MaxFetchArgs \in 1 .. 8
  BY FetchPlanAssumption DEF PlanInv, PlanTypes, PlanShape
<1>2. /\ values[n] \in Value /\ values[n].type \in Type /\ values[n].start \in Nat
      /\ values[n].words \in Nat /\ values[n].captures \in Nat
  BY <1>1, CursorsFacts
<1>3. /\ values[n].param \in 1 .. next - 1 /\ values[n].type = sig[values[n].param]
      /\ values[n].words = WordCount(values[n].type) /\ values[n].words > 0
      /\ values[n].captures = Captures(values[n].type)
  BY <1>1 DEF Planned
<1>4. values[n].param \in 1 .. Len(sig)
  BY <1>1, <1>3, SigFacts
<1>5. values[n].start + values[n].words <= 8
  <2>1. values[n].start + values[n].words <= wi /\ Len(out) \in Nat
    BY <1>1 DEF Disjoint
  <2>2. QED
    BY <1>1, <1>2, <2>1, SMTT(40)
<1>6. Owns(values[n].start, values[n].words, Registers)
  BY <1>2, <1>5, RegistersLeft
<1>7. Shape(PlanLeaves(values[n].type, values[n].start), values[n].type, values[n].start)
  BY <1>2, <1>3, <1>6, PlanLeavesFacts
<1>8. Cursor(n) \in Nat /\ LeavesOf(n)
  <2> DEFINE s == CountSeq(values)
  <2>1. s \in Seq(Nat) /\ Len(s) = Len(values) /\ s[n] = LeafCount(values[n]) /\ n - 1 \in 0 .. Len(values)
    BY <1>1, CursorsFacts
  <2>2. Cursors(values) = Totals(s) /\ Cursor(n) = Totals(s)[n - 1]
    BY CursorIs DEF Cursors
  <2>3. Cursor(n) \in Nat
    BY <1>1, <2>1, CursorsFacts, CursorIs
  <2>4. Len(out) = Totals(s)[Len(s)]
    BY <1>1, <2>1, <2>2 DEF LaidOut
  <2>5. \A k \in 1 .. LeafCount(values[n]) :
          out[Totals(s)[n - 1] + k] = PlanLeaves(values[n].type, values[n].start)[k]
    BY <1>1, <2>2 DEF LaidOut
  <2> HIDE DEF s
  <2>6. ASSUME NEW k \in 1 .. LeafCount(values[n]) PROVE Totals(s)[n - 1] + k \in 1 .. Len(out)
    <3>1. n \in 1 .. Len(s) /\ k \in 1 .. s[n]
      BY <2>1
    <3>2. QED
      BY <2>1, <2>4, <3>1, PartInside
  <2>7. \A j \in 1 .. Len(out) : Rules[j] = ToRule(out[j]) /\ out[j] \in LeafOf(Registers)
    BY <1>1 DEF Rules
  <2>8. QED
    BY <2>2, <2>3, <2>5, <2>6, <2>7 DEF LeavesOf
<1>9. QED
  BY <1>1, <1>2, <1>3, <1>4, <1>5, <1>6, <1>7, <1>8

\* The plan agrees with the Go ABI.
LEMMA PlanIsABI == PlanInv => PlanFollowsABI
<1> SUFFICES ASSUME PlanInv
             PROVE  /\ Len(out) = SumOver(LeafCount, values) /\ Len(out) <= MaxFetchArgs
                    /\ wi <= Len(abiRegs)
                    /\ \A n \in 1 .. Len(values) :
                         (\A p \in 1 .. values[n].param : Accounted(p)) =>
                             \A k \in 1 .. values[n].words :
                                 ReadReg(Rules[Cursor(n) + k].reg)
                                     = <<GoRegisters[GoUsed(sig)[values[n].param - 1] + k]>>
  BY DEF PlanFollowsABI
<1>1. /\ wi \in Nat /\ wi <= Len(out) /\ Len(out) <= MaxFetchArgs /\ out \in Seq(LeafOf(Registers))
      /\ LaidOut(values, out) /\ FollowsABI /\ values \in Seq(Value)
  BY DEF PlanInv, PlanTypes, PlanShape
<1>2. Len(out) = SumOver(LeafCount, values)
  BY <1>1 DEF LaidOut, SumOver, Cursors, CountSeq
<1>3. wi <= Len(abiRegs)
  <2>1. Len(abiRegs) = 9 /\ MaxFetchArgs \in 1 .. 8 /\ Len(out) \in Nat
    BY <1>1, FetchPlanAssumption DEF abiRegs
  <2>2. QED
    BY <1>1, <2>1
<1>4. ASSUME NEW n \in 1 .. Len(values), \A p \in 1 .. values[n].param : Accounted(p),
             NEW k \in 1 .. values[n].words
      PROVE  ReadReg(Rules[Cursor(n) + k].reg) = <<GoRegisters[GoUsed(sig)[values[n].param - 1] + k]>>
  <2> DEFINE v == values[n]
             t == v.type
             w == v.start
             leaf == out[Cursor(n) + k]
  <2>1. /\ t \in Type /\ w \in Nat /\ v.words = WordCount(t) /\ v.words > 0 /\ v.words \in Nat
        /\ v.captures \in Nat /\ w + v.words <= 8 /\ Shape(PlanLeaves(t, w), t, w)
        /\ v.param \in Nat /\ LeavesOf(n)
    BY ValueFacts DEF Value
  <2>2. leaf = PlanLeaves(t, w)[k] /\ leaf \in LeafOf(Registers) /\ Rules[Cursor(n) + k] = ToRule(leaf)
    <3>1. k \in 1 .. LeafCount(v)
      BY <1>4, <2>1 DEF LeafCount
    <3>2. QED
      BY <2>1, <3>1 DEF LeavesOf
  <2>3. leaf.reg = abiRegs[w + k]
    BY <1>4, <2>1, <2>2, WordRegsFacts, SMTT(40) DEF WordRegs
  <2>4. ReadReg(Rules[Cursor(n) + k].reg) = <<leaf.reg>>
    <3>1. leaf.reg \in Registers
      BY <2>2 DEF LeafOf
    <3>2. Rules[Cursor(n) + k].reg = RegisterConstants[leaf.reg]
      <4> DEFINE rule == Rules[Cursor(n) + k]
      <4>1. rule = ToRule(leaf)
        BY <2>2
      <4> HIDE DEF rule, leaf
      <4>2. rule.reg = RegisterConstants[leaf.reg]
        BY <4>1 DEF ToRule
      <4>3. QED
        BY <4>2 DEF rule
    <3>3. QED
      BY <3>1, <3>2, RegisterRoundTrip
  <2>5. \A p \in 1 .. v.param - 1 : Known(p, values)
    <3> SUFFICES ASSUME NEW p \in 1 .. v.param - 1, InGoRegisters(p)
                 PROVE  \E m \in 1 .. Len(values) : values[m].param = p
      BY DEF Known
    <3>1. p \in 1 .. v.param
      BY <2>1
    <3>2. PICK u \in ToSet(values) : u.param = p
      BY <1>4, <3>1 DEF Accounted
    <3>3. QED
      BY <1>1, <3>2 DEF ToSet
  <2>6. w = GoUsed(sig)[v.param - 1]
    BY <1>1, <2>5 DEF FollowsABI
  <2>7. GoRegisters = abiRegs
    BY DEF GoRegisters, abiRegs
  <2>8. QED
    BY <2>3, <2>4, <2>6, <2>7
<1>5. QED
  BY <1>1, <1>2, <1>3, <1>4

\* AutoFetch.zh_CN.md 5: the leaves of the plan are those of its values and fit an
\* event, and every word is fetched from the register that the Go ABI gives it.
THEOREM PlanCorrect == Spec => []PlanFollowsABI
BY PlanHolds, PlanIsABI, PTL

-----------------------------------------------------------------------------
(* The probe hit. *)

\* What Render computes.
Rendered ==
    [n \in 1 .. Len(values) |->
        [as |-> RenderedAs(n), snap |-> IF RenderedAs(n) = "value" THEN Snapshot(n) ELSE <<>>]]

HitInv ==
    /\ stage \in {"captured", "shown"} =>
         nils \subseteq Pointers /\ bad \subseteq Pointers \ nils /\ args = FetchArgs(nils, bad)
    /\ stage = "shown" => shown = Rendered

\* Rules and pointers are those of the plan.
LEMMA PlanDecides ==
    ASSUME out' = out, values' = values
    PROVE  Rules' = Rules /\ Pointers' = Pointers
<1>1. Rules' = Rules
  BY DEF Rules
<1>2. Pointers' = Pointers
  BY <1>1 DEF Pointers, Plain
<1>3. QED
  BY <1>1, <1>2

\* What is shown is that of the plan and the hit.
LEMMA HitDecides ==
    ASSUME values' = values, args' = args, nils' = nils
    PROVE  Rendered' = Rendered
<1>1. \A n : WordsOf(n)' = WordsOf(n) /\ CapturesOf(n)' = CapturesOf(n)
  <2>1. \A n : Cursor(n)' = Cursor(n)
    BY DEF Cursor
  <2>2. QED
    BY <2>1 DEF WordsOf, CapturesOf
<1>2. \A n : RenderedAs(n)' = RenderedAs(n)
  BY <1>1 DEF RenderedAs, NilInterface, NilPointer, IsZero, Plain
<1>3. \A addr, leaf : Put(addr, leaf)' = Put(addr, leaf)
  BY DEF Put, IsZero
<1>4. \A t, words, field, leaves : Chunks(t, words, field, leaves)' = Chunks(t, words, field, leaves)
  <2>1. \A field, image, leaf : RegChunks(field, image, leaf)' = RegChunks(field, image, leaf)
    BY <1>3 DEF RegChunks
  <2>2. \A field, ptr, leaves : MemChunks(field, ptr, leaves)' = MemChunks(field, ptr, leaves)
    BY <1>3 DEF MemChunks
  <2>3. QED
    BY <2>1, <2>2 DEF Chunks
<1>5. \A t, words, captures : Consume(t, words, captures)' = Consume(t, words, captures)
  BY <1>4 DEF Consume, Flat
<1>6. \A n : Snapshot(n)' = Snapshot(n)
  BY <1>1, <1>3, <1>5 DEF Snapshot
<1>7. QED
  BY <1>2, <1>6 DEF Rendered

\* Before the hit there is nothing to show.
LEMMA HitInit == Init => HitInv
BY DEF Init, HitInv

\* Hit fetches by the rules of the plan, and Render shows what was fetched.
LEMMA HitStep == HitInv /\ [Next]_vars => HitInv'
<1> SUFFICES ASSUME HitInv, [Next]_vars PROVE HitInv'
  OBVIOUS
<1>1. CASE PlanValue \/ SkipValue \/ Build \/ Load \/ Reject
  <2>1. stage' \notin {"captured", "shown"}
    BY <1>1 DEF PlanValue, SkipValue, Planning, Build, Load, Reject
  <2>2. QED
    BY <2>1 DEF HitInv
<1>2. CASE Hit
  <2>1. PICK nil \in SUBSET Pointers : \E unreadable \in SUBSET (Pointers \ nil) :
           nils' = nil /\ bad' = unreadable /\ args' = FetchArgs(nil, unreadable)
    BY <1>2 DEF Hit
  <2>2. stage' = "captured" /\ out' = out /\ values' = values
    BY <1>2 DEF Hit, planVars
  <2>3. Rules' = Rules /\ Pointers' = Pointers
    BY <2>2, PlanDecides
  <2>4. args' = FetchArgs(nils, bad)'
    BY <2>1, <2>3 DEF FetchArgs
  <2>5. QED
    BY <2>1, <2>2, <2>3, <2>4 DEF HitInv
<1>3. CASE Render
  <2>1. stage = "captured" /\ stage' = "shown" /\ shown' = Rendered /\ out' = out /\ values' = values
        /\ nils' = nils /\ bad' = bad /\ args' = args
    BY <1>3 DEF Render, Rendered, planVars
  <2>2. Rules' = Rules /\ Pointers' = Pointers /\ Rendered' = Rendered
    BY <2>1, PlanDecides, HitDecides
  <2>3. args' = FetchArgs(nils, bad)'
    BY <2>1, <2>2 DEF FetchArgs, HitInv
  <2>4. QED
    BY <2>1, <2>2, <2>3 DEF HitInv
<1>4. CASE UNCHANGED vars
  <2>1. stage' = stage /\ shown' = shown /\ out' = out /\ values' = values
        /\ nils' = nils /\ bad' = bad /\ args' = args
    BY <1>4 DEF vars, planVars, hitVars
  <2>2. Rules' = Rules /\ Pointers' = Pointers /\ Rendered' = Rendered
    BY <2>1, PlanDecides, HitDecides
  <2>3. FetchArgs(nils, bad)' = FetchArgs(nils, bad)
    BY <2>1, <2>2 DEF FetchArgs
  <2>4. QED
    BY <2>1, <2>2, <2>3 DEF HitInv
<1>5. QED
  BY <1>1, <1>2, <1>3, <1>4 DEF Next

\* fetch_args and renderAuto: what was captured is what the rules fetch from this
\* memory, and what is shown is rendered from just that.
THEOREM HitHolds == Spec => []HitInv
BY HitInit, HitStep, PTL DEF Spec

-----------------------------------------------------------------------------
(* What a rule fetches. *)

Paths == Seq(Registers \cup Int)
Addresses == [ptr : Paths, off : Int]

\* f is the walk along the steps.
WalksOn(base, steps, nil, unreadable, f) ==
    /\ f \in [0 .. Len(steps) -> Addresses]
    /\ f[0] = At(base, 0)
    /\ \A k \in 1 .. Len(steps) : f[k] = Follow(f[k - 1], steps[k], nil, unreadable)

\* Addresses, and the paths of the words at them.
LEMMA AddressFacts ==
    /\ \A ptr \in Paths, o \in Int : /\ At(ptr, o) \in Addresses
                                     /\ At(ptr, o).ptr = ptr /\ At(ptr, o).off = o
    /\ Nowhere \in Addresses
    /\ \A addr \in Addresses : WordAt(addr) \in Paths /\ addr.off \in Int /\ addr.ptr \in Paths
    /\ \A reg \in Registers : <<reg>> \in Paths /\ <<reg>> # <<>>
<1>1. \A ptr \in Paths, o \in Int : /\ At(ptr, o) \in Addresses
                                    /\ At(ptr, o).ptr = ptr /\ At(ptr, o).off = o
  BY DEF At, Addresses
<1>2. <<>> \in Paths /\ 0 \in Int
  BY DEF Paths
<1>3. Nowhere \in Addresses
  BY <1>1, <1>2 DEF Nowhere
<1>4. ASSUME NEW addr \in Addresses PROVE WordAt(addr) \in Paths /\ addr.off \in Int /\ addr.ptr \in Paths
  <2>1. addr.ptr \in Paths /\ addr.off \in Int
    BY DEF Addresses
  <2>2. QED
    BY <2>1 DEF WordAt, Paths
<1>5. ASSUME NEW reg \in Registers PROVE <<reg>> \in Paths /\ <<reg>> # <<>>
  <2>1. reg \in Registers \cup Int
    OBVIOUS
  <2> DEFINE S == Registers \cup Int
  <2> HIDE DEF S
  <2>2. <<reg>> \in Seq(S) /\ Len(<<reg>>) = 1
    BY <2>1, Singleton DEF S
  <2>3. Len(<<>>) = 0
    OBVIOUS
  <2>4. QED
    BY <2>2, <2>3 DEF Paths, S
<1>6. QED
  BY <1>1, <1>3, <1>4, <1>5

\* A step leads to an address.
LEMMA FollowFacts ==
    ASSUME NEW addr \in Addresses, NEW s \in Step, NEW nil, NEW unreadable
    PROVE  Follow(addr, s, nil, unreadable) \in Addresses
<1>1. s.off \in Int /\ addr.off \in Int /\ addr.ptr \in Paths
  BY AddressFacts DEF Step
<1>2. addr.off + s.off \in Int
  BY <1>1
<1>3. At(addr.ptr, addr.off + s.off) \in Addresses /\ Nowhere \in Addresses
  BY <1>1, <1>2, AddressFacts
<1>4. At(WordAt(At(addr.ptr, addr.off + s.off)), 0) \in Addresses
  <2> DEFINE p == WordAt(At(addr.ptr, addr.off + s.off))
  <2>1. p \in Paths
    BY <1>3, AddressFacts
  <2> HIDE DEF p
  <2>2. At(p, 0) \in Addresses
    BY <2>1, AddressFacts
  <2>3. QED
    BY <2>2 DEF p
<1>5. QED
  BY <1>3, <1>4 DEF Follow

\* The definition of Walk, unfolded.
LEMMA WalkUnfold ==
    ASSUME NEW base \in Paths, NEW steps \in Seq(Step), NEW nil, NEW unreadable
    PROVE  WalksOn(base, steps, nil, unreadable, Walk(base, steps, nil, unreadable))
<1> DEFINE N == Len(steps)
           turn(k, a) == Follow(a, steps[k], nil, unreadable)
           step == [x \in Nat \X Addresses |-> IF x[1] \in 1 .. N THEN turn(x[1], x[2]) ELSE Nowhere]
           G(f) == [k \in 0 .. N |-> IF k = 0 THEN At(base, 0) ELSE turn(k, f[k - 1])]
           after == CHOOSE f : f = G(f)
<1>1. N \in Nat /\ At(base, 0) \in Addresses /\ Nowhere \in Addresses
  BY AddressFacts
<1>2. \A k \in 1 .. N, a \in Addresses : turn(k, a) \in Addresses
  <2> TAKE k \in 1 .. N, a \in Addresses
  <2>1. steps[k] \in Step
    OBVIOUS
  <2>2. QED
    BY <2>1, FollowFacts
<1>3. Walk(base, steps, nil, unreadable) = after
  BY DEF Walk
<1> HIDE DEF N, turn
<1>4. /\ step \in [Nat \X Addresses -> Addresses]
      /\ \A k \in 1 .. N, a \in Addresses : step[<<k, a>>] = turn(k, a)
  <2> DEFINE value(x) == IF x[1] \in 1 .. N THEN turn(x[1], x[2]) ELSE Nowhere
  <2>1. ASSUME NEW x \in Nat \X Addresses PROVE value(x) \in Addresses
    <3>1. CASE x[1] \in 1 .. N
      BY <1>2, <3>1
    <3>2. CASE x[1] \notin 1 .. N
      BY <1>1, <3>2
    <3>3. QED
      BY <3>1, <3>2
  <2>2. ASSUME NEW k \in 1 .. N, NEW a \in Addresses
        PROVE  <<k, a>> \in Nat \X Addresses /\ value(<<k, a>>) = turn(k, a)
    BY <1>1
  <2>3. step = [x \in Nat \X Addresses |-> value(x)]
    OBVIOUS
  <2> HIDE DEF value, step
  <2>4. QED
    BY <2>1, <2>2, <2>3
<1> DEFINE start == At(base, 0)
<1> HIDE DEF start
<1>5. PICK f \in [0 .. N -> Addresses] : Recurses(f, N, start, step)
  <2> HIDE DEF step
  <2>1. start \in Addresses
    BY <1>1 DEF start
  <2> QED BY <1>1, <1>4, <2>1, RecursionExists
<1>6. ASSUME NEW k \in 1 .. N PROVE f[k] = turn(k, f[k - 1])
  <2>1. k - 1 \in 0 .. N
    BY <1>1
  <2>2. f[k - 1] \in Addresses /\ f[k] = step[<<k, f[k - 1]>>]
    BY <1>5, <2>1 DEF Recurses
  <2> HIDE DEF step
  <2>3. QED
    BY <1>4, <2>2
<1>7. f = G(f)
  <2>1. f[0] = start
    BY <1>5 DEF Recurses
  <2>2. QED
    BY <1>1, <1>5, <1>6, <2>1 DEF start
<1>8. after = G(after)
  BY <1>7
<1> HIDE DEF after
<1>9. /\ after[0] = start
      /\ \A k \in 1 .. N : after[k] = turn(k, after[k - 1])
      /\ after = [k \in 0 .. N |-> after[k]]
  <2>1. 0 \in 0 .. N
    BY <1>1
  <2>2. after[0] = start
    BY <1>8, <2>1 DEF start
  <2>3. ASSUME NEW k \in 1 .. N PROVE after[k] = turn(k, after[k - 1])
    <3>1. k \in 0 .. N /\ k # 0
      BY <1>1
    <3>2. QED
      BY <1>8, <3>1
  <2>4. after = [k \in 0 .. N |-> after[k]]
    BY <1>8
  <2>5. QED
    BY <2>2, <2>3, <2>4
<1>10. \A k \in 0 .. N : after[k] \in Addresses
  <2> DEFINE D == {k \in Nat : k <= N => after[k] \in Addresses}
  <2>1. 0 \in D
    BY <1>1, <1>9 DEF start
  <2>2. ASSUME NEW k \in Nat, k \in D PROVE k + 1 \in D
    <3> SUFFICES ASSUME k + 1 <= N PROVE after[k + 1] \in Addresses
      OBVIOUS
    <3>1. k + 1 \in 1 .. N /\ (k + 1) - 1 = k /\ after[k] \in Addresses
      BY <1>1, <2>2
    <3>2. QED
      BY <1>2, <1>9, <3>1
  <2> HIDE DEF D
  <2>3. Nat \subseteq D
    BY <2>1, <2>2, NatSetInduction
  <2>4. QED
    BY <1>1, <2>3 DEF D
<1>11. after \in [0 .. N -> Addresses]
  BY <1>9, <1>10
<1>12. QED
  BY <1>3, <1>9, <1>11 DEF WalksOn, N, turn, start

\* The steps of a rule: the conversion to 16 bits keeps the offsets that a probe
\* can render.
LEMMA Int16Facts ==
    /\ \A o \in Int : Int16(o) \in Int
    /\ \A o \in 0 .. 64 : Int16(o) = o
BY DEF Int16

\* setArgRules keeps the register, the flag and the kinds of the steps.
LEMMA RuleFacts ==
    ASSUME NEW leaf \in LeafOf(Registers)
    PROVE  /\ leaf.reg \in Registers /\ ReadReg(ToRule(leaf).reg) = <<leaf.reg>>
           /\ ToRule(leaf).nil_check = leaf.nilCheck
           /\ leaf.steps \in Seq(Step) /\ Len(leaf.steps) \in Nat
           /\ ToRule(leaf).steps \in Seq(Step) /\ Len(ToRule(leaf).steps) = Len(leaf.steps)
           /\ ToRule(leaf).steps = <<>> <=> leaf.steps = <<>>
           /\ \A i \in 1 .. Len(leaf.steps) : /\ ToRule(leaf).steps[i].off = Int16(leaf.steps[i].off)
                                              /\ ToRule(leaf).steps[i].deref = leaf.steps[i].deref
<1>1. leaf.reg \in Registers /\ leaf.steps \in Seq(Step)
  BY DEF LeafOf
<1>2. ReadReg(ToRule(leaf).reg) = <<leaf.reg>> /\ ToRule(leaf).nil_check = leaf.nilCheck
  BY <1>1, RegisterRoundTrip DEF ToRule
<1> DEFINE s == leaf.steps
           r == ToRule(leaf).steps
<1>3. r = [i \in 1 .. Len(s) |-> [s[i] EXCEPT !.off = Int16(@)]]
  BY DEF ToRule
<1> HIDE DEF s, r
<1>4. ASSUME NEW i \in 1 .. Len(s)
      PROVE  /\ [s[i] EXCEPT !.off = Int16(@)] \in Step
             /\ r[i].off = Int16(s[i].off) /\ r[i].deref = s[i].deref
  <2>1. s[i] \in Step
    BY <1>1 DEF s
  <2> DEFINE x == s[i]
             y == [x EXCEPT !.off = Int16(@)]
  <2>2. x \in Step /\ r[i] = y
    BY <1>3, <2>1
  <2> HIDE DEF x
  <2>3. x.off \in Int /\ x.deref \in BOOLEAN /\ x = [off |-> x.off, deref |-> x.deref]
    BY <2>2 DEF Step
  <2>4. Int16(x.off) \in Int
    BY <2>3, Int16Facts
  <2>5. y = [off |-> Int16(x.off), deref |-> x.deref]
    BY <2>3
  <2> HIDE DEF y
  <2>6. y \in Step /\ y.off = Int16(x.off) /\ y.deref = x.deref
    BY <2>3, <2>4, <2>5 DEF Step
  <2>7. QED
    BY <2>2, <2>6 DEF x, y
<1>5. r \in Seq(Step) /\ Len(r) = Len(s) /\ Len(s) \in Nat
  <2> DEFINE value(i) == [s[i] EXCEPT !.off = Int16(@)]
  <2>1. r = [i \in 1 .. Len(s) |-> value(i)] /\ \A i \in 1 .. Len(s) : value(i) \in Step
    BY <1>3, <1>4
  <2>2. Len(s) \in Nat
    BY <1>1 DEF s
  <2> HIDE DEF value
  <2>3. QED
    BY <2>1, <2>2
<1>6. r = <<>> <=> s = <<>>
  BY <1>1, <1>5 DEF s
<1>7. QED
  BY <1>1, <1>2, <1>4, <1>5, <1>6 DEF s, r

\* What a leaf of the plan becomes at the probe hit, and where its rule leads.
ArgOf(leaf, nil, unreadable) ==
    IF ToRule(leaf).steps = <<>> THEN FetchFromReg(ToRule(leaf))
    ELSE FetchFromMemory(ToRule(leaf), nil, unreadable)
Target(leaf, nil, unreadable) ==
    Walk(<<leaf.reg>>, ToRule(leaf).steps, nil, unreadable)[Len(leaf.steps)]

\* A leaf that is a register.
LEMMA RegArg ==
    ASSUME NEW leaf \in LeafOf(Registers), leaf.steps = <<>>, NEW nil, NEW unreadable
    PROVE  LET a == ArgOf(leaf, nil, unreadable)
           IN  a.word = <<leaf.reg>> /\ a.is_nil = FALSE /\ a.read_error = FALSE
<1>1. ToRule(leaf).steps = <<>> /\ ReadReg(ToRule(leaf).reg) = <<leaf.reg>>
  BY RuleFacts
<1>2. ArgOf(leaf, nil, unreadable) = [Zeroed EXCEPT !.word = <<leaf.reg>>]
  BY <1>1 DEF ArgOf, FetchFromReg
<1>3. QED
  BY <1>2 DEF Zeroed

\* A leaf in memory.
LEMMA MemArg ==
    ASSUME NEW leaf \in LeafOf(Registers), leaf.steps # <<>>, NEW nil, NEW unreadable
    PROVE  LET a == ArgOf(leaf, nil, unreadable)
               addr == Target(leaf, nil, unreadable)
           IN  /\ a.is_nil <=> (leaf.nilCheck /\ <<leaf.reg>> \in nil)
               /\ ~a.is_nil => (a.read_error <=> (addr = Nowhere \/ ~Readable(addr, nil, unreadable)))
               /\ a.is_nil => ~a.read_error
               /\ (~a.is_nil /\ ~a.read_error) => a.from = addr /\ addr # Nowhere /\ a.word = WordAt(addr)
<1> DEFINE a == ArgOf(leaf, nil, unreadable)
           addr == Target(leaf, nil, unreadable)
<1>1. /\ ToRule(leaf).steps # <<>> /\ ReadReg(ToRule(leaf).reg) = <<leaf.reg>>
      /\ ToRule(leaf).nil_check = leaf.nilCheck /\ Len(ToRule(leaf).steps) = Len(leaf.steps)
  BY RuleFacts
<1>2. a = IF leaf.nilCheck /\ <<leaf.reg>> \in nil THEN IsNilArg
          ELSE IF addr = Nowhere \/ ~Readable(addr, nil, unreadable) THEN ReadError
          ELSE [Zeroed EXCEPT !.from = addr, !.word = WordAt(addr)]
  BY <1>1 DEF ArgOf, FetchFromMemory, Target
<1> HIDE DEF a, addr
<1>3. /\ IsNilArg.is_nil = TRUE /\ IsNilArg.read_error = FALSE
      /\ ReadError.is_nil = FALSE /\ ReadError.read_error = TRUE
  BY DEF IsNilArg, ReadError, Zeroed
<1>4. \A w, x : LET b == [Zeroed EXCEPT !.from = x, !.word = w]
                IN  b.from = x /\ b.word = w /\ b.is_nil = FALSE /\ b.read_error = FALSE
  BY DEF Zeroed
<1>5. CASE leaf.nilCheck /\ <<leaf.reg>> \in nil
  <2>1. a = IsNilArg
    BY <1>2, <1>5
  <2>2. QED
    BY <1>3, <1>5, <2>1 DEF a, addr
<1>6. CASE ~(leaf.nilCheck /\ <<leaf.reg>> \in nil) /\ (addr = Nowhere \/ ~Readable(addr, nil, unreadable))
  <2>1. a = ReadError
    BY <1>2, <1>6
  <2>2. QED
    BY <1>3, <1>6, <2>1 DEF a, addr
<1>7. CASE ~(leaf.nilCheck /\ <<leaf.reg>> \in nil) /\ ~(addr = Nowhere \/ ~Readable(addr, nil, unreadable))
  <2>1. a = [Zeroed EXCEPT !.from = addr, !.word = WordAt(addr)]
    BY <1>2, <1>7
  <2>2. a.from = addr /\ a.word = WordAt(addr) /\ a.is_nil = FALSE /\ a.read_error = FALSE
    BY <1>4, <2>1
  <2>3. QED
    BY <1>7, <2>2 DEF a, addr
<1>8. QED
  BY <1>5, <1>6, <1>7

\* A rule that only adds an offset to the register.
LEMMA AddTarget ==
    ASSUME NEW reg \in Registers, NEW c \in BOOLEAN, NEW nil, NEW unreadable
    PROVE  /\ LocSpec(reg, <<>>, c) \in LeafOf(Registers) /\ LocSpec(reg, <<>>, c).steps # <<>>
           /\ LocSpec(reg, <<>>, c).reg = reg /\ LocSpec(reg, <<>>, c).nilCheck = c
           /\ Target(LocSpec(reg, <<>>, c), nil, unreadable) = At(<<reg>>, 0)
           /\ LocSpec(reg, Add(8), c) \in LeafOf(Registers) /\ LocSpec(reg, Add(8), c).steps # <<>>
           /\ LocSpec(reg, Add(8), c).reg = reg /\ LocSpec(reg, Add(8), c).nilCheck = c
           /\ Target(LocSpec(reg, Add(8), c), nil, unreadable) = At(<<reg>>, 8)
<1>1. ASSUME NEW o \in 0 .. 64, NEW leaf \in LeafOf(Registers), leaf.reg = reg,
             leaf.steps = <<[off |-> o, deref |-> FALSE]>>
      PROVE  Target(leaf, nil, unreadable) = At(<<reg>>, o)
  <2> DEFINE r == ToRule(leaf).steps
             f == Walk(<<reg>>, r, nil, unreadable)
  <2>1. /\ r \in Seq(Step) /\ Len(r) = 1 /\ Len(leaf.steps) = 1 /\ r[1].off = o /\ r[1].deref = FALSE
    <3>1. Len(leaf.steps) = 1 /\ leaf.steps[1].off = o /\ leaf.steps[1].deref = FALSE /\ 1 \in 1 .. Len(leaf.steps)
      BY <1>1
    <3>2. QED
      BY <3>1, RuleFacts, Int16Facts
  <2>2. <<reg>> \in Paths /\ <<reg>> # <<>> /\ At(<<reg>>, 0) # Nowhere /\ At(<<reg>>, 0).off = 0
        /\ At(<<reg>>, 0).ptr = <<reg>>
    BY AddressFacts DEF At, Nowhere
  <2>3. WalksOn(<<reg>>, r, nil, unreadable, f)
    <3> HIDE DEF r
    <3> QED BY <2>1, <2>2, WalkUnfold
  <2> HIDE DEF r, f
  <2>4. f[0] = At(<<reg>>, 0) /\ f[1] = Follow(f[0], r[1], nil, unreadable)
    <3>1. 1 \in 1 .. Len(r) /\ 1 - 1 = 0
      BY <2>1
    <3>2. QED
      BY <2>3, <3>1 DEF WalksOn
  <2>5. f[1] = At(<<reg>>, o)
    BY <2>1, <2>2, <2>4 DEF Follow
  <2>6. QED
    BY <1>1, <2>1, <2>5 DEF Target, r, f
<1>2. Add(8) = <<[off |-> 8, deref |-> FALSE]>> /\ Add(8) # <<>> /\ Add(8) \in Seq(Step) /\ <<>> \in Seq(Step)
  BY StepSeqs DEF Add
<1>3. /\ LocSpec(reg, <<>>, c) \in LeafOf(Registers) /\ LocSpec(reg, Add(8), c) \in LeafOf(Registers)
  BY <1>2, LocSpecFacts
<1>4. /\ LocSpec(reg, <<>>, c).steps = <<[off |-> 0, deref |-> FALSE]>>
      /\ LocSpec(reg, <<>>, c).reg = reg /\ LocSpec(reg, <<>>, c).nilCheck = c
      /\ LocSpec(reg, Add(8), c).steps = <<[off |-> 8, deref |-> FALSE]>>
      /\ LocSpec(reg, Add(8), c).reg = reg /\ LocSpec(reg, Add(8), c).nilCheck = c
  BY <1>2 DEF LocSpec
<1>5. /\ Target(LocSpec(reg, <<>>, c), nil, unreadable) = At(<<reg>>, 0)
      /\ Target(LocSpec(reg, Add(8), c), nil, unreadable) = At(<<reg>>, 8)
  <2> DEFINE x == LocSpec(reg, <<>>, c)
             y == LocSpec(reg, Add(8), c)
  <2>1. /\ x \in LeafOf(Registers) /\ x.reg = reg /\ x.steps = <<[off |-> 0, deref |-> FALSE]>>
        /\ y \in LeafOf(Registers) /\ y.reg = reg /\ y.steps = <<[off |-> 8, deref |-> FALSE]>>
    BY <1>3, <1>4
  <2> HIDE DEF x, y
  <2>2. 0 \in 0 .. 64 /\ 8 \in 0 .. 64
    OBVIOUS
  <2>3. Target(x, nil, unreadable) = At(<<reg>>, 0)
    BY <1>1, <2>1, <2>2
  <2>4. Target(y, nil, unreadable) = At(<<reg>>, 8)
    BY <1>1, <2>1, <2>2
  <2>5. QED
    BY <2>3, <2>4 DEF x, y
<1>6. \A o : <<[off |-> o, deref |-> FALSE]>> # <<>>
  OBVIOUS
<1>7. QED
  BY <1>3, <1>4, <1>5, <1>6

\* The walk f has come to the field, and goes on along the rest.
AtField(field, reg, rest, nil, unreadable, f) ==
    /\ Len(AddAll(field)) \in Nat /\ Offset(field) \in 0 .. 64
    /\ Len(MemLeaf(field, reg, rest).steps) = Len(AddAll(field)) + Len(rest)
    /\ f[Len(AddAll(field))] = At(<<reg>>, Offset(field))
    /\ \A k \in 1 .. Len(rest) :
         \E s \in Step : /\ s.off = Int16(rest[k].off) /\ s.deref = rest[k].deref
                         /\ f[Len(AddAll(field)) + k]
                              = Follow(f[Len(AddAll(field)) + (k - 1)], s, nil, unreadable)

\* The structs around a field lead to the field.
LEMMA AddWalk ==
    ASSUME NEW field \in Field, Offset(field) <= 64, NEW reg \in Registers, NEW rest \in Seq(Step), Len(rest) > 0,
           NEW nil, NEW unreadable, NEW f,
           WalksOn(<<reg>>, ToRule(MemLeaf(field, reg, rest)).steps, nil, unreadable, f)
    PROVE  AtField(field, reg, rest, nil, unreadable, f)
<1> DEFINE leaf == MemLeaf(field, reg, rest)
           r == ToRule(leaf).steps
           q == AddAll(field)
           s == AddLens(field)
           at == field.at
           N == Len(at)
           p == q \o rest
<1>1. /\ at \in Seq(Nat) /\ N \in Nat /\ q \in Seq(Step) /\ s \in Seq(Nat) /\ Len(s) = N
      /\ Parts(q, Adds(field), Totals(s))
  BY FieldFacts, AddAllFacts
<1>2. leaf \in LeafOf(Registers) /\ leaf.steps = p
  BY MemLeafFacts
<1>3. /\ p \in Seq(Step) /\ Len(p) = Len(q) + Len(rest) /\ Len(q) \in Nat /\ Len(rest) \in Nat
      /\ \A j \in 1 .. Len(q) : p[j] = q[j]
      /\ \A k \in 1 .. Len(rest) : p[Len(q) + k] = rest[k]
  <2> HIDE DEF q
  <2>1. q \in Seq(Step) /\ rest \in Seq(Step)
    BY <1>1
  <2>2. QED
    BY <2>1, ConcatParts
<1>4. /\ r \in Seq(Step) /\ Len(r) = Len(p)
      /\ \A j \in 1 .. Len(p) : r[j].off = Int16(p[j].off) /\ r[j].deref = p[j].deref
  <2> HIDE DEF leaf
  <2>1. QED
    BY <1>2, RuleFacts
<1>5. WalksOn(<<reg>>, r, nil, unreadable, f)
  OBVIOUS
<1>6. Offset(field) = Totals(at)[N] /\ SumsUp(at, Totals(at)) /\ SumsUp(s, Totals(s))
  BY <1>1, TotalsUnfold DEF Offset
<1>7. \A i \in 1 .. N : /\ Adds(field)[i] = Add(at[i]) /\ s[i] = Len(Add(at[i]))
  BY DEF Adds, AddLens
<1>8. Len(Adds(field)) = N
  BY <1>1 DEF Adds
<1> HIDE DEF leaf, r, q, s, at, N, p
<1>9. /\ f[0] = At(<<reg>>, 0)
      /\ \A k \in 1 .. Len(r) : f[k] = Follow(f[k - 1], r[k], nil, unreadable)
  BY <1>5 DEF WalksOn
<1>10. /\ \A i \in 0 .. N : Totals(s)[i] \in Nat /\ Totals(at)[i] \in Nat
       /\ Totals(s)[0] = 0 /\ Totals(at)[0] = 0
       /\ \A i \in 1 .. N : Totals(s)[i] = Totals(s)[i - 1] + s[i] /\ Totals(at)[i] = Totals(at)[i - 1] + at[i]
       /\ Len(q) = Totals(s)[N]
  <2>1. Totals(s) \in [0 .. N -> Nat] /\ Totals(at) \in [0 .. N -> Nat]
    BY <1>1, <1>6 DEF SumsUp, N
  <2>2. \A i \in 0 .. N : Totals(s)[i] \in Nat /\ Totals(at)[i] \in Nat
    BY <2>1
  <2>3. Len(q) = Totals(s)[N]
    BY <1>1, <1>8 DEF Parts
  <2>4. QED
    BY <1>1, <1>6, <2>2, <2>3 DEF SumsUp, N
<1>11. ASSUME NEW i \in 0 .. N PROVE Totals(at)[i] <= 64 /\ Totals(s)[i] <= Len(q)
  <2>1. N \in 0 .. N /\ i <= N
    BY <1>1
  <2>2. Totals(at)[i] <= Totals(at)[N] /\ Totals(s)[i] <= Totals(s)[N]
    BY <1>1, <2>1, TotalsGrow DEF N
  <2>3. QED
    BY <1>6, <1>10, <2>1, <2>2
<1> DEFINE D == {i \in Nat : i <= N => f[Totals(s)[i]] = At(<<reg>>, Totals(at)[i])}
<1>12. 0 \in D
  BY <1>9, <1>10
<1>13. ASSUME NEW i \in Nat, i \in D PROVE i + 1 \in D
  <2> SUFFICES ASSUME i + 1 <= N PROVE f[Totals(s)[i + 1]] = At(<<reg>>, Totals(at)[i + 1])
    OBVIOUS
  <2>1. i + 1 \in 1 .. N /\ (i + 1) - 1 = i /\ i \in 0 .. N /\ i + 1 \in 0 .. N
    BY <1>1
  <2> DEFINE o == at[i + 1]
             a == Totals(at)[i]
             c == Totals(s)[i]
  <2>2. f[c] = At(<<reg>>, a) /\ a \in Nat /\ c \in Nat
    BY <1>10, <1>13, <2>1
  <2>3. o \in Nat /\ Totals(at)[i + 1] = a + o /\ a + o <= 64
    <3>1. o \in Nat
      BY <1>1, <2>1 DEF N
    <3>2. QED
      BY <1>10, <1>11, <2>1, <3>1
  <2>4. Totals(s)[i + 1] = c + Len(Add(o)) /\ Totals(s)[i + 1] <= Len(q)
    BY <1>7, <1>10, <1>11, <2>1
  <2> HIDE DEF a, c
  <2>5. CASE o = 0
    <3>1. Len(Add(o)) = 0
      BY <2>5 DEF Add
    <3>2. QED
      BY <2>2, <2>3, <2>4, <2>5, <3>1
  <2>6. CASE o # 0
    <3>1. Add(o) = <<[off |-> o, deref |-> FALSE]>>
      BY <2>6 DEF Add
    <3>2. Len(Add(o)) = 1 /\ 1 \in 1 .. Len(Add(o)) /\ Add(o)[1].off = o /\ Add(o)[1].deref = FALSE
      BY <3>1
    <3>3. q[c + 1] = Add(o)[1]
      <4>1. Adds(field)[i + 1] = Add(o)
        BY <1>7, <2>1
      <4>2. \A k \in 1 .. Len(Adds(field)[i + 1]) : q[Totals(s)[(i + 1) - 1] + k] = Adds(field)[i + 1][k]
        BY <1>1, <1>8, <2>1 DEF Parts
      <4>3. QED
        BY <2>1, <3>2, <4>1, <4>2 DEF c
    <3>4. c + 1 \in 1 .. Len(q) /\ c + 1 \in 1 .. Len(p) /\ c + 1 \in 1 .. Len(r) /\ (c + 1) - 1 = c
      BY <1>3, <1>4, <2>2, <2>4, <3>2
    <3>5. r[c + 1].off = o /\ r[c + 1].deref = FALSE
      <4>1. p[c + 1] = Add(o)[1]
        BY <1>3, <3>3, <3>4
      <4>2. o \in 0 .. 64
        <5>1. o \in Nat /\ a \in Nat /\ a + o <= 64
          BY <2>2, <2>3
        <5> HIDE DEF o
        <5>2. QED
          BY <5>1
      <4>3. r[c + 1].off = Int16(p[c + 1].off) /\ r[c + 1].deref = p[c + 1].deref
        BY <1>4, <3>4
      <4>4. p[c + 1].off = o /\ p[c + 1].deref = FALSE
        BY <3>2, <4>1
      <4>5. Int16(o) = o
        BY <4>2, Int16Facts
      <4>6. QED
        BY <4>3, <4>4, <4>5
    <3>6. f[c + 1] = Follow(At(<<reg>>, a), r[c + 1], nil, unreadable)
      BY <1>9, <2>2, <3>4
    <3>7. At(<<reg>>, a) # Nowhere /\ At(<<reg>>, a).ptr = <<reg>> /\ At(<<reg>>, a).off = a
      BY AddressFacts DEF At, Nowhere
    <3>8. f[c + 1] = At(<<reg>>, a + o)
      BY <3>5, <3>6, <3>7 DEF Follow
    <3>9. QED
      BY <2>3, <2>4, <3>2, <3>8
  <2>7. QED
    BY <2>5, <2>6
<1> HIDE DEF D
<1>14. Nat \subseteq D
  BY <1>12, <1>13, NatSetInduction
<1>15. f[Len(q)] = At(<<reg>>, Offset(field))
  <2>1. N \in D /\ N <= N
    BY <1>1, <1>14
  <2>2. f[Totals(s)[N]] = At(<<reg>>, Totals(at)[N])
    BY <2>1 DEF D
  <2>3. Len(q) = Totals(s)[N] /\ Offset(field) = Totals(at)[N]
    BY <1>6, <1>10
  <2>4. QED
    BY <2>2, <2>3
<1>16. Offset(field) \in 0 .. 64
  <2>1. N \in 0 .. N
    BY <1>1
  <2> DEFINE x == Totals(at)[N]
  <2>2. x \in Nat /\ x <= 64 /\ Offset(field) = x
    BY <1>6, <1>10, <1>11, <2>1
  <2> HIDE DEF x
  <2>3. x \in 0 .. 64
    BY <2>2
  <2>4. QED
    BY <2>2, <2>3
<1>17. ASSUME NEW k \in 1 .. Len(rest)
       PROVE  \E x \in Step : /\ x.off = Int16(rest[k].off) /\ x.deref = rest[k].deref
                              /\ f[Len(q) + k] = Follow(f[Len(q) + (k - 1)], x, nil, unreadable)
  <2>1. Len(q) + k \in 1 .. Len(p) /\ Len(q) + k \in 1 .. Len(r) /\ (Len(q) + k) - 1 = Len(q) + (k - 1)
    BY <1>3, <1>4
  <2>2. r[Len(q) + k] \in Step
    BY <1>4, <2>1
  <2>3. r[Len(q) + k].off = Int16(rest[k].off) /\ r[Len(q) + k].deref = rest[k].deref
    BY <1>3, <1>4, <2>1
  <2>4. QED
    BY <1>9, <2>1, <2>2, <2>3
<1>18. QED
  BY <1>2, <1>3, <1>15, <1>16, <1>17 DEF AtField, leaf, q

\* The rest of a rule dereferences the word at offset d of the field, and may add an
\* offset to it.
Derefs(rest, d) ==
    /\ rest \in Seq(Step) /\ Len(rest) \in {1, 2} /\ rest[1].off = d /\ rest[1].deref = TRUE
    /\ Len(rest) = 2 => rest[2].off = 8 /\ rest[2].deref = FALSE

DerefEnd(field, reg, rest, d) ==
    At(WordAt(At(<<reg>>, Offset(field) + d)), IF Len(rest) = 2 THEN 8 ELSE 0)

\* A rule that dereferences a word of a field leads to what the word points to.
LEMMA DerefTarget ==
    ASSUME NEW field \in Field, Offset(field) <= 64, NEW reg \in Registers, NEW d \in {0, 8},
           NEW rest, Derefs(rest, d), NEW nil, NEW unreadable,
           Target(MemLeaf(field, reg, rest), nil, unreadable) # Nowhere
    PROVE  Target(MemLeaf(field, reg, rest), nil, unreadable) = DerefEnd(field, reg, rest, d)
<1> DEFINE leaf == MemLeaf(field, reg, rest)
           r == ToRule(leaf).steps
           f == Walk(<<reg>>, r, nil, unreadable)
           L == Len(AddAll(field))
           o == Offset(field)
           x == WordAt(At(<<reg>>, o + d))
<1>0. /\ rest \in Seq(Step) /\ Len(rest) \in {1, 2} /\ rest[1].off = d /\ rest[1].deref = TRUE
      /\ Len(rest) = 2 => rest[2].off = 8 /\ rest[2].deref = FALSE
  BY DEF Derefs
<1>1. leaf \in LeafOf(Registers) /\ leaf.reg = reg /\ rest \in Seq(Step) /\ Len(rest) > 0
  BY <1>0, MemLeafFacts
<1>2. WalksOn(<<reg>>, r, nil, unreadable, f)
  <2>1. <<reg>> \in Paths /\ r \in Seq(Step)
    <3> HIDE DEF leaf
    <3> QED BY <1>1, AddressFacts, RuleFacts
  <2> HIDE DEF r
  <2>2. QED
    BY <2>1, WalkUnfold
<1>3. /\ L \in Nat /\ o \in 0 .. 64 /\ Len(leaf.steps) = L + Len(rest)
      /\ f[L] = At(<<reg>>, o)
      /\ \A k \in 1 .. Len(rest) :
           \E s \in Step : /\ s.off = Int16(rest[k].off) /\ s.deref = rest[k].deref
                           /\ f[L + k] = Follow(f[L + (k - 1)], s, nil, unreadable)
  <2> HIDE DEF f
  <2>1. AtField(field, reg, rest, nil, unreadable, f)
    BY <1>1, <1>2, AddWalk
  <2>2. QED
    BY <2>1 DEF AtField
<1>4. Target(leaf, nil, unreadable) = f[L + Len(rest)]
  BY <1>1, <1>3 DEF Target
<1> HIDE DEF leaf, r, f, L, o, x
<1>5. Int16(d) = d /\ Int16(8) = 8
  <2>1. d \in 0 .. 64 /\ 8 \in 0 .. 64
    OBVIOUS
  <2>2. QED
    BY <2>1, Int16Facts
<1>6. f[L + 1] = Nowhere \/ f[L + 1] = At(x, 0)
  <2>1. 1 \in 1 .. Len(rest)
    BY <1>0
  <2>2. PICK s \in Step : /\ s.off = Int16(rest[1].off) /\ s.deref = rest[1].deref
                          /\ f[L + 1] = Follow(f[L + (1 - 1)], s, nil, unreadable)
    BY <1>3, <2>1
  <2>3. L + (1 - 1) = L
    BY <1>3
  <2>4. f[L + 1] = Follow(At(<<reg>>, o), s, nil, unreadable) /\ s.off = d /\ s.deref = TRUE
    BY <1>0, <1>3, <1>5, <2>2, <2>3
  <2>5. At(<<reg>>, o).ptr = <<reg>> /\ At(<<reg>>, o).off = o
    BY DEF At
  <2>6. QED
    BY <2>4, <2>5 DEF Follow, x
<1>7. CASE Len(rest) = 1
  <2>1. f[L + 1] # Nowhere
    BY <1>4, <1>7 DEF leaf
  <2>2. QED
    BY <1>4, <1>6, <1>7, <2>1 DEF DerefEnd, leaf, x, o
<1>8. CASE Len(rest) = 2
  <2>1. 2 \in 1 .. Len(rest)
    BY <1>8
  <2>2. PICK s \in Step : /\ s.off = Int16(rest[2].off) /\ s.deref = rest[2].deref
                          /\ f[L + 2] = Follow(f[L + (2 - 1)], s, nil, unreadable)
    BY <1>3, <2>1
  <2>3. L + (2 - 1) = L + 1
    BY <1>3
  <2>4. f[L + 2] = Follow(f[L + 1], s, nil, unreadable) /\ s.off = 8 /\ s.deref = FALSE
    BY <1>0, <1>5, <1>8, <2>2, <2>3
  <2>5. f[L + 2] # Nowhere
    BY <1>4, <1>8 DEF leaf
  <2>6. f[L + 1] = At(x, 0) /\ f[L + 1] # Nowhere
    <3>1. f[L + 1] # Nowhere
      BY <2>4, <2>5 DEF Follow
    <3>2. QED
      BY <1>6, <3>1
  <2>7. At(x, 0).ptr = x /\ At(x, 0).off = 0
    BY DEF At
  <2>8. f[L + 2] = At(x, 8)
    BY <2>4, <2>6, <2>7 DEF Follow
  <2>9. QED
    BY <1>4, <1>8, <2>8 DEF DerefEnd, leaf, x, o
<1>9. QED
  BY <1>0, <1>7, <1>8

\* What a leaf of a field in memory holds, when it could be read.
Fetched(leaf, nil, unreadable, addr) ==
    LET a == ArgOf(leaf, nil, unreadable)
    IN  (~a.is_nil /\ ~a.read_error) => a.from = addr

\* The captures of a field in memory hold what its words point to, as long as the
\* offset of the field is one that 16 bits can express.
LEMMA MemLeafHolds ==
    ASSUME NEW field \in Field, Offset(field) <= 64, NEW reg \in Registers, NEW nil, NEW unreadable
    PROVE  /\ Fetched(MemLeaf(field, reg, Deref(0)), nil, unreadable,
                      At(WordAt(At(<<reg>>, Offset(field) + 0)), 0))
           /\ Fetched(MemLeaf(field, reg, Deref(8)), nil, unreadable,
                      At(WordAt(At(<<reg>>, Offset(field) + 8)), 0))
           /\ Fetched(MemLeaf(field, reg, Deref(0) \o Add(8)), nil, unreadable,
                      At(WordAt(At(<<reg>>, Offset(field) + 0)), 8))
<1>1. ASSUME NEW rest, NEW d \in {0, 8}, Derefs(rest, d)
      PROVE  Fetched(MemLeaf(field, reg, rest), nil, unreadable, DerefEnd(field, reg, rest, d))
  <2> DEFINE leaf == MemLeaf(field, reg, rest)
             addr == DerefEnd(field, reg, rest, d)
  <2>1. leaf \in LeafOf(Registers) /\ leaf.steps # <<>>
    <3>1. Len(rest) > 0 /\ rest \in Seq(Step)
      BY <1>1 DEF Derefs
    <3>2. leaf \in LeafOf(Registers) /\ leaf.steps = AddAll(field) \o rest /\ AddAll(field) \in Seq(Step)
      BY <3>1, MemLeafFacts, AddAllFacts
    <3>3. Len(leaf.steps) = Len(AddAll(field)) + Len(rest) /\ Len(AddAll(field)) \in Nat
      <4> DEFINE q == AddAll(field)
      <4>1. q \in Seq(Step) /\ leaf.steps = q \o rest
        BY <3>2
      <4> HIDE DEF q, leaf
      <4>2. q \in Seq(Step) /\ rest \in Seq(Step)
        BY <3>1, <4>1
      <4>3. Len(q \o rest) = Len(q) + Len(rest)
        BY <4>2, ConcatParts
      <4>4. QED
        BY <4>1, <4>2, <4>3 DEF q
    <3> HIDE DEF leaf
    <3>4. Len(leaf.steps) # 0
      BY <3>1, <3>3
    <3>5. QED
      BY <3>2, <3>4
  <2>2. Target(leaf, nil, unreadable) # Nowhere => Target(leaf, nil, unreadable) = addr
    BY <1>1, DerefTarget
  <2> HIDE DEF leaf, addr
  <2>3. Fetched(leaf, nil, unreadable, addr)
    BY <2>1, <2>2, MemArg DEF Fetched
  <2>4. QED
    BY <2>3 DEF leaf, addr
<1> DEFINE d0 == Deref(0)
           d8 == Deref(8)
           da == Deref(0) \o Add(8)
<1>2. /\ Derefs(d0, 0) /\ Len(d0) = 1 /\ Derefs(d8, 8) /\ Len(d8) = 1
  BY StepSeqs DEF Deref, Derefs
<1>3. Derefs(da, 0) /\ Len(da) = 2
  <2> DEFINE x == [off |-> 0, deref |-> TRUE]
             y == [off |-> 8, deref |-> FALSE]
  <2>1. x \in Step /\ y \in Step /\ x.off = 0 /\ x.deref = TRUE /\ y.off = 8 /\ y.deref = FALSE
    BY DEF Step
  <2>2. Deref(0) = <<x>> /\ Add(8) = <<y>>
    BY DEF Deref, Add
  <2> HIDE DEF x, y
  <2>3. da = <<x, y>>
    BY <2>2, Concat2
  <2>4. <<x, y>> \in Seq(Step) /\ Len(<<x, y>>) = 2 /\ <<x, y>>[1] = x /\ <<x, y>>[2] = y
    BY <2>1
  <2> HIDE DEF da
  <2>5. da \in Seq(Step) /\ Len(da) = 2 /\ da[1] = x /\ da[2] = y
    BY <2>3, <2>4
  <2>6. QED
    BY <2>1, <2>5 DEF Derefs
<1> HIDE DEF d0, d8, da
<1>4. /\ DerefEnd(field, reg, d0, 0) = At(WordAt(At(<<reg>>, Offset(field) + 0)), 0)
      /\ DerefEnd(field, reg, d8, 8) = At(WordAt(At(<<reg>>, Offset(field) + 8)), 0)
      /\ DerefEnd(field, reg, da, 0) = At(WordAt(At(<<reg>>, Offset(field) + 0)), 8)
  BY <1>2, <1>3 DEF DerefEnd
<1>5. /\ Fetched(MemLeaf(field, reg, d0), nil, unreadable, DerefEnd(field, reg, d0, 0))
      /\ Fetched(MemLeaf(field, reg, d8), nil, unreadable, DerefEnd(field, reg, d8, 8))
      /\ Fetched(MemLeaf(field, reg, da), nil, unreadable, DerefEnd(field, reg, da, 0))
  BY <1>1, <1>2, <1>3
<1>6. QED
  BY <1>4, <1>5 DEF d0, d8, da

\* What a leaf that ends at the register holds.
LEMMA BareLeafHolds ==
    ASSUME NEW reg \in Registers, NEW c \in BOOLEAN, NEW nil, NEW unreadable
    PROVE  /\ Fetched(LocSpec(reg, <<>>, c), nil, unreadable, At(<<reg>>, 0))
           /\ ArgOf(LocSpec(reg, <<>>, c), nil, unreadable).is_nil <=> (c /\ <<reg>> \in nil)
<1> DEFINE leaf == LocSpec(reg, <<>>, c)
<1>1. /\ leaf \in LeafOf(Registers) /\ leaf.steps # <<>> /\ leaf.reg = reg /\ leaf.nilCheck = c
      /\ Target(leaf, nil, unreadable) = At(<<reg>>, 0)
  BY AddTarget
<1> HIDE DEF leaf
<1>2. QED
  BY <1>1, MemArg DEF Fetched, leaf

\* The type word behind an itab.
LEMMA ItabLeafHolds ==
    ASSUME NEW reg \in Registers, NEW nil, NEW unreadable
    PROVE  LET a == ArgOf(LocSpec(reg, Add(8), TRUE), nil, unreadable)
           IN  /\ a.is_nil <=> <<reg>> \in nil
               /\ <<reg>> \notin nil \cup unreadable => a.word = WordAt(At(<<reg>>, 8)) /\ ~a.read_error
<1> DEFINE leaf == LocSpec(reg, Add(8), TRUE)
<1>1. /\ leaf \in LeafOf(Registers) /\ leaf.steps # <<>> /\ leaf.reg = reg /\ leaf.nilCheck = TRUE
      /\ Target(leaf, nil, unreadable) = At(<<reg>>, 8)
  <2>1. ASSUME NEW c \in BOOLEAN
        PROVE  /\ LocSpec(reg, Add(8), c) \in LeafOf(Registers) /\ LocSpec(reg, Add(8), c).steps # <<>>
               /\ LocSpec(reg, Add(8), c).reg = reg /\ LocSpec(reg, Add(8), c).nilCheck = c
               /\ Target(LocSpec(reg, Add(8), c), nil, unreadable) = At(<<reg>>, 8)
    BY AddTarget
  <2>2. TRUE \in BOOLEAN
    OBVIOUS
  <2>3. QED
    BY <2>1, <2>2, Zenon
<1> HIDE DEF leaf
<1>2. At(<<reg>>, 8).ptr = <<reg>> /\ At(<<reg>>, 8) # Nowhere
  BY AddressFacts DEF At, Nowhere
<1>3. <<reg>> \notin nil \cup unreadable => Readable(At(<<reg>>, 8), nil, unreadable)
  BY <1>2 DEF Readable
<1>4. QED
  BY <1>1, <1>2, <1>3, MemArg DEF leaf

-----------------------------------------------------------------------------
(* The leaves of an event. *)

\* A piece of a sequence.
LEMMA Slice ==
    ASSUME NEW S, NEW q \in Seq(S), NEW a \in Nat, NEW n \in Nat, a + n <= Len(q)
    PROVE  /\ SubSeq(q, a + 1, a + n) \in Seq(S) /\ Len(SubSeq(q, a + 1, a + n)) = n
           /\ \A k \in 1 .. n : SubSeq(q, a + 1, a + n)[k] = q[a + k]
<1> DEFINE b == a + n
           p == SubSeq(q, a + 1, b)
<1>1. b \in Nat /\ b <= Len(q) /\ b - (a + 1) + 1 = n
  OBVIOUS
<1> HIDE DEF b
<1>2. p = [k \in 1 .. n |-> q[k + (a + 1) - 1]]
  BY <1>1
<1>3. ASSUME NEW k \in 1 .. n PROVE k + (a + 1) - 1 = a + k /\ a + k \in 1 .. Len(q)
  BY <1>1 DEF b
<1> DEFINE of(k) == q[k + (a + 1) - 1]
<1>4. p = [k \in 1 .. n |-> of(k)] /\ \A k \in 1 .. n : of(k) = q[a + k] /\ q[a + k] \in S
  BY <1>2, <1>3
<1> HIDE DEF p, of
<1>5. \A k \in 1 .. n : p[k] = q[a + k]
  BY <1>4
<1>6. p \in Seq(S) /\ Len(p) = n
  <2>1. \A k \in 1 .. n : of(k) \in S
    BY <1>4
  <2>2. p = [k \in 1 .. n |-> of(k)] /\ n \in Nat
    BY <1>4
  <2>3. p \in [1 .. n -> S]
    BY <2>1, <2>2
  <2>4. QED
    BY <2>2, <2>3
<1>7. QED
  BY <1>5, <1>6 DEF p, b

\* Words and captures of value n, as the renderer finds them.
EventOf(n) ==
    LET v == values[n]
        leaf(k) == ArgOf(PlanLeaves(v.type, v.start)[k], nils, bad)
    IN  /\ Len(WordsOf(n)) = v.words /\ \A k \in 1 .. v.words : WordsOf(n)[k] = leaf(k)
        /\ Len(CapturesOf(n)) = v.captures
        /\ \A k \in 1 .. v.captures : CapturesOf(n)[k] = leaf(v.words + k)

\* renderAuto finds the leaves of value n at its cursor.
LEMMA EventFacts ==
    ASSUME PlanInv, args = FetchArgs(nils, bad), NEW n \in 1 .. Len(values)
    PROVE  EventOf(n) /\ \E S : CapturesOf(n) \in Seq(S)
<1> DEFINE v == values[n]
           c == Cursor(n)
           leaf(k) == ArgOf(PlanLeaves(v.type, v.start)[k], nils, bad)
           S == {args[i] : i \in 1 .. Len(out)}
<1>1. /\ v.words \in Nat /\ v.captures \in Nat /\ v.words > 0 /\ c \in Nat /\ LeavesOf(n)
  BY ValueFacts
<1>2. out \in Seq(LeafOf(Registers)) /\ Len(out) \in Nat
  BY DEF PlanInv, PlanTypes
<1>3. /\ Len(args) = Len(out) /\ args \in Seq(S)
      /\ \A i \in 1 .. Len(out) : args[i] = ArgOf(out[i], nils, bad)
  <2>1. Len(Rules) = Len(out) /\ \A i \in 1 .. Len(out) : Rules[i] = ToRule(out[i])
    BY <1>2 DEF Rules
  <2>2. args = [i \in 1 .. Len(out) |->
                  IF Rules[i].steps = <<>> THEN FetchFromReg(Rules[i])
                  ELSE FetchFromMemory(Rules[i], nils, bad)]
    BY <2>1 DEF FetchArgs
  <2>3. Len(args) = Len(out) /\ \A i \in 1 .. Len(out) : args[i] = ArgOf(out[i], nils, bad)
    BY <1>2, <2>1, <2>2 DEF ArgOf
  <2>4. args = [i \in 1 .. Len(out) |-> args[i]]
    BY <2>2
  <2> DEFINE A == args
  <2>5. A = [i \in 1 .. Len(out) |-> A[i]] /\ \A i \in 1 .. Len(out) : A[i] \in S
    BY <2>4
  <2> HIDE DEF A, S
  <2>6. A \in Seq(S)
    BY <1>2, <2>5
  <2>7. QED
    BY <2>3, <2>6 DEF A
<1> HIDE DEF c, S
<1>4. ASSUME NEW k \in 1 .. v.words + v.captures PROVE c + k <= Len(out) /\ args[c + k] = leaf(k)
  <2>1. k \in 1 .. LeafCount(v)
    BY DEF LeafCount
  <2>2. c + k \in 1 .. Len(out) /\ out[c + k] = PlanLeaves(v.type, v.start)[k]
    BY <1>1, <2>1 DEF LeavesOf, c
  <2>3. QED
    BY <1>2, <1>3, <2>2
<1> DEFINE w == v.words
           u == v.captures
<1>5. w \in Nat /\ u \in Nat /\ w > 0 /\ w + u \in 1 .. w + u /\ c + (w + u) <= Len(args)
  <2>1. w + u \in 1 .. w + u
    BY <1>1
  <2>2. QED
    BY <1>1, <1>3, <1>4, <2>1
<1>6. WordsOf(n) = SubSeq(args, c + 1, c + w) /\ CapturesOf(n) = SubSeq(args, c + w + 1, c + (w + u))
  BY DEF WordsOf, CapturesOf, LeafCount, c
<1> HIDE DEF v, w, u, leaf
<1>7. Len(WordsOf(n)) = w /\ \A k \in 1 .. w : WordsOf(n)[k] = args[c + k]
  <2>1. c + w <= Len(args) /\ c \in Nat /\ w \in Nat /\ args \in Seq(S)
    BY <1>1, <1>2, <1>3, <1>5
  <2>2. QED
    BY <1>6, <2>1, Slice
<1>8. /\ Len(CapturesOf(n)) = u /\ CapturesOf(n) \in Seq(S)
      /\ \A k \in 1 .. u : CapturesOf(n)[k] = args[(c + w) + k]
  <2> DEFINE d == c + w
  <2>1. d \in Nat /\ c + (w + u) = d + u /\ d + u <= Len(args) /\ args \in Seq(S)
    BY <1>1, <1>2, <1>3, <1>5
  <2>2. CapturesOf(n) = SubSeq(args, d + 1, d + u)
    BY <1>6, <2>1
  <2> HIDE DEF d
  <2>3. /\ Len(CapturesOf(n)) = u /\ CapturesOf(n) \in Seq(S)
        /\ \A k \in 1 .. u : CapturesOf(n)[k] = args[d + k]
    BY <1>5, <2>1, <2>2, Slice
  <2>4. QED
    BY <2>3 DEF d
<1>9. \A k \in 1 .. w : WordsOf(n)[k] = leaf(k)
  <2> TAKE k \in 1 .. w
  <2>1. k \in 1 .. v.words + v.captures
    BY <1>5 DEF w, u
  <2>2. QED
    BY <1>4, <1>7, <2>1 DEF leaf
<1>10. \A k \in 1 .. u : CapturesOf(n)[k] = leaf(w + k)
  <2> TAKE k \in 1 .. u
  <2>1. w + k \in 1 .. v.words + v.captures /\ (c + w) + k = c + (w + k)
    BY <1>1, <1>5, SMTT(40) DEF w, u
  <2>2. args[c + (w + k)] = leaf(w + k)
    BY <1>4, <2>1 DEF leaf
  <2>3. QED
    BY <1>8, <2>1, <2>2
<1>11. QED
  BY <1>7, <1>8, <1>9, <1>10 DEF EventOf, leaf, v, w, u

\* A value in registers: each word is its register, except the type word of an
\* interface with methods.
IsRegister(a, reg) == a.word = <<reg>> /\ a.is_nil = FALSE /\ a.read_error = FALSE
IsTypeWord(a, reg) ==
    /\ a.is_nil <=> <<reg>> \in nils
    /\ <<reg>> \notin nils \cup bad => a.word = WordAt(At(<<reg>>, 8)) /\ ~a.read_error

\* A register leaf is never nil and never fails.
LEMMA RegisterIs ==
    ASSUME NEW reg \in Registers
    PROVE  IsRegister(ArgOf(RegLeaf(reg), nils, bad), reg)
<1>1. RegLeaf(reg) \in LeafOf(Registers) /\ RegLeaf(reg).steps = <<>> /\ RegLeaf(reg).reg = reg
  BY StepSeqs, LocSpecFacts DEF RegLeaf
<1>2. QED
  BY <1>1, RegArg DEF IsRegister

\* The words of a value in registers, as they were fetched.
LEMMA ValueWord ==
    ASSUME PlanInv, args = FetchArgs(nils, bad), NEW n \in 1 .. Len(values), ~Behind(values[n].type),
           NEW i \in 1 .. Len(values[n].type.fields), NEW k \in 1 .. Words(values[n].type.fields[i])
    PROVE  LET t == values[n].type
               b == Before(t, i)
               r == abiRegs[values[n].start + b + k]
               a == WordsOf(n)[b + k]
           IN  /\ b \in Nat /\ b + k \in 1 .. values[n].words /\ r \in Registers
               /\ IF t.fields[i].kind = "iface" /\ k = 1 THEN IsTypeWord(a, r) ELSE IsRegister(a, r)
<1> DEFINE v == values[n]
           t == v.type
           field == t.fields[i]
           b == Before(t, i)
           w == v.start
<1>1. /\ t \in Type /\ w \in Nat /\ v.words = WordCount(t) /\ v.words > 0 /\ v.words \in Nat
      /\ w + v.words <= 8 /\ Owns(w, v.words, Registers) /\ Shape(PlanLeaves(t, w), t, w) /\ EventOf(n)
  BY ValueFacts, EventFacts
<1>2. ~Behind(t) /\ AbiWordCount(t) = v.words
  BY <1>1 DEF WordCount
<1>3. b \in Nat /\ b + Words(field) <= v.words /\ Words(field) \in 1 .. 3
  BY <1>1, <1>2, OwnsField, SMTT(40)
<1>4. b + k \in 1 .. v.words /\ k \in 1 .. 3
  BY <1>1, <1>3, SMTT(40)
<1>5. abiRegs[w + (b + k)] \in Registers /\ w + (b + k) = (w + b) + k
  BY <1>1, <1>3, <1>4, SMTT(40) DEF Owns
<1>6. PlanLeaves(t, w)[b + k] = WordLeaves(field, w + b)[k]
  BY <1>1, <1>2 DEF Shape, ValueShape
<1>7. WordsOf(n)[b + k] = ArgOf(PlanLeaves(t, w)[b + k], nils, bad)
  BY <1>1, <1>4 DEF EventOf
<1> DEFINE r == abiRegs[(w + b) + k]
<1>8. WordLeaves(field, w + b)[k] = IF field.kind = "iface" /\ k = 1 THEN LocSpec(abiRegs[(w + b) + 1], Add(8), TRUE)
                                    ELSE RegLeaf(r)
  BY DEF WordLeaves
<1> DEFINE a == WordsOf(n)[b + k]
<1> HIDE DEF b, w, a, field, t
<1>9. CASE field.kind = "iface" /\ k = 1
  <2>1. a = ArgOf(LocSpec(r, Add(8), TRUE), nils, bad) /\ r \in Registers
    BY <1>5, <1>6, <1>7, <1>8, <1>9 DEF a
  <2>2. IsTypeWord(a, r)
    <3> HIDE DEF r
    <3> QED BY <2>1, ItabLeafHolds DEF IsTypeWord
  <2>3. QED
    BY <1>3, <1>4, <1>5, <1>9, <2>2 DEF a, b, w, t, field
<1>10. CASE ~(field.kind = "iface" /\ k = 1)
  <2>1. a = ArgOf(RegLeaf(r), nils, bad) /\ r \in Registers
    BY <1>5, <1>6, <1>7, <1>8, <1>10 DEF a
  <2>2. IsRegister(a, r)
    BY <2>1, RegisterIs
  <2>3. QED
    BY <1>3, <1>4, <1>5, <1>10, <2>1, <2>2 DEF a, b, w, t, field
<1>11. QED
  BY <1>9, <1>10

\* A pointer: its word is the register, and the first capture is the object.
LEMMA PointerWord ==
    ASSUME PlanInv, args = FetchArgs(nils, bad), NEW n \in 1 .. Len(values), Behind(values[n].type)
    PROVE  LET r == abiRegs[values[n].start + 1]
               c == CapturesOf(n)[1]
           IN  /\ r \in Registers /\ values[n].words = 1 /\ values[n].captures >= 1
               /\ IsRegister(WordsOf(n)[1], r)
               /\ c.is_nil <=> <<r>> \in nils
               /\ (~c.is_nil /\ ~c.read_error) => c.from = At(<<r>>, 0)
<1> DEFINE v == values[n]
           t == v.type
           w == v.start
           r == abiRegs[w + 1]
<1>1. /\ t \in Type /\ w \in Nat /\ v.words = WordCount(t) /\ v.captures = Captures(t)
      /\ Owns(w, v.words, Registers) /\ Shape(PlanLeaves(t, w), t, w) /\ EventOf(n)
      /\ v.words \in Nat /\ v.captures \in Nat
  BY ValueFacts, EventFacts
<1>2. v.words = 1 /\ v.captures >= 1
  <2>1. v.words = 1 /\ v.captures = 1 + Totals(MemSeq(t))[Len(t.fields)]
    BY <1>1, CountFacts
  <2>2. Extras(t) \in Nat /\ Captures(t) = 1 + Extras(t)
    BY <1>1, CountFacts DEF Captures
  <2> DEFINE e == Extras(t)
  <2>3. e \in Nat /\ v.captures = 1 + e
    BY <1>1, <2>2
  <2> HIDE DEF e
  <2>4. 1 + e >= 1
    BY <2>3
  <2>5. QED
    BY <2>1, <2>3, <2>4
<1>3. r \in Registers
  BY <1>1, <1>2 DEF Owns
<1>4. PlanLeaves(t, w)[1] = RegLeaf(r) /\ PlanLeaves(t, w)[2] = LocSpec(r, <<>>, TRUE)
  BY <1>1 DEF Shape, PointerShape
<1>5. WordsOf(n)[1] = ArgOf(RegLeaf(r), nils, bad)
  BY <1>1, <1>2, <1>4 DEF EventOf
<1>6. CapturesOf(n)[1] = ArgOf(LocSpec(r, <<>>, TRUE), nils, bad)
  <2>1. 1 \in 1 .. v.captures /\ v.words + 1 = 2
    BY <1>1, <1>2
  <2>2. QED
    BY <1>1, <1>4, <2>1 DEF EventOf
<1> HIDE DEF r, w, t, v
<1>7. /\ Fetched(LocSpec(r, <<>>, TRUE), nils, bad, At(<<r>>, 0))
      /\ ArgOf(LocSpec(r, <<>>, TRUE), nils, bad).is_nil <=> <<r>> \in nils
  <2>1. ASSUME NEW c \in BOOLEAN
        PROVE  /\ Fetched(LocSpec(r, <<>>, c), nils, bad, At(<<r>>, 0))
               /\ ArgOf(LocSpec(r, <<>>, c), nils, bad).is_nil <=> (c /\ <<r>> \in nils)
    BY <1>3, BareLeafHolds
  <2>2. TRUE \in BOOLEAN
    OBVIOUS
  <2>3. QED
    BY <2>1, <2>2, Zenon
<1>8. IsRegister(WordsOf(n)[1], r)
  BY <1>3, <1>5, RegisterIs
<1>9. QED
  BY <1>2, <1>3, <1>6, <1>7, <1>8 DEF Fetched, r, w, v

-----------------------------------------------------------------------------
(* Nil. *)

\* Each leaf of the plan is read from a register of its value.
LEMMA LeafOwner ==
    ASSUME PlanInv, NEW i \in 1 .. Len(out)
    PROVE  \E m \in 1 .. Len(values) : \E k \in 1 .. LeafCount(values[m]) :
             /\ i = Cursor(m) + k /\ out[i] = PlanLeaves(values[m].type, values[m].start)[k]
             /\ \E j \in 1 .. values[m].words : out[i].reg = abiRegs[values[m].start + j]
<1> DEFINE s == CountSeq(values)
<1>1. values \in Seq(Value) /\ LaidOut(values, out)
  BY DEF PlanInv, PlanTypes, PlanShape
<1>2. /\ s \in Seq(Nat) /\ Len(s) = Len(values) /\ \A m \in 1 .. Len(values) : s[m] = LeafCount(values[m])
      /\ Len(out) = Totals(s)[Len(s)] /\ \A m : Cursor(m) = Totals(s)[m - 1]
  <2>1. Len(s) = Len(values)
    BY <1>1, CursorsFacts
  <2>2. QED
    BY <1>1, <2>1, CursorsFacts, CursorIs DEF LaidOut, Cursors
<1> HIDE DEF s
<1>3. PICK m \in 1 .. Len(s) : \E k \in 1 .. s[m] : i = Totals(s)[m - 1] + k
  <2>1. s \in Seq(Nat) /\ i \in 1 .. Totals(s)[Len(s)]
    BY <1>2
  <2>2. QED
    BY <2>1, TotalsLocate
<1>4. PICK k \in 1 .. s[m] : i = Totals(s)[m - 1] + k
  BY <1>3
<1>5. m \in 1 .. Len(values) /\ k \in 1 .. LeafCount(values[m]) /\ i = Cursor(m) + k
  <2>1. m \in 1 .. Len(values)
    BY <1>2
  <2>2. s[m] = LeafCount(values[m]) /\ Cursor(m) = Totals(s)[m - 1]
    BY <1>2, <2>1
  <2>3. QED
    BY <1>4, <2>1, <2>2
<1> DEFINE v == values[m]
           q == PlanLeaves(v.type, v.start)
           R == {abiRegs[v.start + j] : j \in 1 .. v.words}
<1>6. /\ v.type \in Type /\ v.start \in Nat /\ v.words = WordCount(v.type) /\ v.words > 0
      /\ v.captures = Captures(v.type) /\ LeavesOf(m) /\ v.words \in Nat
  BY <1>5, ValueFacts
<1>7. out[i] = q[k]
  BY <1>5, <1>6 DEF LeavesOf
<1>8. Owns(v.start, WordCount(v.type), R)
  BY <1>6 DEF Owns
<1>9. q \in Seq(LeafOf(R)) /\ Len(q) = LeafCount(v)
  <2> HIDE DEF R
  <2> QED BY <1>6, <1>8, PlanLeavesFacts DEF LeafCount
<1>10. q[k].reg \in R
  <2> HIDE DEF q, R
  <2>1. q[k] \in LeafOf(R)
    BY <1>5, <1>9 DEF v
  <2>2. QED
    BY <2>1 DEF LeafOf
<1>11. QED
  BY <1>5, <1>7, <1>10

\* A walk from a register stays in what the register leads to.
LEMMA WalkHead ==
    ASSUME NEW reg \in Registers, NEW steps \in Seq(Step), NEW nil, NEW unreadable, NEW f,
           WalksOn(<<reg>>, steps, nil, unreadable, f)
    PROVE  \A k \in 0 .. Len(steps) : f[k] = Nowhere \/ (Len(f[k].ptr) > 0 /\ f[k].ptr[1] = reg)
<1> DEFINE Headed(k) == f[k] = Nowhere \/ (Len(f[k].ptr) > 0 /\ f[k].ptr[1] = reg)
           D == {k \in Nat : k <= Len(steps) => Headed(k)}
<1>1. Len(steps) \in Nat /\ f \in [0 .. Len(steps) -> Addresses]
  BY DEF WalksOn
<1>2. 0 \in D
  <2>1. f[0].ptr = <<reg>>
    BY DEF WalksOn, At
  <2>2. Len(<<reg>>) = 1 /\ <<reg>>[1] = reg
    OBVIOUS
  <2> DEFINE p == f[0].ptr
  <2>3. Len(p) = 1 /\ p[1] = reg
    BY <2>1, <2>2
  <2>4. 0 \in Nat /\ Headed(0)
    <3> HIDE DEF p
    <3>1. Len(p) > 0
      BY <2>3
    <3>2. QED
      BY <2>3, <3>1 DEF p
  <2> HIDE DEF Headed
  <2>5. QED
    BY <2>4
<1>3. ASSUME NEW k \in Nat, k \in D PROVE k + 1 \in D
  <2> SUFFICES ASSUME k + 1 <= Len(steps) PROVE Headed(k + 1)
    OBVIOUS
  <2>1. k + 1 \in 1 .. Len(steps) /\ (k + 1) - 1 = k /\ k \in 0 .. Len(steps) /\ Headed(k)
    BY <1>1, <1>3
  <2> DEFINE a == f[k]
             s == steps[k + 1]
             p == a.ptr
  <2>2. f[k + 1] = Follow(a, s, nil, unreadable) /\ a \in Addresses /\ p \in Paths /\ s \in Step
    <3>1. a \in Addresses
      BY <1>1, <2>1
    <3>2. f[k + 1] = Follow(f[(k + 1) - 1], steps[k + 1], nil, unreadable)
      BY <2>1 DEF WalksOn
    <3>3. s \in Step
      BY <2>1
    <3>4. p \in Paths
      BY <3>1, AddressFacts
    <3>5. QED
      BY <2>1, <3>1, <3>2, <3>3, <3>4
  <2>3. a = Nowhere \/ (Len(p) > 0 /\ p[1] = reg)
    BY <2>1
  <2> HIDE DEF s
  <2>4. f[k + 1] = Nowhere \/ f[k + 1].ptr = p \/ \E o \in Int : f[k + 1].ptr = Append(p, o)
    <3>1. /\ At(p, a.off + s.off).ptr = p
          /\ At(WordAt(At(p, a.off + s.off)), 0).ptr = Append(p, a.off + s.off)
      BY DEF At, WordAt
    <3>2. a.off + s.off \in Int
      <4> HIDE DEF a
      <4>1. a.off \in Int /\ s.off \in Int
        BY <2>2, AddressFacts DEF Step
      <4>2. QED
        BY <4>1
    <3>3. f[k + 1] = Nowhere \/ f[k + 1] = At(p, a.off + s.off) \/ f[k + 1] = At(WordAt(At(p, a.off + s.off)), 0)
      <4> HIDE DEF a
      <4>1. f[k + 1] = Follow(a, s, nil, unreadable)
        BY <2>2
      <4>2. QED
        BY <4>1 DEF Follow
    <3>4. QED
      BY <3>1, <3>2, <3>3
  <2>5. a = Nowhere => f[k + 1] = Nowhere
    BY <2>2 DEF Follow
  <2>6. \A o \in Int : Len(p) > 0 => Len(Append(p, o)) > 0 /\ Append(p, o)[1] = p[1]
    <3> HIDE DEF p
    <3> QED BY <2>2 DEF Paths
  <2> HIDE DEF a, p, s
  <2>7. CASE a = Nowhere
    BY <2>5, <2>7
  <2>8. CASE a # Nowhere
    BY <2>3, <2>4, <2>6, <2>8
  <2>9. QED
    BY <2>7, <2>8
<1> HIDE DEF D, Headed
<1>4. Nat \subseteq D
  BY <1>2, <1>3, NatSetInduction
<1>5. QED
  BY <1>1, <1>4 DEF D, Headed

\* A rule that only adds stays at the register.
LEMMA StayTarget ==
    ASSUME NEW leaf \in LeafOf(Registers), Len(leaf.steps) = 1, leaf.steps[1].deref = FALSE,
           NEW nil, NEW unreadable, NEW k \in 0 .. 1
    PROVE  Walk(<<leaf.reg>>, ToRule(leaf).steps, nil, unreadable)[k].ptr = <<leaf.reg>>
<1> DEFINE r == ToRule(leaf).steps
           f == Walk(<<leaf.reg>>, r, nil, unreadable)
<1>1. /\ r \in Seq(Step) /\ Len(r) = 1 /\ r[1].deref = FALSE /\ leaf.reg \in Registers
  <2>1. 1 \in 1 .. Len(leaf.steps)
    OBVIOUS
  <2>2. QED
    BY <2>1, RuleFacts
<1>2. <<leaf.reg>> \in Paths /\ At(<<leaf.reg>>, 0) # Nowhere /\ At(<<leaf.reg>>, 0).ptr = <<leaf.reg>>
  BY <1>1, AddressFacts DEF At, Nowhere
<1>3. WalksOn(<<leaf.reg>>, r, nil, unreadable, f)
  <2> HIDE DEF r
  <2> QED BY <1>1, <1>2, WalkUnfold
<1> HIDE DEF r, f
<1>4. f[0] = At(<<leaf.reg>>, 0) /\ f[1] = Follow(f[0], r[1], nil, unreadable)
  <2>1. 1 \in 1 .. Len(r) /\ 1 - 1 = 0
    BY <1>1
  <2>2. QED
    BY <1>3, <2>1 DEF WalksOn
<1>5. f[1].ptr = <<leaf.reg>>
  BY <1>1, <1>2, <1>4 DEF Follow, At
<1>6. QED
  BY <1>2, <1>4, <1>5 DEF f, r

\* The one field of a plain value.
LEMMA PlainFacts ==
    ASSUME PlanInv, NEW n \in 1 .. Len(values), values[n].type.form = "plain"
    PROVE  LET t == values[n].type
           IN  /\ Len(t.fields) = 1 /\ 1 \in 1 .. Len(t.fields) /\ ~Behind(t)
               /\ Before(t, 1) = 0 /\ values[n].words = Words(t.fields[1])
               /\ Words(t.fields[1]) \in 1 .. 3 /\ t.fields[1] \in Field
               /\ values[n].captures = ExtraInRegisters(t.fields[1])
<1> DEFINE t == values[n].type
<1>1. /\ t \in Type /\ t = sig[values[n].param] /\ values[n].param \in 1 .. Len(sig) /\ sig \in Signatures
      /\ values[n].words = WordCount(t) /\ values[n].words > 0 /\ values[n].captures = Captures(t)
  BY ValueFacts
<1>2. Len(t.fields) = 1 /\ 1 \in 1 .. Len(t.fields) /\ ~Behind(t)
  <2>1. Len(t.fields) = 1
    BY <1>1, SigFacts
  <2>2. QED
    BY <2>1 DEF Behind
<1>3. AbiWordCount(t) = values[n].words /\ AbiWordCount(t) > 0
  BY <1>1, <1>2 DEF WordCount
<1>4. /\ AbiWordCount(t) = Totals(WordSeq(t))[1] /\ Words(t.fields[1]) \in 1 .. 3
      /\ Before(t, 1) = Totals(WordSeq(t))[0] /\ Captures(t) = Totals(RegSeq(t))[1]
  <2>1. 1 \in 1 .. Len(t.fields) + 1 /\ 1 - 1 = 0
    BY <1>2
  <2>2. QED
    BY <1>1, <1>2, <1>3, <2>1, CountFacts
<1>5. /\ Totals(WordSeq(t))[0] = 0 /\ Totals(WordSeq(t))[1] = Totals(WordSeq(t))[0] + Words(t.fields[1])
      /\ Totals(RegSeq(t))[0] = 0
      /\ Totals(RegSeq(t))[1] = Totals(RegSeq(t))[0] + ExtraInRegisters(t.fields[1])
  <2> DEFINE s == WordSeq(t)
             r == RegSeq(t)
  <2>1. /\ s \in Seq(Nat) /\ Len(s) = 1 /\ s[1] = Words(t.fields[1])
        /\ r \in Seq(Nat) /\ Len(r) = 1 /\ r[1] = ExtraInRegisters(t.fields[1])
    BY <1>1, <1>2, SeqFacts
  <2> HIDE DEF s, r
  <2>2. SumsUp(s, Totals(s)) /\ SumsUp(r, Totals(r)) /\ 1 \in 1 .. Len(s) /\ 1 \in 1 .. Len(r) /\ 1 - 1 = 0
    BY <2>1, TotalsUnfold
  <2>3. Totals(s)[0] = 0 /\ Totals(s)[1] = Totals(s)[0] + s[1] /\ Totals(r)[0] = 0
        /\ Totals(r)[1] = Totals(r)[0] + r[1]
    BY <2>2 DEF SumsUp
  <2>4. QED
    BY <2>1, <2>3 DEF s, r
<1>6. t.fields[1] \in Field
  BY <1>1, <1>2, TypeFacts
<1>7. Words(t.fields[1]) \in Nat /\ ExtraInRegisters(t.fields[1]) \in Nat
  BY <1>6, FieldFacts
<1>8. QED
  BY <1>1, <1>2, <1>3, <1>4, <1>5, <1>6, <1>7

\* The word behind an itab is one step away from the register.
LEMMA PathFacts ==
    ASSUME NEW reg \in Registers
    PROVE  LET x == WordAt(At(<<reg>>, 8))
           IN  Len(<<reg>>) = 1 /\ Len(x) = 2 /\ x[1] = reg /\ x # <<>>
<1> DEFINE p == <<reg>>
<1>1. p \in Seq(Registers \cup Int) /\ Len(p) = 1 /\ p[1] = reg /\ WordAt(At(p, 8)) = Append(p, 8)
  BY DEF WordAt, At
<1> HIDE DEF p
<1> DEFINE S == Registers \cup Int
           y == Append(p, 8)
<1>2. p \in Seq(S) /\ 8 \in S
  BY <1>1
<1> HIDE DEF S
<1>3. Len(y) = Len(p) + 1 /\ y[1] = p[1]
  <2> DEFINE o == 8
  <2>1. o \in S
    BY <1>2
  <2> HIDE DEF o
  <2>2. Len(Append(p, o)) = Len(p) + 1
    BY <1>2, <2>1
  <2>3. Append(p, o)[1] = p[1]
    BY <1>1, <1>2, <2>1
  <2>4. QED
    BY <2>2, <2>3 DEF o
<1> HIDE DEF y
<1>4. Len(y) = 2 /\ y[1] = reg
  BY <1>1, <1>3
<1>5. y # <<>>
  BY <1>4
<1>6. Len(p) = 1 /\ WordAt(At(p, 8)) = y
  BY <1>1 DEF y
<1>7. QED
  BY <1>4, <1>5, <1>6 DEF p

\* The leaves of an interface with methods.
LEMMA IfaceLeaves ==
    ASSUME PlanInv, NEW n \in 1 .. Len(values), Plain(values[n], {"iface"})
    PROVE  LET v == values[n]
               q == PlanLeaves(v.type, v.start)
           IN  /\ v.words = 2 /\ v.captures = 1
               /\ q[1] = LocSpec(abiRegs[v.start + 1], Add(8), TRUE)
               /\ q[2] = RegLeaf(abiRegs[v.start + 2])
               /\ q[3] = LocSpec(abiRegs[v.start + 2], <<>>, TRUE)
<1> DEFINE v == values[n]
           t == v.type
           field == t.fields[1]
           w == v.start
           q == PlanLeaves(t, w)
<1>1. /\ t \in Type /\ w \in Nat /\ v.words = WordCount(t) /\ Shape(q, t, w)
  BY ValueFacts
<1>2. t.form = "plain" /\ field.kind = "iface"
  BY DEF Plain
<1>3. /\ ~Behind(t) /\ 1 \in 1 .. Len(t.fields) /\ Before(t, 1) = 0 /\ v.words = Words(field)
      /\ v.captures = ExtraInRegisters(field)
  BY <1>2, PlainFacts
<1>4. Words(field) = 2 /\ ExtraInRegisters(field) = 1
  BY <1>2 DEF Words, ExtraInRegisters, Interface
<1>5. ValueShape(q, t, w) /\ AbiWordCount(t) = 2
  BY <1>1, <1>3, <1>4 DEF Shape, WordCount
<1>6. Totals(RegSeq(t))[0] = 0
  BY <1>1, SeqFacts, TotalsUnfold DEF SumsUp
<1>7. /\ \A k \in 1 .. Words(field) : q[Before(t, 1) + k] = WordLeaves(field, w + Before(t, 1))[k]
      /\ \A k \in 1 .. ExtraInRegisters(field) :
           q[AbiWordCount(t) + (Totals(RegSeq(t))[1 - 1] + k)] = RegCaptures(field, w + Before(t, 1))[k]
  BY <1>3, <1>5 DEF ValueShape
<1> HIDE DEF q, field
<1>8. q[0 + 1] = WordLeaves(field, w + 0)[1] /\ q[0 + 2] = WordLeaves(field, w + 0)[2]
      /\ q[2 + (0 + 1)] = RegCaptures(field, w + 0)[1]
  BY <1>3, <1>4, <1>5, <1>6, <1>7
<1>9. w + 0 = w /\ 0 + 1 = 1 /\ 0 + 2 = 2 /\ 2 + (0 + 1) = 3
  BY <1>1
<1>10. WordLeaves(field, w)[1] = LocSpec(abiRegs[w + 1], Add(8), TRUE)
       /\ WordLeaves(field, w)[2] = RegLeaf(abiRegs[w + 2])
  BY <1>2, <1>4 DEF WordLeaves, field
<1>11. RegCaptures(field, w)[1] = LocSpec(abiRegs[w + 2], <<>>, TRUE)
  BY <1>2 DEF RegCaptures, Interface, field
<1>12. q[1] = LocSpec(abiRegs[w + 1], Add(8), TRUE) /\ q[2] = RegLeaf(abiRegs[w + 2])
       /\ q[3] = LocSpec(abiRegs[w + 2], <<>>, TRUE)
  BY <1>8, <1>9, <1>10, <1>11
<1>13. QED
  BY <1>3, <1>4, <1>12 DEF q

\* No rule dereferences the word behind an itab, and no other value shares its
\* register: the hit never takes the type word for a pointer of its own.
LEMMA ItabElsewhere ==
    ASSUME PlanInv, NEW n \in 1 .. Len(values), Plain(values[n], {"iface"})
    PROVE  WordAt(At(<<abiRegs[values[n].start + 1]>>, 8)) \notin Pointers
<1> DEFINE v == values[n]
           w == v.start
           r == abiRegs[w + 1]
           x == WordAt(At(<<r>>, 8))
           q == PlanLeaves(v.type, w)
<1>1. /\ w \in Nat /\ v.words \in Nat /\ v.words > 0 /\ w + v.words <= 8 /\ Owns(w, v.words, Registers)
  BY ValueFacts
<1>2. /\ v.words = 2 /\ v.captures = 1 /\ q[1] = LocSpec(r, Add(8), TRUE)
      /\ q[2] = RegLeaf(abiRegs[w + 2]) /\ q[3] = LocSpec(abiRegs[w + 2], <<>>, TRUE)
  BY IfaceLeaves
<1>3. r \in Registers /\ abiRegs[w + 2] # r
  <2>1. 1 \in 1 .. v.words /\ w + 1 \in 1 .. 9 /\ w + 2 \in 1 .. 9 /\ w + 1 # w + 2
    BY <1>1, <1>2, SMTT(40)
  <2>2. QED
    BY <1>1, <2>1, RegisterRoundTrip DEF Owns
<1>4. Len(x) = 2 /\ x[1] = r
  BY <1>3, PathFacts
<1> HIDE DEF x, q
<1>5. ASSUME NEW u \in ToSet(values) PROVE x # <<abiRegs[u.start + 1]>>
  <2> DEFINE b == abiRegs[u.start + 1]
             p == <<b>>
  <2> HIDE DEF b
  <2>1. Len(p) = 1
    OBVIOUS
  <2> HIDE DEF p
  <2>2. x # p
    BY <1>4, <2>1
  <2>3. QED
    BY <2>2 DEF p, b
<1>6. /\ out \in Seq(LeafOf(Registers)) /\ Len(out) \in Nat /\ values \in Seq(Value) /\ Disjoint(values, wi)
  BY DEF PlanInv, PlanTypes, PlanShape
<1>7. Len(Rules) = Len(out) /\ \A i \in 1 .. Len(out) : Rules[i] = ToRule(out[i])
  BY <1>6 DEF Rules
<1>8. ASSUME NEW i \in 1 .. Len(Rules), Rules[i].steps # <<>>, NEW k \in 0 .. Len(Rules[i].steps),
             x = Walk(ReadReg(Rules[i].reg), Rules[i].steps, {}, {})[k].ptr
      PROVE  FALSE
  <2> DEFINE leaf == out[i]
             steps == ToRule(leaf).steps
             f == Walk(<<leaf.reg>>, steps, {}, {})
  <2>1. i \in 1 .. Len(out) /\ leaf \in LeafOf(Registers) /\ Rules[i] = ToRule(leaf)
    BY <1>6, <1>7
  <2>2. /\ ReadReg(Rules[i].reg) = <<leaf.reg>> /\ leaf.reg \in Registers /\ steps \in Seq(Step)
        /\ Len(steps) = Len(leaf.steps) /\ leaf.steps # <<>> /\ leaf.steps \in Seq(Step)
    <3> HIDE DEF leaf
    <3> QED BY <1>8, <2>1, RuleFacts
  <2>3. x = f[k].ptr /\ k \in 0 .. Len(steps)
    BY <1>8, <2>1, <2>2
  <2>4. WalksOn(<<leaf.reg>>, steps, {}, {}, f)
    <3>1. <<leaf.reg>> \in Paths
      BY <2>2, AddressFacts
    <3> HIDE DEF steps, leaf
    <3> QED BY <2>2, <3>1, WalkUnfold
  <2>5. leaf.reg = r
    <3> HIDE DEF f, steps, leaf
    <3>1. f[k] = Nowhere \/ (Len(f[k].ptr) > 0 /\ f[k].ptr[1] = leaf.reg)
      BY <2>2, <2>3, <2>4, WalkHead
    <3>2. Nowhere.ptr = <<>> /\ Len(<<>>) = 0
      BY DEF Nowhere, At
    <3>3. x[1] = leaf.reg
      BY <1>4, <2>3, <3>1, <3>2
    <3>4. QED
      BY <1>4, <3>3
  <2>6. PICK m \in 1 .. Len(values) : \E kk \in 1 .. LeafCount(values[m]) :
            /\ leaf = PlanLeaves(values[m].type, values[m].start)[kk]
            /\ \E j \in 1 .. values[m].words : leaf.reg = abiRegs[values[m].start + j]
    BY <2>1, LeafOwner
  <2>7. PICK kk \in 1 .. LeafCount(values[m]) :
            /\ leaf = PlanLeaves(values[m].type, values[m].start)[kk]
            /\ \E j \in 1 .. values[m].words : leaf.reg = abiRegs[values[m].start + j]
    BY <2>6
  <2>8. PICK j \in 1 .. values[m].words : leaf.reg = abiRegs[values[m].start + j]
    BY <2>7
  <2>9. m = n
    <3>1. /\ values[m].start \in Nat /\ values[m].words \in Nat /\ values[m].start + values[m].words <= 8
      BY ValueFacts
    <3>2. values[m].start + j \in 1 .. 9 /\ w + 1 \in 1 .. 9
      <4> DEFINE a == values[m].start
                 d == values[m].words
                 e == v.words
      <4>1. /\ a \in Nat /\ d \in Nat /\ a + d <= 8 /\ j \in 1 .. d
            /\ w \in Nat /\ e \in Nat /\ w + e <= 8
        BY <1>1, <3>1
      <4> HIDE DEF a, d, e, w
      <4>2. a + j \in 1 .. 9 /\ w + 1 \in 1 .. 9
        BY <4>1
      <4>3. QED
        BY <4>2 DEF a
    <3>3. values[m].start + j = w + 1
      BY <2>5, <2>8, <3>2, RegisterRoundTrip
    <3>4. /\ m < n => values[m].start + values[m].words <= w
          /\ n < m => w + v.words <= values[m].start
      BY <1>6 DEF Disjoint
    <3> DEFINE a == values[m].start
               d == values[m].words
               e == v.words
    <3>5. /\ a \in Nat /\ d \in Nat /\ w \in Nat /\ e \in Nat /\ e > 0 /\ a + j = w + 1
          /\ m < n => a + d <= w
          /\ n < m => w + e <= a
          /\ j \in 1 .. d
      BY <1>1, <2>8, <3>1, <3>3, <3>4
    <3> HIDE DEF a, d, e, w
    <3>6. ~(m < n) /\ ~(n < m)
      BY <3>5
    <3>7. m \in Int /\ n \in Int
      OBVIOUS
    <3>8. QED
      BY <3>6, <3>7
  <2>10. kk \in 1 .. 3 /\ leaf = q[kk]
    <3>1. LeafCount(v) = 3
      BY <1>2 DEF LeafCount
    <3>2. kk \in 1 .. 3
      BY <2>9, <3>1
    <3>3. leaf = q[kk]
      BY <2>7, <2>9 DEF q
    <3>4. QED
      BY <3>2, <3>3
  <2> HIDE DEF leaf
  <2>11. CASE kk = 1
    <3>1. leaf = LocSpec(r, Add(8), TRUE)
      BY <1>2, <2>10, <2>11
    <3>2. leaf.steps = <<[off |-> 8, deref |-> FALSE]>>
      BY <3>1 DEF LocSpec, Add
    <3>3. Len(leaf.steps) = 1 /\ leaf.steps[1].deref = FALSE
      BY <3>2
    <3>4. k \in 0 .. 1
      BY <2>2, <2>3, <3>3
    <3> DEFINE p == <<leaf.reg>>
    <3>5. f[k].ptr = p /\ x = f[k].ptr
      BY <2>1, <2>3, <3>3, <3>4, StayTarget
    <3>6. Len(p) = 1
      BY <2>2, PathFacts
    <3>7. x = p
      BY <3>5
    <3> HIDE DEF f, p
    <3>8. Len(x) = 2
      BY <1>4
    <3>9. QED
      BY <3>6, <3>7, <3>8, SMTT(40)
  <2>12. CASE kk = 2
    <3>1. leaf.steps = <<>>
      BY <1>2, <2>10, <2>12 DEF RegLeaf
    <3>2. QED
      BY <2>2, <3>1
  <2>13. CASE kk = 3
    <3>1. leaf.reg = abiRegs[w + 2]
      BY <1>2, <2>10, <2>13 DEF LocSpec
    <3>2. QED
      BY <1>3, <2>5, <3>1
  <2>14. QED
    BY <2>10, <2>11, <2>12, <2>13
<1>9. x \notin Pointers
  <2> DEFINE A == {{Walk(ReadReg(Rules[i].reg), Rules[i].steps, {}, {})[k].ptr :
                      k \in 0 .. Len(Rules[i].steps)} : i \in {j \in 1 .. Len(Rules) : Rules[j].steps # <<>>}}
             B == {<<abiRegs[u.start + 1]>> : u \in {u \in ToSet(values) : Plain(u, {"pointer", "eface"})}}
  <2>1. Pointers = (UNION A) \cup B
    BY DEF Pointers
  <2>2. ASSUME NEW i \in {j \in 1 .. Len(Rules) : Rules[j].steps # <<>>},
               x \in {Walk(ReadReg(Rules[i].reg), Rules[i].steps, {}, {})[k].ptr : k \in 0 .. Len(Rules[i].steps)}
        PROVE  FALSE
    <3>1. PICK k \in 0 .. Len(Rules[i].steps) : x = Walk(ReadReg(Rules[i].reg), Rules[i].steps, {}, {})[k].ptr
      BY <2>2
    <3>2. i \in 1 .. Len(Rules) /\ Rules[i].steps # <<>>
      OBVIOUS
    <3>3. QED
      BY <1>8, <3>1, <3>2
  <2>3. x \notin B
    BY <1>5
  <2>4. x \notin UNION A
    <3> SUFFICES ASSUME NEW S \in A, x \in S PROVE FALSE
      OBVIOUS
    <3>1. PICK i \in {j \in 1 .. Len(Rules) : Rules[j].steps # <<>>} :
             S = {Walk(ReadReg(Rules[i].reg), Rules[i].steps, {}, {})[k].ptr : k \in 0 .. Len(Rules[i].steps)}
      OBVIOUS
    <3>2. QED
      BY <2>2, <3>1
  <2> HIDE DEF A, B
  <2>5. x \notin (UNION A) \cup B
    BY <2>3, <2>4
  <2> DEFINE C == (UNION A) \cup B
  <2>6. Pointers = C /\ x \notin C
    BY <2>1, <2>5
  <2> HIDE DEF C
  <2>7. QED
    BY <2>6
<1>10. QED
  BY <1>9 DEF x

\* What makes a value print as nil.
LEMMA NilPointerIs ==
    ASSUME PlanInv, args = FetchArgs(nils, bad), NEW n \in 1 .. Len(values), Behind(values[n].type)
    PROVE  RenderedAs(n) = "nil" <=> ReallyNil(values[n])
<1> DEFINE v == values[n]
           r == abiRegs[v.start + 1]
<1>1. /\ v.words = 1 /\ IsRegister(WordsOf(n)[1], r)
      /\ CapturesOf(n)[1].is_nil <=> <<r>> \in nils
  BY PointerWord
<1>2. ~NilInterface(n)
  BY DEF NilInterface, Plain, Behind
<1>3. ~\E i \in 1 .. v.words : WordsOf(n)[i].read_error
  <2>1. 1 .. v.words = {1} /\ WordsOf(n)[1].read_error = FALSE
    BY <1>1 DEF IsRegister
  <2>2. QED
    BY <2>1
<1>4. NilPointer(n) <=> <<r>> \in nils
  <2>1. IsZero(WordsOf(n)[1].word) <=> <<r>> \in nils
    BY <1>1 DEF IsRegister, IsZero
  <2>2. QED
    BY <1>1, <2>1 DEF NilPointer
<1>5. RenderedAs(n) = "nil" <=> NilPointer(n)
  BY <1>2, <1>3 DEF RenderedAs
<1>6. QED
  BY <1>4, <1>5 DEF ReallyNil

\* A plain value is printed as nil when its first register is nil: the type word is
\* the itab of an interface with methods, read through that register.
LEMMA NilPlainIs ==
    ASSUME PlanInv, args = FetchArgs(nils, bad), nils \subseteq Pointers, NEW n \in 1 .. Len(values),
           values[n].type.form = "plain", ~ItabUnread(values[n])
    PROVE  RenderedAs(n) = "nil" <=> ReallyNil(values[n])
<1> DEFINE v == values[n]
           t == v.type
           field == t.fields[1]
           r == abiRegs[v.start + 1]
           a == WordsOf(n)[1]
<1>1. /\ ~Behind(t) /\ 1 \in 1 .. Len(t.fields) /\ Before(t, 1) = 0 /\ v.words = Words(field)
      /\ Words(field) \in 1 .. 3 /\ v.start \in Nat
  BY PlainFacts, ValueFacts
<1>2. ASSUME NEW k \in 1 .. Words(field)
      PROVE  /\ abiRegs[v.start + k] \in Registers
             /\ IF field.kind = "iface" /\ k = 1 THEN IsTypeWord(WordsOf(n)[k], abiRegs[v.start + k])
                ELSE IsRegister(WordsOf(n)[k], abiRegs[v.start + k])
  <2> DEFINE b == Before(t, 1)
  <2>1. /\ abiRegs[v.start + b + k] \in Registers
        /\ IF field.kind = "iface" /\ k = 1 THEN IsTypeWord(WordsOf(n)[b + k], abiRegs[v.start + b + k])
           ELSE IsRegister(WordsOf(n)[b + k], abiRegs[v.start + b + k])
    BY <1>1, ValueWord
  <2> HIDE DEF b
  <2>2. b = 0 /\ b + k = k /\ v.start + b + k = v.start + k
    BY <1>1 DEF b
  <2>3. QED
    BY <2>1, <2>2
<1>3. /\ r \in Registers
      /\ field.kind = "iface" => IsTypeWord(a, r)
      /\ field.kind # "iface" => IsRegister(a, r)
  <2>1. 1 \in 1 .. Words(field)
    BY <1>1
  <2>2. QED
    BY <1>2, <2>1
<1>4. ASSUME NEW i \in 1 .. v.words, WordsOf(n)[i].read_error PROVE field.kind = "iface" /\ i = 1
  BY <1>1, <1>2, <1>4 DEF IsRegister
<1>5. IsRegister(a, r) => (IsZero(a.word) <=> <<r>> \in nils) /\ ~a.is_nil
  BY DEF IsRegister, IsZero
<1>6. CASE field.kind = "pointer"
  <2>1. ~NilInterface(n) /\ ~\E i \in 1 .. v.words : WordsOf(n)[i].read_error
    BY <1>4, <1>6 DEF NilInterface, Plain, Interface
  <2>2. RenderedAs(n) = "nil" <=> NilPointer(n)
    BY <1>1, <2>1 DEF RenderedAs
  <2>3. NilPointer(n) <=> <<r>> \in nils
    BY <1>1, <1>3, <1>5, <1>6 DEF NilPointer, Plain
  <2>4. ReallyNil(v) <=> <<r>> \in nils
    BY <1>6 DEF ReallyNil, Plain
  <2>5. QED
    BY <2>2, <2>3, <2>4
<1>7. CASE field.kind \in Interface
  <2>1. ReallyNil(v) <=> <<r>> \in nils
    BY <1>7 DEF ReallyNil, Plain
  <2>2. ~NilPointer(n)
    BY <1>1, <1>7 DEF NilPointer, Plain, Interface
  <2>3. RenderedAs(n) = "nil" <=> NilInterface(n)
    BY <2>2 DEF RenderedAs
  <2>4. NilInterface(n) <=> (a.is_nil \/ IsZero(a.word))
    BY <1>7 DEF NilInterface, Plain
  <2>5. CASE field.kind # "iface"
    BY <1>3, <1>5, <2>1, <2>3, <2>4, <2>5
  <2>6. CASE field.kind = "iface"
    <3>1. IsTypeWord(a, r)
      BY <1>3, <2>6
    <3>2. <<r>> \notin bad /\ Plain(v, {"iface"})
      BY <2>6 DEF ItabUnread, Plain
    <3>3. CASE <<r>> \in nils
      BY <2>1, <2>3, <2>4, <3>1, <3>3 DEF IsTypeWord
    <3>4. CASE <<r>> \notin nils
      <4>1. a.word = WordAt(At(<<r>>, 8)) /\ ~a.is_nil
        BY <3>1, <3>2, <3>4 DEF IsTypeWord
      <4>2. a.word \notin nils
        BY <3>2, <4>1, ItabElsewhere
      <4>3. a.word # <<>>
        BY <1>3, <4>1, PathFacts
      <4>4. ~IsZero(a.word)
        BY <4>2, <4>3 DEF IsZero
      <4>5. QED
        BY <2>1, <2>3, <2>4, <3>4, <4>1, <4>4
    <3>5. QED
      BY <3>3, <3>4
  <2>7. QED
    BY <2>5, <2>6
<1>8. CASE field.kind \notin {"pointer"} \cup Interface
  <2>1. ~ReallyNil(v)
    BY <1>1, <1>8 DEF ReallyNil, Plain
  <2>2. ~NilInterface(n) /\ ~NilPointer(n)
    BY <1>1, <1>8 DEF NilInterface, NilPointer, Plain
  <2>3. QED
    BY <2>1, <2>2 DEF RenderedAs
<1>9. QED
  BY <1>6, <1>7, <1>8

\* A struct is never nil.
LEMMA NilStructIs ==
    ASSUME NEW n, values[n].type.form = "struct"
    PROVE  RenderedAs(n) # "nil" /\ ~ReallyNil(values[n])
BY DEF RenderedAs, NilInterface, NilPointer, Plain, Behind, ReallyNil

\* What is printed as nil is nil, and the other way round.
LEMMA NilIsExact == PlanInv /\ HitInv => NilExactly
<1> SUFFICES ASSUME PlanInv, HitInv, stage = "shown", NEW n \in 1 .. Len(values), ~ItabUnread(values[n])
             PROVE  shown[n].as = "nil" <=> ReallyNil(values[n])
  BY DEF NilExactly
<1>1. shown = Rendered /\ nils \subseteq Pointers /\ args = FetchArgs(nils, bad)
  BY DEF HitInv
<1>2. shown[n].as = RenderedAs(n)
  BY <1>1 DEF Rendered
<1>3. values[n].type.form \in {"plain", "struct", "pointer"}
  BY ValueFacts, TypeFacts
<1>4. values[n].type.form = "pointer" => Behind(values[n].type)
  BY DEF Behind
<1>5. QED
  BY <1>1, <1>2, <1>3, <1>4, NilPointerIs, NilPlainIs, NilStructIs

\* AutoFetch.zh_CN.md 6 and 11: a value is printed as nil exactly when it is nil, as
\* long as its itab could be read.
THEOREM NilCorrect == Spec => []NilExactly
BY PlanHolds, HitHolds, NilIsExact, PTL

-----------------------------------------------------------------------------
(* The snapshot. *)

\* Pieces of the snapshot that hold what was at their address.
Honest == {[at |-> addr, holds |-> addr] : addr \in Addresses}

\* memSnapshot.put adds an honest piece when the leaf was read from that address.
LEMMA PutHonest ==
    ASSUME NEW addr \in Addresses, NEW a, (~a.is_nil /\ ~a.read_error) => a.from = addr
    PROVE  Put(addr, a) \in Seq(Honest)
<1> DEFINE c == [at |-> addr, holds |-> a.from]
<1>1. <<>> \in Seq(Honest)
  OBVIOUS
<1>2. (~a.is_nil /\ ~a.read_error) => c \in Honest
  BY DEF Honest
<1>3. Put(addr, a) = <<>> \/ (Put(addr, a) = <<c>> /\ ~a.is_nil /\ ~a.read_error)
  BY DEF Put
<1> HIDE DEF c
<1>4. c \in Honest => <<c>> \in Seq(Honest)
  OBVIOUS
<1>5. QED
  BY <1>1, <1>2, <1>3, <1>4

\* What the renderer takes for a field is what the plan captured for it.
TakenSeq(t) == IF Behind(t) THEN MemSeq(t) ELSE RegSeq(t)

\* The renderer takes as many captures as the plan emitted.
LEMMA TakesFacts ==
    ASSUME NEW t \in Type
    PROVE  /\ TakenSeq(t) \in Seq(Nat) /\ Len(TakenSeq(t)) = Len(t.fields)
           /\ \A i \in 1 .. Len(t.fields) : TakenSeq(t)[i] = Takes(t.fields[i], Behind(t))
<1>1. ASSUME NEW field, NEW b \in BOOLEAN
      PROVE  Takes(field, b) = IF b THEN ExtraInMemory(field) ELSE ExtraInRegisters(field)
  <2>1. CASE field.kind \in {"string", "slice"}
    BY <2>1 DEF Takes, ExtraInMemory, ExtraInRegisters, Interface
  <2>2. CASE field.kind = "eface"
    BY <2>2 DEF Takes, ExtraInMemory, ExtraInRegisters, Interface
  <2>3. CASE field.kind = "iface"
    BY <2>3 DEF Takes, ExtraInMemory, ExtraInRegisters, Interface
  <2>4. CASE field.kind \notin {"string", "slice", "eface", "iface"}
    BY <2>4 DEF Takes, ExtraInMemory, ExtraInRegisters, Interface
  <2>5. QED
    BY <2>1, <2>2, <2>3, <2>4
<1>2. ASSUME NEW field
      PROVE  Takes(field, Behind(t)) = IF Behind(t) THEN ExtraInMemory(field) ELSE ExtraInRegisters(field)
  <2>1. Behind(t) \in BOOLEAN
    BY DEF Behind
  <2>2. QED
    BY <1>1, <2>1, Zenon
<1>3. CASE Behind(t)
  BY <1>2, <1>3, SeqFacts DEF TakenSeq
<1>4. CASE ~Behind(t)
  BY <1>2, <1>4, SeqFacts DEF TakenSeq
<1>5. QED
  BY <1>3, <1>4

\* No field goes without its captures.
LEMMA TakenFacts ==
    ASSUME NEW t \in Type, NEW count \in Nat, Totals(TakenSeq(t))[Len(t.fields)] <= count
    PROVE  \A i \in 0 .. Len(t.fields) : Taken(t, count)[i] = Totals(TakenSeq(t))[i]
<1> DEFINE N == Len(t.fields)
           s == TakenSeq(t)
           T == Totals(s)
           takes(i) == Takes(t.fields[i], Behind(t))
           G(f) == [i \in 0 .. N |->
                      IF i = 0 THEN 0
                      ELSE LET n == f[i - 1] + Takes(t.fields[i], Behind(t))
                           IN  IF n > count THEN f[i - 1] ELSE n]
           taken == CHOOSE f : f = G(f)
<1>1. N \in Nat /\ s \in Seq(Nat) /\ Len(s) = N /\ \A i \in 1 .. N : s[i] = takes(i)
  BY TakesFacts, TypeFacts
<1>2. SumsUp(s, T)
  BY <1>1, TotalsUnfold
<1>3. T \in [0 .. N -> Nat] /\ T[0] = 0 /\ T[N] <= count
  BY <1>1, <1>2 DEF SumsUp
<1>4. ASSUME NEW i \in 1 .. N PROVE i - 1 \in 0 .. N /\ T[i] = T[i - 1] + takes(i) /\ ~(T[i] > count)
  <2>1. i \in 0 .. N /\ N \in 0 .. N /\ i <= N /\ i - 1 \in 0 .. N
    BY <1>1
  <2>2. T[i] <= T[N]
    BY <1>1, <2>1, TotalsGrow
  <2>3. T[i] = T[i - 1] + takes(i)
    BY <1>1, <1>2 DEF SumsUp
  <2>4. T[i] \in Nat /\ T[N] \in Nat
    BY <1>3, <2>1
  <2> HIDE DEF T
  <2>5. ~(T[i] > count)
    BY <1>3, <2>2, <2>4
  <2>6. QED
    BY <2>1, <2>3, <2>5
<1>5. Taken(t, count) = taken
  BY DEF Taken
<1> HIDE DEF T, s, N
<1>6. T = G(T)
  <2>1. T = [i \in 0 .. N |-> T[i]]
    BY <1>3
  <2>2. ASSUME NEW i \in 0 .. N PROVE T[i] = G(T)[i]
    <3>1. CASE i = 0
      BY <1>3, <3>1
    <3>2. CASE i # 0
      <4>1. i \in 1 .. N
        BY <1>1, <3>2
      <4>2. QED
        BY <1>4, <3>2, <4>1
    <3>3. QED
      BY <3>1, <3>2
  <2>3. QED
    BY <2>1, <2>2
<1>7. taken = G(taken)
  BY <1>6
<1> HIDE DEF taken
<1>8. /\ taken[0] = 0
      /\ \A i \in 1 .. N : taken[i] = IF taken[i - 1] + takes(i) > count THEN taken[i - 1]
                                      ELSE taken[i - 1] + takes(i)
  <2>1. taken[0] = 0
    <3>1. 0 \in 0 .. N
      BY <1>1
    <3>2. QED
      BY <1>7, <3>1
  <2>2. ASSUME NEW i \in 1 .. N
        PROVE  taken[i] = IF taken[i - 1] + takes(i) > count THEN taken[i - 1] ELSE taken[i - 1] + takes(i)
    <3>1. i \in 0 .. N /\ i # 0
      BY <1>1
    <3>2. QED
      BY <1>7, <3>1
  <2>3. QED
    BY <2>1, <2>2
<1> HIDE DEF takes, G
<1> DEFINE D == {i \in Nat : i <= N => taken[i] = T[i]}
<1>9. 0 \in D
  BY <1>3, <1>8
<1>10. ASSUME NEW i \in Nat, i \in D PROVE i + 1 \in D
  <2> SUFFICES ASSUME i + 1 <= N PROVE taken[i + 1] = T[i + 1]
    OBVIOUS
  <2>1. i + 1 \in 1 .. N /\ (i + 1) - 1 = i /\ taken[i] = T[i]
    BY <1>1, <1>10
  <2>2. T[i + 1] = T[i] + takes(i + 1) /\ ~(T[i + 1] > count)
    BY <1>4, <2>1
  <2>3. taken[i + 1] = IF taken[i] + takes(i + 1) > count THEN taken[i] ELSE taken[i] + takes(i + 1)
    BY <1>8, <2>1
  <2>4. QED
    BY <2>1, <2>2, <2>3
<1> HIDE DEF D
<1>11. Nat \subseteq D
  BY <1>9, <1>10, NatSetInduction
<1>12. ASSUME NEW i \in 0 .. N PROVE taken[i] = T[i]
  BY <1>1, <1>11 DEF D
<1>13. QED
  BY <1>5, <1>12 DEF N, T, s

\* The captures that field i takes.
TakesThe(leaves, t, i, captures) ==
    /\ Len(leaves) = TakenSeq(t)[i]
    /\ \A k \in 1 .. TakenSeq(t)[i] : leaves[k] = captures[Totals(TakenSeq(t))[i - 1] + k]

\* If every field adds honest pieces out of its own captures, the snapshot is honest:
\* no field is handed the captures of another.
LEMMA ConsumeHonest ==
    ASSUME NEW t \in Type, NEW words, NEW S, NEW captures \in Seq(S),
           Len(captures) = Totals(TakenSeq(t))[Len(t.fields)],
           \A i \in 1 .. Len(t.fields) : \A leaves :
               (TakenSeq(t)[i] > 0 /\ TakesThe(leaves, t, i, captures))
                   => Chunks(t, words, t.fields[i], leaves) \in Seq(Honest)
    PROVE  Consume(t, words, captures) \in Seq(Honest)
<1> DEFINE N == Len(t.fields)
           s == TakenSeq(t)
           T == Totals(s)
           taken == Taken(t, Len(captures))
           leaves(i) == SubSeq(captures, taken[i - 1] + 1, taken[i])
           chunks(i) == IF taken[i] = taken[i - 1] THEN <<>> ELSE Chunks(t, words, t.fields[i], leaves(i))
           ss == [i \in 1 .. N |-> chunks(i)]
<1>1. N \in Nat /\ s \in Seq(Nat) /\ Len(s) = N /\ SumsUp(s, T)
  BY TakesFacts, TypeFacts, TotalsUnfold
<1>2. Len(captures) \in Nat /\ T[N] <= Len(captures)
  BY <1>1 DEF SumsUp
<1>3. \A i \in 0 .. N : taken[i] = T[i]
  BY <1>2, TakenFacts
<1>4. ASSUME NEW i \in 1 .. N PROVE chunks(i) \in Seq(Honest)
  <2>1. i \in 0 .. N /\ i - 1 \in 0 .. N /\ N \in 0 .. N /\ i <= N
    BY <1>1
  <2>2. T[i] = T[i - 1] + s[i] /\ s[i] \in Nat
    BY <1>1 DEF SumsUp
  <2>3. T[i - 1] \in Nat
    BY <1>1, <2>1 DEF SumsUp
  <2>4. T[i] <= T[N]
    BY <1>1, <2>1, TotalsGrow
  <2>5. taken[i] = T[i] /\ taken[i - 1] = T[i - 1]
    BY <1>3, <2>1
  <2> DEFINE a == T[i - 1]
             n == s[i]
             x == leaves(i)
  <2>6. a \in Nat /\ n \in Nat /\ a + n <= Len(captures) /\ taken[i] = a + n /\ taken[i - 1] = a
    BY <1>2, <2>2, <2>3, <2>4, <2>5
  <2>7. x = SubSeq(captures, a + 1, a + n)
    BY <2>6
  <2>8. Len(x) = n /\ \A k \in 1 .. n : x[k] = captures[a + k]
    <3> HIDE DEF a, n, x
    <3> QED BY <2>6, <2>7, Slice
  <2>9. CASE n = 0
    <3>1. taken[i] = taken[i - 1]
      <4> HIDE DEF a, n, taken
      <4> QED BY <2>6, <2>9
    <3>2. chunks(i) = <<>>
      BY <3>1
    <3>3. <<>> \in Seq(Honest)
      OBVIOUS
    <3> HIDE DEF chunks
    <3>4. QED
      BY <3>2, <3>3
  <2>10. CASE n # 0
    <3>1. TakenSeq(t)[i] > 0 /\ TakesThe(x, t, i, captures)
      <4>1. TakenSeq(t)[i] = n /\ n > 0
        BY <2>6, <2>10
      <4>2. Len(x) = TakenSeq(t)[i]
        BY <2>8
      <4>3. \A k \in 1 .. TakenSeq(t)[i] : x[k] = captures[Totals(TakenSeq(t))[i - 1] + k]
        BY <2>8
      <4> HIDE DEF x, n
      <4>4. QED
        BY <4>1, <4>2, <4>3 DEF TakesThe
    <3>2. Chunks(t, words, t.fields[i], x) \in Seq(Honest)
      <4> HIDE DEF x
      <4> QED BY <3>1, Zenon
    <3>3. taken[i] # taken[i - 1]
      <4> HIDE DEF a, n, taken
      <4> QED BY <2>6, <2>10
    <3>4. chunks(i) = Chunks(t, words, t.fields[i], x)
      BY <3>3
    <3> HIDE DEF chunks
    <3>5. QED
      BY <3>2, <3>4
  <2>11. QED
    BY <2>9, <2>10
<1>5. Consume(t, words, captures) = FlattenSeq(ss)
  BY DEF Consume, Flat
<1> HIDE DEF chunks, N
<1>6. ss \in Seq(Seq(Honest)) /\ Len(ss) = N
  <2> DEFINE H == Seq(Honest)
  <2>1. N \in Nat /\ \A i \in 1 .. N : chunks(i) \in H
    BY <1>1, <1>4
  <2> HIDE DEF H
  <2>2. ss \in Seq(H) /\ Len(ss) = N
    BY <2>1
  <2>3. QED
    BY <2>2 DEF H
<1> HIDE DEF ss
<1> DEFINE lens == [i \in 1 .. N |-> Len(ss[i])]
<1>7. lens \in Seq(Nat) /\ Len(lens) = Len(ss) /\ \A i \in 1 .. Len(ss) : lens[i] = Len(ss[i])
  <2>1. \A i \in 1 .. N : Len(ss[i]) \in Nat
    BY <1>6
  <2>2. QED
    <3> DEFINE len(i) == Len(ss[i])
    <3>1. N \in Nat /\ Len(ss) = N /\ \A i \in 1 .. N : len(i) \in Nat
      BY <1>1, <1>6, <2>1
    <3>2. lens = [i \in 1 .. N |-> len(i)]
      OBVIOUS
    <3> HIDE DEF len, lens
    <3>3. lens \in Seq(Nat) /\ Len(lens) = N /\ \A i \in 1 .. N : lens[i] = len(i)
      BY <3>1, <3>2
    <3>4. QED
      BY <3>1, <3>3 DEF len
<1> HIDE DEF lens
<1>8. FlattenSeq(ss) \in Seq(Honest)
  BY <1>6, <1>7, FlattenParts
<1>9. QED
  BY <1>5, <1>8

\* An offset is a natural number.
LEMMA OffsetFacts ==
    ASSUME NEW field \in Field
    PROVE  Offset(field) \in Nat
<1>1. field.at \in Seq(Nat) /\ Len(field.at) \in 0 .. Len(field.at)
  BY FieldFacts
<1>2. SumsUp(field.at, Totals(field.at))
  BY <1>1, TotalsUnfold
<1>3. QED
  BY <1>1, <1>2 DEF SumsUp, Offset

\* What a field of an object in memory adds: only words that are in the prefix of the
\* object, and so within the offsets that a rule keeps, are looked up in it.
LEMMA MemChunksHonest ==
    ASSUME NEW field \in Field, NEW reg \in Registers, NEW leaves, ExtraInMemory(field) > 0,
           Len(leaves) = ExtraInMemory(field),
           \A k \in 1 .. ExtraInMemory(field) : leaves[k] = ArgOf(MemCaptures(field, reg)[k], nils, bad)
    PROVE  MemChunks(field, <<reg>>, leaves) \in Seq(Honest)
<1> DEFINE o == Offset(field)
           x0 == WordAt(At(<<reg>>, o + 0))
           x8 == WordAt(At(<<reg>>, o + 8))
           m0 == MemLeaf(field, reg, Deref(0))
           m8 == MemLeaf(field, reg, Deref(8))
           mt == MemLeaf(field, reg, Deref(0) \o Add(8))
           a0 == ArgOf(m0, nils, bad)
           a8 == ArgOf(m8, nils, bad)
           at == ArgOf(mt, nils, bad)
           known0 == o + 0 + 8 <= Prefix
           known8 == o + 8 + 8 <= Prefix
<1>1. o \in Nat
  BY OffsetFacts
<1>2. At(x0, 0) \in Addresses /\ At(x0, 8) \in Addresses /\ At(x8, 0) \in Addresses
  <2>1. <<reg>> \in Paths /\ o + 0 \in Int /\ o + 8 \in Int
    BY <1>1, AddressFacts
  <2>2. At(<<reg>>, o + 0) \in Addresses /\ At(<<reg>>, o + 8) \in Addresses
    BY <2>1, AddressFacts
  <2>3. x0 \in Paths /\ x8 \in Paths
    BY <2>2, AddressFacts
  <2> HIDE DEF x0, x8
  <2>4. 0 \in Int /\ 8 \in Int
    OBVIOUS
  <2>5. QED
    BY <2>3, <2>4, AddressFacts
<1>3. (known0 \/ known8) => o <= 64
  BY <1>1 DEF Prefix
<1>4. o <= 64 => /\ Fetched(m0, nils, bad, At(x0, 0)) /\ Fetched(m8, nils, bad, At(x8, 0))
                 /\ Fetched(mt, nils, bad, At(x0, 8))
  BY MemLeafHolds
<1> HIDE DEF x0, x8, m0, m8, mt, o, known0, known8
<1>5. /\ known0 => Put(At(x0, 0), a0) \in Seq(Honest)
      /\ known0 => Put(At(x0, 8), at) \in Seq(Honest)
      /\ known8 => Put(At(x8, 0), a8) \in Seq(Honest)
  BY <1>2, <1>3, <1>4, PutHonest DEF Fetched
<1> HIDE DEF a0, a8, at
<1>6. <<>> \in Seq(Honest)
  OBVIOUS
<1>7. field.kind \in {"string", "slice", "eface", "iface"}
  <2>1. field.kind \notin {"string", "slice", "eface", "iface"} => ExtraInMemory(field) = 0
    BY DEF ExtraInMemory
  <2>2. QED
    BY <2>1
<1>8. CASE field.kind \in {"string", "slice"}
  <2>1. ExtraInMemory(field) = 1 /\ MemCaptures(field, reg) = <<m0>>
    BY <1>8, MemCapturesAre DEF ExtraInMemory, m0
  <2>2. MemCaptures(field, reg)[1] = m0 /\ 1 \in 1 .. ExtraInMemory(field)
    BY <2>1
  <2>3. leaves[1] = a0
    BY <2>2 DEF a0
  <2>4. MemChunks(field, <<reg>>, leaves) = IF known0 THEN Put(At(x0, 0), leaves[1]) ELSE <<>>
    BY <1>8 DEF MemChunks, Interface, known0, x0, o
  <2>5. QED
    BY <1>5, <1>6, <2>3, <2>4
<1>9. CASE field.kind = "eface"
  <2>1. ExtraInMemory(field) = 2 /\ MemCaptures(field, reg) = <<MemLeaf(field, reg, Add(8)), m8>>
    BY <1>9, MemCapturesAre DEF ExtraInMemory, m8
  <2>2. MemCaptures(field, reg)[2] = m8 /\ 2 \in 1 .. ExtraInMemory(field)
    BY <2>1
  <2>3. Last(leaves) = a8
    BY <2>1, <2>2 DEF a8, Last
  <2>4. MemChunks(field, <<reg>>, leaves) = <<>> \o (IF known8 THEN Put(At(x8, 0), Last(leaves)) ELSE <<>>)
    BY <1>9 DEF MemChunks, Interface, known8, x8, o
  <2> DEFINE p == IF known8 THEN Put(At(x8, 0), Last(leaves)) ELSE <<>>
  <2>5. p \in Seq(Honest)
    BY <1>5, <1>6, <2>3
  <2> HIDE DEF p
  <2>6. <<>> \o p \in Seq(Honest)
    BY <1>6, <2>5, ConcatParts
  <2>7. QED
    BY <2>4, <2>6 DEF p
<1>10. CASE field.kind = "iface"
  <2>1. ExtraInMemory(field) = 3 /\ MemCaptures(field, reg) = <<mt, MemLeaf(field, reg, Add(8)), m8>>
    BY <1>10, MemCapturesAre DEF ExtraInMemory, m8, mt
  <2>2. MemCaptures(field, reg)[3] = m8 /\ MemCaptures(field, reg)[1] = mt
        /\ 3 \in 1 .. ExtraInMemory(field) /\ 1 \in 1 .. ExtraInMemory(field)
    BY <2>1
  <2>3. Last(leaves) = a8 /\ leaves[1] = at
    BY <2>1, <2>2 DEF a8, at, Last
  <2>4. MemChunks(field, <<reg>>, leaves)
          = (IF known0 THEN Put(At(x0, 8), leaves[1]) ELSE <<>>)
              \o (IF known8 THEN Put(At(x8, 0), Last(leaves)) ELSE <<>>)
    BY <1>10 DEF MemChunks, Interface, known0, known8, x0, x8, o
  <2> DEFINE p == IF known8 THEN Put(At(x8, 0), Last(leaves)) ELSE <<>>
             q == IF known0 THEN Put(At(x0, 8), leaves[1]) ELSE <<>>
  <2>5. p \in Seq(Honest) /\ q \in Seq(Honest)
    BY <1>5, <1>6, <2>3
  <2> HIDE DEF p, q
  <2>6. q \o p \in Seq(Honest)
    BY <2>5, ConcatParts
  <2>7. QED
    BY <2>4, <2>6 DEF p, q
<1>11. QED
  BY <1>7, <1>8, <1>9, <1>10

\* Fields do not overlap, so the word at an offset is that of the field there.
LEMMA ImageAt ==
    ASSUME NEW t \in Type, Apart(t), NEW i \in 1 .. Len(t.fields), NEW k \in 1 .. Words(t.fields[i]), NEW words
    PROVE  Image(t, words)[WordOffset(t.fields[i], k)] = words[Before(t, i) + k]
<1> DEFINE N == Len(t.fields)
           o == WordOffset(t.fields[i], k)
           owner == {p \in (1 .. N) \X (1 .. 3) :
                       p[2] <= Words(t.fields[p[1]]) /\ o = WordOffset(t.fields[p[1]], p[2])}
<1>1. \A j \in 1 .. N : t.fields[j] \in Field /\ Words(t.fields[j]) \in 0 .. 3 /\ Offset(t.fields[j]) \in Nat
  BY TypeFacts, FieldFacts, OffsetFacts
<1>2. k \in 1 .. 3 /\ k <= Words(t.fields[i])
  BY <1>1
<1>3. <<i, k>> \in owner
  BY <1>2
<1>4. ASSUME NEW p \in owner PROVE p = <<i, k>>
  <2>1. /\ p = <<p[1], p[2]>> /\ p[1] \in 1 .. N /\ p[2] \in 1 .. 3 /\ p[2] <= Words(t.fields[p[1]])
        /\ WordOffset(t.fields[p[1]], p[2]) = o
    OBVIOUS
  <2> DEFINE j == p[1]
             l == p[2]
  <2>2. j \in 1 .. N /\ l \in 1 .. Words(t.fields[j]) /\ WordOffset(t.fields[j], l) = o /\ l \in 1 .. 3
    BY <1>1, <2>1
  <2> HIDE DEF j, l
  <2>3. j = i
    BY <2>2 DEF Apart
  <2>4. l = k
    <3> DEFINE a == Offset(t.fields[i])
    <3>1. a \in Nat /\ a + 8 * (l - 1) = a + 8 * (k - 1)
      BY <1>1, <2>2, <2>3 DEF WordOffset
    <3> HIDE DEF a
    <3>2. QED
      BY <1>2, <2>2, <3>1
  <2>5. QED
    BY <2>1, <2>3, <2>4 DEF j, l
<1> HIDE DEF owner
<1>5. owner # {} /\ (CHOOSE p \in owner : TRUE) = <<i, k>>
  BY <1>3, <1>4
<1> DEFINE D == {WordOffset(t.fields[j], l) : j \in 1 .. N, l \in 1 .. 3}
           at(x) == LET p == CHOOSE p \in x : TRUE IN words[Before(t, p[1]) + p[2]]
           word(x) == IF x = {} THEN Zeroed ELSE at(x)
           of(x) == {p \in (1 .. N) \X (1 .. 3) :
                       p[2] <= Words(t.fields[p[1]]) /\ x = WordOffset(t.fields[p[1]], p[2])}
<1>6. o \in D
  BY <1>2
<1>7. Image(t, words)[o] = IF owner = {} THEN Zeroed ELSE at(owner)
  <2>1. Image(t, words) = [x \in D |-> word(of(x))]
    BY DEF Image
  <2>2. owner = of(o)
    BY DEF owner
  <2> HIDE DEF D, o, word, of
  <2>3. Image(t, words)[o] = word(owner)
    BY <1>6, <2>1, <2>2
  <2>4. QED
    BY <2>3 DEF word
<1>8. at(owner) = words[Before(t, i) + k]
  <2> DEFINE p == CHOOSE p \in owner : TRUE
  <2>1. at(owner) = words[Before(t, p[1]) + p[2]] /\ p = <<i, k>>
    BY <1>5
  <2> HIDE DEF p, at
  <2>2. p[1] = i /\ p[2] = k
    BY <2>1
  <2>3. QED
    BY <2>1, <2>2
<1> HIDE DEF at, D, word, of
<1>9. QED
  BY <1>5, <1>7, <1>8 DEF o

\* What a field in registers adds: the bytes behind the register that is its pointer.
LEMMA RegChunksHonest ==
    ASSUME PlanInv, args = FetchArgs(nils, bad), NEW n \in 1 .. Len(values), ~Behind(values[n].type),
           NEW i \in 1 .. Len(values[n].type.fields), ExtraInRegisters(values[n].type.fields[i]) > 0
    PROVE  LET t == values[n].type
               leaf == RegCaptures(t.fields[i], values[n].start + Before(t, i))[1]
           IN  RegChunks(t.fields[i], Image(t, WordsOf(n)), ArgOf(leaf, nils, bad)) \in Seq(Honest)
<1> DEFINE v == values[n]
           t == v.type
           field == t.fields[i]
           b == Before(t, i)
           w == v.start
           leaf == RegCaptures(field, w + b)[1]
           k == IF field.kind \in Interface THEN 2 ELSE 1
           r == abiRegs[w + b + k]
<1>1. t \in Type /\ Apart(t) /\ field \in Field /\ w \in Nat
  <2>1. /\ t \in Type /\ w \in Nat /\ t = sig[v.param] /\ v.param \in 1 .. Len(sig) /\ sig \in Signatures
    BY ValueFacts
  <2>2. Apart(t)
    BY <2>1, FetchPlanAssumption
  <2>3. QED
    BY <2>1, <2>2, TypeFacts
<1>2. field.kind \in {"string", "slice"} \cup Interface
  BY DEF ExtraInRegisters
<1>3. k \in 1 .. Words(field) /\ ~(field.kind = "iface" /\ k = 1)
  BY <1>2 DEF Words, Interface
<1>4. /\ b \in Nat /\ r \in Registers /\ IsRegister(WordsOf(n)[b + k], r)
  BY <1>3, ValueWord
<1>5. Image(t, WordsOf(n))[WordOffset(field, k)] = WordsOf(n)[b + k]
  BY <1>1, <1>3, ImageAt
<1>6. WordOffset(field, k) = Offset(field) + (IF field.kind \in Interface THEN 8 ELSE 0)
  <2>1. Offset(field) \in Nat
    BY <1>1, OffsetFacts
  <2> DEFINE o == Offset(field)
  <2> HIDE DEF field, k
  <2>2. WordOffset(field, 1) = o + 8 * (1 - 1) /\ WordOffset(field, 2) = o + 8 * (2 - 1)
    BY DEF WordOffset
  <2> HIDE DEF o
  <2>3. o \in Nat
    BY <2>1 DEF o
  <2>4. o + 8 * (1 - 1) = o + 0 /\ o + 8 * (2 - 1) = o + 8
    BY <2>3
  <2>5. QED
    BY <2>2, <2>4 DEF o, k
<1>7. \E c \in BOOLEAN : leaf = LocSpec(r, <<>>, c)
  <2>1. CASE field.kind = "string"
    <3>1. leaf = LocSpec(abiRegs[w + b + 1], <<>>, FALSE) /\ k = 1
      BY <2>1 DEF RegCaptures, Interface
    <3>2. QED
      BY <3>1
  <2>2. CASE field.kind = "slice"
    <3>1. leaf = LocSpec(abiRegs[w + b + 1], <<>>, TRUE) /\ k = 1
      BY <2>2 DEF RegCaptures, Interface
    <3>2. QED
      BY <3>1
  <2>3. CASE field.kind \in Interface
    <3>1. leaf = LocSpec(abiRegs[w + b + 2], <<>>, TRUE) /\ k = 2
      BY <2>3 DEF RegCaptures, Interface
    <3>2. QED
      BY <3>1
  <2>4. QED
    BY <1>2, <2>1, <2>2, <2>3
<1> DEFINE word == WordsOf(n)[b + k].word
           a == ArgOf(leaf, nils, bad)
<1>8. word = <<r>>
  BY <1>4 DEF IsRegister
<1>9. (~a.is_nil /\ ~a.read_error) => a.from = At(<<r>>, 0)
  <2> HIDE DEF leaf, r
  <2>1. PICK c \in BOOLEAN : leaf = LocSpec(r, <<>>, c)
    BY <1>7
  <2>2. Fetched(LocSpec(r, <<>>, c), nils, bad, At(<<r>>, 0))
    BY <1>4, BareLeafHolds
  <2>3. QED
    BY <2>1, <2>2 DEF Fetched
<1>10. RegChunks(field, Image(t, WordsOf(n)), a) = Put(At(word, 0), a)
  BY <1>5, <1>6 DEF RegChunks
<1>11. At(<<r>>, 0) \in Addresses
  <2>1. r \in Registers
    BY <1>4
  <2> HIDE DEF r
  <2>2. <<r>> \in Paths /\ 0 \in Int
    BY <2>1, AddressFacts
  <2>3. QED
    BY <2>2, AddressFacts
<1> HIDE DEF a, word, r
<1>12. Put(At(<<r>>, 0), a) \in Seq(Honest)
  BY <1>9, <1>11, PutHonest
<1>13. QED
  BY <1>8, <1>10, <1>12 DEF a

\* A pointer: the object itself, and what its fields lead to.
LEMMA PointerSnapshot ==
    ASSUME PlanInv, args = FetchArgs(nils, bad), NEW n \in 1 .. Len(values), Behind(values[n].type)
    PROVE  Snapshot(n) \in Seq(Honest)
<1> DEFINE v == values[n]
           t == v.type
           w == v.start
           r == abiRegs[w + 1]
           words == WordsOf(n)
           c == CapturesOf(n)
           N == Len(t.fields)
           T == Totals(MemSeq(t))
           q == PlanLeaves(t, w)
<1>1. /\ t \in Type /\ w \in Nat /\ v.words = 1 /\ v.captures = Captures(t) /\ v.captures \in Nat
      /\ Shape(q, t, w)
  BY ValueFacts, PointerWord
<1>2. EventOf(n) /\ \E S : c \in Seq(S)
  BY EventFacts
<1>3. PICK S : c \in Seq(S)
  BY <1>2
<1>4. /\ r \in Registers /\ words[1].word = <<r>>
      /\ (~c[1].is_nil /\ ~c[1].read_error) => c[1].from = At(<<r>>, 0)
  BY PointerWord DEF IsRegister
<1>5. N \in Nat /\ MemSeq(t) \in Seq(Nat) /\ Len(MemSeq(t)) = N /\ SumsUp(MemSeq(t), T)
      /\ \A i \in 1 .. N : t.fields[i] \in Field /\ MemSeq(t)[i] = ExtraInMemory(t.fields[i])
  BY <1>1, SeqFacts, TypeFacts, TotalsUnfold
<1>6. T[N] \in Nat /\ v.captures = 1 + T[N]
  <2>1. N \in 0 .. N
    BY <1>5
  <2>2. T[N] \in Nat
    BY <1>5, <2>1 DEF SumsUp
  <2>3. Captures(t) = 1 + T[N]
    BY <1>1, CountFacts
  <2>4. QED
    BY <1>1, <2>2, <2>3
<1>7. Len(c) = 1 + T[N] /\ \A k \in 1 .. 1 + T[N] : c[k] = ArgOf(q[1 + k], nils, bad)
  BY <1>1, <1>2, <1>6 DEF EventOf
<1>8. \A i \in 1 .. N : \A k \in 1 .. MemSeq(t)[i] : q[2 + (T[i - 1] + k)] = MemCaptures(t.fields[i], r)[k]
  BY <1>1, <1>5 DEF Shape, PointerShape
<1>9. TakenSeq(t) = MemSeq(t)
  BY DEF TakenSeq
<1> DEFINE x == Tail(c)
<1> HIDE DEF c, T, q, N
<1>10. x \in Seq(S) /\ Len(x) = T[N] /\ \A k \in 1 .. T[N] : x[k] = c[k + 1]
  <2> DEFINE m == T[N]
  <2>1. m \in Nat /\ Len(c) = 1 + m /\ c \in Seq(S)
    BY <1>3, <1>6, <1>7
  <2> HIDE DEF m
  <2>2. c # <<>>
    BY <2>1
  <2>3. Tail(c) \in Seq(S) /\ Len(Tail(c)) = Len(c) - 1
    BY <2>1, <2>2
  <2>4. ASSUME NEW k \in 1 .. m PROVE Tail(c)[k] = c[k + 1]
    BY <2>1, <2>2, <2>3
  <2>5. Len(c) - 1 = m
    BY <2>1
  <2>6. QED
    BY <2>3, <2>4, <2>5 DEF x, m
<1> HIDE DEF x
<1>11. ASSUME NEW i \in 1 .. N, NEW leaves, MemSeq(t)[i] > 0, TakesThe(leaves, t, i, x)
       PROVE  Chunks(t, words, t.fields[i], leaves) \in Seq(Honest)
  <2> DEFINE field == t.fields[i]
             e == MemSeq(t)[i]
  <2>1. field \in Field /\ e = ExtraInMemory(field) /\ e > 0
    BY <1>5, <1>11
  <2>2. Len(leaves) = e /\ \A k \in 1 .. e : leaves[k] = x[T[i - 1] + k]
    BY <1>9, <1>11 DEF TakesThe, T
  <2>3. ASSUME NEW k \in 1 .. e PROVE leaves[k] = ArgOf(MemCaptures(field, r)[k], nils, bad)
    <3>1. T[i - 1] \in Nat /\ T[i - 1] + k \in 1 .. T[N]
      BY <1>5, PartInside DEF T
    <3> DEFINE p == T[i - 1] + k
    <3>2. p \in 1 .. T[N] /\ leaves[k] = x[p]
      BY <2>2, <3>1
    <3>3. q[2 + p] = MemCaptures(field, r)[k]
      BY <1>8
    <3> HIDE DEF p
    <3>4. x[p] = c[p + 1] /\ p + 1 \in 1 .. 1 + T[N] /\ 1 + (p + 1) = 2 + p
      BY <1>6, <1>10, <3>2, SMTT(40)
    <3>5. c[p + 1] = ArgOf(q[1 + (p + 1)], nils, bad)
      BY <1>7, <3>4
    <3>6. QED
      BY <3>2, <3>3, <3>4, <3>5
  <2>4. Chunks(t, words, field, leaves) = MemChunks(field, <<r>>, leaves)
    BY <1>4 DEF Chunks
  <2> HIDE DEF e, field
  <2>5. MemChunks(field, <<r>>, leaves) \in Seq(Honest)
    BY <1>4, <2>1, <2>2, <2>3, MemChunksHonest
  <2>6. QED
    BY <2>4, <2>5 DEF field
<1>12. Consume(t, words, x) \in Seq(Honest)
  <2>1. Len(x) = Totals(TakenSeq(t))[Len(t.fields)]
    BY <1>9, <1>10 DEF T, N
  <2>2. \A i \in 1 .. Len(t.fields) : \A leaves :
            (TakenSeq(t)[i] > 0 /\ TakesThe(leaves, t, i, x)) => Chunks(t, words, t.fields[i], leaves) \in Seq(Honest)
    BY <1>9, <1>11 DEF N
  <2> HIDE DEF words, t
  <2>3. QED
    BY <1>1, <1>10, <2>1, <2>2, ConsumeHonest
<1>13. Put(At(<<r>>, 0), c[1]) \in Seq(Honest)
  <2>1. At(<<r>>, 0) \in Addresses
    BY <1>4, AddressFacts
  <2> HIDE DEF r
  <2>2. QED
    BY <1>4, <2>1, PutHonest DEF c
<1>14. Snapshot(n) = Put(At(<<r>>, 0), c[1]) \o Consume(t, words, x)
  BY <1>4 DEF Snapshot, c, x
<1> DEFINE a == Put(At(<<r>>, 0), c[1])
           b == Consume(t, words, x)
<1>15. a \in Seq(Honest) /\ b \in Seq(Honest) /\ Snapshot(n) = a \o b
  BY <1>12, <1>13, <1>14
<1> HIDE DEF a, b
<1>16. QED
  BY <1>15, ConcatParts

\* A value in registers: what its fields lead to.
LEMMA ValueSnapshot ==
    ASSUME PlanInv, args = FetchArgs(nils, bad), NEW n \in 1 .. Len(values), ~Behind(values[n].type)
    PROVE  Snapshot(n) \in Seq(Honest)
<1> DEFINE v == values[n]
           t == v.type
           w == v.start
           words == WordsOf(n)
           c == CapturesOf(n)
           N == Len(t.fields)
           T == Totals(RegSeq(t))
           q == PlanLeaves(t, w)
<1>1. /\ t \in Type /\ w \in Nat /\ v.words = WordCount(t) /\ v.words \in Nat /\ v.captures = Captures(t)
      /\ Shape(q, t, w)
  BY ValueFacts
<1>2. EventOf(n) /\ \E S : c \in Seq(S)
  BY EventFacts
<1>3. PICK S : c \in Seq(S)
  BY <1>2
<1>4. N \in Nat /\ RegSeq(t) \in Seq(Nat) /\ Len(RegSeq(t)) = N
      /\ \A i \in 1 .. N : RegSeq(t)[i] = ExtraInRegisters(t.fields[i])
  BY <1>1, SeqFacts, TypeFacts
<1>5. v.captures = T[N] /\ v.words = AbiWordCount(t)
  BY <1>1, CountFacts
<1>6. Len(c) = T[N] /\ \A k \in 1 .. T[N] : c[k] = ArgOf(q[AbiWordCount(t) + k], nils, bad)
  BY <1>2, <1>5 DEF EventOf
<1>7. \A i \in 1 .. N : \A k \in 1 .. RegSeq(t)[i] :
         q[AbiWordCount(t) + (T[i - 1] + k)] = RegCaptures(t.fields[i], w + Before(t, i))[k]
  BY <1>1, <1>4 DEF Shape, ValueShape
<1>8. TakenSeq(t) = RegSeq(t)
  BY DEF TakenSeq
<1> HIDE DEF c, T, q, N
<1>9. ASSUME NEW i \in 1 .. N, NEW leaves, RegSeq(t)[i] > 0, TakesThe(leaves, t, i, c)
      PROVE  Chunks(t, words, t.fields[i], leaves) \in Seq(Honest)
  <2> DEFINE field == t.fields[i]
             leaf == RegCaptures(field, w + Before(t, i))[1]
             e == RegSeq(t)[i]
  <2>1. e = ExtraInRegisters(field) /\ e > 0 /\ e \in Nat
    BY <1>4, <1>9
  <2>2. 1 \in 1 .. e
    <3> HIDE DEF e
    <3> QED BY <2>1
  <2>3. leaves[1] = c[T[i - 1] + 1]
    BY <1>8, <1>9, <2>2 DEF TakesThe, T
  <2>4. T[i - 1] + 1 \in 1 .. T[N]
    BY <1>4, <2>2, PartInside DEF T
  <2>5. q[AbiWordCount(t) + (T[i - 1] + 1)] = leaf
    BY <1>7, <2>2
  <2>6. leaves[1] = ArgOf(leaf, nils, bad)
    BY <1>6, <2>3, <2>4, <2>5
  <2>7. Chunks(t, words, field, leaves) = RegChunks(field, Image(t, words), leaves[1])
    BY DEF Chunks
  <2>8. RegChunks(field, Image(t, words), ArgOf(leaf, nils, bad)) \in Seq(Honest)
    BY <2>1, RegChunksHonest DEF N
  <2>9. QED
    BY <2>6, <2>7, <2>8
<1>10. Consume(t, words, c) \in Seq(Honest)
  <2>1. Len(c) = Totals(TakenSeq(t))[Len(t.fields)]
    BY <1>6, <1>8 DEF T, N
  <2>2. \A i \in 1 .. Len(t.fields) : \A leaves :
            (TakenSeq(t)[i] > 0 /\ TakesThe(leaves, t, i, c)) => Chunks(t, words, t.fields[i], leaves) \in Seq(Honest)
    BY <1>8, <1>9 DEF N
  <2> HIDE DEF words, t
  <2>3. QED
    BY <1>1, <1>3, <2>1, <2>2, ConsumeHonest
<1>11. QED
  BY <1>10 DEF Snapshot, c

\* What is shown is put together from honest pieces.
LEMMA SnapshotIsHonest == PlanInv /\ HitInv => SnapshotHonest
<1> SUFFICES ASSUME PlanInv, HitInv, stage = "shown", NEW n \in 1 .. Len(values), NEW c \in ToSet(shown[n].snap)
             PROVE  c.at = c.holds
  BY DEF SnapshotHonest
<1>1. shown = Rendered /\ args = FetchArgs(nils, bad)
  BY DEF HitInv
<1>2. Snapshot(n) \in Seq(Honest) /\ <<>> \in Seq(Honest)
  BY <1>1, PointerSnapshot, ValueSnapshot
<1>3. shown[n].snap = IF RenderedAs(n) = "value" THEN Snapshot(n) ELSE <<>>
  BY <1>1 DEF Rendered
<1> DEFINE s == shown[n].snap
<1>4. s \in Seq(Honest)
  BY <1>2, <1>3
<1> HIDE DEF s
<1>5. ToSet(s) \subseteq Honest
  BY <1>4 DEF ToSet
<1>6. c \in Honest
  BY <1>5 DEF s
<1>7. QED
  BY <1>6 DEF Honest

\* AutoFetch.zh_CN.md 9: each piece of the memory that a value is rendered from starts
\* with the bytes that were at its address at the probe hit.
THEOREM SnapshotCorrect == Spec => []SnapshotHonest
BY PlanHolds, HitHolds, SnapshotIsHonest, PTL
=============================================================================
