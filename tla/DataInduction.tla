---------------------------- MODULE DataInduction ----------------------------
(***************************************************************************)
(* Facts about numbers, finite sets and sequences that the proof modules   *)
(* share.  They are stated over sets and functions and not over operators, *)
(* so that the provers can instantiate them:                               *)
(*                                                                         *)
(*   - induction over the naturals and over a finite set shows that a set  *)
(*     of numbers, or of subsets, holds everything;                        *)
(*   - a recursive function exists (its definition is a CHOOSE, of which   *)
(*     nothing is known before), given its step as a function.             *)
(***************************************************************************)
EXTENDS Integers, Sequences, TLAPS, FiniteSetTheorems

-----------------------------------------------------------------------------
(* Induction *)

\* A set of numbers with 0 and every successor holds all of them.
LEMMA NatSetInduction ==
    ASSUME NEW S, 0 \in S, \A n \in Nat : n \in S => n + 1 \in S
    PROVE  Nat \subseteq S
<1> SUFFICES ASSUME NEW n \in Nat, n \notin S PROVE FALSE
  OBVIOUS
<1> DEFINE R == OpToRel(<, Nat)
           T == {m \in Nat : m \notin S}
<1>1. IsWellFoundedOn(R, Nat)
  BY NatLessThanWellFounded
<1>2. PICK x \in T : \A y \in T : <<y, x>> \notin R
  <2> HIDE DEF R
  <2>1. T \subseteq Nat /\ T # {}
    OBVIOUS
  <2> HIDE DEF T
  <2> QED BY <1>1, <2>1, WFMin
<1>3. x \in Nat /\ x # 0 /\ x \notin S
  OBVIOUS
<1>4. x - 1 \in Nat /\ (x - 1) + 1 = x
  BY <1>3
<1>5. x - 1 \in T
  BY <1>3, <1>4
<1>6. <<x - 1, x>> \in R
  BY <1>3, <1>4 DEF OpToRel
<1>7. QED
  BY <1>2, <1>5, <1>6

\* F holds every subset of S that can be built up element by element.
LEMMA FiniteSetInduction ==
    ASSUME NEW S, IsFiniteSet(S), NEW F, {} \in F,
           \A T \in SUBSET S, x \in S : T \in F /\ x \notin T => T \cup {x} \in F
    PROVE  S \in F
<1> SUFFICES ASSUME S \notin F PROVE FALSE
  OBVIOUS
<1> DEFINE R == StrictSubsetOrdering(S)
           B == {T \in SUBSET S : T \notin F}
<1>1. IsWellFoundedOn(R, FiniteSubsetsOf(S)) /\ FiniteSubsetsOf(S) = SUBSET S
  BY FS_StrictSubsetOrderingWellFounded, FS_FiniteSubsetsOfFinite
<1>2. PICK T \in B : \A U \in B : <<U, T>> \notin R
  <2> HIDE DEF R
  <2>1. B \subseteq SUBSET S /\ B # {}
    OBVIOUS
  <2> HIDE DEF B
  <2> QED BY <1>1, <2>1, WFMin
<1>3. T \in SUBSET S /\ T \notin F /\ T # {}
  OBVIOUS
<1>4. PICK x \in T : TRUE
  BY <1>3
<1>5. x \in S /\ T \ {x} \in SUBSET S /\ x \notin T \ {x} /\ (T \ {x}) \cup {x} = T
      /\ T \ {x} # T
  BY <1>3, <1>4
<1>6. <<T \ {x}, T>> \in R
  BY <1>3, <1>5 DEF StrictSubsetOrdering
<1>7. T \ {x} \in F
  BY <1>2, <1>5, <1>6
<1>8. QED
  BY <1>3, <1>5, <1>7

\* f starts at base, and step[n, .] takes it from n - 1 to n, up to N.
Recurses(f, N, base, step) ==
    f[0] = base /\ \A n \in 1 .. N : f[n] = step[<<n, f[n - 1]>>]

\* There is such a function.
LEMMA RecursionExists ==
    ASSUME NEW S, NEW base \in S, NEW step \in [Nat \X S -> S], NEW N \in Nat
    PROVE  \E f \in [0 .. N -> S] : Recurses(f, N, base, step)
<1> DEFINE P(n) == \E f \in [0 .. n -> S] : Recurses(f, n, base, step)
           D == {n \in Nat : P(n)}
<1>1. 0 \in D
  <2> DEFINE f == [n \in 0 .. 0 |-> base]
  <2>1. f \in [0 .. 0 -> S] /\ Recurses(f, 0, base, step)
    BY DEF Recurses
  <2>2. QED
    BY <2>1
<1>2. ASSUME NEW n \in Nat, n \in D PROVE n + 1 \in D
  <2>1. PICK f \in [0 .. n -> S] : Recurses(f, n, base, step)
    BY <1>2
  <2> DEFINE h == [m \in 0 .. n + 1 |-> IF m = n + 1 THEN step[<<n + 1, f[n]>>] ELSE f[m]]
  <2>2. f[n] \in S /\ step[<<n + 1, f[n]>>] \in S
    OBVIOUS
  <2>3. h \in [0 .. n + 1 -> S]
    BY <2>2
  <2>4. h[n + 1] = step[<<n + 1, f[n]>>] /\ \A m \in 0 .. n : h[m] = f[m]
    OBVIOUS
  <2> HIDE DEF h
  <2>5. h[0] = base
    BY <2>1, <2>4 DEF Recurses
  <2>6. ASSUME NEW m \in 1 .. n + 1 PROVE h[m] = step[<<m, h[m - 1]>>]
    <3>1. CASE m = n + 1
      BY <2>4, <3>1
    <3>2. CASE m # n + 1
      <4>1. m \in 1 .. n /\ m \in 0 .. n /\ m - 1 \in 0 .. n
        BY <3>2
      <4>2. QED
        BY <2>1, <2>4, <4>1 DEF Recurses
    <3>3. QED
      BY <3>1, <3>2
  <2>7. P(n + 1)
    BY <2>3, <2>5, <2>6 DEF Recurses
  <2>8. QED
    BY <2>7
<1> HIDE DEF D
<1>3. Nat \subseteq D
  BY <1>1, <1>2, NatSetInduction
<1>4. N \in D
  BY <1>3
<1>5. QED
  BY <1>4 DEF D

\* There is no other one, on whatever range.
LEMMA RecursionUnique ==
    ASSUME NEW base, NEW step, NEW N \in Nat, NEW f, NEW h,
           Recurses(f, N, base, step), Recurses(h, N, base, step)
    PROVE  \A n \in 0 .. N : f[n] = h[n]
<1> DEFINE D == {n \in Nat : n <= N => f[n] = h[n]}
<1>1. 0 \in D
  BY DEF Recurses
<1>2. ASSUME NEW n \in Nat, n \in D PROVE n + 1 \in D
  <2> SUFFICES ASSUME n + 1 <= N PROVE f[n + 1] = h[n + 1]
    OBVIOUS
  <2>1. f[n] = h[n] /\ n + 1 \in 1 .. N /\ (n + 1) - 1 = n
    BY <1>2
  <2>2. f[n + 1] = step[<<n + 1, f[n]>>] /\ h[n + 1] = step[<<n + 1, h[n]>>]
    BY <2>1 DEF Recurses
  <2>3. QED
    BY <2>1, <2>2
<1> HIDE DEF D
<1>3. Nat \subseteq D
  BY <1>1, <1>2, NatSetInduction
<1>4. QED
  BY <1>3 DEF D

-----------------------------------------------------------------------------
(* Sequences *)

\* A sequence is empty if its length is 0.
LEMMA EmptySeqFacts ==
    ASSUME NEW S, NEW q \in Seq(S)
    PROVE  q # <<>> <=> Len(q) \in Nat \ {0}
OBVIOUS

\* Append adds its element at the end and leaves the others in place.
LEMMA AppendFacts ==
    ASSUME NEW S, NEW q \in Seq(S), NEW x \in S
    PROVE  /\ Append(q, x) \in Seq(S) /\ Len(Append(q, x)) = Len(q) + 1
           /\ \A i \in 1 .. Len(q) : Append(q, x)[i] = q[i]
           /\ Append(q, x)[Len(q) + 1] = x
OBVIOUS

\* The first n elements of a sequence.
LEMMA SubSeqFacts ==
    ASSUME NEW S, NEW q \in Seq(S), NEW n \in 0 .. Len(q)
    PROVE  /\ SubSeq(q, 1, n) \in Seq(S) /\ Len(SubSeq(q, 1, n)) = n
           /\ \A i \in 1 .. n : SubSeq(q, 1, n)[i] = q[i]
OBVIOUS

\* An update changes one element and not the length.
LEMMA UpdateFacts ==
    ASSUME NEW S, NEW q \in Seq(S), NEW n \in 1 .. Len(q), NEW x \in S
    PROVE  /\ [q EXCEPT ![n] = x] \in Seq(S) /\ Len([q EXCEPT ![n] = x]) = Len(q)
           /\ \A i \in 1 .. Len(q) : [q EXCEPT ![n] = x][i] = IF i = n THEN x ELSE q[i]
OBVIOUS
=============================================================================
