--------------------------- MODULE FuncAggProofs ---------------------------
(***************************************************************************)
(* TLAPS proofs about the Space-Saving table of FuncAgg, for every table   *)
(* size, every set of values and every weight.  ErrorWithin is not         *)
(* inductive by itself: a value that enters by replacement inherits the    *)
(* minimum as its error, which bounds what it scored while unlisted only   *)
(* because UnlistedIsLight holds; and UnlistedIsLight survives the         *)
(* replacement only because the evicted entry was bounded by ErrorWithin.  *)
(* CountedColumn further needs that weights are positive.                  *)
(*                                                                         *)
(* The sums of HeavyHittersListed and HistogramComplete are folds, whose   *)
(* recursive function is first shown to exist and not to depend on the     *)
(* order.  The guarantee itself is that the estimates add up to the whole  *)
(* weight (WeightInv): the least of a full table is at most an equal       *)
(* share, and bounds both the errors and what is not listed.               *)
(***************************************************************************)
EXTENDS FuncAgg, DataInduction

-----------------------------------------------------------------------------
(* Sums over a finite set *)

\* The fold of Total takes the elements in some fixed order.
Choice(T) == CHOOSE x \in T : TRUE

FoldsUp(f, S, sum) ==
    sum = [T \in SUBSET S |-> IF T = {} THEN 0 ELSE f[Choice(T)] + sum[T \ {Choice(T)}]]

\* The sum of f over every subset of S, in whatever order.
Sums(f, S, sum) ==
    /\ sum \in [SUBSET S -> Nat]
    /\ sum[{}] = 0
    /\ \A T \in SUBSET S : \A x \in S \ T : sum[T \cup {x}] = sum[T] + f[x]

\* A subset without the element that is chosen has one element less.
LEMMA ChoiceFacts ==
    ASSUME NEW S, IsFiniteSet(S), NEW T \in SUBSET S, T # {}
    PROVE  /\ Choice(T) \in T /\ T \ {Choice(T)} \in SUBSET S
           /\ Cardinality(T) \in Nat /\ Cardinality(T \ {Choice(T)}) = Cardinality(T) - 1
           /\ IsFiniteSet(T)
<1>1. Choice(T) \in T
  BY DEF Choice
<1>2. IsFiniteSet(T)
  BY FS_Subset
<1>3. Cardinality(T) \in Nat
  BY <1>2, FS_CardinalityType
<1>4. Cardinality(T \ {Choice(T)}) = Cardinality(T) - 1
  BY <1>1, <1>2, FS_RemoveElement
<1>5. QED
  BY <1>1, <1>2, <1>3, <1>4

\* The subsets of at most n elements.
Small(S, n) == {T \in SUBSET S : Cardinality(T) <= n}

\* The fold exists: by induction on the size of the subsets.
LEMMA FoldExists ==
    ASSUME NEW S, IsFiniteSet(S), NEW f \in [S -> Nat]
    PROVE  \E sum \in [SUBSET S -> Nat] : FoldsUp(f, S, sum)
<1> DEFINE next(sum, T) == IF T = {} THEN 0 ELSE f[Choice(T)] + sum[T \ {Choice(T)}]
           Upto(n, sum) == \A T \in Small(S, n) : sum[T] = next(sum, T)
           D == {n \in Nat : \E sum \in [SUBSET S -> Nat] : Upto(n, sum)}
<1>1. 0 \in D
  <2> DEFINE sum == [T \in SUBSET S |-> 0]
  <2>1. ASSUME NEW T \in Small(S, 0) PROVE T = {}
    <3>1. T \in SUBSET S /\ IsFiniteSet(T) /\ Cardinality(T) <= 0
      BY FS_Subset DEF Small
    <3>2. Cardinality(T) \in Nat
      BY <3>1, FS_CardinalityType
    <3>3. QED
      BY <3>1, <3>2, FS_EmptySet
  <2>2. Upto(0, sum)
    BY <2>1 DEF Small
  <2>3. QED
    BY <2>2
<1>2. ASSUME NEW n \in Nat, n \in D PROVE n + 1 \in D
  <2>1. PICK sum \in [SUBSET S -> Nat] : Upto(n, sum)
    BY <1>2
  <2> DEFINE more == [T \in SUBSET S |-> IF Cardinality(T) <= n THEN sum[T] ELSE next(sum, T)]
  <2>2. ASSUME NEW T \in SUBSET S, T # {}
        PROVE  next(sum, T) \in Nat
    BY <2>2, ChoiceFacts
  <2>3. more \in [SUBSET S -> Nat]
    BY <2>2
  <2>4. ASSUME NEW T \in Small(S, n + 1) PROVE more[T] = next(more, T)
    <3>1. T \in SUBSET S /\ Cardinality(T) <= n + 1
      BY DEF Small
    <3>2. CASE T = {}
      <4>1. Cardinality(T) <= n /\ T \in Small(S, n)
        BY <3>1, <3>2, FS_EmptySet DEF Small
      <4>2. QED
        BY <2>1, <3>1, <3>2, <4>1
    <3>3. CASE T # {}
      <4> DEFINE U == T \ {Choice(T)}
      <4>1. /\ Choice(T) \in T /\ U \in SUBSET S
            /\ Cardinality(T) \in Nat /\ Cardinality(U) = Cardinality(T) - 1
        BY <3>1, <3>3, ChoiceFacts
      <4>2. more[U] = sum[U]
        BY <3>1, <4>1
      <4>3. Cardinality(T) <= n => T \in Small(S, n)
        BY <3>1 DEF Small
      <4>4. more[T] = next(sum, T)
        BY <2>1, <3>1, <4>3
      <4>5. QED
        BY <3>3, <4>2, <4>4
    <3>4. QED
      BY <3>2, <3>3
  <2> HIDE DEF more, next
  <2>5. Upto(n + 1, more)
    BY <2>4
  <2>6. QED
    BY <2>3, <2>5
<1> DEFINE N == Cardinality(S)
<1>3. N \in D
  <2> HIDE DEF D
  <2>1. Nat \subseteq D
    BY <1>1, <1>2, NatSetInduction
  <2>2. N \in Nat
    BY FS_CardinalityType
  <2>3. QED
    BY <2>1, <2>2
<1>4. PICK sum \in [SUBSET S -> Nat] : Upto(N, sum)
  BY <1>3
<1>5. \A T \in SUBSET S : T \in Small(S, N)
  <2>1. \A T \in SUBSET S : Cardinality(T) <= Cardinality(S)
    BY FS_Subset
  <2>2. QED
    BY <2>1 DEF Small
<1>6. sum = [T \in SUBSET S |-> next(sum, T)]
  BY <1>4, <1>5
<1>7. QED
  BY <1>6 DEF FoldsUp

\* The fold only gives numbers, by the same induction.
LEMMA FoldType ==
    ASSUME NEW S, IsFiniteSet(S), NEW f \in [S -> Nat], NEW sum, FoldsUp(f, S, sum)
    PROVE  sum \in [SUBSET S -> Nat]
<1> DEFINE D == {n \in Nat : \A T \in Small(S, n) : sum[T] \in Nat}
<1>1. \A T \in SUBSET S :
        sum[T] = IF T = {} THEN 0 ELSE f[Choice(T)] + sum[T \ {Choice(T)}]
  BY DEF FoldsUp
<1>2. ASSUME NEW T \in SUBSET S, T # {} => sum[T \ {Choice(T)}] \in Nat
      PROVE  sum[T] \in Nat
  <2>1. CASE T = {}
    <3>1. sum[T] = 0
      BY <1>1, <2>1
    <3>2. QED
      BY <3>1
  <2>2. CASE T # {}
    <3>1. f[Choice(T)] \in Nat
      BY <2>2, ChoiceFacts
    <3>2. sum[T] = f[Choice(T)] + sum[T \ {Choice(T)}]
      BY <1>1, <2>2
    <3>3. QED
      BY <1>2, <2>2, <3>1, <3>2
  <2>3. QED
    BY <2>1, <2>2
<1>3. 0 \in D
  <2> SUFFICES ASSUME NEW T \in Small(S, 0) PROVE sum[T] \in Nat
    OBVIOUS
  <2>1. T \in SUBSET S /\ Cardinality(T) <= 0
    BY DEF Small
  <2>2. T = {}
    <3>1. Cardinality(T) \in Nat /\ IsFiniteSet(T)
      BY <2>1, FS_Subset, FS_CardinalityType
    <3>2. QED
      BY <2>1, <3>1, FS_EmptySet
  <2>3. QED
    BY <1>2, <2>1, <2>2
<1>4. ASSUME NEW n \in Nat, n \in D PROVE n + 1 \in D
  <2> SUFFICES ASSUME NEW T \in Small(S, n + 1) PROVE sum[T] \in Nat
    OBVIOUS
  <2>1. T \in SUBSET S /\ Cardinality(T) <= n + 1
    BY DEF Small
  <2>2. T # {} => T \ {Choice(T)} \in Small(S, n)
    BY <2>1, ChoiceFacts DEF Small
  <2>3. QED
    BY <1>2, <1>4, <2>1, <2>2
<1>5. Nat \subseteq D
  <2> HIDE DEF D
  <2>1. QED
    BY <1>3, <1>4, NatSetInduction
<1>6. ASSUME NEW T \in SUBSET S PROVE sum[T] \in Nat
  <2>1. Cardinality(T) \in Nat
    BY FS_Subset, FS_CardinalityType
  <2>2. T \in Small(S, Cardinality(T)) /\ Cardinality(T) \in D
    BY <1>5, <2>1 DEF Small
  <2>3. QED
    BY <2>2
<1>7. QED
  <2>1. sum = [T \in SUBSET S |-> sum[T]]
    BY DEF FoldsUp
  <2>2. QED
    BY <1>6, <2>1

\* The order does not matter.
LEMMA AnyOrder ==
    ASSUME NEW S, IsFiniteSet(S), NEW f \in [S -> Nat],
           NEW sum \in [SUBSET S -> Nat], FoldsUp(f, S, sum)
    PROVE  Sums(f, S, sum)
<1>1. \A T \in SUBSET S :
        sum[T] = IF T = {} THEN 0 ELSE f[Choice(T)] + sum[T \ {Choice(T)}]
  BY DEF FoldsUp
<1> DEFINE Adds(T) == \A x \in S \ T : sum[T \cup {x}] = sum[T] + f[x]
           D == {n \in Nat : \A T \in Small(S, n) : Adds(T)}
<1>2. ASSUME NEW T \in SUBSET S, NEW x \in S \ T,
             \A U \in SUBSET T : U # T => Adds(U)
      PROVE  sum[T \cup {x}] = sum[T] + f[x]
  <2> DEFINE W == T \cup {x}
             c == Choice(W)
  <2>1. W \in SUBSET S /\ W # {}
    OBVIOUS
  <2>2. c \in W
    BY <2>1 DEF Choice
  <2>3. sum[W] = f[c] + sum[W \ {c}]
    BY <1>1, <2>1
  <2>4. CASE c = x
    <3>1. W \ {c} = T
      BY <2>4
    <3>2. sum[T] \in Nat /\ f[x] \in Nat
      OBVIOUS
    <3>3. sum[W] = f[x] + sum[T]
      BY <2>3, <2>4, <3>1
    <3> HIDE DEF W, c
    <3>4. sum[W] = sum[T] + f[x]
      BY <3>2, <3>3
    <3>5. QED
      BY <3>4 DEF W
  <2>5. CASE c # x
    <3> DEFINE U == T \ {c}
    <3>1. c \in T /\ U \in SUBSET T /\ U # T /\ c \in S \ U /\ x \in S \ U
      BY <2>2, <2>5
    <3> HIDE DEF c
    <3>2. W \ {c} = U \cup {x} /\ U \cup {c} = T
      BY <2>5, <3>1
    <3>3. sum[U \cup {x}] = sum[U] + f[x] /\ sum[U \cup {c}] = sum[U] + f[c]
      BY <1>2, <3>1
    <3>4. sum[U] \in Nat /\ f[x] \in Nat /\ f[c] \in Nat /\ sum[T] \in Nat
      BY <3>1
    <3>5. sum[W] = f[c] + sum[U \cup {x}] /\ sum[T] = sum[U] + f[c]
      BY <2>3, <3>2, <3>3
    <3> HIDE DEF W, U
    <3>6. sum[W] = sum[T] + f[x]
      BY <3>3, <3>4, <3>5
    <3>7. QED
      BY <3>6 DEF W
  <2>6. QED
    BY <2>4, <2>5
<1>3. 0 \in D
  <2> SUFFICES ASSUME NEW T \in Small(S, 0), NEW x \in S \ T
               PROVE  sum[T \cup {x}] = sum[T] + f[x]
    OBVIOUS
  <2>1. T \in SUBSET S /\ IsFiniteSet(T) /\ Cardinality(T) <= 0
    BY FS_Subset DEF Small
  <2>2. Cardinality(T) \in Nat
    BY <2>1, FS_CardinalityType
  <2>3. T = {}
    BY <2>1, <2>2, FS_EmptySet
  <2>4. QED
    BY <1>2, <2>1, <2>3
<1>4. ASSUME NEW n \in Nat, n \in D PROVE n + 1 \in D
  <2> SUFFICES ASSUME NEW T \in Small(S, n + 1), NEW x \in S \ T
               PROVE  sum[T \cup {x}] = sum[T] + f[x]
    <3>1. n + 1 \in Nat
      OBVIOUS
    <3>2. QED
      BY <3>1
  <2>1. T \in SUBSET S /\ Cardinality(T) <= n + 1 /\ IsFiniteSet(T)
    BY FS_Subset DEF Small
  <2>2. Cardinality(T) \in Nat
    BY <2>1, FS_CardinalityType
  <2>3. ASSUME NEW U \in SUBSET T, U # T PROVE U \in Small(S, n)
    <3>1. IsFiniteSet(U) /\ Cardinality(U) <= Cardinality(T)
          /\ (Cardinality(U) = Cardinality(T) => U = T)
      BY <2>1, FS_Subset
    <3>2. Cardinality(U) \in Nat
      BY <3>1, FS_CardinalityType
    <3>3. QED
      BY <2>1, <2>2, <2>3, <3>1, <3>2 DEF Small
  <2>4. \A U \in SUBSET T : U # T => Adds(U)
    BY <1>4, <2>3
  <2>5. QED
    BY <1>2, <2>1, <2>4
<1>5. Nat \subseteq D
  <2> HIDE DEF D
  <2>1. QED
    BY <1>3, <1>4, NatSetInduction
<1>6. ASSUME NEW T \in SUBSET S PROVE Adds(T)
  <2>1. Cardinality(T) \in Nat
    BY FS_Subset, FS_CardinalityType
  <2>2. T \in Small(S, Cardinality(T)) /\ Cardinality(T) \in D
    BY <1>5, <2>1 DEF Small
  <2>3. QED
    BY <2>2
<1>7. QED
  BY <1>1, <1>6 DEF Sums

\* Total is such a sum, over the whole domain.
LEMMA TotalUnfolds ==
    ASSUME NEW S, IsFiniteSet(S), NEW f \in [S -> Nat]
    PROVE  \E sum : Sums(f, S, sum) /\ Total(f) = sum[S]
<1> DEFINE fold == CHOOSE sum : FoldsUp(f, S, sum)
<1>1. PICK sum \in [SUBSET S -> Nat] : FoldsUp(f, S, sum)
  BY FoldExists
<1>2. FoldsUp(f, S, fold)
  BY <1>1
<1>3. DOMAIN f = S
  OBVIOUS
<1>4. Total(f) = fold[S]
  BY <1>3 DEF Total, MapThenSumSet, MapThenFoldSet, FoldsUp, Choice
<1> HIDE DEF fold
<1>5. fold \in [SUBSET S -> Nat]
  BY <1>2, FoldType
<1>6. QED
  BY <1>2, <1>4, <1>5, AnyOrder

\* A sum changes by what one element changes by.
LEMMA TotalChange ==
    ASSUME NEW S, IsFiniteSet(S), NEW f \in [S -> Nat], NEW h \in [S -> Nat], NEW x \in S,
           \A y \in S \ {x} : h[y] = f[y]
    PROVE  /\ Total(f) \in Nat /\ Total(h) \in Nat
           /\ Total(h) + f[x] = Total(f) + h[x]
<1>1. PICK sumf : Sums(f, S, sumf) /\ Total(f) = sumf[S]
  BY TotalUnfolds
<1>2. PICK sumh : Sums(h, S, sumh) /\ Total(h) = sumh[S]
  BY TotalUnfolds
<1> DEFINE R == S \ {x}
           F == {T \in SUBSET R : sumf[T] = sumh[T]}
<1>3. R \in F
  <2>1. {} \in F
    BY <1>1, <1>2 DEF Sums
  <2>2. ASSUME NEW T \in SUBSET R, NEW y \in R, T \in F, y \notin T
        PROVE  T \cup {y} \in F
    <3>1. T \in SUBSET S /\ y \in S \ T /\ T \cup {y} \in SUBSET R /\ h[y] = f[y]
      BY <2>2
    <3>2. sumf[T \cup {y}] = sumf[T] + f[y] /\ sumh[T \cup {y}] = sumh[T] + h[y]
      BY <1>1, <1>2, <3>1 DEF Sums
    <3>3. QED
      BY <2>2, <3>1, <3>2
  <2>3. IsFiniteSet(R)
    BY FS_Subset
  <2> HIDE DEF F, R
  <2>4. QED
    BY <2>1, <2>2, <2>3, FiniteSetInduction
<1>4. R \in SUBSET S /\ x \in S \ R /\ R \cup {x} = S
  OBVIOUS
<1>5. sumf[S] = sumf[R] + f[x] /\ sumh[S] = sumh[R] + h[x]
  BY <1>1, <1>2, <1>4 DEF Sums
<1>6. sumf[R] = sumh[R] /\ sumf[R] \in Nat /\ f[x] \in Nat /\ h[x] \in Nat
  BY <1>1, <1>3, <1>4 DEF Sums
<1>7. QED
  BY <1>1, <1>2, <1>5, <1>6

\* A sum is at least a lower bound times the number of elements it holds for.
LEMMA TotalAtLeast ==
    ASSUME NEW S, IsFiniteSet(S), NEW f \in [S -> Nat], NEW T \in SUBSET S, NEW k \in Nat,
           \A x \in T : k <= f[x]
    PROVE  /\ Total(f) \in Nat /\ Cardinality(T) \in Nat
           /\ k * Cardinality(T) <= Total(f)
<1>1. PICK sum : Sums(f, S, sum) /\ Total(f) = sum[S]
  BY TotalUnfolds
<1>2. \A U \in SUBSET S : IsFiniteSet(U) /\ Cardinality(U) \in Nat
  BY FS_Subset, FS_CardinalityType
<1>3. k * Cardinality(T) <= sum[T]
  <2> DEFINE F == {U \in SUBSET T : k * Cardinality(U) <= sum[U]}
  <2>1. {} \in F
    BY <1>1, FS_EmptySet DEF Sums
  <2>2. ASSUME NEW U \in SUBSET T, NEW x \in T, U \in F, x \notin U
        PROVE  U \cup {x} \in F
    <3>1. Cardinality(U) \in Nat /\ Cardinality(U \cup {x}) = Cardinality(U) + 1
      BY <1>2, <2>2, FS_AddElement
    <3>2. sum[U \cup {x}] = sum[U] + f[x] /\ sum[U] \in Nat /\ f[x] \in Nat
      BY <1>1, <2>2 DEF Sums
    <3>3. k * Cardinality(U) <= sum[U] /\ k <= f[x]
      BY <2>2
    <3>4. k * (Cardinality(U) + 1) = k * Cardinality(U) + k /\ k * Cardinality(U) \in Nat
      BY <3>1
    <3>5. k * Cardinality(U \cup {x}) <= sum[U \cup {x}]
      BY <3>1, <3>2, <3>3, <3>4
    <3>6. QED
      BY <2>2, <3>5
  <2> HIDE DEF F
  <2>3. T \in F
    BY <1>2, <2>1, <2>2, FiniteSetInduction
  <2>4. QED
    BY <2>3 DEF F
<1>4. sum[T] <= sum[S]
  <2> DEFINE R == S \ T
             F == {U \in SUBSET R : sum[T] <= sum[T \cup U]}
  <2>1. {} \in F
    BY <1>1 DEF Sums
  <2>2. ASSUME NEW U \in SUBSET R, NEW x \in R, U \in F, x \notin U
        PROVE  U \cup {x} \in F
    <3>1. T \cup U \in SUBSET S /\ x \in S \ (T \cup U) /\ T \cup (U \cup {x}) = (T \cup U) \cup {x}
      BY <2>2
    <3>2. sum[T \cup (U \cup {x})] = sum[T \cup U] + f[x]
      BY <1>1, <3>1 DEF Sums
    <3>3. sum[T \cup U] \in Nat /\ sum[T] \in Nat /\ f[x] \in Nat /\ sum[T] <= sum[T \cup U]
      BY <1>1, <2>2, <3>1 DEF Sums
    <3>4. sum[T] <= sum[T \cup (U \cup {x})]
      BY <3>2, <3>3
    <3>5. QED
      BY <2>2, <3>4
  <2>3. IsFiniteSet(R)
    BY <1>2
  <2>4. R \in F
    <3> HIDE DEF F, R
    <3>1. QED
      BY <2>1, <2>2, <2>3, FiniteSetInduction
  <2>5. T \cup R = S
    OBVIOUS
  <2>6. QED
    BY <2>4, <2>5
<1>5. sum[S] \in Nat /\ sum[T] \in Nat /\ k * Cardinality(T) \in Nat
  BY <1>1, <1>2 DEF Sums
<1>6. QED
  BY <1>1, <1>2, <1>3, <1>4, <1>5

\* Nothing adds up to nothing.
LEMMA TotalOfNothing ==
    ASSUME NEW S, IsFiniteSet(S)
    PROVE  Total([x \in S |-> 0]) = 0
<1> DEFINE f == [x \in S |-> 0]
<1>1. f \in [S -> Nat] /\ \A x \in S : f[x] = 0
  OBVIOUS
<1> HIDE DEF f
<1>2. PICK sum : Sums(f, S, sum) /\ Total(f) = sum[S]
  BY <1>1, TotalUnfolds
<1> DEFINE F == {T \in SUBSET S : sum[T] = 0}
<1>3. {} \in F
  BY <1>2 DEF Sums
<1>4. ASSUME NEW T \in SUBSET S, NEW x \in S, T \in F, x \notin T
      PROVE  T \cup {x} \in F
  <2>1. sum[T \cup {x}] = sum[T] + f[x]
    BY <1>2, <1>4 DEF Sums
  <2>2. QED
    BY <1>1, <1>4, <2>1
<1>5. S \in F
  <2> HIDE DEF F
  <2>1. QED
    BY <1>3, <1>4, FiniteSetInduction
<1>6. Total(f) = 0
  BY <1>2, <1>5
<1>7. QED
  BY <1>6 DEF f

-----------------------------------------------------------------------------
(* The table *)

\* Listed values have a positive estimate.
PositiveEstimates == \A v \in tracked : weightedCount[v] > 0

\* Before the table fills, an unlisted value has never been seen.
UnlistedUnseen ==
    Cardinality(tracked) < MaxRetvals => \A v \in Values \ tracked : trueCount[v] = 0

\* The sketch invariant without the histogram, which recordRetval leaves alone.
SketchInv ==
    /\ TableBounded /\ ErrorWithin /\ CountedColumn /\ UnlistedIsLight
    /\ PositiveEstimates /\ UnlistedUnseen

\* newFuncAgg establishes the invariant.
LEMMA InitInv == Init => TypeOK /\ SketchInv
BY FS_EmptySet, TableAssumption
DEF Init, SketchInv, TypeOK, TableBounded, ErrorWithin, CountedColumn, UnlistedIsLight,
    PositiveEstimates, UnlistedUnseen

\* The table is finite, so its cardinality is a number.
LEMMA TableFinite ==
    ASSUME TypeOK
    PROVE  IsFiniteSet(tracked) /\ Cardinality(tracked) \in Nat
BY FS_Subset, FS_CardinalityType, TableAssumption DEF TypeOK

\* What the history variables become.
Scored(v, w) ==
    /\ trueCount' = [trueCount EXCEPT ![v] = @ + 1]
    /\ trueWeight' = [trueWeight EXCEPT ![v] = @ + w]

\* recordRetval on a listed value.
LEMMA BumpStep ==
    ASSUME TypeOK, SketchInv, NEW v \in Values, NEW w \in Nat \ {0},
           BumpExisting(v, w), Scored(v, w)
    PROVE  SketchInv'
<1> USE DEF BumpExisting, Scored, TypeOK
<1>1. TableBounded'
  BY DEF SketchInv, TableBounded
<1>2. ErrorWithin'
  BY DEF SketchInv, ErrorWithin
<1>3. CountedColumn'
  BY DEF SketchInv, CountedColumn
<1>4. UnlistedIsLight'
  BY DEF SketchInv, UnlistedIsLight
<1>5. PositiveEstimates'
  BY DEF SketchInv, PositiveEstimates
<1>6. UnlistedUnseen'
  BY DEF SketchInv, UnlistedUnseen
<1>7. QED
  BY <1>1, <1>2, <1>3, <1>4, <1>5, <1>6 DEF SketchInv

\* recordRetval with room in the table: the value was never seen before.
LEMMA InsertStep ==
    ASSUME TypeOK, SketchInv, NEW v \in Values, NEW w \in Nat \ {0},
           InsertNew(v, w), Scored(v, w)
    PROVE  SketchInv'
<1>1. Cardinality(tracked') = Cardinality(tracked) + 1 /\ Cardinality(tracked) \in Nat
  BY TableFinite, FS_AddElement DEF InsertNew
<1>2. trueWeight[v] = 0 /\ trueCount[v] = 0
  BY DEF InsertNew, SketchInv, UnlistedIsLight, UnlistedUnseen
<1>3. \A u \in Values \ tracked : trueWeight[u] = 0 /\ trueCount[u] = 0
  BY DEF InsertNew, SketchInv, UnlistedIsLight, UnlistedUnseen
<1> USE DEF InsertNew, Scored, TypeOK
<1>4. TableBounded'
  BY <1>1, TableAssumption DEF TableBounded
<1>5. ErrorWithin'
  BY <1>2 DEF SketchInv, ErrorWithin
<1>6. CountedColumn'
  BY <1>2 DEF SketchInv, CountedColumn
<1>7. UnlistedIsLight'
  BY <1>3 DEF UnlistedIsLight
<1>8. PositiveEstimates'
  BY DEF SketchInv, PositiveEstimates
<1>9. UnlistedUnseen'
  BY <1>3 DEF UnlistedUnseen
<1>10. QED
  BY <1>4, <1>5, <1>6, <1>7, <1>8, <1>9 DEF SketchInv

\* recordRetval on a full table: the minimum makes room.
LEMMA ReplaceStep ==
    ASSUME TypeOK, SketchInv, NEW v \in Values, NEW w \in Nat \ {0},
           ReplaceMinimum(v, w), Scored(v, w)
    PROVE  SketchInv'
<1>1. PICK m \in Minima :
        /\ tracked' = (tracked \ {m}) \cup {v}
        /\ count' = [count EXCEPT ![m] = 0, ![v] = 1]
        /\ weightedCount' = [weightedCount EXCEPT ![m] = 0, ![v] = weightedCount[m] + w]
        /\ weightedError' = [weightedError EXCEPT ![m] = 0, ![v] = weightedCount[m]]
  BY DEF ReplaceMinimum, ReplaceEntry, TableFull
<1>2. /\ m \in tracked /\ m \in Values /\ v \notin tracked /\ m # v
      /\ \A t \in tracked : weightedCount[m] <= weightedCount[t]
  BY DEF Minima, ReplaceMinimum, ReplaceEntry, TableFull, TypeOK
<1>3. Cardinality(tracked') = Cardinality(tracked) /\ Cardinality(tracked) \in Nat
  <2>1. IsFiniteSet(tracked) /\ Cardinality(tracked) \in Nat
    BY TableFinite
  <2>2. IsFiniteSet(tracked \ {m}) /\ Cardinality(tracked \ {m}) = Cardinality(tracked) - 1
    BY <2>1, <1>2, FS_RemoveElement
  <2>3. Cardinality((tracked \ {m}) \cup {v}) = Cardinality(tracked \ {m}) + 1
    BY <2>2, <1>2, FS_AddElement
  <2>4. QED
    BY <2>1, <2>2, <2>3, <1>1
<1>4. Cardinality(tracked') >= MaxRetvals
  BY <1>3 DEF ReplaceMinimum, ReplaceEntry, TableFull
<1>5. trueWeight[v] <= weightedCount[m] /\ weightedCount[m] > 0
  BY <1>2 DEF SketchInv, UnlistedIsLight, PositiveEstimates
<1> USE DEF Scored, TypeOK
<1>6. TableBounded'
  BY <1>3 DEF SketchInv, TableBounded
<1>7. ErrorWithin'
  BY <1>1, <1>2, <1>5 DEF SketchInv, ErrorWithin
<1>8. CountedColumn'
  BY <1>1, <1>2, <1>5 DEF SketchInv, CountedColumn
<1>9. UnlistedIsLight'
  <2> SUFFICES ASSUME NEW u \in Values \ tracked', NEW t \in tracked'
               PROVE  trueWeight'[u] <= weightedCount'[t]
    BY <1>4, TableAssumption, <1>3 DEF UnlistedIsLight
  <2>1. trueWeight'[u] = trueWeight[u] /\ trueWeight[u] \in Nat
    BY <1>1
  <2>2. trueWeight[u] <= weightedCount[m]
    <3>1. CASE u = m
      BY <3>1, <1>2 DEF SketchInv, ErrorWithin
    <3>2. CASE u # m
      BY <3>2, <1>1, <1>2 DEF SketchInv, UnlistedIsLight
    <3>3. QED
      BY <3>1, <3>2
  <2>3. weightedCount[m] <= weightedCount'[t]
    BY <1>1, <1>2
  <2>4. weightedCount[m] \in Nat /\ weightedCount'[t] \in Nat
    BY <1>1, <1>2
  <2>5. QED
    BY <2>1, <2>2, <2>3, <2>4
<1>10. PositiveEstimates'
  BY <1>1, <1>2, <1>5 DEF SketchInv, PositiveEstimates
<1>11. UnlistedUnseen'
  BY <1>3, <1>4, TableAssumption DEF UnlistedUnseen
<1>12. QED
  BY <1>6, <1>7, <1>8, <1>9, <1>10, <1>11 DEF SketchInv

\* Adding to one bucket of a histogram gives a histogram.
LEMMA HistogramType ==
    ASSUME NEW f \in [Buckets -> Nat], NEW b, NEW w \in Nat
    PROVE  [f EXCEPT ![b] = @ + w] \in [Buckets -> Nat]
<1>1. CASE b \in Buckets
  BY <1>1
<1>2. CASE b \notin Buckets
  BY <1>2
<1>3. QED
  BY <1>1, <1>2

\* Types survive every branch of recordAgg.
LEMMA NextType ==
    ASSUME TypeOK, [Next]_vars
    PROVE  TypeOK'
<1>1. ASSUME NEW elapsed \in Elapsed, NEW w \in Nat, RecordLatency(elapsed, w)
      PROVE  /\ calls' \in Nat /\ weightedCalls' \in Nat
             /\ latencies' \in [Buckets -> Nat] /\ weightedLatencies' \in [Buckets -> Nat]
  <2>1. latencies' \in [Buckets -> Nat] /\ weightedLatencies' \in [Buckets -> Nat]
    BY <1>1, HistogramType DEF TypeOK, RecordLatency
  <2>2. QED
    BY <1>1, <2>1 DEF TypeOK, RecordLatency
<1>2. ASSUME NEW v \in Values, NEW w \in Nat, RecordRetval(v, w)
      PROVE  /\ tracked' \subseteq Values /\ count' \in [Values -> Nat]
             /\ weightedCount' \in [Values -> Nat] /\ weightedError' \in [Values -> Nat]
             /\ trueCount' \in [Values -> Nat] /\ trueWeight' \in [Values -> Nat]
  BY <1>2 DEF TypeOK, RecordRetval, BumpExisting, InsertNew, ReplaceMinimum, ReplaceEntry,
              TableFull, Minima
<1>3. \A weight \in Weights : EffectiveWeight(weight) \in Nat
  BY InputAssumption DEF EffectiveWeight
<1>4. ASSUME NEW elapsed \in Elapsed, NEW weight \in Weights, NEW v \in Values,
             RecordAgg(elapsed, v, weight)
      PROVE  TypeOK'
  BY <1>1, <1>2, <1>3, <1>4 DEF RecordAgg, TypeOK
<1>5. ASSUME NEW elapsed \in Elapsed, NEW weight \in Weights,
             RecordAggNoRetval(elapsed, weight)
      PROVE  TypeOK'
  BY <1>1, <1>3, <1>5 DEF RecordAggNoRetval, TypeOK, table, history
<1>6. CASE UNCHANGED vars
  BY <1>6 DEF vars, histogram, table, history, TypeOK
<1>7. QED
  BY <1>4, <1>5, <1>6 DEF Next

\* The sketch invariant survives every step.
LEMMA NextSketch ==
    ASSUME TypeOK, SketchInv, [Next]_vars
    PROVE  SketchInv'
<1>1. \A weight \in Weights : EffectiveWeight(weight) \in Nat \ {0}
  BY InputAssumption DEF EffectiveWeight
<1>2. ASSUME NEW elapsed \in Elapsed, NEW weight \in Weights, NEW v \in Values,
             RecordAgg(elapsed, v, weight)
      PROVE  SketchInv'
  <2> DEFINE w == EffectiveWeight(weight)
  <2>1. w \in Nat \ {0} /\ Scored(v, w)
    BY <1>1, <1>2 DEF RecordAgg, RecordRetval, Scored
  <2>2. BumpExisting(v, w) \/ InsertNew(v, w) \/ ReplaceMinimum(v, w)
    BY <1>2 DEF RecordAgg, RecordRetval
  <2> HIDE DEF w
  <2>3. QED
    BY <2>1, <2>2, BumpStep, InsertStep, ReplaceStep
<1>3. ASSUME UNCHANGED <<table, history>>
      PROVE  SketchInv'
  BY <1>3 DEF table, history, SketchInv, TableBounded, ErrorWithin, CountedColumn,
              UnlistedIsLight, PositiveEstimates, UnlistedUnseen
<1>4. QED
  BY <1>2, <1>3 DEF Next, RecordAggNoRetval, vars

\* The invariant holds in every behaviour.
LEMMA SpecInv == Spec => [](TypeOK /\ SketchInv)
BY InitInv, NextType, NextSketch, PTL DEF Spec

-----------------------------------------------------------------------------
(* The weight *)

\* The table shares out all the weight there is, and a listed value has as error at most
\* an equal share of it.
WeightInv ==
    /\ Total(weightedCount) = TotalWeight
    /\ \A v \in Values \ tracked : weightedCount[v] = 0
    /\ \A v \in tracked : weightedError[v] * MaxRetvals <= TotalWeight

\* The weight of a call is added to the total.
LEMMA TotalWeightGrows ==
    ASSUME TypeOK, NEW v \in Values, NEW w \in Nat, Scored(v, w)
    PROVE  TotalWeight' = TotalWeight + w /\ TotalWeight \in Nat
<1> DEFINE f == trueWeight
           h == trueWeight'
<1>1. /\ f \in [Values -> Nat] /\ h \in [Values -> Nat] /\ h[v] = f[v] + w
      /\ \A u \in Values \ {v} : h[u] = f[u]
  BY DEF TypeOK, Scored
<1>2. Total(f) \in Nat /\ Total(h) \in Nat /\ Total(h) + f[v] = Total(f) + h[v]
  <2> HIDE DEF f, h
  <2>1. QED
    BY <1>1, TotalChange, TableAssumption
<1>3. TotalWeight = Total(f) /\ TotalWeight' = Total(h) /\ f[v] \in Nat
  BY <1>1 DEF TotalWeight
<1> HIDE DEF f, h
<1>4. QED
  BY <1>1, <1>2, <1>3

\* A step that changes one estimate by w, and gives no listed value a larger error.
LEMMA EstimateGrows ==
    ASSUME TypeOK, WeightInv, NEW v \in Values, NEW w \in Nat, Scored(v, w),
           tracked' = tracked \cup {v},
           weightedCount' = [weightedCount EXCEPT ![v] = @ + w],
           weightedError' \in [Values -> Nat],
           \A u \in tracked' : weightedError'[u] \in {0, weightedError[u]},
           \A u \in tracked' : u \notin tracked => weightedError'[u] = 0
    PROVE  WeightInv'
<1> DEFINE f == weightedCount
           h == weightedCount'
<1>1. /\ f \in [Values -> Nat] /\ h \in [Values -> Nat] /\ h[v] = f[v] + w
      /\ \A u \in Values \ {v} : h[u] = f[u]
  BY DEF TypeOK
<1>2. Total(f) \in Nat /\ Total(h) \in Nat /\ Total(h) + f[v] = Total(f) + h[v]
  <2> HIDE DEF f, h
  <2>1. QED
    BY <1>1, TotalChange, TableAssumption
<1>3. TotalWeight' = TotalWeight + w /\ TotalWeight \in Nat
  BY TotalWeightGrows
<1>4. Total(weightedCount)' = TotalWeight'
  <2>1. Total(f) = TotalWeight /\ f[v] \in Nat
    BY <1>1 DEF WeightInv
  <2>2. Total(h) = TotalWeight'
    <3> HIDE DEF f, h
    <3>1. QED
      BY <1>1, <1>2, <1>3, <2>1
  <2>3. QED
    BY <2>2
<1>5. \A u \in Values \ tracked' : weightedCount'[u] = 0
  BY DEF WeightInv, TypeOK
<1>6. ASSUME NEW u \in tracked' PROVE weightedError'[u] * MaxRetvals <= TotalWeight'
  <2>1. MaxRetvals \in Nat /\ 0 * MaxRetvals = 0
    BY TableAssumption
  <2>2. CASE weightedError'[u] = 0
    BY <1>3, <2>1, <2>2
  <2>3. CASE weightedError'[u] # 0
    <3>1. u \in tracked /\ weightedError'[u] = weightedError[u] /\ u \in Values
      BY <2>3 DEF TypeOK
    <3>2. weightedError[u] * MaxRetvals <= TotalWeight /\ weightedError[u] \in Nat
      BY <3>1 DEF WeightInv, TypeOK
    <3> DEFINE n == weightedError[u] * MaxRetvals
    <3>3. n \in Nat
      BY <2>1, <3>2
    <3>4. weightedError'[u] * MaxRetvals = n
      BY <3>1
    <3> HIDE DEF n
    <3>5. n <= TotalWeight
      BY <3>2 DEF n
    <3>6. QED
      BY <1>3, <3>3, <3>4, <3>5
  <2>4. QED
    BY <2>2, <2>3
<1>7. QED
  BY <1>4, <1>5, <1>6 DEF WeightInv

\* recordRetval on a full table: the least entry has at most an equal share.
LEMMA ReplaceShare ==
    ASSUME TypeOK, WeightInv, NEW v \in Values, NEW w \in Nat, ReplaceMinimum(v, w), Scored(v, w)
    PROVE  WeightInv'
<1>1. PICK m \in Minima :
        ReplaceEntry(m, v, weightedCount[m] + w, weightedCount[m])
  BY DEF ReplaceMinimum
<1>2. /\ m \in tracked /\ m \in Values /\ v \notin tracked /\ m # v
      /\ \A t \in tracked : weightedCount[m] <= weightedCount[t]
  BY DEF Minima, ReplaceMinimum, TableFull, TypeOK
<1> DEFINE f == weightedCount
           h == weightedCount'
           i == [weightedCount EXCEPT ![m] = 0]
           k == weightedCount[m]
<1>3. /\ f \in [Values -> Nat] /\ i \in [Values -> Nat] /\ h \in [Values -> Nat] /\ k \in Nat
      /\ i[m] = 0 /\ f[m] = k /\ \A u \in Values \ {m} : i[u] = f[u]
      /\ i[v] = 0 /\ h[v] = k + w /\ \A u \in Values \ {v} : h[u] = i[u]
  BY <1>1, <1>2 DEF TypeOK, ReplaceEntry, WeightInv
<1>4. TotalWeight' = TotalWeight + w /\ TotalWeight \in Nat
  BY TotalWeightGrows
<1>5. Total(f) = TotalWeight
  BY DEF WeightInv
<1>0. IsFiniteSet(Values)
  BY TableAssumption
<1> HIDE DEF f, h, i
<1>6. Total(f) \in Nat /\ Total(i) \in Nat /\ Total(i) + f[m] = Total(f) + i[m]
  <2>1. \A u \in Values \ {m} : i[u] = f[u]
    BY <1>3
  <2>2. f \in [Values -> Nat] /\ i \in [Values -> Nat]
    BY <1>3
  <2>3. QED
    BY <1>0, <1>2, <2>1, <2>2, TotalChange
<1>7. Total(h) \in Nat /\ Total(h) + i[v] = Total(i) + h[v]
  <2>1. \A u \in Values \ {v} : h[u] = i[u]
    BY <1>3
  <2>2. h \in [Values -> Nat] /\ i \in [Values -> Nat]
    BY <1>3
  <2>3. QED
    BY <1>0, <2>1, <2>2, TotalChange
<1>8. Total(h) = TotalWeight'
  <2> HIDE DEF k
  <2>1. QED
    BY <1>3, <1>4, <1>5, <1>6, <1>7
<1>9. \A u \in Values \ tracked' : weightedCount'[u] = 0
  BY <1>1, <1>2 DEF WeightInv, ReplaceEntry, TypeOK
\* The minimum times the size of the table is at most the total.
<1>10. k * MaxRetvals <= TotalWeight
  <2>1. IsFiniteSet(Values) /\ tracked \in SUBSET Values /\ \A t \in tracked : k <= f[t]
    BY <1>2, TableAssumption DEF TypeOK, f
  <2>2. Cardinality(tracked) \in Nat /\ k * Cardinality(tracked) <= Total(f)
    <3> HIDE DEF k
    <3>1. QED
      BY <1>3, <2>1, TotalAtLeast
  <2>3. Cardinality(tracked) >= MaxRetvals /\ MaxRetvals \in Nat
    BY TableAssumption DEF ReplaceMinimum, TableFull
  <2> DEFINE c == Cardinality(tracked)
             n == MaxRetvals
  <2> HIDE DEF k, c, n
  <2>4. k \in Nat /\ c \in Nat /\ n \in Nat /\ n <= c
    BY <1>3, <2>2, <2>3 DEF c, n
  <2>5. k * n <= k * c
    <3>1. c = n + (c - n) /\ c - n \in Nat
      BY <2>4
    <3>2. k * (n + (c - n)) = k * n + k * (c - n)
      BY <2>4
    <3>3. k * (c - n) \in Nat /\ k * n \in Nat
      BY <2>4, <3>1
    <3>4. QED
      BY <3>1, <3>2, <3>3
  <2>6. k * c <= TotalWeight
    BY <1>5, <2>2 DEF c
  <2>7. k * n \in Nat /\ k * c \in Nat
    BY <2>4
  <2>8. k * n <= TotalWeight
    BY <1>4, <2>5, <2>6, <2>7
  <2>9. QED
    BY <2>8 DEF n
<1>11. ASSUME NEW u \in tracked' PROVE weightedError'[u] * MaxRetvals <= TotalWeight'
  <2>1. u = v \/ (u \in tracked /\ u # m /\ u # v)
    BY <1>1, <1>2 DEF ReplaceEntry
  <2>2. weightedError'[u] \in {k, weightedError[u]} /\ (u = v => weightedError'[u] = k)
    BY <1>1, <1>2, <2>1 DEF ReplaceEntry, TypeOK
  <2>3. weightedError'[u] \in Nat /\ MaxRetvals \in Nat
    BY <1>3, <2>1, <2>2, TableAssumption DEF TypeOK
  <2> DEFINE n == weightedError'[u] * MaxRetvals
  <2>4. n <= TotalWeight
    <3>1. CASE weightedError'[u] = k
      BY <1>10, <3>1
    <3>2. CASE weightedError'[u] # k
      BY <2>1, <2>2, <3>2 DEF WeightInv
    <3>3. QED
      BY <3>1, <3>2
  <2>5. n \in Nat
    BY <2>3
  <2> HIDE DEF n
  <2>6. n <= TotalWeight'
    BY <1>4, <2>4, <2>5
  <2>7. QED
    BY <2>6 DEF n
<1>12. QED
  BY <1>8, <1>9, <1>11 DEF WeightInv, h

\* WeightInv is inductive, beside the types.
LEMMA NextWeight ==
    ASSUME TypeOK, TypeOK', WeightInv, [Next]_vars
    PROVE  WeightInv'
<1>1. \A weight \in Weights : EffectiveWeight(weight) \in Nat
  BY InputAssumption DEF EffectiveWeight
<1>2. ASSUME NEW elapsed \in Elapsed, NEW weight \in Weights, NEW v \in Values,
             RecordAgg(elapsed, v, weight)
      PROVE  WeightInv'
  <2> DEFINE w == EffectiveWeight(weight)
  <2>1. w \in Nat /\ Scored(v, w)
    BY <1>1, <1>2 DEF RecordAgg, RecordRetval, Scored
  <2>2. BumpExisting(v, w) \/ InsertNew(v, w) \/ ReplaceMinimum(v, w)
    BY <1>2 DEF RecordAgg, RecordRetval
  <2> HIDE DEF w
  <2>3. CASE BumpExisting(v, w)
    <3>1. /\ tracked' = tracked \cup {v} /\ weightedError' = weightedError
          /\ weightedCount' = [weightedCount EXCEPT ![v] = @ + w]
          /\ weightedError' \in [Values -> Nat]
      BY <2>3 DEF BumpExisting, TypeOK
    <3>2. QED
      BY <2>1, <2>3, <3>1, EstimateGrows DEF BumpExisting
  <2>4. CASE InsertNew(v, w)
    <3>1. v \notin tracked /\ weightedCount[v] = 0
      BY <2>4 DEF InsertNew, WeightInv
    <3>2. /\ tracked' = tracked \cup {v}
          /\ weightedCount' = [weightedCount EXCEPT ![v] = @ + w]
          /\ weightedError' = [weightedError EXCEPT ![v] = 0]
          /\ weightedError' \in [Values -> Nat]
      BY <2>1, <2>4, <3>1 DEF InsertNew, TypeOK
    <3>3. /\ \A u \in tracked' : weightedError'[u] \in {0, weightedError[u]}
          /\ \A u \in tracked' : u \notin tracked => weightedError'[u] = 0
      BY <3>2 DEF TypeOK
    <3>4. QED
      BY <2>1, <3>2, <3>3, EstimateGrows
  <2>5. CASE ReplaceMinimum(v, w)
    BY <2>1, <2>5, ReplaceShare
  <2>6. QED
    BY <2>2, <2>3, <2>4, <2>5
<1>3. ASSUME UNCHANGED <<table, history>>
      PROVE  WeightInv'
  BY <1>3 DEF table, history, WeightInv, TotalWeight
<1>4. QED
  BY <1>2, <1>3 DEF Next, RecordAggNoRetval, vars

\* A value whose weight is unlisted weighs at most an equal share.
LEMMA SharesAreEnough ==
    ASSUME TypeOK, SketchInv, WeightInv
    PROVE  HeavyHittersListed
<1>1. ASSUME NEW v \in Values, v \notin tracked
      PROVE  trueWeight[v] * MaxRetvals <= TotalWeight
  <2> DEFINE k == trueWeight[v]
             f == weightedCount
             c == Cardinality(tracked)
  <2>1. /\ IsFiniteSet(Values) /\ tracked \in SUBSET Values /\ f \in [Values -> Nat] /\ k \in Nat
        /\ \A t \in tracked : k <= f[t]
    BY <1>1, TableAssumption DEF TypeOK, SketchInv, UnlistedIsLight
  <2>2. Total(f) = TotalWeight
    BY DEF WeightInv
  <2>3. c < MaxRetvals => k = 0
    BY <1>1 DEF SketchInv, UnlistedIsLight
  <2>4. c <= MaxRetvals /\ MaxRetvals \in Nat
    BY TableAssumption DEF SketchInv, TableBounded
  <2> HIDE DEF k, f, c
  <2>5. Total(f) \in Nat /\ c \in Nat /\ k * c <= Total(f)
    BY <2>1, TotalAtLeast DEF c
  <2>6. CASE c = MaxRetvals
    BY <2>2, <2>5, <2>6 DEF k
  <2>7. CASE c # MaxRetvals
    <3>1. k = 0
      BY <2>3, <2>4, <2>5, <2>7
    <3>2. k * MaxRetvals = 0
      BY <2>4, <3>1
    <3>3. QED
      BY <2>2, <2>5, <3>2 DEF k
  <2>8. QED
    BY <2>6, <2>7
<1>2. TotalWeight \in Nat /\ \A v \in Values : trueWeight[v] * MaxRetvals \in Nat
  <2>1. trueWeight \in [Values -> Nat] /\ MaxRetvals \in Nat /\ IsFiniteSet(Values)
    BY TableAssumption DEF TypeOK
  <2> DEFINE f == trueWeight
  <2>2. Total(f) \in Nat
    <3>1. \E sum : Sums(f, Values, sum) /\ Total(f) = sum[Values]
      <4> HIDE DEF f
      <4>1. f \in [Values -> Nat]
        BY <2>1 DEF f
      <4>2. QED
        BY <2>1, <4>1, TotalUnfolds
    <3>2. QED
      BY <3>1 DEF Sums
  <2>3. \A v \in Values : trueWeight[v] \in Nat
    BY <2>1
  <2>4. QED
    BY <2>1, <2>2, <2>3 DEF TotalWeight
<1>3. ASSUME NEW v \in Values, trueWeight[v] * MaxRetvals > TotalWeight
      PROVE  v \in tracked
  <2> DEFINE n == trueWeight[v] * MaxRetvals
  <2>1. n \in Nat /\ n > TotalWeight /\ (v \notin tracked => n <= TotalWeight)
    BY <1>1, <1>2, <1>3
  <2> HIDE DEF n
  <2>2. QED
    BY <1>2, <2>1
<1>4. QED
  BY <1>3 DEF HeavyHittersListed, WeightInv

\* Nothing is listed and nothing weighs at the start.
LEMMA InitWeight == Init => WeightInv
<1> SUFFICES ASSUME Init PROVE WeightInv
  OBVIOUS
<1>1. /\ tracked = {} /\ weightedCount = [v \in Values |-> 0] /\ trueWeight = [v \in Values |-> 0]
  BY DEF Init
<1>2. QED
  BY <1>1 DEF WeightInv, TotalWeight

-----------------------------------------------------------------------------
(* The histogram *)

\* Every latency has a bucket.
LEMMA BucketExists ==
    ASSUME NEW elapsed \in Nat
    PROVE  Bucket(elapsed) \in Buckets
<1> DEFINE C == {b \in Edges : elapsed <= b}
           R == OpToRel(<, Nat)
<1>1. CASE C = {}
  BY <1>1 DEF Bucket, Buckets
<1>2. CASE C # {}
  <2>1. C \subseteq Nat /\ IsWellFoundedOn(R, Nat)
    BY InputAssumption, NatLessThanWellFounded
  <2>2. PICK b \in C : \A c \in C : <<c, b>> \notin R
    <3> HIDE DEF C, R
    <3>1. QED
      BY <1>2, <2>1, WFMin
  <2>3. ASSUME NEW c \in C PROVE b <= c
    <3>1. b \in Nat /\ c \in Nat
      BY <2>1
    <3>2. c < b => <<c, b>> \in R
      BY <3>1 DEF OpToRel
    <3> HIDE DEF C, R
    <3>3. <<c, b>> \notin R
      BY <2>2
    <3>4. ~(c < b)
      BY <3>2, <3>3
    <3>5. QED
      BY <3>1, <3>4
  <2>4. \E x \in Edges : elapsed <= x /\ \A c \in Edges : elapsed <= c => x <= c
    BY <2>3
  <2>5. Bucket(elapsed) \in Edges
    BY <2>4 DEF Bucket
  <2>6. QED
    BY <2>5 DEF Buckets
<1>3. QED
  BY <1>1, <1>2

\* There are finitely many buckets.
LEMMA BucketsFinite == IsFiniteSet(Buckets)
BY InputAssumption, FS_AddElement DEF Buckets

\* A call goes into one bucket.
LEMMA OneBucket ==
    ASSUME NEW f \in [Buckets -> Nat], NEW b \in Buckets, NEW w \in Nat,
           NEW h \in [Buckets -> Nat], h[b] = f[b] + w, \A c \in Buckets \ {b} : h[c] = f[c]
    PROVE  Total(h) = Total(f) + w
<1>1. Total(f) \in Nat /\ Total(h) \in Nat /\ Total(h) + f[b] = Total(f) + h[b]
  BY BucketsFinite, TotalChange
<1>2. f[b] \in Nat
  OBVIOUS
<1>3. QED
  BY <1>1, <1>2

\* recordAgg counts every call once in the histogram.
LEMMA NextHistogram ==
    ASSUME TypeOK, HistogramComplete, [Next]_vars
    PROVE  HistogramComplete'
<1>1. ASSUME NEW elapsed \in Elapsed, NEW w \in Nat, RecordLatency(elapsed, w)
      PROVE  HistogramComplete'
  <2> DEFINE b == Bucket(elapsed)
  <2>1. b \in Buckets
    BY BucketExists, InputAssumption
  <2>2. latencies \in [Buckets -> Nat] /\ weightedLatencies \in [Buckets -> Nat]
    BY DEF TypeOK
  <2>3. /\ latencies' = [latencies EXCEPT ![b] = @ + 1] /\ calls' = calls + 1
        /\ weightedLatencies' = [weightedLatencies EXCEPT ![b] = @ + w]
        /\ weightedCalls' = weightedCalls + w
    BY <1>1 DEF RecordLatency
  <2> HIDE DEF b
  <2>4. Total(latencies) = calls /\ Total(weightedLatencies) = weightedCalls
    BY DEF HistogramComplete
  <2>5. Total(latencies') = calls + 1
    <3>1. /\ latencies' \in [Buckets -> Nat] /\ latencies'[b] = latencies[b] + 1
          /\ \A c \in Buckets \ {b} : latencies'[c] = latencies[c]
      BY <2>1, <2>2, <2>3
    <3> DEFINE f == latencies
               h == latencies'
               i == 1
    <3>2. i \in Nat
      OBVIOUS
    <3> HIDE DEF f, h, i
    <3>3. f \in [Buckets -> Nat] /\ h \in [Buckets -> Nat]
      BY <2>2, <3>1 DEF f, h
    <3>4. h[b] = f[b] + i /\ \A c \in Buckets \ {b} : h[c] = f[c]
      BY <3>1 DEF f, h, i
    <3>5. Total(h) = Total(f) + i
      BY <2>1, <3>2, <3>3, <3>4, OneBucket
    <3>6. QED
      BY <2>4, <3>5 DEF f, h, i
  <2>6. Total(weightedLatencies') = weightedCalls + w
    <3>1. /\ weightedLatencies' \in [Buckets -> Nat] /\ weightedLatencies'[b] = weightedLatencies[b] + w
          /\ \A c \in Buckets \ {b} : weightedLatencies'[c] = weightedLatencies[c]
      BY <2>1, <2>2, <2>3
    <3> DEFINE f == weightedLatencies
               h == weightedLatencies'
               i == w
    <3>2. i \in Nat
      OBVIOUS
    <3> HIDE DEF f, h, i
    <3>3. f \in [Buckets -> Nat] /\ h \in [Buckets -> Nat]
      BY <2>2, <3>1 DEF f, h
    <3>4. h[b] = f[b] + i /\ \A c \in Buckets \ {b} : h[c] = f[c]
      BY <3>1 DEF f, h, i
    <3>5. Total(h) = Total(f) + i
      BY <2>1, <3>2, <3>3, <3>4, OneBucket
    <3>6. QED
      BY <2>4, <3>5 DEF f, h, i
  <2>7. QED
    BY <2>3, <2>5, <2>6 DEF HistogramComplete
<1>2. \A weight \in Weights : EffectiveWeight(weight) \in Nat
  BY InputAssumption DEF EffectiveWeight
<1>3. CASE UNCHANGED vars
  BY <1>3 DEF vars, histogram, HistogramComplete
<1>4. QED
  BY <1>1, <1>2, <1>3 DEF Next, RecordAgg, RecordAggNoRetval

\* Empty buckets add up to no calls.
LEMMA InitHistogram == Init => HistogramComplete
BY TotalOfNothing, BucketsFinite DEF Init, HistogramComplete

-----------------------------------------------------------------------------
\* Every counter of a funcAgg stays a natural number, every entry a value.
THEOREM AggTypeCorrect == Spec => []TypeOK
BY SpecInv, PTL

\* The table never outgrows maxAggregateRetvals.
THEOREM AggTableBounded == Spec => []TableBounded
BY SpecInv, PTL DEF SketchInv

\* The printed estimate is within the printed error of the true weight.
THEOREM AggErrorWithin == Spec => []ErrorWithin
BY SpecInv, PTL DEF SketchInv

\* Values printed without an error are exact, the others are lower bounds.
THEOREM AggCountedColumn == Spec => []CountedColumn
BY SpecInv, PTL DEF SketchInv

\* No unlisted value outweighs a listed one.
THEOREM AggUnlistedIsLight == Spec => []UnlistedIsLight
BY SpecInv, PTL DEF SketchInv

\* The Space-Saving guarantee: no error is above an equal share of the weight, and whatever
\* weighs more than that is listed.
THEOREM AggHeavyHittersListed == Spec => []HeavyHittersListed
<1>1. Init => WeightInv
  BY InitWeight
<1>2. TypeOK /\ TypeOK' /\ WeightInv /\ [Next]_vars => WeightInv'
  BY NextWeight
<1>3. TypeOK /\ SketchInv /\ WeightInv => HeavyHittersListed
  BY SharesAreEnough
<1>4. QED
  BY <1>1, <1>2, <1>3, SpecInv, PTL DEF Spec

\* The two latency columns add up to the two call counts.
THEOREM AggHistogramComplete == Spec => []HistogramComplete
BY SpecInv, InitHistogram, NextHistogram, PTL DEF Spec
=============================================================================
