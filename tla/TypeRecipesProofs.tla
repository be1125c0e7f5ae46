------------------------- MODULE TypeRecipesProofs -------------------------
(***************************************************************************)
(* TLAPS proofs about TypeRecipes, for every set of types, every length of *)
(* their recipes, every probe and all sizes of the maps.                   *)
(*                                                                         *)
(* The kernel and the renderer each walk the slots of an event with a      *)
(* counter of their own: the leaves appended so far, the leaves handed out *)
(* so far.  Nothing in an event says how far the kernel was at a slot.  If *)
(* both follow the same recipes for the same slots, the two counters agree *)
(* at every slot (CursorFollows), also once the event is full: the kernel  *)
(* then leaves its last leaf in the last place, where the renderer runs    *)
(* out of leaves.                                                          *)
(***************************************************************************)
EXTENDS TypeRecipes, DataInduction

-----------------------------------------------------------------------------
(* The three loops, unfolded. *)

Leaf == [slot : Nat, rule : Nat]

\* What the probes put into the queue.
Captured == [sig : Signatures, words : Seq(Words), with : SUBSET Types, extras : Seq(Leaf)]

\* The extra leaves that an event of this probe has room for.
Room(sig) == MaxLeaves - GenericLeaves(sig)
Fitting(sig) == {extras \in Seq(Leaf) : Len(extras) <= Room(sig)}

\* A slot gets some leaves, as many as fit.
LEMMA AppendedType ==
    ASSUME NEW recipes \in SUBSET Types, NEW sig \in Signatures, NEW words,
           NEW extras \in Fitting(sig), NEW i
    PROVE  /\ Appended(recipes, sig, words, extras, i) \in Nat
           /\ Appended(recipes, sig, words, extras, i) <= Room(sig) - Len(extras)
           /\ Room(sig) \in Nat /\ Len(extras) \in Nat
<1>1. MaxLeaves \in Nat /\ GenericLeaves(sig) \in 0 .. MaxLeaves
  BY RecipesAssumption
<1>2. Len(extras) \in Nat /\ Len(extras) <= Room(sig)
  BY DEF Fitting
<1>3. Room(sig) \in Nat /\ Room(sig) = MaxLeaves - GenericLeaves(sig)
  BY <1>1 DEF Room
<1> DEFINE room == Room(sig) - Len(extras)
<1>4. room \in Nat /\ room = MaxLeaves - GenericLeaves(sig) - Len(extras)
  BY <1>1, <1>2, <1>3
<1> HIDE DEF room
<1>5. \A t \in recipes : RecipeLen[t] \in Nat
  BY RecipesAssumption
<1>6. Appended(recipes, sig, words, extras, i) \in Nat
      /\ Appended(recipes, sig, words, extras, i) <= room
  BY <1>4, <1>5 DEF Appended, Fewer
<1>7. QED
  BY <1>2, <1>3, <1>6 DEF room

\* The leaves of one slot.
LEMMA LeavesFacts ==
    ASSUME NEW i \in Nat, NEW n \in Nat
    PROVE  /\ Leaves(i, n) \in Seq(Leaf) /\ Len(Leaves(i, n)) = n
           /\ \A j \in 1 .. n : Leaves(i, n)[j] = [slot |-> i, rule |-> j]
<1>1. \A j \in 1 .. n : [slot |-> i, rule |-> j] \in Leaf
  BY DEF Leaf
<1>2. QED
  BY <1>1 DEF Leaves

\* n leaves of slot i come behind the others, which stay where they are.
Grown(extras, more, i, n) ==
    /\ Len(more) = Len(extras) + n /\ Len(extras) \in Nat /\ n \in Nat
    /\ \A k \in 1 .. Len(extras) : more[k] = extras[k]
    /\ \A k \in 1 .. n : more[Len(extras) + k] = [slot |-> i, rule |-> k]

\* The leaves of one more slot go behind those that are there, while they fit.
LEMMA LeavesAppended ==
    ASSUME NEW recipes \in SUBSET Types, NEW sig \in Signatures, NEW words,
           NEW extras \in Fitting(sig), NEW i \in Nat, NEW n, NEW more,
           n = Appended(recipes, sig, words, extras, i), more = extras \o Leaves(i, n)
    PROVE  more \in Fitting(sig) /\ Grown(extras, more, i, n)
<1>1. /\ n \in Nat /\ n <= Room(sig) - Len(extras) /\ Room(sig) \in Nat /\ Len(extras) \in Nat
  BY AppendedType
<1>2. extras \in Seq(Leaf)
  BY DEF Fitting
<1>3. /\ Leaves(i, n) \in Seq(Leaf) /\ Len(Leaves(i, n)) = n
      /\ \A j \in 1 .. n : Leaves(i, n)[j] = [slot |-> i, rule |-> j]
  BY <1>1, LeavesFacts
<1> DEFINE l == Leaves(i, n)
<1> HIDE DEF l
<1>4. /\ extras \o l \in Seq(Leaf) /\ Len(extras \o l) = Len(extras) + Len(l)
      /\ \A k \in 1 .. Len(extras) : (extras \o l)[k] = extras[k]
      /\ \A k \in 1 .. Len(l) : (extras \o l)[Len(extras) + k] = l[k]
  BY <1>2, <1>3 DEF l
<1>5. Len(more) <= Room(sig)
  BY <1>1, <1>3, <1>4 DEF l
<1>6. QED
  BY <1>1, <1>3, <1>4, <1>5 DEF l, Fitting, Grown

\* apply_type_recipes, slot by slot.
KernelRun(f, recipes, sig, words) ==
    /\ f \in [0 .. Len(sig) -> Fitting(sig)]
    /\ f[0] = <<>>
    /\ \A n \in 1 .. Len(sig) :
          f[n] = f[n - 1] \o Leaves(n, Appended(recipes, sig, words, f[n - 1], n))

\* ApplyTypeRecipes is the end of such a run.
LEMMA KernelUnfolds ==
    ASSUME NEW recipes \in SUBSET Types, NEW sig \in Signatures, NEW words
    PROVE  \E f : KernelRun(f, recipes, sig, words)
                  /\ ApplyTypeRecipes(recipes, sig, words) = f[Len(sig)]
<1> DEFINE N == Len(sig)
           S == Fitting(sig)
           taken(n, a) == a \o Leaves(n, Appended(recipes, sig, words, a, n))
           step == [p \in Nat \X S |-> taken(p[1], p[2])]
           G(f) == [n \in 0 .. N |-> IF n = 0 THEN <<>> ELSE taken(n, f[n - 1])]
           after == CHOOSE f : f = G(f)
<1>1. N \in Nat
  <2>1. sig \in Seq(Kinds)
    BY RecipesAssumption
  <2>2. QED
    BY <2>1
<1>2. <<>> \in S
  <2>1. Room(sig) \in Nat
    BY RecipesAssumption DEF Room
  <2>2. <<>> \in Seq(Leaf) /\ Len(<<>>) = 0
    OBVIOUS
  <2>3. QED
    BY <2>1, <2>2 DEF Fitting
<1>3. ASSUME NEW n \in Nat, NEW a \in S PROVE taken(n, a) \in S
  BY LeavesAppended
<1>4. /\ step \in [Nat \X S -> S]
      /\ \A n \in Nat, a \in S : step[<<n, a>>] = taken(n, a)
  <2> HIDE DEF taken, S
  <2> QED BY <1>3
<1>5. PICK f \in [0 .. N -> S] : Recurses(f, N, <<>>, step)
  <2> HIDE DEF step, N, S
  <2> DEFINE empty == <<>>
  <2>1. empty \in S
    BY <1>2
  <2> HIDE DEF empty
  <2>2. \E f \in [0 .. N -> S] : Recurses(f, N, empty, step)
    BY <1>1, <1>4, <2>1, RecursionExists
  <2>3. QED
    BY <2>2 DEF empty
<1>6. ASSUME NEW n \in 1 .. N PROVE f[n] = taken(n, f[n - 1])
  <2>1. n \in Nat /\ n - 1 \in 0 .. N
    BY <1>1
  <2> HIDE DEF step, taken, S
  <2>2. QED
    BY <1>4, <1>5, <2>1 DEF Recurses
<1>7. f = G(f)
  <2> HIDE DEF N, taken
  <2>1. f[0] = <<>>
    BY <1>5 DEF Recurses
  <2>2. QED
    BY <1>1, <1>5, <1>6, <2>1
<1>8. after = G(after)
  BY <1>7
<1>9. ApplyTypeRecipes(recipes, sig, words) = after[N]
  BY DEF ApplyTypeRecipes
<1>10. /\ after[0] = <<>>
       /\ \A n \in 1 .. N : after[n] = taken(n, after[n - 1])
       /\ after = [n \in 0 .. N |-> after[n]]
  <2> HIDE DEF after, taken
  <2> QED BY <1>1, <1>8
<1> HIDE DEF after, N
<1>11. \A n \in 0 .. N : after[n] \in S
  <2> DEFINE D == {n \in Nat : n <= N => after[n] \in S}
  <2> HIDE DEF S, taken
  <2>1. 0 \in D
    BY <1>2, <1>10
  <2>2. ASSUME NEW n \in Nat, n \in D PROVE n + 1 \in D
    <3> SUFFICES ASSUME n + 1 <= N PROVE after[n + 1] \in S
      OBVIOUS
    <3>1. n + 1 \in 1 .. N /\ n + 1 \in Nat /\ (n + 1) - 1 = n /\ after[n] \in S
      BY <1>1, <2>2
    <3>2. after[n + 1] = taken(n + 1, after[n])
      BY <1>10, <3>1
    <3>3. QED
      BY <1>3, <3>1, <3>2
  <2> HIDE DEF D
  <2>3. Nat \subseteq D
    BY <2>1, <2>2, NatSetInduction
  <2>4. QED
    BY <1>1, <2>3 DEF D
<1>12. QED
  BY <1>9, <1>10, <1>11 DEF N, KernelRun

\* What the renderer takes is there to take.
LEMMA TakenType ==
    ASSUME NEW recipes \in SUBSET Types, NEW e \in Captured, NEW used \in 0 .. Len(e.extras), NEW i
    PROVE  used + Taken(recipes, e, used, i) \in 0 .. Len(e.extras)
<1>1. Len(e.extras) \in Nat
  BY DEF Captured
<1>2. \A t \in recipes : RecipeLen[t] \in Nat
  BY RecipesAssumption
<1>3. Taken(recipes, e, used, i) \in Nat /\ Taken(recipes, e, used, i) <= Len(e.extras) - used
  BY <1>1, <1>2 DEF Taken, Fewer
<1>4. QED
  BY <1>1, <1>3

\* applyRecipeExtras, slot by slot: where the cursor is.
RendererRun(c, recipes, e) ==
    /\ c \in [0 .. Len(e.sig) -> 0 .. Len(e.extras)]
    /\ c[0] = 0
    /\ \A n \in 1 .. Len(e.sig) : c[n] = c[n - 1] + Taken(recipes, e, c[n - 1], n)

\* Bindings hands out what the cursor passes.
LEMMA RendererUnfolds ==
    ASSUME NEW recipes \in SUBSET Types, NEW e \in Captured
    PROVE  \E c : /\ RendererRun(c, recipes, e)
                  /\ \A i \in 1 .. Len(e.sig) : e.sig[i] # "cutField" =>
                        Bindings(recipes, e)[i] = SubSeq(e.extras, c[i - 1] + 1, c[i])
<1> DEFINE N == Len(e.sig)
           S == 0 .. Len(e.extras)
           taken(n, a) == a + Taken(recipes, e, a, n)
           step == [p \in Nat \X S |-> taken(p[1], p[2])]
           G(f) == [n \in 0 .. N |-> IF n = 0 THEN 0 ELSE taken(n, f[n - 1])]
           cursor == CHOOSE f : f = G(f)
<1>1. N \in Nat
  <2>1. e.sig \in Seq(Kinds)
    BY RecipesAssumption DEF Captured
  <2>2. QED
    BY <2>1
<1>2. 0 \in S
  BY DEF Captured
<1>3. ASSUME NEW n \in Nat, NEW a \in S PROVE taken(n, a) \in S
  BY TakenType
<1>4. /\ step \in [Nat \X S -> S]
      /\ \A n \in Nat, a \in S : step[<<n, a>>] = taken(n, a)
  <2> HIDE DEF taken, S
  <2> QED BY <1>3
<1>5. PICK f \in [0 .. N -> S] : Recurses(f, N, 0, step)
  <2> HIDE DEF step, N, S
  <2> QED BY <1>1, <1>2, <1>4, RecursionExists
<1>6. ASSUME NEW n \in 1 .. N PROVE f[n] = taken(n, f[n - 1])
  <2>1. n \in Nat /\ n - 1 \in 0 .. N
    BY <1>1
  <2> HIDE DEF step, taken, S
  <2>2. QED
    BY <1>4, <1>5, <2>1 DEF Recurses
<1>7. f = G(f)
  <2> HIDE DEF N, taken, S
  <2>1. f[0] = 0
    BY <1>5 DEF Recurses
  <2>2. QED
    BY <1>1, <1>5, <1>6, <2>1
<1>8. cursor = G(cursor)
  BY <1>7
<1>9. \A i \in 1 .. N : e.sig[i] # "cutField" =>
        Bindings(recipes, e)[i] = SubSeq(e.extras, cursor[i - 1] + 1, cursor[i])
  BY DEF Bindings
<1>10. /\ cursor[0] = 0
       /\ \A n \in 1 .. N : cursor[n] = taken(n, cursor[n - 1])
       /\ cursor = [n \in 0 .. N |-> cursor[n]]
  <2> HIDE DEF cursor, taken
  <2> QED BY <1>1, <1>8
<1> HIDE DEF cursor, N
<1>11. \A n \in 0 .. N : cursor[n] \in S
  <2> DEFINE D == {n \in Nat : n <= N => cursor[n] \in S}
  <2> HIDE DEF S, taken
  <2>1. 0 \in D
    BY <1>2, <1>10
  <2>2. ASSUME NEW n \in Nat, n \in D PROVE n + 1 \in D
    <3> SUFFICES ASSUME n + 1 <= N PROVE cursor[n + 1] \in S
      OBVIOUS
    <3>1. n + 1 \in 1 .. N /\ n + 1 \in Nat /\ (n + 1) - 1 = n /\ cursor[n] \in S
      BY <1>1, <2>2
    <3>2. cursor[n + 1] = taken(n + 1, cursor[n])
      BY <1>10, <3>1
    <3>3. QED
      BY <1>3, <3>1, <3>2
  <2> HIDE DEF D
  <2>3. Nat \subseteq D
    BY <2>1, <2>2, NatSetInduction
  <2>4. QED
    BY <1>1, <2>3 DEF D
<1>12. QED
  BY <1>9, <1>10, <1>11 DEF N, RendererRun

\* The loop of learnInterfaceTypes goes through types.
LEMMA LearnableTypesType ==
    ASSUME NEW e \in Captured
    PROVE  LearnableTypes(e) \in Seq(Types)
<1> DEFINE N == Len(e.sig)
           S == Seq(Types)
           taken(n, a) == IF n \in Learnable(e) THEN Append(a, e.words[n]) ELSE a
           step == [p \in Nat \X S |-> taken(p[1], p[2])]
           G(f) == [n \in 0 .. N |-> IF n = 0 THEN <<>> ELSE taken(n, f[n - 1])]
           upto == CHOOSE f : f = G(f)
<1>1. N \in Nat
  <2>1. e.sig \in Seq(Kinds)
    BY RecipesAssumption DEF Captured
  <2>2. QED
    BY <2>1
<1>2. <<>> \in S
  OBVIOUS
<1>3. ASSUME NEW n \in Nat, NEW a \in S PROVE taken(n, a) \in S
  BY DEF Learnable
<1>4. /\ step \in [Nat \X S -> S]
      /\ \A n \in Nat, a \in S : step[<<n, a>>] = taken(n, a)
  <2> HIDE DEF taken, S
  <2> QED BY <1>3
<1>5. PICK f \in [0 .. N -> S] : Recurses(f, N, <<>>, step)
  <2> HIDE DEF step, N, S
  <2> DEFINE empty == <<>>
  <2>1. empty \in S
    BY <1>2
  <2> HIDE DEF empty
  <2>2. \E f \in [0 .. N -> S] : Recurses(f, N, empty, step)
    BY <1>1, <1>4, <2>1, RecursionExists
  <2>3. QED
    BY <2>2 DEF empty
<1>6. ASSUME NEW n \in 1 .. N PROVE f[n] = taken(n, f[n - 1])
  <2>1. n \in Nat /\ n - 1 \in 0 .. N
    BY <1>1
  <2> HIDE DEF step, taken, S
  <2>2. QED
    BY <1>4, <1>5, <2>1 DEF Recurses
<1>7. f = G(f)
  <2> HIDE DEF N, taken, S
  <2>1. f[0] = <<>>
    BY <1>5 DEF Recurses
  <2>2. QED
    BY <1>1, <1>5, <1>6, <2>1
<1>8. upto = G(upto)
  BY <1>7
<1>9. LearnableTypes(e) = upto[N]
  BY DEF LearnableTypes
<1>10. /\ upto[0] = <<>>
       /\ \A n \in 1 .. N : upto[n] = taken(n, upto[n - 1])
  <2> HIDE DEF upto, taken, S
  <2>1. \A n \in 0 .. N : upto[n] = IF n = 0 THEN <<>> ELSE taken(n, upto[n - 1])
    BY <1>8
  <2> HIDE DEF N
  <2>2. QED
    BY <1>1, <2>1
<1> HIDE DEF upto, N
<1>11. N \in {n \in Nat : n <= N => upto[n] \in S}
  <2> DEFINE D == {n \in Nat : n <= N => upto[n] \in S}
  <2> HIDE DEF S, taken
  <2>1. 0 \in D
    BY <1>2, <1>10
  <2>2. ASSUME NEW n \in Nat, n \in D PROVE n + 1 \in D
    <3> SUFFICES ASSUME n + 1 <= N PROVE upto[n + 1] \in S
      OBVIOUS
    <3>1. n + 1 \in 1 .. N /\ n + 1 \in Nat /\ (n + 1) - 1 = n /\ upto[n] \in S
      BY <1>1, <2>2
    <3>2. upto[n + 1] = taken(n + 1, upto[n])
      BY <1>10, <3>1
    <3>3. QED
      BY <1>3, <3>1, <3>2
  <2> HIDE DEF D
  <2>3. Nat \subseteq D
    BY <2>1, <2>2, NatSetInduction
  <2>4. QED
    BY <1>1, <2>3 DEF D
<1>12. QED
  BY <1>1, <1>9, <1>11

-----------------------------------------------------------------------------
(* What a run of the kernel leaves behind. *)

\* The leaves at positions from + 1 .. to are those of slot i.
LeavesAt(extras, i, from, to) ==
    \A k \in from + 1 .. to : extras[k] = [slot |-> i, rule |-> k - from]

\* One turn of the loop: from extras to more, by n leaves of slot i.
Turned(extras, more, i, n, room) ==
    /\ Len(extras) \in Nat /\ Len(more) \in Nat /\ Len(more) = Len(extras) + n
    /\ Len(extras) <= Len(more) /\ Len(more) <= room /\ room \in Nat
    /\ \A k \in 1 .. Len(extras) : more[k] = extras[k]
    /\ LeavesAt(more, i, Len(extras), Len(more))

\* A turn of the loop in apply_type_recipes appends the leaves of its slot.
LEMMA KernelTurn ==
    ASSUME NEW recipes \in SUBSET Types, NEW sig \in Signatures, NEW words, NEW f,
           KernelRun(f, recipes, sig, words), NEW n \in 1 .. Len(sig)
    PROVE  Turned(f[n - 1], f[n], n, Appended(recipes, sig, words, f[n - 1], n), Room(sig))
<1> DEFINE a == f[n - 1]
           b == f[n]
           m == Appended(recipes, sig, words, a, n)
<1>1. Len(sig) \in Nat
  <2>1. sig \in Seq(Kinds)
    BY RecipesAssumption
  <2>2. QED
    BY <2>1
<1>2. n \in Nat /\ n - 1 \in 0 .. Len(sig)
  BY <1>1
<1>3. a \in Fitting(sig) /\ b = a \o Leaves(n, m)
  BY <1>2 DEF KernelRun
<1> HIDE DEF a, b
<1>0. b \in Fitting(sig) /\ Grown(a, b, n, m)
  <2> HIDE DEF m
  <2>1. m = Appended(recipes, sig, words, a, n)
    BY DEF m
  <2>2. QED
    BY <1>2, <1>3, <2>1, LeavesAppended
<1>4. /\ b \in Fitting(sig) /\ Len(b) = Len(a) + m /\ Len(a) \in Nat /\ m \in Nat
      /\ \A k \in 1 .. Len(a) : b[k] = a[k]
      /\ \A k \in 1 .. m : b[Len(a) + k] = [slot |-> n, rule |-> k]
  BY <1>0 DEF Grown
<1>5. Len(b) <= Room(sig) /\ Room(sig) \in Nat
  BY <1>3, <1>4, AppendedType DEF Fitting
<1> HIDE DEF m
<1>6. ASSUME NEW k \in Len(a) + 1 .. Len(b)
      PROVE  b[k] = [slot |-> n, rule |-> k - Len(a)]
  <2>1. k - Len(a) \in 1 .. m /\ Len(a) + (k - Len(a)) = k
    BY <1>4
  <2>2. QED
    BY <1>4, <2>1
<1>7. Len(b) \in Nat /\ Len(a) <= Len(b)
  BY <1>4
<1>8. QED
  BY <1>4, <1>5, <1>6, <1>7 DEF a, b, m, LeavesAt, Turned

\* Later turns leave the earlier leaves alone.
KeptIn(extras, more) ==
    /\ Len(extras) \in Nat /\ Len(more) \in Nat /\ Len(extras) <= Len(more)
    /\ \A k \in 1 .. Len(extras) : more[k] = extras[k]

\* So what the probe appended for a slot is still there at the end of its loop.
LEMMA KernelKeeps ==
    ASSUME NEW recipes \in SUBSET Types, NEW sig \in Signatures, NEW words, NEW f,
           KernelRun(f, recipes, sig, words), NEW i \in 0 .. Len(sig)
    PROVE  \A n \in i .. Len(sig) : KeptIn(f[i], f[n])
<1> DEFINE N == Len(sig)
           Kept(n) == KeptIn(f[i], f[n])
           D == {n \in Nat : i + n <= N => Kept(i + n)}
<1>1. N \in Nat
  <2>1. sig \in Seq(Kinds)
    BY RecipesAssumption
  <2>2. QED
    BY <2>1
<1>2. 0 \in D
  <2>1. f[i] \in Seq(Leaf)
    BY DEF KernelRun, Fitting
  <2>2. Len(f[i]) \in Nat
    BY <2>1
  <2>3. i + 0 = i
    BY <1>1
  <2>4. QED
    BY <2>2, <2>3 DEF KeptIn
<1>3. ASSUME NEW n \in Nat, n \in D PROVE n + 1 \in D
  <2> SUFFICES ASSUME i + (n + 1) <= N PROVE Kept(i + (n + 1))
    OBVIOUS
  <2> DEFINE m == i + n
             a == f[m]
             b == f[m + 1]
  <2>1. /\ m + 1 \in 1 .. N /\ (m + 1) - 1 = m /\ i + (n + 1) = m + 1 /\ i + n <= N
    BY <1>1
  <2>2. Kept(m)
    BY <1>3, <2>1
  <2>3. /\ Len(a) \in Nat /\ Len(b) \in Nat /\ Len(a) <= Len(b)
        /\ \A k \in 1 .. Len(a) : b[k] = a[k]
    <3> DEFINE j == m + 1
    <3> HIDE DEF m, j
    <3>1. j \in 1 .. N /\ f[j - 1] = a /\ f[j] = b
      BY <2>1 DEF j
    <3>2. Turned(f[j - 1], f[j], j, Appended(recipes, sig, words, f[j - 1], j), Room(sig))
      BY <3>1, KernelTurn
    <3>3. QED
      BY <3>1, <3>2 DEF Turned
  <2>4. Len(f[i]) \in Nat /\ Len(f[i]) <= Len(a) /\ \A k \in 1 .. Len(f[i]) : a[k] = f[i][k]
    BY <2>2 DEF KeptIn
  <2> HIDE DEF a, b, m
  <2>5. \A k \in 1 .. Len(f[i]) : k \in 1 .. Len(a)
    BY <2>3, <2>4
  <2>6. \A k \in 1 .. Len(f[i]) : b[k] = f[i][k]
    BY <2>3, <2>4, <2>5
  <2>7. Kept(m + 1)
    BY <2>3, <2>4, <2>6 DEF b, KeptIn
  <2>8. QED
    BY <2>1, <2>7
<1>4. Nat \subseteq D
  <2> HIDE DEF D
  <2>1. QED
    BY <1>2, <1>3, NatSetInduction
<1>5. ASSUME NEW n \in i .. N PROVE Kept(n)
  <2>1. n - i \in Nat /\ i + (n - i) = n /\ n <= N
    BY <1>1
  <2> DEFINE d == n - i
  <2> HIDE DEF d
  <2>2. d \in D /\ i + d = n
    BY <1>4, <2>1 DEF d
  <2> HIDE DEF Kept
  <2>3. QED
    BY <2>1, <2>2
<1>6. QED
  BY <1>5

\* Every leaf is one of some slot.
LEMMA KernelCovers ==
    ASSUME NEW recipes \in SUBSET Types, NEW sig \in Signatures, NEW words, NEW f,
           KernelRun(f, recipes, sig, words)
    PROVE  \A k \in 1 .. Len(f[Len(sig)]) :
              \E m \in 1 .. Len(sig) : k \in Len(f[m - 1]) + 1 .. Len(f[m])
<1> DEFINE N == Len(sig)
           Covered(n) == \A k \in 1 .. Len(f[n]) : \E m \in 1 .. n : k \in Len(f[m - 1]) + 1 .. Len(f[m])
           D == {n \in Nat : n <= N => Covered(n)}
<1>1. N \in Nat
  <2>1. sig \in Seq(Kinds)
    BY RecipesAssumption
  <2>2. QED
    BY <2>1
<1>2. 0 \in D
  <2>1. f[0] = <<>> /\ Len(<<>>) = 0
    BY DEF KernelRun
  <2>2. Len(f[0]) = 0
    BY <2>1
  <2>3. QED
    BY <2>2
<1>3. ASSUME NEW n \in Nat, n \in D PROVE n + 1 \in D
  <2> SUFFICES ASSUME n + 1 <= N, NEW k \in 1 .. Len(f[n + 1])
               PROVE  \E m \in 1 .. n + 1 : k \in Len(f[m - 1]) + 1 .. Len(f[m])
    OBVIOUS
  <2>1. n + 1 \in 1 .. N /\ (n + 1) - 1 = n /\ n <= N
    BY <1>1
  <2>2. Len(f[(n + 1) - 1]) \in Nat /\ Len(f[n + 1]) \in Nat
    <3> DEFINE j == n + 1
    <3> HIDE DEF j
    <3>1. j \in 1 .. N
      BY <2>1 DEF j
    <3>2. Turned(f[j - 1], f[j], j, Appended(recipes, sig, words, f[j - 1], j), Room(sig))
      BY <3>1, KernelTurn
    <3>3. QED
      BY <3>2 DEF Turned, j
  <2>3. CASE k <= Len(f[n])
    <3>1. k \in 1 .. Len(f[n])
      BY <2>1, <2>2, <2>3
    <3>2. \E m \in 1 .. n : k \in Len(f[m - 1]) + 1 .. Len(f[m])
      BY <1>3, <2>1, <3>1
    <3>3. QED
      BY <3>2
  <2>4. CASE ~(k <= Len(f[n]))
    <3>1. k \in Len(f[(n + 1) - 1]) + 1 .. Len(f[n + 1])
      BY <2>1, <2>2, <2>4
    <3>2. QED
      BY <2>1, <3>1
  <2>5. QED
    BY <2>3, <2>4
<1>4. Nat \subseteq D
  <2> HIDE DEF D
  <2>1. QED
    BY <1>2, <1>3, NatSetInduction
<1>5. QED
  BY <1>1, <1>4

-----------------------------------------------------------------------------
(* The renderer, beside the kernel. *)

\* Both sides follow the same recipes for the same slots.
InStep(recipes, e) == e.with = recipes /\ SameSlots(e)

\* The slots whose leaves are put where the value is.
Placed(e, i) == e.sig[i] # "cutField"

\* With the same recipes and the same slots, the cursor is where the kernel was.
LEMMA CursorFollows ==
    ASSUME NEW recipes \in SUBSET Types, NEW e \in Captured, NEW f, NEW c,
           KernelRun(f, recipes, e.sig, e.words), e.extras = f[Len(e.sig)],
           RendererRun(c, recipes, e), InStep(recipes, e)
    PROVE  \A n \in 0 .. Len(e.sig) : c[n] = Len(f[n])
<1> DEFINE N == Len(e.sig)
           D == {n \in Nat : n <= N => c[n] = Len(f[n])}
<1>1. e.sig \in Signatures /\ e.sig \in Seq(Kinds)
  BY RecipesAssumption DEF Captured
<1>2. N \in Nat
  BY <1>1
<1>3. 0 \in D
  <2>1. Len(<<>>) = 0
    OBVIOUS
  <2>2. QED
    BY <2>1 DEF KernelRun, RendererRun
<1>4. ASSUME NEW n \in Nat, n \in D PROVE n + 1 \in D
  <2> SUFFICES ASSUME n + 1 <= N PROVE c[n + 1] = Len(f[n + 1])
    OBVIOUS
  <2> DEFINE i == n + 1
             t == e.words[i]
             a == Len(f[n])
             b == Len(f[i])
             z == Len(e.extras)
             room == Room(e.sig)
  <2>1. i \in 1 .. N /\ i - 1 = n /\ n <= N /\ c[n] = a
    BY <1>2, <1>4
  <2>2. t \in recipes => (e.sig[i] \in Marked <=> Looks(e, i))
    BY <2>1 DEF SameSlots, InStep
  <2> DEFINE expanded == t \in recipes /\ Looks(e, i)
  <2>3. c[i] = a + (IF expanded THEN Fewer(RecipeLen[t], z - a) ELSE 0)
    <3>1. c[i] = c[i - 1] + Taken(recipes, e, c[i - 1], i)
      BY <2>1 DEF RendererRun
    <3>2. Taken(recipes, e, a, i) = IF expanded THEN Fewer(RecipeLen[t], z - a) ELSE 0
      BY DEF Taken
    <3>3. QED
      BY <2>1, <3>1, <3>2
  <2>4. /\ a \in Nat /\ b \in Nat /\ b <= room /\ room \in Nat
        /\ b = a + (IF expanded THEN Fewer(RecipeLen[t], room - a) ELSE 0)
    <3>1. /\ Len(f[i - 1]) \in Nat /\ Len(f[i]) \in Nat
          /\ Len(f[i]) = Len(f[i - 1]) + Appended(recipes, e.sig, e.words, f[i - 1], i)
          /\ Len(f[i]) <= Room(e.sig) /\ Room(e.sig) \in Nat
      <4> DEFINE sig == e.sig
                 words == e.words
      <4>1. sig \in Signatures /\ KernelRun(f, recipes, sig, words) /\ i \in 1 .. Len(sig)
        BY <1>1, <2>1
      <4> HIDE DEF i, sig, words
      <4>2. Turned(f[i - 1], f[i], i, Appended(recipes, sig, words, f[i - 1], i), Room(sig))
        BY <4>1, KernelTurn
      <4>3. QED
        BY <4>2 DEF Turned, sig, words
    <3>2. MaxLeaves - GenericLeaves(e.sig) - Len(f[n]) = room - a
      BY DEF Room
    <3>3. Appended(recipes, e.sig, e.words, f[n], i)
            = IF expanded THEN Fewer(RecipeLen[t], room - a) ELSE 0
      BY <2>2, <3>2 DEF Appended
    <3>4. QED
      BY <2>1, <3>1, <3>3
  <2>5. z \in Nat /\ b <= z /\ z <= room
    <3>1. N \in i .. N /\ N \in 1 .. N /\ i \in 0 .. N
      BY <1>2, <2>1
    <3>2. KeptIn(f[i], f[N])
      BY <1>1, <3>1, KernelKeeps
    <3>3. Turned(f[N - 1], f[N], N, Appended(recipes, e.sig, e.words, f[N - 1], N), Room(e.sig))
      BY <1>1, <3>1, KernelTurn
    <3>4. QED
      BY <3>2, <3>3 DEF KeptIn, Turned
  <2>6. expanded => RecipeLen[t] \in Nat
    BY RecipesAssumption
  <2> HIDE DEF i, t, a, b, z, room, expanded
  <2>7. c[i] = b
    BY <2>3, <2>4, <2>5, <2>6 DEF Fewer
  <2>8. QED
    BY <2>7 DEF i, b
<1>5. Nat \subseteq D
  <2> HIDE DEF D
  <2>1. QED
    BY <1>3, <1>4, NatSetInduction
<1>6. QED
  BY <1>2, <1>5

\* A slot is rendered with all of its leaves, in their order, and no others.
BoundExactly(e, i, shown) ==
    /\ ToSet(shown) = {x \in ToSet(e.extras) : x.slot = i}
    /\ \A j \in 1 .. Len(shown) : shown[j].rule = j

\* So that every slot but a cut field is rendered with its own leaves, in their order.
LEMMA BindsExactly ==
    ASSUME NEW recipes \in SUBSET Types, NEW e \in Captured,
           e.extras = ApplyTypeRecipes(recipes, e.sig, e.words), InStep(recipes, e),
           NEW i \in 1 .. Len(e.sig), Placed(e, i), NEW shown, shown = Bindings(recipes, e)[i]
    PROVE  BoundExactly(e, i, shown)
<1> DEFINE N == Len(e.sig)
<1>1. e.sig \in Signatures /\ e.sig \in Seq(Kinds) /\ e.extras \in Seq(Leaf)
  BY RecipesAssumption DEF Captured
<1>2. PICK f : KernelRun(f, recipes, e.sig, e.words) /\ e.extras = f[N]
  BY <1>1, KernelUnfolds
<1>3. PICK c : /\ RendererRun(c, recipes, e)
               /\ \A m \in 1 .. N : Placed(e, m) =>
                     Bindings(recipes, e)[m] = SubSeq(e.extras, c[m - 1] + 1, c[m])
  BY RendererUnfolds DEF Placed
<1>4. \A n \in 0 .. N : c[n] = Len(f[n])
  BY <1>2, <1>3, CursorFollows
<1> DEFINE x == e.extras
           from == Len(f[i - 1])
           to == Len(f[i])
<1>5. N \in Nat /\ i \in 0 .. N /\ i - 1 \in 0 .. N /\ N \in i .. N
  BY <1>1
<1>6. shown = SubSeq(x, from + 1, to)
  BY <1>3, <1>4, <1>5
\* The leaves of a slot in what the kernel leaves behind.
<1>7. ASSUME NEW m \in 1 .. N
      PROVE  /\ Len(f[m - 1]) \in Nat /\ Len(f[m]) \in Nat /\ Len(f[m - 1]) <= Len(f[m])
             /\ Len(f[m]) <= Len(x)
             /\ LeavesAt(x, m, Len(f[m - 1]), Len(f[m]))
  <2>0. Turned(f[m - 1], f[m], m, Appended(recipes, e.sig, e.words, f[m - 1], m), Room(e.sig))
    BY <1>1, <1>2, KernelTurn
  <2>1. /\ Len(f[m - 1]) \in Nat /\ Len(f[m]) \in Nat /\ Len(f[m - 1]) <= Len(f[m])
        /\ LeavesAt(f[m], m, Len(f[m - 1]), Len(f[m]))
    BY <2>0 DEF Turned
  <2>2. m \in 0 .. N /\ N \in m .. N
    BY <1>5
  <2>3. Len(f[m]) <= Len(f[N]) /\ \A k \in 1 .. Len(f[m]) : f[N][k] = f[m][k]
    <3>1. KeptIn(f[m], f[N])
      BY <1>1, <1>2, <2>2, KernelKeeps
    <3>2. QED
      BY <3>1 DEF KeptIn
  <2>4. ASSUME NEW k \in Len(f[m - 1]) + 1 .. Len(f[m])
        PROVE  x[k] = [slot |-> m, rule |-> k - Len(f[m - 1])]
    <3>1. k \in 1 .. Len(f[m])
      BY <2>1
    <3>2. x[k] = f[m][k]
      BY <1>2, <2>3, <3>1
    <3>3. QED
      BY <2>1, <3>2 DEF LeavesAt
  <2>5. QED
    BY <1>2, <2>1, <2>3, <2>4 DEF LeavesAt
<1>8. /\ from \in Nat /\ to \in Nat /\ from <= to /\ to <= Len(x) /\ Len(x) \in Nat
      /\ LeavesAt(x, i, from, to)
  BY <1>1, <1>7
<1>9. \A k \in 1 .. Len(x) : \E m \in 1 .. N : k \in Len(f[m - 1]) + 1 .. Len(f[m])
  BY <1>1, <1>2, KernelCovers
<1>10. /\ shown \in Seq(Leaf) /\ Len(shown) = to - from
       /\ \A j \in 1 .. to - from : shown[j] = x[from + j]
  <2> HIDE DEF x, from, to
  <2>1. x \in Seq(Leaf)
    BY <1>1 DEF x
  <2>2. QED
    BY <1>6, <1>8, <2>1
<1>11. ASSUME NEW j \in 1 .. Len(shown) PROVE shown[j] = [slot |-> i, rule |-> j]
  <2> HIDE DEF x, from, to
  <2>1. from + j \in from + 1 .. to /\ (from + j) - from = j /\ j \in 1 .. to - from
    BY <1>8, <1>10
  <2>2. shown[j] = x[from + j] /\ x[from + j] = [slot |-> i, rule |-> (from + j) - from]
    BY <1>8, <1>10, <2>1 DEF LeavesAt
  <2>3. QED
    BY <2>1, <2>2
<1>12. ToSet(shown) = {y \in ToSet(x) : y.slot = i}
  <2>1. ASSUME NEW j \in 1 .. Len(shown) PROVE shown[j] \in ToSet(x) /\ shown[j].slot = i
    <3> HIDE DEF x, from, to
    <3>1. from + j \in 1 .. Len(x) /\ shown[j] = x[from + j]
      BY <1>8, <1>10
    <3>2. x[from + j] \in ToSet(x)
      BY <1>8, <3>1 DEF ToSet
    <3>3. shown[j] = [slot |-> i, rule |-> j]
      BY <1>11
    <3>4. shown[j].slot = i
      BY <3>3
    <3>5. QED
      BY <3>1, <3>2, <3>4
  <2>2. ASSUME NEW k \in 1 .. Len(x), x[k].slot = i PROVE x[k] \in ToSet(shown)
    <3>1. PICK m \in 1 .. N : k \in Len(f[m - 1]) + 1 .. Len(f[m])
      BY <1>9
    <3>2. x[k] = [slot |-> m, rule |-> k - Len(f[m - 1])]
      BY <1>7, <3>1 DEF LeavesAt
    <3>3. m = i
      BY <2>2, <3>2
    <3>4. k \in from + 1 .. to
      BY <3>1, <3>3
    <3> HIDE DEF x, from, to
    <3>5. k - from \in 1 .. Len(shown) /\ from + (k - from) = k
      BY <1>8, <1>10, <3>4
    <3>6. shown[k - from] = x[k]
      BY <1>10, <3>5
    <3>7. QED
      BY <3>5, <3>6 DEF ToSet
  <2> HIDE DEF x
  <2>3. ToSet(shown) \subseteq {y \in ToSet(x) : y.slot = i}
    BY <2>1 DEF ToSet
  <2>4. {y \in ToSet(x) : y.slot = i} \subseteq ToSet(shown)
    BY <2>2 DEF ToSet
  <2>5. QED
    BY <2>3, <2>4
<1>13. ASSUME NEW j \in 1 .. Len(shown) PROVE shown[j].rule = j
  <2>1. shown[j] = [slot |-> i, rule |-> j]
    BY <1>11
  <2>2. QED
    BY <2>1
<1>14. QED
  BY <1>12, <1>13 DEF BoundExactly

-----------------------------------------------------------------------------
(* The invariant. *)

\* The extra leaves of an event are those of the recipes it was captured with.
AsCaptured(e) ==
    /\ e \in Captured
    /\ e.extras = ApplyTypeRecipes(e.with, e.sig, e.words)
    /\ GenericLeaves(e.sig) + Len(e.extras) <= MaxLeaves

AsRendered ==
    rendered # Nothing =>
        /\ AsCaptured(rendered.event) /\ rendered.recipes \subseteq Types
        /\ rendered.bound = Bindings(rendered.recipes, rendered.event)

RecipesInv ==
    /\ RecipesTypeOK /\ RecipesAgree /\ AsRendered
    /\ queue \in Seq(Captured)
    /\ \A i \in 1 .. Len(queue) : AsCaptured(queue[i])

\* The queue starts empty.
LEMMA RecipesStart == Init => RecipesInv
<1> SUFFICES ASSUME Init PROVE RecipesInv
  OBVIOUS
<1>1. <<>> \in Seq(Captured) /\ <<>> \in Seq(Types) /\ Len(<<>>) = 0 /\ 1 .. 0 = {}
  OBVIOUS
<1>2. Cardinality({}) = 0
  BY FS_EmptySet
<1>3. RecipesTypeOK
  BY <1>1, <1>2, RecipesAssumption DEF Init, RecipesTypeOK
<1>4. QED
  BY <1>1, <1>3 DEF Init, RecipesInv, RecipesAgree, AsRendered

\* What a probe hit queues.
LEMMA CapturedEvent ==
    ASSUME RecipesInv, NEW sig \in Signatures, NEW words \in [1 .. Len(sig) -> Words], NEW e,
           e = [sig |-> sig, words |-> words, with |-> installed,
                extras |-> ApplyTypeRecipes(installed, sig, words)]
    PROVE  AsCaptured(e) /\ e.with = installed
<1>1. installed \in SUBSET Types
  BY RecipesAssumption DEF RecipesInv, RecipesTypeOK
<1>2. sig \in Seq(Kinds) /\ Len(sig) \in Nat
  BY RecipesAssumption
<1>3. words \in Seq(Words)
  BY <1>2
<1> DEFINE extras == ApplyTypeRecipes(installed, sig, words)
<1>4. PICK f : KernelRun(f, installed, sig, words) /\ extras = f[Len(sig)]
  BY <1>1, KernelUnfolds
<1>5. extras \in Fitting(sig)
  BY <1>2, <1>4 DEF KernelRun
<1> HIDE DEF extras
<1>6. extras \in Seq(Leaf) /\ Len(extras) <= MaxLeaves - GenericLeaves(sig) /\ Len(extras) \in Nat
  BY <1>5 DEF Fitting, Room
<1>7. GenericLeaves(sig) + Len(extras) <= MaxLeaves
  <2>1. GenericLeaves(sig) \in 0 .. MaxLeaves /\ MaxLeaves \in Nat
    BY RecipesAssumption
  <2>2. QED
    BY <1>6, <2>1
<1>8. e = [sig |-> sig, words |-> words, with |-> installed, extras |-> extras]
  BY DEF extras
<1>9. /\ e.sig = sig /\ e.words = words /\ e.with = installed /\ e.extras = extras
      /\ e \in Captured
  BY <1>1, <1>3, <1>6, <1>8 DEF Captured
<1>10. QED
  BY <1>7, <1>9 DEF AsCaptured, extras

\* fetch_args and apply_type_recipes.
LEMMA CaptureKeeps ==
    ASSUME RecipesInv, NEW sig \in Signatures, NEW words \in [1 .. Len(sig) -> Words],
           Capture(sig, words)
    PROVE  RecipesInv'
<1> DEFINE e == [sig |-> sig, words |-> words, with |-> installed,
                 extras |-> ApplyTypeRecipes(installed, sig, words)]
<1>1. AsCaptured(e) /\ e.with = installed
  BY CapturedEvent
<1>2. /\ queue' = Append(queue, e) /\ Len(queue) < QueueCap
      /\ captured < MaxCaptured /\ captured' = captured + 1
      /\ UNCHANGED <<installed, learned, toLearn, rendered>>
  BY DEF Capture
<1> HIDE DEF e
<1>3. e \in Captured /\ queue \in Seq(Captured)
  BY <1>1 DEF AsCaptured, RecipesInv
<1>4. /\ queue' \in Seq(Captured) /\ Len(queue') = Len(queue) + 1 /\ Len(queue) \in Nat
      /\ \A i \in 1 .. Len(queue) : queue'[i] = queue[i]
      /\ queue'[Len(queue) + 1] = e
  BY <1>2, <1>3, AppendFacts
<1>5. ASSUME NEW i \in 1 .. Len(queue')
      PROVE  AsCaptured(queue'[i]) /\ queue'[i].with \subseteq learned
  <2>1. CASE i \in 1 .. Len(queue)
    BY <1>4, <2>1 DEF RecipesInv, RecipesAgree
  <2>2. CASE i = Len(queue) + 1
    BY <1>1, <1>4, <2>2 DEF RecipesInv, RecipesAgree
  <2>3. QED
    BY <1>4, <2>1, <2>2
<1>6. RecipesTypeOK'
  <2>1. Len(queue') <= QueueCap
    BY <1>2, <1>4, RecipesAssumption
  <2>2. captured' \in 0 .. MaxCaptured
    BY <1>2, RecipesAssumption DEF RecipesInv, RecipesTypeOK
  <2>3. \A i \in 1 .. Len(queue') :
          GenericLeaves(queue'[i].sig) + Len(queue'[i].extras) <= MaxLeaves
    BY <1>5 DEF AsCaptured
  <2>4. QED
    BY <1>2, <2>1, <2>2, <2>3 DEF RecipesInv, RecipesTypeOK
<1>7. RecipesAgree' /\ AsRendered'
  BY <1>2, <1>5 DEF RecipesInv, RecipesAgree, AsRendered
<1>8. QED
  BY <1>4, <1>5, <1>6, <1>7 DEF RecipesInv

\* Add: render and list the types.
LEMMA RenderKeeps ==
    ASSUME RecipesInv, Render
    PROVE  RecipesInv'
<1> DEFINE e == Head(queue)
<1>1. /\ queue # <<>> /\ queue' = Tail(queue)
      /\ rendered' = [event |-> e, recipes |-> learned, bound |-> Bindings(learned, e)]
      /\ toLearn' = LearnableTypes(e)
      /\ UNCHANGED <<installed, learned, captured>>
  BY DEF Render
<1>2. queue \in Seq(Captured)
  BY DEF RecipesInv
<1>3. /\ e = queue[1] /\ Len(queue) \in Nat /\ 1 \in 1 .. Len(queue)
      /\ queue' \in Seq(Captured) /\ Len(queue') = Len(queue) - 1
      /\ \A i \in 1 .. Len(queue') : queue'[i] = queue[i + 1] /\ i + 1 \in 1 .. Len(queue)
  BY <1>1, <1>2
<1> HIDE DEF e
<1>4. AsCaptured(e) /\ e \in Captured
  BY <1>3 DEF RecipesInv, AsCaptured
<1>5. \A i \in 1 .. Len(queue') : AsCaptured(queue'[i]) /\ queue'[i].with \subseteq learned
  BY <1>3 DEF RecipesInv, RecipesAgree
<1>6. RecipesTypeOK'
  <2>1. toLearn' \in Seq(Types)
    BY <1>1, <1>4, LearnableTypesType
  <2>2. Len(queue') <= QueueCap
    BY <1>3, RecipesAssumption DEF RecipesInv, RecipesTypeOK
  <2>3. \A i \in 1 .. Len(queue') :
          GenericLeaves(queue'[i].sig) + Len(queue'[i].extras) <= MaxLeaves
    BY <1>5 DEF AsCaptured
  <2>4. QED
    BY <1>1, <2>1, <2>2, <2>3 DEF RecipesInv, RecipesTypeOK
<1>7. RecipesAgree'
  BY <1>1, <1>5 DEF RecipesInv, RecipesAgree
<1>8. AsRendered'
  <2>1. learned \subseteq Types
    BY DEF RecipesInv, RecipesTypeOK
  <2>2. /\ rendered'.event = e /\ rendered'.recipes = learned
        /\ rendered'.bound = Bindings(learned, e)
    BY <1>1
  <2>3. rendered'.bound = Bindings(rendered'.recipes, rendered'.event)
    BY <2>2
  <2>4. AsCaptured(rendered'.event) /\ rendered'.recipes \subseteq Types
    BY <1>4, <2>1, <2>2
  <2>5. QED
    BY <2>3, <2>4 DEF AsRendered
<1>9. QED
  BY <1>3, <1>5, <1>6, <1>7, <1>8 DEF RecipesInv

\* learnInterfaceTypes, one type: the kernel gets the recipe before userspace counts on it.
LEMMA LearnKeeps ==
    ASSUME RecipesInv, LearnSkip \/ LearnType
    PROVE  RecipesInv'
<1> DEFINE t == Head(toLearn)
<1>1. toLearn \in Seq(Types) /\ toLearn # <<>>
  BY DEF RecipesInv, RecipesTypeOK, LearnSkip, LearnType
<1>2. toLearn' \in Seq(Types) /\ t \in Types
  BY <1>1 DEF LearnSkip, LearnType
<1>3. UNCHANGED <<queue, rendered, captured>>
  BY DEF LearnSkip, LearnType
<1>4. CASE LearnSkip
  <2>1. UNCHANGED <<installed, learned>>
    BY <1>4 DEF LearnSkip
  <2>2. RecipesTypeOK'
    BY <1>2, <1>3, <2>1 DEF RecipesInv, RecipesTypeOK
  <2>3. QED
    BY <1>3, <2>1, <2>2 DEF RecipesInv, RecipesAgree, AsRendered
<1>5. CASE LearnType
  <2>1. /\ installed' = installed \cup {t} /\ learned' = learned \cup {t}
        /\ t \in Resolvable /\ HasRoom(t)
    BY <1>5 DEF LearnType
  <2>2. installed \subseteq Resolvable /\ Cardinality(installed) <= MaxRecipes
        /\ IsFiniteSet(installed)
    <3>1. installed \subseteq Resolvable /\ Cardinality(installed) <= MaxRecipes
      BY DEF RecipesInv, RecipesTypeOK
    <3>2. IsFiniteSet(installed)
      BY <3>1, FS_Subset, RecipesAssumption
    <3>3. QED
      BY <3>1, <3>2
  <2>3. Cardinality(installed') <= MaxRecipes
    <3> HIDE DEF t
    <3>1. Cardinality(installed \cup {t}) =
            IF t \in installed THEN Cardinality(installed) ELSE Cardinality(installed) + 1
      BY <2>2, FS_AddElement
    <3>2. Cardinality(installed) \in Nat
      BY <2>2, FS_CardinalityType
    <3>3. MaxRecipes \in Nat
      BY RecipesAssumption
    <3>4. QED
      BY <2>1, <2>2, <3>1, <3>2, <3>3 DEF HasRoom
  <2>4. RecipesTypeOK'
    BY <1>2, <1>3, <2>1, <2>2, <2>3 DEF RecipesInv, RecipesTypeOK
  <2>5. RecipesAgree'
    BY <1>3, <2>1 DEF RecipesInv, RecipesAgree
  <2>6. QED
    BY <1>3, <2>4, <2>5 DEF RecipesInv, AsRendered
<1>6. QED
  BY <1>4, <1>5

\* The invariant holds in every behaviour.
LEMMA RecipesInvariant == Spec => []RecipesInv
<1>1. RecipesInv /\ [Next]_vars => RecipesInv'
  <2> SUFFICES ASSUME RecipesInv, [Next]_vars PROVE RecipesInv'
    OBVIOUS
  <2>1. CASE UNCHANGED vars
    BY <2>1 DEF vars, RecipesInv, RecipesTypeOK, RecipesAgree, AsRendered
  <2>2. CASE Next
    BY <2>2, CaptureKeeps, RenderKeeps, LearnKeeps DEF Next, Handle
  <2>3. QED
    BY <2>1, <2>2
<1>2. QED
  BY <1>1, RecipesStart, PTL DEF Spec

-----------------------------------------------------------------------------
\* No event carries more leaves than event.args has room for, and type_recipes_map keeps to
\* its size.
THEOREM RecipesTypeCorrect == Spec => []RecipesTypeOK
BY RecipesInvariant, PTL DEF RecipesInv

\* Kernel and userspace know the same recipes, and whatever is queued was captured with a
\* part of them.
THEOREM RecipesAgreeCorrect == Spec => []RecipesAgree
BY RecipesInvariant, PTL DEF RecipesInv

\* As long as no recipe was learned in between, and the probe and the renderer expand the
\* same slots of the event, every interface but a cut field is rendered with exactly the
\* leaves that were copied for it, for every probe, every set of types and every length of
\* their recipes.
THEOREM CurrentRecipesBindExactlyCorrect == Spec => []CurrentRecipesBindExactly
<1>1. RecipesInv => CurrentRecipesBindExactly
  <2> SUFFICES ASSUME RecipesInv, Current, SameSlots(rendered.event),
                      NEW i \in 1 .. Len(rendered.event.sig), Placed(rendered.event, i)
               PROVE  /\ ToSet(Shown(i)) = Own(i)
                      /\ \A j \in 1 .. Len(Shown(i)) : Shown(i)[j].rule = j
    BY DEF CurrentRecipesBindExactly, Placed
  <2> DEFINE e == rendered.event
             recipes == rendered.recipes
             shown == Shown(i)
  <2>1. /\ AsCaptured(e) /\ recipes \subseteq Types /\ e.with = recipes
        /\ rendered.bound = Bindings(recipes, e)
    BY DEF RecipesInv, AsRendered, Current
  <2>2. /\ e \in Captured /\ recipes \in SUBSET Types
        /\ e.extras = ApplyTypeRecipes(recipes, e.sig, e.words)
    BY <2>1 DEF AsCaptured
  <2>3. shown = Bindings(recipes, e)[i] /\ i \in 1 .. Len(e.sig) /\ InStep(recipes, e) /\ Placed(e, i)
    BY <2>1 DEF Shown, InStep
  <2> HIDE DEF e, recipes, shown
  <2>4. BoundExactly(e, i, shown)
    BY <2>2, <2>3, BindsExactly
  <2>5. QED
    BY <2>4 DEF e, shown, Own, BoundExactly
<1>2. QED
  BY <1>1, RecipesInvariant, PTL
=============================================================================
