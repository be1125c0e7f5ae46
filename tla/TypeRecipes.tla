---------------------------- MODULE TypeRecipes ----------------------------
(***************************************************************************)
(* How interface arguments get their concrete contents: the probes append  *)
(* extra leaves to an event according to type_recipes_map (fetch_args and  *)
(* apply_type_recipes in internal/bpf/ftrace.c), userspace renders the     *)
(* event (renderEventArgsRecipes, internal/uprobe/value.go) and then       *)
(* learns the types it saw (learnInterfaceTypes, SetTypeRecipe).           *)
(*                                                                         *)
(* The leaves that follow the generic ones carry no tag: the renderer      *)
(* hands them out with a cursor, by the recipes it knows when it renders,  *)
(* while the kernel appended them by the recipes installed at the probe    *)
(* hit.  In the model every extra leaf is tagged with its owner.           *)
(*                                                                         *)
(* The arguments of a probe are a sequence of slots.  An interface is a    *)
(* parameter ("iface"), a field of a struct parameter ("byValue"), or a    *)
(* field of the object that a parameter points to ("object").  Of that     *)
(* object the renderer has the first 64 bytes: "any" and "field" are       *)
(* fields without and with methods inside them, a "cutField" has only its  *)
(* first word inside, a "farField" nothing.  A "leaf" is one leaf of some  *)
(* other value.  The fields of an object follow it.  Only events that the  *)
(* manager keeps are modelled here: the others are not rendered.           *)
(***************************************************************************)
EXTENDS Integers, Sequences, FiniteSets, SequencesExt

CONSTANTS
    Types,       \* dynamic types of interface values, by descriptor address
    Resolvable,  \* the types elf.RuntimeType finds
    RecipeLen,   \* len(CompileTypeRecipe(t)), at most maxTypeRecipeRules
    Signatures,  \* the probes: each a sequence of slot kinds
    MaxLeaves,   \* MaxFetchArgs, the length of event.args: 8
    MaxRecipes,  \* type_recipes_map.max_entries: 256
    QueueCap,    \* event_queue.max_entries
    MaxCaptured  \* bound of the model: probe hits

Fields == {"field", "cutField", "farField", "any"}
Kinds == {"leaf", "object", "iface", "byValue"} \cup Fields

\* planValue, emitABI, emitMemCaptures: the ABI words and captures of a slot.
Width == [k \in Kinds |-> CASE k = "leaf" -> 1
                            [] k \in {"object", "any"} -> 2
                            [] OTHER -> 3]

GenericLeaves(sig) == FoldLeft(LAMBDA n, k : n + Width[k], 0, sig)

\* Where the fields of the i-th slot's object begin.
ObjectOf(sig, i) == Max({j \in 1 .. i : sig[j] = "object"})

\* What a slot's type word holds that is not a type: the slot is nil, reading the
\* itab failed, or it is no interface.  Of an object: whether its copy was made.
Nil == "nil"
Unreadable == "unreadable"
Plain == "plain"
Words == Types \cup {Nil, Unreadable, Plain}

ASSUME RecipesAssumption ==
    /\ IsFiniteSet(Types) /\ Resolvable \subseteq Types
    /\ RecipeLen \in [Types -> 0 .. 4]
    /\ Signatures \subseteq Seq(Kinds)
    /\ MaxLeaves \in Nat
    /\ \A sig \in Signatures : GenericLeaves(sig) \in 0 .. MaxLeaves
    /\ \A sig \in Signatures : \A i \in 1 .. Len(sig) : sig[i] \in Fields =>
          \E j \in 1 .. i : sig[j] = "object" /\ \A k \in j + 1 .. i : sig[k] \in Fields \cup {"leaf"}
    /\ {Nil, Unreadable, Plain} \cap Types = {}
    /\ MaxRecipes \in Nat /\ QueueCap \in Nat /\ MaxCaptured \in Nat

VARIABLES
    installed,  \* keys of type_recipes_map
    learned,    \* EventManager.learned, the keys of EventManager.typeRecipes
    queue,      \* event_queue
    toLearn,    \* what is left of the loop of learnInterfaceTypes
    rendered,   \* the event rendered last and how
    captured    \* number of probe hits

vars == <<installed, learned, queue, toLearn, rendered, captured>>

Nothing == [event |-> "none"]

Init ==
    /\ installed = {} /\ learned = {}
    /\ queue = <<>> /\ toLearn = <<>>
    /\ rendered = Nothing
    /\ captured = 0

-----------------------------------------------------------------------------
(* The probe. *)

\* markIfaceSlots finds a .type and a .data leaf for these kinds.
Marked == {"iface", "byValue", "field", "cutField", "farField"}

Fewer(a, b) == IF a < b THEN a ELSE b

\* Mutant: the leaves of the event are not counted.
AppendedUnbounded(recipes, sig, words, extras, i) ==
    IF sig[i] \in Marked /\ words[i] \in recipes THEN RecipeLen[words[i]] ELSE 0

\* apply_type_recipes for slot i, after the extra leaves so far: how many of
\* the rules of its recipe still fit.
Appended(recipes, sig, words, extras, i) ==
    IF sig[i] \in Marked /\ words[i] \in recipes
      THEN Fewer(RecipeLen[words[i]], MaxLeaves - GenericLeaves(sig) - Len(extras))
      ELSE 0

\* The extra leaves of slot i.
Leaves(i, n) == [j \in 1 .. n |-> [slot |-> i, rule |-> j]]

ApplyTypeRecipes(recipes, sig, words) ==
    LET after[i \in 0 .. Len(sig)] ==
            IF i = 0 THEN <<>>
            ELSE after[i - 1] \o Leaves(i, Appended(recipes, sig, words, after[i - 1], i))
    IN  after[Len(sig)]

\* The words a probe can meet.  The copy of an object and a word behind an itab can
\* fail to be read, each for itself; a field without methods is in the copy.
Fetchable(sig, words) ==
    \A i \in 1 .. Len(sig) :
        /\ sig[i] = "leaf" => words[i] = Plain
        /\ sig[i] = "object" => words[i] \in {Plain, Nil, Unreadable}
        /\ sig[i] \notin {"leaf", "object"} => words[i] # Plain
        /\ sig[i] = "any" => words[i] # Unreadable
        /\ sig[i] \in Fields /\ words[ObjectOf(sig, i)] = Nil => words[i] = Nil

Capture(sig, words) ==
    /\ captured < MaxCaptured
    /\ Len(queue) < QueueCap
    /\ Fetchable(sig, words)
    /\ captured' = captured + 1
    /\ queue' = Append(queue, [sig |-> sig, words |-> words, with |-> installed,
                               extras |-> ApplyTypeRecipes(installed, sig, words)])
    /\ UNCHANGED <<installed, learned, toLearn, rendered>>

-----------------------------------------------------------------------------
(* The renderer. *)

\* renderAuto and applyNestedRecipes find a type word for these kinds; beyond the
\* copy of the object they are given no memory.
Walked == {"iface", "field", "cutField", "any"}

\* Without a copy of the object renderAuto does not look at its fields.
Looks(e, i) ==
    /\ e.sig[i] \in Walked
    /\ e.sig[i] \in Fields => e.words[ObjectOf(e.sig, i)] = Plain

\* Mutant: a recipe is assumed for every type.
TakenUnlearned(recipes, e, used, i) ==
    IF Looks(e, i) /\ e.words[i] \in Types
      THEN Fewer(RecipeLen[e.words[i]], Len(e.extras) - used)
      ELSE 0

\* applyRecipeExtras: the extra leaves that slot i takes, after `used` others.
Taken(recipes, e, used, i) ==
    IF Looks(e, i) /\ e.words[i] \in recipes
      THEN Fewer(RecipeLen[e.words[i]], Len(e.extras) - used)
      ELSE 0

\* The extra leaves that each slot is rendered with.  Those of a cut field are put at
\* addresses relative to 0 instead of its data word, where nothing reads them.
Bindings(recipes, e) ==
    LET cursor[i \in 0 .. Len(e.sig)] ==
            IF i = 0 THEN 0 ELSE cursor[i - 1] + Taken(recipes, e, cursor[i - 1], i)
    IN  [i \in 1 .. Len(e.sig) |-> IF e.sig[i] = "cutField" THEN <<>>
                                   ELSE SubSeq(e.extras, cursor[i - 1] + 1, cursor[i])]

\* Mutant: the last interface of the probe is overlooked.
LearnableNotLast(e) ==
    {i \in 1 .. Len(e.sig) - 1 : e.sig[i] \in Marked /\ e.words[i] \in Types}

\* learnInterfaceTypes looks at the type words of the marked slots.
Learnable(e) == {i \in 1 .. Len(e.sig) : e.sig[i] \in Marked /\ e.words[i] \in Types}

\* The types that learnInterfaceTypes goes through.
LearnableTypes(e) ==
    LET upto[i \in 0 .. Len(e.sig)] ==
            IF i = 0 THEN <<>>
            ELSE IF i \in Learnable(e) THEN Append(upto[i - 1], e.words[i]) ELSE upto[i - 1]
    IN  upto[Len(e.sig)]

\* Add: render the event, then go through its types.
Render ==
    /\ toLearn = <<>>
    /\ queue # <<>>
    /\ rendered' = [event |-> Head(queue), recipes |-> learned,
                    bound |-> Bindings(learned, Head(queue))]
    /\ toLearn' = LearnableTypes(Head(queue))
    /\ queue' = Tail(queue)
    /\ UNCHANGED <<installed, learned, captured>>

HasRoom(t) == t \in installed \/ Cardinality(installed) < MaxRecipes

\* Mutant: a type counts as learned although its recipe was not installed.
LearnSkipInstalls ==
    /\ toLearn # <<>>
    /\ \/ Head(toLearn) \in learned
       \/ Head(toLearn) \notin Resolvable
       \/ ~HasRoom(Head(toLearn))
    /\ learned' = learned \cup {Head(toLearn)}
    /\ toLearn' = Tail(toLearn)
    /\ UNCHANGED <<installed, queue, rendered, captured>>

\* One turn of the loop that learns nothing: known, unknown to the ELF file, or
\* the map refuses the recipe.
LearnSkip ==
    /\ toLearn # <<>>
    /\ \/ Head(toLearn) \in learned
       \/ Head(toLearn) \notin Resolvable
       \/ ~HasRoom(Head(toLearn))
    /\ toLearn' = Tail(toLearn)
    /\ UNCHANGED <<installed, learned, queue, rendered, captured>>

\* SetTypeRecipe, then learned and typeRecipes.
LearnType ==
    /\ toLearn # <<>>
    /\ Head(toLearn) \in Resolvable \ learned
    /\ HasRoom(Head(toLearn))
    /\ installed' = installed \cup {Head(toLearn)}
    /\ learned' = learned \cup {Head(toLearn)}
    /\ toLearn' = Tail(toLearn)
    /\ UNCHANGED <<queue, rendered, captured>>

Handle == Render \/ LearnSkip \/ LearnType

Next ==
    \/ \E sig \in Signatures : \E words \in [1 .. Len(sig) -> Words] : Capture(sig, words)
    \/ Handle

\* The event loop keeps running.
Spec == Init /\ [][Next]_vars /\ WF_vars(Handle)

-----------------------------------------------------------------------------
(* Properties *)

\* type_recipes_map and event.args keep their sizes, whatever is appended.
RecipesTypeOK ==
    /\ installed \subseteq Resolvable /\ Cardinality(installed) <= MaxRecipes
    /\ learned \subseteq Types
    /\ Len(queue) <= QueueCap
    /\ \A i \in 1 .. Len(queue) :
          GenericLeaves(queue[i].sig) + Len(queue[i].extras) <= MaxLeaves
    /\ toLearn \in Seq(Types)
    /\ captured \in 0 .. MaxCaptured

\* Of the rendered event: the leaves that the kernel copied for slot i, and those that
\* the slot is rendered with.
Own(i) == {x \in ToSet(rendered.event.extras) : x.slot = i}
Shown(i) == rendered.bound[i]

\* No recipe was learned between the probe hit and the rendering.
Current == rendered # Nothing /\ rendered.event.with = rendered.recipes

\* Of every slot that holds a type with a recipe: the probe expands it if and only
\* if the renderer does.  It does not hold of a field of a struct parameter or one
\* beyond the copy of its object (probe only), of a field whose object could not be
\* copied (probe only), and of a field without methods (renderer only).
SameSlots(e) ==
    \A i \in 1 .. Len(e.sig) : e.words[i] \in e.with => (e.sig[i] \in Marked <=> Looks(e, i))

\* AutoFetch.zh_CN.md 5: recipe leaves "are interpreted by _type address": no
\* value is ever rendered with bytes that were copied for another one.
ExtrasBoundToOwner ==
    rendered # Nothing =>
        \A i \in 1 .. Len(rendered.event.sig) : ToSet(Shown(i)) \subseteq Own(i)

\* AutoFetch.zh_CN.md 7.4: userspace places the leaves "with the same recipe":
\* when the recipes known at the rendering are those of the probe hit, and both
\* sides expand the same slots of the event, every interface but a cut field gets
\* exactly the leaves that were copied for it, in their order, also when the eight
\* leaves of an event are used up.
CurrentRecipesBindExactly ==
    (Current /\ SameSlots(rendered.event)) =>
        \A i \in 1 .. Len(rendered.event.sig) : rendered.event.sig[i] # "cutField" =>
            /\ ToSet(Shown(i)) = Own(i)
            /\ \A j \in 1 .. Len(Shown(i)) : Shown(i)[j].rule = j

\* The kernel never appends leaves that the renderer has no recipe for: both
\* sides agree on the recipes, and a queued event was captured with a part of
\* them.
RecipesAgree ==
    /\ learned = installed
    /\ \A i \in 1 .. Len(queue) : queue[i].with \subseteq learned

\* Design.md 5.4: a type that shows up in a captured event is expanded from
\* some point on, unless the map is full.
LearnedEventually ==
    \A t \in Resolvable :
        (\E i \in 1 .. Len(queue) : \E j \in 1 .. Len(queue[i].sig) :
            queue[i].sig[j] \in Marked /\ queue[i].words[j] = t)
          ~> (t \in installed \/ Cardinality(installed) = MaxRecipes)
=============================================================================
