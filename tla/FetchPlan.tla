----------------------------- MODULE FetchPlan -----------------------------
(***************************************************************************)
(* Automatic argument fetching, from the types of a probe's parameters to  *)
(* the printed line: planValue (internal/uprobe/auto.go) compiles the      *)
(* types into fetch rules, setArgRules (internal/bpf/bpf.go) loads them,   *)
(* fetch_args (internal/bpf/ftrace.c) runs them at the probe hit, and      *)
(* renderAuto (internal/uprobe/value.go) rebuilds the values from the      *)
(* copied leaves.  The same code serves entry arguments and results.       *)
(*                                                                         *)
(* A type is [form, fields]: a struct or a pointer to one is its           *)
(* elementary fields in order, each with the offsets of the structs around *)
(* it; a plain type (integer, opaque pointer, string, slice, interface) is *)
(* one field, and is planned as a struct of that one field.                *)
(*                                                                         *)
(* Memory is symbolic.  A pointer is the path that leads to it: <<"bx">>   *)
(* is what register bx points to, <<"bx", 8>> what the word at offset 8 of *)
(* that object points to.  A probe hit chooses which pointers are nil and  *)
(* which point to memory that cannot be read at that moment.               *)
(***************************************************************************)
EXTENDS Integers, Sequences, SequencesExt

CONSTANTS
    Signatures,    \* the parameter lists: sequences of types
    MaxFetchArgs,  \* leaves of an event: 8
    MaxRules       \* MaxFetchArgRules, the base register included: 8

Kinds == {"int", "pointer", "string", "slice", "eface", "iface", "func", "array", "empty"}
Interface == {"eface", "iface"}

\* arg_data.data holds MAX_DATA_SIZE = autoStringSize bytes.
Prefix == 64

abiRegs == <<"ax", "bx", "cx", "di", "si", "r8", "r9", "r10", "r11">>

\* The sums of the first numbers of a sequence.
Totals(s) ==
    LET upto[i \in 0 .. Len(s)] == IF i = 0 THEN 0 ELSE upto[i - 1] + s[i]
    IN  upto

SumOver(f(_), s) == Totals([i \in 1 .. Len(s) |-> f(s[i])])[Len(s)]

Field == [kind : Kinds, at : Seq(Nat)]
Type == [form : {"plain", "struct", "pointer"}, fields : Seq(Field)]

\* Where a field is in the object.
Offset(field) == Totals(field.at)[Len(field.at)]

\* abiWordCount of a field that is not a struct; 0 is an unsupported type.
Words(field) ==
    CASE field.kind \in {"int", "pointer"} -> 1
      [] field.kind \in {"string"} \cup Interface -> 2
      [] field.kind = "slice" -> 3
      [] OTHER -> 0

\* The memory of a value that is k words into one of its fields.
WordOffset(field, k) == Offset(field) + 8 * (k - 1)

\* Fields do not overlap.
Apart(t) ==
    \A i, j \in 1 .. Len(t.fields) :
        i # j => \A k \in 1 .. Words(t.fields[i]), l \in 1 .. Words(t.fields[j]) :
                     WordOffset(t.fields[i], k) # WordOffset(t.fields[j], l)

ASSUME FetchPlanAssumption ==
    /\ MaxFetchArgs \in 1 .. 8 /\ MaxRules \in 2 .. 8
    /\ Signatures \subseteq Seq(Type)
    /\ \A params \in Signatures : \A i \in 1 .. Len(params) :
          /\ params[i].form = "plain" => Len(params[i].fields) = 1
          /\ Apart(params[i])

VARIABLES
    stage,   \* "planning", "built", "loaded", "rejected", "captured", "shown"
    sig,     \* the parameters of the probe
    next,    \* the parameter that is planned next
    wi,      \* flatCtx.wi: registers used
    out,     \* flatCtx.out: the leaves, in fetch order
    values,  \* the Value of each planned parameter
    nils,    \* pointers that are nil at the probe hit
    bad,     \* pointers whose memory cannot be read at the probe hit
    args,    \* event.args
    shown    \* what each value is rendered as

planVars == <<sig, next, wi, out, values>>
hitVars == <<nils, bad, args, shown>>
vars == <<stage, planVars, hitVars>>

Init ==
    /\ stage = "planning"
    /\ sig \in Signatures
    /\ next = 1 /\ wi = 0 /\ out = <<>> /\ values = <<>>
    /\ nils = {} /\ bad = {} /\ args = <<>> /\ shown = <<>>

-----------------------------------------------------------------------------
(* Planning. *)

\* abiWordCount: one unsupported field makes the whole struct unsupported.
AbiWordCount(t) ==
    IF \E i \in 1 .. Len(t.fields) : Words(t.fields[i]) = 0 THEN 0 ELSE SumOver(Words, t.fields)

\* Mutant: the type word behind the itab is not counted.
ExtraInMemoryUntyped(field) ==
    CASE field.kind \in {"string", "slice"} -> 1
      [] field.kind \in Interface -> 2
      [] OTHER -> 0

\* extraCaptures of a field of an object in memory.
ExtraInMemory(field) ==
    CASE field.kind \in {"string", "slice"} -> 1
      [] field.kind = "eface" -> 2
      [] field.kind = "iface" -> 3
      [] OTHER -> 0

\* extraCaptures of a field in registers.
ExtraInRegisters(field) ==
    IF field.kind \in {"string", "slice"} \cup Interface THEN 1 ELSE 0

Behind(t) == t.form = "pointer"

Extras(t) ==
    IF Behind(t) THEN SumOver(ExtraInMemory, t.fields) ELSE SumOver(ExtraInRegisters, t.fields)

Add(o) == IF o = 0 THEN <<>> ELSE <<[off |-> o, deref |-> FALSE]>>
Deref(o) == <<[off |-> o, deref |-> TRUE]>>

\* memLoc.add along the structs around a field.
AddAll(field) == FlattenSeq([i \in 1 .. Len(field.at) |-> Add(field.at[i])])

\* scalarRegSpec: a leaf that is the register itself.
RegLeaf(reg) == [reg |-> reg, steps |-> <<>>, nilCheck |-> FALSE]

\* Mutant: no steps, so the rule ends with the register.
LocSpecBare(reg, steps, nilCheck) == [reg |-> reg, steps |-> steps, nilCheck |-> nilCheck]

\* locSpec and blobAt: a leaf in memory ends with a step, "+0" if need be.
LocSpec(reg, steps, nilCheck) ==
    [reg |-> reg, nilCheck |-> nilCheck,
     steps |-> IF steps = <<>> THEN <<[off |-> 0, deref |-> FALSE]>> ELSE steps]

\* emitABI: the word leaves of one field whose words start at register w + 1.
\* The type word of an interface with methods is read through its itab.
WordLeaves(field, w) ==
    [k \in 1 .. Words(field) |->
        IF field.kind = "iface" /\ k = 1
          THEN LocSpec(abiRegs[w + 1], Add(8), TRUE)
          ELSE RegLeaf(abiRegs[w + k])]

\* emitRegCaptures: the bytes that a field in registers points to.
RegCaptures(field, w) ==
    CASE field.kind = "string" -> <<LocSpec(abiRegs[w + 1], <<>>, FALSE)>>
      [] field.kind = "slice" -> <<LocSpec(abiRegs[w + 1], <<>>, TRUE)>>
      [] field.kind \in Interface -> <<LocSpec(abiRegs[w + 2], <<>>, TRUE)>>
      [] OTHER -> <<>>

\* emitMemCaptures: what is captured for one field of an object in memory.
MemCaptures(field, reg) ==
    LET leaf(steps) == <<LocSpec(reg, AddAll(field) \o steps, TRUE)>>
    IN  CASE field.kind \in {"string", "slice"} -> leaf(Deref(0))
          [] field.kind \in Interface ->
               (IF field.kind = "iface" THEN leaf(Deref(0) \o Add(8)) ELSE <<>>)
                 \o leaf(Add(8)) \o leaf(Deref(8))
          [] OTHER -> <<>>

\* Words of the fields before field i.
Before(t, i) == Totals([j \in 1 .. Len(t.fields) |-> Words(t.fields[j])])[i - 1]

Flat(leaves(_), n) == FlattenSeq([i \in 1 .. n |-> leaves(i)])

\* planValue: the leaves of a pointer to a struct, and of a value in registers,
\* when w registers are used.
PointerLeaves(t, w) ==
    LET reg == abiRegs[w + 1]
    IN  <<RegLeaf(reg), LocSpec(reg, <<>>, TRUE)>>
          \o Flat(LAMBDA i : MemCaptures(t.fields[i], reg), Len(t.fields))
ValueLeaves(t, w) ==
    Flat(LAMBDA i : WordLeaves(t.fields[i], w + Before(t, i)), Len(t.fields))
      \o Flat(LAMBDA i : RegCaptures(t.fields[i], w + Before(t, i)), Len(t.fields))
PlanLeaves(t, w) == IF Behind(t) THEN PointerLeaves(t, w) ELSE ValueLeaves(t, w)

WordCount(t) == IF Behind(t) THEN 1 ELSE AbiWordCount(t)
Captures(t) == IF Behind(t) THEN 1 + Extras(t) ELSE Extras(t)

\* flatCtx.full and flatCtx.reserve.
Full == Len(out) >= MaxFetchArgs
Reserve(n) == Len(out) + n <= MaxFetchArgs

Planning == stage = "planning" /\ ~Full /\ next <= Len(sig)

PlanValue ==
    /\ Planning
    /\ LET t == sig[next]
       IN  /\ WordCount(t) > 0
           /\ Reserve(WordCount(t) + Captures(t))
           /\ wi' = wi + WordCount(t)
           /\ out' = out \o PlanLeaves(t, wi)
           /\ values' = Append(values, [param |-> next, type |-> t, start |-> wi,
                                        words |-> WordCount(t), captures |-> Captures(t)])
    /\ next' = next + 1
    /\ UNCHANGED <<stage, sig, hitVars>>

\* planValue returns nil: the type is unsupported, or its leaves do not fit.
SkipValue ==
    /\ Planning
    /\ LET t == sig[next]
       IN  WordCount(t) = 0 \/ ~Reserve(WordCount(t) + Captures(t))
    /\ next' = next + 1
    /\ UNCHANGED <<stage, sig, wi, out, values, hitVars>>

\* deriveArgs and deriveRets after their loop; without leaves there is no rule.
Build ==
    /\ stage = "planning"
    /\ Full \/ next > Len(sig)
    /\ out # <<>>
    /\ stage' = "built"
    /\ UNCHANGED <<planVars, hitVars>>

-----------------------------------------------------------------------------
(* Loading. *)

Loadable(leaf) == 1 + Len(leaf.steps) <= MaxRules

\* The conversion int16(r.Offset).
Int16(o) == ((o + 32768) % 65536) - 32768

RegisterConstants ==
    [r \in {"ax", "bx", "cx", "dx", "si", "di", "r8", "r9", "r10", "r11"} |->
        CASE r = "ax" -> 0 [] r = "dx" -> 1 [] r = "cx" -> 2 [] r = "bx" -> 3 [] r = "si" -> 4
          [] r = "di" -> 5 [] r = "r8" -> 8 [] r = "r9" -> 9 [] r = "r10" -> 10 [] r = "r11" -> 11]

ToRule(leaf) ==
    [reg |-> RegisterConstants[leaf.reg], nil_check |-> leaf.nilCheck,
     steps |-> [i \in 1 .. Len(leaf.steps) |-> [leaf.steps[i] EXCEPT !.off = Int16(@)]]]

Rules == [i \in 1 .. Len(out) |-> ToRule(out[i])]

\* setArgRules.
Load ==
    /\ stage = "built"
    /\ \A i \in 1 .. Len(out) : Loadable(out[i])
    /\ stage' = "loaded"
    /\ UNCHANGED <<planVars, hitVars>>

\* One rule with too many steps fails the whole Load: nothing is traced.
Reject ==
    /\ stage = "built"
    /\ \E i \in 1 .. Len(out) : ~Loadable(out[i])
    /\ stage' = "rejected"
    /\ UNCHANGED <<planVars, hitVars>>

-----------------------------------------------------------------------------
(* The probe hit. *)

\* read_reg: the field of pt_regs for a register number.
PtRegs == <<"ax", "dx", "cx", "bx", "si", "di", "bp", "sp",
            "r8", "r9", "r10", "r11", "r12", "r13", "r14", "r15">>
ReadReg(reg) == <<PtRegs[reg + 1]>>

\* An address is an offset from a pointer; reading the word there yields the
\* pointer that the path is extended to.
At(ptr, o) == [ptr |-> ptr, off |-> o]
WordAt(addr) == Append(addr.ptr, addr.off)
Readable(addr, nil, unreadable) == addr.ptr \notin nil \cup unreadable

\* arg_data: what was copied (from), the word in its first bytes, and the flags.
Nowhere == At(<<>>, 0)
Zeroed == [from |-> Nowhere, word |-> <<>>, is_nil |-> FALSE, read_error |-> FALSE]
IsNilArg == [Zeroed EXCEPT !.is_nil = TRUE]
ReadError == [Zeroed EXCEPT !.read_error = TRUE]

\* One step of a rule; Nowhere when a dereference fails.
Follow(addr, s, nil, unreadable) ==
    IF addr = Nowhere THEN Nowhere
    ELSE IF ~s.deref THEN At(addr.ptr, addr.off + s.off)
    ELSE IF Readable(addr, nil, unreadable) THEN At(WordAt(At(addr.ptr, addr.off + s.off)), 0)
    ELSE Nowhere

\* Where the first steps of a rule lead from the memory at base.
Walk(base, steps, nil, unreadable) ==
    LET after[k \in 0 .. Len(steps)] ==
            IF k = 0 THEN At(base, 0) ELSE Follow(after[k - 1], steps[k], nil, unreadable)
    IN  after

FetchFromReg(rule) == [Zeroed EXCEPT !.word = ReadReg(rule.reg)]

FetchFromMemory(rule, nil, unreadable) ==
    LET base == ReadReg(rule.reg)
        addr == Walk(base, rule.steps, nil, unreadable)[Len(rule.steps)]
    IN  IF rule.nil_check /\ base \in nil THEN IsNilArg
        ELSE IF addr = Nowhere \/ ~Readable(addr, nil, unreadable) THEN ReadError
        ELSE [Zeroed EXCEPT !.from = addr, !.word = WordAt(addr)]

\* rule.type is the location of the last step: none is a register.
FetchArgs(nil, unreadable) ==
    [i \in 1 .. Len(Rules) |->
        IF Rules[i].steps = <<>> THEN FetchFromReg(Rules[i])
        ELSE FetchFromMemory(Rules[i], nil, unreadable)]

-----------------------------------------------------------------------------
(* What the probe can find: the choices of a hit. *)

Plain(v, kinds) == v.type.form = "plain" /\ v.type.fields[1].kind \in kinds

\* The pointers that the rules follow, and the first words of plain values.
Pointers ==
    (UNION {{Walk(ReadReg(Rules[i].reg), Rules[i].steps, {}, {})[k].ptr :
              k \in 0 .. Len(Rules[i].steps)} : i \in {j \in 1 .. Len(Rules) : Rules[j].steps # <<>>}})
      \cup {<<abiRegs[v.start + 1]>> : v \in {u \in ToSet(values) : Plain(u, {"pointer", "eface"})}}

\* The type word and the data word of an interface, for field i of a value.
InterfaceWords(v, i) ==
    IF Behind(v.type)
      THEN LET at == At(<<abiRegs[v.start + 1]>>, Offset(v.type.fields[i]))
           IN  <<WordAt(at), WordAt(At(at.ptr, at.off + 8))>>
      ELSE LET w == v.start + Before(v.type, i)
           IN  <<<<abiRegs[w + 1]>>, <<abiRegs[w + 2]>>>>

\* A nil interface has no data.
Possible(nil) ==
    \A v \in ToSet(values) : \A i \in 1 .. Len(v.type.fields) :
        (v.type.fields[i].kind \in Interface /\ InterfaceWords(v, i)[1] \in nil)
            => InterfaceWords(v, i)[2] \notin Pointers \ nil

Hit ==
    /\ stage = "loaded"
    /\ \E nil \in {n \in SUBSET Pointers : Possible(n)} :
       \E unreadable \in SUBSET (Pointers \ nil) :
          /\ nils' = nil
          /\ bad' = unreadable
          /\ args' = FetchArgs(nil, unreadable)
    /\ stage' = "captured"
    /\ UNCHANGED <<planVars, shown>>

-----------------------------------------------------------------------------
(* Rendering. *)

LeafCount(v) == v.words + v.captures

\* renderAuto moves a cursor over the leaves, value by value.
Cursor(n) == Totals([m \in 1 .. Len(values) |-> LeafCount(values[m])])[n - 1]
WordsOf(n) == SubSeq(args, Cursor(n) + 1, Cursor(n) + values[n].words)
CapturesOf(n) == SubSeq(args, Cursor(n) + values[n].words + 1, Cursor(n) + LeafCount(values[n]))

IsZero(word) == word = <<>> \/ word \in nils

\* memSnapshot.put.
Put(addr, leaf) ==
    IF leaf.is_nil \/ leaf.read_error \/ (IsZero(addr.ptr) /\ addr.off = 0)
      THEN <<>> ELSE <<[at |-> addr, holds |-> leaf.from]>>

\* scatterWords, or the header of a plain value: words by their offset.
Image(t, words) ==
    [o \in {WordOffset(t.fields[i], k) : i \in 1 .. Len(t.fields), k \in 1 .. 3} |->
        LET owner == {p \in (1 .. Len(t.fields)) \X (1 .. 3) :
                        p[2] <= Words(t.fields[p[1]]) /\ o = WordOffset(t.fields[p[1]], p[2])}
        IN  IF owner = {} THEN Zeroed
            ELSE LET p == CHOOSE p \in owner : TRUE IN words[Before(t, p[1]) + p[2]]]

\* consumeRegCaptures: what one field of a value takes from the captures.
RegChunks(field, image, leaf) ==
    Put(At(image[Offset(field) + (IF field.kind \in Interface THEN 8 ELSE 0)].word, 0), leaf)

\* consumeMemCaptures for one field of the object at ptr, of which the first 64
\* bytes are known.
MemChunks(field, ptr, leaves) ==
    LET o == Offset(field)
        word(d) == WordAt(At(ptr, o + d))
        known(d) == o + d + 8 <= Prefix
    IN  IF field.kind \notin Interface
          THEN IF known(0) THEN Put(At(word(0), 0), leaves[1]) ELSE <<>>
          ELSE (IF field.kind = "iface" /\ known(0) THEN Put(At(word(0), 8), leaves[1]) ELSE <<>>)
                 \o (IF known(8) THEN Put(At(word(8), 0), Last(leaves)) ELSE <<>>)

\* The number of captures that the renderer takes for a field.
Takes(field, inMemory) ==
    CASE field.kind \in {"string", "slice"} -> 1
      [] field.kind \in Interface /\ ~inMemory -> 1
      [] field.kind = "eface" /\ inMemory -> 2
      [] field.kind = "iface" /\ inMemory -> 3
      [] OTHER -> 0

\* consumeRegCaptures and consumeMemCaptures for one field: what it adds to the
\* memory that is known, out of the captures it takes.
Chunks(t, words, field, leaves) ==
    IF Behind(t) THEN MemChunks(field, words[1].word, leaves)
    ELSE RegChunks(field, Image(t, words), leaves[1])

\* The captures that the first fields have taken out of count: a field that there
\* are not enough for takes none.
Taken(t, count) ==
    LET taken[i \in 0 .. Len(t.fields)] ==
            IF i = 0 THEN 0
            ELSE LET n == taken[i - 1] + Takes(t.fields[i], Behind(t))
                 IN  IF n > count THEN taken[i - 1] ELSE n
    IN  taken

\* The fields take their captures in order.
Consume(t, words, captures) ==
    LET taken == Taken(t, Len(captures))
        chunks(i) == IF taken[i] = taken[i - 1] THEN <<>>
                     ELSE Chunks(t, words, t.fields[i], SubSeq(captures, taken[i - 1] + 1, taken[i]))
    IN  Flat(chunks, Len(t.fields))

\* The memory that value n is rendered from.
Snapshot(n) ==
    LET t == values[n].type
        words == WordsOf(n)
        captures == CapturesOf(n)
    IN  IF Behind(t)
          THEN Put(At(words[1].word, 0), captures[1]) \o Consume(t, words, Tail(captures))
          ELSE Consume(t, words, captures)

\* Mutant: an interface is nil when its data word is.
NilInterfaceByData(n) ==
    Plain(values[n], Interface) /\ IsZero(WordsOf(n)[2].word)

\* An interface is nil when its type word is nil or zero; a failed read leaves
\* a zero too.
NilInterface(n) ==
    Plain(values[n], Interface) /\ (WordsOf(n)[1].is_nil \/ IsZero(WordsOf(n)[1].word))

NilPointer(n) ==
    \/ Behind(values[n].type) /\ CapturesOf(n)[1].is_nil
    \/ /\ Behind(values[n].type) \/ Plain(values[n], {"pointer"})
       /\ IsZero(WordsOf(n)[1].word)

\* renderAuto: what is printed for value n.
RenderedAs(n) ==
    IF NilInterface(n) THEN "nil"
    ELSE IF \E i \in 1 .. values[n].words : WordsOf(n)[i].read_error THEN "<unavailable>"
    ELSE IF NilPointer(n) THEN "nil"
    ELSE IF Behind(values[n].type) /\ CapturesOf(n)[1].read_error THEN "<unavailable>"
    ELSE "value"

Render ==
    /\ stage = "captured"
    /\ shown' = [n \in 1 .. Len(values) |->
                    [as |-> RenderedAs(n),
                     snap |-> IF RenderedAs(n) = "value" THEN Snapshot(n) ELSE <<>>]]
    /\ stage' = "shown"
    /\ UNCHANGED <<planVars, nils, bad, args>>

Next == PlanValue \/ SkipValue \/ Build \/ Load \/ Reject \/ Hit \/ Render

Spec == Init /\ [][Next]_vars

-----------------------------------------------------------------------------
(* The Go register ABI, the reference for the plan. *)

GoRegisters == <<"ax", "bx", "cx", "di", "si", "r8", "r9", "r10", "r11">>

\* Integer registers of a type.  An array sends the whole value to the stack,
\* an empty struct takes nothing.
GoWords(t) ==
    IF Behind(t) THEN 1
    ELSE IF \E i \in 1 .. Len(t.fields) : t.fields[i].kind = "array" THEN 0
    ELSE SumOver(LAMBDA f : CASE f.kind \in {"int", "pointer", "func"} -> 1
                              [] f.kind = "empty" -> 0
                              [] f.kind = "slice" -> 3
                              [] OTHER -> 2, t.fields)

\* Registers in use after the first parameters: one that does not fit is on the stack.
GoUsed(params) ==
    LET used[p \in 0 .. Len(params)] ==
            IF p = 0 THEN 0
            ELSE IF used[p - 1] + GoWords(params[p]) > Len(GoRegisters) THEN used[p - 1]
            ELSE used[p - 1] + GoWords(params[p])
    IN  used

InGoRegisters(p) == GoWords(sig[p]) > 0 /\ GoUsed(sig)[p - 1] + GoWords(sig[p]) <= Len(GoRegisters)

\* Parameter p was planned, or has no registers.
Accounted(p) == InGoRegisters(p) => \E v \in ToSet(values) : v.param = p

-----------------------------------------------------------------------------
(* Properties *)

\* AutoFetch.zh_CN.md 5: the fetch rules of a probe agree in number with the
\* leaves of its values, they fit an event, the registers never run out, and
\* every word is fetched from the register that the Go ABI assigns to it, as
\* long as every parameter before that has registers is in the plan: one whose
\* leaves do not fit, or whose type is unsupported (a func value, a struct with an
\* empty field), is skipped without its registers.
PlanFollowsABI ==
    stage # "planning" =>
        /\ Len(out) = SumOver(LeafCount, values) /\ Len(out) <= MaxFetchArgs
        /\ wi <= Len(abiRegs)
        /\ \A n \in 1 .. Len(values) :
             (\A p \in 1 .. values[n].param : Accounted(p)) =>
                 \A k \in 1 .. values[n].words :
                     ReadReg(Rules[Cursor(n) + k].reg) = <<GoRegisters[GoUsed(sig)[values[n].param - 1] + k]>>

\* AutoFetch.zh_CN.md 9: the generic leaves are put together to the snapshot that
\* renderDynamicValue reads.  Each piece of it starts with the bytes that were at
\* its address at the probe hit, whichever reads failed, whatever was nil, and
\* however far the offsets reach (those beyond 16 bits are truncated by Load).
SnapshotHonest ==
    stage = "shown" =>
        \A n \in 1 .. Len(values) : \A c \in ToSet(shown[n].snap) : c.at = c.holds

\* What a parameter is: nil when its first word is.
ReallyNil(v) ==
    /\ Behind(v.type) \/ Plain(v, {"pointer"} \cup Interface)
    /\ <<abiRegs[v.start + 1]>> \in nils

\* The itab of an interface with methods could not be read.
ItabUnread(v) == Plain(v, {"iface"}) /\ <<abiRegs[v.start + 1]>> \in bad

\* AutoFetch.zh_CN.md 6 and 11: a nil pointer or interface is printed as nil, and
\* nothing else is, a typed nil in an interface included.  Interfaces whose itab
\* cannot be read are left out: they are printed as nil too.
NilExactly ==
    stage = "shown" =>
        \A n \in 1 .. Len(values) :
            ~ItabUnread(values[n]) => (shown[n].as = "nil" <=> ReallyNil(values[n]))
=============================================================================
