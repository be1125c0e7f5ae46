---------------------------- MODULE MCFetchPlan ----------------------------
(***************************************************************************)
(* All lists of one to three parameters over a set of types that has every *)
(* kind of field, in registers and behind a pointer, at offsets inside and *)
(* beyond the captured prefix and beyond 16 bits, and more than eight      *)
(* structs deep.                                                           *)
(***************************************************************************)
EXTENDS FetchPlan

F(kind, at) == [kind |-> kind, at |-> at]
Plainly(kind) == [form |-> "plain", fields |-> <<F(kind, <<>>)>>]
Struct(fields) == [form |-> "struct", fields |-> fields]
Pointer(fields) == [form |-> "pointer", fields |-> fields]

MCTypes ==
    {Plainly(k) : k \in Kinds} \cup
    {Struct(<<F("int", <<0>>), F("string", <<8>>)>>),
     Struct(<<F("iface", <<0, 0>>), F("int", <<0, 16>>), F("eface", <<24>>)>>),
     Struct(<<F("int", <<0>>), F("array", <<8>>)>>),
     Struct(<<F("empty", <<0>>), F("int", <<0>>)>>),
     Pointer(<<F("int", <<0>>), F("string", <<8, 0>>), F("slice", <<8, 16>>)>>),
     Pointer(<<F("iface", <<8>>)>>),
     Pointer(<<F("eface", <<40>>), F("iface", <<56>>)>>),
     Pointer(<<F("string", <<0>>), F("string", <<40000>>)>>),
     Pointer(<<F("string", <<1, 1, 1, 1, 1, 1, 2, 8>>)>>)}

Lists == UNION {[1 .. n -> MCTypes] : n \in 1 .. 3}
=============================================================================
