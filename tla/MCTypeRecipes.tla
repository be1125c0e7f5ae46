--------------------------- MODULE MCTypeRecipes ---------------------------
(***************************************************************************)
(* Four types with recipes of one and two rules, one of them unknown to    *)
(* the ELF file, room for two recipes, and probes with one or two          *)
(* interfaces in all the places where the probe and the renderer treat     *)
(* them alike or not.                                                      *)
(***************************************************************************)
EXTENDS TypeRecipes

MCTypes == {"T1", "T2", "T3", "T4"}
MCRecipeLen == [t \in MCTypes |-> IF t = "T1" THEN 1 ELSE 2]

MCResolvable == MCTypes \ {"T4"}

TwoParameters == {<<"iface", "iface">>}
Parameters ==
    TwoParameters \cup
    {<<"leaf", "byValue">>, <<"iface", "byValue">>,
     <<"object", "field">>, <<"object", "cutField">>, <<"object", "farField">>,
     <<"object", "any">>, <<"object", "any", "field">>, <<"iface", "object", "any">>}
=============================================================================
