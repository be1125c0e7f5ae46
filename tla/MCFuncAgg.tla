----------------------------- MODULE MCFuncAgg -----------------------------
(***************************************************************************)
(* A table of two entries for three values, so that entries are replaced,  *)
(* come back after replacement and tie for the minimum.                    *)
(***************************************************************************)
EXTENDS FuncAgg, TLC

CONSTANTS v1, v2, v3

MCValues == {v1, v2, v3}
MCSymmetry == Permutations(MCValues)
=============================================================================
