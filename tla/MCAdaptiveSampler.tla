------------------------- MODULE MCAdaptiveSampler -------------------------
(***************************************************************************)
(* A scaled-down controller: denominators up to 32 instead of 2^20 and a   *)
(* word of 8 bits instead of 32, with the code's own window counts.  The   *)
(* heap sizes hit every branch of heapTarget, the window counts both sides *)
(* of the 2% threshold (1 of 50 is noise, 2 of 51 is loss), a window that  *)
(* emitted nothing, and quotients that leave the word.                     *)
(***************************************************************************)
EXTENDS AdaptiveSampler

MCHeapSizes == {45, 46, 70, 85, 100}
MCWindowCounts == {0, 1, 2, 49}
=============================================================================
