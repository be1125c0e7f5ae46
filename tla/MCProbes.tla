------------------------------ MODULE MCProbes ------------------------------
(***************************************************************************)
(* Instances of the BPF programs alone: one process with one goroutine.    *)
(* Function A may start a trace, B is only recorded inside one, X has no   *)
(* probes.                                                                 *)
(***************************************************************************)
EXTENDS Probes, TLC

SameProcess == [g \in Goroutines |-> 1]

Sampling == [adaptive : {TRUE}, aggregate : {TRUE}]

AThenB == <<<<EXIT, Zero>>, <<ENT, "A">>, <<RET, "A">>, <<ENT, "B">>, <<RET, "B">>>>
=============================================================================
