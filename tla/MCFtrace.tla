------------------------------ MODULE MCFtrace ------------------------------
(***************************************************************************)
(* Instances of the whole pipeline.  Function A may start a trace, B is    *)
(* only recorded inside one, X has no probes.                              *)
(***************************************************************************)
EXTENDS Ftrace, TLC

CONSTANTS g1, g2

AllModes == Modes
Sampling == [adaptive : {TRUE}, aggregate : {TRUE}]

AThenB == <<<<EXIT, Zero>>, <<ENT, "A">>, <<RET, "A">>, <<ENT, "B">>, <<RET, "B">>>>

OneGoroutine == {g1}
TwoGoroutines == {g1, g2}

\* Both goroutines in one process, or each in its own.
SameProcess == [g \in Goroutines |-> 1]
OwnProcess == [g \in Goroutines |-> IF g = g1 THEN 1 ELSE 2]
=============================================================================
