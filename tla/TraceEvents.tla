---------------------------- MODULE TraceEvents ----------------------------
(***************************************************************************)
(* What the BPF programs (internal/bpf/ftrace.c) and the event manager     *)
(* (internal/eventmanager) agree on: who is traced and what an event says. *)
(*                                                                         *)
(* A goroutine stands for one (pid, goid) pair.  A function stands for its *)
(* entry address and for the address of its RET instructions alike: an     *)
(* event's location tells which one fired, and should_trace_ret maps every *)
(* RET of a wanted function to its entry.  Arguments are left out here.    *)
(***************************************************************************)
EXTENDS Integers, Sequences, FiniteSets

CONSTANTS
    Goroutines,  \* (pid, goid) pairs of the traced processes
    Pids,        \* processes that run the traced binary
    PidOf,       \* the process of each goroutine
    Functions,   \* functions with an entry probe and RET probes (-u)
    Wanted,      \* functions that may start a trace (should_trace_rip)
    Configs      \* the settings of --sample and --aggregate to look at

Modes == [adaptive : BOOLEAN, aggregate : BOOLEAN]

ASSUME ScopeAssumption ==
    /\ IsFiniteSet(Goroutines)
    /\ PidOf \in [Goroutines -> Pids]
    /\ IsFiniteSet(Functions) /\ "0" \notin Functions
    /\ Wanted \subseteq Functions
    /\ Configs \subseteq Modes

VARIABLE cfg  \* the settings of this session: chosen at the start, then fixed

\* --sample: CONFIG.adaptive_sampling and EventManager.adaptive
Adaptive == cfg.adaptive

\* --aggregate
Aggregate == cfg.aggregate

\* event.location
ENT == "ENTPOINT"
RET == "RETPOINT"
EXIT == "GOROUTINE_EXIT"

\* event.trace_flags: the programs set at most one bit.
START == "TRACE_START"
END == "TRACE_END"
ABORT == "TRACE_ABORT"
NoFlag == "0"
Flags == {START, END, ABORT, NoFlag}

\* The zero that memset leaves in ip, bp and caller_bp.
Zero == "0"

\* Frame base pointers: the stack's incarnation and the frame's depth.  Moving
\* the stack changes the address of every frame on it.
Addresses == (Nat \X Nat) \cup {Zero}

EventRecord == [goid : Goroutines,
                location : {ENT, RET, EXIT},
                ip : Functions \cup {Zero},
                bp : Addresses, caller_bp : Addresses,
                flag : Flags,
                sample_denominator : Nat,
                time : Nat]

\* ent and ret tell the function, goroutine_exit is of none; only ent tells frames,
\* only ret ends a trace.
Event == {e \in EventRecord :
            /\ e.ip = Zero <=> e.location = EXIT
            /\ e.location # ENT => e.bp = Zero /\ e.caller_bp = Zero
            /\ e.flag = END => e.location = RET}
=============================================================================
