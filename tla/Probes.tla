------------------------------- MODULE Probes -------------------------------
(***************************************************************************)
(* The uprobe programs ent, ret and goroutine_exit of                      *)
(* internal/bpf/ftrace.c, their maps, and the goroutines that fire them.   *)
(*                                                                         *)
(* A goroutine is its call stack.  It calls probed functions and functions *)
(* without probes, its stack may be moved (grown or shrunk by the Go       *)
(* runtime), and a function may be restarted in its prologue (morestack,   *)
(* for growth or for preemption), which fires the entry probe again.  A    *)
(* recovered panic unwinds frames that never execute their RET, a process  *)
(* may end without runtime.goexit1, and its pid may be used again.  Probes *)
(* are attached one by one, and detached in any order, while it all runs.  *)
(* A program runs to completion for its goroutine; programs of different   *)
(* goroutines interleave and share the event queue and the state map.      *)
(***************************************************************************)
EXTENDS TraceEvents

CONSTANTS
    Unprobed,         \* any function of the program without probes
    Callable,         \* what goroutines may call: Functions, perhaps Unprobed
    Uprobes,          \* the list of uprobe.Parse, each a <<location, function>>
    Disturbances,     \* what may happen to calls, out of DisturbanceKinds
    MaxSampleEvents,  \* MAX_SAMPLE_EVENTS: 4096 in the code
    QueueCap,         \* event_queue.max_entries: 10000
    MaxTracked,       \* should_trace_goid.max_entries: 10000
    Denominators,     \* denominators that userspace may configure
    MaxDepth,         \* bound of the model: call depth of a goroutine
    MaxMoves,         \* bound of the model: stack moves per goroutine
    MaxFaults,        \* bound of the model: recovered panics and processes that end
    MaxFires          \* bound of the model: probe hits per goroutine

\* Restarted prologues (growth, preemption), map updates that fail for want of
\* memory or of a lock, and calls made while the probes are being attached or
\* detached.
DisturbanceKinds == {"restart", "insert", "attach", "detach"}

\* Every probe; a function stands for all its RET instructions.
Points == {<<EXIT, Zero>>} \cup ({ENT, RET} \X Functions)

\* Parse lists runtime.goexit1 first and every function's entry before its RETs.
ASSUME UprobesAssumption ==
    /\ Uprobes \in [1 .. Cardinality(Points) -> Points]
    /\ \A p \in Points : \E i \in DOMAIN Uprobes : Uprobes[i] = p
    /\ Uprobes[1] = <<EXIT, Zero>>
    /\ \A i \in DOMAIN Uprobes :
          Uprobes[i][1] = ENT => Uprobes[i + 1] = <<RET, Uprobes[i][2]>>

ASSUME ProbesAssumption ==
    /\ Unprobed \notin Functions
    /\ Disturbances \subseteq DisturbanceKinds
    /\ MaxFaults \in Nat
    /\ Callable \subseteq Functions \cup {Unprobed}
    /\ MaxSampleEvents \in Nat \ {0}
    /\ QueueCap \in Nat /\ MaxTracked \in Nat
    /\ Denominators \subseteq Nat \ {0} /\ 1 \in Denominators
    /\ MaxDepth \in Nat /\ MaxMoves \in Nat /\ MaxFires \in Nat

VARIABLES
    frames,       \* target: the call stack of each goroutine
    moves,        \* target: how often each stack has moved
    fresh,        \* target: goroutines still in the prologue of their top frame
    alive,        \* target: goroutines that have not exited
    faults,       \* target: recovered panics and ended processes so far
    clock,        \* target: probe hits so far, the goroutine's bpf_ktime
    indirect,     \* history: goroutines with indirect recursion, see IndirectNext
    unreturned,   \* history: goroutines with a recorded entry whose return is missed
    stray,        \* history: goroutines with a recorded return whose entry is not
    state,        \* should_trace_goid
    denominator,  \* what current_sample_denominator returns
    queue,        \* event_queue
    stats,        \* runtime_stats_map, summed over the CPUs
    since,        \* history: when the open sample was admitted, 0 without one
    phase,        \* "attaching", "tracing", "detaching", "draining", "done"
    attached      \* the probes with an open link (BPF.closers)

targetVars == <<frames, moves, fresh, alive, faults, clock, indirect,
                unreturned, stray>>
kernelVars == <<state, denominator, queue, stats, since>>
linkVars == <<phase, attached>>
probesVars == <<cfg, targetVars, kernelVars, linkVars>>

NoState == [root_ip |-> Zero]

TraceState == [root_ip : Functions,
               last_ip : Functions \cup {Zero}, last_bp : Addresses,
               root_depth : Nat, event_count : Nat, sample_denominator : Nat]

\* A frame remembers when its entry probe last fired (0: never) and in which
\* incarnation of the stack.
Frame == [fn : Functions \cup {Unprobed}, start : Nat, at : Nat]

StatNames == {"wanted_roots", "admitted_roots", "sampled_out_roots", "emitted_events",
              "dropped_events", "aborted_roots", "state_insert_failures"}

Tracked == {g \in Goroutines : state[g] # NoState}

Count(st, names) == [n \in StatNames |-> IF n \in names THEN st[n] + 1 ELSE st[n]]

ProbesInit ==
    /\ cfg \in Configs
    /\ frames = [g \in Goroutines |-> <<>>]
    /\ moves = [g \in Goroutines |-> 0]
    /\ fresh = {}
    /\ alive = Goroutines
    /\ faults = 0
    /\ clock = [g \in Goroutines |-> 0]
    /\ indirect = {} /\ unreturned = {} /\ stray = {}
    /\ state = [g \in Goroutines |-> NoState]
    /\ denominator = 1
    /\ queue = <<>>
    /\ stats = [n \in StatNames |-> 0]
    /\ since = [g \in Goroutines |-> 0]
    /\ phase = "attaching"
    /\ attached = {}

-----------------------------------------------------------------------------
(* The programs.  They see the goroutine g, the probed function fn and, at  *)
(* an entry, the base pointers of the new frame and of its caller.          *)

\* Mutant: the bound of the queue is ignored.
PushEventUnbounded(e, counted) ==
    /\ queue' = Append(queue, e)
    /\ stats' = Count(stats, counted \cup {"emitted_events"})

\* push_event: BPF_ANY refuses a new element when the queue is full.
PushEvent(e, counted) ==
    IF Len(queue) < QueueCap
      THEN /\ queue' = Append(queue, e)
           /\ stats' = Count(stats, counted \cup {"emitted_events"})
      ELSE /\ queue' = queue
           /\ stats' = Count(stats, counted \cup {"dropped_events"})

DeleteState(g) ==
    /\ state' = [state EXCEPT ![g] = NoState]
    /\ since' = [since EXCEPT ![g] = 0]

\* ent, no trace of this goroutine and not a function that may start one.
EntIgnored(g, fn) ==
    /\ state[g] = NoState
    /\ fn \notin Wanted
    /\ UNCHANGED kernelVars

\* ent, should_sample says no: possible whenever the denominator is above 1.
EntSampledOut(g, fn) ==
    /\ state[g] = NoState
    /\ fn \in Wanted
    /\ denominator > 1
    /\ stats' = Count(stats, {"wanted_roots", "sampled_out_roots"})
    /\ UNCHANGED <<state, denominator, queue, since>>

\* Mutant: a failed insertion is not counted.
EntInsertFailedSilently(g, fn) ==
    /\ state[g] = NoState
    /\ fn \in Wanted
    /\ "insert" \in Disturbances \/ Cardinality(Tracked) >= MaxTracked
    /\ stats' = Count(stats, {"wanted_roots"})
    /\ UNCHANGED <<state, denominator, queue, since>>

\* ent, sampled but the update of should_trace_goid fails: the map is full, or
\* the kernel could not lock its bucket or allocate.
EntInsertFailed(g, fn) ==
    /\ state[g] = NoState
    /\ fn \in Wanted
    /\ "insert" \in Disturbances \/ Cardinality(Tracked) >= MaxTracked
    /\ stats' = Count(stats, {"wanted_roots", "state_insert_failures"})
    /\ UNCHANGED <<state, denominator, queue, since>>

\* ent, a new root call is admitted with the denominator of this moment.
EntAdmitted(g, fn, bp, caller_bp) ==
    /\ state[g] = NoState
    /\ fn \in Wanted
    /\ Cardinality(Tracked) < MaxTracked
    /\ state' = [state EXCEPT ![g] =
                   [root_ip |-> fn, last_ip |-> fn, last_bp |-> bp, root_depth |-> 1,
                    event_count |-> 1, sample_denominator |-> denominator]]
    /\ since' = [since EXCEPT ![g] = clock'[g]]
    /\ PushEvent([goid |-> g, location |-> ENT, ip |-> fn, bp |-> bp, caller_bp |-> caller_bp,
                  flag |-> IF Adaptive THEN START ELSE NoFlag,
                  sample_denominator |-> denominator, time |-> clock'[g]],
                 {"wanted_roots", "admitted_roots"})
    /\ UNCHANGED denominator

\* Mutant: restarted entries are not recognised.
DuplicateNever(s, fn, caller_bp) == FALSE

\* A second hit of the entry just seen whose caller is not that entry's frame:
\* the function was restarted after its stack was moved.
Duplicate(s, fn, caller_bp) == s.last_ip = fn /\ s.last_bp # caller_bp

OverLimit(s) == Adaptive /\ s.event_count + 1 > MaxSampleEvents

\* ent within an admitted root call.
EntNested(g, fn, bp, caller_bp) ==
    /\ state[g] # NoState
    /\ LET s == state[g]
           deeper == Adaptive /\ fn \in Wanted /\ s.root_ip = fn
                       /\ ~Duplicate(s, fn, caller_bp)
       IN  /\ PushEvent([goid |-> g, location |-> ENT, ip |-> fn, bp |-> bp,
                         caller_bp |-> caller_bp,
                         flag |-> IF OverLimit(s) THEN ABORT ELSE NoFlag,
                         sample_denominator |-> s.sample_denominator, time |-> clock'[g]],
                        IF OverLimit(s) THEN {"aborted_roots"} ELSE {})
           /\ IF OverLimit(s)
                THEN DeleteState(g)
                ELSE /\ state' = [state EXCEPT ![g] =
                           [s EXCEPT !.event_count = @ + 1,
                                     !.root_depth = IF deeper THEN @ + 1 ELSE @,
                                     !.last_ip = fn, !.last_bp = bp]]
                     /\ UNCHANGED since
    /\ UNCHANGED denominator

Ent(g, fn, bp, caller_bp) ==
    \/ EntIgnored(g, fn)
    \/ EntSampledOut(g, fn)
    \/ EntInsertFailed(g, fn)
    \/ EntAdmitted(g, fn, bp, caller_bp)
    \/ EntNested(g, fn, bp, caller_bp)

RetIgnored(g) == state[g] = NoState /\ UNCHANGED kernelVars

\* ret within an admitted root call: the state goes away with the outermost
\* return of the root function (END) or past the event limit (ABORT), whether
\* or not the event found room in the queue.
RetTraced(g, fn) ==
    /\ state[g] # NoState
    /\ LET s == state[g]
           rootRet == Adaptive /\ ~OverLimit(s) /\ fn \in Wanted /\ fn = s.root_ip
           ends == rootRet /\ ~(s.root_depth > 1)
       IN  /\ PushEvent([goid |-> g, location |-> RET, ip |-> fn,
                         bp |-> Zero, caller_bp |-> Zero,
                         flag |-> IF OverLimit(s) THEN ABORT ELSE IF ends THEN END ELSE NoFlag,
                         sample_denominator |-> s.sample_denominator, time |-> clock'[g]],
                        IF OverLimit(s) THEN {"aborted_roots"} ELSE {})
           /\ IF OverLimit(s) \/ ends
                THEN DeleteState(g)
                ELSE /\ state' = [state EXCEPT ![g] =
                           [s EXCEPT !.event_count = @ + 1, !.last_ip = Zero,
                                     !.root_depth = IF rootRet THEN @ - 1 ELSE @]]
                     /\ UNCHANGED since
    /\ UNCHANGED denominator

Ret(g, fn) == RetIgnored(g) \/ RetTraced(g, fn)

GoroutineExitIgnored(g) == state[g] = NoState /\ UNCHANGED kernelVars

\* Mutant: the state of an exiting goroutine stays in should_trace_goid.
GoroutineExitLeaks(g) ==
    /\ state[g] # NoState
    /\ PushEvent([goid |-> g, location |-> EXIT, ip |-> Zero, bp |-> Zero, caller_bp |-> Zero,
                  flag |-> NoFlag, sample_denominator |-> 0, time |-> 0], {})
    /\ UNCHANGED <<state, since, denominator>>

GoroutineExitTraced(g) ==
    /\ state[g] # NoState
    /\ DeleteState(g)
    /\ PushEvent([goid |-> g, location |-> EXIT, ip |-> Zero, bp |-> Zero, caller_bp |-> Zero,
                  flag |-> NoFlag, sample_denominator |-> 0, time |-> 0], {})
    /\ UNCHANGED denominator

GoroutineExit(g) == GoroutineExitIgnored(g) \/ GoroutineExitTraced(g)

-----------------------------------------------------------------------------
(* The traced goroutines. *)

Top(g) == frames[g][Len(frames[g])]

\* History: goroutines whose sample has seen a recursive call of its root that
\* did not come from a probed frame in the place where its entry was seen.
IndirectNext(g, fn) ==
    CASE state[g] = NoState -> indirect \ {g}
      [] state[g] # NoState /\ fn = state[g].root_ip /\ frames[g] # <<>>
           /\ (Top(g).start = 0 \/ Top(g).at # moves[g]) -> indirect \cup {g}
      [] OTHER -> indirect

\* One probe hit of g.
Fire(g) ==
    /\ clock[g] < MaxFires
    /\ clock' = [clock EXCEPT ![g] = @ + 1]

\* History: the frames of g whose entry is part of the open sample.
Recorded(g) ==
    {i \in 1 .. Len(frames[g]) : since[g] # 0 /\ frames[g][i].start >= since[g]}

\* History: the frames of g above this depth go away without a probe hit.
Missed(g, depth) ==
    unreturned' = IF \E i \in Recorded(g) : i > depth THEN unreturned \cup {g} ELSE unreturned

Call(g, fn) ==
    /\ g \in alive
    /\ Len(frames[g]) < MaxDepth
    /\ <<ENT, fn>> \in attached
    /\ Fire(g)
    /\ frames' = [frames EXCEPT ![g] = Append(@, [fn |-> fn, start |-> clock[g] + 1, at |-> moves[g]])]
    /\ indirect' = IndirectNext(g, fn)
    /\ fresh' = fresh \cup {g}
    /\ Ent(g, fn, <<moves[g], Len(frames[g]) + 1>>, <<moves[g], Len(frames[g])>>)
    /\ UNCHANGED <<moves, alive, faults, unreturned, stray>>

\* A call without an entry probe, or before it is attached.  The stack may move:
\* grown in the prologue, or shrunk by the garbage collector later.
CallUnprobed(g, fn, moved) ==
    /\ g \in alive
    /\ <<ENT, fn>> \notin attached
    /\ Len(frames[g]) < MaxDepth
    /\ moves[g] + moved <= MaxMoves
    /\ moves' = [moves EXCEPT ![g] = @ + moved]
    /\ frames' = [frames EXCEPT ![g] = Append(@, [fn |-> fn, start |-> 0, at |-> 0])]
    /\ fresh' = IF fn \in Functions THEN fresh \cup {g} ELSE fresh \ {g}
    /\ UNCHANGED <<alive, faults, clock, indirect, unreturned, stray, kernelVars>>

\* morestack in the prologue, with or without a move: the entry runs again.
Restart(g, moved) ==
    /\ "restart" \in Disturbances
    /\ g \in fresh
    /\ <<ENT, Top(g).fn>> \in attached
    /\ moves[g] + moved <= MaxMoves
    /\ Fire(g)
    /\ moves' = [moves EXCEPT ![g] = @ + moved]
    /\ frames' = [frames EXCEPT ![g][Len(frames[g])].start = clock[g] + 1,
                                ![g][Len(frames[g])].at = moves[g] + moved]
    /\ indirect' = IF state[g] = NoState THEN indirect \ {g} ELSE indirect
    /\ Ent(g, Top(g).fn, <<moves[g] + moved, Len(frames[g])>>,
                         <<moves[g] + moved, Len(frames[g]) - 1>>)
    /\ UNCHANGED <<fresh, alive, faults, unreturned, stray>>

PopTo(g, depth) == frames' = [frames EXCEPT ![g] = SubSeq(@, 1, depth)]

Return(g) ==
    /\ g \in alive
    /\ frames[g] # <<>>
    /\ <<RET, Top(g).fn>> \in attached
    /\ Fire(g)
    /\ PopTo(g, Len(frames[g]) - 1)
    /\ fresh' = fresh \ {g}
    /\ stray' = IF state[g] # NoState /\ Len(frames[g]) \notin Recorded(g)
                  THEN stray \cup {g} ELSE stray
    /\ Ret(g, Top(g).fn)
    /\ UNCHANGED <<moves, alive, faults, indirect, unreturned>>

\* A return without a RET probe, or while it is not attached.
ReturnUnprobed(g) ==
    /\ g \in alive
    /\ frames[g] # <<>>
    /\ <<RET, Top(g).fn>> \notin attached
    /\ PopTo(g, Len(frames[g]) - 1)
    /\ fresh' = fresh \ {g}
    /\ Missed(g, Len(frames[g]) - 1)
    /\ UNCHANGED <<moves, alive, faults, clock, indirect, stray, kernelVars>>

\* A panic is recovered by a deferred call of the frame at this depth: the
\* frames above it are gone without executing a RET.  Outside of a sample that is
\* the same to the programs as their returns, so only samples are disturbed.
Unwind(g, depth) ==
    /\ g \in alive \cap Tracked
    /\ depth < Len(frames[g])
    /\ faults < MaxFaults
    /\ faults' = faults + 1
    /\ PopTo(g, depth)
    /\ fresh' = fresh \ {g}
    /\ Missed(g, depth)
    /\ UNCHANGED <<moves, alive, clock, indirect, stray, kernelVars>>

\* runtime.goexit1, reached from the goroutine's first function or, with frames
\* still on the stack, from runtime.Goexit.
Exit(g) ==
    /\ g \in alive
    /\ alive' = alive \ {g}
    /\ fresh' = fresh \ {g}
    /\ IF <<EXIT, Zero>> \in attached
         THEN GoroutineExit(g) /\ UNCHANGED unreturned
         ELSE UNCHANGED kernelVars /\ Missed(g, 0)
    /\ UNCHANGED <<frames, moves, faults, clock, indirect, stray>>

\* The process ends without runtime.goexit1 (main returns, os.Exit, a signal),
\* and a later one with the same binary gets its pid and, as goids start from
\* 1, its goroutine ids.  Nothing tells the programs.  As above, only a process
\* in the middle of a sample is of interest.
Replace(p) ==
    LET gs == {g \in Goroutines : PidOf[g] = p}
    IN  /\ gs \cap Tracked # {}
        /\ faults < MaxFaults
        /\ faults' = faults + 1
        /\ frames' = [g \in Goroutines |-> IF g \in gs THEN <<>> ELSE frames[g]]
        /\ fresh' = fresh \ gs
        /\ alive' = alive \cup gs
        /\ unreturned' = unreturned \cup (gs \cap Tracked)
        /\ UNCHANGED <<moves, clock, indirect, stray, kernelVars>>

TargetStep(g) ==
    \/ \E fn \in Callable : Call(g, fn)
    \/ \E fn \in Callable, moved \in {0, 1} : CallUnprobed(g, fn, moved)
    \/ \E moved \in {0, 1} : Restart(g, moved)
    \/ \E depth \in 1 .. MaxDepth : Unwind(g, depth)
    \/ Return(g)
    \/ ReturnUnprobed(g)
    \/ Exit(g)

\* The program runs all the time; a model without the last two disturbances
\* looks at calls that find every probe attached.
Running ==
    \/ phase = "tracing"
    \/ phase = "attaching" /\ "attach" \in Disturbances
    \/ phase = "detaching" /\ "detach" \in Disturbances

-----------------------------------------------------------------------------
(* Userspace, as the programs see it (internal/bpf/bpf.go). *)

\* Before Attach, then once a second.
SetSampleDenominator(d) ==
    /\ Adaptive
    /\ phase = "tracing" \/ (phase = "attaching" /\ attached = {})
    /\ denominator' = d
    /\ UNCHANGED <<targetVars, state, queue, stats, since, linkVars>>

\* One round of Attach.
Attach ==
    /\ phase = "attaching"
    /\ attached' = attached \cup {Uprobes[Cardinality(attached) + 1]}
    /\ phase' = IF attached' = Points THEN "tracing" ELSE "attaching"
    /\ UNCHANGED <<targetVars, kernelVars>>

\* SIGINT, taken by the loop of Tracer.Start, which calls StopTracing.  Where no
\* call is made meanwhile, that is a single step.
Interrupt ==
    /\ phase = "tracing"
    /\ IF "detach" \in Disturbances
         THEN phase' = "detaching" /\ UNCHANGED attached
         ELSE phase' = "draining" /\ attached' = {}
    /\ UNCHANGED <<targetVars, kernelVars>>

\* StopTracing closes the links concurrently, so in any order.
CloseLink ==
    /\ phase = "detaching"
    /\ \E p \in attached : attached' = attached \ {p}
    /\ phase' = IF attached' = {} THEN "draining" ELSE "detaching"
    /\ UNCHANGED <<targetVars, kernelVars>>

\* EventQueue.LookupAndDelete of PollEvents.
Dequeue ==
    /\ queue # <<>>
    /\ queue' = Tail(queue)
    /\ UNCHANGED <<targetVars, state, denominator, stats, since, linkVars>>

TargetNext ==
    /\ Running
    /\ (\E g \in Goroutines : TargetStep(g)) \/ (\E p \in Pids : Replace(p))
    /\ UNCHANGED linkVars

\* The programs alone, without a poller: what is in the queue is nothing to them,
\* but for a full one, and here it fills at once.
ProbesNext ==
    /\ \/ TargetNext
       \/ \E d \in Denominators : SetSampleDenominator(d)
       \/ Attach
       \/ Interrupt
       \/ CloseLink
    /\ UNCHANGED cfg

ProbesSpec == ProbesInit /\ [][ProbesNext]_probesVars

-----------------------------------------------------------------------------
(* Properties *)

\* The shapes of the BPF maps, the queue within its max_entries.
ProbesTypeOK ==
    /\ frames \in [Goroutines -> Seq(Frame)]
    /\ moves \in [Goroutines -> Nat]
    /\ fresh \subseteq alive /\ alive \subseteq Goroutines
    /\ clock \in [Goroutines -> Nat]
    /\ indirect \subseteq Goroutines
    /\ unreturned \subseteq Goroutines /\ stray \subseteq Goroutines
    /\ faults \in Nat /\ attached \subseteq Points
    /\ phase \in {"attaching", "tracing", "detaching", "draining", "done"}
    /\ state \in [Goroutines -> TraceState \cup {NoState}]
    /\ denominator \in Nat \ {0}
    /\ queue \in Seq(Event) /\ Len(queue) <= QueueCap
    /\ stats \in [StatNames -> Nat]
    /\ since \in [Goroutines -> Nat]

\* Frames of the root function in the open sample.
RootFrames(g) == {i \in Recorded(g) : frames[g][i].fn = state[g].root_ip}

\* ftrace.c: "root_depth keeps recursive calls of that same wanted function from
\* ending the sample prematurely": the depth never exceeds the activations of the
\* root function on the goroutine's stack, and is exact, entries that the runtime
\* restarted included once, while every recursive one was called directly from a
\* probed function.  A missed return spoils the count.
RootDepthExact ==
    Adaptive =>
        \A g \in (Tracked \cap alive) \ (unreturned \cup stray) :
            /\ state[g].root_depth <= Cardinality(RootFrames(g))
            /\ g \notin indirect => state[g].root_depth = Cardinality(RootFrames(g))

\* The same promise as a step: while the goroutine lives, its sample is only
\* given up by the return of the admitted root frame or at the event limit.
SampleEndsWithRoot ==
    [][\A g \in alive' :
          (Adaptive /\ state[g] # NoState /\ state'[g] = NoState) =>
             \/ \A i \in 1 .. Len(frames'[g]) : frames'[g][i].start < since[g]
             \/ state[g].event_count >= MaxSampleEvents]_probesVars

\* AdaptiveSampling.md 2: a goroutine that exits leaves should_trace_goid, and
\* with --sample so does a goroutine whose admitted root call is over.  What a
\* dead process or an unwound call leaves behind stays, and so does, without
\* --sample, what exits after StopTracing closed the link of runtime.goexit1.
StateReleased ==
    \A g \in Tracked \ (unreturned \cup stray) :
        /\ g \in alive \/ (~Adaptive /\ <<EXIT, Zero>> \notin attached)
        /\ Adaptive => RootFrames(g) # {}

\* print.go prints detected, collected, skipped and insert failures: every
\* detected root call is in exactly one of the other columns.
RootsAccounted ==
    stats["wanted_roots"] =
        stats["admitted_roots"] + stats["sampled_out_roots"] + stats["state_insert_failures"]
=============================================================================
