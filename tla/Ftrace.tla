------------------------------- MODULE Ftrace -------------------------------
(***************************************************************************)
(* go-ftrace end to end: goroutines fire the BPF programs (Probes), the    *)
(* event loop of Tracer.Start takes events out of the queue one by one and *)
(* hands them to the manager (EventManager), and an interrupt detaches the *)
(* probes, drains the queue and prints what remains.  How the poller and   *)
(* the loop cooperate in that is the subject of Polling.                   *)
(*                                                                         *)
(* History variables follow the traced calls themselves, so that what the  *)
(* tool reports can be compared with what the program did.  A sample is    *)
(* what lies between an outermost recorded call and its return.            *)
(***************************************************************************)
EXTENDS Probes, EventManager

VARIABLES
    admittedAt,  \* history: the denominator at the last admission
    inSample,    \* history: calls of the open sample that have returned
    completed    \* history: calls of all samples whose outermost call returned

historyVars == <<admittedAt, inSample, completed>>
vars == <<probesVars, managerVars, historyVars>>

Init ==
    /\ ProbesInit
    /\ ManagerInit
    /\ admittedAt = [g \in Goroutines |-> 0]
    /\ inSample = [g \in Goroutines |-> {}]
    /\ completed = {}

-----------------------------------------------------------------------------
(* How the history follows a step of goroutine g. *)

AdmittedAtNext(g) ==
    IF state[g] = NoState /\ state'[g] # NoState THEN denominator ELSE admittedAt[g]

\* The call that just returned, if its entry and its return were both recorded.
CallNext(g) ==
    IF clock'[g] # clock[g] /\ Len(frames[g]) \in Recorded(g) \ (1 .. Len(frames'[g]))
      THEN {[goid |-> g, fn |-> Top(g).fn, start |-> Top(g).start, end |-> clock'[g],
             weight |-> admittedAt[g]]}
      ELSE {}

SampleCompletes(g) == CallNext(g) # {} /\ Recorded(g) = {Len(frames[g])}

\* The sample is given up: past the event limit, or with its goroutine.
SampleAborts(g) ==
    state[g] # NoState /\ state'[g] = NoState
        /\ (state[g].event_count >= MaxSampleEvents \/ g \notin alive')

Follow(g) ==
    /\ admittedAt' = [admittedAt EXCEPT ![g] = AdmittedAtNext(g)]
    /\ inSample' = [inSample EXCEPT ![g] =
                      IF SampleAborts(g) \/ SampleCompletes(g) THEN {} ELSE @ \cup CallNext(g)]
    /\ completed' = IF SampleCompletes(g) /\ ~SampleAborts(g)
                      THEN completed \cup inSample[g] \cup CallNext(g)
                      ELSE completed

-----------------------------------------------------------------------------
RunGoroutine(g) ==
    /\ Running
    /\ TargetStep(g)
    /\ Follow(g)
    /\ UNCHANGED <<managerVars, linkVars>>

\* Nothing of the samples of the old process will complete.
ReplaceProcess(p) ==
    /\ Running
    /\ Replace(p)
    /\ inSample' = [g \in Goroutines |-> IF PidOf[g] = p THEN {} ELSE inSample[g]]
    /\ UNCHANGED <<managerVars, linkVars, admittedAt, completed>>

\* Steps of the tracer other than handling events.
Control ==
    /\ (\E d \in Denominators : SetSampleDenominator(d)) \/ Attach \/ Interrupt \/ CloseLink
    /\ UNCHANGED <<managerVars, historyVars>>

\* One event travels from the queue to the manager.  The loop starts after Attach
\* and does not receive while StopTracing runs.
Deliver ==
    /\ phase \in {"tracing", "draining"}
    /\ Dequeue
    /\ Handle(Head(queue))
    /\ UNCHANGED historyVars

\* Mutant: the loop waits until no sample is open.
FinishWaitsForSamples ==
    /\ phase = "draining"
    /\ queue = <<>>
    /\ Unfinished = {}
    /\ PrintRemaining
    /\ phase' = "done"
    /\ UNCHANGED <<targetVars, kernelVars, attached, historyVars>>

\* The poller found the queue empty and closed the channel.
Finish ==
    /\ phase = "draining"
    /\ queue = <<>>
    /\ PrintRemaining
    /\ phase' = "done"
    /\ UNCHANGED <<targetVars, kernelVars, attached, historyVars>>

Next ==
    /\ \/ \E g \in Goroutines : RunGoroutine(g)
       \/ \E p \in Pids : ReplaceProcess(p)
       \/ Control
       \/ Deliver
       \/ Finish
    /\ UNCHANGED cfg

\* The event loop, the poller and StopTracing keep running; nothing obliges the
\* traced program to take a step or the user to press Ctrl-C.
Fairness ==
    /\ WF_vars(Deliver /\ UNCHANGED cfg)
    /\ WF_vars(Finish /\ UNCHANGED cfg)
    /\ WF_vars(CloseLink /\ UNCHANGED <<cfg, managerVars, historyVars>>)

Spec == Init /\ [][Next]_vars /\ Fairness

-----------------------------------------------------------------------------
(* Properties *)

\* All calls that the tool reports: aggregated for some process, or printed.
Reported == ToSet(printed) \cup UNION {ToSet(agg[p]) : p \in Pids}

\* The composed state: the maps of ftrace.c and of the manager keep their shapes.
TypeOK ==
    /\ ProbesTypeOK
    /\ ManagerTypeOK

\* Every call finds its probes attached.  Where it does not, a call between two
\* activations of one function goes unseen, the next entry is then taken for a
\* restart or its return for that of the outer one, and what is reported is not
\* what was called: see AggregatedAreComplete and SampleEndsWithRoot.
EveryCallProbed == Callable \subseteq Functions /\ Disturbances \cap {"attach", "detach"} = {}

\* print.go "Only complete root calls are valid samples": unless the queue lost an
\* event, whatever is reported is a call of the program, with its function, its two
\* times and the denominator in force when its root was admitted, and its root has
\* returned.  The print mode also shows the finished calls of open samples, at
\* exit, and does not check that an entry and a return belong together.  Left out
\* are goroutines with both a missed return and a stray one, which may balance.
ReportedAreRealCalls ==
    LET blurred == IF Aggregate THEN unreturned \cap stray ELSE unreturned \cup stray
    IN  (EveryCallProbed /\ stats["dropped_events"] = 0) =>
            {c \in Reported : c.goid \notin blurred} \subseteq
                completed \cup (IF phase = "done" /\ ~Aggregate
                                  THEN UNION {inSample[g] : g \in Goroutines} ELSE {})

\* print.go: "Incomplete stacks can be caused by queue overwrite or shutdown and must
\* not bias aggregation": the same without leaving out lost events or missed probes.
AggregatedAreComplete == Aggregate => Reported \subseteq completed

\* No event was lost and no memory bound was reached.
Undisturbed ==
    /\ stats["dropped_events"] = 0
    /\ discarded["overBudget"] = 0
    /\ evictedPIDs = 0

\* The other direction: unless the tool says it ran out of room, every call of
\* a completed sample is reported once its events have been handled, and none
\* of these samples is mistaken for an incomplete one.
CompletedAreReported ==
    (EveryCallProbed /\ Undisturbed /\ queue = <<>>) =>
        {c \in completed : c.goid \notin unreturned} \subseteq Reported

\* Whatever the queue lost, no entry and no return of the program is counted in
\* two reported calls, no latency is negative, and no call is aggregated for
\* another process than its own.
NothingCountedTwice ==
    \A p \in Pids :
        LET reports == agg[p] \o printed
        IN  /\ \A i \in 1 .. Len(agg[p]) : PidOf[agg[p][i].goid] = p
            /\ \A i, j \in 1 .. Len(reports) :
                  /\ reports[i].start < reports[i].end
                  /\ (reports[i].goid = reports[j].goid
                        /\ (reports[i].start = reports[j].start
                              \/ reports[i].end = reports[j].end)) => i = j

\* tracer.go: "drain all events already in the queue before ... printing the
\* summary": after an interrupt every queued event is handled and the summary
\* is printed; there is no event that the manager cannot handle.
InterruptCompletes == (phase \in {"detaching", "draining"}) ~> (phase = "done" /\ queue = <<>>)
=============================================================================
