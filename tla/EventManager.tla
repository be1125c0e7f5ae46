---------------------------- MODULE EventManager ----------------------------
(***************************************************************************)
(* The event manager of internal/eventmanager: Handle (handler.go), the    *)
(* per-process state with its LRU eviction (eventmanager.go) and the final *)
(* PrintRemaining (print.go).  It runs on one goroutine, so handling an    *)
(* event is one step.                                                      *)
(*                                                                         *)
(* goEvents, goEventStack and invalid are kept per goroutine; deleting a   *)
(* map entry is resetting it.  The process of a goroutine is PidOf[g]; the *)
(* known processes are a sequence in order of lastSeen, oldest first, so   *)
(* the counter seq itself is not needed.  The result of a closed stack is  *)
(* the sequence of (entry, return) pairs that were aggregated or printed;  *)
(* their statistics are the subject of FuncAgg.  Every event comes from an *)
(* attached probe, so GetUprobe always finds it.                           *)
(***************************************************************************)
EXTENDS TraceEvents, SequencesExt

CONSTANTS
    Drilldown,       \* --drilldown: the function to print, or Zero for all
    MaxPending,      \* maxPendingEvents: memoryLimit / 4 / 2048, at least 1
    MaxPids,         \* maxAggregatePIDs: 64
    MaxSuppressed    \* maxAggregateSuppressed: 10000

ASSUME ManagerAssumption ==
    /\ MaxPending \in Nat \ {0}
    /\ MaxPids \in Nat \ {0}
    /\ MaxSuppressed \in Nat \ {0}

\* What is retained: entries and returns.
CallEvent == {e \in Event : e.location # EXIT}

VARIABLES
    pids,           \* keys of EventManager.pids by increasing lastSeen
    goEvents,       \* pidState.goEvents
    goEventStack,   \* pidState.goEventStack
    invalid,        \* pidState.invalid
    suppressed,     \* EventManager.suppressed
    pendingEvents,  \* EventManager.pendingEvents
    discarded,      \* droppedIncomplete, droppedAborted, droppedOverBudget
    evictedPIDs,    \* EventManager.evictedPIDs
    agg,            \* pidState.agg: the calls aggregated for each process
    printed         \* what PrintStack wrote: (entry, return) pairs

stackVars == <<goEvents, goEventStack, invalid, pendingEvents>>
managerVars == <<stackVars, pids, suppressed, discarded, evictedPIDs, agg, printed>>

\* A call as the output shows it: its latency is end - start.
PairedCall == [goid : Goroutines, fn : Functions, start : Nat, end : Nat, weight : Nat]

\* droppedStacks is their sum: it is incremented together with each of them.
Reasons == {"incomplete", "aborted", "overBudget"}

Discard(d, reason) == [d EXCEPT ![reason] = @ + 1]

\* Unsigned subtraction as dropStack and pidState do it.
Release(pending, n) == IF n >= pending THEN 0 ELSE pending - n

ManagerInit ==
    /\ pids = <<>>
    /\ goEvents = [g \in Goroutines |-> <<>>]
    /\ goEventStack = [g \in Goroutines |-> <<>>]
    /\ invalid = {}
    /\ suppressed = {}
    /\ pendingEvents = 0
    /\ discarded = [r \in Reasons |-> 0]
    /\ evictedPIDs = 0
    /\ agg = [p \in Pids |-> <<>>]
    /\ printed = <<>>

-----------------------------------------------------------------------------
(* Pairing entries with returns. *)

LIFO(open) == open[Len(open)]
Drop(open) == SubSeq(open, 1, Len(open) - 1)

Pair(entry, ret) ==
    [goid |-> ret.goid, fn |-> ret.ip, start |-> entry.time, end |-> ret.time,
     weight |-> entry.sample_denominator]

\* Mutant: a paired entry stays open.
AggregateStepKeepsOpen(acc, e) ==
    CASE ~acc.ok -> acc
      [] acc.ok /\ e.location = ENT -> [acc EXCEPT !.open = Append(@, e)]
      [] acc.ok /\ e.location # ENT /\ (acc.open = <<>> \/ LIFO(acc.open).ip # e.ip)
           -> [acc EXCEPT !.ok = FALSE]
      [] OTHER -> [acc EXCEPT !.pairs = Append(@, Pair(LIFO(acc.open), e))]

\* AggregateStack: pair returns with the innermost open entry, give up on the
\* first return that does not belong to it.
AggregateStep(acc, e) ==
    CASE ~acc.ok -> acc
      [] acc.ok /\ e.location = ENT -> [acc EXCEPT !.open = Append(@, e)]
      [] acc.ok /\ e.location # ENT /\ (acc.open = <<>> \/ LIFO(acc.open).ip # e.ip)
           -> [acc EXCEPT !.ok = FALSE]
      [] OTHER -> [acc EXCEPT !.open = Drop(@), !.pairs = Append(@, Pair(LIFO(acc.open), e))]

AggregateStack(events) ==
    LET after[n \in 0 .. Len(events)] ==
            IF n = 0 THEN [open |-> <<>>, ok |-> TRUE, pairs |-> <<>>]
                     ELSE AggregateStep(after[n - 1], events[n])
    IN  after[Len(events)]

\* PrintStack pairs in the same order but checks nothing.
PrintStep(acc, e) ==
    CASE e.location = ENT -> [acc EXCEPT !.open = Append(@, e)]
      [] e.location # ENT /\ acc.open = <<>> -> acc
      [] OTHER -> [acc EXCEPT !.open = Drop(@), !.pairs = Append(@, Pair(LIFO(acc.open), e))]

PrintStack(events) ==
    LET after[n \in 0 .. Len(events)] ==
            IF n = 0 THEN [open |-> <<>>, pairs |-> <<>>]
                     ELSE PrintStep(after[n - 1], events[n])
    IN  after[Len(events)]

-----------------------------------------------------------------------------
(* pidState: touch a process, creating it and evicting the oldest. *)

Known == ToSet(pids)

\* Mutant: one process too many.
EvictedOffByOne(pid) ==
    IF pid \notin Known /\ Adaptive /\ Len(pids) > MaxPids THEN {Head(pids)} ELSE {}

\* The process that looking up pid throws out, if any.
Evicted(pid) ==
    IF pid \notin Known /\ Adaptive /\ Len(pids) >= MaxPids THEN {Head(pids)} ELSE {}

EvictedGoroutines(pid) == {h \in Goroutines : PidOf[h] \in Evicted(pid)}

\* Positions of the events retained for a set of goroutines.
Retained(gs) == UNION {{h} \X (1 .. Len(goEvents[h])) : h \in gs}

\* pids without pid, or without the oldest process that makes room for it.
Others(pid) ==
    CASE pid \in Known -> RemoveAt(pids, CHOOSE i \in DOMAIN pids : pids[i] = pid)
      [] pid \notin Known /\ Evicted(pid) # {} -> Tail(pids)
      [] OTHER -> pids

TouchPid(pid) ==
    /\ pids' = Append(Others(pid), pid)
    /\ evictedPIDs' = evictedPIDs + Cardinality(Evicted(pid))

\* What pendingEvents becomes when pid is looked up.
PendingAfterEviction(pid, pending) ==
    Release(pending, Cardinality(Retained(EvictedGoroutines(pid))))

-----------------------------------------------------------------------------
(* Handle *)

\* Mutant: the budget of the dropped events is not given back.
DropStackLeaks(g) ==
    /\ goEvents' = [goEvents EXCEPT ![g] = <<>>]
    /\ goEventStack' = [goEventStack EXCEPT ![g] = <<>>]
    /\ invalid' = invalid \ {g}
    /\ UNCHANGED pendingEvents

\* dropStack of g.
DropStack(g) ==
    /\ goEvents' = [goEvents EXCEPT ![g] = <<>>]
    /\ goEventStack' = [goEventStack EXCEPT ![g] = <<>>]
    /\ invalid' = invalid \ {g}
    /\ pendingEvents' = IF Adaptive THEN Release(pendingEvents, Len(goEvents[g]))
                                    ELSE pendingEvents

HandleExit(e) ==
    /\ e.location = EXIT
    /\ suppressed' = suppressed \ {e.goid}
    /\ DropStack(e.goid)
    /\ UNCHANGED <<pids, discarded, evictedPIDs, agg, printed>>

HandleAbort(e) ==
    /\ e.location # EXIT
    /\ Adaptive /\ e.flag = ABORT
    /\ suppressed' = suppressed \ {e.goid}
    /\ DropStack(e.goid)
    /\ discarded' = Discard(discarded, "aborted")
    /\ UNCHANGED <<pids, evictedPIDs, agg, printed>>

Ordinary(e) == e.location # EXIT /\ ~(Adaptive /\ e.flag = ABORT)

\* resetStaleSample: a START finds events of an unfinished sample and drops
\* them.  The values below are those after it.
Stale(e) == Adaptive /\ e.flag = START /\ goEvents[e.goid] # <<>>
EventsNow(e) == IF Stale(e) THEN <<>> ELSE goEvents[e.goid]
StackNow(e) == IF Stale(e) THEN <<>> ELSE goEventStack[e.goid]
InvalidNow(e) == IF Stale(e) THEN invalid \ {e.goid} ELSE invalid
PendingNow(e) ==
    IF Stale(e) THEN Release(pendingEvents, Len(goEvents[e.goid])) ELSE pendingEvents
DiscardedNow(e) == IF Stale(e) THEN Discard(discarded, "incomplete") ELSE discarded

\* The rest of a sample whose beginning was dropped for the budget.
IsSuppressed(e) == Adaptive /\ e.goid \in suppressed /\ e.flag # START

Suppressed(e) ==
    /\ Ordinary(e)
    /\ IsSuppressed(e)
    /\ suppressed' = IF e.flag = END THEN suppressed \ {e.goid} ELSE suppressed
    /\ UNCHANGED <<stackVars, pids, discarded, evictedPIDs, agg, printed>>

\* Mutant: a START does not lift the suppression.
SuppressedNowKept(e) == suppressed

\* Add goes on after the suppression check; a START has lifted it.
Admissible(e) == Ordinary(e) /\ ~IsSuppressed(e)
SuppressedNow(e) == IF Adaptive THEN suppressed \ {e.goid} ELSE suppressed

OverBudgetNow(e) == Adaptive /\ PendingNow(e) >= MaxPending

OverBudget(e) ==
    /\ Admissible(e)
    /\ OverBudgetNow(e)
    /\ DropStack(e.goid)
    /\ suppressed' =
         IF e.flag = END
           THEN SuppressedNow(e)
           ELSE (IF Cardinality(SuppressedNow(e)) >= MaxSuppressed
                   THEN {} ELSE SuppressedNow(e)) \cup {e.goid}
    /\ discarded' = Discard(DiscardedNow(e), "overBudget")
    /\ UNCHANGED <<pids, evictedPIDs, agg, printed>>

\* From here on Add has looked up the process of the event.  events, stack and
\* bad are the new values for the event's goroutine.
Store(e, events, stack, bad, pending) ==
    LET gone == EvictedGoroutines(PidOf[e.goid])
    IN  /\ TouchPid(PidOf[e.goid])
        /\ goEvents' = [h \in Goroutines |-> IF h = e.goid THEN events
                                             ELSE IF h \in gone THEN <<>> ELSE goEvents[h]]
        /\ goEventStack' = [h \in Goroutines |-> IF h = e.goid THEN stack
                                             ELSE IF h \in gone THEN <<>> ELSE goEventStack[h]]
        /\ invalid' = ((InvalidNow(e) \ {e.goid}) \ gone) \cup bad
        /\ suppressed' = SuppressedNow(e) \ gone
        /\ pendingEvents' = pending

\* agg of an evicted process is lost with it.
AggKept(pid) == [p \in Pids |-> IF p \in Evicted(pid) THEN <<>> ELSE agg[p]]

Remembers(e) == Admissible(e) /\ ~OverBudgetNow(e)

\* An entry or return for which nothing is retained and that may not start
\* anything: dropped without a trace.
IsOrphan(e) ==
    /\ EventsNow(e) = <<>>
    /\ e.location # ENT \/ (Adaptive /\ e.flag # START)

Orphan(e) ==
    /\ Remembers(e)
    /\ IsOrphan(e)
    /\ Store(e, <<>>, StackNow(e), InvalidNow(e) \cap {e.goid},
             PendingAfterEviction(PidOf[e.goid], PendingNow(e)))
    /\ agg' = AggKept(PidOf[e.goid])
    /\ discarded' = DiscardedNow(e)
    /\ UNCHANGED printed

\* Mutant: restarted entries are not recognised.
IsDuplicateNever(e) == FALSE

\* A second entry of the function just entered, from another caller frame: the
\* function was restarted, the newer event replaces the older one.  Of events that
\* tell no frames none is a duplicate: two returns in a row are two returns.
IsDuplicate(e) ==
    /\ EventsNow(e) # <<>>
    /\ LET last == LIFO(EventsNow(e))
       IN  last.location = e.location /\ last.ip = e.ip /\ last.bp # e.caller_bp

\* Mutant: the older entry stays.
DuplicateEntryKeepsFirst(e) ==
    /\ Remembers(e)
    /\ IsDuplicate(e)
    /\ Store(e, EventsNow(e), StackNow(e), InvalidNow(e) \cap {e.goid},
             PendingAfterEviction(PidOf[e.goid], PendingNow(e)))
    /\ agg' = AggKept(PidOf[e.goid])
    /\ discarded' = DiscardedNow(e)
    /\ UNCHANGED printed

DuplicateEntry(e) ==
    /\ Remembers(e)
    /\ IsDuplicate(e)
    /\ Store(e, Append(Drop(EventsNow(e)), e), StackNow(e), InvalidNow(e) \cap {e.goid},
             PendingAfterEviction(PidOf[e.goid], PendingNow(e)))
    /\ agg' = AggKept(PidOf[e.goid])
    /\ discarded' = DiscardedNow(e)
    /\ UNCHANGED printed

\* Mutant: a return pops whatever is on top.
MismatchNever(e) == FALSE

\* updateObservedStack
Mismatch(e) ==
    /\ Aggregate
    /\ e.location = RET
    /\ StackNow(e) = <<>> \/ LIFO(StackNow(e)) # e.ip

ObservedStack(e) ==
    CASE e.location = ENT -> Append(StackNow(e), e.ip)
      [] e.location # ENT /\ ~Mismatch(e) /\ StackNow(e) # <<>> -> Drop(StackNow(e))
      [] OTHER -> StackNow(e)

InvalidAfter(e) == (InvalidNow(e) \cap {e.goid}) \cup (IF Mismatch(e) THEN {e.goid} ELSE {})

\* CloseStack
Closes(e) ==
    IF Aggregate /\ Adaptive THEN e.flag = END ELSE ObservedStack(e) = <<>>

Appends(e) == Remembers(e) /\ ~IsOrphan(e) /\ ~IsDuplicate(e)

Retain(e) ==
    /\ Appends(e)
    /\ ~Closes(e)
    /\ Store(e, Append(EventsNow(e), e), ObservedStack(e), InvalidAfter(e),
             PendingAfterEviction(PidOf[e.goid], PendingNow(e)) + (IF Adaptive THEN 1 ELSE 0))
    /\ agg' = AggKept(PidOf[e.goid])
    /\ discarded' = DiscardedNow(e)
    /\ UNCHANGED printed

\* The event completes the stack: it is reported and cleared.
Cleared(e) ==
    Store(e, <<>>, <<>>, {},
          IF Adaptive
            THEN Release(PendingAfterEviction(PidOf[e.goid], PendingNow(e)) + 1,
                         Len(EventsNow(e)) + 1)
            ELSE pendingEvents)

Trusted(e) == InvalidAfter(e) = {} /\ ObservedStack(e) = <<>>

CloseAggregated(e) ==
    /\ Appends(e) /\ Closes(e) /\ Aggregate /\ Trusted(e)
    /\ Cleared(e)
    /\ agg' = [AggKept(PidOf[e.goid]) EXCEPT
                 ![PidOf[e.goid]] = @ \o AggregateStack(Append(EventsNow(e), e)).pairs]
    /\ discarded' = DiscardedNow(e)
    /\ UNCHANGED printed

CloseIncomplete(e) ==
    /\ Appends(e) /\ Closes(e) /\ Aggregate /\ ~Trusted(e)
    /\ Cleared(e)
    /\ agg' = AggKept(PidOf[e.goid])
    /\ discarded' = Discard(DiscardedNow(e), "incomplete")
    /\ UNCHANGED printed

ClosePrinted(e) ==
    /\ Appends(e) /\ Closes(e) /\ ~Aggregate
    /\ Cleared(e)
    /\ agg' = AggKept(PidOf[e.goid])
    /\ discarded' = DiscardedNow(e)
    /\ printed' = IF Drilldown \in {Zero, e.ip}
                    THEN printed \o PrintStack(Append(EventsNow(e), e)).pairs
                    ELSE printed

Handle(e) ==
    \/ HandleExit(e)
    \/ HandleAbort(e)
    \/ Suppressed(e)
    \/ OverBudget(e)
    \/ Orphan(e)
    \/ DuplicateEntry(e)
    \/ Retain(e)
    \/ CloseAggregated(e)
    \/ CloseIncomplete(e)
    \/ ClosePrinted(e)

Unfinished == {g \in Goroutines : goEvents[g] # <<>>}

\* PrintRemaining, after the last event.
PrintRemaining ==
    /\ IF Aggregate
         THEN /\ discarded' = [discarded EXCEPT !["incomplete"] = @ + Cardinality(Unfinished)]
              /\ goEvents' = [g \in Goroutines |-> <<>>]
              /\ goEventStack' = [g \in Goroutines |->
                                    IF g \in Unfinished THEN <<>> ELSE goEventStack[g]]
              /\ invalid' = invalid \ Unfinished
              /\ pendingEvents' = IF Adaptive
                                    THEN Release(pendingEvents, Cardinality(Retained(Unfinished)))
                                    ELSE pendingEvents
              /\ UNCHANGED printed
         ELSE /\ printed' = printed \o FlattenSeq(
                              [i \in 1 .. Cardinality(Unfinished) |->
                                 PrintStack(goEvents[SetToSeq(Unfinished)[i]]).pairs])
              /\ UNCHANGED <<stackVars, discarded>>
    /\ UNCHANGED <<pids, suppressed, evictedPIDs, agg>>

\* The manager alone: any events in any order, whether or not the probes can send
\* them in that order, and the end at any time.
ManagerNext ==
    /\ PrintRemaining \/ \E e \in Event : Handle(e)
    /\ UNCHANGED cfg

ManagerSpec == cfg \in Configs /\ ManagerInit /\ [][ManagerNext]_<<cfg, managerVars>>

-----------------------------------------------------------------------------
(* Properties *)

\* The shapes of the manager's maps and counters.
ManagerTypeOK ==
    /\ pids \in Seq(Pids)
    /\ goEvents \in [Goroutines -> Seq(CallEvent)]
    /\ goEventStack \in [Goroutines -> Seq(Functions)]
    /\ invalid \subseteq Goroutines /\ suppressed \subseteq Goroutines
    /\ pendingEvents \in Nat /\ evictedPIDs \in Nat
    /\ discarded \in [Reasons -> Nat]
    /\ agg \in [Pids -> Seq(PairedCall)] /\ printed \in Seq(PairedCall)

\* eventmanager.go: "a hard cap on in-flight events".  The counter is exactly
\* the number of events retained for all goroutines of all processes, however
\* stacks were dropped, reset, closed or evicted, and it stays in the budget.
PendingExact ==
    Adaptive => /\ pendingEvents = Cardinality(Retained(Goroutines))
                /\ pendingEvents <= MaxPending

\* A goroutine whose sample is suppressed for the budget holds no events.
SuppressedHoldNothing == \A g \in suppressed : goEvents[g] = <<>>

\* AggregateStack pairs everything in a trusted sample: unless a mismatch was
\* noted, the retained events pair up and the observed stack is exactly the
\* entries that are still open.
ObservedStackConsistent ==
    Aggregate =>
        \A g \in Goroutines \ invalid :
            LET paired == AggregateStack(goEvents[g])
            IN  /\ paired.ok
                /\ goEventStack[g] = [i \in 1 .. Len(paired.open) |-> paired.open[i].ip]

\* AdaptiveSampling.md 5.4: at most maxAggregatePIDs process states, at most
\* maxAggregateSuppressed suppressed goroutines, and what is retained belongs
\* to a process that still has a state.
MemoryBounded ==
    Adaptive => /\ Len(pids) <= MaxPids
                /\ Cardinality(suppressed) <= MaxSuppressed
                /\ \A g \in Goroutines : goEvents[g] # <<>> => PidOf[g] \in Known
=============================================================================
