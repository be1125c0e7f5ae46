# A TLA+ development of go-ftrace

go-ftrace attaches uprobes to a Go binary, records entries and returns of the
functions a user names, and prints call trees or aggregated statistics.  This
directory holds TLA+ models of its moving parts, the TLC runs that check them on
small instances and TLAPS proofs for all instances of them.

    tlc -workers 2 -config FtraceLossless.cfg MCFtrace     # a run
    tlapm FuncAggProofs.tla                                # the proofs of a module

## 1. Inventory

| Part | State | Operations | Module |
|---|---|---|---|
| Adaptive sampler (`cmd/sampler.go`, ticks in `cmd/tracer.go`) | denominator, unsafe floor, run of stable windows; the map word the probes read | `adjust` once a second | `AdaptiveSampler` |
| BPF programs (`internal/bpf/ftrace.c`) | `should_trace_goid`, `event_queue`, counters, sample config | `ent`, `ret`, `goroutine_exit` | `TraceEvents`, `Probes` |
| Event manager (`internal/eventmanager`) | per process: retained events, observed stack, invalid marks, aggregates; suppressed goroutines, event budget, LRU of processes | `Handle`, `PrintRemaining` | `EventManager` |
| Function statistics (`recordAgg`, `recordRetval`) | call counts, latency histogram, bounded table of return values | one call recorded | `FuncAgg` |
| Start-up, event loop, poller, shutdown (`Tracer.Start`, `Load`, `Attach`, `PollEvents`, `StopTracing`, `Detach`) | links, queue, unbuffered channel, two contexts, the maps | load, attach, receive, tick, interrupt, detach, deferred calls, errors | `Polling`, `EventPipe` |
| Interface type recipes (`apply_type_recipes`, `value.go`, `learnInterfaceTypes`) | recipes in the kernel and in userspace, queued events with their extra leaves | capture, render, learn | `TypeRecipes` |
| Argument planning, addressing and rendering (`auto.go`, `setArgRules`, `fetch_args`, `value.go`) | registers and leaves used so far; the leaves of an event | plan a value, load, fetch, render | `FetchPlan` |
| Probe selection (`parser.go`) | the ordered list of probes | start-up | an assumption of `Probes` |
| ELF/DWARF access, command line, pid helper patching, generated bindings | none of interest | | not modelled |

How they interact.  `Start` loads the programs, fills their maps, sets the first rate
and attaches the probes one by one to running processes.  A probe hit runs a BPF
program on the CPU of the goroutine.  The program decides whether the goroutine is
traced (`should_trace_goid`, entered by an admitted root call), fetches arguments and
pushes one event, which a full queue refuses.  A goroutine of the tracer takes events
out of the queue and sends them over an unbuffered channel to the event loop, the only
caller of the manager.  The loop also runs the tick that feeds heap size and loss rate
to the sampler and writes the new denominator to the map that `ent` reads.  Rendering an
event may install a type recipe in a map that later probe hits read.  Ctrl-C closes the
links, cancels the poll context, drains the queue and prints a summary.

What is hard: the queue loses events in any pattern; the Go runtime restarts
functions, moves stacks and unwinds frames that never return; processes end in the
middle of a sample and their pids come back; probes appear and disappear one by one
under running calls; the event limit, the budget, the state map and the process table
each cut a sample short at their own time; userspace changes the rate and the recipes
while samples and events are in flight; start-up may fail half-way; shutdown involves
the loop, the poller, a goroutine per link and the kernel; the leaves of an event carry
no tags, so planner, kernel and renderer must count alike.  `PROJECT.json` lists these
under "hazards", each with its line and its properties.

## 2. Modules

`TraceEvents` holds what kernel and userspace agree on: goroutines, functions,
the event record and the settings of the session (`cfg`: `--sample`, `--aggregate`).  A
goroutine stands for a (pid, goid) pair.  A function stands for its entry and its RET
addresses.

**`AdaptiveSampler`** is `adjust` in the two cases lossy / stable window followed by
the hysteresis (`Jump`, `Recover`, `Hold`).  The float arithmetic is exact rational
arithmetic, because the loss rate is a quotient of two counters; the conversion to
`uint32` wraps, and infinity becomes 0, as amd64 does it.  `lossFree` and
`worstLossy` are history: they say which denominators lost events recently.

**`Probes`** models the three programs as actions of a goroutine with a call stack.
`Call`, `Return` and `Exit` fire a program; `Restart` fires the entry program a second
time, with or without a moved stack, as `runtime.morestack` does; `CallUnprobed` and
`ReturnUnprobed` fire nothing, because the function has no probes or its link is not
open; `Unwind` is a recovered panic, `Replace` a process that ends without
`runtime.goexit1` and a later one with its pid.  `Attach` and `CloseLink` open and close
one link at a time, in the order of the list and in no order.  A program is one step (its
map operations concern its own goroutine's key; the shared queue and counters are updated
by single helper calls).  Random sampling is the choice between `EntSampledOut` and
`EntAdmitted` when the denominator is above 1; `EntInsertFailed` is any failure of the map
update.  `Disturbances` selects which of these a run looks at, so that each can be
explored deep enough.  History: `since` and the frames' `start` tell which frames belong to
the open sample; `indirect` marks samples with a recursive root call that did not come from a
probed frame in its place; `unreturned` and `stray` mark goroutines whose recorded entry
never fires a return, or whose recorded return had no recorded entry.

**`EventManager`** is `Handle` with one action per outcome of `Add`: exit, abort,
suppressed, over budget, orphan, duplicate entry, retain, and the three ways to
close a stack.  Several of these first reset a stale sample or evict a process; the
operators ending in `Now` are the values after the reset.  `agg` and `printed` are
sequences of (entry, return) pairs: what they say about each other is in `FuncAgg`.
`ManagerSpec` is the manager alone, under any events in any order; `Ftrace` implements it.

**`Ftrace`** composes `Probes` and `EventManager` (both EXTENDed, over the same queue)
with attaching and the interrupt, and follows the program's calls in history variables, so
that the reports can be compared with the truth.

**`Polling`** numbers the events and keeps the program counters of the loop and of the
poller, from `Load` to the end of the process.  Each step of `Start` may fail; SIGINT kills
the process until `signal.NotifyContext` has asked for it.  **`EventPipe`** is what this
machinery promises: a FIFO that is stopped, drained and completed, or fails.  `Polling`
instantiates it with `status` computed from its program counters and the open links
(`ImplementsPipe`).  `Ftrace` uses that result: delivery is in order and complete.

**`FuncAgg`** is the Space-Saving sketch of return values and the histogram;
`trueCount` and `trueWeight` are what an unbounded table would hold.

**`TypeRecipes`** tags every extra leaf of an event with its owner (the code does not)
and compares which leaves the renderer binds to which value.  The parameters of a probe
are a row of slots; a kind abstracts a DWARF type to its number of leaves, to whether the
probe expands it (`Marked`) and whether the renderer has a type word for it (`Walked`).
The object behind a pointer is a slot followed by its fields: the renderer has only its
first 64 bytes, which may hold a field whole, its first word (`cutField`) or nothing of it
(`farField`), and none of them when the copy failed (`Looks`).  To which interface a leaf is
handed is modelled, not at which address inside its value it is put (`evalRel`).

**`FetchPlan`** takes a list of parameter types, plans it value by value, loads the rules,
runs them at a probe hit and renders the leaves.  A type is its elementary fields with the
offsets of the structs around them; that fields do not overlap is assumed (`Apart`), as DWARF
describes only such types.  Memory is symbolic: a pointer is the path that leads to
it, and a hit chooses which pointers are nil and which cannot be read.  The register
assignment of the Go ABI is stated separately (`GoWords`, `GoUsed`) as the reference.

Left out of the models: times other than their order, call chains, the bytes of arguments
and all formatting.

## 3. Runs

| Run | Instance | What it shows |
|---|---|---|
| `sampler` | cap 32, 8-bit word, the code's own 5 and 15 windows, heap sizes on every branch, windows on both sides of 2% | no recovery into a rate that lost events within 15 windows; the kernel's rate is the controller's; back to 1 once calm |
| `funcagg` | table of 2 for 3 values, weights 1, 2, 3, 6 calls | estimates, errors, lower bounds and heavy hitters as printed; histogram adds up |
| `probes` | one goroutine, depth 3, 5 hits, event limit 4, restarts with and without a move, a function without probes, failing inserts, a recovered panic or a replaced process | `root_depth` is exact unless recursion is indirect, and never too large; the state ends with the root call; the printed root counts add up |
| `lossless` | all four modes, depth 3, 5 hits, event limit 4, two rates, restarts, one move, one panic or replaced process | reports are exactly the program's completed calls, with the weight of their admission |
| `lossy` | queue of 1, depth 2, 5 hits, event limit 4, calls while the probes are attached and detached one by one | a trusted sample pairs up; nothing is counted twice |
| `budget` | two processes, budget 2, one process state, one suppressed, event limit 2, queue of 1 | budget accounting is exact; all tables bounded; an interrupt ends in a summary |
| `polling` | three links, queue of 2, 5 events, failures at every step | handled in order and once, those from before the loop too; complete summary; maps outlive the poller; nothing left behind; an interrupt ends; `EventPipe` is implemented |
| `type_recipes` | four types, room for two recipes, two hits; interfaces as parameters, in a struct, and as fields within, across and beyond the copy of an object that may be nil or unreadable | current recipes bind exactly where both sides expand the same slots; both sides agree; types are learned |
| `fetch_plan` | all lists of 1 to 3 parameters over 18 types: every kind of field, nested 8 deep, beyond the prefix and beyond 16 bits; every choice of nil and unreadable pointers | words come from their own registers; what the renderer believes is at an address was there; nil is printed exactly for nil |
| `recursion_through_unprobed` | the root calls itself through a function without probes | violation: the sample ends with the inner return |
| `incomplete_aggregated` | depth 3, 6 hits, no loss, calls while links are closed | violation: a call is aggregated that has not returned |
| `stale_recipe` | two interface parameters | violation: a value is rendered with another value's bytes |

Bounds.  Every limit of the code is a constant, set so low that it is reached
within a few steps (queue, event limit, budget, tables); one step more or less than
each limit occurs.  The exceptions are the eight leaves, eight rules and nine registers of
`FetchPlan`, which have their real values.  `MaxDepth`, `MaxMoves`, `MaxFaults`, `MaxFires`,
`MaxEvents`, `MaxCalls` and `MaxCaptured` bound the exploration only.  Five hits are enough
for a root with a nested recursive call, a restart or a panic in either and a second root
call of the same goroutine; events of different goroutines only meet in the queue, the
budget and the tables, which the two goroutines of `budget` contend for.  `lossless` calls no
function without probes: recursion through one, or after a stack move in one, is taken for a
restart by kernel and manager (`recursion_through_unprobed`).  For the same reason the
properties of `lossless` leave out goroutines with a missed return (`unreturned`) or a stray
one, each as far as the code cannot tell: an aggregated call may only be wrong where both
happened.  They are stated for programs all of whose calls find their probes attached
(`EveryCallProbed`): in the windows of `Attach` and `StopTracing` both of them fail, as
`incomplete_aggregated` shows of the first.

Deadlock is not checked where the model stops at a bound or the process ends.

Fairness.  `AdaptiveSampler`: the ticker fires for as long as the tracer runs.
`Ftrace`: the loop keeps taking events, `StopTracing` keeps closing links and the summary is
printed (`Deliver`, `CloseLink`, `Finish`).  `TypeRecipes`: the loop keeps taking events.
`Polling`: the goroutines of the tracer are scheduled (`Begin`, `Poll`, `Loop`, `StopTracing`,
`Leave`), and `select` does not ignore a ready signal for ever (Go chooses at random).  Nothing
is assumed of the traced program or the user; `Probes` has no fairness.

## 4. Findings and other observations

The three violations and the lines they contradict are under "findings" in
`PROJECT.json`.  Met while modelling, contained in the models unless said otherwise, without
a run of their own:

Samples and calls

- The same mispairing as in `incomplete_aggregated` happens in the window of `Attach`, and with
  a queue that loses a return and the next entry of the same function: the rest balances.
- When a recursive root is entered without being recorded (sampled out, or before its
  link), its inner call admitted and unwound by a recovered panic, the outer RET ends the
  sample, and the inner entry is aggregated with the outer return.
- After an unwound call the observed stack of a goroutine in aggregate mode without sampling
  never empties: nothing of that goroutine is aggregated and its events are kept until it exits.
- After an unwound recursive root call, or in a killed process, the state with sampling stays until
  `MAX_SAMPLE_EVENTS` (Design.md:463 names the limit as the fallback).
- `ret` deletes the state also when TRACE_END found no room; `goroutine_exit` then
  finds no state (ftrace.c:775), so the manager keeps the events until the next
  TRACE_START, against AdaptiveSampling.md:55 ("or goroutine exit").
- An orphaned return is dropped without a count (handler.go:118), against
  AdaptiveSampling.md:104.
- A sample dropped for the budget and then aborted counts as two discarded samples
  (handler.go:94 and 20).
- At a loss rate of 1 `lossRaisedDenominator` (sampler.go:133) converts +Inf, which gives 0
  on amd64, so the denominator advances by 1 per second instead of jumping.
- After an error of the loop, `Detach` may clear `b.objs` under the poller, which then
  panics while the process is on its way out (`PollPanic`).

Arguments

- `reserve` skips a parameter whose leaves do not fit, or whose type is unsupported although it
  takes registers (a func value, auto.go:324-327, or a struct with an empty field), without
  consuming its registers; a smaller parameter after it is read from the wrong register
  (compare AutoFetch.zh_CN.md:124 and Design.md:276).  `PlanFollowsABI` leaves these out (`Accounted`).  Floating-point parameters
  are counted as integer registers, a documented limit, and have no kind in the model.
- The zero type word of an interface is tested before its read error (value.go:106), so an
  interface whose itab cannot be read prints as nil, where AutoFetch.zh_CN.md:255 and
  Design.md:422 want `<unavailable>`.  `NilExactly` leaves it out (`ItabUnread`).
- Offsets are truncated to 16 bits when rules are loaded (bpf.go:179).  Automatic plans survive it
  only because the renderer ignores captures of fields beyond the 64-byte prefix; a manual rule
  silently reads another address.
- One automatic rule with more than eight steps makes the whole `Load` fail (`Reject`).
- The eight bytes of a type word are put into the snapshot with their whole 64-byte slot
  (value.go:286), so an itab 32 bytes further reads as zero and its type as unknown
  (compare AutoFetch.zh_CN.md:227).  Not in the model, whose pointers have no distance.
  The lookup of recipes reads the same snapshot of a value, but two fields with methods behind
  one pointer already take all eight leaves, so that there are no extra leaves to misplace.
- Probe and renderer do not always expand the same interfaces.  For an interface in a struct
  parameter, for a field with methods that lies beyond the first 64 bytes of an object
  (value.go:244-248 give it no memory, so 202 takes nothing), and for any field with methods of
  an object whose copy failed (value.go:136-139), the probe appends the leaves of a recipe that
  the renderer leaves where they are; an interface without methods behind a pointer is the
  reverse.  The interfaces after it are then rendered with leaves that belong to another, even
  with current recipes (compare AutoFetch.zh_CN.md:207).  Of a field at offset 56 only the
  type word is in the copy: it takes its leaves, so those after it stay right, but puts them at addresses relative
  to 0, where nobody looks.  All of these are in the model; `CurrentRecipesBindExactly` leaves
  out events with a slot of the first kinds (`SameSlots`) and, of the others, the cut fields.

## 5. Proofs

All theorems hold for every value of the constants that the assumptions named in the modules
allow: sizes and limits are natural numbers (positive where a zero would disable the part), the
sets of goroutines, functions and return values are finite.

`DataInduction` is what the other modules need to reason about data.  The induction theorems of
the library take an operator as parameter, so induction is stated here for sets: a set of
numbers with 0 and closed under successor is `Nat`, and likewise for finite sets
(`NatSetInduction`, `FiniteSetInduction`).  `RecursionExists` and `RecursionUnique` show from these
that a function on 0 .. n given by its first value and a step exists and is unique, so that the
loops of the code, which are recursive functions in the models, can be unfolded.

`CommandProofs`, the sampling tick of `cmd/tracer.go`, for every cap, pair of heap targets, window
lengths, budget and inputs (`DenominatorAssumption`, `WindowAssumption`): `SamplerTypeOK`,
`KernelFollowsSampler`, `FloorCoversLoss` and the action property `NeverRecoverIntoLoss`.  The invariant is the
conjunction of the first three.  `NeverRecoverIntoLoss` needs `FloorCoversLoss`: the
floor dominates `worstLossy` because it is lowered only when `stableWindows` reaches
`UnlockStableWindows`, and `stableWindows <= lossFree`, so that the history is empty then.
`LossRaisedRange` shows that the conversion cannot leave the range.

`FuncAggProofs`, for every table size and finite set of values (`TableAssumption`,
`InputAssumption`): all safety properties of `FuncAgg`.  None of `ErrorWithin`, `CountedColumn` and
`UnlistedIsLight` is inductive alone: a newcomer inherits the minimum as its
error, which bounds what it scored while unlisted only by `UnlistedIsLight`, which in turn
survives the replacement because the evicted entry satisfied `ErrorWithin`.
`PositiveEstimates` and `UnlistedUnseen` complete the invariant.  `HeavyHittersListed` needs a
second one (`WeightInv`): a replacement hands the evicted estimate on, so the estimates of the
table always add up to the whole weight, and the least entry of a full table, which is the next
newcomer's error, is at most an equal share of it.  `HistogramComplete` is a sum that grows by one
bucket as the count does.

`CommandProofs`, start, polling and shutdown, for every set of links, queue size and number of events
(`PollingAssumption`): all safety properties of `Polling`, and `ImplementsPipe`, the
refinement of `EventPipe`.  The invariant `IInv` joins the types, `PipeIsFIFO`, and `Control`,
which says what each place of `Tracer.Start` knows of links, maps, context and poller.
`PipeIsFIFO` is kept by each of the three operations that move events.  `SummaryIsComplete`
then needs `PollerKnows`: on the path without errors a poller that has ended was draining,
so the context was cancelled, so every link was closed before it found the queue empty.  In the
refinement `NextInHand` shows that the poller's event is the next number, and
`LoopKnows` that the links are open until the interrupt, so that the pipe does not
seem to stop before.

`EventManagerProofs`, for events in any order (`ManagerSpec`), also such as the probes never
send; of each event only what `ent` and `ret` set is assumed: entries alone carry frames, and only a
return ends a trace.  `PendingExact`: the retained events are a set of positions, and an event
changes only what its goroutine and the goroutines of an evicted process hold (`Held`), so the
counter, which saturates at zero in the code, never has to.  `MemoryBounded` is
inductive only with it: an event is over the budget, stored or dropped after its process
was looked up, which may have evicted another one with all its events.  `SuppressedHoldNothing`: a retained
event belongs to a goroutine that is not suppressed because a TRACE_START has lifted the mark
first; without `--sample`, nothing is ever suppressed, which the invariant has to say.
`ObservedStackConsistent`: `updateObservedStack` follows each event as it comes, `AggregateStack`
goes through all of them at the end; they agree because one event more makes one step more
(`AggregateUnfolds`).  `AggregatedPairUpCorrect` draws the conclusion for the moment that
matters: what `CloseStack` trusts, `AggregateStack` pairs up without a remainder.

`FtraceProofs`, the probes, for every number of goroutines and functions, all map sizes, depths and
disturbances (`ScopeAssumption`, `ProbesAssumption`, `UprobesAssumption`).  `RootsAccounted`: each
path through a program counts a detected root and its outcome together (`Balanced`), which is all
that the sum needs.  `ProbesTypeOK`, `RootDepthExact` and `StateReleased` follow from `DepthInv`:
goroutine by goroutine, the state's `root_depth` is compared with the root frames recorded since
the sample began, and `last_ip` and `last_bp` with the innermost recorded frame, as long as no
return was missed (`LastEntry`).  Only the latter makes the first inductive: `ent` leaves the depth
alone exactly when it takes the entry for a restart, and `LastEntry` says that it is one,
unless the recursion is indirect.  `SampleEndsCorrect` is `SampleEndsWithRoot`, which
`recursion_through_unprobed` violates, for the goroutines without indirect recursion and without
a missed or stray return.

`FtraceProofs`, the pipeline.  The programs do not notice who empties the queue, so `DepthInv` and what follows
from it hold of the pipeline.  The queue holds only events, so the pipeline implements
`ManagerSpec` (`PipelineImplementsManager`) and inherits its theorems: `TypeOK`, `PendingExact`,
`MemoryBounded`, `SuppressedHoldNothing` and `ObservedStackConsistent`.  `NothingCountedTwice`,
for any loss and any disturbance, is an argument about time (`TimesInv`): every event of a
goroutine is later than all that went before it, in the queue, among the retained events and among
the ends of the reported calls, up to the goroutine's clock.  A report is made of retained events that are
then dropped, and within one report the pairing uses no event twice.

`HistoryProofs`, for every number of goroutines and functions, all four modes, every event limit,
queue and budget, every depth and kind of disturbance: `ReportedAreRealCalls`, and
`CompletedAreReported` for the settings without a `--drilldown` function, which leaves calls out on
purpose.  The frames of a goroutine, its events in the queue and those the manager retains are
joined by a replay.

- A replica is what the manager would hold of a goroutine had it room for all: the open entries, the
  pairs made so far, the observed stack, the last event.  `Replayed` and `Yield` say what one
  event makes of it and which calls it has reported.  The manager's maps mirror the replica,
  or are empty after an eviction or a drop, and what the manager reports is what the replica yields
  (`HandleReplays`, `HandleOutputs` in `EventManagerProofs`, for any event).
- `HistoryInv` says that the events of a goroutine in the queue take a replica that
  mirrors the manager to one that is `Abreast` of the goroutine, and yield on the way
  only calls in `completed`.  A replica that is abreast is `Tidy`: its open entries cover the
  recorded frames, one for one unless a return was missed, and its pairs are calls of the open
  sample.  Or it is `Dirty`, in aggregate mode after a missed return: an entry is left on the observed
  stack that no return will pop, so that the sample is given away at its end and what was
  mispaired in it is never reported.
- A probe hit lengthens this path at one end (`TargetAdvances`), handling an event shortens it
  at the other (`DeliverLives`).  A return finds its entry on top of the open ones because
  what was entered later has returned or been replaced by a restart, which needs `DepthInv`; two
  entries are told apart by their times.
- Left out (`Blurred`) are goroutines with both a missed and a stray return, which may balance, and
  without `--aggregate`, where nothing checks that an entry and a return belong together, those with
  a missed one.  `ReportedAreRealCalls` leaves out no fewer.

`TypeRecipesProofs`, for every set of types, every length of their recipes, every probe and all
sizes (`RecipesAssumption`): `RecipesTypeOK`, `RecipesAgree` and `CurrentRecipesBindExactly`.  An
event does not say which of its leaves belong to which value; kernel and renderer each count
along.  If both follow the same recipes and expand the same slots of the event (`SameSlots`),
their counters agree at every slot (`CursorFollows`), also when the event is full and
the last value gets only a part of its leaves.

`FetchPlanProofs`, for every set of signatures, with structs of any nesting and offsets of any
size, and up to eight leaves and rules (`FetchPlanAssumption`): `PlanFollowsABI`, `NilExactly` and
`SnapshotHonest`.  Three arguments follow one another.

- The plan (`PlanInv`).  The leaves of the plan are the leaves of the values, one value after the
  other (`LaidOut`), the registers of two values do not meet (`Disjoint`), and as long as no
  parameter was left out the planner's counter of registers is the ABI's (`FollowsABI`).  The
  planner asks for room for a parameter's leaves only, but the registers cannot run out: there
  are never more of them than leaves.
- The hit (`HitInv`).  After the hit the arguments are a function of the plan and of the memory, and
  what is shown is a function of these.  What remains is about that function.
- Leaf by leaf.  Where the steps of a rule lead: the additions along nested structs, each with its
  offset cut to 16 bits, come to the field's own offset if that is within the prefix (`AddWalk`),
  and a dereference behind them to what the word there points to (`DerefTarget`,
  `MemLeafHolds`).  Which leaf the renderer has under its cursor: `EventFacts`, `TakenFacts`.  That a
  word of the rebuilt image is the register planned for it needs that fields do not overlap
  (`ImageAt`).  The truncation is harmless because the renderer uses no capture of a field
  beyond the 64-byte prefix (`MemChunksHonest`).  For nil, the type word behind an itab must not be
  taken for a pointer that the hit chose (`ItabElsewhere`), which needs `Disjoint`.
  `SnapshotIsHonest` and `NilIsExact` put these together.  No theorem needs that a nil interface has no
  data (`Possible`).

Only model-checked.  All liveness (`RecoversToFullCollection`, `InterruptEnds`,
`EventsAreHandled`, `InterruptCompletes`, `LearnedEventually`), which is out of the prover's
reach.
Every invariant and every action property that a passing run checks is stated by a theorem.
The three violations are counterexamples, for which a small instance is enough.

## 6. Plan

Done: sampler, statistics, probes, manager, pipeline, polling with start-up and its abstract
pipe, recipes, argument planning; disturbances of the probes (attach and detach windows,
recovered panics, replaced processes, failing inserts); the proofs above.  Next:

1. An abstract sampler of calls that `Ftrace` implements when nothing is lost: with `HistoryInv` its
   refinement mapping is at hand.

Not modelled, because it keeps no state and does no more than read, parse or print: ELF and
DWARF access (the types that `dwarf_args.go` finds are the input of `FetchPlan`), the command
line and the text of manual fetch rules, wildcard matching and symbol lookup of
`parser.go`, `get_goid` and `get_pid`, the instruction patching of `pid_helper_compat.go`,
`renderDynamicValue` and all other formatting, and the bindings that bpf2go generates.
`internal/bpf/headers` holds the kernel's type declarations (`vmlinux.h`), the helper
prototypes and macros of libbpf: declarations of third parties, without behaviour of
this program.
