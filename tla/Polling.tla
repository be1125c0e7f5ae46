------------------------------ MODULE Polling ------------------------------
(***************************************************************************)
(* How tracing starts, how events leave the kernel and how tracing ends:   *)
(* Tracer.Start (cmd/tracer.go), Load, Attach, StopTracing and Detach, and *)
(* the goroutine and the unbuffered channel of PollEvents (bpf.go).        *)
(*                                                                         *)
(* Start loads the programs and fills their maps, sets the first rate and  *)
(* attaches the probes one by one; each of these may fail, and until it    *)
(* asks for SIGINT that signal kills the process.  The probes emit         *)
(* numbered events while at least one uprobe link is open.                 *)
(* The loop handles one event at a time.  On SIGINT it closes all links,   *)
(* waits for that, cancels the poll context and goes on receiving until    *)
(* the poller has found the queue empty and closed the channel.  On an     *)
(* error Start returns at once, and its deferred calls run.                *)
(***************************************************************************)
EXTENDS Integers, Sequences, FiniteSets

CONSTANTS
    Links,      \* one link per probe (BPF.closers), runtime.goexit1 among them
    QueueCap,   \* event_queue.max_entries
    MaxEvents   \* bound of the model: events emitted

ASSUME PollingAssumption ==
    /\ IsFiniteSet(Links) /\ Links # {}
    /\ QueueCap \in Nat \ {0}
    /\ MaxEvents \in Nat

VARIABLES
    open,      \* links that are attached
    queue,     \* event_queue
    accepted,  \* history: number of events the queue accepted, 1 .. accepted
    handled,   \* history: the events passed to EventManager.Handle, in order
    signal,    \* SIGINT: "none", "pending" (signalCtx done), "taken"
    pollCtx,   \* TRUE once stopPolling has cancelled pollCtx
    objs,      \* TRUE while the maps are open (b.objs)
    main,      \* where Tracer.Start is, and how the process ended
    poller,    \* where the goroutine of PollEvents is
    draining,  \* its local variable
    held       \* the event it has taken out of the queue: <<>> or <<e>>

vars == <<open, queue, accepted, handled, signal, pollCtx, objs, main, poller, draining, held>>
pollerVars == <<poller, draining, held>>

\* Start is on its way into the loop, from there to the summary or, after an
\* error, past it.
StartUp == {"load", "sample", "attach", "notify", "manager"}
Graceful == StartUp \cup {"loop", "detaching", "summary", "returning", "exited"}
Failing == {"unwinding", "failed", "crashed", "killed"}
Ended == {"exited", "failed", "crashed", "killed"}

MainSteps == Graceful \cup Failing
PollerSteps == {"none", "top", "lookup", "idle", "send", "sendErr", "closed"}

Init ==
    /\ open = {}
    /\ queue = <<>> /\ accepted = 0 /\ handled = <<>>
    /\ signal = "none"
    /\ pollCtx = FALSE
    /\ objs = FALSE
    /\ main = "load"
    /\ poller = "none" /\ draining = FALSE /\ held = <<>>

-----------------------------------------------------------------------------
(* The kernel side and the user. *)

\* Mutant: the bound of the queue is ignored.
EmitUnbounded ==
    /\ open # {}
    /\ accepted < MaxEvents
    /\ accepted' = accepted + 1
    /\ queue' = Append(queue, accepted + 1)
    /\ UNCHANGED <<open, handled, signal, pollCtx, objs, main, pollerVars>>

\* A probe pushes an event; one that finds the queue full is counted and gone.
Emit ==
    /\ open # {}
    /\ accepted < MaxEvents
    /\ Len(queue) < QueueCap
    /\ accepted' = accepted + 1
    /\ queue' = Append(queue, accepted + 1)
    /\ UNCHANGED <<open, handled, signal, pollCtx, objs, main, pollerVars>>

\* SIGINT once signal.NotifyContext has asked for it.
PressCtrlC ==
    /\ signal = "none"
    /\ main \notin Ended \cup {"load", "sample", "attach", "notify"}
    /\ signal' = "pending"
    /\ UNCHANGED <<open, queue, accepted, handled, pollCtx, objs, main, pollerVars>>

\* SIGINT before that: the process is killed, its links and maps go with it.
PressCtrlCEarly ==
    /\ main \in {"load", "sample", "attach", "notify"}
    /\ main' = "killed"
    /\ open' = {}
    /\ objs' = FALSE
    /\ UNCHANGED <<queue, accepted, handled, signal, pollCtx, pollerVars>>

-----------------------------------------------------------------------------
(* Start, up to the loop. *)

\* Load: the programs and maps, then the entries of should_trace_rip,
\* arg_rules_map and should_trace_ret.  No probe can see them yet.
Load ==
    /\ main = "load"
    /\ objs' = TRUE
    /\ main' = "sample"
    /\ UNCHANGED <<open, queue, accepted, handled, signal, pollCtx, pollerVars>>

\* Any of that fails (a full map, too many rules): Load closes what it made, and
\* Start returns before Detach is deferred.
LoadFails ==
    /\ main = "load"
    /\ main' = "failed"
    /\ UNCHANGED <<open, queue, accepted, handled, signal, pollCtx, objs, pollerVars>>

\* The first SetSampleDenominator, which may fail.
InitialRate ==
    /\ main = "sample"
    /\ main' \in {"attach", "unwinding"}
    /\ UNCHANGED <<open, queue, accepted, handled, signal, pollCtx, objs, pollerVars>>

\* One round of Attach; events arrive from now on.
AttachLink(l) ==
    /\ main = "attach"
    /\ l \notin open
    /\ open' = open \cup {l}
    /\ main' = IF open' = Links THEN "notify" ELSE "attach"
    /\ UNCHANGED <<queue, accepted, handled, signal, pollCtx, objs, pollerVars>>

\* Mutant: the links made so far are not taken back.
AttachFailsLeaking ==
    /\ main = "attach"
    /\ main' = "failed"
    /\ UNCHANGED <<open, queue, accepted, handled, signal, pollCtx, objs, pollerVars>>

\* ex.Uprobe fails: Start returns, and the deferred Detach finds some links.
AttachFails ==
    /\ main = "attach"
    /\ main' = "unwinding"
    /\ UNCHANGED <<open, queue, accepted, handled, signal, pollCtx, objs, pollerVars>>

\* signal.NotifyContext
Notify ==
    /\ main = "notify"
    /\ main' = "manager"
    /\ UNCHANGED <<open, queue, accepted, handled, signal, pollCtx, objs, pollerVars>>

\* eventmanager.New, then PollEvents starts its goroutine.
NewManager ==
    /\ main = "manager"
    /\ main' = "loop"
    /\ poller' = "top"
    /\ UNCHANGED <<open, queue, accepted, handled, signal, pollCtx, objs, draining, held>>

NewManagerFails ==
    /\ main = "manager"
    /\ main' = "unwinding"
    /\ UNCHANGED <<open, queue, accepted, handled, signal, pollCtx, objs, pollerVars>>

-----------------------------------------------------------------------------
(* PollEvents *)

\* Top of the loop: note that the context is done, without waiting for it.
PollTop ==
    /\ poller = "top"
    /\ draining' = (draining \/ pollCtx)
    /\ poller' = "lookup"
    /\ UNCHANGED <<open, queue, accepted, handled, signal, pollCtx, objs, main, held>>

\* LookupAndDelete takes the oldest event.
PollTake ==
    /\ poller = "lookup" /\ objs
    /\ queue # <<>>
    /\ held' = <<Head(queue)>>
    /\ queue' = Tail(queue)
    /\ poller' = "send"
    /\ UNCHANGED <<open, accepted, handled, signal, pollCtx, objs, main, draining>>

\* Mutant: an empty queue never ends the poller.
PollEmptyKeepsWaiting ==
    /\ poller = "lookup" /\ objs
    /\ queue = <<>>
    /\ poller' = "idle"
    /\ UNCHANGED <<open, queue, accepted, handled, signal, pollCtx, objs, main, draining, held>>

\* The queue is empty: the end of a drain, else wait.
PollEmpty ==
    /\ poller = "lookup" /\ objs
    /\ queue = <<>>
    /\ poller' = IF draining THEN "closed" ELSE "idle"
    /\ UNCHANGED <<open, queue, accepted, handled, signal, pollCtx, objs, main, draining, held>>

\* LookupAndDelete fails for another reason.
PollError ==
    /\ poller = "lookup" /\ objs
    /\ poller' = "sendErr"
    /\ UNCHANGED <<open, queue, accepted, handled, signal, pollCtx, objs, main, draining, held>>

\* Detach has set b.objs to nil under the poller: the process panics.
PollPanic ==
    /\ poller = "lookup" /\ ~objs
    /\ main' = "crashed"
    /\ UNCHANGED <<open, queue, accepted, handled, signal, pollCtx, objs, pollerVars>>

\* Mutant: the wait ends with the context only.
PollIdleNoTicker ==
    /\ poller = "idle"
    /\ pollCtx
    /\ draining' = TRUE
    /\ poller' = "top"
    /\ UNCHANGED <<open, queue, accepted, handled, signal, pollCtx, objs, main, held>>

\* The wait ends with the context or with the idle ticker.
PollIdle ==
    /\ poller = "idle"
    /\ \/ pollCtx /\ draining' = TRUE
       \/ UNCHANGED draining
    /\ poller' = "top"
    /\ UNCHANGED <<open, queue, accepted, handled, signal, pollCtx, objs, main, held>>

\* Mutant: the event in hand is forgotten when the context ends.
PollSendCancelledDrops ==
    /\ poller = "send"
    /\ ~draining /\ pollCtx
    /\ draining' = TRUE
    /\ held' = <<>>
    /\ poller' = "top"
    /\ UNCHANGED <<open, queue, accepted, handled, signal, pollCtx, objs, main>>

\* While trying to send, the context ends: the send becomes a blocking one.
PollSendCancelled ==
    /\ poller = "send"
    /\ ~draining /\ pollCtx
    /\ draining' = TRUE
    /\ UNCHANGED <<open, queue, accepted, handled, signal, pollCtx, objs, main, poller, held>>

-----------------------------------------------------------------------------
(* The select loop of Start. *)

\* An event arrives (rendezvous with the poller) and is handled.
Receive ==
    /\ main = "loop"
    /\ poller = "send"
    /\ handled' = handled \o held
    /\ held' = <<>>
    /\ poller' = "top"
    /\ UNCHANGED <<open, queue, accepted, signal, pollCtx, objs, main, draining>>

\* Handle fails on the event that arrives: Start returns the error.
ReceiveFails ==
    /\ main = "loop"
    /\ poller = "send"
    /\ held' = <<>>
    /\ poller' = "top"
    /\ main' = "unwinding"
    /\ UNCHANGED <<open, queue, accepted, handled, signal, pollCtx, objs, draining>>

\* A poll error arrives; the poller has returned.
ReceiveError ==
    /\ main = "loop"
    /\ poller = "sendErr"
    /\ poller' = "closed"
    /\ main' = "unwinding"
    /\ UNCHANGED <<open, queue, accepted, handled, signal, pollCtx, objs, draining, held>>

\* A summary or sampling tick cannot read or write a map.  Both tickers are
\* set to nil by the interrupt.
TickFails ==
    /\ main = "loop"
    /\ signal # "taken"
    /\ main' = "unwinding"
    /\ UNCHANGED <<open, queue, accepted, handled, signal, pollCtx, objs, pollerVars>>

\* case <-signalCh: StopTracing starts closing the links.
TakeSignal ==
    /\ main = "loop"
    /\ signal = "pending"
    /\ signal' = "taken"
    /\ main' = "detaching"
    /\ UNCHANGED <<open, queue, accepted, handled, pollCtx, objs, pollerVars>>

\* Start is running its deferred calls: stopPolling first, then Detach.
InDetach == main \in {"returning", "unwinding"} /\ (pollCtx \/ poller = "none")

\* StopTracing, called from the loop or by Detach, closes the links in any order.
CloseLink(l) ==
    /\ main = "detaching" \/ InDetach
    /\ l \in open
    /\ open' = open \ {l}
    /\ UNCHANGED <<queue, accepted, handled, signal, pollCtx, objs, main, pollerVars>>

\* Mutant: StopTracing does not wait for its goroutines.
StopPollingEarly ==
    /\ main = "detaching"
    /\ pollCtx' = TRUE
    /\ main' = "loop"
    /\ UNCHANGED <<open, queue, accepted, handled, signal, objs, pollerVars>>

\* All links are closed (StopTracing waits for its goroutines): stopPolling.
StopPolling ==
    /\ main = "detaching"
    /\ open = {}
    /\ pollCtx' = TRUE
    /\ main' = "loop"
    /\ UNCHANGED <<open, queue, accepted, handled, signal, objs, pollerVars>>

\* Mutant: the loop ends with the interrupt and not with the channel.
ChannelClosedNotAwaited ==
    /\ main = "loop"
    /\ poller = "closed" \/ pollCtx
    /\ main' = "summary"
    /\ UNCHANGED <<open, queue, accepted, handled, signal, pollCtx, objs, pollerVars>>

\* The channel is closed: leave the loop.
ChannelClosed ==
    /\ main = "loop"
    /\ poller = "closed"
    /\ main' = "summary"
    /\ UNCHANGED <<open, queue, accepted, handled, signal, pollCtx, objs, pollerVars>>

\* Read the final counters and print; either may fail.
PrintSummary ==
    /\ main = "summary"
    /\ main' \in {"returning", "unwinding"}
    /\ UNCHANGED <<open, queue, accepted, handled, signal, pollCtx, objs, pollerVars>>

DeferredStopPolling ==
    /\ main \in {"returning", "unwinding"}
    /\ ~pollCtx /\ poller # "none"
    /\ pollCtx' = TRUE
    /\ UNCHANGED <<open, queue, accepted, handled, signal, objs, main, pollerVars>>

\* The second half of Detach: close the maps.
CloseObjects ==
    /\ InDetach
    /\ open = {} /\ objs
    /\ objs' = FALSE
    /\ UNCHANGED <<open, queue, accepted, handled, signal, pollCtx, main, pollerVars>>

ExitProcess ==
    /\ main \in {"returning", "unwinding"}
    /\ ~objs
    /\ main' = IF main = "returning" THEN "exited" ELSE "failed"
    /\ UNCHANGED <<open, queue, accepted, handled, signal, pollCtx, objs, pollerVars>>

Begin ==
    Load \/ InitialRate \/ Notify \/ NewManager \/ \E l \in Links : AttachLink(l)
Poll == PollTop \/ PollTake \/ PollEmpty \/ PollIdle \/ PollSendCancelled
Loop == Receive \/ ReceiveError \/ ChannelClosed
StopTracing == StopPolling \/ \E l \in Links : CloseLink(l)
Leave == PrintSummary \/ DeferredStopPolling \/ CloseObjects \/ ExitProcess
Failures ==
    \/ LoadFails \/ AttachFails \/ NewManagerFails \/ PressCtrlCEarly
    \/ PollError \/ PollPanic \/ ReceiveFails \/ TickFails

\* An ended process takes its goroutines with it.
Next ==
    /\ main \notin Ended
    /\ Emit \/ PressCtrlC \/ Begin \/ Poll \/ Loop \/ TakeSignal \/ StopTracing \/ Leave \/ Failures

\* The goroutines of the tracer are scheduled, and select does not ignore a
\* ready signal for ever.  Nothing obliges the user or the probes to do anything.
Fairness ==
    /\ WF_vars(Begin)
    /\ WF_vars(main \notin Ended /\ Poll)
    /\ WF_vars(main \notin Ended /\ Loop)
    /\ WF_vars(TakeSignal)
    /\ WF_vars(StopTracing)
    /\ WF_vars(Leave)

Spec == Init /\ [][Next]_vars /\ Fairness

-----------------------------------------------------------------------------
(* Properties *)

\* Program counters and buffers: the poller of PollEvents holds at most one event
\* and the queue keeps its max_entries.
PollingTypeOK ==
    /\ open \subseteq Links
    /\ queue \in Seq(Nat) /\ Len(queue) <= QueueCap
    /\ accepted \in Nat
    /\ handled \in Seq(Nat)
    /\ signal \in {"none", "pending", "taken"}
    /\ pollCtx \in BOOLEAN /\ objs \in BOOLEAN /\ draining \in BOOLEAN
    /\ main \in MainSteps
    /\ poller \in PollerSteps
    /\ held \in Seq(Nat) /\ Len(held) <= 1

\* The events that the queue accepted, in order.
Accepted == [i \in 1 .. accepted |-> i]

\* bpf.go PollEvents, whose two sends and three reads of the context must
\* between them neither lose, nor repeat, nor reorder an event: what has been
\* handled, what the poller holds and what is queued is what was accepted.
PipeIsFIFO == main \in Graceful => handled \o held \o queue = Accepted

\* tracer.go: "Stop probe production first on SIGINT, then drain all events
\* already in the queue before reading final loss counters and printing the
\* summary": when the summary is printed no link is left that could produce
\* another event and every event that was accepted has been handled.
SummaryIsComplete ==
    main \in {"summary", "returning", "exited"} => open = {} /\ handled = Accepted

\* bpf.go Detach sets b.objs to nil, which PollEvents reads without a lock: on
\* the path without errors the maps are only closed once the poller has ended,
\* and they are there as long as a probe may use them.
MapsOutlivePoller ==
    /\ (main \in Graceful /\ ~objs) => poller \in {"none", "closed"}
    /\ ~objs => open = {}

\* tracer.go defers Detach before Attach: wherever Start gives up, in the middle
\* of the list of probes included, no uprobe and no map stays behind in the kernel.
NothingLeftBehind == main \in Ended => open = {} /\ ~objs

\* An interrupt ends the tracer, however many events are queued and whichever
\* goroutine is blocked on the unbuffered channel at that moment.
InterruptEnds == (signal = "pending") ~> (main \in Ended)

\* Every event that the queue accepted is handled unless the tracer fails, also
\* those of probes that were attached before the loop began, and also when the
\* user never presses Ctrl-C.
EventsAreHandled ==
    \A n \in 1 .. MaxEvents : (accepted >= n) ~> (Len(handled) >= n \/ main \in Failing)

\* The abstract pipe's view of the session.
Status ==
    CASE main \in Failing -> "failed"
      [] main \in {"summary", "returning", "exited"} -> "complete"
      [] main \in {"loop", "detaching"} /\ open = {} -> "stopping"
      [] OTHER -> "running"

Pipe == INSTANCE EventPipe WITH status <- Status

\* The loop, the poller and StopTracing implement the pipe: every step of theirs is
\* a step of it or none.
ImplementsPipe == Pipe!SafeSpec
=============================================================================
