----------------------------- MODULE EventPipe -----------------------------
(***************************************************************************)
(* What the queue, the poller and the event loop promise together: events  *)
(* are handed over one by one, each once, in the order in which they were  *)
(* accepted; when tracing is stopped none is added and all are handed      *)
(* over; only then is the session complete.  A failure may come at any     *)
(* time and promises nothing.  Polling implements this.                    *)
(***************************************************************************)
EXTENDS Naturals, Sequences

VARIABLES
    accepted,  \* number of events accepted so far
    handled,   \* the events handed over, in order
    status     \* "running", "stopping", "complete", "failed"

pipeVars == <<accepted, handled, status>>

Init ==
    /\ accepted = 0
    /\ handled = <<>>
    /\ status = "running"

\* A failed session may leave probes attached for a while.
Accept ==
    /\ status \in {"running", "failed"}
    /\ accepted' = accepted + 1
    /\ UNCHANGED <<handled, status>>

\* The next event is the oldest one that has not been handed over.
Hand ==
    /\ status \in {"running", "stopping"}
    /\ Len(handled) < accepted
    /\ handled' = Append(handled, Len(handled) + 1)
    /\ UNCHANGED <<accepted, status>>

Stop ==
    /\ status = "running"
    /\ status' = "stopping"
    /\ UNCHANGED <<accepted, handled>>

Complete ==
    /\ status = "stopping"
    /\ Len(handled) = accepted
    /\ status' = "complete"
    /\ UNCHANGED <<accepted, handled>>

Fail ==
    /\ status # "failed"
    /\ status' = "failed"
    /\ UNCHANGED <<accepted, handled>>

Next == Accept \/ Hand \/ Stop \/ Complete \/ Fail

SafeSpec == Init /\ [][Next]_pipeVars
=============================================================================
