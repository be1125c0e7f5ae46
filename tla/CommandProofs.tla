--------------------------- MODULE CommandProofs ----------------------------
(***************************************************************************)
(* TLAPS proofs about the two loops of the ftrace command: the sampling    *)
(* tick (AdaptiveSampler), for every budget, every cap and every pair of   *)
(* window counts, and start, polling and shutdown (Polling), for every set *)
(* of links, queue size and number of events.  Each specification has its  *)
(* own variables and names; nothing here joins them.                       *)
(*                                                                         *)
(* The sampler: the inductive invariant is SamplerTypeOK together with     *)
(* KernelFollowsSampler and FloorCoversLoss; the last one says that the    *)
(* floor unsafeDen dominates the history variable worstLossy, because the  *)
(* floor is only lowered when stableWindows reaches UnlockStableWindows,   *)
(* and stableWindows never exceeds lossFree.                               *)
(*                                                                         *)
(* Polling: its safety properties, and that it implements EventPipe.  The  *)
(* invariant has two halves.  Control says what each place of Tracer.Start *)
(* knows of the links, the maps, the context and the poller, without       *)
(* looking at events.  PipeIsFIFO is about the events; it is kept by every *)
(* step of the path without errors, and Control turns it into              *)
(* SummaryIsComplete: a poller that has ended on that path was draining,   *)
(* so the context was cancelled, so every link was closed before it found  *)
(* the queue empty.                                                        *)
(***************************************************************************)
EXTENDS AdaptiveSampler, Polling, SequenceTheorems, TLAPS

-----------------------------------------------------------------------------
(* The sampler *)

\* The heap alone never asks for a denominator outside 1 .. the maximum.
LEMMA HeapTargetRange ==
    ASSUME NEW current \in Denominators, NEW heapAlloc \in Nat
    PROVE  HeapTarget(current, heapAlloc) \in Denominators
BY DenominatorAssumption DEF HeapTarget, Denominators

\* The loss signal asks for more than the current denominator, up to the cap,
\* whatever the float conversion does.
LEMMA LossRaisedRange ==
    ASSUME NEW current \in Denominators, NEW emitted \in Nat, NEW dropped \in Nat
    PROVE  /\ LossRaisedDenominator(current, emitted, dropped) \in Denominators
           /\ \/ LossRaisedDenominator(current, emitted, dropped) > current
              \/ LossRaisedDenominator(current, emitted, dropped) = MaxSampleDenominator
<1> DEFINE n == 3 * current * (emitted + dropped) + 2 * emitted - 1
           q == HeadroomDenominator(current, emitted, dropped)
           converted == IF emitted = 0 THEN 0 ELSE q % Uint32Mod
<1>1. current \in Nat /\ MaxSampleDenominator \in Nat /\ Uint32Mod \in Nat /\ Uint32Mod > 0
  BY DenominatorAssumption DEF Denominators
<1>2. n \in Int
  BY <1>1
<1>3. emitted # 0 => q \in Int
  <2>1. SUFFICES ASSUME emitted # 0 PROVE q \in Int
    OBVIOUS
  <2>2. 2 * emitted \in Nat /\ 2 * emitted > 0
    BY <2>1
  <2>3. q = n \div (2 * emitted)
    BY DEF HeadroomDenominator
  <2> HIDE DEF n, q
  <2>4. QED
    BY <1>2, <2>2, <2>3
<1>4. converted \in Nat
  <2> HIDE DEF q
  <2>1. CASE emitted = 0
    BY <2>1
  <2>2. CASE emitted # 0
    <3>1. q \in Int
      BY <1>3, <2>2
    <3>2. q % Uint32Mod \in 0 .. Uint32Mod - 1
      BY <3>1, <1>1
    <3>3. QED
      BY <3>2, <1>1, <2>2
  <2>3. QED
    BY <2>1, <2>2
<1>5. LossRaisedDenominator(current, emitted, dropped)
        = Smaller(MaxSampleDenominator,
                  IF converted <= current THEN current + 1 ELSE converted)
  BY DEF LossRaisedDenominator
<1> HIDE DEF converted
<1>6. QED
  BY <1>1, <1>4, <1>5, DenominatorAssumption DEF Smaller, Denominators

\* The inductive invariant.
SamplerInv == SamplerTypeOK /\ KernelFollowsSampler /\ FloorCoversLoss

\* newAdaptiveSampler establishes it.
LEMMA SamplerInitInv == SamplerInit => SamplerInv
BY DenominatorAssumption, WindowAssumption
DEF SamplerInit, SamplerInv, SamplerTypeOK, KernelFollowsSampler, FloorCoversLoss, Denominators,
    CurrentSampleDenominator

\* What the hysteresis does with any target, stable count and floor.
LEMMA MoveStep ==
    ASSUME SamplerTypeOK,
           NEW target \in Denominators,
           NEW stable \in 0 .. UnlockStableWindows - 1,
           NEW floor \in 0 .. MaxSampleDenominator,
           Move(target, stable, floor)
    PROVE  /\ den' \in Denominators
           /\ den' >= den \/ den' > floor
           /\ den' >= target \/ den' = den
           /\ den' >= target
              \/ ~(stable >= RecoverStableWindows /\ den \div 2 > floor)
           /\ stableWindows' \in 0 .. stable
BY DenominatorAssumption, WindowAssumption
DEF Move, Jump, Recover, Hold, Larger, SamplerTypeOK, Denominators

\* adjust after a lossy window keeps the invariant and never lowers den.
LEMMA LossyStep ==
    ASSUME SamplerInv, NEW heapAlloc \in HeapSizes,
           NEW emitted \in WindowCounts, NEW dropped \in WindowCounts,
           AdjustLossy(heapAlloc, emitted, dropped), UNCHANGED pressure
    PROVE  SamplerInv' /\ (den' < den => den' > worstLossy')
<1> DEFINE raised == LossRaisedDenominator(den, emitted, dropped)
           heap == HeapTarget(den, heapAlloc)
           target == Larger(heap, raised)
<1>1. /\ heapAlloc \in Nat /\ emitted \in Nat /\ dropped \in Nat /\ den \in Denominators
  BY WindowAssumption DEF SamplerInv, SamplerTypeOK
<1>2. heap \in Denominators
  BY <1>1, HeapTargetRange
<1>3. raised \in Denominators /\ (raised > den \/ raised = MaxSampleDenominator)
  BY <1>1, LossRaisedRange
<1> HIDE DEF heap, raised
<1>4. target \in Denominators /\ (target > den \/ target = MaxSampleDenominator)
  BY <1>1, <1>2, <1>3, DenominatorAssumption DEF Larger, Denominators
<1>5. Move(target, 0, unsafeDen')
  BY DEF AdjustLossy, heap, raised
<1> HIDE DEF target
<1>6. unsafeDen' = Larger(den, unsafeDen) /\ unsafeDen' \in 0 .. MaxSampleDenominator
  BY <1>1, DenominatorAssumption DEF AdjustLossy, SamplerInv, SamplerTypeOK, Larger, Denominators
<1>7. /\ den' \in Denominators /\ den' >= den
      /\ (den' > unsafeDen' \/ den' = MaxSampleDenominator)
      /\ stableWindows' = 0
  BY <1>1, <1>4, <1>5, <1>6, DenominatorAssumption, WindowAssumption
  DEF Move, Jump, Recover, Hold, Larger, SamplerInv, SamplerTypeOK, Denominators, FloorCoversLoss
<1>8. lossFree' = 0 /\ worstLossy' = Larger(den, worstLossy)
  BY DEF AdjustLossy
<1>9. configured' = IF den' # den THEN den' ELSE configured
  BY DEF AdjustLossy, Publish
<1>10. SamplerTypeOK'
  BY <1>1, <1>6, <1>7, <1>8, <1>9, WindowAssumption, DenominatorAssumption
  DEF SamplerInv, SamplerTypeOK, Larger, Denominators
<1>11. KernelFollowsSampler'
  BY <1>1, <1>7, <1>9 DEF SamplerInv, KernelFollowsSampler, CurrentSampleDenominator, Denominators
<1>12. FloorCoversLoss'
  BY <1>1, <1>6, <1>7, <1>8 DEF SamplerInv, SamplerTypeOK, FloorCoversLoss, Larger, Denominators
<1>13. QED
  BY <1>1, <1>7, <1>10, <1>11, <1>12 DEF SamplerInv, Denominators

\* adjust after a quiet window keeps it and stays above the recent losses.
LEMMA StableStep ==
    ASSUME SamplerInv, NEW heapAlloc \in HeapSizes,
           NEW emitted \in WindowCounts, NEW dropped \in WindowCounts,
           AdjustStable(heapAlloc, emitted, dropped), UNCHANGED pressure
    PROVE  SamplerInv' /\ (den' < den => den' > worstLossy')
<1> DEFINE target == HeapTarget(den, heapAlloc)
           unlock == stableWindows + 1 >= UnlockStableWindows
           stable == IF unlock THEN 0 ELSE stableWindows + 1
<1>1. heapAlloc \in Nat /\ den \in Denominators
  BY WindowAssumption DEF SamplerInv, SamplerTypeOK
<1>2. target \in Denominators
  BY <1>1, HeapTargetRange
<1>3. stable \in 0 .. UnlockStableWindows - 1
  BY WindowAssumption DEF SamplerInv, SamplerTypeOK
<1>4. /\ Move(target, stable, unsafeDen')
      /\ unsafeDen' = IF unlock THEN unsafeDen \div 2 ELSE unsafeDen
  BY DEF AdjustStable
<1>5. unsafeDen' \in 0 .. MaxSampleDenominator /\ unsafeDen' <= unsafeDen
  BY <1>4, DenominatorAssumption DEF SamplerInv, SamplerTypeOK
<1> HIDE DEF target
<1>6. /\ den' \in Denominators
      /\ den' >= den \/ den' > unsafeDen'
      /\ stableWindows' \in 0 .. stable
  BY <1>2, <1>3, <1>4, <1>5, MoveStep DEF SamplerInv
<1>7. /\ lossFree' = Smaller(lossFree + 1, UnlockStableWindows)
      /\ worstLossy' = IF lossFree' = UnlockStableWindows THEN 0 ELSE worstLossy
      /\ configured' = IF den' # den THEN den' ELSE configured
  BY DEF AdjustStable, Publish
\* The floor is lowered only in a window that completes a long quiet run, and
\* then the history of lossy denominators is empty.
<1>8. worstLossy' <= unsafeDen'
  <2>1. CASE unlock
    <3>1. lossFree' = UnlockStableWindows
      BY <2>1, <1>7, WindowAssumption DEF SamplerInv, SamplerTypeOK, FloorCoversLoss, Smaller
    <3>2. worstLossy' = 0
      BY <3>1, <1>7
    <3>3. unsafeDen' >= 0
      BY <1>5
    <3>4. QED
      BY <3>2, <3>3
  <2>2. CASE ~unlock
    BY <2>2, <1>4, <1>5, <1>7 DEF SamplerInv, SamplerTypeOK, FloorCoversLoss
  <2>3. QED
    BY <2>1, <2>2
<1>9. stableWindows' <= lossFree'
  BY <1>3, <1>6, <1>7, WindowAssumption DEF SamplerInv, SamplerTypeOK, FloorCoversLoss, Smaller
<1>10. den' > unsafeDen' \/ den' = MaxSampleDenominator
  BY <1>1, <1>5, <1>6, DenominatorAssumption DEF SamplerInv, SamplerTypeOK, FloorCoversLoss, Denominators
<1>11. SamplerTypeOK'
  BY <1>3, <1>5, <1>6, <1>7, <1>8, WindowAssumption, DenominatorAssumption
  DEF SamplerInv, SamplerTypeOK, Smaller, Denominators
<1>12. KernelFollowsSampler'
  BY <1>1, <1>6, <1>7 DEF SamplerInv, KernelFollowsSampler, CurrentSampleDenominator, Denominators
<1>13. QED
  BY <1>1, <1>5, <1>6, <1>8, <1>9, <1>10, <1>11, <1>12
  DEF SamplerInv, SamplerTypeOK, FloorCoversLoss, Denominators

\* The environment does not touch the controller.
LEMMA RelieveStep ==
    ASSUME SamplerInv, Relieve
    PROVE  SamplerInv' /\ den' = den
BY DEF Relieve, SamplerInv, SamplerTypeOK, KernelFollowsSampler, FloorCoversLoss

\* Every step of the specification.
LEMMA SamplerNextInv ==
    ASSUME SamplerInv, [SamplerNext]_samplerVars
    PROVE  SamplerInv' /\ (den' < den => den' > worstLossy')
<1>1. CASE Tick
  BY <1>1, LossyStep, StableStep DEF Tick, Adjust
<1>2. CASE Relieve
  BY <1>2, RelieveStep DEF SamplerInv, SamplerTypeOK, Denominators
<1>3. CASE UNCHANGED samplerVars
  BY <1>3 DEF samplerVars, SamplerInv, SamplerTypeOK, KernelFollowsSampler, FloorCoversLoss, Denominators
<1>4. QED
  BY <1>1, <1>2, <1>3 DEF SamplerNext

\* The denominator stays within 1 .. maxSampleDenominator and every other field
\* of the sampler within its range, for all inputs of adjust.
THEOREM SamplerTypeCorrect == SamplerSpec => []SamplerTypeOK
BY SamplerInitInv, SamplerNextInv, PTL DEF SamplerSpec, SamplerInv

\* The rate written to sample_config_map is always the controller's rate.
THEOREM SamplerReachesKernel == SamplerSpec => []KernelFollowsSampler
BY SamplerInitInv, SamplerNextInv, PTL DEF SamplerSpec, SamplerInv

\* The unsafe floor dominates every recently lossy denominator, and the current
\* denominator is above it or capped.
THEOREM SamplerFloor == SamplerSpec => []FloorCoversLoss
BY SamplerInitInv, SamplerNextInv, PTL DEF SamplerSpec, SamplerInv

\* Recovery never returns to a denominator that dropped events before a full
\* run of low-loss windows has passed.
THEOREM SamplerNeverOscillates == SamplerSpec => NeverRecoverIntoLoss
<1>1. ASSUME SamplerInv, [SamplerNext]_samplerVars
      PROVE  [den' < den => den' > worstLossy']_samplerVars
  BY <1>1, SamplerNextInv
<1>2. QED
  BY <1>1, SamplerInitInv, SamplerNextInv, PTL DEF SamplerSpec, NeverRecoverIntoLoss

-----------------------------------------------------------------------------
(* Polling: what the places of Tracer.Start know *)

\* The poller holds an event exactly while it tries to send it.
HeldWhileSending == held # <<>> <=> poller = "send"

\* Before the loop: no poller and no cancelled context; Attach has maps to write to.
StartUpKnows ==
    /\ main \in StartUp => poller = "none" /\ ~pollCtx /\ signal # "taken"
    /\ main = "load" => open = {} /\ ~objs
    /\ main \in StartUp \ {"load"} => objs
    /\ main \in {"notify", "manager"} => open = Links

\* In the loop: every link is open until the interrupt, none after StopTracing.
LoopKnows ==
    /\ main \in {"loop", "detaching", "summary"} => objs
    /\ main \in {"loop", "detaching"} => poller # "none"
    /\ main = "loop" => IF signal = "taken" THEN open = {} ELSE open = Links /\ ~pollCtx
    /\ main = "detaching" => signal = "taken" /\ ~pollCtx

\* On the path without errors the poller ends by draining, after the last link.
PollerKnows ==
    /\ draining => pollCtx
    /\ (main \in Graceful /\ pollCtx) => open = {}
    /\ (main \in Graceful /\ poller = "closed") => draining /\ queue = <<>>
    /\ main \in {"summary", "returning", "exited"} => poller = "closed"

\* The maps go after the links, and both before the process.
MapsKnow ==
    /\ ~objs => open = {}
    /\ main \in Ended => ~objs

Control == HeldWhileSending /\ StartUpKnows /\ LoopKnows /\ PollerKnows /\ MapsKnow

IInv == PollingTypeOK /\ Control /\ PipeIsFIFO

-----------------------------------------------------------------------------
(* Control *)

\* Next is a step of one of the operations.
LEMMA Steps ==
    ASSUME Next
    PROVE  \/ Emit \/ PressCtrlC \/ PressCtrlCEarly
           \/ Load \/ LoadFails \/ InitialRate \/ (\E l \in Links : AttachLink(l)) \/ AttachFails
           \/ Notify \/ NewManager \/ NewManagerFails
           \/ PollTop \/ PollTake \/ PollEmpty \/ PollError \/ PollPanic \/ PollIdle
           \/ PollSendCancelled
           \/ Receive \/ ReceiveFails \/ ReceiveError \/ TickFails \/ TakeSignal
           \/ (\E l \in Links : CloseLink(l)) \/ StopPolling \/ ChannelClosed
           \/ PrintSummary \/ DeferredStopPolling \/ CloseObjects \/ ExitProcess
BY DEF Next, Begin, Poll, Loop, StopTracing, Leave, Failures

\* Start begins in a state with Control.
LEMMA ControlInit == Init => Control
BY DEF Init, Control, HeldWhileSending, StartUpKnows, LoopKnows, PollerKnows, MapsKnow,
       StartUp, Graceful, Ended

\* Every operation keeps Control.
LEMMA ControlStep ==
    ASSUME PollingTypeOK, Control, Next
    PROVE  Control'
<1> USE DEF Control, HeldWhileSending, StartUpKnows, LoopKnows, PollerKnows, MapsKnow,
            StartUp, Graceful, Ended, pollerVars, PollingTypeOK
<1>1. CASE Emit
  BY <1>1 DEF Emit
<1>2. CASE PressCtrlC
  BY <1>2 DEF PressCtrlC
<1>3. CASE PressCtrlCEarly
  BY <1>3 DEF PressCtrlCEarly
<1>4. CASE Load
  BY <1>4 DEF Load
<1>5. CASE LoadFails
  BY <1>5 DEF LoadFails
<1>6. CASE InitialRate
  BY <1>6 DEF InitialRate
<1>7. ASSUME NEW l \in Links, AttachLink(l) PROVE Control'
  BY <1>7, PollingAssumption DEF AttachLink
<1>8. CASE AttachFails
  BY <1>8 DEF AttachFails
<1>9. CASE Notify
  BY <1>9 DEF Notify
<1>10. CASE NewManager
  BY <1>10 DEF NewManager
<1>11. CASE NewManagerFails
  BY <1>11 DEF NewManagerFails
<1>12. CASE PollTop
  BY <1>12 DEF PollTop
<1>13. CASE PollTake
  BY <1>13 DEF PollTake
<1>14. CASE PollEmpty
  BY <1>14 DEF PollEmpty
<1>15. CASE PollError
  BY <1>15 DEF PollError
<1>16. CASE PollPanic
  BY <1>16 DEF PollPanic
<1>17. CASE PollIdle
  BY <1>17 DEF PollIdle
<1>18. CASE PollSendCancelled
  BY <1>18 DEF PollSendCancelled
<1>19. CASE Receive
  BY <1>19 DEF Receive
<1>20. CASE ReceiveFails
  BY <1>20 DEF ReceiveFails
<1>21. CASE ReceiveError
  BY <1>21 DEF ReceiveError
<1>22. CASE TickFails
  BY <1>22 DEF TickFails
<1>23. CASE TakeSignal
  BY <1>23 DEF TakeSignal
<1>24. ASSUME NEW l \in Links, CloseLink(l) PROVE Control'
  BY <1>24 DEF CloseLink, InDetach
<1>25. CASE StopPolling
  BY <1>25 DEF StopPolling
<1>26. CASE ChannelClosed
  BY <1>26 DEF ChannelClosed
<1>27. CASE PrintSummary
  BY <1>27 DEF PrintSummary
<1>28. CASE DeferredStopPolling
  BY <1>28 DEF DeferredStopPolling
<1>29. CASE CloseObjects
  BY <1>29 DEF CloseObjects, InDetach
<1>30. CASE ExitProcess
  BY <1>30 DEF ExitProcess
<1>31. QED
  BY Steps, <1>1, <1>2, <1>3, <1>4, <1>5, <1>6, <1>7, <1>8, <1>9, <1>10, <1>11, <1>12, <1>13, <1>14, <1>15, <1>16, <1>17, <1>18, <1>19, <1>20, <1>21, <1>22, <1>23, <1>24, <1>25, <1>26, <1>27, <1>28, <1>29, <1>30

-----------------------------------------------------------------------------
(* Types *)

\* The initial state has its type.
LEMMA TypeInit == Init => PollingTypeOK
<1> SUFFICES ASSUME Init PROVE PollingTypeOK
  OBVIOUS
<1>1. Len(queue) <= QueueCap /\ Len(held) <= 1
  BY PollingAssumption DEF Init
<1>2. queue \in Seq(Nat) /\ handled \in Seq(Nat) /\ held \in Seq(Nat)
  BY DEF Init
<1>3. QED
  BY <1>1, <1>2 DEF Init, PollingTypeOK, MainSteps, PollerSteps, Graceful, StartUp

\* Every operation keeps the types; the queue and the poller's hand stay bounded.
LEMMA TypeStep ==
    ASSUME PollingTypeOK, Control, Next
    PROVE  PollingTypeOK'
<1> USE DEF PollingTypeOK, MainSteps, PollerSteps, Graceful, Failing, StartUp, Ended, pollerVars
<1>1. CASE Emit
  <2>1. Append(queue, accepted + 1) \in Seq(Nat)
        /\ Len(Append(queue, accepted + 1)) = Len(queue) + 1
    BY AppendProperties
  <2>2. Len(queue) \in Nat /\ QueueCap \in Nat
    BY LenProperties, PollingAssumption
  <2>3. QED
    BY <1>1, <2>1, <2>2 DEF Emit
<1>2. CASE PollTake
  <2>1. Head(queue) \in Nat /\ Tail(queue) \in Seq(Nat) /\ Len(Tail(queue)) = Len(queue) - 1
    BY <1>2, HeadTailProperties DEF PollTake
  <2>2. <<Head(queue)>> \in Seq(Nat) /\ Len(<<Head(queue)>>) = 1
    BY <2>1
  <2>3. Len(queue) \in Nat /\ QueueCap \in Nat
    BY LenProperties, PollingAssumption
  <2>4. QED
    BY <1>2, <2>1, <2>2, <2>3 DEF PollTake
<1>3. CASE Receive
  <2>1. handled \o held \in Seq(Nat) /\ <<>> \in Seq(Nat) /\ Len(<<>>) = 0
    BY ConcatProperties, EmptySeq
  <2>2. QED
    BY <1>3, <2>1 DEF Receive
<1>4. CASE PressCtrlC
  BY <1>4 DEF PressCtrlC
<1>5. CASE PressCtrlCEarly
  BY <1>5 DEF PressCtrlCEarly
<1>6. CASE Load
  BY <1>6 DEF Load
<1>7. CASE LoadFails
  BY <1>7 DEF LoadFails
<1>8. CASE InitialRate
  BY <1>8 DEF InitialRate
<1>9. ASSUME NEW l \in Links, AttachLink(l) PROVE PollingTypeOK'
  BY <1>9 DEF AttachLink
<1>10. CASE AttachFails
  BY <1>10 DEF AttachFails
<1>11. CASE Notify
  BY <1>11 DEF Notify
<1>12. CASE NewManager
  BY <1>12 DEF NewManager
<1>13. CASE NewManagerFails
  BY <1>13 DEF NewManagerFails
<1>14. CASE PollTop
  BY <1>14 DEF PollTop
<1>15. CASE PollEmpty
  BY <1>15 DEF PollEmpty
<1>16. CASE PollError
  BY <1>16 DEF PollError
<1>17. CASE PollPanic
  BY <1>17 DEF PollPanic
<1>18. CASE PollIdle
  BY <1>18 DEF PollIdle
<1>19. CASE PollSendCancelled
  BY <1>19 DEF PollSendCancelled
<1>20. CASE ReceiveFails
  BY <1>20 DEF ReceiveFails
<1>21. CASE ReceiveError
  BY <1>21 DEF ReceiveError
<1>22. CASE TickFails
  BY <1>22 DEF TickFails
<1>23. CASE TakeSignal
  BY <1>23 DEF TakeSignal
<1>24. ASSUME NEW l \in Links, CloseLink(l) PROVE PollingTypeOK'
  BY <1>24 DEF CloseLink
<1>25. CASE StopPolling
  BY <1>25 DEF StopPolling
<1>26. CASE ChannelClosed
  BY <1>26 DEF ChannelClosed
<1>27. CASE PrintSummary
  BY <1>27 DEF PrintSummary
<1>28. CASE DeferredStopPolling
  BY <1>28 DEF DeferredStopPolling
<1>29. CASE CloseObjects
  BY <1>29 DEF CloseObjects
<1>30. CASE ExitProcess
  BY <1>30 DEF ExitProcess
<1>31. QED
  BY Steps, <1>1, <1>2, <1>3, <1>4, <1>5, <1>6, <1>7, <1>8, <1>9, <1>10, <1>11, <1>12, <1>13, <1>14, <1>15, <1>16, <1>17, <1>18, <1>19, <1>20, <1>21, <1>22, <1>23, <1>24, <1>25, <1>26, <1>27, <1>28, <1>29, <1>30

-----------------------------------------------------------------------------
(* Events *)

\* The library states the same of \o alone.
LEMMA AppendConcat ==
    ASSUME NEW s \in Seq(Nat), NEW q \in Seq(Nat), NEW x \in Nat
    PROVE  s \o Append(q, x) = Append(s \o q, x)
OBVIOUS

\* The numbers up to n and the next one.
LEMMA AppendNext ==
    ASSUME NEW n \in Nat
    PROVE  Append([i \in 1 .. n |-> i], n + 1) = [i \in 1 .. n + 1 |-> i]
OBVIOUS

\* Taking the oldest event out of the queue and into the hand moves nothing.
LEMMA TakeFirst ==
    ASSUME NEW s \in Seq(Nat), NEW q \in Seq(Nat), q # <<>>
    PROVE  s \o <<Head(q)>> \o Tail(q) = s \o q
<1>1. <<Head(q)>> \in Seq(Nat) /\ Tail(q) \in Seq(Nat)
  BY HeadTailProperties
<1>2. <<Head(q)>> \o Tail(q) = q
  BY HeadTailProperties
<1>3. QED
  BY <1>1, <1>2, ConcatAssociative

\* No event has been accepted, handled or lost at the start.
LEMMA FIFOInit == Init => PipeIsFIFO
BY DEF Init, PipeIsFIFO, Accepted

\* Only three operations move events on the path without errors, and no
\* operation leads back to it.
LEMMA FIFOStep ==
    ASSUME PollingTypeOK, Control, PipeIsFIFO, Next
    PROVE  PipeIsFIFO'
<1> USE DEF PollingTypeOK, PipeIsFIFO
<1>1. CASE Emit
  <2>1. handled \o held \in Seq(Nat) /\ accepted + 1 \in Nat
    BY ConcatProperties
  <2>2. (handled \o held) \o Append(queue, accepted + 1)
          = Append(handled \o held \o queue, accepted + 1)
    BY <2>1, AppendConcat
  <2>3. Append(Accepted, accepted + 1) = [i \in 1 .. accepted + 1 |-> i]
    BY AppendNext DEF Accepted
  <2>4. QED
    BY <1>1, <2>2, <2>3 DEF Emit, pollerVars, Accepted
<1>2. CASE PollTake
  <2>1. held = <<>> /\ handled \o held = handled
    BY <1>2, ConcatEmptySeq DEF PollTake, Control, HeldWhileSending
  <2>2. QED
    BY <1>2, <2>1, TakeFirst DEF PollTake, Accepted
<1>3. CASE Receive
  <2>1. (handled \o held) \o <<>> = handled \o held
    BY ConcatProperties, ConcatEmptySeq
  <2>2. QED
    BY <1>3, <2>1 DEF Receive, Accepted
<1> USE DEF Accepted, Graceful, StartUp, pollerVars
<1>4. CASE PressCtrlC
  BY <1>4 DEF PressCtrlC
<1>5. CASE PressCtrlCEarly
  BY <1>5 DEF PressCtrlCEarly
<1>6. CASE Load
  BY <1>6 DEF Load
<1>7. CASE LoadFails
  BY <1>7 DEF LoadFails
<1>8. CASE InitialRate
  BY <1>8 DEF InitialRate
<1>9. ASSUME NEW l \in Links, AttachLink(l) PROVE PipeIsFIFO'
  BY <1>9 DEF AttachLink
<1>10. CASE AttachFails
  BY <1>10 DEF AttachFails
<1>11. CASE Notify
  BY <1>11 DEF Notify
<1>12. CASE NewManager
  BY <1>12 DEF NewManager
<1>13. CASE NewManagerFails
  BY <1>13 DEF NewManagerFails
<1>14. CASE PollTop
  BY <1>14 DEF PollTop
<1>15. CASE PollEmpty
  BY <1>15 DEF PollEmpty
<1>16. CASE PollError
  BY <1>16 DEF PollError
<1>17. CASE PollPanic
  BY <1>17 DEF PollPanic
<1>18. CASE PollIdle
  BY <1>18 DEF PollIdle
<1>19. CASE PollSendCancelled
  BY <1>19 DEF PollSendCancelled
<1>20. CASE ReceiveFails
  BY <1>20 DEF ReceiveFails
<1>21. CASE ReceiveError
  BY <1>21 DEF ReceiveError
<1>22. CASE TickFails
  BY <1>22 DEF TickFails
<1>23. CASE TakeSignal
  BY <1>23 DEF TakeSignal
<1>24. ASSUME NEW l \in Links, CloseLink(l) PROVE PipeIsFIFO'
  BY <1>24 DEF CloseLink
<1>25. CASE StopPolling
  BY <1>25 DEF StopPolling
<1>26. CASE ChannelClosed
  BY <1>26 DEF ChannelClosed
<1>27. CASE PrintSummary
  BY <1>27 DEF PrintSummary
<1>28. CASE DeferredStopPolling
  BY <1>28 DEF DeferredStopPolling
<1>29. CASE CloseObjects
  BY <1>29 DEF CloseObjects
<1>30. CASE ExitProcess
  BY <1>30 DEF ExitProcess
<1>31. QED
  BY Steps, <1>1, <1>2, <1>3, <1>4, <1>5, <1>6, <1>7, <1>8, <1>9, <1>10, <1>11, <1>12, <1>13, <1>14, <1>15, <1>16, <1>17, <1>18, <1>19, <1>20, <1>21, <1>22, <1>23, <1>24, <1>25, <1>26, <1>27, <1>28, <1>29, <1>30

-----------------------------------------------------------------------------
(* The invariant and what follows from it *)

\* Type, control and events together are inductive.
LEMMA Invariance == Spec => []IInv
<1>1. Init => IInv
  BY TypeInit, ControlInit, FIFOInit DEF IInv
<1>2. IInv /\ [Next]_vars => IInv'
  <2> SUFFICES ASSUME IInv, [Next]_vars PROVE IInv'
    OBVIOUS
  <2>1. CASE Next
    BY <2>1, TypeStep, ControlStep, FIFOStep DEF IInv
  <2>2. CASE UNCHANGED vars
    BY <2>2 DEF vars, IInv, PollingTypeOK, Control, HeldWhileSending, StartUpKnows, LoopKnows,
                PollerKnows, MapsKnow, PipeIsFIFO, Accepted
  <2>3. QED
    BY <2>1, <2>2
<1>3. QED
  BY <1>1, <1>2, PTL DEF Spec

\* The poller's hand holds at most one event and the queue at most QueueCap,
\* whatever the number of links and events.
THEOREM PollingTypeCorrect == Spec => []PollingTypeOK
<1>1. IInv => PollingTypeOK
  BY DEF IInv
<1>2. QED
  BY <1>1, Invariance, PTL

\* Between the queue, the poller and the loop no event is lost, repeated or
\* reordered on the path without errors.
THEOREM PipeCorrect == Spec => []PipeIsFIFO
<1>1. IInv => PipeIsFIFO
  BY DEF IInv
<1>2. QED
  BY <1>1, Invariance, PTL

\* The summary comes after the last event of the last link.
THEOREM SummaryCorrect == Spec => []SummaryIsComplete
<1>1. IInv => SummaryIsComplete
  <2> SUFFICES ASSUME IInv, main \in {"summary", "returning", "exited"}
               PROVE  open = {} /\ handled = Accepted
    BY DEF SummaryIsComplete
  <2>1. poller = "closed" /\ queue = <<>> /\ held = <<>> /\ open = {}
    BY DEF IInv, Control, PollerKnows, HeldWhileSending, Graceful
  <2>2. handled \o held \o queue = Accepted
    BY DEF IInv, PipeIsFIFO, Graceful
  <2>3. handled \o <<>> = handled
    BY ConcatEmptySeq DEF IInv, PollingTypeOK
  <2>4. QED
    BY <2>1, <2>2, <2>3
<1>2. QED
  BY <1>1, Invariance, PTL

\* Detach does not take the maps away from a poller or a probe that uses them.
THEOREM MapsCorrect == Spec => []MapsOutlivePoller
<1>1. IInv => MapsOutlivePoller
  BY DEF IInv, MapsOutlivePoller, Control, StartUpKnows, LoopKnows, PollerKnows, MapsKnow,
         StartUp, Graceful, Ended
<1>2. QED
  BY <1>1, Invariance, PTL

\* Wherever Start gives up, no uprobe and no map stays behind.
THEOREM CleanUpCorrect == Spec => []NothingLeftBehind
<1>1. IInv => NothingLeftBehind
  BY DEF IInv, NothingLeftBehind, Control, MapsKnow
<1>2. QED
  BY <1>1, Invariance, PTL

-----------------------------------------------------------------------------
(* Refinement *)

\* One element between two sequences.
LEMMA Between ==
    ASSUME NEW h \in Seq(Nat), NEW x \in Nat, NEW q \in Seq(Nat)
    PROVE  /\ Len(Append(h, x) \o q) = Len(h) + 1 + Len(q)
           /\ (Append(h, x) \o q)[Len(h) + 1] = x
           /\ Len(h) \in Nat /\ Len(q) \in Nat
OBVIOUS

\* The number behind h is the next one.
LEMMA NextInHand ==
    ASSUME NEW h \in Seq(Nat), NEW x \in Nat, NEW q \in Seq(Nat), NEW n \in Nat,
           Append(h, x) \o q = [i \in 1 .. n |-> i]
    PROVE  x = Len(h) + 1 /\ Len(h) < n
<1>1. Len([i \in 1 .. n |-> i]) = n
  OBVIOUS
<1>2. n = Len(h) + 1 + Len(q) /\ Len(h) \in Nat /\ Len(q) \in Nat
  BY <1>1, Between
<1>3. [i \in 1 .. n |-> i][Len(h) + 1] = Len(h) + 1
  BY <1>2
<1>4. (Append(h, x) \o q)[Len(h) + 1] = x
  BY Between
<1>5. x = Len(h) + 1
  BY <1>3, <1>4, Zenon
<1>6. Len(h) < n
  BY <1>2
<1>7. QED
  BY <1>5, <1>6

\* A sequence of length one.
LEMMA Singleton ==
    ASSUME NEW h \in Seq(Nat), NEW d \in Seq(Nat), Len(d) = 1
    PROVE  d[1] \in Nat /\ h \o d = Append(h, d[1])
<1>1. d[1] \in Nat
  BY ElementOfSeq
<1>2. d = <<d[1]>>
  OBVIOUS
<1>3. h \o <<d[1]>> = Append(h, d[1])
  BY <1>1, AppendIsConcat
<1>4. QED
  BY <1>1, <1>2, <1>3

\* A step of the tracer as the pipe sees it.
PipeStep == [Pipe!Next]_(Pipe!pipeVars)

\* The status of the pipe starts as running.
LEMMA PipeInit == Init => Pipe!Init
BY DEF Init, Pipe!Init, Status, Failing

\* Every operation is a step of the pipe or leaves it alone.
LEMMA PipeSteps ==
    ASSUME IInv, Next
    PROVE  PipeStep
<1> USE DEF PipeStep, Pipe!Next, Pipe!pipeVars, Pipe!Accept, Pipe!Hand, Pipe!Stop, Pipe!Complete,
            Pipe!Fail, Status, Failing
<1>1. CASE Emit
  <2>1. Status \in {"running", "failed"} /\ Status' = Status
    BY <1>1 DEF Emit, IInv, Control, PollerKnows, StartUpKnows, LoopKnows, MapsKnow, Graceful,
                StartUp, PollingTypeOK, MainSteps
  <2>2. QED
    BY <1>1, <2>1 DEF Emit, Pipe!Accept
<1>2. CASE Receive
  <2>1. Len(held) = 1
    <3>1. held # <<>> /\ held \in Seq(Nat) /\ Len(held) <= 1
      BY <1>2 DEF Receive, IInv, Control, HeldWhileSending, PollingTypeOK
    <3>2. Len(held) \in Nat /\ Len(held) # 0
      BY <3>1
    <3>3. \A n \in Nat : n # 0 /\ n <= 1 => n = 1
      OBVIOUS
    <3>4. QED
      BY <3>1, <3>2, <3>3, Zenon
  <2>2. held[1] \in Nat /\ handled \o held = Append(handled, held[1])
    BY <2>1, Singleton DEF IInv, PollingTypeOK
  <2>3. Append(handled, held[1]) \o queue = [i \in 1 .. accepted |-> i]
    BY <1>2, <2>2 DEF Receive, IInv, PipeIsFIFO, Accepted, Graceful
  <2>4. held[1] = Len(handled) + 1 /\ Len(handled) < accepted
    BY <2>2, <2>3, NextInHand DEF IInv, PollingTypeOK
  <2>5. Status \in {"running", "stopping"} /\ Status' = Status
    BY <1>2 DEF Receive
  <2>6. QED
    BY <1>2, <2>2, <2>4, <2>5 DEF Receive, Pipe!Hand
<1>3. CASE ChannelClosed
  <2>1. Len(handled) = accepted
    <3>1. queue = <<>> /\ held = <<>>
      BY <1>3 DEF ChannelClosed, IInv, Control, PollerKnows, HeldWhileSending, Graceful
    <3>2. handled \o held \o queue = Accepted
      BY <1>3 DEF ChannelClosed, IInv, PipeIsFIFO, Graceful
    <3>3. handled \o <<>> = handled
      BY ConcatEmptySeq DEF IInv, PollingTypeOK
    <3>4. handled = Accepted
      BY <3>1, <3>2, <3>3
    <3>5. QED
      BY <3>4 DEF Accepted, IInv, PollingTypeOK
  <2>2. open = {}
    BY <1>3 DEF ChannelClosed, IInv, Control, PollerKnows, Graceful
  <2>3. QED
    BY <1>3, <2>1, <2>2 DEF ChannelClosed, pollerVars
<1> USE DEF IInv, Control, PollerKnows, StartUpKnows, LoopKnows, MapsKnow, Graceful, Ended,
            StartUp, pollerVars
<1>4. CASE PressCtrlC
  BY <1>4 DEF PressCtrlC
<1>5. CASE Load
  BY <1>5 DEF Load
<1>6. CASE InitialRate
  BY <1>6 DEF InitialRate
<1>7. ASSUME NEW l \in Links, AttachLink(l) PROVE PipeStep
  BY <1>7 DEF AttachLink
<1>8. CASE Notify
  BY <1>8 DEF Notify
<1>9. CASE NewManager
  BY <1>9, PollingAssumption DEF NewManager
<1>10. CASE PollTop
  BY <1>10 DEF PollTop
<1>11. CASE PollTake
  BY <1>11 DEF PollTake
<1>12. CASE PollEmpty
  BY <1>12 DEF PollEmpty
<1>13. CASE PollError
  BY <1>13 DEF PollError
<1>14. CASE PollPanic
  BY <1>14 DEF PollPanic
<1>15. CASE PollIdle
  BY <1>15 DEF PollIdle
<1>16. CASE PollSendCancelled
  BY <1>16 DEF PollSendCancelled
<1>17. CASE TakeSignal
  BY <1>17, PollingAssumption DEF TakeSignal
<1>18. CASE StopPolling
  BY <1>18 DEF StopPolling
<1>19. CASE DeferredStopPolling
  BY <1>19 DEF DeferredStopPolling
<1>20. CASE CloseObjects
  BY <1>20 DEF CloseObjects, InDetach
<1>21. CASE ExitProcess
  BY <1>21 DEF ExitProcess
<1>22. CASE PressCtrlCEarly
  BY <1>22 DEF PressCtrlCEarly
<1>23. CASE LoadFails
  BY <1>23 DEF LoadFails
<1>24. CASE AttachFails
  BY <1>24 DEF AttachFails
<1>25. CASE NewManagerFails
  BY <1>25 DEF NewManagerFails
<1>26. CASE ReceiveFails
  BY <1>26 DEF ReceiveFails
<1>27. CASE ReceiveError
  BY <1>27 DEF ReceiveError
<1>28. CASE TickFails
  BY <1>28 DEF TickFails
<1>29. CASE PrintSummary
  BY <1>29 DEF PrintSummary
<1>30. ASSUME NEW l \in Links, CloseLink(l) PROVE PipeStep
  BY <1>30 DEF CloseLink, InDetach
<1>31. QED
  BY Steps, <1>1, <1>2, <1>3, <1>4, <1>5, <1>6, <1>7, <1>8, <1>9, <1>10, <1>11, <1>12, <1>13, <1>14, <1>15, <1>16, <1>17, <1>18, <1>19, <1>20, <1>21, <1>22, <1>23, <1>24, <1>25, <1>26, <1>27, <1>28, <1>29, <1>30

\* Tracer.Start, the goroutine of PollEvents, StopTracing and Detach together
\* implement the pipe.
THEOREM PollingImplementsPipe == Spec => ImplementsPipe
<1>1. IInv /\ [Next]_vars => PipeStep
  <2> SUFFICES ASSUME IInv, [Next]_vars PROVE PipeStep
    OBVIOUS
  <2>1. CASE Next
    BY <2>1, PipeSteps
  <2>2. CASE UNCHANGED vars
    BY <2>2 DEF vars, PipeStep, Pipe!pipeVars, Status
  <2>3. QED
    BY <2>1, <2>2
<1>2. QED
  BY <1>1, PipeInit, Invariance, PTL DEF Spec, ImplementsPipe, Pipe!SafeSpec, PipeStep
=============================================================================
