-------------------------- MODULE AdaptiveSampler --------------------------
(***************************************************************************)
(* The feedback controller of cmd/sampler.go, driven once per second by    *)
(* the sampling tick of Tracer.Start (cmd/tracer.go), and the BPF          *)
(* sample-config word it writes (internal/bpf).                            *)
(*                                                                         *)
(* One step is one call of adjust.  Its inputs are what the tick measured: *)
(* the Go heap size and, for the window since the previous tick, how many  *)
(* events the BPF queue accepted (emitted) and refused (dropped).  The     *)
(* float arithmetic of the code is done here on exact rationals, because   *)
(* the loss rate is always dropped / (emitted + dropped).                  *)
(***************************************************************************)
EXTENDS Integers

CONSTANTS
    MaxSampleDenominator,  \* maxSampleDenominator: 2^20 in the code
    Target70, Target85,    \* denominators at 70% / 85% of the budget: 8, 64
    RecoverStableWindows,  \* recoverStableWindows: 5
    UnlockStableWindows,   \* unlockStableWindows: 15
    MemoryLimit,           \* --sample-budget, in any unit
    HeapSizes,             \* heap sizes a tick may read
    WindowCounts,          \* per-window queue counters a tick may read
    Uint32Mod              \* 2^32: what a float64 -> uint32 conversion wraps at

ASSUME DenominatorAssumption ==
    /\ MaxSampleDenominator \in Nat \ {0}
    /\ Target70 \in 1 .. MaxSampleDenominator
    /\ Target85 \in 1 .. MaxSampleDenominator
    /\ Uint32Mod \in Nat
    /\ Uint32Mod > MaxSampleDenominator

ASSUME WindowAssumption ==
    /\ RecoverStableWindows \in Nat \ {0}
    /\ UnlockStableWindows \in Nat \ {0}
    /\ MemoryLimit \in Nat
    /\ HeapSizes \subseteq Nat
    /\ WindowCounts \subseteq Nat

VARIABLES
    den,            \* adaptiveSampler.den
    unsafeDen,      \* adaptiveSampler.unsafeDen
    stableWindows,  \* adaptiveSampler.stableWindows
    configured,     \* sample_config_map[0].denominator; 0 until first written
    pressure,       \* environment: FALSE once heap and queue stay calm
    lossFree,       \* history: low-loss windows since the last lossy one,
                    \*   saturating at UnlockStableWindows
    worstLossy      \* history: largest den that dropped events since lossFree
                    \*   last reached UnlockStableWindows; 0 if none did

samplerVars == <<den, unsafeDen, stableWindows, configured, pressure, lossFree, worstLossy>>

Denominators == 1 .. MaxSampleDenominator

Larger(a, b) == IF a > b THEN a ELSE b
Smaller(a, b) == IF a < b THEN a ELSE b

-----------------------------------------------------------------------------
(* The pure parts of the controller. *)

Percent(value, p) == (value \div 100) * p + ((value % 100) * p) \div 100

\* heapTarget: the denominator that the heap alone asks for.
HeapTarget(current, heapAlloc) ==
    CASE heapAlloc >= MemoryLimit -> MaxSampleDenominator
      [] heapAlloc < MemoryLimit /\ heapAlloc >= Percent(MemoryLimit, 85) -> Target85
      [] heapAlloc < Percent(MemoryLimit, 85) /\ heapAlloc >= Percent(MemoryLimit, 70) -> Target70
      [] heapAlloc < Percent(MemoryLimit, 70) /\ heapAlloc > Percent(MemoryLimit, 45) -> current
      [] OTHER -> 1

\* lossRateSince(...) > lossNoiseThreshold, that is dropped / total > 1/50.
\* A window without events has loss rate 0.
Lossy(emitted, dropped) == 50 * dropped > emitted + dropped

\* ceil(current * 1.5 / (1 - lossRate)), the quotient over the reals.
HeadroomDenominator(current, emitted, dropped) ==
    (3 * current * (emitted + dropped) + 2 * emitted - 1) \div (2 * emitted)

\* Mutant: the cap is dropped.
LossRaisedUncapped(current, emitted, dropped) ==
    IF emitted = 0
      THEN current + 1
      ELSE Larger(HeadroomDenominator(current, emitted, dropped) % Uint32Mod, current + 1)

\* lossRaisedDenominator.  When nothing was emitted the quotient is +Inf, which
\* the amd64 conversion to uint32 turns into 0; a quotient past the range of
\* uint32 keeps its low bits.
LossRaisedDenominator(current, emitted, dropped) ==
    LET converted == IF emitted = 0
                       THEN 0
                       ELSE HeadroomDenominator(current, emitted, dropped) % Uint32Mod
    IN  Smaller(MaxSampleDenominator,
                IF converted <= current THEN current + 1 ELSE converted)

\* current_sample_denominator in ftrace.c: what the probes sample with.
CurrentSampleDenominator(config) == IF config <= 1 THEN 1 ELSE config

-----------------------------------------------------------------------------
SamplerInit ==
    /\ den = 1
    /\ unsafeDen = 0
    /\ stableWindows = 0
    /\ configured = 0
    /\ pressure = TRUE
    /\ lossFree = UnlockStableWindows
    /\ worstLossy = 0

\* The target is above den: jump to it.
Jump(target) ==
    /\ target > den
    /\ den' = target
    /\ stableWindows' = 0

\* Mutant: the floor itself counts as safe.
RecoverOntoFloor(target, stable, floor) ==
    /\ target < den
    /\ stable >= RecoverStableWindows
    /\ den \div 2 >= floor
    /\ den' = Larger(den \div 2, target)
    /\ stableWindows' = 0

\* The target is below den and the run of stable windows is long enough: halve.
Recover(target, stable, floor) ==
    /\ target < den
    /\ stable >= RecoverStableWindows
    /\ den \div 2 > floor
    /\ den' = Larger(den \div 2, target)
    /\ stableWindows' = 0

Hold(target, stable, floor) ==
    /\ ~(target > den)
    /\ ~(target < den /\ stable >= RecoverStableWindows /\ den \div 2 > floor)
    /\ den' = den
    /\ stableWindows' = stable

\* The second half of adjust: hysteresis around the combined target.
Move(target, stable, floor) ==
    \/ Jump(target)
    \/ Recover(target, stable, floor)
    \/ Hold(target, stable, floor)

\* Mutant: only increases are published.
PublishIncreases == configured' = IF den' > den THEN den' ELSE configured

\* The tick writes the map only when adjust reports a change.
Publish == configured' = IF den' # den THEN den' ELSE configured

\* adjust after a window that dropped events.
AdjustLossy(heapAlloc, emitted, dropped) ==
    /\ Lossy(emitted, dropped)
    /\ unsafeDen' = Larger(den, unsafeDen)
    /\ Move(Larger(HeapTarget(den, heapAlloc),
                   LossRaisedDenominator(den, emitted, dropped)), 0, unsafeDen')
    /\ Publish
    /\ lossFree' = 0
    /\ worstLossy' = Larger(den, worstLossy)

\* Mutant: the unsafe floor is never released.
AdjustStableNoRelease(heapAlloc, emitted, dropped) ==
    /\ ~Lossy(emitted, dropped)
    /\ LET stable == stableWindows + 1
           unlock == stable >= UnlockStableWindows
       IN  Move(HeapTarget(den, heapAlloc), IF unlock THEN 0 ELSE stable, unsafeDen)
    /\ UNCHANGED unsafeDen
    /\ Publish
    /\ lossFree' = Smaller(lossFree + 1, UnlockStableWindows)
    /\ worstLossy' = IF lossFree' = UnlockStableWindows THEN 0 ELSE worstLossy

\* adjust after a window without (noticeable) loss.
AdjustStable(heapAlloc, emitted, dropped) ==
    /\ ~Lossy(emitted, dropped)
    /\ LET stable == stableWindows + 1
           unlock == stable >= UnlockStableWindows
       IN  /\ unsafeDen' = IF unlock THEN unsafeDen \div 2 ELSE unsafeDen
           /\ Move(HeapTarget(den, heapAlloc), IF unlock THEN 0 ELSE stable, unsafeDen')
    /\ Publish
    /\ lossFree' = Smaller(lossFree + 1, UnlockStableWindows)
    /\ worstLossy' = IF lossFree' = UnlockStableWindows THEN 0 ELSE worstLossy

Adjust(heapAlloc, emitted, dropped) ==
    AdjustLossy(heapAlloc, emitted, dropped) \/ AdjustStable(heapAlloc, emitted, dropped)

\* A window with a heap at which heapTarget is 1 and without any loss.
Calm(heapAlloc, dropped) ==
    /\ heapAlloc <= Percent(MemoryLimit, 45)
    /\ heapAlloc < Percent(MemoryLimit, 70)
    /\ dropped = 0

\* One sampling tick (also the initial adjust before Attach, with no window yet).
Tick ==
    \E heapAlloc \in HeapSizes, emitted, dropped \in WindowCounts :
        /\ ~pressure => Calm(heapAlloc, dropped)
        /\ Adjust(heapAlloc, emitted, dropped)
        /\ UNCHANGED pressure

\* Environment: from some point on the load stays low.
Relieve ==
    /\ pressure
    /\ pressure' = FALSE
    /\ UNCHANGED <<den, unsafeDen, stableWindows, configured, lossFree, worstLossy>>

SamplerNext == Tick \/ Relieve

\* The sampling ticker fires every second for as long as the tracer runs.
SamplerFairness == WF_samplerVars(Tick)

SamplerSpec == SamplerInit /\ [][SamplerNext]_samplerVars /\ SamplerFairness

-----------------------------------------------------------------------------
(* Properties *)

\* The fields of adaptiveSampler and the map word stay in the ranges the code
\* relies on: a denominator is never 0 and never above the cap.
SamplerTypeOK ==
    /\ den \in Denominators
    /\ unsafeDen \in 0 .. MaxSampleDenominator
    /\ stableWindows \in 0 .. UnlockStableWindows - 1
    /\ configured \in 0 .. MaxSampleDenominator
    /\ pressure \in BOOLEAN
    /\ lossFree \in 0 .. UnlockStableWindows
    /\ worstLossy \in 0 .. MaxSampleDenominator

\* sampler.go: "recovery never goes back to it (or below) until a long run of
\* low-loss windows releases the floor": whenever the denominator goes down, it
\* stays above every denominator that dropped events and has not been followed
\* by UnlockStableWindows consecutive low-loss windows.
NeverRecoverIntoLoss == [][den' < den => den' > worstLossy']_samplerVars

\* tracer.go writes the BPF map only when adjust reports a change: the rate the
\* probes sample with is nevertheless always the controller's.
KernelFollowsSampler == CurrentSampleDenominator(configured) = den

\* The two facts behind NeverRecoverIntoLoss: the floor covers every recent
\* lossy denominator, and den is above the floor unless it is capped.
FloorCoversLoss ==
    /\ worstLossy <= unsafeDen
    /\ stableWindows <= lossFree
    /\ den > unsafeDen \/ den = MaxSampleDenominator

\* AdaptiveSampling.md 5: once both pressures are gone the denominator falls
\* back to full collection, whatever floor earlier losses left behind.
RecoversToFullCollection == ~pressure ~> (den = 1)
=============================================================================
