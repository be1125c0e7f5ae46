------------------------------ MODULE FuncAgg ------------------------------
(***************************************************************************)
(* The per-function statistics of aggregate mode: recordAgg and            *)
(* recordRetval of internal/eventmanager/handler.go on the funcAgg of      *)
(* internal/eventmanager/eventmanager.go.                                  *)
(*                                                                         *)
(* recordRetval is the Space-Saving heavy-hitter sketch with a table of    *)
(* maxAggregateRetvals entries; every call counts with the weight of its   *)
(* root sample.  The history variables trueWeight and trueCount are what   *)
(* an unbounded table would hold.                                          *)
(***************************************************************************)
EXTENDS Integers, FiniteSets, FiniteSetsExt

CONSTANTS
    Values,      \* non-empty rendered return values
    Weights,     \* sample denominators that events carry
    Elapsed,     \* latencies of recorded calls
    Edges,       \* upper edges of the latency buckets, as a set
    MaxRetvals,  \* maxAggregateRetvals: 64 in the code
    MaxCalls     \* bound of the model: calls recorded

ASSUME TableAssumption == MaxRetvals \in Nat \ {0} /\ IsFiniteSet(Values)
ASSUME InputAssumption ==
    /\ Weights \subseteq Nat
    /\ Elapsed \subseteq Nat
    /\ Edges \subseteq Nat /\ IsFiniteSet(Edges)
    /\ MaxCalls \in Nat

VARIABLES
    calls, weightedCalls,          \* funcAgg.calls, .weightedCalls
    latencies, weightedLatencies,  \* the histograms, by bucket
    tracked,                       \* the keys of funcAgg.retvals
    count,                         \* retvalCount.count of each key
    weightedCount, weightedError,  \* the two weighted fields of each key
    trueCount, trueWeight          \* history: what each value really scored

table == <<tracked, count, weightedCount, weightedError>>
histogram == <<calls, weightedCalls, latencies, weightedLatencies>>
history == <<trueCount, trueWeight>>
vars == <<histogram, table, history>>

Overflow == -1                 \* the bucket past the last edge
Buckets == Edges \cup {Overflow}

\* The first edge that covers the latency, else the overflow bucket.
Bucket(elapsed) ==
    IF \E b \in Edges : elapsed <= b
      THEN CHOOSE b \in Edges : elapsed <= b /\ \A c \in Edges : elapsed <= c => b <= c
      ELSE Overflow

\* AggregateStack and recordAgg both read a weight of 0 as 1.
EffectiveWeight(w) == IF w = 0 THEN 1 ELSE w

Init ==
    /\ calls = 0 /\ weightedCalls = 0
    /\ latencies = [b \in Buckets |-> 0]
    /\ weightedLatencies = [b \in Buckets |-> 0]
    /\ tracked = {}
    /\ count = [v \in Values |-> 0]
    /\ weightedCount = [v \in Values |-> 0]
    /\ weightedError = [v \in Values |-> 0]
    /\ trueCount = [v \in Values |-> 0]
    /\ trueWeight = [v \in Values |-> 0]

-----------------------------------------------------------------------------
(* recordRetval: one action per branch. *)

BumpExisting(v, w) ==
    /\ v \in tracked
    /\ count' = [count EXCEPT ![v] = @ + 1]
    /\ weightedCount' = [weightedCount EXCEPT ![v] = @ + w]
    /\ UNCHANGED <<tracked, weightedError>>

\* Mutant: one entry too many.
InsertNewOffByOne(v, w) ==
    /\ v \notin tracked
    /\ Cardinality(tracked) <= MaxRetvals
    /\ tracked' = tracked \cup {v}
    /\ count' = [count EXCEPT ![v] = 1]
    /\ weightedCount' = [weightedCount EXCEPT ![v] = w]
    /\ weightedError' = [weightedError EXCEPT ![v] = 0]

InsertNew(v, w) ==
    /\ v \notin tracked
    /\ Cardinality(tracked) < MaxRetvals
    /\ tracked' = tracked \cup {v}
    /\ count' = [count EXCEPT ![v] = 1]
    /\ weightedCount' = [weightedCount EXCEPT ![v] = w]
    /\ weightedError' = [weightedError EXCEPT ![v] = 0]

\* Mutant: the scan forgets to compare.
MinimaAny == tracked

\* The entries the scan may pick: Go iterates the map in any order and keeps
\* the first strict minimum, so any entry of least weight.
Minima == {m \in tracked : \A t \in tracked : weightedCount[m] <= weightedCount[t]}

\* m makes room for v.
ReplaceEntry(m, v, weight, error) ==
    /\ tracked' = (tracked \ {m}) \cup {v}
    /\ count' = [count EXCEPT ![m] = 0, ![v] = 1]
    /\ weightedCount' = [weightedCount EXCEPT ![m] = 0, ![v] = weight]
    /\ weightedError' = [weightedError EXCEPT ![m] = 0, ![v] = error]

TableFull(v) == v \notin tracked /\ Cardinality(tracked) >= MaxRetvals

\* Mutants: the newcomer inherits the weight but not the error; it starts over;
\* its error is taken net of the new weight.
ReplaceMinimumNoError(v, w) ==
    TableFull(v) /\ \E m \in Minima : ReplaceEntry(m, v, weightedCount[m] + w, 0)

ReplaceMinimumStartsOver(v, w) ==
    TableFull(v) /\ \E m \in Minima : ReplaceEntry(m, v, w, 0)

ReplaceMinimumNetError(v, w) ==
    TableFull(v) /\ \E m \in Minima : ReplaceEntry(m, v, weightedCount[m] + w, weightedCount[m] - w)

ReplaceMinimum(v, w) ==
    /\ TableFull(v)
    /\ \E m \in Minima : ReplaceEntry(m, v, weightedCount[m] + w, weightedCount[m])

RecordRetval(v, w) ==
    /\ BumpExisting(v, w) \/ InsertNew(v, w) \/ ReplaceMinimum(v, w)
    /\ trueCount' = [trueCount EXCEPT ![v] = @ + 1]
    /\ trueWeight' = [trueWeight EXCEPT ![v] = @ + w]

\* Mutant: latencies past the last edge are in no bucket.
RecordLatencyInRange(elapsed, w) ==
    /\ calls' = calls + 1
    /\ weightedCalls' = weightedCalls + w
    /\ latencies' = [b \in Buckets |->
                       latencies[b] + IF b = Bucket(elapsed) /\ b # Overflow THEN 1 ELSE 0]
    /\ weightedLatencies' = [b \in Buckets |->
                       weightedLatencies[b] + IF b = Bucket(elapsed) /\ b # Overflow THEN w ELSE 0]

RecordLatency(elapsed, w) ==
    /\ calls' = calls + 1
    /\ weightedCalls' = weightedCalls + w
    /\ latencies' = [latencies EXCEPT ![Bucket(elapsed)] = @ + 1]
    /\ weightedLatencies' = [weightedLatencies EXCEPT ![Bucket(elapsed)] = @ + w]

\* recordAgg for a call whose return rendered to a value, and to nothing.
RecordAgg(elapsed, v, weight) ==
    /\ calls < MaxCalls
    /\ RecordLatency(elapsed, EffectiveWeight(weight))
    /\ RecordRetval(v, EffectiveWeight(weight))

RecordAggNoRetval(elapsed, weight) ==
    /\ calls < MaxCalls
    /\ RecordLatency(elapsed, EffectiveWeight(weight))
    /\ UNCHANGED <<table, history>>

Next ==
    \E elapsed \in Elapsed, weight \in Weights :
        \/ \E v \in Values : RecordAgg(elapsed, v, weight)
        \/ RecordAggNoRetval(elapsed, weight)

Spec == Init /\ [][Next]_vars

-----------------------------------------------------------------------------
(* Properties *)

\* funcAgg holds unsigned counters: none of them, errors included, goes below 0.
TypeOK ==
    /\ calls \in Nat /\ weightedCalls \in Nat
    /\ latencies \in [Buckets -> Nat] /\ weightedLatencies \in [Buckets -> Nat]
    /\ tracked \subseteq Values
    /\ count \in [Values -> Nat]
    /\ weightedCount \in [Values -> Nat] /\ weightedError \in [Values -> Nat]
    /\ trueCount \in [Values -> Nat] /\ trueWeight \in [Values -> Nat]

\* eventmanager.go: maxAggregateRetvals bounds the table.
TableBounded == Cardinality(tracked) <= MaxRetvals

\* print.go prints "≈E (error within R)": the estimate of a listed value is
\* never too low and too high by at most its error.
ErrorWithin ==
    \A v \in tracked :
        weightedCount[v] - weightedError[v] <= trueWeight[v] /\ trueWeight[v] <= weightedCount[v]

\* print.go prints a value of error 0 without "at least": it is exact in both
\* columns; with an error, the count is a lower bound.
CountedColumn ==
    \A v \in tracked :
        /\ count[v] <= trueCount[v]
        /\ weightedError[v] = 0 => count[v] = trueCount[v] /\ weightedCount[v] = trueWeight[v]

\* handler.go: "retaining likely top return values": a value that is not listed
\* weighs no more than any listed one, and nothing at all until the table fills.
UnlistedIsLight ==
    \A v \in Values \ tracked :
        /\ \A t \in tracked : trueWeight[v] <= weightedCount[t]
        /\ Cardinality(tracked) < MaxRetvals => trueWeight[v] = 0

Total(f) == MapThenSumSet(LAMBDA x : f[x], DOMAIN f)

TotalWeight == Total(trueWeight)

\* The Space-Saving guarantee: the printed error is at most total / table size,
\* so a value with a larger share of the weight is always listed.
HeavyHittersListed ==
    /\ \A v \in tracked : weightedError[v] * MaxRetvals <= TotalWeight
    /\ \A v \in Values : trueWeight[v] * MaxRetvals > TotalWeight => v \in tracked

\* The printed histogram columns add up to the printed call counts.
HistogramComplete ==
    /\ Total(latencies) = calls
    /\ Total(weightedLatencies) = weightedCalls
=============================================================================
