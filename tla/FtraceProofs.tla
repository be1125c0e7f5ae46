---------------------------- MODULE FtraceProofs ----------------------------
(***************************************************************************)
(* TLAPS proofs about the BPF programs (Probes) and the whole pipeline     *)
(* (Ftrace), for every number of goroutines and functions, every size of   *)
(* the maps and the queue, every call depth and every kind of disturbance. *)
(*                                                                         *)
(* The counters: RootsAccounted is inductive with the type of the          *)
(* counters, because each program counts a detected root call together     *)
(* with what became of it: no exit of ent lies between the two.  Balanced  *)
(* says that of one hit.                                                   *)
(*                                                                         *)
(* The samples: root_depth is a count kept by the programs, RootFrames a   *)
(* set of frames of the target.  That they agree (DepthInv) rests on what  *)
(* last_ip and last_bp stand for: the innermost recorded frame, as long as *)
(* no return is missed (LastEntry).  Then Duplicate is true of restarted   *)
(* entries, which push no frame, and of indirect recursion.                *)
(*                                                                         *)
(* The pipeline: the programs do not notice that the queue is emptied      *)
(* behind them, so DepthInv holds there too.  The manager is handed        *)
(* nothing but events, so the pipeline implements ManagerSpec and inherits *)
(* its theorems from EventManagerProofs.                                   *)
(*                                                                         *)
(* That nothing is counted twice rests on time.  Every event of a          *)
(* goroutine carries a later time than all that went before it: those      *)
(* still in the queue, those the manager retains and the returns of the    *)
(* calls it has reported (TimesInv).  A report is made of retained events  *)
(* that are then gone, so no two calls share an entry or a return.         *)
(*                                                                         *)
(* The last part is about goroutines whose frames were all entered through *)
(* a probe (WellProbed), and what the programs send for them: what         *)
(* HistoryProofs starts from.                                              *)
(***************************************************************************)
EXTENDS Ftrace, EventManagerProofs

-----------------------------------------------------------------------------
(* The counters *)

\* The columns that explain a detected root call.
Outcomes == {"admitted_roots", "sampled_out_roots", "state_insert_failures"}

\* What one probe hit counts: a detected root with one outcome, or neither.
Balanced(names) ==
    \/ "wanted_roots" \notin names /\ names \cap Outcomes = {}
    \/ "wanted_roots" \in names /\ \E o \in Outcomes : names \cap Outcomes = {o}

\* The counters after a step that is nothing to them or is one probe hit.
StatsStep == stats' = stats \/ \E names : Balanced(names) /\ stats' = Count(stats, names)

RootsInv == stats \in [StatNames -> Nat] /\ RootsAccounted

\* Counting a balanced set of names keeps the sum.
LEMMA CountKeeps ==
    ASSUME RootsInv, NEW names, Balanced(names), stats' = Count(stats, names)
    PROVE  RootsInv'
<1>1. stats' \in [StatNames -> Nat]
  BY DEF RootsInv, Count
<1>2. \A n \in StatNames : stats'[n] = IF n \in names THEN stats[n] + 1 ELSE stats[n]
  BY DEF Count
<1>3. {"wanted_roots"} \cup Outcomes \subseteq StatNames
  BY DEF Outcomes, StatNames
<1>4. CASE "wanted_roots" \notin names /\ names \cap Outcomes = {}
  BY <1>1, <1>2, <1>3, <1>4 DEF RootsInv, RootsAccounted, Outcomes
<1>5. ASSUME "wanted_roots" \in names, NEW o \in Outcomes, names \cap Outcomes = {o}
      PROVE  RootsInv'
  <2>1. CASE o = "admitted_roots"
    BY <1>1, <1>2, <1>3, <1>5, <2>1 DEF RootsInv, RootsAccounted, Outcomes
  <2>2. CASE o = "sampled_out_roots"
    BY <1>1, <1>2, <1>3, <1>5, <2>2 DEF RootsInv, RootsAccounted, Outcomes
  <2>3. CASE o = "state_insert_failures"
    BY <1>1, <1>2, <1>3, <1>5, <2>3 DEF RootsInv, RootsAccounted, Outcomes
  <2>4. QED
    BY <2>1, <2>2, <2>3 DEF Outcomes
<1>6. QED
  BY <1>4, <1>5 DEF Balanced

\* push_event counts itself and what it is told, neither of them twice.
LEMMA PushCounts ==
    ASSUME NEW e, NEW counted, Balanced(counted), PushEvent(e, counted)
    PROVE  StatsStep
<1>1. Balanced(counted \cup {"emitted_events"}) /\ Balanced(counted \cup {"dropped_events"})
  BY DEF Balanced, Outcomes
<1>2. QED
  BY <1>1 DEF PushEvent, StatsStep

\* The names that the programs count.
LEMMA Counted ==
    /\ Balanced({}) /\ Balanced({"aborted_roots"})
    /\ Balanced({"wanted_roots", "sampled_out_roots"})
    /\ Balanced({"wanted_roots", "state_insert_failures"})
    /\ Balanced({"wanted_roots", "admitted_roots"})
BY DEF Balanced, Outcomes

\* ent, in each of its five outcomes.
LEMMA EntCounts ==
    ASSUME NEW g, NEW fn, NEW bp, NEW caller_bp, Ent(g, fn, bp, caller_bp)
    PROVE  StatsStep
<1>1. CASE EntIgnored(g, fn)
  BY <1>1 DEF EntIgnored, kernelVars, StatsStep
<1>2. CASE EntSampledOut(g, fn)
  BY <1>2, Counted DEF EntSampledOut, StatsStep
<1>3. CASE EntInsertFailed(g, fn)
  BY <1>3, Counted DEF EntInsertFailed, StatsStep
<1>4. CASE EntAdmitted(g, fn, bp, caller_bp)
  BY <1>4, Counted, PushCounts DEF EntAdmitted
<1>5. CASE EntNested(g, fn, bp, caller_bp)
  BY <1>5, Counted, PushCounts DEF EntNested
<1>6. QED
  BY <1>1, <1>2, <1>3, <1>4, <1>5 DEF Ent

\* ret
LEMMA RetCounts ==
    ASSUME NEW g, NEW fn, Ret(g, fn)
    PROVE  StatsStep
<1>1. CASE RetIgnored(g)
  BY <1>1 DEF RetIgnored, kernelVars, StatsStep
<1>2. CASE RetTraced(g, fn)
  BY <1>2, Counted, PushCounts DEF RetTraced
<1>3. QED
  BY <1>1, <1>2 DEF Ret

\* goroutine_exit
LEMMA ExitCounts ==
    ASSUME NEW g, GoroutineExit(g)
    PROVE  StatsStep
<1>1. CASE GoroutineExitIgnored(g)
  BY <1>1 DEF GoroutineExitIgnored, kernelVars, StatsStep
<1>2. CASE GoroutineExitTraced(g)
  BY <1>2, Counted, PushCounts DEF GoroutineExitTraced
<1>3. QED
  BY <1>1, <1>2 DEF GoroutineExit

\* A goroutine counts through the programs only.
LEMMA TargetCounts ==
    ASSUME NEW g, TargetStep(g)
    PROVE  StatsStep
<1>1. ASSUME NEW fn, Call(g, fn) PROVE StatsStep
  BY <1>1, EntCounts DEF Call
<1>2. ASSUME NEW fn, NEW moved, CallUnprobed(g, fn, moved) PROVE StatsStep
  BY <1>2 DEF CallUnprobed, kernelVars, StatsStep
<1>3. ASSUME NEW moved, Restart(g, moved) PROVE StatsStep
  BY <1>3, EntCounts DEF Restart
<1>4. ASSUME NEW depth, Unwind(g, depth) PROVE StatsStep
  BY <1>4 DEF Unwind, kernelVars, StatsStep
<1>5. CASE Return(g)
  BY <1>5, RetCounts DEF Return
<1>6. CASE ReturnUnprobed(g)
  BY <1>6 DEF ReturnUnprobed, kernelVars, StatsStep
<1>7. CASE Exit(g)
  BY <1>7, ExitCounts DEF Exit, kernelVars, StatsStep
<1>8. QED
  BY <1>1, <1>2, <1>3, <1>4, <1>5, <1>6, <1>7 DEF TargetStep

\* Every step of goroutines, processes and userspace.
LEMMA NextCounts ==
    ASSUME ProbesNext
    PROVE  StatsStep
<1>1. CASE TargetNext
  <2>1. ASSUME NEW p, Replace(p) PROVE StatsStep
    BY <2>1 DEF Replace, kernelVars, StatsStep
  <2>2. QED
    BY <1>1, <2>1, TargetCounts DEF TargetNext
<1>2. ASSUME NEW d, SetSampleDenominator(d) PROVE StatsStep
  BY <1>2 DEF SetSampleDenominator, StatsStep
<1>3. CASE Attach
  BY <1>3 DEF Attach, kernelVars, StatsStep
<1>4. CASE Interrupt
  BY <1>4 DEF Interrupt, kernelVars, StatsStep
<1>5. CASE CloseLink
  BY <1>5 DEF CloseLink, kernelVars, StatsStep
<1>6. QED
  BY <1>1, <1>2, <1>3, <1>4, <1>5 DEF ProbesNext

\* The root counts that print.go prints add up, whatever the queue, the state map,
\* the runtime and the attached probes do.
THEOREM RootsAccountedCorrect == ProbesSpec => []RootsAccounted
<1>1. ProbesInit => RootsInv
  BY DEF ProbesInit, RootsInv, RootsAccounted, StatNames
<1>2. RootsInv /\ [ProbesNext]_probesVars => RootsInv'
  <2> SUFFICES ASSUME RootsInv, [ProbesNext]_probesVars PROVE RootsInv'
    OBVIOUS
  <2>1. StatsStep
    BY NextCounts DEF probesVars, kernelVars, StatsStep
  <2>2. CASE stats' = stats
    BY <2>2 DEF RootsInv, RootsAccounted
  <2>3. QED
    BY <2>1, <2>2, CountKeeps DEF StatsStep
<1>3. RootsInv => RootsAccounted
  BY DEF RootsInv
<1>4. QED
  BY <1>1, <1>2, <1>3, PTL DEF ProbesSpec

-----------------------------------------------------------------------------
(* The samples *)

\* The variables of the programs, as ProbesTypeOK has them.
KernelTypeOK ==
    /\ state \in [Goroutines -> TraceState \cup {NoState}]
    /\ denominator \in Nat \ {0}
    /\ queue \in Seq(Event) /\ Len(queue) <= QueueCap
    /\ stats \in [StatNames -> Nat]
    /\ since \in [Goroutines -> Nat]

\* The variables of the traced processes.
TargetTypeOK ==
    /\ frames \in [Goroutines -> Seq(Frame)]
    /\ moves \in [Goroutines -> Nat]
    /\ fresh \subseteq alive /\ alive \subseteq Goroutines
    /\ clock \in [Goroutines -> Nat]
    /\ indirect \subseteq Goroutines
    /\ unreturned \subseteq Goroutines /\ stray \subseteq Goroutines
    /\ faults \in Nat

\* The type invariant has a part for the programs and one for the traced program.
LEMMA TypeParts ==
    /\ ProbesTypeOK => KernelTypeOK /\ TargetTypeOK
    /\ KernelTypeOK /\ TargetTypeOK /\ attached \subseteq Points
         /\ phase \in {"attaching", "tracing", "detaching", "draining", "done"} => ProbesTypeOK
BY DEF ProbesTypeOK, KernelTypeOK, TargetTypeOK

\* An open trace is a record of the map, and is told from a missing one.
LEMMA OpenState ==
    /\ \A s \in TraceState : s # NoState
    /\ \A g \in Goroutines : KernelTypeOK /\ state[g] # NoState => state[g] \in TraceState
<1>1. ASSUME NEW s \in TraceState PROVE s # NoState
  <2>1. s.root_ip \in Functions
    BY DEF TraceState
  <2>2. NoState.root_ip = "0"
    BY DEF NoState, Zero
  <2>3. QED
    BY <2>1, <2>2, ScopeAssumption
<1>2. QED
  BY <1>1 DEF KernelTypeOK

\* A probe on a function is a probe on a probed function.
LEMMA ProbedFunction ==
    ASSUME attached \subseteq Points, NEW fn, NEW loc \in {ENT, RET}, <<loc, fn>> \in attached
    PROVE  fn \in Functions
BY DEF Points, ENT, RET, EXIT

\* The counters stay numbers,
LEMMA CountType ==
    ASSUME stats \in [StatNames -> Nat], NEW names
    PROVE  Count(stats, names) \in [StatNames -> Nat]
BY DEF Count

\* the queue stays one of events within its max_entries,
LEMMA PushType ==
    ASSUME KernelTypeOK, NEW e \in Event, NEW counted, PushEvent(e, counted)
    PROVE  queue' \in Seq(Event) /\ Len(queue') <= QueueCap /\ stats' \in [StatNames -> Nat]
<1> USE DEF PushEvent, KernelTypeOK
<1>1. CASE Len(queue) < QueueCap
  <2>1. queue' \in Seq(Event) /\ Len(queue') = Len(queue) + 1
    <3>1. queue \in Seq(Event) /\ queue' = Append(queue, e)
      BY <1>1
    <3>2. QED
      BY <3>1, AppendFacts
  <2>2. Len(queue') <= QueueCap
    BY <1>1, <2>1, ProbesAssumption
  <2>3. QED
    BY <1>1, <2>1, <2>2, CountType
<1>2. CASE ~(Len(queue) < QueueCap)
  BY <1>2, CountType
<1>3. QED
  BY <1>1, <1>2

\* and the state map one of trace states or nothing.
LEMMA DeleteType ==
    ASSUME KernelTypeOK, NEW g \in Goroutines, DeleteState(g)
    PROVE  state' \in [Goroutines -> TraceState \cup {NoState}] /\ since' \in [Goroutines -> Nat]
BY DEF KernelTypeOK, DeleteState

\* So ent keeps the shapes of the maps,
LEMMA EntType ==
    ASSUME KernelTypeOK, NEW g \in Goroutines, NEW fn \in Functions,
           NEW bp \in Addresses, NEW caller_bp \in Addresses,
           clock' \in [Goroutines -> Nat], Ent(g, fn, bp, caller_bp)
    PROVE  KernelTypeOK'
<1>1. CASE EntIgnored(g, fn)
  BY <1>1 DEF EntIgnored, kernelVars, KernelTypeOK
<1>2. CASE EntSampledOut(g, fn)
  BY <1>2, CountType DEF EntSampledOut, KernelTypeOK
<1>3. CASE EntInsertFailed(g, fn)
  BY <1>3, CountType DEF EntInsertFailed, KernelTypeOK
<1>4. CASE EntAdmitted(g, fn, bp, caller_bp)
  <2> DEFINE e == [goid |-> g, location |-> ENT, ip |-> fn, bp |-> bp, caller_bp |-> caller_bp,
                  flag |-> IF Adaptive THEN START ELSE NoFlag,
                  sample_denominator |-> denominator, time |-> clock'[g]]
             s == [root_ip |-> fn, last_ip |-> fn, last_bp |-> bp, root_depth |-> 1,
                    event_count |-> 1, sample_denominator |-> denominator]
  <2>1. e \in Event /\ s \in TraceState
    BY ScopeAssumption DEF Event, EventRecord, TraceState, Flags, START, END, NoFlag,
                        KernelTypeOK, ENT, RET, EXIT, Zero
  <2>2. PushEvent(e, {"wanted_roots", "admitted_roots"}) /\ state' = [state EXCEPT ![g] = s]
        /\ since' = [since EXCEPT ![g] = clock'[g]] /\ denominator' = denominator
    BY <1>4 DEF EntAdmitted
  <2> HIDE DEF e, s
  <2>3. queue' \in Seq(Event) /\ Len(queue') <= QueueCap /\ stats' \in [StatNames -> Nat]
    BY <2>1, <2>2, PushType
  <2>4. QED
    BY <2>1, <2>2, <2>3 DEF KernelTypeOK
<1>5. CASE EntNested(g, fn, bp, caller_bp)
  <2> DEFINE s == state[g]
             e == [goid |-> g, location |-> ENT, ip |-> fn, bp |-> bp,
                         caller_bp |-> caller_bp,
                         flag |-> IF OverLimit(s) THEN ABORT ELSE NoFlag,
                         sample_denominator |-> s.sample_denominator, time |-> clock'[g]]
             deeper == Adaptive /\ fn \in Wanted /\ s.root_ip = fn
                       /\ ~Duplicate(s, fn, caller_bp)
             t == [s EXCEPT !.event_count = @ + 1,
                                     !.root_depth = IF deeper THEN @ + 1 ELSE @,
                                     !.last_ip = fn, !.last_bp = bp]
             names == IF OverLimit(s) THEN {"aborted_roots"} ELSE {}
  <2>0. s \in TraceState
    BY <1>5, OpenState DEF EntNested
  <2>1. e \in Event
    BY <2>0, ScopeAssumption DEF Event, EventRecord, TraceState, Flags, ABORT, END, NoFlag,
                             ENT, RET, EXIT, Zero
  <2>2. t \in TraceState
    <3>1. /\ s.event_count + 1 \in Nat /\ (IF deeper THEN s.root_depth + 1 ELSE s.root_depth) \in Nat
          /\ fn \in Functions \cup {Zero}
      BY <2>0 DEF TraceState
    <3> HIDE DEF deeper
    <3>2. QED
      BY <2>0, <3>1 DEF TraceState
  <2>3. PushEvent(e, names) /\ denominator' = denominator
    BY <1>5 DEF EntNested
  <2>4. IF OverLimit(s) THEN DeleteState(g)
                        ELSE state' = [state EXCEPT ![g] = t] /\ since' = since
    BY <1>5 DEF EntNested
  <2> HIDE DEF e, t, names
  <2>5. queue' \in Seq(Event) /\ Len(queue') <= QueueCap /\ stats' \in [StatNames -> Nat]
    BY <2>1, <2>3, PushType
  <2>6. CASE OverLimit(s)
    BY <2>3, <2>4, <2>5, <2>6, DeleteType DEF KernelTypeOK
  <2>7. CASE ~OverLimit(s)
    BY <2>2, <2>3, <2>4, <2>5, <2>7 DEF KernelTypeOK
  <2>8. QED
    BY <2>6, <2>7
<1>6. QED
  BY <1>1, <1>2, <1>3, <1>4, <1>5 DEF Ent

\* root_depth is only lowered above 1.
LEMMA RetType ==
    ASSUME KernelTypeOK, NEW g \in Goroutines, NEW fn \in Functions,
           state[g] # NoState => state[g].root_depth > 0,
           clock' \in [Goroutines -> Nat], Ret(g, fn)
    PROVE  KernelTypeOK'
<1>1. CASE RetIgnored(g)
  BY <1>1 DEF RetIgnored, kernelVars, KernelTypeOK
<1>2. CASE RetTraced(g, fn)
  <2> DEFINE s == state[g]
             rootRet == Adaptive /\ ~OverLimit(s) /\ fn \in Wanted /\ fn = s.root_ip
             ends == rootRet /\ ~(s.root_depth > 1)
             e == [goid |-> g, location |-> RET, ip |-> fn,
                         bp |-> Zero, caller_bp |-> Zero,
                         flag |-> IF OverLimit(s) THEN ABORT ELSE IF ends THEN END ELSE NoFlag,
                         sample_denominator |-> s.sample_denominator, time |-> clock'[g]]
             t == [s EXCEPT !.event_count = @ + 1, !.last_ip = Zero,
                                     !.root_depth = IF rootRet THEN @ - 1 ELSE @]
             names == IF OverLimit(s) THEN {"aborted_roots"} ELSE {}
  <2>0. s \in TraceState
    BY <1>2, OpenState DEF RetTraced
  <2>1. e \in Event
    BY <2>0, ScopeAssumption DEF Event, EventRecord, TraceState, Flags, Addresses, RET, EXIT, Zero
  <2>2. s.root_depth - 1 \in Nat
    BY <1>2, <2>0 DEF TraceState, RetTraced
  <2>3. t \in TraceState
    <3>1. /\ s.event_count + 1 \in Nat /\ (IF rootRet THEN s.root_depth - 1 ELSE s.root_depth) \in Nat
      BY <2>0, <2>2 DEF TraceState
    <3> HIDE DEF rootRet
    <3>2. QED
      BY <2>0, <3>1 DEF TraceState
  <2>4. PushEvent(e, names) /\ denominator' = denominator
    BY <1>2 DEF RetTraced
  <2>5. IF OverLimit(s) \/ ends THEN DeleteState(g)
                        ELSE state' = [state EXCEPT ![g] = t] /\ since' = since
    BY <1>2 DEF RetTraced
  <2> HIDE DEF e, t, names, ends
  <2>6. queue' \in Seq(Event) /\ Len(queue') <= QueueCap /\ stats' \in [StatNames -> Nat]
    BY <2>1, <2>4, PushType
  <2>7. CASE OverLimit(s) \/ ends
    BY <2>4, <2>5, <2>6, <2>7, DeleteType DEF KernelTypeOK
  <2>8. CASE ~(OverLimit(s) \/ ends)
    BY <2>3, <2>4, <2>5, <2>6, <2>8 DEF KernelTypeOK
  <2>9. QED
    BY <2>7, <2>8
<1>3. QED
  BY <1>1, <1>2 DEF Ret

\* and so does goroutine_exit.
LEMMA ExitType ==
    ASSUME KernelTypeOK, NEW g \in Goroutines, GoroutineExit(g)
    PROVE  KernelTypeOK'
<1>1. CASE GoroutineExitIgnored(g)
  BY <1>1 DEF GoroutineExitIgnored, kernelVars, KernelTypeOK
<1>2. CASE GoroutineExitTraced(g)
  <2> DEFINE e == [goid |-> g, location |-> EXIT, ip |-> Zero, bp |-> Zero, caller_bp |-> Zero,
                  flag |-> NoFlag, sample_denominator |-> 0, time |-> 0]
  <2>1. e \in Event
    BY DEF Event, EventRecord, Flags, NoFlag, END, Addresses, ENT, RET, EXIT
  <2>2. PushEvent(e, {}) /\ DeleteState(g) /\ denominator' = denominator
    BY <1>2 DEF GoroutineExitTraced
  <2> HIDE DEF e
  <2>3. QED
    BY <2>1, <2>2, PushType, DeleteType DEF KernelTypeOK
<1>3. QED
  BY <1>1, <1>2 DEF GoroutineExit

\* A call pushes one frame.
LEMMA Pushed ==
    ASSUME frames \in [Goroutines -> Seq(Frame)], NEW g \in Goroutines, NEW f \in Frame,
           frames' = [frames EXCEPT ![g] = Append(@, f)]
    PROVE  /\ frames' \in [Goroutines -> Seq(Frame)]
           /\ \A h \in Goroutines \ {g} : frames'[h] = frames[h]
           /\ Len(frames'[g]) = Len(frames[g]) + 1
           /\ \A i \in 1 .. Len(frames[g]) : frames'[g][i] = frames[g][i]
           /\ frames'[g][Len(frames[g]) + 1] = f
<1>1. frames[g] \in Seq(Frame) /\ frames'[g] = Append(frames[g], f)
  OBVIOUS
<1>2. Append(frames[g], f) \in Seq(Frame)
  BY <1>1, AppendFacts
<1>3. frames' \in [Goroutines -> Seq(Frame)]
  BY <1>2
<1>4. \A h \in Goroutines \ {g} : frames'[h] = frames[h]
  OBVIOUS
<1>5. QED
  BY <1>1, <1>3, <1>4, AppendFacts

\* Returns and unwinding keep the frames below.
LEMMA Popped ==
    ASSUME frames \in [Goroutines -> Seq(Frame)], NEW g \in Goroutines,
           NEW depth \in 0 .. Len(frames[g]), PopTo(g, depth)
    PROVE  /\ frames' \in [Goroutines -> Seq(Frame)]
           /\ \A h \in Goroutines \ {g} : frames'[h] = frames[h]
           /\ Len(frames'[g]) = depth
           /\ \A i \in 1 .. depth : frames'[g][i] = frames[g][i]
<1>1. frames[g] \in Seq(Frame) /\ frames'[g] = SubSeq(frames[g], 1, depth)
  BY DEF PopTo
<1>2. SubSeq(frames[g], 1, depth) \in Seq(Frame)
  BY <1>1, SubSeqFacts
<1>3. frames' \in [Goroutines -> Seq(Frame)]
  BY <1>2 DEF PopTo
<1>4. \A h \in Goroutines \ {g} : frames'[h] = frames[h]
  BY DEF PopTo
<1>5. QED
  BY <1>1, <1>3, <1>4, SubSeqFacts

\* One frame of a goroutine changes.
LEMMA Updated ==
    ASSUME frames \in [Goroutines -> Seq(Frame)], NEW g \in Goroutines,
           NEW n \in 1 .. Len(frames[g]), NEW f \in Frame,
           frames' = [frames EXCEPT ![g] = [frames[g] EXCEPT ![n] = f]]
    PROVE  /\ frames' \in [Goroutines -> Seq(Frame)]
           /\ \A h \in Goroutines \ {g} : frames'[h] = frames[h]
           /\ Len(frames'[g]) = Len(frames[g])
           /\ \A i \in 1 .. Len(frames[g]) : frames'[g][i] = IF i = n THEN f ELSE frames[g][i]
<1>1. frames[g] \in Seq(Frame) /\ frames'[g] = [frames[g] EXCEPT ![n] = f]
  OBVIOUS
<1>2. [frames[g] EXCEPT ![n] = f] \in Seq(Frame)
  BY <1>1, UpdateFacts
<1>3. frames' \in [Goroutines -> Seq(Frame)]
  BY <1>2
<1>4. \A h \in Goroutines \ {g} : frames'[h] = frames[h]
  OBVIOUS
<1>5. QED
  BY <1>1, <1>3, <1>4, UpdateFacts

\* A restarted frame has new times and its old function.
LEMMA FrameUpdate ==
    ASSUME NEW r \in Frame, NEW a \in Nat, NEW b \in Nat
    PROVE  /\ [[r EXCEPT !.start = a] EXCEPT !.at = b] = [fn |-> r.fn, start |-> a, at |-> b]
           /\ [fn |-> r.fn, start |-> a, at |-> b] \in Frame
<1>1. [r EXCEPT !.start = a] = [fn |-> r.fn, start |-> a, at |-> r.at]
  BY DEF Frame
<1>2. [[fn |-> r.fn, start |-> a, at |-> r.at] EXCEPT !.at = b]
         = [fn |-> r.fn, start |-> a, at |-> b]
  OBVIOUS
<1>3. r.fn \in Functions \cup {Unprobed}
  BY DEF Frame
<1>4. QED
  BY <1>1, <1>2, <1>3 DEF Frame

\* A restart updates the frame on top.
RestartTop(g, start, at) ==
    frames' = [frames EXCEPT ![g][Len(frames[g])].start = start,
                             ![g][Len(frames[g])].at = at]

\* A restart of the function on top changes its frame and no other.
LEMMA Restarted ==
    ASSUME frames \in [Goroutines -> Seq(Frame)], NEW g \in Goroutines,
           frames[g] # <<>>, NEW start \in Nat, NEW at \in Nat,
           RestartTop(g, start, at)
    PROVE  /\ frames' \in [Goroutines -> Seq(Frame)]
           /\ \A h \in Goroutines \ {g} : frames'[h] = frames[h]
           /\ Len(frames'[g]) = Len(frames[g]) /\ Len(frames[g]) \in Nat \ {0}
           /\ \A i \in 1 .. Len(frames[g]) - 1 : frames'[g][i] = frames[g][i]
           /\ frames'[g][Len(frames[g])] = [fn |-> Top(g).fn, start |-> start, at |-> at]
<1> DEFINE n == Len(frames[g])
           f == [fn |-> Top(g).fn, start |-> start, at |-> at]
<1>1. frames[g] \in Seq(Frame) /\ n \in Nat \ {0}
  BY EmptySeqFacts
<1>2. Top(g) \in Frame /\ Top(g) = frames[g][n]
  BY <1>1 DEF Top
<1>3. [[Top(g) EXCEPT !.start = start] EXCEPT !.at = at] = f /\ f \in Frame
  BY <1>2, FrameUpdate
<1>4. frames' = [frames EXCEPT ![g] = [frames[g] EXCEPT ![n] = f]]
  <2>1. frames' = [frames EXCEPT ![g] = [frames[g] EXCEPT ![n] =
                      [[frames[g][n] EXCEPT !.start = start] EXCEPT !.at = at]]]
    BY <1>1 DEF RestartTop
  <2>2. QED
    BY <1>2, <1>3, <2>1
<1> HIDE DEF f
<1>5. /\ frames' \in [Goroutines -> Seq(Frame)]
      /\ \A h \in Goroutines \ {g} : frames'[h] = frames[h]
      /\ Len(frames'[g]) = Len(frames[g])
      /\ \A i \in 1 .. Len(frames[g]) : frames'[g][i] = IF i = n THEN f ELSE frames[g][i]
  <2>1. n \in 1 .. Len(frames[g])
    BY <1>1
  <2>2. QED
    BY <1>3, <1>4, <2>1, Updated
<1>6. /\ n \in 1 .. n
      /\ \A i \in 1 .. n - 1 : i \in 1 .. n /\ i # n
  BY <1>1
<1>7. frames'[g][n] = f
  BY <1>5, <1>6
<1>8. \A i \in 1 .. n - 1 : frames'[g][i] = frames[g][i]
  BY <1>5, <1>6
<1>9. QED
  <2>1. Len(frames[g]) \in Nat \ {0}
    BY <1>1
  <2>2. frames'[g][Len(frames[g])] = [fn |-> Top(g).fn, start |-> start, at |-> at]
    BY <1>7 DEF f
  <2>3. QED
    BY <1>5, <1>8, <2>1, <2>2

(* The inductive invariant, for each goroutine. *)

\* The open sample of g whose entries and returns were all seen.
Sound(g) == state[g] # NoState /\ g \notin unreturned \cup stray

FreshFrame(g) == g \in fresh => frames[g] # <<>>

\* No frame and no sample starts later than the last probe hit.
ClockBounds(g) ==
    /\ \A i \in 1 .. Len(frames[g]) : frames[g][i].start <= clock[g]
    /\ since[g] <= clock[g]

\* A sample has a start, a wanted root whose entry probe was attached, and a depth.
Opened(g) ==
    state[g] # NoState =>
        /\ since[g] > 0
        /\ state[g].root_ip \in Wanted
        /\ state[g].root_depth > 0
        /\ phase = "attaching" => <<ENT, state[g].root_ip>> \in attached

\* A function in its prologue whose entry was recorded is the last entry seen.
Seen(g) ==
    (g \in fresh /\ state[g] # NoState /\ Top(g).start # 0) =>
        /\ state[g].last_ip = Top(g).fn
        /\ state[g].last_bp = <<Top(g).at, Len(frames[g])>>
        /\ Top(g).start >= since[g]

\* A root call in its prologue whose entry was not recorded came after the
\* entry probe was detached, so that a restart does not hit it either.
Unseen(g) ==
    (g \in fresh /\ state[g] # NoState /\ Top(g).start = 0 /\ Top(g).fn = state[g].root_ip) =>
        phase # "attaching" /\ <<ENT, Top(g).fn>> \notin attached

\* What last_ip and last_bp remember is the innermost frame that was recorded.
LastEntry(g) ==
    (Sound(g) /\ state[g].last_ip # Zero) =>
        \E j \in 1 .. Len(frames[g]) :
            /\ frames[g][j].start = clock[g]
            /\ state[g].last_bp = <<frames[g][j].at, j>>
            /\ \A i \in 1 .. Len(frames[g]) : i > j => frames[g][i].start = 0

\* RootDepthExact, whether or not g is still alive.
Depth(g) ==
    (Adaptive /\ Sound(g)) =>
        /\ state[g].root_depth <= Cardinality(RootFrames(g))
        /\ g \notin indirect => state[g].root_depth = Cardinality(RootFrames(g))

\* The outermost recorded frame is one of the root: the admitted one.
Bottom(g) ==
    (Adaptive /\ Sound(g)) => \A i \in Recorded(g) : \E r \in RootFrames(g) : r <= i

\* StateReleased, but for the root frames.
Released(g) == Sound(g) => g \in alive \/ (~Adaptive /\ <<EXIT, Zero>> \notin attached)

SampleInv(g) ==
    Opened(g) /\ Seen(g) /\ Unseen(g) /\ LastEntry(g) /\ Depth(g) /\ Bottom(g) /\ Released(g)

\* The probe of runtime.goexit1 is attached first.
ExitLink ==
    /\ phase \in {"attaching", "tracing"} /\ attached # {} => <<EXIT, Zero>> \in attached
    /\ phase = "tracing" => attached = Points
    /\ phase = "attaching" => attached # Points

GoroutineInv(g) == FreshFrame(g) /\ ClockBounds(g) /\ SampleInv(g)

DepthInv == ProbesTypeOK /\ ExitLink /\ \A g \in Goroutines : GoroutineInv(g)

\* Nothing but g changes.
Only(g) ==
    /\ UNCHANGED <<cfg, phase, attached>>
    /\ \A h \in Goroutines \ {g} :
          /\ frames'[h] = frames[h] /\ clock'[h] = clock[h]
          /\ state'[h] = state[h] /\ since'[h] = since[h]
          /\ h \in fresh' <=> h \in fresh
          /\ h \in alive' <=> h \in alive
          /\ h \in indirect' <=> h \in indirect
          /\ h \in unreturned' <=> h \in unreturned
          /\ h \in stray' <=> h \in stray

\* A step that is nothing to a goroutine keeps its part of the invariant.
LEMMA OthersKeep ==
    ASSUME NEW g \in Goroutines, Only(g), NEW h \in Goroutines \ {g}, GoroutineInv(h)
    PROVE  GoroutineInv(h)'
<1> USE DEF Only
<1>1. Sound(h)' <=> Sound(h)
  BY DEF Sound
<1>2. RootFrames(h)' = RootFrames(h) /\ Recorded(h)' = Recorded(h)
  BY DEF RootFrames, Recorded
<1>3. FreshFrame(h)' /\ ClockBounds(h)'
  BY DEF GoroutineInv, FreshFrame, ClockBounds
<1>4. Opened(h)' /\ Seen(h)' /\ Unseen(h)'
  BY DEF GoroutineInv, SampleInv, Opened, Seen, Unseen, Top
<1>5. LastEntry(h)'
  BY <1>1 DEF GoroutineInv, SampleInv, LastEntry
<1>6. Depth(h)' /\ Bottom(h)' /\ Released(h)'
  BY <1>1, <1>2 DEF GoroutineInv, SampleInv, Depth, Bottom, Released, Adaptive
<1>7. QED
  BY <1>3, <1>4, <1>5, <1>6 DEF GoroutineInv, SampleInv

\* Without a sample there is nothing to show about it.
LEMMA NoSample ==
    ASSUME NEW g \in Goroutines, state'[g] = NoState
    PROVE  SampleInv(g)'
BY DEF SampleInv, Opened, Seen, Unseen, LastEntry, Depth, Bottom, Released, Sound

\* What ent does for its goroutine.
EntEffect(g, fn, bp, caller_bp) ==
    \/ state'[g] = NoState /\ since'[g] \in {since[g], 0}
    \/ /\ state[g] = NoState /\ fn \in Wanted
       /\ state'[g].root_ip = fn /\ state'[g].last_ip = fn /\ state'[g].last_bp = bp
       /\ state'[g].root_depth = 1
       /\ since'[g] = clock'[g]
    \/ /\ state[g] # NoState /\ state'[g] # NoState /\ since'[g] = since[g]
       /\ state'[g].root_ip = state[g].root_ip
       /\ state'[g].last_ip = fn /\ state'[g].last_bp = bp
       /\ state'[g].root_depth = IF /\ Adaptive /\ fn \in Wanted /\ state[g].root_ip = fn
                                    /\ ~Duplicate(state[g], fn, caller_bp)
                                   THEN state[g].root_depth + 1 ELSE state[g].root_depth

\* Nothing of the programs but the trace of g changes.
KernelOnly(g) == \A h \in Goroutines \ {g} : state'[h] = state[h] /\ since'[h] = since[h]

\* What ent does to the sample of its goroutine, and to no other,
LEMMA EntDoes ==
    ASSUME KernelTypeOK, NEW g \in Goroutines, NEW fn \in Functions,
           NEW bp, NEW caller_bp, Ent(g, fn, bp, caller_bp)
    PROVE  EntEffect(g, fn, bp, caller_bp) /\ KernelOnly(g)
<1> USE DEF KernelTypeOK
<1>1. CASE EntIgnored(g, fn)
  BY <1>1 DEF EntIgnored, kernelVars, EntEffect, KernelOnly
<1>2. CASE EntSampledOut(g, fn)
  BY <1>2 DEF EntSampledOut, EntEffect, KernelOnly
<1>3. CASE EntInsertFailed(g, fn)
  BY <1>3 DEF EntInsertFailed, EntEffect, KernelOnly
<1>4. CASE EntAdmitted(g, fn, bp, caller_bp)
  BY <1>4 DEF EntAdmitted, EntEffect, KernelOnly
<1>5. CASE EntNested(g, fn, bp, caller_bp)
  <2>1. state[g] \in TraceState
    BY <1>5, OpenState DEF EntNested
  <2>2. CASE OverLimit(state[g])
    BY <1>5, <2>2 DEF EntNested, DeleteState, EntEffect, KernelOnly
  <2>3. CASE ~OverLimit(state[g])
    <3> DEFINE deeper == Adaptive /\ fn \in Wanted /\ state[g].root_ip = fn
                       /\ ~Duplicate(state[g], fn, caller_bp)
               t == [state[g] EXCEPT !.event_count = @ + 1,
                                     !.root_depth = IF deeper THEN @ + 1 ELSE @,
                                     !.last_ip = fn, !.last_bp = bp]
    <3>1. state' = [state EXCEPT ![g] = t] /\ since' = since /\ state[g] # NoState
      BY <1>5, <2>3 DEF EntNested
    <3>2. /\ t.root_ip = state[g].root_ip /\ t.last_ip = fn /\ t.last_bp = bp
          /\ t.root_depth = IF deeper THEN state[g].root_depth + 1 ELSE state[g].root_depth
      <4> HIDE DEF deeper
      <4> QED BY <2>1 DEF TraceState
    <3>3. t # NoState
      BY <2>1, <3>2, ScopeAssumption DEF TraceState, NoState, Zero
    <3> HIDE DEF t
    <3>4. state'[g] = t /\ \A h \in Goroutines \ {g} : state'[h] = state[h]
      BY <3>1
    <3>5. QED
      BY <3>1, <3>2, <3>3, <3>4 DEF EntEffect, KernelOnly
  <2>4. QED
    BY <2>2, <2>3
<1>6. QED
  BY <1>1, <1>2, <1>3, <1>4, <1>5 DEF Ent

RetEffect(g, fn) ==
    \/ state'[g] = NoState /\ since'[g] \in {since[g], 0}
    \/ /\ state[g] # NoState /\ state'[g] # NoState /\ since'[g] = since[g]
       /\ state'[g].root_ip = state[g].root_ip
       /\ state'[g].last_ip = Zero
       /\ IF Adaptive /\ fn \in Wanted /\ fn = state[g].root_ip
            THEN state[g].root_depth > 1 /\ state'[g].root_depth = state[g].root_depth - 1
            ELSE state'[g].root_depth = state[g].root_depth

\* what ret does,
LEMMA RetDoes ==
    ASSUME KernelTypeOK, NEW g \in Goroutines, NEW fn \in Functions, Ret(g, fn)
    PROVE  RetEffect(g, fn) /\ KernelOnly(g)
<1> USE DEF KernelTypeOK
<1>1. CASE RetIgnored(g)
  BY <1>1 DEF RetIgnored, kernelVars, RetEffect, KernelOnly
<1>2. CASE RetTraced(g, fn)
  <2> DEFINE rootRet == Adaptive /\ ~OverLimit(state[g]) /\ fn \in Wanted /\ fn = state[g].root_ip
             ends == rootRet /\ ~(state[g].root_depth > 1)
             t == [state[g] EXCEPT !.event_count = @ + 1, !.last_ip = Zero,
                                     !.root_depth = IF rootRet THEN @ - 1 ELSE @]
  <2>1. state[g] \in TraceState /\ state[g] # NoState
    BY <1>2, OpenState DEF RetTraced
  <2>2. CASE OverLimit(state[g]) \/ ends
    BY <1>2, <2>2 DEF RetTraced, DeleteState, RetEffect, KernelOnly
  <2>3. CASE ~(OverLimit(state[g]) \/ ends)
    <3>1. state' = [state EXCEPT ![g] = t] /\ since' = since
      BY <1>2, <2>3 DEF RetTraced
    <3>2. /\ t.root_ip = state[g].root_ip /\ t.last_ip = Zero
          /\ t.root_depth = IF rootRet THEN state[g].root_depth - 1 ELSE state[g].root_depth
      <4> HIDE DEF rootRet
      <4> QED BY <2>1 DEF TraceState
    <3>3. t # NoState
      BY <2>1, <3>2, ScopeAssumption DEF TraceState, NoState, Zero
    <3> HIDE DEF t
    <3>4. state'[g] = t /\ \A h \in Goroutines \ {g} : state'[h] = state[h]
      BY <3>1
    <3>5. rootRet <=> Adaptive /\ fn \in Wanted /\ fn = state[g].root_ip
      BY <2>3
    <3>6. rootRet => state[g].root_depth > 1
      BY <2>3
    <3> HIDE DEF rootRet, ends
    <3>7. QED
      BY <2>1, <3>1, <3>2, <3>3, <3>4, <3>5, <3>6 DEF RetEffect, KernelOnly
  <2>4. QED
    BY <2>2, <2>3
<1>3. QED
  BY <1>1, <1>2 DEF Ret

\* and goroutine_exit.
LEMMA ExitDoes ==
    ASSUME KernelTypeOK, NEW g \in Goroutines, GoroutineExit(g)
    PROVE  state'[g] = NoState /\ since'[g] \in {since[g], 0} /\ KernelOnly(g)
BY DEF KernelTypeOK, GoroutineExit, GoroutineExitIgnored, GoroutineExitTraced, DeleteState,
       kernelVars, KernelOnly

\* The fields of a frame on the stack.
LEMMA FrameTypes ==
    ASSUME NEW q \in Seq(Frame), NEW i \in 1 .. Len(q)
    PROVE  q[i] \in Frame /\ q[i].start \in Nat /\ q[i].at \in Nat /\ Len(q) \in Nat
<1>1. q[i] \in Frame
  OBVIOUS
<1>2. QED
  BY <1>1 DEF Frame

\* The root calls on a stack can be counted.
LEMMA RootsFinite ==
    ASSUME frames \in [Goroutines -> Seq(Frame)], NEW g \in Goroutines
    PROVE  IsFiniteSet(RootFrames(g)) /\ Cardinality(RootFrames(g)) \in Nat
<1>1. RootFrames(g) \in SUBSET (1 .. Len(frames[g])) /\ Len(frames[g]) \in Int
  BY DEF RootFrames, Recorded
<1>2. IsFiniteSet(1 .. Len(frames[g]))
  BY <1>1, FS_Interval
<1>3. IsFiniteSet(RootFrames(g))
  BY <1>1, <1>2, FS_Subset
<1>4. QED
  BY <1>3, FS_CardinalityType

\* A sample is admitted with one frame, the root's.
LEMMA AdmittedDepth ==
    ASSUME NEW g \in Goroutines, ClockBounds(g), frames \in [Goroutines -> Seq(Frame)],
           clock \in [Goroutines -> Nat], since' \in [Goroutines -> Nat],
           frames' \in [Goroutines -> Seq(Frame)],
           Len(frames'[g]) > 0,
           \A i \in 1 .. Len(frames'[g]) - 1 : i <= Len(frames[g]) /\ frames'[g][i] = frames[g][i],
           frames'[g][Len(frames'[g])].start = clock[g] + 1, since'[g] = clock[g] + 1,
           frames'[g][Len(frames'[g])].fn = state'[g].root_ip
    PROVE  RootFrames(g)' = Recorded(g)' /\ Cardinality(RootFrames(g)') = 1
<1> DEFINE n == Len(frames'[g])
<1>1. n \in Nat \ {0} /\ Len(frames[g]) \in Nat /\ clock[g] \in Nat
  OBVIOUS
<1>2. \A i \in 1 .. n - 1 : frames'[g][i].start <= clock[g]
  <2> SUFFICES ASSUME NEW i \in 1 .. n - 1
               PROVE  frames'[g][i].start <= clock[g]
    OBVIOUS
  <2>1. i <= Len(frames[g]) /\ frames'[g][i] = frames[g][i]
    OBVIOUS
  <2>2. i \in 1 .. Len(frames[g])
    BY <1>1, <2>1
  <2>3. frames[g][i].start <= clock[g]
    BY <2>2 DEF ClockBounds
  <2>4. QED
    BY <2>1, <2>3, Zenon
<1>3. \A i \in 1 .. n - 1 : frames'[g][i].start \in Nat
  <2>1. frames'[g] \in Seq(Frame) /\ \A i \in 1 .. n - 1 : i \in 1 .. n
    BY <1>1
  <2>2. QED
    BY <2>1, FrameTypes
<1>4. \A i \in 1 .. n : frames'[g][i].start >= clock[g] + 1 => i = n
  <2> SUFFICES ASSUME NEW i \in 1 .. n, i # n, frames'[g][i].start >= clock[g] + 1
               PROVE  FALSE
    OBVIOUS
  <2>1. i \in 1 .. n - 1
    BY <1>1
  <2>2. frames'[g][i].start \in Nat /\ frames'[g][i].start <= clock[g]
    BY <2>1, <1>2, <1>3
  <2>3. QED
    BY <1>1, <2>2
<1>5. RootFrames(g)' = {n} /\ Recorded(g)' = {n}
  BY <1>1, <1>4 DEF RootFrames, Recorded
<1>6. QED
  BY <1>5, FS_Singleton

\* After an entry, however the frame came on top: what there is to show is the
\* depth of a sample that was open before.
LEMMA EntryKeeps ==
    ASSUME NEW g \in Goroutines, NEW fn \in Functions, NEW at \in Nat, NEW caller_bp,
           KernelTypeOK, TargetTypeOK, GoroutineInv(g), KernelTypeOK', TargetTypeOK',
           UNCHANGED <<cfg, phase, attached>>, <<ENT, fn>> \in attached, g \in alive',
           clock'[g] = clock[g] + 1,
           Len(frames'[g]) > 0,
           frames'[g][Len(frames'[g])] = [fn |-> fn, start |-> clock[g] + 1, at |-> at],
           \A i \in 1 .. Len(frames'[g]) - 1 : i <= Len(frames[g]) /\ frames'[g][i] = frames[g][i],
           EntEffect(g, fn, <<at, Len(frames'[g])>>, caller_bp),
           state[g] # NoState /\ state'[g] # NoState => Depth(g)' /\ Bottom(g)'
    PROVE  GoroutineInv(g)'
<1> DEFINE n == Len(frames'[g])
<1>1. /\ frames'[g] \in Seq(Frame) /\ frames[g] \in Seq(Frame)
      /\ n \in Nat \ {0} /\ Len(frames[g]) \in Nat /\ clock[g] \in Nat /\ clock'[g] \in Nat
      /\ since[g] \in Nat /\ since'[g] \in Nat
  BY SMTT(60) DEF TargetTypeOK, KernelTypeOK
<1>2. FreshFrame(g)'
  BY <1>1, EmptySeqFacts DEF FreshFrame
<1>3. ClockBounds(g) /\ SampleInv(g)
  BY DEF GoroutineInv
<1>4. ASSUME NEW i \in 1 .. n PROVE frames'[g][i].start <= clock'[g]
  <2>1. CASE i = n
    BY <2>1, <1>1
  <2>2. CASE i # n
    <3>1. i \in 1 .. n - 1 /\ i \in 1 .. Len(frames[g])
      BY <1>1, <2>2
    <3>2. frames[g][i].start \in Nat /\ frames[g][i].start <= clock[g]
      BY <1>1, <1>3, <3>1, FrameTypes DEF ClockBounds
    <3>3. frames'[g][i] = frames[g][i]
      BY <3>1
    <3>4. \A a, c \in Nat : a <= c => a <= c + 1
      OBVIOUS
    <3>5. QED
      BY <1>1, <3>2, <3>3, <3>4, Zenon
  <2>3. QED
    BY <2>1, <2>2
<1>5. ClockBounds(g)'
  <2>1. since'[g] <= clock'[g]
    BY <1>1, <1>3 DEF EntEffect, ClockBounds
  <2>2. QED
    BY <1>4, <2>1 DEF ClockBounds
<1>6. CASE state'[g] = NoState
  BY <1>2, <1>5, <1>6, NoSample DEF GoroutineInv
<1>7. CASE state'[g] # NoState
  <2>1. /\ state'[g].last_ip = fn /\ state'[g].last_bp = <<at, n>>
        /\ state'[g].root_ip \in Wanted /\ state'[g].root_depth > 0
        /\ since'[g] > 0 /\ since'[g] <= clock[g] + 1
        /\ phase = "attaching" => <<ENT, state'[g].root_ip>> \in attached
    <3>1. CASE state[g] = NoState
      <4>1. /\ fn \in Wanted
            /\ state'[g].root_ip = fn /\ state'[g].last_ip = fn
            /\ state'[g].last_bp = <<at, n>> /\ state'[g].root_depth = 1
            /\ since'[g] = clock[g] + 1
        BY <1>7, <3>1 DEF EntEffect
      <4>2. QED
        BY <1>1, <4>1
    <3>2. CASE state[g] # NoState
      <4>1. state[g].root_depth \in Nat
        BY <3>2, OpenState DEF TraceState
      <4>2. /\ state'[g].root_ip = state[g].root_ip /\ since'[g] = since[g]
            /\ state'[g].last_ip = fn /\ state'[g].last_bp = <<at, n>>
            /\ state'[g].root_depth \in {state[g].root_depth + 1, state[g].root_depth}
        BY <1>7, <3>2 DEF EntEffect
      <4>3. /\ state[g].root_ip \in Wanted /\ state[g].root_depth > 0 /\ since[g] > 0
            /\ since[g] <= clock[g]
            /\ phase = "attaching" => <<ENT, state[g].root_ip>> \in attached
        BY <1>3, <3>2 DEF SampleInv, Opened, ClockBounds
      <4>4. state'[g].root_depth > 0
        BY <4>1, <4>2, <4>3
      <4>5. since'[g] > 0 /\ since'[g] <= clock[g] + 1
        BY <1>1, <4>2, <4>3
      <4>6. QED
        BY <4>2, <4>3, <4>4, <4>5
    <3>3. QED
      BY <3>1, <3>2
  <2>2. Opened(g)'
    BY <2>1 DEF Opened
  <2>3. /\ Top(g)'.fn = fn /\ Top(g)'.start = clock[g] + 1 /\ Top(g)'.at = at
    BY DEF Top
  <2>4. Seen(g)' /\ Unseen(g)'
    BY <1>1, <2>1, <2>3 DEF Seen, Unseen
  <2>5. LastEntry(g)'
    <3>1. n \in 1 .. n /\ \A i \in 1 .. n : ~(i > n)
      BY <1>1
    <3>2. /\ frames'[g][n].start = clock'[g]
          /\ state'[g].last_bp = <<frames'[g][n].at, n>>
      BY <2>1
    <3>3. QED
      BY <3>1, <3>2 DEF LastEntry
  <2>6. Released(g)'
    BY DEF Released
  <2>7. Depth(g)' /\ Bottom(g)'
    <3>1. CASE state[g] = NoState
      <4>1. state'[g].root_ip = fn /\ state'[g].root_depth = 1 /\ since'[g] = clock[g] + 1
        BY <1>7, <3>1 DEF EntEffect
      <4>2. RootFrames(g)' = Recorded(g)' /\ Cardinality(RootFrames(g)') = 1
        <5>1. ClockBounds(g) /\ frames \in [Goroutines -> Seq(Frame)]
              /\ clock \in [Goroutines -> Nat] /\ since' \in [Goroutines -> Nat]
              /\ frames' \in [Goroutines -> Seq(Frame)]
          BY <1>3 DEF TargetTypeOK, KernelTypeOK
        <5>2. frames'[g][n].start = clock[g] + 1 /\ frames'[g][n].fn = state'[g].root_ip
          BY <4>1
        <5>3. QED
          BY <4>1, <5>1, <5>2, AdmittedDepth
      <4>3. Recorded(g)' \subseteq Nat
        BY <1>1 DEF Recorded
      <4>4. QED
        BY <4>1, <4>2, <4>3 DEF Depth, Bottom
    <3>2. QED
      BY <1>7, <3>1
  <2>8. QED
    BY <1>2, <1>5, <2>2, <2>4, <2>5, <2>6, <2>7 DEF GoroutineInv, SampleInv
<1>8. QED
  BY <1>6, <1>7

\* The root frames of an open sample when a frame comes on top.
LEMMA RootPushed ==
    ASSUME NEW g \in Goroutines, NEW n, n = Len(frames[g]),
           frames \in [Goroutines -> Seq(Frame)],
           Len(frames'[g]) = n + 1,
           \A i \in 1 .. n : frames'[g][i] = frames[g][i],
           since'[g] = since[g], state'[g].root_ip = state[g].root_ip
    PROVE  /\ n + 1 \notin RootFrames(g)
           /\ RootFrames(g)' =
                IF /\ since[g] # 0 /\ frames'[g][n + 1].start >= since[g]
                   /\ frames'[g][n + 1].fn = state[g].root_ip
                  THEN RootFrames(g) \cup {n + 1} ELSE RootFrames(g)
<1>1. n \in Nat
  OBVIOUS
<1>2. 1 .. n + 1 = (1 .. n) \cup {n + 1} /\ n + 1 \notin 1 .. n
  BY <1>1
<1>3. RootFrames(g)' = {i \in 1 .. n + 1 : /\ since[g] # 0 /\ frames'[g][i].start >= since[g]
                                           /\ frames'[g][i].fn = state[g].root_ip}
  BY DEF RootFrames, Recorded
<1>4. RootFrames(g) = {i \in 1 .. n : /\ since[g] # 0 /\ frames'[g][i].start >= since[g]
                                      /\ frames'[g][i].fn = state[g].root_ip}
  BY DEF RootFrames, Recorded
<1>5. QED
  BY <1>2, <1>3, <1>4

\* Its depth is positive, so there is a root frame.
LEMMA SampleHasRoot ==
    ASSUME KernelTypeOK, NEW g \in Goroutines, SampleInv(g), Adaptive, Sound(g)
    PROVE  RootFrames(g) # {}
<1>1. state[g].root_depth > 0 /\ state[g].root_depth <= Cardinality(RootFrames(g))
  BY DEF SampleInv, Opened, Depth, Sound
<1>2. state[g].root_depth \in Nat
  BY OpenState DEF Sound, TraceState
<1>3. QED
  BY <1>1, <1>2, FS_EmptySet

\* A call whose entry probe is attached,
LEMMA CallKeeps ==
    ASSUME NEW g \in Goroutines, NEW fn \in Callable,
           DepthInv, Call(g, fn), UNCHANGED <<cfg, phase, attached>>
    PROVE  ProbesTypeOK' /\ Only(g) /\ GoroutineInv(g)'
<1> DEFINE n == Len(frames[g])
           f == [fn |-> fn, start |-> clock[g] + 1, at |-> moves[g]]
           bp == <<moves[g], n + 1>>
           caller_bp == <<moves[g], n>>
<1>1. /\ KernelTypeOK /\ TargetTypeOK /\ GoroutineInv(g) /\ attached \subseteq Points
      /\ phase \in {"attaching", "tracing", "detaching", "draining", "done"}
  BY TypeParts DEF DepthInv, ProbesTypeOK
<1>2. fn \in Functions /\ <<ENT, fn>> \in attached
  BY <1>1, ProbedFunction DEF Call
<1>3. /\ frames \in [Goroutines -> Seq(Frame)] /\ frames[g] \in Seq(Frame) /\ n \in Nat
      /\ moves \in [Goroutines -> Nat] /\ moves[g] \in Nat
      /\ clock \in [Goroutines -> Nat] /\ clock[g] \in Nat
  BY <1>1 DEF TargetTypeOK
<1>4. /\ clock' \in [Goroutines -> Nat] /\ clock'[g] = clock[g] + 1
      /\ \A h \in Goroutines \ {g} : clock'[h] = clock[h]
  BY <1>3 DEF Call, Fire
<1>5. f \in Frame
  BY <1>2, <1>3 DEF Frame
<1>6. /\ frames' \in [Goroutines -> Seq(Frame)]
      /\ \A h \in Goroutines \ {g} : frames'[h] = frames[h]
      /\ Len(frames'[g]) = n + 1
      /\ \A i \in 1 .. n : frames'[g][i] = frames[g][i]
      /\ frames'[g][n + 1] = f
  <2> HIDE DEF f
  <2>1. frames' = [frames EXCEPT ![g] = Append(@, f)]
    BY DEF Call, f
  <2>2. QED
    BY <1>3, <1>5, <2>1, Pushed
<1>7. Ent(g, fn, bp, caller_bp) /\ bp \in Addresses /\ caller_bp \in Addresses
  BY <1>3 DEF Call, Addresses
<1>8. KernelTypeOK' /\ EntEffect(g, fn, bp, caller_bp) /\ KernelOnly(g)
  <2> HIDE DEF bp, caller_bp
  <2>1. KernelTypeOK'
    BY <1>1, <1>2, <1>4, <1>7, EntType
  <2>2. QED
    BY <1>1, <1>2, <1>7, <2>1, EntDoes
<1>9. /\ fresh' = fresh \cup {g} /\ alive' = alive /\ g \in alive
      /\ moves' = moves /\ faults' = faults /\ unreturned' = unreturned /\ stray' = stray
      /\ indirect' \in {indirect \ {g}, indirect \cup {g}, indirect}
  BY DEF Call, IndirectNext
<1>10. TargetTypeOK'
  BY <1>1, <1>4, <1>6, <1>9 DEF TargetTypeOK
<1>11. ProbesTypeOK'
  BY <1>1, <1>8, <1>10 DEF ProbesTypeOK, KernelTypeOK, TargetTypeOK
<1>12. Only(g)
  BY <1>4, <1>6, <1>8, <1>9 DEF Only, KernelOnly
<1>13. ASSUME state[g] # NoState, state'[g] # NoState, Adaptive', Sound(g)'
       PROVE  /\ state'[g].root_depth <= Cardinality(RootFrames(g)')
              /\ g \notin indirect' => state'[g].root_depth = Cardinality(RootFrames(g)')
  <2>1. /\ since'[g] = since[g] /\ state'[g].root_ip = state[g].root_ip
        /\ state'[g].root_depth = IF /\ Adaptive /\ fn \in Wanted /\ state[g].root_ip = fn
                                     /\ ~Duplicate(state[g], fn, caller_bp)
                                    THEN state[g].root_depth + 1 ELSE state[g].root_depth
    BY <1>8, <1>13 DEF EntEffect
  <2>2. Adaptive /\ Sound(g) /\ state[g] \in TraceState
    BY <1>1, <1>9, <1>13, OpenState DEF Sound, Adaptive
  <2>3. /\ state[g].root_depth <= Cardinality(RootFrames(g))
        /\ g \notin indirect => state[g].root_depth = Cardinality(RootFrames(g))
    BY <1>1, <2>2 DEF GoroutineInv, SampleInv, Depth
  <2>4. /\ since[g] > 0 /\ since[g] <= clock[g] /\ since[g] \in Nat
        /\ state[g].root_ip \in Wanted /\ state[g].root_depth \in Nat
    BY <1>1, <1>13, <2>2 DEF GoroutineInv, SampleInv, Opened, ClockBounds, KernelTypeOK, TraceState
  <2>5. /\ n + 1 \notin RootFrames(g)
        /\ RootFrames(g)' = IF fn = state[g].root_ip
                              THEN RootFrames(g) \cup {n + 1} ELSE RootFrames(g)
    <3>1. f.start >= since[g] /\ since[g] # 0
      BY <1>3, <2>4
    <3>2. /\ n + 1 \notin RootFrames(g)
          /\ RootFrames(g)' =
                IF /\ since[g] # 0 /\ frames'[g][n + 1].start >= since[g]
                   /\ frames'[g][n + 1].fn = state[g].root_ip
                  THEN RootFrames(g) \cup {n + 1} ELSE RootFrames(g)
      <4>1. n = Len(frames[g])
        OBVIOUS
      <4> HIDE DEF n, f
      <4>2. QED
        BY <1>3, <1>6, <2>1, <4>1, RootPushed
    <3>3. frames'[g][n + 1].start = f.start /\ frames'[g][n + 1].fn = fn
      BY <1>6
    <3>4. QED
      BY <3>1, <3>2, <3>3
  <2>6. IsFiniteSet(RootFrames(g)) /\ Cardinality(RootFrames(g)) \in Nat
    BY <1>3, RootsFinite
  <2>7. CASE fn # state[g].root_ip
    <3>1. RootFrames(g)' = RootFrames(g) /\ state'[g].root_depth = state[g].root_depth
      BY <2>1, <2>5, <2>7
    <3>2. g \notin indirect' => g \notin indirect
      BY <1>13, <2>7 DEF Call, IndirectNext
    <3>3. QED
      BY <2>3, <3>1, <3>2
  <2>8. CASE fn = state[g].root_ip
    <3>1. Cardinality(RootFrames(g)') = Cardinality(RootFrames(g)) + 1
      BY <2>5, <2>6, <2>8, FS_AddElement
    <3>2. state'[g].root_depth <= state[g].root_depth + 1
      BY <2>1, <2>4
    <3>3. ASSUME g \notin indirect'
          PROVE  ~Duplicate(state[g], fn, caller_bp) /\ g \notin indirect
      <4>1. /\ g \notin indirect
            /\ frames[g] # <<>> => Top(g).start # 0 /\ Top(g).at = moves[g]
        BY <1>13, <2>8, <3>3 DEF Call, IndirectNext
      <4>2. ASSUME state[g].last_ip = fn PROVE state[g].last_bp = caller_bp
        <5>1. state[g].last_ip # Zero
          BY <1>2, <4>2, ScopeAssumption DEF Zero
        <5>2. PICK j \in 1 .. n : /\ frames[g][j].start = clock[g]
                                  /\ state[g].last_bp = <<frames[g][j].at, j>>
                                  /\ \A i \in 1 .. n : i > j => frames[g][i].start = 0
          BY <1>1, <2>2, <5>1 DEF GoroutineInv, SampleInv, LastEntry
        <5>3. frames[g] # <<>> /\ n \in 1 .. n
          BY <1>3, <5>2, EmptySeqFacts
        <5>4. ~(n > j)
          BY <4>1, <5>2, <5>3 DEF Top
        <5>5. n = j
          BY <1>3, <5>2, <5>4
        <5>6. QED
          BY <4>1, <5>2, <5>3, <5>5 DEF Top
      <4>3. QED
        BY <4>1, <4>2 DEF Duplicate
    <3>4. g \notin indirect' => state'[g].root_depth = state[g].root_depth + 1
      BY <2>1, <2>2, <2>4, <2>8, <3>3
    <3>5. \A d, e, c \in Nat : (d <= c /\ e <= d + 1 => e <= c + 1)
      OBVIOUS
    <3>6. state'[g].root_depth \in Nat
      BY <2>1, <2>4
    <3>7. state'[g].root_depth <= Cardinality(RootFrames(g)')
      BY <2>3, <2>4, <2>6, <3>1, <3>2, <3>5, <3>6, Zenon
    <3>8. QED
      BY <2>3, <3>1, <3>3, <3>4, <3>7
  <2>9. QED
    BY <2>7, <2>8
<1>14. ASSUME state[g] # NoState, state'[g] # NoState
       PROVE  Bottom(g)'
  <2> SUFFICES ASSUME Adaptive, Sound(g), NEW i \in Recorded(g)'
               PROVE  \E r \in RootFrames(g)' : r <= i
    BY <1>9, <1>14 DEF Bottom, Sound, Adaptive
  <2>1. since'[g] = since[g] /\ state'[g].root_ip = state[g].root_ip
    BY <1>8, <1>14 DEF EntEffect
  <2>2. RootFrames(g) \subseteq RootFrames(g)'
    BY <1>2, <1>6, <2>1 DEF RootFrames, Recorded
  <2>3. PICK r \in RootFrames(g) : r <= i
    <3>1. CASE i \in 1 .. n
      BY <1>1, <1>6, <2>1, <3>1 DEF GoroutineInv, SampleInv, Bottom, Recorded
    <3>2. CASE i \notin 1 .. n
      <4>1. PICK r \in RootFrames(g) : TRUE
        BY <1>1, SampleHasRoot DEF GoroutineInv
      <4>2. i = n + 1 /\ r \in 1 .. n
        BY <1>2, <1>6, <3>2, <4>1 DEF RootFrames, Recorded
      <4>3. QED
        BY <1>2, <4>1, <4>2
    <3>3. QED
      BY <3>1, <3>2
  <2>4. QED
    BY <2>2, <2>3
<1>15. GoroutineInv(g)'
  <2>1. state[g] # NoState /\ state'[g] # NoState => Depth(g)' /\ Bottom(g)'
    BY <1>13, <1>14 DEF Depth
  <2>2. /\ Len(frames'[g]) > 0
        /\ frames'[g][Len(frames'[g])] = [fn |-> fn, start |-> clock[g] + 1, at |-> moves[g]]
        /\ \A i \in 1 .. Len(frames'[g]) - 1 :
              i <= Len(frames[g]) /\ frames'[g][i] = frames[g][i]
        /\ EntEffect(g, fn, <<moves[g], Len(frames'[g])>>, caller_bp)
    BY <1>3, <1>6, <1>8
  <2> HIDE DEF caller_bp, f, n, bp
  <2>3. QED
    BY <1>1, <1>2, <1>3, <1>4, <1>8, <1>9, <1>10, <2>1, <2>2, EntryKeeps
<1>16. QED
  BY <1>11, <1>12, <1>15

\* A restart of a prologue,
LEMMA RestartKeeps ==
    ASSUME NEW g \in Goroutines, NEW moved \in {0, 1},
           DepthInv, Restart(g, moved), UNCHANGED <<cfg, phase, attached>>
    PROVE  ProbesTypeOK' /\ Only(g) /\ GoroutineInv(g)'
<1> DEFINE n == Len(frames[g])
           fn == Top(g).fn
           f == [fn |-> fn, start |-> clock[g] + 1, at |-> moves[g] + moved]
           bp == <<moves[g] + moved, n>>
           caller_bp == <<moves[g] + moved, n - 1>>
<1>1. /\ KernelTypeOK /\ TargetTypeOK /\ GoroutineInv(g) /\ attached \subseteq Points
      /\ phase \in {"attaching", "tracing", "detaching", "draining", "done"}
  BY TypeParts DEF DepthInv, ProbesTypeOK
<1>2. fn \in Functions /\ <<ENT, fn>> \in attached
  <2>1. <<ENT, Top(g).fn>> \in attached
    BY DEF Restart
  <2>2. QED
    BY <1>1, <2>1, ProbedFunction
<1>3. /\ frames \in [Goroutines -> Seq(Frame)] /\ frames[g] \in Seq(Frame)
      /\ frames[g] # <<>> /\ n \in Nat \ {0} /\ g \in alive
      /\ moves \in [Goroutines -> Nat] /\ moves[g] + moved \in Nat
      /\ clock \in [Goroutines -> Nat] /\ clock[g] \in Nat
  <2>1. frames[g] # <<>> /\ frames[g] \in Seq(Frame)
    BY <1>1 DEF Restart, GoroutineInv, FreshFrame, TargetTypeOK
  <2>2. n \in Nat \ {0}
    BY <2>1, EmptySeqFacts
  <2>3. QED
    BY <1>1, <2>1, <2>2 DEF Restart, TargetTypeOK
<1>4. /\ clock' \in [Goroutines -> Nat] /\ clock'[g] = clock[g] + 1
      /\ \A h \in Goroutines \ {g} : clock'[h] = clock[h]
  BY <1>3 DEF Restart, Fire
<1>5. /\ frames' \in [Goroutines -> Seq(Frame)]
      /\ \A h \in Goroutines \ {g} : frames'[h] = frames[h]
      /\ Len(frames'[g]) = n
      /\ \A i \in 1 .. n - 1 : frames'[g][i] = frames[g][i]
      /\ frames'[g][n] = f
  <2>1. RestartTop(g, clock[g] + 1, moves[g] + moved)
    BY DEF Restart, RestartTop
  <2>2. clock[g] + 1 \in Nat
    BY <1>3
  <2>3. QED
    BY <1>3, <2>1, <2>2, Restarted
<1>6. Ent(g, fn, bp, caller_bp) /\ bp \in Addresses /\ caller_bp \in Addresses
  BY <1>3 DEF Restart, Addresses
<1>7. KernelTypeOK' /\ EntEffect(g, fn, bp, caller_bp) /\ KernelOnly(g)
  <2> HIDE DEF bp, caller_bp, fn
  <2>1. KernelTypeOK'
    BY <1>1, <1>2, <1>4, <1>6, EntType
  <2>2. QED
    BY <1>1, <1>2, <1>6, <2>1, EntDoes
<1>8. /\ fresh' = fresh /\ alive' = alive /\ g \in fresh
      /\ moves' = [moves EXCEPT ![g] = @ + moved]
      /\ faults' = faults /\ unreturned' = unreturned /\ stray' = stray
      /\ indirect' = IF state[g] = NoState THEN indirect \ {g} ELSE indirect
  BY DEF Restart
<1>9. TargetTypeOK'
  BY <1>1, <1>3, <1>4, <1>5, <1>8 DEF TargetTypeOK
<1>10. ProbesTypeOK'
  BY <1>1, <1>7, <1>9 DEF ProbesTypeOK, KernelTypeOK, TargetTypeOK
<1>11. Only(g)
  BY <1>4, <1>5, <1>7, <1>8 DEF Only, KernelOnly
<1>12. ASSUME state[g] # NoState, state'[g] # NoState, Adaptive', Sound(g)'
       PROVE  /\ state'[g].root_depth <= Cardinality(RootFrames(g)')
              /\ g \notin indirect' => state'[g].root_depth = Cardinality(RootFrames(g)')
  <2>1. /\ since'[g] = since[g] /\ state'[g].root_ip = state[g].root_ip
        /\ state'[g].root_depth = IF /\ Adaptive /\ fn \in Wanted /\ state[g].root_ip = fn
                                     /\ ~Duplicate(state[g], fn, caller_bp)
                                    THEN state[g].root_depth + 1 ELSE state[g].root_depth
    BY <1>7, <1>12 DEF EntEffect
  <2>2. Adaptive /\ Sound(g)
    BY <1>8, <1>12 DEF Sound, Adaptive
  <2>3. /\ state[g].root_depth <= Cardinality(RootFrames(g))
        /\ g \notin indirect => state[g].root_depth = Cardinality(RootFrames(g))
    BY <1>1, <2>2 DEF GoroutineInv, SampleInv, Depth
  <2>4. since[g] > 0 /\ since[g] <= clock[g] /\ since[g] \in Nat
    BY <1>1, <1>12 DEF GoroutineInv, SampleInv, Opened, ClockBounds, KernelTypeOK
  <2>5. CASE Top(g).start = 0
    <3>1. fn # state[g].root_ip
      BY <1>1, <1>2, <1>8, <1>12, <2>5 DEF GoroutineInv, SampleInv, Unseen
    <3>2. RootFrames(g)' = RootFrames(g)
      <4>1. frames'[g][n].fn # state[g].root_ip /\ frames[g][n].fn # state[g].root_ip
        BY <1>5, <3>1 DEF Top
      <4>2. \A i \in 1 .. n : i = n \/ i \in 1 .. n - 1
        BY <1>3
      <4>3. QED
        BY <1>5, <2>1, <4>1, <4>2 DEF RootFrames, Recorded
    <3>3. QED
      BY <1>8, <1>12, <2>1, <2>3, <3>1, <3>2
  <2>6. CASE Top(g).start # 0
    <3>1. /\ state[g].last_ip = fn /\ state[g].last_bp = <<Top(g).at, n>>
          /\ Top(g).start >= since[g]
      BY <1>1, <1>8, <1>12, <2>6 DEF GoroutineInv, SampleInv, Seen
    <3>2. <<Top(g).at, n>> # caller_bp
      BY <1>3
    <3>3. Duplicate(state[g], fn, caller_bp)
      BY <3>1, <3>2 DEF Duplicate
    <3>4. RootFrames(g)' = RootFrames(g)
      <4>1. /\ frames'[g][n].fn = frames[g][n].fn
            /\ frames'[g][n].start >= since[g] /\ frames[g][n].start >= since[g]
        BY <1>3, <1>5, <2>4, <3>1 DEF Top
      <4>2. \A i \in 1 .. n : i = n \/ i \in 1 .. n - 1
        BY <1>3
      <4>3. QED
        BY <1>5, <2>1, <4>1, <4>2 DEF RootFrames, Recorded
    <3>5. QED
      BY <1>8, <1>12, <2>1, <2>3, <3>3, <3>4
  <2>7. QED
    BY <2>5, <2>6
<1>13. ASSUME state[g] # NoState, state'[g] # NoState
       PROVE  Bottom(g)'
  <2> SUFFICES ASSUME Adaptive, Sound(g), NEW i \in Recorded(g)'
               PROVE  \E r \in RootFrames(g)' : r <= i
    BY <1>8, <1>13 DEF Bottom, Sound, Adaptive
  <2>1. since'[g] = since[g] /\ state'[g].root_ip = state[g].root_ip
    BY <1>7, <1>13 DEF EntEffect
  <2>2. since[g] \in Nat /\ since[g] > 0 /\ since[g] <= clock[g]
    BY <1>1, <1>13 DEF GoroutineInv, SampleInv, Opened, ClockBounds, KernelTypeOK
  <2>3. \A k \in 1 .. n : k = n \/ k \in 1 .. n - 1
    BY <1>3
  <2>4. RootFrames(g) \subseteq RootFrames(g)'
    <3>1. f.start >= since[g] /\ since[g] # 0 /\ f.fn = frames[g][n].fn
      BY <1>3, <2>2 DEF Top
    <3>2. QED
      BY <1>5, <2>1, <2>3, <3>1 DEF RootFrames, Recorded
  <2>5. PICK r \in RootFrames(g) : r <= i
    <3>1. CASE i = n
      <4>1. PICK r \in RootFrames(g) : TRUE
        BY <1>1, SampleHasRoot DEF GoroutineInv
      <4>2. r \in 1 .. n
        BY <4>1 DEF RootFrames, Recorded
      <4>3. QED
        BY <1>3, <3>1, <4>1, <4>2
    <3>2. CASE i # n
      <4>1. i \in Recorded(g)
        BY <1>3, <1>5, <2>1, <2>3, <3>2 DEF Recorded
      <4>2. QED
        BY <1>1, <4>1 DEF GoroutineInv, SampleInv, Bottom
    <3>3. QED
      BY <3>1, <3>2
  <2>6. QED
    BY <2>4, <2>5
<1>14. GoroutineInv(g)'
  <2>1. state[g] # NoState /\ state'[g] # NoState => Depth(g)' /\ Bottom(g)'
    BY <1>12, <1>13 DEF Depth
  <2>2. /\ Len(frames'[g]) > 0
        /\ frames'[g][Len(frames'[g])] = [fn |-> fn, start |-> clock[g] + 1,
                                          at |-> moves[g] + moved]
        /\ \A i \in 1 .. Len(frames'[g]) - 1 :
              i <= Len(frames[g]) /\ frames'[g][i] = frames[g][i]
        /\ EntEffect(g, fn, <<moves[g] + moved, Len(frames'[g])>>, caller_bp)
    BY <1>3, <1>5, <1>7
  <2> HIDE DEF caller_bp, f, n, bp, fn
  <2>3. QED
    BY <1>1, <1>2, <1>3, <1>4, <1>7, <1>8, <1>9, <2>1, <2>2, EntryKeeps
<1>15. QED
  BY <1>10, <1>11, <1>14

\* A call that no probe sees,
LEMMA CallUnprobedKeeps ==
    ASSUME NEW g \in Goroutines, NEW fn \in Callable, NEW moved \in {0, 1},
           DepthInv, CallUnprobed(g, fn, moved), UNCHANGED <<cfg, phase, attached>>
    PROVE  ProbesTypeOK' /\ Only(g) /\ GoroutineInv(g)'
<1> DEFINE n == Len(frames[g])
           f == [fn |-> fn, start |-> 0, at |-> 0]
<1>1. /\ KernelTypeOK /\ TargetTypeOK /\ GoroutineInv(g) /\ attached \subseteq Points
      /\ phase \in {"attaching", "tracing", "detaching", "draining", "done"}
      /\ FreshFrame(g) /\ ClockBounds(g) /\ SampleInv(g)
  BY TypeParts DEF DepthInv, ProbesTypeOK, GoroutineInv
<1>2. /\ frames \in [Goroutines -> Seq(Frame)] /\ frames[g] \in Seq(Frame) /\ n \in Nat
      /\ moves \in [Goroutines -> Nat]
      /\ clock \in [Goroutines -> Nat] /\ clock[g] \in Nat
  BY <1>1 DEF TargetTypeOK
<1>3. f \in Frame
  BY ProbesAssumption DEF Frame
<1>4. /\ frames' \in [Goroutines -> Seq(Frame)]
      /\ \A h \in Goroutines \ {g} : frames'[h] = frames[h]
      /\ Len(frames'[g]) = n + 1
      /\ \A i \in 1 .. n : frames'[g][i] = frames[g][i]
      /\ frames'[g][n + 1] = f
  <2> HIDE DEF f
  <2>1. frames' = [frames EXCEPT ![g] = Append(@, f)]
    BY DEF CallUnprobed, f
  <2>2. QED
    BY <1>2, <1>3, <2>1, Pushed
<1>5. /\ fresh' \in {fresh \cup {g}, fresh \ {g}} /\ g \in alive /\ <<ENT, fn>> \notin attached
      /\ moves' \in [Goroutines -> Nat]
      /\ UNCHANGED <<alive, faults, clock, indirect, unreturned, stray, kernelVars>>
  BY <1>2 DEF CallUnprobed
<1>6. UNCHANGED <<state, denominator, queue, stats, since>>
  BY <1>5 DEF kernelVars
<1>7. ProbesTypeOK'
  BY <1>1, <1>4, <1>5, <1>6 DEF ProbesTypeOK, KernelTypeOK, TargetTypeOK
<1>8. Only(g)
  BY <1>4, <1>5, <1>6 DEF Only
<1>9. FreshFrame(g)'
  <2>1. frames'[g] \in Seq(Frame) /\ Len(frames'[g]) \in Nat \ {0}
    BY <1>2, <1>4
  <2>2. QED
    BY <2>1, EmptySeqFacts DEF FreshFrame
<1>10. 1 .. n + 1 = (1 .. n) \cup {n + 1}
  BY <1>2
<1>11. ClockBounds(g)'
  <2>1. since'[g] <= clock'[g]
    BY <1>1, <1>5, <1>6 DEF ClockBounds
  <2>2. ASSUME NEW i \in 1 .. n + 1
        PROVE  frames'[g][i].start <= clock'[g]
    <3>1. CASE i \in 1 .. n
      <4>1. frames[g][i].start <= clock[g]
        BY <1>1, <3>1 DEF ClockBounds
      <4>2. QED
        BY <1>4, <1>5, <3>1, <4>1, Zenon
    <3>2. CASE i = n + 1
      BY <1>2, <1>4, <1>5, <3>2
    <3>3. QED
      BY <1>10, <3>1, <3>2
  <2>3. QED
    BY <1>4, <2>1, <2>2 DEF ClockBounds
<1>12. Opened(g)' /\ Released(g)' /\ (Sound(g)' <=> Sound(g))
  BY <1>1, <1>5, <1>6 DEF SampleInv, Opened, Released, Sound, Adaptive
<1>13. Top(g)'.start = 0 /\ Top(g)'.fn = fn
  BY <1>4 DEF Top
<1>14. Seen(g)'
  BY <1>13 DEF Seen
<1>15. Unseen(g)'
  BY <1>1, <1>5, <1>6, <1>13 DEF Unseen, SampleInv, Opened
<1>16. LastEntry(g)'
  <2> SUFFICES ASSUME Sound(g), state[g].last_ip # Zero
               PROVE  \E j \in 1 .. Len(frames'[g]) :
                        /\ frames'[g][j].start = clock'[g]
                        /\ state'[g].last_bp = <<frames'[g][j].at, j>>
                        /\ \A i \in 1 .. Len(frames'[g]) : i > j => frames'[g][i].start = 0
    BY <1>6, <1>12 DEF LastEntry
  <2>1. PICK j \in 1 .. n : /\ frames[g][j].start = clock[g]
                            /\ state[g].last_bp = <<frames[g][j].at, j>>
                            /\ \A i \in 1 .. n : i > j => frames[g][i].start = 0
    BY <1>1 DEF SampleInv, LastEntry
  <2>2. /\ j \in 1 .. n + 1
        /\ frames'[g][j].start = clock'[g]
        /\ state'[g].last_bp = <<frames'[g][j].at, j>>
    BY <1>4, <1>5, <1>6, <1>10, <2>1
  <2>3. \A i \in 1 .. n + 1 : i > j => frames'[g][i].start = 0
    BY <1>4, <1>10, <2>1, SMTT(60)
  <2>4. QED
    BY <1>4, <2>2, <2>3
<1>17. Depth(g)' /\ Bottom(g)'
  <2> SUFFICES ASSUME Adaptive, Sound(g)
               PROVE  /\ state'[g].root_depth <= Cardinality(RootFrames(g)')
                      /\ g \notin indirect' =>
                           state'[g].root_depth = Cardinality(RootFrames(g)')
                      /\ \A i \in Recorded(g)' : \E r \in RootFrames(g)' : r <= i
    BY <1>12 DEF Depth, Bottom, Adaptive
  <2>1. since[g] > 0 /\ since[g] \in Nat
    BY <1>1 DEF SampleInv, Opened, Sound, KernelTypeOK
  <2>2. ~(frames'[g][n + 1].start >= since[g])
    BY <1>4, <2>1
  <2>3. RootFrames(g)' = RootFrames(g)
    <3>1. n = Len(frames[g])
      OBVIOUS
    <3> HIDE DEF n, f
    <3>2. QED
      BY <1>2, <1>4, <1>6, <2>2, <3>1, RootPushed
  <2>4. Recorded(g)' \subseteq Recorded(g)
    BY <1>4, <1>6, <1>10, <2>2 DEF Recorded
  <2>5. QED
    BY <1>1, <1>5, <1>6, <2>3, <2>4 DEF SampleInv, Depth, Bottom
<1>18. QED
  BY <1>7, <1>8, <1>9, <1>11, <1>12, <1>14, <1>15, <1>16, <1>17 DEF GoroutineInv, SampleInv

\* The root frames of an open sample when frames go away.
LEMMA RootPopped ==
    ASSUME NEW g \in Goroutines, NEW depth \in 0 .. Len(frames[g]),
           frames \in [Goroutines -> Seq(Frame)],
           Len(frames'[g]) = depth,
           \A i \in 1 .. depth : frames'[g][i] = frames[g][i],
           since'[g] = since[g], state'[g].root_ip = state[g].root_ip
    PROVE  RootFrames(g)' = RootFrames(g) \cap (1 .. depth)
<1>1. \A i \in 1 .. depth : i \in 1 .. Len(frames[g])
  OBVIOUS
<1>2. QED
  BY <1>1 DEF RootFrames, Recorded

\* A return that a probe sees,
LEMMA ReturnKeeps ==
    ASSUME NEW g \in Goroutines, DepthInv, Return(g), UNCHANGED <<cfg, phase, attached>>
    PROVE  ProbesTypeOK' /\ Only(g) /\ GoroutineInv(g)'
<1> DEFINE n == Len(frames[g])
           fn == Top(g).fn
<1>1. /\ KernelTypeOK /\ TargetTypeOK /\ GoroutineInv(g) /\ attached \subseteq Points
      /\ phase \in {"attaching", "tracing", "detaching", "draining", "done"}
      /\ FreshFrame(g) /\ ClockBounds(g) /\ SampleInv(g)
  BY TypeParts DEF DepthInv, ProbesTypeOK, GoroutineInv
<1>2. fn \in Functions
  <2>1. <<RET, Top(g).fn>> \in attached
    BY DEF Return
  <2>2. QED
    BY <1>1, <2>1, ProbedFunction
<1>3. /\ frames \in [Goroutines -> Seq(Frame)] /\ frames[g] \in Seq(Frame)
      /\ frames[g] # <<>> /\ n \in Nat \ {0} /\ g \in alive /\ n - 1 \in 0 .. n
      /\ clock \in [Goroutines -> Nat] /\ clock[g] \in Nat
  <2>1. frames[g] # <<>> /\ frames[g] \in Seq(Frame)
    BY <1>1 DEF Return, TargetTypeOK
  <2>2. n \in Nat \ {0}
    BY <2>1, EmptySeqFacts
  <2>3. QED
    BY <1>1, <2>1, <2>2 DEF Return, TargetTypeOK
<1>4. /\ clock' \in [Goroutines -> Nat] /\ clock'[g] = clock[g] + 1
      /\ \A h \in Goroutines \ {g} : clock'[h] = clock[h]
  BY <1>3 DEF Return, Fire
<1>5. /\ frames' \in [Goroutines -> Seq(Frame)]
      /\ \A h \in Goroutines \ {g} : frames'[h] = frames[h]
      /\ Len(frames'[g]) = n - 1
      /\ \A i \in 1 .. n - 1 : frames'[g][i] = frames[g][i]
  BY <1>3, Popped DEF Return
<1>6. /\ fresh' = fresh \ {g} /\ alive' = alive /\ moves' = moves /\ faults' = faults
      /\ indirect' = indirect /\ unreturned' = unreturned
      /\ stray' = IF state[g] # NoState /\ n \notin Recorded(g) THEN stray \cup {g} ELSE stray
      /\ Ret(g, fn)
  BY DEF Return
<1>7. KernelTypeOK' /\ RetEffect(g, fn) /\ KernelOnly(g)
  <2> HIDE DEF fn
  <2>1. state[g] # NoState => state[g].root_depth > 0
    BY <1>1 DEF SampleInv, Opened
  <2>2. KernelTypeOK'
    BY <1>1, <1>2, <1>4, <1>6, <2>1, RetType
  <2>3. QED
    BY <1>1, <1>2, <1>6, <2>2, RetDoes
<1>8. TargetTypeOK'
  BY <1>1, <1>4, <1>5, <1>6 DEF TargetTypeOK
<1>9. ProbesTypeOK'
  BY <1>1, <1>7, <1>8 DEF ProbesTypeOK, KernelTypeOK, TargetTypeOK
<1>10. Only(g)
  BY <1>4, <1>5, <1>6, <1>7 DEF Only, KernelOnly
<1>11. FreshFrame(g)'
  BY <1>6 DEF FreshFrame
<1>12. ClockBounds(g)'
  <2>1. since[g] \in Nat /\ since[g] <= clock[g] /\ since'[g] \in {since[g], 0}
    BY <1>1, <1>7 DEF ClockBounds, KernelTypeOK, RetEffect
  <2>2. since'[g] <= clock'[g]
    BY <1>3, <1>4, <2>1
  <2>3. ASSUME NEW i \in 1 .. n - 1 PROVE frames'[g][i].start <= clock'[g]
    <3>1. i \in 1 .. n
      BY <1>3
    <3>2. frames[g][i].start \in Nat /\ frames[g][i].start <= clock[g]
      BY <1>1, <1>3, <3>1, FrameTypes DEF ClockBounds
    <3>3. \A a, c \in Nat : a <= c => a <= c + 1
      OBVIOUS
    <3>4. frames'[g][i] = frames[g][i]
      BY <1>5
    <3>5. QED
      BY <1>3, <1>4, <3>2, <3>3, <3>4, Zenon
  <2>4. QED
    BY <1>5, <2>2, <2>3 DEF ClockBounds
<1>13. CASE state'[g] = NoState
  BY <1>9, <1>10, <1>11, <1>12, <1>13, NoSample DEF GoroutineInv
<1>14. CASE state'[g] # NoState
  <2>1. /\ state[g] # NoState /\ since'[g] = since[g]
        /\ state'[g].root_ip = state[g].root_ip /\ state'[g].last_ip = Zero
        /\ IF Adaptive /\ fn \in Wanted /\ fn = state[g].root_ip
            THEN state[g].root_depth > 1 /\ state'[g].root_depth = state[g].root_depth - 1
            ELSE state'[g].root_depth = state[g].root_depth
    BY <1>7, <1>14 DEF RetEffect
  <2>2. /\ since[g] > 0 /\ state[g].root_ip \in Wanted /\ state[g].root_depth > 0
        /\ state[g].root_depth \in Nat
        /\ phase = "attaching" => <<ENT, state[g].root_ip>> \in attached
    BY <1>1, <2>1, OpenState DEF SampleInv, Opened, TraceState
  <2>3. Opened(g)'
    <3>1. state'[g].root_depth > 0
      BY <2>1, <2>2
    <3>2. QED
      BY <2>1, <2>2, <3>1 DEF Opened
  <2>4. Seen(g)' /\ Unseen(g)' /\ LastEntry(g)' /\ Released(g)'
    BY <1>3, <1>6, <2>1 DEF Seen, Unseen, LastEntry, Released
  <2>5. Depth(g)'
    <3> SUFFICES ASSUME Adaptive, Sound(g)'
                 PROVE  /\ state'[g].root_depth <= Cardinality(RootFrames(g)')
                        /\ g \notin indirect' =>
                             state'[g].root_depth = Cardinality(RootFrames(g)')
      BY DEF Depth, Adaptive
    <3>1. Sound(g) /\ n \in Recorded(g)
      BY <1>6, <2>1 DEF Sound
    <3>2. /\ state[g].root_depth <= Cardinality(RootFrames(g))
          /\ g \notin indirect => state[g].root_depth = Cardinality(RootFrames(g))
      BY <1>1, <3>1 DEF SampleInv, Depth
    <3>3. RootFrames(g)' = RootFrames(g) \cap (1 .. n - 1)
      BY <1>3, <1>5, <2>1, RootPopped
    <3>4. RootFrames(g)' = RootFrames(g) \ {n}
      <4>1. RootFrames(g) \subseteq 1 .. n
        BY DEF RootFrames, Recorded
      <4>2. 1 .. n - 1 = (1 .. n) \ {n}
        BY <1>3
      <4>3. QED
        BY <3>3, <4>1, <4>2
    <3>5. n \in RootFrames(g) <=> fn = state[g].root_ip
      BY <3>1 DEF RootFrames, Top
    <3>6. IsFiniteSet(RootFrames(g)) /\ Cardinality(RootFrames(g)) \in Nat
      BY <1>3, RootsFinite
    <3>7. CASE fn = state[g].root_ip
      <4>1. Cardinality(RootFrames(g)') = Cardinality(RootFrames(g)) - 1
        BY <3>4, <3>5, <3>6, <3>7, FS_RemoveElement
      <4>2. state'[g].root_depth = state[g].root_depth - 1
        BY <2>1, <2>2, <3>7
      <4>3. QED
        BY <1>6, <2>2, <3>2, <3>6, <4>1, <4>2
    <3>8. CASE fn # state[g].root_ip
      BY <1>6, <2>1, <3>2, <3>4, <3>5, <3>8
    <3>9. QED
      BY <3>7, <3>8
  <2>6. Bottom(g)'
    <3> SUFFICES ASSUME Adaptive, Sound(g)', NEW i \in Recorded(g)'
                 PROVE  \E r \in RootFrames(g)' : r <= i
      BY DEF Bottom, Adaptive
    <3>1. i \in Recorded(g) /\ i \in 1 .. n - 1
      <4>1. /\ i \in 1 .. n - 1 /\ since'[g] # 0 /\ frames'[g][i].start >= since'[g]
        BY <1>5 DEF Recorded
      <4>2. i \in 1 .. n /\ frames'[g][i] = frames[g][i]
        BY <1>3, <1>5, <4>1
      <4>3. QED
        BY <2>1, <4>1, <4>2 DEF Recorded
    <3>2. Sound(g)
      BY <1>6, <2>1 DEF Sound
    <3>3. PICK r \in RootFrames(g) : r <= i
      BY <1>1, <3>1, <3>2 DEF SampleInv, Bottom
    <3>4. RootFrames(g)' = RootFrames(g) \cap (1 .. n - 1)
      BY <1>3, <1>5, <2>1, RootPopped
    <3>5. r \in 1 .. n - 1
      <4>1. r \in 1 .. n
        BY <3>3 DEF RootFrames, Recorded
      <4>2. QED
        BY <1>3, <3>1, <3>3, <4>1
    <3>6. QED
      BY <3>3, <3>4, <3>5
  <2>7. QED
    BY <1>9, <1>10, <1>11, <1>12, <2>3, <2>4, <2>5, <2>6 DEF GoroutineInv, SampleInv
<1>15. QED
  BY <1>13, <1>14

\* Frames go away without a probe hit.
LEMMA LostKeeps ==
    ASSUME NEW g \in Goroutines, NEW depth \in 0 .. Len(frames[g]),
           DepthInv, g \in alive, PopTo(g, depth), fresh' = fresh \ {g}, Missed(g, depth),
           faults' \in Nat, UNCHANGED <<cfg, phase, attached>>,
           UNCHANGED <<moves, alive, clock, indirect, stray, kernelVars>>
    PROVE  ProbesTypeOK' /\ Only(g) /\ GoroutineInv(g)'
<1>1. /\ KernelTypeOK /\ TargetTypeOK /\ GoroutineInv(g) /\ attached \subseteq Points
      /\ phase \in {"attaching", "tracing", "detaching", "draining", "done"}
      /\ FreshFrame(g) /\ ClockBounds(g) /\ SampleInv(g)
  BY TypeParts DEF DepthInv, ProbesTypeOK, GoroutineInv
<1>2. /\ frames \in [Goroutines -> Seq(Frame)] /\ frames[g] \in Seq(Frame)
      /\ Len(frames[g]) \in Nat /\ depth \in Nat
  BY <1>1 DEF TargetTypeOK
<1>3. /\ frames' \in [Goroutines -> Seq(Frame)]
      /\ \A h \in Goroutines \ {g} : frames'[h] = frames[h]
      /\ Len(frames'[g]) = depth
      /\ \A i \in 1 .. depth : frames'[g][i] = frames[g][i]
  BY <1>2, Popped
<1>4. UNCHANGED <<state, denominator, queue, stats, since>>
  BY DEF kernelVars
<1>5. unreturned' = IF \E i \in Recorded(g) : i > depth THEN unreturned \cup {g} ELSE unreturned
  BY DEF Missed
<1>6. ProbesTypeOK'
  BY <1>1, <1>3, <1>4, <1>5 DEF ProbesTypeOK, KernelTypeOK, TargetTypeOK
<1>7. Only(g)
  BY <1>3, <1>4, <1>5 DEF Only
<1>8. FreshFrame(g)'
  BY DEF FreshFrame
<1>9. \A i \in 1 .. depth : i \in 1 .. Len(frames[g])
  BY <1>2
<1>10. ClockBounds(g)'
  BY <1>1, <1>3, <1>4, <1>9 DEF ClockBounds
<1>11. Opened(g)' /\ Seen(g)' /\ Unseen(g)' /\ Released(g)'
  BY <1>1, <1>4 DEF SampleInv, Opened, Seen, Unseen, Released
<1>12. Sound(g)' => Sound(g) /\ \A i \in Recorded(g) : ~(i > depth)
  BY <1>4, <1>5 DEF Sound
<1>13. LastEntry(g)'
  <2> SUFFICES ASSUME Sound(g)', state[g].last_ip # Zero
               PROVE  \E j \in 1 .. Len(frames'[g]) :
                        /\ frames'[g][j].start = clock'[g]
                        /\ state'[g].last_bp = <<frames'[g][j].at, j>>
                        /\ \A i \in 1 .. Len(frames'[g]) : i > j => frames'[g][i].start = 0
    BY <1>4 DEF LastEntry
  <2>1. PICK j \in 1 .. Len(frames[g]) :
               /\ frames[g][j].start = clock[g]
               /\ state[g].last_bp = <<frames[g][j].at, j>>
               /\ \A i \in 1 .. Len(frames[g]) : i > j => frames[g][i].start = 0
    BY <1>1, <1>12 DEF SampleInv, LastEntry
  <2>2. since[g] # 0 /\ clock[g] >= since[g]
    <3>1. since[g] \in Nat /\ clock[g] \in Nat /\ since[g] > 0 /\ since[g] <= clock[g]
      BY <1>1, <1>12 DEF SampleInv, Opened, Sound, ClockBounds, KernelTypeOK, TargetTypeOK
    <3>2. QED
      BY <3>1
  <2>3. j \in Recorded(g)
    BY <2>1, <2>2 DEF Recorded
  <2>4. j \in 1 .. depth
    BY <1>2, <1>12, <2>3
  <2>5. /\ frames'[g][j].start = clock'[g]
        /\ state'[g].last_bp = <<frames'[g][j].at, j>>
    BY <1>3, <1>4, <2>1, <2>4
  <2>6. \A i \in 1 .. depth : i > j => frames'[g][i].start = 0
    BY <1>3, <1>9, <2>1
  <2>7. QED
    BY <1>3, <2>4, <2>5, <2>6
<1>14. Depth(g)' /\ Bottom(g)'
  <2> SUFFICES ASSUME Adaptive, Sound(g)'
               PROVE  /\ state'[g].root_depth <= Cardinality(RootFrames(g)')
                      /\ g \notin indirect' =>
                           state'[g].root_depth = Cardinality(RootFrames(g)')
                      /\ \A i \in Recorded(g)' : \E r \in RootFrames(g)' : r <= i
    BY DEF Depth, Bottom, Adaptive
  <2>1. RootFrames(g)' = RootFrames(g) \cap (1 .. depth)
    BY <1>2, <1>3, <1>4, RootPopped
  <2>2. \A i \in RootFrames(g) : i \in 1 .. depth
    BY <1>2, <1>12 DEF RootFrames, Recorded
  <2>3. RootFrames(g)' = RootFrames(g)
    BY <2>1, <2>2
  <2>4. Recorded(g)' \subseteq Recorded(g)
    BY <1>3, <1>4, <1>9 DEF Recorded
  <2>5. QED
    BY <1>1, <1>4, <1>12, <2>3, <2>4 DEF SampleInv, Depth, Bottom
<1>15. QED
  BY <1>6, <1>7, <1>8, <1>10, <1>11, <1>13, <1>14 DEF GoroutineInv, SampleInv

\* one that none sees,
LEMMA ReturnUnprobedKeeps ==
    ASSUME NEW g \in Goroutines, DepthInv, ReturnUnprobed(g), UNCHANGED <<cfg, phase, attached>>
    PROVE  ProbesTypeOK' /\ Only(g) /\ GoroutineInv(g)'
<1>1. frames[g] \in Seq(Frame) /\ faults \in Nat
  BY DEF DepthInv, ProbesTypeOK
<1>2. frames[g] # <<>>
  BY DEF ReturnUnprobed
<1>3. Len(frames[g]) - 1 \in 0 .. Len(frames[g])
  <2>1. Len(frames[g]) \in Nat \ {0}
    BY <1>1, <1>2, EmptySeqFacts
  <2>2. QED
    BY <2>1
<1>4. QED
  BY <1>1, <1>3, LostKeeps DEF ReturnUnprobed

\* and a recovered panic keep the invariant of the goroutine.
LEMMA UnwindKeeps ==
    ASSUME NEW g \in Goroutines, NEW depth \in 1 .. MaxDepth,
           DepthInv, Unwind(g, depth), UNCHANGED <<cfg, phase, attached>>
    PROVE  ProbesTypeOK' /\ Only(g) /\ GoroutineInv(g)'
<1>1. frames[g] \in Seq(Frame) /\ faults \in Nat
  BY DEF DepthInv, ProbesTypeOK
<1>2. depth \in 0 .. Len(frames[g]) /\ faults' \in Nat
  BY <1>1, ProbesAssumption DEF Unwind
<1>3. QED
  BY <1>2, LostKeeps DEF Unwind

\* An exit that the programs see ends the sample; one they do not see misses the
\* return of the root frame, if there is a sample.
LEMMA ExitKeeps ==
    ASSUME NEW g \in Goroutines, DepthInv, Exit(g), UNCHANGED <<cfg, phase, attached>>
    PROVE  ProbesTypeOK' /\ Only(g) /\ GoroutineInv(g)'
<1>1. /\ KernelTypeOK /\ TargetTypeOK /\ GoroutineInv(g) /\ attached \subseteq Points
      /\ phase \in {"attaching", "tracing", "detaching", "draining", "done"}
      /\ FreshFrame(g) /\ ClockBounds(g) /\ SampleInv(g)
  BY TypeParts DEF DepthInv, ProbesTypeOK, GoroutineInv
<1>2. /\ alive' = alive \ {g} /\ fresh' = fresh \ {g}
      /\ UNCHANGED <<frames, moves, faults, clock, indirect, stray>>
  BY DEF Exit
<1>3. unreturned' \in {unreturned, unreturned \cup {g}}
  BY DEF Exit, Missed
<1>4. TargetTypeOK'
  BY <1>1, <1>2, <1>3 DEF TargetTypeOK
<1>5. FreshFrame(g)'
  BY <1>2 DEF FreshFrame
<1>6. CASE <<EXIT, Zero>> \in attached
  <2>1. GoroutineExit(g)
    BY <1>6 DEF Exit
  <2>2. KernelTypeOK' /\ state'[g] = NoState /\ since'[g] \in {since[g], 0} /\ KernelOnly(g)
    BY <1>1, <2>1, ExitType, ExitDoes
  <2>3. ClockBounds(g)'
    <3>1. since'[g] <= clock[g]
      BY <1>1, <2>2 DEF ClockBounds, TargetTypeOK
    <3>2. QED
      BY <1>1, <1>2, <3>1 DEF ClockBounds
  <2>4. Only(g)
    BY <1>2, <1>3, <2>2 DEF Only, KernelOnly
  <2>5. ProbesTypeOK'
    BY <1>1, <1>4, <2>2 DEF ProbesTypeOK, KernelTypeOK, TargetTypeOK
  <2>6. QED
    BY <1>5, <2>2, <2>3, <2>4, <2>5, NoSample DEF GoroutineInv
<1>7. CASE <<EXIT, Zero>> \notin attached
  <2>1. UNCHANGED <<state, denominator, queue, stats, since>>
        /\ unreturned' = IF \E i \in Recorded(g) : i > 0 THEN unreturned \cup {g} ELSE unreturned
    BY <1>7 DEF Exit, kernelVars, Missed
  <2>2. Only(g)
    BY <1>2, <1>3, <2>1 DEF Only
  <2>3. ProbesTypeOK'
    BY <1>1, <1>4, <2>1 DEF ProbesTypeOK, KernelTypeOK, TargetTypeOK
  <2>4. ClockBounds(g)' /\ Opened(g)' /\ Seen(g)' /\ Unseen(g)'
    BY <1>1, <1>2, <2>1 DEF ClockBounds, SampleInv, Opened, Seen, Unseen
  <2>5. Sound(g)' => Sound(g) /\ \A i \in Recorded(g) : ~(i > 0)
    BY <1>2, <2>1 DEF Sound
  <2>6. RootFrames(g)' = RootFrames(g) /\ Recorded(g)' = Recorded(g)
    BY <1>2, <2>1 DEF RootFrames, Recorded
  <2>7. LastEntry(g)' /\ Depth(g)' /\ Bottom(g)'
    BY <1>1, <1>2, <2>1, <2>5, <2>6 DEF SampleInv, LastEntry, Depth, Bottom, Adaptive
  <2>8. Released(g)'
    <3> SUFFICES ASSUME Sound(g)', Adaptive PROVE FALSE
      BY <1>7 DEF Released, Adaptive
    <3>1. RootFrames(g) # {}
      BY <1>1, <2>5, SampleHasRoot
    <3>2. \A i \in RootFrames(g) : i \in Recorded(g) /\ i > 0
      BY DEF RootFrames, Recorded
    <3>3. QED
      BY <2>5, <3>1, <3>2
  <2>9. QED
    BY <1>5, <2>2, <2>3, <2>4, <2>7, <2>8 DEF GoroutineInv, SampleInv
<1>8. QED
  BY <1>6, <1>7

\* A process that ends takes its open samples with it: they are marked.
LEMMA ReplaceKeeps ==
    ASSUME NEW p \in Pids, DepthInv, Replace(p), UNCHANGED <<cfg, phase, attached>>
    PROVE  ProbesTypeOK' /\ \A h \in Goroutines : GoroutineInv(h)'
<1> DEFINE gs == {g \in Goroutines : PidOf[g] = p}
<1>1. /\ KernelTypeOK /\ TargetTypeOK /\ attached \subseteq Points
      /\ phase \in {"attaching", "tracing", "detaching", "draining", "done"}
  BY TypeParts DEF DepthInv, ProbesTypeOK
<1>2. /\ faults' = faults + 1
      /\ frames' = [g \in Goroutines |-> IF g \in gs THEN <<>> ELSE frames[g]]
      /\ fresh' = fresh \ gs
      /\ alive' = alive \cup gs
      /\ unreturned' = unreturned \cup (gs \cap Tracked)
      /\ UNCHANGED <<moves, clock, indirect, stray>>
      /\ UNCHANGED <<state, denominator, queue, stats, since>>
  BY DEF Replace, kernelVars
<1>3. <<>> \in Seq(Frame)
  OBVIOUS
<1>4. ProbesTypeOK'
  <2>1. /\ frames' \in [Goroutines -> Seq(Frame)] /\ faults' \in Nat
        /\ fresh' \subseteq alive' /\ alive' \subseteq Goroutines
        /\ unreturned' \subseteq Goroutines
    BY <1>1, <1>2, <1>3 DEF TargetTypeOK
  <2>2. QED
    BY <1>1, <1>2, <2>1 DEF ProbesTypeOK, KernelTypeOK, TargetTypeOK
<1>5. ASSUME NEW h \in Goroutines PROVE GoroutineInv(h)'
  <2>1. GoroutineInv(h) /\ ClockBounds(h) /\ SampleInv(h)
    BY DEF DepthInv, GoroutineInv
  <2>2. CASE h \notin gs
    <3>1. /\ frames'[h] = frames[h] /\ (h \in fresh' <=> h \in fresh)
          /\ (h \in alive' <=> h \in alive) /\ (h \in unreturned' <=> h \in unreturned)
      BY <1>2, <2>2
    <3>2. (Sound(h)' <=> Sound(h)) /\ RootFrames(h)' = RootFrames(h)
          /\ Recorded(h)' = Recorded(h)
      BY <1>2, <3>1 DEF Sound, RootFrames, Recorded
    <3>3. FreshFrame(h)' /\ ClockBounds(h)'
      BY <1>2, <2>1, <3>1 DEF GoroutineInv, FreshFrame, ClockBounds
    <3>4. Opened(h)' /\ Seen(h)' /\ Unseen(h)'
      BY <1>2, <2>1, <3>1 DEF SampleInv, Opened, Seen, Unseen, Top
    <3>5. LastEntry(h)'
      BY <1>2, <2>1, <3>1, <3>2 DEF SampleInv, LastEntry
    <3>6. Depth(h)' /\ Bottom(h)' /\ Released(h)'
      BY <1>2, <2>1, <3>1, <3>2 DEF SampleInv, Depth, Bottom, Released, Adaptive
    <3>7. QED
      BY <3>3, <3>4, <3>5, <3>6 DEF GoroutineInv, SampleInv
  <2>3. CASE h \in gs
    <3>1. frames'[h] = <<>> /\ h \notin fresh' /\ h \in alive'
      BY <1>2, <2>3
    <3>2. ~Sound(h)'
      BY <1>2, <2>3 DEF Sound, Tracked
    <3>3. FreshFrame(h)' /\ ClockBounds(h)'
      BY <1>2, <2>1, <3>1 DEF FreshFrame, ClockBounds
    <3>4. SampleInv(h)'
      BY <1>2, <2>1, <3>1, <3>2 DEF SampleInv, Opened, Seen, Unseen, LastEntry, Depth, Bottom,
                                   Released
    <3>5. QED
      BY <3>3, <3>4 DEF GoroutineInv
  <2>4. QED
    BY <2>2, <2>3
<1>6. QED
  BY <1>4, <1>5

\* So every step of a goroutine keeps DepthInv.
LEMMA TargetKeeps ==
    ASSUME NEW g \in Goroutines, DepthInv, TargetStep(g), UNCHANGED <<cfg, phase, attached>>
    PROVE  DepthInv'
<1>1. ProbesTypeOK' /\ Only(g) /\ GoroutineInv(g)'
  BY CallKeeps, CallUnprobedKeeps, RestartKeeps, UnwindKeeps, ReturnKeeps,
     ReturnUnprobedKeeps, ExitKeeps DEF TargetStep
<1>2. \A h \in Goroutines : GoroutineInv(h)'
  BY <1>1, OthersKeep DEF DepthInv
<1>3. ExitLink'
  BY DEF DepthInv, ExitLink
<1>4. QED
  BY <1>1, <1>2, <1>3 DEF DepthInv

\* There are finitely many probes, and there is one.
LEMMA PointsFinite == IsFiniteSet(Points) /\ Points # {}
<1>1. IsFiniteSet({ENT, RET}) /\ IsFiniteSet(Functions)
  <2>1. {ENT, RET} = {ENT} \cup {RET}
    OBVIOUS
  <2>2. IsFiniteSet({ENT} \cup {RET})
    BY FS_Singleton, FS_AddElement
  <2>3. QED
    BY <2>1, <2>2, ScopeAssumption
<1>2. IsFiniteSet({ENT, RET} \X Functions)
  BY <1>1, FS_Product
<1>3. IsFiniteSet({<<EXIT, Zero>>})
  BY FS_Singleton
<1>4. QED
  BY <1>2, <1>3, FS_Union DEF Points

\* Links that are opened one by one and closed in any order: the samples keep
\* what they rely on.
LEMMA LinksKeep ==
    ASSUME DepthInv, UNCHANGED <<cfg, targetVars, state, since>>,
           phase' = "attaching" => phase = "attaching" /\ attached \subseteq attached',
           phase # "attaching" => attached' \subseteq attached
    PROVE  \A h \in Goroutines : GoroutineInv(h)'
<1>1. UNCHANGED <<frames, moves, fresh, alive, faults, clock, indirect, unreturned, stray>>
  BY DEF targetVars
<1> SUFFICES ASSUME NEW h \in Goroutines PROVE GoroutineInv(h)'
  OBVIOUS
<1>2. GoroutineInv(h) /\ SampleInv(h)
  BY DEF DepthInv, GoroutineInv
<1>3. (Sound(h)' <=> Sound(h)) /\ RootFrames(h)' = RootFrames(h) /\ Recorded(h)' = Recorded(h)
  BY <1>1 DEF Sound, RootFrames, Recorded
<1>4. /\ FreshFrame(h)' /\ ClockBounds(h)' /\ Seen(h)' /\ LastEntry(h)'
      /\ Depth(h)' /\ Bottom(h)'
  BY <1>1, <1>2, <1>3 DEF GoroutineInv, SampleInv, FreshFrame, ClockBounds, Seen, LastEntry,
                          Depth, Bottom, Top, Adaptive
<1>5. Opened(h)'
  BY <1>1, <1>2 DEF SampleInv, Opened
<1>6. Unseen(h)'
  BY <1>1, <1>2 DEF SampleInv, Unseen, Top
<1>7. Released(h)'
  <2> SUFFICES ASSUME Sound(h), h \notin alive
               PROVE  ~Adaptive /\ <<EXIT, Zero>> \notin attached'
    BY <1>1, <1>3 DEF Released, Adaptive
  <2>1. ~Adaptive /\ <<EXIT, Zero>> \notin attached
    BY <1>2 DEF SampleInv, Released
  <2>2. phase # "attaching"
    BY <1>2, <2>1 DEF SampleInv, Opened, Sound, DepthInv, ExitLink
  <2>3. QED
    BY <2>1, <2>2
<1>8. QED
  BY <1>4, <1>5, <1>6, <1>7 DEF GoroutineInv, SampleInv

\* Attaching keeps it, as the exit probe comes first,
LEMMA AttachKeeps ==
    ASSUME DepthInv, Attach, UNCHANGED cfg
    PROVE  DepthInv'
<1> DEFINE i == Cardinality(attached) + 1
<1>1. /\ phase = "attaching" /\ attached' = attached \cup {Uprobes[i]}
      /\ phase' = IF attached' = Points THEN "tracing" ELSE "attaching"
      /\ UNCHANGED targetVars
      /\ UNCHANGED <<state, denominator, queue, stats, since>>
  BY DEF Attach, kernelVars
<1>2. Cardinality(attached) \in Nat /\ i \in 1 .. Cardinality(Points)
  <2>1. attached \in SUBSET Points /\ attached # Points
    BY <1>1 DEF DepthInv, ProbesTypeOK, ExitLink
  <2>2. /\ IsFiniteSet(attached) /\ Cardinality(attached) <= Cardinality(Points)
        /\ Cardinality(attached) # Cardinality(Points)
    BY <2>1, PointsFinite, FS_Subset
  <2>3. Cardinality(attached) \in Nat /\ Cardinality(Points) \in Nat
    BY <2>2, PointsFinite, FS_CardinalityType
  <2>4. QED
    BY <2>2, <2>3
<1>3. attached' \subseteq Points
  BY <1>1, <1>2, UprobesAssumption DEF DepthInv, ProbesTypeOK
<1>4. <<EXIT, Zero>> \in attached'
  <2>1. CASE attached = {}
    BY <1>1, <2>1, FS_EmptySet, UprobesAssumption
  <2>2. CASE attached # {}
    BY <1>1, <2>2 DEF DepthInv, ExitLink
  <2>3. QED
    BY <2>1, <2>2
<1>5. ExitLink'
  BY <1>1, <1>4 DEF ExitLink
<1>6. ProbesTypeOK'
  BY <1>1, <1>3 DEF DepthInv, ProbesTypeOK, targetVars
<1>7. QED
  BY <1>1, <1>5, <1>6, LinksKeep DEF DepthInv

\* detaching does,
LEMMA InterruptKeeps ==
    ASSUME DepthInv, Interrupt \/ CloseLink, UNCHANGED cfg
    PROVE  DepthInv'
<1>1. /\ phase # "attaching" /\ phase' \in {"detaching", "draining"}
      /\ attached' \subseteq attached
      /\ UNCHANGED targetVars
      /\ UNCHANGED <<state, denominator, queue, stats, since>>
  BY DEF Interrupt, CloseLink, kernelVars
<1>2. ProbesTypeOK' /\ ExitLink'
  BY <1>1 DEF DepthInv, ProbesTypeOK, targetVars, ExitLink
<1>3. QED
  BY <1>1, <1>2, LinksKeep DEF DepthInv

\* and so does a new denominator.
LEMMA SetDenominatorKeeps ==
    ASSUME DepthInv, NEW d \in Denominators, SetSampleDenominator(d), UNCHANGED cfg
    PROVE  DepthInv'
<1>1. /\ UNCHANGED targetVars /\ UNCHANGED <<state, queue, stats, since, phase, attached>>
      /\ denominator' = d
  BY DEF SetSampleDenominator, linkVars
<1>2. ProbesTypeOK' /\ ExitLink'
  BY <1>1, ProbesAssumption DEF DepthInv, ProbesTypeOK, targetVars, ExitLink
<1>3. QED
  BY <1>1, <1>2, LinksKeep DEF DepthInv

\* It holds before the first probe is attached,
LEMMA InitHolds == ProbesInit => DepthInv
<1> SUFFICES ASSUME ProbesInit PROVE DepthInv
  OBVIOUS
<1>1. <<>> \in Seq(Frame) /\ <<>> \in Seq(Event) /\ Len(<<>>) = 0
  OBVIOUS
<1>2. ProbesTypeOK
  BY <1>1, ProbesAssumption DEF ProbesInit, ProbesTypeOK
<1>3. ExitLink
  BY PointsFinite DEF ProbesInit, ExitLink
<1>4. ASSUME NEW g \in Goroutines PROVE GoroutineInv(g)
  <2>1. state[g] = NoState /\ g \notin fresh /\ frames[g] = <<>> /\ since[g] = 0 /\ clock[g] = 0
    BY DEF ProbesInit
  <2>2. QED
    BY <2>1 DEF GoroutineInv, FreshFrame, ClockBounds, SampleInv, Opened, Seen, Unseen,
                LastEntry, Depth, Bottom, Released, Sound
<1>5. QED
  BY <1>2, <1>3, <1>4 DEF DepthInv

\* and in every step of the programs alone.
LEMMA NextKeeps ==
    ASSUME DepthInv, [ProbesNext]_probesVars
    PROVE  DepthInv'
<1>1. CASE TargetNext /\ UNCHANGED cfg
  <2>1. UNCHANGED <<cfg, phase, attached>>
    BY <1>1 DEF TargetNext, linkVars
  <2>2. ASSUME NEW p \in Pids, Replace(p) PROVE DepthInv'
    <3>1. ExitLink'
      BY <2>1 DEF DepthInv, ExitLink
    <3>2. QED
      BY <2>1, <2>2, <3>1, ReplaceKeeps DEF DepthInv
  <2>3. QED
    BY <1>1, <2>1, <2>2, TargetKeeps DEF TargetNext
<1>2. CASE UNCHANGED probesVars
  <2>1. /\ UNCHANGED <<cfg, targetVars, state, since, phase, attached>>
        /\ UNCHANGED <<denominator, queue, stats>>
    BY <1>2 DEF probesVars, kernelVars, linkVars
  <2>2. ProbesTypeOK' /\ ExitLink'
    BY <2>1 DEF DepthInv, ProbesTypeOK, targetVars, ExitLink
  <2>3. QED
    BY <2>1, <2>2, LinksKeep DEF DepthInv
<1>3. QED
  BY <1>1, <1>2, AttachKeeps, InterruptKeeps, SetDenominatorKeeps DEF ProbesNext

\* The agreement of the programs with the stacks of the goroutines, in every state.
THEOREM DepthInvariant == ProbesSpec => []DepthInv
BY InitHolds, NextKeeps, PTL DEF ProbesSpec

\* The BPF maps keep their shapes and event_queue its max_entries; root_depth is
\* never lowered below zero, where the unsigned counter would wrap.
THEOREM ProbesTypeCorrect == ProbesSpec => []ProbesTypeOK
<1>1. DepthInv => ProbesTypeOK
  BY DEF DepthInv
<1>2. QED
  BY <1>1, DepthInvariant, PTL

\* What RootDepthExact and StateReleased say is part of it.
LEMMA DepthInvIsExact == DepthInv => RootDepthExact
BY DEF DepthInv, GoroutineInv, SampleInv, Depth, Sound, RootDepthExact, Tracked

\* Its part about goroutines that have exited: nothing of theirs is left in the map.
LEMMA DepthInvReleases == DepthInv => StateReleased
<1>1. ASSUME DepthInv, NEW g \in Tracked \ (unreturned \cup stray), Adaptive
      PROVE  RootFrames(g) # {}
  <2>1. g \in Goroutines /\ Sound(g)
    BY <1>1 DEF Sound, Tracked
  <2>2. SampleInv(g) /\ KernelTypeOK
    BY <1>1, <2>1, TypeParts DEF DepthInv, GoroutineInv
  <2>3. QED
    BY <1>1, <2>1, <2>2, SampleHasRoot
<1>2. QED
  BY <1>1 DEF DepthInv, GoroutineInv, SampleInv, Released, Sound, StateReleased, Tracked

\* ftrace.c: root_depth "keeps recursive calls of that same wanted function from
\* ending the sample prematurely": it is the number of root calls on the stack.
THEOREM RootDepthCorrect == ProbesSpec => []RootDepthExact
BY DepthInvIsExact, DepthInvariant, PTL

\* should_trace_goid keeps no trace of a goroutine that has exited and, with
\* --sample, none of a goroutine whose admitted root call is over.
THEOREM StateReleasedCorrect == ProbesSpec => []StateReleased
BY DepthInvReleases, DepthInvariant, PTL

\* ent deletes the trace of its goroutine at the event limit only.
LEMMA EntDeletes ==
    ASSUME KernelTypeOK, NEW g \in Goroutines, NEW fn, NEW bp, NEW caller_bp,
           state[g] # NoState, state'[g] = NoState, Ent(g, fn, bp, caller_bp)
    PROVE  OverLimit(state[g])
<1>1. EntNested(g, fn, bp, caller_bp)
  BY DEF Ent, EntIgnored, EntSampledOut, EntInsertFailed, EntAdmitted
<1>2. ASSUME ~OverLimit(state[g]) PROVE FALSE
  <2>1. \E t : /\ state' = [state EXCEPT ![g] = t] /\ t.root_ip = state[g].root_ip
    <3> DEFINE deeper == Adaptive /\ fn \in Wanted /\ state[g].root_ip = fn
                       /\ ~Duplicate(state[g], fn, caller_bp)
               t == [state[g] EXCEPT !.event_count = @ + 1,
                                     !.root_depth = IF deeper THEN @ + 1 ELSE @,
                                     !.last_ip = fn, !.last_bp = bp]
    <3>1. state' = [state EXCEPT ![g] = t]
      BY <1>1, <1>2 DEF EntNested
    <3>2. t.root_ip = state[g].root_ip
      <4> HIDE DEF deeper
      <4> QED BY OpenState DEF TraceState
    <3> HIDE DEF t
    <3>3. QED
      BY <3>1, <3>2
  <2>2. state[g].root_ip \in Functions /\ NoState.root_ip = "0"
    BY OpenState DEF TraceState, NoState, Zero
  <2>3. QED
    BY <2>1, <2>2, ScopeAssumption DEF KernelTypeOK
<1>3. QED
  BY <1>2

\* ret deletes it at the event limit, or with a return of the root function that
\* the depth takes for the outermost one.
LEMMA RetDeletes ==
    ASSUME KernelTypeOK, NEW g \in Goroutines, NEW fn,
           state[g] # NoState, state'[g] = NoState, Ret(g, fn)
    PROVE  OverLimit(state[g]) \/ (fn = state[g].root_ip /\ ~(state[g].root_depth > 1))
<1>1. RetTraced(g, fn)
  BY DEF Ret, RetIgnored
<1>2. ASSUME ~OverLimit(state[g]), ~(fn = state[g].root_ip /\ ~(state[g].root_depth > 1))
      PROVE  FALSE
  <2>1. \E t : /\ state' = [state EXCEPT ![g] = t] /\ t.root_ip = state[g].root_ip
    <3> DEFINE rootRet == Adaptive /\ ~OverLimit(state[g]) /\ fn \in Wanted
                             /\ fn = state[g].root_ip
               t == [state[g] EXCEPT !.event_count = @ + 1, !.last_ip = Zero,
                                     !.root_depth = IF rootRet THEN @ - 1 ELSE @]
    <3>1. state' = [state EXCEPT ![g] = t]
      BY <1>1, <1>2 DEF RetTraced
    <3>2. t.root_ip = state[g].root_ip
      <4> HIDE DEF rootRet
      <4> QED BY OpenState DEF TraceState
    <3> HIDE DEF t
    <3>3. QED
      BY <3>1, <3>2
  <2>2. state[g].root_ip \in Functions /\ NoState.root_ip = "0"
    BY OpenState DEF TraceState, NoState, Zero
  <2>3. QED
    BY <2>1, <2>2, ScopeAssumption DEF KernelTypeOK
<1>3. QED
  BY <1>2

\* A return that the depth takes for the outermost one is, while the depth is
\* exact, the return of the lowest frame of the sample.
LEMMA LastReturn ==
    ASSUME NEW g \in Goroutines, DepthInv, Adaptive, Return(g), state[g] # NoState,
           g \notin unreturned \cup stray' \cup indirect,
           Top(g).fn = state[g].root_ip, ~(state[g].root_depth > 1)
    PROVE  \A i \in 1 .. Len(frames'[g]) : frames'[g][i].start < since[g]
<1> DEFINE n == Len(frames[g])
<1>1. /\ SampleInv(g) /\ KernelTypeOK /\ frames[g] \in Seq(Frame) /\ n \in Nat \ {0}
      /\ frames \in [Goroutines -> Seq(Frame)] /\ since[g] \in Nat
  <2>1. SampleInv(g) /\ KernelTypeOK /\ TargetTypeOK
    BY TypeParts DEF DepthInv, GoroutineInv
  <2>2. frames[g] \in Seq(Frame) /\ frames[g] # <<>>
    BY <2>1 DEF TargetTypeOK, Return
  <2>3. QED
    BY <2>1, <2>2, EmptySeqFacts DEF TargetTypeOK, KernelTypeOK
<1>2. n \in Recorded(g) /\ Sound(g)
  BY <1>1 DEF Return, Sound
<1>3. n \in RootFrames(g)
  BY <1>2 DEF RootFrames, Top
<1>4. Cardinality(RootFrames(g)) = 1
  <2>1. state[g].root_depth = Cardinality(RootFrames(g)) /\ state[g].root_depth > 0
    BY <1>1, <1>2 DEF SampleInv, Depth, Opened
  <2>2. state[g].root_depth \in Nat
    BY <1>1, OpenState DEF TraceState
  <2>3. QED
    BY <2>1, <2>2
<1>5. RootFrames(g) = {n}
  <2>1. IsFiniteSet(RootFrames(g))
    BY <1>1, RootsFinite
  <2>2. \E x : RootFrames(g) = {x}
    BY <1>4, <2>1, FS_Singleton
  <2>3. QED
    BY <1>3, <2>2
<1>6. \A i \in 1 .. n - 1 : i \notin Recorded(g)
  <2> SUFFICES ASSUME NEW i \in 1 .. n - 1, i \in Recorded(g) PROVE FALSE
    OBVIOUS
  <2>1. \E r \in RootFrames(g) : r <= i
    BY <1>1, <1>2 DEF SampleInv, Bottom
  <2>2. n <= i
    BY <1>5, <2>1
  <2>3. QED
    BY <1>1, <2>2
<1>7. since[g] # 0
  BY <1>2 DEF Recorded
<1>8. Len(frames'[g]) = n - 1 /\ \A i \in 1 .. n - 1 : frames'[g][i] = frames[g][i]
  <2>1. PopTo(g, n - 1) /\ n - 1 \in 0 .. n
    BY <1>1 DEF Return
  <2>2. QED
    BY <1>1, <2>1, Popped
<1>9. ASSUME NEW i \in 1 .. n - 1 PROVE frames'[g][i].start < since[g]
  <2>1. i \in 1 .. n
    BY <1>1
  <2>2. ~(frames[g][i].start >= since[g])
    BY <1>6, <1>7, <2>1 DEF Recorded
  <2>3. frames[g][i].start \in Nat
    BY <1>1, <2>1, FrameTypes
  <2>4. frames[g][i].start < since[g]
    BY <1>1, <2>2, <2>3
  <2>5. QED
    BY <1>8, <2>4
<1>10. QED
  BY <1>8, <1>9

\* The same promise as a step: while no return is missed and every recursive
\* call of the root comes directly from a probed frame, ftrace.c gives up the
\* sample of a goroutine that lives on only with the return of the lowest
\* recorded frame, the admitted root call, or at the event limit.
DirectSampleEndsWithRoot ==
    [][\A g \in alive' :
          (/\ Adaptive /\ state[g] # NoState /\ state'[g] = NoState
           /\ g \notin unreturned \cup stray' \cup indirect) =>
             \/ \A i \in 1 .. Len(frames'[g]) : frames'[g][i].start < since[g]
             \/ state[g].event_count >= MaxSampleEvents]_probesVars

\* The steps that can end the sample of g.
LEMMA SampleEnds ==
    ASSUME DepthInv, ProbesNext, NEW g \in Goroutines, g \in alive', Adaptive,
           state[g] # NoState, state'[g] = NoState
    PROVE  OverLimit(state[g]) \/ (/\ Return(g) /\ Top(g).fn = state[g].root_ip
                                   /\ ~(state[g].root_depth > 1))
<1>1. KernelTypeOK /\ TargetTypeOK /\ attached \subseteq Points
      /\ \A h \in Goroutines : SampleInv(h)
  BY TypeParts DEF DepthInv, GoroutineInv, ProbesTypeOK
<1>2. state' # state
  OBVIOUS
<1>3. \E h \in Goroutines : TargetStep(h) /\ UNCHANGED <<cfg, phase, attached>>
  <2>1. \A p \in Pids : ~Replace(p)
    BY <1>2 DEF Replace, kernelVars
  <2>2. TargetNext
    BY <1>2 DEF ProbesNext, SetSampleDenominator, Attach, Interrupt, CloseLink, kernelVars
  <2>3. QED
    BY <2>1, <2>2 DEF TargetNext, linkVars, ProbesNext
<1>4. PICK h \in Goroutines : TargetStep(h) /\ UNCHANGED <<cfg, phase, attached>>
  BY <1>3
<1>5. Only(h)
  BY <1>4, CallKeeps, CallUnprobedKeeps, RestartKeeps, UnwindKeeps, ReturnKeeps,
     ReturnUnprobedKeeps, ExitKeeps DEF TargetStep
<1>6. h = g
  BY <1>5 DEF Only
<1>7. ASSUME NEW fn \in Callable, Call(g, fn) PROVE OverLimit(state[g])
  BY <1>1, <1>7, EntDeletes DEF Call
<1>8. ASSUME NEW moved, Restart(g, moved) PROVE OverLimit(state[g])
  BY <1>1, <1>8, EntDeletes DEF Restart
<1>9. CASE Return(g)
  BY <1>1, <1>9, RetDeletes DEF Return
<1>10. ~Exit(g)
  <2>1. Exit(g) => g \notin alive'
    BY DEF Exit
  <2>2. QED
    BY <2>1
<1>11. /\ \A fn \in Callable, moved \in {0, 1} : ~CallUnprobed(g, fn, moved)
       /\ \A depth \in 1 .. MaxDepth : ~Unwind(g, depth)
       /\ ~ReturnUnprobed(g)
  BY <1>2 DEF CallUnprobed, Unwind, ReturnUnprobed, kernelVars
<1>12. QED
  BY <1>4, <1>6, <1>7, <1>8, <1>9, <1>10, <1>11 DEF TargetStep

\* ftrace.c ends a sample with its root call, exactly as long as root_depth is exact.
THEOREM SampleEndsCorrect == ProbesSpec => DirectSampleEndsWithRoot
<1> DEFINE P == \A g \in alive' :
          (/\ Adaptive /\ state[g] # NoState /\ state'[g] = NoState
           /\ g \notin unreturned \cup stray' \cup indirect) =>
             \/ \A i \in 1 .. Len(frames'[g]) : frames'[g][i].start < since[g]
             \/ state[g].event_count >= MaxSampleEvents
<1>1. ASSUME DepthInv, ProbesNext, DepthInv' PROVE P
  <2> SUFFICES ASSUME NEW g \in alive', Adaptive, state[g] # NoState, state'[g] = NoState,
                      g \notin unreturned \cup stray' \cup indirect
               PROVE  \/ \A i \in 1 .. Len(frames'[g]) : frames'[g][i].start < since[g]
                      \/ state[g].event_count >= MaxSampleEvents
    OBVIOUS
  <2>1. g \in Goroutines
    BY <1>1 DEF DepthInv, ProbesTypeOK
  <2>2. CASE OverLimit(state[g])
    <3>1. state[g].event_count \in Nat
      BY <1>1, <2>1, TypeParts, OpenState DEF DepthInv, TraceState
    <3>2. QED
      BY <2>2, <3>1, ProbesAssumption DEF OverLimit
  <2>3. CASE Return(g) /\ Top(g).fn = state[g].root_ip /\ ~(state[g].root_depth > 1)
    BY <1>1, <2>1, <2>3, LastReturn
  <2>4. QED
    BY <1>1, <2>1, <2>2, <2>3, SampleEnds
<1>2. DepthInv /\ DepthInv' /\ [ProbesNext]_probesVars => [P]_probesVars
  BY <1>1
<1>3. QED
  BY <1>2, DepthInvariant, PTL DEF ProbesSpec, DirectSampleEndsWithRoot

-----------------------------------------------------------------------------
(* The pipeline *)

\* Dequeue shortens the queue and is nothing to the programs.
LEMMA DequeueKeeps ==
    ASSUME DepthInv, Dequeue, UNCHANGED cfg
    PROVE  DepthInv' /\ Head(queue) \in Event
<1>1. /\ queue \in Seq(Event) /\ queue # <<>> /\ queue' = Tail(queue)
      /\ Len(queue) <= QueueCap /\ QueueCap \in Nat
      /\ UNCHANGED <<targetVars, state, since, denominator, stats, phase, attached>>
  BY ProbesAssumption DEF Dequeue, linkVars, DepthInv, ProbesTypeOK
<1>2. /\ queue' \in Seq(Event) /\ Len(queue') = Len(queue) - 1 /\ Len(queue) \in Nat
      /\ Head(queue) \in Event
  <2>1. /\ Tail(queue) \in Seq(Event) /\ Len(Tail(queue)) = Len(queue) - 1
        /\ Len(queue) \in Nat \ {0}
    BY <1>1, TailFacts
  <2>2. Head(queue) \in Event
    BY <1>1
  <2>3. QED
    BY <1>1, <2>1, <2>2
<1>3. Len(queue') <= QueueCap
  BY <1>1, <1>2
<1>4. ProbesTypeOK' /\ ExitLink'
  BY <1>1, <1>2, <1>3 DEF DepthInv, ProbesTypeOK, targetVars, ExitLink
<1>5. QED
  BY <1>1, <1>2, <1>4, LinksKeep DEF DepthInv

\* The end of the session is nothing to them either.
LEMMA FinishKeeps ==
    ASSUME DepthInv, Finish, UNCHANGED cfg
    PROVE  DepthInv'
<1>1. /\ UNCHANGED <<targetVars, state, since, denominator, stats, queue, attached>>
      /\ phase = "draining" /\ phase' = "done"
  BY DEF Finish, kernelVars
<1>2. ProbesTypeOK' /\ ExitLink'
  BY <1>1 DEF DepthInv, ProbesTypeOK, targetVars, ExitLink
<1>3. QED
  BY <1>1, <1>2, LinksKeep DEF DepthInv

\* The programs keep their invariant in every step of the pipeline.
LEMMA PipelineKeeps ==
    ASSUME DepthInv, [Next]_vars
    PROVE  DepthInv'
<1>1. CASE UNCHANGED vars
  <2>1. UNCHANGED probesVars
    BY <1>1 DEF vars
  <2>2. QED
    BY <2>1, NextKeeps
<1>2. ASSUME UNCHANGED cfg, NEW g \in Goroutines, RunGoroutine(g) PROVE DepthInv'
  BY <1>2, TargetKeeps DEF RunGoroutine, linkVars
<1>3. ASSUME UNCHANGED cfg, NEW p \in Pids, ReplaceProcess(p) PROVE DepthInv'
  <2>1. TargetNext
    BY <1>3 DEF ReplaceProcess, TargetNext
  <2>2. QED
    BY <1>3, <2>1, NextKeeps DEF ProbesNext
<1>4. ASSUME UNCHANGED cfg, Control PROVE DepthInv'
  BY <1>4, AttachKeeps, InterruptKeeps, SetDenominatorKeeps DEF Control
<1>5. CASE Deliver /\ UNCHANGED cfg
  BY <1>5, DequeueKeeps DEF Deliver
<1>6. CASE Finish /\ UNCHANGED cfg
  BY <1>6, FinishKeeps
<1>7. QED
  BY <1>1, <1>2, <1>3, <1>4, <1>5, <1>6 DEF Next

\* The agreement of root_depth with the stacks does not depend on who empties the queue.
THEOREM PipelineDepthInvariant == Spec => []DepthInv
<1>1. Init => DepthInv
  BY InitHolds DEF Init
<1>2. QED
  BY <1>1, PipelineKeeps, PTL DEF Spec

\* ftrace.c on root_depth, in the running pipeline.
THEOREM PipelineRootDepth == Spec => []RootDepthExact
BY DepthInvIsExact, PipelineDepthInvariant, PTL

\* So does what is left in should_trace_goid.
THEOREM PipelineStateReleased == Spec => []StateReleased
BY DepthInvReleases, PipelineDepthInvariant, PTL

-----------------------------------------------------------------------------
(* The manager. *)

\* What a step of the pipeline is to the manager.
LEMMA StepsAreManagerSteps ==
    ASSUME DepthInv, [Next]_vars
    PROVE  [ManagerNext]_<<cfg, managerVars>>
<1>1. CASE UNCHANGED vars
  BY <1>1 DEF vars, probesVars
<1>2. CASE Deliver /\ UNCHANGED cfg
  <2>1. Head(queue) \in Event
    BY <1>2, DequeueKeeps DEF Deliver
  <2>2. QED
    BY <1>2, <2>1 DEF Deliver, ManagerNext
<1>3. CASE Finish /\ UNCHANGED cfg
  BY <1>3 DEF Finish, ManagerNext
<1>4. ASSUME UNCHANGED cfg, (\E g \in Goroutines : RunGoroutine(g))
                            \/ (\E p \in Pids : ReplaceProcess(p)) \/ Control
      PROVE  UNCHANGED <<cfg, managerVars>>
  BY <1>4 DEF RunGoroutine, ReplaceProcess, Control
<1>5. QED
  BY <1>1, <1>2, <1>3, <1>4 DEF Next

\* The pipeline implements the manager that takes any events in any order: whatever is
\* true of that one is true of the tool.
THEOREM PipelineImplementsManager == Spec => ManagerSpec
<1>1. Init => cfg \in Configs /\ ManagerInit
  BY DEF Init, ProbesInit
<1>2. DepthInv /\ [Next]_vars => [ManagerNext]_<<cfg, managerVars>>
  BY StepsAreManagerSteps
<1>3. QED
  BY <1>1, <1>2, PipelineDepthInvariant, PTL DEF Spec, ManagerSpec

\* The maps of ftrace.c and of the manager keep their shapes from the first probe to the
\* summary.
THEOREM PipelineTypeCorrect == Spec => []TypeOK
<1>1. DepthInv /\ ManagerTypeOK => TypeOK
  BY DEF DepthInv, TypeOK
<1>2. QED
  BY <1>1, PipelineDepthInvariant, PipelineImplementsManager, ManagerTypeCorrect, PTL

\* The four properties of the manager that the runs of the pipeline check.
THEOREM PipelineManagerCorrect ==
    Spec => [](PendingExact /\ MemoryBounded /\ SuppressedHoldNothing /\ ObservedStackConsistent)
BY PipelineImplementsManager, PendingCorrect, MemoryCorrect, SuppressedCorrect,
   ObservedStackCorrect, PTL

-----------------------------------------------------------------------------
(* Times. *)

\* When the reported calls of g ended.
Ends(g) == {c.end : c \in {d \in Reported : d.goid = g}}

\* Calls are aggregated or printed, never both.
OneSink == IF Aggregate THEN printed = <<>> ELSE \A p \in Pids : agg[p] = <<>>

ReportsDistinct ==
    /\ Distinct(printed)
    /\ \A p \in Pids : /\ Distinct(agg[p])
                       /\ \A i \in 1 .. Len(agg[p]) : PidOf[agg[p][i].goid] = p

\* What is retained is in order of time and later than what has been reported.
HeldInOrder ==
    \A g \in Goroutines :
        /\ Ordered(goEvents[g], g)
        /\ \A i \in 1 .. Len(goEvents[g]) : \A x \in Ends(g) : x < goEvents[g][i].time

OrderInv == ManagerTypeOK /\ OneSink /\ ReportsDistinct /\ HeldInOrder

\* Everything that is known of g happened before t.
Before(g, t) ==
    /\ \A i \in 1 .. Len(goEvents[g]) : goEvents[g][i].time < t
    /\ \A x \in Ends(g) : x < t

\* The returns of reported calls are times.
LEMMA EndsType ==
    ASSUME ManagerTypeOK, NEW g
    PROVE  Ends(g) \subseteq Nat
<1>1. Reported \subseteq PairedCall
  <2>1. \A q \in Seq(PairedCall) : ToSet(q) \subseteq PairedCall
    BY DEF ToSet
  <2>2. QED
    BY <2>1 DEF Reported, ManagerTypeOK
<1>2. QED
  BY <1>1 DEF Ends, PairedCall

\* The calls that are reported for one process, or printed.
LEMMA EndsOf ==
    ASSUME NEW g
    PROVE  /\ \A i \in 1 .. Len(printed) : printed[i].goid = g => printed[i].end \in Ends(g)
           /\ \A p \in Pids : \A i \in 1 .. Len(agg[p]) :
                  agg[p][i].goid = g => agg[p][i].end \in Ends(g)
BY DEF Ends, Reported, ToSet

\* e goes behind earlier events.
LEMMA JoinInOrder ==
    ASSUME NEW q \in Seq(CallEvent), NEW e \in CallEvent, NEW g, NEW L,
           Ordered(q, g), e.goid = g,
           \A i \in 1 .. Len(q) : q[i].time < e.time /\ \A x \in L : x < q[i].time,
           \A x \in L : x < e.time
    PROVE  /\ Append(q, e) \in Seq(CallEvent) /\ Ordered(Append(q, e), g)
           /\ \A i \in 1 .. Len(Append(q, e)) :
                 /\ \A x \in L : x < Append(q, e)[i].time
                 /\ \A t \in Nat : e.time < t => Append(q, e)[i].time < t
<1> DEFINE r == Append(q, e)
<1>1. /\ Len(q) \in Nat /\ Len(r) = Len(q) + 1 /\ r \in Seq(CallEvent)
      /\ \A i \in 1 .. Len(q) : r[i] = q[i]
      /\ r[Len(q) + 1] = e
  BY AppendFacts
<1>2. Ordered(r, g)
  BY OrderedAppends
<1> HIDE DEF r
<1>3. e.time \in Nat /\ \A i \in 1 .. Len(q) : q[i].time \in Nat
  <2>1. \A i \in 1 .. Len(q) : q[i] \in CallEvent
    OBVIOUS
  <2>2. QED
    BY <2>1, EventFields DEF CallEvent
<1>4. ASSUME NEW i \in 1 .. Len(r)
      PROVE  (\A x \in L : x < r[i].time) /\ (\A t \in Nat : e.time < t => r[i].time < t)
  <2>1. i \in 1 .. Len(q) \/ i = Len(q) + 1
    BY <1>1
  <2>2. CASE i \in 1 .. Len(q)
    <3>1. r[i] = q[i] /\ q[i].time < e.time /\ q[i].time \in Nat
      BY <1>1, <1>3, <2>2
    <3>2. QED
      BY <1>3, <2>2, <3>1
  <2>3. CASE i = Len(q) + 1
    BY <1>1, <2>3
  <2>4. QED
    BY <2>1, <2>2, <2>3
<1>5. QED
  BY <1>1, <1>2, <1>4 DEF r

\* The events that e joins are in order, and e is later.
LEMMA JoinsInOrder ==
    ASSUME OrderInv, NEW e \in CallEvent, Joins(e), Before(e.goid, e.time)
    PROVE  /\ Ordered(goEvents'[e.goid], e.goid)
           /\ \A i \in 1 .. Len(goEvents'[e.goid]) :
                 /\ \A x \in Ends(e.goid) : x < goEvents'[e.goid][i].time
                 /\ \A t \in Nat : e.time < t => goEvents'[e.goid][i].time < t
<1> DEFINE g == e.goid
           L == Ends(g)
           q == goEvents[g]
<1>1. /\ g \in Goroutines /\ q \in Seq(CallEvent) /\ Ordered(q, g)
      /\ \A i \in 1 .. Len(q) : q[i].time < e.time /\ \A x \in L : x < q[i].time
      /\ \A x \in L : x < e.time
  BY NowType DEF OrderInv, ManagerTypeOK, HeldInOrder, Before
<1> DEFINE After(r) ==
      /\ Ordered(r, g)
      /\ \A i \in 1 .. Len(r) : (\A x \in L : x < r[i].time) /\ (\A t \in Nat : e.time < t => r[i].time < t)
<1> SUFFICES After(goEvents'[g])
  OBVIOUS
<1>2. e.goid = g
  OBVIOUS
<1>3. Joins(e) <=> \/ goEvents'[g] = <<e>>
                   \/ goEvents'[g] = Append(q, e)
                   \/ q # <<>> /\ goEvents'[g] = Append(Drop(q), e)
  BY DEF Joins
<1> HIDE DEF g, L, q
<1>4. CASE goEvents'[g] = <<e>>
  <2> DEFINE r == <<>>
  <2>1. r \in Seq(CallEvent) /\ Len(r) = 0 /\ Append(r, e) = <<e>>
    OBVIOUS
  <2> HIDE DEF r
  <2>2. Ordered(r, g)
    BY <2>1 DEF Ordered
  <2>3. \A i \in 1 .. Len(r) : r[i].time < e.time /\ \A x \in L : x < r[i].time
    BY <2>1
  <2>4. After(Append(r, e))
    BY <1>1, <1>2, <2>1, <2>2, <2>3, JoinInOrder
  <2>5. QED
    BY <1>4, <2>1, <2>4
<1>5. CASE goEvents'[g] = Append(q, e)
  <2>1. After(Append(q, e))
    BY <1>1, <1>2, JoinInOrder
  <2>2. QED
    BY <1>5, <2>1
<1>6. CASE q # <<>> /\ goEvents'[g] = Append(Drop(q), e)
  <2> DEFINE r == Drop(q)
  <2>1. r \in Seq(CallEvent) /\ Len(r) = Len(q) - 1 /\ \A i \in 1 .. Len(q) - 1 : r[i] = q[i]
    BY <1>1, <1>6, LastFacts
  <2>2. Ordered(r, g)
    BY <1>1, <1>6, OrderedDrops
  <2> HIDE DEF r
  <2>3. \A i \in 1 .. Len(r) : i \in 1 .. Len(q) /\ r[i] = q[i]
    BY <1>1, <2>1
  <2>4. After(Append(r, e))
    BY <1>1, <1>2, <2>1, <2>2, <2>3, JoinInOrder
  <2>5. QED
    BY <1>6, <2>4 DEF r
<1>7. QED
  BY <1>3, <1>4, <1>5, <1>6

\* Reports that are kept or lost end as before.
LEMMA KeptEnds ==
    ASSUME NEW g, ReportsKept(Pids), printed' = printed
    PROVE  Ends(g)' \subseteq Ends(g)
<1>1. ToSet(<<>>) = {}
  BY DEF ToSet
<1>2. \A p \in Pids : ToSet(agg'[p]) \subseteq ToSet(agg[p])
  BY <1>1 DEF ReportsKept
<1>3. Reported' \subseteq Reported
  BY <1>2 DEF Reported
<1>4. QED
  BY <1>3 DEF Ends

\* The stack that e closes, and what is made of it.
LEMMA BatchInOrder ==
    ASSUME OrderInv, NEW e \in CallEvent, Before(e.goid, e.time)
    PROVE  LET all == Append(EventsNow(e), e)
               U == {t \in Nat : e.time < t}
           IN  /\ AggregateStack(all).pairs \in Seq(PairedCall)
               /\ PrintStack(all).pairs \in Seq(PairedCall)
               /\ Distinct(AggregateStack(all).pairs)
               /\ Within(AggregateStack(all).pairs, e.goid, Ends(e.goid), U)
               /\ Distinct(PrintStack(all).pairs)
               /\ Within(PrintStack(all).pairs, e.goid, Ends(e.goid), U)
<1> DEFINE g == e.goid
           q == EventsNow(e)
           all == Append(q, e)
           L == Ends(g)
           U == {t \in Nat : e.time < t}
<1>1. g \in Goroutines /\ q \in Seq(CallEvent) /\ q \in {<<>>, goEvents[g]} /\ e.goid = g
  BY NowType DEF OrderInv, EventsNow
<1>2. /\ Ordered(q, g)
      /\ \A i \in 1 .. Len(q) : q[i].time < e.time /\ \A x \in L : x < q[i].time
      /\ \A x \in L : x < e.time
  <2>0. \A x \in L : x < e.time
    BY DEF Before
  <2>1. CASE q = <<>>
    <3>1. Len(q) = 0
      BY <2>1
    <3> HIDE DEF q, L
    <3>2. QED
      BY <2>0, <3>1 DEF Ordered
  <2>2. CASE q = goEvents[g]
    BY <1>1, <2>2 DEF OrderInv, HeldInOrder, Before
  <2>3. QED
    BY <1>1, <2>1, <2>2
<1> HIDE DEF g, q, L
<1>3. /\ all \in Seq(CallEvent) /\ Ordered(all, g)
      /\ \A i \in 1 .. Len(all) :
            (\A x \in L : x < all[i].time) /\ (\A t \in Nat : e.time < t => all[i].time < t)
  BY <1>1, <1>2, JoinInOrder
<1> HIDE DEF all
<1>4. \A i \in 1 .. Len(all) : (\A x \in L : x < all[i].time) /\ (\A u \in U : all[i].time < u)
  BY <1>3
<1> HIDE DEF U
<1>5. /\ AggregateStack(all).pairs \in Seq(PairedCall) /\ PrintStack(all).pairs \in Seq(PairedCall)
      /\ Distinct(AggregateStack(all).pairs) /\ Within(AggregateStack(all).pairs, g, L, U)
      /\ Distinct(PrintStack(all).pairs) /\ Within(PrintStack(all).pairs, g, L, U)
  BY <1>3, <1>4, PairedInOrder
<1>6. QED
  BY <1>5 DEF all, q, g, L, U

\* Calls of g that are all later than the reported ones can be added to them.
LEMMA SinkGrows ==
    ASSUME NEW sink \in Seq(PairedCall), NEW more \in Seq(PairedCall), NEW g, NEW L, NEW U,
           Distinct(sink), Distinct(more), Within(more, g, L, U),
           \A i \in 1 .. Len(sink) : sink[i].goid = g => sink[i].end \in L
    PROVE  /\ sink \o more \in Seq(PairedCall) /\ Distinct(sink \o more)
           /\ \A i \in 1 .. Len(sink \o more) :
                 \/ i \in 1 .. Len(sink) /\ (sink \o more)[i] = sink[i]
                 \/ /\ (sink \o more)[i].goid = g
                    /\ \A u \in U : (sink \o more)[i].end < u
<1>1. Follows(sink, more)
  BY DEF Follows, Within
<1>2. Distinct(sink \o more)
  BY <1>1, DistinctConcat
<1>3. ASSUME NEW i \in 1 .. Len(sink \o more)
      PROVE  \/ i \in 1 .. Len(sink) /\ (sink \o more)[i] = sink[i]
             \/ /\ (sink \o more)[i].goid = g
                /\ \A u \in U : (sink \o more)[i].end < u
  <2>1. \/ i \in 1 .. Len(sink) /\ (sink \o more)[i] = sink[i]
        \/ /\ i - Len(sink) \in 1 .. Len(more)
           /\ (sink \o more)[i] = more[i - Len(sink)]
    BY ConcatMembers
  <2>2. QED
    BY <2>1 DEF Within
<1>4. QED
  BY <1>2, <1>3, ConcatType

\* What Reports makes of the sinks.
LEMMA ReportsInOrder ==
    ASSUME OrderInv, NEW e \in CallEvent, Reports(e), Before(e.goid, e.time), UNCHANGED cfg
    PROVE  /\ OneSink' /\ ReportsDistinct'
           /\ \A h \in Goroutines \ {e.goid} : Ends(h)' \subseteq Ends(h)
           /\ \A t \in Nat : Before(e.goid, t) /\ e.time < t => \A x \in Ends(e.goid)' : x < t
<1> DEFINE g == e.goid
           pid == PidOf[g]
           L == Ends(g)
           U == {t \in Nat : e.time < t}
<1>1. /\ g \in Goroutines /\ pid \in Pids /\ Aggregate' = Aggregate
      /\ printed \in Seq(PairedCall) /\ \A p \in Pids : agg[p] \in Seq(PairedCall)
  BY NowType DEF OrderInv, ManagerTypeOK, Aggregate
<1>2. /\ Len(<<>>) = 0 /\ <<>> \in Seq(PairedCall) /\ ToSet(<<>>) = {}
      /\ Distinct(<<>>)
  <2>1. Len(<<>>) = 0 /\ <<>> \in Seq(PairedCall)
    OBVIOUS
  <2>2. QED
    BY <2>1 DEF ToSet, Distinct
<1>3. CASE Aggregate
  <2> DEFINE more == AggregateStack(Append(EventsNow(e), e)).pairs
  <2>1. PICK kept \in {<<>>, agg[pid]} : agg'[pid] = kept \o more
    BY <1>3 DEF Reports
  <2>2. printed' = printed /\ ReportsKept(Pids \ {pid}) /\ printed = <<>>
    BY <1>3 DEF Reports, OrderInv, OneSink
  <2>3. more \in Seq(PairedCall) /\ Distinct(more) /\ Within(more, g, L, U)
    BY BatchInOrder
  <2>4. /\ kept \in Seq(PairedCall) /\ Distinct(kept)
        /\ \A i \in 1 .. Len(kept) : /\ PidOf[kept[i].goid] = pid
                                     /\ kept[i] \in Reported
                                     /\ kept[i].goid = g => kept[i].end \in L
    <3>1. CASE kept = <<>>
      <4>1. Len(kept) = 0
        BY <1>2, <3>1
      <4>2. QED
        BY <1>2, <3>1, <4>1
    <3>2. CASE kept = agg[pid]
      BY <1>1, <3>2, EndsOf DEF OrderInv, ReportsDistinct, Reported, ToSet
    <3>3. QED
      BY <2>1, <3>1, <3>2
  <2> DEFINE sink == agg'[pid]
  <2> HIDE DEF more, L, U
  <2>5. /\ sink \in Seq(PairedCall) /\ Distinct(sink)
        /\ \A i \in 1 .. Len(sink) :
              \/ i \in 1 .. Len(kept) /\ sink[i] = kept[i]
              \/ sink[i].goid = g /\ \A u \in U : sink[i].end < u
    <3>1. /\ kept \o more \in Seq(PairedCall) /\ Distinct(kept \o more)
          /\ \A i \in 1 .. Len(kept \o more) :
                \/ i \in 1 .. Len(kept) /\ (kept \o more)[i] = kept[i]
                \/ /\ (kept \o more)[i].goid = g
                   /\ \A u \in U : (kept \o more)[i].end < u
      <4> HIDE DEF g, pid
      <4> QED BY <2>3, <2>4, SinkGrows
    <3>2. QED
      BY <2>1, <3>1
  <2> HIDE DEF sink
  <2>6. \A i \in 1 .. Len(sink) : PidOf[sink[i].goid] = pid
    BY <2>4, <2>5 DEF pid
  <2>7. ASSUME NEW p \in Pids \ {pid}
        PROVE  /\ Distinct(agg'[p]) /\ ToSet(agg'[p]) \subseteq ToSet(agg[p])
               /\ \A i \in 1 .. Len(agg'[p]) : PidOf[agg'[p][i].goid] = p
    <3>1. agg'[p] \in {<<>>, agg[p]}
      BY <2>2, <2>7 DEF ReportsKept
    <3>2. CASE agg'[p] = agg[p]
      BY <2>7, <3>2 DEF OrderInv, ReportsDistinct
    <3>3. CASE agg'[p] = <<>>
      <4> DEFINE a == agg'[p]
      <4>1. Len(a) = 0 /\ Distinct(a) /\ ToSet(a) = {}
        BY <1>2, <3>3
      <4> HIDE DEF a
      <4>2. \A i \in 1 .. Len(a) : PidOf[a[i].goid] = p
        BY <4>1
      <4>3. QED
        BY <4>1, <4>2 DEF a
    <3>4. QED
      BY <3>1, <3>2, <3>3
  <2>8. OneSink' /\ ReportsDistinct'
    <3>1. OneSink'
      BY <1>1, <1>3, <2>2 DEF OneSink
    <3>2. Distinct(printed)'
      BY <1>2, <2>2
    <3>3. ASSUME NEW p \in Pids
          PROVE  Distinct(agg'[p]) /\ \A i \in 1 .. Len(agg'[p]) : PidOf[agg'[p][i].goid] = p
      <4>1. CASE p = pid
        BY <2>5, <2>6, <4>1 DEF sink
      <4>2. CASE p # pid
        BY <2>7, <4>2
      <4>3. QED
        BY <4>1, <4>2
    <3>4. QED
      BY <3>1, <3>2, <3>3 DEF ReportsDistinct
  <2>9. ASSUME NEW c \in Reported'
        PROVE  c \in Reported \/ (c.goid = g /\ \A u \in U : c.end < u)
    <3>1. CASE c \in ToSet(printed)'
      BY <2>2, <3>1 DEF Reported
    <3>2. ASSUME NEW p \in Pids \ {pid}, c \in ToSet(agg'[p]) PROVE c \in Reported
      BY <2>7, <3>2 DEF Reported
    <3>3. CASE c \in ToSet(sink)
      <4>1. PICK i \in 1 .. Len(sink) : c = sink[i]
        BY <2>5, <3>3 DEF ToSet
      <4>2. \/ i \in 1 .. Len(kept) /\ c = kept[i]
            \/ c.goid = g /\ \A u \in U : c.end < u
        BY <2>5, <4>1
      <4>3. QED
        BY <2>4, <4>2
    <3>4. QED
      BY <2>9, <3>1, <3>2, <3>3 DEF Reported, sink
  <2>10. \A h \in Goroutines \ {g} : Ends(h)' \subseteq Ends(h)
    BY <2>9 DEF Ends
  <2>11. ASSUME NEW t \in Nat, Before(g, t), e.time < t, NEW x \in Ends(g)' PROVE x < t
    <3>1. PICK c \in Reported' : c.goid = g /\ x = c.end
      BY <2>11 DEF Ends
    <3>2. CASE c \in Reported
      BY <2>11, <3>1, <3>2 DEF Ends, Before
    <3>3. CASE \A u \in U : c.end < u
      BY <2>11, <3>1, <3>3 DEF U
    <3>4. QED
      BY <2>9, <3>1, <3>2, <3>3
  <2>12. QED
    BY <2>8, <2>10, <2>11
<1>4. CASE ~Aggregate
  <2> DEFINE more == PrintStack(Append(EventsNow(e), e)).pairs
  <2>1. printed' = printed \o more /\ ReportsKept({pid}) /\ ReportsKept(Pids \ {pid})
    BY <1>4 DEF Reports
  <2>2. \A p \in Pids : agg'[p] = <<>> /\ agg[p] = <<>>
    BY <1>4, <2>1 DEF ReportsKept, OrderInv, OneSink
  <2>3. more \in Seq(PairedCall) /\ Distinct(more) /\ Within(more, g, L, U)
    BY BatchInOrder
  <2>4. /\ Distinct(printed)
        /\ \A i \in 1 .. Len(printed) : /\ printed[i] \in Reported
                                        /\ printed[i].goid = g => printed[i].end \in L
    BY EndsOf DEF OrderInv, ReportsDistinct, Reported, ToSet
  <2> DEFINE sink == printed'
  <2> HIDE DEF more, L, U
  <2>5. /\ sink \in Seq(PairedCall) /\ Distinct(sink)
        /\ \A i \in 1 .. Len(sink) :
              \/ i \in 1 .. Len(printed) /\ sink[i] = printed[i]
              \/ sink[i].goid = g /\ \A u \in U : sink[i].end < u
    <3>1. /\ printed \o more \in Seq(PairedCall) /\ Distinct(printed \o more)
          /\ \A i \in 1 .. Len(printed \o more) :
                \/ i \in 1 .. Len(printed) /\ (printed \o more)[i] = printed[i]
                \/ /\ (printed \o more)[i].goid = g
                   /\ \A u \in U : (printed \o more)[i].end < u
      <4> HIDE DEF g, pid
      <4> QED BY <1>1, <2>3, <2>4, SinkGrows
    <3>2. QED
      BY <2>1, <3>1
  <2> HIDE DEF sink
  <2>6. OneSink' /\ ReportsDistinct'
    <3>1. OneSink'
      BY <1>1, <1>4, <2>2 DEF OneSink
    <3>2. Distinct(printed)'
      BY <2>5 DEF sink
    <3>3. ASSUME NEW p \in Pids
          PROVE  Distinct(agg'[p]) /\ \A i \in 1 .. Len(agg'[p]) : PidOf[agg'[p][i].goid] = p
      <4> DEFINE a == agg'[p]
      <4>1. Len(a) = 0 /\ Distinct(a)
        BY <1>2, <2>2
      <4> HIDE DEF a
      <4>2. \A i \in 1 .. Len(a) : PidOf[a[i].goid] = p
        BY <4>1
      <4>3. QED
        BY <4>1, <4>2 DEF a
    <3>4. QED
      BY <3>1, <3>2, <3>3 DEF ReportsDistinct
  <2>7. ASSUME NEW c \in Reported'
        PROVE  c \in Reported \/ (c.goid = g /\ \A u \in U : c.end < u)
    <3>1. c \in ToSet(sink)
      BY <1>2, <2>2, <2>7 DEF Reported, sink
    <3>2. PICK i \in 1 .. Len(sink) : c = sink[i]
      BY <2>5, <3>1 DEF ToSet
    <3>3. QED
      BY <2>4, <2>5, <3>2
  <2>8. \A h \in Goroutines \ {g} : Ends(h)' \subseteq Ends(h)
    BY <2>7 DEF Ends
  <2>9. ASSUME NEW t \in Nat, Before(g, t), e.time < t, NEW x \in Ends(g)' PROVE x < t
    <3>1. PICK c \in Reported' : c.goid = g /\ x = c.end
      BY <2>9 DEF Ends
    <3>2. CASE c \in Reported
      BY <2>9, <3>1, <3>2 DEF Ends, Before
    <3>3. CASE \A u \in U : c.end < u
      BY <2>9, <3>1, <3>3 DEF U
    <3>4. QED
      BY <2>7, <3>1, <3>2, <3>3
  <2>10. QED
    BY <2>6, <2>8, <2>9
<1>5. QED
  BY <1>3, <1>4

\* Every outcome of Handle, for an event later than all that is known of its goroutine:
\* what is retained and reported stays in order, and below every later time.
LEMMA HandleInOrder ==
    ASSUME OrderInv, NEW e \in Event, Handle(e), UNCHANGED cfg,
           e.location # EXIT => Before(e.goid, e.time)
    PROVE  /\ OrderInv'
           /\ \A h \in Goroutines, t \in Nat :
                 Before(h, t) /\ (h = e.goid /\ e.location # EXIT => e.time < t) => Before(h, t)'
<1> DEFINE g == e.goid
<1>0. /\ ManagerTypeOK /\ ManagerTypeOK' /\ g \in Goroutines /\ Aggregate' = Aggregate
      /\ e \in CallEvent => e.location # EXIT
  BY HandleType, EventFields DEF OrderInv, Aggregate, CallEvent
<1>1. /\ \A h \in Goroutines \ {g} : goEvents'[h] \in {<<>>, goEvents[h]}
      /\ goEvents'[g] \in {<<>>, goEvents[g]} \/ (e \in CallEvent /\ Joins(e))
      /\ (ReportsKept(Pids) /\ printed' = printed) \/ (e \in CallEvent /\ Reports(e))
  BY <1>0, HandleDoes
<1>2. /\ OneSink' /\ ReportsDistinct'
      /\ \A h \in Goroutines \ {g} : Ends(h)' \subseteq Ends(h)
      /\ Ends(g)' \subseteq Ends(g) \/ goEvents'[g] = <<>>
      /\ \A t \in Nat : Before(g, t) /\ (e.location # EXIT => e.time < t) => \A x \in Ends(g)' : x < t
  <2>1. CASE ReportsKept(Pids) /\ printed' = printed
    <3>1. \A h : Ends(h)' \subseteq Ends(h)
      BY <2>1, KeptEnds
    <3>2. OneSink'
      BY <1>0, <2>1 DEF OrderInv, OneSink, ReportsKept
    <3>3. ASSUME NEW p \in Pids
          PROVE  Distinct(agg'[p]) /\ \A i \in 1 .. Len(agg'[p]) : PidOf[agg'[p][i].goid] = p
      <4>1. agg'[p] \in {<<>>, agg[p]}
        BY <2>1 DEF ReportsKept
      <4>2. CASE agg'[p] = agg[p]
        BY <4>2 DEF OrderInv, ReportsDistinct
      <4>3. CASE agg'[p] = <<>>
        <5> DEFINE a == agg'[p]
        <5>1. Len(a) = 0
          BY <4>3
        <5> HIDE DEF a
        <5>2. Distinct(a) /\ \A i \in 1 .. Len(a) : PidOf[a[i].goid] = p
          BY <5>1 DEF Distinct
        <5>3. QED
          BY <5>2 DEF a
      <4>4. QED
        BY <4>1, <4>2, <4>3
    <3>4. ReportsDistinct'
      BY <2>1, <3>3 DEF OrderInv, ReportsDistinct
    <3>5. QED
      BY <3>1, <3>2, <3>4 DEF Before
  <2>2. CASE e \in CallEvent /\ Reports(e)
    <3>1. goEvents'[g] = <<>>
      BY <2>2 DEF Reports
    <3>2. /\ OneSink' /\ ReportsDistinct'
          /\ \A h \in Goroutines \ {g} : Ends(h)' \subseteq Ends(h)
          /\ \A t \in Nat : Before(g, t) /\ e.time < t => \A x \in Ends(g)' : x < t
      BY <1>0, <2>2, ReportsInOrder
    <3>3. QED
      BY <1>0, <2>2, <3>1, <3>2
  <2>3. QED
    BY <1>1, <2>1, <2>2
<1> DEFINE HeldOK(h, ev, ends) ==
      Ordered(ev, h) /\ \A i \in 1 .. Len(ev) : \A x \in ends : x < ev[i].time
<1>3. \A h : HeldOK(h, <<>>, Ends(h)')
  <2>1. Len(<<>>) = 0
    OBVIOUS
  <2> DEFINE empty == <<>>
  <2>2. Len(empty) = 0
    BY <2>1
  <2> HIDE DEF empty
  <2>3. \A h : HeldOK(h, empty, Ends(h)')
    BY <2>2 DEF Ordered
  <2>4. QED
    BY <2>3 DEF empty
<1>4. ASSUME NEW h \in Goroutines PROVE HeldOK(h, goEvents'[h], Ends(h)')
  <2>1. CASE goEvents'[h] = <<>>
    BY <1>3, <2>1
  <2>2. CASE goEvents'[h] = goEvents[h] /\ goEvents'[h] # <<>>
    <3>1. Ends(h)' \subseteq Ends(h)
      BY <1>2, <2>2
    <3>2. HeldOK(h, goEvents[h], Ends(h))
      BY DEF OrderInv, HeldInOrder
    <3>3. QED
      BY <2>2, <3>1, <3>2
  <2>3. CASE h = g /\ goEvents'[h] # <<>> /\ e \in CallEvent /\ Joins(e)
    <3>1. Ends(h)' \subseteq Ends(h)
      BY <1>2, <2>3
    <3>2. HeldOK(h, goEvents'[h], Ends(h))
      BY <1>0, <2>3, JoinsInOrder
    <3>3. QED
      BY <3>1, <3>2
  <2>4. QED
    BY <1>1, <2>1, <2>2, <2>3
<1>5. HeldInOrder'
  BY <1>4 DEF HeldInOrder
<1>6. ASSUME NEW h \in Goroutines, NEW t \in Nat, Before(h, t),
             h = g /\ e.location # EXIT => e.time < t
      PROVE  Before(h, t)'
  <2>1. \A x \in Ends(h)' : x < t
    BY <1>2, <1>6 DEF Before
  <2>2. \A i \in 1 .. Len(goEvents'[h]) : goEvents'[h][i].time < t
    <3>1. CASE goEvents'[h] = <<>>
      <4> DEFINE ev == goEvents'[h]
      <4>1. Len(ev) = 0
        BY <3>1
      <4> HIDE DEF ev
      <4>2. \A i \in 1 .. Len(ev) : ev[i].time < t
        BY <4>1
      <4>3. QED
        BY <4>2 DEF ev
    <3>2. CASE goEvents'[h] = goEvents[h]
      BY <1>6, <3>2 DEF Before
    <3>3. CASE h = g /\ e \in CallEvent /\ Joins(e)
      BY <1>0, <1>6, <3>3, JoinsInOrder
    <3>4. QED
      BY <1>1, <3>1, <3>2, <3>3
  <2>3. QED
    BY <2>1, <2>2 DEF Before
<1>7. QED
  BY <1>0, <1>2, <1>5, <1>6 DEF OrderInv

\* What PrintRemaining writes for the open stacks, one goroutine after the other.
LEMMA RemainingInOrder ==
    ASSUME OrderInv, PrintRemaining, UNCHANGED cfg
    PROVE  OneSink' /\ ReportsDistinct'
<1>0. Aggregate' = Aggregate
  BY DEF Aggregate
<1>1. CASE Aggregate
  BY <1>0, <1>1 DEF PrintRemaining, OrderInv, OneSink, ReportsDistinct
<1>2. CASE ~Aggregate
  <2> DEFINE N == Cardinality(Unfinished)
             s == SetToSeq(Unfinished)
             rest == [i \in 1 .. N |-> PrintStack(goEvents[s[i]]).pairs]
  <2>1. /\ N \in Nat /\ s \in [1 .. N -> Goroutines]
        /\ \A i, j \in 1 .. N : s[i] = s[j] => i = j
    <3>1. Unfinished \subseteq Goroutines
      BY DEF Unfinished
    <3>2. IsFiniteSet(Unfinished)
      BY <3>1, ScopeAssumption, FS_Subset
    <3>3. /\ s \in [1 .. N -> Unfinished] /\ N \in Nat
          /\ \A i, j \in 1 .. N : s[i] = s[j] => i = j
      BY <3>2, SetToSeqType
    <3>4. QED
      BY <3>1, <3>3
  <2>2. printed' = printed \o FlattenSeq(rest) /\ agg' = agg
    BY <1>2 DEF PrintRemaining
  <2> HIDE DEF N, s
  <2>3. ASSUME NEW i \in 1 .. N
        PROVE  /\ rest[i] \in Seq(PairedCall) /\ Distinct(rest[i])
               /\ Within(rest[i], s[i], Ends(s[i]), {})
    <3> DEFINE g == s[i]
               q == goEvents[g]
               L == Ends(g)
               U == {}
    <3>1. /\ g \in Goroutines /\ q \in Seq(CallEvent) /\ Ordered(q, g)
          /\ \A k \in 1 .. Len(q) : (\A x \in L : x < q[k].time) /\ (\A u \in U : q[k].time < u)
      BY <2>1 DEF OrderInv, ManagerTypeOK, HeldInOrder
    <3> HIDE DEF g, q, L, U
    <3>2. /\ PrintStack(q).pairs \in Seq(PairedCall) /\ Distinct(PrintStack(q).pairs)
          /\ Within(PrintStack(q).pairs, g, L, U)
      BY <3>1, PairedInOrder
    <3>3. rest[i] = PrintStack(q).pairs
      BY DEF q, g
    <3> HIDE DEF rest
    <3>4. QED
      BY <3>2, <3>3 DEF g, L, U
  <2>4. rest \in [1 .. N -> Seq(PairedCall)]
    BY <2>3
  <2> HIDE DEF rest
  <2>5. PICK f : FlattenRun(PairedCall, N, f, rest) /\ FlattenSeq(rest) = f[N]
    BY <2>1, <2>4, FlattenUnfolds
  <2> DEFINE Good(n) ==
        /\ Distinct(f[n])
        /\ \A k \in 1 .. Len(f[n]) : /\ f[n][k].goid \in {s[i] : i \in 1 .. n}
                                     /\ \A x \in Ends(f[n][k].goid) : x < f[n][k].start
             D == {n \in Nat : n <= N => Good(n)}
  <2>6. 0 \in D
    <3>1. Len(f[0]) = 0
      BY <2>5 DEF FlattenRun
    <3>2. Good(0)
      BY <3>1 DEF Distinct
    <3>3. QED
      BY <3>2
  <2>7. ASSUME NEW n \in Nat, n \in D PROVE n + 1 \in D
    <3> SUFFICES ASSUME n + 1 <= N PROVE Good(n + 1)
      OBVIOUS
    <3>1. Good(n) /\ n + 1 \in 1 .. N /\ n \in 0 .. N /\ (n + 1) - 1 = n
          /\ \A i \in 1 .. n : i \in 1 .. N /\ i # n + 1
      BY <2>1, <2>7
    <3> DEFINE a == f[n]
               b == rest[n + 1]
               g == s[n + 1]
               c == f[n + 1]
    <3>2. /\ a \in Seq(PairedCall) /\ b \in Seq(PairedCall) /\ c = a \o b
          /\ Distinct(a) /\ Distinct(b) /\ Within(b, g, Ends(g), {})
          /\ \A k \in 1 .. Len(a) : /\ a[k].goid \in {s[i] : i \in 1 .. n}
                                    /\ \A x \in Ends(a[k].goid) : x < a[k].start
      BY <2>3, <2>5, <3>1 DEF FlattenRun
    <3>3. g \notin {s[i] : i \in 1 .. n}
      BY <2>1, <3>1
    <3>4. {s[i] : i \in 1 .. n} \cup {g} \subseteq {s[i] : i \in 1 .. n + 1}
      BY <3>1
    <3> HIDE DEF a, b, g, c
    <3>5. Follows(a, b)
      BY <3>2, <3>3 DEF Follows, Within
    <3>6. Distinct(c)
      BY <3>2, <3>5, DistinctConcat
    <3>7. ASSUME NEW k \in 1 .. Len(c)
          PROVE  /\ c[k].goid \in {s[i] : i \in 1 .. n + 1}
                 /\ \A x \in Ends(c[k].goid) : x < c[k].start
      <4>1. \/ k \in 1 .. Len(a) /\ c[k] = a[k]
            \/ k - Len(a) \in 1 .. Len(b) /\ c[k] = b[k - Len(a)]
        BY <3>2, ConcatMembers
      <4>2. CASE k \in 1 .. Len(a) /\ c[k] = a[k]
        BY <3>2, <3>4, <4>2
      <4>3. CASE k - Len(a) \in 1 .. Len(b) /\ c[k] = b[k - Len(a)]
        <5>1. c[k].goid = g /\ \A x \in Ends(g) : x < c[k].start
          BY <3>2, <4>3 DEF Within
        <5>2. QED
          BY <3>4, <5>1
      <4>4. QED
        BY <4>1, <4>2, <4>3
    <3>8. QED
      BY <3>6, <3>7 DEF c
  <2> HIDE DEF D
  <2>8. Nat \subseteq D
    BY <2>6, <2>7, NatSetInduction
  <2>9. Good(N)
    BY <2>1, <2>8 DEF D
  <2> DEFINE more == FlattenSeq(rest)
  <2>10. /\ more \in Seq(PairedCall) /\ Distinct(more)
         /\ \A k \in 1 .. Len(more) : \A x \in Ends(more[k].goid) : x < more[k].start
    BY <2>1, <2>5, <2>9 DEF FlattenRun
  <2> HIDE DEF more
  <2>11. printed \in Seq(PairedCall) /\ Distinct(printed)
    BY DEF OrderInv, ManagerTypeOK, ReportsDistinct
  <2>12. Follows(printed, more)
    BY <2>10, EndsOf DEF Follows
  <2>13. Distinct(printed)'
    BY <2>2, <2>10, <2>11, <2>12, DistinctConcat DEF more
  <2>14. QED
    BY <1>0, <1>2, <2>2, <2>13 DEF OrderInv, OneSink, ReportsDistinct
<1>3. QED
  BY <1>1, <1>2

\* What a step of g puts into the queue: a call event carries the time of this probe hit.
Queues(g) ==
    \/ queue' = queue
    \/ \E e : /\ queue' = Append(queue, e) /\ e.goid = g
              /\ e.location # EXIT => e.time = clock'[g]

\* A pushed event is queued or lost.
LEMMA PushQueues ==
    ASSUME NEW g, NEW e, NEW counted, PushEvent(e, counted), e.goid = g,
           e.location # EXIT => e.time = clock'[g]
    PROVE  Queues(g)
BY DEF PushEvent, Queues

\* ent queues at most the entry.
LEMMA EntQueues ==
    ASSUME NEW g, NEW fn, NEW bp, NEW caller_bp, Ent(g, fn, bp, caller_bp)
    PROVE  Queues(g)
<1>1. CASE EntIgnored(g, fn) \/ EntSampledOut(g, fn) \/ EntInsertFailed(g, fn)
  BY <1>1 DEF EntIgnored, EntSampledOut, EntInsertFailed, kernelVars, Queues
<1>2. CASE EntAdmitted(g, fn, bp, caller_bp)
  <2> DEFINE e == [goid |-> g, location |-> ENT, ip |-> fn, bp |-> bp, caller_bp |-> caller_bp,
                   flag |-> IF Adaptive THEN START ELSE NoFlag,
                   sample_denominator |-> denominator, time |-> clock'[g]]
  <2>1. PushEvent(e, {"wanted_roots", "admitted_roots"})
    BY <1>2 DEF EntAdmitted
  <2>2. e.goid = g /\ e.time = clock'[g]
    OBVIOUS
  <2> HIDE DEF e
  <2>3. QED
    BY <2>1, <2>2, PushQueues
<1>3. CASE EntNested(g, fn, bp, caller_bp)
  <2> DEFINE s == state[g]
             e == [goid |-> g, location |-> ENT, ip |-> fn, bp |-> bp, caller_bp |-> caller_bp,
                   flag |-> IF OverLimit(s) THEN ABORT ELSE NoFlag,
                   sample_denominator |-> s.sample_denominator, time |-> clock'[g]]
             counted == IF OverLimit(s) THEN {"aborted_roots"} ELSE {}
  <2>1. PushEvent(e, counted)
    BY <1>3 DEF EntNested
  <2>2. e.goid = g /\ e.time = clock'[g]
    OBVIOUS
  <2> HIDE DEF e, counted
  <2>3. QED
    BY <2>1, <2>2, PushQueues
<1>4. QED
  BY <1>1, <1>2, <1>3 DEF Ent

\* ret queues at most the return.
LEMMA RetQueues ==
    ASSUME NEW g, NEW fn, Ret(g, fn)
    PROVE  Queues(g)
<1>1. CASE RetIgnored(g)
  BY <1>1 DEF RetIgnored, kernelVars, Queues
<1>2. CASE RetTraced(g, fn)
  <2> DEFINE s == state[g]
             rootRet == Adaptive /\ ~OverLimit(s) /\ fn \in Wanted /\ fn = s.root_ip
             ends == rootRet /\ ~(s.root_depth > 1)
             e == [goid |-> g, location |-> RET, ip |-> fn, bp |-> Zero, caller_bp |-> Zero,
                   flag |-> IF OverLimit(s) THEN ABORT ELSE IF ends THEN END ELSE NoFlag,
                   sample_denominator |-> s.sample_denominator, time |-> clock'[g]]
             counted == IF OverLimit(s) THEN {"aborted_roots"} ELSE {}
  <2>1. PushEvent(e, counted)
    BY <1>2 DEF RetTraced
  <2>2. e.goid = g /\ e.time = clock'[g]
    OBVIOUS
  <2> HIDE DEF e, counted
  <2>3. QED
    BY <2>1, <2>2, PushQueues
<1>3. QED
  BY <1>1, <1>2 DEF Ret

\* goroutine_exit queues at most a TRACE_END.
LEMMA ExitQueues ==
    ASSUME NEW g, GoroutineExit(g)
    PROVE  Queues(g)
<1>1. CASE GoroutineExitIgnored(g)
  BY <1>1 DEF GoroutineExitIgnored, kernelVars, Queues
<1>2. CASE GoroutineExitTraced(g)
  <2> DEFINE e == [goid |-> g, location |-> EXIT, ip |-> Zero, bp |-> Zero, caller_bp |-> Zero,
                   flag |-> NoFlag, sample_denominator |-> 0, time |-> 0]
  <2>1. PushEvent(e, {})
    BY <1>2 DEF GoroutineExitTraced
  <2>2. e.goid = g /\ e.location = EXIT
    OBVIOUS
  <2> HIDE DEF e
  <2>3. QED
    BY <2>1, <2>2, PushQueues
<1>3. QED
  BY <1>1, <1>2 DEF GoroutineExit

\* A step of g without a probe hit puts nothing into the queue but a GOROUTINE_EXIT.
Ticks(g) ==
    \/ clock' = [clock EXCEPT ![g] = @ + 1] /\ Queues(g)
    \/ clock' = clock /\ queue' = queue
    \/ /\ clock' = clock
       /\ \E e : queue' = Append(queue, e) /\ e.location = EXIT

\* Every step of a goroutine is one of these.
LEMMA TargetTicks ==
    ASSUME NEW g \in Goroutines, TargetStep(g)
    PROVE  Ticks(g)
<1>1. ASSUME NEW fn \in Callable, Call(g, fn) PROVE Ticks(g)
  BY <1>1, EntQueues DEF Call, Fire, Ticks
<1>2. ASSUME NEW moved \in {0, 1}, Restart(g, moved) PROVE Ticks(g)
  BY <1>2, EntQueues DEF Restart, Fire, Ticks
<1>3. CASE Return(g)
  BY <1>3, RetQueues DEF Return, Fire, Ticks
<1>4. CASE \/ \E fn \in Callable, moved \in {0, 1} : CallUnprobed(g, fn, moved)
           \/ \E depth \in 1 .. MaxDepth : Unwind(g, depth)
           \/ ReturnUnprobed(g)
  BY <1>4 DEF CallUnprobed, Unwind, ReturnUnprobed, kernelVars, Ticks
<1>5. CASE Exit(g)
  <2>1. clock' = clock
    BY <1>5 DEF Exit
  <2>2. CASE kernelVars' = kernelVars
    BY <2>1, <2>2 DEF kernelVars, Ticks
  <2>3. CASE GoroutineExitIgnored(g)
    BY <2>1, <2>3 DEF GoroutineExitIgnored, kernelVars, Ticks
  <2>4. CASE GoroutineExitTraced(g)
    <3> DEFINE e == [goid |-> g, location |-> EXIT, ip |-> Zero, bp |-> Zero, caller_bp |-> Zero,
                     flag |-> NoFlag, sample_denominator |-> 0, time |-> 0]
    <3>1. PushEvent(e, {}) /\ e.location = EXIT
      BY <2>4 DEF GoroutineExitTraced
    <3> HIDE DEF e
    <3>2. QED
      BY <2>1, <3>1 DEF PushEvent, Ticks
  <2>5. QED
    BY <1>5, <2>2, <2>3, <2>4 DEF Exit, GoroutineExit
<1>6. QED
  BY <1>1, <1>2, <1>3, <1>4, <1>5 DEF TargetStep

-----------------------------------------------------------------------------
(* Events are handled in the order of their times. *)

\* Positions of the call events of g that are still in the queue.
Coming(g) == {k \in 1 .. Len(queue) : queue[k].goid = g /\ queue[k].location # EXIT}

\* They are in order, and later than what the manager knows of g; so is the next hit.
QueueInOrder ==
    \A g \in Goroutines : \A k \in Coming(g) :
        /\ queue[k].time <= clock[g]
        /\ Before(g, queue[k].time)
        /\ \A i \in Coming(g) : i < k => queue[i].time < queue[k].time

ClockAhead == \A g \in Goroutines : Before(g, clock[g] + 1)

\* Nothing is handled any more once the rest has been printed, which leaves the stacks.
TimesInv ==
    /\ ManagerTypeOK /\ OneSink /\ ReportsDistinct
    /\ phase # "done" => HeldInOrder /\ QueueInOrder /\ ClockAhead

\* One sink, whose calls share no entry and no return: nothing is counted twice.
LEMMA TimesInvIsEnough == TimesInv => NothingCountedTwice
<1> SUFFICES ASSUME TimesInv PROVE NothingCountedTwice
  OBVIOUS
<1> SUFFICES ASSUME NEW p \in Pids
             PROVE  Distinct(agg[p] \o printed)
                      /\ \A i \in 1 .. Len(agg[p]) : PidOf[agg[p][i].goid] = p
  BY DEF NothingCountedTwice, Distinct
<1>1. agg[p] \in Seq(PairedCall) /\ printed \in Seq(PairedCall)
  BY DEF TimesInv, ManagerTypeOK
<1>2. \A q \in Seq(PairedCall) : <<>> \o q = q /\ q \o <<>> = q
  OBVIOUS
<1>3. agg[p] = <<>> \/ printed = <<>>
  BY DEF TimesInv, OneSink
<1>4. agg[p] \o printed \in {agg[p], printed}
  BY <1>1, <1>2, <1>3
<1>5. QED
  BY <1>4 DEF TimesInv, ReportsDistinct

\* What happened before t happened before any later time.
LEMMA BeforeLater ==
    ASSUME ManagerTypeOK, NEW g \in Goroutines, NEW t \in Nat, NEW u \in Nat, t <= u, Before(g, t)
    PROVE  Before(g, u)
<1>1. \A i \in 1 .. Len(goEvents[g]) : goEvents[g][i].time \in Nat
  <2>1. goEvents[g] \in Seq(CallEvent)
    BY DEF ManagerTypeOK
  <2>2. \A i \in 1 .. Len(goEvents[g]) : goEvents[g][i] \in CallEvent
    BY <2>1
  <2>3. QED
    BY <2>2, EventFields DEF CallEvent
<1>2. \A x \in Ends(g) : x \in Nat
  BY EndsType
<1>3. QED
  BY <1>1, <1>2 DEF Before

\* The types of the queue and the clocks.
LEMMA QueueFacts ==
    ASSUME ProbesTypeOK
    PROVE  /\ queue \in Seq(Event) /\ Len(queue) \in Nat
           /\ \A k \in 1 .. Len(queue) : queue[k] \in Event /\ queue[k].time \in Nat
           /\ clock \in [Goroutines -> Nat]
<1>1. queue \in Seq(Event) /\ clock \in [Goroutines -> Nat]
  BY DEF ProbesTypeOK
<1>2. \A k \in 1 .. Len(queue) : queue[k] \in Event
  BY <1>1
<1>3. QED
  BY <1>1, <1>2, EventFields

\* A step of the program leaves the manager alone.
LEMMA TargetInOrder ==
    ASSUME ProbesTypeOK, ManagerTypeOK, QueueInOrder, ClockAhead,
           NEW g \in Goroutines, Ticks(g), UNCHANGED managerVars
    PROVE  QueueInOrder' /\ ClockAhead'
<1>1. \A h, t : Before(h, t)' <=> Before(h, t)
  BY DEF managerVars, stackVars, Before, Ends, Reported
<1>2. /\ clock \in [Goroutines -> Nat] /\ queue \in Seq(Event) /\ Len(queue) \in Nat
      /\ \A k \in 1 .. Len(queue) : queue[k].time \in Nat
  BY QueueFacts
<1>3. /\ \A h \in Goroutines : clock'[h] \in {clock[h], clock[h] + 1} /\ clock[h] \in Nat
      /\ \A h \in Goroutines \ {g} : clock'[h] = clock[h]
  BY <1>2 DEF Ticks
<1>4. ClockAhead'
  <2> SUFFICES ASSUME NEW h \in Goroutines PROVE Before(h, clock'[h] + 1)
    BY <1>1 DEF ClockAhead
  <2>1. Before(h, clock[h] + 1) /\ clock[h] + 1 \in Nat /\ clock'[h] + 1 \in Nat
        /\ clock[h] + 1 <= clock'[h] + 1
    BY <1>3 DEF ClockAhead
  <2>2. QED
    BY <2>1, BeforeLater
<1> DEFINE InPlace(q, h, k) ==
      /\ q[k].time <= clock'[h]
      /\ Before(h, q[k].time)
      /\ \A i \in 1 .. Len(q) :
            q[i].goid = h /\ q[i].location # EXIT /\ i < k => q[i].time < q[k].time
<1>5. ASSUME NEW h \in Goroutines, NEW k \in 1 .. Len(queue),
             queue[k].goid = h, queue[k].location # EXIT
      PROVE  InPlace(queue, h, k)
  BY <1>2, <1>3, <1>5 DEF QueueInOrder, Coming
<1>6. ASSUME NEW h \in Goroutines, NEW k \in 1 .. Len(queue'),
             queue'[k].goid = h, queue'[k].location # EXIT
      PROVE  InPlace(queue', h, k)
  <2>1. CASE queue' = queue
    BY <1>5, <1>6, <2>1
  <2>2. ASSUME NEW e, queue' = Append(queue, e),
               \/ e.location = EXIT
               \/ e.goid = g /\ e.time = clock'[g] /\ clock'[g] = clock[g] + 1
        PROVE  InPlace(queue', h, k)
    <3> DEFINE q == queue'
    <3>1. /\ Len(q) = Len(queue) + 1 /\ q[Len(queue) + 1] = e
          /\ \A i \in 1 .. Len(queue) : q[i] = queue[i]
      BY <1>2, <2>2
    <3>2. q[k].goid = h /\ q[k].location # EXIT /\ k \in 1 .. Len(q)
      BY <1>6
    <3> HIDE DEF q
    <3>3. CASE k \in 1 .. Len(queue)
      <4>1. InPlace(queue, h, k)
        BY <1>5, <3>1, <3>2, <3>3
      <4>2. \A i \in 1 .. Len(q) : i < k => i \in 1 .. Len(queue)
        BY <1>2, <3>1, <3>3
      <4>3. InPlace(q, h, k)
        BY <3>1, <3>3, <4>1, <4>2
      <4>4. QED
        BY <4>3 DEF q
    <3>4. CASE k = Len(queue) + 1
      <4>1. q[k].time = clock[g] + 1 /\ clock'[g] = clock[g] + 1 /\ h = g
        BY <2>2, <3>1, <3>2, <3>4
      <4>2. Before(h, q[k].time) /\ q[k].time <= clock'[h]
        BY <1>3, <4>1 DEF ClockAhead
      <4>3. ASSUME NEW i \in 1 .. Len(q), q[i].goid = h, q[i].location # EXIT, i < k
            PROVE  q[i].time < q[k].time
        <5>1. i \in 1 .. Len(queue) /\ q[i] = queue[i]
          BY <1>2, <3>1, <3>4, <4>3
        <5>2. queue[i].time <= clock[g] /\ queue[i].time \in Nat
          BY <1>2, <4>1, <4>3, <5>1 DEF QueueInOrder, Coming
        <5>3. QED
          BY <1>3, <4>1, <5>1, <5>2
      <4>4. InPlace(q, h, k)
        BY <4>2, <4>3
      <4>5. QED
        BY <4>4 DEF q
    <3>5. QED
      BY <1>2, <3>1, <3>2, <3>3, <3>4
  <2>3. QED
    <3>1. CASE clock' = [clock EXCEPT ![g] = @ + 1] /\ queue' # queue
      <4>1. clock'[g] = clock[g] + 1
        BY <1>2, <3>1
      <4>2. PICK e : queue' = Append(queue, e) /\ e.goid = g
                     /\ (e.location # EXIT => e.time = clock'[g])
        BY <3>1, <1>2 DEF Ticks, Queues
      <4>3. QED
        BY <2>2, <4>1, <4>2
    <3>2. CASE \E e : queue' = Append(queue, e) /\ e.location = EXIT
      BY <2>2, <3>2
    <3>3. QED
      BY <2>1, <3>1, <3>2 DEF Ticks
<1>7. QueueInOrder'
  BY <1>1, <1>6 DEF QueueInOrder, Coming
<1>8. QED
  BY <1>4, <1>7

\* The oldest event of the queue is handled.
LEMMA DeliverInOrder ==
    ASSUME ProbesTypeOK, TimesInv, Deliver, UNCHANGED cfg
    PROVE  TimesInv'
<1> DEFINE e == Head(queue)
<1>1. /\ phase # "done" /\ phase' = phase /\ clock' = clock
      /\ queue # <<>> /\ queue' = Tail(queue) /\ Handle(e)
  BY DEF Deliver, Dequeue, linkVars, targetVars
<1>2. /\ queue \in Seq(Event) /\ Len(queue) \in Nat \ {0} /\ clock \in [Goroutines -> Nat]
      /\ \A k \in 1 .. Len(queue) : queue[k].time \in Nat
      /\ e \in Event /\ e = queue[1] /\ 1 \in 1 .. Len(queue)
      /\ Len(queue') = Len(queue) - 1
      /\ \A k \in 1 .. Len(queue') : queue'[k] = queue[k + 1] /\ k + 1 \in 1 .. Len(queue)
  BY <1>1, QueueFacts
<1>3. OrderInv /\ QueueInOrder /\ ClockAhead
  BY <1>1 DEF TimesInv, OrderInv
<1>4. e.goid \in Goroutines
  BY <1>2, EventFields
<1> HIDE DEF e
<1>5. e.location # EXIT => Before(e.goid, e.time) /\ e.time <= clock[e.goid] /\ e.time \in Nat
  BY <1>2, <1>3, <1>4 DEF QueueInOrder, Coming
<1>6. /\ OrderInv'
      /\ \A h \in Goroutines, t \in Nat :
            Before(h, t) /\ (h = e.goid /\ e.location # EXIT => e.time < t) => Before(h, t)'
  BY <1>1, <1>2, <1>3, <1>5, HandleInOrder
<1>7. ClockAhead'
  <2> SUFFICES ASSUME NEW h \in Goroutines PROVE Before(h, clock[h] + 1)'
    BY <1>1 DEF ClockAhead
  <2>1. Before(h, clock[h] + 1) /\ clock[h] + 1 \in Nat
    BY <1>2, <1>3 DEF ClockAhead
  <2>2. h = e.goid /\ e.location # EXIT => e.time < clock[h] + 1
    BY <1>2, <1>4, <1>5
  <2>3. QED
    BY <1>1, <1>6, <2>1, <2>2
<1>8. QueueInOrder'
  <2> SUFFICES ASSUME NEW h \in Goroutines, NEW k \in Coming(h)'
               PROVE  /\ queue'[k].time <= clock'[h]
                      /\ Before(h, queue[k].time)'
                      /\ \A i \in Coming(h)' : i < k => queue'[i].time < queue'[k].time
    BY DEF QueueInOrder
  <2>1. \A i \in Coming(h)' : queue'[i] = queue[i + 1] /\ i + 1 \in Coming(h) /\ i \in Nat \ {0}
    BY <1>2 DEF Coming
  <2>2. /\ queue[k + 1].time <= clock[h] /\ Before(h, queue[k + 1].time)
        /\ \A i \in Coming(h) : i < k + 1 => queue[i].time < queue[k + 1].time
        /\ queue[k + 1].time \in Nat
    BY <1>2, <1>3, <2>1 DEF QueueInOrder, Coming
  <2>3. h = e.goid /\ e.location # EXIT => e.time < queue[k + 1].time
    <3> SUFFICES ASSUME h = e.goid, e.location # EXIT PROVE e.time < queue[k + 1].time
      OBVIOUS
    <3>1. 1 \in Coming(h) /\ 1 < k + 1
      BY <1>2, <2>1 DEF Coming
    <3>2. QED
      BY <1>2, <2>2, <3>1
  <2>4. ASSUME NEW t \in Nat, t = queue[k + 1].time PROVE Before(h, t)'
    BY <1>6, <2>2, <2>3, <2>4
  <2>5. queue'[k].time = queue[k + 1].time /\ queue'[k].time \in Nat
    BY <2>1, <2>2
  <2>6. Before(h, queue[k].time)'
    BY <2>2, <2>4, <2>5
  <2>7. \A i \in Coming(h)' : i < k => queue'[i].time < queue'[k].time
    BY <2>1, <2>2
  <2>8. QED
    BY <1>1, <2>2, <2>5, <2>6, <2>7
<1>9. QED
  BY <1>6, <1>7, <1>8 DEF TimesInv, OrderInv

\* Steps that leave the clocks, the queue and the manager alone, and do not end the session.
LEMMA QuietInOrder ==
    ASSUME TimesInv, UNCHANGED <<cfg, clock, queue, managerVars>>,
           phase' # "done" => phase # "done"
    PROVE  TimesInv'
<1>1. /\ UNCHANGED <<goEvents, agg, printed>>
      /\ ManagerTypeOK' /\ OneSink' /\ ReportsDistinct'
  BY DEF TimesInv, managerVars, stackVars, ManagerTypeOK, OneSink, ReportsDistinct, Aggregate
<1>2. \A h, t : Before(h, t)' <=> Before(h, t)
  BY <1>1 DEF Before, Ends, Reported
<1>3. HeldInOrder => HeldInOrder'
  BY <1>1 DEF HeldInOrder, Ends, Reported
<1>4. QueueInOrder => QueueInOrder'
  BY <1>2 DEF QueueInOrder, Coming
<1>5. ClockAhead => ClockAhead'
  BY <1>2 DEF ClockAhead
<1>6. QED
  BY <1>1, <1>3, <1>4, <1>5 DEF TimesInv

\* TimesInv is inductive, beside the invariant of the programs.
LEMMA TimesKept ==
    ASSUME ProbesTypeOK, TimesInv, [Next]_vars
    PROVE  TimesInv'
<1>1. CASE UNCHANGED vars
  BY <1>1, QuietInOrder DEF vars, probesVars, targetVars, kernelVars, linkVars
<1>2. ASSUME UNCHANGED cfg, NEW g \in Goroutines, RunGoroutine(g) PROVE TimesInv'
  <2>1. /\ UNCHANGED managerVars /\ phase' = phase /\ Ticks(g)
    BY <1>2, TargetTicks DEF RunGoroutine, linkVars
  <2>2. /\ UNCHANGED <<goEvents, agg, printed>>
        /\ ManagerTypeOK' /\ OneSink' /\ ReportsDistinct'
    BY <1>2, <2>1 DEF TimesInv, managerVars, stackVars, ManagerTypeOK, OneSink, ReportsDistinct,
       Aggregate
  <2>3. HeldInOrder => HeldInOrder'
    BY <2>2 DEF HeldInOrder, Ends, Reported
  <2>4. phase # "done" => QueueInOrder' /\ ClockAhead'
    BY <2>1, TargetInOrder DEF TimesInv
  <2>5. QED
    BY <2>1, <2>2, <2>3, <2>4 DEF TimesInv
<1>3. ASSUME UNCHANGED cfg, NEW p \in Pids, ReplaceProcess(p) PROVE TimesInv'
  BY <1>3, QuietInOrder DEF ReplaceProcess, Replace, kernelVars, linkVars
<1>4. ASSUME UNCHANGED cfg, Control PROVE TimesInv'
  BY <1>4, QuietInOrder DEF Control, SetSampleDenominator, Attach, Interrupt, CloseLink,
     targetVars, kernelVars, linkVars
<1>5. CASE Deliver /\ UNCHANGED cfg
  BY <1>5, DeliverInOrder
<1>6. CASE Finish /\ UNCHANGED cfg
  <2>1. OrderInv /\ PrintRemaining /\ phase' = "done"
    BY <1>6 DEF Finish, TimesInv, OrderInv
  <2>2. OneSink' /\ ReportsDistinct' /\ ManagerTypeOK'
    BY <1>6, <2>1, RemainingInOrder, PrintRemainingType DEF TimesInv
  <2>3. QED
    BY <2>1, <2>2 DEF TimesInv
<1>7. QED
  BY <1>1, <1>2, <1>3, <1>4, <1>5, <1>6 DEF Next

\* Nothing has happened at the start.
LEMMA TimesStart == Init => TimesInv
<1> SUFFICES ASSUME Init PROVE TimesInv
  OBVIOUS
<1>1. ManagerTypeOK
  BY ManagerTypeStarts DEF Init
<1>2. printed = <<>> /\ \A p \in Pids : agg[p] = <<>>
  BY DEF Init, ManagerInit
<1>3. queue = <<>> /\ \A g \in Goroutines : goEvents[g] = <<>>
  BY DEF Init, ManagerInit, ProbesInit
<1> DEFINE empty == <<>>
<1>4. Len(empty) = 0 /\ ToSet(empty) = {}
  BY DEF ToSet
<1>5. /\ printed = empty /\ \A p \in Pids : agg[p] = empty
      /\ queue = empty /\ \A g \in Goroutines : goEvents[g] = empty
  BY <1>2, <1>3
<1> HIDE DEF empty
<1>6. OneSink
  BY <1>2 DEF OneSink
<1>7. Distinct(empty)
  BY <1>4 DEF Distinct
<1>8. ReportsDistinct
  BY <1>4, <1>5, <1>7 DEF ReportsDistinct
<1>9. \A g : Ends(g) = {}
  BY <1>4, <1>5 DEF Ends, Reported
<1>10. HeldInOrder
  BY <1>4, <1>5 DEF HeldInOrder, Ordered
<1>11. QueueInOrder
  BY <1>4, <1>5 DEF QueueInOrder, Coming
<1>12. ClockAhead
  BY <1>4, <1>5, <1>9 DEF ClockAhead, Before
<1>13. QED
  BY <1>1, <1>6, <1>8, <1>10, <1>11, <1>12 DEF TimesInv

\* Whatever the queue loses and whatever the programs miss: no entry and no return counts
\* in two reported calls, no latency is negative, and a call is aggregated for its own
\* process.
THEOREM NothingCountedTwiceCorrect == Spec => []NothingCountedTwice
<1>1. DepthInv => ProbesTypeOK
  BY DEF DepthInv
<1>2. ProbesTypeOK /\ TimesInv /\ [Next]_vars => TimesInv'
  BY TimesKept
<1>3. QED
  BY <1>1, <1>2, TimesStart, TimesInvIsEnough, PipelineDepthInvariant, PTL DEF Spec

-----------------------------------------------------------------------------
(* What the programs send for a goroutine *)

\* The queue takes the event in or drops it.
Pushes(e) == queue' = Append(queue, e) \/ stats'["dropped_events"] > 0

\* A full queue counts what it drops.
LEMMA PushSends ==
    ASSUME KernelTypeOK, NEW e, NEW counted, PushEvent(e, counted)
    PROVE  Pushes(e)
<1>1. "dropped_events" \in StatNames /\ stats["dropped_events"] \in Nat
  BY DEF KernelTypeOK, StatNames
<1>2. CASE Len(queue) < QueueCap
  BY <1>2 DEF PushEvent, Pushes
<1>3. CASE ~(Len(queue) < QueueCap)
  <2>1. stats' = Count(stats, counted \cup {"dropped_events"})
    BY <1>3 DEF PushEvent
  <2>2. stats'["dropped_events"] = stats["dropped_events"] + 1
    BY <1>1, <2>1 DEF Count
  <2>3. QED
    BY <1>1, <2>2 DEF Pushes
<1>4. QED
  BY <1>2, <1>3

\* The event of an entry of fn.
EntryOf(e, g, fn, bp, caller_bp) ==
    /\ e \in SentCall /\ e.goid = g /\ e.location = ENT /\ e.ip = fn
    /\ e.bp = bp /\ e.caller_bp = caller_bp /\ e.time = clock'[g]

\* What becomes of an entry: nothing, a new sample, the end of the sample at the event
\* limit, or one event more of it.
EntSends(g, fn, bp, caller_bp) ==
    \/ state[g] = NoState /\ UNCHANGED <<state, queue, since>>
    \/ \E e : /\ EntryOf(e, g, fn, bp, caller_bp) /\ Pushes(e)
              /\ state[g] = NoState /\ state'[g] # NoState /\ since'[g] = clock'[g]
              /\ e.flag = IF Adaptive THEN START ELSE NoFlag
              /\ e.sample_denominator = denominator
              /\ state'[g].sample_denominator = denominator
    \/ \E e : /\ EntryOf(e, g, fn, bp, caller_bp) /\ Pushes(e)
              /\ state[g] # NoState /\ state'[g] = NoState /\ since'[g] = 0
              /\ Adaptive /\ state[g].event_count >= MaxSampleEvents /\ e.flag = ABORT
    \/ \E e : /\ EntryOf(e, g, fn, bp, caller_bp) /\ Pushes(e)
              /\ state[g] # NoState /\ state'[g] # NoState /\ since'[g] = since[g]
              /\ e.flag = NoFlag
              /\ e.sample_denominator = state[g].sample_denominator
              /\ state'[g].sample_denominator = state[g].sample_denominator

\* The event that ent sends is of the shape.
LEMMA EntryShape ==
    ASSUME NEW g \in Goroutines, NEW fn \in Functions, NEW bp \in Addresses,
           NEW caller_bp \in Addresses, clock'[g] \in Nat,
           NEW flag \in Flags \ {END}, NEW d \in Nat, NEW e,
           e = [goid |-> g, location |-> ENT, ip |-> fn, bp |-> bp, caller_bp |-> caller_bp,
                flag |-> flag, sample_denominator |-> d, time |-> clock'[g]]
    PROVE  EntryOf(e, g, fn, bp, caller_bp) /\ e.flag = flag /\ e.sample_denominator = d
<1>1. fn # Zero /\ ENT # RET /\ ENT # EXIT
  BY ScopeAssumption DEF Zero, ENT, RET, EXIT
<1>2. e \in Event
  BY <1>1 DEF Event, EventRecord
<1>3. e.location = ENT
  OBVIOUS
<1>4. e \in SentCall
  BY <1>1, <1>2, <1>3 DEF Sent, SentCall
<1>5. QED
  BY <1>4 DEF EntryOf

\* Every exit of ent.
LEMMA EntSendsOne ==
    ASSUME KernelTypeOK, NEW g \in Goroutines, NEW fn \in Functions, NEW bp \in Addresses,
           NEW caller_bp \in Addresses, clock'[g] \in Nat, Ent(g, fn, bp, caller_bp)
    PROVE  EntSends(g, fn, bp, caller_bp)
<1>0. state \in [Goroutines -> TraceState \cup {NoState}] /\ since \in [Goroutines -> Nat]
  BY DEF KernelTypeOK
<1>1. CASE EntIgnored(g, fn) \/ EntSampledOut(g, fn) \/ EntInsertFailed(g, fn)
  BY <1>1 DEF EntIgnored, EntSampledOut, EntInsertFailed, kernelVars, EntSends
<1>2. CASE EntAdmitted(g, fn, bp, caller_bp)
  <2> DEFINE flag == IF Adaptive THEN START ELSE NoFlag
             e == [goid |-> g, location |-> ENT, ip |-> fn, bp |-> bp, caller_bp |-> caller_bp,
                   flag |-> flag, sample_denominator |-> denominator, time |-> clock'[g]]
             t == [root_ip |-> fn, last_ip |-> fn, last_bp |-> bp, root_depth |-> 1,
                   event_count |-> 1, sample_denominator |-> denominator]
  <2>1. /\ PushEvent(e, {"wanted_roots", "admitted_roots"}) /\ state' = [state EXCEPT ![g] = t]
        /\ since' = [since EXCEPT ![g] = clock'[g]] /\ state[g] = NoState
    BY <1>2 DEF EntAdmitted
  <2>2. t # NoState /\ t.sample_denominator = denominator
    <3>1. t.root_ip = fn
      OBVIOUS
    <3>2. NoState.root_ip = "0"
      BY DEF NoState, Zero
    <3>3. QED
      BY <3>1, <3>2, ScopeAssumption
  <2> HIDE DEF t
  <2>3. state'[g] = t /\ since'[g] = clock'[g]
    BY <1>0, <2>1
  <2>4. flag \in Flags \ {END} /\ denominator \in Nat
    BY DEF Flags, START, END, NoFlag, KernelTypeOK
  <2> HIDE DEF e, flag
  <2>5. EntryOf(e, g, fn, bp, caller_bp) /\ e.flag = flag /\ e.sample_denominator = denominator
    BY <2>4, EntryShape DEF e
  <2>6. Pushes(e)
    BY <2>1, PushSends
  <2>7. QED
    BY <2>1, <2>2, <2>3, <2>5, <2>6 DEF EntSends, flag
<1>3. CASE EntNested(g, fn, bp, caller_bp)
  <2> DEFINE s == state[g]
             flag == IF OverLimit(s) THEN ABORT ELSE NoFlag
             d == s.sample_denominator
             e == [goid |-> g, location |-> ENT, ip |-> fn, bp |-> bp, caller_bp |-> caller_bp,
                   flag |-> flag, sample_denominator |-> d, time |-> clock'[g]]
  <2>1. state[g] # NoState /\ state[g] \in TraceState
    BY <1>3, OpenState DEF EntNested
  <2>2. PushEvent(e, IF OverLimit(s) THEN {"aborted_roots"} ELSE {})
    BY <1>3 DEF EntNested
  <2>3. flag \in Flags \ {END} /\ d \in Nat /\ s.event_count \in Nat
    BY <2>1 DEF Flags, ABORT, END, NoFlag, TraceState
  <2> HIDE DEF e, flag, d
  <2>4. EntryOf(e, g, fn, bp, caller_bp) /\ e.flag = flag /\ e.sample_denominator = d
    BY <2>3, EntryShape DEF e
  <2>5. Pushes(e)
    BY <2>2, PushSends
  <2>6. CASE OverLimit(s)
    <3>1. state'[g] = NoState /\ since'[g] = 0
      BY <1>0, <1>3, <2>6 DEF EntNested, DeleteState
    <3>2. Adaptive /\ s.event_count >= MaxSampleEvents
      BY <2>3, <2>6, ProbesAssumption DEF OverLimit
    <3>3. QED
      BY <2>1, <2>4, <2>5, <2>6, <3>1, <3>2 DEF EntSends, flag
  <2>7. CASE ~OverLimit(s)
    <3> DEFINE deeper == Adaptive /\ fn \in Wanted /\ s.root_ip = fn
                           /\ ~Duplicate(s, fn, caller_bp)
               t == [s EXCEPT !.event_count = @ + 1,
                              !.root_depth = IF deeper THEN @ + 1 ELSE @,
                              !.last_ip = fn, !.last_bp = bp]
    <3>1. state' = [state EXCEPT ![g] = t] /\ since' = since
      BY <1>3, <2>7 DEF EntNested
    <3>2. t.root_ip = s.root_ip /\ t.sample_denominator = d
      <4> HIDE DEF deeper
      <4> QED BY <2>1 DEF TraceState, d
    <3>3. t # NoState
      BY <2>1, <3>2, ScopeAssumption DEF TraceState, NoState, Zero
    <3> HIDE DEF t
    <3>4. state'[g] = t /\ since'[g] = since[g]
      BY <1>0, <3>1
    <3>5. QED
      BY <2>1, <2>4, <2>5, <2>7, <3>2, <3>3, <3>4 DEF EntSends, flag, d
  <2>8. QED
    BY <2>6, <2>7
<1>4. QED
  BY <1>1, <1>2, <1>3 DEF Ent

\* The event of a return from fn.
ReturnOf(e, g, fn) ==
    /\ e \in SentCall /\ e.goid = g /\ e.location = RET /\ e.ip = fn /\ e.time = clock'[g]

\* What becomes of a return: nothing, the end of the sample at the event limit or with
\* its root, or one event more of it.
RetSends(g, fn) ==
    \/ state[g] = NoState /\ UNCHANGED <<state, queue, since>>
    \/ \E e : /\ ReturnOf(e, g, fn) /\ Pushes(e)
              /\ state[g] # NoState /\ state'[g] = NoState /\ since'[g] = 0
              /\ Adaptive /\ state[g].event_count >= MaxSampleEvents /\ e.flag = ABORT
    \/ \E e : /\ ReturnOf(e, g, fn) /\ Pushes(e)
              /\ state[g] # NoState /\ state'[g] = NoState /\ since'[g] = 0
              /\ Adaptive /\ ~(state[g].event_count >= MaxSampleEvents)
              /\ fn = state[g].root_ip /\ ~(state[g].root_depth > 1) /\ e.flag = END
    \/ \E e : /\ ReturnOf(e, g, fn) /\ Pushes(e)
              /\ state[g] # NoState /\ state'[g] # NoState /\ since'[g] = since[g]
              /\ state'[g].sample_denominator = state[g].sample_denominator
              /\ ~(Adaptive /\ fn \in Wanted /\ fn = state[g].root_ip
                     /\ ~(state[g].root_depth > 1))
              /\ e.flag = NoFlag

\* Every exit of ret.
LEMMA RetSendsOne ==
    ASSUME KernelTypeOK, NEW g \in Goroutines, NEW fn \in Functions,
           clock'[g] \in Nat, Ret(g, fn)
    PROVE  RetSends(g, fn)
<1>0. state \in [Goroutines -> TraceState \cup {NoState}] /\ since \in [Goroutines -> Nat]
  BY DEF KernelTypeOK
<1>1. CASE RetIgnored(g)
  BY <1>1 DEF RetIgnored, kernelVars, RetSends
<1>2. CASE RetTraced(g, fn)
  <2> DEFINE s == state[g]
             rootRet == Adaptive /\ ~OverLimit(s) /\ fn \in Wanted /\ fn = s.root_ip
             ends == rootRet /\ ~(s.root_depth > 1)
             flag == IF OverLimit(s) THEN ABORT ELSE IF ends THEN END ELSE NoFlag
             d == s.sample_denominator
             e == [goid |-> g, location |-> RET, ip |-> fn, bp |-> Zero, caller_bp |-> Zero,
                   flag |-> flag, sample_denominator |-> d, time |-> clock'[g]]
             t == [s EXCEPT !.event_count = @ + 1, !.last_ip = Zero,
                            !.root_depth = IF rootRet THEN @ - 1 ELSE @]
  <2>1. state[g] # NoState /\ state[g] \in TraceState
    BY <1>2, OpenState DEF RetTraced
  <2>2. PushEvent(e, IF OverLimit(s) THEN {"aborted_roots"} ELSE {})
    BY <1>2 DEF RetTraced
  <2>3. IF OverLimit(s) \/ ends THEN DeleteState(g)
                                ELSE state' = [state EXCEPT ![g] = t] /\ since' = since
    BY <1>2 DEF RetTraced
  <2>4. OverLimit(s) <=> Adaptive /\ s.event_count >= MaxSampleEvents
    BY <2>1, ProbesAssumption DEF OverLimit, TraceState
  <2>5. flag \in Flags /\ d \in Nat
    <3> HIDE DEF ends
    <3> QED BY <2>1 DEF Flags, TraceState
  <2>6. t.root_ip = s.root_ip /\ t.sample_denominator = d
    <3> HIDE DEF rootRet
    <3> QED BY <2>1 DEF TraceState
  <2> HIDE DEF t
  <2>7. t # NoState
    BY <2>1, <2>6, ScopeAssumption DEF TraceState, NoState, Zero
  <2> HIDE DEF flag, d
  <2>8. ReturnOf(e, g, fn) /\ e.flag = flag
    <3>1. fn # Zero /\ RET # EXIT /\ Zero \in Addresses
      BY ScopeAssumption DEF Zero, RET, EXIT, Addresses
    <3>2. e \in Event
      BY <2>5, <3>1 DEF Event, EventRecord
    <3>3. e.location = RET /\ e.bp = Zero /\ e.caller_bp = Zero
      OBVIOUS
    <3>4. e \in SentCall
      BY <3>1, <3>2, <3>3 DEF Sent, SentCall
    <3>5. QED
      BY <3>4 DEF ReturnOf
  <2> HIDE DEF e
  <2>9. Pushes(e)
    BY <2>2, PushSends
  <2>10. CASE OverLimit(s)
    <3>1. state'[g] = NoState /\ since'[g] = 0 /\ flag = ABORT
      BY <1>0, <2>3, <2>10 DEF DeleteState, flag
    <3>2. QED
      BY <2>1, <2>4, <2>8, <2>9, <2>10, <3>1 DEF RetSends
  <2>11. CASE ~OverLimit(s) /\ ends
    <3>1. state'[g] = NoState /\ since'[g] = 0 /\ flag = END
      BY <1>0, <2>3, <2>11 DEF DeleteState, flag
    <3>2. QED
      BY <2>1, <2>4, <2>8, <2>9, <2>11, <3>1 DEF RetSends
  <2>12. CASE ~OverLimit(s) /\ ~ends
    <3>1. state'[g] = t /\ since'[g] = since[g] /\ flag = NoFlag
      BY <1>0, <2>3, <2>12 DEF flag
    <3>2. ~(Adaptive /\ fn \in Wanted /\ fn = s.root_ip /\ ~(s.root_depth > 1))
      BY <2>12
    <3>3. QED
      BY <2>1, <2>6, <2>7, <2>8, <2>9, <3>1, <3>2 DEF RetSends, d
  <2>13. QED
    BY <2>10, <2>11, <2>12
<1>3. QED
  BY <1>1, <1>2 DEF Ret

\* The end of a goroutine is nothing, or the end of its sample.
ExitSends(g) ==
    \/ state[g] = NoState /\ UNCHANGED <<state, queue, since>>
    \/ \E e \in Sent : /\ Pushes(e) /\ e.goid = g /\ e.location = EXIT
                       /\ state[g] # NoState /\ state'[g] = NoState /\ since'[g] = 0

\* Every exit of goroutine_exit.
LEMMA ExitSendsOne ==
    ASSUME KernelTypeOK, NEW g \in Goroutines, GoroutineExit(g)
    PROVE  ExitSends(g)
<1>1. CASE GoroutineExitIgnored(g)
  BY <1>1 DEF GoroutineExitIgnored, kernelVars, ExitSends
<1>2. CASE GoroutineExitTraced(g)
  <2> DEFINE e == [goid |-> g, location |-> EXIT, ip |-> Zero, bp |-> Zero, caller_bp |-> Zero,
                   flag |-> NoFlag, sample_denominator |-> 0, time |-> 0]
  <2>1. PushEvent(e, {}) /\ DeleteState(g) /\ state[g] # NoState
    BY <1>2 DEF GoroutineExitTraced
  <2>2. e \in Sent /\ e.goid = g /\ e.location = EXIT
    BY DEF Sent, Event, EventRecord, Addresses, Flags, NoFlag, END, ENT, RET, EXIT
  <2> HIDE DEF e
  <2>3. Pushes(e)
    BY <2>1, PushSends
  <2>4. state'[g] = NoState /\ since'[g] = 0
    BY <2>1 DEF DeleteState, KernelTypeOK
  <2>5. QED
    BY <2>1, <2>2, <2>3, <2>4 DEF ExitSends
<1>3. QED
  BY <1>1, <1>2 DEF GoroutineExit

-----------------------------------------------------------------------------
(* Calls that find their probes attached *)

\* Every frame has been entered through a probe, in the order of the stack, and one in
\* its prologue where the stack lies now.
Called(g) ==
    /\ \A i \in 1 .. Len(frames[g]) :
          /\ frames[g][i].fn \in Functions /\ frames[g][i].start > 0
          /\ \A j \in 1 .. i - 1 : frames[g][j].start < frames[g][i].start
    /\ g \in fresh => Top(g).at = moves[g]

\* Without a sample nothing is recorded.
Closed(g) == state[g] = NoState => since[g] = 0

\* While last_ip stands, the function entered last is in its prologue.
Latest(g) == Adaptive /\ Sound(g) /\ state[g].last_ip # Zero => g \in fresh

\* root_depth is exact, indirect recursion or not.
Exact(g) == Adaptive /\ Sound(g) => state[g].root_depth = Cardinality(RootFrames(g))

\* A sample that ends with its root sees stray returns only after a missed one.
Strays(g) == Adaptive /\ g \in stray => g \in unreturned

WellProbed(g) == Called(g) /\ Closed(g) /\ Latest(g) /\ Exact(g) /\ Strays(g)

\* What the types and DepthInv say of one goroutine.
LEMMA Shapes ==
    ASSUME DepthInv, NEW g \in Goroutines
    PROVE  /\ KernelTypeOK /\ TargetTypeOK /\ GoroutineInv(g)
           /\ frames[g] \in Seq(Frame) /\ Len(frames[g]) \in Nat
           /\ clock[g] \in Nat /\ since[g] \in Nat /\ moves[g] \in Nat
           /\ since[g] <= clock[g]
           /\ \A i \in 1 .. Len(frames[g]) :
                 /\ frames[g][i].start \in Nat /\ frames[g][i].at \in Nat
                 /\ frames[g][i].start <= clock[g]
           /\ frames[g] # <<>> <=> Len(frames[g]) > 0
<1>1. KernelTypeOK /\ TargetTypeOK /\ GoroutineInv(g)
  BY TypeParts DEF DepthInv
<1>2. /\ frames[g] \in Seq(Frame) /\ clock[g] \in Nat /\ since[g] \in Nat /\ moves[g] \in Nat
  BY <1>1 DEF KernelTypeOK, TargetTypeOK
<1>3. /\ \A i \in 1 .. Len(frames[g]) : frames[g][i].start \in Nat /\ frames[g][i].at \in Nat
      /\ Len(frames[g]) \in Nat
  BY <1>2, FrameTypes
<1>4. frames[g] # <<>> <=> Len(frames[g]) > 0
  BY <1>2, EmptySeqFacts
<1>5. QED
  BY <1>1, <1>2, <1>3, <1>4 DEF GoroutineInv, ClockBounds

\* Calls run while every probe is attached.
LEMMA AllAttached ==
    ASSUME EveryCallProbed, DepthInv, Running
    PROVE  attached = Points /\ phase = "tracing"
BY DEF EveryCallProbed, DepthInv, ExitLink, Running

\* A goroutine alone moves.
LEMMA TargetOnly ==
    ASSUME DepthInv, NEW g \in Goroutines, TargetStep(g), UNCHANGED <<cfg, phase, attached>>
    PROVE  Only(g) /\ DepthInv' /\ \A h \in Goroutines \ {g} : moves'[h] = moves[h]
<1>1. Only(g)
  BY CallKeeps, CallUnprobedKeeps, RestartKeeps, UnwindKeeps, ReturnKeeps,
     ReturnUnprobedKeeps, ExitKeeps DEF TargetStep
<1>2. DepthInv'
  BY TargetKeeps
<1>3. ASSUME NEW h \in Goroutines \ {g} PROVE moves'[h] = moves[h]
  <2>1. moves \in [Goroutines -> Nat]
    BY DEF DepthInv, ProbesTypeOK
  <2>2. moves' = moves \/ \E moved \in {0, 1} : moves' = [moves EXCEPT ![g] = @ + moved]
    BY DEF TargetStep, Call, CallUnprobed, Restart, Unwind, Return, ReturnUnprobed, Exit
  <2>3. QED
    BY <2>1, <2>2
<1>4. QED
  BY <1>1, <1>2, <1>3

\* The function of a frame is a probed one.
LEMMA TopProbed ==
    ASSUME DepthInv, NEW g \in Goroutines, Called(g), frames[g] # <<>>
    PROVE  Top(g).fn \in Functions /\ Len(frames[g]) \in 1 .. Len(frames[g])
<1>1. Len(frames[g]) \in Nat /\ Len(frames[g]) > 0
  BY Shapes
<1>2. QED
  BY <1>1 DEF Called, Top

\* What a goroutine can do then.
LEMMA TargetCases ==
    ASSUME EveryCallProbed, DepthInv, Running, NEW g \in Goroutines, Called(g), TargetStep(g)
    PROVE  \/ \E fn \in Functions : fn \in Callable /\ Call(g, fn)
           \/ \E moved \in {0, 1} : Restart(g, moved)
           \/ \E depth \in 1 .. MaxDepth : Unwind(g, depth)
           \/ Return(g)
           \/ Exit(g) /\ GoroutineExit(g)
<1>1. attached = Points
  BY AllAttached
<1>2. \A fn \in Functions : <<ENT, fn>> \in attached /\ <<RET, fn>> \in attached
  BY <1>1 DEF Points
<1>3. <<EXIT, Zero>> \in attached
  BY <1>1 DEF Points
<1>4. ASSUME NEW fn \in Callable, NEW moved \in {0, 1}, CallUnprobed(g, fn, moved) PROVE FALSE
  BY <1>2, <1>4 DEF CallUnprobed, EveryCallProbed
<1>5. ASSUME ReturnUnprobed(g) PROVE FALSE
  <2>1. Top(g).fn \in Functions
    BY <1>5, TopProbed DEF ReturnUnprobed
  <2>2. QED
    BY <1>2, <1>5, <2>1 DEF ReturnUnprobed
<1>6. ASSUME Exit(g) PROVE GoroutineExit(g)
  BY <1>3, <1>6 DEF Exit
<1>7. \A fn \in Callable : fn \in Functions
  BY DEF EveryCallProbed
<1>8. QED
  BY <1>4, <1>5, <1>6, <1>7 DEF TargetStep

\* An entry of fn leaves the new or restarted frame on top, at depth n.
Enters(g, fn, at, n) ==
    /\ clock'[g] = clock[g] + 1 /\ moves'[g] = at /\ g \in fresh'
    /\ Len(frames'[g]) = n
    /\ frames'[g][n] = [fn |-> fn, start |-> clock[g] + 1, at |-> at]
    /\ \A i \in 1 .. n - 1 : i \in 1 .. Len(frames[g]) /\ frames'[g][i] = frames[g][i]
    /\ alive' = alive /\ unreturned' = unreturned /\ stray' = stray
    /\ Ent(g, fn, <<at, n>>, <<at, n - 1>>)

\* A call does,
LEMMA CallEnters ==
    ASSUME DepthInv, NEW g \in Goroutines, NEW fn \in Functions, Call(g, fn)
    PROVE  Enters(g, fn, moves[g], Len(frames[g]) + 1)
<1> DEFINE n == Len(frames[g])
           f == [fn |-> fn, start |-> clock[g] + 1, at |-> moves[g]]
<1>1. /\ frames \in [Goroutines -> Seq(Frame)] /\ clock \in [Goroutines -> Nat]
      /\ clock[g] \in Nat /\ moves[g] \in Nat /\ n \in Nat
  BY Shapes DEF TargetTypeOK
<1>2. f \in Frame
  BY <1>1 DEF Frame
<1>3. frames' = [frames EXCEPT ![g] = Append(@, f)]
  BY DEF Call
<1> HIDE DEF f
<1>4. /\ Len(frames'[g]) = n + 1 /\ frames'[g][n + 1] = f
      /\ \A i \in 1 .. n : frames'[g][i] = frames[g][i]
  BY <1>1, <1>2, <1>3, Pushed
<1>5. clock'[g] = clock[g] + 1
  BY <1>1 DEF Call, Fire
<1>6. /\ moves' = moves /\ fresh' = fresh \cup {g} /\ alive' = alive
      /\ unreturned' = unreturned /\ stray' = stray
      /\ Ent(g, fn, <<moves[g], n + 1>>, <<moves[g], n>>)
  BY DEF Call
<1>7. (n + 1) - 1 = n
  BY <1>1
<1> HIDE DEF n
<1>8. Enters(g, fn, moves[g], n + 1)
  BY <1>4, <1>5, <1>6, <1>7 DEF Enters, f, n
<1>9. QED
  BY <1>8 DEF n

\* and a restart.
LEMMA RestartEnters ==
    ASSUME DepthInv, NEW g \in Goroutines, NEW moved \in {0, 1}, Restart(g, moved)
    PROVE  Enters(g, Top(g).fn, moves[g] + moved, Len(frames[g])) /\ frames[g] # <<>> /\ g \in fresh
<1> DEFINE n == Len(frames[g])
           at == moves[g] + moved
<1>1. /\ frames \in [Goroutines -> Seq(Frame)] /\ clock \in [Goroutines -> Nat]
      /\ moves \in [Goroutines -> Nat] /\ clock[g] \in Nat /\ moves[g] \in Nat /\ n \in Nat
  BY Shapes DEF TargetTypeOK
<1>2. g \in fresh /\ frames[g] # <<>>
  BY Shapes DEF GoroutineInv, FreshFrame, Restart
<1>3. RestartTop(g, clock[g] + 1, at)
  BY DEF Restart, RestartTop
<1>4. clock[g] + 1 \in Nat /\ at \in Nat
  BY <1>1
<1> HIDE DEF at
<1>5. /\ Len(frames'[g]) = n /\ n \in Nat \ {0}
      /\ \A i \in 1 .. n - 1 : frames'[g][i] = frames[g][i]
      /\ frames'[g][n] = [fn |-> Top(g).fn, start |-> clock[g] + 1, at |-> at]
  BY <1>1, <1>2, <1>3, <1>4, Restarted
<1>6. clock'[g] = clock[g] + 1 /\ moves'[g] = at
  BY <1>1 DEF Restart, Fire, at
<1>7. /\ fresh' = fresh /\ alive' = alive /\ unreturned' = unreturned /\ stray' = stray
      /\ Ent(g, Top(g).fn, <<at, n>>, <<at, n - 1>>)
  BY DEF Restart, at
<1>8. \A i \in 1 .. n - 1 : i \in 1 .. n
  BY <1>5
<1>9. Enters(g, Top(g).fn, at, n)
  BY <1>2, <1>5, <1>6, <1>7, <1>8 DEF Enters
<1>10. QED
  BY <1>2, <1>9 DEF at

\* The same after a step.
LEMMA ShapesNext ==
    ASSUME DepthInv', NEW g \in Goroutines
    PROVE  /\ KernelTypeOK' /\ TargetTypeOK' /\ GoroutineInv(g)'
           /\ frames'[g] \in Seq(Frame) /\ Len(frames'[g]) \in Nat
           /\ clock'[g] \in Nat /\ since'[g] \in Nat /\ moves'[g] \in Nat
           /\ since'[g] <= clock'[g]
           /\ \A i \in 1 .. Len(frames'[g]) :
                 /\ frames'[g][i].start \in Nat /\ frames'[g][i].at \in Nat
                 /\ frames'[g][i].start <= clock'[g]
           /\ frames'[g] # <<>> <=> Len(frames'[g]) > 0
<1>1. KernelTypeOK' /\ TargetTypeOK' /\ GoroutineInv(g)'
  BY DEF DepthInv, ProbesTypeOK, KernelTypeOK, TargetTypeOK
<1>2. /\ frames'[g] \in Seq(Frame) /\ clock'[g] \in Nat /\ since'[g] \in Nat /\ moves'[g] \in Nat
  BY <1>1 DEF KernelTypeOK, TargetTypeOK
<1>3. /\ \A i \in 1 .. Len(frames'[g]) : frames'[g][i].start \in Nat /\ frames'[g][i].at \in Nat
      /\ Len(frames'[g]) \in Nat
  BY <1>2, FrameTypes
<1>4. frames'[g] # <<>> <=> Len(frames'[g]) > 0
  BY <1>2, EmptySeqFacts
<1>5. QED
  BY <1>1, <1>2, <1>3, <1>4 DEF GoroutineInv, ClockBounds

\* An entry keeps what does not count the root calls.
LEMMA EnteredKeeps ==
    ASSUME DepthInv, NEW g \in Goroutines, WellProbed(g), cfg' = cfg,
           NEW fn \in Functions, NEW at \in Nat, NEW n \in Nat \ {0}, Enters(g, fn, at, n)
    PROVE  Called(g)' /\ Closed(g)' /\ Latest(g)' /\ Strays(g)'
<1>1. /\ KernelTypeOK /\ clock[g] \in Nat /\ since[g] \in Nat
      /\ \A i \in 1 .. Len(frames[g]) : frames[g][i].start \in Nat /\ frames[g][i].start <= clock[g]
  BY Shapes
<1>2. Called(g) /\ Closed(g) /\ Strays(g)
  BY DEF WellProbed
<1>3. /\ clock'[g] = clock[g] + 1 /\ moves'[g] = at /\ g \in fresh'
      /\ Len(frames'[g]) = n
      /\ frames'[g][n] = [fn |-> fn, start |-> clock[g] + 1, at |-> at]
      /\ \A i \in 1 .. n - 1 : i \in 1 .. Len(frames[g]) /\ frames'[g][i] = frames[g][i]
      /\ unreturned' = unreturned /\ stray' = stray
      /\ Ent(g, fn, <<at, n>>, <<at, n - 1>>)
  BY DEF Enters
<1>4. ASSUME NEW i \in 1 .. n
      PROVE  /\ frames'[g][i].fn \in Functions /\ frames'[g][i].start > 0
             /\ \A j \in 1 .. i - 1 : frames'[g][j].start < frames'[g][i].start
  <2>1. CASE i = n
    <3>1. frames'[g][i].fn = fn /\ frames'[g][i].start = clock[g] + 1
      BY <1>3, <2>1
    <3>2. ASSUME NEW j \in 1 .. n - 1 PROVE frames'[g][j].start < clock[g] + 1
      <4>1. j \in 1 .. Len(frames[g]) /\ frames'[g][j] = frames[g][j]
        BY <1>3
      <4>2. frames[g][j].start \in Nat /\ frames[g][j].start <= clock[g]
        BY <1>1, <4>1
      <4>3. QED
        BY <1>1, <4>1, <4>2
    <3>3. QED
      BY <1>1, <2>1, <3>1, <3>2
  <2>2. CASE i # n
    <3>1. i \in 1 .. n - 1 /\ \A j \in 1 .. i - 1 : j \in 1 .. n - 1
      BY <2>2
    <3>2. QED
      BY <1>2, <1>3, <3>1 DEF Called
  <2>3. QED
    BY <2>1, <2>2
<1>5. Called(g)'
  BY <1>3, <1>4 DEF Called, Top
<1>6. Closed(g)'
  <2>1. <<at, n>> \in Addresses /\ <<at, n - 1>> \in Addresses /\ clock'[g] \in Nat
    BY <1>1, <1>3 DEF Addresses
  <2>2. EntSends(g, fn, <<at, n>>, <<at, n - 1>>)
    BY <1>1, <1>3, <2>1, EntSendsOne
  <2>3. QED
    BY <1>2, <2>2 DEF EntSends, Closed
<1>7. Latest(g)' /\ Strays(g)'
  BY <1>2, <1>3 DEF Latest, Strays, Adaptive
<1>8. QED
  BY <1>5, <1>6, <1>7

\* The depth is exact when a sample is admitted.
LEMMA AdmittedExact ==
    ASSUME DepthInv, DepthInv', NEW g \in Goroutines,
           NEW fn \in Functions, NEW at, NEW n \in Nat \ {0}, Enters(g, fn, at, n),
           state[g] = NoState, state'[g] # NoState
    PROVE  Exact(g)'
<1>1. /\ KernelTypeOK /\ ClockBounds(g) /\ frames \in [Goroutines -> Seq(Frame)]
      /\ clock \in [Goroutines -> Nat]
  BY Shapes DEF TargetTypeOK, GoroutineInv
<1>2. since' \in [Goroutines -> Nat] /\ frames' \in [Goroutines -> Seq(Frame)]
  BY ShapesNext DEF KernelTypeOK, TargetTypeOK
<1>3. /\ clock'[g] = clock[g] + 1 /\ Len(frames'[g]) = n
      /\ frames'[g][n] = [fn |-> fn, start |-> clock[g] + 1, at |-> at]
      /\ \A i \in 1 .. n - 1 : i \in 1 .. Len(frames[g]) /\ frames'[g][i] = frames[g][i]
      /\ Ent(g, fn, <<at, n>>, <<at, n - 1>>)
  BY DEF Enters
<1>4. EntEffect(g, fn, <<at, n>>, <<at, n - 1>>)
  BY <1>1, <1>3, EntDoes
<1>5. /\ state'[g].root_ip = fn /\ state'[g].root_depth = 1 /\ since'[g] = clock[g] + 1
  BY <1>3, <1>4 DEF EntEffect
<1>6. \A i \in 1 .. Len(frames'[g]) - 1 : i <= Len(frames[g]) /\ frames'[g][i] = frames[g][i]
  BY <1>3
<1>7. /\ frames'[g][Len(frames'[g])].start = clock[g] + 1
      /\ frames'[g][Len(frames'[g])].fn = state'[g].root_ip /\ Len(frames'[g]) > 0
  BY <1>3, <1>5
<1>8. Cardinality(RootFrames(g)') = 1
  BY <1>1, <1>2, <1>5, <1>6, <1>7, AdmittedDepth
<1>9. QED
  BY <1>5, <1>8 DEF Exact

\* A nested call that counts is counted, and no other.
LEMMA CallExact ==
    ASSUME DepthInv, NEW g \in Goroutines, WellProbed(g), cfg' = cfg,
           NEW fn \in Functions, Call(g, fn), state[g] # NoState, state'[g] # NoState
    PROVE  Exact(g)'
<1> DEFINE n == Len(frames[g])
           bp == <<moves[g], n + 1>>
           caller_bp == <<moves[g], n>>
<1>1. SUFFICES ASSUME Adaptive, Sound(g)'
               PROVE  state'[g].root_depth = Cardinality(RootFrames(g)')
  BY DEF Exact, Adaptive
<1>2. /\ KernelTypeOK /\ frames \in [Goroutines -> Seq(Frame)] /\ n \in Nat
      /\ clock[g] \in Nat /\ since[g] \in Nat /\ since[g] <= clock[g]
      /\ Opened(g) /\ Seen(g) /\ FreshFrame(g)
      /\ frames[g] # <<>> <=> n > 0
  BY Shapes DEF TargetTypeOK, GoroutineInv, SampleInv
<1>3. Enters(g, fn, moves[g], n + 1)
  BY CallEnters
<1>4. /\ Len(frames'[g]) = n + 1 /\ n + 1 - 1 = n
      /\ frames'[g][n + 1] = [fn |-> fn, start |-> clock[g] + 1, at |-> moves[g]]
      /\ \A i \in 1 .. n : frames'[g][i] = frames[g][i]
      /\ unreturned' = unreturned /\ stray' = stray
  BY <1>2, <1>3 DEF Enters
<1>5. Ent(g, fn, bp, caller_bp)
  BY <1>2, <1>3, <1>4 DEF Enters
<1>6. Sound(g) /\ Called(g) /\ Latest(g) /\ Exact(g)
  BY <1>1, <1>4 DEF Sound, WellProbed
<1>7. state[g].last_ip = fn => state[g].last_bp = caller_bp
  <2>1. SUFFICES ASSUME state[g].last_ip = fn PROVE state[g].last_bp = caller_bp
    OBVIOUS
  <2>2. fn # Zero
    BY ScopeAssumption DEF Zero
  <2>3. g \in fresh
    BY <1>1, <1>6, <2>1, <2>2 DEF Latest
  <2>4. n \in 1 .. n
    BY <1>2, <2>3 DEF FreshFrame
  <2>5. Top(g).start # 0 /\ Top(g).at = moves[g]
    BY <1>6, <2>3, <2>4 DEF Called, Top
  <2>6. QED
    BY <1>2, <2>3, <2>5 DEF Seen
<1>8. EntEffect(g, fn, bp, caller_bp)
  BY <1>2, <1>5, EntDoes
<1>9. /\ since'[g] = since[g] /\ state'[g].root_ip = state[g].root_ip
      /\ state'[g].root_depth = IF Adaptive /\ fn \in Wanted /\ state[g].root_ip = fn
                                   /\ ~Duplicate(state[g], fn, caller_bp)
                                  THEN state[g].root_depth + 1 ELSE state[g].root_depth
  BY <1>8 DEF EntEffect
<1>10. state'[g].root_depth = IF state[g].root_ip = fn
                                THEN state[g].root_depth + 1 ELSE state[g].root_depth
  BY <1>1, <1>2, <1>7, <1>9 DEF Duplicate, Opened
<1>11. /\ n + 1 \notin RootFrames(g)
       /\ RootFrames(g)' =
            IF /\ since[g] # 0 /\ frames'[g][n + 1].start >= since[g]
               /\ frames'[g][n + 1].fn = state[g].root_ip
              THEN RootFrames(g) \cup {n + 1} ELSE RootFrames(g)
  BY <1>2, <1>4, <1>9, RootPushed
<1>12. since[g] # 0 /\ frames'[g][n + 1].start >= since[g] /\ frames'[g][n + 1].fn = fn
  BY <1>2, <1>4 DEF Opened
<1>13. IsFiniteSet(RootFrames(g)) /\ Cardinality(RootFrames(g)) \in Nat
  BY <1>2, RootsFinite
<1>14. Cardinality(RootFrames(g) \cup {n + 1}) = Cardinality(RootFrames(g)) + 1
  BY <1>11, <1>13, FS_AddElement
<1>15. state[g].root_depth = Cardinality(RootFrames(g))
  BY <1>1, <1>6 DEF Exact
<1>16. QED
  BY <1>10, <1>11, <1>12, <1>14, <1>15

\* A restarted entry in a sample is recognised.
LEMMA RestartExact ==
    ASSUME DepthInv, NEW g \in Goroutines, WellProbed(g), cfg' = cfg,
           NEW moved \in {0, 1}, Restart(g, moved), state[g] # NoState, state'[g] # NoState
    PROVE  Exact(g)'
<1> DEFINE n == Len(frames[g])
           fn == Top(g).fn
           at == moves[g] + moved
           caller_bp == <<at, n - 1>>
<1>1. SUFFICES ASSUME Adaptive, Sound(g)'
               PROVE  state'[g].root_depth = Cardinality(RootFrames(g)')
  BY DEF Exact, Adaptive
<1>2. /\ KernelTypeOK /\ n \in Nat
      /\ clock[g] \in Nat /\ since[g] \in Nat /\ since[g] <= clock[g]
      /\ Opened(g) /\ Seen(g)
      /\ frames[g] # <<>> <=> n > 0
  BY Shapes DEF TargetTypeOK, GoroutineInv, SampleInv
<1>3. Enters(g, fn, at, n) /\ frames[g] # <<>> /\ g \in fresh
  BY RestartEnters
<1>4. /\ Len(frames'[g]) = n
      /\ frames'[g][n] = [fn |-> fn, start |-> clock[g] + 1, at |-> at]
      /\ \A i \in 1 .. n - 1 : frames'[g][i] = frames[g][i]
      /\ unreturned' = unreturned /\ stray' = stray
      /\ Ent(g, fn, <<at, n>>, caller_bp)
  BY <1>3 DEF Enters
<1>5. Sound(g) /\ Called(g) /\ Exact(g)
  BY <1>1, <1>4 DEF Sound, WellProbed
<1>6. fn \in Functions /\ n \in 1 .. n
  BY <1>3, <1>5, TopProbed
<1>7. Top(g).start # 0
  BY <1>5, <1>6 DEF Called, Top
<1>8. /\ state[g].last_ip = fn /\ state[g].last_bp = <<Top(g).at, n>> /\ Top(g).start >= since[g]
  BY <1>2, <1>3, <1>7 DEF Seen
<1>9. Duplicate(state[g], fn, caller_bp)
  BY <1>2, <1>8 DEF Duplicate
<1>10. EntEffect(g, fn, <<at, n>>, caller_bp)
  <2> HIDE DEF at, n, fn
  <2> QED BY <1>2, <1>4, <1>6, EntDoes
<1>11. /\ since'[g] = since[g] /\ state'[g].root_ip = state[g].root_ip
       /\ state'[g].root_depth = state[g].root_depth
  BY <1>9, <1>10 DEF EntEffect
<1>12. RootFrames(g)' = RootFrames(g)
  <2>1. frames'[g][n].fn = frames[g][n].fn /\ frames'[g][n].start >= since[g]
    BY <1>2, <1>4 DEF Top
  <2>2. frames[g][n].start >= since[g]
    BY <1>8 DEF Top
  <2>3. \A i \in 1 .. n : frames'[g][i].fn = frames[g][i].fn
                          /\ (frames'[g][i].start >= since[g] <=> frames[g][i].start >= since[g])
    BY <1>2, <1>4, <2>1, <2>2
  <2>4. QED
    BY <1>4, <1>11, <2>3 DEF RootFrames, Recorded
<1>13. QED
  BY <1>1, <1>5, <1>11, <1>12 DEF Exact

\* What lies on a recorded frame has been recorded.
LEMMA RecordedAbove ==
    ASSUME DepthInv, NEW g \in Goroutines, Called(g), NEW i \in Recorded(g),
           NEW j \in i .. Len(frames[g])
    PROVE  j \in Recorded(g) /\ Len(frames[g]) \in Recorded(g)
<1>1. /\ Len(frames[g]) \in Nat /\ since[g] \in Nat
      /\ \A k \in 1 .. Len(frames[g]) : frames[g][k].start \in Nat
  BY Shapes
<1>2. i \in 1 .. Len(frames[g]) /\ since[g] # 0 /\ frames[g][i].start >= since[g]
  BY DEF Recorded
<1>3. ASSUME NEW k \in i .. Len(frames[g]) PROVE k \in Recorded(g)
  <2>1. k \in 1 .. Len(frames[g])
    BY <1>1, <1>2
  <2>2. i = k \/ i \in 1 .. k - 1
    BY <1>1, <1>2
  <2>3. frames[g][i].start < frames[g][k].start \/ i = k
    BY <2>1, <2>2 DEF Called
  <2>4. frames[g][k].start >= since[g]
    BY <1>1, <1>2, <2>1, <2>3
  <2>5. QED
    BY <1>2, <2>1, <2>4 DEF Recorded
<1>4. QED
  BY <1>1, <1>2, <1>3

\* With --sample, a sample has a recorded frame, and so the one on top is.
LEMMA SampledTop ==
    ASSUME DepthInv, NEW g \in Goroutines, Called(g), Adaptive, Sound(g)
    PROVE  Len(frames[g]) \in Recorded(g)
<1>1. KernelTypeOK /\ SampleInv(g)
  BY Shapes DEF GoroutineInv
<1>2. PICK i \in RootFrames(g) : TRUE
  BY <1>1, SampleHasRoot
<1>3. i \in Recorded(g) /\ i \in 1 .. Len(frames[g]) /\ Len(frames[g]) \in Nat
  BY <1>2, Shapes DEF RootFrames, Recorded
<1>4. Len(frames[g]) \in i .. Len(frames[g])
  BY <1>3
<1>5. QED
  BY <1>3, <1>4, RecordedAbove

\* What is left of a stack was entered as before.
LEMMA CalledBelow ==
    ASSUME DepthInv, NEW g \in Goroutines, Called(g), NEW depth \in 0 .. Len(frames[g]),
           Len(frames'[g]) = depth, \A i \in 1 .. depth : frames'[g][i] = frames[g][i],
           g \notin fresh'
    PROVE  Called(g)'
<1>1. Len(frames[g]) \in Nat
  BY Shapes
<1>2. \A i \in 1 .. depth : i \in 1 .. Len(frames[g]) /\ \A j \in 1 .. i - 1 : j \in 1 .. depth
  BY <1>1
<1>3. QED
  BY <1>2 DEF Called

\* A return takes the top frame away.
LEMMA ReturnLeaves ==
    ASSUME DepthInv, NEW g \in Goroutines, Called(g), Return(g)
    PROVE  /\ Top(g).fn \in Functions /\ Len(frames[g]) \in 1 .. Len(frames[g])
           /\ Len(frames[g]) - 1 \in 0 .. Len(frames[g])
           /\ Len(frames'[g]) = Len(frames[g]) - 1
           /\ \A i \in 1 .. Len(frames[g]) - 1 : frames'[g][i] = frames[g][i]
           /\ clock'[g] = clock[g] + 1 /\ moves' = moves /\ alive' = alive /\ g \in alive
           /\ g \notin fresh' /\ unreturned' = unreturned
           /\ stray' = IF state[g] # NoState /\ Len(frames[g]) \notin Recorded(g)
                         THEN stray \cup {g} ELSE stray
           /\ Ret(g, Top(g).fn)
<1>1. frames[g] # <<>> /\ PopTo(g, Len(frames[g]) - 1)
  BY DEF Return
<1>2. /\ frames \in [Goroutines -> Seq(Frame)] /\ clock \in [Goroutines -> Nat]
      /\ Len(frames[g]) \in Nat /\ Len(frames[g]) > 0
  BY <1>1, Shapes DEF TargetTypeOK
<1>3. Len(frames[g]) - 1 \in 0 .. Len(frames[g])
  BY <1>2
<1>4. /\ Len(frames'[g]) = Len(frames[g]) - 1
      /\ \A i \in 1 .. Len(frames[g]) - 1 : frames'[g][i] = frames[g][i]
  BY <1>1, <1>2, <1>3, Popped
<1>5. clock'[g] = clock[g] + 1
  BY <1>2 DEF Return, Fire
<1>6. QED
  BY <1>1, <1>3, <1>4, <1>5, TopProbed DEF Return

\* A return of a frame of the root is counted, and no other.
LEMMA ReturnExact ==
    ASSUME DepthInv, NEW g \in Goroutines, WellProbed(g), cfg' = cfg, Return(g)
    PROVE  Exact(g)'
<1> DEFINE n == Len(frames[g])
           fn == Top(g).fn
<1>1. SUFFICES ASSUME Adaptive, Sound(g)'
               PROVE  state'[g].root_depth = Cardinality(RootFrames(g)')
  BY DEF Exact, Adaptive
<1>2. KernelTypeOK /\ frames \in [Goroutines -> Seq(Frame)] /\ Opened(g) /\ n \in Nat
  BY Shapes DEF TargetTypeOK, GoroutineInv, SampleInv
<1>3. Called(g) /\ Exact(g)
  BY DEF WellProbed
<1>4. /\ fn \in Functions /\ n \in 1 .. n /\ n - 1 \in 0 .. n /\ Len(frames'[g]) = n - 1
      /\ \A i \in 1 .. n - 1 : frames'[g][i] = frames[g][i]
      /\ unreturned' = unreturned
      /\ stray' = IF state[g] # NoState /\ n \notin Recorded(g) THEN stray \cup {g} ELSE stray
      /\ Ret(g, fn)
  BY <1>3, ReturnLeaves
<1>5. RetEffect(g, fn)
  <2> HIDE DEF fn
  <2> QED BY <1>2, <1>4, RetDoes
<1>6. /\ state[g] # NoState /\ since'[g] = since[g] /\ state'[g].root_ip = state[g].root_ip
      /\ IF Adaptive /\ fn \in Wanted /\ fn = state[g].root_ip
            THEN state[g].root_depth > 1 /\ state'[g].root_depth = state[g].root_depth - 1
            ELSE state'[g].root_depth = state[g].root_depth
  BY <1>1, <1>5 DEF RetEffect, Sound
<1>7. Sound(g) /\ n \in Recorded(g)
  BY <1>1, <1>4, <1>6 DEF Sound
<1>8. state[g].root_depth = Cardinality(RootFrames(g))
  BY <1>1, <1>3, <1>7 DEF Exact
<1>9. state[g].root_ip \in Wanted
  BY <1>2, <1>6 DEF Opened
<1>10. RootFrames(g)' = RootFrames(g) \cap (1 .. n - 1)
  BY <1>2, <1>4, <1>6, RootPopped
<1>11. IsFiniteSet(RootFrames(g)) /\ Cardinality(RootFrames(g)) \in Nat
  BY <1>2, RootsFinite
<1>12. RootFrames(g) \subseteq 1 .. n
  BY DEF RootFrames, Recorded
<1>13. RootFrames(g)' = RootFrames(g) \ {n}
  BY <1>2, <1>10, <1>12
<1>14. n \in RootFrames(g) <=> fn = state[g].root_ip
  BY <1>7 DEF RootFrames, Top
<1>15. CASE fn = state[g].root_ip
  <2>1. Cardinality(RootFrames(g) \ {n}) = Cardinality(RootFrames(g)) - 1
    BY <1>11, <1>14, <1>15, FS_RemoveElement
  <2>2. QED
    BY <1>1, <1>6, <1>8, <1>9, <1>13, <1>15, <2>1
<1>16. CASE fn # state[g].root_ip
  <2>1. RootFrames(g)' = RootFrames(g)
    BY <1>13, <1>14, <1>16
  <2>2. QED
    BY <1>6, <1>8, <1>16, <2>1
<1>17. QED
  BY <1>15, <1>16

\* A return does,
LEMMA ReturnProbed ==
    ASSUME DepthInv, NEW g \in Goroutines, WellProbed(g), cfg' = cfg, DepthInv', Return(g)
    PROVE  WellProbed(g)'
<1> DEFINE n == Len(frames[g])
           fn == Top(g).fn
<1>1. KernelTypeOK /\ Called(g) /\ Closed(g) /\ Strays(g) /\ clock'[g] \in Nat
  BY Shapes, ShapesNext DEF WellProbed
<1>2. /\ fn \in Functions /\ n - 1 \in 0 .. n /\ Len(frames'[g]) = n - 1
      /\ \A i \in 1 .. n - 1 : frames'[g][i] = frames[g][i]
      /\ unreturned' = unreturned /\ g \notin fresh'
      /\ stray' = IF state[g] # NoState /\ n \notin Recorded(g) THEN stray \cup {g} ELSE stray
      /\ Ret(g, fn)
  BY <1>1, ReturnLeaves
<1>3. Called(g)'
  BY <1>1, <1>2, CalledBelow
<1>4. RetSends(g, fn) /\ RetEffect(g, fn)
  <2> HIDE DEF fn
  <2> QED BY <1>1, <1>2, RetDoes, RetSendsOne
<1>5. Closed(g)'
  BY <1>1, <1>4 DEF RetSends, Closed
<1>6. Latest(g)'
  BY <1>4 DEF RetEffect, Latest, Sound
<1>7. Strays(g)'
  <2>1. SUFFICES ASSUME Adaptive, g \in stray', g \notin unreturned PROVE FALSE
    BY <1>2 DEF Strays, Adaptive
  <2>2. g \notin stray /\ state[g] # NoState /\ n \notin Recorded(g)
    BY <1>1, <1>2, <2>1 DEF Strays
  <2>3. QED
    BY <1>1, <2>1, <2>2, SampledTop DEF Sound
<1>8. QED
  BY <1>3, <1>5, <1>6, <1>7, ReturnExact DEF WellProbed

\* and so does a recovered panic, after which a sample of --sample misses a return.
LEMMA UnwindProbed ==
    ASSUME DepthInv, NEW g \in Goroutines, WellProbed(g), cfg' = cfg,
           NEW depth \in 1 .. MaxDepth, Unwind(g, depth)
    PROVE  WellProbed(g)'
<1>1. /\ frames \in [Goroutines -> Seq(Frame)] /\ Len(frames[g]) \in Nat
      /\ Called(g) /\ Closed(g) /\ Strays(g)
      /\ unreturned \subseteq Goroutines
  BY Shapes DEF WellProbed, TargetTypeOK
<1>2. /\ PopTo(g, depth) /\ fresh' = fresh \ {g} /\ Missed(g, depth) /\ stray' = stray
      /\ state' = state /\ since' = since /\ depth \in 0 .. Len(frames[g])
      /\ depth < Len(frames[g])
  BY <1>1, ProbesAssumption DEF Unwind, kernelVars
<1>3. /\ Len(frames'[g]) = depth /\ \A i \in 1 .. depth : frames'[g][i] = frames[g][i]
  BY <1>1, <1>2, Popped
<1>4. unreturned \subseteq unreturned'
  BY <1>2 DEF Missed
<1>5. Adaptive => ~Sound(g)'
  <2>1. SUFFICES ASSUME Adaptive, Sound(g)' PROVE FALSE
    OBVIOUS
  <2>2. Sound(g)
    BY <1>2, <1>4, <2>1 DEF Sound
  <2>3. Len(frames[g]) \in Recorded(g)
    BY <1>1, <2>1, <2>2, SampledTop
  <2>4. QED
    BY <1>2, <2>1, <2>3 DEF Missed, Sound
<1>6. Called(g)'
  BY <1>1, <1>2, <1>3, CalledBelow
<1>7. QED
  BY <1>1, <1>2, <1>4, <1>5, <1>6 DEF WellProbed, Closed, Latest, Exact, Strays, Adaptive

\* the end of a goroutine,
LEMMA ExitProbed ==
    ASSUME DepthInv, NEW g \in Goroutines, WellProbed(g), cfg' = cfg,
           Exit(g), GoroutineExit(g)
    PROVE  WellProbed(g)'
<1>1. KernelTypeOK /\ Called(g) /\ Closed(g) /\ Strays(g)
  BY Shapes DEF WellProbed
<1>2. /\ frames' = frames /\ fresh' = fresh \ {g} /\ stray' = stray
      /\ unreturned \subseteq unreturned'
  BY DEF Exit, Missed
<1>3. state'[g] = NoState
  BY <1>1, ExitDoes
<1>4. ExitSends(g)
  BY <1>1, ExitSendsOne
<1>5. Called(g)'
  BY <1>1, <1>2 DEF Called
<1>6. Closed(g)'
  BY <1>1, <1>4 DEF ExitSends, Closed
<1>7. QED
  BY <1>1, <1>2, <1>3, <1>5, <1>6 DEF WellProbed, Latest, Exact, Strays, Sound, Adaptive

\* and the end of its process.
LEMMA ReplaceProbed ==
    ASSUME DepthInv, NEW p \in Pids, Replace(p), NEW g \in Goroutines, PidOf[g] = p,
           WellProbed(g), cfg' = cfg
    PROVE  WellProbed(g)' /\ frames'[g] = <<>>
<1>1. /\ frames'[g] = <<>> /\ g \notin fresh' /\ stray' = stray /\ state' = state /\ since' = since
      /\ unreturned \subseteq unreturned' /\ (state[g] # NoState => g \in unreturned')
  BY DEF Replace, Tracked, kernelVars
<1>2. Len(frames'[g]) = 0
  BY <1>1
<1>3. QED
  BY <1>1, <1>2 DEF WellProbed, Called, Closed, Latest, Exact, Strays, Sound, Adaptive

\* Nobody else's samples are touched.
LEMMA SameProbed ==
    ASSUME NEW h, WellProbed(h), cfg' = cfg,
           frames'[h] = frames[h], moves'[h] = moves[h], state'[h] = state[h],
           since'[h] = since[h], h \in fresh' <=> h \in fresh,
           h \in unreturned' <=> h \in unreturned, h \in stray' <=> h \in stray
    PROVE  WellProbed(h)'
<1>1. RootFrames(h)' = RootFrames(h)
  BY DEF RootFrames, Recorded
<1>2. QED
  BY <1>1 DEF WellProbed, Called, Closed, Latest, Exact, Strays, Sound, Adaptive, Top

\* Every step of a goroutine keeps what its probes have seen.
LEMMA TargetProbed ==
    ASSUME EveryCallProbed, DepthInv, Running, NEW g \in Goroutines,
           TargetStep(g), UNCHANGED <<cfg, phase, attached>>,
           \A h \in Goroutines : WellProbed(h)
    PROVE  \A h \in Goroutines : WellProbed(h)'
<1>1. Only(g) /\ DepthInv' /\ \A h \in Goroutines \ {g} : moves'[h] = moves[h]
  BY TargetOnly
<1>2. \A h \in Goroutines \ {g} : WellProbed(h)'
  BY <1>1, SameProbed DEF Only
<1>3. Called(g) /\ WellProbed(g) /\ cfg' = cfg
  BY DEF WellProbed
<1>4. ASSUME NEW fn \in Functions, Call(g, fn) PROVE WellProbed(g)'
  <2>1. Len(frames[g]) + 1 \in Nat \ {0} /\ Enters(g, fn, moves[g], Len(frames[g]) + 1)
        /\ moves[g] \in Nat
    BY <1>4, Shapes, CallEnters
  <2>2. Called(g)' /\ Closed(g)' /\ Latest(g)' /\ Strays(g)'
    BY <1>3, <2>1, EnteredKeeps
  <2>3. Exact(g)'
    <3>1. CASE state'[g] = NoState
      BY <3>1 DEF Exact, Sound
    <3>2. CASE state'[g] # NoState /\ state[g] = NoState
      BY <1>1, <2>1, <3>2, AdmittedExact
    <3>3. CASE state'[g] # NoState /\ state[g] # NoState
      BY <1>3, <1>4, <3>3, CallExact
    <3>4. QED
      BY <3>1, <3>2, <3>3
  <2>4. QED
    BY <2>2, <2>3 DEF WellProbed
<1>5. ASSUME NEW moved \in {0, 1}, Restart(g, moved) PROVE WellProbed(g)'
  <2>1. /\ Enters(g, Top(g).fn, moves[g] + moved, Len(frames[g])) /\ frames[g] # <<>>
    BY <1>5, RestartEnters
  <2>2. Len(frames[g]) \in Nat \ {0} /\ moves[g] + moved \in Nat /\ Top(g).fn \in Functions
    BY <1>3, <2>1, Shapes, TopProbed
  <2>3. Called(g)' /\ Closed(g)' /\ Latest(g)' /\ Strays(g)'
    BY <1>3, <2>1, <2>2, EnteredKeeps
  <2>4. Exact(g)'
    <3>1. CASE state'[g] = NoState
      BY <3>1 DEF Exact, Sound
    <3>2. CASE state'[g] # NoState /\ state[g] = NoState
      BY <1>1, <2>1, <2>2, <3>2, AdmittedExact
    <3>3. CASE state'[g] # NoState /\ state[g] # NoState
      BY <1>3, <1>5, <3>3, RestartExact
    <3>4. QED
      BY <3>1, <3>2, <3>3
  <2>5. QED
    BY <2>3, <2>4 DEF WellProbed
<1>6. WellProbed(g)'
  BY <1>1, <1>3, <1>4, <1>5, TargetCases, ReturnProbed, UnwindProbed, ExitProbed
<1>7. QED
  BY <1>2, <1>6
=============================================================================
