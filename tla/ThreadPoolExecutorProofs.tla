---------------------- MODULE ThreadPoolExecutorProofs ----------------------
(***************************************************************************)
(* Theorems about ThreadPoolExecutor, for any finite set of workers, any   *)
(* sequence of calls and any IntMax.                                       *)
(***************************************************************************)
EXTENDS ThreadPoolExecutor, TLAPS, FiniteSetTheorems

-----------------------------------------------------------------------------
(* Type correctness. *)

\* A worker inside fn knows whose fn it is.
RunningJob == \A w \in Workers : pc[w] = "running" => job[w] \in Calls

TypeInv == TypeOK /\ RunningJob

\* Calls are numbered with natural numbers and have natural sizes; an int
\* stays an int when it is incremented.
LEMMA ConstantTypes ==
    /\ Calls \subseteq Nat \ {0} /\ NoFn \notin Calls
    /\ \A k \in Calls : Sizes[k] \in Nat /\ Sizes[k] <= IntMax
    /\ 0 \in Ints
    /\ \A n \in Ints : Increment(n) \in Ints
<1>1. Len(Sizes) \in Nat /\ \A k \in Calls : Sizes[k] \in Nat
  BY SizesAssumption DEF Calls
<1>2. Calls \subseteq Nat \ {0} /\ NoFn \notin Calls
  BY <1>1 DEF Calls, NoFn
<1>3. \A k \in Calls : Sizes[k] \in Nat /\ Sizes[k] <= IntMax
  BY <1>1, IntAssumption DEF Calls
<1>4. 0 \in Ints /\ \A n \in Ints : Increment(n) \in Ints
  BY IntAssumption DEF Ints, Increment
<1> QED
  BY <1>2, <1>3, <1>4

LEMMA TypeInit == Init => TypeInv
<1> SUFFICES ASSUME Init PROVE TypeInv
  OBVIOUS
<1>1. TypeOK
  <2>1. /\ pc \in [Workers -> {"wait", "asleep", "fetch", "compare", "call", "running",
                               "catch", "sub", "last", "exited"}]
        /\ item \in [Workers -> Ints] /\ job \in [Workers -> {NoFn} \cup Calls]
        /\ results \in [Calls -> {"pending", "ok", "error", "rejected"}]
    BY ConstantTypes DEF Init
  <2>2. next_ \in Ints /\ remaining_ \in Int /\ end_ \in Nat
    BY ConstantTypes DEF Init
  <2> QED
    BY <2>1, <2>2 DEF Init, TypeOK
<1>2. RunningJob
  BY DEF Init, RunningJob
<1> QED
  BY <1>1, <1>2 DEF TypeInv

LEMMA TypeStep == TypeInv /\ [Next]_vars => TypeInv'
<1> SUFFICES ASSUME TypeInv, [Next]_vars PROVE TypeInv'
  OBVIOUS
<1> USE DEF TypeInv
<1>1. CASE InlineCall
  <2>1. TypeOK'
    <3> DEFINE k == call + 1
    <3>1. k \in Calls /\ Sizes[k] \in Nat
      BY <1>1, ConstantTypes DEF InlineCall
    <3>2. PICK m \in 0..Sizes[k] :
            /\ started' = started \cup {<<k, i>> : i \in 0..(Sizes[k] - 1) \cap 0..m}
            /\ threw' = IF m < Sizes[k] THEN threw \cup {k} ELSE threw
            /\ results' = [results EXCEPT ![k] = IF m < Sizes[k] THEN "error" ELSE "ok"]
      BY <1>1 DEF InlineCall
    <3>3. started' \in SUBSET PairType
      BY <3>1, <3>2 DEF TypeOK, PairType
    <3>4. threw' \in SUBSET Calls
      BY <3>1, <3>2 DEF TypeOK
    <3>5. results' \in [Calls -> {"pending", "ok", "error", "rejected"}]
      BY <3>2 DEF TypeOK
    <3> QED
      BY <1>1, <3>1, <3>3, <3>4, <3>5 DEF InlineCall, TypeOK, pool
  <2>2. RunningJob'
    BY <1>1 DEF InlineCall, RunningJob
  <2> QED
    BY <2>1, <2>2
<1>2. CASE RejectCall
  BY <1>2, ConstantTypes DEF RejectCall, TypeOK, RunningJob, pool, history
<1>3. CASE InstallBatch
  <2>1. call + 1 \in Calls /\ Sizes[call + 1] \in Nat
    BY <1>3, ConstantTypes DEF InstallBatch
  <2>2. end_' \in Nat /\ remaining_' \in Int /\ next_' \in Ints
    BY <1>3, <2>1, ConstantTypes DEF InstallBatch
  <2> QED
    BY <1>3, <2>1, <2>2 DEF InstallBatch, TypeOK, RunningJob, history
<1>4. CASE NotifyBatch
  BY <1>4 DEF NotifyBatch, NotifyWorkers, TypeOK, RunningJob, pool, history
<1>5. CASE CallerSleep
  BY <1>5 DEF CallerSleep, TypeOK, RunningJob, pool, history
<1>6. CASE CallerReturn
  BY <1>6 DEF CallerReturn, TypeOK, RunningJob, history
<1>7. CASE DestroyStop
  BY <1>7 DEF DestroyStop, TypeOK, RunningJob, history
<1>8. CASE DestroyNotify
  BY <1>8 DEF DestroyNotify, NotifyWorkers, TypeOK, RunningJob, pool, history
<1>9. CASE DestroyJoin
  BY <1>9 DEF DestroyJoin, TypeOK, RunningJob, pool, history
<1>10. ASSUME NEW w \in Workers, WorkerStep(w) PROVE TypeInv'
  <2>1. CASE WorkerExit(w)
    BY <2>1 DEF WorkerExit, Goto, TypeOK, RunningJob, pool, history
  <2>2. CASE WorkerEnter(w)
    BY <2>2 DEF WorkerEnter, Goto, TypeOK, RunningJob, pool, history
  <2>3. CASE WorkerSleep(w)
    BY <2>3 DEF WorkerSleep, Goto, TypeOK, RunningJob, pool, history
  <2>4. CASE Fetch(w)
    BY <2>4, ConstantTypes DEF Fetch, Goto, TypeOK, RunningJob, history
  <2>5. CASE CompareDone(w)
    BY <2>5 DEF CompareDone, Goto, TypeOK, RunningJob, pool, history
  <2>6. CASE CompareTake(w)
    BY <2>6 DEF CompareTake, Goto, TypeOK, RunningJob, pool, history
  <2>7. CASE Invoke(w)
    <3>1. <<fn_, item[w]>> \in PairType
      BY <2>7 DEF Invoke, TypeOK, PairType, Ints
    <3>2. started' \in SUBSET PairType /\ repeated' \in SUBSET PairType
      BY <2>7, <3>1 DEF Invoke, TypeOK
    <3>3. /\ pc' \in [Workers -> {"wait", "asleep", "fetch", "compare", "call", "running",
                                  "catch", "sub", "last", "exited"}]
          /\ job' \in [Workers -> {NoFn} \cup Calls]
      BY <2>7 DEF Invoke, Goto, TypeOK
    <3>4. TypeOK'
      BY <2>7, <3>2, <3>3 DEF Invoke, TypeOK, pool
    <3>5. RunningJob'
      BY <2>7 DEF Invoke, Goto, TypeOK, RunningJob
    <3> QED
      BY <3>4, <3>5
  <2>8. CASE InvokeEmpty(w)
    BY <2>8 DEF InvokeEmpty, Goto, TypeOK, RunningJob, pool, history
  <2>9. CASE TaskReturn(w)
    BY <2>9 DEF TaskReturn, Goto, TypeOK, RunningJob, pool, history
  <2>10. CASE TaskThrow(w)
    BY <2>10 DEF TaskThrow, Goto, TypeOK, RunningJob, pool
  <2>11. CASE CatchError(w)
    BY <2>11 DEF CatchError, Goto, TypeOK, RunningJob, history
  <2>12. CASE CountOff(w)
    <3>1. <<job[w], item[w]>> \in ({NoFn} \cup Calls) \X Int
      BY DEF TypeOK, Ints
    <3>2. finished' \in SUBSET (({NoFn} \cup Calls) \X Int)
      BY <2>12, <3>1 DEF CountOff, TypeOK
    <3> QED
      BY <2>12, <3>2 DEF CountOff, Goto, TypeOK, RunningJob
  <2>13. CASE LastWorker(w)
    BY <2>13 DEF LastWorker, NotifyWorkers, TypeOK, RunningJob, history
  <2> QED
    BY <1>10, <2>1, <2>2, <2>3, <2>4, <2>5, <2>6, <2>7, <2>8, <2>9, <2>10, <2>11,
       <2>12, <2>13 DEF WorkerStep
<1>11. CASE SpuriousWake
  BY <1>11 DEF SpuriousWake, Goto, TypeOK, RunningJob, pool, history
<1>12. CASE Terminated \/ UNCHANGED vars
  BY <1>12 DEF Terminated, vars, TypeOK, RunningJob, pool, history
<1> QED
  BY <1>1, <1>2, <1>3, <1>4, <1>5, <1>6, <1>7, <1>8, <1>9, <1>10, <1>11, <1>12
  DEF Next, CallerStep

\* The variables keep their types: a worker that calls fn always has a call to
\* its name, and next_ stays an int however many workers go on fetching after
\* the last item (runtime.cpp:145-178).
THEOREM TypeCorrect == Spec => []TypeOK
<1>1. TypeInv => TypeOK
  BY DEF TypeInv
<1> QED
  BY <1>1, TypeInit, TypeStep, PTL DEF Spec

-----------------------------------------------------------------------------
(* The safety invariants.  They hold until a number goes astray; TPLateClaim *)
(* shows what an item gone astray does.                                      *)

\* A worker is in fn, or has taken an item that it will pass to fn.
InFn(w) == pc[w] \in {"running", "catch", "sub"}
Claims(w) == InFn(w) \/ pc[w] = "call" \/ (pc[w] = "compare" /\ item[w] < end_)
Unfinished == {i \in 0..(end_ - 1) : <<call, i>> \notin finished}

\* The shared variables describe the batch of the current call, or no batch.
BatchInv ==
    /\ Busy => /\ call \in Calls /\ Pooled(call)
               /\ fn_ = call /\ end_ = Sizes[call]
               /\ remaining_ = Cardinality(Unfinished)
               /\ results[call] = "pending"
    /\ ~Busy => remaining_ = 0 /\ ~has_work_

CounterInv ==
    /\ next_ \in 0..IntMax /\ end_ <= IntMax
    /\ ~Busy => next_ >= end_

\* Every claim is of an item of the current batch, and no two are of the same.
ClaimInv ==
    /\ \A w \in Workers : Claims(w) =>
         /\ Busy /\ item[w] \in 0..(end_ - 1) /\ item[w] < next_
         /\ ~InFn(w) => <<call, item[w]>> \notin started
         /\ InFn(w) => /\ job[w] = call
                       /\ <<call, item[w]>> \in started \ finished
    /\ \A v, w \in Workers : Claims(v) /\ Claims(w) /\ v # w => item[v] # item[w]

HistoryInv ==
    /\ repeated = {} /\ finished \subseteq started
    /\ \A k \in Calls, i \in Int : <<k, i>> \in started => k <= call
    /\ Busy => \A i \in Int : <<call, i>> \in started => i < next_

\* A late worker compares against the size of some pooled call made so far.
LateInv ==
    /\ end_ = 0 => \A w \in Workers : pc[w] \in {"wait", "asleep", "exited"}
    /\ end_ # 0 => \E j \in Calls : j <= call /\ Pooled(j) /\ end_ = Sizes[j]

ResultInv ==
    \A k \in Calls :
        /\ k > call => results[k] = "pending" /\ k \notin threw
        /\ results[k] # "rejected"
        /\ Pooled(k) /\ Returned(k) => \A i \in 0..(Sizes[k] - 1) : <<k, i>> \in finished
        /\ Returned(k) => (results[k] = "error" <=> k \in threw)

\* The current call has thrown iff its error is recorded or being caught.
ErrorInv ==
    Busy => (call \in threw <=> first_error_ \/ \E w \in Workers : pc[w] = "catch")

SafetyInv ==
    /\ TypeInv /\ BatchInv /\ CounterInv /\ ClaimInv
    /\ HistoryInv /\ LateInv /\ ResultInv /\ ErrorInv

-----------------------------------------------------------------------------
(* Lemmas about the items of the batch. *)

LEMMA UnfinishedFinite ==
    ASSUME TypeInv
    PROVE  /\ IsFiniteSet(Unfinished)
           /\ Cardinality(Unfinished) \in Nat
           /\ Cardinality(Unfinished) = 0 <=> Unfinished = {}
<1>1. IsFiniteSet(0..(end_ - 1))
  BY FS_Interval DEF TypeInv, TypeOK
<1>2. IsFiniteSet(Unfinished)
  BY <1>1, FS_Subset DEF Unfinished
<1> QED
  BY <1>2, FS_CardinalityType, FS_EmptySet

\* An item somebody has claimed is not counted off, so the batch is not over.
LEMMA ClaimUnfinished ==
    ASSUME SafetyInv, NEW w \in Workers, Claims(w)
    PROVE  Busy /\ item[w] \in Unfinished /\ remaining_ # 0
<1>1. Busy /\ item[w] \in 0..(end_ - 1) /\ <<call, item[w]>> \notin finished
  BY DEF SafetyInv, ClaimInv, HistoryInv
<1>2. item[w] \in Unfinished
  BY <1>1 DEF Unfinished
<1>3. remaining_ # 0
  BY <1>1, <1>2, UnfinishedFinite DEF SafetyInv, BatchInv
<1> QED
  BY <1>1, <1>2, <1>3

\* When every item is counted off, every item was fetched.
LEMMA AllFetched ==
    ASSUME SafetyInv, Busy, remaining_ = 0
    PROVE  /\ \A i \in 0..(end_ - 1) : <<call, i>> \in finished
           /\ next_ >= end_
           /\ \A w \in Workers : ~Claims(w)
<1>1. Unfinished = {}
  BY UnfinishedFinite DEF SafetyInv, BatchInv
<1>2. \A i \in 0..(end_ - 1) : <<call, i>> \in finished
  BY <1>1 DEF Unfinished
<1>3. next_ >= end_
  <2>1. CASE end_ = 0
    BY <2>1 DEF SafetyInv, CounterInv
  <2>2. CASE end_ # 0
    <3>1. end_ \in Nat /\ end_ - 1 \in 0..(end_ - 1)
      BY <2>2 DEF SafetyInv, TypeInv, TypeOK
    <3>2. <<call, end_ - 1>> \in started
      BY <1>2, <3>1 DEF SafetyInv, HistoryInv
    <3>3. end_ - 1 < next_
      BY <3>1, <3>2 DEF SafetyInv, HistoryInv
    <3> QED
      BY <3>1, <3>3 DEF SafetyInv, CounterInv, TypeInv, TypeOK, Ints
  <2> QED
    BY <2>1, <2>2
<1> QED
  BY <1>2, <1>3, ClaimUnfinished

-----------------------------------------------------------------------------
(* The invariant is inductive. *)

LEMMA SafetyInit == Init => SafetyInv
<1> SUFFICES ASSUME Init PROVE SafetyInv
  OBVIOUS
<1>1. ~Busy /\ \A w \in Workers : pc[w] = "wait" /\ ~Claims(w)
  BY DEF Init, Busy, Claims, InFn
<1>2. BatchInv /\ CounterInv /\ ErrorInv
  BY <1>1, IntAssumption DEF Init, BatchInv, CounterInv, ErrorInv
<1>3. ClaimInv /\ HistoryInv /\ LateInv
  BY <1>1 DEF Init, ClaimInv, HistoryInv, LateInv
<1>4. ResultInv
  BY DEF Init, ResultInv, Returned
<1> QED
  BY <1>2, <1>3, <1>4, TypeInit DEF SafetyInv

\* A step that leaves the batch alone and makes no new claim.
LEMMA QuietStep ==
    ASSUME SafetyInv, TypeInv', UNCHANGED <<item, job, call, next_, remaining_, end_, fn_,
                                          first_error_, history, results>>,
           Busy' <=> Busy, has_work_' => has_work_,
           \A w \in Workers :
             /\ (pc'[w] = "catch") = (pc[w] = "catch")
             /\ pc'[w] # pc[w] => /\ pc[w] \notin {"running", "catch", "sub", "call"}
                                 /\ pc'[w] \notin {"running", "catch", "sub", "call", "compare"}
             /\ end_ = 0 => pc'[w] \in {"wait", "asleep", "exited"}
    PROVE  SafetyInv'
<1>1. \A w \in Workers : /\ Claims(w)' => Claims(w)
                         /\ Claims(w)' => (InFn(w)' <=> InFn(w))
  BY DEF Claims, InFn
<1>2. BatchInv'
  <2>1. Unfinished' = Unfinished
    BY DEF Unfinished, history
  <2>2. (Pooled(call))' <=> Pooled(call)
    BY DEF Pooled, Inline
  <2> QED
    BY <2>1, <2>2 DEF SafetyInv, BatchInv
<1>3. CounterInv'
  BY DEF SafetyInv, CounterInv
<1>4. ClaimInv'
  BY <1>1 DEF SafetyInv, ClaimInv, history
<1>5. HistoryInv' /\ LateInv'
  BY DEF SafetyInv, HistoryInv, LateInv, history
<1>6. ResultInv'
  BY DEF SafetyInv, ResultInv, Returned, history
<1>7. ErrorInv'
  BY DEF SafetyInv, ErrorInv, history
<1> QED
  BY <1>2, <1>3, <1>4, <1>5, <1>6, <1>7 DEF SafetyInv

LEMMA SafetyStep ==
    ASSUME SafetyInv, [Next]_vars, ~astray'
    PROVE  SafetyInv'
<1>0. TypeInv /\ TypeInv'
  BY TypeStep DEF SafetyInv
<1>1. CASE InlineCall
  <2> DEFINE k == call + 1
  <2>1. ~Busy /\ ~Busy' /\ k \in Calls /\ ~Pooled(k) /\ call' = k /\ call \in Nat
    BY <1>0, <1>1, ConstantTypes DEF InlineCall, Busy, Pooled, TypeInv, TypeOK
  <2>2. PICK m \in 0..Sizes[k] :
          /\ started' = started \cup {<<k, i>> : i \in 0..(Sizes[k] - 1) \cap 0..m}
          /\ threw' = IF m < Sizes[k] THEN threw \cup {k} ELSE threw
          /\ results' = [results EXCEPT ![k] = IF m < Sizes[k] THEN "error" ELSE "ok"]
    BY <1>1 DEF InlineCall
  <2>3. \A w \in Workers : ~Claims(w) /\ ~(Claims(w))'
    BY <1>1, <2>1 DEF InlineCall, SafetyInv, ClaimInv, Claims, InFn, pool
  <2>4. BatchInv' /\ CounterInv' /\ ErrorInv'
    BY <1>1, <2>1 DEF InlineCall, SafetyInv, BatchInv, CounterInv, ErrorInv, pool
  <2>5. ClaimInv'
    BY <2>3 DEF ClaimInv
  <2>6. HistoryInv'
    <3>1. \A j \in Calls, i \in Int : <<j, i>> \in started' => <<j, i>> \in started \/ j = k
      BY <2>2
    <3>2. repeated' = {} /\ finished' \subseteq started'
      BY <1>1, <2>2 DEF InlineCall, SafetyInv, HistoryInv
    <3>3. \A j \in Calls, i \in Int : <<j, i>> \in started' => j <= call'
      BY <2>1, <3>1, ConstantTypes DEF SafetyInv, HistoryInv
    <3> QED
      BY <2>1, <3>2, <3>3 DEF HistoryInv
  <2>7. LateInv'
    BY <1>1, <2>1, ConstantTypes DEF InlineCall, SafetyInv, LateInv, pool, Pooled, Inline
  <2>8. ResultInv'
    BY <1>0, <1>1, <2>1, <2>2, ConstantTypes
    DEF InlineCall, SafetyInv, ResultInv, Returned, TypeInv, TypeOK, Pooled, Inline
  <2> QED
    BY <1>0, <2>4, <2>5, <2>6, <2>7, <2>8 DEF SafetyInv
<1>2. CASE RejectCall
  BY <1>2 DEF RejectCall, SafetyInv, BatchInv, Busy
<1>3. CASE InstallBatch
  <2> DEFINE k == call + 1
  <2>1. ~Busy /\ Busy' /\ k \in Calls /\ Pooled(k) /\ Sizes[k] \in Nat /\ Sizes[k] > 1
        /\ Sizes[k] <= IntMax
    BY <1>3, ConstantTypes DEF InstallBatch, Busy, Pooled, Inline
  <2>2. call \in Nat /\ call' = k /\ fn_' = k /\ end_' = Sizes[k] /\ next_' = 0
        /\ remaining_' = Sizes[k] /\ first_error_' = FALSE
    BY <1>0, <1>3, ConstantTypes DEF InstallBatch, TypeInv, TypeOK
  <2>3. \A i \in Int : <<k, i>> \notin started /\ <<k, i>> \notin finished
    BY <2>1, <2>2 DEF SafetyInv, HistoryInv
  <2>4. \A w \in Workers : pc[w] = "compare" => item[w] >= Sizes[k]
    <3>1. SUFFICES ASSUME NEW w \in Workers, pc[w] = "compare" PROVE item[w] >= Sizes[k]
      OBVIOUS
    <3>2. Sizes[k] \in Nat /\ item[w] \in Int
      BY <1>0, <2>1 DEF TypeInv, TypeOK, Ints
    <3>3. ~(item[w] < Sizes[k])
      BY <1>3, <3>1 DEF InstallBatch
    <3> QED
      BY <3>2, <3>3
  <2>5. \A w \in Workers : ~Claims(w) /\ ~(Claims(w))'
    <3>1. SUFFICES ASSUME NEW w \in Workers PROVE ~Claims(w) /\ ~(Claims(w))'
      OBVIOUS
    <3>2. ~Claims(w)
      BY <2>1 DEF SafetyInv, ClaimInv
    <3>3. pc' = pc /\ item' = item /\ item[w] \in Int
      BY <1>0, <1>3 DEF InstallBatch, TypeInv, TypeOK, Ints
    <3> QED
      BY <2>1, <2>2, <2>4, <3>2, <3>3 DEF Claims, InFn
  <2>6. Cardinality(Unfinished') = Sizes[k]
    <3>1. Unfinished' = 0..(Sizes[k] - 1)
      BY <1>3, <2>2, <2>3 DEF Unfinished, InstallBatch, history
    <3> QED
      BY <2>1, <3>1, FS_Interval
  <2>7. BatchInv'
    <3>1. results'[k] = "pending"
      BY <1>3, <2>1, <2>2 DEF InstallBatch, SafetyInv, ResultInv
    <3>2. Pooled(call')
      BY <2>1, <2>2
    <3> QED
      BY <2>1, <2>2, <2>6, <3>1, <3>2 DEF BatchInv, Pooled, Inline
  <2>8. CounterInv'
    BY <2>1, <2>2, IntAssumption DEF CounterInv
  <2>9. ClaimInv'
    BY <2>5 DEF ClaimInv
  <2>10. HistoryInv'
    <3>1. started' = started /\ finished' = finished /\ repeated' = repeated
      BY <1>3 DEF InstallBatch, history
    <3>2. \A j \in Calls, i \in Int : <<j, i>> \in started' => j <= call'
      BY <2>2, <3>1, ConstantTypes DEF SafetyInv, HistoryInv
    <3> QED
      BY <2>2, <2>3, <3>1, <3>2 DEF SafetyInv, HistoryInv
  <2>11. LateInv'
    BY <2>1, <2>2 DEF LateInv, Pooled, Inline
  <2>12. ResultInv'
    BY <1>3, <2>2, ConstantTypes DEF InstallBatch, SafetyInv, ResultInv, Returned, history, Pooled, Inline
  <2>13. ErrorInv'
    <3>1. call' \notin threw'
      BY <1>3, <2>1, <2>2 DEF InstallBatch, SafetyInv, ResultInv, history
    <3>2. \A w \in Workers : pc'[w] # "catch"
      BY <2>5 DEF Claims, InFn
    <3> QED
      BY <2>2, <3>1, <3>2 DEF ErrorInv
  <2> QED
    BY <1>0, <2>7, <2>8, <2>9, <2>10, <2>11, <2>12, <2>13 DEF SafetyInv
<1>4. CASE NotifyBatch
  <2>1. \A w \in Workers : pc'[w] = IF pc[w] = "asleep" THEN "wait" ELSE pc[w]
    BY <1>4 DEF NotifyBatch, NotifyWorkers
  <2>2. Busy' /\ Busy
    BY <1>4 DEF NotifyBatch, Busy
  <2> QED
    BY <1>0, <1>4, <2>1, <2>2, QuietStep DEF NotifyBatch, pool, SafetyInv, LateInv
<1>5. CASE CallerSleep
  <2>1. Busy' /\ Busy
    BY <1>5 DEF CallerSleep, Busy
  <2> QED
    BY <1>0, <1>5, <2>1, QuietStep DEF CallerSleep, pool, SafetyInv, LateInv
<1>6. CASE CallerReturn
  <2>1. Busy /\ ~Busy' /\ remaining_ = 0 /\ call \in Calls /\ end_ = Sizes[call]
    BY <1>6 DEF CallerReturn, Busy, SafetyInv, BatchInv
  <2>2. /\ \A i \in 0..(end_ - 1) : <<call, i>> \in finished
        /\ next_ >= end_
        /\ \A w \in Workers : ~Claims(w)
    BY <2>1, AllFetched
  <2>3. \A w \in Workers : ~(Claims(w))'
    BY <1>6, <2>2 DEF CallerReturn, Claims, InFn
  <2>4. BatchInv' /\ CounterInv' /\ ErrorInv'
    BY <1>6, <2>1, <2>2 DEF CallerReturn, SafetyInv, BatchInv, CounterInv, ErrorInv
  <2>5. ClaimInv'
    BY <2>3 DEF ClaimInv
  <2>6. HistoryInv' /\ LateInv'
    BY <1>6, <2>1 DEF CallerReturn, SafetyInv, HistoryInv, LateInv, history, Pooled, Inline
  <2>7. ResultInv'
    <3>1. call \in threw <=> first_error_
      BY <2>1, <2>2 DEF SafetyInv, ErrorInv, Claims, InFn
    <3>2. results' = [results EXCEPT ![call] = IF first_error_ THEN "error" ELSE "ok"]
          /\ call' = call /\ threw' = threw /\ finished' = finished
      BY <1>6 DEF CallerReturn, history
    <3>3. results \in [Calls -> {"pending", "ok", "error", "rejected"}]
      BY <1>0 DEF TypeInv, TypeOK
    <3>4. SUFFICES ASSUME NEW j \in Calls
                   PROVE  /\ j > call => results'[j] = "pending" /\ j \notin threw
                          /\ results'[j] # "rejected"
                          /\ Pooled(j) /\ results'[j] \in {"ok", "error"} =>
                               \A i \in 0..(Sizes[j] - 1) : <<j, i>> \in finished
                          /\ results'[j] \in {"ok", "error"} => (results'[j] = "error" <=> j \in threw)
      BY <3>2 DEF ResultInv, Returned, Pooled, Inline
    <3>5. CASE j = call
      BY <2>1, <2>2, <3>1, <3>2, <3>3, <3>5, ConstantTypes
    <3>6. CASE j # call
      BY <3>2, <3>3, <3>6 DEF SafetyInv, ResultInv, Returned
    <3> QED
      BY <3>5, <3>6
  <2> QED
    BY <1>0, <2>4, <2>5, <2>6, <2>7 DEF SafetyInv
<1>7. CASE DestroyStop
  <2>1. ~Busy' /\ ~Busy
    BY <1>7 DEF DestroyStop, Busy
  <2> QED
    BY <1>0, <1>7, <2>1, QuietStep DEF DestroyStop, SafetyInv, LateInv
<1>8. CASE DestroyNotify
  <2>1. \A w \in Workers : pc'[w] = IF pc[w] = "asleep" THEN "wait" ELSE pc[w]
    BY <1>8 DEF DestroyNotify, NotifyWorkers
  <2>2. ~Busy' /\ ~Busy
    BY <1>8 DEF DestroyNotify, Busy
  <2> QED
    BY <1>0, <1>8, <2>1, <2>2, QuietStep DEF DestroyNotify, pool, SafetyInv, LateInv
<1>9. CASE DestroyJoin
  <2>1. ~Busy' /\ ~Busy
    BY <1>9 DEF DestroyJoin, Busy
  <2> QED
    BY <1>0, <1>9, <2>1, QuietStep DEF DestroyJoin, pool, SafetyInv, LateInv
<1>10. ASSUME NEW w \in Workers, WorkerStep(w) PROVE SafetyInv'
  <2>0. /\ end_ \in Nat /\ next_ \in Int /\ call \in Int
        /\ pc \in [Workers -> {"wait", "asleep", "fetch", "compare", "call", "running",
                               "catch", "sub", "last", "exited"}]
        /\ item \in [Workers -> Int] /\ job \in [Workers -> {NoFn} \cup Calls]
    BY <1>0, ConstantTypes DEF TypeInv, TypeOK, Ints
  <2>1. CASE WorkerExit(w)
    <3>1. (Busy' <=> Busy) /\ pc' = [pc EXCEPT ![w] = "exited"] /\ pc[w] = "wait"
      BY <2>1 DEF WorkerExit, Goto, Busy
    <3> QED
      BY <1>0, <2>0, <2>1, <3>1, QuietStep DEF WorkerExit, pool, SafetyInv, LateInv
  <2>2. CASE WorkerEnter(w)
    <3>1. (Busy' <=> Busy) /\ pc' = [pc EXCEPT ![w] = "fetch"] /\ pc[w] = "wait"
      BY <2>2 DEF WorkerEnter, Goto, Busy
    <3>2. end_ # 0
      BY <2>2, ConstantTypes DEF WorkerEnter, SafetyInv, BatchInv, Pooled, Inline
    <3> QED
      BY <1>0, <2>0, <2>2, <3>1, <3>2, QuietStep DEF WorkerEnter, pool
  <2>3. CASE WorkerSleep(w)
    <3>1. (Busy' <=> Busy) /\ pc' = [pc EXCEPT ![w] = "asleep"] /\ pc[w] = "wait"
      BY <2>3 DEF WorkerSleep, Goto, Busy
    <3> QED
      BY <1>0, <2>0, <2>3, <3>1, QuietStep DEF WorkerSleep, pool, SafetyInv, LateInv
  <2>4. CASE Fetch(w)
    <3>1. /\ pc[w] = "fetch" /\ pc' = [pc EXCEPT ![w] = "compare"]
          /\ item' = [item EXCEPT ![w] = next_] /\ next_' = Increment(next_)
          /\ UNCHANGED <<job, caller, call, remaining_, end_, fn_, has_work_, first_error_,
                         started, repeated, finished, threw, results>>
      BY <2>4 DEF Fetch, Goto, history
    <3>2. next_' \in 0..IntMax /\ next_' >= next_ /\ (next_ < end_ => next_' = next_ + 1)
      <4>1. next_ \in 0..IntMax /\ end_ <= IntMax /\ end_ \in Nat
        BY <1>0, <2>0 DEF SafetyInv, CounterInv, TypeInv, TypeOK
      <4>2. ~(next_' < next_)
        BY <2>4 DEF Fetch
      <4> QED
        BY <3>1, <4>1, <4>2, IntAssumption DEF Increment
    <3>3. Busy' <=> Busy
      BY <3>1 DEF Busy
    <3>4. \A v \in Workers : v # w => /\ item'[v] = item[v] /\ pc'[v] = pc[v]
                                      /\ (Claims(v))' <=> Claims(v)
                                      /\ (InFn(v))' <=> InFn(v)
      BY <2>0, <3>1 DEF Claims, InFn
    <3>5. item'[w] = next_ /\ ~(InFn(w))' /\ ((Claims(w))' <=> next_ < end_)
      BY <2>0, <3>1 DEF Claims, InFn
    <3>6. next_ < end_ => /\ Busy /\ next_ \in 0..(end_ - 1) /\ next_ < next_'
                          /\ <<call, next_>> \notin started
      BY <2>0, <3>2 DEF SafetyInv, CounterInv, HistoryInv
    <3>7. ClaimInv'
      <4>1. \A v \in Workers : (Claims(v))' =>
              /\ Busy' /\ item'[v] \in 0..(end_' - 1) /\ item'[v] < next_'
              /\ ~(InFn(v))' => <<call', item'[v]>> \notin started'
              /\ (InFn(v))' => /\ job'[v] = call'
                               /\ <<call', item'[v]>> \in started' \ finished'
        <5>1. SUFFICES ASSUME NEW v \in Workers, (Claims(v))'
                       PROVE  /\ Busy' /\ item'[v] \in 0..(end_' - 1) /\ item'[v] < next_'
                              /\ ~(InFn(v))' => <<call', item'[v]>> \notin started'
                              /\ (InFn(v))' => /\ job'[v] = call'
                                               /\ <<call', item'[v]>> \in started' \ finished'
          OBVIOUS
        <5>2. CASE v = w
          BY <3>1, <3>3, <3>5, <3>6, <5>1, <5>2
        <5>3. CASE v # w
          BY <2>0, <3>1, <3>2, <3>3, <3>4, <5>1, <5>3 DEF SafetyInv, ClaimInv
        <5> QED
          BY <5>2, <5>3
      <4>2. \A u, v \in Workers : (Claims(u))' /\ (Claims(v))' /\ u # v => item'[v] # item'[u]
        <5>1. \A v \in Workers : Claims(v) => item[v] \in Int /\ item[v] < next_
          BY <2>0 DEF SafetyInv, ClaimInv
        <5>2. \A v \in Workers \ {w} : (Claims(v))' => item'[v] # item'[w]
          BY <2>0, <3>4, <3>5, <5>1
        <5>3. \A u, v \in Workers \ {w} :
                (Claims(u))' /\ (Claims(v))' /\ u # v => item'[v] # item'[u]
          BY <3>4 DEF SafetyInv, ClaimInv
        <5> QED
          BY <5>2, <5>3
      <4> QED
        BY <4>1, <4>2 DEF ClaimInv
    <3>8. BatchInv'
      <4>1. Unfinished' = Unfinished
        BY <3>1 DEF Unfinished
      <4> QED
        BY <3>1, <3>3, <4>1 DEF SafetyInv, BatchInv, Pooled, Inline
    <3>9. CounterInv'
      BY <2>0, <3>1, <3>2, <3>3 DEF SafetyInv, CounterInv
    <3>10. HistoryInv'
      BY <2>0, <3>1, <3>2, <3>3 DEF SafetyInv, HistoryInv
    <3>11. LateInv'
      BY <3>1 DEF SafetyInv, LateInv, Pooled, Inline
    <3>12. ResultInv' /\ ErrorInv'
      <4>1. \A v \in Workers : pc'[v] = "catch" <=> pc[v] = "catch"
        BY <2>0, <3>1
      <4> QED
        BY <3>1, <3>3, <4>1 DEF SafetyInv, ResultInv, ErrorInv, Returned, Pooled, Inline
    <3> QED
      BY <1>0, <3>7, <3>8, <3>9, <3>10, <3>11, <3>12 DEF SafetyInv
  <2>5. CASE CompareDone(w)
    <3>1. (Busy' <=> Busy) /\ pc' = [pc EXCEPT ![w] = "wait"] /\ pc[w] = "compare"
      BY <2>5 DEF CompareDone, Goto, Busy
    <3> QED
      BY <1>0, <2>0, <2>5, <3>1, QuietStep DEF CompareDone, pool, SafetyInv, LateInv
  \* The steps from one claim to the next keep the worker's item.
  <2>6. ASSUME /\ Claims(w) /\ (Claims(w))' /\ end_ # 0
               /\ \A v \in Workers \ {w} : pc'[v] = pc[v] /\ job'[v] = job[v]
               /\ UNCHANGED <<item, caller, call, next_, remaining_, end_, fn_, has_work_,
                              finished, results>>
               /\ repeated' = {} /\ started \subseteq started'
               /\ started' \subseteq started \cup {<<call, item[w]>>}
               /\ (InFn(w))' => job'[w] = call /\ <<call, item[w]>> \in started' \ finished'
               /\ ~(InFn(w))' => started' = started /\ ~InFn(w)
               /\ \A k \in Calls : k # call => (k \in threw' <=> k \in threw)
               /\ ErrorInv'
        PROVE  SafetyInv'
    <3>1. Busy /\ Busy' /\ item[w] \in 0..(end_ - 1) /\ item[w] < next_ /\ item[w] \in Int
      BY <2>0, <2>6 DEF SafetyInv, ClaimInv, Busy
    <3>2. \A v \in Workers \ {w} : /\ (Claims(v))' <=> Claims(v)
                                   /\ (InFn(v))' <=> InFn(v)
      BY <2>6 DEF Claims, InFn
    <3>3. ClaimInv'
      <4>1. \A v \in Workers \ {w} : Claims(v) => item[v] # item[w]
        BY <2>6 DEF SafetyInv, ClaimInv
      <4>2. \A v \in Workers : (Claims(v))' =>
              /\ Busy' /\ item'[v] \in 0..(end_' - 1) /\ item'[v] < next_'
              /\ ~(InFn(v))' => <<call', item'[v]>> \notin started'
              /\ (InFn(v))' => /\ job'[v] = call'
                               /\ <<call', item'[v]>> \in started' \ finished'
        <5>1. SUFFICES ASSUME NEW v \in Workers, (Claims(v))'
                       PROVE  /\ Busy' /\ item'[v] \in 0..(end_' - 1) /\ item'[v] < next_'
                              /\ ~(InFn(v))' => <<call', item'[v]>> \notin started'
                              /\ (InFn(v))' => /\ job'[v] = call'
                                               /\ <<call', item'[v]>> \in started' \ finished'
          OBVIOUS
        <5>2. CASE v = w
          BY <2>6, <3>1, <5>2 DEF SafetyInv, ClaimInv
        <5>3. CASE v # w
          BY <2>6, <3>1, <3>2, <4>1, <5>1, <5>3 DEF SafetyInv, ClaimInv
        <5> QED
          BY <5>2, <5>3
      <4>3. \A u, v \in Workers : (Claims(u))' /\ (Claims(v))' /\ u # v => item'[v] # item'[u]
        BY <2>6, <3>2 DEF SafetyInv, ClaimInv
      <4> QED
        BY <4>2, <4>3 DEF ClaimInv
    <3>4. BatchInv'
      <4>1. Unfinished' = Unfinished
        BY <2>6 DEF Unfinished
      <4> QED
        BY <2>6, <3>1, <4>1 DEF SafetyInv, BatchInv, Pooled, Inline
    <3>5. CounterInv' /\ LateInv'
      BY <2>6, <3>1 DEF SafetyInv, CounterInv, LateInv, Pooled, Inline
    <3>6. HistoryInv'
      <4>1. finished' \subseteq started'
        BY <2>6 DEF SafetyInv, HistoryInv
      <4>2. \A k \in Calls, i \in Int :
              <<k, i>> \in started' => <<k, i>> \in started \/ (k = call /\ i = item[w])
        BY <2>6
      <4>3. \A i \in Int : <<call, i>> \in started' => <<call, i>> \in started \/ i = item[w]
        BY <2>6
      <4>4. \A k \in Calls, i \in Int : <<k, i>> \in started' => k <= call'
        BY <2>0, <2>6, <4>2 DEF SafetyInv, HistoryInv
      <4> QED
        BY <2>6, <3>1, <4>1, <4>3, <4>4 DEF SafetyInv, HistoryInv
    <3>7. ResultInv'
      BY <2>0, <2>6, <3>1, ConstantTypes
      DEF SafetyInv, ResultInv, BatchInv, Returned, Pooled, Inline
    <3> QED
      BY <1>0, <2>6, <3>3, <3>4, <3>5, <3>6, <3>7 DEF SafetyInv
  <2>7. Claims(w) => end_ # 0
    BY DEF SafetyInv, LateInv, Claims, InFn
  <2>8. CASE CompareTake(w)
    <3>1. /\ pc[w] = "compare" /\ pc' = [pc EXCEPT ![w] = "call"] /\ Claims(w)
          /\ item' = item
      BY <2>8 DEF CompareTake, Goto, Claims
    <3>2. (Claims(w))' /\ ~(InFn(w))' /\ ~InFn(w)
      BY <2>0, <3>1 DEF Claims, InFn
    <3>3. ErrorInv'
      <4>1. \A v \in Workers : pc'[v] = "catch" <=> pc[v] = "catch"
        BY <2>0, <3>1
      <4> QED
        BY <2>8, <4>1 DEF CompareTake, SafetyInv, ErrorInv, Busy, pool, history
    <3> QED
      BY <2>0, <2>6, <2>7, <2>8, <3>1, <3>2, <3>3
      DEF CompareTake, pool, history, SafetyInv, HistoryInv
  <2>9. CASE Invoke(w)
    <3>1. pc[w] = "call" /\ pc' = [pc EXCEPT ![w] = "running"] /\ Claims(w) /\ ~InFn(w)
          /\ job' = [job EXCEPT ![w] = fn_]
      BY <2>9 DEF Invoke, Goto, Claims, InFn
    <3>2. fn_ = call /\ <<call, item[w]>> \notin started /\ <<call, item[w]>> \notin finished
      BY <3>1 DEF SafetyInv, ClaimInv, BatchInv, HistoryInv
    <3>3. (Claims(w))' /\ (InFn(w))'
      BY <2>0, <3>1 DEF Claims, InFn
    <3>4. ErrorInv'
      <4>1. \A v \in Workers : pc'[v] = "catch" <=> pc[v] = "catch"
        BY <2>0, <3>1
      <4> QED
        BY <2>9, <4>1 DEF Invoke, SafetyInv, ErrorInv, Busy, pool
    <3> QED
      BY <2>0, <2>6, <2>7, <2>9, <3>1, <3>2, <3>3, <3>4
      DEF Invoke, pool, SafetyInv, HistoryInv
  <2>10. CASE InvokeEmpty(w)
    <3>1. Claims(w) /\ fn_ = NoFn
      BY <2>10 DEF InvokeEmpty, Goto, Claims
    <3>2. fn_ \in Calls
      BY <3>1 DEF SafetyInv, ClaimInv, BatchInv
    <3> QED
      BY <3>1, <3>2, ConstantTypes
  <2>11. CASE TaskReturn(w)
    <3>1. pc[w] = "running" /\ pc' = [pc EXCEPT ![w] = "sub"] /\ Claims(w) /\ InFn(w)
      BY <2>11 DEF TaskReturn, Goto, Claims, InFn
    <3>2. (Claims(w))' /\ (InFn(w))'
      BY <2>0, <3>1 DEF Claims, InFn
    <3>3. ErrorInv'
      <4>1. \A v \in Workers : pc'[v] = "catch" <=> pc[v] = "catch"
        BY <2>0, <3>1
      <4> QED
        BY <2>11, <4>1 DEF TaskReturn, SafetyInv, ErrorInv, Busy, pool, history
    <3> QED
      BY <2>0, <2>6, <2>7, <2>11, <3>1, <3>2, <3>3
      DEF TaskReturn, pool, history, SafetyInv, HistoryInv, ClaimInv
  <2>12. CASE TaskThrow(w)
    <3>1. pc[w] = "running" /\ pc' = [pc EXCEPT ![w] = "catch"] /\ Claims(w) /\ InFn(w)
      BY <2>12 DEF TaskThrow, Goto, Claims, InFn
    <3>2. (Claims(w))' /\ (InFn(w))' /\ pc'[w] = "catch"
      BY <2>0, <3>1 DEF Claims, InFn
    <3>3. job[w] = call
      BY <3>1 DEF SafetyInv, ClaimInv
    <3>4. ErrorInv'
      BY <2>12, <3>2, <3>3 DEF TaskThrow, ErrorInv
    <3> QED
      BY <2>0, <2>6, <2>7, <2>12, <3>1, <3>2, <3>3, <3>4
      DEF TaskThrow, pool, SafetyInv, HistoryInv, ClaimInv
  <2>13. CASE CatchError(w)
    <3>1. pc[w] = "catch" /\ pc' = [pc EXCEPT ![w] = "sub"] /\ Claims(w) /\ InFn(w)
      BY <2>13 DEF CatchError, Goto, Claims, InFn
    <3>2. (Claims(w))' /\ (InFn(w))'
      BY <2>0, <3>1 DEF Claims, InFn
    <3>3. ErrorInv'
      BY <2>13, <3>1 DEF CatchError, SafetyInv, ClaimInv, ErrorInv, history
    <3> QED
      BY <2>0, <2>6, <2>7, <2>13, <3>1, <3>2, <3>3
      DEF CatchError, history, SafetyInv, HistoryInv, ClaimInv
  <2>14. CASE CountOff(w)
    <3>1. /\ pc[w] = "sub" /\ pc' = [pc EXCEPT ![w] = IF remaining_ = 1 THEN "last" ELSE "fetch"]
          /\ Claims(w) /\ InFn(w) /\ remaining_' = remaining_ - 1
          /\ finished' = finished \cup {<<job[w], item[w]>>}
          /\ UNCHANGED <<item, job, caller, call, next_, end_, fn_, has_work_,
                         first_error_, started, repeated, threw, results>>
      BY <2>14 DEF CountOff, Goto, Claims, InFn
    <3>2. job[w] = call /\ Busy /\ Busy' /\ <<call, item[w]>> \in started
      BY <3>1 DEF SafetyInv, ClaimInv, Busy
    <3>3. item[w] \in Unfinished
      BY <3>1, ClaimUnfinished
    <3>4. Unfinished' = Unfinished \ {item[w]}
      BY <3>1, <3>2 DEF Unfinished
    <3>5. Cardinality(Unfinished') = Cardinality(Unfinished) - 1
      BY <1>0, <3>3, <3>4, UnfinishedFinite, FS_RemoveElement
    <3>6. BatchInv'
      BY <3>1, <3>2, <3>5 DEF SafetyInv, BatchInv, Pooled, Inline
    <3>7. \A v \in Workers : (Claims(v))' => v # w /\ Claims(v) /\ ((InFn(v))' <=> InFn(v))
      BY <2>0, <3>1 DEF Claims, InFn
    <3>8. ClaimInv'
      <4>1. \A v \in Workers : v # w /\ Claims(v) =>
              (<<call, item[v]>> \in finished' <=> <<call, item[v]>> \in finished)
        BY <3>1, <3>2 DEF SafetyInv, ClaimInv
      <4>2. ASSUME NEW v \in Workers, (Claims(v))'
            PROVE  /\ Busy' /\ item'[v] \in 0..(end_' - 1) /\ item'[v] < next_'
                   /\ ~(InFn(v))' => <<call', item'[v]>> \notin started'
                   /\ (InFn(v))' => /\ job'[v] = call'
                                    /\ <<call', item'[v]>> \in started' \ finished'
        <5>1. v # w /\ Claims(v) /\ ((InFn(v))' <=> InFn(v))
          BY <3>7, <4>2
        <5> QED
          BY <3>1, <3>2, <4>1, <5>1 DEF SafetyInv, ClaimInv
      <4>3. ASSUME NEW u \in Workers, NEW v \in Workers, (Claims(u))', (Claims(v))', u # v
            PROVE  item'[v] # item'[u]
        <5>1. Claims(u) /\ Claims(v)
          BY <3>7, <4>3
        <5> QED
          BY <3>1, <4>3, <5>1 DEF SafetyInv, ClaimInv
      <4> QED
        BY <4>2, <4>3 DEF ClaimInv
    <3>9. CounterInv' /\ HistoryInv'
      BY <3>1, <3>2 DEF SafetyInv, CounterInv, HistoryInv
    <3>10. LateInv'
      BY <2>7, <3>1 DEF SafetyInv, LateInv, Pooled, Inline
    <3>11. ResultInv'
      BY <3>1 DEF SafetyInv, ResultInv, Returned, Pooled, Inline
    <3>12. ErrorInv'
      <4>1. \A v \in Workers : pc'[v] = "catch" <=> pc[v] = "catch"
        BY <2>0, <3>1
      <4> QED
        BY <3>1, <3>2, <4>1 DEF SafetyInv, ErrorInv
    <3> QED
      BY <1>0, <3>6, <3>8, <3>9, <3>10, <3>11, <3>12 DEF SafetyInv
  <2>15. CASE LastWorker(w)
    <3>1. (Busy' <=> Busy) /\ pc[w] = "last" /\ pc'[w] = "wait" /\ ~has_work_'
      BY <2>0, <2>15 DEF LastWorker, NotifyWorkers, Busy
    <3>2. \A v \in Workers \ {w} : pc'[v] = IF pc[v] = "asleep" THEN "wait" ELSE pc[v]
      BY <2>15 DEF LastWorker, NotifyWorkers
    <3> QED
      BY <1>0, <2>0, <2>15, <3>1, <3>2, QuietStep DEF LastWorker, SafetyInv, LateInv
  <2> QED
    BY <1>10, <2>1, <2>2, <2>3, <2>4, <2>5, <2>8, <2>9, <2>10, <2>11, <2>12, <2>13,
       <2>14, <2>15 DEF WorkerStep
<1>11. CASE SpuriousWake
  <2>1. (Busy' <=> Busy) /\ \A w \in Workers :
          pc'[w] # pc[w] => pc[w] = "asleep" /\ pc'[w] = "wait"
    BY <1>0, <1>11 DEF SpuriousWake, Goto, Busy, TypeInv, TypeOK
  <2> QED
    BY <1>0, <1>11, <2>1, QuietStep DEF SpuriousWake, pool, SafetyInv, LateInv
<1>12. CASE Terminated \/ UNCHANGED vars
  <2>1. UNCHANGED vars
    BY <1>12 DEF Terminated
  <2>2. Busy' <=> Busy
    BY <2>1 DEF vars, Busy
  <2> QED
    BY <1>0, <2>1, <2>2, QuietStep DEF vars, pool, SafetyInv, LateInv
<1> QED
  BY <1>1, <1>2, <1>3, <1>4, <1>5, <1>6, <1>7, <1>8, <1>9, <1>10, <1>11, <1>12
  DEF Next, CallerStep

-----------------------------------------------------------------------------
LEMMA RangeStep ==
    ASSUME SafetyInv, ItemsInRange, [Next]_vars
    PROVE  ItemsInRange'
<1>0. TypeInv
  BY DEF SafetyInv
<1>1. CASE InlineCall
  <2> DEFINE k == call + 1
  <2>1. PICK m \in 0..Sizes[k] :
          started' = started \cup {<<k, i>> : i \in 0..(Sizes[k] - 1) \cap 0..m}
    BY <1>1 DEF InlineCall
  <2> QED
    BY <2>1 DEF ItemsInRange
<1>2. ASSUME NEW w \in Workers, Invoke(w) PROVE ItemsInRange'
  <2>1. pc[w] = "call" /\ Claims(w)
    BY <1>2 DEF Invoke, Goto, Claims
  <2>2. fn_ = call /\ end_ = Sizes[call] /\ item[w] \in 0..(end_ - 1)
    BY <2>1 DEF SafetyInv, ClaimInv, BatchInv
  <2>3. started' = started \cup {<<call, item[w]>>}
    BY <1>2, <2>2 DEF Invoke
  <2> QED
    BY <2>2, <2>3 DEF ItemsInRange
<1>3. CASE UNCHANGED started
  BY <1>3 DEF ItemsInRange
<1>4. CASE CallerStep /\ ~InlineCall
  BY <1>3, <1>4 DEF CallerStep, RejectCall, InstallBatch, NotifyBatch, CallerSleep,
                    CallerReturn, DestroyStop, DestroyNotify, DestroyJoin, history
<1>5. ASSUME NEW w \in Workers, WorkerStep(w), ~Invoke(w) PROVE ItemsInRange'
  BY <1>3, <1>5 DEF WorkerStep, WorkerExit, WorkerEnter, WorkerSleep, Fetch, CompareDone,
                    CompareTake, InvokeEmpty, TaskReturn, TaskThrow, CatchError, CountOff,
                    LastWorker, history
<1>6. CASE SpuriousWake \/ Terminated \/ UNCHANGED vars
  BY <1>3, <1>6 DEF SpuriousWake, Terminated, vars, history
<1> QED
  BY <1>1, <1>2, <1>4, <1>5, <1>6 DEF Next

\* Until a number goes astray the safety invariants hold; and it goes astray
\* only when a call is larger than an earlier one, or when next_ wraps.
AstrayInv ==
    /\ TypeInv /\ AstrayOnlyByGrowth
    /\ ~astray => SafetyInv /\ ItemsInRange

\* No step takes back what went astray.
LEMMA StaysAstray ==
    ASSUME TypeInv, [Next]_vars, astray
    PROVE  astray'
<1>1. CASE CallerStep \/ SpuriousWake \/ Terminated \/ UNCHANGED vars
  BY <1>1 DEF CallerStep, InlineCall, RejectCall, InstallBatch, NotifyBatch, CallerSleep,
              CallerReturn, DestroyStop, DestroyNotify, DestroyJoin, SpuriousWake, Terminated,
              vars, history
<1>2. ASSUME NEW w \in Workers, WorkerStep(w) PROVE astray'
  BY <1>2 DEF WorkerStep, WorkerExit, WorkerEnter, WorkerSleep, Fetch, CompareDone, CompareTake,
              Invoke, InvokeEmpty, TaskReturn, TaskThrow, CatchError, CountOff, LastWorker, history
<1> QED
  BY <1>1, <1>2 DEF Next

\* Only a larger call, or next_ as it wraps, leads a number astray
\* (runtime.cpp:122-128, 157-158).
LEMMA GrowthStep ==
    ASSUME AstrayInv, [Next]_vars
    PROVE  AstrayOnlyByGrowth'
<1>0. TypeInv /\ TypeInv' /\ call \in Nat /\ call' \in Nat /\ call' >= call
  <2>1. TypeInv /\ TypeInv'
    BY TypeStep DEF AstrayInv
  <2>2. call \in Nat /\ call' \in Nat
    BY <2>1, ConstantTypes DEF TypeInv, TypeOK
  <2>3. call' = call \/ call' = call + 1
    <3>1. CASE CallerStep \/ SpuriousWake \/ Terminated \/ UNCHANGED vars
      BY <3>1 DEF CallerStep, InlineCall, RejectCall, InstallBatch, NotifyBatch, CallerSleep,
                  CallerReturn, DestroyStop, DestroyNotify, DestroyJoin, SpuriousWake,
                  Terminated, vars
    <3>2. ASSUME NEW w \in Workers, WorkerStep(w) PROVE call' = call
      BY <3>2 DEF WorkerStep, WorkerExit, WorkerEnter, WorkerSleep, Fetch, CompareDone,
                  CompareTake, Invoke, InvokeEmpty, TaskReturn, TaskThrow, CatchError, CountOff,
                  LastWorker
    <3> QED
      BY <3>1, <3>2 DEF Next
  <2> QED
    BY <2>1, <2>2, <2>3
<1>1. CASE astray
  <2>1. CASE AfterIntMax # IntMax
    BY <2>1 DEF AstrayOnlyByGrowth
  <2>2. CASE AfterIntMax = IntMax
    <3>1. PICK j \in 1..call, k \in 1..call : j < k /\ Pooled(j) /\ Pooled(k) /\ Sizes[j] < Sizes[k]
      BY <1>1, <2>2 DEF AstrayInv, AstrayOnlyByGrowth
    <3>2. j \in 1..call' /\ k \in 1..call'
      BY <1>0
    <3> QED
      BY <3>1, <3>2 DEF AstrayOnlyByGrowth
  <2> QED
    BY <2>1, <2>2
<1>2. CASE ~astray /\ ~astray'
  BY <1>2 DEF AstrayOnlyByGrowth
<1>3. CASE ~astray /\ astray'
  <2>1. SafetyInv
    BY <1>3 DEF AstrayInv
  <2>2. InstallBatch \/ \E w \in Workers : Fetch(w)
    <3>1. CASE CallerStep \/ SpuriousWake \/ Terminated \/ UNCHANGED vars
      BY <1>3, <3>1 DEF CallerStep, InlineCall, RejectCall, NotifyBatch, CallerSleep,
                  CallerReturn, DestroyStop, DestroyNotify, DestroyJoin, SpuriousWake, Terminated,
                  vars, history
    <3>2. ASSUME NEW w \in Workers, WorkerStep(w) PROVE Fetch(w)
      BY <1>3, <3>2 DEF WorkerStep, WorkerExit, WorkerEnter, WorkerSleep, CompareDone,
                  CompareTake, Invoke, InvokeEmpty, TaskReturn, TaskThrow, CatchError, CountOff,
                  LastWorker, history
    <3> QED
      BY <3>1, <3>2 DEF Next
  <2>3. CASE InstallBatch
    <3> DEFINE k == call + 1
    <3>1. ~Busy /\ k \in Calls /\ Pooled(k) /\ Sizes[k] \in Nat /\ call' = k
      BY <2>3, ConstantTypes DEF InstallBatch, Busy, Pooled
    <3>2. PICK w \in Workers : pc[w] = "compare" /\ item[w] < Sizes[k]
      BY <1>3, <2>3 DEF InstallBatch
    <3>3. end_ \in Nat /\ item[w] \in Int
      BY <1>0 DEF TypeInv, TypeOK, Ints
    <3>4. ~(item[w] < end_)
      BY <2>1, <3>1, <3>2 DEF SafetyInv, ClaimInv, Claims
    <3>5. end_ # 0
      BY <2>1, <3>2 DEF SafetyInv, LateInv
    <3>6. PICK j \in Calls : j <= call /\ Pooled(j) /\ end_ = Sizes[j]
      BY <2>1, <3>5 DEF SafetyInv, LateInv
    <3>7. Sizes[j] < Sizes[k]
      BY <3>1, <3>2, <3>3, <3>4, <3>6
    <3>8. j \in 1..call' /\ k \in 1..call' /\ j < k
      BY <1>0, <3>1, <3>6, ConstantTypes
    <3> QED
      BY <3>1, <3>6, <3>7, <3>8 DEF AstrayOnlyByGrowth
  <2>4. ASSUME NEW w \in Workers, Fetch(w) PROVE AfterIntMax # IntMax
    <3>1. next_' = Increment(next_) /\ next_' < next_
      BY <1>3, <2>4 DEF Fetch
    <3>2. next_ \in 0..IntMax
      BY <2>1 DEF SafetyInv, CounterInv
    <3> QED
      BY <3>1, <3>2, IntAssumption DEF Increment
  <2> QED
    BY <2>2, <2>3, <2>4 DEF AstrayOnlyByGrowth
<1> QED
  BY <1>1, <1>2, <1>3

LEMMA AstrayAlways == Spec => []AstrayInv
<1>1. Init => AstrayInv
  BY SafetyInit, TypeInit DEF Init, AstrayInv, AstrayOnlyByGrowth, ItemsInRange
<1>2. ASSUME AstrayInv, [Next]_vars PROVE AstrayInv'
  <2>1. TypeInv' /\ AstrayOnlyByGrowth'
    BY <1>2, TypeStep, GrowthStep DEF AstrayInv
  <2>2. ASSUME ~astray' PROVE SafetyInv' /\ ItemsInRange'
    <3>1. SafetyInv /\ ItemsInRange
      BY <1>2, <2>2, StaysAstray DEF AstrayInv
    <3> QED
      BY <1>2, <2>2, <3>1, SafetyStep, RangeStep
  <2> QED
    BY <2>1, <2>2 DEF AstrayInv
<1> QED
  BY <1>1, <1>2, PTL DEF Spec

\* A pooled call has returned only when all its items have run and no worker is
\* still inside its fn (runtime.cpp:133-137).
LEMMA ReturnComplete == SafetyInv => ReturnMeansAllDone
<1> SUFFICES ASSUME SafetyInv, NEW k \in Calls, Pooled(k), Returned(k)
             PROVE  /\ \A i \in 0..(Sizes[k] - 1) : <<k, i>> \in finished
                    /\ \A w \in Workers : job[w] = k => ~InFn(w)
  BY DEF ReturnMeansAllDone, InFn
<1>1. \A i \in 0..(Sizes[k] - 1) : <<k, i>> \in finished
  BY DEF SafetyInv, ResultInv
<1>2. \A w \in Workers : InFn(w) => job[w] # k
  BY DEF SafetyInv, ClaimInv, Claims, BatchInv, Returned
<1> QED
  BY <1>1, <1>2

\* The contract of a call, for calls of any size one after another: it holds
\* until a number goes astray, and none does before a call is larger than an
\* earlier one or next_ wraps (runtime.cpp:114-173).
THEOREM CallsCorrect == Spec => []CallContract
<1>1. AstrayInv => CallContract
  <2> SUFFICES ASSUME AstrayInv PROVE CallContract
    OBVIOUS
  <2>1. TypeOK /\ AstrayOnlyByGrowth
    BY DEF AstrayInv, TypeInv
  <2>2. ~astray => ItemsInRange /\ EachItemAtMostOnce /\ ErrorBelongsToCall
    BY DEF AstrayInv, SafetyInv, HistoryInv, ResultInv, EachItemAtMostOnce, ErrorBelongsToCall
  <2>3. ~astray => ReturnMeansAllDone
    BY ReturnComplete DEF AstrayInv
  <2> QED
    BY <2>1, <2>2, <2>3 DEF CallContract
<1> QED
  BY <1>1, AstrayAlways, PTL

\* Until a number goes astray, the guard of parallel_for turns away nested calls
\* and no other (runtime.cpp:119-121).
THEOREM GuardCorrect == Spec => []GuardExact
<1>1. SafetyInv => NestedCallRejected
  BY ClaimUnfinished DEF NestedCallRejected, Claims, InFn
<1>2. SafetyInv => SequentialCallsAccepted
  BY DEF SafetyInv, ResultInv, SequentialCallsAccepted
<1>3. AstrayInv => GuardExact
  BY <1>1, <1>2 DEF AstrayInv, GuardExact
<1> QED
  BY <1>3, AstrayAlways, PTL

-----------------------------------------------------------------------------
(* The pool implements its contract. *)

\* The items of the current call that the contract calls todo and active.
Todo == IF Busy THEN {i \in 0..(end_ - 1) : <<call, i>> \notin started} ELSE {}
Active == IF Busy THEN {i \in 0..(end_ - 1) : /\ <<call, i>> \in started
                                            /\ <<call, i>> \notin finished} ELSE {}
Failed == Busy /\ call \in threw

LEMMA ContractInit == Init => Contract!Init
BY DEF Init, Contract!Init, Busy, Calls

\* A step that touches no item, error or result and neither opens nor closes a
\* call is a step no caller can see.
LEMMA Invisible ==
    ASSUME Busy' <=> Busy, UNCHANGED <<call, end_, started, finished, threw, results>>
    PROVE  UNCHANGED Contract!vars
<1>1. Todo' = Todo /\ Active' = Active
  BY DEF Todo, Active
<1>2. Failed' = Failed /\ Busy' = Busy
  BY DEF Failed, Busy
<1> QED
  BY <1>1, <1>2 DEF Contract!vars, Todo, Active, Failed

LEMMA ContractStep ==
    ASSUME SafetyInv, [Next]_vars
    PROVE  [Contract!Next]_(Contract!vars)
<1>0. TypeInv /\ Busy \in BOOLEAN /\ Busy' \in BOOLEAN
  BY DEF SafetyInv, Busy
<1>1. CASE InlineCall
  <2>1. ~Busy /\ ~Busy' /\ call + 1 \in Calls /\ call' = call + 1
    BY <1>1 DEF InlineCall, Busy
  <2>2. \E r \in {"ok", "error"} : results' = [results EXCEPT ![call + 1] = r]
    BY <1>1 DEF InlineCall
  <2>3. call < Len(Sizes)
    BY <1>0, <2>1, SizesAssumption DEF Calls, TypeInv, TypeOK
  <2>4. Todo' = Todo /\ Active' = Active /\ Failed' = Failed /\ Busy' = Busy
    BY <1>0, <2>1 DEF Todo, Active, Failed
  <2>5. Contract!OnCallersThread
    BY <2>1, <2>2, <2>3, <2>4 DEF Contract!OnCallersThread, Todo, Active, Failed
  <2> QED
    BY <2>5 DEF Contract!Next
<1>2. CASE RejectCall
  BY <1>2 DEF RejectCall, SafetyInv, BatchInv, Busy
<1>3. CASE InstallBatch
  <2> DEFINE k == call + 1
  <2>1. ~Busy /\ Busy' /\ k \in Calls /\ call' = k /\ end_' = Sizes[k]
        /\ UNCHANGED <<started, threw, results>>
    BY <1>3 DEF InstallBatch, Busy, history
  <2>2. call < Len(Sizes) /\ k > call /\ ~(k <= call)
    BY <1>0, <2>1, SizesAssumption DEF Calls, TypeInv, TypeOK
  <2>3. k \notin threw /\ \A i \in Int : <<k, i>> \notin started
    BY <2>1, <2>2 DEF SafetyInv, ResultInv, HistoryInv
  <2>4. Todo' = 0..(Sizes[k] - 1) /\ Active' = {} /\ ~Failed'
    BY <2>1, <2>3 DEF Todo, Active, Failed
  <2>5. Todo = {} /\ Active = {} /\ ~Failed
    BY <2>1 DEF Todo, Active, Failed
  <2>6. Contract!Start
    BY <2>1, <2>2, <2>4, <2>5 DEF Contract!Start, Todo, Active, Failed
  <2> QED
    BY <2>6 DEF Contract!Next
<1>4. CASE CallerReturn
  <2>1. /\ Busy /\ ~Busy' /\ remaining_ = 0
        /\ results' = [results EXCEPT ![call] = IF first_error_ THEN "error" ELSE "ok"]
        /\ UNCHANGED <<call, end_>>
    BY <1>4 DEF CallerReturn, Busy
  <2>2. /\ \A i \in 0..(end_ - 1) : <<call, i>> \in finished
        /\ \A w \in Workers : ~Claims(w)
    BY <2>1, AllFetched
  <2>3. Todo = {} /\ Active = {} /\ Todo' = {} /\ Active' = {} /\ ~Failed'
    BY <2>1, <2>2 DEF Todo, Active, Failed, SafetyInv, HistoryInv
  <2>4. (IF first_error_ THEN "error" ELSE "ok") = (IF Failed THEN "error" ELSE "ok")
    <3>1. \A w \in Workers : pc[w] # "catch"
      BY <2>2 DEF Claims, InFn
    <3>2. call \in threw <=> first_error_
      BY <2>1, <3>1 DEF SafetyInv, ErrorInv
    <3> QED
      BY <1>0, <2>1, <3>2 DEF Failed, TypeInv, TypeOK
  <2>5. results' = [results EXCEPT ![call] = IF Failed THEN "error" ELSE "ok"]
    BY <2>1, <2>4
  <2>6. Contract!Return
    BY <1>0, <2>1, <2>3, <2>5 DEF Contract!Return, Todo, Active, Failed
  <2> QED
    BY <2>6 DEF Contract!Next
<1>5. ASSUME NEW w \in Workers, Invoke(w) PROVE Contract!Next
  <2>1. pc[w] = "call" /\ Claims(w) /\ ~InFn(w)
    BY <1>5 DEF Invoke, Goto, Claims, InFn
  <2>2. Busy /\ item[w] \in 0..(end_ - 1) /\ <<call, item[w]>> \notin started /\ fn_ = call
    BY <2>1 DEF SafetyInv, ClaimInv, BatchInv
  <2>3. <<call, item[w]>> \notin finished
    BY <2>2 DEF SafetyInv, HistoryInv
  <2>4. Busy' /\ started' = started \cup {<<call, item[w]>>}
        /\ UNCHANGED <<call, end_, finished, threw, results>>
    BY <1>5, <2>2 DEF Invoke, Busy, pool
  <2>5. item[w] \in Todo /\ Todo' = Todo \ {item[w]} /\ Active' = Active \cup {item[w]}
        /\ Failed' = Failed
    BY <2>2, <2>3, <2>4 DEF Todo, Active, Failed
  <2>6. PICK i \in Todo : i = item[w]
    BY <2>5
  <2>7. Contract!Begin(i)
    BY <2>2, <2>4, <2>5, <2>6 DEF Contract!Begin, Todo, Active, Failed
  <2> QED
    BY <2>6, <2>7 DEF Contract!Next, Todo
<1>6. ASSUME NEW w \in Workers, TaskThrow(w) PROVE Contract!Next
  <2>1. Claims(w) /\ InFn(w)
    BY <1>6 DEF TaskThrow, Goto, Claims, InFn
  <2>2. Busy /\ item[w] \in 0..(end_ - 1) /\ <<call, item[w]>> \in started \ finished
        /\ job[w] = call
    BY <2>1 DEF SafetyInv, ClaimInv
  <2>3. Busy' /\ call \in threw' /\ UNCHANGED <<call, end_, started, finished, results>>
    BY <1>6, <2>2 DEF TaskThrow, Busy, pool
  <2>4. item[w] \in Active /\ Active' = Active /\ Todo' = Todo /\ Failed'
    BY <2>2, <2>3 DEF Todo, Active, Failed
  <2>5. Contract!Throw
    BY <2>2, <2>3, <2>4 DEF Contract!Throw, Todo, Active, Failed
  <2> QED
    BY <2>5 DEF Contract!Next
<1>7. ASSUME NEW w \in Workers, CountOff(w) PROVE Contract!Next
  <2>1. Claims(w) /\ InFn(w)
    BY <1>7 DEF CountOff, Goto, Claims, InFn
  <2>2. Busy /\ item[w] \in 0..(end_ - 1) /\ <<call, item[w]>> \in started \ finished
        /\ job[w] = call
    BY <2>1 DEF SafetyInv, ClaimInv
  <2>3. Busy' /\ finished' = finished \cup {<<call, item[w]>>}
        /\ UNCHANGED <<call, end_, started, threw, results>>
    BY <1>7, <2>2 DEF CountOff, Busy
  <2>4. item[w] \in Active /\ Active' = Active \ {item[w]} /\ Todo' = Todo /\ Failed' = Failed
    BY <2>2, <2>3 DEF Todo, Active, Failed
  <2>5. PICK i \in Active : i = item[w]
    BY <2>4
  <2>6. Contract!End(i)
    BY <2>2, <2>3, <2>4, <2>5 DEF Contract!End, Todo, Active, Failed
  <2> QED
    BY <2>5, <2>6 DEF Contract!Next, Active
<1>8. ASSUME NEW w \in Workers, WorkerStep(w), ~Invoke(w), ~TaskThrow(w), ~CountOff(w)
      PROVE  UNCHANGED Contract!vars
  <2>1. Busy' <=> Busy
    BY <1>8 DEF WorkerStep, WorkerExit, WorkerEnter, WorkerSleep, Fetch, CompareDone, CompareTake,
                InvokeEmpty, TaskReturn, CatchError, LastWorker, Busy
  <2>2. UNCHANGED <<call, end_, started, finished, threw, results>>
    BY <1>8 DEF WorkerStep, WorkerExit, WorkerEnter, WorkerSleep, Fetch, CompareDone, CompareTake,
                InvokeEmpty, TaskReturn, CatchError, LastWorker, pool, history
  <2> QED
    BY <2>1, <2>2, Invisible
<1>9. CASE NotifyBatch \/ CallerSleep \/ DestroyStop \/ DestroyNotify \/ DestroyJoin
  <2>1. Busy' <=> Busy
    BY <1>9 DEF NotifyBatch, CallerSleep, DestroyStop, DestroyNotify, DestroyJoin, Busy
  <2>2. UNCHANGED <<call, end_, started, finished, threw, results>>
    BY <1>9 DEF NotifyBatch, CallerSleep, DestroyStop, DestroyNotify, DestroyJoin, pool, history
  <2> QED
    BY <2>1, <2>2, Invisible
<1>10. CASE SpuriousWake \/ Terminated \/ UNCHANGED vars
  <2>1. Busy' <=> Busy
    BY <1>10 DEF SpuriousWake, Terminated, vars, Busy
  <2>2. UNCHANGED <<call, end_, started, finished, threw, results>>
    BY <1>10 DEF SpuriousWake, Terminated, vars, pool, history
  <2> QED
    BY <2>1, <2>2, Invisible
<1> QED
  BY <1>1, <1>2, <1>3, <1>4, <1>5, <1>6, <1>7, <1>8, <1>9, <1>10 DEF Next, CallerStep

\* For every sequence of calls, what the pool does is, to its caller, a step of
\* ParallelFor or no step, until a number goes astray (runtime.cpp:106-178).
THEOREM PoolImplementsContract == Spec => ImplementsParallelFor
<1>1. Init => Contract!Init
  BY ContractInit
<1>2. AstrayInv /\ [Next]_vars => [~astray' => [Contract!Next]_(Contract!vars)]_vars
  BY ContractStep, StaysAstray DEF AstrayInv
<1> QED
  BY <1>1, <1>2, AstrayAlways, PTL DEF Spec, ImplementsParallelFor

-----------------------------------------------------------------------------
(* What a rejected call means. *)

\* Between calls only late workers touch the count, and they take it below zero.
RejectedInv ==
    /\ ~Busy => ~has_work_ /\ remaining_ <= 0
    /\ (\E k \in Calls : results[k] = "rejected") => ~Busy /\ remaining_ < 0

LEMMA RejectedStep ==
    ASSUME TypeInv, RejectedInv, [Next]_vars
    PROVE  RejectedInv' /\ ((\E k \in Calls : results[k] = "rejected") =>
             ~(caller = "idle" /\ caller' = "notify"))
<1> USE DEF TypeInv, RejectedInv
<1>1. CASE InlineCall
  BY <1>1 DEF InlineCall, Busy, pool, TypeOK
<1>2. CASE RejectCall
  <2>1. ~Busy /\ ~Busy' /\ ~has_work_' /\ remaining_' = remaining_ /\ remaining_ < 0
    BY <1>2 DEF RejectCall, Busy, pool, TypeOK
  <2> QED
    BY <1>2, <2>1 DEF RejectCall
<1>3. CASE InstallBatch
  <2>1. remaining_ = 0 /\ ~Busy /\ Busy' /\ results' = results
    BY <1>3 DEF InstallBatch, Busy
  <2> QED
    BY <2>1
<1>4. CASE CallerReturn
  <2>1. Busy /\ ~Busy' /\ ~has_work_' /\ remaining_' = 0 /\ call' = call
    BY <1>4 DEF CallerReturn, Busy
  <2>2. \A k \in Calls : results'[k] # "rejected"
    BY <1>4, <2>1 DEF CallerReturn, TypeOK
  <2> QED
    BY <2>1, <2>2
<1>5. ASSUME NEW w \in Workers, CountOff(w) PROVE RejectedInv' /\ caller' = caller
  <2>1. (Busy' <=> Busy) /\ has_work_' = has_work_ /\ remaining_' = remaining_ - 1
        /\ results' = results
    BY <1>5 DEF CountOff, Busy
  <2> QED
    BY <1>5, <2>1 DEF TypeOK, CountOff
<1>6. ASSUME UNCHANGED <<remaining_, results>>, Busy' <=> Busy, has_work_' => has_work_,
             caller' # "notify" \/ caller # "idle"
      PROVE  RejectedInv' /\ ~(caller = "idle" /\ caller' = "notify")
  BY <1>6
<1>7. ASSUME NEW w \in Workers, WorkerStep(w), ~CountOff(w)
      PROVE  RejectedInv' /\ ~(caller = "idle" /\ caller' = "notify")
  BY <1>6, <1>7
  DEF WorkerStep, WorkerExit, WorkerEnter, WorkerSleep, Fetch, CompareDone, CompareTake, Invoke,
      InvokeEmpty, TaskReturn, TaskThrow, CatchError, LastWorker, Busy, pool
<1>8. CASE NotifyBatch \/ CallerSleep \/ DestroyStop \/ DestroyNotify \/ DestroyJoin
  BY <1>6, <1>8 DEF NotifyBatch, CallerSleep, DestroyStop, DestroyNotify, DestroyJoin, Busy, pool
<1>9. CASE SpuriousWake \/ Terminated \/ UNCHANGED vars
  BY <1>6, <1>9 DEF SpuriousWake, Terminated, vars, Busy, pool
<1> QED
  BY <1>1, <1>2, <1>3, <1>4, <1>5, <1>7, <1>8, <1>9 DEF Next, CallerStep

\* Once the guard has turned a call of the sequential owner away, the pool never
\* takes another batch, whatever its workers and its calls (runtime.cpp:119).
THEOREM RejectionForGood == Spec => RejectionIsPermanent
<1>1. Init => RejectedInv
  BY DEF Init, RejectedInv, Busy
<1>2. TypeInv /\ RejectedInv /\ [Next]_vars => RejectedInv'
  BY RejectedStep
<1>3. TypeInv /\ RejectedInv /\ [Next]_vars =>
        [\A k \in Calls : results[k] = "rejected" => ~(caller = "idle" /\ caller' = "notify")]_vars
  BY RejectedStep
<1> QED
  BY <1>1, <1>2, <1>3, TypeInit, TypeStep, PTL DEF Spec, RejectionIsPermanent
=============================================================================
