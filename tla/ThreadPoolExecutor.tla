------------------------- MODULE ThreadPoolExecutor -------------------------
(***************************************************************************)
(* The persistent worker pool of safe_box_forest/src/runtime.cpp and the   *)
(* thread that owns it.  The owner makes one parallel_for(0, n, fn) call   *)
(* after another (every caller in the repository passes begin = 0) and     *)
(* finally destroys the pool.  Each worker runs worker_loop.               *)
(*                                                                         *)
(* A step is one access to shared state: a critical section of mutex_ is   *)
(* one action, and so is each access worker_loop makes without the mutex   *)
(* (next_.fetch_add, the read of end_, the call of fn_, remaining_         *)
(* .fetch_sub).  The two condition variables are the sets of threads whose *)
(* pc is "asleep"; a notification moves them back to "wait", where the     *)
(* predicate is evaluated again.                                           *)
(***************************************************************************)
EXTENDS Integers, Sequences, FiniteSets

CONSTANTS
    Workers,     \* the threads of threads_
    Sizes,       \* Sizes[k] is the number of items of the k-th parallel_for
    IntMax,      \* the largest int
    AfterIntMax  \* what fetch_add(1) leaves behind when next_ is IntMax:
                 \*   -IntMax - 1 is the program (two's complement wrap);
                 \*   IntMax makes IntMax stand for "any number that large"

ASSUME WorkersAssumption == Workers # {} /\ IsFiniteSet(Workers)
ASSUME SizesAssumption == Sizes \in Seq(Nat)
ASSUME IntAssumption == /\ IntMax \in Nat
                        /\ AfterIntMax \in {IntMax, -IntMax - 1}
                        /\ \A k \in 1..Len(Sizes) : Sizes[k] <= IntMax

Calls == 1..Len(Sizes)
NoFn == 0               \* fn_ = {}

VARIABLES
    pc,            \* where each worker is in worker_loop
    item,          \* worker_loop's local item
    job,           \* the call whose fn a worker last invoked
    caller,        \* where the owner is
    call,          \* the parallel_for calls made so far
    next_, remaining_, end_, fn_, has_work_, stop_, first_error_,
    started,       \* history: <<call, item>> pairs passed to some fn
    repeated,      \* history: pairs passed to fn more than once
    finished,      \* history: pairs counted off from remaining_
    threw,         \* history: calls one of whose items threw
    astray,        \* history: a batch may have met a number that next_ handed
                   \*   out before it began, or after next_ wrapped
    results        \* how each call ended

pool    == <<next_, remaining_, end_, fn_, has_work_, stop_, first_error_>>
history == <<started, repeated, finished, threw, astray>>
vars    == <<pc, item, job, caller, call, pool, history, results>>

Init ==
    /\ pc = [w \in Workers |-> "wait"]
    /\ item = [w \in Workers |-> 0]
    /\ job = [w \in Workers |-> NoFn]
    /\ caller = "idle"
    /\ call = 0
    /\ next_ = 0 /\ remaining_ = 0 /\ end_ = 0 /\ fn_ = NoFn
    /\ has_work_ = FALSE /\ stop_ = FALSE /\ first_error_ = FALSE
    /\ started = {} /\ repeated = {} /\ finished = {} /\ threw = {} /\ astray = FALSE
    /\ results = [k \in Calls |-> "pending"]

Goto(w, from, to) == pc[w] = from /\ pc' = [pc EXCEPT ![w] = to]
Increment(n) == IF n = IntMax THEN AfterIntMax ELSE n + 1

\* work_cv_.notify_all(): every sleeping worker evaluates its predicate again.
NotifyWorkers(p) == [w \in Workers |-> IF p[w] = "asleep" THEN "wait" ELSE p[w]]

-----------------------------------------------------------------------------
(* The owner. *)

\* The early return and the inline path: no item, one item, or one thread.
\* InlineExecutor stops at the first item m that throws.
Inline(k) == Sizes[k] <= 1 \/ Cardinality(Workers) <= 1

InlineCall ==
    LET k == call + 1 IN
    /\ caller = "idle" /\ k \in Calls /\ Inline(k)
    /\ call' = k
    /\ \E m \in 0..Sizes[k] :
         /\ started' = started \cup {<<k, i>> : i \in 0..(Sizes[k] - 1) \cap 0..m}
         /\ threw' = IF m < Sizes[k] THEN threw \cup {k} ELSE threw
         /\ results' = [results EXCEPT ![k] = IF m < Sizes[k] THEN "error" ELSE "ok"]
    /\ UNCHANGED <<pc, item, job, caller, pool, repeated, finished, astray>>

RejectCall ==
    LET k == call + 1 IN
    /\ caller = "idle" /\ k \in Calls /\ ~Inline(k)
    /\ has_work_ \/ remaining_ # 0
    /\ call' = k
    /\ results' = [results EXCEPT ![k] = "rejected"]
    /\ UNCHANGED <<pc, item, job, caller, pool, history>>

InstallWhenNoWork ==
    LET k == call + 1 IN
    /\ caller = "idle" /\ k \in Calls /\ ~Inline(k) /\ ~has_work_
    /\ call' = k
    /\ end_' = Sizes[k] /\ fn_' = k /\ first_error_' = FALSE
    /\ next_' = 0 /\ remaining_' = Sizes[k]
    /\ has_work_' = TRUE
    /\ caller' = "notify"
    /\ astray' = (astray \/ \E w \in Workers : pc[w] = "compare" /\ item[w] < Sizes[k])
    /\ UNCHANGED <<pc, item, job, stop_, started, repeated, finished, threw, results>>

InstallBatch ==
    LET k == call + 1 IN
    /\ caller = "idle" /\ k \in Calls /\ ~Inline(k)
    /\ ~(has_work_ \/ remaining_ # 0)
    /\ call' = k
    /\ end_' = Sizes[k] /\ fn_' = k /\ first_error_' = FALSE
    /\ next_' = 0 /\ remaining_' = Sizes[k]
    /\ has_work_' = TRUE
    /\ caller' = "notify"
    /\ astray' = (astray \/ \E w \in Workers : pc[w] = "compare" /\ item[w] < Sizes[k])
    /\ UNCHANGED <<pc, item, job, stop_, started, repeated, finished, threw, results>>

NotifyBatch ==
    /\ caller = "notify" /\ caller' = "wait"
    /\ pc' = NotifyWorkers(pc)
    /\ UNCHANGED <<item, job, call, pool, history, results>>

\* done_cv_.wait evaluates its predicate holding the mutex ...
CallerSleep ==
    /\ caller = "wait" /\ remaining_ # 0
    /\ caller' = "asleep"
    /\ UNCHANGED <<pc, item, job, call, pool, history, results>>

ReturnWhenClaimed ==
    /\ caller = "wait" /\ next_ >= end_
    /\ caller' = "idle" /\ remaining_' = 0
    /\ fn_' = NoFn /\ has_work_' = FALSE /\ first_error_' = FALSE
    /\ results' = [results EXCEPT ![call] = IF first_error_ THEN "error" ELSE "ok"]
    /\ UNCHANGED <<pc, item, job, call, next_, end_, stop_, history>>

\* ... and parallel_for ends in the critical section in which it holds.
CallerReturn ==
    /\ caller = "wait" /\ remaining_ = 0
    /\ caller' = "idle"
    /\ fn_' = NoFn /\ has_work_' = FALSE /\ first_error_' = FALSE
    /\ results' = [results EXCEPT ![call] = IF first_error_ THEN "error" ELSE "ok"]
    /\ UNCHANGED <<pc, item, job, call, next_, remaining_, end_, stop_, history>>

\* The destructor: set stop_, notify, join every thread.
DestroyStop ==
    /\ caller = "idle" /\ caller' = "destroy"
    /\ stop_' = TRUE /\ has_work_' = FALSE
    /\ UNCHANGED <<pc, item, job, call, next_, remaining_, end_, fn_,
                   first_error_, history, results>>

DestroyNotify ==
    /\ caller = "destroy" /\ caller' = "join"
    /\ pc' = NotifyWorkers(pc)
    /\ UNCHANGED <<item, job, call, pool, history, results>>

DestroyJoin ==
    /\ caller = "join" /\ \A w \in Workers : pc[w] = "exited"
    /\ caller' = "gone"
    /\ UNCHANGED <<pc, item, job, call, pool, history, results>>

-----------------------------------------------------------------------------
(* worker_loop. *)

WorkerExit(w) ==
    /\ stop_
    /\ Goto(w, "wait", "exited")
    /\ UNCHANGED <<item, job, caller, call, pool, history, results>>

WorkerEnter(w) ==
    /\ ~stop_ /\ has_work_
    /\ Goto(w, "wait", "fetch")
    /\ UNCHANGED <<item, job, caller, call, pool, history, results>>

WorkerSleep(w) ==
    /\ ~(stop_ \/ has_work_)
    /\ Goto(w, "wait", "asleep")
    /\ UNCHANGED <<item, job, caller, call, pool, history, results>>

Fetch(w) ==
    /\ Goto(w, "fetch", "compare")
    /\ item' = [item EXCEPT ![w] = next_]
    /\ next_' = Increment(next_)
    /\ astray' = (astray \/ next_' < next_)
    /\ UNCHANGED <<job, caller, call, remaining_, end_, fn_, has_work_, stop_,
                   first_error_, started, repeated, finished, threw, results>>

\* end_ is read without the mutex: it may belong to a later call than item.
CompareDone(w) ==
    /\ item[w] >= end_
    /\ Goto(w, "compare", "wait")
    /\ UNCHANGED <<item, job, caller, call, pool, history, results>>

CompareOffByOne(w) ==
    /\ item[w] <= end_
    /\ Goto(w, "compare", "call")
    /\ UNCHANGED <<item, job, caller, call, pool, history, results>>

CompareTake(w) ==
    /\ item[w] < end_
    /\ Goto(w, "compare", "call")
    /\ UNCHANGED <<item, job, caller, call, pool, history, results>>

Invoke(w) ==
    LET p == <<fn_, item[w]>> IN
    /\ fn_ # NoFn
    /\ Goto(w, "call", "running")
    /\ job' = [job EXCEPT ![w] = fn_]
    /\ started' = started \cup {p}
    /\ repeated' = IF p \in started THEN repeated \cup {p} ELSE repeated
    /\ UNCHANGED <<item, caller, call, pool, finished, threw, astray, results>>

\* An empty std::function throws bad_function_call.
InvokeEmpty(w) ==
    /\ fn_ = NoFn
    /\ Goto(w, "call", "catch")
    /\ job' = [job EXCEPT ![w] = NoFn]
    /\ UNCHANGED <<item, caller, call, pool, history, results>>

TaskReturn(w) ==
    /\ Goto(w, "running", "sub")
    /\ UNCHANGED <<item, job, caller, call, pool, history, results>>

TaskThrow(w) ==
    /\ Goto(w, "running", "catch")
    /\ threw' = threw \cup {job[w]}
    /\ UNCHANGED <<item, job, caller, call, pool, started, repeated, finished, astray,
                   results>>

CatchError(w) ==
    /\ Goto(w, "catch", "sub")
    /\ first_error_' = TRUE
    /\ UNCHANGED <<item, job, caller, call, next_, remaining_, end_, fn_,
                   has_work_, stop_, history, results>>

CountOff(w) ==
    /\ Goto(w, "sub", IF remaining_ = 1 THEN "last" ELSE "fetch")
    /\ remaining_' = remaining_ - 1
    /\ finished' = finished \cup {<<job[w], item[w]>>}
    /\ UNCHANGED <<item, job, caller, call, next_, end_, fn_, has_work_, stop_,
                   first_error_, started, repeated, threw, astray, results>>

LastWithoutNotify(w) ==
    /\ Goto(w, "last", "wait")
    /\ has_work_' = FALSE
    /\ UNCHANGED <<item, job, caller, call, next_, remaining_, end_, fn_, stop_,
                   first_error_, history, results>>

\* The worker that saw the count reach zero closes the batch and notifies
\* both condition variables, then breaks out to the outer loop.
LastWorker(w) ==
    /\ pc[w] = "last"
    /\ pc' = [NotifyWorkers(pc) EXCEPT ![w] = "wait"]
    /\ has_work_' = FALSE
    /\ caller' = IF caller = "asleep" THEN "wait" ELSE caller
    /\ UNCHANGED <<item, job, call, next_, remaining_, end_, fn_, stop_,
                   first_error_, history, results>>

\* A wait may wake with nobody notifying it.
SpuriousWake ==
    /\ \/ /\ \E w \in Workers : Goto(w, "asleep", "wait")
          /\ UNCHANGED caller
       \/ /\ caller = "asleep" /\ caller' = "wait"
          /\ UNCHANGED pc
    /\ UNCHANGED <<item, job, call, pool, history, results>>

-----------------------------------------------------------------------------
CallerStep ==
    \/ InlineCall \/ RejectCall \/ InstallBatch \/ NotifyBatch
    \/ CallerSleep \/ CallerReturn
    \/ DestroyStop \/ DestroyNotify \/ DestroyJoin

WorkerStep(w) ==
    \/ WorkerExit(w) \/ WorkerEnter(w) \/ WorkerSleep(w)
    \/ Fetch(w) \/ CompareDone(w) \/ CompareTake(w)
    \/ Invoke(w) \/ InvokeEmpty(w) \/ TaskReturn(w) \/ TaskThrow(w)
    \/ CatchError(w) \/ CountOff(w) \/ LastWorker(w)

Terminated == caller = "gone" /\ UNCHANGED vars

Next == CallerStep \/ (\E w \in Workers : WorkerStep(w)) \/ SpuriousWake \/ Terminated

Spec == Init /\ [][Next]_vars

\* Threads are scheduled fairly and a task returns or throws; nothing makes a
\* spurious wakeup happen.
FairSpec == Spec /\ WF_vars(CallerStep) /\ \A w \in Workers : WF_vars(WorkerStep(w))

-----------------------------------------------------------------------------
(* Properties. *)

Busy == caller \in {"notify", "wait", "asleep"}
Pooled(k) == k \in Calls /\ ~Inline(k)
Returned(k) == results[k] \in {"ok", "error"}
Ints == (-IntMax - 1)..IntMax

PairType == Calls \X Int

\* The variables keep their types; next_ stays an int whatever the spinning
\* workers do to it (runtime.cpp:157).
TypeOK ==
    /\ pc \in [Workers -> {"wait", "asleep", "fetch", "compare", "call", "running",
                           "catch", "sub", "last", "exited"}]
    /\ item \in [Workers -> Ints]
    /\ job \in [Workers -> {NoFn} \cup Calls]
    /\ caller \in {"idle", "notify", "wait", "asleep", "destroy", "join", "gone"}
    /\ call \in {0} \cup Calls
    /\ next_ \in Ints /\ remaining_ \in Int /\ end_ \in Nat
    /\ fn_ \in {NoFn} \cup Calls
    /\ has_work_ \in BOOLEAN /\ stop_ \in BOOLEAN /\ first_error_ \in BOOLEAN
    /\ started \in SUBSET PairType /\ repeated \in SUBSET PairType
    /\ finished \in SUBSET (({NoFn} \cup Calls) \X Int)
    /\ threw \in SUBSET Calls /\ astray \in BOOLEAN
    /\ results \in [Calls -> {"pending", "ok", "error", "rejected"}]

\* No fn sees the same item twice, although a worker late from one call may
\* compare its item against the end_ of the next one (runtime.cpp:157-158).
EachItemAtMostOnce == repeated = {}

\* A pooled parallel_for that has returned ran every item of its range, and
\* none is still running: the references its lambda captured may now die
\* (runtime.cpp:133-137).
ReturnMeansAllDone ==
    \A k \in Calls : Pooled(k) /\ Returned(k) =>
        /\ \A i \in 0..(Sizes[k] - 1) : <<k, i>> \in finished
        /\ \A w \in Workers : job[w] = k => pc[w] \notin {"running", "catch", "sub"}

\* fn is only invoked with an item of the range it was passed with
\* (runtime.cpp:157-162).
ItemsInRange == \A p \in started : p[2] \in 0..(Sizes[p[1]] - 1)

\* A call rethrows exactly when one of its own items threw: no error is lost
\* to another call or leaks into it (runtime.cpp:163-168, 138-142).
ErrorBelongsToCall ==
    \A k \in Calls : Returned(k) => (results[k] = "error" <=> k \in threw)

\* While an item runs, a parallel_for made from inside it on the same pool is
\* turned away by the guard of runtime.cpp:119, never installed over the batch.
NestedCallRejected ==
    \A w \in Workers : pc[w] = "running" => has_work_ \/ remaining_ # 0

\* The guard of runtime.cpp:119-121 turns away nested calls only: an owner
\* that makes its calls one after another is never rejected.
SequentialCallsAccepted == \A k \in Calls : results[k] # "rejected"

\* A number goes astray only when a call is larger than an earlier one of the
\* pool, whose last fetch is still on its way to the test, or when next_ wraps
\* (runtime.cpp:122-128, 157-158).
AstrayOnlyByGrowth ==
    astray => \/ AfterIntMax # IntMax
              \/ \E j, k \in 1..call : j < k /\ Pooled(j) /\ Pooled(k) /\ Sizes[j] < Sizes[k]

\* The contract of a call, whatever the calls before and after it: each item
\* runs once, inside its call, and the call answers for it; nothing breaks it
\* but a number gone astray (runtime.cpp:114-173).
CallContract ==
    /\ TypeOK /\ AstrayOnlyByGrowth
    /\ ~astray => EachItemAtMostOnce /\ ReturnMeansAllDone /\ ItemsInRange /\ ErrorBelongsToCall

\* The guard of runtime.cpp:119 tells a nested call from the next one: until a
\* number goes astray it turns away exactly what would deadlock.
GuardExact == ~astray => SequentialCallsAccepted /\ NestedCallRejected

\* A pool that has rejected one call of its sequential owner never accepts a
\* pooled call again: nothing resets remaining_ (runtime.cpp:119).
RejectionIsPermanent ==
    [][\A k \in Calls : results[k] = "rejected" =>
          ~(caller = "idle" /\ caller' = "notify")]_vars

\* Every parallel_for returns (runtime.cpp:133).
EveryCallReturns == Busy ~> caller = "idle"

\* The first parallel_for of a pool always returns, whatever calls follow it:
\* nothing earlier can have left has_work_ or a late worker behind
\* (runtime.cpp:133).
FirstCallReturns == Busy /\ call = 1 ~> caller = "idle"

\* Destroying the pool joins every worker (runtime.cpp:92-104).
DestructionCompletes == caller = "destroy" ~> caller = "gone"

\* The first call of a pool and its destruction end, although workers sleep
\* and wake as they like (runtime.cpp:92-173).
CallsEnd == FirstCallReturns /\ DestructionCompletes

\* What callers rely on, as the abstract specification ParallelFor.
Contract == INSTANCE ParallelFor WITH
    todo <- IF Busy THEN {i \in 0..(end_ - 1) : <<call, i>> \notin started} ELSE {},
    active <- IF Busy THEN {i \in 0..(end_ - 1) : /\ <<call, i>> \in started
                                                /\ <<call, i>> \notin finished} ELSE {},
    failed <- Busy /\ call \in threw,
    busy <- Busy

\* Until a number goes astray, each step of the pool is a step of ParallelFor
\* or changes nothing a caller can see (runtime.cpp:106-178).
ImplementsParallelFor ==
    Contract!Init /\ [][~astray' => [Contract!Next]_(Contract!vars)]_vars
=============================================================================
