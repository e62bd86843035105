----------------------------- MODULE ParallelFor ----------------------------
(***************************************************************************)
(* What TaskExecutor::parallel_for promises its caller: the items of a     *)
(* call are each handed to fn once, in any order and with any overlap; an  *)
(* item that throws does not keep the others from running; the call ends   *)
(* when nothing of it is left to run or running, with an error exactly     *)
(* when an item threw.  A call may also run on the caller's own thread,    *)
(* where the first error ends it.                                          *)
(***************************************************************************)
EXTENDS Integers, Sequences

CONSTANT Sizes       \* Sizes[k]: number of items of the k-th call

VARIABLES call,      \* calls made so far
          busy,      \* a call is under way
          todo,      \* its items not yet handed to fn
          active,    \* its items that fn is working on
          failed,    \* one of its items threw
          results    \* how each call ended

vars == <<call, busy, todo, active, failed, results>>

Init ==
    /\ call = 0 /\ busy = FALSE /\ todo = {} /\ active = {} /\ failed = FALSE
    /\ results = [k \in 1..Len(Sizes) |-> "pending"]

OnCallersThread ==
    /\ ~busy /\ call < Len(Sizes)
    /\ call' = call + 1
    /\ \E r \in {"ok", "error"} : results' = [results EXCEPT ![call + 1] = r]
    /\ UNCHANGED <<busy, todo, active, failed>>

Start ==
    /\ ~busy /\ call < Len(Sizes)
    /\ call' = call + 1 /\ busy' = TRUE
    /\ todo' = 0..(Sizes[call + 1] - 1)
    /\ UNCHANGED <<active, failed, results>>

Begin(i) ==
    /\ busy /\ i \in todo
    /\ todo' = todo \ {i} /\ active' = active \cup {i}
    /\ UNCHANGED <<call, busy, failed, results>>

Throw ==
    /\ active # {} /\ failed' = TRUE
    /\ UNCHANGED <<call, busy, todo, active, results>>

End(i) ==
    /\ i \in active /\ active' = active \ {i}
    /\ UNCHANGED <<call, busy, todo, failed, results>>

Return ==
    /\ busy /\ todo = {} /\ active = {}
    /\ busy' = FALSE /\ failed' = FALSE
    /\ results' = [results EXCEPT ![call] = IF failed THEN "error" ELSE "ok"]
    /\ UNCHANGED <<call, todo, active>>

Next ==
    \/ OnCallersThread \/ Start \/ Throw \/ Return
    \/ \E i \in todo : Begin(i)
    \/ \E i \in active : End(i)

Spec == Init /\ [][Next]_vars
=============================================================================
