--------------------------- MODULE MCLectDatabase ---------------------------
(* Values for checking LectDatabase on small databases. *)
EXTENDS LectDatabase

CONSTANTS v1, v2

OneValue == {v1}
TwoValues == {v1, v2}

\* A user whose splits end in split_to_box or ensure_depth.
FlushingOps == {"split_to_box", "put", "read", "checkpoint"}
\* One that calls split_leaf, as DatabaseBoxOracle does.
LeafOps == {"split_leaf", "put"}
BulkOps == {"split_to_box", "put", "bulk", "checkpoint"}
KillOps == FlushingOps \cup {"split_leaf", "split_toward_box"}
AllOps == KillOps \cup {"delete", "bulk"}

CloseOnly == {"close"}
Kills == {"close", "crash"}
AllFaults == {"close", "crash", "tear", "replace"}
=============================================================================
