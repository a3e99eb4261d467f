--------------------------- MODULE MCTaskDelivery ---------------------------
(* Instances of TaskDelivery for TLC. *)
EXTENDS TaskDelivery

CONSTANTS r1, r2, t1, t2, d1

\* Two rows of two runtimes that want one directory.
Assigned == [t \in Tasks |-> IF t = t1 THEN r1 ELSE r2]
Shared   == [t \in Tasks |-> d1]
=============================================================================
