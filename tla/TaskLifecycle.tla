--------------------------- MODULE TaskLifecycle ---------------------------
(***************************************************************************)
(* What a row of agent_task_queue promises to everyone who reads it: its   *)
(* status moves along the edges of Legal and along no other, so a row that *)
(* reached a terminal status never leaves it.  One step may move several   *)
(* rows: the sweeps and the bulk cancels are single UPDATE statements.     *)
(*                                                                         *)
(* TaskQueue implements this specification.                                *)
(***************************************************************************)
EXTENDS TaskStatus

CONSTANT Tasks

VARIABLE status

Init == status = [t \in Tasks |-> "absent"]

Next == /\ status' \in [Tasks -> Statuses]
        /\ \A t \in Tasks : status'[t] # status[t] => <<status[t], status'[t]>> \in Legal

Spec == Init /\ [][Next]_status
=============================================================================
