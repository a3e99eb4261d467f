--------------------------- MODULE PlanLifecycle ---------------------------
(***************************************************************************)
(* What sys_cron_executions promises about the plans of one job, to the    *)
(* operators and the lag gauges that read it: the attempts of a plan are   *)
(* numbered and at most MaxAttempts, a plan is SUCCESS only when the       *)
(* handler of the attempt it is in has returned without an error, and      *)
(* SUCCESS is final.  One step may close several plans: the sweep is a     *)
(* single UPDATE statement.                                                *)
(*                                                                         *)
(* SchedulerLease implements this specification.                           *)
(***************************************************************************)
EXTENDS Integers

CONSTANTS Plans, MaxAttempts

VARIABLES
  status,    \* "none", "RUNNING", "SUCCESS" or "FAILED"
  attempt,   \* the number of the latest attempt, 0 before the first
  returned   \* the attempts whose handler returned without an error

Init == /\ status = [p \in Plans |-> "none"]
        /\ attempt = [p \in Plans |-> 0]
        /\ returned = {}

Attempted(p) == /\ status[p] # "SUCCESS" /\ status'[p] = "RUNNING"
                /\ attempt[p] < MaxAttempts /\ attempt'[p] = attempt[p] + 1

Failed(p) == /\ status[p] = "RUNNING" /\ status'[p] = "FAILED"
             /\ attempt'[p] = attempt[p]

Succeeded(p) == /\ status[p] = "RUNNING" /\ status'[p] = "SUCCESS"
                /\ attempt'[p] = attempt[p]
                /\ <<p, attempt[p]>> \in returned

Unmoved(p) == status'[p] = status[p] /\ attempt'[p] = attempt[p]

Next == /\ \A p \in Plans : Attempted(p) \/ Failed(p) \/ Succeeded(p) \/ Unmoved(p)
        /\ returned \subseteq returned'
        /\ \A e \in returned' \ returned : e[1] \in Plans /\ e[2] \in 1 .. attempt[e[1]]

Spec == Init /\ [][Next]_<<status, attempt, returned>>
=============================================================================
