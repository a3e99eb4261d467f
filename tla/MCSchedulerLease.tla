-------------------------- MODULE MCSchedulerLease --------------------------
(* Instances of SchedulerLease for TLC. *)
EXTENDS SchedulerLease

OneTickBackoff == <<1>>
=============================================================================
