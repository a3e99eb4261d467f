--------------------------- MODULE MCAgentStatus ---------------------------
(* Instances of AgentStatus for TLC. *)
EXTENDS AgentStatus, TLC

CONSTANTS a1, r1, i1

\* One row on an issue, and its retries.
OneIssue == {[agent |-> a1, runtime |-> r1, issue |-> i1, chat |-> None, origin |-> "user", prio |-> 0]}

Symmetry == Permutations(Polls) \cup Permutations(Requests)
=============================================================================
