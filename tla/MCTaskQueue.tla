---------------------------- MODULE MCTaskQueue ----------------------------
(* Instances of TaskQueue for TLC. *)
EXTENDS TaskQueue, TLC

CONSTANTS a1, r1, r2, i1, c1

Row(r, i, c, p) == [agent |-> a1, runtime |-> r, issue |-> i, chat |-> c, origin |-> "user", prio |-> p]

\* The templates of the runs: the lane the pending index backs and one it does not back;
\* a chat row and a quick-create of one agent on two runtimes.
IssueAndChat == {Row(r1, i1, None, 0), Row(r1, None, c1, 0)}
TwoRuntimes  == {Row(r1, None, c1, 0), Row(r2, None, None, 1)}

Symmetry == Permutations(Polls) \cup Permutations(Requests)
=============================================================================
