---------------------------- MODULE MCIssueCache ----------------------------
(* Instances of IssueCache for TLC: one issue, a board of two columns. *)
EXTENDS IssueCache

CONSTANT i1

TwoColumns == <<"todo", "done">>
=============================================================================
