---------------------------- MODULE MCDesktopTabs ----------------------------
(* Instances of DesktopTabs for TLC. *)
EXTENDS DesktopTabs, TLC

CONSTANTS t1, t2

TwoWorkspaces ==
  {[slug |-> "acme", page |-> "issues"], [slug |-> "acme", page |-> "inbox"],
   [slug |-> "bell", page |-> "issues"]}

TabSymmetry == Permutations(Ids)
=============================================================================
