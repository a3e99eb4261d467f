SPECIFICATION StatusSpec
CONSTANTS
  a1 = a1
  r1 = r1
  i1 = i1
  None = None
  Sweeper = Sweeper
  Agents = {a1}
  Runtimes = {r1}
  Issues = {i1}
  Chats = {}
  Polls = {p1}
  Requests = {w1}
  Templates <- OneIssue
  MaxEnqueued = 1
  Cap = 1
  MaxAttempts = 3
  FaultKinds = {"server", "daemon", "network", "gone"}
  MaxFaults = 1
INVARIANT BadgeOwedOrRight
INVARIANT LineageInv
INVARIANT RetryLineage
PROPERTY RestartReportSparesHeld
PROPERTY LifecycleSpec
SYMMETRY Symmetry
