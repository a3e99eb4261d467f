SPECIFICATION Spec
CONSTANTS
  a1 = a1
  r1 = r1
  r2 = r2
  i1 = i1
  c1 = c1
  None = None
  Sweeper = Sweeper
  Agents = {a1}
  Runtimes = {r1}
  Issues = {i1}
  Chats = {c1}
  Polls = {p1, p2}
  Requests = {w1}
  Templates <- IssueAndChat
  MaxEnqueued = 3
  Cap = 1
  MaxAttempts = 1
  FaultKinds = {}
  MaxFaults = 0
INVARIANT TypeOK
INVARIANT OneActivePerIssueAgent
INVARIANT LaneInv
INVARIANT OvershootBounded
INVARIANT UnindexedLanesBounded
SYMMETRY Symmetry
