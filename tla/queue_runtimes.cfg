SPECIFICATION FairSpec
CONSTANTS
  a1 = a1
  r1 = r1
  r2 = r2
  i1 = i1
  c1 = c1
  None = None
  Sweeper = Sweeper
  Agents = {a1}
  Runtimes = {r1, r2}
  Issues = {}
  Chats = {c1}
  Polls = {p1}
  Requests = {w1}
  Templates <- TwoRuntimes
  MaxEnqueued = 2
  Cap = 1
  MaxAttempts = 1
  FaultKinds = {"daemon", "network", "server", "gone"}
  MaxFaults = 2
PROPERTY Drains
