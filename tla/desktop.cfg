SPECIFICATION FairSpec
CONSTANTS
  alice = alice
  bob = bob
  Users = {alice, bob}
  None = None
  Slots = 2
  MaxActs = 3
  ProbesFail = FALSE
INVARIANT TypeOK
INVARIANT DaemonIsTheSessions
INVARIANT FilesOfOneUser
PROPERTY AuthFailureSurfaces
