SPECIFICATION FairSpec
CONSTANTS
  r1 = r1
  r2 = r2
  t1 = t1
  t2 = t2
  d1 = d1
  None = None
  Tasks = {t1, t2}
  Runtimes = {r1, r2}
  Slots = {s1, s2}
  Keys = {d1}
  RuntimeOf <- Assigned
  KeyOf <- Shared
INVARIANT TypeOK
INVARIANT UpdateInterruptsNothing
INVARIANT DirectoryExclusive
PROPERTY SlotsComeBack
