SPECIFICATION FairSpec
CONSTANTS
  Enqueuers = {e1, e2}
  Claimers = {c1, c2}
  Absent = Absent
  RedisFails = TRUE
  Merges = TRUE
INVARIANT TypeOK
INVARIANT TrustedVerdictHidesNothing
PROPERTY AnnouncedRowClaimed
PROPERTY StallEndsWithTTL
