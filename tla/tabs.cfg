SPECIFICATION Spec
CONSTANTS
  t1 = t1
  t2 = t2
  None = None
  Slugs = {"acme", "bell"}
  Scopes <- TwoWorkspaces
  Issues = "issues"
  Ids = {t1, t2}
  LinksElsewhere = FALSE
  MaxHistory = 2
  MaxLate = 1
SYMMETRY TabSymmetry
INVARIANT TypeOK
INVARIANT ActiveTabExists
INVARIANT PinnedTabsFirst
INVARIANT TabsStayInWorkspace
INVARIANT BarsShowTheRouter
PROPERTY RestartKeepsTabs
CHECK_DEADLOCK FALSE
