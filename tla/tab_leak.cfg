SPECIFICATION Spec
CONSTANTS
  t1 = t1
  t2 = t2
  None = None
  Slugs = {"acme", "bell"}
  Scopes <- TwoWorkspaces
  Issues = "issues"
  Ids = {t1, t2}
  LinksElsewhere = TRUE
  MaxHistory = 2
  MaxLate = 1
SYMMETRY TabSymmetry
CHECK_DEADLOCK FALSE
INVARIANT TabsStayInWorkspace
