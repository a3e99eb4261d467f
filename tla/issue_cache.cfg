SPECIFICATION Spec
CONSTANTS
  i1 = i1
  Absent = Absent
  Issues = {i1}
  Opened = i1
  Statuses <- TwoColumns
  MaxEvents = 3
  GroupsCached = FALSE
INVARIANT TypeOK
INVARIANT ListCurrent
INVARIANT MyCurrent
INVARIANT DetailCurrent
CHECK_DEADLOCK FALSE
