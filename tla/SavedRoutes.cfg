\* Three writes: two that overlap, and one to see what they left.
SPECIFICATION Spec
CONSTANTS
  Absent = absent
  Ids <- MCIds
  Contents <- MCContents
  NewContents <- MCNewContents
  Stock <- MCStock
  MaxCalls = 3
  MaxOthers = 2
INVARIANTS
  TypeOK
  ListSettles
  DisabledButtonsWait
  RowsStayWhole
CHECK_DEADLOCK FALSE
