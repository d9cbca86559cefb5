SPECIFICATION Spec
CONSTANTS
  u0 = u0
  u1 = u1
  u2 = u2
  r0 = r0
  r1 = r1
  r2 = r2
  e0 = e0
  e1 = e1
  e2 = e2
  l0 = l0
  l1 = l1
  none = none
  Users <- MCUsers
  NoUser = u0
  EmptyUsers <- MCEmptyUsers
  Routes <- MCRoutes
  NoRoute = r0
  EditingIds <- MCEditingIds
  NotEditing = e0
  Loops <- MCLoops
  NoLoop = l0
  NoDraft = none
  Writes <- AllWrites
SYMMETRY Symmetry
INVARIANTS
  TypeOK
  DraftIsScreen
  NoGhostDraft
  CleanDraftIsScreen
