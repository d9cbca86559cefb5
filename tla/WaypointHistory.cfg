\* Two screens can be undone, so that the bound is met by a third change.
SPECIFICATION Spec
CONSTANTS
  here = here
  there = there
  zone = zone
  Places <- MCPlaces
  Zones <- MCZones
  MaxHistory = 2
  MaxPoints = 2
  MaxIds = 3
  Drafts <- MCDrafts
INVARIANTS
  TypeOK
  IdsUnique
  HistoryBounded
PROPERTY
  ImplementsUndoTimeline
