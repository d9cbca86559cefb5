\* The legs of a reversed route, dropped on before the new one is computed.
SPECIFICATION Spec
CONSTANTS
  Places = {0, 1, 2}
  Generated <- MCGenerated
  ViaPoints <- MCViaPoints
  Saved <- MCSaved
  TypedPlaces = {1}
  MaxWaypoints = 4
  MaxChanges = 3
PROPERTIES
  StaleBoundariesUnused
CHECK_DEADLOCK FALSE
