\* Up to four points on a road of three places; a limit that a loop with two points
\* imposed reaches.
SPECIFICATION Spec
CONSTANTS
  Places = {0, 1, 2}
  Generated <- MCGenerated
  ViaPoints <- MCViaPoints
  Saved <- MCSaved
  TypedPlaces = {1}
  MaxWaypoints = 4
  MaxChanges = 3
INVARIANTS
  TypeOK
PROPERTIES
  StepsStayInside
  FormFollowsPoints
  LoopFits
CHECK_DEADLOCK FALSE
