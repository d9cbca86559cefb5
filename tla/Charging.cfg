\* A cell holds two stations at most: two pages, and room for a short one.
SPECIFICATION Spec
CONSTANTS
  Requests = {r1, r2}
  Trips <- MCTrips
  Stations <- MCStations
  Sources <- MCSources
  Position <- MCPosition
  CellHeight = 6
  SearchRadius = 6
  MaxDetour = 12
  BoxSpan <- MCBoxSpan
  PageSize = 1
  MaxPages = 2
  MaxFetches = 2
  MaxStops = 3
  TTL = 0
  MaxTime = 1
INVARIANTS
  TypeOK
  PlacementIsRight
  PlanKeepsAutonomy
  UserLegsKept
PROPERTIES
  RequestsEnd
CHECK_DEADLOCK FALSE
