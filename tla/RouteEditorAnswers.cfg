SPECIFICATION Spec
CONSTANTS
  none = none
  noRoute = noRoute
  noRow = noRow
  notServed = notServed
  noDraft = noDraft
  PointLists <- TwoPointLists
  NoPoints = "none"
  NumPoints <- TwoNumPoints
  OptionChoices <- Zones
  DefaultOptions <- Plain
  RouteIds <- MCRouteIds
  None = none
  NoRoute = noRoute
  Loops = {"none"}
  NoLoop = "none"
  NoRow = noRow
  NotServed = notServed
  NoDraft = noDraft
  Stock <- OneRow
  Writes <- WholeWrites
  Budget <- AnswersBudget
INVARIANTS
  TypeOK
  RouteMatchesScreen
  AlternativesMatchPoints
  EditModeFollowsLastOpen
