SPECIFICATION Spec
CONSTANTS
  none = none
  noRoute = noRoute
  noRow = noRow
  notServed = notServed
  noDraft = noDraft
  PointLists <- TwoPointLists
  NoPoints = "none"
  NumPoints <- TwoNumPoints
  OptionChoices <- PlainOnly
  DefaultOptions <- Plain
  RouteIds <- MCRouteIds
  None = none
  NoRoute = noRoute
  Loops = {"none"}
  NoLoop = "none"
  NoRow = noRow
  NotServed = notServed
  NoDraft = noDraft
  Stock <- NoRows
  Writes <- WholeWrites
  Budget <- SaveBudget
INVARIANTS
  SavedRowsFit
