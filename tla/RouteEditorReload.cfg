SPECIFICATION Spec
CONSTANTS
  none = none
  noRoute = noRoute
  noRow = noRow
  notServed = notServed
  noDraft = noDraft
  PointLists <- TwoPointLists
  NoPoints = "none"
  NumPoints <- TwoNumPoints
  OptionChoices <- PlainOnly
  DefaultOptions <- Plain
  RouteIds <- MCRouteIds
  None = none
  NoRoute = noRoute
  Loops = {"none", "points"}
  NoLoop = "none"
  NoRow = noRow
  NotServed = notServed
  NoDraft = noDraft
  Stock <- OneRow
  Writes <- AllWrites
  Budget <- ReloadBudget
PROPERTIES
  ImplementsDraftAutosave
