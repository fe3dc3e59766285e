CONSTANTS
  e1 = e1
  e2 = e2
  h1 = h1
  none = none
  local = local
  noQuestion = noQuestion
  Pages <- MCParameterPages
  Endpoints <- MCTwo
  Place <- MCTwoPlace
  Hosts <- MCHosts
  HostOf <- MCHostOf
  Kind <- MCParameterKind
  Nothing = none
  Local = local
  NoQuestion = noQuestion
  MaxChurn = 1
  Capacity = 6
  MaxActivities = 2
  MaxClicks = 4
SPECIFICATION Spec
CHECK_DEADLOCK FALSE
PROPERTY SelectsWhatWasClicked
