CONSTANTS
  a = a
  b = b
  pub = pub
  sub = sub
  Hosts <- MCHosts
  Endpoints <- MCEndpoints
  Host <- MCHost
  App <- MCApp
  Role <- MCRole
  Runtime <- MCRuntime
  RouteIds = {1}
  LocalElements <- MCLocalElements
  LocalEndpoints <- MCLocalEndpoints
  Filters <- MCFilters
  Fresh = 1
  MaxSession = 2
  MaxTime = 3
  MaxChanges = 3
SPECIFICATION Spec
CHECK_DEADLOCK FALSE
INVARIANTS RouteWasActive FiltersOnlyHide AbsentWasAbsent
