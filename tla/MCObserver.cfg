CONSTANTS
  poll = poll
  goal = goal
  Requests <- MCRequests
  Privileged <- MCPrivileged
  Stoppers <- MCStoppers
  Capacity = 1
  NoJob = NoJob
  Nobody = "nobody"
  Explicit = TRUE
SPECIFICATION ObserverSpec
CHECK_DEADLOCK FALSE
INVARIANTS ObserverTypeOK StopLeavesNothing DiscoveryStopsLast
PROPERTIES StopNetworkReturns
