CONSTANTS
  States <- MCStates
  MaxChanges = 3
  MaxCycles = 4
SPECIFICATION Spec
CHECK_DEADLOCK FALSE
INVARIANTS PeersOfTheirSession StoppedStaysClear
PROPERTIES StopReturns
