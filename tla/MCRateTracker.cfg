CONSTANTS
  Counters <- MCCounters
  Window = 2
  Horizon = 3
  Depth = 3
  Width = 2
  MaxCount = 2
  MaxTotal = 3
  MaxTime = 6
SPECIFICATION Spec
CHECK_DEADLOCK FALSE
INVARIANTS NeverOverstated NoMeasurementAcrossGap ExactWithoutRestart
