CONSTANTS
  c1 = c1
  c2 = c2
  c3 = c3
  c4 = c4
  destructor = destructor
  run = run
  Requests <- MCRequests
  Stoppers <- MCStoppers
  Capacity = 2
  NoJob = NoJob
  Nobody = Nobody
SPECIFICATION Spec
CHECK_DEADLOCK FALSE
INVARIANTS TypeOK ExactlyOnePlace QuietAfterStop
PROPERTIES ImplementsService AcceptedIsAnswered StopReturns
