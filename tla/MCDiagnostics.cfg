CONSTANTS
  Hosts <- MCTwo
  MaxGeneration = 1
SPECIFICATION Spec
CHECK_DEADLOCK FALSE
INVARIANTS TypeOK 
PROPERTIES NoStarvation
