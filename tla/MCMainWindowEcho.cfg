CONSTANTS
  sensor = sensor
  gain = gain
  other = other
  reset = reset
  None = None
  Names <- MCEchoNames
  Kind <- MCEchoKind
  Fields <- MCNoFields
  MaxChanges = 4
SPECIFICATION Spec
CHECK_DEADLOCK FALSE
INVARIANTS OpenedIsTarget
PROPERTIES EchoContract EchoEndsWithPublisher
