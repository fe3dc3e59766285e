CONSTANTS
  sensor = sensor
  gain = gain
  other = other
  reset = reset
  None = None
  Names <- MCParameterNames
  Kind <- MCParameterKind
  Fields <- MCFields
  MaxChanges = 3
SPECIFICATION Spec
CHECK_DEADLOCK FALSE
INVARIANTS OpenedIsTarget FormOfSelection
PROPERTIES UneditedFieldsKept
