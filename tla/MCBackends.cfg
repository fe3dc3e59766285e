SPECIFICATION Spec
CONSTANTS
  ByteValues = 4
  Kinds <- MCKinds
  Sort <- MCSort
  Size <- MCSize
  Reals <- MCReals
  Nearest <- MCNearest
  Descriptors <- MCDescriptors
  Typed <- MCTyped
  Distorted <- MCDistorted
  Parameters <- MCParameters
  Kind <- MCKind
  Writable <- MCWritable
  Topics = {"t1"}
  None = None
  Operands = "wide"
  MaxReads = 1
INVARIANTS
  UneditedWritesBack
  MockAgrees
PROPERTIES
  SetsWhatItShows
  FailureKeepsOutput
