SPECIFICATION Spec

CONSTANTS
  OperationCounts = {1, 3, 101}
  ByteSpan = 256
  SectionCutoff = 100

INVARIANT
  SectionsDivideRootBytes

CHECK_DEADLOCK FALSE
