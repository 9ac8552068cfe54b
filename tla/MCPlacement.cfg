\* Both builds; a source that is zeroed, and gives none for a request of no bytes.
CONSTANTS
  Threshold = 65536
  SizeMax <- MCSizeMax
  Zeroed = TRUE
  EmptyGiven = FALSE
  Sizes <- MCSizes
  Alignments <- MCAlignments
  Offsets <- MCOffsets
  Bases <- MCBases
SPECIFICATION Spec
INVARIANTS
  TypeOK
  InOwnMemory
  OrderLeast
  ZeroedExactly
