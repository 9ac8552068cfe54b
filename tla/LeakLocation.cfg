\* The instance of MCPlacement, in a debug build.
CONSTANTS
  Threshold = 65536
  SizeMax <- MCSizeMax
  Zeroed = TRUE
  EmptyGiven = FALSE
  Sizes <- MCSizes
  Alignments <- MCAlignments
  Offsets <- MCOffsets
  Bases <- MCBases
SPECIFICATION Spec
INVARIANT LocationRead
