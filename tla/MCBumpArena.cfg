\* Words of four bits, blocks of six cells behind a header of two: a request may
\* fit the block, need padding, need a block of its own, or wrap.
CONSTANTS
  SizeMax = 15
  HeaderSize = 2
  BlockSize = 6
  MaxAlign = 2
  Alignments <- MCAlignments
  Sizes <- MCSizes
  ParentGives = 15
  MaxBlocks = 3
  MaxPieces = 4
SPECIFICATION Spec
INVARIANTS
  PiecesFit
  ContentsKept
  BlocksReturned
