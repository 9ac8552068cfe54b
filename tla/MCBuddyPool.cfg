\* A pool of 8 pages: four orders, three levels of splitting and merging.
\* Slabs take four pages, so that each place of one holds smaller blocks at other times.
CONSTANTS
  MaxOrder = 3
  BlockSize <- MCBlockSize
  RowStart <- MCRowStart
  NoBlock = NoBlock
  SlabOrder = 2
SPECIFICATION WalkSpec
INVARIANTS
  NoOverlap
  NothingLost
  BuddyListed
  Coalesced
  IInv
  WalkIsExact
PROPERTY ImplementsPageRuns
