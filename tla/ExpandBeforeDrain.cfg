\* The instance of MCArena; arena_alloc may grow before it drains.
CONSTANTS
  MaxOrder = 1
  BlockSize <- MCBlockSize
  RowStart <- MCRowStart
  NoBlock = NoBlock
  small = small
  big = big
  Classes <- MCClasses
  Capacity <- MCCapacity
  SlabOrder = 0
  Interval = 2
  MaxExtents = 2
  MaxHeld = 2
SPECIFICATION Spec
PROPERTY ReclaimsBeforeGrowing
