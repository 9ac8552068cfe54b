\* The instance of MCArena, with an owner that keeps allocating blocks.
CONSTANTS
  MaxOrder = 1
  BlockSize <- MCBlockSize
  RowStart <- MCRowStart
  NoBlock = NoBlock
  small = small
  big = big
  Classes <- MCClasses
  Capacity <- MCCapacity
  SlabOrder = 0
  Interval = 2
  MaxExtents = 2
  MaxHeld = 2
SPECIFICATION BuddySpec
PROPERTY PendingReclaimed
