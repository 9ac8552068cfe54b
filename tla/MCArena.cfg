\* Two extents of two pages, slabs of one page: a page may be half of a block of
\* order 1, a slab or an object.
CONSTANTS
  MaxOrder = 1
  BlockSize <- MCBlockSize
  RowStart <- MCRowStart
  NoBlock = NoBlock
  small = small
  big = big
  Classes <- MCClasses
  Capacity <- MCCapacity
  SlabOrder = 0
  Interval = 2
  MaxExtents = 2
  MaxHeld = 2
SPECIFICATION Spec
INVARIANTS
  TypeOK
  MappingsAccounted
  SlabLists
  SlotsExact
  BlocksExact
  ObjectsApart
  SlabWalkExact
PROPERTIES
  GrowsOnlyWhenFull
  RefusesOnlyWhenFull
