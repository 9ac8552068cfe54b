CONSTANTS
  t1 = t1  t2 = t2
  A = A  B = B
  Threads <- MCThreads
  Allocators <- MCAllocators
  NCells = 6
  MaxHeld = 1
  MaxSlab = 1
  MaxPool = 2
  SizeMax = 3
  Zeroed = TRUE
  Places = {"here"}
SYMMETRY MCSymmetry
SPECIFICATION Spec
CONSTRAINT MCFewWait
CHECK_DEADLOCK FALSE
INVARIANTS
  TypeOK
  HandedOut
  ContentsKept
  InfoTrue
PROPERTIES
  Confined
