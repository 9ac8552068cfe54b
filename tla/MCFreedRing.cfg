\* A ring shorter than the pointers there are, so that records are pushed out.
CONSTANTS
  p = p
  q = q
  r = r
  t1 = t1
  t2 = t2
  Pointers <- MCPointers
  Threads <- MCThreads
  Window = 2
  Null = Null
SPECIFICATION Spec
INVARIANTS
  NoFalseAlarm
  WindowExact
