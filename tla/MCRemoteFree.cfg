\* Three objects, two threads freeing into the owner's arena, a drain every
\* second allocation: enough for a head to be popped and pushed again between
\* another thread's load and swap.
CONSTANTS
  a = a
  b = b
  c = c
  r1 = r1
  r2 = r2
  own = own
  Objects <- MCObjects
  Remotes <- MCRemotes
  Owner <- own
  Interval = 2
  Null = Null
  Data = Data
SPECIFICATION Spec
INVARIANTS
  TypeOK
  Accounted
  NeverPanics
  LinksIntact
PROPERTIES
  ImplementsPendingFrees
  Reclaimed
