\* Three threads and the collector, three allocations at a time: a list with a
\* first, a middle and a last node.
CONSTANTS
  b1 = b1
  b2 = b2
  b3 = b3
  n1 = n1
  n2 = n2
  n3 = n3
  m1 = m1
  m2 = m2
  m3 = m3
  t1 = t1
  t2 = t2
  t3 = t3
  Null = Null
  Backings <- MCBackings
  Nodes <- MCNodes
  Metas <- MCMetas
  Threads <- MCThreads
SPECIFICATION Spec
SYMMETRY MCSymmetry
INVARIANTS
  TypeOK
  ListExact
  NothingKept
  LockedWalkExact
