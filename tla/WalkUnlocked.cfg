\* The instance of MCLargeList: the walk without the mutex beside large_free.
CONSTANTS
  b1 = b1
  b2 = b2
  b3 = b3
  n1 = n1
  n2 = n2
  n3 = n3
  m1 = m1
  m2 = m2
  m3 = m3
  t1 = t1
  t2 = t2
  t3 = t3
  Null = Null
  Backings <- MCBackings
  Nodes <- MCNodes
  Metas <- MCMetas
  Threads <- MCThreads
SPECIFICATION Spec
INVARIANT WalkReadsLiveNodes
