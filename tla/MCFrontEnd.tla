----------------------------- MODULE MCFrontEnd -----------------------------
EXTENDS FrontEnd, TLC

CONSTANTS t1, t2, A, B

MCThreads == {t1, t2}
MCAllocators == {A, B}
MCSymmetry == Permutations(MCThreads) \union Permutations(MCAllocators)

\* The states explored: the cells that wait for their arena's thread are those of one
\* arena, two at most (the parts of a large object).
MCFewWait ==
  LET waiting == {c \in Cells : heap[c].kind = "waiting"}
  IN /\ Cardinality(waiting) <= 2
     /\ \A c, d \in waiting : heap[c] = heap[d]
=============================================================================
