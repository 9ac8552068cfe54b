---------------------------- MODULE MCLargeList ----------------------------
(* Small instances of LargeList. *)
EXTENDS LargeList, TLC

CONSTANTS b1, b2, b3, n1, n2, n3, m1, m2, m3, t1, t2, t3

MCBackings == {b1, b2, b3}
MCNodes    == {n1, n2, n3}
MCMetas    == {m1, m2, m3}
MCThreads  == {t1, t2, t3}

\* Backings, nodes and metadata are each interchangeable, and so are the threads.
MCSymmetry == Permutations(MCBackings) \union Permutations(MCNodes)
              \union Permutations(MCMetas) \union Permutations(MCThreads)
=============================================================================
