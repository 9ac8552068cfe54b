---------------------------- MODULE MCFreedRing ----------------------------
(* Small instances of FreedRing. *)
EXTENDS FreedRing

CONSTANTS p, q, r, t1, t2

MCPointers == {p, q, r}
MCThreads  == {t1, t2}
=============================================================================
