---------------------------- MODULE MCBumpArena ----------------------------
(* Small instances of BumpArena. *)
EXTENDS BumpArena

MCAlignments == {1, 2, 4}
MCSizes      == {0, 1, 2, 5, SizeMax - 1, SizeMax}
=============================================================================
