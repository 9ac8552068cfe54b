---------------------------- MODULE MCRemoteFree ----------------------------
(* Small instances of RemoteFree. *)
EXTENDS RemoteFree

CONSTANTS a, b, c, r1, r2, own

MCObjects == {a, b, c}
MCRemotes == {r1, r2}
=============================================================================
