---------------------------- MODULE MCBuddyPool ----------------------------
(* Small instances of BuddyPool with the leak collector's walk beside it, and with *)
(* the code's values of the two tables.                                           *)
EXTENDS LeakWalk

MCBlockSize == [o \in 0..MaxOrder |-> 2^o]
MCRowStart  == [o \in 0..MaxOrder |-> 2^(MaxOrder - o) - 1]
=============================================================================
