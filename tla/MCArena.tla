------------------------------ MODULE MCArena ------------------------------
(* Small instances of Arena, with the code's values of the two tables. *)
EXTENDS SlabWalk

CONSTANTS small, big

MCBlockSize == [o \in 0..MaxOrder |-> 2^o]
MCRowStart  == [o \in 0..MaxOrder |-> 2^(MaxOrder - o) - 1]
MCClasses   == {small, big}
MCCapacity  == [c \in MCClasses |-> IF c = small THEN 3 ELSE 2]
=============================================================================
