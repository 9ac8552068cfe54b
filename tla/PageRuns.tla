------------------------------ MODULE PageRuns ------------------------------
(***************************************************************************)
(* What a pool promises its caller: blocks that are out never overlap, a   *)
(* request is refused only when no aligned run of its size is free, and a  *)
(* block given back is free at once for any later request.                 *)
(***************************************************************************)
EXTENDS BuddyIndex

CONSTANT NoBlock

VARIABLES out,    \* the blocks the caller holds
          answer  \* the last request's answer: its order, and a block or NoBlock

runVars == <<out, answer>>

Fits(b) == \A c \in out : Disjoint(b, c)

Init ==
  /\ out = {}
  /\ answer = [order |-> 0, block |-> NoBlock]

Grant(t) ==
  \E b \in Blocks :
    /\ b.order = t
    /\ Fits(b)
    /\ out' = out \union {b}
    /\ answer' = [order |-> t, block |-> b]

Refuse(t) ==
  /\ \A b \in Blocks : b.order = t => ~Fits(b)
  /\ answer' = [order |-> t, block |-> NoBlock]
  /\ UNCHANGED out

Return(b) ==
  /\ out' = out \ {b}
  /\ UNCHANGED answer

Next ==
  \/ \E t \in 0..NumOrders : Grant(t) \/ Refuse(t)
  \/ \E b \in out : Return(b)

Spec == Init /\ [][Next]_runVars
=============================================================================
