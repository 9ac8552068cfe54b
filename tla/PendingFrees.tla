---------------------------- MODULE PendingFrees ----------------------------
(***************************************************************************)
(* What freeing from any thread promises: an object given back by a thread *)
(* that does not own the arena is pending until the owner takes it, comes  *)
(* back exactly once, and is handed out again only after that.             *)
(***************************************************************************)
CONSTANTS Objects, Threads

VARIABLES holder,   \* held object -> the thread that may free it
          pending,  \* given back, not yet taken by the owner
          free      \* may be handed out

runVars == <<holder, pending, free>>

\* DOMAIN holder is the set of held objects.
Without(f, x) == [y \in DOMAIN f \ {x} |-> f[y]]
With(f, x, t) == [y \in DOMAIN f \union {x} |-> IF y = x THEN t ELSE f[y]]

Init == /\ holder = [x \in {} |-> CHOOSE t \in Threads : TRUE]
        /\ pending = {}
        /\ free = Objects

HandOut(x, t) == /\ x \in free
                 /\ free' = free \ {x}
                 /\ holder' = With(holder, x, t)
                 /\ UNCHANGED pending

GiveBack(x) == /\ x \in DOMAIN holder
               /\ holder' = Without(holder, x)
               /\ pending' = pending \union {x}
               /\ UNCHANGED free

GiveBackHere(x) == /\ x \in DOMAIN holder
                   /\ holder' = Without(holder, x)
                   /\ free' = free \union {x}
                   /\ UNCHANGED pending

TakeBack(x) == /\ x \in pending
               /\ pending' = pending \ {x}
               /\ free' = free \union {x}
               /\ UNCHANGED holder

Next == \E x \in Objects : \/ \E t \in Threads : HandOut(x, t)
                           \/ GiveBack(x) \/ GiveBackHere(x) \/ TakeBack(x)

Spec == Init /\ [][Next]_runVars
=============================================================================
