------------------------------ MODULE SlabWalk ------------------------------
(***************************************************************************)
(* What the leak collector reads of an arena's slabs (src/debug.c:         *)
(* collect_slab_leaks), called by the arena's owner between its other      *)
(* calls: every cache, both its lists, every slot that is not on its       *)
(* slab's free list.  It asks nothing of the stack of remote frees.  The   *)
(* slots it leaves out because a large object uses them are LargeList's.   *)
(***************************************************************************)
EXTENDS Arena

Slip_PartialOnly(c) == partial[c]
Visited(c)          == partial[c] \o full[c]

\* The slots of a slab that are not on its free list (is_ptr_in_freelist), and a step of
\* the walk for each leak_push: the slab it has come to, by its place, and the slot.
Busy(r)   == {i \in 1..Capacity[slabs[r].owner] : ~Contains(slabs[r].free, i)}
Pushes(c) == UNION {{<<k, i>> : i \in Busy(Visited(c)[k])} : k \in DOMAIN Visited(c)}
SlotReported(c, push) == Slot(Visited(c)[push[1]], push[2])

\* Between calls the walk reports, each once, exactly the objects in slabs that the
\* program holds or that another thread has freed and no drain has taken yet.
SlabWalkExact ==
  pc = "idle" =>
    \A c \in Classes :
      /\ \A p, q \in Pushes(c) : SlotReported(c, p) = SlotReported(c, q) => p = q
      /\ {SlotReported(c, p) : p \in Pushes(c)} =
           {x \in held \union pending : x.type = "slab" /\ slabs[RegionOf(x)].owner = c}
=============================================================================
