------------------------------ MODULE LeakWalk ------------------------------
(***************************************************************************)
(* The leak collector's walk of a buddy pool (src/debug.c:                 *)
(* collect_buddy_leaks and traverse_buddy_nodes): down from the root       *)
(* through the nodes that say SPLIT; where one says FULL it follows the    *)
(* word at the block's start to a header, and reports the block unless the *)
(* header says that it is a slab's region.                                 *)
(*                                                                         *)
(* It trusts two things that outlive a block: the states of the tree,      *)
(* below the nodes a merge frees, and the flag in a header, which          *)
(* buddy_free leaves as it is.  Of a header only the flag is followed      *)
(* here: its magic and order are written by buddy_alloc for the block      *)
(* itself, and `live' is what those say.                                   *)
(***************************************************************************)
EXTENDS BuddyPool

CONSTANT SlabOrder   \* the order that serves SLAB_SIZE

ASSUME SlabOrderAssumption == SlabOrder \in Orders

VARIABLES
  marked,   \* the addresses whose last header has is_slab_region set
  regions   \* ghost: the live blocks that arena_alloc_slab_region has taken

walkVars == <<vars, marked, regions>>

WalkInit == Init /\ marked = {} /\ regions = {}

-----------------------------------------------------------------------------
(* The flag of a header, as buddy_alloc writes it and the arena then sets it *)

Slip_FlagKept == marked
FlagCleared   == marked \ {block}

AllocBlock ==
  /\ AllocFinish
  /\ marked' = FlagCleared
  /\ UNCHANGED regions

\* arena_alloc_slab_region sets the flag before its caller sees the block.
AllocRegion ==
  /\ AllocFinish
  /\ target = SlabOrder
  /\ marked' = FlagCleared \union {block}
  /\ regions' = regions \union {[addr |-> block, order |-> target]}

FreeBlock(b) ==
  /\ FreeTake(b)
  /\ regions' = regions \ {b}
  /\ UNCHANGED marked

WalkNext ==
  \/ AllocBlock \/ AllocRegion
  \/ \E b \in live : FreeBlock(b)
  \/ /\ \/ \E t \in 0..NumOrders : AllocRefuse(t) \/ AllocTake(t)
        \/ AllocSplit \/ FreeMerge \/ FreeFinish
     /\ UNCHANGED <<marked, regions>>

WalkSpec == WalkInit /\ [][WalkNext]_walkVars

-----------------------------------------------------------------------------
(* The walk *)

Descends(o, n) == o > 0 /\ tree[n] = "SPLIT"

\* The nodes of the tree, each with the order of its row, as the walk is handed them.
Places == {<<b.order, NodeOf(b)>> : b \in Blocks}

\* traverse_buddy_nodes: the blocks whose headers the walk reads, from a node down.
Walk[p \in Places] ==
  LET o == p[1]
      n == p[2]
  IN IF tree[n] = "FULL" THEN {[addr |-> NodePtr(n, o), order |-> o]}
     ELSE IF Descends(o, n)
          THEN Walk[<<o - 1, NodeLeft(n)>>] \union Walk[<<o - 1, NodeRight(n)>>]
          ELSE {}

HeadersRead == Walk[<<MaxOrder, 0>>]

\* What the header that is found must say: magic and order of the block, and no slab.
IsLeak(b) == b \in live /\ b.addr \notin marked

Reported == {b \in HeadersRead : IsLeak(b)}

-----------------------------------------------------------------------------
(* Properties *)

\* Between operations the walk reads the headers of the blocks the pool has handed
\* out, each of them and no other: a stale FULL below a merged block never sends it
\* through a free-list link, and no block is hidden below a node that is not SPLIT.
\* It reports exactly those that are no slab's region, whatever earlier blocks at the
\* same places were: a flag left behind hides no later block, and no slab is taken
\* for a leak.
WalkIsExact == pc = "idle" => HeadersRead = live /\ Reported = live \ regions

-----------------------------------------------------------------------------
(* What makes it inductive: the flag at a live block's address is its own *)

FlagsOwn ==
  /\ regions \subseteq live
  /\ \A b \in live : b.addr \in marked <=> b \in regions
=============================================================================
