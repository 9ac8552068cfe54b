------------------------------ MODULE BuddyPool ------------------------------
(***************************************************************************)
(* One buddy pool (src/buddy.c): buddy_pool_create, buddy_alloc and        *)
(* buddy_free.  The two operations are loops over the tree; each iteration *)
(* is a step here, with the loop's local variables as state, so that the   *)
(* invariants are those of the loops.  Only the thread that owns the arena *)
(* runs them, one at a time: while `pc' is not "idle" only the operation's *)
(* next step is enabled.                                                   *)
(*                                                                         *)
(* A request is the order that size_to_order gives it; NumOrders stands    *)
(* for every answer out of range (NumOrders and 6767 in the code).         *)
(***************************************************************************)
EXTENDS BuddyIndex, Sequences, FiniteSets, FiniteSetsExt, SequencesExt

CONSTANT NoBlock   \* NULL

VARIABLES
  tree,        \* pool->tree: node -> "FREE" | "SPLIT" | "FULL"
  free_lists,  \* pool->free_lists: order -> addresses, head first
  live,        \* what the headers of the caller's allocations say
  pc,          \* "idle", in buddy_alloc ("split") or in buddy_free ("merge")
  block,       \* the block in hand: its address
  order,       \*   and its order (current_order, order)
  target,      \* buddy_alloc's target_order
  node,        \* buddy_free's node_index
  answer       \* the last request and what buddy_alloc returned for it

(* The operators named Slip_ are not the code: each is the definition below it *)
(* with one plausible mistake, which some property must notice.              *)

locals == <<pc, block, order, target, node>>
vars   == <<tree, free_lists, live, locals, answer>>

NodeStates == {"FREE", "SPLIT", "FULL"}

\* The block an operation has in hand.
InHand == IF pc = "idle" THEN {} ELSE {[addr |-> block, order |-> order]}
Listed == {b \in Blocks : b.addr \in ToSet(free_lists[b.order])}
Leaves == live \union Listed \union InHand

\* node_mark_split with its two children freed, and node_mark_full.
MarkSplit(n) == [tree EXCEPT ![n] = "SPLIT", ![NodeLeft(n)] = "FREE",
                                             ![NodeRight(n)] = "FREE"]
Slip_FullUnmarked(n) == tree
MarkFull(n)  == [tree EXCEPT ![n] = "FULL"]

\* Where splitting cuts the block in hand, and where it begins once merged.
UpperHalf      == block + BlockSize[order - 1]
Slip_KeepsAddress(addr) == block
LowerOf(addr) == IF addr < block THEN addr ELSE block

\* list_push, and list_remove of a block wherever it is on the list.
Slip_StaysListed(list, addr) == list
Unlink(list, addr) == IF addr \in ToSet(list)
                      THEN RemoveAt(list, CHOOSE i \in DOMAIN list : list[i] = addr)
                      ELSE list
ListPush(o, addr)   == [free_lists EXCEPT ![o] = <<addr>> \o @]
ListRemove(o, addr) == [free_lists EXCEPT ![o] = Unlink(@, addr)]

Init ==
  /\ tree = [n \in Nodes |-> IF n = 0 THEN "FREE" ELSE "FULL"]
  /\ free_lists = [o \in Orders |-> IF o = MaxOrder THEN <<0>> ELSE <<>>]
  /\ live = {}
  /\ pc = "idle" /\ block = 0 /\ order = 0 /\ target = 0 /\ node = 0
  /\ answer = [order |-> 0, block |-> NoBlock]

Return == /\ pc' = "idle"
          /\ block' = 0 /\ order' = 0 /\ target' = 0 /\ node' = 0

-----------------------------------------------------------------------------
(* buddy_alloc *)

Slip_ExactOrder(t) == {o \in Orders : o = t /\ free_lists[o] # <<>>}
Candidates(t) == {o \in Orders : o >= t /\ free_lists[o] # <<>>}

AllocRefuse(t) ==
  /\ pc = "idle"
  /\ Candidates(t) = {}
  /\ answer' = [order |-> t, block |-> NoBlock]
  /\ UNCHANGED <<tree, free_lists, live, locals>>

AllocTake(t) ==
  /\ pc = "idle"
  /\ \E o \in Candidates(t) :
       /\ \A c \in Candidates(t) : o <= c
       /\ block' = Head(free_lists[o])
       /\ order' = o
       /\ free_lists' = ListRemove(o, Head(free_lists[o]))
  /\ pc' = "split"
  /\ target' = t
  /\ UNCHANGED <<tree, live, node, answer>>

\* One iteration of the splitting loop: keep the left half, list the right.
AllocSplit ==
  /\ pc = "split"
  /\ order > target
  /\ tree' = MarkSplit(NodeIndex(block, order))
  /\ order' = order - 1
  /\ free_lists' = ListPush(order - 1, UpperHalf)
  /\ UNCHANGED <<live, pc, block, target, node, answer>>

AllocFinish ==
  /\ pc = "split"
  /\ order <= target
  /\ tree' = MarkFull(NodeIndex(block, target))
  /\ LET b == [addr |-> block, order |-> target] IN
       /\ live' = live \union {b}
       /\ answer' = [order |-> target, block |-> b]
  /\ Return
  /\ UNCHANGED free_lists

-----------------------------------------------------------------------------
(* buddy_free *)

FreeTake(b) ==
  /\ pc = "idle"
  /\ live' = live \ {b}
  /\ node' = NodeOf(b)
  /\ tree' = [tree EXCEPT ![NodeOf(b)] = "FREE"]
  /\ pc' = "merge"
  /\ block' = b.addr
  /\ order' = b.order
  /\ UNCHANGED <<free_lists, target, answer>>

Slip_StopsBelowRoot == order < MaxOrder - 1 /\ tree[NodeBuddy(node)] = "FREE"
BuddyIsFree == order < MaxOrder /\ tree[NodeBuddy(node)] = "FREE"

\* One iteration of the merging loop.
FreeMerge ==
  /\ pc = "merge"
  /\ BuddyIsFree
  /\ LET buddy  == NodeBuddy(node)
         addr   == NodePtr(buddy, order)
         parent == NodeParent(node)
     IN /\ free_lists' = ListRemove(order, addr)
        /\ tree' = [tree EXCEPT ![node] = "FREE", ![buddy] = "FREE",
                                ![parent] = "FREE"]
        /\ block' = LowerOf(addr)
        /\ node' = parent
  /\ order' = order + 1
  /\ UNCHANGED <<live, pc, target, answer>>

FreeFinish ==
  /\ pc = "merge"
  /\ ~BuddyIsFree
  /\ free_lists' = ListPush(order, block)
  /\ Return
  /\ UNCHANGED <<tree, live, answer>>

-----------------------------------------------------------------------------
Next ==
  \/ \E t \in 0..NumOrders : AllocRefuse(t) \/ AllocTake(t)
  \/ AllocSplit
  \/ AllocFinish
  \/ \E b \in live : FreeTake(b)
  \/ FreeMerge
  \/ FreeFinish

Spec == Init /\ [][Next]_vars

-----------------------------------------------------------------------------
(* Properties *)

TypeOK ==
  /\ tree \in [Nodes -> NodeStates]
  /\ free_lists \in [Orders -> Seq(Addrs)]
  /\ live \subseteq Blocks
  /\ pc \in {"idle", "split", "merge"}
  /\ block \in Addrs /\ order \in Orders /\ target \in Orders /\ node \in Nodes
  /\ InHand \subseteq Blocks
  /\ \A o \in Orders : \A a \in ToSet(free_lists[o]) :
       [addr |-> a, order |-> o] \in Blocks
  /\ answer.order \in 0..NumOrders
  /\ answer.block \in Blocks \union {NoBlock}

\* Inside the loops: buddy_alloc never splits below the order asked for, and
\* buddy_free's node_index is the node of the block it has in hand although the
\* two are updated apart (the block moves down to its buddy, the index up).
LoopOK ==
  /\ pc = "split" => target <= order
  /\ pc = "merge" => node = NodeIndex(block, order)

\* Split and merge keep the pool partitioned: a block that is allocated, on a
\* free list or in an operation's hand is in only one of these places, once,
\* and shares no page with any other (buddy_alloc's and buddy_free's loops).
NoOverlap ==
  /\ live \intersect Listed = {}
  /\ InHand \intersect (live \union Listed) = {}
  /\ \A o \in Orders : IsInjective(free_lists[o])
  /\ \A b, c \in Leaves : b # c => Disjoint(b, c)

\* No page is ever lost: whatever split and merge do, the blocks allocated,
\* listed or in hand cover the whole pool.
NothingLost == UNION {Pages(b) : b \in Leaves} = 0..(PoolPages - 1)

\* The tree, which is all that buddy_free looks at, agrees with the lists and
\* the headers: a listed block's node says FREE, an allocated one's FULL, and
\* every node above either says SPLIT.  The stale states that a merge leaves
\* below a FREE node are never taken for blocks.
TreeAgrees ==
  /\ \A b \in Listed : tree[NodeOf(b)] = "FREE"
  /\ \A b \in live   : tree[NodeOf(b)] = "FULL"
  /\ \A b \in live \union Listed : b.order < MaxOrder =>
       tree[NodeParent(NodeOf(b))] = "SPLIT"

\* When buddy_free decides from the tree that the buddy is free, the block it
\* unlinks really is on the list of its order: list_remove never unlinks a
\* block that is in use, or that is listed under another order.
BuddyListed ==
  pc = "merge" /\ BuddyIsFree =>
    [addr |-> NodePtr(NodeBuddy(node), order), order |-> order] \in Listed

\* Between operations no two buddies are both free: buddy_free merges as far
\* as it can and buddy_alloc lists only halves whose other half is in use.
Coalesced ==
  pc = "idle" => \A b, c \in Listed :
    b.order = c.order /\ b.order < MaxOrder =>
      NodeOf(c) # NodeBuddy(NodeOf(b))

\* The pool implements PageRuns: what it hands out is disjoint from all that
\* is out, and it refuses only when no aligned run of the order is free, so
\* splitting and merging never fragment the pool more than the caller does.
Runs == INSTANCE PageRuns WITH out <- live
ImplementsPageRuns == Runs!Spec

-----------------------------------------------------------------------------
(* The inductive invariant *)

\* What makes NoOverlap and BuddyListed inductive, for every block: the tree is
\* exact about the blocks held, a FREE node below a SPLIT one is a block on a
\* list or in hand (so a merge can trust the tree), and SPLIT nodes hang below
\* SPLIT nodes (so a merge strands nothing).
TreeExact ==
  LET free   == Listed \union InHand
      leaves == Leaves
  IN \A b \in Blocks :
       /\ b \in free => tree[NodeOf(b)] = "FREE"
       /\ b \in live => tree[NodeOf(b)] = "FULL"
       /\ b.order < MaxOrder =>
            LET above == tree[NodeParent(NodeOf(b))] IN
            /\ b \in leaves => above = "SPLIT"
            /\ tree[NodeOf(b)] = "FREE" /\ above = "SPLIT" => b \in free
            /\ tree[NodeOf(b)] = "SPLIT" => above = "SPLIT"

\* What makes Coalesced inductive, and what a refusal rests on:
\* below a SPLIT node (and at the root) a node that is not SPLIT is a block in
\* one of the three places, and no step ever lists both halves of a block.
TreeComplete ==
  LET leaves == Leaves
  IN \A b \in Blocks :
       LET state == tree[NodeOf(b)] IN
       /\ state = "SPLIT" => b.order > 0
       /\ (b.order < MaxOrder => tree[NodeParent(NodeOf(b))] = "SPLIT") /\ state # "SPLIT"
            => b \in leaves

NeverBoth == \A b, c \in Listed : b.order < MaxOrder => NodeOf(c) # NodeBuddy(NodeOf(b))

Exact == TypeOK /\ LoopOK /\ NoOverlap /\ TreeExact
IInv  == Exact /\ TreeComplete /\ NeverBoth
=============================================================================
