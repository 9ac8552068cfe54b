----------------------------- MODULE BuddyIndex -----------------------------
(***************************************************************************)
(* Addresses and tree nodes of one buddy pool (src/buddy.c, the static     *)
(* helpers; src/debug.c keeps copies of three of them for the leak walk).  *)
(*                                                                         *)
(* An address is a page number relative to pool->usable_start.  A block of *)
(* order o is BlockSize[o] pages.  pool->tree is one array in heap order:  *)
(* the root is node 0, and the row of order o begins at RowStart[o], which *)
(* the code computes as 2^depth - 1 with depth = MaxOrder - o.  The two    *)
(* tables are constants so that theorems need no arithmetic on powers of   *)
(* two; the model checker gets the code's values.                          *)
(***************************************************************************)
EXTENDS Integers

CONSTANTS MaxOrder,   \* BUDDY_NUM_ORDERS - 1
          BlockSize,  \* order -> pages in a block of that order
          RowStart    \* order -> first tree node of that order's row

Orders    == 0..MaxOrder
NumOrders == MaxOrder + 1

ASSUME MaxOrderAssumption == MaxOrder \in Nat

\* 1ULL << (order + BUDDY_MIN_ORDER), in pages: doubles from order to order.
ASSUME BlockSizeAssumption ==
  /\ BlockSize \in [Orders -> Nat \ {0}]
  /\ \A o \in Orders : o < MaxOrder => BlockSize[o + 1] = 2 * BlockSize[o]

\* (1ULL << depth) - 1: each row begins right after the row above it, which
\* is one longer than its own start.
ASSUME RowStartAssumption ==
  /\ RowStart \in [Orders -> Nat]
  /\ RowStart[MaxOrder] = 0
  /\ \A o \in Orders : o < MaxOrder => RowStart[o] = 2 * RowStart[o + 1] + 1

\* BUDDY_TREE_NODE_COUNT nodes.
Nodes == 0 .. 2 * RowStart[0]

PoolPages == BlockSize[MaxOrder]

\* Every block the pool can hand out: the i-th of its row.
Rows     == {<<o, i>> : o \in Orders, i \in 0..RowStart[0]}
BlockAt(o, i) == [addr |-> i * BlockSize[o], order |-> o]
Blocks   == {BlockAt(r[1], r[2]) : r \in {x \in Rows : x[2] <= RowStart[x[1]]}}
Addrs    == {b.addr : b \in Blocks}

NodeIndex(addr, order) == RowStart[order] + (addr \div BlockSize[order])
NodePtr(node, order)   == (node - RowStart[order]) * BlockSize[order]

NodeOf(b) == NodeIndex(b.addr, b.order)

Slip_ParentOfLeftOnly(node) == node \div 2
NodeParent(node) == (node - 1) \div 2
NodeLeft(node)   == node * 2 + 1
NodeRight(node)  == node * 2 + 2
NodeBuddy(node)  == IF node % 2 = 1 THEN node + 1 ELSE node - 1

\* The pages of a block, and when two blocks share one.
Pages(b)       == b.addr .. b.addr + BlockSize[b.order] - 1
Disjoint(b, c) == \/ b.addr + BlockSize[b.order] <= c.addr
                  \/ c.addr + BlockSize[c.order] <= b.addr
=============================================================================
