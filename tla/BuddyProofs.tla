---------------------------- MODULE BuddyProofs ----------------------------
(***************************************************************************)
(* Theorems about BuddyPool, for every number of orders and any tables     *)
(* that satisfy the assumptions of BuddyIndex: blocks stay apart, no page  *)
(* is lost, free buddies are merged, and the pool implements PageRuns.     *)
(***************************************************************************)
EXTENDS LeakWalk, WellFoundedInduction, TLAPS

-----------------------------------------------------------------------------
(* Lists and sets of naturals *)

\* A set of naturals has a least element.  Every induction below is an argument
\* about the least counterexample.
LEMMA LeastNatural ==
  ASSUME NEW S \in SUBSET Nat, S # {}
  PROVE  \E m \in S : \A k \in S : m <= k
<1> DEFINE R == OpToRel(<, Nat)
<1>1. IsWellFoundedOn(R, Nat)
  BY NatLessThanWellFounded
<1>2. \A i, j \in Nat : i < j => <<i, j>> \in R
  BY DEF OpToRel
<1> HIDE DEF R
<1>3. PICK m \in S : \A k \in S : ~(<<k, m>> \in R)
  <2>1. \E m \in S : \A k \in S : ~(<<k, m>> \in R)
    BY <1>1, WFMin
  <2> QED BY <2>1
<1>4. ASSUME NEW k \in S PROVE m <= k
  <2>1. m \in Nat /\ k \in Nat
    OBVIOUS
  <2>2. ~(k < m)
    BY <2>1, <1>2, <1>3
  <2> QED BY <2>1, <2>2
<1> QED BY <1>4

\* list_push, slab_push: the elements gain the new head, and a list without
\* repetition stays one when the new head was not on it.
LEMMA PushElements ==
  ASSUME NEW S, NEW s \in Seq(S), NEW a \in S
  PROVE  /\ <<a>> \o s \in Seq(S)
         /\ ToSet(<<a>> \o s) = {a} \union ToSet(s)
         /\ IsInjective(s) /\ a \notin ToSet(s) => IsInjective(<<a>> \o s)
<1> DEFINE t == <<a>> \o s
<1>1. /\ t \in Seq(S) /\ Len(t) = Len(s) + 1 /\ t[1] = a
      /\ \A i \in 1..Len(s) : t[i + 1] = s[i]
  OBVIOUS
<1>2. \A i \in 2..Len(t) : i - 1 \in 1..Len(s) /\ t[i] = s[i - 1]
  OBVIOUS
<1>3. ToSet(t) = {a} \union ToSet(s)
  <2>1. ToSet(t) \subseteq {a} \union ToSet(s)
    BY <1>1, <1>2 DEF ToSet
  <2>2. a \in ToSet(t)
    BY <1>1 DEF ToSet
  <2>3. ToSet(s) \subseteq ToSet(t)
    <3> SUFFICES ASSUME NEW i \in 1..Len(s) PROVE s[i] \in ToSet(t)
      BY DEF ToSet
    <3>1. i + 1 \in 1..Len(t) /\ t[i + 1] = s[i]
      BY <1>1
    <3> HIDE DEF t
    <3> QED BY <3>1, <1>1 DEF ToSet
  <2> QED BY <2>1, <2>2, <2>3
<1>4. ASSUME IsInjective(s), a \notin ToSet(s) PROVE IsInjective(t)
  <2> SUFFICES ASSUME NEW i \in 1..Len(t), NEW j \in 1..Len(t), t[i] = t[j]
               PROVE  i = j
    BY <1>1 DEF IsInjective
  <2>1. \A k \in 2..Len(t) : t[k] \in ToSet(s)
    BY <1>2 DEF ToSet
  <2>2. CASE i = 1 /\ j = 1
    BY <2>2
  <2>3. CASE i = 1 /\ j # 1
    BY <2>3, <2>1, <1>1, <1>4
  <2>4. CASE i # 1 /\ j = 1
    BY <2>4, <2>1, <1>1, <1>4
  <2>5. CASE i # 1 /\ j # 1
    BY <2>5, <1>2, <1>4 DEF IsInjective
  <2> QED BY <2>2, <2>3, <2>4, <2>5
<1> QED BY <1>1, <1>3, <1>4

\* list_remove, slab_remove: unlinking the one occurrence of an element leaves
\* exactly the others, still without repetition.
LEMMA UnlinkElements ==
  ASSUME NEW S, NEW s \in Seq(S), IsInjective(s), NEW k \in DOMAIN s
  PROVE  /\ RemoveAt(s, k) \in Seq(S)
         /\ ToSet(RemoveAt(s, k)) = ToSet(s) \ {s[k]}
         /\ IsInjective(RemoveAt(s, k))
<1> DEFINE r == RemoveAt(s, k)
<1>1. /\ r \in Seq(S) /\ Len(r) = Len(s) - 1 /\ k \in 1..Len(s)
      /\ \A i \in 1..Len(r) : r[i] = IF i < k THEN s[i] ELSE s[i + 1]
  <2> DEFINE before == SubSeq(s, 1, k - 1)
             after  == SubSeq(s, k + 1, Len(s))
  <2>1. k \in 1..Len(s) /\ Len(s) \in Nat
    OBVIOUS
  <2>2. /\ before \in Seq(S) /\ Len(before) = k - 1
        /\ \A i \in 1..(k - 1) : before[i] = s[i]
    OBVIOUS
  <2>3. /\ after \in Seq(S) /\ Len(after) = Len(s) - k
        /\ \A i \in 1..(Len(s) - k) : after[i] = s[k + i]
    OBVIOUS
  <2>4. r = before \o after
    BY DEF RemoveAt
  <2> HIDE DEF before, after, r
  <2>5. r \in Seq(S) /\ Len(r) = Len(s) - 1
    BY <2>1, <2>2, <2>3, <2>4
  <2>6. ASSUME NEW i \in 1..Len(r) PROVE r[i] = IF i < k THEN s[i] ELSE s[i + 1]
    <3>1. r[i] = IF i <= Len(before) THEN before[i] ELSE after[i - Len(before)]
      BY <2>2, <2>3, <2>4
    <3>2. CASE i < k
      BY <3>1, <3>2, <2>1, <2>2, <2>5
    <3>3. CASE ~(i < k)
      <4>1. i - (k - 1) \in 1..(Len(s) - k) /\ k + (i - (k - 1)) = i + 1
        BY <3>3, <2>1, <2>5
      <4>2. r[i] = after[i - (k - 1)]
        BY <3>1, <3>3, <2>1, <2>2, <2>5
      <4>3. after[i - (k - 1)] = s[k + (i - (k - 1))]
        BY <4>1, <2>3
      <4> QED BY <4>1, <4>2, <4>3, <3>3
    <3> QED BY <3>2, <3>3
  <2> QED BY <2>1, <2>5, <2>6
<1> HIDE DEF r
<1>2. ToSet(r) \subseteq ToSet(s) \ {s[k]}
  <2> SUFFICES ASSUME NEW i \in 1..Len(r) PROVE r[i] \in ToSet(s) /\ r[i] # s[k]
    BY <1>1 DEF ToSet
  <2>1. CASE i < k
    BY <2>1, <1>1 DEF ToSet, IsInjective
  <2>2. CASE ~(i < k)
    BY <2>2, <1>1 DEF ToSet, IsInjective
  <2> QED BY <2>1, <2>2
<1>3. ToSet(s) \ {s[k]} \subseteq ToSet(r)
  <2> SUFFICES ASSUME NEW i \in 1..Len(s), s[i] # s[k] PROVE s[i] \in ToSet(r)
    BY DEF ToSet
  <2>1. CASE i < k
    BY <2>1, <1>1 DEF ToSet
  <2>2. CASE i > k
    <3>1. i - 1 \in 1..Len(r) /\ r[i - 1] = s[i]
      BY <2>2, <1>1
    <3> QED BY <3>1, <1>1 DEF ToSet
  <2> QED BY <2>1, <2>2, <1>1
<1>4. IsInjective(r)
  <2> SUFFICES ASSUME NEW i \in 1..Len(r), NEW j \in 1..Len(r), r[i] = r[j]
               PROVE  i = j
    BY <1>1 DEF IsInjective
  <2> DEFINE at(n) == IF n < k THEN n ELSE n + 1
  <2>1. /\ at(i) \in DOMAIN s /\ at(j) \in DOMAIN s
        /\ r[i] = s[at(i)] /\ r[j] = s[at(j)]
    BY <1>1
  <2>2. at(i) = at(j)
    <3> HIDE DEF at
    <3> QED BY <2>1 DEF IsInjective
  <2> QED BY <2>2, <1>1
<1> QED BY <1>1, <1>2, <1>3, <1>4 DEF r

-----------------------------------------------------------------------------
(* The node arithmetic of BuddyIndex.  A block is written BlockAt(o, i), the *)
(* i-th of its row; every lemma reduces the code's pointer arithmetic to     *)
(* arithmetic on i.                                                          *)

\* Rows never overlap: a row ends before the row below it begins.
LEMMA RowsApart ==
  ASSUME NEW a \in Orders, NEW b \in Orders, a < b
  PROVE  RowStart[a] > 2 * RowStart[b]
<1> DEFINE Wrong == {n \in Nat : n > 0 /\ n <= b /\ ~(RowStart[b - n] > 2 * RowStart[b])}
<1> SUFFICES ASSUME ~(RowStart[a] > 2 * RowStart[b]) PROVE FALSE
  OBVIOUS
<1>1. a \in Nat /\ b \in Nat /\ b <= MaxOrder /\ b - (b - a) = a
  BY MaxOrderAssumption DEF Orders
<1>2. Wrong \in SUBSET Nat /\ b - a \in Wrong
  BY <1>1
<1>3. PICK n \in Wrong : \A k \in Wrong : n <= k
  <2> HIDE DEF Wrong
  <2> QED BY <1>2, LeastNatural
<1>4. n \in Nat /\ n > 0 /\ n <= b /\ ~(RowStart[b - n] > 2 * RowStart[b])
  OBVIOUS
<1>5. b - n \in Orders /\ b - n < MaxOrder /\ (b - n) + 1 = b - (n - 1)
      /\ b - (n - 1) \in Orders
  BY <1>1, <1>4, MaxOrderAssumption DEF Orders
<1>6. RowStart[b - n] = 2 * RowStart[b - (n - 1)] + 1
  BY <1>5, RowStartAssumption
<1>7. RowStart[b] \in Nat /\ RowStart[b - (n - 1)] \in Nat
  BY <1>5, RowStartAssumption
<1>8. CASE n = 1
  BY <1>1, <1>4, <1>6, <1>7, <1>8
<1>9. CASE n # 1
  <2>1. n - 1 \in Nat /\ n - 1 > 0 /\ n - 1 <= b /\ ~(n <= n - 1)
    BY <1>1, <1>4, <1>9
  <2>2. RowStart[b - (n - 1)] > 2 * RowStart[b]
    BY <2>1, <1>3
  <2> QED BY <2>2, <1>4, <1>6, <1>7
<1> QED BY <1>8, <1>9

\* The tables have natural values, and a row above starts earlier.
LEMMA TableTypes ==
  ASSUME NEW o \in Orders
  PROVE  /\ RowStart[o] \in Nat
         /\ BlockSize[o] \in Nat \ {0}
         /\ o < MaxOrder => /\ o + 1 \in Orders
                            /\ RowStart[o] = 2 * RowStart[o + 1] + 1
                            /\ BlockSize[o + 1] = 2 * BlockSize[o]
         /\ RowStart[o] <= RowStart[0]
<1>1. RowStart[o] \in Nat /\ BlockSize[o] \in Nat \ {0}
  BY BlockSizeAssumption, RowStartAssumption
<1>2. ASSUME o < MaxOrder PROVE o + 1 \in Orders
  BY <1>2, MaxOrderAssumption DEF Orders
<1>3. ASSUME o < MaxOrder
      PROVE  RowStart[o] = 2 * RowStart[o + 1] + 1 /\ BlockSize[o + 1] = 2 * BlockSize[o]
  BY <1>3, BlockSizeAssumption, RowStartAssumption
<1>4. RowStart[o] <= RowStart[0]
  <2>1. 0 \in Orders /\ RowStart[0] \in Nat
    BY MaxOrderAssumption, RowStartAssumption DEF Orders
  <2>2. CASE o = 0
    BY <2>1, <2>2
  <2>3. CASE 0 < o
    BY <1>1, <2>1, <2>3, RowsApart
  <2> QED BY <2>2, <2>3 DEF Orders
<1> QED BY <1>1, <1>2, <1>3, <1>4

\* Dividing an exact multiple of a positive number gives the factor back.
LEMMA ExactQuotient ==
  ASSUME NEW i \in Nat, NEW s \in Nat \ {0}
  PROVE  (i * s) \div s = i
OBVIOUS

\* The blocks of the pool are exactly the BlockAt of each row.
LEMMA BlocksAreRows ==
  ASSUME NEW b
  PROVE  b \in Blocks <=>
           \E o \in Orders, i \in Nat : i \in 0..RowStart[o] /\ b = BlockAt(o, i)
<1>1. ASSUME b \in Blocks
      PROVE  \E o \in Orders, i \in Nat : i \in 0..RowStart[o] /\ b = BlockAt(o, i)
  <2>1. PICK x \in Rows : x[2] <= RowStart[x[1]] /\ b = BlockAt(x[1], x[2])
    BY <1>1 DEF Blocks
  <2>2. x[1] \in Orders /\ x[2] \in Nat
    BY TableTypes, MaxOrderAssumption DEF Rows, Orders
  <2>3. x[2] \in 0..RowStart[x[1]]
    BY <2>1, <2>2, TableTypes
  <2> QED BY <2>1, <2>2, <2>3
<1>2. ASSUME NEW o \in Orders, NEW i \in Nat, i \in 0..RowStart[o], b = BlockAt(o, i)
      PROVE  b \in Blocks
  <2>1. RowStart[o] \in Nat /\ RowStart[o] <= RowStart[0] /\ RowStart[0] \in Nat
    BY TableTypes, MaxOrderAssumption DEF Orders
  <2>2. i \in 0..RowStart[0] /\ i <= RowStart[o]
    BY <1>2, <2>1
  <2>3. <<o, i>> \in Rows
    BY <2>2 DEF Rows
  <2>4. <<o, i>> \in {x \in Rows : x[2] <= RowStart[x[1]]}
    BY <2>2, <2>3
  <2> QED BY <2>4, <1>2 DEF Blocks
<1> QED BY <1>1, <1>2

\* ptr_to_node_index and node_index_to_ptr, on the i-th block of a row.
LEMMA IndexOfBlock ==
  ASSUME NEW o \in Orders, NEW i \in 0..RowStart[o]
  PROVE  /\ NodeIndex(i * BlockSize[o], o) = RowStart[o] + i
         /\ NodePtr(RowStart[o] + i, o) = i * BlockSize[o]
         /\ RowStart[o] + i \in Nodes
<1>1. /\ RowStart[o] \in Nat /\ RowStart[0] \in Nat /\ RowStart[o] <= RowStart[0]
      /\ BlockSize[o] \in Nat \ {0}
  BY TableTypes, MaxOrderAssumption DEF Orders
<1>2. i \in Nat /\ i <= RowStart[o]
  BY <1>1
<1>3. NodeIndex(i * BlockSize[o], o) = RowStart[o] + i
  BY <1>1, <1>2, ExactQuotient DEF NodeIndex
<1>4. (RowStart[o] + i) - RowStart[o] = i
  BY <1>1, <1>2
<1>5. NodePtr(RowStart[o] + i, o) = i * BlockSize[o]
  BY <1>4 DEF NodePtr
<1>6. RowStart[o] + i \in Nodes
  BY <1>1, <1>2 DEF Nodes
<1> QED BY <1>3, <1>5, <1>6

\* node_left, node_right: the two children of the i-th block of a row are the
\* blocks 2i and 2i + 1 of the row below, and they halve it.
LEMMA Children ==
  ASSUME NEW o \in Orders, o > 0, NEW i \in 0..RowStart[o]
  PROVE  /\ o - 1 \in Orders
         /\ 2 * i \in 0..RowStart[o - 1] /\ 2 * i + 1 \in 0..RowStart[o - 1]
         /\ NodeLeft(RowStart[o] + i)  = RowStart[o - 1] + 2 * i
         /\ NodeRight(RowStart[o] + i) = RowStart[o - 1] + 2 * i + 1
         /\ i * BlockSize[o] = (2 * i) * BlockSize[o - 1]
         /\ i * BlockSize[o] + BlockSize[o - 1] = (2 * i + 1) * BlockSize[o - 1]
<1>1. o - 1 \in Orders /\ o - 1 < MaxOrder
  BY MaxOrderAssumption DEF Orders
<1>2. /\ RowStart[o - 1] = 2 * RowStart[o] + 1
      /\ BlockSize[o] = 2 * BlockSize[o - 1]
      /\ RowStart[o] \in Nat /\ BlockSize[o - 1] \in Nat
  <2>1. (o - 1) + 1 = o
    BY DEF Orders
  <2> QED BY <1>1, <2>1, TableTypes
<1>3. i * (2 * BlockSize[o - 1]) = (2 * i) * BlockSize[o - 1]
  BY <1>2
<1>4. (2 * i) * BlockSize[o - 1] + BlockSize[o - 1] = (2 * i + 1) * BlockSize[o - 1]
  BY <1>2
<1> QED BY <1>1, <1>2, <1>3, <1>4 DEF NodeLeft, NodeRight

\* node_parent, node_buddy: below the root, the parent of the i-th block is the
\* block i div 2 of the row above, and the buddy is the other block under it.
LEMMA ParentAndBuddy ==
  ASSUME NEW o \in Orders, o < MaxOrder, NEW i \in 0..RowStart[o]
  PROVE  LET j == IF i % 2 = 0 THEN i + 1 ELSE i - 1 IN
         /\ o + 1 \in Orders
         /\ i \div 2 \in 0..RowStart[o + 1]
         /\ NodeParent(RowStart[o] + i) = RowStart[o + 1] + (i \div 2)
         /\ j \in 0..RowStart[o] /\ j \div 2 = i \div 2
         /\ NodeBuddy(RowStart[o] + i) = RowStart[o] + j
<1>1. o + 1 \in Orders /\ RowStart[o] = 2 * RowStart[o + 1] + 1 /\ RowStart[o + 1] \in Nat
  BY TableTypes
<1>2. PICK k \in Nat : i = 2 * k \/ i = 2 * k + 1
  <2>1. i \div 2 \in Nat /\ (i = 2 * (i \div 2) \/ i = 2 * (i \div 2) + 1)
    BY <1>1
  <2> QED BY <2>1
<1>3. i \div 2 = k
  BY <1>2
<1> QED BY <1>1, <1>2, <1>3 DEF NodeParent, NodeBuddy

\* Rows do not overlap: a node is the index of one block only.
LEMMA IndexInjective ==
  ASSUME NEW o \in Orders, NEW i \in 0..RowStart[o],
         NEW p \in Orders, NEW j \in 0..RowStart[p],
         RowStart[o] + i = RowStart[p] + j
  PROVE  o = p /\ i = j
<1>1. CASE o < p
  BY <1>1, RowsApart, TableTypes DEF Orders
<1>2. CASE p < o
  BY <1>2, RowsApart, TableTypes DEF Orders
<1>3. CASE o = p
  BY <1>3, TableTypes
<1> QED BY <1>1, <1>2, <1>3, MaxOrderAssumption DEF Orders

-----------------------------------------------------------------------------
(* The same facts about blocks: what the proofs about the pool use. *)

LeftHalf(b)  == [addr |-> b.addr, order |-> b.order - 1]
RightHalf(b) == [addr |-> b.addr + BlockSize[b.order - 1], order |-> b.order - 1]
BuddyOf(b)   == [addr |-> NodePtr(NodeBuddy(NodeOf(b)), b.order), order |-> b.order]
Merged(b)    == [addr  |-> IF BuddyOf(b).addr < b.addr THEN BuddyOf(b).addr ELSE b.addr,
                 order |-> b.order + 1]

\* A block has an order, an address and a size, and its own node.
LEMMA BlockTypes ==
  ASSUME NEW b \in Blocks
  PROVE  /\ b.order \in Orders /\ b.addr \in Nat /\ b.addr \in Addrs
         /\ BlockSize[b.order] \in Nat \ {0}
         /\ NodeOf(b) \in Nodes
         /\ b = [addr |-> b.addr, order |-> b.order]
<1>1. PICK o \in Orders, i \in Nat : i \in 0..RowStart[o] /\ b = BlockAt(o, i)
  BY BlocksAreRows
<1>2. b.order = o /\ b.addr = i * BlockSize[o]
  BY <1>1 DEF BlockAt
<1>3. i \in Nat /\ BlockSize[o] \in Nat \ {0}
  BY TableTypes
<1>4. b.addr \in Nat
  BY <1>2, <1>3
<1>5. NodeOf(b) \in Nodes
  BY <1>1, <1>2, IndexOfBlock DEF NodeOf
<1>6. b = [addr |-> b.addr, order |-> b.order]
  BY <1>1 DEF BlockAt
<1> QED BY <1>2, <1>3, <1>4, <1>5, <1>6 DEF Addrs

\* Different blocks have different nodes.
LEMMA NodeOfInjective ==
  ASSUME NEW b \in Blocks, NEW c \in Blocks, NodeOf(b) = NodeOf(c)
  PROVE  b = c
<1>1. PICK o \in Orders, i \in Nat : i \in 0..RowStart[o] /\ b = BlockAt(o, i)
  BY BlocksAreRows
<1>2. PICK p \in Orders, j \in Nat : j \in 0..RowStart[p] /\ c = BlockAt(p, j)
  BY BlocksAreRows
<1>3. NodeOf(b) = RowStart[o] + i /\ NodeOf(c) = RowStart[p] + j
  BY <1>1, <1>2, IndexOfBlock DEF NodeOf, BlockAt
<1> QED BY <1>1, <1>2, <1>3, IndexInjective

\* Splitting a block gives two blocks whose nodes are the children of its node.
LEMMA Halves ==
  ASSUME NEW b \in Blocks, b.order > 0
  PROVE  /\ LeftHalf(b) \in Blocks /\ RightHalf(b) \in Blocks
         /\ LeftHalf(b) # RightHalf(b)
         /\ NodeOf(LeftHalf(b)) = NodeLeft(NodeOf(b))
         /\ NodeOf(RightHalf(b)) = NodeRight(NodeOf(b))
         /\ NodeParent(NodeOf(LeftHalf(b))) = NodeOf(b)
         /\ NodeParent(NodeOf(RightHalf(b))) = NodeOf(b)
<1>1. PICK o \in Orders, i \in Nat : i \in 0..RowStart[o] /\ b = BlockAt(o, i)
  BY BlocksAreRows
<1>2. b.order = o /\ b.addr = i * BlockSize[o] /\ o > 0 /\ NodeOf(b) = RowStart[o] + i
  BY <1>1, IndexOfBlock DEF BlockAt, NodeOf
<1>3. /\ o - 1 \in Orders
      /\ 2 * i \in 0..RowStart[o - 1] /\ 2 * i + 1 \in 0..RowStart[o - 1]
      /\ NodeLeft(RowStart[o] + i)  = RowStart[o - 1] + 2 * i
      /\ NodeRight(RowStart[o] + i) = RowStart[o - 1] + 2 * i + 1
  BY <1>1, <1>2, Children
<1>4. LeftHalf(b) = BlockAt(o - 1, 2 * i)
  BY <1>1, <1>2, Children DEF LeftHalf, BlockAt
<1>5. RightHalf(b) = BlockAt(o - 1, 2 * i + 1)
  BY <1>1, <1>2, Children DEF RightHalf, BlockAt
<1>6. LeftHalf(b) \in Blocks /\ RightHalf(b) \in Blocks
  BY <1>3, <1>4, <1>5, BlocksAreRows
<1>7. /\ NodeOf(LeftHalf(b)) = RowStart[o - 1] + 2 * i
      /\ NodeOf(RightHalf(b)) = RowStart[o - 1] + (2 * i + 1)
  BY <1>3, <1>4, <1>5, IndexOfBlock DEF NodeOf, BlockAt
<1>8. RowStart[o] \in Nat /\ RowStart[o - 1] \in Nat /\ i \in Nat
  BY <1>3, TableTypes
<1>9. RowStart[o - 1] = 2 * RowStart[o] + 1
  <2>1. o - 1 < MaxOrder /\ (o - 1) + 1 = o
    BY MaxOrderAssumption DEF Orders
  <2> QED BY <2>1, <1>3, TableTypes
<1>10. /\ NodeParent(RowStart[o - 1] + 2 * i) = RowStart[o] + i
       /\ NodeParent(RowStart[o - 1] + (2 * i + 1)) = RowStart[o] + i
  BY <1>8, <1>9 DEF NodeParent
<1>11. LeftHalf(b) # RightHalf(b)
  BY <1>7, <1>8
<1> QED BY <1>2, <1>3, <1>6, <1>7, <1>8, <1>10, <1>11

\* A block and its buddy are the two halves of their union, which is the block
\* of their common parent node.
LEMMA Merging ==
  ASSUME NEW b \in Blocks, b.order < MaxOrder
  PROVE  /\ BuddyOf(b) \in Blocks /\ BuddyOf(b) # b /\ Merged(b) \in Blocks
         /\ NodeOf(BuddyOf(b)) = NodeBuddy(NodeOf(b))
         /\ NodeParent(NodeOf(BuddyOf(b))) = NodeOf(Merged(b))
         /\ NodeParent(NodeOf(b)) = NodeOf(Merged(b))
         /\ {LeftHalf(Merged(b)), RightHalf(Merged(b))} = {b, BuddyOf(b)}
<1>1. PICK o \in Orders, i \in Nat : i \in 0..RowStart[o] /\ b = BlockAt(o, i)
  BY BlocksAreRows
<1> DEFINE j == IF i % 2 = 0 THEN i + 1 ELSE i - 1
           k == i \div 2
<1>2. /\ b.order = o /\ o < MaxOrder /\ b.addr = i * BlockSize[o]
      /\ NodeOf(b) = RowStart[o] + i
  BY <1>1, IndexOfBlock DEF NodeOf, BlockAt
<1>3. /\ o + 1 \in Orders /\ k \in 0..RowStart[o + 1]
      /\ NodeParent(RowStart[o] + i) = RowStart[o + 1] + k
      /\ j \in 0..RowStart[o] /\ j \div 2 = k
      /\ NodeBuddy(RowStart[o] + i) = RowStart[o] + j
  BY <1>1, <1>2, ParentAndBuddy
<1>4. BuddyOf(b) = BlockAt(o, j)
  BY <1>2, <1>3, IndexOfBlock DEF BuddyOf, BlockAt
<1>5. NodeOf(BuddyOf(b)) = RowStart[o] + j
  BY <1>3, <1>4, IndexOfBlock DEF NodeOf, BlockAt
<1>6. NodeParent(RowStart[o] + j) = RowStart[o + 1] + k
  BY <1>2, <1>3, ParentAndBuddy
<1>7. i \in Nat /\ j \in Nat /\ k \in Nat /\ i # j
  BY <1>3, TableTypes
<1>8. (i = 2 * k /\ j = 2 * k + 1) \/ (i = 2 * k + 1 /\ j = 2 * k)
  BY <1>7
<1>9. /\ (2 * k) * BlockSize[o] = k * BlockSize[o + 1]
      /\ (2 * k + 1) * BlockSize[o] = k * BlockSize[o + 1] + BlockSize[o]
      /\ BlockSize[o] \in Nat \ {0} /\ (o + 1) - 1 = o /\ o + 1 > 0
  <2>1. o + 1 > 0 /\ (o + 1) - 1 = o
    BY DEF Orders
  <2> QED BY <2>1, <1>3, Children, TableTypes
<1>10. Merged(b) = BlockAt(o + 1, k)
  <2> HIDE DEF j, k
  <2>1. BuddyOf(b).addr = j * BlockSize[o]
    BY <1>4 DEF BlockAt
  <2>2. k * BlockSize[o + 1] \in Nat
    BY <1>7, <1>3, TableTypes
  <2>3. CASE i = 2 * k /\ j = 2 * k + 1
    <3>1. ~(BuddyOf(b).addr < b.addr) /\ b.addr = k * BlockSize[o + 1]
      BY <2>1, <2>2, <2>3, <1>2, <1>9
    <3> QED BY <3>1, <1>2 DEF Merged, BlockAt
  <2>4. CASE i = 2 * k + 1 /\ j = 2 * k
    <3>1. BuddyOf(b).addr < b.addr /\ BuddyOf(b).addr = k * BlockSize[o + 1]
      BY <2>1, <2>2, <2>4, <1>2, <1>9
    <3> QED BY <3>1, <1>2 DEF Merged, BlockAt
  <2> QED BY <2>3, <2>4, <1>8
<1>11. Merged(b) \in Blocks /\ NodeOf(Merged(b)) = RowStart[o + 1] + k
  BY <1>3, <1>10, BlocksAreRows, IndexOfBlock DEF NodeOf, BlockAt
<1>12. /\ LeftHalf(Merged(b)) = BlockAt(o, 2 * k)
       /\ RightHalf(Merged(b)) = BlockAt(o, 2 * k + 1)
  <2> HIDE DEF j, k
  <2>1. Merged(b).order = o + 1 /\ Merged(b).addr = k * BlockSize[o + 1]
    BY <1>10 DEF BlockAt
  <2> QED BY <2>1, <1>9 DEF LeftHalf, RightHalf, BlockAt
<1>13. BuddyOf(b) \in Blocks
  BY <1>3, <1>4, BlocksAreRows
<1>14. BuddyOf(b) # b
  <2> HIDE DEF j, k
  <2>1. RowStart[o] \in Nat
    BY TableTypes
  <2> QED BY <2>1, <1>2, <1>5, <1>7
<1>15. {LeftHalf(Merged(b)), RightHalf(Merged(b))} = {b, BuddyOf(b)}
  <2> HIDE DEF j, k
  <2> QED BY <1>1, <1>4, <1>8, <1>12
<1> HIDE DEF j, k
<1> QED BY <1>2, <1>3, <1>5, <1>6, <1>11, <1>13, <1>14, <1>15

\* The two halves of a block partition its pages: they are disjoint, and to be
\* disjoint from the block is to be disjoint from both.
LEMMA HalvesPartition ==
  ASSUME NEW b \in Blocks, b.order > 0, NEW c \in Blocks
  PROVE  /\ Disjoint(LeftHalf(b), RightHalf(b))
         /\ Disjoint(b, c) <=> Disjoint(LeftHalf(b), c) /\ Disjoint(RightHalf(b), c)
<1>1. /\ b.order - 1 \in Orders
      /\ BlockSize[b.order] = 2 * BlockSize[b.order - 1]
      /\ BlockSize[b.order - 1] \in Nat \ {0}
  <2>1. b.order \in Orders /\ b.order - 1 \in Orders /\ b.order - 1 < MaxOrder
        /\ (b.order - 1) + 1 = b.order
    BY BlockTypes, MaxOrderAssumption DEF Orders
  <2> QED BY <2>1, TableTypes
<1>2. b.addr \in Nat /\ c.addr \in Nat /\ BlockSize[c.order] \in Nat \ {0}
  BY BlockTypes
<1> QED BY <1>1, <1>2 DEF Disjoint, LeftHalf, RightHalf

\* The pages of a block are those of its halves.
LEMMA HalvesPages ==
  ASSUME NEW b \in Blocks, b.order > 0
  PROVE  Pages(b) = Pages(LeftHalf(b)) \union Pages(RightHalf(b))
<1>1. /\ b.order - 1 \in Orders
      /\ BlockSize[b.order] = 2 * BlockSize[b.order - 1]
      /\ BlockSize[b.order - 1] \in Nat \ {0}
  <2>1. b.order \in Orders /\ b.order - 1 \in Orders /\ b.order - 1 < MaxOrder
        /\ (b.order - 1) + 1 = b.order
    BY BlockTypes, MaxOrderAssumption DEF Orders
  <2> QED BY <2>1, TableTypes
<1>2. b.addr \in Nat
  BY BlockTypes
<1> QED BY <1>1, <1>2 DEF Pages, LeftHalf, RightHalf

\* One block lies within another.
Within(c, b) == b.addr <= c.addr /\ c.addr + BlockSize[c.order] <= b.addr + BlockSize[b.order]

\* Halves lie within the block, and lying within is transitive; a block that
\* lies within another is not disjoint from it.
LEMMA HalvesWithin ==
  ASSUME NEW b \in Blocks, b.order > 0
  PROVE  Within(LeftHalf(b), b) /\ Within(RightHalf(b), b)
<1>1. /\ b.order - 1 \in Orders
      /\ BlockSize[b.order] = 2 * BlockSize[b.order - 1]
      /\ BlockSize[b.order - 1] \in Nat \ {0}
  <2>1. b.order \in Orders /\ b.order - 1 \in Orders /\ b.order - 1 < MaxOrder
        /\ (b.order - 1) + 1 = b.order
    BY BlockTypes, MaxOrderAssumption DEF Orders
  <2> QED BY <2>1, TableTypes
<1>2. b.addr \in Nat
  BY BlockTypes
<1> QED BY <1>1, <1>2 DEF Within, LeftHalf, RightHalf

\* A block lies within itself, and what lies within a block shares its pages.
LEMMA WithinFacts ==
  ASSUME NEW b \in Blocks, NEW c \in Blocks
  PROVE  /\ Within(b, b)
         /\ Within(c, b) => ~Disjoint(b, c) /\ ~Disjoint(c, b)
         /\ \A d \in Blocks : Within(d, c) /\ Within(c, b) => Within(d, b)
<1>1. \A d \in Blocks : d.addr \in Nat /\ BlockSize[d.order] \in Nat \ {0}
  BY BlockTypes
<1> QED BY <1>1 DEF Within, Disjoint

-----------------------------------------------------------------------------
(* The invariant said of blocks instead of nodes. *)

State(b) == tree[NodeOf(b)]
Up(b)    == Merged(b)
Hand     == [addr |-> block, order |-> order]

ListsOK ==
  /\ free_lists \in [Orders -> Seq(Addrs)]
  /\ \A o \in Orders : \A a \in ToSet(free_lists[o]) :
       [addr |-> a, order |-> o] \in Blocks
  /\ \A o \in Orders : IsInjective(free_lists[o])

\* The tree's part of the invariant.
BlockTree == \A b \in Blocks :
  /\ b \in Listed \union InHand => State(b) = "FREE"
  /\ b \in live => State(b) = "FULL"
  /\ b.order < MaxOrder =>
       /\ b \in Leaves => State(Up(b)) = "SPLIT"
       /\ State(b) = "FREE" /\ State(Up(b)) = "SPLIT" => b \in Listed \union InHand
       /\ State(b) = "SPLIT" => State(Up(b)) = "SPLIT"

\* The block above a block, in the tree.
LEMMA UpFacts ==
  ASSUME NEW b \in Blocks, b.order < MaxOrder
  PROVE  /\ Up(b) \in Blocks /\ NodeParent(NodeOf(b)) = NodeOf(Up(b))
         /\ Up(b).order = b.order + 1 /\ Up(b).order > 0
         /\ Up(b) # b /\ Up(b) # BuddyOf(b)
         /\ b = LeftHalf(Up(b)) \/ b = RightHalf(Up(b))
<1>1. b.order \in Nat
  BY BlockTypes DEF Orders
<1>2. Up(b).order = b.order + 1 /\ BuddyOf(b).order = b.order
  BY DEF Up, Merged, BuddyOf
<1> QED BY <1>1, <1>2, Merging DEF Up

\* A split block is the one above each of its halves.
LEMMA UpOfHalf ==
  ASSUME NEW b \in Blocks, b.order > 0
  PROVE  /\ LeftHalf(b).order < MaxOrder /\ Up(LeftHalf(b)) = b
         /\ RightHalf(b).order < MaxOrder /\ Up(RightHalf(b)) = b
<1>1. LeftHalf(b).order < MaxOrder /\ RightHalf(b).order < MaxOrder
  BY BlockTypes, MaxOrderAssumption DEF LeftHalf, RightHalf, Orders
<1>2. LeftHalf(b) \in Blocks /\ RightHalf(b) \in Blocks
  BY Halves
<1>3. NodeOf(Up(LeftHalf(b))) = NodeOf(b) /\ NodeOf(Up(RightHalf(b))) = NodeOf(b)
  BY <1>1, <1>2, UpFacts, Halves
<1>4. Up(LeftHalf(b)) \in Blocks /\ Up(RightHalf(b)) \in Blocks
  BY <1>1, <1>2, UpFacts
<1> QED BY <1>1, <1>3, <1>4, NodeOfInjective

\* BlockTree is TreeExact.
LEMMA TreeExactForm == TreeExact <=> BlockTree
<1>1. \A b \in Blocks : b.order < MaxOrder => NodeParent(NodeOf(b)) = NodeOf(Up(b))
  BY UpFacts
<1> QED BY <1>1 DEF TreeExact, BlockTree, State

\* The same, of the next state.
LEMMA TreeExactFormNext == TreeExact' <=> BlockTree'
<1>1. \A b \in Blocks : b.order < MaxOrder => NodeParent(NodeOf(b)) = NodeOf(Up(b))
  BY UpFacts
<1> QED BY <1>1 DEF TreeExact, BlockTree, State

\* Marking the node of a block changes the state of no other block.
LEMMA NodesApart ==
  ASSUME NEW b \in Blocks
  PROVE  /\ NodeOf(b) \in Nodes
         /\ \A x \in Blocks : x # b => NodeOf(x) # NodeOf(b)
BY BlockTypes, NodeOfInjective

\* list_push: the block joins the listed blocks.
LEMMA PushListed ==
  ASSUME ListsOK, NEW h \in Blocks, h \notin Listed,
         free_lists' = ListPush(h.order, h.addr)
  PROVE  ListsOK' /\ Listed' = Listed \union {h}
<1> DEFINE o == h.order
           l == <<h.addr>> \o free_lists[o]
<1>1. o \in Orders /\ h.addr \in Addrs /\ free_lists[o] \in Seq(Addrs)
      /\ h = [addr |-> h.addr, order |-> o]
  BY BlockTypes DEF ListsOK
<1>2. h.addr \notin ToSet(free_lists[o])
  BY <1>1 DEF Listed
<1>3. /\ l \in Seq(Addrs) /\ IsInjective(l)
      /\ ToSet(l) = {h.addr} \union ToSet(free_lists[o])
  BY <1>1, <1>2, PushElements DEF ListsOK
<1>4. free_lists' = [free_lists EXCEPT ![o] = l]
  BY DEF ListPush
<1> HIDE DEF l
<1>5. /\ free_lists' \in [Orders -> Seq(Addrs)]
      /\ free_lists'[o] = l
      /\ \A p \in Orders : p # o => free_lists'[p] = free_lists[p]
  BY <1>1, <1>3, <1>4 DEF ListsOK
<1>6. ListsOK'
  BY <1>1, <1>3, <1>5 DEF ListsOK
<1>7. ASSUME NEW b \in Blocks PROVE b \in Listed' <=> b \in Listed \/ b = h
  <2>1. b.order \in Orders /\ b = [addr |-> b.addr, order |-> b.order]
    BY BlockTypes
  <2>2. CASE b.order = o
    BY <2>1, <2>2, <1>1, <1>3, <1>5 DEF Listed
  <2>3. CASE b.order # o
    BY <2>1, <2>3, <1>1, <1>5 DEF Listed
  <2> QED BY <2>2, <2>3
<1> QED BY <1>6, <1>7 DEF Listed

\* list_remove: the block leaves the listed blocks.
LEMMA RemoveListed ==
  ASSUME ListsOK, NEW h \in Listed,
         free_lists' = ListRemove(h.order, h.addr)
  PROVE  ListsOK' /\ Listed' = Listed \ {h}
<1> DEFINE o == h.order
           s == free_lists[o]
           k == CHOOSE i \in DOMAIN s : s[i] = h.addr
           l == RemoveAt(s, k)
<1>1. /\ h \in Blocks /\ o \in Orders /\ s \in Seq(Addrs) /\ h.addr \in ToSet(s)
      /\ h = [addr |-> h.addr, order |-> o]
  BY BlockTypes DEF ListsOK, Listed
<1>2. k \in DOMAIN s /\ s[k] = h.addr
  BY <1>1 DEF ToSet
<1>3. free_lists' = [free_lists EXCEPT ![o] = l]
  BY <1>1 DEF ListRemove, Unlink, ListsOK
<1> HIDE DEF k
<1>4. l \in Seq(Addrs) /\ IsInjective(l) /\ ToSet(l) = ToSet(s) \ {h.addr}
  BY <1>1, <1>2, UnlinkElements DEF ListsOK
<1> HIDE DEF l
<1>5. /\ free_lists' \in [Orders -> Seq(Addrs)]
      /\ free_lists'[o] = l
      /\ \A p \in Orders : p # o => free_lists'[p] = free_lists[p]
  BY <1>1, <1>3, <1>4 DEF ListsOK
<1>6. ListsOK'
  BY <1>1, <1>4, <1>5 DEF ListsOK
<1>7. ASSUME NEW b \in Blocks PROVE b \in Listed' <=> b \in Listed /\ b # h
  <2>1. b.order \in Orders /\ b = [addr |-> b.addr, order |-> b.order]
    BY BlockTypes
  <2>2. CASE b.order = o
    BY <2>1, <2>2, <1>1, <1>4, <1>5 DEF Listed
  <2>3. CASE b.order # o
    BY <2>1, <2>3, <1>1, <1>5 DEF Listed
  <2> QED BY <2>2, <2>3
<1> QED BY <1>6, <1>7 DEF Listed

-----------------------------------------------------------------------------
(* Exact, repacked by what the steps disturb. *)

Types ==
  /\ tree \in [Nodes -> NodeStates]
  /\ live \subseteq Blocks
  /\ pc \in {"idle", "split", "merge"}
  /\ block \in Addrs /\ order \in Orders /\ target \in Orders /\ node \in Nodes
  /\ InHand \subseteq Blocks
  /\ answer.order \in 0..NumOrders
  /\ answer.block \in Blocks \union {NoBlock}

Partition ==
  /\ live \intersect Listed = {}
  /\ InHand \intersect (live \union Listed) = {}
  /\ \A b, c \in Leaves : b # c => Disjoint(b, c)

Packed == Types /\ ListsOK /\ LoopOK /\ Partition /\ BlockTree

\* Packed is Exact, with the tree read block by block.
LEMMA Repack == Exact <=> Packed
BY TreeExactForm DEF Exact, Packed, TypeOK, NoOverlap, Types, ListsOK, Partition

\* The same, of the next state.
LEMMA RepackNext == Exact' <=> Packed'
BY TreeExactFormNext DEF Exact, Packed, TypeOK, NoOverlap, Types, ListsOK, Partition

\* Being apart does not depend on the order.
LEMMA DisjointSymmetric ==
  ASSUME NEW b \in Blocks, NEW c \in Blocks
  PROVE  Disjoint(b, c) <=> Disjoint(c, b)
BY BlockTypes DEF Disjoint

\* The empty pool: one block, the root, free and listed.
LEMMA InitPlaces ==
  ASSUME Init
  PROVE  LET root == [addr |-> 0, order |-> MaxOrder] IN
         /\ root \in Blocks /\ NodeOf(root) = 0 /\ 0 \in Nodes /\ 0 \in Addrs
         /\ ListsOK /\ Listed = {root} /\ InHand = {} /\ live = {} /\ Leaves = {root}
         /\ \A b \in Blocks : State(b) = IF b = root THEN "FREE" ELSE "FULL"
<1> DEFINE root == [addr |-> 0, order |-> MaxOrder]
<1>1. MaxOrder \in Orders /\ 0 \in Orders /\ RowStart[MaxOrder] = 0
      /\ BlockSize[MaxOrder] \in Nat \ {0} /\ 0 \in Nodes
  BY MaxOrderAssumption, RowStartAssumption, TableTypes DEF Orders, Nodes
<1>2. root = BlockAt(MaxOrder, 0)
  BY <1>1 DEF BlockAt
<1>3. root \in Blocks
  BY <1>1, <1>2, BlocksAreRows
<1>4. 0 \in Addrs
  BY <1>3, BlockTypes
<1>5. NodeOf(root) = 0
  BY <1>1, <1>2, IndexOfBlock DEF NodeOf, BlockAt
<1>6. /\ free_lists \in [Orders -> Seq(Addrs)]
      /\ \A o \in Orders : ToSet(free_lists[o]) = IF o = MaxOrder THEN {0} ELSE {}
      /\ \A o \in Orders : IsInjective(free_lists[o])
  <2>1. /\ <<0>> \in Seq(Addrs) /\ ToSet(<<0>>) = {0} /\ IsInjective(<<0>>)
        /\ <<>> \in Seq(Addrs) /\ ToSet(<<>>) = {} /\ IsInjective(<<>>)
    BY <1>4 DEF ToSet, IsInjective
  <2> QED BY <2>1 DEF Init
<1>7. ListsOK
  BY <1>3, <1>6 DEF ListsOK
<1>8. Listed = {root}
  <2>1. \A b \in Blocks : b.order \in Orders /\ b = [addr |-> b.addr, order |-> b.order]
    BY BlockTypes
  <2> QED BY <1>3, <1>6, <2>1 DEF Listed
<1>9. InHand = {} /\ live = {} /\ Leaves = {root}
  BY <1>8 DEF Init, InHand, Leaves
<1>10. \A b \in Blocks : State(b) = IF b = root THEN "FREE" ELSE "FULL"
  BY <1>3, <1>5, BlockTypes, NodeOfInjective DEF Init, State
<1> QED BY <1>1, <1>3, <1>4, <1>5, <1>7, <1>8, <1>9, <1>10

\* A new pool.
LEMMA InitExact == Init => Exact
<1> SUFFICES ASSUME Init PROVE Packed
  BY Repack
<1> DEFINE root == [addr |-> 0, order |-> MaxOrder]
<1>1. /\ 0 \in Nodes /\ 0 \in Addrs /\ ListsOK
      /\ Listed = {root} /\ InHand = {} /\ live = {} /\ Leaves = {root}
      /\ \A b \in Blocks : State(b) = IF b = root THEN "FREE" ELSE "FULL"
  BY InitPlaces
<1>2. Types
  BY <1>1, MaxOrderAssumption DEF Init, Types, NodeStates, NumOrders, Orders
<1>3. Partition
  BY <1>1 DEF Partition
<1>4. \A b \in Blocks : b.order < MaxOrder => b # root
  BY MaxOrderAssumption
<1>5. BlockTree
  BY <1>1, <1>4 DEF BlockTree
<1> QED BY <1>1, <1>2, <1>3, <1>5 DEF Packed, LoopOK, Init

-----------------------------------------------------------------------------
(* One lemma per step. *)

\* A step that changes none of the places blocks can be in, nor the tree,
\* keeps everything that is said of them.
LEMMA SamePlaces ==
  ASSUME Packed, tree' = tree, free_lists' = free_lists, live' = live, InHand' = InHand
  PROVE  /\ ListsOK' /\ Partition' /\ BlockTree'
         /\ tree' \in [Nodes -> NodeStates] /\ live' \subseteq Blocks
         /\ InHand' \subseteq Blocks
<1>1. ListsOK' /\ Listed' = Listed
  BY DEF Packed, ListsOK, Listed
<1>2. Leaves' = Leaves
  BY <1>1 DEF Leaves
<1>3. Partition'
  BY <1>1, <1>2 DEF Packed, Partition
<1>4. \A b : State(b)' = State(b)
  BY DEF State
<1>5. BlockTree'
  BY <1>1, <1>2, <1>4 DEF Packed, BlockTree
<1> QED BY <1>1, <1>3, <1>5 DEF Packed, Types

\* A step that changes nothing.
LEMMA StutterPacked ==
  ASSUME Packed, UNCHANGED vars
  PROVE  Packed'
<1>1. /\ tree' = tree /\ free_lists' = free_lists /\ live' = live /\ answer' = answer
      /\ pc' = pc /\ block' = block /\ order' = order /\ target' = target /\ node' = node
  BY DEF vars, locals
<1>2. InHand' = InHand
  BY <1>1 DEF InHand
<1>3. Types' /\ LoopOK'
  BY <1>1, <1>2 DEF Packed, Types, LoopOK
<1> QED BY <1>1, <1>2, <1>3, SamePlaces DEF Packed

\* A request that is out of range, or that no list can serve.
LEMMA AllocRefusePacked ==
  ASSUME Packed, NEW t \in 0..NumOrders, AllocRefuse(t)
  PROVE  Packed'
<1>1. /\ tree' = tree /\ free_lists' = free_lists /\ live' = live
      /\ pc' = pc /\ block' = block /\ order' = order /\ target' = target /\ node' = node
      /\ answer' = [order |-> t, block |-> NoBlock]
  BY DEF AllocRefuse, locals
<1>2. InHand' = InHand
  BY <1>1 DEF InHand
<1>3. Types' /\ LoopOK'
  BY <1>1, <1>2 DEF Packed, Types, LoopOK
<1> QED BY <1>1, <1>2, <1>3, SamePlaces DEF Packed

\* buddy_alloc pops a listed block: it moves from the lists to the hand.
LEMMA AllocTakePacked ==
  ASSUME Packed, NEW t \in 0..NumOrders, AllocTake(t)
  PROVE  /\ Packed'
         /\ tree' = tree /\ Leaves' = Leaves /\ Listed' \subseteq Listed
<1>1. PICK o \in Candidates(t) :
        /\ block' = Head(free_lists[o]) /\ order' = o
        /\ free_lists' = ListRemove(o, Head(free_lists[o]))
  BY DEF AllocTake
<1>2. /\ pc = "idle" /\ pc' = "split" /\ target' = t
      /\ tree' = tree /\ live' = live /\ node' = node /\ answer' = answer
  BY DEF AllocTake
<1> DEFINE h == [addr |-> Head(free_lists[o]), order |-> o]
<1>3. o \in Orders /\ o >= t /\ free_lists[o] # <<>>
  BY DEF Candidates
<1>4. h \in Listed
  <2>1. free_lists[o] \in Seq(Addrs)
    BY <1>3 DEF Packed, ListsOK
  <2>2. Head(free_lists[o]) \in ToSet(free_lists[o])
    BY <2>1, <1>3 DEF ToSet
  <2> QED BY <2>2, <1>3 DEF Packed, ListsOK, Listed
<1>5. ListsOK' /\ Listed' = Listed \ {h}
  BY <1>1, <1>4, RemoveListed DEF Packed
<1>6. InHand = {} /\ InHand' = {h}
  BY <1>1, <1>2 DEF InHand
<1>7. h \in Blocks /\ h.addr \in Addrs /\ t \in Orders
  BY <1>3, <1>4, BlockTypes, MaxOrderAssumption DEF Listed, Orders, NumOrders
<1>8. Types' /\ LoopOK'
  BY <1>1, <1>2, <1>3, <1>6, <1>7 DEF Packed, Types, LoopOK
<1>9. Leaves' = Leaves /\ Listed' \union InHand' = Listed \union InHand
  BY <1>2, <1>4, <1>5, <1>6 DEF Leaves
<1>10. Partition'
  BY <1>2, <1>4, <1>5, <1>6, <1>9 DEF Packed, Partition
<1>11. BlockTree'
  BY <1>2, <1>9 DEF Packed, BlockTree, State
<1> QED BY <1>2, <1>5, <1>8, <1>9, <1>10, <1>11 DEF Packed

\* One split: the block in hand gives way to its left half, the right half is
\* listed.  No block hangs below the halves, since the block was not SPLIT.
LEMMA AllocSplitPacked ==
  ASSUME Packed, AllocSplit
  PROVE  /\ Packed'
         /\ Hand \in Blocks /\ Hand.order > 0 /\ Hand \in Leaves
         /\ Leaves' = (Leaves \ {Hand}) \union {LeftHalf(Hand), RightHalf(Hand)}
         /\ Listed' = Listed \union {RightHalf(Hand)} /\ InHand' = {LeftHalf(Hand)}
         /\ \A b \in Blocks : State(b)' = IF b = Hand THEN "SPLIT"
              ELSE IF b = LeftHalf(Hand) \/ b = RightHalf(Hand) THEN "FREE" ELSE State(b)
<1> DEFINE h == Hand
           l == LeftHalf(Hand)
           r == RightHalf(Hand)
<1>1. /\ pc = "split" /\ order > target /\ pc' = "split" /\ target' = target
      /\ block' = block /\ order' = order - 1 /\ node' = node
      /\ live' = live /\ answer' = answer
      /\ free_lists' = ListPush(order - 1, block + BlockSize[order - 1])
  BY DEF AllocSplit, UpperHalf
<1>2. InHand = {h} /\ h \in Blocks /\ h.addr = block /\ h.order = order /\ order > 0
  BY <1>1, MaxOrderAssumption DEF InHand, Hand, Packed, Types, Orders
<1>3. /\ l \in Blocks /\ r \in Blocks /\ l # r /\ l # h /\ r # h
      /\ Up(l) = h /\ Up(r) = h /\ l.order < MaxOrder /\ r.order < MaxOrder
  <2>1. l.order # h.order /\ r.order # h.order
    BY <1>2, BlockTypes DEF LeftHalf, RightHalf, Orders
  <2> QED BY <2>1, <1>2, Halves, UpOfHalf
<1>4. InHand' = {l}
  BY <1>1 DEF InHand, LeftHalf, Hand
<1>5. /\ tree' \in [Nodes -> NodeStates]
      /\ \A b \in Blocks : State(b)' = IF b = h THEN "SPLIT"
                                        ELSE IF b = l \/ b = r THEN "FREE"
                                        ELSE State(b)
  <2>1. tree' = [tree EXCEPT ![NodeOf(h)] = "SPLIT", ![NodeOf(l)] = "FREE",
                             ![NodeOf(r)] = "FREE"]
    BY <1>2, Halves DEF AllocSplit, MarkSplit, NodeOf, Hand
  <2>2. tree \in [Nodes -> NodeStates] /\ "SPLIT" \in NodeStates /\ "FREE" \in NodeStates
    BY DEF Packed, Types, NodeStates
  <2>3. h \in Blocks /\ l \in Blocks /\ r \in Blocks /\ h # l /\ h # r /\ l # r
    BY <1>2, <1>3
  <2>4. \A x \in Blocks : /\ NodeOf(x) \in Nodes
                          /\ x # h => NodeOf(x) # NodeOf(h)
                          /\ x # l => NodeOf(x) # NodeOf(l)
                          /\ x # r => NodeOf(x) # NodeOf(r)
    BY <2>3, NodesApart
  <2> HIDE DEF h, l, r
  <2> QED BY <2>1, <2>2, <2>3, <2>4 DEF State
<1>6. State(h) = "FREE" /\ (h.order < MaxOrder => State(Up(h)) = "SPLIT")
  BY <1>2 DEF Packed, BlockTree, Leaves
<1>7. \A b \in Blocks : b.order < MaxOrder /\ State(Up(b)) = "SPLIT" =>
        b # l /\ b # r /\ Up(b) # l /\ Up(b) # r /\ Up(b) # h
  <2> SUFFICES ASSUME NEW b \in Blocks, b.order < MaxOrder, State(Up(b)) = "SPLIT"
               PROVE  b # l /\ b # r /\ Up(b) # l /\ Up(b) # r /\ Up(b) # h
    OBVIOUS
  <2>1. Up(b) # h /\ b # l /\ b # r
    BY <1>3, <1>6
  <2>2. Up(b) # l /\ Up(b) # r
    BY <1>3, <1>6 DEF Packed, BlockTree
  <2> QED BY <2>1, <2>2
<1>8. l \notin Leaves /\ r \notin Leaves
  BY <1>3, <1>7 DEF Packed, BlockTree
<1>9. ListsOK' /\ Listed' = Listed \union {r}
  <2>1. r \notin Listed
    BY <1>8 DEF Leaves
  <2>2. free_lists' = ListPush(r.order, r.addr)
    BY <1>1 DEF RightHalf, Hand
  <2> QED BY <2>1, <2>2, <1>3, PushListed DEF Packed
<1>10. Types' /\ LoopOK'
  <2>1. order - 1 \in Orders /\ target <= order - 1
    BY <1>1, <1>2, MaxOrderAssumption DEF Packed, Types, Orders
  <2> QED BY <2>1, <1>1, <1>3, <1>4, <1>5 DEF Packed, Types, LoopOK
<1>11. h \notin live /\ h \notin Listed /\ Leaves' = (Leaves \ {h}) \union {l, r}
  BY <1>1, <1>2, <1>4, <1>9 DEF Leaves, Packed, Partition
<1>12. Partition'
  <2>1. \A c \in Leaves \ {h} : /\ c \in Blocks /\ Disjoint(l, c) /\ Disjoint(r, c)
                                /\ Disjoint(c, l) /\ Disjoint(c, r)
    <3> SUFFICES ASSUME NEW c \in Leaves \ {h}
                 PROVE  /\ c \in Blocks /\ Disjoint(l, c) /\ Disjoint(r, c)
                        /\ Disjoint(c, l) /\ Disjoint(c, r)
      OBVIOUS
    <3>1. c \in Blocks /\ Disjoint(h, c)
      BY <1>2 DEF Leaves, Packed, Types, Partition, Listed
    <3> QED BY <3>1, <1>2, <1>3, HalvesPartition, DisjointSymmetric
  <2>2. Disjoint(l, r) /\ Disjoint(r, l)
    BY <1>2, <1>3, HalvesPartition, DisjointSymmetric
  <2>3. \A b, c \in Leaves' : b # c => Disjoint(b, c)
    BY <2>1, <2>2, <1>11 DEF Packed, Partition
  <2>4. live' \intersect Listed' = {} /\ InHand' \intersect (live' \union Listed') = {}
    BY <1>1, <1>3, <1>4, <1>8, <1>9 DEF Packed, Partition, Leaves
  <2> QED BY <2>3, <2>4 DEF Partition
<1>13. BlockTree'
  <2> SUFFICES ASSUME NEW b \in Blocks
               PROVE  /\ b \in Listed' \union InHand' => State(b)' = "FREE"
                      /\ b \in live' => State(b)' = "FULL"
                      /\ b.order < MaxOrder =>
                           /\ b \in Leaves' => State(Up(b))' = "SPLIT"
                           /\ State(b)' = "FREE" /\ State(Up(b))' = "SPLIT"
                                => b \in Listed' \union InHand'
                           /\ State(b)' = "SPLIT" => State(Up(b))' = "SPLIT"
    BY DEF BlockTree
  <2>1. b \in Listed' \union InHand' => State(b)' = "FREE"
    <3>1. b \in Listed => b # h /\ State(b) = "FREE"
      BY <1>11 DEF Packed, BlockTree
    <3>2. b \in Listed' \union InHand' => b \in Listed \/ b = l \/ b = r
      BY <1>4, <1>9
    <3> QED BY <3>1, <3>2, <1>3, <1>5
  <2>2. b \in live' => State(b)' = "FULL"
    BY <1>1, <1>5, <1>8, <1>11 DEF Packed, BlockTree, Leaves
  <2>3. ASSUME b.order < MaxOrder
        PROVE  /\ b \in Leaves' => State(Up(b))' = "SPLIT"
               /\ State(b)' = "FREE" /\ State(Up(b))' = "SPLIT"
                    => b \in Listed' \union InHand'
               /\ State(b)' = "SPLIT" => State(Up(b))' = "SPLIT"
    <3>1. Up(b) \in Blocks
      BY <2>3, UpFacts
    <3>2. State(Up(b)) = "SPLIT" => State(Up(b))' = "SPLIT"
      BY <3>1, <2>3, <1>5, <1>7
    <3>3. CASE b = l \/ b = r
      BY <3>3, <1>2, <1>3, <1>4, <1>5, <1>9
    <3>4. CASE b = h
      BY <3>4, <2>3, <3>2, <1>3, <1>5, <1>6
    <3>5. CASE b # l /\ b # r /\ b # h
      <4>1. State(b)' = State(b)
        BY <3>5, <1>5
      <4>2. State(Up(b))' = "SPLIT" => State(Up(b)) = "SPLIT"
        <5>1. Up(b) # h
          BY <2>3, <3>5, UpFacts
        <5> QED BY <5>1, <3>1, <1>5
      <4> QED BY <4>1, <4>2, <3>2, <3>5, <2>3, <1>2, <1>9, <1>11 DEF Packed, BlockTree
    <3> QED BY <3>3, <3>4, <3>5
  <2> QED BY <2>1, <2>2, <2>3
<1>14. Hand \in Leaves
  BY <1>2 DEF Leaves
<1> QED BY <1>2, <1>4, <1>5, <1>9, <1>10, <1>11, <1>12, <1>13, <1>14 DEF Packed

\* buddy_alloc gives the block in hand to the caller.
LEMMA AllocFinishPacked ==
  ASSUME Packed, AllocFinish
  PROVE  /\ Packed'
         /\ InHand = {Hand} /\ Hand \in Blocks /\ Leaves' = Leaves /\ Listed' = Listed
         /\ live' = live \union {Hand}
         /\ answer' = [order |-> Hand.order, block |-> Hand] /\ Hand.order \in 0..NumOrders
         /\ \A b \in Blocks : State(b)' = IF b = Hand THEN "FULL" ELSE State(b)
<1> DEFINE h == Hand
<1>1. /\ pc = "split" /\ order = target /\ pc' = "idle"
      /\ block' = 0 /\ order' = 0 /\ target' = 0 /\ node' = 0
      /\ free_lists' = free_lists
  BY DEF AllocFinish, Return, Packed, Types, LoopOK, Orders
<1>2. InHand = {h} /\ InHand' = {} /\ h \in Blocks
  BY <1>1 DEF InHand, Hand, Packed, Types
<1>3. live' = live \union {h} /\ answer' = [order |-> target, block |-> h]
  BY <1>1 DEF AllocFinish, Hand
<1>4. /\ tree' \in [Nodes -> NodeStates]
      /\ \A b \in Blocks : State(b)' = IF b = h THEN "FULL" ELSE State(b)
  <2>1. tree' = [tree EXCEPT ![NodeOf(h)] = "FULL"]
    BY <1>1 DEF AllocFinish, MarkFull, NodeOf, Hand
  <2>2. tree \in [Nodes -> NodeStates] /\ "FULL" \in NodeStates
    BY DEF Packed, Types, NodeStates
  <2>3. \A x \in Blocks : NodeOf(x) \in Nodes /\ (x # h => NodeOf(x) # NodeOf(h))
    BY <1>2, NodesApart
  <2> HIDE DEF h
  <2> QED BY <1>2, <2>1, <2>2, <2>3 DEF State
<1>5. ListsOK' /\ Listed' = Listed
  BY <1>1 DEF Packed, ListsOK, Listed
<1>6. h \notin live /\ h \notin Listed /\ Leaves' = Leaves
  BY <1>2, <1>3, <1>5 DEF Leaves, Packed, Partition
<1>7. Types' /\ LoopOK'
  <2>1. 0 \in Addrs /\ 0 \in Orders /\ 0 \in Nodes
    <3>1. 0 \in Orders /\ RowStart[0] \in Nat /\ 0 \in 0..RowStart[0] /\ BlockSize[0] \in Nat
      BY TableTypes, MaxOrderAssumption DEF Orders
    <3>2. BlockAt(0, 0) \in Blocks /\ BlockAt(0, 0).addr = 0
      BY <3>1, BlocksAreRows DEF BlockAt
    <3> QED BY <3>1, <3>2, BlockTypes DEF Nodes
  <2>2. target \in 0..NumOrders
    BY MaxOrderAssumption DEF Packed, Types, Orders, NumOrders
  <2> QED BY <2>1, <2>2, <1>1, <1>2, <1>3, <1>4 DEF Packed, Types, LoopOK
<1>8. Partition'
  BY <1>2, <1>3, <1>5, <1>6 DEF Packed, Partition
<1>9. BlockTree'
  <2> SUFFICES ASSUME NEW b \in Blocks
               PROVE  /\ b \in Listed' \union InHand' => State(b)' = "FREE"
                      /\ b \in live' => State(b)' = "FULL"
                      /\ b.order < MaxOrder =>
                           /\ b \in Leaves' => State(Up(b))' = "SPLIT"
                           /\ State(b)' = "FREE" /\ State(Up(b))' = "SPLIT"
                                => b \in Listed' \union InHand'
                           /\ State(b)' = "SPLIT" => State(Up(b))' = "SPLIT"
    BY DEF BlockTree
  <2>1. State(h) = "FREE"
    BY <1>2 DEF Packed, BlockTree
  <2>2. b \in Listed' \union InHand' => State(b)' = "FREE"
    BY <1>2, <1>4, <1>5, <1>6 DEF Packed, BlockTree
  <2>3. b \in live' => State(b)' = "FULL"
    BY <1>3, <1>4 DEF Packed, BlockTree
  <2>4. ASSUME b.order < MaxOrder
        PROVE  /\ b \in Leaves' => State(Up(b))' = "SPLIT"
               /\ State(b)' = "FREE" /\ State(Up(b))' = "SPLIT"
                    => b \in Listed' \union InHand'
               /\ State(b)' = "SPLIT" => State(Up(b))' = "SPLIT"
    <3>1. Up(b) \in Blocks
      BY <2>4, UpFacts
    <3>2. State(Up(b))' = "SPLIT" <=> State(Up(b)) = "SPLIT"
      BY <3>1, <2>1, <1>4
    <3>3. CASE b = h
      BY <3>2, <3>3, <2>4, <1>2, <1>4, <1>6 DEF Packed, BlockTree, Leaves
    <3>4. CASE b # h
      BY <3>2, <3>4, <2>4, <1>2, <1>4, <1>5, <1>6 DEF Packed, BlockTree
    <3> QED BY <3>3, <3>4
  <2> QED BY <2>2, <2>3, <2>4
<1>10. answer' = [order |-> Hand.order, block |-> Hand] /\ Hand.order \in 0..NumOrders
  BY <1>1, <1>3, MaxOrderAssumption DEF Hand, Packed, Types, Orders, NumOrders
<1> QED BY <1>2, <1>3, <1>4, <1>5, <1>6, <1>7, <1>8, <1>9, <1>10 DEF Packed

\* buddy_free takes a block back from the caller and marks it free.
LEMMA FreeTakePacked ==
  ASSUME Packed, NEW h \in live, FreeTake(h)
  PROVE  /\ Packed'
         /\ Leaves' = Leaves /\ Listed' = Listed /\ h \in Blocks
         /\ \A b \in Blocks : State(b)' = IF b = h THEN "FREE" ELSE State(b)
<1>1. /\ pc = "idle" /\ pc' = "merge" /\ block' = h.addr /\ order' = h.order
      /\ node' = NodeOf(h) /\ live' = live \ {h}
      /\ free_lists' = free_lists /\ target' = target /\ answer' = answer
  BY DEF FreeTake
<1>2. h \in Blocks /\ InHand = {} /\ InHand' = {h}
  <2>1. h \in Blocks
    BY DEF Packed, Types
  <2> QED BY <1>1, <2>1, BlockTypes DEF InHand
<1>3. /\ tree' \in [Nodes -> NodeStates]
      /\ \A b \in Blocks : State(b)' = IF b = h THEN "FREE" ELSE State(b)
  <2>1. tree' = [tree EXCEPT ![NodeOf(h)] = "FREE"]
    BY DEF FreeTake
  <2>2. tree \in [Nodes -> NodeStates] /\ "FREE" \in NodeStates
    BY DEF Packed, Types, NodeStates
  <2>3. \A x \in Blocks : NodeOf(x) \in Nodes /\ (x # h => NodeOf(x) # NodeOf(h))
    BY <1>2, NodesApart
  <2> QED BY <1>2, <2>1, <2>2, <2>3 DEF State
<1>4. ListsOK' /\ Listed' = Listed
  BY <1>1 DEF Packed, ListsOK, Listed
<1>5. h \notin Listed /\ Leaves' = Leaves
  BY <1>1, <1>2, <1>4 DEF Leaves, Packed, Partition
<1>6. Types' /\ LoopOK'
  <2>1. h.addr \in Addrs /\ h.order \in Orders /\ NodeOf(h) \in Nodes
    BY <1>2, BlockTypes
  <2>2. Types'
    BY <2>1, <1>1, <1>2, <1>3 DEF Packed, Types
  <2>3. LoopOK'
    BY <1>1 DEF LoopOK, NodeOf
  <2> QED BY <2>2, <2>3
<1>7. Partition'
  BY <1>1, <1>2, <1>4, <1>5 DEF Packed, Partition
<1>8. BlockTree'
  <2> SUFFICES ASSUME NEW b \in Blocks
               PROVE  /\ b \in Listed' \union InHand' => State(b)' = "FREE"
                      /\ b \in live' => State(b)' = "FULL"
                      /\ b.order < MaxOrder =>
                           /\ b \in Leaves' => State(Up(b))' = "SPLIT"
                           /\ State(b)' = "FREE" /\ State(Up(b))' = "SPLIT"
                                => b \in Listed' \union InHand'
                           /\ State(b)' = "SPLIT" => State(Up(b))' = "SPLIT"
    BY DEF BlockTree
  <2>1. State(h) = "FULL"
    BY <1>2 DEF Packed, BlockTree
  <2>2. b \in Listed' \union InHand' => State(b)' = "FREE"
    BY <1>2, <1>3, <1>4 DEF Packed, BlockTree
  <2>3. b \in live' => State(b)' = "FULL"
    BY <1>1, <1>3 DEF Packed, BlockTree
  <2>4. ASSUME b.order < MaxOrder
        PROVE  /\ b \in Leaves' => State(Up(b))' = "SPLIT"
               /\ State(b)' = "FREE" /\ State(Up(b))' = "SPLIT"
                    => b \in Listed' \union InHand'
               /\ State(b)' = "SPLIT" => State(Up(b))' = "SPLIT"
    <3>1. Up(b) \in Blocks
      BY <2>4, UpFacts
    <3>2. State(Up(b))' = "SPLIT" <=> State(Up(b)) = "SPLIT"
      BY <3>1, <2>1, <1>3
    <3>3. CASE b = h
      BY <3>2, <3>3, <2>4, <1>2, <1>3, <1>5 DEF Packed, BlockTree, Leaves
    <3>4. CASE b # h
      BY <3>2, <3>4, <2>4, <1>2, <1>3, <1>4, <1>5 DEF Packed, BlockTree
    <3> QED BY <3>3, <3>4
  <2> QED BY <2>2, <2>3, <2>4
<1> QED BY <1>2, <1>3, <1>4, <1>5, <1>6, <1>7, <1>8 DEF Packed

\* What buddy_free finds when the tree says the buddy is free: the buddy is on
\* the list of its order, and the node above both says SPLIT.
LEMMA BuddyFound ==
  ASSUME Packed, pc = "merge", BuddyIsFree
  PROVE  /\ InHand = {Hand} /\ Hand \in Blocks /\ Hand.order < MaxOrder
         /\ NodeOf(Hand) = node /\ NodeBuddy(node) = NodeOf(BuddyOf(Hand))
         /\ [addr |-> NodePtr(NodeBuddy(node), order), order |-> order] = BuddyOf(Hand)
         /\ BuddyOf(Hand) \in Listed
         /\ State(Hand) = "FREE" /\ State(Up(Hand)) = "SPLIT"
<1>1. InHand = {Hand} /\ Hand \in Blocks /\ Hand.order = order /\ Hand.order < MaxOrder
  BY DEF InHand, Hand, Packed, Types, BuddyIsFree
<1>2. NodeOf(Hand) = node
  BY DEF Packed, LoopOK, NodeOf, Hand
<1>3. /\ BuddyOf(Hand) \in Blocks /\ BuddyOf(Hand) # Hand
      /\ NodeOf(BuddyOf(Hand)) = NodeBuddy(node)
      /\ Up(BuddyOf(Hand)).order = order + 1
  <2>1. BuddyOf(Hand) \in Blocks /\ BuddyOf(Hand) # Hand
        /\ NodeOf(BuddyOf(Hand)) = NodeBuddy(node)
    BY <1>1, <1>2, Merging
  <2>2. BuddyOf(Hand).order = order
    BY <1>1 DEF BuddyOf
  <2> QED BY <2>1, <2>2 DEF Up, Merged
<1>4. [addr |-> NodePtr(NodeBuddy(node), order), order |-> order] = BuddyOf(Hand)
  BY <1>1, <1>2 DEF BuddyOf
<1>5. State(Hand) = "FREE" /\ State(Up(Hand)) = "SPLIT"
  BY <1>1 DEF Packed, BlockTree, Leaves
<1>6. State(BuddyOf(Hand)) = "FREE"
  BY <1>3 DEF BuddyIsFree, State
<1>7. BuddyOf(Hand).order < MaxOrder /\ State(Up(BuddyOf(Hand))) = "SPLIT"
  <2>1. BuddyOf(Hand).order < MaxOrder
    BY <1>1 DEF BuddyOf
  <2>2. NodeOf(Up(BuddyOf(Hand))) = NodeOf(Up(Hand))
    <3>1. NodeParent(NodeOf(BuddyOf(Hand))) = NodeOf(Up(BuddyOf(Hand)))
      BY <2>1, <1>3, UpFacts
    <3>2. NodeParent(NodeOf(BuddyOf(Hand))) = NodeOf(Up(Hand))
      BY <1>1, Merging DEF Up
    <3> QED BY <3>1, <3>2
  <2> QED BY <2>1, <2>2, <1>5 DEF State
<1>8. BuddyOf(Hand) \in Listed
  BY <1>1, <1>3, <1>6, <1>7 DEF Packed, BlockTree
<1> QED BY <1>1, <1>2, <1>3, <1>4, <1>5, <1>8

\* One merge: the block in hand and its buddy, off its list, become the block
\* above them.
LEMMA FreeMergePacked ==
  ASSUME Packed, FreeMerge
  PROVE  /\ Packed'
         /\ Hand \in Blocks /\ Hand.order < MaxOrder
         /\ Hand \in Leaves /\ BuddyOf(Hand) \in Leaves
         /\ Leaves' = (Leaves \ {Hand, BuddyOf(Hand)}) \union {Up(Hand)}
         /\ Listed' \subseteq Listed
         /\ \A b \in Blocks : State(b)' =
              IF b = Hand \/ b = BuddyOf(Hand) \/ b = Up(Hand) THEN "FREE" ELSE State(b)
<1> DEFINE h == Hand
           y == BuddyOf(Hand)
           u == Up(Hand)
<1>1. /\ pc = "merge" /\ BuddyIsFree /\ pc' = "merge" /\ order' = order + 1
      /\ live' = live /\ target' = target /\ answer' = answer
  BY DEF FreeMerge
<1>2. /\ InHand = {h} /\ h \in Blocks /\ h.order < MaxOrder
      /\ NodeOf(h) = node /\ NodeBuddy(node) = NodeOf(y) /\ y \in Listed /\ y \in Blocks
      /\ [addr |-> NodePtr(NodeBuddy(node), order), order |-> order] = y
      /\ State(h) = "FREE" /\ State(u) = "SPLIT" /\ State(y) = "FREE"
  <2>1. y \in Blocks
    BY <1>1, BuddyFound DEF Listed
  <2>2. State(y) = "FREE"
    BY <1>1, <2>1, BuddyFound DEF Packed, BlockTree
  <2> QED BY <2>1, <2>2, <1>1, BuddyFound
<1>3. /\ u \in Blocks /\ u # h /\ u # y /\ h # y
      /\ NodeParent(node) = NodeOf(u) /\ u.order = h.order + 1 /\ u.order > 0
      /\ {LeftHalf(u), RightHalf(u)} = {h, y}
  BY <1>2, UpFacts, Merging DEF Up
<1>4. /\ block' = u.addr /\ order' = u.order /\ node' = NodeOf(u)
      /\ free_lists' = ListRemove(y.order, y.addr)
      /\ tree' = [tree EXCEPT ![NodeOf(h)] = "FREE", ![NodeOf(y)] = "FREE",
                              ![NodeOf(u)] = "FREE"]
  <2>1. y.addr = NodePtr(NodeBuddy(node), order) /\ y.order = order
    BY <1>2
  <2>2. u.addr = (IF y.addr < block THEN y.addr ELSE block) /\ u.order = order + 1
    BY DEF Up, Merged, Hand
  <2> QED BY <2>1, <2>2, <1>2, <1>3 DEF FreeMerge, LowerOf
<1>5. InHand' = {u}
  <2>1. u = [addr |-> u.addr, order |-> u.order]
    BY <1>3, BlockTypes
  <2> HIDE DEF u
  <2> QED BY <2>1, <1>1, <1>4 DEF InHand
<1>6. /\ tree' \in [Nodes -> NodeStates]
      /\ \A b \in Blocks : State(b)' = IF b = h \/ b = y \/ b = u THEN "FREE" ELSE State(b)
  <2>1. tree \in [Nodes -> NodeStates] /\ "FREE" \in NodeStates
    BY DEF Packed, Types, NodeStates
  <2>2. \A x \in Blocks : /\ NodeOf(x) \in Nodes
                          /\ x # h => NodeOf(x) # NodeOf(h)
                          /\ x # y => NodeOf(x) # NodeOf(y)
                          /\ x # u => NodeOf(x) # NodeOf(u)
    BY <1>2, <1>3, NodesApart
  <2> HIDE DEF h, y, u
  <2> QED BY <2>1, <2>2, <1>2, <1>3, <1>4 DEF State
<1>7. ListsOK' /\ Listed' = Listed \ {y}
  <2> HIDE DEF y
  <2> QED BY <1>2, <1>4, RemoveListed DEF Packed
<1>8. /\ h \notin live /\ h \notin Listed /\ y \notin live
      /\ u \notin live /\ u \notin Listed
      /\ Leaves' = (Leaves \ {h, y}) \union {u}
  <2>1. h \notin live /\ h \notin Listed /\ y \notin live
    BY <1>2 DEF Packed, Partition
  <2>2. u \notin live /\ u \notin Listed
    BY <1>2, <1>3 DEF Packed, BlockTree
  <2> HIDE DEF h, y, u
  <2> QED BY <2>1, <2>2, <1>1, <1>2, <1>5, <1>7 DEF Leaves
<1>9. Types' /\ LoopOK'
  <2>1. u.addr \in Addrs /\ u.order \in Orders /\ NodeOf(u) \in Nodes
    BY <1>3, BlockTypes
  <2>2. Types'
    <3> HIDE DEF u
    <3> QED BY <2>1, <1>1, <1>3, <1>4, <1>5, <1>6 DEF Packed, Types
  <2>3. LoopOK'
    <3> HIDE DEF u
    <3> QED BY <1>1, <1>4 DEF LoopOK, NodeOf
  <2> QED BY <2>2, <2>3
<1>10. Partition'
  <2>1. \A c \in Leaves \ {h, y} : c \in Blocks /\ Disjoint(u, c) /\ Disjoint(c, u)
    <3> SUFFICES ASSUME NEW c \in Leaves \ {h, y}
                 PROVE  c \in Blocks /\ Disjoint(u, c) /\ Disjoint(c, u)
      OBVIOUS
    <3>1. c \in Blocks
      BY <1>2 DEF Leaves, Packed, Types, Listed
    <3>2. Disjoint(h, c) /\ Disjoint(y, c)
      BY <1>2 DEF Leaves, Packed, Partition
    <3>3. Disjoint(LeftHalf(u), c) /\ Disjoint(RightHalf(u), c)
      <4> HIDE DEF h, y, u
      <4> QED BY <3>2, <1>3
    <3> QED BY <3>1, <3>3, <1>3, HalvesPartition, DisjointSymmetric
  <2>2. \A b, c \in Leaves' : b # c => Disjoint(b, c)
    BY <2>1, <1>8 DEF Packed, Partition
  <2>3. live' \intersect Listed' = {} /\ InHand' \intersect (live' \union Listed') = {}
    BY <1>1, <1>5, <1>7, <1>8 DEF Packed, Partition
  <2> QED BY <2>2, <2>3 DEF Partition
<1>11. BlockTree'
  <2> SUFFICES ASSUME NEW b \in Blocks
               PROVE  /\ b \in Listed' \union InHand' => State(b)' = "FREE"
                      /\ b \in live' => State(b)' = "FULL"
                      /\ b.order < MaxOrder =>
                           /\ b \in Leaves' => State(Up(b))' = "SPLIT"
                           /\ State(b)' = "FREE" /\ State(Up(b))' = "SPLIT"
                                => b \in Listed' \union InHand'
                           /\ State(b)' = "SPLIT" => State(Up(b))' = "SPLIT"
    BY DEF BlockTree
  <2>1. b \in Listed' \union InHand' => State(b)' = "FREE"
    BY <1>5, <1>6, <1>7 DEF Packed, BlockTree
  <2>2. b \in live' => State(b)' = "FULL"
    BY <1>1, <1>6, <1>8 DEF Packed, BlockTree
  <2>3. ASSUME b.order < MaxOrder
        PROVE  /\ b \in Leaves' => State(Up(b))' = "SPLIT"
               /\ State(b)' = "FREE" /\ State(Up(b))' = "SPLIT"
                    => b \in Listed' \union InHand'
               /\ State(b)' = "SPLIT" => State(Up(b))' = "SPLIT"
    <3>1. Up(b) \in Blocks /\ Up(b) # b /\ (b = LeftHalf(Up(b)) \/ b = RightHalf(Up(b)))
      BY <2>3, UpFacts
    <3>2. Up(b) = u => b = h \/ b = y
      <4> HIDE DEF h, y, u
      <4> QED BY <3>1, <1>3
    <3>3. Up(h) = u /\ Up(y) = u
      <4>1. NodeOf(Up(y)) = NodeOf(u)
        <5>1. y.order < MaxOrder
          BY <1>2 DEF BuddyOf
        <5> QED BY <5>1, <1>2, UpFacts, Merging DEF Up
      <4>2. Up(y) \in Blocks
        BY <1>2, UpFacts DEF BuddyOf
      <4> QED BY <4>1, <4>2, <1>3, NodeOfInjective
    <3> HIDE DEF h, y, u
    <3>4. State(Up(b)) = "SPLIT" /\ b # h /\ b # y => State(Up(b))' = "SPLIT"
      BY <3>1, <3>2, <1>2, <1>6
    <3>5. State(Up(b))' = "SPLIT" =>
            State(Up(b)) = "SPLIT" /\ Up(b) # h /\ Up(b) # y /\ Up(b) # u
      BY <3>1, <1>6
    <3>6. CASE b = h \/ b = y
      BY <3>3, <3>5, <3>6, <1>1, <1>3, <1>5, <1>6, <1>7, <1>8 DEF Leaves
    <3>7. CASE b = u
      <4>1. State(Up(b)) = "SPLIT"
        BY <3>7, <2>3, <1>2, <1>3 DEF Packed, BlockTree
      <4> QED BY <4>1, <3>4, <3>7, <1>3, <1>5, <1>6
    <3>8. CASE b # h /\ b # y /\ b # u
      <4>1. State(b)' = State(b)
        BY <3>8, <1>6
      <4> QED BY <4>1, <3>4, <3>5, <3>8, <2>3, <1>2, <1>7, <1>8 DEF Packed, BlockTree
    <3> QED BY <3>6, <3>7, <3>8
  <2> QED BY <2>1, <2>2, <2>3
<1>12. Hand \in Leaves /\ BuddyOf(Hand) \in Leaves
  BY <1>2 DEF Leaves
<1> QED BY <1>2, <1>6, <1>7, <1>8, <1>9, <1>10, <1>11, <1>12 DEF Packed

\* buddy_free lists what it has merged: the block moves from the hand to the
\* lists, and nothing else changes.
LEMMA FreeFinishPacked ==
  ASSUME Packed, FreeFinish
  PROVE  /\ Packed'
         /\ Hand \in Blocks /\ NodeOf(Hand) = node /\ Hand.order = order
         /\ tree' = tree /\ Leaves' = Leaves /\ Listed' = Listed \union {Hand}
<1> DEFINE h == Hand
<1>1. /\ pc = "merge" /\ pc' = "idle"
      /\ block' = 0 /\ order' = 0 /\ target' = 0 /\ node' = 0
      /\ tree' = tree /\ live' = live /\ answer' = answer
      /\ free_lists' = ListPush(h.order, h.addr)
  BY DEF FreeFinish, Return, Hand
<1>2. InHand = {h} /\ InHand' = {} /\ h \in Blocks
  BY <1>1 DEF InHand, Hand, Packed, Types
<1>3. h \notin live /\ h \notin Listed
  BY <1>2 DEF Packed, Partition
<1>4. ListsOK' /\ Listed' = Listed \union {h}
  <2> HIDE DEF h
  <2> QED BY <1>1, <1>2, <1>3, PushListed DEF Packed
<1>5. Leaves' = Leaves /\ Listed' \union InHand' = Listed \union InHand
  BY <1>1, <1>2, <1>4 DEF Leaves
<1>6. Types' /\ LoopOK'
  <2>1. 0 \in Addrs /\ 0 \in Orders /\ 0 \in Nodes
    <3>1. 0 \in Orders /\ RowStart[0] \in Nat /\ 0 \in 0..RowStart[0] /\ BlockSize[0] \in Nat
      BY TableTypes, MaxOrderAssumption DEF Orders
    <3>2. BlockAt(0, 0) \in Blocks /\ BlockAt(0, 0).addr = 0
      BY <3>1, BlocksAreRows DEF BlockAt
    <3> QED BY <3>1, <3>2, BlockTypes DEF Nodes
  <2> QED BY <2>1, <1>1, <1>2 DEF Packed, Types, LoopOK
<1>7. Partition'
  BY <1>1, <1>2, <1>3, <1>4, <1>5 DEF Packed, Partition
<1>8. BlockTree'
  BY <1>1, <1>5 DEF Packed, BlockTree, State
<1>9. NodeOf(Hand) = node /\ Hand.order = order
  BY <1>1 DEF Packed, LoopOK, NodeOf, Hand
<1> QED BY <1>1, <1>2, <1>4, <1>5, <1>6, <1>7, <1>8, <1>9 DEF Packed

\* Every step keeps Exact: one lemma above for each action.
LEMMA StepExact == Exact /\ [Next]_vars => Exact'
<1> SUFFICES ASSUME Packed, [Next]_vars PROVE Packed'
  BY Repack, RepackNext
<1>1. ASSUME NEW t \in 0..NumOrders, AllocRefuse(t) PROVE Packed'
  BY <1>1, AllocRefusePacked
<1>2. ASSUME NEW t \in 0..NumOrders, AllocTake(t) PROVE Packed'
  BY <1>2, AllocTakePacked
<1>3. CASE AllocSplit
  BY <1>3, AllocSplitPacked
<1>4. CASE AllocFinish
  BY <1>4, AllocFinishPacked
<1>5. ASSUME NEW h \in live, FreeTake(h) PROVE Packed'
  BY <1>5, FreeTakePacked
<1>6. CASE FreeMerge
  BY <1>6, FreeMergePacked
<1>7. CASE FreeFinish
  BY <1>7, FreeFinishPacked
<1>8. CASE UNCHANGED vars
  BY <1>8, StutterPacked
<1> QED BY <1>1, <1>2, <1>3, <1>4, <1>5, <1>6, <1>7, <1>8 DEF Next

-----------------------------------------------------------------------------
(* What the invariant means for the pool. *)

\* The tree, the lists and the headers agree in every pool.
LEMMA Exactness == Spec => []Exact
<1>1. Init => Exact
  BY InitExact
<1>2. Exact /\ [Next]_vars => Exact'
  BY StepExact
<1> QED BY <1>1, <1>2, PTL DEF Spec

\* buddy_alloc and buddy_free keep every variable in its type; in particular
\* they never form the address of a block, or the index of a node, outside the
\* pool.
THEOREM TypeCorrect == Spec => []TypeOK
<1>1. Exact => TypeOK
  BY DEF Exact
<1> QED BY <1>1, Exactness, PTL

\* Two blocks that are allocated, listed or in hand never share a page, and no
\* block is in two of these places (for pools of every depth).
THEOREM Separation == Spec => []NoOverlap
<1>1. Exact => NoOverlap
  BY DEF Exact
<1> QED BY <1>1, Exactness, PTL

\* The node states that buddy_free and the leak walk read agree with the lists
\* and the headers.
THEOREM TreeFaithful == Spec => []TreeAgrees
<1>1. Exact => TreeAgrees
  <2> SUFFICES ASSUME TypeOK, TreeExact PROVE TreeAgrees
    BY DEF Exact
  <2>1. live \subseteq Blocks /\ Listed \subseteq Blocks
    BY DEF TypeOK, Listed
  <2> QED BY <2>1 DEF TreeExact, TreeAgrees, Leaves
<1> QED BY <1>1, Exactness, PTL

\* Whenever buddy_free unlinks a buddy, that buddy is on the list it is unlinked
\* from: the doubly linked lists are never cut through a block in use.
THEOREM MergeIsSafe == Spec => []BuddyListed
<1>1. Exact => BuddyListed
  BY Repack, BuddyFound DEF BuddyListed
<1> QED BY <1>1, Exactness, PTL

-----------------------------------------------------------------------------
(* NothingLost: the places blocks can be in only ever trade a block for its *)
(* two halves, or the halves for the block.                                *)

\* Trading a set of blocks for others with the same pages keeps the pages.
LEMMA SamePages ==
  ASSUME NEW L, NEW A, NEW B, A \subseteq L,
         UNION {Pages(b) : b \in A} = UNION {Pages(b) : b \in B}
  PROVE  UNION {Pages(b) : b \in (L \ A) \union B} = UNION {Pages(b) : b \in L}
OBVIOUS

\* In a new pool the root holds every page.
LEMMA InitNothingLost == Init => NothingLost
<1> SUFFICES ASSUME Init PROVE NothingLost
  OBVIOUS
<1> DEFINE root == [addr |-> 0, order |-> MaxOrder]
<1>1. Leaves = {root}
  BY InitPlaces
<1>2. MaxOrder \in Orders /\ BlockSize[MaxOrder] \in Nat
  BY MaxOrderAssumption, TableTypes DEF Orders
<1>3. Pages(root) = 0..(PoolPages - 1)
  BY <1>2 DEF Pages, PoolPages
<1> QED BY <1>1, <1>3 DEF NothingLost

\* Every step keeps each page in some block: a half, a merge, a move.
LEMMA StepNothingLost == Exact /\ NothingLost /\ [Next]_vars => NothingLost'
<1> SUFFICES ASSUME Packed, NothingLost, [Next]_vars PROVE NothingLost'
  BY Repack
<1>1. Leaves' = Leaves => NothingLost'
  BY DEF NothingLost
<1>2. CASE AllocSplit
  <2> DEFINE h == Hand
             l == LeftHalf(Hand)
             r == RightHalf(Hand)
  <2>1. h \in Leaves /\ Leaves' = (Leaves \ {h}) \union {l, r}
    BY <1>2, AllocSplitPacked
  <2>2. Pages(h) = Pages(l) \union Pages(r)
    BY <1>2, AllocSplitPacked, HalvesPages
  <2> HIDE DEF h, l, r
  <2>3. UNION {Pages(b) : b \in {h}} = UNION {Pages(b) : b \in {l, r}}
    BY <2>2
  <2>4. UNION {Pages(b) : b \in Leaves'} = UNION {Pages(b) : b \in Leaves}
    BY <2>1, <2>3, SamePages
  <2> QED BY <2>4 DEF NothingLost
<1>3. CASE FreeMerge
  <2> DEFINE h == Hand
             y == BuddyOf(Hand)
             u == Up(Hand)
  <2>1. /\ h \in Blocks /\ h.order < MaxOrder /\ h \in Leaves /\ y \in Leaves
        /\ Leaves' = (Leaves \ {h, y}) \union {u}
    BY <1>3, FreeMergePacked
  <2>2. u \in Blocks /\ u.order > 0 /\ {LeftHalf(u), RightHalf(u)} = {h, y}
    BY <2>1, UpFacts, Merging DEF Up
  <2> HIDE DEF h, y, u
  <2>3. Pages(u) = Pages(LeftHalf(u)) \union Pages(RightHalf(u))
    BY <2>2, HalvesPages
  <2>4. Pages(u) = Pages(h) \union Pages(y)
    BY <2>2, <2>3
  <2>5. UNION {Pages(b) : b \in {h, y}} = UNION {Pages(b) : b \in {u}}
    BY <2>4
  <2>6. {h, y} \subseteq Leaves
    BY <2>1
  <2>7. UNION {Pages(b) : b \in Leaves'} = UNION {Pages(b) : b \in Leaves}
    BY <2>1, <2>5, <2>6, SamePages
  <2> QED BY <2>7 DEF NothingLost
<1>4. ASSUME NEW t \in 0..NumOrders, AllocRefuse(t) PROVE Leaves' = Leaves
  BY <1>4 DEF AllocRefuse, locals, Leaves, Listed, InHand
<1>5. ASSUME NEW t \in 0..NumOrders, AllocTake(t) PROVE Leaves' = Leaves
  BY <1>5, AllocTakePacked
<1>6. CASE AllocFinish
  BY <1>1, <1>6, AllocFinishPacked
<1>7. ASSUME NEW h \in live, FreeTake(h) PROVE Leaves' = Leaves
  BY <1>7, FreeTakePacked
<1>8. CASE FreeFinish
  BY <1>1, <1>8, FreeFinishPacked
<1>9. CASE UNCHANGED vars
  BY <1>1, <1>9 DEF vars, locals, Leaves, Listed, InHand
<1> QED BY <1>1, <1>2, <1>3, <1>4, <1>5, <1>6, <1>7, <1>8, <1>9 DEF Next

-----------------------------------------------------------------------------
(* The inductive invariant IInv. *)

\* TreeComplete, said of blocks instead of nodes.
Reached(b) == b.order < MaxOrder => State(Up(b)) = "SPLIT"

BlockComplete == \A b \in Blocks :
  /\ State(b) = "SPLIT" => b.order > 0
  /\ Reached(b) /\ State(b) # "SPLIT" => b \in Leaves

\* TreeComplete, read block by block.
LEMMA CompleteForm == TreeComplete <=> BlockComplete
<1>1. \A b \in Blocks : b.order < MaxOrder => NodeParent(NodeOf(b)) = NodeOf(Up(b))
  BY UpFacts
<1> QED BY <1>1 DEF TreeComplete, BlockComplete, State, Reached

\* The same, of the next state.
LEMMA CompleteFormNext == TreeComplete' <=> BlockComplete'
<1>1. \A b \in Blocks : b.order < MaxOrder => NodeParent(NodeOf(b)) = NodeOf(Up(b))
  BY UpFacts
<1> QED BY <1>1 DEF TreeComplete, BlockComplete, State, Reached

\* A new pool has the whole invariant.
LEMMA InitIInv == Init => IInv
<1> SUFFICES ASSUME Init PROVE BlockComplete /\ NeverBoth
  BY InitExact, CompleteForm DEF IInv
<1> DEFINE root == [addr |-> 0, order |-> MaxOrder]
<1>1. /\ root \in Blocks /\ Listed = {root} /\ Leaves = {root}
      /\ \A b \in Blocks : State(b) = IF b = root THEN "FREE" ELSE "FULL"
  BY InitPlaces
<1>2. \A b \in Blocks : b.order < MaxOrder => Up(b) \in Blocks
  BY UpFacts
<1>3. ASSUME NEW b \in Blocks, b.order = MaxOrder PROVE b = root
  <2>1. PICK o \in Orders, i \in Nat : i \in 0..RowStart[o] /\ b = BlockAt(o, i)
    BY BlocksAreRows
  <2>2. o = MaxOrder /\ RowStart[MaxOrder] = 0 /\ BlockSize[MaxOrder] \in Nat
    BY <1>3, <2>1, MaxOrderAssumption, RowStartAssumption, TableTypes DEF BlockAt, Orders
  <2>3. i = 0 /\ i * BlockSize[o] = 0
    BY <2>1, <2>2
  <2> QED BY <2>1, <2>2, <2>3 DEF BlockAt
<1>4. BlockComplete
  <2> SUFFICES ASSUME NEW b \in Blocks, Reached(b) PROVE b = root
    BY <1>1 DEF BlockComplete
  <2>1. CASE b.order < MaxOrder
    <3>1. State(Up(b)) # "SPLIT"
      BY <1>1, <1>2, <2>1
    <3> QED BY <2>1, <3>1 DEF Reached
  <2>2. CASE ~(b.order < MaxOrder)
    <3>1. b.order = MaxOrder
      BY <2>2, BlockTypes, MaxOrderAssumption DEF Orders
    <3> QED BY <3>1, <1>3
  <2> QED BY <2>1, <2>2
<1>5. NeverBoth
  BY <1>1, MaxOrderAssumption DEF NeverBoth
<1> QED BY <1>4, <1>5

\* A step that changes neither the tree nor the blocks in the three places.
LEMMA SameComplete ==
  ASSUME BlockComplete, tree' = tree, Leaves' = Leaves
  PROVE  BlockComplete'
<1>1. \A b : State(b)' = State(b) /\ Reached(b)' = Reached(b)
  BY DEF State, Reached
<1> QED BY <1>1 DEF BlockComplete

\* The one block h, which is in one of the three places, is marked.
LEMMA MarkComplete ==
  ASSUME BlockComplete, Leaves' = Leaves, NEW h \in Leaves, State(h) # "SPLIT",
         NEW mark, mark # "SPLIT",
         \A b \in Blocks : State(b)' = IF b = h THEN mark ELSE State(b)
  PROVE  BlockComplete'
<1> SUFFICES ASSUME NEW b \in Blocks
             PROVE  /\ State(b)' = "SPLIT" => b.order > 0
                    /\ Reached(b)' /\ State(b)' # "SPLIT" => b \in Leaves'
  BY DEF BlockComplete
<1>1. Reached(b)' => Reached(b)
  <2>1. b.order < MaxOrder => Up(b) \in Blocks
    BY UpFacts
  <2> QED BY <2>1 DEF Reached
<1> QED BY <1>1 DEF BlockComplete

\* A split marks the block SPLIT and leaves its halves reachable.
LEMMA SplitComplete ==
  ASSUME Packed, BlockComplete, AllocSplit
  PROVE  BlockComplete'
<1> DEFINE h == Hand
           l == LeftHalf(Hand)
           r == RightHalf(Hand)
<1>1. /\ h \in Blocks /\ h.order > 0
      /\ Leaves' = (Leaves \ {h}) \union {l, r}
      /\ \A b \in Blocks : State(b)' = IF b = h THEN "SPLIT"
           ELSE IF b = l \/ b = r THEN "FREE" ELSE State(b)
  BY AllocSplitPacked
<1> HIDE DEF h, l, r
<1> SUFFICES ASSUME NEW b \in Blocks
             PROVE  /\ State(b)' = "SPLIT" => b.order > 0
                    /\ Reached(b)' /\ State(b)' # "SPLIT" => b \in Leaves'
  BY DEF BlockComplete
<1>2. State(b)' = "SPLIT" => b.order > 0
  BY <1>1 DEF BlockComplete
<1>3. ASSUME Reached(b)', State(b)' # "SPLIT" PROVE b \in Leaves'
  <2>1. CASE b = l \/ b = r
    BY <2>1, <1>1
  <2>2. CASE b # l /\ b # r
    <3>1. b # h /\ State(b)' = State(b)
      BY <2>2, <1>1, <1>3
    <3>2. b.order < MaxOrder => Up(b) \in Blocks /\ Up(b) # h
      <4> SUFFICES ASSUME b.order < MaxOrder PROVE Up(b) \in Blocks /\ Up(b) # h
        OBVIOUS
      <4>1. Up(b) \in Blocks /\ (b = LeftHalf(Up(b)) \/ b = RightHalf(Up(b)))
        BY UpFacts
      <4> QED BY <4>1, <2>2 DEF h, l, r
    <3>3. Reached(b)
      BY <3>2, <1>1, <1>3 DEF Reached
    <3> QED BY <3>1, <3>3, <1>1, <1>3 DEF BlockComplete
  <2> QED BY <2>1, <2>2
<1> QED BY <1>2, <1>3

\* A merge makes the parent what is in hand, under a path that is SPLIT.
LEMMA MergeComplete ==
  ASSUME Packed, BlockComplete, FreeMerge
  PROVE  BlockComplete'
<1> DEFINE h == Hand
           y == BuddyOf(Hand)
           u == Up(Hand)
<1>1. /\ h \in Blocks /\ h.order < MaxOrder
      /\ Leaves' = (Leaves \ {h, y}) \union {u}
      /\ \A b \in Blocks : State(b)' =
           IF b = h \/ b = y \/ b = u THEN "FREE" ELSE State(b)
  BY FreeMergePacked
<1>2. u \in Blocks /\ y \in Blocks /\ y.order < MaxOrder /\ Up(y) = u
  <2>1. u \in Blocks /\ y \in Blocks /\ NodeParent(NodeOf(y)) = NodeOf(u)
    BY <1>1, Merging DEF Up
  <2>2. y.order < MaxOrder
    BY <1>1 DEF BuddyOf
  <2>3. Up(y) \in Blocks /\ NodeParent(NodeOf(y)) = NodeOf(Up(y))
    BY <2>1, <2>2, UpFacts
  <2>4. Up(y) = u
    <3> HIDE DEF h, y, u
    <3> QED BY <2>1, <2>3, NodeOfInjective
  <2> QED BY <2>1, <2>2, <2>4
<1>3. Up(h) = u
  OBVIOUS
<1> HIDE DEF h, y, u
<1> SUFFICES ASSUME NEW b \in Blocks
             PROVE  /\ State(b)' = "SPLIT" => b.order > 0
                    /\ Reached(b)' /\ State(b)' # "SPLIT" => b \in Leaves'
  BY DEF BlockComplete
<1>4. State(b)' = "SPLIT" => b.order > 0
  BY <1>1 DEF BlockComplete
<1>5. ASSUME Reached(b)', State(b)' # "SPLIT" PROVE b \in Leaves'
  <2>1. CASE b = u
    BY <2>1, <1>1
  <2>2. CASE b # u
    <3>1. b # h /\ b # y
      BY <1>1, <1>2, <1>3, <1>5 DEF Reached
    <3>2. b.order < MaxOrder => Up(b) \in Blocks
      BY UpFacts
    <3>3. Reached(b) /\ State(b)' = State(b)
      BY <2>2, <3>1, <3>2, <1>1, <1>5 DEF Reached
    <3> QED BY <3>1, <3>3, <1>1, <1>5 DEF BlockComplete
  <2> QED BY <2>1, <2>2
<1> QED BY <1>4, <1>5

\* Every step keeps the tree complete.
LEMMA StepComplete ==
  ASSUME Packed, BlockComplete, [Next]_vars
  PROVE  BlockComplete'
<1>1. ASSUME NEW t \in 0..NumOrders, AllocRefuse(t) PROVE BlockComplete'
  <2>1. tree' = tree /\ Leaves' = Leaves
    BY <1>1 DEF AllocRefuse, locals, Leaves, Listed, InHand
  <2> QED BY <2>1, SameComplete
<1>2. ASSUME NEW t \in 0..NumOrders, AllocTake(t) PROVE BlockComplete'
  BY <1>2, AllocTakePacked, SameComplete
<1>3. CASE AllocFinish
  <2>1. /\ Hand \in Leaves /\ Hand \in Blocks /\ Leaves' = Leaves
        /\ \A b \in Blocks : State(b)' = IF b = Hand THEN "FULL" ELSE State(b)
    BY <1>3, AllocFinishPacked DEF Leaves
  <2>2. State(Hand) # "SPLIT"
    BY <1>3, <2>1, AllocFinishPacked DEF Packed, BlockTree
  <2> HIDE DEF Hand
  <2> QED BY <2>1, <2>2, MarkComplete
<1>4. ASSUME NEW h \in live, FreeTake(h) PROVE BlockComplete'
  <2>1. /\ h \in Leaves /\ h \in Blocks /\ Leaves' = Leaves
        /\ \A b \in Blocks : State(b)' = IF b = h THEN "FREE" ELSE State(b)
    BY <1>4, FreeTakePacked DEF Leaves
  <2>2. State(h) # "SPLIT"
    BY <2>1 DEF Packed, BlockTree
  <2> QED BY <2>1, <2>2, MarkComplete
<1>5. CASE FreeFinish
  BY <1>5, FreeFinishPacked, SameComplete
<1>6. CASE UNCHANGED vars
  <2>1. tree' = tree /\ Leaves' = Leaves
    BY <1>6 DEF vars, locals, Leaves, Listed, InHand
  <2> QED BY <2>1, SameComplete
<1> QED BY <1>1, <1>2, <1>3, <1>4, <1>5, <1>6, SplitComplete, MergeComplete DEF Next

\* Buddies are each other's buddy, below the same block, and NodeBuddy computes
\* the node of the one from that of the other.
LEMMA Buddies ==
  ASSUME NEW b \in Blocks, b.order < MaxOrder
  PROVE  /\ BuddyOf(b) \in Blocks /\ BuddyOf(b) # b /\ BuddyOf(b).order < MaxOrder
         /\ BuddyOf(BuddyOf(b)) = b /\ Up(BuddyOf(b)) = Up(b)
         /\ \A c \in Blocks : NodeOf(c) = NodeBuddy(NodeOf(b)) <=> c = BuddyOf(b)
<1> DEFINE y == BuddyOf(b)
<1>1. /\ y \in Blocks /\ y # b /\ NodeOf(y) = NodeBuddy(NodeOf(b))
      /\ NodeParent(NodeOf(y)) = NodeOf(Up(b)) /\ Up(b) \in Blocks
      /\ {LeftHalf(Up(b)), RightHalf(Up(b))} = {b, y}
  BY Merging DEF Up
<1>2. y.order < MaxOrder
  BY DEF BuddyOf
<1> HIDE DEF y
<1>3. /\ BuddyOf(y) # y /\ Up(y) \in Blocks /\ NodeParent(NodeOf(y)) = NodeOf(Up(y))
      /\ {LeftHalf(Up(y)), RightHalf(Up(y))} = {y, BuddyOf(y)}
  BY <1>1, <1>2, Merging DEF Up
<1>4. Up(y) = Up(b)
  BY <1>1, <1>3, NodeOfInjective
<1>5. BuddyOf(y) = b
  BY <1>1, <1>3, <1>4
<1>6. \A c \in Blocks : NodeOf(c) = NodeBuddy(NodeOf(b)) <=> c = y
  BY <1>1, NodeOfInjective
<1> QED BY <1>1, <1>2, <1>4, <1>5, <1>6 DEF y

\* Every step keeps two free buddies from being both on a list.
LEMMA StepNeverBoth ==
  ASSUME Packed, Packed', NeverBoth, [Next]_vars
  PROVE  NeverBoth'
<1> USE DEF NeverBoth
<1>1. Listed' \subseteq Listed => NeverBoth'
  OBVIOUS
<1>2. ASSUME NEW t \in 0..NumOrders, AllocRefuse(t) PROVE Listed' = Listed
  BY <1>2 DEF AllocRefuse, Listed
<1>3. ASSUME NEW t \in 0..NumOrders, AllocTake(t) PROVE Listed' \subseteq Listed
  BY <1>3, AllocTakePacked
<1>4. ASSUME NEW h \in Blocks, Listed' = Listed \union {h},
             h.order < MaxOrder => BuddyOf(h) \notin Listed
      PROVE  NeverBoth'
  <2> SUFFICES ASSUME NEW b \in Listed', NEW c \in Listed', b.order < MaxOrder,
                      NodeOf(c) = NodeBuddy(NodeOf(b))
               PROVE  FALSE
    OBVIOUS
  <2>1. b \in Blocks /\ c \in Blocks
    BY DEF Listed
  <2>2. c = BuddyOf(b) /\ b = BuddyOf(c) /\ c # b /\ c.order < MaxOrder
    BY <2>1, Buddies
  <2>3. b = h \/ c = h
    BY <1>4
  <2> QED BY <1>4, <2>2, <2>3
<1>5. CASE AllocSplit
  <2> DEFINE h == Hand
             r == RightHalf(Hand)
  <2>1. /\ h \in Blocks /\ h.order > 0
        /\ Listed' = Listed \union {r} /\ LeftHalf(h) \notin Listed'
    <3>1. LeftHalf(h) \notin Listed'
      BY <1>5, AllocSplitPacked DEF Packed, Partition
    <3> QED BY <3>1, <1>5, AllocSplitPacked
  <2>2. r \in Blocks /\ r # LeftHalf(h) /\ r.order < MaxOrder /\ Up(r) = h
    BY <2>1, Halves, UpOfHalf
  <2>3. BuddyOf(r) = LeftHalf(h)
    <3>1. {LeftHalf(Up(r)), RightHalf(Up(r))} = {r, BuddyOf(r)}
      BY <2>2, Merging DEF Up
    <3> QED BY <3>1, <2>2
  <2> HIDE DEF h, r
  <2> QED BY <2>1, <2>2, <2>3, <1>4
<1>6. CASE AllocFinish
  BY <1>1, <1>6, AllocFinishPacked
<1>7. ASSUME NEW h \in live, FreeTake(h) PROVE Listed' = Listed
  BY <1>7, FreeTakePacked
<1>8. CASE FreeMerge
  BY <1>1, <1>8, FreeMergePacked
<1>9. CASE FreeFinish
  <2> DEFINE h == Hand
  <2>1. /\ h \in Blocks /\ NodeOf(h) = node /\ h.order = order
        /\ Listed' = Listed \union {h}
    BY <1>9, FreeFinishPacked
  <2>2. h.order < MaxOrder => BuddyOf(h) \notin Listed
    <3> SUFFICES ASSUME h.order < MaxOrder, BuddyOf(h) \in Listed PROVE FALSE
      OBVIOUS
    <3>1. BuddyOf(h) \in Blocks /\ NodeOf(BuddyOf(h)) = NodeBuddy(node)
      BY <2>1, Merging
    <3>2. tree[NodeBuddy(node)] = "FREE"
      BY <3>1 DEF Packed, BlockTree, State
    <3> QED BY <3>2, <2>1, <1>9 DEF FreeFinish, BuddyIsFree
  <2> HIDE DEF h
  <2> QED BY <2>1, <2>2, <1>4
<1>10. CASE UNCHANGED vars
  <2>1. Listed' = Listed
    BY <1>10 DEF vars, locals, Listed
  <2> QED BY <2>1
<1> QED BY <1>1, <1>2, <1>3, <1>5, <1>6, <1>7, <1>8, <1>9, <1>10 DEF Next

\* Every step keeps the whole invariant.
LEMMA StepIInv == IInv /\ [Next]_vars => IInv'
<1> SUFFICES ASSUME IInv, [Next]_vars PROVE IInv'
  OBVIOUS
<1>1. Packed /\ BlockComplete /\ NeverBoth
  BY Repack, CompleteForm DEF IInv
<1>2. Exact' /\ Packed'
  BY StepExact, RepackNext DEF IInv
<1>3. TreeComplete' /\ NeverBoth'
  BY <1>1, <1>2, StepComplete, StepNeverBoth, CompleteFormNext
<1> QED BY <1>2, <1>3 DEF IInv

\* The tree, the lists and the headers agree, every node is accounted for, and
\* buddies are never both listed.
THEOREM Invariance == Spec => []IInv
<1>1. Init => IInv
  BY InitIInv
<1>2. IInv /\ [Next]_vars => IInv'
  BY StepIInv
<1> QED BY <1>1, <1>2, PTL DEF Spec

\* buddy_alloc and buddy_free lose no page: those allocated, listed and in hand
\* are the whole pool, at every step of the two loops.
THEOREM Covered == Spec => []NothingLost
<1>1. Init => NothingLost
  BY InitNothingLost
<1>2. Exact /\ NothingLost /\ [Next]_vars => NothingLost'
  BY StepNothingLost
<1> QED BY <1>1, <1>2, Exactness, PTL DEF Spec

\* Free buddies never stay apart: the merging loop of buddy_free stops only
\* where the buddy is in use, and buddy_alloc's splits leave no two free halves.
THEOREM FullyMerged == Spec => []Coalesced
<1>1. IInv => Coalesced
  BY DEF IInv, NeverBoth, Coalesced
<1> QED BY <1>1, Invariance, PTL

-----------------------------------------------------------------------------
(* The pool implements PageRuns. *)

\* A node that says SPLIT has a block in use somewhere below it: otherwise two
\* free buddies would be listed.  By the least order of a counterexample.
LEMMA SplitHoldsLive ==
  ASSUME IInv, pc = "idle", NEW x \in Blocks, State(x) = "SPLIT"
  PROVE  \E c \in live : Within(c, x)
<1> DEFINE Bad(b)  == State(b) = "SPLIT" /\ \A c \in live : ~Within(c, b)
           Wrong == {b.order : b \in {d \in Blocks : Bad(d)}}
<1> SUFFICES ASSUME Bad(x) PROVE FALSE
  OBVIOUS
<1>1. Packed /\ BlockComplete /\ NeverBoth
  BY Repack, CompleteForm DEF IInv
<1>2. Wrong \in SUBSET Nat /\ Wrong # {}
  BY BlockTypes DEF Orders
<1>3. PICK n \in Wrong : \A k \in Wrong : n <= k
  <2> HIDE DEF Wrong
  <2> QED BY <1>2, LeastNatural
<1>4. PICK b \in Blocks : Bad(b) /\ b.order = n
  BY <1>3
<1>5. b.order > 0 /\ n \in Nat
  BY <1>1, <1>2, <1>4 DEF BlockComplete
<1> DEFINE l == LeftHalf(b)
           r == RightHalf(b)
<1>6. /\ l \in Blocks /\ r \in Blocks /\ l # r
      /\ l.order < MaxOrder /\ r.order < MaxOrder /\ Up(l) = b /\ Up(r) = b
      /\ l.order = n - 1 /\ r.order = n - 1
      /\ Within(l, b) /\ Within(r, b)
  BY <1>4, <1>5, Halves, UpOfHalf, HalvesWithin DEF LeftHalf, RightHalf
<1> HIDE DEF l, r
<1>7. ASSUME NEW h \in {l, r} PROVE h \in Listed
  <2>1. h \in Blocks /\ h.order = n - 1 /\ Reached(h) /\ Within(h, b)
    BY <1>4, <1>6 DEF Reached
  <2>2. \A c \in live : c \in Blocks /\ (Within(c, h) => Within(c, b))
    BY <2>1, WithinFacts, <1>1 DEF Packed, Types
  <2>3. \A c \in live : ~Within(c, h)
    BY <2>2, <1>4
  <2>4. State(h) # "SPLIT"
    <3>1. State(h) = "SPLIT" => n - 1 \in Wrong
      BY <2>1, <2>3
    <3> HIDE DEF Wrong
    <3> QED BY <3>1, <1>3, <1>5
  <2>5. h \in Leaves
    BY <2>1, <2>4, <1>1 DEF BlockComplete
  <2>6. h \notin live
    BY <2>1, <2>3, WithinFacts
  <2> QED BY <2>5, <2>6 DEF Leaves, InHand
<1>8. r = BuddyOf(l)
  <2>1. {LeftHalf(Up(l)), RightHalf(Up(l))} = {l, BuddyOf(l)}
    BY <1>6, Merging DEF Up
  <2> QED BY <2>1, <1>6 DEF l, r
<1>9. NodeOf(r) = NodeBuddy(NodeOf(l))
  BY <1>6, <1>8, Buddies
<1> QED BY <1>1, <1>6, <1>7, <1>9 DEF NeverBoth

\* Every block of the pool lies within a block that is in one of the three
\* places, or has been split.  By the greatest order of a counterexample.
LEMMA WithinLeafOrSplit ==
  ASSUME IInv, NEW x \in Blocks
  PROVE  State(x) = "SPLIT" \/ \E c \in Leaves : c.order >= x.order /\ Within(x, c)
<1> DEFINE Good(b)  == State(b) = "SPLIT" \/ \E c \in Leaves : c.order >= b.order /\ Within(b, c)
           Wrong == {MaxOrder - b.order : b \in {d \in Blocks : ~Good(d)}}
<1> SUFFICES ASSUME ~Good(x) PROVE FALSE
  OBVIOUS
<1>1. Packed /\ BlockComplete
  BY Repack, CompleteForm DEF IInv
<1>2. Wrong \in SUBSET Nat /\ Wrong # {}
  BY BlockTypes, MaxOrderAssumption DEF Orders
<1>3. PICK n \in Wrong : \A k \in Wrong : n <= k
  <2> HIDE DEF Wrong
  <2> QED BY <1>2, LeastNatural
<1>4. PICK b \in Blocks : ~Good(b) /\ MaxOrder - b.order = n
  BY <1>3
<1>5. b.order \in Nat /\ b.order <= MaxOrder /\ Leaves \subseteq Blocks
  BY <1>1, BlockTypes, MaxOrderAssumption DEF Orders, Leaves, Listed, Packed, Types
<1>6. b \notin Leaves
  BY <1>4, <1>5, WithinFacts
<1>7. b.order < MaxOrder /\ State(Up(b)) # "SPLIT"
  BY <1>1, <1>4, <1>5, <1>6 DEF BlockComplete, Reached
<1>8. Up(b) \in Blocks /\ Up(b).order = b.order + 1 /\ Within(b, Up(b))
  <2>1. Up(b) \in Blocks /\ Up(b).order = b.order + 1 /\ Up(b).order > 0
        /\ (b = LeftHalf(Up(b)) \/ b = RightHalf(Up(b)))
    BY <1>7, UpFacts
  <2> QED BY <2>1, HalvesWithin
<1>9. Good(Up(b))
  <2>1. ~Good(Up(b)) => MaxOrder - (b.order + 1) \in Wrong
    BY <1>8
  <2> HIDE DEF Wrong, Good
  <2> QED BY <2>1, <1>3, <1>4, <1>5, MaxOrderAssumption
<1>10. PICK c \in Leaves : c.order >= b.order + 1 /\ Within(Up(b), c)
  BY <1>7, <1>8, <1>9
<1>11. c \in Blocks /\ c.order \in Nat /\ Within(b, c)
  BY <1>5, <1>8, <1>10, WithinFacts, BlockTypes DEF Orders
<1> QED BY <1>4, <1>5, <1>10, <1>11

\* What a refusal means: every block of the order asked for overlaps one in use.
LEMMA RefusalJustified ==
  ASSUME IInv, pc = "idle", NEW t \in 0..NumOrders, Candidates(t) = {},
         NEW b \in Blocks, b.order = t
  PROVE  \E c \in live : ~Disjoint(b, c)
<1>1. live \subseteq Blocks /\ Leaves = live \union Listed
  BY DEF IInv, Exact, TypeOK, Leaves, InHand
<1>2. CASE State(b) = "SPLIT"
  BY <1>1, <1>2, SplitHoldsLive, WithinFacts
<1>3. CASE State(b) # "SPLIT"
  <2>1. PICK c \in Leaves : c.order >= b.order /\ Within(b, c)
    BY <1>3, WithinLeafOrSplit
  <2>2. c \notin Listed
    <3> SUFFICES ASSUME c \in Listed PROVE FALSE
      OBVIOUS
    <3>1. c.order \in Orders /\ ToSet(free_lists[c.order]) # {}
      BY BlockTypes DEF Listed
    <3>2. free_lists[c.order] # <<>>
      BY <3>1 DEF ToSet
    <3> QED BY <2>1, <3>1, <3>2 DEF Candidates
  <2> QED BY <1>1, <2>1, <2>2, WithinFacts
<1> QED BY <1>2, <1>3

\* PageRuns speaks of the same blocks.
LEMMA SameBlocks ==
  /\ Runs!Blocks = Blocks /\ Runs!NumOrders = NumOrders
  /\ \A b, c : Runs!Disjoint(b, c) <=> Disjoint(b, c)
BY DEF Runs!Blocks, Runs!Rows, Runs!BlockAt, Runs!Orders, Runs!NumOrders, Runs!Disjoint,
       Blocks, Rows, BlockAt, Orders, NumOrders, Disjoint

\* One step of the pool is one step of PageRuns, or changes nothing it speaks of.
LEMMA StepRefines ==
  ASSUME IInv, IInv', [Next]_vars
  PROVE  [Runs!Next]_Runs!runVars
<1>1. Packed /\ live \subseteq Blocks
  BY Repack DEF IInv, Packed, Types
<1>2. ASSUME NEW t \in 0..NumOrders, AllocRefuse(t) PROVE Runs!Refuse(t)
  <2>1. pc = "idle" /\ Candidates(t) = {} /\ live' = live
        /\ answer' = [order |-> t, block |-> NoBlock]
    BY <1>2 DEF AllocRefuse
  <2>2. \A b \in Blocks : b.order = t => ~Runs!Fits(b)
    BY <2>1, RefusalJustified, SameBlocks DEF Runs!Fits
  <2> QED BY <2>1, <2>2, SameBlocks DEF Runs!Refuse
<1>3. CASE AllocFinish
  <2> DEFINE h == Hand
  <2>1. /\ h \in Blocks /\ h.order \in 0..NumOrders /\ InHand = {h}
        /\ live' = live \union {h} /\ answer' = [order |-> h.order, block |-> h]
    BY <1>1, <1>3, AllocFinishPacked
  <2>2. Runs!Fits(h)
    <3>1. \A c \in live : c # h /\ h \in Leaves /\ c \in Leaves
      BY <1>1, <2>1 DEF Packed, Partition, Leaves
    <3> QED BY <1>1, <3>1, SameBlocks DEF Runs!Fits, Packed, Partition
  <2> HIDE DEF h
  <2>3. Runs!Grant(h.order)
    BY <2>1, <2>2, SameBlocks DEF Runs!Grant
  <2> QED BY <2>1, <2>3, SameBlocks DEF Runs!Next
<1>4. ASSUME NEW b \in live, FreeTake(b) PROVE Runs!Return(b)
  BY <1>4 DEF FreeTake, Runs!Return
<1>5. ASSUME NEW t \in 0..NumOrders, AllocTake(t) PROVE UNCHANGED Runs!runVars
  BY <1>5 DEF AllocTake, Runs!runVars
<1>6. AllocSplit \/ FreeMerge \/ FreeFinish \/ UNCHANGED vars => UNCHANGED Runs!runVars
  BY DEF AllocSplit, FreeMerge, FreeFinish, vars, Runs!runVars
<1> QED BY <1>2, <1>3, <1>4, <1>5, <1>6, SameBlocks DEF Next, Runs!Next

\* The pool implements PageRuns: it hands out only runs that are free, refuses
\* only when every run of the order overlaps one in use, and takes each back.
THEOREM Implements == Spec => ImplementsPageRuns
<1>1. Init => Runs!Init
  BY DEF Init, Runs!Init
<1>2. IInv /\ IInv' /\ [Next]_vars => [Runs!Next]_Runs!runVars
  BY StepRefines
<1> QED BY <1>1, <1>2, Invariance, PTL DEF Spec, ImplementsPageRuns, Runs!Spec
-----------------------------------------------------------------------------
(* The leak walk. *)

Place(b) == <<b.order, NodeOf(b)>>

\* One call of traverse_buddy_nodes, given what its recursive calls report.
Visit(f, p) ==
  LET o == p[1]
      n == p[2]
  IN IF tree[n] = "FULL" THEN {[addr |-> NodePtr(n, o), order |-> o]}
     ELSE IF Descends(o, n)
          THEN f[<<o - 1, NodeLeft(n)>>] \union f[<<o - 1, NodeRight(n)>>]
          ELSE {}

\* The calls a call makes are on nodes of the tree, one order down.
LEMMA VisitsBelow ==
  ASSUME NEW p \in Places
  PROVE  /\ p[1] \in Orders
         /\ p[1] > 0 => /\ <<p[1] - 1, NodeLeft(p[2])>> \in Places
                        /\ <<p[1] - 1, NodeRight(p[2])>> \in Places
<1>1. PICK b \in Blocks : p = <<b.order, NodeOf(b)>>
  BY DEF Places
<1>2. p[1] = b.order /\ p[2] = NodeOf(b) /\ b.order \in Orders
  BY <1>1, BlockTypes
<1>3. ASSUME b.order > 0
      PROVE  /\ <<b.order - 1, NodeLeft(NodeOf(b))>> \in Places
             /\ <<b.order - 1, NodeRight(NodeOf(b))>> \in Places
  <2>1. /\ LeftHalf(b) \in Blocks /\ NodeOf(LeftHalf(b)) = NodeLeft(NodeOf(b))
        /\ RightHalf(b) \in Blocks /\ NodeOf(RightHalf(b)) = NodeRight(NodeOf(b))
    BY <1>3, Halves
  <2>2. LeftHalf(b).order = b.order - 1 /\ RightHalf(b).order = b.order - 1
    BY DEF LeftHalf, RightHalf
  <2>3. <<LeftHalf(b).order, NodeOf(LeftHalf(b))>> \in Places
    BY <2>1 DEF Places
  <2>4. <<RightHalf(b).order, NodeOf(RightHalf(b))>> \in Places
    BY <2>1 DEF Places
  <2> QED BY <2>1, <2>2, <2>3, <2>4
<1> QED BY <1>2, <1>3

\* Some function gives each call its result: the recursion goes down, and ends.
\* By the least order below which there is none.
LEMMA WalkExists == \E f : f = [p \in Places |-> Visit(f, p)]
<1> DEFINE Below(n)  == {p \in Places : p[1] < n}
           Good(f, n) == \A p \in Below(n) : f[p] = Visit(f, p)
           Wrong     == {n \in Nat : ~\E f : f = [p \in Below(n) |-> f[p]] /\ Good(f, n)}
<1>0. \A p \in Places : p[1] \in Nat /\ p[1] <= MaxOrder
  <2> SUFFICES ASSUME NEW p \in Places PROVE p[1] \in Nat /\ p[1] <= MaxOrder
    OBVIOUS
  <2> HIDE DEF Wrong
  <2>1. p[1] \in 0..MaxOrder
    BY VisitsBelow DEF Orders
  <2> QED BY <2>1, MaxOrderAssumption
<1>1. Wrong = {}
  <2> SUFFICES ASSUME Wrong # {} PROVE FALSE
    OBVIOUS
  <2>1. PICK n \in Wrong : \A k \in Wrong : n <= k
    <3>1. Wrong \in SUBSET Nat
      OBVIOUS
    <3> HIDE DEF Wrong
    <3> QED BY <3>1, LeastNatural
  <2>2. n \in Nat /\ ~\E f : f = [p \in Below(n) |-> f[p]] /\ Good(f, n)
    OBVIOUS
  <2>3. n # 0
    <3>1. ASSUME n = 0 PROVE Below(n) = {}
      <4>1. \A p \in Places : ~(p[1] < 0)
        BY <1>0
      <4> QED BY <3>1, <4>1
    <3> DEFINE f == [p \in Below(n) |-> {}]
    <3>2. ASSUME n = 0 PROVE f = [p \in Below(n) |-> f[p]] /\ Good(f, n)
      BY <3>1, <3>2
    <3> QED BY <2>2, <3>2
  <2>4. n - 1 \in Nat /\ n - 1 \notin Wrong
    <3> HIDE DEF Wrong
    <3> QED BY <2>1, <2>2, <2>3
  <2>5. PICK f : f = [p \in Below(n - 1) |-> f[p]] /\ Good(f, n - 1)
    BY <2>4
  <2> DEFINE g == [p \in Below(n) |-> Visit(f, p)]
  <2>6. ASSUME NEW p \in Below(n - 1) PROVE p \in Below(n) /\ g[p] = f[p]
    <3>1. p \in Places /\ p[1] < n
      <4>1. p \in Places /\ p[1] < n - 1
        OBVIOUS
      <4>2. p[1] \in Nat
        BY <4>1, <1>0
      <4> QED BY <4>1, <4>2, <2>2
    <3> QED BY <3>1, <2>5
  <2>7. ASSUME NEW p \in Below(n) PROVE Visit(f, p) = Visit(g, p)
    <3> DEFINE l == <<p[1] - 1, NodeLeft(p[2])>>
               r == <<p[1] - 1, NodeRight(p[2])>>
    <3>1. p \in Places /\ p[1] \in Orders /\ p[1] < n
      BY VisitsBelow
    <3>2. ASSUME p[1] > 0 PROVE g[l] = f[l] /\ g[r] = f[r]
      <4>1. l \in Places /\ r \in Places /\ l[1] = p[1] - 1 /\ r[1] = p[1] - 1
        BY <3>1, <3>2, VisitsBelow
      <4>2. l \in Below(n - 1) /\ r \in Below(n - 1)
        BY <3>1, <4>1, <2>2 DEF Orders
      <4> HIDE DEF g, l, r, Below
      <4> QED BY <4>2, <2>6
    <3>3. Descends(p[1], p[2]) => p[1] > 0
      BY DEF Descends
    <3> HIDE DEF g
    <3> QED BY <3>2, <3>3 DEF Visit
  <2>8. g = [p \in Below(n) |-> g[p]] /\ Good(g, n)
    BY <2>7
  <2> QED BY <2>2, <2>8
<1>2. PICK f : f = [p \in Below(MaxOrder + 1) |-> f[p]] /\ Good(f, MaxOrder + 1)
  <2>1. MaxOrder + 1 \in Nat /\ MaxOrder + 1 \notin Wrong
    <3> HIDE DEF Wrong
    <3> QED BY <1>1, MaxOrderAssumption
  <2> QED BY <2>1
<1>3. Below(MaxOrder + 1) = Places
  <2>1. \A p \in Places : p[1] < MaxOrder + 1
    BY <1>0, MaxOrderAssumption
  <2> QED BY <2>1
<1> HIDE DEF Below
<1>4. f = [p \in Places |-> Visit(f, p)]
  BY <1>2, <1>3
<1> QED BY <1>4

\* The walk from the node of a block.
LEMMA WalkOfBlock ==
  ASSUME NEW b \in Blocks
  PROVE  Walk[Place(b)] =
           IF State(b) = "FULL" THEN {b}
           ELSE IF b.order > 0 /\ State(b) = "SPLIT"
                THEN Walk[Place(LeftHalf(b))] \union Walk[Place(RightHalf(b))]
                ELSE {}
<1>1. Walk = [p \in Places |-> Visit(Walk, p)]
  <2>1. Walk = CHOOSE f : f = [p \in Places |-> Visit(f, p)]
    BY DEF Walk, Visit
  <2> QED BY <2>1, WalkExists
<1>2. Place(b) \in Places /\ Place(b)[1] = b.order /\ Place(b)[2] = NodeOf(b)
  BY DEF Place, Places
<1>3. Walk[Place(b)] = Visit(Walk, Place(b))
  BY <1>1, <1>2
<1>4. [addr |-> NodePtr(NodeOf(b), b.order), order |-> b.order] = b
  <2>1. PICK o \in Orders, i \in Nat : i \in 0..RowStart[o] /\ b = BlockAt(o, i)
    BY BlocksAreRows
  <2>2. b.addr = i * BlockSize[o] /\ b.order = o /\ b = [addr |-> b.addr, order |-> o]
    BY <2>1 DEF BlockAt
  <2>3. NodePtr(NodeOf(b), o) = i * BlockSize[o]
    BY <2>1, <2>2, IndexOfBlock DEF NodeOf
  <2> QED BY <2>2, <2>3
<1>5. ASSUME b.order > 0
      PROVE  /\ Place(LeftHalf(b)) = <<b.order - 1, NodeLeft(NodeOf(b))>>
             /\ Place(RightHalf(b)) = <<b.order - 1, NodeRight(NodeOf(b))>>
  BY <1>5, Halves DEF Place, LeftHalf, RightHalf
<1> QED BY <1>2, <1>3, <1>4, <1>5 DEF Visit, Descends, State

\* From a block that is reached through SPLIT nodes the walk comes only to live
\* blocks.  By the least order of a counterexample.
LEMMA ReportsLive ==
  ASSUME IInv, pc = "idle", NEW x \in Blocks, Reached(x)
  PROVE  Walk[Place(x)] \subseteq live
<1> DEFINE Bad(b) == Reached(b) /\ ~(Walk[Place(b)] \subseteq live)
           Wrong  == {b.order : b \in {d \in Blocks : Bad(d)}}
<1> SUFFICES ASSUME Bad(x) PROVE FALSE
  OBVIOUS
<1>1. Packed /\ BlockComplete
  BY Repack, CompleteForm DEF IInv
<1>2. Wrong \in SUBSET Nat /\ Wrong # {}
  BY BlockTypes DEF Orders
<1>3. PICK n \in Wrong : \A k \in Wrong : n <= k
  <2> HIDE DEF Wrong
  <2> QED BY <1>2, LeastNatural
<1>4. PICK b \in Blocks : Bad(b) /\ b.order = n
  BY <1>3
<1>5. n \in Nat
  BY <1>2
<1>6. CASE State(b) = "FULL"
  <2>1. b \in Leaves /\ b \notin Listed
    BY <1>1, <1>4, <1>6 DEF BlockComplete, Packed, BlockTree
  <2>2. b \in live
    BY <2>1 DEF Leaves, InHand
  <2> QED BY <2>2, <1>4, <1>6, WalkOfBlock
<1>7. CASE State(b) # "FULL" /\ b.order > 0 /\ State(b) = "SPLIT"
  <2> DEFINE l == LeftHalf(b)
             r == RightHalf(b)
  <2>1. /\ l \in Blocks /\ r \in Blocks /\ Up(l) = b /\ Up(r) = b
        /\ l.order = n - 1 /\ r.order = n - 1
    BY <1>4, <1>7, Halves, UpOfHalf DEF LeftHalf, RightHalf
  <2>2. Walk[Place(b)] = Walk[Place(l)] \union Walk[Place(r)]
    BY <1>4, <1>7, WalkOfBlock
  <2> HIDE DEF l, r
  <2>3. ASSUME NEW h \in {l, r} PROVE Walk[Place(h)] \subseteq live
    <3>1. h \in Blocks /\ h.order = n - 1 /\ Reached(h)
      BY <2>1, <1>7 DEF Reached
    <3>2. Bad(h) => n - 1 \in Wrong
      BY <3>1
    <3>3. n - 1 \notin Wrong
      <4> HIDE DEF Wrong
      <4> QED BY <1>3, <1>5
    <3> QED BY <3>1, <3>2, <3>3
  <2>4. Walk[Place(b)] \subseteq live
    BY <2>2, <2>3
  <2> QED BY <2>4, <1>4
<1>8. CASE State(b) # "FULL" /\ ~(b.order > 0 /\ State(b) = "SPLIT")
  <2>1. Walk[Place(b)] = {}
    BY <1>4, <1>8, WalkOfBlock
  <2> QED BY <2>1, <1>4
<1> QED BY <1>6, <1>7, <1>8

\* From the root the walk comes to every live block: nothing above one stops the
\* walk.  By the greatest order of a node whose walk comes to it.
LEMMA LiveReported ==
  ASSUME IInv, NEW c \in live
  PROVE  c \in HeadersRead
<1>1. Packed
  BY Repack DEF IInv
<1>2. c \in Blocks /\ State(c) = "FULL"
  BY <1>1 DEF Packed, Types, BlockTree
<1> DEFINE Shows(b) == c \in Walk[Place(b)] /\ (b = c \/ State(b) = "SPLIT")
           Shown    == {MaxOrder - b.order : b \in {d \in Blocks : Shows(d)}}
<1>3. Shows(c)
  BY <1>2, WalkOfBlock
<1>4. Shown \in SUBSET Nat /\ Shown # {}
  BY <1>2, <1>3, BlockTypes, MaxOrderAssumption DEF Orders
<1>5. PICK n \in Shown : \A k \in Shown : n <= k
  <2> HIDE DEF Shown
  <2> QED BY <1>4, LeastNatural
<1>6. PICK b \in Blocks : Shows(b) /\ MaxOrder - b.order = n
  BY <1>5
<1>7. b.order \in Nat /\ b.order <= MaxOrder
  BY BlockTypes, MaxOrderAssumption DEF Orders
<1>8. b.order = MaxOrder
  <2> SUFFICES ASSUME b.order < MaxOrder PROVE FALSE
    BY <1>7, MaxOrderAssumption
  <2> DEFINE u == Up(b)
  <2>1. /\ u \in Blocks /\ u.order = b.order + 1 /\ u.order > 0
        /\ (b = LeftHalf(u) \/ b = RightHalf(u))
    BY UpFacts
  <2>2. State(u) = "SPLIT"
    BY <1>1, <1>6 DEF Packed, BlockTree, Leaves
  <2>3. Walk[Place(u)] = Walk[Place(LeftHalf(u))] \union Walk[Place(RightHalf(u))]
    BY <2>1, <2>2, WalkOfBlock
  <2>4. Shows(u)
    BY <1>6, <2>1, <2>2, <2>3
  <2>5. MaxOrder - u.order \in Shown
    BY <2>1, <2>4
  <2> HIDE DEF Shown, u
  <2> QED BY <2>1, <2>5, <1>5, <1>6, <1>7, MaxOrderAssumption
<1>9. Place(b) = <<MaxOrder, 0>>
  <2>1. PICK o \in Orders, i \in Nat : i \in 0..RowStart[o] /\ b = BlockAt(o, i)
    BY BlocksAreRows
  <2>2. o = MaxOrder /\ i = 0 /\ b.addr = 0 * BlockSize[o]
    BY <2>1, <1>8, RowStartAssumption DEF BlockAt
  <2>3. NodeOf(b) = 0
    BY <2>1, <2>2, <1>8, IndexOfBlock, RowStartAssumption DEF NodeOf
  <2> QED BY <2>3, <1>8 DEF Place
<1> QED BY <1>6, <1>9 DEF HeadersRead

-----------------------------------------------------------------------------
(* Flags beside the pool *)

\* Every step of the walk's specification is a step of the pool.
LEMMA WalkStepIsPoolStep == [WalkNext]_walkVars => [Next]_vars
<1>1. ASSUME WalkNext PROVE Next
  BY <1>1 DEF WalkNext, AllocBlock, AllocRegion, FreeBlock, Next
<1>2. walkVars' = walkVars => vars' = vars
  BY DEF walkVars
<1> QED BY <1>1, <1>2

\* No block the program holds begins where the block in hand does.
LEMMA HandIsElsewhere ==
  ASSUME IInv, pc # "idle", NEW b \in live
  PROVE  b.addr # block
<1> DEFINE h == [addr |-> block, order |-> order]
<1>1. h \in InHand /\ h.addr = block /\ h.order = order
  BY DEF InHand
<1>2. live \subseteq Blocks /\ InHand \subseteq Blocks
  BY DEF IInv, Exact, TypeOK
<1> HIDE DEF h
<1>3. h \in Leaves /\ b \in Leaves /\ b # h
  BY <1>1 DEF IInv, Exact, NoOverlap, Leaves
<1>4. Disjoint(b, h)
  BY <1>3 DEF IInv, Exact, NoOverlap
<1>5. /\ b.addr \in Nat /\ h.addr \in Nat /\ BlockSize[b.order] \in Nat \ {0}
      /\ BlockSize[h.order] \in Nat \ {0}
  BY <1>1, <1>2, BlockTypes, BlockSizeAssumption
<1> QED BY <1>1, <1>4, <1>5 DEF Disjoint

\* A step of buddy_alloc or buddy_free leaves the flags of live blocks their own.
LEMMA FlagsStep == IInv /\ FlagsOwn /\ [WalkNext]_walkVars => FlagsOwn'
<1> SUFFICES ASSUME IInv, FlagsOwn, [WalkNext]_walkVars PROVE FlagsOwn'
  OBVIOUS
<1> DEFINE n == [addr |-> block, order |-> target]
<1>1. ASSUME AllocFinish
      PROVE  /\ live' = live \union {n} /\ n.addr = block /\ n \notin live
             /\ \A b \in live : b.addr # block /\ b # n
  <2>1. pc # "idle" /\ live' = live \union {n} /\ n.addr = block
    BY <1>1 DEF AllocFinish
  <2>2. \A b \in live : b.addr # block
    BY <2>1, HandIsElsewhere
  <2> QED BY <2>1, <2>2
<1> HIDE DEF n
<1>2. CASE AllocBlock
  <2>1. AllocFinish /\ marked' = marked \ {block} /\ regions' = regions
    BY <1>2 DEF AllocBlock, FlagCleared
  <2> QED BY <1>1, <2>1 DEF FlagsOwn
<1>3. CASE AllocRegion
  <2>1. AllocFinish /\ marked' = (marked \ {block}) \union {block} /\ regions' = regions \union {n}
    BY <1>3 DEF AllocRegion, FlagCleared, n
  <2> QED BY <1>1, <2>1 DEF FlagsOwn
<1>4. ASSUME NEW b \in live, FreeBlock(b) PROVE FlagsOwn'
  <2>1. live' = live \ {b} /\ regions' = regions \ {b} /\ marked' = marked
    BY <1>4 DEF FreeBlock, FreeTake
  <2> QED BY <2>1 DEF FlagsOwn
<1>5. ASSUME live' = live, marked' = marked, regions' = regions PROVE FlagsOwn'
  BY <1>5 DEF FlagsOwn
<1>6. CASE /\ \E t \in 0..NumOrders : AllocRefuse(t) \/ AllocTake(t)
           /\ marked' = marked /\ regions' = regions
  <2>1. PICK t \in 0..NumOrders : AllocRefuse(t) \/ AllocTake(t)
    BY <1>6
  <2>2. live' = live
    BY <2>1 DEF AllocRefuse, AllocTake
  <2> QED BY <1>5, <1>6, <2>2
<1> QED BY <1>2, <1>3, <1>4, <1>5, <1>6
        DEF WalkNext, walkVars, vars, AllocRefuse, AllocTake, AllocSplit, FreeMerge, FreeFinish

\* The pool's invariant holds of it, and the flag that the header of a live block has
\* says whether the arena took that block for a slab.
THEOREM WalkInvariance == WalkSpec => [](IInv /\ FlagsOwn)
<1>1. WalkInit => Init
  BY DEF WalkInit
<1>2. WalkSpec => Spec
  BY <1>1, WalkStepIsPoolStep, PTL DEF WalkSpec, Spec
<1>3. WalkInit => FlagsOwn
  BY DEF WalkInit, Init, FlagsOwn
<1>4. IInv /\ FlagsOwn /\ [WalkNext]_walkVars => FlagsOwn'
  BY FlagsStep
<1> QED BY <1>2, <1>3, <1>4, Invariance, PTL DEF WalkSpec

\* Below the pool's invariant the walk comes to the live blocks and no other.
LEMMA WalkComesToLive == ASSUME IInv, pc = "idle" PROVE HeadersRead = live
<1>1. live \subseteq HeadersRead
  BY LiveReported
<1>2. HeadersRead \subseteq live
  <2> DEFINE root == BlockAt(MaxOrder, 0)
  <2>1. /\ root \in Blocks /\ root.order = MaxOrder /\ root.addr = 0 * BlockSize[MaxOrder]
        /\ MaxOrder \in Orders /\ 0 \in 0..RowStart[MaxOrder]
    BY BlocksAreRows, RowStartAssumption, MaxOrderAssumption DEF BlockAt, Orders
  <2>2. NodeOf(root) = 0
    BY <2>1, IndexOfBlock, RowStartAssumption DEF NodeOf
  <2>3. Reached(root)
    <3>1. ~(root.order < MaxOrder)
      BY <2>1, MaxOrderAssumption
    <3> HIDE DEF root
    <3> QED BY <3>1 DEF Reached
  <2> HIDE DEF root
  <2>4. Walk[Place(root)] \subseteq live
    BY <2>1, <2>3, ReportsLive
  <2> QED BY <2>1, <2>2, <2>4 DEF HeadersRead, Place
<1> QED BY <1>1, <1>2

\* collect_buddy_leaks follows the first word of the blocks handed out and of no
\* other, although merges leave stale states below FREE nodes, and reports those that
\* are no slab's region, although headers of earlier blocks stay behind with their flags.
THEOREM LeaksFound == WalkSpec => []WalkIsExact
<1>1. IInv /\ FlagsOwn => WalkIsExact
  <2> SUFFICES ASSUME IInv, FlagsOwn, pc = "idle"
               PROVE  HeadersRead = live /\ Reported = live \ regions
    BY DEF WalkIsExact
  <2>1. HeadersRead = live
    BY WalkComesToLive
  <2>2. \A b \in live : IsLeak(b) <=> b \notin regions
    BY DEF FlagsOwn, IsLeak
  <2> QED BY <2>1, <2>2 DEF Reported
<1> QED BY <1>1, WalkInvariance, PTL
=============================================================================
