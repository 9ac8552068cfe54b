----------------------------- MODULE ArenaProofs -----------------------------
(***************************************************************************)
(* Proofs about Arena: that its inductive invariant is one, and what       *)
(* follows from it.  The calls change the memory of the arena in four      *)
(* ways: a slot is served, from a slab listed or new; a block is handed    *)
(* out; a slot is freed, and its slab with it if it was the last; a block  *)
(* is freed.  One lemma says of each that it keeps the lists, the counts   *)
(* and the pools exact; the actions differ in which object moves where.    *)
(***************************************************************************)
EXTENDS SlabWalk, FiniteSetTheorems, TLAPS

-----------------------------------------------------------------------------
(* Lists *)

\* list_push, slab_push: the elements gain the new head, and a list without
\* repetition stays one when the new head was not on it.
LEMMA PushElements ==
  ASSUME NEW S, NEW s \in Seq(S), NEW a \in S
  PROVE  /\ <<a>> \o s \in Seq(S)
         /\ ToSet(<<a>> \o s) = {a} \union ToSet(s)
         /\ IsInjective(s) /\ a \notin ToSet(s) => IsInjective(<<a>> \o s)
<1> DEFINE t == <<a>> \o s
<1>1. /\ t \in Seq(S) /\ Len(t) = Len(s) + 1 /\ t[1] = a
      /\ \A i \in 1..Len(s) : t[i + 1] = s[i]
  OBVIOUS
<1>2. \A i \in 2..Len(t) : i - 1 \in 1..Len(s) /\ t[i] = s[i - 1]
  OBVIOUS
<1>3. ToSet(t) = {a} \union ToSet(s)
  <2>1. ToSet(t) \subseteq {a} \union ToSet(s)
    BY <1>1, <1>2 DEF ToSet
  <2>2. a \in ToSet(t)
    BY <1>1 DEF ToSet
  <2>3. ToSet(s) \subseteq ToSet(t)
    <3> SUFFICES ASSUME NEW i \in 1..Len(s) PROVE s[i] \in ToSet(t)
      BY DEF ToSet
    <3>1. i + 1 \in 1..Len(t) /\ t[i + 1] = s[i]
      BY <1>1
    <3> HIDE DEF t
    <3> QED BY <3>1, <1>1 DEF ToSet
  <2> QED BY <2>1, <2>2, <2>3
<1>4. ASSUME IsInjective(s), a \notin ToSet(s) PROVE IsInjective(t)
  <2> SUFFICES ASSUME NEW i \in 1..Len(t), NEW j \in 1..Len(t), t[i] = t[j]
               PROVE  i = j
    BY <1>1 DEF IsInjective
  <2>1. \A k \in 2..Len(t) : t[k] \in ToSet(s)
    BY <1>2 DEF ToSet
  <2>2. CASE i = 1 /\ j = 1
    BY <2>2
  <2>3. CASE i = 1 /\ j # 1
    BY <2>3, <2>1, <1>1, <1>4
  <2>4. CASE i # 1 /\ j = 1
    BY <2>4, <2>1, <1>1, <1>4
  <2>5. CASE i # 1 /\ j # 1
    BY <2>5, <1>2, <1>4 DEF IsInjective
  <2> QED BY <2>2, <2>3, <2>4, <2>5
<1> QED BY <1>1, <1>3, <1>4

\* list_remove, slab_remove: unlinking the one occurrence of an element leaves
\* exactly the others, still without repetition.
LEMMA UnlinkElements ==
  ASSUME NEW S, NEW s \in Seq(S), IsInjective(s), NEW k \in DOMAIN s
  PROVE  /\ RemoveAt(s, k) \in Seq(S)
         /\ ToSet(RemoveAt(s, k)) = ToSet(s) \ {s[k]}
         /\ IsInjective(RemoveAt(s, k))
<1> DEFINE r == RemoveAt(s, k)
<1>1. /\ r \in Seq(S) /\ Len(r) = Len(s) - 1 /\ k \in 1..Len(s)
      /\ \A i \in 1..Len(r) : r[i] = IF i < k THEN s[i] ELSE s[i + 1]
  <2> DEFINE before == SubSeq(s, 1, k - 1)
             after  == SubSeq(s, k + 1, Len(s))
  <2>1. k \in 1..Len(s) /\ Len(s) \in Nat
    OBVIOUS
  <2>2. /\ before \in Seq(S) /\ Len(before) = k - 1
        /\ \A i \in 1..(k - 1) : before[i] = s[i]
    OBVIOUS
  <2>3. /\ after \in Seq(S) /\ Len(after) = Len(s) - k
        /\ \A i \in 1..(Len(s) - k) : after[i] = s[k + i]
    OBVIOUS
  <2>4. r = before \o after
    BY DEF RemoveAt
  <2> HIDE DEF before, after, r
  <2>5. r \in Seq(S) /\ Len(r) = Len(s) - 1
    BY <2>1, <2>2, <2>3, <2>4
  <2>6. ASSUME NEW i \in 1..Len(r) PROVE r[i] = IF i < k THEN s[i] ELSE s[i + 1]
    <3>1. r[i] = IF i <= Len(before) THEN before[i] ELSE after[i - Len(before)]
      BY <2>2, <2>3, <2>4
    <3>2. CASE i < k
      BY <3>1, <3>2, <2>1, <2>2, <2>5
    <3>3. CASE ~(i < k)
      <4>1. i - (k - 1) \in 1..(Len(s) - k) /\ k + (i - (k - 1)) = i + 1
        BY <3>3, <2>1, <2>5
      <4>2. r[i] = after[i - (k - 1)]
        BY <3>1, <3>3, <2>1, <2>2, <2>5
      <4>3. after[i - (k - 1)] = s[k + (i - (k - 1))]
        BY <4>1, <2>3
      <4> QED BY <4>1, <4>2, <4>3, <3>3
    <3> QED BY <3>2, <3>3
  <2> QED BY <2>1, <2>5, <2>6
<1> HIDE DEF r
<1>2. ToSet(r) \subseteq ToSet(s) \ {s[k]}
  <2> SUFFICES ASSUME NEW i \in 1..Len(r) PROVE r[i] \in ToSet(s) /\ r[i] # s[k]
    BY <1>1 DEF ToSet
  <2>1. CASE i < k
    BY <2>1, <1>1 DEF ToSet, IsInjective
  <2>2. CASE ~(i < k)
    BY <2>2, <1>1 DEF ToSet, IsInjective
  <2> QED BY <2>1, <2>2
<1>3. ToSet(s) \ {s[k]} \subseteq ToSet(r)
  <2> SUFFICES ASSUME NEW i \in 1..Len(s), s[i] # s[k] PROVE s[i] \in ToSet(r)
    BY DEF ToSet
  <2>1. CASE i < k
    BY <2>1, <1>1 DEF ToSet
  <2>2. CASE i > k
    <3>1. i - 1 \in 1..Len(r) /\ r[i - 1] = s[i]
      BY <2>2, <1>1
    <3> QED BY <3>1, <1>1 DEF ToSet
  <2> QED BY <2>1, <2>2, <1>1
<1>4. IsInjective(r)
  <2> SUFFICES ASSUME NEW i \in 1..Len(r), NEW j \in 1..Len(r), r[i] = r[j]
               PROVE  i = j
    BY <1>1 DEF IsInjective
  <2> DEFINE at(n) == IF n < k THEN n ELSE n + 1
  <2>1. /\ at(i) \in DOMAIN s /\ at(j) \in DOMAIN s
        /\ r[i] = s[at(i)] /\ r[j] = s[at(j)]
    BY <1>1
  <2>2. at(i) = at(j)
    <3> HIDE DEF at
    <3> QED BY <2>1 DEF IsInjective
  <2> QED BY <2>2, <1>1
<1> QED BY <1>1, <1>2, <1>3, <1>4 DEF r

-----------------------------------------------------------------------------
(* Lists, counts and names of objects *)

\* slab_remove takes the slab off its list, and only that one.
LEMMA Unlinked ==
  ASSUME NEW S, NEW s \in Seq(S), IsInjective(s), NEW e
  PROVE  /\ Unlink(s, e) \in Seq(S)
         /\ ToSet(Unlink(s, e)) = ToSet(s) \ {e}
         /\ IsInjective(Unlink(s, e))
<1>1. CASE e \notin ToSet(s)
  BY <1>1 DEF Unlink
<1>2. CASE e \in ToSet(s)
  <2> DEFINE k == CHOOSE i \in DOMAIN s : s[i] = e
  <2>1. k \in DOMAIN s /\ s[k] = e
    BY <1>2 DEF ToSet
  <2>2. Unlink(s, e) = RemoveAt(s, k)
    BY <1>2 DEF Unlink
  <2> HIDE DEF k
  <2> QED BY <2>1, <2>2, UnlinkElements
<1> QED BY <1>1, <1>2

\* The head of a list without repetition, and the rest.
LEMMA HeadAndTail ==
  ASSUME NEW S, NEW s \in Seq(S), IsInjective(s), s # <<>>
  PROVE  /\ Head(s) \in ToSet(s) /\ Head(s) \in S
         /\ Tail(s) \in Seq(S)
         /\ ToSet(Tail(s)) = ToSet(s) \ {Head(s)}
         /\ IsInjective(Tail(s))
<1> DEFINE t == Tail(s)
<1>1. /\ 1 \in 1..Len(s) /\ Head(s) = s[1] /\ t \in Seq(S) /\ Len(t) = Len(s) - 1
      /\ \A i \in 1..Len(t) : t[i] = s[i + 1]
  OBVIOUS
<1> HIDE DEF t
<1>2. \A i \in 2..Len(s) : i - 1 \in 1..Len(t) /\ t[i - 1] = s[i]
  BY <1>1
<1>3. ToSet(t) \subseteq ToSet(s) \ {s[1]}
  BY <1>1 DEF ToSet, IsInjective
<1>4. ToSet(s) \ {s[1]} \subseteq ToSet(t)
  <2> SUFFICES ASSUME NEW i \in 1..Len(s), s[i] # s[1] PROVE s[i] \in ToSet(t)
    BY DEF ToSet
  <2>1. i \in 2..Len(s)
    OBVIOUS
  <2> QED BY <2>1, <1>1, <1>2 DEF ToSet
<1>5. IsInjective(t)
  <2> SUFFICES ASSUME NEW i \in 1..Len(t), NEW j \in 1..Len(t), t[i] = t[j] PROVE i = j
    BY <1>1 DEF IsInjective
  <2>1. i \in Nat /\ j \in Nat /\ i + 1 \in DOMAIN s /\ j + 1 \in DOMAIN s
    BY <1>1
  <2>2. t[i] = s[i + 1] /\ t[j] = s[j + 1]
    BY <1>1
  <2>3. i + 1 = j + 1
    BY <2>1, <2>2 DEF IsInjective
  <2> QED BY <2>1, <2>3
<1>6. Head(s) \in ToSet(s) /\ Head(s) \in S
  BY <1>1 DEF ToSet
<1> QED BY <1>1, <1>3, <1>4, <1>5, <1>6 DEF t

\* slab->used counts: some of n slots, and one fewer.
LEMMA Counts ==
  ASSUME NEW n \in Nat, NEW B \in SUBSET (1..n)
  PROVE  /\ Cardinality(B) \in 0..n
         /\ Cardinality(B) = n <=> B = 1..n
         /\ Cardinality(B) = 0 <=> B = {}
         /\ \A i \in B : Cardinality(B \ {i}) = Cardinality(B) - 1
<1>1. IsFiniteSet(1..n) /\ Cardinality(1..n) = n
  BY FS_Interval
<1>2. /\ IsFiniteSet(B) /\ Cardinality(B) <= n
      /\ Cardinality(B) = n => B = 1..n
  BY <1>1, FS_Subset
<1>3. Cardinality(B) \in Nat
  BY <1>2, FS_CardinalityType
<1>4. Cardinality(B) = 0 <=> B = {}
  BY <1>2, FS_EmptySet
<1>5. \A i \in B : Cardinality(B \ {i}) = Cardinality(B) - 1
  BY <1>2, FS_RemoveElement
<1> QED BY <1>1, <1>2, <1>3, <1>4, <1>5

\* slab->used counts one more.
LEMMA Counted ==
  ASSUME NEW n \in Nat, NEW B \in SUBSET (1..n), NEW i \in (1..n) \ B
  PROVE  Cardinality(B \union {i}) = Cardinality(B) + 1
<1>1. IsFiniteSet(1..n)
  BY FS_Interval
<1>2. IsFiniteSet(B)
  BY <1>1, FS_Subset
<1> QED BY <1>2, FS_AddElement

\* An object is its region's whole block, or a slot of the slab there.
LEMMA Names ==
  /\ \A r \in Regions : /\ Whole(r) \in Objects /\ RegionOf(Whole(r)) = r
                        /\ Whole(r).type = "buddy" /\ Whole(r).slot = 0
                        /\ Whole(r).extent = r.extent /\ Whole(r).block = r.block
                        /\ r.extent \in Extents /\ r.block \in Blocks
                        /\ r = [extent |-> r.extent, block |-> r.block]
  /\ \A r \in Regions : \A i \in Nat :
       /\ Slot(r, i) \in Objects /\ RegionOf(Slot(r, i)) = r
       /\ Slot(r, i).type = "slab" /\ Slot(r, i).slot = i
  /\ \A x \in Objects :
       /\ RegionOf(x) \in Regions
       /\ RegionOf(x).extent = x.extent /\ RegionOf(x).block = x.block
       /\ x.type = "slab" => x = Slot(RegionOf(x), x.slot)
       /\ x.type = "buddy" => x = Whole(RegionOf(x))
  BY DEF Whole, Slot, RegionOf, Regions, Objects

\* No block is disjoint from itself.
LEMMA NotApartFromItself ==
  ASSUME NEW b \in Blocks PROVE ~Disjoint(b, b)
<1>1. PICK q \in Rows : b = BlockAt(q[1], q[2])
  BY DEF Blocks
<1>2. PICK o \in Orders, i \in 0..RowStart[0] : b = BlockAt(o, i)
  BY <1>1 DEF Rows
<1>3. 0 \in Orders /\ RowStart[0] \in Nat
  BY MaxOrderAssumption, RowStartAssumption DEF Orders
<1>4. BlockSize[o] \in Nat \ {0} /\ i \in Nat
  BY <1>3, BlockSizeAssumption
<1>5. b.order = o /\ b.addr = i * BlockSize[o] /\ b.addr \in Nat
  BY <1>2, <1>4 DEF BlockAt
<1> QED BY <1>4, <1>5 DEF Disjoint

-----------------------------------------------------------------------------
(* The memory of an arena: its slabs, their lists, and the blocks that are out *)

\* What the search, or slab_create, gives slab_alloc: the slab s at r, and the
\* partial list without it.
Given(r, s, rest) ==
  /\ r \in Regions /\ s \in Slabs /\ s.owner = class
  /\ s.free # <<>> /\ IsInjective(s.free)
  /\ ToSet(s.free) = (1..Capacity[class]) \ {i \in 1..Capacity[class] : Slot(r, i) \in InUse}
  /\ s.used = Cardinality({i \in 1..Capacity[class] : Slot(r, i) \in InUse})
  /\ rest \in Seq(Regions) /\ IsInjective(rest)
  /\ ToSet(rest) = {q \in SlabsOf(class) : ~IsFull(slabs[q])} \ {r}
  /\ r \in DOMAIN slabs => slabs[r] = s
  /\ r \notin DOMAIN slabs => \A b \in out[r.extent] : Disjoint(r.block, b)

\* Disjointness of blocks does not depend on their order.
LEMMA DisjointSymmetric ==
  ASSUME NEW b, NEW d PROVE Disjoint(b, d) <=> Disjoint(d, b)
  BY DEF Disjoint

\* A block that the pool may hand out is not out, so no object and no slab is there.
LEMMA FreshRegion ==
  ASSUME Memory, NEW r \in Regions, \A b \in out[r.extent] : Disjoint(r.block, b)
  PROVE  /\ r.block \notin out[r.extent] /\ r \notin DOMAIN slabs /\ r \notin WholeRegions
         /\ \A i \in Nat : Slot(r, i) \notin InUse
<1>1. r.block \notin out[r.extent]
  BY NotApartFromItself, Names
<1>2. r.extent \in Extents /\ r.block \in Blocks /\ r = [extent |-> r.extent, block |-> r.block]
  BY Names
<1>3. r \notin DOMAIN slabs /\ r \notin WholeRegions
  BY <1>1, <1>2 DEF Memory, BlocksExact
<1>4. ASSUME NEW i \in Nat, Slot(r, i) \in InUse PROVE FALSE
  BY <1>3, <1>4, Names DEF Memory, SlotsExact
<1> QED BY <1>1, <1>3, <1>4

\* Serving a slot of a given slab: the first on its free list was in no use.
LEMMA ServedSlot ==
  ASSUME Memory, ArenaAssumption, class \in Classes,
         NEW r, NEW s, NEW rest, Given(r, s, rest)
  PROVE  LET i == Head(s.free)
             B == {j \in 1..Capacity[class] : Slot(r, j) \in InUse}
             served == [s EXCEPT !.free = Tail(@), !.used = @ + 1]
         IN /\ i \in (1..Capacity[class]) \ B /\ Slot(r, i) \notin InUse
            /\ served \in Slabs /\ served.owner = class
            /\ IsInjective(served.free)
            /\ ToSet(served.free) = (1..Capacity[class]) \ (B \union {i})
            /\ served.used = Cardinality(B \union {i})
            /\ served.used # 0 /\ s.used # Capacity[class]
<1> DEFINE n == Capacity[class]
           B == {j \in 1..n : Slot(r, j) \in InUse}
           i == Head(s.free)
           served == [s EXCEPT !.free = Tail(@), !.used = @ + 1]
<1>1. n \in Nat
  BY DEF ArenaAssumption
<1>2. /\ s \in Slabs /\ s.owner = class /\ s.free \in Seq(Nat) /\ s.used \in Nat
      /\ s.free # <<>> /\ IsInjective(s.free)
      /\ ToSet(s.free) = (1..n) \ B /\ s.used = Cardinality(B)
  BY DEF Given, Slabs
<1>3. /\ i \in (1..n) \ B /\ Tail(s.free) \in Seq(Nat) /\ IsInjective(Tail(s.free))
      /\ ToSet(Tail(s.free)) = ((1..n) \ B) \ {i}
  BY <1>2, HeadAndTail
<1>4. /\ served.owner = class /\ served.free = Tail(s.free) /\ served.used = s.used + 1
      /\ served \in Slabs
  <2>1. s \in Slabs /\ Tail(s.free) \in Seq(Nat) /\ s.used + 1 \in Nat /\ s.owner = class
    BY <1>2, <1>3
  <2>2. served.owner = s.owner /\ served.free = Tail(s.free) /\ served.used = s.used + 1
    BY <2>1 DEF Slabs
  <2>3. served \in Slabs
    <3> HIDE DEF n, B, i
    <3> QED BY <2>1 DEF Slabs
  <2> QED BY <2>1, <2>2, <2>3
<1>5. Slot(r, i) \notin InUse
  BY <1>3
<1>6. /\ Cardinality(B \union {i}) = Cardinality(B) + 1
      /\ Cardinality(B) = n => B = 1..n
      /\ Cardinality(B) \in Nat
  <2>1. B \in SUBSET (1..n)
    OBVIOUS
  <2>2. i \in (1..n) \ B
    BY <1>3
  <2> HIDE DEF B, n, i
  <2>3. Cardinality(B \union {i}) = Cardinality(B) + 1
    BY <1>1, <2>1, <2>2, Counted
  <2>4. Cardinality(B) \in 0..n /\ (Cardinality(B) = n <=> B = 1..n)
    BY <1>1, <2>1, Counts
  <2> QED BY <2>2, <2>3, <2>4, <1>1
<1>7. s.used # n
  BY <1>6, <1>2, <1>3
<1> QED BY <1>2, <1>3, <1>4, <1>5, <1>6, <1>7

\* slab_alloc serves a slot of a given slab, whose block is out or goes out now.
LEMMA ServeMemory ==
  ASSUME Memory, ArenaAssumption, class \in Classes,
         NEW r, NEW s, NEW rest, Given(r, s, rest), Serve(r, s, rest),
         out' = [out EXCEPT ![r.extent] = @ \union {r.block}],
         InUse' = InUse \union {Slot(r, Head(s.free))},
         r.extent \in ToSet(extents'), ToSet(extents) \subseteq ToSet(extents')
  PROVE  Memory'
<1> DEFINE n == Capacity[class]
           B == {j \in 1..n : Slot(r, j) \in InUse}
           i == Head(s.free)
           served == [s EXCEPT !.free = Tail(@), !.used = @ + 1]
           more   == <<r>> \o rest
           fuller == <<r>> \o full[class]
<1>1. /\ i \in (1..n) \ B /\ Slot(r, i) \notin InUse
      /\ served \in Slabs /\ served.owner = class
      /\ IsInjective(served.free)
      /\ ToSet(served.free) = (1..n) \ (B \union {i})
      /\ served.used = Cardinality(B \union {i})
      /\ served.used # 0 /\ s.used # n
  BY ServedSlot
<1>2. /\ DOMAIN slabs' = DOMAIN slabs \union {r} /\ slabs'[r] = served
      /\ \A q \in DOMAIN slabs \ {r} : slabs'[q] = slabs[q]
      /\ slabs' = [q \in DOMAIN slabs' |-> slabs'[q]]
      /\ IF served.used = n
         THEN /\ partial' = [partial EXCEPT ![class] = rest]
              /\ full' = [full EXCEPT ![class] = fuller]
         ELSE /\ partial' = [partial EXCEPT ![class] = more]
              /\ full' = full
      /\ InUse' = InUse \union {Slot(r, i)}
  <2>1. IsFull(served) <=> served.used = n
    BY <1>1 DEF IsFull
  <2> HIDE DEF n, B
  <2> QED BY <2>1 DEF Serve
<1>3. /\ r \in Regions /\ rest \in Seq(Regions) /\ IsInjective(rest) /\ s.owner = class
      /\ ToSet(rest) = {q \in SlabsOf(class) : ~IsFull(slabs[q])} \ {r}
      /\ r \in DOMAIN slabs => slabs[r] = s
      /\ r \notin DOMAIN slabs => \A b \in out[r.extent] : Disjoint(r.block, b)
  BY DEF Given
<1>4. n \in Nat
  BY DEF ArenaAssumption
<1>5. B = {j \in 1..n : Slot(r, j) \in InUse}
  OBVIOUS
<1> HIDE DEF n, i, B, served
<1>6. r \notin ToSet(full[class]) /\ r \notin ToSet(rest)
  BY <1>1, <1>3 DEF Memory, SlabLists, SlabsOf, IsFull, n
<1>7. /\ more \in Seq(Regions) /\ IsInjective(more) /\ ToSet(more) = {r} \union ToSet(rest)
      /\ fuller \in Seq(Regions) /\ IsInjective(fuller)
      /\ ToSet(fuller) = {r} \union ToSet(full[class])
  <2>1. full[class] \in Seq(Regions) /\ IsInjective(full[class])
    BY DEF Memory, Stores, SlabLists
  <2> QED BY <1>3, <1>6, <2>1, PushElements
<1> HIDE DEF more, fuller
<1>8. r \notin WholeRegions
  BY <1>3, FreshRegion DEF Memory, BlocksExact
<1>9. Stores'
  <2>1. slabs' \in [DOMAIN slabs' -> Slabs] /\ DOMAIN slabs' \subseteq Regions
    <3>1. \A q \in DOMAIN slabs' : slabs'[q] \in Slabs
      BY <1>1, <1>2 DEF Memory, Stores
    <3> QED BY <1>2, <1>3, <3>1 DEF Memory, Stores
  <2>2. partial' \in [Classes -> Seq(Regions)] /\ full' \in [Classes -> Seq(Regions)]
    <3>1. partial \in [Classes -> Seq(Regions)] /\ full \in [Classes -> Seq(Regions)]
      BY DEF Memory, Stores
    <3>2. /\ \/ partial' = [partial EXCEPT ![class] = rest]
             \/ partial' = [partial EXCEPT ![class] = more]
          /\ full' = full \/ full' = [full EXCEPT ![class] = fuller]
      BY <1>2
    <3>3. rest \in Seq(Regions) /\ more \in Seq(Regions) /\ fuller \in Seq(Regions)
      BY <1>3, <1>7
    <3> QED BY <3>1, <3>2, <3>3
  <2>3. out' \in [Extents -> SUBSET Blocks]
    BY <1>3, Names DEF Memory, Stores
  <2>4. Slot(r, i) \in Objects /\ Slot(r, i).type = "slab"
    BY <1>1, <1>3, Names
  <2>5. InUse' \subseteq Objects
    BY <1>2, <2>4 DEF Memory, Stores
  <2> QED BY <2>1, <2>2, <2>3, <2>5 DEF Stores
<1>10. SlabLists'
  <2> SUFFICES ASSUME NEW c \in Classes
               PROVE /\ IsInjective(partial'[c])
                     /\ ToSet(partial'[c]) = {q \in SlabsOf(c)' : slabs'[q].used # Capacity[slabs'[q].owner]}
                     /\ IsInjective(full'[c])
                     /\ ToSet(full'[c]) = {q \in SlabsOf(c)' : slabs'[q].used = Capacity[slabs'[q].owner]}
                     /\ \A q \in SlabsOf(c)' : slabs'[q].used # 0
    BY DEF SlabLists, IsFull, IsEmpty
  <2>1. /\ IsInjective(partial[c])
        /\ ToSet(partial[c]) = {q \in SlabsOf(c) : slabs[q].used # Capacity[slabs[q].owner]}
        /\ IsInjective(full[c])
        /\ ToSet(full[c]) = {q \in SlabsOf(c) : slabs[q].used = Capacity[slabs[q].owner]}
        /\ \A q \in SlabsOf(c) : slabs[q].used # 0
    BY DEF Memory, SlabLists, IsFull, IsEmpty
  <2>2. \A q \in SlabsOf(c)' : slabs'[q].used # 0
    BY <2>1, <1>1, <1>2 DEF SlabsOf
  <2>3. CASE c # class
    <3>1. partial'[c] = partial[c] /\ full'[c] = full[c]
      BY <2>3, <1>2 DEF Memory, Stores
    <3>2. SlabsOf(c)' = SlabsOf(c) /\ r \notin SlabsOf(c)
      BY <2>3, <1>1, <1>2, <1>3 DEF SlabsOf
    <3>3. \A q \in SlabsOf(c) : slabs'[q] = slabs[q]
      BY <3>2, <1>2 DEF SlabsOf
    <3> QED BY <3>1, <3>2, <3>3, <2>1
  <2>4. CASE c = class
    <3>1. SlabsOf(c)' = SlabsOf(c) \union {r}
      BY <2>4, <1>1, <1>2, <1>3 DEF SlabsOf
    <3>2. \A q \in SlabsOf(c) \ {r} : slabs'[q] = slabs[q]
      BY <1>2 DEF SlabsOf
    <3>3. ToSet(rest) = {q \in SlabsOf(c) : slabs[q].used # Capacity[slabs[q].owner]} \ {r}
      BY <2>4, <1>3 DEF IsFull
    <3>4. r \in SlabsOf(c) => slabs[r].used # Capacity[slabs[r].owner]
      BY <2>4, <1>1, <1>3 DEF SlabsOf, n
    <3>5. CASE served.used = n
      <4>1. partial'[c] = rest /\ full'[c] = fuller
        BY <3>5, <2>4, <1>2 DEF Memory, Stores
      <4>2. slabs'[r].used = Capacity[slabs'[r].owner]
        BY <3>5, <1>1, <1>2 DEF n
      <4>3. ToSet(partial'[c]) = {q \in SlabsOf(c)' : slabs'[q].used # Capacity[slabs'[q].owner]}
        BY <4>1, <4>2, <3>1, <3>2, <3>3
      <4>4. ToSet(full'[c]) = {q \in SlabsOf(c)' : slabs'[q].used = Capacity[slabs'[q].owner]}
        BY <4>1, <4>2, <3>1, <3>2, <3>4, <2>1, <2>4, <1>7
      <4> QED BY <4>1, <4>3, <4>4, <2>2, <2>4, <1>3, <1>7
    <3>6. CASE served.used # n
      <4>1. partial'[c] = more /\ full'[c] = full[c]
        BY <3>6, <2>4, <1>2 DEF Memory, Stores
      <4>2. slabs'[r].used # Capacity[slabs'[r].owner]
        BY <3>6, <1>1, <1>2 DEF n
      <4>3. ToSet(partial'[c]) = {q \in SlabsOf(c)' : slabs'[q].used # Capacity[slabs'[q].owner]}
        BY <4>1, <4>2, <3>1, <3>2, <3>3, <1>7
      <4>4. ToSet(full'[c]) = {q \in SlabsOf(c)' : slabs'[q].used = Capacity[slabs'[q].owner]}
        BY <4>1, <4>2, <3>1, <3>2, <3>4, <2>1
      <4> QED BY <4>1, <4>3, <4>4, <2>1, <2>2, <1>7
    <3> QED BY <3>5, <3>6
  <2> QED BY <2>3, <2>4
<1>11. \A q \in Regions : \A j \in Nat :
         Slot(q, j) \in InUse' <=> Slot(q, j) \in InUse \/ (q = r /\ j = i)
  <2>1. \A q \in Regions : \A j \in Nat : Slot(q, j) = Slot(r, i) <=> q = r /\ j = i
    <3>1. i \in Nat
      BY <1>1
    <3> QED BY <3>1, <1>3, Names
  <2> QED BY <2>1, <1>2
<1>12. WholeRegions' = WholeRegions
  <2>1. \A q \in Regions : Whole(q) # Slot(r, i)
    BY DEF Whole, Slot
  <2> QED BY <2>1, <1>2 DEF WholeRegions
<1>13. SlotsExact'
  <2>1. ASSUME NEW q \in DOMAIN slabs'
        PROVE  /\ IsInjective(slabs'[q].free)
               /\ ToSet(slabs'[q].free) = SlotsOf(q)' \ SlotsInUse(q)'
               /\ slabs'[q].used = Cardinality(SlotsInUse(q)')
    <3>1. CASE q = r
      <4>1. SlotsOf(q)' = 1..n
        BY <3>1, <1>1, <1>2 DEF SlotsOf, n
      <4>2. SlotsInUse(q)' = B \union {i}
        BY <3>1, <4>1, <1>1, <1>3, <1>5, <1>11 DEF SlotsInUse
      <4> QED BY <4>1, <4>2, <3>1, <1>1, <1>2
    <3>2. CASE q # r
      <4>1. q \in DOMAIN slabs /\ q \in Regions /\ slabs'[q] = slabs[q]
        BY <3>2, <1>2 DEF Memory, Stores
      <4>2. SlotsOf(q)' = SlotsOf(q)
        BY <4>1 DEF SlotsOf
      <4>3. SlotsInUse(q)' = SlotsInUse(q)
        <5>1. \A j \in SlotsOf(q) : j \in Nat
          BY <4>1 DEF SlotsOf
        <5> QED BY <3>2, <4>1, <4>2, <5>1, <1>11 DEF SlotsInUse
      <4> QED BY <4>1, <4>2, <4>3 DEF Memory, SlotsExact
    <3> QED BY <3>1, <3>2
  <2>2. ASSUME NEW x \in InUse', x.type = "slab"
        PROVE  RegionOf(x) \in DOMAIN slabs' /\ x.slot \in SlotsOf(RegionOf(x))'
    <3>1. CASE x \in InUse
      <4>1. RegionOf(x) \in DOMAIN slabs /\ x.slot \in 1..Capacity[slabs[RegionOf(x)].owner]
        BY <2>2, <3>1 DEF Memory, SlotsExact, SlotsOf
      <4>2. slabs'[RegionOf(x)].owner = slabs[RegionOf(x)].owner
        BY <4>1, <1>1, <1>2, <1>3
      <4> QED BY <4>1, <4>2, <1>2 DEF SlotsOf
    <3>2. CASE x = Slot(r, i)
      <4>1. RegionOf(x) = r /\ x.slot = i
        BY <3>2, <1>1, <1>3, Names
      <4>2. SlotsOf(r)' = 1..n
        BY <1>1, <1>2 DEF SlotsOf, n
      <4> QED BY <4>1, <4>2, <1>1, <1>2
    <3> QED BY <3>1, <3>2, <1>2
  <2> QED BY <2>1, <2>2 DEF SlotsExact
<1>14. BlocksExact'
  <2>1. DOMAIN slabs' \intersect WholeRegions' = {}
    BY <1>2, <1>8, <1>12 DEF Memory, BlocksExact
  <2>2. ASSUME NEW e \in Extents
        PROVE  /\ out'[e] = {b \in Blocks : [extent |-> e, block |-> b] \in DOMAIN slabs' \union WholeRegions'}
               /\ out'[e] # {} => e \in ToSet(extents')
    <3>1. /\ out[e] = {b \in Blocks : [extent |-> e, block |-> b] \in DOMAIN slabs \union WholeRegions}
          /\ out[e] # {} => e \in ToSet(extents)
      BY DEF Memory, BlocksExact
    <3>2. r.extent \in Extents /\ r.block \in Blocks /\ r = [extent |-> r.extent, block |-> r.block]
      BY <1>3, Names
    <3>3. \A b : [extent |-> e, block |-> b] = r <=> e = r.extent /\ b = r.block
      BY <3>2
    <3>4. out'[e] = IF e = r.extent THEN out[e] \union {r.block} ELSE out[e]
      BY DEF Memory, Stores
    <3>5. DOMAIN slabs' = DOMAIN slabs \union {r}
      BY <1>2
    <3>6. CASE e = r.extent
      BY <3>1, <3>2, <3>3, <3>4, <3>5, <3>6, <1>12
    <3>7. CASE e # r.extent
      BY <3>1, <3>3, <3>4, <3>5, <3>7, <1>12
    <3> QED BY <3>6, <3>7
  <2> QED BY <2>1, <2>2 DEF BlocksExact
<1>15. BlocksApart'
  <2> SUFFICES ASSUME NEW e \in Extents, NEW b \in out'[e], NEW d \in out'[e], b # d
               PROVE  Disjoint(b, d)
    BY DEF BlocksApart
  <2>1. \A c \in out[r.extent] : c # r.block => Disjoint(r.block, c) /\ Disjoint(c, r.block)
    <3>1. CASE r \in DOMAIN slabs
      <4>1. r.extent \in Extents /\ r.block \in out[r.extent]
        BY <3>1, <1>3, Names DEF Memory, BlocksExact
      <4> QED BY <4>1, DisjointSymmetric DEF Memory, BlocksApart
    <3>2. CASE r \notin DOMAIN slabs
      BY <3>2, <1>3, DisjointSymmetric
    <3> QED BY <3>1, <3>2
  <2>2. out'[e] = IF e = r.extent THEN out[e] \union {r.block} ELSE out[e]
    BY DEF Memory, Stores
  <2> QED BY <2>1, <2>2 DEF Memory, BlocksApart
<1> QED BY <1>9, <1>10, <1>13, <1>14, <1>15 DEF Memory

\* A step that serves and frees no slot leaves the caches as they are.
LEMMA SameSlots ==
  ASSUME Memory, UNCHANGED caches, \A x : x.type = "slab" => (x \in InUse' <=> x \in InUse)
  PROVE  SlabLists' /\ SlotsExact'
<1>1. SlabLists'
  BY DEF Memory, SlabLists, SlabsOf, IsFull, IsEmpty, caches
<1>2. \A q, j : Slot(q, j) \in InUse' <=> Slot(q, j) \in InUse
  BY DEF Slot
<1>3. \A q : SlotsOf(q)' = SlotsOf(q)
  BY DEF SlotsOf, caches
<1>4. \A q : SlotsInUse(q)' = SlotsInUse(q)
  BY <1>2, <1>3 DEF SlotsInUse
<1>5. SlotsExact'
  BY <1>3, <1>4 DEF Memory, SlotsExact, caches
<1> QED BY <1>1, <1>5

\* No object comes or goes: other threads and the owner move them about.
LEMMA SameMemory ==
  ASSUME Memory, UNCHANGED <<caches, out>>, InUse' = InUse,
         ToSet(extents) \subseteq ToSet(extents')
  PROVE  Memory'
<1>1. SlabLists' /\ SlotsExact'
  BY SameSlots
<1>2. WholeRegions' = WholeRegions
  BY DEF WholeRegions
<1>3. BlocksExact' /\ BlocksApart' /\ Stores'
  BY <1>2 DEF Memory, Stores, BlocksExact, BlocksApart, caches
<1> QED BY <1>1, <1>3 DEF Memory

\* arena_alloc_buddy_region hands out a block that the pool had free.
LEMMA TakeMemory ==
  ASSUME Memory, NEW r \in Regions, \A b \in out[r.extent] : Disjoint(r.block, b),
         HandOut(r), UNCHANGED caches, InUse' = InUse \union {Whole(r)},
         r.extent \in ToSet(extents'), ToSet(extents) \subseteq ToSet(extents')
  PROVE  Memory'
<1>1. r.extent \in Extents /\ r.block \in Blocks /\ r = [extent |-> r.extent, block |-> r.block]
  BY Names
<1>2. Whole(r) \in Objects /\ Whole(r).type = "buddy" /\ Whole(r).slot = 0
  BY Names
<1>3. SlabLists' /\ SlotsExact'
  BY <1>2, SameSlots
<1>4. \A e \in Extents : out'[e] = IF e = r.extent THEN out[e] \union {r.block} ELSE out[e]
  BY DEF HandOut, Memory, Stores
<1>5. Stores'
  <2>1. out' \in [Extents -> SUBSET Blocks]
    BY <1>1 DEF HandOut, Memory, Stores
  <2> QED BY <2>1, <1>2 DEF Memory, Stores, caches
<1>6. WholeRegions' = WholeRegions \union {r}
  <2>1. \A q \in Regions : Whole(q) = Whole(r) <=> q = r
    BY Names
  <2> QED BY <2>1 DEF WholeRegions
<1>7. BlocksExact'
  <2>1. DOMAIN slabs' \intersect WholeRegions' = {}
    BY <1>6, FreshRegion DEF Memory, BlocksExact, caches
  <2>2. ASSUME NEW e \in Extents
        PROVE  /\ out'[e] = {b \in Blocks : [extent |-> e, block |-> b] \in DOMAIN slabs' \union WholeRegions'}
               /\ out'[e] # {} => e \in ToSet(extents')
    <3>1. /\ out[e] = {b \in Blocks : [extent |-> e, block |-> b] \in DOMAIN slabs \union WholeRegions}
          /\ out[e] # {} => e \in ToSet(extents)
      BY DEF Memory, BlocksExact
    <3>2. \A b : [extent |-> e, block |-> b] = r <=> e = r.extent /\ b = r.block
      BY <1>1
    <3>3. DOMAIN slabs' \union WholeRegions' = (DOMAIN slabs \union WholeRegions) \union {r}
      BY <1>6 DEF caches
    <3>4. out'[e] # {} => e \in ToSet(extents')
      BY <3>1, <1>4
    <3> HIDE DEF WholeRegions
    <3>5. CASE e = r.extent
      BY <3>1, <3>2, <3>3, <3>4, <3>5, <1>1, <1>4
    <3>6. CASE e # r.extent
      BY <3>1, <3>2, <3>3, <3>4, <3>6, <1>4
    <3> QED BY <3>5, <3>6
  <2> QED BY <2>1, <2>2 DEF BlocksExact
<1>8. BlocksApart'
  BY <1>4, DisjointSymmetric DEF Memory, BlocksApart
<1> QED BY <1>3, <1>5, <1>7, <1>8 DEF Memory

\* arena_free_buddy_local gives the object's block back to its pool.
LEMMA FreeWholeMemory ==
  ASSUME Memory, NEW x \in InUse, x.type = "buddy", FreeWhole(x),
         UNCHANGED <<caches, extents>>, InUse' = InUse \ {x}
  PROVE  Memory'
<1> DEFINE r == RegionOf(x)
<1>1. /\ r \in Regions /\ x = Whole(r) /\ r.extent \in Extents /\ r.block \in Blocks
      /\ r = [extent |-> r.extent, block |-> r.block]
  <2>1. x \in Objects
    BY DEF Memory, Stores
  <2> QED BY <2>1, Names
<1>2. out' = [out EXCEPT ![r.extent] = @ \ {r.block}]
  BY DEF FreeWhole, TakeBack
<1> HIDE DEF r
<1>3. \A e \in Extents : out'[e] = IF e = r.extent THEN out[e] \ {r.block} ELSE out[e]
  BY <1>2 DEF Memory, Stores
<1>4. SlabLists' /\ SlotsExact'
  BY SameSlots
<1>5. Stores'
  <2>1. out' \in [Extents -> SUBSET Blocks]
    BY <1>1, <1>2 DEF Memory, Stores
  <2> QED BY <2>1 DEF Memory, Stores, caches
<1>6. WholeRegions' = WholeRegions \ {r} /\ r \in WholeRegions
  <2>1. \A q \in Regions : Whole(q) = x <=> q = r
    BY <1>1, Names
  <2> QED BY <2>1, <1>1 DEF WholeRegions
<1>7. BlocksExact'
  <2>1. DOMAIN slabs' \intersect WholeRegions' = {} /\ r \notin DOMAIN slabs
    BY <1>6 DEF Memory, BlocksExact, caches
  <2>2. ASSUME NEW e \in Extents
        PROVE  /\ out'[e] = {b \in Blocks : [extent |-> e, block |-> b] \in DOMAIN slabs' \union WholeRegions'}
               /\ out'[e] # {} => e \in ToSet(extents')
    <3>1. /\ out[e] = {b \in Blocks : [extent |-> e, block |-> b] \in DOMAIN slabs \union WholeRegions}
          /\ out[e] # {} => e \in ToSet(extents)
      BY DEF Memory, BlocksExact
    <3>2. \A b : [extent |-> e, block |-> b] = r <=> e = r.extent /\ b = r.block
      BY <1>1
    <3>3. DOMAIN slabs' \union WholeRegions' = (DOMAIN slabs \union WholeRegions) \ {r}
      BY <1>6, <2>1 DEF caches
    <3>4. out'[e] # {} => e \in ToSet(extents')
      BY <3>1, <1>3
    <3>5. CASE e = r.extent
      BY <3>1, <3>2, <3>3, <3>4, <3>5, <1>1, <1>3
    <3>6. CASE e # r.extent
      BY <3>1, <3>2, <3>3, <3>4, <3>6, <1>3
    <3> QED BY <3>5, <3>6
  <2> QED BY <2>1, <2>2 DEF BlocksExact
<1>8. BlocksApart'
  BY <1>3 DEF Memory, BlocksApart
<1> QED BY <1>4, <1>5, <1>7, <1>8 DEF Memory

\* What slab_free_local finds of the slab of an object in use, and what it makes of
\* the slab and of the lists of its cache before it looks whether the slab is empty.
LEMMA FreedSlot ==
  ASSUME Memory, ArenaAssumption, NEW x \in InUse, x.type = "slab", FreeSlot(x)
  PROVE  LET r == RegionOf(x)
             s == slabs[r]
             freed == WithFreed(s, x.slot)
         IN /\ r \in DOMAIN slabs /\ r \in Regions /\ x = Slot(r, x.slot)
            /\ s.owner \in Classes /\ Capacity[s.owner] \in Nat \ {0}
            /\ x.slot \in SlotsInUse(r)
            /\ freed \in Slabs /\ freed.owner = s.owner
            /\ IsInjective(freed.free)
            /\ ToSet(freed.free) = SlotsOf(r) \ (SlotsInUse(r) \ {x.slot})
            /\ freed.used = Cardinality(SlotsInUse(r) \ {x.slot})
            /\ freed.used # Capacity[s.owner]
            /\ freed.used = 0 => SlotsInUse(r) = {x.slot}
<1> DEFINE r == RegionOf(x)
           s == slabs[r]
           i == x.slot
           n == Capacity[s.owner]
           B == SlotsInUse(r)
           freed == WithFreed(s, i)
<1>1. /\ r \in DOMAIN slabs /\ r \in Regions /\ x = Slot(r, i) /\ i \in 1..n
      /\ s \in Slabs /\ s.owner \in Classes /\ n \in Nat \ {0}
  <2>1. x \in Objects
    BY DEF Memory, Stores
  <2>2. r \in DOMAIN slabs /\ i \in 1..n
    BY DEF Memory, SlotsExact, SlotsOf
  <2>3. s \in Slabs
    BY <2>2 DEF Memory, Stores
  <2>4. s.owner \in Classes
    BY <2>3 DEF Slabs
  <2>5. n \in Nat \ {0}
    BY <2>4 DEF ArenaAssumption
  <2> QED BY <2>1, <2>2, <2>3, <2>4, <2>5, Names
<1>2. /\ SlotsOf(r) = 1..n /\ B \in SUBSET (1..n) /\ i \in B
      /\ IsInjective(s.free) /\ ToSet(s.free) = (1..n) \ B /\ s.used = Cardinality(B)
  BY <1>1 DEF Memory, SlotsExact, SlotsInUse, SlotsOf
<1>3. /\ s.free \in Seq(Nat) /\ i \in Nat /\ s.used \in Nat
  BY <1>1 DEF Slabs
<1> HIDE DEF r, i, n, B, s
<1>4. /\ Cardinality(B) \in 0..n /\ Cardinality(B \ {i}) = Cardinality(B) - 1
      /\ B # {} /\ Cardinality(B) # 0
  BY <1>1, <1>2, Counts
<1> DEFINE free == <<i>> \o s.free
<1>5. free \in Seq(Nat) /\ ToSet(free) = {i} \union ToSet(s.free) /\ IsInjective(free)
  <2>1. i \notin ToSet(s.free)
    BY <1>2
  <2> QED BY <2>1, <1>2, <1>3, PushElements
<1>6. freed = [s EXCEPT !.free = free, !.used = s.used - 1]
  BY DEF WithFreed
<1> HIDE DEF free, freed
<1>7. /\ freed.owner = s.owner /\ freed.free = free /\ freed.used = s.used - 1 /\ freed \in Slabs
  <2>1. s.used - 1 \in Nat
    BY <1>2, <1>3, <1>4
  <2> QED BY <1>1, <1>5, <1>6, <2>1 DEF Slabs
<1>8. /\ ToSet(freed.free) = (1..n) \ (B \ {i})
      /\ freed.used = Cardinality(B \ {i}) /\ freed.used # n
  BY <1>1, <1>2, <1>4, <1>5, <1>7
<1>9. freed.used = 0 => B = {i}
  <2>1. B \ {i} \in SUBSET (1..n)
    BY <1>2
  <2>2. Cardinality(B \ {i}) = 0 <=> B \ {i} = {}
    BY <1>1, <2>1, Counts
  <2> QED BY <2>2, <1>2, <1>8
<1> QED BY <1>1, <1>2, <1>5, <1>7, <1>8, <1>9 DEF r, s, i, n, B, freed

\* The lists of the cache then: the slab has left `full' and is on `partial',
\* unless it was emptied.
LEMMA FreedLists ==
  ASSUME Memory, ArenaAssumption, NEW x \in InUse, x.type = "slab", FreeSlot(x)
  PROVE  LET r == RegionOf(x)
             freed == WithFreed(slabs[r], x.slot)
             c == slabs[r].owner
         IN /\ partial' \in [Classes -> Seq(Regions)] /\ full' \in [Classes -> Seq(Regions)]
            /\ \A d \in Classes \ {c} : partial'[d] = partial[d] /\ full'[d] = full[d]
            /\ IsInjective(partial'[c]) /\ IsInjective(full'[c])
            /\ ToSet(full'[c]) = ToSet(full[c]) \ {r}
            /\ freed.used = 0 => ToSet(partial'[c]) = ToSet(partial[c]) \ {r}
            /\ freed.used # 0 => ToSet(partial'[c]) = ToSet(partial[c]) \union {r}
<1> DEFINE r == RegionOf(x)
           s == slabs[r]
           c == s.owner
           freed == WithFreed(s, x.slot)
           more == <<r>> \o partial[c]
           listed == IF WasFull(s) THEN more ELSE partial[c]
           fewer == Unlink(full[c], r)
           rest == Unlink(listed, r)
<1>1. r \in DOMAIN slabs /\ r \in Regions /\ c \in Classes
  BY FreedSlot
<1>2. /\ partial[c] \in Seq(Regions) /\ IsInjective(partial[c])
      /\ full[c] \in Seq(Regions) /\ IsInjective(full[c])
      /\ WasFull(s) => r \notin ToSet(partial[c]) /\ r \in ToSet(full[c])
      /\ ~WasFull(s) => r \in ToSet(partial[c]) /\ r \notin ToSet(full[c])
  BY <1>1 DEF Memory, Stores, SlabLists, SlabsOf, WasFull
<1>3. /\ full' = IF WasFull(s) THEN [full EXCEPT ![c] = fewer] ELSE full
      /\ partial' = IF freed.used = 0 THEN [partial EXCEPT ![c] = rest]
                                      ELSE [partial EXCEPT ![c] = listed]
  BY DEF FreeSlot, IsEmpty, Unlisted
<1> HIDE DEF r, c, s, freed, more
<1>4. /\ more \in Seq(Regions) /\ ToSet(more) = {r} \union ToSet(partial[c])
      /\ WasFull(s) => IsInjective(more)
  BY <1>1, <1>2, PushElements DEF more
<1>5. /\ listed \in Seq(Regions) /\ IsInjective(listed)
      /\ ToSet(listed) = ToSet(partial[c]) \union {r}
  BY <1>2, <1>4
<1> HIDE DEF listed
<1>6. /\ fewer \in Seq(Regions) /\ IsInjective(fewer) /\ ToSet(fewer) = ToSet(full[c]) \ {r}
  BY <1>2, Unlinked
<1>7. /\ rest \in Seq(Regions) /\ IsInjective(rest) /\ ToSet(rest) = ToSet(partial[c]) \ {r}
  <2>1. rest \in Seq(Regions) /\ IsInjective(rest) /\ ToSet(rest) = ToSet(listed) \ {r}
    BY <1>5, Unlinked
  <2> QED BY <2>1, <1>5
<1> HIDE DEF fewer, rest
<1>8. partial \in [Classes -> Seq(Regions)] /\ full \in [Classes -> Seq(Regions)]
  BY DEF Memory, Stores
<1>9. partial' \in [Classes -> Seq(Regions)] /\ full' \in [Classes -> Seq(Regions)]
  BY <1>3, <1>5, <1>6, <1>7, <1>8
<1>10. \A d \in Classes \ {c} : partial'[d] = partial[d] /\ full'[d] = full[d]
  BY <1>3, <1>8
<1>11. /\ full'[c] = IF WasFull(s) THEN fewer ELSE full[c]
       /\ partial'[c] = IF freed.used = 0 THEN rest ELSE listed
  BY <1>1, <1>3, <1>8
<1>12. /\ IsInjective(partial'[c]) /\ IsInjective(full'[c])
       /\ ToSet(full'[c]) = ToSet(full[c]) \ {r}
       /\ freed.used = 0 => ToSet(partial'[c]) = ToSet(partial[c]) \ {r}
       /\ freed.used # 0 => ToSet(partial'[c]) = ToSet(partial[c]) \union {r}
  BY <1>2, <1>5, <1>6, <1>7, <1>11
<1> QED BY <1>9, <1>10, <1>12 DEF r, s, c, freed

\* slab_free_local frees the slot, and gives an emptied slab back to its pool.
LEMMA FreeSlotMemory ==
  ASSUME Memory, ArenaAssumption, NEW x \in InUse, x.type = "slab", FreeSlot(x),
         extents' = extents, InUse' = InUse \ {x}
  PROVE  Memory'
<1> DEFINE r == RegionOf(x)
           c == slabs[r].owner
           B == SlotsInUse(r)
           freed == WithFreed(slabs[r], x.slot)
<1>1. /\ r \in DOMAIN slabs /\ r \in Regions /\ x = Slot(r, x.slot)
      /\ c \in Classes /\ Capacity[c] \in Nat \ {0} /\ x.slot \in B
      /\ freed \in Slabs /\ freed.owner = c /\ IsInjective(freed.free)
      /\ ToSet(freed.free) = SlotsOf(r) \ (B \ {x.slot})
      /\ freed.used = Cardinality(B \ {x.slot})
      /\ freed.used # Capacity[c]
      /\ freed.used = 0 => B = {x.slot}
  BY FreedSlot
<1>2. /\ partial' \in [Classes -> Seq(Regions)] /\ full' \in [Classes -> Seq(Regions)]
      /\ \A d \in Classes \ {c} : partial'[d] = partial[d] /\ full'[d] = full[d]
      /\ IsInjective(partial'[c]) /\ IsInjective(full'[c])
      /\ ToSet(full'[c]) = ToSet(full[c]) \ {r}
      /\ freed.used = 0 => ToSet(partial'[c]) = ToSet(partial[c]) \ {r}
      /\ freed.used # 0 => ToSet(partial'[c]) = ToSet(partial[c]) \union {r}
  BY FreedLists
<1>3. IF freed.used = 0
      THEN /\ slabs' = [q \in DOMAIN slabs \ {r} |-> slabs[q]]
           /\ out' = [out EXCEPT ![r.extent] = @ \ {r.block}]
      ELSE slabs' = [slabs EXCEPT ![r] = freed] /\ out' = out
  BY DEF FreeSlot, IsEmpty, TakeBack
<1>4. c = slabs[r].owner /\ B = SlotsInUse(r)
  OBVIOUS
<1> HIDE DEF r, c, B, freed
<1>5. /\ DOMAIN slabs' = IF freed.used = 0 THEN DOMAIN slabs \ {r} ELSE DOMAIN slabs
      /\ \A q \in DOMAIN slabs' : slabs'[q] = IF q = r THEN freed ELSE slabs[q]
      /\ slabs' \in [DOMAIN slabs' -> Slabs] /\ DOMAIN slabs' \subseteq Regions
  <2>1. slabs \in [DOMAIN slabs -> Slabs] /\ DOMAIN slabs \subseteq Regions
    BY DEF Memory, Stores
  <2>2. CASE freed.used = 0
    BY <2>1, <2>2, <1>3
  <2>3. CASE freed.used # 0
    BY <2>1, <2>3, <1>1, <1>3
  <2> QED BY <2>2, <2>3
<1>6. r.extent \in Extents /\ r.block \in Blocks /\ r = [extent |-> r.extent, block |-> r.block]
  BY <1>1, Names
<1>7. /\ out' \in [Extents -> SUBSET Blocks]
      /\ \A e \in Extents : out'[e] = IF e = r.extent /\ freed.used = 0
                                      THEN out[e] \ {r.block} ELSE out[e]
  <2>1. out \in [Extents -> SUBSET Blocks]
    BY DEF Memory, Stores
  <2>2. CASE freed.used = 0
    BY <2>1, <2>2, <1>3, <1>6
  <2>3. CASE freed.used # 0
    BY <2>1, <2>3, <1>3
  <2> QED BY <2>2, <2>3
<1>8. Stores'
  BY <1>2, <1>5, <1>7 DEF Memory, Stores
<1>9. SlabLists'
  <2> SUFFICES ASSUME NEW d \in Classes
               PROVE /\ IsInjective(partial'[d])
                     /\ ToSet(partial'[d]) = {q \in SlabsOf(d)' : slabs'[q].used # Capacity[slabs'[q].owner]}
                     /\ IsInjective(full'[d])
                     /\ ToSet(full'[d]) = {q \in SlabsOf(d)' : slabs'[q].used = Capacity[slabs'[q].owner]}
                     /\ \A q \in SlabsOf(d)' : slabs'[q].used # 0
    BY DEF SlabLists, IsFull, IsEmpty
  <2>1. /\ IsInjective(partial[d])
        /\ ToSet(partial[d]) = {q \in SlabsOf(d) : slabs[q].used # Capacity[slabs[q].owner]}
        /\ IsInjective(full[d])
        /\ ToSet(full[d]) = {q \in SlabsOf(d) : slabs[q].used = Capacity[slabs[q].owner]}
        /\ \A q \in SlabsOf(d) : slabs[q].used # 0
    BY DEF Memory, SlabLists, IsFull, IsEmpty
  <2>2. CASE d # c
    <3>1. partial'[d] = partial[d] /\ full'[d] = full[d]
      BY <2>2, <1>2
    <3>2. r \notin SlabsOf(d)
      BY <2>2, <1>4 DEF SlabsOf
    <3>3. SlabsOf(d)' = SlabsOf(d)
      BY <2>2, <1>1, <1>4, <1>5 DEF SlabsOf
    <3>4. \A q \in SlabsOf(d) : slabs'[q] = slabs[q]
      BY <3>2, <3>3, <1>5 DEF SlabsOf
    <3> QED BY <3>1, <3>3, <3>4, <2>1
  <2>3. CASE d = c
    <3>1. SlabsOf(d)' = IF freed.used = 0 THEN SlabsOf(d) \ {r} ELSE SlabsOf(d)
      BY <2>3, <1>1, <1>4, <1>5 DEF SlabsOf
    <3>2. r \in SlabsOf(d)
      BY <2>3, <1>1, <1>4 DEF SlabsOf
    <3>3. \A q \in SlabsOf(d)' : slabs'[q] = IF q = r THEN freed ELSE slabs[q]
      BY <1>5 DEF SlabsOf
    <3>4. freed.owner = c /\ freed.used # Capacity[c]
      BY <1>1
    <3>5. \A q \in SlabsOf(d)' : slabs'[q].used # 0
      BY <3>1, <3>3, <2>1
    <3>6. /\ ToSet(full'[d]) = {q \in SlabsOf(d)' : slabs'[q].used = Capacity[slabs'[q].owner]}
          /\ ToSet(partial'[d]) = {q \in SlabsOf(d)' : slabs'[q].used # Capacity[slabs'[q].owner]}
      <4>1. CASE freed.used = 0
        <5>1. /\ ToSet(full'[d]) = ToSet(full[d]) \ {r}
              /\ ToSet(partial'[d]) = ToSet(partial[d]) \ {r}
          BY <4>1, <2>3, <1>2
        <5>2. SlabsOf(d)' = SlabsOf(d) \ {r} /\ \A q \in SlabsOf(d)' : slabs'[q] = slabs[q]
          BY <4>1, <3>1, <3>3
        <5> QED BY <5>1, <5>2, <2>1
      <4>2. CASE freed.used # 0
        <5>1. /\ ToSet(full'[d]) = ToSet(full[d]) \ {r}
              /\ ToSet(partial'[d]) = ToSet(partial[d]) \union {r}
          BY <4>2, <2>3, <1>2
        <5>2. SlabsOf(d)' = SlabsOf(d)
          BY <4>2, <3>1
        <5>3. slabs'[r].used # Capacity[slabs'[r].owner]
          BY <5>2, <3>2, <3>3, <3>4
        <5>4. \A q \in SlabsOf(d) \ {r} : slabs'[q] = slabs[q]
          BY <5>2, <3>3
        <5> QED BY <5>1, <5>2, <5>3, <5>4, <3>2, <2>1
      <4> QED BY <4>1, <4>2
    <3> QED BY <3>5, <3>6, <2>3, <1>2
  <2> QED BY <2>2, <2>3
<1>10. \A q \in Regions : \A j \in Nat :
         Slot(q, j) \in InUse' <=> Slot(q, j) \in InUse /\ ~(q = r /\ j = x.slot)
  <2>1. x.slot \in Nat
    BY <1>1, <1>4 DEF SlotsInUse, SlotsOf
  <2>2. \A q \in Regions : \A j \in Nat : Slot(q, j) = Slot(r, x.slot) <=> q = r /\ j = x.slot
    BY <2>1, <1>1, Names
  <2> QED BY <2>2, <1>1
<1>11. WholeRegions' = WholeRegions
  <2>1. \A q \in Regions : Whole(q) # x
    BY DEF Whole
  <2> QED BY <2>1 DEF WholeRegions
<1>12. SlotsExact'
  <2>1. ASSUME NEW q \in DOMAIN slabs'
        PROVE  /\ IsInjective(slabs'[q].free)
               /\ ToSet(slabs'[q].free) = SlotsOf(q)' \ SlotsInUse(q)'
               /\ slabs'[q].used = Cardinality(SlotsInUse(q)')
    <3>1. q \in DOMAIN slabs /\ q \in Regions
      BY <1>5
    <3>2. SlotsOf(q)' = SlotsOf(q)
      BY <1>1, <1>4, <1>5 DEF SlotsOf
    <3>3. \A j \in SlotsOf(q) : j \in Nat
      BY DEF SlotsOf
    <3>4. CASE q = r
      <4>1. SlotsInUse(q)' = B \ {x.slot}
        BY <3>1, <3>2, <3>3, <3>4, <1>4, <1>10 DEF SlotsInUse
      <4> QED BY <4>1, <3>2, <3>4, <1>1, <1>5
    <3>5. CASE q # r
      <4>1. SlotsInUse(q)' = SlotsInUse(q)
        BY <3>1, <3>2, <3>3, <3>5, <1>10 DEF SlotsInUse
      <4> QED BY <4>1, <3>1, <3>2, <3>5, <1>5 DEF Memory, SlotsExact
    <3> QED BY <3>4, <3>5
  <2>2. ASSUME NEW y \in InUse', y.type = "slab"
        PROVE  RegionOf(y) \in DOMAIN slabs' /\ y.slot \in SlotsOf(RegionOf(y))'
    <3>1. /\ y \in InUse /\ y # x /\ y \in Objects
          /\ RegionOf(y) \in DOMAIN slabs /\ y.slot \in SlotsOf(RegionOf(y))
      BY <2>2 DEF Memory, Stores, SlotsExact
    <3>2. RegionOf(y) \in DOMAIN slabs'
      <4>1. CASE freed.used = 0 /\ RegionOf(y) = r
        <5>1. y = Slot(r, y.slot) /\ y.slot \in SlotsOf(r)
          BY <4>1, <3>1, <2>2, Names
        <5>2. y.slot \in B
          BY <5>1, <3>1, <1>4 DEF SlotsInUse
        <5> QED BY <5>1, <5>2, <4>1, <3>1, <1>1
      <4>2. CASE ~(freed.used = 0 /\ RegionOf(y) = r)
        BY <4>2, <3>1, <1>5
      <4> QED BY <4>1, <4>2
    <3>3. SlotsOf(RegionOf(y))' = SlotsOf(RegionOf(y))
      <4>1. slabs'[RegionOf(y)].owner = slabs[RegionOf(y)].owner
        BY <3>2, <1>1, <1>4, <1>5
      <4> QED BY <4>1 DEF SlotsOf, RegionOf
    <3> QED BY <3>1, <3>2, <3>3
  <2> QED BY <2>1, <2>2 DEF SlotsExact
<1>13. BlocksExact'
  <2>1. r \notin WholeRegions /\ DOMAIN slabs' \intersect WholeRegions' = {}
    BY <1>1, <1>5, <1>11 DEF Memory, BlocksExact
  <2>2. ASSUME NEW e \in Extents
        PROVE  /\ out'[e] = {b \in Blocks : [extent |-> e, block |-> b] \in DOMAIN slabs' \union WholeRegions'}
               /\ out'[e] # {} => e \in ToSet(extents')
    <3>1. /\ out[e] = {b \in Blocks : [extent |-> e, block |-> b] \in DOMAIN slabs \union WholeRegions}
          /\ out[e] # {} => e \in ToSet(extents)
      BY DEF Memory, BlocksExact
    <3>2. \A b : [extent |-> e, block |-> b] = r <=> e = r.extent /\ b = r.block
      BY <1>6
    <3>3. out'[e] # {} => e \in ToSet(extents')
      BY <3>1, <1>7
    <3>4. DOMAIN slabs' \union WholeRegions' =
            IF freed.used = 0 THEN (DOMAIN slabs \union WholeRegions) \ {r}
                              ELSE DOMAIN slabs \union WholeRegions
      BY <2>1, <1>5, <1>11
    <3>5. CASE e = r.extent /\ freed.used = 0
      BY <3>1, <3>2, <3>3, <3>4, <3>5, <1>6, <1>7
    <3>6. CASE ~(e = r.extent /\ freed.used = 0)
      BY <3>1, <3>2, <3>3, <3>4, <3>6, <1>7
    <3> QED BY <3>5, <3>6
  <2> QED BY <2>1, <2>2 DEF BlocksExact
<1>14. BlocksApart'
  BY <1>7 DEF Memory, BlocksApart
<1> QED BY <1>8, <1>9, <1>12, <1>13, <1>14 DEF Memory

-----------------------------------------------------------------------------
(* The steps *)

\* What PageRuns promises of a run that is granted: it is clear of all that is out.
LEMMA Granted ==
  ASSUME NEW e, NEW t, NEW b \in Room(e, t)
  PROVE  b \in Blocks /\ b.order = t /\ \A d \in out[e] : Disjoint(b, d)
  BY DEF Room, Pool!Fits, Pool!Disjoint, Disjoint

\* The search of arena_alloc_region and arena_alloc_buddy_region sees every pool of
\* the arena, and no other.
LEMMA SearchesAll ==
  ASSUME CallOK, created
  PROVE  /\ ToSet(SearchOrder) = ToSet(extents)
         /\ \A t : NoRoom(t) => \A e \in ToSet(extents) : Room(e, t) = {}
<1>1. /\ extents \in Seq(Extents) /\ IsInjective(extents)
      /\ active \in ToSet(extents) /\ active \in Extents
  BY DEF CallOK, ToSet
<1> DEFINE others == Unlink(extents, active)
<1>2. others \in Seq(Extents) /\ ToSet(others) = ToSet(extents) \ {active}
  BY <1>1, Unlinked
<1> HIDE DEF others
<1>3. ToSet(<<active>> \o others) = {active} \union ToSet(others)
  BY <1>1, <1>2, PushElements
<1>4. SearchOrder = <<active>> \o others
  BY DEF SearchOrder, others
<1>5. ToSet(SearchOrder) = ToSet(extents)
  BY <1>1, <1>2, <1>3, <1>4
<1>6. \A t : NoRoom(t) => \A e \in ToSet(SearchOrder) : Room(e, t) = {}
  BY DEF NoRoom, ToSet
<1> QED BY <1>5, <1>6

\* arena_expand puts a new extent before the others.
LEMMA Expanded ==
  ASSUME CallOK, Expand
  PROVE  /\ NewExtent \in Extents /\ NewExtent \notin ToSet(extents)
         /\ extents' \in Seq(Extents) /\ IsInjective(extents') /\ extents' # <<>>
         /\ ToSet(extents') = ToSet(extents) \union {NewExtent}
         /\ ToSet(extents') = 1..Len(extents')
         /\ active' \in ToSet(extents') /\ active' \in Extents
<1> DEFINE n == NewExtent
<1>1. /\ extents \in Seq(Extents) /\ IsInjective(extents) /\ ToSet(extents) = 1..Len(extents)
      /\ n = Len(extents) + 1 /\ n \in Extents /\ Len(extents) \in Nat
      /\ extents' = <<n>> \o extents /\ active' = n
  BY DEF CallOK, Expand, NewExtent
<1> HIDE DEF n
<1>2. n \notin ToSet(extents)
  BY <1>1
<1> DEFINE more == <<n>> \o extents
<1>3. /\ more \in Seq(Extents) /\ ToSet(more) = {n} \union ToSet(extents) /\ IsInjective(more)
  BY <1>1, <1>2, PushElements
<1>4. Len(more) = Len(extents) + 1 /\ more # <<>>
  BY <1>1
<1> HIDE DEF more
<1>5. 1..Len(more) = 1..Len(extents) \union {n}
  BY <1>1, <1>4
<1>6. extents' = more
  BY <1>1 DEF more
<1> QED BY <1>1, <1>2, <1>3, <1>4, <1>5, <1>6 DEF n

\* The head of the partial list is what slab_alloc serves from.
LEMMA GivenListed ==
  ASSUME Memory, ArenaAssumption, class \in Classes, partial[class] # <<>>
  PROVE  LET r == Head(partial[class])
         IN /\ Given(r, slabs[r], Tail(partial[class])) /\ r \in DOMAIN slabs
            /\ r.extent \in Extents /\ r.block \in out[r.extent]
<1> DEFINE list == partial[class]
           r == Head(list)
           rest == Tail(list)
<1>1. /\ list \in Seq(Regions) /\ IsInjective(list) /\ list # <<>>
      /\ ToSet(list) = {q \in SlabsOf(class) : ~IsFull(slabs[q])}
  BY DEF Memory, Stores, SlabLists
<1> HIDE DEF list
<1>2. /\ r \in ToSet(list) /\ r \in Regions /\ rest \in Seq(Regions)
      /\ ToSet(rest) = ToSet(list) \ {r} /\ IsInjective(rest)
  BY <1>1, HeadAndTail
<1> HIDE DEF r, rest
<1>3. /\ r \in DOMAIN slabs /\ slabs[r].owner = class /\ slabs[r].used # Capacity[class]
  BY <1>1, <1>2 DEF SlabsOf, IsFull
<1> DEFINE n == Capacity[class]
           B == {i \in 1..n : Slot(r, i) \in InUse}
<1>4. n \in Nat
  BY DEF ArenaAssumption
<1>5. /\ slabs[r] \in Slabs /\ IsInjective(slabs[r].free)
      /\ ToSet(slabs[r].free) = (1..n) \ B /\ slabs[r].used = Cardinality(B)
  BY <1>3 DEF Memory, Stores, SlotsExact, SlotsOf, SlotsInUse
<1>6. slabs[r].free # <<>>
  <2>1. B \in SUBSET (1..n)
    OBVIOUS
  <2> HIDE DEF B
  <2>2. Cardinality(B) = n <=> B = 1..n
    BY <1>4, <2>1, Counts
  <2>3. ToSet(slabs[r].free) # {}
    BY <2>1, <2>2, <1>3, <1>5
  <2> QED BY <2>3 DEF ToSet
<1>7. r.extent \in Extents /\ r.block \in out[r.extent]
  BY <1>2, <1>3, Names DEF Memory, BlocksExact
<1>8. Given(r, slabs[r], rest)
  BY <1>1, <1>2, <1>3, <1>5, <1>6 DEF Given
<1> QED BY <1>3, <1>7, <1>8 DEF r, rest, list

\* slab_create makes a slab of a region that the pool had free.
LEMMA GivenNew ==
  ASSUME Memory, ArenaAssumption, class \in Classes, partial[class] = <<>>,
         NEW r \in Regions, \A d \in out[r.extent] : Disjoint(r.block, d)
  PROVE  Given(r, NewSlab, <<>>)
<1> DEFINE n == Capacity[class]
           free == [i \in 1..n |-> n + 1 - i]
           B == {i \in 1..n : Slot(r, i) \in InUse}
<1>1. n \in Nat \ {0}
  BY DEF ArenaAssumption
<1>2. NewSlab = [owner |-> class, used |-> 0, free |-> free]
  BY DEF NewSlab
<1>3. B = {}
  BY <1>1, FreshRegion
<1> HIDE DEF n
<1>4. free \in Seq(Nat) /\ DOMAIN free = 1..n /\ \A i \in 1..n : free[i] = n + 1 - i
  BY <1>1
<1>5. free # <<>>
  BY <1>1, <1>4
<1>6. IsInjective(free)
  BY <1>1, <1>4 DEF IsInjective
<1>7. ToSet(free) = 1..n
  <2>1. \A j \in 1..n : n + 1 - j \in 1..n /\ free[n + 1 - j] = j
    BY <1>1, <1>4
  <2> HIDE DEF free
  <2>2. \A i \in 1..n : free[i] \in 1..n
    BY <1>1, <1>4
  <2>3. \A j \in 1..n : \E i \in 1..n : free[i] = j
    BY <2>1
  <2> QED BY <2>2, <2>3, <1>4 DEF ToSet
<1>8. Cardinality({}) = 0
  BY FS_EmptySet
<1> HIDE DEF free
<1>9. /\ NewSlab \in Slabs /\ NewSlab.owner = class /\ NewSlab.free = free /\ NewSlab.used = 0
  BY <1>2, <1>4 DEF Slabs
<1>10. /\ <<>> \in Seq(Regions) /\ IsInjective(<<>>) /\ ToSet(<<>>) = {}
  BY DEF IsInjective, ToSet
<1>11. {q \in SlabsOf(class) : ~IsFull(slabs[q])} = {}
  BY <1>10 DEF Memory, SlabLists
<1>12. r \notin DOMAIN slabs
  BY FreshRegion
<1> QED BY <1>3, <1>5, <1>6, <1>7, <1>8, <1>9, <1>10, <1>11, <1>12 DEF Given, n

\* The extents are as they were, or there is one more; the arena is created.
LEMMA ExtentsStep ==
  ASSUME CallOK, created, created' = created, pc # "create", pc' # "create",
         \/ UNCHANGED <<mapped, extents>> /\ active' \in ToSet(extents)
         \/ Expand
  PROVE  /\ extents' \in Seq(Extents) /\ IsInjective(extents') /\ ToSet(extents') = 1..Len(extents')
         /\ created' = (extents' # <<>>) /\ active' \in ToSet(extents') /\ active' \in Extents
         /\ mapped' = ToSet(extents') \union {TheArena}
         /\ ToSet(extents) \subseteq ToSet(extents')
<1>1. CASE UNCHANGED <<mapped, extents>> /\ active' \in ToSet(extents)
  <2>1. active' \in Extents
    BY <1>1 DEF CallOK, ToSet
  <2> QED BY <1>1, <2>1 DEF CallOK
<1>2. CASE Expand
  <2>1. /\ extents' \in Seq(Extents) /\ IsInjective(extents') /\ extents' # <<>>
        /\ ToSet(extents') = ToSet(extents) \union {NewExtent}
        /\ ToSet(extents') = 1..Len(extents')
        /\ active' \in ToSet(extents') /\ active' \in Extents
    BY <1>2, Expanded
  <2>2. mapped' = mapped \union {NewExtent}
    BY <1>2 DEF Expand
  <2> QED BY <2>1, <2>2 DEF CallOK
<1> QED BY <1>1, <1>2

\* arena_alloc returns an object: what it leaves of its call.
LEMMA ServedCall ==
  ASSUME IInv, pc = "try", AllocEnds, NEW x, x \notin InUse, held' = held \union {x},
         \/ UNCHANGED <<mapped, extents>> /\ active' \in ToSet(extents)
         \/ Expand
  PROVE  /\ OnePlace' /\ CallOK' /\ OwedOK' /\ CounterOK'
         /\ InUse' = InUse \union {x} /\ ToSet(extents) \subseteq ToSet(extents')
<1>1. /\ created /\ created' = created /\ pc' = "idle" /\ retried' = FALSE /\ owed' = {}
      /\ counter' = counter /\ pending' = pending /\ taken' = taken /\ class' = NoBlock
      /\ taken = {} /\ CallOK
  BY DEF IInv, CallOK, AllocEnds
<1>2. /\ extents' \in Seq(Extents) /\ IsInjective(extents') /\ ToSet(extents') = 1..Len(extents')
      /\ created' = (extents' # <<>>) /\ active' \in ToSet(extents') /\ active' \in Extents
      /\ mapped' = ToSet(extents') \union {TheArena}
      /\ ToSet(extents) \subseteq ToSet(extents')
  BY <1>1, ExtentsStep
<1>3. CallOK'
  BY <1>1, <1>2 DEF CallOK
<1>4. OnePlace' /\ InUse' = InUse \union {x}
  BY <1>1 DEF IInv, OnePlace, InUse
<1>5. OwedOK' /\ CounterOK'
  BY <1>1, <1>2 DEF IInv, OwedOK, CounterOK
<1> QED BY <1>2, <1>3, <1>4, <1>5

\* slab_alloc serves from a partial slab, which may thereby fill.
LEMMA AllocSlotStep ==
  ASSUME IInv, ArenaAssumption, AllocSlot PROVE IInv'
<1> DEFINE r == Head(partial[class])
           s == slabs[r]
           rest == Tail(partial[class])
           x == Slot(r, Head(s.free))
<1>1. /\ pc = "try" /\ partial[class] # <<>> /\ Serve(r, s, rest) /\ AllocEnds
      /\ UNCHANGED pools
  BY DEF AllocSlot
<1>2. Memory /\ CallOK /\ class \in Classes /\ created /\ active \in ToSet(extents)
  BY <1>1 DEF IInv, CallOK
<1>3. Given(r, s, rest) /\ r.extent \in Extents /\ r.block \in out[r.extent]
  BY <1>1, <1>2, GivenListed
<1> HIDE DEF r, rest
<1>4. x \notin InUse
  BY <1>2, <1>3, ServedSlot
<1>5. held' = held \union {x}
  BY <1>1 DEF Serve
<1> HIDE DEF s, x
<1>6. /\ OnePlace' /\ CallOK' /\ OwedOK' /\ CounterOK'
      /\ InUse' = InUse \union {x} /\ ToSet(extents) \subseteq ToSet(extents')
  BY <1>1, <1>2, <1>4, <1>5, ServedCall DEF pools
<1>7. out' = [out EXCEPT ![r.extent] = @ \union {r.block}]
  <2>1. out \in [Extents -> SUBSET Blocks] /\ out' = out
    BY <1>1, <1>2 DEF Memory, Stores, pools
  <2> QED BY <2>1, <1>3
<1>8. r.extent \in ToSet(extents')
  BY <1>1, <1>2, <1>3 DEF Memory, BlocksExact, pools
<1>9. Memory'
  BY <1>1, <1>2, <1>3, <1>6, <1>7, <1>8, ServeMemory DEF x
<1> QED BY <1>6, <1>9 DEF IInv

\* A slab is made in a pool of the arena, or in that of a new extent.
LEMMA NewSlabStep ==
  ASSUME IInv, ArenaAssumption, pc = "try", partial[class] = <<>>, AllocEnds,
         NEW r \in Regions, \A d \in out[r.extent] : Disjoint(r.block, d),
         HandOut(r), Serve(r, NewSlab, <<>>),
         r.extent \in ToSet(extents'),
         \/ UNCHANGED <<mapped, extents>> /\ active' \in ToSet(extents)
         \/ Expand
  PROVE  IInv'
<1> DEFINE x == Slot(r, Head(NewSlab.free))
<1>1. Memory /\ class \in Classes
  BY DEF IInv, CallOK
<1>2. Given(r, NewSlab, <<>>)
  BY <1>1, GivenNew
<1>3. x \notin InUse
  BY <1>1, <1>2, ServedSlot
<1>4. held' = held \union {x}
  BY DEF Serve
<1> HIDE DEF x
<1>5. /\ OnePlace' /\ CallOK' /\ OwedOK' /\ CounterOK'
      /\ InUse' = InUse \union {x} /\ ToSet(extents) \subseteq ToSet(extents')
  BY <1>3, <1>4, ServedCall
<1>6. out' = [out EXCEPT ![r.extent] = @ \union {r.block}]
  BY DEF HandOut
<1>7. Memory'
  BY <1>1, <1>2, <1>5, <1>6, ServeMemory DEF x
<1> QED BY <1>5, <1>7 DEF IInv

\* slab_alloc makes a slab of a block that some extent's pool has.
LEMMA AllocSlabStep ==
  ASSUME IInv, ArenaAssumption, AllocSlab PROVE IInv'
<1>1. PICK e \in ToSet(extents) :
        /\ active' = e
        /\ \E b \in Room(e, SlabOrder) : /\ HandOut([extent |-> e, block |-> b])
                                         /\ Serve([extent |-> e, block |-> b], NewSlab, <<>>)
  BY DEF AllocSlab
<1>2. PICK b \in Room(e, SlabOrder) :
        /\ HandOut([extent |-> e, block |-> b])
        /\ Serve([extent |-> e, block |-> b], NewSlab, <<>>)
  BY <1>1
<1>3. /\ pc = "try" /\ partial[class] = <<>> /\ AllocEnds /\ UNCHANGED <<mapped, extents>>
  BY DEF AllocSlab
<1> DEFINE r == [extent |-> e, block |-> b]
<1>4. e \in Extents
  BY DEF IInv, CallOK, ToSet
<1>5. /\ r \in Regions /\ r.extent = e /\ r.block = b
      /\ \A d \in out[r.extent] : Disjoint(r.block, d)
  BY <1>4, Granted DEF Regions
<1>6. HandOut(r) /\ Serve(r, NewSlab, <<>>)
  BY <1>2
<1> HIDE DEF r
<1> QED BY <1>1, <1>3, <1>5, <1>6, NewSlabStep

\* arena_expand maps an extent, and the slab is its first block.
LEMMA AllocGrowStep ==
  ASSUME IInv, ArenaAssumption, AllocGrow PROVE IInv'
<1>1. PICK b \in Room(NewExtent, SlabOrder) :
        /\ HandOut([extent |-> NewExtent, block |-> b])
        /\ Serve([extent |-> NewExtent, block |-> b], NewSlab, <<>>)
  BY DEF AllocGrow
<1>2. /\ pc = "try" /\ partial[class] = <<>> /\ AllocEnds /\ Expand
  BY DEF AllocGrow
<1> DEFINE r == [extent |-> NewExtent, block |-> b]
<1>3. NewExtent \in Extents /\ NewExtent \in ToSet(extents')
  BY <1>2, Expanded DEF IInv
<1>4. /\ r \in Regions /\ r.extent = NewExtent /\ r.block = b
      /\ \A d \in out[r.extent] : Disjoint(r.block, d)
  BY <1>3, Granted DEF Regions
<1>5. HandOut(r) /\ Serve(r, NewSlab, <<>>)
  BY <1>1
<1> HIDE DEF r
<1> QED BY <1>2, <1>3, <1>4, <1>5, NewSlabStep

\* An object is freed: by the owner between its calls, or in a drain.
LEMMA FreeObjectMemory ==
  ASSUME Memory, ArenaAssumption, NEW x \in InUse, FreeObject(x),
         extents' = extents, InUse' = InUse \ {x}
  PROVE  Memory'
<1>1. CASE x.type = "slab" /\ RegionOf(x) \in DOMAIN slabs /\ FreeSlot(x)
  BY <1>1, FreeSlotMemory
<1>2. CASE x.type = "buddy" /\ FreeWhole(x) /\ UNCHANGED caches
  BY <1>2, FreeWholeMemory
<1> QED BY <1>1, <1>2 DEF FreeObject

\* sigma_free on the owner's thread.
LEMMA LocalFreeStep ==
  ASSUME IInv, ArenaAssumption, NEW x \in held, LocalFree(x) PROVE IInv'
<1>1. /\ pc = "idle" /\ held' = held \ {x} /\ FreeObject(x)
      /\ UNCHANGED <<created, mapped, extents, active, call, pending, taken>>
  BY DEF LocalFree
<1>2. OnePlace' /\ CallOK' /\ OwedOK' /\ CounterOK'
  BY <1>1 DEF IInv, OnePlace, CallOK, OwedOK, CounterOK, call
<1>3. x \in InUse /\ InUse' = InUse \ {x}
  BY <1>1 DEF IInv, OnePlace, InUse
<1>4. Memory'
  BY <1>1, <1>3, FreeObjectMemory DEF IInv
<1> QED BY <1>2, <1>4 DEF IInv

\* The drain gives back one of the objects it has taken.
LEMMA DrainOneStep ==
  ASSUME IInv, ArenaAssumption, NEW x \in taken, DrainOne(x) PROVE IInv'
<1>1. /\ pc = "drain" /\ taken' = taken \ {x} /\ FreeObject(x)
      /\ UNCHANGED <<created, mapped, extents, active, call, pending, held>>
  BY DEF DrainOne
<1>2. OnePlace' /\ CallOK' /\ OwedOK' /\ CounterOK'
  BY <1>1 DEF IInv, OnePlace, CallOK, OwedOK, CounterOK, call
<1>3. x \in InUse /\ InUse' = InUse \ {x}
  BY <1>1 DEF IInv, OnePlace, InUse
<1>4. Memory'
  BY <1>1, <1>3, FreeObjectMemory DEF IInv
<1> QED BY <1>2, <1>4 DEF IInv

\* A block is granted by a pool of the arena, or by that of a new extent.
LEMMA GrantedBlockStep ==
  ASSUME IInv, created, pc = "idle", created' = created, UNCHANGED <<caches, call, pending, taken>>,
         NEW r \in Regions, \A d \in out[r.extent] : Disjoint(r.block, d),
         HandOut(r), held' = held \union {Whole(r)}, r.extent \in ToSet(extents'),
         \/ UNCHANGED <<mapped, extents>> /\ active' \in ToSet(extents)
         \/ Expand
  PROVE  IInv'
<1>1. /\ Memory /\ CallOK /\ pc' = pc /\ retried' = retried /\ owed' = owed /\ class' = class
      /\ counter' = counter
  BY DEF IInv, call
<1>2. /\ extents' \in Seq(Extents) /\ IsInjective(extents') /\ ToSet(extents') = 1..Len(extents')
      /\ created' = (extents' # <<>>) /\ active' \in ToSet(extents') /\ active' \in Extents
      /\ mapped' = ToSet(extents') \union {TheArena}
      /\ ToSet(extents) \subseteq ToSet(extents')
  BY <1>1, ExtentsStep
<1>3. Whole(r) \notin InUse
  BY <1>1, FreshRegion DEF WholeRegions
<1>4. OnePlace' /\ InUse' = InUse \union {Whole(r)}
  BY <1>3 DEF IInv, OnePlace, InUse
<1>5. CallOK'
  BY <1>1, <1>2 DEF CallOK
<1>6. OwedOK' /\ CounterOK'
  BY <1>1, <1>2 DEF IInv, OwedOK, CounterOK
<1>7. Memory'
  BY <1>1, <1>2, <1>4, TakeMemory
<1> QED BY <1>4, <1>5, <1>6, <1>7 DEF IInv

\* A whole block, of an extent that has room.
LEMMA BuddyTakeStep ==
  ASSUME IInv, NEW t, BuddyTake(t) PROVE IInv'
<1>1. PICK e \in ToSet(extents) :
        /\ active' = e
        /\ \E b \in Room(e, t) : LET r == [extent |-> e, block |-> b]
                                 IN HandOut(r) /\ held' = held \union {Whole(r)}
  BY DEF BuddyTake
<1>2. PICK b \in Room(e, t) : /\ HandOut([extent |-> e, block |-> b])
                              /\ held' = held \union {Whole([extent |-> e, block |-> b])}
  BY <1>1
<1>3. created /\ pc = "idle" /\ UNCHANGED <<created, mapped, extents, caches, call, pending, taken>>
  BY DEF BuddyTake
<1> DEFINE r == [extent |-> e, block |-> b]
<1>4. e \in Extents
  BY DEF IInv, CallOK, ToSet
<1>5. /\ r \in Regions /\ r.extent = e /\ \A d \in out[r.extent] : Disjoint(r.block, d)
  BY <1>4, Granted DEF Regions
<1>6. HandOut(r) /\ held' = held \union {Whole(r)}
  BY <1>2
<1> HIDE DEF r
<1> QED BY <1>1, <1>3, <1>5, <1>6, GrantedBlockStep

\* A whole block, after a new extent is mapped; the request may fit in none.
LEMMA BuddyGrowStep ==
  ASSUME IInv, NEW t, BuddyGrow(t) PROVE IInv'
<1>1. /\ created /\ pc = "idle" /\ Expand
      /\ UNCHANGED <<created, caches, call, pending, taken>>
  BY DEF BuddyGrow
<1>2. NewExtent \in Extents /\ NewExtent \in ToSet(extents')
  BY <1>1, Expanded DEF IInv
<1>3. CASE \E b \in Room(NewExtent, t) : LET r == [extent |-> NewExtent, block |-> b]
                                         IN HandOut(r) /\ held' = held \union {Whole(r)}
  <2>1. PICK b \in Room(NewExtent, t) :
          /\ HandOut([extent |-> NewExtent, block |-> b])
          /\ held' = held \union {Whole([extent |-> NewExtent, block |-> b])}
    BY <1>3
  <2> DEFINE r == [extent |-> NewExtent, block |-> b]
  <2>2. /\ r \in Regions /\ r.extent = NewExtent /\ \A d \in out[r.extent] : Disjoint(r.block, d)
    BY <1>2, Granted DEF Regions
  <2>3. HandOut(r) /\ held' = held \union {Whole(r)}
    BY <2>1
  <2> HIDE DEF r
  <2> QED BY <1>1, <1>2, <2>2, <2>3, GrantedBlockStep
<1>4. CASE UNCHANGED <<out, held>>
  <2>1. /\ extents' \in Seq(Extents) /\ IsInjective(extents') /\ ToSet(extents') = 1..Len(extents')
        /\ created' = (extents' # <<>>) /\ active' \in ToSet(extents') /\ active' \in Extents
        /\ mapped' = ToSet(extents') \union {TheArena}
        /\ ToSet(extents) \subseteq ToSet(extents')
    BY <1>1, ExtentsStep DEF IInv, call
  <2>2. CallOK'
    BY <1>1, <2>1 DEF IInv, CallOK, call
  <2>3. OnePlace' /\ OwedOK' /\ CounterOK' /\ InUse' = InUse
    BY <1>1, <1>4, <2>1 DEF IInv, OnePlace, OwedOK, CounterOK, InUse, call
  <2>4. Memory'
    BY <1>1, <1>4, <2>1, <2>3, SameMemory DEF IInv
  <2> QED BY <2>2, <2>3, <2>4 DEF IInv
<1> QED BY <1>3, <1>4 DEF BuddyGrow

\* Steps in which no memory changes hands: objects move from the program to the
\* stack and from the stack to the drain, calls begin and fail.
LEMMA CreateStep ==
  ASSUME IInv, CreateArena \/ CreateExtent \/ CreateFails PROVE IInv'
<1>1. /\ UNCHANGED <<out, caches, counter, class, retried, owed, pending, taken, held>>
      /\ pc # "drain" /\ pc # "try" /\ pc' # "drain" /\ pc' # "try"
  BY DEF CreateArena, CreateExtent, CreateFails, IInv, CallOK, caches
<1>2. CASE CreateArena
  <2>1. CallOK' /\ CounterOK'
    BY <1>1, <1>2 DEF IInv, CallOK, CounterOK, CreateArena
  <2>2. extents' = extents
    BY <1>2 DEF CreateArena
  <2>3. OnePlace' /\ OwedOK' /\ InUse' = InUse
    BY <1>1 DEF IInv, OnePlace, OwedOK, InUse
  <2>4. Memory'
    BY <1>1, <2>2, <2>3, SameMemory DEF IInv
  <2> QED BY <2>1, <2>3, <2>4 DEF IInv
<1>3. CASE CreateExtent
  <2>1. /\ extents' \in Seq(Extents) /\ IsInjective(extents') /\ extents' # <<>>
        /\ ToSet(extents') = ToSet(extents) \union {NewExtent}
        /\ ToSet(extents') = 1..Len(extents')
        /\ active' \in ToSet(extents') /\ active' \in Extents
    BY <1>3, Expanded DEF IInv, CreateExtent
  <2>2. /\ created' = TRUE /\ pc' = "idle" /\ mapped' = mapped \union {NewExtent}
        /\ pc = "create"
    BY <1>3 DEF CreateExtent, Expand
  <2>3. CallOK' /\ CounterOK'
    BY <1>1, <2>1, <2>2 DEF IInv, CallOK, CounterOK
  <2>4. OnePlace' /\ OwedOK' /\ InUse' = InUse
    BY <1>1 DEF IInv, OnePlace, OwedOK, InUse
  <2>5. Memory'
    BY <1>1, <2>1, <2>4, SameMemory DEF IInv
  <2> QED BY <2>3, <2>4, <2>5 DEF IInv
<1>4. CASE CreateFails
  <2>1. /\ created' = created /\ extents' = extents /\ active' = active /\ pc' = "idle"
        /\ mapped' = mapped \ {TheArena} /\ pc = "create"
    BY <1>4 DEF CreateFails, ArenaUnmapped
  <2>2. TheArena \notin ToSet(extents)
    BY DEF IInv, CallOK, TheArena
  <2>3. CallOK' /\ CounterOK'
    BY <1>1, <2>1, <2>2 DEF IInv, CallOK, CounterOK
  <2>4. OnePlace' /\ OwedOK' /\ InUse' = InUse
    BY <1>1 DEF IInv, OnePlace, OwedOK, InUse
  <2>5. Memory'
    BY <1>1, <2>1, <2>4, SameMemory DEF IInv
  <2> QED BY <2>3, <2>4, <2>5 DEF IInv
<1> QED BY <1>2, <1>3, <1>4

\* arena_remote_free by another thread, at any point of the owner's call.
LEMMA RemoteFreeStep ==
  ASSUME IInv, NEW x \in held, RemoteFree(x) PROVE IInv'
<1>1. /\ held' = held \ {x} /\ pending' = pending \union {x}
      /\ UNCHANGED <<created, pools, caches, call, taken>>
  BY DEF RemoteFree
<1>2. OnePlace' /\ InUse' = InUse
  BY <1>1 DEF IInv, OnePlace, InUse
<1>3. CallOK' /\ OwedOK' /\ CounterOK'
  BY <1>1 DEF IInv, CallOK, OwedOK, CounterOK, pools, call
<1>4. Memory'
  BY <1>1, <1>2, SameMemory DEF IInv, pools
<1> QED BY <1>2, <1>3, <1>4 DEF IInv

\* The counter stays below the interval: it is masked.
LEMMA CounterStep == ASSUME ArenaAssumption, CounterOK PROVE Tick \in 0..(Interval - 1)
<1>1. counter + 1 \in Nat /\ Interval \in Nat \ {0}
  BY DEF ArenaAssumption, CounterOK
<1> QED BY <1>1 DEF Tick

\* Between the parts of arena_alloc: the call with its count, the end of a drain, the
\* retry and the refusal.
LEMMA CallStep ==
  ASSUME IInv, ArenaAssumption,
         (\E c \in Classes : AllocCall(c)) \/ DrainDone \/ AllocRetry \/ AllocRefuse
  PROVE  IInv'
<1>1. UNCHANGED <<created, mapped, extents, active, out, caches, held>>
  BY DEF AllocCall, DrainDone, AllocRetry, AllocRefuse, AllocEnds, pools, caches
<1>2. CASE \E c \in Classes : AllocCall(c)
  <2>1. PICK c \in Classes : AllocCall(c)
    BY <1>2
  <2>2. /\ created /\ pc = "idle" /\ counter' = Tick /\ class' = c /\ owed' = pending
        /\ retried' = retried /\ taken = {} /\ ~retried
        /\ \/ taken' = pending /\ pending' = {} /\ pc' = "drain"
           \/ taken' = taken /\ pending' = pending /\ pc' = "try"
    BY <2>1 DEF AllocCall, TakePending, IInv, CallOK
  <2>3. CallOK'
    BY <1>1, <2>2 DEF IInv, CallOK
  <2>4. OnePlace' /\ InUse' = InUse
    BY <1>1, <2>2 DEF IInv, OnePlace, InUse
  <2>5. OwedOK'
    BY <1>1, <2>2 DEF IInv, OwedOK, OnePlace, Memory, Stores, InUse
  <2>6. CounterOK'
    BY <1>1, <2>2, CounterStep DEF IInv, CounterOK
  <2>7. Memory'
    BY <1>1, <2>4, SameMemory DEF IInv
  <2> QED BY <2>3, <2>4, <2>5, <2>6, <2>7 DEF IInv
<1>3. CASE DrainDone
  <2>1. /\ pc = "drain" /\ taken = {} /\ pc' = "try"
        /\ UNCHANGED <<counter, class, retried, owed, pending, taken>>
    BY <1>3 DEF DrainDone
  <2>2. CallOK' /\ OwedOK' /\ CounterOK' /\ OnePlace' /\ InUse' = InUse
    BY <1>1, <2>1 DEF IInv, CallOK, OwedOK, CounterOK, OnePlace, InUse
  <2>3. Memory'
    BY <1>1, <2>2, SameMemory DEF IInv
  <2> QED BY <2>2, <2>3 DEF IInv
<1>4. CASE AllocRetry
  <2>1. /\ pc = "try" /\ pc' = "drain" /\ retried' = TRUE /\ taken = {}
        /\ taken' = pending /\ pending' = {}
        /\ UNCHANGED <<counter, class, owed>>
    BY <1>4 DEF AllocRetry, TakePending, IInv, CallOK
  <2>2. CallOK' /\ OwedOK' /\ CounterOK' /\ OnePlace' /\ InUse' = InUse
    BY <1>1, <2>1 DEF IInv, CallOK, OwedOK, CounterOK, OnePlace, InUse
  <2>3. Memory'
    BY <1>1, <2>2, SameMemory DEF IInv
  <2> QED BY <2>2, <2>3 DEF IInv
<1>5. CASE AllocRefuse
  <2>1. /\ pc = "try" /\ pc' = "idle" /\ retried' = FALSE /\ owed' = {} /\ class' = NoBlock
        /\ UNCHANGED <<counter, pending, taken>> /\ taken = {}
    BY <1>5 DEF AllocRefuse, AllocEnds, IInv, CallOK
  <2>2. CallOK' /\ OwedOK' /\ CounterOK' /\ OnePlace' /\ InUse' = InUse
    BY <1>1, <2>1 DEF IInv, CallOK, OwedOK, CounterOK, OnePlace, InUse
  <2>3. Memory'
    BY <1>1, <2>2, SameMemory DEF IInv
  <2> QED BY <2>2, <2>3 DEF IInv
<1> QED BY <1>2, <1>3, <1>4, <1>5

\* A refusal of buddy_alloc, and a stutter, change nothing.
LEMMA IdleStep == ASSUME IInv, UNCHANGED vars PROVE IInv'
<1>1. /\ UNCHANGED <<created, extents, active, mapped, out, caches, held, pending, taken>>
      /\ UNCHANGED <<counter, pc, class, retried, owed>>
  BY DEF vars, pools, call
<1>2. CallOK' /\ OwedOK' /\ CounterOK' /\ OnePlace' /\ InUse' = InUse
  BY <1>1 DEF IInv, CallOK, OwedOK, CounterOK, OnePlace, InUse
<1>3. Memory'
  BY <1>1, <1>2, SameMemory DEF IInv
<1> QED BY <1>2, <1>3 DEF IInv

\* Every step keeps the invariant.
LEMMA StepIInv == IInv /\ [Next]_vars => IInv'
<1> SUFFICES ASSUME IInv, [Next]_vars PROVE IInv'
  OBVIOUS
<1> USE ArenaAssumption
<1>1. CASE CreateArena \/ CreateExtent \/ CreateFails
  BY <1>1, CreateStep
<1>2. CASE (\E c \in Classes : AllocCall(c)) \/ DrainDone \/ AllocRetry \/ AllocRefuse
  BY <1>2, CallStep
<1>3. CASE \E x \in taken : DrainOne(x)
  BY <1>3, DrainOneStep
<1>4. CASE AllocSlot
  BY <1>4, AllocSlotStep
<1>5. CASE AllocSlab
  BY <1>5, AllocSlabStep
<1>6. CASE AllocGrow
  BY <1>6, AllocGrowStep
<1>7. CASE BuddyAlloc
  <2>1. PICK t \in 0..NumOrders : BuddyTake(t) \/ BuddyGrow(t) \/ BuddyRefuse(t)
    BY <1>7 DEF BuddyAlloc
  <2>2. CASE BuddyTake(t)
    BY <2>2, BuddyTakeStep
  <2>3. CASE BuddyGrow(t)
    BY <2>3, BuddyGrowStep
  <2>4. CASE UNCHANGED vars
    BY <2>4, IdleStep
  <2> QED BY <2>1, <2>2, <2>3, <2>4 DEF BuddyRefuse
<1>8. CASE \E x \in held : LocalFree(x)
  BY <1>8, LocalFreeStep
<1>9. CASE \E x \in held : RemoteFree(x)
  BY <1>9, RemoteFreeStep
<1>10. CASE UNCHANGED vars
  BY <1>10, IdleStep
<1> QED BY <1>1, <1>2, <1>3, <1>4, <1>5, <1>6, <1>7, <1>8, <1>9, <1>10 DEF Next

\* A thread starts with no arena.
LEMMA InitIInv == Init => IInv
<1> SUFFICES ASSUME Init PROVE IInv
  OBVIOUS
<1>1. /\ mapped = {} /\ created = FALSE /\ extents = <<>> /\ active = 0
      /\ out = [e \in Extents |-> {}] /\ DOMAIN slabs = {} /\ slabs = [q \in {} |-> 0]
      /\ partial = [c \in Classes |-> <<>>] /\ full = [c \in Classes |-> <<>>]
      /\ counter = 0 /\ pc = "idle" /\ retried = FALSE /\ class = NoBlock
      /\ pending = {} /\ taken = {} /\ held = {} /\ owed = {} /\ InUse = {}
  BY DEF Init, InUse
<1>2. /\ <<>> \in Seq(Regions) /\ <<>> \in Seq(Extents)
      /\ IsInjective(<<>>) /\ ToSet(<<>>) = {} /\ 1..Len(<<>>) = {}
  BY DEF IsInjective, ToSet
<1>3. Stores
  BY <1>1, <1>2 DEF Stores
<1>4. SlabLists /\ SlotsExact
  BY <1>1, <1>2 DEF SlabLists, SlotsExact, SlabsOf
<1>5. BlocksExact /\ BlocksApart
  BY <1>1 DEF BlocksExact, BlocksApart, WholeRegions
<1>6. OnePlace /\ CallOK /\ OwedOK
  BY <1>1, <1>2 DEF OnePlace, CallOK, OwedOK
<1>7. CounterOK
  BY <1>1, ArenaAssumption DEF CounterOK, ArenaAssumption
<1> QED BY <1>3, <1>4, <1>5, <1>6, <1>7 DEF IInv, Memory

-----------------------------------------------------------------------------
(* What holds of every arena, whatever its classes, capacities and pools *)

\* The strengthened invariant holds of every state arena.c and slab.c can reach.
THEOREM Invariance == Spec => []IInv
<1>1. Init => IInv
  BY InitIInv
<1>2. IInv /\ [Next]_vars => IInv'
  BY StepIInv
<1> QED BY <1>1, <1>2, PTL DEF Spec

\* Two objects in use share no memory: arena_alloc and arena_alloc_buddy_region
\* never give out bytes that somebody holds, or that wait to be reclaimed.
THEOREM NoSharing == Spec => []ObjectsApart
<1>1. IInv => ObjectsApart
  <2> SUFFICES ASSUME IInv, NEW x \in InUse, NEW y \in InUse, x # y
               PROVE  \/ x.extent # y.extent
                      \/ Disjoint(x.block, y.block)
                      \/ x.type = "slab" /\ y.type = "slab" /\ x.block = y.block
    BY DEF IInv, OnePlace, ObjectsApart
  <2>1. ASSUME NEW z \in InUse
        PROVE  /\ z \in Objects /\ z.extent \in Extents /\ z.block \in out[z.extent]
               /\ z.type \in {"slab", "buddy"}
               /\ z.type = "slab" => RegionOf(z) \in DOMAIN slabs
               /\ z.type = "buddy" => RegionOf(z) \in WholeRegions /\ z = Whole(RegionOf(z))
    <3>1. z \in Objects /\ RegionOf(z) \in Regions /\ z.type \in {"slab", "buddy"}
      BY Names DEF IInv, Memory, Stores, Objects
    <3>2. z.type = "slab" => RegionOf(z) \in DOMAIN slabs
      BY DEF IInv, Memory, SlotsExact
    <3>3. z.type = "buddy" => RegionOf(z) \in WholeRegions /\ z = Whole(RegionOf(z))
      BY <3>1, Names DEF WholeRegions
    <3>4. z.extent \in Extents /\ z.block \in Blocks
          /\ RegionOf(z) = [extent |-> z.extent, block |-> z.block]
      BY <3>1, Names DEF Regions, RegionOf
    <3>5. z.block \in out[z.extent]
      BY <3>1, <3>2, <3>3, <3>4 DEF IInv, Memory, BlocksExact
    <3> QED BY <3>1, <3>2, <3>3, <3>4, <3>5
  <2>2. CASE x.extent = y.extent /\ x.block = y.block
    <3>1. RegionOf(x) = RegionOf(y)
      BY <2>2 DEF RegionOf
    <3> QED BY <2>1, <2>2, <3>1 DEF IInv, Memory, BlocksExact
  <2>3. CASE x.extent = y.extent /\ x.block # y.block
    BY <2>1, <2>3 DEF IInv, Memory, BlocksApart
  <2> QED BY <2>2, <2>3
<1> QED BY <1>1, Invariance, PTL

\* The blocks a pool has out are the slabs and the objects there, each once: none is
\* lost, and no slab or object lies in memory the pool could hand out.
THEOREM BlocksKept == Spec => []BlocksExact
<1>1. IInv => BlocksExact
  BY DEF IInv, Memory
<1> QED BY <1>1, Invariance, PTL

\* Every slot of a slab is on its free list once or in use, never both, and `used'
\* counts those in use; no slab goes back to its pool while a slot is in use.
THEOREM SlotsCounted == Spec => []SlotsExact
<1>1. IInv => SlotsExact
  BY DEF IInv, Memory
<1> QED BY <1>1, Invariance, PTL

\* Every slab is once on the list of its cache that it belongs on.
THEOREM ListsExact == Spec => []SlabLists
<1>1. IInv => SlabLists
  BY DEF IInv, Memory
<1> QED BY <1>1, Invariance, PTL

\* The arena keeps, of what the memory source gave it, its own mapping and the
\* extents on its list, and nothing when its creation failed.
THEOREM SourceRepaid == Spec => []MappingsAccounted
<1>1. IInv => MappingsAccounted
  BY DEF IInv, CallOK, MappingsAccounted
<1> QED BY <1>1, Invariance, PTL

\* Every variable keeps its type: no list holds what is not a region of the arena,
\* and the drain counter stays below its interval.
THEOREM TypeCorrect == Spec => []TypeOK
<1>1. IInv => TypeOK
  <2> SUFFICES ASSUME IInv PROVE TypeOK
    OBVIOUS
  <2>1. extents \in BoundedSeq(Extents, MaxExtents)
    <3>1. /\ extents \in Seq(Extents) /\ ToSet(extents) = 1..Len(extents)
          /\ ToSet(extents) \subseteq 1..MaxExtents /\ MaxExtents \in Nat
      BY ArenaAssumption DEF IInv, CallOK, ToSet, Extents, ArenaAssumption
    <3>2. Len(extents) \in 0..MaxExtents
      <4>1. CASE Len(extents) = 0
        BY <4>1, <3>1
      <4>2. CASE Len(extents) > 0
        <5>1. Len(extents) \in 1..Len(extents)
          BY <4>2, <3>1
        <5> QED BY <5>1, <3>1
      <4> QED BY <4>1, <4>2, <3>1
    <3>3. extents \in [1..Len(extents) -> Extents]
      BY <3>1
    <3> QED BY <3>2, <3>3 DEF BoundedSeq, SeqOf
  <2>2. /\ mapped \subseteq Extents \union {TheArena} /\ created \in BOOLEAN
        /\ pc \in {"idle", "create", "drain", "try"} /\ retried \in BOOLEAN
    BY DEF IInv, CallOK, ToSet
  <2> QED BY <2>1, <2>2 DEF IInv, Memory, Stores, OwedOK, CounterOK, TypeOK
<1> QED BY <1>1, Invariance, PTL

\* No slab of the class has a free slot when its partial list is empty.
LEMMA NoneOpen ==
  ASSUME IInv, class \in Classes, partial[class] = <<>>
  PROVE  \A r \in DOMAIN slabs : slabs[r].owner = class => IsFull(slabs[r])
<1>1. ToSet(<<>>) = {}
  BY DEF ToSet
<1> QED BY <1>1 DEF IInv, Memory, SlabLists, SlabsOf

\* The arena asks its source for an extent only when nothing it has can serve.
THEOREM GrowsLast == Spec => GrowsOnlyWhenFull
<1>1. IInv /\ [Next]_vars =>
        [extents' # extents /\ created =>
           \/ /\ AllocGrow
              /\ \A r \in DOMAIN slabs : slabs[r].owner = class => IsFull(slabs[r])
              /\ \A e \in ToSet(extents) : Room(e, SlabOrder) = {}
           \/ \E t \in 0..NumOrders : BuddyGrow(t) /\ \A e \in ToSet(extents) : Room(e, t) = {}]_vars
  <2> SUFFICES ASSUME IInv, Next, extents' # extents, created
               PROVE \/ /\ AllocGrow
                        /\ \A r \in DOMAIN slabs : slabs[r].owner = class => IsFull(slabs[r])
                        /\ \A e \in ToSet(extents) : Room(e, SlabOrder) = {}
                     \/ \E t \in 0..NumOrders : BuddyGrow(t) /\ \A e \in ToSet(extents) : Room(e, t) = {}
    OBVIOUS
  <2>1. AllocGrow \/ \E t \in 0..NumOrders : BuddyGrow(t)
    <3>1. ~(CreateArena \/ CreateExtent \/ CreateFails)
      BY DEF CreateArena, CreateExtent, CreateFails, IInv, CallOK
    <3>2. ~((\E c \in Classes : AllocCall(c)) \/ DrainDone \/ AllocRetry \/ AllocRefuse)
      BY DEF AllocCall, DrainDone, AllocRetry, AllocRefuse, pools
    <3>3. ~((\E x \in taken : DrainOne(x)) \/ \E x \in held : LocalFree(x) \/ RemoteFree(x))
      BY DEF DrainOne, LocalFree, RemoteFree, pools
    <3>4. ~(AllocSlot \/ AllocSlab)
      BY DEF AllocSlot, AllocSlab, pools
    <3>5. \A t : ~(BuddyTake(t) \/ BuddyRefuse(t))
      BY DEF BuddyTake, BuddyRefuse, vars, pools
    <3> QED BY <3>1, <3>2, <3>3, <3>4, <3>5 DEF Next, BuddyAlloc
  <2>2. CASE AllocGrow
    BY <2>2, NoneOpen, SearchesAll DEF AllocGrow, IInv, CallOK
  <2>3. CASE \E t \in 0..NumOrders : BuddyGrow(t)
    BY <2>3, SearchesAll DEF BuddyGrow, IInv
  <2> QED BY <2>1, <2>2, <2>3
<1> QED BY <1>1, Invariance, PTL DEF Spec, GrowsOnlyWhenFull

\* arena_alloc fails only after all that was pending at its call has been reclaimed,
\* and when nothing the arena has can serve.
THEOREM RefusesLast == Spec => RefusesOnlyWhenFull
<1>1. IInv /\ [Next]_vars =>
        [AllocRefuse => /\ owed \intersect pending = {}
                        /\ \A r \in DOMAIN slabs : slabs[r].owner = class => IsFull(slabs[r])
                        /\ \A e \in ToSet(extents) : Room(e, SlabOrder) = {}]_vars
  <2> SUFFICES ASSUME IInv, AllocRefuse
               PROVE /\ owed \intersect pending = {}
                     /\ \A r \in DOMAIN slabs : slabs[r].owner = class => IsFull(slabs[r])
                     /\ \A e \in ToSet(extents) : Room(e, SlabOrder) = {}
    OBVIOUS
  <2>1. owed \intersect pending = {}
    BY DEF AllocRefuse, Retries, IInv, OwedOK
  <2>2. pc = "try" /\ partial[class] = <<>> /\ NoRoom(SlabOrder) /\ class \in Classes /\ created
    BY DEF AllocRefuse, IInv, CallOK
  <2> QED BY <2>1, <2>2, NoneOpen, SearchesAll DEF IInv
<1> QED BY <1>1, Invariance, PTL DEF Spec, RefusesOnlyWhenFull
-----------------------------------------------------------------------------
(* The collector's walk of the slabs *)

\* One list after another: the elements of both, each once when the lists have no
\* element twice or in common.
LEMMA Concatenated ==
  ASSUME NEW S, NEW s \in Seq(S), NEW t \in Seq(S),
         IsInjective(s), IsInjective(t), ToSet(s) \intersect ToSet(t) = {}
  PROVE  /\ ToSet(s \o t) = ToSet(s) \union ToSet(t)
         /\ \A i, j \in DOMAIN (s \o t) : (s \o t)[i] = (s \o t)[j] => i = j
<1> DEFINE u == s \o t
<1>1. /\ DOMAIN s = 1..Len(s) /\ DOMAIN t = 1..Len(t) /\ DOMAIN u = 1..(Len(s) + Len(t))
      /\ Len(s) \in Nat /\ Len(t) \in Nat
      /\ \A i \in 1..Len(s) : u[i] = s[i]
      /\ \A i \in 1..(Len(s) + Len(t)) : i > Len(s) => u[i] = t[i - Len(s)]
  OBVIOUS
<1> HIDE DEF u
<1>2. \A i \in 1..Len(t) : i + Len(s) \in DOMAIN u /\ u[i + Len(s)] = t[i]
  <2> TAKE i \in 1..Len(t)
  <2>1. /\ i + Len(s) \in 1..(Len(s) + Len(t)) /\ i + Len(s) > Len(s)
        /\ (i + Len(s)) - Len(s) = i
    BY <1>1
  <2> QED BY <2>1, <1>1
<1>3. \A i \in 1..Len(s) : i \in DOMAIN u
  BY <1>1
<1>4. ASSUME NEW i \in DOMAIN u
      PROVE  \/ i \in 1..Len(s) /\ u[i] = s[i] /\ u[i] \in ToSet(s)
             \/ i - Len(s) \in 1..Len(t) /\ u[i] = t[i - Len(s)] /\ u[i] \in ToSet(t)
  <2>1. CASE i <= Len(s)
    BY <1>1, <2>1 DEF ToSet
  <2>2. CASE i > Len(s)
    <3>1. i - Len(s) \in 1..Len(t) /\ u[i] = t[i - Len(s)]
      BY <1>1, <2>2
    <3> QED BY <3>1, <1>1 DEF ToSet
  <2> QED BY <1>1, <2>1, <2>2
<1>5. ToSet(u) = ToSet(s) \union ToSet(t)
  <2>1. ToSet(u) \subseteq ToSet(s) \union ToSet(t)
    BY <1>4 DEF ToSet
  <2>2. ToSet(s) \subseteq ToSet(u)
    BY <1>1, <1>3 DEF ToSet
  <2>3. ToSet(t) \subseteq ToSet(u)
    BY <1>1, <1>2 DEF ToSet
  <2> QED BY <2>1, <2>2, <2>3
<1>6. ASSUME NEW i \in DOMAIN u, NEW j \in DOMAIN u, u[i] = u[j] PROVE i = j
  <2>1. CASE i \in 1..Len(s) /\ u[i] = s[i] /\ u[i] \in ToSet(s)
    <3>1. j \in 1..Len(s) /\ u[j] = s[j]
      BY <2>1, <1>4, <1>6
    <3> QED BY <2>1, <3>1, <1>1, <1>6 DEF IsInjective
  <2>2. CASE i - Len(s) \in 1..Len(t) /\ u[i] = t[i - Len(s)] /\ u[i] \in ToSet(t)
    <3>1. j - Len(s) \in 1..Len(t) /\ u[j] = t[j - Len(s)]
      BY <2>2, <1>4, <1>6
    <3>2. i - Len(s) = j - Len(s)
      BY <2>2, <3>1, <1>1, <1>6 DEF IsInjective
    <3> QED BY <3>2, <1>1
  <2> QED BY <2>1, <2>2, <1>4
<1> QED BY <1>5, <1>6 DEF u

\* Both lists of a cache together are its slabs, each once.
LEMMA VisitsAll ==
  ASSUME IInv, NEW c \in Classes
  PROVE  /\ ToSet(Visited(c)) = SlabsOf(c)
         /\ \A i, j \in DOMAIN Visited(c) : Visited(c)[i] = Visited(c)[j] => i = j
<1>1. /\ partial[c] \in Seq(Regions) /\ full[c] \in Seq(Regions)
      /\ IsInjective(partial[c]) /\ IsInjective(full[c])
      /\ ToSet(partial[c]) = {r \in SlabsOf(c) : ~IsFull(slabs[r])}
      /\ ToSet(full[c]) = {r \in SlabsOf(c) : IsFull(slabs[r])}
  BY DEF IInv, Memory, Stores, SlabLists
<1>2. ToSet(partial[c]) \intersect ToSet(full[c]) = {}
      /\ ToSet(partial[c]) \union ToSet(full[c]) = SlabsOf(c)
  BY <1>1
<1>3. PICK s, t : s = partial[c] /\ t = full[c]
  OBVIOUS
<1>4. /\ ToSet(s \o t) = ToSet(s) \union ToSet(t)
      /\ \A i, j \in DOMAIN (s \o t) : (s \o t)[i] = (s \o t)[j] => i = j
  <2>1. /\ s \in Seq(Regions) /\ t \in Seq(Regions) /\ IsInjective(s) /\ IsInjective(t)
        /\ ToSet(s) \intersect ToSet(t) = {}
    BY <1>1, <1>2, <1>3
  <2> QED BY <2>1, Concatenated
<1>5. Visited(c) = s \o t
  BY <1>3 DEF Visited
<1>6. ToSet(s) \union ToSet(t) = SlabsOf(c)
  BY <1>2, <1>3
<1> QED BY <1>4, <1>5, <1>6

\* A slot that is not on the free list of its slab is in use.
LEMMA BusyInUse ==
  ASSUME IInv, NEW r \in DOMAIN slabs
  PROVE  Busy(r) = SlotsInUse(r)
<1>1. slabs[r].free \in Seq(Nat) /\ ToSet(slabs[r].free) = SlotsOf(r) \ SlotsInUse(r)
  BY DEF IInv, Memory, Stores, Slabs, SlotsExact
<1>2. \A i : Contains(slabs[r].free, i) <=> i \in ToSet(slabs[r].free)
  BY <1>1 DEF Contains, ToSet
<1> QED BY <1>1, <1>2 DEF Busy, SlotsOf, SlotsInUse

\* collect_slab_leaks, between calls, reports each object in a slab that nobody has
\* taken back, once: both lists of a cache are complete and no slab is on them twice.
THEOREM SlabLeaksFound == Spec => []SlabWalkExact
<1>1. IInv => SlabWalkExact
  <2> SUFFICES ASSUME IInv, pc = "idle", NEW c \in Classes
               PROVE /\ \A p, q \in Pushes(c) : SlotReported(c, p) = SlotReported(c, q) => p = q
                     /\ {SlotReported(c, p) : p \in Pushes(c)} =
                          {x \in held \union pending :
                             x.type = "slab" /\ slabs[RegionOf(x)].owner = c}
    BY DEF SlabWalkExact
  <2> DEFINE v == Visited(c)
  <2>1. /\ ToSet(v) = SlabsOf(c) /\ SlabsOf(c) \subseteq DOMAIN slabs
        /\ \A i, j \in DOMAIN v : v[i] = v[j] => i = j
        /\ \A k \in DOMAIN v : v[k] \in SlabsOf(c)
    BY VisitsAll DEF SlabsOf, ToSet
  <2>2. DOMAIN slabs \subseteq Regions
    BY DEF IInv, Memory, Stores
  <2>3. InUse = held \union pending
    BY DEF IInv, CallOK, InUse
  <2>4. Pushes(c) = UNION {{<<k, i>> : i \in SlotsInUse(v[k])} : k \in DOMAIN v}
    BY <2>1, BusyInUse DEF Pushes
  <2>5. \A p \in Pushes(c) : /\ p = <<p[1], p[2]>> /\ p[1] \in DOMAIN v
                             /\ p[2] \in SlotsInUse(v[p[1]])
    BY <2>4
  <2>6. ASSUME NEW p \in Pushes(c), NEW q \in Pushes(c), SlotReported(c, p) = SlotReported(c, q)
        PROVE  p = q
    <3>1. v[p[1]] \in Regions /\ v[q[1]] \in Regions
      BY <2>1, <2>2, <2>5
    <3>2. v[p[1]] = v[q[1]] /\ p[2] = q[2]
      BY <3>1, <2>6 DEF SlotReported, Slot, Regions
    <3> QED BY <3>2, <2>1, <2>5
  <2>7. ASSUME NEW p \in Pushes(c)
        PROVE  SlotReported(c, p) \in {x \in held \union pending :
                                         x.type = "slab" /\ slabs[RegionOf(x)].owner = c}
    <3>1. v[p[1]] \in SlabsOf(c) /\ v[p[1]] \in Regions
      BY <2>1, <2>2, <2>5
    <3>2. SlotReported(c, p) \in InUse
      BY <2>5 DEF SlotReported, SlotsInUse
    <3>3. SlotReported(c, p).type = "slab" /\ RegionOf(SlotReported(c, p)) = v[p[1]]
      BY <3>1 DEF SlotReported, Slot, RegionOf, Regions
    <3> QED BY <3>1, <3>2, <3>3, <2>3 DEF SlabsOf
  <2>8. ASSUME NEW x \in held \union pending, x.type = "slab", slabs[RegionOf(x)].owner = c
        PROVE  x \in {SlotReported(c, p) : p \in Pushes(c)}
    <3> DEFINE r == RegionOf(x)
    <3>1. x \in InUse /\ x \in Objects
      BY <2>3 DEF IInv, Memory, Stores
    <3>2. r \in DOMAIN slabs /\ x.slot \in SlotsOf(r)
      BY <3>1, <2>8 DEF IInv, Memory, SlotsExact
    <3>3. x = Slot(r, x.slot)
      BY <3>1, <2>8 DEF Objects, Slot, RegionOf
    <3>4. x.slot \in SlotsInUse(r)
      BY <3>1, <3>2, <3>3 DEF SlotsInUse
    <3>5. r \in ToSet(v)
      BY <3>2, <2>1, <2>8 DEF SlabsOf
    <3>6. PICK k \in DOMAIN v : v[k] = r
      BY <3>5 DEF ToSet
    <3>7. <<k, x.slot>> \in Pushes(c)
      BY <3>4, <3>6, <2>4
    <3>8. SlotReported(c, <<k, x.slot>>) = x
      BY <3>3, <3>6 DEF SlotReported
    <3> QED BY <3>7, <3>8
  <2> QED BY <2>6, <2>7, <2>8
<1> QED BY <1>1, Invariance, PTL
=============================================================================
