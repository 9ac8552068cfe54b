--------------------------- MODULE LargeListProofs ---------------------------
(***************************************************************************)
(* Proofs about LargeList: for any number of threads and of allocations,   *)
(* beside the collector's two walks, the list of large allocations is      *)
(* exact, nothing is kept or freed twice when a request fails, and the     *)
(* walk under the mutex reports exactly the allocations there are.         *)
(***************************************************************************)
EXTENDS LargeList, FiniteSetTheorems, TLAPS

-----------------------------------------------------------------------------
(* What a step of one thread leaves alone *)

\* The set of what is given, said of each thing.
Given(x) == (\E b \in held : x \in Of(b)) \/ (\E t \in Threads : x \in InHand(t))

\* NothingKept, pointwise: what is mapped or in use is in one place.
LEMMA GivenMeans ==
  NothingKept <=> /\ \A x : x \in mapped \union inUse <=> Given(x)
                  /\ \A b, c \in held : b # c => Of(b) \intersect Of(c) = {}
                  /\ \A t \in Threads, b \in held : InHand(t) \intersect Of(b) = {}
                  /\ \A t, u \in Threads : t # u => InHand(t) \intersect InHand(u) = {}
                  /\ \A b \in held : backingOf[NodeOf(b)] = b
<1> DEFINE H == UNION {Of(b) : b \in held}
           W == UNION {InHand(t) : t \in Threads}
<1>1. \A x : x \in H <=> \E b \in held : x \in Of(b)
  OBVIOUS
<1>2. \A x : x \in W <=> \E t \in Threads : x \in InHand(t)
  OBVIOUS
<1>3. mapped \union inUse = H \union W <=> \A x : x \in mapped \union inUse <=> Given(x)
  <2> HIDE DEF H, W
  <2>1. \A x : x \in H \union W <=> Given(x)
    BY <1>1, <1>2 DEF Given
  <2> QED BY <2>1
<1>4. NothingKept <=>
                    /\ mapped \union inUse = H \union W
                    /\ \A b, c \in held : b # c => Of(b) \intersect Of(c) = {}
                    /\ \A t \in Threads, b \in held : InHand(t) \intersect Of(b) = {}
                    /\ \A t, u \in Threads : t # u => InHand(t) \intersect InHand(u) = {}
                    /\ \A b \in held : backingOf[NodeOf(b)] = b
  BY Zenon DEF NothingKept
<1> HIDE DEF H, W
<1> QED BY <1>3, <1>4

\* The same, of the next state, as the step lemmas use it.
LEMMA KeptNext ==
  ASSUME \A x : x \in mapped' \union inUse' <=> Given(x)',
         \A b, c \in held' : b # c => Of(b)' \intersect Of(c)' = {},
         \A t \in Threads, b \in held' : InHand(t)' \intersect Of(b)' = {},
         \A t, u \in Threads : t # u => InHand(t)' \intersect InHand(u)' = {},
         \A b \in held' : backingOf'[NodeOf(b)'] = b
  PROVE  NothingKept'
<1> DEFINE H == UNION {Of(b)' : b \in held'}
           W == UNION {InHand(t)' : t \in Threads}
<1>1. \A x : x \in H <=> \E b \in held' : x \in Of(b)'
  OBVIOUS
<1>2. \A x : x \in W <=> \E t \in Threads : x \in InHand(t)'
  OBVIOUS
<1>3. mapped' \union inUse' = H \union W
  <2> HIDE DEF H, W
  <2>1. \A x : x \in H \union W <=> Given(x)'
    BY <1>1, <1>2 DEF Given
  <2> QED BY <2>1
<1>4. mapped' \union inUse' = H \union W => NothingKept'
  BY Zenon DEF NothingKept
<1> HIDE DEF H, W
<1> QED BY <1>3, <1>4

\* The three parts of an allocation are three things, which the invariant places.
LEMMA PartsOf ==
  ASSUME IInv, NEW b \in held
  PROVE  /\ b \in Backings /\ metaOf[b] \in Metas /\ NodeOf(b) \in Nodes
         /\ metaOf[b] # NodeOf(b) /\ backingOf[NodeOf(b)] = b
         /\ b \in mapped /\ metaOf[b] \in inUse /\ NodeOf(b) \in inUse
<1>1. /\ b \in Backings /\ metaOf[b] \in Metas /\ NodeOf(b) \in Nodes
      /\ metaOf[b] # NodeOf(b) /\ backingOf[NodeOf(b)] = b
  BY DEF IInv, TypeOK, HeldOK, NothingKept
<1>2. {b, metaOf[b], NodeOf(b)} \subseteq mapped \union inUse
  BY GivenMeans DEF IInv, Given, Of
<1>3. mapped \subseteq Backings /\ inUse \subseteq Nodes \union Metas
  BY DEF IInv, TypeOK
<1> QED BY <1>1, <1>2, <1>3, ApartAssumption

\* What a thread has in hand is given, and is none of the program's allocations.
LEMMA HandFacts ==
  ASSUME IInv, NEW t \in Threads
  PROVE  /\ InHand(t) \subseteq mapped \union inUse /\ Null \notin InHand(t)
         /\ \A b \in held : /\ b \notin InHand(t) /\ metaOf[b] \notin InHand(t)
                            /\ NodeOf(b) \notin InHand(t)
<1>1. InHand(t) \subseteq mapped \union inUse /\ \A b \in held : InHand(t) \intersect Of(b) = {}
  BY GivenMeans DEF IInv, Given
<1> QED BY <1>1 DEF Of, InHand

\* A step of t writes only into what t has in hand.
WritesOwn(t) ==
  /\ \A n \in Nodes : n \notin InHand(t) =>
       nextOf'[n] = nextOf[n] /\ prevOf'[n] = prevOf[n] /\ backingOf'[n] = backingOf[n]
  /\ \A m \in Metas : m \notin InHand(t) => nodeOf'[m] = nodeOf[m]
  /\ \A b \in Backings : b \notin InHand(t) => metaOf'[b] = metaOf[b]

\* ... so that the program's allocations are what they were.
LEMMA SameHeld ==
  ASSUME IInv, NEW t \in Threads, WritesOwn(t), NEW b \in held
  PROVE  /\ metaOf'[b] = metaOf[b] /\ nodeOf'[metaOf[b]] = nodeOf[metaOf[b]]
         /\ nextOf'[NodeOf(b)] = nextOf[NodeOf(b)] /\ prevOf'[NodeOf(b)] = prevOf[NodeOf(b)]
         /\ backingOf'[NodeOf(b)] = b
         /\ NodeOf(b)' = NodeOf(b) /\ Of(b)' = Of(b)
<1>1. /\ b \in Backings /\ metaOf[b] \in Metas /\ NodeOf(b) \in Nodes /\ backingOf[NodeOf(b)] = b
      /\ b \notin InHand(t) /\ metaOf[b] \notin InHand(t) /\ NodeOf(b) \notin InHand(t)
  BY PartsOf, HandFacts
<1>2. /\ metaOf'[b] = metaOf[b] /\ nodeOf'[metaOf[b]] = nodeOf[metaOf[b]]
      /\ nextOf'[NodeOf(b)] = nextOf[NodeOf(b)] /\ prevOf'[NodeOf(b)] = prevOf[NodeOf(b)]
      /\ backingOf'[NodeOf(b)] = b
  BY <1>1 DEF WritesOwn
<1>3. NodeOf(b)' = NodeOf(b)
  BY <1>2 DEF NodeOf
<1> QED BY <1>2, <1>3 DEF Of

\* A thread holds what it held when its own locals stay.
LEMMA OthersSame ==
  ASSUME NEW t \in Threads, NEW u \in Threads, u # t, pc'[u] = pc[u], backing'[u] = backing[u],
         node'[u] = node[u], meta'[u] = meta[u]
  PROVE  InHand(u)' = InHand(u)
  BY DEF InHand, Working

\* The list is the same list as long as its nodes and the walk are.
LEMMA SameWhole ==
  ASSUME IInv, UNCHANGED <<head, held, walker, cursor, reported>>,
         \A b \in held : /\ NodeOf(b)' = NodeOf(b) /\ nextOf'[NodeOf(b)] = nextOf[NodeOf(b)]
                         /\ prevOf'[NodeOf(b)] = prevOf[NodeOf(b)]
                         /\ backingOf'[NodeOf(b)] = backingOf[NodeOf(b)]
  PROVE  ListWhole'
<1> DEFINE k == Cardinality(held)
<1>1. PICK s \in [1..k -> NodesOf(held)] : Whole(s, k)
  BY DEF IInv, ListWhole
<1>2. k' = k /\ NodesOf(held)' = NodesOf(held)
  BY DEF NodesOf
<1> HIDE DEF k
<1>3. \A i \in 1..k : /\ nextOf'[s[i]] = nextOf[s[i]] /\ prevOf'[s[i]] = prevOf[s[i]]
                      /\ backingOf'[s[i]] = backingOf[s[i]]
  BY DEF NodesOf
<1>4. Linked(s, k)'
  BY <1>1, <1>3, <1>2 DEF Whole, Linked
<1>5. WalkAt(s, k)'
  <2>1. CASE walker = "locked"
    <3>1. PICK p \in 1..(k + 1) : /\ cursor = IF p = k + 1 THEN Null ELSE s[p]
                                  /\ reported = {backingOf[s[i]] : i \in 1..(p - 1)}
      BY <1>1, <2>1 DEF Whole, WalkAt
    <3>2. {backingOf'[s[i]] : i \in 1..(p - 1)} = {backingOf[s[i]] : i \in 1..(p - 1)}
      <4>1. k \in Nat
        BY FS_CardinalityType DEF IInv, HeldOK, k
      <4>2. 1..(p - 1) \subseteq 1..k
        BY <4>1
      <4> QED BY <4>2, <1>3
    <3> QED BY <2>1, <3>1, <3>2, <1>2 DEF WalkAt
  <2>2. CASE walker # "locked"
    BY <2>2, <1>1, <1>2 DEF Whole, WalkAt
  <2> QED BY <2>1, <2>2
<1>6. \A b \in held' : \E i \in 1..k : s[i] = NodeOf(b)'
  BY <1>1 DEF Whole
<1>7. Whole(s, k)'
  BY <1>2, <1>4, <1>5, <1>6 DEF Whole
<1> QED BY <1>2, <1>7 DEF ListWhole, k

\* Steps of large_alloc and large_free other than the two under the mutex: t takes
\* new things, or gives back what it has in hand.
LEMMA Worked ==
  ASSUME IInv, NEW t \in Threads, WritesOwn(t),
         UNCHANGED <<head, held, walker, cursor, reported>>,
         \A u \in Threads : u # t => /\ pc'[u] = pc[u] /\ backing'[u] = backing[u]
                                     /\ node'[u] = node[u] /\ meta'[u] = meta[u],
         mapped' \union inUse' = ((mapped \union inUse) \ InHand(t)) \union InHand(t)',
         \A x \in InHand(t)' : x \in InHand(t) \/ x \notin mapped \union inUse
  PROVE  NothingKept' /\ HeldOK' /\ ListWhole'
<1>1. \A b \in held : /\ metaOf'[b] = metaOf[b] /\ NodeOf(b)' = NodeOf(b) /\ Of(b)' = Of(b)
                      /\ nextOf'[NodeOf(b)] = nextOf[NodeOf(b)] /\ prevOf'[NodeOf(b)] = prevOf[NodeOf(b)]
                      /\ backingOf'[NodeOf(b)] = b /\ backingOf[NodeOf(b)] = b
  BY SameHeld, PartsOf
<1>2. \A u \in Threads : u # t => InHand(u)' = InHand(u)
  BY OthersSame
<1>3. ListWhole'
  BY <1>1, SameWhole
<1>4. HeldOK'
  BY <1>1 DEF IInv, HeldOK
<1>5. NothingKept'
  <2>1. /\ \A x : x \in mapped \union inUse <=> Given(x)
        /\ \A b, c \in held : b # c => Of(b) \intersect Of(c) = {}
        /\ \A u \in Threads, b \in held : InHand(u) \intersect Of(b) = {}
        /\ \A u, v \in Threads : u # v => InHand(u) \intersect InHand(v) = {}
    BY GivenMeans DEF IInv
  <2>2. \A b \in held : \A x \in Of(b) : x \in mapped \union inUse /\ x \notin InHand(t)
    BY <2>1 DEF Given
  <2>3. \A x \in InHand(t)' : /\ \A b \in held : x \notin Of(b)
                              /\ \A u \in Threads : u # t => x \notin InHand(u)
    BY <2>1 DEF Given
  <2>4. ASSUME NEW x
        PROVE  x \in mapped' \union inUse' <=> Given(x)'
    <3>1. x \in mapped' \union inUse'
            <=> x \in InHand(t)' \/ (x \in mapped \union inUse /\ x \notin InHand(t))
      OBVIOUS
    <3>2. Given(x)' <=> \/ \E b \in held : x \in Of(b)
                       \/ x \in InHand(t)' \/ \E u \in Threads \ {t} : x \in InHand(u)
      BY <1>1, <1>2 DEF Given
    <3>3. (x \in mapped \union inUse /\ x \notin InHand(t))
            <=> \/ \E b \in held : x \in Of(b)
                \/ x \notin InHand(t) /\ \E u \in Threads \ {t} : x \in InHand(u)
      BY <2>1, <2>2 DEF Given
    <3>4. (\E u \in Threads \ {t} : x \in InHand(u)) => x \notin InHand(t)
      BY <2>1
    <3> QED BY <3>1, <3>2, <3>3, <3>4
  <2>5. \A u \in Threads, b \in held : InHand(u)' \intersect Of(b) = {}
    BY <2>1, <2>3, <1>2
  <2>6. \A u, v \in Threads : u # v => InHand(u)' \intersect InHand(v)' = {}
    BY <2>1, <2>3, <1>2
  <2>7. \A b \in held' : backingOf'[NodeOf(b)'] = b
    BY <1>1
  <2>8. \A b, c \in held' : b # c => Of(b)' \intersect Of(c)' = {}
    BY <1>1, <2>1
  <2>9. \A u \in Threads, b \in held' : InHand(u)' \intersect Of(b)' = {}
    BY <1>1, <2>5
  <2> QED BY <2>4, <2>6, <2>7, <2>8, <2>9, KeptNext
<1> QED BY <1>3, <1>4, <1>5
-----------------------------------------------------------------------------
(* The steps of large_alloc and large_free *)

\* What Worked asks of the other threads, from what every step assigns.
LEMMA Untouched ==
  ASSUME IInv, NEW t \in Threads, NEW at, NEW b, NEW n, NEW m,
         pc' = [pc EXCEPT ![t] = at], backing' = [backing EXCEPT ![t] = b],
         node' = [node EXCEPT ![t] = n], meta' = [meta EXCEPT ![t] = m]
  PROVE  /\ pc'[t] = at /\ backing'[t] = b /\ node'[t] = n /\ meta'[t] = m
         /\ \A u \in Threads : u # t => /\ pc'[u] = pc[u] /\ backing'[u] = backing[u]
                                        /\ node'[u] = node[u] /\ meta'[u] = meta[u]
  BY DEF IInv, TypeOK

\* The part of TypeOK that is about the threads.
LocalsTyped ==
  /\ pc \in [Threads -> {"idle", "arena", "meta", "link", "undo",
                         "freemeta", "freenode", "unmap"}]
  /\ backing \in [Threads -> Backings \union {Null}]
  /\ node \in [Threads -> Nodes \union {Null}] /\ meta \in [Threads -> Metas \union {Null}]
  /\ \A u \in Threads : pc[u] \in {"link", "freemeta"} => Null \notin {node[u], meta[u]}

\* The locals stay typed, and each is there when the code uses it.
LEMMA LocalsNext ==
  ASSUME IInv, NEW t \in Threads,
         NEW at \in {"idle", "arena", "meta", "link", "undo", "freemeta", "freenode", "unmap"},
         NEW b \in Backings \union {Null}, NEW n \in Nodes \union {Null},
         NEW m \in Metas \union {Null},
         pc' = [pc EXCEPT ![t] = at], backing' = [backing EXCEPT ![t] = b],
         node' = [node EXCEPT ![t] = n], meta' = [meta EXCEPT ![t] = m],
         at = "idle" <=> b = Null,
         at \in {"idle", "arena"} => n = Null,
         at \in {"link", "freemeta", "freenode"} => n # Null,
         at \in {"idle", "arena", "meta", "freenode", "unmap"} => m = Null,
         at \in {"link", "freemeta"} => m # Null,
         n # Null => n # m
  PROVE  LocalsTyped' /\ LocalsOK'
<1>1. /\ pc'[t] = at /\ backing'[t] = b /\ node'[t] = n /\ meta'[t] = m
      /\ \A u \in Threads : u # t => /\ pc'[u] = pc[u] /\ backing'[u] = backing[u]
                                     /\ node'[u] = node[u] /\ meta'[u] = meta[u]
  BY Untouched
<1>2. LocalsOK'
  BY <1>1 DEF IInv, LocalsOK
<1> QED BY <1>1, <1>2 DEF IInv, TypeOK, LocalsOK, LocalsTyped

\* What is in hand, where Null is not a thing.
LEMMA HandAt ==
  ASSUME NEW t
  PROVE  /\ pc[t] = "idle" => InHand(t) = {}
         /\ pc[t] \in {"arena", "unmap"} => InHand(t) = {backing[t]} \ {Null}
         /\ pc[t] \in {"meta", "freenode"} => InHand(t) = {backing[t], node[t]} \ {Null}
         /\ pc[t] \in {"link", "undo", "freemeta"} =>
              InHand(t) = {backing[t], node[t], meta[t]} \ {Null}
  BY DEF InHand, Working

\* What a thread holds at each point of the next state.
LEMMA HandNext ==
  ASSUME NEW t
  PROVE  /\ pc'[t] = "idle" => InHand(t)' = {}
         /\ pc'[t] \in {"arena", "unmap"} => InHand(t)' = {backing'[t]} \ {Null}
         /\ pc'[t] \in {"meta", "freenode"} => InHand(t)' = {backing'[t], node'[t]} \ {Null}
         /\ pc'[t] \in {"link", "undo", "freemeta"} =>
              InHand(t)' = {backing'[t], node'[t], meta'[t]} \ {Null}
  BY DEF InHand, Working

\* The new backing is in the thread's hands alone.
LEMMA MapBackingStep ==
  ASSUME IInv, NEW t \in Threads, MapBacking(t)
  PROVE  IInv'
<1>1. PICK b \in Backings \ mapped : mapped' = mapped \union {b} /\ backing' = [backing EXCEPT ![t] = b]
  BY DEF MapBacking
<1>2. /\ pc[t] = "idle" /\ pc' = [pc EXCEPT ![t] = "arena"]
      /\ UNCHANGED <<head, nextOf, prevOf, backingOf, nodeOf, metaOf, inUse, held, node, meta>>
      /\ UNCHANGED <<walker, cursor, reported>>
  BY DEF MapBacking, Step, Goto, list, links, walk
<1>3. /\ backing[t] = Null /\ node[t] = Null /\ meta[t] = Null
      /\ node' = [node EXCEPT ![t] = Null] /\ meta' = [meta EXCEPT ![t] = Null]
  BY <1>2 DEF IInv, LocalsOK, TypeOK
<1>4. b # Null /\ b \notin mapped \union inUse
  BY NullAssumption, ApartAssumption DEF IInv, TypeOK
<1>5. InHand(t) = {} /\ InHand(t)' = {b}
  <2>1. pc'[t] = "arena" /\ backing'[t] = b
    BY <1>1, <1>2 DEF IInv, TypeOK
  <2> QED BY <1>2, <1>4, <2>1, HandAt, HandNext
<1>6. NothingKept' /\ HeldOK' /\ ListWhole'
  <2>1. \A u \in Threads : u # t => /\ pc'[u] = pc[u] /\ backing'[u] = backing[u]
                                    /\ node'[u] = node[u] /\ meta'[u] = meta[u]
    BY <1>1, <1>2
  <2>2. WritesOwn(t)
    BY <1>2 DEF WritesOwn
  <2>3. mapped' \union inUse' = ((mapped \union inUse) \ InHand(t)) \union InHand(t)'
    BY <1>1, <1>2, <1>5
  <2> QED BY <2>1, <2>2, <2>3, <1>2, <1>4, <1>5, Worked
<1>7. TypeOK' /\ LocalsOK'
  BY <1>1, <1>2, <1>3, <1>4, LocalsNext DEF IInv, TypeOK, LocalsTyped
<1> QED BY <1>6, <1>7 DEF IInv
\* The backing goes back to the source.
LEMMA NoArenaStep ==
  ASSUME IInv, NEW t \in Threads, NoArena(t)
  PROVE  IInv'
<1>1. /\ pc[t] = "arena" /\ pc' = [pc EXCEPT ![t] = "idle"] /\ mapped' = mapped \ {backing[t]}
      /\ backing' = [backing EXCEPT ![t] = Null] /\ node' = [node EXCEPT ![t] = Null]
      /\ meta' = [meta EXCEPT ![t] = Null]
      /\ UNCHANGED <<head, nextOf, prevOf, backingOf, nodeOf, metaOf, inUse, held>>
      /\ UNCHANGED <<walker, cursor, reported>>
  BY DEF NoArena, Done, Goto, list, links, walk
<1>2. backing[t] \in Backings /\ backing[t] # Null /\ backing[t] \notin inUse
  BY <1>1, NullAssumption, ApartAssumption DEF IInv, LocalsOK, TypeOK
<1>3. /\ pc'[t] = "idle"
      /\ \A u \in Threads : u # t => /\ pc'[u] = pc[u] /\ backing'[u] = backing[u]
                                     /\ node'[u] = node[u] /\ meta'[u] = meta[u]
  BY <1>1 DEF IInv, TypeOK
<1>4. InHand(t) = {backing[t]} /\ InHand(t)' = {}
  BY <1>1, <1>2, <1>3, HandAt, HandNext
<1>5. NothingKept' /\ HeldOK' /\ ListWhole'
  <2>1. WritesOwn(t)
    BY <1>1 DEF WritesOwn
  <2>2. mapped' \union inUse' = ((mapped \union inUse) \ InHand(t)) \union InHand(t)'
    BY <1>1, <1>2, <1>4
  <2> QED BY <2>1, <2>2, <1>1, <1>3, <1>4, Worked
<1>6. TypeOK' /\ LocalsOK'
  <2>1. held' \subseteq mapped'
    <3>1. backing[t] \notin held
      BY <1>4, HandFacts
    <3> QED BY <3>1, <1>1 DEF IInv, TypeOK
  <2> QED BY <2>1, <1>1, NullAssumption, LocalsNext DEF IInv, TypeOK, LocalsTyped
<1> QED BY <1>5, <1>6 DEF IInv

\* The node, if the arena gives one, joins the backing in the thread's hands.
LEMMA AllocNodeStep ==
  ASSUME IInv, NEW t \in Threads, AllocNode(t)
  PROVE  IInv'
<1>1. /\ pc[t] = "arena" /\ pc' = [pc EXCEPT ![t] = "meta"]
      /\ UNCHANGED <<head, nextOf, prevOf, backingOf, nodeOf, metaOf, mapped, held, backing, meta>>
      /\ UNCHANGED <<walker, cursor, reported>>
  BY DEF AllocNode, Step, Goto, list, links, walk
<1>2. /\ node[t] = Null /\ meta[t] = Null /\ backing[t] # Null /\ backing[t] \in Backings
      /\ backing' = [backing EXCEPT ![t] = backing[t]] /\ meta' = [meta EXCEPT ![t] = Null]
  BY <1>1 DEF IInv, LocalsOK, TypeOK
<1>3. PICK n \in (Nodes \ inUse) \union {Null} :
        /\ node' = [node EXCEPT ![t] = n]
        /\ inUse' = inUse \union ({n} \ {Null})
  <2>1. CASE UNCHANGED <<inUse, node>>
    <3>1. node' = [node EXCEPT ![t] = Null] /\ inUse' = inUse \union ({Null} \ {Null})
      BY <2>1, <1>2 DEF IInv, TypeOK
    <3> QED BY <3>1
  <2>2. CASE \E n \in Nodes \ inUse : inUse' = inUse \union {n} /\ node' = [node EXCEPT ![t] = n]
    <3>1. PICK n \in Nodes \ inUse : inUse' = inUse \union {n} /\ node' = [node EXCEPT ![t] = n]
      BY <2>2
    <3>2. {n} \ {Null} = {n}
      BY NullAssumption
    <3> QED BY <3>1, <3>2
  <2> QED BY <2>1, <2>2 DEF AllocNode
<1>4. /\ pc'[t] = "meta" /\ node'[t] = n /\ backing'[t] = backing[t]
      /\ \A u \in Threads : u # t => /\ pc'[u] = pc[u] /\ backing'[u] = backing[u]
                                     /\ node'[u] = node[u] /\ meta'[u] = meta[u]
  BY <1>1, <1>3 DEF IInv, TypeOK
<1>5. InHand(t) = {backing[t]} /\ InHand(t)' = {backing[t], n} \ {Null}
  BY <1>1, <1>2, <1>4, HandAt, HandNext
<1>6. n # Null => n \notin mapped \union inUse
  BY ApartAssumption DEF IInv, TypeOK
<1>7. NothingKept' /\ HeldOK' /\ ListWhole'
  <2>1. WritesOwn(t)
    BY <1>1 DEF WritesOwn
  <2>2. mapped' \union inUse' = ((mapped \union inUse) \ InHand(t)) \union InHand(t)'
    <3>1. backing[t] \in mapped \union inUse
      BY <1>5, HandFacts
    <3> QED BY <3>1, <1>1, <1>2, <1>3, <1>5
  <2> QED BY <2>1, <2>2, <1>1, <1>4, <1>5, <1>6, Worked
<1>8. TypeOK' /\ LocalsOK'
  <2>1. inUse' \subseteq Nodes \union Metas
    BY <1>3 DEF IInv, TypeOK
  <2>2. n \in Nodes \union {Null}
    OBVIOUS
  <2>3. LocalsTyped' /\ LocalsOK'
    BY <2>2, <1>1, <1>2, <1>3, LocalsNext
  <2> QED BY <2>1, <2>3, <1>1 DEF IInv, TypeOK, LocalsTyped
<1> QED BY <1>7, <1>8 DEF IInv

\* The metadata object likewise; without both, everything is undone.
LEMMA AllocMetaStep ==
  ASSUME IInv, NEW t \in Threads, AllocMeta(t)
  PROVE  IInv'
<1>1. /\ pc[t] = "meta" /\ pc' = [pc EXCEPT ![t] = IF BothGiven(node[t], meta'[t]) THEN "link" ELSE "undo"]
      /\ UNCHANGED <<head, nextOf, prevOf, backingOf, nodeOf, metaOf, mapped, held, backing, node>>
      /\ UNCHANGED <<walker, cursor, reported>>
  BY DEF AllocMeta, Goto, list, links, walk
<1>2. /\ meta[t] = Null /\ backing[t] # Null /\ backing[t] \in Backings
      /\ node[t] \in Nodes \union {Null}
      /\ backing' = [backing EXCEPT ![t] = backing[t]] /\ node' = [node EXCEPT ![t] = node[t]]
  BY <1>1 DEF IInv, LocalsOK, TypeOK
<1>3. PICK m \in (Metas \ inUse) \union {Null} :
        /\ meta' = [meta EXCEPT ![t] = m]
        /\ inUse' = inUse \union ({m} \ {Null})
  <2>1. CASE UNCHANGED <<inUse, meta>>
    <3>1. meta' = [meta EXCEPT ![t] = Null] /\ inUse' = inUse \union ({Null} \ {Null})
      BY <2>1, <1>2 DEF IInv, TypeOK
    <3> QED BY <3>1
  <2>2. CASE \E m \in Metas \ inUse : inUse' = inUse \union {m} /\ meta' = [meta EXCEPT ![t] = m]
    <3>1. PICK m \in Metas \ inUse : inUse' = inUse \union {m} /\ meta' = [meta EXCEPT ![t] = m]
      BY <2>2
    <3>2. {m} \ {Null} = {m}
      BY NullAssumption
    <3> QED BY <3>1, <3>2
  <2> QED BY <2>1, <2>2 DEF AllocMeta
<1>4. meta'[t] = m /\ node'[t] = node[t] /\ backing'[t] = backing[t]
  BY <1>1, <1>3 DEF IInv, TypeOK
<1>5. PICK at \in {"link", "undo"} : /\ pc' = [pc EXCEPT ![t] = at]
                                     /\ at = "link" => node[t] # Null /\ m # Null
  BY <1>1, <1>4 DEF BothGiven
<1>6. /\ pc'[t] = at
      /\ \A u \in Threads : u # t => /\ pc'[u] = pc[u] /\ backing'[u] = backing[u]
                                     /\ node'[u] = node[u] /\ meta'[u] = meta[u]
  BY <1>1, <1>3, <1>5 DEF IInv, TypeOK
<1>7. InHand(t) = {backing[t], node[t]} \ {Null} /\ InHand(t)' = {backing[t], node[t], m} \ {Null}
  BY <1>1, <1>4, <1>5, <1>6, HandAt, HandNext
<1>8. /\ m # Null => m \notin mapped \union inUse
      /\ node[t] # Null => node[t] \in inUse /\ node[t] # m
  <2>1. {backing[t], node[t]} \ {Null} \subseteq mapped \union inUse
    BY <1>7, HandFacts
  <2>2. mapped \subseteq Backings /\ m \in Metas \union {Null} /\ (m # Null => m \notin inUse)
    BY DEF IInv, TypeOK
  <2> QED BY <2>1, <2>2, <1>2, ApartAssumption
<1>9. NothingKept' /\ HeldOK' /\ ListWhole'
  <2>1. WritesOwn(t)
    BY <1>1 DEF WritesOwn
  <2>2. mapped' \union inUse' = ((mapped \union inUse) \ InHand(t)) \union InHand(t)'
    <3>1. {backing[t], node[t]} \ {Null} \subseteq mapped \union inUse
      BY <1>7, HandFacts
    <3> QED BY <3>1, <1>1, <1>2, <1>3, <1>7
  <2> QED BY <2>1, <2>2, <1>1, <1>6, <1>7, <1>8, Worked
<1>10. TypeOK' /\ LocalsOK'
  <2>1. inUse' \subseteq Nodes \union Metas
    BY <1>3 DEF IInv, TypeOK
  <2>2. m \in Metas \union {Null} /\ backing[t] \in Backings \union {Null}
    BY <1>2
  <2>3. LocalsTyped' /\ LocalsOK'
    BY <2>2, <1>2, <1>3, <1>5, <1>8, LocalsNext
  <2> QED BY <2>1, <2>3, <1>1 DEF IInv, TypeOK, LocalsTyped
<1> QED BY <1>9, <1>10 DEF IInv

\* What was given is given back, and nothing else.
LEMMA UndoStep ==
  ASSUME IInv, NEW t \in Threads, Undo(t)
  PROVE  IInv'
<1>1. /\ pc[t] = "undo" /\ pc' = [pc EXCEPT ![t] = "idle"]
      /\ inUse' = inUse \ {node[t], meta[t]} /\ mapped' = mapped \ {backing[t]}
      /\ backing' = [backing EXCEPT ![t] = Null] /\ node' = [node EXCEPT ![t] = Null]
      /\ meta' = [meta EXCEPT ![t] = Null]
      /\ UNCHANGED <<head, nextOf, prevOf, backingOf, nodeOf, metaOf, held>>
      /\ UNCHANGED <<walker, cursor, reported>>
  BY DEF Undo, GivenSoFar, Done, Goto, list, links, walk
<1>2. /\ backing[t] \in Backings /\ node[t] \in Nodes \union {Null} /\ meta[t] \in Metas \union {Null}
      /\ mapped \subseteq Backings /\ inUse \subseteq Nodes \union Metas
  BY <1>1 DEF IInv, LocalsOK, TypeOK
<1>3. /\ pc'[t] = "idle"
      /\ \A u \in Threads : u # t => /\ pc'[u] = pc[u] /\ backing'[u] = backing[u]
                                     /\ node'[u] = node[u] /\ meta'[u] = meta[u]
  BY <1>1 DEF IInv, TypeOK
<1>4. InHand(t) = {backing[t], node[t], meta[t]} \ {Null} /\ InHand(t)' = {}
  BY <1>1, <1>3, HandAt, HandNext
<1>5. NothingKept' /\ HeldOK' /\ ListWhole'
  <2>1. WritesOwn(t)
    BY <1>1 DEF WritesOwn
  <2>2. mapped' \union inUse' = ((mapped \union inUse) \ InHand(t)) \union InHand(t)'
    BY <1>1, <1>2, <1>4, NullAssumption, ApartAssumption
  <2> QED BY <2>1, <2>2, <1>1, <1>3, <1>4, Worked
<1>6. TypeOK' /\ LocalsOK'
  <2>1. held' \subseteq mapped' /\ mapped' \subseteq Backings /\ inUse' \subseteq Nodes \union Metas
    <3>1. backing[t] \notin held
      BY <1>2, <1>4, NullAssumption, HandFacts
    <3> QED BY <3>1, <1>1 DEF IInv, TypeOK
  <2> QED BY <2>1, <1>1, NullAssumption, LocalsNext DEF IInv, TypeOK, LocalsTyped
<1> QED BY <1>5, <1>6 DEF IInv
\* The metadata object is freed first ...
LEMMA FreeMetaStep ==
  ASSUME IInv, NEW t \in Threads, FreeMeta(t)
  PROVE  IInv'
<1>1. /\ pc[t] = "freemeta" /\ pc' = [pc EXCEPT ![t] = "freenode"] /\ inUse' = inUse \ {meta[t]}
      /\ nodeOf' = [nodeOf EXCEPT ![meta[t]] = Null] /\ meta' = [meta EXCEPT ![t] = Null]
      /\ UNCHANGED <<head, nextOf, prevOf, backingOf, metaOf, mapped, held, backing, node>>
      /\ UNCHANGED <<walker, cursor, reported>>
  BY DEF FreeMeta, Step, Goto, list, walk
<1>2. /\ backing[t] \in Backings /\ node[t] \in Nodes /\ meta[t] \in Metas /\ node[t] # meta[t]
      /\ mapped \subseteq Backings /\ inUse \subseteq Nodes \union Metas
      /\ backing' = [backing EXCEPT ![t] = backing[t]] /\ node' = [node EXCEPT ![t] = node[t]]
      /\ Null \notin {backing[t], node[t], meta[t]}
  BY <1>1, NullAssumption DEF IInv, LocalsOK, TypeOK
<1>3. /\ pc'[t] = "freenode" /\ backing'[t] = backing[t] /\ node'[t] = node[t]
      /\ \A u \in Threads : u # t => /\ pc'[u] = pc[u] /\ backing'[u] = backing[u]
                                     /\ node'[u] = node[u] /\ meta'[u] = meta[u]
  BY <1>1 DEF IInv, TypeOK
<1>4. InHand(t) = {backing[t], node[t], meta[t]} /\ InHand(t)' = {backing[t], node[t]}
  BY <1>1, <1>2, <1>3, HandAt, HandNext
<1>5. NothingKept' /\ HeldOK' /\ ListWhole'
  <2>1. WritesOwn(t)
    BY <1>1, <1>4 DEF WritesOwn, IInv, TypeOK
  <2>2. mapped' \union inUse' = ((mapped \union inUse) \ InHand(t)) \union InHand(t)'
    <3>1. {backing[t], node[t], meta[t]} \subseteq mapped \union inUse
      BY <1>4, HandFacts
    <3> QED BY <3>1, <1>1, <1>2, <1>4, ApartAssumption
  <2> QED BY <2>1, <2>2, <1>1, <1>3, <1>4, Worked
<1>6. TypeOK' /\ LocalsOK'
  <2>1. inUse' \subseteq Nodes \union Metas /\ nodeOf' \in [Metas -> Nodes \union {Null}]
    BY <1>1 DEF IInv, TypeOK
  <2>2. node[t] \in Nodes \union {Null} /\ backing[t] \in Backings \union {Null}
    BY <1>2
  <2>3. LocalsTyped' /\ LocalsOK'
    BY <2>2, <1>1, <1>2, LocalsNext
  <2> QED BY <2>1, <2>3, <1>1 DEF IInv, TypeOK, LocalsTyped
<1> QED BY <1>5, <1>6 DEF IInv

\* ... then the node, whose words are gone ...
LEMMA FreeNodeStep ==
  ASSUME IInv, NEW t \in Threads, FreeNode(t)
  PROVE  IInv'
<1>1. /\ pc[t] = "freenode" /\ pc' = [pc EXCEPT ![t] = "unmap"] /\ inUse' = inUse \ {node[t]}
      /\ nextOf' = [nextOf EXCEPT ![node[t]] = Null] /\ prevOf' = [prevOf EXCEPT ![node[t]] = Null]
      /\ backingOf' = [backingOf EXCEPT ![node[t]] = Null]
      /\ UNCHANGED <<head, nodeOf, metaOf, mapped, held, backing, node, meta>>
      /\ UNCHANGED <<walker, cursor, reported>>
  BY DEF FreeNode, Step, Goto, locals, walk
<1>2. /\ backing[t] \in Backings /\ node[t] \in Nodes /\ meta[t] = Null
      /\ mapped \subseteq Backings /\ inUse \subseteq Nodes \union Metas
      /\ backing' = [backing EXCEPT ![t] = backing[t]] /\ node' = [node EXCEPT ![t] = node[t]]
      /\ meta' = [meta EXCEPT ![t] = Null]
      /\ Null \notin {backing[t], node[t]}
  BY <1>1, NullAssumption DEF IInv, LocalsOK, TypeOK
<1>3. /\ pc'[t] = "unmap"
      /\ \A u \in Threads : u # t => pc'[u] = pc[u]
  BY <1>1 DEF IInv, TypeOK
<1>4. InHand(t) = {backing[t], node[t]} /\ InHand(t)' = {backing[t]}
  BY <1>1, <1>2, <1>3, HandAt, HandNext
<1>5. NothingKept' /\ HeldOK' /\ ListWhole'
  <2>1. WritesOwn(t)
    BY <1>1, <1>4 DEF WritesOwn, IInv, TypeOK
  <2>2. mapped' \union inUse' = ((mapped \union inUse) \ InHand(t)) \union InHand(t)'
    <3>1. {backing[t], node[t]} \subseteq mapped \union inUse
      BY <1>4, HandFacts
    <3> QED BY <3>1, <1>1, <1>2, <1>4, ApartAssumption
  <2> QED BY <2>1, <2>2, <1>1, <1>3, <1>4, Worked
<1>6. TypeOK' /\ LocalsOK'
  <2>1. /\ inUse' \subseteq Nodes \union Metas /\ {nextOf', prevOf'} \subseteq [Nodes -> Nodes \union {Null}]
        /\ backingOf' \in [Nodes -> Backings \union {Null}]
    BY <1>1 DEF IInv, TypeOK
  <2>2. node[t] \in Nodes \union {Null} /\ backing[t] \in Backings \union {Null}
    BY <1>2
  <2>3. LocalsTyped' /\ LocalsOK'
    <3>1. pc' = [pc EXCEPT ![t] = "unmap"]
      BY <1>1
    <3>2. Null \in Metas \union {Null} /\ node[t] # Null /\ backing[t] # Null
      BY <1>2
    <3> QED BY <3>1, <3>2, <2>2, <1>2, LocalsNext
  <2> QED BY <2>1, <2>3, <1>1 DEF IInv, TypeOK, LocalsTyped
<1> QED BY <1>5, <1>6 DEF IInv

\* ... and the backing that was read before them goes back to the source.
LEMMA UnmapStep ==
  ASSUME IInv, NEW t \in Threads, Unmap(t)
  PROVE  IInv'
<1>1. /\ pc[t] = "unmap" /\ pc' = [pc EXCEPT ![t] = "idle"] /\ mapped' = mapped \ {backing[t]}
      /\ metaOf' = [metaOf EXCEPT ![backing[t]] = Null]
      /\ backing' = [backing EXCEPT ![t] = Null] /\ node' = [node EXCEPT ![t] = Null]
      /\ meta' = [meta EXCEPT ![t] = Null]
      /\ UNCHANGED <<head, nextOf, prevOf, backingOf, nodeOf, inUse, held>>
      /\ UNCHANGED <<walker, cursor, reported>>
  BY DEF Unmap, SavedBacking, Done, Goto, list, walk
<1>2. backing[t] \in Backings /\ backing[t] # Null /\ backing[t] \notin inUse
  BY <1>1, NullAssumption, ApartAssumption DEF IInv, LocalsOK, TypeOK
<1>3. /\ pc'[t] = "idle"
      /\ \A u \in Threads : u # t => /\ pc'[u] = pc[u] /\ backing'[u] = backing[u]
                                     /\ node'[u] = node[u] /\ meta'[u] = meta[u]
  BY <1>1 DEF IInv, TypeOK
<1>4. InHand(t) = {backing[t]} /\ InHand(t)' = {}
  BY <1>1, <1>2, <1>3, HandAt, HandNext
<1>5. NothingKept' /\ HeldOK' /\ ListWhole'
  <2>1. WritesOwn(t)
    BY <1>1, <1>4 DEF WritesOwn, IInv, TypeOK
  <2>2. mapped' \union inUse' = ((mapped \union inUse) \ InHand(t)) \union InHand(t)'
    BY <1>1, <1>2, <1>4
  <2> QED BY <2>1, <2>2, <1>1, <1>3, <1>4, Worked
<1>6. TypeOK' /\ LocalsOK'
  <2>1. held' \subseteq mapped' /\ mapped' \subseteq Backings /\ metaOf' \in [Backings -> Metas \union {Null}]
    <3>1. backing[t] \notin held
      BY <1>4, HandFacts
    <3> QED BY <3>1, <1>1 DEF IInv, TypeOK
  <2> QED BY <2>1, <1>1, NullAssumption, LocalsNext DEF IInv, TypeOK, LocalsTyped
<1> QED BY <1>5, <1>6 DEF IInv
\* The list as an order of nodes, with the size of the set of allocations.
LEMMA Order ==
  ASSUME IInv
  PROVE  \E k \in Nat : \E s \in [1..k -> NodesOf(held)] :
           /\ k = Cardinality(held) /\ Whole(s, k)
           /\ \A i, j \in 1..k : s[i] = s[j] => i = j
           /\ \A i \in 1..k : s[i] \in Nodes /\ s[i] # Null
<1> DEFINE c == Cardinality(held)
<1>1. PICK s \in [1..c -> NodesOf(held)] : Whole(s, c)
  BY DEF IInv, ListWhole
<1>2. c \in Nat
  BY FS_CardinalityType DEF IInv, HeldOK
<1> HIDE DEF c
<1>3. \A i, j \in 1..c : s[i] = s[j] => i = j
  BY <1>1 DEF Whole, Linked, IsInjective
<1>4. \A i \in 1..c : s[i] \in Nodes /\ s[i] # Null
  BY NullAssumption, PartsOf DEF NodesOf
<1> QED BY <1>1, <1>2, <1>3, <1>4 DEF c

\* The node becomes the first of the list.
LEMMA LinkStep ==
  ASSUME IInv, NEW t \in Threads, Link(t)
  PROVE  IInv'
<1>0. PICK b, n, m : b = backing[t] /\ n = node[t] /\ m = meta[t]
  OBVIOUS
<1>1. /\ pc[t] = "link" /\ pc' = [pc EXCEPT ![t] = "idle"] /\ walker # "locked"
      /\ backingOf' = [backingOf EXCEPT ![n] = b] /\ nodeOf' = [nodeOf EXCEPT ![m] = n]
      /\ metaOf' = [metaOf EXCEPT ![b] = m] /\ nextOf' = [nextOf EXCEPT ![n] = head]
      /\ prevOf' = [x \in Nodes |-> IF x = n THEN Null ELSE IF x = head THEN n ELSE prevOf[x]]
      /\ head' = n /\ held' = held \union {b}
      /\ backing' = [backing EXCEPT ![t] = Null] /\ node' = [node EXCEPT ![t] = Null]
      /\ meta' = [meta EXCEPT ![t] = Null]
      /\ UNCHANGED <<mapped, inUse, walker, cursor, reported>>
  BY <1>0 DEF Link, MutexFree, Done, Goto, walk
<1>2. /\ b \in Backings /\ n \in Nodes /\ m \in Metas /\ n # m
      /\ Null \notin {b, n, m} /\ head \in Nodes \union {Null}
      /\ mapped \subseteq Backings /\ inUse \subseteq Nodes \union Metas
      /\ {nextOf, prevOf} \subseteq [Nodes -> Nodes \union {Null}]
      /\ backingOf \in [Nodes -> Backings \union {Null}] /\ nodeOf \in [Metas -> Nodes \union {Null}]
      /\ metaOf \in [Backings -> Metas \union {Null}]
  BY <1>0, <1>1, NullAssumption DEF IInv, LocalsOK, TypeOK
<1>3. /\ pc'[t] = "idle"
      /\ \A u \in Threads : u # t => /\ pc'[u] = pc[u] /\ backing'[u] = backing[u]
                                     /\ node'[u] = node[u] /\ meta'[u] = meta[u]
  BY <1>1 DEF IInv, TypeOK
<1>4. InHand(t) = {b, n, m} /\ InHand(t)' = {}
  BY <1>0, <1>1, <1>2, <1>3, HandAt, HandNext
<1>5. /\ b \in mapped /\ b \notin held
      /\ \A c \in held : c # b /\ metaOf[c] # m /\ NodeOf(c) # n
  BY <1>2, <1>4, HandFacts, ApartAssumption
<1>6. ASSUME NEW c \in held
      PROVE  /\ metaOf'[c] = metaOf[c] /\ NodeOf(c)' = NodeOf(c) /\ Of(c)' = Of(c)
             /\ backingOf'[NodeOf(c)] = c
  <2>1. /\ c \in Backings /\ metaOf[c] \in Metas /\ NodeOf(c) \in Nodes /\ backingOf[NodeOf(c)] = c
    BY PartsOf
  <2>2. metaOf'[c] = metaOf[c]
    BY <1>1, <1>2, <1>5, <2>1
  <2>3. NodeOf(c)' = NodeOf(c)
    BY <1>1, <1>2, <1>5, <2>1, <2>2 DEF NodeOf
  <2>4. backingOf'[NodeOf(c)] = c
    BY <1>1, <1>2, <1>5, <2>1
  <2> QED BY <2>2, <2>3, <2>4 DEF Of
<1>7. metaOf'[b] = m /\ NodeOf(b)' = n /\ Of(b)' = {b, n, m} /\ backingOf'[n] = b
  BY <1>1, <1>2 DEF NodeOf, Of
<1>8. NothingKept'
  <2>1. /\ \A x : x \in mapped \union inUse <=> Given(x)
        /\ \A c, d \in held : c # d => Of(c) \intersect Of(d) = {}
        /\ \A u \in Threads, c \in held : InHand(u) \intersect Of(c) = {}
        /\ \A u, v \in Threads : u # v => InHand(u) \intersect InHand(v) = {}
    BY GivenMeans DEF IInv
  <2>2. \A u \in Threads : u # t => InHand(u)' = InHand(u)
    BY <1>3, OthersSame
  <2>3. ASSUME NEW x
        PROVE  x \in mapped' \union inUse' <=> Given(x)'
    <3>1. Given(x)' <=> (\E c \in held : x \in Of(c)) \/ x \in {b, n, m}
                        \/ \E u \in Threads \ {t} : x \in InHand(u)
      BY <1>1, <1>4, <1>6, <1>7, <2>2 DEF Given
    <3>2. Given(x) <=> (\E c \in held : x \in Of(c)) \/ x \in {b, n, m}
                       \/ \E u \in Threads \ {t} : x \in InHand(u)
      BY <1>4 DEF Given
    <3> QED BY <2>1, <3>1, <3>2, <1>1
  <2>4. \A c, d \in held' : c # d => Of(c)' \intersect Of(d)' = {}
    <3>1. \A c \in held : Of(c) \intersect {b, n, m} = {}
      BY <2>1, <1>4
    <3> QED BY <3>1, <1>1, <1>6, <1>7, <2>1
  <2>5. \A u \in Threads, c \in held' : InHand(u)' \intersect Of(c)' = {}
    <3>1. \A u \in Threads : u # t => InHand(u) \intersect {b, n, m} = {}
      BY <2>1, <1>4
    <3> QED BY <3>1, <1>1, <1>4, <1>6, <1>7, <2>1, <2>2
  <2>6. \A u, v \in Threads : u # v => InHand(u)' \intersect InHand(v)' = {}
    BY <1>4, <2>1, <2>2
  <2>7. \A c \in held' : backingOf'[NodeOf(c)'] = c
    BY <1>1, <1>6, <1>7
  <2> QED BY <2>3, <2>4, <2>5, <2>6, <2>7, KeptNext
<1>9. IsFiniteSet(held') /\ Cardinality(held') = Cardinality(held) + 1
  BY <1>1, <1>5, FS_AddElement DEF IInv, HeldOK
<1>10. HeldOK'
  <2>1. \A c \in held : metaOf[c] \in Metas /\ NodeOf(c) \in Nodes /\ metaOf[c] # NodeOf(c)
    BY PartsOf
  <2> QED BY <2>1, <1>1, <1>2, <1>6, <1>7, <1>9 DEF HeldOK
<1>11. ListWhole'
  <2>0. PICK k \in Nat : \E s \in [1..k -> NodesOf(held)] :
          /\ k = Cardinality(held) /\ Whole(s, k)
          /\ \A i, j \in 1..k : s[i] = s[j] => i = j
          /\ \A i \in 1..k : s[i] \in Nodes /\ s[i] # Null
    BY Order
  <2>1. PICK s \in [1..k -> NodesOf(held)] :
          /\ k = Cardinality(held) /\ Whole(s, k)
          /\ \A i, j \in 1..k : s[i] = s[j] => i = j
          /\ \A i \in 1..k : s[i] \in Nodes /\ s[i] # Null
    BY <2>0
  <2> DEFINE r == [i \in 1..(k + 1) |-> IF i = 1 THEN n ELSE s[i - 1]]
  <2>2. /\ r[1] = n /\ \A i \in 1..k : r[i + 1] = s[i]
        /\ \A i \in 2..(k + 1) : r[i] = s[i - 1] /\ i - 1 \in 1..k
        /\ DOMAIN r = 1..(k + 1)
    BY <2>1
  <2>3. \A i \in 1..k : s[i] # n
    BY <2>1, <1>5 DEF NodesOf
  <2>4. r \in [1..(k + 1) -> NodesOf(held)']
    <3>1. NodesOf(held)' = NodesOf(held) \union {n}
      BY <1>1, <1>6, <1>7 DEF NodesOf
    <3> QED BY <3>1, <2>1
  <2> HIDE DEF r
  <2>5. /\ head = IF k = 0 THEN Null ELSE s[1]
        /\ \A i \in 1..k : /\ nextOf[s[i]] = IF i = k THEN Null ELSE s[i + 1]
                           /\ prevOf[s[i]] = IF i = 1 THEN Null ELSE s[i - 1]
    BY <2>1 DEF Whole, Linked
  <2>6. IsInjective(r)
    <3>1. \A i, j \in 1..(k + 1) : r[i] = r[j] => i = j
      <4> SUFFICES ASSUME NEW i \in 1..(k + 1), NEW j \in 1..(k + 1), r[i] = r[j] PROVE i = j
        OBVIOUS
      <4>1. CASE i = 1 /\ j = 1
        BY <4>1
      <4>2. CASE i = 1 /\ j # 1
        BY <4>2, <2>1, <2>2, <2>3
      <4>3. CASE i # 1 /\ j = 1
        BY <4>3, <2>1, <2>2, <2>3
      <4>4. CASE i # 1 /\ j # 1
        <5>1. i \in 2..(k + 1) /\ j \in 2..(k + 1)
          BY <4>4, <2>1
        <5>2. i - 1 = j - 1
          BY <5>1, <2>1, <2>2
        <5> QED BY <5>1, <5>2
      <4> QED BY <4>1, <4>2, <4>3, <4>4
    <3> QED BY <3>1, <2>2 DEF IsInjective
  <2>7. ASSUME NEW i \in 1..(k + 1)
        PROVE  /\ nextOf'[r[i]] = IF i = k + 1 THEN Null ELSE r[i + 1]
               /\ prevOf'[r[i]] = IF i = 1 THEN Null ELSE r[i - 1]
    <3>1. CASE i = 1
      <4>1. nextOf'[n] = head /\ prevOf'[n] = Null
        BY <1>1, <1>2
      <4>2. k # 0 => r[2] = s[1]
        BY <2>1, <2>2
      <4> QED BY <3>1, <4>1, <4>2, <2>1, <2>2, <2>5
    <3>2. CASE i # 1
      <4>1. i - 1 \in 1..k /\ r[i] = s[i - 1] /\ s[i - 1] \in Nodes /\ s[i - 1] # n
        BY <3>2, <2>1, <2>2, <2>3
      <4>2. nextOf'[r[i]] = IF i = k + 1 THEN Null ELSE r[i + 1]
        <5>1. nextOf'[r[i]] = nextOf[s[i - 1]]
          BY <4>1, <1>1, <1>2
        <5>2. nextOf[s[i - 1]] = IF i = k + 1 THEN Null ELSE s[i]
          BY <4>1, <2>1, <2>5
        <5>3. i # k + 1 => r[i + 1] = s[i]
          BY <2>1, <2>2
        <5> QED BY <5>1, <5>2, <5>3
      <4>3. prevOf'[r[i]] = r[i - 1]
        <5>1. CASE i = 2
          <6>1. s[1] = head /\ r[i] = head /\ head \in Nodes /\ head # n /\ r[i - 1] = n
            BY <5>1, <4>1, <2>1, <2>2, <2>5
          <6> QED BY <6>1, <1>1, <1>2
        <5>2. CASE i # 2
          <6>1. s[i - 1] # head /\ prevOf[s[i - 1]] = s[i - 2] /\ r[i - 1] = s[i - 2]
            <7>1. i - 1 # 1 /\ 1 \in 1..k /\ i - 2 \in 1..k /\ (i - 2) + 1 = i - 1
              BY <5>2, <4>1, <2>1, <3>2
            <7>2. s[i - 1] # s[1] /\ head = s[1]
              BY <7>1, <4>1, <2>1, <2>5
            <7>3. prevOf[s[i - 1]] = s[(i - 1) - 1]
              BY <7>1, <4>1, <2>5
            <7> QED BY <7>1, <7>2, <7>3, <2>2
          <6> QED BY <6>1, <4>1, <1>1, <1>2
        <5> QED BY <5>1, <5>2
      <4> QED BY <3>2, <4>2, <4>3
    <3> QED BY <3>1, <3>2
  <2>8. Linked(r, k + 1)'
    BY <2>1, <2>2, <2>6, <2>7, <1>1 DEF Linked
  <2>9. \A c \in held' : \E i \in 1..(k + 1) : r[i] = NodeOf(c)'
    <3>1. ASSUME NEW c \in held PROVE \E i \in 1..(k + 1) : r[i] = NodeOf(c)'
      <4>1. PICK i \in 1..k : s[i] = NodeOf(c)
        BY <2>1 DEF Whole
      <4> QED BY <4>1, <1>6, <2>1, <2>2
    <3>2. \E i \in 1..(k + 1) : r[i] = NodeOf(b)'
      BY <1>7, <2>1, <2>2
    <3> QED BY <3>1, <3>2, <1>1
  <2>10. WalkAt(r, k + 1)'
    BY <1>1, <2>1 DEF Whole, WalkAt
  <2>11. Whole(r, k + 1)'
    BY <2>8, <2>9, <2>10 DEF Whole
  <2> QED BY <2>1, <2>4, <2>11, <1>9 DEF ListWhole
<1>12. TypeOK' /\ LocalsOK'
  <2>1. /\ head' \in Nodes \union {Null} /\ nextOf' \in [Nodes -> Nodes \union {Null}]
        /\ prevOf' \in [Nodes -> Nodes \union {Null}] /\ backingOf' \in [Nodes -> Backings \union {Null}]
        /\ nodeOf' \in [Metas -> Nodes \union {Null}] /\ metaOf' \in [Backings -> Metas \union {Null}]
        /\ held' \subseteq mapped'
    BY <1>1, <1>2, <1>5 DEF IInv, TypeOK
  <2>2. LocalsTyped' /\ LocalsOK'
    BY <1>1, NullAssumption, LocalsNext
  <2> QED BY <2>1, <2>2, <1>1 DEF IInv, TypeOK, LocalsTyped
<1> QED BY <1>8, <1>10, <1>11, <1>12 DEF IInv
\* The node leaves the list, whether it is the first, the last or between others, and
\* the allocation is in the thread's hands.
LEMMA UnlinkStep ==
  ASSUME IInv, NEW t \in Threads, NEW b \in Backings, Unlink(t, b)
  PROVE  IInv'
<1>0. PICK m, n : m = metaOf[b] /\ n = NodeOf(b)
  OBVIOUS
<1>1. /\ pc[t] = "idle" /\ pc' = [pc EXCEPT ![t] = "freemeta"] /\ walker # "locked"
      /\ b \in held /\ held' = held \ {b}
      /\ backing' = [backing EXCEPT ![t] = backingOf[n]] /\ node' = [node EXCEPT ![t] = n]
      /\ meta' = [meta EXCEPT ![t] = m]
      /\ prevOf' = IF nextOf[n] = Null THEN prevOf ELSE [prevOf EXCEPT ![nextOf[n]] = prevOf[n]]
      /\ UNCHANGED <<backingOf, nodeOf, metaOf, mapped, inUse, walker, cursor, reported>>
  BY <1>0 DEF Unlink, Step, MutexFree, PrevUnlinked, Goto, links, walk, NodeOf
<1>2. IF prevOf[n] = Null THEN head' = nextOf[n] /\ nextOf' = nextOf
      ELSE nextOf' = [nextOf EXCEPT ![prevOf[n]] = nextOf[n]] /\ head' = head
  BY <1>0 DEF Unlink, NodeOf
<1>3. /\ m \in Metas /\ n \in Nodes /\ m # n /\ backingOf[n] = b
      /\ Null \notin {b, n, m}
      /\ nextOf \in [Nodes -> Nodes \union {Null}] /\ prevOf \in [Nodes -> Nodes \union {Null}]
  BY <1>0, <1>1, PartsOf, NullAssumption DEF IInv, TypeOK
<1>4. /\ pc'[t] = "freemeta" /\ backing'[t] = b /\ node'[t] = n /\ meta'[t] = m
      /\ \A u \in Threads : u # t => /\ pc'[u] = pc[u] /\ backing'[u] = backing[u]
                                     /\ node'[u] = node[u] /\ meta'[u] = meta[u]
  BY <1>1, <1>3 DEF IInv, TypeOK
<1>5. InHand(t) = {} /\ InHand(t)' = {b, n, m} /\ Of(b) = {b, n, m}
  BY <1>0, <1>1, <1>3, <1>4, HandAt, HandNext DEF Of
<1>6. \A c \in held : NodeOf(c)' = NodeOf(c) /\ Of(c)' = Of(c)
  BY <1>1 DEF NodeOf, Of
<1>7. /\ \A x : x \in mapped \union inUse <=> Given(x)
      /\ \A c, d \in held : c # d => Of(c) \intersect Of(d) = {}
      /\ \A u \in Threads, c \in held : InHand(u) \intersect Of(c) = {}
      /\ \A u, v \in Threads : u # v => InHand(u) \intersect InHand(v) = {}
      /\ \A c \in held : backingOf[NodeOf(c)] = c
  BY GivenMeans DEF IInv
<1>8. \A c \in held : c # b => NodeOf(c) # n
  BY <1>0, <1>1, <1>7
<1>9. NothingKept'
  <2>1. \A u \in Threads : u # t => InHand(u)' = InHand(u)
    BY <1>4, OthersSame
  <2>2. ASSUME NEW x
        PROVE  x \in mapped' \union inUse' <=> Given(x)'
    <3>1. Given(x)' <=> (\E c \in held \ {b} : x \in Of(c)) \/ x \in {b, n, m}
                        \/ \E u \in Threads \ {t} : x \in InHand(u)
      BY <1>1, <1>5, <1>6, <2>1 DEF Given
    <3>2. Given(x) <=> (\E c \in held \ {b} : x \in Of(c)) \/ x \in {b, n, m}
                       \/ \E u \in Threads \ {t} : x \in InHand(u)
      BY <1>1, <1>5 DEF Given
    <3> QED BY <1>7, <3>1, <3>2, <1>1
  <2>3. \A c, d \in held' : c # d => Of(c)' \intersect Of(d)' = {}
    BY <1>1, <1>6, <1>7
  <2>4. \A u \in Threads, c \in held' : InHand(u)' \intersect Of(c)' = {}
    BY <1>1, <1>5, <1>6, <1>7, <2>1
  <2>5. \A u, v \in Threads : u # v => InHand(u)' \intersect InHand(v)' = {}
    <3>1. \A u \in Threads : u # t => InHand(u) \intersect {b, n, m} = {}
      BY <1>1, <1>5, <1>7
    <3> QED BY <3>1, <1>5, <1>7, <2>1
  <2>6. \A c \in held' : backingOf'[NodeOf(c)'] = c
    BY <1>1, <1>6, <1>7
  <2> QED BY <2>2, <2>3, <2>4, <2>5, <2>6, KeptNext
<1>10. IsFiniteSet(held') /\ Cardinality(held') = Cardinality(held) - 1
  BY <1>1, FS_RemoveElement DEF IInv, HeldOK
<1>11. HeldOK'
  <2>1. \A c \in held : metaOf[c] \in Metas /\ NodeOf(c) \in Nodes /\ metaOf[c] # NodeOf(c)
    BY PartsOf
  <2> QED BY <2>1, <1>1, <1>6, <1>10 DEF HeldOK
<1>12. ListWhole' /\ head' \in Nodes \union {Null}
  <2>0. PICK k \in Nat : \E s \in [1..k -> NodesOf(held)] :
          /\ k = Cardinality(held) /\ Whole(s, k)
          /\ \A i, j \in 1..k : s[i] = s[j] => i = j
          /\ \A i \in 1..k : s[i] \in Nodes /\ s[i] # Null
    BY Order
  <2>1. PICK s \in [1..k -> NodesOf(held)] :
          /\ k = Cardinality(held) /\ Whole(s, k)
          /\ \A i, j \in 1..k : s[i] = s[j] => i = j
          /\ \A i \in 1..k : s[i] \in Nodes /\ s[i] # Null
    BY <2>0
  <2>2. PICK p \in 1..k : s[p] = n
    BY <2>1, <1>0, <1>1 DEF Whole
  <2>3. /\ head = IF k = 0 THEN Null ELSE s[1]
        /\ \A i \in 1..k : /\ nextOf[s[i]] = IF i = k THEN Null ELSE s[i + 1]
                           /\ prevOf[s[i]] = IF i = 1 THEN Null ELSE s[i - 1]
    BY <2>1 DEF Whole, Linked
  <2>4. /\ nextOf[n] = IF p = k THEN Null ELSE s[p + 1]
        /\ prevOf[n] = IF p = 1 THEN Null ELSE s[p - 1]
        /\ p # k => p + 1 \in 1..k /\ s[p + 1] \in Nodes /\ s[p + 1] # Null
        /\ p # 1 => p - 1 \in 1..k /\ s[p - 1] \in Nodes /\ s[p - 1] # Null
    BY <2>1, <2>2, <2>3
  <2>5. \A i \in 1..k : nextOf'[s[i]] = IF i + 1 = p THEN nextOf[n] ELSE nextOf[s[i]]
    <3> SUFFICES ASSUME NEW i \in 1..k
                 PROVE  nextOf'[s[i]] = IF i + 1 = p THEN nextOf[n] ELSE nextOf[s[i]]
      OBVIOUS
    <3>1. CASE p = 1
      BY <3>1, <1>2, <2>4
    <3>2. CASE p # 1
      <4>1. nextOf' = [nextOf EXCEPT ![s[p - 1]] = nextOf[n]]
        BY <3>2, <1>2, <2>4
      <4>2. s[i] = s[p - 1] <=> i + 1 = p
        BY <3>2, <2>1, <2>4
      <4> QED BY <4>1, <4>2, <1>3, <2>1
    <3> QED BY <3>1, <3>2
  <2>6. \A i \in 1..k : prevOf'[s[i]] = IF i = p + 1 THEN prevOf[n] ELSE prevOf[s[i]]
    <3> SUFFICES ASSUME NEW i \in 1..k
                 PROVE  prevOf'[s[i]] = IF i = p + 1 THEN prevOf[n] ELSE prevOf[s[i]]
      OBVIOUS
    <3>1. CASE p = k
      BY <3>1, <1>1, <2>4
    <3>2. CASE p # k
      <4>1. prevOf' = [prevOf EXCEPT ![s[p + 1]] = prevOf[n]]
        BY <3>2, <1>1, <2>4
      <4>2. s[i] = s[p + 1] <=> i = p + 1
        BY <3>2, <2>1, <2>4
      <4> QED BY <4>1, <4>2, <1>3, <2>1
    <3> QED BY <3>1, <3>2
  <2>7. head' = IF k = 1 THEN Null ELSE IF p = 1 THEN s[2] ELSE s[1]
    <3>1. CASE p = 1
      BY <3>1, <1>2, <2>4
    <3>2. CASE p # 1
      BY <3>2, <1>2, <2>3, <2>4
    <3> QED BY <3>1, <3>2
  <2> DEFINE r == [i \in 1..(k - 1) |-> IF i < p THEN s[i] ELSE s[i + 1]]
  <2>8. /\ \A i \in 1..(k - 1) : i < p => r[i] = s[i] /\ i \in 1..k
        /\ \A i \in 1..(k - 1) : ~(i < p) => r[i] = s[i + 1] /\ i + 1 \in 1..k
        /\ DOMAIN r = 1..(k - 1)
    BY <2>1
  <2>9. r \in [1..(k - 1) -> NodesOf(held)']
    <3>1. ASSUME NEW i \in 1..k, i # p PROVE s[i] \in NodesOf(held)'
      <4>1. s[i] # n /\ s[i] \in NodesOf(held)
        BY <3>1, <2>1, <2>2
      <4>2. PICK c \in held : s[i] = NodeOf(c)
        BY <4>1 DEF NodesOf
      <4>3. c \in held' /\ NodeOf(c)' = s[i]
        BY <4>1, <4>2, <1>0, <1>1, <1>6
      <4> QED BY <4>3 DEF NodesOf
    <3>2. ASSUME NEW i \in 1..(k - 1) PROVE (IF i < p THEN s[i] ELSE s[i + 1]) \in NodesOf(held)'
      <4>1. CASE i < p
        BY <4>1, <3>1, <2>8
      <4>2. CASE ~(i < p)
        <5>1. i + 1 \in 1..k /\ i + 1 # p
          BY <4>2, <2>8
        <5> QED BY <4>2, <5>1, <3>1
      <4> QED BY <4>1, <4>2
    <3> QED BY <3>2
  <2> HIDE DEF r
  <2>10. IsInjective(r)
    <3>1. \A i, j \in 1..(k - 1) : r[i] = r[j] => i = j
      <4> SUFFICES ASSUME NEW i \in 1..(k - 1), NEW j \in 1..(k - 1), r[i] = r[j] PROVE i = j
        OBVIOUS
      <4>1. CASE i < p /\ j < p
        BY <4>1, <2>1, <2>8
      <4>2. CASE i < p /\ ~(j < p)
        <5>1. i = j + 1
          BY <4>2, <2>1, <2>8
        <5> QED BY <4>2, <5>1
      <4>3. CASE ~(i < p) /\ j < p
        <5>1. i + 1 = j
          BY <4>3, <2>1, <2>8
        <5> QED BY <4>3, <5>1
      <4>4. CASE ~(i < p) /\ ~(j < p)
        <5>1. i + 1 = j + 1
          BY <4>4, <2>1, <2>8
        <5> QED BY <5>1
      <4> QED BY <4>1, <4>2, <4>3, <4>4
    <3> QED BY <3>1, <2>8 DEF IsInjective
  <2>11. ASSUME NEW i \in 1..(k - 1)
         PROVE  /\ nextOf'[r[i]] = IF i = k - 1 THEN Null ELSE r[i + 1]
                /\ prevOf'[r[i]] = IF i = 1 THEN Null ELSE r[i - 1]
    <3>1. CASE i < p
      <4>1. r[i] = s[i] /\ i \in 1..k /\ i # k /\ i # p + 1
        BY <3>1, <2>1, <2>8
      <4>2. nextOf'[r[i]] = IF i = k - 1 THEN Null ELSE r[i + 1]
        <5>1. CASE i + 1 = p
          <6>1. nextOf'[r[i]] = IF p = k THEN Null ELSE s[p + 1]
            BY <5>1, <4>1, <2>4, <2>5
          <6>2. i # k - 1 => r[i + 1] = s[p + 1]
            <7>1. i # k - 1 => i + 1 \in 1..(k - 1) /\ ~(i + 1 < p)
              BY <5>1, <2>1
            <7> QED BY <7>1, <5>1, <2>8
          <6> QED BY <6>1, <6>2, <5>1, <2>1
        <5>2. CASE i + 1 # p
          <6>1. nextOf'[r[i]] = s[i + 1]
            BY <5>2, <4>1, <2>3, <2>5
          <6>2. i + 1 \in 1..(k - 1) /\ i + 1 < p /\ i # k - 1
            BY <5>2, <3>1, <2>1
          <6> QED BY <6>1, <6>2, <2>8
        <5> QED BY <5>1, <5>2
      <4>3. prevOf'[r[i]] = IF i = 1 THEN Null ELSE r[i - 1]
        <5>1. prevOf'[r[i]] = IF i = 1 THEN Null ELSE s[i - 1]
          BY <4>1, <2>3, <2>6
        <5>2. i # 1 => i - 1 \in 1..(k - 1) /\ i - 1 < p
          BY <3>1, <2>1
        <5> QED BY <5>1, <5>2, <2>8
      <4> QED BY <4>2, <4>3
    <3>2. CASE ~(i < p)
      <4>1. r[i] = s[i + 1] /\ i + 1 \in 1..k /\ (i + 1) + 1 # p /\ i + 1 # 1
        BY <3>2, <2>1, <2>8
      <4>2. nextOf'[r[i]] = IF i = k - 1 THEN Null ELSE r[i + 1]
        <5>1. nextOf'[r[i]] = IF i + 1 = k THEN Null ELSE s[(i + 1) + 1]
          BY <4>1, <2>3, <2>5
        <5>2. i # k - 1 => i + 1 \in 1..(k - 1) /\ ~(i + 1 < p)
          BY <3>2, <2>1
        <5>3. i + 1 = k <=> i = k - 1
          BY <2>1
        <5> QED BY <5>1, <5>2, <5>3, <2>8
      <4>3. prevOf'[r[i]] = IF i = 1 THEN Null ELSE r[i - 1]
        <5>1. CASE i = p
          <6>1. prevOf'[r[i]] = IF p = 1 THEN Null ELSE s[p - 1]
            BY <5>1, <4>1, <2>4, <2>6
          <6>2. i # 1 => i - 1 \in 1..(k - 1) /\ i - 1 < p
            BY <5>1, <2>1
          <6> QED BY <6>1, <6>2, <5>1, <2>8
        <5>2. CASE i # p
          <6>1. prevOf'[r[i]] = s[(i + 1) - 1]
            BY <5>2, <4>1, <2>3, <2>6
          <6>2. i - 1 \in 1..(k - 1) /\ ~(i - 1 < p) /\ i # 1
            BY <5>2, <3>2, <2>1
          <6>3. (i + 1) - 1 = i /\ (i - 1) + 1 = i
            OBVIOUS
          <6> QED BY <6>1, <6>2, <6>3, <2>8
        <5> QED BY <5>1, <5>2
      <4> QED BY <4>2, <4>3
    <3> QED BY <3>1, <3>2
  <2>12. head' = IF k - 1 = 0 THEN Null ELSE r[1]
    <3>1. k # 1 => 1 \in 1..(k - 1)
      BY <2>1, <2>2
    <3>2. CASE p = 1
      BY <3>1, <3>2, <2>7, <2>8
    <3>3. CASE p # 1
      BY <3>1, <3>3, <2>7, <2>8
    <3> QED BY <3>2, <3>3
  <2>13. Linked(r, k - 1)'
    BY <2>10, <2>11, <2>12 DEF Linked
  <2>14. \A c \in held' : \E i \in 1..(k - 1) : r[i] = NodeOf(c)'
    <3> SUFFICES ASSUME NEW c \in held, c # b PROVE \E i \in 1..(k - 1) : r[i] = NodeOf(c)
      BY <1>1, <1>6
    <3>1. PICK j \in 1..k : s[j] = NodeOf(c)
      BY <2>1 DEF Whole
    <3>2. j # p
      BY <3>1, <2>2, <1>8
    <3>3. CASE j < p
      <4>1. j \in 1..(k - 1)
        BY <3>3, <2>1
      <4> QED BY <3>1, <3>3, <4>1, <2>8
    <3>4. CASE ~(j < p)
      <4>1. j - 1 \in 1..(k - 1) /\ ~(j - 1 < p) /\ (j - 1) + 1 = j
        BY <3>2, <3>4, <2>1
      <4> QED BY <3>1, <4>1, <2>8
    <3> QED BY <3>3, <3>4
  <2>15. WalkAt(r, k - 1)'
    BY <1>1, <2>1 DEF Whole, WalkAt
  <2>16. Whole(r, k - 1)'
    BY <2>13, <2>14, <2>15 DEF Whole
  <2>17. ListWhole'
    BY <2>1, <2>9, <2>16, <1>10 DEF ListWhole
  <2> QED BY <2>1, <2>2, <2>7, <2>17
<1>13. TypeOK' /\ LocalsOK'
  <2>1. /\ nextOf' \in [Nodes -> Nodes \union {Null}] /\ prevOf' \in [Nodes -> Nodes \union {Null}]
        /\ held' \subseteq mapped'
    BY <1>1, <1>2, <1>3 DEF IInv, TypeOK
  <2>2. LocalsTyped' /\ LocalsOK'
    <3>1. b \in Backings \union {Null} /\ n \in Nodes \union {Null} /\ m \in Metas \union {Null}
      BY <1>3
    <3>2. backing' = [backing EXCEPT ![t] = b]
      BY <1>1, <1>3
    <3> QED BY <3>1, <3>2, <1>1, <1>3, LocalsNext
  <2> QED BY <2>1, <2>2, <1>1, <1>12 DEF IInv, TypeOK, LocalsTyped
<1> QED BY <1>9, <1>11, <1>12, <1>13 DEF IInv
-----------------------------------------------------------------------------
(* The steps of the collector *)

\* Nothing is given and nothing given back.
LEMMA SameKept ==
  ASSUME IInv, UNCHANGED <<backingOf, nodeOf, metaOf, mapped, inUse, held, pc, backing, node, meta>>
  PROVE  NothingKept'
<1>1. \A b \in held : Of(b)' = Of(b) /\ NodeOf(b)' = NodeOf(b)
  BY DEF Of, NodeOf
<1>2. \A t \in Threads : InHand(t)' = InHand(t)
  BY DEF InHand, Working
<1>3. /\ \A x : x \in mapped \union inUse <=> Given(x)
      /\ \A b, c \in held : b # c => Of(b) \intersect Of(c) = {}
      /\ \A t \in Threads, b \in held : InHand(t) \intersect Of(b) = {}
      /\ \A t, u \in Threads : t # u => InHand(t) \intersect InHand(u) = {}
      /\ \A b \in held : backingOf[NodeOf(b)] = b
  BY GivenMeans DEF IInv
<1>4. \A x : Given(x)' <=> Given(x)
  BY <1>1, <1>2 DEF Given
<1> QED BY <1>1, <1>2, <1>3, <1>4, KeptNext

\* The collector only reads: what remains to show is where its walk has come to.
LEMMA OnlyReads ==
  ASSUME IInv, CollectorStep,
         cursor' \in Nodes \union {Null}, reported' \subseteq Backings,
         walker' \in {"idle", "unlocked", "locked"},
         \A k \in Nat : \A s \in [1..k -> NodesOf(held)] :
           k = Cardinality(held) /\ Whole(s, k) => WalkAt(s, k)'
  PROVE  IInv'
<1>1. /\ UNCHANGED <<head, nextOf, prevOf, backingOf, nodeOf, metaOf, mapped, inUse, held>>
      /\ UNCHANGED <<pc, backing, node, meta>>
  BY DEF CollectorStep, StartUnlocked, NextUnlocked, StartLocked, NextLocked, EndLocked, list, links, locals
<1>2. TypeOK' /\ LocalsOK' /\ HeldOK'
  BY <1>1 DEF IInv, TypeOK, LocalsOK, HeldOK, NodeOf
<1>3. NothingKept'
  BY <1>1, SameKept
<1>4. ListWhole'
  <2>1. PICK k \in Nat : \E s \in [1..k -> NodesOf(held)] : k = Cardinality(held) /\ Whole(s, k)
    BY Order
  <2>2. PICK s \in [1..k -> NodesOf(held)] : k = Cardinality(held) /\ Whole(s, k)
    BY <2>1
  <2>3. Linked(s, k)'
    BY <2>2, <1>1 DEF Whole, Linked
  <2>4. \A b \in held' : \E i \in 1..k : s[i] = NodeOf(b)'
    BY <2>2, <1>1 DEF Whole, NodeOf
  <2>5. Whole(s, k)'
    BY <2>2, <2>3, <2>4 DEF Whole
  <2>6. s \in [1..k -> NodesOf(held)'] /\ k = Cardinality(held')
    BY <2>2, <1>1 DEF NodesOf, NodeOf
  <2> QED BY <2>5, <2>6 DEF ListWhole
<1> QED BY <1>2, <1>3, <1>4 DEF IInv

\* The walk without the mutex reports nothing.
LEMMA UnlockedStep ==
  ASSUME IInv, StartUnlocked \/ NextUnlocked
  PROVE  IInv'
<1>1. walker # "locked" /\ walker' = "unlocked" /\ reported' = reported
  BY DEF StartUnlocked, NextUnlocked
<1>2. cursor' \in Nodes \union {Null}
  BY DEF StartUnlocked, NextUnlocked, IInv, TypeOK
<1>3. reported' \subseteq Backings
  BY <1>1 DEF IInv, TypeOK
<1>4. \A k \in Nat : \A s \in [1..k -> NodesOf(held)] :
        k = Cardinality(held) /\ Whole(s, k) => WalkAt(s, k)'
  BY <1>1 DEF Whole, WalkAt
<1> QED BY <1>1, <1>2, <1>3, <1>4, OnlyReads DEF CollectorStep

\* The walk under the mutex starts at the first node, with nothing reported.
LEMMA StartLockedStep ==
  ASSUME IInv, StartLocked
  PROVE  IInv'
<1>1. walker = "unlocked" /\ walker' = "locked" /\ cursor' = head /\ reported' = reported
  BY DEF StartLocked
<1>2. cursor' \in Nodes \union {Null} /\ reported' \subseteq Backings
  BY <1>1 DEF IInv, TypeOK
<1>3. ASSUME NEW k \in Nat, NEW s \in [1..k -> NodesOf(held)], Whole(s, k)
      PROVE  WalkAt(s, k)'
  <2>1. reported = {} /\ head = IF k = 0 THEN Null ELSE s[1]
    BY <1>1, <1>3 DEF Whole, Linked, WalkAt
  <2>2. {backingOf'[s[i]] : i \in 1..(1 - 1)} = {}
    OBVIOUS
  <2>3. 1 \in 1..(k + 1) /\ (1 = k + 1 <=> k = 0)
    OBVIOUS
  <2> QED BY <2>1, <2>2, <2>3, <1>1 DEF WalkAt
<1> QED BY <1>1, <1>2, <1>3, OnlyReads DEF CollectorStep

\* It goes from a node to the next, and reports the allocation it leaves.
LEMMA NextLockedStep ==
  ASSUME IInv, NextLocked
  PROVE  IInv'
<1>1. /\ walker = "locked" /\ walker' = "locked" /\ cursor # Null
      /\ reported' = reported \union {backingOf[cursor]} /\ cursor' = nextOf[cursor]
      /\ backingOf' = backingOf
  BY DEF NextLocked, links
<1>2. ASSUME NEW k \in Nat, NEW s \in [1..k -> NodesOf(held)], Whole(s, k)
      PROVE  WalkAt(s, k)' /\ cursor \in NodesOf(held)
  <2>1. PICK p \in 1..(k + 1) : /\ cursor = IF p = k + 1 THEN Null ELSE s[p]
                                /\ reported = {backingOf[s[i]] : i \in 1..(p - 1)}
    BY <1>1, <1>2 DEF Whole, WalkAt
  <2>2. p \in 1..k /\ cursor = s[p] /\ p + 1 \in 1..(k + 1) /\ (p + 1) - 1 = p
    BY <1>1, <2>1
  <2>3. cursor' = IF p + 1 = k + 1 THEN Null ELSE s[p + 1]
    BY <1>1, <1>2, <2>2 DEF Whole, Linked
  <2>4. reported' = {backingOf[s[i]] : i \in 1..p}
    <3>1. 1..p = 1..(p - 1) \union {p}
      BY <2>2
    <3> QED BY <1>1, <2>1, <2>2, <3>1
  <2>5. \E q \in 1..(k + 1) : /\ cursor' = IF q = k + 1 THEN Null ELSE s[q]
                              /\ reported' = {backingOf'[s[i]] : i \in 1..(q - 1)}
    BY <1>1, <2>2, <2>3, <2>4
  <2> QED BY <1>1, <2>2, <2>5 DEF WalkAt
<1>3. cursor \in NodesOf(held)
  BY <1>2, Order
<1>4. cursor' \in Nodes \union {Null} /\ reported' \subseteq Backings
  <2>1. PICK b \in held : cursor = NodeOf(b)
    BY <1>3 DEF NodesOf
  <2>2. backingOf[cursor] \in Backings /\ cursor \in Nodes
    BY <2>1, PartsOf
  <2> QED BY <2>2, <1>1 DEF IInv, TypeOK
<1> QED BY <1>1, <1>2, <1>4, OnlyReads DEF CollectorStep

\* The collector has walked to the end and gives the mutex up.
LEMMA EndLockedStep ==
  ASSUME IInv, EndLocked
  PROVE  IInv'
<1>1. walker' = "idle" /\ reported' = {} /\ cursor' = cursor
  BY DEF EndLocked
<1>2. cursor' \in Nodes \union {Null}
  BY <1>1 DEF IInv, TypeOK
<1>3. \A k \in Nat : \A s \in [1..k -> NodesOf(held)] :
        k = Cardinality(held) /\ Whole(s, k) => WalkAt(s, k)'
  BY <1>1 DEF WalkAt
<1> QED BY <1>1, <1>2, <1>3, OnlyReads DEF CollectorStep

-----------------------------------------------------------------------------
(* The theorems *)

\* Every step keeps the invariant: one lemma above for each action.
LEMMA StepIInv ==
  ASSUME IInv, [Next]_vars
  PROVE  IInv'
<1>1. CASE CollectorStep
  BY <1>1, UnlockedStep, StartLockedStep, NextLockedStep, EndLockedStep DEF CollectorStep
<1>2. ASSUME NEW t \in Threads, ThreadStep(t) PROVE IInv'
  <2>1. CASE \E b \in Backings : Unlink(t, b)
    BY <2>1, UnlinkStep
  <2>2. CASE Link(t)
    BY <2>2, LinkStep
  <2> QED BY <1>2, <2>1, <2>2, MapBackingStep, NoArenaStep, AllocNodeStep, AllocMetaStep, UndoStep,
             FreeMetaStep, FreeNodeStep, UnmapStep DEF ThreadStep
<1>3. CASE UNCHANGED vars
  <2>1. /\ UNCHANGED <<head, nextOf, prevOf, backingOf, nodeOf, metaOf, mapped, inUse, held>>
        /\ UNCHANGED <<pc, backing, node, meta, walker, cursor, reported>>
    BY <1>3 DEF vars, list, links, locals, walk
  <2>2. TypeOK' /\ LocalsOK' /\ HeldOK'
    BY <2>1 DEF IInv, TypeOK, LocalsOK, HeldOK, NodeOf
  <2>3. NothingKept'
    BY <2>1, SameKept
  <2>4. ListWhole'
    BY <2>1, SameWhole DEF NodeOf
  <2> QED BY <2>2, <2>3, <2>4 DEF IInv
<1> QED BY <1>1, <1>2, <1>3 DEF Next

\* The empty list.
LEMMA InitIInv ==
  ASSUME Init
  PROVE  IInv
<1>1. /\ head = Null /\ held = {} /\ mapped = {} /\ inUse = {} /\ reported = {} /\ walker = "idle"
      /\ \A t \in Threads : pc[t] = "idle" /\ backing[t] = Null /\ node[t] = Null /\ meta[t] = Null
  BY DEF Init
<1>2. TypeOK
  BY DEF Init, TypeOK
<1>3. LocalsOK
  BY <1>1 DEF LocalsOK
<1>4. IsFiniteSet(held) /\ Cardinality(held) = 0
  BY <1>1, FS_EmptySet
<1>5. HeldOK
  BY <1>1, <1>4 DEF HeldOK
<1>6. NothingKept
  <2>1. \A t \in Threads : InHand(t) = {}
    BY <1>1 DEF InHand, Working
  <2>2. \A x : x \in mapped \union inUse <=> Given(x)
    BY <1>1, <2>1 DEF Given
  <2> QED BY <1>1, <2>1, <2>2, GivenMeans
<1>7. ListWhole
  <2> DEFINE s == [i \in 1..0 |-> Null]
  <2>1. s \in [1..0 -> NodesOf(held)]
    OBVIOUS
  <2>2. Whole(s, 0)
    BY <1>1 DEF Whole, Linked, WalkAt, IsInjective
  <2> QED BY <2>1, <2>2, <1>4 DEF ListWhole
<1> QED BY <1>2, <1>3, <1>5, <1>6, <1>7 DEF IInv

\* For any number of threads and of allocations: some order of the nodes is the
\* order of the links, everything given is in one place, and the walk under the
\* mutex has reported what is before the place it has come to.
THEOREM Invariance == Spec => []IInv
<1>1. Init => IInv
  BY InitIInv
<1>2. IInv /\ [Next]_vars => IInv'
  BY StepIInv
<1> QED BY <1>1, <1>2, PTL DEF Spec

\* Every field, every local and every set of large.c keeps to its values.
THEOREM TypeCorrect == Spec => []TypeOK
<1>1. IInv => TypeOK
  BY DEF IInv
<1> QED BY <1>1, Invariance, PTL

\* large_alloc's push and large_free's unlinking leave a list of the program's large
\* allocations, each once, linked both ways and ending.
THEOREM ListKept == Spec => []ListExact
<1>1. IInv => ListExact
  BY DEF IInv, ListWhole, Whole, ListExact
<1> QED BY <1>1, Invariance, PTL

\* Whatever request fails and however the threads interleave, large_alloc and
\* large_free give back what they took, once.
THEOREM AllGivenBack == Spec => []NothingKept
<1>1. IInv => NothingKept
  BY DEF IInv
<1> QED BY <1>1, Invariance, PTL

\* collect_large_leaks reports exactly the allocations there are.
THEOREM WalkExact == Spec => []LockedWalkExact
<1>1. IInv => LockedWalkExact
  <2> SUFFICES ASSUME IInv, walker = "locked"
               PROVE  /\ cursor # Null => cursor \in NodesOf(held)
                      /\ reported \subseteq held
                      /\ cursor = Null => reported = held
    BY DEF LockedWalkExact
  <2>0. PICK k \in Nat : \E s \in [1..k -> NodesOf(held)] :
          /\ k = Cardinality(held) /\ Whole(s, k)
          /\ \A i \in 1..k : s[i] \in Nodes /\ s[i] # Null
    BY Order
  <2>1. PICK s \in [1..k -> NodesOf(held)] :
          /\ k = Cardinality(held) /\ Whole(s, k)
          /\ \A i \in 1..k : s[i] \in Nodes /\ s[i] # Null
    BY <2>0
  <2>2. PICK p \in 1..(k + 1) : /\ cursor = IF p = k + 1 THEN Null ELSE s[p]
                                /\ reported = {backingOf[s[i]] : i \in 1..(p - 1)}
    BY <2>1 DEF Whole, WalkAt
  <2>3. \A i \in 1..k : backingOf[s[i]] \in held
    <3> SUFFICES ASSUME NEW i \in 1..k PROVE backingOf[s[i]] \in held
      OBVIOUS
    <3>1. PICK b \in held : s[i] = NodeOf(b)
      BY DEF NodesOf
    <3> QED BY <3>1, PartsOf
  <2>4. cursor # Null => cursor \in NodesOf(held)
    BY <2>2
  <2>5. reported \subseteq held
    BY <2>2, <2>3
  <2>6. ASSUME cursor = Null PROVE held \subseteq reported
    <3>1. p - 1 = k
      BY <2>1, <2>2, <2>6
    <3>2. ASSUME NEW b \in held PROVE \E i \in 1..k : backingOf[s[i]] = b
      <4>1. PICK i \in 1..k : s[i] = NodeOf(b)
        BY <2>1 DEF Whole
      <4> QED BY <4>1, PartsOf
    <3> QED BY <3>1, <3>2, <2>2
  <2> QED BY <2>4, <2>5, <2>6
<1> QED BY <1>1, Invariance, PTL
=============================================================================
