----------------------------- MODULE LargeList -----------------------------
(***************************************************************************)
(* Large allocations (src/large.c) and the leak collector's walks of their *)
(* list (src/debug.c).  A large allocation is a backing from the memory    *)
(* source, and a node and a metadata object from the arena: three requests *)
(* of which any may fail.  The nodes are on a doubly linked list guarded   *)
(* by g_large_debug_list_mutex; what is done while holding it is one step. *)
(* sigma_debug_collect_leaks walks the list twice: collect_slab_leaks      *)
(* without the mutex, to know the nodes from leaks, and                    *)
(* collect_large_leaks with it.                                            *)
(*                                                                         *)
(* Freed nodes and metadata may be handed out again at once, to another    *)
(* large allocation (Arena models how the arena serves them); what their   *)
(* words hold meanwhile is not followed, and reads as Null.                *)
(***************************************************************************)
EXTENDS Naturals, Sequences, FiniteSets, Functions

CONSTANTS Backings, Nodes, Metas,  \* what the source and the arena can give
          Threads,                 \* the threads that allocate and free
          Null

ASSUME NullAssumption == Null \notin Backings \union Nodes \union Metas
\* The source and the arena give different memory.
ASSUME ApartAssumption == Backings \intersect (Nodes \union Metas) = {}

VARIABLES
  head,       \* allocator->large_allocs_head
  nextOf,     \* node->next
  prevOf,     \* node->prev
  backingOf,  \* node->backing
  nodeOf,     \* meta->node
  metaOf,     \* the header in a backing: header->meta
  mapped,     \* the backings the source has given
  inUse,      \* the nodes and metadata the arena has given
  held,       \* ghost: the large allocations the program may free
  pc,         \* thread -> where it is
  backing, node, meta,   \* thread -> its locals of large_alloc or large_free
  walker,     \* the collector: "idle", "unlocked" or "locked"
  cursor,     \* the node its walk has come to
  reported    \* the allocations this collection has reported

list   == <<head, nextOf, prevOf>>
links  == <<backingOf, nodeOf, metaOf>>
locals == <<backing, node, meta>>
walk   == <<walker, cursor, reported>>
vars   == <<list, links, mapped, inUse, held, pc, locals, walk>>
(* The operators named Slip_ are not the code: each is the definition below it *)
(* with one plausible mistake, which some property must notice.              *)

\* The mutex is free: the collector does not hold it (the others hold it for
\* one step only).
Slip_NoMutex == TRUE
MutexFree == walker # "locked"

Goto(t, at) == pc' = [pc EXCEPT ![t] = at]
Step(t, from, to) == pc[t] = from /\ Goto(t, to)

Init ==
  /\ head = Null
  /\ nextOf = [n \in Nodes |-> Null] /\ prevOf = [n \in Nodes |-> Null]
  /\ backingOf = [n \in Nodes |-> Null]
  /\ nodeOf = [m \in Metas |-> Null] /\ metaOf = [b \in Backings |-> Null]
  /\ mapped = {} /\ inUse = {} /\ held = {}
  /\ pc = [t \in Threads |-> "idle"]
  /\ backing = [t \in Threads |-> Null]
  /\ node = [t \in Threads |-> Null] /\ meta = [t \in Threads |-> Null]
  /\ walker = "idle" /\ cursor = Null /\ reported = {}

Done(t) == /\ Goto(t, "idle")
           /\ backing' = [backing EXCEPT ![t] = Null]
           /\ node' = [node EXCEPT ![t] = Null]
           /\ meta' = [meta EXCEPT ![t] = Null]

-----------------------------------------------------------------------------
(* large_alloc *)

MapBacking(t) ==
  /\ Step(t, "idle", "arena")
  /\ \E b \in Backings \ mapped : /\ mapped' = mapped \union {b}
                                  /\ backing' = [backing EXCEPT ![t] = b]
  /\ UNCHANGED <<list, links, inUse, held, node, meta, walk>>

\* arena_get finds no arena and can make none.
NoArena(t) ==
  /\ pc[t] = "arena"
  /\ mapped' = mapped \ {backing[t]}
  /\ Done(t)
  /\ UNCHANGED <<list, links, inUse, held, walk>>

\* The two calls of arena_alloc: either may fail.  The second is made whatever
\* the first returned.
AllocNode(t) ==
  /\ Step(t, "arena", "meta")
  /\ \/ \E n \in Nodes \ inUse : /\ inUse' = inUse \union {n}
                                 /\ node' = [node EXCEPT ![t] = n]
     \/ UNCHANGED <<inUse, node>>
  /\ UNCHANGED <<list, links, mapped, held, backing, meta, walk>>

Slip_NodeOnly(n, m) == n # Null
BothGiven(n, m) == n # Null /\ m # Null

AllocMeta(t) ==
  /\ pc[t] = "meta"
  /\ \/ \E m \in Metas \ inUse : /\ inUse' = inUse \union {m}
                                 /\ meta' = [meta EXCEPT ![t] = m]
     \/ UNCHANGED <<inUse, meta>>
  /\ Goto(t, IF BothGiven(node[t], meta'[t]) THEN "link" ELSE "undo")
  /\ UNCHANGED <<list, links, mapped, held, backing, node, walk>>

Slip_MetaKept(t) == {node[t]}
GivenSoFar(t)    == {node[t], meta[t]}

Undo(t) ==
  /\ pc[t] = "undo"
  /\ inUse' = inUse \ GivenSoFar(t)
  /\ mapped' = mapped \ {backing[t]}
  /\ Done(t)
  /\ UNCHANGED <<list, links, held, walk>>

\* The fields are filled in, and the node is pushed at the head of the list.
Link(t) ==
  /\ pc[t] = "link"
  /\ MutexFree
  /\ backingOf' = [backingOf EXCEPT ![node[t]] = backing[t]]
  /\ nodeOf' = [nodeOf EXCEPT ![meta[t]] = node[t]]
  /\ metaOf' = [metaOf EXCEPT ![backing[t]] = meta[t]]
  /\ nextOf' = [nextOf EXCEPT ![node[t]] = head]
  /\ prevOf' = [n \in Nodes |-> IF n = node[t] THEN Null
                                ELSE IF n = head THEN node[t] ELSE prevOf[n]]
  /\ head' = node[t]
  /\ held' = held \union {backing[t]}
  /\ Done(t)
  /\ UNCHANGED <<mapped, inUse, walk>>

-----------------------------------------------------------------------------
(* large_free *)

Slip_PrevForgotten(n) == prevOf
PrevUnlinked(n) == IF nextOf[n] = Null THEN prevOf
                   ELSE [prevOf EXCEPT ![nextOf[n]] = prevOf[n]]

Unlink(t, b) ==
  /\ Step(t, "idle", "freemeta")
  /\ b \in held
  /\ MutexFree
  /\ held' = held \ {b}
  /\ LET m == metaOf[b]
         n == nodeOf[m]
     IN /\ backing' = [backing EXCEPT ![t] = backingOf[n]]
        /\ node' = [node EXCEPT ![t] = n]
        /\ meta' = [meta EXCEPT ![t] = m]
        /\ IF prevOf[n] = Null THEN head' = nextOf[n] /\ UNCHANGED nextOf
           ELSE nextOf' = [nextOf EXCEPT ![prevOf[n]] = nextOf[n]] /\ UNCHANGED head
        /\ prevOf' = PrevUnlinked(n)
  /\ UNCHANGED <<links, mapped, inUse, walk>>

FreeMeta(t) ==
  /\ Step(t, "freemeta", "freenode")
  /\ inUse' = inUse \ {meta[t]}
  /\ nodeOf' = [nodeOf EXCEPT ![meta[t]] = Null]
  /\ meta' = [meta EXCEPT ![t] = Null]
  /\ UNCHANGED <<list, backingOf, metaOf, mapped, held, backing, node, walk>>

FreeNode(t) ==
  /\ Step(t, "freenode", "unmap")
  /\ inUse' = inUse \ {node[t]}
  /\ nextOf' = [nextOf EXCEPT ![node[t]] = Null]
  /\ prevOf' = [prevOf EXCEPT ![node[t]] = Null]
  /\ backingOf' = [backingOf EXCEPT ![node[t]] = Null]
  /\ UNCHANGED <<head, nodeOf, metaOf, mapped, held, locals, walk>>

\* The backing was read "BEFORE freeing node" (large.c:136).
SavedBacking(t) == backing[t]

Unmap(t) ==
  /\ pc[t] = "unmap"
  /\ mapped' = mapped \ {SavedBacking(t)}
  /\ metaOf' = [metaOf EXCEPT ![backing[t]] = Null]
  /\ Done(t)
  /\ UNCHANGED <<list, backingOf, nodeOf, inUse, held, walk>>

-----------------------------------------------------------------------------
(* sigma_debug_collect_leaks *)

\* collect_slab_leaks: for an object that is not free, down the list.
StartUnlocked ==
  /\ walker = "idle"
  /\ walker' = "unlocked" /\ cursor' = head
  /\ UNCHANGED <<list, links, mapped, inUse, held, pc, locals, reported>>

\* It reads the node's user pointer, that allocation's header, and node->next.
\* An object found, or the end of the list, ends the walk; another may follow.
NextUnlocked ==
  /\ walker = "unlocked"
  /\ cursor # Null
  /\ cursor' \in {nextOf[cursor], head, Null}
  /\ UNCHANGED <<list, links, mapped, inUse, held, pc, locals, walker, reported>>

\* collect_large_leaks takes the mutex and keeps it to the end of the list.
StartLocked ==
  /\ walker = "unlocked"
  /\ cursor = Null
  /\ walker' = "locked" /\ cursor' = head
  /\ UNCHANGED <<list, links, mapped, inUse, held, pc, locals, reported>>

NextLocked ==
  /\ walker = "locked"
  /\ cursor # Null
  /\ reported' = reported \union {backingOf[cursor]}
  /\ cursor' = nextOf[cursor]
  /\ UNCHANGED <<list, links, mapped, inUse, held, pc, locals, walker>>

EndLocked ==
  /\ walker = "locked"
  /\ cursor = Null
  /\ walker' = "idle"
  /\ reported' = {}
  /\ UNCHANGED <<list, links, mapped, inUse, held, pc, locals, cursor>>

-----------------------------------------------------------------------------
ThreadStep(t) ==
  \/ MapBacking(t) \/ NoArena(t) \/ AllocNode(t) \/ AllocMeta(t) \/ Undo(t) \/ Link(t)
  \/ \E b \in Backings : Unlink(t, b)
  \/ FreeMeta(t) \/ FreeNode(t) \/ Unmap(t)
CollectorStep == StartUnlocked \/ NextUnlocked \/ StartLocked \/ NextLocked \/ EndLocked

Next == CollectorStep \/ \E t \in Threads : ThreadStep(t)

Spec == Init /\ [][Next]_vars

-----------------------------------------------------------------------------
(* Properties *)

TypeOK ==
  /\ head \in Nodes \union {Null}
  /\ {nextOf, prevOf} \subseteq [Nodes -> Nodes \union {Null}]
  /\ backingOf \in [Nodes -> Backings \union {Null}]
  /\ nodeOf \in [Metas -> Nodes \union {Null}]
  /\ metaOf \in [Backings -> Metas \union {Null}]
  /\ mapped \subseteq Backings /\ inUse \subseteq Nodes \union Metas
  /\ held \subseteq mapped
  /\ pc \in [Threads -> {"idle", "arena", "meta", "link", "undo",
                         "freemeta", "freenode", "unmap"}]
  /\ backing \in [Threads -> Backings \union {Null}]
  /\ node \in [Threads -> Nodes \union {Null}] /\ meta \in [Threads -> Metas \union {Null}]
  /\ \A t \in Threads : pc[t] \in {"link", "freemeta"} => Null \notin {node[t], meta[t]}
  /\ walker \in {"idle", "unlocked", "locked"} /\ cursor \in Nodes \union {Null}
  /\ reported \subseteq Backings

NodeOf(b)   == nodeOf[metaOf[b]]
NodesOf(bs) == {NodeOf(b) : b \in bs}

\* The k nodes of s, in that order, are what the links say.
Linked(s, k) ==
  /\ IsInjective(s)
  /\ head = IF k = 0 THEN Null ELSE s[1]
  /\ \A i \in 1..k : /\ nextOf[s[i]] = IF i = k THEN Null ELSE s[i + 1]
                     /\ prevOf[s[i]] = IF i = 1 THEN Null ELSE s[i - 1]

\* The list is the program's large allocations, each once, linked both ways and
\* ending: some order of their nodes is the order of the links.
ListExact ==
  LET k == Cardinality(held)
  IN \E s \in [1..k -> NodesOf(held)] : Linked(s, k)

\* Nothing is kept and nothing is freed twice: the backings mapped and the nodes
\* and metadata in use are those of the program's allocations, each with its own,
\* and those in the hands of a thread inside large_alloc or large_free.
Working(t) ==
  CASE pc[t] \in {"idle"} -> {}
    [] pc[t] = "arena" -> {backing[t]}
    [] pc[t] = "meta" -> {backing[t], node[t]}
    [] pc[t] \in {"link", "undo", "freemeta"} -> {backing[t], node[t], meta[t]}
    [] pc[t] = "freenode" -> {backing[t], node[t]}
    [] pc[t] = "unmap" -> {backing[t]}

InHand(t) == Working(t) \ {Null}
Of(b)     == {b, metaOf[b], NodeOf(b)}

NothingKept ==
  /\ mapped \union inUse = (UNION {Of(b) : b \in held}) \union (UNION {InHand(t) : t \in Threads})
  /\ \A b, c \in held : b # c => Of(b) \intersect Of(c) = {}
  /\ \A t \in Threads, b \in held : InHand(t) \intersect Of(b) = {}
  /\ \A t, u \in Threads : t # u => InHand(t) \intersect InHand(u) = {}
  /\ \A b \in held : backingOf[NodeOf(b)] = b

\* The locked walk never stands on a node that is not on the list, and reports
\* when it ends exactly the allocations there are.
LockedWalkExact ==
  walker = "locked" => /\ cursor # Null => cursor \in NodesOf(held)
                       /\ reported \subseteq held
                       /\ cursor = Null => reported = held

\* The inductive invariant that the theorems rest on.  What large_alloc and
\* large_free hold in their locals at each step:
LocalsOK == \A t \in Threads :
  /\ pc[t] = "idle" <=> backing[t] = Null
  /\ pc[t] \in {"idle", "arena"} => node[t] = Null
  /\ pc[t] \in {"link", "freemeta", "freenode"} => node[t] # Null
  /\ pc[t] \in {"idle", "arena", "meta", "freenode", "unmap"} => meta[t] = Null
  /\ pc[t] \in {"link", "freemeta"} => meta[t] # Null
  /\ node[t] # Null => node[t] # meta[t]

HeldOK == /\ IsFiniteSet(held)
          /\ \A b \in held : metaOf[b] \in Metas /\ NodeOf(b) \in Nodes /\ metaOf[b] # NodeOf(b)

\* The locked walk has come to some place of the list, or to its end, and has
\* reported what is before it.
WalkAt(s, k) ==
  IF walker = "locked"
  THEN \E p \in 1..(k + 1) : /\ cursor = IF p = k + 1 THEN Null ELSE s[p]
                             /\ reported = {backingOf[s[i]] : i \in 1..(p - 1)}
  ELSE reported = {}

Whole(s, k) == /\ Linked(s, k) /\ WalkAt(s, k)
               /\ \A b \in held : \E i \in 1..k : s[i] = NodeOf(b)

ListWhole == LET k == Cardinality(held) IN \E s \in [1..k -> NodesOf(held)] : Whole(s, k)

IInv == TypeOK /\ NothingKept /\ LocalsOK /\ HeldOK /\ ListWhole

-----------------------------------------------------------------------------
(* What the repository says, and the code does not do *)

\* "Concurrent large allocations keep leak tracking consistent"
\* (tests/regression.c:409): a walk of the list reads only nodes that are in use.
WalkReadsLiveNodes == walker # "idle" /\ cursor # Null => cursor \in inUse
=============================================================================
