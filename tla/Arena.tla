------------------------------- MODULE Arena -------------------------------
(***************************************************************************)
(* One thread's arena: src/arena.c over src/slab.c, over the buddy pools   *)
(* of its extents.  The owner allocates small objects from slabs, larger   *)
(* ones from the pools, frees its own, drains what other threads freed,    *)
(* and asks the memory source for a new extent when nothing fits.          *)
(*                                                                         *)
(* A pool is what PageRuns promises (BuddyPool implements it): it grants   *)
(* some free aligned run, or refuses when there is none.  The stack of     *)
(* remotely freed objects is what PendingFrees promises (RemoteFree        *)
(* implements it): a set the owner takes whole.  Only the owner touches    *)
(* the caches and the pools, so each of its calls into them is one step;   *)
(* arena_alloc is several, because other threads push meanwhile.           *)
(***************************************************************************)
EXTENDS BuddyIndex, Sequences, FiniteSets, SequencesExt

CONSTANTS Classes,     \* the size classes: one cache each
          Capacity,    \* class -> slots of a slab of that class
          SlabOrder,   \* the order that serves SLAB_SIZE
          Interval,    \* ARENA_REMOTE_DRAIN_INTERVAL
          MaxExtents,  \* bound: extents the memory source can give
          MaxHeld,     \* bound: objects the program holds at once
          NoBlock      \* NULL

ASSUME ArenaAssumption ==
  /\ Capacity \in [Classes -> Nat \ {0}]
  /\ SlabOrder \in Orders
  /\ Interval \in Nat \ {0}
  /\ MaxExtents \in Nat \ {0}

Extents == 1..MaxExtents
TheArena == 0   \* the mapping of the arena_t itself

VARIABLES
  mapped,    \* ghost: what the memory source has given and not got back
  created,   \* is the arena on the thread's list g_thread_arenas
  extents,   \* arena->extents, newest first
  active,    \* arena->active_extent
  out,       \* extent -> the blocks its pool has handed out
  slabs,     \* region of a slab -> its owner cache, used and free_list
  partial,   \* class -> cache->partial, a list of regions
  full,      \* class -> cache->full
  counter,   \* arena->alloc_counter, modulo Interval
  pc,        \* the owner: "idle", "create", or in arena_alloc "drain", "try"
  class,     \* arena_alloc's cache, NoBlock outside it
  retried,   \* has slab_alloc failed once in this arena_alloc
  pending,   \* the objects on arena->remote_frees
  taken,     \* those a drain has taken and not freed yet
  held,      \* ghost: the objects the program has and may free
  owed       \* ghost: what was pending when this arena_alloc began

caches == <<slabs, partial, full>>
pools  == <<mapped, extents, active, out>>
call   == <<counter, pc, class, retried, owed>>
vars   == <<created, pools, caches, call, pending, taken, held>>
(* The operators named Slip_ are not the code: each is the definition below it *)
(* with one plausible mistake, which some property must notice.              *)

Regions == [extent : Extents, block : Blocks]

\* An object is a slot of a slab (ALLOC_TYPE_SLAB), or a whole block of a pool
\* (ALLOC_TYPE_BUDDY, slot 0).
Slot(r, i)   == [type |-> "slab", extent |-> r.extent, block |-> r.block, slot |-> i]
Whole(r)     == [type |-> "buddy", extent |-> r.extent, block |-> r.block, slot |-> 0]
Objects      == [type : {"slab"}, extent : Extents, block : Blocks, slot : Nat]
                \union [type : {"buddy"}, extent : Extents, block : Blocks, slot : {0}]
RegionOf(x)  == [extent |-> x.extent, block |-> x.block]
InUse        == held \union pending \union taken

\* The header of a slab: capacity is its owner's.
Slabs == [owner : Classes, used : Nat, free : Seq(Nat)]

Pool(e)     == INSTANCE PageRuns WITH out <- out[e], answer <- NoBlock
Room(e, t)  == {b \in Blocks : b.order = t /\ Pool(e)!Fits(b)}

Init ==
  /\ mapped = {} /\ created = FALSE
  /\ extents = <<>> /\ active = 0
  /\ out = [e \in Extents |-> {}]
  /\ slabs = [r \in {} |-> 0]
  /\ partial = [c \in Classes |-> <<>>]
  /\ full = [c \in Classes |-> <<>>]
  /\ counter = 0 /\ pc = "idle" /\ retried = FALSE
  /\ class = NoBlock
  /\ pending = {} /\ taken = {} /\ held = {} /\ owed = {}

-----------------------------------------------------------------------------
(* Extents: arena_expand, and the search of the pools before it *)

NewExtent == Len(extents) + 1

\* slab_remove, and the walk of arena_alloc past the active extent: a list
\* without one of its members.
Unlink(list, r) == IF r \in ToSet(list)
                   THEN RemoveAt(list, CHOOSE i \in DOMAIN list : list[i] = r)
                   ELSE list

\* The memory source gives a mapping: the new extent is first and active.
Expand ==
  /\ NewExtent \in Extents
  /\ mapped' = mapped \union {NewExtent}
  /\ extents' = <<NewExtent>> \o extents
  /\ active' = NewExtent

\* The active extent first, then the others in the order of the list.
SearchOrder == <<active>> \o Unlink(extents, active)

NoRoom(t) == \A i \in DOMAIN SearchOrder : Room(SearchOrder[i], t) = {}
Found(e, t) == \E i \in DOMAIN SearchOrder :
  /\ e = SearchOrder[i]
  /\ Room(e, t) # {}
  /\ \A j \in 1..(i - 1) : Room(SearchOrder[j], t) = {}

HandOut(r)  == out' = [out EXCEPT ![r.extent] = @ \union {r.block}]
TakeBack(r) == out' = [out EXCEPT ![r.extent] = @ \ {r.block}]

-----------------------------------------------------------------------------
(* arena_create, on the thread's first allocation *)

CreateArena ==
  /\ ~created /\ pc = "idle"
  /\ mapped' = mapped \union {TheArena}
  /\ pc' = "create"
  /\ UNCHANGED <<created, extents, active, out, caches, counter, class, retried,
                 owed, pending, taken, held>>

CreateExtent ==
  /\ pc = "create"
  /\ Expand
  /\ created' = TRUE
  /\ pc' = "idle"
  /\ UNCHANGED <<out, caches, counter, class, retried, owed, pending, taken, held>>

\* The source refuses the first extent: the arena's own mapping goes back.
Slip_ArenaKept == mapped
ArenaUnmapped  == mapped \ {TheArena}

CreateFails ==
  /\ pc = "create"
  /\ mapped' = ArenaUnmapped
  /\ pc' = "idle"
  /\ UNCHANGED <<created, extents, active, out, caches, counter, class, retried,
                 owed, pending, taken, held>>

-----------------------------------------------------------------------------
(* slab_free_local, arena_free_slab_region and arena_free_buddy_local *)

IsFull(s) == s.used = Capacity[s.owner]

Slip_ListCut(s, i) == [s EXCEPT !.free = <<i>>, !.used = @ - 1]
WithFreed(s, i)    == [s EXCEPT !.free = <<i>> \o @, !.used = @ - 1]
Slip_EmptyTooSoon(s) == s.used <= 1
IsEmpty(s)           == s.used = 0
Slip_StaysFull(s) == FALSE
WasFull(s)        == IsFull(s)
Slip_StaysListed(list, r) == list
Unlisted(list, r)         == Unlink(list, r)

FreeSlot(x) ==
  LET r     == RegionOf(x)
      s     == slabs[r]
      c     == s.owner
      freed == WithFreed(s, x.slot)
      listed == IF WasFull(s) THEN <<r>> \o partial[c] ELSE partial[c]
  IN /\ full' = IF WasFull(s) THEN [full EXCEPT ![c] = Unlink(@, r)] ELSE full
     /\ IF IsEmpty(freed)
        THEN /\ partial' = [partial EXCEPT ![c] = Unlisted(listed, r)]
             /\ slabs' = [q \in DOMAIN slabs \ {r} |-> slabs[q]]
             /\ TakeBack(r)
        ELSE /\ partial' = [partial EXCEPT ![c] = listed]
             /\ slabs' = [slabs EXCEPT ![r] = freed]
             /\ UNCHANGED out

\* The headers say where the object belongs; the code panics when they do not.
Slip_BlockKept(x) == UNCHANGED out
FreeWhole(x) == TakeBack(RegionOf(x))

FreeObject(x) ==
  \/ x.type = "slab" /\ RegionOf(x) \in DOMAIN slabs /\ FreeSlot(x)
  \/ x.type = "buddy" /\ FreeWhole(x) /\ UNCHANGED caches

LocalFree(x) ==
  /\ pc = "idle"
  /\ x \in held
  /\ held' = held \ {x}
  /\ FreeObject(x)
  /\ UNCHANGED <<created, mapped, extents, active, call, pending, taken>>

\* Another thread: arena_remote_free, at any moment.
RemoteFree(x) ==
  /\ x \in held
  /\ held' = held \ {x}
  /\ pending' = pending \union {x}
  /\ UNCHANGED <<created, pools, caches, call, taken>>

-----------------------------------------------------------------------------
(* arena_alloc for an object of class c *)

TakePending == taken' = pending /\ pending' = {}
Slip_TickPastMask == (counter + 1) % (Interval + 1)
Tick              == (counter + 1) % Interval

AllocCall(c) ==
  /\ created /\ pc = "idle"
  /\ Cardinality(held) < MaxHeld
  /\ counter' = Tick
  /\ class' = c
  /\ owed' = pending
  /\ IF Tick = 0 THEN TakePending /\ pc' = "drain"
                 ELSE UNCHANGED <<pending, taken>> /\ pc' = "try"
  /\ UNCHANGED <<created, pools, caches, retried, held>>

DrainOne(x) ==
  /\ pc = "drain"
  /\ x \in taken
  /\ taken' = taken \ {x}
  /\ FreeObject(x)
  /\ UNCHANGED <<created, mapped, extents, active, call, pending, held>>

DrainDone ==
  /\ pc = "drain"
  /\ taken = {}
  /\ pc' = "try"
  /\ UNCHANGED <<created, pools, caches, counter, class, retried, owed,
                 pending, taken, held>>

AllocEnds == /\ pc' = "idle"
             /\ retried' = FALSE
             /\ owed' = {}
             /\ class' = NoBlock
             /\ UNCHANGED <<created, counter, pending, taken>>

\* The first slot of the slab s at r; `rest' is the partial list without it.
Serve(r, s, rest) ==
  LET served == [s EXCEPT !.free = Tail(@), !.used = @ + 1]
  IN /\ slabs' = [q \in DOMAIN slabs \union {r} |-> IF q = r THEN served ELSE slabs[q]]
     /\ IF IsFull(served)
        THEN /\ partial' = [partial EXCEPT ![class] = rest]
             /\ full' = [full EXCEPT ![class] = <<r>> \o @]
        ELSE /\ partial' = [partial EXCEPT ![class] = <<r>> \o rest]
             /\ UNCHANGED full
     /\ held' = held \union {Slot(r, Head(s.free))}

\* slab_create links the slots one by one: the last is first on the list.
NewSlab == [owner |-> class, used |-> 0,
            free |-> [i \in 1..Capacity[class] |-> Capacity[class] + 1 - i]]

AllocSlot ==
  /\ pc = "try"
  /\ partial[class] # <<>>
  /\ LET r == Head(partial[class]) IN Serve(r, slabs[r], Tail(partial[class]))
  /\ AllocEnds
  /\ UNCHANGED pools

AllocSlab ==
  /\ pc = "try"
  /\ partial[class] = <<>>
  /\ \E e \in ToSet(extents) :
       /\ Found(e, SlabOrder)
       /\ active' = e
       /\ \E b \in Room(e, SlabOrder) : LET r == [extent |-> e, block |-> b] IN
            HandOut(r) /\ Serve(r, NewSlab, <<>>)
  /\ AllocEnds
  /\ UNCHANGED <<mapped, extents>>

AllocGrow ==
  /\ pc = "try"
  /\ partial[class] = <<>>
  /\ NoRoom(SlabOrder)
  /\ Expand
  /\ \E b \in Room(NewExtent, SlabOrder) :
       LET r == [extent |-> NewExtent, block |-> b] IN HandOut(r) /\ Serve(r, NewSlab, <<>>)
  /\ AllocEnds

\* The source refuses: drain once and call slab_alloc again, then give up.
Slip_NoRetry == FALSE
Retries == ~retried

AllocRetry ==
  /\ pc = "try"
  /\ partial[class] = <<>>
  /\ NoRoom(SlabOrder)
  /\ Retries
  /\ retried' = TRUE
  /\ TakePending
  /\ pc' = "drain"
  /\ UNCHANGED <<created, pools, caches, counter, class, owed, held>>

AllocRefuse ==
  /\ pc = "try"
  /\ partial[class] = <<>>
  /\ NoRoom(SlabOrder)
  /\ ~Retries
  /\ AllocEnds
  /\ UNCHANGED <<pools, caches, held>>

-----------------------------------------------------------------------------
(* arena_alloc_buddy_region for a block of order t; NumOrders is any order out *)
(* of range, which no pool can serve.                                          *)

BuddyTake(t) ==
  /\ created /\ pc = "idle"
  /\ Cardinality(held) < MaxHeld
  /\ \E e \in ToSet(extents) :
       /\ Found(e, t)
       /\ active' = e
       /\ \E b \in Room(e, t) : LET r == [extent |-> e, block |-> b] IN
            HandOut(r) /\ held' = held \union {Whole(r)}
  /\ UNCHANGED <<created, mapped, extents, caches, call, pending, taken>>

BuddyGrow(t) ==
  /\ created /\ pc = "idle"
  /\ Cardinality(held) < MaxHeld
  /\ NoRoom(t)
  /\ Expand
  /\ \/ \E b \in Room(NewExtent, t) : LET r == [extent |-> NewExtent, block |-> b] IN
          HandOut(r) /\ held' = held \union {Whole(r)}
     \/ Room(NewExtent, t) = {} /\ UNCHANGED <<out, held>>
  /\ UNCHANGED <<created, caches, call, pending, taken>>

BuddyRefuse(t) ==
  /\ created /\ pc = "idle"
  /\ NoRoom(t)
  /\ UNCHANGED vars

-----------------------------------------------------------------------------
BuddyAlloc == \E t \in 0..NumOrders : BuddyTake(t) \/ BuddyGrow(t) \/ BuddyRefuse(t)

Next ==
  \/ CreateArena \/ CreateExtent \/ CreateFails
  \/ \E c \in Classes : AllocCall(c)
  \/ \E x \in taken : DrainOne(x)
  \/ DrainDone
  \/ AllocSlot \/ AllocSlab \/ AllocGrow \/ AllocRetry \/ AllocRefuse
  \/ BuddyAlloc
  \/ \E x \in held : LocalFree(x) \/ RemoteFree(x)

Spec == Init /\ [][Next]_vars

-----------------------------------------------------------------------------
(* Properties *)

TypeOK ==
  /\ mapped \subseteq Extents \union {TheArena}
  /\ created \in BOOLEAN
  /\ extents \in BoundedSeq(Extents, MaxExtents)
  /\ active \in Extents \union {0}
  /\ out \in [Extents -> SUBSET Blocks]
  /\ slabs \in [DOMAIN slabs -> Slabs]
  /\ DOMAIN slabs \subseteq Regions
  /\ partial \in [Classes -> Seq(Regions)] /\ full \in [Classes -> Seq(Regions)]
  /\ counter \in 0..(Interval - 1)
  /\ pc \in {"idle", "create", "drain", "try"}
  /\ class \in Classes \union {NoBlock} /\ retried \in BOOLEAN
  /\ InUse \union owed \subseteq Objects

\* The memory source's account: between calls it has out exactly the arena and
\* the extents on the arena's list; a creation that fails keeps nothing.
MappingsAccounted ==
  /\ extents # <<>> <=> created
  /\ pc = "idle" => mapped = ToSet(extents) \union (IF created THEN {TheArena} ELSE {})
  /\ created => active \in ToSet(extents)

\* The lists of a cache: every slab of the class is on exactly one of them, once:
\* on `full' when all its slots are taken, on `partial' otherwise; an empty slab
\* is on neither, for it has gone back to its pool.
SlabsOf(c) == {r \in DOMAIN slabs : slabs[r].owner = c}
SlabLists ==
  \A c \in Classes :
    /\ IsInjective(partial[c]) /\ ToSet(partial[c]) = {r \in SlabsOf(c) : ~IsFull(slabs[r])}
    /\ IsInjective(full[c]) /\ ToSet(full[c]) = {r \in SlabsOf(c) : IsFull(slabs[r])}
    /\ \A r \in SlabsOf(c) : ~IsEmpty(slabs[r])

\* The slots of a slab: each is on its free list once, or in use, never both, and
\* `used' counts those in use.  No slab goes while one of its slots is in use.
SlotsOf(r)    == 1..Capacity[slabs[r].owner]
SlotsInUse(r) == {i \in SlotsOf(r) : Slot(r, i) \in InUse}
SlotsExact ==
  /\ \A r \in DOMAIN slabs :
       /\ IsInjective(slabs[r].free)
       /\ ToSet(slabs[r].free) = SlotsOf(r) \ SlotsInUse(r)
       /\ slabs[r].used = Cardinality(SlotsInUse(r))
  /\ \A x \in InUse : x.type = "slab" =>
       RegionOf(x) \in DOMAIN slabs /\ x.slot \in SlotsOf(RegionOf(x))

\* The blocks out of a pool are its slabs and its objects in use, each once: no
\* block is lost, and no slab or object is in a block the pool could hand out.
WholeRegions == {r \in Regions : Whole(r) \in InUse}
BlocksExact ==
  /\ DOMAIN slabs \intersect WholeRegions = {}
  /\ \A e \in Extents :
       /\ out[e] = {b \in Blocks : [extent |-> e, block |-> b] \in DOMAIN slabs \union WholeRegions}
       /\ out[e] # {} => e \in ToSet(extents)

\* The promise of an allocator: two objects in use share no memory, whichever
\* slab or pool they came from, and an object is in one place only.
ObjectsApart ==
  /\ held \intersect (pending \union taken) = {} /\ pending \intersect taken = {}
  /\ \A x, y \in InUse : x # y =>
       \/ x.extent # y.extent
       \/ Disjoint(x.block, y.block)
       \/ x.type = "slab" /\ y.type = "slab" /\ x.block = y.block

\* The arena asks for a new extent only when no slab of the class has a free slot
\* and no pool of the arena has room.
GrowsOnlyWhenFull ==
  [][extents' # extents /\ created =>
       \/ /\ AllocGrow
          /\ \A r \in DOMAIN slabs : slabs[r].owner = class => IsFull(slabs[r])
          /\ \A e \in ToSet(extents) : Room(e, SlabOrder) = {}
       \/ \E t \in 0..NumOrders : BuddyGrow(t) /\ \A e \in ToSet(extents) : Room(e, t) = {}]_vars

\* arena_alloc returns NULL only when everything that was pending at its call has
\* been reclaimed and still no slab of the class and no pool can serve it.
RefusesOnlyWhenFull ==
  [][AllocRefuse =>
       /\ owed \intersect pending = {}
       /\ \A r \in DOMAIN slabs : slabs[r].owner = class => IsFull(slabs[r])
       /\ \A e \in ToSet(extents) : Room(e, SlabOrder) = {}]_vars

-----------------------------------------------------------------------------
(* The inductive invariant that the theorems rest on *)

Stores ==
  /\ out \in [Extents -> SUBSET Blocks]
  /\ slabs \in [DOMAIN slabs -> Slabs] /\ DOMAIN slabs \subseteq Regions
  /\ partial \in [Classes -> Seq(Regions)] /\ full \in [Classes -> Seq(Regions)]
  /\ InUse \subseteq Objects

\* Blocks of one pool that are out share no page.
BlocksApart == \A e \in Extents : \A b, d \in out[e] : b # d => Disjoint(b, d)

Memory == Stores /\ SlabLists /\ SlotsExact /\ BlocksExact /\ BlocksApart

OnePlace == held \intersect (pending \union taken) = {} /\ pending \intersect taken = {}

\* The owner's place in its call, and what it may rely on there.
CallOK ==
  /\ extents \in Seq(Extents) /\ IsInjective(extents) /\ ToSet(extents) = 1..Len(extents)
  /\ created = (extents # <<>>) /\ (created => active \in ToSet(extents))
  /\ pc \in {"idle", "create", "drain", "try"}
  /\ mapped = ToSet(extents) \union (IF created \/ pc = "create" THEN {TheArena} ELSE {})
  /\ pc = "create" => ~created
  /\ pc \in {"drain", "try"} => created /\ class \in Classes
  /\ retried \in BOOLEAN /\ (retried => pc \in {"drain", "try"})
  /\ taken # {} => pc = "drain"

\* What was pending at the call is on the stack, taken, or has been freed; and
\* once the call has taken the stack for its retry none of it is on the stack.
OwedOK ==
  /\ owed \subseteq Objects
  /\ owed # {} => pc \in {"drain", "try"}
  /\ owed \intersect held = {}
  /\ retried => owed \intersect pending = {}

CounterOK == counter \in 0..(Interval - 1) /\ active \in Extents \union {0}
             /\ class \in Classes \union {NoBlock}

IInv == Memory /\ OnePlace /\ CallOK /\ OwedOK /\ CounterOK

-----------------------------------------------------------------------------
(* What the repository says, and the code does not do *)

\* "Reclaim cross-thread frees before growing the arena" (arena.c:301): when
\* arena_alloc grows the arena, what was pending at its call has been drained.
ReclaimsBeforeGrowing == [][AllocGrow => owed \intersect pending = {}]_vars

\* "Concurrent cross-thread frees are reclaimed by the owning arena", of buddy
\* blocks (tests/regression.c:403): while blocks keep being asked for, granted and
\* given back, each one that another thread freed is reclaimed.
PendingReclaimed ==
  []<>(held = {}) /\ []<>(held # {}) =>
    \A r \in Regions : Whole(r) \in pending ~> Whole(r) \notin pending

\* An owner that only asks for blocks, as in that test, and keeps asking for them
\* and giving back its own; other threads free some of them.
BuddyNext == \/ CreateArena \/ CreateExtent
             \/ BuddyAlloc
             \/ \E x \in held : LocalFree(x) \/ RemoteFree(x)

BuddySpec == /\ Init /\ [][BuddyNext]_vars
             /\ WF_vars(CreateArena) /\ WF_vars(CreateExtent)
             /\ WF_vars(BuddyAlloc) /\ WF_vars(\E x \in held : LocalFree(x))
=============================================================================
