# A TLA+ model of sigma-malloc

sigma-malloc is a per-thread allocator in C: slab caches over buddy pools over
mapped extents, a direct path for large objects, and a public bump arena on top.
This directory holds TLA+ modules for its parts, TLC configurations that check
them on small instances, and proofs that TLAPS checks for every value of the
constants. Paths are relative to the repository's root; lines are given in
`PROJECT.json`, where `map` names the code each definition stands for.

## 1. Inventory

| Component | State it keeps | Operations | What makes it correct |
|---|---|---|---|
| **Buddy pool** `src/buddy.c` | `tree` (FREE/SPLIT/FULL per node), `free_lists` per order | create, alloc (split loop), free (merge loop) | blocks never share a page; no page is lost; a merge only unlinks a block that is on the list; free buddies are always merged |
| **Arena** `src/arena.c` | `extents`, `active_extent`, `caches`, `alloc_counter`, `remote_frees` | create, expand, search of the pools, `arena_alloc`, block allocation, local free, remote free, drain | what is out of a pool is a slab or an object; an extent is mapped only when nothing has room; mappings balance |
| **Slab caches** `src/slab.c` | per class `partial` and `full` lists; per slab `free_list`, `used` | alloc (new slab if none), `slab_free_local` | each slab is on the one list its count says; each slot is free once or in use; an empty slab goes back |
| **Remote frees** in `src/arena.c` | the atomic head, the link in each object's first word | push (load, link, swap), drain (exchange, walk) | no object lost or doubled; a link is read before it is overwritten; what is pushed comes back |
| **Large allocations** `src/large.c` | doubly linked list, node, metadata and backing of each | alloc (three requests), free, two walks by the collector | the list is exact; nothing is kept when one request fails |
| **Double-free diagnostics** `src/debug_free.c` | a ring of freed pointers, the next index | check, record, forget | no report to a correct program; a record stays its full time |
| **Leak collector** `src/debug.c` | none of its own | walks of trees, slabs, list | it reports the program's objects and no slab, and reads nothing that is freed |
| **Routing and front end** `src/alloc.c`, `src/free.c`, `src/sigma_malloc.c` | headers of objects | alloc, calloc, realloc, free, with debug forms | an object lies in memory of its own; a realloc keeps contents and source location; memory goes back to the arena it came from |
| **Public arena** `src/arena_allocator.c` | block list; `used`, `capacity` per block | alloc, realloc, free (does nothing), reset | pieces lie apart, aligned and inside their block, even near SIZE_MAX; a reset returns every block |
| **Allocator handle** `include/allocator_vtable.h` | a table of operations | dispatch | fallbacks mean what the operations mean |
| **Zero fill** `src/utils/bzero.c` | none | `fill_zero` | every byte, and no other |
| **Memory sources**, **libc wrappers** | none | mmap/malloc, memcpy, panic | external |

How they interact: `sigma_alloc` asks the arena of the calling thread
(`arena_alloc` for small sizes, `arena_alloc_buddy_region` for larger ones) and
falls back to `large_alloc`, which itself takes its node and its metadata from
`arena_alloc`. A slab is a block of a pool. `sigma_free` reads the header in front
of the object and either frees locally, when the object's arena is that of the
calling thread, or pushes the object on its arena's stack. In debug builds
`sigma_free` first consults and extends the ring, and `sigma_alloc` forgets what
it returns.

What is hard here: nearly everything runs on one thread, except three shared
places, each with its own discipline: the lock-free stack of remote frees, the
list of large allocations under `g_large_debug_list_mutex`, and the ring under
`g_freed_mutex`. The rest of the difficulty is in long sequences: splits and
merges that leave stale tree states behind, slabs that move between lists, an
object's first word that is data, remote link and free-list link in turn.
`PROJECT.json` lists 37 hazards with the lines where they bite and the
properties that watch them; those without a property say why.

## 2. The modules

```
PageRuns  <-- implemented by --  BuddyPool (over BuddyIndex)  <-- extended by -- LeakWalk
   ^ used by
 Arena  <-- extended by -- SlabWalk
   v abstracts
PendingFrees <-- implemented by -- RemoteFree

ZeroFill  <-- extended by -- Placement

FrontEnd      BumpArena      FreedRing      LargeList        (on their own)
```

The theorems are in a module beside each of these that EXTENDS it: BuddyProofs (over
LeakWalk), ArenaProofs (over SlabWalk), RemoteFreeProofs, LargeListProofs, FreedRingProofs,
BumpArenaProofs, PlacementProofs and FrontEndProofs.

**BuddyIndex** is the arithmetic of nodes and addresses: `NodeIndex`, `NodePtr`,
`NodeParent`, `NodeBuddy` are the static helpers of `buddy.c`. Addresses are page
numbers from `usable_start`. The sizes of blocks and the starts of rows are tables
with named assumptions (each size is twice the one below, each row starts right after the
one above) instead of powers of two, so that proofs stay in linear arithmetic; the MC
modules give the tables the code's values.

**BuddyPool** has one step per loop iteration of `buddy_alloc` and `buddy_free`, with
the loops' locals (`block`, `order`, `target`, `node`) as variables. `AllocTake`
is the search of the lists and the unlink, `AllocSplit` one split, `AllocFinish` the
mark and the header; `FreeTake` marks the node, `FreeMerge` merges once,
`FreeFinish` lists the block. `live` is what the headers of allocated blocks say. A
request is its order, as Placement's `SizeToOrder` gives it; `NumOrders` stands for
every answer that is out of range.

**PageRuns** is what a caller of a pool relies on: a granted block is disjoint from all
that is out, and a refusal means that no aligned run of that order is free.

**LeakWalk** is a pool with the flags of slab regions beside it, and the leak collector's walk of it, as a
recursive function over the places it can come to (`Walk`). `marked` has the addresses whose last header
is flagged: `buddy_alloc` clears the flag (`FlagCleared`), the arena then sets it in the blocks it takes for
slabs (`AllocRegion`), and `buddy_free` leaves it, so that flags of earlier blocks stay behind. `HeadersRead`
are the blocks whose first word the walk follows, `Reported` those that `IsLeak` lets through: the header
must have the magic, the order of the place, and no flag. Magic and order are written for each block by the
`buddy_alloc` that hands it out, and `live` is what they say. Headers of places that are not handed out,
and what users store over them, are not modelled, since none is read: `WalkIsExact` says that
`HeadersRead = live`.

**RemoteFree** has each atomic access of `arena_remote_free` as a step (`Load`,
`Link`, `SwapSucceeds`, `SwapFails`, which may also fail spuriously), and the owner's
drain object by object. `word` is the first word of each object in all its three roles, and
`Write` is the user's store over it. What a list holds is what its links reach: `Reach` is the
least set of objects that has the first one and is closed under links. The arena is reduced to one cache whose source
gives no more, so that `arena_alloc`'s drain-and-retry path is exercised.
Atomics are interleaved in one order; the release/acquire pair is what makes the plain
store of the link visible to the drain.

**PendingFrees** is what `RemoteFree` implements: an object given back on another
thread is pending until it is free, once.

**Arena** composes pools (through `PageRuns`), slab caches and the pending set (through
`PendingFrees`: one atomic step per push). One arena, several extents, slabs of
two classes and whole blocks. `arena_alloc` is several steps, because other threads push
between them: `AllocCall` (tick, periodic drain), `DrainOne`, `AllocSlot`, `AllocSlab`,
`AllocGrow`, `AllocRetry`, `AllocRefuse`. Growing is always allowed to fail: when the
source refuses, `AllocRetry`, `AllocRefuse` or `BuddyRefuse` follows. `BuddySpec` is an
owner that only asks for blocks.

**SlabWalk** adds the leak collector's walk of the slabs of an arena: a step (`Pushes`) for each
slot it reports, by the place of the slab in the lists of its cache.

**Placement** follows one request at a time from `sigma_alloc` to the address of its object, with the
code's own constants, header sizes (of a 64-bit build, debug or not) and sums: `Route`, then
`SlabAlloc` (`CacheFor`, `SlotAt`), `BlockAlloc` (`SizeToOrder`, `UserInBlock`) or `LargeAlloc`
(`BackingSize`), then sigma_calloc's `Fill`. Sums wrap at `SizeMax`. Which slot or block it is does not
matter here; its address does, and ranges over `Bases`; memory ends within the address space
(`Addressable`, which is the memory source's).

**ZeroFill** is `fill_zero` as operators: the ranges of bytes that each vector form, the small
stores and the word loop write, with `Exactly` as the reference. Placement calls it, on
objects and on bytes of the caller's own (`FillCall`).

**FrontEnd** is the program's view: `Allocate`, `Calloc`, `Realloc`, `Free`, with the handle's
fallbacks for a table that lacks calloc or realloc, by several threads on several
allocators. A call here is one step that passes a heap from one internal call to the
next (a realloc is allocate, copy, free; freeing a large object is freeing two slots
as well). `heap` is what the header and the memory of each cell hold, cells that wait for their arena's own
thread included; `has` is what the program knows of each of its objects. `End` ends a thread;
`FreeElsewhere` is the panic for another allocator's object.

**BumpArena** has machine words of `SizeMax + 1` values, so that every sum that could wrap
does wrap; the padding depends on the address the parent happens to return (`phase`).
`memory` is the contents, cell by cell, so that a copy that is too long shows, and each piece has the
alignment it was asked with. Alignments are powers of two, of which the model needs that each divides
the larger ones. `Reset` returns the blocks in one step: nothing runs beside the loop of
`allocator_arena_reset`, so the order of its calls is left out.

**FreedRing** has the look-up, the record and the giving back of `sigma_free` as three steps,
with other threads between them. Programs may be wrong: `Call` allows a second free while
the ring could know of the first.

**LargeList** has each of the three requests of `large_alloc` as a step that may fail, the
critical sections of `large_alloc` and `large_free` as one step each (they hold the mutex), and
the collector's two walks node by node, the one with the mutex and the one without.

Operators whose name begins with `Slip_` are not the code. Each states the definition
below it with one plausible mistake (a dropped guard, a list not updated); putting it in
the definition's place must break the property `PROJECT.json` pairs it with under
`mutants`, which shows that the property depends on that line of the code.

## 3. The runs

Runs that pass:

| Run | Instance | What it shows |
|---|---|---|
| `buddy_pool` | 8 pages, 4 orders, slabs of 4 pages; 475,601 states | blocks stay apart (`NoOverlap`), cover the pool (`NothingLost`); a merge unlinks only a listed block (`BuddyListed`); free buddies merge (`Coalesced`); the leak walk reads the headers of the blocks that are out and reports those that are no slab's region (`WalkIsExact`); the pool implements `PageRuns`; the proofs' `IInv` holds, which contains `TypeOK` and implies `TreeAgrees` |
| `remote_free` | 3 objects, 2 remote threads, a drain every 2nd call; 421,011 states | each object is in exactly one place (`Accounted`), the drain never frees one whose magic is gone (`NeverPanics`), users' stores never hit a link (`LinksIntact`), `PendingFrees` is implemented, what is pushed comes back (`Reclaimed`) |
| `arena` | 2 extents of 2 pages, classes of 3 and 2 slots, at most 2 objects held; 424,340 states | mappings balance (`MappingsAccounted`), lists, counts and blocks are exact (`SlabLists`, `SlotsExact`, `BlocksExact`), objects share no memory (`ObjectsApart`), the collector's walk reports the slots in use, undrained ones included, each once (`SlabWalkExact`), the arena grows and refuses only when it must |
| `bump_arena` | 4-bit words, blocks of 6 cells, sizes up to 15, 3 blocks, 4 pieces; 606,081 states | pieces lie in their blocks at their alignment (`PiecesFit`), keep their contents over other requests and reallocs (`ContentsKept`), a reset returns every block (`BlocksReturned`) |
| `freed_ring` | 3 pointers, 2 threads, a ring of 2; 20,891 states | no report to a correct program (`NoFalseAlarm`); the ring is exactly the last frees (`WindowExact`) |
| `large_list` | 3 allocations, 3 threads and the collector; 23,243 states up to symmetry | the list is exact (`ListExact`), nothing is kept after a failure (`NothingKept`), the locked walk reports exactly what there is (`LockedWalkExact`) |
| `placement` | 30-bit words, 135 sizes, 10 alignments, 5 base addresses, both builds; 51,000 states | an object, its header and its alignment fit its slot, block or backing (`InOwnMemory`); the order is the least that holds it (`OrderLeast`); a fill zeroes every byte and no other (`ZeroedExactly`) |
| `front_end` | 2 threads, 2 allocators, 6 cells, sizes 1 to 3; 72,695 states up to symmetry | large objects are handed out and given back whole (`HandedOut`), contents survive calloc, stores and reallocs (`ContentsKept`), so do locations (`InfoTrue`), and only its own thread puts memory back into an arena (`Confined`) |

Runs that find a disagreement with what the repository says:

| Run | Says | Does |
|---|---|---|
| `expand_before_drain` | `src/arena.c:301`: "Reclaim cross-thread frees before growing the arena." | the `slab_alloc` above that line has already grown the arena when no pool had room; the drain comes only if the source refused |
| `buddy_never_drains` | `tests/regression.c:403`: concurrent cross-thread frees of blocks "are reclaimed by the owning arena" | only `arena_alloc`, for small objects, drains; an owner that asks only for blocks never reclaims |
| `walk_unlocked` | `tests/regression.c:409`: concurrent large allocations "keep leak tracking consistent" | `collect_slab_leaks` walks the list of large allocations without the mutex (`src/debug.c:197`) and can stand on a node that another thread has freed |
| `leak_location` | `README.md:18`: "Leak source locations ... in debug builds" | a debug header is 56 bytes and starts 8 bytes into its slot; the collector reads it at the slot's start (`src/debug.c:191`), so the file it reports is the slab pointer |

### Why the bounds are enough

Every property but `Reclaimed` is also proved for all values of the constants (section 4), so these bounds
are what makes a run find a mistake, and no limit of what is known when it finds none.

* `MaxOrder = 3` is the least pool in which a merge leaves two levels of stale states below a
  FREE node, and in which a block is split again over them. Slabs of four pages
  have two places, at which single pages, halves and the whole pool come at other times.
* Three objects and two remote threads are the least with which the head can be popped and
  pushed again between another thread's load and its swap while a third object is below it.
* Two extents of two pages let a page be half of a larger block, a slab or an object, let an
  extent be searched when it is not the active one, and let the source refuse (a third
  extent). `MaxHeld` bounds the objects the program holds; those pending and
  taken are not counted by it, so slabs still fill, empty and go back.
  `Interval = 2` makes both the calls that drain and those that do not occur.
* With words of four bits, sizes 14 and 15 make each guard of `arena_new_block` and
  `arena_alloc_internal` matter, and small ones share a block, with and without padding.
* A ring of 2 with 3 pointers makes records go out of the ring and leaves holes.
* Three allocations give a first, a middle and a last node. `large_list` uses symmetry; all its
  properties are invariants.
* `placement` has every size at which a class, a width of store, an order or a word ends with its
  neighbours, the same less each header and padding, and sizes around a page below `SizeMax`.
  Bases are multiples of 16 (as malloc gives them) before, on and after the bounds of large
  alignments. Its source refuses a request of no bytes, as mmap does: for one that answers it
  (`EmptyGiven = TRUE`) `InOwnMemory` is violated, because the rounding of `large_alloc` wraps within
  a page of `SizeMax`.
* `front_end` has one object held at a time, two in a realloc; with two held the states are too many, and that
  a call touches no object but its own is what FrontEndProofs shows for any number. Six cells let a
  large object move to another large one; sizes 1 to 3 are a slab's, a pool's (which may refuse)
  and a backing's. Which unused cell is taken makes no difference, since all are alike. The constraint
  `MCFewWait` keeps to states in which the cells that wait are of one arena and at most two (a large object's
  parts); states just beyond are still checked. Every thread may
  end, so the run does not look for deadlock.

### Fairness

Only two specifications state fairness. `RemoteFree!Spec` has `WF_vars(AllocStep)`: the owner
keeps calling `arena_alloc` and finishes its calls, since nothing in them blocks. It asks
nothing of the other threads: the stack is lock-free but not wait-free, and `Reclaimed` is about
objects that are already on it. `Arena!BuddySpec` has weak fairness on creating the arena,
asking for blocks and freeing the owner's own; the counterexample to `PendingReclaimed` is
thus one in which the owner works for ever and is served again and again.

## 4. The proofs

Every property of a passing run is a theorem, for all values of the constants that the named
assumptions of its module allow, except `Reclaimed`. Each component has an inductive invariant
`IInv`, stated at the end of its module, and a theorem `Invariance` (`Spec => []IInv`) from which the
others follow. Every `IInv` was first checked by TLC, as an invariant of the component's run; that
of BuddyPool is one for good. A proof has one lemma per action, put together in a lemma
`StepIInv` (`StepKeeps` in FrontEndProofs).

**BuddyProofs** (pools of any number of orders). `NoOverlap` is not inductive. Whether a merge
keeps blocks apart depends on the buddy being a free block, and `buddy_free` reads that from a
tree that also holds stale states. `TreeExact` is what is missing: blocks held or listed have true
states, a FREE node *below a SPLIT one* is a block that is listed or in hand, and SPLIT nodes hang
below SPLIT nodes. The node in hand in a merge has a SPLIT parent, so its buddy has too, so a FREE
buddy is listed; and marking the parent FREE strands no SPLIT node, since both children are FREE.
`TreeComplete` is the other direction, on which `Coalesced` and a refusal rest: below SPLIT nodes,
what is not SPLIT is a block in some place. With `NeverBoth` (no two buddies are both listed) they
give `Coalesced`, and every step is one of PageRuns or a stutter (`Implements`): a pool without a
block of the order or above on its lists has no free run, because a free aligned run is made
of leaves, and leaves that fill a block are merged. `NothingLost` follows pages through each split
and merge. `LeaksFound` is about the collector's recursion: the function exists because each
call goes one order down (`WalkExists`), it comes to a block exactly when the path above says SPLIT
(`LiveReported`, `ReportsLive`). What it reports of these rests on `FlagsOwn`, inductive beside `IInv`: a
block in hand begins where no block that is out does, so that `buddy_alloc` clears, and the arena sets, the
flag of no other block, and a flag left behind is cleared before it can hide one. Assumed: `MaxOrder` is a natural, sizes
double, rows begin right after the rows above; that rows do not overlap is proved.

**ArenaProofs** (any classes, capacities, extents, number of objects). `Memory` has the lists,
the slots and the blocks of every pool together, because a step that frees the last slot of a slab
touches all three; `OnePlace` says that held, pending and taken objects are apart; `CallOK`, `OwedOK`
and `CounterOK` are the locals of a call of `arena_alloc`, to which other threads push in between.
Lemmas say what serving, freeing, pushing and unlinking do to any memory, and an action cites them.
`GrowsLast` and `RefusesLast` are action properties: when the arena maps an extent no slab of the class
has a free slot and no pool has room, and a refusal is true even of what was owed at the call.
`SlabLeaksFound` says that the collector's passes meet each slot in use once.

**RemoteFreeProofs** (any number of objects and threads). The lists are given by links, so the
invariant is about what they reach: each is `Straight` (it ends, and comes back to no object), and
all are apart. The heart is `PushOK`: an object about to be swapped in is linked to the head its
thread saw, *whatever has become of that head*. When the swap finds the head it saw, the object's link
leads to what is the head now, which is why a head that was popped, handed out, freed and pushed
again meanwhile (ABA) does no harm. That the links of a new slab do not turn back on themselves is derived
from the reach of `Init`. `Implements` maps each step to PendingFrees: a push is at its
call, the drain's free is the one that completes.

**LargeListProofs** (any number of threads and allocations). `ListWhole` claims *some* order of the
held nodes that is the order of the links; under it, the walk with the mutex has come to a place in that
order and reported what lies before. Linking puts a node in front, unlinking takes one out of
the order, wherever it is. `NothingKept` is proved pointwise (`GivenMeans`): what is
mapped or in use is of one held allocation or in one thread's hands. Assumed: the null pointer is no
memory, and the source and the arena give different memory.

**FreedRingProofs** (rings of any size, any threads and pointers). `AgesPlaced` says that a record of
age *n* is *n* places behind the index, and a place holds no pointer that is younger elsewhere;
`OneLife` says that a pointer of a program that frees only what it holds is in one place.
`NeverAccused` and `ExactWindow` follow.

**BumpArenaProofs** (words, alignments, sizes and blocks of any number). The guards of
`arena_alloc_internal` and `arena_new_block` are shown to be enough: no sum they let pass wraps. The padding
leads to a multiple of the alignment (`PaddingAligns`), which a piece keeps as its block does not move. A new
piece begins at or past `used`, and all pieces lie below it, so that pieces are apart; a store
or a copy is inside its piece, so that `ContentsKept` is kept. Ids of blocks are fresh by
counting. Assumed: the header is a multiple of the largest alignment the parent gives, as
`sizeof` makes it, and each alignment divides the larger ones.

**PlacementProofs** (words from 2^24 on, any size, alignment and address). The order that
`size_to_order` answers is the least (`LeastOrder`), from lemmas on the two logarithms; a slab has
room for its header and the slots it counts; a block has room for the header, the word in front
of it and the worst padding; a backing has, if the source refuses an empty request
(`OwnMemory` and that conjunct of `IInv` keep
`EmptyGiven = FALSE` as their hypothesis: over the repository's malloc source nothing is claimed of a backing). `FilledExactly` goes through the width classes of
`fill_zero`, loops and overlapping ends included.

**FrontEndProofs** (any threads, allocators, cells and sizes; any number of objects). As an operation is
the calls it makes, a call is proved of any heap: `Good(h, k)` is the invariant of a heap `h` and of an
account `k` of what the program knows; the drain, a placement, a free and a store keep it
(`DrainKeeps`, `PlaceKeeps`, `FreeKeeps`, `UpdateKeeps`), and a realloc composes two of them.
`PartsAreSlots` is what `HandedOut` lacks: a part is a slot and has no parts of its own, so what
is freed with a large object strands nothing. `TotalFits` shows that what the guard of `sigma_calloc` passes does not wrap. `EndedArenasKeep`
is an action property: no step of another thread takes a cell off what an ended thread's arena lacks.

Induction here is always an argument about the least counterexample of a set of naturals
(`LeastNatural`), since the library's induction theorems take operators. The one recursive
function, the walk, is defined by a choice, so it has its equation once a function with that equation is
shown to exist.

Only model-checked: `Reclaimed`, which is liveness, and the four runs that find a disagreement, whose
properties do not hold. The contents that `sigma_calloc` leaves rest on two modules: FrontEnd has it
that what is not filled came zeroed, ZeroFill that a fill is complete.

## 5. Not modelled

* The collector's table of leaks with its bound and its lack of a lock, and the race of
  `sigma_alloc_debug` with a collector over a large object's location. Reading source lines and
  printing are I/O.
* A handle without a table, or a table without alloc or free. The alignment of a request is in
  Placement and BumpArena only.
* An allocator initialised again at the address of an earlier one, and a wrong old size given to the
  fallback of realloc.
* Memory sources are a choice to give or refuse; libc wrappers and macros have no state;
  tests, examples and the stress runner are clients.
* What the program does after a panic or after corrupting memory is not followed.

## 6. Plan

Written, in this order: BuddyIndex and BuddyPool with PageRuns; RemoteFree with PendingFrees;
Arena over both; BumpArena; FreedRing; LargeList; LeakWalk; ZeroFill and Placement; FrontEnd;
SlabWalk; then the proofs, component by component.

Left to model: the collector's table of leaks beside a second collector, and a table without free.

Left to prove: that `Accounted` and the other theorems of RemoteFree still hold of an arena with several
caches, which needs RemoteFree and Arena in one module; and that what Placement computes is what
BuddyPool's orders and Arena's capacities assume.
