------------------------------ MODULE FrontEnd ------------------------------
(***************************************************************************)
(* What a program calls: sigma_alloc, sigma_calloc, sigma_realloc and       *)
(* sigma_free with their debug forms (src/alloc.c, src/free.c,              *)
(* src/sigma_malloc.c), behind a generic handle (allocator_vtable.h) whose  *)
(* table may lack calloc and realloc.  Several threads use several          *)
(* allocators; each thread has its own arena of each (src/arena.c:          *)
(* g_thread_arenas), and a thread may end while its objects live on.        *)
(*                                                                         *)
(* A cell is memory for one object: a slot of a slab, a block of a pool, or *)
(* a backing; which unused one a request gets makes no difference, so it is *)
(* the first.  The calls run in a heap that is passed from one to the next, *)
(* so that an operation is the calls it makes, in order; Arena, RemoteFree  *)
(* and LargeList take apart what is one call here.  Sizes are counted in    *)
(* units, few enough that each allocator serves some.                       *)
(***************************************************************************)
EXTENDS Naturals, FiniteSets

CONSTANTS
  Threads, Allocators,
  NCells,             \* bound: the memory there is
  MaxHeld,            \* bound: objects the program holds at once
  MaxSlab, MaxPool,   \* MAX_SLAB_OBJ_SIZE and BUDDY_POOL_SIZE
  SizeMax,            \* SIZE_MAX, and the bound of a request
  Zeroed,             \* source->returns_zeroed_memory
  Places              \* source locations a debug call may name

ASSUME FrontEndAssumption ==
  /\ NCells \in Nat
  /\ MaxSlab \in Nat \ {0} /\ MaxPool \in Nat /\ SizeMax \in Nat
  /\ MaxSlab <= MaxPool /\ MaxPool <= SizeMax
  /\ Zeroed \in BOOLEAN
  /\ "null" \notin Places

VARIABLES
  live,     \* the threads that have not ended
  heap,     \* cell -> the header and the data in it
  has       \* ghost: cell -> what the program knows of its object there

vars == <<live, heap, has>>

(* The operators named Slip_ are not the code: each is the definition below it *)
(* with one plausible mistake, which some property must notice.              *)

\* An arena is found, and made when first asked for, by its thread and its allocator.
Arenas == Threads \X Allocators
Cells  == 1..NCells
Sizes  == 1..SizeMax

\* Of a cell: `home' is the arena it belongs to (for a backing, only its allocator
\* counts), `parts' the node and metadata of a large object, `size' what was asked for.
\* Data is "zero", "mark" (stored by the program) or "junk", info a place or "null" (none,
\* or junk).  What a next object finds in memory that was given back is junk.
Unused == [kind |-> "none", home |-> <<>>, parts |-> {}, size |-> 0, data |-> <<>>,
           info |-> "null"]

\* Freed by another thread, on its arena's stack until the arena's own takes it back.
Waiting(arena) == [Unused EXCEPT !.kind = "waiting", !.home = arena]

Fill(n, v)        == [i \in 1..n |-> v]
Knows(want, said) == [want |-> want, said |-> said]
NotHeld           == Knows(<<>>, "null")
Holds(k)          == {c \in Cells : k[c] # NotHeld}
Owned             == Holds(has)

Init ==
  /\ live = Threads
  /\ heap = [c \in Cells |-> Unused]
  /\ has = [c \in Cells |-> NotHeld]

-----------------------------------------------------------------------------
(* Giving memory back: slab_free_local, buddy_free, arena_remote_free, large_free *)

\* sigma_free: arena_get_existing(sigma) == owner
Slip_AlwaysLocal(t, a, x) == TRUE
IsLocal(t, a, x) == x.home = <<t, a>>

GivenBack(t, a, x) == IF IsLocal(t, a, x) THEN Unused ELSE Waiting(x.home)

\* large_free: sigma_free for the metadata and the node, and the backing unmapped.
Slip_NodeForgotten(x) == {p \in x.parts : \E q \in x.parts : q < p}
PartsOf(x)            == x.parts

FreeIn(h, t, a, c) ==
  [d \in Cells |->
     IF d = c THEN IF h[c].kind = "large" THEN Unused ELSE GivenBack(t, a, h[c])
     ELSE IF d \in PartsOf(h[c]) THEN GivenBack(t, a, h[d])
     ELSE h[d]]

\* arena_drain_remote_frees
Drained(h, arena) == [c \in Cells |-> IF h[c] = Waiting(arena) THEN Unused ELSE h[c]]

-----------------------------------------------------------------------------
(* Getting memory *)

\* The heap a request works in: arena_alloc may drain first.
Heap(t, a, drains) == IF drains THEN Drained(heap, <<t, a>>) ELSE heap

FreeCells(h) == {c \in Cells : h[c] = Unused}
First(S)     == {c \in S : \A d \in S : c <= d}
FirstTwo(S)  == UNION {{{c, d} : d \in First(S \ {c})} : c \in First(S)}

\* What may serve n units, in the order sigma_alloc asks: slab; else pool, which never
\* drains, and when it refuses large; else large, which takes two slots besides.
Kinds(n) == IF n <= MaxSlab THEN {"slab"}
            ELSE IF n <= MaxPool THEN {"buddy", "large"} ELSE {"large"}

PlansOf(k, drains, S) ==
  UNION {{[kind |-> k, cell |-> c, parts |-> P, drains |-> drains] :
            P \in IF k = "large" THEN FirstTwo(S \ {c}) ELSE {{}}} : c \in First(S)}

Plans(t, a, n) ==
  UNION {PlansOf(x[1], x[2], FreeCells(Heap(t, a, x[2]))) :
           x \in {y \in Kinds(n) \X BOOLEAN : y[1] = "buddy" => ~y[2]}}

\* large_alloc clears the location, slab_alloc and buddy_alloc leave junk there.
Object(kind, home, parts, n) ==
  [kind |-> kind, home |-> home, parts |-> parts, size |-> n,
   data |-> Fill(n, IF kind = "large" /\ Zeroed THEN "zero" ELSE "junk"),
   info |-> "null"]

\* The heap in which sigma_alloc has served n units as p says.
Served(t, a, n, p) ==
  LET h == Heap(t, a, p.drains)
  IN [c \in Cells |-> IF c = p.cell THEN Object(p.kind, <<t, a>>, p.parts, n)
                      ELSE IF c \in p.parts THEN Object("slab", <<t, a>>, {}, 1)
                      ELSE h[c]]

-----------------------------------------------------------------------------
(* The program's calls, by a thread t on an allocator a *)

\* The debug forms write the place they are told into the new object's header.
Located(h, c, place) == IF place = "null" THEN h ELSE [h EXCEPT ![c].info = place]

\* sigma_alloc, and with a place sigma_alloc_debug.
Allocate(t, a, n, place) ==
  /\ \E p \in Plans(t, a, n) :
       /\ heap' = Located(Served(t, a, n, p), p.cell, place)
       /\ has' = [has EXCEPT ![p.cell] = Knows(Fill(n, "any"), place)]
  /\ UNCHANGED live

\* count * size wraps beyond SizeMax, unless it is refused first.
Slip_Unchecked(count, size) == TRUE
CountFits(count, size)      == count <= SizeMax \div size
Total(count, size)          == (count * size) % (SizeMax + 1)

\* sigma_calloc leaves the kind of memory alone that came zeroed from the source; the
\* handle's fallback, for a table without calloc, does not.
Slip_ZeroedSource == IF Zeroed THEN {"slab", "buddy", "large"} ELSE {}
CameZeroed        == IF Zeroed THEN {"large"} ELSE {}

ZeroAlloc(t, a, count, size, place, clean) ==
  LET n == Total(count, size) IN
  /\ CountFits(count, size) /\ n > 0
  /\ \E p \in Plans(t, a, n) :
       LET new == Located(Served(t, a, n, p), p.cell, place) IN
       /\ heap' = IF p.kind \in clean THEN new ELSE [new EXCEPT ![p.cell].data = Fill(n, "zero")]
       /\ has' = [has EXCEPT ![p.cell] = Knows(Fill(count * size, "zero"), place)]
  /\ UNCHANGED live

Calloc(t, a, count, size, place) == ZeroAlloc(t, a, count, size, place, CameZeroed)
FallbackCalloc(t, a, count, size, place) ==
  ZeroAlloc(t, a, count, size, place, {})

\* NULL, for want of memory or of an arena: the program has what it had.
AllocFails(t, a) ==
  /\ heap' = Drained(heap, <<t, a>>)
  /\ UNCHANGED <<live, has>>

Smaller(m, n) == IF m < n THEN m ELSE n
Copied(from, to, count) == [i \in DOMAIN to |-> IF i <= count THEN from[i] ELSE to[i]]

\* Allocate, copy, free the old object.  `old' is the caller's word for its size, and at
\* least what matters to it.
MoveObject(t, a, c, old, n, copies, info, said) ==
  /\ c \in Owned /\ heap[c].home[2] = a
  /\ \E p \in Plans(t, a, n) :
       LET new   == p.cell
           moved == [Served(t, a, n, p) EXCEPT
                       ![new].info = info,
                       ![new].data = Copied(heap[c].data, @, copies)]
           kept  == Smaller(Smaller(heap[c].size, n), old)
       IN /\ heap' = FreeIn(moved, t, a, c)
          /\ has' = [has EXCEPT
                       ![c] = NotHeld,
                       ![new] = Knows(Copied(has[c].want, Fill(n, "any"), kept), said)]
  /\ UNCHANGED live

\* sigma_realloc trusts the old object's header over the caller, and takes the source
\* location along.
Slip_InfoLeft(c) == "null"
MovedInfo(c)     == heap[c].info

Realloc(t, a, c, old, n) ==
  MoveObject(t, a, c, old, n, Smaller(Smaller(heap[c].size, n), old), MovedInfo(c),
             has[c].said)

\* The handle's fallback, for a table without realloc, must believe the caller, and knows
\* nothing of locations.
FallbackRealloc(t, a, c, old, n) ==
  /\ old <= heap[c].size
  /\ MoveObject(t, a, c, old, n, Smaller(old, n), "null", "null")

\* sigma_free, and a realloc to no size.
Free(t, a, c) ==
  /\ c \in Owned /\ heap[c].home[2] = a
  /\ heap' = FreeIn(heap, t, a, c)
  /\ has' = [has EXCEPT ![c] = NotHeld]
  /\ UNCHANGED live

\* "allocation belongs to another allocator": a panic ends every thread.
FreeElsewhere(t, a, c) ==
  /\ c \in Owned /\ heap[c].home[2] # a
  /\ live' = {}
  /\ UNCHANGED <<heap, has>>

Store(t, c) ==
  /\ c \in Owned
  /\ LET marks == Fill(heap[c].size, "mark")
     IN /\ heap' = [heap EXCEPT ![c].data = marks]
        /\ has' = [has EXCEPT ![c].want = marks]
  /\ UNCHANGED live

\* A thread ends; nothing takes its arenas over.
End(t) ==
  /\ live' = live \ {t}
  /\ UNCHANGED <<heap, has>>

Step(t) ==
  /\ t \in live
  /\ \/ End(t)
     \/ \E c \in Owned : Store(t, c)
     \/ \E a \in Allocators :
          \/ AllocFails(t, a)
          \/ Cardinality(Owned) < MaxHeld /\ \E place \in Places \union {"null"} :
               \/ \E n \in Sizes : Allocate(t, a, n, place)
               \/ \E count, size \in Sizes :
                    \/ Calloc(t, a, count, size, place)
                    \/ FallbackCalloc(t, a, count, size, place)
          \/ \E c \in Owned :
               \/ Free(t, a, c) \/ FreeElsewhere(t, a, c)
               \/ \E old, n \in Sizes :
                    Realloc(t, a, c, old, n) \/ FallbackRealloc(t, a, c, old, n)

Next == \E t \in Threads : Step(t)

Spec == Init /\ [][Next]_vars

-----------------------------------------------------------------------------
(* Properties *)

KindsOf == {"slab", "buddy", "large"}
Values  == {"zero", "mark", "junk"}

\* A cell that is handed out, as its header and its data say.
Header(x) ==
  /\ x \in [kind : KindsOf, home : Arenas, parts : SUBSET Cells, size : Sizes,
            data : UNION {[1..n -> Values] : n \in Sizes}, info : Places \union {"null"}]
  /\ x.data \in [1..x.size -> Values]

TypeOK ==
  /\ live \subseteq Threads
  /\ heap = [c \in Cells |-> heap[c]] /\ has = [c \in Cells |-> has[c]]
  /\ \A c \in Cells : heap[c] = Unused \/ heap[c] \in {Waiting(r) : r \in Arenas} \/ Header(heap[c])
  /\ \A c \in Owned : /\ has[c] = Knows(has[c].want, has[c].said)
                      /\ DOMAIN has[c].want = 1..heap[c].size

\* Memory handed out is an object of the program, or the node or metadata of one
\* large object; each once.  A large object that is freed or moved takes its parts
\* along, whichever thread does it and whichever arenas they came from.
HandedOut ==
  LET out == {c \in Cells : heap[c].kind \in KindsOf}
  IN /\ out = Owned \union UNION {heap[c].parts : c \in Owned}
     /\ \A c \in Owned :
          /\ heap[c].kind = "large" => \E n, m \in Cells : n # m /\ heap[c].parts = {n, m}
          /\ heap[c].parts \intersect
               (Owned \union UNION {heap[d].parts : d \in Owned \ {c}}) = {}

\* An object holds what the program last stored, zeros after a calloc of either
\* kind wherever its memory comes from, and after a realloc the prefix of the old one.
ContentsKept ==
  \A c \in Owned : \A i \in DOMAIN has[c].want :
    has[c].want[i] # "any" => heap[c].data[i] = has[c].want[i]

\* A location given at an object's allocation is the one its header names for as long
\* as it lives, through every sigma_realloc and from one kind of memory to another.
InfoTrue ==
  \A c \in Owned : has[c].said # "null" => heap[c].info = has[c].said

\* Only the thread of an arena puts memory back on its lists: once that thread has
\* ended, what the arena lacks (objects, parts of large ones, cells that wait for the
\* drain) never comes back, whatever the others free.
Lacks(arena) == {c \in Cells : heap[c].home = arena /\ heap[c].kind # "large"}

EndedKeepLacking ==
  \A t \in Threads \ live, a \in Allocators : Lacks(<<t, a>>) \subseteq Lacks(<<t, a>>)'

Confined == [][EndedKeepLacking]_vars

-----------------------------------------------------------------------------
(* The inductive invariant that the theorems rest on *)

\* Only a large object has parts, and they are slots of slabs.
PartsAreSlots ==
  \A c \in Cells :
    /\ heap[c].kind # "large" => heap[c].parts = {}
    /\ \A p \in heap[c].parts : heap[p].kind = "slab"

IInv == TypeOK /\ HandedOut /\ PartsAreSlots /\ ContentsKept /\ InfoTrue
=============================================================================
