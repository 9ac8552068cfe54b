----------------------------- MODULE Placement -----------------------------
(***************************************************************************)
(* Where an object lies.  sigma_alloc (src/alloc.c) routes a request by    *)
(* size and alignment; the slab caches (src/slab.c), the buddy pools       *)
(* (src/buddy.c) and large_alloc (src/large.c) each put a header before    *)
(* the object inside memory they have chosen by a sum of the size, the     *)
(* header and the worst padding; sigma_calloc then fills it.  Sizes,       *)
(* headers and layouts are those of the code; words have SizeMax + 1       *)
(* values, so that sums near SIZE_MAX wrap.                                *)
(*                                                                         *)
(* Which block, slot or backing it is, and whether there is one, is left   *)
(* open: Arena, BuddyPool and LargeList are about that.                    *)
(***************************************************************************)
EXTENDS ZeroFill, FiniteSets, FiniteSetsExt

CONSTANTS
  SizeMax,      \* SIZE_MAX
  Zeroed,       \* source->returns_zeroed_memory
  EmptyGiven,   \* does the memory source answer a request of no bytes
  Sizes, Alignments,  \* bound: the requests
  Offsets,      \* bound: addresses fill_zero is called with
  Bases         \* bound: addresses of a block or a backing

ASSUME PlacementAssumption ==
  /\ SizeMax \in Nat /\ SizeMax >= 2^24   \* a word holds any sum about a pool
  /\ {Zeroed, EmptyGiven} \subseteq BOOLEAN
  /\ Sizes \subseteq 0..SizeMax /\ Alignments \subseteq 0..SizeMax
  /\ Bases \subseteq Nat /\ Offsets \subseteq Nat

VARIABLES debug,      \* SIGMA_DEBUG, fixed when built: headers hold a source location
          pc,         \* "idle", "slab", "pool", "large", "served" or "filled"
          size, alignment, zero,   \* the request; zero: made by sigma_calloc
          object,     \* the object served
          stores      \* the ranges fill_zero has zeroed

vars    == <<debug, pc, size, alignment, zero, object, stores>>
request == <<debug, size, alignment, zero>>

PAGE_SIZE         == 4096
SLAB_SIZE         == 4 * PAGE_SIZE
MAX_SLAB_OBJ_SIZE == 1024
SLAB_MAX_ALIGNMENT == 16
SizeClasses       == <<16, 32, 64, 128, 256, 512, 768, 1024>>
BUDDY_MIN_ORDER   == 12
BUDDY_NUM_ORDERS  == 11
BUDDY_POOL_SIZE   == 2^22
POINTER           == 8
SlabHeader        == 64                            \* sizeof(slab_t)
ObjHeader         == IF debug THEN 56 ELSE 32      \* sizeof(obj_header_t)
BuddyHeader       == IF debug THEN 80 ELSE 56      \* sizeof(buddy_header_t)
LargeHeader       == 32                            \* sizeof(large_header_t)

(* The operators named Slip_ are not the code: each is the definition below it *)
(* with one plausible mistake, which some property must notice.              *)

NoObject == [kind |-> "none"]

Word(n)       == n % (SizeMax + 1)
AlignUp(x, a) == LET sum == Word(x + a - 1) IN sum - (sum % a)

Slip_NonZero(a) == a # 0
ValidAlignment(a) == \E k \in 0..30 : a = 2^k

Init ==
  /\ debug \in BOOLEAN
  /\ pc = "idle"
  /\ size = 0 /\ alignment = 0 /\ zero = FALSE
  /\ object = NoObject /\ stores = {}

-----------------------------------------------------------------------------
(* sigma_alloc: the checks, and the order in which the allocators are asked *)

Route(n, a) ==
  IF n <= MAX_SLAB_OBJ_SIZE /\ a <= SLAB_MAX_ALIGNMENT THEN "slab"
  ELSE IF n <= BUDDY_POOL_SIZE /\ a <= BUDDY_POOL_SIZE THEN "pool"
  ELSE "large"

Call(n, a, z) ==
  /\ pc = "idle"
  /\ n # 0 /\ ValidAlignment(a)
  /\ size' = n /\ alignment' = a /\ zero' = z
  /\ pc' = Route(n, a)
  /\ UNCHANGED <<debug, object, stores>>

\* NULL for an empty request, or an alignment that is no power of two.
Refuse(n, a) ==
  /\ pc = "idle"
  /\ n = 0 \/ ~ValidAlignment(a)
  /\ UNCHANGED vars

Return ==
  /\ pc' = "idle"
  /\ size' = 0 /\ alignment' = 0 /\ zero' = FALSE
  /\ object' = NoObject /\ stores' = {}
  /\ UNCHANGED debug

\* What the memory source gives has addresses that are words.
Addressable(base, length) == base + length <= SizeMax

\* An object lies in memory that is its own: from..to.
Served(kind, from, to, header, user) ==
  /\ pc' = "served"
  /\ object' = [kind |-> kind, from |-> from, to |-> to, header |-> header, user |-> user]
  /\ UNCHANGED <<request, stores>>

-----------------------------------------------------------------------------
(* Buddy pools: size_to_order, and the header before the object *)

FloorLog2(v) == CHOOSE k \in 0..30 : 2^k <= v /\ v < 2^(k + 1)
Slip_FloorOf(v) == FloorLog2(v)
CeilLog2(v)     == IF v <= 1 THEN 0 ELSE FloorLog2(v - 1) + 1

OutOfRange == 6767
SizeToOrder(n, a) ==
  LET total == n + POINTER + BuddyHeader + a - 1
  IN IF n > SizeMax - POINTER - BuddyHeader - (a - 1) THEN BUDDY_NUM_ORDERS
     ELSE IF total <= PAGE_SIZE THEN 0
     ELSE IF total > BUDDY_POOL_SIZE THEN OutOfRange
     ELSE CeilLog2(total) - BUDDY_MIN_ORDER

BlockSize(o) == 2^(o + BUDDY_MIN_ORDER)
UserInBlock(base, a) == AlignUp(base + POINTER + BuddyHeader, a)

\* The block's first word points back to the header.
BlockAlloc ==
  LET o == SizeToOrder(size, alignment) IN
  /\ pc = "pool"
  /\ o < BUDDY_NUM_ORDERS
  /\ \E base \in Bases :
       LET user == UserInBlock(base, alignment) IN
       /\ Addressable(base, BlockSize(o))
       /\ Served("buddy", base + POINTER, base + BlockSize(o), user - BuddyHeader, user)

\* No pool has room for the order, or none ever could: large_alloc is next.
PoolRefuses ==
  /\ pc = "pool"
  /\ pc' = "large"
  /\ UNCHANGED <<request, object, stores>>

-----------------------------------------------------------------------------
(* Slab caches: get_cache, and the layout slab_create gives a slab *)

CacheFor(n) == SizeClasses[Min({i \in DOMAIN SizeClasses : n <= SizeClasses[i]})]

UserOffset  == AlignUp(ObjHeader, SLAB_MAX_ALIGNMENT)
SlotSize(c) == UserOffset + AlignUp(c, SLAB_MAX_ALIGNMENT)
ObjStart(slab) == slab + AlignUp(SlabHeader, SLAB_MAX_ALIGNMENT)
Capacity(c)    == (SLAB_SIZE - ObjStart(0)) \div SlotSize(c)
SlotAt(slab, c, i) == ObjStart(slab) + i * SlotSize(c)

\* Any slot of a slab, which is itself an object of a pool: the header is the one
\* alloc_header_from_user and SIGMA_CONTAINER_OF find from the user's pointer.
SlabAlloc ==
  LET c == CacheFor(size) IN
  /\ pc = "slab"
  /\ \E base \in Bases, i \in {0, 1, Capacity(c) - 1} :
       LET slab == UserInBlock(base, SLAB_MAX_ALIGNMENT)
           slot == SlotAt(slab, c, i)
           user == slot + UserOffset
       IN /\ Addressable(base, BlockSize(SizeToOrder(SLAB_SIZE, SLAB_MAX_ALIGNMENT)))
          /\ Served("slab", slot, slot + SlotSize(c), user - ObjHeader, user)

\* No arena, or no slab: NULL, for small objects have no other way.
SlabFails == pc = "slab" /\ Return
NoArena   == pc = "pool" /\ Return

-----------------------------------------------------------------------------
(* large_alloc *)

Slip_NoPadding(n, a) == Word(n + LargeHeader)
TotalSize(n, a)  == Word(n + LargeHeader + a - 1)
BackingSize(n, a) ==
  LET sum == Word(TotalSize(n, a) + PAGE_SIZE - 1) IN sum - (sum % PAGE_SIZE)

Fits(n, a) == n <= SizeMax - LargeHeader - (a - 1)

LargeAlloc ==
  LET length == BackingSize(size, alignment) IN
  /\ pc = "large"
  /\ Fits(size, alignment)
  /\ length > 0 \/ EmptyGiven
  /\ \E base \in Bases :
       LET user == AlignUp(base + LargeHeader, alignment) IN
       /\ Addressable(base, length)
       /\ Served("large", base, base + length, user - LargeHeader, user)

LargeFails == pc = "large" /\ Return

-----------------------------------------------------------------------------
\* sigma_calloc's fill: what comes zeroed from the source is left alone.
NeedsNoFill == Zeroed /\ object.kind = "large"

Fill ==
  /\ pc = "served" /\ zero /\ ~NeedsNoFill
  /\ \E impl \in {"sse2", "avx2"} : stores' = FillZero(object.user, size, impl)
  /\ pc' = "filled"
  /\ UNCHANGED <<request, object>>

\* fill_zero called for n bytes of the caller's own, at any address.
FillCall(p, n) ==
  /\ pc = "idle"
  /\ pc' = "served"
  /\ size' = n /\ alignment' = 1 /\ zero' = TRUE
  /\ object' = [kind |-> "bytes", from |-> p, to |-> p + n, header |-> p, user |-> p]
  /\ UNCHANGED <<debug, stores>>

Done == \/ pc = "served" /\ (zero => NeedsNoFill) /\ Return
        \/ pc = "filled" /\ Return

Next ==
  \/ \E n \in Sizes, a \in Alignments : Refuse(n, a) \/ \E z \in BOOLEAN : Call(n, a, z)
  \/ SlabAlloc \/ SlabFails
  \/ BlockAlloc \/ PoolRefuses \/ NoArena
  \/ LargeAlloc \/ LargeFails
  \/ \E p \in Offsets, n \in Sizes : FillCall(p, n)
  \/ Fill \/ Done

Spec == Init /\ [][Next]_vars

-----------------------------------------------------------------------------
(* Properties *)

TypeOK ==
  /\ pc \in {"idle", "slab", "pool", "large", "served", "filled"}
  /\ size \in 0..SizeMax
  /\ pc \in {"slab", "pool", "large"} => size > 0 /\ alignment \in {2^k : k \in 0..30}
  /\ {debug, zero} \subseteq BOOLEAN
  /\ object.kind \in {"none", "slab", "buddy", "large", "bytes"}
  /\ object # NoObject <=> pc \in {"served", "filled"}

\* An object is aligned, and it and its header lie inside the slot, block or backing
\* that is its own, whatever address that has; a slot lies inside its slab, behind
\* the slab's own header, and the slab inside its block.
InOwnMemory ==
  object.kind \in {"slab", "buddy", "large"} =>
    /\ object.user % alignment = 0
    /\ object.from <= object.header
    /\ object.user + size <= object.to
    /\ object.kind = "slab" => \E base \in Bases :
         LET slab == UserInBlock(base, SLAB_MAX_ALIGNMENT) IN
         /\ slab + SlabHeader <= object.from
         /\ object.to <= slab + SLAB_SIZE
         /\ slab + SLAB_SIZE <= base + BlockSize(SizeToOrder(SLAB_SIZE, SLAB_MAX_ALIGNMENT))

\* The order asked of a pool is the least whose blocks hold the object with its
\* header and any padding its alignment may need, and no order when none does.
OrderLeast ==
  pc = "pool" =>
    LET enough == {o \in 0..(BUDDY_NUM_ORDERS - 1) :
                     POINTER + BuddyHeader + (alignment - 1) + size <= BlockSize(o)}
        order  == SizeToOrder(size, alignment)
    IN IF enough = {} THEN order >= BUDDY_NUM_ORDERS ELSE order = Min(enough)

\* A fill zeroes every byte it is asked to and no other, at every length where the width of the stores changes.
ZeroedExactly == pc = "filled" => Exactly(stores, object.user, size)

\* The inductive invariant of the proofs (PlacementProofs): a request is within the
\* bounds that its route has tested.
Routed ==
  /\ pc = "slab" => size <= MAX_SLAB_OBJ_SIZE /\ alignment <= SLAB_MAX_ALIGNMENT
  /\ pc = "pool" => size <= BUDDY_POOL_SIZE /\ alignment <= BUDDY_POOL_SIZE

IInv ==
  /\ TypeOK /\ Routed /\ OrderLeast /\ ZeroedExactly
  /\ EmptyGiven = FALSE => InOwnMemory
  /\ object # NoObject => object.user \in Nat

-----------------------------------------------------------------------------
(* What the repository says, and the code does not do *)

\* collect_slab_leaks and slab_create take a slot's header at the start of the slot.
CollectorHeader(o) == o.from

\* "Leak source locations" (README.md:18): the header in which the collector reads an
\* object's source location is the one in which sigma_alloc_debug has written it.
LocationRead == debug /\ object.kind = "slab" => CollectorHeader(object) = object.header
=============================================================================
