----------------------------- MODULE BumpArena -----------------------------
(***************************************************************************)
(* The public arena allocator (src/arena_allocator.c): blocks from a       *)
(* parent allocator, bump allocation inside the newest of them, frees that *)
(* do nothing, and one reset that returns every block.                     *)
(*                                                                         *)
(* The sizes are machine words: SizeMax is SIZE_MAX, and a sum or product  *)
(* that passes it wraps.  A block's memory is its cells, 0 being the first *)
(* after the block's header; what matters of its address is the residue of *)
(* `data' modulo the largest alignment asked for.                          *)
(***************************************************************************)
EXTENDS Naturals, Sequences, FiniteSets, SequencesExt

CONSTANTS SizeMax,     \* SIZE_MAX
          HeaderSize,  \* sizeof(allocator_arena_block_t)
          BlockSize,   \* arena->block_size
          MaxAlign,    \* _Alignof(max_align_t): how the parent aligns a block
          Alignments,  \* the alignments asked for
          Sizes,       \* the sizes asked for
          ParentGives, \* the largest block the parent can give
          MaxBlocks,   \* bound: blocks of the parent at one time
          MaxPieces    \* bound: pieces allocated since the last reset

ASSUME BumpAssumption ==
  /\ {SizeMax, HeaderSize, BlockSize, MaxAlign, ParentGives} \subseteq Nat \ {0}
  /\ {MaxBlocks, MaxPieces} \subseteq Nat
  /\ Alignments \subseteq 1..SizeMax
  /\ \A a, b \in Alignments : a <= b => b % a = 0   \* they are powers of two
  /\ Sizes \subseteq 0..SizeMax
  /\ HeaderSize % MaxAlign = 0

VARIABLES
  blocks,  \* arena->blocks, newest first: [id, phase, size, used, capacity]
  parent,  \* ghost: the ids of the blocks the parent has out
  pieces,  \* ghost: what has been allocated since the last reset
  memory   \* <<block id, cell>> -> what was last stored there

vars == <<blocks, parent, pieces, memory>>
(* The operators named Slip_ are not the code: each is the definition below it *)
(* with one plausible mistake, which some property must notice.              *)

Word(n)     == n % (SizeMax + 1)
MaxPhase    == CHOOSE a \in Alignments : \A b \in Alignments : b <= a
Phases      == {p \in 0..(MaxPhase - 1) : p % MaxAlign = 0}
Smaller(a, b) == IF a < b THEN a ELSE b
Larger(a, b)  == IF a < b THEN b ELSE a

\* The cells to skip from cell c of a block, so that the address is aligned.
Padding(b, c, alignment) == (alignment - ((b.phase + c) % alignment)) % alignment

Init ==
  /\ blocks = <<>>
  /\ parent = {}
  /\ pieces = {}
  /\ memory = [cell \in {} |-> 0]

-----------------------------------------------------------------------------
(* arena_new_block and arena_alloc_internal *)

Slip_RoomForSize(size, alignment) == size
MinimumCapacity(size, alignment)  == Word(size + alignment - 1)

Acceptable(size, alignment) ==
  /\ size # 0
  /\ size <= SizeMax - (alignment - 1)

NewCapacity(size, alignment) == Larger(BlockSize, MinimumCapacity(size, alignment))

\* Can the parent be asked for the block, and does it have that much?
Obtainable(capacity) ==
  /\ capacity <= SizeMax - HeaderSize
  /\ Word(HeaderSize + capacity) <= ParentGives

FreshId == CHOOSE i \in 1..(MaxBlocks + 1) : i \notin parent

NewBlock(capacity, phase) ==
  [id |-> FreshId, phase |-> phase, size |-> Word(HeaderSize + capacity),
   used |-> 0, capacity |-> capacity]

FitsIn(b, size, alignment) ==
  LET padding == Padding(b, b.used, alignment)
  IN /\ padding <= b.capacity - b.used
     /\ size <= b.capacity - b.used - padding

\* Bump block b (the newest): the new piece, and the block after it.
Slip_PaddingUncounted(b, size, alignment) == [b EXCEPT !.used = Word(@ + size)]
Bumped(b, size, alignment) ==
  [b EXCEPT !.used = Word(@ + Padding(b, b.used, alignment) + size)]
PieceIn(b, size, alignment) ==
  [block |-> b.id, from |-> b.used + Padding(b, b.used, alignment), size |-> size,
   align |-> alignment, data |-> <<>>]

\* A request served from block b: `stored' is what the new piece then holds, and
\* `meant' what its user may rely on finding there.
Serve(b, rest, size, alignment, stored, meant) ==
  LET p     == PieceIn(b, size, alignment)
      cells == {<<p.block, c>> : c \in p.from..(p.from + size - 1)}
  IN /\ blocks' = <<Bumped(b, size, alignment)>> \o rest
     /\ pieces' = pieces \union {[p EXCEPT !.data = meant]}
     /\ memory' = [c \in DOMAIN memory \union cells |->
                     IF c \in cells THEN stored[c[2] - p.from + 1] ELSE memory[c]]

NewestFits(size, alignment) == blocks # <<>> /\ FitsIn(Head(blocks), size, alignment)

Bump(size, alignment, stored, meant) ==
  /\ NewestFits(size, alignment)
  /\ Serve(Head(blocks), Tail(blocks), size, alignment, stored, meant)
  /\ UNCHANGED parent

Extend(size, alignment, stored, meant) ==
  /\ ~NewestFits(size, alignment)
  /\ Obtainable(NewCapacity(size, alignment))
  /\ Cardinality(parent) < MaxBlocks
  /\ \E phase \in Phases :
       Serve(NewBlock(NewCapacity(size, alignment), phase), blocks,
             size, alignment, stored, meant)
  /\ parent' = parent \union {FreshId}

Request(size, alignment, stored, meant) ==
  /\ Cardinality(pieces) < MaxPieces
  /\ Acceptable(size, alignment)
  /\ Bump(size, alignment, stored, meant) \/ Extend(size, alignment, stored, meant)

\* The user fills each new piece with a value of its own.
Fill(size) == [i \in 1..size |-> Cardinality(pieces) + 1]
Alloc(size, alignment) == Request(size, alignment, Fill(size), Fill(size))

-----------------------------------------------------------------------------
(* arena_realloc: always a new piece, with a copy of the old one's beginning;  *)
(* the old one stays until the reset.  The user fills the part that grew.      *)

WithPrefix(prefix, length, size) ==
  [i \in 1..size |-> IF i <= length THEN prefix[i] ELSE Cardinality(pieces) + 1]
Contents(p) == [i \in 1..p.size |-> memory[<<p.block, p.from + i - 1>>]]

CopySize(p, size) == Smaller(p.size, size)

Realloc(p, size, alignment) ==
  Request(size, alignment,
          WithPrefix(Contents(p), CopySize(p, size), size),
          WithPrefix(p.data, Smaller(p.size, size), size))

-----------------------------------------------------------------------------
(* allocator_arena_reset returns every block of the list to the parent, one    *)
(* after the other; nothing else runs meanwhile, so that only the set of them *)
(* is followed.                                                               *)

Slip_FirstOnly == IF blocks = <<>> THEN {} ELSE {Head(blocks).id}
Listed         == {b.id : b \in ToSet(blocks)}

Reset ==
  /\ parent' = parent \ Listed
  /\ blocks' = <<>>
  /\ pieces' = {}
  /\ memory' = [cell \in {} |-> 0]

Next ==
  \/ \E size \in Sizes, alignment \in Alignments :
       \/ Alloc(size, alignment)
       \/ \E p \in pieces : Realloc(p, size, alignment)
  \/ Reset

Spec == Init /\ [][Next]_vars
-----------------------------------------------------------------------------
(* Properties *)

Block(i) == CHOOSE b \in ToSet(blocks) : b.id = i

\* Every piece lies inside the memory the parent gave for its block, behind the
\* header and at an address of the alignment asked for, and `used' is past all of
\* them: no sum of sizes has wrapped, and a block made for a request is long enough
\* whatever its address turns out to be.
PiecesFit ==
  /\ \A p \in pieces : /\ p.from + p.size <= Block(p.block).used
                        /\ (Block(p.block).phase + p.from) % p.align = 0
  /\ \A b \in ToSet(blocks) : /\ b.used <= b.capacity
                              /\ HeaderSize + b.capacity = b.size

\* No piece is written by what is done to another: each still holds what its user
\* put there, and after a realloc what the old one held, up to the smaller size.
ContentsKept == \A p \in pieces : Contents(p) = p.data

\* The arena owns exactly the blocks on its list: after a reset the parent has
\* every block back, however many there were.
BlocksReturned == parent = Listed /\ (blocks = <<>> => parent = {})

-----------------------------------------------------------------------------
(* The inductive invariant of the proofs (BumpArenaProofs) *)

Ids == 1..(MaxBlocks + 1)
BlockType == [id : Ids, phase : Nat, size : 0..SizeMax, used : 0..SizeMax,
              capacity : 0..SizeMax]
CellsOf(p) == {<<p.block, c>> : c \in p.from..(p.from + p.size - 1)}

TypeOK ==
  /\ blocks \in Seq(BlockType)
  /\ parent \subseteq Ids
  /\ \A p \in pieces : /\ p.block \in Ids /\ p.from \in Nat /\ p.size \in Nat
                        /\ p.align \in 1..SizeMax

\* A block is on the list once, and the lengths of each agree.
BlocksSound ==
  /\ \A i, j \in DOMAIN blocks : blocks[i].id = blocks[j].id => i = j
  /\ \A b \in ToSet(blocks) : b.used <= b.capacity /\ HeaderSize + b.capacity = b.size

\* A piece lies below `used' of a block on the list, aligned, and all its cells hold
\* something.
PiecesPlaced ==
  \A p \in pieces :
    /\ \E b \in ToSet(blocks) : /\ b.id = p.block /\ p.from + p.size <= b.used
                                /\ (b.phase + p.from) % p.align = 0
    /\ CellsOf(p) \subseteq DOMAIN memory

\* Two pieces share no cell.
PiecesApart == \A p, q \in pieces : p = q \/ CellsOf(p) \intersect CellsOf(q) = {}

IInv == TypeOK /\ BlocksSound /\ PiecesPlaced /\ PiecesApart /\ ContentsKept /\ BlocksReturned
=============================================================================
