-------------------------- MODULE BumpArenaProofs --------------------------
(***************************************************************************)
(* What holds of the public arena for every width of word, size of block,  *)
(* alignment and request: pieces lie in their blocks, aligned and apart,   *)
(* keep their contents, and the arena owns exactly the blocks on its list. *)
(***************************************************************************)
EXTENDS BumpArena, FiniteSetTheorems, WellFoundedInduction, TLAPS

-----------------------------------------------------------------------------
(* Lists and sets of naturals *)

\* A set of naturals has a least element.  Every induction below is an argument
\* about the least counterexample.
LEMMA LeastNatural ==
  ASSUME NEW S \in SUBSET Nat, S # {}
  PROVE  \E m \in S : \A k \in S : m <= k
<1> DEFINE R == OpToRel(<, Nat)
<1>1. IsWellFoundedOn(R, Nat)
  BY NatLessThanWellFounded
<1>2. \A i, j \in Nat : i < j => <<i, j>> \in R
  BY DEF OpToRel
<1> HIDE DEF R
<1>3. PICK m \in S : \A k \in S : ~(<<k, m>> \in R)
  <2>1. \E m \in S : \A k \in S : ~(<<k, m>> \in R)
    BY <1>1, WFMin
  <2> QED BY <2>1
<1>4. ASSUME NEW k \in S PROVE m <= k
  <2>1. m \in Nat /\ k \in Nat
    OBVIOUS
  <2>2. ~(k < m)
    BY <2>1, <1>2, <1>3
  <2> QED BY <2>1, <2>2
<1> QED BY <1>4

\* list_push, slab_push: the elements gain the new head, and a list without
\* repetition stays one when the new head was not on it.
LEMMA PushElements ==
  ASSUME NEW S, NEW s \in Seq(S), NEW a \in S
  PROVE  /\ <<a>> \o s \in Seq(S)
         /\ ToSet(<<a>> \o s) = {a} \union ToSet(s)
         /\ IsInjective(s) /\ a \notin ToSet(s) => IsInjective(<<a>> \o s)
<1> DEFINE t == <<a>> \o s
<1>1. /\ t \in Seq(S) /\ Len(t) = Len(s) + 1 /\ t[1] = a
      /\ \A i \in 1..Len(s) : t[i + 1] = s[i]
  OBVIOUS
<1>2. \A i \in 2..Len(t) : i - 1 \in 1..Len(s) /\ t[i] = s[i - 1]
  OBVIOUS
<1>3. ToSet(t) = {a} \union ToSet(s)
  <2>1. ToSet(t) \subseteq {a} \union ToSet(s)
    BY <1>1, <1>2 DEF ToSet
  <2>2. a \in ToSet(t)
    BY <1>1 DEF ToSet
  <2>3. ToSet(s) \subseteq ToSet(t)
    <3> SUFFICES ASSUME NEW i \in 1..Len(s) PROVE s[i] \in ToSet(t)
      BY DEF ToSet
    <3>1. i + 1 \in 1..Len(t) /\ t[i + 1] = s[i]
      BY <1>1
    <3> HIDE DEF t
    <3> QED BY <3>1, <1>1 DEF ToSet
  <2> QED BY <2>1, <2>2, <2>3
<1>4. ASSUME IsInjective(s), a \notin ToSet(s) PROVE IsInjective(t)
  <2> SUFFICES ASSUME NEW i \in 1..Len(t), NEW j \in 1..Len(t), t[i] = t[j]
               PROVE  i = j
    BY <1>1 DEF IsInjective
  <2>1. \A k \in 2..Len(t) : t[k] \in ToSet(s)
    BY <1>2 DEF ToSet
  <2>2. CASE i = 1 /\ j = 1
    BY <2>2
  <2>3. CASE i = 1 /\ j # 1
    BY <2>3, <2>1, <1>1, <1>4
  <2>4. CASE i # 1 /\ j = 1
    BY <2>4, <2>1, <1>1, <1>4
  <2>5. CASE i # 1 /\ j # 1
    BY <2>5, <1>2, <1>4 DEF IsInjective
  <2> QED BY <2>2, <2>3, <2>4, <2>5
<1> QED BY <1>1, <1>3, <1>4

-----------------------------------------------------------------------------
(* Machine words *)

\* The constants are numbers.
LEMMA Constants ==
  /\ SizeMax \in Nat /\ SizeMax > 0
  /\ HeaderSize \in Nat /\ BlockSize \in Nat /\ ParentGives \in Nat
  /\ MaxBlocks \in Nat /\ MaxPieces \in Nat
BY BumpAssumption

\* A sum that does not pass SizeMax is itself.
LEMMA WordSmall == ASSUME NEW n \in 0..SizeMax PROVE Word(n) = n
<1>1. \A m, k \in Nat : m < k => m % k = m
  BY SMT
<1> QED BY <1>1, BumpAssumption DEF Word

\* The padding is less than the alignment.
LEMMA PaddingRange ==
  ASSUME NEW b \in BlockType, NEW c \in Nat, NEW alignment \in 1..SizeMax
  PROVE  Padding(b, c, alignment) \in 0..(alignment - 1)
<1>1. \A n \in Int, m \in Nat \ {0} : n % m \in 0..(m - 1)
  BY SMT
<1>2. b.phase + c \in Nat
  BY DEF BlockType
<1> DEFINE past == (b.phase + c) % alignment
<1>3. alignment \in Nat /\ alignment \in Nat \ {0}
  BY Constants
<1>4. past \in 0..(alignment - 1)
  <2>1. ASSUME NEW n \in Nat PROVE n % alignment \in 0..(alignment - 1)
    BY <1>1, <1>3
  <2> QED BY <2>1, <1>2
<1> HIDE DEF past
<1>5. alignment - past \in Int
  BY <1>3, <1>4
<1>6. (alignment - past) % alignment \in 0..(alignment - 1)
  BY <1>1, <1>3, <1>5
<1> QED BY <1>6 DEF Padding, past

\* The padding leads to a multiple of the alignment.
LEMMA PaddingAligns ==
  ASSUME NEW b \in BlockType, NEW c \in Nat, NEW alignment \in 1..SizeMax
  PROVE  (b.phase + (c + Padding(b, c, alignment))) % alignment = 0
<1> DEFINE x    == b.phase + c
           past == x % alignment
           pad  == Padding(b, c, alignment)
<1>1. alignment \in Nat /\ alignment > 0 /\ x \in Nat /\ b.phase \in Nat
  BY Constants DEF BlockType
<1>2. pad = (alignment - past) % alignment
  BY DEF Padding
<1> HIDE DEF pad
<1>3. past \in 0..(alignment - 1) /\ x = alignment * (x \div alignment) + past
      /\ x \div alignment \in Nat
  <2> HIDE DEF x
  <2> QED BY <1>1, SMT
<1>4. \A k \in Nat : (alignment * k) % alignment = 0
  BY <1>1, SMT
<1>5. CASE past = 0
  <2>1. pad = 0
    BY <1>1, <1>2, <1>5
  <2> QED BY <2>1, <1>1, <1>5 DEF pad
<1>6. CASE past # 0
  <2>1. pad = alignment - past
    <3>1. \A m, n \in Nat : m < n => m % n = m
      BY SMT
    <3> HIDE DEF x, past
    <3>2. alignment - past \in Nat /\ alignment - past < alignment
      BY <1>1, <1>3, <1>6
    <3>3. (alignment - past) % alignment = alignment - past
      BY <3>1, <3>2, <1>1
    <3> QED BY <3>3, <1>2
  <2> DEFINE k == x \div alignment
  <2>2. k + 1 \in Nat /\ alignment * (k + 1) = alignment * k + alignment
    <3>1. \A m, n \in Nat : m * (n + 1) = m * n + m
      BY SMT
    <3>2. k \in Nat
      BY <1>3
    <3> HIDE DEF k
    <3> QED BY <3>1, <3>2, <1>1
  <2>3. x + pad = alignment * (k + 1)
    <3> HIDE DEF x, k, past
    <3> QED BY <2>1, <2>2, <1>1, <1>3 DEF k
  <2>4. (x + pad) % alignment = 0
    BY <2>2, <2>3, <1>4
  <2>5. pad \in Int
    BY <2>1, <1>1, <1>3
  <2>6. b.phase + (c + pad) = x + pad
    BY <2>5, <1>1
  <2> QED BY <2>4, <2>6 DEF pad
<1> QED BY <1>5, <1>6

\* Some id is free while the parent has given fewer than MaxBlocks blocks.
LEMMA FreshIdIsFresh ==
  ASSUME parent \subseteq Ids, Cardinality(parent) < MaxBlocks
  PROVE  FreshId \in Ids \ parent
<1>1. IsFiniteSet(Ids) /\ Cardinality(Ids) = MaxBlocks + 1
  <2>1. 1 \in Int /\ MaxBlocks + 1 \in Int /\ ~(1 > MaxBlocks + 1) /\ (MaxBlocks + 1) - 1 + 1 = MaxBlocks + 1
    BY Constants
  <2> QED BY <2>1, FS_Interval DEF Ids
<1>2. parent # Ids
  BY <1>1, Constants
<1>3. \E i \in Ids : i \notin parent
  BY <1>2
<1> QED BY <1>3 DEF FreshId, Ids
-----------------------------------------------------------------------------
(* Serving a request from the first block of a list *)

\* What the invariant says of the list of blocks, of any list.
ListSound(bs) ==
  /\ bs \in Seq(BlockType)
  /\ \A i, j \in DOMAIN bs : bs[i].id = bs[j].id => i = j
  /\ \A b \in ToSet(bs) : b.used <= b.capacity /\ HeaderSize + b.capacity = b.size

PlacedIn(bs, p) == \E b \in ToSet(bs) : /\ b.id = p.block /\ p.from + p.size <= b.used
                                        /\ (b.phase + p.from) % p.align = 0

PieceType(p) == p.block \in Ids /\ p.from \in Nat /\ p.size \in Nat /\ p.align \in 1..SizeMax

\* Two elements of a sound list with one id are one.
LEMMA OneBlock ==
  ASSUME NEW bs, ListSound(bs), NEW b \in ToSet(bs), NEW c \in ToSet(bs), b.id = c.id
  PROVE  b = c
<1>1. PICK i \in DOMAIN bs : bs[i] = b
  BY DEF ToSet
<1>2. PICK j \in DOMAIN bs : bs[j] = c
  BY DEF ToSet
<1> QED BY <1>1, <1>2 DEF ListSound

\* The first block is bumped: nothing wraps, and the list is as sound as it was.
LEMMA BumpedSound ==
  ASSUME NEW b \in BlockType, NEW rest \in Seq(BlockType), ListSound(<<b>> \o rest),
         NEW size \in Nat, NEW alignment \in 1..SizeMax,
         b.used + Padding(b, b.used, alignment) + size <= b.capacity
  PROVE  LET n == Bumped(b, size, alignment) IN
         /\ n \in BlockType /\ n.id = b.id /\ n.phase = b.phase
         /\ n.used = b.used + Padding(b, b.used, alignment) + size
         /\ ListSound(<<n>> \o rest)
         /\ ToSet(<<b>> \o rest) = {b} \union ToSet(rest)
         /\ ToSet(<<n>> \o rest) = {n} \union ToSet(rest)
<1> DEFINE n == Bumped(b, size, alignment)
           pad == Padding(b, b.used, alignment)
<1>1. /\ b.used \in Nat /\ b.used <= SizeMax /\ b.capacity \in Nat /\ b.capacity <= SizeMax
  BY Constants DEF BlockType
<1>2. pad \in Nat
  <2>1. pad \in 0..(alignment - 1)
    BY <1>1, PaddingRange
  <2>2. alignment \in Nat
    BY Constants
  <2> QED BY <2>1, <2>2
<1>3. b.used + pad + size \in 0..SizeMax
  BY <1>1, <1>2, Constants
<1>4. n = [b EXCEPT !.used = b.used + pad + size]
  BY <1>3, WordSmall DEF Bumped
<1> HIDE DEF pad, n
<1>5. /\ n \in BlockType /\ n.id = b.id /\ n.phase = b.phase /\ n.used = b.used + pad + size
      /\ n.capacity = b.capacity /\ n.size = b.size
  BY <1>3, <1>4 DEF BlockType
<1>6. /\ ToSet(<<b>> \o rest) = {b} \union ToSet(rest)
      /\ ToSet(<<n>> \o rest) = {n} \union ToSet(rest)
      /\ <<n>> \o rest \in Seq(BlockType)
  BY <1>5, PushElements
<1>7. \A i, j \in DOMAIN (<<n>> \o rest) :
        (<<n>> \o rest)[i].id = (<<n>> \o rest)[j].id => i = j
  <2>1. DOMAIN (<<n>> \o rest) = DOMAIN (<<b>> \o rest)
    OBVIOUS
  <2>2. \A i \in DOMAIN (<<b>> \o rest) : (<<n>> \o rest)[i].id = (<<b>> \o rest)[i].id
    BY <1>5
  <2> QED BY <2>1, <2>2 DEF ListSound
<1>8. \A c \in ToSet(<<n>> \o rest) : c.used <= c.capacity /\ HeaderSize + c.capacity = c.size
  <2>1. b.used + pad + size <= b.capacity
    BY DEF pad
  <2>2. \A c \in ToSet(<<b>> \o rest) : c.used <= c.capacity /\ HeaderSize + c.capacity = c.size
    BY DEF ListSound
  <2> QED BY <2>1, <2>2, <1>5, <1>6
<1>9. ListSound(<<n>> \o rest)
  BY <1>6, <1>7, <1>8 DEF ListSound
<1> QED BY <1>5, <1>6, <1>9 DEF n, pad

\* The new piece lies past every earlier one and its memory is new: it holds what was
\* stored, and every earlier piece what it held.
LEMMA ServeKeeps ==
  ASSUME NEW b \in BlockType, NEW rest \in Seq(BlockType), ListSound(<<b>> \o rest),
         NEW size \in Nat, size > 0, NEW alignment \in 1..SizeMax, NEW stored, NEW meant,
         b.used + Padding(b, b.used, alignment) + size <= b.capacity,
         \A p \in pieces : /\ PieceType(p) /\ PlacedIn(<<b>> \o rest, p)
                           /\ CellsOf(p) \subseteq DOMAIN memory,
         PiecesApart, ContentsKept,
         meant = [i \in 1..size |-> stored[i]],
         Serve(b, rest, size, alignment, stored, meant)
  PROVE  /\ ListSound(blocks')
         /\ Listed' = {c.id : c \in ToSet(<<b>> \o rest)}
         /\ \A p \in pieces' : /\ PieceType(p) /\ PlacedIn(blocks', p)
                               /\ CellsOf(p) \subseteq DOMAIN memory'
         /\ PiecesApart' /\ ContentsKept'
<1> DEFINE n    == Bumped(b, size, alignment)
           from == b.used + Padding(b, b.used, alignment)
           q    == [block |-> b.id, from |-> from, size |-> size, align |-> alignment,
                    data |-> meant]
           new  == {<<b.id, c>> : c \in from..(from + size - 1)}
<1>1. /\ blocks' = <<n>> \o rest
      /\ pieces' = pieces \union {q}
      /\ memory' = [c \in DOMAIN memory \union new |->
                      IF c \in new THEN stored[c[2] - from + 1] ELSE memory[c]]
  BY DEF Serve, PieceIn
<1>2. /\ n \in BlockType /\ n.id = b.id /\ n.phase = b.phase /\ n.used = from + size
      /\ ListSound(<<n>> \o rest)
      /\ ToSet(<<b>> \o rest) = {b} \union ToSet(rest)
      /\ ToSet(<<n>> \o rest) = {n} \union ToSet(rest)
  BY BumpedSound
<1>3. from \in Nat /\ b.id \in Ids /\ b.used \in Nat /\ b.used <= from
  <2>1. b.used \in Nat /\ b.id \in Ids
    BY Constants DEF BlockType
  <2>2. Padding(b, b.used, alignment) \in 0..(alignment - 1)
    BY <2>1, PaddingRange
  <2>3. alignment \in Nat
    BY Constants
  <2> HIDE DEF n
  <2> QED BY <2>1, <2>2, <2>3
<1>14. (b.phase + from) % alignment = 0
  <2>1. b.phase \in Nat
    BY DEF BlockType
  <2> QED BY <2>1, <1>3, PaddingAligns
<1> HIDE DEF n, from
<1>4. /\ q.block = b.id /\ q.from = from /\ q.size = size /\ q.align = alignment
      /\ q.data = meant /\ CellsOf(q) = new
  BY DEF CellsOf
<1> HIDE DEF q
<1>5. ASSUME NEW p \in pieces PROVE PlacedIn(blocks', p) /\ CellsOf(p) \intersect new = {}
  <2>1. PICK c \in ToSet(<<b>> \o rest) : /\ c.id = p.block /\ p.from + p.size <= c.used
                                         /\ (c.phase + p.from) % p.align = 0
    BY DEF PlacedIn
  <2>2. p.from \in Nat /\ p.size \in Nat
    BY DEF PieceType
  <2>3. CASE c = b
    <3>1. n \in ToSet(blocks') /\ n.id = p.block /\ p.from + p.size <= n.used
      <4>1. n \in ToSet(blocks') /\ n.id = p.block
        BY <2>1, <2>3, <1>1, <1>2
      <4>2. p.from + p.size <= b.used /\ p.from + p.size \in Nat
        BY <2>1, <2>2, <2>3
      <4>3. n.used = from + size /\ b.used <= from + size
        BY <1>2, <1>3
      <4> QED BY <4>1, <4>2, <4>3, <1>3
    <3>4. (n.phase + p.from) % p.align = 0
      BY <2>1, <2>3, <1>2
    <3>2. PlacedIn(blocks', p)
      BY <3>1, <3>4 DEF PlacedIn
    <3>3. CellsOf(p) \intersect new = {}
      BY <2>1, <2>2, <2>3, <1>3 DEF CellsOf
    <3> QED BY <3>2, <3>3
  <2>4. CASE c # b
    <3>1. c \in ToSet(blocks')
      BY <2>1, <2>4, <1>1, <1>2
    <3>2. b \in ToSet(<<b>> \o rest)
      BY <1>2
    <3>3. c.id # b.id
      BY <3>2, <2>4, OneBlock
    <3> QED BY <3>1, <3>3, <2>1 DEF PlacedIn, CellsOf
  <2> QED BY <2>3, <2>4
<1>6. PieceType(q) /\ PlacedIn(blocks', q)
  <2>1. n \in ToSet(blocks') /\ n.id = q.block /\ q.from + q.size <= n.used
    <3>1. n \in ToSet(blocks')
      BY <1>1, <1>2
    <3>2. n.used = from + size /\ from + size \in Nat
      BY <1>2, <1>3
    <3> QED BY <3>1, <3>2, <1>2, <1>4
  <2>2. (n.phase + q.from) % q.align = 0
    BY <1>2, <1>4, <1>14
  <2>3. PieceType(q)
    BY <1>3, <1>4 DEF PieceType
  <2> QED BY <2>1, <2>2, <2>3 DEF PlacedIn
<1>7. DOMAIN memory' = DOMAIN memory \union new
  BY <1>1
<1>8. \A p \in pieces' : /\ PieceType(p) /\ PlacedIn(blocks', p)
                         /\ CellsOf(p) \subseteq DOMAIN memory'
  BY <1>1, <1>4, <1>5, <1>6, <1>7
<1>9. PiecesApart'
  BY <1>1, <1>4, <1>5 DEF PiecesApart
<1>10. ASSUME NEW p \in pieces PROVE Contents(p)' = p.data
  <2>1. p.from \in Nat /\ p.size \in Nat
    BY DEF PieceType
  <2>2. ASSUME NEW i \in 1..p.size
        PROVE  memory'[<<p.block, p.from + i - 1>>] = memory[<<p.block, p.from + i - 1>>]
    <3>1. <<p.block, p.from + i - 1>> \in CellsOf(p)
      <4>1. p.from + i - 1 \in p.from..(p.from + p.size - 1)
        BY <2>1
      <4> QED BY <4>1 DEF CellsOf
    <3> QED BY <3>1, <1>1, <1>5
  <2>3. Contents(p) = p.data
    BY DEF ContentsKept
  <2> QED BY <2>2, <2>3 DEF Contents
<1>11. Contents(q)' = q.data
  <2>1. ASSUME NEW i \in 1..size PROVE memory'[<<b.id, from + i - 1>>] = stored[i]
    <3>1. from + i - 1 \in from..(from + size - 1) /\ (from + i - 1) - from + 1 = i
      BY <1>3
    <3>2. <<b.id, from + i - 1>> \in new /\ <<b.id, from + i - 1>>[2] = from + i - 1
      BY <3>1
    <3> HIDE DEF new
    <3> QED BY <3>1, <3>2, <1>1
  <2>2. Contents(q)' = [i \in 1..size |-> memory'[<<b.id, from + i - 1>>]]
    BY <1>4 DEF Contents
  <2> QED BY <2>1, <2>2, <1>4
<1>12. ContentsKept'
  BY <1>1, <1>10, <1>11 DEF ContentsKept
<1>13. Listed' = {c.id : c \in ToSet(<<b>> \o rest)}
  BY <1>1, <1>2 DEF Listed
<1> QED BY <1>1, <1>2, <1>8, <1>9, <1>12, <1>13
-----------------------------------------------------------------------------
(* The steps *)

\* A phase is a natural number: there is a largest alignment.
LEMMA PhaseIsNat ==
  ASSUME NEW alignment \in Alignments, NEW phase \in Phases
  PROVE  phase \in Nat
<1> DEFINE S == {SizeMax - a : a \in Alignments}
<1>1. \A a \in Alignments : a \in Nat /\ a <= SizeMax
  BY Constants, BumpAssumption
<1>2. S \in SUBSET Nat /\ S # {}
  BY <1>1, Constants
<1>3. PICK m \in S : \A k \in S : m <= k
  BY <1>2, LeastNatural
<1>4. PICK a \in Alignments : m = SizeMax - a
  OBVIOUS
<1>5. ASSUME NEW b \in Alignments PROVE b <= a
  <2>1. SizeMax - b \in S
    OBVIOUS
  <2>2. m <= SizeMax - b
    BY <2>1, <1>3
  <2> QED BY <2>2, <1>1, <1>4, Constants
<1>6. MaxPhase \in Alignments
  BY <1>4, <1>5 DEF MaxPhase
<1> QED BY <1>1, <1>6 DEF Phases

\* What IInv says of the pieces, piece by piece.
LEMMA PiecesOf ==
  ASSUME IInv
  PROVE  /\ ListSound(blocks) /\ parent = Listed
         /\ \A p \in pieces : /\ PieceType(p) /\ PlacedIn(blocks, p)
                              /\ CellsOf(p) \subseteq DOMAIN memory
BY DEF IInv, TypeOK, BlocksSound, PiecesPlaced, BlocksReturned, ListSound, PlacedIn, PieceType

\* And put together again.
LEMMA PiecesAre ==
  ASSUME ListSound(blocks)', (parent = Listed)',
         \A p \in pieces' : /\ PieceType(p) /\ PlacedIn(blocks', p)
                            /\ CellsOf(p) \subseteq DOMAIN memory',
         PiecesApart', ContentsKept'
  PROVE  IInv'
<1>1. (parent \subseteq Ids)'
  <2>1. \A b \in ToSet(blocks') : b \in BlockType
    BY DEF ListSound, ToSet
  <2>2. \A b \in BlockType : b.id \in Ids
    BY DEF BlockType
  <2> QED BY <2>1, <2>2 DEF Listed
<1>2. (blocks = <<>> => parent = {})'
  BY DEF Listed, ToSet
<1> QED BY <1>1, <1>2 DEF IInv, TypeOK, BlocksSound, PiecesPlaced, BlocksReturned, ListSound,
                          PlacedIn, PieceType

\* A request that the newest block has room for.
LEMMA BumpStep ==
  ASSUME IInv, NEW size \in Nat, size > 0, NEW alignment \in 1..SizeMax,
         NEW stored, NEW meant, meant = [i \in 1..size |-> stored[i]],
         Bump(size, alignment, stored, meant)
  PROVE  IInv'
<1> DEFINE b == Head(blocks)
<1>1. /\ ListSound(blocks) /\ parent = Listed
      /\ \A p \in pieces : /\ PieceType(p) /\ PlacedIn(blocks, p)
                           /\ CellsOf(p) \subseteq DOMAIN memory
  BY PiecesOf
<1>2. /\ b \in BlockType /\ Tail(blocks) \in Seq(BlockType)
      /\ blocks = <<b>> \o Tail(blocks)
  BY <1>1 DEF ListSound, Bump, NewestFits
<1> DEFINE pad == Padding(b, b.used, alignment)
<1>3. b.used + pad + size <= b.capacity
  <2>1. b.used \in Nat /\ b.capacity \in Nat
    BY <1>2, Constants DEF BlockType
  <2>2. pad \in 0..(alignment - 1)
    BY <1>2, <2>1, PaddingRange
  <2>4. alignment \in Nat
    BY Constants
  <2>3. pad <= b.capacity - b.used /\ size <= b.capacity - b.used - pad
    BY DEF Bump, NewestFits, FitsIn
  <2> HIDE DEF b, pad
  <2> QED BY <2>1, <2>2, <2>3, <2>4
<1>4. Serve(b, Tail(blocks), size, alignment, stored, meant) /\ parent' = parent
  BY DEF Bump
<1>5. PiecesApart /\ ContentsKept
  BY DEF IInv
<1> HIDE DEF b
<1>6. /\ ListSound(blocks')
      /\ Listed' = {c.id : c \in ToSet(<<b>> \o Tail(blocks))}
      /\ \A p \in pieces' : /\ PieceType(p) /\ PlacedIn(blocks', p)
                            /\ CellsOf(p) \subseteq DOMAIN memory'
      /\ PiecesApart' /\ ContentsKept'
  BY <1>1, <1>2, <1>3, <1>4, <1>5, ServeKeeps
<1>7. parent' = Listed'
  BY <1>1, <1>2, <1>4, <1>6 DEF Listed
<1> QED BY <1>6, <1>7, PiecesAre

\* A request for which the parent gives a new block: it is long enough, whatever its
\* address, and no sum of its sizes has wrapped.
LEMMA ExtendStep ==
  ASSUME IInv, NEW size \in Nat, size > 0, NEW alignment \in Alignments,
         NEW stored, NEW meant, meant = [i \in 1..size |-> stored[i]],
         Acceptable(size, alignment), Extend(size, alignment, stored, meant)
  PROVE  IInv'
<1>1. /\ ListSound(blocks) /\ parent = Listed
      /\ \A p \in pieces : /\ PieceType(p) /\ PlacedIn(blocks, p)
                           /\ CellsOf(p) \subseteq DOMAIN memory
  BY PiecesOf
<1> DEFINE capacity == NewCapacity(size, alignment)
<1>2. PICK phase \in Phases :
        Serve(NewBlock(capacity, phase), blocks, size, alignment, stored, meant)
  BY DEF Extend
<1>3. phase \in Nat /\ alignment \in 1..SizeMax /\ alignment \in Nat
  BY PhaseIsNat, BumpAssumption, Constants
<1>4. size + alignment - 1 \in 0..SizeMax
  BY <1>3, Constants DEF Acceptable
<1>5. /\ capacity \in Nat /\ size + alignment - 1 <= capacity
      /\ capacity <= SizeMax - HeaderSize
  BY <1>4, WordSmall, Constants
     DEF Extend, Obtainable, NewCapacity, MinimumCapacity, Larger
<1>6. HeaderSize + capacity \in 0..SizeMax /\ capacity \in 0..SizeMax
  <2> HIDE DEF capacity
  <2> QED BY <1>5, Constants
<1>7. FreshId \in Ids /\ FreshId \notin parent
  BY FreshIdIsFresh DEF IInv, TypeOK, Extend
<1> DEFINE b == [id |-> FreshId, phase |-> phase, size |-> HeaderSize + capacity,
                 used |-> 0, capacity |-> capacity]
<1>8. NewBlock(capacity, phase) = b
  BY <1>6, WordSmall DEF NewBlock
<1> HIDE DEF capacity
<1>9. /\ b.id = FreshId /\ b.used = 0 /\ b.capacity = capacity
      /\ b.size = HeaderSize + capacity /\ b \in BlockType
  BY <1>3, <1>6, <1>7, Constants DEF BlockType
<1> HIDE DEF b
<1>10. /\ <<b>> \o blocks \in Seq(BlockType)
       /\ ToSet(<<b>> \o blocks) = {b} \union ToSet(blocks)
  BY <1>1, <1>9, PushElements DEF ListSound
<1>11. ListSound(<<b>> \o blocks)
  <2>1. \A i \in DOMAIN blocks : blocks[i].id # b.id
    BY <1>1, <1>7, <1>9 DEF Listed, ToSet
  <2>2. \A i, j \in DOMAIN (<<b>> \o blocks) :
          (<<b>> \o blocks)[i].id = (<<b>> \o blocks)[j].id => i = j
    <3>1. /\ Len(<<b>> \o blocks) = Len(blocks) + 1 /\ (<<b>> \o blocks)[1] = b
          /\ \A i \in 2..(Len(blocks) + 1) :
               i - 1 \in DOMAIN blocks /\ (<<b>> \o blocks)[i] = blocks[i - 1]
      BY <1>1 DEF ListSound
    <3> SUFFICES ASSUME NEW i \in 1..(Len(blocks) + 1), NEW j \in 1..(Len(blocks) + 1),
                        (<<b>> \o blocks)[i].id = (<<b>> \o blocks)[j].id
                 PROVE  i = j
      BY <1>10, <3>1
    <3>2. CASE i = 1 /\ j = 1
      BY <3>2
    <3>3. CASE i = 1 /\ j # 1
      BY <3>1, <3>3, <2>1
    <3>4. CASE i # 1 /\ j = 1
      BY <3>1, <3>4, <2>1
    <3>5. CASE i # 1 /\ j # 1
      <4>1. i - 1 \in DOMAIN blocks /\ j - 1 \in DOMAIN blocks
            /\ blocks[i - 1].id = blocks[j - 1].id
        BY <3>1, <3>5
      <4>2. i - 1 = j - 1
        BY <4>1, <1>1 DEF ListSound
      <4> QED BY <4>2
    <3> QED BY <3>2, <3>3, <3>4, <3>5
  <2>3. b.used <= b.capacity /\ HeaderSize + b.capacity = b.size
    BY <1>6, <1>9, Constants
  <2> QED BY <1>1, <1>10, <2>2, <2>3 DEF ListSound
<1>12. b.used + Padding(b, b.used, alignment) + size <= b.capacity
  <2>1. Padding(b, b.used, alignment) \in 0..(alignment - 1)
    BY <1>3, <1>9, PaddingRange
  <2> QED BY <2>1, <1>3, <1>5, <1>9
<1>13. \A p \in pieces : /\ PieceType(p) /\ PlacedIn(<<b>> \o blocks, p)
                         /\ CellsOf(p) \subseteq DOMAIN memory
  BY <1>1, <1>10 DEF PlacedIn
<1>14. PiecesApart /\ ContentsKept
  BY DEF IInv
<1>15. Serve(b, blocks, size, alignment, stored, meant)
  BY <1>2, <1>8
<1>16. blocks \in Seq(BlockType)
  BY <1>1 DEF ListSound
<1>17. /\ ListSound(blocks')
       /\ Listed' = {c.id : c \in ToSet(<<b>> \o blocks)}
       /\ \A p \in pieces' : /\ PieceType(p) /\ PlacedIn(blocks', p)
                             /\ CellsOf(p) \subseteq DOMAIN memory'
       /\ PiecesApart' /\ ContentsKept'
  BY <1>3, <1>9, <1>11, <1>12, <1>13, <1>14, <1>15, <1>16, ServeKeeps
<1>18. parent' = parent \union {b.id}
  BY <1>9 DEF Extend
<1>19. parent' = Listed'
  BY <1>1, <1>10, <1>17, <1>18 DEF Listed
<1> QED BY <1>17, <1>19, PiecesAre

\* A request is served from the newest block or from a new one.
LEMMA RequestStep ==
  ASSUME IInv, NEW size \in Sizes, NEW alignment \in Alignments,
         NEW stored, NEW meant, meant = [i \in 1..size |-> stored[i]],
         Request(size, alignment, stored, meant)
  PROVE  IInv'
<1>1. size \in Nat /\ size > 0 /\ alignment \in 1..SizeMax
  BY BumpAssumption, Constants DEF Request, Acceptable
<1>2. CASE Bump(size, alignment, stored, meant)
  BY <1>1, <1>2, BumpStep
<1>3. CASE Extend(size, alignment, stored, meant)
  BY <1>1, <1>3, ExtendStep DEF Request
<1> QED BY <1>2, <1>3 DEF Request

\* The copy of arena_realloc is what the old piece's user relies on.
LEMMA ReallocStep ==
  ASSUME IInv, NEW size \in Sizes, NEW alignment \in Alignments, NEW p \in pieces,
         Realloc(p, size, alignment)
  PROVE  IInv'
<1> DEFINE stored == WithPrefix(Contents(p), CopySize(p, size), size)
           meant  == WithPrefix(p.data, Smaller(p.size, size), size)
<1>1. Contents(p) = p.data
  BY DEF IInv, ContentsKept
<1>2. meant = stored
  BY <1>1 DEF CopySize
<1>3. meant = [i \in 1..size |-> stored[i]]
  BY <1>2 DEF WithPrefix
<1>4. Request(size, alignment, stored, meant)
  BY DEF Realloc
<1> HIDE DEF stored, meant
<1> QED BY <1>3, <1>4, RequestStep

\* A fresh arena owns nothing.
LEMMA InitIInv == Init => IInv
<1> SUFFICES ASSUME Init PROVE IInv
  OBVIOUS
<1>1. blocks = <<>> /\ parent = {} /\ pieces = {} /\ ToSet(blocks) = {} /\ Listed = {}
  BY DEF Init, ToSet, Listed
<1> QED BY <1>1 DEF IInv, TypeOK, BlocksSound, PiecesPlaced, PiecesApart, ContentsKept,
                    BlocksReturned

\* Every block on the list is returned, and those are all there are.
LEMMA ResetStep == ASSUME IInv, Reset PROVE IInv'
<1>1. blocks' = <<>> /\ pieces' = {} /\ ToSet(blocks') = {} /\ Listed' = {}
  BY DEF Reset, ToSet, Listed
<1>2. parent' = {}
  BY PiecesOf DEF Reset
<1> QED BY <1>1, <1>2 DEF IInv, TypeOK, BlocksSound, PiecesPlaced, PiecesApart,
                          ContentsKept, BlocksReturned

\* Each step keeps the invariant.
LEMMA StepIInv == IInv /\ [Next]_vars => IInv'
<1> SUFFICES ASSUME IInv, [Next]_vars PROVE IInv'
  OBVIOUS
<1>1. ASSUME NEW size \in Sizes, NEW alignment \in Alignments, Alloc(size, alignment)
      PROVE  IInv'
  <2>1. Fill(size) = [i \in 1..size |-> Fill(size)[i]]
    BY DEF Fill
  <2> QED BY <1>1, <2>1, RequestStep DEF Alloc
<1>2. ASSUME NEW size \in Sizes, NEW alignment \in Alignments, NEW p \in pieces,
             Realloc(p, size, alignment)
      PROVE  IInv'
  BY <1>2, ReallocStep
<1>3. CASE Reset
  BY <1>3, ResetStep
<1>4. CASE UNCHANGED vars
  BY <1>4 DEF vars, IInv, TypeOK, BlocksSound, PiecesPlaced, PiecesApart, ContentsKept,
              Contents, BlocksReturned, Listed
<1> QED BY <1>1, <1>2, <1>3, <1>4 DEF Next

-----------------------------------------------------------------------------
(* The theorems *)

\* The inductive invariant holds in every state the arena reaches: the pieces lie
\* aligned below what arena_alloc_internal counts as used, apart, with their contents,
\* and the arena owns the blocks on its list.
THEOREM Invariance == Spec => []IInv
BY InitIInv, StepIInv, PTL DEF Spec

\* Every piece allocator_arena serves lies inside a block, at an address of the
\* alignment asked for, and no size has wrapped.
THEOREM Fits == Spec => []PiecesFit
<1>1. IInv => PiecesFit
  <2> SUFFICES ASSUME IInv PROVE PiecesFit
    OBVIOUS
  <2>1. ASSUME NEW p \in pieces
        PROVE  /\ p.from + p.size <= Block(p.block).used
               /\ (Block(p.block).phase + p.from) % p.align = 0
    <3>1. PICK b \in ToSet(blocks) : /\ b.id = p.block /\ p.from + p.size <= b.used
                                    /\ (b.phase + p.from) % p.align = 0
      BY DEF IInv, PiecesPlaced
    <3>2. Block(p.block) \in ToSet(blocks) /\ Block(p.block).id = b.id
      BY <3>1 DEF Block
    <3>3. Block(p.block) = b
      BY <3>2, PiecesOf, OneBlock
    <3> QED BY <3>1, <3>3
  <2> QED BY <2>1 DEF PiecesFit, IInv, BlocksSound
<1> QED BY <1>1, Invariance, PTL

\* No two pieces that arena_alloc_internal has bumped off share a cell.
THEOREM Apart == Spec => []PiecesApart
<1>1. IInv => PiecesApart
  BY DEF IInv
<1> QED BY <1>1, Invariance, PTL

\* A piece keeps what its user stored over every later request, and arena_realloc
\* copies what its old piece held.
THEOREM Kept == Spec => []ContentsKept
<1>1. IInv => ContentsKept
  BY DEF IInv
<1> QED BY <1>1, Invariance, PTL

\* The blocks on the list are those the parent has out, so that allocator_arena_reset
\* gives all of them back.
THEOREM Returned == Spec => []BlocksReturned
<1>1. IInv => BlocksReturned
  BY DEF IInv
<1> QED BY <1>1, Invariance, PTL
=============================================================================
