-------------------------- MODULE PlacementProofs --------------------------
(***************************************************************************)
(* Where an object lies and what is zeroed of it, for every width of word, *)
(* size, alignment and address of memory, in both builds.                  *)
(***************************************************************************)
EXTENDS Placement, WellFoundedInduction, TLAPS

-----------------------------------------------------------------------------
(* Sets of naturals *)

\* A set of naturals has a least element.  Every induction below is an argument
\* about the least counterexample.
LEMMA LeastNatural ==
  ASSUME NEW S \in SUBSET Nat, S # {}
  PROVE  \E m \in S : \A k \in S : m <= k
<1> DEFINE R == OpToRel(<, Nat)
<1>1. IsWellFoundedOn(R, Nat)
  BY NatLessThanWellFounded
<1>2. \A i, j \in Nat : i < j => <<i, j>> \in R
  BY DEF OpToRel
<1> HIDE DEF R
<1>3. PICK m \in S : \A k \in S : ~(<<k, m>> \in R)
  <2>1. \E m \in S : \A k \in S : ~(<<k, m>> \in R)
    BY <1>1, WFMin
  <2> QED BY <2>1
<1>4. ASSUME NEW k \in S PROVE m <= k
  <2>1. m \in Nat /\ k \in Nat
    OBVIOUS
  <2>2. ~(k < m)
    BY <2>1, <1>2, <1>3
  <2> QED BY <2>1, <2>2
<1> QED BY <1>4

-----------------------------------------------------------------------------
(* fill_zero, for every address and length *)

\* Exactly, without its local definitions.
LEMMA ExactlyMeans ==
  ASSUME NEW w, NEW p, NEW n,
         \A r \in w : r.len > 0 => p <= r.at /\ r.at + r.len <= p + n,
         p = p + n \/ \E r \in w : r.len > 0 /\ r.at <= p /\ p < r.at + r.len,
         \A q \in w : q.len > 0 =>
           \/ q.at + q.len = p + n
           \/ \E r \in w : r.len > 0 /\ r.at <= q.at + q.len /\ q.at + q.len < r.at + r.len
  PROVE  Exactly(w, p, n)
BY DEF Exactly

\* Two stores from the two ends that meet or overlap.
LEMMA EndsExact ==
  ASSUME NEW p \in Nat, NEW n \in Nat, NEW w \in Nat \ {0}, w <= n, n <= 2 * w
  PROVE  Exactly(Ends(p, n, w), p, n)
<1> DEFINE first == At(p, w)
           last  == At(p + n - w, w)
<1>1. /\ first.at = p /\ first.len = w
      /\ last.at = p + n - w /\ last.len = w
  BY DEF At
<1>2. Ends(p, n, w) = {first, last}
  BY DEF Ends
<1> HIDE DEF first, last
<1> QED BY <1>1, <1>2, ExactlyMeans

\* The loop ends where the last store, which is as wide as one of its rounds, begins
\* or later, and not past the end.
LEMMA WithTailExact ==
  ASSUME NEW p \in Nat, NEW n \in Nat, NEW w \in {64, 128}, w <= n
  PROVE  Exactly(WithTail(p, n, w), p, n)
<1> DEFINE rounds == (p + n - w - p + w - 1) \div w
           loop == Loop(p, p + n - w, w)
           last == At(p + n - w, w)
<1>1. /\ rounds \in Nat /\ n - w <= w * rounds /\ w * rounds < n
  <2>1. p + n - w - p + w - 1 = n - 1 /\ n - 1 \in Nat
    OBVIOUS
  <2>2. CASE w = 64
    BY <2>1, <2>2
  <2>3. CASE w = 128
    BY <2>1, <2>3
  <2> QED BY <2>2, <2>3
<1>2. /\ loop.at = p /\ loop.len = w * rounds
      /\ last.at = p + n - w /\ last.len = w
  BY DEF At, Loop
<1>3. WithTail(p, n, w) = {last, loop}
  BY DEF WithTail
<1>4. w \in Nat /\ w > 0 /\ w * rounds \in Nat
  BY <1>1
<1> HIDE DEF loop, last
<1> DEFINE long == w * rounds
<1>5. long \in Nat /\ n - w <= long /\ long < n /\ loop.len = long
  BY <1>1, <1>2, <1>4
<1> HIDE DEF long
<1> QED BY <1>2, <1>3, <1>4, <1>5, ExactlyMeans

\* Bytes, words and bytes again are adjacent, and together all of the length.
LEMMA WordsExact ==
  ASSUME NEW p \in Nat, NEW n \in Nat
  PROVE  Exactly(Words(p, n), p, n)
<1> DEFINE unaligned == (WORD - (p % WORD)) % WORD
           head  == IF n < unaligned THEN n ELSE unaligned
           whole == (n - head) - ((n - head) % WORD)
           rest  == n - head - whole
           a == At(p, head)
           b == At(p + head, whole)
           c == At(p + head + whole, rest)
<1>1. unaligned \in Nat
  BY DEF WORD
<1>2. head \in Nat /\ head <= n
  BY <1>1
<1> HIDE DEF unaligned, head
<1>3. whole \in Nat /\ whole <= n - head
  BY <1>2 DEF WORD
<1> HIDE DEF whole
<1>4. rest \in Nat /\ head + whole + rest = n
  BY <1>2, <1>3
<1> HIDE DEF rest
<1>5. /\ a.at = p /\ a.len = head
      /\ b.at = p + head /\ b.len = whole
      /\ c.at = p + head + whole /\ c.len = rest
  BY DEF At
<1>6. Words(p, n) = {a, b, c}
  BY DEF Words, unaligned, head, whole, rest
<1> HIDE DEF a, b, c
<1> QED BY <1>2, <1>3, <1>4, <1>5, <1>6, ExactlyMeans

\* Whatever the processor: every byte is stored to, and none outside.
LEMMA FillExact ==
  ASSUME NEW p \in Nat, NEW n \in Nat, NEW impl
  PROVE  Exactly(FillZero(p, n, impl), p, n)
<1>1. CASE n < 16 \/ n >= Threshold
  BY <1>1, WordsExact DEF FillZero
<1>2. CASE ~(n < 16 \/ n >= Threshold) /\ impl = "avx2"
  <2>1. CASE n \in 16..31
    <3>1. FillZero(p, n, impl) = Ends(p, n, 16)
      BY <1>2, <2>1 DEF FillZero, Avx2
    <3> QED BY <3>1, <2>1, EndsExact
  <2>2. CASE n \in 32..64
    <3>1. FillZero(p, n, impl) = Ends(p, n, 32)
      BY <1>2, <2>2 DEF FillZero, Avx2
    <3> QED BY <3>1, <2>2, EndsExact
  <2>3. CASE n \in 65..127
    <3>1. FillZero(p, n, impl) = Ends(p, n, 64)
      BY <1>2, <2>3 DEF FillZero, Avx2
    <3> QED BY <3>1, <2>3, EndsExact
  <2>4. CASE n > 127
    <3>1. FillZero(p, n, impl) = WithTail(p, n, 128)
      BY <1>2, <2>4 DEF FillZero, Avx2
    <3> QED BY <3>1, <2>4, WithTailExact
  <2> QED BY <1>2, <2>1, <2>2, <2>3, <2>4
<1>3. CASE ~(n < 16 \/ n >= Threshold) /\ impl # "avx2"
  <2>1. CASE n \in 16..31
    <3>1. FillZero(p, n, impl) = Ends(p, n, 16)
      BY <1>3, <2>1 DEF FillZero, Sse2
    <3> QED BY <3>1, <2>1, EndsExact
  <2>2. CASE n \in 32..63
    <3>1. FillZero(p, n, impl) = Ends(p, n, 32)
      BY <1>3, <2>2 DEF FillZero, Sse2
    <3> QED BY <3>1, <2>2, EndsExact
  <2>3. CASE n > 63
    <3>1. FillZero(p, n, impl) = WithTail(p, n, 64)
      BY <1>3, <2>3 DEF FillZero, Sse2
    <3> QED BY <3>1, <2>3, WithTailExact
  <2> QED BY <1>3, <2>1, <2>2, <2>3
<1> QED BY <1>1, <1>2, <1>3
-----------------------------------------------------------------------------
(* Powers of two.  The provers compute 2^5 but know nothing of 2^k, so what   *)
(* there is to know is listed.                                              *)

PowersOfTwo ==
  {1, 2, 4, 8, 16, 32, 64, 128, 256, 512, 1024, 2048, 4096, 8192, 16384, 32768, 65536,
   131072, 262144, 524288, 1048576, 2097152, 4194304, 8388608, 16777216, 33554432,
   67108864, 134217728, 268435456, 536870912, 1073741824}

\* The powers of two the code's constants are made of.
LEMMA Powers ==
  /\ 2^0 = 1 /\ 2^1 = 2 /\ 2^2 = 4 /\ 2^3 = 8 /\ 2^4 = 16 /\ 2^5 = 32 /\ 2^6 = 64
  /\ 2^7 = 128 /\ 2^8 = 256 /\ 2^9 = 512 /\ 2^10 = 1024 /\ 2^11 = 2048 /\ 2^12 = 4096
  /\ 2^13 = 8192 /\ 2^14 = 16384 /\ 2^15 = 32768 /\ 2^16 = 65536 /\ 2^17 = 131072
  /\ 2^18 = 262144 /\ 2^19 = 524288 /\ 2^20 = 1048576 /\ 2^21 = 2097152
  /\ 2^22 = 4194304 /\ 2^23 = 8388608 /\ 2^24 = 16777216 /\ 2^25 = 33554432
  /\ 2^26 = 67108864 /\ 2^27 = 134217728 /\ 2^28 = 268435456 /\ 2^29 = 536870912
  /\ 2^30 = 1073741824
OBVIOUS

\* The exponents of a word's low half, listed.
LEMMA Exponents == ASSUME NEW k \in 0..30 PROVE k \in
  {0, 1, 2, 3, 4, 5, 6, 7, 8, 9, 10, 11, 12, 13, 14, 15,
            16, 17, 18, 19, 20, 21, 22, 23, 24, 25, 26, 27, 28, 29, 30}
OBVIOUS

\* Each power is twice the one before.
LEMMA PowerStep ==
  ASSUME NEW k \in 0..30
  PROVE  2^k \in PowersOfTwo /\ 2^k \in Nat /\ 2^k > 0 /\ 2^(k + 1) = 2 * 2^k
<1>1. k \in
           {0, 1, 2, 3, 4, 5, 6, 7, 8, 9, 10, 11, 12, 13, 14, 15,
            16, 17, 18, 19, 20, 21, 22, 23, 24, 25, 26, 27, 28, 29, 30}
  BY Exponents
<1>2. /\ 2^(0+1) = 2 * 2^0 /\ 2^(1+1) = 2 * 2^1 /\ 2^(2+1) = 2 * 2^2
      /\ 2^(3+1) = 2 * 2^3 /\ 2^(4+1) = 2 * 2^4 /\ 2^(5+1) = 2 * 2^5
      /\ 2^(6+1) = 2 * 2^6 /\ 2^(7+1) = 2 * 2^7 /\ 2^(8+1) = 2 * 2^8
      /\ 2^(9+1) = 2 * 2^9 /\ 2^(10+1) = 2 * 2^10 /\ 2^(11+1) = 2 * 2^11
      /\ 2^(12+1) = 2 * 2^12 /\ 2^(13+1) = 2 * 2^13 /\ 2^(14+1) = 2 * 2^14
      /\ 2^(15+1) = 2 * 2^15 /\ 2^(16+1) = 2 * 2^16 /\ 2^(17+1) = 2 * 2^17
      /\ 2^(18+1) = 2 * 2^18 /\ 2^(19+1) = 2 * 2^19 /\ 2^(20+1) = 2 * 2^20
      /\ 2^(21+1) = 2 * 2^21 /\ 2^(22+1) = 2 * 2^22 /\ 2^(23+1) = 2 * 2^23
      /\ 2^(24+1) = 2 * 2^24 /\ 2^(25+1) = 2 * 2^25 /\ 2^(26+1) = 2 * 2^26
      /\ 2^(27+1) = 2 * 2^27 /\ 2^(28+1) = 2 * 2^28 /\ 2^(29+1) = 2 * 2^29
      /\ 2^(30+1) = 2 * 2^30
  OBVIOUS
<1>3. 2^(k + 1) = 2 * 2^k
  BY <1>1, <1>2, Zenon
<1>4. 2^k \in PowersOfTwo
  <2>1. /\ 2^0 \in PowersOfTwo /\ 2^1 \in PowersOfTwo /\ 2^2 \in PowersOfTwo
        /\ 2^3 \in PowersOfTwo /\ 2^4 \in PowersOfTwo /\ 2^5 \in PowersOfTwo
        /\ 2^6 \in PowersOfTwo /\ 2^7 \in PowersOfTwo /\ 2^8 \in PowersOfTwo
        /\ 2^9 \in PowersOfTwo /\ 2^10 \in PowersOfTwo /\ 2^11 \in PowersOfTwo
        /\ 2^12 \in PowersOfTwo /\ 2^13 \in PowersOfTwo /\ 2^14 \in PowersOfTwo
        /\ 2^15 \in PowersOfTwo /\ 2^16 \in PowersOfTwo /\ 2^17 \in PowersOfTwo
        /\ 2^18 \in PowersOfTwo /\ 2^19 \in PowersOfTwo /\ 2^20 \in PowersOfTwo
        /\ 2^21 \in PowersOfTwo /\ 2^22 \in PowersOfTwo /\ 2^23 \in PowersOfTwo
        /\ 2^24 \in PowersOfTwo /\ 2^25 \in PowersOfTwo /\ 2^26 \in PowersOfTwo
        /\ 2^27 \in PowersOfTwo /\ 2^28 \in PowersOfTwo /\ 2^29 \in PowersOfTwo
        /\ 2^30 \in PowersOfTwo
    BY Powers DEF PowersOfTwo
  <2> QED BY <1>1, <2>1, Zenon
<1>5. \A n \in PowersOfTwo : n \in Nat /\ n > 0
  BY DEF PowersOfTwo
<1> QED BY <1>3, <1>4, <1>5

\* Powers grow.
LEMMA PowersGrow ==
  ASSUME NEW j \in 0..30, NEW k \in 0..30, j < k
  PROVE  2^(j + 1) <= 2^k
<1> DEFINE Wrong == {m \in Nat : m \in 0..30 /\ j < m /\ ~(2^(j + 1) <= 2^m)}
<1> SUFFICES ASSUME ~(2^(j + 1) <= 2^k) PROVE FALSE
  OBVIOUS
<1>1. Wrong \in SUBSET Nat /\ k \in Wrong
  OBVIOUS
<1>2. PICK m \in Wrong : \A i \in Wrong : m <= i
  <2> HIDE DEF Wrong
  <2> QED BY <1>1, LeastNatural
<1>3. m \in 0..30 /\ j < m /\ ~(2^(j + 1) <= 2^m)
  OBVIOUS
<1>4. 2^(j + 1) \in Nat /\ 2^m \in Nat
  <2>1. 2^j \in Nat /\ 2^(j + 1) = 2 * 2^j
    BY PowerStep
  <2>2. 2^(j + 1) \in Nat
    BY <2>1
  <2>3. 2^m \in Nat
    BY <1>3, PowerStep
  <2> QED BY <2>2, <2>3
<1>5. j + 1 < m
  <2>1. j + 1 = m \/ j + 1 < m
    BY <1>3
  <2>2. CASE j + 1 = m
    BY <2>2, <1>3, <1>4
  <2> QED BY <2>1, <2>2
<1>6. m - 1 \in 0..30 /\ j < m - 1 /\ (m - 1) + 1 = m /\ ~(m <= m - 1)
  BY <1>3, <1>5
<1>7. 2^(j + 1) <= 2^(m - 1)
  BY <1>2, <1>6
<1>8. 2^(m - 1) \in Nat /\ 2^m = 2 * 2^(m - 1)
  BY <1>6, PowerStep
<1> QED BY <1>3, <1>4, <1>7, <1>8

\* 63 - clz(v) is the exponent of the power below v, which is the only one.
LEMMA FloorIs ==
  ASSUME NEW k \in 0..30, NEW v \in Nat, 2^k <= v, v < 2^(k + 1)
  PROVE  FloorLog2(v) = k
<1>1. ASSUME NEW j \in 0..30, 2^j <= v, v < 2^(j + 1) PROVE j = k
  <2>1. 2^j \in Nat /\ 2^k \in Nat /\ 2^(j + 1) = 2 * 2^j /\ 2^(k + 1) = 2 * 2^k
    BY PowerStep
  <2>2. CASE j < k
    <3>1. 2^(j + 1) <= 2^k
      BY <2>2, PowersGrow
    <3> QED BY <1>1, <2>1, <3>1
  <2>3. CASE k < j
    <3>1. 2^(k + 1) <= 2^j
      BY <2>3, PowersGrow
    <3> QED BY <1>1, <2>1, <3>1
  <2> QED BY <2>2, <2>3
<1> QED BY <1>1 DEF FloorLog2

-----------------------------------------------------------------------------
(* Words and alignments *)

\* A number that a word holds is its own word.
LEMMA WordSmall == ASSUME NEW n \in 0..SizeMax PROVE Word(n) = n
<1>1. \A m, k \in Nat : m < k => m % k = m
  BY SMT
<1> QED BY <1>1, PlacementAssumption DEF Word

\* SizeMax is beyond any sum about a pool.
LEMMA SizeMaxLarge == SizeMax \in Nat /\ SizeMax >= 2^24
BY PlacementAssumption, Powers

\* A sum that wraps once.
LEMMA WordOver ==
  ASSUME NEW n \in Nat, SizeMax < n, n < 2 * (SizeMax + 1)
  PROVE  Word(n) = n - (SizeMax + 1)
<1>1. \A m, k \in Nat : k <= m /\ m < 2 * k => m % k = m - k
  BY SMT
<1>2. SizeMax + 1 \in Nat /\ SizeMax + 1 <= n
  BY SizeMaxLarge
<1> DEFINE k == SizeMax + 1
<1> HIDE DEF k
<1>3. n % k = n - k
  BY <1>1, <1>2 DEF k
<1> QED BY <1>3 DEF Word, k

\* ALIGN_UP is the next multiple, when the sum does not wrap.
LEMMA AlignedUp ==
  ASSUME NEW x \in Nat, NEW a \in PowersOfTwo, x + a - 1 <= SizeMax
  PROVE  LET u == AlignUp(x, a) IN u \in Nat /\ x <= u /\ u <= x + a - 1 /\ u % a = 0
<1>1. a \in Nat /\ a > 0
  BY DEF PowersOfTwo
<1> DEFINE s == x + a - 1
<1>2. s \in Nat /\ s <= SizeMax
  BY <1>1
<1>3. Word(s) = s
  BY <1>2, WordSmall, SizeMaxLarge
<1>4. AlignUp(x, a) = s - (s % a)
  BY <1>3 DEF AlignUp
<1>5. s % a \in 0..(a - 1)
  BY <1>1, <1>2
<1>6. (s - (s % a)) % a = 0
  <2> HIDE DEF s
  <2> QED BY <1>2 DEF PowersOfTwo
<1>7. s = x + a - 1
  OBVIOUS
<1> HIDE DEF s
<1> QED BY <1>1, <1>2, <1>4, <1>5, <1>6, <1>7
-----------------------------------------------------------------------------
(* Buddy pools *)

\* What an object of n bytes may need of a block.
Need(n, a) == POINTER + BuddyHeader + (a - 1) + n

\* The sizes of the blocks, smallest first.
LEMMA BlockSizes ==
  /\ BlockSize(0) = 4096 /\ BlockSize(1) = 8192 /\ BlockSize(2) = 16384
  /\ BlockSize(3) = 32768 /\ BlockSize(4) = 2^16 /\ BlockSize(5) = 2^17
  /\ BlockSize(6) = 2^18 /\ BlockSize(7) = 2^19 /\ BlockSize(8) = 2^20
  /\ BlockSize(9) = 2^21 /\ BlockSize(10) = 2^22 /\ BUDDY_POOL_SIZE = 2^22
BY DEF BlockSize, BUDDY_MIN_ORDER, BUDDY_POOL_SIZE

\* A larger order is a larger block.
LEMMA BlockSizesGrow ==
  ASSUME NEW o \in 0..10, NEW q \in 0..10, o <= q
  PROVE  BlockSize(o) \in Nat /\ BlockSize(q) \in Nat /\ BlockSize(o) <= BlockSize(q)
<1>1. o \in {0, 1, 2, 3, 4, 5, 6, 7, 8, 9, 10} /\ q \in {0, 1, 2, 3, 4, 5, 6, 7, 8, 9, 10}
  OBVIOUS
<1> QED BY <1>1, BlockSizes

\* 64 - clz(total - 1) is 12 more than the order whose block has room, when the one
\* below has not.
LEMMA CeilOf ==
  ASSUME NEW v \in Nat, NEW o \in 1..10, BlockSize(o - 1) < v, v <= BlockSize(o)
  PROVE  CeilLog2(v) = o + BUDDY_MIN_ORDER
<1>1. PICK k \in 0..30 : k = o + 11
  OBVIOUS
<1>2. (o - 1) + 12 = k /\ k + 1 = o + 12
  BY <1>1
<1>3. BlockSize(o - 1) = 2^k /\ BlockSize(o) = 2^(k + 1)
  BY <1>2 DEF BlockSize, BUDDY_MIN_ORDER
<1>4. 2^k \in Nat /\ 2^k > 0 /\ 2^(k + 1) = 2 * 2^k
  BY PowerStep
<1>5. PICK u \in Nat : u = v - 1
  BY <1>3, <1>4
<1>6. 2^k <= u /\ u < 2^(k + 1) /\ ~(v <= 1)
  BY <1>3, <1>4, <1>5
<1>7. FloorLog2(u) = k
  BY <1>6, FloorIs
<1> QED BY <1>1, <1>5, <1>6, <1>7 DEF CeilLog2, BUDDY_MIN_ORDER

\* The pool's blocks have an order for every size up to the pool's.
LEMMA CeilIs ==
  ASSUME NEW v \in Nat, 4096 < v, v <= 2^22
  PROVE  \E o \in 1..10 : /\ CeilLog2(v) = o + BUDDY_MIN_ORDER
                          /\ BlockSize(o - 1) < v /\ v <= BlockSize(o)
<1>1. \E o \in {1, 2, 3, 4, 5, 6, 7, 8, 9, 10} : BlockSize(o - 1) < v /\ v <= BlockSize(o)
  <2>1. /\ BlockSize(1 - 1) = 4096 /\ BlockSize(2 - 1) = 8192 /\ BlockSize(3 - 1) = 16384
        /\ BlockSize(4 - 1) = 32768 /\ BlockSize(5 - 1) = 2^16 /\ BlockSize(6 - 1) = 2^17
        /\ BlockSize(7 - 1) = 2^18 /\ BlockSize(8 - 1) = 2^19
        /\ BlockSize(9 - 1) = 2^20 /\ BlockSize(10 - 1) = 2^21
    BY BlockSizes
  <2> QED BY <2>1, BlockSizes
<1>2. PICK o \in 1..10 : BlockSize(o - 1) < v /\ v <= BlockSize(o)
  BY <1>1
<1> QED BY <1>2, CeilOf

\* size_to_order: the least order with room, or none when there is none.
LEMMA OrderIs ==
  ASSUME debug \in BOOLEAN, NEW n \in Nat, NEW a \in Nat,
         0 < n, n <= 2^22, 0 < a, a <= 2^22
  PROVE  \/ Need(n, a) > 2^22 /\ SizeToOrder(n, a) = OutOfRange
         \/ /\ SizeToOrder(n, a) \in 0..10
            /\ Need(n, a) <= BlockSize(SizeToOrder(n, a))
            /\ \A o \in 0..10 : o < SizeToOrder(n, a) => BlockSize(o) < Need(n, a)
<1> DEFINE total == n + POINTER + BuddyHeader + a - 1
<1>1. /\ total \in Nat /\ total = Need(n, a)
      /\ ~(n > SizeMax - POINTER - BuddyHeader - (a - 1))
  BY SizeMaxLarge DEF POINTER, BuddyHeader, Need
<1>2. SizeToOrder(n, a) =
        IF total <= PAGE_SIZE THEN 0
        ELSE IF total > BUDDY_POOL_SIZE THEN OutOfRange
        ELSE CeilLog2(total) - BUDDY_MIN_ORDER
  BY <1>1 DEF SizeToOrder
<1> HIDE DEF total
<1>3. CASE total <= 4096
  <2>1. SizeToOrder(n, a) = 0
    BY <1>2, <1>3 DEF PAGE_SIZE
  <2> QED BY <2>1, <1>1, <1>3, BlockSizes
<1>4. CASE total > 2^22
  BY <1>1, <1>2, <1>4, BlockSizes DEF PAGE_SIZE
<1>5. CASE 4096 < total /\ total <= 2^22
  <2>1. PICK o \in 1..10 : /\ CeilLog2(total) = o + BUDDY_MIN_ORDER
                           /\ BlockSize(o - 1) < total /\ total <= BlockSize(o)
    BY <1>1, <1>5, CeilIs
  <2>2. SizeToOrder(n, a) = o
    BY <1>1, <1>2, <1>5, <2>1, BlockSizes DEF PAGE_SIZE, BUDDY_MIN_ORDER
  <2>3. ASSUME NEW q \in 0..10, q < o PROVE BlockSize(q) < total
    <3>1. o - 1 \in 0..10 /\ q <= o - 1
      BY <2>3
    <3>2. BlockSize(q) \in Nat /\ BlockSize(o - 1) \in Nat /\ BlockSize(q) <= BlockSize(o - 1)
      BY <3>1, BlockSizesGrow
    <3> QED BY <3>2, <2>1, <1>1
  <2> QED BY <1>1, <2>1, <2>2, <2>3
<1> QED BY <1>1, <1>3, <1>4, <1>5

\* What size_to_order answers is what OrderLeast asks.
LEMMA LeastOrder ==
  ASSUME debug \in BOOLEAN, NEW n \in Nat, NEW a \in Nat,
         0 < n, n <= 2^22, 0 < a, a <= 2^22
  PROVE  LET enough == {o \in 0..(BUDDY_NUM_ORDERS - 1) :
                          POINTER + BuddyHeader + (a - 1) + n <= BlockSize(o)}
             order  == SizeToOrder(n, a)
         IN IF enough = {} THEN order >= BUDDY_NUM_ORDERS ELSE order = Min(enough)
<1> DEFINE enough == {o \in 0..10 : Need(n, a) <= BlockSize(o)}
           order  == SizeToOrder(n, a)
<1>1. Need(n, a) \in Nat
  BY DEF Need, POINTER, BuddyHeader
<1>2. BUDDY_NUM_ORDERS = 11 /\ BUDDY_NUM_ORDERS - 1 = 10 /\ OutOfRange = 6767
  BY DEF BUDDY_NUM_ORDERS, OutOfRange
<1>3. CASE Need(n, a) > 2^22 /\ order = OutOfRange
  <2>1. \A o \in 0..10 : BlockSize(o) \in Nat /\ BlockSize(o) <= 2^22
    <3>1. \A o \in 0..10 : o <= 10 /\ 10 \in 0..10
      OBVIOUS
    <3> QED BY <3>1, BlockSizesGrow, BlockSizes
  <2>2. enough = {}
    BY <1>1, <1>3, <2>1
  <2> QED BY <1>2, <1>3, <2>2 DEF Need
<1>4. CASE /\ order \in 0..10 /\ Need(n, a) <= BlockSize(order)
           /\ \A o \in 0..10 : o < order => BlockSize(o) < Need(n, a)
  <2>1. order \in enough
    BY <1>4
  <2>2. ASSUME NEW o \in enough PROVE order <= o
    <3>1. BlockSize(o) \in Nat
      BY BlockSizesGrow
    <3> HIDE DEF order
    <3> QED BY <1>1, <1>4, <3>1
  <2>3. \A o \in enough : o \in Nat
    OBVIOUS
  <2>4. order = Min(enough)
    <3> HIDE DEF order, enough
    <3> QED BY <2>1, <2>2, <2>3 DEF Min
  <2> QED BY <1>2, <2>1, <2>4 DEF Need
<1> QED BY <1>3, <1>4, OrderIs

-----------------------------------------------------------------------------
(* Slab caches *)

Classes == {16, 32, 64, 128, 256, 512, 768, 1024}

\* get_cache: a class that holds the object.
LEMMA ClassIs ==
  ASSUME NEW n \in Nat, n <= 1024
  PROVE  CacheFor(n) \in Classes /\ n <= CacheFor(n)
<1> DEFINE S == {i \in DOMAIN SizeClasses : n <= SizeClasses[i]}
<1>1. /\ DOMAIN SizeClasses = {1, 2, 3, 4, 5, 6, 7, 8}
      /\ SizeClasses[8] = 1024
      /\ \A i \in {1, 2, 3, 4, 5, 6, 7, 8} : SizeClasses[i] \in Classes
  BY DEF SizeClasses, Classes
<1>2. S \in SUBSET Nat /\ 8 \in S
  BY <1>1
<1> HIDE DEF S
<1>3. PICK m \in S : \A k \in S : m <= k
  BY <1>2, LeastNatural
<1>4. Min(S) \in S
  BY <1>3 DEF Min
<1>5. CacheFor(n) = SizeClasses[Min(S)]
  BY DEF CacheFor, S
<1> QED BY <1>1, <1>4, <1>5 DEF S

\* A class, a header, a slab's header: rounded up to sixteen.
LEMMA Rounded ==
  ASSUME NEW x \in Nat, x <= 1024
  PROVE  /\ AlignUp(x, 16) \in Nat /\ x <= AlignUp(x, 16) /\ AlignUp(x, 16) <= x + 15
         /\ AlignUp(x, 16) % 16 = 0
<1>1. 16 \in PowersOfTwo /\ x + 16 - 1 <= SizeMax /\ x + 16 - 1 = x + 15
  BY SizeMaxLarge DEF PowersOfTwo
<1> QED BY <1>1, AlignedUp

\* The layout of a slab: slots of a header and a class, behind the slab's own header.
LEMMA SlabLayout ==
  ASSUME debug \in BOOLEAN, NEW c \in Classes
  PROVE  /\ UserOffset \in {32, 64} /\ ObjHeader \in Nat /\ ObjHeader <= UserOffset
         /\ SlotSize(c) = UserOffset + c
         /\ Capacity(c) = 16320 \div SlotSize(c)
         /\ \A slab \in Nat : ObjStart(slab) = slab + 64
<1>1. SLAB_MAX_ALIGNMENT = 16 /\ SlabHeader = 64 /\ SLAB_SIZE = 16384
  BY DEF SLAB_MAX_ALIGNMENT, SlabHeader, SLAB_SIZE, PAGE_SIZE
<1>2. ObjHeader = 56 \/ ObjHeader = 32
  BY DEF ObjHeader
<1>3. UserOffset \in {32, 64} /\ ObjHeader \in Nat /\ ObjHeader <= UserOffset
  <2>1. ObjHeader \in Nat /\ ObjHeader <= 1024
    BY <1>2
  <2>2. UserOffset \in Nat /\ ObjHeader <= UserOffset /\ UserOffset <= ObjHeader + 15
        /\ UserOffset % 16 = 0
    BY <1>1, <2>1, Rounded DEF UserOffset
  <2> QED BY <1>2, <2>2
<1>4. AlignUp(c, 16) = c
  <2>1. c \in Nat /\ c <= 1024 /\ c % 16 = 0
    BY DEF Classes
  <2>2. /\ AlignUp(c, 16) \in Nat /\ c <= AlignUp(c, 16) /\ AlignUp(c, 16) <= c + 15
        /\ AlignUp(c, 16) % 16 = 0
    BY <2>1, Rounded
  <2> QED BY <2>1, <2>2
<1>5. AlignUp(64, 16) = 64
  <2>1. /\ AlignUp(64, 16) \in Nat /\ 64 <= AlignUp(64, 16) /\ AlignUp(64, 16) <= 64 + 15
        /\ AlignUp(64, 16) % 16 = 0
    BY Rounded
  <2> QED BY <2>1
<1>6. \A slab \in Nat : ObjStart(slab) = slab + 64
  BY <1>1, <1>5 DEF ObjStart
<1>7. SlotSize(c) = UserOffset + c
  BY <1>1, <1>4 DEF SlotSize
<1>8. Capacity(c) = 16320 \div SlotSize(c)
  <2>1. ObjStart(0) = 64 /\ SLAB_SIZE - 64 = 16320
    BY <1>1, <1>6
  <2> QED BY <2>1 DEF Capacity
<1> QED BY <1>3, <1>6, <1>7, <1>8

\* Whatever the class and the build: a slot that slab_create has cut lies in its slab,
\* and the object in it on a boundary of sixteen.
LEMMA SlotFits ==
  ASSUME debug \in BOOLEAN, NEW c \in Classes, NEW slab \in Nat, slab % 16 = 0,
         NEW i \in {0, 1, Capacity(c) - 1}
  PROVE  /\ SlotAt(slab, c, i) \in Nat /\ slab + 64 <= SlotAt(slab, c, i)
         /\ SlotAt(slab, c, i) + SlotSize(c) <= slab + 16384
         /\ (SlotAt(slab, c, i) + UserOffset) % 16 = 0
<1> DEFINE s == SlotSize(c)
<1>1. /\ UserOffset \in {32, 64} /\ s = UserOffset + c
      /\ Capacity(c) = 16320 \div s /\ ObjStart(slab) = slab + 64
  BY SlabLayout
<1>2. s \in {48, 64, 80, 96, 128, 160, 192, 288, 320, 544, 576, 800, 832, 1056, 1088}
  BY <1>1 DEF Classes
<1>3. SlotAt(slab, c, i) = slab + 64 + i * s
  BY <1>1 DEF SlotAt
<1> HIDE DEF s
<1>4. \A k \in Nat : (k + 1) * s <= 16320 => /\ k * s \in Nat /\ k * s + s <= 16320
                                             /\ (k * s) % 16 = 0
  BY <1>2
<1>5. i \in Nat /\ (i + 1) * s <= 16320
  <2>1. Capacity(c) \in Nat /\ Capacity(c) - 1 \in Nat /\ Capacity(c) * s <= 16320
    BY <1>1, <1>2
  <2>2. CASE i = Capacity(c) - 1
    <3>1. i + 1 = Capacity(c) /\ i \in Nat
      BY <2>1, <2>2
    <3> QED BY <3>1, <2>1
  <2>3. CASE i = 0 \/ i = 1
    BY <1>2, <2>3
  <2> QED BY <2>2, <2>3
<1>6. i * s \in Nat /\ i * s + s <= 16320 /\ (i * s) % 16 = 0
  BY <1>4, <1>5
<1> DEFINE off == i * s
<1>7. off \in Nat /\ off + s <= 16320 /\ off % 16 = 0 /\ SlotAt(slab, c, i) = slab + 64 + off
  BY <1>3, <1>6
<1> HIDE DEF off
<1>8. s \in Nat
  BY <1>2
<1>9. (slab + 64 + off + UserOffset) % 16 = 0
  BY <1>1, <1>7
<1> QED BY <1>7, <1>8, <1>9 DEF s
-----------------------------------------------------------------------------
(* An object in a block, and in a backing *)

\* A block of the order that was asked holds its object behind the header.
LEMMA InBlock ==
  ASSUME debug \in BOOLEAN, NEW n \in Nat, NEW a \in PowersOfTwo, NEW base \in Nat,
         0 < n, n <= 2^22, a <= 2^22,
         SizeToOrder(n, a) < 11, base + BlockSize(SizeToOrder(n, a)) <= SizeMax
  PROVE  LET user == UserInBlock(base, a) IN
         /\ user \in Nat /\ user % a = 0
         /\ base + POINTER <= user - BuddyHeader
         /\ user + n <= base + BlockSize(SizeToOrder(n, a))
<1>1. a \in Nat /\ 0 < a
  BY DEF PowersOfTwo
<1> DEFINE order == SizeToOrder(n, a)
           user  == UserInBlock(base, a)
<1>2. order \in 0..10 /\ Need(n, a) <= BlockSize(order)
  BY <1>1, OrderIs DEF OutOfRange
<1>3. BlockSize(order) \in Nat
  BY <1>2, BlockSizesGrow
<1> HIDE DEF order
<1>4. POINTER = 8 /\ BuddyHeader \in Nat
  BY DEF POINTER, BuddyHeader
<1>5. Need(n, a) = 8 + BuddyHeader + (a - 1) + n
  BY <1>4 DEF Need
<1> DEFINE x == base + POINTER + BuddyHeader
<1>6. x \in Nat /\ x + a - 1 <= SizeMax /\ x + a - 1 + n <= base + BlockSize(order)
  BY <1>1, <1>2, <1>3, <1>4, <1>5, SizeMaxLarge DEF order
<1>7. x = base + 8 + BuddyHeader
  BY <1>4
<1>8. user = AlignUp(x, a)
  BY DEF UserInBlock
<1> HIDE DEF x, user
<1>9. user \in Nat /\ x <= user /\ user <= x + a - 1 /\ user % a = 0
  BY <1>6, <1>8, AlignedUp
<1>10. base + POINTER <= user - BuddyHeader /\ user + n <= base + BlockSize(order)
  BY <1>1, <1>3, <1>4, <1>6, <1>7, <1>9
<1> QED BY <1>9, <1>10 DEF user, order

\* A backing of any bytes at all holds its object behind the header: rounding up to
\* pages wraps to none.
LEMMA InBacking ==
  ASSUME NEW n \in Nat, NEW a \in PowersOfTwo, NEW base \in Nat, Fits(n, a),
         BackingSize(n, a) > 0, base + BackingSize(n, a) <= SizeMax
  PROVE  LET user == AlignUp(base + LargeHeader, a) IN
         /\ user \in Nat /\ user % a = 0
         /\ base <= user - LargeHeader
         /\ user + n <= base + BackingSize(n, a)
<1>1. a \in Nat /\ 0 < a /\ LargeHeader = 32 /\ PAGE_SIZE = 4096
  BY DEF PowersOfTwo, LargeHeader, PAGE_SIZE
<1> DEFINE total  == n + 32 + a - 1
           length == BackingSize(n, a)
           user   == AlignUp(base + LargeHeader, a)
<1>2. total \in 0..SizeMax
  BY <1>1, SizeMaxLarge DEF Fits
<1>3. TotalSize(n, a) = total
  <2>1. n + LargeHeader + a - 1 = total
    BY <1>1
  <2> QED BY <2>1, <1>2, WordSmall DEF TotalSize
<1> HIDE DEF total
<1>4. length = Word(total + 4095) - (Word(total + 4095) % 4096)
  <2>1. total + PAGE_SIZE - 1 = total + 4095
    BY <1>1, <1>2
  <2> QED BY <2>1, <1>1, <1>3 DEF BackingSize
<1> HIDE DEF length
<1>5. length \in Nat /\ total <= length
  <2>1. CASE total + 4095 <= SizeMax
    <3>1. total + 4095 \in 0..SizeMax
      BY <1>2, <2>1, SizeMaxLarge
    <3>2. Word(total + 4095) = total + 4095
      BY <3>1, WordSmall
    <3> QED BY <1>2, <1>4, <3>2, SizeMaxLarge
  <2>2. CASE total + 4095 > SizeMax
    <3> DEFINE over == total + 4095 - (SizeMax + 1)
    <3>1. over \in Nat /\ over < 4095
      BY <1>2, <2>2, SizeMaxLarge
    <3>2. Word(total + 4095) = over
      <4>1. PICK sum \in Nat : sum = total + 4095
        BY <1>2
      <4>2. SizeMax < sum /\ sum < 2 * (SizeMax + 1)
        BY <1>2, <2>2, <4>1, SizeMaxLarge
      <4>3. Word(sum) = sum - (SizeMax + 1)
        BY <4>2, WordOver
      <4>4. Word(total + 4095) = sum - (SizeMax + 1)
        BY <4>1, <4>3
      <4> QED BY <1>2, <4>1, <4>4, SizeMaxLarge
    <3> HIDE DEF over
    <3>3. over % 4096 = over
      BY <3>1
    <3>4. length = 0
      BY <1>4, <3>1, <3>2, <3>3
    <3> QED BY <3>4 DEF length
  <2> QED BY <1>2, <2>1, <2>2, SizeMaxLarge
<1>6. total = n + 32 + a - 1
  BY DEF total
<1> DEFINE x == base + 32
<1>7. x \in Nat /\ x + a - 1 <= SizeMax /\ x + a - 1 + n <= base + length
  <2>1. base + length <= SizeMax
    BY DEF length
  <2> QED BY <2>1, <1>1, <1>5, <1>6, SizeMaxLarge
<1>8. user = AlignUp(x, a)
  BY <1>1
<1>9. x = base + 32
  OBVIOUS
<1> HIDE DEF x, user
<1>10. user \in Nat /\ x <= user /\ user <= x + a - 1 /\ user % a = 0
  BY <1>7, <1>8, AlignedUp
<1>11. base <= user - LargeHeader /\ user + n <= base + length
  BY <1>1, <1>5, <1>7, <1>9, <1>10
<1> QED BY <1>10, <1>11 DEF user, length
-----------------------------------------------------------------------------
(* The steps *)

\* The parts of the invariant that a step without an object leaves to show.
LEMMA NoObjectKeeps ==
  ASSUME (debug \in BOOLEAN)', (zero \in BOOLEAN)', (size \in 0..SizeMax)',
         (object = NoObject)', pc' \in {"idle", "slab", "pool", "large"},
         (pc \in {"slab", "pool", "large"} => size > 0 /\ alignment \in {2^k : k \in 0..30})',
         Routed', OrderLeast'
  PROVE  IInv'
<1>1. object'.kind = "none"
  BY DEF NoObject
<1> QED BY <1>1 DEF IInv, TypeOK, InOwnMemory, ZeroedExactly

\* What no step writes of a build: headers, hence orders, are the same.
LEMMA SameBuild ==
  ASSUME debug' = debug
  PROVE  /\ BuddyHeader' = BuddyHeader
         /\ \A n, a : SizeToOrder(n, a)' = SizeToOrder(n, a)
         /\ \A base, a : UserInBlock(base, a)' = UserInBlock(base, a)
BY DEF BuddyHeader, SizeToOrder, UserInBlock

\* An alignment that sigma_alignment_is_valid accepts.
LEMMA ValidIsPower ==
  ASSUME NEW a \in {2^k : k \in 0..30} PROVE a \in PowersOfTwo /\ a \in Nat /\ a > 0
BY PowerStep

\* A request passes the guards of sigma_alloc and is routed.
LEMMA CallStep ==
  ASSUME IInv, NEW n \in Sizes, NEW a \in Alignments, NEW z \in BOOLEAN, Call(n, a, z)
  PROVE  IInv'
<1>1. /\ n \in 0..SizeMax /\ n \in Nat /\ n > 0 /\ a \in {2^k : k \in 0..30}
      /\ a \in Nat /\ a > 0
  <2>1. n \in 0..SizeMax /\ n # 0 /\ a \in {2^k : k \in 0..30}
    <3>1. n \in 0..SizeMax
      BY PlacementAssumption
    <3>2. n # 0 /\ \E k \in 0..30 : a = 2^k
      BY DEF Call, ValidAlignment
    <3> QED BY <3>1, <3>2
  <2> QED BY <2>1, ValidIsPower, SizeMaxLarge
<1>2. /\ size' = n /\ alignment' = a /\ zero' = z /\ pc' = Route(n, a)
      /\ debug' = debug /\ object' = object
  BY DEF Call
<1>3. object = NoObject /\ debug \in BOOLEAN
  BY DEF IInv, TypeOK, Call
<1>4. pc' \in {"slab", "pool", "large"}
  BY <1>2 DEF Route
<1>5. Routed'
  BY <1>2 DEF Routed, Route
<1>6. OrderLeast'
  <2> SUFFICES ASSUME pc' = "pool" PROVE OrderLeast'
    BY DEF OrderLeast
  <2>1. n <= 2^22 /\ a <= 2^22
    BY <1>2, BlockSizes DEF Route
  <2> QED BY <1>1, <1>2, <1>3, <2>1, LeastOrder, SameBuild DEF OrderLeast
<1> QED BY <1>1, <1>2, <1>3, <1>4, <1>5, <1>6, NoObjectKeeps

\* The answer goes to the caller.
LEMMA ReturnStep == ASSUME IInv, Return PROVE IInv'
<1>1. /\ pc' = "idle" /\ size' = 0 /\ zero' = FALSE /\ object' = NoObject /\ debug' = debug
  BY DEF Return
<1>2. debug' \in BOOLEAN /\ size' \in 0..SizeMax
  BY <1>1, SizeMaxLarge DEF IInv, TypeOK
<1>3. Routed' /\ OrderLeast'
  BY <1>1 DEF Routed, OrderLeast
<1> QED BY <1>1, <1>2, <1>3, NoObjectKeeps

\* The pool has no such order, and the request goes on to large_alloc.
LEMMA PoolRefusesStep == ASSUME IInv, PoolRefuses PROVE IInv'
<1>1. pc = "pool" /\ pc' = "large" /\ UNCHANGED <<debug, size, alignment, zero, object, stores>>
  BY DEF PoolRefuses, request
<1>2. object = NoObject /\ debug \in BOOLEAN /\ zero \in BOOLEAN /\ size \in 0..SizeMax
      /\ size > 0 /\ alignment \in {2^k : k \in 0..30}
  BY <1>1 DEF IInv, TypeOK
<1> QED BY <1>1, <1>2, NoObjectKeeps DEF Routed, OrderLeast

\* InOwnMemory, of an object that is about to be served.
InItsSlab(from, to) == \E base \in Bases :
  LET slab == UserInBlock(base, SLAB_MAX_ALIGNMENT) IN
  /\ slab + SlabHeader <= from
  /\ to <= slab + SLAB_SIZE
  /\ slab + SLAB_SIZE <= base + BlockSize(SizeToOrder(SLAB_SIZE, SLAB_MAX_ALIGNMENT))

OwnAt(kind, from, to, header, user) ==
  /\ user % alignment = 0 /\ from <= header /\ user + size <= to
  /\ kind = "slab" => InItsSlab(from, to)

\* The parts of the invariant that a served request leaves to show.
LEMMA ServedKeeps ==
  ASSUME IInv, NEW kind \in {"slab", "buddy", "large"}, NEW from, NEW to, NEW header, NEW user,
         Served(kind, from, to, header, user), user \in Nat,
         EmptyGiven = FALSE => OwnAt(kind, from, to, header, user)
  PROVE  IInv'
<1>1. /\ pc' = "served" /\ UNCHANGED <<debug, size, alignment, zero>>
      /\ object' = [kind |-> kind, from |-> from, to |-> to, header |-> header, user |-> user]
  BY DEF Served, request
<1>2. /\ object'.kind = kind /\ object'.from = from /\ object'.to = to
      /\ object'.header = header /\ object'.user = user
  BY <1>1
<1>3. object' # NoObject
  BY <1>2 DEF NoObject
<1>4. TypeOK'
  BY <1>1, <1>2, <1>3 DEF IInv, TypeOK
<1>5. EmptyGiven = FALSE => InOwnMemory'
  <2> SUFFICES ASSUME EmptyGiven = FALSE PROVE InOwnMemory'
    OBVIOUS
  <2>1. user % alignment = 0 /\ from <= header /\ user + size <= to
    BY DEF OwnAt
  <2>2. ASSUME kind = "slab" PROVE InItsSlab(from, to)'
    BY <1>1, <2>2, SameBuild DEF OwnAt, InItsSlab
  <2> QED BY <1>1, <1>2, <2>1, <2>2 DEF InOwnMemory, InItsSlab
<1>6. Routed' /\ OrderLeast' /\ ZeroedExactly'
  BY <1>1 DEF Routed, OrderLeast, ZeroedExactly
<1> QED BY <1>2, <1>4, <1>5, <1>6 DEF IInv

\* A block of the order that was computed has room for what it holds.
LEMMA BlockAllocStep == ASSUME IInv, BlockAlloc PROVE IInv'
<1> DEFINE o == SizeToOrder(size, alignment)
<1>1. pc = "pool" /\ o < BUDDY_NUM_ORDERS
  BY DEF BlockAlloc
<1>2. PICK base \in Bases :
        /\ Addressable(base, BlockSize(o))
        /\ Served("buddy", base + POINTER, base + BlockSize(o),
                  UserInBlock(base, alignment) - BuddyHeader, UserInBlock(base, alignment))
  BY DEF BlockAlloc
<1>3. /\ debug \in BOOLEAN /\ base \in Nat /\ size \in Nat /\ 0 < size /\ size <= 2^22
      /\ alignment \in PowersOfTwo /\ alignment <= 2^22
  <2>1. size \in 0..SizeMax /\ size > 0 /\ alignment \in {2^k : k \in 0..30} /\ debug \in BOOLEAN
    BY <1>1 DEF IInv, TypeOK
  <2>2. size <= 2^22 /\ alignment <= 2^22
    BY <1>1, BlockSizes DEF IInv, Routed
  <2> QED BY <2>1, <2>2, ValidIsPower, SizeMaxLarge, PlacementAssumption
<1>4. o < 11 /\ base + BlockSize(o) <= SizeMax
  BY <1>1, <1>2 DEF Addressable, BUDDY_NUM_ORDERS
<1> DEFINE user == UserInBlock(base, alignment)
<1>5. /\ user \in Nat /\ user % alignment = 0 /\ base + POINTER <= user - BuddyHeader
      /\ user + size <= base + BlockSize(o)
  BY <1>3, <1>4, InBlock
<1>6. OwnAt("buddy", base + POINTER, base + BlockSize(o), user - BuddyHeader, user)
  BY <1>5 DEF OwnAt
<1> HIDE DEF o, user
<1> QED BY <1>2, <1>5, <1>6, ServedKeeps DEF user

\* A slab is itself an object of a block, of the order that slab_create asks for.
LEMMA SlabInBlock ==
  ASSUME debug \in BOOLEAN, NEW base \in Nat,
         base + BlockSize(SizeToOrder(SLAB_SIZE, SLAB_MAX_ALIGNMENT)) <= SizeMax
  PROVE  LET slab == UserInBlock(base, SLAB_MAX_ALIGNMENT) IN
         /\ slab \in Nat /\ slab % 16 = 0
         /\ slab + SLAB_SIZE <= base + BlockSize(SizeToOrder(SLAB_SIZE, SLAB_MAX_ALIGNMENT))
<1>1. SLAB_SIZE = 16384 /\ SLAB_MAX_ALIGNMENT = 16
  BY DEF SLAB_SIZE, PAGE_SIZE, SLAB_MAX_ALIGNMENT
<1>2. 16 \in PowersOfTwo
  BY DEF PowersOfTwo
<1>3. SizeToOrder(16384, 16) < 11
  <2>1. ASSUME NEW n \in Nat, NEW a \in Nat, n = 16384, a = 16
        PROVE  SizeToOrder(n, a) \in 0..10
    <3>1. Need(n, a) <= 2^22
      BY <2>1 DEF Need, POINTER, BuddyHeader
    <3>2. 0 < n /\ n <= 2^22 /\ 0 < a /\ a <= 2^22
      BY <2>1
    <3>3. Need(n, a) \in Nat
      BY DEF Need, POINTER, BuddyHeader
    <3> QED BY <3>1, <3>2, <3>3, OrderIs
  <2> QED BY <2>1
<1> QED BY <1>1, <1>2, <1>3, InBlock

\* A slot of the class that was chosen has room for what it holds.
LEMMA SlabAllocStep == ASSUME IInv, SlabAlloc PROVE IInv'
<1> DEFINE c == CacheFor(size)
           S(base) == UserInBlock(base, SLAB_MAX_ALIGNMENT)
           T(base, i) == SlotAt(S(base), c, i)
           block == BlockSize(SizeToOrder(SLAB_SIZE, SLAB_MAX_ALIGNMENT))
<1>1. pc = "slab"
  BY DEF SlabAlloc
<1>2. PICK base \in Bases, i \in {0, 1, Capacity(c) - 1} :
        LET slab == UserInBlock(base, SLAB_MAX_ALIGNMENT)
            slot == SlotAt(slab, c, i)
            user == slot + UserOffset
        IN /\ Addressable(base, block)
           /\ Served("slab", slot, slot + SlotSize(c), user - ObjHeader, user)
  <2> HIDE DEF S, T
  <2> QED BY DEF SlabAlloc
<1>3. /\ debug \in BOOLEAN /\ base \in Nat /\ size \in Nat /\ size <= 1024
      /\ alignment \in PowersOfTwo /\ alignment <= 16
  <2>1. size \in 0..SizeMax /\ alignment \in {2^k : k \in 0..30} /\ debug \in BOOLEAN
    BY <1>1 DEF IInv, TypeOK
  <2>2. size <= 1024 /\ alignment <= 16
    BY <1>1 DEF IInv, Routed, MAX_SLAB_OBJ_SIZE, SLAB_MAX_ALIGNMENT
  <2> QED BY <2>1, <2>2, ValidIsPower, SizeMaxLarge, PlacementAssumption
<1> DEFINE slab == S(base)
           slot == T(base, i)
           user == slot + UserOffset
<1>4. slab \in Nat /\ slab % 16 = 0 /\ slab + SLAB_SIZE <= base + block
  BY <1>2, <1>3, SlabInBlock DEF Addressable
<1>5. c \in Classes /\ size <= c
  BY <1>3, ClassIs
<1> HIDE DEF c
<1>6. /\ slot \in Nat /\ slab + 64 <= slot /\ slot + SlotSize(c) <= slab + 16384
      /\ (slot + UserOffset) % 16 = 0
  BY <1>2, <1>3, <1>4, <1>5, SlotFits
<1>7. /\ UserOffset \in {32, 64} /\ ObjHeader \in Nat /\ ObjHeader <= UserOffset
      /\ SlotSize(c) = UserOffset + c
  BY <1>3, <1>5, SlabLayout
<1>8. SLAB_SIZE = 16384 /\ SlabHeader = 64 /\ c \in Nat
  BY <1>5 DEF SLAB_SIZE, PAGE_SIZE, SlabHeader, Classes
<1> HIDE DEF S, T, slab, slot, block
<1>9. user \in Nat /\ slot <= user - ObjHeader /\ user + size <= slot + SlotSize(c)
  BY <1>3, <1>5, <1>6, <1>7, <1>8
<1>10. user % alignment = 0
  <2>1. alignment \in {1, 2, 4, 8, 16}
    BY <1>3 DEF PowersOfTwo
  <2>2. user % 16 = 0
    BY <1>6
  <2> HIDE DEF user
  <2> QED BY <1>9, <2>1, <2>2
<1>11. slab + SlabHeader <= slot /\ slot + SlotSize(c) <= slab + SLAB_SIZE
  BY <1>6, <1>8
<1>12. OwnAt("slab", slot, slot + SlotSize(c), user - ObjHeader, user)
  <2>1. InItsSlab(slot, slot + SlotSize(c))
    BY <1>4, <1>11 DEF InItsSlab, slab, S, block
  <2> QED BY <1>9, <1>10, <2>1 DEF OwnAt
<1>13. Served("slab", slot, slot + SlotSize(c), user - ObjHeader, user)
  BY <1>2 DEF slot, T, S
<1> HIDE DEF user
<1> QED BY <1>9, <1>12, <1>13, ServedKeeps

\* A backing of the size that was computed has room for what it holds.
LEMMA LargeAllocStep == ASSUME IInv, LargeAlloc PROVE IInv'
<1> DEFINE length == BackingSize(size, alignment)
<1>1. pc = "large" /\ Fits(size, alignment) /\ (length > 0 \/ EmptyGiven)
  BY DEF LargeAlloc
<1>2. PICK base \in Bases :
        /\ Addressable(base, length)
        /\ Served("large", base, base + length, AlignUp(base + LargeHeader, alignment) - LargeHeader,
                  AlignUp(base + LargeHeader, alignment))
  BY DEF LargeAlloc
<1>3. base \in Nat /\ size \in Nat /\ alignment \in PowersOfTwo /\ alignment \in Nat /\ alignment > 0
  <2>1. size \in 0..SizeMax /\ alignment \in {2^k : k \in 0..30}
    BY <1>1 DEF IInv, TypeOK
  <2> QED BY <2>1, ValidIsPower, SizeMaxLarge, PlacementAssumption
<1> DEFINE user == AlignUp(base + LargeHeader, alignment)
<1>4. user \in Nat
  <2> DEFINE sum == Word(base + LargeHeader + alignment - 1)
  <2>1. base + LargeHeader + alignment - 1 \in Nat
    BY <1>3 DEF LargeHeader
  <2>2. sum \in Nat
    BY <2>1, SizeMaxLarge DEF Word
  <2>3. user = sum - (sum % alignment)
    BY DEF AlignUp
  <2> HIDE DEF sum, user
  <2> QED BY <1>3, <2>2, <2>3
<1>5. ASSUME EmptyGiven = FALSE
      PROVE  /\ user % alignment = 0 /\ base <= user - LargeHeader
             /\ user + size <= base + length
  BY <1>1, <1>2, <1>3, <1>5, InBacking DEF Addressable
<1>6. EmptyGiven = FALSE => OwnAt("large", base, base + length, user - LargeHeader, user)
  BY <1>5 DEF OwnAt
<1> HIDE DEF length
<1> QED BY <1>2, <1>4, <1>6, ServedKeeps

\* sigma_calloc fills the object it was given.
LEMMA FillStep == ASSUME IInv, Fill PROVE IInv'
<1>1. pc = "served" /\ pc' = "filled" /\ UNCHANGED <<debug, size, alignment, zero, object>>
  BY DEF Fill, request
<1>2. object # NoObject /\ object.user \in Nat /\ size \in Nat
  BY <1>1, SizeMaxLarge DEF IInv, TypeOK
<1>3. Exactly(stores', object.user, size)
  BY <1>2, FillExact DEF Fill
<1>4. TypeOK' /\ Routed' /\ OrderLeast'
  BY <1>1 DEF IInv, TypeOK, Routed, OrderLeast
<1>5. ZeroedExactly'
  BY <1>1, <1>3 DEF ZeroedExactly
<1>6. EmptyGiven = FALSE => InOwnMemory'
  BY <1>1, SameBuild DEF IInv, InOwnMemory
<1> QED BY <1>1, <1>2, <1>4, <1>5, <1>6 DEF IInv

\* fill_zero on bytes of the caller's own.
LEMMA FillCallStep ==
  ASSUME IInv, NEW p \in Offsets, NEW n \in Sizes, FillCall(p, n)
  PROVE  IInv'
<1>1. /\ pc' = "served" /\ size' = n /\ zero' = TRUE /\ debug' = debug
      /\ object' = [kind |-> "bytes", from |-> p, to |-> p + n, header |-> p, user |-> p]
  BY DEF FillCall
<1>2. object'.kind = "bytes" /\ object'.user = p
  BY <1>1
<1>3. p \in Nat /\ n \in 0..SizeMax /\ object' # NoObject
  BY <1>2, PlacementAssumption DEF NoObject
<1> QED BY <1>1, <1>2, <1>3
        DEF IInv, TypeOK, Routed, OrderLeast, ZeroedExactly, InOwnMemory

\* Before the first request.
LEMMA InitIInv == Init => IInv
<1> SUFFICES ASSUME Init PROVE IInv
  OBVIOUS
<1>1. object.kind = "none"
  BY DEF Init, NoObject
<1>2. size \in 0..SizeMax
  BY SizeMaxLarge DEF Init
<1> QED BY <1>1, <1>2
        DEF Init, IInv, TypeOK, Routed, OrderLeast, ZeroedExactly, InOwnMemory

\* Each step keeps the invariant.
LEMMA StepIInv == IInv /\ [Next]_vars => IInv'
<1> SUFFICES ASSUME IInv, [Next]_vars PROVE IInv'
  OBVIOUS
<1>1. CASE UNCHANGED vars
  BY <1>1, SameBuild
     DEF vars, IInv, TypeOK, Routed, OrderLeast, ZeroedExactly, InOwnMemory
<1>2. ASSUME NEW n \in Sizes, NEW a \in Alignments, Refuse(n, a) PROVE IInv'
  BY <1>1, <1>2 DEF Refuse
<1>3. ASSUME NEW n \in Sizes, NEW a \in Alignments, NEW z \in BOOLEAN, Call(n, a, z)
      PROVE  IInv'
  BY <1>3, CallStep
<1>4. CASE SlabFails \/ NoArena \/ LargeFails \/ Done
  BY <1>4, ReturnStep DEF SlabFails, NoArena, LargeFails, Done
<1>5. ASSUME NEW p \in Offsets, NEW n \in Sizes, FillCall(p, n) PROVE IInv'
  BY <1>5, FillCallStep
<1> QED BY <1>1, <1>2, <1>3, <1>4, <1>5, SlabAllocStep, BlockAllocStep, PoolRefusesStep,
           LargeAllocStep, FillStep DEF Next

-----------------------------------------------------------------------------
(* The theorems *)

\* The inductive invariant holds throughout every request: it is routed, its order is
\* the least and a fill exact, and what it gets has room for its header, its alignment
\* and its bytes if the source refuses an empty request (EmptyGiven = FALSE).
THEOREM Invariance == Spec => []IInv
BY InitIInv, StepIInv, PTL DEF Spec

\* Sizes are words and alignments powers of two wherever an allocator is asked.
THEOREM TypeCorrect == Spec => []TypeOK
<1>1. IInv => TypeOK
  BY DEF IInv
<1> QED BY <1>1, Invariance, PTL

\* An object, its header and its padding lie in the slot, block or backing that
\* sigma_alloc has chosen for it, aligned, unless a source answers a request of no bytes.
THEOREM OwnMemory == Spec => [](EmptyGiven = FALSE => InOwnMemory)
<1>1. IInv => (EmptyGiven = FALSE => InOwnMemory)
  BY DEF IInv
<1> QED BY <1>1, Invariance, PTL

\* size_to_order answers the least order that is enough, for every size and alignment.
THEOREM LeastOrders == Spec => []OrderLeast
<1>1. IInv => OrderLeast
  BY DEF IInv
<1> QED BY <1>1, Invariance, PTL

\* sigma_calloc's fill_zero zeroes all of the object and nothing beside it, at every
\* address and length and with either width of vector.
THEOREM FilledExactly == Spec => []ZeroedExactly
<1>1. IInv => ZeroedExactly
  BY DEF IInv
<1> QED BY <1>1, Invariance, PTL
=============================================================================
