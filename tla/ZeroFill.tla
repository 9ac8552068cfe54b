------------------------------ MODULE ZeroFill ------------------------------
(***************************************************************************)
(* fill_zero (src/utils/bzero.c) as the ranges of bytes it stores zeros to. *)
(* A fill from p to p + n stores from both ends with wide stores that       *)
(* overlap in the middle; lengths below 16 and from Threshold up go word by *)
(* word instead.  A range is [at, len]; a loop whose stores are adjacent is *)
(* one range, as long as its iterations make it.                            *)
(***************************************************************************)
EXTENDS Naturals

CONSTANT Threshold   \* 64 * 1024: from here on word by word

WORD == 8

At(p, len) == [at |-> p, len |-> len]
Ends(p, n, w) == {At(p, w), At(p + n - w, w)}   \* the first w bytes and the last w
(* The operators named Slip_ are not the code: each is the definition below it *)
(* with one plausible mistake, which some property must notice.              *)

\* while (p < tail) store and advance by w
Slip_WholeOnly(p, tail, w) == At(p, w * ((tail - p) \div w))
Loop(p, tail, w)           == At(p, w * ((tail - p + w - 1) \div w))

WithTail(p, n, w) == {At(p + n - w, w), Loop(p, p + n - w, w)}

Small(p, n) ==
  LET width == IF n >= 8 THEN 8 ELSE IF n >= 4 THEN 4 ELSE IF n >= 2 THEN 2 ELSE 1
  IN IF n = 0 THEN {} ELSE Ends(p, n, width)

Sse2(p, n) ==
  CASE n < 16            -> Small(p, n)
    [] n \in 16..31      -> Ends(p, n, 16)
    [] n \in 32..63      -> Ends(p, n, 32)
    [] OTHER             -> WithTail(p, n, 64)

Avx2(p, n) ==
  CASE n < 16            -> Small(p, n)
    [] n \in 16..31      -> Ends(p, n, 16)
    [] n \in 32..64      -> Ends(p, n, 32)
    [] n \in 65..127     -> Ends(p, n, 64)
    [] OTHER             -> WithTail(p, n, 128)

\* Single bytes up to a word's boundary or the end, whole words, single bytes.
Words(p, n) ==
  LET unaligned == (WORD - (p % WORD)) % WORD
      head  == IF n < unaligned THEN n ELSE unaligned
      whole == (n - head) - ((n - head) % WORD)
  IN {At(p, head), At(p + head, whole), At(p + head + whole, n - head - whole)}

\* What zero_setup has chosen is zero_sse2 or zero_avx2, by the processor.
FillZero(p, n, impl) ==
  IF n < 16 \/ n >= Threshold THEN Words(p, n)
  ELSE IF impl = "avx2" THEN Avx2(p, n) ELSE Sse2(p, n)

\* The reference: the ranges stay within [p, p + n) and leave no byte of it out.
\* No byte is left out when p, and the end of every range, is p + n or in a range.
Exactly(stores, p, n) ==
  LET used  == {r \in stores : r.len > 0}
      In(x) == \E r \in used : r.at <= x /\ x < r.at + r.len
  IN /\ \A r \in used : p <= r.at /\ r.at + r.len <= p + n
     /\ \A x \in {p} \union {r.at + r.len : r \in used} : x = p + n \/ In(x)
=============================================================================
