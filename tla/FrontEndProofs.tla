-------------------------- MODULE FrontEndProofs --------------------------
(***************************************************************************)
(* What the program is promised, for every number of threads, allocators,   *)
(* cells and sizes.  An operation is the calls it makes in order, so what   *)
(* is proved of a call is proved of any heap and of any account of what the *)
(* program knows: Good(h, k).  An action then composes the calls.           *)
(***************************************************************************)
EXTENDS FrontEnd, TLAPS

-----------------------------------------------------------------------------
(* The invariant, of a heap h and of what the program knows of it, k *)

Typed(h, k) ==
  /\ h = [c \in Cells |-> h[c]] /\ k = [c \in Cells |-> k[c]]
  /\ \A c \in Cells : h[c] = Unused \/ h[c] \in {Waiting(r) : r \in Arenas} \/ Header(h[c])

\* A handed out cell is held or a part of one that is, and what is held is handed out.
Accounted(h, k) ==
  /\ \A d \in Cells : h[d].kind \in KindsOf => d \in Holds(k) \/ \E c \in Holds(k) : d \in h[c].parts
  /\ \A c \in Holds(k) : h[c].kind \in KindsOf

Apart(h, k) ==
  \A c \in Holds(k) :
    /\ h[c].kind = "large" => \E n, m \in Cells : n # m /\ h[c].parts = {n, m}
    /\ \A p \in h[c].parts : p \notin Holds(k) /\ \A d \in Holds(k) \ {c} : p \notin h[d].parts

Slots(h) ==
  \A c \in Cells :
    /\ h[c].kind # "large" => h[c].parts = {}
    /\ \A p \in h[c].parts : h[p].kind = "slab"

\* What the program knows of one object, y, is true of its cell, x.
True(x, y) ==
  /\ y = Knows(y.want, y.said) /\ DOMAIN y.want = 1..x.size
  /\ \A i \in DOMAIN y.want : y.want[i] # "any" => x.data[i] = y.want[i]
  /\ y.said # "null" => x.info = y.said

Good(h, k) ==
  /\ Typed(h, k) /\ Accounted(h, k) /\ Apart(h, k) /\ Slots(h)
  /\ \A c \in Holds(k) : True(h[c], k[c])

\* The fields of a header.
LEMMA HeaderMeans ==
  ASSUME NEW x, Header(x)
  PROVE  /\ x.kind \in KindsOf /\ x.home \in Arenas /\ x.parts \subseteq Cells /\ x.size \in Sizes
         /\ x.info \in Places \union {"null"} /\ x.data \in [1..x.size -> Values]
BY DEF Header

\* The fields that matter of a cell that is not handed out.
LEMMA UnusedFields ==
  /\ Unused.kind = "none" /\ Unused.parts = {} /\ Unused.home = <<>>
  /\ \A r : Waiting(r).kind = "waiting" /\ Waiting(r).parts = {} /\ Waiting(r).home = r
BY DEF Unused, Waiting

\* A cell that is neither unused nor waiting has a header, and no other has.
LEMMA HandedOutMeans ==
  ASSUME NEW h, NEW k, Typed(h, k), NEW c \in Cells
  PROVE  /\ h[c].kind \in KindsOf <=> Header(h[c])
         /\ h[c].kind \notin KindsOf <=> h[c] = Unused \/ \E r \in Arenas : h[c] = Waiting(r)
<1>1. h[c] = Unused \/ (\E r \in Arenas : h[c] = Waiting(r)) \/ Header(h[c])
  BY DEF Typed
<1>2. Header(h[c]) => h[c].kind \in KindsOf
  BY HeaderMeans
<1>3. h[c] = Unused => h[c].kind \notin KindsOf
  BY UnusedFields DEF KindsOf
<1>4. \A r \in Arenas : h[c] = Waiting(r) => h[c].kind \notin KindsOf
  BY UnusedFields DEF KindsOf
<1> QED BY <1>1, <1>2, <1>3, <1>4

\* Good is the inductive invariant.
LEMMA GoodMeans ==
  IInv <=> live \subseteq Threads /\ Good(heap, has)
<1> DEFINE out == {c \in Cells : heap[c].kind \in KindsOf}
<1>1. ASSUME Typed(heap, has)
      PROVE  /\ \A c \in Cells : heap[c].parts \subseteq Cells
  <2>1. ASSUME NEW c \in Cells PROVE heap[c].parts \subseteq Cells
    <3>1. CASE heap[c].kind \in KindsOf
      BY <3>1, <1>1, HandedOutMeans, HeaderMeans
    <3>2. CASE heap[c].kind \notin KindsOf
      BY <3>2, <1>1, HandedOutMeans, UnusedFields
    <3> QED BY <3>1, <3>2
  <2> QED BY <2>1
<1>2. ASSUME Typed(heap, has), Slots(heap)
      PROVE  HandedOut <=> Accounted(heap, has) /\ Apart(heap, has)
  <2>1. out = Owned \union UNION {heap[c].parts : c \in Owned} <=> Accounted(heap, has)
    <3>1. ASSUME out = Owned \union UNION {heap[c].parts : c \in Owned}
          PROVE  Accounted(heap, has)
      BY <3>1 DEF Accounted, Owned, Holds
    <3>2. ASSUME Accounted(heap, has)
          PROVE  out = Owned \union UNION {heap[c].parts : c \in Owned}
      <4>1. ASSUME NEW c \in Owned, NEW p \in heap[c].parts PROVE p \in out
        <5>1. c \in Cells /\ p \in Cells
          BY <1>1, <1>2, <4>1 DEF Owned, Holds
        <5>2. heap[p].kind = "slab"
          BY <1>2, <5>1, <4>1 DEF Slots
        <5> QED BY <5>1, <5>2 DEF KindsOf
      <4>2. Owned \subseteq out
        BY <3>2 DEF Accounted, Owned, Holds
      <4>3. out \subseteq Owned \union UNION {heap[c].parts : c \in Owned}
        BY <3>2 DEF Accounted, Owned, Holds
      <4> HIDE DEF out
      <4> QED BY <4>1, <4>2, <4>3
    <3> QED BY <3>1, <3>2
  <2>2. (\A c \in Owned :
          /\ heap[c].kind = "large" => \E n, m \in Cells : n # m /\ heap[c].parts = {n, m}
          /\ heap[c].parts \intersect
               (Owned \union UNION {heap[d].parts : d \in Owned \ {c}}) = {})
        <=> Apart(heap, has)
    BY DEF Apart, Owned
  <2> QED BY <2>1, <2>2 DEF HandedOut
<1>3. PartsAreSlots <=> Slots(heap)
  BY DEF PartsAreSlots, Slots
<1>4. TypeOK <=> /\ live \subseteq Threads /\ Typed(heap, has)
                 /\ \A c \in Owned : /\ has[c] = Knows(has[c].want, has[c].said)
                                     /\ DOMAIN has[c].want = 1..heap[c].size
  BY DEF TypeOK, Typed
<1>5. (\A c \in Owned : /\ has[c] = Knows(has[c].want, has[c].said)
                        /\ DOMAIN has[c].want = 1..heap[c].size)
          /\ ContentsKept /\ InfoTrue
      <=> \A c \in Holds(has) : True(heap[c], has[c])
  BY DEF ContentsKept, InfoTrue, True, Owned
<1> QED BY <1>2, <1>3, <1>4, <1>5 DEF IInv, Good

-----------------------------------------------------------------------------
(* The calls, in any good heap *)

\* arena_drain_remote_frees touches nothing that is handed out.
LEMMA DrainKeeps ==
  ASSUME NEW h, NEW k, Good(h, k), NEW r \in Arenas
  PROVE  /\ Good(Drained(h, r), k)
         /\ \A c \in Cells : h[c].kind \in KindsOf => Drained(h, r)[c] = h[c]
<1> DEFINE g == Drained(h, r)
<1>1. \A c \in Cells : g[c] = IF h[c] = Waiting(r) THEN Unused ELSE h[c]
  BY DEF Drained
<1>2. g = [c \in Cells |-> g[c]]
  BY DEF Drained
<1> HIDE DEF g
<1>3. \A c \in Cells : h[c].kind \in KindsOf => g[c] = h[c]
  BY <1>1, UnusedFields DEF KindsOf
<1>4. \A c \in Cells : /\ g[c].kind \in KindsOf <=> h[c].kind \in KindsOf
                       /\ g[c].parts = h[c].parts
                       /\ g[c].kind = "slab" <=> h[c].kind = "slab"
                       /\ g[c].kind = "large" <=> h[c].kind = "large"
  BY <1>1, UnusedFields DEF KindsOf
<1>5. Holds(k) \subseteq Cells
  BY DEF Holds
<1>6. Typed(g, k)
  BY <1>1, <1>2 DEF Good, Typed
<1>7. Accounted(g, k)
  BY <1>4, <1>5 DEF Good, Accounted
<1>8. Apart(g, k)
  BY <1>4, <1>5 DEF Good, Apart
<1>9. Slots(g)
  <2>1. ASSUME NEW c \in Cells, NEW p \in g[c].parts PROVE g[p].kind = "slab"
    <3>1. p \in h[c].parts /\ h[p].kind = "slab"
      BY <1>4, <2>1 DEF Good, Slots
    <3>2. p \in Cells
      <4>1. CASE h[c].kind \in KindsOf
        BY <4>1, <3>1, HandedOutMeans, HeaderMeans DEF Good
      <4>2. CASE h[c].kind \notin KindsOf
        BY <4>2, <3>1, HandedOutMeans, UnusedFields DEF Good
      <4> QED BY <4>1, <4>2
    <3> QED BY <1>4, <3>1, <3>2
  <2> QED BY <1>4, <2>1 DEF Good, Slots
<1>10. \A c \in Holds(k) : True(g[c], k[c])
  BY <1>3, <1>5 DEF Good, Accounted
<1> QED BY <1>3, <1>6, <1>7, <1>8, <1>9, <1>10 DEF g, Good
\* An object is put into an unused cell, and parts for it into others: `obj' is its
\* header, `said' what the program knows of it.
LEMMA PlaceKeeps ==
  ASSUME NEW h, NEW k, Good(h, k), NEW c \in FreeCells(h), NEW obj, NEW part, NEW known,
         Header(obj), obj.parts \subseteq FreeCells(h) \ {c},
         IF obj.kind = "large" THEN \E n, m \in Cells : n # m /\ obj.parts = {n, m}
         ELSE obj.parts = {},
         Header(part), part.kind = "slab", part.parts = {}, known # NotHeld, True(obj, known),
         NEW g,
         g = [d \in Cells |-> IF d = c THEN obj ELSE IF d \in obj.parts THEN part ELSE h[d]]
  PROVE  Good(g, [k EXCEPT ![c] = known])
<1>1. PICK P : P = obj.parts
  OBVIOUS
<1>2. PICK new : new = [k EXCEPT ![c] = known]
  OBVIOUS
<1>3. c \in Cells /\ h[c] = Unused /\ c \notin P /\ P \subseteq Cells /\ \A p \in P : h[p] = Unused
  BY <1>1 DEF FreeCells
<1>4. /\ g[c] = obj /\ \A p \in P : g[p] = part
      /\ \A d \in Cells : d # c /\ d \notin P => g[d] = h[d]
  BY <1>1, <1>3
<1>5. k = [d \in Cells |-> k[d]]
  BY DEF Good, Typed
<1>6. /\ new = [d \in Cells |-> new[d]] /\ new[c] = known
      /\ \A d \in Cells : d # c => new[d] = k[d]
  BY <1>2, <1>3, <1>5
<1>7. \A d \in P \union {c} : d \notin Holds(k)
  BY <1>3, UnusedFields DEF Good, Accounted, KindsOf
<1>8. Holds(new) = Holds(k) \union {c}
  BY <1>3, <1>6 DEF Holds
<1>9. Holds(k) \subseteq Cells
  BY DEF Holds
<1>10. \A d \in Holds(k) : g[d] = h[d] /\ new[d] = k[d] /\ d # c /\ d \notin P
  BY <1>4, <1>6, <1>7, <1>9
<1>11. \A d \in Cells : \A p \in h[d].parts : p # c /\ p \notin P
  BY <1>3, UnusedFields DEF Good, Slots
<1>12. Typed(g, new)
  <2>1. g = [d \in Cells |-> g[d]]
    OBVIOUS
  <2>2. ASSUME NEW d \in Cells
        PROVE  g[d] = Unused \/ g[d] \in {Waiting(r) : r \in Arenas} \/ Header(g[d])
    BY <1>4 DEF Good, Typed
  <2> QED BY <1>6, <2>1, <2>2 DEF Typed
<1>13. Accounted(g, new)
  <2>1. ASSUME NEW d \in Cells, g[d].kind \in KindsOf
        PROVE  d \in Holds(new) \/ \E e \in Holds(new) : d \in g[e].parts
    <3>1. CASE d = c
      BY <3>1, <1>8
    <3>2. CASE d \in P
      BY <3>2, <1>1, <1>4, <1>8
    <3>3. CASE d # c /\ d \notin P
      <4>1. d \in Holds(k) \/ \E e \in Holds(k) : d \in h[e].parts
        BY <3>3, <1>4, <2>1 DEF Good, Accounted
      <4> QED BY <4>1, <1>8, <1>10
    <3> QED BY <3>1, <3>2, <3>3
  <2>2. ASSUME NEW d \in Holds(new) PROVE g[d].kind \in KindsOf
    BY <1>4, <1>8, <1>10, HeaderMeans DEF Good, Accounted
  <2> QED BY <2>1, <2>2 DEF Accounted
<1>14. Apart(g, new)
  <2>1. ASSUME NEW d \in Holds(new)
        PROVE  /\ g[d].kind = "large" => \E n, m \in Cells : n # m /\ g[d].parts = {n, m}
               /\ \A p \in g[d].parts :
                    p \notin Holds(new) /\ \A e \in Holds(new) \ {d} : p \notin g[e].parts
    <3>1. CASE d = c
      <4>1. g[d].parts = P /\ g[d].kind = obj.kind
        BY <3>1, <1>1, <1>4
      <4>2. ASSUME NEW p \in P
            PROVE  p \notin Holds(new) /\ \A e \in Holds(new) \ {d} : p \notin g[e].parts
        <5>1. p \notin Holds(new)
          BY <1>3, <1>7, <1>8
        <5>2. \A e \in Holds(k) : p \notin h[e].parts
          BY <1>9, <1>11
        <5> QED BY <5>1, <5>2, <3>1, <1>8, <1>10
      <4> QED BY <4>1, <4>2, <1>1
    <3>2. CASE d # c
      <4>1. d \in Holds(k) /\ g[d] = h[d]
        BY <3>2, <1>8, <1>10
      <4>2. ASSUME NEW p \in h[d].parts
            PROVE  p \notin Holds(new) /\ \A e \in Holds(new) \ {d} : p \notin g[e].parts
        <5>1. p \notin Holds(k) /\ \A e \in Holds(k) \ {d} : p \notin h[e].parts
          BY <4>1, <4>2 DEF Good, Apart
        <5>2. p # c /\ p \notin P
          BY <4>1, <4>2, <1>9, <1>11
        <5>3. \A e \in Holds(k) \ {d} : p \notin g[e].parts
          BY <5>1, <1>10
        <5>4. p \notin g[c].parts
          BY <5>2, <1>1, <1>4
        <5> QED BY <5>1, <5>2, <5>3, <5>4, <1>8
      <4> QED BY <4>1, <4>2 DEF Good, Apart
    <3> QED BY <3>1, <3>2
  <2> QED BY <2>1 DEF Apart
<1>15. Slots(g)
  <2>1. ASSUME NEW d \in Cells
        PROVE  /\ g[d].kind # "large" => g[d].parts = {}
               /\ \A p \in g[d].parts : g[p].kind = "slab"
    <3>1. CASE d = c
      BY <3>1, <1>1, <1>4
    <3>2. CASE d \in P
      BY <3>2, <1>4
    <3>3. CASE d # c /\ d \notin P
      <4>1. g[d] = h[d]
        BY <3>3, <1>4
      <4>2. \A p \in h[d].parts : p \in Cells /\ h[p].kind = "slab"
        <5>1. CASE h[d].kind \in KindsOf
          BY <5>1, HandedOutMeans, HeaderMeans DEF Good, Slots
        <5>2. CASE h[d].kind \notin KindsOf
          BY <5>2, HandedOutMeans, UnusedFields DEF Good, Slots
        <5> QED BY <5>1, <5>2
      <4>3. \A p \in h[d].parts : g[p] = h[p]
        BY <4>2, <1>4, <1>11
      <4> QED BY <4>1, <4>2, <4>3 DEF Good, Slots
    <3> QED BY <3>1, <3>2, <3>3
  <2> QED BY <2>1 DEF Slots
<1>16. \A d \in Holds(new) : True(g[d], new[d])
  BY <1>4, <1>6, <1>8, <1>10 DEF Good
<1> QED BY <1>2, <1>12, <1>13, <1>14, <1>15, <1>16 DEF Good

\* The fields that matter of a cell that is given back, to whichever list.
LEMMA GivenBackMeans ==
  ASSUME NEW t, NEW a, NEW x, x.home \in Arenas
  PROVE  GivenBack(t, a, x) = Unused \/ \E r \in Arenas : GivenBack(t, a, x) = Waiting(r)
BY DEF GivenBack

\* sigma_free: the object and its parts go, and nothing else.
LEMMA FreeKeeps ==
  ASSUME NEW h, NEW k, Good(h, k), NEW t, NEW a, NEW c \in Holds(k)
  PROVE  Good(FreeIn(h, t, a, c), [k EXCEPT ![c] = NotHeld])
<1>1. PICK P : P = h[c].parts
  OBVIOUS
<1>2. PICK new : new = [k EXCEPT ![c] = NotHeld]
  OBVIOUS
<1>3. PICK g : g = FreeIn(h, t, a, c)
  OBVIOUS
<1>4. c \in Cells /\ Header(h[c]) /\ h[c].kind \in KindsOf
  BY HandedOutMeans DEF Good, Accounted, Holds
<1>5. P \subseteq Cells /\ \A p \in P : h[p].kind = "slab" /\ Header(h[p])
  <2>1. P \subseteq Cells
    BY <1>1, <1>4, HeaderMeans
  <2>2. ASSUME NEW p \in P PROVE h[p].kind = "slab" /\ Header(h[p])
    <3>1. h[p].kind = "slab"
      BY <1>1, <1>4, <2>2 DEF Good, Slots
    <3>2. p \in Cells
      BY <2>1
    <3>3. h[p].kind \in KindsOf
      BY <3>1 DEF KindsOf
    <3> QED BY <3>1, <3>2, <3>3, HandedOutMeans DEF Good
  <2> QED BY <2>1, <2>2
<1>6. c \notin P /\ \A p \in P : p \notin Holds(k)
  BY <1>1 DEF Good, Apart
<1>7. \A d \in Cells : g[d] = IF d = c THEN IF h[c].kind = "large" THEN Unused ELSE GivenBack(t, a, h[c])
                              ELSE IF d \in P THEN GivenBack(t, a, h[d]) ELSE h[d]
  BY <1>1, <1>3 DEF FreeIn, PartsOf
<1>8. \A d \in P \union {c} : g[d] = Unused \/ \E r \in Arenas : g[d] = Waiting(r)
  <2>1. g[c] = Unused \/ \E r \in Arenas : g[c] = Waiting(r)
    BY <1>4, <1>7, GivenBackMeans, HeaderMeans
  <2>2. ASSUME NEW p \in P PROVE g[p] = Unused \/ \E r \in Arenas : g[p] = Waiting(r)
    <3>1. p \in Cells /\ p # c /\ h[p].home \in Arenas
      BY <1>5, <1>6, HeaderMeans
    <3>2. g[p] = GivenBack(t, a, h[p])
      BY <3>1, <1>7
    <3> QED BY <3>1, <3>2, GivenBackMeans
  <2> QED BY <2>1, <2>2
<1>9. \A d \in P \union {c} : g[d].kind \notin KindsOf /\ g[d].parts = {}
  BY <1>8, UnusedFields DEF KindsOf
<1>10. \A d \in Cells : d # c /\ d \notin P => g[d] = h[d]
  BY <1>7
<1>11. k = [d \in Cells |-> k[d]]
  BY DEF Good, Typed
<1>12. /\ new = [d \in Cells |-> new[d]] /\ new[c] = NotHeld
       /\ \A d \in Cells : d # c => new[d] = k[d]
  BY <1>2, <1>4, <1>11
<1>13. Holds(new) = Holds(k) \ {c} /\ Holds(k) \subseteq Cells
  BY <1>4, <1>12 DEF Holds
<1>14. \A d \in Holds(new) : d \in Holds(k) /\ d \in Cells /\ d # c /\ d \notin P /\ g[d] = h[d] /\ new[d] = k[d]
  BY <1>6, <1>10, <1>12, <1>13
<1>15. Typed(g, new)
  <2>1. g = [d \in Cells |-> g[d]]
    BY <1>3 DEF FreeIn
  <2>2. ASSUME NEW d \in Cells
        PROVE  g[d] = Unused \/ g[d] \in {Waiting(r) : r \in Arenas} \/ Header(g[d])
    BY <1>8, <1>10 DEF Good, Typed
  <2> QED BY <1>12, <2>1, <2>2 DEF Typed
<1>16. Accounted(g, new)
  <2>1. ASSUME NEW d \in Cells, g[d].kind \in KindsOf
        PROVE  d \in Holds(new) \/ \E e \in Holds(new) : d \in g[e].parts
    <3>1. d # c /\ d \notin P /\ g[d] = h[d]
      BY <1>9, <1>10, <2>1
    <3>2. d \in Holds(k) \/ \E e \in Holds(k) : d \in h[e].parts
      BY <2>1, <3>1 DEF Good, Accounted
    <3>3. ASSUME NEW e \in Holds(k), d \in h[e].parts
          PROVE  e \in Holds(new) /\ d \in g[e].parts
      BY <3>1, <3>3, <1>1, <1>13, <1>14
    <3> QED BY <3>1, <3>2, <3>3, <1>13
  <2>2. \A d \in Holds(new) : g[d].kind \in KindsOf
    BY <1>14 DEF Good, Accounted
  <2> QED BY <2>1, <2>2 DEF Accounted
<1>17. Apart(g, new)
  BY <1>14 DEF Good, Apart
<1>18. Slots(g)
  <2>1. ASSUME NEW d \in Cells
        PROVE  /\ g[d].kind # "large" => g[d].parts = {}
               /\ \A p \in g[d].parts : g[p].kind = "slab"
    <3>1. CASE d = c \/ d \in P
      BY <3>1, <1>9
    <3>2. CASE d # c /\ d \notin P
      <4>1. g[d] = h[d]
        BY <3>2, <1>10
      <4>2. CASE h[d].parts = {}
        BY <4>1, <4>2
      <4>3. CASE h[d].parts # {}
        <5>1. h[d].kind = "large" /\ Header(h[d])
          BY <4>3, HandedOutMeans, UnusedFields DEF Good, Slots
        <5>2. d \in Holds(k)
          <6>1. h[d].kind # "slab" /\ h[d].kind \in KindsOf
            BY <5>1 DEF KindsOf
          <6>2. \A e \in Holds(k) : d \notin h[e].parts
            BY <6>1, <1>13 DEF Good, Slots
          <6> QED BY <6>1, <6>2 DEF Good, Accounted
        <5>3. ASSUME NEW p \in h[d].parts PROVE g[p] = h[p]
          <6>1. p \notin Holds(k) /\ \A e \in Holds(k) \ {d} : p \notin h[e].parts
            BY <5>2, <5>3 DEF Good, Apart
          <6>2. p # c /\ p \notin P /\ p \in Cells
            BY <6>1, <3>2, <1>1, <5>1, HeaderMeans, <5>3
          <6> QED BY <6>2, <1>10
        <5> QED BY <4>1, <5>1, <5>3 DEF Good, Slots
      <4> QED BY <4>2, <4>3
    <3> QED BY <3>1, <3>2
  <2> QED BY <2>1 DEF Slots
<1>19. \A d \in Holds(new) : True(g[d], new[d])
  BY <1>14 DEF Good
<1> QED BY <1>2, <1>3, <1>15, <1>16, <1>17, <1>18, <1>19 DEF Good
\* A stored object keeps its place and its parts.
LEMMA UpdateKeeps ==
  ASSUME NEW h, NEW k, Good(h, k), NEW c \in Holds(k), NEW x, NEW y,
         Header(x), x.kind = h[c].kind, x.parts = h[c].parts, True(x, y), y # NotHeld
  PROVE  Good([h EXCEPT ![c] = x], [k EXCEPT ![c] = y])
<1>1. PICK g : g = [h EXCEPT ![c] = x]
  OBVIOUS
<1>2. PICK new : new = [k EXCEPT ![c] = y]
  OBVIOUS
<1>3. c \in Cells
  BY DEF Holds
<1>4. h = [d \in Cells |-> h[d]] /\ k = [d \in Cells |-> k[d]]
  BY DEF Good, Typed
<1>5. /\ g = [d \in Cells |-> g[d]] /\ g[c] = x
      /\ \A d \in Cells : d # c => g[d] = h[d]
  BY <1>1, <1>3, <1>4
<1>6. /\ new = [d \in Cells |-> new[d]] /\ new[c] = y
      /\ \A d \in Cells : d # c => new[d] = k[d]
  BY <1>2, <1>3, <1>4
<1>7. Holds(new) = Holds(k) /\ Holds(k) \subseteq Cells
  BY <1>3, <1>6 DEF Holds
<1>8. \A d \in Cells : g[d].kind = h[d].kind /\ g[d].parts = h[d].parts
  BY <1>5
<1>9. Typed(g, new)
  BY <1>5, <1>6 DEF Good, Typed
<1>10. Accounted(g, new)
  BY <1>7, <1>8 DEF Good, Accounted
<1>11. Apart(g, new)
  BY <1>7, <1>8 DEF Good, Apart
<1>12. Slots(g)
  <2>1. ASSUME NEW d \in Cells, NEW p \in h[d].parts PROVE p \in Cells
    <3>1. CASE h[d].kind \in KindsOf
      BY <2>1, <3>1, HandedOutMeans, HeaderMeans DEF Good
    <3>2. CASE h[d].kind \notin KindsOf
      BY <2>1, <3>2, HandedOutMeans, UnusedFields DEF Good
    <3> QED BY <3>1, <3>2
  <2> QED BY <2>1, <1>8 DEF Good, Slots
<1>13. \A d \in Holds(new) : True(g[d], new[d])
  BY <1>5, <1>6, <1>7 DEF Good
<1> QED BY <1>1, <1>2, <1>9, <1>10, <1>11, <1>12, <1>13 DEF Good

-----------------------------------------------------------------------------
(* What serves a request *)

\* A plan names unused cells of the heap it works in: one for the object, and two more
\* for a large one's node and metadata.
LEMMA PlansMean ==
  ASSUME NEW t, NEW a, NEW n, NEW p \in Plans(t, a, n)
  PROVE  /\ p.kind \in KindsOf /\ p.drains \in BOOLEAN
         /\ p.cell \in FreeCells(Heap(t, a, p.drains))
         /\ p.parts \subseteq FreeCells(Heap(t, a, p.drains)) \ {p.cell}
         /\ IF p.kind = "large" THEN \E x, y \in Cells : x # y /\ p.parts = {x, y}
            ELSE p.parts = {}
<1> DEFINE Choices == {y \in Kinds(n) \X BOOLEAN : y[1] = "buddy" => ~y[2]}
<1>1. PICK x \in Choices : p \in PlansOf(x[1], x[2], FreeCells(Heap(t, a, x[2])))
  BY DEF Plans
<1>2. x[1] \in Kinds(n) /\ x[2] \in BOOLEAN
  BY <1>1
<1>3. x[1] \in KindsOf
  BY <1>2 DEF Kinds, KindsOf
<1>4. PICK S : S = FreeCells(Heap(t, a, x[2]))
  OBVIOUS
<1>5. PICK c \in First(S) :
        p \in {[kind |-> x[1], cell |-> c, parts |-> P, drains |-> x[2]] :
                 P \in IF x[1] = "large" THEN FirstTwo(S \ {c}) ELSE {{}}}
  BY <1>1, <1>4 DEF PlansOf
<1>6. PICK P \in (IF x[1] = "large" THEN FirstTwo(S \ {c}) ELSE {{}}) :
        p = [kind |-> x[1], cell |-> c, parts |-> P, drains |-> x[2]]
  BY <1>5
<1>7. p.kind = x[1] /\ p.cell = c /\ p.parts = P /\ p.drains = x[2]
  BY <1>6
<1>8. c \in S /\ S \subseteq Cells
  BY <1>4 DEF First, FreeCells
<1>9. CASE x[1] = "large"
  <2>1. P \in FirstTwo(S \ {c})
    BY <1>6, <1>9
  <2>2. PICK u \in First(S \ {c}) : P \in {{u, v} : v \in First((S \ {c}) \ {u})}
    BY <2>1 DEF FirstTwo
  <2>3. PICK v \in First((S \ {c}) \ {u}) : P = {u, v}
    BY <2>2
  <2>4. u \in S \ {c} /\ v \in S \ {c} /\ u # v
    BY <2>2, <2>3 DEF First
  <2> QED BY <1>2, <1>3, <1>4, <1>7, <1>8, <1>9, <2>3, <2>4
<1>10. CASE x[1] # "large"
  <2>1. P = {}
    BY <1>6, <1>10
  <2> QED BY <1>2, <1>3, <1>4, <1>7, <1>8, <1>10, <2>1
<1> QED BY <1>9, <1>10

\* The heap with the object p stands for, its data and its location written.
NewHeader(t, a, n, p, data, info) ==
  [kind |-> p.kind, home |-> <<t, a>>, parts |-> p.parts, size |-> n, data |-> data, info |-> info]

WithNew(t, a, n, p, data, info) ==
  [d \in Cells |-> IF d = p.cell THEN NewHeader(t, a, n, p, data, info)
                   ELSE IF d \in p.parts THEN Object("slab", <<t, a>>, {}, 1)
                   ELSE Heap(t, a, p.drains)[d]]

Contents(p, n) == Fill(n, IF p.kind = "large" /\ Zeroed THEN "zero" ELSE "junk")

\* What sigma_alloc hands out, before anything is written to it.
LEMMA ServedIs ==
  ASSUME NEW t, NEW a, NEW n, NEW p \in Plans(t, a, n)
  PROVE  Served(t, a, n, p) = WithNew(t, a, n, p, Contents(p, n), "null")
BY DEF Served, WithNew, NewHeader, Object, Contents

\* What is written to the new object after.
LEMMA Rewritten ==
  ASSUME NEW t, NEW a, NEW n, NEW p \in Plans(t, a, n), NEW data, NEW info, NEW d2, NEW i2
  PROVE  [WithNew(t, a, n, p, data, info) EXCEPT ![p.cell] = NewHeader(t, a, n, p, d2, i2)]
           = WithNew(t, a, n, p, d2, i2)
BY PlansMean DEF WithNew, FreeCells

\* The header in the new cell.
LEMMA NewIs ==
  ASSUME NEW t, NEW a, NEW n, NEW p \in Plans(t, a, n), NEW data, NEW info
  PROVE  WithNew(t, a, n, p, data, info)[p.cell] = NewHeader(t, a, n, p, data, info)
BY PlansMean DEF WithNew, FreeCells

\* A location is written to it ...
LEMMA WriteInfo ==
  ASSUME NEW t, NEW a, NEW n, NEW p \in Plans(t, a, n), NEW data, NEW info, NEW i2
  PROVE  [WithNew(t, a, n, p, data, info) EXCEPT ![p.cell].info = i2]
           = WithNew(t, a, n, p, data, i2)
<1>1. [NewHeader(t, a, n, p, data, info) EXCEPT !.info = i2] = NewHeader(t, a, n, p, data, i2)
  BY DEF NewHeader
<1>2. WithNew(t, a, n, p, data, info)[p.cell] = NewHeader(t, a, n, p, data, info)
  BY NewIs
<1>3. [WithNew(t, a, n, p, data, info) EXCEPT ![p.cell] = NewHeader(t, a, n, p, data, i2)]
        = WithNew(t, a, n, p, data, i2)
  BY Rewritten
<1> QED BY <1>1, <1>2, <1>3

\* ... or data.
LEMMA WriteData ==
  ASSUME NEW t, NEW a, NEW n, NEW p \in Plans(t, a, n), NEW data, NEW info, NEW d2
  PROVE  [WithNew(t, a, n, p, data, info) EXCEPT ![p.cell].data = d2]
           = WithNew(t, a, n, p, d2, info)
<1>1. [NewHeader(t, a, n, p, data, info) EXCEPT !.data = d2] = NewHeader(t, a, n, p, d2, info)
  BY DEF NewHeader
<1>2. WithNew(t, a, n, p, data, info)[p.cell] = NewHeader(t, a, n, p, data, info)
  BY NewIs
<1>3. [WithNew(t, a, n, p, data, info) EXCEPT ![p.cell] = NewHeader(t, a, n, p, d2, info)]
        = WithNew(t, a, n, p, d2, info)
  BY Rewritten
<1> QED BY <1>1, <1>2, <1>3

\* A run of equal units.
LEMMA FillIs ==
  ASSUME NEW n \in Sizes, NEW v
  PROVE  /\ Fill(n, v) = [i \in 1..n |-> v] /\ DOMAIN Fill(n, v) = 1..n
         /\ n \in Nat /\ 1 \in 1..n /\ 1..n # {}
BY DEF Fill, Sizes

\* An account of an object of some size is not the account of none.
LEMMA KnownIsHeld ==
  ASSUME NEW x, NEW y, True(x, y), x.size \in Sizes
  PROVE  y # NotHeld
<1>1. 1 \in DOMAIN y.want
  BY FillIs DEF True
<1>2. NotHeld.want = << >>
  BY DEF NotHeld, Knows
<1>3. DOMAIN << >> = {}
  OBVIOUS
<1> QED BY <1>1, <1>2, <1>3

\* sigma_alloc: the new object is a cell nobody has, and what the program had stays.
LEMMA ServeKeeps ==
  ASSUME Good(heap, has), NEW t \in Threads, NEW a \in Allocators, NEW n \in Sizes,
         NEW p \in Plans(t, a, n), NEW data \in [1..n -> Values],
         NEW info \in Places \union {"null"},
         NEW known, True(NewHeader(t, a, n, p, data, info), known)
  PROVE  /\ Good(WithNew(t, a, n, p, data, info), [has EXCEPT ![p.cell] = known])
         /\ p.cell \in Cells /\ p.cell \notin Owned
         /\ \A c \in Owned : WithNew(t, a, n, p, data, info)[c] = heap[c]
<1>1. PICK h : h = Heap(t, a, p.drains)
  OBVIOUS
<1>2. PICK obj : obj = NewHeader(t, a, n, p, data, info)
  OBVIOUS
<1>3. PICK part : part = Object("slab", <<t, a>>, {}, 1)
  OBVIOUS
<1>4. PICK g : g = WithNew(t, a, n, p, data, info)
  OBVIOUS
<1>5. <<t, a>> \in Arenas
  BY DEF Arenas
<1>6. /\ Good(h, has)
      /\ \A c \in Cells : heap[c].kind \in KindsOf => h[c] = heap[c]
  <2>1. CASE p.drains
    BY <2>1, <1>1, <1>5, DrainKeeps DEF Heap
  <2>2. CASE ~p.drains
    BY <2>2, <1>1 DEF Heap
  <2> QED BY <2>1, <2>2
<1>7. /\ p.kind \in KindsOf /\ p.cell \in FreeCells(h)
      /\ p.parts \subseteq FreeCells(h) \ {p.cell}
      /\ IF p.kind = "large" THEN \E x, y \in Cells : x # y /\ p.parts = {x, y} ELSE p.parts = {}
  BY <1>1, PlansMean
<1>8. /\ obj.kind = p.kind /\ obj.home = <<t, a>> /\ obj.parts = p.parts /\ obj.size = n
      /\ obj.data = data /\ obj.info = info
  BY <1>2 DEF NewHeader
<1>9. n \in Nat /\ 1 \in Sizes
  BY FrontEndAssumption DEF Sizes
<1>10. Header(obj)
  <2>1. p.parts \in SUBSET Cells
    BY <1>7 DEF FreeCells
  <2>2. data \in UNION {[1..m -> Values] : m \in Sizes}
    OBVIOUS
  <2>3. obj \in [kind : KindsOf, home : Arenas, parts : SUBSET Cells, size : Sizes,
                 data : UNION {[1..m -> Values] : m \in Sizes}, info : Places \union {"null"}]
    BY <1>2, <1>5, <1>7, <2>1, <2>2 DEF NewHeader
  <2> QED BY <1>8, <2>3 DEF Header
<1>11. Header(part) /\ part.kind = "slab" /\ part.parts = {}
  <2>1. part = [kind |-> "slab", home |-> <<t, a>>, parts |-> {}, size |-> 1,
                data |-> Fill(1, "junk"), info |-> "null"]
    BY <1>3 DEF Object
  <2>2. Fill(1, "junk") \in [1..1 -> Values]
    BY DEF Fill, Values
  <2>3. Fill(1, "junk") \in UNION {[1..m -> Values] : m \in Sizes}
    BY <1>9, <2>2
  <2>4. part \in [kind : KindsOf, home : Arenas, parts : SUBSET Cells, size : Sizes,
                  data : UNION {[1..m -> Values] : m \in Sizes}, info : Places \union {"null"}]
    BY <1>5, <1>9, <2>1, <2>3 DEF KindsOf
  <2>5. part.size = 1 /\ part.data = Fill(1, "junk") /\ part.kind = "slab" /\ part.parts = {}
    BY <2>1
  <2> QED BY <2>2, <2>4, <2>5 DEF Header
<1>12. known # NotHeld
  BY <1>2, <1>8, KnownIsHeld
<1>13. g = [d \in Cells |-> IF d = p.cell THEN obj ELSE IF d \in obj.parts THEN part ELSE h[d]]
  BY <1>1, <1>2, <1>3, <1>4, <1>8 DEF WithNew
<1>14. Good(g, [has EXCEPT ![p.cell] = known])
  BY <1>2, <1>6, <1>7, <1>8, <1>10, <1>11, <1>12, <1>13, PlaceKeeps
<1>15. ASSUME NEW c \in Owned PROVE c # p.cell /\ g[c] = heap[c]
  <2>1. c \in Cells /\ heap[c].kind \in KindsOf /\ h[c] = heap[c]
    BY <1>6 DEF Good, Accounted, Owned, Holds
  <2>2. c # p.cell /\ c \notin p.parts
    BY <1>7, <2>1, UnusedFields DEF FreeCells, KindsOf
  <2> QED BY <1>8, <1>13, <2>1, <2>2
<1>16. p.cell \in Cells
  BY <1>7 DEF FreeCells
<1> QED BY <1>4, <1>14, <1>15, <1>16

\* What fresh or zeroed memory holds is a value for each unit.
LEMMA ContentsIs ==
  ASSUME NEW n \in Sizes, NEW p
  PROVE  Contents(p, n) \in [1..n -> Values] /\ Fill(n, "zero") \in [1..n -> Values]
BY DEF Contents, Fill, Values

\* Located is one more write to the header.
LEMMA LocatedIs ==
  ASSUME NEW t, NEW a, NEW n, NEW p \in Plans(t, a, n), NEW place
  PROVE  Located(Served(t, a, n, p), p.cell, place) = WithNew(t, a, n, p, Contents(p, n), place)
<1>1. [WithNew(t, a, n, p, Contents(p, n), "null") EXCEPT ![p.cell].info = place]
        = WithNew(t, a, n, p, Contents(p, n), place)
  BY WriteInfo
<1> QED BY <1>1, ServedIs DEF Located

\* sigma_alloc and sigma_alloc_debug.
LEMMA AllocateKeeps ==
  ASSUME Good(heap, has), NEW t \in Threads, NEW a \in Allocators, NEW n \in Sizes,
         NEW place \in Places \union {"null"}, Allocate(t, a, n, place)
  PROVE  Good(heap', has') /\ live' = live
<1>1. PICK p \in Plans(t, a, n) :
        /\ heap' = Located(Served(t, a, n, p), p.cell, place)
        /\ has' = [has EXCEPT ![p.cell] = Knows(Fill(n, "any"), place)]
  BY DEF Allocate
<1>2. heap' = WithNew(t, a, n, p, Contents(p, n), place)
  BY <1>1, LocatedIs
<1>3. True(NewHeader(t, a, n, p, Contents(p, n), place), Knows(Fill(n, "any"), place))
  BY FillIs DEF True, NewHeader, Knows
<1>4. PICK data, known : data = Contents(p, n) /\ known = Knows(Fill(n, "any"), place)
  OBVIOUS
<1>5. data \in [1..n -> Values]
  BY <1>4, ContentsIs
<1>6. Good(WithNew(t, a, n, p, data, place), [has EXCEPT ![p.cell] = known])
  BY <1>3, <1>4, <1>5, ServeKeeps
<1> QED BY <1>1, <1>2, <1>4, <1>6 DEF Allocate

\* What CountFits lets pass does not wrap.
LEMMA TotalFits ==
  ASSUME NEW count \in Sizes, NEW size \in Sizes, CountFits(count, size)
  PROVE  Total(count, size) = count * size /\ count * size \in Sizes
<1>1. count \in Nat /\ size \in Nat /\ count >= 1 /\ size >= 1 /\ SizeMax \in Nat
  BY FrontEndAssumption DEF Sizes
<1>2. PICK q : q = SizeMax \div size
  OBVIOUS
<1>3. q \in Nat /\ q * size <= SizeMax
  BY <1>1, <1>2
<1>4. count <= q
  BY <1>2 DEF CountFits
<1>5. PICK d \in Nat : q = count + d
  BY <1>1, <1>3, <1>4
<1>6. q * size = count * size + d * size
  BY <1>1, <1>5
<1>7. d * size \in Nat /\ count * size \in Nat
  BY <1>1
<1>8. count * size <= SizeMax
  BY <1>1, <1>3, <1>6, <1>7
<1>9. count * size >= 1
  BY <1>1
<1>10. PICK e : e = count * size
  OBVIOUS
<1>11. e % (SizeMax + 1) = e
  BY <1>1, <1>7, <1>8, <1>10
<1> QED BY <1>1, <1>7, <1>8, <1>9, <1>10, <1>11 DEF Total, Sizes

\* sigma_calloc and the handle's fallback: what is not filled came zeroed.
LEMMA ZeroAllocKeeps ==
  ASSUME Good(heap, has), NEW t \in Threads, NEW a \in Allocators,
         NEW count \in Sizes, NEW size \in Sizes, NEW place \in Places \union {"null"},
         NEW clean \in SUBSET CameZeroed, ZeroAlloc(t, a, count, size, place, clean)
  PROVE  Good(heap', has') /\ live' = live
<1>1. PICK n : n = Total(count, size)
  OBVIOUS
<1>2. n = count * size /\ n \in Sizes
  BY <1>1, TotalFits DEF ZeroAlloc
<1>3. PICK p \in Plans(t, a, n) :
        LET new == Located(Served(t, a, n, p), p.cell, place) IN
        /\ heap' = IF p.kind \in clean THEN new ELSE [new EXCEPT ![p.cell].data = Fill(n, "zero")]
        /\ has' = [has EXCEPT ![p.cell] = Knows(Fill(count * size, "zero"), place)]
  BY <1>1 DEF ZeroAlloc
<1>4. Located(Served(t, a, n, p), p.cell, place) = WithNew(t, a, n, p, Contents(p, n), place)
  BY LocatedIs
<1>5. heap' = WithNew(t, a, n, p, Fill(n, "zero"), place)
  <2>1. CASE p.kind \in clean
    <3>1. Contents(p, n) = Fill(n, "zero")
      BY <2>1 DEF CameZeroed, Contents
    <3> QED BY <1>3, <1>4, <2>1, <3>1
  <2>2. CASE p.kind \notin clean
    <3>1. [WithNew(t, a, n, p, Contents(p, n), place) EXCEPT ![p.cell].data = Fill(n, "zero")]
            = WithNew(t, a, n, p, Fill(n, "zero"), place)
      BY WriteData
    <3> QED BY <1>3, <1>4, <2>2, <3>1
  <2> QED BY <2>1, <2>2
<1>6. True(NewHeader(t, a, n, p, Fill(n, "zero"), place), Knows(Fill(n, "zero"), place))
  BY <1>2, FillIs DEF True, NewHeader, Knows
<1>7. has' = [has EXCEPT ![p.cell] = Knows(Fill(n, "zero"), place)]
  BY <1>2, <1>3
<1>8. PICK data, known : data = Fill(n, "zero") /\ known = Knows(data, place)
  OBVIOUS
<1>9. data \in [1..n -> Values]
  BY <1>2, <1>8, ContentsIs
<1>10. Good(WithNew(t, a, n, p, data, place), [has EXCEPT ![p.cell] = known])
  BY <1>2, <1>6, <1>8, <1>9, ServeKeeps
<1> QED BY <1>5, <1>7, <1>8, <1>10 DEF ZeroAlloc
\* The new object of a move, before the old one is freed.
LEMMA MovedIs ==
  ASSUME NEW t, NEW a, NEW n, NEW p \in Plans(t, a, n), NEW from, NEW copies, NEW info
  PROVE  [Served(t, a, n, p) EXCEPT ![p.cell].info = info,
                                    ![p.cell].data = Copied(from, @, copies)]
           = WithNew(t, a, n, p, Copied(from, Contents(p, n), copies), info)
<1>1. PICK g : g = [WithNew(t, a, n, p, Contents(p, n), "null") EXCEPT ![p.cell].info = info]
  OBVIOUS
<1>2. g = WithNew(t, a, n, p, Contents(p, n), info)
  BY <1>1, WriteInfo
<1>3. g[p.cell].data = Contents(p, n)
  <2>1. g[p.cell] = NewHeader(t, a, n, p, Contents(p, n), info)
    BY <1>2, NewIs
  <2> QED BY <2>1 DEF NewHeader
<1>4. [g EXCEPT ![p.cell].data = Copied(from, Contents(p, n), copies)]
        = WithNew(t, a, n, p, Copied(from, Contents(p, n), copies), info)
  BY <1>2, WriteData
<1> QED BY <1>1, <1>3, <1>4, ServedIs

\* What sigma_memcpy leaves: the source's prefix, then what was there.
LEMMA CopiedIs ==
  ASSUME NEW from, NEW to, NEW count
  PROVE  /\ DOMAIN Copied(from, to, count) = DOMAIN to
         /\ \A i \in DOMAIN to :
              Copied(from, to, count)[i] = IF i <= count THEN from[i] ELSE to[i]
BY DEF Copied

\* Allocate, copy, free: the prefix that both sizes have is the old object's.
LEMMA MoveKeeps ==
  ASSUME Good(heap, has), NEW t \in Threads, NEW a \in Allocators, NEW c, NEW old \in Sizes,
         NEW n \in Sizes, NEW copies \in Nat, NEW info, NEW said,
         MoveObject(t, a, c, old, n, copies, info, said),
         copies <= heap[c].size, Smaller(Smaller(heap[c].size, n), old) <= copies,
         info \in Places \union {"null"}, said # "null" => info = said
  PROVE  Good(heap', has') /\ live' = live
<1>1. c \in Owned /\ c \in Cells
  BY DEF MoveObject, Owned, Holds
<1>2. PICK x, y, kept : /\ x = heap[c] /\ y = has[c]
                        /\ kept = Smaller(Smaller(heap[c].size, n), old)
  OBVIOUS
<1>3. Header(x) /\ True(x, y)
  BY <1>1, <1>2, HandedOutMeans DEF Good, Accounted, Owned
<1>4. PICK p \in Plans(t, a, n) :
        LET new   == p.cell
            moved == [Served(t, a, n, p) EXCEPT
                        ![new].info = info,
                        ![new].data = Copied(heap[c].data, @, copies)]
        IN /\ heap' = FreeIn(moved, t, a, c)
           /\ has' = [has EXCEPT
                        ![c] = NotHeld,
                        ![new] = Knows(Copied(has[c].want, Fill(n, "any"), kept), said)]
  BY <1>2 DEF MoveObject
<1>5. PICK data, known : /\ data = Copied(x.data, Contents(p, n), copies)
                         /\ known = Knows(Copied(y.want, Fill(n, "any"), kept), said)
  OBVIOUS
<1>6. PICK g, k : /\ g = WithNew(t, a, n, p, data, info)
                  /\ k = [has EXCEPT ![p.cell] = known]
  OBVIOUS
<1>7. /\ n \in Nat /\ old \in Nat /\ x.size \in Nat
      /\ kept <= n /\ kept <= x.size /\ kept <= copies /\ copies <= x.size /\ kept \in Nat
  BY <1>2, <1>3, HeaderMeans, FrontEndAssumption DEF Sizes, Smaller
<1>8. /\ Fill(n, "any") = [i \in 1..n |-> "any"] /\ DOMAIN Fill(n, "any") = 1..n
      /\ Contents(p, n) \in [1..n -> Values]
  BY FillIs, ContentsIs
<1>9. x.data \in [1..x.size -> Values] /\ DOMAIN y.want = 1..x.size
  BY <1>3, HeaderMeans DEF True
<1>10. data \in [1..n -> Values]
  <2>1. DOMAIN Contents(p, n) = 1..n
    BY <1>8
  <2>2. data = [i \in 1..n |-> IF i <= copies THEN x.data[i] ELSE Contents(p, n)[i]]
    BY <2>1, <1>5 DEF Copied
  <2>3. ASSUME NEW i \in 1..n
        PROVE  (IF i <= copies THEN x.data[i] ELSE Contents(p, n)[i]) \in Values
    <3>1. CASE i <= copies
      <4>1. i \in 1..x.size
        BY <3>1, <1>7
      <4> QED BY <3>1, <4>1, <1>9
    <3>2. CASE ~(i <= copies)
      BY <3>2, <1>8
    <3> QED BY <3>1, <3>2
  <2> QED BY <2>2, <2>3
<1>11. True(NewHeader(t, a, n, p, data, info), known)
  <2>1. PICK z : z = NewHeader(t, a, n, p, data, info)
    OBVIOUS
  <2>2. z.size = n /\ z.data = data /\ z.info = info
    BY <2>1 DEF NewHeader
  <2>3. PICK want : want = Copied(y.want, Fill(n, "any"), kept)
    OBVIOUS
  <2>4. known = Knows(want, said) /\ known.want = want /\ known.said = said
    BY <1>5, <2>3 DEF Knows
  <2>5. /\ DOMAIN want = 1..n
        /\ \A i \in 1..n : want[i] = IF i <= kept THEN y.want[i] ELSE "any"
    <3>1. PICK to : to = Fill(n, "any")
      OBVIOUS
    <3>2. DOMAIN to = 1..n /\ \A i \in 1..n : to[i] = "any"
      BY <1>8, <3>1
    <3>3. want = [i \in 1..n |-> IF i <= kept THEN y.want[i] ELSE to[i]]
      BY <2>3, <3>1, <3>2 DEF Copied
    <3> QED BY <3>2, <3>3
  <2>6. ASSUME NEW i \in 1..n, want[i] # "any" PROVE data[i] = want[i]
    <3>1. i <= kept /\ want[i] = y.want[i]
      BY <2>5, <2>6
    <3>2. i <= copies /\ i \in 1..x.size
      BY <1>7, <3>1
    <3>3. x.data[i] = y.want[i]
      BY <1>3, <1>9, <2>6, <3>1, <3>2 DEF True
    <3>4. DOMAIN Contents(p, n) = 1..n
      BY <1>8
    <3>5. data[i] = x.data[i]
      BY <1>5, <3>2, <3>4, CopiedIs
    <3> QED BY <3>1, <3>3, <3>5
  <2> QED BY <2>1, <2>2, <2>4, <2>5, <2>6 DEF True
<1>12. /\ Good(g, k) /\ p.cell \in Cells /\ p.cell \notin Owned
       /\ g[c] = heap[c]
  BY <1>1, <1>6, <1>10, <1>11, ServeKeeps
<1>13. has = [d \in Cells |-> has[d]]
  BY DEF Good, Typed
<1>14. c # p.cell /\ k[c] = has[c] /\ c \in Holds(k)
  BY <1>1, <1>6, <1>12, <1>13 DEF Owned, Holds
<1>15. Good(FreeIn(g, t, a, c), [k EXCEPT ![c] = NotHeld])
  BY <1>12, <1>14, FreeKeeps
<1>16. heap' = FreeIn(g, t, a, c)
  BY <1>2, <1>4, <1>5, <1>6, MovedIs
<1>17. has' = [k EXCEPT ![c] = NotHeld]
  <2>1. has' = [has EXCEPT ![c] = NotHeld, ![p.cell] = known]
    BY <1>2, <1>4, <1>5
  <2> QED BY <2>1, <1>1, <1>6, <1>12, <1>13, <1>14
<1> QED BY <1>15, <1>16, <1>17 DEF MoveObject

\* The program's own stores.
LEMMA StoreKeeps ==
  ASSUME Good(heap, has), NEW t, NEW c \in Owned, Store(t, c)
  PROVE  Good(heap', has') /\ live' = live
<1>1. PICK x, y : x = heap[c] /\ y = has[c]
  OBVIOUS
<1>2. Header(x) /\ True(x, y) /\ c \in Cells
  BY <1>1, HandedOutMeans DEF Good, Accounted, Owned, Holds
<1>3. PICK marks : marks = Fill(x.size, "mark")
  OBVIOUS
<1>4. PICK nx, ny : nx = [x EXCEPT !.data = marks] /\ ny = [y EXCEPT !.want = marks]
  OBVIOUS
<1>5. /\ x \in [kind : KindsOf, home : Arenas, parts : SUBSET Cells, size : Sizes,
               data : UNION {[1..n -> Values] : n \in Sizes}, info : Places \union {"null"}]
      /\ x.size \in Sizes
  BY <1>2 DEF Header
<1>6. marks \in [1..x.size -> Values] /\ DOMAIN marks = 1..x.size /\ \A i \in 1..x.size : marks[i] = "mark"
  BY <1>3, <1>5 DEF Fill, Values
<1>7. marks \in UNION {[1..n -> Values] : n \in Sizes}
  BY <1>5, <1>6
<1>8. /\ nx.kind = x.kind /\ nx.parts = x.parts /\ nx.size = x.size /\ nx.data = marks
      /\ nx.info = x.info /\ nx.home = x.home
  BY <1>4, <1>5
<1>9. Header(nx)
  BY <1>4, <1>5, <1>6, <1>7, <1>8 DEF Header
<1>10. y = [want |-> y.want, said |-> y.said]
  BY <1>2 DEF True, Knows
<1>11. ny = Knows(marks, y.said)
  BY <1>4, <1>10 DEF Knows
<1>12. True(nx, ny)
  <2>1. ny.want = marks /\ ny.said = y.said
    BY <1>11 DEF Knows
  <2> QED BY <1>2, <1>6, <1>8, <1>11, <2>1 DEF True
<1>13. ny # NotHeld
  BY <1>5, <1>8, <1>12, KnownIsHeld
<1>14. Good([heap EXCEPT ![c] = nx], [has EXCEPT ![c] = ny])
  BY <1>1, <1>8, <1>9, <1>12, <1>13, UpdateKeeps DEF Owned
<1>15. heap' = [heap EXCEPT ![c] = nx] /\ has' = [has EXCEPT ![c] = ny]
  BY <1>1, <1>3, <1>4 DEF Store
<1> QED BY <1>14, <1>15 DEF Store
-----------------------------------------------------------------------------
(* Every step *)

\* The lesser of two sizes.
LEMMA SmallerIs ==
  ASSUME NEW m \in Nat, NEW n \in Nat
  PROVE  /\ Smaller(m, n) \in Nat /\ Smaller(m, n) <= m /\ Smaller(m, n) <= n
         /\ Smaller(m, n) = m \/ Smaller(m, n) = n
BY DEF Smaller

\* What a step may do, whichever thread takes it.
LEMMA StepIs ==
  ASSUME NEW t \in Threads, Step(t)
  PROVE  \/ End(t)
         \/ \E c \in Owned : Store(t, c)
         \/ \E a \in Allocators :
              \/ AllocFails(t, a)
              \/ \E place \in Places \union {"null"} :
                   \/ \E n \in Sizes : Allocate(t, a, n, place)
                   \/ \E count, size \in Sizes : ZeroAlloc(t, a, count, size, place, CameZeroed)
                   \/ \E count, size \in Sizes : ZeroAlloc(t, a, count, size, place, {})
              \/ \E c \in Owned : Free(t, a, c) \/ FreeElsewhere(t, a, c)
              \/ \E c \in Owned : \E old, n \in Sizes :
                   Realloc(t, a, c, old, n) \/ FallbackRealloc(t, a, c, old, n)
BY DEF Step, Calloc, FallbackCalloc

\* sigma_realloc copies all that matters, and so does the fallback that believes its caller.
LEMMA ReallocKeeps ==
  ASSUME Good(heap, has), NEW t \in Threads, NEW a \in Allocators, NEW c \in Owned,
         NEW old \in Sizes, NEW n \in Sizes,
         Realloc(t, a, c, old, n) \/ FallbackRealloc(t, a, c, old, n)
  PROVE  Good(heap', has') /\ live' = live
<1>1. Header(heap[c]) /\ True(heap[c], has[c])
  BY HandedOutMeans DEF Good, Accounted, Owned, Holds
<1>2. heap[c].size \in Nat /\ old \in Nat /\ n \in Nat
  BY <1>1, HeaderMeans DEF Sizes
<1>3. PICK s, u : s = Smaller(heap[c].size, n) /\ u = Smaller(s, old)
  OBVIOUS
<1>4. /\ s \in Nat /\ u \in Nat /\ u <= s /\ s <= heap[c].size /\ s <= n /\ u <= old
  BY <1>2, <1>3, SmallerIs
<1>5. CASE Realloc(t, a, c, old, n)
  <2>1. MoveObject(t, a, c, old, n, u, heap[c].info, has[c].said)
    BY <1>3, <1>5 DEF Realloc, MovedInfo
  <2>2. heap[c].info \in Places \union {"null"} /\ (has[c].said # "null" => heap[c].info = has[c].said)
    BY <1>1, HeaderMeans DEF True
  <2>3. u <= heap[c].size /\ Smaller(Smaller(heap[c].size, n), old) <= u
    BY <1>2, <1>3, <1>4
  <2> QED BY <1>4, <2>1, <2>2, <2>3, MoveKeeps
<1>6. CASE FallbackRealloc(t, a, c, old, n)
  <2>1. PICK v : v = Smaller(old, n)
    OBVIOUS
  <2>2. old <= heap[c].size /\ MoveObject(t, a, c, old, n, v, "null", "null")
    BY <1>6, <2>1 DEF FallbackRealloc
  <2>3. v \in Nat /\ v <= old /\ (v = old \/ v = n)
    BY <1>2, <2>1, SmallerIs
  <2>4. v \in Nat /\ v <= old /\ u <= v
    BY <1>2, <1>4, <2>3
  <2>5. v <= heap[c].size /\ Smaller(Smaller(heap[c].size, n), old) <= v
    BY <1>2, <1>3, <2>2, <2>4
  <2> QED BY <2>2, <2>4, <2>5, MoveKeeps
<1> QED BY <1>5, <1>6

\* Every step keeps the heap good.
LEMMA StepKeeps ==
  ASSUME live \subseteq Threads, Good(heap, has), NEW t \in Threads, Step(t)
  PROVE  live' \subseteq Threads /\ Good(heap', has')
<1>1. CASE End(t)
  BY <1>1 DEF End
<1>2. CASE \E c \in Owned : Store(t, c)
  BY <1>2, StoreKeeps
<1>3. ASSUME NEW a \in Allocators, AllocFails(t, a)
      PROVE  live' \subseteq Threads /\ Good(heap', has')
  <2>1. <<t, a>> \in Arenas
    BY DEF Arenas
  <2> QED BY <1>3, <2>1, DrainKeeps DEF AllocFails
<1>4. ASSUME NEW a \in Allocators, NEW place \in Places \union {"null"}, NEW n \in Sizes,
             Allocate(t, a, n, place)
      PROVE  live' \subseteq Threads /\ Good(heap', has')
  BY <1>4, AllocateKeeps
<1>5. ASSUME NEW a \in Allocators, NEW place \in Places \union {"null"},
             NEW count \in Sizes, NEW size \in Sizes,
             \/ ZeroAlloc(t, a, count, size, place, CameZeroed)
             \/ ZeroAlloc(t, a, count, size, place, {})
      PROVE  live' \subseteq Threads /\ Good(heap', has')
  BY <1>5, ZeroAllocKeeps
<1>6. ASSUME NEW a \in Allocators, NEW c \in Owned, Free(t, a, c) \/ FreeElsewhere(t, a, c)
      PROVE  live' \subseteq Threads /\ Good(heap', has')
  <2>1. CASE Free(t, a, c)
    BY <2>1, FreeKeeps DEF Free, Owned
  <2>2. CASE FreeElsewhere(t, a, c)
    BY <2>2 DEF FreeElsewhere
  <2> QED BY <1>6, <2>1, <2>2
<1>7. ASSUME NEW a \in Allocators, NEW c \in Owned, NEW old \in Sizes, NEW n \in Sizes,
             Realloc(t, a, c, old, n) \/ FallbackRealloc(t, a, c, old, n)
      PROVE  live' \subseteq Threads /\ Good(heap', has')
  BY <1>7, ReallocKeeps
<1> QED BY <1>1, <1>2, <1>3, <1>4, <1>5, <1>6, <1>7, StepIs

\* Before the first call.
LEMMA InitGood == Init => live \subseteq Threads /\ Good(heap, has)
<1> SUFFICES ASSUME Init PROVE live \subseteq Threads /\ Good(heap, has)
  OBVIOUS
<1>1. Holds(has) = {}
  BY DEF Init, Holds
<1>2. \A c \in Cells : heap[c] = Unused
  BY DEF Init
<1>3. heap = [c \in Cells |-> heap[c]] /\ has = [c \in Cells |-> has[c]]
  BY DEF Init
<1>4. \A c \in Cells : heap[c].kind \notin KindsOf /\ heap[c].parts = {}
  BY <1>2, UnusedFields DEF KindsOf
<1> QED BY <1>1, <1>2, <1>3, <1>4 DEF Init, Good, Typed, Accounted, Apart, Slots

\* The inductive invariant.
THEOREM Invariance == Spec => []IInv
<1>1. Init => IInv
  BY InitGood, GoodMeans
<1>2. IInv /\ [Next]_vars => IInv'
  <2> SUFFICES ASSUME IInv, [Next]_vars PROVE IInv'
    OBVIOUS
  <2>1. live \subseteq Threads /\ Good(heap, has)
    BY GoodMeans
  <2>2. live' \subseteq Threads /\ Good(heap', has')
    <3>1. CASE Next
      BY <2>1, <3>1, StepKeeps DEF Next
    <3>2. CASE UNCHANGED vars
      BY <2>1, <3>2 DEF vars
    <3> QED BY <3>1, <3>2
  <2>3. Good(heap, has)' <=> Good(heap', has')
    BY DEF Good, Typed, Accounted, Apart, Slots, True, Holds
  <2>4. IInv' <=> (live \subseteq Threads /\ Good(heap, has))'
    BY GoodMeans, PTL
  <2> QED BY <2>2, <2>3, <2>4
<1> QED BY <1>1, <1>2, PTL DEF Spec

\* A cell is unused, or waits for an arena's thread, or has a header; and the program
\* knows as much of an object as it asked for (sigma_alloc, sigma_realloc).
THEOREM TypeCorrect == Spec => []TypeOK
<1>1. IInv => TypeOK
  BY DEF IInv
<1> QED BY <1>1, Invariance, PTL

\* What is handed out is the program's, or a part of one large object of it, each
\* once: large_free leaves nothing behind and frees nothing twice.
THEOREM NothingStrays == Spec => []HandedOut
<1>1. IInv => HandedOut
  BY DEF IInv
<1> QED BY <1>1, Invariance, PTL

\* Contents survive every call: the zeros of sigma_calloc, the prefix that
\* sigma_realloc moves, and what the program stored.
THEOREM ContentsSurvive == Spec => []ContentsKept
<1>1. IInv => ContentsKept
  BY DEF IInv
<1> QED BY <1>1, Invariance, PTL

\* A location lives as long as its object, through sigma_realloc.
THEOREM LocationsSurvive == Spec => []InfoTrue
<1>1. IInv => InfoTrue
  BY DEF IInv
<1> QED BY <1>1, Invariance, PTL

-----------------------------------------------------------------------------
(* An arena that nobody uses *)

LacksIn(h, arena) == {c \in Cells : h[c].home = arena /\ h[c].kind # "large"}

\* An arena is none of another thread's, and an unused cell has none.
LEMMA HomesDiffer ==
  ASSUME NEW t, NEW a, NEW u, NEW b, t # u
  PROVE  <<t, a>> # <<u, b>> /\ Unused.home # <<u, b>>
<1>1. DOMAIN <<u, b>> = 1..2 /\ DOMAIN << >> = {}
  OBVIOUS
<1>2. 1 \in 1..2
  OBVIOUS
<1>3. << >> # <<u, b>>
  BY <1>1, <1>2
<1> QED BY <1>3, UnusedFields

\* What another thread does leaves such an arena as poor as it was.
LEMMA OthersKeepLacking ==
  ASSUME NEW h, NEW t, NEW a, NEW u, NEW b, t # u
  PROVE  /\ LacksIn(h, <<u, b>>) \subseteq LacksIn(Drained(h, <<t, a>>), <<u, b>>)
         /\ \A c \in Cells : LacksIn(h, <<u, b>>) \subseteq LacksIn(FreeIn(h, t, a, c), <<u, b>>)
<1>1. ASSUME NEW c \in LacksIn(h, <<u, b>>)
      PROVE  c \in LacksIn(Drained(h, <<t, a>>), <<u, b>>)
  <2>1. c \in Cells /\ h[c].home = <<u, b>> /\ h[c].kind # "large"
    BY <1>1 DEF LacksIn
  <2>2. h[c] # Waiting(<<t, a>>)
    BY <2>1, UnusedFields, HomesDiffer
  <2> QED BY <2>1, <2>2 DEF LacksIn, Drained
<1>2. ASSUME NEW e \in Cells, NEW c \in LacksIn(h, <<u, b>>)
      PROVE  c \in LacksIn(FreeIn(h, t, a, e), <<u, b>>)
  <2>1. c \in Cells /\ h[c].home = <<u, b>> /\ h[c].kind # "large"
    BY <1>2 DEF LacksIn
  <2>2. GivenBack(t, a, h[c]) = Waiting(<<u, b>>)
    BY <2>1, HomesDiffer DEF GivenBack, IsLocal
  <2>3. FreeIn(h, t, a, e)[c] = h[c] \/ FreeIn(h, t, a, e)[c] = Waiting(<<u, b>>)
    BY <2>1, <2>2 DEF FreeIn
  <2> QED BY <2>1, <2>3, UnusedFields DEF LacksIn
<1> QED BY <1>1, <1>2

\* Serving a request takes nothing that belongs to such an arena.
LEMMA ServingKeepsLacking ==
  ASSUME NEW t, NEW a, NEW u, NEW b, t # u, NEW n, NEW p \in Plans(t, a, n), NEW data, NEW info
  PROVE  LacksIn(heap, <<u, b>>) \subseteq LacksIn(WithNew(t, a, n, p, data, info), <<u, b>>)
<1>1. PICK h : h = Heap(t, a, p.drains)
  OBVIOUS
<1>2. LacksIn(heap, <<u, b>>) \subseteq LacksIn(h, <<u, b>>)
  BY <1>1, OthersKeepLacking DEF Heap
<1>3. ASSUME NEW c \in LacksIn(h, <<u, b>>)
      PROVE  c \in LacksIn(WithNew(t, a, n, p, data, info), <<u, b>>)
  <2>1. c \in Cells /\ h[c].home = <<u, b>> /\ h[c].kind # "large"
    BY <1>3 DEF LacksIn
  <2>2. h[c] # Unused
    BY <2>1, HomesDiffer
  <2>3. c # p.cell /\ c \notin p.parts
    BY <1>1, <2>2, PlansMean DEF FreeCells
  <2>4. WithNew(t, a, n, p, data, info)[c] = h[c]
    BY <1>1, <2>1, <2>3 DEF WithNew
  <2> QED BY <2>1, <2>4 DEF LacksIn
<1> QED BY <1>2, <1>3

\* Every memory an arena lacks when its thread has ended it lacks for good: frees by
\* others go to its remote stack, which only its own thread drains (arena_remote_free).
THEOREM EndedArenasKeep == Spec => Confined
<1>1. ASSUME IInv, NEW t \in live, Step(t), NEW u \in Threads \ live, NEW b \in Allocators
      PROVE  LacksIn(heap, <<u, b>>) \subseteq LacksIn(heap', <<u, b>>)
  <2>1. t # u /\ t \in Threads /\ Good(heap, has)
    BY <1>1, GoodMeans
  <2>2. \A c \in Owned : c \in Cells
    BY DEF Owned, Holds
  <2>3. CASE End(t)
    BY <2>3 DEF End
  <2>4. ASSUME NEW c \in Owned, Store(t, c)
        PROVE  LacksIn(heap, <<u, b>>) \subseteq LacksIn(heap', <<u, b>>)
    <3>1. PICK nx : nx = [heap[c] EXCEPT !.data = Fill(heap[c].size, "mark")]
      OBVIOUS
    <3>2. heap' = [heap EXCEPT ![c] = nx]
      BY <2>4, <3>1 DEF Store
    <3>3. Header(heap[c])
      BY <2>1, <2>2, HandedOutMeans DEF Good, Accounted, Owned
    <3>4. nx.home = heap[c].home /\ nx.kind = heap[c].kind
      BY <3>1, <3>3 DEF Header
    <3>5. heap = [d \in Cells |-> heap[d]]
      BY <2>1 DEF Good, Typed
    <3>6. \A d \in Cells : heap'[d].home = heap[d].home /\ heap'[d].kind = heap[d].kind
      BY <2>2, <3>2, <3>4, <3>5
    <3> QED BY <3>6 DEF LacksIn
  <2>5. ASSUME NEW a \in Allocators, AllocFails(t, a)
        PROVE  LacksIn(heap, <<u, b>>) \subseteq LacksIn(heap', <<u, b>>)
    BY <2>1, <2>5, OthersKeepLacking DEF AllocFails
  <2>6. ASSUME NEW a \in Allocators, NEW place, NEW n, Allocate(t, a, n, place)
        PROVE  LacksIn(heap, <<u, b>>) \subseteq LacksIn(heap', <<u, b>>)
    <3>1. PICK p \in Plans(t, a, n) : heap' = WithNew(t, a, n, p, Contents(p, n), place)
      BY <2>6, LocatedIs DEF Allocate
    <3> QED BY <2>1, <3>1, ServingKeepsLacking
  <2>7. ASSUME NEW a \in Allocators, NEW count, NEW size, NEW place, NEW clean,
               ZeroAlloc(t, a, count, size, place, clean)
        PROVE  LacksIn(heap, <<u, b>>) \subseteq LacksIn(heap', <<u, b>>)
    <3>1. PICK n : n = Total(count, size)
      OBVIOUS
    <3>2. PICK p \in Plans(t, a, n) :
            \/ heap' = Located(Served(t, a, n, p), p.cell, place)
            \/ heap' = [Located(Served(t, a, n, p), p.cell, place) EXCEPT ![p.cell].data = Fill(n, "zero")]
      BY <2>7, <3>1 DEF ZeroAlloc
    <3>3. Located(Served(t, a, n, p), p.cell, place) = WithNew(t, a, n, p, Contents(p, n), place)
      BY LocatedIs
    <3>4. [WithNew(t, a, n, p, Contents(p, n), place) EXCEPT ![p.cell].data = Fill(n, "zero")]
            = WithNew(t, a, n, p, Fill(n, "zero"), place)
      BY WriteData
    <3>5. \E data : heap' = WithNew(t, a, n, p, data, place)
      BY <3>2, <3>3, <3>4
    <3> QED BY <2>1, <3>5, ServingKeepsLacking
  <2>8. ASSUME NEW a \in Allocators, NEW c \in Owned, Free(t, a, c) \/ FreeElsewhere(t, a, c)
        PROVE  LacksIn(heap, <<u, b>>) \subseteq LacksIn(heap', <<u, b>>)
    BY <2>1, <2>2, <2>8, OthersKeepLacking DEF Free, FreeElsewhere
  <2>9. ASSUME NEW a \in Allocators, NEW c \in Owned, NEW old, NEW n, NEW copies, NEW info, NEW said,
               MoveObject(t, a, c, old, n, copies, info, said)
        PROVE  LacksIn(heap, <<u, b>>) \subseteq LacksIn(heap', <<u, b>>)
    <3>1. PICK p \in Plans(t, a, n) :
            heap' = FreeIn([Served(t, a, n, p) EXCEPT
                              ![p.cell].info = info,
                              ![p.cell].data = Copied(heap[c].data, @, copies)], t, a, c)
      BY <2>9 DEF MoveObject
    <3>2. PICK from : from = heap[c].data
      OBVIOUS
    <3>3. [Served(t, a, n, p) EXCEPT ![p.cell].info = info,
                                     ![p.cell].data = Copied(from, @, copies)]
            = WithNew(t, a, n, p, Copied(from, Contents(p, n), copies), info)
      BY MovedIs
    <3>4. PICK data : heap' = FreeIn(WithNew(t, a, n, p, data, info), t, a, c)
      BY <3>1, <3>2, <3>3
    <3>5. LacksIn(heap, <<u, b>>) \subseteq LacksIn(WithNew(t, a, n, p, data, info), <<u, b>>)
      BY <2>1, ServingKeepsLacking
    <3> QED BY <2>1, <2>2, <3>4, <3>5, OthersKeepLacking
  <2>10. ASSUME NEW a \in Allocators, NEW c \in Owned, NEW old, NEW n,
                Realloc(t, a, c, old, n) \/ FallbackRealloc(t, a, c, old, n)
         PROVE  LacksIn(heap, <<u, b>>) \subseteq LacksIn(heap', <<u, b>>)
    BY <2>9, <2>10 DEF Realloc, FallbackRealloc
  <2> QED BY <1>1, <2>1, <2>3, <2>4, <2>5, <2>6, <2>7, <2>8, <2>10, StepIs
<1>2. IInv /\ [Next]_vars => [EndedKeepLacking]_vars
  <2> SUFFICES ASSUME IInv, Next, NEW u \in Threads \ live, NEW b \in Allocators
               PROVE  Lacks(<<u, b>>) \subseteq Lacks(<<u, b>>)'
    BY DEF vars, EndedKeepLacking
  <2>1. PICK t \in live : Step(t)
    BY DEF Next, Step
  <2>2. LacksIn(heap, <<u, b>>) \subseteq LacksIn(heap', <<u, b>>)
    BY <1>1, <2>1
  <2> QED BY <2>2 DEF Lacks, LacksIn
<1> QED BY <1>2, Invariance, PTL DEF Spec, Confined
=============================================================================
