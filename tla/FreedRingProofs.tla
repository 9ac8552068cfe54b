--------------------------- MODULE FreedRingProofs ---------------------------
(***************************************************************************)
(* Theorems about FreedRing, for any set of pointers and of threads and a  *)
(* ring of any size.                                                       *)
(***************************************************************************)
EXTENDS FreedRing, TLAPS

\* How far back an index is: each index once, the next to be written farthest.
LEMMA BackFacts ==
  ASSUME NEW n \in Indices
  PROVE  /\ \A i \in Indices : Back(n, i) \in Indices /\ Back(n, Back(n, i)) = i
         /\ \A i \in Indices : i # n => Back(n, i) < Window - 1
         /\ Back(n, Window - 1) = n /\ Back(n, n) = Window - 1
BY RingAssumption DEF Indices, Back

\* Writing the next index moves every other one a record further back.
LEMMA BackAdvances ==
  ASSUME NEW n \in Indices, NEW m, m = (n + 1) % Window
  PROVE  /\ m \in Indices
         /\ \A i \in Indices : Back(m, i) = IF i = n THEN 0 ELSE Back(n, i) + 1
         /\ \A a \in Indices : a + 1 < Window => Back(m, a + 1) = Back(n, a)
         /\ Back(m, 0) = n
<1>1. m = IF n = Window - 1 THEN 0 ELSE n + 1
  BY RingAssumption DEF Indices
<1> QED BY <1>1, RingAssumption DEF Indices, Back

\* An empty ring.
LEMMA InitIInv == Init => IInv
<1> SUFFICES ASSUME Init PROVE IInv
  OBVIOUS
<1>1. Types
  <2>1. age \in [Pointers -> 0..Window] /\ next \in Indices
    BY RingAssumption DEF Init, Indices
  <2> QED BY <2>1 DEF Init, Types
<1>2. AgesPlaced
  BY RingAssumption DEF Init, AgesPlaced
<1>3. OneLife
  BY DEF Init, OneLife
<1> QED BY <1>1, <1>2, <1>3 DEF IInv

-----------------------------------------------------------------------------
(* Where the records are. *)

\* sigma_debug_record_free: the record of the pointer is now the newest, the
\* others are one further back, and what the index held is gone.
LEMMA RecordPlaced ==
  ASSUME Types, AgesPlaced, NEW t \in Threads, Record(t)
  PROVE  AgesPlaced'
<1> DEFINE q == arg[t]
<1>1. /\ q \in Pointers /\ ring' = [ring EXCEPT ![next] = q] /\ next' = (next + 1) % Window
      /\ age' = [p \in Pointers |-> IF p = q THEN 0 ELSE Older(age[p])]
  BY DEF Record, Recorded, NextIndex, Step, Types
<1> HIDE DEF q
<1>2. /\ next \in Indices /\ ring \in [Indices -> Pointers \union {Null}]
      /\ \A p \in Pointers : age[p] \in 0..Window
      /\ \A i \in Indices : ring'[i] = IF i = next THEN q ELSE ring[i]
  BY <1>1 DEF Types
<1>3. ASSUME NEW p \in Pointers, age'[p] < Window PROVE ring'[Back(next', age'[p])] = p
  <2>1. CASE p = q
    <3>1. age'[p] = 0
      BY <1>1, <2>1
    <3>2. Back(next', age'[p]) = next
      BY <1>1, <1>2, <3>1, BackAdvances
    <3> QED BY <1>2, <2>1, <3>2
  <2>2. CASE p # q
    <3>1. age[p] \in Indices /\ age'[p] = age[p] + 1 /\ age[p] < Window - 1
      BY <1>1, <1>2, <1>3, <2>2, RingAssumption DEF Older, Indices
    <3>2. Back(next', age'[p]) = Back(next, age[p])
      BY <1>1, <1>2, <3>1, RingAssumption, BackAdvances
    <3>3. Back(next, age[p]) \in Indices /\ Back(next, age[p]) # next
      BY <1>2, <3>1, BackFacts, RingAssumption
    <3>4. ring[Back(next, age[p])] = p
      BY <3>1, RingAssumption DEF AgesPlaced, Indices
    <3> QED BY <1>2, <3>2, <3>3, <3>4
  <2> QED BY <2>1, <2>2
<1>4. ASSUME NEW i \in Indices, ring'[i] # Null PROVE age'[ring'[i]] <= Back(next', i)
  <2>1. CASE i = next
    BY <1>1, <1>2, <2>1, BackAdvances
  <2>2. CASE i # next
    <3>1. ring'[i] = ring[i] /\ ring[i] \in Pointers /\ age[ring[i]] <= Back(next, i)
      BY <1>2, <1>4, <2>2 DEF AgesPlaced
    <3>2. Back(next', i) = Back(next, i) + 1 /\ Back(next, i) \in Nat
      BY <1>1, <1>2, <2>2, BackAdvances, BackFacts DEF Indices
    <3>3. age[ring[i]] \in Nat /\ age'[ring[i]] <= age[ring[i]] + 1
      BY <1>1, <1>2, <3>1, RingAssumption DEF Older
    <3>4. age'[ring[i]] \in Nat
      BY <1>1, <1>2, <3>1, RingAssumption DEF Older
    <3> QED BY <3>1, <3>2, <3>3, <3>4
  <2> QED BY <2>1, <2>2
<1> QED BY <1>3, <1>4 DEF AgesPlaced

\* sigma_debug_forget_freed: no index holds the pointer any more.
LEMMA ForgetPlaced ==
  ASSUME Types, AgesPlaced, NEW t \in Threads, Forget(t)
  PROVE  AgesPlaced'
<1> DEFINE q == arg[t]
<1>1. /\ q \in Pointers /\ next' = next
      /\ ring' = [i \in Indices |-> IF ring[i] = q THEN Null ELSE ring[i]]
      /\ age' = [age EXCEPT ![q] = Window]
  BY DEF Forget, Cleared, Step, Types
<1> HIDE DEF q
<1>2. next \in Indices
  BY DEF Types
<1>3. \A p \in Pointers : age'[p] = IF p = q THEN Window ELSE age[p]
  BY <1>1 DEF Types
<1>4. \A p \in Pointers : age[p] < Window => Back(next, age[p]) \in Indices
  <2>1. \A p \in Pointers : age[p] < Window => age[p] \in Indices
    BY RingAssumption DEF Types, Indices
  <2> QED BY <1>2, <2>1, BackFacts
<1>5. \A i \in Indices : ring'[i] # Null => ring'[i] = ring[i] /\ ring[i] # q /\ ring[i] \in Pointers
  BY <1>1 DEF Types
<1>6. ASSUME NEW p \in Pointers, age'[p] < Window PROVE ring'[Back(next', age'[p])] = p
  <2>1. p # q /\ age'[p] = age[p] /\ ring[Back(next, age[p])] = p /\ Back(next, age[p]) \in Indices
    BY <1>3, <1>4, <1>6, RingAssumption DEF AgesPlaced
  <2> QED BY <1>1, <1>2, <2>1
<1>7. ASSUME NEW i \in Indices, ring'[i] # Null PROVE age'[ring'[i]] <= Back(next', i)
  <2>1. ring'[i] = ring[i] /\ age'[ring[i]] = age[ring[i]] /\ age[ring[i]] <= Back(next, i)
    BY <1>3, <1>5, <1>7 DEF AgesPlaced
  <2> QED BY <1>1, <2>1
<1> QED BY <1>6, <1>7 DEF AgesPlaced

\* AgesPlaced speaks of the ring, its index and the ages, and of nothing else.
LEMMA SamePlaced ==
  ASSUME AgesPlaced, ring' = ring, next' = next, age' = age
  PROVE  AgesPlaced'
BY DEF AgesPlaced, Back

-----------------------------------------------------------------------------
(* The life of a pointer. *)

\* Every step keeps the types.
LEMMA TypesStep ==
  ASSUME Types, [Next]_vars
  PROVE  Types'
<1> USE DEF Types
<1>1. CASE UNCHANGED vars
  BY <1>1 DEF vars
<1>2. ASSUME NEW t \in Threads, NEW p \in Pointers, Pick(t, p) PROVE Types'
  BY <1>2 DEF Pick, Step
<1>3. ASSUME NEW t \in Threads, NEW p \in Pointers, Call(t, p) PROVE Types'
  BY <1>3 DEF Call, Step
<1>4. ASSUME NEW t \in Threads, Forget(t) PROVE Types'
  <2>1. ring' \in [Indices -> Pointers \union {Null}]
    BY <1>4 DEF Forget, Cleared
  <2>2. age' \in [Pointers -> 0..Window]
    <3>1. Window \in 0..Window /\ age' = [age EXCEPT ![arg[t]] = Window]
      BY <1>4, RingAssumption DEF Forget
    <3> QED BY <3>1
  <2> QED BY <1>4, <2>1, <2>2 DEF Forget, Step
<1>5. ASSUME NEW t \in Threads, Passes(t) PROVE Types'
  BY <1>5 DEF Passes, Step
<1>6. ASSUME NEW t \in Threads, Reports(t) PROVE Types'
  BY <1>6 DEF Reports
<1>7. ASSUME NEW t \in Threads, Record(t) PROVE Types'
  <2>1. next' \in Indices /\ ring' \in [Indices -> Pointers \union {Null}]
    BY <1>7, BackAdvances DEF Record, Recorded, NextIndex, Step
  <2>2. age' \in [Pointers -> 0..Window]
    BY <1>7, RingAssumption DEF Record, Older
  <2> QED BY <1>7, <2>1, <2>2 DEF Record, Step
<1>8. ASSUME NEW t \in Threads, Give(t) PROVE Types'
  BY <1>8 DEF Give, Step
<1> QED BY <1>1, <1>2, <1>3, <1>4, <1>5, <1>6, <1>7, <1>8 DEF Next, ThreadStep, Halted

\* Every step keeps each record at the place its age says.
LEMMA PlacedStep ==
  ASSUME Types, AgesPlaced, [Next]_vars
  PROVE  AgesPlaced'
<1>1. CASE UNCHANGED vars
  BY <1>1, SamePlaced DEF vars
<1>2. ASSUME NEW t \in Threads, NEW p \in Pointers, Pick(t, p) \/ Call(t, p) PROVE AgesPlaced'
  BY <1>2, SamePlaced DEF Pick, Call
<1>3. ASSUME NEW t \in Threads, Passes(t) \/ Reports(t) \/ Give(t) PROVE AgesPlaced'
  BY <1>3, SamePlaced DEF Passes, Reports, Give
<1> QED BY <1>1, <1>2, <1>3, ForgetPlaced, RecordPlaced DEF Next, ThreadStep, Halted

\* Every step keeps a pointer of a program that frees only what it holds in one place.
LEMMA OneLifeStep ==
  ASSUME Types, OneLife, [Next]_vars
  PROVE  OneLife'
<1> SUFFICES ASSUME ~misused' PROVE OneLife'
  BY DEF OneLife
<1>1. CASE UNCHANGED vars
  BY <1>1 DEF vars, OneLife, InRing
<1>2. ASSUME NEW t \in Threads, NEW p \in Pointers, Pick(t, p) PROVE OneLife'
  <2>1. ring' = ring /\ ~misused /\ where[p] = "arena" /\ pc[t] = "idle"
        /\ pc' = [pc EXCEPT ![t] = "forget"] /\ arg' = [arg EXCEPT ![t] = p]
        /\ where' = [where EXCEPT ![p] = "between"]
    BY <1>2 DEF Pick, Step
  <2>2. \A u \in Threads : pc[u] # "idle" => arg[u] # p
    BY <2>1 DEF OneLife
  <2> QED BY <2>1, <2>2 DEF OneLife, InRing, Types
<1>3. ASSUME NEW t \in Threads, NEW p \in Pointers, Call(t, p) PROVE OneLife'
  <2>1. ring' = ring /\ ~misused /\ where[p] = "held" /\ pc[t] = "idle"
        /\ pc' = [pc EXCEPT ![t] = "check"] /\ arg' = [arg EXCEPT ![t] = p]
        /\ where' = [where EXCEPT ![p] = "between"]
    BY <1>3 DEF Call, Step
  <2>2. \A u \in Threads : pc[u] # "idle" => arg[u] # p
    BY <2>1 DEF OneLife
  <2> QED BY <2>1, <2>2 DEF OneLife, InRing, Types
<1>4. ASSUME NEW t \in Threads, Forget(t) PROVE OneLife'
  <2>1. ring' = Cleared(arg[t]) /\ ~misused /\ pc[t] = "forget" /\ arg[t] \in Pointers
        /\ pc' = [pc EXCEPT ![t] = "idle"] /\ arg' = [arg EXCEPT ![t] = Null]
        /\ where' = [where EXCEPT ![arg[t]] = "held"]
    BY <1>4 DEF Forget, Step, Types
  <2>2. \A q \in Pointers : InRing(q)' => InRing(q) /\ q # arg[t]
    BY <2>1, RingAssumption DEF InRing, Cleared
  <2>3. \A u \in Threads : u # t /\ pc[u] # "idle" => arg[u] # arg[t] /\ arg[u] \in Pointers
    BY <2>1 DEF OneLife, Types
  <2> QED BY <2>1, <2>2, <2>3 DEF OneLife, Types
<1>5. ASSUME NEW t \in Threads, Passes(t) PROVE OneLife'
  BY <1>5 DEF Passes, Step, OneLife, InRing, Types
<1>6. ASSUME NEW t \in Threads, Reports(t) PROVE OneLife'
  BY <1>6 DEF Reports, OneLife, InRing, Types
<1>7. ASSUME NEW t \in Threads, Record(t) PROVE OneLife'
  <2>1. ring' = [ring EXCEPT ![next] = arg[t]] /\ ~misused /\ pc[t] = "record"
        /\ pc' = [pc EXCEPT ![t] = "give"] /\ arg' = arg /\ where' = where
    BY <1>7 DEF Record, Recorded, Step
  <2>2. \A q \in Pointers : InRing(q)' => InRing(q) \/ q = arg[t]
    BY <2>1 DEF InRing, Types
  <2>3. \A u \in Threads : u # t /\ pc[u] # "idle" => arg[u] # arg[t] /\ arg[u] \in Pointers
    BY <2>1 DEF OneLife, Types
  <2> QED BY <2>1, <2>2, <2>3 DEF OneLife, Types
<1>8. ASSUME NEW t \in Threads, Give(t) PROVE OneLife'
  <2>1. ring' = ring /\ ~misused /\ pc[t] = "give" /\ arg[t] \in Pointers
        /\ pc' = [pc EXCEPT ![t] = "idle"] /\ arg' = [arg EXCEPT ![t] = Null]
        /\ where' = [where EXCEPT ![arg[t]] = "arena"]
    BY <1>8 DEF Give, Step, Types
  <2>2. \A u \in Threads : u # t /\ pc[u] # "idle" => arg[u] # arg[t] /\ arg[u] \in Pointers
    BY <2>1 DEF OneLife, Types
  <2> QED BY <2>1, <2>2 DEF OneLife, InRing, Types
<1> QED BY <1>1, <1>2, <1>3, <1>4, <1>5, <1>6, <1>7, <1>8 DEF Next, ThreadStep, Halted

-----------------------------------------------------------------------------
(* The theorems. *)

\* The inductive invariant.
THEOREM Invariance == Spec => []IInv
<1>1. IInv /\ [Next]_vars => IInv'
  BY TypesStep, PlacedStep, OneLifeStep DEF IInv
<1> QED BY <1>1, InitIInv, PTL DEF Spec

\* A correct program is never told of a double free, whatever its threads do.
THEOREM NeverAccused == Spec => []NoFalseAlarm
<1>1. IInv => NoFalseAlarm
  BY DEF IInv, OneLife, NoFalseAlarm
<1> QED BY <1>1, Invariance, PTL

\* The ring is a window on exactly the last Window records that were not forgotten.
THEOREM ExactWindow == Spec => []WindowExact
<1>1. IInv => WindowExact
  <2> SUFFICES ASSUME Types, AgesPlaced, NEW p \in Pointers
               PROVE  InRing(p) <=> age[p] < Window
    BY DEF IInv, WindowExact
  <2>1. InRing(p) => age[p] < Window
    <3> SUFFICES ASSUME NEW i \in Indices, ring[i] = p PROVE age[p] < Window
      BY DEF InRing
    <3>1. age[p] <= Back(next, i) /\ Back(next, i) < Window /\ Back(next, i) \in Nat /\ age[p] \in Nat
      <4>1. age[p] <= Back(next, i) /\ age[p] \in Nat /\ next \in Indices
        BY RingAssumption DEF AgesPlaced, Types
      <4>2. Back(next, i) \in Indices
        BY <4>1, BackFacts
      <4> QED BY <4>1, <4>2, RingAssumption DEF Indices
    <3> QED BY <3>1, RingAssumption
  <2>2. age[p] < Window => InRing(p)
    <3> SUFFICES ASSUME age[p] < Window PROVE InRing(p)
      OBVIOUS
    <3>1. Back(next, age[p]) \in Indices
      <4>1. age[p] \in Indices /\ next \in Indices
        BY RingAssumption DEF Types, Indices
      <4> QED BY <4>1, BackFacts
    <3> QED BY <3>1 DEF AgesPlaced, InRing
  <2> QED BY <2>1, <2>2
<1> QED BY <1>1, Invariance, PTL
=============================================================================
