-------------------------- MODULE RemoteFreeProofs --------------------------
(***************************************************************************)
(* Proofs about RemoteFree: for any number of objects and of threads, the  *)
(* lock-free stack and its drain lose no object, double none and overwrite *)
(* no link, and freeing across threads implements PendingFrees.            *)
(*                                                                         *)
(* The argument never follows a list object by object.  Reach is the least *)
(* set closed under the links, so it is the same under any store outside   *)
(* it; a push adds one object to it and a pop takes one away, as long as   *)
(* the list is straight.                                                   *)
(***************************************************************************)
EXTENDS RemoteFree, TLAPS

-----------------------------------------------------------------------------
(* Lists, as the sets their links reach *)

\* What Reach is: the least set that has x and is closed under the links.
LEMMA ReachIsLeast ==
  ASSUME NEW w, NEW x
  PROVE  /\ Reach(w, x) \subseteq Objects
         /\ x \notin Objects => Reach(w, x) = {}
         /\ x \in Objects => x \in Reach(w, x)
         /\ Closed(w, Reach(w, x))
         /\ \A S \in SUBSET Objects : x \in S /\ Closed(w, S) => Reach(w, x) \subseteq S
  BY DEF Reach, Closed

\* A list is its first object and the list of the next.
LEMMA ReachNext ==
  ASSUME NEW w, NEW x \in Objects
  PROVE  Reach(w, x) = {x} \union Reach(w, w[x])
<1> DEFINE S == {x} \union Reach(w, w[x])
<1>1. Closed(w, S)
  <2> SUFFICES ASSUME NEW o \in S, w[o] \in Objects PROVE w[o] \in S
    BY DEF Closed
  <2>1. CASE o = x
    BY <2>1, ReachIsLeast
  <2>2. CASE o \in Reach(w, w[x])
    <3>1. Closed(w, Reach(w, w[x]))
      BY ReachIsLeast
    <3> QED BY <2>2, <3>1 DEF Closed
  <2> QED BY <2>1, <2>2
<1>2. S \in SUBSET Objects
  BY ReachIsLeast
<1>3. Reach(w, x) \subseteq S
  <2> HIDE DEF S
  <2>1. x \in S
    BY DEF S
  <2> QED BY <1>1, <1>2, <2>1, ReachIsLeast
<1>4. x \in Reach(w, x) /\ Closed(w, Reach(w, x)) /\ Reach(w, x) \in SUBSET Objects
  BY ReachIsLeast
<1>5. Reach(w, w[x]) \subseteq Reach(w, x)
  <2>1. CASE w[x] \in Objects
    <3>1. w[x] \in Reach(w, x)
      BY <1>4, <2>1 DEF Closed
    <3> QED BY <3>1, <1>4, ReachIsLeast
  <2>2. CASE w[x] \notin Objects
    BY <2>2, ReachIsLeast
  <2> QED BY <2>1, <2>2
<1> QED BY <1>3, <1>4, <1>5

\* The list from any object of a list is part of it.
LEMMA ReachTransitive ==
  ASSUME NEW w, NEW x, NEW y \in Reach(w, x)
  PROVE  y \in Objects /\ Reach(w, y) \subseteq Reach(w, x) /\ Reach(w, w[y]) \subseteq Reach(w, x)
<1>1. Closed(w, Reach(w, x)) /\ Reach(w, x) \in SUBSET Objects /\ y \in Objects
  BY ReachIsLeast
<1>2. Reach(w, y) \subseteq Reach(w, x)
  BY <1>1, ReachIsLeast
<1>3. Reach(w, w[y]) \subseteq Reach(w, y)
  BY <1>1, ReachNext
<1> QED BY <1>1, <1>2, <1>3

\* Stores to objects that are not on a list leave it as it is.
LEMMA ReachSame ==
  ASSUME NEW w, NEW v, NEW x, \A o \in Reach(w, x) : v[o] = w[o]
  PROVE  Reach(v, x) = Reach(w, x)
<1>1. /\ Closed(w, Reach(w, x)) /\ Reach(w, x) \in SUBSET Objects
      /\ Closed(v, Reach(v, x)) /\ Reach(v, x) \in SUBSET Objects
      /\ x \notin Objects => Reach(w, x) = {} /\ Reach(v, x) = {}
      /\ x \in Objects => x \in Reach(w, x) /\ x \in Reach(v, x)
  BY ReachIsLeast
<1>2. Closed(v, Reach(w, x))
  BY <1>1 DEF Closed
<1>3. Reach(v, x) \subseteq Reach(w, x)
  BY <1>1, <1>2, ReachIsLeast
<1>4. Closed(w, Reach(v, x))
  BY <1>1, <1>3 DEF Closed
<1>5. Reach(w, x) \subseteq Reach(v, x)
  BY <1>1, <1>4, ReachIsLeast
<1> QED BY <1>3, <1>5

\* ... and it stays straight.
LEMMA StraightSame ==
  ASSUME NEW w, NEW v, NEW x, Straight(w, x), \A o \in Reach(w, x) : v[o] = w[o]
  PROVE  Straight(v, x) /\ Reach(v, x) = Reach(w, x)
<1>1. Reach(v, x) = Reach(w, x)
  BY ReachSame
<1>2. ASSUME NEW y \in Reach(v, x)
      PROVE  v[y] \in Objects \union {Null} /\ y \notin Reach(v, v[y])
  <2>1. y \in Reach(w, x) /\ v[y] = w[y]
    BY <1>1
  <2>2. Reach(w, w[y]) \subseteq Reach(w, x)
    BY <2>1, ReachTransitive
  <2>3. \A o \in Reach(w, w[y]) : v[o] = w[o]
    BY <2>2
  <2>4. Reach(v, w[y]) = Reach(w, w[y])
    BY <2>3, ReachSame
  <2> QED BY <2>1, <2>4 DEF Straight
<1> QED BY <1>1, <1>2 DEF Straight

\* A push: the object's word is set to the head, and the object becomes the head.
LEMMA Pushed ==
  ASSUME NEW w, NEW v, NEW x \in Objects \union {Null}, NEW z \in Objects, Straight(w, x),
         z \notin Reach(w, x), v[z] = x, \A o \in Reach(w, x) : v[o] = w[o]
  PROVE  Reach(v, z) = Reach(w, x) \union {z} /\ Straight(v, z)
<1>1. Straight(v, x) /\ Reach(v, x) = Reach(w, x)
  BY StraightSame
<1>2. Reach(v, z) = {z} \union Reach(v, x)
  BY ReachNext
<1> QED BY <1>1, <1>2 DEF Straight

\* A pop: what is left is the list of the next object.
LEMMA Popped ==
  ASSUME NEW w, NEW x \in Objects, Straight(w, x)
  PROVE  /\ x \in Reach(w, x) /\ w[x] \in Objects \union {Null}
         /\ Reach(w, w[x]) = Reach(w, x) \ {x} /\ Straight(w, w[x])
<1>1. Reach(w, x) = {x} \union Reach(w, w[x])
  BY ReachNext
<1>2. x \notin Reach(w, w[x]) /\ w[x] \in Objects \union {Null}
  BY <1>1 DEF Straight
<1>3. Straight(w, w[x])
  BY <1>1 DEF Straight
<1> QED BY <1>1, <1>2, <1>3

\* An empty list.
LEMMA NoList == \A w : Reach(w, Null) = {} /\ Straight(w, Null)
  BY WordAssumption, ReachIsLeast DEF Straight

-----------------------------------------------------------------------------
(* The steps *)

\* What has been given back and not been freed yet.
Pending == InFlight \union Chain(head) \union Chain(cursor)

\* No object is freed in two pushes at once.
LEMMA InFlightFacts ==
  ASSUME TypeOK
  PROVE  /\ InFlight \subseteq Objects
         /\ \A t \in Remotes : arg[t] # Null => arg[t] \in InFlight
  BY DEF TypeOK, InFlight

\* Steps that store to no list: the lists stay as they are.
LEMMA SameLists ==
  ASSUME ListsStraight, UNCHANGED <<list, head, cursor>>,
         \A o \in Reach(word, list) \union Reach(word, head) \union Reach(word, cursor) :
           word'[o] = word[o]
  PROVE  /\ Reach(word', list') = Reach(word, list)
         /\ Reach(word', head') = Reach(word, head)
         /\ Reach(word', cursor') = Reach(word, cursor)
         /\ ListsStraight'
<1>1. /\ Reach(word', list) = Reach(word, list) /\ Straight(word', list)
      /\ Reach(word', head) = Reach(word, head) /\ Straight(word', head)
      /\ Reach(word', cursor) = Reach(word, cursor) /\ Straight(word', cursor)
  BY StraightSame DEF ListsStraight
<1> QED BY <1>1 DEF ListsStraight

\* The holder writes where no list passes.
LEMMA WriteStep ==
  ASSUME IInv, NEW x \in Objects, Write(x)
  PROVE  IInv' /\ UNCHANGED <<Pending, Chain(list), holder>>
<1>1. /\ x \in DOMAIN holder /\ word' = [word EXCEPT ![x] = Data]
      /\ UNCHANGED <<head, list, magic, pc, arg, seen, counter, cursor, retried, holder>>
  BY DEF Write, remoteVars, ownerVars
<1>2. word \in [Objects -> Words] /\ \A o \in Objects \ {x} : word'[o] = word[o]
  BY <1>1 DEF IInv, TypeOK
<1>3. x \notin Reach(word, list) \union Reach(word, head) \union Reach(word, cursor) \union InFlight
  BY <1>1 DEF IInv, AllApart, Apart
<1>4. /\ Reach(word', list') = Reach(word, list)
      /\ Reach(word', head') = Reach(word, head)
      /\ Reach(word', cursor') = Reach(word, cursor)
      /\ ListsStraight'
  <2>1. \A o \in Reach(word, list) \union Reach(word, head) \union Reach(word, cursor) : word'[o] = word[o]
    BY <1>2, <1>3, ReachIsLeast
  <2> QED BY <2>1, <1>1, SameLists DEF IInv
<1>5. InFlight' = InFlight
  BY <1>1 DEF InFlight
<1>6. TypeOK'
  BY <1>1 DEF IInv, TypeOK, Words
<1>7. AllApart'
  BY <1>1, <1>4, <1>5 DEF IInv, AllApart
<1>8. NeverPanics'
  BY <1>1, <1>4, <1>5 DEF IInv, NeverPanics, Chain
<1>9. PushOK'
  <2>1. \A t \in Remotes : arg[t] # Null => word'[arg[t]] = word[arg[t]]
    BY <1>2, <1>3, InFlightFacts DEF IInv
  <2>2. \A t \in Remotes : pc[t] = "swap" => arg[t] # Null
    BY DEF IInv, PushOK
  <2> QED BY <2>1, <2>2, <1>1 DEF IInv, PushOK
<1>10. OwnerOK'
  BY <1>1 DEF IInv, OwnerOK
<1> QED BY <1>1, <1>4, <1>5, <1>6, <1>7, <1>8, <1>9, <1>10 DEF IInv, Pending, Chain

\* sigma_free on another thread: the object leaves its holder for the push.
LEMMA RemoteFreeCallStep ==
  ASSUME IInv, NEW t \in Remotes, NEW x \in Objects, RemoteFreeCall(t, x)
  PROVE  /\ IInv' /\ x \in DOMAIN holder /\ holder' = LetGo(x)
         /\ Pending' = Pending \union {x} /\ Chain(list)' = Chain(list)
<1>1. /\ pc[t] = "idle" /\ x \in DOMAIN holder /\ holder' = LetGo(x)
      /\ arg' = [arg EXCEPT ![t] = x] /\ pc' = [pc EXCEPT ![t] = "load"]
      /\ UNCHANGED <<head, word, list, magic, seen, counter, cursor, retried>>
  BY DEF RemoteFreeCall, ownerVars, Goto
<1>2. /\ arg \in [Remotes -> Objects \union {Null}] /\ t \in Threads /\ t # Owner
      /\ pc \in [Threads -> {"idle", "load", "link", "swap", "alloc", "drain"}]
      /\ arg[t] = Null
  BY <1>1, ThreadAssumption DEF IInv, TypeOK, Threads, PushOK
<1>3. /\ \A u \in Remotes : arg'[u] = IF u = t THEN x ELSE arg[u]
      /\ \A u \in Threads : pc'[u] = IF u = t THEN "load" ELSE pc[u]
  BY <1>1, <1>2
<1>4. InFlight' = InFlight \union {x}
  BY <1>2, <1>3, WordAssumption DEF InFlight
<1>5. DOMAIN holder' = DOMAIN holder \ {x} /\ holder' \in [DOMAIN holder' -> Threads]
  BY <1>1 DEF LetGo, IInv, TypeOK
<1>6. TypeOK'
  BY <1>1, <1>2, <1>5 DEF IInv, TypeOK
<1>7. AllApart'
  <2>1. x \notin InFlight
    BY <1>1 DEF IInv, AllApart, Apart
  <2>2. \A u \in Remotes : arg[u] # x
    BY <2>1, WordAssumption, InFlightFacts DEF IInv
  <2>3. \A u, v \in Remotes : u # v /\ arg'[u] # Null => arg'[u] # arg'[v]
    BY <2>2, <1>3 DEF IInv, AllApart
  <2> QED BY <2>3, <1>1, <1>4, <1>5 DEF IInv, AllApart, Apart
<1>8. NeverPanics'
  BY <1>1, <1>4, <1>5 DEF IInv, NeverPanics, Chain
<1>9. ListsStraight'
  BY <1>1 DEF IInv, ListsStraight
<1>10. PushOK' /\ OwnerOK'
  <2>1. x # Null /\ Remotes \subseteq Threads /\ Owner \in Threads
    BY WordAssumption DEF Threads
  <2> QED BY <2>1, <1>1, <1>2, <1>3 DEF IInv, PushOK, OwnerOK
<1>11. Pending' = Pending \union {x} /\ Chain(list)' = Chain(list)
  BY <1>1, <1>4 DEF Pending, Chain
<1> QED BY <1>1, <1>6, <1>7, <1>8, <1>9, <1>10, <1>11 DEF IInv

\* The push before its swap succeeds: no list and no object moves.
LEMMA PushingStep ==
  ASSUME IInv, NEW t \in Remotes, Load(t) \/ SwapFails(t)
  PROVE  IInv' /\ UNCHANGED <<Pending, Chain(list), holder>>
<1>1. /\ UNCHANGED <<head, word, list, magic, arg, counter, cursor, retried, holder>>
      /\ \/ seen' = [seen EXCEPT ![t] = head] /\ pc[t] = "load" /\ pc' = [pc EXCEPT ![t] = "link"]
         \/ seen' = seen /\ pc[t] = "swap" /\ pc' = [pc EXCEPT ![t] = "load"]
  BY DEF Load, SwapFails, ownerVars, remoteVars, Goto
<1>2. /\ seen \in [Remotes -> Objects \union {Null}] /\ t \in Threads /\ t # Owner
      /\ pc \in [Threads -> {"idle", "load", "link", "swap", "alloc", "drain"}]
      /\ head \in Objects \union {Null} /\ Remotes \subseteq Threads /\ Owner \in Threads
  BY ThreadAssumption DEF IInv, TypeOK, Threads
<1>3. TypeOK'
  BY <1>1, <1>2 DEF IInv, TypeOK
<1>4. AllApart' /\ NeverPanics' /\ ListsStraight' /\ InFlight' = InFlight
  BY <1>1 DEF IInv, AllApart, NeverPanics, ListsStraight, InFlight, Chain
<1>5. PushOK'
  <2>1. \A u \in Remotes : u # t => pc'[u] = pc[u] /\ seen'[u] = seen[u]
    BY <1>1, <1>2
  <2>2. pc'[t] \in {"load", "link"} /\ pc[t] # "idle"
    BY <1>1, <1>2
  <2> QED BY <2>1, <2>2, <1>1 DEF IInv, PushOK
<1>6. OwnerOK'
  BY <1>1, <1>2 DEF IInv, OwnerOK
<1> QED BY <1>1, <1>3, <1>4, <1>5, <1>6 DEF IInv, Pending, Chain

\* The push stores the head it saw into its own object, which is on no list.
LEMMA LinkStep ==
  ASSUME IInv, NEW t \in Remotes, Link(t)
  PROVE  IInv' /\ UNCHANGED <<Pending, Chain(list), holder>>
<1>1. /\ UNCHANGED <<head, list, magic, arg, seen, counter, cursor, retried, holder>>
      /\ pc[t] = "link" /\ pc' = [pc EXCEPT ![t] = "swap"]
      /\ word' = [word EXCEPT ![arg[t]] = seen[t]]
  BY DEF Link, LinkWord, ownerVars, remoteVars, Goto
<1>2. /\ seen \in [Remotes -> Objects \union {Null}] /\ t \in Threads /\ t # Owner
      /\ pc \in [Threads -> {"idle", "load", "link", "swap", "alloc", "drain"}]
      /\ Remotes \subseteq Threads /\ Owner \in Threads /\ word \in [Objects -> Words]
  BY ThreadAssumption DEF IInv, TypeOK, Threads
<1>3. arg[t] \in InFlight /\ arg[t] \in Objects /\ arg[t] # Null
  BY <1>1, InFlightFacts DEF IInv, PushOK
<1>4. \A o \in Objects : word'[o] = IF o = arg[t] THEN seen[t] ELSE word[o]
  BY <1>1, <1>2
<1>5. TypeOK'
  BY <1>1, <1>2, <1>3 DEF IInv, TypeOK, Words
<1>6. /\ Reach(word', list') = Reach(word, list)
      /\ Reach(word', head') = Reach(word, head)
      /\ Reach(word', cursor') = Reach(word, cursor)
      /\ ListsStraight'
  <2>1. arg[t] \notin Reach(word, list) \union Reach(word, head) \union Reach(word, cursor)
    BY <1>3 DEF IInv, AllApart, Apart
  <2>2. \A o \in Reach(word, list) \union Reach(word, head) \union Reach(word, cursor) : word'[o] = word[o]
    BY <2>1, <1>4, ReachIsLeast
  <2> QED BY <2>2, <1>1, SameLists DEF IInv
<1>7. InFlight' = InFlight
  BY <1>1 DEF InFlight
<1>8. AllApart' /\ NeverPanics'
  BY <1>1, <1>6, <1>7 DEF IInv, AllApart, NeverPanics, Chain
<1>9. PushOK'
  <2>1. \A u \in Remotes : pc'[u] = IF u = t THEN "swap" ELSE pc[u]
    BY <1>1, <1>2
  <2>2. \A u \in Remotes : u # t /\ arg[u] # Null => arg[u] \in Objects /\ arg[u] # arg[t]
    BY InFlightFacts DEF IInv, AllApart
  <2>3. \A u \in Remotes : u # t /\ arg[u] # Null => word'[arg[u]] = word[arg[u]]
    BY <2>2, <1>4
  <2>4. word'[arg[t]] = seen[t]
    BY <1>3, <1>4
  <2> QED BY <2>1, <2>3, <2>4, <1>1, <1>3 DEF IInv, PushOK
<1>10. OwnerOK'
  BY <1>1, <1>2 DEF IInv, OwnerOK
<1> QED BY <1>1, <1>5, <1>6, <1>7, <1>8, <1>9, <1>10 DEF IInv, Pending, Chain

\* The swap: the object joins the stack in front of the head it was linked to,
\* which is the head again, even if it has been popped and pushed meanwhile.
LEMMA SwapStep ==
  ASSUME IInv, NEW t \in Remotes, SwapSucceeds(t)
  PROVE  IInv' /\ UNCHANGED <<Pending, Chain(list), holder>>
<1>1. /\ UNCHANGED <<word, list, magic, counter, cursor, retried, holder>>
      /\ pc[t] = "swap" /\ pc' = [pc EXCEPT ![t] = "idle"]
      /\ head = seen[t] /\ head' = arg[t]
      /\ arg' = [arg EXCEPT ![t] = Null] /\ seen' = [seen EXCEPT ![t] = Null]
  BY DEF SwapSucceeds, HeadIsSeen, ownerVars, Goto
<1>2. /\ seen \in [Remotes -> Objects \union {Null}] /\ t \in Threads /\ t # Owner
      /\ arg \in [Remotes -> Objects \union {Null}] /\ head \in Objects \union {Null}
      /\ pc \in [Threads -> {"idle", "load", "link", "swap", "alloc", "drain"}]
      /\ Remotes \subseteq Threads /\ Owner \in Threads
  BY ThreadAssumption DEF IInv, TypeOK, Threads
<1>3. /\ arg[t] \in InFlight /\ arg[t] \in Objects /\ arg[t] # Null
      /\ word[arg[t]] = head
  BY <1>1, InFlightFacts DEF IInv, PushOK
<1>4. \A u \in Remotes : /\ arg'[u] = IF u = t THEN Null ELSE arg[u]
                         /\ pc'[u] = IF u = t THEN "idle" ELSE pc[u]
                         /\ seen'[u] = IF u = t THEN Null ELSE seen[u]
  BY <1>1, <1>2
<1>5. InFlight' = InFlight \ {arg[t]}
  <2>1. \A u \in Remotes : u # t => arg[u] # arg[t]
    BY <1>3 DEF IInv, AllApart
  <2> QED BY <2>1, <1>3, <1>4 DEF InFlight
<1>6. Reach(word', head') = Reach(word, head) \union {arg[t]} /\ Straight(word', head')
  <2>1. arg[t] \notin Reach(word, head) /\ Straight(word, head)
    BY <1>3 DEF IInv, AllApart, Apart, ListsStraight
  <2> QED BY <2>1, <1>1, <1>2, <1>3, Pushed
<1>7. ListsStraight'
  BY <1>1, <1>6 DEF IInv, ListsStraight
<1>8. TypeOK'
  BY <1>1, <1>2, <1>3 DEF IInv, TypeOK
<1>9. AllApart'
  <2>1. \A u, v \in Remotes : u # v /\ arg'[u] # Null => arg'[u] # arg'[v]
    BY <1>4 DEF IInv, AllApart
  <2> QED BY <2>1, <1>1, <1>3, <1>5, <1>6 DEF IInv, AllApart, Apart
<1>10. NeverPanics'
  BY <1>1, <1>3, <1>5, <1>6 DEF IInv, NeverPanics, Chain
<1>11. PushOK' /\ OwnerOK'
  BY <1>1, <1>2, <1>4 DEF IInv, PushOK, OwnerOK
<1>12. Pending' = Pending /\ Chain(list)' = Chain(list)
  BY <1>1, <1>3, <1>5, <1>6 DEF Pending, Chain
<1> QED BY <1>1, <1>7, <1>8, <1>9, <1>10, <1>11, <1>12 DEF IInv
\* slab_free_local: the slot joins the free list; what is on the stack, and in the
\* pushes, is not touched.
LEMMA Freed ==
  ASSUME IInv, NEW x \in Objects, FreeSlot(x), UNCHANGED <<head, pc, arg, seen>>,
         x \notin Reach(word, list) \union Reach(word, head) \union InFlight
  PROVE  /\ word' \in [Objects -> Words] /\ magic' \in [Objects -> BOOLEAN] /\ list' = x
         /\ \A o \in Objects \ {x} : word'[o] = word[o] /\ magic'[o] = magic[o]
         /\ Reach(word', list') = Reach(word, list) \union {x} /\ Straight(word', list')
         /\ Reach(word', head') = Reach(word, head) /\ Straight(word', head')
         /\ InFlight' = InFlight /\ PushOK'
<1>1. /\ word' = [word EXCEPT ![x] = list] /\ magic' = [magic EXCEPT ![x] = FALSE] /\ list' = x
      /\ word \in [Objects -> Words] /\ magic \in [Objects -> BOOLEAN]
      /\ list \in Objects \union {Null}
  BY DEF FreeSlot, IInv, TypeOK
<1>2. /\ word' \in [Objects -> Words] /\ magic' \in [Objects -> BOOLEAN] /\ word'[x] = list
      /\ \A o \in Objects \ {x} : word'[o] = word[o] /\ magic'[o] = magic[o]
  BY <1>1 DEF Words
<1>3. Reach(word', list') = Reach(word, list) \union {x} /\ Straight(word', list')
  <2>1. \A o \in Reach(word, list) : word'[o] = word[o]
    BY <1>2, ReachIsLeast
  <2>2. Straight(word, list) /\ x \notin Reach(word, list)
    BY DEF IInv, ListsStraight
  <2>3. Reach(word', x) = Reach(word, list) \union {x} /\ Straight(word', x)
    <3>1. list \in Objects \union {Null} /\ word'[x] = list
      BY <1>1, <1>2
    <3> QED BY ONLY <2>1, <2>2, <3>1, x \in Objects, Pushed
  <2> QED BY <2>3, <1>1
<1>4. Reach(word', head') = Reach(word, head) /\ Straight(word', head')
  <2>1. \A o \in Reach(word, head) : word'[o] = word[o]
    BY <1>2, ReachIsLeast
  <2> QED BY <2>1, StraightSame DEF IInv, ListsStraight
<1>5. InFlight' = InFlight
  BY DEF InFlight
<1>6. PushOK'
  <2>1. \A t \in Remotes : arg[t] # Null => word'[arg[t]] = word[arg[t]]
    BY <1>2, InFlightFacts DEF IInv
  <2> QED BY <2>1 DEF IInv, PushOK
<1> QED BY <1>1, <1>2, <1>3, <1>4, <1>5, <1>6

\* sigma_free on the owner's thread.
LEMMA LocalFreeStep ==
  ASSUME IInv, NEW x \in Objects, LocalFree(x)
  PROVE  /\ IInv' /\ x \in DOMAIN holder /\ holder' = LetGo(x)
         /\ Pending' = Pending /\ Chain(list)' = Chain(list) \union {x}
<1>1. /\ pc[Owner] = "idle" /\ x \in DOMAIN holder /\ holder' = LetGo(x) /\ FreeSlot(x)
      /\ UNCHANGED <<head, pc, arg, seen, counter, cursor, retried>>
  BY DEF LocalFree, remoteVars, ownerVars
<1>2. x \notin Reach(word, list) \union Reach(word, head) \union Reach(word, cursor) \union InFlight
  BY <1>1 DEF IInv, AllApart, Apart
<1>3. /\ word' \in [Objects -> Words] /\ magic' \in [Objects -> BOOLEAN] /\ list' = x
      /\ \A o \in Objects \ {x} : word'[o] = word[o] /\ magic'[o] = magic[o]
      /\ Reach(word', list') = Reach(word, list) \union {x} /\ Straight(word', list')
      /\ Reach(word', head') = Reach(word, head) /\ Straight(word', head')
      /\ InFlight' = InFlight /\ PushOK'
  BY <1>1, <1>2, Freed
<1>4. cursor = Null
  BY <1>1 DEF IInv, OwnerOK
<1>5. Reach(word', cursor') = {} /\ Reach(word, cursor) = {} /\ Straight(word', cursor')
  BY <1>1, <1>4, NoList
<1>6. DOMAIN holder' = DOMAIN holder \ {x} /\ holder' \in [DOMAIN holder' -> Threads]
  BY <1>1 DEF LetGo, IInv, TypeOK
<1>7. TypeOK'
  BY <1>1, <1>3, <1>6 DEF IInv, TypeOK
<1>8. AllApart'
  <2>1. \A t, u \in Remotes : t # u /\ arg'[t] # Null => arg'[t] # arg'[u]
    BY <1>1 DEF IInv, AllApart
  <2> QED BY <2>1, <1>1, <1>2, <1>3, <1>5, <1>6 DEF IInv, AllApart, Apart
<1>9. NeverPanics'
  BY <1>1, <1>2, <1>3, <1>5, <1>6 DEF IInv, NeverPanics, Chain
<1>10. ListsStraight' /\ OwnerOK'
  BY <1>1, <1>3, <1>5 DEF IInv, ListsStraight, OwnerOK
<1> QED BY <1>1, <1>3, <1>5, <1>7, <1>8, <1>9, <1>10 DEF IInv, Pending, Chain

\* The exchange: the whole stack becomes the list of the drain, which has none.
LEMMA Taken ==
  ASSUME IInv, cursor = Null, TakeStack, UNCHANGED <<word, list>>
  PROVE  /\ Reach(word', list') = Reach(word, list) /\ Reach(word', head') = {}
         /\ Reach(word', cursor') = Reach(word, head) /\ Reach(word, cursor) = {}
         /\ ListsStraight'
<1>1. cursor' = head /\ head' = Null
  BY DEF TakeStack
<1> QED BY <1>1, NoList DEF IInv, ListsStraight

\* arena_alloc before it looks for a slot: it may start a drain.
LEMMA OwnerStep ==
  ASSUME IInv, AllocCall \/ AllocRetry \/ DrainDone \/ AllocRefuse
  PROVE  IInv' /\ UNCHANGED <<Pending, Chain(list), holder>>
<1>1. UNCHANGED <<word, list, magic, arg, seen, holder>>
  BY DEF AllocCall, AllocRetry, DrainDone, AllocRefuse, AllocEnds, remoteVars, ownerVars
<1>2. /\ pc \in [Threads -> {"idle", "load", "link", "swap", "alloc", "drain"}]
      /\ Remotes \subseteq Threads /\ Owner \in Threads /\ Owner \notin Remotes
      /\ head \in Objects \union {Null} /\ cursor \in Objects \union {Null}
      /\ counter \in 0..(Interval - 1) /\ retried \in BOOLEAN
  BY ThreadAssumption DEF IInv, TypeOK, Threads
<1>3. /\ counter' \in 0..(Interval - 1) /\ retried' \in BOOLEAN
      /\ \E at \in {"idle", "alloc", "drain"} :
           /\ pc' = [pc EXCEPT ![Owner] = at]
           /\ \/ at = "drain" /\ cursor = Null /\ TakeStack
              \/ cursor = Null /\ UNCHANGED <<head, cursor>>
  <2>1. CASE AllocCall
    <3>1. Tick \in 0..(Interval - 1)
      BY <1>2, IntervalAssumption DEF Tick
    <3>2. cursor = Null
      BY <2>1 DEF AllocCall, IInv, OwnerOK
    <3>3. CASE DrainDue(Tick)
      BY <2>1, <3>1, <3>2, <3>3, <1>2 DEF AllocCall, Goto
    <3>4. CASE ~DrainDue(Tick)
      BY <2>1, <3>1, <3>2, <3>4, <1>2 DEF AllocCall, Goto
    <3> QED BY <3>3, <3>4
  <2>2. CASE AllocRetry
    <3>1. cursor = Null
      BY <2>2 DEF AllocRetry, IInv, OwnerOK
    <3> QED BY <2>2, <3>1, <1>2 DEF AllocRetry, Goto
  <2>3. CASE DrainDone
    BY <2>3, <1>2 DEF DrainDone, Goto, ownerVars
  <2>4. CASE AllocRefuse
    <3>1. cursor = Null
      BY <2>4 DEF AllocRefuse, IInv, OwnerOK
    <3> QED BY <2>4, <3>1, <1>2 DEF AllocRefuse, AllocEnds, Goto
  <2> QED BY <2>1, <2>2, <2>3, <2>4
<1>4. PICK at \in {"idle", "alloc", "drain"} :
        /\ pc' = [pc EXCEPT ![Owner] = at]
        /\ \/ at = "drain" /\ cursor = Null /\ TakeStack
           \/ cursor = Null /\ UNCHANGED <<head, cursor>>
  BY <1>3
<1>5. /\ pc' \in [Threads -> {"idle", "load", "link", "swap", "alloc", "drain"}]
      /\ pc'[Owner] = at /\ \A t \in Remotes : pc'[t] = pc[t]
  BY <1>2, <1>4
<1>6. InFlight' = InFlight
  BY <1>1 DEF InFlight
<1>7. /\ Reach(word', list') = Reach(word, list) /\ ListsStraight'
      /\ Reach(word', head') \union Reach(word', cursor') = Reach(word, head) \union Reach(word, cursor)
      /\ Reach(word', head') \intersect Reach(word', cursor') = {}
  <2>1. CASE TakeStack
    BY <2>1, <1>1, <1>4, Taken
  <2>2. CASE UNCHANGED <<head, cursor>>
    BY <2>2, <1>1 DEF IInv, ListsStraight, AllApart, Apart
  <2> QED BY <2>1, <2>2, <1>4
<1>8. TypeOK'
  <2>1. head' \in Objects \union {Null} /\ cursor' \in Objects \union {Null}
    BY <1>2, <1>4 DEF TakeStack
  <2> QED BY <2>1, <1>1, <1>3, <1>5 DEF IInv, TypeOK
<1>9. AllApart'
  <2>1. \A t, u \in Remotes : t # u /\ arg'[t] # Null => arg'[t] # arg'[u]
    BY <1>1 DEF IInv, AllApart
  <2> QED BY <2>1, <1>1, <1>6, <1>7 DEF IInv, AllApart, Apart
<1>10. NeverPanics'
  BY <1>1, <1>6, <1>7 DEF IInv, NeverPanics, Chain
<1>11. PushOK'
  BY <1>1, <1>5 DEF IInv, PushOK
<1>12. OwnerOK'
  BY <1>4, <1>5 DEF OwnerOK
<1> QED BY <1>1, <1>6, <1>7, <1>8, <1>9, <1>10, <1>11, <1>12 DEF IInv, Pending, Chain

\* One turn of the drain: the object is freed and the drain is at the next.
LEMMA DrainOneStep ==
  ASSUME IInv, DrainOne
  PROVE  /\ IInv' /\ cursor \in Pending /\ holder' = holder
         /\ Pending' = Pending \ {cursor} /\ Chain(list)' = Chain(list) \union {cursor}
<1>1. /\ pc[Owner] = "drain" /\ cursor \in Objects /\ FreeSlot(cursor) /\ cursor' = word[cursor]
      /\ UNCHANGED <<head, pc, arg, seen, counter, retried, holder>>
  BY DEF DrainOne, remoteVars, NextInStack, IInv, TypeOK
<1>2. /\ cursor \in Reach(word, cursor) /\ word[cursor] \in Objects \union {Null}
      /\ Reach(word, word[cursor]) = Reach(word, cursor) \ {cursor} /\ Straight(word, word[cursor])
  BY <1>1, Popped DEF IInv, ListsStraight
<1>3. cursor \notin Reach(word, list) \union Reach(word, head) \union InFlight \union DOMAIN holder
  BY <1>2 DEF IInv, AllApart, Apart
<1>4. /\ word' \in [Objects -> Words] /\ magic' \in [Objects -> BOOLEAN] /\ list' = cursor
      /\ \A o \in Objects \ {cursor} : word'[o] = word[o] /\ magic'[o] = magic[o]
      /\ Reach(word', list') = Reach(word, list) \union {cursor} /\ Straight(word', list')
      /\ Reach(word', head') = Reach(word, head) /\ Straight(word', head')
      /\ InFlight' = InFlight /\ PushOK'
  BY <1>1, <1>3, Freed
<1>5. Reach(word', cursor') = Reach(word, cursor) \ {cursor} /\ Straight(word', cursor')
  <2>1. \A o \in Reach(word, word[cursor]) : word'[o] = word[o]
    BY <1>2, <1>4, ReachIsLeast
  <2> QED BY <2>1, <1>1, <1>2, StraightSame
<1>6. TypeOK'
  BY <1>1, <1>2, <1>4 DEF IInv, TypeOK
<1>7. AllApart'
  <2>1. \A t, u \in Remotes : t # u /\ arg'[t] # Null => arg'[t] # arg'[u]
    BY <1>1 DEF IInv, AllApart
  <2> QED BY <2>1, <1>1, <1>2, <1>3, <1>4, <1>5 DEF IInv, AllApart, Apart
<1>8. NeverPanics'
  BY <1>1, <1>3, <1>4, <1>5 DEF IInv, NeverPanics, Chain
<1>9. ListsStraight' /\ OwnerOK'
  BY <1>1, <1>4, <1>5 DEF IInv, ListsStraight, OwnerOK
<1>10. cursor \in Pending /\ Pending' = Pending \ {cursor}
  BY <1>2, <1>3, <1>4, <1>5 DEF Pending, Chain
<1> QED BY <1>1, <1>4, <1>6, <1>7, <1>8, <1>9, <1>10 DEF IInv, Chain

\* slab_alloc takes the first slot of the free list and hands it to some thread.
LEMMA AllocSlotStep ==
  ASSUME IInv, AllocSlot
  PROVE  /\ IInv' /\ list \in Chain(list) /\ (\E t \in Threads : holder' = Hold(list, t))
         /\ Pending' = Pending /\ Chain(list)' = Chain(list) \ {list}
<1>1. /\ pc[Owner] = "alloc" /\ list \in Objects /\ list' = word[list]
      /\ magic' = [magic EXCEPT ![list] = TRUE] /\ pc' = [pc EXCEPT ![Owner] = "idle"]
      /\ retried' = FALSE /\ UNCHANGED <<head, word, arg, seen, counter, cursor>>
  BY DEF AllocSlot, AllocEnds, Goto, remoteVars, IInv, TypeOK
<1>2. PICK t \in Threads : holder' = Hold(list, t)
  BY DEF AllocSlot
<1>3. /\ list \in Reach(word, list) /\ word[list] \in Objects \union {Null}
      /\ Reach(word, word[list]) = Reach(word, list) \ {list} /\ Straight(word, word[list])
  BY <1>1, Popped DEF IInv, ListsStraight
<1>4. DOMAIN holder' = DOMAIN holder \union {list} /\ holder' \in [DOMAIN holder' -> Threads]
  BY <1>2 DEF Hold, IInv, TypeOK
<1>5. /\ pc \in [Threads -> {"idle", "load", "link", "swap", "alloc", "drain"}]
      /\ Remotes \subseteq Threads /\ Owner \in Threads /\ Owner \notin Remotes
      /\ magic \in [Objects -> BOOLEAN]
  BY ThreadAssumption DEF IInv, TypeOK, Threads
<1>6. InFlight' = InFlight
  BY <1>1 DEF InFlight
<1>7. TypeOK'
  BY <1>1, <1>3, <1>4, <1>5 DEF IInv, TypeOK
<1>8. AllApart'
  <2>1. \A u, v \in Remotes : u # v /\ arg'[u] # Null => arg'[u] # arg'[v]
    BY <1>1 DEF IInv, AllApart
  <2> QED BY <2>1, <1>1, <1>3, <1>4, <1>6 DEF IInv, AllApart, Apart
<1>9. NeverPanics'
  BY <1>1, <1>4, <1>5, <1>6 DEF IInv, NeverPanics, Chain
<1>10. ListsStraight' /\ OwnerOK' /\ PushOK'
  BY <1>1, <1>3, <1>5 DEF IInv, ListsStraight, OwnerOK, PushOK
<1> QED BY <1>1, <1>2, <1>3, <1>6, <1>7, <1>8, <1>9, <1>10 DEF IInv, Pending, Chain
-----------------------------------------------------------------------------
(* The inductive invariant *)

\* Every step keeps the invariant: one lemma above for each action.
LEMMA StepIInv ==
  ASSUME IInv, [Next]_vars
  PROVE  IInv'
<1>1. ASSUME NEW x \in Objects, Write(x) PROVE IInv'
  BY <1>1, WriteStep
<1>2. ASSUME NEW x \in Objects, LocalFree(x) PROVE IInv'
  BY <1>2, LocalFreeStep
<1>3. ASSUME NEW t \in Remotes, RemoteStep(t) PROVE IInv'
  BY <1>3, PushingStep, LinkStep, SwapStep DEF RemoteStep
<1>4. ASSUME NEW t \in Remotes, NEW x \in Objects, RemoteFreeCall(t, x) PROVE IInv'
  BY <1>4, RemoteFreeCallStep
<1>5. CASE AllocStep
  BY <1>5, OwnerStep, DrainOneStep, AllocSlotStep DEF AllocStep
<1>6. CASE UNCHANGED vars
  BY <1>6 DEF vars, remoteVars, ownerVars, IInv, TypeOK, AllApart, InFlight, NeverPanics, Chain,
              ListsStraight, PushOK, OwnerOK
<1> QED BY <1>1, <1>2, <1>3, <1>4, <1>5, <1>6 DEF Next

\* slab_create's list is straight: it reaches the last slot, whose word is null, and
\* from an object that its own list came back to it could not.
LEMMA InitStraight ==
  ASSUME Init
  PROVE  Straight(word, list)
<1>1. /\ word \in [Objects -> Objects \union {Null}] /\ list \in Objects
      /\ Reach(word, list) = Objects
  BY DEF Init, Chain
<1>2. PICK last \in Objects : word[last] = Null
  BY DEF Init
<1>3. Reach(word, last) = {last}
  BY <1>2, ReachNext, NoList
<1>4. ASSUME NEW y \in Objects, y \in Reach(word, word[y])
      PROVE  FALSE
  <2> DEFINE C == Reach(word, word[y])
             A == {z \in Objects : Reach(word, z) \intersect C # {}}
             D == {z \in C : y \in Reach(word, z)}
  <2>1. C \in SUBSET Objects /\ Closed(word, C) /\ word[y] \in Objects /\ word[y] \in C /\ y \in C
    BY <1>1, <1>4, ReachIsLeast
  <2>2. last \in C
    <3>1. list \in A
      BY <1>1, <2>1
    <3>2. Closed(word, A)
      <4> SUFFICES ASSUME NEW o \in A, word[o] \in Objects
                   PROVE  Reach(word, word[o]) \intersect C # {}
        BY DEF Closed
      <4>1. PICK c \in Reach(word, o) : c \in C
        OBVIOUS
      <4>2. Reach(word, o) = {o} \union Reach(word, word[o])
        BY ReachNext
      <4>3. CASE c = o
        <5>1. word[o] \in C
          BY <4>1, <4>3, <2>1 DEF Closed
        <5> QED BY <5>1, ReachIsLeast
      <4>4. CASE c # o
        BY <4>1, <4>2, <4>4
      <4> QED BY <4>3, <4>4
    <3>3. Reach(word, list) \subseteq A
      <4>1. A \in SUBSET Objects
        OBVIOUS
      <4> HIDE DEF A
      <4> QED BY <3>1, <3>2, <4>1, <1>1, ReachIsLeast
    <3>4. last \in A
      BY <3>3, <1>1
    <3> QED BY <3>4, <1>3
  <2>3. C \subseteq D
    <3>1. word[y] \in D
      BY <2>1, <1>4
    <3>2. Closed(word, D)
      <4> SUFFICES ASSUME NEW o \in D, word[o] \in Objects
                   PROVE  word[o] \in C /\ y \in Reach(word, word[o])
        BY DEF Closed
      <4>1. word[o] \in C
        BY <2>1 DEF Closed
      <4>2. Reach(word, o) = {o} \union Reach(word, word[o])
        BY <2>1, ReachNext
      <4>3. CASE o = y
        BY <4>1, <4>3, <1>4
      <4>4. CASE o # y
        BY <4>1, <4>2, <4>4
      <4> QED BY <4>3, <4>4
    <3>3. D \in SUBSET Objects
      BY <2>1
    <3> HIDE DEF D
    <3> QED BY <3>1, <3>2, <3>3, <2>1, ReachIsLeast
  <2>4. y = last
    BY <2>2, <2>3, <1>3
  <2> QED BY <2>4, <2>1, <1>2, WordAssumption
<1> QED BY <1>1, <1>4 DEF Straight

\* Before the first call everything is on the free list.
LEMMA InitIInv ==
  ASSUME Init
  PROVE  IInv
<1>1. /\ word \in [Objects -> Objects \union {Null}] /\ list \in Objects
      /\ Reach(word, list) = Objects /\ head = Null /\ cursor = Null /\ counter = 0
      /\ magic = [o \in Objects |-> TRUE] /\ pc = [t \in Threads |-> "idle"]
      /\ arg = [t \in Remotes |-> Null] /\ seen = [t \in Remotes |-> Null]
      /\ retried = FALSE /\ holder = [x \in {} |-> Owner]
  BY DEF Init, Chain
<1>2. InFlight = {} /\ DOMAIN holder = {} /\ Reach(word, head) = {} /\ Reach(word, cursor) = {}
  BY <1>1, NoList DEF InFlight
<1>3. TypeOK
  <2>1. counter \in 0..(Interval - 1)
    BY <1>1, IntervalAssumption
  <2>2. word \in [Objects -> Words]
    BY <1>1 DEF Words
  <2>3. holder \in [DOMAIN holder -> Threads] /\ DOMAIN holder \subseteq Objects
    BY <1>1
  <2> QED BY <1>1, <2>1, <2>2, <2>3 DEF TypeOK
<1>4. AllApart
  BY <1>1, <1>2 DEF AllApart, Apart
<1>5. NeverPanics
  BY <1>1 DEF NeverPanics
<1>6. ListsStraight
  BY <1>1, InitStraight, NoList DEF ListsStraight
<1>7. PushOK /\ OwnerOK
  BY <1>1 DEF PushOK, OwnerOK, Threads
<1> QED BY <1>3, <1>4, <1>5, <1>6, <1>7 DEF IInv

\* For any number of objects and of threads, whatever the order of their steps, the
\* lists stay straight and apart, and a push about to swap has linked its object to
\* the head it saw.
THEOREM Invariance == Spec => []IInv
<1>1. Init => IInv
  BY InitIInv
<1>2. IInv /\ [Next]_vars => IInv'
  BY StepIInv
<1> QED BY <1>1, <1>2, PTL DEF Spec

\* Every variable of the stack, the drain and the pushes keeps to its values.
THEOREM TypeCorrect == Spec => []TypeOK
<1>1. IInv => TypeOK
  BY DEF IInv
<1> QED BY <1>1, Invariance, PTL

\* Every object is in exactly one place: on the free list, on the stack, with the
\* drain, in a push or with its holder.  arena_remote_free and
\* arena_drain_remote_frees lose none and double none.
THEOREM NothingLostOrDoubled == Spec => []Accounted
<1>1. IInv => Accounted
  <2> SUFFICES ASSUME IInv PROVE Accounted
    OBVIOUS
  <2> DEFINE places == <<Chain(list), Chain(head), Chain(cursor), InFlight, DOMAIN holder>>
  <2>1. /\ places[1] = Reach(word, list) /\ places[2] = Reach(word, head)
        /\ places[3] = Reach(word, cursor) /\ places[4] = InFlight /\ places[5] = DOMAIN holder
    BY DEF Chain
  <2>2. 1..5 = {1, 2, 3, 4, 5}
    OBVIOUS
  <2> HIDE DEF places
  <2>3. Apart(places[1], places[2], places[3], places[4], places[5])
    BY <2>1 DEF IInv, AllApart
  <2>4. \A i, j \in 1..5 : i # j => places[i] \intersect places[j] = {}
    BY <2>2, <2>3 DEF Apart
  <2>5. UNION {places[i] : i \in 1..5} = Objects
    <3>1. \A x : (\E i \in {1, 2, 3, 4, 5} : x \in places[i])
                 <=> x \in places[1] \union places[2] \union places[3] \union places[4] \union places[5]
      OBVIOUS
    <3> QED BY <2>2, <2>3, <3>1 DEF Apart
  <2>6. \A t, u \in Remotes : t # u /\ arg[t] # Null => arg[t] # arg[u]
    BY DEF IInv, AllApart
  <2> QED BY <2>4, <2>5, <2>6 DEF Accounted, places
<1> QED BY <1>1, Invariance, PTL

\* slab_free_local never finds a header without its magic number: the drain frees
\* no object twice, and no object that was not allocated.
THEOREM DrainNeverPanics == Spec => []NeverPanics
<1>1. IInv => NeverPanics
  BY DEF IInv
<1> QED BY <1>1, Invariance, PTL

\* No store of a user's hits the word of an object that is on a list.
THEOREM LinksKept == Spec => []LinksIntact
<1>1. IInv => LinksIntact
  <2> SUFFICES ASSUME IInv, NEW x \in Reach(word, list) \union Reach(word, head) \union Reach(word, cursor)
               PROVE  word[x] # Data
    BY DEF LinksIntact, Chain
  <2>1. word[x] \in Objects \union {Null}
    BY DEF IInv, ListsStraight, Straight
  <2> QED BY <2>1, WordAssumption
<1> QED BY <1>1, Invariance, PTL

-----------------------------------------------------------------------------
(* The refinement *)

\* Each step hands one object out, gives one back, frees one pending object, or
\* moves none.
LEMMA StepImplements ==
  ASSUME IInv, [Next]_vars
  PROVE  [Frees!Next]_Frees!runVars
<1>1. ASSUME NEW x \in Objects, Write(x) PROVE UNCHANGED <<Pending, Chain(list), holder>>
  BY <1>1, WriteStep
<1>2. ASSUME NEW x \in Objects, LocalFree(x) PROVE Frees!GiveBackHere(x)
  BY <1>2, LocalFreeStep DEF Frees!GiveBackHere, Frees!Without, LetGo, Pending
<1>3. ASSUME NEW t \in Remotes, RemoteStep(t) PROVE UNCHANGED <<Pending, Chain(list), holder>>
  BY <1>3, PushingStep, LinkStep, SwapStep DEF RemoteStep
<1>4. ASSUME NEW t \in Remotes, NEW x \in Objects, RemoteFreeCall(t, x) PROVE Frees!GiveBack(x)
  BY <1>4, RemoteFreeCallStep DEF Frees!GiveBack, Frees!Without, LetGo, Pending
<1>5. CASE AllocCall \/ AllocRetry \/ DrainDone \/ AllocRefuse
  BY <1>5, OwnerStep DEF Frees!runVars, Pending
<1>6. CASE DrainOne
  <2>1. cursor \in Objects
    BY <1>6 DEF DrainOne, IInv, TypeOK
  <2>2. Frees!TakeBack(cursor)
    BY <1>6, DrainOneStep DEF Frees!TakeBack, Pending
  <2> QED BY <2>1, <2>2 DEF Frees!Next
<1>7. CASE AllocSlot
  <2>1. list \in Objects /\ list \in Chain(list)
    BY <1>7, AllocSlotStep, ReachIsLeast DEF Chain
  <2>2. \E t \in Threads : Frees!HandOut(list, t)
    BY <1>7, <2>1, AllocSlotStep DEF Frees!HandOut, Frees!With, Hold, Pending
  <2> QED BY <2>1, <2>2 DEF Frees!Next
<1>8. CASE UNCHANGED vars
  BY <1>8 DEF vars, remoteVars, Frees!runVars, InFlight, Chain, ownerVars
<1>9. CASE UNCHANGED <<Pending, Chain(list), holder>>
  BY <1>9 DEF Frees!runVars, Pending
<1> QED BY <1>1, <1>2, <1>3, <1>4, <1>5, <1>6, <1>7, <1>8, <1>9 DEF Next, AllocStep, Frees!Next

\* Freeing from any thread keeps its promise: an object given back is pending, comes
\* back exactly once, and is handed out again only after that.
THEOREM Implements == Spec => ImplementsPendingFrees
<1>1. Init => Frees!Init
  <2> SUFFICES ASSUME Init PROVE Frees!Init
    OBVIOUS
  <2>1. InFlight = {} /\ Chain(head) = {} /\ Chain(cursor) = {} /\ Chain(list) = Objects
    BY NoList DEF Init, InFlight, Chain
  <2>2. holder = [x \in {} |-> CHOOSE t \in Threads : TRUE]
    BY DEF Init
  <2> QED BY <2>1, <2>2 DEF Frees!Init
<1>2. IInv /\ [Next]_vars => [Frees!Next]_Frees!runVars
  BY StepImplements
<1> QED BY <1>1, <1>2, Invariance, PTL DEF Spec, ImplementsPendingFrees, Frees!Spec
=============================================================================
