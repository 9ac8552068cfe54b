----------------------------- MODULE RemoteFree -----------------------------
(***************************************************************************)
(* Freeing across threads (src/arena.c: arena_remote_free,                 *)
(* arena_drain_remote_frees, and the parts of arena_alloc that call the    *)
(* drain).  A thread that does not own the arena pushes the object on a    *)
(* lock-free stack: load the head, store it in the object's first word,    *)
(* compare and swap.  The owner takes the whole stack with one exchange    *)
(* and frees the objects one by one.  The first word of an object is       *)
(* remote_free_node_t.next, free_node_t.next and the user's data in turn;  *)
(* `word' is that word, so that a link overwritten too early shows.        *)
(*                                                                         *)
(* The arena here is one cache whose slabs hold Objects and whose memory   *)
(* source gives no more: slab_alloc fails when the free list is empty.     *)
(* The accesses to the head are the atomic ones of the code.  They are     *)
(* taken in one order: the release in the push and the acquire in the      *)
(* exchange make the word the owner reads the word the pusher stored.      *)
(***************************************************************************)
EXTENDS Naturals, FiniteSets

CONSTANTS Objects,   \* the slots of the arena's slabs
          Remotes,   \* the threads that do not own the arena
          Owner,     \* the thread that does
          Interval,  \* ARENA_REMOTE_DRAIN_INTERVAL
          Null,
          Data       \* a word that holds what the user wrote

Threads == Remotes \union {Owner}

ASSUME IntervalAssumption == Interval \in Nat \ {0}
ASSUME ThreadAssumption == Owner \notin Remotes
ASSUME WordAssumption == Null \notin Objects /\ Data \notin Objects /\ Null # Data

VARIABLES
  head,     \* arena->remote_frees
  word,     \* object -> its first word
  list,     \* slab->free_list
  magic,    \* object -> does its header hold SLAB_MAGIC
  counter,  \* arena->alloc_counter, modulo Interval
  pc,       \* thread -> where it is
  arg,      \* remote thread -> the object it is pushing
  seen,     \* remote thread -> the head it loaded
  cursor,   \* the drain's `node'
  retried,  \* has this arena_alloc failed once already
  holder    \* ghost: held object -> the thread that will free it

remoteVars == <<arg, seen>>
ownerVars  == <<counter, cursor, retried>>
(* The operators named Slip_ are not the code: each is the definition below it *)
(* with one plausible mistake, which some property must notice.              *)

vars == <<head, word, list, magic, pc, remoteVars, ownerVars, holder>>

\* The objects reached from x through the links: those in every set that has x
\* and, with an object, the one its word links to.
Closed(w, S) == \A o \in S : w[o] \in Objects => w[o] \in S
Reach(w, x)  == {y \in Objects : /\ x \in Objects
                                /\ \A S \in SUBSET Objects : x \in S /\ Closed(w, S) => y \in S}
Chain(x)     == Reach(word, x)

Hold(x, t)  == [y \in DOMAIN holder \union {x} |-> IF y = x THEN t ELSE holder[y]]
LetGo(x)    == [y \in DOMAIN holder \ {x} |-> holder[y]]
Goto(t, at) == pc' = [pc EXCEPT ![t] = at]

\* slab_create links the slots in one list, the last slot first.
Init ==
  /\ word \in [Objects -> Objects \union {Null}]
  /\ list \in Objects
  /\ Chain(list) = Objects
  /\ \E o \in Objects : word[o] = Null
  /\ head = Null
  /\ magic = [o \in Objects |-> TRUE]
  /\ counter = 0
  /\ pc = [t \in Threads |-> "idle"]
  /\ arg = [t \in Remotes |-> Null]
  /\ seen = [t \in Remotes |-> Null]
  /\ cursor = Null /\ retried = FALSE
  /\ holder = [x \in {} |-> Owner]

-----------------------------------------------------------------------------
(* Any thread: the user's own stores, and sigma_free *)

\* The holder stores into the object, over the word.
Write(x) ==
  /\ x \in DOMAIN holder
  /\ word[x] # Data
  /\ word' = [word EXCEPT ![x] = Data]
  /\ UNCHANGED <<head, list, magic, pc, remoteVars, ownerVars, holder>>

\* sigma_free on another thread calls arena_remote_free.
RemoteFreeCall(t, x) ==
  /\ pc[t] = "idle"
  /\ x \in DOMAIN holder /\ holder[x] = t
  /\ holder' = LetGo(x)
  /\ arg' = [arg EXCEPT ![t] = x]
  /\ Goto(t, "load")
  /\ UNCHANGED <<head, word, list, magic, seen, ownerVars>>

Load(t) ==
  /\ pc[t] = "load"
  /\ seen' = [seen EXCEPT ![t] = head]
  /\ Goto(t, "link")
  /\ UNCHANGED <<head, word, list, magic, arg, ownerVars, holder>>

Slip_LinkForgotten(t) == word[arg[t]]
LinkWord(t) == seen[t]

Link(t) ==
  /\ pc[t] = "link"
  /\ word' = [word EXCEPT ![arg[t]] = LinkWord(t)]
  /\ Goto(t, "swap")
  /\ UNCHANGED <<head, list, magic, remoteVars, ownerVars, holder>>

Slip_SwapUnchecked(t) == TRUE
HeadIsSeen(t) == head = seen[t]

SwapSucceeds(t) ==
  /\ pc[t] = "swap"
  /\ HeadIsSeen(t)
  /\ head' = arg[t]
  /\ arg' = [arg EXCEPT ![t] = Null]
  /\ seen' = [seen EXCEPT ![t] = Null]
  /\ Goto(t, "idle")
  /\ UNCHANGED <<word, list, magic, ownerVars, holder>>

\* The weak compare-and-swap may also fail when the head is the one seen.
SwapFails(t) ==
  /\ pc[t] = "swap"
  /\ Goto(t, "load")
  /\ UNCHANGED <<head, word, list, magic, remoteVars, ownerVars, holder>>

-----------------------------------------------------------------------------
(* The owner *)

\* slab_free_local: clear the magic, link the slot at the head of the list.
FreeSlot(x) ==
  /\ magic' = [magic EXCEPT ![x] = FALSE]
  /\ word' = [word EXCEPT ![x] = list]
  /\ list' = x

LocalFree(x) ==
  /\ pc[Owner] = "idle"
  /\ x \in DOMAIN holder /\ holder[x] = Owner
  /\ holder' = LetGo(x)
  /\ FreeSlot(x)
  /\ UNCHANGED <<head, pc, remoteVars, ownerVars>>

\* The exchange that begins a drain.
Slip_LoadOnly ==
  /\ cursor' = head
  /\ UNCHANGED head
TakeStack ==
  /\ cursor' = head
  /\ head' = Null

Slip_CounterPastMask == (counter + 1) % (Interval + 1)
Tick == (counter + 1) % Interval
Slip_NeverDue(n) == n = Interval
DrainDue(n) == n = 0

\* arena_alloc: every Interval-th call drains before it looks for a slot.
AllocCall ==
  /\ pc[Owner] = "idle"
  /\ counter' = Tick
  /\ IF DrainDue(Tick)
     THEN TakeStack /\ Goto(Owner, "drain")
     ELSE UNCHANGED <<head, cursor>> /\ Goto(Owner, "alloc")
  /\ UNCHANGED <<word, list, magic, remoteVars, retried, holder>>

\* One turn of the drain: read the link, then free the object.
Slip_FreedFirst(x) == list
NextInStack(x) == word[x]

DrainOne ==
  /\ pc[Owner] = "drain"
  /\ cursor # Null
  /\ FreeSlot(cursor)
  /\ cursor' = NextInStack(cursor)
  /\ UNCHANGED <<head, pc, remoteVars, counter, retried, holder>>

DrainDone ==
  /\ pc[Owner] = "drain"
  /\ cursor = Null
  /\ Goto(Owner, "alloc")
  /\ UNCHANGED <<head, word, list, magic, remoteVars, ownerVars, holder>>

AllocEnds == /\ Goto(Owner, "idle")
             /\ retried' = FALSE

\* slab_alloc finds a slot; the caller keeps it or passes it to a thread.
AllocSlot ==
  /\ pc[Owner] = "alloc"
  /\ list # Null
  /\ list' = word[list]
  /\ magic' = [magic EXCEPT ![list] = TRUE]
  /\ \E t \in Threads : holder' = Hold(list, t)
  /\ AllocEnds
  /\ UNCHANGED <<head, word, remoteVars, counter, cursor>>

\* slab_alloc fails: drain once and try again, then give up.
Retries == ~retried

AllocRetry ==
  /\ pc[Owner] = "alloc"
  /\ list = Null
  /\ Retries
  /\ retried' = TRUE
  /\ TakeStack
  /\ Goto(Owner, "drain")
  /\ UNCHANGED <<word, list, magic, remoteVars, counter, holder>>

AllocRefuse ==
  /\ pc[Owner] = "alloc"
  /\ list = Null
  /\ ~Retries
  /\ AllocEnds
  /\ UNCHANGED <<head, word, list, magic, remoteVars, counter, cursor, holder>>

-----------------------------------------------------------------------------
RemoteStep(t) == Load(t) \/ Link(t) \/ SwapSucceeds(t) \/ SwapFails(t)
AllocStep == AllocCall \/ DrainOne \/ DrainDone \/ AllocSlot \/ AllocRetry \/ AllocRefuse

Next ==
  \/ \E x \in Objects : Write(x) \/ LocalFree(x)
  \/ \E t \in Remotes : RemoteStep(t) \/ \E x \in Objects : RemoteFreeCall(t, x)
  \/ AllocStep

\* The owner keeps calling arena_alloc.  Nothing is asked of the other threads:
\* a push may be overtaken for ever (the stack is lock-free, not wait-free).
Fairness == WF_vars(AllocStep)

Spec == Init /\ [][Next]_vars /\ Fairness

-----------------------------------------------------------------------------
(* Properties *)

Words == Objects \union {Null, Data}

TypeOK ==
  /\ head \in Objects \union {Null}
  /\ word \in [Objects -> Words]
  /\ list \in Objects \union {Null}
  /\ magic \in [Objects -> BOOLEAN]
  /\ counter \in 0..(Interval - 1)
  /\ pc \in [Threads -> {"idle", "load", "link", "swap", "alloc", "drain"}]
  /\ arg \in [Remotes -> Objects \union {Null}]
  /\ seen \in [Remotes -> Objects \union {Null}]
  /\ cursor \in Objects \union {Null}
  /\ retried \in BOOLEAN
  /\ holder \in [DOMAIN holder -> Threads] /\ DOMAIN holder \subseteq Objects

InFlight == {arg[t] : t \in Remotes} \ {Null}

\* Every object is in exactly one place: on the free list, on the stack, in the
\* part of it the drain has taken, in a push that has not swapped yet, or with
\* its holder.  A push that relinks after a failed swap, an owner that reads a
\* link after freeing, or a swap that succeeds on a head that was popped and
\* pushed again meanwhile would lose or duplicate one.
Accounted ==
  LET places == <<Chain(list), Chain(head), Chain(cursor), InFlight, DOMAIN holder>>
  IN /\ \A i, j \in 1..5 : i # j => places[i] \intersect places[j] = {}
     /\ UNION {places[i] : i \in 1..5} = Objects
     /\ \A t, u \in Remotes : t # u /\ arg[t] # Null => arg[t] # arg[u]

\* What slab_free_local checks before it frees, and panics about: the drain and
\* the owner only ever free objects whose header says allocated.
NeverPanics == \A x \in Objects :
  x \in Chain(head) \union Chain(cursor) \union InFlight \union DOMAIN holder => magic[x]

\* A user's store never hits a link: the words of the lists are links as long as
\* the list is reachable.
LinksIntact == \A x \in Chain(list) \union Chain(head) \union Chain(cursor) :
  word[x] # Data

\* The inductive invariant that the theorems rest on.  A list is straight when its
\* words are links and it does not come back to where it was.
Straight(w, x) == \A y \in Reach(w, x) : w[y] \in Objects \union {Null} /\ y \notin Reach(w, w[y])
ListsStraight  == Straight(word, list) /\ Straight(word, head) /\ Straight(word, cursor)

\* A push that is about to swap has its object linked to the head it saw, whatever
\* has become of that head since; a swap that finds it again relies on it.
PushOK == \A t \in Remotes : /\ pc[t] \in {"idle", "load", "link", "swap"}
                             /\ pc[t] = "idle" <=> arg[t] = Null
                             /\ pc[t] = "swap" => word[arg[t]] = seen[t]

OwnerOK == /\ pc[Owner] \in {"idle", "alloc", "drain"}
           /\ cursor # Null => pc[Owner] = "drain"

Apart(L, H, C, F, D) == /\ L \union H \union C \union F \union D = Objects
                        /\ L \intersect (H \union C \union F \union D) = {}
                        /\ H \intersect (C \union F \union D) = {}
                        /\ C \intersect (F \union D) = {} /\ F \intersect D = {}
AllApart == /\ Apart(Reach(word, list), Reach(word, head), Reach(word, cursor), InFlight, DOMAIN holder)
            /\ \A t, u \in Remotes : t # u /\ arg[t] # Null => arg[t] # arg[u]

IInv == TypeOK /\ AllApart /\ NeverPanics /\ ListsStraight /\ PushOK /\ OwnerOK

\* The stack implements PendingFrees: an object is pending from the call of
\* arena_remote_free until the drain frees it.
Frees == INSTANCE PendingFrees
  WITH pending <- InFlight \union Chain(head) \union Chain(cursor),
       free <- Chain(list)
ImplementsPendingFrees == Frees!Spec

\* While the owner keeps allocating, an object that another thread has pushed is
\* eventually back on the free list (and may then be handed out again).
Reclaimed == \A x \in Objects : x \in Chain(head) ~> x \in Chain(list)
=============================================================================
