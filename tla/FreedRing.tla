----------------------------- MODULE FreedRing -----------------------------
(***************************************************************************)
(* The double-free diagnostics of debug builds (src/debug_free.c) in the   *)
(* calls that use them: sigma_free looks a pointer up in a ring of freed   *)
(* pointers, records it there, and only then gives the object back;        *)
(* sigma_alloc forgets the pointer it is about to return.  Each access to  *)
(* the ring holds g_freed_mutex and is one step; sigma_free's two accesses *)
(* are two, and other threads run between them.                            *)
(*                                                                         *)
(* What gives the object back (slab, buddy or large) is one step here:     *)
(* Arena, RemoteFree and LargeList model it.  Threads may call sigma_free  *)
(* on a pointer they no longer have a right to: that is what the ring is   *)
(* there to report.                                                        *)
(***************************************************************************)
EXTENDS Naturals

CONSTANTS Pointers,
          Threads,
          Window,   \* SIGMA_FREED_RECORDS
          Null

ASSUME RingAssumption == Window \in Nat \ {0} /\ Null \notin Pointers

VARIABLES
  ring,    \* g_freed: index -> pointer
  next,    \* g_freed_next
  pc,      \* thread -> "idle", in sigma_free ("check", "record", "give") or
           \*           at the end of sigma_alloc ("forget")
  arg,     \* thread -> the pointer it is freeing or allocating
  where,   \* ghost: pointer -> "arena", "held" by the program, or "between"
  wrong,   \* ghost: the threads freeing what they had no right to free
  misused, \* ghost: has there been such a call
  age,     \* ghost: records made since the pointer's own, Window if forgotten
  halted   \* has a panic ended the program

vars == <<ring, next, pc, arg, where, wrong, misused, age, halted>>
(* The operators named Slip_ are not the code: each is the definition below it *)
(* with one plausible mistake, which some property must notice.              *)

Indices == 0..(Window - 1)
InRing(p) == \E i \in Indices : ring[i] = p
Older(n)  == IF n < Window THEN n + 1 ELSE n
Step(t, from, to) == pc[t] = from /\ pc' = [pc EXCEPT ![t] = to]

Init ==
  /\ ring = [i \in Indices |-> Null] /\ next = 0
  /\ pc = [t \in Threads |-> "idle"]
  /\ arg = [t \in Threads |-> Null]
  /\ where = [p \in Pointers |-> "arena"]
  /\ wrong = {} /\ misused = FALSE
  /\ age = [p \in Pointers |-> Window]
  /\ halted = FALSE

-----------------------------------------------------------------------------
(* sigma_alloc: the allocator has picked p; then finish_alloc, which forgets *)

Pick(t, p) ==
  /\ Step(t, "idle", "forget")
  /\ where[p] = "arena"
  /\ where' = [where EXCEPT ![p] = "between"]
  /\ arg' = [arg EXCEPT ![t] = p]
  /\ UNCHANGED <<ring, next, wrong, misused, age, halted>>

\* sigma_debug_forget_freed clears every record of the pointer.
Slip_NewestOnly(p) == [i \in Indices |-> IF ring[i] = p /\ i + 1 = next THEN Null ELSE ring[i]]
Cleared(p) == [i \in Indices |-> IF ring[i] = p THEN Null ELSE ring[i]]

Forget(t) ==
  /\ Step(t, "forget", "idle")
  /\ ring' = Cleared(arg[t])
  /\ age' = [age EXCEPT ![arg[t]] = Window]
  /\ where' = [where EXCEPT ![arg[t]] = "held"]
  /\ arg' = [arg EXCEPT ![t] = Null]
  /\ UNCHANGED <<next, wrong, misused, halted>>

-----------------------------------------------------------------------------
(* sigma_free *)

\* The program frees what it holds, or what it has freed before.
Call(t, p) ==
  /\ Step(t, "idle", "check")
  /\ arg' = [arg EXCEPT ![t] = p]
  /\ \/ /\ where[p] = "held"
        /\ where' = [where EXCEPT ![p] = "between"]
        /\ UNCHANGED <<wrong, misused>>
     \/ /\ where[p] # "held"
        /\ age[p] < Window \/ \E u \in Threads : pc[u] \in {"check", "record"} /\ arg[u] = p
        /\ wrong' = wrong \union {t} /\ misused' = TRUE
        /\ UNCHANGED where
  /\ UNCHANGED <<ring, next, age, halted>>

\* sigma_debug_check_double_free: not found.
Passes(t) ==
  /\ Step(t, "check", "record")
  /\ ~InRing(arg[t])
  /\ UNCHANGED <<ring, next, arg, where, wrong, misused, age, halted>>

\* Found: the report, and the panic that ends the program.
Reports(t) ==
  /\ pc[t] = "check"
  /\ InRing(arg[t])
  /\ halted' = TRUE
  /\ UNCHANGED <<ring, next, pc, arg, where, wrong, misused, age>>

NextIndex == (next + 1) % Window
Slip_NotAdvanced(p) == [ring EXCEPT ![0] = p]
Recorded(p)         == [ring EXCEPT ![next] = p]

\* sigma_debug_record_free
Record(t) ==
  /\ Step(t, "record", "give")
  /\ ring' = Recorded(arg[t])
  /\ next' = NextIndex
  /\ age' = [p \in Pointers |-> IF p = arg[t] THEN 0 ELSE Older(age[p])]
  /\ UNCHANGED <<arg, where, wrong, misused, halted>>

\* The object goes back; a second giving back that the ring has missed is caught
\* by the header checks or ruins the heap, and is not followed further.
Give(t) ==
  /\ Step(t, "give", "idle")
  /\ where' = [where EXCEPT ![arg[t]] = "arena"]
  /\ arg' = [arg EXCEPT ![t] = Null]
  /\ halted' = (t \in wrong)
  /\ wrong' = wrong \ {t}
  /\ UNCHANGED <<ring, next, misused, age>>

-----------------------------------------------------------------------------
ThreadStep(t) ==
  \/ Forget(t) \/ Passes(t) \/ Reports(t) \/ Record(t) \/ Give(t)
  \/ \E p \in Pointers : Pick(t, p) \/ Call(t, p)

\* After a panic nothing happens any more.
Halted == halted /\ UNCHANGED vars

Next == \/ ~halted /\ \E t \in Threads : ThreadStep(t)
        \/ Halted

Spec == Init /\ [][Next]_vars

-----------------------------------------------------------------------------
(* Properties *)

\* A program that frees only what it holds is never told of a double free: the
\* record of an object's last life is gone before the object can be freed again,
\* whatever other threads record meanwhile, and nothing recorded by a slower
\* sigma_free lands after the pointer was handed out.
NoFalseAlarm == ~misused => \A t \in Threads : pc[t] = "check" => ~InRing(arg[t])

\* The ring holds exactly the pointers freed since they were last handed out and
\* fewer than Window records ago: forgetting leaves holes, but no record goes
\* before its time and none outlives it.
WindowExact == \A p \in Pointers : InRing(p) <=> age[p] < Window

-----------------------------------------------------------------------------
(* The inductive invariant *)

Types ==
  /\ ring \in [Indices -> Pointers \union {Null}] /\ next \in Indices
  /\ pc \in [Threads -> {"idle", "check", "record", "give", "forget"}]
  /\ arg \in [Threads -> Pointers \union {Null}]
  /\ \A t \in Threads : pc[t] # "idle" => arg[t] \in Pointers
  /\ where \in [Pointers -> {"arena", "held", "between"}]
  /\ age \in [Pointers -> 0..Window] /\ misused \in BOOLEAN

\* How many records ago an index was written, and the index written so long ago.
\* The newest record of a pointer is at the index its age says; older ones of the
\* same pointer (it may have been freed twice) are behind it.
Back(n, i) == IF i < n THEN n - 1 - i ELSE n + Window - 1 - i
AgesPlaced ==
  /\ \A p \in Pointers : age[p] < Window => ring[Back(next, age[p])] = p
  /\ \A i \in Indices : ring[i] # Null => age[ring[i]] <= Back(next, i)

\* As long as the program has freed only what it held: a pointer is with one
\* thread at a time, and is recorded neither while the program holds it nor until
\* the sigma_free that took it from the program records it.
OneLife == ~misused =>
  /\ \A t, u \in Threads : pc[t] # "idle" /\ pc[u] # "idle" /\ arg[t] = arg[u] => t = u
  /\ \A t \in Threads : pc[t] # "idle" => where[arg[t]] = "between"
  /\ \A t \in Threads : pc[t] \in {"check", "record"} => ~InRing(arg[t])
  /\ \A p \in Pointers : where[p] = "held" => ~InRing(p)

IInv == Types /\ AgesPlaced /\ OneLife
=============================================================================
