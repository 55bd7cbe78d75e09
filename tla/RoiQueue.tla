------------------------------ MODULE RoiQueue ------------------------------
(***************************************************************************)
(* The reuse-or-increment queue of src/roi_queue.rs, from which an         *)
(* interface draws message indices and wire identifiers.  It is lock-free: *)
(* get() first pops the queue of relinquished identifiers and, on a miss,  *)
(* increments an atomic counter.  The pop and the increment are two atomic *)
(* steps, and any step of another thread may fall between them.            *)
(*                                                                         *)
(* The counter is an IpfiInteger of w bits and wraps: Modulus is 2^w.      *)
(* A user stands for one identifier's worth of demand, so a thread that    *)
(* holds three identifiers is three users.                                 *)
(***************************************************************************)
EXTENDS Naturals, Sequences, FiniteSets

CONSTANTS Users,     \* the units of demand
          Modulus,   \* the number of values of an IpfiInteger
          None       \* "holds nothing"

ASSUME UsersAssumption   == IsFiniteSet(Users)
ASSUME ModulusAssumption == Modulus \in Nat \ {0}
ASSUME NoneAssumption    == None \notin Nat

VARIABLES counter,        \* the next identifier never issued so far
          relinquished,   \* identifiers handed back, oldest first
          missed,         \* users whose pop found the queue empty
          held            \* the identifier each user holds, or None

vars == <<counter, relinquished, missed, held>>

Ids == 0 .. (Modulus - 1)

Init ==
    /\ counter = 0
    /\ relinquished = <<>>
    /\ missed = {}
    /\ held = [u \in Users |-> None]

Idle(u) == held[u] = None /\ u \notin missed

-----------------------------------------------------------------------------
(* Mutation: the queue is read and not popped.                             *)
GetWithoutPop(u) ==
    /\ Idle(u)
    /\ relinquished # <<>>
    /\ held' = [held EXCEPT ![u] = Head(relinquished)]
    /\ UNCHANGED <<counter, relinquished, missed>>

(* get(), first half: the pop hits and its identifier is returned.         *)
GetRelinquished(u) ==
    /\ Idle(u)
    /\ relinquished # <<>>
    /\ held' = [held EXCEPT ![u] = Head(relinquished)]
    /\ relinquished' = Tail(relinquished)
    /\ UNCHANGED <<counter, missed>>

(* Mutation: increment without asking the queue.                           *)
GetMissEager(u) ==
    /\ Idle(u)
    /\ missed' = missed \cup {u}
    /\ UNCHANGED <<counter, relinquished, held>>

(* get(), first half: the pop misses.                                      *)
GetMiss(u) ==
    /\ Idle(u)
    /\ relinquished = <<>>
    /\ missed' = missed \cup {u}
    /\ UNCHANGED <<counter, relinquished, held>>

(* get(), second half: fetch_add returns the old value; u16 and its kin    *)
(* wrap.                                                                   *)
GetFetchAdd(u) ==
    /\ u \in missed
    /\ held' = [held EXCEPT ![u] = counter]
    /\ counter' = (counter + 1) % Modulus
    /\ missed' = missed \ {u}
    /\ UNCHANGED relinquished

(* Mutation: an identifier is handed back twice.                           *)
RelinquishUnheld(u) ==
    /\ relinquished' = Append(relinquished, held[u])
    /\ held' = [held EXCEPT ![u] = None]
    /\ UNCHANGED <<counter, missed>>

(* Mutation: an identifier is dropped without going back to the queue.     *)
RelinquishForgets(u) ==
    /\ held[u] # None
    /\ held' = [held EXCEPT ![u] = None]
    /\ UNCHANGED <<counter, relinquished, missed>>

(* relinquish(id), called by whoever holds id.                             *)
Relinquish(u) ==
    /\ held[u] # None
    /\ relinquished' = Append(relinquished, held[u])
    /\ held' = [held EXCEPT ![u] = None]
    /\ UNCHANGED <<counter, missed>>

Next == 
    \E u \in Users :
        GetRelinquished(u) \/ GetMiss(u) \/ GetFetchAdd(u) \/ Relinquish(u)

Spec == Init /\ [][Next]_vars

-----------------------------------------------------------------------------
(* Identifiers fit in an IpfiInteger and None never enters the queue.      *)
TypeOK ==
    /\ counter \in Ids
    /\ relinquished \in Seq(Ids)
    /\ missed \in SUBSET Users
    /\ held \in [Users -> Ids \cup {None}]

(* No two users hold the same identifier: "This method guarantees that the *)
(* returned identifier will be unique among those returned from this       *)
(* queue" (get, src/roi_queue.rs).                                         *)
UniqueIds ==
    \A u, v \in Users : (u # v /\ held[u] # None) => held[u] # held[v]

Queued == {relinquished[k] : k \in 1 .. Len(relinquished)}

(* Where every identifier is: those below the counter are in circulation,  *)
(* each with exactly one holder or at exactly one place of the queue, and  *)
(* the counter itself "will always be an identifier that is not yet in     *)
(* circulation" (comment on the field counter).                            *)
Accounted ==
    /\ \A i \in 0 .. (counter - 1) : i \in Queued \/ \E u \in Users : held[u] = i
    /\ \A i \in Queued : i < counter /\ \A u \in Users : held[u] # i
    /\ \A u \in Users : held[u] # None => held[u] < counter
    /\ \A j, k \in 1 .. Len(relinquished) :
           j # k => relinquished[j] # relinquished[k]

(* Reuse comes before increment: the counter never passes the peak demand, *)
(* however the two halves of concurrent gets interleave with relinquish.   *)
CounterWithinDemand == counter + Cardinality(missed) <= Cardinality(Users)

Allocator == INSTANCE IdAllocator

(* The queue implements the abstract allocator.                            *)
RefinesAllocator == Allocator!Spec
=============================================================================
