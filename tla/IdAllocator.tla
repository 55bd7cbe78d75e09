---------------------------- MODULE IdAllocator ----------------------------
(***************************************************************************)
(* What a queue of unique identifiers promises: a user that asks for an    *)
(* identifier gets one that nobody else holds, and an identifier goes back *)
(* into circulation only when its holder relinquishes it.  How identifiers *)
(* are chosen is left open.  RoiQueue implements this module.              *)
(***************************************************************************)
CONSTANTS Users,   \* whoever may hold an identifier: one unit of demand each
          Ids,     \* the identifiers
          None     \* "holds nothing"

VARIABLE held      \* the identifier each user holds, or None

Init == held = [u \in Users |-> None]

Acquire(u) ==
    /\ held[u] = None
    /\ \E i \in Ids : 
         /\ \A v \in Users : held[v] # i
         /\ held' = [held EXCEPT ![u] = i]

Release(u) ==
    /\ held[u] # None
    /\ held' = [held EXCEPT ![u] = None]

Next == \E u \in Users : Acquire(u) \/ Release(u)

Spec == Init /\ [][Next]_held
=============================================================================
