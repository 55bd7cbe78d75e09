---------------------------- MODULE MCInterface ----------------------------
EXTENDS Interface, TLC

CONSTANTS g1, g2

AnyKind == [g \in Getters |-> Kinds]

(* Every kind of call, and one that pops the message against each of them. *)
(* Raw and chunks differ only on a message with a receiver.                *)
SomeKinds == (g1 :> {"raw", "stream"}) @@ (g2 :> {"chunks", "peek", "stream"})

Symmetry == Permutations(Ids) \cup Permutations(Sources) \cup Permutations(Getters)
=============================================================================
