------------------------------- MODULE MCWire -------------------------------
EXTENDS Wire, TLC

(* Which procedure each call asks for: all of them the same one; or one    *)
(* that streams and one that the module has not registered.                *)
AllAdd == [k \in Calls |-> "add"]
AllCount == [k \in Calls |-> "count"]
Odd == CHOOSE k \in Calls \ Partial : TRUE
CountAndAbsent == [k \in Calls |-> IF k = Odd THEN "count" ELSE "absent"]

Symmetry == Permutations(Buffers)
=============================================================================
