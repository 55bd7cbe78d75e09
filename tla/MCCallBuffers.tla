--------------------------- MODULE MCCallBuffers ---------------------------
EXTENDS CallBuffers, TLC

(* A started wire, alone with its interface, is asked for everything, the  *)
(* others for what the module has.                                         *)
MoreOfStarted ==
    [w \in Wires |-> IF w \in Started THEN Calls ELSE Standard \cup Streaming]

Symmetry == Permutations(Buffers) \cup Permutations(Wires \ Started)
=============================================================================
