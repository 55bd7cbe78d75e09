---------------------------- MODULE MCByteStream ----------------------------
EXTENDS ByteStream
CONSTANTS c1, c2

(* The first call is cut inside an argument and the second lacks one.  The *)
(* call index that comes next takes two bytes; the one after it takes four *)
(* and does not fit the reader's integers.                                 *)
OneProcedure == (c1 :> 0) @@ (c2 :> 0)
SomeArguments == (c1 :> <<7, 200>>) @@ (c2 :> <<1>>)
SomeCuts == (c1 :> 2) @@ (c2 :> 0)
TwoArguments == 0 :> 2
LargeIndex == 0 :> Base^2 - 2

ASSUME ArgumentsRestorable == Restorable

SomeScript == <<[type |-> "response", key |-> <<0, Base>>, body |-> <<5>>, terminator |-> "chunk"],
                [type |-> "end_of_input"], [type |-> "termination"]>>
=============================================================================
