---------------------------- MODULE MessageFifo ----------------------------
(***************************************************************************)
(* What the bytes between two wires are meant to be: a queue of messages.  *)
(* A message is received whole, once, as it was sent and in its place.     *)
(***************************************************************************)
EXTENDS Naturals, Sequences

VARIABLES sent, received   \* every message, in order

Init == sent = <<>> /\ received = <<>>

Send ==
    /\ Len(sent') = Len(sent) + 1
    /\ SubSeq(sent', 1, Len(sent)) = sent
    /\ UNCHANGED received

Receive ==
    /\ Len(received) < Len(sent)
    /\ received' = Append(received, sent[Len(received) + 1])
    /\ UNCHANGED sent

Next == Send \/ Receive
Spec == Init /\ [][Next]_<<sent, received>>
=============================================================================
