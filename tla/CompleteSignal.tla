--------------------------- MODULE CompleteSignal ---------------------------
(***************************************************************************)
(* What a completion lock promises: a state that is set once and may only  *)
(* improve, from poisoned to complete, and waiters that return with a      *)
(* state that is no longer Incomplete.  CompleteLock (threads) implements  *)
(* all of it; AsyncCompleteLock (tasks) only the safety part.              *)
(***************************************************************************)
CONSTANT Waiters

VARIABLES state,     \* Incomplete, Complete or Poisoned
          outcome    \* of each waiter: none, waiting, or the state returned

Init ==
    /\ state = "Incomplete"
    /\ outcome = [w \in Waiters |-> "none"]

MarkComplete ==
    /\ state' = "Complete"
    /\ UNCHANGED outcome

Poison ==
    /\ state = "Incomplete"
    /\ state' = "Poisoned"
    /\ UNCHANGED outcome

Wait(w) ==
    /\ outcome[w] = "none"
    /\ outcome' = [outcome EXCEPT ![w] = "waiting"]
    /\ UNCHANGED state

Return(w) ==
    /\ outcome[w] = "waiting"
    /\ state # "Incomplete"
    /\ outcome' = [outcome EXCEPT ![w] = state]
    /\ UNCHANGED state

Next == MarkComplete \/ Poison \/ \E w \in Waiters : Wait(w) \/ Return(w)

Spec == Init /\ [][Next]_<<state, outcome>>

(* A waiter returns once the lock is no longer incomplete.                 *)
FairSpec == Spec /\ \A w \in Waiters : WF_<<state, outcome>>(Return(w))
=============================================================================
