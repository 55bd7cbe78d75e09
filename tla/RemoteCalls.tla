----------------------------- MODULE RemoteCalls -----------------------------
(***************************************************************************)
(* What calling a procedure over a wire promises, whoever terminates and   *)
(* whatever is lost: a call runs at most once, and only with all of its    *)
(* arguments; and what a handle returns is the whole answer to its own     *)
(* call, which therefore has run.                                          *)
(***************************************************************************)
CONSTANT Calls

VARIABLES phase,   \* of each call: idle, called, returned or failed
          ran      \* the calls that have run

Init ==
    /\ phase = [k \in Calls |-> "idle"]
    /\ ran = {}

Call(k) ==
    /\ phase[k] = "idle"
    /\ phase' = [phase EXCEPT ![k] = "called"]
    /\ UNCHANGED ran

(* The caller may have given up by then.                                   *)
Run(k) ==
    /\ phase[k] # "idle"
    /\ k \notin ran
    /\ ran' = ran \cup {k}
    /\ UNCHANGED phase

Return(k) ==
    /\ phase[k] = "called"
    /\ k \in ran
    /\ phase' = [phase EXCEPT ![k] = "returned"]
    /\ UNCHANGED ran

Fail(k) ==
    /\ phase[k] \in {"idle", "called"}
    /\ phase' = [phase EXCEPT ![k] = "failed"]
    /\ UNCHANGED ran

Next == \E k \in Calls : Call(k) \/ Run(k) \/ Return(k) \/ Fail(k)

Spec == Init /\ [][Next]_<<phase, ran>>
=============================================================================
