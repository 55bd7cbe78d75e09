------------------------- MODULE AsyncCompleteLock -------------------------
(***************************************************************************)
(* The completion lock of src/async/complete_lock.rs: a tokio Mutex around *)
(* the state and a tokio Notify.  It has the interface of CompleteLock,    *)
(* but a waiter drops the guard after its check and only then creates the  *)
(* `notified()` future; notify_waiters wakes the futures that exist and    *)
(* leaves no permit for those that come later.                             *)
(***************************************************************************)
EXTENDS Naturals

CONSTANTS Waiters,      \* tasks that await wait_for_completion
          Completers,   \* tasks that await mark_complete
          Poisoners,    \* tasks that await poison
          None          \* "nobody holds the mutex"

Tasks == Waiters \cup Completers \cup Poisoners

ASSUME TasksAssumption ==
    /\ Waiters \cap Completers = {}
    /\ Waiters \cap Poisoners = {}
    /\ Completers \cap Poisoners = {}
    /\ None \notin Tasks

VARIABLES state,        \* the CompleteLockState the mutex guards
          mutex,        \* the task that holds the mutex, or None
          registered,   \* tasks whose notified() future is pending
          pc,           \* where each task is
          result        \* what wait_for_completion returned to each waiter

vars == <<state, mutex, registered, pc, result>>

States == {"Incomplete", "Complete", "Poisoned"}

Init ==
    /\ state = "Incomplete"
    /\ mutex = None
    /\ registered = {}
    /\ pc = [t \in Tasks |-> "idle"]
    /\ result = [w \in Waiters |-> "Incomplete"]

At(t, where) == pc[t] = where
Goto(t, where) == pc' = [pc EXCEPT ![t] = where]

-----------------------------------------------------------------------------
(* wait_for_completion.  A check locks, reads and unlocks.                 *)
WaitCall(w) ==
    /\ At(w, "idle")
    /\ Goto(w, "check")
    /\ UNCHANGED <<state, mutex, registered, result>>

CheckFails(w) ==
    /\ At(w, "check")
    /\ mutex = None
    /\ state = "Incomplete"
    /\ Goto(w, "register")
    /\ UNCHANGED <<state, mutex, registered, result>>

CheckSucceeds(w) ==
    /\ At(w, "check")
    /\ mutex = None
    /\ state # "Incomplete"
    /\ result' = [result EXCEPT ![w] = state]
    /\ Goto(w, "done")
    /\ UNCHANGED <<state, mutex, registered>>

Register(w) ==
    /\ At(w, "register")
    /\ registered' = registered \cup {w}
    /\ Goto(w, "notified")
    /\ UNCHANGED <<state, mutex, result>>

(* The future resolves and the loop checks again.                          *)
Notified(w) ==
    /\ At(w, "notified")
    /\ w \notin registered
    /\ Goto(w, "check")
    /\ UNCHANGED <<state, mutex, registered, result>>

Wait(w) == CheckFails(w) \/ CheckSucceeds(w) \/ Register(w) \/ Notified(w)

-----------------------------------------------------------------------------
(* mark_complete: the guard is dropped before the notification.            *)
MarkComplete(c) ==
    /\ At(c, "idle")
    /\ mutex = None
    /\ state' = "Complete"
    /\ Goto(c, "notify")
    /\ UNCHANGED <<mutex, registered, result>>

(* Mutation: notify one waiter instead of all.                             *)
MarkNotifyOne(c) ==
    /\ At(c, "notify")
    /\ \/ registered = {} /\ UNCHANGED registered
       \/ \E w \in registered : registered' = registered \ {w}
    /\ Goto(c, "done")
    /\ UNCHANGED <<state, mutex, result>>

MarkNotify(c) ==
    /\ At(c, "notify")
    /\ registered' = {}
    /\ Goto(c, "done")
    /\ UNCHANGED <<state, mutex, result>>

-----------------------------------------------------------------------------
(* poison: the guard lives until the function returns, but registering     *)
(* needs no guard.                                                         *)
PoisonLock(p) ==
    /\ At(p, "idle")
    /\ mutex = None
    /\ mutex' = p
    /\ Goto(p, "locked")
    /\ UNCHANGED <<state, registered, result>>

(* Mutation: poison whatever the state.                                    *)
PoisonOverrides(p) ==
    /\ At(p, "locked")
    /\ state' = "Poisoned"
    /\ Goto(p, "notify")
    /\ UNCHANGED <<mutex, registered, result>>

PoisonSet(p) ==
    /\ At(p, "locked")
    /\ state = "Incomplete"
    /\ state' = "Poisoned"
    /\ Goto(p, "notify")
    /\ UNCHANGED <<mutex, registered, result>>

PoisonSkip(p) ==
    /\ At(p, "locked")
    /\ state # "Incomplete"
    /\ mutex' = None
    /\ Goto(p, "done")
    /\ UNCHANGED <<state, registered, result>>

PoisonNotify(p) ==
    /\ At(p, "notify")
    /\ registered' = {}
    /\ mutex' = None
    /\ Goto(p, "done")
    /\ UNCHANGED <<state, result>>

-----------------------------------------------------------------------------
Next ==
    \/ \E w \in Waiters : WaitCall(w) \/ Wait(w)
    \/ \E c \in Completers : MarkComplete(c) \/ MarkNotify(c)
    \/ \E p \in Poisoners :
           PoisonLock(p) \/ PoisonSet(p) \/ PoisonSkip(p) \/ PoisonNotify(p)

Spec == Init /\ [][Next]_vars

(* The runtime polls every task that can make progress, and tokio's Mutex  *)
(* is fair; no task has to start an operation.                             *)
Fairness ==
    /\ \A w \in Waiters : WF_vars(Wait(w))
    /\ \A c \in Completers : WF_vars(MarkNotify(c))
    /\ \A p \in Poisoners : WF_vars(PoisonSet(p) \/ PoisonSkip(p) \/ PoisonNotify(p))

FairSpec == Spec /\ Fairness

-----------------------------------------------------------------------------
WaiterPoints == {"idle", "check", "register", "notified", "done"}
PoisonerPoints == {"idle", "locked", "notify", "done"}

(* Every task is at a point of its own operation; only poison holds the    *)
(* mutex across a step.                                                    *)
TypeOK ==
    /\ state \in States
    /\ mutex \in Poisoners \cup {None}
    /\ registered \in SUBSET Waiters
    /\ \A w \in Waiters : pc[w] \in WaiterPoints
    /\ \A c \in Completers : pc[c] \in {"idle", "notify", "done"}
    /\ \A p \in Poisoners : pc[p] \in PoisonerPoints
    /\ DOMAIN pc = Tasks
    /\ result \in [Waiters -> States]

Signal == INSTANCE CompleteSignal WITH
    outcome <- [w \in Waiters |-> IF pc[w] = "idle" THEN "none"
                                  ELSE IF pc[w] = "done" THEN result[w]
                                  ELSE "waiting"]

(* The safety part of the signal: a completed lock stays complete, a       *)
(* poison does not override a completion, and a waiter returns the state   *)
(* and never Incomplete.                                                   *)
RefinesSignal == Signal!Spec

(* "Waits until the lock is completed, returning its state. This will also *)
(* return if/when the lock is explicitly poisoned" (wait_for_completion).  *)
WaitersReturn ==
    \A w \in Waiters :
        (pc[w] # "idle" /\ state # "Incomplete") ~> pc[w] = "done"

(* What is left of it: a waiter whose future exists, or that has yet to    *)
(* check, when the lock is completed or poisoned does return.  Only the    *)
(* gap between the check and the registration loses a wakeup.              *)
RegisteredWaitersReturn ==
    \A w \in Waiters :
        (/\ state # "Incomplete"
         /\ \/ pc[w] = "check"
            \/ /\ pc[w] = "notified"
               /\ \/ w \notin registered
                  \/ \E t \in Completers \cup Poisoners : pc[t] = "notify")
        ~> pc[w] = "done"
=============================================================================
