---------------------------- MODULE CompleteLock ----------------------------
(***************************************************************************)
(* The completion lock of src/blocking/complete_lock.rs: a Mutex around    *)
(* the state and a Condvar.  Threads wait for, complete and poison one     *)
(* lock; each calls one operation once.  mark_complete releases the mutex  *)
(* before it notifies, poison notifies while it holds it, and the Condvar  *)
(* may wake a sleeper for no reason.                                       *)
(***************************************************************************)
EXTENDS Naturals

CONSTANTS Waiters,      \* threads that call wait_for_completion
          Completers,   \* threads that call mark_complete
          Poisoners,    \* threads that call poison
          None          \* "nobody holds the mutex"

Threads == Waiters \cup Completers \cup Poisoners

ASSUME ThreadsAssumption ==
    /\ Waiters \cap Completers = {}
    /\ Waiters \cap Poisoners = {}
    /\ Completers \cap Poisoners = {}
    /\ None \notin Threads

VARIABLES state,      \* the CompleteLockState the mutex guards
          mutex,      \* the thread that holds the mutex, or None
          sleepers,   \* threads asleep on the Condvar
          pc,         \* where each thread is
          result      \* what wait_for_completion returned to each waiter

vars == <<state, mutex, sleepers, pc, result>>

States == {"Incomplete", "Complete", "Poisoned"}

Init ==
    /\ state = "Incomplete"
    /\ mutex = None
    /\ sleepers = {}
    /\ pc = [t \in Threads |-> "idle"]
    /\ result = [w \in Waiters |-> "Incomplete"]

At(t, where) == pc[t] = where
Goto(t, where) == pc' = [pc EXCEPT ![t] = where]

Lock(t) == mutex = None /\ mutex' = t
Unlock(t) == mutex = t /\ mutex' = None

-----------------------------------------------------------------------------
(* wait_for_completion: the check and the decision to sleep are two steps  *)
(* of one critical section; Condvar::wait gives up the mutex and joins the *)
(* sleepers at once.                                                       *)
WaitCall(w) ==
    /\ At(w, "idle")
    /\ Goto(w, "lock")
    /\ UNCHANGED <<state, mutex, sleepers, result>>

WaitLock(w) ==
    /\ At(w, "lock")
    /\ Lock(w)
    /\ Goto(w, "check")
    /\ UNCHANGED <<state, sleepers, result>>

WaitCheck(w) ==
    /\ At(w, "check")
    /\ state = "Incomplete"
    /\ Goto(w, "sleep")
    /\ UNCHANGED <<state, mutex, sleepers, result>>

WaitSleep(w) ==
    /\ At(w, "sleep")
    /\ Unlock(w)
    /\ sleepers' = sleepers \cup {w}
    /\ Goto(w, "asleep")
    /\ UNCHANGED <<state, result>>

WaitReturn(w) ==
    /\ At(w, "check")
    /\ state # "Incomplete"
    /\ Unlock(w)
    /\ result' = [result EXCEPT ![w] = state]
    /\ Goto(w, "done")
    /\ UNCHANGED <<state, sleepers>>

WakeSpuriously(w) ==
    /\ w \in sleepers
    /\ sleepers' = sleepers \ {w}
    /\ UNCHANGED <<state, mutex, pc, result>>

(* A woken thread competes for the mutex again.                            *)
WaitRelock(w) ==
    /\ At(w, "asleep")
    /\ w \notin sleepers
    /\ Goto(w, "lock")
    /\ UNCHANGED <<state, mutex, sleepers, result>>

Wait(w) ==
    \/ WaitLock(w) \/ WaitCheck(w) \/ WaitSleep(w)
    \/ WaitReturn(w) \/ WaitRelock(w)

-----------------------------------------------------------------------------
(* Mutation: the guard outlives the assignment.                            *)
MarkCompleteHolding(c) ==
    /\ At(c, "idle")
    /\ mutex = None
    /\ mutex' = c
    /\ state' = "Complete"
    /\ Goto(c, "notify")
    /\ UNCHANGED <<sleepers, result>>

(* mark_complete: the guard is a temporary and is dropped at the end of    *)
(* the assignment, before the notification.                                *)
MarkComplete(c) ==
    /\ At(c, "idle")
    /\ mutex = None
    /\ state' = "Complete"
    /\ Goto(c, "notify")
    /\ UNCHANGED <<mutex, sleepers, result>>

(* Mutation: notify one waiter instead of all.                             *)
MarkNotifyOne(c) ==
    /\ At(c, "notify")
    /\ \/ sleepers = {} /\ UNCHANGED sleepers
       \/ \E w \in sleepers : sleepers' = sleepers \ {w}
    /\ Goto(c, "done")
    /\ UNCHANGED <<state, mutex, result>>

MarkNotify(c) ==
    /\ At(c, "notify")
    /\ sleepers' = {}
    /\ Goto(c, "done")
    /\ UNCHANGED <<state, mutex, result>>

-----------------------------------------------------------------------------
(* poison: only an incomplete lock can be poisoned; the mutex is held      *)
(* until the function returns.                                             *)
PoisonLock(p) ==
    /\ At(p, "idle")
    /\ Lock(p)
    /\ Goto(p, "locked")
    /\ UNCHANGED <<state, sleepers, result>>

(* Mutation: poison whatever the state.                                    *)
PoisonOverrides(p) ==
    /\ At(p, "locked")
    /\ state' = "Poisoned"
    /\ Goto(p, "notify")
    /\ UNCHANGED <<mutex, sleepers, result>>

(* Mutation: poison without a notification.                                *)
PoisonQuietly(p) ==
    /\ At(p, "locked")
    /\ state = "Incomplete"
    /\ state' = "Poisoned"
    /\ Unlock(p)
    /\ Goto(p, "done")
    /\ UNCHANGED <<sleepers, result>>

PoisonSet(p) ==
    /\ At(p, "locked")
    /\ state = "Incomplete"
    /\ state' = "Poisoned"
    /\ Goto(p, "notify")
    /\ UNCHANGED <<mutex, sleepers, result>>

PoisonSkip(p) ==
    /\ At(p, "locked")
    /\ state # "Incomplete"
    /\ Unlock(p)
    /\ Goto(p, "done")
    /\ UNCHANGED <<state, sleepers, result>>

PoisonNotify(p) ==
    /\ At(p, "notify")
    /\ sleepers' = {}
    /\ Unlock(p)
    /\ Goto(p, "done")
    /\ UNCHANGED <<state, result>>

-----------------------------------------------------------------------------
Next ==
    \/ \E w \in Waiters : WaitCall(w) \/ Wait(w) \/ WakeSpuriously(w)
    \/ \E c \in Completers : MarkComplete(c) \/ MarkNotify(c)
    \/ \E p \in Poisoners :
           PoisonLock(p) \/ PoisonSet(p) \/ PoisonSkip(p) \/ PoisonNotify(p)

Spec == Init /\ [][Next]_vars

(* The scheduler runs every thread that can run, the operating system      *)
(* hands the mutex to somebody, and a thread that is inside an operation   *)
(* goes on.  No thread has to call an operation, nothing has to wake up    *)
(* spuriously.                                                             *)
Fairness ==
    /\ \A w \in Waiters : WF_vars(Wait(w))
    /\ \A c \in Completers : WF_vars(MarkNotify(c))
    /\ \A p \in Poisoners : WF_vars(PoisonSet(p) \/ PoisonSkip(p) \/ PoisonNotify(p))

FairSpec == Spec /\ Fairness

-----------------------------------------------------------------------------
WaiterPoints == {"idle", "lock", "check", "sleep", "asleep", "done"}
PoisonerPoints == {"idle", "locked", "notify", "done"}

(* Every thread is at a point of its own operation, and no thread keeps    *)
(* the mutex that mark_complete only borrows.                              *)
TypeOK ==
    /\ state \in States
    /\ mutex \in Waiters \cup Poisoners \cup {None}
    /\ sleepers \in SUBSET Waiters
    /\ pc \in [Threads -> WaiterPoints \cup PoisonerPoints]
    /\ \A w \in Waiters : pc[w] \in WaiterPoints
    /\ \A c \in Completers : pc[c] \in {"idle", "notify", "done"}
    /\ \A p \in Poisoners : pc[p] \in PoisonerPoints
    /\ result \in [Waiters -> States]

(* The mutex is held by exactly the thread inside a critical section.      *)
MutualExclusion ==
    \A t \in Threads :
        mutex = t <=> \/ t \in Waiters /\ pc[t] \in {"check", "sleep"}
                      \/ t \in Poisoners /\ pc[t] \in {"locked", "notify"}

(* No lost wakeup: whoever sleeps although the lock has been completed or  *)
(* poisoned is about to be notified.                                       *)
NoLostWakeup ==
    sleepers # {} /\ state # "Incomplete" =>
        \E t \in Completers \cup Poisoners : pc[t] = "notify"

Signal == INSTANCE CompleteSignal WITH
    outcome <- [w \in Waiters |-> IF pc[w] = "idle" THEN "none"
                                  ELSE IF pc[w] = "done" THEN result[w]
                                  ELSE "waiting"]

(* The lock implements the signal: a completed lock stays complete, a      *)
(* poison does not override a completion, a waiter returns the state and   *)
(* never Incomplete.                                                       *)
RefinesSignal == Signal!Spec

(* Every waiter returns once the lock has been completed or poisoned,      *)
(* however its check interleaves with the notification: the liveness part  *)
(* of the signal.                                                          *)
WaitersReturn ==
    \A w \in Waiters :
        (pc[w] # "idle" /\ state # "Incomplete") ~> pc[w] = "done"
=============================================================================
