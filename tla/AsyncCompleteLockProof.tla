----------------------- MODULE AsyncCompleteLockProof -----------------------
(***************************************************************************)
(* Proofs about AsyncCompleteLock, for any sets of tasks.  Although its    *)
(* waiters may miss a notification, so that they need not return, what     *)
(* they do return is right: the lock implements the safety part of         *)
(* CompleteSignal.                                                         *)
(***************************************************************************)
EXTENDS AsyncCompleteLock, TLAPS

(* The mutex is held across a step by the poisoner that is between taking  *)
(* and dropping its guard, and by nobody else.                             *)
GuardHeld == \A p \in Poisoners : pc[p] \in {"locked", "notify"} <=> mutex = p

IInv == TypeOK /\ GuardHeld

-----------------------------------------------------------------------------
LEMMA InitTyped == Init => IInv
BY TasksAssumption
   DEF Init, IInv, TypeOK, GuardHeld, Tasks, States, WaiterPoints, PoisonerPoints

LEMMA StepTyped ==
    ASSUME IInv, [Next]_vars
    PROVE  IInv'
<1> USE TasksAssumption DEF IInv, TypeOK, GuardHeld, Tasks, States, WaiterPoints,
        PoisonerPoints, At, Goto
<1>1. CASE UNCHANGED vars
  BY <1>1 DEF vars
<1>2. ASSUME NEW w \in Waiters, WaitCall(w) \/ CheckFails(w) PROVE IInv'
  BY <1>2 DEF WaitCall, CheckFails
<1>3. ASSUME NEW w \in Waiters, CheckSucceeds(w) PROVE IInv'
  BY <1>3 DEF CheckSucceeds
<1>4. ASSUME NEW w \in Waiters, Register(w) \/ Notified(w) PROVE IInv'
  BY <1>4 DEF Register, Notified
<1>5. ASSUME NEW c \in Completers, MarkComplete(c) \/ MarkNotify(c) PROVE IInv'
  BY <1>5 DEF MarkComplete, MarkNotify
<1>6. ASSUME NEW p \in Poisoners, PoisonLock(p) PROVE IInv'
  BY <1>6 DEF PoisonLock
<1>7. ASSUME NEW p \in Poisoners, PoisonSet(p) PROVE IInv'
  BY <1>7 DEF PoisonSet
<1>8. ASSUME NEW p \in Poisoners, PoisonSkip(p) \/ PoisonNotify(p) PROVE IInv'
  BY <1>8 DEF PoisonSkip, PoisonNotify
<1> QED BY <1>1, <1>2, <1>3, <1>4, <1>5, <1>6, <1>7, <1>8 DEF Next, Wait

(* The lock's variables keep their types, and the mutex is held across a   *)
(* step only by a poisoner that is between locking and returning.          *)
THEOREM GuardCorrect == Spec => [](TypeOK /\ GuardHeld)
<1>1. IInv => TypeOK /\ GuardHeld
  BY DEF IInv
<1> QED BY <1>1, InitTyped, StepTyped, PTL DEF Spec

-----------------------------------------------------------------------------
(* The asynchronous lock implements the signal: the store of mark_complete *)
(* and that of poison are the abstract completion and poisoning, the check *)
(* that finds the lock done is the abstract return, and everything else,   *)
(* the registration that may come too late included, is a stutter.         *)
THEOREM Refinement == Spec => RefinesSignal
<1> DEFINE out == [w \in Waiters |-> IF pc[w] = "idle" THEN "none"
                                     ELSE IF pc[w] = "done" THEN result[w]
                                     ELSE "waiting"]
<1>1. Init => Signal!Init
  BY DEF Init, Signal!Init, Tasks
<1>2. IInv /\ [Next]_vars => [Signal!Next]_<<state, out>>
  <2> SUFFICES ASSUME IInv, [Next]_vars PROVE [Signal!Next]_<<state, out>>
    OBVIOUS
  <2> USE TasksAssumption DEF Tasks, IInv, TypeOK, At, Goto
  <2>1. CASE UNCHANGED vars
    BY <2>1 DEF vars
  <2>2. ASSUME NEW w \in Waiters, WaitCall(w) PROVE Signal!Wait(w)
    BY <2>2 DEF WaitCall, Signal!Wait
  <2>3. ASSUME NEW w \in Waiters, CheckSucceeds(w) PROVE Signal!Return(w)
    BY <2>3 DEF CheckSucceeds, Signal!Return
  <2>4. ASSUME NEW w \in Waiters, CheckFails(w) \/ Register(w) \/ Notified(w)
        PROVE  UNCHANGED <<state, out>>
    BY <2>4 DEF CheckFails, Register, Notified
  <2>5. ASSUME NEW c \in Completers, MarkComplete(c) PROVE Signal!MarkComplete
    BY <2>5 DEF MarkComplete, Signal!MarkComplete
  <2>6. ASSUME NEW c \in Completers, MarkNotify(c) PROVE UNCHANGED <<state, out>>
    BY <2>6 DEF MarkNotify
  <2>7. ASSUME NEW p \in Poisoners, PoisonSet(p) PROVE Signal!Poison
    BY <2>7 DEF PoisonSet, Signal!Poison
  <2>8. ASSUME NEW p \in Poisoners, PoisonLock(p) \/ PoisonSkip(p) \/ PoisonNotify(p)
        PROVE  UNCHANGED <<state, out>>
    BY <2>8 DEF PoisonLock, PoisonSkip, PoisonNotify
  <2> QED BY <2>1, <2>2, <2>3, <2>4, <2>5, <2>6, <2>7, <2>8 DEF Next, Wait, Signal!Next
<1> QED BY <1>1, <1>2, InitTyped, StepTyped, PTL DEF Spec, RefinesSignal, Signal!Spec
=============================================================================
