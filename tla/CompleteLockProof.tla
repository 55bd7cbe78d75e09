------------------------- MODULE CompleteLockProof -------------------------
(***************************************************************************)
(* Proofs about CompleteLock, for any sets of threads.  Typing and the     *)
(* ownership of the mutex come first; with them, a thread that has decided *)
(* to sleep still holds the mutex, so the state it decided on cannot       *)
(* change, and no wakeup is lost.                                          *)
(***************************************************************************)
EXTENDS CompleteLock, TLAPS

(* A decision to sleep is never out of date.                               *)
SleepDecisionHolds == \A w \in Waiters : pc[w] = "sleep" => state = "Incomplete"

IInv == TypeOK /\ MutualExclusion /\ SleepDecisionHolds /\ NoLostWakeup

-----------------------------------------------------------------------------
(* The lock's variables keep their types and the mutex has one holder, who *)
(* is inside a critical section.                                           *)
THEOREM MutexCorrect == Spec => [](TypeOK /\ MutualExclusion)
<1> USE ThreadsAssumption DEF Threads
<1>1. Init => TypeOK /\ MutualExclusion
  BY DEF Init, TypeOK, MutualExclusion, WaiterPoints, PoisonerPoints, States
<1>2. TypeOK /\ MutualExclusion /\ [Next]_vars => (TypeOK /\ MutualExclusion)'
  <2> SUFFICES ASSUME TypeOK, MutualExclusion, [Next]_vars
               PROVE  TypeOK' /\ MutualExclusion'
    OBVIOUS
  <2> USE DEF TypeOK, MutualExclusion, WaiterPoints, PoisonerPoints, States,
              At, Goto, Lock, Unlock
  <2>1. CASE UNCHANGED vars
    BY <2>1 DEF vars
  <2>2. ASSUME NEW w \in Waiters, WaitCall(w) PROVE TypeOK' /\ MutualExclusion'
    BY <2>2 DEF WaitCall
  <2>3. ASSUME NEW w \in Waiters, WaitLock(w) PROVE TypeOK' /\ MutualExclusion'
    BY <2>3 DEF WaitLock
  <2>4. ASSUME NEW w \in Waiters, WaitCheck(w) PROVE TypeOK' /\ MutualExclusion'
    BY <2>4 DEF WaitCheck
  <2>5. ASSUME NEW w \in Waiters, WaitSleep(w) PROVE TypeOK' /\ MutualExclusion'
    BY <2>5 DEF WaitSleep
  <2>6. ASSUME NEW w \in Waiters, WaitReturn(w) PROVE TypeOK' /\ MutualExclusion'
    BY <2>6 DEF WaitReturn
  <2>7. ASSUME NEW w \in Waiters, WaitRelock(w) PROVE TypeOK' /\ MutualExclusion'
    BY <2>7 DEF WaitRelock
  <2>8. ASSUME NEW w \in Waiters, WakeSpuriously(w) PROVE TypeOK' /\ MutualExclusion'
    BY <2>8 DEF WakeSpuriously
  <2>9. ASSUME NEW c \in Completers, MarkComplete(c) PROVE TypeOK' /\ MutualExclusion'
    BY <2>9 DEF MarkComplete
  <2>10. ASSUME NEW c \in Completers, MarkNotify(c) PROVE TypeOK' /\ MutualExclusion'
    BY <2>10 DEF MarkNotify
  <2>11. ASSUME NEW p \in Poisoners, PoisonLock(p) PROVE TypeOK' /\ MutualExclusion'
    BY <2>11 DEF PoisonLock
  <2>12. ASSUME NEW p \in Poisoners, PoisonSet(p) PROVE TypeOK' /\ MutualExclusion'
    BY <2>12 DEF PoisonSet
  <2>13. ASSUME NEW p \in Poisoners, PoisonSkip(p) PROVE TypeOK' /\ MutualExclusion'
    BY <2>13 DEF PoisonSkip
  <2>14. ASSUME NEW p \in Poisoners, PoisonNotify(p) PROVE TypeOK' /\ MutualExclusion'
    BY <2>14 DEF PoisonNotify
  <2> QED BY <2>1, <2>2, <2>3, <2>4, <2>5, <2>6, <2>7, <2>8, <2>9, <2>10, <2>11,
             <2>12, <2>13, <2>14 DEF Next, Wait
<1> QED BY <1>1, <1>2, PTL DEF Spec

-----------------------------------------------------------------------------
(* A thread that has decided to sleep holds the mutex, and nobody can      *)
(* change the state behind its back.                                       *)
LEMMA SleepDecisionStep ==
    ASSUME TypeOK, MutualExclusion, SleepDecisionHolds, [Next]_vars
    PROVE  SleepDecisionHolds'
<1> USE ThreadsAssumption DEF Threads, SleepDecisionHolds, TypeOK, MutualExclusion,
        At, Goto, Lock, Unlock
<1>1. CASE UNCHANGED vars
  BY <1>1 DEF vars
<1>2. ASSUME NEW w \in Waiters, WaitCall(w) \/ Wait(w) \/ WakeSpuriously(w)
      PROVE  SleepDecisionHolds'
  BY <1>2 DEF WaitCall, Wait, WaitLock, WaitCheck, WaitSleep, WaitReturn,
              WaitRelock, WakeSpuriously
<1>3. ASSUME NEW c \in Completers, MarkComplete(c) \/ MarkNotify(c)
      PROVE  SleepDecisionHolds'
  BY <1>3 DEF MarkComplete, MarkNotify
<1>4. ASSUME NEW p \in Poisoners,
             PoisonLock(p) \/ PoisonSet(p) \/ PoisonSkip(p) \/ PoisonNotify(p)
      PROVE  SleepDecisionHolds'
  BY <1>4 DEF PoisonLock, PoisonSet, PoisonSkip, PoisonNotify
<1> QED BY <1>1, <1>2, <1>3, <1>4 DEF Next

LEMMA NoLostWakeupStep ==
    ASSUME TypeOK, SleepDecisionHolds, NoLostWakeup, [Next]_vars
    PROVE  NoLostWakeup'
<1> USE ThreadsAssumption DEF Threads, TypeOK, NoLostWakeup, At, Goto, Lock, Unlock
<1>1. CASE UNCHANGED vars
  BY <1>1 DEF vars
<1>2. ASSUME NEW w \in Waiters, WaitSleep(w) PROVE NoLostWakeup'
  <2>1. state' = "Incomplete"
    BY <1>2 DEF WaitSleep, SleepDecisionHolds
  <2> QED BY <2>1
<1>3. ASSUME NEW w \in Waiters,
             \/ WaitCall(w) \/ WaitLock(w) \/ WaitCheck(w) \/ WaitReturn(w)
             \/ WaitRelock(w) \/ WakeSpuriously(w)
      PROVE  NoLostWakeup'
  <2>1. sleepers' \subseteq sleepers /\ state' = state
    BY <1>3 DEF WaitCall, WaitLock, WaitCheck, WaitReturn, WaitRelock, WakeSpuriously
  <2>2. \A t \in Completers \cup Poisoners : pc'[t] = pc[t]
    BY <1>3 DEF WaitCall, WaitLock, WaitCheck, WaitReturn, WaitRelock, WakeSpuriously
  <2> QED BY <2>1, <2>2
<1>4. ASSUME NEW c \in Completers, MarkComplete(c) PROVE NoLostWakeup'
  BY <1>4 DEF MarkComplete
<1>5. ASSUME NEW c \in Completers, MarkNotify(c) PROVE NoLostWakeup'
  BY <1>5 DEF MarkNotify
<1>6. ASSUME NEW p \in Poisoners, PoisonLock(p) PROVE NoLostWakeup'
  BY <1>6 DEF PoisonLock
<1>7. ASSUME NEW p \in Poisoners, PoisonSet(p) PROVE NoLostWakeup'
  BY <1>7 DEF PoisonSet
<1>8. ASSUME NEW p \in Poisoners, PoisonSkip(p) PROVE NoLostWakeup'
  BY <1>8 DEF PoisonSkip
<1>9. ASSUME NEW p \in Poisoners, PoisonNotify(p) PROVE NoLostWakeup'
  BY <1>9 DEF PoisonNotify
<1> QED BY <1>1, <1>2, <1>3, <1>4, <1>5, <1>6, <1>7, <1>8, <1>9 DEF Next, Wait

LEMMA InvariantHolds == Spec => []IInv
<1>1. Init => IInv
  <2> SUFFICES ASSUME Init PROVE IInv
    OBVIOUS
  <2>1. TypeOK
    BY ThreadsAssumption
       DEF Init, TypeOK, Threads, WaiterPoints, PoisonerPoints, States
  <2>2. MutualExclusion /\ SleepDecisionHolds /\ NoLostWakeup
    BY ThreadsAssumption
       DEF Init, MutualExclusion, SleepDecisionHolds, NoLostWakeup, Threads
  <2> QED BY <2>1, <2>2 DEF IInv
<1>2. IInv /\ (TypeOK /\ MutualExclusion)' /\ [Next]_vars => IInv'
  BY SleepDecisionStep, NoLostWakeupStep DEF IInv
<1> QED BY <1>1, <1>2, MutexCorrect, PTL DEF Spec

(* No wakeup is lost: whoever sleeps on the Condvar although the lock is   *)
(* complete or poisoned is about to be notified.                           *)
THEOREM NoLostWakeupHolds == Spec => []NoLostWakeup
<1>1. IInv => NoLostWakeup
  BY DEF IInv
<1> QED BY <1>1, InvariantHolds, PTL

(* The lock implements the signal: setting the state is the abstract       *)
(* completion or poisoning, the locked check of a returning waiter is the  *)
(* abstract return, everything else is a stutter.                          *)
THEOREM Refinement == Spec => RefinesSignal
<1> DEFINE out == [w \in Waiters |-> IF pc[w] = "idle" THEN "none"
                                     ELSE IF pc[w] = "done" THEN result[w]
                                     ELSE "waiting"]
<1>1. Init => Signal!Init
  BY DEF Init, Signal!Init, Threads
<1>2. TypeOK /\ MutualExclusion /\ TypeOK' /\ [Next]_vars
        => [Signal!Next]_<<state, out>>
  <2> SUFFICES ASSUME TypeOK, TypeOK', [Next]_vars PROVE [Signal!Next]_<<state, out>>
    OBVIOUS
  <2> USE ThreadsAssumption DEF Threads, TypeOK, At, Goto, Lock, Unlock
  <2>1. CASE UNCHANGED vars
    BY <2>1 DEF vars
  <2>2. ASSUME NEW w \in Waiters, WaitCall(w) PROVE Signal!Wait(w)
    BY <2>2 DEF WaitCall, Signal!Wait
  <2>3. ASSUME NEW w \in Waiters, WaitReturn(w) PROVE Signal!Return(w)
    BY <2>3 DEF WaitReturn, Signal!Return
  <2>4. ASSUME NEW w \in Waiters,
               \/ WaitLock(w) \/ WaitCheck(w) \/ WaitSleep(w)
               \/ WaitRelock(w) \/ WakeSpuriously(w)
        PROVE  UNCHANGED <<state, out>>
    BY <2>4 DEF WaitLock, WaitCheck, WaitSleep, WaitRelock, WakeSpuriously
  <2>5. ASSUME NEW c \in Completers, MarkComplete(c) PROVE Signal!MarkComplete
    BY <2>5 DEF MarkComplete, Signal!MarkComplete
  <2>6. ASSUME NEW c \in Completers, MarkNotify(c) PROVE UNCHANGED <<state, out>>
    BY <2>6 DEF MarkNotify
  <2>7. ASSUME NEW p \in Poisoners, PoisonSet(p) PROVE Signal!Poison
    BY <2>7 DEF PoisonSet, Signal!Poison
  <2>8. ASSUME NEW p \in Poisoners, PoisonLock(p) \/ PoisonSkip(p) \/ PoisonNotify(p)
        PROVE  UNCHANGED <<state, out>>
    BY <2>8 DEF PoisonLock, PoisonSkip, PoisonNotify
  <2> QED BY <2>1, <2>2, <2>3, <2>4, <2>5, <2>6, <2>7, <2>8 DEF Next, Wait, Signal!Next
<1> QED BY <1>1, <1>2, MutexCorrect, PTL DEF Spec, RefinesSignal, Signal!Spec
=============================================================================
