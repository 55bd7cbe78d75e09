--------------------------- MODULE RoiQueueProof ---------------------------
(***************************************************************************)
(* Proofs about RoiQueue, for any finite set of users and any width.       *)
(*                                                                         *)
(* Typing holds whatever the width.  The rest needs the width to exceed    *)
(* the peak demand, Cardinality(Users) < Modulus; the run RoiQueueWrap     *)
(* shows what happens without it.  Uniqueness is not inductive, since a    *)
(* fetch_add returns the counter and nothing in UniqueIds says that no     *)
(* user holds it.  The strengthening says where every identifier is        *)
(* (Accounted) and that the counter leaves room for the users that missed  *)
(* (CounterWithinDemand), so that it cannot wrap.                          *)
(***************************************************************************)
EXTENDS RoiQueue, FiniteSetTheorems, TLAPS

(* A user between the two halves of get() holds nothing.                   *)
MissedHoldNothing == \A u \in missed : held[u] = None

IInv ==
    TypeOK /\ MissedHoldNothing /\ Accounted /\ UniqueIds /\ CounterWithinDemand

-----------------------------------------------------------------------------
(* The queue's variables keep their types, whatever the width: the counter *)
(* stays a value of IpfiInteger and only such values circulate.            *)
THEOREM TypeCorrect == Spec => []TypeOK
<1> USE ModulusAssumption DEF Ids
<1>1. Init => TypeOK
  BY DEF Init, TypeOK
<1>2. TypeOK /\ [Next]_vars => TypeOK'
  <2> SUFFICES ASSUME TypeOK, [Next]_vars PROVE TypeOK'
    OBVIOUS
  <2> USE DEF TypeOK
  <2>1. CASE UNCHANGED vars
    BY <2>1 DEF vars
  <2>2. ASSUME NEW u \in Users, GetRelinquished(u) PROVE TypeOK'
    BY <2>2 DEF GetRelinquished
  <2>3. ASSUME NEW u \in Users, GetMiss(u) PROVE TypeOK'
    BY <2>3 DEF GetMiss
  <2>4. ASSUME NEW u \in Users, GetFetchAdd(u) PROVE TypeOK'
    BY <2>4 DEF GetFetchAdd
  <2>5. ASSUME NEW u \in Users, Relinquish(u) PROVE TypeOK'
    <3>1. held[u] \in Ids
      BY <2>5 DEF Relinquish
    <3> QED BY <3>1, <2>5 DEF Relinquish
  <2> QED BY <2>1, <2>2, <2>3, <2>4, <2>5 DEF Next
<1> QED BY <1>1, <1>2, PTL DEF Spec

-----------------------------------------------------------------------------
(* The heart of the matter: when a pop misses, every identifier below the  *)
(* counter is in some user's hands, and neither the user that misses nor   *)
(* those that missed before it hold any.                                   *)
LEMMA MissLeavesRoom ==
    ASSUME IInv, NEW u \in Users, GetMiss(u)
    PROVE  CounterWithinDemand'
<1> USE UsersAssumption, NoneAssumption, ModulusAssumption DEF Ids
<1> DEFINE below   == 0 .. (counter - 1)
           others  == Users \ (missed \cup {u})
           holder  == [i \in below |-> CHOOSE v \in Users : held[v] = i]
<1>1. TypeOK /\ Accounted /\ MissedHoldNothing
  BY DEF IInv
<1>2. relinquished = <<>> /\ held[u] = None /\ u \notin missed
  BY DEF GetMiss, Idle
<1>3. \A i \in below : \E v \in Users : held[v] = i
  BY <1>1, <1>2 DEF Accounted, Queued, TypeOK
<1>4. \A i \in below : holder[i] \in others /\ held[holder[i]] = i
  BY <1>1, <1>2, <1>3 DEF MissedHoldNothing, TypeOK
<1>5. holder \in Injection(below, others)
  BY <1>4 DEF Injection, IsInjective
<1>6. IsFiniteSet(missed) /\ IsFiniteSet(missed \cup {u}) /\ IsFiniteSet(others)
  BY <1>1, FS_Subset DEF TypeOK
<1>7. counter <= Cardinality(others)
  <2>1. counter \in Nat
    BY <1>1 DEF TypeOK
  <2>2. IsFiniteSet(below) /\ Cardinality(below) = counter
    BY <2>1, FS_Interval
  <2> HIDE DEF below, others, holder
  <2> QED BY <1>5, <1>6, <2>2, FS_Injection
<1>8. Cardinality(missed \cup {u}) = Cardinality(missed) + 1
  BY <1>2, <1>6, FS_AddElement
<1>9. Cardinality(others) = Cardinality(Users) - Cardinality(missed \cup {u})
  BY <1>1, <1>6, FS_Difference, Users \cap (missed \cup {u}) = missed \cup {u} 
     DEF TypeOK
<1>10. Cardinality(Users) \in Nat /\ Cardinality(missed) \in Nat 
         /\ Cardinality(others) \in Nat /\ counter \in Nat
  BY <1>1, <1>6, FS_CardinalityType DEF TypeOK
<1> HIDE DEF others
<1> QED BY <1>7, <1>8, <1>9, <1>10 DEF GetMiss, CounterWithinDemand

(* Every step keeps the whole of the invariant.                            *)
LEMMA StepKeepsIInv ==
    ASSUME Cardinality(Users) < Modulus, IInv, TypeOK', [Next]_vars
    PROVE  IInv'
<1> USE UsersAssumption, NoneAssumption, ModulusAssumption DEF Ids
<1>1. CASE UNCHANGED vars
  <2>1. MissedHoldNothing' /\ CounterWithinDemand' /\ UniqueIds'
    BY <1>1 DEF vars, IInv, MissedHoldNothing, CounterWithinDemand, UniqueIds
  <2>2. Accounted'
    BY <1>1 DEF vars, IInv, Accounted, Queued
  <2> QED BY <2>1, <2>2 DEF IInv
<1>2. ASSUME NEW u \in Users, GetRelinquished(u) PROVE IInv'
  <2>1. /\ held[u] = None /\ u \notin missed
        /\ relinquished \in Seq(0 .. (Modulus - 1)) /\ relinquished # <<>>
    BY <1>2 DEF GetRelinquished, Idle, IInv, TypeOK
  <2>2. /\ Len(relinquished') = Len(relinquished) - 1
        /\ \A k \in 1 .. Len(relinquished') : relinquished'[k] = relinquished[k + 1]
        /\ Head(relinquished) = relinquished[1] /\ Len(relinquished) \in Nat \ {0}
    BY <1>2, <2>1 DEF GetRelinquished
  <2>3. Head(relinquished) \in Queued /\ Queued' = Queued \ {Head(relinquished)}
    <3>1. \A j, k \in 1 .. Len(relinquished) : j # k => relinquished[j] # relinquished[k]
      BY DEF IInv, Accounted
    <3>2. \A k \in 2 .. Len(relinquished) :
             k - 1 \in 1 .. Len(relinquished') /\ relinquished'[k - 1] = relinquished[k]
      BY <2>2
    <3>3. \A i \in Queued' : i \in Queued \ {Head(relinquished)}
      BY <3>1, <2>2 DEF Queued
    <3>4. \A i \in Queued \ {Head(relinquished)} : i \in Queued'
      BY <3>2, <2>2 DEF Queued
    <3>5. Head(relinquished) \in Queued
      BY <2>2 DEF Queued
    <3> QED BY <3>3, <3>4, <3>5
  <2>4. Accounted'
    BY <1>2, <2>1, <2>2, <2>3 
       DEF GetRelinquished, IInv, Accounted, TypeOK
  <2>5. MissedHoldNothing' /\ CounterWithinDemand' /\ UniqueIds'
    BY <1>2, <2>1, <2>3 DEF GetRelinquished, IInv, Accounted, UniqueIds, MissedHoldNothing, CounterWithinDemand, TypeOK
  <2> QED BY <2>4, <2>5 DEF IInv
<1>3. ASSUME NEW u \in Users, GetMiss(u) PROVE IInv'
  <2>1. CounterWithinDemand'
    BY <1>3, MissLeavesRoom
  <2>2. MissedHoldNothing' /\ Accounted' /\ UniqueIds'
    BY <1>3 DEF GetMiss, Idle, IInv, MissedHoldNothing, UniqueIds, Accounted, Queued
  <2> QED BY <2>1, <2>2 DEF IInv
<1>4. ASSUME NEW u \in Users, GetFetchAdd(u) PROVE IInv'
  <2>1. IsFiniteSet(missed) /\ u \in missed /\ counter \in Nat
    BY <1>4, FS_Subset DEF GetFetchAdd, IInv, TypeOK
  <2>2. Cardinality(missed') = Cardinality(missed) - 1
    BY <1>4, <2>1, FS_RemoveElement DEF GetFetchAdd
  <2>3. /\ Cardinality(missed) \in Nat /\ Cardinality(missed') \in Nat
        /\ Cardinality(Users) \in Nat
    BY <1>4, <2>1, FS_CardinalityType, FS_RemoveElement DEF GetFetchAdd
  <2>4. counter' = counter + 1
    <3>1. counter + 1 \in 0 .. (Modulus - 1)
      BY <2>1, <2>2, <2>3 DEF IInv, CounterWithinDemand
    <3>2. (counter + 1) % Modulus = counter + 1
      BY <3>1
    <3> QED BY <3>2, <1>4 DEF GetFetchAdd
  <2>5. CounterWithinDemand'
    BY <2>1, <2>2, <2>3, <2>4 DEF IInv, CounterWithinDemand
  <2>6. Accounted'
    <3>1. /\ Accounted /\ held[u] = None /\ relinquished' = relinquished
          /\ Queued' = Queued /\ Queued \subseteq Nat
      BY <1>4, <2>1 DEF GetFetchAdd, IInv, MissedHoldNothing, Queued, TypeOK
    <3>2. \A v \in Users : held'[v] = IF v = u THEN counter ELSE held[v]
      BY <1>4 DEF GetFetchAdd, IInv, TypeOK
    <3>3. \A v \in Users : held[v] = None \/ held[v] \in Nat
      BY DEF IInv, TypeOK
    <3>4. \A i \in 0 .. (counter' - 1) : i \in Queued' \/ \E v \in Users : held'[v] = i
      <4> SUFFICES ASSUME NEW i \in 0 .. counter, i \notin Queued
                   PROVE  \E v \in Users : held'[v] = i
        BY <2>1, <2>4, <3>1
      <4>1. CASE i = counter
        BY <2>1, <3>2, <4>1
      <4>2. CASE i \in 0 .. (counter - 1)
        BY <3>1, <3>2, <4>2 DEF Accounted
      <4> QED BY <2>1, <4>1, <4>2
    <3>5. \A i \in Queued' : i < counter' /\ \A v \in Users : held'[v] # i
      BY <2>1, <2>4, <3>1, <3>2 DEF Accounted
    <3>6. \A v \in Users : held'[v] # None => held'[v] < counter'
      BY <2>1, <2>4, <3>1, <3>2, <3>3 DEF Accounted
    <3> QED BY <3>1, <3>4, <3>5, <3>6 DEF Accounted
  <2>7. MissedHoldNothing' /\ UniqueIds'
    BY <1>4, <2>1 DEF GetFetchAdd, IInv, Accounted, UniqueIds, MissedHoldNothing, TypeOK
  <2> QED BY <2>5, <2>6, <2>7 DEF IInv
<1>5. ASSUME NEW u \in Users, Relinquish(u) PROVE IInv'
  <2>1. held[u] \in 0 .. (Modulus - 1) /\ relinquished \in Seq(0 .. (Modulus - 1))
    BY <1>5 DEF Relinquish, IInv, TypeOK
  <2>2. /\ Len(relinquished') = Len(relinquished) + 1
        /\ \A k \in 1 .. Len(relinquished) : relinquished'[k] = relinquished[k]
        /\ relinquished'[Len(relinquished')] = held[u]
        /\ Len(relinquished) \in Nat
    BY <1>5, <2>1 DEF Relinquish
  <2>3. Queued' = Queued \cup {held[u]}
    BY <2>2 DEF Queued
  <2>4. UniqueIds
    BY DEF IInv
  <2>5. Accounted'
    <3>1. Accounted /\ counter' = counter /\ counter \in Nat
      BY <1>5 DEF Relinquish, IInv, TypeOK
    <3>2. \A v \in Users : held'[v] = IF v = u THEN None ELSE held[v]
      BY <1>5 DEF Relinquish, IInv, TypeOK
    <3>3. \A i \in 0 .. (counter' - 1) : i \in Queued' \/ \E v \in Users : held'[v] = i
      BY <2>3, <3>1, <3>2 DEF Accounted
    <3>4. \A i \in Queued' : i < counter' /\ \A v \in Users : held'[v] # i
      <4>1. held[u] < counter /\ held[u] # None
        BY <1>5, <3>1 DEF Relinquish, Accounted
      <4>2. \A v \in Users : held'[v] # held[u]
        BY <2>4, <3>2, <4>1 DEF UniqueIds
      <4>3. \A i \in Queued : i < counter /\ \A v \in Users : held'[v] # i
        BY <2>1, <3>1, <3>2, <4>1 DEF Accounted, Queued, IInv, TypeOK
      <4> QED BY <2>3, <3>1, <4>1, <4>2, <4>3
    <3>5. \A v \in Users : held'[v] # None => held'[v] < counter'
      BY <3>1, <3>2 DEF Accounted
    <3>6. \A j, k \in 1 .. Len(relinquished') :
             j # k => relinquished'[j] # relinquished'[k]
      <4>1. \A j \in 1 .. Len(relinquished) : relinquished[j] # held[u]
        BY <3>1 DEF Accounted, Queued
      <4> QED BY <2>2, <3>1, <4>1 DEF Accounted
    <3> QED BY <3>3, <3>4, <3>5, <3>6 DEF Accounted
  <2>6. MissedHoldNothing' /\ CounterWithinDemand' /\ UniqueIds'
    BY <1>5, <2>1 DEF Relinquish, IInv, UniqueIds, MissedHoldNothing, CounterWithinDemand, TypeOK
  <2> QED BY <2>5, <2>6 DEF IInv
<1> QED BY <1>1, <1>2, <1>3, <1>4, <1>5 DEF Next

LEMMA InvariantHolds == 
    ASSUME Cardinality(Users) < Modulus
    PROVE  Spec => []IInv
<1>1. Init => IInv
  <2> SUFFICES ASSUME Init PROVE IInv
    OBVIOUS
  <2>1. TypeOK
    BY ModulusAssumption DEF Init, TypeOK, Ids
  <2>2. MissedHoldNothing /\ UniqueIds /\ Accounted
    BY DEF Init, MissedHoldNothing, UniqueIds, Accounted, Queued
  <2>3. CounterWithinDemand
    BY UsersAssumption, FS_EmptySet, FS_CardinalityType DEF Init, CounterWithinDemand
  <2> QED BY <2>1, <2>2, <2>3 DEF IInv
<1>2. IInv /\ TypeOK' /\ [Next]_vars => IInv'
  BY StepKeepsIInv
<1> QED BY <1>1, <1>2, TypeCorrect, PTL DEF Spec

-----------------------------------------------------------------------------
(* While there are fewer users than values of the integer, get() returns   *)
(* an identifier nobody else holds, whatever the interleaving of the two   *)
(* halves of get() with other gets and relinquishes.                       *)
THEOREM UniqueIdsHolds ==
    ASSUME Cardinality(Users) < Modulus
    PROVE  Spec => []UniqueIds
<1>1. IInv => UniqueIds
  BY DEF IInv
<1> QED BY <1>1, InvariantHolds, PTL

(* No identifier is lost or in two places.                                 *)
THEOREM AccountedHolds ==
    ASSUME Cardinality(Users) < Modulus
    PROVE  Spec => []Accounted
<1>1. IInv => Accounted
  BY DEF IInv
<1> QED BY <1>1, InvariantHolds, PTL

(* The counter never exceeds the number of users, missed ones included:    *)
(* the queue reuses before it increments.                                  *)
THEOREM CounterWithinDemandHolds ==
    ASSUME Cardinality(Users) < Modulus
    PROVE  Spec => []CounterWithinDemand
<1>1. IInv => CounterWithinDemand
  BY DEF IInv
<1> QED BY <1>1, InvariantHolds, PTL

(* The queue implements the abstract allocator: a hit and a fetch_add are  *)
(* acquisitions, a miss is a stutter.                                      *)
THEOREM Refinement ==
    ASSUME Cardinality(Users) < Modulus
    PROVE  Spec => RefinesAllocator
<1>1. Init => Allocator!Init
  BY DEF Init, Allocator!Init
<1>2. IInv /\ TypeOK' /\ [Next]_vars => [Allocator!Next]_held
  <2> SUFFICES ASSUME IInv, TypeOK', [Next]_vars PROVE [Allocator!Next]_held
    OBVIOUS
  <2>1. CASE UNCHANGED vars
    BY <2>1 DEF vars
  <2>2. ASSUME NEW u \in Users, GetRelinquished(u) PROVE Allocator!Acquire(u)
    <3>1. Head(relinquished) \in Queued /\ Head(relinquished) \in Ids
      BY <2>2 DEF GetRelinquished, Queued, IInv, TypeOK
    <3> QED BY <2>2, <3>1 DEF GetRelinquished, Idle, Allocator!Acquire, IInv, Accounted
  <2>3. ASSUME NEW u \in Users, GetMiss(u) PROVE UNCHANGED held
    BY <2>3 DEF GetMiss
  <2>4. ASSUME NEW u \in Users, GetFetchAdd(u) PROVE Allocator!Acquire(u)
    <3>1. counter \in Ids /\ held[u] = None
      BY <2>4 DEF GetFetchAdd, IInv, TypeOK, MissedHoldNothing
    <3>2. \A v \in Users : held[v] # counter
      BY <3>1, NoneAssumption, ModulusAssumption DEF IInv, Accounted, TypeOK, Ids
    <3> QED BY <2>4, <3>1, <3>2 DEF GetFetchAdd, Allocator!Acquire
  <2>5. ASSUME NEW u \in Users, Relinquish(u) PROVE Allocator!Release(u)
    BY <2>5 DEF Relinquish, Allocator!Release
  <2> QED BY <2>1, <2>2, <2>3, <2>4, <2>5 DEF Next, Allocator!Next
<1> QED
  BY <1>1, <1>2, InvariantHolds, TypeCorrect, PTL
     DEF Spec, RefinesAllocator, Allocator!Spec
=============================================================================
