-------------------------- MODULE CallBuffersProof --------------------------
(***************************************************************************)
(* Proofs about CallBuffers, for any wires, calls and limits.              *)
(***************************************************************************)
EXTENDS CallBuffers, FiniteSetTheorems, SequenceTheorems, TLAPS

-----------------------------------------------------------------------------
(* The limit.  A reader that has found room for a call and has not yet     *)
(* registered it keeps that room, because nobody else registers calls on   *)
(* its wire; a streaming procedure may end in between and only make more.  *)
Admitted == {"get", "push", "map", "register"}

Room(w) ==
    reader[w].pc \in Admitted =>
        Cardinality(ongoing_procedures[w] \cup {Call(w)}) <= MaxOngoing

ReaderShape ==
    /\ DOMAIN reader = Wires
    /\ \A w \in Wires : DOMAIN reader[w] = {"pc", "call", "buf"}

LimitInv ==
    /\ ReaderShape
    /\ DOMAIN ongoing_procedures = Wires
    /\ \A w \in Wires :
         /\ IsFiniteSet(ongoing_procedures[w])
         /\ Cardinality(ongoing_procedures[w]) <= MaxOngoing
         /\ Room(w)

(* A step of a reader that registers nothing and neither finds nor uses    *)
(* room.                                                                   *)
LEMMA Elsewhere ==
    ASSUME LimitInv, NEW w \in Wires, reader'[w].pc \notin Admitted,
           DOMAIN reader' = Wires, DOMAIN reader'[w] = {"pc", "call", "buf"},
           \A v \in Wires \ {w} : reader'[v] = reader[v],
           UNCHANGED ongoing_procedures
    PROVE  LimitInv'
BY DEF LimitInv, Room, At, Call, Admitted, ReaderShape

(* One that moves on with the room it has.                                 *)
LEMMA Onward ==
    ASSUME LimitInv, NEW w \in Wires, reader[w].pc \in Admitted,
           DOMAIN reader' = Wires, DOMAIN reader'[w] = {"pc", "call", "buf"},
           reader'[w].call = reader[w].call, \A v \in Wires \ {w} : reader'[v] = reader[v],
           UNCHANGED ongoing_procedures
    PROVE  LimitInv'
BY DEF LimitInv, Room, At, Call, Admitted, ReaderShape

(* A call is let in because it is there already or there is room.          *)
LEMMA ReceiveKeepsLimit ==
    ASSUME LimitInv, NEW w \in Wires, NEW c \in Calls, Receive(w, c)
    PROVE  LimitInv'
<1>1. CASE Fits(w, c)
  <2>1. reader' = [reader EXCEPT ![w] = [pc |-> "get", call |-> c, buf |-> None]]
    BY <1>1 DEF Receive
  <2>2. /\ reader'[w].call = c /\ \A v \in Wires \ {w} : reader'[v] = reader[v]
        /\ ReaderShape'
    BY <2>1 DEF LimitInv, ReaderShape
  <2>3. IsFiniteSet(ongoing_procedures[w]) /\ Cardinality(ongoing_procedures[w]) \in Nat
    BY FS_CardinalityType DEF LimitInv
  <2>4. Cardinality(ongoing_procedures[w] \cup {c}) <= MaxOngoing
    <3>1. CASE c \in ongoing_procedures[w]
      <4>1. ongoing_procedures[w] \cup {c} = ongoing_procedures[w]
        BY <3>1
      <4> QED BY <4>1 DEF LimitInv
    <3>2. CASE c \notin ongoing_procedures[w]
      <4>1. Cardinality(ongoing_procedures[w] \cup {c}) = Cardinality(ongoing_procedures[w]) + 1
        BY <2>3, <3>2, FS_AddElement
      <4> QED BY <1>1, <2>3, <3>2, <4>1, PiecesAssumption DEF Fits
    <3> QED BY <3>1, <3>2
  <2>5. UNCHANGED ongoing_procedures
    BY DEF Receive, calls
  <2> QED BY <2>2, <2>4, <2>5 DEF LimitInv, Room, At, Call
<1>2. CASE ~Fits(w, c)
  BY <1>2 DEF Receive, calls, LimitInv, ReaderShape, Room, At, Call
<1> QED BY <1>1, <1>2

(* Calls that are taken off the list leave room.                           *)
LEMMA FewerKeepLimit ==
    ASSUME LimitInv, DOMAIN ongoing_procedures' = Wires, UNCHANGED reader,
           \A w \in Wires : ongoing_procedures'[w] \subseteq ongoing_procedures[w]
    PROVE  LimitInv'
<1> SUFFICES ASSUME NEW w \in Wires
             PROVE  /\ IsFiniteSet(ongoing_procedures'[w])
                    /\ Cardinality(ongoing_procedures'[w]) <= MaxOngoing
                    /\ Room(w)'
  BY DEF LimitInv, ReaderShape
<1> DEFINE before == ongoing_procedures[w] \cup {Call(w)}
           after == ongoing_procedures'[w] \cup {Call(w)}
<1>1. IsFiniteSet(ongoing_procedures[w]) /\ IsFiniteSet(before)
  BY FS_AddElement DEF LimitInv
<1>2. /\ IsFiniteSet(ongoing_procedures'[w])
      /\ Cardinality(ongoing_procedures'[w]) <= Cardinality(ongoing_procedures[w])
  BY <1>1, FS_Subset
<1>3. after \subseteq before
  OBVIOUS
<1>4. IsFiniteSet(after) /\ Cardinality(after) <= Cardinality(before)
  <2> HIDE DEF before, after
  <2> QED BY <1>1, <1>3, FS_Subset
<1>5. /\ Cardinality(ongoing_procedures[w]) \in Nat /\ Cardinality(before) \in Nat
      /\ Cardinality(ongoing_procedures'[w]) \in Nat /\ Cardinality(after) \in Nat
  BY <1>1, <1>2, <1>4, FS_CardinalityType
<1>6. Cardinality(ongoing_procedures'[w]) <= MaxOngoing
  BY <1>2, <1>5, PiecesAssumption DEF LimitInv
<1>7. Room(w)'
  <2>1. Call(w)' = Call(w) /\ reader' = reader
    BY DEF Call
  <2> HIDE DEF before
  <2>2. Cardinality(before) <= MaxOngoing => Cardinality(after) <= MaxOngoing
    BY <1>4, <1>5, PiecesAssumption
  <2> QED BY <2>1, <2>2 DEF LimitInv, Room, At, before
<1> QED BY <1>2, <1>6, <1>7

(* The reader's steps, of which Register uses up the room it has.          *)
LEMMA ReaderKeepsLimit ==
    ASSUME LimitInv, NEW w \in Wires, ReaderStep(w) \/ StopReading(w)
    PROVE  LimitInv'
<1>1. CASE GetBuffer(w, "get", "push", "register")
  <2>1. /\ reader[w].pc = "get" /\ UNCHANGED ongoing_procedures
        /\ \E p, b : reader' = [reader EXCEPT ![w].pc = p, ![w].buf = b]
    BY <1>1 DEF GetBuffer, At, calls
  <2>2. PICK p, b : reader' = [reader EXCEPT ![w].pc = p, ![w].buf = b]
    BY <2>1
  <2>3. /\ DOMAIN reader' = Wires /\ DOMAIN reader'[w] = {"pc", "call", "buf"}
        /\ reader'[w].call = reader[w].call /\ \A v \in Wires \ {w} : reader'[v] = reader[v]
    BY <2>2 DEF LimitInv, ReaderShape
  <2> QED BY <2>1, <2>3, Onward DEF Admitted
<1>2. CASE PushBuffer(w, "push", "map")
  <2>1. PICK b : /\ reader[w].pc = "push" /\ UNCHANGED ongoing_procedures
                 /\ reader' = [reader EXCEPT ![w].pc = "map", ![w].buf = b]
    BY <1>2 DEF PushBuffer, At, calls
  <2>2. /\ DOMAIN reader' = Wires /\ DOMAIN reader'[w] = {"pc", "call", "buf"}
        /\ reader'[w].call = reader[w].call /\ \A v \in Wires \ {w} : reader'[v] = reader[v]
    BY <2>1 DEF LimitInv, ReaderShape
  <2> QED BY <2>1, <2>2, Onward DEF Admitted
<1>3. CASE MapBuffer(w, "map", "register")
  <2>1. /\ reader[w].pc = "map" /\ UNCHANGED ongoing_procedures
        /\ reader' = [reader EXCEPT ![w].pc = "register"]
    BY <1>3 DEF MapBuffer, At, Goto, calls
  <2>2. /\ DOMAIN reader' = Wires /\ DOMAIN reader'[w] = {"pc", "call", "buf"}
        /\ reader'[w].call = reader[w].call /\ \A v \in Wires \ {w} : reader'[v] = reader[v]
    BY <2>1 DEF LimitInv, ReaderShape
  <2> QED BY <2>1, <2>2, Onward DEF Admitted
<1>4. CASE Register(w)
  <2>1. /\ reader[w].pc = "register" /\ reader' = [reader EXCEPT ![w].pc = "append"]
        /\ ongoing_procedures' =
               [ongoing_procedures EXCEPT ![w] = ongoing_procedures[w] \cup {Call(w)}]
    BY <1>4 DEF Register, At, Goto
  <2>2. /\ IsFiniteSet(ongoing_procedures[w] \cup {Call(w)})
        /\ Cardinality(ongoing_procedures[w] \cup {Call(w)}) <= MaxOngoing
    BY <2>1, FS_AddElement DEF LimitInv, Room, Admitted
  <2>3. /\ reader'[w].pc = "append" /\ ReaderShape'
        /\ \A v \in Wires \ {w} : reader'[v] = reader[v]
    BY <2>1 DEF LimitInv, ReaderShape
  <2> QED BY <2>1, <2>2, <2>3 DEF LimitInv, Room, Call, Admitted
<1>5. CASE Answer(w)
  <2>1. /\ reader[w].pc = "answer" /\ reader' = [reader EXCEPT ![w].pc = "idle"]
        /\ ongoing_procedures' = [ongoing_procedures EXCEPT ![w] =
               IF Call(w) \in Standard THEN @ \ {Call(w)} ELSE @]
    BY <1>5 DEF Answer, At, Goto
  <2>2. /\ reader'[w].pc = "idle" /\ ReaderShape'
        /\ \A v \in Wires \ {w} : reader'[v] = reader[v]
    BY <2>1 DEF LimitInv, ReaderShape
  <2>3. /\ DOMAIN ongoing_procedures' = Wires
        /\ ongoing_procedures'[w] \subseteq ongoing_procedures[w]
        /\ \A v \in Wires \ {w} : ongoing_procedures'[v] = ongoing_procedures[v]
    BY <2>1 DEF LimitInv
  <2>4. /\ IsFiniteSet(ongoing_procedures'[w])
        /\ Cardinality(ongoing_procedures'[w]) <= MaxOngoing
    <3>1. IsFiniteSet(ongoing_procedures[w])
      BY DEF LimitInv
    <3>2. /\ IsFiniteSet(ongoing_procedures'[w])
          /\ Cardinality(ongoing_procedures'[w]) <= Cardinality(ongoing_procedures[w])
      BY <2>3, <3>1, FS_Subset
    <3>3. /\ Cardinality(ongoing_procedures[w]) \in Nat
          /\ Cardinality(ongoing_procedures'[w]) \in Nat
      BY <3>1, <3>2, FS_CardinalityType
    <3> QED BY <3>2, <3>3, PiecesAssumption DEF LimitInv
  <2> QED BY <2>2, <2>3, <2>4 DEF LimitInv, Room, Call, Admitted
<1>6. CASE \/ AppendArguments(w) \/ TerminateArguments(w)
           \/ MapBuffer(w, "map again", "unmap")
           \/ Unmap(w) \/ Run(w) \/ PopArguments(w) \/ StopReading(w)
  <2>1. UNCHANGED ongoing_procedures
    BY <1>6 DEF AppendArguments, TerminateArguments, MapBuffer, Unmap, Run, PopArguments,
                StopReading, calls
  <2>2. PICK p \in {"terminate", "idle", "failed", "find", "unmap", "run", "pop", "answer",
                    "stopped"} : Goto(w, p)
    BY <1>6 DEF AppendArguments, TerminateArguments, MapBuffer, Unmap, Run, PopArguments,
                StopReading
  <2>3. /\ DOMAIN reader' = Wires /\ DOMAIN reader'[w] = {"pc", "call", "buf"}
        /\ reader'[w].pc \notin Admitted /\ \A v \in Wires \ {w} : reader'[v] = reader[v]
    BY <2>2 DEF LimitInv, ReaderShape, Goto, Admitted
  <2> QED BY <2>1, <2>3, Elsewhere
<1>7. CASE GetBuffer(w, "find", "push again", "unmap")
  <2> DEFINE b == call_to_buffer_map[Key(w)]
             p == IF b = None THEN "push again" ELSE "unmap"
  <2>1. UNCHANGED ongoing_procedures /\ reader' = [reader EXCEPT ![w].pc = p, ![w].buf = b]
    BY <1>7 DEF GetBuffer, calls
  <2>2. p \notin Admitted
    BY DEF Admitted
  <2> HIDE DEF p, b
  <2>3. /\ DOMAIN reader' = Wires /\ DOMAIN reader'[w] = {"pc", "call", "buf"}
        /\ reader'[w].pc \notin Admitted /\ \A v \in Wires \ {w} : reader'[v] = reader[v]
    BY <2>1, <2>2 DEF LimitInv, ReaderShape
  <2> QED BY <2>1, <2>3, Elsewhere
<1>8. CASE PushBuffer(w, "push again", "map again")
  <2>1. PICK b : /\ UNCHANGED ongoing_procedures
                 /\ reader' = [reader EXCEPT ![w].pc = "map again", ![w].buf = b]
    BY <1>8 DEF PushBuffer, calls
  <2>2. /\ DOMAIN reader' = Wires /\ DOMAIN reader'[w] = {"pc", "call", "buf"}
        /\ reader'[w].pc \notin Admitted /\ \A v \in Wires \ {w} : reader'[v] = reader[v]
    BY <2>1 DEF LimitInv, ReaderShape, Admitted
  <2> QED BY <2>1, <2>2, Elsewhere
<1> QED BY <1>1, <1>2, <1>3, <1>4, <1>5, <1>6, <1>7, <1>8 DEF ReaderStep

(* No wire ever has more procedures ongoing than it may have: the test and *)
(* the registration are four steps apart, and the limit holds all the      *)
(* same.                                                                   *)
THEOREM WithinLimitHolds == Spec => []WithinLimit
<1>1. Init => LimitInv
  BY FS_EmptySet, PiecesAssumption DEF Init, LimitInv, ReaderShape, Room, Admitted
<1>2. LimitInv /\ [Next]_vars => LimitInv'
  <2> SUFFICES ASSUME LimitInv, [Next]_vars PROVE LimitInv'
    OBVIOUS
  <2>1. CASE UNCHANGED vars
    BY <2>1 DEF vars, calls, LimitInv, ReaderShape, Room, Call
  <2>2. ASSUME NEW w \in Wires, NewWire(w) PROVE LimitInv'
    <3>1. UNCHANGED ongoing_procedures /\ reader' = [reader EXCEPT ![w].pc = "idle"]
      BY <2>2 DEF NewWire, calls
    <3>2. /\ DOMAIN reader' = Wires /\ DOMAIN reader'[w] = {"pc", "call", "buf"}
          /\ reader'[w].pc \notin Admitted /\ \A v \in Wires \ {w} : reader'[v] = reader[v]
      BY <3>1 DEF LimitInv, ReaderShape, Admitted
    <3> QED BY <3>1, <3>2, Elsewhere
  <2>3. ASSUME NEW w \in Wires, NEW c \in Calls, LastYield(w, c) PROVE LimitInv'
    <3>1. /\ UNCHANGED reader /\ DOMAIN ongoing_procedures' = Wires
          /\ \A v \in Wires : ongoing_procedures'[v] \subseteq ongoing_procedures[v]
      BY <2>3 DEF LastYield, LimitInv
    <3> QED BY <3>1, FewerKeepLimit
  <2>4. ASSUME NEW w \in Wires, NEW r \in Clones(w), Drop(w, r) \/ DropStep(w, r)
        PROVE  LimitInv'
    <3>1. UNCHANGED <<reader, ongoing_procedures>>
      BY <2>4 DEF Drop, DropStep, SweepMapping, SweepMessage, Relinquish, calls
    <3> QED BY <3>1 DEF LimitInv, ReaderShape, Room, Call
  <2> QED BY <2>1, <2>2, <2>3, <2>4, ReceiveKeepsLimit, ReaderKeepsLimit DEF Next
<1>3. LimitInv => WithinLimit
  BY DEF LimitInv, WithinLimit
<1> QED BY <1>1, <1>2, <1>3, PTL DEF Spec

-----------------------------------------------------------------------------
(* Identifiers.  With no started wire among those made, an identifier is   *)
(* held by one live wire or waits in the queue, at one place.              *)
Queued(i) == \E k \in 1 .. Len(wire_ids) : wire_ids[k] = i

Separate ==
    /\ \A k \in 1 .. Len(wire_ids) : wire_ids[k] < issued
    /\ \A k, l \in 1 .. Len(wire_ids) : wire_ids[k] = wire_ids[l] => k = l
    /\ \A w \in Wires : Live(w) => id[w] < issued /\ ~Queued(id[w])
    /\ UniqueWires

CloneShape ==
    /\ DOMAIN clone = Wires
    /\ \A w \in Wires : DOMAIN clone[w] = Clones(w)
    /\ \A w \in Wires : \A r \in Clones(w) : clone[w][r] # "up" => Made(w)

(* A started wire has its interface to itself.                             *)
Alone == \A v, w \in Wires : v \in Started /\ Made(v) /\ Made(w) => v = w

NoneStarted == \A w \in Wires : Made(w) => w \notin Started

IdInv ==
    /\ wire_ids \in Seq(Nat) /\ issued \in Nat /\ id \in [Wires -> Nat \cup {None}]
    /\ CloneShape /\ Alone
    /\ NoneStarted => Separate

(* A new wire takes an identifier that is queued or was never issued.      *)
LEMMA NewWireKeepsIds ==
    ASSUME Apart, IdInv, NEW w \in Wires, NewWire(w)
    PROVE  IdInv'
<1>1. /\ ~Made(w) /\ UNCHANGED clone
      /\ \A v \in Wires : Made(v) => v \notin Started /\ w \notin Started
  BY DEF NewWire, drops
<1>2. Len(wire_ids) \in Nat /\ wire_ids \in Seq(Nat) /\ issued \in Nat
  BY LenProperties DEF IdInv
<1>3. PICK i \in Nat : id' = [id EXCEPT ![w] = i]
  <2>1. wire_ids # <<>> => Head(wire_ids) \in Nat
    BY <1>2, HeadTailProperties
  <2>2. wire_ids # <<>> => id' = [id EXCEPT ![w] = Head(wire_ids)]
    BY DEF NewWire
  <2>3. wire_ids = <<>> => id' = [id EXCEPT ![w] = issued]
    BY DEF NewWire
  <2> QED BY <1>2, <2>1, <2>2, <2>3
<1>4. /\ id' \in [Wires -> Nat \cup {None}] /\ id'[w] = i
      /\ \A v \in Wires \ {w} : id'[v] = id[v]
  BY <1>3 DEF IdInv
<1>5. \A v \in Wires : Made(v)' = (v = w \/ Made(v))
  BY <1>4, NoneAssumption DEF Made
<1>6. Alone' /\ CloneShape'
  BY <1>1, <1>5 DEF Alone, CloneShape, IdInv
<1>7. wire_ids' \in Seq(Nat) /\ issued' \in Nat
  <2>1. wire_ids # <<>> => Tail(wire_ids) \in Seq(Nat)
    BY <1>2, HeadTailProperties
  <2>2. wire_ids # <<>> => wire_ids' = Tail(wire_ids) /\ issued' = issued
    BY DEF NewWire
  <2>3. wire_ids = <<>> => wire_ids' = wire_ids /\ issued' = issued + 1
    BY DEF NewWire
  <2> QED BY SMTT(30), <1>2, <2>1, <2>2, <2>3
<1>8. ASSUME NoneStarted' PROVE Separate'
  <2>1. Separate
    BY <1>5, <1>8 DEF NoneStarted, IdInv
  <2>2. \A v \in Wires : Live(v)' => v = w \/ Live(v)
    BY <1>1, <1>5 DEF Live, Gone
  <2>3. CASE wire_ids # <<>>
    <3>1. id'[w] = Head(wire_ids) /\ wire_ids' = Tail(wire_ids) /\ issued' = issued
      BY <2>3 DEF NewWire, IdInv
    <3>2. /\ Head(wire_ids) = wire_ids[1] /\ Len(wire_ids') = Len(wire_ids) - 1
          /\ \A k \in 1 .. Len(wire_ids') : wire_ids'[k] = wire_ids[k + 1]
      BY <1>2, <2>3, <3>1, HeadTailProperties
    <3>3. Len(wire_ids) >= 1
      BY <1>2, <2>3, EmptySeq
    <3>4. \A k \in 1 .. Len(wire_ids') : k + 1 \in 1 .. Len(wire_ids)
      BY <1>2, <3>2
    <3>5. \A k \in 1 .. Len(wire_ids') : wire_ids'[k] < issued'
      BY <2>1, <3>1, <3>2, <3>4 DEF Separate
    <3>6. \A k, l \in 1 .. Len(wire_ids') : wire_ids'[k] = wire_ids'[l] => k = l
      <4> SUFFICES ASSUME NEW k \in 1 .. Len(wire_ids'), NEW l \in 1 .. Len(wire_ids'),
                          wire_ids'[k] = wire_ids'[l]
                   PROVE  k = l
        OBVIOUS
      <4>1. k + 1 = l + 1
        BY <2>1, <3>2, <3>4 DEF Separate
      <4> QED BY <4>1
    <3>7. /\ id'[w] < issued' /\ Queued(id'[w])
          /\ \A k \in 1 .. Len(wire_ids') : wire_ids'[k] # id'[w]
      <4>1. 1 \in 1 .. Len(wire_ids)
        BY <1>2, <3>3
      <4>2. id'[w] < issued' /\ Queued(id'[w])
        BY <2>1, <3>1, <3>2, <4>1 DEF Separate, Queued
      <4>3. ASSUME NEW k \in 1 .. Len(wire_ids'), wire_ids'[k] = id'[w] PROVE FALSE
        <5>1. k + 1 = 1
          BY <2>1, <3>1, <3>2, <3>4, <4>1, <4>3 DEF Separate
        <5> QED BY <5>1
      <4> QED BY <4>2, <4>3
    <3>8. \A v \in Wires \ {w} : Live(v)' =>
              /\ id'[v] < issued' /\ id'[v] # id'[w]
              /\ \A k \in 1 .. Len(wire_ids') : wire_ids'[k] # id'[v]
      BY <1>4, <2>1, <2>2, <3>1, <3>2, <3>4, <3>7 DEF Separate, Queued
    <3>9. UniqueWires'
      BY <1>4, <2>1, <2>2, <3>8 DEF UniqueWires, Separate
    <3> QED BY <3>5, <3>6, <3>7, <3>8, <3>9 DEF Separate, Queued
  <2>4. CASE wire_ids = <<>>
    <3>1. id'[w] = issued /\ issued' = issued + 1 /\ wire_ids' = wire_ids
      BY <2>4 DEF NewWire, IdInv
    <3>2. \A k \in 1 .. Len(wire_ids') : FALSE
      BY <2>4, <3>1, EmptySeq
    <3>3. \A v \in Wires \ {w} : Live(v)' => id'[v] < issued
      BY <1>4, <2>1, <2>2 DEF Separate
    <3>4. \A v \in Wires \ {w} : Live(v)' => id'[v] < issued' /\ id'[v] # id'[w]
      <4> SUFFICES ASSUME NEW v \in Wires \ {w}, Live(v)'
                   PROVE  id'[v] < issued' /\ id'[v] # id'[w]
        OBVIOUS
      <4>1. id'[v] \in Nat /\ id'[v] < issued
        BY <1>4, <3>3 DEF Live, Made
      <4> QED BY <1>2, <3>1, <4>1
    <3>5. id'[w] < issued'
      BY <1>2, <3>1
    <3>6. UniqueWires'
      BY <1>4, <2>1, <2>2, <3>4 DEF UniqueWires, Separate
    <3> QED BY <3>2, <3>4, <3>5, <3>6 DEF Separate, Queued
  <2> QED BY <2>3, <2>4
<1> QED BY <1>4, <1>6, <1>7, <1>8 DEF IdInv

(* A live wire that is not started has one clone, so it gives its          *)
(* identifier back once, and holds it no longer then.                      *)
LEMMA RelinquishKeepsIds ==
    ASSUME IdInv, NEW w \in Wires, NEW r \in Clones(w), Relinquish(w, r)
    PROVE  IdInv'
<1>1. /\ clone[w][r] = "sweep" /\ clone' = [clone EXCEPT ![w][r] = "gone"]
      /\ wire_ids' = Append(wire_ids, id[w]) /\ UNCHANGED <<issued, id>>
  BY DEF Relinquish
<1>2. Made(w) /\ id[w] \in Nat
  BY <1>1 DEF IdInv, CloneShape, Made
<1>3. wire_ids \in Seq(Nat) /\ Len(wire_ids) \in Nat
  BY LenProperties DEF IdInv
<1>4. /\ wire_ids' \in Seq(Nat) /\ Len(wire_ids') = Len(wire_ids) + 1
      /\ \A k \in 1 .. Len(wire_ids) : wire_ids'[k] = wire_ids[k]
      /\ wire_ids'[Len(wire_ids) + 1] = id[w]
  BY <1>1, <1>2, <1>3, AppendProperties
<1>5. /\ \A v \in Wires : Made(v)' = Made(v)
      /\ CloneShape' /\ Alone'
  BY <1>1, <1>2 DEF IdInv, CloneShape, Alone, Made
<1>6. ASSUME NoneStarted' PROVE Separate'
  <2>1. Separate /\ w \notin Started
    BY <1>2, <1>5, <1>6 DEF NoneStarted, IdInv
  <2>2. Clones(w) = {"reader"} /\ r = "reader"
    BY <2>1 DEF Clones
  <2>3. Live(w) /\ ~Live(w)'
    BY <1>1, <1>2, <2>2 DEF Live, Gone, IdInv, CloneShape
  <2>4. \A v \in Wires : Live(v)' => v # w /\ Live(v)
    BY <1>1, <1>5, <2>3 DEF Live, Gone, IdInv, CloneShape
  <2>5. id[w] < issued /\ ~Queued(id[w])
    BY <2>1, <2>3 DEF Separate
  <2>6. \A k \in 1 .. Len(wire_ids') : k \in 1 .. Len(wire_ids) \/ k = Len(wire_ids) + 1
    BY <1>3, <1>4
  <2>7. \A k \in 1 .. Len(wire_ids') : wire_ids'[k] < issued'
    BY <1>1, <1>4, <2>1, <2>5, <2>6 DEF Separate
  <2>8. \A k, l \in 1 .. Len(wire_ids') : wire_ids'[k] = wire_ids'[l] => k = l
    BY <1>4, <2>1, <2>5, <2>6 DEF Separate, Queued
  <2>9. \A v \in Wires : Live(v)' => id'[v] < issued' /\ ~Queued(id[v]) /\ id[v] # id[w]
    BY <1>1, <2>1, <2>3, <2>4 DEF Separate, UniqueWires
  <2>10. \A v \in Wires : Live(v)' => ~Queued(id[v])'
    BY <1>1, <1>4, <2>6, <2>9 DEF Queued
  <2>11. UniqueWires'
    BY <1>1, <2>1, <2>4 DEF UniqueWires, Separate
  <2> QED BY <1>1, <2>7, <2>8, <2>9, <2>10, <2>11 DEF Separate, Queued
<1> QED BY <1>1, <1>4, <1>5, <1>6 DEF IdInv

(* Nothing else touches identifiers or the clones that hold them.          *)
LEMMA OthersKeepIds ==
    ASSUME IdInv, UNCHANGED ids, CloneShape',
           \A w \in Wires : Gone(w) => Gone(w)'
    PROVE  IdInv'
<1>1. UNCHANGED <<wire_ids, issued, id>>
  BY DEF ids
<1>2. \A w \in Wires : Made(w)' = Made(w) /\ (Live(w)' => Live(w))
  BY <1>1 DEF Made, Live
<1>3. Alone' /\ (NoneStarted' => NoneStarted)
  BY <1>2 DEF IdInv, Alone, NoneStarted
<1>4. Separate => Separate'
  BY <1>1, <1>2 DEF Separate, UniqueWires, Queued
<1> QED BY <1>1, <1>3, <1>4 DEF IdInv

LEMMA IdsHold == ASSUME Apart PROVE Spec => []IdInv
<1>1. Init => IdInv
  <2> SUFFICES ASSUME Init PROVE IdInv
    OBVIOUS
  <2>1. wire_ids \in Seq(Nat) /\ \A k \in 1 .. Len(wire_ids) : FALSE
    BY EmptySeq DEF Init
  <2>2. \A w \in Wires : ~Made(w)
    BY DEF Init, Made
  <2>3. CloneShape
    BY DEF Init, CloneShape
  <2> QED BY <2>1, <2>2, <2>3, NoneAssumption
          DEF Init, IdInv, Alone, NoneStarted, Separate, UniqueWires, Live
<1>2. IdInv /\ [Next]_vars => IdInv'
  <2> SUFFICES ASSUME IdInv, [Next]_vars PROVE IdInv'
    OBVIOUS
  <2>1. ASSUME UNCHANGED <<ids, clone>> PROVE IdInv'
    <3>1. CloneShape'
      BY <2>1 DEF ids, IdInv, CloneShape, Made
    <3> QED BY <2>1, <3>1, OthersKeepIds DEF Gone
  <2>2. ASSUME NEW w \in Wires, ReaderStep(w) \/ StopReading(w) \/ UNCHANGED vars
        PROVE  UNCHANGED <<ids, clone>>
    BY <2>2 DEF ReaderStep, GetBuffer, PushBuffer, MapBuffer, Register, AppendArguments,
                TerminateArguments, Unmap, Run, PopArguments, Answer, StopReading, drops, vars
  <2>3. ASSUME NEW w \in Wires, NEW c \in Calls, Receive(w, c) \/ LastYield(w, c)
        PROVE  UNCHANGED <<ids, clone>>
    BY <2>3 DEF Receive, LastYield, drops
  <2>4. ASSUME NEW w \in Wires, NEW r \in Clones(w),
               Drop(w, r) \/ SweepMessage(w, r) \/ \E c \in Calls : SweepMapping(w, r, c)
        PROVE  IdInv'
    <3>1. UNCHANGED ids
      BY <2>4 DEF Drop, SweepMessage, SweepMapping
    <3>2. PICK where : /\ where # "gone" /\ clone' = [clone EXCEPT ![w][r] = where]
                       /\ clone[w][r] # "gone" /\ (clone[w][r] = "up" => Made(w))
      BY <2>4 DEF Drop, SweepMessage, SweepMapping
    <3>3. CloneShape'
      BY <3>1, <3>2 DEF IdInv, CloneShape, Made, ids
    <3>4. \A v \in Wires : Gone(v) => Gone(v)'
      BY <3>2 DEF IdInv, CloneShape, Gone
    <3> QED BY <3>1, <3>3, <3>4, OthersKeepIds
  <2>5. CASE UNCHANGED vars
    <3>1. UNCHANGED <<ids, clone>>
      BY <2>5 DEF vars, drops
    <3> QED BY <2>1, <3>1
  <2> QED BY <2>1, <2>2, <2>3, <2>4, <2>5, NewWireKeepsIds, RelinquishKeepsIds DEF Next, DropStep
<1> QED BY <1>1, <1>2, PTL DEF Spec

(* On an interface that has either one started wire or wires that are not  *)
(* started, live wires have different identifiers, and with them different *)
(* argument buffers.                                                       *)
THEOREM UniqueWiresHolds == ASSUME Apart PROVE Spec => []UniqueWires
<1>1. IdInv => UniqueWires
  BY DEF IdInv, Alone, NoneStarted, Separate, UniqueWires, Live
<1> QED BY <1>1, IdsHold, PTL

-----------------------------------------------------------------------------
(* Typing.                                                                 *)
ReaderPoints == {"none", "idle", "get", "push", "map", "register", "append", "terminate", "find",
                 "push again", "map again", "unmap", "run", "pop", "answer", "failed", "stopped"}
Working == ReaderPoints \ {"none", "idle", "failed", "stopped"}
ClonePoints == {"up", "sweep", "pop", "gone"}
Content == [args : Seq(Piece), complete : BOOLEAN]
ReaderStates == [pc : ReaderPoints, call : Calls \cup {None}, buf : Buffers \cup {None}]
MadeWires == {w \in Wires : Made(w)}

IdTypes ==
    /\ wire_ids \in Seq(Ids) /\ issued \in Nat /\ issued <= Cardinality(MadeWires)
    /\ id \in [Wires -> Ids \cup {None}]
StoreTypes ==
    /\ messages \in [Buffers -> Content \cup {None}]
    /\ call_to_buffer_map \in [Calls \X Ids -> Buffers \cup {None}]
DropTypes ==
    /\ terminated \in [Wires -> BOOLEAN]
    /\ clone = [w \in Wires |-> clone[w]]
    /\ due = [w \in Wires |-> due[w]]
    /\ removed = [w \in Wires |-> removed[w]]
    /\ \A w \in Wires :
         /\ clone[w] \in [Clones(w) -> ClonePoints]
         /\ due[w] \in [Clones(w) -> SUBSET Calls]
         /\ removed[w] \in [Clones(w) -> Buffers \cup {None}]
         /\ \A r \in Clones(w) : /\ (clone[w][r] = "pop") = (removed[w][r] \in Buffers)
                                 /\ clone[w][r] # "up" => Made(w)
CallTypes ==
    /\ ongoing_procedures \in [Wires -> SUBSET Calls]
    /\ streams \subseteq {<<w, c>> : w \in Wires, c \in Streaming}
HistoryTypes ==
    /\ arrived \in [Wires -> [Calls -> 0 .. Pieces]]
    /\ rejected \subseteq Wires \X Calls
    /\ ran \in [Wires -> [Calls -> Seq(Seq(Piece))]]

(* A reader that works on a call has received a piece of it.               *)
ReaderTypes ==
    /\ reader \in [Wires -> ReaderStates]
    /\ \A w \in Wires :
         /\ At(w, "none") = ~Made(w)
         /\ reader[w].pc \in Holding => Buf(w) \in Buffers
         /\ reader[w].pc \in Working => Call(w) \in Calls /\ arrived[w][Call(w)] >= 1

TypeInv ==
    IdTypes /\ StoreTypes /\ DropTypes /\ CallTypes /\ HistoryTypes /\ ReaderTypes

(* The kinds of steps there are, and what each leaves alone.               *)
LEMMA NextKinds ==
    ASSUME [Next]_vars
    PROVE  \/ UNCHANGED vars
           \/ \E w \in Wires : NewWire(w) \/ ReaderStep(w) \/ StopReading(w)
           \/ \E w \in Wires, c \in Calls : Receive(w, c) \/ LastYield(w, c)
           \/ \E w \in Wires : \E r \in Clones(w) : Drop(w, r) \/ DropStep(w, r)
BY DEF Next

LEMMA ReaderStepKeeps ==
    ASSUME NEW w \in Wires, ReaderStep(w) \/ StopReading(w)
    PROVE  UNCHANGED <<wire_ids, issued, id, clone, due, removed, terminated, arrived, rejected>>
BY DEF ReaderStep, GetBuffer, PushBuffer, MapBuffer, Register, AppendArguments, TerminateArguments,
       Unmap, Run, PopArguments, Answer, StopReading, ids, drops, history

LEMMA DropKeeps ==
    ASSUME NEW w \in Wires, NEW r \in Clones(w), Drop(w, r) \/ DropStep(w, r)
    PROVE  UNCHANGED <<issued, id, ongoing_procedures, streams, reader, arrived, rejected, ran>>
BY DEF Drop, DropStep, SweepMapping, SweepMessage, Relinquish, ids, calls, history

LEMMA ReceiveKeeps ==
    ASSUME NEW w \in Wires, NEW c \in Calls, Receive(w, c) \/ LastYield(w, c)
    PROVE  UNCHANGED <<wire_ids, issued, id, messages, call_to_buffer_map, clone, due, removed,
                       terminated, ran>>
BY DEF Receive, LastYield, ids, store, drops, history

LEMMA NewWireKeeps ==
    ASSUME NEW w \in Wires, NewWire(w)
    PROVE  UNCHANGED <<messages, call_to_buffer_map, clone, due, removed, terminated,
                       ongoing_procedures, streams, arrived, rejected, ran>>
BY DEF NewWire, store, drops, calls, history

LEMMA VarsKept ==
    ASSUME UNCHANGED vars
    PROVE  UNCHANGED <<wire_ids, issued, id, messages, call_to_buffer_map, clone, due, removed,
                       terminated, ongoing_procedures, streams, reader, arrived, rejected, ran>>
BY DEF vars, ids, store, drops, calls, history

(* An identifier is queued or counted up to; as many are issued as wires   *)
(* are made at most.                                                       *)
LEMMA IdTypesStep ==
    ASSUME TypeInv, [Next]_vars
    PROVE  IdTypes'
<1> USE DEF IdTypes
<1>0. IsFiniteSet(MadeWires) /\ Cardinality(MadeWires) \in Nat /\ Cardinality(Wires) \in Nat
      /\ Cardinality(MadeWires) <= Cardinality(Wires)
  BY WiresAssumption, FS_Subset, FS_CardinalityType DEF MadeWires
<1>1. ASSUME NEW w \in Wires, NewWire(w) PROVE IdTypes'
  <2>1. w \notin MadeWires /\ Cardinality(MadeWires \cup {w}) = Cardinality(MadeWires) + 1
        /\ Cardinality(MadeWires \cup {w}) <= Cardinality(Wires)
    <3>1. w \notin MadeWires /\ MadeWires \cup {w} \subseteq Wires
      BY <1>1 DEF NewWire, MadeWires
    <3> QED BY <1>0, <3>1, FS_AddElement, FS_Subset, WiresAssumption
  <2>2. issued \in Ids
    BY <1>0, <2>1 DEF Ids, TypeInv
  <2>3. \E i \in Ids : /\ id' = [id EXCEPT ![w] = i]
                       /\ wire_ids' \in Seq(Ids) /\ issued' \in Nat /\ issued' <= issued + 1
    BY SMTT(30), <1>1, <2>2, HeadTailProperties DEF NewWire, TypeInv
  <2>4. MadeWires' = MadeWires \cup {w} /\ id' \in [Wires -> Ids \cup {None}]
    BY <1>1, <2>3, NoneAssumption DEF MadeWires, Made, TypeInv, Ids
  <2> QED BY <1>0, <2>1, <2>3, <2>4 DEF TypeInv
<1>2. ASSUME UNCHANGED <<issued, id>>, wire_ids' \in Seq(Ids) PROVE IdTypes'
  <2>1. MadeWires' = MadeWires
    BY <1>2 DEF MadeWires, Made
  <2> QED BY <1>2, <2>1 DEF TypeInv
<1>3. UNCHANGED wire_ids => wire_ids' \in Seq(Ids)
  BY DEF TypeInv
<1>4. ASSUME NEW w \in Wires, NEW r \in Clones(w), Drop(w, r) \/ DropStep(w, r) PROVE IdTypes'
  <2>1. UNCHANGED <<issued, id>>
    BY <1>4, DropKeeps
  <2>2. UNCHANGED wire_ids \/ Relinquish(w, r)
    BY <1>4 DEF Drop, DropStep, SweepMapping, SweepMessage, ids
  <2>3. CASE Relinquish(w, r)
    <3>1. clone[w][r] = "sweep" /\ wire_ids' = Append(wire_ids, id[w])
      BY <2>3 DEF Relinquish
    <3>2. id[w] \in Ids
      BY <3>1 DEF TypeInv, DropTypes, Made
    <3>3. wire_ids' \in Seq(Ids)
      BY <3>1, <3>2, AppendProperties DEF TypeInv
    <3> QED BY <1>2, <2>1, <3>3
  <2> QED BY <1>2, <1>3, <2>1, <2>2, <2>3
<1>5. CASE UNCHANGED <<wire_ids, issued, id>>
  BY <1>2, <1>3, <1>5
<1> QED BY <1>1, <1>4, <1>5, NextKinds, ReaderStepKeeps, ReceiveKeeps, VarsKept

(* Messages and mappings.                                                  *)
LEMMA StoreTypesStep ==
    ASSUME TypeInv, [Next]_vars
    PROVE  StoreTypes'
<1> USE DEF StoreTypes
<1>0. /\ messages \in [Buffers -> Content \cup {None}]
      /\ call_to_buffer_map \in [Calls \X Ids -> Buffers \cup {None}]
  BY DEF TypeInv
<1>1. ASSUME NEW w \in Wires, ReaderStep(w) \/ StopReading(w) PROVE StoreTypes'
  <2>0. /\ reader[w].pc \in Working => Call(w) \in Calls /\ arrived[w][Call(w)] \in 1 .. Pieces
        /\ reader[w].pc \in Holding => Buf(w) \in Buffers
        /\ reader[w].pc \in Working => Key(w) \in Calls \X Ids
    <3>1. reader[w].pc \in Working => Call(w) \in Calls /\ arrived[w][Call(w)] \in 1 .. Pieces
      BY PiecesAssumption DEF TypeInv, ReaderTypes, HistoryTypes
    <3>2. reader[w].pc \in Working => Made(w)
      BY DEF TypeInv, ReaderTypes, At, Working
    <3>3. reader[w].pc \in Working => Key(w) \in Calls \X Ids
      BY <3>1, <3>2 DEF TypeInv, IdTypes, Made, Key
    <3> QED BY <3>1, <3>3 DEF TypeInv, ReaderTypes
  <2>1. CASE UNCHANGED store
    BY <1>0, <2>1 DEF store
  <2>2. ASSUME NEW where, NEW next, PushBuffer(w, where, next) PROVE StoreTypes'
    <3>1. PICK b \in Buffers : messages' = [messages EXCEPT ![b] = [args |-> <<>>, complete |-> FALSE]]
                                  /\ UNCHANGED call_to_buffer_map
      BY <2>2 DEF PushBuffer
    <3>2. [args |-> <<>>, complete |-> FALSE] \in Content
      BY DEF Content
    <3> QED BY <1>0, <3>1, <3>2
  <2>3. ASSUME NEW where \in {"map", "map again"}, NEW next, MapBuffer(w, where, next) PROVE StoreTypes'
    <3>1. reader[w].pc \in Working \cap Holding
      BY <2>3 DEF MapBuffer, At, Working, Holding, ReaderPoints
    <3> QED BY <1>0, <2>0, <2>3, <3>1 DEF MapBuffer
  <2>4. CASE AppendArguments(w)
    <3>1. reader[w].pc \in Working \cap Holding
      BY <2>4 DEF AppendArguments, At, Working, Holding, ReaderPoints
    <3>2. <<w, Call(w), arrived[w][Call(w)]>> \in Piece
      BY <2>0, <3>1 DEF Piece
    <3>3. CASE Accepts(Buf(w))
      <4>1. messages[Buf(w)] \in Content
        BY <1>0, <2>0, <3>1, <3>3 DEF Accepts
      <4>2. messages' = [messages EXCEPT ![Buf(w)].args = Append(@, <<w, Call(w), arrived[w][Call(w)]>>)]
        BY <2>4, <3>3 DEF AppendArguments
      <4>3. Append(messages[Buf(w)].args, <<w, Call(w), arrived[w][Call(w)]>>) \in Seq(Piece)
        BY <3>2, <4>1, AppendProperties DEF Content
      <4>4. messages' \in [Buffers -> Content \cup {None}]
        BY <1>0, <4>1, <4>2, <4>3 DEF Content
      <4> QED BY <1>0, <2>4, <4>4 DEF AppendArguments
    <3> QED BY <1>0, <2>4, <3>3 DEF AppendArguments
  <2>5. CASE TerminateArguments(w)
    <3>1. reader[w].pc \in Working \cap Holding
      BY <2>5 DEF TerminateArguments, At, Working, Holding, ReaderPoints
    <3>2. CASE Accepts(Buf(w))
      <4>1. messages[Buf(w)] \in Content
        BY <1>0, <2>0, <3>1, <3>2 DEF Accepts
      <4>2. messages' = [messages EXCEPT ![Buf(w)].complete = TRUE]
        BY <2>5, <3>2 DEF TerminateArguments
      <4>3. messages' \in [Buffers -> Content \cup {None}]
        BY <1>0, <4>1, <4>2 DEF Content
      <4> QED BY <1>0, <2>5, <4>3 DEF TerminateArguments
    <3> QED BY <1>0, <2>5, <3>2 DEF TerminateArguments
  <2>6. CASE Unmap(w) \/ PopArguments(w)
    BY <1>0, <2>6 DEF Unmap, PopArguments
  <2> QED BY <1>1, <2>1, <2>2, <2>3, <2>4, <2>5, <2>6
          DEF ReaderStep, GetBuffer, Register, Run, Answer, StopReading
<1>2. ASSUME NEW w \in Wires, NEW r \in Clones(w), Drop(w, r) \/ DropStep(w, r) PROVE StoreTypes'
  BY <1>0, <1>2 DEF Drop, DropStep, SweepMapping, SweepMessage, Relinquish, store
<1>3. CASE UNCHANGED <<messages, call_to_buffer_map>>
  BY <1>0, <1>3
<1> QED BY <1>1, <1>2, <1>3, NextKinds, ReceiveKeeps, NewWireKeeps, VarsKept

(* Drops.  A clone moves on, with what is due and what it has removed.     *)
DropMoves(w, r, p, d, b) ==
    /\ clone' = [clone EXCEPT ![w][r] = p]
    /\ due' = [due EXCEPT ![w][r] = d]
    /\ removed' = [removed EXCEPT ![w][r] = b]

LEMMA DropTypesStep ==
    ASSUME TypeInv, [Next]_vars
    PROVE  DropTypes'
<1> USE DEF DropTypes
<1>0. DropTypes /\ None \notin Buffers /\ StoreTypes /\ CallTypes
  BY NoneAssumption DEF TypeInv
<1>1. CASE UNCHANGED <<terminated, clone, due, removed, id>>
  BY <1>0, <1>1 DEF Made
<1>2. ASSUME NEW w \in Wires, NEW r \in Clones(w), NEW p \in ClonePoints, NEW d \in SUBSET Calls,
             NEW b \in Buffers \cup {None}, p = "pop" <=> b \in Buffers, Made(w),
             UNCHANGED id, terminated' \in [Wires -> BOOLEAN], DropMoves(w, r, p, d, b)
      PROVE  DropTypes'
  <2>1. /\ clone' = [v \in Wires |-> clone'[v]]
        /\ due' = [v \in Wires |-> due'[v]]
        /\ removed' = [v \in Wires |-> removed'[v]]
    BY <1>0, <1>2 DEF DropMoves
  <2>2. ASSUME NEW v \in Wires
        PROVE  /\ clone'[v] \in [Clones(v) -> ClonePoints]
               /\ due'[v] \in [Clones(v) -> SUBSET Calls]
               /\ removed'[v] \in [Clones(v) -> Buffers \cup {None}]
               /\ \A s \in Clones(v) : /\ (clone'[v][s] = "pop") = (removed'[v][s] \in Buffers)
                                       /\ clone'[v][s] # "up" => Made(v)'
    <3>1. CASE v = w
      <4>1. /\ clone'[w] = [clone[w] EXCEPT ![r] = p] /\ due'[w] = [due[w] EXCEPT ![r] = d]
            /\ removed'[w] = [removed[w] EXCEPT ![r] = b] /\ Made(w)'
        BY <1>0, <1>2 DEF Made, DropMoves
      <4> QED BY <1>0, <1>2, <3>1, <4>1
    <3>2. CASE v # w
      <4>1. /\ clone'[v] = clone[v] /\ due'[v] = due[v] /\ removed'[v] = removed[v]
            /\ Made(v)' = Made(v)
        BY <1>0, <1>2, <3>2 DEF Made, DropMoves
      <4> QED BY <1>0, <4>1
    <3> QED BY <3>1, <3>2
  <2> QED BY <1>2, <2>1, <2>2
<1>3. ASSUME NEW w \in Wires, NEW r \in Clones(w)
      PROVE  /\ clone[w] \in [Clones(w) -> ClonePoints]
             /\ due[w] \in [Clones(w) -> SUBSET Calls]
             /\ removed[w] \in [Clones(w) -> Buffers \cup {None}]
             /\ (clone[w][r] = "pop") = (removed[w][r] \in Buffers)
             /\ clone[w][r] # "up" => Made(w)
             /\ due = [due EXCEPT ![w][r] = due[w][r]]
             /\ removed = [removed EXCEPT ![w][r] = removed[w][r]]
  <2>1. due[w] = [due[w] EXCEPT ![r] = due[w][r]] /\ removed[w] = [removed[w] EXCEPT ![r] = removed[w][r]]
    BY <1>0
  <2>2. due = [due EXCEPT ![w] = due[w]] /\ removed = [removed EXCEPT ![w] = removed[w]]
    BY <1>0
  <2> QED BY <1>0, <2>1, <2>2
<1>4. ASSUME NEW w \in Wires, NEW r \in Clones(w), Drop(w, r) PROVE DropTypes'
  <2>1. /\ Made(w) /\ clone[w][r] = "up" /\ terminated' = [terminated EXCEPT ![w] = TRUE]
        /\ DropMoves(w, r, "sweep", ongoing_procedures[w], removed[w][r])
    BY <1>3, <1>4 DEF Drop, DropMoves
  <2>2. ongoing_procedures[w] \in SUBSET Calls /\ removed[w][r] = None
    BY <1>0, <1>3, <2>1 DEF CallTypes
  <2>3. terminated' \in [Wires -> BOOLEAN] /\ UNCHANGED id
    BY <1>0, <1>4, DropKeeps, <2>1
  <2>4. "sweep" \in ClonePoints
    BY DEF ClonePoints
  <2> QED BY <1>0, <1>2, <2>1, <2>2, <2>3, <2>4
<1>5. ASSUME NEW w \in Wires, NEW r \in Clones(w), DropStep(w, r) PROVE DropTypes'
  <2>0. UNCHANGED id
    BY <1>5, DropKeeps
  <2>1. ASSUME NEW c \in Calls, SweepMapping(w, r, c) PROVE DropTypes'
    <3> DEFINE b == call_to_buffer_map[<<c, id[w]>>]
               p == IF b = None THEN "sweep" ELSE "pop"
    <3>1. /\ clone[w][r] = "sweep" /\ terminated' \in [Wires -> BOOLEAN]
          /\ DropMoves(w, r, p, due[w][r] \ {c}, b)
      BY <1>0, <2>1 DEF SweepMapping, DropMoves
    <3>2. Made(w) /\ due[w][r] \ {c} \in SUBSET Calls /\ b \in Buffers \cup {None}
      BY <1>0, <1>3, <3>1 DEF TypeInv, IdTypes, StoreTypes, Made
    <3>3. (p = "pop" <=> b \in Buffers) /\ p \in ClonePoints
      BY <1>0, <3>2 DEF ClonePoints
    <3> HIDE DEF b, p
    <3> QED BY <1>2, <2>0, <3>1, <3>2, <3>3
  <2>2. CASE SweepMessage(w, r)
    <3>1. /\ clone[w][r] = "pop" /\ terminated' \in [Wires -> BOOLEAN]
          /\ DropMoves(w, r, "sweep", due[w][r], None)
      BY <1>0, <1>3, <2>2 DEF SweepMessage, DropMoves
    <3>2. Made(w) /\ due[w][r] \in SUBSET Calls /\ "sweep" \in ClonePoints
      BY <1>3, <3>1 DEF ClonePoints
    <3> QED BY <1>0, <1>2, <2>0, <3>1, <3>2
  <2>3. CASE Relinquish(w, r)
    <3>1. /\ clone[w][r] = "sweep" /\ terminated' \in [Wires -> BOOLEAN]
          /\ DropMoves(w, r, "gone", due[w][r], removed[w][r])
      BY <1>0, <1>3, <2>3 DEF Relinquish, DropMoves
    <3>2. /\ removed[w][r] = None /\ Made(w) /\ due[w][r] \in SUBSET Calls
          /\ "gone" \in ClonePoints
      BY <1>3, <3>1 DEF ClonePoints
    <3> QED BY <1>0, <1>2, <2>0, <3>1, <3>2
  <2> QED BY <1>5, <2>1, <2>2, <2>3 DEF DropStep
<1>6. ASSUME NEW w \in Wires, NewWire(w) PROVE DropTypes'
  <2>1. UNCHANGED <<terminated, clone, due, removed>>
    BY <1>6, NewWireKeeps
  <2>2. \A v \in Wires : Made(v) => Made(v)'
    <3>1. ~Made(w) /\ \E i : id' = [id EXCEPT ![w] = i]
      BY <1>6 DEF NewWire
    <3> QED BY <3>1 DEF Made, TypeInv, IdTypes
  <2> QED BY <1>0, <2>1, <2>2
<1> QED BY <1>1, <1>4, <1>5, <1>6, NextKinds, ReaderStepKeeps, ReceiveKeeps, VarsKept

(* Ongoing calls and streams.                                              *)
LEMMA CallTypesStep ==
    ASSUME TypeInv, [Next]_vars
    PROVE  CallTypes'
<1> USE DEF CallTypes
<1>0. CallTypes
  BY DEF TypeInv
<1>1. CASE UNCHANGED <<ongoing_procedures, streams>>
  BY <1>0, <1>1
<1>2. ASSUME NEW w \in Wires, ReaderStep(w) \/ StopReading(w) PROVE CallTypes'
  <2>0. reader[w].pc \in Working => Call(w) \in Calls
    BY DEF TypeInv, ReaderTypes
  <2>1. CASE Register(w)
    <3>1. Call(w) \in Calls
      BY <2>0, <2>1 DEF Register, At, Working, ReaderPoints
    <3> QED BY <1>0, <2>1, <3>1 DEF Register
  <2>2. CASE Answer(w)
    <3>1. UNCHANGED streams
          /\ ongoing_procedures' \in {ongoing_procedures, [ongoing_procedures EXCEPT ![w] = @ \ {Call(w)}]}
      <4>1. [ongoing_procedures EXCEPT ![w] = @] = ongoing_procedures
        BY <1>0
      <4> QED BY <2>2, <4>1 DEF Answer
    <3> QED BY <1>0, <3>1
  <2>3. CASE Run(w)
    <3>1. UNCHANGED ongoing_procedures
          /\ (UNCHANGED streams \/ (Call(w) \in Streaming /\ streams' = streams \cup {<<w, Call(w)>>}))
      BY <2>3 DEF Run
    <3> QED BY <1>0, <3>1
  <2>4. UNCHANGED <<ongoing_procedures, streams>> \/ Register(w) \/ Answer(w) \/ Run(w)
    BY <1>2 DEF ReaderStep, GetBuffer, PushBuffer, MapBuffer, AppendArguments, TerminateArguments,
              Unmap, PopArguments, StopReading, calls
  <2> QED BY <1>1, <2>1, <2>2, <2>3, <2>4
<1>3. ASSUME NEW w \in Wires, NEW c \in Calls, LastYield(w, c) PROVE CallTypes'
  <2>1. /\ streams' \subseteq streams
        /\ ongoing_procedures' \in {ongoing_procedures, [ongoing_procedures EXCEPT ![w] = @ \ {c}]}
    <3>1. [ongoing_procedures EXCEPT ![w] = @] = ongoing_procedures
      BY <1>0
    <3> QED BY <1>3, <3>1 DEF LastYield
  <2> QED BY <1>0, <2>1
<1>4. ASSUME NEW w \in Wires, NEW c \in Calls, Receive(w, c) PROVE CallTypes'
  BY <1>1, <1>4 DEF Receive, calls
<1> QED BY <1>1, <1>2, <1>3, <1>4, NextKinds, DropKeeps, NewWireKeeps, VarsKept

(* What has arrived, been refused and run.                                 *)
LEMMA HistoryTypesStep ==
    ASSUME TypeInv, [Next]_vars
    PROVE  HistoryTypes'
<1> USE DEF HistoryTypes
<1>0. HistoryTypes
  BY DEF TypeInv
<1>1. CASE UNCHANGED <<arrived, rejected, ran>>
  BY <1>0, <1>1
<1>2. ASSUME NEW w \in Wires, NEW c \in Calls, Receive(w, c) PROVE HistoryTypes'
  <2>1. /\ arrived[w][c] < Pieces /\ arrived' = [arrived EXCEPT ![w][c] = @ + 1] /\ UNCHANGED ran
        /\ rejected' \in {rejected, rejected \cup {<<w, c>>}}
    BY <1>2 DEF Receive
  <2>2. arrived[w][c] + 1 \in 0 .. Pieces
    BY <1>0, <2>1, PiecesAssumption
  <2> QED BY <1>0, <2>1, <2>2
<1>3. ASSUME NEW w \in Wires, ReaderStep(w) \/ StopReading(w) PROVE HistoryTypes'
  <2>1. UNCHANGED <<arrived, rejected>>
    BY <1>3, ReaderStepKeeps
  <2>2. CASE Run(w) /\ Runs(w)
    <3>1. /\ reader[w].pc = "run" /\ messages[Buf(w)] # None
          /\ ran' = [ran EXCEPT ![w][Call(w)] = Append(@, messages[Buf(w)].args)]
      BY <2>2 DEF Run, Runs, At
    <3>2. Buf(w) \in Buffers /\ Call(w) \in Calls
      BY <3>1 DEF TypeInv, ReaderTypes, Holding, Working, ReaderPoints
    <3>3. messages[Buf(w)].args \in Seq(Piece)
      BY <3>1, <3>2 DEF TypeInv, StoreTypes, Content
    <3>4. Append(ran[w][Call(w)], messages[Buf(w)].args) \in Seq(Seq(Piece))
      BY <1>0, <3>2, <3>3, AppendProperties
    <3>5. ran' \in [Wires -> [Calls -> Seq(Seq(Piece))]]
      BY <1>0, <3>1, <3>4
    <3> QED BY <1>0, <2>1, <3>5
  <2>3. UNCHANGED ran \/ (Run(w) /\ Runs(w))
    BY <1>3 DEF ReaderStep, GetBuffer, PushBuffer, MapBuffer, Register, AppendArguments,
                TerminateArguments, Unmap, Run, PopArguments, Answer, StopReading, history
  <2> QED BY <1>1, <2>1, <2>2, <2>3
<1>4. ASSUME NEW w \in Wires, NEW c \in Calls, LastYield(w, c) PROVE HistoryTypes'
  BY <1>1, <1>4 DEF LastYield, history
<1> QED BY <1>1, <1>2, <1>3, <1>4, NextKinds, DropKeeps, NewWireKeeps, VarsKept

(* A reader moves on, with another buffer or with the one it has.          *)
LEMMA BufferMoves ==
    ASSUME ReaderTypes, NEW w \in Wires, NEW p \in ReaderPoints, NEW b \in Buffers \cup {None},
           reader' = [reader EXCEPT ![w].pc = p, ![w].buf = b]
    PROVE  /\ reader' \in [Wires -> ReaderStates]
           /\ reader'[w].pc = p /\ reader'[w].buf = b /\ reader'[w].call = reader[w].call
           /\ \A v \in Wires : v # w => reader'[v] = reader[v]
BY DEF ReaderTypes, ReaderStates

LEMMA PointMoves ==
    ASSUME ReaderTypes, NEW w \in Wires, NEW p \in ReaderPoints, Goto(w, p)
    PROVE  /\ reader' \in [Wires -> ReaderStates]
           /\ reader'[w].pc = p /\ reader'[w].buf = reader[w].buf
           /\ reader'[w].call = reader[w].call
           /\ \A v \in Wires : v # w => reader'[v] = reader[v]
BY DEF ReaderTypes, ReaderStates, Goto

(* Where each step of a reader begins and ends.                            *)
Advance(w, p) ==
    /\ reader' \in [Wires -> ReaderStates]
    /\ reader'[w].pc = p
    /\ reader'[w].call = reader[w].call
    /\ \A v \in Wires : v # w => reader'[v] = reader[v]

LEMMA GetMoves ==
    ASSUME TypeInv, NEW w \in Wires, NEW where \in Working,
           NEW push \in ReaderPoints, NEW next \in ReaderPoints, GetBuffer(w, where, push, next)
    PROVE  /\ reader[w].pc = where
           /\ reader'[w].buf = call_to_buffer_map[Key(w)]
           /\ \/ call_to_buffer_map[Key(w)] = None /\ Advance(w, push)
              \/ call_to_buffer_map[Key(w)] \in Buffers /\ Advance(w, next)
           /\ UNCHANGED <<messages, call_to_buffer_map, ongoing_procedures, streams, ran>>
<1> DEFINE found == call_to_buffer_map[Key(w)]
           target == IF found = None THEN push ELSE next
<1>1. reader[w].pc = where /\ reader' = [reader EXCEPT ![w].pc = target, ![w].buf = found]
  BY DEF GetBuffer, At
<1>2. Key(w) \in Calls \X Ids
  <2>1. Made(w) /\ Call(w) \in Calls
    BY <1>1 DEF TypeInv, ReaderTypes, Working, At
  <2> QED BY <2>1 DEF TypeInv, IdTypes, Made, Key
<1>3. found \in Buffers \cup {None} /\ target \in ReaderPoints
  BY <1>2 DEF TypeInv, StoreTypes
<1> HIDE DEF found, target
<1>4. Advance(w, target) /\ reader'[w].buf = found
  <2>1. ReaderTypes
    BY DEF TypeInv
  <2>2. PICK q \in ReaderPoints, d \in Buffers \cup {None} : q = target /\ d = found
    BY <1>3
  <2>3. /\ q \in ReaderPoints /\ d \in Buffers \cup {None}
        /\ reader' = [reader EXCEPT ![w].pc = q, ![w].buf = d]
    BY <1>1, <2>2
  <2>4. /\ reader' \in [Wires -> ReaderStates]
        /\ reader'[w].pc = q /\ reader'[w].buf = d /\ reader'[w].call = reader[w].call
        /\ \A v \in Wires : v # w => reader'[v] = reader[v]
    BY <2>1, <2>3 DEF ReaderTypes, ReaderStates
  <2> QED BY <2>2, <2>4 DEF Advance
<1>5. (found = None /\ target = push) \/ (found \in Buffers /\ target = next)
  BY <1>3 DEF target
<1>6. UNCHANGED <<messages, call_to_buffer_map, ongoing_procedures, streams, ran>>
  BY DEF GetBuffer, store, calls, history
<1> QED BY <1>1, <1>4, <1>5, <1>6 DEF found

LEMMA PushMoves ==
    ASSUME TypeInv, NEW w \in Wires, NEW where, NEW next \in ReaderPoints,
           PushBuffer(w, where, next)
    PROVE  /\ reader[w].pc = where /\ Advance(w, next) /\ reader'[w].buf \in Buffers
           /\ messages[reader'[w].buf] = None
           /\ messages' = [messages EXCEPT ![reader'[w].buf] = [args |-> <<>>, complete |-> FALSE]]
           /\ UNCHANGED <<call_to_buffer_map, ongoing_procedures, streams, ran>>
<1>1. PICK b \in Buffers :
         /\ messages[b] = None
         /\ messages' = [messages EXCEPT ![b] = [args |-> <<>>, complete |-> FALSE]]
         /\ reader' = [reader EXCEPT ![w].pc = next, ![w].buf = b]
  BY DEF PushBuffer
<1>2. Advance(w, next) /\ reader'[w].buf = b
  <2>1. ReaderTypes
    BY DEF TypeInv
  <2>2. reader' = [reader EXCEPT ![w].pc = next, ![w].buf = b] /\ b \in Buffers \cup {None}
    BY <1>1
  <2>3. /\ reader' \in [Wires -> ReaderStates]
        /\ reader'[w].pc = next /\ reader'[w].buf = b /\ reader'[w].call = reader[w].call
        /\ \A v \in Wires : v # w => reader'[v] = reader[v]
    BY <2>1, <2>2, BufferMoves
  <2> QED BY <2>3 DEF Advance
<1> QED BY <1>1, <1>2 DEF PushBuffer, At, calls, history

(* The others keep their buffer.                                           *)
LEMMA StepMoves ==
    ASSUME TypeInv, NEW w \in Wires
    PROVE  /\ \A where, next \in ReaderPoints : MapBuffer(w, where, next) =>
                reader[w].pc = where /\ Advance(w, next) /\ reader'[w].buf = reader[w].buf
           /\ Register(w) => /\ reader[w].pc = "register" /\ Advance(w, "append")
                             /\ reader'[w].buf = reader[w].buf
           /\ AppendArguments(w) =>
                /\ reader[w].pc = "append" /\ reader'[w].buf = reader[w].buf
                /\ \/ Accepts(Buf(w)) /\ arrived[w][Call(w)] = Pieces /\ Advance(w, "terminate")
                   \/ Accepts(Buf(w)) /\ arrived[w][Call(w)] # Pieces /\ Advance(w, "idle")
                   \/ ~Accepts(Buf(w)) /\ Advance(w, "failed")
           /\ TerminateArguments(w) =>
                /\ reader[w].pc = "terminate" /\ reader'[w].buf = reader[w].buf
                /\ \/ Accepts(Buf(w)) /\ Advance(w, "find")
                   \/ ~Accepts(Buf(w)) /\ Advance(w, "failed")
           /\ Unmap(w) => /\ reader[w].pc = "unmap" /\ Advance(w, "run")
                          /\ reader'[w].buf = reader[w].buf
           /\ Run(w) => /\ reader[w].pc = "run" /\ reader'[w].buf = reader[w].buf
                        /\ \/ Runs(w) /\ Advance(w, "pop")
                           \/ ~Runs(w) /\ Advance(w, "failed")
           /\ PopArguments(w) => /\ reader[w].pc = "pop" /\ Advance(w, "answer")
                                 /\ reader'[w].buf = reader[w].buf
           /\ Answer(w) => /\ reader[w].pc = "answer" /\ Advance(w, "idle")
                           /\ reader'[w].buf = reader[w].buf
           /\ StopReading(w) => /\ reader[w].pc = "idle" /\ Advance(w, "stopped")
                                /\ reader'[w].buf = reader[w].buf
<1>1. ASSUME NEW p \in ReaderPoints, Goto(w, p)
      PROVE  Advance(w, p) /\ reader'[w].buf = reader[w].buf
  <2>1. ReaderTypes
    BY DEF TypeInv
  <2> QED BY <1>1, <2>1, PointMoves DEF Advance
<1>2. /\ "append" \in ReaderPoints /\ "terminate" \in ReaderPoints /\ "idle" \in ReaderPoints
      /\ "failed" \in ReaderPoints /\ "find" \in ReaderPoints /\ "run" \in ReaderPoints
      /\ "pop" \in ReaderPoints /\ "answer" \in ReaderPoints /\ "stopped" \in ReaderPoints
  BY DEF ReaderPoints
<1>3. \A where, next \in ReaderPoints : MapBuffer(w, where, next) =>
                reader[w].pc = where /\ Advance(w, next) /\ reader'[w].buf = reader[w].buf
  BY <1>1 DEF MapBuffer, At
<1>4. Register(w) => /\ reader[w].pc = "register" /\ Advance(w, "append")
                     /\ reader'[w].buf = reader[w].buf
  BY <1>1, <1>2 DEF Register, At
<1>5. AppendArguments(w) =>
                /\ reader[w].pc = "append" /\ reader'[w].buf = reader[w].buf
                /\ \/ Accepts(Buf(w)) /\ arrived[w][Call(w)] = Pieces /\ Advance(w, "terminate")
                   \/ Accepts(Buf(w)) /\ arrived[w][Call(w)] # Pieces /\ Advance(w, "idle")
                   \/ ~Accepts(Buf(w)) /\ Advance(w, "failed")
  BY <1>1, <1>2 DEF AppendArguments, At
<1>6. TerminateArguments(w) =>
                /\ reader[w].pc = "terminate" /\ reader'[w].buf = reader[w].buf
                /\ \/ Accepts(Buf(w)) /\ Advance(w, "find")
                   \/ ~Accepts(Buf(w)) /\ Advance(w, "failed")
  BY <1>1, <1>2 DEF TerminateArguments, At
<1>7. Unmap(w) => /\ reader[w].pc = "unmap" /\ Advance(w, "run")
                  /\ reader'[w].buf = reader[w].buf
  BY <1>1, <1>2 DEF Unmap, At
<1>8. Run(w) => /\ reader[w].pc = "run" /\ reader'[w].buf = reader[w].buf
                /\ \/ Runs(w) /\ Advance(w, "pop")
                   \/ ~Runs(w) /\ Advance(w, "failed")
  BY <1>1, <1>2 DEF Run, At
<1>9. /\ PopArguments(w) => /\ reader[w].pc = "pop" /\ Advance(w, "answer")
                            /\ reader'[w].buf = reader[w].buf
      /\ Answer(w) => /\ reader[w].pc = "answer" /\ Advance(w, "idle")
                      /\ reader'[w].buf = reader[w].buf
      /\ StopReading(w) => /\ reader[w].pc = "idle" /\ Advance(w, "stopped")
                           /\ reader'[w].buf = reader[w].buf
  BY <1>1, <1>2 DEF PopArguments, Answer, StopReading, At
<1> QED BY <1>3, <1>4, <1>5, <1>6, <1>7, <1>8, <1>9

(* Where the reader of a wire is after a step of it.                       *)
LEMMA ReaderPath ==
    ASSUME TypeInv, NEW w \in Wires, ReaderStep(w) \/ StopReading(w)
    PROVE  \E p \in ReaderPoints :
             /\ Advance(w, p)
             /\ p \in Working => reader[w].pc \in Working
             /\ p # "none" /\ reader[w].pc # "none"
             /\ p \in Holding => reader'[w].buf \in Buffers
<1>0. reader[w].pc \in Holding => reader[w].buf \in Buffers
  BY DEF TypeInv, ReaderTypes, Buf
<1> USE DEF ReaderPoints, Working
<1>1. CASE GetBuffer(w, "get", "push", "register")
  <2>1. reader[w].pc = "get" /\ reader'[w].buf = call_to_buffer_map[Key(w)]
        /\ \/ Advance(w, "push")
           \/ call_to_buffer_map[Key(w)] \in Buffers /\ Advance(w, "register")
    <3>1. "get" \in Working /\ "push" \in ReaderPoints /\ "register" \in ReaderPoints
      OBVIOUS
    <3> HIDE DEF ReaderPoints, Working
    <3> QED BY <1>1, <3>1, GetMoves
  <2> QED BY <2>1 DEF Holding
<1>2. CASE GetBuffer(w, "find", "push again", "unmap")
  <2>1. reader[w].pc = "find" /\ reader'[w].buf = call_to_buffer_map[Key(w)]
        /\ \/ Advance(w, "push again")
           \/ call_to_buffer_map[Key(w)] \in Buffers /\ Advance(w, "unmap")
    <3>1. "find" \in Working /\ "push again" \in ReaderPoints /\ "unmap" \in ReaderPoints
      OBVIOUS
    <3> HIDE DEF ReaderPoints, Working
    <3> QED BY <1>2, <3>1, GetMoves
  <2> QED BY <2>1 DEF Holding
<1>6. CASE PushBuffer(w, "push", "map")
  <2>1. reader[w].pc = "push" /\ Advance(w, "map") /\ reader'[w].buf \in Buffers
    <3>1. "map" \in ReaderPoints
      OBVIOUS
    <3> HIDE DEF ReaderPoints, Working
    <3> QED BY <1>6, <3>1, PushMoves
  <2> QED BY <2>1
<1>7. CASE PushBuffer(w, "push again", "map again")
  <2>1. reader[w].pc = "push again" /\ Advance(w, "map again") /\ reader'[w].buf \in Buffers
    <3>1. "map again" \in ReaderPoints
      OBVIOUS
    <3> HIDE DEF ReaderPoints, Working
    <3> QED BY <1>7, <3>1, PushMoves
  <2> QED BY <2>1
<1>3. CASE MapBuffer(w, "map", "register") \/ MapBuffer(w, "map again", "unmap")
  BY <1>0, <1>3, StepMoves DEF Holding
<1>4. CASE Register(w) \/ AppendArguments(w) \/ TerminateArguments(w)
  BY <1>0, <1>4, StepMoves DEF Holding
<1>5. CASE Unmap(w) \/ Run(w) \/ PopArguments(w) \/ Answer(w) \/ StopReading(w)
  BY <1>0, <1>5, StepMoves DEF Holding
<1> QED BY <1>1, <1>2, <1>3, <1>4, <1>5, <1>6, <1>7 DEF ReaderStep

(* Readers.                                                                *)
LEMMA ReaderTypesStep ==
    ASSUME TypeInv, [Next]_vars
    PROVE  ReaderTypes'
<1>0. /\ reader \in [Wires -> ReaderStates] /\ id \in [Wires -> Ids \cup {None}]
      /\ \A w \in Wires :
           /\ reader[w].pc = "none" <=> ~Made(w)
           /\ reader[w].pc \in Holding => reader[w].buf \in Buffers
           /\ reader[w].pc \in Working => /\ reader[w].call \in Calls
                                          /\ arrived[w][reader[w].call] >= 1
  BY DEF TypeInv, ReaderTypes, IdTypes, At, Buf, Call
<1>1. ASSUME reader' \in [Wires -> ReaderStates],
             \A w \in Wires :
               /\ reader'[w].pc = "none" <=> ~Made(w)'
               /\ reader'[w].pc \in Holding => reader'[w].buf \in Buffers
               /\ reader'[w].pc \in Working => /\ reader'[w].call \in Calls
                                               /\ arrived'[w][reader'[w].call] >= 1
      PROVE  ReaderTypes'
  BY <1>1 DEF ReaderTypes, At, Buf, Call
<1>2. CASE UNCHANGED <<reader, id, arrived>>
  BY <1>0, <1>1, <1>2 DEF Made
<1>3. ASSUME NEW w \in Wires, ReaderStep(w) \/ StopReading(w) PROVE ReaderTypes'
  <2>1. UNCHANGED <<id, arrived>>
    BY <1>3, ReaderStepKeeps
  <2>2. PICK p \in ReaderPoints : /\ Advance(w, p)
                                  /\ p \in Working => reader[w].pc \in Working
                                  /\ p # "none" /\ reader[w].pc # "none"
                                  /\ p \in Holding => reader'[w].buf \in Buffers
    BY <1>3, ReaderPath
  <2> QED BY <1>0, <1>1, <2>1, <2>2 DEF Advance, Made
<1>4. ASSUME NEW w \in Wires, NEW c \in Calls, Receive(w, c) PROVE ReaderTypes'
  <2>1. /\ UNCHANGED id /\ reader[w].pc = "idle" /\ arrived' = [arrived EXCEPT ![w][c] = @ + 1]
        /\ reader' \in {reader, [reader EXCEPT ![w] = [pc |-> "get", call |-> c, buf |-> None]]}
    BY <1>4 DEF Receive, At, ids
  <2>2. arrived \in [Wires -> [Calls -> 0 .. Pieces]]
    BY DEF TypeInv, HistoryTypes
  <2>3. /\ arrived'[w][c] >= 1 /\ \A d \in Calls : arrived'[w][d] >= arrived[w][d]
        /\ \A v \in Wires : v # w => arrived'[v] = arrived[v]
    BY <2>1, <2>2, PiecesAssumption
  <2>4. [pc |-> "get", call |-> c, buf |-> None] \in ReaderStates
    BY DEF ReaderStates, ReaderPoints
  <2>5. /\ reader' \in [Wires -> ReaderStates]
        /\ \A v \in Wires : v # w => reader'[v] = reader[v]
        /\ \/ reader'[w] = reader[w]
           \/ reader'[w].pc = "get" /\ reader'[w].call = c
    BY <1>0, <2>1, <2>4
  <2>6. Made(w) /\ \A v \in Wires : Made(v)' = Made(v)
    BY <1>0, <2>1 DEF Made
  <2>7. ASSUME NEW v \in Wires
        PROVE  /\ reader'[v].pc = "none" <=> ~Made(v)'
               /\ reader'[v].pc \in Holding => reader'[v].buf \in Buffers
               /\ reader'[v].pc \in Working => /\ reader'[v].call \in Calls
                                               /\ arrived'[v][reader'[v].call] >= 1
    <3>1. Made(v)' <=> Made(v)
      BY <2>6
    <3>2. CASE reader'[v] = reader[v]
      <4>1. reader[v].pc \in Working => arrived'[v][reader[v].call] >= arrived[v][reader[v].call]
        <5>1. CASE v = w
          BY <1>0, <2>3, <5>1
        <5>2. CASE v # w
          <6>1. arrived'[v] = arrived[v] /\ arrived[v] \in [Calls -> 0 .. Pieces]
            BY <2>2, <2>3, <5>2
          <6> QED BY <1>0, <6>1, PiecesAssumption
        <5> QED BY <5>1, <5>2
      <4>2. arrived'[v] \in [Calls -> Nat] /\ arrived[v] \in [Calls -> Nat]
        BY <2>1, <2>2, PiecesAssumption
      <4> QED BY <1>0, <3>1, <3>2, <4>1, <4>2
    <3>3. CASE v = w /\ reader'[w].pc = "get" /\ reader'[w].call = c
      BY <2>3, <2>6, <3>1, <3>3 DEF Holding
    <3> QED BY <2>5, <3>2, <3>3
  <2> QED BY <1>1, <2>5, <2>7
<1>5. ASSUME NEW w \in Wires, NEW c \in Calls, LastYield(w, c) PROVE ReaderTypes'
  BY <1>2, <1>5 DEF LastYield, ids, history
<1>6. ASSUME NEW w \in Wires, NewWire(w) PROVE ReaderTypes'
  <2>1. /\ UNCHANGED arrived /\ Goto(w, "idle")
    BY <1>6 DEF NewWire, history, Goto
  <2>2. /\ reader' \in [Wires -> ReaderStates] /\ reader'[w].pc = "idle"
        /\ \A v \in Wires : v # w => reader'[v] = reader[v]
    BY <2>1, PointMoves DEF TypeInv, ReaderPoints
  <2>3. IdTypes'
    BY IdTypesStep
  <2>4. Made(w)' /\ \A v \in Wires : v # w => Made(v)' = Made(v)
    <3>1. \E i \in Ids : id' = [id EXCEPT ![w] = i]
      <4>1. wire_ids # <<>> => id' = [id EXCEPT ![w] = Head(wire_ids)]
        BY <1>6 DEF NewWire
      <4>2. wire_ids = <<>> => id' = [id EXCEPT ![w] = issued]
        BY <1>6 DEF NewWire
      <4>3. wire_ids # <<>> => Head(wire_ids) \in Ids
        BY HeadTailProperties DEF TypeInv, IdTypes
      <4>4. wire_ids = <<>> => issued \in Ids
        <5>1. w \notin MadeWires /\ MadeWires \subseteq Wires
          BY <1>6 DEF NewWire, MadeWires
        <5>2. Cardinality(MadeWires) <= Cardinality(Wires) /\ Cardinality(Wires) \in Nat
              /\ Cardinality(MadeWires) \in Nat
          BY <5>1, WiresAssumption, FS_Subset, FS_CardinalityType
        <5> QED BY <5>2 DEF TypeInv, IdTypes, Ids
      <4> QED BY <4>1, <4>2, <4>3, <4>4
    <3> QED BY <1>0, <3>1, NoneAssumption DEF Made, Ids
  <2> QED BY <1>0, <1>1, <2>1, <2>2, <2>4 DEF Holding, Working
<1>7. ASSUME NEW w \in Wires, NEW r \in Clones(w), Drop(w, r) \/ DropStep(w, r) PROVE ReaderTypes'
  BY <1>2, <1>7, DropKeeps
<1>8. UNCHANGED vars => UNCHANGED <<reader, id, arrived>>
  BY VarsKept
<1> QED BY <1>2, <1>3, <1>4, <1>5, <1>6, <1>7, <1>8, NextKinds

LEMMA TypesHold == Spec => []TypeInv
<1>1. Init => TypeInv
  <2> SUFFICES ASSUME Init PROVE TypeInv
    OBVIOUS
  <2>1. \A w \in Wires : ~Made(w)
    BY DEF Init, Made
  <2>2. IdTypes
    <3>1. MadeWires = {} /\ Cardinality({}) = 0
      BY <2>1, FS_EmptySet DEF MadeWires
    <3>2. <<>> \in Seq(Ids)
      OBVIOUS
    <3> QED BY <3>1, <3>2 DEF Init, IdTypes
  <2>3. StoreTypes /\ CallTypes
    BY DEF Init, StoreTypes, CallTypes
  <2>4. DropTypes
    BY <2>1, NoneAssumption DEF Init, DropTypes, ClonePoints
  <2>5. HistoryTypes
    <3>1. <<>> \in Seq(Seq(Piece))
      OBVIOUS
    <3> QED BY <3>1, PiecesAssumption DEF Init, HistoryTypes
  <2>6. ReaderTypes
    BY <2>1 DEF Init, ReaderTypes, ReaderStates, ReaderPoints, At, Holding, Working
  <2> QED BY <2>2, <2>3, <2>4, <2>5, <2>6 DEF TypeInv
<1>2. TypeInv /\ [Next]_vars => TypeInv'
  BY IdTypesStep, StoreTypesStep, DropTypesStep, CallTypesStep, HistoryTypesStep, ReaderTypesStep
     DEF TypeInv
<1> QED BY <1>1, <1>2, PTL DEF Spec

(* Every variable keeps its type; a reader past get_call_buffer has a      *)
(* buffer, a drop pops a message exactly if it found a mapping, and there  *)
(* are never more wire identifiers than wires, however often they are      *)
(* handed back (receive_one, drop_associated_call_message).                *)
THEOREM TypeCorrect == Spec => []TypeOK
<1>1. ASSUME TypeInv PROVE TypeOK
  <2>1. wire_ids \in Seq(Ids) /\ issued \in Ids /\ id \in [Wires -> Ids \cup {None}]
    <3>1. Cardinality(MadeWires) <= Cardinality(Wires) /\ Cardinality(Wires) \in Nat
          /\ Cardinality(MadeWires) \in Nat
      BY WiresAssumption, FS_Subset, FS_CardinalityType DEF MadeWires
    <3> QED BY <1>1, <3>1 DEF TypeInv, IdTypes, Ids
  <2>2. \A w \in Wires : \A r \in Clones(w) :
           /\ clone[w][r] \in {"up", "sweep", "pop", "gone"}
           /\ due[w][r] \subseteq Calls
           /\ (clone[w][r] = "pop") = (removed[w][r] \in Buffers)
    BY <1>1 DEF TypeInv, DropTypes, ClonePoints
  <2>3. \A w \in Wires : /\ At(w, "none") = ~Made(w)
                         /\ reader[w].pc \in Holding => Buf(w) \in Buffers
    BY <1>1 DEF TypeInv, ReaderTypes
  <2>4. terminated \in [Wires -> BOOLEAN] /\ ongoing_procedures \in [Wires -> SUBSET Calls]
        /\ streams \subseteq {<<w, c>> : w \in Wires, c \in Streaming}
        /\ arrived \in [Wires -> [Calls -> 0 .. Pieces]] /\ rejected \subseteq Wires \X Calls
    BY <1>1 DEF TypeInv, DropTypes, CallTypes, HistoryTypes
  <2> QED BY <1>1, <2>1, <2>2, <2>3, <2>4 DEF TypeOK, TypeInv, StoreTypes, Content
<1> QED BY <1>1, TypesHold, PTL

-----------------------------------------------------------------------------
(* What each step does, told by what it changes.                           *)
ReaderClone(w) == clone[w]["reader"]
CallKeys == Calls \X Ids
Mapping(w, c) == call_to_buffer_map[<<c, id[w]>>]

Found(w) ==
    /\ reader'[w].buf = Mapping(w, Call(w))
    /\ \/ reader[w].pc = "get" /\ Mapping(w, Call(w)) = None /\ Advance(w, "push")
       \/ reader[w].pc = "get" /\ Mapping(w, Call(w)) \in Buffers /\ Advance(w, "register")
       \/ reader[w].pc = "find" /\ Mapping(w, Call(w)) = None /\ Advance(w, "push again")
       \/ reader[w].pc = "find" /\ Mapping(w, Call(w)) \in Buffers /\ Advance(w, "unmap")
    /\ UNCHANGED <<messages, call_to_buffer_map, ongoing_procedures, streams, ran>>
Pushed(w) ==
    /\ \/ reader[w].pc = "push" /\ Advance(w, "map")
       \/ reader[w].pc = "push again" /\ Advance(w, "map again")
    /\ reader'[w].buf \in Buffers /\ messages[reader'[w].buf] = None
    /\ messages' = [messages EXCEPT ![reader'[w].buf] = [args |-> <<>>, complete |-> FALSE]]
    /\ UNCHANGED <<call_to_buffer_map, ongoing_procedures, streams, ran>>
Mapped(w) ==
    /\ \/ reader[w].pc = "map" /\ Advance(w, "register")
       \/ reader[w].pc = "map again" /\ Advance(w, "unmap")
    /\ reader'[w].buf = Buf(w)
    /\ call_to_buffer_map' = [call_to_buffer_map EXCEPT ![Key(w)] = Buf(w)]
    /\ UNCHANGED <<messages, ongoing_procedures, streams, ran>>
Entered(w) ==
    /\ reader[w].pc = "register" /\ Advance(w, "append") /\ reader'[w].buf = Buf(w)
    /\ ongoing_procedures' = [ongoing_procedures EXCEPT ![w] = @ \cup {Call(w)}]
    /\ UNCHANGED <<messages, call_to_buffer_map, streams, ran>>
Added(w) ==
    /\ \/ arrived[w][Call(w)] = Pieces /\ Advance(w, "terminate")
       \/ arrived[w][Call(w)] # Pieces /\ Advance(w, "idle")
    /\ reader[w].pc = "append" /\ Accepts(Buf(w)) /\ reader'[w].buf = Buf(w)
    /\ messages' = [messages EXCEPT ![Buf(w)].args =
                        Append(@, <<w, Call(w), arrived[w][Call(w)]>>)]
    /\ UNCHANGED <<call_to_buffer_map, ongoing_procedures, streams, ran>>
Closed(w) ==
    /\ reader[w].pc = "terminate" /\ Advance(w, "find")
    /\ Accepts(Buf(w)) /\ reader'[w].buf = Buf(w)
    /\ messages' = [messages EXCEPT ![Buf(w)].complete = TRUE]
    /\ UNCHANGED <<call_to_buffer_map, ongoing_procedures, streams, ran>>
Refused(w) ==
    /\ reader[w].pc \in {"append", "terminate", "run"} /\ Advance(w, "failed")
    /\ reader'[w].buf = Buf(w)
    /\ UNCHANGED <<messages, call_to_buffer_map, ongoing_procedures, streams, ran>>
Taken(w) ==
    /\ reader[w].pc = "unmap" /\ Advance(w, "run") /\ reader'[w].buf = Buf(w)
    /\ call_to_buffer_map' = [call_to_buffer_map EXCEPT ![Key(w)] = None]
    /\ UNCHANGED <<messages, ongoing_procedures, streams, ran>>
HasRun(w) ==
    /\ reader[w].pc = "run" /\ Runs(w) /\ Advance(w, "pop") /\ reader'[w].buf = Buf(w)
    /\ ran' = [ran EXCEPT ![w][Call(w)] = Append(@, messages[Buf(w)].args)]
    /\ streams' \subseteq streams \cup {<<w, Call(w)>>}
    /\ UNCHANGED <<messages, call_to_buffer_map, ongoing_procedures>>
Popped(w) ==
    /\ reader[w].pc = "pop" /\ Advance(w, "answer") /\ reader'[w].buf = Buf(w)
    /\ messages' = [messages EXCEPT ![Buf(w)] = None]
    /\ UNCHANGED <<call_to_buffer_map, ongoing_procedures, streams, ran>>
Answered(w) ==
    /\ reader[w].pc = "answer" /\ Advance(w, "idle") /\ reader'[w].buf = Buf(w)
    /\ \E gone \in {{}, {Call(w)}} :
         ongoing_procedures' = [ongoing_procedures EXCEPT ![w] = @ \ gone]
    /\ UNCHANGED <<messages, call_to_buffer_map, streams, ran>>
Halted(w) ==
    /\ reader[w].pc = "idle" /\ Advance(w, "stopped") /\ reader'[w].buf = Buf(w)
    /\ UNCHANGED <<messages, call_to_buffer_map, ongoing_procedures, streams, ran>>

ReaderDid(w) ==
    \/ Found(w) \/ Pushed(w) \/ Mapped(w) \/ Entered(w) \/ Added(w) \/ Closed(w) \/ Refused(w)
    \/ Taken(w) \/ HasRun(w) \/ Popped(w) \/ Answered(w) \/ Halted(w)

LEMMA ReaderSteps ==
    ASSUME TypeInv, NEW w \in Wires, ReaderStep(w) \/ StopReading(w)
    PROVE  /\ ReaderDid(w)
           /\ UNCHANGED <<wire_ids, issued, id, clone, due, removed, terminated, arrived, rejected>>
<1>1. CASE GetBuffer(w, "get", "push", "register")
  <2>1. "get" \in Working /\ "push" \in ReaderPoints /\ "register" \in ReaderPoints
    BY DEF Working, ReaderPoints
  <2>2. /\ reader[w].pc = "get" /\ reader'[w].buf = call_to_buffer_map[Key(w)]
        /\ \/ call_to_buffer_map[Key(w)] = None /\ Advance(w, "push")
           \/ call_to_buffer_map[Key(w)] \in Buffers /\ Advance(w, "register")
        /\ UNCHANGED <<messages, call_to_buffer_map, ongoing_procedures, streams, ran>>
    BY <1>1, <2>1, GetMoves
  <2>3. Found(w)
    BY <2>2 DEF Found, Mapping, Key
  <2> QED BY <2>3, ReaderStepKeeps DEF ReaderDid
<1>2. CASE GetBuffer(w, "find", "push again", "unmap")
  <2>1. "find" \in Working /\ "push again" \in ReaderPoints /\ "unmap" \in ReaderPoints
    BY DEF Working, ReaderPoints
  <2>2. /\ reader[w].pc = "find" /\ reader'[w].buf = call_to_buffer_map[Key(w)]
        /\ \/ call_to_buffer_map[Key(w)] = None /\ Advance(w, "push again")
           \/ call_to_buffer_map[Key(w)] \in Buffers /\ Advance(w, "unmap")
        /\ UNCHANGED <<messages, call_to_buffer_map, ongoing_procedures, streams, ran>>
    BY <1>2, <2>1, GetMoves
  <2>3. Found(w)
    BY <2>2 DEF Found, Mapping, Key
  <2> QED BY <2>3, ReaderStepKeeps DEF ReaderDid
<1>3. CASE PushBuffer(w, "push", "map") \/ PushBuffer(w, "push again", "map again")
  <2>1. "map" \in ReaderPoints /\ "map again" \in ReaderPoints
    BY DEF ReaderPoints
  <2>2. Pushed(w)
    BY <1>3, <2>1, PushMoves DEF Pushed
  <2> QED BY <2>2, ReaderStepKeeps DEF ReaderDid
<1>4. CASE MapBuffer(w, "map", "register") \/ MapBuffer(w, "map again", "unmap")
  <2>1. /\ "map" \in ReaderPoints /\ "map again" \in ReaderPoints
        /\ "register" \in ReaderPoints /\ "unmap" \in ReaderPoints
    BY DEF ReaderPoints
  <2>2. /\ reader'[w].buf = Buf(w)
        /\ \/ reader[w].pc = "map" /\ Advance(w, "register")
           \/ reader[w].pc = "map again" /\ Advance(w, "unmap")
    BY <1>4, <2>1, StepMoves DEF Buf
  <2>3. /\ call_to_buffer_map' = [call_to_buffer_map EXCEPT ![Key(w)] = Buf(w)]
        /\ UNCHANGED <<messages, ongoing_procedures, streams, ran>>
    BY <1>4 DEF MapBuffer, calls, history
  <2>4. Mapped(w)
    BY <2>2, <2>3 DEF Mapped
  <2> QED BY <1>4, <2>4, ReaderStepKeeps DEF ReaderDid
<1>5. CASE Register(w)
  <2>1. Entered(w)
    BY <1>5, StepMoves DEF Entered, Register, Buf, store, history
  <2> QED BY <2>1, ReaderStepKeeps DEF ReaderDid
<1>6. CASE AppendArguments(w)
  <2>1. /\ reader[w].pc = "append" /\ reader'[w].buf = Buf(w)
        /\ \/ Accepts(Buf(w)) /\ arrived[w][Call(w)] = Pieces /\ Advance(w, "terminate")
           \/ Accepts(Buf(w)) /\ arrived[w][Call(w)] # Pieces /\ Advance(w, "idle")
           \/ ~Accepts(Buf(w)) /\ Advance(w, "failed")
    BY <1>6, StepMoves DEF Buf
  <2>2. /\ Accepts(Buf(w)) => messages' = [messages EXCEPT ![Buf(w)].args =
                                   Append(@, <<w, Call(w), arrived[w][Call(w)]>>)]
        /\ ~Accepts(Buf(w)) => UNCHANGED messages
        /\ UNCHANGED <<call_to_buffer_map, ongoing_procedures, streams, ran>>
    BY <1>6 DEF AppendArguments, calls, history
  <2>3. Added(w) \/ Refused(w)
    BY <2>1, <2>2 DEF Added, Refused
  <2> QED BY <2>3, ReaderStepKeeps DEF ReaderDid
<1>7. CASE TerminateArguments(w)
  <2>1. /\ reader[w].pc = "terminate" /\ reader'[w].buf = Buf(w)
        /\ \/ Accepts(Buf(w)) /\ Advance(w, "find")
           \/ ~Accepts(Buf(w)) /\ Advance(w, "failed")
    BY <1>7, StepMoves DEF Buf
  <2>2. /\ Accepts(Buf(w)) => messages' = [messages EXCEPT ![Buf(w)].complete = TRUE]
        /\ ~Accepts(Buf(w)) => UNCHANGED messages
        /\ UNCHANGED <<call_to_buffer_map, ongoing_procedures, streams, ran>>
    BY <1>7 DEF TerminateArguments, calls, history
  <2>3. Closed(w) \/ Refused(w)
    BY <2>1, <2>2 DEF Closed, Refused
  <2> QED BY <2>3, ReaderStepKeeps DEF ReaderDid
<1>8. CASE Unmap(w)
  <2>1. Taken(w)
    BY <1>8, StepMoves DEF Taken, Unmap, Buf, calls, history
  <2> QED BY <2>1, ReaderStepKeeps DEF ReaderDid
<1>9. CASE Run(w)
  <2>1. /\ reader[w].pc = "run" /\ reader'[w].buf = Buf(w)
        /\ \/ Runs(w) /\ Advance(w, "pop")
           \/ ~Runs(w) /\ Advance(w, "failed")
    BY <1>9, StepMoves DEF Buf
  <2>2. /\ UNCHANGED <<messages, call_to_buffer_map, ongoing_procedures>>
        /\ ~Runs(w) => UNCHANGED <<ran, streams>>
        /\ Runs(w) => /\ ran' = [ran EXCEPT ![w][Call(w)] = Append(@, messages[Buf(w)].args)]
                      /\ streams' \subseteq streams \cup {<<w, Call(w)>>}
    BY <1>9 DEF Run, store
  <2>3. HasRun(w) \/ Refused(w)
    BY <2>1, <2>2 DEF HasRun, Refused
  <2> QED BY <2>3, ReaderStepKeeps DEF ReaderDid
<1>10. CASE PopArguments(w)
  <2>1. Popped(w)
    BY <1>10, StepMoves DEF Popped, PopArguments, Buf, calls, history
  <2> QED BY <2>1, ReaderStepKeeps DEF ReaderDid
<1>11. CASE Answer(w)
  <2>1. reader[w].pc = "answer" /\ Advance(w, "idle") /\ reader'[w].buf = Buf(w)
    BY <1>11, StepMoves DEF Buf
  <2>2. /\ ongoing_procedures' =
             [ongoing_procedures EXCEPT ![w] = IF Call(w) \in Standard THEN @ \ {Call(w)} ELSE @]
        /\ UNCHANGED <<messages, call_to_buffer_map, streams, ran>>
    BY <1>11 DEF Answer, store, history
  <2>3. \E gone \in {{}, {Call(w)}} :
          ongoing_procedures' = [ongoing_procedures EXCEPT ![w] = @ \ gone]
    BY <2>2
  <2> QED BY <2>1, <2>2, <2>3, ReaderStepKeeps DEF ReaderDid, Answered
<1>12. CASE StopReading(w)
  <2>1. Halted(w)
    BY <1>12, StepMoves DEF Halted, StopReading, Buf, store, calls, history
  <2> QED BY <2>1, ReaderStepKeeps DEF ReaderDid
<1> QED BY <1>1, <1>2, <1>3, <1>4, <1>5, <1>6, <1>7, <1>8, <1>9, <1>10, <1>11, <1>12 DEF ReaderStep

(* The steps of a drop leave every other clone alone.                      *)
OtherClones(w, r) ==
    \A v \in Wires : \A s \in Clones(v) : v # w \/ s # r =>
        /\ clone'[v][s] = clone[v][s]
        /\ due'[v][s] = due[v][s]
        /\ removed'[v][s] = removed[v][s]
Marked(w, r) ==
    /\ clone[w][r] = "up" /\ clone'[w][r] = "sweep"
    /\ r = "reader" => reader[w].pc \in {"failed", "stopped"}
    /\ due'[w][r] = ongoing_procedures[w]
    /\ removed[w][r] = None /\ removed'[w][r] = None
    /\ UNCHANGED <<messages, call_to_buffer_map>>
Cut(w, r, c) ==
    /\ clone[w][r] = "sweep"
    /\ clone'[w][r] = IF Mapping(w, c) = None THEN "sweep" ELSE "pop"
    /\ due'[w][r] = due[w][r] \ {c}
    /\ removed[w][r] = None /\ removed'[w][r] = Mapping(w, c)
    /\ call_to_buffer_map' = [call_to_buffer_map EXCEPT ![<<c, id[w]>>] = None]
    /\ UNCHANGED messages
Swept(w, r) ==
    /\ clone[w][r] = "pop" /\ clone'[w][r] = "sweep"
    /\ due'[w][r] = due[w][r]
    /\ removed[w][r] \in Buffers /\ removed'[w][r] = None
    /\ messages' = [messages EXCEPT ![removed[w][r]] = None]
    /\ UNCHANGED call_to_buffer_map
HandedBack(w, r) ==
    /\ clone[w][r] = "sweep" /\ clone'[w][r] = "gone"
    /\ due[w][r] = {} /\ due'[w][r] = {}
    /\ removed[w][r] = None /\ removed'[w][r] = None
    /\ UNCHANGED <<messages, call_to_buffer_map>>

LEMMA DropSteps ==
    ASSUME TypeInv, NEW w \in Wires, NEW r \in Clones(w), Drop(w, r) \/ DropStep(w, r)
    PROVE  /\ Made(w) /\ OtherClones(w, r)
           /\ Marked(w, r) \/ Swept(w, r) \/ HandedBack(w, r) \/ \E c \in Calls : Cut(w, r, c)
           /\ UNCHANGED <<issued, id, ongoing_procedures, streams, reader, arrived, rejected, ran>>
<1>0. DropTypes /\ None \notin Buffers
  BY NoneAssumption DEF TypeInv
<1>1. ASSUME NEW p, NEW d, NEW b, DropMoves(w, r, p, d, b)
      PROVE  /\ OtherClones(w, r)
             /\ clone'[w][r] = p /\ due'[w][r] = d /\ removed'[w][r] = b
  <2>1. /\ clone'[w][r] = p /\ due'[w][r] = d /\ removed'[w][r] = b
    BY <1>0, <1>1 DEF DropMoves, DropTypes
  <2>2. ASSUME NEW v \in Wires, NEW s \in Clones(v), v # w \/ s # r
        PROVE  /\ clone'[v][s] = clone[v][s]
               /\ due'[v][s] = due[v][s]
               /\ removed'[v][s] = removed[v][s]
    BY <1>0, <1>1, <2>2 DEF DropMoves, DropTypes
  <2> QED BY <2>1, <2>2 DEF OtherClones
<1>2. /\ clone[w][r] # "up" => Made(w)
      /\ clone[w][r] # "pop" => removed[w][r] = None
      /\ clone[w][r] = "pop" => removed[w][r] \in Buffers
      /\ due = [due EXCEPT ![w][r] = due[w][r]]
      /\ removed = [removed EXCEPT ![w][r] = removed[w][r]]
  <2>1. due[w] = [due[w] EXCEPT ![r] = due[w][r]] /\ removed[w] = [removed[w] EXCEPT ![r] = removed[w][r]]
    BY <1>0 DEF DropTypes
  <2>2. due = [due EXCEPT ![w] = due[w]] /\ removed = [removed EXCEPT ![w] = removed[w]]
    BY <1>0 DEF DropTypes
  <2>3. /\ clone[w][r] # "up" => Made(w)
        /\ clone[w][r] # "pop" => removed[w][r] = None
        /\ clone[w][r] = "pop" => removed[w][r] \in Buffers
    BY <1>0 DEF DropTypes
  <2> QED BY <2>1, <2>2, <2>3
<1>3. CASE Drop(w, r)
  <2>1. /\ Made(w) /\ clone[w][r] = "up"
        /\ r = "reader" => reader[w].pc \in {"failed", "stopped"}
        /\ UNCHANGED <<messages, call_to_buffer_map>>
    BY <1>3 DEF Drop, store
  <2>2. PICK p, d, b : /\ p = "sweep" /\ d = ongoing_procedures[w] /\ b = removed[w][r]
                       /\ DropMoves(w, r, p, d, b)
    BY <1>2, <1>3 DEF Drop, DropMoves
  <2>3. OtherClones(w, r) /\ clone'[w][r] = p /\ due'[w][r] = d /\ removed'[w][r] = b
    BY <1>1, <2>2
  <2> QED BY <1>2, <1>3, <2>1, <2>2, <2>3, DropKeeps DEF Marked
<1>4. ASSUME NEW c \in Calls, SweepMapping(w, r, c)
      PROVE  Made(w) /\ OtherClones(w, r) /\ Cut(w, r, c)
  <2>1. /\ clone[w][r] = "sweep" /\ UNCHANGED messages
        /\ call_to_buffer_map' = [call_to_buffer_map EXCEPT ![<<c, id[w]>>] = None]
    BY <1>4 DEF SweepMapping
  <2>2. PICK p, d, b : /\ p = IF Mapping(w, c) = None THEN "sweep" ELSE "pop"
                       /\ d = due[w][r] \ {c} /\ b = Mapping(w, c)
                       /\ DropMoves(w, r, p, d, b)
    BY <1>4 DEF SweepMapping, DropMoves, Mapping
  <2>3. OtherClones(w, r) /\ clone'[w][r] = p /\ due'[w][r] = d /\ removed'[w][r] = b
    BY <1>1, <2>2
  <2> QED BY <1>2, <2>1, <2>2, <2>3 DEF Cut
<1>5. CASE SweepMessage(w, r)
  <2>1. /\ clone[w][r] = "pop" /\ UNCHANGED call_to_buffer_map
        /\ messages' = [messages EXCEPT ![removed[w][r]] = None]
    BY <1>5 DEF SweepMessage
  <2>2. PICK p, d, b : /\ p = "sweep" /\ d = due[w][r] /\ b = None
                       /\ DropMoves(w, r, p, d, b)
    BY <1>2, <1>5 DEF SweepMessage, DropMoves
  <2>3. OtherClones(w, r) /\ clone'[w][r] = p /\ due'[w][r] = d /\ removed'[w][r] = b
    BY <1>1, <2>2
  <2> QED BY <1>2, <1>5, <2>1, <2>2, <2>3, DropKeeps DEF Swept
<1>6. CASE Relinquish(w, r)
  <2>1. /\ clone[w][r] = "sweep" /\ due[w][r] = {} /\ UNCHANGED <<messages, call_to_buffer_map>>
    BY <1>6 DEF Relinquish, store
  <2>2. PICK p, d, b : /\ p = "gone" /\ d = due[w][r] /\ b = removed[w][r]
                       /\ DropMoves(w, r, p, d, b)
    BY ZenonT(60), <1>2, <1>6 DEF Relinquish, DropMoves
  <2>3. OtherClones(w, r) /\ clone'[w][r] = p /\ due'[w][r] = d /\ removed'[w][r] = b
    BY <1>1, <2>2
  <2> QED BY <1>2, <1>6, <2>1, <2>2, <2>3, DropKeeps DEF HandedBack
<1> QED BY <1>3, <1>4, <1>5, <1>6, DropKeeps DEF DropStep

(* The steps of the other ends.                                            *)
Accepted(w, c) ==
    /\ reader'[w].pc = "get" /\ reader'[w].call = c
    /\ UNCHANGED rejected
Dismissed(w, c) ==
    /\ UNCHANGED reader
    /\ rejected' = rejected \cup {<<w, c>>}

LEMMA ReceiveSteps ==
    ASSUME TypeInv, NEW w \in Wires, NEW c \in Calls, Receive(w, c)
    PROVE  /\ reader[w].pc = "idle" /\ arrived[w][c] < Pieces
           /\ arrived'[w][c] = arrived[w][c] + 1
           /\ \A d \in Calls : d # c => arrived'[w][d] = arrived[w][d]
           /\ \A v \in Wires : v # w => arrived'[v] = arrived[v] /\ reader'[v] = reader[v]
           /\ Accepted(w, c) \/ Dismissed(w, c)
           /\ UNCHANGED <<wire_ids, issued, id, messages, call_to_buffer_map, clone, due, removed,
                          terminated, ran, ongoing_procedures, streams>>
<1>1. /\ reader[w].pc = "idle" /\ arrived[w][c] < Pieces
      /\ arrived' = [arrived EXCEPT ![w][c] = @ + 1]
      /\ UNCHANGED <<ongoing_procedures, streams>>
  BY DEF Receive, At, calls
<1>2. /\ arrived'[w][c] = arrived[w][c] + 1
      /\ \A d \in Calls : d # c => arrived'[w][d] = arrived[w][d]
      /\ \A v \in Wires : v # w => arrived'[v] = arrived[v]
  BY <1>1 DEF TypeInv, HistoryTypes
<1>3. \/ /\ reader' = [reader EXCEPT ![w] = [pc |-> "get", call |-> c, buf |-> None]]
         /\ UNCHANGED rejected
      \/ Dismissed(w, c)
  BY DEF Receive, Dismissed
<1>4. /\ Accepted(w, c) \/ Dismissed(w, c)
      /\ \A v \in Wires : v # w => reader'[v] = reader[v]
  <2>1. ASSUME reader' = [reader EXCEPT ![w] = [pc |-> "get", call |-> c, buf |-> None]]
        PROVE  /\ reader'[w].pc = "get" /\ reader'[w].call = c
               /\ \A v \in Wires : v # w => reader'[v] = reader[v]
    BY <2>1 DEF TypeInv, ReaderTypes
  <2> QED BY <1>3, <2>1 DEF Accepted, Dismissed
<1> QED BY <1>1, <1>2, <1>4, ReceiveKeeps

LEMMA YieldSteps ==
    ASSUME TypeInv, NEW w \in Wires, NEW c \in Calls, LastYield(w, c)
    PROVE  /\ <<w, c>> \in streams /\ streams' \subseteq streams
           /\ \E gone \in {{}, {c}} :
                ongoing_procedures' = [ongoing_procedures EXCEPT ![w] = @ \ gone]
           /\ UNCHANGED <<wire_ids, issued, id, messages, call_to_buffer_map, clone, due, removed,
                          terminated, reader, arrived, rejected, ran>>
<1>1. \E gone \in {{}, {c}} :
        ongoing_procedures' = [ongoing_procedures EXCEPT ![w] = @ \ gone]
  BY DEF LastYield
<1> QED BY <1>1, ReceiveKeeps DEF LastYield, history

LEMMA NewWireSteps ==
    ASSUME TypeInv, NEW w \in Wires, NewWire(w)
    PROVE  /\ ~Made(w) /\ Made(w)' /\ reader[w].pc = "none" /\ reader'[w].pc = "idle"
           /\ reader'[w].call = reader[w].call /\ reader'[w].buf = reader[w].buf
           /\ \A v \in Wires : v # w => /\ id'[v] = id[v] /\ reader'[v] = reader[v]
                                        /\ Made(v)' = Made(v)
           /\ \A v \in Wires : Made(v) => Made(v)'
           /\ UNCHANGED <<messages, call_to_buffer_map, clone, due, removed, terminated,
                          ongoing_procedures, streams, arrived, rejected, ran>>
<1>1. reader[w].pc = "none" /\ ~Made(w) /\ Goto(w, "idle")
  BY DEF NewWire, Goto, TypeInv, ReaderTypes, At
<1>2. /\ reader'[w].pc = "idle"
      /\ reader'[w].call = reader[w].call /\ reader'[w].buf = reader[w].buf
      /\ \A v \in Wires : v # w => reader'[v] = reader[v]
  BY <1>1, PointMoves DEF TypeInv, ReaderPoints
<1>3. ReaderTypes'
  BY ReaderTypesStep DEF Next
<1>4. Made(w)'
  BY <1>2, <1>3 DEF ReaderTypes, At
<1>5. \E i : id' = [id EXCEPT ![w] = i]
  BY DEF NewWire
<1>6. \A v \in Wires : v # w => id'[v] = id[v]
  BY <1>5 DEF TypeInv, IdTypes
<1>7. \A v \in Wires : v # w => Made(v)' = Made(v)
  BY <1>6 DEF Made
<1> QED BY <1>1, <1>2, <1>4, <1>6, <1>7, NewWireKeeps

-----------------------------------------------------------------------------
(* What is left.  The other threads of a started wire may sweep a call at  *)
(* any point, but only the reader maps one, so a call that it is between   *)
(* finding unmapped and mapping, or has unmapped, stays so.                *)
Unmapped == {"push", "map", "push again", "map again", "run", "pop", "answer"}
Registered == {"append", "terminate", "find", "push again", "map again", "unmap", "run"}
Complete == {"terminate", "find", "push again", "map again", "unmap", "run", "pop", "answer"}
After == {"pop", "answer", "idle", "failed", "stopped"}
Carrying == {"map", "map again", "run", "pop", "failed"}

ReaderUp == \A w \in Wires : ReaderClone(w) # "up" => reader[w].pc \in {"failed", "stopped"}

MapSeen ==
    \A w \in Wires :
        /\ reader[w].pc \in Unmapped => Mapping(w, Call(w)) = None
        /\ reader[w].pc = "unmap" => Mapping(w, Call(w)) \in {None, Buf(w)}

(* A call that is worked on is ongoing until it is answered: a streaming   *)
(* procedure's last yield comes after all of its arguments.                *)
Progress ==
    \A w \in Wires :
        /\ reader[w].pc \in Registered => Call(w) \in ongoing_procedures[w]
        /\ reader[w].pc \in Complete => arrived[w][Call(w)] = Pieces

StreamsOver ==
    \A w \in Wires, c \in Calls : <<w, c>> \in streams =>
        /\ Made(w) /\ arrived[w][c] = Pieces
        /\ Call(w) = c => reader[w].pc \in After
        /\ ReaderClone(w) = "up" => Mapping(w, c) = None

(* A mapping is one that the drop of a reader's clone will find, ...       *)
Covers(w, c) ==
    \/ /\ ReaderClone(w) = "up"
       /\ c \in ongoing_procedures[w] \/ (Call(w) = c /\ reader[w].pc = "register")
    \/ ReaderClone(w) \in {"sweep", "pop"} /\ c \in due[w]["reader"]

MappingsSwept ==
    \A c \in Calls, i \in Ids : call_to_buffer_map[<<c, i>>] # None =>
        \E w \in Wires : Made(w) /\ id[w] = i /\ Covers(w, c)

(* ... and a message has a mapping, or somebody at hand.                   *)
MessagesKept ==
    \A b \in Buffers : messages[b] # None =>
        \/ \E key \in CallKeys : call_to_buffer_map[key] = b
        \/ \E w \in Wires : reader[w].pc \in Carrying /\ Buf(w) = b
        \/ \E w \in Wires : \E r \in Clones(w) : clone[w][r] = "pop" /\ removed[w][r] = b

LeftInv == ReaderUp /\ MapSeen /\ Progress /\ StreamsOver /\ MappingsSwept /\ MessagesKept

(* A reader that is neither made, nor failed, nor stopped is of a wire     *)
(* that is live, and no two of those share a key.                          *)
LEMMA WorkingWire ==
    ASSUME TypeInv, ReaderUp, NEW w \in Wires, reader[w].pc \notin {"none", "failed", "stopped"}
    PROVE  /\ Made(w) /\ ReaderClone(w) = "up" /\ Live(w) /\ id[w] \in Ids
           /\ reader[w].pc # "idle" => Key(w) \in CallKeys /\ Call(w) \in Calls
<1>1. ReaderClone(w) = "up" /\ "reader" \in Clones(w)
  BY DEF ReaderUp, Clones
<1>2. Made(w) /\ id[w] \in Ids
  BY DEF TypeInv, ReaderTypes, IdTypes, At, Made
<1>3. Live(w)
  BY <1>1, <1>2 DEF Live, Gone, ReaderClone
<1>4. reader[w].pc # "idle" => Call(w) \in Calls
  BY DEF TypeInv, ReaderTypes, ReaderStates, Working
<1> QED BY <1>1, <1>2, <1>3, <1>4 DEF Key, CallKeys

LEMMA OwnKeys ==
    ASSUME UniqueWires, NEW v \in Wires, NEW w \in Wires, Live(v), Live(w),
           NEW c \in Calls, NEW d \in Calls, <<c, id[v]>> = <<d, id[w]>>
    PROVE  v = w /\ c = d
BY DEF UniqueWires

(* What every step of a reader does.                                       *)
LEMMA ReaderMoved ==
    ASSUME NEW w \in Wires, ReaderDid(w)
    PROVE  /\ reader'[w].call = reader[w].call
           /\ \A v \in Wires : v # w => reader'[v] = reader[v]
           /\ reader[w].pc \notin {"none", "failed", "stopped"}
<1>1. /\ reader[w].pc \notin {"none", "failed", "stopped"}
      /\ \E p : Advance(w, p)
  BY DEF ReaderDid, Found, Pushed, Mapped, Entered, Added, Closed, Refused, Taken, HasRun, Popped,
         Answered, Halted
<1> QED BY <1>1 DEF Advance

(* The map changes at the key of a reader that maps, or else loses a key.  *)
LEMMA ReaderMaps ==
    ASSUME TypeInv, ReaderUp, NEW w \in Wires, ReaderDid(w)
    PROVE  /\ Mapped(w) => /\ Key(w) \in CallKeys /\ call_to_buffer_map'[Key(w)] = Buf(w)
                           /\ Buf(w) \in Buffers
                           /\ \A key \in CallKeys : key # Key(w) =>
                                call_to_buffer_map'[key] = call_to_buffer_map[key]
           /\ Taken(w) => /\ Key(w) \in CallKeys /\ call_to_buffer_map'[Key(w)] = None
                          /\ Buf(w) \in Buffers
                          /\ \A key \in CallKeys : key # Key(w) =>
                               call_to_buffer_map'[key] = call_to_buffer_map[key]
           /\ Mapped(w) \/ Taken(w) \/ UNCHANGED call_to_buffer_map
<1>1. ASSUME Mapped(w) \/ Taken(w)
      PROVE  /\ Key(w) \in CallKeys /\ Buf(w) \in Buffers
             /\ call_to_buffer_map \in [CallKeys -> Buffers \cup {None}]
  <2>1. reader[w].pc \in {"map", "map again", "unmap"}
    BY <1>1 DEF Mapped, Taken
  <2> QED BY <2>1, WorkingWire DEF TypeInv, ReaderTypes, Holding, StoreTypes, CallKeys
<1>2. Mapped(w) \/ Taken(w) \/ UNCHANGED call_to_buffer_map
  BY DEF ReaderDid, Found, Pushed, Entered, Added, Closed, Refused, HasRun, Popped,
         Answered, Halted
<1> QED BY <1>1, <1>2 DEF Mapped, Taken

LEMMA CutMaps ==
    ASSUME TypeInv, NEW w \in Wires, NEW r \in Clones(w), NEW c \in Calls, Made(w), Cut(w, r, c)
    PROVE  /\ <<c, id[w]>> \in CallKeys /\ call_to_buffer_map'[<<c, id[w]>>] = None
           /\ \A key \in CallKeys : key # <<c, id[w]>> =>
                call_to_buffer_map'[key] = call_to_buffer_map[key]
<1>1. call_to_buffer_map \in [CallKeys -> Buffers \cup {None}] /\ <<c, id[w]>> \in CallKeys
  BY DEF TypeInv, StoreTypes, CallKeys, IdTypes, Made
<1> QED BY <1>1 DEF Cut

(* The parts, one after the other.                                         *)
LEMMA ReaderUpStep ==
    ASSUME TypeInv, ReaderUp, [Next]_vars
    PROVE  ReaderUp'
<1> USE DEF ReaderUp, ReaderClone
<1>0. \A w \in Wires : "reader" \in Clones(w)
  BY DEF Clones
<1>1. ASSUME NEW w \in Wires, ReaderStep(w) \/ StopReading(w) PROVE ReaderUp'
  BY <1>1, ReaderSteps, ReaderMoved
<1>2. ASSUME NEW w \in Wires, NEW c \in Calls, Receive(w, c) PROVE ReaderUp'
  BY <1>2, ReceiveSteps
<1>3. ASSUME NEW w \in Wires, NEW c \in Calls, LastYield(w, c) PROVE ReaderUp'
  BY <1>3, YieldSteps
<1>4. ASSUME NEW w \in Wires, NewWire(w) PROVE ReaderUp'
  BY <1>4, NewWireSteps
<1>5. ASSUME NEW w \in Wires, NEW r \in Clones(w), Drop(w, r) \/ DropStep(w, r) PROVE ReaderUp'
  <2>1. /\ OtherClones(w, r) /\ UNCHANGED reader
        /\ r = "reader" /\ clone[w][r] = "up" => reader[w].pc \in {"failed", "stopped"}
    BY <1>5, DropSteps DEF Marked, Swept, HandedBack, Cut
  <2> QED BY <1>0, <2>1 DEF OtherClones
<1> QED BY <1>1, <1>2, <1>3, <1>4, <1>5, NextKinds, VarsKept

LEMMA MapSeenStep ==
    ASSUME TypeInv, ReaderUp, UniqueWires, MapSeen, [Next]_vars
    PROVE  MapSeen'
<1>0. \A v \in Wires :
        reader[v].pc \in Unmapped \cup {"unmap"} =>
            /\ Live(v) /\ id[v] \in Ids /\ Call(v) \in Calls /\ Key(v) \in CallKeys
            /\ Made(v)
  BY WorkingWire DEF Unmapped
<1>1. ASSUME UNCHANGED <<id, reader>>,
             \A key \in CallKeys : call_to_buffer_map'[key] \in {call_to_buffer_map[key], None}
      PROVE  MapSeen'
  <2> SUFFICES ASSUME NEW v \in Wires
               PROVE  /\ reader[v].pc \in Unmapped => Mapping(v, Call(v))' = None
                      /\ reader[v].pc = "unmap" => Mapping(v, Call(v))' \in {None, Buf(v)}
    BY <1>1 DEF MapSeen, Buf
  <2> QED BY <1>0, <1>1 DEF MapSeen, Mapping, Call, Key
<1>2. ASSUME NEW w \in Wires, ReaderStep(w) \/ StopReading(w) PROVE MapSeen'
  <2>1. ReaderDid(w) /\ UNCHANGED id
    BY <1>2, ReaderSteps
  <2>2. /\ reader'[w].call = reader[w].call
        /\ \A v \in Wires : v # w => reader'[v] = reader[v]
        /\ reader[w].pc \notin {"none", "failed", "stopped"}
    BY <2>1, ReaderMoved
  <2>3. Live(w)
    BY <2>2, WorkingWire
  <2>4. ASSUME NEW v \in Wires, v # w
        PROVE  /\ reader'[v].pc \in Unmapped => Mapping(v, Call(v))' = None
               /\ reader'[v].pc = "unmap" => Mapping(v, Call(v))' \in {None, Buf(v)'}
    <3>1. CASE reader[v].pc \in Unmapped \cup {"unmap"}
      <4>1. Live(v) /\ Call(v) \in Calls /\ Key(v) \in CallKeys
        BY <1>0, <3>1
      <4>2. Mapped(w) => Key(v) # Key(w)
        <5>1. Mapped(w) => Call(w) \in Calls
          BY <2>2, WorkingWire DEF Mapped
        <5> QED BY <2>3, <2>4, <4>1, <5>1, OwnKeys DEF Key
      <4>3. call_to_buffer_map'[Key(v)] \in {call_to_buffer_map[Key(v)], None}
        BY <2>1, <4>1, <4>2, ReaderMaps
      <4>4. Mapping(v, Call(v))' = call_to_buffer_map'[Key(v)] /\ Mapping(v, Call(v)) = call_to_buffer_map[Key(v)]
        BY <2>1, <2>2, <2>4 DEF Mapping, Key, Call
      <4> QED BY <2>2, <2>4, <4>3, <4>4 DEF MapSeen, Buf
    <3> QED BY <2>2, <2>4, <3>1
  <2>5. /\ reader'[w].pc \in Unmapped => Mapping(w, Call(w))' = None
        /\ reader'[w].pc = "unmap" => Mapping(w, Call(w))' \in {None, Buf(w)'}
    <3>0. /\ Mapping(w, Call(w))' = call_to_buffer_map'[Key(w)]
          /\ Mapping(w, Call(w)) = call_to_buffer_map[Key(w)]
      BY <2>1, <2>2 DEF Mapping, Key, Call
    <3>1. CASE Mapped(w)
      <4>1. /\ reader'[w].pc \in {"register", "unmap"} /\ reader'[w].buf = Buf(w)
            /\ call_to_buffer_map'[Key(w)] = Buf(w)
        BY <2>1, <3>1, ReaderMaps DEF Mapped, Advance
      <4> QED BY <3>0, <4>1 DEF Unmapped, Buf
    <3>2. CASE Taken(w)
      <4>1. reader'[w].pc = "run" /\ call_to_buffer_map'[Key(w)] = None
        BY <2>1, <3>2, ReaderMaps DEF Taken, Advance
      <4> QED BY <3>0, <4>1
    <3>3. CASE ~Mapped(w) /\ ~Taken(w)
      <4>1. UNCHANGED call_to_buffer_map
        BY <2>1, <3>3, ReaderMaps
      <4>2. CASE Found(w)
        BY <3>0, <4>1, <4>2 DEF Found, Advance, Unmapped, Buf
      <4>3. CASE ~Found(w)
        <5>1. reader'[w].pc # "unmap" /\ (reader'[w].pc \in Unmapped => reader[w].pc \in Unmapped)
          BY <2>1, <3>3, <4>3 DEF ReaderDid, Pushed, Entered, Added, Closed, Refused, HasRun,
                                  Popped, Answered, Halted, Advance, Unmapped
        <5> QED BY <3>0, <4>1, <5>1 DEF MapSeen
      <4> QED BY <4>2, <4>3
    <3> QED BY <3>1, <3>2, <3>3
  <2> QED BY <2>4, <2>5 DEF MapSeen
<1>3. ASSUME NEW w \in Wires, NEW c \in Calls, Receive(w, c) PROVE MapSeen'
  <2>1. /\ UNCHANGED <<id, call_to_buffer_map>> /\ \A v \in Wires : v # w => reader'[v] = reader[v]
        /\ reader'[w].pc \in {"idle", "get"}
    BY <1>3, ReceiveSteps DEF Accepted, Dismissed
  <2> QED BY <2>1 DEF MapSeen, Mapping, Call, Buf, Unmapped
<1>4. ASSUME NEW w \in Wires, NEW c \in Calls, LastYield(w, c) PROVE MapSeen'
  BY <1>1, <1>4, YieldSteps
<1>5. ASSUME NEW w \in Wires, NewWire(w) PROVE MapSeen'
  <2>1. /\ UNCHANGED call_to_buffer_map /\ reader'[w].pc = "idle"
        /\ \A v \in Wires : v # w => reader'[v] = reader[v] /\ id'[v] = id[v]
    BY <1>5, NewWireSteps
  <2> QED BY <2>1 DEF MapSeen, Mapping, Call, Buf, Unmapped
<1>6. ASSUME NEW w \in Wires, NEW r \in Clones(w), Drop(w, r) \/ DropStep(w, r) PROVE MapSeen'
  <2>1. Made(w) /\ UNCHANGED <<id, reader>>
    BY <1>6, DropSteps
  <2>2. \A key \in CallKeys : call_to_buffer_map'[key] \in {call_to_buffer_map[key], None}
    <3>1. ASSUME NEW c \in Calls, Cut(w, r, c)
          PROVE  \A key \in CallKeys : call_to_buffer_map'[key] \in {call_to_buffer_map[key], None}
      BY <2>1, <3>1, CutMaps
    <3> QED BY <1>6, <3>1, DropSteps DEF Marked, Swept, HandedBack
  <2> QED BY <1>1, <2>1, <2>2
<1> QED BY <1>1, <1>2, <1>3, <1>4, <1>5, <1>6, NextKinds, VarsKept

LEMMA ProgressStep ==
    ASSUME TypeInv, ReaderUp, Progress, StreamsOver, [Next]_vars
    PROVE  Progress'
<1>0. ongoing_procedures \in [Wires -> SUBSET Calls]
  BY DEF TypeInv, CallTypes
<1>1. CASE UNCHANGED <<ongoing_procedures, reader, arrived>>
  BY <1>1 DEF Progress, Call
<1>2. ASSUME NEW w \in Wires, ReaderStep(w) \/ StopReading(w) PROVE Progress'
  <2>1. ReaderDid(w) /\ UNCHANGED arrived
    BY <1>2, ReaderSteps
  <2>2. /\ reader'[w].call = reader[w].call
        /\ \A v \in Wires : v # w => reader'[v] = reader[v]
    BY <2>1, ReaderMoved
  <2>3. \A v \in Wires : v # w => ongoing_procedures'[v] = ongoing_procedures[v]
    BY <1>0, <2>1 DEF ReaderDid, Found, Pushed, Mapped, Entered, Added, Closed, Refused, Taken,
                      HasRun, Popped, Answered, Halted
  <2>4. /\ reader'[w].pc \in Registered => Call(w)' \in ongoing_procedures'[w]
        /\ reader'[w].pc \in Complete => arrived'[w][Call(w)'] = Pieces
    <3>1. CASE Entered(w)
      BY <1>0, <2>1, <2>2, <3>1 DEF Entered, Advance, Registered, Complete, Call
    <3>2. CASE Added(w)
      BY <2>1, <2>2, <3>2 DEF Added, Advance, Registered, Complete, Call, Progress
    <3>3. CASE Answered(w)
      BY <3>3 DEF Answered, Advance, Registered, Complete
    <3>4. CASE ~Entered(w) /\ ~Added(w) /\ ~Answered(w)
      <4>1. /\ reader'[w].pc \in Registered => reader[w].pc \in Registered
            /\ reader'[w].pc \in Complete => reader[w].pc \in Complete
            /\ UNCHANGED ongoing_procedures
        BY <2>1, <3>4 DEF ReaderDid, Found, Pushed, Mapped, Closed, Refused, Taken, HasRun, Popped,
                          Halted, Advance, Registered, Complete
      <4> QED BY <2>1, <2>2, <4>1 DEF Progress, Call
    <3> QED BY <3>1, <3>2, <3>3, <3>4
  <2> QED BY <2>1, <2>2, <2>3, <2>4 DEF Progress, Call
<1>3. ASSUME NEW w \in Wires, NEW c \in Calls, Receive(w, c) PROVE Progress'
  <2>1. /\ UNCHANGED ongoing_procedures
        /\ \A v \in Wires : v # w => reader'[v] = reader[v] /\ arrived'[v] = arrived[v]
        /\ reader'[w].pc \in {"idle", "get"}
    BY <1>3, ReceiveSteps DEF Accepted, Dismissed
  <2> QED BY <2>1 DEF Progress, Call, Registered, Complete
<1>4. ASSUME NEW w \in Wires, NEW c \in Calls, LastYield(w, c) PROVE Progress'
  <2>1. /\ <<w, c>> \in streams /\ UNCHANGED <<reader, arrived>>
        /\ \E gone \in {{}, {c}} :
             ongoing_procedures' = [ongoing_procedures EXCEPT ![w] = @ \ gone]
    BY <1>4, YieldSteps
  <2>2. /\ \A v \in Wires : v # w => ongoing_procedures'[v] = ongoing_procedures[v]
        /\ \A d \in Calls : d # c /\ d \in ongoing_procedures[w] => d \in ongoing_procedures'[w]
    BY <1>0, <2>1
  <2>3. reader[w].pc \in Registered => Call(w) # c /\ Call(w) \in Calls
    BY <1>0, <2>1 DEF StreamsOver, Progress, Registered, After
  <2> QED BY <2>1, <2>2, <2>3 DEF Progress, Call
<1>5. ASSUME NEW w \in Wires, NewWire(w) PROVE Progress'
  <2>1. /\ UNCHANGED <<ongoing_procedures, arrived>> /\ reader'[w].pc = "idle"
        /\ \A v \in Wires : v # w => reader'[v] = reader[v]
    BY <1>5, NewWireSteps
  <2> QED BY <2>1 DEF Progress, Call, Registered, Complete
<1>6. ASSUME NEW w \in Wires, NEW r \in Clones(w), Drop(w, r) \/ DropStep(w, r) PROVE Progress'
  BY <1>1, <1>6, DropSteps
<1> QED BY <1>1, <1>2, <1>3, <1>4, <1>5, <1>6, NextKinds, VarsKept

(* What is said of one stream; the call and the wire are given by value.   *)
StreamOver(w, c) ==
    /\ Made(w) /\ arrived[w][c] = Pieces
    /\ Call(w) = c => reader[w].pc \in After
    /\ ReaderClone(w) = "up" => Mapping(w, c) = None

LEMMA StreamsOverStep ==
    ASSUME TypeInv, ReaderUp, UniqueWires, MapSeen, Progress, StreamsOver, [Next]_vars
    PROVE  StreamsOver'
<1>0. \A w \in Wires, c \in Calls : <<w, c>> \in streams => StreamOver(w, c)
  BY DEF StreamsOver, StreamOver
<1>1. ASSUME \A w \in Wires, c \in Calls : <<w, c>> \in streams' => StreamOver(w, c)'
      PROVE  StreamsOver'
  BY <1>1 DEF StreamsOver, StreamOver
<1>2. ASSUME NEW v \in Wires, NEW c \in Calls, StreamOver(v, c)
      PROVE  /\ id[v] \in Ids /\ <<c, id[v]>> \in CallKeys
             /\ ReaderClone(v) = "up" => Live(v)
  <2>1. id[v] \in Ids /\ "reader" \in Clones(v)
    BY <1>2 DEF StreamOver, Made, TypeInv, IdTypes, Clones
  <2> QED BY <1>2, <2>1 DEF CallKeys, StreamOver, ReaderClone, Live, Gone
<1>3. CASE UNCHANGED <<streams, id, arrived, reader, clone, call_to_buffer_map>>
  BY <1>0, <1>1, <1>3 DEF StreamOver, Made, Call, ReaderClone, Mapping
<1>4. ASSUME NEW w \in Wires, ReaderStep(w) \/ StopReading(w) PROVE StreamsOver'
  <2>1. ReaderDid(w) /\ UNCHANGED <<id, clone, arrived>>
    BY <1>4, ReaderSteps
  <2>2. /\ reader'[w].call = reader[w].call
        /\ \A v \in Wires : v # w => reader'[v] = reader[v]
        /\ reader[w].pc \notin {"none", "failed", "stopped"}
    BY <2>1, ReaderMoved
  <2>3. Live(w) /\ Made(w)
    BY <2>2, WorkingWire
  <2>4. ASSUME NEW v \in Wires, NEW c \in Calls, StreamOver(v, c) PROVE StreamOver(v, c)'
    <3>1. Call(v)' = c => reader'[v].pc \in After
      <4>1. reader[w].pc \in After => reader'[w].pc \in After
        BY <2>1 DEF ReaderDid, Found, Pushed, Mapped, Entered, Added, Closed, Refused, Taken,
                    HasRun, Popped, Answered, Halted, Advance, After
      <4> QED BY <2>2, <2>4, <4>1 DEF StreamOver, Call
    <3>2. ReaderClone(v) = "up" => call_to_buffer_map'[<<c, id[v]>>] = None
      <4> SUFFICES ASSUME ReaderClone(v) = "up"
                   PROVE  call_to_buffer_map'[<<c, id[v]>>] = None
        OBVIOUS
      <4>1. Live(v) /\ <<c, id[v]>> \in CallKeys /\ call_to_buffer_map[<<c, id[v]>>] = None
        BY <1>2, <2>4 DEF StreamOver, Mapping
      <4>2. Mapped(w) => <<c, id[v]>> # Key(w)
        <5>1. Mapped(w) => Call(w) \in Calls /\ (v = w => Call(w) # c)
          BY <2>2, <2>4, WorkingWire DEF Mapped, StreamOver, After
        <5> QED BY <2>3, <4>1, <5>1, OwnKeys DEF Key
      <4> QED BY <2>1, <4>1, <4>2, ReaderMaps
    <3> QED BY <2>1, <2>4, <3>1, <3>2 DEF StreamOver, Made, ReaderClone, Mapping
  <2>5. CASE HasRun(w)
    <3>1. Call(w) \in Calls /\ StreamOver(w, Call(w))'
      <4>1. reader[w].pc = "run" /\ reader'[w].pc = "pop" /\ UNCHANGED call_to_buffer_map
        BY <2>5 DEF HasRun, Advance
      <4>2. Call(w) \in Calls
        BY <4>1, WorkingWire
      <4>3. arrived[w][Call(w)] = Pieces /\ Mapping(w, Call(w)) = None
        BY <4>1 DEF MapSeen, Progress, Unmapped, Complete
      <4>4. Made(w)' /\ Call(w)' = Call(w) /\ Mapping(w, Call(w))' = Mapping(w, Call(w))
        BY <2>1, <2>2, <2>3, <4>1 DEF Made, Call, Mapping
      <4> QED BY <2>1, <4>1, <4>2, <4>3, <4>4 DEF StreamOver, After
    <3>2. PICK d \in Calls : d = Call(w)
      BY <3>1
    <3>3. StreamOver(w, d)'
      BY <2>2, <3>1, <3>2 DEF StreamOver, Call, Mapping
    <3>4. streams' \subseteq streams \cup {<<w, d>>}
      BY <2>5, <3>2 DEF HasRun
    <3> QED BY <1>0, <1>1, <2>4, <3>3, <3>4
  <2>6. CASE ~HasRun(w)
    <3>1. UNCHANGED streams
      BY <2>1, <2>6 DEF ReaderDid, Found, Pushed, Mapped, Entered, Added, Closed, Refused, Taken,
                        Popped, Answered, Halted
    <3> QED BY <1>0, <1>1, <2>4, <3>1
  <2> QED BY <2>5, <2>6
<1>5. ASSUME NEW w \in Wires, NEW c \in Calls, Receive(w, c) PROVE StreamsOver'
  <2>1. /\ reader[w].pc = "idle" /\ arrived[w][c] < Pieces
        /\ \A d \in Calls : d # c => arrived'[w][d] = arrived[w][d]
        /\ \A v \in Wires : v # w => arrived'[v] = arrived[v] /\ reader'[v] = reader[v]
        /\ Accepted(w, c) \/ Dismissed(w, c)
        /\ UNCHANGED <<id, call_to_buffer_map, clone, streams>>
    BY <1>5, ReceiveSteps
  <2>2. ASSUME NEW v \in Wires, NEW d \in Calls, StreamOver(v, d) PROVE StreamOver(v, d)'
    <3>1. CASE v = w
      <4>1. d # c
        BY <2>1, <2>2, <3>1, PiecesAssumption DEF StreamOver
      <4>2. Call(w)' = d => reader'[w].pc \in After
        BY <2>1, <2>2, <3>1, <4>1 DEF Accepted, Dismissed, Call, StreamOver
      <4> QED BY <2>1, <2>2, <3>1, <4>1, <4>2 DEF StreamOver, Made, ReaderClone, Mapping
    <3>2. CASE v # w
      BY <2>1, <2>2, <3>2 DEF StreamOver, Made, ReaderClone, Mapping, Call
    <3> QED BY <3>1, <3>2
  <2> QED BY <1>0, <1>1, <2>1, <2>2
<1>6. ASSUME NEW w \in Wires, NEW c \in Calls, LastYield(w, c) PROVE StreamsOver'
  <2>1. streams' \subseteq streams /\ UNCHANGED <<id, arrived, reader, clone, call_to_buffer_map>>
    BY <1>6, YieldSteps
  <2> QED BY <1>0, <1>1, <2>1 DEF StreamOver, Made, Call, ReaderClone, Mapping
<1>7. ASSUME NEW w \in Wires, NewWire(w) PROVE StreamsOver'
  <2>1. /\ ~Made(w) /\ \A v \in Wires : v # w => id'[v] = id[v] /\ reader'[v] = reader[v]
        /\ UNCHANGED <<call_to_buffer_map, clone, streams, arrived>>
    BY <1>7, NewWireSteps
  <2> QED BY ZenonT(60), <1>0, <1>1, <2>1 DEF StreamOver, Made, Call, ReaderClone, Mapping
<1>8. ASSUME NEW w \in Wires, NEW r \in Clones(w), Drop(w, r) \/ DropStep(w, r) PROVE StreamsOver'
  <2>1. Made(w) /\ OtherClones(w, r) /\ UNCHANGED <<id, streams, reader, arrived>>
    BY <1>8, DropSteps
  <2>2. \A v \in Wires : ReaderClone(v)' = "up" => ReaderClone(v) = "up"
    <3>1. clone'[w][r] # "up"
      BY <1>8, DropSteps DEF Marked, Swept, HandedBack, Cut
    <3>2. \A v \in Wires : "reader" \in Clones(v)
      BY DEF Clones
    <3> QED BY <2>1, <3>1, <3>2 DEF OtherClones, ReaderClone
  <2>3. \A key \in CallKeys : call_to_buffer_map'[key] \in {call_to_buffer_map[key], None}
    <3>1. ASSUME NEW c \in Calls, Cut(w, r, c)
          PROVE  \A key \in CallKeys : call_to_buffer_map'[key] \in {call_to_buffer_map[key], None}
      BY <2>1, <3>1, CutMaps
    <3> QED BY <1>8, <3>1, DropSteps DEF Marked, Swept, HandedBack
  <2>4. ASSUME NEW v \in Wires, NEW d \in Calls, StreamOver(v, d) PROVE StreamOver(v, d)'
    <3>1. <<d, id[v]>> \in CallKeys
      BY <1>2, <2>4
    <3> QED BY <2>1, <2>2, <2>3, <2>4, <3>1 DEF StreamOver, Made, Call, Mapping
  <2> QED BY <1>0, <1>1, <2>1, <2>4
<1> QED BY <1>3, <1>4, <1>5, <1>6, <1>7, <1>8, NextKinds, VarsKept

LEMMA MappingsSweptStep ==
    ASSUME TypeInv, ReaderUp, MapSeen, Progress, StreamsOver, MappingsSwept, [Next]_vars
    PROVE  MappingsSwept'
<1> DEFINE Covered(c, i) == \E w \in Wires : Made(w) /\ id[w] = i /\ Covers(w, c)
<1>0. /\ ongoing_procedures \in [Wires -> SUBSET Calls]
      /\ \A w \in Wires : "reader" \in Clones(w)
  BY DEF TypeInv, CallTypes, Clones
<1>1. ASSUME \A c \in Calls, i \in Ids : call_to_buffer_map'[<<c, i>>] # None => Covered(c, i)'
      PROVE  MappingsSwept'
  BY <1>1 DEF MappingsSwept
<1>2. ASSUME NEW c \in Calls, NEW i \in Ids, call_to_buffer_map[<<c, i>>] # None
      PROVE  \E v \in Wires : Made(v) /\ id[v] = i /\ Covers(v, c)
  BY <1>2 DEF MappingsSwept
<1>3. CASE UNCHANGED <<id, reader, clone, due, ongoing_procedures, call_to_buffer_map>>
  BY <1>1, <1>2, <1>3 DEF Covers, Made, Call, ReaderClone
<1>4. ASSUME NEW w \in Wires, ReaderStep(w) \/ StopReading(w) PROVE MappingsSwept'
  <2>1. ReaderDid(w) /\ UNCHANGED <<id, clone, due>>
    BY <1>4, ReaderSteps
  <2>2. /\ reader'[w].call = reader[w].call
        /\ \A v \in Wires : v # w => reader'[v] = reader[v]
        /\ reader[w].pc \notin {"none", "failed", "stopped"}
    BY <2>1, ReaderMoved
  <2>3. Made(w) /\ ReaderClone(w) = "up" /\ id[w] \in Ids
    BY <2>2, WorkingWire
  <2>4. ASSUME NEW v \in Wires, NEW c \in Calls, NEW i \in Ids, Made(v), id[v] = i, Covers(v, c),
               call_to_buffer_map[<<c, i>>] # None
        PROVE  Covered(c, i)'
    <3>1. CASE v = w
      <4>1. c \in ongoing_procedures[w] \/ (Call(w) = c /\ reader[w].pc = "register")
        BY <2>3, <2>4, <3>1 DEF Covers
      <4>2. reader[w].pc = "answer" => Call(w) # c
        BY <2>4, <3>1 DEF MapSeen, Unmapped, Mapping
      <4>3. c \in ongoing_procedures'[w]
        <5>1. CASE Entered(w)
          BY <1>0, <4>1, <5>1 DEF Entered
        <5>2. CASE Answered(w)
          BY <1>0, <4>1, <4>2, <5>2 DEF Answered
        <5>3. CASE ~Entered(w) /\ ~Answered(w)
          BY <2>1, <4>1, <5>3 DEF ReaderDid, Found, Pushed, Mapped, Added, Closed, Refused, Taken,
                                  HasRun, Popped, Halted
        <5> QED BY <5>1, <5>2, <5>3
      <4> QED BY <2>1, <2>3, <2>4, <3>1, <4>3 DEF Covers, Made, ReaderClone
    <3>2. CASE v # w
      <4>1. ongoing_procedures'[v] = ongoing_procedures[v]
        BY <1>0, <2>1, <3>2 DEF ReaderDid, Found, Pushed, Mapped, Entered, Added, Closed, Refused,
                                Taken, HasRun, Popped, Answered, Halted
      <4> QED BY <2>1, <2>2, <2>4, <3>2, <4>1 DEF Covers, Made, ReaderClone, Call
    <3> QED BY <3>1, <3>2
  <2>5. ASSUME NEW c \in Calls, NEW i \in Ids, call_to_buffer_map[<<c, i>>] = None,
               call_to_buffer_map'[<<c, i>>] # None
        PROVE  Covered(c, i)'
    <3>1. Mapped(w) /\ <<c, i>> = Key(w)
      <4>1. <<c, i>> \in CallKeys
        BY DEF CallKeys
      <4> QED BY <2>1, <2>5, <4>1, ReaderMaps
    <3>2. c = Call(w) /\ i = id[w]
      BY <3>1 DEF Key
    <3>3. CASE reader[w].pc = "map"
      <4>1. reader'[w].pc = "register"
        BY <3>1, <3>3 DEF Mapped, Advance
      <4> QED BY <2>1, <2>2, <2>3, <3>2, <4>1 DEF Covers, Made, ReaderClone, Call
    <3>4. CASE reader[w].pc = "map again"
      <4>1. c \in ongoing_procedures[w] /\ UNCHANGED ongoing_procedures
        BY <3>1, <3>2, <3>4 DEF Mapped, Progress, Registered
      <4> QED BY <2>1, <2>3, <3>2, <4>1 DEF Covers, Made, ReaderClone
    <3> QED BY <3>1, <3>3, <3>4 DEF Mapped
  <2>6. ASSUME NEW c \in Calls, NEW i \in Ids, call_to_buffer_map'[<<c, i>>] # None
        PROVE  Covered(c, i)'
    <3>1. CASE call_to_buffer_map[<<c, i>>] # None
      <4>1. PICK v \in Wires : Made(v) /\ id[v] = i /\ Covers(v, c)
        BY <1>2, <3>1
      <4> QED BY <2>4, <3>1, <4>1
    <3> QED BY <2>5, <2>6, <3>1
  <2> HIDE DEF Covered
  <2> QED BY <1>1, <2>6
<1>5. ASSUME NEW w \in Wires, NEW c \in Calls, Receive(w, c) PROVE MappingsSwept'
  <2>1. /\ reader[w].pc = "idle" /\ \A v \in Wires : v # w => reader'[v] = reader[v]
        /\ UNCHANGED <<id, clone, due, ongoing_procedures, call_to_buffer_map>>
    BY <1>5, ReceiveSteps
  <2>2. ASSUME NEW v \in Wires, NEW d \in Calls, Covers(v, d) PROVE Covers(v, d)'
    BY <2>1, <2>2 DEF Covers, ReaderClone, Call
  <2> QED BY <1>1, <1>2, <2>1, <2>2 DEF Made
<1>6. ASSUME NEW w \in Wires, NEW c \in Calls, LastYield(w, c) PROVE MappingsSwept'
  <2>1. /\ <<w, c>> \in streams /\ UNCHANGED <<id, reader, clone, due, call_to_buffer_map>>
        /\ \E gone \in {{}, {c}} :
             ongoing_procedures' = [ongoing_procedures EXCEPT ![w] = @ \ gone]
    BY <1>6, YieldSteps
  <2>2. /\ \A v \in Wires : v # w => ongoing_procedures'[v] = ongoing_procedures[v]
        /\ \A d \in Calls : d # c /\ d \in ongoing_procedures[w] => d \in ongoing_procedures'[w]
    BY <1>0, <2>1
  <2>3. ReaderClone(w) = "up" => call_to_buffer_map[<<c, id[w]>>] = None
    BY <2>1 DEF StreamsOver, Mapping
  <2>4. ASSUME NEW v \in Wires, NEW d \in Calls, Covers(v, d),
               call_to_buffer_map[<<d, id[v]>>] # None
        PROVE  Covers(v, d)'
    BY <2>1, <2>2, <2>3, <2>4 DEF Covers, ReaderClone, Call
  <2> QED BY <1>1, <1>2, <2>1, <2>4 DEF Made
<1>7. ASSUME NEW w \in Wires, NewWire(w) PROVE MappingsSwept'
  <2>1. /\ ~Made(w) /\ \A v \in Wires : v # w => id'[v] = id[v] /\ reader'[v] = reader[v]
        /\ \A v \in Wires : Made(v) => Made(v)'
        /\ UNCHANGED <<call_to_buffer_map, clone, due, ongoing_procedures>>
    BY <1>7, NewWireSteps
  <2>2. ASSUME NEW v \in Wires, NEW d \in Calls, Made(v), Covers(v, d)
        PROVE  Covers(v, d)' /\ id'[v] = id[v]
    BY <2>1, <2>2 DEF Covers, ReaderClone, Call
  <2> QED BY <1>1, <1>2, <2>1, <2>2
<1>8. ASSUME NEW w \in Wires, NEW r \in Clones(w), Drop(w, r) \/ DropStep(w, r)
      PROVE  MappingsSwept'
  <2>1. Made(w) /\ OtherClones(w, r) /\ UNCHANGED <<id, ongoing_procedures, reader>>
    BY <1>8, DropSteps
  <2>2. \A key \in CallKeys : call_to_buffer_map'[key] \in {call_to_buffer_map[key], None}
    <3>1. ASSUME NEW c \in Calls, Cut(w, r, c)
          PROVE  \A key \in CallKeys : call_to_buffer_map'[key] \in {call_to_buffer_map[key], None}
      BY <2>1, <3>1, CutMaps
    <3> QED BY <1>8, <3>1, DropSteps DEF Marked, Swept, HandedBack
  <2>3. ASSUME NEW v \in Wires, NEW d \in Calls, Made(v), Covers(v, d),
               call_to_buffer_map'[<<d, id[v]>>] # None
        PROVE  Covers(v, d)'
    <3>1. CASE v # w \/ r # "reader"
      BY <1>0, <2>1, <2>3, <3>1 DEF OtherClones, Covers, ReaderClone, Call
    <3>2. CASE v = w /\ r = "reader"
      <4>1. CASE Marked(w, r)
        BY <2>3, <3>2, <4>1 DEF Marked, Covers, ReaderClone
      <4>2. CASE Swept(w, r)
        BY <2>3, <3>2, <4>2 DEF Swept, Covers, ReaderClone
      <4>3. CASE HandedBack(w, r)
        BY <2>3, <3>2, <4>3 DEF HandedBack, Covers, ReaderClone
      <4>4. ASSUME NEW c \in Calls, Cut(w, r, c) PROVE Covers(v, d)'
        <5>1. c # d
          BY <2>1, <2>3, <3>2, <4>4, CutMaps
        <5> QED BY <2>3, <3>2, <4>4, <5>1 DEF Cut, Covers, ReaderClone
      <4> QED BY <1>8, <4>1, <4>2, <4>3, <4>4, DropSteps
    <3> QED BY <3>1, <3>2
  <2>4. ASSUME NEW c \in Calls, NEW i \in Ids, call_to_buffer_map'[<<c, i>>] # None
        PROVE  Covered(c, i)'
    <3>1. call_to_buffer_map[<<c, i>>] # None
      BY <2>2, <2>4 DEF CallKeys
    <3>2. PICK v \in Wires : Made(v) /\ id[v] = i /\ Covers(v, c)
      BY <1>2, <3>1
    <3>3. Covers(v, c)' /\ Made(v)' /\ id'[v] = i
      BY <2>1, <2>3, <2>4, <3>2 DEF Made
    <3> QED BY <3>3
  <2> HIDE DEF Covered
  <2> QED BY <1>1, <2>4
<1> QED BY <1>3, <1>4, <1>5, <1>6, <1>7, <1>8, NextKinds, VarsKept

(* Where a message may be.                                                 *)
Placed(b) ==
    \/ \E key \in CallKeys : call_to_buffer_map[key] = b
    \/ \E w \in Wires : reader[w].pc \in Carrying /\ Buf(w) = b
    \/ \E w \in Wires : \E r \in Clones(w) : clone[w][r] = "pop" /\ removed[w][r] = b

LEMMA MessagesKeptStep ==
    ASSUME TypeInv, ReaderUp, MapSeen, MessagesKept, [Next]_vars
    PROVE  MessagesKept'
<1>0. messages \in [Buffers -> Content \cup {None}]
  BY DEF TypeInv, StoreTypes
<1>1. ASSUME \A b \in Buffers : messages'[b] # None => Placed(b)'
      PROVE  MessagesKept'
  BY <1>1 DEF MessagesKept, Placed
<1>2. \A b \in Buffers : messages[b] # None => Placed(b)
  BY DEF MessagesKept, Placed
<1>3. CASE UNCHANGED <<messages, reader, clone, removed, call_to_buffer_map>>
  BY <1>1, <1>2, <1>3 DEF Placed, Buf
<1>4. ASSUME NEW w \in Wires, ReaderStep(w) \/ StopReading(w) PROVE MessagesKept'
  <2>1. ReaderDid(w) /\ UNCHANGED <<clone, removed, id>>
    BY <1>4, ReaderSteps
  <2>2. /\ reader'[w].call = reader[w].call
        /\ \A v \in Wires : v # w => reader'[v] = reader[v]
        /\ reader[w].pc \notin {"none", "failed", "stopped"}
    BY <2>1, ReaderMoved
  <2>3. ASSUME NEW b \in Buffers, messages'[b] # None PROVE messages[b] # None \/ Placed(b)'
    <3>1. CASE Pushed(w)
      <4>1. b # reader'[w].buf => messages'[b] = messages[b]
        BY <1>0, <3>1 DEF Pushed
      <4>2. b = reader'[w].buf => Placed(b)'
        BY <3>1 DEF Pushed, Advance, Placed, Carrying, Buf
      <4> QED BY <2>3, <4>1, <4>2
    <3>2. CASE Added(w) \/ Closed(w)
      <4>1. messages[Buf(w)] # None
        BY <3>2 DEF Added, Closed, Accepts
      <4>2. b # Buf(w) => messages'[b] = messages[b]
        BY <1>0, <3>2 DEF Added, Closed
      <4> QED BY <2>3, <4>1, <4>2
    <3>3. CASE Popped(w)
      BY <1>0, <2>3, <3>3 DEF Popped
    <3>4. CASE ~Pushed(w) /\ ~Added(w) /\ ~Closed(w) /\ ~Popped(w)
      BY <2>1, <2>3, <3>4 DEF ReaderDid, Found, Mapped, Entered, Refused, Taken, HasRun, Answered,
                              Halted
    <3> QED BY <3>1, <3>2, <3>3, <3>4
  <2>4. ASSUME NEW b \in Buffers, messages'[b] # None, NEW key \in CallKeys,
               call_to_buffer_map[key] = b
        PROVE  Placed(b)'
    <3>1. CASE call_to_buffer_map'[key] = b
      BY <3>1 DEF Placed
    <3>2. CASE call_to_buffer_map'[key] # b
      <4>1. (Mapped(w) \/ Taken(w)) /\ key = Key(w)
        BY <2>1, <2>4, <3>2, ReaderMaps
      <4>2. call_to_buffer_map[Key(w)] = Mapping(w, Call(w)) /\ b # None
        BY NoneAssumption DEF Key, Mapping
      <4>3. CASE Mapped(w)
        BY <2>4, <4>1, <4>2, <4>3 DEF Mapped, MapSeen, Unmapped
      <4>4. CASE Taken(w)
        <5>1. b = Buf(w) /\ reader'[w].pc = "run" /\ reader'[w].buf = Buf(w)
          BY <2>4, <4>1, <4>2, <4>4 DEF Taken, Advance, MapSeen
        <5> QED BY <5>1 DEF Placed, Carrying, Buf
      <4> QED BY <4>1, <4>3, <4>4
    <3> QED BY <3>1, <3>2
  <2>5. ASSUME NEW b \in Buffers, messages'[b] # None, NEW v \in Wires,
               reader[v].pc \in Carrying, Buf(v) = b
        PROVE  Placed(b)'
    <3>1. CASE v # w
      BY <2>2, <2>5, <3>1 DEF Placed, Buf
    <3>2. CASE v = w /\ Mapped(w)
      BY <2>1, <2>5, <3>2, ReaderMaps DEF Placed
    <3>3. CASE v = w /\ ~Mapped(w)
      <4>1. ~Popped(w)
        BY <1>0, <2>5, <3>3 DEF Popped
      <4>2. reader'[w].pc \in Carrying /\ reader'[w].buf = Buf(w)
        BY <2>1, <2>5, <3>3, <4>1 DEF ReaderDid, Found, Pushed, Entered, Added, Closed, Refused,
                                      Taken, HasRun, Answered, Halted, Advance, Carrying
      <4> QED BY <2>5, <3>3, <4>2 DEF Placed, Buf
    <3> QED BY <3>1, <3>2, <3>3
  <2>6. ASSUME NEW b \in Buffers, messages'[b] # None, Placed(b) PROVE Placed(b)'
    <3>1. CASE \E v \in Wires : \E r \in Clones(v) : clone[v][r] = "pop" /\ removed[v][r] = b
      BY <2>1, <3>1 DEF Placed
    <3> QED BY <2>4, <2>5, <2>6, <3>1 DEF Placed
  <2> QED BY <1>1, <1>2, <2>3, <2>6
<1>5. ASSUME NEW w \in Wires, NEW c \in Calls, Receive(w, c) PROVE MessagesKept'
  <2>1. /\ reader[w].pc = "idle" /\ \A v \in Wires : v # w => reader'[v] = reader[v]
        /\ UNCHANGED <<messages, clone, removed, call_to_buffer_map>>
    BY <1>5, ReceiveSteps
  <2>2. \A v \in Wires : reader[v].pc \in Carrying => reader'[v] = reader[v]
    BY <2>1 DEF Carrying
  <2>3. ASSUME NEW b \in Buffers, Placed(b) PROVE Placed(b)'
    BY <2>1, <2>2, <2>3 DEF Placed, Buf
  <2> QED BY <1>1, <1>2, <2>1, <2>3
<1>6. ASSUME NEW w \in Wires, NEW c \in Calls, LastYield(w, c) PROVE MessagesKept'
  BY <1>3, <1>6, YieldSteps
<1>7. ASSUME NEW w \in Wires, NewWire(w) PROVE MessagesKept'
  <2>1. /\ reader[w].pc = "none" /\ \A v \in Wires : v # w => reader'[v] = reader[v]
        /\ UNCHANGED <<messages, clone, removed, call_to_buffer_map>>
    BY <1>7, NewWireSteps
  <2>2. \A v \in Wires : reader[v].pc \in Carrying => reader'[v] = reader[v]
    BY <2>1 DEF Carrying
  <2>3. ASSUME NEW b \in Buffers, Placed(b) PROVE Placed(b)'
    BY <2>1, <2>2, <2>3 DEF Placed, Buf
  <2> QED BY <1>1, <1>2, <2>1, <2>3
<1>8. ASSUME NEW w \in Wires, NEW r \in Clones(w), Drop(w, r) \/ DropStep(w, r)
      PROVE  MessagesKept'
  <2>1. Made(w) /\ OtherClones(w, r) /\ UNCHANGED reader
    BY <1>8, DropSteps
  <2>2. ASSUME NEW b \in Buffers, messages'[b] # None PROVE messages[b] # None
    BY <1>0, <1>8, <2>2, DropSteps DEF Marked, Cut, Swept, HandedBack
  <2>3. ASSUME NEW b \in Buffers, NEW key \in CallKeys, call_to_buffer_map[key] = b
        PROVE  Placed(b)'
    <3>1. CASE call_to_buffer_map'[key] = b
      BY <3>1 DEF Placed
    <3>2. CASE call_to_buffer_map'[key] # b
      <4>1. PICK c \in Calls : Cut(w, r, c)
        BY <1>8, <2>3, <3>2, DropSteps DEF Marked, Swept, HandedBack
      <4>2. key = <<c, id[w]>>
        BY <2>1, <2>3, <3>2, <4>1, CutMaps
      <4>3. clone'[w][r] = "pop" /\ removed'[w][r] = b
        BY <2>3, <4>1, <4>2, NoneAssumption DEF Cut, Mapping
      <4> QED BY <4>3 DEF Placed
    <3> QED BY <3>1, <3>2
  <2>4. ASSUME NEW b \in Buffers, messages'[b] # None, NEW v \in Wires, NEW s \in Clones(v),
               clone[v][s] = "pop", removed[v][s] = b
        PROVE  Placed(b)'
    <3>1. CASE v # w \/ s # r
      BY <2>1, <2>4, <3>1 DEF OtherClones, Placed
    <3>2. CASE v = w /\ s = r
      <4>1. Swept(w, r)
        BY <1>8, <2>4, <3>2, DropSteps DEF Marked, Cut, HandedBack
      <4> QED BY <1>0, <2>4, <3>2, <4>1 DEF Swept
    <3> QED BY <3>1, <3>2
  <2>5. ASSUME NEW b \in Buffers, messages'[b] # None, Placed(b) PROVE Placed(b)'
    <3>1. CASE \E v \in Wires : reader[v].pc \in Carrying /\ Buf(v) = b
      BY <2>1, <3>1 DEF Placed, Buf
    <3> QED BY <2>3, <2>4, <2>5, <3>1 DEF Placed
  <2> QED BY <1>1, <1>2, <2>2, <2>5
<1> QED BY <1>3, <1>4, <1>5, <1>6, <1>7, <1>8, NextKinds, VarsKept

LEMMA LeftHolds == ASSUME Apart PROVE Spec => []LeftInv
<1>1. Init => LeftInv
  <2> SUFFICES ASSUME Init PROVE LeftInv
    OBVIOUS
  <2>1. ReaderUp /\ MapSeen /\ Progress
    <3>1. \A w \in Wires : reader[w].pc = "none" /\ ReaderClone(w) = "up"
      BY DEF Init, ReaderClone, Clones
    <3> QED BY <3>1 DEF ReaderUp, MapSeen, Progress, Unmapped, Registered, Complete
  <2>2. StreamsOver /\ MappingsSwept /\ MessagesKept
    BY DEF Init, StreamsOver, MappingsSwept, MessagesKept
  <2> QED BY <2>1, <2>2 DEF LeftInv
<1>2. TypeInv /\ UniqueWires /\ LeftInv /\ [Next]_vars => LeftInv'
  <2> SUFFICES ASSUME TypeInv, UniqueWires, LeftInv, [Next]_vars PROVE LeftInv'
    OBVIOUS
  <2>1. ReaderUp /\ MapSeen /\ Progress /\ StreamsOver /\ MappingsSwept /\ MessagesKept
    BY DEF LeftInv
  <2> QED BY <2>1, ReaderUpStep, MapSeenStep, ProgressStep, StreamsOverStep, MappingsSweptStep,
             MessagesKeptStep DEF LeftInv
<1> QED BY <1>1, <1>2, TypesHold, UniqueWiresHolds, PTL DEF Spec

(* When every wire is gone, no arguments are left but those that a         *)
(* procedure call that failed leaves behind, one at most for each wire:    *)
(* "effectively cancelling calls that were getting ready to start"         *)
(* (mark_terminated, drop_associated_call_message, call_procedure).        *)
THEOREM NothingLeftHolds == ASSUME Apart PROVE Spec => []NothingLeft
<1>1. ASSUME TypeInv, LeftInv, \A w \in Wires : ~Live(w)
      PROVE  /\ \A key \in Calls \X Ids : call_to_buffer_map[key] = None
             /\ Cardinality({b \in Buffers : messages[b] # None})
                    <= Cardinality({w \in Wires : At(w, "failed")})
  <2>1. ASSUME NEW w \in Wires
        PROVE  \/ ~Made(w) /\ reader[w].pc = "none"
               \/ /\ Made(w) /\ reader[w].pc \in {"failed", "stopped"}
                  /\ \A r \in Clones(w) : clone[w][r] = "gone"
    <3>1. "reader" \in Clones(w)
      BY DEF Clones
    <3> QED BY <1>1, <3>1 DEF Live, Gone, LeftInv, ReaderUp, ReaderClone, TypeInv, ReaderTypes, At
  <2>2. \A key \in Calls \X Ids : call_to_buffer_map[key] = None
    <3>1. ASSUME NEW c \in Calls, NEW i \in Ids PROVE call_to_buffer_map[<<c, i>>] = None
      <4>1. \A w \in Wires : Made(w) => ~Covers(w, c)
        <5>1. \A w \in Wires : "reader" \in Clones(w)
          BY DEF Clones
        <5> QED BY <2>1, <5>1 DEF Covers, ReaderClone
      <4> QED BY <1>1, <4>1 DEF LeftInv, MappingsSwept
    <3> QED BY <3>1
  <2> DEFINE Left == {b \in Buffers : messages[b] # None}
             Failed == {w \in Wires : At(w, "failed")}
             held == [w \in Failed |-> Buf(w)]
             Held == {held[w] : w \in Failed}
  <2>3. ASSUME NEW b \in Left PROVE \E w \in Failed : Buf(w) = b
    <3>1. b \in Buffers /\ b # None
      BY NoneAssumption
    <3>2. ~\E key \in CallKeys : call_to_buffer_map[key] = b
      BY <2>2, <3>1 DEF CallKeys
    <3>3. ~\E w \in Wires : \E r \in Clones(w) : clone[w][r] = "pop"
      <4>1. ASSUME NEW w \in Wires, NEW r \in Clones(w) PROVE clone[w][r] # "pop"
        BY <1>1, <2>1 DEF TypeInv, DropTypes
      <4> QED BY <4>1
    <3>4. PICK w \in Wires : reader[w].pc \in Carrying /\ Buf(w) = b
      BY <1>1, <3>1, <3>2, <3>3 DEF LeftInv, MessagesKept
    <3>5. reader[w].pc = "failed"
      BY <2>1, <3>4 DEF Carrying
    <3> QED BY <3>4, <3>5 DEF At
  <2>4. Left \subseteq Held
    BY <2>3
  <2>5. IsFiniteSet(Failed) /\ held \in Surjection(Failed, Held)
    <3>1. IsFiniteSet(Failed)
      BY WiresAssumption, FS_Subset
    <3>2. DOMAIN held = Failed /\ held \in [Failed -> Held]
      OBVIOUS
    <3> HIDE DEF held, Failed
    <3>3. held \in Surjection(Failed, Held)
      BY <3>2 DEF Surjection
    <3> QED BY <3>1, <3>3
  <2> HIDE DEF Left, Failed, held, Held
  <2>6. IsFiniteSet(Held) /\ Cardinality(Held) <= Cardinality(Failed)
    BY <2>5, FS_Surjection
  <2>7. Cardinality(Left) <= Cardinality(Held) /\ IsFiniteSet(Left)
    BY <2>4, <2>6, FS_Subset
  <2>8. Cardinality(Left) <= Cardinality(Failed)
    BY <2>5, <2>6, <2>7, FS_CardinalityType
  <2> QED BY <2>2, <2>8 DEF Left, Failed
<1>2. TypeInv /\ LeftInv => NothingLeft
  BY <1>1 DEF NothingLeft
<1> QED BY <1>2, TypesHold, LeftHolds, PTL

-----------------------------------------------------------------------------
(* Whose arguments.  Where no wire is started, each wire is one thread,    *)
(* and a buffer is in the map, under one key, or in the hands of one wire. *)
Held(w) == IF reader[w].pc \in {"map", "run", "pop"} THEN Buf(w) ELSE removed[w]["reader"]

Exclusive ==
    /\ \A key \in CallKeys : call_to_buffer_map[key] # None =>
         /\ messages[call_to_buffer_map[key]] # None
         /\ \A other \in CallKeys :
              call_to_buffer_map[other] = call_to_buffer_map[key] => other = key
    /\ \A w \in Wires : Held(w) # None =>
         /\ messages[Held(w)] # None
         /\ \A key \in CallKeys : call_to_buffer_map[key] # Held(w)
         /\ \A v \in Wires : Held(v) = Held(w) => v = w

First(w, c, n) == [i \in 1 .. n |-> <<w, c, i>>]

(* The pieces of a call that its buffer has: not yet the one in hand.      *)
InHand(w, c) == Call(w) = c /\ reader[w].pc \in {"get", "push", "map", "register", "append"}
Appended(w, c) == IF InHand(w, c) THEN arrived[w][c] - 1 ELSE arrived[w][c]

Reads(w) == Made(w) /\ ReaderClone(w) = "up" /\ reader[w].pc # "failed"

InBuffer ==
    \A w \in Wires : Reads(w) =>
        /\ reader[w].pc \notin {"push again", "map again"}
        /\ reader[w].pc \in {"register", "append", "terminate", "find", "unmap"} =>
             Mapping(w, Call(w)) = Buf(w) /\ Buf(w) \in Buffers
        /\ \A c \in Calls : <<w, c>> \notin rejected =>
             IF Mapping(w, c) = None
             THEN Appended(w, c) \in {0, Pieces}
             ELSE messages[Mapping(w, c)].args = First(w, c, Appended(w, c))

InReader ==
    \A w \in Wires :
        /\ reader[w].pc = "map" => messages[Buf(w)].args = <<>>
        /\ reader[w].pc = "run" /\ <<w, Call(w)>> \notin rejected =>
             messages[Buf(w)].args = Arguments(w, Call(w))

RunOnce ==
    \A w \in Wires, c \in Calls :
        /\ RunsOwn(w, c)
        /\ ran[w][c] # <<>> => arrived[w][c] = Pieces /\ (Call(w) = c => reader[w].pc \in After)

Fresh ==
    \A w \in Wires : ~Made(w) =>
        \A c \in Calls : arrived[w][c] = 0 /\ ran[w][c] = <<>>

OwnInv == Fresh /\ (NoneStarted => Exclusive /\ InBuffer /\ InReader /\ RunOnce)

InBuffers ==
    /\ \A key \in CallKeys : call_to_buffer_map[key] \in Buffers \cup {None}
    /\ \A w \in Wires : Held(w) \in Buffers \cup {None}

LEMMA SameHands ==
    ASSUME Exclusive, InBuffers,
           \A key \in CallKeys : call_to_buffer_map'[key] = call_to_buffer_map[key],
           \A v \in Wires : Held(v)' \in {Held(v), None},
           \A b \in Buffers : messages[b] # None => messages'[b] # None
    PROVE  Exclusive'
BY DEF Exclusive, InBuffers

LEMMA NewInHand ==
    ASSUME Exclusive, InBuffers, NEW w \in Wires, NEW b, messages[b] = None,
           \A key \in CallKeys : call_to_buffer_map'[key] = call_to_buffer_map[key],
           Held(w)' = b, \A v \in Wires : v # w => Held(v)' = Held(v),
           messages'[b] # None, \A a \in Buffers : messages[a] # None => messages'[a] # None
    PROVE  Exclusive'
BY DEF Exclusive, InBuffers

LEMMA HandedToMap ==
    ASSUME Exclusive, InBuffers, NEW w \in Wires, NEW k \in CallKeys, Held(w) # None,
           call_to_buffer_map'[k] = Held(w), Held(w)' = None,
           \A key \in CallKeys : key # k => call_to_buffer_map'[key] = call_to_buffer_map[key],
           \A v \in Wires : v # w => Held(v)' = Held(v),
           UNCHANGED messages
    PROVE  Exclusive'
BY DEF Exclusive, InBuffers

LEMMA TakenFromMap ==
    ASSUME Exclusive, InBuffers, NEW w \in Wires, NEW k \in CallKeys,
           call_to_buffer_map'[k] = None, Held(w)' = call_to_buffer_map[k],
           \A key \in CallKeys : key # k => call_to_buffer_map'[key] = call_to_buffer_map[key],
           \A v \in Wires : v # w => Held(v)' = Held(v),
           UNCHANGED messages
    PROVE  Exclusive'
BY DEF Exclusive, InBuffers

LEMMA HandEmptied ==
    ASSUME Exclusive, InBuffers, NEW w \in Wires, Held(w) # None, Held(w)' = None,
           \A key \in CallKeys : call_to_buffer_map'[key] = call_to_buffer_map[key],
           \A v \in Wires : v # w => Held(v)' = Held(v),
           \A b \in Buffers : b # Held(w) /\ messages[b] # None => messages'[b] # None
    PROVE  Exclusive'
BY DEF Exclusive, InBuffers

(* The facts about hands that each step needs.                             *)
LEMMA HandFacts ==
    ASSUME TypeInv, ReaderUp
    PROVE  /\ InBuffers
           /\ \A w \in Wires :
                /\ reader[w].pc \in {"map", "run", "pop"} => Held(w) = Buf(w) /\ Buf(w) \in Buffers
                /\ reader[w].pc \notin {"map", "run", "pop"} => Held(w) = removed[w]["reader"]
                /\ ReaderClone(w) # "pop" => removed[w]["reader"] = None
                /\ reader[w].pc \notin {"map", "run", "pop", "failed", "stopped"} => Held(w) = None
<1>1. /\ None \notin Buffers /\ \A w \in Wires : "reader" \in Clones(w)
      /\ \A key \in CallKeys : call_to_buffer_map[key] \in Buffers \cup {None}
  BY NoneAssumption DEF Clones, TypeInv, StoreTypes, CallKeys
<1>2. ASSUME NEW w \in Wires
      PROVE  /\ reader[w].pc \in {"map", "run", "pop"} => Held(w) = Buf(w) /\ Buf(w) \in Buffers
             /\ reader[w].pc \notin {"map", "run", "pop"} => Held(w) = removed[w]["reader"]
             /\ ReaderClone(w) # "pop" => removed[w]["reader"] = None
             /\ removed[w]["reader"] \in Buffers \cup {None}
  <2>1. /\ ReaderClone(w) # "pop" => removed[w]["reader"] = None
        /\ removed[w]["reader"] \in Buffers \cup {None}
    BY <1>1 DEF TypeInv, DropTypes, ReaderClone
  <2>2. reader[w].pc \in {"map", "run", "pop"} => Buf(w) \in Buffers
    BY DEF TypeInv, ReaderTypes, Holding
  <2> QED BY <2>1, <2>2 DEF Held
<1>3. ASSUME NEW w \in Wires, reader[w].pc \notin {"map", "run", "pop", "failed", "stopped"}
      PROVE  Held(w) = None
  BY <1>2, <1>3 DEF ReaderUp
<1> QED BY <1>1, <1>2, <1>3 DEF InBuffers

(* Where no wire is started, the reader's clone is the only one.           *)
LEMMA OneClone ==
    ASSUME NoneStarted, NEW w \in Wires, Made(w), NEW r \in Clones(w)
    PROVE  r = "reader"
BY DEF NoneStarted, Clones

LEMMA ExclusiveStep ==
    ASSUME TypeInv, ReaderUp, MapSeen, NoneStarted, Exclusive, InBuffer, [Next]_vars
    PROVE  Exclusive'
<1>0. /\ messages \in [Buffers -> Content \cup {None}] /\ None \notin Buffers
      /\ None \notin Content
  BY NoneAssumption DEF TypeInv, StoreTypes, Content, Piece
<1>1. TypeInv' /\ ReaderUp'
  BY ReaderUpStep, IdTypesStep, StoreTypesStep, DropTypesStep, CallTypesStep, HistoryTypesStep,
     ReaderTypesStep DEF TypeInv
<1>2. CASE UNCHANGED <<messages, call_to_buffer_map, reader, removed>>
  BY <1>2, SameHands, HandFacts DEF Held, Buf
<1>3. ASSUME NEW w \in Wires, ReaderStep(w) \/ StopReading(w) PROVE Exclusive'
  <2>1. ReaderDid(w) /\ UNCHANGED <<clone, removed, id>>
    BY <1>3, ReaderSteps
  <2>2. /\ reader'[w].call = reader[w].call
        /\ \A v \in Wires : v # w => reader'[v] = reader[v]
        /\ reader[w].pc \notin {"none", "failed", "stopped"}
    BY <2>1, ReaderMoved
  <2>3. \A v \in Wires : v # w => Held(v)' = Held(v)
    BY <2>1, <2>2 DEF Held, Buf
  <2>4. Reads(w) /\ ReaderClone(w) = "up" /\ removed[w]["reader"] = None
    BY <2>2, WorkingWire, HandFacts DEF Reads
  <2>5. Held(w)' = IF reader'[w].pc \in {"map", "run", "pop"} THEN reader'[w].buf ELSE None
    BY <2>1, <2>4 DEF Held, Buf
  <2>6. Held(w) = IF reader[w].pc \in {"map", "run", "pop"} THEN Buf(w) ELSE None
    BY <2>4 DEF Held
  <2>7. CASE Pushed(w)
    <3>1. /\ reader'[w].pc = "map" /\ reader'[w].buf \in Buffers
          /\ messages[reader'[w].buf] = None /\ UNCHANGED call_to_buffer_map
          /\ messages' = [messages EXCEPT ![reader'[w].buf] = [args |-> <<>>, complete |-> FALSE]]
      BY <2>4, <2>7 DEF Pushed, Advance, InBuffer
    <3>2. [args |-> <<>>, complete |-> FALSE] # None
      <4>1. [args |-> <<>>, complete |-> FALSE] \in Content
        BY DEF Content
      <4> QED BY <1>0, <4>1
    <3>3. PICK b \in Buffers : b = reader'[w].buf
      BY <3>1
    <3>4. /\ messages'[b] # None
          /\ \A a \in Buffers : messages[a] # None => messages'[a] # None
      BY <1>0, <3>1, <3>2, <3>3
    <3> QED BY <2>3, <2>5, <3>1, <3>3, <3>4, NewInHand, HandFacts
  <2>8. CASE Mapped(w)
    <3>1. /\ reader[w].pc = "map" /\ reader'[w].pc = "register" /\ UNCHANGED messages
          /\ call_to_buffer_map'[Key(w)] = Buf(w) /\ Buf(w) \in Buffers /\ Key(w) \in CallKeys
          /\ \A key \in CallKeys : key # Key(w) =>
               call_to_buffer_map'[key] = call_to_buffer_map[key]
      BY <2>1, <2>4, <2>8, ReaderMaps DEF Mapped, Advance, InBuffer
    <3>2. Held(w) = Buf(w) /\ Held(w)' = None /\ Buf(w) # None
      BY <1>0, <2>5, <2>6, <3>1
    <3>3. PICK k \in CallKeys : k = Key(w)
      BY <3>1
    <3> QED BY <2>3, <3>1, <3>2, <3>3, HandedToMap, HandFacts
  <2>9. CASE Taken(w)
    <3>1. /\ reader[w].pc = "unmap" /\ reader'[w].pc = "run" /\ UNCHANGED messages
          /\ call_to_buffer_map'[Key(w)] = None /\ reader'[w].buf = Buf(w) /\ Key(w) \in CallKeys
          /\ \A key \in CallKeys : key # Key(w) =>
               call_to_buffer_map'[key] = call_to_buffer_map[key]
      BY <2>1, <2>9, ReaderMaps DEF Taken, Advance
    <3>2. Held(w)' = Buf(w) /\ call_to_buffer_map[Key(w)] = Buf(w)
      BY <2>4, <2>5, <3>1 DEF InBuffer, Mapping, Key
    <3>3. PICK k \in CallKeys : k = Key(w)
      BY <3>1
    <3> QED BY <2>3, <3>1, <3>2, <3>3, TakenFromMap, HandFacts
  <2>10. CASE Popped(w)
    <3>1. /\ Held(w) = Buf(w) /\ Held(w)' = None /\ Buf(w) \in Buffers
          /\ UNCHANGED call_to_buffer_map /\ messages' = [messages EXCEPT ![Buf(w)] = None]
      BY <2>5, <2>10, HandFacts DEF Popped, Advance
    <3>2. \A b \in Buffers : b # Held(w) /\ messages[b] # None => messages'[b] # None
      BY <1>0, <3>1
    <3> QED BY <1>0, <2>3, <3>1, <3>2, HandEmptied, HandFacts
  <2>11. CASE ~Pushed(w) /\ ~Mapped(w) /\ ~Taken(w) /\ ~Popped(w)
    <3>1. UNCHANGED call_to_buffer_map
      BY <2>1, <2>11, ReaderMaps
    <3>2. Held(w)' \in {Held(w), None}
      BY <2>1, <2>5, <2>6, <2>11 DEF ReaderDid, Found, Entered, Added, Closed, Refused, HasRun,
                                     Answered, Halted, Advance
    <3>3. \A b \in Buffers : messages[b] # None => messages'[b] # None
      <4>1. CASE Added(w) \/ Closed(w)
        <5>1. /\ Accepts(Buf(w)) /\ Buf(w) \in Buffers
              /\ Call(w) \in Calls /\ arrived[w][Call(w)] >= 1
          BY <4>1 DEF Added, Closed, TypeInv, ReaderTypes, Holding, Working, ReaderPoints
        <5>2. messages[Buf(w)] \in [args : Seq(Piece), complete : BOOLEAN]
          BY <1>0, <5>1 DEF Accepts, Content
        <5>3. <<w, Call(w), arrived[w][Call(w)]>> \in Piece
          BY <5>1, PiecesAssumption DEF TypeInv, HistoryTypes, Piece
        <5>4. Append(messages[Buf(w)].args, <<w, Call(w), arrived[w][Call(w)]>>) \in Seq(Piece)
          BY <5>2, <5>3, AppendProperties
        <5>5. \E m \in Content : messages' = [messages EXCEPT ![Buf(w)] = m]
          <6>1. CASE Added(w)
            <7> DEFINE m == [messages[Buf(w)] EXCEPT !.args =
                               Append(@, <<w, Call(w), arrived[w][Call(w)]>>)]
            <7>1. m \in Content
              BY <5>2, <5>4 DEF Content
            <7>2. messages' = [messages EXCEPT ![Buf(w)] = m]
              BY <6>1 DEF Added
            <7> QED BY <7>1, <7>2
          <6>2. CASE Closed(w)
            <7> DEFINE m == [messages[Buf(w)] EXCEPT !.complete = TRUE]
            <7>1. m \in Content
              BY <5>2 DEF Content
            <7>2. messages' = [messages EXCEPT ![Buf(w)] = m]
              BY <6>2 DEF Closed
            <7> QED BY <7>1, <7>2
          <6> QED BY <4>1, <6>1, <6>2
        <5> QED BY <1>0, <5>5
      <4>2. CASE ~Added(w) /\ ~Closed(w)
        BY <2>1, <2>11, <4>2 DEF ReaderDid, Found, Entered, Refused, HasRun, Answered, Halted
      <4> QED BY <4>1, <4>2
    <3> QED BY <2>3, <3>1, <3>2, <3>3, SameHands, HandFacts
  <2> QED BY <2>7, <2>8, <2>9, <2>10, <2>11

<1>4. ASSUME NEW w \in Wires, NEW c \in Calls, Receive(w, c) PROVE Exclusive'
  <2>1. /\ reader[w].pc = "idle" /\ \A v \in Wires : v # w => reader'[v] = reader[v]
        /\ reader'[w].pc \in {"idle", "get"}
        /\ UNCHANGED <<messages, call_to_buffer_map, removed>>
    BY <1>4, ReceiveSteps DEF Accepted, Dismissed
  <2>2. \A v \in Wires : Held(v)' = Held(v)
    BY <2>1 DEF Held, Buf
  <2> QED BY <2>1, <2>2, SameHands, HandFacts
<1>5. ASSUME NEW w \in Wires, NEW c \in Calls, LastYield(w, c) PROVE Exclusive'
  BY <1>2, <1>5, YieldSteps
<1>6. ASSUME NEW w \in Wires, NewWire(w) PROVE Exclusive'
  <2>1. /\ reader[w].pc = "none" /\ reader'[w].pc = "idle"
        /\ \A v \in Wires : v # w => reader'[v] = reader[v]
        /\ UNCHANGED <<messages, call_to_buffer_map, removed>>
    BY <1>6, NewWireSteps
  <2>2. \A v \in Wires : Held(v)' = Held(v)
    BY <2>1 DEF Held, Buf
  <2> QED BY <2>1, <2>2, SameHands, HandFacts
<1>7. ASSUME NEW w \in Wires, NEW r \in Clones(w), Drop(w, r) \/ DropStep(w, r) PROVE Exclusive'
  <2>1. Made(w) /\ OtherClones(w, r) /\ UNCHANGED <<reader, id>>
    BY <1>7, DropSteps
  <2>2. r = "reader" /\ \A v \in Wires : "reader" \in Clones(v)
    BY <2>1, OneClone DEF Clones
  <2>3. \A v \in Wires : v # w => Held(v)' = Held(v)
    BY <2>1, <2>2 DEF OtherClones, Held, Buf
  <2>4. reader[w].pc \in {"failed", "stopped"}
    BY <1>7, <2>2, DropSteps DEF ReaderUp, ReaderClone, Marked, Cut, Swept, HandedBack
  <2>5. Held(w) = removed[w]["reader"] /\ Held(w)' = removed'[w]["reader"]
    BY <2>1, <2>4 DEF Held
  <2>6. CASE Marked(w, r) \/ HandedBack(w, r)
    <3>1. Held(w)' = Held(w) /\ UNCHANGED <<messages, call_to_buffer_map>>
      BY <2>2, <2>5, <2>6 DEF Marked, HandedBack
    <3> QED BY <2>3, <3>1, SameHands, HandFacts
  <2>7. ASSUME NEW c \in Calls, Cut(w, r, c) PROVE Exclusive'
    <3>1. /\ <<c, id[w]>> \in CallKeys /\ call_to_buffer_map'[<<c, id[w]>>] = None
          /\ \A key \in CallKeys : key # <<c, id[w]>> =>
               call_to_buffer_map'[key] = call_to_buffer_map[key]
      BY <2>1, <2>7, CutMaps
    <3>2. Held(w)' = call_to_buffer_map[<<c, id[w]>>] /\ UNCHANGED messages
      BY <2>2, <2>5, <2>7 DEF Cut, Mapping
    <3>3. PICK k \in CallKeys : k = <<c, id[w]>>
      BY <3>1
    <3> QED BY <2>3, <3>1, <3>2, <3>3, TakenFromMap, HandFacts
  <2>8. CASE Swept(w, r)
    <3>1. /\ Held(w) \in Buffers /\ Held(w)' = None /\ UNCHANGED call_to_buffer_map
          /\ messages' = [messages EXCEPT ![Held(w)] = None]
      BY <2>2, <2>5, <2>8 DEF Swept
    <3>2. \A b \in Buffers : b # Held(w) /\ messages[b] # None => messages'[b] # None
      BY <1>0, <3>1
    <3> QED BY <1>0, <2>3, <3>1, <3>2, HandEmptied, HandFacts
  <2> QED BY <1>7, <2>6, <2>7, <2>8, DropSteps
<1> QED BY <1>2, <1>3, <1>4, <1>5, <1>6, <1>7, NextKinds, VarsKept

(* The arguments of a buffer change when its reader adds or pops them.     *)
LEMMA ReaderWrites ==
    ASSUME TypeInv, NEW w \in Wires, ReaderDid(w), NEW b \in Buffers, messages[b] # None,
           Added(w) \/ Popped(w) => b # Buf(w)
    PROVE  messages'[b].args = messages[b].args
<1>0. messages \in [Buffers -> Content \cup {None}]
  BY DEF TypeInv, StoreTypes
<1>1. CASE Pushed(w)
  BY <1>0, <1>1 DEF Pushed
<1>2. CASE Added(w)
  BY <1>0, <1>2 DEF Added
<1>3. CASE Closed(w)
  <2>1. Accepts(Buf(w)) /\ Buf(w) \in Buffers
    BY <1>3 DEF Closed, TypeInv, ReaderTypes, Holding
  <2>2. messages[Buf(w)] \in [args : Seq(Piece), complete : BOOLEAN]
    BY <1>0, <2>1 DEF Accepts, Content
  <2>3. messages'[Buf(w)] = [messages[Buf(w)] EXCEPT !.complete = TRUE]
    BY <1>0, <1>3, <2>1 DEF Closed
  <2>4. messages'[Buf(w)].args = messages[Buf(w)].args
    BY <2>2, <2>3
  <2>5. b # Buf(w) => messages'[b] = messages[b]
    BY <1>0, <1>3 DEF Closed
  <2> QED BY <2>4, <2>5
<1>4. CASE Popped(w)
  BY <1>0, <1>4 DEF Popped
<1>5. CASE ~Pushed(w) /\ ~Added(w) /\ ~Closed(w) /\ ~Popped(w)
  BY <1>5 DEF ReaderDid, Found, Mapped, Entered, Refused, Taken, HasRun, Answered, Halted
<1> QED BY <1>1, <1>2, <1>3, <1>4, <1>5

(* ... which are not those of another call, of this wire or another.       *)
LEMMA OtherBuffers ==
    ASSUME TypeInv, ReaderUp, UniqueWires, Exclusive, InBuffer, NEW w \in Wires, ReaderDid(w),
           NEW v \in Wires, NEW c \in Calls, Reads(v), v # w \/ c # Call(w)
    PROVE  /\ call_to_buffer_map'[<<c, id[v]>>] = Mapping(v, c)
           /\ Mapping(v, c) # None => messages'[Mapping(v, c)].args = messages[Mapping(v, c)].args
<1>0. /\ reader[w].pc \notin {"none", "failed", "stopped"}
      /\ call_to_buffer_map \in [CallKeys -> Buffers \cup {None}]
  BY ReaderMoved DEF TypeInv, StoreTypes, CallKeys
<1>1. Live(w) /\ Reads(w)
  BY <1>0, WorkingWire DEF Reads
<1>2. Live(v) /\ <<c, id[v]>> \in CallKeys /\ "reader" \in Clones(v)
  BY DEF Reads, Live, Gone, ReaderClone, Clones, CallKeys, TypeInv, IdTypes, Made
<1>3. Call(w) \in Calls => <<c, id[v]>> # Key(w)
  BY <1>1, <1>2, OwnKeys DEF Key
<1>4. Mapped(w) \/ Taken(w) \/ Added(w) => Call(w) \in Calls /\ Key(w) \in CallKeys
  BY <1>0, WorkingWire DEF Mapped, Taken, Added
<1>5. call_to_buffer_map'[<<c, id[v]>>] = Mapping(v, c)
  BY <1>2, <1>3, <1>4, ReaderMaps DEF Mapping
<1>6. ASSUME Mapping(v, c) # None
      PROVE  messages'[Mapping(v, c)].args = messages[Mapping(v, c)].args
  <2>1. PICK b \in Buffers : b = Mapping(v, c)
    BY <1>0, <1>2, <1>6 DEF Mapping
  <2>2. messages[b] # None /\ b # None
    BY <1>2, <1>6, <2>1 DEF Exclusive, Mapping
  <2>3. Added(w) => b # Buf(w)
    <3> SUFFICES ASSUME Added(w) PROVE b # Buf(w)
      OBVIOUS
    <3>1. call_to_buffer_map[Key(w)] = Buf(w)
      BY <1>1 DEF Added, InBuffer, Mapping, Key
    <3>2. call_to_buffer_map[<<c, id[v]>>] = b
      BY <2>1 DEF Mapping
    <3> QED BY <1>2, <1>3, <1>4, <2>2, <3>1, <3>2 DEF Exclusive
  <2>4. Popped(w) => b # Buf(w)
    <3> SUFFICES ASSUME Popped(w) PROVE b # Buf(w)
      OBVIOUS
    <3>1. Held(w) = Buf(w) /\ Buf(w) # None
      BY HandFacts, NoneAssumption DEF Popped
    <3>2. call_to_buffer_map[<<c, id[v]>>] = b
      BY <2>1 DEF Mapping
    <3> QED BY <1>2, <3>1, <3>2 DEF Exclusive
  <2> QED BY <2>1, <2>2, <2>3, <2>4, ReaderWrites
<1> QED BY <1>5, <1>6

(* What is said of one call, the wire and the call given by value.         *)
Ready(w) ==
    /\ reader[w].pc \notin {"push again", "map again"}
    /\ reader[w].pc \in {"register", "append", "terminate", "find", "unmap"} =>
         Mapping(w, Call(w)) = Buf(w) /\ Buf(w) \in Buffers
Collected(w, c) ==
    <<w, c>> \notin rejected =>
        IF Mapping(w, c) = None
        THEN Appended(w, c) \in {0, Pieces}
        ELSE messages[Mapping(w, c)].args = First(w, c, Appended(w, c))

LEMMA OneMore ==
    ASSUME NEW w \in Wires, NEW c \in Calls, NEW n \in Nat \ {0}
    PROVE  Append(First(w, c, n - 1), <<w, c, n>>) = First(w, c, n)
<1>1. /\ First(w, c, n - 1) = [i \in 1 .. n - 1 |-> <<w, c, i>>]
      /\ First(w, c, n) = [i \in 1 .. n |-> <<w, c, i>>]
  BY DEF First
<1> DEFINE S == {w} \X {c} \X Nat
<1>2. /\ First(w, c, n - 1) \in Seq(S) /\ Len(First(w, c, n - 1)) = n - 1
      /\ First(w, c, n) \in Seq(S) /\ Len(First(w, c, n)) = n
      /\ <<w, c, n>> \in S
  <2>1. ASSUME NEW m \in Nat, m <= n
        PROVE  [i \in 1 .. m |-> <<w, c, i>>] \in Seq(S) /\ Len([i \in 1 .. m |-> <<w, c, i>>]) = m
    <3>1. [i \in 1 .. m |-> <<w, c, i>>] \in [1 .. m -> S]
      OBVIOUS
    <3> HIDE DEF S
    <3> QED BY <3>1
  <2>2. n - 1 \in Nat /\ n - 1 <= n /\ n \in Nat /\ n <= n
    OBVIOUS
  <2>3. <<w, c, n>> \in S
    OBVIOUS
  <2> HIDE DEF S
  <2> QED BY <1>1, <2>1, <2>2, <2>3
<1> HIDE DEF S
<1>3. /\ Append(First(w, c, n - 1), <<w, c, n>>) \in Seq(S)
      /\ Len(Append(First(w, c, n - 1), <<w, c, n>>)) = n
      /\ \A i \in 1 .. n - 1 : Append(First(w, c, n - 1), <<w, c, n>>)[i] = First(w, c, n - 1)[i]
      /\ Append(First(w, c, n - 1), <<w, c, n>>)[n] = <<w, c, n>>
  BY <1>2, AppendProperties
<1>4. \A i \in 1 .. n : Append(First(w, c, n - 1), <<w, c, n>>)[i] = First(w, c, n)[i]
  BY <1>1, <1>3
<1> QED BY <1>2, <1>3, <1>4, SeqEqual

(* The call that the reader works on.                                      *)
LEMMA OwnBuffer ==
    ASSUME TypeInv, ReaderUp, MapSeen, Progress, InBuffer, InReader, NEW w \in Wires, ReaderDid(w),
           UNCHANGED <<id, clone, removed, arrived, rejected>>, Reads(w)'
    PROVE  Ready(w)' /\ (Call(w) \in Calls => Collected(w, Call(w))')
<1>0. /\ reader'[w].call = reader[w].call
      /\ reader[w].pc \notin {"none", "failed", "stopped"}
      /\ \A v \in Wires : v # w => reader'[v] = reader[v]
      /\ None \notin Buffers /\ messages \in [Buffers -> Content \cup {None}]
      /\ arrived \in [Wires -> [Calls -> 0 .. Pieces]]
  BY ReaderMoved, NoneAssumption DEF TypeInv, StoreTypes, HistoryTypes
<1>1. Reads(w)
  BY <1>0, WorkingWire DEF Reads
<1>2. Ready(w) /\ (Call(w) \in Calls => Collected(w, Call(w)))
  BY <1>1 DEF InBuffer, Ready, Collected
<1>3. /\ Mapping(w, Call(w))' = call_to_buffer_map'[Key(w)]
      /\ Mapping(w, Call(w)) = call_to_buffer_map[Key(w)]
      /\ Call(w)' = Call(w)
  BY <1>0 DEF Mapping, Key, Call
<1>4. CASE Found(w)
  <2>1. /\ UNCHANGED <<messages, call_to_buffer_map>> /\ reader'[w].buf = Mapping(w, Call(w))
        /\ reader[w].pc \in {"get", "find"}
        /\ reader[w].pc = "get" => \/ reader'[w].pc = "push"
                                   \/ reader'[w].pc = "register" /\ Mapping(w, Call(w)) \in Buffers
        /\ reader[w].pc = "find" => reader'[w].pc = "unmap" /\ Mapping(w, Call(w)) \in Buffers
    BY <1>0, <1>2, <1>4 DEF Found, Advance, Ready
  <2>2. Ready(w)'
    BY <1>3, <2>1 DEF Ready, Buf
  <2>3. Appended(w, Call(w))' = Appended(w, Call(w))
    BY <1>0, <1>3, <2>1 DEF Appended, InHand
  <2> QED BY <1>2, <1>3, <2>1, <2>2, <2>3 DEF Collected
<1>5. CASE Pushed(w)
  <2>1. /\ UNCHANGED call_to_buffer_map /\ reader[w].pc = "push" /\ reader'[w].pc = "map"
    BY <1>2, <1>5 DEF Pushed, Advance, Ready
  <2>2. Ready(w)'
    BY <2>1 DEF Ready
  <2>3. Appended(w, Call(w))' = Appended(w, Call(w))
    BY <1>0, <1>3, <2>1 DEF Appended, InHand
  <2>4. Mapping(w, Call(w)) = None
    BY <2>1 DEF MapSeen, Unmapped
  <2> QED BY <1>2, <1>3, <2>1, <2>2, <2>3, <2>4 DEF Collected
<1>6. CASE Mapped(w)
  <2>1. /\ reader[w].pc = "map" /\ reader'[w].pc = "register" /\ UNCHANGED messages
        /\ call_to_buffer_map'[Key(w)] = Buf(w) /\ Buf(w) \in Buffers /\ reader'[w].buf = Buf(w)
    BY <1>2, <1>6, ReaderMaps DEF Mapped, Advance, Ready
  <2>2. Ready(w)'
    BY <1>3, <2>1 DEF Ready, Buf
  <2>3. Appended(w, Call(w))' = Appended(w, Call(w)) /\ Appended(w, Call(w)) = arrived[w][Call(w)] - 1
    BY <1>0, <1>3, <2>1 DEF Appended, InHand
  <2>4. /\ Mapping(w, Call(w)) = None /\ messages[Buf(w)].args = <<>>
        /\ Call(w) \in Calls
    BY <2>1 DEF MapSeen, Unmapped, InReader, TypeInv, ReaderTypes, Working, ReaderPoints
  <2>5. <<w, Call(w)>> \notin rejected => Appended(w, Call(w)) = 0
    <3>1. arrived[w][Call(w)] \in 0 .. Pieces
      BY <1>0, <2>4
    <3> QED BY <1>2, <2>3, <2>4, <3>1, PiecesAssumption DEF Collected
  <2>6. First(w, Call(w), 0) = <<>>
    BY DEF First
  <2> QED BY <1>0, <1>3, <2>1, <2>2, <2>3, <2>4, <2>5, <2>6 DEF Collected
<1>7. CASE Entered(w) \/ Closed(w)
  <2>1. /\ UNCHANGED call_to_buffer_map /\ reader'[w].buf = Buf(w)
        /\ \/ reader[w].pc = "register" /\ reader'[w].pc = "append"
           \/ reader[w].pc = "terminate" /\ reader'[w].pc = "find"
    BY <1>7 DEF Entered, Closed, Advance
  <2>2. Mapping(w, Call(w)) = Buf(w) /\ Buf(w) \in Buffers
    BY <1>2, <2>1 DEF Ready
  <2>3. Ready(w)'
    BY <1>3, <2>1, <2>2 DEF Ready, Buf
  <2>4. Appended(w, Call(w))' = Appended(w, Call(w))
    BY <1>0, <1>3, <2>1 DEF Appended, InHand
  <2>5. messages'[Buf(w)].args = messages[Buf(w)].args
    <3>1. CASE Entered(w)
      BY <3>1 DEF Entered
    <3>2. CASE Closed(w)
      BY <2>2, <3>2, ReaderWrites DEF Closed, Accepts, Added, Popped
    <3> QED BY <1>7, <3>1, <3>2
  <2> QED BY <1>0, <1>2, <1>3, <2>1, <2>2, <2>3, <2>4, <2>5 DEF Collected
<1>8. CASE Added(w)
  <2>1. /\ UNCHANGED call_to_buffer_map /\ reader'[w].buf = Buf(w) /\ reader[w].pc = "append"
        /\ reader'[w].pc \in {"idle", "terminate"} /\ Accepts(Buf(w))
        /\ messages' = [messages EXCEPT ![Buf(w)].args =
                            Append(@, <<w, Call(w), arrived[w][Call(w)]>>)]
    BY <1>8 DEF Added, Advance
  <2>2. Mapping(w, Call(w)) = Buf(w) /\ Buf(w) \in Buffers
    BY <1>2, <2>1 DEF Ready
  <2>3. Ready(w)'
    BY <1>3, <2>1, <2>2 DEF Ready, Buf
  <2>4. Call(w) \in Calls /\ arrived[w][Call(w)] >= 1
    BY <2>1 DEF TypeInv, ReaderTypes, Working, ReaderPoints
  <2>5. arrived[w][Call(w)] \in Nat \ {0}
    BY <1>0, <2>4, PiecesAssumption
  <2>6. /\ Appended(w, Call(w))' = arrived[w][Call(w)]
        /\ Appended(w, Call(w)) = arrived[w][Call(w)] - 1
    BY <1>0, <1>3, <2>1 DEF Appended, InHand
  <2>7. messages[Buf(w)] \in [args : Seq(Piece), complete : BOOLEAN]
    BY <1>0, <2>1, <2>2 DEF Accepts, Content
  <2>8. messages'[Buf(w)].args = Append(messages[Buf(w)].args, <<w, Call(w), arrived[w][Call(w)]>>)
    BY <1>0, <2>1, <2>2, <2>7
  <2>9. <<w, Call(w)>> \notin rejected =>
          messages[Buf(w)].args = First(w, Call(w), arrived[w][Call(w)] - 1)
    BY <1>0, <1>2, <2>2, <2>4, <2>6 DEF Collected
  <2>10. <<w, Call(w)>> \notin rejected =>
           messages'[Buf(w)].args = First(w, Call(w), arrived[w][Call(w)])
    BY <2>4, <2>5, <2>8, <2>9, OneMore
  <2> QED BY <1>0, <1>3, <2>1, <2>2, <2>3, <2>6, <2>10 DEF Collected
<1>9. CASE Taken(w)
  <2>1. /\ reader[w].pc = "unmap" /\ reader'[w].pc = "run"
        /\ call_to_buffer_map'[Key(w)] = None
    BY <1>9, ReaderMaps DEF Taken, Advance
  <2>2. Appended(w, Call(w))' = Pieces
    BY <1>0, <1>3, <2>1 DEF Appended, InHand, Progress, Complete
  <2> QED BY <1>3, <2>1, <2>2 DEF Ready, Collected
<1>10. CASE HasRun(w) \/ Popped(w) \/ Answered(w)
  <2>1. /\ UNCHANGED call_to_buffer_map /\ reader[w].pc \in {"run", "pop", "answer"}
        /\ reader'[w].pc \in {"pop", "answer", "idle"}
    BY <1>10 DEF HasRun, Popped, Answered, Advance
  <2>2. Mapping(w, Call(w)) = None /\ arrived[w][Call(w)] = Pieces
    BY <2>1 DEF MapSeen, Unmapped, Progress, Complete
  <2>3. Appended(w, Call(w))' = Pieces
    BY <1>0, <1>3, <2>1, <2>2 DEF Appended, InHand
  <2> QED BY <1>3, <2>1, <2>2, <2>3 DEF Ready, Collected
<1>11. CASE Halted(w)
  <2>1. /\ UNCHANGED <<messages, call_to_buffer_map>> /\ reader[w].pc = "idle"
        /\ reader'[w].pc = "stopped"
    BY <1>11 DEF Halted, Advance
  <2>2. Appended(w, Call(w))' = Appended(w, Call(w))
    BY <1>0, <1>3, <2>1 DEF Appended, InHand
  <2> QED BY <1>2, <1>3, <2>1, <2>2 DEF Ready, Collected
<1>12. ~Refused(w)
  BY DEF Refused, Advance, Reads
<1> QED BY <1>4, <1>5, <1>6, <1>7, <1>8, <1>9, <1>10, <1>11, <1>12 DEF ReaderDid

LEMMA InBufferStep ==
    ASSUME TypeInv, LeftInv, NoneStarted, UniqueWires, UniqueWires',
           Fresh, Exclusive, InBuffer, InReader, [Next]_vars
    PROVE  InBuffer'
<1>0. ReaderUp /\ MapSeen /\ Progress /\ MappingsSwept
  BY DEF LeftInv
<1>1. ASSUME \A v \in Wires : Reads(v)' => Ready(v)' /\ \A c \in Calls : Collected(v, c)'
      PROVE  InBuffer'
  BY <1>1 DEF InBuffer, Ready, Collected
<1>2. \A v \in Wires : Reads(v) => Ready(v) /\ \A c \in Calls : Collected(v, c)
  BY DEF InBuffer, Ready, Collected
<1>3. ASSUME NEW v \in Wires, Reads(v)
      PROVE  /\ Live(v) /\ id[v] \in Ids /\ "reader" \in Clones(v)
             /\ \A c \in Calls : <<c, id[v]>> \in CallKeys
  BY <1>3 DEF Reads, Live, Gone, ReaderClone, Clones, CallKeys, TypeInv, IdTypes, Made
<1>4. ASSUME UNCHANGED <<id, clone, messages, call_to_buffer_map, reader, arrived, rejected>>
      PROVE  InBuffer'
  BY ZenonT(60), <1>1, <1>2, <1>4 DEF Reads, Made, ReaderClone, Ready, Collected, Mapping, Call, Buf, Appended, InHand
<1>5. ASSUME NEW w \in Wires, ReaderStep(w) \/ StopReading(w) PROVE InBuffer'
  <2>1. ReaderDid(w) /\ UNCHANGED <<clone, removed, id, arrived, rejected>>
    BY <1>5, ReaderSteps
  <2>2. /\ reader'[w].call = reader[w].call
        /\ \A v \in Wires : v # w => reader'[v] = reader[v]
        /\ reader[w].pc \notin {"none", "failed", "stopped"}
    BY <2>1, ReaderMoved
  <2>3. Reads(w)
    BY <1>0, <2>2, WorkingWire DEF Reads
  <2>4. ASSUME NEW v \in Wires, NEW c \in Calls, Reads(v), v # w \/ c # Call(w)
        PROVE  Collected(v, c)'
    <3>1. Appended(v, c)' = Appended(v, c)
      BY <2>1, <2>2, <2>4 DEF Appended, InHand, Call
    <3>2. /\ Mapping(v, c)' = Mapping(v, c)
          /\ Mapping(v, c) # None =>
               messages'[Mapping(v, c)].args = messages[Mapping(v, c)].args
      BY <1>0, <2>1, <2>4, OtherBuffers DEF Mapping
    <3> QED BY <1>2, <2>1, <2>4, <3>1, <3>2 DEF Collected
  <2>5. ASSUME NEW v \in Wires, v # w, Reads(v)'
        PROVE  Ready(v)' /\ \A c \in Calls : Collected(v, c)'
    <3>1. Reads(v)
      BY <2>1, <2>2, <2>5 DEF Reads, Made, ReaderClone
    <3>2. Ready(v)'
      <4>1. reader[v].pc \in {"register", "append", "terminate", "find", "unmap"} =>
              Mapping(v, Call(v))' = Mapping(v, Call(v))
        <5>1. reader[v].pc \in {"register", "append", "terminate", "find", "unmap"} => Call(v) \in Calls
          BY <1>0, WorkingWire
        <5>2. PICK d : d = Call(v)
          OBVIOUS
        <5>3. d \in Calls => call_to_buffer_map'[<<d, id[v]>>] = Mapping(v, d)
          BY <1>0, <2>1, <2>5, <3>1, OtherBuffers
        <5>4. Mapping(v, Call(v))' = call_to_buffer_map'[<<d, id[v]>>]
          BY <2>1, <2>2, <2>5, <5>2 DEF Mapping, Call
        <5> QED BY <5>1, <5>2, <5>3, <5>4
      <4> QED BY <1>2, <2>2, <2>5, <3>1, <4>1 DEF Ready, Buf
    <3> QED BY <2>4, <2>5, <3>1, <3>2
  <2>6. ASSUME Reads(w)' PROVE Ready(w)' /\ \A c \in Calls : Collected(w, c)'
    <3>1. Ready(w)' /\ (Call(w) \in Calls => Collected(w, Call(w))')
      BY <1>0, <2>1, <2>6, OwnBuffer
    <3>2. ASSUME NEW c \in Calls PROVE Collected(w, c)'
      <4>1. CASE c = Call(w)
        <5>1. Call(w)' = c
          BY <2>2, <4>1 DEF Call
        <5> QED BY <3>1, <4>1, <5>1
      <4>2. CASE c # Call(w)
        BY <2>3, <2>4, <4>2
      <4> QED BY <4>1, <4>2
    <3> QED BY <3>1, <3>2
  <2> QED BY <1>1, <2>5, <2>6
<1>6. ASSUME NEW w \in Wires, NEW c \in Calls, Receive(w, c) PROVE InBuffer'
  <2>1. /\ reader[w].pc = "idle" /\ arrived[w][c] < Pieces
        /\ arrived'[w][c] = arrived[w][c] + 1
        /\ \A d \in Calls : d # c => arrived'[w][d] = arrived[w][d]
        /\ \A v \in Wires : v # w => arrived'[v] = arrived[v] /\ reader'[v] = reader[v]
        /\ Accepted(w, c) \/ Dismissed(w, c)
        /\ UNCHANGED <<id, messages, call_to_buffer_map, clone>>
    BY <1>6, ReceiveSteps
  <2>2. arrived[w][c] \in Nat
    BY PiecesAssumption DEF TypeInv, HistoryTypes
  <2>3. \A v \in Wires, d \in Calls : <<v, d>> \notin rejected' => <<v, d>> \notin rejected
    BY <2>1 DEF Accepted, Dismissed
  <2>4. Reads(w)
    BY <1>0, <2>1, WorkingWire DEF Reads
  <2>5. ASSUME NEW v \in Wires, v # w, Reads(v)'
        PROVE  Ready(v)' /\ \A d \in Calls : Collected(v, d)'
    <3>1. Reads(v) /\ reader'[v] = reader[v] /\ arrived'[v] = arrived[v]
      BY <2>1, <2>5 DEF Reads, Made, ReaderClone
    <3>2. Ready(v)'
      BY <1>2, <2>1, <3>1 DEF Ready, Mapping, Call, Buf
    <3>3. ASSUME NEW d \in Calls PROVE Collected(v, d)'
      <4>1. Appended(v, d)' = Appended(v, d)
        BY <3>1 DEF Appended, InHand, Call
      <4>2. Mapping(v, d)' = Mapping(v, d)
        BY <2>1 DEF Mapping
      <4> QED BY <1>2, <2>1, <2>3, <3>1, <4>1, <4>2 DEF Collected
    <3> QED BY <3>2, <3>3
  <2>6. Ready(w)'
    BY <2>1 DEF Accepted, Dismissed, Ready
  <2>7. ASSUME NEW d \in Calls PROVE Collected(w, d)'
    <3>1. CASE d # c
      <4>1. Appended(w, d)' = Appended(w, d)
        BY <2>1, <3>1 DEF Accepted, Dismissed, Appended, InHand, Call
      <4> QED BY <1>2, <2>1, <2>3, <2>4, <4>1 DEF Collected, Mapping
    <3>2. CASE d = c /\ Accepted(w, c)
      <4>1. Appended(w, d)' = Appended(w, d)
        BY <2>1, <2>2, <3>2 DEF Accepted, Appended, InHand, Call
      <4> QED BY <1>2, <2>1, <2>3, <2>4, <4>1 DEF Collected, Mapping
    <3>3. CASE d = c /\ Dismissed(w, c)
      BY <3>3 DEF Dismissed, Collected
    <3> QED BY <2>1, <3>1, <3>2, <3>3
  <2> QED BY <1>1, <2>5, <2>6, <2>7
<1>7. ASSUME NEW w \in Wires, NEW c \in Calls, LastYield(w, c) PROVE InBuffer'
  BY <1>4, <1>7, YieldSteps
<1>8. ASSUME NEW w \in Wires, NewWire(w) PROVE InBuffer'
  <2>1. /\ ~Made(w) /\ Made(w)' /\ reader[w].pc = "none" /\ reader'[w].pc = "idle"
        /\ \A v \in Wires : v # w => /\ id'[v] = id[v] /\ reader'[v] = reader[v]
                                     /\ Made(v)' = Made(v)
        /\ UNCHANGED <<messages, call_to_buffer_map, clone, arrived, rejected>>
    BY <1>8, NewWireSteps
  <2>2. ASSUME NEW v \in Wires, v # w, Reads(v)'
        PROVE  Ready(v)' /\ \A d \in Calls : Collected(v, d)'
    BY ZenonT(60), <1>2, <2>1, <2>2 DEF Reads, ReaderClone, Ready, Collected, Mapping, Call, Buf,
                            Appended, InHand
  <2>3. Ready(w)'
    BY <2>1 DEF Ready
  <2>4. ASSUME NEW c \in Calls, Reads(w)' PROVE Collected(w, c)'
    <3>1. Appended(w, c)' = 0
      BY <2>1 DEF Fresh, Appended, InHand
    <3>2. id'[w] \in Ids
      BY <2>1, IdTypesStep DEF IdTypes, Made
    <3>3. call_to_buffer_map[<<c, id'[w]>>] = None
      <4> SUFFICES ASSUME call_to_buffer_map[<<c, id'[w]>>] # None PROVE FALSE
        OBVIOUS
      <4>1. PICK i \in Ids : i = id'[w]
        BY <3>2
      <4>2. PICK u \in Wires : Made(u) /\ id[u] = i /\ Covers(u, c)
        BY <1>0, <4>1 DEF MappingsSwept
      <4>3. u # w /\ clone[u]["reader"] # "gone"
        BY <2>1, <4>2 DEF Covers, ReaderClone
      <4>4. Live(u)'
        BY <2>1, <4>2, <4>3 DEF Live, Gone, Clones
      <4>5. Live(w)'
        BY <2>1, <2>4 DEF Reads, ReaderClone, Live, Gone, Clones
      <4> QED BY <2>1, <4>1, <4>2, <4>3, <4>4, <4>5 DEF UniqueWires
    <3>4. Mapping(w, c)' = None
      BY <2>1, <3>3 DEF Mapping
    <3> QED BY <3>1, <3>4 DEF Collected
  <2> QED BY <1>1, <2>2, <2>3, <2>4
<1>9. ASSUME NEW w \in Wires, NEW r \in Clones(w), Drop(w, r) \/ DropStep(w, r) PROVE InBuffer'
  <2>1. Made(w) /\ OtherClones(w, r) /\ UNCHANGED <<reader, id, arrived, rejected>>
    BY <1>9, DropSteps
  <2>2. r = "reader" /\ \A v \in Wires : "reader" \in Clones(v)
    BY <2>1, OneClone DEF Clones
  <2>3. ~Reads(w)'
    BY <1>9, <2>2, DropSteps DEF Marked, Cut, Swept, HandedBack, Reads, ReaderClone
  <2>4. ASSUME NEW v \in Wires, Reads(v)'
        PROVE  /\ v # w /\ Reads(v)
               /\ \A c \in Calls : call_to_buffer_map'[<<c, id[v]>>] = call_to_buffer_map[<<c, id[v]>>]
    <3>1. v # w /\ Reads(v)
      BY <2>1, <2>2, <2>3, <2>4 DEF Reads, Made, ReaderClone, OtherClones
    <3>2. Live(v)
      BY <1>3, <3>1
    <3>3. ASSUME NEW c \in Calls, NEW d \in Calls, Cut(w, r, d)
          PROVE  call_to_buffer_map'[<<c, id[v]>>] = call_to_buffer_map[<<c, id[v]>>]
      <4>1. Live(w)
        BY <2>1, <3>3 DEF Cut, Live, Gone
      <4>2. <<c, id[v]>> # <<d, id[w]>> /\ <<c, id[v]>> \in CallKeys
        BY <1>3, <3>1, <3>2, <4>1, OwnKeys
      <4> QED BY <2>1, <3>3, <4>2, CutMaps
    <3> QED BY <1>9, <3>1, <3>3, DropSteps DEF Marked, Swept, HandedBack
  <2>5. ASSUME NEW key \in CallKeys, call_to_buffer_map[key] # None
        PROVE  messages'[call_to_buffer_map[key]] = messages[call_to_buffer_map[key]]
    <3>1. CASE Swept(w, r)
      <4>1. Held(w) = removed[w]["reader"] /\ Held(w) # None
        <5>1. reader[w].pc \in {"failed", "stopped"}
          BY <1>0, <2>2, <3>1 DEF ReaderUp, ReaderClone, Swept
        <5> QED BY <2>2, <3>1, <5>1, NoneAssumption DEF Held, Swept
      <4>2. call_to_buffer_map[key] # removed[w]["reader"]
        BY <4>1 DEF Exclusive
      <4>3. call_to_buffer_map[key] \in Buffers /\ messages \in [Buffers -> Content \cup {None}]
        BY <2>5 DEF TypeInv, StoreTypes, CallKeys
      <4> QED BY <2>2, <3>1, <4>2, <4>3 DEF Swept
    <3>2. CASE ~Swept(w, r)
      BY <1>9, <3>2, DropSteps DEF Marked, Cut, HandedBack
    <3> QED BY <3>1, <3>2
  <2>6. ASSUME NEW v \in Wires, Reads(v)'
        PROVE  Ready(v)' /\ \A c \in Calls : Collected(v, c)'
    <3>1. /\ Reads(v) /\ id'[v] = id[v]
          /\ \A c \in Calls : Mapping(v, c)' = Mapping(v, c)
      BY <2>1, <2>4, <2>6 DEF Mapping
    <3>2. Ready(v)'
      <4>1. reader[v].pc \in {"register", "append", "terminate", "find", "unmap"} => Call(v) \in Calls
        BY <1>0, WorkingWire
      <4>2. PICK d : d = Call(v)
        OBVIOUS
      <4>3. d \in Calls => Mapping(v, Call(v))' = Mapping(v, Call(v))
        BY <2>1, <2>4, <2>6, <4>2 DEF Mapping, Call
      <4> QED BY <1>2, <2>1, <3>1, <4>1, <4>2, <4>3 DEF Ready, Buf
    <3>3. ASSUME NEW c \in Calls PROVE Collected(v, c)'
      <4>1. Appended(v, c)' = Appended(v, c)
        BY <2>1 DEF Appended, InHand, Call
      <4>2. Mapping(v, c) # None => messages'[Mapping(v, c)] = messages[Mapping(v, c)]
        BY <1>3, <2>5, <3>1 DEF Mapping
      <4> QED BY <1>2, <2>1, <3>1, <4>1, <4>2 DEF Collected
    <3> QED BY <3>2, <3>3
  <2> QED BY <1>1, <2>6
<1> QED BY <1>4, <1>5, <1>6, <1>7, <1>8, <1>9, NextKinds, VarsKept

(* A reader's hands are touched by nobody else.                            *)
LEMMA InReaderStep ==
    ASSUME TypeInv, LeftInv, NoneStarted, Exclusive, InBuffer, InReader, [Next]_vars
    PROVE  InReader'
<1>0. ReaderUp /\ MapSeen /\ Progress
  BY DEF LeftInv
<1>1. CASE UNCHANGED <<messages, reader, rejected>>
  BY <1>1 DEF InReader, Buf, Call
<1>2. ASSUME NEW v \in Wires, reader[v].pc \in {"map", "run", "pop"}
      PROVE  Held(v) = Buf(v) /\ Buf(v) \in Buffers /\ messages[Buf(v)] # None
  BY <1>0, <1>2, HandFacts, NoneAssumption DEF Exclusive
<1>3. ASSUME NEW w \in Wires, ReaderStep(w) \/ StopReading(w) PROVE InReader'
  <2>1. ReaderDid(w) /\ UNCHANGED <<clone, removed, id, rejected>>
    BY <1>3, ReaderSteps
  <2>2. /\ reader'[w].call = reader[w].call
        /\ \A v \in Wires : v # w => reader'[v] = reader[v]
        /\ reader[w].pc \notin {"none", "failed", "stopped"}
    BY <2>1, ReaderMoved
  <2>3. Reads(w)
    BY <1>0, <2>2, WorkingWire DEF Reads
  <2>4. ASSUME NEW v \in Wires, v # w, reader[v].pc \in {"map", "run"}
        PROVE  messages'[Buf(v)].args = messages[Buf(v)].args
    <3>1. Held(v) = Buf(v) /\ Buf(v) \in Buffers /\ messages[Buf(v)] # None
      BY <1>2, <2>4
    <3>2. Added(w) => Buf(v) # Buf(w)
      <4>1. Added(w) => Mapping(w, Call(w)) = Buf(w) /\ Key(w) \in CallKeys
        BY <1>0, <2>2, <2>3, WorkingWire DEF Added, InBuffer
      <4> QED BY <3>1, <4>1, NoneAssumption DEF Exclusive, Mapping, Key
    <3>3. Popped(w) => Buf(v) # Buf(w)
      <4>1. Popped(w) => Held(w) = Buf(w)
        BY <1>2 DEF Popped
      <4> QED BY <2>4, <3>1, <4>1, NoneAssumption DEF Exclusive
    <3>4. PICK b \in Buffers : b = Buf(v)
      BY <3>1
    <3> QED BY <2>1, <3>1, <3>2, <3>3, <3>4, ReaderWrites
  <2>5. reader'[w].pc = "map" => messages'[reader'[w].buf].args = <<>>
    <3> SUFFICES ASSUME reader'[w].pc = "map" PROVE messages'[reader'[w].buf].args = <<>>
      OBVIOUS
    <3>1. Pushed(w)
      BY <2>1 DEF ReaderDid, Found, Mapped, Entered, Added, Closed, Refused, Taken, HasRun, Popped,
                  Answered, Halted, Advance
    <3> QED BY <3>1 DEF Pushed, TypeInv, StoreTypes
  <2>6. reader'[w].pc = "run" /\ <<w, Call(w)>> \notin rejected =>
          messages'[reader'[w].buf].args = Arguments(w, Call(w))
    <3> SUFFICES ASSUME reader'[w].pc = "run", <<w, Call(w)>> \notin rejected
                 PROVE  messages'[reader'[w].buf].args = Arguments(w, Call(w))
      OBVIOUS
    <3>1. Taken(w)
      BY <2>1 DEF ReaderDid, Found, Pushed, Mapped, Entered, Added, Closed, Refused, HasRun, Popped,
                  Answered, Halted, Advance
    <3>2. /\ reader[w].pc = "unmap" /\ reader'[w].buf = Buf(w) /\ UNCHANGED messages
          /\ Call(w) \in Calls /\ Buf(w) # None
      BY <3>1, NoneAssumption DEF Taken, TypeInv, ReaderTypes, Working, ReaderPoints, Holding
    <3>3. Mapping(w, Call(w)) = Buf(w) /\ Appended(w, Call(w)) = Pieces
      BY <1>0, <2>3, <3>2 DEF InBuffer, Appended, InHand, Progress, Complete
    <3>4. messages[Buf(w)].args = First(w, Call(w), Pieces)
      BY <2>3, <3>2, <3>3 DEF InBuffer
    <3> QED BY <3>2, <3>4 DEF First, Arguments
  <2>7. ASSUME NEW v \in Wires, v # w
        PROVE  /\ reader'[v].pc = "map" => messages'[reader'[v].buf].args = <<>>
               /\ reader'[v].pc = "run" /\ <<v, reader'[v].call>> \notin rejected' =>
                    messages'[reader'[v].buf].args = Arguments(v, reader'[v].call)
    BY <2>1, <2>2, <2>4, <2>7 DEF InReader, Buf, Call
  <2> QED BY <2>1, <2>2, <2>5, <2>6, <2>7 DEF InReader, Buf, Call
<1>4. ASSUME NEW w \in Wires, NEW c \in Calls, Receive(w, c) PROVE InReader'
  <2>1. /\ \A v \in Wires : v # w => reader'[v] = reader[v]
        /\ reader'[w].pc \in {"idle", "get"}
        /\ UNCHANGED messages /\ rejected \subseteq rejected'
    BY <1>4, ReceiveSteps DEF Accepted, Dismissed
  <2> QED BY <2>1 DEF InReader, Buf, Call
<1>5. ASSUME NEW w \in Wires, NEW c \in Calls, LastYield(w, c) PROVE InReader'
  BY <1>1, <1>5, YieldSteps
<1>6. ASSUME NEW w \in Wires, NewWire(w) PROVE InReader'
  <2>1. /\ reader'[w].pc = "idle" /\ \A v \in Wires : v # w => reader'[v] = reader[v]
        /\ UNCHANGED <<messages, rejected>>
    BY <1>6, NewWireSteps
  <2> QED BY <2>1 DEF InReader, Buf, Call
<1>7. ASSUME NEW w \in Wires, NEW r \in Clones(w), Drop(w, r) \/ DropStep(w, r) PROVE InReader'
  <2>1. Made(w) /\ UNCHANGED <<reader, id, rejected>>
    BY <1>7, DropSteps
  <2>2. r = "reader"
    BY <2>1, OneClone
  <2>3. CASE Swept(w, r)
    <3>1. reader[w].pc \in {"failed", "stopped"}
      BY <1>0, <2>2, <2>3 DEF ReaderUp, ReaderClone, Swept
    <3>2. Held(w) = removed[w][r] /\ messages' = [messages EXCEPT ![removed[w][r]] = None]
      BY <2>2, <2>3, <3>1 DEF Held, Swept
    <3>3. ASSUME NEW v \in Wires, reader[v].pc \in {"map", "run"}
          PROVE  messages'[Buf(v)] = messages[Buf(v)]
      <4>1. v # w /\ Held(v) = Buf(v) /\ Held(v) # None /\ Buf(v) \in Buffers
        BY <1>2, <3>1, <3>3, NoneAssumption
      <4>2. Held(v) # Held(w)
        BY <4>1 DEF Exclusive
      <4> QED BY <3>2, <4>1, <4>2 DEF TypeInv, StoreTypes
    <3> QED BY <2>1, <3>3 DEF InReader, Buf, Call
  <2>4. CASE ~Swept(w, r)
    <3>1. UNCHANGED messages
      BY <1>7, <2>4, DropSteps DEF Marked, Cut, HandedBack
    <3> QED BY <1>1, <2>1, <3>1
  <2> QED BY <2>3, <2>4
<1> QED BY <1>1, <1>3, <1>4, <1>5, <1>6, <1>7, NextKinds, VarsKept

(* What is said of the runs of one call.                                   *)
RunOfOne(w, c) ==
    /\ RunsOwn(w, c)
    /\ ran[w][c] # <<>> => arrived[w][c] = Pieces /\ (Call(w) = c => reader[w].pc \in After)

LEMMA RunOnceStep ==
    ASSUME TypeInv, LeftInv, InReader, RunOnce, [Next]_vars
    PROVE  RunOnce'
<1>0. ReaderUp /\ Progress /\ ran \in [Wires -> [Calls -> Seq(Seq(Piece))]]
  BY DEF LeftInv, TypeInv, HistoryTypes
<1>1. ASSUME \A v \in Wires, c \in Calls : RunOfOne(v, c)' PROVE RunOnce'
  BY <1>1 DEF RunOnce, RunOfOne
<1>2. \A v \in Wires, c \in Calls : RunOfOne(v, c)
  BY DEF RunOnce, RunOfOne
<1>3. CASE UNCHANGED <<reader, arrived, rejected, ran>>
  BY <1>1, <1>2, <1>3 DEF RunOfOne, RunsOwn, Call
<1>4. ASSUME NEW w \in Wires, ReaderStep(w) \/ StopReading(w) PROVE RunOnce'
  <2>1. ReaderDid(w) /\ UNCHANGED <<arrived, rejected>>
    BY <1>4, ReaderSteps
  <2>2. /\ reader'[w].call = reader[w].call
        /\ \A v \in Wires : v # w => reader'[v] = reader[v]
        /\ reader[w].pc \notin {"none", "failed", "stopped"}
    BY <2>1, ReaderMoved
  <2>3. reader[w].pc \in After => reader'[w].pc \in After
    BY <2>1 DEF ReaderDid, Found, Pushed, Mapped, Entered, Added, Closed, Refused, Taken,
                HasRun, Popped, Answered, Halted, Advance, After
  <2>4. ASSUME NEW v \in Wires, NEW c \in Calls, ran'[v][c] = ran[v][c] PROVE RunOfOne(v, c)'
    <3>1. RunsOwn(v, c)'
      BY <1>2, <2>1, <2>4 DEF RunOfOne, RunsOwn
    <3>2. Call(v)' = c /\ Call(v) = c /\ reader[v].pc \in After => reader'[v].pc \in After
      BY <2>2, <2>3
    <3> QED BY <1>2, <2>1, <2>2, <2>4, <3>1, <3>2 DEF RunOfOne, Call
  <2>5. CASE HasRun(w)
    <3>1. /\ reader[w].pc = "run" /\ reader'[w].pc = "pop"
          /\ ran' = [ran EXCEPT ![w][Call(w)] = Append(@, messages[Buf(w)].args)]
      BY <2>5 DEF HasRun, Advance
    <3>2. Call(w) \in Calls /\ arrived[w][Call(w)] = Pieces
      BY <1>0, <3>1, WorkingWire DEF Progress, Complete
    <3>3. PICK d \in Calls : d = Call(w)
      BY <3>2
    <3>4. ran[w][d] = <<>>
      BY <1>2, <3>1, <3>3 DEF RunOfOne, After
    <3>5. ran'[w][d] = <<messages[Buf(w)].args>>
      BY <1>0, <3>1, <3>3, <3>4
    <3>6. <<w, d>> \notin rejected => messages[Buf(w)].args = Arguments(w, d)
      BY <3>1, <3>3 DEF InReader
    <3>7. RunsOwn(w, d)'
      BY <2>1, <3>5, <3>6 DEF RunsOwn, Arguments
    <3>8. RunOfOne(w, d)'
      BY <2>1, <3>1, <3>2, <3>3, <3>7 DEF RunOfOne, After
    <3>9. \A v \in Wires, c \in Calls : v # w \/ c # d => ran'[v][c] = ran[v][c]
      BY <1>0, <3>1, <3>3
    <3> QED BY <1>1, <2>4, <3>8, <3>9
  <2>6. CASE ~HasRun(w)
    <3>1. UNCHANGED ran
      BY <2>1, <2>6 DEF ReaderDid, Found, Pushed, Mapped, Entered, Added, Closed, Refused, Taken,
                        Popped, Answered, Halted
    <3> QED BY <1>1, <2>4, <3>1
  <2> QED BY <2>5, <2>6
<1>5. ASSUME NEW w \in Wires, NEW c \in Calls, Receive(w, c) PROVE RunOnce'
  <2>1. /\ reader[w].pc = "idle" /\ arrived[w][c] < Pieces
        /\ \A d \in Calls : d # c => arrived'[w][d] = arrived[w][d]
        /\ \A v \in Wires : v # w => arrived'[v] = arrived[v] /\ reader'[v] = reader[v]
        /\ Accepted(w, c) \/ Dismissed(w, c)
        /\ UNCHANGED ran
    BY <1>5, ReceiveSteps
  <2>2. rejected \subseteq rejected'
    BY <2>1 DEF Accepted, Dismissed
  <2>3. ran[w][c] = <<>>
    BY <1>2, <2>1, PiecesAssumption DEF RunOfOne
  <2>4. ASSUME NEW v \in Wires, NEW d \in Calls PROVE RunOfOne(v, d)'
    <3>1. RunsOwn(v, d)'
      BY <1>2, <2>1, <2>2 DEF RunOfOne, RunsOwn
    <3>2. CASE v # w
      BY <1>2, <2>1, <3>1, <3>2 DEF RunOfOne, Call
    <3>3. CASE v = w /\ d = c
      BY <2>1, <2>3, <3>1, <3>3 DEF RunOfOne
    <3>4. CASE v = w /\ d # c
      <4>1. Call(w)' = d => Call(w) = d /\ reader'[w] = reader[w]
        BY <2>1, <3>4 DEF Accepted, Dismissed, Call
      <4> QED BY <1>2, <2>1, <3>1, <3>4, <4>1 DEF RunOfOne
    <3> QED BY <3>2, <3>3, <3>4
  <2> QED BY <1>1, <2>4
<1>6. ASSUME NEW w \in Wires, NEW c \in Calls, LastYield(w, c) PROVE RunOnce'
  BY <1>3, <1>6, YieldSteps
<1>7. ASSUME NEW w \in Wires, NewWire(w) PROVE RunOnce'
  <2>1. /\ reader'[w].pc = "idle" /\ reader'[w].call = reader[w].call
        /\ \A v \in Wires : v # w => reader'[v] = reader[v]
        /\ UNCHANGED <<arrived, rejected, ran>>
    BY <1>7, NewWireSteps
  <2> QED BY <1>1, <1>2, <2>1 DEF RunOfOne, RunsOwn, Call, After
<1>8. ASSUME NEW w \in Wires, NEW r \in Clones(w), Drop(w, r) \/ DropStep(w, r) PROVE RunOnce'
  BY <1>3, <1>8, DropSteps
<1> QED BY <1>3, <1>4, <1>5, <1>6, <1>7, <1>8, NextKinds, VarsKept

(* Nothing is known of a wire before it is made, and it stays made.        *)
LEMMA FreshStep ==
    ASSUME TypeInv, LeftInv, Fresh, [Next]_vars
    PROVE  Fresh' /\ \A w \in Wires : Made(w) => Made(w)'
<1>0. ReaderUp /\ ran \in [Wires -> [Calls -> Seq(Seq(Piece))]]
  BY DEF LeftInv, TypeInv, HistoryTypes
<1>1. CASE UNCHANGED <<id, arrived, ran>>
  BY <1>1 DEF Fresh, Made
<1>2. ASSUME NEW w \in Wires, ReaderStep(w) \/ StopReading(w)
      PROVE  Fresh' /\ \A v \in Wires : Made(v) => Made(v)'
  <2>1. ReaderDid(w) /\ UNCHANGED <<id, arrived>>
    BY <1>2, ReaderSteps
  <2>2. Made(w)
    BY <1>0, <2>1, ReaderMoved, WorkingWire
  <2>3. \A v \in Wires : v # w => ran'[v] = ran[v]
    BY <1>0, <2>1 DEF ReaderDid, Found, Pushed, Mapped, Entered, Added, Closed, Refused, Taken,
                      HasRun, Popped, Answered, Halted
  <2> QED BY <2>1, <2>2, <2>3 DEF Fresh, Made
<1>3. ASSUME NEW w \in Wires, NEW c \in Calls, Receive(w, c)
      PROVE  Fresh' /\ \A v \in Wires : Made(v) => Made(v)'
  <2>1. /\ reader[w].pc = "idle" /\ \A v \in Wires : v # w => arrived'[v] = arrived[v]
        /\ UNCHANGED <<id, ran>>
    BY <1>3, ReceiveSteps
  <2>2. Made(w)
    BY <1>0, <2>1, WorkingWire
  <2> QED BY <2>1, <2>2 DEF Fresh, Made
<1>4. ASSUME NEW w \in Wires, NEW c \in Calls, LastYield(w, c)
      PROVE  Fresh' /\ \A v \in Wires : Made(v) => Made(v)'
  BY <1>1, <1>4, YieldSteps
<1>5. ASSUME NEW w \in Wires, NewWire(w)
      PROVE  Fresh' /\ \A v \in Wires : Made(v) => Made(v)'
  BY <1>5, NewWireSteps DEF Fresh
<1>6. ASSUME NEW w \in Wires, NEW r \in Clones(w), Drop(w, r) \/ DropStep(w, r)
      PROVE  Fresh' /\ \A v \in Wires : Made(v) => Made(v)'
  BY <1>1, <1>6, DropSteps
<1> QED BY <1>1, <1>2, <1>3, <1>4, <1>5, <1>6, NextKinds, VarsKept

LEMMA OwnHolds == ASSUME Apart PROVE Spec => []OwnInv
<1>1. Init => OwnInv
  <2> SUFFICES ASSUME Init PROVE OwnInv
    OBVIOUS
  <2>1. \A w \in Wires : /\ ~Made(w) /\ reader[w].pc = "none" /\ Held(w) = None
                         /\ \A c \in Calls : arrived[w][c] = 0 /\ ran[w][c] = <<>>
    BY DEF Init, Made, Held, Clones
  <2>2. \A key \in CallKeys : call_to_buffer_map[key] = None
    BY DEF Init, CallKeys
  <2>3. Fresh /\ Exclusive /\ InBuffer /\ InReader /\ RunOnce
    BY <2>1, <2>2 DEF Fresh, Exclusive, InBuffer, Reads, InReader, RunOnce, RunsOwn
  <2> QED BY <2>3 DEF OwnInv
<1>2. TypeInv /\ LeftInv /\ UniqueWires /\ UniqueWires' /\ OwnInv /\ [Next]_vars => OwnInv'
  <2> SUFFICES ASSUME TypeInv, LeftInv, UniqueWires, UniqueWires', OwnInv, [Next]_vars
               PROVE  OwnInv'
    OBVIOUS
  <2>1. Fresh' /\ \A w \in Wires : Made(w) => Made(w)'
    BY FreshStep DEF OwnInv
  <2>2. NoneStarted' => NoneStarted
    BY <2>1 DEF NoneStarted
  <2>3. ASSUME NoneStarted PROVE Exclusive' /\ InBuffer' /\ InReader' /\ RunOnce'
    <3>1. Fresh /\ Exclusive /\ InBuffer /\ InReader /\ RunOnce /\ ReaderUp /\ MapSeen
      BY <2>3 DEF OwnInv, LeftInv
    <3> QED BY <2>3, <3>1, ExclusiveStep, InBufferStep, InReaderStep, RunOnceStep
  <2> QED BY <2>1, <2>2, <2>3 DEF OwnInv
<1> QED BY <1>1, <1>2, TypesHold, LeftHolds, UniqueWiresHolds, PTL DEF Spec

(* On an interface that has either one started wire or wires that are not  *)
(* started, a procedure is run once at most for each call of a wire that   *)
(* is not started, and with exactly the arguments of that call, whatever   *)
(* the others do with the same indices: wires have identifiers "to make    *)
(* sure [their] procedure calls do not overlap" (get_id).                  *)
THEOREM OwnArgumentsHold == ASSUME Apart PROVE Spec => []OwnArguments
<1>1. ASSUME IdInv, OwnInv PROVE OwnArguments
  <2>1. CASE NoneStarted
    BY <1>1, <2>1 DEF OwnInv, RunOnce, OwnArguments
  <2>2. CASE ~NoneStarted
    <3>1. \A w \in Wires \ Started : ~Made(w)
      BY <1>1, <2>2 DEF IdInv, NoneStarted, Alone
    <3> QED BY <1>1, <3>1 DEF OwnInv, Fresh, OwnArguments, RunsOwn
  <2> QED BY <2>1, <2>2
<1> QED BY <1>1, IdsHold, OwnHolds, PTL
=============================================================================
