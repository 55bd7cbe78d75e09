------------------------------ MODULE WireProof ------------------------------
(***************************************************************************)
(* Proofs about Wire, for any calls, procedures, limits and buffers: what  *)
(* a procedure is given, what a handle returns, and that the two wires     *)
(* implement RemoteCalls.                                                  *)
(*                                                                         *)
(* The argument follows a call round.  Calls have different keys.  What is *)
(* on its way to a side is one sequence, what the peer has written and     *)
(* then what it has queued; on its way to a module that still reads are    *)
(* the calls that have not run, each once; on its way to a host that still *)
(* reads are the answers of the calls that have, each part once and after  *)
(* the part before it.  The host's mapping leads a response to the buffer  *)
(* of its call until it is complete, so what a buffer holds is a beginning *)
(* of the answer, and all of it when the lock is complete.                 *)
(***************************************************************************)
EXTENDS Wire, SequenceTheorems, FiniteSetTheorems, TLAPS

(* No piece of a call is dropped while the module reads: calls come in one *)
(* piece, or nothing ends the connection but the module, and its limit is  *)
(* not reached.                                                            *)
Undisturbed ==
    /\ MaySignal = {}
    /\ "host" \notin MayCrash
    /\ Cardinality(Calls) <= MaxOngoing
PiecesKept == Partial = {} \/ Undisturbed

Parts == Seq(Calls) \X Nat
Messages ==
    [type : {"call"}, key : Keys, body : Seq(Calls), last : BOOLEAN]
    \cup [type : {"response"}, key : Keys, body : Parts, last : BOOLEAN]
    \cup {Termination}
LockStates == {"Incomplete", "Complete", "Poisoned"}
ReaderStates == {"running", "unmap", "sweep", "leave", "drop", "stopped"}
WriterStates == {"idle", "writing", "leave", "drop", "stopped"}

Keyed(k) == caller[k].key # None
Pushed(k) == Keyed(k) /\ caller[k].pc # "push"
KeyedFor(p) == {k \in Calls : Keyed(k) /\ Procedure[k] = p}
Ran(k) == \E i \in DOMAIN runs : runs[i] = <<k>>
Length(k) == IF Procedure[k] \in Streaming THEN Yields ELSE 1

-----------------------------------------------------------------------------
(* Typing.                                                                 *)
HostTypes ==
    /\ remote_call_counter \in [Procedures -> Nat \cup {None}]
    /\ response_idx_map \in [Keys -> Buffers \cup {None}]
    /\ buffers \in [Buffers -> Calls \cup {None}]
    /\ complete_lock \in [Calls -> LockStates]
    /\ received \in [Calls -> Seq(Parts)]
    /\ idle_call_handles \in [Buffers -> Calls \cup {None}]
    /\ caller \in [Calls -> [pc : CallerStates, key : Keys \cup {None},
                             buf : Buffers \cup {None}, got : Seq(Parts)]]
    /\ \A k \in Calls :
         caller[k].pc \in Answered \cup {"register", "wait"} => caller[k].buf \in Buffers

ModuleTypes ==
    /\ ongoing_procedures \in SUBSET Keys
    /\ arguments \in [Keys -> Seq(Calls) \cup {None}]
    /\ abandoned \in SUBSET Keys
    /\ streams \in SUBSET [key : Keys, args : Seq(Calls), next : 1 .. Yields]
    /\ runs \in Seq(Seq(Calls))

TransportTypes ==
    /\ queue \in [Sides -> Seq(Messages)]
    /\ stream \in [Sides -> Seq(Messages)]

(* A reader that unmaps has a last response before it.                     *)
StatusTypes ==
    /\ thread \in [Sides -> [reader : ReaderStates, writer : WriterStates]]
    /\ terminated \in [Sides -> BOOLEAN]
    /\ gone \in SUBSET Sides
    /\ thread["module"].reader # "unmap"
    /\ thread["host"].reader = "unmap" =>
         /\ "host" \notin gone
         /\ stream["module"] # <<>>
         /\ Message("host").type = "response" /\ Message("host").last

(* A call that has an index has one of its own procedure, and no procedure *)
(* has used more indices than calls have been made of it.                  *)
KeyTypes ==
    \A k \in Calls :
      /\ caller[k].pc \in {"idle", "first"} => ~Keyed(k)
      /\ caller[k].pc \notin {"idle", "first", "failed"} => Keyed(k)
      /\ Keyed(k) => caller[k].key[1] = Procedure[k]
CounterBound ==
    \A p \in Procedures :
      remote_call_counter[p] # None =>
        remote_call_counter[p] + 1 <= Cardinality(KeyedFor(p))

Types == HostTypes /\ ModuleTypes /\ TransportTypes /\ StatusTypes /\ KeyTypes /\ CounterBound

-----------------------------------------------------------------------------
(* Calls have different keys, if first calls of a procedure do not overlap.*)
KeysDiffer ==
    /\ \A k \in Calls : Keyed(k) =>
         /\ remote_call_counter[Procedure[k]] # None
         /\ caller[k].key[2] <= remote_call_counter[Procedure[k]]
    /\ \A j, k \in Calls : Keyed(j) /\ caller[j].key = caller[k].key => j = k
    /\ \A k \in Calls : caller[k].pc = "first" => remote_call_counter[Procedure[k]] = None
    /\ \A j, k \in Calls :
         caller[j].pc = "first" /\ caller[k].pc = "first" /\ Procedure[j] = Procedure[k] => j = k

(* What is on its way to each side, and who still reads it.                *)
Outgoing(side) == stream[side] \o queue[side]
ToModule == Outgoing("host")
ToHost == Outgoing("module")
Reading(side) == side \notin gone /\ thread[side].reader \in {"running", "unmap"}
ModuleReading == Reading("module")
HostReading == Reading("host")
Unmapping == thread["host"].reader = "unmap"

FirstPiece(k) == CallMessage(caller[k].key, <<k>>, FALSE)
FinalPiece(k) == CallMessage(caller[k].key, IF k \in Partial THEN <<>> ELSE <<k>>, TRUE)
Response(k, i) == ResponseMessage(caller[k].key, Part(k, i), i = Length(k))

Unsent == {"idle", "first", "push", "send"}
Unended == Unsent \cup {"end"}

(* A call that is on its way is one that was sent and has not run.         *)
CallsDue ==
    {FinalPiece(k) : k \in {j \in Calls : Keyed(j) /\ caller[j].pc \notin Unended /\ ~Ran(j)}}
    \cup {FirstPiece(k) : k \in {j \in Calls \cap Partial : Keyed(j) /\ caller[j].pc \notin Unsent}}
    \cup {Termination : side \in MaySignal}
CallsOnTheirWay == \A p \in 1 .. Len(ToModule) : ToModule[p] \in CallsDue

CallsOnce ==
    \A p, q \in 1 .. Len(ToModule) :
      ToModule[p] = ToModule[q] /\ ToModule[p] # Termination => p = q

(* The arguments that are accumulated are the first piece of a call, which *)
(* is not on its way any more ...                                          *)
ArgumentsArrived ==
    \A key \in Keys : arguments[key] # None =>
      \E k \in Partial \cap Calls :
        /\ Keyed(k) /\ key = caller[k].key
        /\ arguments[key] = <<k>>
        /\ caller[k].pc \notin Unsent
        /\ \A p \in 1 .. Len(ToModule) : ToModule[p] # FirstPiece(k)

(* ... and the last piece of a call never arrives without it.              *)
Started(k, p) ==
    \/ arguments[caller[k].key] = <<k>>
    \/ \E q \in 1 .. p : ToModule[q] = FirstPiece(k)
PiecesInOrder ==
    \A k \in Partial \cap Calls :
      /\ caller[k].pc = "end" => Started(k, Len(ToModule))
      /\ \A p \in 1 .. Len(ToModule) :
           Keyed(k) /\ ToModule[p] = FinalPiece(k) => Started(k, p - 1)

OngoingKeyed == \A key \in ongoing_procedures : \E k \in Calls : Keyed(k) /\ caller[k].key = key

Calm ==
    /\ "host" \notin gone
    /\ \A side \in Sides : ~terminated[side] /\ thread[side].writer \in {"idle", "writing"}
    /\ thread["host"].reader \in {"running", "unmap"}

CallInv ==
    ModuleReading =>
      /\ CallsOnTheirWay /\ CallsOnce /\ ArgumentsArrived /\ PiecesInOrder
      /\ Partial # {} => Calm

(* Only calls that were sent have run, each with what it sent and once.    *)
RunInv ==
    /\ RunsIntact
    /\ \A k \in Calls : Ran(k) => Keyed(k) /\ caller[k].pc \notin Unended

-----------------------------------------------------------------------------
(* Streaming procedures have run and have a part to yield.                 *)
StreamInv ==
    /\ \A s \in streams : \E k \in Calls :
         /\ Ran(k)
         /\ Procedure[k] \in Streaming
         /\ s.key = caller[k].key /\ s.args = <<k>>
    /\ \A s, t \in streams : s.key = t.key => s = t
    /\ \A s \in streams : s.key \in ongoing_procedures

(* An answer that is on its way is a part that has not been received, but  *)
(* for the last part while the host removes the mapping.                   *)
AnswersDue ==
    {Response(x[1], x[2]) :
        x \in {y \in Calls \X Nat : /\ y[2] \in 1 .. Length(y[1])
                                      /\ Ran(y[1])
                                      /\ Len(received[y[1]]) < y[2]}}
    \cup {Termination : side \in MaySignal}
AnswersOnTheirWay ==
    \A p \in 1 .. Len(ToHost) : ToHost[p] \in AnswersDue \/ (p = 1 /\ Unmapping)

AnswersOnce ==
    \A p, q \in 1 .. Len(ToHost) :
      ToHost[p] = ToHost[q] /\ ToHost[p] # Termination => p = q

(* The part before the i-th of the answer to k has arrived, or it is at    *)
(* one of the first n positions on its way.                                *)
Preceded(k, i, n) ==
    \/ i = 1
    \/ Len(received[k]) >= i - 1
    \/ \E q \in 1 .. n : ToHost[q] = Response(k, i - 1)

AnswersInOrder ==
    \A k \in Calls : \A i \in 1 .. Length(k) : \A p \in 1 .. Len(ToHost) :
      Ran(k) /\ ToHost[p] = Response(k, i) => Preceded(k, i, p - 1)

NextPart ==
    \A s \in streams : \A k \in Calls : Ran(k) /\ s.key = caller[k].key =>
      /\ Len(received[k]) < s.next
      /\ Preceded(k, s.next, Len(ToHost))
      /\ \A i \in s.next .. Length(k) : \A p \in 1 .. Len(ToHost) : ToHost[p] # Response(k, i)

AnswerInv ==
    HostReading =>
      /\ AnswersOnTheirWay /\ AnswersOnce /\ AnswersInOrder /\ NextPart

(* What a buffer has received is a beginning of the answer, and all of it  *)
(* once the lock is complete.                                              *)
ReceivedInv ==
    /\ \A k \in Calls :
         /\ Len(received[k]) <= Length(k)
         /\ \A i \in 1 .. Len(received[k]) : received[k][i] = Part(k, i)
         /\ received[k] # <<>> => Ran(k)
         /\ complete_lock[k] = "Complete" => Len(received[k]) = Length(k)
         /\ caller[k].pc \in Answered => caller[k].got = Answer(k) /\ complete_lock[k] = "Complete"
    /\ Unmapping => \E k \in Calls : Message("host") = Response(k, Length(k))
                                       /\ Ran(k) /\ complete_lock[k] = "Complete"

(* A buffer that a mapping or a handle denotes is that of their call, and  *)
(* the mapping is there until the lock is complete.                        *)
BufferInv ==
    \A k \in Calls :
      /\ Pushed(k) /\ complete_lock[k] # "Complete" => response_idx_map[caller[k].key] # None
      /\ Pushed(k) /\ caller[k].pc \notin Answered /\ response_idx_map[caller[k].key] # None =>
           buffers[response_idx_map[caller[k].key]] = k
      /\ caller[k].pc \in {"register", "wait"} => buffers[caller[k].buf] = k

IInv ==
    /\ Types /\ KeysDiffer
    /\ RunInv /\ CallInv /\ OngoingKeyed
    /\ StreamInv /\ AnswerInv /\ ReceivedInv
    /\ BufferInv /\ NoHandlePanic

-----------------------------------------------------------------------------
(* The steps of one side's threads that do not read a call or a response.  *)
SideStep(side) ==
    \/ ReceiveTermination(side) \/ EndOfFile(side) \/ SweepTerminated(side)
    \/ \E role \in Roles : Leave(side, role) \/ SweepDropped(side, role)
    \/ Flush(side) \/ WriteMessage(side) \/ FlushEnds(side)
    \/ SeeTermination(side) \/ WriteFails(side) \/ SignalTermination(side) \/ Crash(side)

(* The kinds of steps there are.                                           *)
LEMMA NextSteps ==
    ASSUME [Next]_vars
    PROVE  \/ UNCHANGED vars
           \/ \E k \in Calls : CallStep(k)
           \/ ModuleReads
           \/ HostReads
           \/ YieldStep
           \/ \E side \in Sides : SideStep(side)
BY DEF Next, ReaderStep, WriterStep, SideStep, Roles

(* A side's own step leaves alone what callers know, what has been         *)
(* received and what has run; it poisons locks if it touches them, and     *)
(* streams only go when the module does.                                   *)
LEMMA SideStepKeeps ==
    ASSUME NEW side \in Sides, SideStep(side)
    PROVE  /\ UNCHANGED <<remote_call_counter, response_idx_map, buffers, received,
                          idle_call_handles, caller, runs>>
           /\ complete_lock' \in {complete_lock, Poisoned}
           /\ \/ UNCHANGED <<ongoing_procedures, abandoned, streams>>
              \/ /\ ongoing_procedures' = {} /\ abandoned' = {} /\ streams' = {}
                 /\ Crash("module")
           /\ \/ UNCHANGED arguments
              \/ arguments' = [key \in Keys |-> IF key \in ongoing_procedures THEN None
                                                ELSE arguments[key]]
              \/ arguments' = [key \in Keys |-> None] /\ Crash("module")
<1> USE DEF host, module, transport, status, Roles
<1>1. CASE \/ ReceiveTermination(side) \/ EndOfFile(side) \/ Flush(side) \/ WriteMessage(side)
           \/ FlushEnds(side) \/ SeeTermination(side) \/ WriteFails(side)
           \/ SignalTermination(side) \/ \E role \in Roles : Leave(side, role)
  BY <1>1 DEF ReceiveTermination, EndOfFile, Flush, WriteMessage, FlushEnds, SeeTermination,
              WriteFails, SignalTermination, Leave
<1>2. CASE SweepTerminated(side) \/ \E role \in Roles : SweepDropped(side, role)
  <2>1. Sweep(side) /\ UNCHANGED <<queue, stream, terminated, gone>>
    BY <1>2 DEF SweepTerminated, SweepDropped
  <2> QED BY <2>1 DEF Sweep
<1>3. CASE Crash(side)
  <2>1. CASE side = "module"
    BY <1>3, <2>1 DEF Crash
  <2>2. CASE side # "module"
    BY <1>3, <2>2 DEF Crash
  <2> QED BY <2>1, <2>2
<1> QED BY <1>1, <1>2, <1>3 DEF SideStep

(* A caller's step leaves alone what the module does, what it has received *)
(* and the wire's state.                                                   *)
LEMMA CallStepKeeps ==
    ASSUME NEW k \in Calls, CallStep(k)
    PROVE  /\ UNCHANGED <<complete_lock, received, ongoing_procedures, arguments, abandoned,
                          streams, runs, stream, thread, terminated, gone>>
           /\ "host" \notin gone
<1> USE DEF host, module, transport, status, At
<1>1. CASE Refuse(k) \/ TakeIndex(k) \/ FindNoIndex(k) \/ InsertIndex(k) \/ PushResponse(k)
  BY <1>1 DEF Refuse, TakeIndex, FindNoIndex, InsertIndex, PushResponse
<1>2. CASE SendWhole(k) \/ SendPiece(k) \/ LookUpResponse(k) \/ Register(k)
  BY <1>2 DEF SendWhole, SendPiece, LookUpResponse, Register
<1>3. CASE Return(k) \/ FailPoisoned(k) \/ Unregister(k)
  BY <1>3 DEF Return, FailPoisoned, Unregister
<1> QED BY <1>1, <1>2, <1>3 DEF CallStep

(* A read or a yield of the module leaves the host alone.                  *)
LEMMA ModuleStepKeeps ==
    ASSUME ModuleReads \/ YieldStep
    PROVE  UNCHANGED <<remote_call_counter, response_idx_map, buffers, complete_lock, received,
                       idle_call_handles, caller, terminated, gone>>
BY DEF ModuleReads, YieldStep, RejectCall, ReceiveArguments, RunStandard, StartStreaming,
       NoSuchProcedure, Yield, YieldFails, host, module, transport, status

(* A read of the host leaves its callers and the module alone.             *)
LEMMA HostReadKeeps ==
    ASSUME HostReads
    PROVE  UNCHANGED <<remote_call_counter, buffers, idle_call_handles, caller,
                       ongoing_procedures, arguments, abandoned, streams, runs, queue,
                       terminated, gone>>
BY DEF HostReads, ReceiveResponse, UnmapResponse, NoResponseBuffer, host, module

-----------------------------------------------------------------------------
(* Moving a caller on changes its program point and nothing else.          *)
LEMMA GotoMoves ==
    ASSUME HostTypes, NEW k \in Calls, NEW where \in CallerStates, Goto(k, where)
    PROVE  /\ caller' \in [Calls -> [pc : CallerStates, key : Keys \cup {None},
                                     buf : Buffers \cup {None}, got : Seq(Parts)]]
           /\ caller'[k].pc = where
           /\ \A j \in Calls : /\ caller'[j].key = caller[j].key
                               /\ caller'[j].buf = caller[j].buf
                               /\ caller'[j].got = caller[j].got
                               /\ j # k => caller'[j].pc = caller[j].pc
BY DEF HostTypes, Goto

(* So does learning a key, a buffer or an answer, apart from that field.   *)
LEMMA KeyMoves ==
    ASSUME HostTypes, NEW k \in Calls, NEW where \in CallerStates, NEW key \in Keys,
           caller' = [caller EXCEPT ![k].pc = where, ![k].key = key]
    PROVE  /\ caller' \in [Calls -> [pc : CallerStates, key : Keys \cup {None},
                                     buf : Buffers \cup {None}, got : Seq(Parts)]]
           /\ caller'[k].pc = where /\ caller'[k].key = key
           /\ caller'[k].buf = caller[k].buf /\ caller'[k].got = caller[k].got
           /\ \A j \in Calls : j # k => caller'[j] = caller[j]
<1>1. caller \in [Calls -> [pc : CallerStates, key : Keys \cup {None},
                            buf : Buffers \cup {None}, got : Seq(Parts)]]
  BY DEF HostTypes
<1> QED BY <1>1

LEMMA BufMoves ==
    ASSUME HostTypes, NEW k \in Calls, NEW where \in CallerStates, NEW b \in Buffers,
           caller' = [caller EXCEPT ![k].pc = where, ![k].buf = b]
    PROVE  /\ caller' \in [Calls -> [pc : CallerStates, key : Keys \cup {None},
                                     buf : Buffers \cup {None}, got : Seq(Parts)]]
           /\ caller'[k].pc = where /\ caller'[k].buf = b
           /\ caller'[k].key = caller[k].key /\ caller'[k].got = caller[k].got
           /\ \A j \in Calls : j # k => caller'[j] = caller[j]
<1>1. caller \in [Calls -> [pc : CallerStates, key : Keys \cup {None},
                            buf : Buffers \cup {None}, got : Seq(Parts)]]
  BY DEF HostTypes
<1> QED BY <1>1

LEMMA GotMoves ==
    ASSUME HostTypes, NEW k \in Calls, NEW where \in CallerStates, NEW got \in Seq(Parts),
           caller' = [caller EXCEPT ![k].pc = where, ![k].got = got]
    PROVE  /\ caller' \in [Calls -> [pc : CallerStates, key : Keys \cup {None},
                                     buf : Buffers \cup {None}, got : Seq(Parts)]]
           /\ caller'[k].pc = where /\ caller'[k].got = got
           /\ caller'[k].key = caller[k].key /\ caller'[k].buf = caller[k].buf
           /\ \A j \in Calls : j # k => caller'[j] = caller[j]
<1>1. caller \in [Calls -> [pc : CallerStates, key : Keys \cup {None},
                            buf : Buffers \cup {None}, got : Seq(Parts)]]
  BY DEF HostTypes
<1> QED BY <1>1

(* What is at the head of a sequence of messages, and what is left.        *)
LEMMA HeadMessage ==
    ASSUME TransportTypes, NEW side \in Sides, stream[side] # <<>>
    PROVE  /\ Head(stream[side]) \in Messages
           /\ Tail(stream[side]) \in Seq(Messages)
BY HeadTailProperties DEF TransportTypes

LEMMA HeadQueued ==
    ASSUME TransportTypes, NEW side \in Sides, queue[side] # <<>>
    PROVE  /\ Head(queue[side]) \in Messages
           /\ Tail(queue[side]) \in Seq(Messages)
BY HeadTailProperties DEF TransportTypes

LEMMA CallHead ==
    ASSUME TransportTypes, Reads("module", "call")
    PROVE  /\ Message("module") \in [type : {"call"}, key : Keys, body : Seq(Calls), last : BOOLEAN]
           /\ stream["host"] # <<>>
<1>1. Message("module") \in Messages /\ Message("module").type = "call" /\ stream["host"] # <<>>
  BY HeadMessage DEF Reads, Message, Other, Sides
<1> QED BY <1>1 DEF Messages, Termination

LEMMA ResponseHead ==
    ASSUME TransportTypes, stream["module"] # <<>>, Message("host").type = "response"
    PROVE  Message("host") \in [type : {"response"}, key : Keys, body : Parts, last : BOOLEAN]
<1>1. Message("host") \in Messages
  BY HeadMessage DEF Message, Other, Sides
<1> QED BY <1>1 DEF Messages, Termination

LEMMA AccumulatedTyped ==
    ASSUME ModuleTypes, NEW key \in Keys, NEW args \in Seq(Calls)
    PROVE  Accumulated(key, args) \in Seq(Calls)
BY ConcatProperties DEF ModuleTypes, Accumulated

-----------------------------------------------------------------------------
(* A call that has its index keeps it, and a call gets one only by taking  *)
(* the next or by inserting the first.                                     *)
LEMMA KeysStay ==
    ASSUME HostTypes, [Next]_vars, \A k \in Calls : ~TakeIndex(k) /\ ~InsertIndex(k)
    PROVE  /\ \A j \in Calls : caller'[j].key = caller[j].key
           /\ UNCHANGED remote_call_counter
<1>1. ASSUME NEW k \in Calls, CallStep(k)
      PROVE  /\ \A j \in Calls : caller'[j].key = caller[j].key
             /\ UNCHANGED remote_call_counter
  <2>1. CASE Refuse(k) \/ FindNoIndex(k) \/ PushResponse(k) \/ SendWhole(k) \/ Register(k)
             \/ FailPoisoned(k) \/ Unregister(k)
    <3>1. UNCHANGED remote_call_counter /\ \E where \in CallerStates : Goto(k, where)
      BY <2>1 DEF Refuse, FindNoIndex, PushResponse, SendWhole, Register, FailPoisoned,
                  Unregister, CallerStates
    <3> QED BY <3>1, GotoMoves
  <2>2. CASE SendPiece(k)
    <3>1. UNCHANGED remote_call_counter /\ \E where \in CallerStates : Goto(k, where)
      BY <2>2 DEF SendPiece, CallerStates
    <3> QED BY <3>1, GotoMoves
  <2>3. CASE LookUpResponse(k)
    <3>1. /\ UNCHANGED remote_call_counter
          /\ \/ \E where \in CallerStates : Goto(k, where)
             \/ \E b : caller' = [caller EXCEPT ![k].pc = "register", ![k].buf = b]
      BY <2>3 DEF LookUpResponse, CallerStates
    <3>2. ASSUME NEW b, caller' = [caller EXCEPT ![k].pc = "register", ![k].buf = b]
          PROVE  \A j \in Calls : caller'[j].key = caller[j].key
      BY <3>2 DEF HostTypes
    <3> QED BY <3>1, <3>2, GotoMoves
  <2>4. CASE Return(k)
    <3>1. /\ UNCHANGED remote_call_counter
          /\ \E x : caller' = [caller EXCEPT ![k].pc = "unregister", ![k].got = x]
      BY <2>4 DEF Return
    <3> QED BY <3>1 DEF HostTypes
  <2> QED BY <1>1, <2>1, <2>2, <2>3, <2>4 DEF CallStep
<1>2. CASE UNCHANGED <<caller, remote_call_counter>>
  BY <1>2
<1>3. (\A k \in Calls : ~CallStep(k)) => UNCHANGED <<caller, remote_call_counter>>
  BY NextSteps, SideStepKeeps, ModuleStepKeeps, HostReadKeeps DEF vars, host
<1> QED BY <1>1, <1>2, <1>3

(* The next index is one of those there are.                               *)
LEMMA NextIndex ==
    ASSUME HostTypes, CounterBound, NEW p \in Procedures, remote_call_counter[p] # None
    PROVE  remote_call_counter[p] + 1 \in Indices /\ remote_call_counter[p] \in Nat
<1>1. Cardinality(KeyedFor(p)) \in Nat /\ Cardinality(KeyedFor(p)) <= Cardinality(Calls)
      /\ Cardinality(Calls) \in Nat
  BY FS_Subset, FS_CardinalityType, CallsAssumption DEF KeyedFor
<1>2. remote_call_counter[p] + 1 <= Cardinality(KeyedFor(p)) /\ remote_call_counter[p] \in Nat
  BY DEF CounterBound, HostTypes
<1> QED BY <1>1, <1>2 DEF Indices

-----------------------------------------------------------------------------
(* Every step keeps every variable's type.                                 *)
LEMMA HostTypesStep ==
    ASSUME Types, [Next]_vars
    PROVE  HostTypes'
<1> USE CallsAssumption DEF Types, CallerStates, Answered
<1> DEFINE Shape == [pc : CallerStates, key : Keys \cup {None}, buf : Buffers \cup {None},
                     got : Seq(Parts)]
<1>1. ASSUME NEW k \in Calls, CallStep(k) PROVE HostTypes'
  <2>1. UNCHANGED <<complete_lock, received>>
    BY <1>1, CallStepKeeps
  <2>0. ASSUME UNCHANGED <<remote_call_counter, response_idx_map, buffers, idle_call_handles>>,
               NEW where \in CallerStates \ (Answered \cup {"register", "wait"}), Goto(k, where)
        PROVE  HostTypes'
    <3>1. /\ caller' \in [Calls -> Shape] /\ caller'[k].pc = where
          /\ \A j \in Calls : /\ caller'[j].buf = caller[j].buf
                              /\ j # k => caller'[j].pc = caller[j].pc
      BY <2>0, GotoMoves
    <3>2. \A j \in Calls : caller'[j].pc \in Answered \cup {"register", "wait"} =>
             caller'[j].buf \in Buffers
      BY <3>1 DEF HostTypes
    <3> QED BY <2>0, <2>1, <3>1, <3>2 DEF HostTypes
  <2>2. CASE Refuse(k) \/ FindNoIndex(k) \/ SendWhole(k) \/ FailPoisoned(k)
    <3>1. /\ UNCHANGED <<remote_call_counter, response_idx_map, buffers, idle_call_handles>>
          /\ \E where \in CallerStates \ (Answered \cup {"register", "wait"}) : Goto(k, where)
      BY <2>2 DEF Refuse, FindNoIndex, SendWhole, FailPoisoned
    <3> QED BY <2>0, <3>1
  <2>3. CASE SendPiece(k)
    <3>1. /\ UNCHANGED <<remote_call_counter, response_idx_map, buffers, idle_call_handles>>
          /\ \E where \in CallerStates \ (Answered \cup {"register", "wait"}) : Goto(k, where)
      BY <2>3 DEF SendPiece
    <3> QED BY <2>0, <3>1
  <2>4. CASE TakeIndex(k)
    <3> DEFINE p == Procedure[k]
    <3>1. p \in Procedures /\ remote_call_counter[p] # None
      BY <2>4 DEF TakeIndex, Procedures
    <3>2. remote_call_counter[p] + 1 \in Indices /\ remote_call_counter[p] \in Nat
      BY <3>1, NextIndex
    <3>3. <<p, remote_call_counter[p] + 1>> \in Keys
      BY <3>1, <3>2 DEF Keys
    <3>4. /\ remote_call_counter' = [remote_call_counter EXCEPT ![p] = @ + 1]
          /\ caller' = [caller EXCEPT ![k].pc = "push", ![k].key = <<p, remote_call_counter[p] + 1>>]
          /\ UNCHANGED <<response_idx_map, buffers, idle_call_handles>>
      BY <2>4 DEF TakeIndex
    <3> HIDE DEF p
    <3>5. remote_call_counter' \in [Procedures -> Nat \cup {None}]
      BY <3>1, <3>2, <3>4 DEF HostTypes
    <3>6. /\ caller' \in [Calls -> Shape] /\ caller'[k].pc = "push"
          /\ \A j \in Calls : j # k => caller'[j] = caller[j]
      BY <3>3, <3>4, KeyMoves
    <3>7. \A j \in Calls : caller'[j].pc \in Answered \cup {"register", "wait"} =>
             caller'[j].buf \in Buffers
      BY <3>6 DEF HostTypes
    <3> QED BY <2>1, <3>4, <3>5, <3>6, <3>7 DEF HostTypes
  <2>5. CASE InsertIndex(k)
    <3> DEFINE p == Procedure[k]
    <3>1. p \in Procedures /\ <<p, 0>> \in Keys
      <4>1. Cardinality(Calls) \in Nat
        BY FS_CardinalityType
      <4> QED BY <4>1 DEF Keys, Indices, Procedures
    <3>2. /\ remote_call_counter' = [remote_call_counter EXCEPT ![p] = 0]
          /\ caller' = [caller EXCEPT ![k].pc = "push", ![k].key = <<p, 0>>]
          /\ UNCHANGED <<response_idx_map, buffers, idle_call_handles>>
      BY <2>5 DEF InsertIndex
    <3> HIDE DEF p
    <3>3. remote_call_counter' \in [Procedures -> Nat \cup {None}]
      BY <3>1, <3>2 DEF HostTypes
    <3>4. /\ caller' \in [Calls -> Shape] /\ caller'[k].pc = "push"
          /\ \A j \in Calls : j # k => caller'[j] = caller[j]
      BY <3>1, <3>2, KeyMoves
    <3>5. \A j \in Calls : caller'[j].pc \in Answered \cup {"register", "wait"} =>
             caller'[j].buf \in Buffers
      BY <3>4 DEF HostTypes
    <3> QED BY <2>1, <3>2, <3>3, <3>4, <3>5 DEF HostTypes
  <2>6. CASE PushResponse(k)
    <3>1. Goto(k, "send") /\ UNCHANGED <<remote_call_counter, idle_call_handles>>
      BY <2>6 DEF PushResponse
    <3>2. PICK b \in Buffers : /\ buffers' = [buffers EXCEPT ![b] = k]
                               /\ response_idx_map' = [response_idx_map EXCEPT ![caller[k].key] = b]
      BY <2>6 DEF PushResponse
    <3>3. /\ buffers' \in [Buffers -> Calls \cup {None}]
          /\ response_idx_map' \in [Keys -> Buffers \cup {None}]
      BY <3>2 DEF HostTypes
    <3> QED BY <2>1, <3>1, <3>3, GotoMoves DEF HostTypes
  <2>7. CASE LookUpResponse(k)
    <3> DEFINE b == response_idx_map[caller[k].key]
    <3>1. UNCHANGED <<remote_call_counter, response_idx_map, buffers, idle_call_handles>>
      BY <2>7 DEF LookUpResponse
    <3>2. CASE Goto(k, "failed") \/ Goto(k, "lost")
      BY <2>1, <3>1, <3>2, GotoMoves DEF HostTypes
    <3>3. CASE b # None /\ caller' = [caller EXCEPT ![k].pc = "register", ![k].buf = b]
      <4>1. caller[k].key \in Keys
        BY <2>7 DEF LookUpResponse, At, KeyTypes, Keyed, HostTypes
      <4>2. b \in Buffers
        BY <3>3, <4>1 DEF HostTypes
      <4> HIDE DEF b
      <4>3. /\ caller' \in [Calls -> Shape] /\ caller'[k].buf = b
            /\ \A j \in Calls : j # k => caller'[j] = caller[j]
        BY <3>3, <4>2, BufMoves
      <4>4. \A j \in Calls : caller'[j].pc \in Answered \cup {"register", "wait"} =>
               caller'[j].buf \in Buffers
        BY <4>2, <4>3 DEF HostTypes
      <4> QED BY <2>1, <3>1, <4>3, <4>4 DEF HostTypes
    <3> QED BY <2>7, <3>2, <3>3 DEF LookUpResponse
  <2>8. CASE Register(k)
    <3> DEFINE b == caller[k].buf
    <3>1. /\ UNCHANGED <<remote_call_counter, response_idx_map, buffers>>
          /\ b \in Buffers
          /\ \E where \in CallerStates : Goto(k, where)
          /\ idle_call_handles' \in {idle_call_handles, [idle_call_handles EXCEPT ![b] = buffers[b]]}
      BY <2>8 DEF Register, At, HostTypes
    <3>2. idle_call_handles' \in [Buffers -> Calls \cup {None}]
      BY <3>1 DEF HostTypes
    <3>3. PICK where \in CallerStates : Goto(k, where)
      BY <3>1
    <3>4. /\ caller' \in [Calls -> Shape]
          /\ \A j \in Calls : /\ caller'[j].buf = caller[j].buf
                              /\ j # k => caller'[j].pc = caller[j].pc
      BY <3>3, GotoMoves
    <3> QED BY <2>1, <3>1, <3>2, <3>4 DEF HostTypes
  <2>9. CASE Return(k)
    <3> DEFINE b == caller[k].buf
    <3>1. b \in Buffers /\ buffers[b] \in Calls
      BY <2>9 DEF Return, At, HostTypes
    <3>2. /\ UNCHANGED <<remote_call_counter, response_idx_map, idle_call_handles>>
          /\ buffers' = [buffers EXCEPT ![b] = None]
          /\ caller' = [caller EXCEPT ![k].pc = "unregister", ![k].got = received[buffers[b]]]
      BY <2>9 DEF Return
    <3>3. received[buffers[b]] \in Seq(Parts) /\ "unregister" \in CallerStates
      BY <3>1 DEF HostTypes
    <3> HIDE DEF b
    <3>0. caller[k].buf = b
      BY DEF b
    <3>4. caller' \in [Calls -> Shape] /\ caller'[k].buf = b
          /\ \A j \in Calls : j # k => caller'[j] = caller[j]
      BY <3>0, <3>2, <3>3, GotMoves
    <3>5. buffers' \in [Buffers -> Calls \cup {None}]
      BY <3>2 DEF HostTypes
    <3> QED BY <2>1, <3>1, <3>2, <3>4, <3>5 DEF HostTypes
  <2>10. CASE Unregister(k)
    <3>1. /\ UNCHANGED <<remote_call_counter, response_idx_map, buffers>>
          /\ caller[k].pc = "unregister" /\ Goto(k, "returned")
          /\ idle_call_handles' = [idle_call_handles EXCEPT ![caller[k].buf] = None]
      BY <2>10 DEF Unregister, At
    <3>2. idle_call_handles' \in [Buffers -> Calls \cup {None}]
      BY <3>1 DEF HostTypes
    <3> QED BY <2>1, <3>1, <3>2, GotoMoves DEF HostTypes
  <2> QED BY <1>1, <2>2, <2>3, <2>4, <2>5, <2>6, <2>7, <2>8, <2>9, <2>10 DEF CallStep
<1>2. ASSUME HostReads PROVE HostTypes'
  <2>1. UNCHANGED <<remote_call_counter, buffers, idle_call_handles, caller>>
    BY <1>2, HostReadKeeps
  <2>2. CASE ReceiveResponse
    <3> DEFINE b == response_idx_map[Message("host").key]
               m == buffers[b]
    <3>1. Message("host") \in [type : {"response"}, key : Keys, body : Parts, last : BOOLEAN]
      BY <2>2, ResponseHead DEF ReceiveResponse, Reads, Other, Message
    <3>2. b \in Buffers /\ m \in Calls
      BY <2>2, <3>1 DEF ReceiveResponse, Responds, HostTypes
    <3>3. /\ received' = [received EXCEPT ![m] = Append(@, Message("host").body)]
          /\ complete_lock' \in {complete_lock, [complete_lock EXCEPT ![m] = "Complete"]}
          /\ UNCHANGED response_idx_map
      BY <2>2 DEF ReceiveResponse
    <3>4. Append(received[m], Message("host").body) \in Seq(Parts)
      BY <3>1, <3>2, AppendProperties DEF HostTypes
    <3> HIDE DEF m
    <3>5. received' \in [Calls -> Seq(Parts)] /\ complete_lock' \in [Calls -> LockStates]
      BY <3>2, <3>3, <3>4 DEF HostTypes, LockStates
    <3> QED BY <2>1, <3>3, <3>5 DEF HostTypes
  <2>3. CASE UnmapResponse
    <3>1. UNCHANGED <<complete_lock, received>>
          /\ response_idx_map' = [response_idx_map EXCEPT ![Message("host").key] = None]
      BY <2>3 DEF UnmapResponse
    <3> QED BY <2>1, <3>1 DEF HostTypes
  <2>4. CASE NoResponseBuffer
    BY <2>1, <2>4 DEF NoResponseBuffer, host, HostTypes
  <2> QED BY <1>2, <2>2, <2>3, <2>4 DEF HostReads
<1>3. ASSUME NEW side \in Sides, SideStep(side) PROVE HostTypes'
  <2>1. complete_lock' \in [Calls -> LockStates]
    BY <1>3, SideStepKeeps DEF HostTypes, Poisoned, LockStates
  <2> QED BY <1>3, <2>1, SideStepKeeps DEF HostTypes
<1>4. ASSUME ModuleReads \/ YieldStep PROVE HostTypes'
  BY <1>4, ModuleStepKeeps DEF HostTypes
<1>5. CASE UNCHANGED vars
  BY <1>5 DEF vars, host, HostTypes
<1> QED BY <1>1, <1>2, <1>3, <1>4, <1>5, NextSteps

LEMMA ModuleTypesStep ==
    ASSUME Types, [Next]_vars
    PROVE  ModuleTypes'
<1> USE CallsAssumption DEF Types
<1>1. ASSUME ModuleReads PROVE ModuleTypes'
  <2> DEFINE call == Message("module")
             args == Accumulated(call.key, call.body)
  <2>0. Reads("module", "call")
    BY <1>1 DEF ModuleReads, RejectCall, ReceiveArguments, RunStandard, StartStreaming,
                NoSuchProcedure, LastPiece
  <2>1. /\ call \in [type : {"call"}, key : Keys, body : Seq(Calls), last : BOOLEAN]
        /\ call.key \in Keys /\ args \in Seq(Calls)
    BY <2>0, CallHead, AccumulatedTyped
  <2>2. CASE RejectCall
    BY <2>2 DEF RejectCall, module, ModuleTypes
  <2>3. CASE ReceiveArguments
    <3>1. /\ ongoing_procedures' = ongoing_procedures \cup {call.key}
          /\ arguments' = [arguments EXCEPT ![call.key] = args]
          /\ UNCHANGED <<abandoned, streams, runs>>
      BY <2>3 DEF ReceiveArguments
    <3> HIDE DEF args, call
    <3> QED BY <2>1, <3>1 DEF ModuleTypes
  <2>4. CASE RunStandard
    <3>1. /\ ongoing_procedures' = ongoing_procedures \ {call.key}
          /\ arguments' = [arguments EXCEPT ![call.key] = None]
          /\ runs' = Append(runs, args)
          /\ UNCHANGED <<abandoned, streams>>
      BY <2>4 DEF RunStandard, LastPiece
    <3> HIDE DEF args, call
    <3>2. runs' \in Seq(Seq(Calls))
      BY <2>1, <3>1, AppendProperties DEF ModuleTypes
    <3> QED BY <2>1, <3>1, <3>2 DEF ModuleTypes
  <2>5. CASE StartStreaming
    <3>1. /\ ongoing_procedures' = ongoing_procedures \cup {call.key}
          /\ arguments' = [arguments EXCEPT ![call.key] = None]
          /\ runs' = Append(runs, args)
          /\ streams' = streams \cup {[key |-> call.key, args |-> args, next |-> 1]}
          /\ UNCHANGED abandoned
      BY <2>5 DEF StartStreaming, LastPiece
    <3> HIDE DEF args, call
    <3>2. runs' \in Seq(Seq(Calls))
      BY <2>1, <3>1, AppendProperties DEF ModuleTypes
    <3>3. 1 \in 1 .. Yields
      BY YieldsAssumption
    <3> QED BY <2>1, <3>1, <3>2, <3>3 DEF ModuleTypes
  <2>6. CASE NoSuchProcedure
    <3>1. /\ ongoing_procedures' = ongoing_procedures \cup {call.key}
          /\ abandoned' = abandoned \cup {call.key}
          /\ arguments' = [arguments EXCEPT ![call.key] = None]
          /\ UNCHANGED <<streams, runs>>
      BY <2>6 DEF NoSuchProcedure, LastPiece
    <3> HIDE DEF args, call
    <3> QED BY <2>1, <3>1 DEF ModuleTypes
  <2> QED BY <1>1, <2>2, <2>3, <2>4, <2>5, <2>6 DEF ModuleReads
<1>2. ASSUME NEW s \in streams, Yield(s) \/ YieldFails(s) PROVE ModuleTypes'
  <2>1. s \in [key : Keys, args : Seq(Calls), next : 1 .. Yields]
    BY DEF ModuleTypes
  <2>2. /\ UNCHANGED <<arguments, abandoned, runs>>
        /\ ongoing_procedures' \subseteq ongoing_procedures
        /\ \/ streams' = streams \ {s}
           \/ s.next # Yields /\ streams' = (streams \ {s}) \cup {[s EXCEPT !.next = @ + 1]}
    BY <1>2 DEF Yield, YieldFails
  <2>3. s.next # Yields => [s EXCEPT !.next = @ + 1] \in [key : Keys, args : Seq(Calls), next : 1 .. Yields]
    BY <2>1, YieldsAssumption
  <2> QED BY <2>2, <2>3 DEF ModuleTypes
<1>3. ASSUME NEW side \in Sides, SideStep(side) PROVE ModuleTypes'
  <2>1. /\ UNCHANGED runs
        /\ ongoing_procedures' \subseteq ongoing_procedures
        /\ abandoned' \subseteq abandoned /\ streams' \subseteq streams
    BY <1>3, SideStepKeeps
  <2>2. arguments' \in [Keys -> Seq(Calls) \cup {None}]
    BY <1>3, SideStepKeeps DEF ModuleTypes
  <2> QED BY <2>1, <2>2 DEF ModuleTypes
<1>4. ASSUME NEW k \in Calls, CallStep(k) PROVE ModuleTypes'
  BY <1>4, CallStepKeeps DEF ModuleTypes
<1>5. ASSUME HostReads PROVE ModuleTypes'
  BY <1>5, HostReadKeeps DEF ModuleTypes
<1>6. CASE UNCHANGED vars
  BY <1>6 DEF vars, module, ModuleTypes
<1> QED BY <1>1, <1>2, <1>3, <1>4, <1>5, <1>6, NextSteps DEF YieldStep

-----------------------------------------------------------------------------
(* What an enqueued message, a read and a write do to what is on its way.  *)
LEMMA EnqueueTyped ==
    ASSUME TransportTypes, NEW side \in Sides, NEW m \in Messages, Enqueue(side, m)
    PROVE  queue' \in [Sides -> Seq(Messages)]
BY AppendProperties DEF TransportTypes, Enqueue

LEMMA ConsumeTyped ==
    ASSUME TransportTypes, NEW side \in Sides, Consume(side), stream[Other(side)] # <<>>
    PROVE  stream' \in [Sides -> Seq(Messages)]
<1>1. Other(side) \in Sides
  BY DEF Other, Sides
<1>2. Tail(stream[Other(side)]) \in Seq(Messages)
  BY <1>1, HeadMessage
<1> QED BY <1>1, <1>2 DEF TransportTypes, Consume

LEMMA CallMessageTyped ==
    ASSUME NEW key \in Keys, NEW args \in Seq(Calls), NEW last \in BOOLEAN
    PROVE  CallMessage(key, args, last) \in Messages
BY DEF CallMessage, Messages

LEMMA ResponseMessageTyped ==
    ASSUME NEW key \in Keys, NEW part \in Parts, NEW last \in BOOLEAN
    PROVE  ResponseMessage(key, part, last) \in Messages
BY DEF ResponseMessage, Messages

LEMMA TransportTypesStep ==
    ASSUME Types, [Next]_vars
    PROVE  TransportTypes'
<1> USE CallsAssumption DEF Types
<1> DEFINE Channels == [Sides -> Seq(Messages)]
<1>0. queue \in Channels /\ stream \in Channels /\ "host" \in Sides /\ "module" \in Sides
  BY DEF TransportTypes, Sides
<1>1. ASSUME NEW k \in Calls, CallStep(k) PROVE TransportTypes'
  <2>1. UNCHANGED stream
    BY <1>1, CallStepKeeps
  <2>2. CASE UNCHANGED queue
    BY <2>1, <2>2 DEF TransportTypes
  <2>3. ASSUME NEW args \in Seq(Calls), NEW last \in BOOLEAN,
               caller[k].key \in Keys, Enqueue("host", CallMessage(caller[k].key, args, last))
        PROVE  TransportTypes'
    BY <1>0, <2>1, <2>3, EnqueueTyped, CallMessageTyped DEF TransportTypes
  <2>4. <<k>> \in Seq(Calls) /\ <<>> \in Seq(Calls)
    OBVIOUS
  <2>5. CASE SendWhole(k)
    <3>1. caller[k].key \in Keys /\ Enqueue("host", CallMessage(caller[k].key, <<k>>, TRUE))
      BY <2>5 DEF SendWhole, At, KeyTypes, Keyed, HostTypes
    <3> QED BY <2>3, <2>4, <3>1
  <2>6. CASE SendPiece(k)
    <3>1. caller[k].key \in Keys
      BY <2>6 DEF SendPiece, At, KeyTypes, Keyed, HostTypes
    <3>2. \/ UNCHANGED queue
          \/ Enqueue("host", CallMessage(caller[k].key, <<k>>, FALSE))
          \/ Enqueue("host", CallMessage(caller[k].key, <<>>, TRUE))
      BY <2>6 DEF SendPiece
    <3> QED BY <2>2, <2>3, <2>4, <3>1, <3>2
  <2> QED BY <1>1, <2>2, <2>5, <2>6
          DEF CallStep, Refuse, TakeIndex, FindNoIndex, InsertIndex, PushResponse, LookUpResponse,
              Register, Return, FailPoisoned, Unregister, transport
<1>2. ASSUME ModuleReads PROVE TransportTypes'
  <2> DEFINE call == Message("module")
             args == Accumulated(call.key, call.body)
  <2>0. Reads("module", "call") /\ Consume("module")
    BY <1>2 DEF ModuleReads, RejectCall, ReceiveArguments, RunStandard, StartStreaming,
                NoSuchProcedure, LastPiece
  <2>1. /\ call \in [type : {"call"}, key : Keys, body : Seq(Calls), last : BOOLEAN]
        /\ call.key \in Keys /\ args \in Seq(Calls)
    BY <2>0, CallHead, AccumulatedTyped
  <2>2. stream' \in Channels
    BY <1>0, <2>0, ConsumeTyped DEF Reads
  <2>3. CASE UNCHANGED queue
    BY <2>2, <2>3 DEF TransportTypes
  <2>4. CASE RunStandard
    <3>1. Enqueue("module", ResponseMessage(call.key, <<args, 1>>, TRUE))
      BY <2>4 DEF RunStandard
    <3> HIDE DEF args, call
    <3>2. <<args, 1>> \in Parts
      BY <2>1 DEF Parts
    <3>3. ResponseMessage(call.key, <<args, 1>>, TRUE) \in Messages
      BY <2>1, <3>2, ResponseMessageTyped
    <3> QED BY <1>0, <2>2, <3>1, <3>3, EnqueueTyped DEF TransportTypes
  <2> QED BY <1>2, <2>3, <2>4 DEF ModuleReads, RejectCall, ReceiveArguments, StartStreaming,
                                  NoSuchProcedure
<1>3. ASSUME HostReads PROVE TransportTypes'
  <2>1. /\ UNCHANGED queue
        /\ \/ UNCHANGED stream
           \/ Consume("host") /\ stream["module"] # <<>>
    BY <1>3 DEF HostReads, ReceiveResponse, UnmapResponse, NoResponseBuffer, Reads, Other,
                StatusTypes
  <2> QED BY <1>0, <2>1, ConsumeTyped DEF TransportTypes, Other
<1>4. ASSUME NEW s \in streams, Yield(s) PROVE TransportTypes'
  <2>1. s \in [key : Keys, args : Seq(Calls), next : 1 .. Yields]
    BY DEF ModuleTypes
  <2>2. /\ Enqueue("module", ResponseMessage(s.key, <<s.args, s.next>>, s.next = Yields))
        /\ UNCHANGED stream
    BY <1>4 DEF Yield
  <2>3. s.key \in Keys /\ <<s.args, s.next>> \in Parts /\ (s.next = Yields) \in BOOLEAN
    BY <2>1, YieldsAssumption DEF Parts
  <2>4. ResponseMessage(s.key, <<s.args, s.next>>, s.next = Yields) \in Messages
    BY <2>3, ResponseMessageTyped
  <2> QED BY <1>0, <2>2, <2>4, EnqueueTyped DEF TransportTypes
<1>5. ASSUME NEW s \in streams, YieldFails(s) PROVE TransportTypes'
  BY <1>5 DEF YieldFails, transport, TransportTypes
<1>6. ASSUME NEW side \in Sides, SideStep(side) PROVE TransportTypes'
  <2>0. Other(side) \in Sides
    BY DEF Other, Sides
  <2>1. CASE UNCHANGED <<queue, stream>>
    BY <2>1 DEF TransportTypes
  <2>2. CASE ReceiveTermination(side)
    BY <2>2, <1>0, ConsumeTyped DEF ReceiveTermination, Reads, TransportTypes
  <2>3. CASE WriteMessage(side)
    <3>1. Head(queue[side]) \in Messages /\ Tail(queue[side]) \in Seq(Messages)
      BY <2>3, HeadQueued DEF WriteMessage
    <3>2. Append(stream[side], Head(queue[side])) \in Seq(Messages)
      BY <1>0, <3>1, AppendProperties
    <3> QED BY <2>3, <1>0, <3>1, <3>2 DEF WriteMessage, TransportTypes
  <2>4. CASE WriteFails(side)
    <3>1. Tail(queue[side]) \in Seq(Messages)
      BY <2>4, HeadQueued DEF WriteFails
    <3> QED BY <2>4, <1>0, <3>1 DEF WriteFails, TransportTypes
  <2>5. CASE SignalTermination(side)
    BY <2>5, EnqueueTyped DEF SignalTermination, TransportTypes, Messages
  <2>6. CASE Crash(side)
    <3>1. <<>> \in Seq(Messages)
      OBVIOUS
    <3> QED BY <2>6, <1>0, <2>0, <3>1 DEF Crash, TransportTypes
  <2> QED BY <1>6, <2>1, <2>2, <2>3, <2>4, <2>5, <2>6
          DEF SideStep, EndOfFile, SweepTerminated, Leave, SweepDropped, Flush, FlushEnds,
              SeeTermination, transport
<1>7. CASE UNCHANGED vars
  BY <1>7 DEF vars, transport, TransportTypes
<1> QED BY <1>1, <1>2, <1>3, <1>4, <1>5, <1>6, <1>7, NextSteps DEF YieldStep

-----------------------------------------------------------------------------
LEMMA HeadOfAppend ==
    ASSUME NEW S, NEW s \in Seq(S), s # <<>>, NEW e \in S
    PROVE  Append(s, e) # <<>> /\ Head(Append(s, e)) = Head(s)
<1>1. Len(s) \in Nat \ {0}
  BY EmptySeq
<1>2. Append(s, e)[1] = s[1] /\ Len(Append(s, e)) # 0
  BY <1>1, AppendProperties
<1> QED BY <1>1, <1>2, AppendProperties, EmptySeq

LEMMA StatusTypesStep ==
    ASSUME Types, [Next]_vars
    PROVE  StatusTypes'
<1> USE DEF Types, ReaderStates, WriterStates
<1> DEFINE Threads == [Sides -> [reader : ReaderStates, writer : WriterStates]]
<1>0. "host" \in Sides /\ "module" \in Sides /\ thread \in Threads
  BY DEF Sides, StatusTypes
<1>1. ASSUME NEW k \in Calls, CallStep(k) PROVE StatusTypes'
  BY <1>1, CallStepKeeps DEF StatusTypes, Message, Other
<1>2. ASSUME NEW s \in streams, Yield(s) \/ YieldFails(s) PROVE StatusTypes'
  <2>1. UNCHANGED <<stream, thread, terminated, gone>>
    BY <1>2 DEF Yield, YieldFails, transport, status
  <2> QED BY <2>1 DEF StatusTypes, Message, Other
<1>3. ASSUME ModuleReads PROVE StatusTypes'
  <2>1. /\ Consume("module") /\ UNCHANGED <<terminated, gone>>
        /\ \E where \in ReaderStates \ {"unmap"} : Reader("module", where)
    BY <1>3 DEF ModuleReads, RejectCall, ReceiveArguments, RunStandard, StartStreaming,
                NoSuchProcedure, LastPiece, ReadOn
  <2>2. stream'["module"] = stream["module"]
    BY <1>0, <2>1 DEF Consume, Other, TransportTypes
  <2>3. /\ thread' \in Threads /\ thread'["host"] = thread["host"]
        /\ thread'["module"].reader # "unmap"
    BY <1>0, <2>1 DEF Reader
  <2> QED BY <2>1, <2>2, <2>3 DEF StatusTypes, Message, Other
<1>4. ASSUME HostReads PROVE StatusTypes'
  <2>1. UNCHANGED <<terminated, gone>>
    BY <1>4, HostReadKeeps
  <2>2. CASE \E where \in ReaderStates \ {"unmap"} : Reader("host", where)
    <3>1. /\ thread' \in Threads /\ thread'["module"] = thread["module"]
          /\ thread'["host"].reader # "unmap"
      BY <1>0, <2>2 DEF Reader
    <3> QED BY <2>1, <3>1 DEF StatusTypes
  <2>3. CASE ReceiveResponse /\ Message("host").last
    <3>1. /\ Reader("host", "unmap") /\ UNCHANGED stream
          /\ "host" \notin gone /\ stream["module"] # <<>> /\ Message("host").type = "response"
      BY <2>3 DEF ReceiveResponse, Reads, Other, Message
    <3>2. thread' \in Threads /\ thread'["module"] = thread["module"]
      BY <1>0, <3>1 DEF Reader
    <3> QED BY <2>1, <2>3, <3>1, <3>2 DEF StatusTypes, Message, Other
  <2> QED BY <1>4, <2>2, <2>3 DEF HostReads, ReceiveResponse, UnmapResponse, NoResponseBuffer, ReadOn
<1>5. ASSUME NEW side \in Sides, SideStep(side) PROVE StatusTypes'
  <2>1. terminated' \in [Sides -> BOOLEAN] /\ gone' \in SUBSET Sides
    <3>1. UNCHANGED terminated \/ Store(side)
      BY <1>5 DEF SideStep, ReceiveTermination, EndOfFile, SweepTerminated, Leave, SweepDropped,
           Flush, WriteMessage, FlushEnds, SeeTermination, WriteFails, SignalTermination, Crash,
           status
    <3>2. UNCHANGED gone \/ gone' = gone \cup {side}
      BY <1>5 DEF SideStep, ReceiveTermination, EndOfFile, SweepTerminated, Leave, SweepDropped,
           Flush, WriteMessage, FlushEnds, SeeTermination, WriteFails, SignalTermination, Crash,
           status
    <3> QED BY <3>1, <3>2 DEF StatusTypes, Store
  <2>2. CASE UNCHANGED <<stream, gone>>
    <3>1. \/ UNCHANGED thread
          \/ \E where \in ReaderStates \ {"unmap"} : Reader(side, where)
          \/ \E where \in WriterStates : Writer(side, where)
      <4>1. ASSUME NEW role \in Roles, NEW where \in {"drop", "stopped"},
                   thread' = [thread EXCEPT ![side][role] = where]
            PROVE  Reader(side, where) \/ Writer(side, where)
        BY <4>1 DEF Roles, Reader, Writer
      <4>2. ASSUME NEW role \in Roles, Leave(side, role) \/ SweepDropped(side, role)
            PROVE  \E where \in {"drop", "stopped"} : thread' = [thread EXCEPT ![side][role] = where]
        BY <4>2 DEF Leave, SweepDropped
      <4>3. CASE Crash(side)
        <5>1. side \in gone' /\ side \notin gone
          BY <4>3 DEF Crash
        <5> QED BY <2>2, <5>1
      <4> QED BY <1>5, <4>1, <4>2, <4>3
              DEF SideStep, ReceiveTermination, EndOfFile, SweepTerminated, Flush, WriteMessage,
                  FlushEnds, SeeTermination, WriteFails, SignalTermination, status
    <3>2. /\ thread' \in Threads
          /\ \A t \in Sides : thread'[t].reader = "unmap" => thread[t].reader = "unmap"
      BY <1>0, <3>1 DEF Reader, Writer
    <3> QED BY <2>1, <2>2, <3>2, <1>0 DEF StatusTypes, Message, Other
  <2>3. CASE ReceiveTermination(side)
    <3>1. /\ Reader(side, "sweep") /\ Consume(side) /\ UNCHANGED gone
          /\ thread[side].reader = "running"
      BY <2>3 DEF ReceiveTermination, Reads
    <3>2. /\ thread' \in Threads
          /\ \A t \in Sides : thread'[t].reader = "unmap" => t # side /\ thread[t].reader = "unmap"
      BY <1>0, <3>1 DEF Reader
    <3>3. side = "module" => stream'["module"] = stream["module"]
      BY <3>1, <1>0 DEF Consume, Other, TransportTypes
    <3> QED BY <2>1, <3>1, <3>2, <3>3, <1>0 DEF StatusTypes, Message, Other, Sides
  <2>4. CASE WriteMessage(side)
    <3>1. /\ Head(queue[side]) \in Messages /\ UNCHANGED <<thread, gone>>
          /\ stream' = [stream EXCEPT ![side] = Append(@, Head(queue[side]))]
      BY <2>4, HeadQueued DEF WriteMessage, status
    <3>2. stream["module"] # <<>> => stream'["module"] # <<>> /\ Head(stream'["module"]) = Head(stream["module"])
      <4>1. stream["module"] \in Seq(Messages) /\ DOMAIN stream = Sides
        BY <1>0 DEF TransportTypes
      <4>2. CASE side = "module"
        <5>1. stream'["module"] = Append(stream["module"], Head(queue[side]))
          BY <1>0, <3>1, <4>1, <4>2
        <5> QED BY <3>1, <4>1, <5>1, HeadOfAppend
      <4>3. CASE side # "module"
        BY <1>0, <3>1, <4>1, <4>3
      <4> QED BY <4>2, <4>3
    <3> QED BY <2>1, <3>1, <3>2 DEF StatusTypes, Message, Other
  <2>5. CASE Crash(side)
    <3>1. /\ gone' = gone \cup {side}
          /\ thread' = [thread EXCEPT ![side] = [reader |-> "stopped", writer |-> "stopped"]]
          /\ stream' = [stream EXCEPT ![Other(side)] = <<>>]
      BY <2>5 DEF Crash
    <3>2. /\ thread' \in Threads
          /\ \A t \in Sides : thread'[t].reader = "unmap" => t # side /\ thread[t].reader = "unmap"
      BY <1>0, <3>1
    <3>3. side = "module" => stream'["module"] = stream["module"]
      BY <3>1, <1>0 DEF Other, TransportTypes
    <3> QED BY <2>1, <3>1, <3>2, <3>3, <1>0 DEF StatusTypes, Message, Other, Sides
  <2> QED BY <1>5, <2>2, <2>3, <2>4, <2>5
          DEF SideStep, EndOfFile, SweepTerminated, Leave, SweepDropped, Flush, FlushEnds,
              SeeTermination, SignalTermination, WriteFails, transport, status
<1>6. CASE UNCHANGED vars
  BY <1>6 DEF vars, transport, status, StatusTypes, Message, Other
<1> QED BY <1>1, <1>2, <1>3, <1>4, <1>5, <1>6, NextSteps DEF YieldStep

-----------------------------------------------------------------------------
(* The points a caller's step leads to.                                    *)
LEMMA CallerPoints ==
    ASSUME HostTypes, KeyTypes, [Next]_vars,
           \A k \in Calls : ~TakeIndex(k) /\ ~InsertIndex(k),
           NEW j \in Calls, caller'[j].pc # caller[j].pc
    PROVE  /\ CallStep(j)
           /\ \/ caller[j].pc = "idle" /\ caller'[j].pc \in {"first", "failed"}
              \/ caller[j].pc = "push" /\ caller'[j].pc = "send"
              \/ /\ caller[j].pc = "send" /\ (SendWhole(j) \/ SendPiece(j))
                 /\ caller'[j].pc \in {"end", "lookup", "failed"}
              \/ caller[j].pc = "end" /\ caller'[j].pc \in {"lookup", "failed"}
              \/ caller[j].pc \notin Unended \cup {"failed"} /\ caller'[j].pc \notin Unended
<1> USE DEF CallerStates, Unended, Unsent
<1>1. PICK k \in Calls : CallStep(k)
  BY NextSteps, SideStepKeeps, ModuleStepKeeps, HostReadKeeps DEF vars, host
<1>2. CASE Refuse(k) \/ FindNoIndex(k)
  <2>1. caller[k].pc = "idle" /\ \E where \in {"first", "failed"} : Goto(k, where)
    BY <1>2 DEF Refuse, FindNoIndex, At
  <2> QED BY <1>1, <2>1, GotoMoves
<1>3. CASE PushResponse(k)
  <2>1. caller[k].pc = "push" /\ Goto(k, "send")
    BY <1>3 DEF PushResponse, At
  <2> QED BY <1>1, <2>1, GotoMoves
<1>4. CASE SendWhole(k) \/ SendPiece(k)
  <2>1. \/ caller[k].pc = "send" /\ \E where \in {"end", "lookup", "failed"} : Goto(k, where)
        \/ caller[k].pc = "end" /\ \E where \in {"lookup", "failed"} : Goto(k, where)
    BY <1>4 DEF SendWhole, SendPiece, At
  <2> QED BY <1>1, <1>4, <2>1, GotoMoves
<1>5. CASE Register(k) \/ FailPoisoned(k) \/ Unregister(k)
  <2>1. /\ caller[k].pc \in {"register", "wait", "unregister"}
        /\ \E where \in {"panicked", "wait", "failed", "returned"} : Goto(k, where)
    BY <1>5 DEF Register, FailPoisoned, Unregister, At
  <2> QED BY <1>1, <2>1, GotoMoves
<1>6. CASE LookUpResponse(k)
  <2> DEFINE b == response_idx_map[caller[k].key]
  <2>1. /\ caller[k].pc = "lookup"
        /\ \/ \E where \in {"failed", "lost"} : Goto(k, where)
           \/ b # None /\ caller' = [caller EXCEPT ![k].pc = "register", ![k].buf = b]
    BY <1>6 DEF LookUpResponse, At
  <2>2. b \in Buffers \cup {None}
    BY <2>1 DEF KeyTypes, Keyed, HostTypes
  <2> HIDE DEF b
  <2>3. CASE \E where \in {"failed", "lost"} : Goto(k, where)
    BY <1>1, <2>1, <2>3, GotoMoves
  <2>4. CASE b # None /\ caller' = [caller EXCEPT ![k].pc = "register", ![k].buf = b]
    <3>1. caller'[k].pc = "register" /\ \A i \in Calls : i # k => caller'[i] = caller[i]
      BY <2>2, <2>4, BufMoves
    <3> QED BY <1>1, <2>1, <3>1
  <2> QED BY <2>1, <2>3, <2>4
<1>7. CASE Return(k)
  <2> DEFINE got == received[buffers[caller[k].buf]]
  <2>1. /\ caller[k].pc = "wait" /\ caller[k].buf \in Buffers /\ buffers[caller[k].buf] # None
        /\ caller' = [caller EXCEPT ![k].pc = "unregister", ![k].got = got]
    BY <1>7 DEF Return, At, HostTypes, Answered
  <2>2. got \in Seq(Parts)
    BY <2>1 DEF HostTypes
  <2> HIDE DEF got
  <2>3. caller'[k].pc = "unregister" /\ \A i \in Calls : i # k => caller'[i] = caller[i]
    BY <2>1, <2>2, GotMoves
  <2> QED BY <1>1, <2>1, <2>3
<1> QED BY <1>1, <1>2, <1>3, <1>4, <1>5, <1>6, <1>7 DEF CallStep

(* What taking and inserting an index do.                                  *)
LEMMA IndexTaken ==
    ASSUME Types, NEW k \in Calls, TakeIndex(k) \/ InsertIndex(k)
    PROVE  /\ ~Keyed(k)
           /\ caller'[k].pc = "push" /\ caller'[k].key \in Keys
           /\ caller'[k].key = <<Procedure[k], remote_call_counter'[Procedure[k]]>>
           /\ \A j \in Calls : j # k => caller'[j] = caller[j]
           /\ remote_call_counter'[Procedure[k]] \in Nat
           /\ \A p \in Procedures : p # Procedure[k] => remote_call_counter'[p] = remote_call_counter[p]
<1> DEFINE p == Procedure[k]
<1>0. p \in Procedures /\ remote_call_counter \in [Procedures -> Nat \cup {None}]
  BY DEF Procedures, Types, HostTypes
<1>1. CASE TakeIndex(k)
  <2>1. /\ ~Keyed(k) /\ remote_call_counter[p] # None
        /\ remote_call_counter' = [remote_call_counter EXCEPT ![p] = @ + 1]
        /\ caller' = [caller EXCEPT ![k].pc = "push", ![k].key = <<p, remote_call_counter[p] + 1>>]
    BY <1>1 DEF TakeIndex, At, Types, KeyTypes
  <2>2. remote_call_counter[p] + 1 \in Indices /\ remote_call_counter[p] \in Nat
    BY <1>0, <2>1, NextIndex DEF Types
  <2>3. <<p, remote_call_counter[p] + 1>> \in Keys
    BY <1>0, <2>2 DEF Keys
  <2> HIDE DEF p
  <2>4. /\ caller'[k].pc = "push" /\ caller'[k].key = <<p, remote_call_counter[p] + 1>>
        /\ \A j \in Calls : j # k => caller'[j] = caller[j]
    BY <2>1, <2>3, KeyMoves DEF Types, CallerStates
  <2>5. remote_call_counter'[p] = remote_call_counter[p] + 1
    BY <1>0, <2>1
  <2>6. \A q \in Procedures : q # p => remote_call_counter'[q] = remote_call_counter[q]
    BY <1>0, <2>1
  <2>7. caller'[k].key \in Keys /\ caller'[k].key = <<p, remote_call_counter'[p]>>
    BY <2>3, <2>4, <2>5
  <2>8. remote_call_counter'[p] \in Nat
    BY <2>2, <2>5
  <2> QED BY <2>1, <2>4, <2>6, <2>7, <2>8 DEF p
<1>2. CASE InsertIndex(k)
  <2>1. /\ ~Keyed(k)
        /\ remote_call_counter' = [remote_call_counter EXCEPT ![p] = 0]
        /\ caller' = [caller EXCEPT ![k].pc = "push", ![k].key = <<p, 0>>]
    BY <1>2 DEF InsertIndex, At, Types, KeyTypes
  <2>2. Cardinality(Calls) \in Nat
    BY FS_CardinalityType, CallsAssumption
  <2>3. <<p, 0>> \in Keys
    BY <1>0, <2>2 DEF Keys, Indices
  <2> HIDE DEF p
  <2>4. /\ caller'[k].pc = "push" /\ caller'[k].key = <<p, 0>>
        /\ \A j \in Calls : j # k => caller'[j] = caller[j]
    BY <2>1, <2>3, KeyMoves DEF Types, CallerStates
  <2>5. remote_call_counter'[p] = 0
    BY <1>0, <2>1
  <2>6. \A q \in Procedures : q # p => remote_call_counter'[q] = remote_call_counter[q]
    BY <1>0, <2>1
  <2>7. caller'[k].key \in Keys /\ caller'[k].key = <<p, remote_call_counter'[p]>>
    BY <2>3, <2>4, <2>5
  <2>8. remote_call_counter'[p] \in Nat
    BY <2>5
  <2> QED BY <2>1, <2>4, <2>6, <2>7, <2>8 DEF p
<1> QED BY <1>1, <1>2

LEMMA KeyTypesStep ==
    ASSUME Types, [Next]_vars
    PROVE  KeyTypes' /\ CounterBound'
<1>0. /\ KeyTypes /\ HostTypes /\ CounterBound
      /\ remote_call_counter \in [Procedures -> Nat \cup {None}]
  BY DEF Types, HostTypes
<1>1. ASSUME NEW k \in Calls, TakeIndex(k) \/ InsertIndex(k) PROVE KeyTypes' /\ CounterBound'
  <2>1. /\ ~Keyed(k)
        /\ caller'[k].pc = "push" /\ caller'[k].key \in Keys
        /\ caller'[k].key = <<Procedure[k], remote_call_counter'[Procedure[k]]>>
        /\ \A j \in Calls : j # k => caller'[j] = caller[j]
        /\ \A p \in Procedures : p # Procedure[k] => remote_call_counter'[p] = remote_call_counter[p]
    BY <1>1, IndexTaken
  <2>2. caller'[k].key # None
    BY <2>1, CallsAssumption
  <2>3. KeyTypes'
    BY <1>0, <2>1, <2>2 DEF KeyTypes, Keyed
  <2>4. ASSUME NEW p \in Procedures, remote_call_counter'[p] # None
        PROVE  remote_call_counter'[p] + 1 <= Cardinality(KeyedFor(p)')
    <3>1. CASE p # Procedure[k]
      <4>1. KeyedFor(p)' = KeyedFor(p) /\ remote_call_counter'[p] = remote_call_counter[p]
        BY <2>1, <3>1 DEF KeyedFor, Keyed
      <4> QED BY <1>0, <2>4, <4>1 DEF CounterBound
    <3>2. CASE p = Procedure[k]
      <4>1. KeyedFor(p)' = KeyedFor(p) \cup {k} /\ k \notin KeyedFor(p)
        BY <2>1, <2>2, <3>2 DEF KeyedFor, Keyed
      <4>2. IsFiniteSet(KeyedFor(p))
        BY FS_Subset, CallsAssumption DEF KeyedFor
      <4>3. /\ Cardinality(KeyedFor(p)') = Cardinality(KeyedFor(p)) + 1
            /\ Cardinality(KeyedFor(p)) \in Nat
        BY <4>1, <4>2, FS_AddElement, FS_CardinalityType
      <4>4. CASE TakeIndex(k)
        <5>1. remote_call_counter[p] # None /\ remote_call_counter'[p] = remote_call_counter[p] + 1
          BY <1>0, <3>2, <4>4 DEF TakeIndex
        <5>2. remote_call_counter[p] \in Nat
          BY <1>0, <5>1
        <5>3. remote_call_counter[p] + 1 <= Cardinality(KeyedFor(p))
          BY <1>0, <5>1 DEF CounterBound
        <5> QED BY <4>3, <5>1, <5>2, <5>3
      <4>5. CASE InsertIndex(k)
        <5>1. remote_call_counter'[p] = 0
          BY <1>0, <3>2, <4>5 DEF InsertIndex
        <5> QED BY <4>3, <5>1
      <4> QED BY <1>1, <4>4, <4>5
    <3> QED BY <3>1, <3>2
  <2> QED BY <2>3, <2>4 DEF CounterBound
<1>2. ASSUME \A k \in Calls : ~TakeIndex(k) /\ ~InsertIndex(k) PROVE KeyTypes' /\ CounterBound'
  <2>1. /\ \A j \in Calls : caller'[j].key = caller[j].key
        /\ UNCHANGED remote_call_counter
    BY <1>0, <1>2, KeysStay
  <2>2. KeyTypes'
    <3>1. \A j \in Calls : caller'[j].pc # caller[j].pc =>
            \/ caller[j].pc = "idle" /\ caller'[j].pc \in {"first", "failed"}
            \/ caller[j].pc \notin {"idle", "first", "failed"} /\ caller'[j].pc \notin {"idle", "first"}
      BY <1>0, <1>2, CallerPoints DEF Unended, Unsent
    <3> QED BY <1>0, <2>1, <3>1 DEF KeyTypes, Keyed
  <2>3. \A p : KeyedFor(p)' = KeyedFor(p)
    BY <2>1 DEF KeyedFor, Keyed
  <2> QED BY <1>0, <2>1, <2>2, <2>3 DEF CounterBound
<1> QED BY <1>1, <1>2

LEMMA TypesHold == Spec => []Types
<1>1. Init => Types
  <2> SUFFICES ASSUME Init PROVE Types
    OBVIOUS
  <2>1. <<>> \in Seq(Parts) /\ <<>> \in Seq(Messages) /\ <<>> \in Seq(Seq(Calls))
    OBVIOUS
  <2>2. HostTypes
    BY <2>1 DEF Init, HostTypes, CallerStates, LockStates, Answered
  <2>3. ModuleTypes
    BY <2>1 DEF Init, ModuleTypes
  <2>4. TransportTypes
    BY <2>1 DEF Init, TransportTypes
  <2>5. StatusTypes
    BY DEF Init, StatusTypes, Sides, ReaderStates, WriterStates
  <2>6. KeyTypes /\ CounterBound
    BY DEF Init, KeyTypes, Keyed, CounterBound
  <2> QED BY <2>2, <2>3, <2>4, <2>5, <2>6 DEF Types
<1>2. Types /\ [Next]_vars => Types'
  BY HostTypesStep, ModuleTypesStep, TransportTypesStep, StatusTypesStep, KeyTypesStep DEF Types
<1> QED BY <1>1, <1>2, PTL DEF Spec

-----------------------------------------------------------------------------
(* Calls take different keys: an index that exists is taken under its      *)
(* entry's lock, and the first index of a procedure is inserted by one     *)
(* caller only.                                                            *)
LEMMA KeysDifferStep ==
    ASSUME SerialFirst, Types, KeysDiffer, [Next]_vars
    PROVE  KeysDiffer'
<1>0. /\ KeyTypes /\ HostTypes /\ \A k \in Calls : Procedure[k] \in Procedures
      /\ remote_call_counter \in [Procedures -> Nat \cup {None}] /\ None \notin Nat
  BY CallsAssumption DEF Types, HostTypes, Procedures
<1>1. ASSUME NEW k \in Calls, TakeIndex(k) \/ InsertIndex(k) PROVE KeysDiffer'
  <2> DEFINE p == Procedure[k]
             n == remote_call_counter'[p]
  <2>1. /\ ~Keyed(k)
        /\ caller'[k].pc = "push" /\ caller'[k].key \in Keys
        /\ caller'[k].key = <<p, n>>
        /\ \A j \in Calls : j # k => caller'[j] = caller[j]
        /\ n \in Nat
        /\ \A q \in Procedures : q # p => remote_call_counter'[q] = remote_call_counter[q]
    BY <1>1, IndexTaken
  <2>2. ASSUME NEW j \in Calls, j # k, Keyed(j), Procedure[j] = p
        PROVE  caller[j].key[2] < n /\ caller[j].key \in Keys
    <3>1. /\ remote_call_counter[p] \in Nat /\ caller[j].key[2] <= remote_call_counter[p]
          /\ caller[j].key \in Keys
      BY <1>0, <2>2 DEF KeysDiffer, Keyed, HostTypes
    <3>2. caller[j].key[2] \in Nat
      <4>1. Cardinality(Calls) \in Nat
        BY FS_CardinalityType, CallsAssumption
      <4> QED BY <3>1, <4>1 DEF Keys, Indices
    <3>3. TakeIndex(k)
      BY <1>0, <1>1, <3>1 DEF InsertIndex, At, KeysDiffer
    <3>4. n = remote_call_counter[p] + 1
      BY <1>0, <3>3 DEF TakeIndex
    <3> QED BY <3>1, <3>2, <3>4
  <2>3. ASSUME NEW j \in Calls, j # k, caller[j].pc = "first" PROVE Procedure[j] # p
    <3>1. CASE TakeIndex(k)
      BY <2>3, <3>1 DEF TakeIndex, KeysDiffer
    <3>2. CASE InsertIndex(k)
      BY <2>3, <3>2 DEF InsertIndex, At, KeysDiffer
    <3> QED BY <1>1, <3>1, <3>2
  <2> HIDE DEF n
  <2>4. ASSUME NEW j \in Calls, Keyed(j)'
        PROVE  /\ remote_call_counter'[Procedure[j]] # None
               /\ caller'[j].key[2] <= remote_call_counter'[Procedure[j]]
    <3>1. CASE j = k
      <4>1. caller'[j].key[2] = n /\ remote_call_counter'[Procedure[j]] = n
        BY <2>1, <3>1 DEF n
      <4> QED BY <1>0, <2>1, <4>1
    <3>2. CASE j # k /\ Procedure[j] = p
      <4>1. Keyed(j) /\ caller'[j] = caller[j] /\ remote_call_counter'[Procedure[j]] = n
        BY <2>1, <2>4, <3>2 DEF Keyed, n
      <4>2. caller[j].key[2] < n /\ caller[j].key[2] \in Nat
        <5>1. Cardinality(Calls) \in Nat
          BY FS_CardinalityType, CallsAssumption
        <5> QED BY <2>2, <3>2, <4>1, <5>1 DEF Keys, Indices
      <4> QED BY <1>0, <2>1, <4>1, <4>2
    <3>3. CASE j # k /\ Procedure[j] # p
      <4>1. Keyed(j) /\ caller'[j] = caller[j]
            /\ remote_call_counter'[Procedure[j]] = remote_call_counter[Procedure[j]]
        BY <1>0, <2>1, <2>4, <3>3 DEF Keyed
      <4> QED BY <4>1 DEF KeysDiffer
    <3> QED BY <3>1, <3>2, <3>3
  <2>5. ASSUME NEW i \in Calls, NEW j \in Calls, Keyed(i)', caller'[i].key = caller'[j].key
        PROVE  i = j
    <3>0. ASSUME NEW m \in Calls, m # k, Keyed(m)' PROVE caller'[m].key # <<p, n>>
      <4>1. Keyed(m) /\ caller'[m].key = caller[m].key
        BY <2>1, <3>0 DEF Keyed
      <4>2. CASE Procedure[m] = p
        <5>1. caller[m].key[2] < n
          BY <2>2, <3>0, <4>1, <4>2
        <5> QED BY <2>1, <4>1, <5>1
      <4>3. CASE Procedure[m] # p
        BY <1>0, <3>0, <4>1, <4>3 DEF KeyTypes
      <4> QED BY <4>2, <4>3
    <3>1. CASE i = k /\ j # k
      BY <2>1, <2>5, <3>0, <3>1 DEF Keyed
    <3>2. CASE i # k /\ j = k
      BY <2>1, <2>5, <3>0, <3>2
    <3>3. CASE i # k /\ j # k
      BY <2>1, <2>5, <3>3 DEF KeysDiffer, Keyed
    <3> QED BY <3>1, <3>2, <3>3
  <2>6. ASSUME NEW j \in Calls, caller'[j].pc = "first"
        PROVE  /\ j # k /\ caller[j].pc = "first"
               /\ remote_call_counter'[Procedure[j]] = None
    <3>1. j # k /\ caller[j].pc = "first"
      BY <2>1, <2>6
    <3> QED BY <1>0, <2>1, <2>3, <3>1 DEF KeysDiffer
  <2> QED BY <2>4, <2>5, <2>6 DEF KeysDiffer
<1>2. ASSUME \A k \in Calls : ~TakeIndex(k) /\ ~InsertIndex(k) PROVE KeysDiffer'
  <2>1. /\ \A j \in Calls : caller'[j].key = caller[j].key
        /\ UNCHANGED remote_call_counter
    BY <1>0, <1>2, KeysStay
  <2>2. ASSUME NEW j \in Calls, caller'[j].pc = "first", caller[j].pc # "first"
        PROVE  FindNoIndex(j)
    <3>1. CallStep(j) /\ caller[j].pc = "idle"
      BY <1>0, <1>2, <2>2, CallerPoints DEF Unended, Unsent
    <3>2. Refuse(j) \/ FindNoIndex(j)
      BY <1>2, <3>1 DEF CallStep, InsertIndex, PushResponse, SendWhole, SendPiece, LookUpResponse,
                 Register, Return, FailPoisoned, Unregister, At
    <3>3. ~Refuse(j)
      <4>1. Refuse(j) => Goto(j, "failed")
        BY DEF Refuse
      <4> QED BY <1>0, <2>2, <4>1, GotoMoves DEF CallerStates
    <3> QED BY <3>2, <3>3
  <2>3. ASSUME NEW j \in Calls, FindNoIndex(j)
        PROVE  /\ remote_call_counter[Procedure[j]] = None
               /\ \A i \in Calls : i # j => caller'[i].pc = caller[i].pc
               /\ \A i \in Calls : caller[i].pc = "first" => Procedure[i] # Procedure[j]
    BY <1>0, <2>3, GotoMoves DEF FindNoIndex, CallerStates
  <2>4. \A j \in Calls : caller'[j].pc = "first" => remote_call_counter'[Procedure[j]] = None
    BY <2>1, <2>2, <2>3 DEF KeysDiffer
  <2>5. \A i, j \in Calls :
          caller'[i].pc = "first" /\ caller'[j].pc = "first" /\ Procedure[i] = Procedure[j] => i = j
    BY <2>2, <2>3 DEF KeysDiffer
  <2> QED BY <2>1, <2>4, <2>5 DEF KeysDiffer, Keyed
<1> QED BY <1>1, <1>2

-----------------------------------------------------------------------------
(* A sequence d is c with an element more, with its first element gone, or *)
(* a beginning of c.                                                       *)
Gains(c, d, m) ==
    /\ Len(d) = Len(c) + 1
    /\ d[Len(c) + 1] = m
    /\ \A i \in 1 .. Len(c) : d[i] = c[i]
Loses(c, d) ==
    /\ Len(d) = Len(c) - 1
    /\ \A i \in 1 .. Len(d) : d[i] = c[i + 1]
Cut(c, d) ==
    /\ Len(d) <= Len(c)
    /\ \A i \in 1 .. Len(d) : d[i] = c[i]

(* Two sequences end to end, when the second gains an element, when its    *)
(* head moves to the first, when the first loses its head and when the     *)
(* second is emptied.                                                      *)
LEMMA JoinedGains ==
    ASSUME NEW S, NEW s \in Seq(S), NEW q \in Seq(S), NEW e \in S
    PROVE  Gains(s \o q, s \o Append(q, e), e)
<1> DEFINE r == Append(q, e)
<1>1. /\ r \in Seq(S) /\ Len(r) = Len(q) + 1
      /\ r[Len(q) + 1] = e
      /\ \A i \in 1 .. Len(q) : r[i] = q[i]
  BY AppendProperties
<1> HIDE DEF r
<1>2. /\ Len(s) \in Nat /\ Len(q) \in Nat
      /\ Len(s \o q) = Len(s) + Len(q)
      /\ \A i \in 1 .. Len(s) + Len(q) :
           (s \o q)[i] = IF i <= Len(s) THEN s[i] ELSE q[i - Len(s)]
  BY ConcatProperties, LenProperties
<1>3. /\ Len(s \o r) = Len(s) + Len(r)
      /\ \A i \in 1 .. Len(s) + Len(r) :
           (s \o r)[i] = IF i <= Len(s) THEN s[i] ELSE r[i - Len(s)]
  BY <1>1, ConcatProperties
<1>4. Len(s \o r) = Len(s \o q) + 1
  BY <1>1, <1>2, <1>3
<1>5. (s \o r)[Len(s \o q) + 1] = e
  <2>1. Len(s) + Len(q) + 1 \in 1 .. Len(s) + Len(r) /\ (Len(s) + Len(q) + 1) - Len(s) = Len(q) + 1
    BY <1>1, <1>2
  <2> QED BY <1>1, <1>2, <1>3, <2>1
<1>6. ASSUME NEW i \in 1 .. Len(s \o q) PROVE (s \o r)[i] = (s \o q)[i]
  <2>0. i \in 1 .. Len(s) + Len(q) /\ i \in 1 .. Len(s) + Len(r)
    BY <1>1, <1>2
  <2>1. CASE i <= Len(s)
    BY <1>2, <1>3, <2>0, <2>1
  <2>2. CASE ~(i <= Len(s))
    <3>1. i - Len(s) \in 1 .. Len(q)
      BY <1>2, <2>0, <2>2
    <3> QED BY <1>1, <1>2, <1>3, <2>0, <2>2, <3>1
  <2> QED BY <2>1, <2>2
<1> QED BY <1>4, <1>5, <1>6 DEF Gains, r

LEMMA JoinedMoves ==
    ASSUME NEW S, NEW s \in Seq(S), NEW q \in Seq(S), q # <<>>
    PROVE  Append(s, Head(q)) \o Tail(q) = s \o q
<1>1. /\ Head(q) \in S /\ Head(q) = q[1] /\ Tail(q) \in Seq(S) /\ Len(Tail(q)) = Len(q) - 1
      /\ \A i \in 1 .. Len(Tail(q)) : Tail(q)[i] = q[i + 1]
      /\ Len(q) \in Nat \ {0} /\ Len(s) \in Nat
  BY HeadTailProperties, EmptySeq, LenProperties
<1> DEFINE t == Append(s, Head(q))
<1>2. /\ t \in Seq(S) /\ Len(t) = Len(s) + 1
      /\ t[Len(s) + 1] = q[1]
      /\ \A i \in 1 .. Len(s) : t[i] = s[i]
  BY <1>1, AppendProperties
<1> HIDE DEF t
<1>3. /\ s \o q \in Seq(S) /\ Len(s \o q) = Len(s) + Len(q)
      /\ \A i \in 1 .. Len(s) + Len(q) :
           (s \o q)[i] = IF i <= Len(s) THEN s[i] ELSE q[i - Len(s)]
  BY ConcatProperties
<1>4. /\ t \o Tail(q) \in Seq(S) /\ Len(t \o Tail(q)) = Len(t) + Len(Tail(q))
      /\ \A i \in 1 .. Len(t) + Len(Tail(q)) :
           (t \o Tail(q))[i] = IF i <= Len(t) THEN t[i] ELSE Tail(q)[i - Len(t)]
  BY <1>1, <1>2, ConcatProperties
<1>5. Len(t \o Tail(q)) = Len(s \o q)
  BY <1>1, <1>2, <1>3, <1>4
<1>6. ASSUME NEW i \in 1 .. Len(t \o Tail(q)) PROVE (t \o Tail(q))[i] = (s \o q)[i]
  <2>1. i \in 1 .. Len(s) + Len(q) /\ i \in 1 .. Len(t) + Len(Tail(q))
    BY <1>1, <1>2, <1>4
  <2>2. CASE i <= Len(s)
    BY <1>1, <1>2, <1>3, <1>4, <2>1, <2>2
  <2>3. CASE i = Len(s) + 1
    BY <1>1, <1>2, <1>3, <1>4, <2>1, <2>3
  <2>4. CASE i > Len(s) + 1
    <3>1. i - Len(t) \in 1 .. Len(Tail(q)) /\ (i - Len(t)) + 1 = i - Len(s)
      BY <1>1, <1>2, <2>1, <2>4
    <3> QED BY <1>1, <1>2, <1>3, <1>4, <2>1, <2>4, <3>1
  <2> QED BY <1>1, <2>1, <2>2, <2>3, <2>4
<1> QED BY <1>3, <1>4, <1>5, <1>6, SeqEqual DEF t

LEMMA JoinedLoses ==
    ASSUME NEW S, NEW s \in Seq(S), NEW q \in Seq(S), s # <<>>
    PROVE  /\ Loses(s \o q, Tail(s) \o q)
           /\ Len(s \o q) \in Nat \ {0}
           /\ (s \o q)[1] = Head(s)
<1>1. /\ Head(s) = s[1] /\ Tail(s) \in Seq(S) /\ Len(Tail(s)) = Len(s) - 1
      /\ \A i \in 1 .. Len(Tail(s)) : Tail(s)[i] = s[i + 1]
      /\ Len(s) \in Nat \ {0} /\ Len(q) \in Nat
  BY HeadTailProperties, EmptySeq, LenProperties
<1>2. /\ Len(s \o q) = Len(s) + Len(q)
      /\ \A i \in 1 .. Len(s) + Len(q) :
           (s \o q)[i] = IF i <= Len(s) THEN s[i] ELSE q[i - Len(s)]
  BY ConcatProperties
<1>3. /\ Len(Tail(s) \o q) = Len(Tail(s)) + Len(q)
      /\ \A i \in 1 .. Len(Tail(s)) + Len(q) :
           (Tail(s) \o q)[i] = IF i <= Len(Tail(s)) THEN Tail(s)[i] ELSE q[i - Len(Tail(s))]
  BY <1>1, ConcatProperties
<1>4. ASSUME NEW i \in 1 .. Len(Tail(s) \o q) PROVE (Tail(s) \o q)[i] = (s \o q)[i + 1]
  <2>1. i + 1 \in 1 .. Len(s) + Len(q) /\ i \in 1 .. Len(Tail(s)) + Len(q)
    BY <1>1, <1>3
  <2>2. CASE i <= Len(Tail(s))
    BY <1>1, <1>2, <1>3, <2>1, <2>2
  <2>3. CASE i > Len(Tail(s))
    <3>1. i - Len(Tail(s)) = (i + 1) - Len(s)
      BY <1>1, <2>1
    <3> QED BY <1>1, <1>2, <1>3, <2>1, <2>3, <3>1
  <2> QED BY <1>1, <2>1, <2>2, <2>3
<1>5. Len(Tail(s) \o q) = Len(s \o q) - 1
  BY <1>1, <1>2, <1>3
<1>6. Len(s \o q) \in Nat \ {0} /\ (s \o q)[1] = Head(s)
  BY <1>1, <1>2
<1> QED BY <1>4, <1>5, <1>6 DEF Loses

LEMMA JoinedCut ==
    ASSUME NEW S, NEW s \in Seq(S), NEW q \in Seq(S)
    PROVE  Cut(s \o q, s \o <<>>)
<1>1. /\ s \o <<>> = s /\ Len(s) \in Nat /\ Len(q) \in Nat
      /\ Len(s \o q) = Len(s) + Len(q)
      /\ \A i \in 1 .. Len(s) + Len(q) :
           (s \o q)[i] = IF i <= Len(s) THEN s[i] ELSE q[i - Len(s)]
  BY ConcatProperties, ConcatEmptySeq, LenProperties
<1> QED BY <1>1 DEF Cut

-----------------------------------------------------------------------------
(* A side that reads after a step did so before.                           *)
LEMMA ReadingBefore ==
    ASSUME StatusTypes, [Next]_vars, NEW side \in Sides, Reading(side)'
    PROVE  Reading(side)
<1> USE DEF Reading, StatusTypes
<1>1. ASSUME NEW k \in Calls, CallStep(k) PROVE Reading(side)
  BY <1>1, CallStepKeeps
<1>2. ASSUME ModuleReads \/ HostReads PROVE Reading(side)
  <2>1. \E t \in Sides : /\ UNCHANGED gone /\ Reading(t)
                         /\ \E where \in ReaderStates : Reader(t, where)
    BY <1>2 DEF ModuleReads, RejectCall, ReceiveArguments, RunStandard, StartStreaming,
                NoSuchProcedure, LastPiece, ReadOn, HostReads, ReceiveResponse, UnmapResponse,
                NoResponseBuffer, Reads, Sides, ReaderStates
  <2> QED BY <2>1 DEF Reader
<1>3. ASSUME YieldStep PROVE Reading(side)
  BY <1>3 DEF YieldStep, Yield, YieldFails, status
<1>4. ASSUME NEW t \in Sides, SideStep(t) PROVE Reading(side)
  <2>1. gone \subseteq gone'
    BY <1>4 DEF SideStep, ReceiveTermination, EndOfFile, SweepTerminated, Leave, SweepDropped,
                Flush, WriteMessage, FlushEnds, SeeTermination, WriteFails, SignalTermination,
                Crash, status
  <2>2. \/ UNCHANGED thread
        \/ \E where \in {"sweep", "drop"} : Reader(t, where)
        \/ \E where : Writer(t, where)
        \/ \E role \in Roles, where \in {"drop", "stopped"} :
             thread' = [thread EXCEPT ![t][role] = where]
        \/ t \in gone'
    BY <1>4 DEF SideStep, ReceiveTermination, EndOfFile, SweepTerminated, Leave, SweepDropped,
                Flush, WriteMessage, FlushEnds, SeeTermination, WriteFails, SignalTermination,
                Crash, status
  <2>3. thread'[side].reader \in {"running", "unmap"} => thread[side].reader \in {"running", "unmap"}
    <3>1. CASE \E where \in {"sweep", "drop"} : Reader(t, where)
      BY <3>1 DEF Reader
    <3>2. CASE \E where : Writer(t, where)
      BY <3>2 DEF Writer
    <3>3. ASSUME NEW role \in Roles, NEW where \in {"drop", "stopped"},
                 thread' = [thread EXCEPT ![t][role] = where]
          PROVE  thread'[side].reader \in {"running", "unmap"} => thread[side].reader \in {"running", "unmap"}
      BY <3>3 DEF Roles
    <3>4. CASE t \in gone'
      <4>1. CASE Crash(t)
        <5>1. thread' = [thread EXCEPT ![t] = [reader |-> "stopped", writer |-> "stopped"]]
          BY <4>1 DEF Crash
        <5> QED BY <5>1
      <4>2. CASE ~Crash(t)
        <5>1. UNCHANGED gone
          BY <1>4, <4>2 DEF SideStep, ReceiveTermination, EndOfFile, SweepTerminated, Leave,
                SweepDropped, Flush, WriteMessage, FlushEnds, SeeTermination, WriteFails,
                SignalTermination, status
        <5>2. FALSE
          BY <1>4, <3>4, <4>2, <5>1 DEF SideStep, ReceiveTermination, EndOfFile, SweepTerminated,
                Leave, SweepDropped, Flush, WriteMessage, FlushEnds, SeeTermination, WriteFails,
                SignalTermination, Reads, Writes
        <5> QED BY <5>2
      <4> QED BY <4>1, <4>2
    <3> QED BY <2>2, <3>1, <3>2, <3>3, <3>4
  <2> QED BY <2>1, <2>3
<1>5. CASE UNCHANGED vars
  BY <1>5 DEF vars, status
<1> QED BY <1>1, <1>2, <1>3, <1>4, <1>5, NextSteps

(* Of the steps that do not read, those of a side only move what it has on *)
(* its way, add a termination to it, or, when it crashes, lose the end of  *)
(* it: while the other side reads, nothing is lost from the middle.        *)
LEMMA SideStepOutgoing ==
    ASSUME Types, NEW side \in Sides, NEW t \in Sides, SideStep(t),
           Reading(Other(side)), Reading(Other(side))'
    PROVE  \/ Outgoing(side)' = Outgoing(side)
           \/ Gains(Outgoing(side), Outgoing(side)', Termination) /\ MaySignal # {}
           \/ Cut(Outgoing(side), Outgoing(side)') /\ Crash(side)
<1> DEFINE s == stream[side]
           q == queue[side]
<1>0. /\ s \in Seq(Messages) /\ q \in Seq(Messages)
      /\ DOMAIN stream = Sides /\ DOMAIN queue = Sides
      /\ thread \in [Sides -> [reader : ReaderStates, writer : WriterStates]]
      /\ Other(side) # side /\ Other(Other(side)) = side /\ Other(side) \in Sides
      /\ t = side \/ t = Other(side)
  BY DEF Types, TransportTypes, StatusTypes, Other, Sides
<1>1. CASE UNCHANGED <<queue, stream>>
  BY <1>1 DEF Outgoing
<1>2. CASE ReceiveTermination(t)
  <2>1. Consume(t) /\ UNCHANGED queue /\ Reader(t, "sweep")
    BY <1>2 DEF ReceiveTermination
  <2>2. CASE t = side
    BY <1>0, <2>1, <2>2 DEF Consume, Outgoing
  <2>3. CASE t = Other(side)
    BY <1>0, <2>1, <2>3 DEF Reader, Reading
  <2> QED BY <1>0, <2>2, <2>3
<1>3. CASE WriteMessage(t)
  <2>1. /\ queue[t] # <<>>
        /\ queue' = [queue EXCEPT ![t] = Tail(@)]
        /\ stream' = [stream EXCEPT ![t] = Append(@, Head(queue[t]))]
    BY <1>3 DEF WriteMessage
  <2>2. CASE t = side
    <3>1. queue'[side] = Tail(q) /\ stream'[side] = Append(s, Head(q))
      BY <1>0, <2>1, <2>2
    <3> QED BY <1>0, <2>1, <2>2, <3>1, JoinedMoves DEF Outgoing
  <2>3. CASE t = Other(side)
    BY <1>0, <2>1, <2>3 DEF Outgoing
  <2> QED BY <1>0, <2>2, <2>3
<1>4. CASE WriteFails(t)
  <2>1. /\ queue' = [queue EXCEPT ![t] = Tail(@)] /\ UNCHANGED stream
        /\ Other(t) \in gone \/ thread[Other(t)].reader = "stopped"
    BY <1>4 DEF WriteFails
  <2>2. CASE t = side
    BY <2>1, <2>2 DEF Reading
  <2>3. CASE t = Other(side)
    BY <1>0, <2>1, <2>3 DEF Outgoing
  <2> QED BY <1>0, <2>2, <2>3
<1>5. CASE SignalTermination(t)
  <2>1. Enqueue(t, Termination) /\ UNCHANGED stream /\ MaySignal # {}
    BY <1>5 DEF SignalTermination
  <2>2. CASE t = side
    <3>1. queue'[side] = Append(q, Termination) /\ Termination \in Messages
      BY <1>0, <2>1, <2>2 DEF Enqueue, Messages
    <3> QED BY <1>0, <2>1, <3>1, JoinedGains DEF Outgoing
  <2>3. CASE t = Other(side)
    BY <1>0, <2>1, <2>3 DEF Outgoing, Enqueue
  <2> QED BY <1>0, <2>2, <2>3
<1>6. CASE Crash(t)
  <2>1. /\ gone' = gone \cup {t}
        /\ queue' = [queue EXCEPT ![t] = <<>>]
        /\ stream' = [stream EXCEPT ![Other(t)] = <<>>]
    BY <1>6 DEF Crash
  <2>2. CASE t = side
    <3>1. queue'[side] = <<>> /\ stream'[side] = s
      BY <1>0, <2>1, <2>2
    <3> QED BY <1>0, <1>6, <2>2, <3>1, JoinedCut DEF Outgoing
  <2>3. CASE t = Other(side)
    BY <2>1, <2>3 DEF Reading
  <2> QED BY <1>0, <2>2, <2>3
<1> QED BY <1>1, <1>2, <1>3, <1>4, <1>5, <1>6
        DEF SideStep, EndOfFile, SweepTerminated, Leave, SweepDropped, Flush, FlushEnds,
            SeeTermination, transport

(* A caller never goes back, and keeps the key it has.                     *)
LEMMA CallersAdvance ==
    ASSUME Types, [Next]_vars, NEW k \in Calls
    PROVE  /\ caller[k].pc \notin Unsent => caller'[k].pc \notin Unsent
           /\ caller[k].pc \notin Unended => caller'[k].pc \notin Unended
           /\ Keyed(k) => caller'[k].key = caller[k].key /\ Keyed(k)'
<1> USE DEF Types, Unsent, Unended
<1>1. ASSUME NEW j \in Calls, TakeIndex(j) \/ InsertIndex(j)
      PROVE  /\ caller[k].pc \notin Unsent => caller'[k].pc \notin Unsent
             /\ caller[k].pc \notin Unended => caller'[k].pc \notin Unended
             /\ Keyed(k) => caller'[k].key = caller[k].key
  <2>1. caller[j].pc \in {"idle", "first"}
    BY <1>1 DEF TakeIndex, InsertIndex, At
  <2> QED BY <1>1, <2>1, IndexTaken
<1>2. ASSUME \A j \in Calls : ~TakeIndex(j) /\ ~InsertIndex(j)
      PROVE  /\ caller[k].pc \notin Unsent => caller'[k].pc \notin Unsent
             /\ caller[k].pc \notin Unended => caller'[k].pc \notin Unended
             /\ Keyed(k) => caller'[k].key = caller[k].key
  <2>1. caller'[k].key = caller[k].key
    BY <1>2, KeysStay
  <2>2. caller'[k].pc # caller[k].pc =>
          \/ caller[k].pc = "idle" /\ caller'[k].pc \in {"first", "failed"}
          \/ caller[k].pc = "push" /\ caller'[k].pc = "send"
          \/ caller[k].pc = "send" /\ caller'[k].pc \in {"end", "lookup", "failed"}
          \/ caller[k].pc = "end" /\ caller'[k].pc \in {"lookup", "failed"}
          \/ caller[k].pc \notin Unended \cup {"failed"} /\ caller'[k].pc \notin Unended
    BY <1>2, CallerPoints
  <2> QED BY <2>1, <2>2
<1> QED BY <1>1, <1>2 DEF Keyed

-----------------------------------------------------------------------------
(* The messages of different calls differ, and so do those of one call.    *)
LEMMA PiecesDiffer ==
    ASSUME KeysDiffer, NEW j \in Calls, NEW k \in Calls, Keyed(j)
    PROVE  /\ FinalPiece(j) = FinalPiece(k) => j = k
           /\ FirstPiece(j) = FirstPiece(k) => j = k
           /\ FinalPiece(j) # FirstPiece(k) /\ FirstPiece(j) # FinalPiece(k)
           /\ FinalPiece(j) # Termination /\ FirstPiece(j) # Termination
<1>1. caller[j].key = caller[k].key => j = k
  BY DEF KeysDiffer
<1>2. /\ FinalPiece(j).key = caller[j].key /\ FinalPiece(k).key = caller[k].key
      /\ FirstPiece(j).key = caller[j].key /\ FirstPiece(k).key = caller[k].key
      /\ FinalPiece(j).last = TRUE /\ FinalPiece(k).last = TRUE
      /\ FirstPiece(j).last = FALSE /\ FirstPiece(k).last = FALSE
      /\ FinalPiece(j).type = "call" /\ FirstPiece(j).type = "call"
      /\ Termination.type = "termination"
  BY DEF FinalPiece, FirstPiece, CallMessage, Termination
<1> QED BY <1>1, <1>2

(* The message at the head of what the module reads.                       *)
LEMMA ModuleHead ==
    ASSUME Types, Reads("module", "call")
    PROVE  /\ ToModule[1] = Message("module") /\ Len(ToModule) \in Nat \ {0}
           /\ ModuleReading
           /\ Consume("module") /\ UNCHANGED queue["host"] => Loses(ToModule, ToModule')
<1>1. /\ stream["host"] \in Seq(Messages) /\ queue["host"] \in Seq(Messages)
      /\ stream["host"] # <<>> /\ DOMAIN stream = Sides /\ "host" \in Sides
  BY DEF Types, TransportTypes, Sides, Reads, Other
<1>2. Consume("module") => stream'["host"] = Tail(stream["host"])
  BY <1>1 DEF Consume, Other
<1> QED BY <1>1, <1>2, JoinedLoses DEF ToModule, Outgoing, Message, Other, Reads, ModuleReading, Reading

(* It is a piece of a call that has not run.                               *)
LEMMA HeadCall ==
    ASSUME Types, CallInv, Reads("module", "call")
    PROVE  \E k \in Calls :
             /\ Keyed(k) /\ Message("module").key = caller[k].key
             /\ \/ /\ Message("module") = FinalPiece(k) /\ Message("module").last
                   /\ caller[k].pc \notin Unended
                   /\ ~Ran(k)
                \/ /\ Message("module") = FirstPiece(k) /\ ~Message("module").last
                   /\ caller[k].pc \notin Unsent
                   /\ k \in Partial
<1>1. /\ ToModule[1] = Message("module") /\ 1 \in 1 .. Len(ToModule) /\ CallsOnTheirWay
  BY ModuleHead DEF CallInv
<1>2. Message("module").type = "call" /\ Termination.type # "call"
  BY DEF Reads, Message, Termination
<1>3. PICK k \in Calls :
           /\ Keyed(k)
           /\ \/ /\ ToModule[1] = FinalPiece(k)
                 /\ caller[k].pc \notin Unended
                 /\ ~Ran(k)
              \/ /\ ToModule[1] = FirstPiece(k)
                 /\ caller[k].pc \notin Unsent
                 /\ k \in Partial
  BY <1>1, <1>2 DEF CallsOnTheirWay, CallsDue
<1>4. /\ FinalPiece(k).key = caller[k].key /\ FirstPiece(k).key = caller[k].key
      /\ FinalPiece(k).last = TRUE /\ FirstPiece(k).last = FALSE
  BY DEF FinalPiece, FirstPiece, CallMessage
<1> QED BY <1>1, <1>3, <1>4

(* A call is put together from its own pieces.                             *)
LEMMA WholeCall ==
    ASSUME Types, KeysDiffer, CallInv, Reads("module", "call"), NEW k \in Calls, Keyed(k),
           \/ Message("module") = FinalPiece(k)
           \/ Message("module") = FirstPiece(k) /\ k \in Partial
    PROVE  Accumulated(Message("module").key, Message("module").body) = <<k>>
<1>1. /\ ToModule[1] = Message("module") /\ Len(ToModule) \in Nat \ {0}
      /\ ArgumentsArrived /\ PiecesInOrder
  BY ModuleHead DEF CallInv
<1>2. caller[k].key \in Keys /\ arguments[caller[k].key] \in Seq(Calls) \cup {None}
      /\ <<k>> # None
  BY CallsAssumption DEF Types, HostTypes, ModuleTypes, Keyed
<1>3. ASSUME arguments[caller[k].key] # None
      PROVE  /\ k \in Partial /\ arguments[caller[k].key] = <<k>>
             /\ ToModule[1] # FirstPiece(k)
  BY <1>1, <1>2, <1>3 DEF ArgumentsArrived, KeysDiffer
<1>4. CASE Message("module") = FirstPiece(k) /\ k \in Partial
  <2>1. Message("module").key = caller[k].key /\ Message("module").body = <<k>>
    BY <1>4 DEF FirstPiece, CallMessage
  <2> QED BY <1>1, <1>3, <1>4, <2>1 DEF Accumulated
<1>5. CASE Message("module") = FinalPiece(k) /\ k \notin Partial
  <2>1. Message("module").key = caller[k].key /\ Message("module").body = <<k>>
    BY <1>5 DEF FinalPiece, CallMessage
  <2> QED BY <1>3, <1>5, <2>1 DEF Accumulated
<1>6. CASE Message("module") = FinalPiece(k) /\ k \in Partial
  <2>1. Message("module").key = caller[k].key /\ Message("module").body = <<>>
    BY <1>6 DEF FinalPiece, CallMessage
  <2>2. Started(k, 1 - 1)
    BY <1>1, <1>6 DEF PiecesInOrder
  <2>3. arguments[caller[k].key] = <<k>>
    BY <2>2 DEF Started
  <2>4. <<k>> \o <<>> = <<k>>
    BY ConcatEmptySeq
  <2> QED BY <1>2, <2>1, <2>3, <2>4 DEF Accumulated
<1> QED BY <1>4, <1>5, <1>6

-----------------------------------------------------------------------------
(* What a step means for the calls on their way to a module that reads: a  *)
(* piece is sent, the first piece is read, the last piece is read and the  *)
(* procedure runs, a call is rejected (if calls come in one piece), or     *)
(* nothing that matters.                                                   *)
PieceSent(k) ==
    /\ Keyed(k)
    /\ UNCHANGED <<arguments, runs>>
    /\ \A j \in Calls : j # k => caller'[j].pc = caller[j].pc
    /\ \/ /\ caller[k].pc = "send" /\ caller'[k].pc = "end" /\ k \in Partial
          /\ Gains(ToModule, ToModule', FirstPiece(k))
       \/ /\ caller[k].pc = (IF k \in Partial THEN "end" ELSE "send")
          /\ caller'[k].pc = "lookup"
          /\ Gains(ToModule, ToModule', FinalPiece(k))

FirstRead(k) ==
    /\ Keyed(k) /\ k \in Partial /\ caller[k].pc \notin Unsent
    /\ UNCHANGED <<caller, runs>>
    /\ ToModule[1] = FirstPiece(k) /\ Loses(ToModule, ToModule')
    /\ arguments' = [arguments EXCEPT ![caller[k].key] = <<k>>]

FinalRead(k) ==
    /\ Keyed(k) /\ ~Ran(k) /\ caller[k].pc \notin Unended
    /\ UNCHANGED caller
    /\ ToModule[1] = FinalPiece(k) /\ Loses(ToModule, ToModule')
    /\ arguments' = [arguments EXCEPT ![caller[k].key] = None]
    /\ runs' = Append(runs, <<k>>)

Rejected ==
    /\ Partial = {}
    /\ UNCHANGED <<caller, runs, arguments>>
    /\ Loses(ToModule, ToModule')

Aside ==
    /\ UNCHANGED runs
    /\ \A k \in Calls : caller'[k].pc = "end" => caller[k].pc = "end"
    /\ \A key \in Keys : arguments'[key] \in {arguments[key], None}
    /\ Partial # {} => UNCHANGED arguments
    /\ \/ ToModule' = ToModule
       \/ Gains(ToModule, ToModule', Termination) /\ MaySignal # {}
       \/ Cut(ToModule, ToModule') /\ Partial = {}

(* With a limit that calls cannot reach, nothing is rejected.              *)
LEMMA RoomForCalls ==
    ASSUME OngoingKeyed, NEW k \in Calls, Keyed(k), Cardinality(Calls) <= MaxOngoing
    PROVE  ~TooMany(caller[k].key)
<1> DEFINE key == caller[k].key
           f == [j \in Calls |-> caller[j].key]
           All == {caller[j].key : j \in Calls}
<1>1. IsFiniteSet(All) /\ Cardinality(All) <= Cardinality(Calls) /\ Cardinality(Calls) \in Nat
  <2>1. f \in Surjection(Calls, All)
    BY DEF Surjection
  <2> HIDE DEF f, All
  <2> QED BY <2>1, FS_Surjection, CallsAssumption, FS_CardinalityType
<1>2. ongoing_procedures \subseteq All /\ key \in All
  BY DEF OngoingKeyed
<1> HIDE DEF All
<1>3. ASSUME key \notin ongoing_procedures
      PROVE  Cardinality(ongoing_procedures) < MaxOngoing
  <2>1. ongoing_procedures \cup {key} \in SUBSET All
    BY <1>2
  <2>2. /\ IsFiniteSet(ongoing_procedures) /\ Cardinality(ongoing_procedures) \in Nat
        /\ Cardinality(ongoing_procedures \cup {key}) <= Cardinality(All)
        /\ Cardinality(All) \in Nat
    BY <1>1, <1>2, <2>1, FS_Subset, FS_CardinalityType
  <2>3. Cardinality(ongoing_procedures \cup {key}) = Cardinality(ongoing_procedures) + 1
    BY <1>3, <2>2, FS_AddElement
  <2> QED BY <1>1, <2>2, <2>3, LimitAssumption
<1>4. OngoingKeyed => Cardinality(ongoing_procedures) \in Nat
  BY <1>1, <1>2, FS_Subset, FS_CardinalityType
<1> QED BY <1>3, <1>4, LimitAssumption DEF TooMany

LEMMA ModuleReadEffect ==
    ASSUME PiecesKept, Types, KeysDiffer, CallInv, OngoingKeyed, ModuleReads, ModuleReading'
    PROVE  \/ \E k \in Calls : FirstRead(k) \/ FinalRead(k)
           \/ Rejected
<1> DEFINE call == Message("module")
<1>1. /\ Reads("module", "call") /\ Consume("module") /\ UNCHANGED queue["host"]
      /\ UNCHANGED caller
  <2>1. Reads("module", "call") /\ Consume("module") /\ UNCHANGED caller
    BY DEF ModuleReads, RejectCall, ReceiveArguments, RunStandard, StartStreaming,
           NoSuchProcedure, LastPiece, host
  <2>2. UNCHANGED queue \/ \E m : Enqueue("module", m)
    BY DEF ModuleReads, RejectCall, ReceiveArguments, RunStandard, StartStreaming,
           NoSuchProcedure, transport
  <2> QED BY <2>1, <2>2 DEF Enqueue, Types, TransportTypes, Sides
<1>2. ToModule[1] = call /\ Loses(ToModule, ToModule')
  BY <1>1, ModuleHead
<1>3. PICK k \in Calls :
           /\ Keyed(k) /\ call.key = caller[k].key
           /\ \/ /\ call = FinalPiece(k) /\ call.last
                 /\ caller[k].pc \notin Unended
                 /\ ~Ran(k)
              \/ /\ call = FirstPiece(k) /\ ~call.last
                 /\ caller[k].pc \notin Unsent
                 /\ k \in Partial
  BY <1>1, HeadCall
<1>4. Accumulated(call.key, call.body) = <<k>>
  BY <1>1, <1>3, WholeCall
<1> HIDE DEF call
<1>5. CASE RejectCall
  <2>1. Partial = {}
    BY <1>3, <1>5, RoomForCalls DEF RejectCall, PiecesKept, Undisturbed, call
  <2> QED BY <1>1, <1>2, <1>5, <2>1 DEF RejectCall, Rejected, module
<1>6. CASE ReceiveArguments
  <2>1. /\ ~call.last /\ UNCHANGED runs
        /\ arguments' = [arguments EXCEPT ![call.key] = Accumulated(call.key, call.body)]
    BY <1>6 DEF ReceiveArguments, call
  <2> QED BY <1>1, <1>2, <1>3, <1>4, <2>1 DEF FirstRead
<1>7. CASE RunStandard \/ StartStreaming
  <2>1. /\ call.last
        /\ arguments' = [arguments EXCEPT ![call.key] = None]
        /\ runs' = Append(runs, Accumulated(call.key, call.body))
    BY <1>7 DEF RunStandard, StartStreaming, LastPiece, call
  <2> QED BY <1>1, <1>2, <1>3, <1>4, <2>1 DEF FinalRead
<1>8. CASE NoSuchProcedure
  <2>1. Reader("module", "leave")
    BY <1>8 DEF NoSuchProcedure
  <2> QED BY <2>1 DEF Reader, ModuleReading, Reading, Types, StatusTypes, Sides
<1> QED BY <1>5, <1>6, <1>7, <1>8 DEF ModuleReads

LEMMA CallStepEffect ==
    ASSUME Types, [Next]_vars, NEW k \in Calls, CallStep(k)
    PROVE  PieceSent(k) \/ Aside
<1>1. /\ UNCHANGED <<arguments, runs, stream>>
      /\ stream["host"] \in Seq(Messages) /\ queue["host"] \in Seq(Messages)
      /\ DOMAIN queue = Sides /\ "host" \in Sides
  BY CallStepKeeps DEF Types, TransportTypes, Sides
<1>2. ASSUME NEW m \in Messages, Enqueue("host", m) PROVE Gains(ToModule, ToModule', m)
  <2>1. queue'["host"] = Append(queue["host"], m)
    BY <1>1, <1>2 DEF Enqueue
  <2> QED BY <1>1, <2>1, JoinedGains DEF ToModule, Outgoing
<1>3. caller[k].pc \in {"send", "end"} =>
        Keyed(k) /\ FinalPiece(k) \in Messages /\ FirstPiece(k) \in Messages
  <2>1. caller[k].pc \in {"send", "end"} => Keyed(k) /\ caller[k].key \in Keys
    BY DEF Types, KeyTypes, HostTypes, Keyed
  <2>2. <<k>> \in Seq(Calls) /\ <<>> \in Seq(Calls)
    OBVIOUS
  <2> QED BY <2>1, <2>2, CallMessageTyped DEF FinalPiece, FirstPiece
<1>4. CASE SendWhole(k)
  <2>1. /\ caller[k].pc = "send" /\ k \notin Partial
        /\ Enqueue("host", FinalPiece(k)) /\ Goto(k, "lookup")
    BY <1>4 DEF SendWhole, At, FinalPiece
  <2>2. /\ Keyed(k) /\ caller'[k].pc = "lookup" /\ Gains(ToModule, ToModule', FinalPiece(k))
        /\ \A j \in Calls : j # k => caller'[j].pc = caller[j].pc
    BY <1>2, <1>3, <2>1, GotoMoves DEF Types, CallerStates
  <2> QED BY <1>1, <2>1, <2>2 DEF PieceSent
<1>5. CASE SendPiece(k) /\ ~terminated["host"]
  <2>1. /\ k \in Partial
        /\ \/ /\ caller[k].pc = "send" /\ Enqueue("host", FirstPiece(k)) /\ Goto(k, "end")
           \/ /\ caller[k].pc = "end" /\ Enqueue("host", FinalPiece(k)) /\ Goto(k, "lookup")
    BY <1>5 DEF SendPiece, At, FinalPiece, FirstPiece
  <2>2. CASE caller[k].pc = "send" /\ Enqueue("host", FirstPiece(k)) /\ Goto(k, "end")
    <3>1. /\ Keyed(k) /\ caller'[k].pc = "end" /\ Gains(ToModule, ToModule', FirstPiece(k))
          /\ \A j \in Calls : j # k => caller'[j].pc = caller[j].pc
      BY <1>2, <1>3, <2>2, GotoMoves DEF Types, CallerStates
    <3> QED BY <1>1, <2>1, <2>2, <3>1 DEF PieceSent
  <2>3. CASE caller[k].pc = "end" /\ Enqueue("host", FinalPiece(k)) /\ Goto(k, "lookup")
    <3>1. /\ Keyed(k) /\ caller'[k].pc = "lookup" /\ Gains(ToModule, ToModule', FinalPiece(k))
          /\ \A j \in Calls : j # k => caller'[j].pc = caller[j].pc
      BY <1>2, <1>3, <2>3, GotoMoves DEF Types, CallerStates
    <3> QED BY <1>1, <2>1, <2>3, <3>1 DEF PieceSent
  <2> QED BY <2>1, <2>2, <2>3
<1>6. CASE ~SendWhole(k) /\ ~(SendPiece(k) /\ ~terminated["host"])
  <2>1. UNCHANGED queue
    BY <1>6 DEF CallStep, Refuse, TakeIndex, FindNoIndex, InsertIndex, PushResponse, SendPiece,
                LookUpResponse, Register, Return, FailPoisoned, Unregister, transport
  <2>2. ASSUME NEW j \in Calls, caller'[j].pc = "end" PROVE caller[j].pc = "end"
    <3>1. CASE \E i \in Calls : TakeIndex(i) \/ InsertIndex(i)
      <4>1. PICK i \in Calls : TakeIndex(i) \/ InsertIndex(i)
        BY <3>1
      <4> QED BY <2>2, <4>1, IndexTaken
    <3>2. CASE \A i \in Calls : ~TakeIndex(i) /\ ~InsertIndex(i)
      <4>1. SUFFICES ASSUME caller[j].pc # "end" PROVE FALSE
        OBVIOUS
      <4>2. caller[j].pc = "send" /\ (SendWhole(j) \/ SendPiece(j))
        BY <2>2, <3>2, <4>1, CallerPoints DEF Types, Unended, Unsent
      <4>3. CASE SendPiece(j) /\ ~terminated["host"]
        <5>1. \E m : queue'["host"] = Append(queue["host"], m)
          BY <1>1, <4>2, <4>3 DEF SendPiece, At, Enqueue
        <5>2. PICK m : queue["host"] = Append(queue["host"], m)
          BY <2>1, <5>1
        <5>3. Len(Append(queue["host"], m)) = Len(queue["host"]) + 1 /\ Len(queue["host"]) \in Nat
          BY <1>1
        <5> QED BY <5>2, <5>3
      <4>4. CASE SendWhole(j)
        <5>1. Goto(j, "lookup")
          BY <4>4 DEF SendWhole
        <5> QED BY <2>2, <5>1, GotoMoves DEF Types, CallerStates
      <4>5. CASE SendPiece(j) /\ terminated["host"]
        <5>1. Goto(j, "failed")
          BY <4>5 DEF SendPiece
        <5> QED BY <2>2, <5>1, GotoMoves DEF Types, CallerStates
      <4> QED BY <4>2, <4>3, <4>4, <4>5
    <3> QED BY <3>1, <3>2
  <2> QED BY <1>1, <2>1, <2>2 DEF Aside, ToModule, Outgoing
<1> QED BY <1>4, <1>5, <1>6

LEMMA OtherEffect ==
    ASSUME PiecesKept, Types, CallInv, ModuleReading, ModuleReading',
           HostReads \/ YieldStep \/ UNCHANGED vars \/ \E t \in Sides : SideStep(t)
    PROVE  Aside
<1>0. /\ "host" \in Sides /\ "module" \in Sides /\ Other("host") = "module"
      /\ DOMAIN stream = Sides /\ DOMAIN queue = Sides
  BY DEF Sides, Other, Types, TransportTypes
<1>1. CASE HostReads
  <2>1. stream'["host"] = stream["host"]
    BY <1>0, <1>1 DEF HostReads, ReceiveResponse, UnmapResponse, NoResponseBuffer, Consume
  <2> QED BY <1>1, <2>1, HostReadKeeps DEF Aside, ToModule, Outgoing
<1>2. CASE YieldStep
  <2>1. UNCHANGED <<stream, arguments, runs>> /\ queue'["host"] = queue["host"]
    BY <1>0, <1>2 DEF YieldStep, Yield, YieldFails, Enqueue, transport
  <2> QED BY <1>2, <2>1, ModuleStepKeeps DEF Aside, ToModule, Outgoing
<1>3. CASE UNCHANGED vars
  BY <1>3 DEF vars, host, module, transport, Aside, ToModule, Outgoing
<1>4. ASSUME NEW t \in Sides, SideStep(t) PROVE Aside
  <2>1. UNCHANGED <<runs, caller>>
    BY <1>4, SideStepKeeps
  <2>2. \/ ToModule' = ToModule
        \/ Gains(ToModule, ToModule', Termination) /\ MaySignal # {}
        \/ Cut(ToModule, ToModule') /\ Crash("host")
    BY <1>0, <1>4, SideStepOutgoing DEF ToModule, ModuleReading
  <2>3. Crash("host") => Partial = {}
    BY DEF Crash, PiecesKept, Undisturbed
  <2>4. ~Crash("module")
    BY <1>0 DEF Crash, ModuleReading, Reading
  <2>5. \A key \in Keys : arguments'[key] \in {arguments[key], None}
    BY <1>4, <2>4, SideStepKeeps
  <2>6. ASSUME Partial # {} PROVE UNCHANGED arguments
    <3>1. thread["module"].writer \in {"idle", "writing"} /\ thread["module"].reader \in {"running", "unmap"}
      BY <2>6, <1>0 DEF CallInv, Calm, ModuleReading, Reading
    <3>2. \A role \in Roles : ~SweepDropped("module", role)
      BY <3>1 DEF SweepDropped, Roles
    <3>3. ~SweepTerminated("module")
      BY <3>1 DEF SweepTerminated
    <3>4. t = "host" => UNCHANGED arguments
      BY <1>4 DEF SideStep, ReceiveTermination, EndOfFile, SweepTerminated, Leave, SweepDropped,
                  Flush, WriteMessage, FlushEnds, SeeTermination, WriteFails, SignalTermination,
                  Crash, Sweep, module
    <3>5. t = "module" => UNCHANGED arguments
      BY <1>4, <2>4, <3>2, <3>3 DEF SideStep, ReceiveTermination, EndOfFile, Leave, Flush,
                  WriteMessage, FlushEnds, SeeTermination, WriteFails, SignalTermination, module
    <3> QED BY <3>4, <3>5 DEF Sides
  <2> QED BY <2>1, <2>2, <2>3, <2>5, <2>6 DEF Aside
<1> QED BY <1>1, <1>2, <1>3, <1>4

LEMMA ToModuleEffect ==
    ASSUME PiecesKept, Types, KeysDiffer, CallInv, OngoingKeyed, [Next]_vars, ModuleReading'
    PROVE  /\ ModuleReading
           /\ \/ \E k \in Calls : PieceSent(k) \/ FirstRead(k) \/ FinalRead(k)
              \/ Rejected \/ Aside
<1>1. ModuleReading
  BY ReadingBefore DEF Types, ModuleReading, Sides
<1> QED BY <1>1, NextSteps, CallStepEffect, ModuleReadEffect, OtherEffect

-----------------------------------------------------------------------------
(* Running a procedure with the arguments <<k>> adds k to the calls that   *)
(* have run.                                                               *)
LEMMA RanAfter ==
    ASSUME Types, NEW k \in Calls, runs' = Append(runs, <<k>>)
    PROVE  /\ \A j \in Calls : Ran(j)' <=> (Ran(j) \/ j = k)
           /\ RunsIntact /\ ~Ran(k) => RunsIntact'
<1>1. runs \in Seq(Seq(Calls)) /\ <<k>> \in Seq(Calls)
  BY DEF Types, ModuleTypes
<1>2. /\ DOMAIN runs = 1 .. Len(runs) /\ DOMAIN runs' = 1 .. (Len(runs) + 1) /\ Len(runs) \in Nat
      /\ \A i \in 1 .. Len(runs) : runs'[i] = runs[i]
      /\ runs'[Len(runs) + 1] = <<k>>
  BY <1>1, AppendProperties, LenProperties
<1>3. \A i \in DOMAIN runs' : i \in DOMAIN runs \/ i = Len(runs) + 1
  BY <1>2
<1>4. \A j \in Calls : <<j>> = <<k>> => j = k
  OBVIOUS
<1>5. \A j \in Calls : Ran(j)' <=> (Ran(j) \/ j = k)
  BY <1>2, <1>3, <1>4 DEF Ran
<1>6. ASSUME RunsIntact, ~Ran(k) PROVE RunsIntact'
  <2>1. \A i \in DOMAIN runs : runs[i] # <<k>>
    BY <1>6 DEF Ran
  <2> QED BY <1>2, <1>3, <1>6, <2>1 DEF RunsIntact
<1> QED BY <1>5, <1>6

(* Runs that are left alone leave what has run alone.                      *)
LEMMA RanSame ==
    ASSUME UNCHANGED runs
    PROVE  /\ \A j \in Calls : Ran(j)' <=> Ran(j)
           /\ RunsIntact => RunsIntact'
BY DEF Ran, RunsIntact

-----------------------------------------------------------------------------
LEMMA ToModuleTyped ==
    ASSUME Types
    PROVE  ToModule \in Seq(Messages) /\ Len(ToModule) \in Nat
<1>1. ToModule \in Seq(Messages)
  BY ConcatProperties DEF ToModule, Outgoing, Types, TransportTypes, Sides
<1> QED BY <1>1, LenProperties

(* A call that has its key keeps its messages.                             *)
LEMMA PiecesStay ==
    ASSUME Types, [Next]_vars, NEW k \in Calls, Keyed(k)
    PROVE  Keyed(k)' /\ FinalPiece(k)' = FinalPiece(k) /\ FirstPiece(k)' = FirstPiece(k)
BY CallersAdvance DEF FinalPiece, FirstPiece

(* What may be on its way may still be after a step, but for the call that *)
(* has run.                                                                *)
LEMMA CallsDueStep ==
    ASSUME Types, [Next]_vars
    PROVE  /\ UNCHANGED runs => CallsDue \subseteq CallsDue'
           /\ \A k \in Calls : FinalRead(k) => CallsDue \ {FinalPiece(k)} \subseteq CallsDue'
<1> DEFINE Ended(j) == Keyed(j) /\ caller[j].pc \notin Unended /\ ~Ran(j)
<1>1. \A j \in Calls : /\ Keyed(j) => /\ Keyed(j)'
                                      /\ FinalPiece(j)' = FinalPiece(j)
                                      /\ FirstPiece(j)' = FirstPiece(j)
                       /\ caller[j].pc \notin Unsent => caller'[j].pc \notin Unsent
                       /\ caller[j].pc \notin Unended => caller'[j].pc \notin Unended
  BY PiecesStay, CallersAdvance
<1>2. ASSUME NEW m \in CallsDue,
             \A j \in Calls : m = FinalPiece(j) /\ Ended(j) => (Ran(j)' <=> Ran(j))
      PROVE  m \in CallsDue'
  <2>1. CASE m = Termination /\ MaySignal # {}
    BY <2>1 DEF CallsDue
  <2>2. ASSUME NEW j \in Calls \cap Partial, m = FirstPiece(j), Keyed(j), caller[j].pc \notin Unsent
        PROVE  m \in CallsDue'
    BY <1>1, <2>2 DEF CallsDue
  <2>3. ASSUME NEW j \in Calls, m = FinalPiece(j), Ended(j)
        PROVE  m \in CallsDue'
    <3>1. /\ m = FinalPiece(j)' /\ Keyed(j)' /\ caller'[j].pc \notin Unended /\ ~Ran(j)'
      BY <1>1, <1>2, <2>3
    <3> QED BY <3>1 DEF CallsDue
  <2> QED BY <2>1, <2>2, <2>3 DEF CallsDue
<1>3. UNCHANGED runs => CallsDue \subseteq CallsDue'
  BY <1>2 DEF Ran
<1>4. ASSUME NEW k \in Calls, FinalRead(k) PROVE CallsDue \ {FinalPiece(k)} \subseteq CallsDue'
  <2>1. \A j \in Calls : j # k => (Ran(j)' <=> Ran(j))
    BY <1>4, RanAfter DEF FinalRead
  <2> QED BY <1>2, <2>1
<1> QED BY <1>3, <1>4

(* Each part of the invariant about the calls on their way, step by step.  *)
LEMMA CallsOnTheirWayStep ==
    ASSUME PiecesKept, Types, KeysDiffer, CallInv, OngoingKeyed, RunInv, [Next]_vars, ModuleReading'
    PROVE  CallsOnTheirWay'
<1>0. ModuleReading /\ CallsOnTheirWay /\ CallsOnce /\ Len(ToModule) \in Nat
  BY ToModuleEffect, ToModuleTyped DEF CallInv
<1>1. ASSUME CallsDue \subseteq CallsDue',
             \/ ToModule' = ToModule
             \/ Loses(ToModule, ToModule')
             \/ Cut(ToModule, ToModule')
             \/ \E m \in CallsDue' : Gains(ToModule, ToModule', m)
      PROVE  CallsOnTheirWay'
  BY <1>0, <1>1 DEF CallsOnTheirWay, Loses, Cut, Gains
<1>2. UNCHANGED runs => CallsDue \subseteq CallsDue'
  BY CallsDueStep
<1>3. ASSUME NEW k \in Calls, PieceSent(k) PROVE CallsOnTheirWay'
  <2>1. Keyed(k)' /\ FinalPiece(k)' = FinalPiece(k) /\ FirstPiece(k)' = FirstPiece(k)
    BY <1>3, PiecesStay DEF PieceSent
  <2>2. CASE k \in Partial /\ caller'[k].pc = "end" /\ Gains(ToModule, ToModule', FirstPiece(k))
    <3>1. FirstPiece(k) \in CallsDue'
      BY <2>1, <2>2 DEF CallsDue, Unsent
    <3> QED BY <1>1, <1>2, <1>3, <2>2, <3>1 DEF PieceSent
  <2>3. CASE /\ caller[k].pc \in Unended /\ caller'[k].pc = "lookup"
             /\ Gains(ToModule, ToModule', FinalPiece(k))
    <3>1. ~Ran(k)'
      BY <1>3, <2>3, RanSame DEF RunInv, PieceSent
    <3>2. FinalPiece(k) \in CallsDue'
      BY <2>1, <2>3, <3>1 DEF CallsDue, Unended, Unsent
    <3> QED BY <1>1, <1>2, <1>3, <2>3, <3>2 DEF PieceSent
  <2> QED BY <1>3, <2>2, <2>3 DEF PieceSent, Unended, Unsent
<1>4. ASSUME NEW k \in Calls, FirstRead(k) PROVE CallsOnTheirWay'
  BY <1>1, <1>2, <1>4 DEF FirstRead
<1>5. ASSUME NEW k \in Calls, FinalRead(k) PROVE CallsOnTheirWay'
  <2>1. /\ Keyed(k) /\ ToModule[1] = FinalPiece(k) /\ Loses(ToModule, ToModule')
        /\ CallsDue \ {FinalPiece(k)} \subseteq CallsDue'
    BY <1>5, CallsDueStep DEF FinalRead
  <2>2. ASSUME NEW p \in 1 .. Len(ToModule') PROVE ToModule'[p] \in CallsDue'
    <3>1. /\ p + 1 \in 1 .. Len(ToModule) /\ 1 \in 1 .. Len(ToModule) /\ p + 1 # 1
          /\ ToModule'[p] = ToModule[p + 1]
      BY <1>0, <2>1 DEF Loses
    <3>2. ToModule[p + 1] # FinalPiece(k)
      BY <1>0, <2>1, <3>1, PiecesDiffer DEF CallsOnce
    <3> QED BY <1>0, <2>1, <3>1, <3>2 DEF CallsOnTheirWay
  <2> QED BY <2>2 DEF CallsOnTheirWay
<1>6. ASSUME Rejected PROVE CallsOnTheirWay'
  BY <1>1, <1>2, <1>6 DEF Rejected
<1>7. ASSUME Aside PROVE CallsOnTheirWay'
  <2>1. MaySignal # {} => Termination \in CallsDue'
    BY DEF CallsDue
  <2> QED BY <1>1, <1>2, <1>7, <2>1 DEF Aside
<1> QED BY <1>3, <1>4, <1>5, <1>6, <1>7, ToModuleEffect

LEMMA CallsOnceStep ==
    ASSUME PiecesKept, Types, KeysDiffer, CallInv, OngoingKeyed, RunInv, [Next]_vars, ModuleReading'
    PROVE  CallsOnce'
<1>0. /\ ModuleReading /\ CallsOnTheirWay /\ CallsOnce /\ Len(ToModule) \in Nat
  BY ToModuleEffect, ToModuleTyped DEF CallInv
<1>1. ASSUME \/ ToModule' = ToModule
             \/ Loses(ToModule, ToModule')
             \/ Cut(ToModule, ToModule')
             \/ Gains(ToModule, ToModule', Termination)
             \/ \E m : /\ Gains(ToModule, ToModule', m)
                       /\ \A p \in 1 .. Len(ToModule) : ToModule[p] # m
      PROVE  CallsOnce'
  <2>1. CASE ToModule' = ToModule
    BY <1>0, <2>1 DEF CallsOnce
  <2>2. CASE Loses(ToModule, ToModule')
    <3>1. \A p \in 1 .. Len(ToModule') :
             p + 1 \in 1 .. Len(ToModule) /\ ToModule'[p] = ToModule[p + 1]
      BY <1>0, <2>2 DEF Loses
    <3>2. ASSUME NEW p \in 1 .. Len(ToModule'), NEW q \in 1 .. Len(ToModule'),
                 ToModule'[p] = ToModule'[q], ToModule'[p] # Termination
          PROVE  p = q
      <4>1. p + 1 = q + 1
        BY <1>0, <3>1, <3>2 DEF CallsOnce
      <4> QED BY <4>1
    <3> QED BY <3>2 DEF CallsOnce
  <2>3. CASE Cut(ToModule, ToModule')
    BY <1>0, <2>3 DEF CallsOnce, Cut
  <2>4. ASSUME NEW m, Gains(ToModule, ToModule', m),
               m = Termination \/ \A p \in 1 .. Len(ToModule) : ToModule[p] # m
        PROVE  CallsOnce'
    BY <1>0, <2>4 DEF CallsOnce, Gains
  <2> QED BY <1>1, <2>1, <2>2, <2>3, <2>4
<1>2. ASSUME NEW k \in Calls, PieceSent(k) PROVE CallsOnce'
  <2>1. CASE caller[k].pc = "send" /\ Gains(ToModule, ToModule', FirstPiece(k))
    <3>1. FirstPiece(k) \notin CallsDue
      BY <1>2, <2>1, PiecesDiffer DEF PieceSent, CallsDue, Unsent
    <3> QED BY <1>0, <1>1, <2>1, <3>1 DEF CallsOnTheirWay
  <2>2. CASE caller[k].pc \in Unended /\ Gains(ToModule, ToModule', FinalPiece(k))
    <3>1. FinalPiece(k) \notin CallsDue
      BY <1>2, <2>2, PiecesDiffer DEF PieceSent, CallsDue
    <3> QED BY <1>0, <1>1, <2>2, <3>1 DEF CallsOnTheirWay
  <2> QED BY <1>2, <2>1, <2>2 DEF PieceSent, Unended, Unsent
<1>3. ASSUME NEW k \in Calls, FirstRead(k) \/ FinalRead(k) PROVE CallsOnce'
  BY <1>1, <1>3 DEF FirstRead, FinalRead
<1>4. ASSUME Rejected \/ Aside PROVE CallsOnce'
  BY <1>1, <1>4 DEF Rejected, Aside
<1> QED BY <1>2, <1>3, <1>4, ToModuleEffect

(* What the module has accumulated is not on its way any more.            *)
LEMMA ArgumentsArrivedStep ==
    ASSUME PiecesKept, Types, KeysDiffer, CallInv, OngoingKeyed, RunInv, [Next]_vars, ModuleReading'
    PROVE  ArgumentsArrived'
<1>0. /\ ModuleReading /\ CallsOnTheirWay /\ CallsOnce /\ ArgumentsArrived
      /\ Len(ToModule) \in Nat
  BY ToModuleEffect, ToModuleTyped DEF CallInv
<1>1. \A j \in Calls : Keyed(j) => /\ Keyed(j)' /\ caller'[j].key = caller[j].key
                                   /\ FirstPiece(j)' = FirstPiece(j)
                                   /\ caller[j].pc \notin Unsent => caller'[j].pc \notin Unsent
  BY PiecesStay, CallersAdvance
<1>2. ASSUME NEW key \in Keys, arguments[key] # None, arguments'[key] = arguments[key],
             \A j \in Calls : \A p \in 1 .. Len(ToModule') :
               /\ Keyed(j) /\ caller[j].pc \notin Unsent /\ ToModule'[p] = FirstPiece(j)
               => \E q \in 1 .. Len(ToModule) : ToModule[q] = FirstPiece(j)
      PROVE  \E k \in Partial \cap Calls :
               /\ Keyed(k)' /\ key = caller'[k].key
               /\ arguments'[key] = <<k>>
               /\ caller'[k].pc \notin Unsent
               /\ \A p \in 1 .. Len(ToModule') : ToModule'[p] # FirstPiece(k)'
  <2>1. PICK k \in Partial \cap Calls :
           /\ Keyed(k) /\ key = caller[k].key
           /\ arguments[key] = <<k>>
           /\ caller[k].pc \notin Unsent
           /\ \A p \in 1 .. Len(ToModule) : ToModule[p] # FirstPiece(k)
    BY <1>0, <1>2 DEF ArgumentsArrived
  <2> QED BY <1>1, <1>2, <2>1
<1>3. ASSUME NEW k \in Calls, PieceSent(k) PROVE ArgumentsArrived'
  <2>1. /\ Keyed(k) /\ UNCHANGED arguments
        /\ \/ caller[k].pc \in Unsent /\ Gains(ToModule, ToModule', FirstPiece(k))
           \/ Gains(ToModule, ToModule', FinalPiece(k))
    BY <1>3 DEF PieceSent, Unsent
  <2>2. ASSUME NEW j \in Calls, NEW p \in 1 .. Len(ToModule'),
               Keyed(j), caller[j].pc \notin Unsent, ToModule'[p] = FirstPiece(j)
        PROVE  \E q \in 1 .. Len(ToModule) : ToModule[q] = FirstPiece(j)
    <3>1. p \in 1 .. Len(ToModule) \/ p = Len(ToModule) + 1
      BY <1>0, <2>1 DEF Gains
    <3>2. CASE p = Len(ToModule) + 1
      BY <2>1, <2>2, <3>2, PiecesDiffer DEF Gains
    <3> QED BY <2>1, <2>2, <3>1, <3>2 DEF Gains
  <2> QED BY <1>2, <2>1, <2>2 DEF ArgumentsArrived
<1>4. ASSUME NEW k \in Calls, FirstRead(k) PROVE ArgumentsArrived'
  <2>1. /\ Keyed(k) /\ k \in Partial /\ caller[k].pc \notin Unsent
        /\ ToModule[1] = FirstPiece(k) /\ Loses(ToModule, ToModule')
        /\ arguments' = [arguments EXCEPT ![caller[k].key] = <<k>>]
    BY <1>4 DEF FirstRead
  <2>2. \A p \in 1 .. Len(ToModule') : /\ p + 1 \in 1 .. Len(ToModule) /\ p + 1 # 1
                                       /\ 1 \in 1 .. Len(ToModule)
                                       /\ ToModule'[p] = ToModule[p + 1]
    BY <1>0, <2>1 DEF Loses
  <2>3. ASSUME NEW key \in Keys, arguments'[key] # None
        PROVE  \E j \in Partial \cap Calls :
               /\ Keyed(j)' /\ key = caller'[j].key
               /\ arguments'[key] = <<j>>
               /\ caller'[j].pc \notin Unsent
               /\ \A p \in 1 .. Len(ToModule') : ToModule'[p] # FirstPiece(j)'
    <3>1. CASE key = caller[k].key
      <4>1. arguments'[key] = <<k>>
        BY <2>1, <3>1 DEF Types, ModuleTypes
      <4>2. \A p \in 1 .. Len(ToModule') : ToModule'[p] # FirstPiece(k)
        BY <1>0, <2>1, <2>2, PiecesDiffer DEF CallsOnce
      <4> QED BY <1>1, <2>1, <3>1, <4>1, <4>2
    <3>2. CASE key # caller[k].key
      <4>1. arguments'[key] = arguments[key]
        BY <2>1, <3>2 DEF Types, ModuleTypes
      <4> QED BY <1>2, <2>2, <2>3, <4>1
    <3> QED BY <3>1, <3>2
  <2> QED BY <2>3 DEF ArgumentsArrived
<1>5. ASSUME NEW k \in Calls, FinalRead(k) PROVE ArgumentsArrived'
  <2>1. /\ Loses(ToModule, ToModule')
        /\ arguments' = [arguments EXCEPT ![caller[k].key] = None]
    BY <1>5 DEF FinalRead
  <2>2. \A p \in 1 .. Len(ToModule') : p + 1 \in 1 .. Len(ToModule) /\ ToModule'[p] = ToModule[p + 1]
    BY <1>0, <2>1 DEF Loses
  <2>3. \A key \in Keys : arguments'[key] # None => arguments'[key] = arguments[key]
    BY <2>1 DEF Types, ModuleTypes
  <2> QED BY <1>2, <2>2, <2>3 DEF ArgumentsArrived
<1>6. ASSUME Rejected \/ Aside PROVE ArgumentsArrived'
  <2>1. \A key \in Keys : arguments'[key] # None => arguments'[key] = arguments[key]
    BY <1>6 DEF Rejected, Aside
  <2>2. \/ ToModule' = ToModule \/ Loses(ToModule, ToModule') \/ Cut(ToModule, ToModule')
        \/ Gains(ToModule, ToModule', Termination)
    BY <1>6 DEF Rejected, Aside
  <2>3. ASSUME NEW j \in Calls, NEW p \in 1 .. Len(ToModule'),
               Keyed(j), caller[j].pc \notin Unsent, ToModule'[p] = FirstPiece(j)
        PROVE  \E q \in 1 .. Len(ToModule) : ToModule[q] = FirstPiece(j)
    <3>1. FirstPiece(j) # Termination
      BY <2>3, PiecesDiffer
    <3> QED BY <1>0, <2>2, <2>3, <3>1 DEF Loses, Cut, Gains
  <2> QED BY <1>2, <2>1, <2>3 DEF ArgumentsArrived
<1> QED BY <1>3, <1>4, <1>5, <1>6, ToModuleEffect

LEMMA PiecesInOrderStep ==
    ASSUME PiecesKept, Types, KeysDiffer, KeysDiffer', CallInv, OngoingKeyed, RunInv,
           [Next]_vars, ModuleReading'
    PROVE  PiecesInOrder'
<1>0. /\ ModuleReading /\ CallsOnTheirWay /\ CallsOnce /\ PiecesInOrder
      /\ Len(ToModule) \in Nat
  BY ToModuleEffect, ToModuleTyped DEF CallInv
<1>1. \A j \in Calls : Keyed(j) => /\ Keyed(j)' /\ caller'[j].key = caller[j].key
                                   /\ FirstPiece(j)' = FirstPiece(j)
                                   /\ FinalPiece(j)' = FinalPiece(j)
  BY PiecesStay, CallersAdvance
<1>2. \A j \in Calls : caller[j].pc = "end" => Keyed(j)
  BY DEF Types, KeyTypes
<1>3. ASSUME NEW i \in Calls, NEW k \in Calls, Keyed(i), FinalPiece(i) = FinalPiece(k)'
      PROVE  i = k
  <2>1. caller[i].key = caller'[k].key
    BY <1>3 DEF FinalPiece, CallMessage
  <2> QED BY <1>1, <1>3, <2>1 DEF KeysDiffer
<1>4. ASSUME NEW k \in Calls, NEW q \in 1 .. Len(ToModule), ToModule[q] = FinalPiece(k)'
      PROVE  Keyed(k) /\ ToModule[q] = FinalPiece(k)
  <2>1. ToModule[q] \in CallsDue /\ FinalPiece(k)'.last = TRUE /\ FinalPiece(k)'.type = "call"
    BY <1>0 DEF CallsOnTheirWay, FinalPiece, CallMessage
  <2>2. \E i \in Calls : Keyed(i) /\ ToModule[q] = FinalPiece(i)
    <3>1. \A i \in Calls : FirstPiece(i).last = FALSE
      BY DEF FirstPiece, CallMessage
    <3>2. Termination.type # "call"
      BY DEF Termination
    <3> QED BY <1>4, <2>1, <3>1, <3>2 DEF CallsDue
  <2> QED BY <1>3, <1>4, <2>2
<1>5. ASSUME NEW j \in Calls, PieceSent(j) PROVE PiecesInOrder'
  <2>1. /\ Keyed(j) /\ UNCHANGED arguments
        /\ Len(ToModule') = Len(ToModule) + 1
        /\ \A i \in 1 .. Len(ToModule) : ToModule'[i] = ToModule[i]
    BY <1>5 DEF PieceSent, Gains
  <2>2. ASSUME NEW k \in Calls, Keyed(k), NEW p \in 0 .. Len(ToModule), Started(k, p)
        PROVE  Started(k, p)'
    BY <1>0, <1>1, <2>1, <2>2 DEF Started
  <2>3. ASSUME NEW k \in Partial \cap Calls, caller'[k].pc = "end"
        PROVE  Started(k, Len(ToModule))'
    <3>1. CASE k = j
      <4>1. ToModule'[Len(ToModule) + 1] = FirstPiece(k)
        BY <1>5, <2>3, <3>1 DEF PieceSent, Gains
      <4> QED BY <1>0, <1>1, <2>1, <3>1, <4>1 DEF Started
    <3>2. CASE k # j
      <4>1. caller[k].pc = "end" /\ Keyed(k) /\ Started(k, Len(ToModule))
        BY <1>0, <1>2, <1>5, <2>3, <3>2 DEF PieceSent, PiecesInOrder
      <4>2. arguments'[caller'[k].key] = arguments[caller[k].key] /\ FirstPiece(k)' = FirstPiece(k)
        BY <1>1, <2>1, <4>1
      <4> QED BY <1>0, <2>1, <4>1, <4>2 DEF Started
    <3> QED BY <3>1, <3>2
  <2>4. ASSUME NEW k \in Partial \cap Calls, NEW p \in 1 .. Len(ToModule'),
               Keyed(k)', ToModule'[p] = FinalPiece(k)'
        PROVE  Started(k, p - 1)'
    <3>1. CASE p \in 1 .. Len(ToModule)
      <4>1. Keyed(k) /\ Started(k, p - 1)
        BY <1>0, <1>4, <2>1, <2>4, <3>1 DEF PiecesInOrder
      <4> QED BY <1>0, <2>2, <3>1, <4>1
    <3>2. CASE p = Len(ToModule) + 1
      <4>1. FirstPiece(j).last = FALSE /\ FinalPiece(k)'.last = TRUE
        BY DEF FirstPiece, FinalPiece, CallMessage
      <4>2. ToModule'[p] = FinalPiece(j)
        BY <1>5, <2>4, <3>2, <4>1 DEF PieceSent, Gains
      <4>3. j = k
        BY <1>3, <2>1, <2>4, <4>2
      <4>4. FirstPiece(j) # FinalPiece(j)
        BY <4>1 DEF FirstPiece, FinalPiece, CallMessage
      <4>5. caller[k].pc = "end"
        BY <1>5, <2>4, <3>2, <4>2, <4>3, <4>4 DEF PieceSent, Gains
      <4>6. Started(k, Len(ToModule))
        BY <1>0, <4>5 DEF PiecesInOrder
      <4> QED BY <1>0, <2>1, <2>2, <3>2, <4>3, <4>6
    <3> QED BY <1>0, <2>1, <3>1, <3>2
  <2> QED BY <2>3, <2>4 DEF PiecesInOrder
<1>6. ASSUME NEW j \in Calls, FirstRead(j) \/ FinalRead(j) PROVE PiecesInOrder'
  <2>1. /\ Keyed(j) /\ UNCHANGED caller
        /\ Loses(ToModule, ToModule')
        /\ \/ /\ ToModule[1] = FirstPiece(j)
              /\ arguments' = [arguments EXCEPT ![caller[j].key] = <<j>>]
           \/ /\ ToModule[1] = FinalPiece(j) /\ caller[j].pc \notin Unended
              /\ arguments' = [arguments EXCEPT ![caller[j].key] = None]
    BY <1>6 DEF FirstRead, FinalRead
  <2>2. /\ Len(ToModule') = Len(ToModule) - 1
        /\ \A p \in 1 .. Len(ToModule') : /\ p + 1 \in 1 .. Len(ToModule) /\ p + 1 # 1
                                          /\ 1 \in 1 .. Len(ToModule)
                                          /\ ToModule'[p] = ToModule[p + 1]
    BY <1>0, <2>1 DEF Loses
  <2>3. ASSUME NEW k \in Calls, Keyed(k), k # j \/ ToModule[1] = FirstPiece(j),
               NEW p \in 0 .. Len(ToModule), Started(k, p)
        PROVE  Started(k, p - 1)'
    <3>1. arguments \in [Keys -> Seq(Calls) \cup {None}] /\ caller[k].key \in Keys
          /\ caller[j].key \in Keys
      BY <2>1, <2>3 DEF Types, HostTypes, ModuleTypes, Keyed
    <3>2. CASE k = j
      <4>1. FirstPiece(j) # FinalPiece(j)
        BY <2>1, PiecesDiffer
      <4>2. arguments'[caller[k].key] = <<k>>
        BY <2>1, <2>3, <3>1, <3>2, <4>1
      <4> QED BY <2>1, <4>2 DEF Started
    <3>3. CASE k # j
      <4>1. caller[k].key # caller[j].key
        BY <2>3, <3>3 DEF KeysDiffer
      <4>2. arguments'[caller[k].key] = arguments[caller[k].key]
        BY <2>1, <3>1, <4>1
      <4>3. ToModule[1] # FirstPiece(k)
        BY <2>1, <2>3, <3>3, PiecesDiffer
      <4>4. ASSUME NEW q \in 1 .. p, ToModule[q] = FirstPiece(k)
            PROVE  q - 1 \in 1 .. (p - 1) /\ ToModule'[q - 1] = FirstPiece(k)
        BY <1>0, <2>2, <4>3, <4>4
      <4>5. FirstPiece(k)' = FirstPiece(k)
        BY <1>1, <2>3
      <4> QED BY <2>1, <2>3, <4>2, <4>4, <4>5 DEF Started
    <3> QED BY <3>2, <3>3
  <2>4. ASSUME NEW k \in Partial \cap Calls, caller'[k].pc = "end"
        PROVE  Started(k, Len(ToModule))'
    <3>1. caller[k].pc = "end" /\ Keyed(k) /\ Started(k, Len(ToModule))
      BY <1>0, <1>2, <2>1, <2>4 DEF PiecesInOrder
    <3>2. k # j \/ ToModule[1] = FirstPiece(j)
      BY <2>1, <3>1 DEF Unended
    <3> QED BY <1>0, <2>2, <2>3, <3>1, <3>2
  <2>5. ASSUME NEW k \in Partial \cap Calls, NEW p \in 1 .. Len(ToModule'),
               Keyed(k)', ToModule'[p] = FinalPiece(k)'
        PROVE  Started(k, p - 1)'
    <3>1. Keyed(k) /\ ToModule[p + 1] = FinalPiece(k)
      BY <1>4, <2>2, <2>5
    <3>2. Started(k, (p + 1) - 1)
      BY <1>0, <2>2, <3>1 DEF PiecesInOrder
    <3>3. k # j \/ ToModule[1] = FirstPiece(j)
      BY <1>0, <2>1, <2>2, <3>1, PiecesDiffer DEF CallsOnce
    <3> QED BY <1>0, <2>2, <2>3, <3>1, <3>2, <3>3
  <2> QED BY <2>4, <2>5 DEF PiecesInOrder
<1>7. ASSUME Rejected \/ Aside, Partial # {} PROVE PiecesInOrder'
  <2>1. /\ UNCHANGED arguments
        /\ \A k \in Calls : caller'[k].pc = "end" => caller[k].pc = "end"
        /\ ToModule' = ToModule \/ Gains(ToModule, ToModule', Termination)
    BY <1>7 DEF Rejected, Aside
  <2>2. /\ Len(ToModule') \in {Len(ToModule), Len(ToModule) + 1}
        /\ \A p \in 1 .. Len(ToModule) : ToModule'[p] = ToModule[p]
        /\ Len(ToModule') = Len(ToModule) + 1 => ToModule'[Len(ToModule) + 1] = Termination
    BY <1>0, <2>1 DEF Gains
  <2>3. ASSUME NEW k \in Calls, Keyed(k), NEW p \in 0 .. Len(ToModule), Started(k, p),
               NEW n \in p .. Len(ToModule')
        PROVE  Started(k, n)'
    BY <1>0, <1>1, <2>1, <2>2, <2>3 DEF Started
  <2>4. ASSUME NEW k \in Partial \cap Calls, caller'[k].pc = "end"
        PROVE  Started(k, Len(ToModule))'
    <3>1. Keyed(k) /\ Started(k, Len(ToModule))
      BY <1>0, <1>2, <2>1, <2>4 DEF PiecesInOrder
    <3>2. arguments'[caller'[k].key] = arguments[caller[k].key] /\ FirstPiece(k)' = FirstPiece(k)
      BY <1>1, <2>1, <3>1
    <3> QED BY <1>0, <2>2, <3>1, <3>2 DEF Started
  <2>5. ASSUME NEW k \in Partial \cap Calls, NEW p \in 1 .. Len(ToModule'),
               Keyed(k)', ToModule'[p] = FinalPiece(k)'
        PROVE  Started(k, p - 1)'
    <3>1. FinalPiece(k)'.type = "call" /\ Termination.type # "call"
      BY DEF FinalPiece, CallMessage, Termination
    <3>2. p \in 1 .. Len(ToModule)
      BY <1>0, <2>2, <2>5, <3>1
    <3>3. Keyed(k) /\ Started(k, p - 1)
      BY <1>0, <1>4, <2>2, <2>5, <3>2 DEF PiecesInOrder
    <3> QED BY <1>0, <2>2, <2>3, <3>2, <3>3
  <2> QED BY <2>4, <2>5 DEF PiecesInOrder
<1>8. Partial = {} => PiecesInOrder'
  BY DEF PiecesInOrder
<1> QED BY <1>5, <1>6, <1>7, <1>8, ToModuleEffect

(* The module takes keys from calls that it reads.                         *)
LEMMA OngoingKeyedStep ==
    ASSUME Types, CallInv, OngoingKeyed, [Next]_vars
    PROVE  OngoingKeyed'
<1>1. \A k \in Calls : Keyed(k) => Keyed(k)' /\ caller'[k].key = caller[k].key
  BY CallersAdvance
<1>2. ongoing_procedures' \subseteq ongoing_procedures => OngoingKeyed'
  BY <1>1 DEF OngoingKeyed
<1>3. CASE ModuleReads
  <2>1. /\ Reads("module", "call")
        /\ ongoing_procedures' \subseteq ongoing_procedures \cup {Message("module").key}
    BY <1>3 DEF ModuleReads, RejectCall, ReceiveArguments, RunStandard, StartStreaming,
                NoSuchProcedure, LastPiece, module
  <2>2. PICK k \in Calls : Keyed(k) /\ Message("module").key = caller[k].key
    BY <2>1, HeadCall
  <2> QED BY <1>1, <2>1, <2>2 DEF OngoingKeyed
<1>4. CASE YieldStep
  <2>1. ongoing_procedures' \subseteq ongoing_procedures
    BY <1>4 DEF YieldStep, Yield, YieldFails
  <2> QED BY <1>2, <2>1
<1>5. CASE ~ModuleReads /\ ~YieldStep
  <2>1. ongoing_procedures' \subseteq ongoing_procedures
    BY <1>5, NextSteps, CallStepKeeps, HostReadKeeps, SideStepKeeps DEF vars, module
  <2> QED BY <1>2, <2>1
<1> QED BY <1>3, <1>4, <1>5

(* What a step adds to the runs is a call that had not run, with what it   *)
(* sent.                                                                   *)
LEMMA RunsStep ==
    ASSUME Types, KeysDiffer, CallInv, [Next]_vars
    PROVE  \/ UNCHANGED runs
           \/ \E k \in Calls : /\ Keyed(k) /\ ~Ran(k) /\ caller[k].pc \notin Unended
                               /\ runs' = Append(runs, <<k>>)
                               /\ Message("module").key = caller[k].key
                               /\ Accumulated(Message("module").key, Message("module").body) = <<k>>
                               /\ RunStandard \/ StartStreaming
<1>1. CASE RunStandard \/ StartStreaming
  <2>1. /\ Reads("module", "call") /\ Message("module").last
        /\ runs' = Append(runs, Accumulated(Message("module").key, Message("module").body))
    BY <1>1 DEF RunStandard, StartStreaming, LastPiece
  <2>2. PICK k \in Calls :
           /\ Keyed(k) /\ Message("module").key = caller[k].key
           /\ Message("module") = FinalPiece(k)
           /\ caller[k].pc \notin Unended
           /\ ~Ran(k)
    BY <2>1, HeadCall
  <2>3. Accumulated(Message("module").key, Message("module").body) = <<k>>
    BY <2>1, <2>2, WholeCall
  <2> QED BY <1>1, <2>1, <2>2, <2>3
<1>2. CASE ~RunStandard /\ ~StartStreaming
  <2>1. ModuleReads => UNCHANGED runs
    BY <1>2 DEF ModuleReads, RejectCall, ReceiveArguments, NoSuchProcedure, module
  <2>2. YieldStep => UNCHANGED runs
    BY DEF YieldStep, Yield, YieldFails
  <2> QED BY <2>1, <2>2, NextSteps, CallStepKeeps, HostReadKeeps, SideStepKeeps DEF vars, module
<1> QED BY <1>1, <1>2

LEMMA RunInvStep ==
    ASSUME Types, KeysDiffer, CallInv, RunInv, [Next]_vars
    PROVE  RunInv'
<1>1. \A k \in Calls : /\ Keyed(k) => Keyed(k)'
                       /\ caller[k].pc \notin Unended => caller'[k].pc \notin Unended
  BY CallersAdvance
<1>2. CASE UNCHANGED runs
  BY <1>1, <1>2, RanSame DEF RunInv
<1>3. CASE \E k \in Calls : Keyed(k) /\ ~Ran(k) /\ caller[k].pc \notin Unended
                            /\ runs' = Append(runs, <<k>>)
  BY <1>1, <1>3, RanAfter DEF RunInv
<1> QED BY <1>2, <1>3, RunsStep

-----------------------------------------------------------------------------
(* What is on its way to the host.                                         *)
LEMMA ToHostTyped ==
    ASSUME Types
    PROVE  ToHost \in Seq(Messages) /\ Len(ToHost) \in Nat
<1>1. ToHost \in Seq(Messages)
  BY ConcatProperties DEF ToHost, Outgoing, Types, TransportTypes, Sides
<1> QED BY <1>1, LenProperties

(* A part says whose answer it belongs to.                                 *)
LEMMA ResponsesDiffer ==
    ASSUME NEW j \in Calls, NEW k \in Calls, NEW i \in Nat, NEW m \in Nat
    PROVE  /\ Response(j, i) = Response(k, m) => j = k /\ i = m
           /\ Response(j, i) # Termination
<1>1. /\ Response(j, i).body = <<<<j>>, i>> /\ Response(k, m).body = <<<<k>>, m>>
      /\ Response(j, i).type = "response" /\ Termination.type = "termination"
  BY DEF Response, ResponseMessage, Part, Termination
<1>2. <<<<j>>, i>> = <<<<k>>, m>> => <<j>> = <<k>> /\ i = m
  OBVIOUS
<1>3. <<j>> = <<k>> => j = k
  OBVIOUS
<1> QED BY <1>1, <1>2, <1>3

LEMMA ResponsesStay ==
    ASSUME Types, [Next]_vars, NEW k \in Calls, Keyed(k), NEW i
    PROVE  Response(k, i)' = Response(k, i) /\ Keyed(k)' /\ caller'[k].key = caller[k].key
BY CallersAdvance DEF Response

LEMMA LengthTyped ==
    ASSUME NEW k \in Calls
    PROVE  Length(k) \in Nat \ {0}
BY YieldsAssumption DEF Length

LEMMA HostHead ==
    ASSUME Types, stream["module"] # <<>>
    PROVE  /\ ToHost[1] = Message("host") /\ Len(ToHost) \in Nat \ {0}
           /\ Consume("host") /\ UNCHANGED queue["module"] => Loses(ToHost, ToHost')
<1>1. /\ stream["module"] \in Seq(Messages) /\ queue["module"] \in Seq(Messages)
      /\ DOMAIN stream = Sides /\ "module" \in Sides
  BY DEF Types, TransportTypes, Sides
<1>2. Consume("host") => stream'["module"] = Tail(stream["module"])
  BY <1>1 DEF Consume, Other
<1> QED BY <1>1, <1>2, JoinedLoses DEF ToHost, Outgoing, Message, Other

(* All of it is terminations and answers to calls that have run.           *)
LEMMA AnswerOwner ==
    ASSUME Types, AnswerInv, ReceivedInv, HostReading, NEW p \in 1 .. Len(ToHost)
    PROVE  \/ ToHost[p] = Termination /\ MaySignal # {}
           \/ \E k \in Calls : \E i \in 1 .. Length(k) : Ran(k) /\ ToHost[p] = Response(k, i)
<1>1. CASE ToHost[p] \in AnswersDue
  BY <1>1 DEF AnswersDue
<1>2. CASE p = 1 /\ Unmapping
  <2>1. ToHost[p] = Message("host")
    BY <1>2, HostHead DEF Types, StatusTypes, Unmapping
  <2>2. PICK k \in Calls : Message("host") = Response(k, Length(k)) /\ Ran(k)
    BY <1>2 DEF ReceivedInv
  <2> QED BY <2>1, <2>2, LengthTyped
<1> QED BY <1>1, <1>2 DEF AnswerInv, AnswersOnTheirWay

(* The response that is read next is the part that its call's buffer wants *)
(* next, and the mapping leads to that buffer.                             *)
LEMMA ResponseExpected ==
    ASSUME Types, RunInv, AnswerInv, ReceivedInv, BufferInv, Reads("host", "response")
    PROVE  \E k \in Calls :
             /\ Ran(k) /\ Keyed(k)
             /\ Len(received[k]) + 1 \in 1 .. Length(k)
             /\ Message("host") = Response(k, Len(received[k]) + 1)
             /\ complete_lock[k] # "Complete"
             /\ response_idx_map[caller[k].key] # None
             /\ buffers[response_idx_map[caller[k].key]] = k
<1>1. /\ HostReading /\ ~Unmapping /\ stream["module"] # <<>>
      /\ Message("host").type = "response"
  BY DEF Reads, HostReading, Reading, Unmapping, Message, Other
<1>2. ToHost[1] = Message("host") /\ 1 \in 1 .. Len(ToHost)
  BY <1>1, HostHead
<1>3. AnswersOnTheirWay /\ AnswersInOrder
  BY <1>1 DEF AnswerInv
<1>4. ToHost[1] # Termination
  BY <1>1, <1>2 DEF Termination
<1>5. PICK k \in Calls, i \in Nat :
           i \in 1 .. Length(k) /\ Ran(k) /\ Len(received[k]) < i /\ ToHost[1] = Response(k, i)
  BY <1>1, <1>2, <1>3, <1>4 DEF AnswersOnTheirWay, AnswersDue
<1>6. received[k] \in Seq(Parts) /\ Len(received[k]) \in Nat /\ Length(k) \in Nat
  BY LengthTyped, LenProperties DEF Types, HostTypes
<1>7. Preceded(k, i, 0)
  BY <1>2, <1>3, <1>5 DEF AnswersInOrder
<1>8. i = Len(received[k]) + 1
  BY <1>5, <1>6, <1>7 DEF Preceded
<1>9. complete_lock[k] # "Complete" /\ caller[k].pc \notin Answered
  BY <1>5, <1>6 DEF ReceivedInv
<1>10. Pushed(k)
  BY <1>5 DEF RunInv, Pushed, Unended, Unsent
<1> QED BY <1>2, <1>5, <1>6, <1>8, <1>9, <1>10 DEF BufferInv, Pushed

-----------------------------------------------------------------------------
(* What a step means for the answers on their way to a host that reads: a  *)
(* standard procedure runs and answers, a streaming one starts, a part is  *)
(* yielded or received, a mapping is removed, or nothing that matters.     *)
RunAnswered(k) ==
    /\ Keyed(k) /\ ~Ran(k) /\ Length(k) = 1
    /\ runs' = Append(runs, <<k>>)
    /\ UNCHANGED <<streams, received>> /\ (Unmapping' <=> Unmapping)
    /\ Gains(ToHost, ToHost', Response(k, 1))

RunStarted(k) ==
    /\ Keyed(k) /\ ~Ran(k) /\ Procedure[k] \in Streaming
    /\ runs' = Append(runs, <<k>>)
    /\ streams' = streams \cup {[key |-> caller[k].key, args |-> <<k>>, next |-> 1]}
    /\ UNCHANGED received /\ (Unmapping' <=> Unmapping)
    /\ ToHost' = ToHost

Yielded(k, s) ==
    /\ Keyed(k) /\ Ran(k) /\ s \in streams /\ s.key = caller[k].key
    /\ UNCHANGED <<runs, received>> /\ (Unmapping' <=> Unmapping)
    /\ streams' = (streams \ {s}) \cup (IF s.next = Yields THEN {} ELSE {[s EXCEPT !.next = @ + 1]})
    /\ Gains(ToHost, ToHost', Response(k, s.next))

PartReceived(k) ==
    LET i == Len(received[k]) + 1 IN
    /\ Keyed(k) /\ Ran(k) /\ i \in 1 .. Length(k)
    /\ Len(ToHost) # 0 /\ ToHost[1] = Response(k, i) /\ ~Unmapping
    /\ received' = [received EXCEPT ![k] = Append(@, Part(k, i))]
    /\ UNCHANGED <<runs, streams>>
    /\ \/ i = Length(k) /\ ToHost' = ToHost /\ Unmapping'
       \/ Loses(ToHost, ToHost') /\ ~Unmapping'

Unmapped ==
    /\ Unmapping /\ ~Unmapping'
    /\ UNCHANGED <<runs, streams, received>>
    /\ Loses(ToHost, ToHost')

HostAside ==
    /\ UNCHANGED <<runs, received>> /\ (Unmapping' <=> Unmapping)
    /\ streams' \subseteq streams
    /\ \/ ToHost' = ToHost
       \/ Gains(ToHost, ToHost', Termination) /\ MaySignal # {}
       \/ Cut(ToHost, ToHost') /\ streams' = {}

(* A step of a side's own that leaves the host reading leaves its reader   *)
(* where it is.                                                            *)
LEMMA SideStepReader ==
    ASSUME StatusTypes, NEW t \in Sides, SideStep(t), HostReading'
    PROVE  Unmapping' <=> Unmapping
<1> USE DEF Unmapping, HostReading, Reading, StatusTypes
<1>0. "host" \in Sides /\ thread \in [Sides -> [reader : ReaderStates, writer : WriterStates]]
  BY DEF Sides
<1>1. \/ UNCHANGED thread
      \/ \E where \in {"sweep", "drop"} : Reader(t, where)
      \/ \E where : Writer(t, where)
      \/ \E role \in Roles, where \in {"drop", "stopped"} :
           thread' = [thread EXCEPT ![t][role] = where]
      \/ thread' = [thread EXCEPT ![t] = [reader |-> "stopped", writer |-> "stopped"]]
  BY DEF SideStep, ReceiveTermination, EndOfFile, SweepTerminated, Leave, SweepDropped,
         Flush, WriteMessage, FlushEnds, SeeTermination, WriteFails, SignalTermination,
         Crash, status
<1>2. CASE \E where \in {"sweep", "drop"} : Reader(t, where)
  BY <1>0, <1>2 DEF Reader
<1>3. CASE \E where : Writer(t, where)
  BY <1>0, <1>3 DEF Writer
<1>4. ASSUME NEW role \in Roles, NEW where \in {"drop", "stopped"},
             thread' = [thread EXCEPT ![t][role] = where]
      PROVE  Unmapping' <=> Unmapping
  BY <1>0, <1>4 DEF Roles
<1>5. CASE thread' = [thread EXCEPT ![t] = [reader |-> "stopped", writer |-> "stopped"]]
  BY <1>0, <1>5
<1> QED BY <1>1, <1>2, <1>3, <1>4, <1>5

LEMMA ModuleReadAnswers ==
    ASSUME Types, KeysDiffer, CallInv, [Next]_vars, ModuleReads
    PROVE  (\E k \in Calls : RunAnswered(k) \/ RunStarted(k)) \/ HostAside
<1> DEFINE call == Message("module")
           args == Accumulated(call.key, call.body)
<1>0. /\ stream["module"] \in Seq(Messages) /\ queue["module"] \in Seq(Messages)
      /\ DOMAIN stream = Sides /\ DOMAIN queue = Sides /\ "host" \in Sides /\ "module" \in Sides
      /\ DOMAIN thread = Sides
  BY DEF Types, TransportTypes, StatusTypes, Sides
<1>1. Consume("module") /\ \E where : Reader("module", where)
  BY DEF ModuleReads, RejectCall, ReceiveArguments, RunStandard, StartStreaming,
         NoSuchProcedure, LastPiece, ReadOn
<1>2. stream'["module"] = stream["module"] /\ (Unmapping' <=> Unmapping)
  BY <1>0, <1>1 DEF Consume, Other, Reader, Unmapping
<1>3. UNCHANGED received
  BY ModuleStepKeeps
<1>4. ASSUME NEW k \in Calls, Keyed(k), ~Ran(k), runs' = Append(runs, <<k>>),
             call.key = caller[k].key, args = <<k>>, RunStandard
      PROVE  RunAnswered(k)
  <2>1. /\ call.key[1] \in Standard /\ UNCHANGED streams
        /\ Enqueue("module", ResponseMessage(call.key, <<args, 1>>, TRUE))
    BY <1>4 DEF RunStandard, LastPiece
  <2>2. Length(k) = 1
    BY <1>4, <2>1, ProcedureAssumption DEF Types, KeyTypes, Length
  <2>3. ResponseMessage(call.key, <<args, 1>>, TRUE) = Response(k, 1)
    BY <1>4, <2>2 DEF Response, Part
  <2>4. Response(k, 1) \in Messages
    <3>1. caller[k].key \in Keys /\ <<k>> \in Seq(Calls)
      BY <1>4 DEF Types, HostTypes, Keyed
    <3>2. Part(k, 1) \in Parts
      BY <3>1 DEF Part, Parts
    <3> QED BY <2>2, <3>1, <3>2, ResponseMessageTyped DEF Response
  <2> HIDE DEF call, args
  <2>5. queue'["module"] = Append(queue["module"], Response(k, 1))
    BY <1>0, <2>1, <2>3 DEF Enqueue
  <2>6. Gains(ToHost, ToHost', Response(k, 1))
    BY <1>0, <1>2, <2>4, <2>5, JoinedGains DEF ToHost, Outgoing
  <2> QED BY <1>2, <1>3, <1>4, <2>1, <2>2, <2>6 DEF RunAnswered
<1>5. ASSUME NEW k \in Calls, Keyed(k), ~Ran(k), runs' = Append(runs, <<k>>),
             call.key = caller[k].key, args = <<k>>, StartStreaming
      PROVE  RunStarted(k)
  <2>1. /\ call.key[1] \in Streaming /\ UNCHANGED queue
        /\ streams' = streams \cup {[key |-> call.key, args |-> args, next |-> 1]}
    BY <1>5 DEF StartStreaming, LastPiece
  <2>2. Procedure[k] \in Streaming
    BY <1>5, <2>1 DEF Types, KeyTypes
  <2> QED BY <1>2, <1>3, <1>5, <2>1, <2>2 DEF RunStarted, ToHost, Outgoing
<1>6. CASE RejectCall \/ ReceiveArguments \/ NoSuchProcedure
  <2>1. UNCHANGED <<queue, streams, runs>>
    BY <1>6 DEF RejectCall, ReceiveArguments, NoSuchProcedure, module
  <2> QED BY <1>2, <1>3, <2>1 DEF HostAside, ToHost, Outgoing
<1>7. CASE RunStandard \/ StartStreaming
  <2>1. runs' # runs
    <3>1. \E m : runs' = Append(runs, m)
      BY <1>7 DEF RunStandard, StartStreaming
    <3>2. runs \in Seq(Seq(Calls)) /\ Len(runs) \in Nat
      BY LenProperties DEF Types, ModuleTypes
    <3>3. \A m : Len(Append(runs, m)) = Len(runs) + 1
      BY <3>2
    <3> QED BY <3>1, <3>2, <3>3
  <2>2. PICK k \in Calls :
           /\ Keyed(k) /\ ~Ran(k) /\ runs' = Append(runs, <<k>>)
           /\ call.key = caller[k].key /\ args = <<k>>
    BY <2>1, RunsStep
  <2> QED BY <1>4, <1>5, <1>7, <2>2
<1> QED BY <1>6, <1>7 DEF ModuleReads

LEMMA YieldAnswers ==
    ASSUME Types, RunInv, StreamInv, YieldStep
    PROVE  (\E k \in Calls : \E s \in streams : Yielded(k, s)) \/ HostAside
<1>0. /\ stream["module"] \in Seq(Messages) /\ queue["module"] \in Seq(Messages)
      /\ DOMAIN queue = Sides /\ "module" \in Sides
  BY DEF Types, TransportTypes, Sides
<1>1. UNCHANGED received
  BY ModuleStepKeeps
<1>2. ASSUME NEW s \in streams, Yield(s) PROVE \E k \in Calls : Yielded(k, s)
  <2>1. PICK k \in Calls : /\ Ran(k) /\ Procedure[k] \in Streaming
                           /\ s.key = caller[k].key /\ s.args = <<k>>
    BY DEF StreamInv
  <2>2. /\ Enqueue("module", ResponseMessage(s.key, <<s.args, s.next>>, s.next = Yields))
        /\ streams' = (streams \ {s}) \cup (IF s.next = Yields THEN {} ELSE {[s EXCEPT !.next = @ + 1]})
        /\ UNCHANGED <<runs, stream, thread>>
    BY <1>2 DEF Yield, status
  <2>3. ResponseMessage(s.key, <<s.args, s.next>>, s.next = Yields) = Response(k, s.next)
    BY <2>1 DEF Response, Part, Length
  <2>4. Response(k, s.next) \in Messages
    <3>1. caller[k].key \in Keys /\ <<k>> \in Seq(Calls) /\ s.next \in Nat
      BY <2>1 DEF Types, HostTypes, ModuleTypes, RunInv, Keyed
    <3>2. Part(k, s.next) \in Parts
      BY <3>1 DEF Part, Parts
    <3> QED BY <3>1, <3>2, ResponseMessageTyped DEF Response
  <2>5. queue'["module"] = Append(queue["module"], Response(k, s.next))
    BY <1>0, <2>2, <2>3 DEF Enqueue
  <2>6. Gains(ToHost, ToHost', Response(k, s.next))
    BY <1>0, <2>2, <2>4, <2>5, JoinedGains DEF ToHost, Outgoing
  <2>7. Keyed(k)
    BY <2>1 DEF RunInv
  <2> QED BY <1>1, <2>1, <2>2, <2>6, <2>7 DEF Yielded, Unmapping
<1>3. ASSUME NEW s \in streams, YieldFails(s) PROVE HostAside
  <2>1. UNCHANGED <<runs, thread, queue, stream>> /\ streams' \subseteq streams
    BY <1>3 DEF YieldFails, transport, status
  <2> QED BY <1>1, <2>1 DEF HostAside, Unmapping, ToHost, Outgoing
<1> QED BY <1>2, <1>3 DEF YieldStep

LEMMA HostReadAnswers ==
    ASSUME Types, RunInv, AnswerInv, ReceivedInv, BufferInv, HostReads
    PROVE  \/ \E k \in Calls : /\ PartReceived(k) /\ ReceiveResponse
                               /\ complete_lock[k] # "Complete"
                               /\ complete_lock' = IF Unmapping'
                                                   THEN [complete_lock EXCEPT ![k] = "Complete"]
                                                   ELSE complete_lock
                               /\ UNCHANGED response_idx_map
           \/ /\ Unmapped /\ UNCHANGED complete_lock
              /\ \E k \in Calls : /\ Ran(k) /\ complete_lock[k] = "Complete"
                                  /\ response_idx_map' = [response_idx_map EXCEPT ![caller[k].key] = None]
           \/ NoResponseBuffer /\ terminated["host"]
<1>0. "host" \in Sides /\ "module" \in Sides /\ DOMAIN thread = Sides
      /\ thread \in [Sides -> [reader : ReaderStates, writer : WriterStates]]
  BY DEF Sides, Types, StatusTypes
<1>1. UNCHANGED <<queue, streams, runs, buffers, caller>>
  BY HostReadKeeps
<1>2. Reads("host", "response") => ~Unmapping /\ stream["module"] # <<>>
  BY DEF Reads, Unmapping, Other
<1>3. CASE ReceiveResponse
  <2>1. PICK k \in Calls :
             /\ Ran(k) /\ Keyed(k)
             /\ Len(received[k]) + 1 \in 1 .. Length(k)
             /\ Message("host") = Response(k, Len(received[k]) + 1)
             /\ complete_lock[k] # "Complete"
             /\ response_idx_map[caller[k].key] # None
             /\ buffers[response_idx_map[caller[k].key]] = k
    BY <1>3, ResponseExpected DEF ReceiveResponse
  <2> DEFINE i == Len(received[k]) + 1
  <2>2. /\ Message("host").key = caller[k].key /\ Message("host").body = Part(k, i)
        /\ Message("host").last = (i = Length(k))
    BY <2>1 DEF Response, ResponseMessage
  <2> HIDE DEF i
  <2>3. /\ received' = [received EXCEPT ![k] = Append(@, Part(k, i))]
        /\ UNCHANGED response_idx_map
        /\ IF i = Length(k)
           THEN /\ complete_lock' = [complete_lock EXCEPT ![k] = "Complete"]
                /\ Reader("host", "unmap") /\ UNCHANGED stream
           ELSE /\ UNCHANGED complete_lock
                /\ Consume("host") /\ ReadOn("host")
    BY <1>3, <2>1, <2>2 DEF ReceiveResponse
  <2>4. ~Unmapping /\ ToHost[1] = Response(k, i) /\ Len(ToHost) # 0
        /\ (Consume("host") => Loses(ToHost, ToHost'))
    <3>1. ~Unmapping /\ stream["module"] # <<>>
      BY <1>2, <1>3 DEF ReceiveResponse
    <3> QED BY <1>1, <2>1, <3>1, HostHead DEF i
  <2>5. IF i = Length(k) THEN ToHost' = ToHost /\ Unmapping'
        ELSE Loses(ToHost, ToHost') /\ ~Unmapping'
    <3>1. CASE i = Length(k)
      BY <1>0, <1>1, <2>3, <3>1 DEF Reader, Unmapping, ToHost, Outgoing
    <3>2. CASE i # Length(k)
      <4>1. ReadOn("host")
        BY <2>3, <3>2
      <4>2. ~Unmapping'
        BY <1>0, <4>1 DEF ReadOn, Reader, Unmapping
      <4> QED BY <2>3, <2>4, <3>2, <4>2
    <3> QED BY <3>1, <3>2
  <2>6. PartReceived(k)
    BY <1>1, <2>1, <2>3, <2>4, <2>5 DEF PartReceived, i
  <2>7. complete_lock' = IF Unmapping' THEN [complete_lock EXCEPT ![k] = "Complete"] ELSE complete_lock
    BY <2>3, <2>5
  <2> QED BY <1>3, <2>1, <2>3, <2>6, <2>7
<1>4. CASE UnmapResponse
  <2>1. /\ Unmapping /\ Consume("host") /\ ReadOn("host")
        /\ response_idx_map' = [response_idx_map EXCEPT ![Message("host").key] = None]
        /\ UNCHANGED <<received, complete_lock>>
    BY <1>4 DEF UnmapResponse, Unmapping
  <2>2. Loses(ToHost, ToHost')
    BY <1>1, <2>1, HostHead DEF Types, StatusTypes, Unmapping
  <2>3. ~Unmapping'
    BY <1>0, <2>1 DEF ReadOn, Reader, Unmapping
  <2>4. PICK k \in Calls : /\ Message("host") = Response(k, Length(k))
                           /\ Ran(k) /\ complete_lock[k] = "Complete"
    BY <2>1 DEF ReceivedInv
  <2>5. Message("host").key = caller[k].key
    BY <2>4 DEF Response, ResponseMessage
  <2> QED BY <1>1, <2>1, <2>2, <2>3, <2>4, <2>5 DEF Unmapped
<1>5. CASE NoResponseBuffer
  <2>1. Reads("host", "response") /\ ~Responds(response_idx_map[Message("host").key])
    BY <1>5 DEF NoResponseBuffer
  <2>2. PICK k \in Calls :
             /\ Message("host") = Response(k, Len(received[k]) + 1)
             /\ complete_lock[k] # "Complete"
             /\ response_idx_map[caller[k].key] # None
             /\ buffers[response_idx_map[caller[k].key]] = k
    BY <2>1, ResponseExpected
  <2>3. Message("host").key = caller[k].key /\ k # None
    BY <2>2, CallsAssumption DEF Response, ResponseMessage, Types, HostTypes
  <2> QED BY <1>5, <2>1, <2>2, <2>3 DEF Responds
<1> QED BY <1>3, <1>4, <1>5 DEF HostReads

LEMMA SideStepAnswers ==
    ASSUME Types, NEW t \in Sides, SideStep(t), HostReading, HostReading'
    PROVE  HostAside
<1>1. UNCHANGED <<runs, received>> /\ streams' \subseteq streams
  BY SideStepKeeps
<1>2. Unmapping' <=> Unmapping
  BY SideStepReader DEF Types
<1>3. \/ ToHost' = ToHost
      \/ Gains(ToHost, ToHost', Termination) /\ MaySignal # {}
      \/ Cut(ToHost, ToHost') /\ Crash("module")
  <2>1. "module" \in Sides /\ Other("module") = "host"
    BY DEF Sides, Other
  <2> QED BY <2>1, SideStepOutgoing DEF ToHost, HostReading
<1>4. Crash("module") => streams' = {}
  BY DEF Crash
<1> QED BY <1>1, <1>2, <1>3, <1>4 DEF HostAside

LEMMA CallStepAnswers ==
    ASSUME Types, NEW k \in Calls, CallStep(k)
    PROVE  HostAside
<1>1. UNCHANGED <<runs, received, streams, stream, thread>>
  BY CallStepKeeps
<1>2. \/ UNCHANGED queue
      \/ \E m : Enqueue("host", m)
  BY DEF CallStep, Refuse, TakeIndex, FindNoIndex, InsertIndex, PushResponse, SendWhole, SendPiece,
         LookUpResponse, Register, Return, FailPoisoned, Unregister, transport
<1>3. queue'["module"] = queue["module"]
  BY <1>2 DEF Enqueue, Types, TransportTypes, Sides
<1> QED BY <1>1, <1>3 DEF HostAside, ToHost, Outgoing, Unmapping

LEMMA ToHostEffect ==
    ASSUME Types, KeysDiffer, CallInv, RunInv, StreamInv, AnswerInv, ReceivedInv, BufferInv,
           [Next]_vars, HostReading'
    PROVE  /\ HostReading
           /\ \/ \E k \in Calls : RunAnswered(k) \/ RunStarted(k) \/ PartReceived(k)
              \/ \E k \in Calls : \E s \in streams : Yielded(k, s)
              \/ Unmapped \/ HostAside
<1>1. HostReading
  BY ReadingBefore DEF Types, HostReading, Sides
<1>2. ~NoResponseBuffer
  <2>1. NoResponseBuffer => Reader("host", "leave")
    BY DEF NoResponseBuffer
  <2> QED BY <2>1 DEF Reader, HostReading, Reading, Types, StatusTypes, Sides
<1>3. UNCHANGED vars => HostAside
  BY DEF vars, host, module, transport, status, HostAside, Unmapping, ToHost, Outgoing
<1> QED BY <1>1, <1>2, <1>3, NextSteps, ModuleReadAnswers, YieldAnswers, HostReadAnswers,
           SideStepAnswers, CallStepAnswers

-----------------------------------------------------------------------------
(* What has run stays so, and a call that comes to have run had its key.   *)
LEMMA RanGrows ==
    ASSUME Types, KeysDiffer, CallInv, RunInv, [Next]_vars
    PROVE  \A j \in Calls : /\ Ran(j) => Ran(j)'
                            /\ Ran(j)' => /\ Keyed(j) /\ caller[j].pc \notin Unended
                                          /\ caller'[j].key = caller[j].key
                                          /\ \A i : Response(j, i)' = Response(j, i)
<1>1. \A j \in Calls : Keyed(j) => /\ caller'[j].key = caller[j].key
                                   /\ \A i : Response(j, i)' = Response(j, i)
  BY ResponsesStay
<1>2. CASE UNCHANGED runs
  BY <1>1, <1>2, RanSame DEF RunInv
<1>3. CASE \E k \in Calls : Keyed(k) /\ caller[k].pc \notin Unended /\ runs' = Append(runs, <<k>>)
  BY <1>1, <1>3, RanAfter DEF RunInv
<1> QED BY <1>2, <1>3, RunsStep

LEMMA StreamOwner ==
    ASSUME KeysDiffer, RunInv, StreamInv, NEW s \in streams, NEW k \in Calls, s.key = caller[k].key
    PROVE  Keyed(k) /\ Ran(k)
<1>1. PICK j \in Calls : Ran(j) /\ s.key = caller[j].key
  BY DEF StreamInv
<1>2. Keyed(j)
  BY <1>1 DEF RunInv
<1> QED BY <1>1, <1>2 DEF KeysDiffer, Keyed

LEMMA StreamInvStep ==
    ASSUME Types, KeysDiffer, CallInv, RunInv, StreamInv, [Next]_vars
    PROVE  StreamInv'
<1> DEFINE Fed(s) == \E k \in Calls : /\ Ran(k)
                                     /\ Procedure[k] \in Streaming
                                     /\ s.key = caller[k].key /\ s.args = <<k>>
<1>1. \A k \in Calls : /\ Ran(k) => Ran(k)'
                       /\ Ran(k)' => caller'[k].key = caller[k].key
  BY RanGrows
<1>2. \A s : Fed(s) => Fed(s)'
  BY <1>1
<1>3. ASSUME streams' \subseteq streams,
             \A s \in streams' : s.key \in ongoing_procedures => s.key \in ongoing_procedures'
      PROVE  StreamInv'
  BY <1>2, <1>3 DEF StreamInv
<1>4. CASE ModuleReads
  <2>1. CASE RejectCall \/ ReceiveArguments \/ NoSuchProcedure
    <3>1. UNCHANGED streams /\ ongoing_procedures \subseteq ongoing_procedures'
      BY <2>1 DEF RejectCall, ReceiveArguments, NoSuchProcedure, module
    <3> QED BY <1>3, <3>1
  <2>2. CASE RunStandard \/ StartStreaming
    <3>0. runs' # runs
      <4>1. \E m : runs' = Append(runs, m)
        BY <2>2 DEF RunStandard, StartStreaming
      <4>2. \A m : Len(Append(runs, m)) = Len(runs) + 1
        BY DEF Types, ModuleTypes
      <4>3. Len(runs) \in Nat
        BY LenProperties DEF Types, ModuleTypes
      <4> QED BY <4>1, <4>2, <4>3
    <3>1. PICK k \in Calls :
             /\ Keyed(k) /\ ~Ran(k) /\ runs' = Append(runs, <<k>>)
             /\ Message("module").key = caller[k].key
             /\ Accumulated(Message("module").key, Message("module").body) = <<k>>
      BY <3>0, RunsStep
    <3>2. \A s \in streams : s.key # caller[k].key
      BY <3>1, StreamOwner
    <3>3. CASE RunStandard
      <4>1. UNCHANGED streams /\ ongoing_procedures' = ongoing_procedures \ {caller[k].key}
        BY <3>1, <3>3 DEF RunStandard
      <4> QED BY <1>3, <3>2, <4>1
    <3>4. CASE StartStreaming
      <4>0. PICK new : new = [key |-> caller[k].key, args |-> <<k>>, next |-> 1]
        OBVIOUS
      <4>1. /\ streams' = streams \cup {new} /\ Message("module").key[1] \in Streaming
            /\ ongoing_procedures' = ongoing_procedures \cup {caller[k].key}
        BY <3>1, <3>4, <4>0 DEF StartStreaming, LastPiece
      <4>2. Procedure[k] \in Streaming
        BY <3>1, <4>1 DEF Types, KeyTypes
      <4>3. Ran(k)' /\ caller'[k].key = caller[k].key
        BY <1>1, <3>1, RanAfter
      <4>4. Fed(new)'
        BY <4>0, <4>2, <4>3
      <4>5. new.key = caller[k].key
        BY <4>0
      <4>6. \A s \in streams' : Fed(s)'
        BY <1>2, <4>1, <4>4 DEF StreamInv
      <4>7. \A s, t \in streams' : s.key = t.key => s = t
        BY <3>2, <4>1, <4>5 DEF StreamInv
      <4>8. \A s \in streams' : s.key \in ongoing_procedures'
        BY <4>1, <4>5 DEF StreamInv
      <4> QED BY <4>6, <4>7, <4>8 DEF StreamInv
    <3> QED BY <2>2, <3>3, <3>4
  <2> QED BY <1>4, <2>1, <2>2 DEF ModuleReads
<1>5. ASSUME NEW s \in streams, Yield(s) PROVE StreamInv'
  <2> DEFINE new == [s EXCEPT !.next = @ + 1]
  <2>1. /\ streams' = (streams \ {s}) \cup (IF s.next = Yields THEN {} ELSE {new})
        /\ ongoing_procedures' = IF s.next = Yields THEN ongoing_procedures \ {s.key}
                                 ELSE ongoing_procedures
    BY <1>5 DEF Yield
  <2>2. new.key = s.key /\ new.args = s.args
    BY DEF Types, ModuleTypes
  <2>3. \A t \in streams : t.key = s.key => t = s
    BY DEF StreamInv
  <2> HIDE DEF new
  <2>4. Fed(s)' /\ Fed(new)'
    <3>1. Fed(s)'
      BY <1>2 DEF StreamInv
    <3> QED BY <2>2, <3>1
  <2>5. \A t \in streams' : Fed(t)'
    BY <1>2, <2>1, <2>4 DEF StreamInv
  <2>6. \A t, u \in streams' : t.key = u.key => t = u
    BY <2>1, <2>2, <2>3 DEF StreamInv
  <2>7. \A t \in streams' : t.key \in ongoing_procedures'
    BY <2>1, <2>2, <2>3 DEF StreamInv
  <2> QED BY <2>5, <2>6, <2>7 DEF StreamInv
<1>6. ASSUME NEW s \in streams, YieldFails(s) PROVE StreamInv'
  <2>1. streams' \subseteq streams /\ UNCHANGED ongoing_procedures
    BY <1>6 DEF YieldFails
  <2> QED BY <1>3, <2>1
<1>7. CASE ~ModuleReads /\ ~YieldStep
  <2>1. \/ UNCHANGED <<streams, ongoing_procedures>>
        \/ streams' = {}
    BY <1>7, NextSteps, CallStepKeeps, HostReadKeeps, SideStepKeeps DEF vars, module
  <2> QED BY <1>3, <2>1
<1> QED BY <1>4, <1>5, <1>6, <1>7 DEF YieldStep

-----------------------------------------------------------------------------
(* Each part of the invariant about the answers on their way, step by step.*)
LEMMA ReceivedTyped ==
    ASSUME Types, NEW k \in Calls
    PROVE  received[k] \in Seq(Parts) /\ Len(received[k]) \in Nat
<1>1. received[k] \in Seq(Parts)
  BY DEF Types, HostTypes
<1> QED BY <1>1, LenProperties

LEMMA PartAppended ==
    ASSUME Types, NEW k \in Calls, PartReceived(k)
    PROVE  /\ Len(received'[k]) = Len(received[k]) + 1
           /\ received'[k][Len(received[k]) + 1] = Part(k, Len(received[k]) + 1)
           /\ \A i \in 1 .. Len(received[k]) : received'[k][i] = received[k][i]
           /\ \A j \in Calls : j # k => received'[j] = received[j]
<1> DEFINE n == Len(received[k]) + 1
<1>1. /\ received[k] \in Seq(Parts) /\ n \in Nat
      /\ received' = [received EXCEPT ![k] = Append(@, Part(k, n))]
      /\ DOMAIN received = Calls
  BY ReceivedTyped DEF PartReceived, Types, HostTypes
<1>2. Part(k, n) \in Parts
  <2>1. <<k>> \in Seq(Calls)
    OBVIOUS
  <2> QED BY <1>1, <2>1 DEF Part, Parts
<1>3. received'[k] = Append(received[k], Part(k, n))
  BY <1>1
<1>4. \A j \in Calls : j # k => received'[j] = received[j]
  BY <1>1
<1> QED BY <1>1, <1>2, <1>3, <1>4, AppendProperties

LEMMA AnswersDueStep ==
    ASSUME Types, KeysDiffer, CallInv, RunInv, [Next]_vars
    PROVE  /\ UNCHANGED received => AnswersDue \subseteq AnswersDue'
           /\ \A k \in Calls : PartReceived(k) =>
                AnswersDue \ {Response(k, Len(received[k]) + 1)} \subseteq AnswersDue'
<1>1. \A j \in Calls : Ran(j) => Ran(j)' /\ \A i : Response(j, i)' = Response(j, i)
  BY RanGrows
<1>2. ASSUME NEW m \in AnswersDue,
             \A j \in Calls : \A i \in Nat :
               m = Response(j, i) /\ Len(received[j]) < i => Len(received'[j]) < i
      PROVE  m \in AnswersDue'
  <2>1. CASE m = Termination /\ MaySignal # {}
    BY <2>1 DEF AnswersDue
  <2>2. ASSUME NEW j \in Calls, NEW i \in Nat, i \in 1 .. Length(j), Ran(j),
               Len(received[j]) < i, m = Response(j, i)
        PROVE  m \in AnswersDue'
    <3>1. Ran(j)' /\ m = Response(j, i)' /\ Len(received'[j]) < i
      BY <1>1, <1>2, <2>2
    <3>2. /\ <<j, i>> \in Calls \X Nat /\ <<j, i>>[1] = j /\ <<j, i>>[2] = i
      OBVIOUS
    <3> QED BY <2>2, <3>1, <3>2 DEF AnswersDue
  <2> QED BY <2>1, <2>2 DEF AnswersDue
<1>3. UNCHANGED received => AnswersDue \subseteq AnswersDue'
  BY <1>2
<1>4. ASSUME NEW k \in Calls, PartReceived(k),
             NEW m \in AnswersDue, m # Response(k, Len(received[k]) + 1)
      PROVE  m \in AnswersDue'
  <2>1. ASSUME NEW j \in Calls, NEW i \in Nat, m = Response(j, i), Len(received[j]) < i
        PROVE  Len(received'[j]) < i
    <3>1. CASE j = k
      BY <1>4, <2>1, <3>1, PartAppended, ReceivedTyped
    <3>2. CASE j # k
      BY <1>4, <2>1, <3>2, PartAppended
    <3> QED BY <3>1, <3>2
  <2> QED BY <1>2, <2>1
<1> QED BY <1>3, <1>4

LEMMA AnswersOnTheirWayStep ==
    ASSUME Types, KeysDiffer, CallInv, RunInv, StreamInv, AnswerInv, ReceivedInv, BufferInv,
           [Next]_vars, HostReading'
    PROVE  AnswersOnTheirWay'
<1>0. /\ HostReading /\ AnswersOnTheirWay /\ AnswersOnce /\ NextPart /\ Len(ToHost) \in Nat
  BY ToHostEffect, ToHostTyped DEF AnswerInv
<1>1. ASSUME AnswersDue \subseteq AnswersDue', Unmapping' <=> Unmapping,
             \/ ToHost' = ToHost
             \/ Cut(ToHost, ToHost')
             \/ \E m \in AnswersDue' : Gains(ToHost, ToHost', m)
      PROVE  AnswersOnTheirWay'
  <2>1. \A p \in 1 .. Len(ToHost) : ToHost[p] \in AnswersDue' \/ (p = 1 /\ Unmapping')
    BY <1>0, <1>1 DEF AnswersOnTheirWay
  <2>2. ASSUME NEW p \in 1 .. Len(ToHost')
        PROVE  ToHost'[p] \in AnswersDue' \/ (p = 1 /\ Unmapping')
    <3>1. CASE p \in 1 .. Len(ToHost) /\ ToHost'[p] = ToHost[p]
      BY <2>1, <3>1
    <3>2. CASE ToHost'[p] \in AnswersDue'
      BY <3>2
    <3> QED BY <1>0, <1>1, <3>1, <3>2 DEF Cut, Gains
  <2> QED BY <2>2 DEF AnswersOnTheirWay
<1>2. UNCHANGED received => AnswersDue \subseteq AnswersDue'
  BY AnswersDueStep
<1>3. \A j \in Calls : Ran(j)' => \A i : Response(j, i)' = Response(j, i)
  BY RanGrows
<1>4. ASSUME NEW j \in Calls, NEW i \in Nat, i \in 1 .. Length(j), Ran(j)', Len(received'[j]) < i
      PROVE  Response(j, i) \in AnswersDue'
  <2>1. <<j, i>> \in Calls \X Nat /\ <<j, i>>[1] = j /\ <<j, i>>[2] = i
    OBVIOUS
  <2>2. Response(j, i) = Response(j, i)'
    BY <1>3, <1>4
  <2> QED BY <1>4, <2>1, <2>2 DEF AnswersDue
<1>5. ASSUME NEW k \in Calls, RunAnswered(k) PROVE AnswersOnTheirWay'
  <2>1. Ran(k)' /\ 1 \in 1 .. Length(k) /\ 1 \in Nat
    BY <1>5, RanAfter, LengthTyped DEF RunAnswered
  <2>2. Len(received'[k]) < 1
    <3>1. received'[k] = <<>>
      BY <1>5 DEF RunAnswered, ReceivedInv
    <3> QED BY <3>1
  <2>3. Response(k, 1) \in AnswersDue'
    BY <1>4, <2>1, <2>2
  <2> QED BY <1>1, <1>2, <1>5, <2>3 DEF RunAnswered
<1>6. ASSUME NEW k \in Calls, RunStarted(k) PROVE AnswersOnTheirWay'
  BY <1>1, <1>2, <1>6 DEF RunStarted
<1>7. ASSUME NEW k \in Calls, NEW s \in streams, Yielded(k, s) PROVE AnswersOnTheirWay'
  <2>1. Ran(k)' /\ s.next \in Nat /\ s.next \in 1 .. Yields
    BY <1>7, RanGrows DEF Yielded, Types, ModuleTypes
  <2>2. Procedure[k] \in Streaming
    BY <1>7 DEF StreamInv, Yielded, KeysDiffer
  <2>3. s.next \in 1 .. Length(k)
    BY <2>1, <2>2 DEF Length
  <2>4. Len(received'[k]) < s.next
    BY <1>0, <1>7 DEF Yielded, NextPart
  <2>5. Response(k, s.next) \in AnswersDue'
    BY <1>4, <2>1, <2>3, <2>4
  <2> QED BY <1>1, <1>2, <1>7, <2>5 DEF Yielded
<1>8. ASSUME NEW k \in Calls, PartReceived(k) PROVE AnswersOnTheirWay'
  <2> DEFINE m == Response(k, Len(received[k]) + 1)
  <2>0. AnswersDue \ {m} \subseteq AnswersDue'
    BY <1>8, AnswersDueStep
  <2>1. ~Unmapping /\ ToHost[1] = m /\ 1 \in 1 .. Len(ToHost)
    BY <1>0, <1>8 DEF PartReceived
  <2> HIDE DEF m
  <2>2. ASSUME NEW p \in 1 .. Len(ToHost), p # 1 PROVE ToHost[p] \in AnswersDue'
    <3>1. m # Termination
      BY ResponsesDiffer, ReceivedTyped DEF m
    <3>2. ToHost[p] # m
      BY <1>0, <2>1, <2>2, <3>1 DEF AnswersOnce
    <3>3. ToHost[p] \in AnswersDue
      BY <1>0, <2>2 DEF AnswersOnTheirWay
    <3> QED BY <2>0, <3>2, <3>3
  <2>3. CASE ToHost' = ToHost /\ Unmapping'
    BY <2>2, <2>3 DEF AnswersOnTheirWay
  <2>4. CASE Loses(ToHost, ToHost')
    <3>1. \A p \in 1 .. Len(ToHost') : /\ p + 1 \in 1 .. Len(ToHost) /\ p + 1 # 1
                                       /\ ToHost'[p] = ToHost[p + 1]
      BY <1>0, <2>4 DEF Loses
    <3> QED BY <2>2, <3>1 DEF AnswersOnTheirWay
  <2> QED BY <1>8, <2>3, <2>4 DEF PartReceived
<1>9. ASSUME Unmapped PROVE AnswersOnTheirWay'
  <2>1. AnswersDue \subseteq AnswersDue' /\ Loses(ToHost, ToHost')
    BY <1>2, <1>9 DEF Unmapped
  <2>2. \A p \in 1 .. Len(ToHost') : /\ p + 1 \in 1 .. Len(ToHost) /\ p + 1 # 1
                                     /\ ToHost'[p] = ToHost[p + 1]
    BY <1>0, <2>1 DEF Loses
  <2>3. \A p \in 1 .. Len(ToHost') : ToHost[p + 1] \in AnswersDue
    BY <1>0, <2>2 DEF AnswersOnTheirWay
  <2> QED BY <2>1, <2>2, <2>3 DEF AnswersOnTheirWay
<1>10. ASSUME HostAside PROVE AnswersOnTheirWay'
  <2>1. MaySignal # {} => Termination \in AnswersDue'
    BY DEF AnswersDue
  <2> QED BY <1>1, <1>2, <1>10, <2>1 DEF HostAside
<1> QED BY <1>5, <1>6, <1>7, <1>8, <1>9, <1>10, ToHostEffect

LEMMA AnswersOnceStep ==
    ASSUME Types, KeysDiffer, CallInv, RunInv, StreamInv, AnswerInv, ReceivedInv, BufferInv,
           [Next]_vars, HostReading'
    PROVE  AnswersOnce'
<1>0. /\ HostReading /\ AnswersOnTheirWay /\ AnswersOnce /\ NextPart /\ Len(ToHost) \in Nat
  BY ToHostEffect, ToHostTyped DEF AnswerInv
<1>1. ASSUME \/ ToHost' = ToHost
             \/ Loses(ToHost, ToHost')
             \/ Cut(ToHost, ToHost')
             \/ Gains(ToHost, ToHost', Termination)
             \/ \E m : /\ Gains(ToHost, ToHost', m)
                       /\ \A p \in 1 .. Len(ToHost) : ToHost[p] # m
      PROVE  AnswersOnce'
  <2>1. CASE ToHost' = ToHost
    BY <1>0, <2>1 DEF AnswersOnce
  <2>2. CASE Loses(ToHost, ToHost')
    <3>1. \A p \in 1 .. Len(ToHost') :
             p + 1 \in 1 .. Len(ToHost) /\ ToHost'[p] = ToHost[p + 1]
      BY <1>0, <2>2 DEF Loses
    <3>2. ASSUME NEW p \in 1 .. Len(ToHost'), NEW q \in 1 .. Len(ToHost'),
                 ToHost'[p] = ToHost'[q], ToHost'[p] # Termination
          PROVE  p = q
      <4>1. p + 1 = q + 1
        BY <1>0, <3>1, <3>2 DEF AnswersOnce
      <4> QED BY <4>1
    <3> QED BY <3>2 DEF AnswersOnce
  <2>3. CASE Cut(ToHost, ToHost')
    BY <1>0, <2>3 DEF AnswersOnce, Cut
  <2>4. ASSUME NEW m, Gains(ToHost, ToHost', m),
               m = Termination \/ \A p \in 1 .. Len(ToHost) : ToHost[p] # m
        PROVE  AnswersOnce'
    BY <1>0, <2>4 DEF AnswersOnce, Gains
  <2> QED BY <1>1, <2>1, <2>2, <2>3, <2>4
<1>2. ASSUME NEW k \in Calls, RunAnswered(k) PROVE AnswersOnce'
  <2>1. ASSUME NEW p \in 1 .. Len(ToHost), ToHost[p] = Response(k, 1) PROVE FALSE
    <3>1. PICK j \in Calls, i \in Nat : Ran(j) /\ ToHost[p] = Response(j, i)
      BY <1>0, <2>1, AnswerOwner, ResponsesDiffer
    <3>2. j = k
      BY <2>1, <3>1, ResponsesDiffer
    <3> QED BY <1>2, <3>1, <3>2 DEF RunAnswered
  <2> QED BY <1>1, <1>2, <2>1 DEF RunAnswered
<1>3. ASSUME NEW k \in Calls, NEW s \in streams, Yielded(k, s) PROVE AnswersOnce'
  <2>1. Procedure[k] \in Streaming /\ s.next \in 1 .. Yields
    BY <1>3 DEF StreamInv, Yielded, KeysDiffer, Types, ModuleTypes
  <2>2. s.next \in s.next .. Length(k)
    BY <2>1, YieldsAssumption DEF Length
  <2>3. \A p \in 1 .. Len(ToHost) : ToHost[p] # Response(k, s.next)
    BY <1>0, <1>3, <2>2 DEF NextPart, Yielded
  <2> QED BY <1>1, <1>3, <2>3 DEF Yielded
<1>4. ASSUME NEW k \in Calls, RunStarted(k) \/ PartReceived(k) PROVE AnswersOnce'
  BY <1>1, <1>4 DEF RunStarted, PartReceived
<1>5. ASSUME Unmapped \/ HostAside PROVE AnswersOnce'
  BY <1>1, <1>5 DEF Unmapped, HostAside
<1> QED BY <1>2, <1>3, <1>4, <1>5, ToHostEffect

(* A part that was preceded still is: nothing is lost from the middle, and *)
(* what leaves the front has been received.                                *)
LEMMA PrecededKept ==
    ASSUME Types, [Next]_vars, NEW k \in Calls, Keyed(k), NEW i \in Nat \ {0},
           NEW n \in Nat, Preceded(k, i, n), NEW m \in Nat, n <= m,
           Len(received'[k]) \in Nat, Len(received[k]) <= Len(received'[k]),
           \A q \in 1 .. n : ToHost'[q] = ToHost[q]
    PROVE  Preceded(k, i, m)'
<1>1. Response(k, i - 1)' = Response(k, i - 1)
  BY ResponsesStay
<1>2. Len(received[k]) \in Nat
  BY ReceivedTyped
<1> QED BY <1>1, <1>2 DEF Preceded

LEMMA PrecededShifts ==
    ASSUME Types, [Next]_vars, NEW k \in Calls, Keyed(k), NEW i \in Nat \ {0},
           NEW n \in 0 .. Len(ToHost), Preceded(k, i, n), Loses(ToHost, ToHost'),
           Len(received'[k]) \in Nat, Len(received[k]) <= Len(received'[k]),
           Len(ToHost) # 0 /\ ToHost[1] = Response(k, i - 1) => Len(received'[k]) >= i - 1
    PROVE  Preceded(k, i, n - 1)'
<1>1. Response(k, i - 1)' = Response(k, i - 1)
  BY ResponsesStay
<1>2. Len(received[k]) \in Nat /\ Len(ToHost) \in Nat
  BY ReceivedTyped, ToHostTyped
<1>3. ASSUME NEW q \in 1 .. n, ToHost[q] = Response(k, i - 1)
      PROVE  \/ Len(received'[k]) >= i - 1
             \/ \E r \in 1 .. (n - 1) : ToHost'[r] = Response(k, i - 1)
  <2>1. CASE q = 1
    BY <1>2, <1>3, <2>1
  <2>2. CASE q # 1
    <3>1. q - 1 \in 1 .. (n - 1) /\ q - 1 \in 1 .. Len(ToHost')
      BY <1>2, <2>2 DEF Loses
    <3>2. ToHost'[q - 1] = ToHost[(q - 1) + 1]
      BY <3>1 DEF Loses
    <3>3. (q - 1) + 1 = q
      OBVIOUS
    <3> QED BY <1>3, <3>1, <3>2, <3>3
  <2> QED BY <2>1, <2>2
<1> QED BY <1>1, <1>2, <1>3 DEF Preceded

(* What is received is never taken back.                                   *)
LEMMA ReceivedGrows ==
    ASSUME Types, UNCHANGED received \/ \E k \in Calls : PartReceived(k)
    PROVE  \A j \in Calls : Len(received'[j]) \in Nat /\ Len(received[j]) <= Len(received'[j])
<1>1. ASSUME NEW k \in Calls, PartReceived(k), NEW j \in Calls
      PROVE  Len(received'[j]) \in Nat /\ Len(received[j]) <= Len(received'[j])
  <2>1. CASE j = k
    BY <1>1, <2>1, PartAppended, ReceivedTyped
  <2>2. CASE j # k
    BY <1>1, <2>2, PartAppended, ReceivedTyped
  <2> QED BY <2>1, <2>2
<1> QED BY <1>1, ReceivedTyped

(* The response that leaves the front has been received.                   *)
LEMMA FrontReceived ==
    ASSUME Types, ReceivedInv, NEW j \in Calls, PartReceived(j) \/ Unmapped
    PROVE  \A k \in Calls : \A i \in Nat : ToHost[1] = Response(k, i) => Len(received'[k]) >= i
<1>1. CASE PartReceived(j)
  <2>1. ToHost[1] = Response(j, Len(received[j]) + 1) /\ Len(received[j]) + 1 \in Nat
    BY <1>1, ReceivedTyped DEF PartReceived
  <2>2. Len(received'[j]) = Len(received[j]) + 1
    BY <1>1, PartAppended
  <2> QED BY <2>1, <2>2, ResponsesDiffer
<1>2. CASE Unmapped
  <2>1. Unmapping /\ UNCHANGED received
    BY <1>2 DEF Unmapped
  <2>2. ToHost[1] = Message("host")
    BY <2>1, HostHead DEF Types, StatusTypes, Unmapping
  <2>3. PICK m \in Calls : Message("host") = Response(m, Length(m)) /\ Len(received[m]) = Length(m)
    BY <2>1 DEF ReceivedInv
  <2> QED BY <2>1, <2>2, <2>3, ResponsesDiffer, LengthTyped
<1> QED BY <1>1, <1>2

LEMMA AnswersInOrderStep ==
    ASSUME Types, KeysDiffer, CallInv, RunInv, StreamInv, AnswerInv, ReceivedInv, BufferInv,
           [Next]_vars, HostReading'
    PROVE  AnswersInOrder'
<1>0. /\ HostReading /\ AnswersInOrder /\ NextPart /\ Len(ToHost) \in Nat
  BY ToHostEffect, ToHostTyped DEF AnswerInv
<1>1. \A k \in Calls : Ran(k)' => Keyed(k) /\ \A i : Response(k, i)' = Response(k, i)
  BY RanGrows
<1>2. ASSUME NEW k \in Calls, NEW i \in Nat, i \in 1 .. Length(k),
             NEW p \in 1 .. Len(ToHost), ToHost[p] = Response(k, i)
      PROVE  Keyed(k) /\ Ran(k) /\ Preceded(k, i, p - 1)
  <2>1. PICK j \in Calls, m \in Nat : Ran(j) /\ ToHost[p] = Response(j, m)
    BY <1>0, <1>2, AnswerOwner, ResponsesDiffer
  <2>2. j = k
    BY <1>2, <2>1, ResponsesDiffer
  <2> QED BY <1>0, <1>2, <2>1, <2>2 DEF AnswersInOrder, RunInv
<1>3. ASSUME NEW k \in Calls, NEW i \in Nat, i \in 1 .. Length(k),
             NEW p \in 1 .. Len(ToHost), ToHost[p] = Response(k, i),
             \A q \in 1 .. p : ToHost'[q] = ToHost[q],
             UNCHANGED received \/ \E j \in Calls : PartReceived(j)
      PROVE  Preceded(k, i, p - 1)'
  <2>1. Keyed(k) /\ Preceded(k, i, p - 1)
    BY <1>2, <1>3
  <2>2. p - 1 \in Nat /\ \A q \in 1 .. (p - 1) : ToHost'[q] = ToHost[q]
    BY <1>0, <1>3
  <2>3. Len(received'[k]) \in Nat /\ Len(received[k]) <= Len(received'[k])
    BY <1>3, ReceivedGrows
  <2> QED BY <1>3, <2>1, <2>2, <2>3, PrecededKept
<1>4. ASSUME UNCHANGED received \/ \E j \in Calls : PartReceived(j),
             Len(ToHost') <= Len(ToHost), Len(ToHost') \in Nat,
             \A q \in 1 .. Len(ToHost') : ToHost'[q] = ToHost[q]
      PROVE  AnswersInOrder'
  <2>1. ASSUME NEW k \in Calls, NEW i \in 1 .. Length(k), NEW p \in 1 .. Len(ToHost'),
               Ran(k)', ToHost'[p] = Response(k, i)'
        PROVE  Preceded(k, i, p - 1)'
    <3>1. p \in 1 .. Len(ToHost) /\ ToHost[p] = Response(k, i) /\ i \in Nat
          /\ \A q \in 1 .. p : ToHost'[q] = ToHost[q]
      BY <1>0, <1>1, <1>4, <2>1
    <3> QED BY <1>3, <1>4, <3>1
  <2> QED BY <2>1 DEF AnswersInOrder
<1>5. ASSUME NEW m, UNCHANGED received, Gains(ToHost, ToHost', m), NEW n \in Nat, n = Len(ToHost),
             \A k \in Calls : \A i \in 1 .. Length(k) :
               Ran(k)' /\ m = Response(k, i) => Preceded(k, i, n)'
      PROVE  AnswersInOrder'
  <2>1. ASSUME NEW k \in Calls, NEW i \in 1 .. Length(k), NEW p \in 1 .. Len(ToHost'),
               Ran(k)', ToHost'[p] = Response(k, i)'
        PROVE  Preceded(k, i, p - 1)'
    <3>1. CASE p \in 1 .. Len(ToHost)
      <4>1. /\ ToHost[p] = Response(k, i) /\ i \in Nat
            /\ \A q \in 1 .. p : ToHost'[q] = ToHost[q]
        BY <1>0, <1>1, <1>5, <2>1, <3>1 DEF Gains
      <4> QED BY <1>3, <1>5, <3>1, <4>1
    <3>2. CASE p = Len(ToHost')
      <4>1. m = Response(k, i) /\ p - 1 = n
        BY <1>0, <1>1, <1>5, <2>1, <3>2 DEF Gains
      <4> QED BY <1>5, <2>1, <4>1
    <3> QED BY <1>0, <1>5, <3>1, <3>2 DEF Gains
  <2> QED BY <2>1 DEF AnswersInOrder
<1>6. ASSUME UNCHANGED received \/ \E j \in Calls : PartReceived(j), Loses(ToHost, ToHost'),
             \A k \in Calls : \A i \in Nat : ToHost[1] = Response(k, i) => Len(received'[k]) >= i
      PROVE  AnswersInOrder'
  <2>1. ASSUME NEW k \in Calls, NEW i \in 1 .. Length(k), NEW p \in 1 .. Len(ToHost'),
               Ran(k)', ToHost'[p] = Response(k, i)'
        PROVE  Preceded(k, i, p - 1)'
    <3>1. p + 1 \in 1 .. Len(ToHost) /\ ToHost[p + 1] = Response(k, i) /\ i \in Nat \ {0}
      BY <1>0, <1>1, <1>6, <2>1 DEF Loses
    <3>2. Keyed(k) /\ Preceded(k, i, p) /\ p \in 0 .. Len(ToHost)
      <4>1. Keyed(k) /\ Preceded(k, i, (p + 1) - 1)
        BY <1>2, <3>1
      <4> QED BY <1>0, <3>1, <4>1
    <3>3. Len(received'[k]) \in Nat /\ Len(received[k]) <= Len(received'[k])
      BY <1>6, ReceivedGrows
    <3>4. ToHost[1] = Response(k, i - 1) => Len(received'[k]) >= i - 1
      BY <1>6, <3>1
    <3> QED BY <1>6, <3>1, <3>2, <3>3, <3>4, PrecededShifts
  <2> QED BY <2>1 DEF AnswersInOrder
<1>7. ASSUME NEW k \in Calls, RunAnswered(k) PROVE AnswersInOrder'
  <2>1. \A j \in Calls : \A i \in Nat : Response(k, 1) = Response(j, i) => i = 1
    BY ResponsesDiffer
  <2>2. \A j \in Calls : \A i \in 1 .. Length(j) : \A n \in Nat :
          Response(k, 1) = Response(j, i) => Preceded(j, i, n)'
    BY <2>1 DEF Preceded
  <2> QED BY <1>0, <1>5, <1>7, <2>2 DEF RunAnswered
<1>8. ASSUME NEW k \in Calls, NEW s \in streams, Yielded(k, s) PROVE AnswersInOrder'
  <2>1. PICK n \in Nat : n = Len(ToHost)
    BY <1>0
  <2>2. s.next \in Nat \ {0} /\ Keyed(k) /\ Preceded(k, s.next, n) /\ UNCHANGED received
    BY <1>0, <1>8, <2>1 DEF NextPart, Yielded, Types, ModuleTypes
  <2>3. \A q \in 1 .. n : ToHost'[q] = ToHost[q]
    BY <1>8, <2>1 DEF Yielded, Gains
  <2>4. Len(received'[k]) \in Nat /\ Len(received[k]) <= Len(received'[k])
    BY <2>2, ReceivedGrows
  <2>5. Preceded(k, s.next, n)'
    BY <2>2, <2>3, <2>4, PrecededKept
  <2>6. \A j \in Calls : \A i \in 1 .. Length(j) :
          Response(k, s.next) = Response(j, i) => Preceded(j, i, n)'
    BY <2>2, <2>5, ResponsesDiffer
  <2> QED BY <1>5, <1>8, <2>1, <2>6 DEF Yielded
<1>9. ASSUME NEW k \in Calls, RunStarted(k) PROVE AnswersInOrder'
  BY <1>0, <1>4, <1>9 DEF RunStarted
<1>10. ASSUME NEW k \in Calls, PartReceived(k) PROVE AnswersInOrder'
  <2>1. \A j \in Calls : \A i \in Nat : ToHost[1] = Response(j, i) => Len(received'[j]) >= i
    BY <1>10, FrontReceived
  <2>2. ToHost' = ToHost \/ Loses(ToHost, ToHost')
    BY <1>10 DEF PartReceived
  <2>3. CASE ToHost' = ToHost
    BY <1>0, <1>4, <1>10, <2>3
  <2>4. CASE Loses(ToHost, ToHost')
    BY <1>6, <1>10, <2>1, <2>4
  <2> QED BY <2>2, <2>3, <2>4
<1>11. ASSUME Unmapped PROVE AnswersInOrder'
  <2>1. Loses(ToHost, ToHost') /\ UNCHANGED received
    BY <1>11 DEF Unmapped
  <2>2. \A k \in Calls : \A i \in Nat : ToHost[1] = Response(k, i) => Len(received'[k]) >= i
    BY <1>11, FrontReceived
  <2> QED BY <1>6, <2>1, <2>2
<1>12. ASSUME HostAside PROVE AnswersInOrder'
  <2>1. \A k \in Calls : \A i \in 1 .. Length(k) : Response(k, i) # Termination
    BY ResponsesDiffer
  <2>2. CASE Gains(ToHost, ToHost', Termination)
    BY <1>0, <1>5, <1>12, <2>1, <2>2 DEF HostAside
  <2>3. CASE ToHost' = ToHost \/ Cut(ToHost, ToHost')
    <3>1. Len(ToHost') \in Nat
      BY ToHostTyped, TransportTypesStep, ConcatProperties, LenProperties
         DEF ToHost, Outgoing, TransportTypes, Sides
    <3> QED BY <1>0, <1>4, <1>12, <2>3, <3>1 DEF HostAside, Cut
  <2> QED BY <1>12, <2>2, <2>3 DEF HostAside
<1> QED BY <1>7, <1>8, <1>9, <1>10, <1>11, <1>12, ToHostEffect

LEMMA NextPartStep ==
    ASSUME Types, KeysDiffer, CallInv, RunInv, StreamInv, AnswerInv, ReceivedInv, BufferInv,
           [Next]_vars, HostReading'
    PROVE  NextPart'
<1>0. /\ HostReading /\ NextPart /\ Len(ToHost) \in Nat
  BY ToHostEffect, ToHostTyped DEF AnswerInv
<1>1. \A k \in Calls : /\ Ran(k)' => /\ Keyed(k) /\ caller'[k].key = caller[k].key
                                       /\ \A i : Response(k, i)' = Response(k, i)
                       /\ Ran(k) => Ran(k)'
  BY RanGrows
<1>2. \A s \in streams : s.next \in Nat \ {0} /\ s.next \in 1 .. Yields
  BY DEF Types, ModuleTypes
<1> DEFINE Fits(s, k) == /\ Len(received[k]) < s.next
                        /\ Preceded(k, s.next, Len(ToHost))
                        /\ \A i \in s.next .. Length(k) : \A p \in 1 .. Len(ToHost) :
                             ToHost[p] # Response(k, i)
<1>3. ASSUME NEW s \in streams, NEW k \in Calls, Ran(k)', s.key = caller'[k].key
      PROVE  Keyed(k) /\ Ran(k) /\ s.key = caller[k].key /\ Fits(s, k)
  <2>1. Keyed(k) /\ s.key = caller[k].key
    BY <1>1, <1>3
  <2>2. Ran(k)
    BY <2>1, StreamOwner
  <2> QED BY <1>0, <2>1, <2>2 DEF NextPart
<1>4. ASSUME NEW s \in streams, NEW k \in Calls, Ran(k)', s.key = caller'[k].key,
             UNCHANGED received \/ \E j \in Calls : PartReceived(j),
             Len(received'[k]) < s.next,
             \/ ToHost' = ToHost
             \/ /\ Loses(ToHost, ToHost')
                /\ \A i \in Nat : ToHost[1] = Response(k, i) => Len(received'[k]) >= i
             \/ \E m : /\ Gains(ToHost, ToHost', m)
                       /\ \A i \in s.next .. Length(k) : m # Response(k, i)
      PROVE  Fits(s, k)'
  <2>1. Keyed(k) /\ Fits(s, k) /\ s.next \in Nat \ {0}
    BY <1>2, <1>3, <1>4
  <2>2. Len(received'[k]) \in Nat /\ Len(received[k]) <= Len(received'[k])
    BY <1>4, ReceivedGrows
  <2>3. PICK n \in Nat : n = Len(ToHost)
    BY <1>0
  <2>4. \A i : Response(k, i)' = Response(k, i)
    BY <1>1, <1>4
  <2>5. CASE ToHost' = ToHost
    <3>1. Preceded(k, s.next, n)'
      BY <2>1, <2>2, <2>3, <2>5, PrecededKept
    <3> QED BY <1>4, <2>1, <2>3, <2>4, <2>5, <3>1
  <2>6. CASE /\ Loses(ToHost, ToHost')
             /\ \A i \in Nat : ToHost[1] = Response(k, i) => Len(received'[k]) >= i
    <3>1. n \in 0 .. Len(ToHost) /\ n - 1 = Len(ToHost')
      BY <2>3, <2>6 DEF Loses
    <3>2. ToHost[1] = Response(k, s.next - 1) => Len(received'[k]) >= s.next - 1
      BY <2>1, <2>6
    <3>3. Preceded(k, s.next, n - 1)'
      BY <2>1, <2>2, <2>3, <2>6, <3>1, <3>2, PrecededShifts
    <3>4. \A p \in 1 .. Len(ToHost') : p + 1 \in 1 .. Len(ToHost) /\ ToHost'[p] = ToHost[p + 1]
      BY <2>3, <3>1, <2>6 DEF Loses
    <3> QED BY <1>4, <2>1, <2>4, <3>1, <3>3, <3>4
  <2>7. ASSUME NEW m, Gains(ToHost, ToHost', m),
               \A i \in s.next .. Length(k) : m # Response(k, i)
        PROVE  Fits(s, k)'
    <3>1. /\ \A q \in 1 .. n : ToHost'[q] = ToHost[q]
          /\ n + 1 = Len(ToHost') /\ ToHost'[n + 1] = m /\ n <= n + 1
      BY <2>3, <2>7 DEF Gains
    <3>2. Preceded(k, s.next, n + 1)'
      BY SMTT(30), <2>1, <2>2, <2>3, <3>1, PrecededKept
    <3>3. \A i \in s.next .. Length(k) : \A p \in 1 .. Len(ToHost') : ToHost'[p] # Response(k, i)
      BY <2>1, <2>3, <2>7, <3>1
    <3> QED BY <1>4, <2>4, <3>1, <3>2, <3>3
  <2> QED BY <1>4, <2>5, <2>6, <2>7
<1>5. ASSUME \A s \in streams' : \A k \in Calls : Ran(k)' /\ s.key = caller'[k].key => Fits(s, k)'
      PROVE  NextPart'
  BY <1>5 DEF NextPart
<1> HIDE DEF Fits
<1>6. ASSUME NEW k \in Calls, RunAnswered(k) PROVE NextPart'
  <2>1. ASSUME NEW s \in streams, NEW j \in Calls, Ran(j)', s.key = caller'[j].key
        PROVE  Fits(s, j)'
    <3>1. Ran(j) /\ Fits(s, j)
      BY <1>3, <2>1
    <3>2. j # k
      BY <1>6, <3>1 DEF RunAnswered
    <3>3. \A i \in s.next .. Length(j) : Response(k, 1) # Response(j, i)
      BY <1>2, <3>2, ResponsesDiffer
    <3>4. Len(received'[j]) < s.next
      BY <1>6, <3>1 DEF Fits, RunAnswered
    <3> QED BY <1>4, <1>6, <2>1, <3>3, <3>4 DEF RunAnswered
  <2> QED BY <1>5, <1>6, <2>1 DEF RunAnswered
<1>7. ASSUME NEW k \in Calls, RunStarted(k) PROVE NextPart'
  <2>0. PICK new : new = [key |-> caller[k].key, args |-> <<k>>, next |-> 1]
    OBVIOUS
  <2>1. /\ streams' = streams \cup {new} /\ UNCHANGED received /\ ToHost' = ToHost
        /\ Keyed(k) /\ ~Ran(k)
    BY <1>7, <2>0 DEF RunStarted
  <2>2. ASSUME NEW j \in Calls, Ran(j)', new.key = caller'[j].key PROVE Fits(new, j)'
    <3>1. j = k
      BY <1>1, <2>0, <2>1, <2>2 DEF KeysDiffer
    <3>2. \A p \in 1 .. Len(ToHost) : \A i \in 1 .. Length(k) : ToHost[p] # Response(k, i)
      <4>1. SUFFICES ASSUME NEW p \in 1 .. Len(ToHost), NEW i \in Nat, ToHost[p] = Response(k, i)
                     PROVE  FALSE
        OBVIOUS
      <4>2. PICK m \in Calls, l \in Nat : Ran(m) /\ ToHost[p] = Response(m, l)
        BY <1>0, <4>1, AnswerOwner, ResponsesDiffer
      <4>3. m = k
        BY <4>1, <4>2, ResponsesDiffer
      <4> QED BY <2>1, <4>2, <4>3
    <3>3. Len(received'[k]) < 1
      <4>1. received'[k] = <<>>
        BY <2>1 DEF ReceivedInv
      <4> QED BY <4>1
    <3>4. \A i : Response(k, i)' = Response(k, i)
      BY <1>1, <2>2, <3>1
    <3> QED BY <2>0, <2>1, <3>1, <3>2, <3>3, <3>4 DEF Fits, Preceded
  <2>3. ASSUME NEW s \in streams, NEW j \in Calls, Ran(j)', s.key = caller'[j].key
        PROVE  Fits(s, j)'
    <3>1. Fits(s, j)
      BY <1>3, <2>3
    <3>2. Len(received'[j]) < s.next
      BY <2>1, <3>1 DEF Fits
    <3> QED BY <1>4, <2>1, <2>3, <3>2
  <2> QED BY <1>5, <2>1, <2>2, <2>3
<1>8. ASSUME NEW k \in Calls, NEW s \in streams, Yielded(k, s) PROVE NextPart'
  <2>0. PICK new : new = [s EXCEPT !.next = @ + 1]
    OBVIOUS
  <2>1. /\ streams' = (streams \ {s}) \cup (IF s.next = Yields THEN {} ELSE {new})
        /\ UNCHANGED received /\ Gains(ToHost, ToHost', Response(k, s.next))
        /\ Keyed(k) /\ Ran(k) /\ s.key = caller[k].key
    BY <1>8, <2>0 DEF Yielded
  <2>2. new.key = s.key /\ new.next = s.next + 1 /\ s.next \in Nat \ {0}
    BY <1>2, <2>0 DEF Types, ModuleTypes
  <2>3. ASSUME NEW j \in Calls, Ran(j)', new.key = caller'[j].key PROVE Fits(new, j)'
    <3>1. j = k /\ Fits(s, k)
      <4>1. Keyed(j) /\ caller'[j].key = caller[j].key
        BY <1>1, <2>3
      <4>2. j = k
        BY <2>1, <2>2, <2>3, <4>1 DEF KeysDiffer
      <4>3. s.key = caller'[k].key /\ Ran(k)'
        BY <2>2, <2>3, <4>2
      <4>4. Fits(s, k)
        BY <1>3, <4>3
      <4> QED BY <4>2, <4>4
    <3>2. \A i : Response(k, i)' = Response(k, i)
      BY <1>1, <2>3, <3>1
    <3>3. Len(received'[k]) < new.next
      BY <2>1, <2>2, <3>1, ReceivedTyped DEF Fits
    <3>4. /\ Len(ToHost') = Len(ToHost) + 1 /\ ToHost'[Len(ToHost')] = Response(k, s.next)
          /\ \A p \in 1 .. Len(ToHost) : ToHost'[p] = ToHost[p]
      BY <1>0, <2>1 DEF Gains
    <3>5. Preceded(k, new.next, Len(ToHost))'
      <4>1. Len(ToHost') \in 1 .. Len(ToHost') /\ new.next - 1 = s.next
        BY <1>0, <2>2, <3>4
      <4>2. ToHost'[Len(ToHost')] = Response(k, new.next - 1)'
        BY <3>2, <3>4, <4>1
      <4> QED BY <4>1, <4>2 DEF Preceded
    <3>6. ASSUME NEW i \in new.next .. Length(k), NEW p \in 1 .. Len(ToHost')
          PROVE  ToHost'[p] # Response(k, i)
      <4>1. i \in s.next .. Length(k) /\ i # s.next /\ i \in Nat
        BY <2>2, LengthTyped
      <4>2. CASE p \in 1 .. Len(ToHost)
        BY <3>1, <3>4, <4>1, <4>2 DEF Fits
      <4>3. CASE p = Len(ToHost')
        BY <2>2, <3>4, <4>1, <4>3, ResponsesDiffer
      <4> QED BY <1>0, <3>4, <4>2, <4>3
    <3> QED BY <3>1, <3>2, <3>3, <3>5, <3>6 DEF Fits
  <2>4. ASSUME NEW t \in streams \ {s}, NEW j \in Calls, Ran(j)', t.key = caller'[j].key
        PROVE  Fits(t, j)'
    <3>1. Fits(t, j) /\ j # k
      BY <1>1, <1>3, <2>1, <2>4 DEF StreamInv
    <3>2. Len(received'[j]) < t.next
      BY <2>1, <3>1 DEF Fits
    <3>3. \A i \in t.next .. Length(j) : Response(k, s.next) # Response(j, i)
      BY <1>2, <2>2, <3>1, ResponsesDiffer
    <3> QED BY <1>4, <2>1, <2>4, <3>2, <3>3
  <2> QED BY <1>5, <2>1, <2>3, <2>4
<1>9. ASSUME NEW k \in Calls, PartReceived(k) PROVE NextPart'
  <2>1. ASSUME NEW s \in streams, NEW j \in Calls, Ran(j)', s.key = caller'[j].key
        PROVE  Fits(s, j)'
    <3>1. Fits(s, j)
      BY <1>3, <2>1
    <3>2. Len(received'[j]) < s.next
      <4>1. CASE j = k
        <5>1. /\ Len(received[k]) + 1 \in 1 .. Length(k)
              /\ 1 \in 1 .. Len(ToHost) /\ ToHost[1] = Response(k, Len(received[k]) + 1)
          BY <1>0, <1>9 DEF PartReceived
        <5>2. ~(Len(received[k]) + 1 \in s.next .. Length(k))
          BY <3>1, <4>1, <5>1 DEF Fits
        <5>3. Len(received'[k]) = Len(received[k]) + 1
          BY <1>9, PartAppended
        <5> QED BY <1>2, <4>1, <5>1, <5>2, <5>3, LengthTyped, ReceivedTyped
      <4>2. CASE j # k
        BY <1>9, <3>1, <4>2, PartAppended DEF Fits
      <4> QED BY <4>1, <4>2
    <3>3. \A i \in Nat : ToHost[1] = Response(j, i) => Len(received'[j]) >= i
      BY <1>9, FrontReceived
    <3>4. ToHost' = ToHost \/ Loses(ToHost, ToHost')
      BY <1>9 DEF PartReceived
    <3> QED BY <1>4, <1>9, <2>1, <3>2, <3>3, <3>4
  <2>2. UNCHANGED streams
    BY <1>9 DEF PartReceived
  <2> QED BY <1>5, <2>1, <2>2
<1>10. ASSUME Unmapped \/ HostAside PROVE NextPart'
  <2>1. UNCHANGED received /\ streams' \subseteq streams
    BY <1>10 DEF Unmapped, HostAside
  <2>2. ASSUME NEW s \in streams', NEW j \in Calls, Ran(j)', s.key = caller'[j].key
        PROVE  Fits(s, j)'
    <3>1. Fits(s, j) /\ s \in streams
      BY <1>3, <2>1, <2>2
    <3>2. Len(received'[j]) < s.next
      BY <2>1, <3>1 DEF Fits
    <3>3. CASE Unmapped
      <4>1. \A i \in Nat : ToHost[1] = Response(j, i) => Len(received'[j]) >= i
        BY <3>3, FrontReceived
      <4>2. Loses(ToHost, ToHost')
        BY <3>3 DEF Unmapped
      <4> QED BY <1>4, <2>1, <2>2, <3>1, <3>2, <4>1, <4>2
    <3>4. CASE HostAside
      <4>1. \A i \in s.next .. Length(j) : Termination # Response(j, i)
        BY <1>2, <3>1, ResponsesDiffer
      <4>2. ToHost' = ToHost \/ Gains(ToHost, ToHost', Termination)
        BY <2>2, <3>4 DEF HostAside
      <4> QED BY <1>4, <2>1, <2>2, <3>1, <3>2, <4>1, <4>2
    <3> QED BY <1>10, <3>3, <3>4
  <2> QED BY <1>5, <2>2
<1> QED BY <1>6, <1>7, <1>8, <1>9, <1>10, ToHostEffect

-----------------------------------------------------------------------------
(* What a buffer holds, and what a handle returns.                         *)
LEMMA CallerAlone ==
    ASSUME Types, NEW k \in Calls, CallStep(k)
    PROVE  \A j \in Calls : j # k => caller'[j] = caller[j]
<1>0. DOMAIN caller = Calls
  BY DEF Types, HostTypes
<1>1. CASE TakeIndex(k) \/ InsertIndex(k)
  BY <1>1, IndexTaken
<1>2. CASE \E where : Goto(k, where)
  BY <1>0, <1>2 DEF Goto
<1>3. CASE LookUpResponse(k)
  BY <1>0, <1>3 DEF LookUpResponse, Goto
<1>4. CASE Return(k)
  BY <1>0, <1>4 DEF Return
<1> QED BY <1>1, <1>2, <1>3, <1>4
        DEF CallStep, Refuse, FindNoIndex, PushResponse, SendWhole, SendPiece, Register, FailPoisoned,
            Unregister

LEMMA WholeAnswer ==
    ASSUME Types, ReceivedInv, NEW k \in Calls, complete_lock[k] = "Complete"
    PROVE  received[k] = Answer(k)
<1>1. /\ received[k] \in Seq(Parts) /\ Len(received[k]) = Length(k)
      /\ \A i \in 1 .. Length(k) : received[k][i] = Part(k, i)
  BY ReceivedTyped DEF ReceivedInv
<1>2. received[k] = [i \in 1 .. Length(k) |-> received[k][i]]
  BY <1>1
<1> QED BY <1>1, <1>2 DEF Answer, Length

(* How a call comes to be answered.                                        *)
LEMMA AnsweredStep ==
    ASSUME Types, BufferInv, NEW k \in Calls, CallStep(k), caller'[k].pc \in Answered
    PROVE  \/ caller[k].pc \in Answered /\ caller'[k].got = caller[k].got
           \/ /\ Return(k) /\ caller'[k].got = received[k]
              /\ complete_lock[k] = "Complete"
<1> USE DEF Answered, CallerStates
<1>1. CASE TakeIndex(k) \/ InsertIndex(k)
  BY <1>1, IndexTaken
<1>2. CASE Unregister(k)
  <2>1. caller[k].pc = "unregister" /\ Goto(k, "returned")
    BY <1>2 DEF Unregister, At
  <2> QED BY <2>1, GotoMoves DEF Types
<1>3. CASE Return(k)
  <2>1. /\ caller[k].pc = "wait" /\ caller[k].buf \in Buffers
        /\ complete_lock[buffers[caller[k].buf]] = "Complete"
        /\ caller' = [caller EXCEPT ![k].pc = "unregister", ![k].got = received[buffers[caller[k].buf]]]
    BY <1>3 DEF Return, At, Types, HostTypes
  <2>2. buffers[caller[k].buf] = k
    BY <2>1 DEF BufferInv
  <2>3. caller'[k].got = received[k]
    BY ZenonT(60), <2>1, <2>2, ReceivedTyped, GotMoves DEF Types
  <2> QED BY <1>3, <2>1, <2>2, <2>3
<1>4. CASE LookUpResponse(k)
  <2>1. caller'[k].pc \in {"failed", "lost", "register"}
    BY <1>4 DEF LookUpResponse, Goto, Types, HostTypes
  <2> QED BY <2>1
<1>5. CASE \E where \in CallerStates \ Answered : Goto(k, where)
  BY <1>5, GotoMoves DEF Types
<1>6. SendPiece(k) => \E where \in CallerStates \ Answered : Goto(k, where)
  BY DEF SendPiece
<1>7. Register(k) => \E where \in CallerStates \ Answered : Goto(k, where)
  BY DEF Register
<1> QED BY <1>1, <1>2, <1>3, <1>4, <1>5, <1>6, <1>7
        DEF CallStep, Refuse, FindNoIndex, PushResponse, SendWhole, FailPoisoned

(* The response at the front stays there while the host unmaps it.         *)
LEMMA UnmappingStays ==
    ASSUME Types, StatusTypes', Unmapping',
           ModuleReads \/ YieldStep \/ UNCHANGED vars
             \/ (\E k \in Calls : CallStep(k)) \/ (\E t \in Sides : SideStep(t))
    PROVE  Unmapping /\ Message("host")' = Message("host")
<1>0. /\ stream["module"] \in Seq(Messages) /\ queue["module"] \in Seq(Messages)
      /\ DOMAIN stream = Sides /\ "module" \in Sides /\ "host" \in Sides /\ DOMAIN thread = Sides
  BY DEF Types, TransportTypes, StatusTypes, Sides
<1>1. HostReading'
  BY DEF StatusTypes, Unmapping, HostReading, Reading
<1>2. stream'["module"] = stream["module"] => Message("host")' = Message("host")
  BY DEF Message, Other
<1>3. CASE ModuleReads
  <2>1. Consume("module") /\ \E where : Reader("module", where)
    BY <1>3 DEF ModuleReads, RejectCall, ReceiveArguments, RunStandard, StartStreaming,
                NoSuchProcedure, LastPiece, ReadOn
  <2> QED BY <1>0, <1>2, <2>1 DEF Consume, Other, Reader, Unmapping
<1>4. CASE YieldStep \/ UNCHANGED vars
  BY <1>2, <1>4 DEF YieldStep, Yield, YieldFails, vars, transport, status, Unmapping
<1>5. CASE \E k \in Calls : CallStep(k)
  BY <1>2, <1>5, CallStepKeeps DEF Unmapping
<1>6. ASSUME NEW t \in Sides, SideStep(t) PROVE Unmapping /\ Message("host")' = Message("host")
  <2>1. Unmapping /\ stream["module"] # <<>>
    BY <1>1, <1>6, SideStepReader DEF Types, StatusTypes, Unmapping
  <2>2. CASE stream'["module"] = stream["module"]
    BY <1>2, <2>1, <2>2
  <2>3. CASE ReceiveTermination(t)
    <3>1. t = "host" => Reader("host", "sweep")
      BY <2>3 DEF ReceiveTermination
    <3>2. t # "host"
      BY <1>0, <3>1 DEF Reader, Unmapping, Types, StatusTypes
    <3>3. stream'["module"] = stream["module"]
      BY <1>0, <2>3, <3>2 DEF ReceiveTermination, Consume, Other, Sides
    <3> QED BY <2>2, <3>3
  <2>4. CASE WriteMessage(t)
    <3>1. t = "module" => /\ queue["module"] # <<>>
                          /\ stream'["module"] = Append(stream["module"], Head(queue["module"]))
      BY <1>0, <2>4 DEF WriteMessage
    <3>2. t # "module" => stream'["module"] = stream["module"]
      BY <1>0, <2>4 DEF WriteMessage
    <3>3. queue["module"] # <<>> => Head(queue["module"]) \in Messages
      BY <1>0, HeadQueued DEF Types
    <3>4. t = "module" => Head(stream'["module"]) = Head(stream["module"])
      BY <1>0, <2>1, <3>1, <3>3, HeadOfAppend
    <3> QED BY <2>1, <2>2, <3>2, <3>4 DEF Message, Other
  <2>5. CASE Crash(t)
    <3>1. t # "host"
      BY <1>1, <2>5 DEF Crash, HostReading, Reading
    <3>2. stream'["module"] = stream["module"]
      BY <1>0, <2>5, <3>1 DEF Crash, Other, Sides
    <3> QED BY <2>2, <3>2
  <2> QED BY <1>6, <2>2, <2>3, <2>4, <2>5
          DEF SideStep, EndOfFile, SweepTerminated, Leave, SweepDropped, Flush, FlushEnds,
              SeeTermination, WriteFails, SignalTermination, transport
<1> QED BY <1>3, <1>4, <1>5, <1>6

LEMMA ReceivedInvStep ==
    ASSUME Types, Types', KeysDiffer, CallInv, RunInv, AnswerInv, ReceivedInv, BufferInv, [Next]_vars
    PROVE  ReceivedInv'
<1>1. \A k \in Calls : Ran(k) => Ran(k)' /\ \A i : Response(k, i)' = Response(k, i)
  BY RanGrows
<1>2. ASSUME UNCHANGED received,
             \A k \in Calls : complete_lock'[k] = "Complete" <=> complete_lock[k] = "Complete",
             \A k \in Calls : caller'[k].pc \in Answered =>
               caller'[k].got = Answer(k) /\ complete_lock[k] = "Complete",
             Unmapping' => Unmapping /\ Message("host")' = Message("host")
      PROVE  ReceivedInv'
  BY <1>1, <1>2 DEF ReceivedInv
<1>3. ASSUME NEW k \in Calls, CallStep(k) PROVE ReceivedInv'
  <2>1. UNCHANGED <<received, complete_lock>>
    BY <1>3, CallStepKeeps
  <2>2. Unmapping' => Unmapping /\ Message("host")' = Message("host")
    BY <1>3, UnmappingStays DEF Types
  <2>3. caller'[k].pc \in Answered => caller'[k].got = Answer(k) /\ complete_lock[k] = "Complete"
    BY <1>3, AnsweredStep, WholeAnswer DEF ReceivedInv
  <2>4. \A j \in Calls : j # k => caller'[j] = caller[j]
    BY <1>3, CallerAlone
  <2>5. \A j \in Calls : caller'[j].pc \in Answered =>
             caller'[j].got = Answer(j) /\ complete_lock[j] = "Complete"
    BY <2>3, <2>4 DEF ReceivedInv
  <2> QED BY <1>2, <2>1, <2>2, <2>5
<1>4. CASE ModuleReads \/ YieldStep \/ UNCHANGED vars
  <2>1. UNCHANGED <<received, complete_lock, caller>>
    BY <1>4, ModuleStepKeeps DEF vars, host
  <2>2. Unmapping' => Unmapping /\ Message("host")' = Message("host")
    BY <1>4, UnmappingStays DEF Types
  <2> QED BY <1>2, <2>1, <2>2 DEF ReceivedInv
<1>5. ASSUME NEW t \in Sides, SideStep(t) PROVE ReceivedInv'
  <2>1. UNCHANGED <<received, caller>> /\ complete_lock' \in {complete_lock, Poisoned}
    BY <1>5, SideStepKeeps
  <2>2. \A k \in Calls : complete_lock'[k] = "Complete" <=> complete_lock[k] = "Complete"
    BY <2>1 DEF Poisoned
  <2>3. Unmapping' => Unmapping /\ Message("host")' = Message("host")
    BY <1>5, UnmappingStays DEF Types
  <2> QED BY <1>2, <2>1, <2>2, <2>3 DEF ReceivedInv
<1>6. CASE HostReads
  <2>0. UNCHANGED <<caller, runs, stream>> \/ UNCHANGED <<caller, runs>>
    BY <1>6, HostReadKeeps
  <2>1. ASSUME NEW k \in Calls, PartReceived(k), ReceiveResponse, complete_lock[k] # "Complete",
               complete_lock' = IF Unmapping' THEN [complete_lock EXCEPT ![k] = "Complete"]
                                ELSE complete_lock
        PROVE  ReceivedInv'
    <3>1. /\ Len(received'[k]) = Len(received[k]) + 1
          /\ received'[k][Len(received[k]) + 1] = Part(k, Len(received[k]) + 1)
          /\ \A i \in 1 .. Len(received[k]) : received'[k][i] = received[k][i]
          /\ \A j \in Calls : j # k => received'[j] = received[j]
      BY <2>1, PartAppended
    <3>2. /\ Ran(k) /\ Len(received[k]) + 1 \in 1 .. Length(k) /\ Len(received[k]) \in Nat
          /\ Unmapping' => Len(received[k]) + 1 = Length(k)
      BY <2>1, ReceivedTyped DEF PartReceived
    <3>3. /\ \A j \in Calls : j # k => complete_lock'[j] = complete_lock[j]
          /\ complete_lock'[k] = "Complete" <=> Unmapping'
      BY <2>1 DEF Types, HostTypes
    <3>4. ASSUME NEW j \in Calls
          PROVE  /\ Len(received'[j]) <= Length(j)
                 /\ \A i \in 1 .. Len(received'[j]) : received'[j][i] = Part(j, i)
                 /\ received'[j] # <<>> => Ran(j)'
                 /\ complete_lock'[j] = "Complete" => Len(received'[j]) = Length(j)
                 /\ caller'[j].pc \in Answered => caller'[j].got = Answer(j) /\ complete_lock'[j] = "Complete"
      <4>1. CASE j = k
        <5>1. \A i \in 1 .. Len(received'[k]) : received'[k][i] = Part(k, i)
          <6>1. \A i \in 1 .. Len(received'[k]) : i \in 1 .. Len(received[k]) \/ i = Len(received[k]) + 1
            BY <3>1, <3>2
          <6> QED BY <3>1, <6>1 DEF ReceivedInv
        <5>2. caller[k].pc \notin Answered
          BY <2>1 DEF ReceivedInv
        <5> QED BY <1>1, <2>0, <3>1, <3>2, <3>3, <4>1, <5>1, <5>2
      <4>2. CASE j # k
        BY <1>1, <2>0, <3>1, <3>3, <4>2 DEF ReceivedInv
      <4> QED BY <4>1, <4>2
    <3>5. ASSUME Unmapping'
          PROVE  Message("host")' = Response(k, Length(k))' /\ Ran(k)' /\ complete_lock'[k] = "Complete"
      <4>1. UNCHANGED stream
        <5>1. UNCHANGED stream \/ ReadOn("host")
          BY <2>1 DEF ReceiveResponse
        <5>2. ReadOn("host") => ~Unmapping'
          BY DEF ReadOn, Reader, Unmapping, Types, StatusTypes, Sides
        <5> QED BY <3>5, <5>1, <5>2
      <4>2. stream["module"] # <<>>
        BY <2>1 DEF ReceiveResponse, Reads, Other
      <4>3. Message("host") = Response(k, Length(k))
        BY <2>1, <3>2, <3>5, <4>2, HostHead DEF PartReceived
      <4>4. Message("host")' = Message("host")
        BY <4>1 DEF Message
      <4> QED BY <1>1, <3>2, <3>3, <3>5, <4>3, <4>4
    <3> QED BY <3>4, <3>5 DEF ReceivedInv
  <2>2. CASE Unmapped /\ UNCHANGED complete_lock
    BY <1>2, <2>0, <2>2 DEF Unmapped, ReceivedInv
  <2>3. CASE NoResponseBuffer
    <3>1. UNCHANGED <<received, complete_lock>> /\ Reader("host", "leave")
      BY <2>3 DEF NoResponseBuffer, host
    <3>2. ~Unmapping'
      BY <3>1 DEF Reader, Unmapping, Types, StatusTypes, Sides
    <3> QED BY <1>2, <2>0, <3>1, <3>2 DEF ReceivedInv
  <2> QED BY <1>6, <2>1, <2>2, <2>3, HostReadAnswers
<1> QED BY <1>3, <1>4, <1>5, <1>6, NextSteps

-----------------------------------------------------------------------------
(* A call keeps its buffer if nothing else takes it or its mapping.        *)
LEMMA BufferStays ==
    ASSUME Types, BufferInv, NEW j \in Calls,
           caller'[j].key = caller[j].key,
           Pushed(j)' => Pushed(j),
           caller[j].pc \in Answered => caller'[j].pc \in Answered,
           caller'[j].pc \in {"register", "wait"} =>
             caller[j].pc \in {"register", "wait"} /\ caller'[j].buf = caller[j].buf,
           complete_lock[j] = "Complete" => complete_lock'[j] = "Complete",
           Keyed(j) => response_idx_map'[caller[j].key] = response_idx_map[caller[j].key],
           \A b \in Buffers : buffers[b] = j => buffers'[b] = j
    PROVE  /\ Pushed(j)' /\ complete_lock'[j] # "Complete" =>
                response_idx_map'[caller'[j].key] # None
           /\ Pushed(j)' /\ caller'[j].pc \notin Answered
                /\ response_idx_map'[caller'[j].key] # None =>
                buffers'[response_idx_map'[caller'[j].key]] = j
           /\ caller'[j].pc \in {"register", "wait"} => buffers'[caller'[j].buf] = j
<1>1. /\ Pushed(j) => Keyed(j) /\ caller[j].key \in Keys
      /\ \A key \in Keys : response_idx_map[key] \in Buffers \cup {None}
      /\ caller[j].pc \in {"register", "wait"} => caller[j].buf \in Buffers
  BY DEF Types, HostTypes, Pushed, Keyed
<1> QED BY <1>1 DEF BufferInv

LEMMA BuffersCalled ==
    ASSUME Types, KeysDiffer, KeysDiffer', BufferInv, NEW k \in Calls, CallStep(k)
    PROVE  BufferInv'
<1> DEFINE Holds(j) ==
        /\ Pushed(j)' /\ complete_lock'[j] # "Complete" =>
             response_idx_map'[caller'[j].key] # None
        /\ Pushed(j)' /\ caller'[j].pc \notin Answered
             /\ response_idx_map'[caller'[j].key] # None =>
             buffers'[response_idx_map'[caller'[j].key]] = j
        /\ caller'[j].pc \in {"register", "wait"} => buffers'[caller'[j].buf] = j
<1>0. UNCHANGED complete_lock /\ DOMAIN caller = Calls
  BY CallStepKeeps DEF Types, HostTypes
<1>1. \A j \in Calls : j # k => caller'[j] = caller[j]
  BY CallerAlone
<1>2. ASSUME NEW j \in Calls, j # k,
             Keyed(j) => response_idx_map'[caller[j].key] = response_idx_map[caller[j].key],
             \A b \in Buffers : buffers[b] = j => buffers'[b] = j
      PROVE  Holds(j)
  BY <1>0, <1>1, <1>2, BufferStays DEF Pushed, Keyed
<1>3. (\A j \in Calls : j # k => Holds(j)) /\ Holds(k) => BufferInv'
  BY DEF BufferInv
<1>4. ASSUME UNCHANGED <<response_idx_map, buffers>> PROVE \A j \in Calls : j # k => Holds(j)
  BY <1>2, <1>4
<1>5. ASSUME UNCHANGED <<response_idx_map, buffers>>, NEW where \in CallerStates, Goto(k, where),
             caller[k].pc \notin {"push"} \cup (Answered \ {"unregister"}),
             where \notin {"register"}, where = "wait" => caller[k].pc = "register",
             caller[k].pc = "unregister" => where \in Answered
      PROVE  BufferInv'
  <2>1. /\ caller'[k].pc = where /\ caller'[k].key = caller[k].key
        /\ caller'[k].buf = caller[k].buf
    BY <1>5, GotoMoves DEF Types
  <2>2. Holds(k)
    <3>1. Pushed(k)' => Pushed(k)
      BY <1>5, <2>1 DEF Pushed, Keyed
    <3>2. caller[k].pc \in Answered => caller'[k].pc \in Answered
      BY <1>5, <2>1 DEF Answered
    <3> QED BY <1>0, <1>5, <2>1, <3>1, <3>2, BufferStays
  <2> QED BY <1>3, <1>4, <1>5, <2>2
<1>6. CASE Refuse(k) \/ FindNoIndex(k) \/ SendWhole(k) \/ SendPiece(k) \/ Register(k)
           \/ FailPoisoned(k) \/ Unregister(k)
  <2>1. UNCHANGED <<response_idx_map, buffers>>
    BY <1>6 DEF Refuse, FindNoIndex, SendWhole, SendPiece, Register, FailPoisoned, Unregister
  <2>2. \E where \in CallerStates :
          /\ Goto(k, where)
          /\ caller[k].pc \notin {"push", "returned"}
          /\ where # "register" /\ (where = "wait" => caller[k].pc = "register")
          /\ caller[k].pc = "unregister" => where = "returned"
    BY <1>6 DEF Refuse, FindNoIndex, SendWhole, SendPiece, Register, FailPoisoned, Unregister,
                At, CallerStates
  <2> QED BY <1>5, <2>1, <2>2 DEF Answered
<1>7. CASE TakeIndex(k) \/ InsertIndex(k)
  <2>1. UNCHANGED <<response_idx_map, buffers>>
    BY <1>7 DEF TakeIndex, InsertIndex
  <2>2. caller'[k].pc = "push"
    BY <1>7, IndexTaken
  <2>3. Holds(k)
    BY <2>2 DEF Pushed, Answered
  <2> QED BY <1>3, <1>4, <2>1, <2>3
<1>8. CASE PushResponse(k)
  <2>1. PICK b \in Buffers :
          /\ buffers[b] = None
          /\ buffers' = [buffers EXCEPT ![b] = k]
          /\ response_idx_map' = [response_idx_map EXCEPT ![caller[k].key] = b]
    BY <1>8 DEF PushResponse
  <2>2. /\ caller'[k].pc = "send" /\ caller'[k].key = caller[k].key /\ caller[k].pc = "push"
    BY <1>8, GotoMoves DEF PushResponse, At, Types, CallerStates
  <2>3. Keyed(k) /\ caller[k].key \in Keys
    BY <2>2 DEF Types, KeyTypes, HostTypes, Keyed
  <2>4. /\ response_idx_map'[caller[k].key] = b /\ b # None /\ buffers'[b] = k
        /\ \A c \in Buffers : c # b => buffers'[c] = buffers[c]
        /\ \A key \in Keys : key # caller[k].key => response_idx_map'[key] = response_idx_map[key]
    BY <2>1, <2>3, CallsAssumption DEF Types, HostTypes
  <2>5. Holds(k)
    BY <2>2, <2>4 DEF Answered
  <2>6. ASSUME NEW j \in Calls, j # k PROVE Holds(j)
    <3>1. Keyed(j) => caller[j].key # caller[k].key /\ caller[j].key \in Keys
      BY <2>3, <2>6 DEF KeysDiffer, Types, HostTypes, Keyed
    <3>2. \A c \in Buffers : buffers[c] = j => buffers'[c] = j
      BY <2>1, <2>4, CallsAssumption
    <3> QED BY <1>2, <2>4, <2>6, <3>1, <3>2
  <2> QED BY <1>3, <2>5, <2>6
<1>9. CASE LookUpResponse(k)
  <2>1. UNCHANGED <<response_idx_map, buffers>>
    BY <1>9 DEF LookUpResponse
  <2>2. CASE \E where \in {"failed", "lost"} : Goto(k, where)
    <3>1. caller[k].pc = "lookup"
      BY <1>9 DEF LookUpResponse, At
    <3> QED BY <1>5, <2>1, <2>2, <3>1 DEF Answered, CallerStates
  <2>3. ASSUME response_idx_map[caller[k].key] # None,
               caller' = [caller EXCEPT ![k].pc = "register",
                                        ![k].buf = response_idx_map[caller[k].key]]
        PROVE  BufferInv'
    <3> DEFINE b == response_idx_map[caller[k].key]
    <3>1. caller[k].pc = "lookup"
      BY <1>9 DEF LookUpResponse, At
    <3>2. Pushed(k) /\ caller[k].key \in Keys
      BY <3>1 DEF Types, KeyTypes, HostTypes, Keyed, Pushed
    <3>3. b \in Buffers /\ buffers[b] = k
      BY <2>3, <3>1, <3>2 DEF BufferInv, Types, HostTypes, Answered
    <3>4. caller' = [caller EXCEPT ![k].pc = "register", ![k].buf = b]
      BY <2>3
    <3> HIDE DEF b
    <3>5. caller'[k].pc = "register" /\ caller'[k].buf = b /\ caller'[k].key = caller[k].key
      <4>1. HostTypes /\ "register" \in CallerStates
        BY DEF Types, CallerStates
      <4> QED BY ZenonT(60), <3>3, <3>4, <4>1, BufMoves
    <3>6. Holds(k)
      BY <2>1, <2>3, <3>3, <3>5 DEF b
    <3> QED BY <1>3, <1>4, <2>1, <3>6
  <2> QED BY <1>9, <2>2, <2>3 DEF LookUpResponse
<1>10. CASE Return(k)
  <2>1. /\ caller[k].pc = "wait" /\ complete_lock[buffers[caller[k].buf]] = "Complete"
        /\ buffers' = [buffers EXCEPT ![caller[k].buf] = None]
        /\ UNCHANGED response_idx_map
        /\ caller'[k].pc = "unregister"
    BY <1>0, <1>10 DEF Return, At, Types, HostTypes
  <2>2. buffers[caller[k].buf] = k /\ caller[k].buf \in Buffers
    BY <2>1 DEF BufferInv, Types, HostTypes
  <2>3. Holds(k)
    BY <1>0, <2>1, <2>2 DEF Answered
  <2>4. ASSUME NEW j \in Calls, j # k PROVE Holds(j)
    <3>1. \A c \in Buffers : buffers[c] = j => buffers'[c] = j
      BY <2>1, <2>2, <2>4 DEF Types, HostTypes
    <3> QED BY <1>2, <2>1, <2>4, <3>1
  <2> QED BY <1>3, <2>3, <2>4
<1> QED BY <1>6, <1>7, <1>8, <1>9, <1>10 DEF CallStep

LEMMA BufferInvStep ==
    ASSUME Types, KeysDiffer, KeysDiffer', RunInv, AnswerInv, ReceivedInv, BufferInv, [Next]_vars
    PROVE  BufferInv'
<1>1. CASE \E k \in Calls : CallStep(k)
  BY <1>1, BuffersCalled
<1>2. ASSUME UNCHANGED <<caller, buffers>>,
             \A j \in Calls : complete_lock[j] = "Complete" => complete_lock'[j] = "Complete",
             \A j \in Calls : Keyed(j) /\ complete_lock[j] # "Complete" =>
               response_idx_map'[caller[j].key] = response_idx_map[caller[j].key],
             \A key \in Keys : response_idx_map'[key] \in {response_idx_map[key], None}
      PROVE  BufferInv'
  <2>1. \A j \in Calls : Keyed(j) => caller[j].key \in Keys
    BY DEF Types, HostTypes, Keyed
  <2> QED BY <1>2, <2>1 DEF BufferInv, Pushed, Keyed
<1>3. CASE ModuleReads \/ YieldStep \/ UNCHANGED vars
  <2>1. UNCHANGED <<caller, buffers, complete_lock, response_idx_map>>
    BY <1>3, ModuleStepKeeps DEF vars, host
  <2> QED BY <1>2, <2>1
<1>4. ASSUME NEW t \in Sides, SideStep(t) PROVE BufferInv'
  <2>1. UNCHANGED <<caller, buffers, response_idx_map>> /\ complete_lock' \in {complete_lock, Poisoned}
    BY <1>4, SideStepKeeps
  <2>2. \A j \in Calls : complete_lock[j] = "Complete" => complete_lock'[j] = "Complete"
    BY <2>1 DEF Poisoned
  <2> QED BY <1>2, <2>1, <2>2
<1>5. CASE HostReads
  <2>1. UNCHANGED <<caller, buffers>>
    BY <1>5, HostReadKeeps
  <2>2. ASSUME NEW k \in Calls,
               complete_lock' \in {complete_lock, [complete_lock EXCEPT ![k] = "Complete"]},
               UNCHANGED response_idx_map
        PROVE  BufferInv'
    <3>1. \A j \in Calls : complete_lock[j] = "Complete" => complete_lock'[j] = "Complete"
      BY <2>2 DEF Types, HostTypes
    <3> QED BY <1>2, <2>1, <2>2, <3>1
  <2>3. ASSUME UNCHANGED complete_lock, NEW k \in Calls, Ran(k), complete_lock[k] = "Complete",
               response_idx_map' = [response_idx_map EXCEPT ![caller[k].key] = None]
        PROVE  BufferInv'
    <3>1. Keyed(k) /\ caller[k].key \in Keys
      BY <2>3 DEF RunInv, Types, HostTypes, Keyed
    <3>2. \A j \in Calls : Keyed(j) /\ complete_lock[j] # "Complete" =>
             response_idx_map'[caller[j].key] = response_idx_map[caller[j].key]
      BY <2>3, <3>1 DEF KeysDiffer, Types, HostTypes, Keyed
    <3>3. \A key \in Keys : response_idx_map'[key] \in {response_idx_map[key], None}
      BY <2>3, <3>1 DEF Types, HostTypes
    <3> QED BY <1>2, <2>1, <2>3, <3>2, <3>3
  <2>4. NoResponseBuffer => UNCHANGED <<complete_lock, response_idx_map>>
    BY DEF NoResponseBuffer, host
  <2>5. CASE NoResponseBuffer
    BY <1>2, <2>1, <2>4, <2>5
  <2> QED BY <1>5, <2>2, <2>3, <2>5, HostReadAnswers
<1> QED BY <1>1, <1>3, <1>4, <1>5, NextSteps

(* A handle finds the message its identifier denotes.                      *)
LEMMA NoHandlePanicStep ==
    ASSUME Types, BufferInv, NoHandlePanic, [Next]_vars
    PROVE  NoHandlePanic'
<1> USE DEF NoHandlePanic
<1>1. ASSUME NEW k \in Calls, CallStep(k) PROVE NoHandlePanic'
  <2>1. \A j \in Calls : j # k => caller'[j] = caller[j]
    BY <1>1, CallerAlone
  <2>2. caller'[k].pc # "panicked"
    <3> USE DEF CallerStates
    <3>1. CASE TakeIndex(k) \/ InsertIndex(k)
      BY <3>1, IndexTaken
    <3>2. CASE Register(k)
      <4>1. caller[k].pc = "register"
        BY <3>2 DEF Register, At
      <4>2. buffers[caller[k].buf] # None
        BY <4>1, CallsAssumption DEF BufferInv
      <4>3. Goto(k, "wait")
        BY <3>2, <4>2 DEF Register
      <4> QED BY <4>3, GotoMoves DEF Types
    <3>3. CASE LookUpResponse(k)
      BY <3>3 DEF LookUpResponse, Goto, Types, HostTypes
    <3>4. CASE Return(k)
      BY <3>4 DEF Return, Types, HostTypes
    <3>5. CASE \E where \in CallerStates \ {"panicked"} : Goto(k, where)
      BY <3>5, GotoMoves DEF Types
    <3>6. SendPiece(k) => \E where \in CallerStates \ {"panicked"} : Goto(k, where)
      BY DEF SendPiece
    <3> QED BY <1>1, <3>1, <3>2, <3>3, <3>4, <3>5, <3>6
            DEF CallStep, Refuse, FindNoIndex, PushResponse, SendWhole, FailPoisoned, Unregister
  <2> QED BY <2>1, <2>2
<1>2. (\A k \in Calls : ~CallStep(k)) => UNCHANGED caller
  BY NextSteps, SideStepKeeps, ModuleStepKeeps, HostReadKeeps DEF vars, host
<1> QED BY <1>1, <1>2

-----------------------------------------------------------------------------
(* Where nothing ends the connection but the module, the host's reader and *)
(* every writer go on as long as the module reads.                         *)
LEMMA CalmStep ==
    ASSUME PiecesKept, Partial # {}, Types, KeysDiffer, CallInv, RunInv, AnswerInv, ReceivedInv,
           BufferInv, [Next]_vars, ModuleReading'
    PROVE  Calm'
<1>0. /\ MaySignal = {} /\ "host" \notin MayCrash
      /\ "host" \in Sides /\ "module" \in Sides /\ "host" # "module"
      /\ \A t \in Sides : t = "host" \/ t = "module"
      /\ thread \in [Sides -> [reader : ReaderStates, writer : WriterStates]]
      /\ terminated \in [Sides -> BOOLEAN]
      /\ DOMAIN thread = Sides /\ DOMAIN terminated = Sides
  BY DEF PiecesKept, Undisturbed, Sides, Types, StatusTypes
<1>1. ModuleReading
  BY ReadingBefore DEF Types, ModuleReading, Sides
<1>2. Calm /\ CallsOnTheirWay
  BY <1>1 DEF CallInv
<1>3. HostReading /\ AnswersOnTheirWay
  BY <1>2 DEF Calm, HostReading, Reading, AnswerInv
<1>4. CASE UNCHANGED <<thread, terminated, gone>>
  BY <1>2, <1>4 DEF Calm
<1>5. (\E k \in Calls : CallStep(k)) => UNCHANGED <<thread, terminated, gone>>
  BY CallStepKeeps
<1>6. CASE ModuleReads
  <2>1. UNCHANGED <<terminated, gone>>
    BY <1>6, ModuleStepKeeps
  <2>2. \E where : Reader("module", where)
    BY <1>6 DEF ModuleReads, RejectCall, ReceiveArguments, RunStandard, StartStreaming,
                NoSuchProcedure, ReadOn
  <2>3. \A t \in Sides : thread'[t].writer = thread[t].writer
    BY <1>0, <2>2 DEF Reader
  <2>4. thread'["host"].reader = thread["host"].reader
    BY <1>0, <2>2 DEF Reader
  <2> QED BY <1>2, <2>1, <2>3, <2>4 DEF Calm
<1>7. YieldStep => UNCHANGED <<thread, terminated, gone>>
  BY DEF YieldStep, Yield, YieldFails, status
<1>8. CASE HostReads
  <2>1. UNCHANGED <<terminated, gone>>
    BY <1>8, HostReadKeeps
  <2>2. ~NoResponseBuffer
    <3>1. HostReads /\ NoResponseBuffer => Reader("host", "leave")
      BY DEF NoResponseBuffer
    <3>2. NoResponseBuffer => ~ReceiveResponse /\ ~Unmapped
      <4>1. ReceiveResponse => \E where \in {"unmap", "running"} : Reader("host", where)
        BY <1>2 DEF ReceiveResponse, ReadOn, Calm, Sides
      <4>2. NoResponseBuffer => thread["host"].reader = "running"
        BY DEF NoResponseBuffer, Reads
      <4> QED BY <1>0, <3>1, <1>8, <4>1, <4>2 DEF Reader, Unmapped, Unmapping
    <3> QED BY <1>2, <1>8, <3>2, HostReadAnswers DEF Calm, Sides
  <2>3. \E where \in {"unmap", "running"} : Reader("host", where)
    BY <1>2, <1>8, <2>2 DEF HostReads, ReceiveResponse, UnmapResponse, ReadOn, Calm, Sides
  <2>4. /\ \A t \in Sides : thread'[t].writer = thread[t].writer
        /\ thread'["host"].reader \in {"unmap", "running"}
    BY <1>0, <2>3 DEF Reader
  <2> QED BY <1>2, <2>1, <2>4 DEF Calm
<1>9. ASSUME NEW t \in Sides, SideStep(t) PROVE Calm'
  <2>0. /\ thread["host"].reader \in {"running", "unmap"}
        /\ thread["module"].reader \in {"running", "unmap"}
        /\ "host" \notin gone /\ "module" \notin gone
        /\ \A s \in Sides : ~terminated[s] /\ thread[s].writer \in {"idle", "writing"}
        /\ \A s \in Sides : s \notin gone /\ thread[s].reader \in {"running", "unmap"}
    BY <1>0, <1>1, <1>2 DEF Calm, ModuleReading, Reading
  <2>1. ~ReceiveTermination(t)
    <3>1. CASE t = "module"
      <4>1. SUFFICES ASSUME Reads("module", "termination") PROVE FALSE
        BY <3>1 DEF ReceiveTermination
      <4>2. stream["host"] # <<>> /\ Message("module").type = "termination"
        BY <4>1 DEF Reads, Other, Message
      <4>3. ToModule[1] = Message("module") /\ Len(ToModule) \in Nat \ {0}
        <5>1. stream["host"] \in Seq(Messages) /\ queue["host"] \in Seq(Messages)
          BY <1>0 DEF Types, TransportTypes
        <5> QED BY <4>2, <5>1, JoinedLoses DEF ToModule, Outgoing, Message, Other
      <4>4. ToModule[1] \in CallsDue
        BY <1>2, <4>3 DEF CallsOnTheirWay
      <4>5. \A k \in Calls : FinalPiece(k).type = "call" /\ FirstPiece(k).type = "call"
        BY DEF FinalPiece, FirstPiece, CallMessage
      <4> QED BY <1>0, <4>2, <4>3, <4>4, <4>5 DEF CallsDue
    <3>2. CASE t = "host"
      <4>1. SUFFICES ASSUME Reads("host", "termination") PROVE FALSE
        BY <3>2 DEF ReceiveTermination
      <4>2. /\ stream["module"] # <<>> /\ Message("host").type = "termination"
            /\ ~Unmapping
        BY <4>1 DEF Reads, Other, Message, Unmapping
      <4>3. ToHost[1] = Message("host") /\ Len(ToHost) \in Nat \ {0}
        BY <4>2, HostHead
      <4>4. ToHost[1] \in AnswersDue
        BY <1>3, <4>2, <4>3 DEF AnswersOnTheirWay
      <4>5. \A k, i : Response(k, i).type = "response"
        BY DEF Response, ResponseMessage
      <4> QED BY <1>0, <4>2, <4>3, <4>4, <4>5 DEF AnswersDue
    <3> QED BY <1>0, <3>1, <3>2
  <2>2. ~EndOfFile(t)
    BY <1>0, <2>0 DEF EndOfFile, Other
  <2>3. /\ ~SweepTerminated(t) /\ ~SeeTermination(t) /\ ~WriteFails(t) /\ ~SignalTermination(t)
        /\ \A role \in Roles : ~Leave(t, role) /\ ~SweepDropped(t, role)
    BY <1>0, <2>0 DEF SweepTerminated, SeeTermination, WriteFails, SignalTermination, Leave,
                      SweepDropped, Roles, Other
  <2>4. ~Crash(t)
    <3>1. Crash(t) => t = "module" /\ t \in gone'
      BY <1>0 DEF Crash
    <3> QED BY <3>1 DEF ModuleReading, Reading
  <2>5. CASE Flush(t) \/ FlushEnds(t)
    <3>1. UNCHANGED <<terminated, gone>> /\ \E where \in {"idle", "writing"} : Writer(t, where)
      BY <2>0, <2>5 DEF Flush, FlushEnds
    <3>2. /\ \A s \in Sides : thread'[s].writer \in {"idle", "writing"}
          /\ thread'["host"].reader = thread["host"].reader
      BY <1>0, <2>0, <3>1 DEF Writer
    <3> QED BY <2>0, <3>1, <3>2 DEF Calm
  <2>6. CASE WriteMessage(t)
    BY <1>4, <2>6 DEF WriteMessage, status
  <2> QED BY <1>9, <2>1, <2>2, <2>3, <2>4, <2>5, <2>6 DEF SideStep
<1>10. UNCHANGED vars => UNCHANGED <<thread, terminated, gone>>
  BY DEF vars, status
<1> QED BY <1>4, <1>5, <1>6, <1>7, <1>8, <1>9, <1>10, NextSteps

LEMMA CallInvStep ==
    ASSUME PiecesKept, Types, KeysDiffer, KeysDiffer', CallInv, OngoingKeyed, RunInv, AnswerInv,
           ReceivedInv, BufferInv, [Next]_vars
    PROVE  CallInv'
<1>1. SUFFICES ASSUME ModuleReading'
               PROVE  /\ CallsOnTheirWay' /\ CallsOnce' /\ ArgumentsArrived' /\ PiecesInOrder'
                      /\ Partial # {} => Calm'
  BY DEF CallInv
<1>2. CallsOnTheirWay'
  BY <1>1, CallsOnTheirWayStep
<1>3. CallsOnce'
  BY <1>1, CallsOnceStep
<1>4. ArgumentsArrived'
  BY <1>1, ArgumentsArrivedStep
<1>5. PiecesInOrder'
  BY <1>1, PiecesInOrderStep
<1>6. Partial # {} => Calm'
  BY <1>1, CalmStep
<1> QED BY <1>2, <1>3, <1>4, <1>5, <1>6

LEMMA AnswerInvStep ==
    ASSUME Types, KeysDiffer, CallInv, RunInv, StreamInv, AnswerInv, ReceivedInv, BufferInv,
           [Next]_vars
    PROVE  AnswerInv'
<1>1. SUFFICES ASSUME HostReading'
               PROVE  AnswersOnTheirWay' /\ AnswersOnce' /\ AnswersInOrder' /\ NextPart'
  BY DEF AnswerInv
<1>2. AnswersOnTheirWay'
  BY <1>1, AnswersOnTheirWayStep
<1>3. AnswersOnce'
  BY <1>1, AnswersOnceStep
<1>4. AnswersInOrder'
  BY <1>1, AnswersInOrderStep
<1>5. NextPart'
  BY <1>1, NextPartStep
<1> QED BY <1>2, <1>3, <1>4, <1>5

-----------------------------------------------------------------------------
(* The whole invariant.                                                    *)
LEMMA InitInv ==
    ASSUME Init, Types
    PROVE  IInv
<1>1. \A k \in Calls : ~Keyed(k) /\ caller[k].pc = "idle" /\ ~Ran(k)
  BY DEF Init, Keyed, Ran
<1>2. ToModule = <<>> /\ ToHost = <<>>
  BY DEF Init, ToModule, ToHost, Outgoing, Sides
<1>3. Len(ToModule) = 0 /\ Len(ToHost) = 0
  BY <1>2
<1>4. KeysDiffer
  BY <1>1 DEF KeysDiffer
<1>5. RunInv /\ OngoingKeyed /\ StreamInv
  BY <1>1 DEF Init, RunInv, RunsIntact, OngoingKeyed, StreamInv
<1>6. Calm
  BY DEF Init, Calm, Sides
<1>7. CallInv
  <2>1. ArgumentsArrived
    BY DEF Init, ArgumentsArrived
  <2>2. PiecesInOrder
    BY <1>1, <1>3 DEF PiecesInOrder
  <2> QED BY <1>3, <1>6, <2>1, <2>2 DEF CallInv, CallsOnTheirWay, CallsOnce
<1>8. AnswerInv
  BY <1>3 DEF Init, AnswerInv, AnswersOnTheirWay, AnswersOnce, AnswersInOrder, NextPart
<1>9. ReceivedInv
  <2>1. ~Unmapping
    BY DEF Init, Unmapping, Sides
  <2>2. \A k \in Calls : received[k] = <<>> /\ complete_lock[k] = "Incomplete" /\ Length(k) \in Nat
    BY LengthTyped DEF Init
  <2>3. \A k \in Calls : caller[k].pc \notin Answered
    BY <1>1 DEF Answered
  <2> QED BY <2>1, <2>2, <2>3 DEF ReceivedInv
<1>10. BufferInv /\ NoHandlePanic
  BY <1>1 DEF BufferInv, NoHandlePanic, Pushed
<1> QED BY <1>4, <1>5, <1>7, <1>8, <1>9, <1>10 DEF IInv

LEMMA InvStep ==
    ASSUME SerialFirst, PiecesKept, IInv, Types', [Next]_vars
    PROVE  IInv'
<1>0. /\ Types /\ KeysDiffer /\ RunInv /\ CallInv /\ OngoingKeyed
      /\ StreamInv /\ AnswerInv /\ ReceivedInv /\ BufferInv /\ NoHandlePanic
  BY DEF IInv
<1>1. KeysDiffer'
  BY <1>0, KeysDifferStep
<1>2. CallInv'
  BY <1>0, <1>1, CallInvStep
<1>3. OngoingKeyed'
  BY <1>0, OngoingKeyedStep
<1>4. RunInv'
  BY <1>0, RunInvStep
<1>5. StreamInv'
  BY <1>0, StreamInvStep
<1>6. AnswerInv'
  BY <1>0, AnswerInvStep
<1>7. ReceivedInv'
  BY <1>0, ReceivedInvStep
<1>8. BufferInv'
  BY <1>0, <1>1, BufferInvStep
<1>9. NoHandlePanic'
  BY <1>0, NoHandlePanicStep
<1> QED BY <1>1, <1>2, <1>3, <1>4, <1>5, <1>6, <1>7, <1>8, <1>9 DEF IInv

-----------------------------------------------------------------------------
(* The phases a call goes through.                                         *)
Underway == {"first", "push", "send", "end", "lookup", "register", "wait"}
Failed == {"failed", "lost", "panicked"}
PhaseAt(pc) ==
    CASE pc = "idle" -> "idle"
      [] pc \in Answered -> "returned"
      [] pc \in Failed -> "failed"
      [] OTHER -> "called"

LEMMA Phases ==
    ASSUME NEW pc \in CallerStates
    PROVE  /\ pc = "idle" <=> PhaseAt(pc) = "idle"
           /\ pc \in Answered <=> PhaseAt(pc) = "returned"
           /\ pc \in Failed <=> PhaseAt(pc) = "failed"
           /\ pc \in Underway <=> PhaseAt(pc) = "called"
BY DEF PhaseAt, CallerStates, Answered, Failed, Underway

LEMMA CallerMoves ==
    ASSUME Types, ReceivedInv, BufferInv, NoHandlePanic', NEW k \in Calls, CallStep(k)
    PROVE  \/ caller[k].pc = "idle" /\ caller'[k].pc \in Underway
           \/ caller[k].pc \in {"idle"} \cup Underway /\ caller'[k].pc \in Failed
           \/ caller[k].pc \in Underway /\ caller'[k].pc \in Underway
           \/ caller[k].pc \in Answered /\ caller'[k].pc \in Answered
           \/ caller[k].pc \in Underway /\ caller'[k].pc \in Answered /\ Ran(k)
<1> USE DEF Answered, Underway, Failed, CallerStates
<1>1. CASE TakeIndex(k) \/ InsertIndex(k)
  <2>1. caller[k].pc \in {"idle", "first"} /\ caller'[k].pc = "push"
    BY <1>1, IndexTaken DEF TakeIndex, InsertIndex, At
  <2> QED BY <2>1
<1>2. CASE Return(k)
  <2>1. caller[k].pc = "wait" /\ caller'[k].pc = "unregister"
    BY <1>2 DEF Return, At, Types, HostTypes
  <2>2. complete_lock[k] = "Complete"
    BY <2>1, AnsweredStep
  <2>3. Len(received[k]) # 0 /\ (received[k] # <<>> => Ran(k))
    BY <2>2, LengthTyped DEF ReceivedInv
  <2> QED BY <2>1, <2>3
<1>3. CASE LookUpResponse(k)
  BY <1>3 DEF LookUpResponse, Goto, At, Types, HostTypes
<1>4. ASSUME NEW where \in CallerStates, Goto(k, where) PROVE caller'[k].pc = where
  BY <1>4, GotoMoves DEF Types
<1>5. CASE SendPiece(k)
  <2>1. /\ caller[k].pc \in Underway
        /\ \E where \in {"failed", "end", "lookup"} : Goto(k, where)
    BY <1>5 DEF SendPiece, At
  <2> QED BY <1>4, <2>1
<1>6. CASE Register(k)
  <2>1. caller[k].pc = "register" /\ \E where \in {"wait", "panicked"} : Goto(k, where)
    BY <1>6 DEF Register, At
  <2> QED BY <1>4, <2>1
<1>7. CASE Refuse(k) \/ FindNoIndex(k) \/ PushResponse(k) \/ SendWhole(k) \/ FailPoisoned(k)
           \/ Unregister(k)
  <2>1. \/ caller[k].pc = "idle" /\ \E where \in {"failed", "first"} : Goto(k, where)
        \/ /\ caller[k].pc \in {"push", "send", "wait"}
           /\ \E where \in {"send", "lookup", "failed"} : Goto(k, where)
        \/ caller[k].pc = "unregister" /\ Goto(k, "returned")
    BY <1>7 DEF Refuse, FindNoIndex, PushResponse, SendWhole, FailPoisoned, Unregister, At
  <2> QED BY <1>4, <2>1
<1> QED BY <1>1, <1>2, <1>3, <1>5, <1>6, <1>7 DEF CallStep

-----------------------------------------------------------------------------
(* All of the invariant holds.                                             *)
LEMMA InvHolds ==
    ASSUME SerialFirst, PiecesKept
    PROVE  Spec => []IInv
<1>1. Init /\ Types => IInv
  BY InitInv
<1>2. IInv /\ Types' /\ [Next]_vars => IInv'
  BY InvStep
<1> QED BY <1>1, <1>2, TypesHold, PTL DEF Spec

(* No two calls have the same key, which is what tells the module their    *)
(* arguments and the host their responses apart: call indices are taken    *)
(* under the entry of their procedure (call_with_bytes and                 *)
(* start_call_without_args), if first calls do not overlap.                *)
THEOREM KeysUnique ==
    ASSUME SerialFirst
    PROVE  Spec => [](\A j, k \in Calls : Keyed(j) /\ caller[j].key = caller[k].key => j = k)
<1>1. Init => KeysDiffer
  BY DEF Init, KeysDiffer, Keyed
<1>2. KeysDiffer /\ Types /\ [Next]_vars => KeysDiffer'
  BY KeysDifferStep
<1>3. KeysDiffer => \A j, k \in Calls : Keyed(j) /\ caller[j].key = caller[k].key => j = k
  BY DEF KeysDiffer
<1> QED BY <1>1, <1>2, <1>3, TypesHold, PTL DEF Spec

(* A procedure runs at most once for each call and with all of its         *)
(* arguments and no others, whatever else is called, yielded, signalled or *)
(* lost meanwhile (receive_one, call_procedure).                           *)
THEOREM RunsCorrect ==
    ASSUME SerialFirst, PiecesKept
    PROVE  Spec => []RunsIntact
<1>1. IInv => RunsIntact
  BY DEF IInv, RunInv
<1> QED BY <1>1, InvHolds, PTL

(* What a handle returns is the answer to its own call, whole and in the   *)
(* order it was yielded, however many calls are answered at once (the      *)
(* response mapping of receive_one, CallHandle::wait).                     *)
THEOREM AnswersCorrect ==
    ASSUME SerialFirst, PiecesKept
    PROVE  Spec => []AnswersIntact
<1>1. IInv => AnswersIntact
  BY DEF IInv, ReceivedInv, AnswersIntact
<1> QED BY <1>1, InvHolds, PTL

(* CallHandle::new always finds the message whose identifier               *)
(* get_response_idx returned: no other call pops it.                       *)
THEOREM HandlesSafe ==
    ASSUME SerialFirst, PiecesKept
    PROVE  Spec => []NoHandlePanic
<1>1. IInv => NoHandlePanic
  BY DEF IInv
<1> QED BY <1>1, InvHolds, PTL

(* Every variable keeps its type, a call index is at most the number of    *)
(* calls made, a procedure that still yields is among the ongoing ones,    *)
(* and a reader unmaps a last response only (receive_one).                 *)
THEOREM TypeCorrect ==
    ASSUME SerialFirst, PiecesKept
    PROVE  Spec => []TypeOK
<1>1. ASSUME IInv PROVE TypeOK
  <2>0. Types /\ \A s \in streams : s.key \in ongoing_procedures
    BY <1>1 DEF IInv, StreamInv
  <2>1. \A p \in Procedures : remote_call_counter[p] \in Indices \cup {None}
    <3>1. ASSUME NEW p \in Procedures, remote_call_counter[p] # None
          PROVE  remote_call_counter[p] \in Indices
      BY <2>0, <3>1, NextIndex, FS_CardinalityType, CallsAssumption DEF Types, Indices
    <3> QED BY <3>1
  <2>2. \A k \in Calls : /\ caller[k].pc \in CallerStates
                         /\ caller[k].pc \notin {"idle", "first", "failed"} => caller[k].key \in Keys
                         /\ caller[k].pc \in Answered \cup {"register", "wait"} => caller[k].buf \in Buffers
    BY <2>0 DEF Types, HostTypes, KeyTypes, Keyed
  <2>3. /\ \A key \in Keys : response_idx_map[key] \in Buffers \cup {None}
        /\ \A b \in Buffers : {buffers[b], idle_call_handles[b]} \subseteq Calls \cup {None}
        /\ \A k \in Calls : complete_lock[k] \in LockStates
        /\ ongoing_procedures \subseteq Keys /\ abandoned \subseteq Keys
        /\ \A s \in streams : s.next \in 1 .. Yields
    BY <2>0 DEF Types, HostTypes, ModuleTypes
  <2>4. /\ \A side \in Sides : /\ thread[side].reader \in ReaderStates
                               /\ thread[side].writer \in WriterStates
                               /\ terminated[side] \in BOOLEAN
        /\ thread["host"].reader = "unmap" => Message("host").type = "response" /\ Message("host").last
        /\ thread["module"].reader # "unmap"
    BY <2>0 DEF Types, StatusTypes
  <2> QED BY <2>0, <2>1, <2>2, <2>3, <2>4 DEF TypeOK, LockStates, ReaderStates, WriterStates
<1> QED BY <1>1, InvHolds, PTL

(* The two wires implement remote calls: a call runs after it was made, at *)
(* most once and whole, and what is returned has run (wire_common.rs as a  *)
(* whole against RemoteCalls).                                             *)
THEOREM Refinement ==
    ASSUME SerialFirst, PiecesKept
    PROVE  Spec => RefinesCalls
<1> DEFINE phase == [k \in Calls |-> Phase(k)]
           ran == {k \in Calls : \E i \in DOMAIN runs : runs[i] = <<k>>}
<1>1. Init => Calling!Init
  <2> SUFFICES ASSUME Init PROVE Calling!Init
    OBVIOUS
  <2>1. \A k \in Calls : Phase(k) = "idle"
    <3>1. \A k \in Calls : Phase(k) = PhaseAt(caller[k].pc)
      BY DEF Phase, PhaseAt, Failed
    <3>2. \A k \in Calls : caller[k].pc = "idle" /\ "idle" \in CallerStates
      BY DEF Init, CallerStates
    <3> QED BY <3>1, <3>2, Phases
  <2>2. phase = [k \in Calls |-> "idle"] /\ ran = {}
    BY <2>1 DEF Init
  <2> QED BY <2>2 DEF Calling!Init
<1>2. IInv /\ IInv' /\ [Next]_vars => [Calling!Next]_<<phase, ran>>
  <2> SUFFICES ASSUME IInv, IInv', [Next]_vars PROVE [Calling!Next]_<<phase, ran>>
    OBVIOUS
  <2>0. /\ Types /\ KeysDiffer /\ CallInv /\ RunInv /\ ReceivedInv /\ BufferInv
        /\ Types' /\ NoHandlePanic'
        /\ \A k \in Calls : caller[k].pc \in CallerStates /\ caller'[k].pc \in CallerStates
    BY DEF IInv, Types, HostTypes
  <2>1. \A k \in Calls : Phase(k) = PhaseAt(caller[k].pc) /\ Phase(k)' = PhaseAt(caller'[k].pc)
    BY DEF Phase, PhaseAt, Failed
  <2>2. ran = {k \in Calls : Ran(k)} /\ ran' = {k \in Calls : Ran(k)'}
    BY DEF Ran
  <2>3. phase' = [k \in Calls |-> Phase(k)']
    OBVIOUS
  <2>4. ASSUME NEW k \in Calls, CallStep(k) PROVE [Calling!Next]_<<phase, ran>>
    <3>1. UNCHANGED ran
      BY <2>4, CallStepKeeps
    <3>2. \A j \in Calls : j # k => Phase(j)' = Phase(j)
      BY <2>0, <2>1, <2>4, CallerAlone
    <3>3. phase' = [phase EXCEPT ![k] = Phase(k)']
      BY <2>3, <3>2
    <3>4. phase[k] = Phase(k)
      OBVIOUS
    <3>5. \/ Phase(k) = "idle" /\ Phase(k)' = "called"
          \/ Phase(k) \in {"idle", "called"} /\ Phase(k)' = "failed"
          \/ Phase(k)' = Phase(k)
          \/ Phase(k) = "called" /\ Phase(k)' = "returned" /\ k \in ran
      BY <2>0, <2>1, <2>2, <2>4, CallerMoves, Phases
    <3>6. Phase(k)' = Phase(k) => UNCHANGED <<phase, ran>>
      BY <2>3, <3>1, <3>2
    <3> HIDE DEF phase, ran
    <3>7. CASE Phase(k) = "idle" /\ Phase(k)' = "called"
      <4>1. Calling!Call(k)
        BY <3>1, <3>3, <3>4, <3>7 DEF Calling!Call, phase, ran
      <4> QED BY <4>1 DEF Calling!Next
    <3>8. CASE Phase(k) \in {"idle", "called"} /\ Phase(k)' = "failed"
      <4>1. Calling!Fail(k)
        BY <3>1, <3>3, <3>4, <3>8 DEF Calling!Fail, phase, ran
      <4> QED BY <4>1 DEF Calling!Next
    <3>9. CASE Phase(k) = "called" /\ Phase(k)' = "returned" /\ k \in ran
      <4>1. Calling!Return(k)
        BY <3>1, <3>3, <3>4, <3>9 DEF Calling!Return, phase, ran
      <4> QED BY <4>1 DEF Calling!Next
    <3> QED BY <3>5, <3>6, <3>7, <3>8, <3>9
  <2>5. CASE UNCHANGED <<caller, runs>>
    BY <2>5 DEF Phase
  <2>6. ASSUME NEW k \in Calls, Keyed(k), ~Ran(k), caller[k].pc \notin Unended,
               runs' = Append(runs, <<k>>), UNCHANGED caller
        PROVE  Calling!Run(k)
    <3>1. UNCHANGED phase
      BY <2>6 DEF Phase
    <3>2. ran' = ran \cup {k} /\ k \notin ran
      BY <2>0, <2>2, <2>6, RanAfter
    <3>3. phase[k] # "idle"
      BY <2>0, <2>1, <2>6, Phases DEF Unended, Unsent
    <3> QED BY <3>1, <3>2, <3>3 DEF Calling!Run
  <2>7. CASE ModuleReads
    <3>1. UNCHANGED caller
      BY <2>7, ModuleStepKeeps
    <3>2. UNCHANGED runs \/ \E k \in Calls : Calling!Run(k)
      BY <2>0, <2>6, <3>1, RunsStep
    <3> QED BY <2>5, <3>1, <3>2 DEF Calling!Next
  <2>8. YieldStep => UNCHANGED <<caller, runs>>
    BY DEF YieldStep, Yield, YieldFails, host
  <2>9. HostReads \/ UNCHANGED vars \/ (\E t \in Sides : SideStep(t)) => UNCHANGED <<caller, runs>>
    BY HostReadKeeps, SideStepKeeps DEF vars, host, module
  <2> QED BY <2>4, <2>5, <2>7, <2>8, <2>9, NextSteps
<1> QED BY <1>1, <1>2, InvHolds, PTL DEF Spec, RefinesCalls, Calling!Spec
=============================================================================
