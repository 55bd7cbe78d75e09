----------------------------- MODULE CallBuffers -----------------------------
(***************************************************************************)
(* The called side of several wires over one interface (receive_one and    *)
(* mark_terminated of src/wire_common.rs, call_procedure and its helpers   *)
(* in src/interface_common.rs, Drop in src/blocking/wire.rs): each wire's  *)
(* reader accumulates the arguments of calls in the interface's messages   *)
(* and runs procedures, and each clone of a wire, when it is dropped,      *)
(* sweeps the arguments of ongoing calls away and hands the wire's         *)
(* identifier back.                                                        *)
(*                                                                         *)
(* Every operation on a shared map is a step.  The other end of each wire  *)
(* makes some of the calls, each once and in pieces, the pieces of         *)
(* different calls in any order; a wire's identifier tells its calls from  *)
(* those that other wires make with the same indices.  What each side      *)
(* answers is Wire's subject.                                              *)
(***************************************************************************)
EXTENDS Naturals, Sequences, FiniteSets

CONSTANTS Wires,        \* the wires made over the interface's life
          Started,      \* those given to Wire::start, which clones them twice
          Apart,        \* TRUE: a started wire has an interface to itself
          Calls,        \* (procedure index, call index) pairs
          Standard,     \* those whose procedure is a standard one
          Streaming,    \* those whose procedure streams; the others' is not registered
          Asked,        \* the calls that the other end of each wire makes
          Pieces,       \* how many messages each call's arguments come in
          MaxOngoing,   \* max_ongoing_procedures
          Buffers,      \* message identifiers
          None

(* A wire that is used by one thread is dropped by it.  Wire::start moves  *)
(* a clone into the reader's thread and one into the writer's, and the     *)
(* owner's remains.                                                        *)
Clones(w) == IF w \in Started THEN {"reader", "writer", "owner"} ELSE {"reader"}

Ids == 0 .. Cardinality(Wires)

ASSUME WiresAssumption == IsFiniteSet(Wires) /\ Started \subseteq Wires /\ Apart \in BOOLEAN
ASSUME PiecesAssumption == Pieces \in Nat \ {0} /\ MaxOngoing \in Nat
ASSUME NoneAssumption ==
    /\ None \notin Buffers /\ None \notin Nat
    /\ None \notin [args : Seq(Wires \X Calls \X (1 .. Pieces)), complete : BOOLEAN]

VARIABLES
    \* the interface
    wire_ids,             \* wire_id_queue: identifiers to recycle, in order
    issued,               \* ... and how many it has counted up to
    messages,             \* the arguments at each message identifier, or None
    call_to_buffer_map,   \* the buffer of each call and wire identifier, or None
    \* each wire
    id,                   \* its identifier, or None before it is made
    terminated,
    ongoing_procedures,
    reader,               \* where its reader is, with which call and which buffer
    clone,                \* of each clone: where its drop is
    due,                  \* ... which calls it has yet to sweep ...
    removed,              \* ... and which buffer it has taken from the map
    streams,              \* procedures that have more to yield
    \* history
    arrived,              \* how many pieces of each call have been received
    rejected,             \* calls that were refused a piece
    ran                   \* the arguments each call's procedure has been run with

ids == <<wire_ids, issued, id>>
store == <<messages, call_to_buffer_map>>
drops == <<clone, due, removed, terminated>>
calls == <<ongoing_procedures, streams>>
history == <<arrived, rejected, ran>>
vars == <<ids, store, drops, calls, reader, history>>

Init ==
    /\ wire_ids = <<>>
    /\ issued = 0
    /\ id = [w \in Wires |-> None]
    /\ messages = [b \in Buffers |-> None]
    /\ call_to_buffer_map = [key \in Calls \X Ids |-> None]
    /\ terminated = [w \in Wires |-> FALSE]
    /\ ongoing_procedures = [w \in Wires |-> {}]
    /\ reader = [w \in Wires |-> [pc |-> "none", call |-> None, buf |-> None]]
    /\ clone = [w \in Wires |-> [r \in Clones(w) |-> "up"]]
    /\ due = [w \in Wires |-> [r \in Clones(w) |-> {}]]
    /\ removed = [w \in Wires |-> [r \in Clones(w) |-> None]]
    /\ streams = {}
    /\ arrived = [w \in Wires |-> [c \in Calls |-> 0]]
    /\ rejected = {}
    /\ ran = [w \in Wires |-> [c \in Calls |-> <<>>]]

-----------------------------------------------------------------------------
Made(w) == id[w] # None
Gone(w) == \A r \in Clones(w) : clone[w][r] = "gone"
Live(w) == Made(w) /\ ~Gone(w)

(* Wire::new takes an identifier from the queue.                           *)
NewWire(w) ==
    /\ ~Made(w)
    /\ Apart => \A v \in Wires : Made(v) => {v, w} \cap Started = {}
    /\ IF wire_ids # <<>>
       THEN /\ id' = [id EXCEPT ![w] = Head(wire_ids)]
            /\ wire_ids' = Tail(wire_ids)
            /\ UNCHANGED issued
       ELSE /\ id' = [id EXCEPT ![w] = issued]
            /\ issued' = issued + 1
            /\ UNCHANGED wire_ids
    /\ reader' = [reader EXCEPT ![w].pc = "idle"]
    /\ UNCHANGED <<store, drops, calls, history>>

At(w, where) == reader[w].pc = where
Call(w) == reader[w].call
Buf(w) == reader[w].buf
Goto(w, where) == reader' = [reader EXCEPT ![w].pc = where]

(* Mutation: calls are told apart by their indices alone.                  *)
KeyWithoutWire(w) == <<Call(w), 0>>

Key(w) == <<Call(w), id[w]>>

(* Mutation: the limit is passed by one.                                   *)
FitsOneMore(w, c) ==
    c \in ongoing_procedures[w] \/ Cardinality(ongoing_procedures[w]) <= MaxOngoing

(* receive_one: the flag is tested, a piece arrives, and a call that would *)
(* be one too many is dropped.                                             *)
Fits(w, c) ==
    c \in ongoing_procedures[w] \/ Cardinality(ongoing_procedures[w]) < MaxOngoing

Receive(w, c) ==
    /\ At(w, "idle")
    /\ ~terminated[w]
    /\ c \in Asked[w] /\ arrived[w][c] < Pieces
    /\ arrived' = [arrived EXCEPT ![w][c] = @ + 1]
    /\ IF Fits(w, c)
       THEN /\ reader' = [reader EXCEPT ![w] = [pc |-> "get", call |-> c, buf |-> None]]
            /\ UNCHANGED rejected
       ELSE /\ rejected' = rejected \cup {<<w, c>>}
            /\ UNCHANGED reader
    /\ UNCHANGED <<ids, store, drops, calls, ran>>

(* get_call_buffer, on the way in and again from call_procedure: the       *)
(* buffer the map has, or else one that is pushed and then mapped.         *)
GetBuffer(w, where, push, next) ==
    LET b == call_to_buffer_map[Key(w)] IN
    /\ At(w, where)
    /\ reader' = [reader EXCEPT ![w].pc = IF b = None THEN push ELSE next, ![w].buf = b]
    /\ UNCHANGED <<ids, store, drops, calls, history>>

PushBuffer(w, where, next) ==
    /\ At(w, where)
    /\ \E b \in Buffers :
         /\ messages[b] = None
         /\ messages' = [messages EXCEPT ![b] = [args |-> <<>>, complete |-> FALSE]]
         /\ reader' = [reader EXCEPT ![w].pc = next, ![w].buf = b]
    /\ UNCHANGED <<ids, call_to_buffer_map, drops, calls, history>>

MapBuffer(w, where, next) ==
    /\ At(w, where)
    /\ call_to_buffer_map' = [call_to_buffer_map EXCEPT ![Key(w)] = Buf(w)]
    /\ Goto(w, next)
    /\ UNCHANGED <<ids, messages, drops, calls, history>>

Register(w) ==
    /\ At(w, "register")
    /\ ongoing_procedures' = [ongoing_procedures EXCEPT ![w] = @ \cup {Call(w)}]
    /\ Goto(w, "append")
    /\ UNCHANGED <<ids, store, drops, streams, history>>

Accepts(b) == messages[b] # None /\ ~messages[b].complete

(* send_many; the piece is the last one if no more will arrive.            *)
AppendArguments(w) ==
    LET c == Call(w) IN
    /\ At(w, "append")
    /\ IF Accepts(Buf(w))
       THEN /\ messages' = [messages EXCEPT ![Buf(w)].args = Append(@, <<w, c, arrived[w][c]>>)]
            /\ Goto(w, IF arrived[w][c] = Pieces THEN "terminate" ELSE "idle")
       ELSE Goto(w, "failed") /\ UNCHANGED messages
    /\ UNCHANGED <<ids, call_to_buffer_map, drops, calls, history>>

TerminateArguments(w) ==
    /\ At(w, "terminate")
    /\ IF Accepts(Buf(w))
       THEN /\ messages' = [messages EXCEPT ![Buf(w)].complete = TRUE]
            /\ Goto(w, "find")
       ELSE Goto(w, "failed") /\ UNCHANGED messages
    /\ UNCHANGED <<ids, call_to_buffer_map, drops, calls, history>>

(* call_procedure: the mapping goes first ...                              *)
Unmap(w) ==
    /\ At(w, "unmap")
    /\ call_to_buffer_map' = [call_to_buffer_map EXCEPT ![Key(w)] = None]
    /\ Goto(w, "run")
    /\ UNCHANGED <<ids, messages, drops, calls, history>>

(* ... then the procedure and the message are looked up; the errors leave  *)
(* the message where it is.                                                *)
Runs(w) ==
    /\ Call(w) \in Standard \cup Streaming
    /\ messages[Buf(w)] # None
    /\ messages[Buf(w)].complete

Run(w) ==
    LET c == Call(w) IN
    /\ At(w, "run")
    /\ IF Runs(w)
       THEN /\ ran' = [ran EXCEPT ![w][c] = Append(@, messages[Buf(w)].args)]
            /\ streams' = IF c \in Streaming THEN streams \cup {<<w, c>>} ELSE streams
            /\ Goto(w, "pop")
       ELSE Goto(w, "failed") /\ UNCHANGED <<ran, streams>>
    /\ UNCHANGED <<ids, store, drops, ongoing_procedures, arrived, rejected>>

PopArguments(w) ==
    /\ At(w, "pop")
    /\ messages' = [messages EXCEPT ![Buf(w)] = None]
    /\ Goto(w, "answer")
    /\ UNCHANGED <<ids, call_to_buffer_map, drops, calls, history>>

(* A standard procedure is answered for and over; one that streams is over *)
(* with its last yield, which fails if the wire has terminated.            *)
Answer(w) ==
    LET c == Call(w) IN
    /\ At(w, "answer")
    /\ ongoing_procedures' =
           [ongoing_procedures EXCEPT ![w] = IF c \in Standard THEN @ \ {c} ELSE @]
    /\ Goto(w, "idle")
    /\ UNCHANGED <<ids, store, drops, streams, history>>

LastYield(w, c) ==
    /\ <<w, c>> \in streams
    /\ streams' = streams \ {<<w, c>>}
    /\ ongoing_procedures' =
           [ongoing_procedures EXCEPT ![w] = IF terminated[w] THEN @ ELSE @ \ {c}]
    /\ UNCHANGED <<ids, store, drops, reader, history>>

(* The flag is set, the other end terminates the wire, or the end of the   *)
(* input is found: fill fails, and its thread drops its clone.  What       *)
(* mark_terminated does first, Drop does again.                            *)
StopReading(w) ==
    /\ At(w, "idle")
    /\ Goto(w, "stopped")
    /\ UNCHANGED <<ids, store, drops, calls, history>>

-----------------------------------------------------------------------------
(* Mutation: the identifier is relinquished first.                         *)
DropRelinquishing(w, r) ==
    /\ Made(w)
    /\ clone[w][r] = "up"
    /\ r = "reader" => reader[w].pc \in {"failed", "stopped"}
    /\ terminated' = [terminated EXCEPT ![w] = TRUE]
    /\ clone' = [clone EXCEPT ![w][r] = "sweep"]
    /\ due' = [due EXCEPT ![w][r] = ongoing_procedures[w]]
    /\ wire_ids' = Append(wire_ids, id[w])
    /\ UNCHANGED <<issued, id, store, removed, calls, reader, history>>

(* Drop for Wire, for each clone.  The reader drops its clone when it has  *)
(* failed, the others theirs at any time.  The flag is stored, and the     *)
(* sweep covers the calls that are ongoing then; one that is added while   *)
(* it iterates is one that it may miss.                                    *)
Drop(w, r) ==
    /\ Made(w)
    /\ clone[w][r] = "up"
    /\ r = "reader" => reader[w].pc \in {"failed", "stopped"}
    /\ terminated' = [terminated EXCEPT ![w] = TRUE]
    /\ clone' = [clone EXCEPT ![w][r] = "sweep"]
    /\ due' = [due EXCEPT ![w][r] = ongoing_procedures[w]]
    /\ UNCHANGED <<ids, store, removed, calls, reader, history>>

(* Mutation: a message is popped whether or not there was a mapping.       *)
SweepUnmapped(w, r, c) ==
    /\ clone[w][r] = "sweep"
    /\ c \in due[w][r]
    /\ due' = [due EXCEPT ![w][r] = @ \ {c}]
    /\ removed' = [removed EXCEPT ![w][r] = call_to_buffer_map[<<c, id[w]>>]]
    /\ call_to_buffer_map' = [call_to_buffer_map EXCEPT ![<<c, id[w]>>] = None]
    /\ clone' = [clone EXCEPT ![w][r] = "pop"]
    /\ UNCHANGED <<ids, messages, terminated, calls, reader, history>>

(* drop_associated_call_message removes the mapping, and then the message. *)
SweepMapping(w, r, c) ==
    /\ clone[w][r] = "sweep"
    /\ c \in due[w][r]
    /\ due' = [due EXCEPT ![w][r] = @ \ {c}]
    /\ removed' = [removed EXCEPT ![w][r] = call_to_buffer_map[<<c, id[w]>>]]
    /\ call_to_buffer_map' = [call_to_buffer_map EXCEPT ![<<c, id[w]>>] = None]
    /\ clone' = [clone EXCEPT ![w][r] =
           IF call_to_buffer_map[<<c, id[w]>>] = None THEN "sweep" ELSE "pop"]
    /\ UNCHANGED <<ids, messages, terminated, calls, reader, history>>

(* Mutation: the mapping is removed and the message forgotten.             *)
SweepNoMessage(w, r) ==
    /\ clone[w][r] = "pop"
    /\ removed' = [removed EXCEPT ![w][r] = None]
    /\ clone' = [clone EXCEPT ![w][r] = "sweep"]
    /\ UNCHANGED <<ids, store, due, terminated, calls, reader, history>>

SweepMessage(w, r) ==
    /\ clone[w][r] = "pop"
    /\ messages' = [messages EXCEPT ![removed[w][r]] = None]
    /\ removed' = [removed EXCEPT ![w][r] = None]
    /\ clone' = [clone EXCEPT ![w][r] = "sweep"]
    /\ UNCHANGED <<ids, call_to_buffer_map, due, terminated, calls, reader, history>>

(* "Relinquish the ID last to prevent nasty race conditions"               *)
Relinquish(w, r) ==
    /\ clone[w][r] = "sweep"
    /\ due[w][r] = {}
    /\ wire_ids' = Append(wire_ids, id[w])
    /\ clone' = [clone EXCEPT ![w][r] = "gone"]
    /\ UNCHANGED <<issued, id, store, due, removed, terminated, calls, reader, history>>

-----------------------------------------------------------------------------
ReaderStep(w) ==
    \/ GetBuffer(w, "get", "push", "register")
    \/ PushBuffer(w, "push", "map") \/ MapBuffer(w, "map", "register")
    \/ Register(w) \/ AppendArguments(w) \/ TerminateArguments(w)
    \/ GetBuffer(w, "find", "push again", "unmap")
    \/ PushBuffer(w, "push again", "map again") \/ MapBuffer(w, "map again", "unmap")
    \/ Unmap(w) \/ Run(w) \/ PopArguments(w) \/ Answer(w)
DropStep(w, r) ==
    \/ SweepMessage(w, r) \/ Relinquish(w, r)
    \/ \E c \in Calls : SweepMapping(w, r, c)

Next ==
    \E w \in Wires :
        \/ NewWire(w) \/ ReaderStep(w) \/ StopReading(w)
        \/ \E c \in Calls : Receive(w, c) \/ LastYield(w, c)
        \/ \E r \in Clones(w) : Drop(w, r) \/ DropStep(w, r)

Spec == Init /\ [][Next]_vars

-----------------------------------------------------------------------------
Piece == Wires \X Calls \X (1 .. Pieces)
Holding == {"map", "register", "append", "terminate", "map again", "unmap", "run", "pop"}

(* Every variable keeps its type; a reader that is past get_call_buffer    *)
(* has a buffer, and a drop pops a message exactly if it found a mapping.  *)
TypeOK ==
    /\ wire_ids \in Seq(Ids) /\ issued \in Ids
    /\ id \in [Wires -> Ids \cup {None}]
    /\ messages \in [Buffers -> [args : Seq(Piece), complete : BOOLEAN] \cup {None}]
    /\ call_to_buffer_map \in [Calls \X Ids -> Buffers \cup {None}]
    /\ terminated \in [Wires -> BOOLEAN]
    /\ ongoing_procedures \in [Wires -> SUBSET Calls]
    /\ streams \subseteq {<<w, c>> : w \in Wires, c \in Streaming}
    /\ arrived \in [Wires -> [Calls -> 0 .. Pieces]]
    /\ rejected \subseteq Wires \X Calls
    /\ \A w \in Wires :
         /\ At(w, "none") = ~Made(w)
         /\ reader[w].pc \in Holding => Buf(w) \in Buffers
         /\ \A r \in Clones(w) :
              /\ clone[w][r] \in {"up", "sweep", "pop", "gone"}
              /\ due[w][r] \subseteq Calls
              /\ (clone[w][r] = "pop") = (removed[w][r] \in Buffers)

(* A procedure is run once for a call, and with exactly the arguments the  *)
(* call came with, whatever other wires do with the same indices: wires    *)
(* have identifiers "to make sure [their] procedure calls do not overlap   *)
(* with those of other wires" (get_id).  A call that was refused a piece   *)
(* is not spoken of, nor one on a wire that other threads may drop.        *)
Arguments(w, c) == [i \in 1 .. Pieces |-> <<w, c, i>>]
RunsOwn(w, c) == <<w, c>> \notin rejected => ran[w][c] \in {<<>>, <<Arguments(w, c)>>}
OwnArguments == \A w \in Wires \ Started, c \in Calls : RunsOwn(w, c)

(* ... and neither is another procedure run on a started wire: to          *)
(* terminate one is to drop the arguments of ongoing calls, "effectively   *)
(* cancelling calls that were getting ready to start" (mark_terminated).   *)
AllOwnArguments == \A w \in Wires, c \in Calls : RunsOwn(w, c)

(* No two wires that are live have the same identifier.                    *)
UniqueWires == \A v, w \in Wires : v # w /\ Live(v) /\ Live(w) => id[v] # id[w]

(* The other end of a wire never has more procedures ongoing than it may.  *)
WithinLimit == \A w \in Wires : Cardinality(ongoing_procedures[w]) <= MaxOngoing

(* When every wire is gone, nothing is left of the calls that were cut off *)
(* but what call_procedure leaves behind when it fails.                    *)
NothingLeft ==
    (\A w \in Wires : ~Live(w)) =>
        /\ \A key \in Calls \X Ids : call_to_buffer_map[key] = None
        /\ Cardinality({b \in Buffers : messages[b] # None})
               <= Cardinality({w \in Wires : At(w, "failed")})
=============================================================================
