----------------------------- MODULE ByteStream -----------------------------
(***************************************************************************)
(* One direction of a wire down to its bytes: threads that call and a      *)
(* procedure that answers put messages on the wire's queue, the writer's   *)
(* thread writes them out in segments of any length, and the reader's      *)
(* thread at the other end reads field by field what the bytes before have *)
(* told it to expect.  The sending program may disappear in the middle of  *)
(* a message.  What is done with messages is Wire's matter and             *)
(* MessageStream's; here a call only collects its arguments and runs.      *)
(***************************************************************************)
EXTENDS WireFormat, Integers, FiniteSets

CONSTANTS Calls,       \* the calls made
          Procedure,   \* the procedure index of each call
          Arguments,   \* the arguments of each call
          Cut,         \* the bytes in a call's first piece; 0 for a call in one go
          Arity,       \* how many arguments each procedure index takes
          LastIndex,   \* the call index each procedure was last called with
          Script,      \* the responses and signals that are sent meanwhile, in order
          PipeSize,    \* the bytes the stream holds until they are read
          IntSize,     \* the bytes in an IpfiInteger of the reader's program
          None         \* "nothing there"

Procedures == {Procedure[c] : c \in Calls}

(* Indices and lengths fit the widest integer there is.                    *)
Indices == {n \in Nat : Fits(n, 8)}
Bodies == {bytes \in Seq(0 .. 255) : Len(bytes) \in Indices}
Responses ==
    [type : {"response"}, key : Indices \X Indices, body : Bodies,
     terminator : {"none", "chunk", "complete"}]
Signals == [type : {"end_of_input", "termination"}]

ASSUME CallsAssumption == IsFiniteSet(Calls) /\ Procedures \subseteq Indices
ASSUME CutAssumption ==
    \A c \in Calls : LET bytes == IntoBytes(Arguments[c]) IN
        bytes \in Bodies /\ Cut[c] \in 0 .. Len(bytes)
ASSUME IndexAssumption ==
    LastIndex \in [Procedures -> Nat]
    /\ \A p \in Procedures : LastIndex[p] + Cardinality(Calls) \in Indices
ASSUME ScriptAssumption == Script \in Seq(Responses \cup Signals)
ASSUME PipeAssumption == PipeSize \in Nat
ASSUME NoneAssumption == None \notin Procedures \X Nat

VARIABLES
    remote_call_counter,   \* the last call index used for each procedure
    caller,                \* of each call: its key, and the messages it has queued
    scripted,              \* how much of the script has been queued
    queue,                 \* the messages to be written, as bytes
    writing,               \* what write_all has yet to write
    stream,                \* the bytes written and not read
    closed,                \* the sending program has disappeared
    reader,                \* the fields read of a message, and why the reader stopped
    terminated,            \* the flag is_terminated() reads at the reader's end
    buffers,               \* the bytes that have come for each call not run yet
    \* what has been sent, received and run so far
    sent, received, ran

sender == <<remote_call_counter, caller, scripted, sent>>
receiver == <<reader, terminated, buffers, received, ran>>
vars == <<sender, queue, writing, stream, closed, receiver>>

Init ==
    /\ remote_call_counter = LastIndex
    /\ caller = [c \in Calls |-> [key |-> None, pieces |-> 0]]
    /\ scripted = 0
    /\ queue = <<>> /\ writing = <<>> /\ stream = <<>>
    /\ closed = FALSE
    /\ reader = [fields |-> <<>>, stopped |-> "no"]
    /\ terminated = FALSE
    /\ buffers = {}
    /\ sent = <<>> /\ received = <<>> /\ ran = <<>>

-----------------------------------------------------------------------------
(* Sending.                                                                *)
Push(message) ==
    /\ sent' = Append(sent, message)
    /\ queue' = Append(queue, ToBytes(message))

(* A call in one go, or its arguments cut somewhere and then the end.      *)
Pieces(c) ==
    LET bytes == IntoBytes(Arguments[c])
        piece(body, terminator) == [body |-> body, terminator |-> terminator]
    IN  IF Cut[c] = 0 THEN <<piece(bytes, "complete")>>
         ELSE IF Cut[c] = Len(bytes)
         THEN <<piece(bytes, "none"), piece(<<>>, "complete")>>
         ELSE <<piece(SubSeq(bytes, 1, Cut[c]), "none"),
                piece(SubSeq(bytes, Cut[c] + 1, Len(bytes)), "none"),
                piece(<<>>, "complete")>>

CallMessage(key, piece) ==
    [type |-> "call", key |-> key, body |-> piece.body, terminator |-> piece.terminator]

(* The call's index is taken with its first piece; Wire has the two apart. *)
Start(c) ==
    LET p == Procedure[c]
        key == <<p, remote_call_counter[p] + 1>>
    IN
    /\ ~closed
    /\ caller[c].key = None
    /\ remote_call_counter' = [remote_call_counter EXCEPT ![p] = @ + 1]
    /\ Push(CallMessage(key, Pieces(c)[1]))
    /\ caller' = [caller EXCEPT ![c] = [key |-> key, pieces |-> 1]]
    /\ UNCHANGED <<scripted, writing, stream, closed, receiver>>

SendPiece(c) ==
    LET i == caller[c].pieces + 1 IN
    /\ ~closed
    /\ caller[c].key # None
    /\ i <= Len(Pieces(c))
    /\ Push(CallMessage(caller[c].key, Pieces(c)[i]))
    /\ caller' = [caller EXCEPT ![c].pieces = i]
    /\ UNCHANGED <<remote_call_counter, scripted, writing, stream, closed, receiver>>

(* A yielder's responses, signal_end_of_input and signal_termination.      *)
FollowScript ==
    /\ ~closed
    /\ scripted < Len(Script)
    /\ Push(Script[scripted + 1])
    /\ scripted' = scripted + 1
    /\ UNCHANGED <<remote_call_counter, caller, writing, stream, closed, receiver>>

Room == Min({Len(writing), PipeSize - Len(stream)})

(* Mutation: one write is made where write_all makes as many as it takes.  *)
WriteOnce ==
    /\ ~closed
    /\ writing # <<>>
    /\ \E n \in 1 .. Room : stream' = stream \o SubSeq(writing, 1, n)
    /\ writing' = <<>>
    /\ UNCHANGED <<sender, queue, closed, receiver>>

(* flush_partial takes the oldest message and writes all of it, however    *)
(* many writes it takes.                                                   *)
Pop ==
    /\ ~closed
    /\ writing = <<>>
    /\ queue # <<>>
    /\ writing' = Head(queue)
    /\ queue' = Tail(queue)
    /\ UNCHANGED <<sender, stream, closed, receiver>>

Write ==
    /\ ~closed
    /\ writing # <<>>
    /\ \E n \in 1 .. Room :
         /\ stream' = stream \o SubSeq(writing, 1, n)
         /\ writing' = SubSeq(writing, n + 1, Len(writing))
    /\ UNCHANGED <<sender, queue, closed, receiver>>

(* The program disappears, and what it had not written with it.            *)
Close ==
    /\ ~closed
    /\ closed' = TRUE
    /\ queue' = <<>> /\ writing' = <<>>
    /\ UNCHANGED <<sender, stream, receiver>>

-----------------------------------------------------------------------------
(* Receiving.  The fields of a message are its type, its multiflag, the    *)
(* two indices, the length and the bytes.                                  *)
Flag(first) ==
    LET bits == ByteToBits(reader.fields[2]) IN <<bits[first], bits[first + 1]>>

(* What the next read_exact asks for.                                      *)
Wanted ==
    CASE Len(reader.fields) \in {0, 1} -> 1
      [] Len(reader.fields) = 2 -> SizeFromFlag(Flag(1))
      [] Len(reader.fields) = 3 -> SizeFromFlag(Flag(3))
      [] Len(reader.fields) = 4 -> SizeFromFlag(Flag(5))
      [] Len(reader.fields) = 5 -> reader.fields[5]

Reads(n) ==
    /\ reader.stopped = "no"
    /\ Len(reader.fields) = n
    /\ Len(stream) >= Wanted
    /\ stream' = SubSeq(stream, Wanted + 1, Len(stream))

Taken == SubSeq(stream, 1, Wanted)
Stop(why) == reader' = [fields |-> <<>>, stopped |-> why]
ReadOn == Stop("no")
Received(message) == received' = Append(received, message)

(* receive_one goes on with a call or a response ...                       *)
ReadField ==
    LET value == FromLeBytes(Taken) IN
    /\ \/ Reads(0) /\ value \in {1, 2}
       \/ Reads(1)
       \/ (Reads(2) \/ Reads(3)) /\ Fits(value, IntSize)
       \/ Reads(4)
    /\ reader' = [reader EXCEPT !.fields = Append(@, value)]
    /\ UNCHANGED <<sender, queue, writing, closed, terminated, buffers, received, ran>>

(* ... fails on an index that is too big, which ends the thread and leaves *)
(* the wire as it is ...                                                   *)
IdxTooBig ==
    /\ Reads(2) \/ Reads(3)
    /\ ~Fits(FromLeBytes(Taken), IntSize)
    /\ Stop("IdxTooBig")
    /\ UNCHANGED <<sender, queue, writing, closed, terminated, buffers, received, ran>>

(* ... returns at the end of input, to be called again by the thread ...   *)
EndOfInput ==
    /\ Reads(0)
    /\ FromLeBytes(Taken) = 3
    /\ Received([type |-> "end_of_input"])
    /\ ReadOn
    /\ UNCHANGED <<sender, queue, writing, closed, terminated, buffers, ran>>

(* ... and terminates the wire on the other side's word.                   *)
Termination ==
    /\ Reads(0)
    /\ FromLeBytes(Taken) = 0
    /\ Received([type |-> "termination"])
    /\ terminated' = TRUE
    /\ Stop("terminated")
    /\ UNCHANGED <<sender, queue, writing, closed, buffers, ran>>

(* Mutation: the end of the stream between two messages is no error.       *)
UnexpectedEofInside ==
    /\ reader.stopped = "no"
    /\ closed
    /\ Len(stream) < Wanted
    /\ stream' = <<>>
    /\ terminated' = (reader.fields # <<>>)
    /\ Stop("UnexpectedEof")
    /\ UNCHANGED <<sender, queue, writing, closed, buffers, received, ran>>

(* fill takes the end of the stream for a termination, wherever it comes.  *)
UnexpectedEof ==
    /\ reader.stopped = "no"
    /\ closed
    /\ Len(stream) < Wanted
    /\ stream' = <<>>
    /\ terminated' = TRUE
    /\ Stop("UnexpectedEof")
    /\ UNCHANGED <<sender, queue, writing, closed, buffers, received, ran>>

Key == <<reader.fields[3], reader.fields[4]>>
Message(type) ==
    [type |-> type, key |-> Key, body |-> Taken, terminator |-> TerminatorFromFlag(Flag(7))]

ReadResponse ==
    /\ Reads(5)
    /\ reader.fields[1] = 2
    /\ Received(Message("response"))
    /\ ReadOn
    /\ UNCHANGED <<sender, queue, writing, closed, terminated, buffers, ran>>

(* Mutation: a piece is put before those that came before it.              *)
AccumulatedInFront(message) ==
    LET before == {b \in buffers : b.key = message.key} IN
    message.body \o (IF before = {} THEN <<>> ELSE (CHOOSE b \in before : TRUE).bytes)

(* The bytes of a call so far.                                             *)
Accumulated(message) ==
    LET before == {b \in buffers : b.key = message.key} IN
    (IF before = {} THEN <<>> ELSE (CHOOSE b \in before : TRUE).bytes) \o message.body

Others(key) == {b \in buffers : b.key # key}

ReadPiece ==
    LET message == Message("call") IN
    /\ Reads(5)
    /\ reader.fields[1] = 1
    /\ message.terminator # "complete"
    /\ Received(message)
    /\ buffers' = Others(Key) \cup {[key |-> Key, bytes |-> Accumulated(message)]}
    /\ ReadOn
    /\ UNCHANGED <<sender, queue, writing, closed, terminated, ran>>

(* The last piece: the arguments are taken apart and the procedure runs,   *)
(* or there are too few of them and the thread ends.                       *)
ReadLastPiece ==
    LET message == Message("call")
        arguments == Unpack(Accumulated(message), Arity[Key[1]])
    IN
    /\ Reads(5)
    /\ reader.fields[1] = 1
    /\ message.terminator = "complete"
    /\ Received(message)
    /\ buffers' = Others(Key)
    /\ IF Len(arguments) = Arity[Key[1]]
       THEN ran' = Append(ran, [key |-> Key, arguments |-> arguments]) /\ ReadOn
       ELSE Stop("Decode") /\ UNCHANGED ran
    /\ UNCHANGED <<sender, queue, writing, closed, terminated>>

-----------------------------------------------------------------------------
CallerStep(c) == Start(c) \/ SendPiece(c)
WriterStep == Pop \/ Write
ReaderStep ==
    \/ ReadField \/ IdxTooBig \/ EndOfInput \/ Termination \/ UnexpectedEof
    \/ ReadResponse \/ ReadPiece \/ ReadLastPiece

Next ==
    \/ \E c \in Calls : CallerStep(c)
    \/ FollowScript
    \/ WriterStep \/ ReaderStep
    \/ Close

Spec == Init /\ [][Next]_vars

(* The writer's thread and the reader's never rest (Wire::start).          *)
FairSpec == Spec /\ WF_vars(WriterStep) /\ WF_vars(ReaderStep)

-----------------------------------------------------------------------------
(* Every variable keeps its type: the stream carries bytes, a reader that  *)
(* goes on has read numbers, and one that has stopped has read nothing of  *)
(* the next message.                                                       *)
TypeOK ==
    /\ \A c \in Calls : caller[c].pieces \in 0 .. Len(Pieces(c))
    /\ \A i \in DOMAIN stream : stream[i] \in 0 .. 255
    /\ \A i \in DOMAIN reader.fields : reader.fields[i] \in Nat
    /\ Len(reader.fields) <= 5
    /\ reader.stopped # "no" => reader.fields = <<>>
    /\ terminated <=> reader.stopped \in {"terminated", "UnexpectedEof"}
    /\ \A b \in buffers : b.key[1] \in Procedures

(* However the bytes are cut into segments and whatever sizes the indices  *)
(* take, the messages that arrive are those that were sent, in the order   *)
(* they were queued (Message::to_bytes and receive_one agree).             *)
Fifo == INSTANCE MessageFifo
RefinesFifo == Fifo!Spec

(* No call has more arguments than its procedure takes, and the serialiser *)
(* gives back what it was given; too few arguments are given back as such. *)
Restorable == \A c \in Calls :
    LET n == Arity[Procedure[c]]
    IN  /\ n \in Nat /\ Len(Arguments[c]) \in 0 .. n
        /\ Unpack(IntoBytes(Arguments[c]), n) = Arguments[c]

(* A procedure runs at most once for each call and is given the arguments  *)
(* its caller gave, wherever the pieces were cut                           *)
(* (continue_given_call_with_bytes: "two-thirds of an argument").          *)
RightArguments ==
    /\ \A i \in DOMAIN ran : \E c \in Calls :
         ran[i] = [key |-> caller[c].key, arguments |-> Arguments[c]]
    /\ \A i, j \in DOMAIN ran : ran[i].key = ran[j].key => i = j

(* A reader gives up only on what is the other side's doing: an index its  *)
(* integers cannot hold, or a call without enough arguments.               *)
TooBigRightly ==
    reader.stopped = "IdxTooBig" =>
      \E i \in {1, 2} : ~Fits(sent[Len(received) + 1].key[i], IntSize)
DecodeRightly ==
    reader.stopped = "Decode" =>
      \E c \in Calls : /\ caller[c].key = Last(received).key
                       /\ Len(Arguments[c]) < Arity[Procedure[c]]
StopsRightly == TooBigRightly /\ DecodeRightly

GivenUp == reader.stopped \in {"IdxTooBig", "Decode"}

(* A call that has been sent runs, unless the wire ends or the reader has  *)
(* given up before it.                                                     *)
CallsRun == \A c \in Calls :
    (caller[c].pieces = Len(Pieces(c)))
        ~> (terminated \/ GivenUp \/ \E i \in DOMAIN ran : ran[i].key = caller[c].key)

(* A program that disappears, even in the middle of a message, leaves the  *)
(* wire at the other end terminated (the warning of fill).                 *)
EndNoticed == closed ~> (terminated \/ GivenUp)
=============================================================================
