--------------------------- MODULE MessageStream ---------------------------
(***************************************************************************)
(* One message of an interface and the receivers that follow it chunk by   *)
(* chunk (src/interface_common.rs, src/wire_common.rs): the source appends *)
(* bytes, ends chunks and ends the message; a receiver is attached with    *)
(* get_chunk_stream and polled with recv_raw, which looks at the lock and  *)
(* at the channel in two steps.  Meanwhile the wire may poison the lock,   *)
(* and the message may be taken out whole.                                 *)
(*                                                                         *)
(* A byte is its number in the order of sending.  A method that holds the  *)
(* message's map entry is one step.  What happens when the message is not  *)
(* there is Interface's subject.                                           *)
(***************************************************************************)
EXTENDS Naturals, Sequences

CONSTANTS Receivers,   \* calls of get_chunk_stream for this message
          MaxBytes,    \* bound on the bytes sent
          MaxChunks,   \* bound on the chunks ended before the last
          None

ASSUME BoundsAssumption == MaxBytes \in Nat /\ MaxChunks \in Nat
ASSUME NoneAssumption ==
    /\ None \notin Receivers /\ "dropped" \notin Receivers
    /\ None \notin {"dropped", "send", "pop", "terminate", "this", "next"}

VARIABLES
    chunks,          \* the message's chunks; bytes are appended to the last
    complete_lock,   \* Incomplete, Complete or Poisoned
    sender,          \* None; the receiver its chunks go to; or "dropped", Some(None)
    present,         \* the message is in the map
    ending,          \* where terminate_message is: "send", "pop" or None
    idle,            \* the handle left with the wire under the message's identifier:
                     \* "this" message's, that of the "next" call to use it, or None
    fed,             \* how many bytes have been sent
    pc,              \* of each receiver: where its thread is
    channel,         \* the chunks sent to each receiver and not yet received
    \* history
    closed,          \* the chunks ended so far
    kept,            \* which of them were left in the message
    from,            \* how many there were when each receiver was attached
    got,             \* what each receiver has been given
    end,             \* how the message ended: "terminate", "send" or None
    taken            \* what get_raw or get_chunks gave, or None

message == <<chunks, complete_lock, sender, present, ending>>
receiver == <<pc, channel, from, got>>
record == <<fed, closed, kept, end>>
vars == <<message, receiver, record, idle, taken>>

Init ==
    /\ chunks = << <<>> >>
    /\ complete_lock = "Incomplete"
    /\ sender = None
    /\ present = TRUE
    /\ ending = None
    /\ idle = "this"
    /\ fed = 0
    /\ pc = [r \in Receivers |-> "new"]
    /\ channel = [r \in Receivers |-> <<>>]
    /\ closed = <<>>
    /\ kept = <<>>
    /\ from = [r \in Receivers |-> 0]
    /\ got = [r \in Receivers |-> <<>>]
    /\ end = None
    /\ taken = None

Current == chunks[Len(chunks)]
Earlier == SubSeq(chunks, 1, Len(chunks) - 1)

(* Every method of the source fails on a message that is complete or gone, *)
(* and has no effect then; a poisoned one is written to.                   *)
Open == present /\ complete_lock # "Complete"

(* The message's entry in the map can be had.                              *)
Free == present /\ ending # "send"

-----------------------------------------------------------------------------
(* The source: send and send_many.                                         *)
SendMany ==
    /\ Open
    /\ fed < MaxBytes
    /\ fed' = fed + 1
    /\ chunks' = [chunks EXCEPT ![Len(chunks)] = Append(@, fed + 1)]
    /\ UNCHANGED <<complete_lock, sender, present, ending, receiver,
                   closed, kept, end, idle, taken>>

(* A chunk that ends is sent if somebody was attached to receive it; when  *)
(* the receiver has been dropped the send fails and it is put back.        *)
Sends == sender \in Receivers /\ pc[sender] # "dropped"

(* Mutation: a chunk that could not be sent is not put back.               *)
NeverPutBack == IF sender \in Receivers THEN Earlier ELSE chunks

AfterClose == IF Sends THEN Earlier ELSE chunks

(* Mutation: no chunk is begun after one that was sent.                    *)
NotBegun == AfterClose

Begun == Append(AfterClose, <<>>)

(* Mutation: a chunk is sent ahead of those that wait.                     *)
CloseAhead ==
    /\ closed' = Append(closed, Current)
    /\ channel' = IF Sends THEN [channel EXCEPT ![sender] = <<Current>> \o @] ELSE channel
    /\ kept' = IF Sends THEN kept ELSE Append(kept, Len(closed) + 1)

Close ==
    /\ closed' = Append(closed, Current)
    /\ channel' = IF Sends THEN [channel EXCEPT ![sender] = Append(@, Current)] ELSE channel
    /\ kept' = IF Sends THEN kept ELSE Append(kept, Len(closed) + 1)

TerminateChunk ==
    /\ Open
    /\ Len(closed) < MaxChunks
    /\ Close
    /\ chunks' = Begun
    /\ UNCHANGED <<complete_lock, sender, present, ending, pc, from, got,
                   fed, end, idle, taken>>

(* terminate_message marks the message complete, sends the last chunk and  *)
(* pops the message.  It holds the map entry until the chunk is sent, but  *)
(* receivers do not ask for it.                                            *)
TerminateMessage ==
    /\ Open
    /\ complete_lock' = "Complete"
    /\ end' = "terminate"
    /\ ending' = "send"
    /\ UNCHANGED <<chunks, sender, present, receiver, fed, closed, kept, idle, taken>>

(* Mutation: the message is popped and its last chunk is not sent.         *)
PopUnsent ==
    /\ ending = "send"
    /\ closed' = Append(closed, Current)
    /\ kept' = IF Sends THEN kept ELSE Append(kept, Len(closed) + 1)
    /\ sender' = IF sender = None \/ Sends THEN sender ELSE "dropped"
    /\ ending' = IF Sends THEN "pop" ELSE None
    /\ UNCHANGED <<chunks, complete_lock, present, receiver, fed, end, idle, taken>>

(* With no receiver to pop for the message stays, and a sender that could  *)
(* not send is dropped.                                                    *)
SendLast ==
    /\ ending = "send"
    /\ Close
    /\ chunks' = IF Sends THEN Begun ELSE chunks
    /\ sender' = IF sender = None \/ Sends THEN sender ELSE "dropped"
    /\ ending' = IF Sends THEN "pop" ELSE None
    /\ UNCHANGED <<complete_lock, present, pc, from, got, fed, end, idle, taken>>

(* The only sender goes with the message.                                  *)
PopStreamed ==
    /\ ending = "pop"
    /\ ending' = None
    /\ present' = FALSE
    /\ UNCHANGED <<chunks, complete_lock, sender, receiver, record, idle, taken>>

(* send(-1) completes the message and does not look at the sender.         *)
SendEnd ==
    /\ Open
    /\ complete_lock' = "Complete"
    /\ end' = "send"
    /\ closed' = Append(closed, Current)
    /\ kept' = Append(kept, Len(closed) + 1)
    /\ UNCHANGED <<chunks, sender, present, ending, receiver, fed, idle, taken>>

(* The wire poisons the locks of the handles left with it.                 *)
Poison ==
    /\ idle = "this"
    /\ complete_lock = "Incomplete"
    /\ complete_lock' = "Poisoned"
    /\ UNCHANGED <<chunks, sender, present, ending, receiver, record, idle, taken>>

(* Once the message has been popped its identifier is free, and a call     *)
(* that is given it leaves a handle with the wire under it.                *)
NextCall ==
    /\ ~present
    /\ idle' = "next"
    /\ UNCHANGED <<message, receiver, record, taken>>

-----------------------------------------------------------------------------
(* Receivers.  get_chunk_stream: a new sender takes the place of another.  *)
Attach(r) ==
    /\ pc[r] = "new"
    /\ Free
    /\ sender' = r
    /\ pc' = [pc EXCEPT ![r] = "ready"]
    /\ from' = [from EXCEPT ![r] = Len(closed)]
    /\ UNCHANGED <<chunks, complete_lock, present, ending, channel, got, record, idle, taken>>

Goto(r, where) == pc' = [pc EXCEPT ![r] = where]

(* recv_raw may be called again after it has failed.                       *)
Recv(r) ==
    /\ pc[r] \in {"ready", "failed"}
    /\ Goto(r, "check")
    /\ UNCHANGED <<message, channel, from, got, record, idle, taken>>

CheckLock(r) ==
    /\ pc[r] = "check"
    /\ Goto(r, IF complete_lock = "Poisoned" THEN "try" ELSE "wait")
    /\ UNCHANGED <<message, channel, from, got, record, idle, taken>>

(* The next chunk is there, and recv_raw returns it.                       *)
Take(r) ==
    /\ channel[r] # <<>>
    /\ channel' = [channel EXCEPT ![r] = Tail(@)]
    /\ got' = [got EXCEPT ![r] = Append(@, Head(channel[r]))]
    /\ Goto(r, "ready")
    /\ UNCHANGED <<message, from, record, idle, taken>>

(* Mutation: a poisoned lock is reported without a look at the channel.    *)
TryNothing(r) ==
    /\ pc[r] = "try"
    /\ Goto(r, "failed")
    /\ UNCHANGED <<message, channel, from, got, record, idle, taken>>

(* The lock was poisoned: what is left is returned before the error is.    *)
TryRecv(r) ==
    /\ pc[r] = "try"
    /\ \/ Take(r)
       \/ /\ channel[r] = <<>>
          /\ Goto(r, "failed")
          /\ UNCHANGED <<message, channel, from, got, record, idle, taken>>

Disconnected(r) == sender # r \/ ~present

(* Mutation: the end of the channel is taken for a timeout.                *)
RecvForEver(r) ==
    /\ pc[r] = "wait"
    /\ \/ Take(r)
       \/ /\ channel[r] = <<>>
          /\ Goto(r, "check")
          /\ UNCHANGED <<message, channel, from, got, record, idle, taken>>

(* recv_timeout: a chunk; or nobody can send one any more, and the handle  *)
(* takes the entry of its identifier off the wire's list; or a timeout,    *)
(* and the lock is looked at again.                                        *)
RecvTimeout(r) ==
    /\ pc[r] = "wait"
    /\ \/ Take(r)
       \/ /\ channel[r] = <<>>
          /\ Goto(r, IF Disconnected(r) THEN "ended" ELSE "check")
          /\ idle' = IF Disconnected(r) THEN None ELSE idle
          /\ UNCHANGED <<message, channel, from, got, record, taken>>

DropReceiver(r) ==
    /\ pc[r] \in {"ready", "failed"}
    /\ Goto(r, "dropped")
    /\ UNCHANGED <<message, channel, from, got, record, idle, taken>>

(* get_raw pops a complete message and returns its chunks, get_chunks only *)
(* if no sender was ever attached.                                         *)
GetRaw ==
    /\ Free
    /\ complete_lock = "Complete"
    /\ taken' = chunks
    /\ present' = FALSE
    /\ UNCHANGED <<chunks, complete_lock, sender, ending, receiver, record, idle>>

-----------------------------------------------------------------------------
RecvStep(r) == CheckLock(r) \/ TryRecv(r) \/ RecvTimeout(r)

Next ==
    \/ SendMany \/ TerminateChunk \/ SendEnd
    \/ TerminateMessage \/ SendLast \/ PopStreamed
    \/ Poison \/ NextCall \/ GetRaw
    \/ \E r \in Receivers : Attach(r) \/ Recv(r) \/ RecvStep(r) \/ DropReceiver(r)

Spec == Init /\ [][Next]_vars

(* A thread inside a method goes on with it.                               *)
FairSpec ==
    /\ Spec
    /\ WF_vars(SendLast \/ PopStreamed)
    /\ \A r \in Receivers : WF_vars(RecvStep(r))

-----------------------------------------------------------------------------
Receiving(r) == pc[r] \in {"check", "try", "wait"}
Attached(r) == pc[r] # "new"

(* Every variable keeps its type; a message always has a chunk to append   *)
(* to ("There will always be at least one chunk", send), and its sender is *)
(* dropped only once nobody will send ("We know that this will be          *)
(* Some(sender) internally", terminate_message).                           *)
TypeOK ==
    /\ chunks \in Seq(Seq(1 .. fed)) /\ chunks # <<>>
    /\ complete_lock \in {"Incomplete", "Complete", "Poisoned"}
    /\ sender \in Receivers \cup {None, "dropped"}
    /\ sender = "dropped" => complete_lock = "Complete"
    /\ present \in BOOLEAN /\ ending \in {None, "send", "pop"}
    /\ idle \in {"this", "next", None}
    /\ fed \in 0 .. MaxBytes
    /\ pc \in [Receivers -> {"new", "ready", "check", "try", "wait", "failed", "ended", "dropped"}]
    /\ channel \in [Receivers -> Seq(Seq(1 .. fed))]
    /\ closed \in Seq(Seq(1 .. fed))
    /\ kept \in Seq(1 .. Len(closed))
    /\ from \in [Receivers -> 0 .. Len(closed)]
    /\ got \in [Receivers -> Seq(Seq(1 .. fed))]
    /\ end \in {None, "terminate", "send"}
    /\ (end = None) = (complete_lock # "Complete")

Received(r) == from[r] + Len(got[r])
Reached(r) == Received(r) + Len(channel[r])

(* A receiver is given the chunks that end after it was attached, each     *)
(* whole, in order and without a gap, and so is what waits for it; and     *)
(* while it is the one attached and there, every chunk has been sent to it *)
(* that was not completed by send(-1).                                     *)
InOrder ==
    \A r \in Receivers :
        /\ Reached(r) <= Len(closed)
        /\ \A i \in 1 .. Len(got[r]) : got[r][i] = closed[from[r] + i]
        /\ \A i \in 1 .. Len(channel[r]) : channel[r][i] = closed[Received(r) + i]
        /\ sender = r /\ pc[r] # "dropped" /\ end # "send" => Reached(r) = Len(closed)

(* A chunk that no receiver was sent is still in the message, in its       *)
(* place: "If sending the chunk fails (receiver dropped), add it back".    *)
NothingLost ==
    /\ \A j \in 1 .. Len(closed) :
         \/ \E i \in 1 .. Len(kept) : kept[i] = j
         \/ \E r \in Receivers : from[r] < j /\ j <= Reached(r)
    /\ \A i \in 1 .. Len(kept) : i <= Len(chunks) /\ chunks[i] = closed[kept[i]]
    /\ \A i, j \in 1 .. Len(kept) : i < j => kept[i] < kept[j]
    /\ taken # None => taken = chunks

(* A receiver that is told that the message has ended has been given every *)
(* chunk since it was attached, unless another took its place: recv_raw    *)
(* returns Ok(None) when "the sender [has] been dropped (i.e. message is   *)
(* complete)".                                                             *)
EndIsComplete ==
    \A r \in Receivers :
        pc[r] = "ended" /\ sender = r /\ end # "send" =>
            end = "terminate" /\ Received(r) = Len(closed)

(* A receiver that fails because the wire terminated has been given every  *)
(* chunk that ended before: "any remaining values will be yielded, before  *)
(* an error is returned" (wait_chunk_stream).                              *)
FailsDrained ==
    [][\A r \in Receivers :
          pc[r] = "try" /\ pc'[r] = "failed" /\ sender = r /\ end # "send" =>
              Received(r) = Len(closed)]_vars

(* A receiver that was attached before the message ended does not wait for *)
(* ever once it has ended or its lock has been poisoned, unless it was     *)
(* ended by send(-1).                                                      *)
InTime(r) == complete_lock = "Poisoned" \/ from[r] < Len(closed)
StreamsReturn ==
    \A r \in Receivers :
        (Receiving(r) /\ complete_lock # "Incomplete" /\ InTime(r)) ~> (~Receiving(r) \/ end = "send")

(* ... and neither does one that was attached later.                       *)
AllStreamsReturn ==
    \A r \in Receivers :
        (Receiving(r) /\ end = "terminate") ~> ~Receiving(r)

(* A receiver that ends leaves the handles of others alone: "If the        *)
(* receiver finished smoothly, strike this from the list of handles to     *)
(* poison" (ChunkReceiverHandle::recv_raw).                                *)
OthersKeepTheirEntry == [][idle = "next" => idle' = "next"]_vars
=============================================================================
