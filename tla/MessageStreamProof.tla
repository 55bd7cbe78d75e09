------------------------- MODULE MessageStreamProof -------------------------
(***************************************************************************)
(* Proofs about MessageStream, for any receivers and bounds.               *)
(***************************************************************************)
EXTENDS MessageStream, SequenceTheorems, TLAPS

Chunk == Seq(1 .. fed)

-----------------------------------------------------------------------------
(* What appending does, element by element.                                *)
LEMMA Appended ==
    ASSUME NEW S, NEW s \in Seq(S), NEW e \in S
    PROVE  /\ Append(s, e) \in Seq(S)
           /\ Append(s, e) # <<>>
           /\ Len(Append(s, e)) = Len(s) + 1
           /\ \A i \in 1 .. Len(s) : Append(s, e)[i] = s[i]
           /\ Append(s, e)[Len(s) + 1] = e
BY AppendProperties

(* A sequence that is not empty has a last element.                        *)
LEMMA NonEmpty ==
    ASSUME NEW S, NEW s \in Seq(S), s # <<>>
    PROVE  Len(s) \in Nat /\ Len(s) >= 1 /\ s[Len(s)] \in S
<1>1. Len(s) \in Nat \ {0}
  BY EmptySeq
<1> QED BY <1>1, ElementOfSeq

(* All but the last chunk, and a new one after them.                       *)
LEMMA EarlierChunks ==
    ASSUME TypeOK
    PROVE  /\ Current \in Chunk
           /\ Earlier \in Seq(Chunk)
           /\ Len(Earlier) = Len(chunks) - 1
           /\ \A i \in 1 .. Len(chunks) - 1 : Earlier[i] = chunks[i]
<1>1. chunks \in Seq(Chunk) /\ chunks # <<>>
  BY DEF TypeOK, Chunk
<1>2. Len(chunks) \in Nat /\ Len(chunks) >= 1 /\ Current \in Chunk
  BY <1>1, NonEmpty DEF Current
<1>3. \A i \in 1 .. Len(chunks) - 1 : chunks[i] \in Chunk
  BY <1>1, <1>2, ElementOfSeq
<1>4. Len(chunks) - 1 \in Int /\ 1 \in Int
  BY <1>2
<1> DEFINE n == Len(chunks) - 1
<1>5. /\ Earlier \in Seq(Chunk)
      /\ Len(Earlier) = IF 1 <= n THEN n - 1 + 1 ELSE 0
      /\ \A i \in 1 .. n - 1 + 1 : Earlier[i] = chunks[1 + i - 1]
  BY <1>3, <1>4, SubSeqProperties DEF Earlier
<1>6. Len(Earlier) = n
  <2>1. n \in Nat
    BY <1>2
  <2> HIDE DEF n
  <2>2. CASE 1 <= n
    BY <1>5, <2>1, <2>2
  <2>3. CASE n = 0
    BY <1>5, <2>3
  <2> QED BY <2>1, <2>2, <2>3
<1>7. \A i \in 1 .. n : Earlier[i] = chunks[i]
  <2> SUFFICES ASSUME NEW i \in 1 .. n PROVE Earlier[i] = chunks[i]
    OBVIOUS
  <2>1. i \in 1 .. n - 1 + 1 /\ 1 + i - 1 = i
    BY <1>2
  <2> QED BY <1>5, <2>1
<1> QED BY <1>2, <1>5, <1>6, <1>7

(* The effect of a chunk that ends on what is recorded and on the channel  *)
(* it is sent to.                                                          *)
LEMMA Closes ==
    ASSUME TypeOK, Close
    PROVE  /\ closed' \in Seq(Chunk) /\ Len(closed') = Len(closed) + 1
           /\ Len(closed) \in Nat
           /\ \A j \in 1 .. Len(closed) : closed'[j] = closed[j]
           /\ closed'[Len(closed) + 1] = Current
           /\ channel' \in [Receivers -> Seq(Chunk)]
           /\ \A r \in Receivers : ~(Sends /\ r = sender) => channel'[r] = channel[r]
           /\ Sends =>
                /\ kept' = kept
                /\ sender \in Receivers
                /\ Len(channel'[sender]) = Len(channel[sender]) + 1
                /\ \A i \in 1 .. Len(channel[sender]) : channel'[sender][i] = channel[sender][i]
                /\ channel'[sender][Len(channel[sender]) + 1] = Current
           /\ ~Sends => kept' = Append(kept, Len(closed) + 1) /\ channel' = channel
<1>1. Current \in Chunk
  BY EarlierChunks
<1>2. closed \in Seq(Chunk) /\ channel \in [Receivers -> Seq(Chunk)]
  BY DEF TypeOK, Chunk
<1>3. Len(closed) \in Nat
  BY <1>2, LenProperties
<1>4. closed' = Append(closed, Current)
  BY DEF Close
<1>5. CASE Sends
  <2>1. sender \in Receivers /\ channel[sender] \in Seq(Chunk)
    BY <1>2, <1>5 DEF Sends
  <2>2. channel' = [channel EXCEPT ![sender] = Append(channel[sender], Current)]
    BY <1>5 DEF Close
  <2>3. channel'[sender] = Append(channel[sender], Current)
    BY <1>2, <2>1, <2>2
  <2>4. Append(channel[sender], Current) \in Seq(Chunk)
    BY <1>1, <2>1, Appended
  <2>5. channel' \in [Receivers -> Seq(Chunk)]
    BY <1>2, <2>1, <2>2, <2>4
  <2>6. /\ Len(channel'[sender]) = Len(channel[sender]) + 1
        /\ \A i \in 1 .. Len(channel[sender]) : channel'[sender][i] = channel[sender][i]
        /\ channel'[sender][Len(channel[sender]) + 1] = Current
    BY <1>1, <2>1, <2>3, Appended
  <2>7. \A r \in Receivers : r # sender => channel'[r] = channel[r]
    BY <1>2, <2>2
  <2>8. kept' = kept
    BY <1>5 DEF Close
  <2> QED BY <1>1, <1>2, <1>3, <1>4, <1>5, <2>1, <2>5, <2>6, <2>7, <2>8, Appended
<1>6. CASE ~Sends
  BY <1>1, <1>2, <1>3, <1>4, <1>6, Appended DEF Close
<1> QED BY <1>5, <1>6

(* There is a chunk to append to then, and the earlier ones are in place.  *)
LEMMA Begins ==
    ASSUME TypeOK
    PROVE  /\ Begun \in Seq(Chunk) /\ Begun # <<>>
           /\ Len(Begun) = IF Sends THEN Len(chunks) ELSE Len(chunks) + 1
           /\ \A i \in 1 .. Len(chunks) - 1 : Begun[i] = chunks[i]
           /\ ~Sends => Begun[Len(chunks)] = chunks[Len(chunks)]
<1>1. /\ Earlier \in Seq(Chunk)
      /\ Len(Earlier) = Len(chunks) - 1
      /\ \A i \in 1 .. Len(chunks) - 1 : Earlier[i] = chunks[i]
  BY EarlierChunks
<1>2. chunks \in Seq(Chunk) /\ Len(chunks) \in Nat /\ Len(chunks) >= 1
  BY NonEmpty DEF TypeOK, Chunk
<1>3. <<>> \in Chunk
  BY EmptySeq DEF Chunk
<1>4. CASE Sends
  BY <1>1, <1>2, <1>3, <1>4, Appended DEF Begun, AfterClose
<1>5. CASE ~Sends
  BY <1>2, <1>3, <1>5, Appended DEF Begun, AfterClose
<1> QED BY <1>4, <1>5

-----------------------------------------------------------------------------
(* Typing, one lemma for each kind of step.                                *)
PcStates == {"new", "ready", "check", "try", "wait", "failed", "ended", "dropped"}

(* Typing, action by action.                                               *)
LEMMA SendTypes ==
    ASSUME TypeOK, SendMany
    PROVE  TypeOK'
<1>1. fed \in Nat /\ fed' = fed + 1 /\ fed' \in 0 .. MaxBytes
  BY BoundsAssumption DEF SendMany, TypeOK
<1>2. \A s \in Chunk : s \in Seq(1 .. fed')
  <2>1. 1 .. fed \subseteq 1 .. fed'
    BY <1>1
  <2> QED BY <2>1, SeqMonotonic DEF Chunk
<1>3. \A s \in Seq(Chunk) : s \in Seq(Seq(1 .. fed'))
  BY <1>2, SeqMonotonic
<1>4. chunks \in Seq(Chunk) /\ chunks # <<>> /\ Len(chunks) \in 1 .. Len(chunks)
  BY NonEmpty DEF TypeOK, Chunk
<1>5. chunks' \in Seq(Seq(1 .. fed')) /\ chunks' # <<>>
  <2>1. Current \in Seq(1 .. fed') /\ fed + 1 \in 1 .. fed'
    BY <1>1, <1>2, EarlierChunks
  <2>2. Append(Current, fed + 1) \in Seq(1 .. fed')
    BY <2>1, Appended
  <2>3. chunks' = [chunks EXCEPT ![Len(chunks)] = Append(Current, fed + 1)]
    BY DEF SendMany, Current
  <2>4. chunks \in Seq(Seq(1 .. fed'))
    BY <1>3, <1>4
  <2>5. chunks' \in Seq(Seq(1 .. fed')) /\ Len(chunks') = Len(chunks)
    BY <1>4, <2>2, <2>3, <2>4, ExceptSeq
  <2> QED BY <1>4, <2>5, EmptySeq
<1>6. closed \in Seq(Seq(1 .. fed'))
  BY <1>3 DEF TypeOK, Chunk
<1>7. channel \in [Receivers -> Seq(Seq(1 .. fed'))] /\ got \in [Receivers -> Seq(Seq(1 .. fed'))]
  BY <1>3 DEF TypeOK, Chunk
<1> QED BY <1>1, <1>5, <1>6, <1>7 DEF SendMany, TypeOK, receiver

(* Numbers of closed chunks remain such when one more is closed.           *)
LEMMA KeptTypes ==
    ASSUME TypeOK, Close
    PROVE  kept' \in Seq(1 .. Len(closed')) /\ from \in [Receivers -> 0 .. Len(closed')]
<1>1. Len(closed) \in Nat /\ Len(closed') = Len(closed) + 1
  BY Closes
<1>2. /\ 1 .. Len(closed) \subseteq 1 .. Len(closed')
      /\ 0 .. Len(closed) \subseteq 0 .. Len(closed')
      /\ Len(closed) + 1 \in 1 .. Len(closed')
  BY <1>1
<1>3. kept \in Seq(1 .. Len(closed'))
  BY <1>2, SeqMonotonic DEF TypeOK
<1>4. Append(kept, Len(closed) + 1) \in Seq(1 .. Len(closed'))
  BY <1>2, <1>3, Appended
<1>5. kept' = kept \/ kept' = Append(kept, Len(closed) + 1)
  BY Closes
<1>6. from \in [Receivers -> 0 .. Len(closed')]
  BY <1>2 DEF TypeOK
<1> QED BY <1>3, <1>4, <1>5, <1>6

LEMMA ChunkTypes ==
    ASSUME TypeOK, TerminateChunk
    PROVE  TypeOK'
<1>1. Close /\ chunks' = Begun /\ UNCHANGED fed
  BY DEF TerminateChunk
<1>2. kept' \in Seq(1 .. Len(closed')) /\ from \in [Receivers -> 0 .. Len(closed')]
  BY <1>1, KeptTypes
<1>4. closed' \in Seq(Chunk) /\ channel' \in [Receivers -> Seq(Chunk)]
  BY <1>1, Closes
<1>5. chunks' \in Seq(Chunk) /\ chunks' # <<>>
  BY <1>1, Begins
<1> QED BY <1>2, <1>4, <1>5 DEF TerminateChunk, TypeOK, Chunk

LEMMA LastTypes ==
    ASSUME TypeOK, ending = "send" => complete_lock = "Complete", SendLast
    PROVE  TypeOK'
<1>1. Close /\ UNCHANGED fed
  BY DEF SendLast
<1>2. kept' \in Seq(1 .. Len(closed')) /\ from \in [Receivers -> 0 .. Len(closed')]
  BY <1>1, KeptTypes
<1>4. closed' \in Seq(Chunk) /\ channel' \in [Receivers -> Seq(Chunk)]
  BY <1>1, Closes
<1>5. chunks' \in Seq(Chunk) /\ chunks' # <<>>
  BY Begins DEF SendLast, TypeOK, Chunk
<1>6. /\ sender' \in Receivers \cup {None, "dropped"}
      /\ ending' \in {None, "send", "pop"}
  BY DEF SendLast, TypeOK
<1> QED BY <1>2, <1>4, <1>5, <1>6 DEF SendLast, TypeOK, Chunk

LEMMA EndTypes ==
    ASSUME TypeOK, SendEnd
    PROVE  TypeOK'
<1>1. closed \in Seq(Chunk) /\ Len(closed) \in Nat /\ Current \in Chunk
  BY LenProperties, EarlierChunks DEF TypeOK, Chunk
<1>2. closed' \in Seq(Chunk) /\ Len(closed') = Len(closed) + 1
  BY <1>1, Appended DEF SendEnd
<1>3. 1 .. Len(closed) \subseteq 1 .. Len(closed') /\ 0 .. Len(closed) \subseteq 0 .. Len(closed')
  BY <1>1, <1>2
<1>4. kept \in Seq(1 .. Len(closed')) /\ Len(closed) + 1 \in 1 .. Len(closed')
  BY <1>1, <1>2, <1>3, SeqMonotonic DEF TypeOK
<1>5. kept' \in Seq(1 .. Len(closed'))
  BY <1>4, Appended DEF SendEnd
<1> QED BY <1>2, <1>3, <1>5, NoneAssumption DEF SendEnd, TypeOK, Chunk, receiver

LEMMA TakeTypes ==
    ASSUME TypeOK, NEW r \in Receivers, Take(r)
    PROVE  /\ channel' \in [Receivers -> Seq(Chunk)]
           /\ got' \in [Receivers -> Seq(Chunk)]
           /\ \A q \in Receivers \ {r} : channel'[q] = channel[q] /\ got'[q] = got[q]
           /\ channel[r] \in Seq(Chunk) /\ channel[r] # <<>>
           /\ channel'[r] = Tail(channel[r]) /\ got'[r] = Append(got[r], Head(channel[r]))
<1>1. /\ channel[r] \in Seq(Chunk) /\ channel[r] # <<>> /\ got[r] \in Seq(Chunk)
      /\ channel \in [Receivers -> Seq(Chunk)] /\ got \in [Receivers -> Seq(Chunk)]
  BY DEF Take, TypeOK, Chunk
<1>2. Tail(channel[r]) \in Seq(Chunk) /\ Append(got[r], Head(channel[r])) \in Seq(Chunk)
  BY <1>1, HeadTailProperties, Appended
<1> QED BY <1>1, <1>2 DEF Take

LEMMA ReceiverTypes ==
    ASSUME TypeOK, NEW r \in Receivers, Attach(r) \/ Recv(r) \/ RecvStep(r) \/ DropReceiver(r)
    PROVE  TypeOK'
<1>1. CASE Attach(r)
  <2>1. Len(closed) \in Nat
    BY LenProperties DEF TypeOK
  <2>2. from' \in [Receivers -> 0 .. Len(closed)]
    BY <1>1, <2>1 DEF Attach, TypeOK
  <2> QED BY <1>1, <2>2, NoneAssumption DEF Attach, TypeOK, record
<1>2. CASE Take(r)
  BY <1>2, TakeTypes DEF Take, Goto, TypeOK, Chunk, message, record
<1>3. CASE Recv(r) \/ CheckLock(r) \/ DropReceiver(r)
  BY ZenonT(60), <1>3 DEF Recv, CheckLock, DropReceiver, Goto, TypeOK, message, record
<1>4. CASE \/ Goto(r, "failed") /\ UNCHANGED <<message, channel, from, got, record, idle, taken>>
           \/ /\ Goto(r, "ended") \/ Goto(r, "check")
              /\ idle' \in {None, idle}
              /\ UNCHANGED <<message, channel, from, got, record, taken>>
  BY ZenonT(60), <1>4 DEF Goto, TypeOK, message, record
<1> QED BY <1>1, <1>2, <1>3, <1>4 DEF RecvStep, TryRecv, RecvTimeout

LEMMA OtherTypes ==
    ASSUME TypeOK, TerminateMessage \/ PopStreamed \/ Poison \/ NextCall \/ GetRaw
    PROVE  TypeOK'
<1>1. CASE TerminateMessage
  BY <1>1, NoneAssumption DEF TerminateMessage, Open, TypeOK, receiver
<1>2. CASE PopStreamed \/ Poison \/ NextCall \/ GetRaw
  BY <1>2 DEF PopStreamed, Poison, NextCall, GetRaw, TypeOK, message, receiver, record
<1> QED BY <1>1, <1>2

(* While terminate_message is under way the message is complete.           *)
Ending == ending # None => end = "terminate" /\ complete_lock = "Complete"

(* The inductive form of typing.                                           *)
LEMMA TypeInit == Init => TypeOK /\ Ending
<1> SUFFICES ASSUME Init PROVE TypeOK /\ Ending
  OBVIOUS
<1>1. <<>> \in Seq(1 .. 0) /\ <<>> \in Seq(Seq(1 .. 0)) /\ << <<>> >> \in Seq(Seq(1 .. 0))
  BY EmptySeq
<1>2. Len(<<>>) = 0 /\ <<>> \in Seq(1 .. 0) /\ << <<>> >> # <<>>
  BY EmptySeq
<1> QED BY <1>1, <1>2, BoundsAssumption, NoneAssumption DEF Init, TypeOK, Ending

LEMMA TypeNext == TypeOK /\ Ending /\ [Next]_vars => TypeOK' /\ Ending'
<1> SUFFICES ASSUME TypeOK, Ending, [Next]_vars PROVE TypeOK' /\ Ending'
  OBVIOUS
<1>1. CASE UNCHANGED vars
  BY <1>1 DEF vars, message, receiver, record, TypeOK, Ending
<1>2. CASE SendMany
  BY <1>2, SendTypes DEF SendMany, Ending
<1>3. CASE TerminateChunk
  BY <1>3, ChunkTypes DEF TerminateChunk, Ending
<1>4. CASE SendEnd
  <2>1. ending = None
    BY <1>4 DEF SendEnd, Open, Ending
  <2> QED BY <1>4, <2>1, EndTypes DEF SendEnd, Ending
<1>5. CASE SendLast
  BY <1>5, LastTypes, NoneAssumption DEF SendLast, Ending
<1>6. CASE TerminateMessage \/ PopStreamed \/ Poison \/ NextCall \/ GetRaw
  BY <1>6, OtherTypes, NoneAssumption
     DEF TerminateMessage, PopStreamed, Poison, NextCall, GetRaw, Ending, message, record
<1>7. ASSUME NEW r \in Receivers, Attach(r) \/ Recv(r) \/ RecvStep(r) \/ DropReceiver(r)
      PROVE  TypeOK' /\ Ending'
  <2>1. UNCHANGED <<ending, end, complete_lock>>
    BY <1>7 DEF Attach, Recv, RecvStep, CheckLock, TryRecv, RecvTimeout, Take, DropReceiver,
                message, record
  <2> QED BY <1>7, <2>1, ReceiverTypes DEF Ending
<1> QED BY <1>1, <1>2, <1>3, <1>4, <1>5, <1>6, <1>7 DEF Next

(* Typing of the stream's state, and with it that a message has a chunk to *)
(* append to at all times.                                                 *)
THEOREM TypeCorrect == Spec => []TypeOK
BY TypeInit, TypeNext, PTL DEF Spec

-----------------------------------------------------------------------------
(* The order of chunks.  InOrder speaks of the receiver that is attached;  *)
(* to be kept it needs that a receiver not yet attached has nothing.       *)
Fresh ==
    \A r \in Receivers :
        pc[r] = "new" => got[r] = <<>> /\ channel[r] = <<>> /\ sender # r

(* A message that is gone was complete, and nothing is left to be sent.    *)
Gone == ~present => complete_lock = "Complete" /\ ending # "send"

(* A receiver that was told of the end has nothing left in its channel.    *)
EndedGone ==
    \A r \in Receivers : pc[r] = "ended" /\ sender = r => ~present /\ channel[r] = <<>>

OrderInv == TypeOK /\ Ending /\ InOrder /\ Fresh /\ Gone /\ EndedGone

(* The order at one receiver, by itself.                                   *)
OrderAt(r) ==
    /\ Reached(r) <= Len(closed)
    /\ \A i \in 1 .. Len(got[r]) : got[r][i] = closed[from[r] + i]
    /\ \A i \in 1 .. Len(channel[r]) : channel[r][i] = closed[Received(r) + i]
    /\ sender = r /\ pc[r] # "dropped" /\ end # "send" => Reached(r) = Len(closed)

(* The lengths that Received and Reached add are numbers.                  *)
LEMMA Lengths ==
    ASSUME TypeOK, NEW r \in Receivers
    PROVE  /\ from[r] \in Nat /\ Len(got[r]) \in Nat /\ Len(channel[r]) \in Nat
           /\ Len(closed) \in Nat /\ from[r] <= Len(closed)
           /\ got[r] \in Seq(Chunk) /\ channel[r] \in Seq(Chunk) /\ closed \in Seq(Chunk)
<1>1. got[r] \in Seq(Chunk) /\ channel[r] \in Seq(Chunk) /\ closed \in Seq(Chunk)
  BY DEF TypeOK, Chunk
<1>2. Len(got[r]) \in Nat /\ Len(channel[r]) \in Nat /\ Len(closed) \in Nat
  BY <1>1, LenProperties
<1>3. from[r] \in 0 .. Len(closed)
  BY DEF TypeOK
<1> QED BY <1>1, <1>2, <1>3

(* A receiver that a step does not touch stays in order when a chunk is    *)
(* closed, unless it was this receiver's.                                  *)
LEMMA OthersInOrder ==
    ASSUME TypeOK, NEW r \in Receivers, OrderAt(r),
           UNCHANGED <<from[r], got[r], channel[r]>>,
           Len(closed') \in Nat, Len(closed') >= Len(closed),
           \A j \in 1 .. Len(closed) : closed'[j] = closed[j],
           \/ ~(sender' = r /\ pc'[r] # "dropped" /\ end' # "send")
           \/ /\ Len(closed') = Len(closed)
              /\ sender = r /\ pc[r] # "dropped" /\ end # "send"
    PROVE  OrderAt(r)'
<1>1. /\ from[r] \in Nat /\ Len(got[r]) \in Nat /\ Len(channel[r]) \in Nat
      /\ Len(closed) \in Nat
  BY Lengths
<1>2. Reached(r)' = Reached(r) /\ Received(r)' = Received(r)
  BY DEF Reached, Received
<1>3. Received(r) = from[r] + Len(got[r]) /\ Reached(r) = Received(r) + Len(channel[r])
  BY DEF Reached, Received
<1>4. Received(r) \in Nat /\ Reached(r) \in Nat
  BY <1>1, <1>3
<1>5. Reached(r) <= Len(closed)
  BY DEF OrderAt
<1>6. Reached(r)' <= Len(closed')
  BY <1>1, <1>2, <1>4, <1>5
<1>7. ASSUME NEW i \in 1 .. Len(got'[r]) PROVE got'[r][i] = closed'[from'[r] + i]
  <2>1. from[r] + i \in 1 .. Len(closed)
    BY SMTT(30), <1>1, <1>3, <1>4, <1>5
  <2> QED BY <2>1 DEF OrderAt
<1>8. ASSUME NEW i \in 1 .. Len(channel'[r]) PROVE channel'[r][i] = closed'[Received(r)' + i]
  <2>1. Received(r) + i \in 1 .. Len(closed)
    BY SMTT(30), <1>1, <1>3, <1>4, <1>5
  <2> QED BY <1>2, <2>1 DEF OrderAt
<1>9. sender' = r /\ pc'[r] # "dropped" /\ end' # "send" => Reached(r)' = Len(closed')
  BY <1>2 DEF OrderAt
<1> QED BY <1>6, <1>7, <1>8, <1>9 DEF OrderAt

(* The end of a chunk keeps the order, as long as it is not by send(-1):   *)
(* the attached receiver had been sent all chunks before this one.         *)
LEMMA CloseInOrder ==
    ASSUME TypeOK, InOrder, Close, end # "send",
           UNCHANGED <<from, got, pc, end>>,
           sender' = sender \/ sender' = "dropped"
    PROVE  InOrder'
<1> SUFFICES ASSUME NEW r \in Receivers PROVE OrderAt(r)'
  BY DEF InOrder, OrderAt
<1>1. OrderAt(r)
  BY DEF InOrder, OrderAt
<1>2. /\ from[r] \in Nat /\ Len(got[r]) \in Nat /\ Len(channel[r]) \in Nat
      /\ Len(closed) \in Nat
  BY Lengths
<1>3. /\ Len(closed') = Len(closed) + 1
      /\ \A j \in 1 .. Len(closed) : closed'[j] = closed[j]
      /\ closed'[Len(closed) + 1] = Current
  BY Closes
<1>4. CASE Sends /\ r = sender
  <2>1. /\ Len(channel'[r]) = Len(channel[r]) + 1
        /\ \A i \in 1 .. Len(channel[r]) : channel'[r][i] = channel[r][i]
        /\ channel'[r][Len(channel[r]) + 1] = Current
    BY <1>4, Closes
  <2>2. Reached(r) = Len(closed)
    BY <1>1, <1>4 DEF OrderAt, Sends
  <2>3. /\ Received(r)' = Received(r) /\ Received(r) = from[r] + Len(got[r])
        /\ Reached(r)' = Received(r) + Len(channel'[r])
        /\ Reached(r) = Received(r) + Len(channel[r])
    BY DEF Reached, Received
  <2>4. Reached(r)' = Len(closed')
    BY <1>2, <1>3, <2>1, <2>2, <2>3
  <2>5. ASSUME NEW i \in 1 .. Len(got'[r]) PROVE got'[r][i] = closed'[from'[r] + i]
    <3>1. from[r] + i \in 1 .. Len(closed)
      BY <1>2, <2>2, <2>3
    <3> QED BY <1>1, <1>3, <3>1 DEF OrderAt
  <2>6. ASSUME NEW i \in 1 .. Len(channel'[r]) PROVE channel'[r][i] = closed'[Received(r)' + i]
    <3>1. CASE i = Len(channel[r]) + 1
      <4>1. Received(r) \in Nat /\ Received(r) + Len(channel[r]) = Len(closed)
        BY <1>2, <2>2, <2>3
      <4>2. Received(r) + i = Len(closed) + 1
        BY <1>2, <3>1, <4>1, Z3
      <4> QED BY <1>3, <2>1, <2>3, <3>1, <4>2
    <3>2. CASE i \in 1 .. Len(channel[r])
      <4>1. Received(r) + i \in 1 .. Len(closed)
        BY <1>2, <2>2, <2>3, <3>2
      <4> QED BY <1>1, <1>3, <2>1, <2>3, <3>2, <4>1 DEF OrderAt
    <3> QED BY <1>2, <2>1, <3>1, <3>2
  <2>7. Reached(r)' <= Len(closed')
    BY <1>2, <1>3, <2>4
  <2> QED BY <2>4, <2>5, <2>6, <2>7 DEF OrderAt
<1>5. CASE ~(Sends /\ r = sender)
  <2>1. channel'[r] = channel[r]
    BY <1>5, Closes
  <2>2. ~(sender' = r /\ pc'[r] # "dropped")
    BY <1>5, NoneAssumption DEF Sends
  <2>3. Len(closed') \in Nat /\ Len(closed') >= Len(closed)
    BY <1>2, <1>3
  <2> QED BY <1>1, <1>3, <2>1, <2>2, <2>3, OthersInOrder
<1> QED BY <1>4, <1>5

(* Taking a chunk moves it from what waits to what was given.              *)
LEMMA TakeInOrder ==
    ASSUME TypeOK, InOrder, NEW r \in Receivers, Take(r), pc[r] # "dropped"
    PROVE  InOrder'
<1> SUFFICES ASSUME NEW q \in Receivers PROVE OrderAt(q)'
  BY DEF InOrder, OrderAt
<1>1. OrderAt(q)
  BY DEF InOrder, OrderAt
<1>2. /\ from[q] \in Nat /\ Len(got[q]) \in Nat /\ Len(channel[q]) \in Nat
      /\ Len(closed) \in Nat
  BY Lengths
<1>3. UNCHANGED <<from, closed, sender, end>> /\ (pc'[q] # "dropped" => q = r \/ pc[q] # "dropped")
  BY DEF Take, Goto, TypeOK, message, record
<1>4. CASE q # r
  <2>1. UNCHANGED <<from[q], got[q], channel[q]>>
    BY <1>3, <1>4, TakeTypes
  <2>2. /\ Len(closed') \in Nat /\ Len(closed') = Len(closed)
        /\ \A j \in 1 .. Len(closed) : closed'[j] = closed[j]
        /\ sender' = sender /\ end' = end
    BY <1>2, <1>3
  <2>3. \/ ~(sender' = q /\ pc'[q] # "dropped" /\ end' # "send")
        \/ sender = q /\ pc[q] # "dropped" /\ end # "send"
    BY <1>3, <1>4
  <2> QED BY <1>1, <1>2, <2>1, <2>2, <2>3, OthersInOrder
<1>5. CASE q = r
  <2>1. /\ channel[r] \in Seq(Chunk) /\ channel[r] # <<>> /\ got[r] \in Seq(Chunk)
        /\ channel'[r] = Tail(channel[r]) /\ got'[r] = Append(got[r], Head(channel[r]))
    BY TakeTypes, Lengths
  <2>2. Len(channel'[r]) = Len(channel[r]) - 1 /\ Len(channel[r]) >= 1
    BY <2>1, HeadTailProperties, NonEmpty
  <2>3. /\ \A i \in 1 .. Len(channel'[r]) : channel'[r][i] = channel[r][i + 1]
        /\ Head(channel[r]) = channel[r][1] /\ Head(channel[r]) \in Chunk
    BY <2>1, HeadTailProperties
  <2>4. Len(got'[r]) = Len(got[r]) + 1
    BY <2>1, <2>3, Appended
  <2>5. /\ \A i \in 1 .. Len(got[r]) : got'[r][i] = got[r][i]
        /\ got'[r][Len(got[r]) + 1] = channel[r][1]
    BY <2>1, <2>3, Appended
  <2>6. /\ Received(r) = from[r] + Len(got[r]) /\ Received(r)' = from[r] + Len(got'[r])
        /\ Reached(r) = Received(r) + Len(channel[r])
        /\ Reached(r)' = Received(r)' + Len(channel'[r])
    BY <1>3 DEF Reached, Received
  <2>7. Received(r) \in Nat /\ Received(r)' = Received(r) + 1
    <3>1. from[r] \in Nat /\ Len(got[r]) \in Nat
      BY <1>2, <1>5
    <3>2. from[r] + (Len(got[r]) + 1) = (from[r] + Len(got[r])) + 1 /\ from[r] + Len(got[r]) \in Nat
      BY <3>1
    <3> QED BY <2>4, <2>6, <3>2, Zenon
  <2>8. Reached(r)' = Reached(r)
    BY SMTT(30), <1>2, <1>5, <2>2, <2>6, <2>7
  <2>9. ASSUME NEW i \in 1 .. Len(got'[r]) PROVE got'[r][i] = closed'[from'[r] + i]
    <3>1. CASE i \in 1 .. Len(got[r])
      BY <1>1, <1>3, <1>5, <2>5, <3>1 DEF OrderAt
    <3>2. CASE i = Len(got[r]) + 1
      <4>1. 1 \in 1 .. Len(channel[r])
        BY <1>2, <1>5, <2>2
      <4>2. from[r] + i = Received(r) + 1
        BY <1>2, <1>5, <2>6, <3>2
      <4> QED BY <1>1, <1>3, <1>5, <2>5, <3>2, <4>1, <4>2 DEF OrderAt
    <3> QED BY <1>2, <1>5, <2>4, <3>1, <3>2
  <2>10. ASSUME NEW i \in 1 .. Len(channel'[r])
         PROVE  channel'[r][i] = closed'[Received(r)' + i]
    <3>1. i + 1 \in 1 .. Len(channel[r])
      BY <1>2, <1>5, <2>2
    <3>2. Received(r)' + i = Received(r) + (i + 1)
      BY <2>7
    <3> QED BY <1>1, <1>3, <1>5, <2>3, <3>1, <3>2 DEF OrderAt
  <2>11. Reached(r) <= Len(closed)
    BY <1>1, <1>5 DEF OrderAt
  <2>12. sender = r /\ pc[r] # "dropped" /\ end # "send" => Reached(r) = Len(closed)
    BY <1>1, <1>5 DEF OrderAt
  <2> QED BY <1>3, <1>5, <2>8, <2>9, <2>10, <2>11, <2>12 DEF OrderAt
<1> QED BY <1>4, <1>5

(* A receiver that is attached is to be sent what is closed from now on.   *)
LEMMA AttachInOrder ==
    ASSUME TypeOK, InOrder, Fresh, NEW r \in Receivers, Attach(r)
    PROVE  InOrder'
<1> SUFFICES ASSUME NEW q \in Receivers PROVE OrderAt(q)'
  BY DEF InOrder, OrderAt
<1>1. OrderAt(q)
  BY DEF InOrder, OrderAt
<1>2. /\ UNCHANGED <<got, channel, closed, end>> /\ sender' = r
      /\ from' = [from EXCEPT ![r] = Len(closed)] /\ Len(closed) \in Nat
  BY LenProperties DEF Attach, TypeOK, record
<1>3. CASE q = r
  <2>1. /\ from'[r] = Len(closed)
        /\ got'[r] = <<>> /\ channel'[r] = <<>>
    BY <1>2 DEF Attach, Fresh, TypeOK
  <2>2. Len(<<>>) = 0
    BY EmptySeq
  <2>3. Received(r)' = Len(closed) /\ Reached(r)' = Len(closed')
    BY <1>2, <2>1, <2>2 DEF Received, Reached
  <2>4. /\ \A i \in 1 .. Len(got'[r]) : FALSE
        /\ \A i \in 1 .. Len(channel'[r]) : FALSE
    BY <2>1, <2>2
  <2>5. Reached(r)' <= Len(closed')
    BY <1>2, <2>3
  <2> QED BY <1>3, <2>3, <2>4, <2>5 DEF OrderAt
<1>4. CASE q # r
  <2>1. UNCHANGED <<from[q], got[q], channel[q]>>
    BY <1>2, <1>4 DEF TypeOK
  <2>2. /\ Len(closed') \in Nat /\ Len(closed') >= Len(closed)
        /\ \A j \in 1 .. Len(closed) : closed'[j] = closed[j]
    BY <1>2
  <2> QED BY <1>1, <1>2, <1>4, <2>1, <2>2, OthersInOrder
<1> QED BY <1>3, <1>4

(* What send(-1) closes goes to no receiver.                               *)
LEMMA EndInOrder ==
    ASSUME TypeOK, InOrder, SendEnd
    PROVE  InOrder'
<1> SUFFICES ASSUME NEW q \in Receivers PROVE OrderAt(q)'
  BY DEF InOrder, OrderAt
<1>1. OrderAt(q)
  BY DEF InOrder, OrderAt
<1>2. UNCHANGED <<got, channel, from>> /\ end' = "send"
  BY DEF SendEnd, receiver
<1>3. closed \in Seq(Chunk) /\ Len(closed) \in Nat /\ Current \in Chunk
  BY Lengths, EarlierChunks
<1>4. /\ Len(closed') \in Nat /\ Len(closed') >= Len(closed)
      /\ \A j \in 1 .. Len(closed) : closed'[j] = closed[j]
  BY <1>3, Appended DEF SendEnd
<1> QED BY <1>1, <1>2, <1>4, OthersInOrder

(* Steps that change neither chunks closed, nor who was given which.       *)
LEMMA QuietInOrder ==
    /\ InOrder
    /\ closed' = closed /\ channel' = channel /\ from' = from /\ got' = got /\ sender' = sender
    /\ end' = end \/ (end' = "terminate" /\ end # "send")
    /\ \A r \in Receivers : pc'[r] # "dropped" => pc[r] # "dropped"
    => InOrder'
BY DEF InOrder, Reached, Received

(* No chunk has been closed, and nobody has been given one.                *)
LEMMA OrderInit == Init => OrderInv
<1> SUFFICES ASSUME Init PROVE OrderInv
  OBVIOUS
<1>1. Len(<<>>) = 0
  BY EmptySeq
<1>2. ASSUME NEW r \in Receivers PROVE OrderAt(r)
  <2>1. from[r] = 0 /\ got[r] = <<>> /\ channel[r] = <<>> /\ closed = <<>> /\ sender # r
    BY NoneAssumption DEF Init
  <2>2. Received(r) = 0 /\ Reached(r) = 0
    BY <1>1, <2>1 DEF Received, Reached
  <2>3. Reached(r) <= Len(closed)
    BY <1>1, <2>1, <2>2
  <2> QED BY <1>1, <2>1, <2>3 DEF OrderAt
<1>3. InOrder
  BY <1>2 DEF InOrder, OrderAt
<1>4. Fresh /\ Gone /\ EndedGone
  BY NoneAssumption DEF Init, Fresh, Gone, EndedGone
<1> QED BY <1>3, <1>4, TypeInit DEF OrderInv

(* One case for each action.                                               *)
LEMMA OrderNext == OrderInv /\ [Next]_vars => OrderInv'
<1> SUFFICES ASSUME OrderInv, [Next]_vars PROVE OrderInv'
  OBVIOUS
<1> USE DEF OrderInv
<1>1. TypeOK' /\ Ending'
  BY TypeNext
<1>2. CASE UNCHANGED vars
  <2>1. UNCHANGED <<closed, channel, from, got, sender>> /\ UNCHANGED end /\ UNCHANGED pc
    BY <1>2 DEF vars, message, receiver, record
  <2>2. InOrder'
    BY <2>1, QuietInOrder
  <2> QED BY <1>1, <1>2, <2>2 DEF vars, message, receiver, record, Fresh, Gone, EndedGone
<1>3. CASE SendMany
  <2>1. UNCHANGED <<closed, channel, from, got, sender>> /\ UNCHANGED end /\ UNCHANGED pc
    BY <1>3 DEF SendMany, receiver
  <2>2. InOrder'
    BY <2>1, QuietInOrder
  <2> QED BY <1>1, <1>3, <2>2 DEF SendMany, receiver, Fresh, Gone, EndedGone
<1>4. CASE TerminateChunk \/ SendLast
  <2>1. /\ Close /\ UNCHANGED <<from, got, pc, end, present, complete_lock>>
        /\ sender' = sender \/ sender' = "dropped"
        /\ present
    BY <1>4 DEF TerminateChunk, SendLast, Open, Gone
  <2>2. end # "send"
    BY <1>4, NoneAssumption DEF TerminateChunk, SendLast, Open, TypeOK, Ending
  <2>3. InOrder'
    BY <2>1, <2>2, CloseInOrder
  <2>4. Fresh'
    BY <2>1, Closes, NoneAssumption DEF Fresh, Sends
  <2>5. Gone' /\ EndedGone'
    BY <2>1, NoneAssumption DEF Gone, EndedGone
  <2> QED BY <1>1, <2>3, <2>4, <2>5
<1>5. CASE SendEnd
  <2>1. InOrder'
    BY <1>5, EndInOrder
  <2> QED BY <1>1, <1>5, <2>1 DEF SendEnd, Open, receiver, Fresh, Gone, EndedGone
<1>6. CASE TerminateMessage \/ PopStreamed \/ Poison \/ NextCall \/ GetRaw
  <2>1. /\ UNCHANGED <<closed, channel, from, got, sender, pc>>
        /\ end' = end \/ (end' = "terminate" /\ end # "send")
    BY <1>6, NoneAssumption DEF TerminateMessage, PopStreamed, Poison, NextCall, GetRaw,
                                Open, TypeOK, message, receiver, record
  <2>2. InOrder'
    BY <2>1, QuietInOrder
  <2>3. Fresh'
    BY <2>1 DEF Fresh
  <2>4. Gone'
    BY <1>6, NoneAssumption DEF TerminateMessage, PopStreamed, Poison, NextCall, GetRaw,
                                Open, Free, Gone, Ending, message
  <2>5. EndedGone'
    BY <1>6, <2>1 DEF TerminateMessage, PopStreamed, Poison, NextCall, GetRaw,
                      Open, EndedGone, message
  <2> QED BY <1>1, <2>2, <2>3, <2>4, <2>5
<1>7. ASSUME NEW r \in Receivers, Attach(r) PROVE OrderInv'
  <2>1. InOrder'
    BY <1>7, AttachInOrder
  <2>2. pc' = [pc EXCEPT ![r] = "ready"] /\ sender' = r /\ present
        /\ UNCHANGED <<present, complete_lock, ending, channel, got>>
    BY <1>7 DEF Attach, Free
  <2> QED BY <1>1, <2>1, <2>2 DEF Fresh, Gone, EndedGone, TypeOK
<1>8. ASSUME NEW r \in Receivers, Take(r), pc[r] \in {"try", "wait"} PROVE OrderInv'
  <2>1. InOrder'
    BY <1>8, TakeInOrder
  <2>2. /\ pc' = [pc EXCEPT ![r] = "ready"]
        /\ UNCHANGED <<sender, present, complete_lock, ending>>
    BY <1>8 DEF Take, Goto, message
  <2>3. \A q \in Receivers \ {r} : channel'[q] = channel[q] /\ got'[q] = got[q]
    BY <1>8, TakeTypes
  <2>4. /\ pc'[r] = "ready"
        /\ \A q \in Receivers \ {r} : pc'[q] = pc[q]
    BY <2>2 DEF TypeOK
  <2>5. Fresh'
    BY <1>8, <2>2, <2>3, <2>4 DEF Fresh
  <2>6. Gone' /\ EndedGone'
    BY <1>8, <2>2, <2>3, <2>4 DEF Gone, EndedGone
  <2> QED BY <1>1, <2>1, <2>5, <2>6
<1>9. ASSUME NEW r \in Receivers,
             Recv(r) \/ CheckLock(r) \/ RecvStep(r) \/ DropReceiver(r), ~Take(r)
      PROVE  OrderInv'
  <2>1. UNCHANGED <<message, channel, from, got, record>>
    BY <1>9 DEF Recv, RecvStep, CheckLock, TryRecv, RecvTimeout, DropReceiver
  <2>2. PICK where \in {"check", "try", "wait", "failed", "ended", "dropped"} :
            /\ Goto(r, where)
            /\ where = "ended" => Disconnected(r) /\ channel[r] = <<>>
            /\ pc[r] \notin {"new", "dropped"}
    <3>1. CASE Recv(r)
      BY <3>1 DEF Recv
    <3>2. CASE DropReceiver(r)
      BY <3>2 DEF DropReceiver
    <3>3. CASE CheckLock(r)
      BY <3>3 DEF CheckLock
    <3>4. CASE TryRecv(r)
      BY <1>9, <3>4 DEF TryRecv
    <3>5. CASE RecvTimeout(r)
      BY <1>9, <3>5 DEF RecvTimeout
    <3> QED BY <1>9, <3>1, <3>2, <3>3, <3>4, <3>5 DEF RecvStep
  <2>3. pc' = [pc EXCEPT ![r] = where]
    BY <2>2 DEF Goto
  <2>4. InOrder'
    <3>1. UNCHANGED <<closed, channel, from, got, sender>> /\ UNCHANGED end
      BY <2>1 DEF message, record
    <3>2. \A q \in Receivers : pc'[q] # "dropped" => pc[q] # "dropped"
      BY <2>2, <2>3 DEF TypeOK
    <3> QED BY <3>1, <3>2, QuietInOrder
  <2>5. Fresh' /\ Gone'
    BY <2>1, <2>2, <2>3 DEF message, Fresh, Gone, TypeOK
  <2>6. EndedGone'
    BY <2>1, <2>2, <2>3 DEF message, EndedGone, Disconnected, TypeOK
  <2> QED BY <1>1, <2>4, <2>5, <2>6
<1>10. ASSUME NEW r \in Receivers, RecvStep(r), Take(r) PROVE pc[r] \in {"try", "wait"}
  <2>1. CASE CheckLock(r)
    <3>1. pc'[r] # "ready" /\ pc'[r] = "ready"
      BY <1>10, <2>1 DEF CheckLock, Take, Goto, TypeOK
    <3> QED BY <3>1
  <2> QED BY <1>10, <2>1 DEF RecvStep, TryRecv, RecvTimeout
<1>11. ASSUME NEW r \in Receivers, Recv(r) \/ DropReceiver(r) PROVE ~Take(r)
  BY <1>11 DEF Recv, DropReceiver, Take, Goto, TypeOK
<1> QED BY <1>2, <1>3, <1>4, <1>5, <1>6, <1>7, <1>8, <1>9, <1>10, <1>11 DEF Next

(* OrderInv is inductive.                                                  *)
LEMMA Order == Spec => []OrderInv
BY OrderInit, OrderNext, PTL DEF Spec

(* A receiver is given the chunks closed since it was attached, in order   *)
(* and without a gap, whatever the source, the wire and other receivers do *)
(* in between.                                                             *)
THEOREM InOrderHolds == Spec => []InOrder
BY Order, PTL DEF OrderInv

(* The end of the channel is the end of the message: a receiver that is    *)
(* told of it has been given everything.                                   *)
THEOREM EndIsCompleteHolds == Spec => []EndIsComplete
<1>1. OrderInv => EndIsComplete
  <2> SUFFICES ASSUME OrderInv, NEW r \in Receivers,
                      pc[r] = "ended", sender = r, end # "send"
               PROVE  end = "terminate" /\ Received(r) = Len(closed)
    BY DEF EndIsComplete
  <2>1. channel[r] = <<>> /\ complete_lock = "Complete"
    BY DEF OrderInv, EndedGone, Gone
  <2>2. end = "terminate"
    BY <2>1 DEF OrderInv, TypeOK
  <2>3. Reached(r) = Len(closed) /\ Reached(r) = Received(r) + Len(channel[r])
    BY DEF OrderInv, InOrder, Reached
  <2>4. Received(r) \in Nat /\ Len(channel[r]) = 0
    <3>1. Received(r) = from[r] + Len(got[r]) /\ from[r] \in Nat /\ Len(got[r]) \in Nat
      BY Lengths DEF OrderInv, Received
    <3> QED BY <2>1, <3>1, EmptySeq
  <2> QED BY <2>2, <2>3, <2>4
<1> QED BY <1>1, Order, PTL

(* A receiver that fails for a poisoned lock has been given everything     *)
(* that was closed.                                                        *)
THEOREM FailsDrainedHolds == Spec => FailsDrained
<1> DEFINE Drains == \A r \in Receivers :
        pc[r] = "try" /\ pc'[r] = "failed" /\ sender = r /\ end # "send" =>
            Received(r) = Len(closed)
<1>1. OrderInv /\ [Next]_vars => [Drains]_vars
  <2> SUFFICES ASSUME OrderInv, Next, NEW r \in Receivers,
                      pc[r] = "try", pc'[r] = "failed", sender = r, end # "send"
               PROVE  Received(r) = Len(closed)
    OBVIOUS
  <2>1. channel[r] = <<>>
    BY DEF Next, OrderInv, TypeOK, SendMany, TerminateChunk, SendEnd, TerminateMessage, SendLast,
           PopStreamed, Poison, NextCall, GetRaw, Attach, Recv, RecvStep, CheckLock, TryRecv,
           RecvTimeout, Take, DropReceiver, Goto, receiver
  <2>2. Reached(r) = Len(closed) /\ Reached(r) = Received(r) + Len(channel[r])
    BY DEF OrderInv, InOrder, Reached
  <2>3. Received(r) \in Nat /\ Len(channel[r]) = 0
    <3>1. Received(r) = from[r] + Len(got[r]) /\ from[r] \in Nat /\ Len(got[r]) \in Nat
      BY Lengths DEF OrderInv, Received
    <3> QED BY <2>1, <3>1, EmptySeq
  <2> QED BY <2>2, <2>3
<1> QED BY <1>1, Order, PTL DEF Spec, FailsDrained

-----------------------------------------------------------------------------
(* Where chunks are.  While the message can be written to, its last chunk  *)
(* is the one that has not ended, and what is before it was kept; once it  *)
(* has been taken out nothing of it changes.                               *)
Unfinished ==
    complete_lock # "Complete" \/ ending = "send" => Len(chunks) = Len(kept) + 1

TakenGone == taken # None => ~present /\ taken = chunks

KeptInOrder ==
    /\ \A i \in 1 .. Len(kept) : i <= Len(chunks) /\ chunks[i] = closed[kept[i]]
    /\ \A i, j \in 1 .. Len(kept) : i < j => kept[i] < kept[j]

IsKept(j) == \E i \in 1 .. Len(kept) : kept[i] = j
IsSent(j) == \E r \in Receivers : from[r] < j /\ j <= Reached(r)
Somewhere == \A j \in 1 .. Len(closed) : IsKept(j) \/ IsSent(j)

StoreInv == OrderInv /\ Unfinished /\ TakenGone /\ KeptInOrder /\ Somewhere

(* The numbers the store invariant counts with.                            *)
LEMMA KeptLengths ==
    ASSUME TypeOK
    PROVE  /\ Len(kept) \in Nat /\ Len(closed) \in Nat /\ Len(chunks) \in Nat
           /\ Len(chunks) >= 1
           /\ \A i \in 1 .. Len(kept) : kept[i] \in 1 .. Len(closed)
<1>1. /\ kept \in Seq(1 .. Len(closed)) /\ closed \in Seq(Chunk)
      /\ chunks \in Seq(Chunk) /\ chunks # <<>>
  BY DEF TypeOK, Chunk
<1> QED BY <1>1, LenProperties, ElementOfSeq, NonEmpty

(* A closed chunk that stays in the message is kept in its place.          *)
LEMMA Keeps ==
    ASSUME StoreInv, NEW n, n = Len(closed), complete_lock # "Complete" \/ ending = "send",
           kept' = Append(kept, n + 1), Len(closed') = n + 1,
           \A j \in 1 .. n : closed'[j] = closed[j], closed'[n + 1] = Current,
           Len(chunks') \in Nat, Len(chunks') >= Len(chunks),
           \A i \in 1 .. Len(chunks) : chunks'[i] = chunks[i]
    PROVE  KeptInOrder' /\ IsKept(n + 1)' /\ \A j : IsKept(j) => IsKept(j)'
<1>1. TypeOK
  BY DEF StoreInv, OrderInv
<1>2. /\ Len(kept) \in Nat /\ n \in Nat /\ Len(chunks) \in Nat /\ Len(chunks) = Len(kept) + 1
      /\ \A i \in 1 .. Len(kept) : kept[i] \in 1 .. n
  BY <1>1, KeptLengths DEF StoreInv, Unfinished
<1>3. kept \in Seq(Nat) /\ n + 1 \in Nat
  <2>1. kept \in Seq(1 .. n) /\ 1 .. n \subseteq Nat
    BY <1>1, <1>2 DEF TypeOK
  <2> QED BY <1>2, <2>1, SeqMonotonic
<1>4. /\ Len(kept') = Len(kept) + 1
      /\ \A i \in 1 .. Len(kept) : kept'[i] = kept[i]
      /\ kept'[Len(kept) + 1] = n + 1
  BY <1>3, Appended
<1>5. \A i \in 1 .. Len(kept') : i \in 1 .. Len(kept) \/ i = Len(kept) + 1
  BY <1>2, <1>4
<1>6. ASSUME NEW i \in 1 .. Len(kept')
      PROVE  i <= Len(chunks') /\ chunks'[i] = closed'[kept'[i]]
  <2>1. i \in 1 .. Len(chunks) /\ i <= Len(chunks')
    BY <1>2, <1>4
  <2>2. CASE i \in 1 .. Len(kept)
    BY <1>2, <1>4, <2>1, <2>2 DEF StoreInv, KeptInOrder
  <2>3. CASE i = Len(kept) + 1
    <3>1. chunks[i] = Current
      BY <1>2, <2>3 DEF Current
    <3> QED BY <1>4, <2>1, <2>3, <3>1
  <2> QED BY <1>5, <2>2, <2>3
<1>7. ASSUME NEW i \in 1 .. Len(kept'), NEW j \in 1 .. Len(kept'), i < j
      PROVE  kept'[i] < kept'[j]
  <2>1. i \in 1 .. Len(kept)
    BY <1>2, <1>4, <1>7
  <2>2. CASE j \in 1 .. Len(kept)
    BY <1>4, <1>7, <2>1, <2>2 DEF StoreInv, KeptInOrder
  <2>3. CASE j = Len(kept) + 1
    <3>1. kept'[i] \in 1 .. n /\ kept'[j] = n + 1
      BY <1>2, <1>4, <2>1, <2>3
    <3> QED BY <1>2, <3>1
  <2> QED BY <1>5, <2>2, <2>3
<1>8. IsKept(n + 1)'
  <2>1. Len(kept) + 1 \in 1 .. Len(kept')
    BY <1>2, <1>4
  <2> QED BY <1>4, <2>1 DEF IsKept
<1>9. ASSUME NEW j, IsKept(j) PROVE IsKept(j)'
  <2>1. PICK i \in 1 .. Len(kept) : kept[i] = j
    BY <1>9 DEF IsKept
  <2>2. i \in 1 .. Len(kept') /\ kept'[i] = j
    BY <1>2, <1>4, <2>1
  <2> QED BY <2>2 DEF IsKept
<1> QED BY <1>6, <1>7, <1>8, <1>9 DEF KeptInOrder

(* A chunk that was sent to a receiver stays sent, as long as no receiver  *)
(* that was sent anything is attached anew.                                *)
LEMMA StaysSent ==
    ASSUME TypeOK, NEW j,
           \A r \in Receivers : from'[r] = from[r] /\ Reached(r)' \in Nat /\ Reached(r)' >= Reached(r),
           IsSent(j), j \in Nat
    PROVE  IsSent(j)'
<1>1. PICK r \in Receivers : from[r] < j /\ j <= Reached(r)
  BY DEF IsSent
<1>2. Reached(r) \in Nat
  <2>1. /\ from[r] \in Nat /\ Len(got[r]) \in Nat /\ Len(channel[r]) \in Nat
    BY Lengths
  <2>2. Received(r) \in Nat
    BY <2>1 DEF Received
  <2> QED BY <2>1, <2>2 DEF Reached
<1>3. from'[r] < j /\ j <= Reached(r)'
  BY <1>1, <1>2
<1> QED BY <1>3 DEF IsSent

(* A chunk that is closed is sent, or kept as the last in the message.     *)
LEMMA CloseKeeps ==
    ASSUME StoreInv, Close, complete_lock # "Complete" \/ ending = "send",
           UNCHANGED <<from, got>>,
           Len(chunks') \in Nat, Len(chunks') >= Len(chunks),
           \A i \in 1 .. Len(chunks) - 1 : chunks'[i] = chunks[i],
           ~Sends => chunks'[Len(chunks)] = chunks[Len(chunks)]
    PROVE  KeptInOrder' /\ Somewhere'
<1>1. TypeOK /\ InOrder
  BY DEF StoreInv, OrderInv
<1>2. /\ Len(kept) \in Nat /\ Len(closed) \in Nat /\ Len(chunks) \in Nat
      /\ Len(chunks) = Len(kept) + 1
      /\ \A i \in 1 .. Len(kept) : kept[i] \in 1 .. Len(closed)
  BY <1>1, KeptLengths DEF StoreInv, Unfinished
<1>3. /\ Len(closed') = Len(closed) + 1
      /\ \A j \in 1 .. Len(closed) : closed'[j] = closed[j]
      /\ closed'[Len(closed) + 1] = Current
  BY <1>1, Closes
<1>4. ASSUME NEW r \in Receivers
      PROVE  from'[r] = from[r] /\ Reached(r)' \in Nat /\ Reached(r)' >= Reached(r)
  <2>1. from[r] \in Nat /\ Len(got[r]) \in Nat /\ Len(channel[r]) \in Nat
    BY <1>1, Lengths
  <2>2. Received(r)' = Received(r) /\ Received(r) \in Nat
    BY <2>1 DEF Received
  <2>3. Len(channel'[r]) = Len(channel[r]) \/ Len(channel'[r]) = Len(channel[r]) + 1
    BY <1>1, Closes
  <2> QED BY SMTT(30), <2>1, <2>2, <2>3 DEF Reached
<1>5. \A j \in 1 .. Len(closed) : IsSent(j) => IsSent(j)'
  BY <1>1, <1>4, StaysSent
<1>6. PICK n \in Nat : n = Len(closed)
  BY <1>2
<1>7. ASSUME IsKept(n + 1)' \/ IsSent(n + 1)', \A j : IsKept(j) => IsKept(j)' PROVE Somewhere'
  <2> SUFFICES ASSUME NEW j \in 1 .. Len(closed') PROVE IsKept(j)' \/ IsSent(j)'
    BY DEF Somewhere
  <2>1. j \in 1 .. Len(closed) \/ j = n + 1
    BY <1>3, <1>6
  <2> QED BY <1>5, <1>7, <2>1 DEF StoreInv, Somewhere
<1>8. CASE Sends
  <2>1. kept' = kept
    BY <1>1, <1>8, Closes
  <2>2. KeptInOrder'
    <3>1. \A i \in 1 .. Len(kept) : i <= Len(chunks') /\ i \in 1 .. Len(chunks) - 1
      BY <1>2
    <3> QED BY <1>2, <1>3, <2>1, <3>1 DEF StoreInv, KeptInOrder
  <2>3. PICK r \in Receivers : r = sender
    BY <1>1, <1>8, Closes
  <2>4. IsSent(n + 1)'
    <3>1. Len(channel'[r]) = Len(channel[r]) + 1 /\ pc[r] # "dropped"
      BY <1>1, <1>8, <2>3, Closes DEF Sends
    <3>2. end # "send"
      BY <1>1, NoneAssumption DEF StoreInv, OrderInv, TypeOK, Ending
    <3>3. Reached(r) = n
      BY <1>1, <1>6, <2>3, <3>1, <3>2 DEF InOrder
    <3>4. /\ from[r] \in Nat /\ Len(got[r]) \in Nat /\ Len(channel[r]) \in Nat
          /\ from[r] <= n
      BY <1>1, <1>6, Lengths
    <3>5. Received(r) \in Nat /\ Received(r)' = Received(r)
      BY <3>4 DEF Received
    <3>6. Reached(r)' = n + 1
      <4>1. /\ Reached(r) = Received(r) + Len(channel[r])
            /\ Reached(r)' = Received(r)' + Len(channel'[r])
        BY DEF Reached
      <4> QED BY <3>1, <3>3, <3>4, <3>5, <4>1
    <3>7. from'[r] < n + 1 /\ n + 1 <= Reached(r)'
      BY <3>4, <3>6
    <3> QED BY <3>7 DEF IsSent
  <2>5. \A j : IsKept(j) => IsKept(j)'
    BY <2>1 DEF IsKept
  <2> QED BY <1>7, <2>2, <2>4, <2>5
<1>9. CASE ~Sends
  <2>1. kept' = Append(kept, n + 1)
    BY <1>1, <1>6, <1>9, Closes
  <2>2. \A i \in 1 .. Len(chunks) : chunks'[i] = chunks[i]
    <3>1. \A i \in 1 .. Len(chunks) : i \in 1 .. Len(chunks) - 1 \/ i = Len(chunks)
      BY <1>2
    <3> QED BY <1>9, <3>1
  <2>3. /\ KeptInOrder' /\ IsKept(n + 1)'
        /\ \A j : IsKept(j) => IsKept(j)'
    BY <1>2, <1>3, <1>6, <2>1, <2>2, Keeps
  <2> QED BY <1>7, <2>3
<1> QED BY <1>8, <1>9

(* The chunk that send(-1) ends stays in the message.                      *)
LEMMA EndKeeps ==
    ASSUME StoreInv, SendEnd
    PROVE  KeptInOrder' /\ Somewhere'
<1>1. TypeOK /\ complete_lock # "Complete"
  BY DEF StoreInv, OrderInv, SendEnd, Open
<1>2. PICK n \in Nat : n = Len(closed)
  BY <1>1, KeptLengths
<1>3. /\ kept' = Append(kept, n + 1) /\ chunks' = chunks
      /\ UNCHANGED <<from, got, channel>>
  BY <1>2 DEF SendEnd, receiver
<1>4. /\ Len(closed') = n + 1 /\ closed'[n + 1] = Current
      /\ \A j \in 1 .. n : closed'[j] = closed[j]
  <2>1. closed \in Seq(Chunk) /\ Current \in Chunk
    BY <1>1, EarlierChunks DEF TypeOK, Chunk
  <2> QED BY <1>2, <2>1, Appended DEF SendEnd
<1>5. Len(chunks') \in Nat /\ Len(chunks') >= Len(chunks)
  BY <1>1, <1>3, KeptLengths
<1>6. KeptInOrder' /\ IsKept(n + 1)' /\ \A j : IsKept(j) => IsKept(j)'
  BY <1>1, <1>2, <1>3, <1>4, <1>5, Keeps
<1>7. \A j : IsSent(j) => IsSent(j)'
  BY <1>3 DEF IsSent, Reached, Received
<1>8. \A j \in 1 .. Len(closed') : j \in 1 .. Len(closed) \/ j = n + 1
  BY <1>2, <1>4
<1> QED BY <1>6, <1>7, <1>8 DEF StoreInv, Somewhere

(* Steps that close nothing.                                               *)
LEMMA QuietKeeps ==
    ASSUME StoreInv, UNCHANGED <<closed, kept>>,
           Len(chunks') = Len(chunks), \A i \in 1 .. Len(kept) : chunks'[i] = chunks[i],
           \A j \in 1 .. Len(closed) : IsSent(j) => IsSent(j)'
    PROVE  KeptInOrder' /\ Somewhere'
<1>1. KeptInOrder'
  BY DEF StoreInv, KeptInOrder
<1>2. \A j : IsKept(j) => IsKept(j)'
  BY DEF IsKept
<1> QED BY <1>1, <1>2 DEF StoreInv, Somewhere

(* Attaching closes nothing and sends nothing.                             *)
LEMMA AttachKeeps ==
    ASSUME StoreInv, NEW r \in Receivers, Attach(r)
    PROVE  KeptInOrder' /\ Somewhere'
<1>1. TypeOK /\ Fresh
  BY DEF StoreInv, OrderInv
<1>2. /\ UNCHANGED <<closed, kept, chunks, got, channel>>
      /\ \A q \in Receivers \ {r} : from'[q] = from[q]
  BY <1>1 DEF Attach, TypeOK, record
<1>3. ASSUME NEW j \in 1 .. Len(closed), IsSent(j) PROVE IsSent(j)'
  <2>1. PICK q \in Receivers : from[q] < j /\ j <= Reached(q)
    BY <1>3 DEF IsSent
  <2>2. q # r
    <3>1. from[r] \in Nat /\ got[r] = <<>> /\ channel[r] = <<>> /\ Len(<<>>) = 0
      BY <1>1, Lengths, EmptySeq DEF Attach, Fresh
    <3>2. Reached(r) = from[r]
      BY <3>1 DEF Reached, Received
    <3>3. j \in Nat
      BY <1>1, KeptLengths
    <3> QED BY <2>1, <3>1, <3>2, <3>3
  <2>3. from'[q] = from[q] /\ Reached(q)' = Reached(q)
    BY <1>2, <2>2 DEF Reached, Received
  <2> QED BY <2>1, <2>3 DEF IsSent
<1> QED BY <1>2, <1>3, QuietKeeps

(* Taking a chunk leaves it among those sent.                              *)
LEMMA TakeKeeps ==
    ASSUME StoreInv, NEW r \in Receivers, Take(r)
    PROVE  KeptInOrder' /\ Somewhere'
<1>1. TypeOK
  BY DEF StoreInv, OrderInv
<1>2. UNCHANGED <<closed, kept, chunks, from>>
  BY DEF Take, message, record
<1>3. ASSUME NEW q \in Receivers PROVE Reached(q)' = Reached(q) /\ Reached(q) \in Nat
  <2>1. from[q] \in Nat /\ Len(got[q]) \in Nat /\ Len(channel[q]) \in Nat
    BY <1>1, Lengths
  <2>2. Received(q) = from[q] + Len(got[q]) /\ Received(q)' = from[q] + Len(got'[q])
    BY <1>2 DEF Received
  <2>3. Reached(q) = Received(q) + Len(channel[q]) /\ Reached(q)' = Received(q)' + Len(channel'[q])
    BY DEF Reached
  <2>4. CASE q # r
    BY <1>1, <2>1, <2>2, <2>3, <2>4, TakeTypes
  <2>5. CASE q = r
    <3>1. /\ channel[r] \in Seq(Chunk) /\ channel[r] # <<>> /\ got[r] \in Seq(Chunk)
          /\ channel'[r] = Tail(channel[r]) /\ got'[r] = Append(got[r], Head(channel[r]))
      BY <1>1, TakeTypes, Lengths
    <3>2. Len(channel'[r]) = Len(channel[r]) - 1 /\ Head(channel[r]) \in Chunk
      BY <3>1, HeadTailProperties
    <3>3. Len(got'[r]) = Len(got[r]) + 1
      BY <3>1, <3>2, Appended
    <3>4. Received(q)' = Received(q) + 1 /\ Received(q) \in Nat
      BY <2>1, <2>2, <2>5, <3>3
    <3>5. /\ (Received(q) + 1) + (Len(channel[q]) - 1) = Received(q) + Len(channel[q])
          /\ Received(q) + Len(channel[q]) \in Nat
      BY <2>1, <3>4
    <3> QED BY <2>3, <2>5, <3>2, <3>4, <3>5, Zenon
  <2> QED BY <2>4, <2>5
<1>4. ASSUME NEW j \in 1 .. Len(closed), IsSent(j) PROVE IsSent(j)'
  BY <1>2, <1>3, <1>4 DEF IsSent
<1> QED BY <1>2, <1>4, QuietKeeps

(* Bytes are appended to the last chunk, which is not kept yet.            *)
LEMMA SendManyKeeps ==
    ASSUME StoreInv, SendMany
    PROVE  KeptInOrder' /\ Somewhere'
<1>1. TypeOK /\ complete_lock # "Complete"
  BY DEF StoreInv, OrderInv, SendMany, Open
<1>2. /\ Len(kept) \in Nat /\ Len(chunks) \in Nat /\ Len(chunks) = Len(kept) + 1
      /\ chunks \in Seq(Chunk)
  BY <1>1, KeptLengths DEF StoreInv, Unfinished, TypeOK, Chunk
<1>3. /\ Len(chunks') = Len(chunks)
      /\ \A i \in 1 .. Len(chunks) : i # Len(chunks) => chunks'[i] = chunks[i]
  BY <1>2 DEF SendMany
<1>4. \A i \in 1 .. Len(kept) : i \in 1 .. Len(chunks) /\ i # Len(chunks)
  BY <1>2
<1>5. UNCHANGED <<closed, kept, channel, got, from>>
  BY DEF SendMany, receiver
<1>6. \A j \in 1 .. Len(closed) : IsSent(j) => IsSent(j)'
  BY <1>5 DEF IsSent, Reached, Received
<1> QED BY <1>3, <1>4, <1>5, <1>6, QuietKeeps

(* At first there is one chunk, and it is not closed.                      *)
LEMMA StoreInit == Init => StoreInv
<1> SUFFICES ASSUME Init PROVE StoreInv
  OBVIOUS
<1>1. Len(<<>>) = 0 /\ Len(<< <<>> >>) = 1
  BY EmptySeq
<1>2. Unfinished /\ TakenGone
  BY <1>1 DEF Init, Unfinished, TakenGone
<1>3. KeptInOrder /\ Somewhere
  BY <1>1 DEF Init, KeptInOrder, Somewhere
<1> QED BY <1>2, <1>3, OrderInit DEF StoreInv

(* One case for each action.                                               *)
LEMMA StoreNext == StoreInv /\ [Next]_vars => StoreInv'
<1> SUFFICES ASSUME StoreInv, [Next]_vars PROVE StoreInv'
  OBVIOUS
<1>1. OrderInv' /\ TypeOK /\ Ending /\ Gone
  BY OrderNext DEF StoreInv, OrderInv
<1>2. /\ Len(kept) \in Nat /\ Len(chunks) \in Nat /\ Len(closed) \in Nat /\ Len(chunks) >= 1
  BY <1>1, KeptLengths
<1>3. CASE SendMany
  <2>1. /\ UNCHANGED <<kept, complete_lock, ending, present, taken>> /\ present
        /\ Len(chunks') = Len(chunks)
    BY <1>1, <1>3 DEF SendMany, Open, TypeOK
  <2> QED BY <1>1, <1>3, <2>1, SendManyKeeps DEF StoreInv, Unfinished, TakenGone
<1>4. CASE TerminateChunk \/ SendLast
  <2>1. /\ Close /\ UNCHANGED <<from, got, taken, present>> /\ present
        /\ complete_lock # "Complete" \/ ending = "send"
    BY <1>1, <1>4 DEF TerminateChunk, SendLast, Open, Gone
  <2>2. Len(chunks) = Len(kept) + 1
    BY <2>1 DEF StoreInv, Unfinished
  <2>3. /\ Len(chunks') = IF chunks' = Begun /\ ~Sends THEN Len(chunks) + 1 ELSE Len(chunks)
        /\ \A i \in 1 .. Len(chunks) - 1 : chunks'[i] = chunks[i]
        /\ ~Sends => chunks'[Len(chunks)] = chunks[Len(chunks)]
    BY <1>1, <1>2, <1>4, Begins DEF TerminateChunk, SendLast
  <2>4. Len(chunks') \in Nat /\ Len(chunks') >= Len(chunks)
    BY <1>2, <2>3
  <2>5. KeptInOrder' /\ Somewhere'
    BY <2>1, <2>3, <2>4, CloseKeeps
  <2>6. TakenGone'
    BY <2>1 DEF StoreInv, TakenGone
  <2>7. Unfinished'
    <3>1. CASE SendLast
      BY <1>1, <3>1, NoneAssumption DEF SendLast, Ending, Unfinished
    <3>2. CASE TerminateChunk /\ Sends
      <4>1. kept' = kept /\ Len(chunks') = Len(chunks)
        BY <1>1, <2>1, <2>3, <3>2, Closes
      <4> QED BY <2>2, <4>1 DEF Unfinished
    <3>3. CASE TerminateChunk /\ ~Sends
      <4>1. kept' = Append(kept, Len(closed) + 1) /\ chunks' = Begun
        BY <1>1, <2>1, <3>3, Closes DEF TerminateChunk
      <4>2. kept \in Seq(Nat) /\ Len(closed) + 1 \in Nat
        <5>1. kept \in Seq(1 .. Len(closed)) /\ 1 .. Len(closed) \subseteq Nat
          BY <1>1, <1>2 DEF TypeOK
        <5> QED BY <1>2, <5>1, SeqMonotonic
      <4>3. Len(kept') = Len(kept) + 1
        BY <4>1, <4>2, Appended
      <4>4. Len(chunks') = Len(chunks) + 1
        BY <2>3, <3>3, <4>1
      <4> QED BY <2>2, <4>3, <4>4 DEF Unfinished
    <3> QED BY <1>4, <3>1, <3>2, <3>3
  <2> QED BY <1>1, <2>5, <2>6, <2>7 DEF StoreInv
<1>5. CASE SendEnd
  <2>1. /\ complete_lock' = "Complete" /\ UNCHANGED <<ending, present, taken>> /\ present
        /\ ending # "send"
    BY <1>1, <1>5, NoneAssumption DEF SendEnd, Open, Ending
  <2> QED BY <1>1, <1>5, <2>1, EndKeeps DEF StoreInv, Unfinished, TakenGone
<1>6. CASE TerminateMessage \/ PopStreamed \/ Poison \/ NextCall \/ GetRaw \/ UNCHANGED vars
  <2>1. UNCHANGED <<closed, kept, chunks, from, got, channel>>
    BY <1>6 DEF TerminateMessage, PopStreamed, Poison, NextCall, GetRaw, vars, message, receiver,
                record
  <2>2. \A j \in 1 .. Len(closed) : IsSent(j) => IsSent(j)'
    BY <2>1 DEF IsSent, Reached, Received
  <2>3. KeptInOrder' /\ Somewhere'
    BY <2>1, <2>2, QuietKeeps
  <2>4. (complete_lock' # "Complete" \/ ending' = "send") =>
            (complete_lock # "Complete" \/ ending = "send")
    BY <1>6, NoneAssumption DEF TerminateMessage, Open, PopStreamed, Poison, NextCall, GetRaw,
                                vars, message
  <2>5. Unfinished'
    BY <2>1, <2>4 DEF StoreInv, Unfinished
  <2>6. TakenGone'
    BY <1>6, <2>1 DEF TerminateMessage, Open, PopStreamed, Poison, NextCall, GetRaw, vars, message,
                      StoreInv, TakenGone
  <2> QED BY <1>1, <2>3, <2>5, <2>6 DEF StoreInv
<1>7. ASSUME NEW r \in Receivers, Attach(r) \/ Recv(r) \/ RecvStep(r) \/ DropReceiver(r)
      PROVE  StoreInv'
  <2>1. UNCHANGED <<closed, kept, chunks, complete_lock, ending, present, taken>>
    BY <1>7 DEF Attach, Recv, RecvStep, CheckLock, TryRecv, RecvTimeout, Take, DropReceiver,
                message, record
  <2>2. Unfinished' /\ TakenGone'
    BY <2>1 DEF StoreInv, Unfinished, TakenGone
  <2>3. CASE Attach(r)
    BY <1>1, <2>2, <2>3, AttachKeeps DEF StoreInv
  <2>4. CASE Take(r)
    BY <1>1, <2>2, <2>4, TakeKeeps DEF StoreInv
  <2>5. CASE ~Attach(r) /\ ~Take(r)
    <3>1. UNCHANGED <<from, got, channel>>
      BY <1>7, <2>5 DEF Recv, RecvStep, CheckLock, TryRecv, RecvTimeout, DropReceiver
    <3>2. \A j \in 1 .. Len(closed) : IsSent(j) => IsSent(j)'
      BY <2>1, <3>1 DEF IsSent, Reached, Received
    <3>3. KeptInOrder' /\ Somewhere'
      BY <2>1, <3>2, QuietKeeps
    <3> QED BY <1>1, <2>2, <3>3 DEF StoreInv
  <2> QED BY <2>3, <2>4, <2>5
<1> QED BY <1>3, <1>4, <1>5, <1>6, <1>7 DEF Next

(* No chunk is lost: one that was not sent to a receiver is in the         *)
(* message, in its place, also when the send failed and it was put back,   *)
(* and what is taken out whole is all that was kept.                       *)
THEOREM NothingLostHolds == Spec => []NothingLost
<1>1. StoreInv => NothingLost
  BY DEF StoreInv, TakenGone, KeptInOrder, Somewhere, IsKept, IsSent, NothingLost
<1> QED BY <1>1, StoreInit, StoreNext, PTL DEF Spec
=============================================================================
