-------------------------------- MODULE Wire --------------------------------
(***************************************************************************)
(* Two programs and the wires between them (src/wire_common.rs): a host    *)
(* that calls procedures and a module that runs them.  Threads of the host *)
(* call concurrently; each side has a reader that receives messages and a  *)
(* writer that flushes the wire's queue (Wire::start); streaming           *)
(* procedures yield from threads of their own; either side may signal a    *)
(* termination or disappear.                                               *)
(*                                                                         *)
(* The message buffers of the host's interface are used as Interface shows *)
(* they may be under the discipline of handles: an identifier denotes a    *)
(* handle's own message until the handle has popped it.  Identifiers and   *)
(* completion locks are kept, because a wire's idle_call_handles relate    *)
(* the two.  What a call carries is abstracted to whose it is.             *)
(***************************************************************************)
EXTENDS Naturals, Sequences, FiniteSets

CONSTANTS Calls,         \* the calls the host makes, each by a thread of its own
          Procedure,     \* the procedure index each call asks for
          Partial,       \* calls sent in two pieces: arguments, then the end
          Standard,      \* procedures registered as standard
          Streaming,     \* procedures registered as streaming
          Yields,        \* how often a streaming procedure yields
          MaxOngoing,    \* max_ongoing_procedures of the module's wire
          Buffers,       \* identifiers of the host's response buffers
          SerialFirst,   \* TRUE: first calls of one procedure do not overlap
          MaySignal,     \* the sides that may send a termination message
          MayCrash,      \* the sides that may disappear
          None           \* "nothing there"

Sides == {"host", "module"}
Other(side) == IF side = "host" THEN "module" ELSE "host"

(* A call index is at most the number of calls made before.                *)
Indices == 0 .. Cardinality(Calls)
Procedures == {Procedure[k] : k \in Calls}
Keys == Procedures \X Indices

(* None is told apart from everything a variable can hold in its place.    *)
ASSUME CallsAssumption ==
    /\ IsFiniteSet(Calls)
    /\ None \notin Calls \cup Buffers \cup Keys \cup Nat \cup {<<>>} \cup {<<k>> : k \in Calls}
ASSUME ProcedureAssumption == Standard \cap Streaming = {}
ASSUME LimitAssumption == MaxOngoing \in Nat
ASSUME YieldsAssumption == Yields \in Nat \ {0}
ASSUME SidesAssumption == MaySignal \subseteq Sides /\ MayCrash \subseteq Sides

VARIABLES
    \* the host's wire and interface
    remote_call_counter,   \* the last call index used for each procedure, or None
    response_idx_map,      \* the response buffer of each key, or None
    buffers,               \* the call whose response each buffer holds, or None
    complete_lock,         \* the completion lock of each call's response
    received,              \* the parts in each call's response buffer
    idle_call_handles,     \* the call whose lock is to be poisoned, for each buffer
    caller,                \* of each call: where its thread is and what it knows
    \* the module's wire and interface
    ongoing_procedures,    \* keys that accumulate arguments or run
    arguments,             \* the arguments accumulated for each key, or None
    abandoned,             \* argument buffers that nothing refers to any more
    streams,               \* streaming procedures that have more to yield
    runs,                  \* every run so far: the arguments it was given
    \* both wires
    queue,                 \* messages to be written by each side
    stream,                \* messages each side has written and its peer not read
    thread,                \* where the reader and the writer of each side are
    terminated,            \* of each side: the flag is_terminated() reads
    gone                   \* the sides that have disappeared

host == <<remote_call_counter, response_idx_map, buffers, complete_lock, received,
          idle_call_handles, caller>>
module == <<ongoing_procedures, arguments, abandoned, streams, runs>>
transport == <<queue, stream>>
status == <<thread, terminated, gone>>
vars == <<host, module, transport, status>>

Init ==
    /\ remote_call_counter = [p \in Procedures |-> None]
    /\ response_idx_map = [key \in Keys |-> None]
    /\ buffers = [b \in Buffers |-> None]
    /\ complete_lock = [k \in Calls |-> "Incomplete"]
    /\ received = [k \in Calls |-> <<>>]
    /\ idle_call_handles = [b \in Buffers |-> None]
    /\ caller = [k \in Calls |-> [pc |-> "idle", key |-> None, buf |-> None, got |-> <<>>]]
    /\ ongoing_procedures = {}
    /\ arguments = [key \in Keys |-> None]
    /\ abandoned = {}
    /\ streams = {}
    /\ runs = <<>>
    /\ queue = [side \in Sides |-> <<>>]
    /\ stream = [side \in Sides |-> <<>>]
    /\ thread = [side \in Sides |-> [reader |-> "running", writer |-> "idle"]]
    /\ terminated = [side \in Sides |-> FALSE]
    /\ gone = {}

(* The messages.  args and part say what is carried, last is               *)
(* Terminator::Complete.                                                   *)
CallMessage(key, args, last) ==
    [type |-> "call", key |-> key, body |-> args, last |-> last]
ResponseMessage(key, part, last) ==
    [type |-> "response", key |-> key, body |-> part, last |-> last]
Termination == [type |-> "termination"]

Enqueue(side, message) == queue' = [queue EXCEPT ![side] = Append(@, message)]

-----------------------------------------------------------------------------
(* The host: call, and start_call_with_partial_args followed by            *)
(* end_given_call.                                                         *)
At(k, where) == "host" \notin gone /\ caller[k].pc = where
Goto(k, where) == caller' = [caller EXCEPT ![k].pc = where]

Refuse(k) ==
    /\ At(k, "idle")
    /\ terminated["host"]
    /\ Goto(k, "failed")
    /\ UNCHANGED <<remote_call_counter, response_idx_map, buffers, complete_lock, received,
                   idle_call_handles, module, transport, status>>

(* Mutation: the entry is read and not updated.                            *)
TakeLastIndex(k) ==
    LET p == Procedure[k] IN
    /\ At(k, "idle")
    /\ ~terminated["host"]
    /\ remote_call_counter[p] # None
    /\ caller' = [caller EXCEPT ![k].pc = "push", ![k].key = <<p, remote_call_counter[p]>>]
    /\ UNCHANGED <<remote_call_counter, response_idx_map, buffers, complete_lock, received,
                   idle_call_handles, module, transport, status>>

(* The next call index: an entry that exists is updated under its lock.    *)
TakeIndex(k) ==
    LET p == Procedure[k] IN
    /\ At(k, "idle")
    /\ ~terminated["host"]
    /\ remote_call_counter[p] # None
    /\ remote_call_counter' = [remote_call_counter EXCEPT ![p] = @ + 1]
    /\ caller' = [caller EXCEPT ![k].pc = "push", ![k].key = <<p, remote_call_counter[p] + 1>>]
    /\ UNCHANGED <<response_idx_map, buffers, complete_lock, received, idle_call_handles,
                   module, transport, status>>

(* An entry that does not is inserted in a step of its own.                *)
FindNoIndex(k) ==
    /\ At(k, "idle")
    /\ ~terminated["host"]
    /\ remote_call_counter[Procedure[k]] = None
    /\ SerialFirst => \A j \in Calls : caller[j].pc = "first" => Procedure[j] # Procedure[k]
    /\ Goto(k, "first")
    /\ UNCHANGED <<remote_call_counter, response_idx_map, buffers, complete_lock, received,
                   idle_call_handles, module, transport, status>>

InsertIndex(k) ==
    LET p == Procedure[k] IN
    /\ At(k, "first")
    /\ remote_call_counter' = [remote_call_counter EXCEPT ![p] = 0]
    /\ caller' = [caller EXCEPT ![k].pc = "push", ![k].key = <<p, 0>>]
    /\ UNCHANGED <<response_idx_map, buffers, complete_lock, received, idle_call_handles,
                   module, transport, status>>

(* A response buffer is pushed and mapped.  Nobody can look for either     *)
(* before the call is queued, so the two are one step.                     *)
PushResponse(k) ==
    /\ At(k, "push")
    /\ \E b \in Buffers :
         /\ buffers[b] = None
         /\ buffers' = [buffers EXCEPT ![b] = k]
         /\ response_idx_map' = [response_idx_map EXCEPT ![caller[k].key] = b]
    /\ Goto(k, "send")
    /\ UNCHANGED <<remote_call_counter, complete_lock, received, idle_call_handles,
                   module, transport, status>>

(* Mutation: the call is queued twice.                                     *)
SendWholeTwice(k) ==
    LET call == CallMessage(caller[k].key, <<k>>, TRUE) IN
    /\ At(k, "send")
    /\ k \notin Partial
    /\ queue' = [queue EXCEPT !["host"] = @ \o <<call, call>>]
    /\ Goto(k, "lookup")
    /\ UNCHANGED <<remote_call_counter, response_idx_map, buffers, complete_lock, received,
                   idle_call_handles, module, stream, status>>

(* call_with_bytes queues the whole call without asking for termination    *)
(* again.                                                                  *)
SendWhole(k) ==
    /\ At(k, "send")
    /\ k \notin Partial
    /\ Enqueue("host", CallMessage(caller[k].key, <<k>>, TRUE))
    /\ Goto(k, "lookup")
    /\ UNCHANGED <<remote_call_counter, response_idx_map, buffers, complete_lock, received,
                   idle_call_handles, module, stream, status>>

(* continue_given_call_with_bytes and end_given_call do ask.               *)
SendPiece(k) ==
    /\ At(k, "send") \/ At(k, "end")
    /\ k \in Partial
    /\ IF terminated["host"]
       THEN Goto(k, "failed") /\ UNCHANGED queue
       ELSE IF At(k, "send")
       THEN /\ Enqueue("host", CallMessage(caller[k].key, <<k>>, FALSE))
            /\ Goto(k, "end")
       ELSE /\ Enqueue("host", CallMessage(caller[k].key, <<>>, TRUE))
            /\ Goto(k, "lookup")
    /\ UNCHANGED <<remote_call_counter, response_idx_map, buffers, complete_lock, received,
                   idle_call_handles, module, stream, status>>

(* get_response_idx, after the call has been queued.  The reader removes   *)
(* the mapping when the response is complete, and then there is no handle. *)
LookUpResponse(k) ==
    LET b == response_idx_map[caller[k].key] IN
    /\ At(k, "lookup")
    /\ IF terminated["host"] THEN Goto(k, "failed")
       ELSE IF b = None THEN Goto(k, "lost")
       ELSE caller' = [caller EXCEPT ![k].pc = "register", ![k].buf = b]
    /\ UNCHANGED <<remote_call_counter, response_idx_map, buffers, complete_lock, received,
                   idle_call_handles, module, transport, status>>

(* CallHandle::new takes a clone of the completion lock and leaves it with *)
(* the wire.                                                               *)
Register(k) ==
    LET b == caller[k].buf IN
    /\ At(k, "register")
    /\ IF buffers[b] = None
       THEN Goto(k, "panicked") /\ UNCHANGED idle_call_handles
       ELSE /\ idle_call_handles' = [idle_call_handles EXCEPT ![b] = buffers[b]]
            /\ Goto(k, "wait")
    /\ UNCHANGED <<remote_call_counter, response_idx_map, buffers, complete_lock, received,
                   module, transport, status>>

(* CallHandle::wait returns the content of the buffer and frees it ...     *)
Return(k) ==
    LET b == caller[k].buf IN
    /\ At(k, "wait")
    /\ buffers[b] # None
    /\ complete_lock[buffers[b]] = "Complete"
    /\ buffers' = [buffers EXCEPT ![b] = None]
    /\ caller' = [caller EXCEPT ![k].pc = "unregister", ![k].got = received[buffers[b]]]
    /\ UNCHANGED <<remote_call_counter, response_idx_map, complete_lock, received,
                   idle_call_handles, module, transport, status>>

FailPoisoned(k) ==
    LET b == caller[k].buf IN
    /\ At(k, "wait")
    /\ buffers[b] # None
    /\ complete_lock[buffers[b]] = "Poisoned"
    /\ Goto(k, "failed")
    /\ UNCHANGED <<remote_call_counter, response_idx_map, buffers, complete_lock, received,
                   idle_call_handles, module, transport, status>>

(* ... and takes the handle off the wire's list afterwards, by identifier. *)
Unregister(k) ==
    /\ At(k, "unregister")
    /\ idle_call_handles' = [idle_call_handles EXCEPT ![caller[k].buf] = None]
    /\ Goto(k, "returned")
    /\ UNCHANGED <<remote_call_counter, response_idx_map, buffers, complete_lock, received,
                   module, transport, status>>

CallStep(k) ==
    \/ Refuse(k) \/ TakeIndex(k) \/ FindNoIndex(k) \/ InsertIndex(k)
    \/ PushResponse(k) \/ SendWhole(k) \/ SendPiece(k) \/ LookUpResponse(k)
    \/ Register(k) \/ Return(k) \/ FailPoisoned(k) \/ Unregister(k)

-----------------------------------------------------------------------------
(* Reading: a thread that repeats fill, which repeats receive_one.  The    *)
(* flag is tested before each read, so a reader that waits for a message   *)
(* may handle one more after the flag is set, and no more than one.        *)
Reads(side, type) ==
    /\ side \notin gone
    /\ thread[side].reader = "running"
    /\ stream[Other(side)] # <<>>
    /\ Head(stream[Other(side)]).type = type

Message(side) == Head(stream[Other(side)])
Consume(side) == stream' = [stream EXCEPT ![Other(side)] = Tail(@)]
Reader(side, where) == thread' = [thread EXCEPT ![side].reader = where]
ReadOn(side) == Reader(side, IF terminated[side] THEN "drop" ELSE "running")

(* A call that would start one procedure too many is dropped in silence.   *)
TooMany(key) ==
    key \notin ongoing_procedures /\ Cardinality(ongoing_procedures) >= MaxOngoing

RejectCall ==
    /\ Reads("module", "call")
    /\ TooMany(Message("module").key)
    /\ Consume("module")
    /\ ReadOn("module")
    /\ UNCHANGED <<host, module, queue, terminated, gone>>

(* Mutation: a piece replaces the pieces before it.                        *)
AccumulatedLast(key, args) == args

(* get_call_buffer creates the buffer for a key that has none, send_many   *)
(* appends to it.                                                          *)
Accumulated(key, args) == IF arguments[key] = None THEN args ELSE arguments[key] \o args

ReceiveArguments ==
    LET call == Message("module") IN
    /\ Reads("module", "call")
    /\ ~TooMany(call.key)
    /\ ~call.last
    /\ ongoing_procedures' = ongoing_procedures \cup {call.key}
    /\ arguments' = [arguments EXCEPT ![call.key] = Accumulated(call.key, call.body)]
    /\ Consume("module")
    /\ ReadOn("module")
    /\ UNCHANGED <<host, abandoned, streams, runs, queue, terminated, gone>>

(* The last piece of a call: call_procedure takes the arguments ...        *)
LastPiece(kind) ==
    LET call == Message("module") IN
    /\ Reads("module", "call")
    /\ ~TooMany(call.key)
    /\ call.last
    /\ call.key[1] \in kind
    /\ arguments' = [arguments EXCEPT ![call.key] = None]
    /\ Consume("module")

(* ... runs a standard procedure and answers for it ...                    *)
RunStandard ==
    LET call == Message("module")
        args == Accumulated(call.key, call.body)
    IN
    /\ LastPiece(Standard)
    /\ runs' = Append(runs, args)
    /\ Enqueue("module", ResponseMessage(call.key, <<args, 1>>, TRUE))
    /\ ongoing_procedures' = ongoing_procedures \ {call.key}
    /\ ReadOn("module")
    /\ UNCHANGED <<host, abandoned, streams, terminated, gone>>

(* ... or starts a streaming procedure, which answers by itself ...        *)
StartStreaming ==
    LET call == Message("module")
        args == Accumulated(call.key, call.body)
    IN
    /\ LastPiece(Streaming)
    /\ runs' = Append(runs, args)
    /\ streams' = streams \cup {[key |-> call.key, args |-> args, next |-> 1]}
    /\ ongoing_procedures' = ongoing_procedures \cup {call.key}
    /\ ReadOn("module")
    /\ UNCHANGED <<host, abandoned, queue, terminated, gone>>

(* ... or finds no procedure: the reader fails, and the buffer stays.      *)
NoSuchProcedure ==
    LET call == Message("module") IN
    /\ LastPiece(Procedures \ (Standard \cup Streaming))
    /\ abandoned' = abandoned \cup {call.key}
    /\ ongoing_procedures' = ongoing_procedures \cup {call.key}
    /\ Reader("module", "leave")
    /\ UNCHANGED <<host, streams, runs, queue, terminated, gone>>

(* Mutation: every yield is marked as the last.                            *)
YieldLast(s) ==
    LET last == s.next = Yields IN
    /\ "module" \notin gone
    /\ s \in streams
    /\ ~terminated["module"]
    /\ Enqueue("module", ResponseMessage(s.key, <<s.args, s.next>>, TRUE))
    /\ streams' = (streams \ {s}) \cup (IF last THEN {} ELSE {[s EXCEPT !.next = @ + 1]})
    /\ ongoing_procedures' = IF last THEN ongoing_procedures \ {s.key} ELSE ongoing_procedures
    /\ UNCHANGED <<host, arguments, abandoned, runs, stream, status>>

(* The yielder of a streaming procedure.  Its test of the flag and its     *)
(* push are one step: a part that is queued although the flag has been set *)
(* since the test may as well have been queued before it was set.          *)
Yield(s) ==
    LET last == s.next = Yields IN
    /\ "module" \notin gone
    /\ s \in streams
    /\ ~terminated["module"]
    /\ Enqueue("module", ResponseMessage(s.key, <<s.args, s.next>>, last))
    /\ streams' = (streams \ {s}) \cup (IF last THEN {} ELSE {[s EXCEPT !.next = @ + 1]})
    /\ ongoing_procedures' = IF last THEN ongoing_procedures \ {s.key} ELSE ongoing_procedures
    /\ UNCHANGED <<host, arguments, abandoned, runs, stream, status>>

YieldFails(s) ==
    /\ "module" \notin gone
    /\ s \in streams
    /\ terminated["module"]
    /\ streams' = streams \ {s}
    /\ UNCHANGED <<host, ongoing_procedures, arguments, abandoned, runs, transport, status>>

(* The host's reader.  A response without a mapping, after the flag, or    *)
(* for a message that is not there or complete makes it fail.              *)
Responds(b) ==
    /\ ~terminated["host"]
    /\ b # None
    /\ buffers[b] # None
    /\ complete_lock[buffers[b]] # "Complete"

(* Mutation: the last part does not complete the message.                  *)
ReceiveWithoutCompleting ==
    LET response == Message("host")
        m == buffers[response_idx_map[response.key]]
    IN
    /\ Reads("host", "response")
    /\ Responds(response_idx_map[response.key])
    /\ received' = [received EXCEPT ![m] = Append(@, response.body)]
    /\ Consume("host")
    /\ ReadOn("host")
    /\ UNCHANGED <<remote_call_counter, response_idx_map, buffers, complete_lock,
                   idle_call_handles, caller, module, queue, terminated, gone>>

ReceiveResponse ==
    LET response == Message("host")
        b == response_idx_map[response.key]
        m == buffers[b]
    IN
    /\ Reads("host", "response")
    /\ Responds(b)
    /\ received' = [received EXCEPT ![m] = Append(@, response.body)]
    /\ IF response.last
       THEN /\ complete_lock' = [complete_lock EXCEPT ![m] = "Complete"]
            /\ Reader("host", "unmap")
            /\ UNCHANGED stream
       ELSE /\ Consume("host")
            /\ ReadOn("host")
            /\ UNCHANGED complete_lock
    /\ UNCHANGED <<remote_call_counter, response_idx_map, buffers, idle_call_handles, caller,
                   module, queue, terminated, gone>>

(* Mutation: the complete message is popped along with its mapping.        *)
UnmapAndPop ==
    LET key == Message("host").key IN
    /\ "host" \notin gone
    /\ thread["host"].reader = "unmap"
    /\ response_idx_map' = [response_idx_map EXCEPT ![key] = None]
    /\ buffers' = [buffers EXCEPT ![response_idx_map[key]] = None]
    /\ Consume("host")
    /\ ReadOn("host")
    /\ UNCHANGED <<remote_call_counter, complete_lock, received, idle_call_handles,
                   caller, module, queue, terminated, gone>>

(* The mapping goes once the message is complete.                          *)
UnmapResponse ==
    /\ "host" \notin gone
    /\ thread["host"].reader = "unmap"
    /\ response_idx_map' = [response_idx_map EXCEPT ![Message("host").key] = None]
    /\ Consume("host")
    /\ ReadOn("host")
    /\ UNCHANGED <<remote_call_counter, buffers, complete_lock, received, idle_call_handles,
                   caller, module, queue, terminated, gone>>

NoResponseBuffer ==
    /\ Reads("host", "response")
    /\ ~Responds(response_idx_map[Message("host").key])
    /\ Consume("host")
    /\ Reader("host", "leave")
    /\ UNCHANGED <<host, module, queue, terminated, gone>>

-----------------------------------------------------------------------------
(* Writing: a thread that repeats flush_partial.                           *)
Writer(side, where) == thread' = [thread EXCEPT ![side].writer = where]
Writes(side, where) == side \notin gone /\ thread[side].writer = where

Flush(side) ==
    /\ Writes(side, "idle")
    /\ IF terminated[side] THEN Writer(side, "drop")
       ELSE queue[side] # <<>> /\ Writer(side, "writing")
    /\ UNCHANGED <<host, module, transport, terminated, gone>>

WriteMessage(side) ==
    /\ Writes(side, "writing")
    /\ queue[side] # <<>>
    /\ queue' = [queue EXCEPT ![side] = Tail(@)]
    /\ stream' = [stream EXCEPT ![side] = Append(@, Head(queue[side]))]
    /\ UNCHANGED <<host, module, status>>

FlushEnds(side) ==
    /\ Writes(side, "writing")
    /\ queue[side] = <<>>
    /\ Writer(side, "idle")
    /\ UNCHANGED <<host, module, transport, terminated, gone>>

(* Nobody reads any more: the message is lost and the thread fails.        *)
WriteFails(side) ==
    /\ Writes(side, "writing")
    /\ queue[side] # <<>>
    /\ Other(side) \in gone \/ thread[Other(side)].reader = "stopped"
    /\ queue' = [queue EXCEPT ![side] = Tail(@)]
    /\ Writer(side, "leave")
    /\ UNCHANGED <<host, module, stream, terminated, gone>>

-----------------------------------------------------------------------------
(* Termination.  mark_terminated stores the flag, and then drops the       *)
(* arguments of ongoing procedures and poisons the handles that are left   *)
(* with the wire.                                                          *)
Store(side) == terminated' = [terminated EXCEPT ![side] = TRUE]

(* Mutation: termination completes what it should poison.                  *)
CompletedInstead ==
    [m \in Calls |-> IF m \in {idle_call_handles[b] : b \in Buffers}
                     THEN "Complete" ELSE complete_lock[m]]

Poisoned ==
    [m \in Calls |-> IF complete_lock[m] = "Incomplete" /\ m \in {idle_call_handles[b] : b \in Buffers}
                     THEN "Poisoned" ELSE complete_lock[m]]

Sweep(side) ==
    /\ IF side = "module"
       THEN /\ arguments' = [key \in Keys |-> IF key \in ongoing_procedures THEN None
                                               ELSE arguments[key]]
            /\ UNCHANGED complete_lock
       ELSE complete_lock' = Poisoned /\ UNCHANGED arguments
    /\ UNCHANGED <<remote_call_counter, response_idx_map, buffers, received, idle_call_handles,
                   caller, ongoing_procedures, abandoned, streams, runs>>

(* To bound the queue a side does not signal again while a signal is on    *)
(* its way or has arrived.                                                 *)
SignalTermination(side) ==
    /\ side \in MaySignal \ gone
    /\ \A i \in DOMAIN queue[side] : queue[side][i] # Termination
    /\ \A i \in DOMAIN stream[side] : stream[side][i] # Termination
    /\ ~terminated[Other(side)]
    /\ Enqueue(side, Termination)
    /\ UNCHANGED <<host, module, stream, status>>

ReceiveTermination(side) ==
    /\ Reads(side, "termination")
    /\ Consume(side)
    /\ Store(side)
    /\ Reader(side, "sweep")
    /\ UNCHANGED <<host, module, queue, gone>>

(* Mutation: the end of the input ends the reader and nothing else.        *)
EndOfFileQuietly(side) ==
    /\ side \notin gone
    /\ thread[side].reader = "running"
    /\ stream[Other(side)] = <<>>
    /\ Other(side) \in gone \/ thread[Other(side)].writer = "stopped"
    /\ Reader(side, "stopped")
    /\ UNCHANGED <<host, module, transport, terminated, gone>>

(* fill takes the end of its input for a termination.                      *)
EndOfFile(side) ==
    /\ side \notin gone
    /\ thread[side].reader = "running"
    /\ stream[Other(side)] = <<>>
    /\ Other(side) \in gone \/ thread[Other(side)].writer = "stopped"
    /\ Store(side)
    /\ Reader(side, "sweep")
    /\ UNCHANGED <<host, module, transport, gone>>

SweepTerminated(side) ==
    /\ side \notin gone
    /\ thread[side].reader = "sweep"
    /\ Sweep(side)
    /\ Reader(side, "drop")
    /\ UNCHANGED <<transport, terminated, gone>>

(* A reader that tests the flag before it reads again.                     *)
SeeTermination(side) ==
    /\ side \notin gone
    /\ thread[side].reader = "running"
    /\ terminated[side]
    /\ Reader(side, "drop")
    /\ UNCHANGED <<host, module, transport, terminated, gone>>

(* A thread that ends drops its clone of the wire, and Drop marks the wire *)
(* terminated, whatever the thread ended for: a thread at "leave" has      *)
(* failed and stores the flag first, one at "drop" knows that it is set.   *)
Roles == {"reader", "writer"}

Leave(side, role) ==
    /\ side \notin gone
    /\ thread[side][role] = "leave"
    /\ Store(side)
    /\ thread' = [thread EXCEPT ![side][role] = "drop"]
    /\ UNCHANGED <<host, module, transport, gone>>

SweepDropped(side, role) ==
    /\ side \notin gone
    /\ thread[side][role] = "drop"
    /\ Sweep(side)
    /\ thread' = [thread EXCEPT ![side][role] = "stopped"]
    /\ UNCHANGED <<transport, terminated, gone>>

(* A program that ends takes its threads and its memory with it: messages  *)
(* not yet written, and what the module held for its procedures.  What it  *)
(* has written can be read, what it has not read is lost.                  *)
Crash(side) ==
    /\ side \in MayCrash \ gone
    /\ gone' = gone \cup {side}
    /\ thread' = [thread EXCEPT ![side] = [reader |-> "stopped", writer |-> "stopped"]]
    /\ queue' = [queue EXCEPT ![side] = <<>>]
    /\ stream' = [stream EXCEPT ![Other(side)] = <<>>]
    /\ IF side = "module"
       THEN /\ ongoing_procedures' = {} /\ abandoned' = {} /\ streams' = {}
            /\ arguments' = [key \in Keys |-> None]
       ELSE UNCHANGED <<ongoing_procedures, abandoned, streams, arguments>>
    /\ UNCHANGED <<host, runs, terminated>>

-----------------------------------------------------------------------------
ModuleReads ==
    RejectCall \/ ReceiveArguments \/ RunStandard \/ StartStreaming \/ NoSuchProcedure
HostReads == ReceiveResponse \/ UnmapResponse \/ NoResponseBuffer
ReaderStep(side) ==
    \/ side = "module" /\ ModuleReads
    \/ side = "host" /\ HostReads
    \/ ReceiveTermination(side) \/ EndOfFile(side) \/ SweepTerminated(side)
    \/ Leave(side, "reader") \/ SweepDropped(side, "reader")
WriterStep(side) ==
    \/ Flush(side) \/ WriteMessage(side) \/ FlushEnds(side)
    \/ Leave(side, "writer") \/ SweepDropped(side, "writer")
YieldStep == \E s \in streams : Yield(s) \/ YieldFails(s)
Next ==
    \/ \E k \in Calls : CallStep(k)
    \/ \E side \in Sides : ReaderStep(side) \/ WriterStep(side)
    \/ YieldStep
    \/ \E side \in Sides : SeeTermination(side) \/ WriteFails(side)
    \/ \E side \in Sides : SignalTermination(side) \/ Crash(side)

Spec == Init /\ [][Next]_vars

(* Every thread runs: those that call, the readers and writers of sides    *)
(* that are there, and the procedures that yield.                          *)
FairSpec ==
    /\ Spec
    /\ \A k \in Calls : WF_vars(CallStep(k))
    /\ \A side \in Sides : WF_vars(ReaderStep(side)) /\ WF_vars(WriterStep(side))
    /\ WF_vars(YieldStep)

-----------------------------------------------------------------------------
CallerStates == {"idle", "first", "push", "send", "end", "lookup", "register", "wait",
                 "unregister", "returned", "failed", "lost", "panicked"}
Answered == {"unregister", "returned"}
Part(k, i) == <<<<k>>, i>>
Answer(k) == [i \in 1 .. (IF Procedure[k] \in Streaming THEN Yields ELSE 1) |-> Part(k, i)]

(* Every variable keeps its type; the two threads of a side are at one of  *)
(* their program points, and a reader unmaps only a response that is last. *)
TypeOK ==
    /\ \A p \in Procedures : remote_call_counter[p] \in Indices \cup {None}
    /\ \A key \in Keys : response_idx_map[key] \in Buffers \cup {None}
    /\ \A b \in Buffers : {buffers[b], idle_call_handles[b]} \subseteq Calls \cup {None}
    /\ \A k \in Calls : complete_lock[k] \in {"Incomplete", "Complete", "Poisoned"}
    /\ \A k \in Calls : caller[k].pc \in CallerStates
    /\ \A k \in Calls : caller[k].pc \notin {"idle", "first", "failed"} => caller[k].key \in Keys
    /\ \A k \in Calls : caller[k].pc \in Answered \cup {"register", "wait"} => caller[k].buf \in Buffers
    /\ ongoing_procedures \subseteq Keys /\ abandoned \subseteq Keys
    /\ \A s \in streams : s.key \in ongoing_procedures /\ s.next \in 1 .. Yields
    /\ \A side \in Sides :
         /\ thread[side].reader \in {"running", "unmap", "sweep", "leave", "drop", "stopped"}
         /\ thread[side].writer \in {"idle", "writing", "leave", "drop", "stopped"}
         /\ terminated[side] \in BOOLEAN
    /\ thread["host"].reader = "unmap" => Message("host").type = "response" /\ Message("host").last
    /\ thread["module"].reader # "unmap"

(* A procedure runs at most once for each call and with all of its         *)
(* arguments, however the calls overlap and wherever they are cut off.     *)
RunsIntact ==
    /\ \A i \in DOMAIN runs : \E k \in Calls : runs[i] = <<k>>
    /\ \A i, j \in DOMAIN runs : runs[i] = runs[j] => i = j

(* What a handle returns is the answer to its own call, all of it and in   *)
(* the order it was yielded.                                               *)
AnswersIntact == \A k \in Calls : caller[k].pc \in Answered => caller[k].got = Answer(k)

(* CallHandle::new finds the message its identifier denotes.               *)
NoHandlePanic == \A k \in Calls : caller[k].pc # "panicked"

(* A caller whose call went out gets a handle (or WireTerminated).         *)
NoCallLost == \A k \in Calls : caller[k].pc # "lost"

(* When the reader and the writer of a terminated wire have ended, no      *)
(* argument buffer is left behind ("drop all message buffers that were     *)
(* being used to accumulate arguments", mark_terminated).                  *)
BuffersFreed ==
    thread["module"] = [reader |-> "stopped", writer |-> "stopped"] => abandoned = {}

Phase(k) ==
    CASE caller[k].pc = "idle" -> "idle"
      [] caller[k].pc \in Answered -> "returned"
      [] caller[k].pc \in {"failed", "lost", "panicked"} -> "failed"
      [] OTHER -> "called"
Calling == INSTANCE RemoteCalls WITH
    phase <- [k \in Calls |-> Phase(k)],
    ran <- {k \in Calls : \E i \in DOMAIN runs : runs[i] = <<k>>}

(* The two wires implement remote calls.                                   *)
RefinesCalls == Calling!Spec

Waiting(k) == caller[k].pc = "wait"
Registered(k) == Waiting(k) /\ idle_call_handles[caller[k].buf] = k

(* A handle is answered unless its wire terminates.                        *)
HandlesReturn == \A k \in Calls :
    Waiting(k) ~> (caller[k].pc = "returned" \/ terminated["host"])

(* A handle that has returned is yet to strike, by identifier, what the    *)
(* list holds for the buffer it had.                                       *)
StrikePending(b) == \E j \in Calls : caller[j].pc = "unregister" /\ caller[j].buf = b

(* Whatever happens to the other side, a handle that was left with the     *)
(* wire before it terminated stops waiting: it returns, or is poisoned     *)
(* ("preventing call handles from hanging forever", idle_call_handles).    *)
(* The exception is a handle whose buffer an earlier one had that has      *)
(* returned and not yet unregistered: when it does, it strikes the later   *)
(* handle's entry, and a termination poisons nobody (EarlyHandlesResolve). *)
RegisteredHandlesResolve == \A k \in Calls :
    (/\ Registered(k) /\ ~StrikePending(caller[k].buf)
     /\ ~terminated["host"] /\ "host" \notin gone)
        ~> (~Waiting(k) \/ "host" \in gone)

(* The same without the exception, as the documentation has it: a handle   *)
(* that is waiting when the wire terminates is poisoned. The reuse of      *)
(* identifiers refutes it.                                                 *)
EarlyHandlesResolve == \A k \in Calls :
    (Registered(k) /\ ~terminated["host"]) ~> (~Waiting(k) \/ "host" \in gone)

(* No handle waits for ever.                                               *)
HandlesResolve == \A k \in Calls : Waiting(k) ~> (~Waiting(k) \/ "host" \in gone)
=============================================================================
