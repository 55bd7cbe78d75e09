# ipfi in TLA+

ipfi lets two programs call each other's procedures over a pair of byte streams. This directory models
the library in TLA+ from its lock-free identifier queue up to the bytes on the wire, checks it with TLC on
small instances, and proves the central facts about eight of its modules with TLAPS for instances of any
size. Line numbers refer to the source tree next to this directory; `PROJECT.json` maps every definition to
the lines it models, lists the hazards found while reading and says which property covers each of them.

## 1. The system

```
  program A                                              program B
  ---------                                              ---------
  threads that call ──┐                            ┌── procedures (standard, streaming)
                      v                            v
              Wire ───────────── byte streams ───────────── Wire
          reader thread, writer thread             reader thread, writer thread
                │                                              │
            Interface   (messages, creation locks, procedures, argument buffers)
             │      │
       CompleteLock  RoiQueue   (one lock per message, one queue of identifiers)
```

| Part | State | Operations | Interacts with |
|---|---|---|---|
| Identifier queue, `roi_queue.rs` | counter, queue of relinquished identifiers | `get`, `relinquish` | used by the interface for message indices and wire identifiers |
| Completion lock, blocking and async, `*/complete_lock.rs` | Incomplete / Complete / Poisoned, a mutex, a condition variable or a `Notify` | `wait_for_completion`, `mark_complete`, `poison` | one per message and one per message that is awaited before it exists |
| Interface, `interface_common.rs` | messages, creation locks, procedures, call-to-buffer map | `push`, `send`, `terminate_message`, `get_raw`, `get_chunks`, `get_chunk_stream`, `get_call_buffer`, `call_procedure`, `drop_associated_call_message` | called by wires and by the program; calls procedures back |
| Chunk streams, `interface_common.rs`, `*/interface.rs` | a message's chunks; a channel between it and one receiver | `send_many`, `terminate_chunk`, `terminate_message`, `get_chunk_stream`, `recv_raw` | the message's lock and sender; the wire's idle handles |
| Wire, calling side, `wire_common.rs` | call counters, response map, idle call handles, queue | `call`, `start_call_with_partial_args`, `end_given_call`, `CallHandle::wait` | queues messages; waits at the interface |
| Wire, called side, `wire_common.rs` | ongoing procedures, argument buffers | `receive_one`, `Yielder` | runs procedures; queues responses |
| Wire, termination and threads, `wire_common.rs`, `*/wire.rs` | the terminated flag, clones of the wire in threads | `start`, `fill`, `flush_*`, `signal_termination`, `mark_terminated`, `Drop` | poisons handles, drops argument buffers |
| Wire format, `wire_utils.rs`, `integer.rs` | none | message headers, variable-width integers | wires |
| Arguments, `procedure_args.rs` | none | joined by the caller, taken apart by the called procedure | wires, procedures |
| Errors, features | none | | |

What makes each of them hard, and what makes each of them right:

* **Identifier queue.** Lock-free: a pop and a `fetch_add` that other threads fall between; a counter that
  wraps. *Right:* no identifier has two holders, none is lost, and reuse keeps the counter within demand.
* **Completion locks.** Notification after the mutex is released, spurious wakeups, a poison racing with a
  completion, a `Notify` that keeps no permit. *Right:* a completion is never undone, waiters return what
  the lock became, and no wakeup is lost.
* **Interface.** Every method is a sequence of DashMap operations with nothing held in between, identifiers
  are recycled, and later steps `unwrap` what earlier steps established. *Right:* no getter panics, a
  getter is served its own message and only after completion, and it returns.
* **Chunk streams.** A receiver looks at the lock and at the channel in two steps while the message is
  completed and its last chunk sent in two others; receivers replace each other, are dropped, and come late.
  *Right:* chunks arrive in order and without a gap, an end or an error comes after the last of them, and
  what no receiver got is still in the message.
* **Wire.** Three kinds of threads on each side and a peer that may terminate or disappear at any time.
  *Right:* a call runs at most once and with all of its arguments, a handle returns the whole answer to its
  own call, and a handle left with the wire is woken when the wire ends.
* **Several wires over one interface.** Their calls have the same indices and share one map of argument
  buffers, which sweeps of wires that end take entries from. *Right:* a procedure runs on its own wire's
  arguments, live wires have different identifiers, and wires that are gone leave nothing behind.
* **Wire format and arguments.** Fields say how many bytes the next ones take, streams cut them anywhere,
  callers cut arguments anywhere. *Right:* messages arrive as they were sent and in order, a reader gives up
  only for cause, and procedures get the arguments given.

## 2. Modules

| Module | Role |
|---|---|
| `IdAllocator` | abstract: unique identifiers |
| `RoiQueue`, `RoiQueueProof` | the queue; implements `IdAllocator`; proofs |
| `CompleteSignal` | abstract: a signal that is set once, may only improve, and is seen by all waiters |
| `CompleteLock`, `CompleteLockProof` | the blocking lock; implements `CompleteSignal`; proofs |
| `AsyncCompleteLock`, `AsyncCompleteLockProof` | the async lock; implements the safety part of `CompleteSignal`; proofs |
| `Interface`, `InterfaceProof` | the message store; uses the promises of the two abstractions above; proofs |
| `MessageStream`, `MessageStreamProof` | the inside of one message and the receivers that follow it; proofs |
| `CallBuffers`, `CallBuffersProof` | the called side of several wires over one interface; proofs |
| `RemoteCalls` | abstract: remote calls that run at most once and are answered in full |
| `Wire`, `WireProof` | two programs, their wires and the streams; implements `RemoteCalls`; proofs |
| `MessageFifo` | abstract: a queue of messages |
| `WireFormat` | the binary format, as pure operators |
| `ByteStream`, `ByteStreamProof` | one direction of a wire down to its bytes; implements `MessageFifo`; proofs |
| `MCRoiQueue`, `MCInterface`, `MCCallBuffers`, `MCWire`, `MCByteStream` | symmetry sets and constant definitions for TLC |

The layers are composed through their abstractions. `Interface` does not contain the steps of a lock or a
queue; it uses one atomic state per completion lock (what `CompleteLock` is shown to implement) and draws
any identifier that is free (what `RoiQueue` is shown to implement). `MessageStream` is the inside of one
message of `Interface`, `CallBuffers` is what happens inside one reader step of `Wire`, between several
wires, and `ByteStream` is what happens on one of `Wire`'s queues of messages. `Wire` uses message buffers
the way `Interface` shows they may be used under the discipline "handles": an identifier denotes a handle's
own message until that handle pops it. `CallBuffers` contains the identifier queue's order of reuse itself,
because there identifiers are relinquished more than once, which `IdAllocator` rules out.

An operator whose comment starts with "Mutation" is not part of a specification. It is a plausible
mistake in the definition that follows it (a dropped guard, a missing step, a wrong flag); putting it in
that definition's place makes TLC refute the property it is listed with, which shows that the property
depends on that line of the code.

### RoiQueue

`get` is `GetRelinquished` (the pop hits) or `GetMiss` and later `GetFetchAdd` (the pop misses, the counter
is incremented); `relinquish` is `Relinquish`. The counter is an `IpfiInteger`, so `fetch_add` is modulo
`Modulus`. A *user* is one unit of demand: a thread that holds three identifiers is three users. That an
identifier is relinquished by its holder, once, is how the interface uses the queue (`pop` succeeds for
one caller only).

### CompleteLock, AsyncCompleteLock

One action per step that takes, keeps or releases the mutex. In the blocking lock a waiter holds the mutex
from its check until `Condvar::wait` lets go of it and joins the sleepers in one step (`WaitSleep`);
`mark_complete` releases the mutex before `notify_all` (`MarkComplete`, `MarkNotify`); `poison` checks,
sets and notifies under the mutex; `WakeSpuriously` is the condition variable's licence. In the async lock
the check (`CheckFails`) and the creation of the `notified()` future (`Register`) are two steps with
the mutex free between them, and `notify_waiters` wakes only futures that exist.

### Interface

A message is a number, its place in the order of pushes, so that what an identifier denotes now can be told
from what it denoted earlier. Each DashMap operation is one step:

| Code | Actions |
|---|---|
| `push` | `Push` (insert), `Announce` (mark the creation lock, if one is found) |
| `send` with -1, `terminate_message` | `Complete`; with a live receiver `TerminateStreamed`, then `RemoveStreamed` |
| poisoning by a wire | `Poison`, through a clone of the lock |
| `wait_for_message` | `Lookup`, then the steps of `wait_for_message_creation` if nothing is found |
| `wait_for_message_creation` | `Check`, `FindLock`, `InsertLock`, `AwaitCreation`, `ClearLock` |
| `get_raw`, `get_chunks`, `is_chunked`/`has_stream`, `get_chunk_stream` | kinds "raw", "chunks", "peek", "stream": `Found`, `AwaitCompletion`, `TakeRef`, `Pop` as each needs |

An `unwrap`/`expect` that fails is the program point "panicked". The methods' signatures allow programs
that break these promises, so a constant says how getters choose identifiers: "handles" is what a wire does
(one getter for a message that exists), "sole" allows a getter to come before its message but never two
getters at one identifier, "mixed" allows both on one interface, as long as nobody asks by handle where
another waits for a message it does not know, and "free" allows anything.

### MessageStream

One message from its push to its removal. A byte is its number in the order of sending, so that chunks can
be told apart and compared with what was sent.

| Code | Actions |
|---|---|
| `send`, `send_many` | `SendMany`; with -1 `SendEnd` |
| `terminate_chunk` | `TerminateChunk`: the last chunk is sent if there is a receiver, and put back if that fails |
| `terminate_message` | `TerminateMessage` (complete), `SendLast` (or put back and drop the sender), `PopStreamed` |
| `get_chunk_stream` | `Attach`: a new sender takes the place of another |
| `recv_raw` of a receiver and of a handle's receiver | `Recv`, `CheckLock`, then `TryRecv` on a poisoned lock and `RecvTimeout` otherwise |
| the rest | `Poison`, `GetRaw` (taken whole), `DropReceiver`, `NextCall` (the identifier is reused by another call's handle) |

A method that holds the message's map entry is one step, except `terminate_message`: receivers hold a clone
of the lock and the other end of the channel, and see the state between its steps.

### CallBuffers

Several wires over one interface; each receives the pieces of calls whose indices other wires use too.
`receive_one` is split at every operation on a shared map: `Receive` (flag and limit), `GetBuffer`,
`PushBuffer`, `MapBuffer` (`get_call_buffer`), `Register`, `AppendArguments`, `TerminateArguments`, and for
the last piece the second `get_call_buffer` and `Unmap`, `Run`, `PopArguments` (`call_procedure`) and
`Answer`; the failures of `call_procedure` leave the buffer where it is. `LastYield` ends a streaming
procedure. Each clone of a wire is dropped by itself: `Drop` stores the flag and starts the sweep,
`SweepMapping` and `SweepMessage` are the two steps of `drop_associated_call_message` for each ongoing call,
`Relinquish` hands the identifier back. A sweep covers the calls that are registered when it begins; one that
is registered during it may be missed, as the iteration over a `DashSet` allows.

### WireFormat, ByteStream

`WireFormat` has `to_bytes` and what it is made of, and the readings the other end makes: sizes from flags,
integers from bytes, whether an integer fits the reader's type. `Base` is the number of values of a byte of an
index, 256 in the program; with 4 the ends of the ranges of one and of two bytes are within reach of a call
counter. Integers are put together in halves, and `ToLeBytes` cuts a value to the size it is written in, as
`to_le_bytes` of a narrower integer does. Bytes of a body are bytes. `Pack` writes a number as MessagePack
writes small ones, in one or two bytes, so that a cut can fall inside an argument.

In `ByteStream` callers put calls on the queue (`Start`, `SendPiece`), a script adds a response and signals
(`FollowScript`), the writer's thread takes a message (`Pop`) and writes as much of it at a time as the
stream takes (`Write`), and the reader's thread reads field by field (`ReadField`), then the body
(`ReadResponse`, `ReadPiece`, `ReadLastPiece`), or stops (`IdxTooBig`, `Termination`, `UnexpectedEof`, or a
last piece whose arguments cannot be taken apart). `Close` is the end of the sending program, at any byte.

### Wire

One host that calls and one module that is called. The host's threads make one call each, whole
(`call_with_bytes`) or in two pieces (`start_call_with_partial_args`, `end_given_call`); a call goes through
`TakeIndex` or `FindNoIndex`/`InsertIndex`, `PushResponse`, `SendWhole` or `SendPiece`, `LookUpResponse`,
`Register`, and `Return` and `Unregister` or `FailPoisoned`. Each side has the reader and the writer that
`Wire::start` spawns. The module's reader does `RejectCall`, `ReceiveArguments`, `RunStandard`,
`StartStreaming` and `NoSuchProcedure`, the branches of `receive_one`; a streaming procedure yields from a
thread of its own. The host's reader does `ReceiveResponse` and, when the part was the last,
`UnmapResponse`.

A thread that ends, for whatever reason, drops its clone of the wire, and `Drop` stores the flag and sweeps:
it drops the arguments of ongoing procedures and poisons the handles left with the wire. `Store` and `Sweep`
are two steps, and a termination received is swept first by the reader that received it and again by its
drop. A reader tests the flag before a read that blocks, so it may handle one message after the flag has
been set. A program that disappears (`Crash`) takes its threads, its queue and its memory with it. The insides
of a reader's step are in `CallBuffers`, those of a queue in `ByteStream`.

Data is abstracted to what the properties tell apart: the arguments of a call are the sequence of its
pieces, each named for its call, and a response part says whose answer and which part it is. Procedures
take the bytes they are given, as procedures registered raw do; with truncated arguments they run all the
same.

## 3. Runs

| Run | Instance | Shows |
|---|---|---|
| `roi_queue` | 4 users, 5 identifiers | unique, nothing lost, counter within demand, implements `IdAllocator` |
| `complete_lock` | 3 waiters, 2 completers, 1 poisoner | no lost wakeup, all waiters return, implements `CompleteSignal` |
| `async_complete_lock` | the same | never a wrong result; every waiter but one in the gap returns |
| `interface` | 2 identifiers, 3 pushes, 2 sources, 2 getters, discipline "mixed" | no panic, own message, only completed messages, also when asked early; a getter that knows its message returns |
| `message_stream` | 2 receivers, 2 bytes, 2 chunks before the last | chunks in order, none lost, ends and errors after the last chunk, receivers return |
| `call_buffers` | 2 unstarted wires on one interface, or 1 started wire alone; 3 calls in 2 pieces, limit 2, 3 buffers | own arguments, live wires have different identifiers, the limit holds, nothing left |
| `wire_calls` | a streaming call and one to an absent procedure, limit of one procedure, either side may signal termination | safety of calls under termination and failure; implements `RemoteCalls` |
| `wire_live` | two calls of one standard procedure, one in two pieces, the module may disappear | safety; answered handles return; handles left with a wire that terminates are poisoned, but for the case of `WireReuse.cfg` |
| `byte_stream` | a call cut inside an argument, a call that lacks one, a response, both signals; a stream of 4 bytes that may break off | implements `MessageFifo`; right arguments, right errors, calls run, the end is noticed |
| `async_lost_wakeup` | as `async_complete_lock` | **refuted**: every waiter returns |
| `wire_overlap` | two first calls of one procedure at once | **refuted**: a handle returns its own answer |
| `wire_clone_ids` | as `call_buffers`, the started wire shares its interface | **refuted**: live wires have different identifiers |

**Bounds.** Three waiters and three notifiers give every order of check, sleep, set and notify, including a
poison between two completions; a waiter interacts with others only through the mutex. Four users are enough
for two concurrent misses while the other two relinquish and draw. In `Interface` three pushes on two
identifiers recycle an identifier while a getter of its earlier message is still under way, and two sources
and two getters race for it. One getter asks for all bytes or a stream, the other for chunks, a look or a
stream (`Asks`): the first two differ only on a message with a receiver, so every kind of call is made, and
a popping one against each of them. `MaxMessages` (pushes) is a bound of the model
only. In `MessageStream` a second
receiver replaces the first and is replaced by nobody; three chunks are enough for one before, one between
and one after the two attach, or for one sent, one put back and the last; `MaxBytes` and `MaxChunks` bound
the source. In `CallBuffers` either two unstarted wires race on the same indices, where the second is made
while the first is there, while it is swept, or from the identifier it handed back, or the started wire has
the interface to itself and its three clones are dropped one by one (`Apart`); the identifier that is handed
back once per clone is in `wire_clone_ids`. Two pieces give one that is not the last; three calls against a
limit of two pass the limit, one call in a standard, one in a streaming and one in an absent procedure. In
`Wire` each thread makes one call, which keeps all counters finite; two calls exercise every pair of threads
the wire has: two callers, caller and reader, reader and writer, reader and yielder. `Yields = 2` gives a part
that is not the last and one that is. A side does not signal termination again while one of its signals is on
the way or has arrived, so the queue stays finite. In `ByteStream` the stream is shorter than every message
but the signals, so each is cut in every way; the call counter starts so that one call's index is the last of
two bytes and the next call's takes four and does not fit the reader's two-byte integers. Symmetry is used in
runs without liveness properties only, over constants that are interchangeable.

**Deadlock** is checked in `roi_queue`, where somebody can always draw or hand back. The other instances
run out of calls, or wait for a call nobody has to make, and may stop.

**Fairness.** Weak fairness of a thread that is inside an operation: a thread that can run is run, an
operation once begun goes on. Nobody has to call an operation, nothing wakes spuriously for certain, a side
need not signal or disappear, a write need not fail, and a reader that could notice the flag need not do so
before its next message. For the blocking mutex weak fairness suffices, because no thread takes it
infinitely often. A receiver inside `recv_raw` and a source inside `terminate_message` go on; a receiver need
not call `recv_raw` again, and nobody has to write. On the wire each caller, each reader, each writer and the
yielders are threads of their own (`Wire::start`, `blocking/wire.rs` 27-43); the peer's progress is the
progress of its threads. In `ByteStream` the writer and the reader are fair, and neither the callers nor the
end of the program are.

## 4. Where the program and its documentation part

Three are runs of their own, with the property that states what the documentation says.

* **`async_lost_wakeup`.** A waiter of the async lock that has checked the state and not yet created its
  `notified()` future misses a `notify_waiters` and sleeps for ever. The blocking lock has no such gap.
  `RegisteredWaitersReturn` is what remains true.
* **`wire_overlap`.** Call indices are looked up and inserted in two steps; two concurrent first calls of a
  procedure both get index 0 and share a response mapping. The other runs assume `SerialFirst`: first calls
  of one procedure do not overlap.
* **`wire_clone_ids`.** `Wire` derives `Clone`, every clone holds the identifier, and every clone's drop
  relinquishes it. `Wire::start` clones twice, so one identifier is handed back three times and issued to as
  many later wires, whose calls then share buffers. `call_buffers` assumes `Apart`: a started wire has an
  interface to itself. Wires that are used by one thread are not affected.

Further configurations that are not in the list of runs each produce a counterexample to the property they
name. They show why an assumption of the listed runs is there, or what a weaker property leaves out:

| Configuration | Module | Refutes | Because |
|---|---|---|---|
| `RoiQueueWrap.cfg` | `MCRoiQueue` | `UniqueIds` | with more live identifiers than values the counter wraps onto one in use |
| `InterfaceEarly.cfg` | `MCInterface` | `EarlyGettersReturn` | a push between looking a message up and inserting its creation lock marks no lock |
| `InterfaceShared.cfg` | `MCInterface` | `NoPanic` | two getters of one message: the second finds it popped |
| `InterfaceStale.cfg` | `MCInterface` | `DeliveredComplete` | the identifier was recycled between wait and pop |
| `StreamLate.cfg` | `MessageStream` | `AllStreamsReturn` | a receiver attached to a message that is complete has a sender that nobody drops |
| `StreamReuse.cfg` | `MessageStream` | `OthersKeepTheirEntry` | a receiver that ends unregisters, by identifier, a handle that reuses its message's |
| `CallBuffersCut.cfg` | `MCCallBuffers` | `AllOwnArguments` | a clone's sweep drops arguments, and the reader, past its check, runs the procedure on the last piece |
| `WireHang.cfg` | `MCWire` | `HandlesResolve` | a handle that registers after the termination's sweep is poisoned by nobody |
| `WireLost.cfg` | `MCWire` | `NoCallLost` | a fast answer removes the response mapping before the caller looks it up |
| `WireLimit.cfg` | `MCWire` | `RunsIntact` | at the limit a first piece is dropped, and the later piece may run as a call of its own |
| `WireReuse.cfg` | `MCWire` | `EarlyHandlesResolve` | a handle that has returned unregisters, by identifier, one that reuses its buffer, and which then waits for ever |
| `WireLeak.cfg` | `MCWire` | `BuffersFreed` | the argument buffer of an absent procedure stays |
| `WireTruncated.cfg` | `MCWire` | `RunsIntact` | a failed writer's drop sweeps arguments while the reader handles the next piece |

`wire_calls` therefore does not mix calls in pieces with a limit or with terminations, and in `wire_live`
only the module, which receives the pieces, may disappear: `RunsIntact` is false otherwise, as the last
rows of the table say. `OwnArguments` leaves out calls that were refused a piece at the limit and wires whose
other clones may be dropped while the reader works, for the same two reasons. That a piece is let in as a
call of its own at the limit is thus in `WireLimit.cfg` only; of the limit the runs show that it is never
exceeded (`WithinLimit`), and in `wire_calls`, where it is one, that calls remain remote calls (`RefinesCalls`);
in `wire_live` it is not reached. Likewise first calls that overlap are in `wire_overlap` only: the calls of
`wire_calls` are of different procedures, and `wire_live` assumes `SerialFirst`.

`WireReuse.cfg` contradicts what the field `idle_call_handles` is for, "preventing call handles from hanging
forever on wire termination" (`wire_common.rs` 120-122), and the doc of `wait`, whose lock "will be explicitly
poisoned" (`wire_common.rs` 858-860). A handle pops its message and only then removes its entry, by
identifier. In between the identifier may be given to another call, whose handle registers and loses its entry
to the first. If the wire now terminates, the sweep does not find the second handle. `RegisteredHandlesResolve`
is what remains true: a handle that is registered before the flag is set stops waiting, if no handle that had
its buffer before is yet to unregister (`StrikePending`). The same reuse may happen in the instance of
`wire_live`, which is why the exception is in the property.

The properties of `MessageStream`
leave out messages that are completed with `send(-1)`, which does not send the last chunk and keeps the
sender.

## 5. Proofs

All theorems are for every value of the constants that satisfies the named assumptions of the modules.

**RoiQueueProof.** `TypeCorrect` needs nothing else. `UniqueIdsHolds`, `AccountedHolds`,
`CounterWithinDemandHolds` and `Refinement` assume `Cardinality(Users) < Modulus`. `UniqueIds` is not
inductive: nothing in it says that the counter's value is free when `fetch_add` returns it. The invariant
`IInv` adds where every identifier is (`Accounted`) and that counter and pending misses together do not
exceed demand (`CounterWithinDemand`). Its one hard step is `MissLeavesRoom`: when a pop misses, the queue
is empty, so every identifier below the counter is held, by users other than the one that misses and those
that missed before it; an injection from identifiers to holders bounds the counter. This is the argument
that the two-step `get` never outruns demand.

**CompleteLockProof.** `MutexCorrect` proves types and mutual exclusion. `NoLostWakeupHolds` strengthens
the invariant by `SleepDecisionHolds`: a waiter that has decided to sleep and not yet done so has seen
Incomplete and still holds the mutex, so the state cannot have changed. (The async lock has no such fact,
which is the lost wakeup.) `Refinement` proves that the lock implements `CompleteSignal`.

**InterfaceProof.** `TypeCorrect` holds for every discipline. `NoPanicHolds`, `OwnMessageHolds` and
`DeliveredCompleteHolds` hold for every discipline but "free", which `InterfaceShared.cfg` and
`InterfaceStale.cfg` refute. The invariant `OwnerInv` distinguishes getters that know their message from
those that asked before there was one. Identifiers denote distinct messages (`OneIdentifier`), a message that
is known to a getter is known to no other and stays at its identifier (`OneOwner`), a getter that does not
know its message is alone at its identifier (`Alone`), and each keeps to its path: one that knows its message
never makes a creation lock, one that does not waits at its own (`OwnPath`). That it finds a message when the
lock is marked rests on `LocksUsed` and `Announced`: the lock a source marks is that of a getter that waits
there, and the message it announces is gone only if a getter that asked there was served, which would not be
alone. A message with a sender was handed to a getter that is done (`StreamOwned`), and a removal that is due
still finds the message it was due for (`RemovalPending`): this is what makes `terminate_message` safe although
it pops by identifier after it let go of the map. `DeliveredComplete` follows with
`CompletedFirst`: a getter past its wait has seen the lock complete, and a complete lock stays so. TLC checked
`OwnerInv` under all three disciplines with three getters.

**MessageStreamProof.** `TypeCorrect` includes that a message always has a chunk to append to, on which the
code's `last_mut().unwrap()` rests. `OrderInv` proves `InOrderHolds`, `EndIsCompleteHolds` and
`FailsDrainedHolds`. `InOrder` speaks of the receiver that is attached; it is kept because a receiver that was
never attached has nothing (`Fresh`), a message that is gone was completed and has nothing left to send
(`Gone`), and a receiver that was told of the end while it is the last one attached has taken all there was
(`EndedGone`). That `recv_raw` reads lock and channel in two steps is harmless because nothing closes a chunk
for a receiver after the sender went. `StoreInv` adds to this where each closed chunk is (`Somewhere`: sent, or
kept), that the kept ones are in the message in their order (`KeptInOrder`), that only one chunk is unfinished
(`Unfinished`) and what was taken is what was left (`TakenGone`), and proves `NothingLostHolds`: the put-back of
an unsendable chunk in `terminate_chunk` and `terminate_message` loses nothing.

**AsyncCompleteLockProof.** `GuardCorrect` proves the types and that the guard has one holder. `Refinement`
proves that the async lock, in spite of the wakeup it may lose, implements the safety part of
`CompleteSignal`: a waiter never returns a wrong result and a completion is never undone. Only the waiting
is at fault.

**CallBuffersProof.** `TypeCorrect` needs no assumption; its hard part is that the queue never counts up to more
identifiers than there are wires, although clones hand identifiers back several times: whatever is handed back
is put in the queue, and the queue counts up only when a wire is made. `WithinLimitHolds`: the test of the limit
and the registration are several steps apart, and the bound is kept because a reader that was let in keeps its
room (`Room`): on its own wire only the reader registers calls, and everybody else only removes them. The other
three theorems assume `Apart`. `UniqueWiresHolds`: `Separate` says that queued identifiers are issued and
differ, and that no live wire has one of them. It is kept as long as no started wire has been made
(`NoneStarted`), for then each identifier is handed back once (`CloneShape`); a started wire is alone on its
interface (`Alone`), so that what it hands back is nobody else's.

`NothingLeftHolds` rests on `LeftInv`. A reader that works keeps its clone of the wire alive (`ReaderUp`), so
somebody is still to sweep what it leaves. Every mapping in the map belongs to a call that is ongoing on a
live wire with that identifier, or that its reader is about to register (`MapSeen`, `MappingsSwept`), and
what a reader has reached agrees with what is registered and mapped (`Progress`, `StreamsOver`). Every message
is one that a mapping leads to, that a reader or a sweep has in its hands, or that a failed reader left
behind (`MessagesKept`), so when all wires are gone only the last kind remains.

`OwnArgumentsHold` rests on `OwnInv`. As long as no started wire has been made, keys of live wires
differ, because their identifiers do; so a buffer is in one pair of hands only, a mapping's or a reader's
(`Exclusive`). What is in a wire's buffer is what the wire has received of the call, in order (`InBuffer`),
what the reader holds continues it (`InReader`), and a call runs only on the last of its pieces, which is
received once (`RunOnce`). A wire that has not been made has received nothing (`Fresh`).

**WireProof.** `TypeCorrect`, `KeysUnique`, `RunsCorrect`, `AnswersCorrect`, `HandlesSafe` and `Refinement`
assume `SerialFirst`, without which `wire_overlap` refutes `AnswersIntact`, and all but `KeysUnique` assume
`PiecesKept`: calls come in one piece, or only the module may end the connection and its limit is out of
reach. Without it `WireLimit.cfg` and `WireTruncated.cfg` refute `RunsIntact`. Both runs satisfy both
assumptions, `wire_calls` with whole calls under terminations and limits and `wire_live` with pieces. Any
number of calls, procedures, buffers and yields is within the theorems, and for whole calls so are any limit,
the disappearance of either side, writers that fail and terminations from both.

The invariant `IInv` follows a call round. Calls have different keys (`KeysDiffer`): an index is taken from a
counter that only grows, and the one step that is not atomic, of a first call, has nobody beside it. What is
on its way to a side is one sequence, what the peer has written followed by what it has queued. On its way to
a module that still reads is each piece of each call at most once, the last not before the first, and no
last piece of a call that has run (`CallInv`); the arguments in a buffer are a first piece that has arrived.
So a run gets what was sent, once (`RunInv`). On its way to a host that still reads are the parts of answers
that have not been received, each once and after the part before it, and a stream yields only parts that are
not yet on their way (`AnswerInv`, with `StreamInv` and `OngoingKeyed` for the procedures that still run).
The response map leads to the call's own buffer until the lock is complete (`BufferInv`), so a buffer
holds a beginning of its call's answer, and all of it when the lock is complete (`ReceivedInv`).
A reader that removes the mapping in a step of its own has the last response still before it, which is the
one exception these parts make. None of them is inductive alone. `Refinement` maps the callers' program
points to the phases of `RemoteCalls`. TLC checked `IInv` on the instances of `wire_calls` and `wire_live`,
and `LeftInv` and `OwnInv` on that of `call_buffers`, before they were proved.

**ByteStreamProof.** All theorems hold for any calls, cuts, script and size of the stream that satisfy the
named assumptions of `ByteStream` (indices and lengths fit eight bytes, bodies are bytes) and any `Base` from
2 to 256. First the format: `IntegerBack` and `MultiflagBack` show that integers of each of the four sizes and
the eight flags are read back as they were written, and `Layout` what a message's bytes are, field by field.

The invariant `Inv` says what is on its way (`Transit`). Number all the bytes there have ever been; for some
offset and the positions at which messages end (`Laid`), what is in the stream and what `write_all` has left to
write are, from that offset on, the bytes of messages that have been sent (`Written`), the queue holds those
that come after (`Queued`), and the offset is where the reader has come to in the message whose turn it is, of
which its fields are the true ones (`ReadSoFar`). After the sending program has disappeared only the first
part remains, which is still enough: a reader that finds all bytes of a field finds the right ones. `Inv` gives
`TypeCorrect`, `Refinement` (messages arrive whole, once and in order) and `IndexGivenUpRightly` (`TooBig`).

`CallsInv` follows calls on top of it. Their keys differ, because indices are counted (`Keyings`); each piece
has a place of its own among all that was sent, after the piece before it (`Placed`); of each call the first
pieces up to some number have been received (`Gotten`), the buffers hold exactly what these come to and one
for each call that is halfway (`Collected`), and what has run, or made the reader give up, is a call that has
been received to the last piece (`Ran`, `Undone`). As the pieces of a call, wherever they were cut, come
together to its bytes (`PiecesWhole`), each call is taken apart once and from the bytes it was put together
to. `ArgumentsRight` and `StopsRight` conclude under `Restorable`: no call has more arguments than its
procedure takes, and taking apart what was put together gives the arguments back. That is a statement about
the constants alone, which TLC evaluates on the instance of `byte_stream`; for sequences of any length it takes
an induction over data. Without a restorable encoding no transport could keep the promise.

**Only model-checked.** All liveness properties (they need fairness and ENABLED), and what `IntoBytes` and
`Unpack` compute (`Restorable`), for the reason just given. `TypeOK` of `AsyncCompleteLock`, `Wire` and
`ByteStream` is proved and no run's property; the runs check deeper properties instead.

## 6. What is not modelled

* **DashMap's shards.** Each operation on a map is atomic here. `call_procedure` holds guards of two maps while
  the procedure runs, and iterations hold one shard at a time; which keys share a shard depends on the hasher
  and on the number of processors, so the deadlocks this allows are not in the model.
* **The async interface and wire**, beyond the async lock. They are instances of the same macros; the async
  `Drop` poisons handles in a task of its own, after it has relinquished the identifier.
* **Wires in module style**, which skip a response's type byte and leave its body to be read as messages;
  unknown message types, which are skipped in the same way; the unused terminator flag. No wire of the
  library sends these to such a reader.
* **Procedures that yield after their final yield** or fail after some yields, and errors of serialisation
  and deserialisation other than too few arguments.
* **`into_response_idx`**, with which a program gives up the wire's care of a handle.
* **The overflow of call indices**, which panics or wraps with the build profile.
* **Serialisation.** Of MessagePack only small integers; `serde` and `rmp` are external.
* Error types and feature flags, but for the widths of integers; examples and benchmarks.

## 7. Plan

The order was: identifier queue, locks, message store, and the wire on top of them, because the wire's
promises rest on all of the others; then the inside of a message, the called side of several wires, and the
bytes. What could come next, by importance:

1. `MessageFifo` as the queue of `Wire`, and `MessageStream` as its answers, in one composition.
2. The async drop, with its detached task, and over-eager yielders.
3. The guards that `call_procedure` and the iterators hold, for deadlock, with shards as a constant.
