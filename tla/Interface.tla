----------------------------- MODULE Interface -----------------------------
(***************************************************************************)
(* The message store of an interface (src/interface_common.rs): a map from *)
(* identifiers to messages, a completion lock in every message, and        *)
(* creation locks for those who wait for a message that does not exist.    *)
(*                                                                         *)
(* Sources push, complete, terminate and poison messages; a getter makes   *)
(* one blocking call.  Every DashMap operation is one atomic step; what a  *)
(* method reads in one step may have changed by its next.                  *)
(*                                                                         *)
(* Identifiers come from a RoiQueue, of which only what IdAllocator says   *)
(* is used: push draws one that no message has.  The two completion locks  *)
(* are the CompleteSignal that CompleteLock implements.  What is inside a  *)
(* message is left to MessageStream; here a message is a number, its place *)
(* in the order of pushes, so that the message an identifier denotes now   *)
(* can be told from the one it denoted before.                             *)
(***************************************************************************)
EXTENDS Naturals

CONSTANTS Ids,           \* message identifiers
          Sources,       \* threads that write to the interface
          Getters,       \* threads that read from it, one call each
          MaxMessages,   \* bound on the number of pushes
          Asks,          \* the kinds of calls each getter may make
          Discipline,    \* how getters choose identifiers, see Allowed
          None           \* "no message", "no lock"

Kinds == {"raw", "chunks", "peek", "stream"}

ASSUME DisciplineAssumption == Discipline \in {"handles", "sole", "mixed", "free"}
ASSUME BoundAssumption == MaxMessages \in Nat
ASSUME AsksAssumption == Asks \in [Getters -> SUBSET Kinds]
ASSUME NoneAssumption == None \notin Nat /\ None \notin Ids /\ None \notin Getters

VARIABLES messages,         \* the message at each identifier, or None
          pushed,           \* how many messages have been pushed
          complete_lock,    \* the state of each message's completion lock
          streamed,         \* messages that have a chunk sender
          creation_locks,   \* the creation lock at each identifier, or None;
                            \* a lock is named after the getter that made it
          created,          \* creation locks that have been marked complete
          source,           \* of each source: what it has yet to do, and to which id
          getter            \* of each getter: where it is, and what it knows

store == <<messages, pushed, complete_lock, streamed>>
locks == <<creation_locks, created>>
vars == <<store, locks, source, getter>>

Messages == 1 .. MaxMessages

Init ==
    /\ messages = [i \in Ids |-> None]
    /\ pushed = 0
    /\ complete_lock = [m \in Messages |-> "Incomplete"]
    /\ streamed = {}
    /\ creation_locks = [i \in Ids |-> None]
    /\ created = {}
    /\ source = [s \in Sources |-> [pc |-> "idle", id |-> None]]
    /\ getter = [g \in Getters |-> 
           [pc |-> "idle", kind |-> None, id |-> None, msg |-> None, lock |-> None]]

Exists(i) == messages[i] # None

-----------------------------------------------------------------------------
(* Mutation: an identifier that is in use is pushed over.                  *)
PushOver(s) ==
    /\ source[s].pc = "idle"
    /\ pushed < MaxMessages
    /\ \E i \in Ids :
         /\ messages' = [messages EXCEPT ![i] = pushed + 1]
         /\ source' = [source EXCEPT ![s] = [pc |-> "announce", id |-> i]]
    /\ pushed' = pushed + 1
    /\ UNCHANGED <<complete_lock, streamed, locks, getter>>

(* push: the message is in the map before its creation lock, if somebody   *)
(* made one, is looked up and marked.                                      *)
Push(s) ==
    /\ source[s].pc = "idle"
    /\ pushed < MaxMessages
    /\ \E i \in Ids :
         /\ ~Exists(i)
         /\ messages' = [messages EXCEPT ![i] = pushed + 1]
         /\ source' = [source EXCEPT ![s] = [pc |-> "announce", id |-> i]]
    /\ pushed' = pushed + 1
    /\ UNCHANGED <<complete_lock, streamed, locks, getter>>

(* Mutation: the creation lock is marked whether or not there is one.      *)
AnnounceAlways(s) ==
    /\ source[s].pc = "announce"
    /\ created' = created \cup {creation_locks[source[s].id]}
    /\ source' = [source EXCEPT ![s] = [pc |-> "idle", id |-> None]]
    /\ UNCHANGED <<store, creation_locks, getter>>

Announce(s) ==
    /\ source[s].pc = "announce"
    /\ created' = created \cup ({creation_locks[source[s].id]} \ {None})
    /\ source' = [source EXCEPT ![s] = [pc |-> "idle", id |-> None]]
    /\ UNCHANGED <<store, creation_locks, getter>>

Open(i) == Exists(i) /\ complete_lock[messages[i]] # "Complete"

(* send(-1), and terminate_message without a sender or with a sender whose *)
(* receiver is gone: the message is complete and stays in the map.         *)
Complete(s, i) ==
    /\ source[s].pc = "idle"
    /\ Open(i)
    /\ complete_lock' = [complete_lock EXCEPT ![messages[i]] = "Complete"]
    /\ UNCHANGED <<messages, pushed, streamed, locks, source, getter>>

(* terminate_message with a live receiver sends the last chunk, lets go of *)
(* the map, and then removes whatever the identifier denotes.              *)
TerminateStreamed(s, i) ==
    /\ source[s].pc = "idle"
    /\ Open(i)
    /\ messages[i] \in streamed
    /\ complete_lock' = [complete_lock EXCEPT ![messages[i]] = "Complete"]
    /\ source' = [source EXCEPT ![s] = [pc |-> "remove", id |-> i]]
    /\ UNCHANGED <<messages, pushed, streamed, locks, getter>>

RemoveStreamed(s) ==
    /\ source[s].pc = "remove"
    /\ messages' = [messages EXCEPT ![source[s].id] = None]
    /\ source' = [source EXCEPT ![s] = [pc |-> "idle", id |-> None]]
    /\ UNCHANGED <<pushed, complete_lock, streamed, locks, getter>>

(* Poisoning goes through a clone of the lock, so the message may be gone  *)
(* from the map.                                                           *)
Poison(s, m) ==
    /\ source[s].pc = "idle"
    /\ m <= pushed
    /\ complete_lock[m] = "Incomplete"
    /\ complete_lock' = [complete_lock EXCEPT ![m] = "Poisoned"]
    /\ UNCHANGED <<messages, pushed, streamed, locks, source, getter>>

-----------------------------------------------------------------------------
(* Getters.  The discipline a program follows when it calls them:          *)
(*   handles  each message has at most one getter and exists before it is  *)
(*            asked for: what a wire does with its CallHandles;            *)
(*   sole     each identifier is asked for once, possibly too early;       *)
(*   mixed    either, as long as nobody asks by handle for an identifier   *)
(*            that another getter waits at for a message it does not know; *)
(*   free     anything the signatures allow.                               *)
Active == {g \in Getters : getter[g].pc # "idle"}

ByHandle(i) == Exists(i) /\ \A g \in Active : getter[g].msg # messages[i]
Unasked(i) == \A g \in Active : getter[g].id # i
Awaited(i) == \E g \in Active : getter[g].id = i /\ getter[g].msg = None

Allowed(i) ==
    /\ Discipline = "handles" => ByHandle(i)
    /\ Discipline = "sole" => Unasked(i)
    /\ Discipline = "mixed" => Unasked(i) \/ (ByHandle(i) /\ ~Awaited(i))

(* With handles the message is known from the start: a handle is made for  *)
(* the response to one call.                                               *)
Known(i) ==
    IF Discipline = "handles" \/ (Discipline = "mixed" /\ Exists(i))
    THEN messages[i] ELSE None

Ask(g, kind, i) ==
    /\ getter[g].pc = "idle"
    /\ Allowed(i)
    /\ getter' = [getter EXCEPT ![g] =
           [pc   |-> IF kind = "stream" THEN "check" ELSE "lookup",
            kind |-> kind,
            id   |-> i,
            msg  |-> Known(i),
            lock |-> None]]
    /\ UNCHANGED <<store, locks, source>>

At(g, where) == getter[g].pc = where
Id(g) == getter[g].id

(* The effect of a step on the getter alone.                               *)
Goto(g, where) == getter' = [getter EXCEPT ![g].pc = where]

(* Having found the message, wait for it: its lock is cloned.              *)
Follow(g) == 
    getter' = [getter EXCEPT ![g].pc = "await", ![g].msg = messages[Id(g)]]

(* wait_for_message                                                        *)
Lookup(g) ==
    /\ At(g, "lookup")
    /\ IF Exists(Id(g)) THEN Follow(g) ELSE Goto(g, "check")
    /\ UNCHANGED <<store, locks, source>>

(* wait_for_message_creation                                               *)
Check(g) ==
    /\ At(g, "check")
    /\ Goto(g, IF Exists(Id(g)) THEN "found" ELSE "find")
    /\ UNCHANGED <<store, locks, source>>

FindLock(g) ==
    /\ At(g, "find")
    /\ LET lock == creation_locks[Id(g)] IN
         IF lock = None THEN Goto(g, "insert")
         ELSE getter' = [getter EXCEPT ![g].pc = "creation", ![g].lock = lock]
    /\ UNCHANGED <<store, locks, source>>

InsertLock(g) ==
    /\ At(g, "insert")
    /\ creation_locks' = [creation_locks EXCEPT ![Id(g)] = g]
    /\ getter' = [getter EXCEPT ![g].pc = "creation", ![g].lock = g]
    /\ UNCHANGED <<store, created, source>>

(* Mutation: go on without the creation lock being marked.                 *)
AwaitNoCreation(g) ==
    /\ At(g, "creation")
    /\ Goto(g, "clear")
    /\ UNCHANGED <<store, locks, source>>

AwaitCreation(g) ==
    /\ At(g, "creation")
    /\ getter[g].lock \in created
    /\ Goto(g, "clear")
    /\ UNCHANGED <<store, locks, source>>

ClearLock(g) ==
    /\ At(g, "clear")
    /\ creation_locks' = [creation_locks EXCEPT ![Id(g)] = None]
    /\ Goto(g, "found")
    /\ UNCHANGED <<store, created, source>>

(* The message "is guaranteed to exist" here: get_chunk_stream attaches a  *)
(* sender to it, the others go on to await its completion.                 *)
Found(g) ==
    /\ At(g, "found")
    /\ IF ~Exists(Id(g)) THEN Goto(g, "panicked") /\ UNCHANGED streamed
       ELSE IF getter[g].kind = "stream"
       THEN /\ streamed' = streamed \cup {messages[Id(g)]}
            /\ Goto(g, "done")
       ELSE Follow(g) /\ UNCHANGED streamed
    /\ UNCHANGED <<messages, pushed, complete_lock, locks, source>>

(* Mutation: a poisoned lock passes for a complete one.                    *)
AwaitCompletionOrPoison(g) ==
    /\ At(g, "await")
    /\ complete_lock[getter[g].msg] # "Incomplete"
    /\ Goto(g, "ref")
    /\ UNCHANGED <<store, locks, source>>

(* Mutation: a poisoned lock is waited for.                                *)
AwaitCompletionOnly(g) ==
    /\ At(g, "await")
    /\ complete_lock[getter[g].msg] = "Complete"
    /\ Goto(g, "ref")
    /\ UNCHANGED <<store, locks, source>>

AwaitCompletion(g) ==
    /\ At(g, "await")
    /\ complete_lock[getter[g].msg] # "Incomplete"
    /\ Goto(g, IF complete_lock[getter[g].msg] = "Poisoned" THEN "failed" ELSE "ref")
    /\ UNCHANGED <<store, locks, source>>

(* The lock said complete, so the message is looked up again.  is_chunked  *)
(* and has_stream need no more; get_chunks gives up on a streamed message. *)
TakeRef(g) ==
    /\ At(g, "ref")
    /\ Goto(g, IF ~Exists(Id(g)) THEN "panicked"
               ELSE IF \/ getter[g].kind = "peek"
                       \/ getter[g].kind = "chunks" /\ messages[Id(g)] \in streamed
               THEN "done"
               ELSE "pop")
    /\ UNCHANGED <<store, locks, source>>

(* The reference is dropped and the message popped in a step of its own.   *)
Pop(g) ==
    /\ At(g, "pop")
    /\ IF Exists(Id(g))
       THEN /\ messages' = [messages EXCEPT ![Id(g)] = None]
            /\ getter' = [getter EXCEPT ![g].pc = "popped", ![g].msg = messages[Id(g)]]
       ELSE Goto(g, "panicked") /\ UNCHANGED messages
    /\ UNCHANGED <<pushed, complete_lock, streamed, locks, source>>

Get(g) ==
    \/ Lookup(g) \/ Check(g) \/ FindLock(g) \/ InsertLock(g)
    \/ AwaitCreation(g) \/ ClearLock(g) \/ Found(g)
    \/ AwaitCompletion(g) \/ TakeRef(g) \/ Pop(g)

-----------------------------------------------------------------------------
Write(s) ==
    \/ Push(s) \/ Announce(s) \/ RemoveStreamed(s)
    \/ \E i \in Ids : Complete(s, i) \/ TerminateStreamed(s, i)
    \/ \E m \in Messages : Poison(s, m)

Next ==
    \/ \E s \in Sources : Write(s)
    \/ \E g \in Getters : Get(g) \/ \E kind \in Asks[g], i \in Ids : Ask(g, kind, i)

Spec == Init /\ [][Next]_vars

(* A thread inside a method goes on with it; nobody has to call one.       *)
Fairness ==
    /\ \A s \in Sources : WF_vars(Announce(s) \/ RemoveStreamed(s))
    /\ \A g \in Getters : WF_vars(Get(g))

FairSpec == Spec /\ Fairness

-----------------------------------------------------------------------------
Waiting == {"lookup", "check", "find", "insert", "creation", "clear", "found",
            "await", "ref", "pop"}
Returned == {"popped", "done", "failed"}

GetterStates ==
    [pc   : {"idle", "panicked"} \cup Waiting \cup Returned,
     kind : Kinds \cup {None},
     id   : Ids \cup {None},
     msg  : 1 .. pushed \cup {None},
     lock : Getters \cup {None}]

SourceStates == [pc : {"idle", "announce", "remove"}, id : Ids \cup {None}]

(* Every variable keeps its type, and whoever is inside a method knows the *)
(* identifier it was called with.                                          *)
TypeOK ==
    /\ pushed \in 0 .. MaxMessages
    /\ messages \in [Ids -> 1 .. pushed \cup {None}]
    /\ complete_lock \in [Messages -> {"Incomplete", "Complete", "Poisoned"}]
    /\ streamed \in SUBSET (1 .. pushed)
    /\ creation_locks \in [Ids -> Getters \cup {None}]
    /\ created \in SUBSET Getters
    /\ source \in [Sources -> SourceStates]
    /\ getter \in [Getters -> GetterStates]
    /\ \A s \in Sources : source[s].pc # "idle" => source[s].id \in Ids
    /\ \A g \in Getters : getter[g].pc # "idle" => getter[g].id \in Ids

(* No getter panics: what a lock announced is still there when the message *)
(* is looked up again ("This definitely exists if we got here (and it      *)
(* logically has to)", get_raw).                                           *)
NoPanic == \A g \in Getters : ~At(g, "panicked")

(* A getter that knows its message finds that message at its identifier    *)
(* until it has taken it, however often identifiers are recycled.          *)
OwnMessage ==
    \A g \in Getters :
        getter[g].pc \in Waiting /\ getter[g].msg # None =>
            messages[Id(g)] = getter[g].msg

(* What a getter takes out of the interface has been completed: get_raw    *)
(* blocks "until the message with the given identifier has been created    *)
(* and completed".                                                         *)
DeliveredComplete ==
    \A g \in Getters :
        At(g, "popped") => complete_lock[getter[g].msg] = "Complete"

(* A getter returns once its message has been completed or poisoned.       *)
GettersReturn ==
    \A g \in Getters :
        /\ getter[g].pc \in Waiting
        /\ getter[g].msg # None
        /\ complete_lock[getter[g].msg] # "Incomplete"
        ~> getter[g].pc \in Returned

(* A getter that asked for an identifier returns once a message has been   *)
(* created there and completed, also when it asked before it was created.  *)
EarlyGettersReturn ==
    \A g \in Getters :
        /\ getter[g].pc \in Waiting
        /\ Exists(Id(g))
        /\ complete_lock[messages[Id(g)]] = "Complete"
        ~> getter[g].pc \in Returned
=============================================================================
