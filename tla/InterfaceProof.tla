--------------------------- MODULE InterfaceProof ---------------------------
(***************************************************************************)
(* Proofs about Interface, for any sets of identifiers, sources and        *)
(* getters and any number of messages.  Typing holds for every discipline. *)
(* Under every discipline but "free" the unwraps of the getters cannot     *)
(* fail.  The invariant behind it: a message that a getter knows has no    *)
(* other owner (OneOwner), a getter that does not know its message is      *)
(* alone at its identifier (Alone), a message with a sender has been       *)
(* handed to a stream, so that the removal in terminate_message takes it   *)
(* from nobody (StreamOwned, RemovalPending), and a creation lock is       *)
(* marked only when there is a message (LocksUsed, Announced).             *)
(***************************************************************************)
EXTENDS Interface, TLAPS

(* An identifier denotes one message at a time, and no message is at two.  *)
OneIdentifier == \A i, j \in Ids : Exists(i) /\ messages[i] = messages[j] => i = j

(* A getter may know its message from the start, or learn it on its way.   *)
Unaware == {g \in Active : getter[g].msg = None}
Aware == Active \ Unaware

(* A message that a getter knows is known to no other, and is not moved.   *)
OneOwner ==
    \A g \in Aware :
        /\ \A h \in Active : h # g => getter[h].msg # getter[g].msg
        /\ \A i \in Ids : messages[i] = getter[g].msg => i = Id(g)

(* A getter that does not know its message is alone at its identifier, and *)
(* with handles there is none.                                             *)
Alone == \A g \in Unaware : \A h \in Active : Id(h) = Id(g) => h = g
HandlesKnow == Discipline = "handles" => Unaware = {}

(* One that knows its message never makes a creation lock; one that does   *)
(* not waits at its own lock, and goes on when there is a message.         *)
Early == {"lookup", "check", "find", "insert"}
Creating == {"creation", "clear"}
OwnPath ==
    /\ \A g \in Aware : getter[g].pc \notin {"find", "insert", "panicked"} \cup Creating
    /\ \A g \in Unaware :
         /\ getter[g].pc \in Early \cup Creating \cup {"found", "done"}
         /\ getter[g].pc \in {"clear", "found"} => Exists(Id(g))
         /\ At(g, "creation") => getter[g].lock = g /\ (g \in created => Exists(Id(g)))

(* A creation lock is at the identifier of the getter that waits at it,    *)
(* and is not marked before it is there.                                   *)
LocksUsed ==
    /\ \A i \in Ids : creation_locks[i] # None =>
         getter[creation_locks[i]].pc \in Creating /\ Id(creation_locks[i]) = i
    /\ \A g \in created : g \in Active /\ (g \in Unaware => getter[g].pc \notin Early)

(* A message that is yet to be announced is there, or a getter that asked  *)
(* at its identifier has been served.                                      *)
Announced ==
    \A s \in Sources : source[s].pc = "announce" =>
        \/ Exists(source[s].id)
        \/ \E g \in Getters : getter[g].pc \in Returned /\ Id(g) = source[s].id

(* Only the owner attaches a sender, and that was its whole call.          *)
StreamOwned ==
    \A i \in Ids : Exists(i) /\ messages[i] \in streamed =>
        \E g \in Getters : /\ At(g, "done") /\ Id(g) = i
                           /\ getter[g].msg \in {messages[i], None}

(* A removal that is due finds the message it was due for.                 *)
RemovalPending ==
    /\ \A s \in Sources : source[s].pc = "remove" =>
         /\ Exists(source[s].id)
         /\ messages[source[s].id] \in streamed
         /\ complete_lock[messages[source[s].id]] = "Complete"
    /\ \A s, t \in Sources :
         s # t /\ source[s].pc = "remove" /\ source[t].pc = "remove"
           => source[s].id # source[t].id

OwnerInv ==
    /\ TypeOK /\ OneIdentifier /\ OneOwner /\ Alone /\ HandlesKnow
    /\ OwnPath /\ OwnMessage /\ LocksUsed
    /\ Announced /\ StreamOwned /\ RemovalPending

-----------------------------------------------------------------------------
(* The shape of every getter's step: one record changes, the types of the  *)
(* fields it changes are given.                                            *)
LEMMA GetterStep ==
    ASSUME TypeOK, UNCHANGED pushed, NEW g \in Getters, NEW new \in GetterStates,
           getter' = [getter EXCEPT ![g] = new],
           new.pc # "idle" => new.id \in Ids
    PROVE  /\ getter' \in [Getters -> GetterStates']
           /\ \A h \in Getters : getter'[h].pc # "idle" => getter'[h].id \in Ids
<1>1. GetterStates' = GetterStates
  BY DEF GetterStates
<1>2. getter \in [Getters -> GetterStates]
  BY DEF TypeOK
<1>3. \A h \in Getters : getter'[h] = IF h = g THEN new ELSE getter[h]
  BY <1>2
<1>4. \A h \in Getters : getter[h].pc # "idle" => getter[h].id \in Ids
  BY DEF TypeOK
<1> QED BY <1>1, <1>2, <1>3, <1>4

(* A getter that only changes its place keeps its type.                    *)
LEMMA GotoType ==
    ASSUME TypeOK, UNCHANGED pushed, NEW g \in Getters, getter[g].pc # "idle",
           NEW where \in {"panicked"} \cup Waiting \cup Returned,
           Goto(g, where)
    PROVE  /\ getter' \in [Getters -> GetterStates']
           /\ \A h \in Getters : getter'[h].pc # "idle" => getter'[h].id \in Ids
<1> DEFINE new == [getter[g] EXCEPT !.pc = where]
<1>1. getter[g] \in GetterStates /\ getter[g].id \in Ids
  BY DEF TypeOK
<1>2. new \in GetterStates /\ new.id \in Ids
  BY <1>1 DEF GetterStates
<1>3. getter' = [getter EXCEPT ![g] = new]
  BY DEF Goto
<1> HIDE DEF new
<1> QED BY <1>2, <1>3, GetterStep

(* ... and so does one that finds or makes a creation lock ...             *)
LEMMA GotoLockType ==
    ASSUME TypeOK, UNCHANGED pushed, NEW g \in Getters, getter[g].pc # "idle",
           NEW l \in Getters,
           getter' = [getter EXCEPT ![g].pc = "creation", ![g].lock = l]
    PROVE  /\ getter' \in [Getters -> GetterStates']
           /\ \A h \in Getters : getter'[h].pc # "idle" => getter'[h].id \in Ids
<1> DEFINE new == [getter[g] EXCEPT !.pc = "creation", !.lock = l]
<1>1. getter[g] \in GetterStates /\ getter[g].id \in Ids
  BY DEF TypeOK
<1>2. new \in GetterStates /\ new.id \in Ids
  BY <1>1 DEF GetterStates, Waiting
<1>3. getter' = [getter EXCEPT ![g] = new]
  BY <1>1 DEF TypeOK
<1> HIDE DEF new
<1> QED BY <1>2, <1>3, GetterStep

(* ... or learns which message it waits for.                               *)
LEMMA GotoMessageType ==
    ASSUME TypeOK, UNCHANGED pushed, NEW g \in Getters, getter[g].pc # "idle",
           Exists(Id(g)), NEW where \in {"await", "popped"},
           getter' = [getter EXCEPT ![g].pc = where, ![g].msg = messages[Id(g)]]
    PROVE  /\ getter' \in [Getters -> GetterStates']
           /\ \A h \in Getters : getter'[h].pc # "idle" => getter'[h].id \in Ids
<1> DEFINE new == [getter[g] EXCEPT !.pc = where, !.msg = messages[Id(g)]]
<1>1. getter[g] \in GetterStates /\ getter[g].id \in Ids
  BY DEF TypeOK
<1>2. messages[Id(g)] \in 1 .. pushed
  BY <1>1 DEF TypeOK, Exists, Id
<1>3. new \in GetterStates /\ new.id \in Ids
  BY <1>1, <1>2 DEF GetterStates, Waiting, Returned
<1>4. getter' = [getter EXCEPT ![g] = new]
  BY <1>1 DEF TypeOK
<1> HIDE DEF new
<1> QED BY <1>3, <1>4, GetterStep

(* A getter makes only calls of the kinds there are.                       *)
LEMMA AskedKind == \A g \in Getters : \A kind \in Asks[g] : kind \in Kinds
BY AsksAssumption

-----------------------------------------------------------------------------
(* The store keeps its types whatever getters ask for.                     *)
THEOREM TypeCorrect == Spec => []TypeOK
<1> USE NoneAssumption, BoundAssumption DEF Messages
<1>1. Init => TypeOK
  BY DEF Init, TypeOK, GetterStates, SourceStates
<1>2. TypeOK /\ [Next]_vars => TypeOK'
  <2> SUFFICES ASSUME TypeOK, [Next]_vars PROVE TypeOK'
    OBVIOUS
  <2>1. CASE UNCHANGED vars
    BY <2>1 DEF vars, store, locks, TypeOK, GetterStates
  <2>2. ASSUME NEW s \in Sources, Push(s) PROVE TypeOK'
    <3>1. PICK i \in Ids :
            /\ messages' = [messages EXCEPT ![i] = pushed + 1]
            /\ source' = [source EXCEPT ![s] = [pc |-> "announce", id |-> i]]
      BY <2>2 DEF Push
    <3>2. pushed' = pushed + 1 /\ pushed' \in 0 .. MaxMessages
      BY <2>2 DEF Push, TypeOK
    <3>3. 1 .. pushed \subseteq 1 .. pushed' /\ pushed' \in 1 .. pushed'
      BY <3>2 DEF TypeOK
    <3>4. messages' \in [Ids -> 1 .. pushed' \cup {None}] /\ streamed' \subseteq 1 .. pushed'
      BY <2>2, <3>1, <3>2, <3>3 DEF Push, TypeOK
    <3>5. GetterStates \subseteq GetterStates'
      BY <3>3 DEF GetterStates
    <3>6. getter' \in [Getters -> GetterStates']
          /\ \A g \in Getters : getter'[g].pc # "idle" => getter'[g].id \in Ids
      BY <2>2, <3>5 DEF Push, TypeOK
    <3>7. source' \in [Sources -> SourceStates]
          /\ \A t \in Sources : source'[t].pc # "idle" => source'[t].id \in Ids
      BY <3>1 DEF TypeOK, SourceStates
    <3> QED BY <2>2, <3>2, <3>4, <3>6, <3>7 DEF Push, locks, TypeOK
  <2>3. ASSUME NEW s \in Sources, Announce(s) PROVE TypeOK'
    <3>1. created' \subseteq Getters
      BY <2>3 DEF Announce, TypeOK
    <3> QED BY <2>3, <3>1 DEF Announce, store, TypeOK, SourceStates, GetterStates
  <2>4. ASSUME NEW s \in Sources, RemoveStreamed(s) PROVE TypeOK'
    BY <2>4 DEF RemoveStreamed, locks, TypeOK, SourceStates, GetterStates
  <2>5. ASSUME NEW s \in Sources, NEW i \in Ids, Complete(s, i) PROVE TypeOK'
    BY <2>5 DEF Complete, Open, Exists, locks, TypeOK, GetterStates
  <2>6. ASSUME NEW s \in Sources, NEW i \in Ids, TerminateStreamed(s, i) PROVE TypeOK'
    BY <2>6 DEF TerminateStreamed, Open, Exists, locks, TypeOK, SourceStates, GetterStates
  <2>7. ASSUME NEW s \in Sources, NEW m \in Messages, Poison(s, m) PROVE TypeOK'
    BY <2>7 DEF Poison, locks, TypeOK, GetterStates
  <2>8. ASSUME NEW g \in Getters, NEW kind \in Kinds, NEW i \in Ids, Ask(g, kind, i)
        PROVE  TypeOK'
    <3> DEFINE new == [pc |-> IF kind = "stream" THEN "check" ELSE "lookup",
                       kind |-> kind, id |-> i,
                       msg |-> Known(i),
                       lock |-> None]
    <3>1. new \in GetterStates /\ new.id \in Ids
      BY DEF GetterStates, Waiting, TypeOK, Known
    <3>2. getter' = [getter EXCEPT ![g] = new] /\ UNCHANGED pushed
      BY <2>8 DEF Ask, store
    <3> HIDE DEF new
    <3> QED BY <3>1, <3>2, <2>8, GetterStep DEF Ask, store, locks, TypeOK
  <2>9. ASSUME NEW g \in Getters, Get(g) PROVE TypeOK'
    <3>1. UNCHANGED pushed /\ getter[g].pc # "idle"
      BY <2>9 DEF Get, Lookup, Check, FindLock, InsertLock, AwaitCreation, ClearLock,
                  Found, AwaitCompletion, TakeRef, Pop, store, At
    <3>2. /\ getter' \in [Getters -> GetterStates']
          /\ \A h \in Getters : getter'[h].pc # "idle" => getter'[h].id \in Ids
      <4>1. CASE \E where \in {"panicked"} \cup Waiting \cup Returned : Goto(g, where)
        BY <3>1, <4>1, GotoType
      <4>2. CASE FindLock(g) \/ InsertLock(g)
        <5>1. \/ \E where \in Waiting : Goto(g, where)
              \/ \E l \in Getters : 
                    getter' = [getter EXCEPT ![g].pc = "creation", ![g].lock = l]
          BY <3>1, <4>2 DEF FindLock, InsertLock, TypeOK, Waiting, Id
        <5> QED BY <3>1, <4>1, <5>1, GotoLockType
      <4>3. CASE Lookup(g) \/ Found(g) \/ Pop(g)
        <5>1. \/ \E where \in {"panicked"} \cup Waiting \cup Returned : Goto(g, where)
              \/ Exists(Id(g)) /\ \E where \in {"await", "popped"} :
                   getter' = [getter EXCEPT ![g].pc = where, ![g].msg = messages[Id(g)]]
          BY <4>3 DEF Lookup, Found, Pop, Follow, Waiting, Returned
        <5> QED BY <3>1, <4>1, <5>1, GotoMessageType
      <4>4. CASE Check(g) \/ AwaitCreation(g) \/ ClearLock(g)
        BY <4>1, <4>4 DEF Check, AwaitCreation, ClearLock, Waiting
      <4>5. CASE AwaitCompletion(g) \/ TakeRef(g)
        <5>1. \E where \in {"panicked"} \cup Waiting \cup Returned : Goto(g, where)
          BY <4>5 DEF AwaitCompletion, TakeRef, Waiting, Returned
        <5> QED BY <4>1, <5>1
      <4> QED BY <2>9, <4>2, <4>3, <4>4, <4>5 DEF Get
    <3>3. messages' \in [Ids -> 1 .. pushed' \cup {None}] /\ streamed' \subseteq 1 .. pushed'
      <4>1. Id(g) \in Ids
        BY <3>1 DEF TypeOK, Id
      <4>2. \/ messages' = messages
            \/ messages' = [messages EXCEPT ![Id(g)] = None]
        BY <2>9 DEF Get, Lookup, Check, FindLock, InsertLock, AwaitCreation, ClearLock,
                    Found, AwaitCompletion, TakeRef, Pop, store
      <4>3. \/ streamed' = streamed
            \/ Exists(Id(g)) /\ streamed' = streamed \cup {messages[Id(g)]}
        BY <2>9 DEF Get, Lookup, Check, FindLock, InsertLock, AwaitCreation, ClearLock,
                    Found, AwaitCompletion, TakeRef, Pop, store
      <4> QED BY <3>1, <4>1, <4>2, <4>3 DEF TypeOK, Exists
    <3>4. /\ creation_locks' \in [Ids -> Getters \cup {None}]
          /\ UNCHANGED <<complete_lock, created, source>>
      BY <2>9, <3>1 DEF Get, Lookup, Check, FindLock, InsertLock, AwaitCreation, ClearLock,
              Found, AwaitCompletion, TakeRef, Pop, store, locks, TypeOK
    <3> QED BY <3>1, <3>2, <3>3, <3>4 DEF TypeOK
  <2> QED BY <2>1, <2>2, <2>3, <2>4, <2>5, <2>6, <2>7, <2>8, <2>9, AskedKind DEF Next, Write
<1> QED BY <1>1, <1>2, PTL DEF Spec

-----------------------------------------------------------------------------
(* A getter's step moves it along and keeps its identifier.                *)
Moves(g, where) ==
    /\ getter'[g].pc = where
    /\ getter'[g].msg = getter[g].msg
    /\ getter'[g].id = getter[g].id
    /\ getter'[g].lock = getter[g].lock
    /\ \A h \in Getters \ {g} : getter'[h] = getter[h]

(* A getter that is inside its call knows its message or does not.         *)
LEMMA Knowledge ==
    ASSUME TypeOK, NEW g \in Getters, getter[g].pc # "idle"
    PROVE  /\ Id(g) \in Ids
           /\ getter[g].msg = None => g \in Unaware
           /\ getter[g].msg # None => g \in Aware
BY DEF TypeOK, Id, Active, Unaware, Aware

(* A getter that knows its message and is not yet served finds it.         *)
LEMMA OwnMessageExists ==
    ASSUME OwnerInv, NEW g \in Aware, getter[g].pc \in Waiting
    PROVE  /\ Exists(Id(g)) /\ messages[Id(g)] = getter[g].msg
           /\ Id(g) \in Ids
<1>1. g \in Getters /\ getter[g].msg # None
  BY DEF Aware, Unaware, Active
<1>2. messages[Id(g)] = getter[g].msg
  BY <1>1 DEF OwnerInv, OwnMessage
<1> QED BY <1>1, <1>2 DEF Exists, OwnerInv, TypeOK, Id, Waiting

(* Goto moves one getter and leaves what it knows.                         *)
LEMMA GotoMoves ==
    ASSUME TypeOK, NEW g \in Getters, NEW where, Goto(g, where)
    PROVE  Moves(g, where)
<1>1. getter \in [Getters -> GetterStates] /\ getter[g] \in GetterStates
  BY DEF TypeOK
<1> QED BY <1>1 DEF Goto, Moves, GetterStates

(* So does Follow, if the message found is the one known.                  *)
LEMMA FollowMoves ==
    ASSUME TypeOK, NEW g \in Getters, NEW where, messages[Id(g)] = getter[g].msg,
           getter' = [getter EXCEPT ![g].pc = where, ![g].msg = messages[Id(g)]]
    PROVE  Moves(g, where)
<1>1. getter \in [Getters -> GetterStates] /\ getter[g] \in GetterStates
  BY DEF TypeOK
<1> QED BY <1>1 DEF Moves, GetterStates

(* The kinds of step of a getter that knows its message.                   *)
LEMMA AwareSteps ==
    ASSUME OwnerInv, NEW g \in Aware, Get(g)
    PROVE  /\ getter[g].pc \in Waiting
           /\ UNCHANGED <<pushed, complete_lock, source, locks>>
           /\ \/ /\ \E where \in {"found", "await", "ref", "pop", "done", "failed"} :
                        Moves(g, where)
                 /\ UNCHANGED <<messages, streamed>>
              \/ /\ Moves(g, "done")
                 /\ streamed' = streamed \cup {messages[Id(g)]}
                 /\ UNCHANGED messages
              \/ /\ Moves(g, "popped")
                 /\ messages' = [messages EXCEPT ![Id(g)] = None]
                 /\ UNCHANGED streamed
<1>0. g \in Getters /\ TypeOK
  BY DEF Aware, Active, OwnerInv
<1>1. /\ getter[g].pc \in Waiting
      /\ UNCHANGED <<pushed, complete_lock, source>>
  BY DEF Get, Lookup, Check, FindLock, InsertLock, AwaitCreation, ClearLock, Found,
         AwaitCompletion, TakeRef, Pop, At, store, Waiting
<1>2. Exists(Id(g)) /\ messages[Id(g)] = getter[g].msg
  BY <1>1, OwnMessageExists
<1>4. CASE Lookup(g)
  BY <1>0, <1>1, <1>2, <1>4, FollowMoves DEF Lookup, Follow, store
<1>5. CASE Check(g)
  BY <1>0, <1>1, <1>2, <1>5, GotoMoves DEF Check, store
<1>6. CASE FindLock(g) \/ InsertLock(g) \/ AwaitCreation(g) \/ ClearLock(g)
  <2>1. getter[g].pc \notin {"find", "insert", "creation", "clear"}
    BY DEF OwnerInv, OwnPath, Creating
  <2> QED BY <1>6, <2>1 DEF FindLock, InsertLock, AwaitCreation, ClearLock, At
<1>7. CASE Found(g)
  <2>1. CASE getter[g].kind = "stream"
    BY <1>0, <1>1, <1>2, <1>7, <2>1, GotoMoves DEF Found
  <2>2. CASE getter[g].kind # "stream"
    BY <1>0, <1>1, <1>2, <1>7, <2>2, FollowMoves DEF Found, Follow
  <2> QED BY <2>1, <2>2
<1>8. CASE AwaitCompletion(g)
  <2>1. Goto(g, "failed") \/ Goto(g, "ref")
    BY <1>8 DEF AwaitCompletion
  <2>2. Moves(g, "failed") \/ Moves(g, "ref")
    BY <1>0, <2>1, GotoMoves
  <2> QED BY <1>1, <2>2, <1>8 DEF AwaitCompletion, store
<1>9. CASE TakeRef(g)
  <2>1. Goto(g, "done") \/ Goto(g, "pop")
    BY <1>2, <1>9 DEF TakeRef
  <2>2. Moves(g, "done") \/ Moves(g, "pop")
    BY <1>0, <2>1, GotoMoves
  <2> QED BY <1>1, <2>2, <1>9 DEF TakeRef, store
<1>10. CASE Pop(g)
  BY <1>0, <1>1, <1>2, <1>10, FollowMoves DEF Pop
<1> QED BY <1>4, <1>5, <1>6, <1>7, <1>8, <1>9, <1>10 DEF Get

-----------------------------------------------------------------------------
(* One lemma per kind of step.  Typing is known on both sides.  What only  *)
(* getters change is kept when they do not step.                           *)
LEMMA GettersRest ==
    ASSUME OwnerInv, UNCHANGED getter
    PROVE  /\ Alone' /\ HandlesKnow'
           /\ Unaware' = Unaware /\ Aware' = Aware /\ Active' = Active
           /\ \A g \in Getters : At(g, "done")' = At(g, "done") /\ Id(g)' = Id(g)
BY DEF OwnerInv, Alone, HandlesKnow, Unaware, Aware, Active, At, Id

LEMMA PushKeeps ==
    ASSUME OwnerInv, TypeOK', NEW s \in Sources, Push(s)
    PROVE  OwnerInv'
<1>1. PICK i \in Ids :
        /\ ~Exists(i)
        /\ messages' = [messages EXCEPT ![i] = pushed + 1]
        /\ source' = [source EXCEPT ![s] = [pc |-> "announce", id |-> i]]
  BY DEF Push
<1>2. UNCHANGED <<complete_lock, streamed, getter, creation_locks, created>>
  BY DEF Push, locks
<1>3. \A j \in Ids : messages'[j] = IF j = i THEN pushed + 1 ELSE messages[j]
  BY <1>1 DEF OwnerInv, TypeOK
<1>4. /\ \A j \in Ids : Exists(j) => messages'[j] = messages[j] /\ messages[j] # pushed + 1
      /\ \A j \in Ids : Exists(j) => Exists(j)'
      /\ Exists(i)' /\ pushed + 1 \notin streamed
      /\ \A g \in Getters : getter[g].msg # pushed + 1
  BY <1>1, <1>3, NoneAssumption DEF OwnerInv, TypeOK, Exists, GetterStates
<1>5. OneIdentifier'
  BY <1>1, <1>3, <1>4 DEF OwnerInv, OneIdentifier, Exists
<1>6. OneOwner'
  BY <1>2, <1>3, <1>4, GettersRest DEF OwnerInv, OneOwner, Id, Aware, Active
<1>7. OwnPath'
  <2>1. \A g \in Unaware : Id(g) \in Ids
    BY DEF OwnerInv, TypeOK, Unaware, Active, Id
  <2> QED BY <1>2, <1>4, <2>1, GettersRest DEF OwnerInv, OwnPath, At, Id
<1>8. OwnMessage'
  <2> SUFFICES ASSUME NEW g \in Getters, getter[g].pc \in Waiting, getter[g].msg # None
               PROVE  messages'[Id(g)] = getter[g].msg
    BY <1>2 DEF OwnMessage, Id
  <2>1. g \in Aware
    BY Knowledge DEF OwnerInv, Waiting
  <2> QED BY <1>4, <2>1, OwnMessageExists
<1>9. LocksUsed'
  BY <1>2, GettersRest DEF OwnerInv, LocksUsed, Id, At
<1>10. \A t \in Sources : source'[t] = IF t = s THEN [pc |-> "announce", id |-> i]
                                       ELSE source[t]
  BY <1>1 DEF OwnerInv, TypeOK
<1>11. Announced'
  <2>1. \A t \in Sources : source[t].pc = "announce" => source[t].id \in Ids
    BY DEF OwnerInv, TypeOK
  <2> QED BY <1>2, <1>4, <1>10, <2>1 DEF OwnerInv, Announced, Exists, Id
<1>12. StreamOwned'
  BY <1>2, <1>3, <1>4 DEF OwnerInv, StreamOwned, At, Id, Exists
<1>13. RemovalPending'
  BY <1>2, <1>4, <1>10 DEF OwnerInv, TypeOK, RemovalPending
<1> QED BY <1>5, <1>6, <1>7, <1>8, <1>9, <1>11, <1>12, <1>13, GettersRest, <1>2 DEF OwnerInv

(* An announcement marks a lock whose getter has a message.                *)
LEMMA AnnounceKeeps ==
    ASSUME OwnerInv, TypeOK', NEW s \in Sources, Announce(s)
    PROVE  OwnerInv'
<1> DEFINE i == source[s].id
           l == creation_locks[i]
<1>1. /\ UNCHANGED <<messages, complete_lock, streamed, getter, creation_locks>>
      /\ source[s].pc = "announce" /\ i \in Ids
      /\ created' = created \cup ({l} \ {None})
  BY DEF Announce, store, OwnerInv, TypeOK
<1>2. \A t \in Sources :
        source'[t] = IF t = s THEN [pc |-> "idle", id |-> None] ELSE source[t]
  BY DEF Announce, OwnerInv, TypeOK
<1>3. ASSUME l # None
      PROVE  l \in Unaware /\ getter[l].pc \in Creating /\ Exists(Id(l))
  <2>1. l \in Getters /\ getter[l].pc \in Creating /\ Id(l) = i
    BY <1>1, <1>3 DEF OwnerInv, LocksUsed, TypeOK
  <2>2. l \in Unaware
    BY <2>1, Knowledge DEF OwnerInv, OwnPath, Creating
  <2>3. ~\E h \in Getters : getter[h].pc \in Returned /\ Id(h) = i
    BY <2>1, <2>2 DEF OwnerInv, Alone, Active, Creating, Returned
  <2>4. Exists(i)
    BY <1>1, <2>3 DEF OwnerInv, Announced
  <2> QED BY <2>1, <2>2, <2>4
<1> HIDE DEF i, l
<1>4. OneIdentifier' /\ OneOwner' /\ OwnMessage' /\ StreamOwned'
  BY <1>1, GettersRest DEF OwnerInv, OneIdentifier, OneOwner, OwnMessage, StreamOwned, At, Exists, Id
<1>5. OwnPath'
  BY <1>1, <1>3, GettersRest DEF OwnerInv, OwnPath, At, Id, Exists
<1>6. LocksUsed'
  BY <1>1, <1>3, GettersRest DEF OwnerInv, LocksUsed, Id, Unaware, Creating, Early
<1>7. Announced' /\ RemovalPending'
  BY <1>1, <1>2 DEF OwnerInv, Announced, RemovalPending, Exists, Id
<1> QED BY <1>1, <1>4, <1>5, <1>6, <1>7, GettersRest DEF OwnerInv

(* Completing and poisoning touch nothing but a completion lock, and never *)
(* one that is complete.                                                   *)
LEMMA LockKeeps ==
    ASSUME OwnerInv, TypeOK', UNCHANGED <<messages, streamed, locks, source, getter>>,
           \A m \in Messages : complete_lock[m] = "Complete" => complete_lock'[m] = "Complete"
    PROVE  OwnerInv'
<1>1. OneIdentifier' /\ OneOwner' /\ OwnMessage' /\ StreamOwned' /\ OwnPath' /\ LocksUsed'
      /\ Announced'
  BY GettersRest DEF OwnerInv, OneIdentifier, OneOwner, OwnMessage, StreamOwned, OwnPath,
         LocksUsed, Announced, At, Exists, Id, locks
<1>2. \A i \in Ids : Exists(i) => messages[i] \in Messages
  BY BoundAssumption DEF OwnerInv, TypeOK, Exists, Messages
<1>3. RemovalPending'
  BY <1>2 DEF OwnerInv, RemovalPending, Exists, TypeOK
<1> QED BY <1>1, <1>3, GettersRest DEF OwnerInv

(* The message of a removal that becomes due is streamed.                  *)
LEMMA TerminateKeeps ==
    ASSUME OwnerInv, TypeOK', NEW s \in Sources, NEW i \in Ids, TerminateStreamed(s, i)
    PROVE  OwnerInv'
<1>1. UNCHANGED <<messages, streamed, getter, creation_locks, created>>
  BY DEF TerminateStreamed, locks
<1>2. /\ Exists(i) /\ messages[i] \in streamed /\ messages[i] \in Messages
      /\ complete_lock[messages[i]] # "Complete"
      /\ complete_lock' = [complete_lock EXCEPT ![messages[i]] = "Complete"]
  BY BoundAssumption DEF TerminateStreamed, Open, OwnerInv, TypeOK, Exists, Messages
<1>3. \A t \in Sources :
        source'[t] = IF t = s THEN [pc |-> "remove", id |-> i] ELSE source[t]
  BY DEF TerminateStreamed, OwnerInv, TypeOK
<1>4. OneIdentifier' /\ OneOwner' /\ OwnMessage' /\ StreamOwned' /\ OwnPath' /\ LocksUsed'
  BY <1>1, GettersRest DEF OwnerInv, OneIdentifier, OneOwner, OwnMessage, StreamOwned, OwnPath,
         LocksUsed, At, Exists, Id
<1>5. \A t \in Sources : source[t].pc = "remove" => source[t].id # i
  BY <1>2 DEF OwnerInv, RemovalPending
<1>6. \A m \in Messages :
        complete_lock[m] = "Complete" \/ m = messages[i] => complete_lock'[m] = "Complete"
  BY <1>2 DEF OwnerInv, TypeOK
<1>7. RemovalPending'
  <2>1. \A t \in Sources : source[t].pc = "remove" => messages[source[t].id] \in Messages
    BY BoundAssumption DEF OwnerInv, RemovalPending, TypeOK, Exists, Messages
  <2> QED BY <1>1, <1>2, <1>3, <1>5, <1>6, <2>1 DEF OwnerInv, RemovalPending, Exists
<1>8. Announced'
  BY <1>1, <1>3 DEF OwnerInv, Announced, Exists, Id
<1> QED BY <1>1, <1>4, <1>7, <1>8, GettersRest DEF OwnerInv

(* Nobody who waits at an identifier shares it with a getter that was      *)
(* served its present message.                                             *)
LEMMA OwnerAlone ==
    ASSUME OwnerInv, NEW i \in Ids, Exists(i), NEW o \in Getters,
           getter[o].pc \in Returned, Id(o) = i, getter[o].msg \in {messages[i], None},
           NEW g \in Getters, getter[g].pc \in Waiting, Id(g) = i
    PROVE  FALSE
<1>1. g \in Active /\ o \in Active /\ g # o
  BY DEF Active, Waiting, Returned
<1>2. g \in Aware
  BY <1>1 DEF OwnerInv, Alone, Aware
<1>3. messages[i] = getter[g].msg
  BY <1>2, OwnMessageExists
<1>4. getter[o].msg = None \/ getter[o].msg = getter[g].msg
  BY <1>3
<1>5. o \notin Unaware
  BY <1>1 DEF OwnerInv, Alone
<1> QED BY <1>1, <1>2, <1>4, <1>5 DEF OwnerInv, OneOwner, Unaware

(* The removal hits the streamed message it was meant for, whose owner has *)
(* long been served.                                                       *)
LEMMA RemoveKeeps ==
    ASSUME OwnerInv, TypeOK', NEW s \in Sources, RemoveStreamed(s)
    PROVE  OwnerInv'
<1> DEFINE i == source[s].id
<1>1. UNCHANGED <<complete_lock, streamed, getter, creation_locks, created>>
  BY DEF RemoveStreamed, locks
<1>2. i \in Ids /\ Exists(i) /\ messages[i] \in streamed
  BY DEF RemoveStreamed, OwnerInv, RemovalPending, TypeOK
<1>3. \A j \in Ids : messages'[j] = IF j = i THEN None ELSE messages[j]
  BY DEF RemoveStreamed, OwnerInv, TypeOK
<1>4. \A t \in Sources :
        source'[t] = IF t = s THEN [pc |-> "idle", id |-> None] ELSE source[t]
  BY DEF RemoveStreamed, OwnerInv, TypeOK
<1>5. PICK o \in Getters :
        getter[o].pc = "done" /\ Id(o) = i /\ getter[o].msg \in {messages[i], None}
  BY <1>2 DEF OwnerInv, StreamOwned, At
<1>6. \A g \in Getters : getter[g].pc \in Waiting => Id(g) # i
  BY <1>2, <1>5, OwnerAlone DEF Returned
<1> HIDE DEF i
<1>7. OneIdentifier'
  BY <1>2, <1>3 DEF OwnerInv, OneIdentifier, Exists
<1>8. OneOwner'
  <2>1. \A g \in Aware : getter[g].msg # None
    BY DEF Aware, Unaware
  <2> QED BY <1>1, <1>2, <1>3, <2>1, GettersRest DEF OwnerInv, OneOwner, Id
<1>9. OwnPath'
  <2>1. \A g \in Unaware : getter[g].pc \in {"clear", "found", "creation"} => Id(g) # i /\ Id(g) \in Ids
    BY <1>6 DEF Waiting, Unaware, Active, OwnerInv, TypeOK, Id
  <2> QED BY <1>1, <1>3, <2>1, GettersRest DEF OwnerInv, OwnPath, At, Id, Exists
<1>10. OwnMessage'
  <2> SUFFICES ASSUME NEW g \in Getters, getter[g].pc \in Waiting, getter[g].msg # None
               PROVE  messages'[Id(g)] = getter[g].msg
    BY <1>1 DEF OwnMessage, Id
  <2>1. g \in Aware
    BY Knowledge DEF OwnerInv, Waiting
  <2> QED BY <1>3, <1>6, <2>1, OwnMessageExists
<1>11. LocksUsed'
  BY <1>1, GettersRest DEF OwnerInv, LocksUsed, Id
<1>12. Announced'
  <2>1. \A t \in Sources : source[t].pc = "announce" => source[t].id \in Ids
    BY DEF OwnerInv, TypeOK
  <2>2. getter[o].pc \in Returned /\ Id(o) = i
    BY <1>5 DEF Returned
  <2> QED BY <1>1, <1>3, <1>4, <2>1, <2>2 DEF OwnerInv, Announced, Exists, Id
<1>13. StreamOwned'
  BY <1>1, <1>3 DEF OwnerInv, StreamOwned, Exists, At, Id
<1>14. RemovalPending'
  <2>1. \A t \in Sources : source[t].pc = "remove" => source[t].id \in Ids
    BY DEF OwnerInv, TypeOK
  <2>2. \A t \in Sources \ {s} : source[t].pc = "remove" => source[t].id # i
    BY DEF OwnerInv, RemovalPending, RemoveStreamed, i
  <2> QED BY <1>1, <1>3, <1>4, <2>1, <2>2 DEF OwnerInv, RemovalPending, Exists
<1> QED BY <1>1, <1>7, <1>8, <1>9, <1>10, <1>11, <1>12, <1>13, <1>14, GettersRest DEF OwnerInv

(* A getter that asks is alone at its identifier, or is given a message    *)
(* that has no other owner and for which nobody waits unawares.            *)
LEMMA AskKeeps ==
    ASSUME Discipline # "free", OwnerInv, TypeOK',
           NEW g \in Getters, NEW kind \in Kinds, NEW i \in Ids, Ask(g, kind, i)
    PROVE  OwnerInv'
<1>1. UNCHANGED <<messages, pushed, complete_lock, streamed, source, creation_locks, created>>
  BY DEF Ask, store, locks
<1>2. /\ getter'[g].pc \in {"check", "lookup"} /\ getter'[g].id = i
      /\ getter'[g].msg = Known(i)
      /\ \A h \in Getters \ {g} : getter'[h] = getter[h]
      /\ getter[g].pc = "idle" /\ g \notin Active
  BY DEF Ask, OwnerInv, TypeOK, Active
<1>3. \/ /\ Unasked(i) /\ Known(i) \in {messages[i], None}
         /\ Known(i) # None => Exists(i)
         /\ Discipline # "handles"
      \/ ByHandle(i) /\ ~Awaited(i) /\ Known(i) = messages[i] /\ Known(i) # None
  <2>1. Discipline = "handles" => ~Awaited(i)
    BY DEF OwnerInv, HandlesKnow, Awaited, Unaware
  <2>2. Exists(i) <=> messages[i] # None
    BY DEF Exists
  <2>3. Discipline = "handles" => ByHandle(i) /\ Known(i) = messages[i] /\ Exists(i)
    BY DEF Ask, Allowed, Known, ByHandle
  <2>4. Discipline = "sole" => Unasked(i) /\ Known(i) = None
    BY DEF Ask, Allowed, Known
  <2>5. Discipline = "mixed" =>
          /\ Unasked(i) \/ (ByHandle(i) /\ ~Awaited(i))
          /\ Known(i) = IF Exists(i) THEN messages[i] ELSE None
    BY DEF Ask, Allowed, Known
  <2>6. ByHandle(i) => Exists(i)
    BY DEF ByHandle
  <2> QED BY <2>1, <2>2, <2>3, <2>4, <2>5, <2>6, DisciplineAssumption
<1>4. /\ Active' = Active \cup {g}
      /\ Unaware' = IF Known(i) = None THEN Unaware \cup {g} ELSE Unaware
      /\ Aware' = IF Known(i) = None THEN Aware ELSE Aware \cup {g}
  BY <1>2 DEF Active, Unaware, Aware
<1>5. /\ \A h \in Active : h # g /\ getter'[h] = getter[h]
      /\ \A h \in Active : Id(h)' = Id(h)
      /\ Id(g)' = i
  BY <1>2 DEF Active, Id
<1>6. /\ \A h \in Unaware : Id(h) # i
      /\ Known(i) # None => \A h \in Aware : getter[h].msg # Known(i)
      /\ Known(i) = None => \A h \in Active : Id(h) # i
  <2>1. CASE Unasked(i) /\ (Known(i) # None => Exists(i)) /\ Known(i) \in {messages[i], None}
    <3>1. \A h \in Active : Id(h) # i
      BY <2>1 DEF Unasked, Id
    <3> QED BY <2>1, <3>1 DEF OwnerInv, OneOwner, Unaware, Aware
  <2>2. CASE ByHandle(i) /\ ~Awaited(i) /\ Known(i) = messages[i] /\ Known(i) # None
    BY <2>2 DEF ByHandle, Awaited, Unaware, Aware, Id
  <2> QED BY <1>3, <2>1, <2>2
<1>7. Known(i) # None => messages[i] = Known(i) /\ Exists(i)
  BY <1>3 DEF Exists
<1>8. OneIdentifier' /\ RemovalPending'
  BY <1>1 DEF OwnerInv, OneIdentifier, RemovalPending, Exists
<1>9. OneOwner'
  <2>1. \A h \in Unaware : getter[h].msg = None
    BY DEF Unaware
  <2>2. \A j \in Ids : messages[j] = messages[i] /\ Exists(i) => j = i
    BY DEF OwnerInv, OneIdentifier, Exists
  <2>3. \A h \in Active : h \in Unaware \/ h \in Aware
    BY DEF Aware
  <2>4. \A h \in Aware : h \in Active /\ getter[h].msg # None
    BY DEF Aware, Unaware
  <2>5. ASSUME NEW h \in Aware'
        PROVE  /\ \A k \in Active' : k # h => getter'[k].msg # getter'[h].msg
               /\ \A j \in Ids : messages[j] = getter'[h].msg => j = Id(h)'
    <3>1. CASE h = g
      <4>1. Known(i) # None /\ getter'[h].msg = Known(i)
        BY <1>2, <1>4, <2>4, <2>5, <3>1
      <4> QED BY <1>2, <1>4, <1>5, <1>6, <1>7, <2>1, <2>2, <2>3, <3>1, <4>1
    <3>2. CASE h # g
      <4>1. h \in Aware /\ getter'[h] = getter[h] /\ Id(h)' = Id(h)
        BY <1>4, <1>5, <2>4, <2>5, <3>2
      <4>2. getter'[g].msg # getter[h].msg
        BY <1>2, <1>6, <2>4, <4>1
      <4> QED BY <1>4, <1>5, <4>1, <4>2 DEF OwnerInv, OneOwner
    <3> QED BY <3>1, <3>2
  <2> QED BY <1>1, <2>5 DEF OneOwner
<1>10. Alone' /\ HandlesKnow'
  <2>1. \A h \in Unaware : h \in Active
    BY DEF Unaware
  <2>2. Alone'
    <3>1. ASSUME NEW h \in Unaware', NEW k \in Active', Id(k)' = Id(h)'
          PROVE  k = h
      BY <1>4, <1>5, <1>6, <2>1, <3>1 DEF OwnerInv, Alone
    <3> QED BY <3>1 DEF Alone
  <2> QED BY <1>3, <1>4, <2>2 DEF OwnerInv, HandlesKnow
<1>11. OwnPath'
  <2>1. \A h \in Active : getter'[h] = getter[h] /\ Id(h)' = Id(h)
    BY <1>5
  <2>2. \A h \in Unaware \cup Aware : h \in Active
    BY DEF Unaware, Aware
  <2>3. getter'[g].pc \in Early /\ getter'[g].pc \notin {"find", "insert"}
    BY <1>2 DEF Early
  <2> QED BY <1>1, <1>4, <2>1, <2>2, <2>3 DEF OwnerInv, OwnPath, At, Exists, Early, Creating
<1>12. OwnMessage'
  <2> SUFFICES ASSUME NEW h \in Getters, getter'[h].pc \in Waiting, getter'[h].msg # None
               PROVE  messages[Id(h)'] = getter'[h].msg
    BY <1>1 DEF OwnMessage, Id
  <2>1. CASE h = g
    BY <1>2, <1>5, <1>7, <2>1
  <2>2. CASE h # g
    BY <1>2, <2>2 DEF OwnerInv, OwnMessage, Id
  <2> QED BY <2>1, <2>2
<1>13. LocksUsed'
  <2>1. \A j \in Ids : creation_locks[j] # None => creation_locks[j] \in Getters
    BY DEF OwnerInv, TypeOK
  <2>2. \A j \in Ids : creation_locks[j] # None => creation_locks[j] \in Active
    BY <2>1 DEF OwnerInv, LocksUsed, Active, Creating
  <2> QED BY <1>1, <1>2, <1>4, <1>5, <2>2 DEF OwnerInv, LocksUsed
<1>14. Announced' /\ StreamOwned'
  <2>1. \A h \in Getters : getter[h].pc \in Returned => h # g
    BY <1>2 DEF Returned
  <2> QED BY <1>1, <1>2, <2>1 DEF OwnerInv, Announced, StreamOwned, Exists, At, Id, Returned
<1> QED BY <1>8, <1>9, <1>10, <1>11, <1>12, <1>13, <1>14 DEF OwnerInv

-----------------------------------------------------------------------------
(* The steps of a getter's call, when it knows its message ...             *)
LEMMA AwareKeeps ==
    ASSUME OwnerInv, TypeOK', NEW g \in Aware, Get(g)
    PROVE  OwnerInv'
<1>1. /\ getter[g].pc \in Waiting /\ g \in Getters /\ g \in Active
      /\ UNCHANGED <<pushed, complete_lock, source, creation_locks, created>>
      /\ Exists(Id(g)) /\ messages[Id(g)] = getter[g].msg /\ Id(g) \in Ids
      /\ getter[g].msg # None
  BY AwareSteps, OwnMessageExists DEF locks, Aware, Active, Unaware
<1>2. PICK where \in {"found", "await", "ref", "pop", "done", "failed", "popped"} :
        Moves(g, where)
  BY AwareSteps
<1>3. \A h \in Getters : /\ getter'[h].msg = getter[h].msg
                         /\ getter'[h].id = getter[h].id /\ Id(h)' = Id(h)
                         /\ h # g => getter'[h] = getter[h]
  BY <1>2 DEF Moves, Id
<1>4. Active' = Active /\ Unaware' = Unaware /\ Aware' = Aware
  BY <1>1, <1>2, <1>3 DEF Moves, Waiting, Active, Unaware, Aware
<1>5. \A h \in Active : h \in Getters
  BY DEF Active
<1>6. g \notin Unaware /\ \A h \in Unaware : h \in Active /\ h # g
  BY DEF Aware, Unaware
<1>7. Alone' /\ HandlesKnow'
  BY <1>3, <1>4, <1>5, <1>6 DEF OwnerInv, Alone, HandlesKnow
<1>8. LocksUsed'
  <2>1. \A i \in Ids : creation_locks[i] # None => creation_locks[i] # g /\ creation_locks[i] \in Getters
    BY DEF OwnerInv, LocksUsed, OwnPath, TypeOK
  <2> QED BY <1>1, <1>3, <1>4, <1>5, <1>6, <2>1 DEF OwnerInv, LocksUsed
<1>9. \A h \in Getters : getter[h].pc \in Returned => h # g
  BY <1>1 DEF Returned, Waiting
<1>10. \A h \in Aware : getter'[h].pc \notin {"find", "insert", "panicked"} \cup Creating
  BY <1>2, <1>3, <1>5 DEF OwnerInv, OwnPath, Creating, Aware, Moves
<1>11. CASE UNCHANGED messages
  <2>1. OneIdentifier' /\ OneOwner' /\ Announced'
    BY <1>1, <1>3, <1>4, <1>5, <1>9, <1>11
       DEF OwnerInv, OneIdentifier, OneOwner, Announced, Exists, Aware
  <2>2. OwnPath'
    BY <1>1, <1>3, <1>4, <1>5, <1>6, <1>10, <1>11 DEF OwnerInv, OwnPath, At, Exists
  <2>3. OwnMessage'
    <3>1. \A h \in Getters : h # g => getter'[h] = getter[h]
      BY <1>3
    <3> QED BY <1>1, <1>3, <1>11, <3>1 DEF OwnerInv, OwnMessage
  <2>4. \/ UNCHANGED streamed
        \/ Moves(g, "done") /\ streamed' = streamed \cup {messages[Id(g)]}
    BY <1>1, <1>11, AwareSteps DEF Exists, OwnerInv, TypeOK
  <2>5. StreamOwned'
    <3> SUFFICES ASSUME NEW i \in Ids, Exists(i), messages[i] \in streamed'
                 PROVE  \E h \in Getters : /\ getter'[h].pc = "done" /\ Id(h)' = i
                                           /\ getter'[h].msg \in {messages[i], None}
      BY <1>11 DEF StreamOwned, At, Exists
    <3>1. CASE messages[i] \in streamed
      <4>1. PICK h \in Getters : /\ getter[h].pc = "done" /\ Id(h) = i
                                 /\ getter[h].msg \in {messages[i], None}
        BY <3>1 DEF OwnerInv, StreamOwned, At
      <4> QED BY <1>3, <1>9, <4>1 DEF Returned
    <3>2. CASE messages[i] \notin streamed
      <4>1. messages[i] = messages[Id(g)] /\ Moves(g, "done")
        BY <2>4, <3>2
      <4>2. i = Id(g)
        BY <1>1, <4>1 DEF OwnerInv, OneIdentifier
      <4> QED BY <1>1, <1>3, <4>1, <4>2 DEF Moves
    <3> QED BY <3>1, <3>2
  <2>6. RemovalPending'
    BY <1>1, <1>11, <2>4 DEF OwnerInv, RemovalPending, Exists
  <2> QED BY <1>7, <1>8, <2>1, <2>2, <2>3, <2>5, <2>6 DEF OwnerInv
<1>12. CASE /\ Moves(g, "popped")
            /\ messages' = [messages EXCEPT ![Id(g)] = None]
            /\ UNCHANGED streamed
  <2>1. \A j \in Ids : messages'[j] = IF j = Id(g) THEN None ELSE messages[j]
    BY <1>12 DEF OwnerInv, TypeOK
  <2>2. OneIdentifier'
    BY <2>1 DEF OwnerInv, OneIdentifier, Exists
  <2>3. OneOwner'
    <3>1. \A h \in Aware : getter[h].msg # None
      BY DEF Aware, Unaware
    <3> QED BY <1>3, <1>4, <1>5, <2>1, <3>1 DEF OwnerInv, OneOwner, Aware
  <2>4. OwnPath'
    <3>1. \A h \in Unaware : Id(h) # Id(g) /\ Id(h) \in Ids
      BY <1>1, <1>6, Knowledge DEF OwnerInv, Alone, Active
    <3> QED BY <1>1, <1>3, <1>4, <1>5, <1>6, <1>10, <2>1, <3>1 DEF OwnerInv, OwnPath, At, Exists
  <2>5. OwnMessage'
    <3> SUFFICES ASSUME NEW h \in Getters, getter'[h].pc \in Waiting, getter'[h].msg # None
                 PROVE  messages'[Id(h)] = getter'[h].msg
      BY <1>3 DEF OwnMessage
    <3>1. h # g /\ getter'[h] = getter[h]
      BY <1>3, <1>12 DEF Moves, Waiting
    <3>2. h \in Aware /\ h \in Active
      BY <3>1, Knowledge DEF OwnerInv, Waiting, Aware
    <3>3. messages[Id(h)] = getter[h].msg /\ Id(h) \in Ids
      BY <3>1, <3>2, OwnMessageExists
    <3>4. getter[h].msg # getter[g].msg
      BY <1>1, <3>1, <3>2 DEF OwnerInv, OneOwner
    <3> QED BY <1>1, <2>1, <3>1, <3>3, <3>4
  <2>6. Announced'
    <3>1. \A s \in Sources : source[s].pc = "announce" => source[s].id \in Ids
      BY DEF OwnerInv, TypeOK
    <3>2. getter'[g].pc \in Returned /\ Id(g)' = Id(g)
      BY <1>1, <1>3, <1>12 DEF Moves, Returned
    <3> QED BY <1>1, <1>3, <1>9, <2>1, <3>1, <3>2 DEF OwnerInv, Announced, Exists
  <2>7. StreamOwned'
    <3>1. \A h \in Getters : getter[h].pc = "done" => h # g
      BY <1>9 DEF Returned
    <3> QED BY <1>3, <1>12, <2>1, <3>1 DEF OwnerInv, StreamOwned, At, Exists
  <2>8. messages[Id(g)] \notin streamed
    BY <1>1, OwnerAlone DEF OwnerInv, StreamOwned, At, Returned
  <2>9. RemovalPending'
    <3>1. \A s \in Sources : source[s].pc = "remove" =>
              source[s].id \in Ids /\ source[s].id # Id(g)
      BY <1>1, <2>8 DEF OwnerInv, RemovalPending, TypeOK
    <3> QED BY <1>1, <1>12, <2>1, <3>1 DEF OwnerInv, RemovalPending, Exists
  <2> QED BY <1>7, <1>8, <2>2, <2>3, <2>4, <2>5, <2>6, <2>7, <2>9 DEF OwnerInv
<1> QED BY <1>11, <1>12, AwareSteps

(* ... and when it does not: it looks for one, waits at a lock of its own, *)
(* learns which message is there, or is handed its stream.                 *)
Learns(g) ==
    /\ Exists(Id(g))
    /\ getter'[g].pc = "await" /\ getter'[g].msg = messages[Id(g)]
    /\ getter'[g].id = getter[g].id
    /\ \A h \in Getters \ {g} : getter'[h] = getter[h]
    /\ UNCHANGED <<streamed, locks>>
Looks(g, where) ==
    /\ Moves(g, where)
    /\ \/ getter[g].pc \in Early /\ where \in Early
       \/ getter[g].pc \in Early /\ where = "found" /\ Exists(Id(g))
       \/ getter[g].pc = "creation" /\ where = "clear" /\ Exists(Id(g))
    /\ UNCHANGED <<streamed, locks>>
WaitsAtLock(g) ==
    /\ creation_locks' = [creation_locks EXCEPT ![Id(g)] = g]
    /\ getter'[g].pc = "creation" /\ getter'[g].lock = g
    /\ getter'[g].id = getter[g].id /\ getter'[g].msg = None
    /\ \A h \in Getters \ {g} : getter'[h] = getter[h]
    /\ g \notin created
    /\ UNCHANGED <<streamed, created>>
LeavesLock(g) ==
    /\ creation_locks' = [creation_locks EXCEPT ![Id(g)] = None]
    /\ Moves(g, "found") /\ Exists(Id(g))
    /\ UNCHANGED <<streamed, created>>
IsHandedStream(g) ==
    /\ Moves(g, "done") /\ Exists(Id(g))
    /\ streamed' = streamed \cup {messages[Id(g)]}
    /\ UNCHANGED locks

LEMMA UnawareSteps ==
    ASSUME OwnerInv, NEW g \in Unaware, Get(g)
    PROVE  /\ getter[g].pc \in Waiting
           /\ UNCHANGED <<messages, pushed, complete_lock, source>>
           /\ \/ Learns(g) \/ (\E where \in Waiting : Looks(g, where))
              \/ WaitsAtLock(g) \/ LeavesLock(g) \/ IsHandedStream(g)
<1>0. /\ g \in Getters /\ TypeOK /\ getter[g].msg = None /\ g \in Active /\ Id(g) \in Ids
      /\ getter[g] \in GetterStates /\ getter \in [Getters -> GetterStates]
  BY DEF Unaware, Active, OwnerInv, TypeOK, Id
<1>1. getter[g].pc \in Waiting
  BY DEF Get, Lookup, Check, FindLock, InsertLock, AwaitCreation, ClearLock, Found,
         AwaitCompletion, TakeRef, Pop, At, Waiting
<1>2. getter[g].pc \in Early \cup Creating \cup {"found", "done"}
  BY DEF OwnerInv, OwnPath
<1>3. UNCHANGED <<pushed, complete_lock, source>>
  BY DEF Get, Lookup, Check, FindLock, InsertLock, AwaitCreation, ClearLock, Found,
         AwaitCompletion, TakeRef, Pop, store
<1>4. ASSUME Follow(g), Exists(Id(g)), UNCHANGED <<streamed, locks>> PROVE Learns(g)
  BY <1>0, <1>4 DEF Follow, Learns, GetterStates
<1>5. CASE Lookup(g)
  <2>1. UNCHANGED <<messages, streamed, locks>> /\ getter[g].pc \in Early
    BY <1>5 DEF Lookup, store, At, Early
  <2>2. CASE Exists(Id(g))
    BY <1>1, <1>3, <1>4, <1>5, <2>1, <2>2 DEF Lookup
  <2>3. CASE ~Exists(Id(g))
    <3>1. Moves(g, "check")
      BY <1>0, <1>5, <2>3, GotoMoves DEF Lookup
    <3> QED BY <1>1, <1>3, <2>1, <3>1 DEF Looks, Early, Waiting
  <2> QED BY <2>2, <2>3
<1>6. CASE Check(g)
  <2>1. UNCHANGED <<messages, streamed, locks>> /\ getter[g].pc \in Early
    BY <1>6 DEF Check, store, At, Early
  <2>2. IF Exists(Id(g)) THEN Moves(g, "found") ELSE Moves(g, "find")
    BY <1>0, <1>6, GotoMoves DEF Check
  <2> QED BY <1>1, <1>3, <2>1, <2>2 DEF Looks, Early, Waiting
<1>7. CASE FindLock(g)
  <2>1. UNCHANGED <<messages, streamed, locks>> /\ getter[g].pc = "find"
    BY <1>7 DEF FindLock, store, At
  <2>2. creation_locks[Id(g)] = None
    <3> SUFFICES ASSUME creation_locks[Id(g)] # None PROVE FALSE
      OBVIOUS
    <3> DEFINE l == creation_locks[Id(g)]
    <3>1. l \in Getters /\ getter[l].pc \in Creating /\ Id(l) = Id(g)
      BY <1>0 DEF OwnerInv, LocksUsed, TypeOK
    <3>2. l = g
      BY <3>1 DEF OwnerInv, Alone, Active, Creating
    <3> QED BY <2>1, <3>1, <3>2 DEF Creating
  <2>3. Moves(g, "insert")
    BY <1>0, <1>7, <2>2, GotoMoves DEF FindLock
  <2> QED BY <1>1, <1>3, <2>1, <2>3 DEF Looks, Early, Waiting
<1>8. CASE InsertLock(g)
  <2>1. UNCHANGED messages /\ g \notin created
    BY <1>8 DEF InsertLock, store, At, Early, OwnerInv, LocksUsed
  <2>2. WaitsAtLock(g)
    BY <1>0, <1>8, <2>1 DEF InsertLock, store, WaitsAtLock, GetterStates
  <2> QED BY <1>1, <1>3, <2>1, <2>2
<1>9. CASE AwaitCreation(g)
  <2>1. UNCHANGED <<messages, streamed, locks>> /\ getter[g].pc = "creation"
    BY <1>9 DEF AwaitCreation, store, At
  <2>2. Exists(Id(g))
    BY <1>9 DEF AwaitCreation, OwnerInv, OwnPath
  <2>3. Moves(g, "clear")
    BY <1>0, <1>9, GotoMoves DEF AwaitCreation
  <2> QED BY <1>1, <1>3, <2>1, <2>2, <2>3 DEF Looks, Waiting
<1>10. CASE ClearLock(g)
  <2>1. UNCHANGED messages /\ Exists(Id(g))
    BY <1>10 DEF ClearLock, store, At, OwnerInv, OwnPath
  <2>2. Moves(g, "found")
    BY <1>0, <1>10, GotoMoves DEF ClearLock
  <2>3. LeavesLock(g)
    BY <1>10, <2>1, <2>2 DEF ClearLock, store, LeavesLock
  <2> QED BY <1>1, <1>3, <2>1, <2>3
<1>11. CASE Found(g)
  <2>1. UNCHANGED <<messages, locks>> /\ Exists(Id(g))
    BY <1>11 DEF Found, At, OwnerInv, OwnPath
  <2>2. CASE getter[g].kind = "stream"
    <3>1. Moves(g, "done")
      BY <1>0, <1>11, <2>1, <2>2, GotoMoves DEF Found
    <3>2. IsHandedStream(g)
      BY <1>11, <2>1, <2>2, <3>1 DEF Found, IsHandedStream
    <3> QED BY <1>1, <1>3, <2>1, <3>2
  <2>3. CASE getter[g].kind # "stream"
    BY <1>1, <1>3, <1>4, <1>11, <2>1, <2>3 DEF Found
  <2> QED BY <2>2, <2>3
<1>12. CASE AwaitCompletion(g) \/ TakeRef(g) \/ Pop(g)
  <2>1. FALSE
    BY <1>2, <1>12 DEF AwaitCompletion, TakeRef, Pop, At, Early, Creating
  <2> QED BY <2>1
<1> QED BY <1>5, <1>6, <1>7, <1>8, <1>9, <1>10, <1>11, <1>12 DEF Get

(* What all of these steps keep.                                           *)
LEMMA UnawareShares ==
    ASSUME OwnerInv, NEW g \in Unaware, getter[g].pc \in Waiting,
           UNCHANGED <<messages, pushed, complete_lock, source>>,
           streamed \subseteq streamed',
           getter'[g].id = getter[g].id, getter'[g].pc # "idle",
           getter'[g].msg \in {None, messages[Id(g)]},
           \A h \in Getters \ {g} : getter'[h] = getter[h]
    PROVE  /\ OneIdentifier' /\ Alone' /\ HandlesKnow' /\ Announced' /\ RemovalPending'
           /\ Active' = Active
           /\ \A h \in Getters : Id(h)' = Id(h)
           /\ Unaware' = IF getter'[g].msg = None THEN Unaware ELSE Unaware \ {g}
           /\ Aware' = IF getter'[g].msg = None THEN Aware ELSE Aware \cup {g}
<1>1. g \in Getters /\ g \in Active /\ getter[g].msg = None
  BY DEF Unaware, Active
<1>2. Active' = Active /\ \A h \in Getters : Id(h)' = Id(h)
  BY <1>1 DEF Active, Id
<1>3. /\ Unaware' = IF getter'[g].msg = None THEN Unaware ELSE Unaware \ {g}
      /\ Aware' = IF getter'[g].msg = None THEN Aware ELSE Aware \cup {g}
  BY <1>1, <1>2 DEF Unaware, Aware, Active
<1>4. OneIdentifier' /\ RemovalPending'
  BY DEF OwnerInv, OneIdentifier, RemovalPending, Exists
<1>5. Alone' /\ HandlesKnow'
  <2>1. \A h \in Unaware \cup Active : h \in Getters
    BY DEF Unaware, Active
  <2> QED BY <1>2, <1>3, <2>1 DEF OwnerInv, Alone, HandlesKnow
<1>6. Announced'
  <2>1. \A h \in Getters : getter[h].pc \in Returned => h # g
    BY DEF Returned, Waiting
  <2> QED BY <1>2, <2>1 DEF OwnerInv, Announced, Exists
<1> QED BY <1>2, <1>3, <1>4, <1>5, <1>6

LEMMA UnawareKeeps ==
    ASSUME OwnerInv, TypeOK', NEW g \in Unaware, Get(g)
    PROVE  OwnerInv'
<1>1. /\ getter[g].pc \in Waiting /\ g \in Getters /\ g \in Active /\ Id(g) \in Ids
      /\ UNCHANGED <<messages, pushed, complete_lock, source>>
      /\ getter[g].msg = None /\ g \notin Aware
  BY UnawareSteps DEF Unaware, Aware, Active, OwnerInv, TypeOK, Id
<1>2. \A h \in Aware : h \in Getters /\ h \in Active /\ h # g /\ getter[h].msg # None
  BY <1>1 DEF Aware, Active, Unaware
<1>3. \A h \in Unaware : h \in Getters /\ h \in Active /\ getter[h].msg = None
  BY DEF Active, Unaware
<1>4. \A h \in Getters : getter[h].pc = "done" => h # g
  BY <1>1 DEF Waiting
<1>5. \A i \in Ids : creation_locks[i] # None => creation_locks[i] \in Active /\ creation_locks[i] \in Getters
  BY DEF OwnerInv, LocksUsed, Active, Creating, TypeOK

<1>6. ASSUME getter'[g].msg = None, getter'[g].id = getter[g].id, getter'[g].pc # "idle",
             \A h \in Getters \ {g} : getter'[h] = getter[h],
             streamed \subseteq streamed'
      PROVE  /\ OneIdentifier' /\ Alone' /\ HandlesKnow' /\ Announced' /\ RemovalPending'
             /\ OneOwner' /\ OwnMessage'
             /\ Active' = Active /\ Unaware' = Unaware /\ Aware' = Aware
             /\ \A h \in Getters : Id(h)' = Id(h)
  <2>1. /\ OneIdentifier' /\ Alone' /\ HandlesKnow' /\ Announced' /\ RemovalPending'
        /\ Active' = Active /\ Unaware' = Unaware /\ Aware' = Aware
        /\ \A h \in Getters : Id(h)' = Id(h)
    BY <1>1, <1>6, UnawareShares
  <2>2. \A h \in Active : h \in Getters
    BY DEF Active
  <2>3. OneOwner'
    BY <1>1, <1>2, <1>6, <2>1, <2>2 DEF OwnerInv, OneOwner
  <2>4. OwnMessage'
    BY <1>1, <1>6, <2>1 DEF OwnerInv, OwnMessage
  <2> QED BY <2>1, <2>3, <2>4
<1>7. CASE Learns(g)
  <2>1. /\ OneIdentifier' /\ Alone' /\ HandlesKnow' /\ Announced' /\ RemovalPending'
        /\ Active' = Active /\ \A h \in Getters : Id(h)' = Id(h)
        /\ Unaware' = Unaware \ {g} /\ Aware' = Aware \cup {g}
    BY <1>1, <1>7, UnawareShares DEF Learns, Exists
  <2>2. \A h \in Active : h # g => getter[h].msg # messages[Id(g)]
    <3> SUFFICES ASSUME NEW h \in Active, h # g, getter[h].msg = messages[Id(g)] PROVE FALSE
      OBVIOUS
    <3>1. h \in Aware
      BY <1>7 DEF Learns, Exists, Aware, Unaware
    <3>2. Id(g) = Id(h)
      BY <1>1, <3>1 DEF OwnerInv, OneOwner
    <3> QED BY <3>2 DEF OwnerInv, Alone
  <2>3. OneOwner'
    <3>1. \A i \in Ids : messages[i] = messages[Id(g)] => i = Id(g)
      BY <1>1, <1>7 DEF OwnerInv, OneIdentifier, Learns, Exists
    <3>2. \A h \in Active : h \in Getters
      BY DEF Active
    <3> QED BY <1>1, <1>2, <1>7, <2>1, <2>2, <3>1, <3>2 DEF OwnerInv, OneOwner, Learns
  <2>4. OwnPath'
    BY <1>1, <1>2, <1>3, <1>7, <2>1 DEF OwnerInv, OwnPath, Learns, locks, At, Exists, Creating
  <2>5. OwnMessage'
    BY <1>1, <1>7, <2>1 DEF OwnerInv, OwnMessage, Learns
  <2>6. LocksUsed'
    <3>1. getter[g].pc \notin Creating
      <4>1. Get(g) /\ getter'[g].pc = "await"
        BY <1>7 DEF Learns
      <4>2. getter[g] \in GetterStates /\ getter \in [Getters -> GetterStates]
        BY <1>1 DEF OwnerInv, TypeOK
      <4> QED BY <1>1, <4>1, <4>2 DEF Get, Lookup, Check, FindLock, InsertLock, AwaitCreation,
                 ClearLock, Found, AwaitCompletion, TakeRef, Pop, At, Creating, Goto, GetterStates
    <3>2. \A i \in Ids : creation_locks[i] # None => creation_locks[i] # g
      BY <3>1 DEF OwnerInv, LocksUsed
    <3> QED BY <1>1, <1>3, <1>5, <1>7, <2>1, <3>2 DEF OwnerInv, LocksUsed, Learns, locks
  <2>7. StreamOwned'
    BY <1>1, <1>4, <1>7, <2>1 DEF OwnerInv, StreamOwned, At, Exists, Learns
  <2> QED BY <2>1, <2>3, <2>4, <2>5, <2>6, <2>7 DEF OwnerInv
<1>8. CASE \E where \in Waiting : Looks(g, where)
  <2>1. PICK where \in Waiting : Looks(g, where)
    BY <1>8
  <2>2. /\ OneIdentifier' /\ Alone' /\ HandlesKnow' /\ Announced' /\ RemovalPending'
        /\ OneOwner' /\ OwnMessage'
        /\ Active' = Active /\ Unaware' = Unaware /\ Aware' = Aware
        /\ \A h \in Getters : Id(h)' = Id(h)
    BY <1>1, <1>6, <2>1 DEF Looks, Moves, Waiting
  <2>3. OwnPath'
    BY <1>1, <1>2, <1>3, <2>1, <2>2
       DEF OwnerInv, OwnPath, Looks, Moves, locks, At, Exists, Early, Creating
  <2>4. LocksUsed'
    <3>1. \A i \in Ids : creation_locks[i] = g => where \in Creating
      BY <1>1, <2>1, NoneAssumption DEF OwnerInv, LocksUsed, Looks, Creating, Early
    <3>2. g \in created => where \notin Early
      BY <1>1, <2>1 DEF OwnerInv, LocksUsed, Looks, Early
    <3> QED BY <1>1, <1>3, <1>5, <2>1, <2>2, <3>1, <3>2 DEF OwnerInv, LocksUsed, Looks, Moves, locks
  <2>5. StreamOwned'
    BY <1>1, <1>4, <2>1, <2>2 DEF OwnerInv, StreamOwned, At, Exists, Looks, Moves
  <2> QED BY <2>2, <2>3, <2>4, <2>5 DEF OwnerInv
<1>9. CASE WaitsAtLock(g)
  <2>2. /\ OneIdentifier' /\ Alone' /\ HandlesKnow' /\ Announced' /\ RemovalPending'
        /\ OneOwner' /\ OwnMessage'
        /\ Active' = Active /\ Unaware' = Unaware /\ Aware' = Aware
        /\ \A h \in Getters : Id(h)' = Id(h)
    BY <1>1, <1>6, <1>9 DEF WaitsAtLock
  <2>3. OwnPath'
    BY <1>1, <1>2, <1>3, <1>9, <2>2
       DEF OwnerInv, OwnPath, WaitsAtLock, At, Exists, Early, Creating
  <2>4. \A i \in Ids : creation_locks'[i] = IF i = Id(g) THEN g ELSE creation_locks[i]
    BY <1>9 DEF WaitsAtLock, OwnerInv, TypeOK
  <2>5. LocksUsed'
    BY <1>1, <1>3, <1>5, <1>9, <2>2, <2>4 DEF OwnerInv, LocksUsed, WaitsAtLock, Creating, Early
  <2>6. StreamOwned'
    BY <1>1, <1>4, <1>9, <2>2 DEF OwnerInv, StreamOwned, At, Exists, WaitsAtLock
  <2> QED BY <2>2, <2>3, <2>5, <2>6 DEF OwnerInv
<1>10. CASE LeavesLock(g)
  <2>2. /\ OneIdentifier' /\ Alone' /\ HandlesKnow' /\ Announced' /\ RemovalPending'
        /\ OneOwner' /\ OwnMessage'
        /\ Active' = Active /\ Unaware' = Unaware /\ Aware' = Aware
        /\ \A h \in Getters : Id(h)' = Id(h)
    BY <1>1, <1>6, <1>10 DEF LeavesLock, Moves
  <2>3. OwnPath'
    BY <1>1, <1>2, <1>3, <1>10, <2>2
       DEF OwnerInv, OwnPath, LeavesLock, Moves, At, Exists, Early, Creating
  <2>4. \A i \in Ids : creation_locks'[i] = IF i = Id(g) THEN None ELSE creation_locks[i]
    BY <1>10 DEF LeavesLock, OwnerInv, TypeOK
  <2>5. LocksUsed'
    BY <1>1, <1>3, <1>5, <1>10, <2>2, <2>4
       DEF OwnerInv, LocksUsed, LeavesLock, Moves, Creating, Early
  <2>6. StreamOwned'
    BY <1>1, <1>4, <1>10, <2>2 DEF OwnerInv, StreamOwned, At, Exists, LeavesLock, Moves
  <2> QED BY <2>2, <2>3, <2>5, <2>6 DEF OwnerInv
<1>11. CASE IsHandedStream(g)
  <2>2. /\ OneIdentifier' /\ Alone' /\ HandlesKnow' /\ Announced' /\ RemovalPending'
        /\ OneOwner' /\ OwnMessage'
        /\ Active' = Active /\ Unaware' = Unaware /\ Aware' = Aware
        /\ \A h \in Getters : Id(h)' = Id(h)
    BY <1>1, <1>6, <1>11 DEF IsHandedStream, Moves
  <2>3. OwnPath'
    BY <1>1, <1>2, <1>3, <1>11, <2>2
       DEF OwnerInv, OwnPath, IsHandedStream, Moves, locks, At, Exists, Early, Creating
  <2>4. getter[g].pc \notin Creating
    <3>1. Get(g) /\ getter'[g].pc = "done"
      BY <1>11 DEF IsHandedStream, Moves
    <3>2. getter[g] \in GetterStates /\ getter \in [Getters -> GetterStates]
      BY <1>1 DEF OwnerInv, TypeOK
    <3> QED BY <1>1, <3>1, <3>2 DEF Get, Lookup, Check, FindLock, InsertLock, AwaitCreation,
               ClearLock, Found, AwaitCompletion, TakeRef, Pop, At, Creating, Goto, GetterStates
  <2>5. LocksUsed'
    <3>1. \A i \in Ids : creation_locks[i] # None => creation_locks[i] # g
      BY <2>4 DEF OwnerInv, LocksUsed
    <3> QED BY <1>1, <1>3, <1>5, <1>11, <2>2, <3>1
            DEF OwnerInv, LocksUsed, IsHandedStream, Moves, locks, Early
  <2>6. StreamOwned'
    <3> SUFFICES ASSUME NEW i \in Ids, Exists(i), messages[i] \in streamed'
                 PROVE  \E h \in Getters : /\ getter'[h].pc = "done" /\ Id(h)' = i
                                           /\ getter'[h].msg \in {messages[i], None}
      BY <1>1 DEF StreamOwned, At, Exists
    <3>1. CASE messages[i] \in streamed
      <4>1. PICK h \in Getters : /\ getter[h].pc = "done" /\ Id(h) = i
                                 /\ getter[h].msg \in {messages[i], None}
        BY <3>1 DEF OwnerInv, StreamOwned, At
      <4> QED BY <1>4, <1>11, <2>2, <4>1 DEF IsHandedStream, Moves
    <3>2. CASE messages[i] \notin streamed
      <4>1. messages[i] = messages[Id(g)]
        BY <1>11, <3>2 DEF IsHandedStream
      <4>2. i = Id(g)
        BY <1>1, <4>1 DEF OwnerInv, OneIdentifier
      <4> QED BY <1>1, <1>11, <2>2, <4>2 DEF IsHandedStream, Moves
    <3> QED BY <3>1, <3>2
  <2> QED BY <2>2, <2>3, <2>5, <2>6 DEF OwnerInv
<1> QED BY <1>7, <1>8, <1>9, <1>10, <1>11, UnawareSteps

-----------------------------------------------------------------------------
(* OwnerInv is inductive.                                                  *)
LEMMA InvariantHolds ==
    ASSUME Discipline # "free"
    PROVE  Spec => []OwnerInv
<1>1. Init /\ TypeOK => OwnerInv
  <2> SUFFICES ASSUME Init, TypeOK PROVE OwnerInv
    OBVIOUS
  <2>1. Active = {} /\ Unaware = {} /\ Aware = {}
    BY DEF Init, Active, Unaware, Aware
  <2>2. \A i \in Ids : ~Exists(i) /\ creation_locks[i] = None
    BY DEF Init, Exists
  <2>3. OneIdentifier /\ OneOwner /\ Alone /\ HandlesKnow /\ OwnPath
    BY <2>1, <2>2 DEF OneIdentifier, OneOwner, Alone, HandlesKnow, OwnPath
  <2>4. OwnMessage /\ LocksUsed /\ Announced /\ StreamOwned /\ RemovalPending
    BY <2>2 DEF Init, OwnMessage, LocksUsed, Announced, StreamOwned, RemovalPending, Waiting
  <2> QED BY <2>3, <2>4 DEF OwnerInv
<1>2. OwnerInv /\ TypeOK' /\ [Next]_vars => OwnerInv'
  <2> SUFFICES ASSUME OwnerInv, TypeOK', [Next]_vars PROVE OwnerInv'
    OBVIOUS
  <2>1. CASE UNCHANGED vars
    BY <2>1, LockKeeps DEF vars, store
  <2>2. ASSUME NEW s \in Sources, Push(s) \/ Announce(s) \/ RemoveStreamed(s)
        PROVE  OwnerInv'
    BY <2>2, PushKeeps, AnnounceKeeps, RemoveKeeps
  <2>3. ASSUME NEW s \in Sources, NEW i \in Ids, Complete(s, i) PROVE OwnerInv'
    BY <2>3, LockKeeps DEF Complete, OwnerInv, TypeOK
  <2>4. ASSUME NEW s \in Sources, NEW i \in Ids, TerminateStreamed(s, i) PROVE OwnerInv'
    BY <2>4, TerminateKeeps
  <2>5. ASSUME NEW s \in Sources, NEW m \in Messages, Poison(s, m) PROVE OwnerInv'
    BY <2>5, LockKeeps DEF Poison, OwnerInv, TypeOK
  <2>6. ASSUME NEW g \in Getters, Get(g) PROVE OwnerInv'
    <3>1. getter[g].pc # "idle"
      BY <2>6 DEF Get, Lookup, Check, FindLock, InsertLock, AwaitCreation, ClearLock,
                  Found, AwaitCompletion, TakeRef, Pop, At
    <3>2. g \in Aware \/ g \in Unaware
      BY <3>1, Knowledge DEF OwnerInv
    <3> QED BY <2>6, <3>2, AwareKeeps, UnawareKeeps
  <2>7. ASSUME NEW g \in Getters, NEW kind \in Kinds, NEW i \in Ids, Ask(g, kind, i)
        PROVE  OwnerInv'
    BY <2>7, AskKeeps
  <2> QED BY <2>1, <2>2, <2>3, <2>4, <2>5, <2>6, <2>7, AskedKind DEF Next, Write
<1> QED BY <1>1, <1>2, TypeCorrect, PTL DEF Spec

(* As long as nobody asks for another's message, and whoever asks before   *)
(* there is a message is the only one to ask at its identifier, none of    *)
(* the unwraps and expects of the getters can fail, nor the assumption of  *)
(* wait_for_message_creation that what was announced is there.             *)
THEOREM NoPanicHolds ==
    ASSUME Discipline # "free"
    PROVE  Spec => []NoPanic
<1>1. ASSUME OwnerInv PROVE NoPanic
  <2> SUFFICES ASSUME NEW g \in Getters, getter[g].pc = "panicked" PROVE FALSE
    BY DEF NoPanic, At
  <2>1. g \in Aware \/ g \in Unaware
    BY <1>1, Knowledge DEF OwnerInv
  <2> QED BY <1>1, <2>1 DEF OwnerInv, OwnPath, Early, Creating
<1> QED BY <1>1, InvariantHolds, PTL

(* An identifier denotes a getter's own message, from the moment the       *)
(* getter knows it until the getter has been served, whatever is pushed,   *)
(* streamed, terminated or popped meanwhile.                               *)
THEOREM OwnMessageHolds ==
    ASSUME Discipline # "free"
    PROVE  Spec => []OwnMessage
<1>1. OwnerInv => OwnMessage
  BY DEF OwnerInv
<1> QED BY <1>1, InvariantHolds, PTL

-----------------------------------------------------------------------------
(* A getter that is past the wait has seen the lock complete, and a lock   *)
(* that is complete stays so.                                              *)
CompletedFirst ==
    \A g \in Getters :
        getter[g].pc \in {"ref", "pop", "popped"} =>
            getter[g].msg \in Messages /\ complete_lock[getter[g].msg] = "Complete"

(* A completed lock stays complete: nothing poisons it.                    *)
LEMMA CompleteStays ==
    ASSUME TypeOK, [Next]_vars
    PROVE  \A m \in Messages : complete_lock[m] = "Complete" => complete_lock'[m] = "Complete"
<1>1. ASSUME NEW i \in Ids, Open(i) PROVE messages[i] \in Messages
  BY <1>1, BoundAssumption DEF TypeOK, Open, Exists, Messages
<1>2. CASE UNCHANGED vars
  BY <1>2 DEF vars, store
<1>3. ASSUME NEW s \in Sources, Push(s) \/ Announce(s) \/ RemoveStreamed(s)
      PROVE  UNCHANGED complete_lock
  BY <1>3 DEF Push, Announce, RemoveStreamed, store
<1>4. ASSUME NEW s \in Sources, NEW i \in Ids, Complete(s, i) \/ TerminateStreamed(s, i)
      PROVE  complete_lock' = [complete_lock EXCEPT ![messages[i]] = "Complete"]
  BY <1>4 DEF Complete, TerminateStreamed
<1>5. ASSUME NEW s \in Sources, NEW n \in Messages, Poison(s, n)
      PROVE  /\ complete_lock[n] = "Incomplete"
             /\ complete_lock' = [complete_lock EXCEPT ![n] = "Poisoned"]
  BY <1>5 DEF Poison
<1>6. ASSUME NEW g \in Getters, Get(g) PROVE UNCHANGED complete_lock
  BY <1>6 DEF Get, Lookup, Check, FindLock, InsertLock, AwaitCreation, ClearLock, Found,
              AwaitCompletion, TakeRef, Pop, store
<1>7. ASSUME NEW g \in Getters, NEW kind \in Kinds, NEW i \in Ids, Ask(g, kind, i)
      PROVE  UNCHANGED complete_lock
  BY <1>7 DEF Ask, store
<1> QED BY <1>2, <1>3, <1>4, <1>5, <1>6, <1>7, AskedKind DEF Next, Write, TypeOK

(* A getter goes past its wait only when the lock is complete.             *)
LEMMA ServedComplete ==
    ASSUME OwnerInv, OwnerInv', NEW g \in Getters, Get(g),
           getter'[g].pc \in {"ref", "pop", "popped"}, CompletedFirst
    PROVE  getter'[g].msg \in Messages /\ complete_lock[getter'[g].msg] = "Complete"
<1>0. getter \in [Getters -> GetterStates] /\ getter[g] \in GetterStates
  BY DEF OwnerInv, TypeOK
<1>1. getter[g].pc \in {"await", "ref", "pop"}
  BY <1>0 DEF Get, Lookup, Check, FindLock, InsertLock, AwaitCreation, ClearLock, Found,
         AwaitCompletion, TakeRef, Pop, Follow, Goto, At, GetterStates
<1>2. g \in Aware
  <2>1. g \in Unaware \/ g \in Aware
    BY <1>1, Knowledge DEF OwnerInv
  <2> QED BY <1>1, <2>1 DEF OwnerInv, OwnPath, Early, Creating
<1>3. getter'[g].msg = getter[g].msg
  BY <1>2, AwareSteps DEF Moves
<1>4. getter[g].msg \in Messages
  <2>1. getter[g].msg # None
    BY <1>2 DEF Aware, Unaware
  <2> QED BY <1>0, <2>1, BoundAssumption DEF GetterStates, OwnerInv, TypeOK, Messages
<1>5. CASE AwaitCompletion(g)
  <2>1. complete_lock[getter[g].msg] \in {"Incomplete", "Complete", "Poisoned"}
    BY <1>4 DEF OwnerInv, TypeOK
  <2>2. complete_lock[getter[g].msg] # "Poisoned"
    BY <1>0, <1>5 DEF AwaitCompletion, Goto, GetterStates
  <2> QED BY <1>3, <1>4, <1>5, <2>1, <2>2 DEF AwaitCompletion
<1>6. CASE TakeRef(g) \/ Pop(g)
  BY <1>3, <1>4, <1>6 DEF TakeRef, Pop, At, CompletedFirst
<1>7. CASE Lookup(g) \/ Check(g) \/ FindLock(g) \/ InsertLock(g) \/ AwaitCreation(g)
           \/ ClearLock(g) \/ Found(g)
  BY <1>1, <1>7 DEF Lookup, Check, FindLock, InsertLock, AwaitCreation, ClearLock, Found, At
<1> QED BY <1>5, <1>6, <1>7 DEF Get

(* What a getter takes out of the interface has been completed, never a    *)
(* message that was only poisoned or is still being written.               *)
THEOREM DeliveredCompleteHolds ==
    ASSUME Discipline # "free"
    PROVE  Spec => []DeliveredComplete
<1>1. Init => CompletedFirst
  BY DEF Init, CompletedFirst
<1>2. OwnerInv /\ OwnerInv' /\ CompletedFirst /\ [Next]_vars => CompletedFirst'
  <2> SUFFICES ASSUME OwnerInv, OwnerInv', CompletedFirst, [Next]_vars,
                      NEW h \in Getters, getter'[h].pc \in {"ref", "pop", "popped"}
               PROVE  /\ getter'[h].msg \in Messages
                      /\ complete_lock'[getter'[h].msg] = "Complete"
    BY DEF CompletedFirst, Messages
  <2>1. TypeOK /\ getter \in [Getters -> GetterStates]
    BY DEF OwnerInv, TypeOK
  <2>2. getter'[h].msg \in Messages /\ complete_lock[getter'[h].msg] = "Complete"
    <3>1. CASE getter'[h] = getter[h]
      BY <3>1 DEF CompletedFirst
    <3>2. ASSUME NEW g \in Getters, Get(g), g # h PROVE getter'[h] = getter[h]
      BY <2>1, <3>2 DEF Get, Lookup, Check, FindLock, InsertLock, AwaitCreation, ClearLock,
                 Found, AwaitCompletion, TakeRef, Pop, Follow, Goto
    <3>3. ASSUME NEW g \in Getters, NEW kind \in Kinds, NEW i \in Ids, Ask(g, kind, i)
          PROVE  getter'[h] = getter[h]
      BY <2>1, <3>3 DEF Ask
    <3>4. ASSUME NEW s \in Sources, Write(s) PROVE UNCHANGED getter
      BY <3>4 DEF Write, Push, Announce, RemoveStreamed, Complete, TerminateStreamed, Poison
    <3>5. CASE Get(h)
      BY <3>5, ServedComplete
    <3> QED BY <3>1, <3>2, <3>3, <3>4, <3>5, AskedKind DEF Next, vars
  <2> QED BY <2>1, <2>2, CompleteStays
<1>3. CompletedFirst => DeliveredComplete
  BY DEF CompletedFirst, DeliveredComplete, At
<1> QED BY <1>1, <1>2, <1>3, InvariantHolds, PTL DEF Spec

=============================================================================
