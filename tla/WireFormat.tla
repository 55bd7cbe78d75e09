----------------------------- MODULE WireFormat -----------------------------
(***************************************************************************)
(* The IPFI binary format (src/wire_utils.rs, src/integer.rs) and what a   *)
(* call carries (src/procedure_args.rs).  A byte is a number.  An index is *)
(* written in 1, 2, 4 or 8 bytes, whichever is the least it fits in, and a *)
(* multiflag says which.  Base is 256 in the program; a smaller one brings *)
(* the ends of all four ranges within reach.                               *)
(***************************************************************************)
EXTENDS Naturals, Sequences, SequencesExt

CONSTANT Base   \* how many values a byte of an index has

ASSUME BaseAssumption == Base \in 2 .. 256

-----------------------------------------------------------------------------
(* Integers, by the bytes they take.                                       *)

(* How many values an integer of so many bytes has.                        *)
Squared(n) == n * n
Capacity(size) ==
    CASE size = 1 -> Base
      [] size = 2 -> Squared(Base)
      [] size = 4 -> Squared(Squared(Base))
      [] size = 8 -> Squared(Squared(Squared(Base)))

\* Mutation: a bound is taken for the number of values.
SmallestSizeOfRange(value) ==
    IF value <= Capacity(1) THEN 1 ELSE IF value <= Capacity(2) THEN 2
    ELSE IF value <= Capacity(4) THEN 4 ELSE 8

SmallestSize(value) ==
    IF value < Capacity(1) THEN 1 ELSE IF value < Capacity(2) THEN 2
    ELSE IF value < Capacity(4) THEN 4 ELSE 8

SizeToFlag(size) == <<size \in {4, 8}, size \in {2, 8}>>

\* Mutation: the two bits are read the other way round.
SizeFromFlagSwapped(flag) ==
    IF flag[2] THEN IF flag[1] THEN 8 ELSE 4 ELSE IF flag[1] THEN 2 ELSE 1

SizeFromFlag(flag) ==
    IF flag[1] THEN IF flag[2] THEN 8 ELSE 4 ELSE IF flag[2] THEN 2 ELSE 1

(* A value is cut to the size it is written in; then the low half first,   *)
(* and so for each half.                                                   *)
ToLeBytes(value, size) ==
    LET cut == value % Capacity(size)
        two(v) == <<v % Base, v \div Base>>
        four(v) == two(v % Capacity(2)) \o two(v \div Capacity(2))
    IN  CASE size = 1 -> <<cut>>
          [] size = 2 -> two(cut)
          [] size = 4 -> four(cut)
          [] size = 8 -> four(cut % Capacity(4)) \o four(cut \div Capacity(4))

FromLeBytes(bytes) ==
    LET two(i) == bytes[i] + Base * bytes[i + 1]
        four(i) == two(i) + Capacity(2) * two(i + 2)
    IN  CASE Len(bytes) = 1 -> bytes[1]
          [] Len(bytes) = 2 -> two(1)
          [] Len(bytes) = 4 -> four(1)
          [] Len(bytes) = 8 -> four(1) + Capacity(4) * four(5)

(* into_int and into_usize: whether a value fits a type of so many bytes,  *)
(* whatever type it was sent as.                                           *)
Fits(value, size) == value < Capacity(size)

-----------------------------------------------------------------------------
(* The multiflag.                                                          *)
TerminatorToFlag(terminator) == <<terminator # "none", terminator = "complete">>

\* The fourth flag is Error::InvalidTerminator, and no writer sends it.
TerminatorFromFlag(flag) ==
    IF flag[1] THEN IF flag[2] THEN "complete" ELSE "chunk"
    ELSE IF flag[2] THEN "invalid" ELSE "none"

PlaceValue == <<1, 2, 4, 8, 16, 32, 64, 128>>
BitsToByte(bits) ==
    LET bit(i) == IF bits[i] THEN PlaceValue[i] ELSE 0
    IN  bit(1) + bit(2) + bit(3) + bit(4) + bit(5) + bit(6) + bit(7) + bit(8)
ByteToBits(byte) == [i \in 1 .. 8 |-> (byte \div PlaceValue[i]) % 2 = 1]

Multiflag(procedure, call, length, terminator) ==
    LET p == SizeToFlag(SmallestSize(procedure))
        c == SizeToFlag(SmallestSize(call))
        l == SizeToFlag(SmallestSize(length))
        t == TerminatorToFlag(terminator)
    IN  BitsToByte(<<p[1], p[2], c[1], c[2], l[1], l[2], t[1], t[2]>>)

-----------------------------------------------------------------------------
(* Message::to_bytes.                                                      *)
TypeByte(message) ==
    CASE message.type = "termination"  -> 0
      [] message.type = "call"         -> 1
      [] message.type = "response"     -> 2
      [] message.type = "end_of_input" -> 3

ToBytes(message) ==
    LET Integer(value) == ToLeBytes(value, SmallestSize(value)) IN
    IF message.type \in {"termination", "end_of_input"} THEN <<TypeByte(message)>>
    ELSE <<TypeByte(message),
           Multiflag(message.key[1], message.key[2], Len(message.body), message.terminator)>>
         \o Integer(message.key[1]) \o Integer(message.key[2])
         \o Integer(Len(message.body)) \o message.body

-----------------------------------------------------------------------------
(* Arguments are serialised one by one and joined, without the marker a    *)
(* tuple of them begins with; the callee knows how many it takes and puts  *)
(* the marker back.  MessagePack writes an integer below 128 as itself and *)
(* one below 256 after a byte of its own, 204.                             *)
Pack(value) == IF value < 128 THEN <<value>> ELSE <<204, value>>
IntoBytes(arguments) == FlattenSeq([i \in 1 .. Len(arguments) |-> Pack(arguments[i])])

(* The values a callee that takes n of them finds at the start of the      *)
(* bytes: as many as there are, if there are too few.                      *)
Unpack(bytes, n) ==
    LET size(i) == IF bytes[i] = 204 THEN 2 ELSE 1
        at[i \in Nat] ==   \* where the i-th value begins
            IF i = 1 THEN 1
            ELSE IF at[i - 1] > Len(bytes) THEN at[i - 1] ELSE at[i - 1] + size(at[i - 1])
        there == {i \in 1 .. n : at[i] <= Len(bytes) /\ at[i] + size(at[i]) - 1 <= Len(bytes)}
    IN [i \in there |-> bytes[at[i] + size(at[i]) - 1]]
=============================================================================
