-------------------------- MODULE ByteStreamProof --------------------------
(***************************************************************************)
(* Proofs about WireFormat and ByteStream, for any calls and bytes and any *)
(* way a stream cuts them: what the reader finds in the bytes of a message *)
(* is the message; what is on its way is laid out message after message    *)
(* from where the reader is, so that messages arrive whole, once and in    *)
(* order; and the pieces of a call come together to what its caller gave.  *)
(***************************************************************************)
EXTENDS ByteStream, FiniteSetTheorems, SequenceTheorems, TLAPS

-----------------------------------------------------------------------------
(* Integers are read back as they were written.                            *)
LEMMA Division ==
    ASSUME NEW v \in Nat, NEW n \in Nat, n > 0
    PROVE  v = (v % n) + n * (v \div n) /\ v % n \in 0 .. n - 1 /\ v \div n \in Nat
OBVIOUS

LEMMA Quotient ==
    ASSUME NEW v \in Nat, NEW n \in Nat, n > 0, NEW m \in Nat, v < n * m
    PROVE  v \div n < m
<1>1. v = (v % n) + n * (v \div n) /\ v % n \in Nat /\ v \div n \in Nat
  BY Division
<1>2. n * (v \div n) < n * m
  BY <1>1
<1> QED BY <1>1, <1>2

LEMMA Capacities ==
    /\ Capacity(1) = Base /\ Base \in Nat /\ Base > 0 /\ Base <= 256
    /\ Capacity(2) \in Nat /\ Capacity(2) > 0 /\ Capacity(2) = Base * Base
    /\ Capacity(4) \in Nat /\ Capacity(4) > 0 /\ Capacity(4) = Capacity(2) * Capacity(2)
    /\ Capacity(8) \in Nat /\ Capacity(8) = Capacity(4) * Capacity(4)
<1>1. Base \in Nat /\ Base > 0 /\ Base <= 256 /\ Capacity(1) = Base
  BY BaseAssumption DEF Capacity
<1>2. Capacity(2) = Base * Base
  BY DEF Capacity, Squared
<1>3. Capacity(4) = Capacity(2) * Capacity(2)
  BY DEF Capacity, Squared
<1>4. Capacity(8) = Capacity(4) * Capacity(4)
  BY DEF Capacity, Squared
<1>5. Capacity(2) \in Nat /\ Capacity(2) > 0
  BY <1>1, <1>2
<1>6. Capacity(4) \in Nat /\ Capacity(4) > 0
  BY <1>3, <1>5
<1> QED BY <1>1, <1>2, <1>3, <1>4, <1>5, <1>6

Two(v) == <<v % Base, v \div Base>>
Four(v) == Two(v % Capacity(2)) \o Two(v \div Capacity(2))
Byte == 0 .. 255

(* Two sequences of the same length, one behind the other.                 *)
LEMMA Halves ==
    ASSUME NEW S, NEW n \in Nat, NEW s \in Seq(S), NEW t \in Seq(S), Len(s) = n, Len(t) = n
    PROVE  /\ s \o t \in Seq(S) /\ Len(s \o t) = n + n
           /\ \A i \in 1 .. n : (s \o t)[i] = s[i] /\ (s \o t)[n + i] = t[i]
OBVIOUS

LEMMA TwoTwos ==
    ASSUME NEW S, NEW s \in Seq(S), NEW t \in Seq(S), Len(s) = 2, Len(t) = 2
    PROVE  /\ s \o t \in Seq(S) /\ Len(s \o t) = 4
           /\ (s \o t)[1] = s[1] /\ (s \o t)[2] = s[2]
           /\ (s \o t)[3] = t[1] /\ (s \o t)[4] = t[2]
<1> DEFINE n == 2
           b == s \o t
<1>1. n \in Nat /\ Len(s) = n /\ Len(t) = n
  OBVIOUS
<1> HIDE DEF n
<1>2. b \in Seq(S) /\ Len(b) = n + n /\ \A i \in 1 .. n : b[i] = s[i] /\ b[n + i] = t[i]
  BY <1>1, Halves, SMTT(30)
<1> HIDE DEF b
<1>3. /\ b \in Seq(S) /\ Len(b) = 4
      /\ b[1] = s[1] /\ b[2] = s[2] /\ b[3] = t[1] /\ b[4] = t[2]
  BY <1>2 DEF n
<1> QED BY <1>3 DEF b

LEMMA TwoFours ==
    ASSUME NEW S, NEW s \in Seq(S), NEW t \in Seq(S), Len(s) = 4, Len(t) = 4
    PROVE  /\ s \o t \in Seq(S) /\ Len(s \o t) = 8
           /\ (s \o t)[1] = s[1] /\ (s \o t)[2] = s[2]
           /\ (s \o t)[3] = s[3] /\ (s \o t)[4] = s[4]
           /\ (s \o t)[5] = t[1] /\ (s \o t)[6] = t[2]
           /\ (s \o t)[7] = t[3] /\ (s \o t)[8] = t[4]
<1> DEFINE n == 4
           b == s \o t
<1>1. n \in Nat /\ Len(s) = n /\ Len(t) = n
  OBVIOUS
<1> HIDE DEF n
<1>2. b \in Seq(S) /\ Len(b) = n + n /\ \A i \in 1 .. n : b[i] = s[i] /\ b[n + i] = t[i]
  BY <1>1, Halves, SMTT(30)
<1> HIDE DEF b
<1>3. /\ b \in Seq(S) /\ Len(b) = 8
      /\ b[1] = s[1] /\ b[2] = s[2] /\ b[3] = s[3] /\ b[4] = s[4]
      /\ b[5] = t[1] /\ b[6] = t[2] /\ b[7] = t[3] /\ b[8] = t[4]
  BY <1>2 DEF n
<1> QED BY <1>3 DEF b

LEMMA TwoBack ==
    ASSUME NEW v \in Nat, v < Capacity(2)
    PROVE  /\ Two(v) \in Seq(Byte) /\ Len(Two(v)) = 2
           /\ Two(v)[1] + Base * Two(v)[2] = v
<1>1. v = (v % Base) + Base * (v \div Base) /\ v % Base \in 0 .. Base - 1 /\ v \div Base \in Nat
  BY Division, Capacities
<1>2. v \div Base < Base
  BY Quotient, Capacities
<1>3. v % Base \in Byte /\ v \div Base \in Byte
  BY <1>1, <1>2, Capacities DEF Byte
<1> QED BY <1>1, <1>3 DEF Two

LEMMA FourBack ==
    ASSUME NEW v \in Nat, v < Capacity(4)
    PROVE  /\ Four(v) \in Seq(Byte) /\ Len(Four(v)) = 4
           /\ Four(v)[1] + Base * Four(v)[2] + Capacity(2) * (Four(v)[3] + Base * Four(v)[4]) = v
<1> DEFINE low == v % Capacity(2)
           high == v \div Capacity(2)
<1>0. Capacity(2) \in Nat /\ Capacity(2) > 0
  BY Capacities
<1>1. v = low + Capacity(2) * high /\ low \in 0 .. Capacity(2) - 1 /\ high \in Nat
  BY <1>0, Division
<1>2. high < Capacity(2)
  BY Quotient, Capacities
<1> HIDE DEF low, high
<1>3. /\ Two(low) \in Seq(Byte) /\ Len(Two(low)) = 2 /\ Two(low)[1] + Base * Two(low)[2] = low
      /\ Two(high) \in Seq(Byte) /\ Len(Two(high)) = 2 /\ Two(high)[1] + Base * Two(high)[2] = high
  BY <1>0, <1>1, <1>2, TwoBack
<1>4. Four(v) = Two(low) \o Two(high)
  BY DEF Four, low, high
<1>5. /\ Four(v) \in Seq(Byte) /\ Len(Four(v)) = 4
      /\ Four(v)[1] = Two(low)[1] /\ Four(v)[2] = Two(low)[2]
      /\ Four(v)[3] = Two(high)[1] /\ Four(v)[4] = Two(high)[2]
  BY <1>3, <1>4, TwoTwos
<1> QED BY <1>1, <1>3, <1>5

Integer(v) == ToLeBytes(v, SmallestSize(v))

LEMMA Uncut ==
    ASSUME NEW v \in Nat, NEW n \in Nat, v < n
    PROVE  v % n = v
OBVIOUS

LEMMA IntegerBack ==
    ASSUME NEW v \in Indices
    PROVE  /\ SmallestSize(v) \in {1, 2, 4, 8}
           /\ Integer(v) \in Seq(Byte) /\ Len(Integer(v)) = SmallestSize(v)
           /\ FromLeBytes(Integer(v)) = v
<1>0. v \in Nat /\ v < Capacity(8)
  BY DEF Indices, Fits
<1>1. CASE v < Capacity(1)
  <2>1. SmallestSize(v) = 1 /\ Integer(v) = <<v>> /\ v \in Byte
    <3>1. SmallestSize(v) = 1 /\ v \in Byte
      BY <1>0, <1>1, Capacities DEF SmallestSize, Byte
    <3>2. v % Capacity(1) = v
      BY <1>0, <1>1, Capacities, Uncut
    <3> QED BY <3>1, <3>2 DEF Integer, ToLeBytes
  <2> QED BY <2>1 DEF FromLeBytes
<1>2. CASE ~(v < Capacity(1)) /\ v < Capacity(2)
  <2>1. SmallestSize(v) = 2
    BY <1>2 DEF SmallestSize
  <2>2. Integer(v) = Two(v)
    <3>1. v % Capacity(2) = v
      BY <1>0, <1>2, Capacities, Uncut
    <3> QED BY <2>1, <3>1 DEF Integer, ToLeBytes, Two
  <2>3. FromLeBytes(Integer(v)) = Two(v)[1] + Base * Two(v)[2]
    BY <1>0, <1>2, <2>2, TwoBack DEF FromLeBytes
  <2> QED BY <1>0, <1>2, <2>1, <2>2, <2>3, TwoBack
<1>3. CASE ~(v < Capacity(1)) /\ ~(v < Capacity(2)) /\ v < Capacity(4)
  <2>1. SmallestSize(v) = 4
    BY <1>3 DEF SmallestSize
  <2>2. Integer(v) = Four(v)
    <3>1. v % Capacity(4) = v
      BY <1>0, <1>3, Capacities, Uncut
    <3> QED BY <2>1, <3>1 DEF Integer, ToLeBytes, Four, Two
  <2>3. FromLeBytes(Integer(v)) =
          Four(v)[1] + Base * Four(v)[2] + Capacity(2) * (Four(v)[3] + Base * Four(v)[4])
    BY <1>0, <1>3, <2>2, FourBack DEF FromLeBytes
  <2> QED BY <1>0, <1>3, <2>1, <2>2, <2>3, FourBack
<1>4. CASE ~(v < Capacity(1)) /\ ~(v < Capacity(2)) /\ ~(v < Capacity(4))
  <2> DEFINE low == v % Capacity(4)
             high == v \div Capacity(4)
             b == Four(low) \o Four(high)
  <2>1. SmallestSize(v) = 8
    BY <1>4 DEF SmallestSize
  <2>2. Integer(v) = b
    <3>1. v % Capacity(8) = v
      BY <1>0, Capacities, Uncut
    <3> QED BY <2>1, <3>1 DEF Integer, ToLeBytes, Four, Two
  <2>0. Capacity(4) \in Nat /\ Capacity(4) > 0
    BY Capacities
  <2>3. v = low + Capacity(4) * high /\ low \in 0 .. Capacity(4) - 1 /\ high \in Nat
    BY <1>0, <2>0, Division
  <2>4. high < Capacity(4)
    BY <1>0, Quotient, Capacities
  <2> HIDE DEF low, high
  <2>5. /\ Four(low) \in Seq(Byte) /\ Len(Four(low)) = 4
        /\ Four(high) \in Seq(Byte) /\ Len(Four(high)) = 4
        /\ Four(low)[1] + Base * Four(low)[2] + Capacity(2) * (Four(low)[3] + Base * Four(low)[4]) = low
        /\ Four(high)[1] + Base * Four(high)[2] + Capacity(2) * (Four(high)[3] + Base * Four(high)[4]) = high
    BY <2>0, <2>3, <2>4, FourBack
  <2>6. /\ b \in Seq(Byte) /\ Len(b) = 8
        /\ b[1] = Four(low)[1] /\ b[2] = Four(low)[2] /\ b[3] = Four(low)[3] /\ b[4] = Four(low)[4]
        /\ b[5] = Four(high)[1] /\ b[6] = Four(high)[2] /\ b[7] = Four(high)[3] /\ b[8] = Four(high)[4]
    BY <2>5, TwoFours
  <2> HIDE DEF b
  <2>7. FromLeBytes(b) =
          b[1] + Base * b[2] + Capacity(2) * (b[3] + Base * b[4])
          + Capacity(4) * (b[5] + Base * b[6] + Capacity(2) * (b[7] + Base * b[8]))
    BY <2>6 DEF FromLeBytes
  <2>8. FromLeBytes(b) = low + Capacity(4) * high
    BY <2>5, <2>6, <2>7
  <2> QED BY <2>1, <2>2, <2>3, <2>6, <2>8
<1> QED BY <1>1, <1>2, <1>3, <1>4

-----------------------------------------------------------------------------
(* What a multiflag says is what went into it.                             *)
LEMMA BitsBack ==
    ASSUME NEW bits, \A i \in 1 .. 8 : bits[i] \in BOOLEAN
    PROVE  /\ BitsToByte(bits) \in 0 .. 255
           /\ \A i \in 1 .. 8 : ByteToBits(BitsToByte(bits))[i] = bits[i]
<1> DEFINE z(i) == IF bits[i] THEN 1 ELSE 0
           n == BitsToByte(bits)
<1>1. \A i \in 1 .. 8 : z(i) \in 0 .. 1 /\ (bits[i] <=> z(i) = 1)
  OBVIOUS
<1>2. n = z(1) + 2 * z(2) + 4 * z(3) + 8 * z(4) + 16 * z(5) + 32 * z(6) + 64 * z(7) + 128 * z(8)
  BY DEF BitsToByte, PlaceValue
<1>3. \A i \in 1 .. 8 : ByteToBits(n)[i] = ((n \div PlaceValue[i]) % 2 = 1)
  BY DEF ByteToBits
<1> HIDE DEF z, n
<1>4. PICK a \in 0 .. 1, b \in 0 .. 1, c \in 0 .. 1, d \in 0 .. 1,
           e \in 0 .. 1, f \in 0 .. 1, g \in 0 .. 1, h \in 0 .. 1 :
        /\ z(1) = a /\ z(2) = b /\ z(3) = c /\ z(4) = d
        /\ z(5) = e /\ z(6) = f /\ z(7) = g /\ z(8) = h
  BY <1>1
<1>5. n = a + 2 * b + 4 * c + 8 * d + 16 * e + 32 * f + 64 * g + 128 * h
  BY <1>2, <1>4
<1>6. /\ n \in 0 .. 255
      /\ (n \div 1) % 2 = a /\ (n \div 2) % 2 = b /\ (n \div 4) % 2 = c
      /\ (n \div 8) % 2 = d /\ (n \div 16) % 2 = e /\ (n \div 32) % 2 = f
      /\ (n \div 64) % 2 = g /\ (n \div 128) % 2 = h
  BY <1>4, <1>5
<1>7. /\ PlaceValue[1] = 1 /\ PlaceValue[2] = 2 /\ PlaceValue[3] = 4 /\ PlaceValue[4] = 8
      /\ PlaceValue[5] = 16 /\ PlaceValue[6] = 32 /\ PlaceValue[7] = 64 /\ PlaceValue[8] = 128
  BY DEF PlaceValue
<1>8. /\ (n \div PlaceValue[1]) % 2 = z(1) /\ (n \div PlaceValue[2]) % 2 = z(2)
      /\ (n \div PlaceValue[3]) % 2 = z(3) /\ (n \div PlaceValue[4]) % 2 = z(4)
      /\ (n \div PlaceValue[5]) % 2 = z(5) /\ (n \div PlaceValue[6]) % 2 = z(6)
      /\ (n \div PlaceValue[7]) % 2 = z(7) /\ (n \div PlaceValue[8]) % 2 = z(8)
  BY <1>4, <1>6, <1>7
<1>9. ASSUME NEW i \in 1 .. 8 PROVE (n \div PlaceValue[i]) % 2 = z(i)
  <2>1. i = 1 \/ i = 2 \/ i = 3 \/ i = 4 \/ i = 5 \/ i = 6 \/ i = 7 \/ i = 8
    OBVIOUS
  <2> QED BY <1>8, <2>1
<1>10. ASSUME NEW i \in 1 .. 8 PROVE ByteToBits(n)[i] = bits[i]
  <2>1. ByteToBits(n)[i] = (z(i) = 1)
    BY <1>3, <1>9
  <2> QED BY <1>1, <2>1
<1> QED BY <1>6, <1>10 DEF n

LEMMA SizeBack ==
    ASSUME NEW size \in {1, 2, 4, 8}
    PROVE  SizeFromFlag(SizeToFlag(size)) = size
BY DEF SizeFromFlag, SizeToFlag

Terminators == {"none", "chunk", "complete"}

LEMMA TerminatorBack ==
    ASSUME NEW terminator \in Terminators
    PROVE  TerminatorFromFlag(TerminatorToFlag(terminator)) = terminator
BY DEF TerminatorFromFlag, TerminatorToFlag, Terminators

LEMMA MultiflagBack ==
    ASSUME NEW p, NEW c, NEW l, NEW terminator \in Terminators,
           SmallestSize(p) \in {1, 2, 4, 8}, SmallestSize(c) \in {1, 2, 4, 8},
           SmallestSize(l) \in {1, 2, 4, 8}
    PROVE  LET bits == ByteToBits(Multiflag(p, c, l, terminator)) IN
           /\ Multiflag(p, c, l, terminator) \in 0 .. 255
           /\ SizeFromFlag(<<bits[1], bits[2]>>) = SmallestSize(p)
           /\ SizeFromFlag(<<bits[3], bits[4]>>) = SmallestSize(c)
           /\ SizeFromFlag(<<bits[5], bits[6]>>) = SmallestSize(l)
           /\ TerminatorFromFlag(<<bits[7], bits[8]>>) = terminator
<1> DEFINE byte == Multiflag(p, c, l, terminator)
           bits == ByteToBits(byte)
           P == SizeToFlag(SmallestSize(p))
           C == SizeToFlag(SmallestSize(c))
           L == SizeToFlag(SmallestSize(l))
           T == TerminatorToFlag(terminator)
           b == <<P[1], P[2], C[1], C[2], L[1], L[2], T[1], T[2]>>
<1>1. byte = BitsToByte(b)
  BY DEF Multiflag
<1>2. /\ P[1] \in BOOLEAN /\ P[2] \in BOOLEAN /\ C[1] \in BOOLEAN /\ C[2] \in BOOLEAN
      /\ L[1] \in BOOLEAN /\ L[2] \in BOOLEAN /\ T[1] \in BOOLEAN /\ T[2] \in BOOLEAN
  BY DEF SizeToFlag, TerminatorToFlag
<1>3. P = <<P[1], P[2]>> /\ C = <<C[1], C[2]>> /\ L = <<L[1], L[2]>> /\ T = <<T[1], T[2]>>
  BY DEF SizeToFlag, TerminatorToFlag
<1>4. /\ SizeFromFlag(P) = SmallestSize(p) /\ SizeFromFlag(C) = SmallestSize(c)
      /\ SizeFromFlag(L) = SmallestSize(l) /\ TerminatorFromFlag(T) = terminator
  BY SizeBack, TerminatorBack
<1> HIDE DEF P, C, L, T
<1>5. /\ b[1] = P[1] /\ b[2] = P[2] /\ b[3] = C[1] /\ b[4] = C[2]
      /\ b[5] = L[1] /\ b[6] = L[2] /\ b[7] = T[1] /\ b[8] = T[2]
  OBVIOUS
<1> HIDE DEF b
<1>6. \A i \in 1 .. 8 : b[i] \in BOOLEAN
  <2> TAKE i \in 1 .. 8
  <2>1. i = 1 \/ i = 2 \/ i = 3 \/ i = 4 \/ i = 5 \/ i = 6 \/ i = 7 \/ i = 8
    OBVIOUS
  <2> QED BY <1>2, <1>5, <2>1, Zenon
<1> HIDE DEF byte
<1>7. byte \in 0 .. 255 /\ \A i \in 1 .. 8 : bits[i] = b[i]
  BY <1>1, <1>6, BitsBack
<1>8. /\ bits[1] = P[1] /\ bits[2] = P[2] /\ bits[3] = C[1] /\ bits[4] = C[2]
      /\ bits[5] = L[1] /\ bits[6] = L[2] /\ bits[7] = T[1] /\ bits[8] = T[2]
  BY <1>5, <1>7
<1> HIDE DEF bits
<1>9. /\ SizeFromFlag(<<bits[1], bits[2]>>) = SmallestSize(p)
      /\ SizeFromFlag(<<bits[3], bits[4]>>) = SmallestSize(c)
      /\ SizeFromFlag(<<bits[5], bits[6]>>) = SmallestSize(l)
      /\ TerminatorFromFlag(<<bits[7], bits[8]>>) = terminator
  BY <1>3, <1>4, <1>8
<1> QED BY <1>7, <1>9 DEF byte, bits

-----------------------------------------------------------------------------
(* A message is its fields, one behind the other.                          *)
CallMessages ==
    [type : {"call"}, key : Procedures \X Indices, body : Bodies, terminator : Terminators]
Laden == CallMessages \cup Responses
Messages == Laden \cup Signals

FlagsOf(m) == Multiflag(m.key[1], m.key[2], Len(m.body), m.terminator)

(* What a reader makes of the fields before the bytes.                     *)
Header(m) == <<TypeByte(m), FlagsOf(m), m.key[1], m.key[2], Len(m.body)>>

Field(m, k) ==
    CASE k = 1 -> <<TypeByte(m)>>
      [] k = 2 -> <<FlagsOf(m)>>
      [] k = 3 -> Integer(m.key[1])
      [] k = 4 -> Integer(m.key[2])
      [] k = 5 -> Integer(Len(m.body))
      [] k = 6 -> m.body

(* Len and \o under other names: what the provers know of them misleads    *)
(* them where a length is a number, or a sequence is joined from many.     *)
Length(s) == Len(s)
Join(s, t) == s \o t

(* The bytes before a field.                                               *)
Before(m, k) ==
    CASE k = 1 -> 0
      [] k = 2 -> 1
      [] k = 3 -> 2
      [] k = 4 -> 2 + Length(Integer(m.key[1]))
      [] k = 5 -> 2 + Length(Integer(m.key[1])) + Length(Integer(m.key[2]))
      [] k = 6 -> 2 + Length(Integer(m.key[1])) + Length(Integer(m.key[2])) + Length(Integer(Len(m.body)))

LEMMA Joined ==
    ASSUME NEW S, NEW s \in Seq(S), NEW t \in Seq(S)
    PROVE  /\ Join(s, t) \in Seq(S) /\ Length(Join(s, t)) = Length(s) + Length(t)
           /\ Length(s) \in Nat /\ Length(t) \in Nat
BY DEF Join, Length

LEMMA JoinedLeft ==
    ASSUME NEW S, NEW s \in Seq(S), NEW t \in Seq(S), NEW i \in 1 .. Length(s)
    PROVE  Join(s, t)[i] = s[i]
BY DEF Join, Length

LEMMA JoinedRight ==
    ASSUME NEW S, NEW s \in Seq(S), NEW t \in Seq(S), NEW i \in 1 .. Length(t)
    PROVE  Join(s, t)[Length(s) + i] = t[i]
BY DEF Join, Length

LEMMA FiveJoined ==
    ASSUME NEW S, NEW a \in Seq(S), NEW b \in Seq(S), NEW c \in Seq(S),
           NEW d \in Seq(S), NEW e \in Seq(S),
           NEW s, s = Join(Join(Join(Join(a, b), c), d), e)
    PROVE  /\ s \in Seq(S)
           /\ Length(s) = Length(a) + Length(b) + Length(c) + Length(d) + Length(e)
           /\ \A i \in 1 .. Length(a) : s[i] = a[i]
           /\ \A i \in 1 .. Length(b) : s[Length(a) + i] = b[i]
           /\ \A i \in 1 .. Length(c) : s[Length(a) + Length(b) + i] = c[i]
           /\ \A i \in 1 .. Length(d) : s[Length(a) + Length(b) + Length(c) + i] = d[i]
           /\ \A i \in 1 .. Length(e) : s[Length(a) + Length(b) + Length(c) + Length(d) + i] = e[i]
<1> DEFINE p == Join(a, b)
           q == Join(p, c)
           r == Join(q, d)
<1>1. /\ p \in Seq(S) /\ Length(p) = Length(a) + Length(b)
      /\ Length(a) \in Nat /\ Length(b) \in Nat
  BY Joined
<1>2. q \in Seq(S) /\ Length(q) = Length(p) + Length(c) /\ Length(c) \in Nat
  <2> HIDE DEF p
  <2> QED BY <1>1, Joined
<1>3. r \in Seq(S) /\ Length(r) = Length(q) + Length(d) /\ Length(d) \in Nat
  <2> HIDE DEF q
  <2> QED BY <1>2, Joined
<1>4. s \in Seq(S) /\ Length(s) = Length(r) + Length(e) /\ Length(e) \in Nat
  <2> HIDE DEF r
  <2> QED BY <1>3, Joined DEF r
<1>5. ASSUME NEW n \in 1 .. Length(r) PROVE s[n] = r[n]
  <2> HIDE DEF r
  <2> QED BY <1>3, JoinedLeft DEF r
<1>6. ASSUME NEW n \in 1 .. Length(q) PROVE r[n] = q[n]
  <2> HIDE DEF q
  <2> QED BY <1>2, JoinedLeft
<1>7. ASSUME NEW n \in 1 .. Length(p) PROVE q[n] = p[n]
  <2> HIDE DEF p
  <2> QED BY <1>1, JoinedLeft
<1>8. ASSUME NEW n \in 1 .. Length(a) PROVE p[n] = a[n]
  BY JoinedLeft
<1>9. ASSUME NEW i \in 1 .. Length(e) PROVE s[Length(r) + i] = e[i]
  <2> HIDE DEF r
  <2> QED BY <1>3, JoinedRight DEF r
<1>10. ASSUME NEW i \in 1 .. Length(d) PROVE r[Length(q) + i] = d[i]
  <2> HIDE DEF q
  <2> QED BY <1>2, JoinedRight
<1>11. ASSUME NEW i \in 1 .. Length(c) PROVE q[Length(p) + i] = c[i]
  <2> HIDE DEF p
  <2> QED BY <1>1, JoinedRight
<1>12. ASSUME NEW i \in 1 .. Length(b) PROVE p[Length(a) + i] = b[i]
  BY JoinedRight
<1> HIDE DEF p, q, r
<1>13. ASSUME NEW i \in 1 .. Length(a) PROVE s[i] = a[i]
  <2>1. i \in 1 .. Length(p) /\ i \in 1 .. Length(q) /\ i \in 1 .. Length(r)
    BY <1>1, <1>2, <1>3
  <2> QED BY <1>5, <1>6, <1>7, <1>8, <2>1
<1>14. ASSUME NEW i \in 1 .. Length(b) PROVE s[Length(a) + i] = b[i]
  <2> DEFINE n == Length(a) + i
  <2>1. n \in 1 .. Length(p) /\ n \in 1 .. Length(q) /\ n \in 1 .. Length(r)
    BY SMTT(30), <1>1, <1>2, <1>3
  <2> HIDE DEF n
  <2>2. s[n] = p[n]
    BY <1>5, <1>6, <1>7, <2>1
  <2>3. p[n] = b[i]
    BY <1>12 DEF n
  <2> QED BY <2>2, <2>3 DEF n
<1>15. ASSUME NEW i \in 1 .. Length(c) PROVE s[Length(a) + Length(b) + i] = c[i]
  <2> DEFINE n == Length(a) + Length(b) + i
  <2>1. n \in 1 .. Length(q) /\ n \in 1 .. Length(r) /\ n = Length(p) + i
    BY SMTT(30), <1>1, <1>2, <1>3
  <2> HIDE DEF n
  <2>2. s[n] = q[n]
    BY <1>5, <1>6, <2>1
  <2>3. q[n] = c[i]
    BY <1>11, <2>1
  <2> QED BY <2>2, <2>3 DEF n
<1>16. ASSUME NEW i \in 1 .. Length(d) PROVE s[Length(a) + Length(b) + Length(c) + i] = d[i]
  <2> DEFINE n == Length(a) + Length(b) + Length(c) + i
  <2>1. n \in 1 .. Length(r) /\ n = Length(q) + i
    BY SMTT(30), <1>1, <1>2, <1>3
  <2> HIDE DEF n
  <2>2. s[n] = r[n]
    BY <1>5, <2>1
  <2>3. r[n] = d[i]
    BY <1>10, <2>1
  <2> QED BY <2>2, <2>3 DEF n
<1>17. ASSUME NEW i \in 1 .. Length(e)
       PROVE  s[Length(a) + Length(b) + Length(c) + Length(d) + i] = e[i]
  <2> DEFINE n == Length(a) + Length(b) + Length(c) + Length(d) + i
  <2>1. n = Length(r) + i
    BY <1>1, <1>2, <1>3
  <2> HIDE DEF n
  <2>2. s[n] = e[i]
    BY <1>9, <2>1
  <2> QED BY <2>2 DEF n
<1>18. Length(s) = Length(a) + Length(b) + Length(c) + Length(d) + Length(e)
  BY <1>1, <1>2, <1>3, <1>4
<1> QED BY <1>4, <1>13, <1>14, <1>15, <1>16, <1>17, <1>18

LEMMA LadenParts ==
    ASSUME NEW m \in Laden
    PROVE  /\ m = [type |-> m.type, key |-> <<m.key[1], m.key[2]>>, body |-> m.body,
                   terminator |-> m.terminator]
           /\ m.type \in {"call", "response"}
           /\ m.type = "call" => m.key[1] \in Procedures
           /\ m.key[1] \in Indices /\ m.key[2] \in Indices
           /\ m.body \in Seq(Byte) /\ Len(m.body) \in Indices
           /\ m.terminator \in Terminators
<1>1. CASE m \in CallMessages
  <2>1. m.key \in Procedures \X Indices /\ m.body \in Bodies
    BY <1>1 DEF CallMessages
  <2>2. m.key = <<m.key[1], m.key[2]>> /\ m.key[1] \in Procedures /\ m.key[2] \in Indices
    BY <2>1
  <2>3. m.key[1] \in Indices
    BY <2>2, CallsAssumption
  <2>4. m.body \in Seq(Byte) /\ Len(m.body) \in Indices
    BY <2>1 DEF Bodies, Byte
  <2>5. /\ m = [type |-> m.type, key |-> m.key, body |-> m.body, terminator |-> m.terminator]
        /\ m.type = "call" /\ m.terminator \in Terminators
    BY <1>1 DEF CallMessages
  <2> QED BY <2>2, <2>3, <2>4, <2>5
<1>2. CASE m \in Responses
  <2>1. m.key \in Indices \X Indices /\ m.body \in Bodies
    BY <1>2 DEF Responses
  <2>2. m.key = <<m.key[1], m.key[2]>> /\ m.key[1] \in Indices /\ m.key[2] \in Indices
    BY <2>1
  <2>3. m.body \in Seq(Byte) /\ Len(m.body) \in Indices
    BY <2>1 DEF Bodies, Byte
  <2>4. /\ m = [type |-> m.type, key |-> m.key, body |-> m.body, terminator |-> m.terminator]
        /\ m.type = "response" /\ m.terminator \in Terminators
    BY <1>2 DEF Responses, Terminators
  <2> QED BY <2>2, <2>3, <2>4
<1> QED BY <1>1, <1>2 DEF Laden

LEMMA Leading ==
    ASSUME NEW m \in Laden
    PROVE  TypeByte(m) \in Byte /\ FlagsOf(m) \in Byte
<1>1. /\ m.key[1] \in Indices /\ m.key[2] \in Indices /\ Len(m.body) \in Indices
      /\ m.type \in {"call", "response"} /\ m.terminator \in Terminators
  BY LadenParts
<1>2. TypeByte(m) \in {1, 2}
  BY <1>1 DEF TypeByte
<1>3. FlagsOf(m) \in 0 .. 255
  <2>1. \A v \in Indices : SmallestSize(v) \in {1, 2, 4, 8}
    BY IntegerBack
  <2>2. /\ SmallestSize(m.key[1]) \in {1, 2, 4, 8} /\ SmallestSize(m.key[2]) \in {1, 2, 4, 8}
        /\ SmallestSize(Len(m.body)) \in {1, 2, 4, 8}
    BY <1>1, <2>1
  <2>3. PICK p, c, l : p = m.key[1] /\ c = m.key[2] /\ l = Len(m.body)
    OBVIOUS
  <2>4. /\ SmallestSize(p) \in {1, 2, 4, 8} /\ SmallestSize(c) \in {1, 2, 4, 8}
        /\ SmallestSize(l) \in {1, 2, 4, 8}
    BY <2>2, <2>3
  <2>5. Multiflag(p, c, l, m.terminator) \in 0 .. 255
    BY <1>1, <2>4, MultiflagBack
  <2> QED BY <2>3, <2>5 DEF FlagsOf
<1> QED BY <1>2, <1>3 DEF Byte

LEMMA Fields ==
    ASSUME NEW m \in Laden
    PROVE  /\ \A k \in 1 .. 6 : Field(m, k) \in Seq(Byte)
           /\ Before(m, 1) = 0 /\ \A k \in 1 .. 6 : Before(m, k) \in Nat
           /\ \A k \in 1 .. 5 : /\ Before(m, k + 1) = Before(m, k) + Length(Field(m, k))
                                /\ Length(Field(m, k)) \in Nat \ {0}
                                /\ Header(m)[k] \in Nat
                                /\ FromLeBytes(Field(m, k)) = Header(m)[k]
<1>1. /\ m.key[1] \in Indices /\ m.key[2] \in Indices /\ Len(m.body) \in Indices
      /\ m.body \in Seq(Byte) /\ m.type \in {"call", "response"} /\ m.terminator \in Terminators
  BY LadenParts
<1> DEFINE a == Integer(m.key[1])
           b == Integer(m.key[2])
           c == Integer(Len(m.body))
<1>2. /\ a \in Seq(Byte) /\ Length(a) \in Nat \ {0} /\ FromLeBytes(a) = m.key[1]
      /\ b \in Seq(Byte) /\ Length(b) \in Nat \ {0} /\ FromLeBytes(b) = m.key[2]
      /\ c \in Seq(Byte) /\ Length(c) \in Nat \ {0} /\ FromLeBytes(c) = Len(m.body)
  <2>1. \A v \in Indices : Integer(v) \in Seq(Byte) /\ Length(Integer(v)) \in Nat \ {0}
                           /\ FromLeBytes(Integer(v)) = v
    BY IntegerBack DEF Length
  <2> QED BY <1>1, <2>1
<1>3. TypeByte(m) \in Byte /\ FlagsOf(m) \in Byte
  BY Leading
<1>4. /\ Field(m, 1) = <<TypeByte(m)>> /\ Field(m, 2) = <<FlagsOf(m)>> /\ Field(m, 3) = a
      /\ Field(m, 4) = b /\ Field(m, 5) = c /\ Field(m, 6) = m.body
  BY DEF Field
<1>5. /\ Before(m, 1) = 0 /\ Before(m, 2) = 1 /\ Before(m, 3) = 2
      /\ Before(m, 4) = 2 + Length(a) /\ Before(m, 5) = 2 + Length(a) + Length(b)
      /\ Before(m, 6) = 2 + Length(a) + Length(b) + Length(c)
  BY DEF Before
<1>6. /\ Header(m)[1] = TypeByte(m) /\ Header(m)[2] = FlagsOf(m) /\ Header(m)[3] = m.key[1]
      /\ Header(m)[4] = m.key[2] /\ Header(m)[5] = Len(m.body)
  BY DEF Header
<1>7. \A v \in Byte : /\ <<v>> \in Seq(Byte) /\ Length(<<v>>) = 1 /\ FromLeBytes(<<v>>) = v
                      /\ v \in Nat
  BY DEF Byte, FromLeBytes, Length
<1>8. m.key[1] \in Nat /\ m.key[2] \in Nat /\ Len(m.body) \in Nat
  BY <1>1 DEF Indices
<1> HIDE DEF a, b, c
<1>9. ASSUME NEW k \in 1 .. 6 PROVE Field(m, k) \in Seq(Byte)
  <2>1. k = 1 \/ k = 2 \/ k = 3 \/ k = 4 \/ k = 5 \/ k = 6
    OBVIOUS
  <2> QED BY <1>1, <1>2, <1>3, <1>4, <1>7, <2>1, Zenon
<1>10. \A k \in 1 .. 6 : Before(m, k) \in Nat
  <2> TAKE k \in 1 .. 6
  <2>1. k = 1 \/ k = 2 \/ k = 3 \/ k = 4 \/ k = 5 \/ k = 6
    OBVIOUS
  <2> QED BY SMTT(30), <1>2, <1>5, <2>1
<1>11. /\ Length(Field(m, 1)) = 1 /\ FromLeBytes(Field(m, 1)) = TypeByte(m) /\ TypeByte(m) \in Nat
       /\ Length(Field(m, 2)) = 1 /\ FromLeBytes(Field(m, 2)) = FlagsOf(m) /\ FlagsOf(m) \in Nat
  BY <1>3, <1>4, <1>7
<1>13. Field(m, 3) = a /\ Field(m, 4) = b /\ Field(m, 5) = c
  BY <1>4
<1>12. ASSUME NEW k \in 1 .. 5
       PROVE  /\ Before(m, k + 1) = Before(m, k) + Length(Field(m, k))
              /\ Length(Field(m, k)) \in Nat \ {0}
              /\ Header(m)[k] \in Nat
              /\ FromLeBytes(Field(m, k)) = Header(m)[k]
  <2>0. Length(a) \in Nat /\ Length(b) \in Nat /\ Length(c) \in Nat
    BY <1>2
  <2>1. /\ Before(m, 2) = Before(m, 1) + Length(Field(m, 1))
        /\ Before(m, 3) = Before(m, 2) + Length(Field(m, 2))
        /\ Before(m, 4) = Before(m, 3) + Length(Field(m, 3))
        /\ Before(m, 5) = Before(m, 4) + Length(Field(m, 4))
        /\ Before(m, 6) = Before(m, 5) + Length(Field(m, 5))
    BY <1>13, <1>5, <1>11, <2>0
  <2>2. Before(m, k + 1) = Before(m, k) + Length(Field(m, k))
    BY <2>1
  <2>3. k = 1 \/ k = 2 \/ k = 3 \/ k = 4 \/ k = 5
    OBVIOUS
  <2>4. Length(Field(m, k)) \in Nat \ {0}
    BY <1>2, <1>13, <1>11, <2>3
  <2>5. Header(m)[k] \in Nat
    BY <1>6, <1>8, <1>11, <2>3
  <2>6. FromLeBytes(Field(m, k)) = Header(m)[k]
    BY <1>2, <1>4, <1>6, <1>11, <2>3
  <2> QED BY <2>2, <2>4, <2>5, <2>6
<1> QED BY <1>5, <1>9, <1>10, <1>12

LEMMA Layout ==
    ASSUME NEW m \in Laden
    PROVE  /\ ToBytes(m) \in Seq(Byte)
           /\ Length(ToBytes(m)) = Before(m, 6) + Length(m.body)
           /\ \A k \in 1 .. 6 : \A j \in 1 .. Length(Field(m, k)) :
                ToBytes(m)[Before(m, k) + j] = Field(m, k)[j]
<1> DEFINE z == <<TypeByte(m), FlagsOf(m)>>
           a == Integer(m.key[1])
           b == Integer(m.key[2])
           c == Integer(Len(m.body))
           d == m.body
           s == ToBytes(m)
<1>1. s = Join(Join(Join(Join(z, a), b), c), d)
  <2>1. m.type \notin {"termination", "end_of_input"}
    BY LadenParts
  <2> QED BY <2>1 DEF ToBytes, Integer, FlagsOf, Join
<1>2. /\ Field(m, 1) = <<TypeByte(m)>> /\ Field(m, 2) = <<FlagsOf(m)>> /\ Field(m, 3) = a
      /\ Field(m, 4) = b /\ Field(m, 5) = c /\ Field(m, 6) = d
  BY DEF Field
<1>3. /\ Before(m, 1) = 0 /\ Before(m, 2) = 1 /\ Before(m, 3) = 2
      /\ Before(m, 4) = 2 + Length(a) /\ Before(m, 5) = 2 + Length(a) + Length(b)
      /\ Before(m, 6) = 2 + Length(a) + Length(b) + Length(c)
  BY DEF Before
<1>4. TypeByte(m) \in Byte /\ FlagsOf(m) \in Byte
  BY Leading
<1>5. /\ z \in Seq(Byte) /\ Length(z) = 2 /\ z[1] = TypeByte(m) /\ z[2] = FlagsOf(m)
  BY <1>4 DEF Length
<1>6. a \in Seq(Byte) /\ b \in Seq(Byte) /\ c \in Seq(Byte) /\ d \in Seq(Byte)
  <2>1. \A k \in 1 .. 6 : Field(m, k) \in Seq(Byte)
    BY Fields
  <2> QED BY <1>2, <2>1
<1> HIDE DEF z, a, b, c, d, s
<1>7. z \in Seq(Byte)
  BY <1>5
<1>8. s \in Seq(Byte) /\ Length(s) = Length(z) + Length(a) + Length(b) + Length(c) + Length(d)
  BY <1>1, <1>6, <1>7, FiveJoined
<1>9. Length(a) \in Nat /\ Length(b) \in Nat /\ Length(c) \in Nat /\ Length(d) \in Nat
  BY <1>6 DEF Length
<1>10. ASSUME NEW k \in 1 .. 6, NEW j \in 1 .. Length(Field(m, k))
       PROVE  s[Before(m, k) + j] = Field(m, k)[j]
  <2>1. \A i \in 1 .. Length(z) : s[i] = z[i]
    BY <1>1, <1>6, <1>7, FiveJoined
  <2>2. CASE k = 1
    <3>1. Length(Field(m, 1)) = 1 /\ Field(m, 1)[1] = TypeByte(m)
      BY <1>2 DEF Length
    <3>2. j = 1
      BY <2>2, <3>1
    <3> QED BY <1>3, <1>5, <2>1, <2>2, <3>1, <3>2
  <2>3. CASE k = 2
    <3>1. Length(Field(m, 2)) = 1 /\ Field(m, 2)[1] = FlagsOf(m)
      BY <1>2 DEF Length
    <3>2. j = 1
      BY <2>3, <3>1
    <3> QED BY <1>3, <1>5, <2>1, <2>3, <3>1, <3>2
  <2>4. CASE k = 3
    <3>1. \A i \in 1 .. Length(a) : s[Length(z) + i] = a[i]
      BY <1>1, <1>6, <1>7, FiveJoined
    <3>2. Field(m, k) = a /\ Before(m, k) = Length(z)
      BY <1>2, <1>3, <1>5, <2>4
    <3> QED BY <3>1, <3>2
  <2>5. CASE k = 4
    <3>1. \A i \in 1 .. Length(b) : s[Length(z) + Length(a) + i] = b[i]
      BY <1>1, <1>6, <1>7, FiveJoined
    <3>2. Field(m, k) = b /\ Before(m, k) = Length(z) + Length(a)
      BY <1>2, <1>3, <1>5, <2>5
    <3> QED BY <3>1, <3>2
  <2>6. CASE k = 5
    <3>1. \A i \in 1 .. Length(c) : s[Length(z) + Length(a) + Length(b) + i] = c[i]
      BY <1>1, <1>6, <1>7, FiveJoined
    <3>2. Field(m, k) = c /\ Before(m, k) = Length(z) + Length(a) + Length(b)
      BY <1>2, <1>3, <1>5, <2>6
    <3> QED BY <3>1, <3>2
  <2>7. CASE k = 6
    <3>1. \A i \in 1 .. Length(d) : s[Length(z) + Length(a) + Length(b) + Length(c) + i] = d[i]
      BY <1>1, <1>6, <1>7, FiveJoined
    <3>2. Field(m, k) = d /\ Before(m, k) = Length(z) + Length(a) + Length(b) + Length(c)
      BY <1>2, <1>3, <1>5, <2>7
    <3> QED BY <3>1, <3>2
  <2> QED BY <2>2, <2>3, <2>4, <2>5, <2>6, <2>7
<1>11. Length(s) = Before(m, 6) + Length(d)
  BY <1>3, <1>5, <1>8, <1>9
<1> QED BY <1>8, <1>10, <1>11 DEF s, d

LEMMA SignalBytes ==
    ASSUME NEW m \in Signals
    PROVE  /\ m = [type |-> m.type] /\ m.type \in {"end_of_input", "termination"}
           /\ ToBytes(m) = <<TypeByte(m)>>
           /\ TypeByte(m) = IF m.type = "termination" THEN 0 ELSE 3
<1>1. m = [type |-> m.type] /\ m.type \in {"end_of_input", "termination"}
  BY DEF Signals
<1>2. TypeByte(m) = IF m.type = "termination" THEN 0 ELSE 3
  BY <1>1 DEF TypeByte
<1>3. ToBytes(m) = <<TypeByte(m)>>
  BY <1>1 DEF ToBytes
<1> QED BY <1>1, <1>2, <1>3

LEMMA LadenType ==
    ASSUME NEW m \in Laden
    PROVE  TypeByte(m) = IF m.type = "call" THEN 1 ELSE 2
BY LadenParts DEF TypeByte

LEMMA MessageBytes ==
    ASSUME NEW m \in Messages
    PROVE  /\ ToBytes(m) \in Seq(Byte) /\ Length(ToBytes(m)) \in Nat \ {0}
           /\ ToBytes(m)[1] = TypeByte(m) /\ TypeByte(m) \in Byte
           /\ m \in Signals => Length(ToBytes(m)) = 1
<1>1. CASE m \in Laden
  <2>1. /\ Before(m, 1) = 0 /\ Before(m, 6) = Before(m, 5) + Length(Field(m, 5))
        /\ Before(m, 5) \in Nat /\ Length(Field(m, 5)) \in Nat \ {0}
        /\ Length(Field(m, 1)) \in Nat \ {0}
    BY <1>1, Fields
  <2>2. Length(m.body) \in Nat
    BY <1>1, LadenParts DEF Length
  <2>3. ToBytes(m) \in Seq(Byte) /\ Length(ToBytes(m)) = Before(m, 6) + Length(m.body)
    BY <1>1, Layout
  <2>4. ToBytes(m)[Before(m, 1) + 1] = Field(m, 1)[1]
    <3>1. \A k \in 1 .. 6 : \A j \in 1 .. Length(Field(m, k)) :
            ToBytes(m)[Before(m, k) + j] = Field(m, k)[j]
      BY <1>1, Layout
    <3>2. 1 \in 1 .. 6 /\ 1 \in 1 .. Length(Field(m, 1))
      BY <2>1
    <3> QED BY <3>1, <3>2
  <2>5. Before(m, 1) + 1 = 1 /\ Field(m, 1)[1] = TypeByte(m)
    BY <2>1 DEF Field
  <2>6. ToBytes(m)[1] = TypeByte(m)
    BY <2>4, <2>5
  <2>7. TypeByte(m) \in Byte
    BY <1>1, Leading
  <2>8. Length(ToBytes(m)) \in Nat \ {0}
    BY <2>1, <2>2, <2>3
  <2>9. m \notin Signals
    <3>1. m.type \in {"call", "response"}
      BY <1>1, LadenParts
    <3>2. m \in Signals => m.type \in {"end_of_input", "termination"}
      BY SignalBytes
    <3> QED BY <3>1, <3>2
  <2> QED BY <2>3, <2>6, <2>7, <2>8, <2>9
<1>2. CASE m \in Signals
  <2>1. TypeByte(m) \in Byte
    BY <1>2, SignalBytes DEF Byte
  <2>2. ToBytes(m) = <<TypeByte(m)>>
    BY <1>2, SignalBytes
  <2>3. Length(<<TypeByte(m)>>) = 1
    BY DEF Length
  <2>4. <<TypeByte(m)>> \in Seq(Byte) /\ <<TypeByte(m)>>[1] = TypeByte(m)
    BY <2>1
  <2> QED BY <2>1, <2>2, <2>3, <2>4
<1> QED BY <1>1, <1>2 DEF Messages

-----------------------------------------------------------------------------
(* The types.                                                              *)
Keyed == {c \in Calls : caller[c].key # None}
Stops == {"no", "IdxTooBig", "terminated", "UnexpectedEof", "Decode"}

Types ==
    /\ remote_call_counter \in [Procedures -> Nat]
    /\ \A p \in Procedures : remote_call_counter[p] <= LastIndex[p] + Cardinality(Keyed)
    /\ caller \in [Calls -> [key : (Procedures \X Indices) \cup {None}, pieces : Nat]]
    /\ \A c \in Calls : caller[c].pieces <= Len(Pieces(c))
    /\ scripted \in Nat
    /\ sent \in Seq(Messages) /\ received \in Seq(Messages) /\ Len(received) <= Len(sent)
    /\ queue \in Seq(Seq(Byte)) /\ writing \in Seq(Byte) /\ stream \in Seq(Byte)
    /\ closed \in BOOLEAN
    /\ reader \in [fields : Seq(Nat), stopped : Stops]
    /\ Length(reader.fields) <= 5
    /\ reader.stopped # "no" => reader.fields = <<>>
    /\ terminated \in BOOLEAN
    /\ terminated <=> reader.stopped \in {"terminated", "UnexpectedEof"}
    /\ \A b \in buffers : b.key[1] \in Procedures

(* The bytes on their way, and where each message ends among all the bytes *)
(* there have been.                                                        *)
Bytes == Join(stream, writing)

Laid(ends) ==
    /\ ends \in [0 .. Len(sent) -> Nat]
    /\ \A i \in 1 .. Len(sent) : ends[i] = ends[i - 1] + Length(ToBytes(sent[i]))
    /\ \A i, j \in 0 .. Len(sent) : i <= j => ends[i] <= ends[j]

(* After the first off of them come those of the messages up to the last   *)
(* that has been popped ...                                                *)
Written(ends, last, off) ==
    /\ last \in Len(received) .. Len(sent)
    /\ off \in Nat
    /\ off + Length(Bytes) <= ends[last]
    /\ \A i \in Len(received) + 1 .. last : \A j \in 1 .. Length(ToBytes(sent[i])) :
         \A p \in 1 .. Length(Bytes) : off + p = ends[i - 1] + j => Bytes[p] = ToBytes(sent[i])[j]

(* ... and the queue holds the others ...                                  *)
Queued(ends, last, off) ==
    ~closed => /\ off + Length(Bytes) = ends[last]
               /\ Len(queue) = Len(sent) - last
               /\ \A i \in 1 .. Len(queue) : queue[i] = ToBytes(sent[last + i])

(* ... and the reader has come as far as the fields it has say.            *)
Upcoming == sent[Len(received) + 1]
ReadSoFar(ends, last, off) ==
    /\ off = ends[Len(received)] + Before(Upcoming, Length(reader.fields) + 1)
    /\ Length(reader.fields) > 0 =>
         /\ Len(received) < last
         /\ Upcoming \in Laden
         /\ \A i \in 1 .. Length(reader.fields) : reader.fields[i] = Header(Upcoming)[i]

Transit ==
    reader.stopped = "no" =>
      \E ends, last, off :
        Laid(ends) /\ Written(ends, last, off) /\ Queued(ends, last, off) /\ ReadSoFar(ends, last, off)

(* An index that was too big is one that was sent.                         *)
TooBig ==
    reader.stopped = "IdxTooBig" =>
      /\ Len(received) < Len(sent)
      /\ \E i \in {1, 2} : ~Fits(Upcoming.key[i], IntSize)

Inv == Types /\ Transit /\ TooBig

-----------------------------------------------------------------------------
(* Reading.                                                                *)
LEMMA ReadsMeans ==
    ASSUME NEW n, Reads(n)
    PROVE  /\ reader.stopped = "no" /\ Length(reader.fields) = n
           /\ Wanted <= Length(stream)
           /\ stream' = SubSeq(stream, Wanted + 1, Length(stream))
BY DEF Reads, Length

LEMMA WantedMeans ==
    /\ Length(reader.fields) \in {0, 1} => Wanted = 1
    /\ Length(reader.fields) = 2 => Wanted = SizeFromFlag(Flag(1))
    /\ Length(reader.fields) = 3 => Wanted = SizeFromFlag(Flag(3))
    /\ Length(reader.fields) = 4 => Wanted = SizeFromFlag(Flag(5))
    /\ Length(reader.fields) = 5 => Wanted = reader.fields[5]
<1> DEFINE k == Len(reader.fields)
<1>1. Wanted = CASE k \in {0, 1} -> 1
                 [] k = 2 -> SizeFromFlag(Flag(1))
                 [] k = 3 -> SizeFromFlag(Flag(3))
                 [] k = 4 -> SizeFromFlag(Flag(5))
                 [] k = 5 -> reader.fields[5]
  BY DEF Wanted
<1> HIDE DEF k
<1>2. /\ k \in {0, 1} => Wanted = 1
      /\ k = 2 => Wanted = SizeFromFlag(Flag(1))
      /\ k = 3 => Wanted = SizeFromFlag(Flag(3))
      /\ k = 4 => Wanted = SizeFromFlag(Flag(5))
      /\ k = 5 => Wanted = reader.fields[5]
  BY <1>1
<1>3. k = Length(reader.fields)
  BY DEF k, Length
<1> QED BY <1>2, <1>3

(* A field is as long as the fields before it say.                         *)
LEMMA WantedSize ==
    ASSUME NEW m \in Laden, NEW k \in 1 .. 5, Length(reader.fields) = k,
           \A i \in 1 .. k : reader.fields[i] = Header(m)[i]
    PROVE  /\ Wanted = Length(Field(m, k + 1))
           /\ k >= 2 => TerminatorFromFlag(Flag(7)) = m.terminator
<1>1. /\ m.key[1] \in Indices /\ m.key[2] \in Indices /\ Len(m.body) \in Indices
      /\ m.terminator \in Terminators
  BY LadenParts
<1> DEFINE bits == ByteToBits(FlagsOf(m))
<1>2. /\ SizeFromFlag(<<bits[1], bits[2]>>) = SmallestSize(m.key[1])
      /\ SizeFromFlag(<<bits[3], bits[4]>>) = SmallestSize(m.key[2])
      /\ SizeFromFlag(<<bits[5], bits[6]>>) = SmallestSize(Len(m.body))
      /\ TerminatorFromFlag(<<bits[7], bits[8]>>) = m.terminator
  <2>1. \A v \in Indices : SmallestSize(v) \in {1, 2, 4, 8}
    BY IntegerBack
  <2>2. PICK p, c, l : p = m.key[1] /\ c = m.key[2] /\ l = Len(m.body)
    OBVIOUS
  <2>3. /\ SmallestSize(p) \in {1, 2, 4, 8} /\ SmallestSize(c) \in {1, 2, 4, 8}
        /\ SmallestSize(l) \in {1, 2, 4, 8}
    BY <1>1, <2>1, <2>2
  <2> DEFINE b == ByteToBits(Multiflag(p, c, l, m.terminator))
  <2>4. /\ SizeFromFlag(<<b[1], b[2]>>) = SmallestSize(p)
        /\ SizeFromFlag(<<b[3], b[4]>>) = SmallestSize(c)
        /\ SizeFromFlag(<<b[5], b[6]>>) = SmallestSize(l)
        /\ TerminatorFromFlag(<<b[7], b[8]>>) = m.terminator
    BY <1>1, <2>3, MultiflagBack
  <2>5. b = bits
    BY <2>2 DEF FlagsOf
  <2> QED BY <2>2, <2>4, <2>5
<1>3. /\ Length(Field(m, 2)) = 1 /\ Length(Field(m, 3)) = SmallestSize(m.key[1])
      /\ Length(Field(m, 4)) = SmallestSize(m.key[2])
      /\ Length(Field(m, 5)) = SmallestSize(Len(m.body))
      /\ Length(Field(m, 6)) = Len(m.body)
  <2>1. \A v \in Indices : Length(Integer(v)) = SmallestSize(v)
    BY IntegerBack DEF Length
  <2>2. Length(<<FlagsOf(m)>>) = 1 /\ Length(m.body) = Len(m.body)
    BY DEF Length
  <2>3. /\ Field(m, 2) = <<FlagsOf(m)>> /\ Field(m, 3) = Integer(m.key[1])
        /\ Field(m, 4) = Integer(m.key[2]) /\ Field(m, 5) = Integer(Len(m.body))
        /\ Field(m, 6) = m.body
    BY DEF Field
  <2> QED BY <1>1, <2>1, <2>2, <2>3
<1>4. k >= 2 => reader.fields[2] = FlagsOf(m)
  BY DEF Header
<1>5. k = 5 => reader.fields[5] = Len(m.body)
  BY DEF Header
<1> HIDE DEF bits
<1>6. k >= 2 => /\ Flag(1) = <<bits[1], bits[2]>> /\ Flag(3) = <<bits[3], bits[4]>>
                /\ Flag(5) = <<bits[5], bits[6]>> /\ Flag(7) = <<bits[7], bits[8]>>
  BY <1>4 DEF Flag, bits
<1>7. k = 1 \/ k = 2 \/ k = 3 \/ k = 4 \/ k = 5
  OBVIOUS
<1>8. Wanted = Length(Field(m, k + 1))
  <2>1. CASE k = 1
    BY <1>3, <2>1, WantedMeans
  <2>2. CASE k = 2
    BY <1>2, <1>3, <1>6, <2>2, WantedMeans
  <2>3. CASE k = 3
    BY <1>2, <1>3, <1>6, <2>3, WantedMeans
  <2>4. CASE k = 4
    BY <1>2, <1>3, <1>6, <2>4, WantedMeans
  <2>5. CASE k = 5
    BY <1>3, <1>5, <2>5, WantedMeans
  <2> QED BY <1>7, <2>1, <2>2, <2>3, <2>4, <2>5
<1> QED BY <1>2, <1>6, <1>8

LEMMA CutOff ==
    ASSUME NEW S, NEW s \in Seq(S), NEW w \in 0 .. Length(s)
    PROVE  LET u == SubSeq(s, w + 1, Length(s)) IN
           u \in Seq(S) /\ Length(u) = Length(s) - w /\ \A i \in 1 .. Length(u) : u[i] = s[w + i]
<1> DEFINE u == SubSeq(s, w + 1, Length(s))
<1>1. Length(s) \in Nat
  BY DEF Length
<1>2. \A i \in w + 1 .. Length(s) : s[i] \in S
  BY <1>1, ElementOfSeq DEF Length
<1>3. /\ u \in Seq(S) /\ Len(u) = IF w + 1 <= Length(s) THEN Length(s) - (w + 1) + 1 ELSE 0
      /\ \A i \in 1 .. Length(s) - (w + 1) + 1 : u[i] = s[(w + 1) + i - 1]
  BY <1>1, <1>2, SubSeqProperties
<1> HIDE DEF u
<1>4. Length(u) = Length(s) - w
  BY <1>1, <1>3 DEF Length
<1>5. \A i \in 1 .. Length(u) : u[i] = s[w + i]
  <2> TAKE i \in 1 .. Length(u)
  <2>1. i \in 1 .. Length(s) - (w + 1) + 1 /\ (w + 1) + i - 1 = w + i
    BY <1>1, <1>4
  <2> QED BY <1>3, <2>1
<1> QED BY <1>3, <1>4, <1>5 DEF u

LEMMA Kept ==
    ASSUME NEW S, NEW s \in Seq(S), NEW w \in 0 .. Length(s)
    PROVE  LET v == SubSeq(s, 1, w) IN
           v \in Seq(S) /\ Length(v) = w /\ \A i \in 1 .. w : v[i] = s[i]
<1> DEFINE v == SubSeq(s, 1, w)
<1>1. Length(s) \in Nat
  BY DEF Length
<1>2. \A i \in 1 .. w : s[i] \in S
  BY <1>1, ElementOfSeq DEF Length
<1>3. /\ v \in Seq(S) /\ Len(v) = IF 1 <= w THEN w - 1 + 1 ELSE 0
      /\ \A i \in 1 .. w - 1 + 1 : v[i] = s[1 + i - 1]
  BY <1>1, <1>2, SubSeqProperties
<1> HIDE DEF v
<1>4. Length(v) = w
  BY <1>1, <1>3 DEF Length
<1>5. \A i \in 1 .. w : v[i] = s[i]
  <2> TAKE i \in 1 .. w
  <2>1. i \in 1 .. w - 1 + 1 /\ 1 + i - 1 = i
    OBVIOUS
  <2> QED BY <1>3, <2>1
<1> QED BY <1>3, <1>4, <1>5 DEF v

LEMMA Shifted ==
    ASSUME NEW S, NEW s \in Seq(S), NEW t \in Seq(S), NEW w \in 0 .. Length(s)
    PROVE  LET u == SubSeq(s, w + 1, Length(s)) IN
           /\ u \in Seq(S)
           /\ Length(Join(u, t)) = Length(Join(s, t)) - w
           /\ \A p \in 1 .. Length(Join(u, t)) : Join(u, t)[p] = Join(s, t)[w + p]
<1> DEFINE u == SubSeq(s, w + 1, Length(s))
<1>0. Length(s) \in Nat /\ Length(t) \in Nat /\ w \in Nat /\ w <= Length(s)
  BY DEF Length
<1>1. u \in Seq(S) /\ Length(u) = Length(s) - w
  BY CutOff
<1>2. \A i \in 1 .. Length(u) : u[i] = s[w + i]
  BY CutOff
<1> HIDE DEF u
<1>3. /\ Length(Join(u, t)) = Length(u) + Length(t) /\ Length(Join(s, t)) = Length(s) + Length(t)
  BY <1>1, Joined
<1>4. ASSUME NEW p \in 1 .. Length(Join(u, t)) PROVE Join(u, t)[p] = Join(s, t)[w + p]
  <2>1. CASE p <= Length(u)
    <3>1. p \in 1 .. Length(u) /\ w + p \in 1 .. Length(s)
      BY <1>0, <1>1, <2>1
    <3>2. Join(u, t)[p] = u[p]
      BY <1>1, <3>1, JoinedLeft
    <3>3. Join(s, t)[w + p] = s[w + p]
      BY <3>1, JoinedLeft
    <3> QED BY <1>2, <3>1, <3>2, <3>3
  <2>2. CASE p > Length(u)
    <3> DEFINE i == p - Length(u)
    <3>1. i \in 1 .. Length(t) /\ p = Length(u) + i /\ w + p = Length(s) + i
      BY <1>0, <1>1, <1>3, <2>2
    <3> HIDE DEF i
    <3>2. Join(u, t)[Length(u) + i] = t[i]
      BY <1>1, <3>1, JoinedRight
    <3>3. Join(s, t)[Length(s) + i] = t[i]
      BY <3>1, JoinedRight
    <3> QED BY <3>1, <3>2, <3>3
  <2> QED BY <1>0, <1>1, <2>1, <2>2
<1>5. Length(Join(u, t)) = Length(Join(s, t)) - w
  BY <1>0, <1>1, <1>3
<1> QED BY <1>1, <1>4, <1>5 DEF u

LEMMA Inside ==
    ASSUME NEW m \in Laden, NEW k \in 1 .. 6
    PROVE  /\ Before(m, k) \in Nat /\ Length(Field(m, k)) \in Nat
           /\ Before(m, k) + Length(Field(m, k)) <= Length(ToBytes(m))
<1>1. \A i \in 1 .. 6 : Before(m, i) \in Nat /\ Length(Field(m, i)) \in Nat
  <2> TAKE i \in 1 .. 6
  <2>1. Before(m, i) \in Nat /\ Field(m, i) \in Seq(Byte)
    BY Fields
  <2>2. Length(Field(m, i)) \in Nat
    BY <2>1 DEF Length
  <2> QED BY <2>1, <2>2
<1>2. \A i \in 1 .. 5 : Before(m, i + 1) = Before(m, i) + Length(Field(m, i))
  BY Fields
<1>3. /\ Before(m, 2) = Before(m, 1) + Length(Field(m, 1))
      /\ Before(m, 3) = Before(m, 2) + Length(Field(m, 2))
      /\ Before(m, 4) = Before(m, 3) + Length(Field(m, 3))
      /\ Before(m, 5) = Before(m, 4) + Length(Field(m, 4))
      /\ Before(m, 6) = Before(m, 5) + Length(Field(m, 5))
  BY <1>2
<1>4. Length(ToBytes(m)) = Before(m, 6) + Length(Field(m, 6))
  <2>1. Field(m, 6) = m.body
    BY DEF Field
  <2> QED BY <2>1, Layout
<1>5. k = 1 \/ k = 2 \/ k = 3 \/ k = 4 \/ k = 5 \/ k = 6
  OBVIOUS
<1> QED BY <1>1, <1>3, <1>4, <1>5

(* A message whose bytes are there has been popped.                        *)
LEMMA Popped ==
    ASSUME Inv, NEW n \in 0 .. 5, Reads(n), NEW ends, NEW last, NEW off,
           Laid(ends), Written(ends, last, off), ReadSoFar(ends, last, off)
    PROVE  Len(received) < last
<1>1. /\ stream \in Seq(Byte) /\ writing \in Seq(Byte) /\ sent \in Seq(Messages)
      /\ received \in Seq(Messages)
  BY DEF Inv, Types
<1>2. Length(reader.fields) = n /\ Wanted <= Length(stream)
  BY ReadsMeans
<1>3. /\ Length(Bytes) = Length(stream) + Length(writing)
      /\ Length(stream) \in Nat /\ Length(writing) \in Nat
  BY <1>1, Joined DEF Bytes
<1>4. /\ Len(received) \in Nat /\ Len(sent) \in Nat /\ last \in Len(received) .. Len(sent)
      /\ last \in Nat /\ off \in Nat
  BY <1>1 DEF Written
<1>5. /\ off = ends[Len(received)] + Before(Upcoming, n + 1)
      /\ n > 0 => Len(received) < last
  BY <1>2 DEF ReadSoFar
<1>6. ends[Len(received)] \in Nat
  BY <1>4 DEF Laid
<1>7. n = 0 => Wanted = 1 /\ Before(Upcoming, n + 1) = 0
  BY <1>2, WantedMeans DEF Before
<1>8. off + Length(Bytes) <= ends[last]
  BY DEF Written
<1> SUFFICES ASSUME n = 0, last = Len(received) PROVE FALSE
  BY <1>4, <1>5
<1>9. off = ends[Len(received)] /\ 1 <= Length(stream)
  BY <1>2, <1>5, <1>6, <1>7
<1> QED BY <1>3, <1>4, <1>6, <1>8, <1>9

(* What a read takes is the next field of the message whose turn it is.    *)
LEMMA Arrived ==
    ASSUME Inv, NEW n \in 0 .. 5, Reads(n)
    PROVE  /\ Len(received) < Len(sent) /\ Upcoming \in Messages
           /\ n > 0 => Upcoming \in Laden
           /\ n = 0 => Wanted = 1 /\ FromLeBytes(Taken) = TypeByte(Upcoming)
           /\ n \in 1 .. 4 => FromLeBytes(Taken) = Header(Upcoming)[n + 1]
           /\ n = 5 => Taken = Upcoming.body
           /\ Upcoming \in Laden => Wanted = Length(Field(Upcoming, n + 1))
           /\ Wanted \in 0 .. Length(stream)
           /\ \A i \in 1 .. n : reader.fields[i] = Header(Upcoming)[i]
           /\ n >= 2 => TerminatorFromFlag(Flag(7)) = Upcoming.terminator
<1> DEFINE r == Len(received)
           m == Upcoming
<1>0. Types /\ Transit
  BY DEF Inv
<1>1. /\ reader.stopped = "no" /\ Length(reader.fields) = n /\ Wanted <= Length(stream)
  BY ReadsMeans
<1>2. PICK ends, last, off :
        Laid(ends) /\ Written(ends, last, off) /\ Queued(ends, last, off) /\ ReadSoFar(ends, last, off)
  BY <1>0, <1>1 DEF Transit
<1>3. /\ stream \in Seq(Byte) /\ writing \in Seq(Byte) /\ sent \in Seq(Messages)
      /\ received \in Seq(Messages) /\ reader.fields \in Seq(Nat)
  BY <1>0 DEF Types
<1>4. /\ Length(Bytes) = Length(stream) + Length(writing)
      /\ Length(stream) \in Nat /\ Length(writing) \in Nat
      /\ \A p \in 1 .. Length(stream) : Bytes[p] = stream[p]
  BY <1>3, Joined, JoinedLeft DEF Bytes
<1>5. r \in Nat /\ Len(sent) \in Nat /\ last \in r .. Len(sent) /\ last \in Nat /\ off \in Nat
  BY <1>2, <1>3 DEF Written
<1>6. /\ off = ends[r] + Before(m, n + 1)
      /\ n > 0 => r < last /\ m \in Laden /\ \A i \in 1 .. n : reader.fields[i] = Header(m)[i]
  BY <1>1, <1>2 DEF ReadSoFar
<1>7. ends[r] \in Nat
  BY <1>2, <1>5 DEF Laid
<1>8. n = 0 => Wanted = 1 /\ Before(m, n + 1) = 0
  BY <1>1, WantedMeans DEF Before
<1>9. r < last
  BY <1>2, Popped
<1>10. m \in Messages
  BY <1>3, <1>5, <1>9, ElementOfSeq DEF Upcoming
<1>11. m \in Laden => Wanted = Length(Field(m, n + 1))
  <2>1. CASE n = 0
    <3>1. Field(m, n + 1) = <<TypeByte(m)>>
      BY <2>1 DEF Field
    <3>2. Length(<<TypeByte(m)>>) = 1
      BY DEF Length
    <3> QED BY <1>8, <2>1, <3>1, <3>2
  <2>2. CASE n > 0
    <3>1. n \in 1 .. 5
      BY <2>2
    <3> QED BY <1>1, <1>6, <2>2, <3>1, WantedSize
  <2> QED BY <2>1, <2>2
<1>12. Wanted \in 0 .. Length(stream)
  <2>1. CASE n = 0
    BY <1>1, <1>4, <1>8, <2>1
  <2>2. CASE n > 0
    <3>0. n + 1 \in 1 .. 6
      OBVIOUS
    <3>1. Field(m, n + 1) \in Seq(Byte)
      BY <1>6, <2>2, <3>0, Fields
    <3>2. Length(Field(m, n + 1)) \in Nat
      BY <3>1 DEF Length
    <3> QED BY <1>1, <1>4, <1>6, <1>11, <2>2, <3>2
  <2> QED BY <2>1, <2>2
<1>13. n >= 2 => TerminatorFromFlag(Flag(7)) = m.terminator
  <2>1. SUFFICES ASSUME n >= 2 PROVE TerminatorFromFlag(Flag(7)) = m.terminator
    OBVIOUS
  <2>2. n \in 1 .. 5 /\ n > 0
    BY <2>1
  <2> QED BY <1>1, <1>6, <2>1, <2>2, WantedSize
<1> HIDE DEF m, r
(* The bytes taken, one by one.                                            *)
<1>14. Taken \in Seq(Byte) /\ Length(Taken) = Wanted /\ \A j \in 1 .. Wanted : Taken[j] = stream[j]
  <2>1. Taken = SubSeq(stream, 1, Wanted)
    BY DEF Taken
  <2> QED BY <1>3, <1>12, <2>1, Kept
<1>15. ASSUME NEW j \in 1 .. Wanted, Before(m, n + 1) + j \in 1 .. Length(ToBytes(m))
       PROVE  Taken[j] = ToBytes(m)[Before(m, n + 1) + j]
  <2> DEFINE q == Before(m, n + 1) + j
  <2>1. j \in 1 .. Length(stream) /\ j \in 1 .. Length(Bytes)
    BY <1>4, <1>12
  <2>2. \A i \in r + 1 .. last : \A h \in 1 .. Length(ToBytes(sent[i])) :
          \A p \in 1 .. Length(Bytes) : off + p = ends[i - 1] + h => Bytes[p] = ToBytes(sent[i])[h]
    BY <1>2 DEF Written, r
  <2>3. r + 1 \in r + 1 .. last /\ (r + 1) - 1 = r /\ m = sent[r + 1]
    BY <1>5, <1>9 DEF m, r, Upcoming
  <2>4. off + j = ends[r] + q
    <3>1. Before(m, n + 1) \in Nat
      <4>1. CASE n = 0
        BY <1>8, <4>1
      <4>2. CASE n > 0
        <5>1. n + 1 \in 1 .. 6
          OBVIOUS
        <5> QED BY <1>6, <4>2, <5>1, Fields
      <4> QED BY <4>1, <4>2
    <3> QED BY <1>6, <1>7, <3>1
  <2> HIDE DEF q
  <2>5. q \in 1 .. Length(ToBytes(m))
    BY <1>15 DEF q
  <2>6. \A h \in 1 .. Length(ToBytes(m)) :
          \A p \in 1 .. Length(Bytes) : off + p = ends[r] + h => Bytes[p] = ToBytes(m)[h]
    BY <2>2, <2>3
  <2>7. Bytes[j] = ToBytes(m)[q]
    BY <2>1, <2>4, <2>5, <2>6
  <2> QED BY <1>4, <1>14, <2>1, <2>7 DEF q
<1>16. m \in Laden => Taken = Field(m, n + 1)
  <2> SUFFICES ASSUME m \in Laden PROVE Taken = Field(m, n + 1)
    OBVIOUS
  <2>1. n + 1 \in 1 .. 6
    OBVIOUS
  <2>2. /\ ToBytes(m) \in Seq(Byte)
        /\ Length(ToBytes(m)) = Before(m, 6) + Length(m.body)
        /\ \A k \in 1 .. 6 : \A j \in 1 .. Length(Field(m, k)) :
             ToBytes(m)[Before(m, k) + j] = Field(m, k)[j]
    BY Layout
  <2>3. Field(m, n + 1) \in Seq(Byte) /\ Before(m, n + 1) \in Nat
    BY <2>1, Fields
  <2> DEFINE f == Field(m, n + 1)
  <2>4. Before(m, n + 1) + Length(f) <= Length(ToBytes(m)) /\ Length(f) \in Nat
    BY <2>1, Inside
  <2> HIDE DEF f
  <2>5. ASSUME NEW j \in 1 .. Length(f) PROVE Taken[j] = f[j]
    <3>1. Before(m, n + 1) + j \in 1 .. Length(ToBytes(m))
      <4>1. Length(ToBytes(m)) \in Nat
        BY <2>2 DEF Length
      <4> QED BY <2>3, <2>4, <4>1
    <3>2. j \in 1 .. Wanted
      BY <1>11 DEF f
    <3>3. Taken[j] = ToBytes(m)[Before(m, n + 1) + j]
      BY <1>15, <3>1, <3>2
    <3> QED BY <2>1, <2>2, <3>3 DEF f
  <2> QED BY <1>11, <1>14, <2>3, <2>5, SeqEqual DEF Length, f
<1>17. n = 0 => FromLeBytes(Taken) = TypeByte(m)
  <2> SUFFICES ASSUME n = 0 PROVE FromLeBytes(Taken) = TypeByte(m)
    OBVIOUS
  <2>1. Wanted = 1 /\ Before(m, n + 1) = 0
    BY <1>8 DEF m
  <2>2. Length(ToBytes(m)) \in Nat \ {0} /\ ToBytes(m)[1] = TypeByte(m)
    BY <1>10, MessageBytes DEF m
  <2>3. Before(m, n + 1) + 1 = 1 /\ 1 \in 1 .. Length(ToBytes(m)) /\ 1 \in 1 .. Wanted
    BY <2>1, <2>2
  <2>4. Taken[1] = TypeByte(m)
    BY <1>15, <2>2, <2>3
  <2>5. Len(Taken) = 1
    BY <1>14, <2>1 DEF Length
  <2> QED BY <2>4, <2>5 DEF FromLeBytes
<1>18. n \in 1 .. 4 => FromLeBytes(Taken) = Header(m)[n + 1]
  <2> SUFFICES ASSUME n \in 1 .. 4 PROVE FromLeBytes(Taken) = Header(m)[n + 1]
    OBVIOUS
  <2>1. m \in Laden /\ n + 1 \in 1 .. 5
    BY <1>6 DEF m
  <2>2. FromLeBytes(Field(m, n + 1)) = Header(m)[n + 1]
    BY <2>1, Fields
  <2> QED BY <1>16, <2>1, <2>2
<1>19. n = 5 => Taken = m.body
  <2> SUFFICES ASSUME n = 5 PROVE Taken = m.body
    OBVIOUS
  <2>1. m \in Laden /\ n + 1 = 6
    BY <1>6 DEF m
  <2>2. Field(m, 6) = m.body
    BY DEF Field
  <2> QED BY <1>16, <2>1, <2>2
<1>20. r < Len(sent)
  BY <1>5, <1>9 DEF r
<1> QED BY <1>6, <1>8, <1>10, <1>11, <1>12, <1>13, <1>17, <1>18, <1>19, <1>20 DEF m, r

-----------------------------------------------------------------------------
(* What a step leaves of the bytes on their way.                           *)
LEMMA PushKeeps ==
    ASSUME Inv, NEW message \in Messages, Push(message),
           UNCHANGED <<writing, stream, closed, receiver>>
    PROVE  /\ sent' \in Seq(Messages) /\ queue' \in Seq(Seq(Byte))
           /\ Len(sent') = Len(sent) + 1 /\ sent'[Len(sent) + 1] = message
           /\ \A i \in 1 .. Len(sent) : sent'[i] = sent[i]
           /\ Transit' /\ TooBig'
<1>1. /\ sent \in Seq(Messages) /\ received \in Seq(Messages) /\ queue \in Seq(Seq(Byte))
      /\ Transit /\ TooBig
  BY DEF Inv, Types
<1>2. sent' = Append(sent, message) /\ queue' = Append(queue, ToBytes(message))
  BY DEF Push
<1>3. ToBytes(message) \in Seq(Byte) /\ Length(ToBytes(message)) \in Nat
  BY MessageBytes
<1>4. /\ sent' \in Seq(Messages) /\ Len(sent') = Len(sent) + 1 /\ sent'[Len(sent) + 1] = message
      /\ \A i \in 1 .. Len(sent) : sent'[i] = sent[i]
  BY <1>1, <1>2, AppendProperties
<1>5. /\ queue' \in Seq(Seq(Byte)) /\ Len(queue') = Len(queue) + 1
      /\ queue'[Len(queue) + 1] = ToBytes(message)
      /\ \A i \in 1 .. Len(queue) : queue'[i] = queue[i]
  BY <1>1, <1>2, <1>3, AppendProperties
<1>6. /\ writing' = writing /\ stream' = stream /\ closed' = closed
      /\ reader' = reader /\ received' = received
  BY DEF receiver
<1>7. Bytes' = Bytes
  BY <1>6 DEF Bytes
<1>8. Len(sent) \in Nat /\ Len(received) \in Nat /\ Len(queue) \in Nat
  BY <1>1
<1>9. Len(received) < Len(sent) => Upcoming' = Upcoming
  <2> SUFFICES ASSUME Len(received) < Len(sent) PROVE Upcoming' = Upcoming
    OBVIOUS
  <2>1. Len(received) + 1 \in 1 .. Len(sent)
    BY <1>8
  <2> QED BY <1>4, <1>6, <2>1 DEF Upcoming
<1>10. TooBig'
  BY <1>1, <1>4, <1>6, <1>8, <1>9 DEF TooBig
<1>11. ASSUME reader.stopped = "no"
       PROVE  \E ends, last, off :
                Laid(ends)' /\ Written(ends, last, off)' /\ Queued(ends, last, off)'
                /\ ReadSoFar(ends, last, off)'
  <2>1. PICK ends, last, off :
          Laid(ends) /\ Written(ends, last, off) /\ Queued(ends, last, off) /\ ReadSoFar(ends, last, off)
    BY <1>1, <1>11 DEF Transit
  <2>0. PICK new : new = [i \in 0 .. Len(sent) + 1 |->
                            IF i <= Len(sent) THEN ends[i]
                            ELSE ends[Len(sent)] + Length(ToBytes(message))]
    OBVIOUS
  <2>2. /\ \A i \in 0 .. Len(sent) : ends[i] \in Nat
        /\ \A i \in 1 .. Len(sent) : ends[i] = ends[i - 1] + Length(ToBytes(sent[i]))
        /\ \A i, j \in 0 .. Len(sent) : i <= j => ends[i] <= ends[j]
    BY <2>1 DEF Laid
  <2>3. /\ \A i \in 0 .. Len(sent) : new[i] = ends[i]
        /\ new[Len(sent) + 1] = ends[Len(sent)] + Length(ToBytes(message))
        /\ new \in [0 .. Len(sent) + 1 -> Nat]
    BY <1>3, <1>8, <2>0, <2>2
  <2>4. last \in Len(received) .. Len(sent) /\ last \in Nat /\ off \in Nat
    BY <1>8, <2>1 DEF Written
  <2>5. Laid(new)'
    <3>1. ASSUME NEW i \in 1 .. Len(sent')
          PROVE  new[i] = new[i - 1] + Length(ToBytes(sent'[i]))
      <4>1. CASE i <= Len(sent)
        <5>1. i \in 1 .. Len(sent) /\ i \in 0 .. Len(sent) /\ i - 1 \in 0 .. Len(sent)
          BY <1>8, <4>1
        <5> QED BY <1>4, <2>2, <2>3, <5>1
      <4>2. CASE i = Len(sent) + 1
        <5>1. i - 1 = Len(sent) /\ Len(sent) \in 0 .. Len(sent)
          BY <1>8, <4>2
        <5> QED BY <1>4, <2>3, <4>2, <5>1
      <4> QED BY <1>4, <1>8, <4>1, <4>2
    <3>2. ASSUME NEW i \in 0 .. Len(sent'), NEW j \in 0 .. Len(sent'), i <= j
          PROVE  new[i] <= new[j]
      <4>1. CASE j <= Len(sent)
        <5>1. i \in 0 .. Len(sent) /\ j \in 0 .. Len(sent)
          BY <1>8, <3>2, <4>1
        <5> QED BY <2>2, <2>3, <3>2, <5>1
      <4>2. CASE j = Len(sent) + 1 /\ i <= Len(sent)
        <5>1. i \in 0 .. Len(sent) /\ Len(sent) \in 0 .. Len(sent)
          BY <1>8, <4>2
        <5>2. ends[i] <= ends[Len(sent)] /\ ends[i] \in Nat /\ ends[Len(sent)] \in Nat
          BY <2>2, <4>2, <5>1
        <5> QED BY <1>3, <2>3, <4>2, <5>1, <5>2
      <4>3. CASE j = Len(sent) + 1 /\ i = Len(sent) + 1
        <5>1. new[j] \in Nat
          BY <1>8, <2>3, <4>3
        <5> QED BY <4>3, <5>1
      <4> QED BY <1>4, <1>8, <3>2, <4>1, <4>2, <4>3
    <3> QED BY <1>4, <2>3, <3>1, <3>2 DEF Laid
  <2>6. Written(new, last, off)'
    <3>1. last \in Len(received') .. Len(sent')
      BY <1>4, <1>6, <1>8, <2>4
    <3>2. off + Length(Bytes') <= new[last]
      <4>1. last \in 0 .. Len(sent)
        BY <1>8, <2>4
      <4> QED BY <1>7, <2>1, <2>3, <4>1 DEF Written
    <3>3. ASSUME NEW i \in Len(received') + 1 .. last, NEW j \in 1 .. Length(ToBytes(sent'[i])),
                 NEW p \in 1 .. Length(Bytes'), off + p = new[i - 1] + j
          PROVE  Bytes'[p] = ToBytes(sent'[i])[j]
      <4>1. i \in 1 .. Len(sent) /\ i - 1 \in 0 .. Len(sent) /\ i \in Len(received) + 1 .. last
        BY <1>6, <1>8, <2>4
      <4>2. sent'[i] = sent[i] /\ new[i - 1] = ends[i - 1]
        BY <1>4, <2>3, <4>1
      <4> QED BY <1>7, <2>1, <3>3, <4>1, <4>2 DEF Written
    <3> QED BY <2>4, <3>1, <3>2, <3>3 DEF Written
  <2>7. Queued(new, last, off)'
    <3> SUFFICES ASSUME ~closed'
                 PROVE  /\ off + Length(Bytes') = new[last]
                        /\ Len(queue') = Len(sent') - last
                        /\ \A i \in 1 .. Len(queue') : queue'[i] = ToBytes(sent'[last + i])
      BY DEF Queued
    <3>1. /\ off + Length(Bytes) = ends[last]
          /\ Len(queue) = Len(sent) - last
          /\ \A i \in 1 .. Len(queue) : queue[i] = ToBytes(sent[last + i])
      BY <1>6, <2>1 DEF Queued
    <3>2. off + Length(Bytes') = new[last]
      <4>1. last \in 0 .. Len(sent)
        BY <1>8, <2>4
      <4> QED BY <1>7, <2>3, <3>1, <4>1
    <3>3. Len(queue') = Len(sent') - last
      BY <1>4, <1>5, <1>8, <2>4, <3>1
    <3>4. ASSUME NEW i \in 1 .. Len(queue') PROVE queue'[i] = ToBytes(sent'[last + i])
      <4>1. CASE i <= Len(queue)
        <5>1. i \in 1 .. Len(queue) /\ last + i \in 1 .. Len(sent)
          BY <1>8, <2>4, <3>1, <4>1
        <5> QED BY <1>4, <1>5, <3>1, <5>1
      <4>2. CASE i = Len(queue) + 1
        <5>1. last + i = Len(sent) + 1
          BY <1>8, <2>4, <3>1, <4>2
        <5> QED BY <1>4, <1>5, <4>2, <5>1
      <4> QED BY <1>5, <1>8, <4>1, <4>2
    <3> QED BY <3>2, <3>3, <3>4
  <2>8. ReadSoFar(new, last, off)'
    <3>1. Len(received) \in 0 .. Len(sent)
      BY <1>8, <2>4
    <3>2. /\ off = ends[Len(received)] + Before(Upcoming, Length(reader.fields) + 1)
          /\ Length(reader.fields) > 0 =>
               /\ Len(received) < last
               /\ Upcoming \in Laden
               /\ \A i \in 1 .. Length(reader.fields) : reader.fields[i] = Header(Upcoming)[i]
      BY <2>1 DEF ReadSoFar
    <3>3. CASE Length(reader.fields) > 0
      <4>1. Upcoming' = Upcoming
        BY <1>8, <1>9, <2>4, <3>2, <3>3
      <4> QED BY <1>6, <2>3, <3>1, <3>2, <4>1 DEF ReadSoFar
    <3>4. CASE ~(Length(reader.fields) > 0)
      <4>1. Length(reader.fields) + 1 = 1
        <5>1. Length(reader.fields) \in Nat
          BY DEF Inv, Types, Length
        <5> QED BY <3>4, <5>1
      <4>2. Before(Upcoming', 1) = 0 /\ Before(Upcoming, 1) = 0
        BY DEF Before
      <4>3. off = new[Len(received)] + Before(Upcoming', Length(reader.fields) + 1)
        BY <2>3, <3>1, <3>2, <4>1, <4>2
      <4> QED BY <1>6, <3>4, <4>3 DEF ReadSoFar
    <3> QED BY <3>3, <3>4
  <2> QED BY <2>5, <2>6, <2>7, <2>8
<1>12. Transit'
  BY <1>6, <1>11 DEF Transit
<1> QED BY <1>4, <1>5, <1>10, <1>12

LEMMA PopKeeps ==
    ASSUME Inv, Pop
    PROVE  writing' \in Seq(Byte) /\ queue' \in Seq(Seq(Byte)) /\ Transit' /\ TooBig'
<1>1. /\ queue \in Seq(Seq(Byte)) /\ stream \in Seq(Byte) /\ sent \in Seq(Messages)
      /\ received \in Seq(Messages) /\ writing \in Seq(Byte) /\ Transit /\ TooBig
  BY DEF Inv, Types
<1>2. /\ ~closed /\ writing = <<>> /\ queue # <<>> /\ writing' = Head(queue) /\ queue' = Tail(queue)
      /\ sent' = sent /\ stream' = stream /\ closed' = closed /\ reader' = reader
      /\ received' = received
  BY DEF Pop, sender, receiver
<1>3. /\ writing' \in Seq(Byte) /\ queue' \in Seq(Seq(Byte)) /\ Len(queue') = Len(queue) - 1
      /\ \A i \in 1 .. Len(queue') : queue'[i] = queue[i + 1]
      /\ writing' = queue[1]
  BY <1>1, <1>2, HeadTailProperties
<1>4. Len(queue) \in Nat /\ Len(queue) >= 1 /\ Len(sent) \in Nat /\ Len(received) \in Nat
  BY <1>1, <1>2, EmptySeq
<1>5. Upcoming' = Upcoming
  BY <1>2 DEF Upcoming
<1>6. TooBig'
  BY <1>1, <1>2, <1>5 DEF TooBig
<1>7. /\ Length(Bytes) = Length(stream) /\ Length(stream) \in Nat
      /\ \A p \in 1 .. Length(Bytes) : Bytes[p] = stream[p]
  <2>1. /\ Length(Bytes) = Length(stream) + Length(writing) /\ Length(stream) \in Nat
        /\ \A p \in 1 .. Length(stream) : Bytes[p] = stream[p]
    BY <1>1, Joined, JoinedLeft DEF Bytes
  <2>2. Length(writing) = 0
    BY <1>2 DEF Length
  <2> QED BY <2>1, <2>2
<1>8. /\ Length(Bytes') = Length(stream) + Length(writing') /\ Length(writing') \in Nat
      /\ \A p \in 1 .. Length(stream) : Bytes'[p] = stream[p]
      /\ \A q \in 1 .. Length(writing') : Bytes'[Length(stream) + q] = writing'[q]
  <2>1. Bytes' = Join(stream, writing')
    BY <1>2 DEF Bytes
  <2>2. Length(Bytes') = Length(stream) + Length(writing') /\ Length(writing') \in Nat
    BY <1>1, <1>3, <2>1, Joined
  <2>3. \A p \in 1 .. Length(stream) : Bytes'[p] = stream[p]
    BY <1>1, <1>3, <2>1, JoinedLeft
  <2>4. \A q \in 1 .. Length(writing') : Bytes'[Length(stream) + q] = writing'[q]
    BY <1>1, <1>3, <2>1, JoinedRight
  <2> QED BY <2>2, <2>3, <2>4
<1>9. ASSUME reader.stopped = "no"
      PROVE  \E ends, last, off :
               Laid(ends)' /\ Written(ends, last, off)' /\ Queued(ends, last, off)'
               /\ ReadSoFar(ends, last, off)'
  <2>1. PICK ends, last, off :
          Laid(ends) /\ Written(ends, last, off) /\ Queued(ends, last, off) /\ ReadSoFar(ends, last, off)
    BY <1>1, <1>9 DEF Transit
  <2>2. last \in Len(received) .. Len(sent) /\ last \in Nat /\ off \in Nat
    BY <1>4, <2>1 DEF Written
  <2>3. /\ off + Length(Bytes) = ends[last]
        /\ Len(queue) = Len(sent) - last
        /\ \A i \in 1 .. Len(queue) : queue[i] = ToBytes(sent[last + i])
    BY <1>2, <2>1 DEF Queued
  <2> DEFINE m == sent[last + 1]
  <2>4. last < Len(sent) /\ last + 1 \in 1 .. Len(sent) /\ last \in 0 .. Len(sent)
        /\ writing' = ToBytes(m)
    BY <1>3, <1>4, <2>2, <2>3
  <2>5. /\ ends[last] \in Nat /\ ends[last + 1] = ends[last] + Length(ToBytes(m))
        /\ \A i, j \in 0 .. Len(sent) : i <= j => ends[i] <= ends[j]
        /\ \A i \in 0 .. Len(sent) : ends[i] \in Nat
        /\ \A i \in 1 .. Len(sent) : ends[i] = ends[i - 1] + Length(ToBytes(sent[i]))
    BY SMTT(30), <2>1, <2>2, <2>4 DEF Laid
  <2>6. off + Length(Bytes') = ends[last + 1]
    BY <1>7, <1>8, <2>2, <2>3, <2>4, <2>5
  <2>7. Laid(ends)'
    BY <1>2, <2>1 DEF Laid
  <2>8. Written(ends, last + 1, off)'
    <3>1. last + 1 \in Len(received) .. Len(sent)
      BY <1>4, <2>2, <2>4
    <3>2. ASSUME NEW i \in Len(received) + 1 .. last + 1, NEW j \in 1 .. Length(ToBytes(sent[i])),
                 NEW p \in 1 .. Length(Bytes'), off + p = ends[i - 1] + j
          PROVE  Bytes'[p] = ToBytes(sent[i])[j]
      <4>1. CASE i <= last
        <5>1. i \in Len(received) + 1 .. last /\ i \in 1 .. Len(sent) /\ i \in 0 .. Len(sent)
              /\ i - 1 \in 0 .. Len(sent)
          BY <1>4, <2>2, <2>4, <4>1
        <5>2. Length(ToBytes(sent[i])) \in Nat
          BY <1>1, <5>1, ElementOfSeq, MessageBytes
        <5>3. ends[i] = ends[i - 1] + Length(ToBytes(sent[i])) /\ ends[i] <= ends[last]
              /\ ends[i - 1] \in Nat
          BY <2>4, <2>5, <4>1, <5>1
        <5>4. p <= Length(Bytes)
          <6>1. off + p = ends[i - 1] + j /\ j <= Length(ToBytes(sent[i])) /\ j \in Nat /\ p \in Nat
            BY <3>2, <5>2
          <6>2. off + Length(Bytes) = ends[last] /\ Length(Bytes) \in Nat /\ off \in Nat
            BY <1>7, <2>2, <2>3
          <6>3. ends[i] \in Nat /\ ends[last] \in Nat
            BY <2>4, <2>5, <5>1
          <6> QED BY <5>2, <5>3, <6>1, <6>2, <6>3
        <5>5. p \in 1 .. Length(Bytes) /\ p \in 1 .. Length(stream)
          BY <1>7, <5>4
        <5>6. Bytes[p] = ToBytes(sent[i])[j]
          BY <2>1, <3>2, <5>1, <5>5 DEF Written
        <5> QED BY <1>7, <1>8, <5>5, <5>6
      <4>2. CASE i = last + 1
        <5>1. i - 1 = last /\ sent[i] = m
          BY <2>2, <4>2
        <5>2. p = Length(stream) + j
          <6>1. off + p = ends[last] + j /\ j \in Nat /\ p \in Nat
            BY <3>2, <5>1
          <6>2. off + Length(Bytes) = ends[last] /\ Length(Bytes) = Length(stream)
                /\ Length(stream) \in Nat /\ off \in Nat
            BY <1>7, <2>2, <2>3
          <6> QED BY <6>1, <6>2
        <5>3. j \in 1 .. Length(writing')
          BY <2>4, <5>1
        <5> QED BY <1>8, <2>4, <5>1, <5>2, <5>3
      <4> QED BY <1>4, <2>2, <4>1, <4>2
    <3>3. off + Length(Bytes') <= ends[last + 1]
      BY <1>7, <1>8, <2>2, <2>6
    <3> QED BY <1>2, <2>2, <3>1, <3>2, <3>3 DEF Written
  <2>9. Queued(ends, last + 1, off)'
    <3>1. Len(queue') = Len(sent') - (last + 1)
      BY <1>2, <1>3, <1>4, <2>2, <2>3
    <3>2. ASSUME NEW i \in 1 .. Len(queue') PROVE queue'[i] = ToBytes(sent'[(last + 1) + i])
      <4>1. i + 1 \in 1 .. Len(queue) /\ last + (i + 1) = (last + 1) + i
        BY <1>3, <1>4, <2>2
      <4> QED BY <1>2, <1>3, <2>3, <4>1
    <3> QED BY <2>6, <3>1, <3>2 DEF Queued
  <2>10. ReadSoFar(ends, last + 1, off)'
    <3>1. Len(received) < last => Len(received) < last + 1
      BY <1>4, <2>2
    <3> QED BY <1>2, <1>5, <2>1, <3>1 DEF ReadSoFar
  <2> QED BY <2>7, <2>8, <2>9, <2>10
<1> QED BY <1>2, <1>3, <1>6, <1>9 DEF Transit

LEMMA BytesStay ==
    ASSUME Inv, Length(Bytes') <= Length(Bytes), \A p \in 1 .. Length(Bytes') : Bytes'[p] = Bytes[p],
           ~closed' => ~closed /\ Length(Bytes') = Length(Bytes) /\ queue' = queue,
           Length(Bytes') \in Nat,
           sent' = sent, reader' = reader, received' = received
    PROVE  Transit' /\ TooBig'
<1>1. Transit /\ TooBig /\ sent \in Seq(Messages) /\ received \in Seq(Messages)
  BY DEF Inv, Types
<1>2. Upcoming' = Upcoming
  BY DEF Upcoming
<1>3. TooBig'
  BY <1>1, <1>2 DEF TooBig
<1>4. stream \in Seq(Byte) /\ writing \in Seq(Byte)
  BY DEF Inv, Types
<1>5. Length(Bytes) \in Nat
  BY <1>4, Joined DEF Bytes
<1>6. ASSUME reader.stopped = "no"
      PROVE  \E ends, last, off :
               Laid(ends)' /\ Written(ends, last, off)' /\ Queued(ends, last, off)'
               /\ ReadSoFar(ends, last, off)'
  <2>1. PICK ends, last, off :
          Laid(ends) /\ Written(ends, last, off) /\ Queued(ends, last, off) /\ ReadSoFar(ends, last, off)
    BY <1>1, <1>6 DEF Transit
  <2>2. Laid(ends)'
    BY <2>1 DEF Laid
  <2>3. Written(ends, last, off)'
    <3>1. last \in Len(received) .. Len(sent) /\ off \in Nat /\ ends[last] \in Nat
      BY <1>1, <2>1 DEF Written, Laid
    <3>2. off + Length(Bytes') <= ends[last]
      BY <1>5, <2>1, <3>1 DEF Written
    <3>3. \A p \in 1 .. Length(Bytes') : p \in 1 .. Length(Bytes)
      BY <1>5
    <3> QED BY <2>1, <3>1, <3>2, <3>3 DEF Written
  <2>4. Queued(ends, last, off)'
    BY <2>1 DEF Queued
  <2>5. ReadSoFar(ends, last, off)'
    BY <1>2, <2>1 DEF ReadSoFar
  <2> QED BY <2>2, <2>3, <2>4, <2>5
<1> QED BY <1>3, <1>6 DEF Transit

LEMMA WriteKeeps ==
    ASSUME Inv, Write
    PROVE  writing' \in Seq(Byte) /\ stream' \in Seq(Byte) /\ Transit' /\ TooBig'
<1>1. stream \in Seq(Byte) /\ writing \in Seq(Byte) /\ Length(stream) \in Nat
  BY DEF Inv, Types, Length
<1>2. PICK n \in 1 .. Room :
        /\ stream' = stream \o SubSeq(writing, 1, n)
        /\ writing' = SubSeq(writing, n + 1, Len(writing))
  BY DEF Write
<1>3. n \in 0 .. Length(writing)
  <2> DEFINE a == Len(writing)
             b == PipeSize - Len(stream)
  <2>1. a \in Nat /\ b \in Int
    BY <1>1, PipeAssumption
  <2>2. Room = Min({a, b})
    BY DEF Room
  <2> HIDE DEF a, b
  <2>3. Room \in Int /\ Room <= a
    BY <2>1, <2>2 DEF Min
  <2>4. n \in 0 .. a
    BY <2>1, <2>3
  <2> QED BY <2>4 DEF a, Length
<1> DEFINE first == SubSeq(writing, 1, n)
           rest == SubSeq(writing, n + 1, Length(writing))
<1>4. /\ first \in Seq(Byte) /\ Length(first) = n
      /\ \A i \in 1 .. n : first[i] = writing[i]
  BY <1>1, <1>3, Kept
<1>5. /\ rest \in Seq(Byte) /\ Length(rest) = Length(writing) - n
      /\ \A i \in 1 .. Length(rest) : rest[i] = writing[n + i]
  BY <1>1, <1>3, CutOff
<1>6. stream' = Join(stream, first) /\ writing' = rest
  BY <1>2 DEF Join, Length
<1> HIDE DEF first, rest
<1>7. Length(writing) \in Nat
  BY <1>1, Joined
<1>8. stream' \in Seq(Byte) /\ Length(stream') = Length(stream) + n
  BY <1>1, <1>4, <1>6, Joined
<1>9. Length(Bytes) = Length(stream) + Length(writing)
  BY <1>1, Joined DEF Bytes
<1>10. Bytes' = Join(stream', writing') /\ Length(Bytes') = Length(stream') + Length(writing')
  <2>1. Bytes' = Join(stream', writing')
    BY DEF Bytes
  <2> QED BY <1>5, <1>6, <1>8, <2>1, Joined
<1>11. Length(Bytes') = Length(Bytes) /\ Length(Bytes') \in Nat
  BY <1>1, <1>3, <1>5, <1>6, <1>7, <1>8, <1>9, <1>10
<1>12. ASSUME NEW p \in 1 .. Length(Bytes') PROVE Bytes'[p] = Bytes[p]
  <2>1. CASE p <= Length(stream)
    <3>1. p \in 1 .. Length(stream) /\ p \in 1 .. Length(stream')
      BY <1>1, <1>3, <1>8, <2>1
    <3>2. Bytes'[p] = stream'[p]
      BY <1>5, <1>6, <1>8, <1>10, <3>1, JoinedLeft
    <3>3. stream'[p] = stream[p]
      BY <1>1, <1>4, <1>6, <3>1, JoinedLeft
    <3>4. Bytes[p] = stream[p]
      BY <1>1, <3>1, JoinedLeft DEF Bytes
    <3> QED BY <3>2, <3>3, <3>4
  <2>2. CASE p > Length(stream) /\ p <= Length(stream')
    <3>1. PICK i \in 1 .. n : p = Length(stream) + i
      <4>1. p - Length(stream) \in 1 .. n
        BY <1>1, <1>8, <2>2
      <4> QED BY <1>1, <4>1
    <3>2. p \in 1 .. Length(stream') /\ i \in 1 .. Length(first) /\ i \in 1 .. Length(writing)
      BY <1>3, <1>4, <1>8, <1>1, <2>2, <1>7
    <3>3. Bytes'[p] = stream'[p]
      BY <1>5, <1>6, <1>8, <1>10, <3>2, JoinedLeft
    <3>4. stream'[p] = first[i]
      BY ZenonT(60), <1>1, <1>4, <1>6, <3>1, <3>2, JoinedRight
    <3>5. Bytes[p] = writing[i]
      BY <1>1, <3>1, <3>2, JoinedRight DEF Bytes
    <3> QED BY <1>4, <3>3, <3>4, <3>5
  <2>3. CASE p > Length(stream')
    <3>1. PICK i \in 1 .. Length(rest) : p = Length(stream') + i
      <4>1. p - Length(stream') \in 1 .. Length(rest)
        BY <1>1, <1>3, <1>5, <1>6, <1>7, <1>8, <1>10, <2>3
      <4> QED BY <1>1, <1>3, <1>8, <4>1
    <3>2. n + i \in 1 .. Length(writing) /\ p = Length(stream) + (n + i)
      BY <1>1, <1>3, <1>5, <1>7, <1>8, <3>1
    <3>3. Bytes'[p] = rest[i]
      BY <1>5, <1>6, <1>8, <1>10, <3>1, JoinedRight
    <3>4. Bytes[p] = writing[n + i]
      BY <1>1, <3>2, JoinedRight DEF Bytes
    <3> QED BY <1>5, <3>3, <3>4
  <2> QED BY <1>1, <1>3, <1>8, <2>1, <2>2, <2>3
<1>13. /\ closed' = closed /\ ~closed /\ queue' = queue /\ sent' = sent /\ reader' = reader
       /\ received' = received
  BY DEF Write, sender, receiver
<1>14. Transit' /\ TooBig'
  BY <1>11, <1>12, <1>13, BytesStay
<1> QED BY <1>5, <1>6, <1>8, <1>14

LEMMA CloseKeeps ==
    ASSUME Inv, Close
    PROVE  Transit' /\ TooBig'
<1>1. /\ closed' = TRUE /\ queue' = <<>> /\ writing' = <<>> /\ stream' = stream
      /\ sent' = sent /\ reader' = reader /\ received' = received
  BY DEF Close, sender, receiver
<1>2. stream \in Seq(Byte) /\ writing \in Seq(Byte) /\ <<>> \in Seq(Byte)
  BY DEF Inv, Types
<1>3. /\ Length(Bytes) = Length(stream) + Length(writing) /\ Length(stream) \in Nat
      /\ Length(writing) \in Nat
      /\ \A p \in 1 .. Length(stream) : Bytes[p] = stream[p]
  BY <1>2, Joined, JoinedLeft DEF Bytes
<1>4. PICK e : e = <<>>
  OBVIOUS
<1>5. Bytes' = Join(stream, e) /\ e \in Seq(Byte)
  BY <1>1, <1>2, <1>4 DEF Bytes
<1>6. Length(e) = 0
  BY <1>4 DEF Length
<1>7. /\ Length(Bytes') = Length(stream)
      /\ \A p \in 1 .. Length(stream) : Bytes'[p] = stream[p]
  <2>1. Length(Bytes') = Length(stream) + Length(e)
    BY <1>2, <1>5, Joined
  <2>2. \A p \in 1 .. Length(stream) : Bytes'[p] = stream[p]
    BY <1>2, <1>5, JoinedLeft
  <2> QED BY <1>3, <1>6, <2>1, <2>2
<1>8. Length(Bytes') <= Length(Bytes) /\ Length(Bytes') \in Nat
  BY <1>3, <1>7
<1>9. \A p \in 1 .. Length(Bytes') : Bytes'[p] = Bytes[p]
  BY <1>3, <1>7
<1> QED BY <1>1, <1>8, <1>9, BytesStay

LEMMA Consumed ==
    ASSUME Inv, NEW n \in 0 .. 5, Reads(n), writing' = writing
    PROVE  /\ stream' \in Seq(Byte) /\ Wanted \in Nat /\ Length(Bytes') \in Nat
           /\ Length(Bytes') = Length(Bytes) - Wanted
           /\ \A p \in 1 .. Length(Bytes') : Bytes'[p] = Bytes[Wanted + p]
<1>1. stream \in Seq(Byte) /\ writing \in Seq(Byte)
  BY DEF Inv, Types
<1>2. Wanted \in 0 .. Length(stream) /\ Length(stream) \in Nat /\ Wanted \in Nat
  <2>1. Wanted \in 0 .. Length(stream)
    BY Arrived
  <2> QED BY <1>1, <2>1 DEF Length
<1> DEFINE u == SubSeq(stream, Wanted + 1, Length(stream))
<1>4. stream' = u
  BY ReadsMeans
<1>5. /\ u \in Seq(Byte) /\ Length(Join(u, writing)) = Length(Join(stream, writing)) - Wanted
      /\ \A p \in 1 .. Length(Join(u, writing)) :
           Join(u, writing)[p] = Join(stream, writing)[Wanted + p]
  BY <1>1, <1>2, Shifted
<1> HIDE DEF u
<1>6. Join(u, writing) \in Seq(Byte) /\ Length(Join(u, writing)) \in Nat
  <2>1. Join(u, writing) \in Seq(Byte)
    BY <1>1, <1>5, Joined
  <2> QED BY <2>1 DEF Length
<1>7. Bytes' = Join(u, writing) /\ Bytes = Join(stream, writing)
  BY <1>4 DEF Bytes
<1> QED BY <1>2, <1>4, <1>5, <1>6, <1>7

LEMMA Advance ==
    ASSUME Inv, NEW ends, NEW last, NEW off, Laid(ends), Written(ends, last, off),
           Queued(ends, last, off), NEW w \in Nat, Length(Bytes') \in Nat,
           Length(Bytes') = Length(Bytes) - w,
           \A p \in 1 .. Length(Bytes') : Bytes'[p] = Bytes[w + p],
           sent' = sent, queue' = queue, closed' = closed,
           Len(received') \in Len(received) .. last
    PROVE  Laid(ends)' /\ Written(ends, last, off + w)' /\ Queued(ends, last, off + w)'
<1>1. /\ sent \in Seq(Messages) /\ received \in Seq(Messages)
      /\ Len(sent) \in Nat /\ Len(received) \in Nat
  BY DEF Inv, Types
<1>2. Length(Bytes) \in Nat
  <2>1. stream \in Seq(Byte) /\ writing \in Seq(Byte)
    BY DEF Inv, Types
  <2>2. Bytes \in Seq(Byte)
    BY <2>1, Joined DEF Bytes
  <2> QED BY <2>2 DEF Length
<1>3. /\ last \in Len(received) .. Len(sent) /\ last \in Nat /\ off \in Nat
      /\ off + Length(Bytes) <= ends[last]
  BY <1>1 DEF Written
<1>4. last \in 0 .. Len(sent) /\ ends[last] \in Nat
  BY <1>1, <1>3 DEF Laid
<1>5. Laid(ends)'
  BY DEF Laid
<1>6. Written(ends, last, off + w)'
  <2>1. last \in Len(received') .. Len(sent) /\ off + w \in Nat
        /\ (off + w) + Length(Bytes') <= ends[last]
    BY <1>1, <1>2, <1>3, <1>4
  <2>2. ASSUME NEW i \in Len(received') + 1 .. last, NEW j \in 1 .. Length(ToBytes(sent[i])),
               NEW p \in 1 .. Length(Bytes'), (off + w) + p = ends[i - 1] + j
        PROVE  Bytes'[p] = ToBytes(sent[i])[j]
    <3>1. i \in Len(received) + 1 .. last
      BY <1>1, <1>3
    <3>2. w + p \in 1 .. Length(Bytes) /\ off + (w + p) = (off + w) + p
      BY <1>2, <1>3
    <3>3. Bytes[w + p] = ToBytes(sent[i])[j]
      BY SMTT(30), <2>2, <3>1, <3>2 DEF Written
    <3> QED BY <3>3
  <2> QED BY <2>1, <2>2 DEF Written
<1>7. Queued(ends, last, off + w)'
  <2>1. off + Length(Bytes) = ends[last] => (off + w) + Length(Bytes') = ends[last]
    BY <1>2, <1>3, <1>4
  <2> QED BY <2>1 DEF Queued
<1> QED BY <1>5, <1>6, <1>7

(* A field more has been read.                                             *)
LEMMA OnwardKeeps ==
    ASSUME Inv, NEW n \in 0 .. 4, Reads(n), Upcoming \in Laden,
           UNCHANGED <<sent, queue, writing, closed, received>>,
           reader' = [reader EXCEPT !.fields = Append(@, Header(Upcoming)[n + 1])]
    PROVE  /\ reader' \in [fields : Seq(Nat), stopped : Stops]
           /\ Length(reader'.fields) = n + 1 /\ reader'.stopped = "no"
           /\ Transit' /\ TooBig'
<1> DEFINE m == Upcoming
           v == Header(m)[n + 1]
<1>1. /\ reader \in [fields : Seq(Nat), stopped : Stops] /\ Transit
      /\ sent \in Seq(Messages) /\ received \in Seq(Messages)
  BY DEF Inv, Types
<1>2. reader.stopped = "no" /\ Length(reader.fields) = n
  BY ReadsMeans
<1>3. v \in Nat /\ Before(m, n + 2) = Before(m, n + 1) + Length(Field(m, n + 1))
      /\ Before(m, n + 1) \in Nat
  <2>1. n + 1 \in 1 .. 5 /\ (n + 1) + 1 = n + 2 /\ n + 1 \in 1 .. 6
    OBVIOUS
  <2> QED BY <2>1, Fields
<1>4. reader' = [fields |-> Append(reader.fields, v), stopped |-> reader.stopped]
  BY <1>1
<1> HIDE DEF v
<1>5. reader'.fields = Append(reader.fields, v) /\ reader'.stopped = "no"
  BY <1>2, <1>4
<1>6. /\ reader'.fields \in Seq(Nat) /\ Len(reader'.fields) = Len(reader.fields) + 1
      /\ \A i \in 1 .. Len(reader.fields) : reader'.fields[i] = reader.fields[i]
      /\ reader'.fields[Len(reader.fields) + 1] = v
  BY <1>1, <1>3, <1>5, AppendProperties
<1>7. /\ Length(reader'.fields) = n + 1 /\ reader'.fields[n + 1] = v
      /\ \A i \in 1 .. n : reader'.fields[i] = reader.fields[i]
  BY <1>2, <1>6 DEF Length
<1>8. reader' \in [fields : Seq(Nat), stopped : Stops]
  BY <1>2, <1>4, <1>5, <1>6 DEF Stops
<1>9. Upcoming' = Upcoming
  BY DEF Upcoming
<1>10. n \in 0 .. 5
  OBVIOUS
<1>11. /\ Len(received) < Len(sent) /\ Wanted = Length(Field(m, n + 1)) /\ Wanted \in Nat
       /\ \A i \in 1 .. n : reader.fields[i] = Header(m)[i]
  BY <1>10, Arrived, Consumed
<1>12. \E ends, last, off :
         Laid(ends)' /\ Written(ends, last, off)' /\ Queued(ends, last, off)'
         /\ ReadSoFar(ends, last, off)'
  <2>1. PICK ends, last, off :
          Laid(ends) /\ Written(ends, last, off) /\ Queued(ends, last, off) /\ ReadSoFar(ends, last, off)
    BY <1>1, <1>2 DEF Transit
  <2>2. PICK w : w = Wanted
    OBVIOUS
  <2>3. /\ w \in Nat /\ Length(Bytes') \in Nat /\ Length(Bytes') = Length(Bytes) - w
        /\ \A p \in 1 .. Length(Bytes') : Bytes'[p] = Bytes[w + p]
    BY <1>10, <2>2, Consumed
  <2>4. last \in Len(received) .. Len(sent) /\ off \in Nat /\ last \in Nat /\ Len(received) \in Nat
    BY <1>1, <2>1 DEF Written
  <2>5. Len(received') \in Len(received) .. last
    BY <2>4
  <2>6. Laid(ends)' /\ Written(ends, last, off + w)' /\ Queued(ends, last, off + w)'
    BY <2>1, <2>3, <2>5, Advance
  <2>7. off = ends[Len(received)] + Before(m, n + 1)
    BY <1>2, <2>1 DEF ReadSoFar
  <2>8. ends[Len(received)] \in Nat
    BY <2>1, <2>4 DEF Laid
  <2>9. off + w = ends[Len(received)] + Before(m, n + 2)
    BY <1>3, <1>11, <2>2, <2>3, <2>7, <2>8
  <2>10. Len(received) < last
    BY <1>10, <2>1, Popped
  <2>11. ASSUME NEW i \in 1 .. n + 1 PROVE reader'.fields[i] = Header(m)[i]
    <3>1. i \in 1 .. n \/ i = n + 1
      OBVIOUS
    <3>2. CASE i \in 1 .. n
      BY <1>7, <1>11, <3>2
    <3>3. CASE i = n + 1
      BY <1>7, <3>3 DEF v
    <3> QED BY <3>1, <3>2, <3>3
  <2>12. ReadSoFar(ends, last, off + w)'
    <3>1. (n + 1) + 1 = n + 2
      OBVIOUS
    <3> QED BY <1>7, <1>9, <2>9, <2>10, <2>11, <3>1 DEF ReadSoFar
  <2> QED BY <2>6, <2>12
<1>13. Transit' /\ TooBig'
  BY <1>5, <1>12 DEF Transit, TooBig
<1> QED BY <1>5, <1>7, <1>8, <1>13

(* A message has been read to its end.                                     *)
LEMMA FinishKeeps ==
    ASSUME Inv, NEW n \in {0, 5}, Reads(n), n = 0 => Upcoming \in Signals,
           UNCHANGED <<sent, queue, writing, closed>>,
           received' = Append(received, Upcoming),
           reader'.fields = <<>>, reader'.stopped # "IdxTooBig"
    PROVE  received' \in Seq(Messages) /\ Transit' /\ TooBig'
<1> DEFINE m == Upcoming
           r == Len(received)
<1>1. /\ sent \in Seq(Messages) /\ received \in Seq(Messages) /\ Transit
      /\ r \in Nat /\ Len(sent) \in Nat
  BY DEF Inv, Types
<1>2. n \in 0 .. 5
  OBVIOUS
<1>3. reader.stopped = "no" /\ Length(reader.fields) = n
  BY ReadsMeans
<1>4. r < Len(sent) /\ m \in Messages /\ Wanted \in Nat
  BY <1>2, Arrived, Consumed
<1>5. /\ received' \in Seq(Messages) /\ Len(received') = r + 1
  BY <1>1, <1>4, AppendProperties
<1>6. Before(m, n + 1) + Wanted = Length(ToBytes(m)) /\ Before(m, n + 1) \in Nat
  <2>1. CASE n = 0
    <3>1. Wanted = 1 /\ Before(m, n + 1) = 0
      BY <1>2, <2>1, Arrived DEF Before
    <3>2. Length(ToBytes(m)) = 1
      BY <1>4, <2>1, MessageBytes
    <3> QED BY <3>1, <3>2
  <2>2. CASE n = 5
    <3>1. m \in Laden
      BY <1>2, <2>2, Arrived
    <3>2. Wanted = Length(Field(m, n + 1)) /\ n + 1 = 6
      BY <1>2, <2>2, <3>1, Arrived
    <3>3. Field(m, 6) = m.body
      BY DEF Field
    <3>4. Length(ToBytes(m)) = Before(m, 6) + Length(m.body)
      BY <3>1, Layout
    <3>5. 6 \in 1 .. 6
      OBVIOUS
    <3>6. Before(m, 6) \in Nat
      BY <3>1, <3>5, Fields
    <3> QED BY <3>2, <3>3, <3>4, <3>6
  <2> QED BY <2>1, <2>2
<1>7. TooBig'
  BY DEF TooBig
<1>8. \E ends, last, off :
        Laid(ends)' /\ Written(ends, last, off)' /\ Queued(ends, last, off)'
        /\ ReadSoFar(ends, last, off)'
  <2>1. PICK ends, last, off :
          Laid(ends) /\ Written(ends, last, off) /\ Queued(ends, last, off) /\ ReadSoFar(ends, last, off)
    BY <1>1, <1>3 DEF Transit
  <2>2. PICK w : w = Wanted
    OBVIOUS
  <2>3. /\ w \in Nat /\ Length(Bytes') \in Nat /\ Length(Bytes') = Length(Bytes) - w
        /\ \A p \in 1 .. Length(Bytes') : Bytes'[p] = Bytes[w + p]
    BY <1>2, <2>2, Consumed
  <2>4. last \in r .. Len(sent) /\ off \in Nat /\ last \in Nat
    BY <1>1, <2>1 DEF Written
  <2>5. r < last
    BY <1>2, <2>1, Popped
  <2>6. Len(received') \in r .. last
    BY <1>1, <1>5, <2>4, <2>5
  <2>7. Laid(ends)' /\ Written(ends, last, off + w)' /\ Queued(ends, last, off + w)'
    BY <2>1, <2>3, <2>6, Advance
  <2>8. off = ends[r] + Before(m, n + 1)
    BY <1>3, <2>1 DEF ReadSoFar
  <2>9. ends[r] \in Nat
    BY <1>1, <2>1, <2>4 DEF Laid
  <2>10. ends[r + 1] = ends[r] + Length(ToBytes(m))
    <3>1. r + 1 \in 1 .. Len(sent) /\ (r + 1) - 1 = r /\ sent[r + 1] = m
      BY <1>1, <1>4 DEF Upcoming
    <3> QED BY <2>1, <3>1 DEF Laid
  <2>11. off + w = ends[r + 1]
    BY <1>6, <2>2, <2>3, <2>8, <2>9, <2>10
  <2>12. ends[r + 1] \in Nat
    BY <2>3, <2>4, <2>11
  <2>13. Length(reader'.fields) = 0
    <3>1. Length(<<>>) = 0
      BY DEF Length
    <3> QED BY <3>1
  <2>14. Before(Upcoming', 0 + 1) = 0
    BY DEF Before
  <2>15. ReadSoFar(ends, last, off + w)'
    BY <1>5, <2>11, <2>12, <2>13, <2>14 DEF ReadSoFar
  <2> QED BY <2>7, <2>15
<1>9. Transit'
  BY <1>8 DEF Transit
<1> QED BY <1>5, <1>7, <1>9

-----------------------------------------------------------------------------
(* What a call sends.                                                      *)
LEMMA PiecesAreMessages ==
    ASSUME NEW c \in Calls, NEW i \in 1 .. Len(Pieces(c)), NEW key \in Procedures \X Indices
    PROVE  CallMessage(key, Pieces(c)[i]) \in Messages
<1> DEFINE bytes == IntoBytes(Arguments[c])
<1>1. bytes \in Bodies /\ Cut[c] \in 0 .. Len(bytes)
  BY CutAssumption
<1>2. bytes \in Seq(Byte) /\ Len(bytes) \in Indices /\ Len(bytes) \in Nat
  BY <1>1 DEF Bodies, Byte
<1>3. \A k \in 0 .. Len(bytes) : k \in Indices
  <2>1. Capacity(8) \in Nat /\ Len(bytes) < Capacity(8)
    BY <1>2, Capacities DEF Indices, Fits
  <2>2. ASSUME NEW k \in 0 .. Len(bytes) PROVE k \in Nat /\ k < Capacity(8)
    BY <1>2, <2>1
  <2> QED BY <2>2 DEF Indices, Fits
<1> DEFINE first == SubSeq(bytes, 1, Cut[c])
           rest == SubSeq(bytes, Cut[c] + 1, Len(bytes))
<1>4. first \in Seq(Byte) /\ Length(first) = Cut[c]
  BY <1>1, <1>2, Kept DEF Length
<1>5. rest \in Seq(Byte) /\ Length(rest) = Len(bytes) - Cut[c]
  <2>1. rest = SubSeq(bytes, Cut[c] + 1, Length(bytes)) /\ Cut[c] \in 0 .. Length(bytes)
    BY <1>1 DEF Length
  <2>2. rest \in Seq(Byte) /\ Length(rest) = Length(bytes) - Cut[c]
    BY <1>2, <2>1, CutOff
  <2> QED BY <2>2 DEF Length
<1>6. <<>> \in Seq(Byte) /\ Length(<<>>) = 0
  BY DEF Length
<1>7. first \in Bodies /\ rest \in Bodies /\ <<>> \in Bodies
  <2>1. Length(first) \in Indices /\ Length(rest) \in Indices /\ Length(<<>>) \in Indices
    BY <1>1, <1>2, <1>3, <1>4, <1>5, <1>6
  <2> QED BY <1>4, <1>5, <1>6, <2>1 DEF Bodies, Byte, Length
<1>8. ASSUME NEW body \in Bodies, NEW terminator \in Terminators
      PROVE  CallMessage(key, [body |-> body, terminator |-> terminator]) \in Messages
  BY <1>8 DEF CallMessage, Messages, Laden, CallMessages
<1> HIDE DEF bytes, first, rest
<1>9. CASE Cut[c] = 0
  <2>1. Pieces(c) = <<[body |-> bytes, terminator |-> "complete"]>>
    BY <1>9 DEF Pieces, bytes
  <2>2. Pieces(c)[i] = [body |-> bytes, terminator |-> "complete"]
    BY <2>1
  <2> QED BY <1>1, <1>8, <2>2 DEF Terminators
<1>10. CASE Cut[c] # 0 /\ Cut[c] = Len(bytes)
  <2>1. Pieces(c) = <<[body |-> bytes, terminator |-> "none"], [body |-> <<>>, terminator |-> "complete"]>>
    BY <1>10 DEF Pieces, bytes
  <2>2. \/ Pieces(c)[i] = [body |-> bytes, terminator |-> "none"]
        \/ Pieces(c)[i] = [body |-> <<>>, terminator |-> "complete"]
    BY <2>1
  <2> QED BY <1>1, <1>7, <1>8, <2>2 DEF Terminators
<1>11. CASE Cut[c] # 0 /\ Cut[c] # Len(bytes)
  <2>1. Pieces(c) = <<[body |-> first, terminator |-> "none"], [body |-> rest, terminator |-> "none"],
                      [body |-> <<>>, terminator |-> "complete"]>>
    BY <1>11 DEF Pieces, bytes, first, rest
  <2>2. \/ Pieces(c)[i] = [body |-> first, terminator |-> "none"]
        \/ Pieces(c)[i] = [body |-> rest, terminator |-> "none"]
        \/ Pieces(c)[i] = [body |-> <<>>, terminator |-> "complete"]
    BY <2>1
  <2> QED BY <1>7, <1>8, <2>2 DEF Terminators
<1> QED BY <1>9, <1>10, <1>11

LEMMA SomePieces ==
    ASSUME NEW c \in Calls
    PROVE  Len(Pieces(c)) \in Nat /\ Len(Pieces(c)) >= 1
BY DEF Pieces

-----------------------------------------------------------------------------
(* Every step keeps the invariant.                                         *)
LEMMA InitInv == Init => Inv
<1> SUFFICES ASSUME Init PROVE Inv
  OBVIOUS
<1>1. /\ remote_call_counter = LastIndex /\ caller = [c \in Calls |-> [key |-> None, pieces |-> 0]]
      /\ scripted = 0 /\ queue = <<>> /\ writing = <<>> /\ stream = <<>> /\ closed = FALSE
      /\ reader = [fields |-> <<>>, stopped |-> "no"] /\ terminated = FALSE /\ buffers = {}
      /\ sent = <<>> /\ received = <<>>
  BY DEF Init
<1>2. Length(reader.fields) = 0
  BY <1>1 DEF Length
<1>3. Types
  <2>1. LastIndex \in [Procedures -> Nat]
    BY IndexAssumption
  <2>2. Keyed = {}
    BY <1>1 DEF Keyed
  <2>3. Cardinality(Keyed) = 0
    BY <2>2, FS_EmptySet
  <2>4. \A p \in Procedures : remote_call_counter[p] <= LastIndex[p] + Cardinality(Keyed)
    BY <1>1, <2>1, <2>3
  <2>5. \A c \in Calls : caller[c].pieces <= Len(Pieces(c))
    BY <1>1, SomePieces
  <2>6. caller \in [Calls -> [key : (Procedures \X Indices) \cup {None}, pieces : Nat]]
    BY <1>1
  <2>7. reader \in [fields : Seq(Nat), stopped : Stops]
    BY <1>1 DEF Stops
  <2>8. terminated \in BOOLEAN /\ (terminated <=> reader.stopped \in {"terminated", "UnexpectedEof"})
    <3>1. terminated = FALSE /\ reader.stopped = "no"
      BY <1>1
    <3> QED BY <3>1
  <2>9. /\ sent \in Seq(Messages) /\ received \in Seq(Messages)
        /\ queue \in Seq(Seq(Byte)) /\ writing \in Seq(Byte) /\ stream \in Seq(Byte)
    BY <1>1
  <2>10. /\ remote_call_counter \in [Procedures -> Nat] /\ scripted \in Nat /\ closed \in BOOLEAN
         /\ reader.stopped = "no"
    BY <1>1, <2>1
  <2>13. Len(received) <= Len(sent)
    BY <1>1
  <2>11. Length(reader.fields) <= 5
    BY <1>2
  <2>12. \A b \in buffers : b.key[1] \in Procedures
    BY <1>1
  <2> QED BY <2>4, <2>5, <2>6, <2>7, <2>8, <2>9, <2>10, <2>11, <2>12, <2>13 DEF Types
<1>4. Transit
  <2>1. PICK ends : ends = [i \in 0 .. 0 |-> 0]
    OBVIOUS
  <2>2. Len(sent) = 0 /\ Len(received) = 0 /\ Len(queue) = 0
    BY <1>1
  <2>3. ends \in [0 .. Len(sent) -> Nat] /\ ends[0] = 0
    BY <2>1, <2>2
  <2>4. Laid(ends)
    BY <2>2, <2>3 DEF Laid
  <2>5. Length(Bytes) = 0
    <3>1. stream \in Seq(Byte) /\ writing \in Seq(Byte)
      BY <1>1
    <3>2. Length(stream) = 0 /\ Length(writing) = 0
      BY <1>1 DEF Length
    <3> QED BY <3>1, <3>2, Joined DEF Bytes
  <2>6. Written(ends, 0, 0)
    BY <2>2, <2>3, <2>5 DEF Written
  <2>7. Queued(ends, 0, 0)
    BY <2>2, <2>3, <2>5 DEF Queued
  <2>8. Before(Upcoming, 1) = 0
    BY DEF Before
  <2>9. ReadSoFar(ends, 0, 0)
    BY <1>2, <2>2, <2>3, <2>8 DEF ReadSoFar
  <2> QED BY <2>4, <2>6, <2>7, <2>9 DEF Transit
<1>5. TooBig
  BY <1>1 DEF TooBig
<1> QED BY <1>3, <1>4, <1>5 DEF Inv

LEMMA PushSends ==
    ASSUME Inv, NEW message \in Messages, Push(message),
           UNCHANGED <<writing, stream, closed, receiver>>
    PROVE  Fifo!Send
<1>1. /\ Len(sent') = Len(sent) + 1 /\ \A i \in 1 .. Len(sent) : sent'[i] = sent[i]
      /\ sent' \in Seq(Messages)
  BY PushKeeps
<1>2. sent \in Seq(Messages)
  BY DEF Inv, Types
<1>3. Len(sent) \in 0 .. Length(sent') /\ Len(sent) = Length(sent)
  BY <1>1, <1>2 DEF Length
<1> DEFINE v == SubSeq(sent', 1, Len(sent))
<1>4. v \in Seq(Messages) /\ Length(v) = Len(sent) /\ \A i \in 1 .. Len(sent) : v[i] = sent'[i]
  BY <1>1, <1>3, Kept
<1> HIDE DEF v
<1>5. v = sent
  BY <1>1, <1>2, <1>4, SeqEqual DEF Length
<1> QED BY <1>1, <1>5 DEF Fifo!Send, receiver, v

LEMMA PushedMore ==
    ASSUME Inv, NEW message \in Messages, Push(message),
           UNCHANGED <<writing, stream, closed, receiver>>
    PROVE  Len(received') <= Len(sent')
<1>1. Len(sent') = Len(sent) + 1 /\ received' = received
  BY PushKeeps DEF receiver
<1>2. Len(sent) \in Nat /\ Len(received) \in Nat /\ Len(received) <= Len(sent)
  BY DEF Inv, Types
<1> QED BY <1>1, <1>2

LEMMA KeyedMore ==
    ASSUME Inv, NEW c \in Calls, caller[c].key = None,
           NEW entry, entry.key # None, caller' = [caller EXCEPT ![c] = entry]
    PROVE  /\ Cardinality(Keyed) \in Nat /\ Cardinality(Keyed') = Cardinality(Keyed) + 1
           /\ Cardinality(Keyed') <= Cardinality(Calls) /\ Cardinality(Calls) \in Nat
<1>1. caller \in [Calls -> [key : (Procedures \X Indices) \cup {None}, pieces : Nat]]
  BY DEF Inv, Types
<1>2. IsFiniteSet(Calls) /\ Cardinality(Calls) \in Nat
  BY CallsAssumption, FS_CardinalityType
<1>3. Keyed' = Keyed \cup {c} /\ c \notin Keyed /\ Keyed' \subseteq Calls /\ Keyed \subseteq Calls
  BY <1>1 DEF Keyed
<1>4. IsFiniteSet(Keyed) /\ Cardinality(Keyed) \in Nat
  BY <1>2, <1>3, FS_Subset, FS_CardinalityType
<1>5. Cardinality(Keyed') = Cardinality(Keyed) + 1
  BY <1>3, <1>4, FS_AddElement
<1>6. Cardinality(Keyed') <= Cardinality(Calls)
  BY <1>2, <1>3, FS_Subset
<1> QED BY <1>2, <1>4, <1>5, <1>6

LEMMA StartKeeps ==
    ASSUME Inv, NEW c \in Calls, Start(c)
    PROVE  Inv' /\ Fifo!Send
<1> DEFINE p == Procedure[c]
           k == remote_call_counter[p] + 1
           key == <<p, k>>
           entry == [key |-> key, pieces |-> 1]
<1>1. /\ caller[c].key = None /\ remote_call_counter' = [remote_call_counter EXCEPT ![p] = @ + 1]
      /\ Push(CallMessage(key, Pieces(c)[1])) /\ caller' = [caller EXCEPT ![c] = entry]
      /\ UNCHANGED <<scripted, writing, stream, closed, receiver>>
  BY DEF Start
<1>2. Types
  BY DEF Inv
<1>3. p \in Procedures
  BY DEF Procedures
<1>4. /\ remote_call_counter \in [Procedures -> Nat]
      /\ \A q \in Procedures : remote_call_counter[q] <= LastIndex[q] + Cardinality(Keyed)
      /\ caller \in [Calls -> [key : (Procedures \X Indices) \cup {None}, pieces : Nat]]
      /\ \A d \in Calls : caller[d].pieces <= Len(Pieces(d))
  BY <1>2 DEF Types
<1>5. /\ LastIndex \in [Procedures -> Nat]
      /\ \A q \in Procedures : LastIndex[q] + Cardinality(Calls) \in Indices
  BY IndexAssumption
<1>6. k \in Nat
  BY <1>3, <1>4
<1>7. key # None
  <2>1. key \in Procedures \X Nat
    BY <1>3, <1>6
  <2> QED BY <2>1, NoneAssumption
<1>8. /\ Cardinality(Keyed) \in Nat /\ Cardinality(Keyed') = Cardinality(Keyed) + 1
      /\ Cardinality(Keyed') <= Cardinality(Calls) /\ Cardinality(Calls) \in Nat
  <2>1. entry.key # None
    BY <1>7
  <2> HIDE DEF entry
  <2> QED BY <1>1, <2>1, KeyedMore
<1>9. k \in Indices
  <2>1. k <= LastIndex[p] + Cardinality(Calls) /\ LastIndex[p] + Cardinality(Calls) \in Indices
        /\ LastIndex[p] \in Nat
    BY <1>3, <1>4, <1>5, <1>8
  <2>2. Capacity(8) \in Nat /\ LastIndex[p] + Cardinality(Calls) < Capacity(8)
    BY <2>1, Capacities DEF Indices, Fits
  <2>3. k < Capacity(8)
    BY <1>6, <1>8, <2>1, <2>2
  <2> QED BY <1>6, <2>3 DEF Indices, Fits
<1>10. key \in Procedures \X Indices
  BY <1>3, <1>9
<1>11. 1 \in 1 .. Len(Pieces(c))
  BY SomePieces
<1> HIDE DEF key
<1>12. CallMessage(key, Pieces(c)[1]) \in Messages
  BY <1>10, <1>11, PiecesAreMessages
<1>13. /\ sent' \in Seq(Messages) /\ queue' \in Seq(Seq(Byte)) /\ Transit' /\ TooBig'
       /\ Len(received') <= Len(sent') /\ Fifo!Send
  BY <1>1, <1>2, <1>12, PushKeeps, PushSends, PushedMore
<1>14. remote_call_counter' \in [Procedures -> Nat]
  <2>1. remote_call_counter' = [remote_call_counter EXCEPT ![p] = k]
    BY <1>1
  <2> HIDE DEF p, k
  <2> QED BY <1>4, <1>6, <2>1
<1>15. \A q \in Procedures : remote_call_counter'[q] <= LastIndex[q] + Cardinality(Keyed')
  BY <1>1, <1>4, <1>5, <1>8
<1>16. caller' \in [Calls -> [key : (Procedures \X Indices) \cup {None}, pieces : Nat]]
  <2>1. entry \in [key : (Procedures \X Indices) \cup {None}, pieces : Nat]
    BY <1>10
  <2> HIDE DEF entry
  <2> QED BY <1>1, <1>4, <2>1
<1>17. \A d \in Calls : caller'[d].pieces <= Len(Pieces(d))
  <2>1. 1 <= Len(Pieces(c))
    BY SomePieces
  <2> HIDE DEF p, k
  <2> QED BY <1>1, <1>4, <2>1
<1>18. Types'
  BY <1>1, <1>2, <1>13, <1>14, <1>15, <1>16, <1>17 DEF Types, receiver, Pieces
<1> QED BY <1>13, <1>18 DEF Inv

LEMMA SendPieceKeeps ==
    ASSUME Inv, NEW c \in Calls, SendPiece(c)
    PROVE  Inv' /\ Fifo!Send
<1> DEFINE i == caller[c].pieces + 1
           key == caller[c].key
<1>1. /\ key # None /\ i <= Len(Pieces(c)) /\ Push(CallMessage(key, Pieces(c)[i]))
      /\ caller' = [caller EXCEPT ![c].pieces = i]
      /\ UNCHANGED <<remote_call_counter, scripted, writing, stream, closed, receiver>>
  BY DEF SendPiece
<1>2. Types
  BY DEF Inv
<1>3. /\ caller \in [Calls -> [key : (Procedures \X Indices) \cup {None}, pieces : Nat]]
      /\ \A d \in Calls : caller[d].pieces <= Len(Pieces(d))
  BY <1>2 DEF Types
<1>4. i \in Nat /\ i >= 1 /\ key \in Procedures \X Indices
  BY <1>1, <1>3
<1>5. i \in 1 .. Len(Pieces(c))
  BY <1>1, <1>4, SomePieces
<1> HIDE DEF i, key
<1>6. CallMessage(key, Pieces(c)[i]) \in Messages
  BY <1>4, <1>5, PiecesAreMessages
<1>7. /\ sent' \in Seq(Messages) /\ queue' \in Seq(Seq(Byte)) /\ Transit' /\ TooBig'
      /\ Len(received') <= Len(sent') /\ Fifo!Send
  BY <1>1, <1>6, PushKeeps, PushSends, PushedMore
<1>8. caller' \in [Calls -> [key : (Procedures \X Indices) \cup {None}, pieces : Nat]]
  BY <1>1, <1>3, <1>4
<1>9. \A d \in Calls : caller'[d].pieces <= Len(Pieces(d)) /\ caller'[d].key = caller[d].key
  BY <1>1, <1>3
<1>10. Keyed' = Keyed
  BY <1>9 DEF Keyed
<1>11. Types'
  BY <1>1, <1>2, <1>7, <1>8, <1>9, <1>10 DEF Types, receiver, Pieces
<1> QED BY <1>7, <1>11 DEF Inv

LEMMA FollowScriptKeeps ==
    ASSUME Inv, FollowScript
    PROVE  Inv' /\ Fifo!Send
<1>1. /\ scripted < Len(Script) /\ Push(Script[scripted + 1]) /\ scripted' = scripted + 1
      /\ UNCHANGED <<remote_call_counter, caller, writing, stream, closed, receiver>>
  BY DEF FollowScript
<1>2. Types /\ scripted \in Nat
  BY DEF Inv, Types
<1>3. Script[scripted + 1] \in Messages
  <2>1. Script \in Seq(Responses \cup Signals)
    BY ScriptAssumption
  <2>2. scripted + 1 \in 1 .. Len(Script)
    BY <1>1, <1>2, <2>1
  <2>3. Script[scripted + 1] \in Responses \cup Signals
    BY <2>1, <2>2, ElementOfSeq
  <2> QED BY <2>3 DEF Messages, Laden
<1>4. /\ sent' \in Seq(Messages) /\ queue' \in Seq(Seq(Byte)) /\ Transit' /\ TooBig'
      /\ Len(received') <= Len(sent') /\ Fifo!Send
  BY <1>1, <1>3, PushKeeps, PushSends, PushedMore
<1>5. scripted' \in Nat
  BY <1>1, <1>2
<1>6. Keyed' = Keyed
  BY <1>1 DEF Keyed
<1>7. Types'
  BY <1>1, <1>2, <1>4, <1>5, <1>6 DEF Types, receiver, Pieces
<1> QED BY <1>4, <1>7 DEF Inv

LEMMA WriterKeeps ==
    ASSUME Inv, WriterStep \/ Close
    PROVE  Inv' /\ UNCHANGED <<sent, received>>
<1>1. Types
  BY DEF Inv
<1>2. CASE Pop
  <2>1. writing' \in Seq(Byte) /\ queue' \in Seq(Seq(Byte)) /\ Transit' /\ TooBig'
    BY <1>2, PopKeeps
  <2>2. UNCHANGED <<sender, stream, closed, receiver>>
    BY <1>2 DEF Pop
  <2>3. Keyed' = Keyed
    BY <2>2 DEF Keyed, sender
  <2>4. Types'
    BY <1>1, <2>1, <2>2, <2>3 DEF Types, sender, receiver, Pieces
  <2> QED BY <2>1, <2>2, <2>4 DEF Inv, sender, receiver
<1>3. CASE Write
  <2>1. writing' \in Seq(Byte) /\ stream' \in Seq(Byte) /\ Transit' /\ TooBig'
    BY <1>3, WriteKeeps
  <2>2. UNCHANGED <<sender, queue, closed, receiver>>
    BY <1>3 DEF Write
  <2>3. Keyed' = Keyed
    BY <2>2 DEF Keyed, sender
  <2>4. Types'
    BY <1>1, <2>1, <2>2, <2>3 DEF Types, sender, receiver, Pieces
  <2> QED BY <2>1, <2>2, <2>4 DEF Inv, sender, receiver
<1>4. CASE Close
  <2>1. Transit' /\ TooBig'
    BY <1>4, CloseKeeps
  <2>2. closed' = TRUE /\ queue' = <<>> /\ writing' = <<>> /\ UNCHANGED <<sender, stream, receiver>>
    BY <1>4 DEF Close
  <2>3. Keyed' = Keyed
    BY <2>2 DEF Keyed, sender
  <2>4. queue' \in Seq(Seq(Byte)) /\ writing' \in Seq(Byte) /\ closed' \in BOOLEAN
    BY <2>2
  <2>5. Types'
    BY <1>1, <2>2, <2>3, <2>4 DEF Types, sender, receiver, Pieces
  <2> QED BY <2>1, <2>2, <2>5 DEF Inv, sender, receiver
<1> QED BY <1>2, <1>3, <1>4 DEF WriterStep


(* What the reader's steps leave as it is.                                 *)
LEMMA ReaderTypes ==
    ASSUME Inv, UNCHANGED <<sender, queue, writing, closed>>,
           stream' \in Seq(Byte), received' \in Seq(Messages), Len(received') <= Len(sent),
           reader' \in [fields : Seq(Nat), stopped : Stops], Length(reader'.fields) <= 5,
           reader'.stopped # "no" => reader'.fields = <<>>,
           terminated' \in BOOLEAN,
           terminated' <=> reader'.stopped \in {"terminated", "UnexpectedEof"},
           \A b \in buffers' : b.key[1] \in Procedures
    PROVE  Types'
<1>1. Types
  BY DEF Inv
<1>2. /\ remote_call_counter' = remote_call_counter /\ caller' = caller
      /\ scripted' = scripted /\ sent' = sent
  BY DEF sender
<1>3. Keyed' = Keyed
  BY <1>2 DEF Keyed
<1> QED BY <1>1, <1>2, <1>3 DEF Types, Pieces

LEMMA StopTypes ==
    ASSUME NEW why \in Stops, Stop(why)
    PROVE  /\ reader' \in [fields : Seq(Nat), stopped : Stops] /\ Length(reader'.fields) <= 5
           /\ reader'.fields = <<>> /\ reader'.stopped = why
<1>1. reader' = [fields |-> <<>>, stopped |-> why]
  BY DEF Stop
<1>2. Length(<<>>) = 0
  BY DEF Length
<1> QED BY <1>1, <1>2

(* The type of a message says whether there is more to read of it.         *)
LEMMA TypeRead ==
    ASSUME Inv, Reads(0)
    PROVE  /\ FromLeBytes(Taken) \in {1, 2} => Upcoming \in Laden
           /\ FromLeBytes(Taken) = 3 => Upcoming \in Signals /\ Upcoming = [type |-> "end_of_input"]
           /\ FromLeBytes(Taken) = 0 => Upcoming \in Signals /\ Upcoming = [type |-> "termination"]
<1>1. Upcoming \in Messages /\ FromLeBytes(Taken) = TypeByte(Upcoming)
  <2>1. 0 \in 0 .. 5
    OBVIOUS
  <2> QED BY <2>1, Arrived
<1>2. CASE Upcoming \in Laden
  <2>1. TypeByte(Upcoming) \in {1, 2}
    BY <1>2, LadenType
  <2> QED BY <1>1, <1>2, <2>1
<1>3. CASE Upcoming \in Signals
  <2>1. /\ Upcoming = [type |-> Upcoming.type] /\ Upcoming.type \in {"end_of_input", "termination"}
        /\ TypeByte(Upcoming) = IF Upcoming.type = "termination" THEN 0 ELSE 3
    BY <1>3, SignalBytes
  <2> QED BY <1>1, <1>3, <2>1
<1> QED BY <1>1, <1>2, <1>3 DEF Messages

(* What the fields and the last bytes make is the message whose turn it is.*)
LEMMA MessageRead ==
    ASSUME Inv, Reads(5)
    PROVE  /\ Upcoming \in Laden
           /\ reader.fields[1] = 1 => Upcoming.type = "call" /\ Message("call") = Upcoming
                                      /\ Key = Upcoming.key /\ Key[1] \in Procedures
           /\ reader.fields[1] = 2 => Message("response") = Upcoming
<1> DEFINE m == Upcoming
<1>1. 5 \in 0 .. 5 /\ 5 > 0 /\ 5 >= 2 /\ 5 = 5
  OBVIOUS
<1>2. /\ m \in Laden /\ Taken = m.body
      /\ TerminatorFromFlag(Flag(7)) = m.terminator
      /\ \A i \in 1 .. 5 : reader.fields[i] = Header(m)[i]
  BY <1>1, Arrived
<1>3. /\ m = [type |-> m.type, key |-> <<m.key[1], m.key[2]>>, body |-> m.body,
              terminator |-> m.terminator]
      /\ m.type \in {"call", "response"}
      /\ m.type = "call" => m.key[1] \in Procedures
  BY <1>2, LadenParts
<1>4. TypeByte(m) = IF m.type = "call" THEN 1 ELSE 2
  BY <1>2, LadenType
<1>5. reader.fields[1] = Header(m)[1] /\ reader.fields[3] = Header(m)[3]
      /\ reader.fields[4] = Header(m)[4]
  BY <1>2
<1>6. Header(m)[1] = TypeByte(m) /\ Header(m)[3] = m.key[1] /\ Header(m)[4] = m.key[2]
  BY DEF Header
<1> HIDE DEF m
<1>7. Key = <<m.key[1], m.key[2]>>
  BY <1>5, <1>6 DEF Key
<1>8. \A type : Message(type) = [type |-> type, key |-> <<m.key[1], m.key[2]>>, body |-> m.body,
                                 terminator |-> m.terminator]
  BY <1>2, <1>7 DEF Message
<1>9. m.key = <<m.key[1], m.key[2]>> /\ Key[1] = m.key[1]
  BY <1>3, <1>7
<1>10. /\ reader.fields[1] = 1 => m.type = "call"
       /\ reader.fields[1] = 2 => m.type = "response"
  BY <1>3, <1>4, <1>5, <1>6
<1>11. Message(m.type) = m
  BY <1>3, <1>8
<1> QED BY <1>2, <1>3, <1>7, <1>9, <1>10, <1>11 DEF m

LEMMA ReadFieldKeeps ==
    ASSUME Inv, ReadField
    PROVE  Inv' /\ UNCHANGED <<sent, received>>
<1> DEFINE value == FromLeBytes(Taken)
<1>1. /\ reader' = [reader EXCEPT !.fields = Append(@, value)]
      /\ UNCHANGED <<sender, queue, writing, closed, terminated, buffers, received, ran>>
  BY DEF ReadField
<1>2. PICK n \in 0 .. 4 : Reads(n) /\ (n = 0 => value \in {1, 2})
  BY DEF ReadField
<1>3. n \in 0 .. 5 /\ (n = 0 \/ n \in 1 .. 4)
  BY <1>2
<1>4. Upcoming \in Laden /\ value = Header(Upcoming)[n + 1]
  <2>1. CASE n = 0
    <3>1. Upcoming \in Laden
      BY <1>2, <2>1, TypeRead
    <3>2. value = TypeByte(Upcoming)
      BY <1>2, <1>3, <2>1, Arrived
    <3>3. Header(Upcoming)[0 + 1] = TypeByte(Upcoming)
      BY DEF Header
    <3> QED BY <2>1, <3>1, <3>2, <3>3
  <2>2. CASE n \in 1 .. 4
    <3>1. n \in 0 .. 5 /\ n > 0
      BY <2>2
    <3> QED BY <1>2, <2>2, <3>1, Arrived
  <2> QED BY <1>3, <2>1, <2>2
<1> HIDE DEF value
<1>5. UNCHANGED <<sent, queue, writing, closed, received>>
  BY <1>1 DEF sender
<1>6. /\ reader' \in [fields : Seq(Nat), stopped : Stops]
      /\ Length(reader'.fields) = n + 1 /\ reader'.stopped = "no"
      /\ Transit' /\ TooBig'
  BY <1>1, <1>2, <1>4, <1>5, OnwardKeeps
<1>7. stream' \in Seq(Byte)
  <2>1. n \in 0 .. 5
    OBVIOUS
  <2> QED BY <1>1, <1>2, <2>1, Consumed
<1>8. Types /\ reader.stopped = "no"
  BY <1>2, ReadsMeans DEF Inv
<1>9. Types'
  <2>1. Length(reader'.fields) <= 5
    BY <1>6
  <2>2. received' \in Seq(Messages) /\ terminated' \in BOOLEAN /\ Len(received') <= Len(sent)
        /\ \A b \in buffers' : b.key[1] \in Procedures
    BY <1>1, <1>8 DEF Types
  <2>3. terminated' <=> reader'.stopped \in {"terminated", "UnexpectedEof"}
    BY <1>1, <1>6, <1>8 DEF Types
  <2> QED BY <1>1, <1>6, <1>7, <2>1, <2>2, <2>3, ReaderTypes
<1> QED BY <1>5, <1>6, <1>9 DEF Inv

LEMMA IdxTooBigKeeps ==
    ASSUME Inv, IdxTooBig
    PROVE  Inv' /\ UNCHANGED <<sent, received>>
<1>1. /\ ~Fits(FromLeBytes(Taken), IntSize) /\ Stop("IdxTooBig")
      /\ UNCHANGED <<sender, queue, writing, closed, terminated, buffers, received, ran>>
  BY DEF IdxTooBig
<1>2. PICK n \in {2, 3} : Reads(n)
  BY DEF IdxTooBig
<1>3. n \in 0 .. 5 /\ n > 0 /\ n \in 1 .. 4
  BY <1>2
<1>4. /\ Len(received) < Len(sent) /\ Upcoming \in Laden
      /\ FromLeBytes(Taken) = Header(Upcoming)[n + 1]
  BY <1>2, <1>3, Arrived
<1>5. /\ reader' \in [fields : Seq(Nat), stopped : Stops] /\ Length(reader'.fields) <= 5
      /\ reader'.fields = <<>> /\ reader'.stopped = "IdxTooBig"
  <2>1. "IdxTooBig" \in Stops
    BY DEF Stops
  <2> QED BY <1>1, <2>1, StopTypes
<1>6. sent' = sent /\ received' = received /\ Upcoming' = Upcoming
  BY <1>1 DEF sender, Upcoming
<1>7. \E i \in {1, 2} : ~Fits(Upcoming.key[i], IntSize)
  <2>1. Header(Upcoming)[3] = Upcoming.key[1] /\ Header(Upcoming)[4] = Upcoming.key[2]
    BY DEF Header
  <2>2. CASE n = 2
    <3>1. FromLeBytes(Taken) = Upcoming.key[1]
      BY <1>4, <2>1, <2>2
    <3> QED BY <1>1, <3>1
  <2>3. CASE n = 3
    <3>1. FromLeBytes(Taken) = Upcoming.key[2]
      BY <1>4, <2>1, <2>3
    <3> QED BY <1>1, <3>1
  <2> QED BY <1>2, <2>2, <2>3
<1>8. TooBig'
  BY <1>4, <1>6, <1>7 DEF TooBig
<1>9. Transit'
  BY <1>5 DEF Transit
<1>10. stream' \in Seq(Byte)
  BY <1>1, <1>2, <1>3, Consumed
<1>11. Types /\ reader.stopped = "no"
  BY <1>2, ReadsMeans DEF Inv
<1>12. Types'
  <2>1. received' \in Seq(Messages) /\ terminated' \in BOOLEAN /\ Len(received') <= Len(sent)
        /\ \A b \in buffers' : b.key[1] \in Procedures
    BY <1>1, <1>11 DEF Types
  <2>2. terminated' <=> reader'.stopped \in {"terminated", "UnexpectedEof"}
    BY <1>1, <1>5, <1>11 DEF Types
  <2> QED BY <1>1, <1>5, <1>10, <2>1, <2>2, ReaderTypes
<1> QED BY <1>6, <1>8, <1>9, <1>12 DEF Inv

LEMMA UnexpectedEofKeeps ==
    ASSUME Inv, UnexpectedEof
    PROVE  Inv' /\ UNCHANGED <<sent, received>>
<1>1. /\ stream' = <<>> /\ terminated' = TRUE /\ Stop("UnexpectedEof")
      /\ UNCHANGED <<sender, queue, writing, closed, buffers, received, ran>>
  BY DEF UnexpectedEof
<1>2. /\ reader' \in [fields : Seq(Nat), stopped : Stops] /\ Length(reader'.fields) <= 5
      /\ reader'.fields = <<>> /\ reader'.stopped = "UnexpectedEof"
  <2>1. "UnexpectedEof" \in Stops
    BY DEF Stops
  <2> QED BY <1>1, <2>1, StopTypes
<1>3. Transit' /\ TooBig'
  BY <1>2 DEF Transit, TooBig
<1>4. Types'
  <2>1. /\ stream' \in Seq(Byte) /\ received' \in Seq(Messages) /\ Len(received') <= Len(sent)
        /\ \A b \in buffers' : b.key[1] \in Procedures
    BY <1>1 DEF Inv, Types
  <2> QED BY <1>1, <1>2, <2>1, ReaderTypes
<1> QED BY <1>1, <1>3, <1>4 DEF Inv, sender

(* A message that has been read is the one whose turn it is.               *)
Receives == Len(received) < Len(sent) /\ received' = Append(received, Upcoming) /\ sent' = sent

LEMMA ReceivedKeeps ==
    ASSUME Inv, NEW n \in {0, 5}, Reads(n), n = 0 => Upcoming \in Signals,
           UNCHANGED <<sender, queue, writing, closed>>, Received(Upcoming),
           NEW why \in Stops \ {"IdxTooBig"}, Stop(why),
           terminated' \in BOOLEAN, terminated' <=> why \in {"terminated", "UnexpectedEof"},
           \A b \in buffers' : b.key[1] \in Procedures
    PROVE  Inv' /\ Receives
<1>1. /\ reader' \in [fields : Seq(Nat), stopped : Stops] /\ Length(reader'.fields) <= 5
      /\ reader'.fields = <<>> /\ reader'.stopped = why
  BY StopTypes
<1>2. sent' = sent /\ received' = Append(received, Upcoming)
  BY DEF sender, Received
<1>3. n \in 0 .. 5
  OBVIOUS
<1>4. Len(received) < Len(sent) /\ stream' \in Seq(Byte)
  BY <1>3, Arrived, Consumed
<1>5. received' \in Seq(Messages) /\ Transit' /\ TooBig'
  BY <1>1, <1>2, FinishKeeps
<1>6. Types'
  <2>1. Len(received') <= Len(sent)
    <3>1. received \in Seq(Messages) /\ sent \in Seq(Messages)
      BY DEF Inv, Types
    <3>2. Len(received') = Len(received) + 1
      BY <1>2, <3>1, AppendProperties, Arrived, <1>3
    <3> QED BY <1>4, <3>1, <3>2
  <2> QED BY <1>1, <1>4, <1>5, <2>1, ReaderTypes
<1> QED BY <1>2, <1>4, <1>5, <1>6 DEF Inv, Receives

LEMMA SignalKeeps ==
    ASSUME Inv, EndOfInput \/ Termination
    PROVE  Inv' /\ Receives
<1>0. Types /\ (reader.stopped = "no" => terminated = FALSE)
  BY DEF Inv, Types
<1>1. CASE EndOfInput
  <2>1. /\ Reads(0) /\ FromLeBytes(Taken) = 3 /\ Received([type |-> "end_of_input"]) /\ Stop("no")
        /\ UNCHANGED <<sender, queue, writing, closed, terminated, buffers, ran>>
    BY <1>1 DEF EndOfInput, ReadOn
  <2>2. Upcoming \in Signals /\ Upcoming = [type |-> "end_of_input"]
    BY <2>1, TypeRead
  <2>3. "no" \in Stops \ {"IdxTooBig"} /\ 0 \in {0, 5}
    BY DEF Stops
  <2>4. terminated' = FALSE /\ \A b \in buffers' : b.key[1] \in Procedures
    BY <1>0, <2>1, ReadsMeans DEF Types
  <2> QED BY <2>1, <2>2, <2>3, <2>4, ReceivedKeeps
<1>2. CASE Termination
  <2>1. /\ Reads(0) /\ FromLeBytes(Taken) = 0 /\ Received([type |-> "termination"])
        /\ Stop("terminated") /\ terminated' = TRUE
        /\ UNCHANGED <<sender, queue, writing, closed, buffers, ran>>
    BY <1>2 DEF Termination
  <2>2. Upcoming \in Signals /\ Upcoming = [type |-> "termination"]
    BY <2>1, TypeRead
  <2>3. "terminated" \in Stops \ {"IdxTooBig"} /\ 0 \in {0, 5}
    BY DEF Stops
  <2>4. \A b \in buffers' : b.key[1] \in Procedures
    BY <1>0, <2>1 DEF Types
  <2> QED BY <2>1, <2>2, <2>3, <2>4, ReceivedKeeps
<1> QED BY <1>1, <1>2

LEMMA MessageKeeps ==
    ASSUME Inv, ReadResponse \/ ReadPiece \/ ReadLastPiece
    PROVE  Inv' /\ Receives
<1>0. Types /\ (reader.stopped = "no" => terminated = FALSE)
  BY DEF Inv, Types
<1>1. Reads(5) /\ UNCHANGED <<sender, queue, writing, closed, terminated>>
  BY DEF ReadResponse, ReadPiece, ReadLastPiece
<1>2. terminated' = FALSE /\ 5 \in {0, 5} /\ 5 # 0
  BY <1>0, <1>1, ReadsMeans
<1>3. {"no", "Decode"} \subseteq Stops \ {"IdxTooBig"}
  BY DEF Stops
<1>4. \A b \in buffers : b.key[1] \in Procedures
  BY <1>0 DEF Types
<1>5. CASE ReadResponse
  <2>1. /\ reader.fields[1] = 2 /\ Received(Message("response")) /\ Stop("no") /\ buffers' = buffers
    BY <1>5 DEF ReadResponse, ReadOn
  <2>2. Received(Upcoming)
    BY <1>1, <2>1, MessageRead
  <2>3. \A b \in buffers' : b.key[1] \in Procedures
    BY <1>4, <2>1
  <2> QED BY <1>1, <1>2, <1>3, <2>1, <2>2, <2>3, ReceivedKeeps
<1>6. CASE ReadPiece
  <2>1. /\ reader.fields[1] = 1 /\ Received(Message("call")) /\ Stop("no")
        /\ buffers' = Others(Key) \cup {[key |-> Key, bytes |-> Accumulated(Message("call"))]}
    BY <1>6 DEF ReadPiece, ReadOn
  <2>2. Received(Upcoming) /\ Key[1] \in Procedures
    BY <1>1, <2>1, MessageRead
  <2>3. \A b \in buffers' : b.key[1] \in Procedures
    BY <1>4, <2>1, <2>2 DEF Others
  <2> QED BY <1>1, <1>2, <1>3, <2>1, <2>2, <2>3, ReceivedKeeps
<1>7. CASE ReadLastPiece
  <2>1. /\ reader.fields[1] = 1 /\ Received(Message("call"))
        /\ Stop("no") \/ Stop("Decode")
        /\ buffers' = Others(Key)
    BY <1>7 DEF ReadLastPiece, ReadOn
  <2>2. Received(Upcoming)
    BY <1>1, <2>1, MessageRead
  <2>3. \A b \in buffers' : b.key[1] \in Procedures
    BY <1>4, <2>1 DEF Others
  <2>4. PICK why \in Stops \ {"IdxTooBig"} : Stop(why) /\ why \notin {"terminated", "UnexpectedEof"}
    BY <1>3, <2>1
  <2> QED BY <1>1, <1>2, <2>2, <2>3, <2>4, ReceivedKeeps
<1> QED BY <1>5, <1>6, <1>7


-----------------------------------------------------------------------------
(* The invariant, and what follows from it.                                *)
LEMMA StepKeeps ==
    ASSUME Inv, [Next]_vars
    PROVE  Inv' /\ [Fifo!Next]_<<sent, received>>
<1>1. CASE \E c \in Calls : CallerStep(c)
  <2>1. PICK c \in Calls : CallerStep(c)
    BY <1>1
  <2>2. Inv' /\ Fifo!Send
    BY <2>1, StartKeeps, SendPieceKeeps DEF CallerStep
  <2> QED BY <2>2 DEF Fifo!Next
<1>2. CASE FollowScript
  BY <1>2, FollowScriptKeeps DEF Fifo!Next
<1>3. CASE WriterStep \/ Close
  BY <1>3, WriterKeeps
<1>4. CASE ReaderStep
  <2>1. CASE ReadField \/ IdxTooBig \/ UnexpectedEof
    BY <2>1, ReadFieldKeeps, IdxTooBigKeeps, UnexpectedEofKeeps
  <2>2. CASE EndOfInput \/ Termination \/ ReadResponse \/ ReadPiece \/ ReadLastPiece
    <3>1. Inv' /\ Receives
      BY <2>2, SignalKeeps, MessageKeeps
    <3>2. Fifo!Receive
      BY <3>1 DEF Fifo!Receive, Receives, Upcoming
    <3> QED BY <3>1, <3>2 DEF Fifo!Next
  <2> QED BY <1>4, <2>1, <2>2 DEF ReaderStep
<1>5. CASE UNCHANGED vars
  <2>1. UNCHANGED <<remote_call_counter, caller, scripted, sent, queue, writing, stream, closed,
                    reader, terminated, buffers, received, ran>>
    BY <1>5 DEF vars, sender, receiver
  <2>2. Keyed' = Keyed
    BY <2>1 DEF Keyed
  <2>3. Types'
    BY <2>1, <2>2 DEF Inv, Types, Pieces
  <2>4. Transit'
    <3>1. Bytes' = Bytes /\ Upcoming' = Upcoming
      BY <2>1 DEF Bytes, Upcoming
    <3>2. ASSUME NEW ends, Laid(ends) PROVE Laid(ends)'
      BY <2>1, <3>2 DEF Laid
    <3>3. ASSUME NEW ends, NEW last, NEW off, Written(ends, last, off)
          PROVE  Written(ends, last, off)'
      BY <2>1, <3>1, <3>3 DEF Written
    <3>4. ASSUME NEW ends, NEW last, NEW off, Queued(ends, last, off)
          PROVE  Queued(ends, last, off)'
      BY <2>1, <3>1, <3>4 DEF Queued
    <3>5. ASSUME NEW ends, NEW last, NEW off, ReadSoFar(ends, last, off)
          PROVE  ReadSoFar(ends, last, off)'
      BY <2>1, <3>1, <3>5 DEF ReadSoFar
    <3> QED BY <2>1, <3>2, <3>3, <3>4, <3>5 DEF Inv, Transit
  <2>5. TooBig'
    BY <2>1 DEF Inv, TooBig, Upcoming
  <2> QED BY <2>1, <2>3, <2>4, <2>5 DEF Inv
<1> QED BY <1>1, <1>2, <1>3, <1>4, <1>5 DEF Next

(* The invariant holds throughout: what is on its way is always the rest   *)
(* of the messages from where the reader is (Message::to_bytes,            *)
(* flush_partial, fill and receive_one).                                   *)
THEOREM Invariant == Spec => []Inv
<1>1. Inv /\ [Next]_vars => Inv'
  BY StepKeeps
<1> QED BY <1>1, InitInv, PTL DEF Spec

(* Every variable keeps its type: the stream carries bytes, and a reader   *)
(* that has stopped holds nothing of a message.                            *)
THEOREM TypeCorrect == Spec => []TypeOK
<1>1. Inv => TypeOK
  <2> SUFFICES ASSUME Inv PROVE TypeOK
    OBVIOUS
  <2>1. Types
    BY DEF Inv
  <2>2. \A c \in Calls : caller[c].pieces \in 0 .. Len(Pieces(c))
    BY <2>1, SomePieces DEF Types
  <2>3. /\ \A i \in DOMAIN stream : stream[i] \in 0 .. 255
        /\ \A i \in DOMAIN reader.fields : reader.fields[i] \in Nat
    <3>1. stream \in Seq(Byte) /\ reader.fields \in Seq(Nat)
      BY <2>1 DEF Types
    <3>2. DOMAIN stream = 1 .. Len(stream) /\ DOMAIN reader.fields = 1 .. Len(reader.fields)
      BY <3>1
    <3> QED BY <3>1, <3>2, ElementOfSeq DEF Byte
  <2>4. Len(reader.fields) <= 5
    BY <2>1 DEF Types, Length
  <2>5. /\ reader.stopped # "no" => reader.fields = <<>>
        /\ terminated <=> reader.stopped \in {"terminated", "UnexpectedEof"}
        /\ \A b \in buffers : b.key[1] \in Procedures
    BY <2>1 DEF Types
  <2> QED BY <2>2, <2>3, <2>4, <2>5 DEF TypeOK
<1> QED BY <1>1, Invariant, PTL

(* However the bytes are cut into segments, whatever sizes the indices     *)
(* take and wherever the sending program disappears, the messages that     *)
(* arrive are those that were sent, whole, once and in order               *)
(* (Message::to_bytes and receive_one).                                    *)
THEOREM Refinement == Spec => RefinesFifo
<1>1. Init => Fifo!Init
  BY DEF Init, Fifo!Init
<1>2. Inv /\ [Next]_vars => [Fifo!Next]_<<sent, received>>
  BY StepKeeps
<1> QED BY <1>1, <1>2, Invariant, PTL DEF Spec, RefinesFifo, Fifo!Spec

(* A reader gives up on an index only if the other side sent one that its  *)
(* integers cannot hold: it takes no other bytes for an index (receive_one *)
(* and Error::IdxTooBig).                                                  *)
THEOREM IndexGivenUpRightly == Spec => []TooBigRightly
<1>1. Inv => TooBigRightly
  BY DEF Inv, TooBig, TooBigRightly, Upcoming
<1> QED BY <1>1, Invariant, PTL

-----------------------------------------------------------------------------
(* What procedures are given.  The pieces of a call and what they come to. *)
Given(c) == Unpack(IntoBytes(Arguments[c]), Arity[Procedure[c]])

Gathered(c, k) ==
    CASE k = 0 -> <<>>
      [] k = 1 -> Pieces(c)[1].body
      [] k = 2 -> Join(Pieces(c)[1].body, Pieces(c)[2].body)
      [] k = 3 -> Join(Join(Pieces(c)[1].body, Pieces(c)[2].body), Pieces(c)[3].body)

LEMMA JoinedEmpty ==
    ASSUME NEW S, NEW s \in Seq(S)
    PROVE  Join(s, <<>>) = s /\ Join(<<>>, s) = s
BY ConcatEmptySeq DEF Join

LEMMA Rejoined ==
    ASSUME NEW S, NEW s \in Seq(S), NEW n \in 0 .. Length(s)
    PROVE  Join(SubSeq(s, 1, n), SubSeq(s, n + 1, Length(s))) = s
<1> DEFINE a == SubSeq(s, 1, n)
           b == SubSeq(s, n + 1, Length(s))
<1>0. Length(s) \in Nat
  BY DEF Length
<1>1. a \in Seq(S) /\ Length(a) = n /\ \A i \in 1 .. n : a[i] = s[i]
  BY Kept
<1>2. b \in Seq(S) /\ Length(b) = Length(s) - n /\ \A i \in 1 .. Length(b) : b[i] = s[n + i]
  BY CutOff
<1> HIDE DEF a, b
<1>3. Join(a, b) \in Seq(S) /\ Length(Join(a, b)) = Length(s)
  BY <1>0, <1>1, <1>2, Joined
<1>4. ASSUME NEW i \in 1 .. Length(s) PROVE Join(a, b)[i] = s[i]
  <2>1. CASE i <= n
    <3>1. i \in 1 .. Length(a)
      BY <1>1, <2>1
    <3>2. Join(a, b)[i] = a[i]
      BY <1>1, <1>2, <3>1, JoinedLeft
    <3> QED BY <1>1, <3>1, <3>2
  <2>2. CASE i > n
    <3> DEFINE j == i - n
    <3>1. j \in 1 .. Length(b) /\ i = Length(a) + j /\ i = n + j
      BY <1>0, <1>1, <1>2, <2>2
    <3> HIDE DEF j
    <3>2. Join(a, b)[Length(a) + j] = b[j]
      BY <1>1, <1>2, <3>1, JoinedRight
    <3> QED BY <1>2, <3>1, <3>2
  <2> QED BY <1>0, <2>1, <2>2
<1>5. Join(a, b) = s
  BY <1>3, <1>4, SeqEqual DEF Length
<1> QED BY <1>5 DEF a, b

(* The pieces of a call come to the bytes of its arguments, and the last   *)
(* is the one that says so.                                                *)
LEMMA PiecesWhole ==
    ASSUME NEW c \in Calls
    PROVE  /\ Len(Pieces(c)) \in 1 .. 3
           /\ \A i \in 1 .. Len(Pieces(c)) :
                /\ Pieces(c)[i].body \in Seq(Byte)
                /\ Pieces(c)[i].terminator = "complete" <=> i = Len(Pieces(c))
           /\ Gathered(c, Len(Pieces(c))) = IntoBytes(Arguments[c])
<1> DEFINE bytes == IntoBytes(Arguments[c])
           first == SubSeq(bytes, 1, Cut[c])
           rest == SubSeq(bytes, Cut[c] + 1, Len(bytes))
           piece(body, terminator) == [body |-> body, terminator |-> terminator]
           p == Pieces(c)
<1>1. bytes \in Seq(Byte) /\ Cut[c] \in 0 .. Length(bytes) /\ Len(bytes) = Length(bytes)
  BY CutAssumption DEF Bodies, Byte, Length
<1>2. rest = SubSeq(bytes, Cut[c] + 1, Length(bytes))
  BY <1>1
<1> HIDE DEF bytes
<1>3. first \in Seq(Byte) /\ rest \in Seq(Byte) /\ Join(first, rest) = bytes
  BY <1>1, <1>2, Kept, CutOff, Rejoined
<1>4. /\ Cut[c] = 0 => p = <<piece(bytes, "complete")>>
      /\ Cut[c] # 0 /\ Cut[c] = Len(bytes) => p = <<piece(bytes, "none"), piece(<<>>, "complete")>>
      /\ Cut[c] # 0 /\ Cut[c] # Len(bytes) =>
           p = <<piece(first, "none"), piece(rest, "none"), piece(<<>>, "complete")>>
  BY DEF Pieces, bytes
<1> HIDE DEF first, rest
<1>5. <<>> \in Seq(Byte)
  OBVIOUS
<1>6. CASE Cut[c] = 0
  <2>1. /\ Len(p) = 1 /\ p[1].body = bytes /\ p[1].terminator = "complete"
    BY <1>4, <1>6
  <2> HIDE DEF p
  <2>2. Gathered(c, 1) = bytes
    BY <2>1 DEF Gathered, p
  <2> QED BY <1>1, <2>1, <2>2 DEF p, bytes
<1>7. CASE Cut[c] # 0 /\ Cut[c] = Len(bytes)
  <2>1. /\ Len(p) = 2 /\ p[1].body = bytes /\ p[1].terminator = "none"
        /\ p[2].body = <<>> /\ p[2].terminator = "complete"
    BY <1>4, <1>7
  <2> HIDE DEF p
  <2>2. Gathered(c, 2) = Join(bytes, <<>>)
    BY <2>1 DEF Gathered, p
  <2>3. Gathered(c, 2) = bytes
    BY <1>1, <2>2, JoinedEmpty
  <2>4. ASSUME NEW i \in 1 .. Len(p)
        PROVE  p[i].body \in Seq(Byte) /\ (p[i].terminator = "complete" <=> i = Len(p))
    <3>1. i = 1 \/ i = 2
      BY <2>1
    <3> QED BY <1>1, <1>5, <2>1, <3>1
  <2> QED BY <2>1, <2>3, <2>4 DEF p, bytes
<1>8. CASE Cut[c] # 0 /\ Cut[c] # Len(bytes)
  <2>1. /\ Len(p) = 3 /\ p[1].body = first /\ p[1].terminator = "none"
        /\ p[2].body = rest /\ p[2].terminator = "none"
        /\ p[3].body = <<>> /\ p[3].terminator = "complete"
    BY <1>4, <1>8
  <2> HIDE DEF p
  <2>2. Gathered(c, 3) = Join(Join(first, rest), <<>>)
    BY <2>1 DEF Gathered, p
  <2>3. Gathered(c, 3) = bytes
    BY <1>1, <1>3, <2>2, JoinedEmpty
  <2>4. ASSUME NEW i \in 1 .. Len(p)
        PROVE  p[i].body \in Seq(Byte) /\ (p[i].terminator = "complete" <=> i = Len(p))
    <3>1. i = 1 \/ i = 2 \/ i = 3
      BY <2>1
    <3> QED BY <1>3, <1>5, <2>1, <3>1
  <2> QED BY <2>1, <2>3, <2>4 DEF p, bytes
<1> QED BY <1>6, <1>7, <1>8

LEMMA GatheredMore ==
    ASSUME NEW c \in Calls, NEW i \in 1 .. Len(Pieces(c))
    PROVE  Gathered(c, i) = Join(Gathered(c, i - 1), Pieces(c)[i].body)
<1>1. Len(Pieces(c)) \in 1 .. 3 /\ Pieces(c)[i].body \in Seq(Byte)
  BY PiecesWhole
<1>2. i = 1 \/ i = 2 \/ i = 3
  BY <1>1
<1>3. CASE i = 1
  <2>1. Gathered(c, 0) = <<>> /\ Gathered(c, 1) = Pieces(c)[1].body
    BY DEF Gathered
  <2>2. i - 1 = 0
    BY <1>3
  <2> QED BY <1>1, <1>3, <2>1, <2>2, JoinedEmpty
<1>4. CASE i = 2
  <2>1. i - 1 = 1
    BY <1>4
  <2> QED BY <1>4, <2>1 DEF Gathered
<1>5. CASE i = 3
  <2>1. i - 1 = 2
    BY <1>5
  <2> QED BY <1>5, <2>1 DEF Gathered
<1> QED BY <1>2, <1>3, <1>4, <1>5

(* Calls have different keys; the pieces of each are queued in their order,*)
(* the i-th of call c as the at[c][i]-th of all messages ...               *)
Keyings ==
    /\ \A c \in Calls : caller[c].key = None <=> caller[c].pieces = 0
    /\ \A c \in Calls : caller[c].pieces > 0 =>
         /\ caller[c].key[1] = Procedure[c]
         /\ caller[c].key[2] <= remote_call_counter[Procedure[c]]
    /\ \A c, d \in Calls :
         caller[c].pieces > 0 /\ caller[d].pieces > 0 /\ caller[c].key = caller[d].key => c = d

Placed(at) ==
    /\ at \in [Calls -> [1 .. 3 -> Nat]]
    /\ \A c \in Calls : \A i \in 1 .. caller[c].pieces :
         /\ at[c][i] \in 1 .. Len(sent)
         /\ sent[at[c][i]] = CallMessage(caller[c].key, Pieces(c)[i])
         /\ \A j \in 1 .. i - 1 : at[c][j] < at[c][i]
         /\ \A d \in Calls \ {c} : \A j \in 1 .. caller[d].pieces : at[d][j] # at[c][i]
    /\ \A n \in 1 .. Len(sent) : sent[n].type = "call" =>
         \E c \in Calls : \E i \in 1 .. caller[c].pieces : at[c][i] = n

(* ... the first got[c] of them have been received, and are in a buffer if *)
(* they are not all ...                                                    *)
Gotten(at, got) ==
    /\ got \in [Calls -> 0 .. 3]
    /\ \A c \in Calls :
         /\ got[c] <= caller[c].pieces
         /\ \A i \in 1 .. caller[c].pieces : at[c][i] <= Len(received) <=> i <= got[c]

Halfway(got) == {c \in Calls : 0 < got[c] /\ got[c] < Len(Pieces(c))}
Collected(got) ==
    buffers = {[key |-> caller[c].key, bytes |-> Gathered(c, got[c])] : c \in Halfway(got)}

(* ... and what has run, or made the reader give up, is one of those that  *)
(* have been received to the last.                                         *)
AllGotten(got) == {c \in Calls : got[c] = Len(Pieces(c))}
Ran(got) ==
    /\ ran \in Seq([key : Procedures \X Indices, arguments : {Given(c) : c \in Calls}])
    /\ \A i \in 1 .. Len(ran) : \E c \in AllGotten(got) :
         /\ ran[i].key = caller[c].key /\ ran[i].arguments = Given(c)
         /\ Len(Given(c)) = Arity[Procedure[c]]
    /\ \A i, j \in 1 .. Len(ran) : ran[i].key = ran[j].key => i = j

Undone(got) ==
    reader.stopped = "Decode" =>
      \E c \in AllGotten(got) : /\ caller[c].key = Last(received).key
                                /\ Len(Given(c)) # Arity[Procedure[c]]

Following(at, got) == Placed(at) /\ Gotten(at, got) /\ Collected(got) /\ Ran(got) /\ Undone(got)
CallsInv == Keyings /\ \E at, got : Following(at, got)

LEMMA InitCalls == Init => CallsInv
<1> SUFFICES ASSUME Init PROVE CallsInv
  OBVIOUS
<1>1. /\ caller = [c \in Calls |-> [key |-> None, pieces |-> 0]] /\ sent = <<>> /\ received = <<>>
      /\ buffers = {} /\ ran = <<>> /\ reader = [fields |-> <<>>, stopped |-> "no"]
  BY DEF Init
<1>2. \A c \in Calls : caller[c].pieces = 0 /\ caller[c].key = None
  BY <1>1
<1>3. Keyings
  BY <1>2 DEF Keyings
<1>4. PICK at, got : at = [c \in Calls |-> [i \in 1 .. 3 |-> 0]] /\ got = [c \in Calls |-> 0]
  OBVIOUS
<1>5. Len(sent) = 0 /\ Len(ran) = 0
  BY <1>1
<1>6. Placed(at)
  BY <1>2, <1>4, <1>5 DEF Placed
<1>7. Gotten(at, got)
  BY <1>2, <1>4 DEF Gotten
<1>8. Halfway(got) = {}
  BY <1>4 DEF Halfway
<1>9. Collected(got)
  BY <1>1, <1>8 DEF Collected
<1>10. Ran(got)
  BY <1>1, <1>5 DEF Ran
<1>11. Undone(got)
  BY <1>1 DEF Undone
<1> QED BY <1>3, <1>6, <1>7, <1>9, <1>10, <1>11 DEF CallsInv, Following

(* Steps that neither send nor receive a message.                          *)
LEMMA CallsStay ==
    ASSUME CallsInv, UNCHANGED <<remote_call_counter, caller, sent, received, buffers, ran>>,
           reader' = reader \/ reader'.stopped # "Decode"
    PROVE  CallsInv'
<1>1. PICK at, got : Following(at, got)
  BY DEF CallsInv
<1>2. Keyings'
  BY DEF CallsInv, Keyings
<1>3. Placed(at)'
  BY <1>1 DEF Following, Placed
<1>4. Gotten(at, got)'
  BY <1>1 DEF Following, Gotten
<1>5. Halfway(got)' = Halfway(got)
  BY DEF Halfway, Pieces
<1>6. Collected(got)'
  BY <1>1, <1>5 DEF Following, Collected
<1>7. AllGotten(got)' = AllGotten(got)
  BY DEF AllGotten
<1>8. Ran(got)'
  BY <1>1, <1>7 DEF Following, Ran
<1>9. Undone(got)'
  BY <1>1, <1>7 DEF Following, Undone
<1> QED BY <1>2, <1>3, <1>4, <1>6, <1>8, <1>9 DEF CallsInv, Following

(* A message that is no call takes the next place.                         *)
LEMMA OtherSent ==
    ASSUME Inv, CallsInv, NEW message \in Messages, Push(message), message.type # "call",
           UNCHANGED <<remote_call_counter, caller, writing, stream, closed, receiver>>
    PROVE  CallsInv'
<1>1. PICK at, got : Following(at, got)
  BY DEF CallsInv
<1>2. /\ Len(sent') = Len(sent) + 1 /\ sent'[Len(sent) + 1] = message
      /\ \A i \in 1 .. Len(sent) : sent'[i] = sent[i]
  BY PushKeeps
<1>3. Len(sent) \in Nat
  BY DEF Inv, Types
<1>4. reader' = reader /\ received' = received /\ buffers' = buffers /\ ran' = ran
  BY DEF receiver
<1>5. Keyings'
  BY DEF CallsInv, Keyings
<1>6. Placed(at)'
  <2>1. ASSUME NEW c \in Calls, NEW i \in 1 .. caller'[c].pieces
        PROVE  /\ at[c][i] \in 1 .. Len(sent')
               /\ sent'[at[c][i]] = CallMessage(caller'[c].key, Pieces(c)[i])
               /\ \A j \in 1 .. i - 1 : at[c][j] < at[c][i]
               /\ \A d \in Calls \ {c} : \A j \in 1 .. caller'[d].pieces : at[d][j] # at[c][i]
    <3>1. /\ at[c][i] \in 1 .. Len(sent)
          /\ sent[at[c][i]] = CallMessage(caller[c].key, Pieces(c)[i])
          /\ \A j \in 1 .. i - 1 : at[c][j] < at[c][i]
          /\ \A d \in Calls \ {c} : \A j \in 1 .. caller[d].pieces : at[d][j] # at[c][i]
      BY <1>1 DEF Following, Placed
    <3> QED BY <1>2, <1>3, <3>1
  <2>2. ASSUME NEW n \in 1 .. Len(sent'), sent'[n].type = "call"
        PROVE  \E c \in Calls : \E i \in 1 .. caller'[c].pieces : at[c][i] = n
    <3>1. n \in 1 .. Len(sent) \/ n = Len(sent) + 1
      BY <1>2, <1>3
    <3>2. n \in 1 .. Len(sent) /\ sent[n].type = "call"
      BY <1>2, <2>2, <3>1
    <3> QED BY <1>1, <3>2 DEF Following, Placed
  <2> QED BY <1>1, <2>1, <2>2 DEF Following, Placed, Pieces
<1>7. Gotten(at, got)'
  BY <1>1, <1>4 DEF Following, Gotten
<1>8. Halfway(got)' = Halfway(got) /\ AllGotten(got)' = AllGotten(got)
  BY DEF Halfway, AllGotten, Pieces
<1>9. Collected(got)' /\ Ran(got)' /\ Undone(got)'
  BY <1>1, <1>4, <1>8 DEF Following, Collected, Ran, Undone
<1> QED BY <1>5, <1>6, <1>7, <1>9 DEF CallsInv, Following

(* So does a call's next piece.                                            *)
LEMMA PieceSent ==
    ASSUME Inv, CallsInv, NEW c \in Calls, NEW i \in 1 .. Len(Pieces(c)),
           caller[c].pieces = i - 1, NEW key \in Procedures \X Indices,
           i > 1 => key = caller[c].key,
           caller' = [caller EXCEPT ![c] = [key |-> key, pieces |-> i]],
           Push(CallMessage(key, Pieces(c)[i])),
           UNCHANGED <<writing, stream, closed, receiver>>
    PROVE  \E at, got : Following(at, got)'
<1>1. PICK at, got : Following(at, got)
  BY DEF CallsInv
<1> DEFINE m == CallMessage(key, Pieces(c)[i])
<1>2. /\ Len(sent') = Len(sent) + 1 /\ sent'[Len(sent) + 1] = m
      /\ \A n \in 1 .. Len(sent) : sent'[n] = sent[n]
  <2>1. m \in Messages
    BY PiecesAreMessages
  <2> HIDE DEF m
  <2> QED BY <2>1, PushKeeps DEF m
<1> HIDE DEF m
<1>3. /\ Len(sent) \in Nat /\ Len(received) \in Nat /\ Len(received) <= Len(sent)
      /\ caller \in [Calls -> [key : (Procedures \X Indices) \cup {None}, pieces : Nat]]
  BY DEF Inv, Types
<1>4. reader' = reader /\ received' = received /\ buffers' = buffers /\ ran' = ran
  BY DEF receiver
<1>5. i \in 1 .. 3
  BY PiecesWhole
<1>6. caller'[c].key = key /\ caller'[c].pieces = i
      /\ \A d \in Calls \ {c} : caller'[d] = caller[d]
  BY <1>3
<1>7. \A d \in Calls : caller[d].pieces > 0 => caller'[d].key = caller[d].key
  <2> TAKE d \in Calls
  <2>1. CASE d = c
    <3>1. caller[d].pieces > 0 => i > 1
      BY <1>5, <2>1
    <3> QED BY <1>6, <2>1, <3>1
  <2>2. CASE d # c
    BY <1>6, <2>2
  <2> QED BY <2>1, <2>2
<1>8. /\ at \in [Calls -> [1 .. 3 -> Nat]]
      /\ \A d \in Calls : \A j \in 1 .. caller[d].pieces :
           /\ at[d][j] \in 1 .. Len(sent)
           /\ sent[at[d][j]] = CallMessage(caller[d].key, Pieces(d)[j])
           /\ \A h \in 1 .. j - 1 : at[d][h] < at[d][j]
           /\ \A e \in Calls \ {d} : \A h \in 1 .. caller[e].pieces : at[e][h] # at[d][j]
      /\ \A n \in 1 .. Len(sent) : sent[n].type = "call" =>
           \E d \in Calls : \E j \in 1 .. caller[d].pieces : at[d][j] = n
  BY <1>1 DEF Following, Placed
<1>9. PICK new : new = [at EXCEPT ![c] = [@ EXCEPT ![i] = Len(sent) + 1]]
  OBVIOUS
<1>10. new \in [Calls -> [1 .. 3 -> Nat]]
  BY SMTT(30), <1>3, <1>5, <1>8, <1>9
<1>11. /\ new[c][i] = Len(sent) + 1 /\ \A d \in Calls \ {c} : new[d] = at[d]
       /\ \A j \in 1 .. 3 : j # i => new[c][j] = at[c][j]
  BY <1>5, <1>8, <1>9
(* An old piece stays where it was.                                        *)
<1>12. ASSUME NEW d \in Calls, NEW j \in 1 .. caller'[d].pieces
       PROVE  \/ d = c /\ j = i
              \/ j \in 1 .. caller[d].pieces /\ new[d][j] = at[d][j]
  <2>1. CASE d = c
    <3>1. j \in 1 .. i
      BY <1>6, <2>1
    <3>2. j = i \/ (j \in 1 .. i - 1 /\ j \in 1 .. 3 /\ j # i)
      BY <1>5, <3>1
    <3> QED BY <1>11, <2>1, <3>2
  <2>2. CASE d # c
    BY <1>6, <1>11, <2>2
  <2> QED BY <2>1, <2>2
<1>13. ASSUME NEW d \in Calls, NEW j \in 1 .. caller[d].pieces
       PROVE  new[d][j] = at[d][j] /\ j \in 1 .. caller'[d].pieces
  <2>1. CASE d = c
    <3>1. j \in 1 .. i - 1
      BY <2>1
    <3>2. j \in 1 .. i /\ j \in 1 .. 3 /\ j # i
      BY <1>5, <3>1
    <3> QED BY <1>6, <1>11, <2>1, <3>2
  <2>2. CASE d # c
    BY <1>6, <1>11, <2>2
  <2> QED BY <2>1, <2>2
<1>14. Placed(new)'
  <2>1. ASSUME NEW d \in Calls, NEW j \in 1 .. caller'[d].pieces
        PROVE  /\ new[d][j] \in 1 .. Len(sent')
               /\ sent'[new[d][j]] = CallMessage(caller'[d].key, Pieces(d)[j])
               /\ \A h \in 1 .. j - 1 : new[d][h] < new[d][j]
               /\ \A e \in Calls \ {d} : \A h \in 1 .. caller'[e].pieces : new[e][h] # new[d][j]
    <3>1. CASE d = c /\ j = i
      <4>1. new[d][j] \in 1 .. Len(sent') /\ new[d][j] = Len(sent) + 1
        BY <1>2, <1>3, <1>11, <3>1
      <4>2. sent'[new[d][j]] = CallMessage(caller'[d].key, Pieces(d)[j])
        BY <1>2, <1>6, <3>1, <4>1 DEF m
      <4>3. ASSUME NEW h \in 1 .. j - 1 PROVE new[d][h] < new[d][j]
        <5>1. h \in 1 .. caller[c].pieces
          BY <3>1
        <5>2. new[c][h] \in 1 .. Len(sent)
          BY SMTT(30), <1>8, <1>13, <5>1
        <5> QED BY <1>3, <3>1, <4>1, <5>2
      <4>4. ASSUME NEW e \in Calls \ {d}, NEW h \in 1 .. caller'[e].pieces
            PROVE  new[e][h] # new[d][j]
        <5>1. new[e][h] \in 1 .. Len(sent)
          BY <1>8, <1>12, <3>1
        <5> QED BY <1>3, <4>1, <5>1
      <4> QED BY <4>1, <4>2, <4>3, <4>4
    <3>2. CASE ~(d = c /\ j = i)
      <4>1. j \in 1 .. caller[d].pieces /\ new[d][j] = at[d][j]
        BY <1>12, <3>2
      <4>2. /\ at[d][j] \in 1 .. Len(sent)
            /\ sent[at[d][j]] = CallMessage(caller[d].key, Pieces(d)[j])
            /\ \A h \in 1 .. j - 1 : at[d][h] < at[d][j]
            /\ \A e \in Calls \ {d} : \A h \in 1 .. caller[e].pieces : at[e][h] # at[d][j]
        BY <1>8, <4>1
      <4>3. new[d][j] \in 1 .. Len(sent')
        BY <1>2, <1>3, <4>1, <4>2
      <4>4. caller[d].pieces > 0
        BY <1>3, <4>1
      <4>5. sent'[new[d][j]] = CallMessage(caller'[d].key, Pieces(d)[j])
        BY <1>2, <1>7, <4>1, <4>2, <4>4
      <4>6. ASSUME NEW h \in 1 .. j - 1 PROVE new[d][h] < new[d][j]
        <5>1. caller[d].pieces \in Nat
          BY <1>3
        <5>2. h \in 1 .. caller[d].pieces
          BY <4>1, <5>1
        <5>3. new[d][h] = at[d][h]
          BY <1>13, <5>2
        <5> QED BY <4>1, <4>2, <5>3
      <4>7. ASSUME NEW e \in Calls \ {d}, NEW h \in 1 .. caller'[e].pieces
            PROVE  new[e][h] # new[d][j]
        <5>1. CASE e = c /\ h = i
          BY <1>3, <1>11, <4>1, <4>2, <5>1
        <5>2. CASE ~(e = c /\ h = i)
          <6>1. h \in 1 .. caller[e].pieces /\ new[e][h] = at[e][h]
            BY <1>12, <5>2
          <6> QED BY <4>1, <4>2, <6>1
        <5> QED BY <5>1, <5>2
      <4> QED BY <4>3, <4>5, <4>6, <4>7
    <3> QED BY <3>1, <3>2
  <2>2. ASSUME NEW n \in 1 .. Len(sent'), sent'[n].type = "call"
        PROVE  \E d \in Calls : \E j \in 1 .. caller'[d].pieces : new[d][j] = n
    <3>1. n \in 1 .. Len(sent) \/ n = Len(sent) + 1
      BY <1>2, <1>3
    <3>2. CASE n \in 1 .. Len(sent)
      <4>1. sent[n].type = "call"
        BY <1>2, <2>2, <3>2
      <4>2. PICK d \in Calls : \E j \in 1 .. caller[d].pieces : at[d][j] = n
        BY <1>8, <3>2, <4>1
      <4>3. PICK j \in 1 .. caller[d].pieces : at[d][j] = n
        BY <4>2
      <4>4. new[d][j] = n /\ j \in 1 .. caller'[d].pieces
        BY <1>13, <4>3
      <4> QED BY <4>4
    <3>3. CASE n = Len(sent) + 1
      <4>1. i \in 1 .. caller'[c].pieces /\ new[c][i] = n
        BY <1>5, <1>6, <1>11, <3>3
      <4> QED BY <4>1
    <3> QED BY <3>1, <3>2, <3>3
  <2> QED BY <1>10, <2>1, <2>2 DEF Placed, Pieces
<1>15. /\ got \in [Calls -> 0 .. 3]
       /\ \A d \in Calls :
            /\ got[d] <= caller[d].pieces
            /\ \A j \in 1 .. caller[d].pieces : at[d][j] <= Len(received) <=> j <= got[d]
  BY <1>1 DEF Following, Gotten
<1>16. Gotten(new, got)'
  <2>1. ASSUME NEW d \in Calls
        PROVE  /\ got[d] <= caller'[d].pieces
               /\ \A j \in 1 .. caller'[d].pieces : new[d][j] <= Len(received) <=> j <= got[d]
    <3>1. got[d] \in Nat /\ got[d] <= caller[d].pieces /\ caller[d].pieces \in Nat
      BY <1>3, <1>15
    <3>2. got[d] <= caller'[d].pieces
      <4>1. CASE d = c
        BY <1>5, <1>6, <3>1, <4>1
      <4>2. CASE d # c
        BY <1>6, <3>1, <4>2
      <4> QED BY <4>1, <4>2
    <3>3. \A j \in 1 .. caller'[d].pieces : new[d][j] <= Len(received) <=> j <= got[d]
      <4> TAKE j \in 1 .. caller'[d].pieces
      <4>1. CASE d = c /\ j = i
        <5>1. ~(new[d][j] <= Len(received))
          BY <1>3, <1>11, <4>1
        <5>2. ~(j <= got[d])
          BY <1>5, <3>1, <4>1
        <5> QED BY <5>1, <5>2
      <4>2. CASE ~(d = c /\ j = i)
        BY <1>12, <1>15, <4>2
      <4> QED BY <4>1, <4>2
    <3> QED BY <3>2, <3>3
  <2> QED BY <1>4, <1>15, <2>1 DEF Gotten
<1>17. \A d \in Calls : got[d] > 0 => caller'[d].key = caller[d].key
  <2> TAKE d \in Calls
  <2>1. got[d] \in Nat /\ got[d] <= caller[d].pieces /\ caller[d].pieces \in Nat
    BY <1>3, <1>15
  <2> QED BY <1>7, <2>1
<1>18. Halfway(got)' = Halfway(got) /\ \A d \in Halfway(got) : d \in Calls /\ got[d] > 0
  BY <1>15 DEF Halfway, Pieces
<1>19. AllGotten(got)' = AllGotten(got) /\ \A d \in AllGotten(got) : d \in Calls /\ got[d] > 0
  <2>1. ASSUME NEW d \in AllGotten(got) PROVE d \in Calls /\ got[d] > 0
    <3>1. d \in Calls /\ got[d] = Len(Pieces(d))
      BY DEF AllGotten
    <3>2. Len(Pieces(d)) \in 1 .. 3
      BY <3>1, PiecesWhole
    <3>3. got[d] \in 1 .. 3
      BY <3>1, <3>2
    <3>4. got[d] > 0
      BY <3>3
    <3> QED BY <3>1, <3>4
  <2> QED BY <2>1 DEF AllGotten, Pieces
<1>20. Collected(got)'
  <2>1. buffers = {[key |-> caller[d].key, bytes |-> Gathered(d, got[d])] : d \in Halfway(got)}
    BY <1>1 DEF Following, Collected
  <2>2. \A d \in Halfway(got) : caller'[d].key = caller[d].key
    BY <1>17, <1>18
  <2>3. buffers = {[key |-> caller'[d].key, bytes |-> Gathered(d, got[d])] : d \in Halfway(got)}
    BY <2>1, <2>2
  <2> QED BY <1>4, <1>18, <2>3 DEF Collected, Gathered, Pieces
<1>21. \A d \in AllGotten(got) : caller'[d].key = caller[d].key
  BY <1>17, <1>19
<1>22. Ran(got)' /\ Undone(got)'
  <2>1. /\ ran \in Seq([key : Procedures \X Indices, arguments : {Given(d) : d \in Calls}])
        /\ \A n \in 1 .. Len(ran) : \E d \in AllGotten(got) :
             /\ ran[n].key = caller[d].key /\ ran[n].arguments = Given(d)
             /\ Len(Given(d)) = Arity[Procedure[d]]
        /\ \A n, o \in 1 .. Len(ran) : ran[n].key = ran[o].key => n = o
    BY <1>1 DEF Following, Ran
  <2>2. \A n \in 1 .. Len(ran) : \E d \in AllGotten(got) :
             /\ ran[n].key = caller'[d].key /\ ran[n].arguments = Given(d)
             /\ Len(Given(d)) = Arity[Procedure[d]]
    <3> TAKE n \in 1 .. Len(ran)
    <3>1. PICK d \in AllGotten(got) : /\ ran[n].key = caller[d].key /\ ran[n].arguments = Given(d)
                                      /\ Len(Given(d)) = Arity[Procedure[d]]
      BY <2>1
    <3>2. caller'[d].key = caller[d].key
      BY <1>21
    <3> QED BY <3>1, <3>2
  <2>3. Ran(got)'
    BY <1>4, <1>19, <2>1, <2>2 DEF Ran
  <2>4. reader.stopped = "Decode" =>
          \E d \in AllGotten(got) : /\ caller[d].key = Last(received).key
                                    /\ Len(Given(d)) # Arity[Procedure[d]]
    BY <1>1 DEF Following, Undone
  <2>5. Undone(got)'
    BY <1>4, <1>19, <1>21, <2>4 DEF Undone
  <2> QED BY <2>3, <2>5
<1> QED BY <1>14, <1>16, <1>20, <1>22 DEF Following

(* A message that is no call changes nothing for those that are.           *)
LEMMA OtherReceived ==
    ASSUME Inv, CallsInv, Receives, Upcoming.type # "call",
           UNCHANGED <<remote_call_counter, caller, buffers, ran>>,
           reader'.stopped # "Decode"
    PROVE  CallsInv'
<1>1. PICK at, got : Following(at, got)
  BY DEF CallsInv
<1>2. /\ sent' = sent /\ received' = Append(received, Upcoming) /\ Len(received) < Len(sent)
  BY DEF Receives
<1>3. Len(received) \in Nat /\ Len(received') = Len(received) + 1
  <2>1. received \in Seq(Messages)
    BY DEF Inv, Types
  <2> QED BY <1>2, <2>1
<1>4. Keyings'
  BY DEF CallsInv, Keyings
<1>5. Placed(at)'
  BY <1>1, <1>2 DEF Following, Placed
<1>6. ASSUME NEW c \in Calls, NEW i \in 1 .. caller[c].pieces
      PROVE  at[c][i] <= Len(received') <=> at[c][i] <= Len(received)
  <2>1. at[c][i] \in 1 .. Len(sent) /\ sent[at[c][i]] = CallMessage(caller[c].key, Pieces(c)[i])
    BY <1>1 DEF Following, Placed
  <2>2. sent[at[c][i]].type = "call"
    BY <2>1 DEF CallMessage
  <2>3. at[c][i] # Len(received) + 1
    BY <2>2 DEF Upcoming
  <2>4. at[c][i] \in Nat
    BY <2>1
  <2> QED BY <1>3, <2>3, <2>4
<1>7. Gotten(at, got)'
  <2>1. /\ got \in [Calls -> 0 .. 3]
        /\ \A c \in Calls :
             /\ got[c] <= caller[c].pieces
             /\ \A i \in 1 .. caller[c].pieces : at[c][i] <= Len(received) <=> i <= got[c]
    BY <1>1 DEF Following, Gotten
  <2>2. \A c \in Calls : \A i \in 1 .. caller[c].pieces : at[c][i] <= Len(received') <=> i <= got[c]
    BY <1>6, <2>1
  <2> QED BY <2>1, <2>2 DEF Gotten
<1>8. Halfway(got)' = Halfway(got) /\ AllGotten(got)' = AllGotten(got)
  BY DEF Halfway, AllGotten, Pieces
<1>9. Collected(got)' /\ Ran(got)' /\ Undone(got)'
  BY <1>1, <1>8 DEF Following, Collected, Ran, Undone
<1> QED BY <1>4, <1>5, <1>7, <1>9 DEF CallsInv, Following

(* A piece of a call that is received is the next one of that call.        *)
LEMMA PieceDue ==
    ASSUME Inv, CallsInv, NEW at, NEW got, Following(at, got),
           Len(received) < Len(sent), Upcoming.type = "call"
    PROVE  \E c \in Calls :
             /\ got[c] + 1 \in 1 .. caller[c].pieces /\ got[c] + 1 \in 1 .. Len(Pieces(c))
             /\ at[c][got[c] + 1] = Len(received) + 1
             /\ Upcoming = CallMessage(caller[c].key, Pieces(c)[got[c] + 1])
<1> DEFINE r == Len(received)
<1>1. r \in Nat /\ Len(sent) \in Nat /\ r + 1 \in 1 .. Len(sent)
  <2>1. received \in Seq(Messages) /\ sent \in Seq(Messages)
    BY DEF Inv, Types
  <2> QED BY <2>1
<1>2. PICK c \in Calls : \E i \in 1 .. caller[c].pieces : at[c][i] = r + 1
  BY <1>1 DEF Following, Placed, Upcoming
<1>3. PICK i \in 1 .. caller[c].pieces : at[c][i] = r + 1
  BY <1>2
<1>4. /\ got[c] \in 0 .. 3 /\ got[c] <= caller[c].pieces
      /\ \A j \in 1 .. caller[c].pieces : at[c][j] <= r <=> j <= got[c]
  BY DEF Following, Gotten
<1>5. caller[c].pieces \in Nat /\ caller[c].pieces <= Len(Pieces(c)) /\ Len(Pieces(c)) \in Nat
  <2>1. Len(Pieces(c)) \in 1 .. 3
    BY PiecesWhole
  <2> QED BY <2>1 DEF Inv, Types
<1>6. i > got[c]
  BY <1>1, <1>3, <1>4
<1>7. i = got[c] + 1
  <2> SUFFICES ASSUME i # got[c] + 1 PROVE FALSE
    OBVIOUS
  <2> DEFINE j == got[c] + 1
  <2>1. j \in 1 .. i - 1 /\ j \in 1 .. caller[c].pieces /\ j > got[c] /\ j \in Nat
    BY <1>4, <1>5, <1>6
  <2> HIDE DEF j
  <2>2. at[c][j] < at[c][i]
    BY <2>1 DEF Following, Placed
  <2>3. at[c][j] \in 1 .. Len(sent)
    BY <2>1 DEF Following, Placed
  <2>4. at[c][j] <= r
    BY <1>1, <1>3, <2>2, <2>3
  <2>5. j <= got[c]
    BY <1>4, <2>1, <2>4
  <2> QED BY <1>4, <2>1, <2>5
<1>8. sent[at[c][i]] = CallMessage(caller[c].key, Pieces(c)[i])
  BY DEF Following, Placed
<1>9. Upcoming = CallMessage(caller[c].key, Pieces(c)[i])
  BY <1>3, <1>8 DEF Upcoming
<1>10. i \in 1 .. Len(Pieces(c))
  BY <1>5
<1> QED BY <1>3, <1>7, <1>9, <1>10

(* What has come of its call is in the buffer that is found by its key.    *)
LEMMA BufferFound ==
    ASSUME Inv, CallsInv, NEW at, NEW got, Following(at, got), NEW c \in Calls,
           got[c] + 1 \in 1 .. caller[c].pieces, got[c] + 1 \in 1 .. Len(Pieces(c)),
           NEW message, message = CallMessage(caller[c].key, Pieces(c)[got[c] + 1])
    PROVE  /\ Accumulated(message) = Gathered(c, got[c] + 1)
           /\ Others(message.key) = {[key |-> caller[d].key, bytes |-> Gathered(d, got[d])] :
                                       d \in Halfway(got) \ {c}}
<1> DEFINE entry(d) == [key |-> caller[d].key, bytes |-> Gathered(d, got[d])]
           before == {b \in buffers : b.key = message.key}
<1>1. message.key = caller[c].key /\ message.body = Pieces(c)[got[c] + 1].body
  BY DEF CallMessage
<1>2. buffers = {entry(d) : d \in Halfway(got)}
  BY DEF Following, Collected
<1>3. got \in [Calls -> 0 .. 3] /\ \A d \in Calls : got[d] <= caller[d].pieces
  BY DEF Following, Gotten
<1>4. \A d \in Calls : caller[d].pieces \in Nat
  BY DEF Inv, Types
<1>5. \A d \in Halfway(got) : d \in Calls /\ caller[d].pieces > 0
  BY <1>3, <1>4 DEF Halfway
<1>6. caller[c].pieces > 0
  BY <1>3, <1>4
<1>7. \A d \in Halfway(got) : caller[d].key = caller[c].key => d = c
  BY <1>5, <1>6 DEF CallsInv, Keyings
<1>8. Others(message.key) = {entry(d) : d \in Halfway(got) \ {c}}
  <2>1. Others(message.key) = {b \in buffers : b.key # caller[c].key}
    BY <1>1 DEF Others
  <2>2. \A d \in Halfway(got) : entry(d).key # caller[c].key <=> d # c
    BY <1>7
  <2> HIDE DEF entry
  <2> QED BY <1>2, <2>1, <2>2
<1>9. got[c] \in 0 .. 3 /\ (got[c] + 1) - 1 = got[c]
  BY <1>3
<1>10. Accumulated(message) = Join(Gathered(c, got[c]), message.body)
  <2>1. CASE got[c] = 0
    <3>1. c \notin Halfway(got)
      BY <2>1 DEF Halfway
    <3>2. before = {}
      <4>1. \A d \in Halfway(got) : entry(d).key # message.key
        BY <1>1, <1>7, <3>1
      <4> HIDE DEF entry
      <4> QED BY <1>2, <4>1
    <3>3. Accumulated(message) = Join(<<>>, message.body)
      BY <3>2 DEF Accumulated, Join
    <3>4. Gathered(c, 0) = <<>>
      BY DEF Gathered
    <3> QED BY <2>1, <3>3, <3>4
  <2>2. CASE got[c] # 0
    <3>1. c \in Halfway(got)
      <4>1. PICK n : n = Len(Pieces(c))
        OBVIOUS
      <4>2. got[c] + 1 \in 1 .. n
        BY <4>1
      <4>3. n \in 1 .. 3
        BY <4>1, PiecesWhole
      <4>4. 0 < got[c]
        BY <1>9, <2>2
      <4>5. got[c] < n
        BY <1>9, <4>2, <4>3
      <4> QED BY <4>1, <4>4, <4>5 DEF Halfway
    <3>2. before = {entry(c)}
      <4>1. \A d \in Halfway(got) : entry(d).key = message.key <=> d = c
        BY <1>1, <1>7
      <4> HIDE DEF entry
      <4> QED BY <1>2, <3>1, <4>1
    <3>3. (CHOOSE b \in before : TRUE) = entry(c)
      <4> HIDE DEF entry
      <4> QED BY <3>2
    <3>4. Accumulated(message) = (IF before = {} THEN <<>> ELSE (CHOOSE b \in before : TRUE).bytes) \o message.body
      BY DEF Accumulated
    <3>5. before # {}
      BY <3>2
    <3> HIDE DEF before
    <3>6. Accumulated(message) = entry(c).bytes \o message.body
      BY <3>3, <3>4, <3>5
    <3> QED BY <3>6 DEF Join
  <2> QED BY <2>1, <2>2
<1>11. Gathered(c, got[c] + 1) = Join(Gathered(c, (got[c] + 1) - 1), Pieces(c)[got[c] + 1].body)
  BY GatheredMore
<1> QED BY <1>1, <1>8, <1>9, <1>10, <1>11

(* The next piece of a call has been received.                             *)
LEMMA PieceReceived ==
    ASSUME Inv, CallsInv, Receives, UNCHANGED <<remote_call_counter, caller>>,
           NEW at, NEW got, Following(at, got), NEW c \in Calls,
           got[c] + 1 \in 1 .. caller[c].pieces, got[c] + 1 \in 1 .. Len(Pieces(c)),
           at[c][got[c] + 1] = Len(received) + 1,
           NEW more, more = [got EXCEPT ![c] = got[c] + 1]
    PROVE  Keyings' /\ Placed(at)' /\ Gotten(at, more)'
<1>1. sent' = sent /\ received' = Append(received, Upcoming)
  BY DEF Receives
<1>2. Len(received) \in Nat /\ Len(received') = Len(received) + 1
  <2>1. received \in Seq(Messages)
    BY DEF Inv, Types
  <2> QED BY <1>1, <2>1
<1>3. Keyings'
  BY DEF CallsInv, Keyings
<1>4. Placed(at)'
  BY <1>1 DEF Following, Placed
<1>5. /\ got \in [Calls -> 0 .. 3]
      /\ \A d \in Calls :
           /\ got[d] <= caller[d].pieces
           /\ \A i \in 1 .. caller[d].pieces : at[d][i] <= Len(received) <=> i <= got[d]
  BY DEF Following, Gotten
<1>6. got[c] + 1 \in 1 .. 3
  <2>1. Len(Pieces(c)) \in 1 .. 3
    BY PiecesWhole
  <2>2. PICK n : n = Len(Pieces(c))
    OBVIOUS
  <2>3. got[c] + 1 \in 1 .. n /\ n \in 1 .. 3
    BY <2>1, <2>2
  <2> QED BY <2>3
<1>7. more \in [Calls -> 0 .. 3] /\ more[c] = got[c] + 1 /\ \A d \in Calls \ {c} : more[d] = got[d]
  <2>1. got[c] + 1 \in 0 .. 3
    BY <1>6
  <2> QED BY <1>5, <2>1
<1>8. ASSUME NEW d \in Calls, NEW i \in 1 .. caller[d].pieces
      PROVE  at[d][i] \in Nat /\ (at[d][i] = Len(received) + 1 <=> d = c /\ i = got[c] + 1)
  <2>1. /\ at[d][i] \in 1 .. Len(sent)
        /\ \A j \in 1 .. i - 1 : at[d][j] < at[d][i]
        /\ \A e \in Calls \ {d} : \A j \in 1 .. caller[e].pieces : at[e][j] # at[d][i]
    BY DEF Following, Placed
  <2>2. \A j \in 1 .. (got[c] + 1) - 1 : at[c][j] < at[c][got[c] + 1]
    BY DEF Following, Placed
  <2>3. CASE d # c
    BY <2>1, <2>3
  <2>4. CASE d = c
    <3>1. got[c] \in Nat /\ i \in Nat
      BY <1>5
    <3>2. i < got[c] + 1 \/ i = got[c] + 1 \/ i > got[c] + 1
      BY <3>1
    <3>3. CASE i < got[c] + 1
      <4>1. i \in 1 .. (got[c] + 1) - 1
        BY <3>1, <3>3
      <4>2. at[d][i] < Len(received) + 1
        BY <2>2, <2>4, <4>1
      <4> QED BY <1>2, <2>1, <3>1, <3>3, <4>2
    <3>4. CASE i = got[c] + 1
      BY <2>1, <2>4, <3>4
    <3>5. CASE i > got[c] + 1
      <4>1. got[c] + 1 \in 1 .. i - 1
        BY <3>1, <3>5
      <4>2. Len(received) + 1 < at[d][i]
        BY <2>1, <2>4, <4>1
      <4> QED BY <1>2, <2>1, <3>1, <3>5, <4>2
    <3> QED BY <3>2, <3>3, <3>4, <3>5
  <2> QED BY <2>3, <2>4
<1>9. ASSUME NEW d \in Calls
      PROVE  /\ more[d] <= caller[d].pieces
             /\ \A i \in 1 .. caller[d].pieces : at[d][i] <= Len(received') <=> i <= more[d]
  <2>1. more[d] <= caller[d].pieces
    <3>1. CASE d = c
      <4>1. caller[c].pieces \in Nat
        BY DEF Inv, Types
      <4> QED BY <1>7, <3>1, <4>1
    <3>2. CASE d # c
      BY <1>5, <1>7, <3>2
    <3> QED BY <3>1, <3>2
  <2>2. \A i \in 1 .. caller[d].pieces : at[d][i] <= Len(received') <=> i <= more[d]
    <3> TAKE i \in 1 .. caller[d].pieces
    <3>1. at[d][i] \in Nat /\ got[d] \in Nat /\ i \in Nat
      BY <1>5, <1>8
    <3>2. at[d][i] <= Len(received') <=> at[d][i] <= Len(received) \/ at[d][i] = Len(received) + 1
      BY <1>2, <3>1
    <3>3. at[d][i] <= Len(received') <=> i <= got[d] \/ (d = c /\ i = got[c] + 1)
      BY <1>5, <1>8, <3>2
    <3>4. CASE d = c
      <4>1. i <= got[d] \/ i = got[c] + 1 <=> i <= got[c] + 1
        BY <3>1, <3>4
      <4> QED BY <1>7, <3>3, <3>4, <4>1
    <3>5. CASE d # c
      BY <1>7, <3>3, <3>5
    <3> QED BY <3>4, <3>5
  <2> QED BY <2>1, <2>2
<1>10. Gotten(at, more)'
  BY <1>7, <1>9 DEF Gotten
<1> QED BY <1>3, <1>4, <1>10

LEMMA ReadPieceCalls ==
    ASSUME Inv, CallsInv, ReadPiece
    PROVE  CallsInv'
<1>1. /\ Reads(5) /\ reader.fields[1] = 1 /\ Message("call").terminator # "complete"
      /\ buffers' = Others(Key) \cup {[key |-> Key, bytes |-> Accumulated(Message("call"))]}
      /\ Stop("no") /\ UNCHANGED <<remote_call_counter, caller, ran>>
  BY DEF ReadPiece, ReadOn, sender
<1>2. Upcoming.type = "call" /\ Message("call") = Upcoming /\ Key = Upcoming.key
  BY <1>1, MessageRead
<1>3. Receives
  BY MessageKeeps
<1>4. PICK at, got : Following(at, got)
  BY DEF CallsInv
<1>5. Len(received) < Len(sent)
  BY <1>3 DEF Receives
<1>6. PICK c \in Calls :
             /\ got[c] + 1 \in 1 .. caller[c].pieces /\ got[c] + 1 \in 1 .. Len(Pieces(c))
             /\ at[c][got[c] + 1] = Len(received) + 1
             /\ Upcoming = CallMessage(caller[c].key, Pieces(c)[got[c] + 1])
  BY <1>2, <1>4, <1>5, PieceDue
<1>7. PICK more : more = [got EXCEPT ![c] = got[c] + 1]
  OBVIOUS
<1>8. Keyings' /\ Placed(at)' /\ Gotten(at, more)'
  BY <1>1, <1>3, <1>4, <1>6, <1>7, PieceReceived
<1>9. PICK m : m = Upcoming
  OBVIOUS
<1>10. /\ Accumulated(m) = Gathered(c, got[c] + 1)
       /\ Others(m.key) = {[key |-> caller[d].key, bytes |-> Gathered(d, got[d])] :
                             d \in Halfway(got) \ {c}}
  BY <1>4, <1>6, <1>9, BufferFound
<1>11. m.key = caller[c].key /\ m.terminator = Pieces(c)[got[c] + 1].terminator
  BY <1>6, <1>9 DEF CallMessage
<1>12. got[c] + 1 # Len(Pieces(c))
  BY <1>1, <1>2, <1>6, <1>9, <1>11, PiecesWhole
<1>13. got \in [Calls -> 0 .. 3]
  BY <1>4 DEF Following, Gotten
<1>14. more[c] = got[c] + 1 /\ \A d \in Calls \ {c} : more[d] = got[d]
  BY <1>7, <1>13
<1>15. PICK n : n = Len(Pieces(c))
  OBVIOUS
<1>16. 0 < more[c] /\ more[c] < n /\ got[c] < n
  <2>1. got[c] \in Nat /\ got[c] + 1 \in 1 .. n /\ got[c] + 1 # n
    BY <1>6, <1>12, <1>13, <1>15
  <2>2. n \in Nat
    BY <1>15, SomePieces
  <2> QED BY <1>14, <2>1, <2>2
<1>17. Halfway(more) = (Halfway(got) \ {c}) \cup {c}
  <2>1. c \in Halfway(more)
    BY <1>15, <1>16 DEF Halfway
  <2>2. \A d \in Calls \ {c} : d \in Halfway(more) <=> d \in Halfway(got)
    BY <1>14 DEF Halfway
  <2>3. Halfway(more) \subseteq Calls /\ Halfway(got) \subseteq Calls
    BY DEF Halfway
  <2> QED BY <2>1, <2>2, <2>3
<1>18. AllGotten(more) = AllGotten(got)
  <2>1. c \notin AllGotten(more) /\ c \notin AllGotten(got)
    <3>1. more[c] # n /\ got[c] # n
      <4>1. n \in Nat /\ got[c] \in Nat
        BY <1>13, <1>15, SomePieces
      <4> QED BY <1>14, <1>16, <4>1
    <3> QED BY <1>15, <3>1 DEF AllGotten
  <2>2. \A d \in Calls \ {c} : d \in AllGotten(more) <=> d \in AllGotten(got)
    BY <1>14 DEF AllGotten
  <2>3. AllGotten(more) \subseteq Calls /\ AllGotten(got) \subseteq Calls
    BY DEF AllGotten
  <2> QED BY <2>1, <2>2, <2>3
<1>19. Collected(more)'
  <2>1. buffers' = {[key |-> caller[d].key, bytes |-> Gathered(d, got[d])] : d \in Halfway(got) \ {c}}
                   \cup {[key |-> caller[c].key, bytes |-> Gathered(c, got[c] + 1)]}
    BY <1>1, <1>2, <1>9, <1>10, <1>11
  <2>2. \A d \in Halfway(got) \ {c} : got[d] = more[d]
    BY <1>14 DEF Halfway
  <2>3. buffers' = {[key |-> caller[d].key, bytes |-> Gathered(d, more[d])] : d \in Halfway(more)}
    BY <1>14, <1>17, <2>1, <2>2
  <2>4. caller' = caller
    BY <1>1
  <2> QED BY <2>3, <2>4 DEF Collected, Halfway, Gathered, Pieces
<1>20. Ran(more)'
  <2>1. Ran(more)
    BY <1>4, <1>18 DEF Following, Ran
  <2>2. AllGotten(more)' = AllGotten(more)
    BY DEF AllGotten
  <2> QED BY <1>1, <2>1, <2>2 DEF Ran
<1>21. Undone(more)'
  BY <1>1 DEF Undone, Stop
<1> QED BY <1>8, <1>19, <1>20, <1>21 DEF CallsInv, Following

LEMMA ReadLastPieceCalls ==
    ASSUME Inv, CallsInv, ReadLastPiece
    PROVE  CallsInv'
<1> DEFINE arguments == Unpack(Accumulated(Message("call")), Arity[Key[1]])
<1>1. /\ Reads(5) /\ reader.fields[1] = 1 /\ Message("call").terminator = "complete"
      /\ buffers' = Others(Key)
      /\ IF Len(arguments) = Arity[Key[1]]
         THEN ran' = Append(ran, [key |-> Key, arguments |-> arguments]) /\ Stop("no")
         ELSE Stop("Decode") /\ ran' = ran
      /\ UNCHANGED <<remote_call_counter, caller>>
  BY DEF ReadLastPiece, ReadOn, sender
<1>2. Upcoming.type = "call" /\ Message("call") = Upcoming /\ Key = Upcoming.key
  BY <1>1, MessageRead
<1>3. Receives
  BY MessageKeeps
<1>4. PICK at, got : Following(at, got)
  BY DEF CallsInv
<1>5. Len(received) < Len(sent)
  BY <1>3 DEF Receives
<1>6. PICK c \in Calls :
             /\ got[c] + 1 \in 1 .. caller[c].pieces /\ got[c] + 1 \in 1 .. Len(Pieces(c))
             /\ at[c][got[c] + 1] = Len(received) + 1
             /\ Upcoming = CallMessage(caller[c].key, Pieces(c)[got[c] + 1])
  BY <1>2, <1>4, <1>5, PieceDue
<1>7. PICK more : more = [got EXCEPT ![c] = got[c] + 1]
  OBVIOUS
<1>8. Keyings' /\ Placed(at)' /\ Gotten(at, more)'
  BY <1>1, <1>3, <1>4, <1>6, <1>7, PieceReceived
<1>9. PICK m : m = Upcoming
  OBVIOUS
<1>10. /\ Accumulated(m) = Gathered(c, got[c] + 1)
       /\ Others(m.key) = {[key |-> caller[d].key, bytes |-> Gathered(d, got[d])] :
                             d \in Halfway(got) \ {c}}
  BY <1>4, <1>6, <1>9, BufferFound
<1>11. m.key = caller[c].key /\ m.terminator = Pieces(c)[got[c] + 1].terminator
  BY <1>6, <1>9 DEF CallMessage
<1>12. got[c] + 1 = Len(Pieces(c))
  BY <1>1, <1>2, <1>6, <1>9, <1>11, PiecesWhole
<1>13. got \in [Calls -> 0 .. 3]
  BY <1>4 DEF Following, Gotten
<1>14. more[c] = Len(Pieces(c)) /\ \A d \in Calls \ {c} : more[d] = got[d]
  <2>1. more[c] = got[c] + 1 /\ \A d \in Calls \ {c} : more[d] = got[d]
    BY <1>7, <1>13
  <2> QED BY <1>12, <2>1
<1>15. c \notin AllGotten(got) /\ caller[c].pieces > 0
  <2>1. got[c] \in Nat
    BY <1>13
  <2>2. caller[c].pieces \in Nat
    BY DEF Inv, Types
  <2>3. got[c] # got[c] + 1 /\ caller[c].pieces > 0
    BY <1>6, <2>1, <2>2
  <2> QED BY <1>12, <2>3 DEF AllGotten
<1>16. Halfway(more) = Halfway(got) \ {c}
  <2>1. c \notin Halfway(more)
    <3>1. PICK n : n = Len(Pieces(c))
      OBVIOUS
    <3>2. n \in Nat /\ more[c] = n
      BY <1>14, <3>1, SomePieces
    <3> QED BY <3>1, <3>2 DEF Halfway
  <2>2. \A d \in Calls \ {c} : d \in Halfway(more) <=> d \in Halfway(got)
    BY <1>14 DEF Halfway
  <2>3. Halfway(more) \subseteq Calls /\ Halfway(got) \subseteq Calls
    BY DEF Halfway
  <2> QED BY <2>1, <2>2, <2>3
<1>17. AllGotten(more) = AllGotten(got) \cup {c}
  <2>1. c \in AllGotten(more)
    BY <1>14 DEF AllGotten
  <2>2. \A d \in Calls \ {c} : d \in AllGotten(more) <=> d \in AllGotten(got)
    BY <1>14 DEF AllGotten
  <2>3. AllGotten(more) \subseteq Calls /\ AllGotten(got) \subseteq Calls
    BY DEF AllGotten
  <2> QED BY <2>1, <2>2, <2>3
<1>18. Collected(more)'
  <2>1. buffers' = {[key |-> caller[d].key, bytes |-> Gathered(d, got[d])] : d \in Halfway(got) \ {c}}
    BY <1>1, <1>2, <1>9, <1>10
  <2>2. \A d \in Halfway(got) \ {c} : got[d] = more[d]
    BY <1>14 DEF Halfway
  <2>3. buffers' = {[key |-> caller[d].key, bytes |-> Gathered(d, more[d])] : d \in Halfway(more)}
    BY <1>16, <2>1, <2>2
  <2>4. caller' = caller
    BY <1>1
  <2> QED BY <2>3, <2>4 DEF Collected, Halfway, Gathered, Pieces
<1>19. Key = caller[c].key /\ Key[1] = Procedure[c]
  <2>1. Key = caller[c].key
    BY <1>2, <1>9, <1>11
  <2> QED BY <1>15, <2>1 DEF CallsInv, Keyings
<1>20. arguments = Given(c)
  <2>1. Accumulated(Message("call")) = IntoBytes(Arguments[c])
    BY <1>2, <1>9, <1>10, <1>12, PiecesWhole
  <2> QED BY <1>19, <2>1 DEF Given
<1> HIDE DEF arguments
<1>21. Last(received').key = Key
  <2>1. received \in Seq(Messages) /\ Upcoming \in Messages
    <3>1. sent \in Seq(Messages) /\ received \in Seq(Messages)
      BY DEF Inv, Types
    <3> QED BY <1>5, <3>1, ElementOfSeq DEF Upcoming
  <2>2. received' = Append(received, Upcoming)
    BY <1>3 DEF Receives
  <2>3. received'[Len(received')] = Upcoming
    BY <2>1, <2>2, AppendProperties
  <2> QED BY <1>2, <2>3 DEF Last
<1>22. caller' = caller /\ AllGotten(more)' = AllGotten(more)
  BY <1>1 DEF AllGotten
<1>23. /\ ran \in Seq([key : Procedures \X Indices, arguments : {Given(d) : d \in Calls}])
       /\ \A i \in 1 .. Len(ran) : \E d \in AllGotten(got) :
            /\ ran[i].key = caller[d].key /\ ran[i].arguments = Given(d)
            /\ Len(Given(d)) = Arity[Procedure[d]]
       /\ \A i, j \in 1 .. Len(ran) : ran[i].key = ran[j].key => i = j
  BY <1>4 DEF Following, Ran
<1>24. CASE Len(arguments) = Arity[Key[1]]
  <2> DEFINE run == [key |-> Key, arguments |-> Given(c)]
  <2>1. ran' = Append(ran, run) /\ Stop("no")
    BY <1>1, <1>20, <1>24
  <2>2. Key \in Procedures \X Indices
    <3>1. caller[c].key \in (Procedures \X Indices) \cup {None}
      BY DEF Inv, Types
    <3>2. caller[c].key # None
      BY <1>15 DEF CallsInv, Keyings
    <3> QED BY <1>19, <3>1, <3>2
  <2>3. run \in [key : Procedures \X Indices, arguments : {Given(d) : d \in Calls}]
    BY <2>2
  <2>4. run.key = caller[c].key /\ run.arguments = Given(c)
    BY <1>19
  <2> HIDE DEF run
  <2>5. /\ ran' \in Seq([key : Procedures \X Indices, arguments : {Given(d) : d \in Calls}])
        /\ Len(ran) \in Nat /\ Len(ran') = Len(ran) + 1 /\ ran'[Len(ran) + 1] = run
        /\ \A i \in 1 .. Len(ran) : ran'[i] = ran[i]
    BY <1>23, <2>1, <2>3, AppendProperties
  <2>6. \A i \in 1 .. Len(ran') : i \in 1 .. Len(ran) \/ i = Len(ran) + 1
    BY <2>5
  <2>7. ASSUME NEW i \in 1 .. Len(ran')
        PROVE  \E d \in AllGotten(more) :
                 /\ ran'[i].key = caller[d].key /\ ran'[i].arguments = Given(d)
                 /\ Len(Given(d)) = Arity[Procedure[d]]
    <3>1. CASE i \in 1 .. Len(ran)
      <4>1. PICK d \in AllGotten(got) :
                 /\ ran[i].key = caller[d].key /\ ran[i].arguments = Given(d)
                 /\ Len(Given(d)) = Arity[Procedure[d]]
        BY <1>23, <3>1
      <4>2. d \in AllGotten(more) /\ ran'[i] = ran[i]
        BY <1>17, <2>5, <3>1
      <4> QED BY <4>1, <4>2
    <3>2. CASE i = Len(ran) + 1
      <4>1. ran'[i] = run /\ c \in AllGotten(more)
        BY <1>17, <2>5, <3>2
      <4>2. Len(Given(c)) = Arity[Procedure[c]]
        BY <1>19, <1>20, <1>24
      <4> QED BY <2>4, <4>1, <4>2
    <3> QED BY <2>6, <3>1, <3>2
  <2>8. \A i \in 1 .. Len(ran) : ran[i].key # run.key
    <3> TAKE i \in 1 .. Len(ran)
    <3>1. PICK d \in AllGotten(got) : ran[i].key = caller[d].key
      BY <1>23
    <3>2. d \in Calls /\ d # c /\ caller[d].pieces > 0
      <4>1. d \in Calls /\ d # c
        BY <1>15 DEF AllGotten
      <4>2. got[d] = Len(Pieces(d)) /\ got[d] <= caller[d].pieces
        BY <1>4, <4>1 DEF AllGotten, Following, Gotten
      <4>3. got[d] >= 1
        BY <4>1, <4>2, SomePieces
      <4>4. got[d] \in Nat
        BY <1>13, <4>1
      <4>5. caller[d].pieces \in Nat
        BY <4>1 DEF Inv, Types
      <4> QED BY <4>1, <4>2, <4>3, <4>4, <4>5
    <3>3. caller[d].key # caller[c].key
      BY <1>15, <3>2 DEF CallsInv, Keyings
    <3> QED BY <2>4, <3>1, <3>3
  <2>9. \A i, j \in 1 .. Len(ran') : ran'[i].key = ran'[j].key => i = j
    <3> SUFFICES ASSUME NEW i \in 1 .. Len(ran'), NEW j \in 1 .. Len(ran'), ran'[i].key = ran'[j].key
                 PROVE  i = j
      OBVIOUS
    <3>1. (i \in 1 .. Len(ran) \/ i = Len(ran) + 1) /\ (j \in 1 .. Len(ran) \/ j = Len(ran) + 1)
      BY <2>6
    <3> QED BY <1>23, <2>5, <2>8, <3>1
  <2>10. Ran(more)'
    BY <1>22, <2>5, <2>7, <2>9 DEF Ran
  <2>11. Undone(more)'
    BY <2>1 DEF Undone, Stop
  <2> QED BY <1>8, <1>18, <2>10, <2>11 DEF CallsInv, Following
<1>25. CASE Len(arguments) # Arity[Key[1]]
  <2>1. ran' = ran
    BY <1>1, <1>25
  <2>2. \A i \in 1 .. Len(ran) : \E d \in AllGotten(more) :
            /\ ran[i].key = caller[d].key /\ ran[i].arguments = Given(d)
            /\ Len(Given(d)) = Arity[Procedure[d]]
    BY <1>17, <1>23
  <2>3. Ran(more)'
    BY <1>22, <1>23, <2>1, <2>2 DEF Ran
  <2>4. c \in AllGotten(more) /\ caller[c].key = Last(received').key /\ Len(Given(c)) # Arity[Procedure[c]]
    BY <1>17, <1>19, <1>20, <1>21, <1>25
  <2>5. Undone(more)'
    BY <1>22, <2>4 DEF Undone
  <2> QED BY <1>8, <1>18, <2>3, <2>5 DEF CallsInv, Following
<1> QED BY <1>24, <1>25

(* A call that starts takes a key that no other has; a call that goes on   *)
(* keeps its own.                                                          *)
LEMMA KeyTaken ==
    ASSUME Inv, NEW c \in Calls, Start(c)
    PROVE  <<Procedure[c], remote_call_counter[Procedure[c]] + 1>> \in Procedures \X Indices
<1> DEFINE key == <<Procedure[c], remote_call_counter[Procedure[c]] + 1>>
<1>1. caller' = [caller EXCEPT ![c] = [key |-> key, pieces |-> 1]]
  BY DEF Start
<1>2. key # None
  <2>1. Procedure[c] \in Procedures /\ remote_call_counter \in [Procedures -> Nat]
    BY DEF Procedures, Inv, Types
  <2>2. key \in Procedures \X Nat
    BY <2>1
  <2> QED BY <2>2, NoneAssumption
<1>3. caller \in [Calls -> [key : (Procedures \X Indices) \cup {None}, pieces : Nat]]
  BY DEF Inv, Types
<1>4. caller' \in [Calls -> [key : (Procedures \X Indices) \cup {None}, pieces : Nat]]
  BY StartKeeps DEF Inv, Types
<1> HIDE DEF key
<1>5. caller'[c].key = key
  BY <1>1, <1>3
<1>6. key \in Procedures \X Indices
  BY <1>2, <1>4, <1>5
<1> QED BY <1>6 DEF key

LEMMA StartCalls ==
    ASSUME Inv, CallsInv, NEW c \in Calls, Start(c)
    PROVE  CallsInv'
<1> DEFINE p == Procedure[c]
           k == remote_call_counter[p] + 1
           key == <<p, k>>
<1>1. /\ caller[c].key = None /\ remote_call_counter' = [remote_call_counter EXCEPT ![p] = k]
      /\ Push(CallMessage(key, Pieces(c)[1]))
      /\ caller' = [caller EXCEPT ![c] = [key |-> key, pieces |-> 1]]
      /\ UNCHANGED <<writing, stream, closed, receiver>>
  BY DEF Start
<1>2. key \in Procedures \X Indices
  BY KeyTaken
<1>3. /\ caller \in [Calls -> [key : (Procedures \X Indices) \cup {None}, pieces : Nat]]
      /\ remote_call_counter \in [Procedures -> Nat]
  BY DEF Inv, Types
<1>4. p \in Procedures /\ \A d \in Calls : Procedure[d] \in Procedures
  BY DEF Procedures
<1>5. k \in Nat /\ key[1] = p /\ key[2] = k
  BY <1>3, <1>4
<1>6. key # None
  <2>1. key \in Procedures \X Nat
    BY <1>4, <1>5
  <2> QED BY <2>1, NoneAssumption
<1> HIDE DEF key
<1>7. /\ caller'[c].key = key /\ caller'[c].pieces = 1
      /\ \A d \in Calls \ {c} : caller'[d] = caller[d]
  BY <1>1, <1>3
<1>8. remote_call_counter'[p] = k /\ k > remote_call_counter[p]
  BY <1>1, <1>3, <1>4
<1>9. \A q \in Procedures : remote_call_counter[q] <= remote_call_counter'[q]
  <2> TAKE q \in Procedures
  <2>1. CASE q = p
    BY <1>3, <1>8, <2>1
  <2>2. CASE q # p
    <3>1. remote_call_counter'[q] = remote_call_counter[q]
      BY <1>1, <1>3, <2>2
    <3>2. remote_call_counter[q] \in Nat
      BY <1>3
    <3> QED BY <3>1, <3>2
  <2> QED BY <2>1, <2>2
<1> HIDE DEF k, p
<1>10. /\ \A d \in Calls : caller[d].key = None <=> caller[d].pieces = 0
       /\ \A d \in Calls : caller[d].pieces > 0 =>
            /\ caller[d].key[1] = Procedure[d]
            /\ caller[d].key[2] <= remote_call_counter[Procedure[d]]
       /\ \A d, e \in Calls :
            caller[d].pieces > 0 /\ caller[e].pieces > 0 /\ caller[d].key = caller[e].key => d = e
  BY DEF CallsInv, Keyings
<1>11. \A d \in Calls : caller'[d].key = None <=> caller'[d].pieces = 0
  BY <1>6, <1>7, <1>10
<1>12. ASSUME NEW d \in Calls, caller'[d].pieces > 0
       PROVE  /\ caller'[d].key[1] = Procedure[d]
              /\ caller'[d].key[2] <= remote_call_counter'[Procedure[d]]
  <2>1. CASE d = c
    <3>1. caller'[d].key = key /\ Procedure[d] = p
      BY <1>7, <2>1 DEF p
    <3>2. k <= remote_call_counter'[p]
      BY <1>5, <1>8
    <3> QED BY <1>5, <3>1, <3>2
  <2>2. CASE d # c
    <3>1. caller'[d] = caller[d]
      BY <1>7, <2>2
    <3>2. caller[d].key[1] = Procedure[d] /\ caller[d].key[2] <= remote_call_counter[Procedure[d]]
      BY <1>10, <1>12, <3>1
    <3>3. caller[d].key \in Procedures \X Indices
      <4>1. caller[d].key # None
        BY <1>10, <1>12, <3>1
      <4> QED BY <1>3, <4>1
    <3>4. caller[d].key[2] \in Nat
      BY <3>3 DEF Indices
    <3>5. /\ remote_call_counter[Procedure[d]] \in Nat /\ remote_call_counter'[Procedure[d]] \in Nat
          /\ remote_call_counter[Procedure[d]] <= remote_call_counter'[Procedure[d]]
      <4>1. remote_call_counter' \in [Procedures -> Nat]
        BY <1>1, <1>3, <1>4, <1>5
      <4> QED BY <1>3, <1>4, <1>9, <4>1
    <3>6. caller[d].key[2] <= remote_call_counter'[Procedure[d]]
      BY <3>2, <3>4, <3>5
    <3> QED BY <3>1, <3>2, <3>6
  <2> QED BY <2>1, <2>2
<1>13. ASSUME NEW d \in Calls \ {c}, caller[d].pieces > 0 PROVE caller[d].key # key
  <2> SUFFICES ASSUME caller[d].key = key PROVE FALSE
    OBVIOUS
  <2>1. Procedure[d] = p /\ k <= remote_call_counter[Procedure[d]]
    BY <1>5, <1>10, <1>13
  <2>2. remote_call_counter[p] \in Nat
    BY <1>3, <1>4
  <2> QED BY <1>5, <1>8, <2>1, <2>2
<1>14. ASSUME NEW d \in Calls, NEW e \in Calls, caller'[d].pieces > 0, caller'[e].pieces > 0,
              caller'[d].key = caller'[e].key
       PROVE  d = e
  <2>1. CASE d # c /\ e # c
    BY <1>7, <1>10, <1>14, <2>1
  <2>2. CASE d = c \/ e = c
    BY <1>7, <1>13, <1>14, <2>2
  <2> QED BY <2>1, <2>2
<1>15. Keyings'
  BY <1>11, <1>12, <1>14 DEF Keyings
<1>16. \E at, got : Following(at, got)'
  <2>1. caller[c].pieces = 0
    BY <1>1, <1>10
  <2>2. PICK i : i = 1
    OBVIOUS
  <2>3. /\ i \in 1 .. Len(Pieces(c)) /\ caller[c].pieces = i - 1 /\ (i > 1 => key = caller[c].key)
        /\ caller' = [caller EXCEPT ![c] = [key |-> key, pieces |-> i]]
        /\ Push(CallMessage(key, Pieces(c)[i]))
    BY <1>1, <2>1, <2>2, SomePieces
  <2> QED BY <1>1, <1>2, <2>3, PieceSent
<1> QED BY <1>15, <1>16 DEF CallsInv

LEMMA SendPieceCalls ==
    ASSUME Inv, CallsInv, NEW c \in Calls, SendPiece(c)
    PROVE  CallsInv'
<1>1. PICK i : i = caller[c].pieces + 1
  OBVIOUS
<1>2. PICK key : key = caller[c].key
  OBVIOUS
<1>3. /\ key # None /\ i <= Len(Pieces(c)) /\ Push(CallMessage(key, Pieces(c)[i]))
      /\ caller' = [caller EXCEPT ![c].pieces = i]
      /\ UNCHANGED <<remote_call_counter, writing, stream, closed, receiver>>
  BY <1>1, <1>2 DEF SendPiece
<1>4. caller \in [Calls -> [key : (Procedures \X Indices) \cup {None}, pieces : Nat]]
  BY DEF Inv, Types
<1>5. key \in Procedures \X Indices /\ i \in Nat /\ caller[c].pieces = i - 1
  BY <1>1, <1>2, <1>3, <1>4
<1>6. i > 1
  <2>1. caller[c].pieces # 0 /\ caller[c].pieces \in Nat
    BY <1>2, <1>3, <1>4 DEF CallsInv, Keyings
  <2> QED BY <1>1, <2>1
<1>7. i \in 1 .. Len(Pieces(c))
  BY <1>3, <1>5, <1>6, SomePieces
<1>8. caller' = [caller EXCEPT ![c] = [key |-> key, pieces |-> i]]
  <2>1. caller[c] \in [key : (Procedures \X Indices) \cup {None}, pieces : Nat]
    BY <1>4
  <2>2. [caller[c] EXCEPT !.pieces = i] = [key |-> key, pieces |-> i]
    BY <1>2, <2>1
  <2>3. caller' = [caller EXCEPT ![c] = [caller[c] EXCEPT !.pieces = i]]
    BY <1>3
  <2> QED BY <2>2, <2>3
<1>9. Keyings'
  <2>1. \A d \in Calls : /\ caller'[d].key = caller[d].key
                         /\ caller'[d].pieces > 0 <=> caller[d].pieces > 0
                         /\ caller'[d].pieces = 0 <=> caller[d].pieces = 0
    <3> TAKE d \in Calls
    <3>1. CASE d = c
      <4>1. caller'[d].key = key /\ caller'[d].pieces = i
        BY <1>4, <1>8, <3>1
      <4>2. caller[c].pieces > 0 /\ caller[c].pieces # 0 /\ i > 0 /\ i # 0
        BY <1>1, <1>5, <1>6
      <4> QED BY <1>2, <3>1, <4>1, <4>2
    <3>2. CASE d # c
      BY <1>4, <1>8, <3>2
    <3> QED BY <3>1, <3>2
  <2> QED BY <1>3, <2>1 DEF CallsInv, Keyings
<1>10. \E at, got : Following(at, got)'
  BY <1>2, <1>3, <1>5, <1>7, <1>8, PieceSent
<1> QED BY <1>9, <1>10 DEF CallsInv

LEMMA CallsStep ==
    ASSUME Inv, CallsInv, [Next]_vars
    PROVE  CallsInv'
<1>1. CASE \E c \in Calls : CallerStep(c)
  BY <1>1, StartCalls, SendPieceCalls DEF CallerStep
<1>2. CASE FollowScript
  <2>1. /\ scripted < Len(Script) /\ Push(Script[scripted + 1])
        /\ UNCHANGED <<remote_call_counter, caller, writing, stream, closed, receiver>>
    BY <1>2 DEF FollowScript
  <2>2. Script[scripted + 1] \in Responses \cup Signals
    <3>1. Script \in Seq(Responses \cup Signals) /\ scripted \in Nat
      BY ScriptAssumption DEF Inv, Types
    <3>2. scripted + 1 \in 1 .. Len(Script)
      BY <2>1, <3>1
    <3> QED BY <3>1, <3>2, ElementOfSeq
  <2>3. PICK message : message = Script[scripted + 1]
    OBVIOUS
  <2>4. message \in Messages /\ message.type # "call"
    BY <2>2, <2>3 DEF Messages, Laden, Responses, Signals
  <2> QED BY <2>1, <2>3, <2>4, OtherSent
<1>3. CASE WriterStep \/ Close \/ UNCHANGED vars
  <2>1. UNCHANGED <<sender, receiver>>
    BY <1>3 DEF WriterStep, Pop, Write, Close, vars
  <2> QED BY <2>1, CallsStay DEF sender, receiver
<1>4. CASE ReadField \/ IdxTooBig \/ UnexpectedEof
  <2>1. UNCHANGED <<remote_call_counter, caller, sent, received, buffers, ran>>
    BY <1>4 DEF ReadField, IdxTooBig, UnexpectedEof, sender
  <2>2. reader'.stopped # "Decode"
    <3>1. CASE ReadField
      <4>1. reader.stopped = "no" /\ reader' = [reader EXCEPT !.fields = Append(@, FromLeBytes(Taken))]
        BY <3>1 DEF ReadField, Reads
      <4>2. reader \in [fields : Seq(Nat), stopped : Stops]
        BY DEF Inv, Types
      <4> QED BY <4>1, <4>2
    <3>2. CASE IdxTooBig \/ UnexpectedEof
      BY <3>2 DEF IdxTooBig, UnexpectedEof, Stop
    <3> QED BY <1>4, <3>1, <3>2
  <2> QED BY <2>1, <2>2, CallsStay
<1>5. CASE EndOfInput \/ Termination
  <2>1. Receives
    BY <1>5, SignalKeeps
  <2>2. Reads(0) /\ FromLeBytes(Taken) \in {0, 3} /\ (Stop("no") \/ Stop("terminated"))
        /\ UNCHANGED <<remote_call_counter, caller, buffers, ran>>
    BY <1>5 DEF EndOfInput, Termination, ReadOn, sender
  <2>3. Upcoming.type # "call"
    BY <2>2, TypeRead
  <2>4. reader'.stopped # "Decode"
    BY <2>2 DEF Stop
  <2> QED BY <2>1, <2>2, <2>3, <2>4, OtherReceived
<1>6. CASE ReadResponse
  <2>1. Receives
    BY <1>6, MessageKeeps
  <2>2. Reads(5) /\ reader.fields[1] = 2 /\ Stop("no")
        /\ UNCHANGED <<remote_call_counter, caller, buffers, ran>>
    BY <1>6 DEF ReadResponse, ReadOn, sender
  <2>3. Message("response") = Upcoming
    BY <2>2, MessageRead
  <2>4. Upcoming.type # "call"
    BY <2>3 DEF Message
  <2>5. reader'.stopped # "Decode"
    BY <2>2 DEF Stop
  <2> QED BY <2>1, <2>2, <2>4, <2>5, OtherReceived
<1>7. CASE ReadPiece \/ ReadLastPiece
  BY <1>7, ReadPieceCalls, ReadLastPieceCalls
<1> QED BY <1>1, <1>2, <1>3, <1>4, <1>5, <1>6, <1>7 DEF Next, ReaderStep

(* Every piece of a call is followed from the caller to the buffer its     *)
(* bytes are gathered in and the run they end in                           *)
(* (continue_given_call_with_bytes and call_procedure).                    *)
THEOREM CallsFollowed == Spec => []CallsInv
<1>1. Inv /\ CallsInv /\ [Next]_vars => CallsInv'
  BY CallsStep
<1> QED BY <1>1, InitCalls, Invariant, PTL DEF Spec

(* Where the serialiser gives back what it was given, a procedure runs at  *)
(* most once for each call and with the arguments its caller gave,         *)
(* wherever the pieces were cut and however calls are interleaved          *)
(* (continue_given_call_with_bytes: "two-thirds of an argument").          *)
THEOREM ArgumentsRight ==
    ASSUME Restorable
    PROVE  Spec => []RightArguments
<1>1. Inv /\ CallsInv => RightArguments
  <2> SUFFICES ASSUME Inv, CallsInv PROVE RightArguments
    OBVIOUS
  <2>1. PICK at, got : Following(at, got)
    BY DEF CallsInv
  <2>2. /\ ran \in Seq([key : Procedures \X Indices, arguments : {Given(c) : c \in Calls}])
        /\ \A i \in 1 .. Len(ran) : \E c \in AllGotten(got) :
             /\ ran[i].key = caller[c].key /\ ran[i].arguments = Given(c)
        /\ \A i, j \in 1 .. Len(ran) : ran[i].key = ran[j].key => i = j
    BY <2>1 DEF Following, Ran
  <2>3. DOMAIN ran = 1 .. Len(ran)
    BY <2>2
  <2>4. ASSUME NEW i \in 1 .. Len(ran)
        PROVE  \E c \in Calls : ran[i] = [key |-> caller[c].key, arguments |-> Arguments[c]]
    <3>1. PICK c \in AllGotten(got) : ran[i].key = caller[c].key /\ ran[i].arguments = Given(c)
      BY <2>2
    <3>2. c \in Calls
      BY DEF AllGotten
    <3>3. Given(c) = Arguments[c]
      BY <3>2 DEF Restorable, Given
    <3>4. ran[i] \in [key : Procedures \X Indices, arguments : {Given(d) : d \in Calls}]
      BY <2>2, ElementOfSeq
    <3>5. ran[i] = [key |-> ran[i].key, arguments |-> ran[i].arguments]
      BY <3>4
    <3> QED BY <3>1, <3>2, <3>3, <3>5
  <2> QED BY <2>2, <2>3, <2>4 DEF RightArguments
<1> QED BY <1>1, Invariant, CallsFollowed, PTL

(* A reader gives up only on an index its integers cannot hold or, where   *)
(* the serialiser gives back what it was given, on a call that really has  *)
(* fewer arguments than its procedure takes (call_procedure).              *)
THEOREM StopsRight ==
    ASSUME Restorable
    PROVE  Spec => []StopsRightly
<1>1. Inv => TooBigRightly
  BY DEF Inv, TooBig, TooBigRightly, Upcoming
<1>2. CallsInv => DecodeRightly
  <2> SUFFICES ASSUME CallsInv, reader.stopped = "Decode"
               PROVE  \E c \in Calls : /\ caller[c].key = Last(received).key
                                       /\ Len(Arguments[c]) < Arity[Procedure[c]]
    BY DEF DecodeRightly
  <2>1. PICK at, got : Following(at, got)
    BY DEF CallsInv
  <2>2. PICK c \in AllGotten(got) : /\ caller[c].key = Last(received).key
                                    /\ Len(Given(c)) # Arity[Procedure[c]]
    BY <2>1 DEF Following, Undone
  <2>3. c \in Calls
    BY DEF AllGotten
  <2>4. PICK n : n = Arity[Procedure[c]]
    OBVIOUS
  <2>5. n \in Nat /\ Len(Arguments[c]) \in 0 .. n /\ Given(c) = Arguments[c]
    BY <2>3, <2>4 DEF Restorable, Given
  <2>6. Len(Arguments[c]) < n
    BY <2>2, <2>4, <2>5
  <2> QED BY <2>2, <2>3, <2>4, <2>6
<1> QED BY <1>1, <1>2, Invariant, CallsFollowed, PTL DEF StopsRightly
=============================================================================
