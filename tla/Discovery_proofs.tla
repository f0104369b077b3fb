--------------------------- MODULE Discovery_proofs ---------------------------
(***************************************************************************)
(* Proofs about Discovery, for any answers of STUN, any texts and any      *)
(* routes: the walk reads no byte that is not there, ends, and finds the   *)
(* first address that the server told (WalkInv); and what the window       *)
(* shows, what Detect suggests and what a peer keeps is the URL of the     *)
(* host that was typed (ShareInv).                                         *)
(***************************************************************************)
EXTENDS Discovery, SequenceTheorems, WellFoundedInduction, TLAPS

-----------------------------------------------------------------------------
(* Numbers, and sequences built by recursion.                              *)

\* A set of numbers that is not empty has a least one.
LEMMA LeastNumber ==
  ASSUME NEW T \in SUBSET Nat, T # {}
  PROVE  \E x \in T : \A y \in T : x <= y
<1> DEFINE R == OpToRel(<, Nat)
<1>1. IsWellFoundedOn(R, Nat)
  BY NatLessThanWellFounded, Zenon
<1>2. \A x \in Nat, y \in Nat : y < x => <<y, x>> \in R
  BY Zenon DEF OpToRel
<1> HIDE DEF R
<1>3. PICK x \in T : \A y \in T : <<y, x>> \notin R
  BY <1>1, WFMin, Zenon
<1>4. \A y \in T : ~(y < x)
  BY <1>2, <1>3
<1> QED
  BY <1>4

\* Induction over the numbers, for a set of them.
LEMMA AllNumbers ==
  ASSUME NEW S, 0 \in S, \A k \in Nat : k \in S => k + 1 \in S
  PROVE  Nat \subseteq S
<1> SUFFICES ASSUME Nat \ S # {}
             PROVE  FALSE
  OBVIOUS
<1>1. PICK m \in Nat \ S : \A l \in Nat \ S : m <= l
  <2>1. Nat \ S \in SUBSET Nat
    OBVIOUS
  <2> QED
    BY <2>1, LeastNumber
<1>2. m - 1 \in Nat
  BY <1>1
<1>3. m - 1 \in S
  BY <1>1, <1>2
<1> QED
  BY <1>2, <1>3

\* What two sequences make one after the other.
Joins(S, s, t) ==
  /\ s \o t \in Seq(S)
  /\ Len(s \o t) = Len(s) + Len(t)
  /\ \A k \in 1 .. Len(s) : (s \o t)[k] = s[k]
  /\ \A k \in 1 .. Len(t) : (s \o t)[Len(s) + k] = t[k]

LEMMA Joined ==
  ASSUME NEW S, NEW s \in Seq(S), NEW t \in Seq(S)
  PROVE  Joins(S, s, t)
<1>1. s \o t \in Seq(S) /\ Len(s \o t) = Len(s) + Len(t)
  BY ConcatProperties
<1>2. \A k \in 1 .. Len(s) : (s \o t)[k] = s[k]
  OBVIOUS
<1>3. \A k \in 1 .. Len(t) : (s \o t)[Len(s) + k] = t[k]
  OBVIOUS
<1> QED
  BY <1>1, <1>2, <1>3 DEF Joins

\* u begins with base, and up to m each value follows from the one before.
Follows(u, n, S, base, step, m) ==
  /\ u \in [0 .. n -> S]
  /\ u[0] = base
  /\ \A k \in 1 .. n : k <= m => u[k] = step[u[k - 1]][k]

\* What a recursion over 0 .. n computes.
LEMMA RecursionExists ==
  ASSUME NEW S, NEW base \in S, NEW n \in Nat, NEW step,
         \A x \in S, k \in 1 .. n : step[x][k] \in S
  PROVE  \E u : Follows(u, n, S, base, step, n)
<1> DEFINE T == {m \in Nat : \E u : Follows(u, n, S, base, step, m)}
<1>1. 0 \in T
  <2>1. Follows([k \in 0 .. n |-> base], n, S, base, step, 0)
    BY DEF Follows
  <2> QED
    BY <2>1
<1>2. ASSUME NEW m \in Nat, m \in T
      PROVE  m + 1 \in T
  <2>1. PICK u : Follows(u, n, S, base, step, m)
    BY <1>2
  <2>2. CASE m + 1 > n
    <3>1. Follows(u, n, S, base, step, m + 1)
      BY <2>1, <2>2 DEF Follows
    <3> QED
      BY <3>1
  <2>3. CASE m + 1 <= n
    <3>1. m + 1 \in 1 .. n /\ m \in 0 .. n
      BY <2>3
    <3>2. PICK y \in S : y = step[u[m]][m + 1]
      BY <2>1, <3>1 DEF Follows
    <3> DEFINE v == [u EXCEPT ![m + 1] = y]
    <3>3. v \in [0 .. n -> S]
      BY <2>1 DEF Follows
    <3>4. \A k \in 0 .. n : v[k] = IF k = m + 1 THEN y ELSE u[k]
      BY <2>1 DEF Follows
    <3> HIDE DEF v
    <3>5. v[0] = base
      BY <2>1, <3>4 DEF Follows
    <3>6. ASSUME NEW k \in 1 .. n, k <= m + 1
          PROVE  v[k] = step[v[k - 1]][k]
      <4>1. k \in 0 .. n /\ k - 1 \in 0 .. n /\ k - 1 # m + 1
        BY <3>6
      <4>2. v[k - 1] = u[k - 1]
        BY <3>4, <4>1
      <4>3. CASE k = m + 1
        <5>1. v[k] = y /\ k - 1 = m
          BY <3>4, <4>1, <4>3
        <5> QED
          BY <3>2, <4>2, <4>3, <5>1
      <4>4. CASE k # m + 1
        <5>1. v[k] = u[k] /\ k <= m
          <6>1. v[k] = u[k]
            BY <3>4, <4>1, <4>4
          <6>2. k \in Nat
            BY <4>1
          <6> QED
            BY <3>6, <4>4, <6>1, <6>2
        <5>2. u[k] = step[u[k - 1]][k]
          BY <2>1, <5>1 DEF Follows
        <5> QED
          BY <4>2, <5>1, <5>2
      <4> QED
        BY <4>3, <4>4
    <3>7. Follows(v, n, S, base, step, m + 1)
      BY <3>3, <3>5, <3>6 DEF Follows
    <3> QED
      BY <3>7
  <2> QED
    BY <2>2, <2>3
<1> HIDE DEF T
<1>3. n \in T
  BY <1>1, <1>2, AllNumbers
<1> USE DEF T
<1> QED
  BY <1>3

-----------------------------------------------------------------------------
(* Bytes: exclusive or, padding, and the attributes they make up.          *)

\* A byte masked with a byte of the cookie is a byte.
LEMMA XorByte ==
  ASSUME NEW x \in Byte, NEW c \in {33, 18, 164, 66}
  PROVE  BitXor(x, c) \in Byte
BY DEF BitXor, Byte
\* Masking twice with the same byte undoes it.
LEMMA XorTwice ==
  ASSUME NEW x \in Byte, NEW c \in {33, 18, 164, 66}
  PROVE  BitXor(BitXor(x, c), c) = x
<1>1. CASE c = 33
  BY <1>1, SMTT(60) DEF BitXor, Byte
<1>2. CASE c = 18
  BY <1>2, SMTT(60) DEF BitXor, Byte
<1>3. CASE c = 164
  BY <1>3, SMTT(60) DEF BitXor, Byte
<1>4. CASE c = 66
  BY <1>4, SMTT(60) DEF BitXor, Byte
<1> QED
  BY <1>1, <1>2, <1>3, <1>4

LEMMA Quarters ==
  ASSUME NEW m \in Nat
  PROVE  m \div 4 \in Int /\ m % 4 \in 0 .. 3 /\ m = 4 * (m \div 4) + (m % 4)
OBVIOUS

\* The code rounds up by as many bytes as the server pads with.
LEMMA PaddingIs ==
  ASSUME NEW n \in Nat
  PROVE  Padding(n) \in 0 .. 3 /\ (n + Padding(n)) % 4 = 0 /\ Padded(n) = n + Padding(n)
<1>1. \E k \in 0 .. 3 : (n + k) % 4 = 0
  <2>1. n % 4 \in 0 .. 3
    OBVIOUS
  <2> QED
    BY <2>1
<1>2. Padding(n) \in 0 .. 3 /\ (n + Padding(n)) % 4 = 0
  BY <1>1 DEF Padding
<1>3. PICK p \in 0 .. 3 : p = Padding(n)
  BY <1>2
<1>4. PICK q \in Int : n + p = 4 * q
  <2>1. PICK m \in Nat : m = n + p
    OBVIOUS
  <2>2. m % 4 = 0
    BY <1>2, <1>3, <2>1
  <2>3. m \div 4 \in Int /\ m = 4 * (m \div 4)
    BY <2>2, Quarters
  <2> QED
    BY <2>1, <2>3
<1>5. (n + 3) \div 4 = q
  BY <1>3, <1>4
<1> QED
  BY <1>2, <1>3, <1>5, <1>4 DEF Padded

\* A number below 65536 in two bytes.
LEMMA TwoBytes ==
  ASSUME NEW n \in Uint16
  PROVE  n \div 256 \in Byte /\ n % 256 \in Byte /\ (n \div 256) * 256 + (n % 256) = n
BY DEF Byte, Uint16

\* Lengths are numbers.
LEMMA Uint16Nat == Uint16 \subseteq Nat
BY DEF Uint16

Four == [1 .. 4 -> Byte]

\* What the server masks, the walk unmasks.
LEMMA MaskedIs ==
  ASSUME NEW a \in Four
  PROVE  Masked(a) \in Four /\ Masked(Masked(a)) = a
<1>1. \A k \in 1 .. 4 : MagicCookie[k] \in {33, 18, 164, 66}
  BY DEF MagicCookie
<1>2. Masked(a) \in Four
  BY <1>1, XorByte DEF Masked, Four
<1>3. \A k \in 1 .. 4 : BitXor(BitXor(a[k], MagicCookie[k]), MagicCookie[k]) = a[k]
  BY <1>1, XorTwice DEF Four
<1> QED
  BY <1>2, <1>3 DEF Masked, Four

\* Zeros are bytes, as many as asked for.
ZerosIs == \A n \in Nat : Zeros(n) \in Seq(Byte) /\ Len(Zeros(n)) = n
LEMMA ZerosAre == ZerosIs
<1> SUFFICES ASSUME NEW n \in Nat
             PROVE  Zeros(n) \in Seq(Byte) /\ Len(Zeros(n)) = n
  BY DEF ZerosIs
<1>1. Zeros(n) \in [1 .. n -> Byte]
  BY DEF Zeros, Byte
<1> QED
  BY <1>1

\* A function on 1 .. n is a sequence.
LEMMA BytesAre ==
  ASSUME NEW n \in Nat, NEW f \in [1 .. n -> Byte]
  PROVE  f \in Seq(Byte) /\ Len(f) = n
OBVIOUS

\* An address is four bytes.
LEMMA FourIs ==
  ASSUME NEW a \in Four
  PROVE  a \in Seq(Byte) /\ Len(a) = 4
<1>1. a \in [1 .. 4 -> Byte]
  BY DEF Four
<1> QED
  BY <1>1, BytesAre

\* The address as it stands in the datagram.
Sent(a) == IF a.type = XOR_MAPPED_ADDRESS THEN Masked(a.address) ELSE a.address

\* An attribute as it is laid out: how long it is, and what stands where.
LEMMA LayoutIs ==
  ASSUME NEW a \in Attribute
  PROVE  /\ Layout(a) \in Seq(Byte)
         /\ Len(Layout(a)) = 4 + Padded(a.size)
         /\ Layout(a)[1] * 256 + Layout(a)[2] = a.type
         /\ Layout(a)[3] * 256 + Layout(a)[4] = a.size
         /\ a.size >= 8 => /\ Layout(a)[6] = a.family
                           /\ \A k \in 1 .. 4 : Layout(a)[8 + k] = Sent(a)[k]
<1> DEFINE Header == <<a.type \div 256, a.type % 256, a.size \div 256, a.size % 256>>
           Start == <<0, a.family, 28, 252>>
           Value == Start \o Sent(a) \o Zeros(a.size)
           Body == SubSeq(Value, 1, a.size)
           Pad == Zeros(Padding(a.size))
<1>1. a.size \in Uint16 /\ a.type \in Uint16 /\ a.family \in Byte /\ a.address \in Four
      /\ a.size \in Nat
  BY Uint16Nat DEF Attribute, Four
<1>2. Header \in Seq(Byte) /\ Len(Header) = 4
  BY <1>1, TwoBytes
<1>3. Start \in Seq(Byte) /\ Len(Start) = 4 /\ Start[2] = a.family
  BY <1>1 DEF Byte
<1>4. Sent(a) \in Seq(Byte) /\ Len(Sent(a)) = 4
  <2>1. Sent(a) \in Four
    BY <1>1, MaskedIs DEF Sent
  <2> QED
    BY <2>1, FourIs
<1>5. Zeros(a.size) \in Seq(Byte) /\ Len(Zeros(a.size)) = a.size
  BY <1>1, ZerosAre DEF ZerosIs
<1>6. /\ Padding(a.size) \in Nat
      /\ Padded(a.size) = a.size + Padding(a.size)
  <2>1. Padding(a.size) \in 0 .. 3 /\ Padded(a.size) = a.size + Padding(a.size)
    BY <1>1, PaddingIs
  <2> QED
    BY <2>1
<1>7. Pad \in Seq(Byte) /\ Len(Pad) = Padding(a.size)
  BY <1>6, ZerosAre DEF ZerosIs
<1>8. Header[1] * 256 + Header[2] = a.type /\ Header[3] * 256 + Header[4] = a.size
  BY <1>1, TwoBytes
<1>9. Layout(a) = Header \o Body \o Pad
  BY DEF Layout, Sent
<1> HIDE DEF Header, Start, Pad
<1>10. /\ Value \in Seq(Byte)
       /\ Len(Value) = 8 + a.size
       /\ Value[2] = a.family
       /\ \A k \in 1 .. 4 : Value[4 + k] = Sent(a)[k]
  <2> DEFINE Most == Start \o Sent(a)
  <2>1. /\ Most \in Seq(Byte)
        /\ Len(Most) = 8
        /\ \A k \in 1 .. 4 : Most[k] = Start[k]
        /\ \A k \in 1 .. 4 : Most[4 + k] = Sent(a)[k]
    <3>1. Joins(Byte, Start, Sent(a))
      BY <1>3, <1>4, Joined
    <3>2. /\ Most \in Seq(Byte)
          /\ Len(Most) = 4 + 4
          /\ \A k \in 1 .. 4 : Most[k] = Start[k]
      BY <1>3, <1>4, <3>1 DEF Joins
    <3>3. \A k \in 1 .. 4 : (Start \o Sent(a))[Len(Start) + k] = Sent(a)[k]
      BY <1>3, <1>4, <3>1 DEF Joins
    <3>4. Len(Start) = 4
      BY <1>3
    <3>5. \A k \in 1 .. 4 : (Start \o Sent(a))[4 + k] = Sent(a)[k]
      BY <3>3, <3>4, Zenon
    <3>6. 4 + 4 = 8
      OBVIOUS
    <3> QED
      BY <3>2, <3>5, <3>6, Zenon
  <2> HIDE DEF Most
  <2>2. Joins(Byte, Most, Zeros(a.size))
    BY <1>5, <2>1, Joined
  <2>3. Value = Most \o Zeros(a.size)
    BY DEF Most
  <2> HIDE DEF Value
  <2>4. \A k \in 1 .. 8 : Value[k] = Most[k]
    BY <2>1, <2>2, <2>3 DEF Joins
  <2>5. Value \in Seq(Byte) /\ Len(Value) = 8 + a.size
    BY <1>5, <2>1, <2>2, <2>3 DEF Joins
  <2>6. Value[2] = a.family
    BY <1>3, <2>1, <2>4
  <2>7. ASSUME NEW k \in 1 .. 4
        PROVE  Value[4 + k] = Sent(a)[k]
    BY <2>1, <2>4
  <2> QED
    BY <2>5, <2>6, <2>7
<1> HIDE DEF Value
<1>11. Body \in Seq(Byte) /\ Len(Body) = a.size /\ \A k \in 1 .. a.size : Body[k] = Value[k]
  BY <1>1, <1>10
<1> HIDE DEF Body
<1>12. Joins(Byte, Header, Body) /\ Joins(Byte, Header \o Body, Pad)
  <2>1. Joins(Byte, Header, Body)
    BY <1>2, <1>11, Joined
  <2>2. Header \o Body \in Seq(Byte)
    BY <2>1 DEF Joins
  <2> QED
    BY <1>7, <2>1, <2>2, Joined
<1>13. Layout(a) \in Seq(Byte) /\ Len(Layout(a)) = 4 + a.size + Padding(a.size)
  BY <1>2, <1>7, <1>9, <1>11, <1>12 DEF Joins
<1>14. /\ \A k \in 1 .. 4 : Layout(a)[k] = Header[k]
       /\ \A k \in 1 .. a.size : Layout(a)[4 + k] = Body[k]
  <2>1. \A k \in 1 .. 4 + a.size : Layout(a)[k] = (Header \o Body)[k]
    BY <1>2, <1>9, <1>11, <1>12 DEF Joins
  <2>2. \A k \in 1 .. 4 : (Header \o Body)[k] = Header[k]
    BY <1>2, <1>12 DEF Joins
  <2>3. \A k \in 1 .. a.size : (Header \o Body)[4 + k] = Body[k]
    BY <1>2, <1>11, <1>12 DEF Joins
  <2>4. \A k \in 1 .. 4 : k \in 1 .. 4 + a.size
    BY <1>1
  <2>5. \A k \in 1 .. a.size : 4 + k \in 1 .. 4 + a.size
    BY <1>1
  <2> QED
    BY <2>1, <2>2, <2>3, <2>4, <2>5
<1>15. /\ Layout(a)[1] * 256 + Layout(a)[2] = a.type
       /\ Layout(a)[3] * 256 + Layout(a)[4] = a.size
  BY <1>8, <1>14
<1>16. ASSUME a.size >= 8
       PROVE  /\ Layout(a)[6] = a.family
              /\ \A k \in 1 .. 4 : Layout(a)[8 + k] = Sent(a)[k]
  <2>1. Layout(a)[4 + 2] = Body[2] /\ Body[2] = Value[2]
    BY <1>1, <1>11, <1>14, <1>16
  <2>2. ASSUME NEW k \in 1 .. 4
        PROVE  Layout(a)[8 + k] = Sent(a)[k]
    <3>1. Layout(a)[4 + (4 + k)] = Body[4 + k] /\ Body[4 + k] = Value[4 + k]
      BY <1>1, <1>11, <1>14, <1>16
    <3> QED
      BY <1>10, <3>1
  <2> QED
    BY <1>10, <2>1, <2>2
<1> QED
  BY <1>1, <1>6, <1>13, <1>15, <1>16

\* What the recursion in Upto says of u.
Piecewise(u, list) ==
  u = [k \in 0 .. Len(list) |-> IF k = 0 THEN Zeros(20) ELSE u[k - 1] \o Layout(list[k])]

\* Such a u lists ever longer sequences of bytes.
LEMMA PiecewiseIs ==
  ASSUME NEW list \in Seq(Attribute), NEW u, Piecewise(u, list)
  PROVE  /\ u \in [0 .. Len(list) -> Seq(Byte)]
         /\ u[0] = Zeros(20)
         /\ \A k \in 1 .. Len(list) : u[k] = u[k - 1] \o Layout(list[k])
<1>1. Len(list) \in Nat /\ \A k \in 1 .. Len(list) : Layout(list[k]) \in Seq(Byte)
  BY LayoutIs
<1>2. Zeros(20) \in Seq(Byte)
  BY ZerosAre DEF ZerosIs
<1>3. DOMAIN u = 0 .. Len(list) /\ u = [k \in 0 .. Len(list) |-> u[k]]
  BY DEF Piecewise
<1>4. u[0] = Zeros(20)
  BY <1>1 DEF Piecewise
<1>5. \A k \in 1 .. Len(list) : u[k] = u[k - 1] \o Layout(list[k])
  <2> SUFFICES ASSUME NEW k \in 1 .. Len(list)
               PROVE  u[k] = u[k - 1] \o Layout(list[k])
    OBVIOUS
  <2>1. k \in 0 .. Len(list) /\ k # 0
    BY <1>1
  <2> QED
    BY <2>1 DEF Piecewise
<1> DEFINE T == {k \in Nat : k <= Len(list) => u[k] \in Seq(Byte)}
<1>6. 0 \in T
  BY <1>2, <1>4
<1>7. ASSUME NEW k \in Nat, k \in T
      PROVE  k + 1 \in T
  <2>1. CASE k + 1 <= Len(list)
    <3>1. k + 1 \in 1 .. Len(list) /\ (k + 1) - 1 = k /\ k <= Len(list)
      BY <1>1, <2>1
    <3>2. u[k] \in Seq(Byte)
      BY <1>7, <3>1
    <3>3. u[k + 1] = u[k] \o Layout(list[k + 1])
      BY <1>5, <3>1
    <3>4. u[k + 1] \in Seq(Byte)
      BY <1>1, <3>1, <3>2, <3>3
    <3> QED
      BY <3>4
  <2>2. CASE ~(k + 1 <= Len(list))
    BY <2>2
  <2> QED
    BY <2>1, <2>2
<1> HIDE DEF T
<1>8. Nat \subseteq T
  BY <1>6, <1>7, AllNumbers
<1>9. \A k \in 0 .. Len(list) : u[k] \in Seq(Byte)
  BY <1>1, <1>8 DEF T
<1> QED
  BY <1>3, <1>4, <1>5, <1>9

\* Upto is such a u.
LEMMA UptoIs ==
  ASSUME NEW list \in Seq(Attribute)
  PROVE  /\ Upto(list) \in [0 .. Len(list) -> Seq(Byte)]
         /\ Upto(list)[0] = Zeros(20)
         /\ \A k \in 1 .. Len(list) : Upto(list)[k] = Upto(list)[k - 1] \o Layout(list[k])
<1> DEFINE step == [x \in Seq(Byte) |-> [k \in 1 .. Len(list) |-> x \o Layout(list[k])]]
<1>1. Len(list) \in Nat /\ \A k \in 1 .. Len(list) : Layout(list[k]) \in Seq(Byte)
  BY LayoutIs
<1>2. Zeros(20) \in Seq(Byte)
  BY ZerosAre DEF ZerosIs
<1>3. \A x \in Seq(Byte), k \in 1 .. Len(list) : step[x][k] = x \o Layout(list[k])
  OBVIOUS
<1> HIDE DEF step
<1>4. ASSUME NEW x \in Seq(Byte), NEW k \in 1 .. Len(list)
      PROVE  step[x][k] \in Seq(Byte)
  <2>1. Layout(list[k]) \in Seq(Byte)
    BY <1>1
  <2> QED
    BY <1>3, <2>1, Joined DEF Joins
<1>5. PICK u : Follows(u, Len(list), Seq(Byte), Zeros(20), step, Len(list))
  <2>1. \A x \in Seq(Byte), k \in 1 .. Len(list) : step[x][k] \in Seq(Byte)
    BY <1>4
  <2>2. Len(list) \in Nat
    OBVIOUS
  <2> QED
    BY <1>2, <2>1, <2>2, RecursionExists, Zenon
<1>6. /\ u \in [0 .. Len(list) -> Seq(Byte)]
      /\ u[0] = Zeros(20)
      /\ \A k \in 1 .. Len(list) : u[k] = step[u[k - 1]][k]
  BY <1>5 DEF Follows
<1>7. \A k \in 1 .. Len(list) : u[k] = u[k - 1] \o Layout(list[k])
  <2> SUFFICES ASSUME NEW k \in 1 .. Len(list)
               PROVE  u[k] = u[k - 1] \o Layout(list[k])
    OBVIOUS
  <2>1. k - 1 \in 0 .. Len(list)
    BY <1>1
  <2>2. u[k - 1] \in Seq(Byte)
    BY <1>6, <2>1
  <2> QED
    BY <1>3, <1>6, <2>2
<1>8. Piecewise(u, list)
  <2>1. \A k \in 0 .. Len(list) : k = 0 \/ k \in 1 .. Len(list)
    BY <1>1
  <2> QED
    BY <1>6, <1>7, <2>1, Zenon DEF Piecewise
<1>9. Upto(list) = CHOOSE v : Piecewise(v, list)
  BY DEF Upto, Piecewise
<1>10. Piecewise(Upto(list), list)
  BY <1>8, <1>9
<1> QED
  BY <1>10, PiecewiseIs

-----------------------------------------------------------------------------
(* The datagram: where each attribute begins, and what stands there.       *)

\* t begins with s.
Extended(s, t) == Len(s) <= Len(t) /\ \A j \in 1 .. Len(s) : t[j] = s[j]

\* What is appended leaves the beginning as it is.
LEMMA JoinExtends ==
  ASSUME NEW r \in Seq(Byte), NEW s \in Seq(Byte), NEW t \in Seq(Byte), Extended(r, s)
  PROVE  Extended(r, s \o t)
<1>1. Joins(Byte, s, t)
  BY Joined
<1>2. Len(r) <= Len(s \o t)
  BY <1>1 DEF Joins, Extended
<1>3. ASSUME NEW j \in 1 .. Len(r)
      PROVE  (s \o t)[j] = r[j]
  <2>1. j \in 1 .. Len(s)
    BY DEF Extended
  <2> QED
    BY <1>1, <2>1 DEF Joins, Extended
<1> QED
  BY <1>2, <1>3 DEF Extended

\* More attributes leave those before as they are.
LEMMA UptoExtends ==
  ASSUME NEW list \in Seq(Attribute), NEW k \in 0 .. Len(list), NEW m \in 0 .. Len(list), k <= m
  PROVE  Extended(Upto(list)[k], Upto(list)[m])
<1> DEFINE u == Upto(list)
           n == Len(list)
           T == {d \in Nat : k + d <= n => Extended(u[k], u[k + d])}
<1>1. /\ u \in [0 .. n -> Seq(Byte)]
      /\ \A l \in 1 .. n : u[l] = u[l - 1] \o Layout(list[l]) /\ Layout(list[l]) \in Seq(Byte)
  <2>1. \A l \in 1 .. n : list[l] \in Attribute
    OBVIOUS
  <2>2. \A l \in 1 .. n : Layout(list[l]) \in Seq(Byte)
    BY <2>1, LayoutIs
  <2> QED
    BY <2>2, UptoIs
<1>2. n \in Nat /\ k \in Nat /\ m \in Nat /\ m - k \in Nat
  OBVIOUS
<1> HIDE DEF u, n
<1>3. 0 \in T
  BY <1>1, <1>2 DEF Extended
<1>4. ASSUME NEW d \in Nat, d \in T
      PROVE  d + 1 \in T
  <2> SUFFICES ASSUME k + (d + 1) <= n
               PROVE  Extended(u[k], u[k + (d + 1)])
    OBVIOUS
  <2>1. PICK l \in 1 .. n : l = k + (d + 1) /\ l - 1 = k + d
    BY <1>2
  <2>2. u[k] \in Seq(Byte) /\ u[l - 1] \in Seq(Byte) /\ Layout(list[l]) \in Seq(Byte)
    <3>1. k \in 0 .. n /\ l - 1 \in 0 .. n
      BY <1>2, <2>1
    <3> QED
      BY <1>1, <3>1
  <2>3. Extended(u[k], u[l - 1])
    <3>1. k + d <= n
      BY <1>2
    <3>2. Extended(u[k], u[k + d])
      BY <1>4, <3>1
    <3> QED
      BY <2>1, <3>2, Zenon
  <2>4. u[l] = u[l - 1] \o Layout(list[l])
    BY <1>1
  <2>5. Extended(u[k], u[l])
    BY <2>2, <2>3, <2>4, JoinExtends
  <2> QED
    BY <2>1, <2>5, Zenon
<1> HIDE DEF T
<1>5. m - k \in T
  BY <1>2, <1>3, <1>4, AllNumbers
<1>6. k + (m - k) = m /\ m <= n
  BY <1>2 DEF n
<1> QED
  BY <1>5, <1>6 DEF T, u

\* The first attribute begins after the header, the last ends with the datagram.
LEMMA BeginIs ==
  ASSUME NEW list \in Seq(Attribute)
  PROVE  /\ Datagram(list) \in Seq(Byte)
         /\ Begin(list, 1) = 20
         /\ Begin(list, Len(list) + 1) = Len(Datagram(list))
         /\ \A k \in 1 .. Len(list) + 1 : Begin(list, k) \in Nat /\ Begin(list, k) >= 20
<1>1. /\ Upto(list) \in [0 .. Len(list) -> Seq(Byte)]
      /\ Len(Upto(list)[0]) = 20
      /\ Len(list) \in Nat
  <2>1. Len(Zeros(20)) = 20
    BY ZerosAre DEF ZerosIs
  <2>2. /\ Upto(list) \in [0 .. Len(list) -> Seq(Byte)]
        /\ Upto(list)[0] = Zeros(20)
    BY UptoIs
  <2> QED
    BY <2>1, <2>2
<1>2. Datagram(list) \in Seq(Byte)
  BY <1>1 DEF Datagram
<1>3. Begin(list, 1) = 20
  BY <1>1 DEF Begin
<1>4. Begin(list, Len(list) + 1) = Len(Datagram(list))
  <2>1. (Len(list) + 1) - 1 = Len(list)
    BY <1>1
  <2> QED
    BY <2>1 DEF Begin, Datagram
<1>5. ASSUME NEW k \in 1 .. Len(list) + 1
      PROVE  Begin(list, k) \in Nat /\ Begin(list, k) >= 20
  <2>1. k - 1 \in 0 .. Len(list) /\ 0 \in 0 .. Len(list) /\ 0 <= k - 1
    BY <1>1
  <2>2. Upto(list)[k - 1] \in Seq(Byte)
    BY <1>1, <2>1
  <2>3. Extended(Upto(list)[0], Upto(list)[k - 1])
    BY <2>1, UptoExtends
  <2> QED
    BY <1>1, <2>2, <2>3 DEF Begin, Extended
<1> QED
  BY <1>2, <1>3, <1>4, <1>5

\* Later attributes begin later.
LEMMA BeginOrder ==
  ASSUME NEW list \in Seq(Attribute),
         NEW k \in 1 .. Len(list) + 1, NEW l \in 1 .. Len(list) + 1, k <= l
  PROVE  Begin(list, k) <= Begin(list, l)
<1>1. k - 1 \in 0 .. Len(list) /\ l - 1 \in 0 .. Len(list) /\ k - 1 <= l - 1
  OBVIOUS
<1>2. Extended(Upto(list)[k - 1], Upto(list)[l - 1])
  BY <1>1, UptoExtends
<1> QED
  BY <1>2 DEF Extended, Begin

\* The datagram d has the attribute a after its first b bytes.
Has(d, b, a) ==
  /\ b + 4 + Padded(a.size) <= Len(d)
  /\ d[b + 1] * 256 + d[b + 2] = a.type
  /\ d[b + 3] * 256 + d[b + 4] = a.size
  /\ a.size >= 8 => d[b + 6] = a.family /\ \A j \in 1 .. 4 : d[b + (8 + j)] = Sent(a)[j]

\* The datagram has each attribute where it begins, and the next one behind it.
LEMMA LaidOut ==
  ASSUME NEW list \in Seq(Attribute), NEW k \in 1 .. Len(list)
  PROVE  /\ Begin(list, k + 1) = Begin(list, k) + 4 + Padded(list[k].size)
         /\ Has(Datagram(list), Begin(list, k), list[k])
<1> DEFINE a == list[k]
           u == Upto(list)
           b == Begin(list, k)
<1>1. a \in Attribute
  OBVIOUS
<1>2. /\ Layout(a) \in Seq(Byte)
      /\ Len(Layout(a)) = 4 + Padded(a.size)
      /\ Layout(a)[1] * 256 + Layout(a)[2] = a.type
      /\ Layout(a)[3] * 256 + Layout(a)[4] = a.size
      /\ a.size >= 8 => /\ Layout(a)[6] = a.family
                        /\ \A j \in 1 .. 4 : Layout(a)[8 + j] = Sent(a)[j]
  BY <1>1, LayoutIs
<1>3. /\ u \in [0 .. Len(list) -> Seq(Byte)]
      /\ u[k] = u[k - 1] \o Layout(a)
  BY UptoIs
<1>4. k - 1 \in 0 .. Len(list) /\ k \in 0 .. Len(list) /\ (k + 1) - 1 = k /\ k <= Len(list)
      /\ Len(list) \in 0 .. Len(list)
  OBVIOUS
<1>5. u[k - 1] \in Seq(Byte) /\ u[k] \in Seq(Byte)
  BY <1>3, <1>4
<1>6. Len(u[k - 1]) = b /\ Len(u[k]) = Begin(list, k + 1)
  BY <1>4 DEF Begin
<1>7. Extended(u[k], Datagram(list))
  BY <1>4, UptoExtends DEF Datagram
<1>8. a.size \in Nat /\ Padded(a.size) \in Nat /\ Padded(a.size) >= a.size
  <2>1. a.size \in Nat
    BY <1>1, Uint16Nat DEF Attribute
  <2> QED
    BY <2>1 DEF Padded
<1>9. b \in Nat
  BY <1>5, <1>6
<1> HIDE DEF a, u, b
<1>10. Joins(Byte, u[k - 1], Layout(a))
  BY <1>2, <1>5, Joined
<1>11. Begin(list, k + 1) = b + 4 + Padded(a.size)
  BY <1>2, <1>3, <1>6, <1>8, <1>9, <1>10 DEF Joins
<1>12. b + 4 + Padded(a.size) <= Len(Datagram(list))
  BY <1>6, <1>7, <1>11 DEF Extended
<1>13. ASSUME NEW j \in 1 .. 4 + Padded(a.size)
       PROVE  Datagram(list)[b + j] = Layout(a)[j]
  <2>1. u[k][b + j] = Layout(a)[j]
    BY <1>2, <1>3, <1>6, <1>10 DEF Joins
  <2>2. b + j \in 1 .. Len(u[k])
    BY <1>6, <1>8, <1>9, <1>11
  <2> QED
    BY <1>7, <2>1, <2>2 DEF Extended
<1>14. \A j \in 1 .. 4 : j \in 1 .. 4 + Padded(a.size)
  BY <1>8
<1>15. /\ Datagram(list)[b + 1] * 256 + Datagram(list)[b + 2] = a.type
       /\ Datagram(list)[b + 3] * 256 + Datagram(list)[b + 4] = a.size
  <2>1. /\ Datagram(list)[b + 1] = Layout(a)[1]
        /\ Datagram(list)[b + 2] = Layout(a)[2]
        /\ Datagram(list)[b + 3] = Layout(a)[3]
        /\ Datagram(list)[b + 4] = Layout(a)[4]
    BY <1>13, <1>14
  <2> QED
    BY <1>2, <2>1
<1>16. ASSUME a.size >= 8
       PROVE  /\ Datagram(list)[b + 6] = a.family
              /\ \A j \in 1 .. 4 : Datagram(list)[b + (8 + j)] = Sent(a)[j]
  <2>1. 6 \in 1 .. 4 + Padded(a.size)
    BY <1>8, <1>16
  <2>2. \A j \in 1 .. 4 : 8 + j \in 1 .. 4 + Padded(a.size)
    BY <1>8, <1>16
  <2>3. Datagram(list)[b + 6] = a.family
    BY <1>2, <1>13, <1>16, <2>1
  <2>4. \A j \in 1 .. 4 : Datagram(list)[b + (8 + j)] = Layout(a)[8 + j]
    BY <1>13, <2>2
  <2> QED
    BY <1>2, <1>16, <2>3, <2>4
<1> QED
  BY <1>11, <1>12, <1>15, <1>16 DEF Has, a, b

-----------------------------------------------------------------------------
(* What the walk reads of it.                                              *)

\* What has arrived is the beginning of what the server laid out.
AnswerInv ==
  /\ attributes \in Seq(Attribute)
  /\ \A k \in DOMAIN attributes : attributes[k].address \in DOMAIN Dotted
  /\ \E n \in 0 .. Len(Datagram(attributes)) : message = SubSeq(Datagram(attributes), 1, n)

\* What has arrived agrees with the datagram, as far as it goes.
LEMMA MessageIs ==
  ASSUME AnswerInv
  PROVE  /\ message \in Seq(Byte)
         /\ Len(message) <= Len(Datagram(attributes))
         /\ \A j \in 1 .. Len(message) : message[j] = Datagram(attributes)[j]
<1>1. PICK d : d = Datagram(attributes)
  OBVIOUS
<1>2. d \in Seq(Byte)
  BY <1>1, BeginIs DEF AnswerInv
<1>3. PICK n \in 0 .. Len(d) : message = SubSeq(d, 1, n)
  BY <1>1 DEF AnswerInv
<1>4. Len(message) = n /\ message \in Seq(Byte) /\ \A j \in 1 .. n : message[j] = d[j]
  BY <1>2, <1>3
<1> QED
  BY <1>1, <1>2, <1>3, <1>4

\* The attribute is one to stop at.
Passed(k) == Whole(k) /\ CarriesAddress(k)

\* The walk stands where an attribute begins, or at the end, and none of those
\* before was one to stop at.
At(k) == i = Begin(attributes, k) /\ \A j \in 1 .. k - 1 : ~Passed(j)

\* What the walk reads at the beginning of an attribute is what the server told.
LEMMA HeaderRead ==
  ASSUME AnswerInv, NEW k \in 1 .. Len(attributes), i = Begin(attributes, k), HasAttribute
  PROVE  AttrType = attributes[k].type /\ AttrLen = attributes[k].size
<1>1. PICK d : d = Datagram(attributes)
  OBVIOUS
<1>2. /\ d[i + 1] * 256 + d[i + 2] = attributes[k].type
      /\ d[i + 3] * 256 + d[i + 4] = attributes[k].size
  BY <1>1, LaidOut DEF AnswerInv, Has
<1>3. i \in Nat /\ Len(message) \in Nat
  <2>1. k \in 1 .. Len(attributes) + 1
    BY DEF AnswerInv
  <2> QED
    BY <2>1, BeginIs, MessageIs DEF AnswerInv
<1>4. \A j \in 1 .. 4 : i + j \in 1 .. Len(message)
  BY <1>3 DEF HasAttribute
<1>5. \A j \in 1 .. 4 : message[i + j] = d[i + j]
  BY <1>1, <1>4, MessageIs
<1>6. message[i + 1] = d[i + 1] /\ message[i + 2] = d[i + 2]
      /\ message[i + 3] = d[i + 3] /\ message[i + 4] = d[i + 4]
  BY <1>5
<1>7. AttrType = message[i + 1] * 256 + message[i + 2]
  BY DEF AttrType, u16
<1>8. AttrLen = message[i + 3] * 256 + message[i + 4]
  <2>1. (i + 2) + 1 = i + 3 /\ (i + 2) + 2 = i + 4
    BY <1>3
  <2> QED
    BY <2>1 DEF AttrLen, u16
<1> QED
  BY <1>2, <1>6, <1>7, <1>8

\* The numbers of an attribute, and where the next one begins.
LEMMA AttributeIs ==
  ASSUME AnswerInv, NEW k \in 1 .. Len(attributes)
  PROVE  /\ attributes[k] \in Attribute
         /\ attributes[k].size \in Nat
         /\ attributes[k].address \in Four
         /\ Begin(attributes, k) \in Nat /\ Begin(attributes, k) >= 20
         /\ Begin(attributes, k + 1) = Begin(attributes, k) + 4 + Padded(attributes[k].size)
         /\ Padded(attributes[k].size) \in Nat
         /\ Padded(attributes[k].size) >= attributes[k].size
         /\ Padded(attributes[k].size) <= attributes[k].size + 3
<1>1. attributes[k] \in Attribute /\ k \in 1 .. Len(attributes) + 1
  BY DEF AnswerInv
<1>2. attributes[k].size \in Nat /\ attributes[k].address \in Four
  BY <1>1, Uint16Nat DEF Attribute, Four
<1>3. Begin(attributes, k) \in Nat /\ Begin(attributes, k) >= 20
  BY <1>1, BeginIs DEF AnswerInv
<1>4. Begin(attributes, k + 1) = Begin(attributes, k) + 4 + Padded(attributes[k].size)
  BY LaidOut DEF AnswerInv
<1>5. /\ Padded(attributes[k].size) \in Nat
      /\ Padded(attributes[k].size) >= attributes[k].size
      /\ Padded(attributes[k].size) <= attributes[k].size + 3
  BY <1>2 DEF Padded
<1> QED
  BY <1>1, <1>2, <1>3, <1>4, <1>5

\* The walk finds a value that is there whole, and only such a one.
LEMMA ValueRead ==
  ASSUME AnswerInv, NEW k \in 1 .. Len(attributes), i = Begin(attributes, k)
  PROVE  HasValue <=> Whole(k)
<1>1. /\ i \in Nat /\ i >= 20 /\ attributes[k].size \in Nat /\ Len(message) \in Nat
  BY AttributeIs, MessageIs
<1>2. ASSUME HasValue
      PROVE  Whole(k)
  <2>1. AttrLen = attributes[k].size
    BY <1>2, HeaderRead DEF HasValue
  <2> QED
    BY <1>1, <1>2, <2>1 DEF HasValue, ValueEnd, ValueStart, Whole
<1>3. ASSUME Whole(k)
      PROVE  HasValue
  <2>1. HasAttribute
    BY <1>1, <1>3 DEF Whole, HasAttribute
  <2>2. AttrLen = attributes[k].size
    BY <2>1, HeaderRead
  <2> QED
    BY <1>1, <1>3, <2>1, <2>2 DEF HasValue, ValueEnd, ValueStart, Whole
<1> QED
  BY <1>2, <1>3

\* It stops at an address, and only there.
LEMMA AddressRead ==
  ASSUME AnswerInv, NEW k \in 1 .. Len(attributes), i = Begin(attributes, k), HasValue
  PROVE  IsAddress <=> CarriesAddress(k)
<1>1. /\ i \in Nat /\ attributes[k].size \in Nat /\ Len(message) \in Nat
  BY AttributeIs, MessageIs
<1>2. AttrType = attributes[k].type /\ AttrLen = attributes[k].size
  BY HeaderRead DEF HasValue
<1>3. ASSUME AttrLen >= 8
      PROVE  message[ValueStart + 2] = attributes[k].family
  <2>1. ValueStart + 2 = i + 6 /\ i + 6 \in 1 .. Len(message)
    BY <1>1, <1>2, <1>3 DEF ValueStart, HasValue, ValueEnd
  <2>2. Datagram(attributes)[i + 6] = attributes[k].family
    BY <1>2, <1>3, LaidOut DEF AnswerInv, Has
  <2> QED
    BY <2>1, <2>2, MessageIs
<1> QED
  BY <1>2, <1>3 DEF IsAddress, MayBeAddress, CarriesAddress

\* The n bytes after the first m.
LEMMA PartIs ==
  ASSUME NEW s \in Seq(Byte), NEW m \in Nat, NEW n \in Nat, m + n <= Len(s)
  PROVE  SubSeq(s, m + 1, m + n) = [j \in 1 .. n |-> s[m + j]]
OBVIOUS

\* And takes the address that the server told.
LEMMA AddressTaken ==
  ASSUME AnswerInv, NEW k \in 1 .. Len(attributes), i = Begin(attributes, k), TakesAddress
  PROVE  found' = attributes[k].address
<1> DEFINE address == SubSeq(message, ValueStart + 5, ValueStart + 8)
           a == attributes[k]
<1>1. /\ i \in Nat /\ a.size \in Nat /\ Len(message) \in Nat /\ a.address \in Four
  BY AttributeIs, MessageIs
<1>2. HasValue /\ AttrLen >= 8
  BY DEF TakesAddress, IsAddress, MayBeAddress
<1>3. AttrType = a.type /\ AttrLen = a.size
  BY <1>2, HeaderRead DEF HasValue
<1>4. Sent(a) \in Four
  BY <1>1, MaskedIs DEF Sent
<1>5. ValueStart + 5 = i + 9 /\ ValueStart + 8 = i + 12 /\ i + 12 <= Len(message)
  BY <1>1, <1>2, <1>3 DEF ValueStart, HasValue, ValueEnd
<1>6. \A j \in 1 .. 4 : message[i + (8 + j)] = Sent(a)[j]
  <2>1. \A j \in 1 .. 4 : Datagram(attributes)[i + (8 + j)] = Sent(a)[j]
    BY <1>2, <1>3, LaidOut DEF AnswerInv, Has
  <2>2. \A j \in 1 .. 4 : i + (8 + j) \in 1 .. Len(message)
    BY <1>1, <1>5
  <2> QED
    BY <2>1, <2>2, MessageIs
<1> HIDE DEF a
<1>7. address = Sent(a)
  <2>1. message \in Seq(Byte)
    BY MessageIs
  <2>2. address = [j \in 1 .. 4 |-> message[i + (8 + j)]]
    <3>1. PICK m \in Nat : m = i + 8
      BY <1>1
    <3>2. m + 4 <= Len(message) /\ m + 1 = i + 9 /\ m + 4 = i + 12
      BY <1>1, <1>5, <3>1
    <3>3. SubSeq(message, m + 1, m + 4) = [j \in 1 .. 4 |-> message[m + j]]
      BY <2>1, <3>2, PartIs
    <3>4. \A j \in 1 .. 4 : m + j = i + (8 + j)
      BY <1>1, <3>1
    <3> QED
      BY <1>5, <3>2, <3>3, <3>4
  <2> HIDE DEF address
  <2>3. Sent(a) = [j \in 1 .. 4 |-> Sent(a)[j]]
    BY <1>4 DEF Four
  <2> QED
    BY <1>6, <2>2, <2>3
<1>8. found' = IF AttrType = XOR_MAPPED_ADDRESS THEN Masked(address) ELSE address
  BY DEF TakesAddress
<1> HIDE DEF address
<1>9. CASE a.type = XOR_MAPPED_ADDRESS
  BY <1>1, <1>3, <1>7, <1>8, <1>9, MaskedIs DEF Sent, a
<1>10. CASE a.type # XOR_MAPPED_ADDRESS
  BY <1>3, <1>7, <1>8, <1>10 DEF Sent, a
<1> QED
  BY <1>9, <1>10

-----------------------------------------------------------------------------
(* The invariant of the walk.                                              *)

\* The walk stands at an attribute the server laid out, and has passed none that
\* it had to stop at; once done, it has found the first of those.
WalkInv ==
  /\ world \in Worlds
  /\ AnswerInv
  /\ stun \in {"idle", "asked", "walking", "done"}
  /\ stun \in {"idle", "asked"} => message = <<>>
  /\ i \in Nat /\ 20 <= i /\ i <= Len(message) + 20
  /\ found \in {NoAddress} \cup DOMAIN Dotted
  /\ stun = "walking" => \E k \in 1 .. Len(attributes) + 1 : At(k)
  /\ FindsFirstAddress

\* Where the walk stands: at an attribute, or at the end.
LEMMA Stands ==
  ASSUME WalkInv, stun = "walking"
  PROVE  \E k \in 1 .. Len(attributes) + 1 :
           /\ At(k)
           /\ k = Len(attributes) + 1 => ~HasValue
<1>1. PICK k \in 1 .. Len(attributes) + 1 : At(k)
  BY DEF WalkInv
<1>2. ASSUME k = Len(attributes) + 1
      PROVE  ~HasAttribute
  <2>1. i = Len(Datagram(attributes))
    BY <1>1, <1>2, BeginIs DEF WalkInv, AnswerInv, At
  <2>2. i \in Nat /\ Len(message) \in Nat /\ Len(message) <= i
    BY <2>1, MessageIs DEF WalkInv
  <2> QED
    BY <2>2 DEF HasAttribute
<1> QED
  BY <1>1, <1>2 DEF HasValue

\* When the walk gives up, no attribute that follows has arrived.
LEMMA NoneLeft ==
  ASSUME WalkInv, GivesUp
  PROVE  \A j \in 1 .. Len(attributes) : ~Passed(j)
<1> SUFFICES ASSUME NEW j \in 1 .. Len(attributes), Whole(j), CarriesAddress(j)
             PROVE  FALSE
  BY DEF Passed
<1>1. PICK k \in 1 .. Len(attributes) + 1 : At(k)
  BY Stands DEF GivesUp
<1>2. Len(attributes) \in Nat /\ Len(message) \in Nat
  BY MessageIs DEF WalkInv, AnswerInv
<1>3. ~(j < k)
  <2>1. ASSUME j < k
        PROVE  j \in 1 .. k - 1
    BY <1>2, <2>1
  <2> QED
    BY <1>1, <2>1 DEF At, Passed
<1>4. k \in 1 .. Len(attributes)
  BY <1>2, <1>3
<1>5. ~Whole(k)
  BY <1>1, <1>4, ValueRead DEF WalkInv, At, GivesUp
<1>6. j # k
  BY <1>5
<1>7. /\ Begin(attributes, k + 1) <= Begin(attributes, j)
      /\ k + 1 \in 1 .. Len(attributes) + 1
  <2>1. k + 1 \in 1 .. Len(attributes) + 1 /\ j \in 1 .. Len(attributes) + 1 /\ k + 1 <= j
    BY <1>2, <1>3, <1>4, <1>6
  <2> QED
    BY <2>1, BeginOrder DEF WalkInv, AnswerInv
<1>8. /\ Begin(attributes, k) \in Nat
      /\ Begin(attributes, j) \in Nat
      /\ attributes[k].size \in Nat
      /\ attributes[j].size \in Nat
      /\ Begin(attributes, k + 1) = Begin(attributes, k) + 4 + Padded(attributes[k].size)
      /\ Padded(attributes[k].size) \in Nat
      /\ Padded(attributes[k].size) >= attributes[k].size
  BY <1>4, AttributeIs DEF WalkInv
<1>9. Begin(attributes, j) + 4 + attributes[j].size <= Len(message)
  BY DEF Whole
<1>10. Begin(attributes, k) + 4 + attributes[k].size <= Len(message)
  <2>1. PICK b \in Nat, p \in Nat, z \in Nat :
          b = Begin(attributes, k) /\ p = Padded(attributes[k].size) /\ z = attributes[k].size
    BY <1>8
  <2>2. PICK c \in Nat, y \in Nat, n \in Nat :
          c = Begin(attributes, j) /\ y = attributes[j].size /\ n = Len(message)
    BY <1>2, <1>8
  <2>3. b + 4 + p <= c /\ p >= z /\ c + 4 + y <= n
    BY <1>7, <1>8, <1>9, <2>1, <2>2
  <2>4. b + 4 + z <= n
    BY <2>3
  <2> QED
    BY <2>1, <2>2, <2>4
<1> QED
  BY <1>5, <1>10 DEF Whole

\* An address is taken from the first attribute that carries one.
LEMMA FirstTaken ==
  ASSUME WalkInv, TakesAddress
  PROVE  \E k \in 1 .. Len(attributes) :
           /\ Passed(k)
           /\ \A j \in 1 .. k - 1 : ~Passed(j)
           /\ found' = attributes[k].address
<1>1. HasValue /\ IsAddress /\ stun = "walking"
  BY DEF TakesAddress, IsAddress, MayBeAddress
<1>2. PICK k \in 1 .. Len(attributes) + 1 : At(k) /\ k # Len(attributes) + 1
  BY <1>1, Stands
<1>3. k \in 1 .. Len(attributes) /\ i = Begin(attributes, k) /\ AnswerInv
  BY <1>2 DEF WalkInv, AnswerInv, At
<1>4. Passed(k)
  BY <1>1, <1>3, ValueRead, AddressRead DEF Passed
<1>5. found' = attributes[k].address
  BY <1>3, AddressTaken
<1> QED
  BY <1>2, <1>3, <1>4, <1>5 DEF At

\* A skip leads to the next attribute, or to the end.
LEMMA NextReached ==
  ASSUME WalkInv, SkipsAttribute
  PROVE  /\ i' \in Nat /\ i' >= i + 4 /\ i' <= Len(message) + 20
         /\ \E k \in 1 .. Len(attributes) + 1 :
              i' = Begin(attributes, k) /\ \A j \in 1 .. k - 1 : ~Passed(j)
<1>1. HasValue /\ ~IsAddress /\ stun = "walking"
  BY DEF SkipsAttribute
<1>2. PICK k \in 1 .. Len(attributes) + 1 : At(k) /\ k # Len(attributes) + 1
  BY <1>1, Stands
<1>3. k \in 1 .. Len(attributes) /\ i = Begin(attributes, k) /\ AnswerInv /\ i \in Nat
  <2>1. AnswerInv /\ i \in Nat /\ i = Begin(attributes, k)
    BY <1>2 DEF WalkInv, At
  <2>2. Len(attributes) \in Nat
    BY <2>1 DEF AnswerInv
  <2> QED
    BY <1>2, <2>1, <2>2
<1>4. ~Passed(k)
  BY <1>1, <1>3, AddressRead DEF Passed
<1>5. AttrLen = attributes[k].size
  BY <1>1, <1>3, HeaderRead DEF HasValue
<1>6. i' = i + 4 + Padded(attributes[k].size)
  BY <1>5 DEF SkipsAttribute, ValueStart
<1>7. i' = Begin(attributes, k + 1)
  BY <1>3, <1>6, AttributeIs
<1>8. k + 1 \in 1 .. Len(attributes) + 1
  BY <1>3
<1>9. \A j \in 1 .. (k + 1) - 1 : ~Passed(j)
  <2>1. \A j \in 1 .. (k + 1) - 1 : j = k \/ j \in 1 .. k - 1
    BY <1>3
  <2> QED
    BY <1>2, <1>4, <2>1 DEF At
<1>10. i' \in Nat /\ i' >= i + 4 /\ i' <= Len(message) + 20
  <2>1. /\ attributes[k].size \in Nat /\ Padded(attributes[k].size) \in Nat
        /\ Padded(attributes[k].size) <= attributes[k].size + 3
    BY <1>3, AttributeIs
  <2>2. i + 4 + attributes[k].size <= Len(message) /\ Len(message) \in Nat
    BY <1>1, <1>3, <1>5, MessageIs DEF HasValue, ValueEnd, ValueStart
  <2>3. PICK p \in Nat, z \in Nat, n \in Nat :
          p = Padded(attributes[k].size) /\ z = attributes[k].size /\ n = Len(message)
    BY <2>1, <2>2
  <2>4. i' = i + 4 + p /\ p <= z + 3 /\ i + 4 + z <= n /\ i \in Nat
    BY <1>3, <1>6, <2>1, <2>2, <2>3
  <2>5. i' \in Nat /\ i' >= i + 4 /\ i' <= n + 20
    BY <2>4
  <2> QED
    BY <2>3, <2>5
<1> QED
  BY <1>7, <1>8, <1>9, <1>10

LEMMA PassedKept ==
  ASSUME UNCHANGED <<attributes, message>>
  PROVE  \A k : Passed(k)' <=> Passed(k)
BY DEF Passed, Whole, CarriesAddress

\* While there is no answer, none has been laid out.
Unanswered == attributes = <<>> /\ message = <<>>

\* No answer is the beginning of no attributes.
LEMMA NoAnswer == Unanswered => AnswerInv
<1> SUFFICES ASSUME attributes = <<>>, message = <<>>
             PROVE  AnswerInv
  BY DEF Unanswered
<1>1. attributes \in Seq(Attribute)
  OBVIOUS
<1>2. Datagram(attributes) \in Seq(Byte)
  BY <1>1, BeginIs
<1>3. 0 \in 0 .. Len(Datagram(attributes))
  BY <1>2
<1>4. message = SubSeq(Datagram(attributes), 1, 0)
  BY <1>2
<1> QED
  BY <1>1, <1>3, <1>4 DEF AnswerInv

MessageTyped == message \in Seq(Byte) /\ Len(message) \in Nat

LEMMA MessageBytes == AnswerInv => MessageTyped
BY MessageIs DEF MessageTyped

\* The invariant of the walk holds at first, and no step ends it.
LEMMA WalkInvInit == DiscoveryInit => WalkInv
BY NoAnswer DEF DiscoveryInit, StunInit, WalkInv, FindsFirstAddress, Unanswered

\* What the walk ends with, when nothing was found, and when something was.
LEMMA DoneEmpty ==
  ASSUME UNCHANGED <<attributes, message>>, found' = NoAddress,
         attributes \in Seq(Attribute),
         \A j \in 1 .. Len(attributes) : ~Passed(j)
  PROVE  FindsFirstAddress'
<1>1. {k \in DOMAIN attributes : Whole(k) /\ CarriesAddress(k)}' = {}
  BY DEF Passed, Whole, CarriesAddress
<1> QED
  BY <1>1 DEF FindsFirstAddress

LEMMA DoneFirst ==
  ASSUME UNCHANGED <<attributes, message>>,
         attributes \in Seq(Attribute),
         NEW k \in 1 .. Len(attributes),
         Passed(k), \A j \in 1 .. k - 1 : ~Passed(j), found' = attributes[k].address
  PROVE  FindsFirstAddress'
<1> DEFINE those == {j \in DOMAIN attributes : Whole(j) /\ CarriesAddress(j)}
<1>1. k \in those
  BY DEF Passed
<1>2. ASSUME NEW j \in those
      PROVE  k <= j
  <2>1. j \in 1 .. Len(attributes) /\ Passed(j)
    BY DEF Passed
  <2>2. ~(j < k)
    BY <2>1
  <2> QED
    BY <2>1, <2>2
<1>3. those' = those
  BY DEF Whole, CarriesAddress
<1> HIDE DEF those
<1>4. \E l \in those : (\A j \in those : l <= j) /\ found' = attributes[l].address
  BY <1>1, <1>2
<1>5. those # {}
  BY <1>1
<1>6. IF those = {}
      THEN found' = NoAddress
      ELSE \E l \in those : (\A j \in those : l <= j) /\ found' = attributes[l].address
  BY <1>4, <1>5
<1> USE DEF those
<1> QED
  BY <1>3, <1>6 DEF FindsFirstAddress

\* An answer of the world is one of the server's, and the walk begins at its first
\* attribute.
LEMMA AnswerArrives ==
  ASSUME WalkInv, StunAnswers(world.answer)
  PROVE  /\ AnswerInv'
         /\ i' = 20
         /\ \E k \in 1 .. Len(attributes') + 1 : At(k)'
<1> DEFINE list == world.answer.attributes
           n == world.answer.length
<1>1. /\ list \in Seq(Attribute)
      /\ n \in 0 .. Len(Datagram(list))
      /\ \A k \in DOMAIN list : list[k].address \in DOMAIN Dotted
  BY WorldsAssumption, DottedAssumption DEF WalkInv
<1>2. attributes' = list /\ message' = SubSeq(Datagram(list), 1, n) /\ i' = 20
  BY DEF StunAnswers
<1> HIDE DEF list, n
<1>3. AnswerInv'
  BY <1>1, <1>2 DEF AnswerInv
<1>4. 1 \in 1 .. Len(attributes') + 1
  BY <1>1, <1>2
<1>5. Begin(list, 1) = 20
  BY <1>1, BeginIs
<1>6. At(1)'
  BY <1>2, <1>5 DEF At
<1> QED
  BY <1>2, <1>3, <1>4, <1>6

LEMMA WalkInvStep == WalkInv /\ [DiscoveryNext]_discoveryVars => WalkInv'
<1> SUFFICES ASSUME WalkInv, [DiscoveryNext]_discoveryVars
             PROVE  WalkInv'
  OBVIOUS
<1>1. ASSUME stunVars' = stunVars, world' = world
      PROVE  WalkInv'
  BY <1>1 DEF WalkInv, stunVars, AnswerInv, At, FindsFirstAddress, Passed, Whole, CarriesAddress
<1>2. CASE ClickDiscover
  BY <1>2 DEF ClickDiscover, AskStun, placeVars, WalkInv, AnswerInv, FindsFirstAddress
<1>3. CASE Stun
  <2>1. world' = world
    BY <1>3 DEF Stun, placeVars
  <2>2. CASE StunAnswers(world.answer)
    <3>1. stun' = "walking" /\ found' = found
      BY <2>2 DEF StunAnswers
    <3>2. AnswerInv' /\ i' = 20 /\ \E k \in 1 .. Len(attributes') + 1 : At(k)'
      BY <2>2, AnswerArrives
    <3>3. MessageTyped'
      BY <3>2, MessageBytes, PTL
    <3> QED
      BY <2>1, <3>1, <3>2, <3>3 DEF WalkInv, FindsFirstAddress, MessageTyped
  <2>3. CASE StunTimesOut
    BY <2>1, <2>3 DEF StunTimesOut, WalkInv, AnswerInv, FindsFirstAddress
  <2>4. CASE GivesUp
    <3>1. \A j \in 1 .. Len(attributes) : ~Passed(j)
      BY <2>4, NoneLeft
    <3>2. UNCHANGED <<attributes, message, i>> /\ found' = NoAddress /\ stun' = "done"
      BY <2>4 DEF GivesUp
    <3>3. FindsFirstAddress'
      BY <3>1, <3>2, DoneEmpty DEF WalkInv, AnswerInv
    <3> QED
      BY <2>1, <3>2, <3>3 DEF WalkInv, AnswerInv
  <2>5. CASE TakesAddress
    <3>1. PICK k \in 1 .. Len(attributes) :
            /\ Passed(k)
            /\ \A j \in 1 .. k - 1 : ~Passed(j)
            /\ found' = attributes[k].address
      BY <2>5, FirstTaken
    <3>2. UNCHANGED <<attributes, message, i>> /\ stun' = "done"
      BY <2>5 DEF TakesAddress
    <3>3. FindsFirstAddress'
      BY <3>1, <3>2, DoneFirst DEF WalkInv, AnswerInv
    <3>4. found' \in DOMAIN Dotted
      BY <3>1 DEF WalkInv, AnswerInv
    <3> QED
      BY <2>1, <3>2, <3>3, <3>4 DEF WalkInv, AnswerInv
  <2>6. CASE SkipsAttribute
    <3>1. UNCHANGED <<stun, attributes, message, found>> /\ stun = "walking"
      BY <2>6 DEF SkipsAttribute
    <3>2. /\ i' \in Nat /\ i' >= i + 4 /\ i' <= Len(message) + 20
          /\ \E k \in 1 .. Len(attributes) + 1 :
               i' = Begin(attributes, k) /\ \A j \in 1 .. k - 1 : ~Passed(j)
      BY <2>6, NextReached
    <3>3. \E k \in 1 .. Len(attributes) + 1 : At(k)'
      BY <3>1, <3>2, PassedKept DEF At
    <3> QED
      BY <2>1, <3>1, <3>2, <3>3 DEF WalkInv, AnswerInv, FindsFirstAddress
  <2> QED
    BY <1>3, <2>2, <2>3, <2>4, <2>5, <2>6 DEF Stun, Walks
<1>4. CASE DiscoverReturns
  <2>1. /\ stun' = "idle" /\ attributes' = <<>> /\ message' = <<>> /\ i' = 20
        /\ found' = found /\ world' = world
    BY <1>4 DEF DiscoverReturns, StunReturns, placeVars
  <2>2. Unanswered'
    BY <2>1 DEF Unanswered
  <2>3. AnswerInv'
    BY <2>2, NoAnswer, PTL
  <2> QED
    BY <2>1, <2>3 DEF WalkInv, FindsFirstAddress
<1>5. CASE Type
  BY <1>1, <1>5 DEF Type, placeVars
<1>6. CASE ClickStart
  BY <1>1, <1>6 DEF ClickStart, placeVars
<1>7. CASE SetAdvertiseHost
  BY <1>1, <1>7 DEF SetAdvertiseHost, placeVars
<1>8. CASE Announce
  BY <1>1, <1>8 DEF Announce, placeVars
<1>9. CASE Roam
  BY <1>1, <1>9 DEF Roam
<1>10. CASE UNCHANGED discoveryVars
  BY <1>1, <1>10 DEF discoveryVars, placeVars
<1> QED
  BY <1>2, <1>3, <1>4, <1>5, <1>6, <1>7, <1>8, <1>9, <1>10 DEF DiscoveryNext

LEMMA WalkInvHolds == DiscoverySpec => []WalkInv
BY WalkInvInit, WalkInvStep, PTL DEF DiscoverySpec

-----------------------------------------------------------------------------
(* What follows for the walk.                                              *)

\* Two bytes that were read make a number.
LEMMA U16Nat ==
  ASSUME message \in Seq(Byte), NEW k \in Nat, k + 2 <= Len(message)
  PROVE  u16(k) \in Nat
<1>1. message[k + 1] \in Byte /\ message[k + 2] \in Byte
  OBVIOUS
<1>2. Byte \subseteq Nat
  BY DEF Byte
<1>3. message[k + 1] \in Nat /\ message[k + 2] \in Nat
  BY <1>1, <1>2
<1> QED
  BY <1>3 DEF u16

\* The length field of an attribute that is there is a number.
LEMMA LengthNat ==
  ASSUME WalkInv, HasAttribute
  PROVE  AttrLen \in Nat
<1>1. i + 2 \in Nat /\ (i + 2) + 2 <= Len(message)
  BY DEF WalkInv, HasAttribute
<1>2. message \in Seq(Byte)
  BY MessageIs DEF WalkInv
<1> QED
  BY <1>1, <1>2, U16Nat DEF AttrLen

\* Each group of offsets lies before the end: the walk checks before it reads.
LEMMA ReadsAreInside == WalkInv => ReadsInside
<1> SUFFICES ASSUME WalkInv, NEW k \in Reads
             PROVE  k \in 0 .. Len(message) - 1
  BY DEF ReadsInside
<1>1. CASE HasAttribute /\ k \in i .. i + 3
  BY <1>1 DEF HasAttribute, WalkInv
<1>2. CASE MayBeAddress /\ k \in {ValueStart + 1} \cup (ValueStart + 4 .. ValueStart + 7)
  <2>1. AttrLen \in Nat /\ AttrLen >= 8 /\ i + 4 + AttrLen <= Len(message)
    BY <1>2, LengthNat DEF MayBeAddress, HasValue, ValueEnd, ValueStart
  <2> QED
    BY <1>2, <2>1 DEF ValueStart, WalkInv
<1> QED
  BY <1>1, <1>2 DEF Reads, IsAddress

\* The parser of net.rs does not panic on any datagram, whatever lengths it
\* contains and wherever it is cut.
THEOREM ParserReadsInside == DiscoverySpec => []ReadsInside
BY WalkInvHolds, ReadsAreInside, PTL

\* The walk finds the first IPv4 address that the server told and that has
\* arrived, whatever attributes surround it and wherever the answer is cut.
THEOREM AddressFound == DiscoverySpec => []FindsFirstAddress
<1>1. WalkInv => FindsFirstAddress
  BY DEF WalkInv
<1> QED
  BY <1>1, WalkInvHolds, PTL

-----------------------------------------------------------------------------
(* Texts: pieces of them, and what trimming leaves.                        *)

\* The greatest of some numbers is one of them.
LEMMA MaxIs ==
  ASSUME NEW n \in Nat, NEW S \in SUBSET (0 .. n), S # {}
  PROVE  Max(S) \in S /\ \A x \in S : x <= Max(S)
<1>1. {n - x : x \in S} \in SUBSET Nat /\ {n - x : x \in S} # {}
  <2>1. \A x \in S : n - x \in Nat
    OBVIOUS
  <2> QED
    BY <2>1
<1>2. PICK y \in {n - x : x \in S} : \A z \in {n - x : x \in S} : y <= z
  BY <1>1, LeastNumber
<1>3. PICK m \in S : \A x \in S : m >= x
  <2>1. PICK m \in S : y = n - m
    OBVIOUS
  <2>2. ASSUME NEW x \in S
        PROVE  m >= x
    <3>1. n - m <= n - x
      BY <1>2, <2>1
    <3>2. x \in Nat /\ m \in Nat
      OBVIOUS
    <3> QED
      BY <3>1, <3>2
  <2> QED
    BY <2>2
<1>4. Max(S) \in S /\ \A x \in S : Max(S) >= x
  BY <1>3, Zenon DEF Max
<1> QED
  BY <1>4

\* A piece of a text.
LEMMA PieceIs ==
  ASSUME NEW s \in Seq(Words), NEW m \in Nat, NEW n \in Nat, m <= n, n <= Len(s)
  PROVE  /\ SubSeq(s, m + 1, n) \in Seq(Words)
         /\ Len(SubSeq(s, m + 1, n)) = n - m
         /\ \A j \in 1 .. n - m : SubSeq(s, m + 1, n)[j] = s[m + j]
<1>1. m + 1 \in Int /\ n \in Int /\ \A j \in m + 1 .. n : s[j] \in Words
  OBVIOUS
<1>2. /\ SubSeq(s, m + 1, n) \in Seq(Words)
      /\ Len(SubSeq(s, m + 1, n)) = IF m + 1 <= n THEN n - (m + 1) + 1 ELSE 0
      /\ \A j \in 1 .. n - (m + 1) + 1 : SubSeq(s, m + 1, n)[j] = s[(m + 1) + j - 1]
  BY <1>1, SubSeqProperties
<1>3. PICK e \in Int : e = n - (m + 1) + 1
  OBVIOUS
<1>4. e = n - m /\ e = IF m + 1 <= n THEN e ELSE 0
  BY <1>3
<1>5. PICK t : t = SubSeq(s, m + 1, n)
  OBVIOUS
<1>6. Len(t) = e /\ \A j \in 1 .. e : t[j] = s[(m + 1) + j - 1]
  BY <1>2, <1>3, <1>4, <1>5
<1>7. \A j \in 1 .. e : (m + 1) + j - 1 = m + j
  BY <1>4
<1>8. \A j \in 1 .. e : t[j] = s[m + j]
  BY <1>6, <1>7
<1> QED
  BY <1>2, <1>4, <1>5, <1>6, <1>8

\* Two texts are the same if they are as long and agree in each place.
LEMMA SameText ==
  ASSUME NEW s \in Seq(Words), NEW t \in Seq(Words), Len(s) = Len(t),
         \A j \in 1 .. Len(s) : s[j] = t[j]
  PROVE  s = t
OBVIOUS

\* A blank is no other sign.
LEMMA BlankIs == Blank \notin {"http", "https", ":", "/"}
BY Zenon DEF Blank

\* The words that are neither a sign.
LEMMA WordsAre ==
  /\ \A w \in Names \cup Numbers : w \in Words /\ w \notin {"http", "https", ":", "/", Blank}
  /\ {"http", "https", ":", "/", Blank} \subseteq Words
BY WordsAssumption DEF Words, Signs

\* What is left before the end: up to the last word that is another one.
LEMMA TrimEndIs ==
  ASSUME NEW text \in Seq(Words), NEW word
  PROVE  \E m \in 0 .. Len(text) :
           /\ TrimEnd(text, word) \in Seq(Words)
           /\ Len(TrimEnd(text, word)) = m
           /\ \A j \in 1 .. m : TrimEnd(text, word)[j] = text[j]
           /\ m > 0 => text[m] # word
           /\ \A k \in DOMAIN text : k > m => text[k] = word
<1> DEFINE S == {0} \cup {k \in DOMAIN text : text[k] # word}
<1>1. Len(text) \in Nat /\ S \in SUBSET (0 .. Len(text)) /\ 0 \in S
  OBVIOUS
<1>2. Max(S) \in S /\ \A x \in S : x <= Max(S)
  BY <1>1, MaxIs
<1>3. PICK m \in S : m = Max(S)
  BY <1>2
<1>4. m > 0 => text[m] # word
  OBVIOUS
<1>5. ASSUME NEW k \in DOMAIN text, k > m
      PROVE  text[k] = word
  <2>1. ~(k <= m)
    BY <1>1, <1>5
  <2> QED
    BY <1>2, <1>3, <2>1
<1>6. TrimEnd(text, word) = SubSeq(text, 0 + 1, m)
  BY <1>3 DEF TrimEnd
<1>7. m \in 0 .. Len(text)
  BY <1>1
<1> HIDE DEF S
<1>8. /\ TrimEnd(text, word) \in Seq(Words)
      /\ Len(TrimEnd(text, word)) = m - 0
      /\ \A j \in 1 .. m - 0 : TrimEnd(text, word)[j] = text[0 + j]
  BY <1>6, <1>7, PieceIs
<1> QED
  BY <1>4, <1>5, <1>7, <1>8

\* t is the text without its first m words, all of them word.
StartsLater(t, text, word, m) ==
  /\ t \in Seq(Words)
  /\ Len(t) = Len(text) - m
  /\ \A j \in 1 .. Len(text) - m : t[j] = text[m + j]
  /\ \A j \in 1 .. m : text[j] = word
  /\ m < Len(text) => text[m + 1] # word

\* What is left after the start: from the first word that is another one.
LEMMA TrimStartIs ==
  ASSUME NEW text \in Seq(Words), NEW word
  PROVE  \E m \in 0 .. Len(text) : StartsLater(TrimStart(text, <<word>>), text, word, m)
<1> DEFINE p == <<word>>
           S == {k \in 0 .. Len(text) :
                   k * Len(p) <= Len(text)
                     /\ \A j \in 1 .. k * Len(p) : text[j] = p[((j - 1) % Len(p)) + 1]}
<1>1. Len(p) = 1 /\ p[1] = word /\ Len(text) \in Nat
  OBVIOUS
<1>2. TrimStart(text, p) = SubSeq(text, Max(S) * Len(p) + 1, Len(text))
  BY DEF TrimStart
<1>3. \A j \in Nat : (j - 1) % 1 = 0
  OBVIOUS
<1>4. S = {k \in 0 .. Len(text) : \A j \in 1 .. k : text[j] = word}
  BY <1>1, <1>3
<1> HIDE DEF S, p
<1>5. 0 \in S
  BY <1>1, <1>4
<1>6. Max(S) \in S /\ \A x \in S : x <= Max(S)
  BY <1>1, <1>4, <1>5, MaxIs
<1>7. PICK m \in 0 .. Len(text) : m = Max(S) /\ \A j \in 1 .. m : text[j] = word
  BY <1>4, <1>6
<1>8. ASSUME m < Len(text), text[m + 1] = word
      PROVE  FALSE
  <2>1. \A j \in 1 .. m + 1 : j \in 1 .. m \/ j = m + 1
    OBVIOUS
  <2>2. \A j \in 1 .. m + 1 : text[j] = word
    BY <1>7, <1>8, <2>1
  <2>3. m + 1 \in 0 .. Len(text)
    BY <1>1, <1>8
  <2>4. m + 1 \in S
    BY <1>4, <2>2, <2>3
  <2> QED
    BY <1>6, <1>7, <2>4
<1>9. TrimStart(text, p) = SubSeq(text, m + 1, Len(text))
  BY <1>1, <1>2, <1>7
<1>10. /\ TrimStart(text, p) \in Seq(Words)
       /\ Len(TrimStart(text, p)) = Len(text) - m
       /\ \A j \in 1 .. Len(text) - m : TrimStart(text, p)[j] = text[m + j]
  BY <1>1, <1>9, PieceIs
<1> QED
  BY <1>7, <1>8, <1>10 DEF p, StartsLater

\* A text without blanks around it.
Bare(text) == text # <<>> => text[1] # Blank /\ text[Len(text)] # Blank

\* Trimming leaves such a text, and leaves such a text as it is.
LEMMA TrimIsBare ==
  ASSUME NEW text \in Seq(Words)
  PROVE  Trim(text) \in Seq(Words) /\ Bare(Trim(text))
<1>1. PICK e : e = TrimEnd(text, Blank)
  OBVIOUS
<1>2. e \in Seq(Words) /\ (e # <<>> => e[Len(e)] # Blank)
  <2>1. PICK m \in 0 .. Len(text) :
          /\ e \in Seq(Words) /\ Len(e) = m
          /\ \A j \in 1 .. m : e[j] = text[j]
          /\ m > 0 => text[m] # Blank
    BY <1>1, TrimEndIs
  <2> QED
    BY <2>1
<1>3. PICK t : t = TrimStart(e, <<Blank>>)
  OBVIOUS
<1>4. PICK k \in 0 .. Len(e) :
        /\ t \in Seq(Words) /\ Len(t) = Len(e) - k
        /\ \A j \in 1 .. Len(e) - k : t[j] = e[k + j]
        /\ k < Len(e) => e[k + 1] # Blank
  <2>1. \E k \in 0 .. Len(e) : StartsLater(t, e, Blank, k)
    BY <1>2, <1>3, TrimStartIs, Zenon
  <2> QED
    BY <2>1 DEF StartsLater
<1>5. ASSUME t # <<>>
      PROVE  t[1] # Blank /\ t[Len(t)] # Blank
  <2>1. Len(t) > 0 /\ Len(e) > 0 /\ k < Len(e) /\ k + (Len(e) - k) = Len(e)
    BY <1>2, <1>4, <1>5
  <2>2. 1 \in 1 .. Len(e) - k /\ Len(e) - k \in 1 .. Len(e) - k
    BY <1>2, <2>1
  <2>3. t[1] = e[k + 1] /\ t[Len(t)] = e[Len(e)]
    BY <1>4, <2>1, <2>2
  <2> QED
    BY <1>2, <1>4, <2>1, <2>3
<1> QED
  BY <1>1, <1>3, <1>4, <1>5 DEF Trim, Bare

\* A text that does not end in the word keeps its end.
LEMMA EndKept ==
  ASSUME NEW text \in Seq(Words), NEW word, text # <<>> => text[Len(text)] # word
  PROVE  TrimEnd(text, word) = text
<1>1. PICK m \in 0 .. Len(text) :
        /\ TrimEnd(text, word) \in Seq(Words) /\ Len(TrimEnd(text, word)) = m
        /\ \A j \in 1 .. m : TrimEnd(text, word)[j] = text[j]
        /\ \A k \in DOMAIN text : k > m => text[k] = word
  BY TrimEndIs
<1>2. ~(m < Len(text))
  BY <1>1
<1>3. m = Len(text)
  BY <1>2
<1> QED
  BY <1>1, <1>3, SameText

LEMMA BareIsKept ==
  ASSUME NEW text \in Seq(Words), Bare(text)
  PROVE  Trim(text) = text
<1>1. TrimEnd(text, Blank) = text
  BY EndKept DEF Bare
<1>2. PICK k \in 0 .. Len(text) : StartsLater(TrimStart(text, <<Blank>>), text, Blank, k)
  BY TrimStartIs, Zenon
<1>3. k = 0
  BY <1>2 DEF Bare, StartsLater
<1>4. TrimStart(text, <<Blank>>) = text
  BY <1>2, <1>3, SameText DEF StartsLater
<1> QED
  BY <1>1, <1>4 DEF Trim

-----------------------------------------------------------------------------
(* URLs: the scheme, the host, the port, and what a peer keeps of them.    *)

\* t is the text without m times the prefix p, four words long.
WithoutScheme(t, text, p, m) ==
  /\ t \in Seq(Words)
  /\ 4 * m <= Len(text)
  /\ Len(t) = Len(text) - 4 * m
  /\ \A j \in 1 .. Len(t) : t[j] = text[4 * m + j]
  /\ \A j \in 1 .. 4 * m : text[j] = p[((j - 1) % 4) + 1]

\* t is the text without the prefix as often as it is there.
LEMMA SchemeTrimmed ==
  ASSUME NEW text \in Seq(Words), NEW p, Len(p) = 4
  PROVE  \E m \in 0 .. Len(text) :
           /\ WithoutScheme(TrimStart(text, p), text, p, m)
           /\ \A k \in 0 .. Len(text) :
                /\ 4 * k <= Len(text)
                /\ \A j \in 1 .. 4 * k : text[j] = p[((j - 1) % 4) + 1]
                => k <= m
<1> DEFINE S == {k \in 0 .. Len(text) :
                   k * Len(p) <= Len(text)
                     /\ \A j \in 1 .. k * Len(p) : text[j] = p[((j - 1) % Len(p)) + 1]}
<1>1. Len(text) \in Nat
  OBVIOUS
<1>2. TrimStart(text, p) = SubSeq(text, Max(S) * Len(p) + 1, Len(text))
  BY DEF TrimStart
<1>3. \A k \in Nat : k * Len(p) = 4 * k
  OBVIOUS
<1>4. S = {k \in 0 .. Len(text) :
             4 * k <= Len(text) /\ \A j \in 1 .. 4 * k : text[j] = p[((j - 1) % 4) + 1]}
  BY <1>1, <1>3
<1> HIDE DEF S
<1>5. 0 \in S
  BY <1>1, <1>4
<1>6. Max(S) \in S /\ \A x \in S : x <= Max(S)
  BY <1>1, <1>4, <1>5, MaxIs
<1>7. PICK m \in 0 .. Len(text) :
        /\ m = Max(S)
        /\ 4 * m <= Len(text)
        /\ \A j \in 1 .. 4 * m : text[j] = p[((j - 1) % 4) + 1]
  BY <1>4, <1>6
<1>8. TrimStart(text, p) = SubSeq(text, 4 * m + 1, Len(text))
  <2>1. Max(S) * Len(p) = 4 * m
    BY <1>3, <1>7
  <2> QED
    BY <1>2, <2>1
<1>9. /\ TrimStart(text, p) \in Seq(Words)
      /\ Len(TrimStart(text, p)) = Len(text) - 4 * m
      /\ \A j \in 1 .. Len(text) - 4 * m : TrimStart(text, p)[j] = text[4 * m + j]
  <2>1. PICK n \in Nat : n = 4 * m
    BY <1>7
  <2>2. n <= Len(text) /\ TrimStart(text, p) = SubSeq(text, n + 1, Len(text))
    BY <1>7, <1>8, <2>1
  <2>3. /\ SubSeq(text, n + 1, Len(text)) \in Seq(Words)
        /\ Len(SubSeq(text, n + 1, Len(text))) = Len(text) - n
        /\ \A j \in 1 .. Len(text) - n : SubSeq(text, n + 1, Len(text))[j] = text[n + j]
    BY <1>1, <2>2, PieceIs
  <2> QED
    BY <2>1, <2>2, <2>3
<1>10. WithoutScheme(TrimStart(text, p), text, p, m)
  BY <1>7, <1>9 DEF WithoutScheme
<1>11. ASSUME NEW k \in 0 .. Len(text), 4 * k <= Len(text),
              \A j \in 1 .. 4 * k : text[j] = p[((j - 1) % 4) + 1]
       PROVE  k <= m
  <2>1. k \in S
    BY <1>4, <1>11
  <2> QED
    BY <1>6, <1>7, <2>1
<1> QED
  BY <1>7, <1>10, <1>11

\* The text does not begin with the prefix.
Differs(text, p) == \E j \in 1 .. 4 : j > Len(text) \/ text[j] # p[j]

LEMMA Quarter == \A j \in 1 .. 4 : ((j - 1) % 4) + 1 = j /\ ((4 + j - 1) % 4) + 1 = j
OBVIOUS

\* Where the prefix is not, nothing is taken off.
LEMMA NoScheme ==
  ASSUME NEW text \in Seq(Words), NEW p, Len(p) = 4, Differs(text, p)
  PROVE  TrimStart(text, p) = text
<1>1. PICK m \in 0 .. Len(text) : WithoutScheme(TrimStart(text, p), text, p, m)
  BY SchemeTrimmed
<1>2. PICK j \in 1 .. 4 : j > Len(text) \/ text[j] # p[j]
  BY DEF Differs
<1>3. m \in Nat /\ 4 * m <= Len(text) /\ Len(text) \in Nat
  BY <1>1 DEF WithoutScheme
<1>4. ASSUME m >= 1
      PROVE  FALSE
  <2>1. j \in 1 .. 4 * m /\ j <= Len(text)
    BY <1>3, <1>4
  <2>2. text[j] = p[j]
    BY <1>1, <2>1, Quarter DEF WithoutScheme
  <2> QED
    BY <1>2, <1>3, <2>1, <2>2
<1>5. m = 0
  BY <1>3, <1>4
<1> QED
  BY <1>1, <1>5, SameText DEF WithoutScheme

\* Where it is once, it is taken off.
LEMMA OneScheme ==
  ASSUME NEW rest \in Seq(Words), NEW p \in Seq(Words), Len(p) = 4, Differs(rest, p)
  PROVE  TrimStart(p \o rest, p) = rest
<1>1. PICK text \in Seq(Words) : text = p \o rest
  BY Joined DEF Joins
<1>2. /\ Len(text) = 4 + Len(rest)
      /\ \A j \in 1 .. 4 : text[j] = p[j]
      /\ \A j \in 1 .. Len(rest) : text[4 + j] = rest[j]
  <2>1. Joins(Words, p, rest)
    BY Joined
  <2> QED
    BY <1>1, <2>1 DEF Joins
<1>3. PICK m \in 0 .. Len(text) :
        /\ WithoutScheme(TrimStart(text, p), text, p, m)
        /\ \A k \in 0 .. Len(text) :
             /\ 4 * k <= Len(text)
             /\ \A j \in 1 .. 4 * k : text[j] = p[((j - 1) % 4) + 1]
             => k <= m
  BY SchemeTrimmed
<1>4. 1 \in 0 .. Len(text) /\ 4 * 1 <= Len(text) /\ 1 .. 4 * 1 = 1 .. 4
  BY <1>2
<1>5. 1 <= m
  BY <1>2, <1>3, <1>4, Quarter
<1>6. PICK j \in 1 .. 4 : j > Len(rest) \/ rest[j] # p[j]
  BY DEF Differs
<1>7. m \in Nat /\ 4 * m <= Len(text) /\ Len(text) \in Nat /\ Len(rest) \in Nat
  BY <1>3 DEF WithoutScheme
<1>8. ASSUME m >= 2
      PROVE  FALSE
  <2>1. 4 + j \in 1 .. 4 * m /\ j \in 1 .. Len(rest)
    BY <1>2, <1>7, <1>8
  <2>2. text[4 + j] = p[j]
    BY <1>3, <2>1, Quarter DEF WithoutScheme
  <2> QED
    BY <1>2, <1>6, <1>7, <2>1, <2>2
<1>9. m = 1
  BY <1>5, <1>7, <1>8
<1>10. PICK t \in Seq(Words) : t = TrimStart(text, p)
  BY <1>3 DEF WithoutScheme
<1>11. Len(t) = Len(text) - 4 /\ \A k \in 1 .. Len(t) : t[k] = text[4 + k]
  <2>1. 4 * m = 4
    BY <1>9
  <2> QED
    BY <1>3, <1>10, <2>1 DEF WithoutScheme
<1>12. Len(t) = Len(rest) /\ \A k \in 1 .. Len(t) : t[k] = rest[k]
  BY <1>2, <1>7, <1>11
<1> QED
  BY <1>1, <1>10, <1>12, SameText

LEMMA SchemesAre ==
  /\ http \in Seq(Words) /\ Len(http) = 4
  /\ https \in Seq(Words) /\ Len(https) = 4
BY WordsAre DEF http, https

\* What any advertised URL looks like.
UrlShape(url) ==
  /\ url \in Seq(Words)
  /\ Len(url) >= 5
  /\ \A j \in 1 .. 4 : url[j] = http[j]
  /\ url[Len(url)] \in Numbers

\* What ends in a port has the shape of a URL.
LEMMA UrlIs ==
  ASSUME NEW bare \in Seq(Words), NEW port \in Seq(Words), port # <<>>, port[Len(port)] \in Numbers
  PROVE  UrlShape((http \o bare) \o port)
<1>1. Joins(Words, http, bare)
  BY SchemesAre, Joined
<1>2. PICK url \in Seq(Words) : url = http \o bare
  BY <1>1 DEF Joins
<1>3. Len(url) >= 4 /\ \A j \in 1 .. 4 : url[j] = http[j]
  BY <1>1, <1>2, SchemesAre DEF Joins
<1>4. Joins(Words, url, port)
  BY Joined
<1>5. PICK long \in Seq(Words) : long = url \o port
  BY <1>4 DEF Joins
<1>6. /\ Len(long) = Len(url) + Len(port)
      /\ \A j \in 1 .. Len(url) : long[j] = url[j]
      /\ \A j \in 1 .. Len(port) : long[Len(url) + j] = port[j]
  BY <1>4, <1>5 DEF Joins
<1>7. Len(port) \in 1 .. Len(port) /\ Len(url) \in Nat
  OBVIOUS
<1>8. long[Len(long)] = port[Len(port)] /\ Len(long) >= 5
  BY <1>3, <1>6, <1>7
<1>9. \A j \in 1 .. 4 : long[j] = http[j]
  <2>1. \A j \in 1 .. 4 : j \in 1 .. Len(url)
    BY <1>3, <1>7
  <2> QED
    BY <1>3, <1>6, <2>1
<1> QED
  BY <1>2, <1>5, <1>8, <1>9 DEF UrlShape

LEMMA PortIs ==
  ASSUME NEW port \in Numbers
  PROVE  <<":", port>> \in Seq(Words) /\ <<":", port>>[Len(<<":", port>>)] \in Numbers
BY WordsAre

\* Any text is advertised as something of the shape of a URL.
LEMMA AdvertisedIs ==
  ASSUME NEW own \in Numbers, NEW typed \in Seq(Words)
  PROVE  UrlShape(AdvertisedUrl(typed, own))
<1> DEFINE bare == TrimEnd(TrimStart(TrimStart(typed, http), https), "/")
           colon == Max({0} \cup {k \in DOMAIN bare : bare[k] = ":"})
           port == SubSeq(bare, colon + 1, Len(bare))
<1>1. bare \in Seq(Words)
  <2>1. TrimStart(typed, http) \in Seq(Words)
    BY SchemesAre, SchemeTrimmed DEF WithoutScheme
  <2>2. TrimStart(TrimStart(typed, http), https) \in Seq(Words)
    BY <2>1, SchemesAre, SchemeTrimmed DEF WithoutScheme
  <2> QED
    BY <2>2, TrimEndIs
<1> HIDE DEF bare
<1>2. colon \in 0 .. Len(bare)
  <2>1. /\ {0} \cup {k \in DOMAIN bare : bare[k] = ":"} \in SUBSET (0 .. Len(bare))
        /\ Len(bare) \in Nat
    BY <1>1
  <2> QED
    BY <2>1, MaxIs
<1> HIDE DEF colon
<1>3. port \in Seq(Words) /\ SubSeq(bare, 1, colon) \in Seq(Words)
  <2>1. SubSeq(bare, 0 + 1, colon) \in Seq(Words)
    BY <1>1, <1>2, PieceIs
  <2> QED
    BY <1>1, <1>2, <2>1, PieceIs
<1> HIDE DEF port
<1>4. AdvertisedUrl(typed, own) = IF colon > 0 /\ port # <<>> /\ ToSet(port) \subseteq Numbers
                             THEN (http \o SubSeq(bare, 1, colon)) \o port
                             ELSE Url(bare, own)
  BY DEF AdvertisedUrl, bare, colon, port
<1>5. CASE colon > 0 /\ port # <<>> /\ ToSet(port) \subseteq Numbers
  <2>1. port[Len(port)] \in Numbers
    BY <1>3, <1>5 DEF ToSet
  <2> QED
    BY <1>3, <1>4, <1>5, <2>1, UrlIs
<1>6. CASE ~(colon > 0 /\ port # <<>> /\ ToSet(port) \subseteq Numbers)
  <2>1. <<":", own>> \in Seq(Words) /\ <<":", own>>[Len(<<":", own>>)] \in Numbers
    BY PortIs
  <2> QED
    BY <1>1, <1>4, <1>6, <2>1, UrlIs DEF Url
<1> QED
  BY <1>5, <1>6

\* Short texts.
LEMMA OneWord ==
  ASSUME NEW a \in Words
  PROVE  <<a>> \in Seq(Words) /\ Len(<<a>>) = 1 /\ <<a>>[1] = a
OBVIOUS

LEMMA TwoWords ==
  ASSUME NEW a \in Words, NEW b \in Words
  PROVE  <<a, b>> \in Seq(Words) /\ Len(<<a, b>>) = 2 /\ <<a, b>>[1] = a /\ <<a, b>>[2] = b
OBVIOUS

LEMMA ThreeWords ==
  ASSUME NEW a \in Words, NEW b \in Words, NEW c \in Words
  PROVE  /\ <<a, b, c>> \in Seq(Words)
         /\ Len(<<a, b, c>>) = 3
         /\ <<a, b, c>>[1] = a /\ <<a, b, c>>[2] = b /\ <<a, b, c>>[3] = c
OBVIOUS

\* The first n words of a text.
LEMMA FrontIs ==
  ASSUME NEW s \in Seq(Words), NEW n \in Nat, n <= Len(s)
  PROVE  /\ SubSeq(s, 1, n) \in Seq(Words)
         /\ Len(SubSeq(s, 1, n)) = n
         /\ \A j \in 1 .. n : SubSeq(s, 1, n)[j] = s[j]
<1>1. /\ SubSeq(s, 0 + 1, n) \in Seq(Words)
      /\ Len(SubSeq(s, 0 + 1, n)) = n - 0
      /\ \A j \in 1 .. n - 0 : SubSeq(s, 0 + 1, n)[j] = s[0 + j]
  BY PieceIs
<1>2. 0 + 1 = 1 /\ n - 0 = n /\ \A j \in 1 .. n : 0 + j = j
  OBVIOUS
<1> QED
  BY <1>1, <1>2

\* accept_handshake and connect_to leave an advertised URL as it is.
LEMMA ListenKept ==
  ASSUME NEW url, UrlShape(url)
  PROVE  PeerListen(url) = url /\ PeerUrl(url) = url /\ HttpUrl(url) /\ url # NoHost
<1>1. url \in Seq(Words) /\ Len(url) >= 5 /\ url # NoHost
  BY DEF UrlShape, NoHost
<1>2. url[1] = "http" /\ url[Len(url)] \notin {"/", Blank}
  <2>1. url[1] = http[1]
    BY DEF UrlShape
  <2>2. url[Len(url)] \in Names \cup Numbers
    BY DEF UrlShape
  <2> QED
    BY <2>1, <2>2, WordsAre DEF http
<1>3. Bare(url)
  BY <1>2, BlankIs DEF Bare
<1>4. Trim(url) = url
  BY <1>1, <1>3, BareIsKept
<1>5. TrimEnd(url, "/") = url
  BY <1>1, <1>2, EndKept
<1>6. SubSeq(url, 1, Len(http)) = http
  <2>1. PICK t : t = SubSeq(url, 1, 4)
    OBVIOUS
  <2>2. t \in Seq(Words) /\ Len(t) = 4 /\ \A j \in 1 .. 4 : t[j] = url[j]
    BY <1>1, <2>1, FrontIs
  <2>3. Len(t) = 4 /\ \A j \in 1 .. 4 : t[j] = http[j]
    BY <2>2 DEF UrlShape
  <2>4. t = http
    BY <2>2, <2>3, SchemesAre, SameText
  <2> QED
    BY <2>1, <2>4, SchemesAre
<1>7. HttpUrl(url)
  BY <1>1, <1>6, SchemesAre DEF HttpUrl, StartsWith
<1> QED
  BY <1>1, <1>4, <1>5, <1>7 DEF PeerListen, PeerUrl

\* One word after a text that does not end in it is taken off.
LEMMA EndTaken ==
  ASSUME NEW text \in Seq(Words), NEW word \in Words, text # <<>>, text[Len(text)] # word
  PROVE  TrimEnd(text \o <<word>>, word) = text
<1>1. Joins(Words, text, <<word>>)
  BY OneWord, Joined
<1>2. PICK long \in Seq(Words) : long = text \o <<word>>
  BY <1>1 DEF Joins
<1>3. /\ Len(long) = Len(text) + 1
      /\ \A j \in 1 .. Len(text) : long[j] = text[j]
      /\ long[Len(text) + 1] = word
      /\ Len(text) \in Nat /\ Len(text) >= 1
  <2>1. Len(<<word>>) = 1 /\ <<word>>[1] = word
    OBVIOUS
  <2> QED
    BY <1>1, <1>2, <2>1 DEF Joins
<1>4. PICK m \in 0 .. Len(long) :
        /\ TrimEnd(long, word) \in Seq(Words)
        /\ Len(TrimEnd(long, word)) = m
        /\ \A j \in 1 .. m : TrimEnd(long, word)[j] = long[j]
        /\ m > 0 => long[m] # word
        /\ \A k \in DOMAIN long : k > m => long[k] = word
  BY TrimEndIs
<1>5. m # Len(text) + 1
  BY <1>3, <1>4
<1>6. ~(m < Len(text))
  <2>1. Len(text) \in DOMAIN long /\ long[Len(text)] # word
    BY <1>3
  <2> QED
    BY <1>4, <2>1
<1>7. m = Len(text)
  BY <1>3, <1>5, <1>6
<1> QED
  BY <1>2, <1>3, <1>4, <1>7, SameText

\* What is left of a bare when scheme and slash are gone.
Stripped(typed) == TrimEnd(TrimStart(TrimStart(typed, http), https), "/")

\* Without a colon it gets the port of the listener.
LEMMA PlainHost ==
  ASSUME NEW own \in Numbers, NEW typed, Stripped(typed) \in Seq(Words),
         \A k \in DOMAIN Stripped(typed) : Stripped(typed)[k] # ":"
  PROVE  AdvertisedUrl(typed, own) = Url(Stripped(typed), own)
<1> DEFINE bare == Stripped(typed)
           colon == Max({0} \cup {k \in DOMAIN bare : bare[k] = ":"})
<1>1. {0} \cup {k \in DOMAIN bare : bare[k] = ":"} = {0}
  OBVIOUS
<1>2. colon = 0
  <2>1. {0} \in SUBSET (0 .. 0) /\ {0} # {}
    OBVIOUS
  <2>2. Max({0}) \in {0}
    BY <2>1, MaxIs
  <2> QED
    BY <1>1, <2>2
<1> HIDE DEF colon
<1> QED
  BY <1>2 DEF AdvertisedUrl, Stripped, colon

\* With a port after its only colon it keeps that.
LEMMA HostWithPort ==
  ASSUME NEW own \in Numbers, NEW typed, NEW name \in Words, name # ":", NEW number \in Numbers,
         Stripped(typed) = <<name, ":", number>>
  PROVE  AdvertisedUrl(typed, own) = (http \o <<name, ":">>) \o <<number>>
<1> DEFINE bare == <<name, ":", number>>
           S == {0} \cup {k \in DOMAIN bare : bare[k] = ":"}
<1>1. number # ":" /\ bare \in Seq(Words)
  BY WordsAre
<1>2. S = {0, 2}
  BY <1>1
<1>3. Max(S) = 2
  <2>1. {0, 2} \in SUBSET (0 .. 2) /\ {0, 2} # {}
    OBVIOUS
  <2>2. Max({0, 2}) \in {0, 2} /\ \A x \in {0, 2} : x <= Max({0, 2})
    BY <2>1, MaxIs
  <2> QED
    BY <1>2, <2>2
<1>4. ":" \in Words /\ number \in Words
  BY WordsAre
<1>5. PICK h : h = bare
  OBVIOUS
<1>6. h \in Seq(Words) /\ Len(h) = 3 /\ h[1] = name /\ h[2] = ":" /\ h[3] = number
  BY <1>4, <1>5, ThreeWords
<1>7. SubSeq(h, 1, 2) = <<name, ":">> /\ SubSeq(h, 2 + 1, Len(h)) = <<number>>
  <2>1. PICK t : t = SubSeq(h, 1, 2)
    OBVIOUS
  <2>2. t \in Seq(Words) /\ Len(t) = 2 /\ \A j \in 1 .. 2 : t[j] = h[j]
    BY <1>6, <2>1, FrontIs
  <2>3. t = <<name, ":">>
    <3>1. PICK u : u = <<name, ":">>
      OBVIOUS
    <3>2. u \in Seq(Words) /\ Len(u) = 2 /\ u[1] = name /\ u[2] = ":"
      BY <1>4, <3>1, TwoWords
    <3>3. t[1] = u[1] /\ t[2] = u[2]
      BY <1>6, <2>2, <3>2
    <3>4. t = u
      BY <2>2, <3>2, <3>3, SameText
    <3> QED
      BY <3>1, <3>4
  <2>4. PICK m \in Nat, n \in Nat : m = 2 /\ n = 3
    OBVIOUS
  <2>5. PICK r : r = SubSeq(h, m + 1, n)
    OBVIOUS
  <2>6. r \in Seq(Words) /\ Len(r) = 1 /\ r[1] = number
    <3>1. m <= n /\ n <= Len(h)
      BY <1>6, <2>4
    <3>2. r \in Seq(Words) /\ Len(r) = n - m /\ \A j \in 1 .. n - m : r[j] = h[m + j]
      BY <1>6, <2>5, <3>1, PieceIs
    <3>3. n - m = 1 /\ m + 1 = 3
      BY <2>4
    <3> QED
      BY <1>6, <3>2, <3>3
  <2>7. r = <<number>>
    BY <1>4, <2>6, OneWord, SameText
  <2> QED
    BY <1>6, <2>1, <2>3, <2>4, <2>5, <2>7
<1>8. ToSet(<<number>>) \subseteq Numbers /\ <<number>> # <<>>
  BY DEF ToSet
<1>9. AdvertisedUrl(typed, own) =
        IF Max(S) > 0 /\ SubSeq(bare, Max(S) + 1, Len(bare)) # <<>>
             /\ ToSet(SubSeq(bare, Max(S) + 1, Len(bare))) \subseteq Numbers
        THEN http \o SubSeq(bare, 1, Max(S)) \o SubSeq(bare, Max(S) + 1, Len(bare))
        ELSE Url(bare, own)
  BY DEF AdvertisedUrl, Stripped
<1> HIDE DEF S
<1>10. AdvertisedUrl(typed, own) =
        IF 2 > 0 /\ SubSeq(h, 2 + 1, Len(h)) # <<>>
             /\ ToSet(SubSeq(h, 2 + 1, Len(h))) \subseteq Numbers
        THEN http \o SubSeq(h, 1, 2) \o SubSeq(h, 2 + 1, Len(h))
        ELSE Url(h, own)
  BY <1>3, <1>9, <1>5, Zenon
<1>11. 2 > 0
  OBVIOUS
<1> QED
  BY <1>7, <1>8, <1>10, <1>11, Zenon

LEMMA TextsAssociate ==
  ASSUME NEW s \in Seq(Words), NEW t \in Seq(Words), NEW u \in Seq(Words)
  PROVE  (s \o t) \o u = s \o (t \o u)
BY ConcatAssociative

\* Three words, taken apart in either way.
LEMMA ThreeApart ==
  ASSUME NEW a \in Words, NEW b \in Words, NEW c \in Words
  PROVE  /\ <<a>> \o <<b, c>> = <<a, b, c>>
         /\ <<a, b>> \o <<c>> = <<a, b, c>>
<1>1. PICK t : t = <<a, b, c>>
  OBVIOUS
<1>2. t \in Seq(Words) /\ Len(t) = 3 /\ t[1] = a /\ t[2] = b /\ t[3] = c
  BY <1>1, ThreeWords
<1>3. \A j \in 1 .. 3 : j = 1 \/ j = 2 \/ j = 3
  OBVIOUS
<1>4. <<a>> \o <<b, c>> = t
  <2>1. PICK s : s = <<a>> /\ s \in Seq(Words) /\ Len(s) = 1 /\ s[1] = a
    BY OneWord
  <2>2. PICK u : u = <<b, c>>
    OBVIOUS
  <2>3. u = <<b, c>> /\ u \in Seq(Words) /\ Len(u) = 2 /\ u[1] = b /\ u[2] = c
    BY <2>2, TwoWords
  <2>4. Joins(Words, s, u)
    BY <2>1, <2>3, Joined
  <2>5. PICK r : r = s \o u
    OBVIOUS
  <2>6. r \in Seq(Words) /\ Len(r) = 3 /\ r[1] = a /\ r[1 + 1] = b /\ r[1 + 2] = c
    BY <2>1, <2>3, <2>4, <2>5 DEF Joins
  <2>7. r[2] = b /\ r[3] = c
    BY <2>6
  <2>8. r = t
    BY <1>2, <1>3, <2>6, <2>7, SameText
  <2> QED
    BY <2>1, <2>3, <2>5, <2>8
<1>5. <<a, b>> \o <<c>> = t
  <2>1. PICK s : s = <<a, b>>
    OBVIOUS
  <2>2. s = <<a, b>> /\ s \in Seq(Words) /\ Len(s) = 2 /\ s[1] = a /\ s[2] = b
    BY <2>1, TwoWords
  <2>3. PICK u : u = <<c>> /\ u \in Seq(Words) /\ Len(u) = 1 /\ u[1] = c
    BY OneWord
  <2>4. Joins(Words, s, u)
    BY <2>2, <2>3, Joined
  <2>5. PICK r : r = s \o u
    OBVIOUS
  <2>6. r \in Seq(Words) /\ Len(r) = 3 /\ r[1] = a /\ r[2] = b /\ r[2 + 1] = c
    BY <2>2, <2>3, <2>4, <2>5 DEF Joins
  <2>7. r[3] = c
    BY <2>6
  <2>8. r = t
    BY <1>2, <1>3, <2>6, <2>7, SameText
  <2> QED
    BY <2>2, <2>3, <2>5, <2>8
<1> QED
  BY <1>1, <1>4, <1>5

\* The scheme goes, whichever of the two it is.
LEMMA SchemeGone ==
  ASSUME NEW rest \in Seq(Words), Differs(rest, http), Differs(rest, https),
         NEW scheme \in {<<>>, http, https}
  PROVE  TrimStart(TrimStart(scheme \o rest, http), https) = rest
<1>1. TrimStart(rest, http) = rest /\ TrimStart(rest, https) = rest
  BY SchemesAre, NoScheme
<1>2. CASE scheme = <<>>
  BY <1>1, <1>2, ConcatEmptySeq
<1>3. CASE scheme = http
  BY <1>1, <1>3, SchemesAre, OneScheme
<1>4. CASE scheme = https
  <2>1. Joins(Words, https, rest)
    BY SchemesAre, Joined
  <2>2. PICK text : text = https \o rest
    OBVIOUS
  <2>3. text \in Seq(Words) /\ text[1] = "https"
    <3>1. https[1] = "https" /\ 1 \in 1 .. Len(https)
      BY SchemesAre DEF https
    <3> QED
      BY <2>1, <2>2, <3>1 DEF Joins
  <2>4. Differs(text, http)
    BY <2>3 DEF Differs, http
  <2>5. TrimStart(text, http) = text
    BY <2>3, <2>4, SchemesAre, NoScheme
  <2> QED
    BY <1>4, <2>2, <2>5, SchemesAre, OneScheme
<1> QED
  BY <1>2, <1>3, <1>4

\* A slash goes from the end of a text that has but this one there.
LEMMA SlashGone ==
  ASSUME NEW front \in Seq(Words), front # <<>>, front[Len(front)] # "/",
         NEW slash \in {<<>>, <<"/">>}
  PROVE  TrimEnd(front \o slash, "/") = front
<1>1. CASE slash = <<>>
  BY <1>1, EndKept, ConcatEmptySeq
<1>2. CASE slash = <<"/">>
  BY <1>2, EndTaken, WordsAre
<1> QED
  BY <1>1, <1>2

\* The texts that a user types for a bare.
Typed(scheme, name, port, slash) == scheme \o <<name>> \o port \o slash

\* A port, typed or not, and the URL that is meant.
TypedPorts == {<<>>} \cup {<<":", number>> : number \in Numbers}
Meant(name, port, own) == http \o <<name>> \o (IF port = <<>> THEN <<":", own>> ELSE port)

\* What makes a text look like a scheme: its first word, and a slash as its third.
LEMMA NotScheme ==
  ASSUME NEW rest \in Seq(Words), rest # <<>>, rest[1] # "https",
         \/ Len(rest) < 3
         \/ rest[3] # "/"
  PROVE  Differs(rest, http) /\ Differs(rest, https)
<1>1. Differs(rest, https)
  BY DEF Differs, https
<1>2. 3 > Len(rest) \/ rest[3] # http[3]
  BY DEF http
<1> QED
  BY <1>1, <1>2 DEF Differs

\* Scheme and slash are taken off, and nothing else.
LEMMA StrippedIs ==
  ASSUME NEW scheme \in {<<>>, http, https}, NEW front \in Seq(Words),
         NEW slash \in {<<>>, <<"/">>},
         front # <<>>, front[1] # "https", front[Len(front)] # "/",
         Len(front) = 1 \/ (Len(front) = 3 /\ front[3] # "/")
  PROVE  Stripped(scheme \o (front \o slash)) = front
<1>1. slash \in Seq(Words) /\ (Len(slash) = 0 \/ Len(slash) = 1)
  <2>1. <<"/">> \in Seq(Words) /\ Len(<<"/">>) = 1
    BY OneWord, WordsAre
  <2>2. <<>> \in Seq(Words) /\ Len(<<>>) = 0
    OBVIOUS
  <2> QED
    BY <2>1, <2>2
<1>2. Joins(Words, front, slash)
  BY <1>1, Joined
<1>3. PICK rest : rest = front \o slash
  OBVIOUS
<1>4. /\ rest \in Seq(Words)
      /\ Len(rest) = Len(front) + Len(slash)
      /\ \A j \in 1 .. Len(front) : rest[j] = front[j]
  BY <1>2, <1>3 DEF Joins
<1>5. Len(slash) \in {0, 1} /\ Len(front) \in Nat /\ Len(front) >= 1
  BY <1>1
<1>6. rest # <<>> /\ rest[1] # "https"
  BY <1>4, <1>5
<1>7. Len(rest) < 3 \/ rest[3] # "/"
  BY <1>4, <1>5
<1>8. TrimStart(TrimStart(scheme \o rest, http), https) = rest
  BY <1>4, <1>6, <1>7, NotScheme, SchemeGone
<1>9. TrimEnd(rest, "/") = front
  BY <1>3, SlashGone
<1> QED
  BY <1>3, <1>8, <1>9 DEF Stripped

\* A name, with whatever around it, is advertised with its port or the listener's.
LEMMA AdvertisedAsTyped ==
  ASSUME NEW own \in Numbers, NEW scheme \in {<<>>, http, https}, NEW slash \in {<<>>, <<"/">>},
         NEW name \in Words, name \notin {"https", ":", "/"},
         NEW port \in TypedPorts
  PROVE  AdvertisedUrl(Typed(scheme, name, port, slash), own) = Meant(name, port, own)
<1>1. PICK one : one = <<name>> /\ one \in Seq(Words) /\ Len(one) = 1 /\ one[1] = name
  BY OneWord
<1>2. \A number \in Numbers : <<":", number>> \in Seq(Words) /\ <<":", number>> # <<>>
  BY TwoWords, WordsAre
<1>3. port \in Seq(Words) /\ slash \in Seq(Words) /\ scheme \in Seq(Words)
  <2>1. <<"/">> \in Seq(Words) /\ <<>> \in Seq(Words)
    BY OneWord, WordsAre
  <2> QED
    BY <1>2, <2>1, SchemesAre DEF TypedPorts
<1>4. PICK front \in Seq(Words) : front = one \o port
  BY <1>1, <1>3, Joined DEF Joins
<1>5. Typed(scheme, name, port, slash) = scheme \o (front \o slash)
  <2>1. Typed(scheme, name, port, slash) = ((scheme \o one) \o port) \o slash
    BY <1>1 DEF Typed
  <2>2. (scheme \o one) \o port = scheme \o front
    <3>1. scheme \in Seq(Words) /\ one \in Seq(Words) /\ port \in Seq(Words)
      BY <1>1, <1>3, Zenon
    <3>2. (scheme \o one) \o port = scheme \o (one \o port)
      BY <3>1, TextsAssociate, Zenon
    <3> QED
      BY <1>4, <3>2, Zenon
  <2>3. (scheme \o front) \o slash = scheme \o (front \o slash)
    BY <1>3, <1>4, TextsAssociate, Zenon
  <2> QED
    BY <2>1, <2>2, <2>3
<1>6. CASE port = <<>>
  <2>1. front = one
    BY <1>1, <1>4, <1>6, ConcatEmptySeq
  <2>2. one # <<>> /\ one[1] # "https" /\ one[Len(one)] # "/"
    BY <1>1
  <2>3. Stripped(scheme \o (front \o slash)) = one
    BY <1>1, <2>1, <2>2, StrippedIs
  <2>4. \A k \in DOMAIN one : one[k] # ":"
    BY <1>1
  <2>5. AdvertisedUrl(Typed(scheme, name, port, slash), own) = Url(one, own)
    BY <1>1, <1>5, <2>3, <2>4, PlainHost
  <2> QED
    BY <1>1, <1>6, <2>5 DEF Url, Meant
<1>7. CASE port # <<>>
  <2>1. PICK number \in Numbers : port = <<":", number>>
    BY <1>7 DEF TypedPorts
  <2>2. ":" \in Words /\ number \in Words /\ number # "/"
    BY WordsAre
  <2>3. PICK three : three = <<name, ":", number>>
    OBVIOUS
  <2>4. /\ three \in Seq(Words) /\ Len(three) = 3
        /\ three[1] = name /\ three[2] = ":" /\ three[3] = number
    BY <2>2, <2>3, ThreeWords
  <2>5. front = three
    BY <1>1, <1>4, <2>1, <2>2, <2>3, ThreeApart
  <2>6. three # <<>> /\ three[1] # "https" /\ three[Len(three)] # "/" /\ three[3] # "/"
    <3>1. three # <<>> /\ three[Len(three)] = three[3]
      BY <2>4
    <3>2. three[1] # "https" /\ three[3] # "/"
      BY <2>2, <2>4, Zenon
    <3> QED
      BY <3>1, <3>2, Zenon
  <2>7. Stripped(scheme \o (front \o slash)) = three
    BY <2>4, <2>5, <2>6, StrippedIs
  <2>8. AdvertisedUrl(Typed(scheme, name, port, slash), own) = (http \o <<name, ":">>) \o <<number>>
    BY <1>5, <2>3, <2>7, HostWithPort
  <2>9. (http \o <<name, ":">>) \o <<number>> = http \o (<<name, ":">> \o <<number>>)
    <3>1. <<name, ":">> \in Seq(Words) /\ <<number>> \in Seq(Words)
      BY <2>2, OneWord, TwoWords
    <3> QED
      BY <3>1, SchemesAre, TextsAssociate
  <2>10. <<name, ":">> \o <<number>> = <<name, ":", number>>
    BY <2>2, ThreeApart
  <2>11. (http \o one) \o port = http \o front
    <3>1. http \in Seq(Words) /\ one \in Seq(Words) /\ port \in Seq(Words)
      BY <1>1, <1>3, SchemesAre, Zenon
    <3>2. (http \o one) \o port = http \o (one \o port)
      BY <3>1, TextsAssociate, Zenon
    <3> QED
      BY <1>4, <3>2, Zenon
  <2>12. AdvertisedUrl(Typed(scheme, name, port, slash), own) = (http \o one) \o port
    BY <2>3, <2>5, <2>8, <2>9, <2>10, <2>11, Zenon
  <2> QED
    BY <1>1, <1>7, <2>12 DEF Meant
<1> QED
  BY <1>6, <1>7

\* A name alone.
LEMMA NameIs ==
  ASSUME NEW name \in Names
  PROVE  /\ <<name>> \in Seq(Words)
         /\ Trim(<<name>>) = <<name>>
         /\ \A own \in Numbers : AdvertisedUrl(<<name>>, own) = Url(<<name>>, own)
<1>1. name \in Words /\ name \notin {"http", "https", ":", "/", Blank}
  BY WordsAre
<1>2. <<name>> \in Seq(Words) /\ Len(<<name>>) = 1 /\ <<name>>[1] = name
  BY <1>1, OneWord
<1>3. Trim(<<name>>) = <<name>>
  BY <1>1, <1>2, BareIsKept DEF Bare
<1>4. ASSUME NEW own \in Numbers
      PROVE  AdvertisedUrl(Typed(<<>>, name, <<>>, <<>>), own) = http \o <<name>> \o <<":", own>>
  BY <1>1, AdvertisedAsTyped DEF TypedPorts, Meant
<1>5. Typed(<<>>, name, <<>>, <<>>) = <<name>>
  BY <1>2, ConcatEmptySeq DEF Typed
<1> QED
  BY <1>2, <1>3, <1>4, <1>5 DEF Url

-----------------------------------------------------------------------------
(* The candidates, of which the first is shared.                           *)

\* The lists of members of S without repetition that begin like known.
Lists(S, known) ==
  {list \in Seq(S) : IsInjective(list) /\ (known # <<>> => list # <<>> /\ list[1] = known[1])}

\* The loops of net.rs keep their lists free of repetitions.
LEMMA AppendNewIs ==
  ASSUME NEW S, NEW known, NEW list \in Lists(S, known), NEW x \in S
  PROVE  AppendNew(list, x) \in Lists(S, known)
<1>1. list \in Seq(S) /\ IsInjective(list)
  BY DEF Lists
<1>2. CASE x \in ToSet(list)
  BY <1>2 DEF AppendNew
<1>3. CASE x \notin ToSet(list)
  <2>1. PICK long : long = Append(list, x)
    OBVIOUS
  <2>2. /\ long \in Seq(S) /\ long # <<>> /\ Len(long) = Len(list) + 1
        /\ \A j \in 1 .. Len(list) : long[j] = list[j]
        /\ long[Len(list) + 1] = x
    BY <1>1, <2>1, AppendProperties
  <2>3. \A j \in 1 .. Len(list) : list[j] # x
    BY <1>1, <1>3 DEF ToSet
  <2>4. DOMAIN list = 1 .. Len(list) /\ DOMAIN long = 1 .. Len(list) + 1 /\ Len(list) \in Nat
    BY <1>1, <2>2
  <2>5. ASSUME NEW j \in DOMAIN long, NEW k \in DOMAIN long, long[j] = long[k]
        PROVE  j = k
    <3>1. j \in 1 .. Len(list) \/ j = Len(list) + 1
      BY <2>4
    <3>2. k \in 1 .. Len(list) \/ k = Len(list) + 1
      BY <2>4
    <3>3. ASSUME j \in 1 .. Len(list), k \in 1 .. Len(list)
          PROVE  j = k
      BY <1>1, <2>2, <2>4, <2>5, <3>3 DEF IsInjective
    <3> QED
      BY <2>2, <2>3, <2>5, <3>1, <3>2, <3>3
  <2>6. IsInjective(long)
    BY <2>5 DEF IsInjective
  <2>7. known # <<>> => long[1] = known[1]
    BY <1>1, <2>2, <2>4 DEF Lists
  <2> QED
    BY <1>3, <2>1, <2>2, <2>6, <2>7 DEF AppendNew, Lists
<1> QED
  BY <1>2, <1>3

\* What the recursion in Gather says of v.
Gathers(v, refused, known, more) ==
  v = [k \in 0 .. Len(more) |->
         IF k = 0 THEN known
         ELSE IF more[k] \in refused THEN v[k - 1] ELSE AppendNew(v[k - 1], more[k])]

\* Such a v exists, so that the recursion in Gather means what it says.
LEMMA GathersExists ==
  ASSUME NEW S, NEW refused, NEW known \in Seq(S), NEW more \in Seq(S), IsInjective(known)
  PROVE  \E v : Gathers(v, refused, known, more)
<1> DEFINE G == Lists(S, known)
           NextOf(x, k) == IF more[k] \in refused THEN x ELSE AppendNew(x, more[k])
           step == [x \in G |-> [k \in 1 .. Len(more) |-> NextOf(x, k)]]
<1>1. Len(more) \in Nat /\ \A k \in 1 .. Len(more) : more[k] \in S
  OBVIOUS
<1>2. known \in G
  BY DEF Lists
<1>3. ASSUME NEW x \in G, NEW k \in 1 .. Len(more)
      PROVE  NextOf(x, k) \in G
  BY <1>1, AppendNewIs
<1>4. \A x \in G, k \in 1 .. Len(more) : step[x][k] = NextOf(x, k)
  OBVIOUS
<1> HIDE DEF G, step, NextOf
<1>5. \A x \in G, k \in 1 .. Len(more) : step[x][k] \in G
  BY <1>3, <1>4
<1>6. PICK v : Follows(v, Len(more), G, known, step, Len(more))
  BY <1>1, <1>2, <1>5, RecursionExists, Zenon
<1>7. /\ v \in [0 .. Len(more) -> G]
      /\ v[0] = known
      /\ \A k \in 1 .. Len(more) : v[k] = step[v[k - 1]][k]
  BY <1>6 DEF Follows
<1>8. ASSUME NEW k \in 1 .. Len(more)
      PROVE  v[k] = NextOf(v[k - 1], k)
  <2>1. k - 1 \in 0 .. Len(more)
    BY <1>1
  <2>2. v[k - 1] \in G
    BY <1>7, <2>1
  <2> QED
    BY <1>4, <1>7, <2>2
<1>9. \A k \in 0 .. Len(more) : k = 0 \/ k \in 1 .. Len(more)
  BY <1>1
<1>10. v = [k \in 0 .. Len(more) |-> IF k = 0 THEN known ELSE NextOf(v[k - 1], k)]
  BY <1>7, <1>8, <1>9, Zenon
<1> QED
  BY <1>10 DEF Gathers, NextOf

\* What a loop of net.rs gathers is such a list.
LEMMA GatherIs ==
  ASSUME NEW S, NEW refused, NEW known \in Seq(S), NEW more \in Seq(S), IsInjective(known)
  PROVE  Gather(refused, known, more) \in Lists(S, known)
<1>1. PICK v : v = CHOOSE u : Gathers(u, refused, known, more)
  OBVIOUS
<1>2. Gathers(v, refused, known, more)
  BY <1>1, GathersExists, Zenon
<1>3. Gather(refused, known, more) = v[Len(more)]
  BY <1>1 DEF Gather, Gathers
<1>4. Len(more) \in Nat /\ \A k \in 1 .. Len(more) : more[k] \in S
  OBVIOUS
<1>5. \A k \in 1 .. Len(more) : k \in 0 .. Len(more) /\ k # 0
  BY <1>4
<1>6. v[0] = known
  BY <1>2, <1>4 DEF Gathers
<1>7. ASSUME NEW k \in 1 .. Len(more)
      PROVE  v[k] = IF more[k] \in refused THEN v[k - 1] ELSE AppendNew(v[k - 1], more[k])
  <2>1. k \in 0 .. Len(more) /\ k # 0
    BY <1>5
  <2> QED
    BY <1>2, <2>1 DEF Gathers
<1> DEFINE T == {k \in Nat : k <= Len(more) => v[k] \in Lists(S, known)}
<1>8. 0 \in T
  BY <1>6 DEF Lists
<1>9. ASSUME NEW k \in Nat, k \in T
      PROVE  k + 1 \in T
  <2> SUFFICES ASSUME k + 1 <= Len(more)
               PROVE  v[k + 1] \in Lists(S, known)
    OBVIOUS
  <2>1. k + 1 \in 1 .. Len(more) /\ (k + 1) - 1 = k /\ k <= Len(more)
    BY <1>4
  <2>2. v[k] \in Lists(S, known)
    BY <1>9, <2>1
  <2>3. v[k + 1] = IF more[k + 1] \in refused THEN v[k] ELSE AppendNew(v[k], more[k + 1])
    BY <1>7, <2>1
  <2>4. more[k + 1] \in S
    BY <1>4, <2>1
  <2> QED
    BY <2>2, <2>3, <2>4, AppendNewIs
<1> HIDE DEF T
<1>10. Len(more) \in T
  BY <1>4, <1>8, <1>9, AllNumbers
<1> QED
  BY <1>3, <1>4, <1>10 DEF T

\* The candidates are listed once; the first is the one the user has typed.
LEMMA CandidatesAre ==
  ASSUME NEW own \in Numbers, NEW typed \in Seq(Words), NEW seen \in Seq(Words)
  PROVE  /\ IsInjective(CandidateUrls(typed, own, seen))
         /\ Trim(typed) # NoHost =>
              CandidateUrls(typed, own, seen)[1] = AdvertisedUrl(Trim(typed), own)
<1> DEFINE bare == Trim(typed)
           advertised == IF bare = NoHost THEN <<>> ELSE <<AdvertisedUrl(bare, own)>>
           addresses == LocalAddrs(seen)
           local == [k \in DOMAIN addresses |-> Url(<<addresses[k]>>, own)]
           more == Append(local, Url(<<Loopback>>, own))
<1>1. bare \in Seq(Words)
  BY TrimIsBare
<1>2. \A name \in Words : Url(<<name>>, own) \in Seq(Words)
  <2> SUFFICES ASSUME NEW name \in Words
               PROVE  Url(<<name>>, own) \in Seq(Words)
    OBVIOUS
  <2>1. <<name>> \in Seq(Words) /\ <<":", own>> \in Seq(Words)
    BY OneWord, PortIs
  <2>2. http \o <<name>> \in Seq(Words)
    BY <2>1, SchemesAre, Joined DEF Joins
  <2> QED
    BY <2>1, <2>2, Joined DEF Url, Joins
<1>3. addresses \in Seq(Words)
  <2>1. <<>> \in Seq(Words) /\ IsInjective(<<>>)
    BY DEF IsInjective
  <2>2. Gather({Loopback, "none"}, <<>>, seen) \in Lists(Words, <<>>)
    BY <2>1, GatherIs
  <2> QED
    BY <2>2 DEF LocalAddrs, Lists
<1> HIDE DEF addresses
<1>4. local \in Seq(Seq(Words))
  <2>1. DOMAIN addresses = 1 .. Len(addresses) /\ Len(addresses) \in Nat
        /\ \A k \in 1 .. Len(addresses) : addresses[k] \in Words
    BY <1>3
  <2>2. local \in [1 .. Len(addresses) -> Seq(Words)]
    BY <1>2, <2>1
  <2> QED
    BY <2>1, <2>2
<1> HIDE DEF local
<1>5. more \in Seq(Seq(Words))
  <2>1. Url(<<Loopback>>, own) \in Seq(Words)
    BY <1>2, WordsAre, WordsAssumption
  <2> QED
    BY <1>4, <2>1
<1> HIDE DEF more, bare
<1>6. advertised \in Seq(Seq(Words)) /\ IsInjective(advertised)
  <2>1. CASE bare = NoHost
    BY <2>1 DEF IsInjective
  <2>2. CASE bare # NoHost
    <3>1. PICK url \in Seq(Words) : url = AdvertisedUrl(bare, own)
      BY <1>1, AdvertisedIs DEF UrlShape
    <3> QED
      BY <2>2, <3>1 DEF IsInjective
  <2> QED
    BY <2>1, <2>2
<1>7. bare # NoHost => advertised # <<>> /\ advertised[1] = AdvertisedUrl(bare, own)
  OBVIOUS
<1> HIDE DEF advertised
<1>8. Gather({}, advertised, more) \in Lists(Seq(Words), advertised)
  BY <1>5, <1>6, GatherIs
<1>9. CandidateUrls(typed, own, seen) = Gather({}, advertised, more)
  BY DEF CandidateUrls, advertised, more, local, addresses, bare
<1> QED
  BY <1>7, <1>8, <1>9 DEF Lists, bare

\* Trimmed once is trimmed for good.
LEMMA TrimTwice ==
  ASSUME NEW text \in Seq(Words)
  PROVE  Trim(text) \in Seq(Words) /\ Trim(Trim(text)) = Trim(text)
<1>1. Trim(text) \in Seq(Words) /\ Bare(Trim(text))
  BY TrimIsBare
<1> QED
  BY <1>1, BareIsKept

\* Without a host there is nothing to trim.
LEMMA NoHostKept == NoHost \in Seq(Words) /\ Trim(NoHost) = NoHost /\ PeerListen(NoHost) = NoHost
<1>1. NoHost \in Seq(Words) /\ NoHost = <<>>
  BY DEF NoHost
<1>2. Trim(NoHost) = NoHost
  BY <1>1, BareIsKept DEF Bare
<1>3. TrimEnd(NoHost, "/") = NoHost
  BY <1>1, EndKept
<1> QED
  BY <1>1, <1>2, <1>3 DEF PeerListen

\* The URL that is shared for a host, wherever the node is.
LEMMA ShareUrlIs ==
  ASSUME NEW own \in Numbers, NEW typed \in Seq(Words), NEW seen \in Routes,
         typed # NoHost, Trim(typed) = typed
  PROVE  ShareUrlOf(typed, own, seen) = AdvertisedUrl(typed, own)
<1>1. seen \in Seq(Words)
  BY RoutesAssumption
<1> QED
  BY <1>1, CandidatesAre DEF ShareUrlOf

\* The URL that is announced to a peer, as the peer keeps it.
LEMMA ListenUrlIs ==
  ASSUME NEW own \in Numbers, NEW typed \in Seq(Words), NEW seen \in Routes, Trim(typed) = typed
  PROVE  PeerListen(ListenUrl(typed, own, seen)) =
           IF typed = NoHost THEN NoHost ELSE AdvertisedUrl(typed, own)
<1>1. CASE typed = NoHost
  BY <1>1, NoHostKept DEF ListenUrl
<1>2. CASE typed # NoHost
  <2>1. ListenUrl(typed, own, seen) = AdvertisedUrl(typed, own)
    BY <1>2, ShareUrlIs DEF ListenUrl
  <2>2. PeerListen(AdvertisedUrl(typed, own)) = AdvertisedUrl(typed, own)
    BY AdvertisedIs, ListenKept
  <2> QED
    BY <1>2, <2>1, <2>2
<1> QED
  BY <1>1, <1>2

-----------------------------------------------------------------------------
(* The invariant of what is shared, suggested and announced.               *)

\* What Detect has suggested, for the host it was asked with or the one it found.
Suggests ==
  \/ asked # NoHost /\ suggested = AdvertisedUrl(asked, askedPort)
  \/ asked = NoHost /\ PublicIp # NoHost /\ suggested = Url(PublicIp, askedPort)

\* Each text that becomes a URL has been trimmed, and each URL that is kept is the
\* one that the host it was made of gives, whatever network the machine was in.
ShareInv ==
  /\ routes \in Routes
  /\ field \in {NoHost, world.text} \cup {<<Dotted[address]>> : address \in DOMAIN Dotted}
  /\ asked \in Seq(Words) /\ Trim(asked) = asked
  /\ host \in Seq(Words) /\ Trim(host) = host
  /\ askedPort \in {NoPort} \cup Numbers
  /\ stun # "idle" => askedPort \in Numbers
  /\ stun = "idle" /\ suggested # Nothing => askedPort \in Numbers
  /\ started \in BOOLEAN
  /\ listenPort \in {NoPort} \cup Numbers
  /\ started => listenPort \in Numbers
  /\ started /\ host # NoHost => shared = AdvertisedUrl(host, listenPort)
  /\ told.url # Nothing => started
  /\ told.url # Nothing =>
       told.url = IF told.host = NoHost THEN NoHost ELSE AdvertisedUrl(told.host, listenPort)
  /\ stun = "idle" /\ suggested # Nothing => Suggests

\* What the field holds can be typed.
LEMMA FieldIs ==
  ASSUME WalkInv, ShareInv
  PROVE  field \in Seq(Words)
<1>1. CASE field = NoHost
  BY <1>1, NoHostKept
<1>2. CASE field = world.text
  BY <1>2, WorldsAssumption DEF WalkInv
<1>3. ASSUME NEW address \in DOMAIN Dotted, field = <<Dotted[address]>>
      PROVE  field \in Seq(Words)
  BY <1>3, NameIs, DottedAssumption
<1> QED
  BY <1>1, <1>2, <1>3 DEF ShareInv

\* The address that was found is a host as it stands.
LEMMA PublicIpIs ==
  ASSUME WalkInv, PublicIp # NoHost
  PROVE  /\ PublicIp \in {<<Dotted[address]>> : address \in DOMAIN Dotted}
         /\ PublicIp \in Seq(Words)
         /\ Trim(PublicIp) = PublicIp
         /\ \A own \in Numbers : AdvertisedUrl(PublicIp, own) = Url(PublicIp, own)
<1>1. found \in DOMAIN Dotted /\ PublicIp = <<Dotted[found]>>
  BY DEF WalkInv, PublicIp
<1>2. Dotted[found] \in Names
  BY <1>1, DottedAssumption
<1> QED
  BY <1>1, <1>2, NameIs

\* This invariant, too, holds at first, and no step ends it.
LEMMA ShareInvInit == DiscoveryInit => ShareInv
<1> SUFFICES ASSUME DiscoveryInit
             PROVE  ShareInv
  OBVIOUS
<1>1. routes \in Routes /\ field = NoHost /\ asked = NoHost /\ host = NoHost
  BY DEF DiscoveryInit
<1>2. told.url = Nothing /\ suggested = Nothing /\ started = FALSE
  BY DEF DiscoveryInit
<1>3. stun = "idle" /\ askedPort = NoPort /\ listenPort = NoPort
  BY DEF DiscoveryInit, StunInit
<1> QED
  BY <1>1, <1>2, <1>3, NoHostKept DEF ShareInv

\* Start and set_advertise_host share what they were given, trimmed.
LEMMA AdvertiseKeeps ==
  ASSUME WalkInv, ShareInv, NEW typed \in Seq(Words), NEW port \in Numbers,
         Advertise(typed, port), started', listenPort' = port,
         started => port = listenPort,
         UNCHANGED <<stunVars, placeVars, queryVars, field, told>>
  PROVE  ShareInv'
<1>1. host' = Trim(typed) /\ shared' = ShareUrlOf(Trim(typed), port, routes)
  BY DEF Advertise
<1>2. host' \in Seq(Words) /\ Trim(host') = host'
  BY <1>1, TrimTwice
<1>3. host' # NoHost => shared' = AdvertisedUrl(host', listenPort')
  <2>1. routes \in Routes
    BY DEF ShareInv
  <2>2. host' # NoHost => ShareUrlOf(host', port, routes) = AdvertisedUrl(host', port)
    BY <1>2, <2>1, ShareUrlIs
  <2> QED
    BY <1>1, <2>2
<1>4. told.url # Nothing => started /\ listenPort' = listenPort
  BY DEF ShareInv
<1> QED
  BY <1>2, <1>3, <1>4 DEF ShareInv, Suggests, PublicIp, stunVars, placeVars, queryVars

\* Detect suggests what is shared for the host that it fills in or leaves.
LEMMA SuggestionMade ==
  ASSUME WalkInv, ShareInv, DiscoverReturns
  PROVE  /\ suggested' # Nothing => Suggests'
         /\ field' \in {NoHost, world.text} \cup {<<Dotted[address]>> : address \in DOMAIN Dotted}
<1>1. asked' = asked /\ askedPort' = askedPort /\ found' = found /\ PublicIp' = PublicIp
  BY DEF DiscoverReturns, StunReturns, PublicIp
<1>2. suggested' = SuggestedShareUrl
  BY DEF DiscoverReturns
<1>3. asked # NoHost => CandidateUrls(asked, askedPort, routes)[1] = AdvertisedUrl(asked, askedPort)
  <2>1. askedPort \in Numbers
    BY DEF DiscoverReturns, StunReturns, ShareInv
  <2> QED
    BY <2>1, ShareUrlIs DEF ShareInv, ShareUrlOf
<1>4. suggested' # Nothing => Suggests'
  BY <1>1, <1>2, <1>3 DEF SuggestedShareUrl, Suggests
<1>5. field' = field \/ (PublicIp # NoHost /\ field' = PublicIp)
  BY DEF DiscoverReturns, FillField
<1> QED
  BY <1>4, <1>5, PublicIpIs DEF ShareInv

LEMMA ShareInvStep == WalkInv /\ ShareInv /\ [DiscoveryNext]_discoveryVars => ShareInv'
<1> SUFFICES ASSUME WalkInv, ShareInv, [DiscoveryNext]_discoveryVars
             PROVE  ShareInv'
  OBVIOUS
<1>1. field \in Seq(Words) /\ world.text \in Seq(Words)
  BY FieldIs, WorldsAssumption DEF WalkInv
<1>2. CASE Type
  BY <1>2 DEF Type, ShareInv, Suggests, PublicIp, stunVars, placeVars, queryVars, nodeVars
<1>3. CASE ClickDiscover
  <2>1. asked' \in Seq(Words) /\ Trim(asked') = asked'
    BY <1>1, <1>3, TrimTwice DEF ClickDiscover
  <2>2. stun' = "asked" /\ askedPort' \in Numbers
    BY <1>3, WorldsAssumption DEF ClickDiscover, AskStun, WalkInv
  <2> QED
    BY <1>3, <2>1, <2>2 DEF ClickDiscover, ShareInv, placeVars, queryVars, nodeVars
<1>4. CASE Stun
  <2>1. stun # "idle" /\ stun' # "idle"
    BY <1>4 DEF Stun, StunAnswers, StunTimesOut, Walks, GivesUp, TakesAddress, SkipsAttribute
  <2> QED
    BY <1>4, <2>1 DEF Stun, ShareInv, placeVars, queryVars, nodeVars
<1>5. CASE DiscoverReturns
  <2>1. /\ suggested' # Nothing => Suggests'
        /\ field' \in {NoHost, world.text} \cup {<<Dotted[address]>> : address \in DOMAIN Dotted}
    BY <1>5, SuggestionMade
  <2> QED
    BY <1>5, <2>1 DEF DiscoverReturns, StunReturns, ShareInv, placeVars, queryVars, nodeVars
<1>6. CASE ClickStart
  <2>1. PICK port \in Numbers :
          /\ Advertise(field, port) /\ listenPort' = port /\ ~started /\ started'
          /\ UNCHANGED <<stunVars, placeVars, queryVars, field, told>>
    BY <1>6, WorldsAssumption DEF ClickStart, WalkInv
  <2> QED
    BY <1>1, <2>1, AdvertiseKeeps
<1>7. CASE SetAdvertiseHost
  <2>1. PICK port \in Numbers : port = listenPort
    BY <1>7 DEF SetAdvertiseHost, ShareInv
  <2>2. /\ Advertise(world.text, port) /\ listenPort' = port /\ started'
        /\ UNCHANGED <<stunVars, placeVars, queryVars, field, told>>
    BY <1>7, <2>1 DEF SetAdvertiseHost
  <2> QED
    BY <1>1, <2>1, <2>2, AdvertiseKeeps
<1>8. CASE Announce
  <2>1. PeerListen(ListenUrl(host, listenPort, routes)) =
          IF host = NoHost THEN NoHost ELSE AdvertisedUrl(host, listenPort)
    BY <1>8, ListenUrlIs DEF ShareInv, Announce
  <2>2. /\ started
        /\ told' = [host |-> host, url |-> PeerListen(ListenUrl(host, listenPort, routes))]
        /\ UNCHANGED <<stunVars, placeVars, queryVars, field, started, listenPort, host, shared>>
    BY <1>8 DEF Announce
  <2>3. told'.url = IF told'.host = NoHost THEN NoHost ELSE AdvertisedUrl(told'.host, listenPort)
    BY <2>1, <2>2
  <2> QED
    BY <2>2, <2>3 DEF ShareInv, Suggests, PublicIp, stunVars, placeVars, queryVars
<1>9. CASE Roam
  BY <1>9 DEF Roam, ShareInv, Suggests, PublicIp, stunVars, queryVars, nodeVars
<1>10. CASE UNCHANGED discoveryVars
  BY <1>10 DEF discoveryVars, ShareInv, Suggests, PublicIp, stunVars, placeVars, queryVars, nodeVars
<1> QED
  BY <1>2, <1>3, <1>4, <1>5, <1>6, <1>7, <1>8, <1>9, <1>10 DEF DiscoveryNext

LEMMA ShareInvHolds == DiscoverySpec => [](WalkInv /\ ShareInv)
<1>1. DiscoveryInit => WalkInv /\ ShareInv
  BY WalkInvInit, ShareInvInit
<1>2. WalkInv /\ ShareInv /\ [DiscoveryNext]_discoveryVars => WalkInv' /\ ShareInv'
  BY WalkInvStep, ShareInvStep
<1> QED
  BY <1>1, <1>2, PTL DEF DiscoverySpec

-----------------------------------------------------------------------------
(* What follows for the window and for peers.                              *)

LEMMA TypesHold == WalkInv /\ ShareInv => DiscoveryTypeOK
<1> SUFFICES ASSUME WalkInv, ShareInv
             PROVE  DiscoveryTypeOK
  OBVIOUS
<1>1. message \in Seq(Byte) /\ Len(message) \in Nat
  BY MessageIs DEF WalkInv
<1>2. i \in 20 .. Len(message) + 4 * 65536
  BY <1>1 DEF WalkInv
<1> QED
  BY <1>1, <1>2 DEF DiscoveryTypeOK, WalkInv, ShareInv

\* Type correctness.
THEOREM DiscoveryTypes == DiscoverySpec => []DiscoveryTypeOK
BY ShareInvHolds, TypesHold, PTL

\* The suggestion and the share URL are both the advertised URL of one host.
LEMMA SuggestionStands == WalkInv /\ ShareInv => SuggestionIsShared
<1> SUFFICES ASSUME WalkInv, ShareInv, suggested # Nothing, stun = "idle",
                    NEW kept, kept = IF asked # NoHost THEN asked ELSE PublicIp,
                    kept # NoHost
             PROVE  ShareUrlOf(kept, askedPort, routes) = suggested
  BY DEF SuggestionIsShared
<1>1. Suggests /\ routes \in Routes /\ askedPort \in Numbers
  BY DEF ShareInv
<1>2. CASE asked # NoHost
  BY <1>1, <1>2, ShareUrlIs DEF ShareInv, Suggests
<1>3. CASE asked = NoHost
  BY <1>1, <1>3, PublicIpIs, ShareUrlIs DEF Suggests
<1> QED
  BY <1>2, <1>3

\* What Detect suggests is what Start shares, for any text and any answer.
THEOREM SuggestionKept == DiscoverySpec => []SuggestionIsShared
BY ShareInvHolds, SuggestionStands, PTL

\* The share URL is the advertised URL of the host, and the forms are advertised
\* as they are meant.
LEMMA FormsShared == WalkInv /\ ShareInv => SharedAsTyped
<1> SUFFICES ASSUME WalkInv, ShareInv, started
             PROVE  SharedAsTyped
  BY DEF SharedAsTyped
<1>1. host \in Seq(Words) /\ routes \in Seq(Words) /\ listenPort \in Numbers
  BY RoutesAssumption DEF ShareInv
<1>2. IsInjective(CandidateUrls(host, listenPort, routes))
  BY <1>1, CandidatesAre
<1>3. ASSUME NEW name \in ToSet(host) \ ToSet(https),
             NEW scheme \in {<<>>, http, https}, NEW slash \in {<<>>, <<"/">>},
             NEW port \in {<<>>} \cup {<<":", number>> : number \in Numbers},
             host = scheme \o <<name>> \o port \o slash
      PROVE  shared = http \o <<name>> \o (IF port = <<>> THEN <<":", listenPort>> ELSE port)
  <2>1. name \in Words /\ host # NoHost
    BY <1>1 DEF ToSet, NoHost
  <2>2. {"https", ":", "/"} \subseteq ToSet(https)
    BY DEF ToSet, https
  <2>3. name \notin {"https", ":", "/"}
    BY <2>2
  <2>4. host = Typed(scheme, name, port, slash)
    BY <1>3 DEF Typed
  <2>5. shared = AdvertisedUrl(host, listenPort)
    BY <2>1 DEF ShareInv
  <2>6. port \in TypedPorts
    BY DEF TypedPorts
  <2>7. AdvertisedUrl(Typed(scheme, name, port, slash), listenPort) = Meant(name, port, listenPort)
    BY <1>1, <2>1, <2>3, <2>6, AdvertisedAsTyped
  <2> QED
    BY <2>4, <2>5, <2>7 DEF Meant
<1> QED
  BY <1>2, <1>3 DEF SharedAsTyped

\* The forms in which people type a host are all shared as the URL they mean, for
\* any name and any port, and no candidate is listed twice.
THEOREM SharedAsMeant == DiscoverySpec => []SharedAsTyped
BY ShareInvHolds, FormsShared, PTL

\* The share URL and the announced one are both the advertised URL of the host,
\* and what a peer trims from it is nothing.
LEMMA AnnouncementStands == WalkInv /\ ShareInv => AnnouncedIsShared
<1> SUFFICES ASSUME WalkInv, ShareInv, started
             PROVE  AnnouncedIsShared
  BY DEF AnnouncedIsShared
<1>1. host \in Seq(Words) /\ Trim(host) = host /\ routes \in Routes /\ listenPort \in Numbers
  BY DEF ShareInv
<1>2. PeerListen(ListenUrl(host, listenPort, routes)) =
        IF host = NoHost THEN NoHost ELSE AdvertisedUrl(host, listenPort)
  BY <1>1, ListenUrlIs
<1>3. PICK url : url = AdvertisedUrl(host, listenPort)
  OBVIOUS
<1>4. PeerUrl(url) = url /\ HttpUrl(url) /\ url # NoHost
  BY <1>1, <1>3, AdvertisedIs, ListenKept
<1>5. host # NoHost => shared = url
  BY <1>3 DEF ShareInv
<1>6. told.url # Nothing /\ told.host = host => told.url = IF host = NoHost THEN NoHost ELSE url
  BY <1>3 DEF ShareInv
<1> QED
  BY <1>2, <1>3, <1>4, <1>5, <1>6 DEF AnnouncedIsShared

\* A peer keeps the URL that the window offers, for any text the user types and
\* through any change of network.
THEOREM AnnouncementKept == DiscoverySpec => []AnnouncedIsShared
BY ShareInvHolds, AnnouncementStands, PTL

=============================================================================
