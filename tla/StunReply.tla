------------------------------ MODULE StunReply ------------------------------
(***************************************************************************)
(* The STUN query of src-tauri/src/net.rs: a datagram is sent, and either  *)
(* an answer is walked through, attribute by attribute, by offsets that    *)
(* the answer itself contains, or no answer comes.  A byte of the answer   *)
(* is read as message[k], k counted from 0; reading past the end panics in *)
(* Rust, and with it the command.                                          *)
(*                                                                         *)
(* The server is outside of the repository: what it sends is a list of     *)
(* attributes, laid out as RFC 5389 says, of which the socket hands over   *)
(* any prefix.  Attributes is kept to compare the outcome with.            *)
(***************************************************************************)
EXTENDS Integers, Sequences

VARIABLES
  stun,       \* "idle", "asked", "walking" or "done"
  attributes, \* what the server has laid out in the answer
  message,    \* &buf[..n]
  i,          \* the walk's offset
  found       \* the four bytes of the address, or NoAddress

stunVars == <<stun, attributes, message, i, found>>

Byte == 0 .. 255
Uint16 == 0 .. 65535

MAPPED_ADDRESS == 1
XOR_MAPPED_ADDRESS == 32

NoAddress == <<>>

MagicCookie == <<33, 18, 164, 66>>

WrappingAdd(x, y) == (x + y) % 256

\* Exclusive or of two bytes: the sum of the weights of the bits that differ.
BitXor(x, y) ==
  LET differ(weight) == ((x \div weight + y \div weight) % 2) * weight
  IN differ(1) + differ(2) + differ(4) + differ(8) + differ(16) + differ(32) + differ(64)
       + differ(128)

Masked(address) == [k \in 1 .. 4 |-> BitXor(address[k], MagicCookie[k])]

NotPadded(n) == n

\* (n + 3) & !3
Padded(n) == ((n + 3) \div 4) * 4

-----------------------------------------------------------------------------
(* The answer as the server lays it out.                                   *)

\* size is the length that the header of the attribute tells.
Attribute ==
  [type : Uint16, family : Byte, address : [1 .. 4 -> Byte], size : Uint16]

Zeros(n) == [k \in 1 .. n |-> 0]

Padding(n) == CHOOSE k \in 0 .. 3 : (n + k) % 4 = 0

\* Type, length, and a value of size bytes: a zero byte, the family, the port and
\* the address, or as much of it as fits; then zeros up to a multiple of four.
Layout(a) ==
  LET address == IF a.type = XOR_MAPPED_ADDRESS THEN Masked(a.address) ELSE a.address
      value == <<0, a.family, 28, 252>> \o address \o Zeros(a.size)
  IN <<a.type \div 256, a.type % 256, a.size \div 256, a.size % 256>>
       \o SubSeq(value, 1, a.size) \o Zeros(Padding(a.size))

\* The header and the first k attributes.
Upto(list) ==
  LET upto[k \in 0 .. Len(list)] ==
        IF k = 0 THEN Zeros(20) ELSE upto[k - 1] \o Layout(list[k])
  IN upto

Datagram(list) == Upto(list)[Len(list)]

\* Where the k-th attribute begins; the one after the last stands for the end.
Begin(list, k) == Len(Upto(list)[k - 1])

-----------------------------------------------------------------------------
(* stun_public_ipv4 and parse_stun_xor_mapped_v4.                          *)

u16(k) == message[k + 1] * 256 + message[k + 2]

AttrType == u16(i)
AttrLen == u16(i + 2)
ValueStart == i + 4
ValueEnd == ValueStart + AttrLen

HasAttribute == Len(message) >= 20 /\ i + 4 <= Len(message)
HasValue == HasAttribute /\ ValueEnd <= Len(message)

AnyLength == HasValue /\ AttrType \in {XOR_MAPPED_ADDRESS, MAPPED_ADDRESS}

MayBeAddress ==
  /\ HasValue
  /\ AttrType \in {XOR_MAPPED_ADDRESS, MAPPED_ADDRESS}
  /\ AttrLen >= 8

IsAddress == MayBeAddress /\ message[ValueStart + 2] = 1

\* The request has been sent; the socket waits for an answer.
AskStun ==
  /\ stun = "idle"
  /\ stun' = "asked"
  /\ UNCHANGED <<attributes, message, i, found>>

StunAnswers(answer) ==
  /\ stun = "asked"
  /\ stun' = "walking"
  /\ attributes' = answer.attributes
  /\ message' = SubSeq(Datagram(answer.attributes), 1, answer.length)
  /\ i' = 20
  /\ UNCHANGED found

\* There is no socket, or nothing arrives within the timeout.
StunTimesOut ==
  /\ stun = "asked"
  /\ stun' = "done"
  /\ found' = NoAddress
  /\ UNCHANGED <<attributes, message, i>>

\* The message ends, or an attribute claims to reach past its end.
GivesUp ==
  /\ stun = "walking"
  /\ ~HasValue
  /\ stun' = "done"
  /\ found' = NoAddress
  /\ UNCHANGED <<attributes, message, i>>

TakesAddress ==
  /\ stun = "walking"
  /\ IsAddress
  /\ stun' = "done"
  /\ LET address == SubSeq(message, ValueStart + 5, ValueStart + 8)
     IN found' = IF AttrType = XOR_MAPPED_ADDRESS THEN Masked(address) ELSE address
  /\ UNCHANGED <<attributes, message, i>>

WithoutHeader ==
  /\ stun = "walking"
  /\ HasValue
  /\ ~IsAddress
  /\ i' = i + AttrLen
  /\ UNCHANGED <<stun, attributes, message, found>>

SkipsAttribute ==
  /\ stun = "walking"
  /\ HasValue
  /\ ~IsAddress
  /\ i' = ValueStart + Padded(AttrLen)
  /\ UNCHANGED <<stun, attributes, message, found>>

Walks == GivesUp \/ TakesAddress \/ SkipsAttribute

\* The function has returned.
StunReturns ==
  /\ stun = "done"
  /\ stun' = "idle"
  /\ attributes' = <<>>
  /\ message' = <<>>
  /\ i' = 20
  /\ UNCHANGED found

StunInit ==
  /\ stun = "idle"
  /\ attributes = <<>>
  /\ message = <<>>
  /\ i = 20
  /\ found = NoAddress

-----------------------------------------------------------------------------
(* Properties.                                                             *)

\* The offsets, from 0, that the next step of the walk reads.
Reads ==
  (IF HasAttribute THEN i .. i + 3 ELSE {})
    \cup (IF MayBeAddress THEN {ValueStart + 1} ELSE {})
    \cup (IF IsAddress THEN ValueStart + 4 .. ValueStart + 7 ELSE {})

\* Whatever the datagram, the walk reads no byte that it does not have.
ReadsInside == stun = "walking" => Reads \subseteq 0 .. Len(message) - 1

\* RFC 5389, for the attributes as the server meant them: the first of those that
\* have arrived whole and carry an IPv4 address.
Whole(k) == Begin(attributes, k) + 4 + attributes[k].size <= Len(message)

CarriesAddress(k) ==
  /\ attributes[k].type \in {MAPPED_ADDRESS, XOR_MAPPED_ADDRESS}
  /\ attributes[k].size >= 8
  /\ attributes[k].family = 1

\* The walk over bytes finds what the server told: its first IPv4 address that
\* has arrived, unmasked, past attributes of any type and any padding, and
\* nothing if there is none.
FindsFirstAddress ==
  stun = "done" /\ message # <<>> =>
    LET those == {k \in DOMAIN attributes : Whole(k) /\ CarriesAddress(k)}
    IN IF those = {}
       THEN found = NoAddress
       ELSE \E k \in those :
              (\A j \in those : k <= j) /\ found = attributes[k].address

=============================================================================
