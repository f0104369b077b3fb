----------------------------- MODULE MCDiscovery -----------------------------
(***************************************************************************)
(* Inputs of Discovery for TLC: every prefix of an answer of at most two   *)
(* attributes, and every text of at most MaxChunks chunks.                 *)
(***************************************************************************)
EXTENDS Discovery

CONSTANT MaxChunks

PortNumbers == {"7420", "9000"}

PublicAddress == <<203, 0, 113, 10>>
OtherAddress == <<198, 51, 100, 7>>

DottedTwo ==
  [address \in {PublicAddress, OtherAddress} |->
     IF address = PublicAddress THEN "203.0.113.10" ELSE "198.51.100.7"]

\* Addresses in both forms, one too short and one of IPv6, and texts of the
\* server's of lengths that need padding, one of none.
Attributes ==
  [type : {MAPPED_ADDRESS}, family : {1}, address : {PublicAddress}, size : {8}]
    \cup [type : {XOR_MAPPED_ADDRESS}, family : {1}, address : {OtherAddress}, size : {4, 8}]
    \cup [type : {XOR_MAPPED_ADDRESS}, family : {2}, address : {OtherAddress}, size : {20}]
    \cup [type : {32802}, family : {1}, address : {PublicAddress}, size : {0, 3}]

AttributeLists ==
  {<<>>} \cup {<<x>> : x \in Attributes} \cup {<<x, y>> : x, y \in Attributes}

AnswerOf(list, n) == [attributes |-> list, length |-> n]

AllAnswers ==
  UNION {{AnswerOf(list, n) : n \in 19 .. Len(Datagram(list))} : list \in AttributeLists}

PlainAnswer ==
  LET list == <<[type |-> XOR_MAPPED_ADDRESS, family |-> 1, address |-> PublicAddress,
                 size |-> 8]>>
  IN AnswerOf(list, Len(Datagram(list)))

Chunks == {http, <<":">>, <<"/">>, <<" ">>, <<"chat.example.com">>, <<"9000">>,
           <<"192.168.1.7">>}

AllTexts == {FlattenSeq(chunks) : chunks \in BoundedSeq(Chunks, MaxChunks)}

SilentAnswer == AnswerOf(<<>>, 0)

Forms ==
  {scheme \o <<"chat.example.com">> \o port \o slash :
     scheme \in {<<>>, http, https}, port \in {<<>>, <<":", "9000">>}, slash \in {<<>>, <<"/">>}}

AnswersAlone == [answer : AllAnswers, text : {NoHost}, ports : {{"7420"}}]

\* Every answer, every text, and one of each together with a change of the port.
AnswersAndTexts ==
  AnswersAlone
    \cup [answer : {SilentAnswer}, text : AllTexts \cup Forms, ports : {{"7420"}}]
    \cup [answer : {PlainAnswer}, text : Forms, ports : {PortNumbers}]

OneRouteOrNone == {<<"192.168.1.7", "192.168.1.7">>, <<"127.0.0.1", "none">>}

AllNames ==
  {"chat.example.com", "203.0.113.10", "198.51.100.7", "192.168.1.7", "127.0.0.1", "none"}

=============================================================================
