---------------------------- MODULE Mailbox_proofs ----------------------------
(***************************************************************************)
(* What messaging keeps, whoever makes the sessions: an inductive          *)
(* invariant and a lemma for each step.  PeerNode_proofs and               *)
(* Conversation_proofs use them, with restarts and on one fixed session.   *)
(*                                                                         *)
(* A wire waits in an outbox, a request or an answer while the identities  *)
(* and sessions around it change.  What it keeps is its seal: the secret   *)
(* it was encrypted with is the one of its author and of the identity it   *)
(* was written to.                                                         *)
(***************************************************************************)
EXTENDS Mailbox, SequenceTheorems, FiniteSetTheorems, WellFoundedInduction, TLAPS

Sealed(wire) ==
  wire.payload.key[1] = {wire.from_public_key, wire.payload.plain.for}

SealedWires == {wire \in Wire : Sealed(wire)}

OwnSends(n) ==
  {send \in Send : send.wire \in SealedWires /\ send.wire.payload.plain.by = n}

SealedPolls == {p \in Poll : p.stage # "posted" => p.wires \in Seq(SealedWires)}

\* What the window of n may show.
OwnMessages(n) ==
  {message \in ChatMessage :
     IF message.direction = "in"
     THEN message.body.for = PublicKey(n)
     ELSE message.body.by = n}

\* The inductive invariant, one part for each place a text can be.
OutboxInv ==
  /\ outbox \in [Nodes -> Seq(SealedWires)]
  /\ \A n \in Nodes : Len(outbox[n]) <= OutboxCapacity

WindowInv ==
  /\ messages \in [Nodes -> Seq(ChatMessage)]
  /\ \A n \in Nodes : messages[n] \in Seq(OwnMessages(n))

SendInv ==
  /\ sent \in [Nodes -> Nat]
  /\ sending \in [Nodes -> Send \cup {NoSend}]
  /\ \A n \in Nodes :
       /\ sending[n] # NoSend => sending[n] \in OwnSends(n)
       /\ (ioLock[n] = "send") <=> (sending[n] # NoSend)
  /\ staleSends \subseteq [to : Nodes, wire : SealedWires]
  /\ abandoned \subseteq Texts
  /\ refused \subseteq Texts

PollInv ==
  /\ poll \in [Nodes -> SealedPolls \cup {NoPoll}]
  /\ stalePulls \subseteq [to : Nodes, req : PullRequest, no : Nat]
  /\ faults \in Nat
  /\ lost \subseteq Texts

MessagesInv == OutboxInv /\ WindowInv /\ SendInv /\ PollInv

-----------------------------------------------------------------------------
(* What the operators of Mailbox return.                                   *)

LEMMA OwnKeyType ==
  ASSUME SharedTypeOK, NEW n \in Nodes
  PROVE  PublicKey(n) \in PublicKeys
BY DEF SharedTypeOK, PublicKey, PublicKeys

LEMMA SessionFields ==
  ASSUME SharedTypeOK, NEW n \in Nodes, Connected(n)
  PROVE  /\ session[n].peer_public_key \in PublicKeys
         /\ session[n].peer_url \in Urls \cup {NoUrl}
         /\ session[n].local_is_initiator \in BOOLEAN
BY DEF SharedTypeOK, Connected, Session

\* What a node encrypts for its session's peer.
LEMMA EncryptKey ==
  ASSUME SharedTypeOK, NEW n \in Nodes, Connected(n), NEW plain
  PROVE  LET payload == Encrypt(SessionKeys(n), plain)
         IN /\ payload.plain = plain
            /\ payload.key \in Keys
            /\ payload.key[1] = {PublicKey(n), session[n].peer_public_key}
<1>1. PublicKey(n) \in PublicKeys
  BY OwnKeyType
<1> QED
  BY <1>1, SessionFields
  DEF Encrypt, SessionKeys, Derive, HkdfKey, SharedSecret, SendLabel, Keys, Labels

LEMMA NextTextType ==
  ASSUME SharedTypeOK, SendInv, NEW n \in Nodes, Connected(n)
  PROVE  NextText(n) \in Texts
BY SessionFields DEF NextText, Texts, SendInv

\* send_text makes sealed wires.
LEMMA WireMessageSealed ==
  ASSUME SharedTypeOK, SendInv, NEW n \in Nodes, Connected(n)
  PROVE  /\ WireMessage(n, NextText(n)) \in SealedWires
         /\ WireMessage(n, NextText(n)).payload.plain = NextText(n)
<1> DEFINE payload == Encrypt(SessionKeys(n), NextText(n))
<1>1. PublicKey(n) \in PublicKeys
  BY OwnKeyType
<1>2. NextText(n) \in Texts /\ NextText(n).for = session[n].peer_public_key
  BY NextTextType DEF NextText
<1>3. /\ payload.plain = NextText(n)
      /\ payload.key \in Keys
      /\ payload.key[1] = {PublicKey(n), session[n].peer_public_key}
  BY EncryptKey
<1>4. payload \in [key : Keys, plain : Texts]
  BY <1>2, <1>3 DEF Encrypt
<1> HIDE DEF payload
<1>5. WireMessage(n, NextText(n)) = [from_public_key |-> PublicKey(n), payload |-> payload]
  BY DEF WireMessage, payload
<1> QED
  BY <1>1, <1>2, <1>3, <1>4, <1>5 DEF SealedWires, Sealed, Wire

\* accept_message and poll_once open a sealed wire only at its addressee.
LEMMA GenuineForUs ==
  ASSUME SharedTypeOK, NEW n \in Nodes, NEW wire \in SealedWires, Genuine(n, wire)
  PROVE  In(wire.payload.plain) \in OwnMessages(n)
<1>1. wire.payload.key[1] = {PublicKey(n), wire.from_public_key}
  BY DEF Genuine, Opens, SessionKeys, Derive, HkdfKey, SharedSecret
<1>2. wire.payload.key[1] = {wire.from_public_key, wire.payload.plain.for}
  BY DEF SealedWires, Sealed
<1>3. wire.payload.plain.for = PublicKey(n)
  BY <1>1, <1>2, Zenon
<1>4. wire.payload.plain \in Texts
  BY DEF SealedWires, Wire
<1> QED
  BY <1>3, <1>4 DEF In, OwnMessages, ChatMessage

LEMMA TextsOfSealed ==
  ASSUME NEW wires \in Seq(SealedWires)
  PROVE  TextsOf(wires) \subseteq Texts
<1>1. \A i \in DOMAIN wires : wires[i] \in SealedWires
  OBVIOUS
<1> QED
  BY <1>1 DEF TextsOf, SealedWires, Wire

LEMMA SendFields ==
  ASSUME SendInv, NEW n \in Nodes, sending[n] # NoSend
  PROVE  /\ sending[n].url \in Urls
         /\ sending[n].wire \in SealedWires
         /\ sending[n].wire.payload.plain \in Texts
         /\ sending[n].wire.payload.plain.by = n
         /\ sending[n].stage \in {"posted", "answered"}
BY DEF SendInv, OwnSends, Send, SealedWires, Wire

LEMMA PollFields ==
  ASSUME PollInv, NEW n \in Nodes, poll[n] # NoPoll
  PROVE  /\ poll[n].stage \in {"posted", "answered", "received"}
         /\ poll[n].stage = "posted" =>
              poll[n].url \in Urls /\ poll[n].req \in PullRequest
         /\ poll[n].stage # "posted" => poll[n].wires \in Seq(SealedWires)
BY DEF PollInv, SealedPolls, Poll

LEMMA AnswerType ==
  ASSUME NEW wires \in Seq(SealedWires), NEW stage \in {"answered", "received"}
  PROVE  [stage |-> stage, wires |-> wires] \in SealedPolls
<1>1. wires \in Seq(Wire)
  BY SeqMonotonic DEF SealedWires
<1> QED
  BY <1>1 DEF SealedPolls, Poll

-----------------------------------------------------------------------------
(* Positions listed in order.                                              *)

LEMMA LeastNumber ==
  ASSUME NEW T \in SUBSET Nat, T # {}
  PROVE  \E x \in T : \A y \in T : x <= y
<1> DEFINE R == OpToRel(<, Nat)
<1>1. IsWellFoundedOn(R, Nat)
  BY NatLessThanWellFounded, Zenon
<1>2. \A x \in Nat, y \in Nat : y < x => <<y, x>> \in R
  BY Zenon DEF OpToRel
<1> HIDE DEF R
<1>3. PICK x \in T : \A y \in T : <<y, x>> \notin R
  BY <1>1, WFMin, Zenon
<1>4. \A y \in T : ~(y < x)
  BY <1>2, <1>3
<1> QED
  BY <1>4

\* As many numbers of a set as the set has, each once: none is missing.
LEMMA ListingComplete ==
  ASSUME NEW P \in SUBSET Nat, IsFiniteSet(P), NEW list \in Listings(P), NEW i \in P
  PROVE  \E k \in DOMAIN list : list[k] = i
<1> DEFINE N == 1 .. Cardinality(P)
<1>1. Cardinality(P) \in Nat
  BY FS_CardinalityType
<1>2. list \in [N -> P] /\ \A k, l \in N : k < l => list[k] < list[l]
  BY DEF Listings
<1>3. IsFiniteSet(N) /\ Cardinality(N) = Cardinality(P)
  BY <1>1, FS_Interval
<1>4. list \in Injection(N, P)
  <2>1. ASSUME NEW k \in N, NEW l \in N, list[k] = list[l]
        PROVE  k = l
    <3>1. list[k] \in Nat /\ list[l] \in Nat
      BY <1>2
    <3>2. k \in Nat /\ l \in Nat
      BY <1>1
    <3>3. ~(k < l) /\ ~(l < k)
      BY <1>2, <2>1, <3>1
    <3> QED
      BY <3>2, <3>3
  <2> QED
    BY <1>2, <2>1, Zenon DEF Injection, IsInjective
<1>5. list \in Surjection(N, P)
  BY <1>1, <1>3, <1>4, FS_Injection
<1> QED
  BY <1>2, <1>5 DEF Surjection

\* There is one such list only: at the first place where two differ, the smaller
\* number would be missing in the other.
LEMMA ListingUnique ==
  ASSUME NEW P \in SUBSET Nat, IsFiniteSet(P), NEW f \in Listings(P), NEW g \in Listings(P)
  PROVE  f = g
<1> DEFINE N == 1 .. Cardinality(P)
           Differ == {k \in N : f[k] # g[k]}
<1>1. Cardinality(P) \in Nat
  BY FS_CardinalityType
<1>2. /\ f \in [N -> P] /\ \A k, l \in N : k < l => f[k] < f[l]
      /\ g \in [N -> P] /\ \A k, l \in N : k < l => g[k] < g[l]
  BY DEF Listings
<1>3. N \subseteq Nat
  BY <1>1
<1>4. /\ \A i \in P : \E k \in N : f[k] = i
      /\ \A i \in P : \E k \in N : g[k] = i
  <2>1. \A i \in P : \E k \in DOMAIN f : f[k] = i
    BY ListingComplete, Zenon
  <2>2. \A i \in P : \E k \in DOMAIN g : g[k] = i
    BY ListingComplete, Zenon
  <2>3. DOMAIN f = N /\ DOMAIN g = N
    BY <1>2
  <2> QED
    BY <2>1, <2>2, <2>3, Zenon
<1>5. \A k \in N : k \in Nat /\ f[k] \in P /\ g[k] \in P /\ f[k] \in Nat /\ g[k] \in Nat
  BY <1>2, <1>3
<1> HIDE DEF N
<1>6. ASSUME Differ # {} PROVE FALSE
  <2>1. Differ \in SUBSET Nat
    BY <1>3
  <2>2. PICK k \in Differ : \A l \in Differ : k <= l
    BY <1>6, <2>1, LeastNumber
  <2>3. k \in N /\ f[k] # g[k]
    OBVIOUS
  <2>4. \A l \in N : l < k => f[l] = g[l]
    BY <1>5, <2>2, <2>3
  <2>5. CASE f[k] < g[k]
    <3>1. PICK l \in N : g[l] = f[k]
      BY <1>5, <1>4, <2>3
    <3>2. l < k
      BY <1>5, <1>2, <2>3, <2>5, <3>1
    <3> QED
      BY <1>5, <1>2, <2>3, <2>4, <3>1, <3>2
  <2>6. CASE g[k] < f[k]
    <3>1. PICK l \in N : f[l] = g[k]
      BY <1>5, <1>4, <2>3
    <3>2. l < k
      BY <1>5, <1>2, <2>3, <2>6, <3>1
    <3> QED
      BY <1>5, <1>2, <2>3, <2>4, <3>1, <3>2
  <2> QED
    BY <1>5, <2>3, <2>5, <2>6
<1> QED
  BY <1>2, <1>6

-----------------------------------------------------------------------------
(* The helpers that change a part of the state.                            *)

\* What makes the window grow keeps it the node's own.
LEMMA ShowOwn ==
  ASSUME WindowInv, NEW n \in Nodes, NEW message \in OwnMessages(n), Show(n, message),
         epoch' = epoch
  PROVE  WindowInv'
<1>1. message \in ChatMessage
  BY DEF OwnMessages
<1>2. Append(messages[n], message) \in Seq(ChatMessage)
  BY <1>1 DEF WindowInv
<1>3. Append(messages[n], message) \in Seq(OwnMessages(n))
  BY DEF WindowInv
<1>4. \A m \in Nodes : OwnMessages(m)' = OwnMessages(m)
  BY DEF OwnMessages, PublicKey
<1> QED
  BY <1>2, <1>3, <1>4 DEF WindowInv, Show

LEMMA WindowFrame ==
  ASSUME WindowInv, messages' = messages, epoch' = epoch
  PROVE  WindowInv'
BY DEF WindowInv, OwnMessages, PublicKey

LEMMA OutMessage ==
  ASSUME NEW n \in Nodes, NEW text \in Texts, text.by = n
  PROVE  Out(text) \in OwnMessages(n)
BY DEF Out, OwnMessages, ChatMessage

\* A text that was not delivered is queued within the capacity, or refused.
LEMMA UndeliveredParts ==
  ASSUME OutboxInv, WindowInv, refused \subseteq Texts, epoch' = epoch,
         NEW n \in Nodes, NEW wire \in SealedWires,
         wire.payload.plain \in Texts, wire.payload.plain.by = n,
         Undelivered(n, wire)
  PROVE  OutboxInv' /\ WindowInv' /\ refused' \subseteq Texts
<1>1. CASE OutboxFull(n)
  BY <1>1, WindowFrame DEF Undelivered, OutboxInv
<1>2. CASE ~OutboxFull(n)
  <2>1. /\ outbox' = [outbox EXCEPT ![n] = Append(outbox[n], wire)]
        /\ Show(n, Out(wire.payload.plain))
        /\ refused' = refused
    BY <1>2 DEF Undelivered, PushBack
  <2>2. outbox[n] \in Seq(SealedWires) /\ Len(outbox[n]) \in Nat
    BY DEF OutboxInv
  <2>3. /\ Append(outbox[n], wire) \in Seq(SealedWires)
        /\ Len(Append(outbox[n], wire)) = Len(outbox[n]) + 1
    BY <2>2, AppendProperties
  <2>4. Len(Append(outbox[n], wire)) <= OutboxCapacity
    BY <1>2, <2>2, <2>3, MailboxAssumption DEF OutboxFull
  <2>5. OutboxInv'
    BY <2>1, <2>3, <2>4 DEF OutboxInv
  <2> QED
    BY <2>1, <2>5, OutMessage, ShowOwn
<1> QED
  BY <1>1, <1>2

\* A pull takes what waits, and only for an answer.
LEMMA AcceptPullParts ==
  ASSUME OutboxInv, NEW m \in Nodes, NEW req, AcceptPull(m, req)
  PROVE  OutboxInv' /\ PullResponse(m, req) \in Seq(SealedWires)
<1>1. <<>> \in Seq(SealedWires) /\ Len(<<>>) = 0
  BY EmptySeq
<1> QED
  BY <1>1, MailboxAssumption DEF AcceptPull, PullResponse, Drained, OutboxInv

LEMMA AcceptMessageParts ==
  ASSUME SharedTypeOK, WindowInv, NEW m \in Nodes, NEW wire \in SealedWires,
         AcceptMessage(m, wire), epoch' = epoch
  PROVE  WindowInv'
<1>1. CASE Genuine(m, wire)
  BY <1>1, GenuineForUs, ShowOwn DEF AcceptMessage
<1>2. CASE ~Genuine(m, wire)
  BY <1>2, WindowFrame DEF AcceptMessage
<1> QED
  BY <1>1, <1>2

\* Whatever part of an answer poll_once accepts belongs into the window.
LEMMA AcceptedOwn ==
  ASSUME SharedTypeOK, NEW n \in Nodes, NEW wires \in Seq(SealedWires),
         NEW list \in Passing(n, wires)
  PROVE  Accepted(wires, list) \in Seq(OwnMessages(n))
<1> DEFINE P == {i \in DOMAIN wires : Genuine(n, wires[i])}
<1>1. Cardinality(P) \in Nat
  <2>1. IsFiniteSet(1 .. Len(wires))
    BY FS_Interval
  <2>2. P \in SUBSET (1 .. Len(wires))
    OBVIOUS
  <2> QED
    BY <2>1, <2>2, FS_Subset, FS_CardinalityType
<1>2. list \in [1 .. Cardinality(P) -> P]
  BY DEF Passing, Listings
<1>3. \A i \in P : In(wires[i].payload.plain) \in OwnMessages(n)
  BY GenuineForUs
<1> HIDE DEF P
<1>4. Accepted(wires, list) =
        [i \in 1 .. Cardinality(P) |-> In(wires[list[i]].payload.plain)]
  BY <1>2 DEF Accepted
<1>5. \A i \in 1 .. Cardinality(P) : In(wires[list[i]].payload.plain) \in OwnMessages(n)
  BY <1>2, <1>3
<1>6. Accepted(wires, list) \in [1 .. Cardinality(P) -> OwnMessages(n)]
  BY <1>4, <1>5
<1> QED
  BY <1>1, <1>6

-----------------------------------------------------------------------------
(* The steps of messaging.                                                 *)

LEMMA MaySendFacts ==
  ASSUME MessagesInv, NEW n \in Nodes, MaySend(n)
  PROVE  /\ Connected(n)
         /\ ioLock[n] = "free"
         /\ sending[n] = NoSend
         /\ [sent EXCEPT ![n] = @ + 1] \in [Nodes -> Nat]
BY DEF MaySend, MessagesInv, SendInv

LEMMA SendDirectInv ==
  ASSUME SharedTypeOK, MessagesInv, NEW n \in Nodes, SendTextDirect(n)
  PROVE  MessagesInv'
<1>1. MaySend(n) /\ session[n].peer_url # NoUrl
  BY DEF SendTextDirect
<1> DEFINE wire == WireMessage(n, NextText(n))
           send == [stage |-> "posted", url |-> session[n].peer_url, wire |-> wire]
<1>2. wire \in SealedWires /\ wire.payload.plain = NextText(n)
  BY <1>1, MaySendFacts, WireMessageSealed DEF MessagesInv
<1>3. session[n].peer_url \in Urls
  BY <1>1, MaySendFacts, SessionFields
<1>4. send \in OwnSends(n)
  <2> HIDE DEF wire
  <2>1. wire \in Wire /\ wire.payload.plain.by = n
    BY <1>2 DEF SealedWires, NextText
  <2> QED
    BY <1>2, <1>3, <2>1 DEF OwnSends, Send
<1>5. send \in Send /\ send # NoSend
  BY <1>4, MailboxNullAssumption DEF OwnSends
<1> HIDE DEF send
<1>6. SendInv'
  <2>1. /\ ioLock' = [ioLock EXCEPT ![n] = "send"]
        /\ sending' = [sending EXCEPT ![n] = send]
        /\ sent' = [sent EXCEPT ![n] = @ + 1]
        /\ UNCHANGED <<staleSends, abandoned, refused>>
    BY DEF SendTextDirect, send
  <2>2. DOMAIN ioLock = Nodes
    BY DEF SharedTypeOK
  <2> QED
    BY <1>1, <1>4, <1>5, <2>1, <2>2, MaySendFacts DEF MessagesInv, SendInv, OwnSends
<1>7. OutboxInv' /\ WindowInv' /\ PollInv'
  <2>1. UNCHANGED <<epoch, outbox, messages, poll, stalePulls, faults, lost>>
    BY DEF SendTextDirect
  <2> QED
    BY <2>1, WindowFrame DEF MessagesInv, OutboxInv, PollInv
<1> QED
  BY <1>6, <1>7 DEF MessagesInv

LEMMA SendMailboxInv ==
  ASSUME SharedTypeOK, MessagesInv, NEW n \in Nodes, SendTextMailbox(n)
  PROVE  MessagesInv'
<1> DEFINE wire == WireMessage(n, NextText(n))
<1>1. /\ MaySend(n)
      /\ Undelivered(n, wire)
      /\ sent' = [sent EXCEPT ![n] = @ + 1]
      /\ UNCHANGED <<epoch, ioLock, sending, staleSends, abandoned>>
      /\ UNCHANGED <<poll, stalePulls, faults, lost>>
  BY DEF SendTextMailbox, sharedVars
<1>2. wire \in SealedWires /\ wire.payload.plain = NextText(n)
  BY <1>1, MaySendFacts, WireMessageSealed DEF MessagesInv
<1>3. NextText(n) \in Texts /\ NextText(n).by = n
  BY <1>1, MaySendFacts, NextTextType DEF MessagesInv, NextText
<1> HIDE DEF wire
<1>4. OutboxInv' /\ WindowInv' /\ refused' \subseteq Texts
  BY <1>1, <1>2, <1>3, UndeliveredParts DEF MessagesInv, SendInv
<1>5. SendInv' /\ PollInv'
  BY <1>1, <1>4, MaySendFacts DEF MessagesInv, SendInv, OwnSends, PollInv
<1> QED
  BY <1>4, <1>5 DEF MessagesInv

\* send_text gives back io_lock.
LEMMA ReturnFromSendParts ==
  ASSUME SharedTypeOK, SendInv, NEW n \in Nodes, ReturnFromSend(n)
  PROVE  /\ sending' \in [Nodes -> Send \cup {NoSend}]
         /\ \A m \in Nodes :
              /\ sending'[m] # NoSend => sending'[m] \in OwnSends(m)
              /\ (ioLock'[m] = "send") <=> (sending'[m] # NoSend)
<1>1. DOMAIN ioLock = Nodes /\ DOMAIN sending = Nodes
  BY DEF SharedTypeOK, SendInv
<1> QED
  BY <1>1 DEF ReturnFromSend, SendInv

LEMMA SendReturnsInv ==
  ASSUME SharedTypeOK, MessagesInv, NEW n \in Nodes, SendTextReturns(n)
  PROVE  MessagesInv'
<1> DEFINE wire == sending[n].wire
<1>1. /\ sending[n] # NoSend
      /\ ReturnFromSend(n)
      /\ UNCHANGED <<epoch, sent, staleSends, abandoned>>
      /\ UNCHANGED <<poll, stalePulls, faults, lost>>
  BY DEF SendTextReturns, SendIs
<1>2. /\ wire \in SealedWires
      /\ wire.payload.plain \in Texts
      /\ wire.payload.plain.by = n
  BY <1>1, SendFields DEF MessagesInv
<1>3. OutboxInv' /\ WindowInv' /\ refused' \subseteq Texts
  <2>1. CASE sending[n].delivered
    <3>1. Show(n, Out(wire.payload.plain)) /\ UNCHANGED <<outbox, refused>>
      BY <2>1 DEF SendTextReturns
    <3> HIDE DEF wire
    <3> QED
      BY <3>1, <1>1, <1>2, OutMessage, ShowOwn DEF MessagesInv, OutboxInv, SendInv
  <2>2. CASE ~sending[n].delivered
    <3>1. Undelivered(n, wire)
      BY <2>2 DEF SendTextReturns
    <3> HIDE DEF wire
    <3> QED
      BY <3>1, <1>1, <1>2, UndeliveredParts DEF MessagesInv, SendInv
  <2> QED
    BY <2>1, <2>2
<1>4. SendInv' /\ PollInv'
  BY <1>1, <1>3, ReturnFromSendParts DEF MessagesInv, SendInv, OwnSends, PollInv
<1> QED
  BY <1>3, <1>4 DEF MessagesInv

\* The request a caller leaves behind holds a sealed wire.
LEMMA StaleSendSealed ==
  ASSUME SendInv, NEW n \in Nodes, sending[n] # NoSend, NEW to \in Nodes
  PROVE  [to |-> to, wire |-> sending[n].wire] \in [to : Nodes, wire : SealedWires]
BY SendFields

LEMMA SendTimesOutInv ==
  ASSUME SharedTypeOK, MessagesInv, NEW n \in Nodes, SendTextTimesOut(n)
  PROVE  MessagesInv'
<1> DEFINE wire == sending[n].wire
<1>1. /\ sending[n] # NoSend
      /\ ReturnFromSend(n)
      /\ Undelivered(n, wire)
      /\ abandoned' = abandoned \/ abandoned' = abandoned \cup {wire.payload.plain}
      /\ \/ staleSends' = staleSends
         \/ \E to \in Nodes : staleSends' = staleSends \cup {[to |-> to, wire |-> wire]}
      /\ UNCHANGED <<epoch, sent>>
      /\ UNCHANGED <<poll, stalePulls, faults, lost>>
  BY DEF SendTextTimesOut, SendTimesOut
<1>2. /\ wire \in SealedWires
      /\ wire.payload.plain \in Texts
      /\ wire.payload.plain.by = n
  BY <1>1, SendFields DEF MessagesInv
<1>3. OutboxInv' /\ WindowInv' /\ refused' \subseteq Texts
  <2> HIDE DEF wire
  <2> QED
    BY <1>1, <1>2, UndeliveredParts DEF MessagesInv, SendInv
<1>4. staleSends' \subseteq [to : Nodes, wire : SealedWires]
  BY <1>1, StaleSendSealed DEF MessagesInv, SendInv
<1>5. abandoned' \subseteq Texts
  BY <1>1, <1>2 DEF MessagesInv, SendInv
<1>6. SendInv' /\ PollInv'
  <2> HIDE DEF wire
  <2> QED
    BY <1>1, <1>3, <1>4, <1>5, ReturnFromSendParts
    DEF MessagesInv, SendInv, OwnSends, PollInv
<1> QED
  BY <1>3, <1>6 DEF MessagesInv

LEMMA AnswerSendInv ==
  ASSUME SharedTypeOK, MessagesInv, NEW n \in Nodes, AnswerSend(n)
  PROVE  MessagesInv'
<1> DEFINE wire == sending[n].wire
           m == Serves[sending[n].url]
           send == [stage |-> "answered", url |-> sending[n].url, wire |-> wire,
                    delivered |-> Genuine(m, wire)]
<1>1. /\ sending[n] # NoSend
      /\ m \in Nodes
      /\ AcceptMessage(m, wire)
      /\ sending' = [sending EXCEPT ![n] = send]
      /\ UNCHANGED <<epoch, ioLock, sent, staleSends, abandoned, refused>>
      /\ UNCHANGED <<outbox, poll, stalePulls, faults, lost>>
  BY DEF AnswerSend, SendIs, sharedVars
<1>2. /\ wire \in SealedWires
      /\ wire.payload.plain.by = n
      /\ sending[n].url \in Urls
  BY <1>1, SendFields DEF MessagesInv
<1>3. WindowInv'
  BY <1>1, <1>2, AcceptMessageParts DEF MessagesInv
<1>4. Genuine(m, wire) \in BOOLEAN
  BY DEF Genuine
<1>5. send \in OwnSends(n) /\ send \in Send /\ send # NoSend
  <2>1. wire \in Wire
    BY <1>2 DEF SealedWires
  <2>2. send \in Send
    <3> HIDE DEF wire, m
    <3> QED
      BY <1>2, <1>4, <2>1 DEF Send
  <2> QED
    BY <1>2, <2>2, MailboxNullAssumption DEF OwnSends
<1> HIDE DEF send, wire, m
<1>6. SendInv' /\ OutboxInv' /\ PollInv'
  BY <1>1, <1>5 DEF MessagesInv, SendInv, OwnSends, OutboxInv, PollInv
<1> QED
  BY <1>3, <1>6 DEF MessagesInv

LEMMA AnswerStaleSendInv ==
  ASSUME SharedTypeOK, MessagesInv, AnswerStaleSend
  PROVE  MessagesInv'
<1>1. PICK old \in staleSends :
        AcceptMessage(old.to, old.wire) /\ staleSends' = staleSends \ {old}
  BY DEF AnswerStaleSend
<1>2. UNCHANGED <<epoch, ioLock, sent, sending, abandoned, refused, outbox, poll,
                  stalePulls, faults, lost>>
  BY DEF AnswerStaleSend, sharedVars
<1>3. old.to \in Nodes /\ old.wire \in SealedWires
  BY DEF MessagesInv, SendInv
<1>4. WindowInv'
  BY <1>1, <1>2, <1>3, AcceptMessageParts DEF MessagesInv
<1> QED
  BY <1>1, <1>2, <1>4 DEF MessagesInv, SendInv, OwnSends, OutboxInv, PollInv

-----------------------------------------------------------------------------
(* The steps of the poller.                                                *)

\* A step that changes only poll and what its timeouts leave behind.
LEMMA PollFrame ==
  ASSUME MessagesInv, PollInv',
         UNCHANGED <<epoch, ioLock, outbox, messages, sent, sending, staleSends,
                     abandoned, refused>>
  PROVE  MessagesInv'
<1>1. WindowInv'
  BY WindowFrame DEF MessagesInv
<1> QED
  BY <1>1 DEF MessagesInv, OutboxInv, SendInv, OwnSends

LEMMA PullRequestType ==
  ASSUME SharedTypeOK, NEW n \in Nodes, Connected(n)
  PROVE  [from_public_key |-> PublicKey(n),
          proof |-> Encrypt(SessionKeys(n), PullTranscript)] \in PullRequest
<1>1. PublicKey(n) \in PublicKeys
  BY OwnKeyType
<1>2. Encrypt(SessionKeys(n), PullTranscript) \in [key : Keys, plain : {PullTranscript}]
  BY EncryptKey DEF Encrypt
<1> QED
  BY <1>1, <1>2 DEF PullRequest

LEMMA PollStartInv ==
  ASSUME SharedTypeOK, MessagesInv, NEW n \in Nodes, PollStart(n)
  PROVE  MessagesInv'
<1> DEFINE req == [from_public_key |-> PublicKey(n),
                   proof |-> Encrypt(SessionKeys(n), PullTranscript)]
           p == [stage |-> "posted", url |-> session[n].peer_url, req |-> req]
<1>1. /\ Connected(n)
      /\ session[n].peer_url # NoUrl
      /\ poll' = [poll EXCEPT ![n] = p]
      /\ UNCHANGED <<epoch, ioLock, outbox, messages, sent, sending, staleSends,
                     abandoned, refused>>
      /\ UNCHANGED <<stalePulls, faults, lost>>
  BY DEF PollStart, sharedVars
<1>2. req \in PullRequest /\ session[n].peer_url \in Urls
  BY <1>1, PullRequestType, SessionFields
<1> HIDE DEF req
<1>3. p \in SealedPolls
  BY <1>2 DEF SealedPolls, Poll
<1> HIDE DEF p
<1>4. PollInv'
  BY <1>1, <1>3 DEF MessagesInv, PollInv
<1> QED
  BY <1>1, <1>4, PollFrame

LEMMA PollEndsInv ==
  ASSUME SharedTypeOK, MessagesInv, NEW n \in Nodes, PollFails(n) \/ PollReceives(n)
  PROVE  MessagesInv'
<1>1. /\ UNCHANGED <<epoch, ioLock, outbox, messages, sent, sending, staleSends,
                     abandoned, refused>>
      /\ UNCHANGED <<stalePulls, faults, lost>>
  BY DEF PollFails, PollReceives, sharedVars
<1>2. CASE PollFails(n)
  <2>1. PollInv'
    BY <1>1, <1>2 DEF PollFails, MessagesInv, PollInv
  <2> QED
    BY <1>1, <2>1, PollFrame
<1>3. CASE PollReceives(n)
  <2>1. poll[n] # NoPoll /\ poll[n].stage = "answered"
    BY <1>3 DEF PollReceives, PollIs
  <2>2. [stage |-> "received", wires |-> poll[n].wires] \in SealedPolls
    BY <2>1, PollFields, AnswerType DEF MessagesInv
  <2>3. PollInv'
    BY <1>1, <1>3, <2>2 DEF PollReceives, MessagesInv, PollInv
  <2> QED
    BY <1>1, <2>3, PollFrame
<1> QED
  BY <1>2, <1>3

\* The request of a poll that nobody waits for any more.
LEMMA StalePullType ==
  ASSUME PollInv, NEW n \in Nodes, PollIs(n, "posted"), NEW to \in Nodes
  PROVE  [to |-> to, req |-> poll[n].req, no |-> faults]
           \in [to : Nodes, req : PullRequest, no : Nat]
BY PollFields DEF PollIs, PollInv

LEMMA PollTimesOutInv ==
  ASSUME SharedTypeOK, MessagesInv, NEW n \in Nodes, PollTimesOut(n)
  PROVE  MessagesInv'
<1>1. /\ UNCHANGED <<epoch, ioLock, outbox, messages, sent, sending, staleSends,
                     abandoned, refused>>
      /\ faults' = faults + 1
      /\ poll' = [poll EXCEPT ![n] = NoPoll]
  BY DEF PollTimesOut, sharedVars
<1>2. stalePulls' \subseteq [to : Nodes, req : PullRequest, no : Nat] /\ lost' \subseteq Texts
  <2>1. CASE /\ PollIs(n, "posted")
             /\ Serves[poll[n].url] \in Nodes
             /\ stalePulls' = stalePulls \cup
                  {[to |-> Serves[poll[n].url], req |-> poll[n].req, no |-> faults]}
             /\ UNCHANGED lost
    BY <2>1, StalePullType DEF MessagesInv, PollInv
  <2>2. CASE /\ PollIs(n, "answered")
             /\ lost' = lost \cup TextsOf(poll[n].wires)
             /\ UNCHANGED stalePulls
    <3>1. poll[n].wires \in Seq(SealedWires)
      BY <2>2, PollFields DEF MessagesInv, PollIs
    <3> QED
      BY <2>2, <3>1, TextsOfSealed DEF MessagesInv, PollInv
  <2> QED
    BY <2>1, <2>2 DEF PollTimesOut
<1>3. PollInv'
  BY <1>1, <1>2 DEF MessagesInv, PollInv
<1> QED
  BY <1>1, <1>3, PollFrame

LEMMA PollAppliesInv ==
  ASSUME SharedTypeOK, MessagesInv, NEW n \in Nodes, PollApplies(n)
  PROVE  MessagesInv'
<1>1. /\ poll[n] # NoPoll
      /\ poll[n].stage = "received"
      /\ poll' = [poll EXCEPT ![n] = NoPoll]
      /\ UNCHANGED <<epoch, ioLock, outbox, sent, sending, staleSends, abandoned, refused>>
      /\ UNCHANGED <<stalePulls, faults, lost>>
  BY DEF PollApplies, PollIs, sharedVars
<1>2. PICK list \in Passing(n, poll[n].wires) :
        messages' = [messages EXCEPT ![n] = @ \o Accepted(poll[n].wires, list)]
  BY DEF PollApplies
<1> DEFINE new == Accepted(poll[n].wires, list)
<1>3. new \in Seq(OwnMessages(n))
  BY <1>1, PollFields, AcceptedOwn DEF MessagesInv
<1> HIDE DEF new
<1>4. /\ messages[n] \o new \in Seq(ChatMessage)
      /\ messages[n] \o new \in Seq(OwnMessages(n))
  <2>1. new \in Seq(ChatMessage)
    BY <1>3, SeqMonotonic DEF OwnMessages
  <2> QED
    BY <1>3, <2>1, ConcatProperties DEF MessagesInv, WindowInv
<1>5. \A m \in Nodes : OwnMessages(m)' = OwnMessages(m)
  BY <1>1 DEF OwnMessages, PublicKey
<1>6. WindowInv'
  BY <1>2, <1>4, <1>5 DEF MessagesInv, WindowInv, new
<1> QED
  BY <1>1, <1>6 DEF MessagesInv, OutboxInv, SendInv, OwnSends, PollInv

LEMMA AnswerPullInv ==
  ASSUME SharedTypeOK, MessagesInv, NEW n \in Nodes, AnswerPull(n)
  PROVE  MessagesInv'
<1> DEFINE m == Serves[poll[n].url]
           wires == PullResponse(m, poll[n].req)
           p == [stage |-> "answered", wires |-> wires]
<1>1. /\ m \in Nodes
      /\ AcceptPull(m, poll[n].req)
      /\ poll' = [poll EXCEPT ![n] = IF wires = <<>> THEN NoPoll ELSE p]
      /\ UNCHANGED <<epoch, ioLock, messages, sent, sending, staleSends, abandoned, refused>>
      /\ UNCHANGED <<stalePulls, faults, lost>>
  BY DEF AnswerPull, sharedVars
<1>2. OutboxInv' /\ wires \in Seq(SealedWires)
  BY <1>1, AcceptPullParts DEF MessagesInv
<1>3. p \in SealedPolls
  BY <1>2, AnswerType
<1> HIDE DEF p, wires
<1>4. PollInv'
  BY <1>1, <1>3 DEF MessagesInv, PollInv
<1>5. WindowInv'
  BY <1>1, WindowFrame DEF MessagesInv
<1> QED
  BY <1>1, <1>2, <1>4, <1>5 DEF MessagesInv, SendInv, OwnSends

LEMMA AnswerStalePullInv ==
  ASSUME SharedTypeOK, MessagesInv, AnswerStalePull
  PROVE  MessagesInv'
<1>1. PICK old \in stalePulls :
        /\ AcceptPull(old.to, old.req)
        /\ lost' = lost \cup TextsOf(PullResponse(old.to, old.req))
        /\ stalePulls' = stalePulls \ {old}
  BY DEF AnswerStalePull
<1>2. UNCHANGED <<epoch, ioLock, messages, sent, sending, poll, staleSends, faults,
                  abandoned, refused>>
  BY DEF AnswerStalePull, sharedVars
<1>3. old.to \in Nodes
  BY DEF MessagesInv, PollInv
<1>4. OutboxInv' /\ PullResponse(old.to, old.req) \in Seq(SealedWires)
  BY <1>1, <1>3, AcceptPullParts DEF MessagesInv
<1>5. lost' \subseteq Texts
  BY <1>1, <1>4, TextsOfSealed DEF MessagesInv, PollInv
<1>6. WindowInv'
  BY <1>2, WindowFrame DEF MessagesInv
<1> QED
  BY <1>1, <1>2, <1>4, <1>5, <1>6 DEF MessagesInv, SendInv, OwnSends, PollInv

\* Every step of messaging.
LEMMA ExchangeInv ==
  ASSUME SharedTypeOK, MessagesInv, NEW n \in Nodes, Exchange(n)
  PROVE  MessagesInv'
<1>1. CASE SendTextDirect(n)
  BY <1>1, SendDirectInv
<1>2. CASE SendTextMailbox(n)
  BY <1>2, SendMailboxInv
<1>3. CASE SendTextReturns(n)
  BY <1>3, SendReturnsInv
<1>4. CASE SendTextTimesOut(n)
  BY <1>4, SendTimesOutInv
<1>5. CASE AnswerSend(n)
  BY <1>5, AnswerSendInv
<1>6. CASE PollStart(n)
  BY <1>6, PollStartInv
<1>7. CASE PollFails(n) \/ PollReceives(n)
  BY <1>7, PollEndsInv
<1>8. CASE PollTimesOut(n)
  BY <1>8, PollTimesOutInv
<1>9. CASE PollApplies(n)
  BY <1>9, PollAppliesInv
<1>10. CASE AnswerPull(n)
  BY <1>10, AnswerPullInv
<1> QED
  BY <1>1, <1>2, <1>3, <1>4, <1>5, <1>6, <1>7, <1>8, <1>9, <1>10 DEF Exchange

LEMMA MailboxNextInv ==
  ASSUME SharedTypeOK, MessagesInv, MailboxNext
  PROVE  MessagesInv'
BY ExchangeInv, AnswerStaleSendInv, AnswerStalePullInv DEF MailboxNext

LEMMA MessagesInit ==
  ASSUME MailboxInit, \A n \in Nodes : ioLock[n] # "send"
  PROVE  MessagesInv
<1>1. /\ <<>> \in Seq(SealedWires)
      /\ <<>> \in Seq(ChatMessage)
      /\ \A n \in Nodes : <<>> \in Seq(OwnMessages(n))
      /\ Len(<<>>) = 0
  BY EmptySeq
<1>2. OutboxInv /\ WindowInv
  BY <1>1, MailboxAssumption DEF MailboxInit, OutboxInv, WindowInv
<1>3. SendInv /\ PollInv
  BY DEF MailboxInit, SendInv, PollInv
<1> QED
  BY <1>2, <1>3 DEF MessagesInv

\* A step that leaves messaging alone and does not touch a lock of send_text.
LEMMA MessagesFrame ==
  ASSUME MessagesInv, UNCHANGED mailboxVars, epoch' = epoch,
         \A m \in Nodes : (ioLock'[m] = "send") <=> (ioLock[m] = "send")
  PROVE  MessagesInv'
<1>1. WindowInv'
  BY WindowFrame DEF MessagesInv, mailboxVars
<1> QED
  BY <1>1 DEF MessagesInv, mailboxVars, OutboxInv, SendInv, OwnSends, PollInv

\* The invariant contains the types.
LEMMA MessagesTyped == ASSUME SharedTypeOK, MessagesInv PROVE MailboxTypeOK
<1>1. \A n \in Nodes : outbox[n] \in Seq(Wire)
  BY SeqMonotonic DEF MessagesInv, OutboxInv, SealedWires
<1>2. outbox \in [Nodes -> Seq(Wire)]
  BY <1>1 DEF MessagesInv, OutboxInv
<1>3. poll \in [Nodes -> Poll \cup {NoPoll}]
  BY DEF MessagesInv, PollInv, SealedPolls
<1>4. staleSends \subseteq [to : Nodes, wire : Wire]
  BY DEF MessagesInv, SendInv, SealedWires
<1> QED
  BY <1>2, <1>3, <1>4
  DEF MessagesInv, OutboxInv, WindowInv, SendInv, PollInv, MailboxTypeOK

=============================================================================
