-------------------------- MODULE Conversation_proofs --------------------------
(***************************************************************************)
(* Theorems about one session, for any announcements, any capacity of the  *)
(* outbox and any number of texts, timeouts and faults: the types; that a  *)
(* text shown as sent disappears only with an answer to a pull that        *)
(* reached nobody; that each text exists once, a refused one nowhere, and  *)
(* arrives in order, as long as its POST has not timed out; and that for a *)
(* client that cannot be dialled the mailbox implements LossyQueue.        *)
(*                                                                         *)
(* ConversationInv carries the first two: each wire under way opens at the *)
(* other end (so poll_once skips none), a text reported as delivered has   *)
(* been shown there, and a pull that is answered with texts comes from the *)
(* other end.  DeliveryInv carries the others: it says for each text where *)
(* it is, for each two which is older, and what "delivered" and a stale    *)
(* POST tell about the other end.  QueueReady carries the refinement: each *)
(* step of the mailbox is one of seven Moves of the texts for that client, *)
(* and each move a step of the queue or none.                              *)
(* FollowInv carries that an answer is below what it answers: each window  *)
(* holds, above the other end's text, all that this end had shown when the *)
(* other wrote it, also while that text is still in a POST.                *)
(***************************************************************************)
EXTENDS Conversation, Mailbox_proofs

\* Nothing changes an identity or a session here.
Fixed ==
  /\ SharedTypeOK
  /\ epoch = [n \in Nodes |-> 0]
  /\ session = [n \in Nodes |->
                  IF n \in {Client, Host} THEN EstablishedSession(n) ELSE NoSession]

\* Each wire from s opens at r, wherever it is.
WiresOpen(s, r) ==
  /\ \A i \in DOMAIN outbox[s] : Genuine(r, outbox[s][i])
  /\ sending[s] # NoSend => Genuine(r, sending[s].wire)
  /\ \A i \in DOMAIN Pulled(r) : Genuine(r, Pulled(r)[i])

\* "delivered" is the truth.
DeliveredShown(s, r) ==
  SendIs(s, "answered") /\ sending[s].delivered =>
    Shows(r, In(sending[s].wire.payload.plain))

PullsOwn == \A n \in Nodes : PollIs(n, "posted") => poll[n].req.from_public_key = PublicKey(n)

\* Where a text of s may be that its window shows.
Accounted(s, r, text) ==
  \/ Shows(r, In(text))
  \/ Queued(s, text)
  \/ OnItsWay(r, text)
  \/ text \in lost

NothingLost(s, r) == \A text \in Texts : Shows(s, Out(text)) => Accounted(s, r, text)

Flow(s, r) == WiresOpen(s, r) /\ DeliveredShown(s, r) /\ NothingLost(s, r)

ConversationInv ==
  /\ Fixed
  /\ MessagesInv
  /\ PullsOwn
  /\ \A s, r \in Nodes : <<s, r>> \in Ends => Flow(s, r)

-----------------------------------------------------------------------------
(* The session.                                                            *)

LEMMA HostIsNode == Host \in Nodes /\ Client \in Nodes /\ Host # Client
BY ConversationAssumption DEF Host

LEMMA EstablishedTyped ==
  ASSUME SharedTypeOK, NEW n \in Nodes
  PROVE  EstablishedSession(n) \in Session
<1>1. PublicKey(Host) \in PublicKeys /\ PublicKey(Client) \in PublicKeys
  BY HostIsNode, OwnKeyType
<1>2. advertise[Client] \in Urls \cup {NoUrl} /\ HostUrl \in Urls \cup {NoUrl}
  BY HostIsNode, ConversationAssumption DEF SharedTypeOK
<1> QED
  BY <1>1, <1>2 DEF EstablishedSession, Session

\* The two ends know each other and can read each other; nobody else has a session.
LEMMA TwoEnds ==
  ASSUME Fixed, NEW s, NEW r, <<s, r>> \in Ends
  PROVE  /\ s \in Nodes /\ r \in Nodes /\ s # r
         /\ <<r, s>> \in Ends
         /\ Connected(s) /\ Connected(r)
         /\ session[s].peer_public_key = PublicKey(r)
         /\ session[r].peer_public_key = PublicKey(s)
         /\ SessionKeys(s).send = SessionKeys(r).recv
         /\ \A m \in Nodes : Connected(m) => m = s \/ m = r
         /\ PublicKey(s) # PublicKey(r)
<1>1. (s = Client /\ r = Host) \/ (s = Host /\ r = Client)
  BY DEF Ends
<1>2. s \in Nodes /\ r \in Nodes /\ s # r /\ <<r, s>> \in Ends
  BY <1>1, HostIsNode DEF Ends
<1>3. session[s] = EstablishedSession(s) /\ session[r] = EstablishedSession(r)
  BY <1>1, <1>2 DEF Fixed
<1>4. Connected(s) /\ Connected(r)
  BY <1>2, <1>3, EstablishedTyped, NoSessionAssumption DEF Fixed, Connected
<1>5. \A m \in Nodes : Connected(m) => m = s \/ m = r
  BY <1>1 DEF Fixed, Connected
<1>6. /\ session[Client].peer_public_key = PublicKey(Host)
      /\ session[Client].local_is_initiator = TRUE
      /\ session[Host].peer_public_key = PublicKey(Client)
      /\ session[Host].local_is_initiator = FALSE
  <2>1. session[Client] = EstablishedSession(Client) /\ session[Host] = EstablishedSession(Host)
    BY <1>1, <1>3
  <2>2. /\ EstablishedSession(Client).peer_public_key = PublicKey(Host)
        /\ EstablishedSession(Client).local_is_initiator = TRUE
    BY DEF EstablishedSession
  <2>3. /\ EstablishedSession(Host).peer_public_key = PublicKey(Client)
        /\ EstablishedSession(Host).local_is_initiator = FALSE
    BY HostIsNode DEF EstablishedSession
  <2> QED
    BY <2>1, <2>2, <2>3
<1>7. SessionKeys(s).send = SessionKeys(r).recv
  <2>1. SharedSecret(PublicKey(s), PublicKey(r)) = SharedSecret(PublicKey(r), PublicKey(s))
    BY DEF SharedSecret
  <2> QED
    BY <1>1, <1>6, <2>1 DEF SessionKeys, Derive
<1>8. PublicKey(s) # PublicKey(r)
  BY <1>2 DEF PublicKey
<1> QED
  BY <1>1, <1>2, <1>4, <1>5, <1>6, <1>7, <1>8

\* What send_text encrypts at one end, the other end accepts.
LEMMA OwnWireOpens ==
  ASSUME Fixed, NEW s, NEW r, <<s, r>> \in Ends, NEW text
  PROVE  Genuine(r, WireMessage(s, text))
BY TwoEnds DEF Genuine, WireMessage, Opens, Encrypt

\* A wire that opens at one end opens nowhere else.
LEMMA OpensOnce ==
  ASSUME Fixed, NEW s, NEW r, <<s, r>> \in Ends, NEW wire, Genuine(r, wire),
         NEW m \in Nodes, Genuine(m, wire)
  PROVE  m = r
<1>1. wire.from_public_key = PublicKey(s)
  BY TwoEnds DEF Genuine
<1>2. Connected(m) /\ session[m].peer_public_key = PublicKey(s)
  BY <1>1 DEF Genuine
<1> QED
  BY <1>2, TwoEnds

\* Messaging changes no identity and no session.
LEMMA FixedStep == ASSUME Fixed, MailboxNext PROVE Fixed' /\ UNCHANGED <<epoch, session>>
<1>1. ASSUME NEW n \in Nodes, Exchange(n)
      PROVE  Fixed' /\ UNCHANGED <<epoch, session>>
  <2>1. CASE SendTextDirect(n) \/ SendTextReturns(n) \/ SendTextTimesOut(n)
    <3>1. /\ UNCHANGED <<epoch, advertise, session, poller>>
          /\ \E holder \in {"free", "send"} : ioLock' = [ioLock EXCEPT ![n] = holder]
      BY <2>1 DEF SendTextDirect, SendTextReturns, SendTextTimesOut, ReturnFromSend
    <3> QED
      BY <3>1 DEF Fixed, SharedTypeOK, EstablishedSession, PublicKey
  <2>2. CASE UNCHANGED sharedVars
    BY <2>2 DEF Fixed, SharedTypeOK, sharedVars, EstablishedSession, PublicKey
  <2> QED
    BY <1>1, <2>1, <2>2
    DEF Exchange, SendTextMailbox, AnswerSend, PollStart, PollFails, PollTimesOut,
        PollReceives, PollApplies, AnswerPull
<1>2. CASE AnswerStaleSend \/ AnswerStalePull
  BY <1>2 DEF AnswerStaleSend, AnswerStalePull, Fixed, SharedTypeOK, sharedVars,
              EstablishedSession, PublicKey
<1> QED
  BY <1>1, <1>2 DEF MailboxNext

LEMMA GenuineFrame ==
  ASSUME UNCHANGED <<epoch, session>>, NEW m \in Nodes, NEW wire
  PROVE  Genuine(m, wire)' <=> Genuine(m, wire)
BY DEF Genuine, Connected, SessionKeys, PublicKey

-----------------------------------------------------------------------------
(* Where texts are.                                                        *)

LEMMA ShowsAppended ==
  ASSUME WindowInv, NEW n \in Nodes, NEW message \in ChatMessage, Show(n, message),
         NEW m \in Nodes, NEW x
  PROVE  Shows(m, x)' <=> Shows(m, x) \/ (m = n /\ x = message)
<1>1. messages[n] \in Seq(ChatMessage) /\ Len(messages[n]) \in Nat
  BY DEF WindowInv
<1>2. messages'[m] = IF m = n THEN Append(messages[n], message) ELSE messages[m]
  BY DEF WindowInv, Show
<1>3. CASE m = n
  <2> DEFINE old == messages[n]
             both == messages'[m]
  <2>1. /\ DOMAIN both = 1 .. Len(old) + 1
        /\ DOMAIN old = 1 .. Len(old)
        /\ \A i \in 1 .. Len(old) : both[i] = old[i]
        /\ both[Len(old) + 1] = message
    BY <1>1, <1>2, <1>3, AppendProperties
  <2>2. Len(old) \in Nat
    BY <1>1
  <2> HIDE DEF both, old
  <2>3. \A i \in DOMAIN both : i \in DOMAIN old \/ i = Len(old) + 1
    BY <2>1, <2>2
  <2>4. \A i \in DOMAIN old : i \in DOMAIN both
    BY <2>1, <2>2
  <2>5. Len(old) + 1 \in DOMAIN both
    BY <2>1, <2>2
  <2>6. (\E i \in DOMAIN both : both[i] = x) <=>
          (\E i \in DOMAIN old : old[i] = x) \/ x = message
    BY <2>1, <2>3, <2>4, <2>5
  <2> QED
    BY <1>3, <2>6 DEF Shows, both, old
<1>4. CASE m # n
  BY <1>2, <1>4 DEF Shows
<1> QED
  BY <1>3, <1>4

LEMMA ShowsConcatenated ==
  ASSUME WindowInv, NEW n \in Nodes, NEW new \in Seq(ChatMessage),
         messages' = [messages EXCEPT ![n] = @ \o new], NEW m \in Nodes, NEW x
  PROVE  Shows(m, x)' <=> Shows(m, x) \/ (m = n /\ \E i \in DOMAIN new : x = new[i])
<1>1. messages[n] \in Seq(ChatMessage) /\ Len(messages[n]) \in Nat /\ Len(new) \in Nat
  BY DEF WindowInv
<1>2. messages'[m] = IF m = n THEN messages[n] \o new ELSE messages[m]
  BY DEF WindowInv
<1>3. CASE m = n
  <2> DEFINE old == messages[n]
             both == messages'[m]
  <2>1. /\ DOMAIN both = 1 .. Len(old) + Len(new)
        /\ \A i \in 1 .. Len(old) + Len(new) :
             both[i] = IF i <= Len(old) THEN old[i] ELSE new[i - Len(old)]
    BY <1>1, <1>2, <1>3, ConcatProperties
  <2>2. /\ DOMAIN old = 1 .. Len(old) /\ DOMAIN new = 1 .. Len(new)
        /\ Len(old) \in Nat /\ Len(new) \in Nat
    BY <1>1
  <2> HIDE DEF both, old
  <2>3. ASSUME NEW i \in DOMAIN both
        PROVE  \/ i \in DOMAIN old /\ both[i] = old[i]
               \/ i - Len(old) \in DOMAIN new /\ both[i] = new[i - Len(old)]
    BY <2>1, <2>2
  <2>4. ASSUME NEW i \in DOMAIN old
        PROVE  i \in DOMAIN both /\ both[i] = old[i]
    BY <2>1, <2>2
  <2>5. ASSUME NEW i \in DOMAIN new
        PROVE  i + Len(old) \in DOMAIN both /\ both[i + Len(old)] = new[i]
    <3>1. /\ i + Len(old) \in 1 .. Len(old) + Len(new)
          /\ ~(i + Len(old) <= Len(old))
          /\ (i + Len(old)) - Len(old) = i
      BY <2>2
    <3> QED
      BY <2>1, <3>1
  <2>6. (\E i \in DOMAIN both : both[i] = x) <=>
          (\E i \in DOMAIN old : old[i] = x) \/ (\E i \in DOMAIN new : x = new[i])
    BY <2>3, <2>4, <2>5
  <2> QED
    BY <1>3, <2>6 DEF Shows, both, old
<1>4. CASE m # n
  BY <1>2, <1>4 DEF Shows
<1> QED
  BY <1>3, <1>4

LEMMA TextsAppended ==
  ASSUME NEW wires \in Seq(SealedWires), NEW wire \in SealedWires
  PROVE  TextsOf(Append(wires, wire)) = TextsOf(wires) \cup {wire.payload.plain}
<1>1. /\ DOMAIN Append(wires, wire) = 1 .. Len(wires) + 1
      /\ DOMAIN wires = 1 .. Len(wires)
      /\ Len(wires) \in Nat
      /\ \A i \in 1 .. Len(wires) : Append(wires, wire)[i] = wires[i]
      /\ Append(wires, wire)[Len(wires) + 1] = wire
  BY AppendProperties
<1> HIDE DEF TextsOf
<1>2. \A text : text \in TextsOf(Append(wires, wire)) <=>
                  text \in TextsOf(wires) \/ text = wire.payload.plain
  BY <1>1 DEF TextsOf
<1> QED
  BY <1>2

\* All that passes is accepted.
LEMMA ListsAll ==
  ASSUME NEW n, NEW wires \in Seq(SealedWires), NEW list \in Passing(n, wires),
         NEW i \in DOMAIN wires, Genuine(n, wires[i])
  PROVE  \E k \in DOMAIN list : list[k] = i
<1> DEFINE P == {j \in DOMAIN wires : Genuine(n, wires[j])}
<1>1. IsFiniteSet(P) /\ P \in SUBSET Nat /\ i \in P
  <2>1. IsFiniteSet(1 .. Len(wires))
    BY FS_Interval
  <2>2. P \in SUBSET (1 .. Len(wires))
    OBVIOUS
  <2> QED
    BY <2>1, <2>2, FS_Subset
<1>2. list \in Listings(P)
  BY DEF Passing
<1> QED
  BY <1>1, <1>2, ListingComplete

-----------------------------------------------------------------------------
(* The steps: what each does to the texts from s to r.                     *)

\* Nothing that Flow speaks of changes.
LEMMA FlowFrame ==
  ASSUME Fixed, UNCHANGED <<epoch, session, outbox, messages, lost>>,
         NEW s, NEW r, <<s, r>> \in Ends, Flow(s, r),
         sending'[s] = sending[s], Pulled(r)' = Pulled(r)
  PROVE  Flow(s, r)'
<1>1. WiresOpen(s, r)'
  BY TwoEnds, GenuineFrame DEF Flow, WiresOpen
<1>2. DeliveredShown(s, r)'
  BY DEF Flow, DeliveredShown, Shows, SendIs
<1>3. NothingLost(s, r)'
  BY DEF Flow, NothingLost, Accounted, Shows, Queued, OnItsWay
<1> QED
  BY <1>1, <1>2, <1>3 DEF Flow

LEMMA SendDirectFlow ==
  ASSUME ConversationInv, NEW n \in Nodes, SendTextDirect(n),
         NEW s, NEW r, <<s, r>> \in Ends
  PROVE  Flow(s, r)'
<1>1. /\ UNCHANGED <<epoch, session, outbox, messages, poll, lost>>
      /\ sending'[n].stage = "posted"
      /\ sending'[n].wire = WireMessage(n, NextText(n))
      /\ \A m \in Nodes \ {n} : sending'[m] = sending[m]
  BY DEF SendTextDirect, ConversationInv, MessagesInv, SendInv
<1>2. s \in Nodes /\ r \in Nodes /\ Flow(s, r) /\ Fixed
  BY TwoEnds DEF ConversationInv
<1>3. Pulled(r)' = Pulled(r)
  BY <1>1 DEF Pulled, PollIs
<1>4. CASE n = s
  <2>1. Genuine(r, sending'[s].wire)
    BY <1>1, <1>2, <1>4, OwnWireOpens
  <2>2. WiresOpen(s, r)'
    BY <1>1, <1>2, <1>3, <2>1, GenuineFrame DEF Flow, WiresOpen
  <2>3. DeliveredShown(s, r)'
    BY <1>1, <1>4 DEF DeliveredShown, SendIs
  <2>4. NothingLost(s, r)'
    BY <1>1, <1>2, <1>3 DEF Flow, NothingLost, Accounted, Shows, Queued, OnItsWay
  <2> QED
    BY <2>2, <2>3, <2>4 DEF Flow
<1>5. CASE n # s
  BY <1>1, <1>2, <1>3, <1>5, FlowFrame
<1> QED
  BY <1>4, <1>5

\* A text that was not delivered is shown and queued, or neither.
LEMMA UndeliveredFlow ==
  ASSUME ConversationInv, NEW n \in Nodes, NEW wire \in SealedWires,
         Undelivered(n, wire), UNCHANGED <<epoch, session, poll, lost>>,
         NEW s, NEW r, <<s, r>> \in Ends,
         n = s => Genuine(r, wire),
         sending'[s] = IF n = s THEN NoSend ELSE sending[s]
  PROVE  Flow(s, r)'
<1>1. s \in Nodes /\ r \in Nodes /\ Flow(s, r) /\ OutboxInv /\ WindowInv
  BY TwoEnds DEF ConversationInv, MessagesInv
<1>2. Pulled(r)' = Pulled(r)
  BY DEF Pulled, PollIs
<1>3. \A w : Genuine(r, w)' <=> Genuine(r, w)
  BY <1>1, GenuineFrame
<1> DEFINE text == wire.payload.plain
<1>4. CASE OutboxFull(n)
  <2>1. UNCHANGED <<outbox, messages>>
    BY <1>4 DEF Undelivered
  <2>2. WiresOpen(s, r)'
    BY <1>1, <1>2, <1>3, <2>1 DEF Flow, WiresOpen
  <2>3. DeliveredShown(s, r)'
    BY <1>1, <2>1 DEF Flow, DeliveredShown, SendIs, Shows
  <2>4. NothingLost(s, r)'
    BY <1>1, <1>2, <2>1 DEF Flow, NothingLost, Accounted, Shows, Queued, OnItsWay
  <2> QED
    BY <2>2, <2>3, <2>4 DEF Flow
<1>5. CASE ~OutboxFull(n)
  <2>1. /\ outbox' = [outbox EXCEPT ![n] = Append(outbox[n], wire)]
        /\ Show(n, Out(text))
    BY <1>5 DEF Undelivered, PushBack
  <2>2. outbox[n] \in Seq(SealedWires)
    BY <1>1 DEF OutboxInv
  <2>3. text \in Texts /\ Out(text) \in ChatMessage
    BY DEF SealedWires, Wire, Out, ChatMessage
  <2>4. \A m \in Nodes : \A x : Shows(m, x)' <=> Shows(m, x) \/ (m = n /\ x = Out(text))
    BY <1>1, <2>1, <2>3, ShowsAppended
  <2>5. TextsOf(outbox'[s]) =
          IF n = s THEN TextsOf(outbox[s]) \cup {text} ELSE TextsOf(outbox[s])
    BY <1>1, <2>1, <2>2, TextsAppended DEF OutboxInv
  <2>6. \A i \in DOMAIN outbox'[s] : Genuine(r, outbox'[s][i])
    <3>1. CASE n = s
      <4>1. outbox'[s] = Append(outbox[s], wire)
        BY <1>1, <2>1, <3>1 DEF OutboxInv
      <4>2. \A i \in DOMAIN outbox'[s] :
              \/ i \in DOMAIN outbox[s] /\ outbox'[s][i] = outbox[s][i]
              \/ outbox'[s][i] = wire
        <5>1. /\ DOMAIN outbox'[s] = 1 .. Len(outbox[s]) + 1
              /\ DOMAIN outbox[s] = 1 .. Len(outbox[s])
              /\ Len(outbox[s]) \in Nat
              /\ \A i \in 1 .. Len(outbox[s]) : outbox'[s][i] = outbox[s][i]
              /\ outbox'[s][Len(outbox[s]) + 1] = wire
          BY <2>2, <3>1, <4>1, AppendProperties
        <5> QED
          BY <5>1
      <4> QED
        BY <1>1, <3>1, <4>2 DEF Flow, WiresOpen
    <3>2. CASE n # s
      BY <1>1, <2>1, <3>2 DEF Flow, WiresOpen, OutboxInv
    <3> QED
      BY <3>1, <3>2
  <2>7. WiresOpen(s, r)'
    BY <1>1, <1>2, <1>3, <2>6 DEF Flow, WiresOpen
  <2>8. DeliveredShown(s, r)'
    BY <1>1, <2>4 DEF Flow, DeliveredShown, SendIs
  <2>9. NothingLost(s, r)'
    <3> SUFFICES ASSUME NEW t \in Texts, Shows(s, Out(t))'
                 PROVE  Accounted(s, r, t)'
      BY DEF NothingLost
    <3>1. CASE Shows(s, Out(t))
      <4>1. Accounted(s, r, t)
        BY <1>1, <3>1 DEF Flow, NothingLost
      <4> QED
        BY <1>1, <1>2, <2>4, <2>5, <4>1 DEF Accounted, Queued, OnItsWay
    <3>2. CASE n = s /\ Out(t) = Out(text)
      <4>1. t = text
        BY <3>2 DEF Out
      <4> QED
        BY <2>5, <3>2, <4>1 DEF Accounted, Queued
    <3> QED
      BY <1>1, <2>4, <3>1, <3>2
  <2> QED
    BY <2>7, <2>8, <2>9 DEF Flow
<1> QED
  BY <1>4, <1>5

LEMMA SendMailboxFlow ==
  ASSUME ConversationInv, NEW n \in Nodes, SendTextMailbox(n),
         NEW s, NEW r, <<s, r>> \in Ends
  PROVE  Flow(s, r)'
<1> DEFINE wire == WireMessage(n, NextText(n))
<1>1. /\ MaySend(n)
      /\ Undelivered(n, wire)
      /\ UNCHANGED <<epoch, session, poll, lost, sending>>
  BY DEF SendTextMailbox, sharedVars
<1>2. sending[n] = NoSend /\ Connected(n)
  BY <1>1, MaySendFacts DEF ConversationInv
<1>3. wire \in SealedWires
  BY <1>2, WireMessageSealed DEF ConversationInv, Fixed, MessagesInv
<1>4. n = s => Genuine(r, wire)
  BY OwnWireOpens DEF ConversationInv
<1> HIDE DEF wire
<1> QED
  BY <1>1, <1>2, <1>3, <1>4, UndeliveredFlow

LEMMA SendTimesOutFlow ==
  ASSUME ConversationInv, NEW n \in Nodes, SendTextTimesOut(n),
         NEW s, NEW r, <<s, r>> \in Ends
  PROVE  Flow(s, r)'
<1> DEFINE wire == sending[n].wire
<1>1. /\ sending[n] # NoSend
      /\ Undelivered(n, wire)
      /\ sending' = [sending EXCEPT ![n] = NoSend]
      /\ UNCHANGED <<epoch, session, poll, lost>>
  BY DEF SendTextTimesOut, SendTimesOut, ReturnFromSend
<1>2. wire \in SealedWires
  BY <1>1, SendFields DEF ConversationInv, MessagesInv
<1>3. s \in Nodes /\ r \in Nodes /\ Flow(s, r)
  BY TwoEnds DEF ConversationInv
<1>4. n = s => Genuine(r, wire)
  BY <1>1, <1>3 DEF Flow, WiresOpen
<1>5. sending'[s] = IF n = s THEN NoSend ELSE sending[s]
  BY <1>1, <1>3 DEF ConversationInv, MessagesInv, SendInv
<1> HIDE DEF wire
<1> QED
  BY <1>1, <1>2, <1>4, <1>5, UndeliveredFlow

\* A window grows; what else Flow speaks of stays, but a send that ends.
LEMMA ShowFlow ==
  ASSUME ConversationInv, NEW n \in Nodes, NEW message \in ChatMessage, Show(n, message),
         UNCHANGED <<epoch, session, outbox, poll, lost>>,
         NEW s, NEW r, <<s, r>> \in Ends,
         \A text \in Texts :
           n = s /\ message = Out(text) => Shows(r, In(text)),
         sending'[s] # NoSend => Genuine(r, sending'[s].wire),
         DeliveredShown(s, r)'
  PROVE  Flow(s, r)'
<1>1. s \in Nodes /\ r \in Nodes /\ Flow(s, r) /\ WindowInv
  BY TwoEnds DEF ConversationInv, MessagesInv
<1>2. Pulled(r)' = Pulled(r)
  BY DEF Pulled, PollIs
<1>3. \A w : Genuine(r, w)' <=> Genuine(r, w)
  BY <1>1, GenuineFrame
<1>4. \A m \in Nodes : \A x : Shows(m, x)' <=> Shows(m, x) \/ (m = n /\ x = message)
  BY <1>1, ShowsAppended
<1>5. WiresOpen(s, r)'
  BY <1>1, <1>2, <1>3 DEF Flow, WiresOpen
<1>6. NothingLost(s, r)'
  <2> SUFFICES ASSUME NEW t \in Texts, Shows(s, Out(t))'
               PROVE  Accounted(s, r, t)'
    BY DEF NothingLost
  <2>1. Accounted(s, r, t)
    BY <1>1, <1>4 DEF Flow, NothingLost, Accounted
  <2> QED
    BY <1>1, <1>2, <1>4, <2>1 DEF Accounted, Queued, OnItsWay
<1> QED
  BY <1>5, <1>6 DEF Flow

LEMMA SendReturnsFlow ==
  ASSUME ConversationInv, NEW n \in Nodes, SendTextReturns(n),
         NEW s, NEW r, <<s, r>> \in Ends
  PROVE  Flow(s, r)'
<1> DEFINE wire == sending[n].wire
           text == wire.payload.plain
<1>1. /\ sending[n] # NoSend
      /\ SendIs(n, "answered")
      /\ sending' = [sending EXCEPT ![n] = NoSend]
      /\ UNCHANGED <<epoch, session, poll, lost>>
  BY DEF SendTextReturns, SendIs, ReturnFromSend
<1>2. wire \in SealedWires /\ text \in Texts
  BY <1>1, SendFields DEF ConversationInv, MessagesInv
<1>3. s \in Nodes /\ r \in Nodes /\ Flow(s, r)
  BY TwoEnds DEF ConversationInv
<1>4. n = s => Genuine(r, wire)
  BY <1>1, <1>3 DEF Flow, WiresOpen
<1>5. sending'[s] = IF n = s THEN NoSend ELSE sending[s]
  BY <1>1, <1>3 DEF ConversationInv, MessagesInv, SendInv
<1>6. CASE sending[n].delivered
  <2>1. Show(n, Out(text)) /\ UNCHANGED outbox
    BY <1>6 DEF SendTextReturns
  <2>2. n = s => Shows(r, In(text))
    BY <1>1, <1>3, <1>6 DEF Flow, DeliveredShown
  <2> HIDE DEF wire, text
  <2>3. Out(text) \in ChatMessage
    BY <1>2 DEF Out, ChatMessage
  <2>4. \A t \in Texts : n = s /\ Out(text) = Out(t) => Shows(r, In(t))
    <3>1. \A t \in Texts : Out(text) = Out(t) => text = t
      BY DEF Out
    <3> QED
      BY <2>2, <3>1
  <2>5. sending'[s] # NoSend => Genuine(r, sending'[s].wire)
    BY <1>3, <1>5 DEF Flow, WiresOpen
  <2>6. DeliveredShown(s, r)'
    <3>1. \A x : Shows(r, x) => Shows(r, x)'
      BY <1>3, <2>1, <2>3, ShowsAppended DEF ConversationInv, MessagesInv
    <3> QED
      BY <1>3, <1>5, <3>1 DEF Flow, DeliveredShown, SendIs
  <2> QED
    BY <1>1, <2>1, <2>3, <2>4, <2>5, <2>6, ShowFlow
<1>7. CASE ~sending[n].delivered
  <2>1. Undelivered(n, wire)
    BY <1>7 DEF SendTextReturns
  <2> HIDE DEF wire, text
  <2> QED
    BY <1>1, <1>2, <1>4, <1>5, <2>1, UndeliveredFlow
<1> QED
  BY <1>6, <1>7

LEMMA AnswerSendFlow ==
  ASSUME ConversationInv, NEW n \in Nodes, AnswerSend(n),
         NEW s, NEW r, <<s, r>> \in Ends
  PROVE  Flow(s, r)'
<1> DEFINE wire == sending[n].wire
           m == Serves[sending[n].url]
           text == wire.payload.plain
<1>1. /\ SendIs(n, "posted") /\ sending[n] # NoSend
      /\ m \in Nodes
      /\ AcceptMessage(m, wire)
      /\ sending' = [sending EXCEPT ![n] =
                       [stage |-> "answered", url |-> sending[n].url,
                        wire |-> wire, delivered |-> Genuine(m, wire)]]
      /\ UNCHANGED <<epoch, session, outbox, poll, lost>>
  BY DEF AnswerSend, SendIs, sharedVars
<1>2. wire \in SealedWires /\ text \in Texts
  BY <1>1, SendFields DEF ConversationInv, MessagesInv
<1>3. s \in Nodes /\ r \in Nodes /\ Flow(s, r) /\ Fixed /\ WindowInv
  BY TwoEnds DEF ConversationInv, MessagesInv
<1>4. /\ n = s => /\ sending'[s].wire = wire
                 /\ sending'[s].delivered = Genuine(m, wire)
                 /\ Genuine(r, wire)
      /\ n # s => sending'[s] = sending[s]
  BY <1>1, <1>3 DEF ConversationInv, MessagesInv, SendInv, Flow, WiresOpen
<1> HIDE DEF wire, m, text
<1>5. CASE Genuine(m, wire)
  <2>1. Show(m, In(text))
    BY <1>1, <1>5 DEF AcceptMessage, text
  <2>2. In(text) \in ChatMessage /\ \A t \in Texts : In(text) # Out(t)
    BY <1>2 DEF In, Out, ChatMessage
  <2>3. sending'[s] # NoSend => Genuine(r, sending'[s].wire)
    BY <1>3, <1>4 DEF Flow, WiresOpen
  <2>4. \A x : Shows(r, x)' <=> Shows(r, x) \/ (r = m /\ x = In(text))
    BY <1>1, <1>3, <2>1, <2>2, ShowsAppended
  <2>5. DeliveredShown(s, r)'
    <3>1. CASE n = s
      <4>1. m = r
        BY <1>1, <1>3, <1>4, <1>5, <3>1, OpensOnce
      <4> QED
        BY <1>4, <2>4, <3>1, <4>1 DEF DeliveredShown, text
    <3>2. CASE n # s
      BY <1>3, <1>4, <2>4, <3>2 DEF Flow, DeliveredShown, SendIs
    <3> QED
      BY <3>1, <3>2
  <2> QED
    BY <1>1, <2>1, <2>2, <2>3, <2>5, ShowFlow
<1>6. CASE ~Genuine(m, wire)
  <2>1. messages' = messages
    BY <1>1, <1>6 DEF AcceptMessage
  <2>2. CASE n = s
    <3>1. Pulled(r)' = Pulled(r)
      BY <1>1 DEF Pulled, PollIs
    <3>2. WiresOpen(s, r)'
      BY <1>1, <1>3, <1>4, <2>2, <3>1, GenuineFrame DEF Flow, WiresOpen
    <3>3. DeliveredShown(s, r)'
      BY <1>4, <1>6, <2>2 DEF DeliveredShown
    <3>4. NothingLost(s, r)'
      BY <1>1, <1>3, <2>1, <3>1 DEF Flow, NothingLost, Accounted, Shows, Queued, OnItsWay
    <3> QED
      BY <3>2, <3>3, <3>4 DEF Flow
  <2>3. CASE n # s
    <3>1. Pulled(r)' = Pulled(r)
      BY <1>1 DEF Pulled, PollIs
    <3> QED
      BY <1>1, <1>3, <1>4, <2>1, <2>3, <3>1, FlowFrame
  <2> QED
    BY <2>2, <2>3
<1> QED
  BY <1>5, <1>6

LEMMA AnswerStaleSendFlow ==
  ASSUME ConversationInv, AnswerStaleSend, NEW s, NEW r, <<s, r>> \in Ends
  PROVE  Flow(s, r)'
<1>1. PICK old \in staleSends : AcceptMessage(old.to, old.wire)
  BY DEF AnswerStaleSend
<1>2. UNCHANGED <<epoch, session, outbox, poll, lost, sending>>
  BY DEF AnswerStaleSend, sharedVars
<1>3. s \in Nodes /\ r \in Nodes /\ Flow(s, r) /\ Fixed /\ WindowInv
  BY TwoEnds DEF ConversationInv, MessagesInv
<1> DEFINE m == old.to
           text == old.wire.payload.plain
<1>4. m \in Nodes /\ text \in Texts
  BY DEF ConversationInv, MessagesInv, SendInv, SealedWires, Wire
<1>5. CASE Genuine(m, old.wire)
  <2>1. Show(m, In(text))
    BY <1>1, <1>5 DEF AcceptMessage
  <2> HIDE DEF m, text
  <2>2. In(text) \in ChatMessage /\ \A t \in Texts : In(text) # Out(t)
    BY <1>4 DEF In, Out, ChatMessage
  <2>3. sending'[s] # NoSend => Genuine(r, sending'[s].wire)
    BY <1>2, <1>3 DEF Flow, WiresOpen
  <2>4. \A x : Shows(r, x) => Shows(r, x)'
    BY <1>3, <1>4, <2>1, <2>2, ShowsAppended
  <2>5. DeliveredShown(s, r)'
    BY <1>2, <1>3, <2>4 DEF Flow, DeliveredShown, SendIs
  <2> QED
    BY <1>2, <1>4, <2>1, <2>2, <2>3, <2>5, ShowFlow
<1>6. CASE ~Genuine(m, old.wire)
  <2>1. messages' = messages
    BY <1>1, <1>6 DEF AcceptMessage
  <2>2. Pulled(r)' = Pulled(r)
    BY <1>2 DEF Pulled, PollIs
  <2> QED
    BY <1>2, <1>3, <2>1, <2>2, FlowFrame
<1> QED
  BY <1>5, <1>6

-----------------------------------------------------------------------------
(* The steps of the poller.                                                *)

\* A poll that starts, or ends with nothing pulled, or has read its answer.
\* Starting a poll, giving it up on a dead URL and reading the answer move no text.
LEMMA QuietPoll ==
  ASSUME PollInv, NEW n \in Nodes, PollStart(n) \/ PollFails(n) \/ PollReceives(n),
         NEW m \in Nodes
  PROVE  Pulled(m)' = Pulled(m)
<1>1. DOMAIN poll = Nodes
  BY DEF PollInv
<1>2. CASE m # n
  <2>1. poll'[m] = poll[m]
    BY <1>1, <1>2 DEF PollStart, PollFails, PollReceives
  <2> QED
    BY <2>1 DEF Pulled, PollIs
<1>3. CASE m = n
  <2>1. CASE PollStart(n)
    BY <1>1, <1>3, <2>1 DEF PollStart, Pulled, PollIs
  <2>2. CASE PollFails(n)
    BY <1>1, <1>3, <2>2 DEF PollFails, Pulled, PollIs
  <2>3. CASE PollReceives(n)
    <3>1. /\ poll[n] # NoPoll /\ poll[n].stage = "answered"
          /\ poll'[n] = [stage |-> "received", wires |-> poll[n].wires]
      BY <1>1, <2>3 DEF PollReceives, PollIs
    <3>2. [stage |-> "received", wires |-> poll[n].wires] # NoPoll
      <4>1. poll[n].wires \in Seq(SealedWires)
        BY <3>1, PollFields
      <4> QED
        BY <4>1, AnswerType, MailboxNullAssumption DEF SealedPolls
    <3> QED
      BY <1>3, <3>1, <3>2 DEF Pulled, PollIs
  <2> QED
    BY <2>1, <2>2, <2>3
<1> QED
  BY <1>2, <1>3

LEMMA QuietPollFlow ==
  ASSUME ConversationInv, NEW n \in Nodes,
         PollStart(n) \/ PollFails(n) \/ PollReceives(n),
         NEW s, NEW r, <<s, r>> \in Ends
  PROVE  Flow(s, r)'
<1>1. UNCHANGED <<epoch, session, outbox, messages, lost, sending>>
  BY DEF PollStart, PollFails, PollReceives, sharedVars
<1>2. s \in Nodes /\ r \in Nodes /\ Flow(s, r) /\ Fixed /\ PollInv
  BY TwoEnds DEF ConversationInv, MessagesInv
<1>3. Pulled(r)' = Pulled(r)
  BY <1>2, QuietPoll
<1> QED
  BY <1>1, <1>2, <1>3, FlowFrame

\* Texts leave a place only for lost, or for the window of r.
LEMMA MovedFlow ==
  ASSUME ConversationInv, UNCHANGED <<epoch, session, sending>>,
         NEW s, NEW r, <<s, r>> \in Ends,
         WiresOpen(s, r)',
         \A x : Shows(r, x) => Shows(r, x)',
         \A text \in Texts : Shows(s, Out(text))' => Shows(s, Out(text)),
         lost \subseteq lost',
         \A text : Queued(s, text) => Accounted(s, r, text)',
         \A text : OnItsWay(r, text) => Accounted(s, r, text)'
  PROVE  Flow(s, r)'
<1>1. s \in Nodes /\ r \in Nodes /\ Flow(s, r)
  BY TwoEnds DEF ConversationInv
<1>2. DeliveredShown(s, r)'
  BY <1>1 DEF Flow, DeliveredShown, SendIs
<1>3. NothingLost(s, r)'
  BY <1>1 DEF Flow, NothingLost, Accounted
<1> QED
  BY <1>2, <1>3 DEF Flow

LEMMA PollTimesOutFlow ==
  ASSUME ConversationInv, NEW n \in Nodes, PollTimesOut(n),
         NEW s, NEW r, <<s, r>> \in Ends
  PROVE  Flow(s, r)'
<1>1. /\ UNCHANGED <<epoch, session, outbox, messages, sending>>
      /\ poll' = [poll EXCEPT ![n] = NoPoll]
  BY DEF PollTimesOut, sharedVars
<1>2. s \in Nodes /\ r \in Nodes /\ Flow(s, r) /\ DOMAIN poll = Nodes
  BY TwoEnds DEF ConversationInv, MessagesInv, PollInv
<1>3. Pulled(n)' = <<>> /\ \A m \in Nodes \ {n} : Pulled(m)' = Pulled(m)
  BY <1>1, <1>2 DEF Pulled, PollIs
<1>4. lost' = lost \cup TextsOf(Pulled(n))
  <2>1. CASE PollIs(n, "posted") /\ UNCHANGED lost
    <3>1. Pulled(n) = <<>>
      BY <2>1 DEF Pulled
    <3> QED
      BY <2>1, <3>1 DEF TextsOf
  <2>2. CASE PollIs(n, "answered") /\ lost' = lost \cup TextsOf(poll[n].wires)
    BY <2>2 DEF Pulled, PollIs
  <2> QED
    BY <2>1, <2>2 DEF PollTimesOut
<1>5. WiresOpen(s, r)'
  BY <1>1, <1>2, <1>3, GenuineFrame DEF Flow, WiresOpen
<1>6. \A m, x : Shows(m, x)' <=> Shows(m, x)
  BY <1>1 DEF Shows
<1>7. \A text : Queued(s, text) => Queued(s, text)'
  BY <1>1 DEF Queued
<1>8. \A text : OnItsWay(r, text) => OnItsWay(r, text)' \/ text \in lost'
  <2>1. CASE n = r
    BY <1>4, <2>1 DEF OnItsWay
  <2>2. CASE n # r
    BY <1>2, <1>3, <2>2 DEF OnItsWay
  <2> QED
    BY <2>1, <2>2
<1> QED
  BY <1>1, <1>4, <1>5, <1>6, <1>7, <1>8, MovedFlow DEF Accounted

LEMMA PollAppliesFlow ==
  ASSUME ConversationInv, NEW n \in Nodes, PollApplies(n),
         NEW s, NEW r, <<s, r>> \in Ends
  PROVE  Flow(s, r)'
<1>1. /\ UNCHANGED <<epoch, session, outbox, lost, sending>>
      /\ poll' = [poll EXCEPT ![n] = NoPoll]
      /\ PollIs(n, "received")
  BY DEF PollApplies, sharedVars
<1>2. /\ s \in Nodes /\ r \in Nodes /\ Flow(s, r) /\ DOMAIN poll = Nodes
      /\ SharedTypeOK /\ WindowInv /\ PollInv
  BY TwoEnds DEF ConversationInv, Fixed, MessagesInv, PollInv
<1> DEFINE wires == poll[n].wires
<1>3. wires \in Seq(SealedWires) /\ Pulled(n) = wires
  BY <1>1, <1>2, PollFields DEF PollIs, Pulled
<1>4. Pulled(n)' = <<>> /\ \A m \in Nodes \ {n} : Pulled(m)' = Pulled(m)
  BY <1>1, <1>2 DEF Pulled, PollIs
<1>5. PICK list \in Passing(n, wires) :
        messages' = [messages EXCEPT ![n] = @ \o Accepted(wires, list)]
  BY DEF PollApplies
<1> HIDE DEF wires
<1> DEFINE new == Accepted(wires, list)
<1>6. new \in Seq(OwnMessages(n)) /\ new \in Seq(ChatMessage)
  <2>1. new \in Seq(OwnMessages(n))
    BY <1>2, <1>3, <1>5, AcceptedOwn
  <2> HIDE DEF new
  <2> QED
    BY <2>1, SeqMonotonic DEF OwnMessages
<1>7. /\ DOMAIN new = DOMAIN list
      /\ \A k \in DOMAIN list : new[k] = In(wires[list[k]].payload.plain)
  BY DEF Accepted
<1> HIDE DEF new
<1>8. \A m \in Nodes : \A x :
        Shows(m, x)' <=> Shows(m, x) \/ (m = n /\ \E k \in DOMAIN new : x = new[k])
  BY <1>2, <1>5, <1>6, ShowsConcatenated DEF new
<1>9. \A text \in Texts : Shows(s, Out(text))' => Shows(s, Out(text))
  <2>1. \A k \in DOMAIN new : \A text : Out(text) # new[k]
    BY <1>7 DEF In, Out
  <2> QED
    BY <1>2, <1>8, <2>1
<1>10. WiresOpen(s, r)'
  BY <1>1, <1>2, <1>4, GenuineFrame DEF Flow, WiresOpen
<1>11. \A text : Queued(s, text) => Queued(s, text)'
  BY <1>1 DEF Queued
<1>12. \A text : OnItsWay(r, text) => OnItsWay(r, text)' \/ Shows(r, In(text))'
  <2>1. CASE n = r
    <3>1. ASSUME NEW i \in DOMAIN wires
          PROVE  \E k \in DOMAIN new : new[k] = In(wires[i].payload.plain)
      <4>1. Genuine(n, wires[i])
        BY <1>2, <1>3, <2>1 DEF Flow, WiresOpen
      <4>2. PICK k \in DOMAIN list : list[k] = i
        BY <1>3, <1>5, <4>1, ListsAll
      <4> QED
        BY <1>7, <4>2
    <3>2. \A text : OnItsWay(r, text) => \E i \in DOMAIN wires : text = wires[i].payload.plain
      BY <1>3, <2>1 DEF OnItsWay, TextsOf
    <3>3. \A text : OnItsWay(r, text) => \E k \in DOMAIN new : In(text) = new[k]
      BY <3>1, <3>2
    <3> QED
      BY <1>2, <1>8, <2>1, <3>3
  <2>2. CASE n # r
    BY <1>2, <1>4, <2>2 DEF OnItsWay
  <2> QED
    BY <2>1, <2>2
<1> QED
  BY <1>1, <1>2, <1>8, <1>9, <1>10, <1>11, <1>12, MovedFlow DEF Accounted

\* A pull that is answered with the texts of one end is the other end's.
LEMMA AnswerPullFlow ==
  ASSUME ConversationInv, NEW n \in Nodes, AnswerPull(n),
         NEW s, NEW r, <<s, r>> \in Ends
  PROVE  Flow(s, r)'
<1> DEFINE m == Serves[poll[n].url]
           req == poll[n].req
           wires == PullResponse(m, req)
<1>1. /\ UNCHANGED <<epoch, session, messages, lost, sending>>
      /\ PollIs(n, "posted")
      /\ m \in Nodes
      /\ AcceptPull(m, req)
      /\ poll' = [poll EXCEPT ![n] = IF wires = <<>> THEN NoPoll
                                    ELSE [stage |-> "answered", wires |-> wires]]
  BY DEF AnswerPull, sharedVars
<1>2. /\ s \in Nodes /\ r \in Nodes /\ Flow(s, r) /\ Fixed
      /\ DOMAIN poll = Nodes /\ DOMAIN outbox = Nodes /\ OutboxInv
  BY TwoEnds DEF ConversationInv, MessagesInv, OutboxInv, PollInv
<1>3. req.from_public_key = PublicKey(n)
  BY <1>1 DEF ConversationInv, PullsOwn
<1>4. wires \in Seq(SealedWires)
  BY <1>1, <1>2, AcceptPullParts
<1>5. /\ PullAllowed(m, req) =>
           /\ Connected(m) /\ session[m].peer_public_key = PublicKey(n)
           /\ outbox' = [outbox EXCEPT ![m] = <<>>]
           /\ wires = outbox[m]
      /\ ~PullAllowed(m, req) => outbox' = outbox /\ wires = <<>>
  BY <1>1, <1>3 DEF PullAllowed, AcceptPull, Drained, PullResponse
<1> HIDE DEF wires, m, req
<1>6. [stage |-> "answered", wires |-> wires] # NoPoll
  BY <1>4, AnswerType, MailboxNullAssumption DEF SealedPolls
<1>7. Pulled(n)' = wires /\ Pulled(n) = <<>>
  BY <1>1, <1>2, <1>6 DEF Pulled, PollIs
<1>8. \A k \in Nodes \ {n} : Pulled(k)' = Pulled(k)
  BY <1>1, <1>2 DEF Pulled, PollIs
<1>9. PullAllowed(m, req) => (m = s <=> n = r)
  <2>1. \A k \in Nodes : PublicKey(k) = PublicKey(r) <=> k = r
    BY <1>2 DEF PublicKey
  <2>2. \A k \in Nodes : PublicKey(k) = PublicKey(s) <=> k = s
    BY <1>2 DEF PublicKey
  <2> QED
    BY <1>1, <1>2, <1>5, <2>1, <2>2, TwoEnds
<1>10. WiresOpen(s, r)'
  <2>1. \A i \in DOMAIN outbox'[s] : Genuine(r, outbox'[s][i])
    BY <1>1, <1>2, <1>5 DEF Flow, WiresOpen
  <2>2. \A i \in DOMAIN Pulled(r)' : Genuine(r, Pulled(r)'[i])
    <3>1. CASE n = r
      BY <1>2, <1>5, <1>7, <1>9, <3>1 DEF Flow, WiresOpen
    <3>2. CASE n # r
      BY <1>2, <1>8, <3>2 DEF Flow, WiresOpen
    <3> QED
      BY <3>1, <3>2
  <2>3. sending'[s] # NoSend => Genuine(r, sending'[s].wire)
    BY <1>1, <1>2 DEF Flow, WiresOpen
  <2>4. \A wire : Genuine(r, wire)' <=> Genuine(r, wire)
    BY <1>1, <1>2, GenuineFrame
  <2> QED
    BY <2>1, <2>2, <2>3, <2>4 DEF WiresOpen
<1>11. \A k, x : Shows(k, x)' <=> Shows(k, x)
  BY <1>1 DEF Shows
<1>12. \A text : Queued(s, text) => Queued(s, text)' \/ OnItsWay(r, text)'
  <2>1. CASE PullAllowed(m, req) /\ m = s
    BY <1>5, <1>7, <1>9, <2>1 DEF Queued, OnItsWay
  <2>2. CASE ~(PullAllowed(m, req) /\ m = s)
    BY <1>1, <1>2, <1>5, <2>2 DEF Queued
  <2> QED
    BY <2>1, <2>2
<1>13. \A text : OnItsWay(r, text) => OnItsWay(r, text)'
  BY <1>2, <1>7, <1>8 DEF OnItsWay, TextsOf
<1> QED
  BY <1>1, <1>10, <1>11, <1>12, <1>13, MovedFlow DEF Accounted

\* What a late pull drains is lost.
LEMMA AnswerStalePullFlow ==
  ASSUME ConversationInv, AnswerStalePull, NEW s, NEW r, <<s, r>> \in Ends
  PROVE  Flow(s, r)'
<1>1. PICK old \in stalePulls :
        /\ AcceptPull(old.to, old.req)
        /\ lost' = lost \cup TextsOf(PullResponse(old.to, old.req))
  BY DEF AnswerStalePull
<1>2. UNCHANGED <<epoch, session, messages, sending, poll>>
  BY DEF AnswerStalePull, sharedVars
<1>3. /\ s \in Nodes /\ r \in Nodes /\ Flow(s, r) /\ Fixed
      /\ DOMAIN outbox = Nodes /\ old.to \in Nodes
  BY TwoEnds DEF ConversationInv, MessagesInv, OutboxInv, PollInv
<1>4. Pulled(r)' = Pulled(r)
  BY <1>2 DEF Pulled, PollIs
<1>5. \/ outbox'[s] = outbox[s]
      \/ outbox'[s] = <<>> /\ TextsOf(outbox[s]) \subseteq lost'
  BY <1>1, <1>3 DEF AcceptPull, Drained, PullResponse
<1>6. WiresOpen(s, r)'
  <2>1. \A wire : Genuine(r, wire)' <=> Genuine(r, wire)
    BY <1>2, <1>3, GenuineFrame
  <2>2. \A i \in DOMAIN outbox'[s] : Genuine(r, outbox'[s][i])
    BY <1>3, <1>5 DEF Flow, WiresOpen
  <2> QED
    BY <1>2, <1>3, <1>4, <2>1, <2>2 DEF Flow, WiresOpen
<1>7. \A k, x : Shows(k, x)' <=> Shows(k, x)
  BY <1>2 DEF Shows
<1>8. \A text : Queued(s, text) => Queued(s, text)' \/ text \in lost'
  BY <1>5 DEF Queued
<1>9. \A text : OnItsWay(r, text) => OnItsWay(r, text)'
  BY <1>4 DEF OnItsWay
<1> QED
  BY <1>1, <1>2, <1>6, <1>7, <1>8, <1>9, MovedFlow DEF Accounted

-----------------------------------------------------------------------------
(* The invariant.                                                          *)

LEMMA PullsOwnStep ==
  ASSUME ConversationInv, MailboxNext
  PROVE  PullsOwn'
<1>1. \A n \in Nodes : PublicKey(n)' = PublicKey(n)
  BY FixedStep DEF ConversationInv, PublicKey
<1>2. DOMAIN poll = Nodes
  BY DEF ConversationInv, MessagesInv, PollInv
<1>3. ASSUME NEW n \in Nodes, Exchange(n)
      PROVE  PullsOwn'
  <2>1. CASE PollStart(n)
    BY <1>1, <1>2, <2>1 DEF PollStart, ConversationInv, PullsOwn, PollIs
  <2>2. CASE AnswerPull(n)
    BY <1>1, <1>2, <2>2 DEF AnswerPull, ConversationInv, PullsOwn, PollIs
  <2>3. CASE PollReceives(n)
    BY <1>1, <1>2, <2>3 DEF PollReceives, ConversationInv, PullsOwn, PollIs
  <2>4. CASE PollFails(n) \/ PollTimesOut(n) \/ PollApplies(n)
    <3>1. poll' = [poll EXCEPT ![n] = NoPoll]
      BY <2>4 DEF PollFails, PollTimesOut, PollApplies
    <3> QED
      BY <1>1, <1>2, <3>1 DEF ConversationInv, PullsOwn, PollIs
  <2>5. CASE UNCHANGED poll
    BY <1>1, <2>5 DEF ConversationInv, PullsOwn, PollIs
  <2> QED
    BY <1>3, <2>1, <2>2, <2>3, <2>4, <2>5
    DEF Exchange, SendTextDirect, SendTextMailbox, SendTextReturns, SendTextTimesOut,
        AnswerSend
<1>4. CASE AnswerStaleSend \/ AnswerStalePull
  BY <1>1, <1>4 DEF AnswerStaleSend, AnswerStalePull, ConversationInv, PullsOwn, PollIs
<1> QED
  BY <1>3, <1>4 DEF MailboxNext

LEMMA FlowStep ==
  ASSUME ConversationInv, MailboxNext, NEW s, NEW r, <<s, r>> \in Ends
  PROVE  Flow(s, r)'
<1>1. ASSUME NEW n \in Nodes, Exchange(n)
      PROVE  Flow(s, r)'
  <2>1. CASE SendTextDirect(n)
    BY <2>1, SendDirectFlow
  <2>2. CASE SendTextMailbox(n)
    BY <2>2, SendMailboxFlow
  <2>3. CASE SendTextReturns(n)
    BY <2>3, SendReturnsFlow
  <2>4. CASE SendTextTimesOut(n)
    BY <2>4, SendTimesOutFlow
  <2>5. CASE AnswerSend(n)
    BY <2>5, AnswerSendFlow
  <2>6. CASE PollStart(n) \/ PollFails(n) \/ PollReceives(n)
    BY <2>6, QuietPollFlow
  <2>7. CASE PollTimesOut(n)
    BY <2>7, PollTimesOutFlow
  <2>8. CASE PollApplies(n)
    BY <2>8, PollAppliesFlow
  <2>9. CASE AnswerPull(n)
    BY <2>9, AnswerPullFlow
  <2> QED
    BY <1>1, <2>1, <2>2, <2>3, <2>4, <2>5, <2>6, <2>7, <2>8, <2>9 DEF Exchange
<1> QED
  BY <1>1, AnswerStaleSendFlow, AnswerStalePullFlow DEF MailboxNext

LEMMA ConversationInitInv == ConversationInit => ConversationInv
<1> SUFFICES ASSUME ConversationInit
             PROVE  ConversationInv
  OBVIOUS
<1>1. epoch \in [Nodes -> Nat] /\ advertise \in [Nodes -> Urls \cup {NoUrl}]
  BY DEF ConversationInit
<1>2. \A n \in {Client, Host} : EstablishedSession(n) \in Session
  <2>1. PublicKey(Host) \in PublicKeys /\ PublicKey(Client) \in PublicKeys
    BY <1>1, HostIsNode DEF PublicKey, PublicKeys
  <2>2. advertise[Client] \in Urls \cup {NoUrl} /\ HostUrl \in Urls \cup {NoUrl}
    BY <1>1, HostIsNode, ConversationAssumption
  <2> QED
    BY <2>1, <2>2 DEF EstablishedSession, Session
<1>3. Fixed
  BY <1>1, <1>2 DEF ConversationInit, Fixed, SharedTypeOK
<1>4. MessagesInv
  BY MessagesInit DEF ConversationInit
<1>5. PullsOwn
  BY DEF ConversationInit, MailboxInit, PullsOwn, PollIs
<1>6. ASSUME NEW s \in Nodes, NEW r \in Nodes
      PROVE  Flow(s, r)
  BY DEF ConversationInit, MailboxInit, Flow, WiresOpen, DeliveredShown, NothingLost,
         Shows, Pulled, SendIs
<1> QED
  BY <1>3, <1>4, <1>5, <1>6 DEF ConversationInv

LEMMA ConversationStep == ConversationInv /\ [MailboxNext]_mbVars => ConversationInv'
<1> SUFFICES ASSUME ConversationInv, [MailboxNext]_mbVars
             PROVE  ConversationInv'
  OBVIOUS
<1>1. CASE MailboxNext
  <2>1. Fixed' /\ MessagesInv'
    BY <1>1, FixedStep, MailboxNextInv DEF ConversationInv, Fixed
  <2>2. PullsOwn'
    BY <1>1, PullsOwnStep
  <2>3. \A s, r \in Nodes : <<s, r>> \in Ends => Flow(s, r)'
    BY <1>1, FlowStep
  <2> QED
    BY <2>1, <2>2, <2>3 DEF ConversationInv, Ends, Host
<1>2. CASE UNCHANGED mbVars
  <2>1. UNCHANGED <<sharedVars, mailboxVars>>
    BY <1>2 DEF mbVars
  <2>2. Fixed'
    BY <2>1 DEF ConversationInv, Fixed, sharedVars, SharedTypeOK, EstablishedSession, PublicKey
  <2>3. MessagesInv'
    BY <2>1, MessagesFrame DEF ConversationInv, sharedVars
  <2>4. PullsOwn'
    BY <2>1 DEF ConversationInv, PullsOwn, PollIs, PublicKey, sharedVars, mailboxVars
  <2>5. ASSUME NEW s \in Nodes, NEW r \in Nodes, <<s, r>> \in Ends
        PROVE  Flow(s, r)'
    <3>1. Flow(s, r) /\ Fixed
      BY <2>5 DEF ConversationInv
    <3>2. /\ UNCHANGED <<epoch, session, outbox, messages, lost>>
          /\ sending' = sending /\ poll' = poll
      BY <2>1 DEF sharedVars, mailboxVars
    <3>3. Pulled(r)' = Pulled(r)
      BY <3>2 DEF Pulled, PollIs
    <3> QED
      BY <2>5, <3>1, <3>2, <3>3, FlowFrame
  <2> QED
    BY <2>2, <2>3, <2>4, <2>5 DEF ConversationInv, Ends, Host
<1> QED
  BY <1>1, <1>2

LEMMA ConversationCorrect == ConversationSpec => []ConversationInv
BY ConversationInitInv, ConversationStep, PTL DEF ConversationSpec

\* On one session too the state of messaging keeps its types and the outbox its
\* capacity.
THEOREM ConversationTypes == ConversationSpec => []MailboxTypeOK
<1>1. ConversationInv => MailboxTypeOK
  BY MessagesTyped DEF ConversationInv, Fixed
<1> QED
  BY <1>1, ConversationCorrect, PTL

\* A text that send_text reports as sent is shown by the peer, waits in the outbox
\* or in an answer the peer reads, or went with a pull answer that reached nobody:
\* no interleaving of posts, timeouts, late requests and polls loses it otherwise.
THEOREM TextsAreKept == ConversationSpec => []NoTextVanishes
<1>1. ConversationInv => NoTextVanishes
  <2> SUFFICES ASSUME ConversationInv, NEW ends \in Ends, NEW text \in SubmittedBy(ends[1]),
                      Shows(ends[1], Out(text))
               PROVE  Accounted(ends[1], ends[2], text)
    BY DEF NoTextVanishes, Accounted
  <2> DEFINE s == ends[1]
             r == ends[2]
  <2>1. <<s, r>> \in Ends /\ s \in Nodes /\ r \in Nodes
    BY HostIsNode DEF Ends
  <2>2. Connected(s) /\ SharedTypeOK /\ sent \in [Nodes -> Nat]
    <3>1. Fixed
      BY DEF ConversationInv
    <3>2. Connected(s)
      BY <2>1, <3>1, TwoEnds
    <3> QED
      BY <3>1, <3>2 DEF ConversationInv, Fixed, MessagesInv, SendInv
  <2>3. text \in Texts
    BY <2>1, <2>2, SessionFields DEF SubmittedBy, Texts
  <2> QED
    BY <2>1, <2>3 DEF ConversationInv, Flow, NothingLost
<1> QED
  BY <1>1, ConversationCorrect, PTL

-----------------------------------------------------------------------------
(* Where each text is: the second invariant.                               *)

\* The texts s has written so far.
Own(s, r) == [by : {s}, no : 1 .. sent[s], for : {PublicKey(r)}]

InSend(s, text) == sending[s] # NoSend /\ sending[s].wire.payload.plain = text

\* A direct POST of s gets to r.
Reaches(s, r) == session[s].peer_url # NoUrl /\ Serves[session[s].peer_url] = r

\* Nothing but these texts is anywhere.
Known(s, r) ==
  /\ TextsOf(outbox[s]) \subseteq Own(s, r)
  /\ TextsOf(Pulled(r)) \subseteq Own(s, r)
  /\ sending[s] # NoSend => sending[s].wire.payload.plain \in Own(s, r)
  /\ \A text \in Texts :
       Shows(s, Out(text)) \/ Shows(r, In(text)) \/ (text \in abandoned \cup refused /\ text.by = s)
         => text \in Own(s, r)

\* "delivered" says whether the POST got to r.
SendTold(s, r) ==
  sending[s] # NoSend =>
    /\ sending[s].url = session[s].peer_url
    /\ sending[s].stage = "answered" => sending[s].delivered = (Serves[sending[s].url] = r)

\* A late POST of s is the only one with its text, and was given up.
StaleKept(s, r) ==
  \A stale \in staleSends : stale.wire.payload.plain.by = s =>
    /\ Genuine(r, stale.wire)
    /\ session[s].peer_url # NoUrl
    /\ stale.to = Serves[session[s].peer_url]
    /\ stale.wire.payload.plain \in abandoned
    /\ \A other \in staleSends :
         other.wire.payload.plain = stale.wire.payload.plain => other = stale

Unplaced(s, r, text) ==
  /\ ~Queued(s, text) /\ ~OnItsWay(r, text) /\ ~Stale(text)
  /\ text \notin abandoned \cup refused
  /\ ~Shows(s, Out(text))

\* The text whose POST is under way is nowhere else, but at r when it was delivered.
SendAlone(s, r, text) ==
  InSend(s, text) =>
    /\ text.no = sent[s]
    /\ Unplaced(s, r, text)
    /\ Shows(r, In(text)) => SendIs(s, "answered") /\ sending[s].delivered

RefusalKept(s, r, text) ==
  text \in refused =>
    /\ ~Queued(s, text) /\ ~OnItsWay(r, text)
    /\ ~Shows(s, Out(text))
    /\ text \in abandoned \/ ~Shows(r, In(text))

Places(s, r, text) ==
  Copies(r, text) + One(Queued(s, text)) + One(OnItsWay(r, text))
    + One(Posted(s, text)) + One(Stale(text)) + One(text \in refused)

TextOK(s, r, text) ==
  /\ SendAlone(s, r, text)
  /\ RefusalKept(s, r, text)
  /\ Places(s, r, text) <= 1 + One(text \in abandoned)
  /\ Reaches(s, r) /\ (Queued(s, text) \/ OnItsWay(r, text)) => text \in abandoned

\* What waits is younger than what the answer under way holds, and both are younger
\* than what is shown.
PairOK(s, r, text, next) ==
  /\ OnItsWay(r, text) /\ Queued(s, next) => text.no < next.no
  /\ Shows(r, In(text)) /\ (OnItsWay(r, next) \/ Queued(s, next)) =>
       text.no < next.no \/ next \in abandoned

Rising(wires) ==
  \A i, j \in DOMAIN wires : i < j => wires[i].payload.plain.no < wires[j].payload.plain.no

Arranged(shown) ==
  \A i, j \in DOMAIN shown :
    i < j /\ shown[i].direction = "in" /\ shown[j].direction = "in" =>
      shown[i].body.no < shown[j].body.no \/ shown[j].body \in abandoned

Delivery(s, r) ==
  /\ Known(s, r)
  /\ SendTold(s, r)
  /\ StaleKept(s, r)
  /\ \A text \in Own(s, r) : TextOK(s, r, text)
  /\ \A text, next \in Own(s, r) : PairOK(s, r, text, next)
  /\ Rising(outbox[s])
  /\ Rising(Pulled(r))
  /\ Arranged(messages[r])

OnlyEndsSend ==
  /\ \A n \in Nodes : sending[n] # NoSend => n \in {Client, Host}
  /\ \A stale \in staleSends : stale.wire.payload.plain.by \in {Client, Host}

DeliveryInv ==
  /\ ConversationInv
  /\ OnlyEndsSend
  /\ \A s, r \in Nodes : <<s, r>> \in Ends => Delivery(s, r)

-----------------------------------------------------------------------------
(* How often a window shows a text.                                        *)

LEMMA CopiesType ==
  ASSUME WindowInv, NEW n \in Nodes, NEW text
  PROVE  Copies(n, text) \in Nat /\ (Copies(n, text) = 0 <=> ~Shows(n, In(text)))
<1> DEFINE S == {i \in DOMAIN messages[n] : messages[n][i] = In(text)}
<1>1. IsFiniteSet(S)
  <2>1. IsFiniteSet(1 .. Len(messages[n]))
    BY FS_Interval DEF WindowInv
  <2>2. S \in SUBSET (1 .. Len(messages[n]))
    BY DEF WindowInv
  <2> QED
    BY <2>1, <2>2, FS_Subset
<1>2. S = {} <=> ~Shows(n, In(text))
  BY DEF Shows
<1> QED
  BY <1>1, <1>2, FS_CardinalityType, FS_EmptySet DEF Copies

\* Where in seq the members of T are.
Positions(seq, T) == {i \in DOMAIN seq : seq[i] \in T}

LEMMA PositionsFinite ==
  ASSUME NEW S, NEW seq \in Seq(S), NEW T
  PROVE  /\ Positions(seq, T) \in SUBSET (1 .. Len(seq))
         /\ Positions(seq, T) \in SUBSET Nat
         /\ IsFiniteSet(Positions(seq, T))
<1>1. Positions(seq, T) \in SUBSET (1 .. Len(seq)) /\ Positions(seq, T) \in SUBSET Nat
  BY DEF Positions
<1>2. IsFiniteSet(1 .. Len(seq))
  BY FS_Interval
<1> QED
  BY <1>1, <1>2, FS_Subset

LEMMA PositionsConcatenated ==
  ASSUME NEW M, NEW old \in Seq(M), NEW new \in Seq(M), NEW W
  PROVE  /\ Cardinality(Positions(old \o new, W)) =
              Cardinality(Positions(old, W)) + Cardinality(Positions(new, W))
         /\ \A i \in Positions(old, W) : i \in Positions(old \o new, W)
         /\ \A i \in Positions(new, W) : Len(old) + i \in Positions(old \o new, W)
<1> DEFINE both == old \o new
           S == Positions(old, W)
           T == Positions(new, W)
           U == Positions(both, W)
           f == [i \in T |-> Len(old) + i]
           V == {i \in U : i > Len(old)}
<1>1. Len(old) \in Nat /\ Len(new) \in Nat
  OBVIOUS
<1>2. /\ DOMAIN both = 1 .. Len(old) + Len(new)
      /\ DOMAIN old = 1 .. Len(old)
      /\ DOMAIN new = 1 .. Len(new)
      /\ \A i \in 1 .. Len(old) + Len(new) :
           both[i] = IF i <= Len(old) THEN old[i] ELSE new[i - Len(old)]
  BY ConcatProperties
<1>3. IsFiniteSet(S) /\ IsFiniteSet(T)
  BY PositionsFinite
<1> HIDE DEF both
<1>4. \A i \in DOMAIN old : i \in DOMAIN both /\ both[i] = old[i] /\ ~(i > Len(old))
  BY <1>1, <1>2
<1>5. U = S \cup V
  <2>1. \A i \in DOMAIN both : i > Len(old) \/ i \in DOMAIN old
    BY <1>1, <1>2
  <2> QED
    BY <1>4, <2>1 DEF Positions
<1>6. S \cap V = {}
  BY <1>1, <1>2 DEF Positions
<1>7. \A i \in T : i \in Nat /\ Len(old) + i \in V
  <2>1. \A i \in DOMAIN new : /\ i \in Nat
                              /\ Len(old) + i \in DOMAIN both
                              /\ Len(old) + i > Len(old)
                              /\ both[Len(old) + i] = new[i]
    <3>1. \A i \in DOMAIN new : /\ Len(old) + i \in 1 .. Len(old) + Len(new)
                                /\ ~(Len(old) + i <= Len(old))
                                /\ Len(old) + i - Len(old) = i
      BY <1>1, <1>2
    <3> QED
      BY <1>1, <1>2, <3>1
  <2> QED
    BY <2>1 DEF Positions
<1>8. ExistsBijection(T, V)
  <2>1. \A j \in V : \E i \in T : j = Len(old) + i
    <3>1. ASSUME NEW j \in V
          PROVE  j - Len(old) \in T /\ j = Len(old) + (j - Len(old))
      BY <1>1, <1>2 DEF Positions
    <3> QED
      BY <3>1
  <2>2. \A i, j \in T : Len(old) + i = Len(old) + j => i = j
    BY <1>1, <1>7
  <2> HIDE DEF T, V
  <2>3. f \in [T -> V]
    BY <1>7
  <2>4. f \in Injection(T, V)
    BY <2>2, <2>3 DEF Injection, IsInjective
  <2>5. f \in Surjection(T, V)
    BY <2>1, <2>3 DEF Surjection
  <2> QED
    BY <2>4, <2>5 DEF ExistsBijection, Bijection
<1>9. /\ \A i \in S : i \in U
      /\ \A i \in T : Len(old) + i \in U
  BY <1>4, <1>7 DEF Positions
<1> HIDE DEF S, T, U, V
<1>10. IsFiniteSet(V) /\ Cardinality(V) = Cardinality(T)
  BY <1>3, <1>8, FS_Bijection
<1>11. Cardinality(U) = Cardinality(S) + Cardinality(V) - Cardinality({})
  BY <1>3, <1>5, <1>6, <1>10, FS_Union
<1>12. Cardinality(U) = Cardinality(S) + Cardinality(T)
  BY <1>3, <1>10, <1>11, FS_EmptySet, FS_CardinalityType
<1> QED
  BY <1>9, <1>12 DEF S, T, U, both

\* A window grows by new messages.
LEMMA CopiesConcatenated ==
  ASSUME WindowInv, NEW n \in Nodes, NEW new \in Seq(ChatMessage),
         messages'[n] = messages[n] \o new, NEW text
  PROVE  Copies(n, text)' =
           Copies(n, text) + Cardinality({i \in DOMAIN new : new[i] = In(text)})
<1> DEFINE W == {In(text)}
<1>1. messages[n] \in Seq(ChatMessage)
  BY DEF WindowInv
<1>2. /\ Copies(n, text) = Cardinality(Positions(messages[n], W))
      /\ Copies(n, text)' = Cardinality(Positions(messages'[n], W))
      /\ {i \in DOMAIN new : new[i] = In(text)} = Positions(new, W)
  BY DEF Copies, Positions, In
<1> HIDE DEF W
<1>3. Cardinality(Positions(messages[n] \o new, W)) =
        Cardinality(Positions(messages[n], W)) + Cardinality(Positions(new, W))
  BY <1>1, PositionsConcatenated
<1> QED
  BY <1>2, <1>3

LEMMA CopiesAppended ==
  ASSUME WindowInv, NEW n \in Nodes, NEW message \in ChatMessage,
         messages'[n] = Append(messages[n], message), NEW text
  PROVE  Copies(n, text)' = Copies(n, text) + One(message = In(text))
<1> DEFINE T == {i \in DOMAIN <<message>> : <<message>>[i] = In(text)}
<1>1. messages'[n] = messages[n] \o <<message>> /\ <<message>> \in Seq(ChatMessage)
  BY AppendIsConcat DEF WindowInv
<1>2. Copies(n, text)' = Copies(n, text) + Cardinality(T)
  BY <1>1, CopiesConcatenated
<1>3. T = IF message = In(text) THEN {1} ELSE {}
  OBVIOUS
<1>4. Cardinality(T) = One(message = In(text))
  BY <1>3, FS_EmptySet, FS_Singleton DEF One
<1> QED
  BY <1>2, <1>4

-----------------------------------------------------------------------------
(* Texts of one end.                                                       *)

LEMMA OwnTexts ==
  ASSUME MessagesInv, Fixed, NEW s, NEW r, <<s, r>> \in Ends, NEW text \in Own(s, r)
  PROVE  /\ text \in Texts /\ text.by = s /\ text.for = PublicKey(r)
         /\ text.no \in Nat /\ text.no >= 1 /\ text.no <= sent[s]
         /\ \A next \in Own(s, r) : next.no = text.no => next = text
<1>1. s \in Nodes /\ r \in Nodes /\ sent[s] \in Nat /\ PublicKey(r) \in PublicKeys
  BY TwoEnds, OwnKeyType DEF MessagesInv, SendInv, Fixed
<1> QED
  BY <1>1 DEF Own, Texts

LEMMA DeliveryParts ==
  ASSUME DeliveryInv, NEW s, NEW r, <<s, r>> \in Ends
  PROVE  /\ s \in Nodes /\ r \in Nodes /\ s # r
         /\ Delivery(s, r) /\ Delivery(r, s) /\ Flow(s, r) /\ Flow(r, s)
         /\ Fixed /\ SharedTypeOK /\ PullsOwn
         /\ MessagesInv /\ OutboxInv /\ WindowInv /\ SendInv /\ PollInv
<1>1. s \in Nodes /\ r \in Nodes /\ s # r /\ <<r, s>> \in Ends /\ Fixed
  BY TwoEnds DEF DeliveryInv, ConversationInv
<1> QED
  BY <1>1 DEF DeliveryInv, ConversationInv, MessagesInv, Fixed

\* A text that was not written is nowhere.
LEMMA Unwritten ==
  ASSUME DeliveryInv, NEW s, NEW r, <<s, r>> \in Ends, NEW text \in Texts,
         text.by = s, text \notin Own(s, r)
  PROVE  /\ ~Queued(s, text) /\ ~OnItsWay(r, text) /\ ~InSend(s, text) /\ ~Posted(s, text)
         /\ ~Stale(text) /\ text \notin abandoned /\ text \notin refused
         /\ ~Shows(s, Out(text)) /\ ~Shows(r, In(text)) /\ Copies(r, text) = 0
         /\ Unplaced(s, r, text)
<1>1. s \in Nodes /\ r \in Nodes /\ Known(s, r) /\ StaleKept(s, r) /\ WindowInv
  BY TwoEnds DEF DeliveryInv, Delivery, ConversationInv, MessagesInv
<1>2. Copies(r, text) = 0 <=> ~Shows(r, In(text))
  BY <1>1, CopiesType
<1>3. ~Stale(text)
  BY <1>1 DEF Known, StaleKept, Stale
<1> QED
  BY <1>1, <1>2, <1>3 DEF Known, Queued, OnItsWay, InSend, Posted, SendIs, Unplaced

\* Where a text is stays where it is as long as the parts of the state it is in do.
Elsewhere(s, r) ==
  /\ UNCHANGED <<epoch, session>>
  /\ \A x : x.wire.payload.plain.by = s => (x \in staleSends' <=> x \in staleSends)
  /\ \A text \in Texts : text.by = s =>
       /\ text \in abandoned' <=> text \in abandoned
       /\ text \in refused' <=> text \in refused

\* A step that leaves the texts of s alone, but that some may be lost.
LEMMA UntouchedDelivery ==
  ASSUME DeliveryInv, NEW s, NEW r, <<s, r>> \in Ends,
         Elsewhere(s, r),
         sent'[s] = sent[s], sending'[s] = sending[s],
         outbox'[s] = outbox[s] \/ outbox'[s] = <<>>,
         Pulled(r)' = Pulled(r) \/ Pulled(r)' = <<>>,
         \A text \in Texts : Shows(s, Out(text))' <=> Shows(s, Out(text)),
         \A text \in Texts : Shows(r, In(text))' <=> Shows(r, In(text)),
         \A text \in Texts : Copies(r, text)' = Copies(r, text),
         Arranged(messages[r])'
  PROVE  Delivery(s, r)'
<1>1. /\ s \in Nodes /\ r \in Nodes /\ Delivery(s, r) /\ Fixed /\ MessagesInv /\ WindowInv
  BY TwoEnds DEF DeliveryInv, ConversationInv, MessagesInv
<1>2. Own(s, r)' = Own(s, r) /\ (Reaches(s, r)' <=> Reaches(s, r))
  BY DEF Elsewhere, Own, PublicKey, Reaches
<1>3. /\ TextsOf(outbox'[s]) \subseteq TextsOf(outbox[s])
      /\ TextsOf(Pulled(r)') \subseteq TextsOf(Pulled(r))
  BY DEF TextsOf
<1>4. \A text : (Queued(s, text)' => Queued(s, text)) /\ (OnItsWay(r, text)' => OnItsWay(r, text))
  BY <1>3 DEF Queued, OnItsWay
<1>5. \A text : (InSend(s, text)' <=> InSend(s, text)) /\ (Posted(s, text)' <=> Posted(s, text))
  BY DEF InSend, Posted, SendIs
<1>6. \A text \in Own(s, r) : Stale(text)' <=> Stale(text)
  BY <1>1, OwnTexts DEF Stale, Elsewhere
<1>7. Known(s, r)'
  BY <1>1, <1>2, <1>3 DEF Delivery, Known, Elsewhere
<1>8. SendTold(s, r)'
  BY <1>1 DEF Delivery, SendTold, Elsewhere
<1>9. StaleKept(s, r)'
  <2>1. \A wire : Genuine(r, wire)' <=> Genuine(r, wire)
    BY <1>1, GenuineFrame DEF Elsewhere
  <2>2. \A stale \in staleSends : stale.wire.payload.plain \in Texts
    BY <1>1 DEF MessagesInv, SendInv, SealedWires, Wire
  <2> QED
    BY <1>1, <2>1, <2>2 DEF Delivery, StaleKept, Elsewhere
<1>10. ASSUME NEW text \in Own(s, r)
       PROVE  TextOK(s, r, text)'
  <2>1. TextOK(s, r, text) /\ text \in Texts /\ text.by = s
    BY <1>1, OwnTexts DEF Delivery
  <2>2. /\ text \in abandoned' <=> text \in abandoned
        /\ text \in refused' <=> text \in refused
    BY <2>1 DEF Elsewhere
  <2>3. SendAlone(s, r, text)'
    BY <1>4, <1>5, <1>6, <2>1, <2>2 DEF TextOK, SendAlone, Unplaced, SendIs
  <2>4. RefusalKept(s, r, text)'
    BY <1>4, <2>1, <2>2 DEF TextOK, RefusalKept
  <2>5. Places(s, r, text)' <= Places(s, r, text)
    BY <1>1, <1>4, <1>5, <1>6, <2>1, <2>2, CopiesType DEF Places, One
  <2>6. (Places(s, r, text) <= 1 + One(text \in abandoned))'
    BY <1>1, <2>1, <2>2, <2>5, CopiesType DEF TextOK, Places, One
  <2> QED
    BY <1>2, <1>4, <2>1, <2>2, <2>3, <2>4, <2>6 DEF TextOK
<1>11. ASSUME NEW text \in Own(s, r), NEW next \in Own(s, r)
       PROVE  PairOK(s, r, text, next)'
  <2>1. PairOK(s, r, text, next) /\ text \in Texts /\ next \in Texts /\ next.by = s
    BY <1>1, OwnTexts DEF Delivery
  <2>2. next \in abandoned' <=> next \in abandoned
    BY <2>1 DEF Elsewhere
  <2> QED
    BY <1>4, <2>1, <2>2 DEF PairOK
<1>12. Rising(outbox[s])' /\ Rising(Pulled(r))'
  BY <1>1 DEF Delivery, Rising
<1> QED
  BY <1>2, <1>7, <1>8, <1>9, <1>10, <1>11, <1>12 DEF Delivery

-----------------------------------------------------------------------------
(* The steps of s.                                                         *)

LEMMA RisingAppended ==
  ASSUME NEW wires \in Seq(SealedWires), NEW wire \in SealedWires, Rising(wires),
         \A text \in TextsOf(wires) : text.no < wire.payload.plain.no
  PROVE  Rising(Append(wires, wire))
<1> DEFINE both == Append(wires, wire)
<1>1. /\ DOMAIN both = 1 .. Len(wires) + 1
      /\ DOMAIN wires = 1 .. Len(wires)
      /\ Len(wires) \in Nat
      /\ \A i \in 1 .. Len(wires) : both[i] = wires[i]
      /\ both[Len(wires) + 1] = wire
  BY AppendProperties
<1> HIDE DEF both
<1>2. ASSUME NEW i \in DOMAIN both, NEW j \in DOMAIN both, i < j
      PROVE  both[i].payload.plain.no < both[j].payload.plain.no
  <2>1. i \in DOMAIN wires /\ both[i] = wires[i]
    BY <1>1, <1>2
  <2>2. wires[i].payload.plain \in TextsOf(wires)
    BY <2>1 DEF TextsOf
  <2>3. CASE j \in DOMAIN wires
    BY <1>1, <1>2, <2>1, <2>3 DEF Rising
  <2>4. CASE j = Len(wires) + 1
    BY <1>1, <2>1, <2>2, <2>4
  <2> QED
    BY <1>1, <2>3, <2>4
<1> QED
  BY <1>2 DEF Rising, both

\* A window stays arranged when its next text is younger than what it shows.
LEMMA ArrangedConcatenated ==
  ASSUME WindowInv, NEW r \in Nodes, NEW new \in Seq(ChatMessage),
         messages'[r] = messages[r] \o new,
         Arranged(messages[r]), Arranged(new)', abandoned \subseteq abandoned',
         \A i \in DOMAIN new : \A text \in Texts :
           Shows(r, In(text)) /\ new[i].direction = "in" =>
             text.no < new[i].body.no \/ new[i].body \in abandoned'
  PROVE  Arranged(messages[r])'
<1> DEFINE old == messages[r]
           both == messages'[r]
<1>1. old \in Seq(ChatMessage) /\ Len(old) \in Nat /\ Len(new) \in Nat
  BY DEF WindowInv
<1>2. /\ DOMAIN both = 1 .. Len(old) + Len(new)
      /\ DOMAIN old = 1 .. Len(old)
      /\ DOMAIN new = 1 .. Len(new)
      /\ \A i \in 1 .. Len(old) + Len(new) :
           both[i] = IF i <= Len(old) THEN old[i] ELSE new[i - Len(old)]
  BY <1>1, ConcatProperties
<1>3. ASSUME NEW i \in DOMAIN old, old[i].direction = "in"
      PROVE  old[i].body \in Texts /\ Shows(r, In(old[i].body))
  <2>1. old[i] \in ChatMessage
    BY <1>1
  <2>2. old[i] = In(old[i].body)
    BY <1>3, <2>1 DEF ChatMessage, In
  <2> QED
    BY <2>1, <2>2 DEF ChatMessage, Shows
<1>4. Arranged(old)
  OBVIOUS
<1> HIDE DEF old, both
<1>5. ASSUME NEW i \in DOMAIN both
      PROVE  \/ i \in DOMAIN old /\ both[i] = old[i] /\ i <= Len(old)
             \/ i - Len(old) \in DOMAIN new /\ both[i] = new[i - Len(old)] /\ i > Len(old)
  BY <1>1, <1>2
<1>6. ASSUME NEW i \in DOMAIN both, NEW j \in DOMAIN both, i < j,
             both[i].direction = "in", both[j].direction = "in"
      PROVE  both[i].body.no < both[j].body.no \/ both[j].body \in abandoned'
  <2>1. i \in Nat /\ j \in Nat
    BY <1>1, <1>2
  <2>2. CASE j <= Len(old)
    BY <1>1, <1>4, <1>5, <1>6, <2>1, <2>2 DEF Arranged
  <2>3. CASE i <= Len(old) /\ j > Len(old)
    <3>1. i \in DOMAIN old /\ both[i] = old[i]
      BY <1>1, <1>5, <2>1, <2>3
    <3>2. j - Len(old) \in DOMAIN new /\ both[j] = new[j - Len(old)]
      BY <1>1, <1>5, <2>1, <2>3
    <3>3. both[i].body \in Texts /\ Shows(r, In(both[i].body))
      BY <1>3, <1>6, <3>1
    <3> QED
      BY <1>6, <3>2, <3>3
  <2>4. CASE i > Len(old)
    <3>1. i - Len(old) < j - Len(old)
      BY <1>1, <1>6, <2>1
    <3>2. /\ i - Len(old) \in DOMAIN new /\ both[i] = new[i - Len(old)]
          /\ j - Len(old) \in DOMAIN new /\ both[j] = new[j - Len(old)]
      BY <1>1, <1>5, <1>6, <2>1, <2>4
    <3> QED
      BY <1>6, <3>1, <3>2 DEF Arranged
  <2> QED
    BY <1>1, <2>1, <2>2, <2>3, <2>4
<1> QED
  BY <1>6 DEF Arranged, both

LEMMA ArrangedAppended ==
  ASSUME WindowInv, NEW r \in Nodes, NEW message \in ChatMessage,
         messages'[r] = Append(messages[r], message),
         Arranged(messages[r]), abandoned \subseteq abandoned',
         \A text \in Texts :
           Shows(r, In(text)) /\ message.direction = "in" =>
             text.no < message.body.no \/ message.body \in abandoned'
  PROVE  Arranged(messages[r])'
<1>1. messages'[r] = messages[r] \o <<message>> /\ <<message>> \in Seq(ChatMessage)
  BY AppendIsConcat DEF WindowInv
<1>2. Arranged(<<message>>)'
  BY DEF Arranged
<1>3. \A i \in DOMAIN <<message>> : <<message>>[i] = message
  OBVIOUS
<1> QED
  BY <1>1, <1>2, <1>3, ArrangedConcatenated

\* What a new message does to the two windows.
LEMMA WindowGrows ==
  ASSUME WindowInv, NEW s \in Nodes, NEW r \in Nodes, NEW n \in Nodes,
         NEW message \in ChatMessage, Show(n, message), NEW text
  PROVE  /\ Shows(s, Out(text))' <=> Shows(s, Out(text)) \/ (n = s /\ message = Out(text))
         /\ Shows(r, In(text))' <=> Shows(r, In(text)) \/ (n = r /\ message = In(text))
         /\ Copies(r, text)' = Copies(r, text) + One(n = r /\ message = In(text))
<1>1. \A m \in Nodes : \A x : Shows(m, x)' <=> Shows(m, x) \/ (m = n /\ x = message)
  BY ShowsAppended
<1>2. \A m \in Nodes :
        messages'[m] = IF m = n THEN Append(messages[m], message) ELSE messages[m]
  BY DEF Show, WindowInv
<1>3. Copies(r, text) \in Nat
  BY CopiesType
<1>4. Copies(r, text)' = Copies(r, text) + One(n = r /\ message = In(text))
  <2>1. CASE n = r
    <3>1. messages'[r] = Append(messages[r], message)
      BY <1>2, <2>1
    <3>2. Copies(r, text)' = Copies(r, text) + One(message = In(text))
      BY <3>1, CopiesAppended
    <3> QED
      BY <2>1, <3>2 DEF One
  <2>2. CASE n # r
    <3>1. messages'[r] = messages[r]
      BY <1>2, <2>2
    <3>2. Copies(r, text)' = Copies(r, text)
      BY <3>1 DEF Copies, In
    <3> QED
      BY <1>3, <2>2, <3>2 DEF One
  <2> QED
    BY <2>1, <2>2
<1>5. Shows(s, Out(text))' <=> Shows(s, Out(text)) \/ (n = s /\ message = Out(text))
  BY <1>1 DEF Shows, Out
<1>6. Shows(r, In(text))' <=> Shows(r, In(text)) \/ (n = r /\ message = In(text))
  BY <1>1 DEF Shows, In
<1> QED
  BY <1>4, <1>5, <1>6

\* The text that send_text takes next.
LEMMA FreshText ==
  ASSUME DeliveryInv, NEW s, NEW r, <<s, r>> \in Ends, MaySend(s),
         sent' = [sent EXCEPT ![s] = @ + 1], UNCHANGED <<epoch, session>>
  PROVE  /\ NextText(s) \in Texts /\ NextText(s).by = s /\ NextText(s).no = sent'[s]
         /\ NextText(s) \notin Own(s, r)
         /\ NextText(s) \in Own(s, r)'
         /\ \A text : text \in Own(s, r)' => text \in Own(s, r) \/ text = NextText(s)
         /\ Own(s, r) \subseteq Own(s, r)'
<1>1. /\ s \in Nodes /\ r \in Nodes /\ Fixed /\ SharedTypeOK /\ SendInv
      /\ session[s].peer_public_key = PublicKey(r)
  BY TwoEnds DEF DeliveryInv, ConversationInv, Fixed, MessagesInv
<1>2. NextText(s) \in Texts
  BY <1>1, NextTextType DEF MaySend
<1>3. sent'[s] = sent[s] + 1 /\ sent[s] \in Nat
  BY <1>1 DEF SendInv
<1>4. NextText(s) = [by |-> s, no |-> sent[s] + 1, for |-> PublicKey(r)]
  BY <1>1 DEF NextText
<1>5. Own(s, r)' = [by : {s}, no : 1 .. sent[s] + 1, for : {PublicKey(r)}]
  BY <1>3 DEF Own, PublicKey
<1>6. NextText(s).by = s /\ NextText(s).no = sent'[s] /\ NextText(s).for = PublicKey(r)
  BY <1>3, <1>4
<1>7. NextText(s) \notin Own(s, r)
  <2>1. \A text \in Own(s, r) : text.no <= sent[s]
    BY <1>3 DEF Own
  <2> QED
    BY <1>3, <1>6, <2>1
<1>8. NextText(s) \in Own(s, r)'
  <2>1. sent[s] + 1 \in 1 .. sent[s] + 1
    BY <1>3
  <2> QED
    BY <1>4, <1>5, <2>1
<1>9. ASSUME NEW text \in Own(s, r)'
      PROVE  text \in Own(s, r) \/ text = NextText(s)
  <2>1. PICK k \in 1 .. sent[s] + 1 : text = [by |-> s, no |-> k, for |-> PublicKey(r)]
    BY <1>5
  <2>2. k \in 1 .. sent[s] \/ k = sent[s] + 1
    BY <1>3
  <2> QED
    BY <1>4, <2>1, <2>2 DEF Own
<1>10. Own(s, r) \subseteq Own(s, r)'
  <2>1. 1 .. sent[s] \subseteq 1 .. sent[s] + 1
    BY <1>3
  <2> QED
    BY <1>5, <2>1 DEF Own
<1> QED
  BY <1>2, <1>6, <1>7, <1>8, <1>9, <1>10

LEMMA SendDirectDelivery ==
  ASSUME DeliveryInv, NEW s, NEW r, <<s, r>> \in Ends, SendTextDirect(s)
  PROVE  Delivery(s, r)'
<1> DEFINE new == NextText(s)
<1>1. /\ s \in Nodes /\ r \in Nodes /\ Delivery(s, r) /\ Fixed
      /\ MessagesInv /\ WindowInv /\ SharedTypeOK
  BY TwoEnds DEF DeliveryInv, ConversationInv, MessagesInv, Fixed
<1>2. /\ MaySend(s)
      /\ UNCHANGED <<epoch, session, outbox, messages, poll, staleSends, abandoned, refused>>
      /\ sent' = [sent EXCEPT ![s] = @ + 1]
  BY DEF SendTextDirect
<1>3. /\ new \in Texts /\ new.by = s /\ new.no = sent'[s] /\ new \notin Own(s, r)
      /\ new \in Own(s, r)'
      /\ \A text : text \in Own(s, r)' => text \in Own(s, r) \/ text = new
      /\ Own(s, r) \subseteq Own(s, r)'
  BY <1>2, FreshText
<1>4. sending[s] = NoSend
  BY <1>1, <1>2, MaySendFacts
<1>5. /\ sending'[s].stage = "posted"
      /\ sending'[s].url = session[s].peer_url
      /\ sending'[s].wire.payload.plain = new
  BY <1>1, <1>2, WireMessageSealed DEF SendTextDirect, MessagesInv, SendInv, MaySend
<1>6. sending'[s] # NoSend
  <2>1. MessagesInv'
    BY <1>1, SendDirectInv
  <2>2. ioLock'[s] = "send"
    BY <1>1 DEF SendTextDirect, SharedTypeOK
  <2> QED
    BY <1>1, <2>1, <2>2 DEF MessagesInv, SendInv
<1>7. /\ ~Queued(s, new) /\ ~OnItsWay(r, new) /\ ~Stale(new)
      /\ new \notin abandoned /\ new \notin refused
      /\ ~Shows(s, Out(new)) /\ ~Shows(r, In(new)) /\ Copies(r, new) = 0
      /\ Unplaced(s, r, new)
  BY <1>3, Unwritten
<1> HIDE DEF new
<1>8. Pulled(r)' = Pulled(r)
  BY <1>2 DEF Pulled, PollIs
<1>9. \A text : /\ Queued(s, text)' <=> Queued(s, text)
                /\ OnItsWay(r, text)' <=> OnItsWay(r, text)
                /\ Stale(text)' <=> Stale(text)
                /\ Shows(s, Out(text))' <=> Shows(s, Out(text))
                /\ Shows(r, In(text))' <=> Shows(r, In(text))
                /\ Copies(r, text)' = Copies(r, text)
  BY <1>2, <1>8 DEF Queued, OnItsWay, Stale, Shows, Copies, Out, In
<1>10. \A text : /\ InSend(s, text)' <=> text = new
                 /\ Posted(s, text)' <=> text = new
                 /\ ~InSend(s, text) /\ ~Posted(s, text)
  BY <1>4, <1>5, <1>6 DEF InSend, Posted, SendIs
<1>11. Reaches(s, r)' <=> Reaches(s, r)
  BY <1>2 DEF Reaches
<1>12. Known(s, r)'
  BY <1>1, <1>2, <1>3, <1>5, <1>8, <1>9 DEF Delivery, Known
<1>13. SendTold(s, r)'
  BY <1>2, <1>5 DEF SendTold
<1>14. StaleKept(s, r)'
  BY <1>1, <1>2, GenuineFrame DEF Delivery, StaleKept
<1>15. ASSUME NEW text \in Own(s, r)'
       PROVE  TextOK(s, r, text)'
  <2>1. CASE text \in Own(s, r)
    <3>1. text # new /\ TextOK(s, r, text)
      BY <1>1, <1>3, <2>1 DEF Delivery
    <3>2. SendAlone(s, r, text)'
      BY <3>1, <1>10 DEF SendAlone
    <3>3. RefusalKept(s, r, text)'
      BY <3>1, <1>2, <1>9 DEF TextOK, RefusalKept
    <3>4. Places(s, r, text)' = Places(s, r, text)
      BY <3>1, <1>2, <1>9, <1>10 DEF Places, One
    <3> QED
      BY <3>1, <3>2, <3>3, <3>4, <1>2, <1>9, <1>11 DEF TextOK, One
  <2>2. CASE text = new
    <3>1. SendAlone(s, r, text)'
      BY <2>2, <1>2, <1>3, <1>7, <1>9 DEF SendAlone, Unplaced
    <3>2. RefusalKept(s, r, text)'
      BY <2>2, <1>2, <1>7 DEF RefusalKept
    <3>3. Places(s, r, text)' = 1
      BY <2>2, <1>2, <1>7, <1>9, <1>10 DEF Places, One
    <3> QED
      BY <2>2, <3>1, <3>2, <3>3, <1>2, <1>7, <1>9 DEF TextOK, One
  <2> QED
    BY <1>3, <2>1, <2>2
<1>16. ASSUME NEW text \in Own(s, r)', NEW next \in Own(s, r)'
       PROVE  PairOK(s, r, text, next)'
  BY <1>1, <1>2, <1>3, <1>7, <1>9 DEF Delivery, PairOK
<1>17. Rising(outbox[s])' /\ Rising(Pulled(r))' /\ Arranged(messages[r])'
  BY <1>1, <1>2, <1>8 DEF Delivery, Rising, Arranged
<1> QED
  BY <1>12, <1>13, <1>14, <1>15, <1>16, <1>17 DEF Delivery

\* What send_text keeps of a text that it gives up or puts into the outbox.
LEMMA UndeliveredPlaces ==
  ASSUME OutboxInv, WindowInv, NEW s \in Nodes, NEW r \in Nodes, s # r,
         NEW wire \in SealedWires, Undelivered(s, wire)
  PROVE  LET t == wire.payload.plain IN
         /\ \/ /\ outbox'[s] = Append(outbox[s], wire)
               /\ \A text : Queued(s, text)' <=> Queued(s, text) \/ text = t
               /\ \A text : Shows(s, Out(text))' <=> Shows(s, Out(text)) \/ text = t
               /\ refused' = refused
            \/ /\ outbox'[s] = outbox[s]
               /\ \A text : Queued(s, text)' <=> Queued(s, text)
               /\ \A text : Shows(s, Out(text))' <=> Shows(s, Out(text))
               /\ refused' = refused \cup {t}
         /\ messages'[r] = messages[r]
         /\ \A text : Shows(r, In(text))' <=> Shows(r, In(text))
         /\ \A text : Copies(r, text)' = Copies(r, text)
<1> DEFINE t == wire.payload.plain
<1>1. t \in Texts /\ Out(t) \in ChatMessage
  BY DEF SealedWires, Wire, Out, ChatMessage
<1>2. CASE OutboxFull(s)
  <2>1. UNCHANGED <<outbox, messages>> /\ refused' = refused \cup {t}
    BY <1>2 DEF Undelivered
  <2> QED
    BY <2>1 DEF Queued, Shows, Copies, Out, In
<1>3. CASE ~OutboxFull(s)
  <2>1. /\ outbox' = [outbox EXCEPT ![s] = Append(outbox[s], wire)]
        /\ Show(s, Out(t))
        /\ refused' = refused
    BY <1>3 DEF Undelivered, PushBack
  <2>2. outbox'[s] = Append(outbox[s], wire) /\ outbox[s] \in Seq(SealedWires)
    BY <2>1 DEF OutboxInv
  <2>3. \A text : Queued(s, text)' <=> Queued(s, text) \/ text = t
    BY <2>2, TextsAppended DEF Queued
  <2>4. messages'[r] = messages[r]
    BY <2>1 DEF Show, WindowInv
  <2>5. \A text : Out(text) = Out(t) <=> text = t
    BY DEF Out
  <2> HIDE DEF t
  <2>6. \A text : Shows(s, Out(text))' <=> Shows(s, Out(text)) \/ text = t
    BY <1>1, <2>1, <2>5, WindowGrows
  <2>7. \A text : Shows(r, In(text))' <=> Shows(r, In(text))
    BY <2>4 DEF Shows, In
  <2>8. \A text : Copies(r, text)' = Copies(r, text)
    BY <2>4 DEF Copies, In
  <2> QED
    BY <2>1, <2>2, <2>3, <2>4, <2>6, <2>7, <2>8 DEF t
<1> QED
  BY <1>2, <1>3

\* send_text comes to its end without having been told that r took the text t: it
\* had not sent t before, or t is in its POST, which may be left behind.
LEMMA UndeliveredDelivery ==
  ASSUME DeliveryInv, NEW s, NEW r, <<s, r>> \in Ends,
         NEW wire \in SealedWires, NEW t, t = wire.payload.plain,
         Undelivered(s, wire), Genuine(r, wire),
         UNCHANGED <<epoch, session, poll>>, sending'[s] = NoSend,
         sending[s] # NoSend => InSend(s, t),
         t \in Own(s, r)', t.no = sent'[s],
         Own(s, r) \subseteq Own(s, r)',
         \A text : text \in Own(s, r)' => text \in Own(s, r) \/ text = t,
         Unplaced(s, r, t),
         abandoned \subseteq abandoned', abandoned' \subseteq abandoned \cup {t},
         \/ staleSends' = staleSends
         \/ /\ staleSends' = staleSends \cup
                 {[to |-> Serves[session[s].peer_url], wire |-> wire]}
            /\ session[s].peer_url # NoUrl
            /\ t \in abandoned'
            /\ ~Shows(r, In(t)),
         Copies(r, t) <= 1,
         t \notin abandoned' => ~Shows(r, In(t)) /\ ~Reaches(s, r)
  PROVE  Delivery(s, r)'
<1>1. /\ s \in Nodes /\ r \in Nodes /\ s # r /\ Delivery(s, r) /\ Fixed
      /\ MessagesInv /\ WindowInv /\ OutboxInv
  BY TwoEnds DEF DeliveryInv, ConversationInv, MessagesInv
<1>2. /\ \/ /\ outbox'[s] = Append(outbox[s], wire)
            /\ \A text : Queued(s, text)' <=> Queued(s, text) \/ text = t
            /\ \A text : Shows(s, Out(text))' <=> Shows(s, Out(text)) \/ text = t
            /\ refused' = refused
         \/ /\ outbox'[s] = outbox[s]
            /\ \A text : Queued(s, text)' <=> Queued(s, text)
            /\ \A text : Shows(s, Out(text))' <=> Shows(s, Out(text))
            /\ refused' = refused \cup {t}
      /\ messages'[r] = messages[r]
      /\ \A text : Shows(r, In(text))' <=> Shows(r, In(text))
      /\ \A text : Copies(r, text)' = Copies(r, text)
  BY <1>1, UndeliveredPlaces
<1>3. Pulled(r)' = Pulled(r)
  BY DEF Pulled, PollIs
<1>4. \A text : OnItsWay(r, text)' <=> OnItsWay(r, text)
  BY <1>3 DEF OnItsWay
<1>5. \A text : /\ ~InSend(s, text)' /\ ~Posted(s, text)'
                /\ text # t => ~InSend(s, text) /\ ~Posted(s, text)
  BY DEF InSend, Posted, SendIs
<1>6. /\ \A text : text # t => (Stale(text)' <=> Stale(text))
      /\ Stale(t)' => t \in abandoned' /\ ~Shows(r, In(t))
  <2>1. ASSUME NEW text, text # t
        PROVE  Stale(text)' <=> Stale(text)
    BY <2>1 DEF Stale
  <2>2. Stale(t)' => t \in abandoned' /\ ~Shows(r, In(t))
    BY DEF Stale, Unplaced
  <2> QED
    BY <2>1, <2>2
<1>7. Reaches(s, r)' <=> Reaches(s, r)
  BY DEF Reaches
<1>8. \A text \in Own(s, r) : text # t => text.no < t.no
  <2>1. Own(s, r)' = [by : {s}, no : 1 .. sent'[s], for : {PublicKey(r)}]
    BY DEF Own, PublicKey
  <2>2. sent'[s] \in Nat
    <3>1. t.no \in 1 .. sent'[s]
      BY <2>1
    <3> QED
      BY <3>1
  <2> QED
    BY <2>1, <2>2
<1>9. TextsOf(outbox[s]) \subseteq Own(s, r) /\ TextsOf(Pulled(r)) \subseteq Own(s, r)
  BY <1>1 DEF Delivery, Known
<1>10. Known(s, r)'
  <2>1. TextsOf(outbox'[s]) \subseteq Own(s, r)'
    BY <1>2, <1>9 DEF Queued
  <2>2. ASSUME NEW text \in Texts,
               \/ Shows(s, Out(text))' \/ Shows(r, In(text))'
               \/ text \in abandoned' \cup refused' /\ text.by = s
        PROVE  text \in Own(s, r)'
    BY <1>1, <1>2, <2>2 DEF Delivery, Known
  <2> QED
    BY <1>3, <1>9, <2>1, <2>2 DEF Known
<1>11. SendTold(s, r)'
  BY DEF SendTold
<1>12. StaleKept(s, r)'
  <2>1. \A w : Genuine(r, w)' <=> Genuine(r, w)
    BY <1>1, GenuineFrame
  <2>2. \A stale \in staleSends : stale.wire.payload.plain # t
    BY DEF Unplaced, Stale
  <2>3. CASE staleSends' = staleSends
    BY <1>1, <2>1, <2>3 DEF Delivery, StaleKept
  <2>4. CASE /\ staleSends' = staleSends \cup
                  {[to |-> Serves[session[s].peer_url], wire |-> wire]}
             /\ session[s].peer_url # NoUrl
             /\ t \in abandoned'
    <3> DEFINE late == [to |-> Serves[session[s].peer_url], wire |-> wire]
    <3>1. late.to = Serves[session[s].peer_url] /\ late.wire = wire
      OBVIOUS
    <3>2. staleSends' = staleSends \cup {late}
      BY <2>4
    <3> HIDE DEF late
    <3> QED
      BY <1>1, <2>1, <2>2, <2>4, <3>1, <3>2 DEF Delivery, StaleKept
  <2> QED
    BY <2>3, <2>4
<1>13. ASSUME NEW text \in Own(s, r)'
       PROVE  TextOK(s, r, text)'
  <2>1. SendAlone(s, r, text)'
    BY <1>5 DEF SendAlone
  <2>2. CASE text # t
    <3>1. TextOK(s, r, text)
      BY <1>1, <2>2 DEF Delivery
    <3>2. text \in abandoned' <=> text \in abandoned
      BY <2>2
    <3>3. RefusalKept(s, r, text)'
      BY <1>2, <1>4, <2>2, <3>1, <3>2 DEF TextOK, RefusalKept
    <3>4. Places(s, r, text)' = Places(s, r, text)
      BY <1>2, <1>4, <1>5, <1>6, <2>2 DEF Places, One
    <3> QED
      BY <2>1, <3>1, <3>2, <3>3, <3>4, <1>2, <1>4, <1>7, <2>2 DEF TextOK, One
  <2>3. CASE text = t
    <3>1. RefusalKept(s, r, text)'
      BY <1>2, <1>4, <2>3 DEF RefusalKept, Unplaced
    <3>2. Copies(r, t) \in Nat /\ (Copies(r, t) = 0 <=> ~Shows(r, In(t)))
      BY <1>1, CopiesType
    <3>3. ~OnItsWay(r, t)' /\ ~Posted(s, t)' /\ Copies(r, t)' = Copies(r, t)
      BY <1>2, <1>4, <1>5 DEF Unplaced
    <3>4. One(Queued(s, t))' + One(t \in refused)' = 1
          /\ One(Queued(s, t))' \in 0 .. 1 /\ One(t \in refused)' \in 0 .. 1
      BY <1>2 DEF Unplaced, One
    <3>5. (Places(s, r, t) <= 1 + One(t \in abandoned))'
      <4>1. CASE Stale(t)'
        BY <1>6, <3>2, <3>3, <3>4, <4>1 DEF Places, One
      <4>2. CASE ~Stale(t)'
        BY <3>2, <3>3, <3>4, <4>2 DEF Places, One
      <4> QED
        BY <4>1, <4>2
    <3> QED
      BY <1>7, <2>1, <2>3, <3>1, <3>5 DEF TextOK
  <2> QED
    BY <2>2, <2>3
<1>14. ASSUME NEW text \in Own(s, r)', NEW next \in Own(s, r)'
       PROVE  PairOK(s, r, text, next)'
  <2>1. ASSUME OnItsWay(r, text)', Queued(s, next)'
        PROVE  text.no < next.no
    <3>1. text \in Own(s, r) /\ text # t /\ OnItsWay(r, text)
      BY <1>4, <1>9, <2>1 DEF OnItsWay, Unplaced
    <3>2. CASE next = t
      BY <1>8, <3>1, <3>2
    <3>3. CASE next # t
      BY <1>1, <1>2, <2>1, <3>1, <3>3 DEF Delivery, PairOK
    <3> QED
      BY <3>2, <3>3
  <2>2. ASSUME Shows(r, In(text))', OnItsWay(r, next)' \/ Queued(s, next)'
        PROVE  text.no < next.no \/ next \in abandoned'
    <3>1. CASE next = t
      BY <1>2, <1>8, <2>2, <3>1
    <3>2. CASE next # t
      <4>1. next \in Own(s, r) /\ (OnItsWay(r, next) \/ Queued(s, next)) /\ Shows(r, In(text))
        BY <1>2, <1>4, <2>2, <3>2
      <4>2. CASE text \in Own(s, r)
        BY <1>1, <4>1, <4>2 DEF Delivery, PairOK
      <4>3. CASE text = t /\ t \notin Own(s, r)
        <5>1. t \in Texts
          BY DEF SealedWires, Wire
        <5> QED
          BY <1>1, <4>1, <4>3, <5>1 DEF Delivery, Known
      <4> QED
        BY <4>2, <4>3
    <3> QED
      BY <3>1, <3>2
  <2> QED
    BY <2>1, <2>2 DEF PairOK
<1>15. Rising(outbox[s])'
  <2>1. CASE outbox'[s] = outbox[s]
    BY <1>1, <2>1 DEF Delivery, Rising
  <2>2. CASE outbox'[s] = Append(outbox[s], wire)
    <3>1. \A text \in TextsOf(outbox[s]) : text.no < t.no
      BY <1>8, <1>9 DEF Unplaced, Queued
    <3>2. outbox[s] \in Seq(SealedWires) /\ Rising(outbox[s])
      BY <1>1 DEF OutboxInv, Delivery
    <3>3. Rising(Append(outbox[s], wire))
      BY <3>1, <3>2, RisingAppended
    <3> QED
      BY <2>2, <3>3 DEF Rising
  <2> QED
    BY <1>2, <2>1, <2>2
<1>16. Rising(Pulled(r))' /\ Arranged(messages[r])'
  BY <1>1, <1>2, <1>3 DEF Delivery, Rising, Arranged
<1> QED
  BY <1>10, <1>11, <1>12, <1>13, <1>14, <1>15, <1>16 DEF Delivery

\* Both ends know whether the other can be dialled from its URL alone.
LEMMA DialableByUrl ==
  ASSUME Fixed, NEW s, NEW r, <<s, r>> \in Ends,
         ~(session[s].peer_dialable /\ session[s].peer_url # NoUrl)
  PROVE  session[s].peer_url = NoUrl
<1>1. session[s] = EstablishedSession(s) /\ s \in {Client, Host}
  BY TwoEnds DEF Fixed, Ends
<1>2. CASE s = Client
  <2>1. session[s].peer_dialable = TRUE
    BY <1>1, <1>2 DEF EstablishedSession
  <2> QED
    BY <2>1
<1>3. CASE s # Client
  <2>1. /\ session[s].peer_url = advertise[Client]
        /\ session[s].peer_dialable = (advertise[Client] # NoUrl)
    BY <1>1, <1>3 DEF EstablishedSession
  <2> QED
    BY <2>1
<1> QED
  BY <1>2, <1>3

LEMMA SendMailboxDelivery ==
  ASSUME DeliveryInv, NEW s, NEW r, <<s, r>> \in Ends, SendTextMailbox(s)
  PROVE  Delivery(s, r)'
<1> DEFINE t == NextText(s)
           wire == WireMessage(s, t)
<1>1. /\ s \in Nodes /\ Fixed /\ SharedTypeOK /\ MessagesInv
  BY TwoEnds DEF DeliveryInv, ConversationInv, Fixed
<1>2. /\ MaySend(s) /\ Connected(s)
      /\ Undelivered(s, wire)
      /\ UNCHANGED <<epoch, session, poll, sending, staleSends, abandoned>>
      /\ sent' = [sent EXCEPT ![s] = @ + 1]
      /\ session[s].peer_url = NoUrl
  BY <1>1, DialableByUrl DEF SendTextMailbox, sharedVars, MaySend
<1>3. sending[s] = NoSend
  BY <1>1, <1>2, MaySendFacts
<1>4. /\ wire \in SealedWires /\ wire.payload.plain = t
  BY <1>1, <1>2, WireMessageSealed DEF MessagesInv
<1>5. /\ t \in Texts /\ t.by = s /\ t.no = sent'[s] /\ t \notin Own(s, r)
      /\ t \in Own(s, r)'
      /\ \A text : text \in Own(s, r)' => text \in Own(s, r) \/ text = t
      /\ Own(s, r) \subseteq Own(s, r)'
  BY <1>2, FreshText
<1>6. Unplaced(s, r, t) /\ ~Shows(r, In(t)) /\ Copies(r, t) = 0
  BY <1>5, Unwritten
<1>7. Genuine(r, wire)
  BY <1>1, OwnWireOpens
<1>8. ~Reaches(s, r)
  BY <1>2 DEF Reaches
<1> HIDE DEF t, wire
<1> QED
  BY <1>2, <1>3, <1>4, <1>5, <1>6, <1>7, <1>8, UndeliveredDelivery

\* What is known of the text whose POST is under way.
LEMMA PostedText ==
  ASSUME DeliveryInv, NEW s, NEW r, <<s, r>> \in Ends, sending[s] # NoSend
  PROVE  LET wire == sending[s].wire
             t == wire.payload.plain
         IN /\ wire \in SealedWires /\ Genuine(r, wire)
            /\ t \in Own(s, r) /\ t \in Texts /\ t.no = sent[s]
            /\ InSend(s, t) /\ Unplaced(s, r, t)
            /\ Copies(r, t) <= 1
            /\ Shows(r, In(t)) => SendIs(s, "answered") /\ sending[s].delivered
            /\ sending[s].url = session[s].peer_url /\ session[s].peer_url # NoUrl
<1> DEFINE wire == sending[s].wire
           t == wire.payload.plain
<1>1. /\ s \in Nodes /\ r \in Nodes /\ Delivery(s, r) /\ Flow(s, r) /\ SendInv /\ WindowInv
  BY TwoEnds DEF DeliveryInv, ConversationInv, MessagesInv
<1>2. wire \in SealedWires /\ t \in Texts /\ sending[s].url \in Urls
  BY <1>1, SendFields
<1>3. Genuine(r, wire)
  BY <1>1 DEF Flow, WiresOpen
<1>4. t \in Own(s, r) /\ InSend(s, t)
  BY <1>1 DEF Delivery, Known, InSend
<1>5. TextOK(s, r, t)
  BY <1>1, <1>4 DEF Delivery
<1>6. sending[s].url = session[s].peer_url /\ session[s].peer_url # NoUrl
  BY <1>1, <1>2, SharedAssumption DEF Delivery, SendTold
<1> HIDE DEF wire, t
<1>7. Copies(r, t) <= 1
  <2>1. t \notin abandoned
    BY <1>4, <1>5 DEF TextOK, SendAlone, Unplaced
  <2>2. Copies(r, t) \in Nat
    BY <1>1, CopiesType
  <2> QED
    BY <1>5, <2>1, <2>2 DEF TextOK, Places, One
<1> QED
  BY <1>2, <1>3, <1>4, <1>5, <1>6, <1>7 DEF TextOK, SendAlone, wire, t

LEMMA SendTimesOutDelivery ==
  ASSUME DeliveryInv, NEW s, NEW r, <<s, r>> \in Ends, SendTextTimesOut(s)
  PROVE  Delivery(s, r)'
<1> DEFINE wire == sending[s].wire
           t == wire.payload.plain
<1>1. /\ s \in Nodes /\ MessagesInv
  BY TwoEnds DEF DeliveryInv, ConversationInv
<1>2. /\ sending[s] # NoSend
      /\ Undelivered(s, wire)
      /\ UNCHANGED <<epoch, session, poll, sent>>
      /\ sending'[s] = NoSend
      /\ abandoned \subseteq abandoned' /\ abandoned' \subseteq abandoned \cup {t}
      /\ Serves[sending[s].url] \in Nodes => t \in abandoned'
      /\ \/ staleSends' = staleSends
         \/ /\ staleSends' = staleSends \cup {[to |-> Serves[sending[s].url], wire |-> wire]}
            /\ sending[s].stage = "posted"
            /\ Serves[sending[s].url] \in Nodes
  BY <1>1 DEF SendTextTimesOut, SendTimesOut, ReturnFromSend, MessagesInv, SendInv
<1>3. /\ wire \in SealedWires /\ Genuine(r, wire)
      /\ t \in Own(s, r) /\ t \in Texts /\ t.no = sent[s]
      /\ InSend(s, t) /\ Unplaced(s, r, t)
      /\ Copies(r, t) <= 1
      /\ Shows(r, In(t)) => SendIs(s, "answered") /\ sending[s].delivered
      /\ sending[s].url = session[s].peer_url /\ session[s].peer_url # NoUrl
  BY <1>2, PostedText
<1>4. Own(s, r)' = Own(s, r)
  BY <1>2 DEF Own, PublicKey
<1>5. sending[s].stage = "posted" => ~Shows(r, In(t))
  BY <1>3 DEF SendIs
<1>6. t.no = sent'[s]
  BY <1>2, <1>3
<1>8. t \notin abandoned' => ~Shows(r, In(t)) /\ ~Reaches(s, r)
  <2>1. r \in Nodes /\ Delivery(s, r)
    BY DeliveryParts
  <2>2. Serves[session[s].peer_url] \notin Nodes => ~Shows(r, In(t)) /\ ~Reaches(s, r)
    BY <1>2, <1>3, <2>1 DEF Delivery, SendTold, SendIs, Reaches
  <2> QED
    BY <1>2, <1>3, <2>2
<1> HIDE DEF wire, t
<1>7. t = wire.payload.plain
  BY DEF t
<1> QED
  BY <1>2, <1>3, <1>4, <1>5, <1>6, <1>7, <1>8, UndeliveredDelivery

LEMMA SendReturnsDelivery ==
  ASSUME DeliveryInv, NEW s, NEW r, <<s, r>> \in Ends, SendTextReturns(s)
  PROVE  Delivery(s, r)'
<1> DEFINE wire == sending[s].wire
           t == wire.payload.plain
<1>1. /\ s \in Nodes /\ r \in Nodes /\ s # r /\ Delivery(s, r) /\ Flow(s, r) /\ Fixed
      /\ MessagesInv /\ WindowInv
  BY TwoEnds DEF DeliveryInv, ConversationInv, MessagesInv
<1>2. /\ sending[s] # NoSend /\ sending[s].stage = "answered"
      /\ UNCHANGED <<epoch, session, poll, sent, abandoned, staleSends>>
      /\ sending'[s] = NoSend
  BY <1>1 DEF SendTextReturns, SendIs, ReturnFromSend, MessagesInv, SendInv
<1>3. /\ wire \in SealedWires /\ Genuine(r, wire)
      /\ t \in Own(s, r) /\ t \in Texts /\ t.no = sent[s]
      /\ InSend(s, t) /\ Unplaced(s, r, t)
      /\ Copies(r, t) <= 1
      /\ Shows(r, In(t)) => SendIs(s, "answered") /\ sending[s].delivered
      /\ sending[s].url = session[s].peer_url /\ session[s].peer_url # NoUrl
  BY <1>2, PostedText
<1>4. Own(s, r)' = Own(s, r)
  BY <1>2 DEF Own, PublicKey
<1>5. CASE ~sending[s].delivered
  <2>1. Undelivered(s, wire)
    BY <1>5 DEF SendTextReturns
  <2>2. ~Shows(r, In(t)) /\ ~Reaches(s, r)
    BY <1>1, <1>2, <1>3, <1>5 DEF Delivery, SendTold, Reaches
  <2>3. t.no = sent'[s]
    BY <1>2, <1>3
  <2> HIDE DEF wire, t
  <2>4. t = wire.payload.plain
    BY DEF t
  <2> QED
    BY <1>2, <1>3, <1>4, <2>1, <2>2, <2>3, <2>4, UndeliveredDelivery
<1>6. CASE sending[s].delivered
  <2>1. Show(s, Out(t)) /\ UNCHANGED <<outbox, refused>>
    BY <1>6 DEF SendTextReturns
  <2>2. Out(t) \in ChatMessage /\ \A text : Out(t) = Out(text) <=> text = t
    BY <1>3 DEF Out, ChatMessage
  <2>3. \A text : ~InSend(s, text)' /\ ~Posted(s, text)' /\ ~Posted(s, text)
    BY <1>2 DEF InSend, Posted, SendIs
  <2> HIDE DEF wire, t
  <2>4. \A text : Shows(s, Out(text))' <=> Shows(s, Out(text)) \/ text = t
    BY <1>1, <2>1, <2>2, WindowGrows
  <2>5. messages'[r] = messages[r] /\ Pulled(r)' = Pulled(r)
    BY <1>1, <1>2, <2>1 DEF Show, WindowInv, Pulled, PollIs
  <2>6. \A text : /\ Queued(s, text)' <=> Queued(s, text)
                  /\ OnItsWay(r, text)' <=> OnItsWay(r, text)
                  /\ Stale(text)' <=> Stale(text)
                  /\ Shows(r, In(text))' <=> Shows(r, In(text))
                  /\ Copies(r, text)' = Copies(r, text)
    BY <1>2, <2>1, <2>5 DEF Queued, OnItsWay, Stale, Shows, Copies, In
  <2>7. Reaches(s, r)' <=> Reaches(s, r)
    BY <1>2 DEF Reaches
  <2>8. Known(s, r)'
    BY <1>1, <1>2, <1>3, <1>4, <2>1, <2>4, <2>5, <2>6 DEF Delivery, Known
  <2>9. SendTold(s, r)'
    BY <1>2 DEF SendTold
  <2>10. StaleKept(s, r)'
    BY <1>1, <1>2, GenuineFrame DEF Delivery, StaleKept
  <2>11. ASSUME NEW text \in Own(s, r)
         PROVE  TextOK(s, r, text)'
    <3>1. TextOK(s, r, text)
      BY <1>1 DEF Delivery
    <3>2. SendAlone(s, r, text)'
      BY <2>3 DEF SendAlone
    <3>3. RefusalKept(s, r, text)'
      BY <1>2, <1>3, <2>1, <2>4, <2>6, <3>1 DEF TextOK, RefusalKept, Unplaced
    <3>4. Places(s, r, text)' = Places(s, r, text)
      BY <2>1, <2>3, <2>6 DEF Places, One
    <3> QED
      BY <1>2, <2>6, <2>7, <3>1, <3>2, <3>3, <3>4 DEF TextOK, One
  <2>12. ASSUME NEW text \in Own(s, r), NEW next \in Own(s, r)
         PROVE  PairOK(s, r, text, next)'
    BY <1>1, <1>2, <2>6 DEF Delivery, PairOK
  <2>13. Rising(outbox[s])' /\ Rising(Pulled(r))' /\ Arranged(messages[r])'
    BY <1>1, <1>2, <2>1, <2>5 DEF Delivery, Rising, Arranged
  <2> QED
    BY <1>4, <2>8, <2>9, <2>10, <2>11, <2>12, <2>13 DEF Delivery
<1> QED
  BY <1>5, <1>6

-----------------------------------------------------------------------------
(* What r takes from a POST of s.                                          *)

\* The window of r takes a text of s.
LEMMA WindowTakes ==
  ASSUME WindowInv, NEW s \in Nodes, NEW r \in Nodes, s # r, NEW t \in Texts,
         Show(r, In(t)), Arranged(messages[r]), abandoned' = abandoned,
         \A text \in Texts : Shows(r, In(text)) => text.no < t.no \/ t \in abandoned
  PROVE  /\ \A text : Shows(s, Out(text))' <=> Shows(s, Out(text))
         /\ \A text : Shows(r, In(text))' <=> Shows(r, In(text)) \/ text = t
         /\ \A text : text # t => Copies(r, text)' = Copies(r, text)
         /\ Copies(r, t)' = Copies(r, t) + 1
         /\ Arranged(messages[r])'
<1>1. In(t) \in ChatMessage /\ \A text : In(t) # Out(text)
  BY DEF In, Out, ChatMessage
<1>2. \A text : In(t) = In(text) <=> text = t
  BY DEF In
<1>3. \A text : /\ Shows(s, Out(text))' <=> Shows(s, Out(text))
                /\ Shows(r, In(text))' <=> Shows(r, In(text)) \/ text = t
                /\ Copies(r, text)' = Copies(r, text) + One(text = t)
  <2>1. ASSUME NEW text
        PROVE  /\ Shows(s, Out(text))' <=> Shows(s, Out(text)) \/ (r = s /\ In(t) = Out(text))
               /\ Shows(r, In(text))' <=> Shows(r, In(text)) \/ (r = r /\ In(t) = In(text))
               /\ Copies(r, text)' = Copies(r, text) + One(r = r /\ In(t) = In(text))
    BY <1>1, WindowGrows
  <2> QED
    BY <1>2, <2>1 DEF One
<1>4. \A text : Copies(r, text) \in Nat
  BY CopiesType
<1>5. messages'[r] = Append(messages[r], In(t))
  BY DEF Show, WindowInv
<1>6. Arranged(messages[r])'
  <2>1. In(t).body = t
    BY DEF In
  <2> QED
    BY <1>1, <1>5, <2>1, ArrangedAppended
<1> QED
  BY <1>3, <1>4, <1>6 DEF One

LEMMA AnswerSendDelivery ==
  ASSUME DeliveryInv, NEW s, NEW r, <<s, r>> \in Ends, AnswerSend(s)
  PROVE  Delivery(s, r)'
<1>20. PICK t, wire, m : /\ wire = sending[s].wire /\ t = wire.payload.plain
                         /\ m = Serves[sending[s].url]
  OBVIOUS
<1>1. /\ s \in Nodes /\ r \in Nodes /\ s # r /\ Delivery(s, r) /\ Fixed
      /\ MessagesInv /\ WindowInv
  BY TwoEnds DEF DeliveryInv, ConversationInv, MessagesInv
<1>2. /\ sending[s] # NoSend /\ sending[s].stage = "posted"
      /\ m \in Nodes
      /\ AcceptMessage(m, wire)
      /\ sending'[s] = [stage |-> "answered", url |-> sending[s].url,
                        wire |-> wire, delivered |-> Genuine(m, wire)]
      /\ UNCHANGED <<epoch, session, outbox, poll, sent, staleSends, abandoned, refused>>
  BY <1>1, <1>20 DEF AnswerSend, SendIs, sharedVars, MessagesInv, SendInv
<1>3. /\ wire \in SealedWires /\ Genuine(r, wire)
      /\ t \in Own(s, r) /\ t \in Texts /\ t.no = sent[s]
      /\ InSend(s, t) /\ Unplaced(s, r, t)
      /\ Copies(r, t) <= 1
      /\ Shows(r, In(t)) => SendIs(s, "answered") /\ sending[s].delivered
      /\ sending[s].url = session[s].peer_url /\ session[s].peer_url # NoUrl
  BY <1>2, <1>20, PostedText
<1>4. ~Shows(r, In(t))
  BY <1>2, <1>3 DEF SendIs
<1>5. Own(s, r)' = Own(s, r) /\ Pulled(r)' = Pulled(r)
  BY <1>2 DEF Own, PublicKey, Pulled, PollIs
<1>6. Genuine(m, wire) <=> m = r
  BY <1>1, <1>2, <1>3, OpensOnce
<1>7. Reaches(s, r) <=> m = r
  BY <1>3, <1>20 DEF Reaches
<1>8. /\ sending'[s].url = sending[s].url /\ sending'[s].wire = wire
      /\ sending'[s].stage = "answered"
      /\ sending'[s].delivered = (m = r)
  <2>1. Genuine(m, wire) = (m = r)
    BY <1>6, Zenon DEF Genuine
  <2>2. /\ sending'[s].url = sending[s].url /\ sending'[s].wire = wire
        /\ sending'[s].stage = "answered"
        /\ sending'[s].delivered = Genuine(m, wire)
    BY <1>2
  <2> QED
    BY <2>1, <2>2, Zenon
<1>9. sending'[s] # NoSend
  <2>1. SharedTypeOK /\ MessagesInv'
    BY <1>1, AnswerSendInv DEF Fixed
  <2>2. (ioLock'[s] = "send") <=> (ioLock[s] = "send")
    BY DEF AnswerSend, sharedVars
  <2> QED
    BY <1>1, <1>2, <2>1, <2>2 DEF MessagesInv, SendInv
<1>10. /\ \A text : Shows(s, Out(text))' <=> Shows(s, Out(text))
       /\ \A text : Shows(r, In(text))' <=> Shows(r, In(text)) \/ (m = r /\ text = t)
       /\ \A text : text # t => Copies(r, text)' = Copies(r, text)
       /\ Copies(r, t)' = Copies(r, t) + One(m = r)
       /\ Arranged(messages[r])'
  <2>1. CASE m = r
    <3>1. Show(r, In(t))
      BY <1>2, <1>6, <1>20, <2>1 DEF AcceptMessage
    <3>2. \A text \in Texts : Shows(r, In(text)) => text.no < t.no
      <4>1. ASSUME NEW text \in Texts, Shows(r, In(text))
            PROVE  text.no < t.no
        <5>1. text \in Own(s, r) /\ text # t
          BY <1>1, <1>4, <4>1 DEF Delivery, Known
        <5>2. text.no \in Nat /\ text.no <= sent[s] /\ text.no # t.no
          BY <1>1, <1>3, <5>1, OwnTexts
        <5>3. sent[s] \in Nat
          BY <1>1 DEF MessagesInv, SendInv
        <5> QED
          BY <1>3, <5>2, <5>3
      <4> QED
        BY <4>1
    <3> QED
      BY <1>1, <1>2, <1>3, <2>1, <3>1, <3>2, WindowTakes DEF Delivery, One
  <2>2. CASE m # r
    <3>1. messages' = messages
      BY <1>2, <1>6, <2>2 DEF AcceptMessage
    <3>2. Copies(r, t) \in Nat
      BY <1>1, CopiesType
    <3> QED
      BY <1>1, <1>2, <2>2, <3>1, <3>2 DEF Delivery, Shows, Copies, One, In, Out, Arranged
  <2> QED
    BY <2>1, <2>2
<1>11. \A text : /\ Queued(s, text)' <=> Queued(s, text)
                 /\ OnItsWay(r, text)' <=> OnItsWay(r, text)
                 /\ Stale(text)' <=> Stale(text)
  BY <1>2, <1>5 DEF Queued, OnItsWay, Stale
<1>12. \A text : /\ InSend(s, text)' <=> text = t
                 /\ Posted(s, text) <=> text = t
                 /\ ~Posted(s, text)'
  BY <1>2, <1>8, <1>9, <1>20 DEF InSend, Posted, SendIs
<1>13. Reaches(s, r)' <=> Reaches(s, r)
  BY <1>2 DEF Reaches
<1>14. Known(s, r)'
  <2>1. sending'[s].wire.payload.plain \in Own(s, r)'
    BY <1>3, <1>5, <1>8, <1>20
  <2> QED
    BY <1>1, <1>2, <1>3, <1>5, <1>10, <2>1 DEF Delivery, Known
<1>15. SendTold(s, r)'
  BY <1>2, <1>3, <1>8, <1>20 DEF SendTold
<1>16. StaleKept(s, r)'
  BY <1>1, <1>2, GenuineFrame DEF Delivery, StaleKept
<1>17. ASSUME NEW text \in Own(s, r)
       PROVE  TextOK(s, r, text)'
  <2>1. TextOK(s, r, text) /\ Copies(r, text) \in Nat
    BY <1>1, CopiesType DEF Delivery
  <2>2. SendAlone(s, r, text)'
    <3>1. text = t => Unplaced(s, r, t)'
      BY <1>2, <1>3, <1>10, <1>11 DEF Unplaced
    <3>2. (m = r) => SendIs(s, "answered")' /\ sending'[s].delivered
      BY <1>8, <1>9 DEF SendIs
    <3> QED
      BY <1>2, <1>3, <1>4, <1>10, <1>12, <3>1, <3>2 DEF SendAlone
  <2>3. RefusalKept(s, r, text)'
    BY <1>2, <1>3, <1>10, <1>11, <2>1 DEF TextOK, RefusalKept, Unplaced
  <2>4. Places(s, r, text)' <= Places(s, r, text)
    <3>1. CASE text = t
      BY <1>2, <1>3, <1>10, <1>11, <1>12, <2>1, <3>1 DEF Places, One
    <3>2. CASE text # t
      BY <1>2, <1>10, <1>11, <1>12, <2>1, <3>2 DEF Places, One
    <3> QED
      BY <3>1, <3>2
  <2>5. Places(s, r, text)' \in Nat /\ Places(s, r, text) \in Nat
    BY <1>10, <2>1 DEF Places, One
  <2>6. (Places(s, r, text) <= 1 + One(text \in abandoned))'
    BY <1>2, <2>1, <2>4, <2>5 DEF TextOK, One
  <2> QED
    BY <1>2, <1>11, <1>13, <2>1, <2>2, <2>3, <2>6 DEF TextOK
<1>18. ASSUME NEW text \in Own(s, r), NEW next \in Own(s, r)
       PROVE  PairOK(s, r, text, next)'
  <2>1. PairOK(s, r, text, next) /\ TextOK(s, r, next)
    BY <1>1 DEF Delivery
  <2>2. m = r /\ (OnItsWay(r, next) \/ Queued(s, next)) => next \in abandoned
    BY <1>7, <2>1 DEF TextOK
  <2> QED
    BY <1>2, <1>10, <1>11, <2>1, <2>2 DEF PairOK
<1>19. Rising(outbox[s])' /\ Rising(Pulled(r))'
  BY <1>1, <1>2, <1>5 DEF Delivery, Rising
<1> QED
  BY <1>5, <1>10, <1>14, <1>15, <1>16, <1>17, <1>18, <1>19 DEF Delivery

\* A late POST of s.
LEMMA AnswerStaleSendDelivery ==
  ASSUME DeliveryInv, NEW s, NEW r, <<s, r>> \in Ends, NEW old \in staleSends,
         old.wire.payload.plain.by = s,
         AcceptMessage(old.to, old.wire), staleSends' = staleSends \ {old},
         UNCHANGED <<epoch, session, outbox, poll, sent, sending, abandoned, refused>>
  PROVE  Delivery(s, r)'
<1>18. PICK t : t = old.wire.payload.plain
  OBVIOUS
<1>1. /\ s \in Nodes /\ r \in Nodes /\ s # r /\ Delivery(s, r) /\ Fixed
      /\ MessagesInv /\ WindowInv
  BY DeliveryParts
<1>2. old.to \in Nodes /\ old.wire \in SealedWires /\ t \in Texts
  BY <1>1, <1>18 DEF MessagesInv, SendInv, SealedWires, Wire
<1>3. /\ Genuine(r, old.wire)
      /\ session[s].peer_url # NoUrl
      /\ old.to = Serves[session[s].peer_url]
      /\ t \in abandoned
      /\ \A other \in staleSends : other.wire.payload.plain = t => other = old
  BY <1>1, <1>18 DEF Delivery, StaleKept
<1>4. t \in Own(s, r)
  BY <1>1, <1>2, <1>3, <1>18 DEF Delivery, Known
<1>5. Own(s, r)' = Own(s, r) /\ Pulled(r)' = Pulled(r)
  BY DEF Own, PublicKey, Pulled, PollIs
<1>6. Genuine(old.to, old.wire) <=> old.to = r
  BY <1>1, <1>2, <1>3, OpensOnce
<1>7. Reaches(s, r) <=> old.to = r
  BY <1>3 DEF Reaches
<1>8. /\ \A text : Shows(s, Out(text))' <=> Shows(s, Out(text))
      /\ \A text : Shows(r, In(text))' <=> Shows(r, In(text)) \/ (old.to = r /\ text = t)
      /\ \A text : text # t => Copies(r, text)' = Copies(r, text)
      /\ Copies(r, t)' = Copies(r, t) + One(old.to = r)
      /\ Arranged(messages[r])'
  <2>1. CASE old.to = r
    <3>1. Show(r, In(t))
      BY <1>6, <1>18, <2>1 DEF AcceptMessage
    <3> QED
      BY <1>1, <1>2, <1>3, <2>1, <3>1, WindowTakes DEF Delivery, One
  <2>2. CASE old.to # r
    <3>1. messages' = messages
      BY <1>6, <2>2 DEF AcceptMessage
    <3>2. Copies(r, t) \in Nat
      BY <1>1, CopiesType
    <3> QED
      BY <1>1, <2>2, <3>1, <3>2 DEF Delivery, Shows, Copies, One, In, Out, Arranged
  <2> QED
    BY <2>1, <2>2
<1>9. Stale(t) /\ ~Stale(t)' /\ \A text : text # t => (Stale(text)' <=> Stale(text))
  BY <1>3, <1>18 DEF Stale
<1>10. \A text : /\ Queued(s, text)' <=> Queued(s, text)
                 /\ OnItsWay(r, text)' <=> OnItsWay(r, text)
                 /\ InSend(s, text)' <=> InSend(s, text)
                 /\ Posted(s, text)' <=> Posted(s, text)
  BY <1>5 DEF Queued, OnItsWay, InSend, Posted, SendIs
<1>11. Reaches(s, r)' <=> Reaches(s, r)
  BY DEF Reaches
<1>12. Known(s, r)'
  BY <1>1, <1>4, <1>5, <1>8 DEF Delivery, Known
<1>13. SendTold(s, r)'
  BY <1>1 DEF Delivery, SendTold
<1>14. StaleKept(s, r)'
  BY <1>1, GenuineFrame DEF Delivery, StaleKept
<1>15. ASSUME NEW text \in Own(s, r)
       PROVE  TextOK(s, r, text)'
  <2>1. TextOK(s, r, text) /\ Copies(r, text) \in Nat
    BY <1>1, CopiesType DEF Delivery
  <2>2. SendAlone(s, r, text)'
    <3>1. InSend(s, text) => text # t
      BY <1>9, <2>1 DEF TextOK, SendAlone, Unplaced
    <3> QED
      BY <1>8, <1>9, <1>10, <2>1, <3>1 DEF TextOK, SendAlone, Unplaced, SendIs
  <2>3. RefusalKept(s, r, text)'
    BY <1>3, <1>8, <1>10, <2>1 DEF TextOK, RefusalKept
  <2>4. Places(s, r, text)' <= Places(s, r, text)
    <3>1. CASE text = t
      BY <1>8, <1>9, <1>10, <2>1, <3>1 DEF Places, One
    <3>2. CASE text # t
      BY <1>8, <1>9, <1>10, <2>1, <3>2 DEF Places, One
    <3> QED
      BY <3>1, <3>2
  <2>5. Places(s, r, text)' \in Nat /\ Places(s, r, text) \in Nat
    BY <1>8, <2>1 DEF Places, One
  <2>6. (Places(s, r, text) <= 1 + One(text \in abandoned))'
    BY <2>1, <2>4, <2>5 DEF TextOK, One
  <2> QED
    BY <1>10, <1>11, <2>1, <2>2, <2>3, <2>6 DEF TextOK
<1>16. ASSUME NEW text \in Own(s, r), NEW next \in Own(s, r)
       PROVE  PairOK(s, r, text, next)'
  <2>1. PairOK(s, r, text, next) /\ TextOK(s, r, next)
    BY <1>1 DEF Delivery
  <2>2. old.to = r /\ (OnItsWay(r, next) \/ Queued(s, next)) => next \in abandoned
    BY <1>7, <2>1 DEF TextOK
  <2> QED
    BY <1>8, <1>10, <2>1, <2>2 DEF PairOK
<1>17. Rising(outbox[s])' /\ Rising(Pulled(r))'
  BY <1>1, <1>5 DEF Delivery, Rising
<1> QED
  BY <1>5, <1>8, <1>12, <1>13, <1>14, <1>15, <1>16, <1>17 DEF Delivery

-----------------------------------------------------------------------------
(* What r takes from an answer to its pull.                                *)

\* When each wire opens, poll_once shows them all, as they come.
LEMMA AcceptedAll ==
  ASSUME NEW n, NEW wires \in Seq(SealedWires), NEW list \in Passing(n, wires),
         \A i \in DOMAIN wires : Genuine(n, wires[i])
  PROVE  Accepted(wires, list) = [i \in DOMAIN wires |-> In(wires[i].payload.plain)]
<1> DEFINE P == {i \in DOMAIN wires : Genuine(n, wires[i])}
           all == [i \in DOMAIN wires |-> i]
<1>1. DOMAIN wires = 1 .. Len(wires) /\ Len(wires) \in Nat
  OBVIOUS
<1>2. P = 1 .. Len(wires)
  BY <1>1
<1>3. IsFiniteSet(P) /\ Cardinality(P) = Len(wires) /\ P \in SUBSET Nat
  <2>1. IsFiniteSet(1 .. Len(wires)) /\ Cardinality(1 .. Len(wires)) = Len(wires)
    BY <1>1, FS_Interval
  <2>2. 1 .. Len(wires) \in SUBSET Nat
    BY <1>1
  <2> HIDE DEF P
  <2> QED
    BY <1>2, <2>1, <2>2
<1>4. list \in Listings(P)
  BY DEF Passing
<1> HIDE DEF P
<1>5. all \in Listings(P)
  BY <1>1, <1>2, <1>3 DEF Listings
<1>6. list = all
  BY <1>3, <1>4, <1>5, ListingUnique
<1>7. \A i \in DOMAIN wires : list[i] = i
  BY <1>6
<1>8. DOMAIN list = DOMAIN wires
  BY <1>6
<1> QED
  BY <1>7, <1>8 DEF Accepted

\* An ordered answer shows each of its texts once.
LEMMA OnceEach ==
  ASSUME NEW wires \in Seq(SealedWires), Rising(wires), NEW text,
         NEW new, new = [i \in DOMAIN wires |-> In(wires[i].payload.plain)]
  PROVE  Cardinality({i \in DOMAIN new : new[i] = In(text)}) = One(text \in TextsOf(wires))
<1> DEFINE S == {i \in DOMAIN new : new[i] = In(text)}
<1>1. \A i \in DOMAIN wires : wires[i] \in SealedWires /\ i \in Nat
  OBVIOUS
<1>2. \A i \in DOMAIN wires : wires[i].payload.plain.no \in Nat
  BY <1>1 DEF SealedWires, Wire, Texts
<1>3. S = {i \in DOMAIN wires : wires[i].payload.plain = text}
  BY DEF In
<1>4. CASE text \in TextsOf(wires)
  <2>1. PICK k \in DOMAIN wires : wires[k].payload.plain = text
    BY <1>4 DEF TextsOf
  <2>2. ASSUME NEW i \in DOMAIN wires, wires[i].payload.plain = text
        PROVE  i = k
    <3>1. ~(i < k) /\ ~(k < i)
      BY <1>2, <2>1, <2>2 DEF Rising
    <3> QED
      BY <1>1, <3>1
  <2>3. S = {k}
    BY <1>3, <2>1, <2>2
  <2> QED
    BY <1>4, <2>3, FS_Singleton DEF One
<1>5. CASE text \notin TextsOf(wires)
  <2>1. S = {}
    BY <1>3, <1>5 DEF TextsOf
  <2> QED
    BY <1>5, <2>1, FS_EmptySet DEF One
<1> QED
  BY <1>4, <1>5

LEMMA PollAppliesDelivery ==
  ASSUME DeliveryInv, NEW s, NEW r, <<s, r>> \in Ends, PollApplies(r)
  PROVE  Delivery(s, r)'
<1>1. /\ s \in Nodes /\ r \in Nodes /\ s # r /\ Delivery(s, r) /\ Flow(s, r)
      /\ SharedTypeOK /\ MessagesInv /\ WindowInv /\ PollInv
  BY DeliveryParts
<1>2. /\ UNCHANGED <<epoch, session, outbox, sent, sending, staleSends, abandoned, refused>>
      /\ poll' = [poll EXCEPT ![r] = NoPoll]
      /\ poll[r] # NoPoll /\ poll[r].stage = "received"
  BY DEF PollApplies, PollIs, sharedVars
<1>3. PICK wires, list : /\ wires = poll[r].wires
                         /\ list \in Passing(r, wires)
                         /\ messages' = [messages EXCEPT ![r] = @ \o Accepted(wires, list)]
  BY DEF PollApplies
<1>4. wires \in Seq(SealedWires) /\ Pulled(r) = wires /\ Pulled(r)' = <<>>
  BY <1>1, <1>2, <1>3, PollFields DEF Pulled, PollIs, PollInv
<1>5. /\ \A i \in DOMAIN wires : Genuine(r, wires[i])
      /\ Rising(wires)
  BY <1>1, <1>4 DEF Flow, WiresOpen, Delivery
<1>6. PICK new : new = [i \in DOMAIN wires |-> In(wires[i].payload.plain)]
  OBVIOUS
<1>7. Accepted(wires, list) = new
  BY <1>3, <1>4, <1>5, <1>6, AcceptedAll
<1>8. new \in Seq(ChatMessage)
  <2>1. new \in Seq(OwnMessages(r))
    BY <1>1, <1>3, <1>4, <1>7, AcceptedOwn
  <2> QED
    BY <2>1, SeqMonotonic DEF OwnMessages
<1>9. messages' = [messages EXCEPT ![r] = @ \o new]
  BY <1>3, <1>7
<1>10. \A text : OnItsWay(r, text) <=> text \in TextsOf(wires)
  BY <1>4 DEF OnItsWay
<1>11. /\ DOMAIN new = DOMAIN wires
       /\ \A i \in DOMAIN wires : /\ new[i] = In(wires[i].payload.plain)
                                  /\ new[i].body = wires[i].payload.plain
                                  /\ new[i].body \in TextsOf(wires)
  BY <1>6 DEF In, TextsOf
<1>12. \A text : (\E i \in DOMAIN new : In(text) = new[i]) <=> OnItsWay(r, text)
  BY <1>10, <1>11 DEF In, TextsOf
<1>13. \A text : Shows(r, In(text))' <=> Shows(r, In(text)) \/ OnItsWay(r, text)
  <2>1. \A x : Shows(r, x)' <=> Shows(r, x) \/ \E i \in DOMAIN new : x = new[i]
    BY <1>1, <1>8, <1>9, ShowsConcatenated
  <2> QED
    BY <1>12, <2>1 DEF Shows, In
<1>14. \A text : Shows(s, Out(text))' <=> Shows(s, Out(text))
  BY <1>1, <1>9 DEF Shows, Out, WindowInv
<1>15. messages'[r] = messages[r] \o new
  BY <1>1, <1>9 DEF WindowInv
<1>16. \A text : Copies(r, text)' = Copies(r, text) + One(OnItsWay(r, text))
  <2>1. ASSUME NEW text
        PROVE  Copies(r, text)' = Copies(r, text) + One(OnItsWay(r, text))
    <3>1. Copies(r, text)' =
            Copies(r, text) + Cardinality({i \in DOMAIN new : new[i] = In(text)})
      BY <1>1, <1>8, <1>15, CopiesConcatenated
    <3>2. Cardinality({i \in DOMAIN new : new[i] = In(text)}) = One(text \in TextsOf(wires))
      BY <1>4, <1>5, <1>6, OnceEach
    <3> QED
      BY <1>10, <3>1, <3>2 DEF One
  <2> QED
    BY <2>1
<1>17. Arranged(messages[r])'
  <2>1. Arranged(new)'
    BY <1>5, <1>11 DEF Arranged, Rising
  <2>2. ASSUME NEW i \in DOMAIN new, NEW text \in Texts, Shows(r, In(text))
        PROVE  text.no < new[i].body.no \/ new[i].body \in abandoned'
    <3>1. OnItsWay(r, new[i].body) /\ new[i].body \in Own(s, r) /\ text \in Own(s, r)
      BY <1>1, <1>4, <1>10, <1>11, <2>2 DEF Delivery, Known
    <3> QED
      BY <1>1, <1>2, <2>2, <3>1 DEF Delivery, PairOK
  <2> QED
    BY <1>1, <1>2, <1>8, <1>15, <2>1, <2>2, ArrangedConcatenated DEF Delivery
<1>18. \A text : ~OnItsWay(r, text)'
  BY <1>4 DEF OnItsWay, TextsOf
<1>19. \A text : /\ Queued(s, text)' <=> Queued(s, text)
                 /\ Stale(text)' <=> Stale(text)
                 /\ InSend(s, text)' <=> InSend(s, text)
                 /\ Posted(s, text)' <=> Posted(s, text)
  BY <1>2 DEF Queued, Stale, InSend, Posted, SendIs
<1>20. Own(s, r)' = Own(s, r) /\ (Reaches(s, r)' <=> Reaches(s, r))
  BY <1>2 DEF Own, PublicKey, Reaches
<1>21. Known(s, r)'
  <2>1. TextsOf(Pulled(r)') = {}
    BY <1>4 DEF TextsOf
  <2> QED
    BY <1>1, <1>2, <1>4, <1>10, <1>13, <1>14, <1>20, <2>1 DEF Delivery, Known
<1>22. SendTold(s, r)'
  BY <1>1, <1>2 DEF Delivery, SendTold
<1>23. StaleKept(s, r)'
  BY <1>1, <1>2, GenuineFrame DEF Delivery, StaleKept
<1>24. ASSUME NEW text \in Own(s, r)
       PROVE  TextOK(s, r, text)'
  <2>1. TextOK(s, r, text) /\ Copies(r, text) \in Nat
    BY <1>1, CopiesType DEF Delivery
  <2>2. SendAlone(s, r, text)'
    BY <1>2, <1>13, <1>14, <1>18, <1>19, <2>1 DEF TextOK, SendAlone, Unplaced, SendIs
  <2>3. RefusalKept(s, r, text)'
    BY <1>2, <1>13, <1>14, <1>18, <1>19, <2>1 DEF TextOK, RefusalKept
  <2>4. Places(s, r, text)' = Places(s, r, text)
    BY <1>2, <1>16, <1>18, <1>19, <2>1 DEF Places, One
  <2> QED
    BY <1>2, <1>18, <1>19, <1>20, <2>1, <2>2, <2>3, <2>4 DEF TextOK, One
<1>25. ASSUME NEW text \in Own(s, r), NEW next \in Own(s, r)
       PROVE  PairOK(s, r, text, next)'
  BY <1>1, <1>2, <1>13, <1>18, <1>19 DEF Delivery, PairOK
<1>26. Rising(outbox[s])' /\ Rising(Pulled(r))'
  BY <1>1, <1>2, <1>4 DEF Delivery, Rising
<1> QED
  BY <1>17, <1>20, <1>21, <1>22, <1>23, <1>24, <1>25, <1>26 DEF Delivery

\* The outbox of s moves into the answer.
LEMMA OutboxPulled ==
  ASSUME DeliveryInv, NEW s, NEW r, <<s, r>> \in Ends,
         UNCHANGED <<epoch, session, messages, sent, sending, staleSends, abandoned, refused>>,
         Pulled(r) = <<>>, Pulled(r)' = outbox[s], outbox'[s] = <<>>
  PROVE  Delivery(s, r)'
<1>1. Delivery(s, r)
  BY DeliveryParts
<1>2. TextsOf(<<>>) = {}
  BY DEF TextsOf
<1>3. \A text : /\ ~OnItsWay(r, text) /\ ~Queued(s, text)'
                /\ OnItsWay(r, text)' <=> Queued(s, text)
                /\ Stale(text)' <=> Stale(text)
                /\ InSend(s, text)' <=> InSend(s, text)
                /\ Posted(s, text)' <=> Posted(s, text)
                /\ Shows(s, Out(text))' <=> Shows(s, Out(text))
                /\ Shows(r, In(text))' <=> Shows(r, In(text))
                /\ Copies(r, text)' = Copies(r, text)
  BY <1>2 DEF OnItsWay, Queued, Stale, InSend, Posted, SendIs, Shows, Copies, In, Out
<1>4. Own(s, r)' = Own(s, r) /\ (Reaches(s, r)' <=> Reaches(s, r))
  BY DEF Own, PublicKey, Reaches
<1>5. Known(s, r)'
  BY <1>1, <1>2, <1>3, <1>4 DEF Delivery, Known
<1>6. SendTold(s, r)'
  BY <1>1 DEF Delivery, SendTold
<1>7. StaleKept(s, r)'
  BY <1>1, DeliveryParts, GenuineFrame DEF Delivery, StaleKept
<1>8. ASSUME NEW text \in Own(s, r)
      PROVE  TextOK(s, r, text)'
  <2>1. TextOK(s, r, text) /\ Copies(r, text) \in Nat
    BY <1>1, DeliveryParts, CopiesType DEF Delivery
  <2>2. SendAlone(s, r, text)'
    BY <1>3, <2>1 DEF TextOK, SendAlone, Unplaced, SendIs
  <2>3. RefusalKept(s, r, text)'
    BY <1>3, <2>1 DEF TextOK, RefusalKept
  <2>4. Places(s, r, text)' = Places(s, r, text)
    BY <1>3, <2>1 DEF Places, One
  <2> QED
    BY <1>3, <1>4, <2>1, <2>2, <2>3, <2>4 DEF TextOK, One
<1>9. ASSUME NEW text \in Own(s, r), NEW next \in Own(s, r)
      PROVE  PairOK(s, r, text, next)'
  BY <1>1, <1>3 DEF Delivery, PairOK
<1>10. Rising(outbox[s])' /\ Rising(Pulled(r))' /\ Arranged(messages[r])'
  BY <1>1 DEF Delivery, Rising, Arranged
<1> QED
  BY <1>4, <1>5, <1>6, <1>7, <1>8, <1>9, <1>10 DEF Delivery

-----------------------------------------------------------------------------
(* The steps of others.                                                    *)

\* Both windows stay as they are.
LEMMA SameWindows ==
  ASSUME DeliveryInv, NEW s, NEW r, <<s, r>> \in Ends, Elsewhere(s, r),
         sent'[s] = sent[s], sending'[s] = sending[s], abandoned \subseteq abandoned',
         outbox'[s] = outbox[s] \/ outbox'[s] = <<>>,
         Pulled(r)' = Pulled(r) \/ Pulled(r)' = <<>>,
         messages'[s] = messages[s], messages'[r] = messages[r]
  PROVE  Delivery(s, r)'
<1>1. \A text : /\ Shows(s, Out(text))' <=> Shows(s, Out(text))
                /\ Shows(r, In(text))' <=> Shows(r, In(text))
                /\ Copies(r, text)' = Copies(r, text)
  BY DEF Shows, Copies, In, Out
<1>2. Arranged(messages[r])'
  BY DeliveryParts DEF Delivery, Arranged
<1> QED
  BY <1>1, <1>2, UntouchedDelivery

\* send_text at the other end.
LEMMA OtherSendDelivery ==
  ASSUME DeliveryInv, NEW s, NEW r, <<s, r>> \in Ends, NEW n \in Nodes, n # s,
         SendTextDirect(n) \/ SendTextMailbox(n) \/ SendTextReturns(n) \/ SendTextTimesOut(n)
  PROVE  Delivery(s, r)'
<1>1. /\ s \in Nodes /\ r \in Nodes /\ s # r /\ Delivery(s, r) /\ Fixed /\ SharedTypeOK
      /\ MessagesInv /\ SendInv /\ OutboxInv /\ WindowInv
  BY DeliveryParts
<1>2. UNCHANGED <<epoch, session, poll>>
  BY DEF SendTextDirect, SendTextMailbox, SendTextReturns, SendTextTimesOut, sharedVars
<1>3. sent'[s] = sent[s] /\ sending'[s] = sending[s]
  BY <1>1 DEF SendTextDirect, SendTextMailbox, SendTextReturns, SendTextTimesOut,
              ReturnFromSend, SendInv
<1>4. Pulled(r)' = Pulled(r)
  BY <1>2 DEF Pulled, PollIs
<1>5. CASE SendTextDirect(n)
  <2>1. UNCHANGED <<outbox, messages, staleSends, abandoned, refused>>
    BY <1>5 DEF SendTextDirect
  <2>2. Elsewhere(s, r)
    BY <1>2, <2>1 DEF Elsewhere
  <2> QED
    BY <1>3, <1>4, <2>1, <2>2, SameWindows
<1>6. CASE ~SendTextDirect(n)
  <2>1. PICK wire \in SealedWires :
          /\ wire.payload.plain.by = n
          /\ \/ Undelivered(n, wire)
             \/ Show(n, Out(wire.payload.plain)) /\ UNCHANGED <<outbox, refused>>
          /\ abandoned' = abandoned \/ abandoned' = abandoned \cup {wire.payload.plain}
          /\ \/ staleSends' = staleSends
             \/ \E to : staleSends' = staleSends \cup {[to |-> to, wire |-> wire]}
    <3>1. CASE SendTextMailbox(n)
      <4>1. MaySend(n) /\ Connected(n)
        BY <3>1 DEF SendTextMailbox, MaySend
      <4>2. /\ WireMessage(n, NextText(n)) \in SealedWires
            /\ WireMessage(n, NextText(n)).payload.plain = NextText(n)
            /\ NextText(n).by = n
        BY <1>1, <4>1, WireMessageSealed DEF NextText
      <4> QED
        BY <3>1, <4>2 DEF SendTextMailbox
    <3>2. CASE SendTextReturns(n)
      <4>1. sending[n] # NoSend
        BY <3>2 DEF SendTextReturns, SendIs
      <4> QED
        BY <1>1, <3>2, <4>1, SendFields DEF SendTextReturns
    <3>3. CASE SendTextTimesOut(n)
      <4>1. sending[n] # NoSend
        BY <3>3 DEF SendTextTimesOut, SendTimesOut
      <4> QED
        BY <1>1, <3>3, <4>1, SendFields DEF SendTextTimesOut
    <3> QED
      BY <1>6, <3>1, <3>2, <3>3
  <2>2. wire.payload.plain \in Texts /\ Out(wire.payload.plain) \in ChatMessage
    BY DEF SealedWires, Wire, Out, ChatMessage
  <2>3. /\ outbox'[s] = outbox[s]
        /\ refused' = refused \/ refused' = refused \cup {wire.payload.plain}
        /\ messages' = messages \/ Show(n, Out(wire.payload.plain))
    BY <1>1, <2>1 DEF Undelivered, OutboxInv
  <2>4. Elsewhere(s, r)
    <3>1. \A text \in Texts : text.by = s => text # wire.payload.plain
      BY <2>1
    <3>2. ASSUME NEW to
          PROVE  [to |-> to, wire |-> wire].wire.payload.plain.by # s
      BY <2>1
    <3> QED
      BY <1>2, <2>1, <2>3, <3>1, <3>2 DEF Elsewhere
  <2>5. CASE messages' = messages
    BY <1>3, <1>4, <2>1, <2>3, <2>4, <2>5, SameWindows
  <2>6. CASE Show(n, Out(wire.payload.plain))
    <3>1. \A text : In(text) # Out(wire.payload.plain)
      BY DEF In, Out
    <3>2. ASSUME NEW text
          PROVE  /\ Shows(s, Out(text))' <=> Shows(s, Out(text))
                 /\ Shows(r, In(text))' <=> Shows(r, In(text))
                 /\ Copies(r, text)' = Copies(r, text)
      <4>1. Copies(r, text)' = Copies(r, text) + One(FALSE) /\ Copies(r, text) \in Nat
        <5>1. Copies(r, text)' =
                Copies(r, text) + One(n = r /\ Out(wire.payload.plain) = In(text))
          BY <1>1, <2>2, <2>6, WindowGrows
        <5> QED
          BY <1>1, <3>1, <5>1, CopiesType DEF One
      <4> QED
        BY <1>1, <2>2, <2>6, <3>1, <4>1, WindowGrows DEF One
    <3>3. Arranged(messages[r])'
      <4>1. abandoned \subseteq abandoned'
        BY <2>1
      <4>2. CASE n = r
        <5>1. messages'[r] = Append(messages[r], Out(wire.payload.plain))
          BY <1>1, <2>6, <4>2 DEF Show, WindowInv
        <5>2. Out(wire.payload.plain).direction # "in"
          BY DEF Out
        <5> QED
          BY <1>1, <2>2, <4>1, <5>1, <5>2, ArrangedAppended DEF Delivery
      <4>3. CASE n # r
        <5>1. messages'[r] = messages[r]
          BY <1>1, <2>6, <4>3 DEF Show, WindowInv
        <5> QED
          BY <1>1, <4>1, <5>1 DEF Delivery, Arranged
      <4> QED
        BY <4>2, <4>3
    <3> QED
      BY <1>3, <1>4, <2>3, <2>4, <3>2, <3>3, UntouchedDelivery
  <2> QED
    BY <2>3, <2>5, <2>6
<1> QED
  BY <1>5, <1>6

\* A POST of the other end that s takes, or nobody.
LEMMA OtherShownDelivery ==
  ASSUME DeliveryInv, NEW s, NEW r, <<s, r>> \in Ends, NEW m \in Nodes,
         NEW wire \in SealedWires, Genuine(s, wire), AcceptMessage(m, wire),
         Elsewhere(s, r), UNCHANGED <<outbox, sent, poll, abandoned>>,
         sending'[s] = sending[s]
  PROVE  Delivery(s, r)'
<1>1. /\ s \in Nodes /\ r \in Nodes /\ s # r /\ <<r, s>> \in Ends /\ Delivery(s, r)
      /\ Fixed /\ WindowInv
  BY DeliveryParts, TwoEnds
<1>2. Pulled(r)' = Pulled(r)
  BY DEF Pulled, PollIs
<1>3. CASE Genuine(m, wire)
  <2>1. m = s
    BY <1>1, <1>3, OpensOnce
  <2>2. Show(s, In(wire.payload.plain))
    BY <1>3, <2>1 DEF AcceptMessage
  <2>3. /\ In(wire.payload.plain) \in ChatMessage
        /\ \A text : In(wire.payload.plain) # Out(text)
    BY DEF SealedWires, Wire, In, Out, ChatMessage
  <2>4. \A text : Shows(s, Out(text))' <=> Shows(s, Out(text))
    BY <1>1, <2>2, <2>3, WindowGrows
  <2>5. messages'[r] = messages[r]
    BY <1>1, <2>2 DEF Show, WindowInv
  <2>6. \A text : /\ Shows(r, In(text))' <=> Shows(r, In(text))
                  /\ Copies(r, text)' = Copies(r, text)
    BY <2>5 DEF Shows, Copies, In
  <2>7. Arranged(messages[r])'
    BY <1>1, <2>5 DEF Delivery, Arranged
  <2> QED
    BY <1>2, <2>4, <2>6, <2>7, UntouchedDelivery
<1>4. CASE ~Genuine(m, wire)
  <2>1. messages' = messages
    BY <1>4 DEF AcceptMessage
  <2> QED
    BY <1>2, <2>1, SameWindows
<1> QED
  BY <1>3, <1>4

LEMMA OtherAnswerDelivery ==
  ASSUME DeliveryInv, NEW s, NEW r, <<s, r>> \in Ends, NEW n \in Nodes, n # s, AnswerSend(n)
  PROVE  Delivery(s, r)'
<1>1. s \in Nodes /\ Flow(r, s) /\ SendInv /\ sending[n] # NoSend
  BY DeliveryParts DEF AnswerSend, SendIs
<1>2. n = r
  BY <1>1, TwoEnds DEF DeliveryInv, OnlyEndsSend, Ends
<1>3. sending[n].wire \in SealedWires /\ Genuine(s, sending[n].wire)
  BY <1>1, <1>2, SendFields DEF Flow, WiresOpen
<1>4. /\ Serves[sending[n].url] \in Nodes
      /\ AcceptMessage(Serves[sending[n].url], sending[n].wire)
      /\ UNCHANGED <<epoch, session, outbox, sent, poll, staleSends, abandoned, refused>>
      /\ sending'[s] = sending[s]
  BY <1>1 DEF AnswerSend, sharedVars, SendInv
<1>5. Elsewhere(s, r)
  BY <1>4 DEF Elsewhere
<1> QED
  BY <1>3, <1>4, <1>5, OtherShownDelivery

LEMMA StaleSendDelivery ==
  ASSUME DeliveryInv, NEW s, NEW r, <<s, r>> \in Ends, AnswerStaleSend
  PROVE  Delivery(s, r)'
<1>1. PICK old \in staleSends :
        AcceptMessage(old.to, old.wire) /\ staleSends' = staleSends \ {old}
  BY DEF AnswerStaleSend
<1>2. UNCHANGED <<epoch, session, outbox, poll, sent, sending, abandoned, refused>>
  BY DEF AnswerStaleSend, sharedVars
<1>3. CASE old.wire.payload.plain.by = s
  BY <1>1, <1>2, <1>3, AnswerStaleSendDelivery
<1>4. CASE old.wire.payload.plain.by # s
  <2>1. old.wire.payload.plain.by = r
    BY <1>4 DEF DeliveryInv, OnlyEndsSend, Ends
  <2>2. Genuine(s, old.wire)
    BY <2>1, DeliveryParts DEF Delivery, StaleKept
  <2>3. old.to \in Nodes /\ old.wire \in SealedWires
    BY DeliveryParts DEF SendInv
  <2>4. Elsewhere(s, r)
    BY <1>1, <1>2, <1>4 DEF Elsewhere
  <2> QED
    BY <1>1, <1>2, <2>2, <2>3, <2>4, OtherShownDelivery
<1> QED
  BY <1>3, <1>4

\* The poller, but for what r takes from s.
LEMMA QuietPollDelivery ==
  ASSUME DeliveryInv, NEW s, NEW r, <<s, r>> \in Ends, NEW n \in Nodes,
         PollStart(n) \/ PollFails(n) \/ PollTimesOut(n) \/ PollReceives(n)
  PROVE  Delivery(s, r)'
<1>1. r \in Nodes /\ MessagesInv /\ PollInv
  BY DeliveryParts
<1>2. UNCHANGED <<epoch, session, outbox, messages, sent, sending, staleSends, abandoned, refused>>
  BY DEF PollStart, PollFails, PollTimesOut, PollReceives, sharedVars
<1>3. Pulled(r)' = Pulled(r) \/ Pulled(r)' = <<>>
  <2>1. CASE PollStart(n) \/ PollFails(n) \/ PollReceives(n)
    BY <1>1, <2>1, QuietPoll
  <2>2. CASE PollTimesOut(n)
    <3>1. poll'[r] = IF n = r THEN NoPoll ELSE poll[r]
      BY <1>1, <2>2 DEF PollTimesOut, PollInv
    <3> QED
      BY <3>1 DEF Pulled, PollIs
  <2> QED
    BY <2>1, <2>2
<1>4. Elsewhere(s, r)
  BY <1>2 DEF Elsewhere
<1> QED
  BY <1>2, <1>3, <1>4, SameWindows

\* NothingAdded is cited for a text that no new message shows.
Has(seq, x) == \E i \in DOMAIN seq : seq[i] = x

LEMMA NothingAdded ==
  ASSUME NEW S, NEW old \in Seq(S), NEW new \in Seq(S), NEW x, ~Has(new, x)
  PROVE  Has(old \o new, x) <=> Has(old, x)
<1> DEFINE both == old \o new
<1>1. /\ DOMAIN both = 1 .. Len(old) + Len(new)
      /\ \A i \in 1 .. Len(old) + Len(new) :
           both[i] = IF i <= Len(old) THEN old[i] ELSE new[i - Len(old)]
  BY ConcatProperties
<1>2. /\ DOMAIN old = 1 .. Len(old) /\ DOMAIN new = 1 .. Len(new)
      /\ Len(old) \in Nat /\ Len(new) \in Nat
  OBVIOUS
<1> HIDE DEF both
<1>3. ASSUME NEW i \in DOMAIN both
      PROVE  \/ i \in DOMAIN old /\ both[i] = old[i]
             \/ i - Len(old) \in DOMAIN new /\ both[i] = new[i - Len(old)]
  BY <1>1, <1>2
<1>4. \A i \in DOMAIN old : i \in DOMAIN both /\ both[i] = old[i]
  BY <1>1, <1>2
<1>5. (\E i \in DOMAIN both : both[i] = x) <=> (\E i \in DOMAIN old : old[i] = x)
  BY <1>3, <1>4 DEF Has
<1> QED
  BY <1>5 DEF both, Has

LEMMA OtherAppliesDelivery ==
  ASSUME DeliveryInv, NEW s, NEW r, <<s, r>> \in Ends, NEW n \in Nodes, n # r, PollApplies(n)
  PROVE  Delivery(s, r)'
<1>1. /\ s \in Nodes /\ r \in Nodes /\ Delivery(s, r)
      /\ SharedTypeOK /\ MessagesInv /\ WindowInv /\ PollInv
  BY DeliveryParts
<1>2. /\ UNCHANGED <<epoch, session, outbox, sent, sending, staleSends, abandoned, refused>>
      /\ poll'[r] = poll[r]
      /\ poll[n] # NoPoll /\ poll[n].stage = "received"
  BY <1>1 DEF PollApplies, PollIs, sharedVars, PollInv
<1>3. PICK wires, list : /\ wires = poll[n].wires
                         /\ list \in Passing(n, wires)
                         /\ messages' = [messages EXCEPT ![n] = @ \o Accepted(wires, list)]
  BY DEF PollApplies
<1>4. PICK new : new = Accepted(wires, list)
  OBVIOUS
<1>5. new \in Seq(ChatMessage)
  <2>1. new \in Seq(OwnMessages(n))
    BY <1>1, <1>2, <1>3, <1>4, PollFields, AcceptedOwn
  <2> QED
    BY <2>1, SeqMonotonic DEF OwnMessages
<1>6. \A i \in DOMAIN new : \A text : new[i] # Out(text)
  BY <1>4 DEF Accepted, In, Out
<1>7. messages' = [messages EXCEPT ![n] = @ \o new]
  BY <1>3, <1>4
<1>8. \A text : Shows(s, Out(text))' <=> Shows(s, Out(text))
  <2>1. ASSUME NEW text
        PROVE  Shows(s, Out(text))' <=> Shows(s, Out(text))
    <3>1. CASE s = n
      <4>1. messages[s] \in Seq(ChatMessage) /\ messages'[s] = messages[s] \o new
        BY <1>1, <1>7, <3>1 DEF WindowInv
      <4>2. ~Has(new, Out(text))
        BY <1>6 DEF Has, Out
      <4>3. Has(messages[s] \o new, Out(text)) <=> Has(messages[s], Out(text))
        BY <1>5, <4>1, <4>2, NothingAdded
      <4> QED
        BY <4>1, <4>3 DEF Shows, Has, Out
    <3>2. CASE s # n
      <4>1. messages'[s] = messages[s]
        BY <1>1, <1>7, <3>2 DEF WindowInv
      <4> QED
        BY <4>1 DEF Shows, Out
    <3> QED
      BY <3>1, <3>2
  <2> QED
    BY <2>1
<1>9. messages'[r] = messages[r]
  BY <1>1, <1>7 DEF WindowInv
<1>10. \A text : /\ Shows(r, In(text))' <=> Shows(r, In(text))
                 /\ Copies(r, text)' = Copies(r, text)
  BY <1>9 DEF Shows, Copies, In
<1>11. Arranged(messages[r])'
  BY <1>1, <1>2, <1>9 DEF Delivery, Arranged
<1>12. Elsewhere(s, r) /\ Pulled(r)' = Pulled(r)
  BY <1>2 DEF Elsewhere, Pulled, PollIs
<1> QED
  BY <1>2, <1>8, <1>10, <1>11, <1>12, UntouchedDelivery

LEMMA AnswerPullDelivery ==
  ASSUME DeliveryInv, NEW s, NEW r, <<s, r>> \in Ends, NEW n \in Nodes, AnswerPull(n)
  PROVE  Delivery(s, r)'
<1>1. /\ s \in Nodes /\ r \in Nodes /\ s # r /\ Fixed /\ PullsOwn
      /\ MessagesInv /\ OutboxInv /\ PollInv
  BY DeliveryParts
<1>2. PICK m, req, wires :
        /\ m \in Nodes
        /\ m = Serves[poll[n].url] /\ req = poll[n].req /\ wires = PullResponse(m, req)
        /\ AcceptPull(m, req)
        /\ poll' = [poll EXCEPT ![n] = IF wires = <<>> THEN NoPoll
                                       ELSE [stage |-> "answered", wires |-> wires]]
  BY DEF AnswerPull
<1>3. /\ PollIs(n, "posted")
      /\ UNCHANGED <<epoch, session, messages, sent, sending, staleSends, abandoned, refused>>
  BY DEF AnswerPull, sharedVars
<1>4. req.from_public_key = PublicKey(n)
  BY <1>1, <1>2, <1>3 DEF PullsOwn
<1>5. wires \in Seq(SealedWires)
  BY <1>1, <1>2, AcceptPullParts
<1>6. [stage |-> "answered", wires |-> wires] # NoPoll
  BY <1>5, AnswerType, MailboxNullAssumption DEF SealedPolls
<1>7. Pulled(n) = <<>> /\ Pulled(n)' = wires
  BY <1>1, <1>2, <1>3, <1>6 DEF Pulled, PollIs, PollInv
<1>8. n # r => Pulled(r)' = Pulled(r)
  BY <1>1, <1>2 DEF Pulled, PollIs, PollInv
<1>9. Elsewhere(s, r)
  BY <1>3 DEF Elsewhere
<1>10. CASE PullAllowed(m, req)
  <2>1. Connected(m) /\ session[m].peer_public_key = PublicKey(n)
    BY <1>4, <1>10 DEF PullAllowed
  <2>2. outbox'[m] = <<>> /\ wires = outbox[m] /\ (m # s => outbox'[s] = outbox[s])
    BY <1>1, <1>2, <1>10 DEF AcceptPull, Drained, PullResponse, OutboxInv
  <2>3. CASE m = s
    <3>1. n = r
      <4>1. PublicKey(n) = PublicKey(r)
        BY <1>1, <2>1, <2>3, TwoEnds
      <4> QED
        BY <4>1 DEF PublicKey
    <3> QED
      BY <1>3, <1>7, <2>2, <2>3, <3>1, OutboxPulled
  <2>4. CASE m # s
    <3>1. m = r
      <4>1. m \in Nodes
        BY <1>2
      <4>2. \A k \in Nodes : Connected(k) => k = s \/ k = r
        BY <1>1, TwoEnds
      <4> QED
        BY <2>1, <2>4, <4>1, <4>2
    <3>2. PublicKey(n) = PublicKey(s) /\ PublicKey(s) # PublicKey(r)
      BY <1>1, <2>1, <3>1, TwoEnds
    <3> QED
      BY <1>3, <1>8, <1>9, <2>2, <2>4, <3>2, SameWindows
  <2> QED
    BY <2>3, <2>4
<1>11. CASE ~PullAllowed(m, req)
  <2>1. outbox' = outbox /\ wires = <<>>
    BY <1>2, <1>11 DEF AcceptPull, PullResponse
  <2> QED
    BY <1>3, <1>7, <1>8, <1>9, <2>1, SameWindows
<1> QED
  BY <1>10, <1>11

LEMMA AnswerStalePullDelivery ==
  ASSUME DeliveryInv, NEW s, NEW r, <<s, r>> \in Ends, AnswerStalePull
  PROVE  Delivery(s, r)'
<1>1. s \in Nodes /\ OutboxInv /\ PollInv
  BY DeliveryParts
<1>2. PICK old \in stalePulls : AcceptPull(old.to, old.req)
  BY DEF AnswerStalePull
<1>3. UNCHANGED <<epoch, session, messages, sent, sending, poll, staleSends, abandoned, refused>>
  BY DEF AnswerStalePull, sharedVars
<1>4. outbox'[s] = outbox[s] \/ outbox'[s] = <<>>
  BY <1>1, <1>2 DEF AcceptPull, Drained, OutboxInv, PollInv
<1>5. Elsewhere(s, r) /\ Pulled(r)' = Pulled(r)
  BY <1>3 DEF Elsewhere, Pulled, PollIs
<1> QED
  BY <1>3, <1>4, <1>5, SameWindows

-----------------------------------------------------------------------------
(* The invariant.                                                          *)

LEMMA DeliveryStep ==
  ASSUME DeliveryInv, MailboxNext, NEW s, NEW r, <<s, r>> \in Ends
  PROVE  Delivery(s, r)'
<1>1. ASSUME NEW n \in Nodes, Exchange(n)
      PROVE  Delivery(s, r)'
  <2>1. CASE /\ n # s
             /\ \/ SendTextDirect(n) \/ SendTextMailbox(n)
                \/ SendTextReturns(n) \/ SendTextTimesOut(n)
    BY <2>1, OtherSendDelivery
  <2>2. CASE /\ n = s
             /\ \/ SendTextDirect(n) \/ SendTextMailbox(n)
                \/ SendTextReturns(n) \/ SendTextTimesOut(n)
    BY <2>2, SendDirectDelivery, SendMailboxDelivery, SendReturnsDelivery,
       SendTimesOutDelivery
  <2>3. CASE AnswerSend(n)
    BY <2>3, AnswerSendDelivery, OtherAnswerDelivery
  <2>4. CASE PollStart(n) \/ PollFails(n) \/ PollTimesOut(n) \/ PollReceives(n)
    BY <2>4, QuietPollDelivery
  <2>5. CASE PollApplies(n)
    BY <2>5, PollAppliesDelivery, OtherAppliesDelivery
  <2>6. CASE AnswerPull(n)
    BY <2>6, AnswerPullDelivery
  <2> QED
    BY <1>1, <2>1, <2>2, <2>3, <2>4, <2>5, <2>6 DEF Exchange
<1> QED
  BY <1>1, StaleSendDelivery, AnswerStalePullDelivery DEF MailboxNext

LEMMA OnlyEndsSendStep ==
  ASSUME DeliveryInv, MailboxNext
  PROVE  OnlyEndsSend'
<1>1. /\ OnlyEndsSend /\ Fixed /\ MessagesInv /\ SendInv
      /\ <<Client, Host>> \in Ends
  BY DEF DeliveryInv, ConversationInv, MessagesInv, Ends
<1>2. ASSUME NEW n \in Nodes, Exchange(n)
      PROVE  OnlyEndsSend'
  <2>1. CASE SendTextDirect(n)
    <3>1. n \in {Client, Host}
      BY <1>1, <2>1, TwoEnds DEF SendTextDirect, MaySend
    <3> QED
      BY <1>1, <2>1, <3>1 DEF SendTextDirect, OnlyEndsSend, SendInv
  <2>2. CASE AnswerSend(n)
    <3>1. sending[n] # NoSend
      BY <2>2 DEF AnswerSend, SendIs
    <3> QED
      BY <1>1, <2>2, <3>1 DEF AnswerSend, OnlyEndsSend, SendInv
  <2>3. CASE SendTextTimesOut(n)
    <3>1. sending[n] # NoSend
      BY <2>3 DEF SendTextTimesOut, SendTimesOut
    <3>2. sending[n].wire.payload.plain.by = n
      BY <1>1, <3>1, SendFields
    <3> QED
      BY <1>1, <2>3, <3>1, <3>2 DEF SendTextTimesOut, ReturnFromSend, OnlyEndsSend, SendInv
  <2>4. CASE SendTextReturns(n)
    BY <1>1, <2>4 DEF SendTextReturns, ReturnFromSend, OnlyEndsSend, SendInv
  <2>5. CASE UNCHANGED <<sending, staleSends>>
    BY <1>1, <2>5 DEF OnlyEndsSend
  <2> QED
    BY <1>2, <2>1, <2>2, <2>3, <2>4, <2>5
    DEF Exchange, SendTextMailbox, PollStart, PollFails, PollTimesOut, PollReceives,
        PollApplies, AnswerPull
<1>3. CASE AnswerStaleSend \/ AnswerStalePull
  BY <1>1, <1>3 DEF AnswerStaleSend, AnswerStalePull, OnlyEndsSend
<1> QED
  BY <1>2, <1>3 DEF MailboxNext

LEMMA DeliveryInitInv == ConversationInit => DeliveryInv
<1> SUFFICES ASSUME ConversationInit
             PROVE  DeliveryInv
  OBVIOUS
<1>1. ConversationInv
  BY ConversationInitInv
<1>2. MailboxInit
  BY DEF ConversationInit
<1>3. OnlyEndsSend
  BY <1>2 DEF MailboxInit, OnlyEndsSend
<1>4. ASSUME NEW s \in Nodes, NEW r \in Nodes, <<s, r>> \in Ends
      PROVE  Delivery(s, r)
  <2>1. /\ outbox[s] = <<>> /\ messages[s] = <<>> /\ messages[r] = <<>>
        /\ sending[s] = NoSend /\ Pulled(r) = <<>>
        /\ staleSends = {} /\ abandoned = {} /\ refused = {}
    BY <1>2 DEF MailboxInit, Pulled
  <2>2. \A text : /\ ~Queued(s, text) /\ ~OnItsWay(r, text) /\ ~InSend(s, text)
                  /\ ~Posted(s, text) /\ ~Stale(text)
                  /\ ~Shows(s, Out(text)) /\ ~Shows(r, In(text))
    BY <2>1 DEF Queued, OnItsWay, InSend, Posted, SendIs, Stale, Shows, TextsOf
  <2>3. \A text : Copies(r, text) = 0
    BY <1>1, <2>2, CopiesType DEF ConversationInv, MessagesInv
  <2>4. Known(s, r) /\ SendTold(s, r) /\ StaleKept(s, r)
    BY <2>1, <2>2 DEF Known, SendTold, StaleKept, TextsOf
  <2>5. \A text : TextOK(s, r, text)
    BY <2>1, <2>2, <2>3 DEF TextOK, SendAlone, RefusalKept, Places, One
  <2>6. \A text, next : PairOK(s, r, text, next)
    BY <2>2 DEF PairOK
  <2>7. Rising(outbox[s]) /\ Rising(Pulled(r)) /\ Arranged(messages[r])
    BY <2>1 DEF Rising, Arranged
  <2> QED
    BY <2>4, <2>5, <2>6, <2>7 DEF Delivery
<1> QED
  BY <1>1, <1>3, <1>4 DEF DeliveryInv

LEMMA DeliveryNext == DeliveryInv /\ [MailboxNext]_mbVars => DeliveryInv'
<1> SUFFICES ASSUME DeliveryInv, [MailboxNext]_mbVars
             PROVE  DeliveryInv'
  OBVIOUS
<1>1. ConversationInv'
  BY ConversationStep DEF DeliveryInv
<1>2. CASE MailboxNext
  BY <1>1, <1>2, DeliveryStep, OnlyEndsSendStep DEF DeliveryInv, Ends, Host
<1>3. CASE UNCHANGED mbVars
  <2>1. /\ UNCHANGED <<epoch, session, outbox, messages, sent, sending, poll>>
        /\ UNCHANGED <<staleSends, abandoned, refused>>
    BY <1>3 DEF mbVars, sharedVars, mailboxVars
  <2>2. OnlyEndsSend'
    BY <2>1 DEF DeliveryInv, OnlyEndsSend
  <2>3. ASSUME NEW s \in Nodes, NEW r \in Nodes, <<s, r>> \in Ends
        PROVE  Delivery(s, r)'
    <3>1. Elsewhere(s, r) /\ Pulled(r)' = Pulled(r)
      BY <2>1 DEF Elsewhere, Pulled, PollIs
    <3> QED
      BY <2>1, <2>3, <3>1, SameWindows
  <2> QED
    BY <1>1, <2>2, <2>3 DEF DeliveryInv, Ends, Host
<1> QED
  BY <1>2, <1>3

LEMMA DeliveryCorrect == ConversationSpec => []DeliveryInv
BY DeliveryInitInv, DeliveryNext, PTL DEF ConversationSpec

LEMMA SubmittedOwn ==
  ASSUME DeliveryInv, NEW ends \in Ends
  PROVE  /\ <<ends[1], ends[2]>> \in Ends
         /\ SubmittedBy(ends[1]) = Own(ends[1], ends[2])
<1>1. PICK s, r : ends = <<s, r>> /\ <<s, r>> \in Ends
  BY DEF Ends
<1>2. session[s].peer_public_key = PublicKey(r)
  BY <1>1, TwoEnds DEF DeliveryInv, ConversationInv
<1>3. SubmittedBy(s) = {[by |-> s, no |-> k, for |-> PublicKey(r)] : k \in 1 .. sent[s]}
  BY <1>2 DEF SubmittedBy
<1>4. SubmittedBy(s) = Own(s, r)
  <2>1. ASSUME NEW text
        PROVE  text \in SubmittedBy(s) <=> text \in Own(s, r)
    <3>1. text \in Own(s, r) <=>
            \E k \in 1 .. sent[s] : text = [by |-> s, no |-> k, for |-> PublicKey(r)]
      BY DEF Own
    <3> QED
      BY <1>3, <3>1
  <2> QED
    BY <2>1
<1> QED
  BY <1>1, <1>4

\* However posts, timeouts, late requests and polls interleave, a text is at one
\* place: in the peer's window, in its POST, in the outbox, in the answer to a pull
\* or back with the user as refused.  It is at two only when its POST timed out, so
\* that send_text queued it although the peer may have taken it or may still take it.
THEOREM OneCopy == ConversationSpec => []OneCopyUnlessAbandoned
<1>1. DeliveryInv => OneCopyUnlessAbandoned
  <2> SUFFICES ASSUME DeliveryInv, NEW ends \in Ends, NEW text \in SubmittedBy(ends[1])
               PROVE  Places(ends[1], ends[2], text) <= 1 + One(text \in abandoned)
    BY DEF OneCopyUnlessAbandoned, Places
  <2>1. <<ends[1], ends[2]>> \in Ends /\ text \in Own(ends[1], ends[2])
    BY SubmittedOwn
  <2> QED
    BY <2>1, DeliveryParts DEF Delivery, TextOK
<1> QED
  BY <1>1, DeliveryCorrect, PTL

\* "outbox full" is the truth: such a text is neither queued nor shown, unless its
\* POST timed out before.
THEOREM RefusalIsTrue == ConversationSpec => []RefusedIsNotSent
<1>1. DeliveryInv => RefusedIsNotSent
  <2> SUFFICES ASSUME DeliveryInv, NEW ends \in Ends,
                      NEW text \in refused \cap SubmittedBy(ends[1])
               PROVE  /\ ~Shows(ends[1], Out(text))
                      /\ ~Queued(ends[1], text)
                      /\ text \notin abandoned => ~Shows(ends[2], In(text))
    BY DEF RefusedIsNotSent
  <2>1. <<ends[1], ends[2]>> \in Ends /\ text \in Own(ends[1], ends[2])
    BY SubmittedOwn
  <2> QED
    BY <2>1, DeliveryParts DEF Delivery, TextOK, RefusalKept
<1> QED
  BY <1>1, DeliveryCorrect, PTL

\* What is not given up on the way arrives in the order it was submitted.
THEOREM InOrderUnlessAbandoned == ConversationSpec => []OrderUnlessAbandoned
<1>1. DeliveryInv => OrderUnlessAbandoned
  <2> SUFFICES ASSUME DeliveryInv, NEW ends \in Ends
               PROVE  Arranged(messages[ends[2]])
    BY DEF OrderUnlessAbandoned, Arranged
  <2>1. <<ends[1], ends[2]>> \in Ends
    BY SubmittedOwn
  <2> QED
    BY <2>1, DeliveryParts DEF Delivery
<1> QED
  BY <1>1, DeliveryCorrect, PTL

-----------------------------------------------------------------------------
(* The numbers of the texts a window has received, in order.               *)

Incoming == {message \in ChatMessage : message.direction = "in"}

\* As Arrivals and Received in Conversation, of any window.
Listed(shown) ==
  CHOOSE list \in Listings({i \in DOMAIN shown : shown[i].direction = "in"}) : TRUE

\* Their numbers, and those of the texts in wires.
Numbers(shown) == [i \in DOMAIN Listed(shown) |-> shown[Listed(shown)[i]].body.no]

Nos(wires) == [i \in DOMAIN wires |-> wires[i].payload.plain.no]

LEMMA FunctionIsSeq ==
  ASSUME NEW S, NEW n \in Nat, NEW s \in [1 .. n -> S]
  PROVE  s \in Seq(S) /\ Len(s) = n
OBVIOUS

\* There is a list of what shown has received.
Listable(shown) == \E list : list \in Listings(Positions(shown, Incoming))

LEMMA ListedIs ==
  ASSUME NEW shown \in Seq(ChatMessage),
         NEW list, list \in Listings(Positions(shown, Incoming))
  PROVE  Listed(shown) = list
<1> DEFINE P == {i \in DOMAIN shown : shown[i].direction = "in"}
<1>1. P = Positions(shown, Incoming)
  <2>1. \A i \in DOMAIN shown : shown[i] \in ChatMessage
    OBVIOUS
  <2> QED
    BY <2>1 DEF Positions, Incoming
<1>2. P \in SUBSET Nat /\ IsFiniteSet(P)
  BY <1>1, PositionsFinite
<1>3. Listed(shown) = CHOOSE l \in Listings(P) : TRUE
  BY DEF Listed
<1> HIDE DEF P
<1>4. list \in Listings(P)
  BY <1>1
<1>5. Listed(shown) \in Listings(P)
  BY <1>3, <1>4
<1> QED
  BY <1>2, <1>4, <1>5, ListingUnique

\* The list of two windows, one after the other.
LEMMA ListedConcatenated ==
  ASSUME NEW old \in Seq(ChatMessage), NEW new \in Seq(ChatMessage),
         NEW f \in Listings(Positions(old, Incoming)),
         NEW g \in Listings(Positions(new, Incoming)),
         NEW h, h = [k \in 1 .. Cardinality(Positions(old, Incoming))
                               + Cardinality(Positions(new, Incoming)) |->
                       IF k <= Cardinality(Positions(old, Incoming)) THEN f[k]
                       ELSE Len(old) + g[k - Cardinality(Positions(old, Incoming))]]
  PROVE  h \in Listings(Positions(old \o new, Incoming))
<1> DEFINE S == Positions(old, Incoming)
           T == Positions(new, Incoming)
           U == Positions(old \o new, Incoming)
           a == Cardinality(S)
           b == Cardinality(T)
<1>1. /\ Cardinality(U) = a + b
      /\ \A i \in S : i \in U
      /\ \A i \in T : Len(old) + i \in U
  BY PositionsConcatenated
<1>2. /\ a \in Nat /\ b \in Nat
      /\ S \in SUBSET (1 .. Len(old)) /\ T \in SUBSET (1 .. Len(new))
  BY PositionsFinite, FS_CardinalityType
<1>3. /\ \A k \in 1 .. a : f[k] \in S
      /\ \A i, j \in 1 .. a : i < j => f[i] < f[j]
      /\ \A k \in 1 .. b : g[k] \in T
      /\ \A i, j \in 1 .. b : i < j => g[i] < g[j]
  BY DEF Listings
<1>4. Len(old) \in Nat
  OBVIOUS
<1>5. /\ DOMAIN h = 1 .. a + b
      /\ h = [k \in 1 .. a + b |-> h[k]]
      /\ \A k \in 1 .. a + b : h[k] = IF k <= a THEN f[k] ELSE Len(old) + g[k - a]
  OBVIOUS
<1> HIDE DEF S, T, U, a, b
<1>6. ASSUME NEW k \in 1 .. a + b
      PROVE  \/ k \in 1 .. a /\ h[k] = f[k] /\ f[k] \in S /\ k <= a
             \/ k - a \in 1 .. b /\ h[k] = Len(old) + g[k - a] /\ g[k - a] \in T /\ k > a
  <2>1. a \in Nat /\ b \in Nat /\ k \in Nat
    BY <1>2
  <2>2. CASE k <= a
    <3>1. k \in 1 .. a
      BY <2>1, <2>2
    <3> QED
      BY <1>3, <1>5, <2>2, <3>1
  <2>3. CASE ~(k <= a)
    <3>1. k - a \in 1 .. b /\ k > a
      BY <2>1, <2>3
    <3> QED
      BY <1>3, <1>5, <2>3, <3>1
  <2> QED
    BY <2>2, <2>3
<1>7. \A k \in 1 .. a + b : h[k] \in U
  BY <1>1, <1>6
<1>8. ASSUME NEW i \in 1 .. a + b, NEW j \in 1 .. a + b, i < j
      PROVE  h[i] < h[j]
  <2>1. /\ i \in Nat /\ j \in Nat /\ a \in Nat
        /\ \A x \in S : x \in Nat /\ x <= Len(old)
        /\ \A x \in T : x \in Nat /\ x >= 1
    BY <1>2
  <2>2. CASE j <= a
    <3>1. ~(i > a) /\ ~(j > a)
      BY <1>8, <2>1, <2>2
    <3>2. i \in 1 .. a /\ h[i] = f[i] /\ j \in 1 .. a /\ h[j] = f[j]
      BY <1>6, <3>1
    <3> QED
      BY <1>3, <1>8, <3>2
  <2>3. CASE i <= a /\ j > a
    <3>1. ~(i > a) /\ ~(j <= a)
      BY <2>1, <2>3
    <3>2. h[i] = f[i] /\ f[i] \in S
      BY <1>6, <3>1
    <3>3. h[j] = Len(old) + g[j - a] /\ g[j - a] \in T
      BY <1>6, <3>1
    <3>4. /\ f[i] \in Nat /\ f[i] <= Len(old)
          /\ g[j - a] \in Nat /\ g[j - a] >= 1
      BY <2>1, <3>2, <3>3
    <3> QED
      BY <1>4, <3>2, <3>3, <3>4
  <2>4. CASE i > a
    <3>1. ~(i <= a) /\ ~(j <= a) /\ i - a < j - a
      BY <1>8, <2>1, <2>4
    <3>2. /\ i - a \in 1 .. b /\ h[i] = Len(old) + g[i - a] /\ g[i - a] \in T
          /\ j - a \in 1 .. b /\ h[j] = Len(old) + g[j - a] /\ g[j - a] \in T
      BY <1>6, <3>1
    <3>3. g[i - a] < g[j - a]
      BY <1>3, <3>1, <3>2
    <3>4. g[i - a] \in Nat /\ g[j - a] \in Nat
      BY <2>1, <3>2
    <3> QED
      BY <1>4, <3>2, <3>3, <3>4
  <2> QED
    BY <2>1, <2>2, <2>3, <2>4
<1>9. h \in [1 .. Cardinality(U) -> U]
  BY <1>1, <1>5, <1>7
<1> QED
  BY <1>1, <1>8, <1>9 DEF Listings, U

\* What a window receives on top comes at the end.
LEMMA NumbersConcatenated ==
  ASSUME NEW old \in Seq(ChatMessage), NEW new \in Seq(ChatMessage), Listable(old),
         NEW g \in Listings(Positions(new, Incoming)),
         NEW more \in Seq(Nat), DOMAIN more = DOMAIN g,
         \A k \in DOMAIN g : more[k] = new[g[k]].body.no
  PROVE  /\ Listable(old \o new)
         /\ Numbers(old) \in Seq(Nat)
         /\ Numbers(old \o new) = Numbers(old) \o more
<1> DEFINE S == Positions(old, Incoming)
           T == Positions(new, Incoming)
           a == Cardinality(S)
           b == Cardinality(T)
           both == old \o new
<1>1. PICK f \in Listings(S) : Listed(old) = f
  BY ListedIs DEF Listable
<1>2. PICK h : h = [k \in 1 .. a + b |-> IF k <= a THEN f[k] ELSE Len(old) + g[k - a]]
  OBVIOUS
<1>3. /\ a \in Nat /\ b \in Nat /\ Len(old) \in Nat /\ Len(new) \in Nat
      /\ S \in SUBSET (1 .. Len(old)) /\ T \in SUBSET (1 .. Len(new))
  BY PositionsFinite, FS_CardinalityType
<1>4. h \in Listings(Positions(both, Incoming))
  BY <1>2, ListedConcatenated
<1>5. /\ DOMAIN f = 1 .. a /\ \A k \in 1 .. a : f[k] \in S
      /\ DOMAIN g = 1 .. b /\ \A k \in 1 .. b : g[k] \in T
  BY DEF Listings
<1>6. /\ both \in Seq(ChatMessage)
      /\ \A i \in 1 .. Len(old) + Len(new) :
           both[i] = IF i <= Len(old) THEN old[i] ELSE new[i - Len(old)]
  BY ConcatProperties
<1>7. Listed(both) = h
  BY <1>4, <1>6, ListedIs
<1>8. /\ \A i \in 1 .. Len(old) : old[i].body.no \in Nat
      /\ \A i \in 1 .. Len(new) : new[i].body.no \in Nat
  <2>1. /\ \A i \in 1 .. Len(old) : old[i] \in ChatMessage
        /\ \A i \in 1 .. Len(new) : new[i] \in ChatMessage
    OBVIOUS
  <2> QED
    BY <2>1 DEF ChatMessage, Texts
<1> HIDE DEF both, S, T, a, b
<1>9. /\ Numbers(old) = [k \in 1 .. a |-> old[f[k]].body.no]
      /\ Numbers(both) = [k \in 1 .. a + b |-> both[h[k]].body.no]
      /\ \A k \in 1 .. b : more[k] = new[g[k]].body.no
  BY <1>1, <1>2, <1>5, <1>7 DEF Numbers
<1>10. Numbers(old) \in Seq(Nat) /\ Len(Numbers(old)) = a /\ Len(more) = b
  <2>1. \A k \in 1 .. a : old[f[k]].body.no \in Nat
    BY <1>3, <1>5, <1>8
  <2>2. Numbers(old) \in [1 .. a -> Nat]
    BY <1>9, <2>1, Zenon
  <2>3. more \in [1 .. b -> Nat]
    BY <1>5, LenProperties
  <2> QED
    BY <1>3, <2>2, <2>3, FunctionIsSeq
<1>11. ASSUME NEW k \in 1 .. a + b
       PROVE  both[h[k]].body.no = (Numbers(old) \o more)[k]
  <2>1. (Numbers(old) \o more)[k] = IF k <= a THEN Numbers(old)[k] ELSE more[k - a]
    BY <1>3, <1>10, ConcatProperties
  <2>2. CASE k <= a
    <3>1. k \in 1 .. a
      BY <1>3, <2>2
    <3>2. h[k] = f[k] /\ f[k] \in 1 .. Len(old)
      BY <1>2, <1>3, <1>5, <2>2, <3>1
    <3>3. both[h[k]] = old[f[k]]
      <4>1. PICK x \in 1 .. Len(old) : x = f[k]
        BY <3>2
      <4>2. x \in 1 .. Len(old) + Len(new) /\ x <= Len(old)
        BY <1>3
      <4> QED
        BY <1>6, <3>2, <4>1, <4>2
    <3>4. Numbers(old)[k] = old[f[k]].body.no
      BY <1>9, <3>1
    <3> QED
      BY <2>1, <2>2, <3>3, <3>4
  <2>3. CASE ~(k <= a)
    <3>0. k - a \in 1 .. b
      BY <1>3, <2>3
    <3>1. h[k] = Len(old) + g[k - a] /\ g[k - a] \in 1 .. Len(new)
      BY <1>2, <1>3, <1>5, <2>3, <3>0
    <3>2. both[h[k]] = new[g[k - a]]
      <4>1. PICK x \in 1 .. Len(new) : x = g[k - a]
        BY <3>1
      <4>2. /\ Len(old) + x \in 1 .. Len(old) + Len(new)
            /\ ~(Len(old) + x <= Len(old)) /\ Len(old) + x - Len(old) = x
        BY <1>3
      <4> QED
        BY <1>6, <3>1, <4>1, <4>2
    <3>3. more[k - a] = new[g[k - a]].body.no
      BY <1>9, <3>0
    <3> QED
      BY <2>1, <2>3, <3>2, <3>3
  <2> QED
    BY <2>2, <2>3
<1>12. Numbers(both) = Numbers(old) \o more
  <2>1. /\ Numbers(old) \o more \in Seq(Nat)
        /\ Len(Numbers(old) \o more) = a + b
    BY <1>10, ConcatProperties
  <2>2. /\ DOMAIN (Numbers(old) \o more) = 1 .. a + b
        /\ \A k \in 1 .. a + b : (Numbers(old) \o more)[k] \in Nat
    BY <1>3, <2>1
  <2>3. \A k \in 1 .. a + b : both[h[k]].body.no \in Nat
    BY <1>11, <2>2
  <2>4. Numbers(both) \in Seq(Nat) /\ Len(Numbers(both)) = a + b
    BY <1>3, <1>9, <2>3
  <2>5. \A k \in 1 .. a + b : Numbers(both)[k] = (Numbers(old) \o more)[k]
    BY <1>9, <1>11
  <2> QED
    BY <2>1, <2>4, <2>5, SeqEqual
<1> QED
  BY <1>4, <1>10, <1>12 DEF Listable, both

LEMMA NothingListed ==
  /\ <<>> \in Listings(Positions(<<>>, Incoming))
  /\ Positions(<<>>, Incoming) = {} /\ Listed(<<>>) = <<>>
<1>1. Positions(<<>>, Incoming) = {}
  BY DEF Positions
<1>2. Cardinality({}) = 0
  BY FS_EmptySet
<1>3. \A list \in Listings({}) : list = <<>>
  BY <1>2 DEF Listings
<1>4. <<>> \in Listings({})
  BY <1>2 DEF Listings
<1>5. {i \in DOMAIN <<>> : <<>>[i].direction = "in"} = {}
  OBVIOUS
<1>6. Listed(<<>>) = CHOOSE list \in Listings({}) : TRUE
  BY <1>5 DEF Listed
<1> QED
  BY <1>1, <1>3, <1>4, <1>6

\* The window's own texts are not among them.
LEMMA OutNotCounted ==
  ASSUME NEW old \in Seq(ChatMessage), Listable(old), NEW text \in Texts
  PROVE  /\ Listable(Append(old, Out(text)))
         /\ Numbers(Append(old, Out(text))) = Numbers(old)
<1> DEFINE new == <<Out(text)>>
<1>1. Out(text) \in ChatMessage /\ Out(text) \notin Incoming
  BY DEF Out, ChatMessage, Incoming
<1>2. new \in Seq(ChatMessage) /\ Append(old, Out(text)) = old \o new
  BY <1>1, AppendIsConcat
<1>3. Positions(new, Incoming) = {}
  BY <1>1 DEF Positions
<1>4. <<>> \in Listings(Positions(new, Incoming))
  <2>1. Cardinality(Positions(new, Incoming)) = 0
    BY <1>3, FS_EmptySet
  <2> QED
    BY <1>3, <2>1 DEF Listings
<1> HIDE DEF new
<1>5. <<>> \in Seq(Nat) /\ DOMAIN <<>> = {}
  OBVIOUS
<1>6. /\ Listable(old \o new)
      /\ Numbers(old) \in Seq(Nat)
      /\ Numbers(old \o new) = Numbers(old) \o <<>>
  BY <1>2, <1>4, <1>5, NumbersConcatenated
<1> QED
  BY <1>2, <1>6, ConcatEmptySeq

LEMMA NosType ==
  ASSUME NEW wires \in Seq(SealedWires)
  PROVE  /\ Nos(wires) \in Seq(Nat) /\ Len(Nos(wires)) = Len(wires)
         /\ \A i \in 1 .. Len(wires) : Nos(wires)[i] = wires[i].payload.plain.no
<1>1. Len(wires) \in Nat /\ DOMAIN wires = 1 .. Len(wires)
  OBVIOUS
<1>2. \A i \in 1 .. Len(wires) : wires[i].payload.plain.no \in Nat
  <2>1. \A i \in 1 .. Len(wires) : wires[i] \in SealedWires
    OBVIOUS
  <2> QED
    BY <2>1 DEF SealedWires, Wire, Texts
<1>3. Nos(wires) \in [1 .. Len(wires) -> Nat]
  BY <1>1, <1>2, Zenon DEF Nos
<1> QED
  BY <1>1, <1>3, FunctionIsSeq DEF Nos

LEMMA NosConcatenated ==
  ASSUME NEW first \in Seq(SealedWires), NEW second \in Seq(SealedWires)
  PROVE  Nos(first \o second) = Nos(first) \o Nos(second)
<1> DEFINE both == first \o second
           nos == Nos(first) \o Nos(second)
<1>1. /\ both \in Seq(SealedWires)
      /\ Len(both) = Len(first) + Len(second)
      /\ \A i \in 1 .. Len(first) + Len(second) :
           both[i] = IF i <= Len(first) THEN first[i] ELSE second[i - Len(first)]
  BY ConcatProperties
<1>2. /\ Nos(first) \in Seq(Nat) /\ Len(Nos(first)) = Len(first)
      /\ \A i \in 1 .. Len(first) : Nos(first)[i] = first[i].payload.plain.no
      /\ Nos(second) \in Seq(Nat) /\ Len(Nos(second)) = Len(second)
      /\ \A i \in 1 .. Len(second) : Nos(second)[i] = second[i].payload.plain.no
  BY NosType
<1>3. /\ nos \in Seq(Nat)
      /\ Len(nos) = Len(first) + Len(second)
      /\ \A i \in 1 .. Len(first) + Len(second) :
           nos[i] = IF i <= Len(first) THEN Nos(first)[i] ELSE Nos(second)[i - Len(first)]
  BY <1>2, ConcatProperties
<1> HIDE DEF both, nos
<1>4. /\ Nos(both) \in Seq(Nat) /\ Len(Nos(both)) = Len(both)
      /\ \A i \in 1 .. Len(both) : Nos(both)[i] = both[i].payload.plain.no
  BY <1>1, NosType
<1>5. ASSUME NEW i \in 1 .. Len(first) + Len(second)
      PROVE  Nos(both)[i] = nos[i]
  <2>1. Len(first) \in Nat /\ Len(second) \in Nat /\ i \in Nat
    OBVIOUS
  <2>2. CASE i <= Len(first)
    <3>1. i \in 1 .. Len(first)
      BY <2>1, <2>2
    <3> QED
      BY <1>1, <1>2, <1>3, <1>4, <2>2, <3>1
  <2>3. CASE ~(i <= Len(first))
    <3>1. i - Len(first) \in 1 .. Len(second)
      BY <2>1, <2>3
    <3> QED
      BY <1>1, <1>2, <1>3, <1>4, <2>3, <3>1
  <2> QED
    BY <2>2, <2>3
<1>6. Nos(both) = nos
  BY <1>1, <1>3, <1>4, <1>5, SeqEqual
<1> QED
  BY <1>6 DEF both, nos

LEMMA NosAppended ==
  ASSUME NEW wires \in Seq(SealedWires), NEW wire \in SealedWires
  PROVE  Nos(Append(wires, wire)) = Append(Nos(wires), wire.payload.plain.no)
<1>1. <<wire>> \in Seq(SealedWires) /\ Append(wires, wire) = wires \o <<wire>>
  BY AppendIsConcat
<1>2. Nos(<<wire>>) \in Seq(Nat) /\ Nos(<<wire>>) = <<wire.payload.plain.no>>
  <2>1. /\ Nos(<<wire>>) \in Seq(Nat) /\ Len(Nos(<<wire>>)) = 1
        /\ Nos(<<wire>>)[1] = wire.payload.plain.no
    <3>1. Len(<<wire>>) = 1 /\ <<wire>>[1] = wire /\ 1 \in 1 .. 1
      OBVIOUS
    <3> QED
      BY <1>1, <3>1, NosType
  <2> QED
    BY <2>1
<1>3. Nos(wires) \in Seq(Nat) /\ wire.payload.plain.no \in Nat
  BY NosType DEF SealedWires, Wire, Texts
<1>4. Append(Nos(wires), wire.payload.plain.no) = Nos(wires) \o <<wire.payload.plain.no>>
  BY <1>3, AppendIsConcat
<1> QED
  BY <1>1, <1>2, <1>4, NosConcatenated

\* An answer of which nothing is skipped.
LEMMA AnswerCounted ==
  ASSUME NEW old \in Seq(ChatMessage), Listable(old), NEW wires \in Seq(SealedWires),
         NEW new, new = [i \in DOMAIN wires |-> In(wires[i].payload.plain)]
  PROVE  /\ Listable(old \o new)
         /\ Numbers(old \o new) = Numbers(old) \o Nos(wires)
<1> DEFINE n == Len(wires)
           all == [i \in 1 .. n |-> i]
           P == Positions(new, Incoming)
<1>1. n \in Nat /\ DOMAIN wires = 1 .. n
  OBVIOUS
<1>2. \A i \in 1 .. n : /\ wires[i].payload.plain \in Texts
                        /\ new[i] = In(wires[i].payload.plain)
                        /\ new[i] \in ChatMessage
                        /\ new[i].direction = "in"
                        /\ new[i].body.no = wires[i].payload.plain.no
  <2>1. \A i \in 1 .. n : wires[i] \in SealedWires
    OBVIOUS
  <2>2. \A i \in 1 .. n : wires[i].payload.plain \in Texts
    BY <2>1 DEF SealedWires, Wire
  <2> QED
    BY <2>2 DEF In, ChatMessage
<1> HIDE DEF n
<1>3. new \in Seq(ChatMessage) /\ Len(new) = n /\ DOMAIN new = 1 .. n
  <2>1. new \in [1 .. n -> ChatMessage]
    BY <1>1, <1>2
  <2> QED
    BY <1>1, <2>1, FunctionIsSeq
<1>4. P = 1 .. n
  BY <1>2, <1>3 DEF Positions, Incoming
<1>5. Cardinality(P) = n
  <2>1. Cardinality(1 .. n) = n
    BY <1>1, FS_Interval
  <2> QED
    BY <1>4, <2>1
<1> HIDE DEF P
<1>6. all \in Listings(P)
  BY <1>1, <1>4, <1>5 DEF Listings
<1>7. DOMAIN all = 1 .. n /\ \A k \in 1 .. n : all[k] = k
  OBVIOUS
<1> HIDE DEF all
<1>8. /\ Nos(wires) \in Seq(Nat) /\ DOMAIN Nos(wires) = 1 .. n
      /\ \A k \in 1 .. n : Nos(wires)[k] = wires[k].payload.plain.no
  BY <1>1, NosType DEF Nos, n
<1>9. /\ DOMAIN Nos(wires) = DOMAIN all
      /\ \A k \in DOMAIN all : Nos(wires)[k] = new[all[k]].body.no
  BY <1>2, <1>7, <1>8
<1>10. all \in Listings(Positions(new, Incoming))
  BY <1>6 DEF P
<1> HIDE DEF n
<1> QED
  BY <1>3, <1>8, <1>9, <1>10, NumbersConcatenated

-----------------------------------------------------------------------------
(* What a step does to the texts for a client that cannot be dialled.      *)

\* send_text at the host, which always takes the mailbox.
HostSubmits ==
  /\ sent'[Host] = sent[Host] + 1
  /\ Pulled(Client)' = Pulled(Client)
  /\ messages'[Client] = messages[Client]
  /\ \/ OutboxFull(Host) /\ outbox'[Host] = outbox[Host]
     \/ /\ ~OutboxFull(Host)
        /\ \E wire \in SealedWires : /\ wire.payload.plain.no = sent[Host] + 1
                                     /\ outbox'[Host] = Append(outbox[Host], wire)

\* A text of the client in its own window.
ClientShowsOwn ==
  /\ sent'[Host] = sent[Host]
  /\ Pulled(Client)' = Pulled(Client)
  /\ outbox'[Host] = outbox[Host]
  /\ \E text \in Texts : messages'[Client] = Append(messages[Client], Out(text))

\* poll_once at the client, with the answer it has read.
ClientShowsAnswer ==
  /\ sent'[Host] = sent[Host]
  /\ Pulled(Client)' = <<>>
  /\ outbox'[Host] = outbox[Host]
  /\ \E new : /\ new = [i \in DOMAIN Pulled(Client) |-> In(Pulled(Client)[i].payload.plain)]
              /\ messages'[Client] = messages[Client] \o new

\* pull_handler at the host, for a client that waits.
HostAnswers ==
  /\ sent'[Host] = sent[Host]
  /\ Pulled(Client) = <<>>
  /\ Pulled(Client)' = outbox[Host]
  /\ outbox'[Host] = <<>>
  /\ messages'[Client] = messages[Client]

\* The client's request ends without the answer,
AnswerLost ==
  /\ sent'[Host] = sent[Host]
  /\ Pulled(Client)' = <<>>
  /\ outbox'[Host] = outbox[Host]
  /\ messages'[Client] = messages[Client]

\* or the host answers one the client has given up.
OutboxLost ==
  /\ sent'[Host] = sent[Host]
  /\ Pulled(Client)' = Pulled(Client)
  /\ outbox'[Host] = <<>>
  /\ messages'[Client] = messages[Client]

NothingMoves ==
  /\ sent'[Host] = sent[Host]
  /\ Pulled(Client)' = Pulled(Client)
  /\ outbox'[Host] = outbox[Host]
  /\ messages'[Client] = messages[Client]

Moves ==
  \/ HostSubmits
  \/ ClientShowsOwn
  \/ ClientShowsAnswer
  \/ HostAnswers
  \/ AnswerLost
  \/ OutboxLost
  \/ NothingMoves

LEMMA HiddenFacts ==
  ASSUME DeliveryInv, ClientHidden
  PROVE  /\ <<Host, Client>> \in Ends /\ <<Client, Host>> \in Ends
         /\ Host \in Nodes /\ Client \in Nodes /\ Host # Client
         /\ session[Host].peer_url = NoUrl
         /\ sending[Host] = NoSend
         /\ \A stale \in staleSends : stale.wire.payload.plain.by = Client
         /\ MessagesInv /\ OutboxInv /\ WindowInv /\ SendInv /\ PollInv
         /\ SharedTypeOK /\ Fixed /\ PullsOwn
<1>1. <<Host, Client>> \in Ends /\ <<Client, Host>> \in Ends
  BY DEF Ends
<1>2. /\ Host \in Nodes /\ Client \in Nodes /\ Host # Client
      /\ MessagesInv /\ OutboxInv /\ WindowInv /\ SendInv /\ PollInv
      /\ SharedTypeOK /\ Fixed /\ PullsOwn /\ Delivery(Host, Client)
  BY <1>1, DeliveryParts
<1>3. session[Host].peer_url = NoUrl
  BY DEF ClientHidden
<1>4. sending[Host] = NoSend
  BY <1>1, <1>3, PostedText
<1>5. \A stale \in staleSends : stale.wire.payload.plain.by # Host
  BY <1>2, <1>3 DEF Delivery, StaleKept
<1>6. \A stale \in staleSends : stale.wire.payload.plain.by \in {Client, Host}
  BY DEF DeliveryInv, OnlyEndsSend
<1> QED
  BY <1>1, <1>2, <1>3, <1>4, <1>5, <1>6

\* A text that another node than the host queues or shows is its own.
LEMMA UndeliveredElsewhere ==
  ASSUME DeliveryInv, ClientHidden, NEW n \in Nodes, n # Host,
         NEW wire, wire.payload.plain \in Texts,
         Undelivered(n, wire), sent'[Host] = sent[Host], UNCHANGED poll
  PROVE  Moves
<1>1. Host \in Nodes /\ Client \in Nodes /\ WindowInv /\ OutboxInv
  BY HiddenFacts
<1>2. outbox'[Host] = outbox[Host] /\ Pulled(Client)' = Pulled(Client)
  BY <1>1 DEF Undelivered, OutboxInv, Pulled, PollIs
<1>3. \/ messages'[Client] = messages[Client]
      \/ messages'[Client] = Append(messages[Client], Out(wire.payload.plain))
  BY <1>1 DEF Undelivered, Show, WindowInv
<1> QED
  BY <1>2, <1>3 DEF Moves, NothingMoves, ClientShowsOwn

LEMMA HostSubmitsMove ==
  ASSUME DeliveryInv, ClientHidden, SendTextMailbox(Host)
  PROVE  HostSubmits
<1> DEFINE wire == WireMessage(Host, NextText(Host))
<1>1. /\ Host \in Nodes /\ Client \in Nodes /\ Host # Client
      /\ MessagesInv /\ OutboxInv /\ WindowInv /\ SendInv /\ SharedTypeOK
  BY HiddenFacts
<1>2. /\ MaySend(Host) /\ Connected(Host)
      /\ Undelivered(Host, wire)
      /\ sent' = [sent EXCEPT ![Host] = @ + 1]
      /\ UNCHANGED poll
  BY DEF SendTextMailbox, MaySend
<1>3. wire \in SealedWires /\ wire.payload.plain = NextText(Host)
  BY <1>1, <1>2, WireMessageSealed
<1>4. wire.payload.plain.no = sent[Host] + 1
  BY <1>3 DEF NextText
<1>5. sent'[Host] = sent[Host] + 1 /\ Pulled(Client)' = Pulled(Client)
  BY <1>1, <1>2 DEF SendInv, Pulled, PollIs
<1> HIDE DEF wire
<1>6. messages'[Client] = messages[Client]
  BY <1>1, <1>2 DEF Undelivered, Show, WindowInv
<1>7. \/ OutboxFull(Host) /\ outbox'[Host] = outbox[Host]
      \/ ~OutboxFull(Host) /\ outbox'[Host] = Append(outbox[Host], wire)
  BY <1>1, <1>2 DEF Undelivered, PushBack, OutboxInv
<1> QED
  BY <1>3, <1>4, <1>5, <1>6, <1>7 DEF HostSubmits

LEMMA SendMoves ==
  ASSUME DeliveryInv, ClientHidden, NEW n \in Nodes,
         \/ SendTextDirect(n)
         \/ SendTextMailbox(n)
         \/ SendTextReturns(n)
         \/ SendTextTimesOut(n)
  PROVE  Moves
<1>1. /\ Host \in Nodes /\ Client \in Nodes /\ Host # Client
      /\ session[Host].peer_url = NoUrl /\ sending[Host] = NoSend
      /\ MessagesInv /\ OutboxInv /\ WindowInv /\ SendInv /\ SharedTypeOK
  BY HiddenFacts
<1>2. UNCHANGED poll
  BY DEF SendTextDirect, SendTextMailbox, SendTextReturns, SendTextTimesOut
<1>3. CASE SendTextDirect(n)
  <2>1. n # Host
    BY <1>1, <1>3 DEF SendTextDirect
  <2>2. /\ sent' = [sent EXCEPT ![n] = @ + 1]
        /\ UNCHANGED <<outbox, messages>>
    BY <1>3 DEF SendTextDirect
  <2>3. sent'[Host] = sent[Host]
    BY <1>1, <2>1, <2>2 DEF SendInv
  <2> QED
    BY <1>2, <2>2, <2>3 DEF Moves, NothingMoves, Pulled, PollIs
<1>4. CASE SendTextMailbox(n) /\ n # Host
  <2>1. /\ MaySend(n) /\ Connected(n)
        /\ Undelivered(n, WireMessage(n, NextText(n)))
        /\ sent' = [sent EXCEPT ![n] = @ + 1]
    BY <1>4 DEF SendTextMailbox, MaySend
  <2>2. sent'[Host] = sent[Host]
    BY <1>1, <1>4, <2>1 DEF SendInv
  <2>3. WireMessage(n, NextText(n)).payload.plain \in Texts
    BY <1>1, <2>1, WireMessageSealed, NextTextType
  <2> QED
    BY <1>2, <1>4, <2>1, <2>2, <2>3, UndeliveredElsewhere
<1>5. CASE SendTextReturns(n) \/ SendTextTimesOut(n)
  <2> DEFINE wire == sending[n].wire
  <2>1. sending[n] # NoSend /\ UNCHANGED sent
    BY <1>5 DEF SendTextReturns, SendTextTimesOut, SendIs, SendTimesOut
  <2>2. n # Host /\ wire.payload.plain \in Texts
    BY <1>1, <2>1, SendFields
  <2>3. CASE Undelivered(n, wire)
    <3> HIDE DEF wire
    <3> QED
      BY <1>2, <2>1, <2>2, <2>3, UndeliveredElsewhere
  <2>4. CASE Show(n, Out(wire.payload.plain)) /\ UNCHANGED outbox
    <3>1. \/ messages'[Client] = messages[Client]
          \/ messages'[Client] = Append(messages[Client], Out(wire.payload.plain))
      BY <1>1, <2>4 DEF Show, WindowInv
    <3>2. Pulled(Client)' = Pulled(Client)
      BY <1>2 DEF Pulled, PollIs
    <3> QED
      BY <2>1, <2>2, <2>4, <3>1, <3>2 DEF Moves, NothingMoves, ClientShowsOwn
  <2> QED
    BY <1>5, <2>3, <2>4 DEF SendTextReturns, SendTextTimesOut
<1> QED
  BY <1>3, <1>4, <1>5, HostSubmitsMove DEF Moves

\* What a POST of the client brings is shown by the host.
LEMMA AnswerMoves ==
  ASSUME DeliveryInv, ClientHidden, (\E n \in Nodes : AnswerSend(n)) \/ AnswerStaleSend
  PROVE  Moves
<1>1. /\ Host \in Nodes /\ Client \in Nodes /\ Host # Client /\ <<Client, Host>> \in Ends
      /\ sending[Host] = NoSend /\ WindowInv /\ Fixed
      /\ \A stale \in staleSends : stale.wire.payload.plain.by = Client
  BY HiddenFacts
<1>2. UNCHANGED <<sent, outbox, poll>>
  BY DEF AnswerSend, AnswerStaleSend
<1>3. ASSUME NEW m, NEW wire, AcceptMessage(m, wire), Genuine(Host, wire), m \in Nodes
      PROVE  messages'[Client] = messages[Client]
  <2>1. CASE Genuine(m, wire)
    <3>1. m = Host
      BY <1>1, <1>3, <2>1, OpensOnce
    <3> QED
      BY <1>1, <1>3, <2>1, <3>1 DEF AcceptMessage, Show, WindowInv
  <2>2. CASE ~Genuine(m, wire)
    BY <1>3, <2>2 DEF AcceptMessage
  <2> QED
    BY <2>1, <2>2
<1>4. messages'[Client] = messages[Client]
  <2>1. ASSUME NEW n \in Nodes, AnswerSend(n)
        PROVE  messages'[Client] = messages[Client]
    <3>1. /\ sending[n] # NoSend
          /\ Serves[sending[n].url] \in Nodes
          /\ AcceptMessage(Serves[sending[n].url], sending[n].wire)
      BY <2>1 DEF AnswerSend, SendIs
    <3>2. n = Client
      BY <1>1, <3>1 DEF DeliveryInv, OnlyEndsSend
    <3>3. Genuine(Host, sending[n].wire)
      BY <1>1, <3>1, <3>2, PostedText
    <3> QED
      BY <1>3, <3>1, <3>3
  <2>2. CASE AnswerStaleSend
    <3>1. PICK stale \in staleSends : AcceptMessage(stale.to, stale.wire)
      BY <2>2 DEF AnswerStaleSend
    <3>2. Delivery(Client, Host) /\ SendInv
      BY <1>1, DeliveryParts
    <3>3. Genuine(Host, stale.wire) /\ stale.to \in Nodes
      BY <1>1, <3>2 DEF Delivery, StaleKept, SendInv
    <3> QED
      BY <1>3, <3>1, <3>3
  <2> QED
    BY <2>1, <2>2
<1> QED
  BY <1>2, <1>4 DEF Moves, NothingMoves, Pulled, PollIs

LEMMA PollMoves ==
  ASSUME DeliveryInv, ClientHidden, NEW n \in Nodes,
         PollStart(n) \/ PollFails(n) \/ PollTimesOut(n) \/ PollReceives(n)
  PROVE  Moves
<1>1. Host \in Nodes /\ Client \in Nodes /\ PollInv
  BY HiddenFacts
<1>2. UNCHANGED <<sent, outbox, messages>>
  BY DEF PollStart, PollFails, PollTimesOut, PollReceives
<1>3. Pulled(Client)' = Pulled(Client) \/ Pulled(Client)' = <<>>
  <2>1. CASE PollStart(n) \/ PollFails(n) \/ PollReceives(n)
    BY <1>1, <2>1, QuietPoll
  <2>2. CASE PollTimesOut(n)
    <3>1. poll'[Client] = IF n = Client THEN NoPoll ELSE poll[Client]
      BY <1>1, <2>2 DEF PollTimesOut, PollInv
    <3> QED
      BY <3>1 DEF Pulled, PollIs
  <2> QED
    BY <2>1, <2>2
<1> QED
  BY <1>2, <1>3 DEF Moves, NothingMoves, AnswerLost

LEMMA PollAppliesMoves ==
  ASSUME DeliveryInv, ClientHidden, NEW n \in Nodes, PollApplies(n)
  PROVE  Moves
<1>1. /\ Host \in Nodes /\ Client \in Nodes /\ <<Host, Client>> \in Ends
      /\ WindowInv /\ PollInv
  BY HiddenFacts
<1>2. /\ UNCHANGED <<sent, outbox>>
      /\ poll' = [poll EXCEPT ![n] = NoPoll]
      /\ poll[n] # NoPoll /\ poll[n].stage = "received"
  BY DEF PollApplies, PollIs
<1>3. PICK wires, list : /\ wires = poll[n].wires
                         /\ list \in Passing(n, wires)
                         /\ messages' = [messages EXCEPT ![n] = @ \o Accepted(wires, list)]
  BY DEF PollApplies
<1>4. CASE n # Client
  <2>1. poll'[Client] = poll[Client] /\ messages'[Client] = messages[Client]
    BY <1>1, <1>2, <1>3, <1>4 DEF PollInv, WindowInv
  <2> QED
    BY <1>2, <2>1 DEF Moves, NothingMoves, Pulled, PollIs
<1>5. CASE n = Client
  <2>1. wires \in Seq(SealedWires) /\ Pulled(Client) = wires /\ Pulled(Client)' = <<>>
    BY <1>1, <1>2, <1>3, <1>5, PollFields DEF Pulled, PollIs, PollInv
  <2>2. \A i \in DOMAIN wires : Genuine(Client, wires[i])
    <3>1. Flow(Host, Client)
      BY <1>1, DeliveryParts
    <3> QED
      BY <2>1, <3>1 DEF Flow, WiresOpen
  <2>3. PICK new : new = [i \in DOMAIN wires |-> In(wires[i].payload.plain)]
    OBVIOUS
  <2>4. Accepted(wires, list) = new
    BY <1>3, <1>5, <2>1, <2>2, <2>3, AcceptedAll
  <2>5. messages'[Client] = messages[Client] \o new
    BY <1>1, <1>3, <1>5, <2>4 DEF WindowInv
  <2>6. new = [i \in DOMAIN Pulled(Client) |-> In(Pulled(Client)[i].payload.plain)]
    BY <2>1, <2>3
  <2> QED
    BY <1>2, <2>1, <2>5, <2>6 DEF Moves, ClientShowsAnswer
<1> QED
  BY <1>4, <1>5

\* Only the client is answered with the host's outbox.
LEMMA AnswerPullMoves ==
  ASSUME DeliveryInv, ClientHidden, NEW n \in Nodes, AnswerPull(n)
  PROVE  Moves
<1>1. /\ Host \in Nodes /\ Client \in Nodes /\ Host # Client /\ <<Host, Client>> \in Ends
      /\ Fixed /\ PullsOwn /\ OutboxInv /\ PollInv
  BY HiddenFacts
<1>2. PICK m, req, wires :
        /\ m \in Nodes
        /\ req = poll[n].req /\ wires = PullResponse(m, req)
        /\ AcceptPull(m, req)
        /\ poll' = [poll EXCEPT ![n] = IF wires = <<>> THEN NoPoll
                                       ELSE [stage |-> "answered", wires |-> wires]]
  BY DEF AnswerPull
<1>3. PollIs(n, "posted") /\ UNCHANGED <<sent, messages>>
  BY DEF AnswerPull
<1>4. wires \in Seq(SealedWires)
  BY <1>1, <1>2, AcceptPullParts
<1>5. [stage |-> "answered", wires |-> wires] # NoPoll
  BY <1>4, AnswerType, MailboxNullAssumption DEF SealedPolls
<1>6. Pulled(n) = <<>> /\ Pulled(n)' = wires
  BY <1>1, <1>2, <1>3, <1>5 DEF Pulled, PollIs, PollInv
<1>7. n # Client => Pulled(Client)' = Pulled(Client)
  BY <1>1, <1>2 DEF Pulled, PollIs, PollInv
<1>8. CASE PullAllowed(m, req)
  <2>1. req.from_public_key = PublicKey(n)
    BY <1>1, <1>2, <1>3 DEF PullsOwn
  <2>2. Connected(m) /\ session[m].peer_public_key = PublicKey(n)
    BY <1>8, <2>1 DEF PullAllowed
  <2>3. outbox'[m] = <<>> /\ wires = outbox[m] /\ (m # Host => outbox'[Host] = outbox[Host])
    BY <1>1, <1>2, <1>8 DEF AcceptPull, Drained, PullResponse, OutboxInv
  <2>4. CASE m = Host
    <3>1. PublicKey(n) = PublicKey(Client)
      BY <1>1, <2>2, <2>4, TwoEnds
    <3>2. n = Client
      BY <3>1 DEF PublicKey
    <3> QED
      BY <1>3, <1>6, <2>3, <2>4, <3>2 DEF Moves, HostAnswers
  <2>5. CASE m # Host
    <3>1. m = Client
      BY <1>1, <1>2, <2>2, <2>5, TwoEnds
    <3>2. PublicKey(n) # PublicKey(Client)
      BY <1>1, <2>2, <3>1, TwoEnds
    <3> QED
      BY <1>3, <1>7, <2>3, <2>5, <3>2 DEF Moves, NothingMoves
  <2> QED
    BY <2>4, <2>5
<1>9. CASE ~PullAllowed(m, req)
  <2>1. outbox' = outbox /\ wires = <<>>
    BY <1>2, <1>9 DEF AcceptPull, PullResponse
  <2> QED
    BY <1>3, <1>6, <1>7, <2>1 DEF Moves, NothingMoves
<1> QED
  BY <1>8, <1>9

\* A pull its poller has given up, answered after all.
LEMMA StalePullMoves ==
  ASSUME DeliveryInv, ClientHidden, AnswerStalePull
  PROVE  Moves
<1>1. Host \in Nodes /\ OutboxInv /\ PollInv
  BY HiddenFacts
<1>2. PICK old \in stalePulls : AcceptPull(old.to, old.req)
  BY DEF AnswerStalePull
<1>3. outbox'[Host] = outbox[Host] \/ outbox'[Host] = <<>>
  BY <1>1, <1>2 DEF AcceptPull, Drained, OutboxInv, PollInv
<1>4. UNCHANGED <<sent, messages, poll>>
  BY DEF AnswerStalePull
<1> QED
  BY <1>3, <1>4 DEF Moves, NothingMoves, OutboxLost, Pulled, PollIs

\* Every step is one of these moves.
LEMMA StepMoves ==
  ASSUME DeliveryInv, ClientHidden, [MailboxNext]_mbVars
  PROVE  Moves
<1>1. ASSUME NEW n \in Nodes, Exchange(n)
      PROVE  Moves
  BY <1>1, SendMoves, AnswerMoves, PollMoves, PollAppliesMoves, AnswerPullMoves DEF Exchange
<1>2. CASE UNCHANGED mbVars
  BY <1>2 DEF mbVars, mailboxVars, Moves, NothingMoves, Pulled, PollIs
<1> QED
  BY <1>1, <1>2, AnswerMoves, StalePullMoves DEF MailboxNext

-----------------------------------------------------------------------------
(* The inductive invariant of the refinement.                              *)

\* The client has all it received in a list, and it has pulled no more than an
\* outbox holds.
QueueReady ==
  /\ DeliveryInv
  /\ ClientHidden => Listable(messages[Client]) /\ Len(Pulled(Client)) <= OutboxCapacity

LEMMA PulledType ==
  ASSUME PollInv, NEW n \in Nodes
  PROVE  Pulled(n) \in Seq(SealedWires)
<1>1. <<>> \in Seq(SealedWires)
  OBVIOUS
<1> QED
  BY <1>1, PollFields DEF Pulled, PollIs

LEMMA ReadyInit == ConversationInit => QueueReady
<1> SUFFICES ASSUME ConversationInit
             PROVE  QueueReady
  OBVIOUS
<1>1. DeliveryInv
  BY DeliveryInitInv
<1>2. messages[Client] = <<>> /\ Pulled(Client) = <<>>
  BY HostIsNode DEF ConversationInit, MailboxInit, Pulled
<1> QED
  BY <1>1, <1>2, NothingListed, MailboxAssumption DEF QueueReady, Listable

LEMMA ReadyNext == QueueReady /\ [MailboxNext]_mbVars => QueueReady'
<1> SUFFICES ASSUME QueueReady, [MailboxNext]_mbVars
             PROVE  QueueReady'
  OBVIOUS
<1>1. DeliveryInv'
  BY DeliveryNext DEF QueueReady
<1>2. ASSUME ClientHidden'
      PROVE  Listable(messages'[Client]) /\ Len(Pulled(Client)') <= OutboxCapacity
  <2>1. ClientHidden
    <3>1. session' = session
      BY FixedStep DEF QueueReady, DeliveryInv, ConversationInv, mbVars, sharedVars
    <3> QED
      BY <1>2, <3>1 DEF ClientHidden
  <2>2. /\ Listable(messages[Client]) /\ Len(Pulled(Client)) <= OutboxCapacity
        /\ Moves
    BY <2>1, StepMoves DEF QueueReady
  <2>3. /\ Host \in Nodes /\ Client \in Nodes
        /\ messages[Client] \in Seq(ChatMessage)
        /\ Pulled(Client) \in Seq(SealedWires)
        /\ Len(outbox[Host]) <= OutboxCapacity
    BY <2>1, HiddenFacts, PulledType DEF QueueReady, WindowInv, OutboxInv
  <2>4. Len(<<>>) <= OutboxCapacity
    BY MailboxAssumption
  <2>5. Listable(messages'[Client])
    <3>1. CASE ClientShowsOwn
      BY <2>2, <2>3, <3>1, OutNotCounted DEF ClientShowsOwn
    <3>2. CASE ClientShowsAnswer
      BY <2>2, <2>3, <3>2, AnswerCounted DEF ClientShowsAnswer
    <3> QED
      BY <2>2, <3>1, <3>2
      DEF Moves, HostSubmits, HostAnswers, AnswerLost, OutboxLost, NothingMoves
  <2>6. Len(Pulled(Client)') <= OutboxCapacity
    BY <2>2, <2>3, <2>4
    DEF Moves, HostSubmits, ClientShowsOwn, ClientShowsAnswer, HostAnswers, AnswerLost,
        OutboxLost, NothingMoves
  <2> QED
    BY <2>5, <2>6
<1>3. (ClientHidden => Listable(messages[Client]) /\ Len(Pulled(Client)) <= OutboxCapacity)'
  BY <1>2 DEF Listable
<1> QED
  BY <1>1, <1>3 DEF QueueReady

-----------------------------------------------------------------------------
(* The mapping, and the step of the queue for each move.                   *)

\* What Queue gives for the variables of LossyQueue.
Submitted == IF ClientHidden THEN sent[Host] ELSE 0
Waits == [i \in DOMAIN Waiting |-> Waiting[i].payload.plain.no]
HandedOver == [i \in DOMAIN Received |-> Received[i].body.no]

Taken(shown) == [i \in DOMAIN Listed(shown) |-> shown[Listed(shown)[i]]]

BodyNos(received) == [i \in DOMAIN received |-> received[i].body.no]

LEMMA TakenNumbers ==
  ASSUME NEW shown
  PROVE  BodyNos(Taken(shown)) = Numbers(shown)
BY DEF Numbers, BodyNos, Taken

Mapped ==
  IF ClientHidden
  THEN /\ Submitted = sent[Host]
       /\ Waits = Nos(Pulled(Client)) \o Nos(outbox[Host])
       /\ HandedOver = Numbers(messages[Client])
  ELSE Submitted = 0 /\ Waits = <<>> /\ HandedOver = <<>>

LEMMA ReadyMapped == QueueReady => Mapped
<1> SUFFICES ASSUME QueueReady
             PROVE  Mapped
  OBVIOUS
<1>1. CASE ClientHidden
  <2>1. Waiting = Pulled(Client) \o outbox[Host]
    BY <1>1 DEF Waiting
  <2>2. Waits = Nos(Waiting)
    BY DEF Waits, Nos
  <2>3. Pulled(Client) \in Seq(SealedWires) /\ outbox[Host] \in Seq(SealedWires)
    BY <1>1, HiddenFacts, PulledType DEF QueueReady, OutboxInv
  <2>4. Waits = Nos(Pulled(Client)) \o Nos(outbox[Host])
    BY <2>1, <2>2, <2>3, NosConcatenated
  <2>5. Received = Taken(messages[Client])
    BY <1>1 DEF Received, Arrivals, Listed, Taken
  <2>6. HandedOver = BodyNos(Received)
    BY DEF HandedOver, BodyNos
  <2>7. HandedOver = Numbers(messages[Client])
    BY <2>5, <2>6, TakenNumbers
  <2> QED
    BY <1>1, <2>4, <2>7 DEF Mapped, Submitted
<1>2. CASE ~ClientHidden
  <2>1. Waiting = <<>> /\ Received = <<>>
    BY <1>2 DEF Waiting, Received
  <2>2. [i \in DOMAIN <<>> |-> <<>>[i].payload.plain.no] = <<>>
    OBVIOUS
  <2>3. [i \in DOMAIN <<>> |-> <<>>[i].body.no] = <<>>
    OBVIOUS
  <2> QED
    BY <1>2, <2>1, <2>2, <2>3 DEF Mapped, Submitted, Waits, HandedOver
<1> QED
  BY <1>1, <1>2

\* The two parts of a queue, cut out of it.
LEMMA Halves ==
  ASSUME NEW p \in Seq(Nat), NEW o \in Seq(Nat), NEW q, q = p \o o
  PROVE  /\ q \in Seq(Nat) /\ Len(q) = Len(p) + Len(o)
         /\ SubSeq(q, 1, Len(p)) = p
         /\ SubSeq(q, Len(p) + 1, Len(q)) = o
         /\ SubSeq(q, 1, 0) = <<>>
         /\ SubSeq(q, Len(q) + 1, Len(q)) = <<>>
<1>1. q \in Seq(Nat) /\ Len(q) = Len(p) + Len(o)
  BY ConcatProperties
<1>2. Len(p) \in Nat /\ Len(o) \in Nat
  OBVIOUS
<1>3. (Len(p) = 0 => p = <<>>) /\ (Len(o) = 0 => o = <<>>)
  OBVIOUS
<1>4. SubSeq(q, 1, Len(p)) = p
  <2>1. CASE Len(p) = 0
    BY <1>3, <2>1, SubSeqEmpty
  <2>2. CASE Len(p) # 0
    <3>1. 1 \in 1 .. Len(p) /\ Len(p) \in 1 .. Len(p)
      BY <1>2, <2>2
    <3> QED
      BY <3>1, SubSeqOfConcat1, SubSeqFull
  <2> QED
    BY <2>1, <2>2
<1>5. SubSeq(q, Len(p) + 1, Len(q)) = o
  <2>1. CASE Len(o) = 0
    <3>1. Len(p) + 1 \in Int /\ Len(q) \in Int /\ Len(q) < Len(p) + 1
      BY <1>1, <1>2, <2>1
    <3> QED
      BY <1>3, <2>1, <3>1, SubSeqEmpty
  <2>2. CASE Len(o) # 0
    <3>1. /\ Len(p) + 1 \in Len(p) + 1 .. Len(p) + Len(o)
          /\ Len(q) \in Len(p) + 1 .. Len(p) + Len(o)
          /\ Len(p) + 1 - Len(p) = 1
          /\ Len(q) - Len(p) = Len(o)
      BY <1>1, <1>2, <2>2
    <3>2. SubSeq(q, Len(p) + 1, Len(q)) = SubSeq(o, Len(p) + 1 - Len(p), Len(q) - Len(p))
      BY <3>1, SubSeqOfConcat2
    <3> QED
      BY <3>1, <3>2, SubSeqFull
  <2> QED
    BY <2>1, <2>2
<1>6. SubSeq(q, 1, 0) = <<>>
  BY SubSeqEmpty
<1>7. SubSeq(q, Len(q) + 1, Len(q)) = <<>>
  <2>1. Len(q) \in Int /\ Len(q) + 1 \in Int /\ Len(q) < Len(q) + 1
    BY <1>1, <1>2
  <2> QED
    BY <2>1, SubSeqEmpty
<1> QED
  BY <1>1, <1>4, <1>5, <1>6, <1>7

\* A step of the queue, or none, between two values of its variables.
QueueStep(s, q, h, s2, q2, h2) ==
  \/ Len(q) < 2 * OutboxCapacity /\ s2 = s + 1 /\ q2 = Append(q, s + 1) /\ h2 = h
  \/ Len(q) >= OutboxCapacity /\ s2 = s + 1 /\ q2 = q /\ h2 = h
  \/ \E k \in 1 .. Len(q) :
       h2 = h \o SubSeq(q, 1, k) /\ q2 = SubSeq(q, k + 1, Len(q)) /\ s2 = s
  \/ \E i, j \in 1 .. Len(q) :
       /\ i <= j
       /\ q2 = SubSeq(q, 1, i - 1) \o SubSeq(q, j + 1, Len(q))
       /\ s2 = s /\ h2 = h
  \/ s2 = s /\ q2 = q /\ h2 = h

LEMMA QueueStepRefines ==
  QueueStep(Submitted, Waits, HandedOver, Submitted', Waits', HandedOver')
    => [Queue!LQNext]_Queue!lqVars
BY DEF QueueStep, Submitted, Waits, HandedOver, Queue!LQNext, Queue!lqVars, Queue!Put,
       Queue!Refuse, Queue!Deliver, Queue!Lose

LEMMA LengthType ==
  ASSUME NEW p \in Seq(Nat)
  PROVE  Len(p) \in Nat /\ (Len(p) = 0 => p = <<>>) /\ p \o <<>> = p /\ <<>> \o p = p
BY ConcatEmptySeq

LEMMA PutStep ==
  ASSUME NEW p \in Seq(Nat), NEW o \in Seq(Nat), NEW s \in Nat, NEW h,
         Len(p) <= OutboxCapacity, Len(o) < OutboxCapacity
  PROVE  QueueStep(s, p \o o, h, s + 1, p \o Append(o, s + 1), h)
<1>1. PICK x \in Nat : x = s + 1
  OBVIOUS
<1>2. <<x>> \in Seq(Nat)
  OBVIOUS
<1>3. p \o o \in Seq(Nat) /\ Len(p \o o) = Len(p) + Len(o)
  BY ConcatProperties
<1>4. Append(o, x) = o \o <<x>>
  BY AppendIsConcat
<1>5. Append(p \o o, x) = (p \o o) \o <<x>>
  BY <1>3, AppendIsConcat
<1>6. p \o (o \o <<x>>) = (p \o o) \o <<x>>
  BY <1>2, ConcatAssociative
<1>7. Append(p \o o, s + 1) = p \o Append(o, s + 1)
  BY <1>1, <1>4, <1>5, <1>6
<1>8. Len(p \o o) < 2 * OutboxCapacity
  BY <1>3, LengthType, MailboxAssumption
<1> QED
  BY <1>7, <1>8 DEF QueueStep

LEMMA RefuseStep ==
  ASSUME NEW p \in Seq(Nat), NEW o \in Seq(Nat), NEW s \in Nat, NEW h,
         Len(o) >= OutboxCapacity
  PROVE  QueueStep(s, p \o o, h, s + 1, p \o o, h)
<1>1. Len(p \o o) >= OutboxCapacity
  BY ConcatProperties, LengthType, MailboxAssumption
<1> QED
  BY <1>1 DEF QueueStep

LEMMA DeliverStep ==
  ASSUME NEW p \in Seq(Nat), NEW o \in Seq(Nat), NEW s, NEW h \in Seq(Nat)
  PROVE  QueueStep(s, p \o o, h, s, o, h \o p)
<1>1. PICK q : q = p \o o
  OBVIOUS
<1>2. CASE Len(p) = 0
  <2>1. q = o /\ h \o p = h
    BY <1>1, <1>2, LengthType
  <2> QED
    BY <1>1, <2>1 DEF QueueStep
<1>3. CASE Len(p) # 0
  <2>1. /\ Len(q) = Len(p) + Len(o)
        /\ SubSeq(q, 1, Len(p)) = p /\ SubSeq(q, Len(p) + 1, Len(q)) = o
    BY <1>1, Halves
  <2>2. Len(p) \in 1 .. Len(q)
    BY <1>3, <2>1, LengthType
  <2>3. \E k \in 1 .. Len(q) : h \o p = h \o SubSeq(q, 1, k) /\ o = SubSeq(q, k + 1, Len(q))
    BY <2>1, <2>2
  <2> QED
    BY <1>1, <2>3 DEF QueueStep
<1> QED
  BY <1>2, <1>3

LEMMA FirstLostStep ==
  ASSUME NEW p \in Seq(Nat), NEW o \in Seq(Nat), NEW s, NEW h
  PROVE  QueueStep(s, p \o o, h, s, o, h)
<1>1. PICK q : q = p \o o
  OBVIOUS
<1>2. CASE Len(p) = 0
  <2>1. q = o
    BY <1>1, <1>2, LengthType
  <2> QED
    BY <1>1, <2>1 DEF QueueStep
<1>3. CASE Len(p) # 0
  <2>1. /\ Len(q) = Len(p) + Len(o)
        /\ SubSeq(q, 1, 1 - 1) = <<>> /\ SubSeq(q, Len(p) + 1, Len(q)) = o
    BY <1>1, Halves
  <2>2. 1 \in 1 .. Len(q) /\ Len(p) \in 1 .. Len(q) /\ 1 <= Len(p)
    BY <1>3, <2>1, LengthType
  <2>3. o = SubSeq(q, 1, 1 - 1) \o SubSeq(q, Len(p) + 1, Len(q))
    BY <2>1, LengthType
  <2>4. \E i, j \in 1 .. Len(q) :
          i <= j /\ o = SubSeq(q, 1, i - 1) \o SubSeq(q, j + 1, Len(q))
    BY <2>2, <2>3
  <2> QED
    BY <1>1, <2>4 DEF QueueStep
<1> QED
  BY <1>2, <1>3

LEMMA LastLostStep ==
  ASSUME NEW p \in Seq(Nat), NEW o \in Seq(Nat), NEW s, NEW h
  PROVE  QueueStep(s, p \o o, h, s, p, h)
<1>1. PICK q : q = p \o o
  OBVIOUS
<1>2. CASE Len(o) = 0
  <2>1. q = p
    BY <1>1, <1>2, LengthType
  <2> QED
    BY <1>1, <2>1 DEF QueueStep
<1>3. CASE Len(o) # 0
  <2>1. /\ Len(q) = Len(p) + Len(o)
        /\ SubSeq(q, 1, Len(p)) = p /\ SubSeq(q, Len(q) + 1, Len(q)) = <<>>
    BY <1>1, Halves
  <2>2. PICK i \in Nat : i = Len(p) + 1
    BY LengthType
  <2>3. i \in 1 .. Len(q) /\ Len(q) \in 1 .. Len(q) /\ i <= Len(q) /\ i - 1 = Len(p)
    BY <1>3, <2>1, <2>2, LengthType
  <2>4. p = SubSeq(q, 1, i - 1) \o SubSeq(q, Len(q) + 1, Len(q))
    BY <2>1, <2>3, LengthType
  <2>5. \E k, j \in 1 .. Len(q) :
          k <= j /\ p = SubSeq(q, 1, k - 1) \o SubSeq(q, j + 1, Len(q))
    BY <2>3, <2>4
  <2> QED
    BY <1>1, <2>5 DEF QueueStep
<1> QED
  BY <1>2, <1>3

LEMMA NumbersType ==
  ASSUME NEW shown \in Seq(ChatMessage), Listable(shown)
  PROVE  Numbers(shown) \in Seq(Nat)
<1>1. <<>> \in Listings(Positions(<<>>, Incoming))
  BY NothingListed
<1>2. <<>> \in Seq(ChatMessage) /\ <<>> \in Seq(Nat) /\ DOMAIN <<>> = {}
  OBVIOUS
<1> QED
  BY <1>1, <1>2, NumbersConcatenated

\* To a client that cannot be dialled: each move is a step of the queue, or none.
LEMMA HiddenStep ==
  ASSUME QueueReady, ClientHidden, Moves, Mapped, Mapped', ClientHidden'
  PROVE  QueueStep(Submitted, Waits, HandedOver, Submitted', Waits', HandedOver')
<1>1. /\ Host \in Nodes /\ Client \in Nodes
      /\ sent[Host] \in Nat
      /\ Pulled(Client) \in Seq(SealedWires) /\ Len(Pulled(Client)) <= OutboxCapacity
      /\ outbox[Host] \in Seq(SealedWires) /\ Len(outbox[Host]) <= OutboxCapacity
      /\ messages[Client] \in Seq(ChatMessage) /\ Listable(messages[Client])
  BY HiddenFacts, PulledType DEF QueueReady, OutboxInv, WindowInv, SendInv
<1>2. PICK p, o, h, s : /\ p = Nos(Pulled(Client)) /\ o = Nos(outbox[Host])
                        /\ h = Numbers(messages[Client]) /\ s = sent[Host]
  OBVIOUS
<1>3. /\ p \in Seq(Nat) /\ Len(p) = Len(Pulled(Client)) /\ Len(p) <= OutboxCapacity
      /\ o \in Seq(Nat) /\ Len(o) = Len(outbox[Host]) /\ Len(o) <= OutboxCapacity
      /\ h \in Seq(Nat) /\ s \in Nat
  BY <1>1, <1>2, NosType, NumbersType
<1>4. Submitted = s /\ Waits = p \o o /\ HandedOver = h
  BY <1>2 DEF Mapped
<1>5. /\ Submitted' = sent'[Host]
      /\ Waits' = Nos(Pulled(Client)') \o Nos(outbox'[Host])
      /\ HandedOver' = Numbers(messages'[Client])
  BY DEF Mapped
<1>6. Nos(<<>>) = <<>>
  BY DEF Nos
<1>7. ASSUME Submitted' = s, Waits' = p \o o, HandedOver' = h
      PROVE  QueueStep(Submitted, Waits, HandedOver, Submitted', Waits', HandedOver')
  BY <1>4, <1>7 DEF QueueStep
<1>8. CASE HostSubmits
  <2>1. Submitted' = s + 1 /\ HandedOver' = h /\ Nos(Pulled(Client)') = p
    BY <1>2, <1>5, <1>8 DEF HostSubmits
  <2>2. CASE OutboxFull(Host) /\ outbox'[Host] = outbox[Host]
    <3>1. Len(o) >= OutboxCapacity
      BY <1>3, <2>2 DEF OutboxFull
    <3>2. QueueStep(s, p \o o, h, s + 1, p \o o, h)
      BY <1>3, <3>1, RefuseStep
    <3> QED
      BY <1>2, <1>4, <1>5, <2>1, <2>2, <3>2
  <2>3. ASSUME ~OutboxFull(Host), NEW wire \in SealedWires,
               wire.payload.plain.no = sent[Host] + 1,
               outbox'[Host] = Append(outbox[Host], wire)
        PROVE  QueueStep(Submitted, Waits, HandedOver, Submitted', Waits', HandedOver')
    <3>1. Len(o) < OutboxCapacity
      BY <1>3, <2>3, LengthType, MailboxAssumption DEF OutboxFull
    <3>2. Nos(outbox'[Host]) = Append(o, s + 1)
      BY <1>1, <1>2, <2>3, NosAppended
    <3>3. QueueStep(s, p \o o, h, s + 1, p \o Append(o, s + 1), h)
      BY <1>3, <3>1, PutStep
    <3> QED
      BY <1>4, <1>5, <2>1, <3>2, <3>3
  <2> QED
    BY <1>8, <2>2, <2>3 DEF HostSubmits
<1>9. CASE ClientShowsOwn
  <2>1. Submitted' = s /\ Waits' = p \o o
    BY <1>2, <1>5, <1>9 DEF ClientShowsOwn
  <2>2. HandedOver' = h
    BY <1>1, <1>2, <1>5, <1>9, OutNotCounted DEF ClientShowsOwn
  <2> QED
    BY <1>7, <2>1, <2>2
<1>10. CASE ClientShowsAnswer
  <2>1. Submitted' = s /\ Waits' = o
    BY <1>2, <1>3, <1>5, <1>6, <1>10, LengthType DEF ClientShowsAnswer
  <2>2. HandedOver' = h \o p
    <3>1. PICK old, wires : old = messages[Client] /\ wires = Pulled(Client)
      OBVIOUS
    <3>2. PICK new : /\ new = [i \in DOMAIN wires |-> In(wires[i].payload.plain)]
                     /\ messages'[Client] = old \o new
      BY <1>10, <3>1 DEF ClientShowsAnswer
    <3>3. old \in Seq(ChatMessage) /\ Listable(old) /\ wires \in Seq(SealedWires)
      BY <1>1, <3>1
    <3>4. Numbers(old \o new) = Numbers(old) \o Nos(wires)
      BY <3>2, <3>3, AnswerCounted
    <3> QED
      BY <1>2, <1>5, <3>1, <3>2, <3>4
  <2>3. QueueStep(s, p \o o, h, s, o, h \o p)
    BY <1>3, DeliverStep
  <2> QED
    BY <1>4, <2>1, <2>2, <2>3
<1>11. CASE HostAnswers
  <2>1. Submitted' = s /\ HandedOver' = h /\ Waits' = o \o <<>> /\ p = <<>>
    BY <1>2, <1>5, <1>6, <1>11 DEF HostAnswers
  <2>2. o \o <<>> = p \o o
    BY <1>3, <2>1, LengthType
  <2> QED
    BY <1>7, <2>1, <2>2
<1>12. CASE AnswerLost
  <2>1. Submitted' = s /\ HandedOver' = h /\ Waits' = o
    BY <1>2, <1>3, <1>5, <1>6, <1>12, LengthType DEF AnswerLost
  <2>2. QueueStep(s, p \o o, h, s, o, h)
    BY <1>3, FirstLostStep
  <2> QED
    BY <1>4, <2>1, <2>2
<1>13. CASE OutboxLost
  <2>1. Submitted' = s /\ HandedOver' = h /\ Waits' = p
    BY <1>2, <1>3, <1>5, <1>6, <1>13, LengthType DEF OutboxLost
  <2>2. QueueStep(s, p \o o, h, s, p, h)
    BY <1>3, LastLostStep
  <2> QED
    BY <1>4, <2>1, <2>2
<1>14. CASE NothingMoves
  BY <1>2, <1>5, <1>7, <1>14 DEF NothingMoves
<1> QED
  BY <1>8, <1>9, <1>10, <1>11, <1>12, <1>13, <1>14 DEF Moves

LEMMA StepRefines ==
  QueueReady /\ Mapped /\ Mapped' /\ [MailboxNext]_mbVars => [Queue!LQNext]_Queue!lqVars
<1> SUFFICES ASSUME QueueReady, Mapped, Mapped', [MailboxNext]_mbVars
             PROVE  [Queue!LQNext]_Queue!lqVars
  OBVIOUS
<1>1. session' = session
  BY FixedStep DEF QueueReady, DeliveryInv, ConversationInv, mbVars, sharedVars
<1>2. CASE ClientHidden
  <2>1. ClientHidden'
    BY <1>1, <1>2 DEF ClientHidden
  <2>2. Moves
    BY <1>2, StepMoves DEF QueueReady
  <2> QED
    BY <1>2, <2>1, <2>2, HiddenStep, QueueStepRefines
<1>3. CASE ~ClientHidden
  <2>1. ~ClientHidden'
    BY <1>1, <1>3 DEF ClientHidden
  <2>2. Submitted' = Submitted /\ Waits' = Waits /\ HandedOver' = HandedOver
    BY <1>3, <2>1 DEF Mapped
  <2> QED
    BY <2>2, QueueStepRefines DEF QueueStep
<1> QED
  BY <1>2, <1>3

LEMMA InitRefines == ConversationInit => Queue!LQInit
<1> SUFFICES ASSUME ConversationInit
             PROVE  Queue!LQInit
  OBVIOUS
<1>1. Mapped
  BY ReadyInit, ReadyMapped
<1>2. Submitted = 0 /\ Waits = <<>> /\ HandedOver = <<>>
  <2>1. CASE ClientHidden
    <3>1. /\ messages[Client] = <<>> /\ Pulled(Client) = <<>>
          /\ outbox[Host] = <<>> /\ sent[Host] = 0
      BY HostIsNode DEF ConversationInit, MailboxInit, Pulled
    <3>2. Nos(<<>>) = <<>> /\ <<>> \o <<>> = <<>>
      BY DEF Nos
    <3>3. Numbers(<<>>) = <<>>
      BY NothingListed DEF Numbers
    <3> QED
      BY <1>1, <2>1, <3>1, <3>2, <3>3 DEF Mapped
  <2>2. CASE ~ClientHidden
    BY <1>1, <2>2 DEF Mapped
  <2> QED
    BY <2>1, <2>2
<1> QED
  BY <1>2 DEF Queue!LQInit, Submitted, Waits, HandedOver

\* The mailbox of the host implements LossyQueue for a client that cannot be
\* dialled: over every interleaving of sends, polls, timeouts and stale pulls, what
\* the host has submitted, what waits in its outbox or in an answer and what the
\* client's window shows are a queue of the outbox's capacity that loses texts
\* only with answers that reach nobody.
THEOREM MailboxIsLossyQueue == ConversationSpec => ImplementsLossyQueue
<1>1. QueueReady /\ [MailboxNext]_mbVars => QueueReady'
  BY ReadyNext
<1>2. QueueReady => Mapped
  BY ReadyMapped
<1>3. QueueReady /\ Mapped /\ Mapped' /\ [MailboxNext]_mbVars
        => [Queue!LQNext]_Queue!lqVars
  BY StepRefines
<1> QED
  BY <1>1, <1>2, <1>3, ReadyInit, InitRefines, PTL
     DEF ConversationSpec, ImplementsLossyQueue, Queue!LQSpec

-----------------------------------------------------------------------------
(* What the client then sees.                                              *)

\* What LossyQueue promises, of the mailbox.
QueueFacts == INSTANCE LossyQueue_proofs WITH
  Capacity <- OutboxCapacity,
  submitted <- IF ClientHidden THEN sent[Host] ELSE 0,
  queue <- [i \in DOMAIN Waiting |-> Waiting[i].payload.plain.no],
  received <- [i \in DOMAIN Received |-> Received[i].body.no]

\* A client that cannot be dialled shows what the host sent in the order in which
\* it was sent, whatever timed out.
PulledInOrder ==
  ClientHidden =>
    LET shown == messages[Client]
    IN \A i, j \in DOMAIN shown :
         i < j /\ shown[i].direction = "in" /\ shown[j].direction = "in"
           => shown[i].body.no < shown[j].body.no

\* The order of the numbers is the order of the window.
LEMMA NumbersTellOrder ==
  ASSUME NEW shown \in Seq(ChatMessage), Listable(shown),
         \A k, l \in 1 .. Len(Numbers(shown)) : k < l => Numbers(shown)[k] < Numbers(shown)[l],
         NEW i \in DOMAIN shown, NEW j \in DOMAIN shown, i < j,
         shown[i].direction = "in", shown[j].direction = "in"
  PROVE  shown[i].body.no < shown[j].body.no
<1> DEFINE P == Positions(shown, Incoming)
           n == Cardinality(P)
<1>1. P = {k \in DOMAIN shown : shown[k].direction = "in"}
  <2>1. \A k \in DOMAIN shown : shown[k] \in ChatMessage
    OBVIOUS
  <2> QED
    BY <2>1 DEF Positions, Incoming
<1>2. IsFiniteSet(P) /\ n \in Nat /\ P \subseteq Nat
  BY PositionsFinite, FS_CardinalityType DEF Positions
<1>3. i \in P /\ j \in P
  BY <1>1
<1> HIDE DEF P, n
<1>4. PICK list : list \in Listings(P)
  BY DEF Listable, P
<1>5. list = Listed(shown)
  BY <1>4, ListedIs DEF P
<1>6. list \in [1 .. n -> P] /\ \A k, l \in 1 .. n : k < l => list[k] < list[l]
  BY <1>4 DEF Listings, n
<1>7. \A k \in P : \E l \in 1 .. n : list[l] = k
  BY <1>2, <1>4, <1>6, ListingComplete DEF n
<1>8. PICK k \in 1 .. n, l \in 1 .. n : list[k] = i /\ list[l] = j
  BY <1>3, <1>7
<1>9. k < l
  BY <1>2, <1>6, <1>8
<1>10. /\ DOMAIN Numbers(shown) = 1 .. n
       /\ Numbers(shown)[k] = shown[i].body.no /\ Numbers(shown)[l] = shown[j].body.no
  BY <1>5, <1>6, <1>8 DEF Numbers
<1>11. Len(Numbers(shown)) = n
  BY <1>2, <1>10, NumbersType
<1> QED
  BY <1>8, <1>9, <1>10, <1>11

\* From the queue to the window: what LossyQueue promises, the client that cannot
\* be dialled sees.
THEOREM PulledTextsInOrder == ConversationSpec => []PulledInOrder
<1>1. Queue!LQSpec => []QueueFacts!InOrder
  <2>1. Queue!LQSpec <=> QueueFacts!LQSpec
    BY DEF Queue!LQSpec, QueueFacts!LQSpec, Queue!LQInit, QueueFacts!LQInit, Queue!LQNext,
           QueueFacts!LQNext, Queue!lqVars, QueueFacts!lqVars, Queue!Put, Queue!Refuse,
           Queue!Deliver, Queue!Lose, QueueFacts!Put, QueueFacts!Refuse,
           QueueFacts!Deliver, QueueFacts!Lose
  <2>2. QueueFacts!LQSpec => []QueueFacts!InOrder
    BY QueueFacts!HandedOverInOrder
  <2> QED
    BY <2>1, <2>2, PTL
<1>2. QueueReady /\ QueueFacts!InOrder => PulledInOrder
  <2> SUFFICES ASSUME QueueReady, QueueFacts!InOrder, ClientHidden,
                      NEW i \in DOMAIN messages[Client], NEW j \in DOMAIN messages[Client],
                      i < j, messages[Client][i].direction = "in",
                      messages[Client][j].direction = "in"
               PROVE  messages[Client][i].body.no < messages[Client][j].body.no
    BY DEF PulledInOrder
  <2>1. PICK shown : shown = messages[Client]
    OBVIOUS
  <2>2. shown \in Seq(ChatMessage) /\ Listable(shown)
    BY <2>1, HiddenFacts DEF QueueReady, WindowInv
  <2>3. HandedOver = Numbers(shown)
    BY <2>1, ReadyMapped DEF Mapped
  <2>4. \A k, l \in 1 .. Len(HandedOver) : k < l => HandedOver[k] < HandedOver[l]
    BY DEF QueueFacts!InOrder, HandedOver
  <2>5. \A k, l \in 1 .. Len(Numbers(shown)) :
          k < l => Numbers(shown)[k] < Numbers(shown)[l]
    BY <2>3, <2>4
  <2> QED
    BY <2>1, <2>2, <2>5, NumbersTellOrder
<1>3. QueueReady /\ [MailboxNext]_mbVars => QueueReady'
  BY ReadyNext
<1> QED
  BY <1>1, <1>2, <1>3, ReadyInit, MailboxIsLossyQueue, PTL
     DEF ImplementsLossyQueue, ConversationSpec

-----------------------------------------------------------------------------
(* An answer is below what it answers: the third invariant.                *)

\* Where y is shown here, the texts that are shown there above `end` are above it,
\* but for those that were refused.
Below(gone, here, there, y, end) ==
  \A i \in DOMAIN there, k \in DOMAIN here :
    i < end /\ there[i].direction = "in" /\ here[k] = In(y) =>
      \/ there[i].body \in gone
      \/ \E l \in DOMAIN here : l < k /\ here[l] = Out(there[i].body)

AllBelow(gone, here, there) ==
  \A j \in DOMAIN there :
    there[j].direction = "out" => Below(gone, here, there, there[j].body, j)

\* What has arrived there is shown here.
Told(gone, here, there) ==
  \A i \in DOMAIN there :
    there[i].direction = "in" => there[i].body \in gone \/ Has(here, Out(there[i].body))

\* The send_text of x has come to its end.
Settled(n, x) == x \in refused \/ Shows(n, Out(x))

Around(n, m, x) == Queued(n, x) \/ OnItsWay(m, x) \/ Stale(x) \/ Shows(m, In(x))

\* Only the text whose POST is under way can be with m before n shows it.
NoneEarly(n, m) ==
  \A x \in Texts : x.by = n /\ Around(n, m, x) => Settled(n, x) \/ InSend(n, x)

Follows(n, m) ==
  /\ NoneEarly(n, m)
  /\ AllBelow(refused, messages[n], messages[m])
  /\ \A y : InSend(m, y) =>
       Below(refused, messages[n], messages[m], y, Len(messages[m]) + 1)

FollowInv ==
  /\ DeliveryInv
  /\ \A n, m \in Nodes : <<n, m>> \in Ends => Follows(n, m)

-----------------------------------------------------------------------------
(* Two windows.                                                            *)

LEMMA ConcatParts ==
  ASSUME NEW S, NEW old \in Seq(S), NEW new \in Seq(S)
  PROVE  /\ \A i \in DOMAIN (old \o new) :
              \/ i \in DOMAIN old /\ (old \o new)[i] = old[i]
              \/ /\ i - Len(old) \in DOMAIN new /\ i > Len(old)
                 /\ (old \o new)[i] = new[i - Len(old)]
         /\ \A i \in DOMAIN old :
              /\ i \in DOMAIN (old \o new) /\ (old \o new)[i] = old[i]
              /\ i \in Nat /\ i <= Len(old)
         /\ Len(old) \in Nat
<1> DEFINE both == old \o new
<1>1. /\ DOMAIN both = 1 .. Len(old) + Len(new)
      /\ \A i \in 1 .. Len(old) + Len(new) :
           both[i] = IF i <= Len(old) THEN old[i] ELSE new[i - Len(old)]
  BY ConcatProperties
<1>2. /\ DOMAIN old = 1 .. Len(old) /\ DOMAIN new = 1 .. Len(new)
      /\ Len(old) \in Nat /\ Len(new) \in Nat
  OBVIOUS
<1> HIDE DEF both
<1>3. ASSUME NEW i \in DOMAIN both
      PROVE  \/ i \in DOMAIN old /\ both[i] = old[i]
             \/ i - Len(old) \in DOMAIN new /\ i > Len(old) /\ both[i] = new[i - Len(old)]
  BY <1>1, <1>2
<1>4. \A i \in DOMAIN old :
        i \in DOMAIN both /\ both[i] = old[i] /\ i \in Nat /\ i <= Len(old)
  BY <1>1, <1>2
<1> QED
  BY <1>2, <1>3, <1>4 DEF both

\* This window grows.
LEMMA BelowHears ==
  ASSUME NEW S, NEW here \in Seq(S), NEW more \in Seq(S), NEW there, NEW gone, NEW y, NEW end,
         Below(gone, here, there, y, end), Has(more, In(y)) => Told(gone, here, there)
  PROVE  Below(gone, here \o more, there, y, end)
<1> DEFINE both == here \o more
<1>1. /\ \A k \in DOMAIN both :
           \/ k \in DOMAIN here /\ both[k] = here[k]
           \/ k - Len(here) \in DOMAIN more /\ k > Len(here) /\ both[k] = more[k - Len(here)]
      /\ \A l \in DOMAIN here :
           l \in DOMAIN both /\ both[l] = here[l] /\ l \in Nat /\ l <= Len(here)
      /\ Len(here) \in Nat
      /\ \A k \in DOMAIN both : k \in Int
  <2>1. DOMAIN both = 1 .. Len(both) /\ Len(both) \in Nat
    OBVIOUS
  <2> QED
    BY <2>1, ConcatParts
<1> HIDE DEF both
<1> SUFFICES ASSUME NEW i \in DOMAIN there, NEW k \in DOMAIN both,
                    i < end, there[i].direction = "in", both[k] = In(y),
                    there[i].body \notin gone
             PROVE  \E l \in DOMAIN both : l < k /\ both[l] = Out(there[i].body)
  BY DEF Below, both
<1>2. CASE k \in DOMAIN here /\ both[k] = here[k]
  <2>1. PICK l \in DOMAIN here : l < k /\ here[l] = Out(there[i].body)
    BY <1>2 DEF Below
  <2> QED
    BY <1>1, <2>1
<1>3. CASE k - Len(here) \in DOMAIN more /\ k > Len(here) /\ both[k] = more[k - Len(here)]
  <2>1. Has(more, In(y))
    BY <1>3 DEF Has
  <2>2. PICK l \in DOMAIN here : here[l] = Out(there[i].body)
    BY <2>1 DEF Told, Has
  <2>3. l < k
    BY <1>1, <1>3, <2>2
  <2> QED
    BY <1>1, <2>2, <2>3
<1> QED
  BY <1>1, <1>2, <1>3

\* That window grows.
LEMMA BelowAlso ==
  ASSUME NEW S, NEW there \in Seq(S), NEW more \in Seq(S), NEW here, NEW gone, NEW y, NEW end,
         end <= Len(there) + 1, end \in Int,
         Below(gone, here, there, y, end)
  PROVE  Below(gone, here, there \o more, y, end)
<1> DEFINE both == there \o more
<1>1. /\ \A i \in DOMAIN both :
           \/ i \in DOMAIN there /\ both[i] = there[i]
           \/ i - Len(there) \in DOMAIN more /\ i > Len(there)
      /\ Len(there) \in Nat
      /\ \A i \in DOMAIN both : i \in Int
  <2>1. DOMAIN both = 1 .. Len(both) /\ Len(both) \in Nat
    OBVIOUS
  <2> QED
    BY <2>1, ConcatParts
<1> HIDE DEF both
<1>2. \A i \in DOMAIN both : i < end => i \in DOMAIN there /\ both[i] = there[i]
  BY <1>1
<1> QED
  BY <1>2 DEF Below, both

\* The windows grow here and there.
LEMMA AllBelowHears ==
  ASSUME NEW S, NEW here \in Seq(S), NEW more \in Seq(S), NEW there, NEW gone,
         AllBelow(gone, here, there),
         \A y : Has(more, In(y)) => Told(gone, here, there)
  PROVE  AllBelow(gone, here \o more, there)
<1> SUFFICES ASSUME NEW j \in DOMAIN there, there[j].direction = "out"
             PROVE  Below(gone, here \o more, there, there[j].body, j)
  BY DEF AllBelow
<1>1. PICK y : y = there[j].body
  OBVIOUS
<1>2. Below(gone, here, there, y, j)
  BY <1>1 DEF AllBelow
<1>3. Has(more, In(y)) => Told(gone, here, there)
  OBVIOUS
<1>4. Below(gone, here \o more, there, y, j)
  BY <1>2, <1>3, BelowHears
<1> QED
  BY <1>1, <1>4

LEMMA AllBelowAlso ==
  ASSUME NEW S, NEW there \in Seq(S), NEW more \in Seq(S), NEW here, NEW gone,
         AllBelow(gone, here, there),
         \A j \in DOMAIN more : more[j].direction = "out" =>
           j = 1 /\ Below(gone, here, there, more[j].body, Len(there) + 1)
  PROVE  AllBelow(gone, here, there \o more)
<1> DEFINE both == there \o more
<1>1. /\ \A j \in DOMAIN both :
           \/ j \in DOMAIN there /\ both[j] = there[j]
           \/ j - Len(there) \in DOMAIN more /\ j > Len(there) /\ both[j] = more[j - Len(there)]
      /\ \A j \in DOMAIN there : j \in Nat /\ j <= Len(there)
      /\ Len(there) \in Nat
      /\ \A j \in DOMAIN both : j \in Int
  <2>1. DOMAIN both = 1 .. Len(both) /\ Len(both) \in Nat
    OBVIOUS
  <2> QED
    BY <2>1, ConcatParts
<1>2. ASSUME NEW j \in DOMAIN both, both[j].direction = "out"
      PROVE  Below(gone, here, both, both[j].body, j)
  <2>1. PICK y : y = both[j].body
    OBVIOUS
  <2>2. Below(gone, here, there, y, j) /\ j <= Len(there) + 1 /\ j \in Int
    <3> HIDE DEF both
    <3>1. CASE j \in DOMAIN there /\ both[j] = there[j]
      BY <1>1, <1>2, <2>1, <3>1 DEF AllBelow
    <3>2. CASE j - Len(there) \in DOMAIN more /\ j > Len(there) /\ both[j] = more[j - Len(there)]
      <4>1. PICK d : d = j - Len(there)
        OBVIOUS
      <4>2. d \in DOMAIN more /\ more[d] = both[j]
        BY <3>2, <4>1
      <4>3. d = 1 /\ Below(gone, here, there, more[d].body, Len(there) + 1)
        BY <1>2, <4>2
      <4>4. j = Len(there) + 1
        BY <1>1, <4>1, <4>3
      <4> QED
        BY <1>1, <2>1, <4>2, <4>3, <4>4
    <3> QED
      BY <1>1, <3>1, <3>2
  <2>3. Below(gone, here, both, y, j)
    BY <2>2, BelowAlso
  <2> QED
    BY <2>1, <2>3
<1> QED
  BY <1>2 DEF AllBelow

-----------------------------------------------------------------------------
(* What a step may do.                                                     *)

\* A window shows the text whose send_text ends, which is new at the other end or
\* was posted to it.
Tells(n, m) ==
  \E p \in Nodes, t \in Texts :
    /\ Show(p, Out(t))
    /\ p = m => sending'[m] = NoSend /\ (InSend(m, t) \/ ~Shows(n, In(t)))

\* A window shows texts that arrive, while its node has no POST under way.
Hears ==
  \E p \in Nodes, more \in Seq(Incoming) :
    /\ messages' = [messages EXCEPT ![p] = @ \o more]
    /\ sending[p] = NoSend
    /\ sending'[p] = NoSend

Keeps(n, m) ==
  /\ refused \subseteq refused'
  /\ messages' = messages \/ Tells(n, m) \/ Hears
  /\ \A y : InSend(m, y)' => InSend(m, y) \/ ~Shows(n, In(y))
  /\ \A x \in Texts : x.by = n =>
       /\ InSend(n, x) => InSend(n, x)' \/ Settled(n, x)'
       /\ Around(n, m, x)' => Around(n, m, x) \/ InSend(n, x) \/ Settled(n, x)'

LEMMA FollowParts ==
  ASSUME FollowInv, NEW n, NEW m, <<n, m>> \in Ends
  PROVE  /\ DeliveryInv /\ Follows(n, m)
         /\ n \in Nodes /\ m \in Nodes /\ n # m
         /\ Known(n, m) /\ WindowInv
BY DeliveryParts DEF FollowInv, Delivery

\* When n has no POST under way, it shows all that m has of it.
LEMMA AllTold ==
  ASSUME FollowInv, NEW n, NEW m, <<n, m>> \in Ends, sending[n] = NoSend
  PROVE  Told(refused, messages[n], messages[m])
<1> SUFFICES ASSUME NEW i \in DOMAIN messages[m], messages[m][i].direction = "in"
             PROVE  messages[m][i].body \in refused \/ Has(messages[n], Out(messages[m][i].body))
  BY DEF Told
<1>1. PICK x : x = messages[m][i].body
  OBVIOUS
<1>2. messages[m][i] \in ChatMessage
  BY FollowParts DEF WindowInv
<1>3. messages[m][i] = In(x) /\ x \in Texts
  BY <1>1, <1>2 DEF ChatMessage, In
<1>4. Shows(m, In(x))
  BY <1>3 DEF Shows, In
<1>5. x.by = n
  BY <1>3, <1>4, FollowParts DEF Known, Own
<1>6. Settled(n, x)
  BY <1>3, <1>4, <1>5, FollowParts DEF Follows, NoneEarly, Around, InSend
<1> QED
  BY <1>1, <1>6 DEF Settled, Shows, Has, Out

\* One of the windows grows, or none: `here` is new at n, `there` at m.
Grown(n, m, here, there) ==
  /\ messages'[n] = messages[n] \o here
  /\ messages'[m] = messages[m] \o there
  /\ here = <<>> \/ there = <<>>
  /\ \A y : Has(here, In(y)) => Told(refused, messages[n], messages[m])
  /\ there # <<>> => sending'[m] = NoSend
  /\ \A j \in DOMAIN there : there[j].direction = "out" =>
       j = 1 /\ (InSend(m, there[j].body) \/ ~Shows(n, In(there[j].body)))

LEMMA WindowsGrow ==
  ASSUME FollowInv, NEW n, NEW m, <<n, m>> \in Ends, Keeps(n, m)
  PROVE  \E here, there \in Seq(ChatMessage) : Grown(n, m, here, there)
<1>1. /\ n \in Nodes /\ m \in Nodes /\ n # m
      /\ messages \in [Nodes -> Seq(ChatMessage)]
      /\ messages[n] \in Seq(ChatMessage) /\ messages[m] \in Seq(ChatMessage)
  BY FollowParts DEF WindowInv
<1>2. PICK none : none = <<>>
  OBVIOUS
<1>3. /\ messages[n] \o none = messages[n] /\ messages[m] \o none = messages[m]
      /\ \A y : ~Has(none, In(y))
      /\ DOMAIN none = {}
      /\ none \in Seq(ChatMessage)
  BY <1>1, <1>2, ConcatEmptySeq DEF Has
<1>4. messages'[n] = messages[n] /\ messages'[m] = messages[m] => Grown(n, m, none, none)
  BY <1>2, <1>3 DEF Grown
<1>5. CASE messages' = messages
  BY <1>3, <1>4, <1>5
<1>6. CASE Tells(n, m)
  <2>1. PICK p \in Nodes, t \in Texts :
          /\ Show(p, Out(t))
          /\ p = m => sending'[m] = NoSend /\ (InSend(m, t) \/ ~Shows(n, In(t)))
    BY <1>6 DEF Tells
  <2>2. Out(t) \in ChatMessage
    BY DEF Out, ChatMessage
  <2>3. PICK one : one = <<Out(t)>>
    OBVIOUS
  <2>4. one \in Seq(ChatMessage) /\ DOMAIN one = {1} /\ one[1] = Out(t)
    BY <2>2, <2>3
  <2>5. \A y : ~Has(one, In(y))
    BY <2>4 DEF Has, In, Out
  <2>6. one[1].body = t
    BY <2>4 DEF Out
  <2>7. \A q \in Nodes :
          messages'[q] = IF q = p THEN messages[q] \o one ELSE messages[q]
    <3>1. Append(messages[p], Out(t)) = messages[p] \o one
      BY <1>1, <2>2, <2>3, AppendIsConcat
    <3> QED
      BY <1>1, <2>1, <3>1 DEF Show
  <2>8. CASE p = m
    <3>1. Grown(n, m, none, one)
      BY <1>1, <1>2, <1>3, <2>1, <2>4, <2>6, <2>7, <2>8 DEF Grown
    <3> QED
      BY <1>3, <2>4, <3>1
  <2>9. CASE p = n
    <3>1. Grown(n, m, one, none)
      BY <1>1, <1>2, <1>3, <2>5, <2>7, <2>9 DEF Grown
    <3> QED
      BY <1>3, <2>4, <3>1
  <2>10. CASE p # m /\ p # n
    <3>1. messages'[n] = messages[n] /\ messages'[m] = messages[m]
      BY <1>1, <2>7, <2>10
    <3> QED
      BY <1>3, <1>4, <3>1
  <2> QED
    BY <2>8, <2>9, <2>10
<1>7. CASE Hears
  <2>1. PICK p \in Nodes, more \in Seq(Incoming) :
          /\ messages' = [messages EXCEPT ![p] = @ \o more]
          /\ sending[p] = NoSend /\ sending'[p] = NoSend
    BY <1>7 DEF Hears
  <2>2. more \in Seq(ChatMessage) /\ \A j \in DOMAIN more : more[j].direction # "out"
    <3>1. more \in Seq(ChatMessage)
      BY SeqMonotonic DEF Incoming
    <3>2. \A j \in DOMAIN more : more[j] \in Incoming
      OBVIOUS
    <3> QED
      BY <3>1, <3>2 DEF Incoming
  <2>3. \A q \in Nodes :
          messages'[q] = IF q = p THEN messages[q] \o more ELSE messages[q]
    BY <1>1, <2>1
  <2>4. CASE p = n
    <3>1. Told(refused, messages[n], messages[m])
      BY <2>1, <2>4, AllTold
    <3>2. Grown(n, m, more, none)
      BY <1>1, <1>2, <1>3, <2>3, <2>4, <3>1 DEF Grown
    <3> QED
      BY <1>3, <2>2, <3>2
  <2>5. CASE p = m
    <3>1. Grown(n, m, none, more)
      BY <1>1, <1>2, <1>3, <2>1, <2>2, <2>3, <2>5 DEF Grown
    <3> QED
      BY <1>3, <2>2, <3>1
  <2>6. CASE p # m /\ p # n
    <3>1. messages'[n] = messages[n] /\ messages'[m] = messages[m]
      BY <1>1, <2>3, <2>6
    <3> QED
      BY <1>3, <1>4, <3>1
  <2> QED
    BY <2>4, <2>5, <2>6
<1> QED
  BY <1>5, <1>6, <1>7 DEF Keeps

LEMMA BelowMonotonic ==
  ASSUME NEW gone, NEW more, gone \subseteq more, NEW here, NEW there
  PROVE  /\ \A y, end : Below(gone, here, there, y, end) => Below(more, here, there, y, end)
         /\ AllBelow(gone, here, there) => AllBelow(more, here, there)
<1>1. \A y, end : Below(gone, here, there, y, end) => Below(more, here, there, y, end)
  BY DEF Below
<1> HIDE DEF Below
<1> QED
  BY <1>1 DEF AllBelow

LEMMA KeepsFollowing ==
  ASSUME FollowInv, NEW n, NEW m, <<n, m>> \in Ends, Keeps(n, m)
  PROVE  Follows(n, m)'
<1>1. /\ n \in Nodes /\ m \in Nodes
      /\ messages[n] \in Seq(ChatMessage) /\ messages[m] \in Seq(ChatMessage)
      /\ Follows(n, m)
  BY FollowParts DEF WindowInv
<1>2. PICK here \in Seq(ChatMessage), there \in Seq(ChatMessage) : Grown(n, m, here, there)
  BY WindowsGrow
<1>3. PICK old, mine, new, yours, last :
        /\ old = messages[n] /\ mine = messages[m]
        /\ new = messages'[n] /\ yours = messages'[m] /\ last = Len(mine) + 1
  OBVIOUS
<1>4. /\ old \in Seq(ChatMessage) /\ mine \in Seq(ChatMessage)
      /\ new = old \o here /\ yours = mine \o there
      /\ last \in Int
  BY <1>1, <1>2, <1>3 DEF Grown
<1>5. \A y : InSend(m, y) \/ ~Shows(n, In(y)) => Below(refused, old, mine, y, last)
  <2>1. \A y : InSend(m, y) => Below(refused, old, mine, y, last)
    BY <1>1, <1>3 DEF Follows
  <2>2. \A y : ~Shows(n, In(y)) => Below(refused, old, mine, y, last)
    BY <1>3 DEF Shows, Below, In
  <2> QED
    BY <2>1, <2>2
<1>6. AllBelow(refused, new, yours)
  <2>1. AllBelow(refused, old, mine)
    BY <1>1, <1>3 DEF Follows
  <2>2. CASE there = <<>>
    <3>1. AllBelow(refused, old \o here, mine)
      BY <1>2, <1>3, <1>4, <2>1, AllBelowHears DEF Grown
    <3>2. yours = mine
      BY <1>4, <2>2, ConcatEmptySeq
    <3> QED
      BY <1>4, <3>1, <3>2
  <2>3. CASE here = <<>>
    <3>1. \A j \in DOMAIN there : there[j].direction = "out" =>
            j = 1 /\ Below(refused, old, mine, there[j].body, Len(mine) + 1)
      BY <1>2, <1>3, <1>5 DEF Grown
    <3>2. AllBelow(refused, old, mine \o there)
      BY <1>4, <2>1, <3>1, AllBelowAlso
    <3>3. new = old
      BY <1>4, <2>3, ConcatEmptySeq
    <3> QED
      BY <1>4, <3>2, <3>3
  <2> QED
    BY <1>2, <2>2, <2>3 DEF Grown
<1>7. AllBelow(refused, messages[n], messages[m])'
  <2>1. AllBelow(refused', new, yours)
    BY <1>6, BelowMonotonic DEF Keeps
  <2> QED
    BY <1>3, <2>1
<1>8. ASSUME NEW y, InSend(m, y)'
      PROVE  Below(refused, messages[n], messages[m], y, Len(messages[m]) + 1)'
  <2>1. Below(refused, old, mine, y, last)
    BY <1>5, <1>8 DEF Keeps
  <2>2. there = <<>>
    BY <1>2, <1>8 DEF Grown, InSend
  <2>3. yours = mine
    BY <1>4, <2>2, ConcatEmptySeq
  <2>4. Has(here, In(y)) => Told(refused, old, mine)
    BY <1>2, <1>3 DEF Grown
  <2>5. Below(refused, old \o here, mine, y, last)
    BY <1>4, <2>1, <2>4, BelowHears
  <2>6. Below(refused', new, yours, y, Len(yours) + 1)
    BY <1>3, <1>4, <2>3, <2>5, BelowMonotonic DEF Keeps
  <2> QED
    BY <1>3, <2>6
<1>9. NoneEarly(n, m)'
  <2> SUFFICES ASSUME NEW x \in Texts, x.by = n, Around(n, m, x)'
               PROVE  Settled(n, x)' \/ InSend(n, x)'
    BY DEF NoneEarly
  <2>1. Settled(n, x) => Settled(n, x)'
    <3>1. x \in refused => x \in refused'
      BY DEF Keeps
    <3>2. Shows(n, Out(x)) => Shows(n, Out(x))'
      <4>1. \A l \in DOMAIN old : l \in DOMAIN new /\ new[l] = old[l]
        BY <1>4, ConcatParts
      <4> QED
        BY <1>3, <4>1 DEF Shows, Out
    <3> QED
      BY <3>1, <3>2 DEF Settled
  <2>2. Around(n, m, x) \/ InSend(n, x) \/ Settled(n, x)'
    BY DEF Keeps
  <2>3. Around(n, m, x) => Settled(n, x) \/ InSend(n, x)
    BY <1>1 DEF Follows, NoneEarly
  <2>4. InSend(n, x) => InSend(n, x)' \/ Settled(n, x)'
    BY DEF Keeps
  <2> QED
    BY <2>1, <2>2, <2>3, <2>4
<1> QED
  BY <1>7, <1>8, <1>9 DEF Follows

-----------------------------------------------------------------------------
(* The steps.                                                              *)

\* No window changes and no send_text.
LEMMA QuietKeeps ==
  ASSUME NEW n, NEW m, UNCHANGED <<messages, sending, staleSends, refused>>,
         \A x \in Texts : x.by = n /\ (Queued(n, x)' \/ OnItsWay(m, x)') =>
           Queued(n, x) \/ OnItsWay(m, x)
  PROVE  Keeps(n, m)
<1>1. \A x : /\ InSend(n, x)' <=> InSend(n, x)
             /\ InSend(m, x)' <=> InSend(m, x)
             /\ Stale(x)' <=> Stale(x)
             /\ Shows(m, In(x))' <=> Shows(m, In(x))
  BY DEF InSend, Stale, Shows, In
<1> QED
  BY <1>1 DEF Keeps, Around

LEMMA SendDirectKeeps ==
  ASSUME FollowInv, NEW n, NEW m, <<n, m>> \in Ends, NEW p \in Nodes, SendTextDirect(p)
  PROVE  Keeps(n, m)
<1>1. /\ DeliveryInv /\ n \in Nodes /\ m \in Nodes /\ <<m, n>> \in Ends
      /\ SharedTypeOK /\ MessagesInv /\ SendInv
  BY FollowParts, DeliveryParts, TwoEnds DEF DeliveryInv, ConversationInv
<1>2. /\ MaySend(p)
      /\ UNCHANGED <<epoch, session, outbox, messages, poll, staleSends, refused>>
      /\ sent' = [sent EXCEPT ![p] = @ + 1]
      /\ \A q \in Nodes \ {p} : sending'[q] = sending[q]
      /\ sending'[p].wire.payload.plain = NextText(p)
  BY <1>1, WireMessageSealed DEF SendTextDirect, SendInv, MaySend
<1>3. sending[p] = NoSend
  BY <1>1, <1>2, MaySendFacts
<1>4. \A y : InSend(m, y)' => InSend(m, y) \/ ~Shows(n, In(y))
  <2>1. CASE p = m
    <3>1. NextText(m) \in Texts /\ NextText(m).by = m /\ NextText(m) \notin Own(m, n)
      BY <1>1, <1>2, <2>1, FreshText
    <3>2. ~Shows(n, In(NextText(m)))
      BY <1>1, <3>1, Unwritten
    <3> QED
      BY <1>2, <2>1, <3>2 DEF InSend
  <2>2. CASE p # m
    BY <1>1, <1>2, <2>2 DEF InSend
  <2> QED
    BY <2>1, <2>2
<1>5. \A x : /\ InSend(n, x) => InSend(n, x)'
             /\ Around(n, m, x)' <=> Around(n, m, x)
  <2>1. \A x : InSend(n, x) => InSend(n, x)'
    BY <1>1, <1>2, <1>3 DEF InSend
  <2>2. Pulled(m)' = Pulled(m)
    BY <1>2 DEF Pulled, PollIs
  <2> QED
    BY <1>2, <2>1, <2>2 DEF Around, Queued, OnItsWay, Stale, Shows, In
<1> QED
  BY <1>2, <1>4, <1>5 DEF Keeps

\* send_text comes to its end: it shows the text or refuses it.
LEMMA SendEndsKeeps ==
  ASSUME FollowInv, NEW n, NEW m, <<n, m>> \in Ends, NEW p \in Nodes,
         NEW wire \in SealedWires, NEW t, t = wire.payload.plain, t.by = p,
         Undelivered(p, wire) \/ (Show(p, Out(t)) /\ UNCHANGED <<outbox, refused>>),
         sending'[p] = NoSend, \A q \in Nodes \ {p} : sending'[q] = sending[q],
         \A y : InSend(p, y) => y = t,
         p = m => InSend(m, t) \/ ~Shows(n, In(t)),
         UNCHANGED poll,
         \/ staleSends' = staleSends
         \/ \E to : staleSends' = staleSends \cup {[to |-> to, wire |-> wire]}
  PROVE  Keeps(n, m)
<1>1. /\ n \in Nodes /\ m \in Nodes /\ n # m /\ WindowInv /\ OutboxInv
  BY FollowParts, DeliveryParts DEF FollowInv
<1>2. t \in Texts /\ Out(t) \in ChatMessage
  BY DEF SealedWires, Wire, Out, ChatMessage
<1>3. /\ refused' = refused \/ refused' = refused \cup {t}
      /\ messages' = messages \/ Show(p, Out(t))
      /\ \A q \in Nodes \ {p} : outbox'[q] = outbox[q]
  BY <1>1 DEF Undelivered, OutboxInv
<1>4. Settled(p, t)'
  <2>1. CASE t \in refused'
    BY <2>1 DEF Settled
  <2>2. CASE Show(p, Out(t))
    BY <1>1, <1>2, <2>2, ShowsAppended DEF Settled
  <2>3. t \in refused' \/ Show(p, Out(t))
    BY DEF Undelivered
  <2> QED
    BY <2>1, <2>2, <2>3
<1>5. messages' = messages \/ Tells(n, m)
  BY <1>2, <1>3 DEF Tells
<1>6. \A y : InSend(m, y)' => InSend(m, y)
  BY <1>1 DEF InSend
<1>7. \A x : Stale(x)' => Stale(x) \/ x = t
  BY DEF Stale
<1>8. \A x : Shows(m, In(x))' <=> Shows(m, In(x))
  <2>1. \A x : Out(t) # In(x)
    BY DEF Out, In
  <2>2. CASE Show(p, Out(t))
    <3>1. \A x : Shows(m, x)' <=> Shows(m, x) \/ (m = p /\ x = Out(t))
      BY <1>1, <1>2, <2>2, ShowsAppended
    <3> QED
      BY <2>1, <3>1 DEF Shows, In
  <2> QED
    BY <1>3, <2>2 DEF Shows, In
<1>9. \A x : OnItsWay(m, x)' <=> OnItsWay(m, x)
  BY DEF OnItsWay, Pulled, PollIs
<1>10. \A x : Queued(n, x)' => Queued(n, x) \/ (p = n /\ x = t)
  <2>1. CASE p = n /\ Undelivered(p, wire)
    <3>1. \A x : Queued(n, x)' => Queued(n, x) \/ x = t
      BY <1>1, <2>1, UndeliveredPlaces
    <3> QED
      BY <2>1, <3>1
  <2>2. CASE outbox'[n] = outbox[n]
    BY <2>2 DEF Queued
  <2> QED
    BY <1>1, <1>3, <2>1, <2>2
<1>11. ASSUME NEW x \in Texts, x.by = n
       PROVE  /\ InSend(n, x) => InSend(n, x)' \/ Settled(n, x)'
              /\ Around(n, m, x)' => Around(n, m, x) \/ Settled(n, x)'
  <2>1. InSend(n, x) => InSend(n, x)' \/ Settled(n, x)'
    <3>1. CASE p = n
      BY <1>4, <3>1 DEF Settled
    <3>2. CASE p # n
      BY <1>1, <3>2 DEF InSend
    <3> QED
      BY <3>1, <3>2
  <2>2. x = t => p = n
    BY <1>11
  <2>3. x = t => Settled(n, x)'
    BY <1>4, <2>2
  <2> QED
    BY <1>7, <1>8, <1>9, <1>10, <2>1, <2>3 DEF Around
<1> QED
  BY <1>3, <1>5, <1>6, <1>11 DEF Keeps

LEMMA SendMailboxKeeps ==
  ASSUME FollowInv, NEW n, NEW m, <<n, m>> \in Ends, NEW p \in Nodes, SendTextMailbox(p)
  PROVE  Keeps(n, m)
<1>1. /\ DeliveryInv /\ n \in Nodes /\ m \in Nodes /\ <<m, n>> \in Ends
      /\ SharedTypeOK /\ MessagesInv /\ SendInv
  BY FollowParts, DeliveryParts, TwoEnds DEF DeliveryInv, ConversationInv
<1>2. PICK wire, t : wire = WireMessage(p, NextText(p)) /\ t = NextText(p)
  OBVIOUS
<1>3. /\ MaySend(p) /\ Undelivered(p, wire)
      /\ UNCHANGED <<epoch, session, poll, sending, staleSends>>
      /\ sent' = [sent EXCEPT ![p] = @ + 1]
  BY <1>2 DEF SendTextMailbox, sharedVars
<1>4. sending[p] = NoSend
  BY <1>1, <1>3, MaySendFacts
<1>5. wire \in SealedWires /\ t = wire.payload.plain /\ t.by = p
  <2>1. t.by = p
    BY <1>2 DEF NextText
  <2> QED
    BY <1>1, <1>2, <1>3, <2>1, WireMessageSealed DEF MaySend
<1>6. p = m => ~Shows(n, In(t))
  <2>1. ASSUME p = m
        PROVE  t \in Texts /\ t.by = m /\ t \notin Own(m, n)
    BY <1>1, <1>2, <1>3, <2>1, FreshText
  <2> QED
    BY <1>1, <2>1, Unwritten
<1>7. \A y : InSend(p, y) => y = t
  BY <1>4 DEF InSend
<1> QED
  BY <1>3, <1>4, <1>5, <1>6, <1>7, SendEndsKeeps

LEMMA SendReturnsKeeps ==
  ASSUME FollowInv, NEW n, NEW m, <<n, m>> \in Ends, NEW p \in Nodes,
         SendTextReturns(p) \/ SendTextTimesOut(p)
  PROVE  Keeps(n, m)
<1>1. SendInv /\ sending[p] # NoSend
  BY FollowParts, DeliveryParts
  DEF FollowInv, SendTextReturns, SendTextTimesOut, SendTimesOut, SendIs
<1>2. PICK wire, t : wire = sending[p].wire /\ t = wire.payload.plain
  OBVIOUS
<1>3. wire \in SealedWires /\ t.by = p
  BY <1>1, <1>2, SendFields
<1>4. /\ Undelivered(p, wire) \/ (Show(p, Out(t)) /\ UNCHANGED <<outbox, refused>>)
      /\ \/ staleSends' = staleSends
         \/ \E to : staleSends' = staleSends \cup {[to |-> to, wire |-> wire]}
      /\ UNCHANGED poll
      /\ sending' = [sending EXCEPT ![p] = NoSend]
  BY <1>2 DEF SendTextReturns, SendTextTimesOut, ReturnFromSend
<1>5. sending'[p] = NoSend /\ \A q \in Nodes \ {p} : sending'[q] = sending[q]
  BY <1>1, <1>4 DEF SendInv
<1>6. InSend(p, t) /\ \A y : InSend(p, y) => y = t
  BY <1>1, <1>2 DEF InSend
<1>7. p = m => InSend(m, t) \/ ~Shows(n, In(t))
  BY <1>6
<1>8. \/ staleSends' = staleSends
      \/ \E to : staleSends' = staleSends \cup {[to |-> to, wire |-> wire]}
  BY <1>4
<1>9. Undelivered(p, wire) \/ (Show(p, Out(t)) /\ UNCHANGED <<outbox, refused>>)
  BY <1>4
<1>10. UNCHANGED poll
  BY <1>4
<1> QED
  BY <1>2, <1>3, <1>5, <1>6, <1>7, <1>8, <1>9, <1>10, SendEndsKeeps, Zenon

\* accept_message at q.
LEMMA MessageKeeps ==
  ASSUME FollowInv, NEW n, NEW m, <<n, m>> \in Ends, NEW q \in Nodes,
         NEW wire \in SealedWires, NEW t, t = wire.payload.plain,
         AcceptMessage(q, wire), sending'[q] = sending[q],
         UNCHANGED <<outbox, poll, refused>>, staleSends' \subseteq staleSends,
         \A y : (InSend(n, y)' <=> InSend(n, y)) /\ (InSend(m, y)' <=> InSend(m, y)),
         t.by = n => InSend(n, t) \/ Stale(t)
  PROVE  Keeps(n, m)
<1>1. /\ n \in Nodes /\ m \in Nodes /\ WindowInv /\ SendInv
  BY FollowParts, DeliveryParts DEF FollowInv
<1>2. t \in Texts /\ In(t) \in Incoming /\ In(t) \in ChatMessage
  BY DEF SealedWires, Wire, In, Incoming, ChatMessage
<1>3. sending[q] = NoSend
  BY <1>1 DEF AcceptMessage, SendInv
<1>4. messages' = messages \/ Show(q, In(t))
  BY DEF AcceptMessage
<1>5. messages' = messages \/ Hears
  <2>1. CASE Show(q, In(t))
    <3>1. PICK one : one = <<In(t)>>
      OBVIOUS
    <3>2. one \in Seq(Incoming)
      BY <1>2, <3>1
    <3>3. messages[q] \in Seq(ChatMessage)
      BY <1>1 DEF WindowInv
    <3>4. Append(messages[q], In(t)) = messages[q] \o one
      BY <1>2, <3>1, <3>3, AppendIsConcat
    <3>5. messages' = [messages EXCEPT ![q] = messages[q] \o one]
      BY <2>1, <3>4 DEF Show
    <3> QED
      BY <1>3, <3>2, <3>5 DEF Hears
  <2> QED
    BY <1>4, <2>1
<1>6. \A x : Shows(m, In(x))' => Shows(m, In(x)) \/ x = t
  <2>1. \A x : In(x) = In(t) => x = t
    BY DEF In
  <2>2. CASE Show(q, In(t))
    <3>1. \A x : Shows(m, x)' <=> Shows(m, x) \/ (m = q /\ x = In(t))
      BY <1>1, <1>2, <2>2, ShowsAppended
    <3> QED
      BY <2>1, <3>1 DEF Shows, In
  <2> QED
    BY <1>4, <2>2 DEF Shows, In
<1>7. \A x : /\ Queued(n, x)' <=> Queued(n, x)
             /\ OnItsWay(m, x)' <=> OnItsWay(m, x)
             /\ Stale(x)' => Stale(x)
  BY DEF Queued, OnItsWay, Pulled, PollIs, Stale
<1>8. \A x \in Texts : x.by = n /\ Around(n, m, x)' => Around(n, m, x) \/ InSend(n, x)
  BY <1>6, <1>7 DEF Around
<1> QED
  BY <1>5, <1>8 DEF Keeps

LEMMA AnswerSendKeeps ==
  ASSUME FollowInv, NEW n, NEW m, <<n, m>> \in Ends, NEW p \in Nodes, AnswerSend(p)
  PROVE  Keeps(n, m)
<1>1. /\ n \in Nodes /\ m \in Nodes /\ SharedTypeOK /\ MessagesInv /\ SendInv
  BY FollowParts, DeliveryParts DEF FollowInv
<1>2. PICK wire, t, q : /\ wire = sending[p].wire /\ t = wire.payload.plain
                        /\ q = Serves[sending[p].url]
  OBVIOUS
<1>3. /\ sending[p] # NoSend
      /\ q \in Nodes
      /\ AcceptMessage(q, wire)
      /\ sending' = [sending EXCEPT ![p] =
                       [stage |-> "answered", url |-> sending[p].url,
                        wire |-> wire, delivered |-> Genuine(q, wire)]]
      /\ UNCHANGED <<ioLock, outbox, poll, staleSends, refused>>
  BY <1>2 DEF AnswerSend, SendIs, sharedVars
<1>4. wire \in SealedWires /\ t.by = p
  BY <1>1, <1>2, <1>3, SendFields
<1>5. sending'[p] # NoSend /\ sending'[p].wire = wire
  <2>1. MessagesInv'
    BY <1>1, AnswerSendInv
  <2>2. sending'[p] # NoSend
    BY <1>1, <1>3, <2>1 DEF MessagesInv, SendInv
  <2>3. sending'[p].wire = wire
    BY <1>1, <1>3 DEF SendInv
  <2> QED
    BY <2>2, <2>3
<1>6. \A k \in Nodes \ {p} : sending'[k] = sending[k]
  BY <1>1, <1>3 DEF SendInv
<1>7. q # p
  BY <1>1, <1>3 DEF AcceptMessage, SendInv
<1>8. \A k \in Nodes : \A y : InSend(k, y)' <=> InSend(k, y)
  <2>1. \A y : InSend(p, y)' <=> InSend(p, y)
    BY <1>2, <1>3, <1>5 DEF InSend
  <2> QED
    BY <1>6, <2>1 DEF InSend
<1>9. t.by = n => InSend(n, t)
  BY <1>2, <1>3, <1>4 DEF InSend
<1> QED
  BY <1>1, <1>2, <1>3, <1>4, <1>6, <1>7, <1>8, <1>9, MessageKeeps

LEMMA AnswerStaleKeeps ==
  ASSUME FollowInv, NEW n, NEW m, <<n, m>> \in Ends, AnswerStaleSend
  PROVE  Keeps(n, m)
<1>1. SendInv
  BY FollowParts, DeliveryParts DEF FollowInv
<1>2. PICK old \in staleSends :
        AcceptMessage(old.to, old.wire) /\ staleSends' = staleSends \ {old}
  BY DEF AnswerStaleSend
<1>3. UNCHANGED <<outbox, sending, poll, refused>>
  BY DEF AnswerStaleSend
<1>4. PICK q, wire, t : q = old.to /\ wire = old.wire /\ t = wire.payload.plain
  OBVIOUS
<1>5. q \in Nodes /\ wire \in SealedWires /\ Stale(t)
  BY <1>1, <1>2, <1>4 DEF SendInv, Stale
<1>6. \A y : (InSend(n, y)' <=> InSend(n, y)) /\ (InSend(m, y)' <=> InSend(m, y))
  BY <1>3 DEF InSend
<1> QED
  BY <1>2, <1>3, <1>4, <1>5, <1>6, MessageKeeps

LEMMA QuietPollKeeps ==
  ASSUME FollowInv, NEW n, NEW m, <<n, m>> \in Ends, NEW p \in Nodes,
         PollStart(p) \/ PollFails(p) \/ PollTimesOut(p) \/ PollReceives(p)
  PROVE  Keeps(n, m)
<1>1. m \in Nodes /\ MessagesInv /\ PollInv
  BY FollowParts, DeliveryParts DEF FollowInv
<1>2. UNCHANGED <<outbox, messages, sending, staleSends, refused>>
  BY DEF PollStart, PollFails, PollTimesOut, PollReceives
<1>3. Pulled(m)' = Pulled(m) \/ Pulled(m)' = <<>>
  <2>1. CASE PollStart(p) \/ PollFails(p) \/ PollReceives(p)
    BY <1>1, <2>1, QuietPoll
  <2>2. CASE PollTimesOut(p)
    <3>1. poll'[m] = IF p = m THEN NoPoll ELSE poll[m]
      BY <1>1, <2>2 DEF PollTimesOut, PollInv
    <3> QED
      BY <3>1 DEF Pulled, PollIs
  <2> QED
    BY <2>1, <2>2
<1>4. \A x : /\ Queued(n, x)' => Queued(n, x)
             /\ OnItsWay(m, x)' => OnItsWay(m, x)
  BY <1>2, <1>3 DEF Queued, OnItsWay, TextsOf
<1> QED
  BY <1>2, <1>4, QuietKeeps

LEMMA PollAppliesKeeps ==
  ASSUME FollowInv, NEW n, NEW m, <<n, m>> \in Ends, NEW p \in Nodes, PollApplies(p)
  PROVE  Keeps(n, m)
<1>1. /\ n \in Nodes /\ m \in Nodes /\ SharedTypeOK
      /\ MessagesInv /\ WindowInv /\ SendInv /\ PollInv
  BY FollowParts, DeliveryParts DEF FollowInv
<1>2. /\ UNCHANGED <<outbox, sending, staleSends, refused>>
      /\ poll' = [poll EXCEPT ![p] = NoPoll]
      /\ poll[p] # NoPoll /\ poll[p].stage = "received"
      /\ ioLock[p] = "free"
  BY DEF PollApplies, PollIs
<1>3. PICK wires, list : /\ wires = poll[p].wires
                         /\ list \in Passing(p, wires)
                         /\ messages' = [messages EXCEPT ![p] = @ \o Accepted(wires, list)]
  BY DEF PollApplies
<1>4. PICK new : new = Accepted(wires, list)
  OBVIOUS
<1>5. new \in Seq(ChatMessage)
  <2>1. new \in Seq(OwnMessages(p))
    BY <1>1, <1>2, <1>3, <1>4, PollFields, AcceptedOwn
  <2> QED
    BY <2>1, SeqMonotonic DEF OwnMessages
<1>6. \A i \in DOMAIN new : /\ list[i] \in DOMAIN wires
                            /\ new[i] = In(wires[list[i]].payload.plain)
  <2>1. DOMAIN new = DOMAIN list
    BY <1>4 DEF Accepted
  <2>2. \A i \in DOMAIN list : list[i] \in DOMAIN wires
    BY <1>3 DEF Passing, Listings
  <2> QED
    BY <1>4, <2>1, <2>2 DEF Accepted
<1>7. new \in Seq(Incoming)
  <2>1. \A i \in DOMAIN new : new[i].direction = "in"
    BY <1>6 DEF In
  <2>2. \A i \in DOMAIN new : new[i] \in ChatMessage
    BY <1>5
  <2>3. \A i \in DOMAIN new : new[i] \in Incoming
    BY <2>1, <2>2 DEF Incoming
  <2>4. Len(new) \in Nat /\ DOMAIN new = 1 .. Len(new) /\ new \in [1 .. Len(new) -> Incoming]
    BY <1>5, <2>3
  <2> QED
    BY <2>4, FunctionIsSeq
<1>8. messages' = [messages EXCEPT ![p] = @ \o new]
  BY <1>3, <1>4
<1>9. sending[p] = NoSend /\ sending'[p] = NoSend
  BY <1>1, <1>2 DEF SendInv
<1>10. Hears
  BY <1>7, <1>8, <1>9 DEF Hears
<1>11. \A x : Shows(m, In(x))' => Shows(m, In(x)) \/ OnItsWay(m, x)
  <2>1. m # p => messages'[m] = messages[m]
    BY <1>1, <1>8 DEF WindowInv
  <2>2. ASSUME NEW x, m = p, NEW i \in DOMAIN new, In(x) = new[i]
        PROVE  OnItsWay(m, x)
    <3>1. list[i] \in DOMAIN wires /\ wires[list[i]].payload.plain = x
      BY <1>6, <2>2 DEF In
    <3>2. Pulled(m) = wires
      BY <1>2, <1>3, <2>2 DEF Pulled, PollIs
    <3> QED
      BY <3>1, <3>2 DEF OnItsWay, TextsOf
  <2>3. ASSUME NEW x, Shows(m, In(x))', m = p
        PROVE  Shows(m, In(x)) \/ OnItsWay(m, x)
    <3>1. PICK old : old = messages[m] /\ messages'[m] = old \o new /\ old \in Seq(ChatMessage)
      BY <1>1, <1>8, <2>3 DEF WindowInv
    <3>2. PICK i \in DOMAIN (old \o new) : (old \o new)[i] = In(x)
      BY <2>3, <3>1 DEF Shows, In
    <3>3. CASE i \in DOMAIN old /\ (old \o new)[i] = old[i]
      BY <3>1, <3>2, <3>3 DEF Shows
    <3>4. CASE i - Len(old) \in DOMAIN new /\ (old \o new)[i] = new[i - Len(old)]
      BY <2>2, <2>3, <3>2, <3>4
    <3> QED
      BY <1>5, <3>1, <3>2, <3>3, <3>4, ConcatParts
  <2>4. ASSUME NEW x, Shows(m, In(x))', m # p
        PROVE  Shows(m, In(x))
    BY <2>1, <2>4 DEF Shows, In
  <2> QED
    BY <2>3, <2>4
<1>12. \A x : OnItsWay(m, x)' => OnItsWay(m, x)
  <2>1. poll'[m] = IF p = m THEN NoPoll ELSE poll[m]
    BY <1>1, <1>2 DEF PollInv
  <2> QED
    BY <2>1 DEF OnItsWay, Pulled, PollIs, TextsOf
<1>13. \A x : /\ InSend(n, x)' <=> InSend(n, x)
              /\ InSend(m, x)' <=> InSend(m, x)
              /\ Stale(x)' <=> Stale(x)
              /\ Queued(n, x)' <=> Queued(n, x)
  BY <1>2 DEF InSend, Stale, Queued
<1> QED
  BY <1>2, <1>10, <1>11, <1>12, <1>13 DEF Keeps, Around

LEMMA AnswerPullKeeps ==
  ASSUME FollowInv, NEW n, NEW m, <<n, m>> \in Ends, NEW p \in Nodes, AnswerPull(p)
  PROVE  Keeps(n, m)
<1>1. /\ n \in Nodes /\ m \in Nodes /\ n # m /\ Fixed /\ SharedTypeOK
      /\ MessagesInv /\ OutboxInv /\ PollInv /\ Known(m, n)
      /\ \A k \in Nodes : Connected(k) => k = n \/ k = m
  BY FollowParts, DeliveryParts, TwoEnds DEF FollowInv, Delivery
<1>2. PICK q, req, wires :
        /\ q \in Nodes
        /\ q = Serves[poll[p].url] /\ req = poll[p].req /\ wires = PullResponse(q, req)
        /\ AcceptPull(q, req)
        /\ poll' = [poll EXCEPT ![p] = IF wires = <<>> THEN NoPoll
                                       ELSE [stage |-> "answered", wires |-> wires]]
  BY DEF AnswerPull
<1>3. UNCHANGED <<messages, sending, staleSends, refused>>
  BY DEF AnswerPull
<1>4. \A x : Queued(n, x)' => Queued(n, x)
  <2>1. outbox'[n] = outbox[n] \/ outbox'[n] = <<>>
    BY <1>1, <1>2 DEF AcceptPull, Drained, OutboxInv
  <2> QED
    BY <2>1 DEF Queued, TextsOf
<1>5. ASSUME NEW x \in Texts, x.by = n, OnItsWay(m, x)'
      PROVE  Queued(n, x) \/ OnItsWay(m, x)
  <2>1. CASE p # m
    BY <1>1, <1>2, <1>5, <2>1 DEF OnItsWay, Pulled, PollIs, PollInv
  <2>2. CASE p = m
    <3>1. wires # <<>> /\ x \in TextsOf(wires)
      <4>1. poll'[m] = IF wires = <<>> THEN NoPoll ELSE [stage |-> "answered", wires |-> wires]
        BY <1>1, <1>2, <2>2 DEF PollInv
      <4> QED
        BY <1>5, <4>1 DEF OnItsWay, Pulled, PollIs, TextsOf
    <3>2. PullAllowed(q, req) /\ wires = outbox[q]
      BY <1>2, <3>1 DEF PullResponse
    <3>3. q = n \/ q = m
      BY <1>1, <1>2, <3>2 DEF PullAllowed
    <3>4. q # m
      <4>1. x \in TextsOf(outbox[m]) => x.by = m
        BY <1>1 DEF Known, Own
      <4> QED
        BY <1>1, <1>5, <3>1, <3>2, <4>1
    <3> QED
      BY <3>1, <3>2, <3>3, <3>4 DEF Queued
  <2> QED
    BY <2>1, <2>2
<1> QED
  BY <1>3, <1>4, <1>5, QuietKeeps

LEMMA AnswerStalePullKeeps ==
  ASSUME FollowInv, NEW n, NEW m, <<n, m>> \in Ends, AnswerStalePull
  PROVE  Keeps(n, m)
<1>1. n \in Nodes /\ OutboxInv /\ PollInv
  BY FollowParts, DeliveryParts DEF FollowInv
<1>2. PICK old \in stalePulls : AcceptPull(old.to, old.req)
  BY DEF AnswerStalePull
<1>3. UNCHANGED <<messages, sending, poll, staleSends, refused>>
  BY DEF AnswerStalePull
<1>4. outbox'[n] = outbox[n] \/ outbox'[n] = <<>>
  BY <1>1, <1>2 DEF AcceptPull, Drained, OutboxInv, PollInv
<1>5. \A x : /\ Queued(n, x)' => Queued(n, x)
             /\ OnItsWay(m, x)' <=> OnItsWay(m, x)
  BY <1>3, <1>4 DEF Queued, OnItsWay, Pulled, PollIs, TextsOf
<1> QED
  BY <1>3, <1>5, QuietKeeps

LEMMA FollowInitInv == ConversationInit => FollowInv
<1> SUFFICES ASSUME ConversationInit
             PROVE  FollowInv
  OBVIOUS
<1>1. DeliveryInv
  BY DeliveryInitInv
<1>2. ASSUME NEW n \in Nodes, NEW m \in Nodes
      PROVE  Follows(n, m)
  <2>1. /\ outbox[n] = <<>> /\ messages[n] = <<>> /\ messages[m] = <<>>
        /\ sending[m] = NoSend /\ Pulled(m) = <<>> /\ staleSends = {}
    BY DEF ConversationInit, MailboxInit, Pulled
  <2>2. \A x : ~Around(n, m, x)
    BY <2>1 DEF Around, Queued, OnItsWay, Stale, Shows, TextsOf
  <2>3. \A y : ~InSend(m, y)
    BY <2>1 DEF InSend
  <2>4. AllBelow(refused, messages[n], messages[m])
    BY <2>1 DEF AllBelow
  <2> QED
    BY <2>2, <2>3, <2>4 DEF Follows, NoneEarly
<1> QED
  BY <1>1, <1>2 DEF FollowInv

LEMMA FollowNext == FollowInv /\ [MailboxNext]_mbVars => FollowInv'
<1> SUFFICES ASSUME FollowInv, [MailboxNext]_mbVars
             PROVE  FollowInv'
  OBVIOUS
<1>1. DeliveryInv'
  BY DeliveryNext DEF FollowInv
<1>2. ASSUME NEW n \in Nodes, NEW m \in Nodes, <<n, m>> \in Ends
      PROVE  Keeps(n, m)
  <2>1. ASSUME NEW p \in Nodes, Exchange(p)
        PROVE  Keeps(n, m)
    BY <1>2, <2>1, SendDirectKeeps, SendMailboxKeeps, SendReturnsKeeps, AnswerSendKeeps,
       QuietPollKeeps, PollAppliesKeeps, AnswerPullKeeps
    DEF Exchange
  <2>2. CASE UNCHANGED mbVars
    <3>1. UNCHANGED <<outbox, messages, sending, poll, staleSends, refused>>
      BY <2>2 DEF mbVars, mailboxVars
    <3>2. \A x : /\ Queued(n, x)' <=> Queued(n, x)
                 /\ OnItsWay(m, x)' <=> OnItsWay(m, x)
      BY <3>1 DEF Queued, OnItsWay, Pulled, PollIs
    <3> QED
      BY <3>1, <3>2, QuietKeeps
  <2> QED
    BY <1>2, <2>1, <2>2, AnswerStaleKeeps, AnswerStalePullKeeps DEF MailboxNext
<1>3. \A n, m \in Nodes : <<n, m>> \in Ends => Follows(n, m)'
  BY <1>2, KeepsFollowing
<1> QED
  BY <1>1, <1>3 DEF FollowInv, Ends, Host

\* Whatever way texts take, by POST, late POST or pull, and whatever times out, an
\* answer is never above what it answers, because accept_message and poll_once wait
\* for the send_text that has io_lock.
THEOREM AnswersFollow == ConversationSpec => []RepliesFollow
<1>1. ConversationSpec => []FollowInv
  BY FollowInitInv, FollowNext, PTL DEF ConversationSpec
<1>2. FollowInv => RepliesFollow
  <2> SUFFICES ASSUME FollowInv, NEW ends \in Ends,
                      NEW i \in DOMAIN messages[ends[2]], NEW j \in DOMAIN messages[ends[2]],
                      NEW k \in DOMAIN messages[ends[1]],
                      i < j,
                      messages[ends[2]][i].direction = "in",
                      messages[ends[2]][j].direction = "out",
                      messages[ends[1]][k] = In(messages[ends[2]][j].body)
               PROVE  \/ messages[ends[2]][i].body \in refused
                      \/ \E l \in DOMAIN messages[ends[1]] :
                           l < k /\ messages[ends[1]][l] = Out(messages[ends[2]][i].body)
    BY DEF RepliesFollow
  <2>1. <<ends[1], ends[2]>> \in Ends
    BY DEF Ends
  <2>2. PICK here, there : here = messages[ends[1]] /\ there = messages[ends[2]]
    OBVIOUS
  <2>3. AllBelow(refused, here, there)
    BY <2>1, <2>2, FollowParts DEF Follows
  <2>4. Below(refused, here, there, there[j].body, j)
    BY <2>2, <2>3 DEF AllBelow
  <2> QED
    BY <2>2, <2>4 DEF Below
<1> QED
  BY <1>1, <1>2, PTL

=============================================================================
