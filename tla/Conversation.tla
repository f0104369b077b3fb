---------------------------- MODULE Conversation -----------------------------
(***************************************************************************)
(* Messaging on one session: a client has connected to a host, and from    *)
(* there on the two exchange texts.  Whether the client can be dialled     *)
(* depends on whether it announced a URL in its handshake.                 *)
(***************************************************************************)
EXTENDS Mailbox

CONSTANTS
  Client,  \* who pressed Connect
  HostUrl  \* with which URL

ASSUME ConversationAssumption ==
  /\ Client \in Nodes
  /\ HostUrl \in Urls
  /\ Serves[HostUrl] \in Nodes \ {Client}

Host == Serves[HostUrl]

\* What connect_to and accept_handshake leave at the two ends.
EstablishedSession(n) ==
  IF n = Client
  THEN [peer_url |-> HostUrl, peer_public_key |-> PublicKey(Host),
        local_is_initiator |-> TRUE, peer_dialable |-> TRUE]
  ELSE [peer_url |-> advertise[Client], peer_public_key |-> PublicKey(Client),
        local_is_initiator |-> FALSE, peer_dialable |-> advertise[Client] # NoUrl]

ConversationInit ==
  /\ epoch = [n \in Nodes |-> 0]
  /\ advertise \in [Nodes -> Urls \cup {NoUrl}]
  /\ \A n \in Nodes : advertise[n] \in Advertisable[n]
  /\ ioLock = [n \in Nodes |-> "free"]
  /\ session = [n \in Nodes |->
                  IF n \in {Client, Host} THEN EstablishedSession(n) ELSE NoSession]
  /\ poller = [n \in Nodes |-> n \in {Client, Host}]
  /\ MailboxInit

ConversationSpec == ConversationInit /\ [][MailboxNext]_mbVars

ConversationFairSpec == ConversationSpec /\ MailboxFairness

-----------------------------------------------------------------------------
(* Properties.                                                             *)

\* The texts the user of n has submitted so far.
SubmittedBy(n) ==
  {[by |-> n, no |-> k, for |-> session[n].peer_public_key] : k \in 1 .. sent[n]}

\* The texts it may submit; nothing changes an identity or a peer here.
PlannedBy(n) ==
  {[by |-> n, no |-> k, for |-> <<IF n = Host THEN Client ELSE Host, 0>>] :
     k \in 1 .. MaxTexts[n]}

\* Where a text can be, as seen from its sender n and the other end m.
Queued(n, text) == text \in TextsOf(outbox[n])
OnItsWay(m, text) == text \in TextsOf(Pulled(m))
Posted(n, text) == SendIs(n, "posted") /\ sending[n].wire.payload.plain = text
Stale(text) == \E stale \in staleSends : stale.wire.payload.plain = text

Ends == {<<Client, Host>>, <<Host, Client>>}

Shows(n, message) == \E i \in DOMAIN messages[n] : messages[n][i] = message

One(b) == IF b THEN 1 ELSE 0

\* A text the sender's window shows as sent is shown by the peer, or waits in
\* the outbox, or is in an answer the peer is reading: it disappears only with a
\* pull answer that reached nobody.  Over every interleaving of direct posts,
\* timeouts, stale requests and pulls.
NoTextVanishes ==
  \A ends \in Ends : \A text \in SubmittedBy(ends[1]) :
    Shows(ends[1], Out(text)) =>
      \/ Shows(ends[2], In(text))
      \/ Queued(ends[1], text)
      \/ OnItsWay(ends[2], text)
      \/ text \in lost

\* A text is in one place: in the peer's window, in the outbox, in an answer, in a
\* POST, or back with the user as "not sent".  It is in a second one only if its
\* direct POST timed out although the peer may have taken it.
OneCopyUnlessAbandoned ==
  \A ends \in Ends : \A text \in SubmittedBy(ends[1]) :
    Copies(ends[2], text) + One(Queued(ends[1], text)) + One(OnItsWay(ends[2], text))
      + One(Posted(ends[1], text)) + One(Stale(text)) + One(text \in refused)
      <= 1 + One(text \in abandoned)

\* "outbox full" tells the user that the text was not sent: it is then neither
\* queued nor shown by the peer, now or later, unless its POST timed out first.
RefusedIsNotSent ==
  \A ends \in Ends : \A text \in refused \cap SubmittedBy(ends[1]) :
    /\ ~Shows(ends[1], Out(text))
    /\ ~Queued(ends[1], text)
    /\ text \notin abandoned => ~Shows(ends[2], In(text))

\* A text that arrives after a younger one was given up on the way: direct posts
\* overtake only what a timeout has put into the outbox, or left behind as a
\* stale request; everything else arrives in the order it was submitted.
OrderUnlessAbandoned ==
  \A ends \in Ends :
    LET shown == messages[ends[2]]
    IN \A i, j \in DOMAIN shown :
         /\ i < j
         /\ shown[i].direction = "in"
         /\ shown[j].direction = "in"
         => shown[i].body.no < shown[j].body.no \/ shown[j].body \in abandoned

\* An answer is never shown above what it answers: what m sends after it has read
\* x, n shows below x, unless n was told that x was not sent.  n may be posting x
\* still when the answer is ready, directly or in a pull.
RepliesFollow ==
  \A ends \in Ends :
    LET here == messages[ends[1]]
        there == messages[ends[2]]
    IN \A i, j \in DOMAIN there : \A k \in DOMAIN here :
         /\ i < j
         /\ there[i].direction = "in"
         /\ there[j].direction = "out"
         /\ here[k] = In(there[j].body)
         => \/ there[i].body \in refused
            \/ \E l \in DOMAIN here : l < k /\ here[l] = Out(there[i].body)

-----------------------------------------------------------------------------
(* The mailbox of the host implements LossyQueue for a client that cannot  *)
(* be dialled.  To one that can, it is the second way a text may take, and *)
(* the mapping shows LossyQueue nothing.                                   *)

ClientHidden == session[Host].peer_url = NoUrl

\* The wires the client has pulled or may still pull.
Waiting ==
  IF ClientHidden THEN Pulled(Client) \o outbox[Host] ELSE <<>>

\* Where in the client's window the received texts are, in order.
Arrivals ==
  CHOOSE list \in Listings({i \in DOMAIN messages[Client] :
                              messages[Client][i].direction = "in"}) : TRUE

Received ==
  IF ClientHidden THEN [i \in DOMAIN Arrivals |-> messages[Client][Arrivals[i]]] ELSE <<>>

Queue == INSTANCE LossyQueue WITH
  Capacity <- OutboxCapacity,
  submitted <- IF ClientHidden THEN sent[Host] ELSE 0,
  queue <- [i \in DOMAIN Waiting |-> Waiting[i].payload.plain.no],
  received <- [i \in DOMAIN Received |-> Received[i].body.no]

\* README.md:15, "stored in an encrypted mailbox on the host and pulled by the
\* client": over every interleaving of sends, polls, timeouts and stale pulls the
\* outbox, the answers and the client's window together are a lossy queue.
ImplementsLossyQueue == Queue!LQSpec

-----------------------------------------------------------------------------
(* What documents say of it.                                               *)

\* README.md:15 and .lifecycle/changes/internet-reachability/change.json:55: a
\* reply to a client that cannot be dialled is stored and delivered via outbox
\* pull, so the client comes to show it.
ReplyArrives ==
  \A text \in PlannedBy(Host) :
    Shows(Host, Out(text)) ~> Shows(Client, In(text))

\* README.md:15 "Chat both ways": a text of the client that send_text reports as
\* sent, so that the window says "Message envoye" (main.ts:197), the host comes to
\* show.
ClientTextArrives ==
  \A text \in PlannedBy(Client) :
    Shows(Client, Out(text)) ~> Shows(Host, In(text))

=============================================================================
