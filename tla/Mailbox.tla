------------------------------- MODULE Mailbox -------------------------------
(***************************************************************************)
(* Messaging over an established session in src-tauri/src/peer.rs:         *)
(* send_text with its direct POST /message and its outbox, accept_message, *)
(* the poller's poll_once, and accept_pull.                                *)
(*                                                                         *)
(* send_text keeps io_lock while its POST travels; poll_once takes io_lock *)
(* only to apply what it pulled.  Both requests have a five second         *)
(* timeout, which may fire before the server has seen the request (it is   *)
(* then stale, and may still be served), after the server has served it    *)
(* (the answer is then lost), or never.                                    *)
(***************************************************************************)
EXTENDS PeerState, Sequences, FiniteSets

CONSTANTS
  OutboxCapacity, \* 256 in the code
  MaxTexts,       \* MaxTexts[n]: bound on the texts the user of n submits
  MaxFaults,      \* bound on the polls that time out on a live server
  NoSend,
  NoPoll

ASSUME MailboxAssumption ==
  /\ OutboxCapacity \in Nat
  /\ MaxTexts \in [Nodes -> Nat]
  /\ MaxFaults \in Nat

VARIABLES
  outbox,     \* wires waiting to be pulled by the peer
  messages,   \* what the chat window of a node shows
  sent,       \* texts the user of a node has submitted
  sending,    \* the send_text that waits for its direct POST
  poll,       \* the poll_once in progress
  staleSends, \* POST /message requests whose sender has timed out
  stalePulls, \* POST /pull requests whose sender has timed out
  faults,     \* polls that timed out on a live server
  abandoned,  \* history: texts whose direct POST to a live process timed out
  lost,       \* history: texts drained into an answer nobody received
  refused     \* history: texts send_text reported as not sent

mailboxVars ==
  <<outbox, messages, sent, sending, poll, staleSends, stalePulls, faults,
    abandoned, lost, refused>>
mbVars == <<sharedVars, mailboxVars>>

-----------------------------------------------------------------------------
(* Data.                                                                   *)

\* A text is named by its author, its number and the peer it is written to.
\* Every accepted body is non-empty UTF-8 of at most 8192 bytes, which send_text
\* has made sure of.
Texts == [by : Nodes, no : Nat, for : PublicKeys]

Keys == (SUBSET PublicKeys) \X Labels

\* WireMessage
Wire ==
  [from_public_key : PublicKeys, payload : [key : Keys, plain : Texts]]

\* PullRequest
PullRequest ==
  [from_public_key : PublicKeys,
   proof : [key : Keys, plain : {PullTranscript}]]

\* ChatMessage; id and time are left out.
ChatMessage == [direction : {"in", "out"}, body : Texts]

In(text) == [direction |-> "in", body |-> text]
Out(text) == [direction |-> "out", body |-> text]

TextsOf(wires) == {wires[i].payload.plain : i \in DOMAIN wires}

\* How often m's window shows the text as received.
Copies(m, text) ==
  Cardinality({i \in DOMAIN messages[m] : messages[m][i] = In(text)})

\* The positions in P, listed in order: a sequence, and the only one there is.
Listings(P) ==
  {list \in [1 .. Cardinality(P) -> P] :
     \A i, j \in 1 .. Cardinality(P) : i < j => list[i] < list[j]}

Send ==
  [stage : {"posted"}, url : Urls, wire : Wire]
    \cup [stage : {"answered"}, url : Urls, wire : Wire, delivered : BOOLEAN]

Poll ==
  [stage : {"posted"}, url : Urls, req : PullRequest]
    \cup [stage : {"answered", "received"}, wires : Seq(Wire)]

ASSUME MailboxNullAssumption == NoSend \notin Send /\ NoPoll \notin Poll

SendIs(n, stage) == sending[n] # NoSend /\ sending[n].stage = stage
PollIs(n, stage) == poll[n] # NoPoll /\ poll[n].stage = stage

\* The wires a poll in progress has got from its server.
Pulled(n) == IF poll[n] = NoPoll \/ PollIs(n, "posted") THEN <<>> ELSE poll[n].wires

-----------------------------------------------------------------------------
(* send_text.                                                              *)

NextText(n) ==
  [by |-> n, no |-> sent[n] + 1, for |-> session[n].peer_public_key]

WireMessage(n, text) ==
  [from_public_key |-> PublicKey(n), payload |-> Encrypt(SessionKeys(n), text)]

FullTooLate(n) == Len(outbox[n]) > OutboxCapacity

OutboxFull(n) == Len(outbox[n]) >= OutboxCapacity

PushFront(n, wire) == <<wire>> \o outbox[n]

PushBack(n, wire) == Append(outbox[n], wire)

Show(n, message) ==
  messages' = [messages EXCEPT ![n] = Append(@, message)]

DropWhenFull(n, wire) ==
  /\ outbox' = IF OutboxFull(n) THEN outbox
               ELSE [outbox EXCEPT ![n] = PushBack(n, wire)]
  /\ Show(n, Out(wire.payload.plain))
  /\ UNCHANGED refused

RefuseAfterPush(n, wire) ==
  /\ outbox' = [outbox EXCEPT ![n] = PushBack(n, wire)]
  /\ IF OutboxFull(n)
     THEN /\ refused' = refused \cup {wire.payload.plain}
          /\ UNCHANGED messages
     ELSE /\ Show(n, Out(wire.payload.plain))
          /\ UNCHANGED refused

\* What send_text does with a text that was not delivered: it goes to the
\* outbox and to the window, or, when the outbox is full, nowhere.
Undelivered(n, wire) ==
  IF OutboxFull(n)
  THEN /\ refused' = refused \cup {wire.payload.plain}
       /\ UNCHANGED <<outbox, messages>>
  ELSE /\ outbox' = [outbox EXCEPT ![n] = PushBack(n, wire)]
       /\ Show(n, Out(wire.payload.plain))
       /\ UNCHANGED refused

MaySend(n) == ioLock[n] = "free" /\ sent[n] < MaxTexts[n] /\ Connected(n)

\* The peer gave a URL: io_lock is kept and the text is posted.
SendTextDirect(n) ==
  /\ MaySend(n)
  /\ session[n].peer_dialable
  /\ session[n].peer_url # NoUrl
  /\ ioLock' = [ioLock EXCEPT ![n] = "send"]
  /\ sent' = [sent EXCEPT ![n] = @ + 1]
  /\ sending' = [sending EXCEPT ![n] =
                   [stage |-> "posted", url |-> session[n].peer_url,
                    wire |-> WireMessage(n, NextText(n))]]
  /\ UNCHANGED <<epoch, advertise, session, poller, outbox, messages, poll,
                 staleSends, stalePulls, faults, abandoned, lost, refused>>

\* The peer gave no URL: the text goes to the outbox at once.
SendTextMailbox(n) ==
  /\ MaySend(n)
  /\ ~(session[n].peer_dialable /\ session[n].peer_url # NoUrl)
  /\ sent' = [sent EXCEPT ![n] = @ + 1]
  /\ Undelivered(n, WireMessage(n, NextText(n)))
  /\ UNCHANGED <<sharedVars, sending, poll, staleSends, stalePulls, faults,
                 abandoned, lost>>

SendKeepsLock(n) ==
  /\ sending' = [sending EXCEPT ![n] = NoSend]
  /\ UNCHANGED ioLock

ReturnFromSend(n) ==
  /\ sending' = [sending EXCEPT ![n] = NoSend]
  /\ ioLock' = [ioLock EXCEPT ![n] = "free"]

\* The answer to the POST arrives in time.
SendTextReturns(n) ==
  /\ SendIs(n, "answered")
  /\ LET wire == sending[n].wire
     IN IF sending[n].delivered
        THEN /\ Show(n, Out(wire.payload.plain))
             /\ UNCHANGED <<outbox, refused>>
        ELSE Undelivered(n, wire)
  /\ ReturnFromSend(n)
  /\ UNCHANGED <<epoch, advertise, session, poller, sent, poll, staleSends,
                 stalePulls, faults, abandoned, lost>>

TimeoutMissing(n) == FALSE

\* The five seconds pass, the connection breaks, or nobody listens behind the URL.
SendTimesOut(n) == sending[n] # NoSend

SendTextTimesOut(n) ==
  /\ SendTimesOut(n)
  /\ LET send == sending[n]
         to == Serves[send.url]
     IN /\ staleSends' = IF send.stage = "posted" /\ to \in Nodes
                         THEN staleSends \cup {[to |-> to, wire |-> send.wire]}
                         ELSE staleSends
        /\ abandoned' = IF to \in Nodes
                         THEN abandoned \cup {send.wire.payload.plain}
                         ELSE abandoned
        /\ Undelivered(n, send.wire)
  /\ ReturnFromSend(n)
  /\ UNCHANGED <<epoch, advertise, session, poller, sent, poll, stalePulls,
                 faults, lost>>

-----------------------------------------------------------------------------
(* accept_message at m.                                                    *)

GenuineByKey(m, wire) ==
  Connected(m) /\ session[m].peer_public_key = wire.from_public_key

\* The wire comes from the session's peer and opens with the session's keys.
Genuine(m, wire) ==
  /\ Connected(m)
  /\ session[m].peer_public_key = wire.from_public_key
  /\ Opens(SessionKeys(m), wire.payload)

AcceptMessage(m, wire) ==
  /\ ioLock[m] = "free"
  /\ IF Genuine(m, wire)
     THEN Show(m, In(wire.payload.plain))
     ELSE UNCHANGED messages

\* The POST of a sender that is still waiting.
AnswerSend(n) ==
  /\ SendIs(n, "posted")
  /\ Serves[sending[n].url] \in Nodes
  /\ LET send == sending[n]
         m == Serves[send.url]
     IN /\ AcceptMessage(m, send.wire)
        /\ sending' = [sending EXCEPT ![n] =
                         [stage |-> "answered", url |-> send.url,
                          wire |-> send.wire, delivered |-> Genuine(m, send.wire)]]
  /\ UNCHANGED <<sharedVars, outbox, sent, poll, staleSends, stalePulls, faults,
                 abandoned, lost, refused>>

AnswerStaleSend ==
  /\ \E stale \in staleSends :
       /\ AcceptMessage(stale.to, stale.wire)
       /\ staleSends' = staleSends \ {stale}
  /\ UNCHANGED <<sharedVars, outbox, sent, sending, poll, stalePulls, faults,
                 abandoned, lost, refused>>

-----------------------------------------------------------------------------
(* poll_once.                                                              *)

PollStart(n) ==
  /\ poller[n]
  /\ poll[n] = NoPoll
  /\ Connected(n)
  /\ session[n].peer_url # NoUrl
  /\ poll' = [poll EXCEPT ![n] =
                [stage |-> "posted", url |-> session[n].peer_url,
                 req |-> [from_public_key |-> PublicKey(n),
                          proof |-> Encrypt(SessionKeys(n), PullTranscript)]]]
  /\ UNCHANGED <<sharedVars, outbox, messages, sent, sending, staleSends,
                 stalePulls, faults, abandoned, lost, refused>>

\* Nobody listens behind the URL.
PollFails(n) ==
  /\ PollIs(n, "posted")
  /\ Serves[poll[n].url] = Nobody
  /\ poll' = [poll EXCEPT ![n] = NoPoll]
  /\ UNCHANGED <<sharedVars, outbox, messages, sent, sending, staleSends,
                 stalePulls, faults, abandoned, lost, refused>>

\* The five seconds pass before the answer has been read to its end.  The count
\* of faults tells one stale pull from another, as the nonce of its proof does.
PollTimesOut(n) ==
  /\ faults < MaxFaults
  /\ \/ /\ PollIs(n, "posted")
        /\ Serves[poll[n].url] \in Nodes
        /\ stalePulls' = stalePulls \cup
             {[to |-> Serves[poll[n].url], req |-> poll[n].req, no |-> faults]}
        /\ UNCHANGED lost
     \/ /\ PollIs(n, "answered")
        /\ lost' = lost \cup TextsOf(poll[n].wires)
        /\ UNCHANGED stalePulls
  /\ faults' = faults + 1
  /\ poll' = [poll EXCEPT ![n] = NoPoll]
  /\ UNCHANGED <<sharedVars, outbox, messages, sent, sending, staleSends,
                 abandoned, refused>>

\* The body of the answer has been read: no timeout applies any more.
PollReceives(n) ==
  /\ PollIs(n, "answered")
  /\ poll' = [poll EXCEPT ![n] = [stage |-> "received", wires |-> poll[n].wires]]
  /\ UNCHANGED <<sharedVars, outbox, messages, sent, sending, staleSends,
                 stalePulls, faults, abandoned, lost, refused>>

\* The positions of the wires that pass, in order.
Passing(n, wires) == Listings({i \in DOMAIN wires : Genuine(n, wires[i])})

\* Those wires are shown, in this order; the others are skipped.
Accepted(wires, list) == [i \in DOMAIN list |-> In(wires[list[i]].payload.plain)]

AppliesUnlocked(n) ==
  /\ PollIs(n, "received")
  /\ \E list \in Passing(n, poll[n].wires) :
       messages' = [messages EXCEPT ![n] = @ \o Accepted(poll[n].wires, list)]
  /\ poll' = [poll EXCEPT ![n] = NoPoll]
  /\ UNCHANGED <<sharedVars, outbox, sent, sending, staleSends, stalePulls,
                 faults, abandoned, lost, refused>>

PollApplies(n) ==
  /\ PollIs(n, "received")
  /\ ioLock[n] = "free"
  /\ \E list \in Passing(n, poll[n].wires) :
       messages' = [messages EXCEPT ![n] = @ \o Accepted(poll[n].wires, list)]
  /\ poll' = [poll EXCEPT ![n] = NoPoll]
  /\ UNCHANGED <<sharedVars, outbox, sent, sending, staleSends, stalePulls,
                 faults, abandoned, lost, refused>>

-----------------------------------------------------------------------------
(* accept_pull at m.                                                       *)

PullOpensWithOwnKey(m, req) ==
  /\ Connected(m)
  /\ session[m].peer_public_key = req.from_public_key
  /\ req.proof.key = SessionKeys(m).send

PullAllowed(m, req) ==
  /\ Connected(m)
  /\ session[m].peer_public_key = req.from_public_key
  /\ Proves(SessionKeys(m), req.proof, PullTranscript)

KeepOutbox(m) == outbox[m]

\* What outbox.drain leaves.
Drained(m) == <<>>

AcceptPull(m, req) ==
  /\ ioLock[m] = "free"
  /\ outbox' = IF PullAllowed(m, req)
               THEN [outbox EXCEPT ![m] = Drained(m)]
               ELSE outbox

\* The wires of the answer; none when the pull is refused.
PullResponse(m, req) == IF PullAllowed(m, req) THEN outbox[m] ELSE <<>>

\* The pull of a poller that is still waiting.  A refusal and an empty list end
\* the poll without effect, so their way back is left out.
AnswerPull(n) ==
  /\ PollIs(n, "posted")
  /\ Serves[poll[n].url] \in Nodes
  /\ LET m == Serves[poll[n].url]
         wires == PullResponse(m, poll[n].req)
     IN /\ AcceptPull(m, poll[n].req)
        /\ poll' = [poll EXCEPT ![n] =
                      IF wires = <<>> THEN NoPoll
                      ELSE [stage |-> "answered", wires |-> wires]]
  /\ UNCHANGED <<sharedVars, messages, sent, sending, staleSends, stalePulls,
                 faults, abandoned, lost, refused>>

AnswerStalePull ==
  /\ \E stale \in stalePulls :
       /\ AcceptPull(stale.to, stale.req)
       /\ lost' = lost \cup TextsOf(PullResponse(stale.to, stale.req))
       /\ stalePulls' = stalePulls \ {stale}
  /\ UNCHANGED <<sharedVars, messages, sent, sending, poll, staleSends, faults,
                 abandoned, refused>>

-----------------------------------------------------------------------------
(* The specification.                                                      *)

MailboxInit ==
  /\ outbox = [n \in Nodes |-> <<>>]
  /\ messages = [n \in Nodes |-> <<>>]
  /\ sent = [n \in Nodes |-> 0]
  /\ sending = [n \in Nodes |-> NoSend]
  /\ poll = [n \in Nodes |-> NoPoll]
  /\ staleSends = {}
  /\ stalePulls = {}
  /\ faults = 0
  /\ abandoned = {}
  /\ lost = {}
  /\ refused = {}

Exchange(n) ==
  \/ SendTextDirect(n)
  \/ SendTextMailbox(n)
  \/ SendTextReturns(n)
  \/ SendTextTimesOut(n)
  \/ AnswerSend(n)
  \/ PollStart(n)
  \/ PollFails(n)
  \/ PollTimesOut(n)
  \/ PollReceives(n)
  \/ PollApplies(n)
  \/ AnswerPull(n)

MailboxNext == (\E n \in Nodes : Exchange(n)) \/ AnswerStaleSend \/ AnswerStalePull

\* Timers fire and every task that can run is polled.  io_lock is granted first
\* come first served, so a request that waits for it is not overtaken for ever:
\* strong fairness on the steps that take it.
MailboxFairness ==
  \A n \in Nodes :
    /\ WF_mbVars(SendTextReturns(n))
    /\ WF_mbVars(SendTextTimesOut(n))
    /\ SF_mbVars(AnswerSend(n))
    /\ WF_mbVars(PollStart(n))
    /\ WF_mbVars(PollFails(n))
    /\ WF_mbVars(PollReceives(n))
    /\ SF_mbVars(PollApplies(n))
    /\ SF_mbVars(AnswerPull(n))

-----------------------------------------------------------------------------
(* Properties of every system of nodes that exchange texts.                *)

\* Type invariant; the outbox never exceeds its capacity, and io_lock is held by
\* send_text exactly while a direct POST is under way.
MailboxTypeOK ==
  /\ SharedTypeOK
  /\ outbox \in [Nodes -> Seq(Wire)]
  /\ \A n \in Nodes : Len(outbox[n]) <= OutboxCapacity
  /\ messages \in [Nodes -> Seq(ChatMessage)]
  /\ sent \in [Nodes -> Nat]
  /\ sending \in [Nodes -> Send \cup {NoSend}]
  /\ poll \in [Nodes -> Poll \cup {NoPoll}]
  /\ staleSends \subseteq [to : Nodes, wire : Wire]
  /\ stalePulls \subseteq [to : Nodes, req : PullRequest, no : Nat]
  /\ faults \in Nat
  /\ abandoned \subseteq Texts
  /\ lost \subseteq Texts
  /\ refused \subseteq Texts
  /\ \A n \in Nodes : (ioLock[n] = "send") <=> (sending[n] # NoSend)

\* A window shows as received only what was written to that very identity,
\* although an outbox outlives the session it was filled in.
ShownToAddressee ==
  \A n \in Nodes : \A i \in DOMAIN messages[n] :
    LET message == messages[n][i]
    IN IF message.direction = "in"
       THEN message.body.for = PublicKey(n)
       ELSE message.body.by = n

\* send_text returns, and with it io_lock, also when both ends send at once and
\* each waits for the other's lock.
SendReturns == \A n \in Nodes : (sending[n] # NoSend) ~> (sending[n] = NoSend)

=============================================================================
