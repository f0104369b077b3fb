---------------------------- MODULE PeerNode_proofs ----------------------------
(***************************************************************************)
(* The whole node implements Handshake: every step of messaging takes      *)
(* io_lock as SendTextTakes does, gives it back as SendTextReleases does,  *)
(* or changes nothing that Handshake speaks of.  With that, what is proved *)
(* of Handshake holds of the whole node.  The last part is about texts: by *)
(* the invariant of Mailbox_proofs every wire, wherever it is, is sealed   *)
(* for the one identity it was written to.                                 *)
(***************************************************************************)
EXTENDS PeerNode, Handshake_proofs, Mailbox_proofs

\* Why a send gives back a lock that is its own: whoever is in the middle of a
\* send or a call is the one that has io_lock.
Holders ==
  /\ ioLock \in [Nodes -> {"free", "connect", "send"}]
  /\ DOMAIN call = Nodes
  /\ DOMAIN sending = Nodes
  /\ \A n \in Nodes :
       /\ sending[n] # NoSend => ioLock[n] = "send"
       /\ call[n] # NoCall => ioLock[n] = "connect"

LEMMA HoldersInit == Init => Holders
BY DEF Init, HSInit, SharedInit, MailboxInit, Holders

LEMMA EstablishHolders ==
  ASSUME Holders, NEW n \in Nodes, Establish(n), UNCHANGED mailboxVars
  PROVE  Holders'
<1> USE DEF Holders, mailboxVars
<1>1. CASE \E u \in Urls : ConnectToStart(n, u)
  BY <1>1 DEF ConnectToStart
<1>2. CASE ConnectToPost(n)
  BY <1>2 DEF ConnectToPost, InStage, sharedVars
<1>3. CASE AnswerCall(n)
  BY <1>3 DEF AnswerCall, InStage, AcceptHandshake
<1>4. CASE ConnectToSucceed(n) \/ ConnectToReject(n) \/ ConnectToFail(n)
  BY <1>4 DEF ConnectToSucceed, ConnectToReject, ConnectToFail, ReturnFromCall, InStage
<1>5. CASE SetAdvertiseHost(n)
  BY <1>5 DEF SetAdvertiseHost, handshakeVars
<1> QED
  BY <1>1, <1>2, <1>3, <1>4, <1>5 DEF Establish

\* The steps of messaging that leave sessions and locks alone.
Quiet(n) ==
  \/ SendTextMailbox(n)
  \/ AnswerSend(n)
  \/ PollStart(n)
  \/ PollFails(n)
  \/ PollTimesOut(n)
  \/ PollReceives(n)
  \/ PollApplies(n)
  \/ AnswerPull(n)

LEMMA QuietSteps ==
  ASSUME NEW n \in Nodes, Quiet(n)
  PROVE  UNCHANGED sharedVars
BY DEF Quiet, SendTextMailbox, AnswerSend, PollStart, PollFails, PollTimesOut, PollReceives,
       PollApplies, AnswerPull

LEMMA QuietHolders ==
  ASSUME Holders, NEW n \in Nodes, Quiet(n), UNCHANGED call
  PROVE  Holders'
<1>1. ioLock' = ioLock
  BY QuietSteps DEF sharedVars
<1>2. CASE AnswerSend(n)
  BY <1>1, <1>2 DEF Holders, AnswerSend, SendIs
<1>3. CASE ~AnswerSend(n)
  <2>1. sending' = sending
    BY <1>3 DEF Quiet, SendTextMailbox, PollStart, PollFails, PollTimesOut, PollReceives,
                PollApplies, AnswerPull
  <2> QED
    BY <1>1, <2>1 DEF Holders
<1> QED
  BY <1>2, <1>3

LEMMA ExchangeHolders ==
  ASSUME Holders, NEW n \in Nodes, Exchange(n), UNCHANGED call
  PROVE  Holders'
<1>1. CASE SendTextDirect(n)
  BY <1>1 DEF Holders, SendTextDirect, MaySend
<1>2. CASE SendTextReturns(n) \/ SendTextTimesOut(n)
  <2>1. ReturnFromSend(n)
    BY <1>2 DEF SendTextReturns, SendTextTimesOut
  <2>2. sending[n] # NoSend
    BY <1>2 DEF SendTextReturns, SendTextTimesOut, SendIs, SendTimesOut
  <2> QED
    BY <2>1, <2>2 DEF Holders, ReturnFromSend
<1>3. CASE Quiet(n)
  BY <1>3, QuietHolders
<1> QED
  BY <1>1, <1>2, <1>3 DEF Exchange, Quiet

LEMMA HoldersStep == Holders /\ [Next]_vars => Holders'
<1> SUFFICES ASSUME Holders, [Next]_vars
             PROVE  Holders'
  OBVIOUS
<1>1. ASSUME NEW n \in Nodes, Establish(n), UNCHANGED mailboxVars
      PROVE  Holders'
  BY <1>1, EstablishHolders
<1>2. CASE AnswerStale /\ UNCHANGED mailboxVars
  BY <1>2 DEF AnswerStale, AcceptHandshake, mailboxVars, Holders
<1>3. ASSUME NEW n \in Nodes, Exchange(n), UNCHANGED handshakeVars
      PROVE  Holders'
  BY <1>3, ExchangeHolders DEF handshakeVars
<1>4. CASE (AnswerStaleSend \/ AnswerStalePull) /\ UNCHANGED handshakeVars
  BY <1>4 DEF AnswerStaleSend, AnswerStalePull, handshakeVars, sharedVars, Holders
<1>5. ASSUME NEW n \in Nodes, RestartNode(n)
      PROVE  Holders'
  BY <1>5 DEF RestartNode, Restart, Holders
<1>6. CASE UNCHANGED vars
  BY <1>6 DEF vars, sharedVars, handshakeVars, mailboxVars, Holders
<1> QED
  BY <1>1, <1>2, <1>3, <1>4, <1>5, <1>6 DEF Next, MailboxNext

-----------------------------------------------------------------------------
\* Each step of messaging, as Handshake sees it.
LEMMA ExchangeMaps ==
  ASSUME Holders, NEW n \in Nodes, Exchange(n), UNCHANGED handshakeVars
  PROVE  SendTextTakes(n) \/ SendTextReleases(n) \/ UNCHANGED hsVars
<1>1. CASE SendTextDirect(n)
  BY <1>1 DEF SendTextDirect, MaySend, SendTextTakes
<1>2. CASE SendTextReturns(n) \/ SendTextTimesOut(n)
  <2>1. ioLock[n] = "send"
    BY <1>2 DEF SendTextReturns, SendTextTimesOut, SendIs, SendTimesOut, Holders
  <2> QED
    BY <1>2, <2>1 DEF SendTextReturns, SendTextTimesOut, ReturnFromSend, SendTextReleases
<1>3. CASE Quiet(n)
  BY <1>3, QuietSteps DEF hsVars
<1> QED
  BY <1>1, <1>2, <1>3 DEF Exchange, Quiet

LEMMA StepMaps == Holders /\ [Next]_vars => [HSNext]_hsVars
<1> SUFFICES ASSUME Holders, [Next]_vars
             PROVE  HSNext \/ UNCHANGED hsVars
  OBVIOUS
<1>1. ASSUME NEW n \in Nodes, Establish(n)
      PROVE  HSNext
  BY <1>1 DEF HSNext
<1>2. CASE AnswerStale
  BY <1>2 DEF HSNext
<1>3. ASSUME NEW n \in Nodes, Exchange(n), UNCHANGED handshakeVars
      PROVE  HSNext \/ UNCHANGED hsVars
  BY <1>3, ExchangeMaps DEF HSNext
<1>4. CASE (AnswerStaleSend \/ AnswerStalePull) /\ UNCHANGED handshakeVars
  BY <1>4 DEF AnswerStaleSend, AnswerStalePull, hsVars
<1>5. ASSUME NEW n \in Nodes, RestartNode(n)
      PROVE  HSNext
  BY <1>5 DEF RestartNode, HSNext
<1>6. CASE UNCHANGED vars
  BY <1>6 DEF vars, hsVars
<1> QED
  BY <1>1, <1>2, <1>3, <1>4, <1>5, <1>6 DEF Next, MailboxNext

\* Refinement: session establishment is not affected by the messaging that runs
\* beside it in the same process.
THEOREM NodeImplementsHandshake == Spec => ImplementsHandshake
<1>1. Init => HSInit
  BY DEF Init
<1> QED
  BY <1>1, HoldersInit, HoldersStep, StepMaps, PTL DEF Spec, HSSpec, ImplementsHandshake

-----------------------------------------------------------------------------
\* A session of the whole node is proved by both ends, whatever texts, polls,
\* timeouts and restarts come in between.
THEOREM NodeAuthenticates == Spec => []MutualProof
BY NodeImplementsHandshake, MutualAuthentication, PTL DEF ImplementsHandshake

\* No message, poll or stale request replaces a session with a dialable peer.
THEOREM NodeKeepsSession == Spec => SessionPinned
BY NodeImplementsHandshake, SessionKept, PTL DEF ImplementsHandshake

\* If every node announces a URL, an initiator session of the whole node has its
\* counterpart, also while texts hold io_lock at either end.
THEOREM NodeCounterparts == AllDialable /\ Spec => []CounterpartExists
BY NodeImplementsHandshake, CounterpartThere, PTL DEF ImplementsHandshake

\* If no two nodes dial each other, what one end of a pair encrypts, a text or a
\* pull, the other can open, and never with the key it encrypts with itself.
THEOREM NodeDirections == OneWayDials /\ Spec => []DistinctDirections
BY NodeImplementsHandshake, DirectionsDistinct, PTL DEF ImplementsHandshake

-----------------------------------------------------------------------------
(* The texts of the whole node.                                            *)

\* Establishment takes io_lock when it is free and gives back its own.
LEMMA EstablishLocks ==
  ASSUME HSTypeOK, NEW n \in Nodes, Establish(n)
  PROVE  /\ epoch' = epoch
         /\ \A m \in Nodes : (ioLock'[m] = "send") <=> (ioLock[m] = "send")
<1>0. DOMAIN ioLock = Nodes
  BY DEF HSTypeOK, SharedTypeOK
<1>1. CASE \E u \in Urls : ConnectToStart(n, u)
  BY <1>0, <1>1 DEF ConnectToStart
<1>2. CASE ConnectToPost(n)
  BY <1>2 DEF ConnectToPost, sharedVars
<1>3. CASE AnswerCall(n)
  BY <1>3 DEF AnswerCall, AcceptHandshake
<1>4. CASE ConnectToSucceed(n) \/ ConnectToReject(n) \/ ConnectToFail(n)
  <2>1. ioLock[n] = "connect"
    BY <1>4 DEF ConnectToSucceed, ConnectToReject, ConnectToFail, InStage, HSTypeOK
  <2> QED
    BY <1>0, <1>4, <2>1 DEF ConnectToSucceed, ConnectToReject, ConnectToFail, ReturnFromCall
<1>5. CASE SetAdvertiseHost(n)
  BY <1>5 DEF SetAdvertiseHost
<1> QED
  BY <1>1, <1>2, <1>3, <1>4, <1>5 DEF Establish

\* The texts die with the process; its requests may outlive it.
LEMMA RestartInv ==
  ASSUME SharedTypeOK, MessagesInv, NEW n \in Nodes, RestartNode(n)
  PROVE  MessagesInv'
<1>1. /\ epoch' = [epoch EXCEPT ![n] = @ + 1]
      /\ ioLock' = [ioLock EXCEPT ![n] = "free"]
  BY DEF RestartNode, Restart
<1>2. /\ outbox' = [outbox EXCEPT ![n] = <<>>]
      /\ messages' = [messages EXCEPT ![n] = <<>>]
      /\ sending' = [sending EXCEPT ![n] = NoSend]
      /\ poll' = [poll EXCEPT ![n] = NoPoll]
      /\ lost' = lost \cup TextsOf(Pulled(n))
      /\ UNCHANGED <<sent, faults, abandoned, refused>>
  BY DEF RestartNode
<1>3. OutboxInv'
  BY <1>2, EmptySeq, MailboxAssumption DEF MessagesInv, OutboxInv
<1>4. WindowInv'
  <2>1. \A m \in Nodes \ {n} : OwnMessages(m)' = OwnMessages(m)
    BY <1>1 DEF OwnMessages, PublicKey, SharedTypeOK
  <2>2. <<>> \in Seq(ChatMessage) /\ <<>> \in Seq(OwnMessages(n)')
    BY EmptySeq
  <2> QED
    BY <1>2, <2>1, <2>2 DEF MessagesInv, WindowInv
<1>5. SendInv'
  <2>1. staleSends' \subseteq [to : Nodes, wire : SealedWires]
    <3>1. CASE SendIs(n, "posted") /\ Serves[sending[n].url] \in Nodes
      <4>1. staleSends' = staleSends \cup
              {[to |-> Serves[sending[n].url], wire |-> sending[n].wire]}
        BY <3>1 DEF RestartNode
      <4> QED
        BY <3>1, <4>1, StaleSendSealed DEF SendIs, MessagesInv, SendInv
    <3>2. CASE ~(SendIs(n, "posted") /\ Serves[sending[n].url] \in Nodes)
      BY <3>2 DEF RestartNode, MessagesInv, SendInv
    <3> QED
      BY <3>1, <3>2
  <2>2. DOMAIN ioLock = Nodes
    BY DEF SharedTypeOK
  <2> QED
    BY <1>1, <1>2, <2>1, <2>2 DEF MessagesInv, SendInv, OwnSends
<1>6. PollInv'
  <2>1. stalePulls' \subseteq [to : Nodes, req : PullRequest, no : Nat]
    BY StalePullType DEF RestartNode, MessagesInv, PollInv
  <2>2. Pulled(n) \in Seq(SealedWires)
    BY PollFields, EmptySeq DEF MessagesInv, Pulled, PollIs
  <2>3. TextsOf(Pulled(n)) \subseteq Texts
    BY <2>2, TextsOfSealed
  <2> QED
    BY <1>2, <2>1, <2>3 DEF MessagesInv, PollInv
<1> QED
  BY <1>3, <1>4, <1>5, <1>6 DEF MessagesInv

LEMMA MessagesStep == HSTypeOK /\ MessagesInv /\ [Next]_vars => MessagesInv'
<1> SUFFICES ASSUME HSTypeOK, MessagesInv, [Next]_vars
             PROVE  MessagesInv'
  OBVIOUS
<1>0. SharedTypeOK
  BY DEF HSTypeOK
<1>1. ASSUME NEW n \in Nodes, Establish(n), UNCHANGED mailboxVars
      PROVE  MessagesInv'
  BY <1>1, EstablishLocks, MessagesFrame
<1>2. CASE AnswerStale /\ UNCHANGED mailboxVars
  <2>1. epoch' = epoch /\ ioLock' = ioLock
    BY <1>2 DEF AnswerStale, AcceptHandshake
  <2> QED
    BY <1>2, <2>1, MessagesFrame
<1>3. CASE MailboxNext
  BY <1>0, <1>3, MailboxNextInv
<1>4. ASSUME NEW n \in Nodes, RestartNode(n)
      PROVE  MessagesInv'
  BY <1>0, <1>4, RestartInv
<1>5. CASE UNCHANGED vars
  BY <1>5, MessagesFrame DEF vars, sharedVars
<1> QED
  BY <1>1, <1>2, <1>3, <1>4, <1>5 DEF Next

LEMMA NodeTypes == Spec => []HSTypeOK
BY NodeImplementsHandshake, TypeCorrect, PTL DEF ImplementsHandshake

LEMMA MessagesCorrect == Spec => []MessagesInv
<1>1. Init => MessagesInv
  BY MessagesInit DEF Init, HSInit, SharedInit
<1> QED
  BY <1>1, MessagesStep, NodeTypes, PTL DEF Spec

\* The whole node keeps the types of messaging, the outbox its capacity, and
\* io_lock is held by send_text exactly while a direct POST is under way.
THEOREM MailboxTypeCorrect == Spec => []MailboxTypeOK
<1>1. HSTypeOK /\ MessagesInv => MailboxTypeOK
  BY MessagesTyped DEF HSTypeOK
<1> QED
  BY <1>1, NodeTypes, MessagesCorrect, PTL

\* A text is shown as received only by the identity it was written to, through
\* whatever restarts, replaced sessions and late requests it has come, and as sent
\* only by its author: what accept_message and poll_once decrypt is for us.
THEOREM TextsReachAddressee == Spec => []ShownToAddressee
<1>1. MessagesInv => ShownToAddressee
  <2> SUFFICES ASSUME MessagesInv, NEW n \in Nodes, NEW i \in DOMAIN messages[n]
               PROVE  LET message == messages[n][i]
                      IN IF message.direction = "in"
                         THEN message.body.for = PublicKey(n)
                         ELSE message.body.by = n
    BY DEF ShownToAddressee
  <2>1. messages[n][i] \in OwnMessages(n)
    BY DEF MessagesInv, WindowInv
  <2> QED
    BY <2>1 DEF OwnMessages
<1> QED
  BY <1>1, MessagesCorrect, PTL

=============================================================================
