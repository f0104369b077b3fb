------------------------------ MODULE Handshake ------------------------------
(***************************************************************************)
(* Session establishment in src-tauri/src/peer.rs: connect_to on the       *)
(* dialling side, identity and accept_handshake on the answering side,     *)
(* set_advertise_host, and the restart of a process.                       *)
(*                                                                         *)
(* connect_to is four steps, one between any two awaits at which other     *)
(* tasks run: take io_lock and look at the session, fetch /identity and    *)
(* POST /handshake, have the POST answered, check the answer.  io_lock is  *)
(* held from the first step to the last.  A handler is one step, taken     *)
(* when io_lock is free.                                                   *)
(*                                                                         *)
(* The network may break a call at any stage.  The caller then gives up,   *)
(* and the request it leaves behind is stale: it may still reach the       *)
(* server, now or much later, or never.                                    *)
(***************************************************************************)
EXTENDS PeerState

CONSTANTS
  Dials,     \* <<n, u>>: n's user may paste u and press Connect
  MaxCalls,  \* bound on the POST /handshake requests of one node
  MaxEpoch,  \* bound on the restarts of one node
  NoCall

ASSUME HandshakeAssumption ==
  /\ Dials \subseteq Nodes \X Urls
  /\ MaxCalls \in Nat
  /\ MaxEpoch \in Nat

VARIABLES
  call,      \* connect_to in progress at a node
  calls,     \* POST /handshake requests a node has made
  stale,     \* handshake requests whose caller has given up
  offered,   \* history: <<initiator key, responder key>> of every POST
  answered   \* history: <<initiator key, responder key>> of every 200 answer

handshakeVars == <<call, calls, stale, offered, answered>>
hsVars == <<sharedVars, handshakeVars>>

-----------------------------------------------------------------------------
(* Data.                                                                   *)

Proofs ==
  [key : (SUBSET PublicKeys) \X Labels,
   plain : {"p2p-chat-handshake-v1"} \X PublicKeys \X PublicKeys]

\* HandshakeRequest, with the process the POST is addressed to.
Request ==
  [to : Nodes, public_key : PublicKeys, listen_url : Urls \cup {NoUrl},
   proof : Proofs]

\* HandshakeResponse; ok is the HTTP status.
Response == [ok : BOOLEAN, public_key : PublicKeys, proof : Proofs]

\* The locals of connect_to that live across its awaits.
Call ==
  [stage : {"identity"}, url : Urls]
    \cup [stage : {"posted"}, url : Urls, peer : PublicKeys, req : Request]
    \cup [stage : {"answered"}, url : Urls, peer : PublicKeys, req : Request,
          resp : Response]

ASSUME NoCallAssumption == NoCall \notin Call

InStage(n, stage) == call[n] # NoCall /\ call[n].stage = stage

-----------------------------------------------------------------------------
(* connect_to.                                                             *)

MayDialAnyone(n) == TRUE

\* The early returns: a session with a URL is kept, whatever URL is typed.
MayDial(n) == Connected(n) => session[n].peer_url = NoUrl

ConnectToStart(n, u) ==
  /\ <<n, u>> \in Dials
  /\ ioLock[n] = "free"
  /\ calls[n] < MaxCalls
  /\ MayDial(n)
  /\ ioLock' = [ioLock EXCEPT ![n] = "connect"]
  /\ call' = [call EXCEPT ![n] = [stage |-> "identity", url |-> u]]
  /\ UNCHANGED <<epoch, advertise, session, poller, calls, stale, offered, answered>>

\* The request of n to the process m that answered /identity with key peer.
HandshakeRequest(n, m, peer) ==
  [to |-> m,
   public_key |-> PublicKey(n),
   listen_url |-> advertise[n],
   proof |-> Encrypt(Derive(SharedSecret(PublicKey(n), peer), TRUE),
                     HandshakeTranscript(PublicKey(n), peer))]

\* GET /identity is answered under a read lock and never waits for io_lock.
ConnectToPost(n) ==
  /\ InStage(n, "identity")
  /\ Serves[call[n].url] \in Nodes
  /\ LET m == Serves[call[n].url]
         peer == PublicKey(m)
     IN /\ call' = [call EXCEPT ![n] =
                      [stage |-> "posted", url |-> call[n].url, peer |-> peer,
                       req |-> HandshakeRequest(n, m, peer)]]
        /\ offered' = offered \cup {<<PublicKey(n), peer>>}
  /\ calls' = [calls EXCEPT ![n] = @ + 1]
  /\ UNCHANGED <<sharedVars, stale, answered>>

UncheckedResponse(n) == TRUE

KeyOnlyResponse(n) == call[n].resp.public_key = call[n].peer

\* error_for_status, the key comparison and the responder's proof.
ResponseChecks(n) ==
  LET resp == call[n].resp
      peer == call[n].peer
  IN /\ resp.ok
     /\ resp.public_key = peer
     /\ Proves(Derive(SharedSecret(PublicKey(n), peer), TRUE), resp.proof,
               HandshakeTranscript(PublicKey(n), peer))

InitiatorSession(n) ==
  [peer_url |-> call[n].url, peer_public_key |-> call[n].resp.public_key,
   local_is_initiator |-> TRUE, peer_dialable |-> TRUE]

ReturnKeepsLock(n) ==
  /\ call' = [call EXCEPT ![n] = NoCall]
  /\ UNCHANGED ioLock

ReturnFromCall(n) ==
  /\ call' = [call EXCEPT ![n] = NoCall]
  /\ ioLock' = [ioLock EXCEPT ![n] = "free"]

ConnectToSucceed(n) ==
  /\ InStage(n, "answered")
  /\ ResponseChecks(n)
  /\ session' = [session EXCEPT ![n] = InitiatorSession(n)]
  /\ poller' = [poller EXCEPT ![n] = TRUE]
  /\ ReturnFromCall(n)
  /\ UNCHANGED <<epoch, advertise, calls, stale, offered, answered>>

ConnectToReject(n) ==
  /\ InStage(n, "answered")
  /\ ~ResponseChecks(n)
  /\ ReturnFromCall(n)
  /\ UNCHANGED <<epoch, advertise, session, poller, calls, stale, offered, answered>>

\* What a caller that stops waiting leaves behind.
Abandoned(n) == IF InStage(n, "posted") THEN {call[n].req} ELSE {}

\* Any of the awaits returns a transport error.
ConnectToFail(n) ==
  /\ call[n] # NoCall
  /\ stale' = stale \cup Abandoned(n)
  /\ ReturnFromCall(n)
  /\ UNCHANGED <<epoch, advertise, session, poller, calls, offered, answered>>

-----------------------------------------------------------------------------
(* accept_handshake and the handshake route at m.                          *)

SkippedProof(m, req) == TRUE

ProofValid(m, req) ==
  Proves(Derive(SharedSecret(PublicKey(m), req.public_key), FALSE), req.proof,
         HandshakeTranscript(req.public_key, PublicKey(m)))

NeverResumes(m, req) == FALSE

\* A session exists and has the caller's key: answered again, nothing changes.
Resumes(m, req) == Connected(m) /\ session[m].peer_public_key = req.public_key

AdmitsAnyTime(m, req) == ProofValid(m, req)

Admits(m, req) == ~Connected(m) /\ ProofValid(m, req)

Accepts(m, req) == Resumes(m, req) \/ Admits(m, req)

ResponderSession(req) ==
  [peer_url |-> req.listen_url, peer_public_key |-> req.public_key,
   local_is_initiator |-> FALSE, peer_dialable |-> req.listen_url # NoUrl]

HandshakeResponse(m, req) ==
  [ok |-> Accepts(m, req),
   public_key |-> PublicKey(m),
   proof |-> Encrypt(Derive(SharedSecret(PublicKey(m), req.public_key), FALSE),
                     HandshakeTranscript(req.public_key, PublicKey(m)))]

AcceptHandshake(m, req) ==
  /\ ioLock[m] = "free"
  /\ session' = IF Admits(m, req)
                THEN [session EXCEPT ![m] = ResponderSession(req)]
                ELSE session
  /\ answered' = IF Accepts(m, req)
                 THEN answered \cup {<<req.public_key, PublicKey(m)>>}
                 ELSE answered
  /\ UNCHANGED <<epoch, advertise, ioLock, calls, offered>>

\* The route starts the poller once io_lock is free again.
EnsurePoller(m, req) ==
  poller' = IF Accepts(m, req) THEN [poller EXCEPT ![m] = TRUE] ELSE poller

\* The request of a caller that is still waiting.
AnswerCall(n) ==
  /\ InStage(n, "posted")
  /\ LET req == call[n].req
     IN /\ AcceptHandshake(req.to, req)
        /\ EnsurePoller(req.to, req)
        /\ call' = [call EXCEPT ![n] =
                      [stage |-> "answered", url |-> call[n].url,
                       peer |-> call[n].peer, req |-> req,
                       resp |-> HandshakeResponse(req.to, req)]]
  /\ UNCHANGED stale

\* A request whose caller has given up; the answer reaches nobody.  The handler may
\* be dropped with its connection while it waits to start the poller.
AnswerStale ==
  \E req \in stale :
    /\ AcceptHandshake(req.to, req)
    /\ EnsurePoller(req.to, req) \/ UNCHANGED poller
    /\ stale' = stale \ {req}
    /\ UNCHANGED call

-----------------------------------------------------------------------------
(* The rest of the process.                                                *)

\* set_advertise_host takes neither io_lock nor anything connect_to keeps.
SetAdvertiseHost(n) ==
  /\ \E u \in Advertisable[n] \ {advertise[n]} :
       advertise' = [advertise EXCEPT ![n] = u]
  /\ UNCHANGED <<epoch, session, ioLock, poller, handshakeVars>>

\* The application is started again: PeerNode::new with a fresh identity.
\* Nothing is stored, so nothing survives.
Restart(n) ==
  /\ epoch[n] < MaxEpoch
  /\ epoch' = [epoch EXCEPT ![n] = @ + 1]
  /\ \E u \in Advertisable[n] : advertise' = [advertise EXCEPT ![n] = u]
  /\ session' = [session EXCEPT ![n] = NoSession]
  /\ ioLock' = [ioLock EXCEPT ![n] = "free"]
  /\ poller' = [poller EXCEPT ![n] = FALSE]
  /\ call' = [call EXCEPT ![n] = NoCall]
  /\ stale' = stale \cup Abandoned(n)
  /\ UNCHANGED <<calls, offered, answered>>

\* send_text as this module sees it: io_lock is taken while a session exists,
\* kept for the direct delivery and released within its five second timeout.
SendTextTakes(n) ==
  /\ ioLock[n] = "free"
  /\ Connected(n)
  /\ ioLock' = [ioLock EXCEPT ![n] = "send"]
  /\ UNCHANGED <<epoch, advertise, session, poller, handshakeVars>>

SendTextReleases(n) ==
  /\ ioLock[n] = "send"
  /\ ioLock' = [ioLock EXCEPT ![n] = "free"]
  /\ UNCHANGED <<epoch, advertise, session, poller, handshakeVars>>

-----------------------------------------------------------------------------
(* The specification.                                                      *)

HSInit ==
  /\ SharedInit
  /\ call = [n \in Nodes |-> NoCall]
  /\ calls = [n \in Nodes |-> 0]
  /\ stale = {}
  /\ offered = {}
  /\ answered = {}

Establish(n) ==
  \/ \E u \in Urls : ConnectToStart(n, u)
  \/ ConnectToPost(n)
  \/ AnswerCall(n)
  \/ ConnectToSucceed(n)
  \/ ConnectToReject(n)
  \/ ConnectToFail(n)
  \/ SetAdvertiseHost(n)

HSNext ==
  \/ \E n \in Nodes :
       Establish(n) \/ Restart(n) \/ SendTextTakes(n) \/ SendTextReleases(n)
  \/ AnswerStale

HSSpec == HSInit /\ [][HSNext]_hsVars

\* The runtime polls every task that can run.  The waiters of io_lock are
\* served first come first served, so a request waiting for it is not overtaken
\* for ever: strong fairness on the answer.
HSFairness ==
  \A n \in Nodes :
    /\ WF_hsVars(ConnectToPost(n))
    /\ SF_hsVars(AnswerCall(n))
    /\ WF_hsVars(ConnectToSucceed(n) \/ ConnectToReject(n))

\* Here send_text is no more than a lock, so that it ends is assumed; PeerNode,
\* which has all of send_text, assumes nothing of the kind.
HSFairSpec ==
  /\ HSSpec
  /\ HSFairness
  /\ \A n \in Nodes : WF_hsVars(SendTextReleases(n))

-----------------------------------------------------------------------------
(* Properties.                                                             *)

\* Type invariant: every variable stays in the set the code's types give it, a
\* session is dialable exactly when it has a URL, and io_lock is held by
\* connect_to exactly while a connect_to runs.
HSTypeOK ==
  /\ SharedTypeOK
  /\ call \in [Nodes -> Call \cup {NoCall}]
  /\ calls \in [Nodes -> Nat]
  /\ stale \subseteq Request
  /\ offered \subseteq PublicKeys \X PublicKeys
  /\ answered \subseteq PublicKeys \X PublicKeys
  /\ \A n \in Nodes :
       /\ Connected(n) => session[n].peer_dialable = (session[n].peer_url # NoUrl)
       /\ (ioLock[n] = "connect") <=> (call[n] # NoCall)

\* Mutual authentication, over restarts, stale requests and broken calls: a
\* responder session was asked for by the holder of the peer key, who addressed
\* this very identity of ours; an initiator session was granted by the holder
\* of the peer key to this very identity of ours.
MutualProof ==
  \A n \in Nodes : Connected(n) =>
    LET peer == session[n].peer_public_key
    IN IF session[n].local_is_initiator
       THEN <<PublicKey(n), peer>> \in answered
       ELSE <<peer, PublicKey(n)>> \in offered

\* One remote peer per session: a session whose peer can be dialled is never
\* replaced or dropped while the process lives, whatever URL the user types and
\* whatever stale handshake arrives.
SessionPinned ==
  [][\A n \in Nodes :
       Connected(n) /\ session[n].peer_url # NoUrl
         => session'[n] = session[n] \/ epoch'[n] # epoch[n]]_hsVars

\* Every peer announces a URL, in every handshake it makes.
AllDialable == \A n \in Nodes : NoUrl \notin Advertisable[n]

\* No two nodes dial each other, and none dials itself.
DialsTo(n, m) == \E u \in Urls : <<n, u>> \in Dials /\ Serves[u] = m
OneWayDials == \A n, m \in Nodes : ~(DialsTo(n, m) /\ DialsTo(m, n))

\* The two ends of a connection: each has a session with the other's key.
Paired(n, m) ==
  /\ Connected(n) /\ session[n].peer_public_key = PublicKey(m)
  /\ Connected(m) /\ session[m].peer_public_key = PublicKey(n)

\* crypto.rs:66: the two ends of a connection encrypt with distinct keys, and
\* each decrypts with the key the other encrypts with.
DistinctDirections ==
  \A n, m \in Nodes : n # m /\ Paired(n, m) =>
    /\ SessionKeys(n).send # SessionKeys(m).send
    /\ SessionKeys(n).recv = SessionKeys(m).send

\* An initiator that believes it is connected has a counterpart: while the
\* peer's process lives, the peer holds the responder end of the same session.
CounterpartExists ==
  \A n, m \in Nodes :
    /\ Connected(n)
    /\ session[n].local_is_initiator
    /\ session[n].peer_public_key = PublicKey(m)
    => Paired(n, m) /\ ~session[m].local_is_initiator

\* A Connect whose answer was lost may be tried again and finds its session: the
\* only peers that refuse a Connect are one that was started again since it told
\* its key, and one that is in a session with somebody else.
RefusedForCause ==
  \A n \in Nodes : InStage(n, "answered") /\ ~ResponseChecks(n) =>
    LET m == call[n].req.to
    IN call[n].peer = PublicKey(m) =>
         Connected(m) /\ session[m].peer_public_key # PublicKey(n)

\* The user sees what became of Connect: connect_to returns, and io_lock with it.
ConnectReturns == \A n \in Nodes : (call[n] # NoCall) ~> (call[n] = NoCall)

=============================================================================
