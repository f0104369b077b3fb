-------------------------- MODULE Handshake_proofs ---------------------------
(***************************************************************************)
(* Theorems about Handshake, for every set of nodes and URLs, every way    *)
(* the URLs lead to nodes, every choice of what users advertise and dial,  *)
(* and every bound on calls and restarts.                                  *)
(***************************************************************************)
EXTENDS Handshake, TLAPS

-----------------------------------------------------------------------------
(* The symbolic cryptography.                                              *)

\* A handshake proof has the type the wire format gives it.
LEMMA HandshakeProofType ==
  ASSUME NEW k \in PublicKeys, NEW l \in PublicKeys,
         NEW i \in PublicKeys, NEW r \in PublicKeys, NEW role \in BOOLEAN
  PROVE  Encrypt(Derive(SharedSecret(k, l), role), HandshakeTranscript(i, r)) \in Proofs
  BY DEF Encrypt, Derive, HkdfKey, SharedSecret, HandshakeTranscript, Proofs, SendLabel, Labels

LEMMA PublicKeyType ==
  ASSUME SharedTypeOK, NEW n \in Nodes
  PROVE  PublicKey(n) \in PublicKeys
  BY DEF SharedTypeOK, PublicKey, PublicKeys

-----------------------------------------------------------------------------
(* Type correctness.                                                       *)

\* What connect_to has in hand at each of its stages.
LEMMA CallFields ==
  ASSUME HSTypeOK, NEW n \in Nodes, call[n] # NoCall
  PROVE  /\ call[n].url \in Urls
         /\ call[n].stage \in {"identity", "posted", "answered"}
         /\ call[n].stage \in {"posted", "answered"} =>
              /\ call[n].peer \in PublicKeys
              /\ call[n].req \in Request
         /\ call[n].stage = "answered" => call[n].resp \in Response
<1>1. call[n] \in Call
  BY DEF HSTypeOK
<1>2. CASE call[n] \in [stage : {"identity"}, url : Urls]
  BY <1>2
<1>3. CASE call[n] \in [stage : {"posted"}, url : Urls, peer : PublicKeys, req : Request]
  BY <1>3
<1>4. CASE call[n] \in [stage : {"answered"}, url : Urls, peer : PublicKeys,
                        req : Request, resp : Response]
  BY <1>4
<1>5. QED
  BY <1>1, <1>2, <1>3, <1>4 DEF Call

\* The values connect_to builds for the next stage.
LEMMA CallValues ==
  /\ \A u \in Urls : [stage |-> "identity", url |-> u] \in Call
  /\ \A u \in Urls, k \in PublicKeys, q \in Request :
       [stage |-> "posted", url |-> u, peer |-> k, req |-> q] \in Call
  /\ \A u \in Urls, k \in PublicKeys, q \in Request, r \in Response :
       [stage |-> "answered", url |-> u, peer |-> k, req |-> q, resp |-> r] \in Call
  BY DEF Call

LEMMA HandshakeRequestType ==
  ASSUME HSTypeOK, NEW n \in Nodes, NEW m \in Nodes, NEW k \in PublicKeys
  PROVE  HandshakeRequest(n, m, k) \in Request
<1>1. PublicKey(n) \in PublicKeys
  BY PublicKeyType DEF HSTypeOK
<1>2. advertise[n] \in Urls \cup {NoUrl}
  BY DEF HSTypeOK, SharedTypeOK
<1>3. Encrypt(Derive(SharedSecret(PublicKey(n), k), TRUE),
              HandshakeTranscript(PublicKey(n), k)) \in Proofs
  BY <1>1, HandshakeProofType
<1>4. QED
  BY <1>1, <1>2, <1>3 DEF HandshakeRequest, Request

LEMMA HandshakeResponseType ==
  ASSUME HSTypeOK, NEW m \in Nodes, NEW req \in Request
  PROVE  HandshakeResponse(m, req) \in Response
<1>1. PublicKey(m) \in PublicKeys
  BY PublicKeyType DEF HSTypeOK
<1>2. req.public_key \in PublicKeys
  BY DEF Request
<1>3. Encrypt(Derive(SharedSecret(PublicKey(m), req.public_key), FALSE),
              HandshakeTranscript(req.public_key, PublicKey(m))) \in Proofs
  BY <1>1, <1>2, HandshakeProofType
<1>4. Accepts(m, req) \in BOOLEAN
  BY DEF Accepts, Resumes, Admits
<1>5. QED
  BY <1>1, <1>3, <1>4 DEF HandshakeResponse, Response

LEMMA SessionValues ==
  ASSUME HSTypeOK
  PROVE  /\ \A n \in Nodes : InStage(n, "answered") => InitiatorSession(n) \in Session
         /\ \A req \in Request : ResponderSession(req) \in Session
<1>1. ASSUME NEW n \in Nodes, InStage(n, "answered")
      PROVE  InitiatorSession(n) \in Session
  <2>1. call[n].url \in Urls /\ call[n].resp \in Response
    BY <1>1, CallFields DEF InStage
  <2>2. call[n].resp.public_key \in PublicKeys
    BY <2>1 DEF Response
  <2>3. QED
    BY <2>1, <2>2 DEF InitiatorSession, Session
<1>2. ASSUME NEW req \in Request
      PROVE  ResponderSession(req) \in Session
  BY <1>2 DEF Request, ResponderSession, Session
<1>3. QED
  BY <1>1, <1>2

\* The part of the invariant a handshake served at m leaves in place.
LEMMA AcceptHandshakeType ==
  ASSUME HSTypeOK, NEW m \in Nodes, NEW req \in Request, AcceptHandshake(m, req),
         EnsurePoller(m, req) \/ UNCHANGED poller
  PROVE  /\ SharedTypeOK'
         /\ calls' \in [Nodes -> Nat]
         /\ offered' \subseteq PublicKeys \X PublicKeys
         /\ answered' \subseteq PublicKeys \X PublicKeys
         /\ \A n \in Nodes : Connected(n)' =>
              session'[n].peer_dialable = (session'[n].peer_url # NoUrl)
         /\ ioLock' = ioLock
<1>1. ResponderSession(req) \in Session
  BY SessionValues
<1>2. PublicKey(m) \in PublicKeys /\ req.public_key \in PublicKeys
  BY PublicKeyType DEF HSTypeOK, Request
<1>3. session' \in [Nodes -> Session \cup {NoSession}]
  BY <1>1 DEF AcceptHandshake, HSTypeOK, SharedTypeOK
<1>4. poller' \in [Nodes -> BOOLEAN]
  BY DEF EnsurePoller, HSTypeOK, SharedTypeOK
<1>5. answered' \subseteq PublicKeys \X PublicKeys
  BY <1>2 DEF AcceptHandshake, HSTypeOK
<1>6. \A n \in Nodes : Connected(n)' =>
        session'[n].peer_dialable = (session'[n].peer_url # NoUrl)
  BY DEF AcceptHandshake, HSTypeOK, SharedTypeOK, Connected, ResponderSession
<1>7. QED
  BY <1>3, <1>4, <1>5, <1>6 DEF AcceptHandshake, HSTypeOK, SharedTypeOK

\* A caller that returns: no call, io_lock free, and nothing else of the two.
LEMMA ReturnType ==
  ASSUME HSTypeOK, NEW n \in Nodes, ReturnFromCall(n)
  PROVE  /\ call' \in [Nodes -> Call \cup {NoCall}]
         /\ ioLock' \in [Nodes -> {"free", "connect", "send"}]
         /\ \A p \in Nodes : (ioLock'[p] = "connect") <=> (call'[p] # NoCall)
  BY DEF HSTypeOK, SharedTypeOK, ReturnFromCall

LEMMA AbandonedType ==
  ASSUME HSTypeOK, NEW n \in Nodes
  PROVE  Abandoned(n) \subseteq Request
  BY CallFields DEF Abandoned, InStage

LEMMA AdvertisableType ==
  ASSUME NEW n \in Nodes, NEW u \in Advertisable[n]
  PROVE  u \in Urls \cup {NoUrl}
  BY SharedAssumption

LEMMA TypeInit == HSInit => HSTypeOK
  BY NoCallAssumption, NoSessionAssumption
  DEF HSInit, SharedInit, HSTypeOK, SharedTypeOK, Connected

LEMMA TypeStep == HSTypeOK /\ [HSNext]_hsVars => HSTypeOK'
<1> SUFFICES ASSUME HSTypeOK, [HSNext]_hsVars PROVE HSTypeOK'
  OBVIOUS
<1>1. ASSUME NEW n \in Nodes, NEW u \in Urls, ConnectToStart(n, u)
      PROVE  HSTypeOK'
  <2>1. [stage |-> "identity", url |-> u] \in Call
    BY CallValues
  <2>2. call' \in [Nodes -> Call \cup {NoCall}]
    BY <1>1, <2>1 DEF ConnectToStart, HSTypeOK
  <2>3. \A p \in Nodes : (ioLock'[p] = "connect") <=> (call'[p] # NoCall)
    BY <1>1, <2>1, NoCallAssumption DEF ConnectToStart, HSTypeOK, SharedTypeOK
  <2>4. QED
    BY <1>1, <2>2, <2>3 DEF ConnectToStart, HSTypeOK, SharedTypeOK, Connected
<1>2. ASSUME NEW n \in Nodes, ConnectToPost(n)
      PROVE  HSTypeOK'
  <2> DEFINE m == Serves[call[n].url]
             req == HandshakeRequest(n, m, PublicKey(m))
             posted == [stage |-> "posted", url |-> call[n].url,
                        peer |-> PublicKey(m), req |-> req]
  <2>1. call[n] # NoCall /\ m \in Nodes
    BY <1>2 DEF ConnectToPost, InStage
  <2>2. PublicKey(n) \in PublicKeys /\ PublicKey(m) \in PublicKeys
    BY <2>1, PublicKeyType DEF HSTypeOK
  <2>3. posted \in Call
    BY <2>1, <2>2, CallFields, CallValues, HandshakeRequestType
  <2>4. call' = [call EXCEPT ![n] = posted]
    BY <1>2 DEF ConnectToPost
  <2>5. call' \in [Nodes -> Call \cup {NoCall}]
    BY <2>3, <2>4 DEF HSTypeOK
  <2>6. \A p \in Nodes : (ioLock'[p] = "connect") <=> (call'[p] # NoCall)
    BY <1>2, <2>1, <2>3, <2>4, NoCallAssumption
    DEF ConnectToPost, HSTypeOK, SharedTypeOK, sharedVars
  <2>7. offered' \subseteq PublicKeys \X PublicKeys
    BY <1>2, <2>2 DEF ConnectToPost, HSTypeOK
  <2>8. QED
    BY <1>2, <2>5, <2>6, <2>7
    DEF ConnectToPost, HSTypeOK, SharedTypeOK, Connected, sharedVars
<1>3. ASSUME NEW n \in Nodes, AnswerCall(n)
      PROVE  HSTypeOK'
  <2> DEFINE req == call[n].req
             answer == [stage |-> "answered", url |-> call[n].url,
                        peer |-> call[n].peer, req |-> req,
                        resp |-> HandshakeResponse(req.to, req)]
  <2>1. call[n] # NoCall /\ call[n].stage = "posted"
    BY <1>3 DEF AnswerCall, InStage
  <2>2. req \in Request /\ call[n].url \in Urls /\ call[n].peer \in PublicKeys
    BY <2>1, CallFields
  <2>3. req.to \in Nodes
    BY <2>2 DEF Request
  <2>4. answer \in Call
    BY <2>2, <2>3, CallValues, HandshakeResponseType
  <2>5. /\ AcceptHandshake(req.to, req) /\ EnsurePoller(req.to, req)
        /\ call' = [call EXCEPT ![n] = answer]
    BY <1>3 DEF AnswerCall
  <2>6. call' \in [Nodes -> Call \cup {NoCall}]
    BY <2>4, <2>5 DEF HSTypeOK
  <2>7. \A p \in Nodes : (ioLock'[p] = "connect") <=> (call'[p] # NoCall)
    BY <2>1, <2>2, <2>3, <2>4, <2>5, AcceptHandshakeType, NoCallAssumption DEF HSTypeOK
  <2>8. QED
    BY <1>3, <2>2, <2>3, <2>5, <2>6, <2>7, AcceptHandshakeType DEF HSTypeOK, AnswerCall
<1>4. ASSUME NEW n \in Nodes, ConnectToSucceed(n)
      PROVE  HSTypeOK'
  <2>1. InitiatorSession(n) \in Session /\ call[n].url \in Urls
    BY <1>4, SessionValues, CallFields DEF ConnectToSucceed, InStage
  <2>2. session' \in [Nodes -> Session \cup {NoSession}]
    BY <1>4, <2>1 DEF ConnectToSucceed, HSTypeOK, SharedTypeOK
  <2>3. \A p \in Nodes : Connected(p)' =>
          session'[p].peer_dialable = (session'[p].peer_url # NoUrl)
    BY <1>4, <2>1, SharedAssumption
    DEF ConnectToSucceed, InitiatorSession, HSTypeOK, SharedTypeOK, Connected
  <2>4. poller' \in [Nodes -> BOOLEAN]
    BY <1>4 DEF ConnectToSucceed, HSTypeOK, SharedTypeOK
  <2>5. ReturnFromCall(n)
    BY <1>4 DEF ConnectToSucceed
  <2>6. QED
    BY <1>4, <2>2, <2>3, <2>4, <2>5, ReturnType DEF ConnectToSucceed, HSTypeOK, SharedTypeOK
<1>5. ASSUME NEW n \in Nodes, ConnectToReject(n)
      PROVE  HSTypeOK'
  BY <1>5, ReturnType DEF ConnectToReject, HSTypeOK, SharedTypeOK, Connected
<1>6. ASSUME NEW n \in Nodes, ConnectToFail(n)
      PROVE  HSTypeOK'
  BY <1>6, ReturnType, AbandonedType DEF ConnectToFail, HSTypeOK, SharedTypeOK, Connected
<1>7. ASSUME NEW n \in Nodes, SetAdvertiseHost(n)
      PROVE  HSTypeOK'
  <2>1. PICK u \in Advertisable[n] : advertise' = [advertise EXCEPT ![n] = u]
    BY <1>7 DEF SetAdvertiseHost
  <2>2. advertise' \in [Nodes -> Urls \cup {NoUrl}]
    BY <2>1, AdvertisableType DEF HSTypeOK, SharedTypeOK
  <2>3. QED
    BY <1>7, <2>2 DEF SetAdvertiseHost, HSTypeOK, SharedTypeOK, Connected, handshakeVars
<1>8. ASSUME NEW n \in Nodes, Restart(n)
      PROVE  HSTypeOK'
  <2>1. PICK u \in Advertisable[n] : advertise' = [advertise EXCEPT ![n] = u]
    BY <1>8 DEF Restart
  <2>2. advertise' \in [Nodes -> Urls \cup {NoUrl}]
    BY <2>1, AdvertisableType DEF HSTypeOK, SharedTypeOK
  <2>3. /\ epoch' \in [Nodes -> Nat]
        /\ session' \in [Nodes -> Session \cup {NoSession}]
        /\ poller' \in [Nodes -> BOOLEAN]
        /\ stale' \subseteq Request
    BY <1>8, AbandonedType DEF Restart, HSTypeOK, SharedTypeOK
  <2>4. ReturnFromCall(n)
    BY <1>8 DEF Restart, ReturnFromCall
  <2>5. \A p \in Nodes : Connected(p)' =>
          session'[p].peer_dialable = (session'[p].peer_url # NoUrl)
    BY <1>8 DEF Restart, HSTypeOK, SharedTypeOK, Connected
  <2>6. QED
    BY <1>8, <2>2, <2>3, <2>4, <2>5, ReturnType DEF Restart, HSTypeOK, SharedTypeOK
<1>9. ASSUME NEW n \in Nodes, SendTextTakes(n) \/ SendTextReleases(n)
      PROVE  HSTypeOK'
  BY <1>9
  DEF SendTextTakes, SendTextReleases, HSTypeOK, SharedTypeOK, Connected, handshakeVars
<1>10. ASSUME AnswerStale
       PROVE  HSTypeOK'
  <2>1. PICK req \in stale : /\ AcceptHandshake(req.to, req)
                             /\ EnsurePoller(req.to, req) \/ UNCHANGED poller
                             /\ stale' = stale \ {req}
                             /\ UNCHANGED call
    BY <1>10 DEF AnswerStale
  <2>2. req \in Request /\ req.to \in Nodes
    BY DEF HSTypeOK, Request
  <2>3. QED
    BY <2>1, <2>2, AcceptHandshakeType DEF HSTypeOK
<1>11. CASE UNCHANGED hsVars
  BY <1>11 DEF hsVars, sharedVars, handshakeVars, HSTypeOK, SharedTypeOK, Connected
<1>12. QED
  BY <1>1, <1>2, <1>3, <1>4, <1>5, <1>6, <1>7, <1>8, <1>9, <1>10, <1>11
  DEF HSNext, Establish

\* Whatever users type and whatever the network does: the state of the code's
\* types, dialable exactly with a URL, and io_lock with connect_to exactly while
\* one runs.
THEOREM TypeCorrect == HSSpec => []HSTypeOK
<1>1. HSInit => HSTypeOK
  BY TypeInit
<1>2. HSTypeOK /\ [HSNext]_hsVars => HSTypeOK'
  BY TypeStep
<1>3. QED
  BY <1>1, <1>2, PTL DEF HSSpec

-----------------------------------------------------------------------------
(* Mutual authentication.  What a proof says must already have been offered *)
(* when it is on its way, and an answer that says ok must be on record, so  *)
(* that the session built from either is covered.                           *)

\* The requests that may still be served.
Pending(req) ==
  \/ req \in stale
  \/ \E n \in Nodes : call[n] # NoCall /\ call[n].stage = "posted" /\ req = call[n].req

\* Whatever identity the proof of a request names was offered that handshake.
OfferedByProof(req) ==
  \A k \in PublicKeys :
    req.proof.plain = HandshakeTranscript(req.public_key, k)
      => <<req.public_key, k>> \in offered

ProofInv ==
  /\ HSTypeOK
  /\ MutualProof
  /\ \A req \in Request : Pending(req) => OfferedByProof(req)
  /\ \A n \in Nodes : call[n] # NoCall =>
       /\ call[n].stage \in {"posted", "answered"} => call[n].req.public_key = PublicKey(n)
       /\ call[n].stage = "answered" /\ call[n].resp.ok =>
            <<PublicKey(n), call[n].resp.public_key>> \in answered

LEMMA TranscriptInjective ==
  ASSUME NEW i, NEW r, NEW j, NEW s,
         HandshakeTranscript(i, r) = HandshakeTranscript(j, s)
  PROVE  i = j /\ r = s
  BY DEF HandshakeTranscript

\* A served request leaves every session covered.
LEMMA AcceptHandshakeProof ==
  ASSUME ProofInv, NEW m \in Nodes, NEW req \in Request, Pending(req),
         AcceptHandshake(m, req)
  PROVE  /\ MutualProof'
         /\ answered \subseteq answered'
         /\ Accepts(m, req) => <<req.public_key, PublicKey(m)>> \in answered'
         /\ offered' = offered
         /\ \A n \in Nodes : PublicKey(n)' = PublicKey(n)
<1>1. \A n \in Nodes : PublicKey(n)' = PublicKey(n)
  BY DEF AcceptHandshake, PublicKey
<1>2. offered' = offered /\ answered \subseteq answered'
  BY DEF AcceptHandshake
<1>3. Accepts(m, req) => <<req.public_key, PublicKey(m)>> \in answered'
  BY DEF AcceptHandshake
<1>4. PublicKey(m) \in PublicKeys
  BY PublicKeyType DEF ProofInv, HSTypeOK
<1>5. Admits(m, req) => <<req.public_key, PublicKey(m)>> \in offered
  BY <1>4 DEF Admits, ProofValid, Proves, ProofInv, OfferedByProof
<1>6. ASSUME NEW n \in Nodes, Connected(n)'
      PROVE  IF session'[n].local_is_initiator
             THEN <<PublicKey(n), session'[n].peer_public_key>> \in answered'
             ELSE <<session'[n].peer_public_key, PublicKey(n)>> \in offered'
  <2>1. CASE session'[n] = session[n]
    BY <1>2, <1>6, <2>1 DEF ProofInv, MutualProof, Connected
  <2>2. CASE session'[n] # session[n]
    <3>1. n = m /\ Admits(m, req) /\ session'[m] = ResponderSession(req)
      BY <2>2 DEF AcceptHandshake, ProofInv, HSTypeOK, SharedTypeOK
    <3>2. QED
      BY <1>2, <1>5, <3>1 DEF ResponderSession
  <2>3. QED
    BY <2>1, <2>2
<1>7. MutualProof'
  BY <1>1, <1>6 DEF MutualProof
<1>8. QED
  BY <1>1, <1>2, <1>3, <1>7

LEMMA ProofInit == HSInit => ProofInv
  BY TypeInit DEF HSInit, SharedInit, ProofInv, MutualProof, Connected, Pending

\* A step that keeps the identities, the sessions and the histories, and adds
\* neither requests nor answers, keeps the invariant.
LEMMA ProofFrame ==
  ASSUME ProofInv, HSTypeOK', UNCHANGED <<epoch, session, offered, answered>>,
         \A req \in Request : Pending(req)' => Pending(req),
         \A n \in Nodes : call'[n] # NoCall /\ call'[n].stage \in {"posted", "answered"}
                            => call'[n] = call[n]
  PROVE  ProofInv'
<1>1. \A n \in Nodes : PublicKey(n)' = PublicKey(n)
  BY DEF PublicKey
<1>2. MutualProof'
  BY <1>1 DEF ProofInv, MutualProof, Connected
<1>3. \A req \in Request : OfferedByProof(req)' = OfferedByProof(req)
  BY DEF OfferedByProof
<1>4. QED
  BY <1>1, <1>2, <1>3 DEF ProofInv

LEMMA ProofStep == ProofInv /\ [HSNext]_hsVars => ProofInv'
<1> SUFFICES ASSUME ProofInv, [HSNext]_hsVars PROVE ProofInv'
  OBVIOUS
<1>0. HSTypeOK /\ HSTypeOK'
  BY TypeStep DEF ProofInv
<1>1. ASSUME NEW n \in Nodes, NEW u \in Urls, ConnectToStart(n, u)
      PROVE  ProofInv'
  <2>1. \A p \in Nodes : call'[p] = IF p = n THEN [stage |-> "identity", url |-> u] ELSE call[p]
    BY <1>0, <1>1 DEF ConnectToStart, HSTypeOK
  <2>2. QED
    BY <1>0, <1>1, <2>1, ProofFrame DEF ConnectToStart, Pending
<1>2. ASSUME NEW n \in Nodes, ConnectToPost(n)
      PROVE  ProofInv'
  <2> DEFINE m == Serves[call[n].url]
  <2>0. m \in Nodes /\ PublicKey(m) \in PublicKeys
    BY <1>0, <1>2, PublicKeyType DEF ConnectToPost, HSTypeOK
  <2> PICK req \in Request : req = HandshakeRequest(n, m, PublicKey(m))
    BY <1>0, <2>0, HandshakeRequestType
  <2> DEFINE posted == [stage |-> "posted", url |-> call[n].url,
                        peer |-> PublicKey(m), req |-> req]
  <2>1. /\ \A p \in Nodes : call'[p] = IF p = n THEN posted ELSE call[p]
        /\ offered' = offered \cup {<<PublicKey(n), PublicKey(m)>>}
    BY <1>0, <1>2 DEF ConnectToPost, HSTypeOK
  <2>2. /\ \A p \in Nodes : PublicKey(p)' = PublicKey(p)
        /\ UNCHANGED <<session, stale, answered>>
    BY <1>2 DEF ConnectToPost, sharedVars, PublicKey
  <2>3. MutualProof'
    BY <2>1, <2>2 DEF ProofInv, MutualProof, Connected
  <2>4. req.public_key = PublicKey(n) /\ OfferedByProof(req)'
    BY <2>1, <2>2, TranscriptInjective DEF HandshakeRequest, Encrypt, OfferedByProof
  <2>5. \A r \in Request : Pending(r)' => Pending(r) \/ r = req
    BY <2>1, <2>2 DEF Pending
  <2>6. \A r \in Request : OfferedByProof(r) => OfferedByProof(r)'
    BY <2>1 DEF OfferedByProof
  <2>7. \A r \in Request : Pending(r)' => OfferedByProof(r)'
    BY <2>4, <2>5, <2>6 DEF ProofInv
  <2>8. QED
    BY <1>0, <2>1, <2>2, <2>3, <2>4, <2>7 DEF ProofInv
<1>3. ASSUME NEW n \in Nodes, AnswerCall(n)
      PROVE  ProofInv'
  <2> DEFINE req == call[n].req
             answer == [stage |-> "answered", url |-> call[n].url,
                        peer |-> call[n].peer, req |-> req,
                        resp |-> HandshakeResponse(req.to, req)]
  <2>1. call[n] # NoCall /\ call[n].stage = "posted"
    BY <1>3 DEF AnswerCall, InStage
  <2>2. req \in Request /\ req.to \in Nodes /\ Pending(req)
    BY <1>0, <2>1, CallFields DEF Request, Pending
  <2>3. /\ AcceptHandshake(req.to, req)
        /\ \A p \in Nodes : call'[p] = IF p = n THEN answer ELSE call[p]
        /\ stale' = stale
    BY <1>0, <1>3 DEF AnswerCall, HSTypeOK
  <2>4. /\ MutualProof'
        /\ answered \subseteq answered'
        /\ Accepts(req.to, req) => <<req.public_key, PublicKey(req.to)>> \in answered'
        /\ offered' = offered
        /\ \A p \in Nodes : PublicKey(p)' = PublicKey(p)
    BY <2>2, <2>3, AcceptHandshakeProof
  <2>5. \A r \in Request : Pending(r)' => OfferedByProof(r)'
    BY <2>3, <2>4 DEF Pending, ProofInv, OfferedByProof
  <2>6. req.public_key = PublicKey(n)
    BY <2>1 DEF ProofInv
  <2>7. answer.resp.ok => <<PublicKey(n), answer.resp.public_key>> \in answered'
    BY <2>4, <2>6 DEF HandshakeResponse
  <2>8. QED
    BY <1>0, <2>3, <2>4, <2>5, <2>6, <2>7 DEF ProofInv
<1>4. ASSUME NEW n \in Nodes, ConnectToSucceed(n)
      PROVE  ProofInv'
  <2>1. call[n] # NoCall /\ call[n].stage = "answered" /\ call[n].resp.ok
    BY <1>4 DEF ConnectToSucceed, InStage, ResponseChecks
  <2>2. <<PublicKey(n), call[n].resp.public_key>> \in answered
    BY <2>1 DEF ProofInv
  <2>3. /\ \A p \in Nodes : session'[p] = IF p = n THEN InitiatorSession(n) ELSE session[p]
        /\ \A p \in Nodes : call'[p] = IF p = n THEN NoCall ELSE call[p]
        /\ UNCHANGED <<stale, offered, answered>>
        /\ \A p \in Nodes : PublicKey(p)' = PublicKey(p)
    BY <1>0, <1>4 DEF ConnectToSucceed, ReturnFromCall, PublicKey, HSTypeOK, SharedTypeOK
  <2>4. MutualProof'
    BY <2>2, <2>3 DEF ProofInv, MutualProof, Connected, InitiatorSession
  <2>5. \A r \in Request : Pending(r)' => OfferedByProof(r)'
    BY <2>3 DEF Pending, ProofInv, OfferedByProof
  <2>6. QED
    BY <1>0, <2>3, <2>4, <2>5 DEF ProofInv
<1>5. ASSUME NEW n \in Nodes, ConnectToReject(n)
      PROVE  ProofInv'
  <2>1. \A p \in Nodes : call'[p] = IF p = n THEN NoCall ELSE call[p]
    BY <1>0, <1>5 DEF ConnectToReject, ReturnFromCall, HSTypeOK
  <2>2. QED
    BY <1>0, <1>5, <2>1, ProofFrame DEF ConnectToReject, Pending
<1>6. ASSUME NEW n \in Nodes, ConnectToFail(n)
      PROVE  ProofInv'
  <2>1. \A p \in Nodes : call'[p] = IF p = n THEN NoCall ELSE call[p]
    BY <1>0, <1>6 DEF ConnectToFail, ReturnFromCall, HSTypeOK
  <2>2. \A r \in Request : Pending(r)' => Pending(r)
    BY <1>6, <2>1 DEF ConnectToFail, Abandoned, InStage, Pending
  <2>3. QED
    BY <1>0, <1>6, <2>1, <2>2, ProofFrame DEF ConnectToFail
<1>7. ASSUME NEW n \in Nodes, SetAdvertiseHost(n)
      PROVE  ProofInv'
  BY <1>0, <1>7, ProofFrame DEF SetAdvertiseHost, handshakeVars, Pending
<1>8. ASSUME NEW n \in Nodes, Restart(n)
      PROVE  ProofInv'
  <2>1. /\ \A p \in Nodes : session'[p] = IF p = n THEN NoSession ELSE session[p]
        /\ \A p \in Nodes : call'[p] = IF p = n THEN NoCall ELSE call[p]
        /\ \A p \in Nodes \ {n} : PublicKey(p)' = PublicKey(p)
        /\ UNCHANGED <<offered, answered>>
    BY <1>0, <1>8 DEF Restart, PublicKey, HSTypeOK, SharedTypeOK
  <2>2. MutualProof'
    BY <2>1 DEF ProofInv, MutualProof, Connected
  <2>3. \A r \in Request : Pending(r)' => Pending(r)
    BY <1>8, <2>1 DEF Restart, Abandoned, InStage, Pending
  <2>4. \A r \in Request : Pending(r)' => OfferedByProof(r)'
    BY <2>1, <2>3 DEF ProofInv, OfferedByProof
  <2>5. QED
    BY <1>0, <2>1, <2>2, <2>4 DEF ProofInv
<1>9. ASSUME NEW n \in Nodes, SendTextTakes(n) \/ SendTextReleases(n)
      PROVE  ProofInv'
  BY <1>0, <1>9, ProofFrame DEF SendTextTakes, SendTextReleases, handshakeVars, Pending
<1>10. ASSUME AnswerStale
       PROVE  ProofInv'
  <2>1. PICK req \in stale : /\ AcceptHandshake(req.to, req)
                             /\ stale' = stale \ {req}
                             /\ UNCHANGED call
    BY <1>10 DEF AnswerStale
  <2>2. req \in Request /\ req.to \in Nodes /\ Pending(req)
    BY <1>0 DEF HSTypeOK, Request, Pending
  <2>3. /\ MutualProof'
        /\ answered \subseteq answered'
        /\ offered' = offered
        /\ \A p \in Nodes : PublicKey(p)' = PublicKey(p)
    BY <2>1, <2>2, AcceptHandshakeProof
  <2>4. \A r \in Request : Pending(r)' => OfferedByProof(r)'
    BY <2>1, <2>3 DEF Pending, ProofInv, OfferedByProof
  <2>5. QED
    BY <1>0, <2>1, <2>3, <2>4 DEF ProofInv
<1>11. CASE UNCHANGED hsVars
  BY <1>0, <1>11, ProofFrame DEF hsVars, sharedVars, handshakeVars, Pending
<1>12. QED
  BY <1>1, <1>2, <1>3, <1>4, <1>5, <1>6, <1>7, <1>8, <1>9, <1>10, <1>11
  DEF HSNext, Establish

\* Mutual authentication for any number of nodes, calls and restarts: no stale,
\* delayed or misdirected handshake gives a session its peer did not take part in.
THEOREM MutualAuthentication == HSSpec => []MutualProof
<1>1. HSInit => ProofInv
  BY ProofInit
<1>2. ProofInv /\ [HSNext]_hsVars => ProofInv'
  BY ProofStep
<1>3. ProofInv => MutualProof
  BY DEF ProofInv
<1>4. QED
  BY <1>1, <1>2, <1>3, PTL DEF HSSpec

-----------------------------------------------------------------------------
(* One remote peer.  connect_to looks at the session once, when it starts; *)
(* io_lock is what keeps that look valid until it writes the session.      *)

PinInv ==
  /\ HSTypeOK
  /\ \A n \in Nodes : call[n] # NoCall => MayDial(n)

\* The ways a session can change.
LEMMA SessionChange ==
  ASSUME PinInv, [HSNext]_hsVars, NEW n \in Nodes, session'[n] # session[n]
  PROVE  \/ /\ call[n] # NoCall /\ MayDial(n)
            /\ ConnectToSucceed(n)
         \/ /\ ~Connected(n)
            /\ call[n] = NoCall
            /\ call'[n] = NoCall
            /\ \E req \in Request : Pending(req) /\ Admits(n, req)
                                   /\ session'[n] = ResponderSession(req)
         \/ /\ Restart(n)
            /\ session'[n] = NoSession
            /\ call'[n] = NoCall
            /\ epoch'[n] = epoch[n] + 1
<1>0. HSTypeOK
  BY DEF PinInv
<1>1. ASSUME NEW m \in Nodes, AnswerCall(m)
      PROVE  /\ ~Connected(n) /\ call[n] = NoCall /\ call'[n] = NoCall
             /\ \E req \in Request : Pending(req) /\ Admits(n, req)
                                    /\ session'[n] = ResponderSession(req)
  <2> DEFINE req == call[m].req
  <2>1. call[m] # NoCall /\ call[m].stage = "posted"
    BY <1>1 DEF AnswerCall, InStage
  <2>2. req \in Request /\ Pending(req)
    BY <1>0, <2>1, CallFields DEF Pending
  <2>3. AcceptHandshake(req.to, req)
    BY <1>1 DEF AnswerCall
  <2>4. n = req.to /\ Admits(n, req) /\ session'[n] = ResponderSession(req)
    BY <1>0, <2>3 DEF AcceptHandshake, HSTypeOK, SharedTypeOK
  <2>5. call[n] = NoCall
    BY <1>0, <2>3, <2>4 DEF AcceptHandshake, HSTypeOK
  <2>6. call'[n] = call[n]
    BY <1>0, <1>1, <2>1, <2>5 DEF AnswerCall, HSTypeOK
  <2>7. QED
    BY <2>2, <2>4, <2>5, <2>6 DEF Admits
<1>2. ASSUME AnswerStale
      PROVE  /\ ~Connected(n) /\ call[n] = NoCall /\ call'[n] = NoCall
             /\ \E req \in Request : Pending(req) /\ Admits(n, req)
                                    /\ session'[n] = ResponderSession(req)
  <2>1. PICK req \in stale : AcceptHandshake(req.to, req) /\ UNCHANGED call
    BY <1>2 DEF AnswerStale
  <2>2. req \in Request /\ Pending(req)
    BY <1>0 DEF HSTypeOK, Pending
  <2>3. n = req.to /\ Admits(n, req) /\ session'[n] = ResponderSession(req)
    BY <1>0, <2>1 DEF AcceptHandshake, HSTypeOK, SharedTypeOK
  <2>4. call[n] = NoCall
    BY <1>0, <2>1, <2>3 DEF AcceptHandshake, HSTypeOK
  <2>5. QED
    BY <2>1, <2>2, <2>3, <2>4 DEF Admits
<1>3. ASSUME NEW m \in Nodes, ConnectToSucceed(m)
      PROVE  n = m /\ call[n] # NoCall /\ MayDial(n)
  BY <1>0, <1>3 DEF ConnectToSucceed, InStage, PinInv, HSTypeOK, SharedTypeOK
<1>4. ASSUME NEW m \in Nodes, Restart(m)
      PROVE  /\ n = m /\ session'[n] = NoSession /\ call'[n] = NoCall
             /\ epoch'[n] = epoch[n] + 1
  BY <1>0, <1>4 DEF Restart, HSTypeOK, SharedTypeOK
<1>5. ASSUME NEW m \in Nodes,
             \/ \E u \in Urls : ConnectToStart(m, u)
             \/ ConnectToPost(m) \/ ConnectToReject(m) \/ ConnectToFail(m)
             \/ SetAdvertiseHost(m) \/ SendTextTakes(m) \/ SendTextReleases(m)
      PROVE  FALSE
  BY <1>5 DEF ConnectToStart, ConnectToPost, ConnectToReject, ConnectToFail,
              SetAdvertiseHost, SendTextTakes, SendTextReleases, sharedVars
<1>6. CASE UNCHANGED hsVars
  BY <1>6 DEF hsVars, sharedVars
<1>7. QED
  BY <1>1, <1>2, <1>3, <1>4, <1>5, <1>6 DEF HSNext, Establish

LEMMA PinInit == HSInit => PinInv
  BY TypeInit DEF HSInit, PinInv

LEMMA PinStep == PinInv /\ [HSNext]_hsVars => PinInv'
<1> SUFFICES ASSUME PinInv, [HSNext]_hsVars PROVE PinInv'
  OBVIOUS
<1>0. HSTypeOK /\ HSTypeOK'
  BY TypeStep DEF PinInv
<1> SUFFICES ASSUME NEW n \in Nodes, call'[n] # NoCall PROVE MayDial(n)'
  BY <1>0 DEF PinInv
<1>1. CASE session'[n] # session[n]
  <2>1. ~ConnectToSucceed(n)
    BY <1>0 DEF ConnectToSucceed, ReturnFromCall, HSTypeOK
  <2>2. QED
    BY <1>1, <2>1, SessionChange
<1>2. CASE session'[n] = session[n] /\ call[n] # NoCall
  BY <1>2 DEF PinInv, MayDial, Connected
<1>3. CASE session'[n] = session[n] /\ call[n] = NoCall
  <2>1. ASSUME NEW m \in Nodes, NEW u \in Urls, ConnectToStart(m, u)
        PROVE  MayDial(n)
    BY <1>0, <1>3, <2>1 DEF ConnectToStart, HSTypeOK
  <2>2. ASSUME NEW m \in Nodes,
               \/ ConnectToPost(m) \/ AnswerCall(m) \/ ConnectToSucceed(m)
               \/ ConnectToReject(m) \/ ConnectToFail(m) \/ SetAdvertiseHost(m)
               \/ Restart(m) \/ SendTextTakes(m) \/ SendTextReleases(m)
        PROVE  call'[n] = NoCall
    BY <1>0, <1>3, <2>2
    DEF ConnectToPost, AnswerCall, ConnectToSucceed, ConnectToReject, ConnectToFail,
        SetAdvertiseHost, Restart, SendTextTakes, SendTextReleases, ReturnFromCall,
        handshakeVars, InStage, HSTypeOK
  <2>3. AnswerStale \/ UNCHANGED hsVars => call'[n] = NoCall
    BY <1>3 DEF AnswerStale, hsVars, handshakeVars
  <2>4. MayDial(n)
    BY <2>1, <2>2, <2>3 DEF HSNext, Establish
  <2>5. QED
    BY <1>3, <2>4 DEF MayDial, Connected
<1>4. QED
  BY <1>1, <1>2, <1>3

LEMMA PinCorrect == HSSpec => []PinInv
  BY PinInit, PinStep, PTL DEF HSSpec

\* A session with a peer that can be dialled stays what it is until the process
\* ends, for every interleaving of calls, stale requests and sends.
THEOREM SessionKept == HSSpec => SessionPinned
<1>1. ASSUME PinInv, [HSNext]_hsVars, NEW n \in Nodes,
             Connected(n), session[n].peer_url # NoUrl
      PROVE  session'[n] = session[n] \/ epoch'[n] # epoch[n]
  <2>1. epoch[n] \in Nat
    BY <1>1 DEF PinInv, HSTypeOK, SharedTypeOK
  <2>2. QED
    BY <1>1, <2>1, SessionChange DEF MayDial
<1>2. PinInv /\ [HSNext]_hsVars =>
        [\A n \in Nodes : Connected(n) /\ session[n].peer_url # NoUrl
           => session'[n] = session[n] \/ epoch'[n] # epoch[n]]_hsVars
  BY <1>1
<1>3. QED
  BY <1>2, PinCorrect, PTL DEF HSSpec, SessionPinned

-----------------------------------------------------------------------------
(* The two ends of a session.  An initiator's session has a counterpart    *)
(* when every node announces a URL: the responder end is made before the   *)
(* answer that the initiator's is made from, and between the two neither   *)
(* end can take another session.  The two ends use distinct keys when no   *)
(* two nodes dial each other.                                              *)

\* How a step can change one part of the state.

LEMMA EpochChange ==
  ASSUME HSTypeOK, [HSNext]_hsVars, NEW n \in Nodes, epoch'[n] # epoch[n]
  PROVE  /\ epoch'[n] = epoch[n] + 1
         /\ session'[n] = NoSession
         /\ call'[n] = NoCall
<1>1. ASSUME NEW m \in Nodes, Restart(m)
      PROVE  /\ epoch'[n] = epoch[n] + 1
             /\ session'[n] = NoSession
             /\ call'[n] = NoCall
  BY <1>1 DEF Restart, HSTypeOK, SharedTypeOK
<1>2. ASSUME NEW m \in Nodes,
             \/ \E u \in Urls : ConnectToStart(m, u)
             \/ ConnectToPost(m) \/ AnswerCall(m) \/ ConnectToSucceed(m)
             \/ ConnectToReject(m) \/ ConnectToFail(m) \/ SetAdvertiseHost(m)
             \/ SendTextTakes(m) \/ SendTextReleases(m)
      PROVE  FALSE
  BY <1>2 DEF ConnectToStart, ConnectToPost, AnswerCall, AcceptHandshake, ConnectToSucceed,
              ConnectToReject, ConnectToFail, SetAdvertiseHost, SendTextTakes,
              SendTextReleases, sharedVars
<1>3. ~AnswerStale /\ ~UNCHANGED hsVars
  BY DEF AnswerStale, AcceptHandshake, hsVars, sharedVars
<1>4. QED
  BY <1>1, <1>2, <1>3 DEF HSNext, Establish

LEMMA PendingChange ==
  ASSUME HSTypeOK, [HSNext]_hsVars, NEW req \in Request, Pending(req)'
  PROVE  \/ Pending(req)
         \/ \E n \in Nodes : \E m \in Nodes :
              /\ ConnectToPost(n)
              /\ m = Serves[call[n].url]
              /\ req = HandshakeRequest(n, m, PublicKey(m))
<1>1. ASSUME NEW n \in Nodes, ConnectToPost(n)
      PROVE  \/ Pending(req)
             \/ \E m \in Nodes : /\ m = Serves[call[n].url]
                                 /\ req = HandshakeRequest(n, m, PublicKey(m))
  BY <1>1 DEF ConnectToPost, Pending, HSTypeOK
<1>2. ASSUME NEW n \in Nodes, NEW u \in Urls, ConnectToStart(n, u)
      PROVE  Pending(req)
  BY <1>2 DEF ConnectToStart, Pending, HSTypeOK
<1>3. ASSUME NEW n \in Nodes, AnswerCall(n)
      PROVE  Pending(req)
  BY <1>3 DEF AnswerCall, Pending, HSTypeOK
<1>4. ASSUME NEW n \in Nodes, ConnectToSucceed(n) \/ ConnectToReject(n)
      PROVE  Pending(req)
  BY <1>4 DEF ConnectToSucceed, ConnectToReject, ReturnFromCall, Pending, HSTypeOK
<1>5. ASSUME NEW n \in Nodes, ConnectToFail(n) \/ Restart(n)
      PROVE  Pending(req)
  BY <1>5 DEF ConnectToFail, Restart, ReturnFromCall, Abandoned, InStage, Pending, HSTypeOK
<1>6. ASSUME NEW n \in Nodes,
             SetAdvertiseHost(n) \/ SendTextTakes(n) \/ SendTextReleases(n)
      PROVE  Pending(req)
  BY <1>6 DEF SetAdvertiseHost, SendTextTakes, SendTextReleases, handshakeVars, Pending
<1>7. CASE AnswerStale
  BY <1>7 DEF AnswerStale, Pending
<1>8. CASE UNCHANGED hsVars
  BY <1>8 DEF hsVars, handshakeVars, Pending
<1>9. QED
  BY <1>1, <1>2, <1>3, <1>4, <1>5, <1>6, <1>7, <1>8 DEF HSNext, Establish

LEMMA AnswerChange ==
  ASSUME HSTypeOK, [HSNext]_hsVars, NEW n \in Nodes,
         call'[n] # NoCall, call'[n].stage = "answered"
  PROVE  call'[n] = call[n] \/ AnswerCall(n)
<1>1. ASSUME NEW m \in Nodes, NEW u \in Urls, ConnectToStart(m, u)
      PROVE  call'[n] = call[n]
  BY <1>1 DEF ConnectToStart, HSTypeOK
<1>2. ASSUME NEW m \in Nodes, ConnectToPost(m)
      PROVE  call'[n] = call[n]
  BY <1>2 DEF ConnectToPost, HSTypeOK
<1>3. ASSUME NEW m \in Nodes, AnswerCall(m)
      PROVE  call'[n] = call[n] \/ m = n
  BY <1>3 DEF AnswerCall, HSTypeOK
<1>4. ASSUME NEW m \in Nodes,
             \/ ConnectToSucceed(m) \/ ConnectToReject(m) \/ ConnectToFail(m)
             \/ Restart(m)
      PROVE  call'[n] = call[n]
  BY <1>4 DEF ConnectToSucceed, ConnectToReject, ConnectToFail, Restart, ReturnFromCall,
              HSTypeOK
<1>5. ASSUME NEW m \in Nodes,
             SetAdvertiseHost(m) \/ SendTextTakes(m) \/ SendTextReleases(m)
      PROVE  call'[n] = call[n]
  BY <1>5 DEF SetAdvertiseHost, SendTextTakes, SendTextReleases, handshakeVars
<1>6. AnswerStale \/ UNCHANGED hsVars => call'[n] = call[n]
  BY DEF AnswerStale, hsVars, handshakeVars
<1>7. QED
  BY <1>1, <1>2, <1>3, <1>4, <1>5, <1>6 DEF HSNext, Establish

LEMMA AdvertiseChange ==
  ASSUME HSTypeOK, [HSNext]_hsVars, NEW n \in Nodes
  PROVE  advertise'[n] = advertise[n] \/ advertise'[n] \in Advertisable[n]
<1>1. ASSUME NEW m \in Nodes, SetAdvertiseHost(m) \/ Restart(m)
      PROVE  advertise'[n] = advertise[n] \/ advertise'[n] \in Advertisable[n]
  BY <1>1 DEF SetAdvertiseHost, Restart, HSTypeOK, SharedTypeOK
<1>2. ASSUME NEW m \in Nodes,
             \/ \E u \in Urls : ConnectToStart(m, u)
             \/ ConnectToPost(m) \/ AnswerCall(m) \/ ConnectToSucceed(m)
             \/ ConnectToReject(m) \/ ConnectToFail(m)
             \/ SendTextTakes(m) \/ SendTextReleases(m)
      PROVE  advertise'[n] = advertise[n]
  BY <1>2 DEF ConnectToStart, ConnectToPost, AnswerCall, AcceptHandshake, ConnectToSucceed,
              ConnectToReject, ConnectToFail, SendTextTakes, SendTextReleases, sharedVars
<1>3. AnswerStale \/ UNCHANGED hsVars => advertise'[n] = advertise[n]
  BY DEF AnswerStale, AcceptHandshake, hsVars, sharedVars
<1>4. QED
  BY <1>1, <1>2, <1>3 DEF HSNext, Establish

-----------------------------------------------------------------------------
(* The counterpart of an initiator.                                        *)

\* A URL is known of everyone, in every request and in every session.
UrlsKnown ==
  /\ \A n \in Nodes : advertise[n] # NoUrl
  /\ \A req \in Request : Pending(req) => req.listen_url # NoUrl
  /\ \A n \in Nodes : Connected(n) => session[n].peer_url # NoUrl

\* The identity exists already; a restart creates one that is known of nobody.
Existing(key) == key[2] <= epoch[key[1]]

IdentitiesKnown ==
  /\ \A n \in Nodes : Connected(n) => Existing(session[n].peer_public_key)
  /\ \A req \in Request : Pending(req) => Existing(req.public_key)
  /\ \A n \in Nodes : call[n] # NoCall /\ call[n].stage = "answered" =>
       Existing(call[n].resp.public_key)

\* The responder end is there before the answer is used.
ResponderEnd(m, n) ==
  /\ Connected(m)
  /\ session[m].peer_public_key = PublicKey(n)
  /\ ~session[m].local_is_initiator

Granted ==
  \A n, m \in Nodes :
    /\ call[n] # NoCall
    /\ call[n].stage = "answered"
    /\ call[n].resp.ok
    /\ call[n].resp.public_key = PublicKey(m)
    => ResponderEnd(m, n)

CounterInv ==
  /\ ProofInv
  /\ PinInv
  /\ UrlsKnown
  /\ IdentitiesKnown
  /\ Granted
  /\ CounterpartExists

LEMMA CounterInit == AllDialable /\ HSInit => CounterInv
<1> SUFFICES ASSUME AllDialable, HSInit PROVE CounterInv
  OBVIOUS
<1>1. ProofInv /\ PinInv
  BY ProofInit, PinInit
<1>2. UrlsKnown
  BY DEF HSInit, SharedInit, AllDialable, UrlsKnown, Connected, Pending
<1>3. IdentitiesKnown /\ Granted /\ CounterpartExists
  BY DEF HSInit, SharedInit, IdentitiesKnown, Granted, CounterpartExists, Connected, Pending
<1>4. QED
  BY <1>1, <1>2, <1>3 DEF CounterInv

LEMMA UrlsStep ==
  ASSUME AllDialable, CounterInv, [HSNext]_hsVars
  PROVE  UrlsKnown'
<1>0. HSTypeOK /\ PinInv
  BY DEF CounterInv, PinInv
<1>1. \A n \in Nodes : advertise'[n] # NoUrl
  BY <1>0, AdvertiseChange DEF CounterInv, UrlsKnown, AllDialable
<1>2. ASSUME NEW req \in Request, Pending(req)'
      PROVE  req.listen_url # NoUrl
  <2>1. ASSUME NEW n \in Nodes, NEW m \in Nodes,
               req = HandshakeRequest(n, m, PublicKey(m))
        PROVE  req.listen_url # NoUrl
    BY <2>1 DEF HandshakeRequest, CounterInv, UrlsKnown
  <2>2. QED
    BY <1>0, <1>2, <2>1, PendingChange DEF CounterInv, UrlsKnown
<1>3. ASSUME NEW n \in Nodes, Connected(n)'
      PROVE  session'[n].peer_url # NoUrl
  <2>1. CASE session'[n] = session[n]
    BY <1>3, <2>1 DEF CounterInv, UrlsKnown, Connected
  <2>2. ASSUME ConnectToSucceed(n)
        PROVE  session'[n].peer_url # NoUrl
    <3>1. session'[n] = InitiatorSession(n)
      BY <1>0, <2>2 DEF ConnectToSucceed, HSTypeOK, SharedTypeOK
    <3>2. call[n].url \in Urls
      BY <1>0, <2>2, CallFields DEF ConnectToSucceed, InStage
    <3>3. QED
      BY <3>1, <3>2, SharedAssumption DEF InitiatorSession
  <2>3. ASSUME NEW req \in Request, Pending(req), session'[n] = ResponderSession(req)
        PROVE  session'[n].peer_url # NoUrl
    BY <2>3 DEF ResponderSession, CounterInv, UrlsKnown
  <2>4. QED
    BY <1>0, <1>3, <2>1, <2>2, <2>3, SessionChange DEF Connected
<1>4. QED
  BY <1>1, <1>2, <1>3 DEF UrlsKnown

LEMMA ExistingStep ==
  ASSUME HSTypeOK, [HSNext]_hsVars, NEW key \in PublicKeys, Existing(key)
  PROVE  Existing(key)'
<1>1. key[1] \in Nodes /\ key[2] \in Nat
  BY DEF PublicKeys
<1>2. epoch[key[1]] \in Nat
  BY <1>1 DEF HSTypeOK, SharedTypeOK
<1>3. epoch'[key[1]] = epoch[key[1]] \/ epoch'[key[1]] = epoch[key[1]] + 1
  BY <1>1, EpochChange
<1>4. QED
  BY <1>1, <1>2, <1>3 DEF Existing

LEMMA OwnKeyExists ==
  ASSUME HSTypeOK, NEW n \in Nodes
  PROVE  PublicKey(n) \in PublicKeys /\ Existing(PublicKey(n))
  BY DEF HSTypeOK, SharedTypeOK, PublicKey, PublicKeys, Existing

LEMMA IdentitiesStep ==
  ASSUME CounterInv, [HSNext]_hsVars
  PROVE  IdentitiesKnown'
<1>0. HSTypeOK /\ PinInv
  BY DEF CounterInv, PinInv
<1>1. ASSUME NEW req \in Request, Pending(req)'
      PROVE  Existing(req.public_key)'
  <2>1. req.public_key \in PublicKeys
    BY DEF Request
  <2>2. Existing(req.public_key)
    <3>1. CASE Pending(req)
      BY <3>1 DEF CounterInv, IdentitiesKnown
    <3>2. ASSUME NEW n \in Nodes, NEW m \in Nodes,
                 req = HandshakeRequest(n, m, PublicKey(m))
          PROVE  Existing(req.public_key)
      <4>1. req.public_key = PublicKey(n)
        BY <3>2 DEF HandshakeRequest
      <4>2. QED
        BY <1>0, <4>1, OwnKeyExists
    <3>3. QED
      BY <1>0, <1>1, <3>1, <3>2, PendingChange
  <2>3. QED
    BY <1>0, <2>1, <2>2, ExistingStep
<1>2. ASSUME NEW n \in Nodes, call'[n] # NoCall, call'[n].stage = "answered"
      PROVE  Existing(call[n].resp.public_key)'
  <2>1. CASE call'[n] = call[n]
    <3>1. call[n].resp.public_key \in PublicKeys
      BY <1>0, <1>2, <2>1, CallFields DEF Response
    <3>2. Existing(call[n].resp.public_key)
      BY <1>2, <2>1 DEF CounterInv, IdentitiesKnown
    <3>3. PICK key \in PublicKeys : key = call[n].resp.public_key
      BY <3>1
    <3>4. Existing(key)'
      BY <1>0, <3>2, <3>3, ExistingStep
    <3>5. QED
      BY <2>1, <3>3, <3>4 DEF Existing
  <2>2. CASE AnswerCall(n)
    <3>1. call[n].req.to \in Nodes
      BY <1>0, <2>2, CallFields DEF AnswerCall, InStage, Request
    <3>2. call'[n].resp.public_key = PublicKey(call[n].req.to)
      BY <1>0, <2>2 DEF AnswerCall, HandshakeResponse, HSTypeOK
    <3>3. PICK key \in PublicKeys : key = PublicKey(call[n].req.to) /\ Existing(key)
      BY <1>0, <3>1, OwnKeyExists
    <3>4. Existing(key)'
      BY <1>0, <3>3, ExistingStep
    <3>5. QED
      BY <3>2, <3>3, <3>4 DEF Existing
  <2>3. QED
    BY <1>0, <1>2, <2>1, <2>2, AnswerChange
<1>3. ASSUME NEW n \in Nodes, Connected(n)'
      PROVE  Existing(session[n].peer_public_key)'
  <2>1. \E key \in PublicKeys : key = session'[n].peer_public_key /\ Existing(key)
    <3>1. CASE session'[n] = session[n]
      <4>1. session[n] \in Session
        BY <1>0, <1>3, <3>1 DEF HSTypeOK, SharedTypeOK, Connected
      <4>2. QED
        BY <1>3, <3>1, <4>1 DEF Session, CounterInv, IdentitiesKnown, Connected
    <3>2. ASSUME ConnectToSucceed(n)
          PROVE  \E key \in PublicKeys : key = session'[n].peer_public_key /\ Existing(key)
      <4>1. session'[n].peer_public_key = call[n].resp.public_key
        BY <1>0, <3>2 DEF ConnectToSucceed, InitiatorSession, HSTypeOK, SharedTypeOK
      <4>2. /\ call[n].resp.public_key \in PublicKeys
            /\ Existing(call[n].resp.public_key)
        BY <1>0, <3>2, CallFields
        DEF ConnectToSucceed, InStage, Response, CounterInv, IdentitiesKnown
      <4>3. QED
        BY <4>1, <4>2
    <3>3. ASSUME NEW req \in Request, Pending(req), session'[n] = ResponderSession(req)
          PROVE  \E key \in PublicKeys : key = session'[n].peer_public_key /\ Existing(key)
      BY <3>3 DEF ResponderSession, Request, CounterInv, IdentitiesKnown
    <3>4. QED
      BY <1>0, <1>3, <3>1, <3>2, <3>3, SessionChange DEF Connected
  <2>2. PICK key \in PublicKeys : key = session'[n].peer_public_key /\ Existing(key)
    BY <2>1
  <2>3. Existing(key)'
    BY <1>0, <2>2, ExistingStep
  <2>4. QED
    BY <2>2, <2>3 DEF Existing
<1>4. QED
  BY <1>1, <1>2, <1>3 DEF IdentitiesKnown

\* A key someone knows of, if it is m's after a step, was m's before it.
LEMMA SameOwner ==
  ASSUME HSTypeOK, [HSNext]_hsVars, NEW m \in Nodes,
         NEW key \in PublicKeys, Existing(key), key = PublicKey(m)'
  PROVE  key = PublicKey(m) /\ epoch'[m] = epoch[m]
<1>1. key = <<m, epoch'[m]>> /\ epoch[m] \in Nat
  BY DEF PublicKey, HSTypeOK, SharedTypeOK
<1>2. epoch'[m] <= epoch[m]
  BY <1>1 DEF Existing
<1>3. epoch'[m] = epoch[m]
  BY <1>1, <1>2, EpochChange
<1>4. QED
  BY <1>1, <1>3 DEF PublicKey

\* While a process lives, its session stays.
LEMMA SessionStays ==
  ASSUME CounterInv, [HSNext]_hsVars, NEW m \in Nodes, Connected(m), epoch'[m] = epoch[m]
  PROVE  session'[m] = session[m]
<1>1. PinInv /\ HSTypeOK /\ session[m].peer_url # NoUrl
  BY DEF CounterInv, PinInv, UrlsKnown
<1>2. epoch[m] \in Nat
  BY <1>1 DEF HSTypeOK, SharedTypeOK
<1>3. QED
  BY <1>1, <1>2, SessionChange DEF MayDial

LEMMA ResponderEndStays ==
  ASSUME CounterInv, [HSNext]_hsVars, NEW m \in Nodes, NEW n \in Nodes,
         ResponderEnd(m, n), epoch'[m] = epoch[m], epoch'[n] = epoch[n]
  PROVE  ResponderEnd(m, n)'
  BY SessionStays DEF ResponderEnd, Connected, PublicKey

LEMMA GrantedStep ==
  ASSUME CounterInv, [HSNext]_hsVars
  PROVE  Granted'
<1>0. HSTypeOK /\ PinInv /\ HSTypeOK'
  BY TypeStep DEF CounterInv, PinInv
<1> SUFFICES ASSUME NEW n \in Nodes, NEW m \in Nodes,
                    call'[n] # NoCall, call'[n].stage = "answered", call'[n].resp.ok,
                    call'[n].resp.public_key = PublicKey(m)'
             PROVE  ResponderEnd(m, n)'
  BY DEF Granted
<1>1. epoch'[n] = epoch[n]
  BY <1>0, EpochChange
<1>2. CASE call'[n] = call[n]
  <2>1. PICK key \in PublicKeys : key = call[n].resp.public_key
    BY <1>0, <1>2, CallFields DEF Response
  <2>2. Existing(key)
    BY <1>2, <2>1 DEF CounterInv, IdentitiesKnown
  <2>3. key = PublicKey(m) /\ epoch'[m] = epoch[m]
    BY <1>0, <1>2, <2>1, <2>2, SameOwner
  <2>4. ResponderEnd(m, n)
    BY <1>2, <2>1, <2>3 DEF CounterInv, Granted
  <2>5. QED
    BY <1>1, <2>3, <2>4, ResponderEndStays
<1>3. CASE AnswerCall(n)
  <2> DEFINE req == call[n].req
  <2>1. call[n] # NoCall /\ call[n].stage = "posted" /\ req \in Request /\ req.to \in Nodes
    BY <1>0, <1>3, CallFields DEF AnswerCall, InStage, Request
  <2>2. /\ AcceptHandshake(req.to, req)
        /\ call'[n].resp = HandshakeResponse(req.to, req)
    BY <1>0, <1>3 DEF AnswerCall, HSTypeOK
  <2>3. epoch' = epoch
    BY <2>2 DEF AcceptHandshake
  <2>4. m = req.to /\ Accepts(m, req)
    BY <2>2, <2>3 DEF HandshakeResponse, PublicKey
  <2>5. req.public_key = PublicKey(n)
    BY <2>1 DEF CounterInv, ProofInv
  <2>6. CASE Admits(m, req)
    <3>1. session'[m] = ResponderSession(req) /\ ResponderSession(req) \in Session
      BY <1>0, <2>1, <2>2, <2>4, <2>6, SessionValues
      DEF AcceptHandshake, HSTypeOK, SharedTypeOK
    <3>2. Connected(m)'
      BY <3>1, NoSessionAssumption DEF Connected
    <3>3. /\ session'[m].peer_public_key = PublicKey(n)
          /\ ~session'[m].local_is_initiator
      BY <2>5, <3>1 DEF ResponderSession
    <3>4. PublicKey(n)' = PublicKey(n)
      BY <2>3 DEF PublicKey
    <3>5. QED
      BY <3>2, <3>3, <3>4 DEF ResponderEnd
  <2>7. CASE ~Admits(m, req)
    <3>1. Connected(m) /\ session[m].peer_public_key = PublicKey(n)
      BY <2>4, <2>5, <2>7 DEF Accepts, Resumes
    <3>2. ~Connected(n)
      BY <2>1 DEF CounterInv, PinInv, MayDial, UrlsKnown
    <3>3. ~session[m].local_is_initiator
      BY <3>1, <3>2 DEF CounterInv, CounterpartExists, Paired
    <3>4. QED
      BY <2>3, <3>1, <3>3, ResponderEndStays DEF ResponderEnd
  <2>8. QED
    BY <2>6, <2>7
<1>4. QED
  BY <1>0, <1>2, <1>3, AnswerChange

LEMMA CounterpartStep ==
  ASSUME CounterInv, [HSNext]_hsVars
  PROVE  CounterpartExists'
<1>0. HSTypeOK /\ PinInv /\ HSTypeOK'
  BY TypeStep DEF CounterInv, PinInv
<1> SUFFICES ASSUME NEW n \in Nodes, NEW m \in Nodes,
                    Connected(n)', session'[n].local_is_initiator,
                    session'[n].peer_public_key = PublicKey(m)'
             PROVE  ResponderEnd(m, n)'
  BY DEF CounterpartExists, Paired, ResponderEnd, Connected
<1>1. epoch'[n] = epoch[n]
  BY <1>0, EpochChange DEF Connected
<1>2. CASE session'[n] = session[n]
  <2>1. Connected(n) /\ session[n] \in Session
    BY <1>0, <1>2 DEF Connected, HSTypeOK, SharedTypeOK
  <2>2. PICK key \in PublicKeys : key = session[n].peer_public_key
    BY <2>1 DEF Session
  <2>3. Existing(key)
    BY <2>1, <2>2 DEF CounterInv, IdentitiesKnown
  <2>4. key = PublicKey(m) /\ epoch'[m] = epoch[m]
    BY <1>0, <1>2, <2>2, <2>3, SameOwner
  <2>5. ResponderEnd(m, n)
    BY <1>2, <2>1, <2>2, <2>4 DEF CounterInv, CounterpartExists, Paired, ResponderEnd
  <2>6. QED
    BY <1>1, <2>4, <2>5, ResponderEndStays
<1>3. CASE ConnectToSucceed(n)
  <2>1. /\ call[n] # NoCall /\ call[n].stage = "answered" /\ call[n].resp.ok
        /\ session'[n].peer_public_key = call[n].resp.public_key
        /\ epoch' = epoch
    BY <1>0, <1>3
    DEF ConnectToSucceed, InStage, ResponseChecks, InitiatorSession, HSTypeOK, SharedTypeOK
  <2>2. ResponderEnd(m, n)
    BY <2>1 DEF CounterInv, Granted, PublicKey
  <2>3. QED
    BY <2>1, <2>2, ResponderEndStays
<1>4. CASE session'[n] # session[n] /\ ~ConnectToSucceed(n)
  <2>1. \A req \in Request : session'[n] # ResponderSession(req)
    BY DEF ResponderSession
  <2>2. session'[n] # NoSession
    BY DEF Connected
  <2>3. QED
    BY <1>0, <1>4, <2>1, <2>2, SessionChange
<1>5. QED
  BY <1>2, <1>3, <1>4

\* When every node announces a URL, nobody believes to be connected to a peer
\* that does not hold the other end, for as long as that peer's process lives.
THEOREM CounterpartThere == AllDialable /\ HSSpec => []CounterpartExists
<1>1. AllDialable /\ HSInit => CounterInv
  BY CounterInit
<1>2. AllDialable /\ CounterInv /\ [HSNext]_hsVars => CounterInv'
  <2> SUFFICES ASSUME AllDialable, CounterInv, [HSNext]_hsVars PROVE CounterInv'
    OBVIOUS
  <2>1. ProofInv' /\ PinInv'
    BY ProofStep, PinStep DEF CounterInv
  <2>2. QED
    BY <2>1, UrlsStep, IdentitiesStep, GrantedStep, CounterpartStep DEF CounterInv
<1>3. CounterInv => CounterpartExists
  BY DEF CounterInv
<1>4. SUFFICES ASSUME AllDialable PROVE HSSpec => []CounterpartExists
  OBVIOUS
<1>5. QED
  BY <1>1, <1>2, <1>3, <1>4, PTL DEF HSSpec

-----------------------------------------------------------------------------
(* Retries.  A responder that is not in a session with somebody else can   *)
(* only grant the Connect of a caller that addresses its identity: it      *)
(* resumes the session an earlier try has made, or makes one.  The answer  *)
(* stays true while the caller has not read it, because the responder      *)
(* cannot become the caller's initiator meanwhile: it answers while it is  *)
(* in no call, so two calls never have each other's answer in hand.        *)

\* What connect_to has in hand from its POST on is addressed to one identity.
Addressed(n) ==
  /\ call[n].peer[1] = call[n].req.to
  /\ Existing(call[n].peer)
  /\ call[n].req.proof = Encrypt(Derive(SharedSecret(PublicKey(n), call[n].peer), TRUE),
                                 HandshakeTranscript(PublicKey(n), call[n].peer))

\* n has the answer of m in hand.
Facing(n, m) == InStage(n, "answered") /\ call[n].req.to = m

RetryInv ==
  /\ ProofInv
  /\ PinInv
  /\ \A n \in Nodes : call[n] # NoCall /\ call[n].stage \in {"posted", "answered"} =>
       Addressed(n)
  /\ \A n, m \in Nodes : ~(Facing(n, m) /\ Facing(m, n))
  /\ RefusedForCause

LEMMA RetryInit == HSInit => RetryInv
  BY ProofInit, PinInit DEF HSInit, RetryInv, Facing, RefusedForCause, InStage

LEMMA PostedChange ==
  ASSUME HSTypeOK, [HSNext]_hsVars, NEW n \in Nodes,
         call'[n] # NoCall, call'[n].stage = "posted"
  PROVE  call'[n] = call[n] \/ ConnectToPost(n)
<1>1. ASSUME NEW m \in Nodes, NEW u \in Urls, ConnectToStart(m, u)
      PROVE  call'[n] = call[n]
  BY <1>1 DEF ConnectToStart, HSTypeOK
<1>2. ASSUME NEW m \in Nodes, ConnectToPost(m)
      PROVE  call'[n] = call[n] \/ m = n
  BY <1>2 DEF ConnectToPost, HSTypeOK
<1>3. ASSUME NEW m \in Nodes, AnswerCall(m)
      PROVE  call'[n] = call[n]
  BY <1>3 DEF AnswerCall, HSTypeOK
<1>4. ASSUME NEW m \in Nodes,
             \/ ConnectToSucceed(m) \/ ConnectToReject(m) \/ ConnectToFail(m)
             \/ Restart(m)
      PROVE  call'[n] = call[n]
  BY <1>4 DEF ConnectToSucceed, ConnectToReject, ConnectToFail, Restart, ReturnFromCall,
              HSTypeOK
<1>5. ASSUME NEW m \in Nodes,
             SetAdvertiseHost(m) \/ SendTextTakes(m) \/ SendTextReleases(m)
      PROVE  call'[n] = call[n]
  BY <1>5 DEF SetAdvertiseHost, SendTextTakes, SendTextReleases, handshakeVars
<1>6. AnswerStale \/ UNCHANGED hsVars => call'[n] = call[n]
  BY DEF AnswerStale, hsVars, handshakeVars
<1>7. QED
  BY <1>1, <1>2, <1>3, <1>4, <1>5, <1>6 DEF HSNext, Establish

\* An answer is given by a node in no call, to a request unchanged since its POST.
LEMMA AnswerCallFacts ==
  ASSUME HSTypeOK, NEW n \in Nodes, AnswerCall(n)
  PROVE  /\ call[n] # NoCall /\ call[n].stage = "posted"
         /\ call[n].req \in Request /\ call[n].req.to \in Nodes
         /\ call[n].peer \in PublicKeys
         /\ call'[n] # NoCall /\ call'[n].stage = "answered"
         /\ call'[n].req = call[n].req /\ call'[n].peer = call[n].peer
         /\ call'[n].resp = HandshakeResponse(call[n].req.to, call[n].req)
         /\ AcceptHandshake(call[n].req.to, call[n].req)
         /\ call[call[n].req.to] = NoCall /\ call'[call[n].req.to] = NoCall
         /\ epoch' = epoch
<1>1. /\ call[n] # NoCall /\ call[n].stage = "posted"
      /\ call[n].req \in Request /\ call[n].req.to \in Nodes
      /\ call[n].peer \in PublicKeys /\ call[n].url \in Urls
    BY CallFields DEF AnswerCall, InStage, Request
<1>2. PICK answer : answer = [stage |-> "answered", url |-> call[n].url,
                              peer |-> call[n].peer, req |-> call[n].req,
                              resp |-> HandshakeResponse(call[n].req.to, call[n].req)]
  OBVIOUS
<1>3. AcceptHandshake(call[n].req.to, call[n].req) /\ call' = [call EXCEPT ![n] = answer]
  BY <1>2 DEF AnswerCall
<1>4. answer \in Call
  BY <1>1, <1>2, CallValues, HandshakeResponseType
<1>5. answer # NoCall
  BY <1>4, NoCallAssumption
<1>6. call'[n] = answer
  BY <1>3 DEF HSTypeOK
<1>7. call[call[n].req.to] = NoCall
  BY <1>1, <1>3 DEF AcceptHandshake, HSTypeOK
<1>8. call'[call[n].req.to] = NoCall
  BY <1>1, <1>3, <1>7 DEF HSTypeOK
<1>9. QED
  BY <1>1, <1>2, <1>3, <1>5, <1>6, <1>7, <1>8 DEF AcceptHandshake

LEMMA AddressedStep ==
  ASSUME RetryInv, [HSNext]_hsVars, NEW n \in Nodes,
         call'[n] # NoCall, call'[n].stage \in {"posted", "answered"}
  PROVE  Addressed(n)'
<1>0. HSTypeOK /\ HSTypeOK'
  BY TypeStep DEF RetryInv, PinInv
<1>1. epoch'[n] = epoch[n] /\ PublicKey(n)' = PublicKey(n)
  BY <1>0, EpochChange DEF PublicKey
<1>2. ASSUME Addressed(n), call[n].peer \in PublicKeys,
             call'[n].peer = call[n].peer, call'[n].req = call[n].req
      PROVE  Addressed(n)'
  <2>1. PICK key \in PublicKeys : key = call[n].peer
    BY <1>2
  <2>2. Existing(key)'
    BY <1>0, <1>2, <2>1, ExistingStep DEF Addressed
  <2>3. QED
    BY <1>1, <1>2, <2>1, <2>2 DEF Addressed, Existing
<1>3. CASE call'[n] = call[n]
  <2>1. Addressed(n) /\ call[n].peer \in PublicKeys
    BY <1>0, <1>3, CallFields DEF RetryInv
  <2>2. QED
    BY <1>2, <1>3, <2>1
<1>4. CASE AnswerCall(n)
  <2>1. call[n] # NoCall /\ call[n].stage = "posted" /\ call[n].peer \in PublicKeys
        /\ call'[n].peer = call[n].peer /\ call'[n].req = call[n].req
    BY <1>0, <1>4, AnswerCallFacts
  <2>2. QED
    BY <1>2, <2>1 DEF RetryInv
<1>5. CASE ConnectToPost(n)
  <2>1. PICK m \in Nodes : m = Serves[call[n].url]
    BY <1>5 DEF ConnectToPost
  <2>2. call'[n].peer = PublicKey(m) /\ call'[n].req = HandshakeRequest(n, m, PublicKey(m))
    BY <1>0, <1>5, <2>1 DEF ConnectToPost, HSTypeOK
  <2>3. PICK key \in PublicKeys : key = PublicKey(m) /\ Existing(key)
    BY <1>0, OwnKeyExists
  <2>4. Existing(key)'
    BY <1>0, <2>3, ExistingStep
  <2>5. call'[n].peer[1] = m /\ call'[n].req.to = m
    BY <2>2 DEF PublicKey, HandshakeRequest
  <2>6. call'[n].req.proof = Encrypt(Derive(SharedSecret(PublicKey(n), PublicKey(m)), TRUE),
                                     HandshakeTranscript(PublicKey(n), PublicKey(m)))
    BY <2>2 DEF HandshakeRequest
  <2>7. QED
    BY <1>1, <2>2, <2>3, <2>4, <2>5, <2>6 DEF Addressed, Existing
<1>6. QED
  BY <1>0, <1>3, <1>4, <1>5, AnswerChange, PostedChange

LEMMA NotMutualStep ==
  ASSUME RetryInv, [HSNext]_hsVars, NEW n \in Nodes, NEW m \in Nodes,
         Facing(n, m)', Facing(m, n)'
  PROVE  FALSE
<1>0. HSTypeOK
  BY DEF RetryInv, PinInv
<1>1. /\ call'[n] # NoCall /\ call'[n].stage = "answered" /\ call'[n].req.to = m
      /\ call'[m] # NoCall /\ call'[m].stage = "answered" /\ call'[m].req.to = n
  BY DEF Facing, InStage
<1>2. ~AnswerCall(n) /\ ~AnswerCall(m)
  BY <1>0, <1>1, AnswerCallFacts
<1>3. call'[n] = call[n] /\ call'[m] = call[m]
  BY <1>0, <1>1, <1>2, AnswerChange
<1>4. QED
  BY <1>1, <1>3 DEF RetryInv, Facing, InStage

\* A request to the identity m has passes m's check of the proof, and m's answer,
\* when it grants the session, passes the caller's.
LEMMA ProofsMatch ==
  ASSUME NEW n \in Nodes, NEW m \in Nodes
  PROVE  /\ Proves(Derive(SharedSecret(PublicKey(m), PublicKey(n)), FALSE),
                   Encrypt(Derive(SharedSecret(PublicKey(n), PublicKey(m)), TRUE),
                           HandshakeTranscript(PublicKey(n), PublicKey(m))),
                   HandshakeTranscript(PublicKey(n), PublicKey(m)))
         /\ Proves(Derive(SharedSecret(PublicKey(n), PublicKey(m)), TRUE),
                   Encrypt(Derive(SharedSecret(PublicKey(m), PublicKey(n)), FALSE),
                           HandshakeTranscript(PublicKey(n), PublicKey(m))),
                   HandshakeTranscript(PublicKey(n), PublicKey(m)))
<1>1. SharedSecret(PublicKey(m), PublicKey(n)) = SharedSecret(PublicKey(n), PublicKey(m))
  BY DEF SharedSecret
<1>2. QED
  BY <1>1 DEF Proves, Opens, Encrypt, Derive, HkdfKey, SendLabel

LEMMA CauseStep ==
  ASSUME RetryInv, [HSNext]_hsVars, NEW n \in Nodes, NEW m \in Nodes,
         InStage(n, "answered")', ~ResponseChecks(n)',
         m = call'[n].req.to, call'[n].peer = PublicKey(m)'
  PROVE  Connected(m)' /\ session'[m].peer_public_key # PublicKey(n)'
<1>0. HSTypeOK /\ PinInv /\ call'[n] # NoCall /\ call'[n].stage = "answered"
  BY DEF RetryInv, PinInv, InStage
<1>1. epoch'[n] = epoch[n] /\ PublicKey(n)' = PublicKey(n)
  BY <1>0, EpochChange DEF PublicKey
<1>2. CASE call'[n] = call[n]
  <2>1. Addressed(n) /\ call[n].peer \in PublicKeys
    BY <1>0, <1>2, CallFields DEF RetryInv
  <2>2. PICK key \in PublicKeys : key = call[n].peer
    BY <2>1
  <2>3. key = PublicKey(m) /\ epoch'[m] = epoch[m]
    BY <1>0, <1>2, <2>1, <2>2, SameOwner DEF Addressed
  <2>4. InStage(n, "answered") /\ ~ResponseChecks(n)
    BY <1>0, <1>1, <1>2 DEF InStage, ResponseChecks
  <2>5. Connected(m) /\ session[m].peer_public_key # PublicKey(n)
    BY <1>2, <2>2, <2>3, <2>4 DEF RetryInv, RefusedForCause
  <2>6. ASSUME ConnectToSucceed(m)
        PROVE  session'[m].peer_public_key # PublicKey(n)
    <3>1. /\ call[m] # NoCall /\ call[m].stage = "answered"
          /\ call[m].resp.public_key = call[m].peer
          /\ session'[m].peer_public_key = call[m].resp.public_key
      BY <1>0, <2>6
      DEF ConnectToSucceed, InStage, ResponseChecks, InitiatorSession, HSTypeOK, SharedTypeOK
    <3>2. call[m].peer[1] = call[m].req.to
      BY <3>1 DEF RetryInv, Addressed
    <3>3. call[m].req.to # n
      BY <1>2, <2>4, <3>1 DEF RetryInv, Facing, InStage
    <3>4. QED
      BY <3>1, <3>2, <3>3 DEF PublicKey
  <2>7. epoch[m] \in Nat
    BY <1>0 DEF HSTypeOK, SharedTypeOK
  <2>8. CASE session'[m] = session[m]
    BY <1>1, <2>5, <2>8 DEF Connected
  <2>9. CASE session'[m] # session[m]
    <3>1. ConnectToSucceed(m)
      BY <1>0, <2>3, <2>5, <2>7, <2>9, SessionChange
    <3>2. session'[m] \in Session
      BY <1>0, <3>1, SessionValues DEF ConnectToSucceed, HSTypeOK, SharedTypeOK
    <3>3. QED
      BY <1>1, <2>6, <3>1, <3>2, NoSessionAssumption DEF Connected
  <2>10. QED
    BY <2>8, <2>9
<1>3. CASE AnswerCall(n)
  <2> PICK req \in Request : req = call[n].req
    BY <1>0, <1>3, AnswerCallFacts
  <2>1. /\ call[n] # NoCall /\ call[n].stage = "posted"
        /\ call'[n].req = req /\ m = req.to
        /\ call'[n].peer = call[n].peer
        /\ call'[n].resp = HandshakeResponse(m, req)
        /\ AcceptHandshake(m, req)
        /\ epoch' = epoch
    BY <1>0, <1>3, AnswerCallFacts
  <2>2. call[n].peer = PublicKey(m) /\ PublicKey(m)' = PublicKey(m)
    BY <2>1 DEF PublicKey
  <2>3. /\ req.public_key = PublicKey(n)
        /\ req.proof = Encrypt(Derive(SharedSecret(PublicKey(n), PublicKey(m)), TRUE),
                               HandshakeTranscript(PublicKey(n), PublicKey(m)))
    BY <2>1, <2>2 DEF RetryInv, ProofInv, Addressed
  <2>4. ProofValid(m, req)
    BY <2>3, ProofsMatch DEF ProofValid
  <2>5. ~Accepts(m, req)
    <3>1. SUFFICES ASSUME Accepts(m, req) PROVE ResponseChecks(n)'
      OBVIOUS
    <3>2. /\ call'[n].resp.ok
          /\ call'[n].resp.public_key = PublicKey(m)
          /\ call'[n].resp.proof =
               Encrypt(Derive(SharedSecret(PublicKey(m), PublicKey(n)), FALSE),
                       HandshakeTranscript(PublicKey(n), PublicKey(m)))
      BY <2>1, <2>3, <3>1 DEF HandshakeResponse
    <3>3. Proves(Derive(SharedSecret(PublicKey(n), PublicKey(m)), TRUE), call'[n].resp.proof,
                 HandshakeTranscript(PublicKey(n), PublicKey(m)))
      BY <3>2, ProofsMatch
    <3>4. QED
      BY <1>1, <2>1, <2>2, <3>2, <3>3 DEF ResponseChecks
  <2>6. Connected(m) /\ session[m].peer_public_key # PublicKey(n)
    BY <2>3, <2>4, <2>5 DEF Accepts, Admits, Resumes
  <2>7. session' = session
    BY <2>1, <2>5 DEF AcceptHandshake, Accepts
  <2>8. QED
    BY <1>1, <2>6, <2>7 DEF Connected
<1>4. QED
  BY <1>0, <1>2, <1>3, AnswerChange

LEMMA RetryStep == RetryInv /\ [HSNext]_hsVars => RetryInv'
<1> SUFFICES ASSUME RetryInv, [HSNext]_hsVars PROVE RetryInv'
  OBVIOUS
<1>1. ProofInv' /\ PinInv' /\ HSTypeOK'
  BY ProofStep, PinStep, TypeStep DEF RetryInv, PinInv
<1>2. \A n \in Nodes : call'[n] # NoCall /\ call'[n].stage \in {"posted", "answered"} =>
        Addressed(n)'
  BY AddressedStep
<1>3. \A n, m \in Nodes : ~(Facing(n, m)' /\ Facing(m, n)')
  BY NotMutualStep
<1>4. RefusedForCause'
  <2>1. ASSUME NEW n \in Nodes, InStage(n, "answered")', ~ResponseChecks(n)'
        PROVE  \E m \in Nodes :
                 /\ m = call'[n].req.to
                 /\ call'[n].peer = PublicKey(m)' =>
                      Connected(m)' /\ session'[m].peer_public_key # PublicKey(n)'
    <3>1. call'[n] = call[n] \/ AnswerCall(n)
      BY <2>1, AnswerChange DEF InStage, RetryInv, PinInv
    <3>2. CASE call'[n] = call[n]
      <4>1. call[n].req.to \in Nodes
        BY <2>1, <3>2, CallFields DEF InStage, Request, RetryInv, PinInv
      <4>2. QED
        BY <2>1, <3>2, <4>1, CauseStep
    <3>3. CASE AnswerCall(n)
      <4>1. call[n].req.to \in Nodes /\ call'[n].req = call[n].req
        BY <3>3, AnswerCallFacts DEF RetryInv, PinInv
      <4>2. QED
        BY <2>1, <4>1, CauseStep
    <3>4. QED
      BY <3>1, <3>2, <3>3
  <2>2. QED
    BY <2>1 DEF RefusedForCause, Connected, PublicKey
<1>5. QED
  BY <1>1, <1>2, <1>3, <1>4 DEF RetryInv

\* Whatever was lost, broken or tried before: a peer that still has the identity it
\* told refuses a Connect only for a session with somebody else.
THEOREM RefusalHasCause == HSSpec => []RefusedForCause
<1>1. HSInit => RetryInv
  BY RetryInit
<1>2. RetryInv /\ [HSNext]_hsVars => RetryInv'
  BY RetryStep
<1>3. RetryInv => RefusedForCause
  BY DEF RetryInv
<1>4. QED
  BY <1>1, <1>2, <1>3, PTL DEF HSSpec

-----------------------------------------------------------------------------
(* The two directions.  The initiator of a session is the one who dialled, *)
(* so two ends of the same role would have dialled each other.             *)

DialInv ==
  /\ ProofInv
  /\ \A n \in Nodes : call[n] # NoCall => <<n, call[n].url>> \in Dials
  /\ \A req \in Request : Pending(req) => DialsTo(req.public_key[1], req.to)
  /\ \A k, l \in PublicKeys :
       <<k, l>> \in offered \cup answered => DialsTo(k[1], l[1])

LEMMA DialInit == HSInit => DialInv
  BY ProofInit DEF HSInit, DialInv, Pending

LEMMA CallUrlChange ==
  ASSUME HSTypeOK, [HSNext]_hsVars, NEW n \in Nodes, call'[n] # NoCall
  PROVE  \/ call[n] # NoCall /\ call'[n].url = call[n].url
         \/ <<n, call'[n].url>> \in Dials
<1>1. ASSUME NEW m \in Nodes, NEW u \in Urls, ConnectToStart(m, u)
      PROVE  call'[n] = call[n] \/ <<n, call'[n].url>> \in Dials
  BY <1>1 DEF ConnectToStart, HSTypeOK
<1>2. ASSUME NEW m \in Nodes, ConnectToPost(m) \/ AnswerCall(m)
      PROVE  call[n] # NoCall /\ call'[n].url = call[n].url
  BY <1>2 DEF ConnectToPost, AnswerCall, InStage, HSTypeOK
<1>3. ASSUME NEW m \in Nodes,
             \/ ConnectToSucceed(m) \/ ConnectToReject(m) \/ ConnectToFail(m)
             \/ Restart(m)
      PROVE  call'[n] = call[n]
  BY <1>3 DEF ConnectToSucceed, ConnectToReject, ConnectToFail, Restart, ReturnFromCall,
              HSTypeOK
<1>4. ASSUME NEW m \in Nodes,
             SetAdvertiseHost(m) \/ SendTextTakes(m) \/ SendTextReleases(m)
      PROVE  call'[n] = call[n]
  BY <1>4 DEF SetAdvertiseHost, SendTextTakes, SendTextReleases, handshakeVars
<1>5. AnswerStale \/ UNCHANGED hsVars => call'[n] = call[n]
  BY DEF AnswerStale, hsVars, handshakeVars
<1>6. QED
  BY <1>1, <1>2, <1>3, <1>4, <1>5 DEF HSNext, Establish

\* Who appears in the histories has dialled.
LEMMA HistoryChange ==
  ASSUME DialInv, [HSNext]_hsVars, NEW k \in PublicKeys, NEW l \in PublicKeys,
         <<k, l>> \in offered' \cup answered'
  PROVE  DialsTo(k[1], l[1])
<1>0. HSTypeOK
  BY DEF DialInv, ProofInv
<1>1. CASE <<k, l>> \in offered \cup answered
  BY <1>1 DEF DialInv
<1>2. ASSUME NEW n \in Nodes, ConnectToPost(n), <<k, l>> \notin offered \cup answered
      PROVE  DialsTo(k[1], l[1])
  <2> DEFINE m == Serves[call[n].url]
  <2>1. k = PublicKey(n) /\ l = PublicKey(m) /\ call[n] # NoCall
    BY <1>2 DEF ConnectToPost, InStage
  <2>2. DialsTo(n, m)
    BY <1>0, <2>1, CallFields DEF DialInv, DialsTo
  <2>3. QED
    BY <2>1, <2>2 DEF PublicKey
<1>3. ASSUME NEW req \in Request, Pending(req), AcceptHandshake(req.to, req),
             <<k, l>> \notin offered \cup answered
      PROVE  DialsTo(k[1], l[1])
  <2>1. k = req.public_key /\ l = PublicKey(req.to)
    BY <1>3 DEF AcceptHandshake
  <2>2. QED
    BY <1>3, <2>1 DEF DialInv, PublicKey
<1>4. ASSUME NEW n \in Nodes, AnswerCall(n)
      PROVE  \E req \in Request : Pending(req) /\ AcceptHandshake(req.to, req)
  BY <1>0, <1>4, CallFields DEF AnswerCall, InStage, Pending
<1>5. AnswerStale => \E req \in Request : Pending(req) /\ AcceptHandshake(req.to, req)
  BY <1>0 DEF AnswerStale, Pending, HSTypeOK
<1>6. ASSUME NEW m \in Nodes,
             \/ \E u \in Urls : ConnectToStart(m, u)
             \/ ConnectToSucceed(m) \/ ConnectToReject(m) \/ ConnectToFail(m)
             \/ SetAdvertiseHost(m) \/ Restart(m) \/ SendTextTakes(m) \/ SendTextReleases(m)
      PROVE  <<k, l>> \in offered \cup answered
  BY <1>6 DEF ConnectToStart, ConnectToSucceed, ConnectToReject, ConnectToFail,
              SetAdvertiseHost, Restart, SendTextTakes, SendTextReleases, handshakeVars
<1>7. UNCHANGED hsVars => <<k, l>> \in offered \cup answered
  BY DEF hsVars, handshakeVars
<1>8. QED
  BY <1>1, <1>2, <1>3, <1>4, <1>5, <1>6, <1>7 DEF HSNext, Establish

LEMMA DialStep == DialInv /\ [HSNext]_hsVars => DialInv'
<1> SUFFICES ASSUME DialInv, [HSNext]_hsVars PROVE DialInv'
  OBVIOUS
<1>0. HSTypeOK /\ ProofInv'
  BY ProofStep DEF DialInv, ProofInv
<1>1. \A n \in Nodes : call'[n] # NoCall => <<n, call'[n].url>> \in Dials
  BY <1>0, CallUrlChange DEF DialInv
<1>2. ASSUME NEW req \in Request, Pending(req)'
      PROVE  DialsTo(req.public_key[1], req.to)
  <2>1. ASSUME NEW n \in Nodes, NEW m \in Nodes, ConnectToPost(n),
               m = Serves[call[n].url], req = HandshakeRequest(n, m, PublicKey(m))
        PROVE  DialsTo(req.public_key[1], req.to)
    <3>1. req.public_key = PublicKey(n) /\ req.to = m /\ call[n] # NoCall
      BY <2>1 DEF HandshakeRequest, ConnectToPost, InStage
    <3>2. DialsTo(n, m)
      BY <1>0, <2>1, <3>1, CallFields DEF DialInv, DialsTo
    <3>3. QED
      BY <3>1, <3>2 DEF PublicKey
  <2>2. QED
    BY <1>0, <1>2, <2>1, PendingChange DEF DialInv
<1>3. \A k, l \in PublicKeys :
        <<k, l>> \in offered' \cup answered' => DialsTo(k[1], l[1])
  BY HistoryChange
<1>4. QED
  BY <1>0, <1>1, <1>2, <1>3 DEF DialInv

\* The two roles of one secret: distinct keys, and each opens what the other seals.
LEMMA OppositeRoles ==
  ASSUME NEW shared, NEW role \in BOOLEAN
  PROVE  /\ Derive(shared, role).send # Derive(shared, ~role).send
         /\ Derive(shared, role).recv = Derive(shared, ~role).send
         /\ Derive(shared, role).send = Derive(shared, ~role).recv
  BY DEF Derive, HkdfKey, SendLabel

LEMMA OneWayDistinct == OneWayDials /\ DialInv => DistinctDirections
<1> SUFFICES ASSUME OneWayDials, DialInv, NEW n \in Nodes, NEW m \in Nodes, Paired(n, m)
             PROVE  /\ SessionKeys(n).send # SessionKeys(m).send
                    /\ SessionKeys(n).recv = SessionKeys(m).send
  BY DEF DistinctDirections
<1>1. HSTypeOK /\ MutualProof
  BY DEF DialInv, ProofInv
<1>2. /\ Connected(n) /\ Connected(m)
      /\ session[n].peer_public_key = PublicKey(m)
      /\ session[m].peer_public_key = PublicKey(n)
  BY DEF Paired
<1>3. /\ session[n].local_is_initiator \in BOOLEAN
      /\ session[m].local_is_initiator \in BOOLEAN
  BY <1>1, <1>2 DEF HSTypeOK, SharedTypeOK, Session, Connected
<1>4. PublicKey(n) \in PublicKeys /\ PublicKey(m) \in PublicKeys
  BY <1>1, PublicKeyType DEF HSTypeOK
<1>5. ~(/\ <<PublicKey(n), PublicKey(m)>> \in offered \cup answered
        /\ <<PublicKey(m), PublicKey(n)>> \in offered \cup answered)
  BY <1>4 DEF DialInv, OneWayDials, PublicKey
<1>6. session[m].local_is_initiator = ~session[n].local_is_initiator
  BY <1>1, <1>2, <1>3, <1>5 DEF MutualProof
<1>7. SharedSecret(PublicKey(m), PublicKey(n)) = SharedSecret(PublicKey(n), PublicKey(m))
  BY DEF SharedSecret
<1>8. QED
  BY <1>2, <1>3, <1>6, <1>7, OppositeRoles DEF SessionKeys

\* When no two nodes dial each other, the two ends of every session encrypt with
\* distinct keys and can read each other, whoever is behind NAT.
THEOREM DirectionsDistinct == OneWayDials /\ HSSpec => []DistinctDirections
<1>1. HSInit => DialInv
  BY DialInit
<1>2. DialInv /\ [HSNext]_hsVars => DialInv'
  BY DialStep
<1>3. SUFFICES ASSUME OneWayDials PROVE HSSpec => []DistinctDirections
  OBVIOUS
<1>4. DialInv => DistinctDirections
  BY <1>3, OneWayDistinct
<1>5. QED
  BY <1>1, <1>2, <1>4, PTL DEF HSSpec

=============================================================================
