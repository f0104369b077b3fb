------------------------------ MODULE PeerState ------------------------------
(***************************************************************************)
(* The state of PeerNode (src-tauri/src/peer.rs) that session              *)
(* establishment and messaging share: the identity key, the advertised     *)
(* host, the session, the io_lock mutex and whether the poller task runs.  *)
(*                                                                         *)
(* Every critical section of the inner RwLock ends without awaiting        *)
(* anything, so a section is one step.  io_lock is different: connect_to   *)
(* and send_text keep it across HTTP calls, so it is a variable.           *)
(***************************************************************************)
EXTENDS Naturals, SessionCrypto

CONSTANTS
  Nodes,        \* the processes that run the application
  Urls,         \* the base URLs a user may type or advertise
  NoUrl,        \* the empty URL
  Nobody,       \* what answers at a URL nothing listens behind
  Serves,       \* Serves[u]: the process a request to u reaches
  Advertisable, \* Advertisable[n]: what n's user may advertise, NoUrl for none
  NoSession

ASSUME SharedAssumption ==
  /\ NoUrl \notin Urls
  /\ Nobody \notin Nodes
  /\ Serves \in [Urls -> Nodes \cup {Nobody}]
  /\ Advertisable \in [Nodes -> SUBSET (Urls \cup {NoUrl})]

VARIABLES
  epoch,     \* which identity key the process generated, one per start
  advertise, \* the share URL when advertise_host is set, else NoUrl
  session,   \* Option<Session>
  ioLock,    \* who holds io_lock across an await
  poller     \* the poller task was spawned

sharedVars == <<epoch, advertise, session, ioLock, poller>>

PublicKeys == Nodes \X Nat

\* identity.public_key_b64()
PublicKey(n) == <<n, epoch[n]>>

\* struct Session; the cipher keys follow from the two identities and the role.
Session ==
  [peer_url : Urls \cup {NoUrl},
   peer_public_key : PublicKeys,
   local_is_initiator : BOOLEAN,
   peer_dialable : BOOLEAN]

ASSUME NoSessionAssumption == NoSession \notin Session

Connected(n) == session[n] # NoSession

SessionKeys(n) ==
  Derive(SharedSecret(PublicKey(n), session[n].peer_public_key),
         session[n].local_is_initiator)

SharedInit ==
  /\ epoch = [n \in Nodes |-> 0]
  /\ advertise \in [Nodes -> Urls \cup {NoUrl}]
  /\ \A n \in Nodes : advertise[n] \in Advertisable[n]
  /\ session = [n \in Nodes |-> NoSession]
  /\ ioLock = [n \in Nodes |-> "free"]
  /\ poller = [n \in Nodes |-> FALSE]

SharedTypeOK ==
  /\ epoch \in [Nodes -> Nat]
  /\ advertise \in [Nodes -> Urls \cup {NoUrl}]
  /\ session \in [Nodes -> Session \cup {NoSession}]
  /\ ioLock \in [Nodes -> {"free", "connect", "send"}]
  /\ poller \in [Nodes -> BOOLEAN]

=============================================================================
