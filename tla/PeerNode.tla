------------------------------ MODULE PeerNode -------------------------------
(***************************************************************************)
(* The whole of src-tauri/src/peer.rs: session establishment and messaging *)
(* run side by side over one io_lock, sessions come and go under the       *)
(* outbox and the poller, and a process may be started again at any time.  *)
(***************************************************************************)
EXTENDS Handshake, Mailbox

vars == <<sharedVars, handshakeVars, mailboxVars>>

Init == HSInit /\ MailboxInit

\* The messages, the outbox and every request in progress die with the process;
\* a request that was on its way may still be served.
RestartNode(n) ==
  /\ Restart(n)
  /\ outbox' = [outbox EXCEPT ![n] = <<>>]
  /\ messages' = [messages EXCEPT ![n] = <<>>]
  /\ sending' = [sending EXCEPT ![n] = NoSend]
  /\ poll' = [poll EXCEPT ![n] = NoPoll]
  /\ staleSends' =
       IF SendIs(n, "posted") /\ Serves[sending[n].url] \in Nodes
       THEN staleSends \cup {[to |-> Serves[sending[n].url], wire |-> sending[n].wire]}
       ELSE staleSends
  /\ stalePulls' =
       IF PollIs(n, "posted") /\ Serves[poll[n].url] \in Nodes
       THEN stalePulls \cup
              {[to |-> Serves[poll[n].url], req |-> poll[n].req, no |-> faults]}
       ELSE stalePulls
  /\ lost' = lost \cup TextsOf(Pulled(n))
  /\ UNCHANGED <<sent, faults, abandoned, refused>>

Next ==
  \/ \E n \in Nodes : Establish(n) /\ UNCHANGED mailboxVars
  \/ AnswerStale /\ UNCHANGED mailboxVars
  \/ MailboxNext /\ UNCHANGED handshakeVars
  \/ \E n \in Nodes : RestartNode(n)

Spec == Init /\ [][Next]_vars

FairSpec == Spec /\ HSFairness /\ MailboxFairness

-----------------------------------------------------------------------------
(* Properties.                                                             *)

\* Messaging is no more to session establishment than a send_text that takes
\* io_lock and gives it back: what is shown of Handshake holds of the whole.
ImplementsHandshake == HSSpec

\* README.md:15: what a host owes to a guest that polls it is pulled, although the
\* guest's poller waits for io_lock behind its own sends and calls, and whatever
\* POSTs and calls break meanwhile.
MailboxDrains ==
  \A n, m \in Nodes :
    LET Owes == Paired(n, m) /\ session[n].peer_url # NoUrl /\ outbox[m] # <<>>
    IN Owes ~> ~Owes

=============================================================================
