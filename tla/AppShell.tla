------------------------------- MODULE AppShell -------------------------------
(***************************************************************************)
(* One process as its user sees it: the commands of src-tauri/src/lib.rs,  *)
(* which take turns at the node mutex and keep it until the PeerNode has   *)
(* answered, and the window of src/main.ts, whose handlers invoke commands *)
(* and render the snapshots these return.  The PeerNode is reduced to what *)
(* a snapshot tells: whether there is a session and how many messages.     *)
(*                                                                         *)
(* Every invocation is a task of its own.  The tasks reach the mutex, and  *)
(* their answers reach the window, in any order.  The user may reload the  *)
(* page: the promises of the old page are then dropped, the commands are   *)
(* not.                                                                    *)
(***************************************************************************)
EXTENDS Naturals

CONSTANTS
  Slots,       \* bound on the invocations in progress at any time
  MaxMessages, \* bound on the messages of the node
  MaxLoads     \* bound on the loads of the page

ASSUME AppAssumption == MaxMessages \in Nat /\ MaxLoads \in Nat \ {0}

VARIABLES
  page,         \* which load of the page
  startEnabled, \* the Start button
  timer,        \* the refresh timer runs
  inputOpen,    \* the message input and the Send button are enabled
  shown,        \* messages rendered
  invoked,      \* commands that wait for the node mutex
  running,      \* the command that holds it across an await
  bound,        \* a start_listener whose socket is bound and whose slot is not filled
  replies,      \* answers on their way to the window
  listeners,    \* sockets bound
  started,      \* node_slot.is_some()
  connected,    \* the node has a session
  messages      \* the node's number of messages

windowVars == <<page, startEnabled, timer, inputOpen, shown>>
commandVars == <<invoked, running, bound, replies>>
nodeVars == <<listeners, started, connected, messages>>
appVars == <<windowVars, commandVars, nodeVars>>

Kinds == {"start_listener", "get_status", "connect_peer", "send_chat_message"}

Command == [kind : Kinds, page : 1 .. MaxLoads, slot : Slots]

\* PeerSnapshot
Snapshot == [connected : BOOLEAN, messages : 0 .. MaxMessages]

Reply == [cmd : Command, ok : BOOLEAN, snap : Snapshot]

snapshot == [connected |-> connected, messages |-> messages]

InProgress == invoked \cup running \cup {reply.cmd : reply \in replies}

-----------------------------------------------------------------------------
(* The window.                                                             *)

Invoke(kind) ==
  \E s \in Slots :
    /\ \A cmd \in InProgress : cmd.slot # s
    /\ invoked' = invoked \cup {[kind |-> kind, page |-> page, slot |-> s]}

\* Start, with an admissible port; the button is disabled at once.
ClickStart ==
  /\ startEnabled
  /\ startEnabled' = FALSE
  /\ Invoke("start_listener")
  /\ UNCHANGED <<page, timer, inputOpen, shown, running, bound, replies, nodeVars>>

\* Connect is enabled always, also before Start.
ClickConnect ==
  /\ Invoke("connect_peer")
  /\ UNCHANGED <<windowVars, running, bound, replies, nodeVars>>

Submit ==
  /\ inputOpen
  /\ Invoke("send_chat_message")
  /\ UNCHANGED <<windowVars, running, bound, replies, nodeVars>>

\* refresh, once a second.
Tick ==
  /\ timer
  /\ Invoke("get_status")
  /\ UNCHANGED <<windowVars, running, bound, replies, nodeVars>>

ChangedFirst(snap) == shown = 0

\* Messages are only ever added, so two lists differ when their sizes do.
Changed(snap) == snap.messages # shown

AppendedAgain(snap) ==
  /\ inputOpen' = snap.connected
  /\ shown' = IF snap.messages = 0 THEN 0
              ELSE IF Changed(snap) THEN shown + snap.messages ELSE shown

renderSnapshot(snap) ==
  /\ inputOpen' = snap.connected
  /\ shown' = IF snap.messages = 0 THEN 0
              ELSE IF Changed(snap) THEN snap.messages ELSE shown

ButtonLost(reply) == UNCHANGED startEnabled

\* The catch clause of the Start button; the other handlers report the error.
StartFailed(reply) ==
  startEnabled' = (reply.cmd.kind = "start_listener" \/ startEnabled)

RenderedAnyway(reply) ==
  /\ renderSnapshot([reply.snap EXCEPT !.connected = TRUE])
  /\ StartFailed(reply)
  /\ UNCHANGED timer

Rejected(reply) ==
  /\ StartFailed(reply)
  /\ UNCHANGED <<timer, inputOpen, shown>>

Resolved(reply) ==
  /\ renderSnapshot(reply.snap)
  /\ timer' = (reply.cmd.kind = "start_listener" \/ timer)
  /\ UNCHANGED startEnabled

\* A promise settles; those of an earlier load of the page are gone.
Settle(s) ==
  /\ \E reply \in replies :
       /\ reply.cmd.slot = s
       /\ replies' = replies \ {reply}
       /\ IF reply.cmd.page # page
          THEN UNCHANGED <<startEnabled, timer, inputOpen, shown>>
          ELSE IF reply.ok THEN Resolved(reply) ELSE Rejected(reply)
  /\ UNCHANGED <<page, invoked, running, bound, nodeVars>>

\* The page as index.html and main.ts set it up.
Loaded ==
  /\ startEnabled' = TRUE
  /\ timer' = FALSE
  /\ inputOpen' = FALSE
  /\ shown' = 0

Reload ==
  /\ page < MaxLoads
  /\ page' = page + 1
  /\ Loaded
  /\ UNCHANGED <<commandVars, nodeVars>>

-----------------------------------------------------------------------------
(* The commands.                                                           *)

Answer(cmd, ok, snap) ==
  replies' = replies \cup {[cmd |-> cmd, ok |-> ok, snap |-> snap]}

MutexIgnored == TRUE

MutexFree == running = {}

\* The command gets the mutex and looks at the slot.  start_listener refuses a
\* second node and the others refuse to work without one; what is left awaits
\* the node, except get_status, which answers at once.
Locks(cmd) ==
  /\ MutexFree
  /\ cmd \in invoked
  /\ invoked' = invoked \ {cmd}
  /\ IF (cmd.kind = "start_listener") = started
     THEN Answer(cmd, FALSE, snapshot) /\ UNCHANGED running
     ELSE IF cmd.kind = "get_status"
     THEN Answer(cmd, TRUE, snapshot) /\ UNCHANGED running
     ELSE running' = running \cup {cmd} /\ UNCHANGED replies
  /\ UNCHANGED <<windowVars, bound, nodeVars>>

Returns(cmd, kind) ==
  /\ cmd \in running
  /\ cmd.kind = kind
  /\ running' = running \ {cmd}
  /\ UNCHANGED <<windowVars, invoked>>

\* bind_and_serve has made a node, which serves from here on.
ListenerBinds(cmd) ==
  /\ cmd \in running \ bound
  /\ cmd.kind = "start_listener"
  /\ bound' = bound \cup {cmd}
  /\ listeners' = listeners + 1
  /\ UNCHANGED <<windowVars, invoked, running, replies, started, connected, messages>>

\* Its snapshot is taken and the slot and the server handle are filled.
ListenerStarts(cmd) ==
  /\ Returns(cmd, "start_listener")
  /\ cmd \in bound
  /\ bound' = bound \ {cmd}
  /\ started' = TRUE
  /\ Answer(cmd, TRUE, snapshot)
  /\ UNCHANGED <<listeners, connected, messages>>

\* connect_to has established a session or found one.
PeerConnects(cmd) ==
  /\ Returns(cmd, "connect_peer")
  /\ connected' = TRUE
  /\ Answer(cmd, TRUE, [snapshot EXCEPT !.connected = TRUE])
  /\ UNCHANGED <<bound, listeners, started, messages>>

\* send_text has delivered or queued the text, and shows it.
MessageSent(cmd) ==
  /\ Returns(cmd, "send_chat_message")
  /\ connected
  /\ messages < MaxMessages
  /\ messages' = messages + 1
  /\ Answer(cmd, TRUE, [snapshot EXCEPT !.messages = @ + 1])
  /\ UNCHANGED <<bound, listeners, started, connected>>

\* The port is taken, the peer refuses, the outbox is full.
CallFails(cmd) ==
  /\ \E kind \in Kinds : Returns(cmd, kind)
  /\ cmd \notin bound
  /\ Answer(cmd, FALSE, snapshot)
  /\ UNCHANGED <<bound, nodeVars>>

Proceeds(cmd) ==
  \/ ListenerBinds(cmd)
  \/ ListenerStarts(cmd)
  \/ PeerConnects(cmd)
  \/ MessageSent(cmd)
  \/ CallFails(cmd)

\* Another process connects, or a text of the peer arrives: the routes of the
\* node know nothing of the node mutex, nor of the slot.
PeerArrives ==
  /\ listeners > 0
  /\ ~connected
  /\ connected' = TRUE
  /\ UNCHANGED <<windowVars, commandVars, listeners, started, messages>>

MessageArrives ==
  /\ connected
  /\ messages < MaxMessages
  /\ messages' = messages + 1
  /\ UNCHANGED <<windowVars, commandVars, listeners, started, connected>>

-----------------------------------------------------------------------------
(* The specification.                                                      *)

AppInit ==
  /\ page = 1
  /\ startEnabled = TRUE
  /\ timer = FALSE
  /\ inputOpen = FALSE
  /\ shown = 0
  /\ invoked = {}
  /\ running = {}
  /\ bound = {}
  /\ replies = {}
  /\ listeners = 0
  /\ started = FALSE
  /\ connected = FALSE
  /\ messages = 0

\* What drives an invocation on: one per slot at any time.
LocksIn(s) == \E cmd \in Command : cmd.slot = s /\ Locks(cmd)
ConnectIn(s) ==
  \E cmd \in Command : cmd.slot = s /\ cmd.kind = "connect_peer" /\ Proceeds(cmd)
ReturnsIn(s) ==
  \E cmd \in Command : cmd.slot = s /\ cmd.kind # "connect_peer" /\ Proceeds(cmd)

AppNext ==
  \/ ClickStart
  \/ ClickConnect
  \/ Submit
  \/ Tick
  \/ Reload
  \/ \E s \in Slots : LocksIn(s) \/ ConnectIn(s) \/ ReturnsIn(s) \/ Settle(s)
  \/ PeerArrives
  \/ MessageArrives

AppSpec == AppInit /\ [][AppNext]_appVars

\* The timer fires (strongly fair only because it may have to wait for one of the
\* model's slots), promises settle and the mutex is first come first served.
\* start_listener and send_chat_message return: a POST of a text ends after five
\* seconds, and the io_lock it holds is held across HTTP by nobody else, because
\* connect_to would have the node mutex.  connect_peer, whose HTTP client has no
\* timeout, may never return: ConnectIn is not fair.
AppFairness ==
  /\ SF_appVars(Tick)
  /\ \A s \in Slots :
       SF_appVars(LocksIn(s)) /\ WF_appVars(ReturnsIn(s)) /\ WF_appVars(Settle(s))

AppFairSpec == AppSpec /\ AppFairness

-----------------------------------------------------------------------------
(* Properties.                                                             *)

\* Type invariant.
AppTypeOK ==
  /\ page \in 1 .. MaxLoads
  /\ startEnabled \in BOOLEAN
  /\ timer \in BOOLEAN
  /\ inputOpen \in BOOLEAN
  /\ shown \in 0 .. MaxMessages
  /\ invoked \subseteq Command
  /\ running \subseteq Command
  /\ bound \subseteq running
  /\ replies \subseteq Reply
  /\ listeners \in Nat
  /\ started \in BOOLEAN
  /\ connected \in BOOLEAN
  /\ messages \in 0 .. MaxMessages

\* One process binds one listener, however often Start is pressed and the page
\* reloaded while an earlier start is between the check of the slot, the binding of
\* the socket and the filling of the slot.
OneListener == listeners = (IF started \/ bound # {} THEN 1 ELSE 0)

\* The window claims no more than the node has: an open input means a session,
\* a rendered message is the node's, a running timer has a node to ask.
WindowTrue ==
  /\ inputOpen => connected
  /\ shown <= messages
  /\ timer => started

\* A connect_peer has the node mutex.
Connecting == \E cmd \in running : cmd.kind = "connect_peer"

\* While the timer runs the window comes to show what the node has, although
\* refreshes wait behind connects and sends and may be rendered out of order.
\* Nothing but a Connect that hangs for ever freezes it.
WindowCatchesUp ==
  <>[]timer => <>[](shown = messages /\ inputOpen = connected) \/ <>[]Connecting

\* A pressed Start leads to a refreshed window or gives the button back, unless a
\* Connect (of the page before the reload) keeps the node mutex for ever.
StartComesBack == ~startEnabled ~> (startEnabled \/ timer \/ []Connecting)

=============================================================================
