--------------------------- MODULE AppShell_proofs ---------------------------
(***************************************************************************)
(* Proofs about AppShell for any number of commands in progress, messages  *)
(* and reloads of the page.                                                *)
(***************************************************************************)
EXTENDS AppShell, TLAPS

\* An answer on its way claims no more than the node has.
Founded(reply) ==
  /\ reply.snap.connected => connected
  /\ reply.snap.messages <= messages
  /\ reply.ok /\ reply.cmd.kind = "start_listener" => started

\* What waits or travels agrees with the node: one command at a time has the
\* node mutex, it passed the check of the slot, and nothing has happened since
\* that would change the outcome.
AppInv ==
  /\ AppTypeOK
  /\ OneListener
  /\ WindowTrue
  /\ \A cmd, other \in running : cmd = other
  /\ \A cmd \in running : (cmd.kind = "start_listener") = ~started
  /\ \A cmd \in bound : cmd.kind = "start_listener"
  /\ \A reply \in replies : Founded(reply)

\* The invariant holds at the start.
LEMMA AppInvInit == AppInit => AppInv
<1> SUFFICES ASSUME AppInit PROVE AppInv
  OBVIOUS
<1>1. AppTypeOK
  <2>1. /\ page \in 1 .. MaxLoads /\ listeners \in Nat
        /\ shown \in 0 .. MaxMessages /\ messages \in 0 .. MaxMessages
    BY AppAssumption DEF AppInit
  <2>2. /\ startEnabled \in BOOLEAN /\ timer \in BOOLEAN /\ inputOpen \in BOOLEAN
        /\ started \in BOOLEAN /\ connected \in BOOLEAN
        /\ invoked \subseteq Command /\ running \subseteq Command /\ bound \subseteq running
        /\ replies \subseteq Reply
    BY Zenon DEF AppInit
  <2> QED
    BY <2>1, <2>2 DEF AppTypeOK
<1>2. OneListener /\ WindowTrue
  BY DEF AppInit, OneListener, WindowTrue
<1> QED
  BY <1>1, <1>2 DEF AppInit, AppInv

\* The snapshot of the node claims what the node has.
LEMMA SnapshotTyped ==
  ASSUME AppTypeOK
  PROVE  /\ snapshot \in Snapshot
         /\ snapshot.connected = connected
         /\ snapshot.messages = messages
  BY DEF AppTypeOK, Snapshot, snapshot

\* The node only gains: an answer on its way stays founded.
LEMMA FoundedStays ==
  ASSUME AppTypeOK, messages' \in Nat, NEW reply \in Reply, Founded(reply),
         connected => connected', messages <= messages', started => started'
  PROVE  Founded(reply)'
<1>1. reply.snap.messages \in Nat /\ messages \in Nat
  BY AppAssumption DEF AppTypeOK, Reply, Snapshot
<1>2. reply.snap.messages <= messages'
  BY <1>1 DEF Founded
<1> QED
  BY <1>2 DEF Founded

\* A founded answer is added to the others.
LEMMA AnswerPreserves ==
  ASSUME AppInv, NEW cmd \in Command, NEW ok \in BOOLEAN, NEW snap \in Snapshot,
         replies' = replies \cup {[cmd |-> cmd, ok |-> ok, snap |-> snap]},
         connected => connected', messages' \in Nat, messages <= messages',
         started => started',
         snap.connected => connected', snap.messages <= messages',
         ok /\ cmd.kind = "start_listener" => started'
  PROVE  /\ replies' \subseteq Reply
         /\ \A reply \in replies' : Founded(reply)'
<1> DEFINE new == [cmd |-> cmd, ok |-> ok, snap |-> snap]
<1>1. new \in Reply /\ new.snap = snap /\ new.ok = ok /\ new.cmd = cmd
  BY DEF Reply
<1>2. Founded(new)'
  BY <1>1 DEF Founded
<1>3. AppTypeOK /\ replies \subseteq Reply
  BY DEF AppInv, AppTypeOK
<1>4. ASSUME NEW reply \in replies PROVE Founded(reply)'
  BY <1>3, FoundedStays DEF AppInv
<1> QED
  BY <1>1, <1>2, <1>3, <1>4

\* An invocation is a command.
LEMMA InvokeTyped ==
  ASSUME AppTypeOK, NEW kind \in Kinds, Invoke(kind)
  PROVE  invoked' \subseteq Command
  BY DEF AppTypeOK, Invoke, Command

\* A handler that invokes a command touches nothing of the node.
LEMMA InvokePreserves ==
  ASSUME AppInv, ClickStart \/ ClickConnect \/ Submit \/ Tick
  PROVE  AppInv'
<1>1. /\ UNCHANGED <<page, timer, inputOpen, shown, running, bound, replies, nodeVars>>
      /\ startEnabled' \in BOOLEAN
      /\ \E kind \in Kinds : Invoke(kind)
  BY DEF AppInv, AppTypeOK, ClickStart, ClickConnect, Submit, Tick, windowVars, Kinds
<1>2. invoked' \subseteq Command
  BY <1>1, InvokeTyped DEF AppInv
<1> QED
  BY <1>1, <1>2 DEF AppInv, AppTypeOK, OneListener, WindowTrue, Founded, nodeVars

\* The reload of the page forgets the window, not the node.
LEMMA ReloadPreserves ==
  ASSUME AppInv, Reload
  PROVE  AppInv'
<1>1. /\ UNCHANGED <<invoked, running, bound, replies, listeners, started, connected, messages>>
      /\ startEnabled' = TRUE /\ timer' = FALSE /\ inputOpen' = FALSE /\ shown' = 0
  BY DEF Reload, Loaded, commandVars, nodeVars
<1>2. page' \in 1 .. MaxLoads
  BY AppAssumption DEF AppInv, AppTypeOK, Reload
<1>3. AppTypeOK'
  <2>1. shown' \in 0 .. MaxMessages
    BY <1>1, AppAssumption
  <2>2. startEnabled' \in BOOLEAN /\ timer' \in BOOLEAN /\ inputOpen' \in BOOLEAN
    BY <1>1, Zenon
  <2> QED
    BY <1>1, <1>2, <2>1, <2>2 DEF AppInv, AppTypeOK
<1>4. WindowTrue'
  BY <1>1, AppAssumption DEF AppInv, AppTypeOK, WindowTrue
<1> QED
  BY <1>1, <1>3, <1>4 DEF AppInv, OneListener, Founded

\* A rendered answer was founded.
LEMMA SettlePreserves ==
  ASSUME AppInv, NEW s \in Slots, Settle(s)
  PROVE  AppInv'
<1>1. PICK reply \in replies :
        /\ replies' = replies \ {reply}
        /\ IF reply.cmd.page # page
           THEN UNCHANGED <<startEnabled, timer, inputOpen, shown>>
           ELSE IF reply.ok THEN Resolved(reply) ELSE Rejected(reply)
  BY DEF Settle
<1>2. reply \in Reply
  BY DEF AppInv, AppTypeOK
<1>3. UNCHANGED <<page, invoked, running, bound, nodeVars>>
  BY DEF Settle
<1>4. /\ startEnabled' \in BOOLEAN
      /\ timer' \in BOOLEAN /\ (timer' => started)
      /\ inputOpen' \in BOOLEAN /\ (inputOpen' => connected)
      /\ shown' \in 0 .. MaxMessages /\ shown' <= messages
  <2>1. CASE reply.cmd.page # page
    BY <1>1, <2>1 DEF AppInv, AppTypeOK, WindowTrue
  <2>2. CASE reply.cmd.page = page /\ reply.ok
    BY <1>1, <1>2, <2>2, AppAssumption
    DEF AppInv, AppTypeOK, WindowTrue, Founded, Resolved, renderSnapshot, Changed, Reply, Snapshot
  <2>3. CASE reply.cmd.page = page /\ ~reply.ok
    BY <1>1, <2>3 DEF AppInv, AppTypeOK, WindowTrue, Rejected, StartFailed
  <2> QED
    BY <2>1, <2>2, <2>3
<1> QED
  BY <1>1, <1>3, <1>4 DEF AppInv, AppTypeOK, OneListener, WindowTrue, Founded, nodeVars

\* The check of the slot holds on as long as the mutex is held.
LEMMA LocksPreserves ==
  ASSUME AppInv, NEW cmd \in Command, Locks(cmd)
  PROVE  AppInv'
<1>1. /\ running = {} /\ bound = {}
      /\ invoked' \subseteq Command
      /\ UNCHANGED <<windowVars, bound, nodeVars>>
  BY DEF AppInv, Locks, MutexFree, AppTypeOK
<1>2. CASE \E ok \in BOOLEAN :
             /\ Answer(cmd, ok, snapshot) /\ UNCHANGED running
             /\ ok => cmd.kind = "get_status"
  <2>1. PICK ok \in BOOLEAN :
          /\ replies' = replies \cup {[cmd |-> cmd, ok |-> ok, snap |-> snapshot]}
          /\ UNCHANGED running
          /\ ok => cmd.kind = "get_status"
    BY <1>2 DEF Answer
  <2>2. messages \in Nat
    BY AppAssumption DEF AppInv, AppTypeOK
  <2>3. replies' \subseteq Reply /\ \A reply \in replies' : Founded(reply)'
    BY <1>1, <2>1, <2>2, SnapshotTyped, AnswerPreserves DEF AppInv, nodeVars
  <2> QED
    BY <1>1, <2>1, <2>3
    DEF AppInv, AppTypeOK, OneListener, WindowTrue, windowVars, nodeVars
<1>3. CASE /\ running' = running \cup {cmd} /\ UNCHANGED replies
           /\ (cmd.kind = "start_listener") # started
  <2>1. running' = {cmd}
    BY <1>1, <1>3
  <2>2. (cmd.kind = "start_listener") = ~started
    BY <1>3 DEF AppInv, AppTypeOK
  <2> QED
    BY <1>1, <1>3, <2>1, <2>2
    DEF AppInv, AppTypeOK, OneListener, WindowTrue, Founded, windowVars, nodeVars
<1> QED
  BY <1>2, <1>3 DEF Locks

\* The socket that start_listener binds is the first.
LEMMA BindsPreserves ==
  ASSUME AppInv, NEW cmd \in Command, ListenerBinds(cmd)
  PROVE  AppInv'
<1>1. /\ cmd \in running /\ cmd \notin bound /\ cmd.kind = "start_listener"
      /\ bound' = bound \cup {cmd}
      /\ listeners' = listeners + 1
      /\ UNCHANGED <<page, startEnabled, timer, inputOpen, shown, invoked, running, replies,
                     started, connected, messages>>
  BY DEF ListenerBinds, windowVars
<1>2. bound = {} /\ ~started
  BY <1>1 DEF AppInv, AppTypeOK
<1>3. listeners' = 1
  BY <1>1, <1>2 DEF AppInv, OneListener
<1>4. AppTypeOK' /\ OneListener' /\ WindowTrue'
  BY <1>1, <1>3 DEF AppInv, AppTypeOK, OneListener, WindowTrue
<1> QED
  BY <1>1, <1>4 DEF AppInv, Founded

\* A call into the node returns.
LEMMA ReturnsPreserves ==
  ASSUME AppInv, NEW cmd \in Command,
         ListenerStarts(cmd) \/ PeerConnects(cmd) \/ MessageSent(cmd) \/ CallFails(cmd)
  PROVE  AppInv'
<1>1. /\ cmd \in running
      /\ running' = {} /\ bound' = {}
      /\ UNCHANGED <<page, startEnabled, timer, inputOpen, shown, invoked>>
  <2>1. /\ cmd \in running
        /\ running' = {}
        /\ UNCHANGED <<page, startEnabled, timer, inputOpen, shown, invoked>>
    BY DEF AppInv, ListenerStarts, PeerConnects, MessageSent, CallFails, Returns, windowVars
  <2>2. bound \subseteq {cmd}
    BY <2>1 DEF AppInv, AppTypeOK
  <2>3. CASE ListenerStarts(cmd)
    BY <2>1, <2>2, <2>3 DEF ListenerStarts
  <2>4. CASE PeerConnects(cmd) \/ MessageSent(cmd)
    <3>1. cmd.kind # "start_listener" /\ bound' = bound
      BY <2>4 DEF PeerConnects, MessageSent, Returns
    <3> QED
      BY <2>1, <2>2, <3>1 DEF AppInv
  <2>5. CASE CallFails(cmd)
    BY <2>1, <2>2, <2>5 DEF CallFails
  <2> QED
    BY <2>1, <2>3, <2>4, <2>5
<1>2. /\ messages \in Nat /\ connected \in BOOLEAN /\ started \in BOOLEAN
      /\ inputOpen => connected
      /\ shown \in Nat /\ shown <= messages
      /\ timer => started
  BY AppAssumption DEF AppInv, AppTypeOK, WindowTrue
<1> SUFFICES
      /\ \E ok \in BOOLEAN : \E snap \in Snapshot :
           /\ replies' = replies \cup {[cmd |-> cmd, ok |-> ok, snap |-> snap]}
           /\ snap.connected => connected'
           /\ snap.messages <= messages'
           /\ ok /\ cmd.kind = "start_listener" => started'
      /\ connected' \in BOOLEAN /\ (connected => connected')
      /\ messages' \in 0 .. MaxMessages /\ messages <= messages'
      /\ started' \in BOOLEAN /\ (started => started')
      /\ listeners' \in Nat /\ listeners' = (IF started' THEN 1 ELSE 0)
  <2>1. messages' \in Nat /\ shown <= messages'
    BY <1>2, AppAssumption
  <2>2. replies' \subseteq Reply /\ \A reply \in replies' : Founded(reply)'
    BY <2>1, AnswerPreserves
  <2>3. AppTypeOK'
    BY <1>1, <2>2 DEF AppInv, AppTypeOK
  <2>4. OneListener' /\ WindowTrue'
    BY <1>1, <1>2, <2>1 DEF OneListener, WindowTrue
  <2> QED
    BY <1>1, <2>2, <2>3, <2>4 DEF AppInv
<1>3. snapshot \in Snapshot /\ snapshot.connected = connected /\ snapshot.messages = messages
  BY SnapshotTyped DEF AppInv
<1>4. CASE ListenerStarts(cmd)
  <2>1. bound # {}
    BY <1>4 DEF ListenerStarts
  <2>2. listeners' = 1 /\ started' = TRUE /\ UNCHANGED <<connected, messages>>
    BY <1>4, <2>1 DEF AppInv, ListenerStarts, OneListener
  <2>3. replies' = replies \cup {[cmd |-> cmd, ok |-> TRUE, snap |-> snapshot]}
    BY <1>4 DEF ListenerStarts, Answer
  <2>4. started' \in BOOLEAN /\ connected' \in BOOLEAN /\ connected' = connected
    BY <1>2, <2>2, Zenon
  <2>5. /\ messages' \in 0 .. MaxMessages /\ messages <= messages'
        /\ listeners' \in Nat /\ listeners' = 1
    BY <1>2, <2>2 DEF AppInv, AppTypeOK
  <2> QED
    BY <1>3, <2>2, <2>3, <2>4, <2>5
<1>5. CASE PeerConnects(cmd)
  <2> DEFINE snap == [snapshot EXCEPT !.connected = TRUE]
  <2>1. snap \in Snapshot /\ snap.messages = messages
    BY <1>3 DEF Snapshot
  <2>2. /\ replies' = replies \cup {[cmd |-> cmd, ok |-> TRUE, snap |-> snap]}
        /\ cmd.kind = "connect_peer"
        /\ connected' = TRUE /\ UNCHANGED <<bound, listeners, started, messages>>
    BY <1>5 DEF PeerConnects, Answer, Returns
  <2>3. started' \in BOOLEAN /\ connected' \in BOOLEAN /\ started' = started
    BY <1>2, <2>2, Zenon
  <2>4. /\ messages' \in 0 .. MaxMessages /\ messages' = messages /\ messages <= messages'
        /\ listeners' \in Nat /\ listeners' = (IF started' THEN 1 ELSE 0)
    BY <1>1, <1>2, <2>2 DEF AppInv, AppTypeOK, OneListener
  <2>5. /\ snap.connected => connected'
        /\ snap.messages <= messages'
        /\ cmd.kind = "start_listener" => started'
    BY <1>2, <2>1, <2>2, <2>4
  <2> HIDE DEF snap
  <2>6. connected => connected'
    BY <2>2
  <2>7. started => started'
    BY <2>2
  <2> QED
    BY <2>1, <2>2, <2>3, <2>4, <2>5, <2>6, <2>7, Zenon
<1>6. CASE MessageSent(cmd)
  <2> DEFINE snap == [snapshot EXCEPT !.messages = @ + 1]
  <2>1. messages + 1 \in 0 .. MaxMessages
    BY <1>2, <1>6, AppAssumption DEF MessageSent
  <2>2. snap \in Snapshot /\ snap.messages = messages + 1 /\ snap.connected = connected
    BY <1>3, <2>1 DEF Snapshot
  <2>3. /\ replies' = replies \cup {[cmd |-> cmd, ok |-> TRUE, snap |-> snap]}
        /\ cmd.kind = "send_chat_message"
        /\ messages' = messages + 1 /\ UNCHANGED <<bound, listeners, started, connected>>
    BY <1>6 DEF MessageSent, Answer, Returns
  <2>4. /\ started' \in BOOLEAN /\ connected' \in BOOLEAN
        /\ started' = started /\ connected' = connected
    BY <1>2, <2>3, Zenon
  <2>5. /\ messages' \in 0 .. MaxMessages /\ messages <= messages'
        /\ snap.messages <= messages'
        /\ listeners' \in Nat /\ listeners' = (IF started' THEN 1 ELSE 0)
    BY <1>1, <1>2, <2>1, <2>2, <2>3 DEF AppInv, AppTypeOK, OneListener
  <2>6. /\ cmd.kind = "start_listener" => started'
        /\ snap.connected => connected'
        /\ connected => connected'
        /\ started => started'
    BY <2>2, <2>3, <2>4
  <2> HIDE DEF snap
  <2> QED
    BY <2>2, <2>3, <2>4, <2>5, <2>6, Zenon
<1>7. CASE CallFails(cmd)
  <2>1. /\ replies' = replies \cup {[cmd |-> cmd, ok |-> FALSE, snap |-> snapshot]}
        /\ UNCHANGED <<bound, listeners, started, connected, messages>>
    BY <1>7 DEF CallFails, Answer, nodeVars
  <2>2. /\ started' \in BOOLEAN /\ connected' \in BOOLEAN
        /\ started' = started /\ connected' = connected
    BY <1>2, <2>1, Zenon
  <2>3. /\ messages' \in 0 .. MaxMessages /\ messages <= messages'
        /\ snapshot.messages <= messages'
        /\ listeners' \in Nat /\ listeners' = (IF started' THEN 1 ELSE 0)
    BY <1>1, <1>2, <1>3, <2>1 DEF AppInv, AppTypeOK, OneListener
  <2>4. /\ snapshot.connected => connected'
        /\ connected => connected'
        /\ started => started'
    BY <1>3, <2>2
  <2> QED
    BY <1>3, <2>1, <2>2, <2>3, <2>4, Zenon
<1> QED
  BY <1>4, <1>5, <1>6, <1>7

\* The network adds a session or a message to the node.
LEMMA ArrivalPreserves ==
  ASSUME AppInv, PeerArrives \/ MessageArrives
  PROVE  AppInv'
<1>0. messages \in 0 .. MaxMessages /\ connected \in BOOLEAN
  BY DEF AppInv, AppTypeOK
<1>1. /\ UNCHANGED <<page, startEnabled, timer, inputOpen, shown, invoked, running,
                     bound, replies, listeners, started>>
      /\ connected' \in BOOLEAN /\ (connected => connected')
      /\ messages' \in 0 .. MaxMessages /\ messages <= messages' /\ messages' \in Nat
  <2>1. CASE PeerArrives
    <3>1. /\ UNCHANGED <<page, startEnabled, timer, inputOpen, shown, invoked, running,
                         bound, replies, listeners, started>>
          /\ connected' \in BOOLEAN /\ (connected => connected')
          /\ messages' = messages
      BY <2>1, Zenon DEF PeerArrives, windowVars, commandVars
    <3> QED
      BY <1>0, <3>1, AppAssumption
  <2>2. CASE MessageArrives
    BY <1>0, <2>2, AppAssumption DEF MessageArrives, windowVars, commandVars
  <2> QED
    BY <2>1, <2>2
<1>2. AppTypeOK'
  BY <1>1 DEF AppInv, AppTypeOK
<1>3. \A reply \in replies : Founded(reply)'
  BY <1>1, FoundedStays DEF AppInv, AppTypeOK
<1>4. WindowTrue'
  BY <1>1, AppAssumption DEF AppInv, AppTypeOK, WindowTrue
<1> QED
  BY <1>1, <1>2, <1>3, <1>4 DEF AppInv, OneListener

\* Every step preserves it.
LEMMA AppInvNext == AppInv /\ [AppNext]_appVars => AppInv'
<1> SUFFICES ASSUME AppInv, [AppNext]_appVars PROVE AppInv'
  OBVIOUS
<1>1. CASE ClickStart \/ ClickConnect \/ Submit \/ Tick
  BY <1>1, InvokePreserves
<1>2. CASE Reload
  BY <1>2, ReloadPreserves
<1>3. ASSUME NEW s \in Slots, LocksIn(s) \/ ConnectIn(s) \/ ReturnsIn(s) \/ Settle(s)
      PROVE  AppInv'
  BY <1>3, LocksPreserves, BindsPreserves, ReturnsPreserves, SettlePreserves
  DEF LocksIn, ConnectIn, ReturnsIn, Proceeds
<1>4. CASE PeerArrives \/ MessageArrives
  BY <1>4, ArrivalPreserves
<1>5. CASE UNCHANGED appVars
  BY <1>5
  DEF AppInv, AppTypeOK, OneListener, WindowTrue, Founded, appVars, windowVars, commandVars,
      nodeVars
<1> QED
  BY <1>1, <1>2, <1>3, <1>4, <1>5 DEF AppNext

\* The types, for any number of commands in progress, messages and reloads: the
\* window shows no more messages than there can be, and nothing but commands and
\* answers is under way.
THEOREM AppTypes == AppSpec => []AppTypeOK
<1>1. AppInv => AppTypeOK
  BY DEF AppInv
<1> QED
  BY <1>1, AppInvInit, AppInvNext, PTL DEF AppSpec

\* One listener per process, for any number of presses of Start and reloads: the
\* mutex is held from the check of the slot, over the binding of the socket, until
\* the slot is filled.
THEOREM ListenerUnique == AppSpec => []OneListener
<1>1. AppInv => OneListener
  BY DEF AppInv
<1> QED
  BY <1>1, AppInvInit, AppInvNext, PTL DEF AppSpec

\* The window never claims more than the node has, in whatever order answers are
\* rendered.
THEOREM WindowNeverAhead == AppSpec => []WindowTrue
<1>1. AppInv => WindowTrue
  BY DEF AppInv
<1> QED
  BY <1>1, AppInvInit, AppInvNext, PTL DEF AppSpec

=============================================================================
