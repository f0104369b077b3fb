------------------------------ MODULE InnerLocks ------------------------------
(***************************************************************************)
(* The locks of one process, each on its own.  The other modules take a    *)
(* critical section of peer.rs as one step; here it is the sequence of     *)
(* guards that the code takes and drops, and any number of other tasks may *)
(* run between two of them.                                                *)
(*                                                                         *)
(* A mutex is a lock that is only taken for writing.  All of tokio's locks *)
(* are first come first served, the RwLock as well: a reader waits behind  *)
(* a writer that came before it, whoever holds the lock.  Awaits that      *)
(* concern no lock are pauses between two steps.                           *)
(***************************************************************************)
EXTENDS Naturals, Sequences, SequencesExt

CONSTANT Tasks

VARIABLES
  doing,   \* the operation a task is in the middle of, or "idle"
  pc,      \* its next step
  queue,   \* who waits for a lock
  writing, \* who has the write guard of a lock, or the guard of a mutex
  reading  \* how many read guards of a lock a task has

lockVars == <<doing, pc, queue, writing, reading>>

\* AppState, and PeerNode.
Locks == {"node", "server", "io", "inner", "poller"}

Lock(lock) == <<[act |-> "write", lock |-> lock]>>
Write(lock) == Lock(lock)
Read(lock) == <<[act |-> "read", lock |-> lock]>>
Drop(lock) == <<[act |-> "drop", lock |-> lock]>>

-----------------------------------------------------------------------------
(* PeerNode.                                                               *)

snapshot == Read("inner") \o Drop("inner")

update == Write("inner") \o Drop("inner")

ensure_poller == Lock("poller") \o Drop("poller")

WithIoLock(section) == Lock("io") \o section \o Drop("io")

\* connect_to with the URL it is connected to: the snapshot is taken while the
\* guard of the check is still held.
connect_again == WithIoLock(Read("inner") \o snapshot \o Drop("inner"))

\* connect_to: the check, the keys, the session, the poller, the answer.
connect_new ==
  WithIoLock(snapshot \o snapshot \o update \o ensure_poller \o snapshot)

\* send_text: the session, the outbox, the messages.
send_text == WithIoLock(snapshot \o update \o update)

\* poll_once, after two looks at the session.
poll == snapshot \o snapshot \o WithIoLock(update)

\* accept_handshake, accept_message, accept_pull and the routes.
MessageWithoutIo == update

message == WithIoLock(update)
handshake == message \o ensure_poller
identity == snapshot

-----------------------------------------------------------------------------
(* The commands of lib.rs.                                                 *)

WithNode(section) == Lock("node") \o section \o Drop("node")

start_listener == WithNode(snapshot \o Lock("server") \o Drop("server"))

HostWithoutNode == update \o snapshot

set_advertise_host == WithNode(update \o snapshot)

Program ==
  [start_listener |-> start_listener,
   get_status |-> WithNode(snapshot),
   set_advertise_host |-> set_advertise_host,
   connect_again |-> WithNode(connect_again),
   connect_new |-> WithNode(connect_new),
   send_chat_message |-> WithNode(send_text \o snapshot),
   handshake |-> handshake,
   message |-> message,
   identity |-> identity,
   poll |-> poll]

Routes == {"handshake", "message", "identity"}

-----------------------------------------------------------------------------
(* The tasks.                                                              *)

Busy(t) == doing[t] # "idle"

Ended(t) == pc[t] > Len(Program[doing[t]])

Step(t) == Program[doing[t]][pc[t]]

WaitsFor(lock, t) == \E k \in DOMAIN queue[lock] : queue[lock][k] = t

Waits(t) == \E lock \in Locks : WaitsFor(lock, t)

\* The user presses a button, a request or a tick of the poller comes; there is
\* one poller, see ensure_poller.
Begin(t) ==
  /\ ~Busy(t)
  /\ \E operation \in DOMAIN Program :
       /\ operation = "poll" => \A other \in Tasks : doing[other] # "poll"
       /\ doing' = [doing EXCEPT ![t] = operation]
  /\ UNCHANGED <<pc, queue, writing, reading>>

\* lock(), read() and write() queue up,
Request(t) ==
  /\ Busy(t) /\ ~Ended(t) /\ ~Waits(t)
  /\ Step(t).act # "drop"
  /\ queue' = [queue EXCEPT ![Step(t).lock] = Append(@, t)]
  /\ UNCHANGED <<doing, pc, writing, reading>>

\* and their await ends when the guards of others allow it.
Acquire(t) ==
  /\ Busy(t) /\ Waits(t)
  /\ LET lock == Step(t).lock
     IN /\ Head(queue[lock]) = t
        /\ writing[lock] = {}
        /\ queue' = [queue EXCEPT ![lock] = Tail(@)]
        /\ IF Step(t).act = "read"
           THEN /\ reading' = [reading EXCEPT ![lock][t] = @ + 1]
                /\ UNCHANGED writing
           ELSE /\ \A other \in Tasks : reading[lock][other] = 0
                /\ writing' = [writing EXCEPT ![lock] = {t}]
                /\ UNCHANGED reading
  /\ pc' = [pc EXCEPT ![t] = @ + 1]
  /\ UNCHANGED doing

DropGuard(t) ==
  /\ Busy(t) /\ ~Ended(t)
  /\ Step(t).act = "drop"
  /\ LET lock == Step(t).lock
     IN IF t \in writing[lock]
        THEN writing' = [writing EXCEPT ![lock] = @ \ {t}] /\ UNCHANGED reading
        ELSE reading' = [reading EXCEPT ![lock][t] = @ - 1] /\ UNCHANGED writing
  /\ pc' = [pc EXCEPT ![t] = @ + 1]
  /\ UNCHANGED <<doing, queue>>

End(t) ==
  /\ Busy(t) /\ Ended(t)
  /\ doing' = [doing EXCEPT ![t] = "idle"]
  /\ pc' = [pc EXCEPT ![t] = 1]
  /\ UNCHANGED <<queue, writing, reading>>

KeepsGuards(t) ==
  /\ Busy(t)
  /\ Waits(t) => doing[t] \in Routes
  /\ doing' = [doing EXCEPT ![t] = "idle"]
  /\ pc' = [pc EXCEPT ![t] = 1]
  /\ queue' = [lock \in Locks |-> RemoveFirst(queue[lock], t)]
  /\ UNCHANGED <<writing, reading>>

\* An operation returns early, as it may with an error after most of its steps, or
\* axum drops the handler of a request whose connection has broken, wherever it
\* is: the guards go with it, and so does its place in a queue.
Leaves(t) ==
  /\ Busy(t)
  /\ Waits(t) => doing[t] \in Routes
  /\ doing' = [doing EXCEPT ![t] = "idle"]
  /\ pc' = [pc EXCEPT ![t] = 1]
  /\ queue' = [lock \in Locks |-> RemoveFirst(queue[lock], t)]
  /\ writing' = [lock \in Locks |-> writing[lock] \ {t}]
  /\ reading' = [lock \in Locks |-> [reading[lock] EXCEPT ![t] = 0]]

Proceeds(t) == Request(t) \/ Acquire(t) \/ DropGuard(t) \/ End(t)

LockInit ==
  /\ doing = [t \in Tasks |-> "idle"]
  /\ pc = [t \in Tasks |-> 1]
  /\ queue = [lock \in Locks |-> <<>>]
  /\ writing = [lock \in Locks |-> {}]
  /\ reading = [lock \in Locks |-> [t \in Tasks |-> 0]]

LockNext == \E t \in Tasks : Begin(t) \/ Proceeds(t) \/ Leaves(t)

LockSpec == LockInit /\ [][LockNext]_lockVars

-----------------------------------------------------------------------------
(* Properties.                                                             *)

\* Type invariant: also, an idle task waits for nothing and has no guard.
LockTypeOK ==
  /\ doing \in [Tasks -> DOMAIN Program \cup {"idle"}]
  /\ pc \in [Tasks -> Nat \ {0}]
  /\ queue \in [Locks -> Seq(Tasks)]
  /\ writing \in [Locks -> SUBSET Tasks]
  /\ reading \in [Locks -> [Tasks -> 0 .. 2]]
  /\ \A t \in Tasks, lock \in Locks :
       doing[t] = "idle" => ~Waits(t) /\ t \notin writing[lock] /\ reading[lock][t] = 0

\* What the other modules rely on: while connect_to or send_text is between its
\* first look at the node and its last write, nobody else writes, although no
\* guard of the RwLock is held in between.
InMidCall(t) ==
  t \in writing["io"] /\ doing[t] \in {"connect_again", "connect_new", "send_chat_message"}

CallsAlone ==
  \A t \in Tasks : InMidCall(t) => writing["inner"] \subseteq {t}

\* Whom a waiting task waits for: those before it, and those whose guards exclude
\* it, itself included.
Ahead(lock, t, other) ==
  \E j, k \in DOMAIN queue[lock] :
    j < k /\ queue[lock][j] = other /\ queue[lock][k] = t

Excludes(lock, t, other) ==
  \/ other \in writing[lock]
  \/ Step(t).act = "write" /\ reading[lock][other] > 0

BlockedBy(t, other) ==
  \E lock \in Locks :
    WaitsFor(lock, t) /\ (Ahead(lock, t, other) \/ Excludes(lock, t, other))

\* No tasks wait for each other in a circle, of any length, over the five locks;
\* the locks being first come first served, every one of them gets its turn.  The
\* narrowest case is connect_to taking a second read guard while it has one: a
\* writer queued in between would wait for the first and the second for it.  None
\* is, because writers come with the io_lock or with the node mutex, and
\* connect_peer has both.
NoCircle ==
  \A circle \in (SUBSET Tasks) \ {{}} :
    \E t \in circle : \A other \in circle : ~BlockedBy(t, other)

=============================================================================
