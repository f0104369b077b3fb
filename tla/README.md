# Verification of secure-p2p-chat

TLA+ modules, TLC configurations and TLAPS proofs about the peer-to-peer chat in
this repository (a Tauri application: `src-tauri/` in Rust, `src/main.ts` for the
window). Two people run the application; one shares a URL, the other connects to
it, and both exchange encrypted texts over HTTP. The paths below are relative to
the repository's root.

## 1. The system

| Part | State | Operations |
|---|---|---|
| Session cryptography, `crypto.rs` | an X25519 identity per process, a pair of directional AES-256-GCM keys per session | derive, encrypt, decrypt, handshake transcript |
| Session establishment, `peer.rs` | identity, advertised host, `session: Option<Session>`, `io_lock` | `connect_to`, `GET /identity`, `POST /handshake`, `set_advertise_host` |
| Messaging and mailbox, `peer.rs` | `outbox` (at most 256 wires), `messages`, the poller task | `send_text`, `POST /message`, `ensure_poller` / `poll_once`, `POST /pull` |
| Commands, `lib.rs` | the `node` mutex over `Option<PeerNode>`, the server handle | `start_listener`, `get_status`, `set_advertise_host`, `discover_network`, `connect_peer`, `send_chat_message` |
| Chat window, `main.ts` | the rendered snapshot, the host field, the input, the refresh timer | the buttons, the form, `refresh` once a second |
| Network discovery, `net.rs` | none | local addresses, the STUN request and its parser, candidate URLs |

**How they interact.** The window invokes a command; the command locks the node
mutex and calls the `PeerNode`, which calls another process's HTTP routes. The
routes call the `PeerNode` directly, without the node mutex. There are five locks: the
mutexes of `AppState` over the node and the server handle, and in a `PeerNode` the
`RwLock` over the data, `io_lock`, and one over the poller. The `RwLock` is only ever
held for a moment. `io_lock` is held by `connect_to` from before its `GET /identity` until it
has stored its session, by `send_text` while its direct POST travels, and, for a
moment, by `accept_handshake`, `accept_message`, `accept_pull` and the part of
`poll_once` that applies what was pulled. A node with a session runs one poller
task, which asks the peer's `POST /pull` for queued wires when the session has a
peer URL.

**Two ways for a text.** If the session has a peer URL, `send_text` posts the text
directly and queues it when that fails within five seconds. If not (the peer is
behind NAT), it queues the text at once. Queued texts travel in the answer to the
peer's next pull.

**What is hard.** Locks held across calls to a process that needs the same lock of
its own; handshakes whose answer is lost, so that only one end is connected;
requests that outlive their caller; restarts with a new identity while the peer
keeps its session; a session replaced while the outbox and the poller still serve
the old one; a timeout that races with the answer; an outbox that is drained
before its content has arrived, and that is bounded. `PROJECT.json` lists each of
these at its line under `hazards`.

**What makes each part correct.**

- Establishment: each session is asked for, or granted, by the holder of the
  peer's key, for the identity the process has now; the two ends have opposite
  roles and so distinct keys; an initiator that believes it is connected has a
  responder; a Connect whose answer was lost can be tried again; a session with a
  dialable peer is kept; Connect returns.
- Messaging: a text shown as sent is shown by the peer, or queued, or on its way;
  it exists once unless its POST was given up; a refused text is not sent; the
  mailbox keeps order; an answer is below what it answers; a window shows only what
  was written to it; Send returns and the mailbox is pulled.
- Commands and window: one listener; what the window shows is never ahead of the
  node, and catches up with it unless a Connect hangs.
- Locks: no circle of tasks wait for each other inside a process, and between the
  critical sections of a call nobody else writes.
- Discovery: the parser reads inside the datagram and finds the address that the
  server told, and Detect comes back; a host comes from the field to the share URL and
  to the peer as it was typed.

## 2. The modules

| Module | Models | Of |
|---|---|---|
| `SessionCrypto` | keys, sealing and opening, symbolically | `crypto.rs` |
| `PeerState` | the state that establishment and messaging share | `PeerInner`, `Session` |
| `Handshake` | establishment between any number of nodes, with restarts, broken calls and stale requests (`HSSpec`) | `connect_to`, `accept_handshake`, `set_advertise_host` |
| `Mailbox` | messaging between any number of nodes, for any sessions | `send_text`, `accept_message`, `poll_once`, `accept_pull` |
| `LossyQueue` | what the mailbox promises to a peer that cannot be dialled, with no locks, requests or timeouts in it (`LQSpec`) | abstract |
| `Conversation` | `Mailbox` on one established session (`ConversationSpec`), mapped to `LossyQueue` | the same as `Mailbox` |
| `PeerNode` | `Handshake` and `Mailbox` over one `io_lock`, with restarts (`Spec`), mapped to `Handshake` | all of `peer.rs` |
| `InnerLocks` | the five locks of a process, guard by guard (`LockSpec`) | `peer.rs`, `lib.rs` |
| `AppShell` | one process as its user sees it: the commands that take turns at the node mutex and the window that renders their answers (`AppSpec`) | `lib.rs`, `main.ts` |
| `StunReply` | the STUN exchange and the walk over the answer, byte by byte | `net.rs` |
| `ShareUrl` | how texts become URLs: the typed host, the candidates, the announcement | `net.rs`, `peer.rs` |
| `Discovery` | the host on its way from the field and from Detect to the share URL and to a peer (`DiscoverySpec`) | `main.ts`, `lib.rs`, `peer.rs`, `net.rs` |
| `MCHandshake`, `MCConversation`, `MCPeerNode`, `MCDiscovery` | values of the constants for TLC | |
| `Handshake_proofs` | theorems about `HSSpec` | |
| `Mailbox_proofs` | the invariant of `Mailbox` and its preservation by each action | |
| `PeerNode_proofs`, `Conversation_proofs` | theorems about `Spec` and about `ConversationSpec`, from the above | |
| `LossyQueue_proofs`, `InnerLocks_proofs`, `AppShell_proofs`, `Discovery_proofs` | theorems about `LQSpec`, `LockSpec`, `AppSpec`, `DiscoverySpec` | |

`PeerNode` extends `Handshake` and `Mailbox`, which share `PeerState`; `Conversation`
extends `Mailbox`; `Discovery` extends `StunReply` and `ShareUrl`. `AppShell` and
`InnerLocks` stand beside them: the first sees of a node what a snapshot tells, the second
only its locks.

### State

`epoch[n]` counts the starts of process n; the pair `<<n, epoch[n]>>` stands for
its public key, because `PeerNode::new` generates one and nothing stores it.
`advertise[n]` is the URL the node announces as `listen_url`, or `NoUrl`.
`session[n]` has the fields of `struct Session`; the cipher keys are computed from
the two identities and the role, as `SessionKeys::derive` does. `ioLock[n]` says who
holds `io_lock` across an await; a handler needs it for one step only, so it is
enough that the handler finds it free. `call[n]`, `sending[n]` and `poll[n]` are the
locals of a `connect_to`, a `send_text` and a `poll_once` that wait for something.
`outbox[n]` and `messages[n]` are the code's.

`stale`, `staleSends` and `stalePulls` are requests whose caller no longer waits.
The operating system or the server's queue (a handler that waits for `io_lock`) may
still have them, so each may be served at any later time, or never. `Serves` says
which process a URL reaches: a process started again listens at the same URL.

History variables (`offered`, `answered`, `abandoned`, `lost`, `refused`) appear in no
guard; the properties read them. A text carries the peer key it was written for in
its plaintext (`for`); no action reads that either.

### Actions

Between two awaits a task runs alone as far as the shared data is concerned,
because it holds the `RwLock` or `io_lock`; such a stretch is one action.

| Action | Code (`peer.rs`) |
|---|---|
| `ConnectToStart`, `ConnectToPost`, `ConnectToSucceed` / `ConnectToReject` / `ConnectToFail` | `connect_to` up to its first await; the identity's answer and the POST; the checks and the stores, or an error return |
| `AnswerCall`, `AnswerStale` | `accept_handshake` (`AcceptHandshake`) and `ensure_poller` (`EnsurePoller`) for a caller that waits, or no longer waits: then the handler may be dropped between the two |
| `SetAdvertiseHost` | `set_advertise_host` |
| `Restart`, `RestartNode` | the process ends and is started again |
| `SendTextDirect`, `SendTextMailbox`, `SendTextReturns`, `SendTextTimesOut` | `send_text` up to its POST; without a POST; after the answer; after the timeout or a broken connection |
| `AnswerSend`, `AnswerStaleSend` | `accept_message` |
| `PollStart`, `AnswerPull`, `PollReceives`, `PollApplies`, `PollFails`, `PollTimesOut` | `poll_once`: the request, the peer's `accept_pull`, the body read, the wires applied under `io_lock`, the error returns |
| `AnswerStalePull` | `accept_pull` for a poll that has timed out |

| Action of `AppShell` | Code |
|---|---|
| `ClickStart`, `ClickConnect`, `Submit`, `Tick` | the handlers of `main.ts`, and `refresh`, up to their `invoke` |
| `Locks` | a command of `lib.rs` gets the node mutex and looks at the slot; `get_status` and refusals answer at once |
| `ListenerBinds` | `bind_and_serve` has bound the socket; the routes serve from here on |
| `ListenerStarts` | the snapshot is taken, the slot and the server handle are filled, the command answers |
| `PeerConnects`, `MessageSent`, `CallFails` | `connect_to` or `send_text` has returned, or any of the calls has failed; the command answers and lets the mutex go |
| `Settle` | the rest of the handler: `renderSnapshot`, `startPolling`, or the catch clause |
| `Reload` | the page is loaded again; commands in progress go on, their promises are gone |
| `PeerArrives`, `MessageArrives` | the HTTP routes, which do not take the node mutex and serve before the slot is filled |

| Action of `Discovery` | Code |
|---|---|
| `Type` | the user edits the host field |
| `ClickDiscover`, `DiscoverReturns` | the handler of Detect up to its `invoke`, with the port its field has then, and after it: the suggestion of `network_hints`, the field filled if it is still blank |
| `Stun` | `stun_public_ipv4`: an answer or none, then one round of the parser's loop per step |
| `ClickStart`, `SetAdvertiseHost` | the host reaches the node, with the port the field has then; its snapshot is rendered |
| `Announce` | `connect_to` posts `listen_url`, the peer's `accept_handshake` checks and keeps it |
| `Roam` | the local addresses change |

In `InnerLocks` an operation is the sequence of guards it takes and drops (`Program`), and
`Request`, `Acquire`, `DropGuard` and `End` work through it; `Leaves` is an early return at
any point, or axum dropping a handler whose connection has broken. It justifies the
granularity of the other modules: `CallsAlone` says that nobody writes between the critical
sections of a `connect_to` or a `send_text`, so each of them may be taken as one step.

`Handshake` knows `send_text` only as something that takes and releases `io_lock`
(`SendTextTakes`, `SendTextReleases`); that this is all that messaging is to
establishment is proved (`NodeImplementsHandshake`).

### Abstractions

- Cryptography is perfect: a payload opens under the key that sealed it and under no
  other. Encodings, nonces and malformed keys are left out; nobody in the model
  makes up a message.
- `GET /identity` and the sending of the POST are one step. A restart of the peer
  after that step is in the model, which gives the same outcomes as one in between.
- A text is its author, its number and its addressee. Empty and over-long texts are
  refused before anything changes and are left out.
- `set_advertise_host` may be called at any time, as the library allows. The window
  offers it only through `start_listener`.
- The answer to a pull that is refused or empty has no effect and ends the poll at
  once.
- `send_text` and `poll_once` have timeouts; `connect_to` has none. `ConnectToFail` is
  a transport error, which the model allows at any time and never requires.
- `abandoned` are the texts whose POST to a live process timed out. A POST to a URL
  behind which nobody listens fails without a second copy, and its text is not among them.
- The handler of a handshake whose caller has gone may be dropped before `ensure_poller`
  (`peer.rs:592`). The session it left has no other end yet, and the Connect that makes one
  starts the poller; so `MailboxDrains`, which speaks of sessions with two ends, holds.
- `AppShell` knows of a node only what a snapshot tells of it, and of a list of messages
  only its length, since messages are only ever added. Commands may reach the node
  mutex in any order.
- The HTTP server never refuses work for lack of resources, and `health` and the log are
  left out because they change nothing.
- What one application of `poll_once` accepts of a pulled list is said without recursion:
  `Passing` are the listings, in order, of the positions that pass its two conditions
  (`Listings`; there is exactly one, by `ListingComplete` and `ListingUnique`).
- `InnerLocks` gives each operation its longest path and lets it leave at any step, which
  covers every early return. Lengths of waiting do not occur in it.
- A text in `ShareUrl` is a sequence of words ("http", ":", "/", a name, a number), so the
  trimming and splitting of the code is modelled word by word. Two things the code does
  are visible there: a host typed as `https://name` is shared as `http://name:port`, and
  an IPv6 address is split at its last colon. No document says otherwise.
- The parser checks neither the message type nor the transaction id of an answer, and the
  model gives it any prefix of any list of attributes, so it needs neither. One Detect is
  in progress at a time. Which address a probe of the routing table sees is an input
  (`Routes`).

## 3. The runs

The configurations over `Handshake`, `Mailbox` and `PeerNode` say `CHECK_DEADLOCK FALSE`:
the number of calls, texts, restarts and lost polls is bounded, so every instance ends, and
users may stop as well. That calls return is checked as liveness instead. `AppShell.cfg`,
`InnerLocks.cfg` and `Discovery.cfg` check for deadlock.

| Run | Instance | Checks |
|---|---|---|
| `handshake_retry` | two nodes of which one may announce a URL nobody listens behind, any URL (their own and the dead one) dialled, two calls and one restart each | `HSTypeOK`, `MutualProof`, `CounterpartExists`, `RefusedForCause`, `SessionPinned` |
| `handshake_nat` | three nodes that dial a → b → c and a → c, a perhaps and c always without URL, two calls and one restart each | `MutualProof`, `DistinctDirections`, `SessionPinned` |
| `conversation` | one text from the client and three from the host, outbox of two, the client dialable, behind NAT or wrongly announced, one faulty poll | `MailboxTypeOK`, `NoTextVanishes`, `OneCopyUnlessAbandoned`, `RefusedIsNotSent`, `OrderUnlessAbandoned`, `RepliesFollow`, `ImplementsLossyQueue` |
| `node_restart` | a → b and b → a once each, a perhaps without URL, one text each way, a restart each | `ShownToAddressee` |
| `node_returns` | a → b, twice at most, one text each way, with fairness | `ConnectReturns`, `SendReturns`, `MailboxDrains` |
| `app_shell` | two commands in progress, two messages, one reload of the page, with fairness | `AppTypeOK`, `OneListener`, `WindowTrue`, `WindowCatchesUp`, `StartComesBack` |
| `inner_locks` | three tasks, any operations | `LockTypeOK`, `CallsAlone`, `NoCircle` |
| `discovery` | every prefix of the answers with at most two attributes out of six kinds; every host of up to three chunks; two networks; with fairness | `DiscoveryTypeOK`, `ReadsInside`, `FindsFirstAddress`, `SuggestionIsShared`, `SharedAsTyped`, `AnnouncedIsShared`, `DetectReturns` |

`handshake_retry` and `handshake_nat` are the places to look for what restarts, lost
answers and late requests can do to a session: two calls allow a retry after a lost
answer, and a restart in between allows a request of the old identity to arrive
under the new one. Three nodes are needed for a session to be replaced and for a
stale request to meet a session with somebody else; a fourth would add another pair
of the same kind, and the theorems hold for any number. `RefusedForCause` is about the
retry: the responder still has the session of the attempt whose answer was lost, and
grants the second attempt only because it finds that session again (`Resumes`).

In `conversation` three texts are the least with which an outbox of two is filled and
refuses one, and with which a text that is posted directly overtakes another that waits
behind a third; one faulty poll is the least with which an answer is lost and a stale pull
drains what was meant for the next. `ImplementsLossyQueue` says that for a client that
cannot be dialled all of this together is a queue that hands over each text once and in
order, and loses runs of texts only. `RepliesFollow` needs a text in either direction: the
client's is still being posted, and so not yet in its own window, when the host has read it
and answers, directly or in a pull; `accept_message` and `poll_once` wait for the `io_lock`
of that send.

In `node_restart` a host fills its outbox for a guest, the guest is started again, and the
host dials it: the new session drains the old outbox, which is where a text could be shown
to the wrong identity. In `app_shell` two commands in progress are the least with which one
waits for the mutex and answers overtake each other, and one reload is enough for a start of
the old page to be still binding when the new page starts.

In `inner_locks` three tasks are needed for the narrow case: a reader that asks for the
same `RwLock` again, a writer queued in between, and a third task that holds what lets the
writer come there. In `discovery` two attributes are the least with which padding and
length decide where the second begins, and three chunks the least that hold a name, a colon
and a port; the forms with a scheme are added (`Forms`). Texts are combined with one plain
answer and with silence only: the walk does not see the field.

### Fairness

The liveness runs assume that the runtime polls every task that can run and that
timers fire (weak fairness on the steps of a task), and that a request that waits
for `io_lock` gets it in the end: the tokio mutex is first come first served, so a
waiter is not overtaken for ever even if the lock is taken in between (strong
fairness on the steps that take it: `AnswerCall`, `AnswerSend`, `AnswerPull`,
`PollApplies`). In `AppShell` the timer fires, promises settle and the node mutex is first
come first served as well. `start_listener` and `send_chat_message` return: a send posts for
five seconds at most, and while it has the node mutex no `connect_to` has `io_lock`. Nothing
says that `connect_peer` returns, since the HTTP client of `connect_to` has no timeout
(`peer.rs:224`); `mutual_connect` shows that it may hang. So `ConnectIn` is not fair, and
`WindowCatchesUp` and `StartComesBack` say that the window catches up and the button comes
back, or else a Connect has the node mutex for ever: nothing but that freezes the window.
In `Discovery` the STUN socket has its timeout, the walk is run and the promise settles.
`InnerLocks` assumes no fairness: with first come first served locks and no circle of
waiting, an operation ends if the tasks before it are run. Nothing is assumed of users, of
restarts, of stale requests or of transport errors. `connect_to` has no timeout, so none is
assumed.

### Disagreements the runs show

Each of these runs checks one property that a document, comment or test states, and
TLC finds the code violating it (`findings` in `PROJECT.json` has the quotation).

| Run | Property | What happens |
|---|---|---|
| `mutual_connect` | `ConnectReturns` | two users connect to each other at once: both calls hold `io_lock` and wait for the other's, with no timeout; both nodes are stuck |
| `same_direction` | `DistinctDirections` | a host dials back a NAT guest: both ends become initiators and encrypt with one key, so neither reads the other |
| `reply_lost` | `ReplyArrives` | the outbox is drained into an answer the client no longer waits for |
| `client_text_stuck` | `ClientTextArrives` | a NAT client's POST fails; its text goes to an outbox that the host, having no URL, never pulls |

The same behaviours are why the passing runs are stated as they are. `SessionPinned`
speaks of sessions with a peer URL only, because a session with a NAT guest is
overwritten by the next Connect (`peer.rs:229`). `ConnectReturns` passes only where
no two nodes dial each other, and `DistinctDirections` only there (`OneWayDials`).
`OneCopyUnlessAbandoned` allows a second copy of exactly the texts whose POST to a live
process was given up, `OrderUnlessAbandoned` lets exactly those arrive late, and
`NoTextVanishes` allows the loss of exactly the texts in an answer nobody received.
That a text was given up (`peer.rs:332`) and yet shown by the peer is what the code does:
the caller cannot know whether its POST was served.

## 4. The proofs

The theorems hold for any sets of nodes and URLs, any announcements, any capacity of the
outbox, any number of calls, texts, faults and restarts, any number of tasks at the locks, of
commands in progress and of reloads, any answers of STUN, any texts a user may type and any
local addresses. They use only the named assumptions of the modules: in `PeerState`, `Handshake` and `Mailbox` that `Serves` maps URLs to nodes or
`Nobody`, that `NoUrl` is no URL, that the bounds are natural numbers and the null values no
records; in `Conversation` that the host is another node than the client
(`ConversationAssumption`); in `AppShell` that its bounds are numbers; in `ShareUrl` that names and
numbers are not signs like ":" (`WordsAssumption`); in `Discovery` that the server lays out
attributes of bytes and 16-bit numbers of which any prefix may arrive, and that texts are
sequences of words (`WorldsAssumption`, `RoutesAssumption`), and that an address is written as
one word (`DottedAssumption`). The first of these leaves no datagram out: the bytes that
`Layout` fixes (the header, the port, the padding, the rest of a long value) are never read by
the parser, and those that it reads may be any.

| Theorem | States | Further assumption |
|---|---|---|
| `TypeCorrect` | `HSSpec => []HSTypeOK` | none |
| `MutualAuthentication` | `HSSpec => []MutualProof` | none |
| `RefusalHasCause` | `HSSpec => []RefusedForCause` | none |
| `SessionKept` | `HSSpec => SessionPinned` | none |
| `CounterpartThere` | `AllDialable /\ HSSpec => []CounterpartExists` | every node announces some URL |
| `DirectionsDistinct` | `OneWayDials /\ HSSpec => []DistinctDirections` | no two nodes dial each other |
| `NodeImplementsHandshake` | `Spec => ImplementsHandshake`, that is `HSSpec` | none |
| `NodeAuthenticates`, `NodeKeepsSession` | `Spec => []MutualProof`, `Spec => SessionPinned` | none |
| `NodeCounterparts`, `NodeDirections` | the same for `CounterpartExists`, `DistinctDirections` | as above |
| `MailboxTypeCorrect` | `Spec => []MailboxTypeOK` | none |
| `TextsReachAddressee` | `Spec => []ShownToAddressee` | none |
| `ConversationTypes` | `ConversationSpec => []MailboxTypeOK` | none |
| `TextsAreKept` | `ConversationSpec => []NoTextVanishes` | none |
| `OneCopy` | `ConversationSpec => []OneCopyUnlessAbandoned` | none |
| `RefusalIsTrue` | `ConversationSpec => []RefusedIsNotSent` | none |
| `InOrderUnlessAbandoned` | `ConversationSpec => []OrderUnlessAbandoned` | none |
| `AnswersFollow` | `ConversationSpec => []RepliesFollow` | none |
| `MailboxIsLossyQueue` | `ConversationSpec => ImplementsLossyQueue` | none |
| `PulledTextsInOrder` | `ConversationSpec => []PulledInOrder` | none |
| `HandedOverInOrder` | `LQSpec => []InOrder` | none |
| `LockTypesHold` | `LockSpec => []LockTypeOK` | none |
| `CallsUndisturbed` | `LockSpec => []CallsAlone` | none |
| `NoDeadlock` | `LockSpec => []NoCircle` | none |
| `AppTypes` | `AppSpec => []AppTypeOK` | none |
| `ListenerUnique` | `AppSpec => []OneListener` | none |
| `WindowNeverAhead` | `AppSpec => []WindowTrue` | none |
| `DiscoveryTypes` | `DiscoverySpec => []DiscoveryTypeOK` | none |
| `ParserReadsInside` | `DiscoverySpec => []ReadsInside` | none |
| `AddressFound` | `DiscoverySpec => []FindsFirstAddress` | none |
| `SuggestionKept` | `DiscoverySpec => []SuggestionIsShared` | none |
| `SharedAsMeant` | `DiscoverySpec => []SharedAsTyped` | none |
| `AnnouncementKept` | `DiscoverySpec => []AnnouncedIsShared` | none |

*Type correctness* is inductive as it stands, with two relations in it: a session is
dialable exactly when it has a URL, and `io_lock` is held by `connect_to` exactly while
one runs.

*Mutual authentication* is not inductive: a session is created from a request or an
answer that was made in earlier steps. `ProofInv` adds that a request in flight or
stale carries the proof of the identity that offered it and was recorded in `offered`,
and that an answer that passes `ResponseChecks` was recorded in `answered`. Identities
only grow (`epoch`), so what is said of an old identity stays true.

*A session is kept* because the store in `connect_to` happens only when there was no
session with a URL at its start and none can come up before its end: the lock
excludes `accept_handshake` for that time. `PinInv` says just that: while a call runs,
`MayDial` still holds.

*The counterpart exists* needs to know what an answer promises while it travels:
`Granted` says that an accepted answer in flight finds the responder end in place, as
long as the answering node has the identity that answered. That this survives every
step needs two more facts: with `AllDialable` every session and every request has a
URL (`UrlsKnown`), so that sessions are kept; and nobody knows an identity that is yet
to be generated (`IdentitiesKnown`), so that a restart leaves no one with a session
that has lost its other end. `CounterInv` is all of these together.

*A Connect is refused for a cause* because the answer of the responder stays true while the
caller has not read it. `RetryInv` says that what a call has in hand is addressed to one
identity (`Addressed`), with the proof that identity asks for, so a refusal can only be for a
session with somebody else; and that no two calls have each other's answer in hand, since a
node in a call does not answer. While the answer travels the responder can change its session
only by a Connect of its own, whose peer is then not the caller.

*The directions are distinct* because a session tells who dialled whom: `DialInv`
says that every call, every request and every pair in `offered` and `answered` comes
from a dial in that direction, and `MutualProof` ties a session to its pair. With both
ends in the same role there would be dials both ways.

*The whole node implements establishment.* The refinement mapping is the identity on the
variables of `Handshake`. What needs an invariant is the lock: `SendTextReleases` gives back
a lock that is `"send"`, so `Holders` says that whoever is in the middle of a send or a call
is the one that has `io_lock`. The theorems about `HSSpec` then carry over.

*A text is shown to its addressee only* although the outbox, a poll and a stale POST may
outlive the session they were made in. `MessagesInv` says of every wire, wherever it is,
that it is `Sealed`: its key belongs to the pair of its author's identity and the identity
named in the text. A node opens a wire only with a key of its own present identity, so it
opens only what was written to that.

*A text does not vanish* on one session because of three facts that come before it
(`Flow`): each wire under way opens at the other end, so that `poll_once` skips none; a
send that has been answered "delivered" has been shown there; and a pull that is answered
with texts comes from the other end (`PullsOwn`). Each action then moves a text from one
place of `Accounted` to another.

*A text exists once, is refused truly, and arrives in order*: these three hold of a text
because of where all others are, so they are proved together, by `DeliveryInv`, which says
for both directions (`Delivery(s, r)`) where each text of s can be. `Known` says that nothing
but what s has written is anywhere, so that the number of a new text is new. `SendTold` says that an answer
"delivered" is what the peer has done, and `SendAlone` that a text whose POST is under way is
nowhere else, but in r's window once it was delivered: this is why a text can be queued, after
a POST that did not get there, without a second copy. `StaleKept` says that a late POST is the
only one of its text and that the text was given up, so it may arrive although it waits in the
outbox as well. `RefusalKept` says the same of a refused text as `RefusedIsNotSent`, and that
it is in no answer either. `TextOK` bounds the places of one text; to a peer that can be
dialled only texts that were given up take the mailbox, without which an ordinary text could
be overtaken. For the order, `PairOK` and `Rising` compare what waits in the outbox, what is in
an answer and what is shown: each is younger than what comes after it on the way, or was given
up.

*An answer is below what it answers* because a window shows its own text at the end of its
send, under the same `io_lock` under which whatever comes from the peer is applied. `FollowInv`
adds to `DeliveryInv` that the peer has nothing of a text that the sender has not shown or
refused, but for the one whose POST is under way (`NoneEarly`). So, whenever this end applies a
text of the peer, it has no POST under way and shows all that the peer has read (`AllTold`).
`Below` compares the two windows at one text, and `AllBelow` at all of them; of the text that
the peer is posting `Follows` says it in advance, because it may be shown here before it is
there.

*The mailbox is a lossy queue.* For a client that cannot be dialled every step of the mailbox
is one of seven `Moves` of the host's texts: one is submitted, an answer takes the outbox, an
answer is shown, an answer or an outbox is lost, the client shows a text of its own, or none
moves (`StepMoves`). This needs `DeliveryInv`: nothing in an answer is skipped (`Genuine`), and
no POST of the host is under way. `QueueReady` adds that an answer holds no more than an outbox,
which bounds the queue by twice the capacity, and that what the window received can be listed in
order (`Listable`), since `Arrivals` chooses such a list. Each move then is a step of the queue
or a stutter, by facts about sequences alone (`PutStep` to `LastLostStep`). With
`HandedOverInOrder` of the queue, `PulledTextsInOrder` says what that means for the window: a
client behind NAT shows the host's texts in order and once, whatever timed out.

*No deadlock, and calls are alone.* `LockInv` says for each task, from its place in its program,
which guards it has (`Guarded`), and for each lock that a task is in its queue once and only when
its next step takes it (`InLine`) and that a writer is alone (`Exclusive`). What remains is about
the ten programs (`Follows`): they take the locks in the order of `Rank`, except that `connect_to`
asks for the `RwLock` again while it reads it, and then it has both the node mutex and `io_lock`,
and every writer of the `RwLock` has one of these two. In a would-be circle of waiting tasks take those
that wait for the lock that comes last, and of them the first in line: whoever it waits for has a
guard of that lock, and would have to wait for a later one.

*The abstract queue keeps order* because the numbers in `received` and in `queue` together
are increasing and none exceeds `submitted` (`QueueInv`).

*The window and the listener.* `AppInv` adds what lies between a command and its
effect: at most one command holds the mutex, the slot is still as it found it
(`(cmd.kind = "start_listener") = ~started`), a socket that is bound while the slot is empty
is that command's (`bound`), and every answer on its way is `Founded`, that is, claims no
more than the node has. The node only gains sessions and messages,
so an answer stays founded however late it is rendered.

*The parser* walks over bytes, while what it should find is said of the attributes the server
meant. `WalkInv` ties the two: the walk always stands where an attribute begins, or at the end
of the datagram (`At`), and has passed no attribute that has arrived and carries an IPv4 address. The lemmas before
it say what a datagram is: where each attribute begins and that its bytes stand there
(`LaidOut`), that masking twice undoes it (`MaskedIs`), and that rounding up as the code does
skips just the server's padding (`PaddingIs`). That the walk reads inside follows from the
guards of a round and from a length being two bytes, which are never negative.

*The URL that is shared, suggested and announced* is in all three places the advertised URL of
one host (`ShareInv`) at the port that was read at that click. The local addresses come after it in the list of candidates and so never
count (`CandidatesAre`), which is why roaming changes nothing. A host is always trimmed, and
trimming it again changes nothing (`TrimTwice`), so what `main.ts`, `PeerNode::new` and
`candidate_base_urls` each trim is the same. Whatever the text, an advertised URL begins with
"http://" and ends with a port (`AdvertisedIs`), so that `accept_handshake` takes it and trims
nothing from it (`ListenKept`).

The operators over texts and datagrams are recursive functions, or `CHOOSE` a maximum over a
set of positions. The lemmas about them go through the least element of a set of numbers
(`LeastNumber`, `AllNumbers`, `RecursionExists`), because the library's induction theorems take
an operator as parameter, which the provers here cannot use.

Only model-checked is liveness, as the prover knows no fairness: `ConnectReturns`,
`SendReturns`, `MailboxDrains`, `WindowCatchesUp`, `StartComesBack`, `DetectReturns`. Every
safety property of the passing runs is a theorem.

## 5. Not modelled, and the plan

Of `main.ts` the copy button, the content of the message input and the wording of the
status line are left out. Left out for good: styles, icons, build files, the Tauri shell,
`health`, the encodings of `crypto.rs`, and `.lifecycle/check.py`, a vendored copy of a tool
that checks change records and takes no part in the chat.

A behaviour of `AppShell` worth knowing: after a reload of the page, Start answers
"listener already started" and the refresh timer is not started again, so the window
shows only what its own commands return. `WindowCatchesUp` speaks of windows whose
timer runs.

A behaviour of `PeerNode` worth knowing: a node has one outbox for all its sessions, and
neither `connect_to` nor `accept_handshake` empties it when it replaces a session
(`peer.rs:291`, `peer.rs:509`). The next peer that pulls gets what was queued for the one
before (`peer.rs:571`). It cannot open it and skips it, which is what `ShownToAddressee`
checks, and the text is lost to the one it was for.

The plan, the most important part first:

1. The draft in the message input in `AppShell` (`main.ts:195`).
2. What ends a session whose other end restarted (`peer.rs:471`): today only a restart of
   the node that still has it.
