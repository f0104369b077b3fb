------------------------------ MODULE Discovery ------------------------------
(***************************************************************************)
(* How a node comes by the URL that it shares with people and announces to *)
(* peers: the user types a public host or lets Detect find one with STUN   *)
(* (src/main.ts, network_hints of peer.rs), Start makes it the node's      *)
(* advertise_host, and from there it reaches the window's share URL and,   *)
(* with a handshake, the session of a peer.                                *)
(***************************************************************************)
EXTENDS StunReply, ShareUrl

CONSTANTS
  Worlds, \* [answer, text, ports]: what STUN may answer and the user may type
  Routes, \* the local addresses that the probes of local_ipv4_addrs may see
  Dotted  \* the word for each address that STUN may find

\* The socket hands over the first bytes of what the server has laid out.
ASSUME WorldsAssumption ==
  \A w \in Worlds :
    /\ w.answer.attributes \in Seq(Attribute)
    /\ w.answer.length \in 0 .. Len(Datagram(w.answer.attributes))
    /\ w.text \in Seq(Words)
    /\ w.ports \subseteq Numbers

ASSUME RoutesAssumption == Routes \subseteq Seq(Words)

\* Each address that a server may tell is written as one word.
ASSUME DottedAssumption ==
  /\ NoAddress \notin DOMAIN Dotted
  /\ \A address \in DOMAIN Dotted : Dotted[address] \in Names
  /\ \A w \in Worlds : \A k \in DOMAIN w.answer.attributes :
       w.answer.attributes[k].address \in DOMAIN Dotted

VARIABLES
  world,
  routes,
  field,      \* the text in the input "advertise-host"
  asked,      \* the host that discover_network was called with
  askedPort,  \* and the port
  suggested,  \* the suggestion on the status line
  started,    \* the node exists
  listenPort, \* the one it is bound to
  host,       \* its advertise_host
  shared,     \* the share URL on display, for copying
  told        \* the last announcement that a peer has kept

placeVars == <<world, routes>>
queryVars == <<asked, askedPort, suggested>>
nodeVars == <<started, listenPort, host, shared, told>>
discoveryVars == <<stunVars, placeVars, field, queryVars, nodeVars>>

\* No URL has been suggested, shown, announced.
Nothing == <<"nothing">>

\* No port has been read.
NoPort == "none"

PublicIp == IF found = NoAddress THEN NoHost ELSE <<Dotted[found]>>

-----------------------------------------------------------------------------
Type ==
  /\ field' \in {NoHost, world.text}
  /\ field' # field
  /\ UNCHANGED <<stunVars, placeVars, queryVars, nodeVars>>

\* Detect.  The port is read from its own field, which may be changed before Start.
\* The model keeps one query in progress at a time.
ClickDiscover ==
  /\ AskStun
  /\ asked' = Trim(field)
  /\ askedPort' \in world.ports
  /\ UNCHANGED <<placeVars, field, suggested, nodeVars>>

Stun ==
  /\ StunAnswers(world.answer) \/ StunTimesOut \/ Walks
  /\ UNCHANGED <<placeVars, field, queryVars, nodeVars>>

StunFirst ==
  IF PublicIp # NoHost THEN Url(PublicIp, askedPort)
  ELSE IF asked # NoHost THEN CandidateUrls(asked, askedPort, routes)[1] ELSE Nothing

\* network_hints: the typed host is preferred to what STUN has found.
SuggestedShareUrl ==
  IF asked # NoHost THEN CandidateUrls(asked, askedPort, routes)[1]
  ELSE IF PublicIp # NoHost THEN Url(PublicIp, askedPort) ELSE Nothing

\* The field is looked at again when the answer is there.
FillField ==
  field' = IF Trim(field) = NoHost /\ PublicIp # NoHost THEN PublicIp ELSE field

\* The promise of discover_network settles.
DiscoverReturns ==
  /\ StunReturns
  /\ suggested' = SuggestedShareUrl
  /\ FillField
  /\ UNCHANGED <<placeVars, asked, askedPort, nodeVars>>

\* The node's advertise_host becomes typed, and the snapshot is rendered.
Advertise(typed, port) ==
  /\ host' = Trim(typed)
  /\ shared' = ShareUrlOf(Trim(typed), port, routes)

\* Start: main.ts trims, PeerNode::new trims again, the snapshot is rendered.
ClickStart ==
  /\ ~started
  /\ started' = TRUE
  /\ \E port \in world.ports : listenPort' = port /\ Advertise(field, port)
  /\ UNCHANGED <<stunVars, placeVars, queryVars, field, told>>

\* set_advertise_host, a command the window does not invoke.
SetAdvertiseHost ==
  /\ started
  /\ Advertise(world.text, listenPort)
  /\ UNCHANGED <<stunVars, placeVars, queryVars, field, started, listenPort, told>>

AnnounceAnyway ==
  /\ started
  /\ told' = [host |-> host, url |-> PeerListen(ShareUrlOf(host, listenPort, routes))]
  /\ UNCHANGED <<stunVars, placeVars, queryVars, field, started, listenPort, host, shared>>

\* connect_to posts the listen URL; accept_handshake keeps what it accepts.
Announce ==
  /\ started
  /\ LET listen == PeerListen(ListenUrl(host, listenPort, routes))
     IN /\ listen = NoHost \/ HttpUrl(listen)
        /\ told' = [host |-> host, url |-> listen]
  /\ UNCHANGED <<stunVars, placeVars, queryVars, field, started, listenPort, host, shared>>

\* The machine moves to another network.
Roam ==
  /\ routes' \in Routes \ {routes}
  /\ UNCHANGED <<stunVars, world, field, queryVars, nodeVars>>

DiscoveryInit ==
  /\ StunInit
  /\ world \in Worlds
  /\ routes \in Routes
  /\ field = NoHost
  /\ asked = NoHost
  /\ askedPort = NoPort
  /\ suggested = Nothing
  /\ started = FALSE
  /\ listenPort = NoPort
  /\ host = NoHost
  /\ shared = Nothing
  /\ told = [host |-> NoHost, url |-> Nothing]

DiscoveryNext ==
  \/ Type
  \/ ClickDiscover
  \/ Stun
  \/ DiscoverReturns
  \/ ClickStart
  \/ SetAdvertiseHost
  \/ Announce
  \/ Roam

DiscoverySpec == DiscoveryInit /\ [][DiscoveryNext]_discoveryVars

\* The socket has a timeout, the walk computes, and a settled promise is handled.
DiscoveryFairSpec ==
  /\ DiscoverySpec
  /\ WF_stunVars(StunTimesOut) /\ WF_stunVars(Walks) /\ WF_stunVars(StunReturns)

-----------------------------------------------------------------------------
(* Properties.                                                             *)

\* Type invariant.
DiscoveryTypeOK ==
  /\ stun \in {"idle", "asked", "walking", "done"}
  /\ message \in Seq(Byte)
  /\ i \in 20 .. Len(message) + 4 * 65536
  /\ found \in {NoAddress} \cup DOMAIN Dotted
  /\ field \in {NoHost, world.text} \cup {<<Dotted[address]>> : address \in DOMAIN Dotted}
  /\ askedPort \in {NoPort} \cup Numbers
  /\ started \in BOOLEAN
  /\ listenPort \in {NoPort} \cup Numbers
  /\ told.url # Nothing => started

\* Detect comes back whatever the datagram contains: an attribute of length zero,
\* a false length or a cut one does not keep the walk where it is.
DetectReturns == stun # "idle" ~> stun = "idle"

\* What Detect has suggested is what Start then shares, if the port is left as it
\* was and the host as it was or as Detect has filled it.
SuggestionIsShared ==
  suggested # Nothing /\ stun = "idle" =>
    LET kept == IF asked # NoHost THEN asked ELSE PublicIp
    IN kept # NoHost /\ Trim(field) = kept => ShareUrlOf(Trim(field), askedPort, routes) = suggested

\* A host typed as a name, a URL, with a port or without, is shared as a URL with
\* that name and that port, or the listener's; what is listed beside it, for other
\* networks, is listed once.
SharedAsTyped ==
  started =>
    /\ IsInjective(CandidateUrls(host, listenPort, routes))
    /\ \A name \in ToSet(host) \ ToSet(https),
          scheme \in {<<>>, http, https}, slash \in {<<>>, <<"/">>},
          port \in {<<>>} \cup {<<":", number>> : number \in Numbers} :
         host = scheme \o <<name>> \o port \o slash
           => shared = http \o <<name>> \o (IF port = <<>> THEN <<":", listenPort>> ELSE port)

\* A peer that accepted a handshake keeps the URL that the window offers for
\* copying, so that it recognises the node when its own user pastes it; without a
\* host it keeps none.  No text the user can type makes the announcement one that
\* accept_handshake refuses, and no change of network changes it.
AnnouncedIsShared ==
  started =>
    /\ host = NoHost <=> PeerListen(ListenUrl(host, listenPort, routes)) = NoHost
    /\ host # NoHost => HttpUrl(PeerListen(ListenUrl(host, listenPort, routes)))
    /\ told.url # Nothing /\ told.host = host =>
         told.url = IF host = NoHost THEN NoHost ELSE PeerUrl(shared)

=============================================================================
