----------------------------- MODULE MCPeerNode ------------------------------
(***************************************************************************)
(* Instances of PeerNode for TLC.  Node x listens behind URL ux.           *)
(***************************************************************************)
EXTENDS PeerNode, TLC

CONSTANTS a, b, ua, ub

Two == {a, b}

UrlsOfTwo == {ua, ub}

ServesTwo == ua :> a @@ ub :> b

\* b is a host; a may be behind NAT.
GuestMayHide == a :> {ua, NoUrl} @@ b :> {ub}

\* Only the guest dials, or the host dials back as well.
GuestDialsHost == {<<a, ub>>}
EachOther == {<<a, ub>>, <<b, ua>>}

OneEach == a :> 1 @@ b :> 1

=============================================================================
