----------------------------- MODULE MCHandshake -----------------------------
(***************************************************************************)
(* Instances of Handshake for TLC.  Node x listens behind URL ux; dead is  *)
(* a URL nothing answers at.                                               *)
(***************************************************************************)
EXTENDS Handshake, TLC

CONSTANTS a, b, c, ua, ub, uc, dead

Two == {a, b}
Three == {a, b, c}

UrlsOfTwo == {ua, ub}
UrlsOfThree == {ua, ub, uc}
UrlsAndDead == {ua, ub, dead}

ServesTwo == ua :> a @@ ub :> b
ServesThree == ua :> a @@ ub :> b @@ uc :> c
ServesAndDead == ua :> a @@ ub :> b @@ dead :> Nobody

\* Both nodes announce their own URL, always.
TwoAnnounce == a :> {ua} @@ b :> {ub}

\* The user of a may announce a wrong URL.
MayAnnounceDead == a :> {ua, dead} @@ b :> {ub}

\* b is a host, c is behind NAT, a may be.
GuestsMayHide == a :> {ua, NoUrl} @@ b :> {ub} @@ c :> {NoUrl}
OneMayHide == a :> {ua, NoUrl} @@ b :> {ub}

\* Who presses Connect with which URL.
AnyoneAnywhere == Nodes \X Urls
EachOther == {<<a, ub>>, <<b, ua>>}
Chain == {<<a, ub>>, <<b, uc>>, <<a, uc>>}

=============================================================================
