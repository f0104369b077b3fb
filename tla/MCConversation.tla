--------------------------- MODULE MCConversation ----------------------------
(***************************************************************************)
(* Instances of Conversation for TLC: a presses Connect with b's URL.      *)
(***************************************************************************)
EXTENDS Conversation, TLC

CONSTANTS a, b, ua, ub, dead

Two == {a, b}

UrlsOfTwo == {ua, ub}
UrlsAndDead == {ua, ub, dead}

ServesTwo == ua :> a @@ ub :> b
ServesAndDead == ua :> a @@ ub :> b @@ dead :> Nobody

\* The client announces its URL, announces none, or announces a wrong one.
BehindNat == a :> {NoUrl} @@ b :> {ub}
AnyAnnouncement == a :> {ua, NoUrl, dead} @@ b :> {ub}

\* How many texts the client and the host submit.
OneEach == a :> 1 @@ b :> 1
OneAndThree == a :> 1 @@ b :> 3
ClientOnly == a :> 1 @@ b :> 0

=============================================================================
