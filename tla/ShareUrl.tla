------------------------------- MODULE ShareUrl -------------------------------
(***************************************************************************)
(* The texts that become URLs: what net.rs and peer.rs make of the host    *)
(* the user types, and what connect_to and accept_handshake make of a URL. *)
(* A text is a sequence of words: "http", "https", ":", "/", " ", decimal  *)
(* numbers, and names, among them dotted addresses.                        *)
(***************************************************************************)
EXTENDS Integers, Sequences, SequencesExt

CONSTANTS
  Names,  \* the words that are names, addresses among them
  Numbers \* the words that consist of digits

Blank == " "
Loopback == "127.0.0.1"

\* The words that say something to the code, and all words of a text.
Signs == {"http", "https", ":", "/", Blank}
Words == Signs \cup Names \cup Numbers

ASSUME WordsAssumption ==
  /\ (Names \cup Numbers) \cap Signs = {}
  /\ Loopback \in Names

\* Option::None, and a host that is blank: the code treats them alike.
NoHost == <<>>

http == <<"http", ":", "/", "/">>
https == <<"https", ":", "/", "/">>

StartsWith(text, prefix) ==
  Len(text) >= Len(prefix) /\ SubSeq(text, 1, Len(prefix)) = prefix

\* trim_start_matches takes the prefix off as often as it is there.
TrimStart(text, prefix) ==
  LET n == Len(prefix)
      times == Max({k \in 0 .. Len(text) :
                      /\ k * n <= Len(text)
                      /\ \A j \in 1 .. k * n : text[j] = prefix[((j - 1) % n) + 1]})
  IN SubSeq(text, times * n + 1, Len(text))

TrimEnd(text, word) ==
  SubSeq(text, 1, Max({0} \cup {k \in DOMAIN text : text[k] # word}))

Trim(text) == TrimStart(TrimEnd(text, Blank), <<Blank>>)

HttpUrl(text) == StartsWith(text, http) \/ StartsWith(text, https)

Url(host, port) == http \o host \o <<":", port>>

\* The first URL of candidate_base_urls for a host that is not blank: a port that
\* was typed after the last colon wins over its own, that of the listener.
AdvertisedUrl(typed, own) ==
  LET host == TrimEnd(TrimStart(TrimStart(typed, http), https), "/")
      colon == Max({0} \cup {k \in DOMAIN host : host[k] = ":"})
      port == SubSeq(host, colon + 1, Len(host))
  IN IF colon > 0 /\ port # <<>> /\ ToSet(port) \subseteq Numbers
     THEN http \o SubSeq(host, 1, colon) \o port
     ELSE Url(host, own)

AppendTwice(urls, url) == Append(urls, url)

AppendNew(urls, url) == IF url \in ToSet(urls) THEN urls ELSE Append(urls, url)

\* A loop of net.rs over more: what is not refused is pushed, once.
Gather(refused, known, more) ==
  LET list[k \in 0 .. Len(more)] ==
        IF k = 0 THEN known
        ELSE IF more[k] \in refused THEN list[k - 1] ELSE AppendNew(list[k - 1], more[k])
  IN list[Len(more)]

\* local_ipv4_addrs: the local end of a socket towards each probe, if it has one
\* that others may dial.
LocalAddrs(routes) == Gather({Loopback, "none"}, <<>>, routes)

CandidateUrls(typed, own, routes) ==
  LET host == Trim(typed)
      advertised == IF host = NoHost THEN <<>> ELSE <<AdvertisedUrl(host, own)>>
      local == [k \in DOMAIN LocalAddrs(routes) |-> Url(<<LocalAddrs(routes)[k]>>, own)]
  IN Gather({}, advertised, Append(local, Url(<<Loopback>>, own)))

\* share_url_locked
ShareUrlOf(host, own, routes) == CandidateUrls(host, own, routes)[1]

\* dialable_listen_url_locked
ListenUrl(host, own, routes) == IF host = NoHost THEN NoHost ELSE ShareUrlOf(host, own, routes)

\* What accept_handshake keeps of a listen_url, and connect_to of a URL to dial.
PeerListen(listenUrl) == TrimEnd(Trim(listenUrl), "/")
PeerUrl(url) == TrimEnd(Trim(url), "/")

=============================================================================
