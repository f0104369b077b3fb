---------------------------- MODULE SessionCrypto ----------------------------
(***************************************************************************)
(* src-tauri/src/crypto.rs, symbolically.  A public key stands for the     *)
(* identity that owns it, a Diffie-Hellman secret for the pair of          *)
(* identities that share it, an AES-256-GCM key for the secret and the     *)
(* HKDF label it was expanded with, and a payload for the key it was       *)
(* sealed under together with its plaintext.  A payload opens under the    *)
(* key that sealed it and under no other, which is what the authentication *)
(* tag gives; nonces and encodings are left out because no decision of the *)
(* program depends on them.                                                *)
(***************************************************************************)

Labels == {"p2p-chat-send-v1", "p2p-chat-recv-v1"}

\* Identity::shared_secret_with: both ends compute the same secret.
SharedSecret(local, peer) == {local, peer}

SwappedLabel(isInitiator) == "p2p-chat-send-v1"

\* The HKDF label for what the initiator (resp. the responder) sends.
SendLabel(isInitiator) ==
  IF isInitiator THEN "p2p-chat-send-v1" ELSE "p2p-chat-recv-v1"

\* hkdf_key: one key for each secret and label.
HkdfKey(shared, info) == <<shared, info>>

\* SessionKeys::derive: a directional pair of keys, swapped between the roles.
Derive(shared, isInitiator) ==
  [send |-> HkdfKey(shared, SendLabel(isInitiator)),
   recv |-> HkdfKey(shared, SendLabel(~isInitiator))]

Encrypt(keys, plaintext) == [key |-> keys.send, plain |-> plaintext]

\* Decryption succeeds; the plaintext is then payload.plain.
Opens(keys, payload) == payload.key = keys.recv

Proves(keys, payload, expected) ==
  Opens(keys, payload) /\ payload.plain = expected

HandshakeTranscript(initiatorKey, responderKey) ==
  <<"p2p-chat-handshake-v1", initiatorKey, responderKey>>

PullTranscript == <<"pull-v1">>

=============================================================================
