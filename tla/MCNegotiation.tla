--------------------------- MODULE MCNegotiation ---------------------------
(* Contexts that differ in everything the negotiation looks at: three       *)
(* suites with two hash functions, two groups.                              *)
EXTENDS Negotiation

MCHash == [aes128gcmsha256 |-> "sha256", aes256gcmsha384 |-> "sha384",
           chacha20poly1305sha256 |-> "sha256"]

ClientSuites == {<<"aes128gcmsha256", "aes256gcmsha384">>,
                 <<"aes256gcmsha384", "chacha20poly1305sha256", "aes128gcmsha256">>}
ServerSuites == {<<"aes128gcmsha256">>, <<"aes256gcmsha384">>,
                 <<"chacha20poly1305sha256", "aes128gcmsha256", "aes256gcmsha384">>}
ClientGroups == {<<"x25519", "secp256r1">>, <<"secp256r1">>}
ServerGroups == {<<"x25519">>, <<"secp256r1", "x25519">>}

\* The longer lists go with the settings that a context has more rarely.
MCClients == {[suites |-> s, groups |-> g, require_dhe |-> Len(s) = 3,
               negotiate_before_key_exchange |-> Len(s) = 3 /\ Len(g) = 2] :
                s \in ClientSuites, g \in ClientGroups}
MCServers == {[suites |-> s, groups |-> g, enforce_retry |-> r,
               require_dhe |-> Len(g) = 2, early |-> s # <<"aes256gcmsha384">>] :
                s \in ServerSuites, g \in ServerGroups, r \in BOOLEAN}
=============================================================================
