------------------------------ MODULE MCOwnership ------------------------------
(***************************************************************************)
(* The programs module Ownership is checked on: whole connections under    *)
(* different configurations, and the functions an application calls by     *)
(* themselves.                                                             *)
(***************************************************************************)
EXTENDS Ownership, ConnectionResources

\* An ordinary connection: X9.62 key exchange, OpenSSL's AEAD.
Ordinary ==
  [kx |-> "x9_62", aead |-> "openssl", hashes |-> 1, esni |-> FALSE, esni_cb |-> FALSE,
   psk |-> FALSE, dhe |-> TRUE, exporter |-> FALSE, own_records |-> FALSE,
   client_auth |-> FALSE, tickets |-> FALSE, retry |-> "none", late |-> FALSE]

Configurations ==
  { [Ordinary EXCEPT !.client_auth = TRUE, !.tickets = TRUE],
    [Ordinary EXCEPT !.kx = "evp", !.retry = "stateful", !.late = TRUE, !.exporter = TRUE],
    [Ordinary EXCEPT !.kx = "uecc", !.aead = "cifra", !.psk = TRUE, !.exporter = TRUE,
                     !.tickets = TRUE, !.hashes = 2],
    [Ordinary EXCEPT !.kx = "cifra", !.aead = "bcrypt", !.psk = TRUE, !.dhe = FALSE,
                     !.own_records = TRUE, !.exporter = TRUE],
    [Ordinary EXCEPT !.kx = "evp", !.aead = "bcrypt", !.psk = TRUE, !.retry = "stateful",
                     !.hashes = 2],
    [Ordinary EXCEPT !.kx = "uecc", !.retry = "cookie"],
    [Ordinary EXCEPT !.kx = "cifra", !.retry = "stateless"],
    [Ordinary EXCEPT !.kx = "x9_62", !.esni = TRUE],
    [Ordinary EXCEPT !.kx = "cifra", !.aead = "cifra", !.esni = TRUE, !.esni_cb = TRUE] }

\* An application's own key, used for one exchange and released.
OwnKey(is_ec) ==
  Function({}, {},
    <<Get("app.key", ThenReturn),
      Call(ptls_openssl_create_key_exchange("kx", "app.key", is_ec), ThenExit),
      Call(IF is_ec THEN x9_62_on_exchange("kx", FALSE, "secret")
                    ELSE evp_keyex_on_exchange("kx", FALSE, "secret"), ThenExit)>>,
    <<Free("secret"),
      IfSet("kx", <<Call(IF is_ec THEN x9_62_on_exchange("kx", TRUE, "")
                                  ELSE evp_keyex_on_exchange("kx", TRUE, ""), ThenIgnore)>>),
      Free("app.key")>>)

\* Certificates loaded into a context, and their compressed form.
Certificates ==
  Function({"certificates"}, {},
    <<Call(ptls_openssl_load_certificates, ThenReturn),
      Call(ptls_init_compressed_certificate, ThenExit),
      Call(ptls_dispose_compressed_certificate, ThenIgnore)>>,
    <<Free("list[0]"), Free("list[1]"), Free("certificates")>>)

Cipher ==
  Function({}, {},
    <<Call(ptls_cipher_new("cipher"), ThenReturn), Call(cipher_transform("cipher"), ThenIgnore),
      Call(ptls_cipher_free("cipher"), ThenIgnore)>>, <<>>)

BcryptCipher ==
  Function({"cipher"}, {},
    <<Get("cipher", ThenReturn), Call(ptls_bcrypt_cipher_setup_crypto("cipher"), ThenExit),
      Call(ptls_bcrypt_dispose("cipher"), ThenIgnore)>>, <<Free("cipher")>>)

MCPrograms ==
  {ClientLife(c) : c \in Configurations} \cup {ServerLife(c) : c \in Configurations}
  \cup {OwnKey(TRUE), OwnKey(FALSE), Certificates, Cipher, BcryptCipher,
        hkdf_expand_label, ptls_hkdf_extract}

\* Failures that leave an object released twice, used after it is gone, or
\* never released.
MCKnownDefects ==
  { "x9_62_create_context: no memory",
    "x9_62_init_key: the key is released twice",
    "evp_keyex_init: the context is not released",
    "evp_keyex_on_exchange: the secret is left dangling",
    "evp_keyex_exchange: the public key is left dangling",
    "x25519_key_exchange: the public key is not released",
    "verify_cert: no stack for the chain",
    "ptls_client_new, ptls_server_new: no memory",
    "send_client_hello: no key schedule",
    "send_client_hello: no ESNI secret for the callback",
    "server_handle_hello: no key schedule",
    "server_handle_hello: the decrypted name is not released",
    "send_session_ticket: no memory for the copy of the hash",
    "send_session_ticket: session_id is released before it is set",
    "ptls_esni_init_context: the keys are the caller's if there is no memory" }
=============================================================================
