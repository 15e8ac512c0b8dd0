--------------------------- MODULE PicotlsResources ---------------------------
(***************************************************************************)
(* lib/picotls.c: the memory and the contexts a connection holds, function *)
(* by function, from ptls_client_new and ptls_server_new to ptls_free.     *)
(* The members of ptls_t are named "tls.<member>"; a pointer that is NULL  *)
(* for a buffer is the buffer's array on the stack (is_allocated == 0).    *)
(*                                                                         *)
(* c is the configuration of a connection:                                 *)
(*   kx            the key exchange: "x9_62", "evp", "uecc" or "cifra"     *)
(*   aead          the AEAD: "openssl", "cifra" or "bcrypt"                *)
(*   hashes        how many hash algorithms the cipher suites of the       *)
(*                 client have between them (1 or 2)                       *)
(*   esni          ESNI is used;   esni_cb   and ctx->update_esni_key set  *)
(*   psk           a ticket is offered and accepted, with early data       *)
(*   dhe           the key exchange is run (not in mode psk_ke)            *)
(*   exporter      ctx->use_exporter                                       *)
(*   own_records   ctx->update_traffic_key is set (a QUIC stack)           *)
(*   client_auth   ctx->require_client_authentication                      *)
(*   tickets       the server sends and the client keeps tickets           *)
(*                                                                         *)
(* The key derivation of TLS 1.3 obtains and releases what it needs within *)
(* itself: hkdf_expand_label and ptls_hkdf_extract, below, are programs of *)
(* their own, and a Try wherever they are called.                          *)
(***************************************************************************)
EXTENDS OpensslResources, MinicryptoResources

LOCAL When(condition, steps) == IF condition THEN steps ELSE <<>>
-----------------------------------------------------------------------------
(* The engines a context can be set up with.                               *)

KeyexCreate(c, ctx) ==
  CASE c.kx = "x9_62" -> x9_62_create_key_exchange(ctx)
    [] c.kx = "evp"   -> evp_keyex_create(ctx)
    [] c.kx = "uecc"  -> secp256r1_create_key_exchange(ctx)
    [] c.kx = "cifra" -> x25519_create_key_exchange(ctx)

\* Without a secret the context is only released.
KeyexOnExchange(c, ctx, release, secret) ==
  CASE c.kx = "x9_62" -> x9_62_on_exchange(ctx, release, secret)
    [] c.kx = "evp"   -> evp_keyex_on_exchange(ctx, release, secret)
    [] c.kx = "uecc"  -> secp256r1_on_exchange(ctx, release, secret)
    [] c.kx = "cifra" -> x25519_on_exchange(ctx, release, secret)

KeyexExchange(c, pubkey, secret) ==
  CASE c.kx = "x9_62" -> secp_key_exchange(pubkey, secret)
    [] c.kx = "evp"   -> evp_keyex_exchange(pubkey, secret)
    [] c.kx = "uecc"  -> secp256r1_key_exchange(pubkey, secret)
    [] c.kx = "cifra" -> x25519_key_exchange(pubkey, secret)

AeadSetup(c, ctx) ==
  CASE c.aead = "openssl" -> aead_setup_crypto(ctx)
    [] c.aead = "cifra"   -> aead_aesgcm_setup_crypto(ctx)
    [] c.aead = "bcrypt"  -> ptls_bcrypt_aead_setup_crypto(ctx)

AeadDispose(c, ctx) ==
  CASE c.aead = "openssl" -> aead_dispose_crypto(ctx)
    [] c.aead = "cifra"   -> aesgcm_dispose_crypto(ctx)
    [] c.aead = "bcrypt"  -> ptls_bcrypt_dispose(ctx)
-----------------------------------------------------------------------------
(* Buffers, hashes, key derivation, ciphers.                               *)

ptls_buffer_reserve(buf) ==
  Function({"newp"}, {},
    <<Choose(<<>>, <<Get("newp", ThenReturn), Free(buf), Copy(buf, "newp")>>)>>, <<>>)

ptls_buffer_dispose(buf) == Simple(<<Free(buf), Clear(buf)>>)

ptls_calc_hash ==
  Function({"hash"}, {},
    <<Call(hash_create("hash"), ThenReturn), Call(hash_final_free("hash"), ThenIgnore)>>, <<>>)

ptls_hmac_create(hmac) ==
  Function({hmac}, {hmac},
    <<Get(hmac, ThenReturn), Call(hash_create(hmac \o ".hash"), ThenExit)>>,
    <<IfError(<<Free(hmac), Clear(hmac)>>)>>)

hmac_final_free(hmac) ==
  Simple(<<Use(hmac), Call(hash_final_free(hmac \o ".hash"), ThenIgnore), Free(hmac)>>)

ptls_hkdf_extract ==
  Function({"hmac"}, {},
    <<Call(ptls_hmac_create("hmac"), ThenReturn), Call(hmac_final_free("hmac"), ThenIgnore)>>,
    <<>>)

\* Nothing, one digest or more are asked for.
ptls_hkdf_expand ==
  Function({"hmac"}, {},
    <<Either(<<Call(ptls_hmac_create("hmac"), ThenReturn), Use("hmac.hash"),
               Either(<<Use("hmac"), Use("hmac.hash")>>)>>),
      IfSet("hmac", <<Call(hmac_final_free("hmac"), ThenIgnore)>>)>>, <<>>)

hkdf_expand_label ==
  Function({"hkdf_label"}, {},
    <<Call(ptls_buffer_reserve("hkdf_label"), ThenExit), Call(ptls_hkdf_expand, ThenExit)>>,
    <<Call(ptls_buffer_dispose("hkdf_label"), ThenIgnore)>>)

calc_cookie_signature ==
  Function({"hctx"}, {},
    <<Call(ptls_hmac_create("hctx"), ThenReturn), Call(hmac_final_free("hctx"), ThenIgnore)>>,
    <<>>)

ptls_cipher_new(ctx) ==
  Function({ctx}, {ctx},
    <<Get(ctx, ThenReturn), Call(cipher_setup_crypto(ctx), ThenExit)>>,
    <<IfError(<<Free(ctx), Clear(ctx)>>)>>)

ptls_cipher_free(ctx) ==
  Simple(<<Call(cipher_dispose(ctx), ThenIgnore), Free(ctx)>>)

ptls_aead_new_direct(c, ctx) ==
  Function({ctx}, {ctx},
    <<Get(ctx, ThenReturn), Call(AeadSetup(c, ctx), ThenExit)>>,
    <<IfError(<<Free(ctx), Clear(ctx)>>)>>)

new_aead(c, ctx) ==
  Function({"key_iv", ctx}, {ctx},
    <<Get("key_iv", ThenReturn), Try(ThenExit), Call(ptls_aead_new_direct(c, ctx), ThenExit)>>,
    <<Free("key_iv")>>)

ptls_aead_free(c, ctx) ==
  Simple(<<Call(AeadDispose(c, ctx), ThenIgnore), Free(ctx)>>)
-----------------------------------------------------------------------------
(* The key schedule: a hash context for every hash that may be selected.   *)

key_schedule_free ==
  Simple(<<Use("tls.key_schedule"),
           IfSet("tls.hashes[0]", <<Call(hash_final_free("tls.hashes[0]"), ThenIgnore)>>),
           IfSet("tls.hashes[1]", <<Call(hash_final_free("tls.hashes[1]"), ThenIgnore)>>),
           Free("tls.key_schedule")>>)

key_schedule_new(hashes) ==
  Function({"tls.key_schedule"}, {"tls.key_schedule"},
    <<Get("tls.key_schedule", ThenReturn), Clear("tls.hashes[0]"), Clear("tls.hashes[1]"),
      Call(hash_create("tls.hashes[0]"), ThenExit)>> \o
    When(hashes = 2, <<Call(hash_create("tls.hashes[1]"), ThenExit)>>),
    <<IfError(<<Call(key_schedule_free, ThenIgnore), Clear("tls.key_schedule")>>)>>)

\* The hash of the selected suite is one the schedule has.
key_schedule_select_one ==
  Simple(<<Use("tls.key_schedule"),
           IfSet("tls.hashes[1]",
                 <<Choose(<<Call(hash_final_free("tls.hashes[1]"), ThenIgnore)>>,
                          <<Call(hash_final_free("tls.hashes[0]"), ThenIgnore),
                            Copy("tls.hashes[0]", "tls.hashes[1]")>>),
                   Clear("tls.hashes[1]")>>),
           Try(ThenReturn)>>)

derive_secret == Simple(<<Use("tls.key_schedule"), Use("tls.hashes[0]"), Try(ThenReturn)>>)

derive_exporter_secret(c, slot) ==
  Simple(When(c.exporter,
    <<AssertNull(slot), Use("tls.key_schedule"), Get(slot, ThenReturn),
      Call(derive_secret, ThenReturn)>>))

free_exporter_master_secret(slot) ==
  Simple(<<IfNull(slot, <<ReturnOk>>), AssertSet("tls.key_schedule"), Use(slot), Free(slot)>>)

setup_traffic_protection(c, aead, derives, skip_notify) ==
  Simple(
    When(derives, <<Call(derive_secret, ThenReturn)>>) \o
    (IF c.own_records
     THEN When(~ skip_notify, <<Try(ThenReturn)>>)
     ELSE <<IfSet(aead, <<Call(ptls_aead_free(c, aead), ThenIgnore)>>),
            Call(new_aead(c, aead), ThenReturn), Use("tls.key_schedule")>>))

commission_handshake_secret(c, aead) ==
  Simple(<<AssertSet("tls.pending_handshake_secret"), Use("tls.pending_handshake_secret"),
           Free("tls.pending_handshake_secret"), Clear("tls.pending_handshake_secret"),
           Call(setup_traffic_protection(c, aead, FALSE, TRUE), ThenReturn)>>)

\* KeyUpdate, sent or received.
update_traffic_key(c, aead) ==
  Simple(<<Use("tls.key_schedule"), Use("tls.hashes[0]"), Try(ThenReturn),
           Call(setup_traffic_protection(c, aead, FALSE, TRUE), ThenReturn)>>)
=============================================================================
