-------------------------- MODULE MinicryptoResources --------------------------
(***************************************************************************)
(* The bindings to cifra and micro-ecc (lib/uecc.c, lib/cifra/), to brotli *)
(* (lib/certificate_compression.c) and to Windows bcrypt                   *)
(* (lib/ptlsbcrypt.c): what each function obtains and releases.            *)
(***************************************************************************)
EXTENDS CSteps

LOCAL Outs(p) == IF p = "" THEN {} ELSE {p}
-----------------------------------------------------------------------------
(* secp256r1 over micro-ecc.                                               *)

secp256r1_on_exchange(ctx, release, secret) ==
  Function({"secbytes"}, Outs(secret),
    (IF secret = "" THEN <<GotoExit>>
     ELSE <<Try(ThenExit), Get("secbytes", ThenExit), Use(ctx), Try(ThenExit),
            Copy(secret, "secbytes")>>),
    <<IfError(<<Free("secbytes")>>)>> \o
    (IF release THEN <<Use(ctx), Free(ctx), Clear(ctx)>> ELSE <<>>))

secp256r1_create_key_exchange(ctx) ==
  Function({ctx}, {ctx}, <<Get(ctx, ThenReturn)>>, <<>>)

secp256r1_key_exchange(pubkey, secret) ==
  Function({"pub", "secbytes"}, {pubkey, secret},
    <<Try(ThenExit), Get("pub", ThenExit), Get("secbytes", ThenExit), Try(ThenExit),
      Copy(pubkey, "pub"), Copy(secret, "secbytes")>>,
    <<IfError(<<Free("secbytes"), Free("pub")>>)>>)
-----------------------------------------------------------------------------
(* X25519 over cifra.                                                      *)

x25519_derive_secret(secret) == Function({}, {secret}, <<Get(secret, ThenReturn)>>, <<>>)

x25519_on_exchange(ctx, release, secret) ==
  Function({}, Outs(secret),
    (IF secret = "" THEN <<GotoExit>>
     ELSE <<Try(ThenExit), Use(ctx), Call(x25519_derive_secret(secret), ThenExit)>>),
    IF release THEN <<Use(ctx), Free(ctx), Clear(ctx)>> ELSE <<>>)

x25519_create_key_exchange(ctx) ==
  Function({ctx}, {ctx}, <<Get(ctx, ThenReturn)>>, <<>>)

x25519_key_exchange(pubkey, secret) ==
  Function({"pub"}, {pubkey, secret},
    <<Try(ThenExit), Get("pub", ThenExit),
      Known("x25519_key_exchange: the public key is not released",
            Call(x25519_derive_secret(secret), ThenExit)),
      Copy(pubkey, "pub")>>,
    <<IfSet("pub", <<IfError(<<Use("pub")>>)>>)>>)
-----------------------------------------------------------------------------
(* Ciphers of cifra live inside their context.                             *)

aead_aesgcm_setup_crypto(ctx) == Simple(<<Use(ctx)>>)

aesgcm_dispose_crypto(ctx) == Simple(<<Use(ctx)>>)

\* ptls_define_hash: create, clone, and final with mode FREE.
hash_create(ctx) == Function({ctx}, {ctx}, <<Get(ctx, ThenReturn)>>, <<>>)

hash_clone(dst, src) == Function({dst}, {dst}, <<Use(src), Get(dst, ThenReturn)>>, <<>>)

hash_final_free(ctx) == Simple(<<Use(ctx), Free(ctx)>>)
-----------------------------------------------------------------------------
(* Certificate compression.                                                *)

\* uncompressed starts as an empty buffer that is not allocated.
build_compressed(entry) ==
  Function({"uncompressed"}, {entry},
    <<Get("uncompressed", ThenExit), Try(ThenExit), Get(entry, ThenExit), Try(ThenExit)>>,
    <<IfError(<<Free(entry), Clear(entry)>>), Free("uncompressed")>>)

ptls_dispose_compressed_certificate ==
  Simple(<<Free("self.with_ocsp_status"), Free("self.without_ocsp_status")>>)

ptls_init_compressed_certificate ==
  LeavesStale({"self.without_ocsp_status"},
    Function({}, {"self.without_ocsp_status"},
      <<Clear("self.with_ocsp_status"), Clear("self.without_ocsp_status"),
        Call(build_compressed("self.without_ocsp_status"), ThenExit),
        Either(<<Call(build_compressed("self.with_ocsp_status"), ThenExit)>>)>>,
      <<IfError(<<Call(ptls_dispose_compressed_certificate, ThenIgnore)>>)>>))
-----------------------------------------------------------------------------
(* bcrypt.                                                                 *)

\* ptls_bcrypt_cipher_dispose and ptls_bcrypt_aead_dispose_crypto.
ptls_bcrypt_dispose(ctx) ==
  Simple(<<Use(ctx), Free(ctx \o ".hKey"), Free(ctx \o ".key_object"),
           Clear(ctx \o ".hKey"), Clear(ctx \o ".key_object")>>)

\* The provider is closed whatever happens.
ptls_bcrypt_cipher_setup_crypto(ctx) ==
  Function({"hAlgorithm"}, {},
    <<Use(ctx), Clear(ctx \o ".hKey"), Clear(ctx \o ".key_object"),
      Get("hAlgorithm", ThenExit), Try(ThenExit), Get(ctx \o ".key_object", ThenExit),
      Try(ThenExit), Get(ctx \o ".hKey", ThenExit)>>,
    <<Free("hAlgorithm"), IfError(<<Call(ptls_bcrypt_dispose(ctx), ThenIgnore)>>)>>)

ptls_bcrypt_aead_setup_crypto(ctx) ==
  Function({"hAlgorithm"}, {},
    <<Use(ctx), Clear(ctx \o ".hKey"), Clear(ctx \o ".key_object"),
      Get("hAlgorithm", ThenExit), Try(ThenExit), Get(ctx \o ".key_object", ThenExit),
      Try(ThenExit), Get(ctx \o ".hKey", ThenExit)>>,
    <<Free("hAlgorithm"), IfError(<<Call(ptls_bcrypt_dispose(ctx), ThenIgnore)>>)>>)
=============================================================================
