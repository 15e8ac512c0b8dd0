--------------------------- MODULE OpensslResources ---------------------------
(***************************************************************************)
(* lib/openssl.c: the objects of OpenSSL and the memory the binding        *)
(* obtains, function by function.  A context is named by the pointer to it *)
(* and its members by the name of the context and of the member.           *)
(***************************************************************************)
EXTENDS CSteps

\* if (!...) { X_free(p); return NULL; }
LOCAL OrFreeAndReturn(p) == OrElse(<<Free(p), Clear(p), Fail(ThenReturn)>>)

LOCAL Outs(p) == IF p = "" THEN {} ELSE {p}
-----------------------------------------------------------------------------
(* Key exchange over the NIST curves.                                      *)

ecdh_gerenate_key ==
  Function({"key"}, {"key"},
    <<Get("key", ThenReturn), OrFreeAndReturn("key")>>, <<>>)

ecdh_calc_secret(out) ==
  Function({"calc.secret"}, {out},
    <<Get("calc.secret", ThenExit), Try(ThenExit)>>,
    <<IfOk(<<Copy(out, "calc.secret")>>),
      IfError(<<Free("calc.secret"), Clear(out)>>)>>)

x9_62_decode_point ==
  Function({"point"}, {"point"},
    <<Get("point", ThenReturn), OrFreeAndReturn("point")>>, <<>>)

\* As below, with the vector left in place after the failure.
x9_62_encode_point_dangling ==
  Function({"vec"}, {"vec"},
    <<Try(ThenReturn), Get("vec", ThenReturn),
      OrElse(<<Free("vec"), Fail(ThenReturn)>>)>>, <<>>)

x9_62_encode_point ==
  Function({"vec"}, {"vec"},
    <<Try(ThenReturn), Get("vec", ThenReturn), OrFreeAndReturn("vec")>>, <<>>)

x9_62_free_context(ctx) ==
  Simple(<<Use(ctx), Free(ctx \o ".pubkey"), Free(ctx \o ".privkey"),
           Free(ctx \o ".bn_ctx"), Free(ctx)>>)

x9_62_on_exchange(ctx, release, secret) ==
  Function({"peer_point"}, Outs(secret),
    <<Use(ctx)>> \o
    (IF secret = "" THEN <<GotoExit>>
     ELSE <<Call(x9_62_decode_point, ThenExit), Copy("peer_point", "point"),
            Use(ctx \o ".privkey"), Call(ecdh_calc_secret(secret), ThenExit)>>),
    <<Free("peer_point")>> \o
    (IF release THEN <<Call(x9_62_free_context(ctx), ThenIgnore), Clear(ctx)>>
                ELSE <<>>))

x9_62_create_context(ctx) ==
  Function({}, {ctx},
    <<Known("x9_62_create_context: no memory", Get(ctx, ThenExit)),
      Clear(ctx \o ".pubkey"), Clear(ctx \o ".privkey"),
      Get(ctx \o ".bn_ctx", ThenExit)>>,
    <<IfError(<<Call(x9_62_free_context(ctx), ThenIgnore), Clear(ctx)>>)>>)

x9_62_setup_pubkey(ctx) ==
  Simple(<<Use(ctx \o ".privkey"), Clear(ctx \o ".pubkey"),
           Call(x9_62_encode_point, ThenReturn), Copy(ctx \o ".pubkey", "vec")>>)

\* On failure the context, as far as it exists, and *_ctx = NULL.
LOCAL DropContext(ctx) ==
  IfError(<<IfSet(ctx, <<Call(x9_62_free_context(ctx), ThenIgnore)>>), Clear(ctx)>>)

x9_62_create_key_exchange(ctx) ==
  Function({"group", ctx}, {ctx},
    <<Get("group", ThenExit), Call(x9_62_create_context(ctx), ThenExit),
      Call(ecdh_gerenate_key, ThenExit), Copy(ctx \o ".privkey", "key"),
      Call(x9_62_setup_pubkey(ctx), ThenExit)>>,
    <<Free("group"), DropContext(ctx)>>)

x9_62_init_key(ctx, eckey) ==
  Function({ctx}, {ctx},
    <<Call(x9_62_create_context(ctx), ThenExit), Copy(ctx \o ".privkey", eckey),
      Known("x9_62_init_key: the key is released twice",
            Call(x9_62_setup_pubkey(ctx), ThenExit))>>,
    <<DropContext(ctx)>>)

x9_62_key_exchange(pubkey, secret) ==
  Function({pubkey, secret, "peer_point", "privkey"}, {pubkey, secret},
    <<Call(x9_62_decode_point, ThenExit), Copy("peer_point", "point"),
      Call(ecdh_gerenate_key, ThenExit), Copy("privkey", "key"),
      Call(x9_62_encode_point, ThenExit), Copy(pubkey, "vec"),
      Get(secret, ThenExit), Try(ThenExit)>>,
    <<Free("peer_point"), Free("privkey"),
      IfError(<<Free(pubkey), Clear(pubkey), Free(secret), Clear(secret)>>)>>)

secp_key_exchange(pubkey, secret) ==
  Function({"group", "bn_ctx"}, {pubkey, secret},
    <<Get("group", ThenExit), Get("bn_ctx", ThenExit),
      Call(x9_62_key_exchange(pubkey, secret), ThenExit)>>,
    <<Free("bn_ctx"), Free("group")>>)
-----------------------------------------------------------------------------
(* Key exchange over X25519.                                               *)

evp_keyex_free(ctx) ==
  Simple(<<Use(ctx), Free(ctx \o ".privkey"), Free(ctx \o ".pubkey"), Free(ctx)>>)

evp_keyex_on_exchange(ctx, release, secret) ==
  Function({"evppeer", "evpctx"}, Outs(secret),
    (IF secret = "" THEN <<GotoExit>>
     ELSE <<Clear(secret), Use(ctx), Try(ThenExit),
            Get("evppeer", ThenExit), Use(ctx \o ".privkey"), Try(ThenExit),
            Get("evpctx", ThenExit), Try(ThenExit),
            Get(secret, ThenExit),
            Known("evp_keyex_on_exchange: the secret is left dangling",
                  Try(ThenExit))>>),
    <<Free("evpctx"), Free("evppeer")>> \o
    (IF secret = "" THEN <<>> ELSE <<IfError(<<Free(secret)>>)>>) \o
    (IF release THEN <<Call(evp_keyex_free(ctx), ThenIgnore), Clear(ctx)>>
                ELSE <<>>))

evp_keyex_init(ctx, pkey) ==
  Function({ctx}, {ctx},
    <<Get(ctx, ThenExit), Copy(ctx \o ".privkey", pkey),
      Known("evp_keyex_init: the context is not released",
            Get(ctx \o ".pubkey", ThenIgnore)),
      IfNull(ctx \o ".pubkey", <<Clear(ctx), Fail(ThenReturn)>>)>>,
    <<IfError(<<IfSet(ctx, <<Call(evp_keyex_free(ctx), ThenIgnore)>>)>>)>>)

evp_keyex_create(ctx) ==
  Function({"evpctx", "pkey"}, {ctx},
    <<Get("evpctx", ThenExit), Try(ThenExit), Get("pkey", ThenExit),
      Call(evp_keyex_init(ctx, "pkey"), ThenExit), Clear("pkey")>>,
    <<Free("pkey"), Free("evpctx")>>)

evp_keyex_exchange(outpubkey, secret) ==
  Function({outpubkey, "evp"}, {outpubkey, secret},
    <<Call(evp_keyex_create("evp"), ThenExit),
      Get(outpubkey, ThenExit), Use("evp.pubkey"),
      Known("evp_keyex_exchange: the public key is left dangling",
            Call(evp_keyex_on_exchange("evp", TRUE, secret), ThenExit)),
      AssertNull("evp")>>,
    <<IfSet("evp", <<Call(evp_keyex_on_exchange("evp", TRUE, ""), ThenIgnore)>>),
      IfError(<<Free(outpubkey)>>)>>)

\* A context for a key the application has: pkey stays the application's.
ptls_openssl_create_key_exchange(ctx, pkey, is_ec) ==
  Function({"eckey"}, {ctx},
    IF is_ec
    THEN <<Try(ThenReturn), Copy("eckey", pkey), Ref("eckey"),
           OrElse(<<Free("eckey"), Fail(ThenReturn)>>),
           Call(x9_62_init_key(ctx, "eckey"), ThenExit)>>
    ELSE <<Try(ThenReturn), Call(evp_keyex_init(ctx, pkey), ThenReturn), Ref(pkey)>>,
    IF is_ec THEN <<IfError(<<Free("eckey")>>)>> ELSE <<>>)
-----------------------------------------------------------------------------
(* Ciphers and AEADs.                                                      *)

cipher_dispose(ctx) == Simple(<<Use(ctx), Free(ctx \o ".evp")>>)

cipher_setup_crypto(ctx) ==
  LeavesStale({ctx \o ".evp"},
    Function({}, {ctx \o ".evp"},
      <<Use(ctx), Get(ctx \o ".evp", ThenReturn),
        OrElse(<<Free(ctx \o ".evp"), Fail(ThenReturn)>>)>>, <<>>))

\* cipher_do_init, cipher_encrypt, cipher_decrypt.
cipher_transform(ctx) == Simple(<<Use(ctx), Use(ctx \o ".evp")>>)

aead_dispose_crypto(ctx) == Simple(<<Use(ctx), Free(ctx \o ".evp_ctx")>>)

aead_setup_crypto(ctx) ==
  Function({}, {},
    <<Use(ctx), Clear(ctx \o ".evp_ctx"), Get(ctx \o ".evp_ctx", ThenExit),
      Try(ThenExit)>>,
    <<IfError(<<Call(aead_dispose_crypto(ctx), ThenIgnore)>>)>>)
-----------------------------------------------------------------------------
(* Signatures and certificates.                                            *)

do_sign(key) ==
  Function({"md_ctx"}, {},
    <<Get("md_ctx", ThenExit), Use(key), Try(ThenExit)>>, <<Free("md_ctx")>>)

\* No scheme in common, or the signature.
sign_certificate(self) ==
  Simple(<<Try(ThenReturn), Call(do_sign(self \o ".key"), ThenReturn)>>)

\* verify_ctx is consumed; without data it is only released.
verify_sign(key, data) ==
  Function({"md_ctx"}, {},
    IF data THEN <<Get("md_ctx", ThenExit), Use(key), Try(ThenExit)>>
            ELSE <<GotoExit>>,
    <<Free("md_ctx"), Free(key)>>)

\* As below, without releasing the curve's key when it has been looked at.
init_sign_certificate_keeping_eckey(self, key) ==
  Function({self \o ".key", "eckey"}, {self \o ".key"},
    <<Use(key),
      Choose(<<>>,
             <<Copy("eckey", key), Ref("eckey"),
               OrElse(<<Free("eckey"), Fail(ThenReturn)>>)>>),
      Try(ThenReturn), Ref(key), Copy(self \o ".key", key)>>, <<>>)

ptls_openssl_init_sign_certificate(self, key) ==
  Function({self \o ".key", "eckey"}, {self \o ".key"},
    <<Use(key),
      Choose(<<>>,
             <<Copy("eckey", key), Ref("eckey"),
               OrElse(<<Free("eckey"), Fail(ThenReturn)>>), Free("eckey")>>),
      Try(ThenReturn), Ref(key), Copy(self \o ".key", key)>>, <<>>)

ptls_openssl_dispose_sign_certificate(self) == Simple(<<Free(self \o ".key")>>)

serialize_cert(dst) == Function({}, {dst}, <<Get(dst, ThenReturn)>>, <<>>)

\* A certificate and a chain of at most one.
ptls_openssl_load_certificates ==
  Function({"list"}, {"certificates"},
    <<AssertNull("certificates"), Get("list", ThenExit),
      Clear("list[0]"), Clear("list[1]"),
      Call(serialize_cert("list[0]"), ThenExit),
      Either(<<Call(serialize_cert("list[1]"), ThenExit)>>),
      Copy("certificates", "list")>>,
    <<IfError(<<IfSet("list", <<Free("list[0]"), Free("list[1]"), Free("list")>>)>>)>>)

verify_cert_chain(store) ==
  Function({"verify_ctx"}, {},
    <<AssertSet("tls.server_name"), Get("verify_ctx", ThenExit), Use(store),
      Try(ThenExit)>>,
    <<Free("verify_ctx")>>)

\* The chain is the certificate and at most one more, owned by the stack.
verify_cert(self, verify_ctx, verifier) ==
  Function({"x509", "chain", "chain[0]"}, {},
    <<Known("verify_cert: no stack for the chain", Get("chain", ThenIgnore)),
      Get("x509", ThenExit), Either(<<Get("chain[0]", ThenExit)>>),
      Call(verify_cert_chain(self \o ".cert_store"), ThenExit),
      Get(verify_ctx, ThenExit), Static(verifier)>>,
    <<IfSet("chain", <<Free("chain[0]"), Free("chain")>>), Free("x509")>>)

ptls_openssl_create_default_certificate_store ==
  Function({"store"}, {"store"},
    <<Get("store", ThenExit), Try(ThenExit)>>,
    <<IfError(<<Free("store"), Clear("store")>>)>>)

ptls_openssl_init_verify_certificate(self, store) ==
  Function({self \o ".cert_store"}, {self \o ".cert_store"},
    IF store # "" THEN <<Ref(store), Copy(self \o ".cert_store", store)>>
    ELSE <<Call(ptls_openssl_create_default_certificate_store, ThenReturn),
           Copy(self \o ".cert_store", "store")>>, <<>>)

ptls_openssl_dispose_verify_certificate(self) ==
  Simple(<<Free(self \o ".cert_store")>>)
=============================================================================
