------------------------- MODULE ConnectionResources -------------------------
(***************************************************************************)
(* lib/picotls.c, continued: what the handlers of the handshake messages   *)
(* obtain and release, encrypted SNI, and the life of a connection.  See   *)
(* module PicotlsResources for the configuration c; in addition            *)
(*   retry   "none", or how the server answers the first ClientHello:      *)
(*           "stateful", "stateless" (and forgets the connection), or      *)
(*           "cookie" (this is the ClientHello that brings the cookie)     *)
(*   late    the client sends no key share before it knows the group       *)
(***************************************************************************)
EXTENDS PicotlsResources

LOCAL When(condition, steps) == IF condition THEN steps ELSE <<>>

\* A handshake without a ticket, after which certificates are exchanged.
LOCAL Full(c) == ~ c.psk \/ c.retry # "none"
-----------------------------------------------------------------------------
(* The connection.                                                         *)

\* ctx->update_open_count, as a reference count of the context.
new_instance ==
  Function({"tls"}, {"tls"},
    <<Get("tls", ThenReturn), Ref("ctx"), Copy("tls.ctx", "ctx")>>, <<>>)

\* ptls_client_new and ptls_server_new.
ptls_new ==
  Function({}, {"tls"},
    <<Known("ptls_client_new, ptls_server_new: no memory", Call(new_instance, ThenIgnore)),
      Use("tls")>>, <<>>)

ptls_set_context(ctx) ==
  Simple(<<Ref(ctx), Free("tls.ctx"), Copy("tls.ctx", ctx)>>)

\* ptls_set_server_name and ptls_set_negotiated_protocol.
ptls_set_string(member) ==
  Function({"duped"}, {},
    <<Choose(<<Get("duped", ThenReturn)>>, <<>>), Free(member), Copy(member, "duped")>>, <<>>)

free_esni_secret(is_server) ==
  Simple(<<AssertSet("tls.esni"), Free("tls.esni.secret")>> \o
         When(~ is_server, <<Free("tls.esni.pubkey")>>) \o
         <<Free("tls.esni"), Clear("tls.esni")>>)

ptls_free(c, is_server) ==
  Simple(
    <<Call(ptls_buffer_dispose("tls.recvbuf.rec"), ThenIgnore),
      Call(ptls_buffer_dispose("tls.recvbuf.mess"), ThenIgnore),
      Call(free_exporter_master_secret("tls.exporter.early"), ThenIgnore),
      Call(free_exporter_master_secret("tls.exporter.one_rtt"), ThenIgnore),
      IfSet("tls.esni", <<Call(free_esni_secret(is_server), ThenIgnore)>>),
      IfSet("tls.key_schedule", <<Call(key_schedule_free, ThenIgnore)>>),
      IfSet("tls.dec", <<Call(ptls_aead_free(c, "tls.dec"), ThenIgnore)>>),
      IfSet("tls.enc", <<Call(ptls_aead_free(c, "tls.enc"), ThenIgnore)>>),
      Free("tls.server_name"), Free("tls.negotiated_protocol")>> \o
    When(~ is_server,
      <<IfSet("tls.key_share_ctx",
              <<Call(KeyexOnExchange(c, "tls.key_share_ctx", TRUE, ""), ThenIgnore)>>),
        Free("tls.cr_context")>>) \o
    <<IfSet("tls.verify_cb", <<Call(verify_sign("tls.verify_ctx", FALSE), ThenIgnore)>>),
      Free("tls.pending_handshake_secret"), Free("tls.ctx"), Free("tls")>>)
-----------------------------------------------------------------------------
(* Encrypted SNI.                                                          *)

parse_esni_keys ==
  Simple(<<Try(ThenReturn), Call(ptls_calc_hash, ThenReturn), Try(ThenReturn),
           Get("published_sni", ThenReturn), Try(ThenReturn)>>)

create_esni_aead(c, aead) ==
  Simple(<<Try(ThenReturn), Call(new_aead(c, aead), ThenReturn)>>)

build_esni_contents_hash ==
  Function({"buf"}, {},
    <<Call(ptls_buffer_reserve("buf"), ThenExit), Call(ptls_calc_hash, ThenExit)>>,
    <<Call(ptls_buffer_dispose("buf"), ThenIgnore)>>)

\* Keys that are not understood are not an error: ESNI is not used then.
client_setup_esni(c) ==
  LET parse == CallOr(parse_esni_keys, <<Free("tls.esni"), Clear("tls.esni"), ReturnOk>>) IN
  Function({}, {},
    <<Get("tls.esni", ThenReturn), Clear("tls.esni.secret"), Clear("tls.esni.pubkey"),
      IF c.esni_cb THEN Known("send_client_hello: no ESNI secret for the callback", parse)
                   ELSE parse,
      Call(ptls_calc_hash, ThenExit),
      Call(KeyexExchange(c, "tls.esni.pubkey", "tls.esni.secret"), ThenExit),
      Call(build_esni_contents_hash, ThenExit)>>,
    <<IfError(<<Call(free_esni_secret(FALSE), ThenIgnore)>>)>>)

emit_esni_extension(c) ==
  Function({"aead"}, {},
    <<Use("tls.esni"), Call(create_esni_aead(c, "aead"), ThenExit), Try(ThenExit)>>,
    <<IfSet("aead", <<Call(ptls_aead_free(c, "aead"), ThenIgnore)>>)>>)

client_hello_decrypt_esni(c) ==
  Function({"decrypted", "aead"}, {},
    <<AssertNull("tls.esni"), Get("tls.esni", ThenReturn), Clear("tls.esni.secret"),
      Try(ThenExit), Call(build_esni_contents_hash, ThenExit),
      Call(KeyexOnExchange(c, "esni.key_exchanges[0]", FALSE, "tls.esni.secret"), ThenExit),
      Try(ThenExit), Get("decrypted", ThenExit),
      Call(create_esni_aead(c, "aead"), ThenExit), Try(ThenExit),
      Call(ptls_aead_free(c, "aead"), ThenIgnore), Clear("aead"), Try(ThenExit),
      Copy("server_name", "decrypted"), Clear("decrypted")>>,
    <<Free("decrypted"), IfSet("aead", <<Call(ptls_aead_free(c, "aead"), ThenIgnore)>>),
      IfError(<<IfSet("tls.esni", <<Call(free_esni_secret(TRUE), ThenIgnore)>>)>>)>>)

\* The key exchange contexts of the application are the ESNI context's from here
\* on; list is the array of pointers to them.
ptls_esni_dispose_context(c) ==
  Simple(<<IfSet("esni.key_exchanges",
                 <<Call(KeyexOnExchange(c, "esni.key_exchanges[0]", TRUE, ""), ThenIgnore),
                   Free("esni.key_exchanges")>>),
           Free("esni.cipher_suites")>>)

\* realloc() of the list of cipher suites, once for the suite, once for the end.
LOCAL realloc(p) == <<Get("newp", ThenExit), Free(p), Copy(p, "newp")>>

ptls_esni_init_context(c) ==
  LeavesStale({"esni.key_exchanges", "esni.cipher_suites"},
    Function({"newp"}, {"esni.key_exchanges", "esni.cipher_suites"},
    <<Clear("esni.key_exchanges"), Clear("esni.cipher_suites"),
      Known("ptls_esni_init_context: the keys are the caller's if there is no memory",
            Get("esni.key_exchanges", ThenExit)),
      Try(ThenExit), Choose(realloc("esni.cipher_suites"), <<>>)>> \o
    realloc("esni.cipher_suites") \o
    <<Try(ThenExit), Use("esni.cipher_suites"), Call(ptls_calc_hash, ThenExit)>>,
    <<IfError(<<Call(ptls_esni_dispose_context(c), ThenIgnore)>>)>>))
-----------------------------------------------------------------------------
(* The client.                                                             *)

send_client_hello(c, is_second_flight) ==
  Function({"published_sni"}, {},
    When(c.esni /\ ~ is_second_flight,
      <<Call(client_setup_esni(c), ThenExit)>> \o
      When(c.esni_cb, <<Use("tls.esni"), Try(ThenExit)>>)) \o
    When(c.psk /\ ~ is_second_flight, <<Static("tls.using_early_data")>>) \o
    When(~ c.late \/ is_second_flight, <<Static("tls.key_share")>>) \o
    When(~ is_second_flight,
      <<Known("send_client_hello: no key schedule",
              Call(key_schedule_new(c.hashes), ThenIgnore)),
        Use("tls.key_schedule"), Try(ThenExit)>>) \o
    <<IfSet("tls.key_share", <<Call(KeyexCreate(c, "tls.key_share_ctx"), ThenExit),
                               Use("tls.key_share_ctx"), Try(ThenExit)>>),
      IfSet("tls.esni", <<Call(emit_esni_extension(c), ThenExit)>>),
      Try(ThenExit), Use("tls.key_schedule"), Use("tls.hashes[0]"),
      IfSet("tls.using_early_data",
            <<Call(setup_traffic_protection(c, "tls.enc", TRUE, FALSE), ThenExit),
              Try(ThenExit)>>)>> \o
    When(c.psk /\ ~ is_second_flight,
      <<Call(derive_exporter_secret(c, "tls.exporter.early"), ThenExit)>>),
    <<Free("published_sni")>>)

\* As below, with the key share of the first flight forgotten.
handle_hello_retry_request_keeping_share(c) ==
  Simple(
    <<Clear("tls.key_share_ctx"), Clear("tls.using_early_data"),
      Try(ThenReturn), Use("tls.hashes[0]"), Call(send_client_hello(c, TRUE), ThenReturn)>>)

handle_hello_retry_request(c) ==
  Simple(
    <<IfSet("tls.key_share_ctx",
            <<Call(KeyexOnExchange(c, "tls.key_share_ctx", TRUE, ""), ThenIgnore),
              Clear("tls.key_share_ctx")>>),
      IfSet("tls.using_early_data",
            When(~ c.own_records,
              <<AssertSet("tls.enc"), Call(ptls_aead_free(c, "tls.enc"), ThenIgnore),
                Clear("tls.enc")>>) \o
            <<Clear("tls.using_early_data")>>),
      Try(ThenReturn), Use("tls.hashes[0]"), Call(send_client_hello(c, TRUE), ThenReturn)>>)

client_handle_hello(c, is_retry_request) ==
  Function({"ecdh_secret"}, {},
    <<Try(ThenExit), Call(key_schedule_select_one, ThenExit)>> \o
    (IF is_retry_request
     THEN <<Call(handle_hello_retry_request(c), ThenReturn)>>
     ELSE When(c.dhe, <<Use("tls.key_share_ctx"),
                        Call(KeyexOnExchange(c, "tls.key_share_ctx", TRUE, "ecdh_secret"),
                             ThenExit)>>) \o
          <<Use("tls.hashes[0]"), Try(ThenExit),
            Call(setup_traffic_protection(c, "tls.dec", TRUE, FALSE), ThenExit),
            IfSet("tls.using_early_data",
                  <<Get("tls.pending_handshake_secret", ThenExit),
                    Call(derive_secret, ThenExit)>> \o
                  When(c.own_records, <<Try(ThenExit)>>)),
            IfNull("tls.using_early_data",
                  <<Call(setup_traffic_protection(c, "tls.enc", TRUE, FALSE), ThenExit)>>)>>),
    <<Free("ecdh_secret")>>)

client_handle_encrypted_extensions ==
  Simple(<<Try(ThenReturn),
           IfSet("tls.esni", <<Try(ThenReturn), Call(free_esni_secret(FALSE), ThenIgnore)>>),
           Either(<<Clear("tls.using_early_data")>>), Try(ThenReturn), Use("tls.hashes[0]")>>)

client_handle_certificate_request ==
  Simple(<<Try(ThenReturn), Get("tls.cr_context", ThenReturn), Try(ThenReturn)>>)

\* tls->ctx->verify_certificate is the OpenSSL one; without certificates the
\* callers fail.
handle_certificate ==
  Simple(<<Try(ThenReturn),
           Call(verify_cert("vc", "tls.verify_ctx", "tls.verify_cb"), ThenReturn)>>)

client_handle_compressed_certificate ==
  Function({"uncompressed"}, {},
    <<Try(ThenExit), Get("uncompressed", ThenExit), Try(ThenExit),
      Call(handle_certificate, ThenExit)>>,
    <<Free("uncompressed")>>)

\* As below, with the callback left in place: ptls_free would call it again.
handle_certificate_verify_keeping_cb ==
  Simple(<<Try(ThenReturn), Use("tls.hashes[0]"),
           IfSet("tls.verify_cb", <<Call(verify_sign("tls.verify_ctx", TRUE), ThenReturn)>>)>>)

handle_certificate_verify ==
  Function({}, {},
    <<Try(ThenReturn), Use("tls.hashes[0]"),
      IfSet("tls.verify_cb", <<Call(verify_sign("tls.verify_ctx", TRUE), ThenExit)>>)>>,
    <<Clear("tls.verify_cb")>>)

send_certificate_and_certificate_verify ==
  Simple(<<Try(ThenReturn), Use("tls.hashes[0]"),
           IfSet("sc.key", <<Call(sign_certificate("sc"), ThenReturn)>>)>>)

client_handle_finished(c) ==
  Function({}, {},
    <<Use("tls.hashes[0]"), Try(ThenExit),
      Call(setup_traffic_protection(c, "tls.dec", TRUE, FALSE), ThenExit),
      Call(derive_secret, ThenExit),
      Call(derive_exporter_secret(c, "tls.exporter.one_rtt"), ThenExit),
      IfSet("tls.pending_handshake_secret",
            When(~ c.own_records, <<AssertSet("tls.enc")>>) \o
            <<Try(ThenExit), Clear("tls.using_early_data"),
              Call(commission_handshake_secret(c, "tls.enc"), ThenExit)>>),
      Try(ThenExit),
      IfSet("tls.cr_context",
            <<CallOr(send_certificate_and_certificate_verify,
                     <<Free("tls.cr_context"), Clear("tls.cr_context"), Fail(ThenExit)>>),
              Free("tls.cr_context"), Clear("tls.cr_context")>>),
      Try(ThenIgnore),
      Call(setup_traffic_protection(c, "tls.enc", FALSE, FALSE), ThenExit)>>, <<>>)

client_handle_new_session_ticket ==
  Function({"ticket_buf"}, {},
    <<Try(ThenReturn), Use("tls.key_share"), Call(ptls_buffer_reserve("ticket_buf"), ThenExit),
      Call(derive_secret, ThenExit), Try(ThenExit)>>,
    <<Call(ptls_buffer_dispose("ticket_buf"), ThenIgnore)>>)
-----------------------------------------------------------------------------
(* The server.                                                             *)

\* ctx->on_client_hello: another context and the names of the connection.  To
\* verify the client's certificate by OpenSSL a server must set a name.
on_client_hello(c) ==
  Simple(<<Either(<<Call(ptls_set_context("ctx2"), ThenIgnore)>>),
           Call(ptls_set_string("tls.server_name"), ThenReturn)>> \o
         When(c.client_auth, <<IfNull("tls.server_name", <<Fail(ThenReturn)>>)>>) \o
         <<Call(ptls_set_string("tls.negotiated_protocol"), ThenReturn), Try(ThenReturn)>>)

try_psk_handshake ==
  Function({"decbuf"}, {},
    <<Use("tls.hashes[0]"), Call(ptls_buffer_reserve("decbuf"), ThenExit),
      Static("tls.key_share"), Try(ThenExit)>>,
    <<Call(ptls_buffer_dispose("decbuf"), ThenIgnore)>>)

\* The hash context of the handshake is put aside while the client's Finished
\* is computed ahead.  session_id has no value before ptls_buffer_init.
send_session_ticket ==
  Function({"msghash_backup", "session_id"}, {},
    <<Known("send_session_ticket: no memory for the copy of the hash",
            Call(hash_clone("msghash_backup", "tls.hashes[0]"), ThenIgnore)),
      Static("session_id"), Use("tls.hashes[0]"),
      Known("send_session_ticket: session_id is released before it is set", Try(ThenExit)),
      Clear("session_id"), Use("tls.key_share"),
      Call(ptls_buffer_reserve("session_id"), ThenExit), Call(derive_secret, ThenExit),
      Try(ThenExit)>>,
    <<Free("session_id"), Call(hash_final_free("tls.hashes[0]"), ThenIgnore),
      Copy("tls.hashes[0]", "msghash_backup")>>)

\* HelloRetryRequest: the result of the stateless one is reported as an error.
LOCAL send_retry(c) ==
  <<Try(ThenExit), Use("tls.hashes[0]")>> \o
  (IF c.retry = "stateless"
   THEN <<Call(calc_cookie_signature, ThenExit), Try(ThenExit), Fail(ThenExit)>>
   ELSE <<Try(ThenExit), GotoExit>>)

LOCAL hello_names(c) ==
  When(c.esni,
    <<Call(client_hello_decrypt_esni(c), ThenExit)>> \o
    When(c.esni_cb,
      <<Use("tls.esni"),
        Known("server_handle_hello: the decrypted name is not released", Try(ThenExit))>>)) \o
  <<CallOr(on_client_hello(c), <<Free("server_name"), Fail(ThenExit)>>), Free("server_name")>>

\* is_second_flight as it is when the ClientHello arrives.
server_handle_hello(c, is_second_flight) ==
  LET resumes == c.psk /\ ~ is_second_flight /\ c.retry = "none" IN
  Function({"pubkey", "ecdh_secret", "server_name"}, {},
    <<Try(ThenExit)>> \o
    When(~ is_second_flight, hello_names(c)) \o
    <<Try(ThenExit)>> \o
    When(~ is_second_flight,
      <<Known("server_handle_hello: no key schedule",
              Call(key_schedule_new(1), ThenIgnore)), Use("tls.key_schedule")>>) \o
    <<Try(ThenExit)>> \o
    (IF ~ is_second_flight /\ c.retry \in {"stateful", "stateless"}
     THEN send_retry(c)
     ELSE When(~ is_second_flight /\ c.retry = "cookie",
            <<Call(calc_cookie_signature, ThenExit), Use("tls.hashes[0]"), Try(ThenExit)>>) \o
          <<Try(ThenExit)>> \o
          When(resumes,
            <<Call(try_psk_handshake, ThenExit), Get("tls.pending_handshake_secret", ThenExit),
              Call(derive_exporter_secret(c, "tls.exporter.early"), ThenExit),
              Call(setup_traffic_protection(c, "tls.dec", TRUE, FALSE), ThenExit)>>) \o
          When(c.dhe \/ ~ resumes,
            <<Call(KeyexExchange(c, "pubkey", "ecdh_secret"), ThenExit),
              Static("tls.key_share")>>) \o
          <<Try(ThenExit), Use("tls.key_schedule"),
            Call(setup_traffic_protection(c, "tls.enc", TRUE, FALSE), ThenExit)>> \o
          (IF resumes
           THEN <<Call(derive_secret, ThenExit)>> \o When(c.own_records, <<Try(ThenExit)>>)
           ELSE <<Call(setup_traffic_protection(c, "tls.dec", TRUE, FALSE), ThenExit)>>) \o
          <<IfSet("tls.esni", <<Try(ThenExit), Call(free_esni_secret(TRUE), ThenIgnore)>>),
            Try(ThenExit)>> \o
          When(~ resumes, <<Call(send_certificate_and_certificate_verify, ThenExit)>>) \o
          <<Use("tls.hashes[0]"), Try(ThenExit),
            Call(setup_traffic_protection(c, "tls.enc", TRUE, FALSE), ThenExit),
            Call(derive_secret, ThenExit),
            Call(derive_exporter_secret(c, "tls.exporter.one_rtt"), ThenExit)>> \o
          When(resumes /\ c.own_records,
            <<Call(commission_handshake_secret(c, "tls.dec"), ThenExit)>>) \o
          When(c.tickets, <<Call(send_session_ticket, ThenExit)>>)),
    <<Free("pubkey"), Free("ecdh_secret")>>)

server_handle_end_of_early_data(c) ==
  Simple(<<Call(commission_handshake_secret(c, "tls.dec"), ThenReturn), Use("tls.hashes[0]")>>)

server_handle_finished(c) ==
  Simple(<<Use("tls.hashes[0]"), Try(ThenReturn),
           Call(setup_traffic_protection(c, "tls.dec", FALSE, FALSE), ThenReturn),
           Use("tls.hashes[0]")>>)
-----------------------------------------------------------------------------
(* The life of a connection, as an application leads it: it may end after  *)
(* every message, and always ends in ptls_free.                            *)

\* Records and messages that arrive in pieces are collected.
LOCAL Receive ==
  <<Either(<<GotoExit>>), Call(ptls_buffer_reserve("tls.recvbuf.mess"), ThenExit)>>

LOCAL KeyUpdate(c, aead) ==
  When(~ c.own_records, <<Call(update_traffic_key(c, aead), ThenExit)>>)

\* The certificate is verified by means of OpenSSL; the application has a key
\* to sign with if the server wants to authenticate it.
ClientLife(c) ==
  Function({}, {},
    <<Get("ctx", ThenReturn), Get("app.key", ThenExit),
      Call(ptls_openssl_init_verify_certificate("vc", ""), ThenExit),
      Call(ptls_openssl_init_sign_certificate("sc", "app.key"), ThenExit),
      Call(ptls_new, ThenExit), Call(ptls_set_string("tls.server_name"), ThenExit),
      IfNull("tls.server_name", <<GotoExit>>),
      Call(send_client_hello(c, FALSE), ThenExit)>> \o
    When(c.retry # "none", Receive \o <<Call(client_handle_hello(c, TRUE), ThenExit)>>) \o
    Receive \o <<Call(client_handle_hello(c, FALSE), ThenExit)>> \o
    Receive \o <<Call(client_handle_encrypted_extensions, ThenExit)>> \o
    When(Full(c),
      When(c.client_auth, <<Call(client_handle_certificate_request, ThenExit)>>) \o
      Receive \o
      <<Choose(<<Call(handle_certificate, ThenExit)>>,
               <<Call(client_handle_compressed_certificate, ThenExit)>>)>> \o
      Receive \o <<Call(handle_certificate_verify, ThenExit)>>) \o
    Receive \o <<Call(client_handle_finished(c), ThenExit)>> \o
    When(c.tickets, <<Call(client_handle_new_session_ticket, ThenExit)>>) \o
    KeyUpdate(c, "tls.enc") \o KeyUpdate(c, "tls.dec"),
    <<IfSet("tls", <<Call(ptls_free(c, FALSE), ThenIgnore)>>),
      Call(ptls_openssl_dispose_sign_certificate("sc"), ThenIgnore),
      Call(ptls_openssl_dispose_verify_certificate("vc"), ThenIgnore),
      Free("app.key"), Free("ctx")>>)

\* An ESNI context is disposed of only if it could be set up: after a failure
\* it holds pointers to what is gone.
ServerLife(c) ==
  Function({}, {},
    <<Get("ctx", ThenReturn), Get("ctx2", ThenExit), Get("app.key", ThenExit),
      Call(ptls_openssl_init_verify_certificate("vc", ""), ThenExit),
      Call(ptls_openssl_init_sign_certificate("sc", "app.key"), ThenExit)>> \o
    When(c.esni,
      <<Call(KeyexCreate(c, "esni.key_exchanges[0]"), ThenExit),
        Call(ptls_esni_init_context(c), ThenExit), Static("ctx.esni")>>) \o
    <<Call(ptls_new, ThenExit), Call(server_handle_hello(c, FALSE), ThenExit)>> \o
    When(c.retry = "stateful",
      Receive \o <<Call(server_handle_hello(c, TRUE), ThenExit)>>) \o
    (IF Full(c)
     THEN When(c.client_auth,
            Receive \o <<Call(handle_certificate, ThenExit)>> \o
            Receive \o <<Call(handle_certificate_verify, ThenExit)>>)
     ELSE When(~ c.own_records,
            Receive \o <<Call(server_handle_end_of_early_data(c), ThenExit)>>)) \o
    Receive \o <<Call(server_handle_finished(c), ThenExit)>> \o
    KeyUpdate(c, "tls.dec") \o KeyUpdate(c, "tls.enc"),
    <<IfSet("tls", <<Call(ptls_free(c, TRUE), ThenIgnore)>>)>> \o
    <<IfSet("ctx.esni", <<Call(ptls_esni_dispose_context(c), ThenIgnore)>>)>> \o
    <<Call(ptls_openssl_dispose_sign_certificate("sc"), ThenIgnore),
      Call(ptls_openssl_dispose_verify_certificate("vc"), ThenIgnore),
      Free("app.key"), Free("ctx2"), Free("ctx")>>)
=============================================================================
