----------------------------- MODULE Handshake -----------------------------
(***************************************************************************)
(* The TLS 1.3 handshake of picotls (lib/picotls.c) over its own record    *)
(* layer: one client and one server object, ptls_handshake until it        *)
(* returns 0, then ptls_receive, with 0-RTT data, PSK resumption,          *)
(* HelloRetryRequest (stateful and by cookie), client authentication,      *)
(* session tickets and alerts.                                             *)
(*                                                                         *)
(* Cryptography is symbolic.  The key schedule is the sequence of inputs   *)
(* given to key_schedule_extract, so its length is sched->generation; the  *)
(* running hash is the sequence of messages hashed so far; a secret is     *)
(* what it was derived from.  A record opens exactly with the secret and   *)
(* the sequence number it was sealed with.  One hash algorithm is offered. *)
(***************************************************************************)
EXTENDS Integers, Sequences

CONSTANTS Configs,        \* the pairs of contexts and properties the endpoints run with
          SKIP_LIMIT,     \* PTLS_MAX_EARLY_DATA_SKIP_SIZE, in records
          MaxData         \* bound: 1-RTT records each side sends

(* A configuration.  ticket: what the server makes of the client's ticket   *)
(* ("late": no early data with it, "mismatch": it holds another PSK).       *)
(* key_share: the group of the first ClientHello's share; both sides        *)
(* support group1 and group2, in that order, unless it is "nocommon"; only  *)
(* a ticket makes the client start with another group than its first.       *)
(* A certificate is accepted, absent, rejected, or has no working signer.   *)
(* early_limit: max_early_data_size of the client's ticket, in records.     *)
(* send_change_cipher_spec is the client context's; the server's is 0, so   *)
(* that it sends one only to a client with a legacy_session_id.             *)
Config ==
    [ticket : {"none", "valid", "late", "unknown", "mismatch"},
     early_data : BOOLEAN,
     key_share : {"group1", "group2", "alien", "none", "nocommon"},
     enforce_retry : BOOLEAN,
     retry_uses_cookie : BOOLEAN,
     require_dhe_on_psk : BOOLEAN,
     require_client_authentication : BOOLEAN,
     client_certificate : {"ok", "none", "bad", "unsigned", "signfails"},
     server_certificate : {"ok", "none", "bad", "unsigned", "signfails"},
     save_ticket : BOOLEAN,
     ticket_lifetime : BOOLEAN,
     max_early_data_size : BOOLEAN,
     send_change_cipher_spec : BOOLEAN,
     early_limit : Nat,
     alterations : Nat]     \* bound: records altered on the way

ASSUME ConfigsAssumption ==
    /\ Configs \subseteq Config
    /\ \A c \in Configs : /\ c.early_data => c.ticket # "none"
                          /\ c.key_share = "none" => c.ticket = "none"
                          /\ c.key_share = "group2" => c.ticket # "none"

ASSUME HandshakeBounds == {SKIP_LIMIT, MaxData} \subseteq Nat

Side == {"client", "server"}
Peer(s) == IF s = "client" THEN "server" ELSE "client"

UINT32_MAX == -1    \* the all-ones value of early_data_skipped_bytes

VARIABLES
    cfg,                        \* the configuration of this connection
    state,                      \* tls->state, without its PTLS_STATE_ prefix
    sched,                      \* inputs of key_schedule_extract so far
    transcript,                 \* messages hashed so far
    enc, dec,                   \* tls->traffic_protection
    pending_handshake_secret,   \* the client handshake secret held back for early data
    is_psk_handshake,
    send_change_cipher_spec,    \* of the client; the server's follows the legacy_session_id
    offered_psk, using_early_data, certificate_request,    \* tls->client
    early_data_acceptance, max_early_data_size,            \* properties->client
    pending_traffic_secret, early_data_skipped_bytes,      \* tls->server
    ret,                        \* what the last call returned ("OK" is 0)
    sendbuf,                    \* what the current call has written
    wire,                       \* wire[s]: records on their way from s to Peer(s)
    saved,                      \* the client's stored ticket: <<its content, resumption secret>>
    earlySent, earlyGot,        \* early data records sent and delivered
    sent, got,                  \* 1-RTT data records sent and delivered
    faults,                     \* records altered so far
    failedAsserts               \* assert()s of the code that did not hold

keys       == <<enc, dec, pending_handshake_secret>>
schedule   == <<sched, transcript>>
clientVars == <<offered_psk, using_early_data, certificate_request, early_data_acceptance,
                max_early_data_size>>
serverVars == <<pending_traffic_secret, early_data_skipped_bytes>>
appVars    == <<saved, earlySent, earlyGot, sent, got>>
vars == <<cfg, state, schedule, keys, is_psk_handshake, send_change_cipher_spec, clientVars,
          serverVars, ret, sendbuf, wire, appVars, faults, failedAsserts>>

-----------------------------------------------------------------------------
(***************************************************************************)
(* Secrets, messages and records.                                          *)
(***************************************************************************)
Secret(label, ikm, th) == [label |-> label, ikm |-> ikm, th |-> th]
NoSecret == Secret("none", <<>>, <<>>)

NoKey == [aead |-> FALSE, secret |-> NoSecret, seq |-> 0]
Key(secret) == [aead |-> TRUE, secret |-> secret, seq |-> 0]

(* commission_handshake_secret: the secret held back becomes the key.       *)
commission_handshake_secret(secret) == Key(secret)

(* Mutation: the sequence number counts down.                               *)
Advance_down(key, n) == [aead |-> key.aead, secret |-> key.secret,
                         seq |-> IF key.aead THEN key.seq - n ELSE key.seq]

Advance(key, n) == [aead |-> key.aead, secret |-> key.secret,
                    seq |-> IF key.aead THEN key.seq + n ELSE key.seq]

(* A message: its type, the extensions and flags it carries, the MAC,       *)
(* binder, signature or ticket in it, and its cookie.                       *)
Message(type, has, mac, cookie) ==
    [type |-> type, has |-> has, mac |-> mac, cookie |-> cookie]
Plain(type, has) == Message(type, has, <<>>, <<>>)

(* What a message adds to the running hash.  MACs and signatures are        *)
(* functions of what precedes them, so they add nothing that can differ.    *)
View(m) == <<m.type, m.has>>

(* calc_verify_data, and build_certificate_verify_signdata's input.         *)
Mac(secret, th) == <<secret, th>>

(* key_schedule_transform_post_ch1hash: ClientHello1 is replaced by a hash. *)
ch1hash(th) == <<<<"message_hash", th[1][2]>>>>

If(cond, x) == IF cond THEN {x} ELSE {}
When(cond, m) == IF cond THEN <<m>> ELSE <<>>

(* commit_record_message: one record per message, sealed if there is a key. *)
Records(key, msgs) ==
    [i \in 1..Len(msgs) |-> [secret |-> key.secret, seq |-> key.seq + i - 1, msg |-> msgs[i]]]

(* push_change_cipher_spec's record: never sealed, at most once.            *)
CCS(cond) == IF cond THEN Records(NoKey, <<Plain("CCS", {})>>) ELSE <<>>

Sealed(r) == r.secret # NoSecret
Opens(key, r) == key.secret = r.secret /\ key.seq = r.seq

-----------------------------------------------------------------------------
(***************************************************************************)
(* Objects as ptls_client_new and ptls_server_new leave them.              *)
(***************************************************************************)
Init ==
    /\ cfg \in Configs
    /\ state = [client |-> "CLIENT_HANDSHAKE_START", server |-> "SERVER_EXPECT_CLIENT_HELLO"]
    /\ sched = [s \in Side |-> <<>>]
    /\ transcript = [s \in Side |-> <<>>]
    /\ enc = [s \in Side |-> NoKey]
    /\ dec = [s \in Side |-> NoKey]
    /\ pending_handshake_secret = [s \in Side |-> NoSecret]
    /\ is_psk_handshake = [s \in Side |-> FALSE]
    /\ send_change_cipher_spec = cfg.send_change_cipher_spec
    /\ offered_psk = FALSE
    /\ using_early_data = FALSE
    /\ certificate_request = FALSE
    /\ early_data_acceptance = "UNKNOWN"
    /\ max_early_data_size = 0
    /\ pending_traffic_secret = NoSecret
    /\ early_data_skipped_bytes = UINT32_MAX
    /\ ret = [s \in Side |-> "IN_PROGRESS"]
    /\ sendbuf = [s \in Side |-> <<>>]
    /\ wire = [s \in Side |-> <<>>]
    /\ saved = <<>>
    /\ earlySent = 0
    /\ earlyGot = 0
    /\ sent = [s \in Side |-> 0]
    /\ got = [s \in Side |-> 0]
    /\ faults = 0
    /\ failedAsserts = {}

(* The states in which a client has not finished its handshake, and the     *)
(* states at or above PTLS_STATE_POST_HANDSHAKE_MIN.                        *)
ClientHandshake == {"CLIENT_HANDSHAKE_START", "CLIENT_EXPECT_SERVER_HELLO",
                    "CLIENT_EXPECT_SECOND_SERVER_HELLO", "CLIENT_EXPECT_ENCRYPTED_EXTENSIONS",
                    "CLIENT_EXPECT_CERTIFICATE_REQUEST_OR_CERTIFICATE",
                    "CLIENT_EXPECT_CERTIFICATE", "CLIENT_EXPECT_CERTIFICATE_VERIFY",
                    "CLIENT_EXPECT_FINISHED"}
ServerHandshake == {"SERVER_EXPECT_CLIENT_HELLO", "SERVER_EXPECT_SECOND_CLIENT_HELLO",
                    "SERVER_EXPECT_CERTIFICATE", "SERVER_EXPECT_CERTIFICATE_VERIFY",
                    "SERVER_EXPECT_END_OF_EARLY_DATA", "SERVER_EXPECT_FINISHED"}
PostHandshake == {"CLIENT_POST_HANDSHAKE", "SERVER_POST_HANDSHAKE"}

(* The states in which ptls_receive may be called.                          *)
MayReceive == PostHandshake \cup {"SERVER_EXPECT_END_OF_EARLY_DATA", "SERVER_EXPECT_FINISHED"}

(* assert()s: a record from the name of each to what it tests.              *)
Check(asserts) ==
    failedAsserts' = failedAsserts \cup {a \in DOMAIN asserts : ~asserts[a]}

-----------------------------------------------------------------------------
(***************************************************************************)
(* handle_input, one record per step.  While ret is IN_PROGRESS the record *)
(* is read by ptls_handshake, afterwards by ptls_receive.                  *)
(***************************************************************************)
First(s) == wire[Peer(s)][1]

Ready(s) ==
    /\ wire[Peer(s)] # <<>>
    /\ \/ ret[s] = "IN_PROGRESS"
       \/ ret[s] = "OK" /\ sendbuf[s] = <<>>

PlainAlert(s) == First(s).msg.type = "ALERT" /\ ~Sealed(First(s))

(* The record gets through to the handlers: opened, or plain with no key.   *)
Accepts(s) ==
    /\ Ready(s)
    /\ First(s).msg.type # "CCS"
    /\ ~PlainAlert(s)
    /\ IF dec[s].aead THEN Opens(dec[s], First(s)) ELSE ~Sealed(First(s))

Consume(s) == wire' = [wire EXCEPT ![Peer(s)] = Tail(@)]

(* A handler returned r; ptls_receive turns IN_PROGRESS into 0.             *)
Return(s, r) == ret' = IF ret[s] = "OK" THEN ret ELSE [ret EXCEPT ![s] = r]

(* ptls_send_alert: sealed unless there is no key or a client is still in   *)
(* its handshake.                                                           *)
AlertKey(s, key) == IF key.aead /\ state[s] \notin ClientHandshake THEN key ELSE NoKey

(* Mutation: an error ends the call without an alert.                       *)
FailWith_silent(s, code, key) ==
    /\ ret' = [ret EXCEPT ![s] = code]
    /\ sendbuf' = [sendbuf EXCEPT ![s] = <<>>]
    /\ Consume(s)
    /\ UNCHANGED <<cfg, state, schedule, enc, dec, pending_handshake_secret, is_psk_handshake,
                   send_change_cipher_spec, clientVars, pending_traffic_secret, appVars, faults>>

(* The call fails with `code' while `key' is the write key.  ptls_handshake *)
(* takes back what the call wrote and sends an alert; ptls_receive does     *)
(* not.  The application frees the object, so nothing else of it matters.   *)
FailWith(s, code, key) ==
    /\ ret' = [ret EXCEPT ![s] = code]
    /\ IF ret[s] = "IN_PROGRESS"
       THEN /\ sendbuf' = [sendbuf EXCEPT ![s] =
                              Records(AlertKey(s, key), <<Plain("ALERT", {code})>>)]
            /\ enc' = [enc EXCEPT ![s] = key]
       ELSE UNCHANGED <<sendbuf, enc>>
    /\ Consume(s)
    /\ UNCHANGED <<cfg, state, schedule, dec, pending_handshake_secret, is_psk_handshake,
                   send_change_cipher_spec, clientVars, pending_traffic_secret, appVars, faults>>

Fail(s, code) == FailWith(s, code, enc[s]) /\ UNCHANGED early_data_skipped_bytes

(* The application writes out what ptls_handshake produced.                 *)
Flush(s) ==
    /\ sendbuf[s] # <<>>
    /\ wire' = [wire EXCEPT ![s] = @ \o sendbuf[s]]
    /\ sendbuf' = [sendbuf EXCEPT ![s] = <<>>]
    /\ UNCHANGED <<cfg, state, schedule, keys, is_psk_handshake, send_change_cipher_spec,
                   clientVars, serverVars, ret, appVars, faults, failedAsserts>>

(* change_cipher_spec: passed over before the handshake is complete.        *)
HandleCCS(s) ==
    /\ Ready(s)
    /\ First(s).msg.type = "CCS"
    /\ state[s] \notin PostHandshake
    /\ Consume(s)
    /\ UNCHANGED <<cfg, state, schedule, keys, is_psk_handshake, send_change_cipher_spec,
                   clientVars, serverVars, ret, sendbuf, appVars, faults, failedAsserts>>

(* handle_alert, for an alert in the clear or one that opened.              *)
handle_alert(s) ==
    /\ Ready(s)
    /\ PlainAlert(s) \/ (Accepts(s) /\ First(s).msg.type = "ALERT")
    /\ ret' = [ret EXCEPT ![s] = "PEER_ALERT"]
    /\ sendbuf' = [sendbuf EXCEPT ![s] = <<>>]
    /\ Consume(s)
    /\ UNCHANGED <<cfg, state, schedule, keys, is_psk_handshake, send_change_cipher_spec,
                   clientVars, serverVars, appVars, faults, failedAsserts>>

(* Application data that opened: delivered after the handshake, and as      *)
(* early data before EndOfEarlyData.  ptls_handshake asserts that it gets   *)
(* none.                                                                    *)
ReceiveData(s) ==
    /\ Accepts(s)
    /\ First(s).msg.type = "DATA"
    /\ state[s] \in PostHandshake \cup {"SERVER_EXPECT_END_OF_EARLY_DATA"}
    /\ Check([decryptbuf_empty |-> ret[s] # "IN_PROGRESS"])
    /\ dec' = [dec EXCEPT ![s] = Advance(@, 1)]
    /\ IF state[s] \in PostHandshake
       THEN got' = [got EXCEPT ![s] = @ + 1] /\ UNCHANGED earlyGot
       ELSE earlyGot' = earlyGot + 1 /\ UNCHANGED got
    /\ Consume(s)
    /\ UNCHANGED <<cfg, state, schedule, enc, pending_handshake_secret, is_psk_handshake,
                   send_change_cipher_spec, clientVars, serverVars, ret, sendbuf, saved,
                   earlySent, sent, faults>>

(* ServerSkipEarlyData: a record that does not open, or that is sealed when *)
(* there is no key yet, while the server counts the early data it refused.  *)
ServerSkipEarlyData ==
    /\ Ready("server")
    /\ Sealed(First("server"))
    /\ ~Opens(dec["server"], First("server"))
    /\ early_data_skipped_bytes # UINT32_MAX
    /\ early_data_skipped_bytes' = early_data_skipped_bytes + 1
    /\ IF early_data_skipped_bytes' > SKIP_LIMIT
       THEN FailWith("server", "HANDSHAKE_FAILURE", enc["server"])
       ELSE /\ Consume("server")
            /\ UNCHANGED <<cfg, state, schedule, keys, is_psk_handshake, send_change_cipher_spec,
                           clientVars, pending_traffic_secret, ret, sendbuf, appVars, faults>>
    /\ UNCHANGED failedAsserts

(* The types of handshake message the state's handler takes.                *)
Expected ==
    [CLIENT_EXPECT_SERVER_HELLO |-> {"SH", "HRR"},
     CLIENT_EXPECT_SECOND_SERVER_HELLO |-> {"SH", "HRR"},
     CLIENT_EXPECT_ENCRYPTED_EXTENSIONS |-> {"EE"},
     CLIENT_EXPECT_CERTIFICATE_REQUEST_OR_CERTIFICATE |-> {"CR", "CERT"},
     CLIENT_EXPECT_CERTIFICATE |-> {"CERT"},
     CLIENT_EXPECT_CERTIFICATE_VERIFY |-> {"CV"},
     CLIENT_EXPECT_FINISHED |-> {"FIN"},
     CLIENT_POST_HANDSHAKE |-> {"NST"},
     SERVER_EXPECT_CLIENT_HELLO |-> {"CH"},
     SERVER_EXPECT_SECOND_CLIENT_HELLO |-> {"CH"},
     SERVER_EXPECT_CERTIFICATE |-> {"CERT"},
     SERVER_EXPECT_CERTIFICATE_VERIFY |-> {"CV"},
     SERVER_EXPECT_END_OF_EARLY_DATA |-> {"EOED"},
     SERVER_EXPECT_FINISHED |-> {"FIN"},
     SERVER_POST_HANDSHAKE |-> {}]

(* Why a record is refused, in the order handle_input and the dispatchers   *)
(* of handshake messages test; "none" if a handler takes it.                *)
RejectCode(s) ==
    LET r == First(s)
        skipping == s = "server" /\ early_data_skipped_bytes # UINT32_MAX
    IN  CASE r.msg.type = "CCS" ->
                IF state[s] \in PostHandshake THEN "HANDSHAKE_FAILURE" ELSE "none"
          [] PlainAlert(s) -> "none"
          [] r.msg.type # "CCS" /\ ~PlainAlert(s) /\ ~Accepts(s) ->
                IF Sealed(r) /\ skipping THEN "none"
                ELSE IF ~dec[s].aead THEN "UNEXPECTED_MESSAGE"
                ELSE IF Sealed(r) THEN "BAD_RECORD_MAC"
                ELSE "HANDSHAKE_FAILURE"
          [] Accepts(s) /\ r.msg.type = "DATA" ->
                IF state[s] \in PostHandshake \cup {"SERVER_EXPECT_END_OF_EARLY_DATA"}
                THEN "none" ELSE "UNEXPECTED_MESSAGE"
          [] Accepts(s) /\ r.msg.type # "DATA" ->
                IF r.msg.type \in {"ALERT"} \cup Expected[state[s]] THEN "none"
                ELSE IF state[s] \in {"SERVER_EXPECT_CLIENT_HELLO", "SERVER_EXPECT_FINISHED",
                                      "SERVER_EXPECT_SECOND_CLIENT_HELLO"}
                THEN "HANDSHAKE_FAILURE"
                ELSE "UNEXPECTED_MESSAGE"

RejectRecord(s) ==
    /\ Ready(s)
    /\ RejectCode(s) # "none"
    /\ Fail(s, RejectCode(s))
    /\ UNCHANGED failedAsserts

-----------------------------------------------------------------------------
(***************************************************************************)
(* The client.                                                             *)
(***************************************************************************)
Offers == cfg.ticket # "none"
ClientPsk == IF cfg.ticket = "mismatch" THEN "other_psk" ELSE "psk"

(* A ClientHello and its binder, which covers all that precedes it.         *)
ClientHello(has, cookie, th) ==
    LET base == Plain("CH", has)
    IN  Message("CH", has,
                IF Offers
                THEN Mac(Secret("res_binder", <<ClientPsk>>, <<>>), Append(th, View(base)))
                ELSE <<>>,
                cookie)

(* The extensions of both ClientHellos.                                     *)
HelloExtensions ==
    If(Offers, "psk") \cup If(cfg.save_ticket \/ Offers, "ke_modes")
        \cup If(cfg.send_change_cipher_spec, "legacy_session_id")

(* send_client_hello, first flight.                                         *)
send_client_hello ==
    LET early == Offers /\ cfg.early_data
        ch == ClientHello(HelloExtensions \cup If(early, "early_data") \cup {cfg.key_share},
                          <<>>, <<>>)
        ikm == <<IF Offers THEN ClientPsk ELSE "0">>
        key == Key(Secret("c_e_traffic", ikm, <<View(ch)>>))
        ccs == early /\ send_change_cipher_spec
    IN  /\ state["client"] = "CLIENT_HANDSHAKE_START"
        /\ state' = [state EXCEPT !["client"] = "CLIENT_EXPECT_SERVER_HELLO"]
        /\ offered_psk' = Offers
        /\ using_early_data' = early
        /\ early_data_acceptance' = IF early THEN "UNKNOWN" ELSE "REJECTED"
        /\ max_early_data_size' = IF early THEN cfg.early_limit ELSE 0
        /\ sched' = [sched EXCEPT !["client"] = ikm]
        /\ transcript' = [transcript EXCEPT !["client"] = <<View(ch)>>]
        /\ enc' = IF early THEN [enc EXCEPT !["client"] = key] ELSE enc
        /\ sendbuf' = [sendbuf EXCEPT !["client"] = Records(NoKey, <<ch>>) \o CCS(ccs)]
        /\ send_change_cipher_spec' = (send_change_cipher_spec /\ ~ccs)
        /\ UNCHANGED <<cfg, dec, pending_handshake_secret, is_psk_handshake,
                       certificate_request, serverVars, ret, wire, appVars, faults, failedAsserts>>

(* The client takes a message of the given type.                            *)
ClientTakes(type) ==
    /\ Accepts("client")
    /\ First("client").msg.type = type
    /\ type \in Expected[state["client"]]

(* decode_server_hello: the server took the PSK; a key share, or the group  *)
(* of a HelloRetryRequest, is there.                                        *)
SelectsPsk(sh) == "psk" \in sh.has
SelectsKeyShare(sh) == "key_share" \in sh.has

(* client_handle_hello for a HelloRetryRequest: handle_hello_retry_request  *)
(* and the second send_client_hello.  Early data ends, its key is released. *)
handle_hello_retry_request ==
    LET hrr == First("client").msg
        th == Append(ch1hash(transcript["client"]), View(hrr))
        share == IF SelectsKeyShare(hrr) THEN "group1" ELSE cfg.key_share
        ch == ClientHello(HelloExtensions \cup {share} \cup If(hrr.cookie # <<>>, "cookie"),
                          hrr.cookie, th)
    IN  /\ ClientTakes("HRR")
        /\ Check([select_one_generation |-> Len(sched["client"]) = 1,
                  hrr_early_key |-> using_early_data => enc["client"].aead])
        /\ enc' = IF using_early_data THEN [enc EXCEPT !["client"] = NoKey] ELSE enc
        /\ using_early_data' = FALSE
        /\ early_data_acceptance' = "REJECTED"
        /\ max_early_data_size' = 0
        /\ transcript' = [transcript EXCEPT !["client"] = Append(th, View(ch))]
        /\ sendbuf' = [sendbuf EXCEPT !["client"] =
                          @ \o Records(enc'["client"], <<ch>>)]
        /\ state' = [state EXCEPT !["client"] = "CLIENT_EXPECT_SECOND_SERVER_HELLO"]
        /\ Consume("client")
        /\ UNCHANGED <<cfg, sched, dec, pending_handshake_secret, is_psk_handshake,
                       send_change_cipher_spec, offered_psk, certificate_request, serverVars,
                       ret, appVars, faults>>

(* key_schedule_select_one: with reset the early secret starts from 0 again. *)
key_schedule_select_one(ikm, reset) == IF reset THEN <<"0">> ELSE ikm

(* client_handle_hello for a ServerHello.                                   *)
client_handle_hello ==
    LET sh == First("client").msg
        psk == SelectsPsk(sh)
        ikm == Append(key_schedule_select_one(sched["client"], offered_psk /\ ~psk),
                      IF SelectsKeyShare(sh) THEN "dhe" ELSE "0")
        th == Append(transcript["client"], View(sh))
        hs == Secret("c_hs_traffic", ikm, th)
    IN  /\ ClientTakes("SH")
        /\ Check([select_one_generation |-> Len(sched["client"]) = 1])
        /\ is_psk_handshake' = [is_psk_handshake EXCEPT !["client"] = psk]
        /\ sched' = [sched EXCEPT !["client"] = ikm]
        /\ transcript' = [transcript EXCEPT !["client"] = th]
        /\ dec' = [dec EXCEPT !["client"] = Key(Secret("s_hs_traffic", ikm, th))]
        /\ IF using_early_data
           THEN /\ pending_handshake_secret' = [pending_handshake_secret EXCEPT !["client"] = hs]
                /\ UNCHANGED enc
           ELSE /\ enc' = [enc EXCEPT !["client"] = Key(hs)]
                /\ UNCHANGED pending_handshake_secret
        /\ state' = [state EXCEPT !["client"] = "CLIENT_EXPECT_ENCRYPTED_EXTENSIONS"]
        /\ Consume("client")
        /\ UNCHANGED <<cfg, send_change_cipher_spec, clientVars, serverVars, ret, sendbuf,
                       appVars, faults>>

(* A message that only moves the client's state and running hash.           *)
ClientStep(next) ==
    /\ transcript' = [transcript EXCEPT !["client"] = Append(@, View(First("client").msg))]
    /\ dec' = [dec EXCEPT !["client"] = Advance(@, 1)]
    /\ state' = [state EXCEPT !["client"] = next]
    /\ Consume("client")
    /\ UNCHANGED <<cfg, sched, enc, pending_handshake_secret, is_psk_handshake,
                   send_change_cipher_spec, offered_psk, max_early_data_size, serverVars, ret,
                   sendbuf, appVars, faults, failedAsserts>>

(* An early_data extension that was not asked for is an illegal parameter.  *)
client_handle_encrypted_extensions ==
    LET accepted == "early_data" \in First("client").msg.has
    IN  /\ ClientTakes("EE")
        /\ accepted => using_early_data
        /\ using_early_data' = (using_early_data /\ accepted)
        /\ early_data_acceptance' = IF ~using_early_data THEN early_data_acceptance
                                    ELSE IF accepted THEN "ACCEPTED" ELSE "REJECTED"
        /\ ClientStep(IF is_psk_handshake["client"] THEN "CLIENT_EXPECT_FINISHED"
                      ELSE "CLIENT_EXPECT_CERTIFICATE_REQUEST_OR_CERTIFICATE")
        /\ UNCHANGED certificate_request

client_handle_certificate_request ==
    /\ ClientTakes("CR")
    /\ certificate_request' = TRUE
    /\ ClientStep("CLIENT_EXPECT_CERTIFICATE")
    /\ UNCHANGED <<using_early_data, early_data_acceptance>>

client_handle_certificate ==
    /\ ClientTakes("CERT")
    /\ First("client").msg.has = {"ok"}
    /\ ClientStep("CLIENT_EXPECT_CERTIFICATE_VERIFY")
    /\ UNCHANGED <<using_early_data, early_data_acceptance, certificate_request>>

(* The signature covers the transcript under a context string per side.     *)
Signature(s, th) == Mac(Secret(s, <<>>, <<>>), th)

client_handle_certificate_verify ==
    /\ ClientTakes("CV")
    /\ First("client").msg.mac = Signature("server", transcript["client"])
    /\ ClientStep("CLIENT_EXPECT_FINISHED")
    /\ UNCHANGED <<using_early_data, early_data_acceptance, certificate_request>>

(* send_certificate_and_certificate_verify, after th: a signer that fails   *)
(* fails the call, and without a signer there is no CertificateVerify.      *)
Certificates(s, certificate, th) ==
    LET cert == Plain("CERT", {IF certificate \in {"none", "bad"} THEN certificate ELSE "ok"})
    IN  <<cert>> \o When(certificate \in {"ok", "bad"},
                         Message("CV", {}, Signature(s, Append(th, View(cert))), <<>>))

Hash(th, msgs) == th \o [i \in 1..Len(msgs) |-> View(msgs[i])]

send_finished(secret, th) == Message("FIN", {}, Mac(secret, th), <<>>)

(* verify_finished.                                                         *)
FinishedVerifies(s) == First(s).msg.mac = Mac(dec[s].secret, transcript[s])

(* The handler of the message returns an error.                             *)
ClientError ==
    LET m == First("client").msg
        code == CASE m.type = "EE" /\ "early_data" \in m.has /\ ~using_early_data -> "ILLEGAL_PARAMETER"
                  [] m.type = "CERT" /\ m.has = {"none"} -> "ILLEGAL_PARAMETER"
                  [] m.type = "CERT" /\ m.has = {"bad"} -> "BAD_CERTIFICATE"
                  [] m.type = "CV" /\ m.mac # Signature("server", transcript["client"]) -> "DECRYPT_ERROR"
                  [] m.type = "FIN" /\ ~FinishedVerifies("client") -> "HANDSHAKE_FAILURE"
                  [] m.type = "FIN" /\ FinishedVerifies("client") /\ certificate_request
                        /\ is_psk_handshake["client"] -> "ILLEGAL_PARAMETER"
                  [] m.type = "FIN" /\ FinishedVerifies("client") /\ certificate_request
                        /\ ~is_psk_handshake["client"]
                        /\ cfg.client_certificate = "signfails" -> "HANDSHAKE_FAILURE"
                  [] OTHER -> "none"
    IN  /\ \E type \in {"EE", "CERT", "CV", "FIN"} : ClientTakes(type)
        /\ code # "none"
        /\ Fail("client", code)
        /\ UNCHANGED failedAsserts

(* client_handle_finished: EndOfEarlyData under the early key, then the     *)
(* held back handshake key, then the client's own flight and its 1-RTT key. *)
client_handle_finished ==
    LET th1 == Append(transcript["client"], View(First("client").msg))
        ikm == Append(sched["client"], "0")
        pending == pending_handshake_secret["client"]
        eoed == When(pending # NoSecret /\ using_early_data, Plain("EOED", {}))
        hskey == IF pending # NoSecret THEN commission_handshake_secret(pending) ELSE enc["client"]
        th2 == Hash(th1, eoed)
        certs == IF certificate_request
                 THEN Certificates("client", cfg.client_certificate, th2) ELSE <<>>
        th3 == Hash(th2, certs)
        fin == send_finished(hskey.secret, th3)
    IN  /\ ClientTakes("FIN")
        /\ FinishedVerifies("client")
        /\ certificate_request => /\ ~is_psk_handshake["client"]
                                  /\ cfg.client_certificate # "signfails"
        /\ Check([finished_early_key |-> pending # NoSecret => enc["client"].aead])
        /\ sched' = [sched EXCEPT !["client"] = ikm]
        /\ dec' = [dec EXCEPT !["client"] = Key(Secret("s_ap_traffic", ikm, th1))]
        /\ using_early_data' = (using_early_data /\ pending = NoSecret)
        /\ pending_handshake_secret' = [pending_handshake_secret EXCEPT !["client"] = NoSecret]
        /\ sendbuf' = [sendbuf EXCEPT !["client"] =
                          @ \o Records(enc["client"], eoed)
                            \o CCS(send_change_cipher_spec)
                            \o Records(hskey, Append(certs, fin))]
        /\ send_change_cipher_spec' = FALSE
        /\ certificate_request' = FALSE
        /\ transcript' = [transcript EXCEPT !["client"] = Append(th3, View(fin))]
        /\ enc' = [enc EXCEPT !["client"] = Key(Secret("c_ap_traffic", ikm, th1))]
        /\ state' = [state EXCEPT !["client"] = "CLIENT_POST_HANDSHAKE"]
        /\ Return("client", "OK")
        /\ Consume("client")
        /\ UNCHANGED <<cfg, is_psk_handshake, offered_psk, early_data_acceptance,
                       max_early_data_size, serverVars, appVars, faults>>

(* derive_resumption_secret.                                                *)
ResumptionSecret(ikm, th) == Mac(Secret("res_master", ikm, th), <<>>)

(* The ticket is stored with the client's own resumption secret.            *)
client_handle_new_session_ticket ==
    /\ ClientTakes("NST")
    /\ saved' = IF cfg.save_ticket
                THEN <<First("client").msg.mac,
                       ResumptionSecret(sched["client"], transcript["client"])>>
                ELSE saved
    /\ dec' = [dec EXCEPT !["client"] = Advance(@, 1)]
    /\ Consume("client")
    /\ UNCHANGED <<cfg, state, schedule, enc, pending_handshake_secret, is_psk_handshake,
                   send_change_cipher_spec, clientVars, serverVars, ret, sendbuf, earlySent,
                   earlyGot, sent, got, faults, failedAsserts>>

-----------------------------------------------------------------------------
(***************************************************************************)
(* The server.                                                             *)
(***************************************************************************)
Groups == {"group1", "group2"}

(* The key share's group, as select_key_share finds it, "none" if none.     *)
SharedGroup(ch) == IF ch.has \cap Groups = {} THEN "none" ELSE CHOOSE g \in ch.has : g \in Groups

(* Which branch of server_handle_hello a ClientHello takes.                 *)
Stateful == state["server"] = "SERVER_EXPECT_SECOND_CLIENT_HELLO"
CookieFlight(ch) == ~Stateful /\ ch.cookie # <<>> /\ SharedGroup(ch) # "none"
NeedsRetry(ch) ==
    ~Stateful /\ ~CookieFlight(ch) /\ (SharedGroup(ch) = "none" \/ cfg.enforce_retry)
SecondFlight(ch) == Stateful \/ CookieFlight(ch)

(* The HelloRetryRequest, with the group (select_negotiated_group: group1)  *)
(* only if the client's share was of no use.                                *)
RetryExtensions(sent_key_share, cookie) ==
    If(sent_key_share, "key_share") \cup If(cookie # <<>>, "cookie")

(* A cookie: hash of ClientHello1, what its signature covers (the           *)
(* client_random, the group) and whether a key_share was sent.              *)
Random(ch) == ch.has \cap {"random"}
Cookie(ch, group) == <<ch1hash(<<View(ch)>>), Random(ch), {group}, SharedGroup(ch) = "none">>

(* calc_cookie_signature over the second ClientHello gives the same.        *)
CookieVerifies(ch) == ch.cookie[2] = Random(ch) /\ ch.cookie[3] = {SharedGroup(ch)}

(* Mutation: resumption although the server wants a client certificate.     *)
TriesPsk_with_auth(ch) == ~SecondFlight(ch) /\ {"psk", "ke_modes"} \subseteq ch.has

(* server_handle_hello calls try_psk_handshake; it finds the ticket; the    *)
(* binder is right.                                                         *)
TriesPsk(ch) ==
    /\ ~SecondFlight(ch)
    /\ {"psk", "ke_modes"} \subseteq ch.has
    /\ ~cfg.require_client_authentication
FindsPsk(ch) == TriesPsk(ch) /\ cfg.ticket \in {"valid", "late", "mismatch"}
BinderVerifies(ch) ==
    ch.mac = Mac(Secret("res_binder", <<"psk">>, transcript["server"]),
                 Append(transcript["server"], View(ch)))

AcceptsEarlyData(ch) ==
    FindsPsk(ch) /\ "early_data" \in ch.has /\ cfg.ticket # "late" /\ cfg.max_early_data_size

(* The error with which server_handle_hello returns before it sets a key.   *)
HelloError(ch) ==
    IF Stateful /\ "early_data" \in ch.has THEN "DECODE_ERROR"
    ELSE IF \/ Stateful /\ Random(ch) # transcript["server"][1][2] \cap {"random"}
            \/ CookieFlight(ch) /\ ~CookieVerifies(ch)
            \/ NeedsRetry(ch) /\ "nocommon" \in ch.has
            \/ Stateful /\ SharedGroup(ch) = "none" THEN "HANDSHAKE_FAILURE"
    ELSE IF ~NeedsRetry(ch) /\ FindsPsk(ch) /\ ~BinderVerifies(ch) THEN "DECRYPT_ERROR"
    ELSE "none"

ServerTakes(type) ==
    /\ Accepts("server")
    /\ First("server").msg.type = type
    /\ type \in Expected[state["server"]]

ServerRejectsHello ==
    LET ch == First("server").msg
    IN  /\ ServerTakes("CH")
        /\ HelloError(ch) # "none"
        /\ Fail("server", HelloError(ch))
        /\ UNCHANGED failedAsserts

(* server_handle_hello: stateful HelloRetryRequest.                         *)
ServerRetry ==
    LET ch == First("server").msg
        hrr == Plain("HRR", RetryExtensions(SharedGroup(ch) = "none", <<>>))
        ccs == "legacy_session_id" \in ch.has
    IN  /\ ServerTakes("CH")
        /\ NeedsRetry(ch)
        /\ HelloError(ch) = "none"
        /\ ~cfg.retry_uses_cookie
        /\ Check([retry_generation |-> Len(sched["server"]) = 0])
        /\ sched' = [sched EXCEPT !["server"] = Append(@, "0")]
        /\ transcript' = [transcript EXCEPT !["server"] =
                             Hash(ch1hash(Append(@, View(ch))), <<hrr>>)]
        /\ sendbuf' = [sendbuf EXCEPT !["server"] = @ \o Records(NoKey, <<hrr>>) \o CCS(ccs)]
        /\ state' = [state EXCEPT !["server"] = "SERVER_EXPECT_SECOND_CLIENT_HELLO"]
        /\ early_data_skipped_bytes' =
              IF "early_data" \in ch.has THEN 0 ELSE early_data_skipped_bytes
        /\ Consume("server")
        /\ UNCHANGED <<cfg, keys, is_psk_handshake, send_change_cipher_spec, clientVars,
                       pending_traffic_secret, ret, appVars, faults>>

(* server_handle_hello: HelloRetryRequest with a cookie.  The call returns  *)
(* PTLS_ERROR_STATELESS_RETRY; the application sends what it wrote, frees   *)
(* the object and reads on with a new one, so nothing of it changes here.   *)
ServerStatelessRetry ==
    LET ch == First("server").msg
        cookie == Cookie(ch, "group1")
        hrr == Message("HRR", RetryExtensions(SharedGroup(ch) = "none", cookie), <<>>, cookie)
        ccs == "legacy_session_id" \in ch.has
    IN  /\ ServerTakes("CH")
        /\ NeedsRetry(ch)
        /\ HelloError(ch) = "none"
        /\ cfg.retry_uses_cookie
        /\ Check([retry_generation |-> Len(sched["server"]) = 0])
        /\ wire' = [client |-> Tail(wire["client"]),
                    server |-> wire["server"] \o Records(NoKey, <<hrr>>) \o CCS(ccs)]
        /\ UNCHANGED <<cfg, state, schedule, keys, is_psk_handshake, send_change_cipher_spec,
                       clientVars, serverVars, ret, sendbuf, appVars, faults>>

(* The parts of the server's flight, after the ClientHello's first checks.  *)
Dhe(ch) == ~FindsPsk(ch) \/ cfg.require_dhe_on_psk      \* mode # HANDSHAKE_MODE_PSK
(* Mutation: the second flight by cookie does not roll the key schedule.    *)
Base_no_extract(ch) ==
    IF Stateful \/ CookieFlight(ch) THEN sched["server"]
    ELSE <<IF FindsPsk(ch) THEN "psk" ELSE "0">>

Base(ch) == IF Stateful THEN sched["server"] ELSE <<IF FindsPsk(ch) THEN "psk" ELSE "0">>
(* Mutation: the HelloRetryRequest is not rebuilt from the cookie.          *)
Before_no_retry(ch) == IF CookieFlight(ch) THEN ch.cookie[1] ELSE transcript["server"]

Before(ch) == IF CookieFlight(ch)
              THEN Hash(ch.cookie[1], <<Plain("HRR", RetryExtensions(ch.cookie[4], ch.cookie))>>)
              ELSE transcript["server"]
ServerHello(ch) == Plain("SH", If(FindsPsk(ch), "psk") \cup If(Dhe(ch), "key_share"))
AfterHello(ch) == Hash(Before(ch), <<ch, ServerHello(ch)>>)
HandshakeSched(ch) == Append(Base(ch), IF Dhe(ch) THEN "dhe" ELSE "0")
HandshakeSecret(ch, label) == Secret(label, HandshakeSched(ch), AfterHello(ch))

(* Mutation: accepted early data is not announced.                          *)
Extensions_no_early(ch) ==
    <<Plain("EE", {})>>
        \o When(~FindsPsk(ch) /\ cfg.require_client_authentication, Plain("CR", {}))

(* EncryptedExtensions and, in a full handshake, CertificateRequest.        *)
Extensions(ch) ==
    <<Plain("EE", If(AcceptsEarlyData(ch), "early_data"))>>
        \o When(~FindsPsk(ch) /\ cfg.require_client_authentication, Plain("CR", {}))

(* Mutation: EndOfEarlyData is forgotten.                                   *)
Predicted_no_eoed(th, early) == Hash(th, <<Plain("FIN", {})>>)

(* The transcript send_session_ticket expects the client's flight to give;  *)
(* it is hashed on a copy, the running hash is restored.                    *)
Predicted(th, early) == Hash(th, When(early, Plain("EOED", {})) \o <<Plain("FIN", {})>>)

(* server_handle_hello when signing fails: the handshake key is already set *)
(* and has sealed the extensions and the Certificate.                       *)
ServerSignFails ==
    LET ch == First("server").msg
    IN  /\ ServerTakes("CH")
        /\ ~NeedsRetry(ch)
        /\ HelloError(ch) = "none"
        /\ ~FindsPsk(ch)
        /\ cfg.server_certificate = "signfails"
        /\ FailWith("server", "HANDSHAKE_FAILURE",
                    Advance(Key(HandshakeSecret(ch, "s_hs_traffic")), Len(Extensions(ch)) + 1))
        /\ UNCHANGED <<early_data_skipped_bytes, failedAsserts>>

(* server_handle_hello to its end: the whole flight from ServerHello to     *)
(* Finished, the keys, and send_session_ticket.                             *)
server_handle_hello ==
    LET ch == First("server").msg
        early == AcceptsEarlyData(ch)
        hskey == Key(HandshakeSecret(ch, "s_hs_traffic"))
        th1 == Hash(AfterHello(ch), Extensions(ch))
        certs == IF FindsPsk(ch) THEN <<>> ELSE Certificates("server", cfg.server_certificate, th1)
        th2 == Hash(th1, certs)
        fin == send_finished(hskey.secret, th2)
        th3 == Hash(th2, <<fin>>)
        ikm == Append(HandshakeSched(ch), "0")
        apkey == Key(Secret("s_ap_traffic", ikm, th3))
        nst == When("ke_modes" \in ch.has /\ cfg.ticket_lifetime,
                    Message("NST", {}, ResumptionSecret(ikm, Predicted(th3, early)), <<>>))
        ccs == ~Stateful /\ "legacy_session_id" \in ch.has
    IN  /\ ServerTakes("CH")
        /\ ~NeedsRetry(ch)
        /\ HelloError(ch) = "none"
        /\ ~FindsPsk(ch) => cfg.server_certificate # "signfails"
        /\ Check([full_generation |-> ~FindsPsk(ch) /\ ~SecondFlight(ch) => Len(sched["server"]) = 0,
                  hs_generation |-> Len(Base(ch)) = 1])
        /\ is_psk_handshake' = [is_psk_handshake EXCEPT !["server"] = FindsPsk(ch)]
        /\ sched' = [sched EXCEPT !["server"] = ikm]
        /\ transcript' = [transcript EXCEPT !["server"] = th3]
        /\ IF early
           THEN /\ dec' = [dec EXCEPT !["server"] =
                              Key(Secret("c_e_traffic", Base(ch), Hash(Before(ch), <<ch>>)))]
                /\ pending_handshake_secret' = [pending_handshake_secret EXCEPT !["server"] =
                                                   HandshakeSecret(ch, "c_hs_traffic")]
                /\ UNCHANGED early_data_skipped_bytes
           ELSE /\ dec' = [dec EXCEPT !["server"] = Key(HandshakeSecret(ch, "c_hs_traffic"))]
                /\ early_data_skipped_bytes' =
                      IF "early_data" \in ch.has THEN 0 ELSE early_data_skipped_bytes
                /\ UNCHANGED pending_handshake_secret
        /\ sendbuf' = [sendbuf EXCEPT !["server"] =
                          @ \o Records(NoKey, <<ServerHello(ch)>>) \o CCS(ccs)
                            \o Records(hskey, Extensions(ch) \o certs \o <<fin>>)
                            \o Records(apkey, nst)]
        /\ enc' = [enc EXCEPT !["server"] = Advance(apkey, Len(nst))]
        /\ pending_traffic_secret' = Secret("c_ap_traffic", ikm, th3)
        /\ state' = [state EXCEPT !["server"] =
                        IF early THEN "SERVER_EXPECT_END_OF_EARLY_DATA"
                        ELSE IF cfg.require_client_authentication THEN "SERVER_EXPECT_CERTIFICATE"
                        ELSE "SERVER_EXPECT_FINISHED"]
        /\ Return("server", IF cfg.require_client_authentication THEN "IN_PROGRESS" ELSE "OK")
        /\ Consume("server")
        /\ UNCHANGED <<cfg, send_change_cipher_spec, clientVars, appVars, faults>>

(* server_handle_end_of_early_data, with commission_handshake_secret.       *)
server_handle_end_of_early_data ==
    /\ ServerTakes("EOED")
    /\ Check([commission_pending |-> pending_handshake_secret["server"] # NoSecret])
    /\ dec' = [dec EXCEPT !["server"] =
                  commission_handshake_secret(pending_handshake_secret["server"])]
    /\ pending_handshake_secret' = [pending_handshake_secret EXCEPT !["server"] = NoSecret]
    /\ transcript' = [transcript EXCEPT !["server"] = Append(@, View(First("server").msg))]
    /\ state' = [state EXCEPT !["server"] = "SERVER_EXPECT_FINISHED"]
    /\ Return("server", "IN_PROGRESS")
    /\ Consume("server")
    /\ UNCHANGED <<cfg, sched, enc, is_psk_handshake, send_change_cipher_spec, clientVars,
                   serverVars, sendbuf, appVars, faults>>

(* The client's Certificate and CertificateVerify.                          *)
ServerStep(next) ==
    /\ transcript' = [transcript EXCEPT !["server"] = Append(@, View(First("server").msg))]
    /\ dec' = [dec EXCEPT !["server"] = Advance(@, 1)]
    /\ state' = [state EXCEPT !["server"] = next]
    /\ Return("server", "IN_PROGRESS")
    /\ Consume("server")
    /\ UNCHANGED <<cfg, sched, enc, pending_handshake_secret, is_psk_handshake,
                   send_change_cipher_spec, clientVars, serverVars, sendbuf, appVars, faults,
                   failedAsserts>>

server_handle_certificate ==
    /\ ServerTakes("CERT")
    /\ First("server").msg.has = {"ok"}
    /\ ServerStep("SERVER_EXPECT_CERTIFICATE_VERIFY")

server_handle_certificate_verify ==
    /\ ServerTakes("CV")
    /\ First("server").msg.mac = Signature("client", transcript["server"])
    /\ ServerStep("SERVER_EXPECT_FINISHED")

(* Mutation: the read key is not replaced by the 1-RTT key.                 *)
server_handle_finished_old_key ==
    /\ ServerTakes("FIN")
    /\ FinishedVerifies("server")
    /\ dec' = [dec EXCEPT !["server"] = Advance(@, 1)]
    /\ pending_traffic_secret' = NoSecret
    /\ transcript' = [transcript EXCEPT !["server"] = Append(@, View(First("server").msg))]
    /\ state' = [state EXCEPT !["server"] = "SERVER_POST_HANDSHAKE"]
    /\ Return("server", "OK")
    /\ Consume("server")
    /\ UNCHANGED <<cfg, sched, enc, pending_handshake_secret, is_psk_handshake,
                   send_change_cipher_spec, clientVars, early_data_skipped_bytes, sendbuf,
                   appVars, faults, failedAsserts>>

server_handle_finished ==
    /\ ServerTakes("FIN")
    /\ FinishedVerifies("server")
    /\ dec' = [dec EXCEPT !["server"] = Key(pending_traffic_secret)]
    /\ pending_traffic_secret' = NoSecret
    /\ transcript' = [transcript EXCEPT !["server"] = Append(@, View(First("server").msg))]
    /\ state' = [state EXCEPT !["server"] = "SERVER_POST_HANDSHAKE"]
    /\ Return("server", "OK")
    /\ Consume("server")
    /\ UNCHANGED <<cfg, sched, enc, pending_handshake_secret, is_psk_handshake,
                   send_change_cipher_spec, clientVars, early_data_skipped_bytes, sendbuf,
                   appVars, faults, failedAsserts>>

ServerError ==
    LET m == First("server").msg
        code == CASE m.type = "CERT" /\ m.has = {"none"} -> "CERTIFICATE_REQUIRED"
                  [] m.type = "CERT" /\ m.has = {"bad"} -> "BAD_CERTIFICATE"
                  [] m.type = "CV" /\ m.mac # Signature("client", transcript["server"]) -> "DECRYPT_ERROR"
                  [] m.type = "FIN" /\ ~FinishedVerifies("server") -> "HANDSHAKE_FAILURE"
                  [] OTHER -> "none"
    IN  /\ \E type \in {"CERT", "CV", "FIN"} : ServerTakes(type)
        /\ code # "none"
        /\ Fail("server", code)
        /\ UNCHANGED failedAsserts

-----------------------------------------------------------------------------
(***************************************************************************)
(* The applications and the network.                                       *)
(***************************************************************************)

Sends(s, m) ==
    /\ Check([ptls_send_aead |-> enc[s].aead])
    /\ wire' = [wire EXCEPT ![s] = @ \o Records(enc[s], <<m>>)]
    /\ enc' = [enc EXCEPT ![s] = Advance(@, 1)]
    /\ UNCHANGED <<cfg, state, schedule, dec, pending_handshake_secret, is_psk_handshake,
                   send_change_cipher_spec, clientVars, serverVars, ret, sendbuf, saved,
                   earlyGot, got, faults>>

(* The client application may send early data: as many records as           *)
(* max_early_data_size leaves.                                              *)
SendEarlyData ==
    /\ state["client"] \in ClientHandshake \ {"CLIENT_HANDSHAKE_START"}
    /\ ret["client"] = "IN_PROGRESS"
    /\ sendbuf["client"] = <<>>
    /\ earlySent < max_early_data_size
    /\ earlySent' = earlySent + 1
    /\ Sends("client", Plain("DATA", {}))
    /\ UNCHANGED sent

(* ptls_send once ptls_handshake has returned 0.                            *)
ptls_send(s) ==
    /\ ret[s] = "OK"
    /\ sendbuf[s] = <<>>
    /\ sent[s] < MaxData
    /\ sent' = [sent EXCEPT ![s] = @ + 1]
    /\ Sends(s, Plain("DATA", {}))
    /\ UNCHANGED earlySent

(* The first record on its way from s is altered: a sealed one will not     *)
(* open, a hello carries another random or another ignored extension.       *)
Alter(s) ==
    LET r == wire[s][1]
    IN  /\ faults < cfg.alterations
        /\ wire[s] # <<>>
        /\ faults' = faults + 1
        /\ \/ /\ Sealed(r)
              /\ wire' = [wire EXCEPT ![s][1].seq = -1]
           \/ /\ r.msg.type \in {"CH", "SH", "HRR"}
              /\ \E change \in {"random", "extension"} :
                    /\ r.msg.type = "HRR" => change = "extension"
                    /\ wire' = [wire EXCEPT ![s][1].msg.has = @ \cup {change}]
        /\ UNCHANGED <<cfg, state, schedule, keys, is_psk_handshake, send_change_cipher_spec,
                       clientVars, serverVars, ret, sendbuf, appVars, failedAsserts>>

ClientSteps ==
    \/ send_client_hello
    \/ handle_hello_retry_request
    \/ client_handle_hello
    \/ client_handle_encrypted_extensions
    \/ client_handle_certificate_request
    \/ client_handle_certificate
    \/ client_handle_certificate_verify
    \/ client_handle_finished
    \/ client_handle_new_session_ticket
    \/ ClientError

ServerSteps ==
    \/ ServerRejectsHello
    \/ ServerRetry
    \/ ServerStatelessRetry
    \/ ServerSignFails
    \/ server_handle_hello
    \/ server_handle_end_of_early_data
    \/ server_handle_certificate
    \/ server_handle_certificate_verify
    \/ server_handle_finished
    \/ ServerError
    \/ ServerSkipEarlyData

CommonSteps(s) ==
    Flush(s) \/ HandleCCS(s) \/ handle_alert(s) \/ ReceiveData(s) \/ RejectRecord(s)

Next ==
    \/ ClientSteps
    \/ ServerSteps
    \/ \E s \in Side : CommonSteps(s)
    \/ SendEarlyData
    \/ \E s \in Side : ptls_send(s)
    \/ \E s \in Side : Alter(s)

(* The applications call ptls_handshake and ptls_receive for what arrives   *)
(* and write out what they get; they need not send data of their own.       *)
Fairness ==
    /\ WF_vars(ClientSteps)
    /\ WF_vars(ServerSteps)
    /\ \A s \in Side : WF_vars(CommonSteps(s))

Safety == Init /\ [][Next]_vars
Spec   == Safety /\ Fairness

-----------------------------------------------------------------------------
(***************************************************************************)
(* Properties.                                                             *)
(***************************************************************************)

(* Every variable has the type of the field it stands for.                  *)
TypeOK ==
    /\ cfg \in Config
    /\ state["client"] \in ClientHandshake \cup {"CLIENT_POST_HANDSHAKE"}
    /\ state["server"] \in ServerHandshake \cup {"SERVER_POST_HANDSHAKE"}
    /\ \A s \in Side : /\ Len(sched[s]) <= 3
                       /\ enc[s].seq \in Nat
                       /\ dec[s].seq \in Nat
                       /\ is_psk_handshake[s] \in BOOLEAN
    /\ {send_change_cipher_spec, offered_psk, using_early_data, certificate_request}
          \subseteq BOOLEAN
    /\ early_data_acceptance \in {"UNKNOWN", "REJECTED", "ACCEPTED"}
    /\ early_data_skipped_bytes \in Nat \cup {UINT32_MAX}
    /\ {max_early_data_size, earlySent, earlyGot, faults} \subseteq Nat

(* No assert() of the handshake code fails, on any path: key schedule       *)
(* generations, early keys, pending secrets, and the states in which        *)
(* ptls_handshake, ptls_receive and ptls_send may be called.                *)
AssertsHold ==
    /\ failedAsserts = {}
    /\ \A s \in Side : /\ ret[s] = "IN_PROGRESS" => state[s] \notin PostHandshake
                       /\ ret[s] = "OK" => state[s] \in MayReceive

Complete(s) == state[s] \in PostHandshake

(* An endpoint that completes agrees with its peer.  When the client has    *)
(* verified the server's Finished, both have the same key schedule, mode    *)
(* and read/write secret, and the server hashed exactly what the client     *)
(* did; when the server has verified the client's Finished, the client is   *)
(* complete and both transcripts and both directions' secrets are equal.    *)
Agreement ==
    /\ Complete("client") =>
          /\ sched["client"] = sched["server"]
          /\ is_psk_handshake["client"] = is_psk_handshake["server"]
          /\ dec["client"].secret = enc["server"].secret
          /\ Len(transcript["server"]) <= Len(transcript["client"])
          /\ transcript["server"] =
                SubSeq(transcript["client"], 1, Len(transcript["server"]))
    /\ Complete("server") =>
          /\ Complete("client")
          /\ transcript["client"] = transcript["server"]
          /\ enc["client"].secret = dec["server"].secret

(* A completed handshake rests on a PSK both sides hold or on a certificate *)
(* and a signature that were verified, and with                             *)
(* require_client_authentication the server verified the client's as well.  *)
Authenticated ==
    /\ Complete("client") =>
          IF is_psk_handshake["client"] THEN cfg.ticket \in {"valid", "late"}
          ELSE cfg.server_certificate = "ok"
    /\ Complete("server") /\ cfg.require_client_authentication =>
          cfg.client_certificate = "ok" /\ ~is_psk_handshake["server"]

(* What the client is told about its early data is what became of it: none  *)
(* was delivered if it reads PTLS_EARLY_DATA_REJECTED, and all of it was,   *)
(* before the handshake completed, if it reads PTLS_EARLY_DATA_ACCEPTED.    *)
EarlyDataOutcome ==
    /\ early_data_acceptance = "REJECTED" => earlyGot = 0
    /\ early_data_acceptance = "ACCEPTED" /\ Complete("server") => earlyGot = earlySent

(* The PSK in a ticket, which send_session_ticket derives before the        *)
(* client's flight, is the one the client derives when it stores it.        *)
TicketAgreement == saved # <<>> => saved[1] = saved[2]

(* What the two configurations allow: a common group, certificates that     *)
(* verify, a PSK that matches if the server gets to look at it, and no      *)
(* 0-RTT data left on the wire for the new object of a stateless retry.     *)
Retries == cfg.enforce_retry \/ cfg.key_share \in {"alien", "none"}
Compatible ==
    /\ cfg.key_share # "nocommon"
    /\ cfg.server_certificate = "ok"
    /\ cfg.require_client_authentication => cfg.client_certificate = "ok"
    /\ cfg.ticket = "mismatch" => Retries \/ cfg.require_client_authentication
    /\ Retries /\ cfg.retry_uses_cookie => ~cfg.early_data /\ cfg.key_share # "group2"
    /\ cfg.early_limit <= SKIP_LIMIT

(* With compatible configurations and an honest network no call fails,      *)
(* whatever the interleaving of early data, retries, tickets and alerts.    *)
HonestNeverFails ==
    Compatible /\ faults = 0 => \A s \in Side : ret[s] \in {"IN_PROGRESS", "OK"}

(* ... and both endpoints complete the handshake.                           *)
Completes ==
    Compatible /\ cfg.alterations = 0 ~> (Complete("client") /\ Complete("server"))

(* No endpoint is left waiting in ptls_handshake, whatever the              *)
(* configurations: it completes, fails or is told by an alert.              *)
Terminates ==
    \A s \in Side : cfg.alterations = 0 ~> ret[s] # "IN_PROGRESS"

(* "encrypt the alert if we have the encryption keys, unless when it is the *)
(* early data key" (ptls_send_alert).                                       *)
AlertsSealed ==
    \A s \in Side : \A i \in DOMAIN sendbuf[s] :
        /\ sendbuf[s][i].msg.type = "ALERT"
        /\ enc[s].aead
        /\ enc[s].secret.label # "c_e_traffic"
        => Sealed(sendbuf[s][i])

=============================================================================
