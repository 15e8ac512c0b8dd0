-------------------------- MODULE HandshakeProofs --------------------------
(***************************************************************************)
(* The handshake, for all configurations: its variables have their types   *)
(* and its assertions hold, because of what each state says about the      *)
(* object it is the state of.                                              *)
(***************************************************************************)
EXTENDS Handshake, TLAPS

Errors   == {"HANDSHAKE_FAILURE", "UNEXPECTED_MESSAGE", "BAD_RECORD_MAC", "ILLEGAL_PARAMETER",
             "BAD_CERTIFICATE", "DECRYPT_ERROR", "CERTIFICATE_REQUIRED", "DECODE_ERROR",
             "PEER_ALERT"}
States   == ClientHandshake \cup ServerHandshake \cup PostHandshake

(* Labels and inputs of secrets, types of messages, extensions and other    *)
(* things in messages, and what calls return.                               *)
Names    == {"none", "res_binder", "c_e_traffic", "c_hs_traffic", "s_hs_traffic", "c_ap_traffic",
             "s_ap_traffic", "res_master", "client", "server"}
            \cup {"0", "psk", "other_psk", "dhe"}
            \cup {"CH", "SH", "HRR", "EE", "CR", "CERT", "CV", "FIN", "NST", "EOED", "DATA",
                  "ALERT", "CCS", "message_hash"}
            \cup {"ke_modes", "legacy_session_id", "early_data", "group1", "group2", "alien",
                  "nocommon", "key_share", "cookie", "random", "extension"}
            \cup {"ok", "bad", "unsigned", "signfails", "OK", "IN_PROGRESS"} \cup Errors
Views    == Names \X (SUBSET Names)
Secrets  == [label : Names, ikm : Seq(Names), th : Seq(Views)]
Keys     == [aead : BOOLEAN, secret : Secrets, seq : Nat]
Macs     == {<<>>} \cup (Secrets \X Seq(Views))
Cookies  == {<<>>} \cup (Seq(Views) \X (SUBSET Names) \X (SUBSET Names) \X BOOLEAN)
Messages == [type : Names, has : SUBSET Names, mac : Macs, cookie : Cookies]
Recs     == [secret : Secrets, seq : Int, msg : Messages]

TypeInv ==
    /\ cfg \in Configs
    /\ state \in [Side -> States]
    /\ sched \in [Side -> Seq(Names)] /\ transcript \in [Side -> Seq(Views)]
    /\ enc \in [Side -> Keys] /\ dec \in [Side -> Keys]
    /\ pending_handshake_secret \in [Side -> Secrets] /\ pending_traffic_secret \in Secrets
    /\ is_psk_handshake \in [Side -> BOOLEAN]
    /\ send_change_cipher_spec \in BOOLEAN /\ offered_psk \in BOOLEAN
    /\ using_early_data \in BOOLEAN /\ certificate_request \in BOOLEAN
    /\ early_data_acceptance \in {"UNKNOWN", "REJECTED", "ACCEPTED"}
    /\ early_data_skipped_bytes \in Nat \cup {UINT32_MAX}
    /\ max_early_data_size \in Nat /\ earlySent \in Nat /\ earlyGot \in Nat /\ faults \in Nat
    /\ ret \in [Side -> Names]
    /\ sendbuf \in [Side -> Seq(Recs)] /\ wire \in [Side -> Seq(Recs)]

ClientHellos == {"CLIENT_EXPECT_SERVER_HELLO", "CLIENT_EXPECT_SECOND_SERVER_HELLO"}
ClientFlight == {"CLIENT_EXPECT_ENCRYPTED_EXTENSIONS",
                 "CLIENT_EXPECT_CERTIFICATE_REQUEST_OR_CERTIFICATE",
                 "CLIENT_EXPECT_CERTIFICATE", "CLIENT_EXPECT_CERTIFICATE_VERIFY",
                 "CLIENT_EXPECT_FINISHED"}
ServerHellos == {"SERVER_EXPECT_CLIENT_HELLO", "SERVER_EXPECT_SECOND_CLIENT_HELLO"}

(* What the state says of the object it is the state of.                    *)
ClientInv ==
    LET st == state["client"] IN
    /\ st \in {"CLIENT_HANDSHAKE_START", "CLIENT_POST_HANDSHAKE"} \cup ClientHellos \cup ClientFlight
    /\ st = "CLIENT_HANDSHAKE_START" => sched["client"] = <<>>
    /\ st \in ClientHellos => Len(sched["client"]) = 1
    /\ st \in ClientFlight => Len(sched["client"]) = 2
    /\ st = "CLIENT_POST_HANDSHAKE" =>
         /\ Len(sched["client"]) = 3 /\ enc["client"].aead /\ ret["client"] # "IN_PROGRESS"
    /\ st # "CLIENT_HANDSHAKE_START" => transcript["client"] # <<>>
    /\ st # "CLIENT_POST_HANDSHAKE" => ret["client"] # "OK"
    /\ st \notin ClientFlight => pending_handshake_secret["client"] = NoSecret
    /\ using_early_data \/ pending_handshake_secret["client"] # NoSecret
         \/ max_early_data_size > 0 => enc["client"].aead

ServerInv ==
    LET st == state["server"] IN
    /\ st \in ServerHandshake \cup {"SERVER_POST_HANDSHAKE"}
    /\ st = "SERVER_EXPECT_CLIENT_HELLO" => sched["server"] = <<>>
    /\ st = "SERVER_EXPECT_SECOND_CLIENT_HELLO" => Len(sched["server"]) = 1
    /\ st \notin ServerHellos => Len(sched["server"]) = 3 /\ enc["server"].aead
    /\ ret["server"] = "OK" => st \in MayReceive
    /\ st \in {"SERVER_EXPECT_END_OF_EARLY_DATA", "SERVER_POST_HANDSHAKE"} =>
         ret["server"] # "IN_PROGRESS"
    /\ st = "SERVER_EXPECT_END_OF_EARLY_DATA" => pending_handshake_secret["server"] # NoSecret

(* Nothing happens before the client's first call.                          *)
QuietInv ==
    state["client"] = "CLIENT_HANDSHAKE_START" =>
        /\ state["server"] = "SERVER_EXPECT_CLIENT_HELLO"
        /\ \A s \in Side : sendbuf[s] = <<>> /\ wire[s] = <<>>

LocalInv == TypeInv /\ ClientInv /\ ServerInv /\ QuietInv /\ failedAsserts = {}

(* The records on their way from s, and what the end of a server's flight   *)
(* and of a client's adds to the running hash.                              *)
Elems(q) == {q[i] : i \in 1..Len(q)}
InFlight(s) == Elems(sendbuf[s]) \cup Elems(wire[s])
FinView == <<"FIN", {}>>
-----------------------------------------------------------------------------
(* What the operators of the model return.                                  *)
LEMMA Sides == /\ "client" \in Side /\ "server" \in Side /\ "client" # "server"
               /\ Peer("client") = "server" /\ Peer("server") = "client"
               /\ \A s \in Side : Peer(s) \in Side
BY DEF Side, Peer

LEMMA NamesAre ==
  /\ {"none", "res_binder", "c_e_traffic", "c_hs_traffic", "s_hs_traffic", "c_ap_traffic",
      "s_ap_traffic", "res_master", "client", "server"} \subseteq Names
  /\ {"0", "psk", "other_psk", "dhe"} \subseteq Names
  /\ {"CH", "SH", "HRR", "EE", "CR", "CERT", "CV", "FIN", "NST", "EOED", "DATA", "ALERT", "CCS",
      "message_hash"} \subseteq Names
  /\ {"ke_modes", "legacy_session_id", "early_data", "group1", "group2", "alien", "nocommon",
      "key_share", "cookie", "random", "extension"} \subseteq Names
  /\ {"ok", "bad", "unsigned", "signfails", "OK", "IN_PROGRESS"} \subseteq Names
  /\ Errors \subseteq Names
BY DEF Names

LEMMA KeyTypes ==
  /\ NoSecret \in Secrets /\ NoKey \in Keys /\ ~NoKey.aead
  /\ \A secret \in Secrets : Key(secret) \in Keys /\ Key(secret).aead /\ Key(secret).seq = 0
                             /\ Key(secret).secret = secret
  /\ \A key \in Keys, n \in Nat : /\ Advance(key, n) \in Keys
                                  /\ Advance(key, n).aead = key.aead
                                  /\ Advance(key, n).secret = key.secret
                                  /\ key.aead => Advance(key, n).seq = key.seq + n
<1>1. <<>> \in Seq(Names) /\ <<>> \in Seq(Views)
  OBVIOUS
<1>2. NoSecret \in Secrets
  BY <1>1, NamesAre DEF NoSecret, Secret, Secrets
<1>3. NoKey \in Keys /\ ~NoKey.aead
  BY <1>2 DEF NoKey, Keys
<1>4. \A secret \in Secrets : Key(secret) \in Keys /\ Key(secret).aead /\ Key(secret).seq = 0
                              /\ Key(secret).secret = secret
  BY DEF Key, Keys
<1>5. ASSUME NEW key \in Keys, NEW n \in Nat
      PROVE  /\ Advance(key, n) \in Keys
             /\ Advance(key, n).aead = key.aead
             /\ Advance(key, n).secret = key.secret
             /\ key.aead => Advance(key, n).seq = key.seq + n
  <2>1. key.aead \in BOOLEAN /\ key.secret \in Secrets /\ key.seq \in Nat /\ key.seq + n \in Nat
    BY DEF Keys
  <2>. QED  BY <2>1 DEF Advance, Keys
<1>. QED  BY <1>2, <1>3, <1>4, <1>5

LEMMA MessageTypes ==
  /\ \A type \in Names, has \in SUBSET Names, mac \in Macs, cookie \in Cookies :
       Message(type, has, mac, cookie) \in Messages
  /\ \A type \in Names, has \in SUBSET Names : Plain(type, has) \in Messages
  /\ \A m \in Messages : View(m) \in Views
  /\ \A secret \in Secrets, th \in Seq(Views) : Mac(secret, th) \in Macs
<1>1. <<>> \in Macs /\ <<>> \in Cookies
  BY DEF Macs, Cookies
<1>. QED  BY <1>1 DEF Message, Plain, Messages, View, Views, Mac, Macs

LEMMA RecordsType ==
  ASSUME NEW key \in Keys, NEW msgs \in Seq(Messages)
  PROVE  /\ Records(key, msgs) \in Seq(Recs) /\ Len(Records(key, msgs)) = Len(msgs)
         /\ \A i \in 1..Len(msgs) :
              /\ Records(key, msgs)[i].secret = key.secret
              /\ Records(key, msgs)[i].seq = key.seq + i - 1
              /\ Records(key, msgs)[i].msg = msgs[i]
<1>1. Len(msgs) \in Nat /\ \A i \in 1..Len(msgs) : msgs[i] \in Messages
  OBVIOUS
<1>2. \A i \in 1..Len(msgs) : key.seq + i - 1 \in Int
  BY DEF Keys
<1>3. \A i \in 1..Len(msgs) :
        [secret |-> key.secret, seq |-> key.seq + i - 1, msg |-> msgs[i]] \in Recs
  BY <1>1, <1>2 DEF Keys, Recs
<1>. QED  BY <1>1, <1>3 DEF Records

LEMMA OneRecord ==
  ASSUME NEW key \in Keys, NEW m \in Messages
  PROVE  /\ Records(key, <<m>>) = <<[secret |-> key.secret, seq |-> key.seq, msg |-> m]>>
         /\ [secret |-> key.secret, seq |-> key.seq, msg |-> m] \in Recs
         /\ Records(key, <<m>>) \in Seq(Recs)
<1>1. key.seq \in Int /\ key.seq + 1 - 1 = key.seq /\ key.secret \in Secrets
  BY DEF Keys
<1>2. \A i \in 1..1 : i = 1
  OBVIOUS
<1>3. Len(<<m>>) = 1 /\ <<m>>[1] = m
  OBVIOUS
<1>4. [i \in 1..1 |-> [secret |-> key.secret, seq |-> key.seq + i - 1, msg |-> <<m>>[i]]]
        = <<[secret |-> key.secret, seq |-> key.seq, msg |-> m]>>
  BY <1>1, <1>2, <1>3
<1>5. [secret |-> key.secret, seq |-> key.seq, msg |-> m] \in Recs
  BY <1>1 DEF Recs
<1>6. Records(key, <<m>>) = <<[secret |-> key.secret, seq |-> key.seq, msg |-> m]>>
  BY <1>3, <1>4 DEF Records
<1>7. \A r \in Recs : <<r>> \in Seq(Recs)
  OBVIOUS
<1>. QED  BY <1>5, <1>6, <1>7

LEMMA HashType ==
  ASSUME NEW th \in Seq(Views), NEW msgs \in Seq(Messages)
  PROVE  /\ Hash(th, msgs) \in Seq(Views) /\ Len(Hash(th, msgs)) = Len(th) + Len(msgs)
         /\ \A i \in 1..Len(th) : Hash(th, msgs)[i] = th[i]
         /\ \A i \in 1..Len(msgs) : Hash(th, msgs)[Len(th) + i] = View(msgs[i])
<1>. DEFINE views == [i \in 1..Len(msgs) |-> View(msgs[i])]
<1>1. Len(msgs) \in Nat /\ \A i \in 1..Len(msgs) : msgs[i] \in Messages
  OBVIOUS
<1>2. \A i \in 1..Len(msgs) : View(msgs[i]) \in Views
  BY <1>1, MessageTypes
<1>3. /\ views \in Seq(Views) /\ Len(views) = Len(msgs)
      /\ \A i \in 1..Len(msgs) : views[i] = View(msgs[i])
  BY <1>1, <1>2
<1>. HIDE DEF views
<1>4. /\ th \o views \in Seq(Views) /\ Len(th \o views) = Len(th) + Len(views)
      /\ \A i \in 1..Len(th) : (th \o views)[i] = th[i]
      /\ \A i \in 1..Len(views) : (th \o views)[Len(th) + i] = views[i]
  BY <1>3, SMTT(30)
<1>5. Hash(th, msgs) = th \o views
  BY DEF Hash, views
<1>. QED  BY <1>3, <1>4, <1>5

LEMMA HashOne ==
  ASSUME NEW th \in Seq(Views), NEW m \in Messages
  PROVE  Hash(th, <<m>>) = Append(th, View(m))
<1>1. [i \in 1..Len(<<m>>) |-> View(<<m>>[i])] = <<View(m)>>
  OBVIOUS
<1>2. View(m) \in Views
  BY MessageTypes
<1>. QED  BY <1>1, <1>2 DEF Hash

LEMMA CCSType ==
  ASSUME NEW cond \in BOOLEAN
  PROVE  /\ CCS(cond) \in Seq(Recs)
         /\ \A i \in 1..Len(CCS(cond)) : CCS(cond)[i].msg = Plain("CCS", {})
<1>1. Plain("CCS", {}) \in Messages
  <2>1. "CCS" \in Names /\ {} \in SUBSET Names
    BY NamesAre
  <2>. QED  BY <2>1, MessageTypes
<1>2. CCS(cond) = IF cond THEN <<[secret |-> NoKey.secret, seq |-> NoKey.seq,
                                    msg |-> Plain("CCS", {})]>> ELSE <<>>
  BY <1>1, KeyTypes, OneRecord DEF CCS
<1>3. [secret |-> NoKey.secret, seq |-> NoKey.seq, msg |-> Plain("CCS", {})] \in Recs
  BY <1>1, KeyTypes, OneRecord
<1>. QED  BY <1>2, <1>3

LEMMA CertificatesType ==
  ASSUME NEW s \in Names, NEW certificate \in Names, NEW th \in Seq(Views)
  PROVE  LET c    == Certificates(s, certificate, th)
             cert == Plain("CERT", {IF certificate \in {"none", "bad"} THEN certificate ELSE "ok"})
         IN  /\ c \in Seq(Messages) /\ Len(c) \in {1, 2}
             /\ c[1] = cert
             /\ Len(c) = 2 => /\ c[2].type = "CV" /\ c[2].has = {}
                              /\ certificate \in {"ok", "bad"}
<1>. DEFINE cert == Plain("CERT", {IF certificate \in {"none", "bad"} THEN certificate ELSE "ok"})
            cv   == Message("CV", {}, Signature(s, Append(th, View(cert))), <<>>)
<1>1. cert \in Messages /\ View(cert) \in Views
  <2>1. "CERT" \in Names
        /\ {IF certificate \in {"none", "bad"} THEN certificate ELSE "ok"} \in SUBSET Names
    BY NamesAre
  <2>2. cert \in Messages
    BY <2>1, MessageTypes
  <2>. QED  BY <2>2, MessageTypes
<1>. HIDE DEF cert
<1>2. Append(th, View(cert)) \in Seq(Views)
  BY <1>1
<1>3. Signature(s, Append(th, View(cert))) \in Macs
  <2>1. Secret(s, <<>>, <<>>) \in Secrets
    BY DEF Secret, Secrets
  <2>. QED  BY <1>2, <2>1, MessageTypes DEF Signature
<1>4. cv \in Messages
  <2>1. <<>> \in Cookies /\ "CV" \in Names /\ {} \in SUBSET Names
    BY NamesAre DEF Cookies
  <2>. QED  BY <1>3, <2>1, MessageTypes
<1>5. cv.type = "CV" /\ cv.has = {}
  BY DEF Message
<1>. HIDE DEF cv
<1>6. Certificates(s, certificate, th) =
        <<cert>> \o (IF certificate \in {"ok", "bad"} THEN <<cv>> ELSE <<>>)
  BY DEF Certificates, When, cert, cv
<1>7. <<cert>> \o <<>> = <<cert>>
  BY <1>1
<1>8. /\ <<cert>> \o <<cv>> \in Seq(Messages) /\ Len(<<cert>> \o <<cv>>) = 2
      /\ (<<cert>> \o <<cv>>)[1] = cert /\ (<<cert>> \o <<cv>>)[2] = cv
  BY <1>1, <1>4
<1>. QED  BY <1>1, <1>4, <1>5, <1>6, <1>7, <1>8 DEF cert
-----------------------------------------------------------------------------
(* Types, assertions and what the states say.                               *)
LEMMA LocalInit == Init => LocalInv
<1>. SUFFICES ASSUME Init PROVE LocalInv
  OBVIOUS
<1>1. state \in [Side -> States]
  BY DEF Init, Side, States, ClientHandshake, ServerHandshake
<1>2. \A s \in Side : /\ sched[s] = <<>> /\ transcript[s] = <<>> /\ enc[s] = NoKey /\ dec[s] = NoKey
                      /\ pending_handshake_secret[s] = NoSecret /\ ret[s] = "IN_PROGRESS"
  BY DEF Init
<1>3. cfg \in Configs /\ cfg.send_change_cipher_spec \in BOOLEAN
  BY ConfigsAssumption DEF Init, Config
<1>4. "IN_PROGRESS" \in Names
  BY NamesAre
<1>5. TypeInv
  <2>1. /\ sched \in [Side -> Seq(Names)] /\ transcript \in [Side -> Seq(Views)]
        /\ sendbuf \in [Side -> Seq(Recs)] /\ wire \in [Side -> Seq(Recs)]
    BY DEF Init
  <2>2. /\ enc \in [Side -> Keys] /\ dec \in [Side -> Keys]
        /\ pending_handshake_secret \in [Side -> Secrets] /\ pending_traffic_secret \in Secrets
    BY KeyTypes DEF Init
  <2>3. is_psk_handshake \in [Side -> BOOLEAN] /\ ret \in [Side -> Names]
    BY <1>4 DEF Init
  <2>4. /\ early_data_acceptance \in {"UNKNOWN", "REJECTED", "ACCEPTED"}
        /\ early_data_skipped_bytes \in Nat \cup {UINT32_MAX}
        /\ max_early_data_size \in Nat /\ earlySent \in Nat /\ earlyGot \in Nat /\ faults \in Nat
    BY DEF Init
  <2>5. /\ send_change_cipher_spec \in BOOLEAN /\ offered_psk \in BOOLEAN
        /\ using_early_data \in BOOLEAN /\ certificate_request \in BOOLEAN
    BY <1>3 DEF Init
  <2>. QED  BY <1>1, <1>3, <2>1, <2>2, <2>3, <2>4, <2>5 DEF TypeInv
<1>6. state["client"] = "CLIENT_HANDSHAKE_START" /\ state["server"] = "SERVER_EXPECT_CLIENT_HELLO"
  BY DEF Init
<1>7. ClientInv
  BY <1>2, <1>6, Sides DEF Init, ClientInv, ClientHellos, ClientFlight
<1>8. ServerInv
  BY <1>2, <1>6, Sides DEF ServerInv, ServerHandshake, ServerHellos
<1>9. QuietInv
  BY <1>6 DEF QuietInv, Init
<1>. QED  BY <1>5, <1>7, <1>8, <1>9 DEF LocalInv, Init

LEMMA ClientKept ==
  ASSUME ClientInv,
         state'["client"] = state["client"], sched'["client"] = sched["client"],
         transcript'["client"] = transcript["client"], ret'["client"] = ret["client"],
         pending_handshake_secret'["client"] = pending_handshake_secret["client"],
         using_early_data' = using_early_data, max_early_data_size' = max_early_data_size,
         enc'["client"].aead = enc["client"].aead
  PROVE  ClientInv'
BY DEF ClientInv

LEMMA ServerKept ==
  ASSUME ServerInv,
         state'["server"] = state["server"], sched'["server"] = sched["server"],
         ret'["server"] = ret["server"],
         pending_handshake_secret'["server"] = pending_handshake_secret["server"],
         enc'["server"].aead = enc["server"].aead
  PROVE  ServerInv'
BY DEF ServerInv

LEMMA Started ==
  ASSUME LocalInv, NEW s \in Side,
         Ready(s) \/ sendbuf[s] # <<>> \/ wire[s] # <<>> \/ ret[s] = "OK"
  PROVE  state["client"] # "CLIENT_HANDSHAKE_START"
<1>1. SUFFICES ASSUME state["client"] = "CLIENT_HANDSHAKE_START" PROVE FALSE
  OBVIOUS
<1>2. ret[s] = "OK"
  BY <1>1, Sides DEF LocalInv, QuietInv, Ready
<1>3. s = "server"
  BY <1>1, <1>2 DEF LocalInv, ClientInv, Side
<1>. QED
  BY <1>1, <1>2, <1>3 DEF LocalInv, QuietInv, ServerInv, MayReceive, PostHandshake

(* Reading a record.                                                        *)
LEMMA ReadTypes ==
  ASSUME TypeInv, NEW s \in Side, wire[Peer(s)] # <<>>
  PROVE  /\ First(s) \in Recs /\ First(s).msg \in Messages /\ First(s) = wire[Peer(s)][1]
         /\ Consume(s) => wire' \in [Side -> Seq(Recs)]
<1>1. wire[Peer(s)] \in Seq(Recs)
  BY Sides DEF TypeInv
<1>2. Tail(wire[Peer(s)]) \in Seq(Recs) /\ wire[Peer(s)][1] \in Recs
  BY <1>1
<1>3. Consume(s) => wire' \in [Side -> Seq(Recs)]
  BY <1>2, Sides DEF Consume, TypeInv
<1>. QED  BY <1>2, <1>3 DEF First, Recs

LEMMA FailLocal ==
  ASSUME LocalInv, NEW s \in Side, NEW code \in Errors, NEW key \in Keys, Ready(s),
         enc[s].aead => key.aead,
         FailWith(s, code, key), failedAsserts' = failedAsserts,
         early_data_skipped_bytes' \in Nat \cup {UINT32_MAX}
  PROVE  LocalInv'
<1>1. wire[Peer(s)] # <<>> /\ TypeInv /\ ClientInv /\ ServerInv /\ ret[s] \in {"IN_PROGRESS", "OK"}
  BY DEF Ready, LocalInv
<1>2. /\ cfg' = cfg /\ state' = state /\ sched' = sched /\ transcript' = transcript /\ dec' = dec
      /\ pending_handshake_secret' = pending_handshake_secret
      /\ is_psk_handshake' = is_psk_handshake
      /\ send_change_cipher_spec' = send_change_cipher_spec
      /\ offered_psk' = offered_psk /\ using_early_data' = using_early_data
      /\ certificate_request' = certificate_request
      /\ early_data_acceptance' = early_data_acceptance
      /\ max_early_data_size' = max_early_data_size
      /\ pending_traffic_secret' = pending_traffic_secret
      /\ earlySent' = earlySent /\ earlyGot' = earlyGot /\ faults' = faults
  BY DEF FailWith, schedule, clientVars, appVars
<1>3. Consume(s) /\ ret' = [ret EXCEPT ![s] = code]
  BY DEF FailWith
<1>4. code \in Names /\ code \notin {"IN_PROGRESS", "OK"}
  BY NamesAre DEF Errors
<1>5. wire' \in [Side -> Seq(Recs)] /\ ret' \in [Side -> Names]
  BY <1>1, <1>3, <1>4, ReadTypes DEF TypeInv
<1>6. AlertKey(s, key) \in Keys
  BY KeyTypes DEF AlertKey
<1>7. Plain("ALERT", {code}) \in Messages
  <2>1. "ALERT" \in Names /\ {code} \in SUBSET Names
    BY <1>4, NamesAre
  <2>. QED  BY <2>1, MessageTypes
<1>8. sendbuf' \in [Side -> Seq(Recs)] /\ enc' \in [Side -> Keys]
  <2>1. Records(AlertKey(s, key), <<Plain("ALERT", {code})>>) \in Seq(Recs)
    BY <1>6, <1>7, OneRecord
  <2>. QED  BY <1>1, <2>1, ZenonT(60) DEF FailWith, TypeInv
<1>9. /\ enc[s].aead => enc'[s].aead
      /\ \A t \in Side : t # s => enc'[t] = enc[t]
  BY <1>1 DEF FailWith, TypeInv
<1>10. TypeInv'
  BY <1>1, <1>2, <1>5, <1>8 DEF TypeInv
<1>11. /\ ret'[s] = code
       /\ \A t \in Side : t # s => ret'[t] = ret[t]
  BY <1>1, <1>3 DEF TypeInv
<1>12. ClientInv'
  <2>1. CASE s = "client"
    BY <1>1, <1>2, <1>4, <1>9, <1>11, <2>1 DEF ClientInv
  <2>2. CASE s # "client"
    BY <1>1, <1>2, <1>9, <1>11, <2>2, Sides, ClientKept
  <2>. QED  BY <2>1, <2>2
<1>13. ServerInv'
  <2>1. CASE s = "server"
    BY <1>1, <1>2, <1>4, <1>9, <1>11, <2>1 DEF ServerInv
  <2>2. CASE s # "server"
    BY <1>1, <1>2, <1>9, <1>11, <2>2, Sides, ServerKept
  <2>. QED  BY <2>1, <2>2
<1>14. QuietInv'
  BY <1>2, Started DEF QuietInv
<1>. QED  BY <1>10, <1>12, <1>13, <1>14 DEF LocalInv

LEMMA FlushLocal ==
  ASSUME LocalInv, NEW s \in Side, Flush(s)
  PROVE  LocalInv'
<1>1. /\ cfg' = cfg /\ state' = state /\ sched' = sched /\ transcript' = transcript
      /\ enc' = enc /\ dec' = dec /\ pending_handshake_secret' = pending_handshake_secret
      /\ ret' = ret /\ failedAsserts' = failedAsserts
      /\ using_early_data' = using_early_data /\ max_early_data_size' = max_early_data_size
  BY DEF Flush, schedule, keys, clientVars
<1>2. sendbuf' \in [Side -> Seq(Recs)] /\ wire' \in [Side -> Seq(Recs)]
  BY DEF LocalInv, TypeInv, Flush
<1>3. TypeInv'
  BY <1>1, <1>2 DEF LocalInv, TypeInv, Flush, clientVars, serverVars, appVars
<1>4. ClientInv' /\ ServerInv'
  BY <1>1, ClientKept, ServerKept DEF LocalInv
<1>5. QuietInv'
  BY <1>1, Started DEF Flush, QuietInv
<1>. QED  BY <1>1, <1>3, <1>4, <1>5 DEF LocalInv

LEMMA HandleCCSLocal ==
  ASSUME LocalInv, NEW s \in Side, HandleCCS(s)
  PROVE  LocalInv'
<1>1. /\ cfg' = cfg /\ state' = state /\ sched' = sched /\ transcript' = transcript
      /\ enc' = enc /\ dec' = dec /\ pending_handshake_secret' = pending_handshake_secret
      /\ ret' = ret /\ failedAsserts' = failedAsserts /\ sendbuf' = sendbuf
      /\ using_early_data' = using_early_data /\ max_early_data_size' = max_early_data_size
  BY DEF HandleCCS, schedule, keys, clientVars
<1>2. wire' \in [Side -> Seq(Recs)]
  BY ReadTypes DEF LocalInv, HandleCCS, Ready
<1>3. TypeInv'
  BY <1>1, <1>2 DEF LocalInv, TypeInv, HandleCCS, clientVars, serverVars, appVars
<1>4. ClientInv' /\ ServerInv'
  BY <1>1, ClientKept, ServerKept DEF LocalInv
<1>5. QuietInv'
  BY <1>1, Started DEF HandleCCS, QuietInv
<1>. QED  BY <1>1, <1>3, <1>4, <1>5 DEF LocalInv

LEMMA AlertLocal ==
  ASSUME LocalInv, NEW s \in Side, handle_alert(s)
  PROVE  LocalInv'
<1>1. /\ cfg' = cfg /\ state' = state /\ sched' = sched /\ transcript' = transcript
      /\ enc' = enc /\ dec' = dec /\ pending_handshake_secret' = pending_handshake_secret
      /\ failedAsserts' = failedAsserts
      /\ using_early_data' = using_early_data /\ max_early_data_size' = max_early_data_size
  BY DEF handle_alert, schedule, keys, clientVars
<1>2. wire' \in [Side -> Seq(Recs)]
  BY ReadTypes DEF LocalInv, handle_alert, Ready
<1>3. "PEER_ALERT" \in Names /\ <<>> \in Seq(Recs)
  BY NamesAre DEF Errors
<1>4. /\ ret' \in [Side -> Names] /\ sendbuf' \in [Side -> Seq(Recs)]
      /\ ret'[s] = "PEER_ALERT" /\ \A t \in Side : t # s => ret'[t] = ret[t]
  BY <1>3 DEF handle_alert, LocalInv, TypeInv
<1>5. TypeInv'
  BY <1>1, <1>2, <1>4 DEF LocalInv, TypeInv, handle_alert, clientVars, serverVars, appVars
<1>6. ClientInv'
  BY <1>1, <1>4, Sides DEF LocalInv, ClientInv
<1>7. ServerInv'
  BY <1>1, <1>4, Sides DEF LocalInv, ServerInv
<1>8. QuietInv'
  BY <1>1, Started DEF handle_alert, QuietInv
<1>. QED  BY <1>1, <1>5, <1>6, <1>7, <1>8 DEF LocalInv

LEMMA ReceiveDataLocal ==
  ASSUME LocalInv, NEW s \in Side, ReceiveData(s)
  PROVE  LocalInv'
<1>1. /\ cfg' = cfg /\ state' = state /\ sched' = sched /\ transcript' = transcript
      /\ enc' = enc /\ pending_handshake_secret' = pending_handshake_secret
      /\ ret' = ret /\ sendbuf' = sendbuf
      /\ using_early_data' = using_early_data /\ max_early_data_size' = max_early_data_size
  BY DEF ReceiveData, schedule, clientVars
<1>2. wire' \in [Side -> Seq(Recs)]
  BY ReadTypes DEF LocalInv, ReceiveData, Accepts, Ready
<1>3. dec' \in [Side -> Keys] /\ earlyGot' \in Nat
  <2>1. Advance(dec[s], 1) \in Keys
    BY KeyTypes DEF LocalInv, TypeInv
  <2>. QED  BY <2>1 DEF ReceiveData, LocalInv, TypeInv
<1>4. TypeInv'
  BY <1>1, <1>2, <1>3 DEF LocalInv, TypeInv, ReceiveData, clientVars, serverVars
<1>5. ClientInv' /\ ServerInv'
  BY <1>1, ClientKept, ServerKept DEF LocalInv
<1>6. ret[s] # "IN_PROGRESS"
  <2>1. state[s] \in PostHandshake \cup {"SERVER_EXPECT_END_OF_EARLY_DATA"}
    BY DEF ReceiveData
  <2>2. CASE s = "client"
    BY <2>1, <2>2 DEF LocalInv, ClientInv, PostHandshake, ClientHellos, ClientFlight
  <2>3. CASE s = "server"
    BY <2>1, <2>3 DEF LocalInv, ServerInv, PostHandshake, ServerHandshake
  <2>. QED  BY <2>2, <2>3 DEF Side
<1>7. failedAsserts' = {}
  <2>. DEFINE empty == ret[s] # "IN_PROGRESS"
  <2>1. Check([decryptbuf_empty |-> empty]) /\ failedAsserts = {}
    BY DEF ReceiveData, LocalInv
  <2>2. empty = TRUE
    BY <1>6
  <2>. HIDE DEF empty
  <2>. QED  BY <2>1, <2>2 DEF Check
<1>8. QuietInv'
  BY <1>1, Started DEF ReceiveData, Accepts, QuietInv
<1>. QED  BY <1>4, <1>5, <1>7, <1>8 DEF LocalInv

LEMMA RejectLocal ==
  ASSUME LocalInv, NEW s \in Side, RejectRecord(s)
  PROVE  LocalInv'
<1>1. Ready(s) /\ RejectCode(s) # "none" /\ Fail(s, RejectCode(s)) /\ failedAsserts' = failedAsserts
  BY DEF RejectRecord
<1>2. RejectCode(s) \in Errors
  BY <1>1 DEF RejectCode, Errors
<1>3. enc[s] \in Keys /\ early_data_skipped_bytes' \in Nat \cup {UINT32_MAX}
  BY <1>1 DEF LocalInv, TypeInv, Fail
<1>4. FailWith(s, RejectCode(s), enc[s])
  BY <1>1 DEF Fail
<1>. QED  BY <1>1, <1>2, <1>3, <1>4, FailLocal

LEMMA SkipLocal ==
  ASSUME LocalInv, ServerSkipEarlyData
  PROVE  LocalInv'
<1>1. /\ Ready("server") /\ failedAsserts' = failedAsserts
      /\ early_data_skipped_bytes' \in Nat
  BY DEF ServerSkipEarlyData, LocalInv, TypeInv
<1>2. CASE early_data_skipped_bytes' > SKIP_LIMIT
  <2>1. "HANDSHAKE_FAILURE" \in Errors /\ enc["server"] \in Keys
    BY Sides DEF Errors, LocalInv, TypeInv
  <2>2. FailWith("server", "HANDSHAKE_FAILURE", enc["server"])
    BY <1>2 DEF ServerSkipEarlyData
  <2>. QED  BY <1>1, <2>1, <2>2, Sides, FailLocal
<1>3. CASE ~(early_data_skipped_bytes' > SKIP_LIMIT)
  <2>1. /\ cfg' = cfg /\ state' = state /\ sched' = sched /\ transcript' = transcript
        /\ enc' = enc /\ dec' = dec /\ pending_handshake_secret' = pending_handshake_secret
        /\ ret' = ret /\ sendbuf' = sendbuf
        /\ using_early_data' = using_early_data /\ max_early_data_size' = max_early_data_size
    BY <1>3 DEF ServerSkipEarlyData, schedule, keys, clientVars
  <2>2. wire' \in [Side -> Seq(Recs)]
    BY <1>3, Sides, ReadTypes DEF LocalInv, ServerSkipEarlyData, Ready
  <2>3. TypeInv'
    BY <1>1, <1>3, <2>1, <2>2 DEF LocalInv, TypeInv, ServerSkipEarlyData, clientVars, appVars
  <2>4. ClientInv' /\ ServerInv'
    BY <2>1, ClientKept, ServerKept DEF LocalInv
  <2>5. QuietInv'
    BY <1>1, <2>1, Sides, Started DEF QuietInv
  <2>. QED  BY <1>1, <2>3, <2>4, <2>5 DEF LocalInv
<1>. QED  BY <1>2, <1>3

LEMMA SendsLocal ==
  ASSUME LocalInv, NEW s \in Side, enc[s].aead, Sends(s, Plain("DATA", {})),
         earlySent' \in Nat, state["client"] # "CLIENT_HANDSHAKE_START"
  PROVE  LocalInv'
<1>1. /\ cfg' = cfg /\ state' = state /\ sched' = sched /\ transcript' = transcript
      /\ dec' = dec /\ pending_handshake_secret' = pending_handshake_secret
      /\ ret' = ret /\ sendbuf' = sendbuf
      /\ using_early_data' = using_early_data /\ max_early_data_size' = max_early_data_size
  BY DEF Sends, schedule, clientVars
<1>2. /\ enc[s] \in Keys /\ Advance(enc[s], 1) \in Keys
      /\ Advance(enc[s], 1).aead = enc[s].aead
  BY KeyTypes DEF LocalInv, TypeInv
<1>3. enc' \in [Side -> Keys] /\ \A t \in Side : enc'[t].aead = enc[t].aead
  BY <1>2 DEF Sends, LocalInv, TypeInv
<1>4. wire' \in [Side -> Seq(Recs)]
  <2>1. Plain("DATA", {}) \in Messages
    <3>1. "DATA" \in Names /\ {} \in SUBSET Names
      BY NamesAre
    <3>. QED  BY <3>1, MessageTypes
  <2>2. Records(enc[s], <<Plain("DATA", {})>>) \in Seq(Recs)
    BY <1>2, <2>1, OneRecord
  <2>3. wire[s] \o Records(enc[s], <<Plain("DATA", {})>>) \in Seq(Recs)
    BY <2>2 DEF LocalInv, TypeInv
  <2>. QED  BY <2>3 DEF Sends, LocalInv, TypeInv
<1>5. TypeInv'
  BY <1>1, <1>3, <1>4 DEF LocalInv, TypeInv, Sends, clientVars, serverVars
<1>6. ClientInv' /\ ServerInv'
  BY <1>1, <1>3, Sides, ClientKept, ServerKept DEF LocalInv
<1>7. failedAsserts' = {}
  <2>1. Check([ptls_send_aead |-> enc[s].aead]) /\ failedAsserts = {}
    BY DEF Sends, LocalInv
  <2>2. enc[s].aead = TRUE
    BY <1>2 DEF Keys
  <2>. QED  BY <2>1, <2>2 DEF Check
<1>8. QuietInv'
  BY <1>1, Started DEF QuietInv
<1>. QED  BY <1>5, <1>6, <1>7, <1>8 DEF LocalInv

LEMMA SendEarlyDataLocal ==
  ASSUME LocalInv, SendEarlyData
  PROVE  LocalInv'
<1>1. earlySent \in Nat /\ max_early_data_size \in Nat /\ earlySent < max_early_data_size
  BY DEF SendEarlyData, LocalInv, TypeInv
<1>2. enc["client"].aead
  BY <1>1 DEF LocalInv, ClientInv
<1>3. state["client"] # "CLIENT_HANDSHAKE_START"
  BY DEF SendEarlyData
<1>. QED  BY <1>1, <1>2, <1>3, Sides, SendsLocal DEF SendEarlyData

LEMMA PtlsSendLocal ==
  ASSUME LocalInv, NEW s \in Side, ptls_send(s)
  PROVE  LocalInv'
<1>1. ret[s] = "OK" /\ Sends(s, Plain("DATA", {})) /\ earlySent' = earlySent
  BY DEF ptls_send
<1>2. enc[s].aead
  <2>1. CASE s = "client"
    BY <1>1, <2>1 DEF LocalInv, ClientInv
  <2>2. CASE s = "server"
    BY <1>1, <2>2 DEF LocalInv, ServerInv, MayReceive, PostHandshake, ServerHellos
  <2>. QED  BY <2>1, <2>2 DEF Side
<1>3. earlySent' \in Nat
  BY <1>1 DEF LocalInv, TypeInv
<1>. QED  BY <1>1, <1>2, <1>3, Started, SendsLocal

(* An altered record: what it says is the same, but for a mark on a hello.  *)
LEMMA Altered ==
  ASSUME TypeInv, NEW s \in Side, Alter(s)
  PROVE  \E r \in Recs :
           /\ wire[s] # <<>> /\ wire' = [wire EXCEPT ![s] = [wire[s] EXCEPT ![1] = r]]
           /\ wire' \in [Side -> Seq(Recs)]
           /\ r.msg.type = wire[s][1].msg.type
           /\ r.msg.mac = wire[s][1].msg.mac
           /\ \/ r.msg.has = wire[s][1].msg.has /\ r.seq = -1
              \/ /\ r.msg.type \in {"CH", "SH", "HRR"} /\ r.seq = wire[s][1].seq
                 /\ \E change \in {"random", "extension"} :
                      r.msg.has = wire[s][1].msg.has \cup {change}
<1>. DEFINE q == wire[s][1]
<1>1. wire[s] # <<>> /\ wire[s] \in Seq(Recs) /\ wire \in [Side -> Seq(Recs)]
  BY DEF Alter, TypeInv
<1>2. q \in Recs /\ q.msg \in Messages
  <2>1. q \in Recs
    BY <1>1
  <2>. QED  BY <2>1 DEF Recs
<1>3. ASSUME NEW r \in Recs
      PROVE  [wire EXCEPT ![s] = [wire[s] EXCEPT ![1] = r]] \in [Side -> Seq(Recs)]
  <2>1. [wire[s] EXCEPT ![1] = r] \in Seq(Recs)
    BY <1>1
  <2>. QED  BY <1>1, <2>1
<1>4. CASE wire' = [wire EXCEPT ![s][1].seq = -1]
  <2>. DEFINE r == [q EXCEPT !.seq = -1]
  <2>1. r \in Recs /\ r.msg = q.msg /\ r.seq = -1
    BY <1>2 DEF Recs
  <2>2. wire' = [wire EXCEPT ![s] = [wire[s] EXCEPT ![1] = r]]
    BY <1>4
  <2>. HIDE DEF r, q
  <2>. QED  BY <1>1, <1>3, <2>1, <2>2 DEF q
<1>5. ASSUME NEW change \in {"random", "extension"}, q.msg.type \in {"CH", "SH", "HRR"},
             wire' = [wire EXCEPT ![s][1].msg.has = @ \cup {change}]
      PROVE  \E r \in Recs :
           /\ wire[s] # <<>> /\ wire' = [wire EXCEPT ![s] = [wire[s] EXCEPT ![1] = r]]
           /\ wire' \in [Side -> Seq(Recs)]
           /\ r.msg.type = q.msg.type /\ r.msg.mac = q.msg.mac /\ r.seq = q.seq
           /\ r.msg.has = q.msg.has \cup {change}
  <2>. DEFINE r == [q EXCEPT !.msg.has = q.msg.has \cup {change}]
  <2>1. q.msg.has \cup {change} \in SUBSET Names
    BY <1>2, NamesAre DEF Messages
  <2>2. [q.msg EXCEPT !.has = q.msg.has \cup {change}] \in Messages
    BY <1>2, <2>1 DEF Messages
  <2>3. /\ r \in Recs /\ r.msg.type = q.msg.type /\ r.msg.mac = q.msg.mac /\ r.seq = q.seq
        /\ r.msg.has = q.msg.has \cup {change}
    BY <1>2, <2>2 DEF Recs, Messages
  <2>4. wire' = [wire EXCEPT ![s] = [wire[s] EXCEPT ![1] = r]]
    BY <1>5
  <2>. HIDE DEF r, q
  <2>. QED  BY <1>1, <1>3, <2>3, <2>4
<1>. QED  BY <1>4, <1>5 DEF Alter

LEMMA AlterLocal ==
  ASSUME LocalInv, NEW s \in Side, Alter(s)
  PROVE  LocalInv'
<1>1. /\ cfg' = cfg /\ state' = state /\ sched' = sched /\ transcript' = transcript
      /\ enc' = enc /\ dec' = dec /\ pending_handshake_secret' = pending_handshake_secret
      /\ ret' = ret /\ failedAsserts' = failedAsserts /\ sendbuf' = sendbuf
      /\ using_early_data' = using_early_data /\ max_early_data_size' = max_early_data_size
  BY DEF Alter, schedule, keys, clientVars
<1>2. wire' \in [Side -> Seq(Recs)]
  BY Altered DEF LocalInv
<1>3. TypeInv'
  BY <1>1, <1>2, SMTT(30) DEF LocalInv, TypeInv, Alter, clientVars, serverVars, appVars
<1>4. ClientInv' /\ ServerInv'
  BY <1>1, ClientKept, ServerKept DEF LocalInv
<1>5. QuietInv'
  BY <1>1, Started DEF Alter, QuietInv
<1>. QED  BY <1>1, <1>3, <1>4, <1>5 DEF LocalInv

(* The client's handlers.                                                   *)
LEMMA ClientExpects ==
  ASSUME LocalInv, NEW type, ClientTakes(type)
  PROVE  /\ Ready("client") /\ wire["server"] # <<>> /\ ret["client"] \in {"IN_PROGRESS", "OK"}
         /\ First("client") = wire["server"][1] /\ First("client").msg.type = type
         /\ type \in {"SH", "HRR"} => state["client"] \in ClientHellos
         /\ type = "EE" => state["client"] = "CLIENT_EXPECT_ENCRYPTED_EXTENSIONS"
         /\ type = "CR" =>
              state["client"] = "CLIENT_EXPECT_CERTIFICATE_REQUEST_OR_CERTIFICATE"
         /\ type = "CERT" =>
              state["client"] \in {"CLIENT_EXPECT_CERTIFICATE_REQUEST_OR_CERTIFICATE",
                                   "CLIENT_EXPECT_CERTIFICATE"}
         /\ type = "CV" => state["client"] = "CLIENT_EXPECT_CERTIFICATE_VERIFY"
         /\ type = "FIN" => state["client"] = "CLIENT_EXPECT_FINISHED"
         /\ type = "NST" => state["client"] = "CLIENT_POST_HANDSHAKE"
<1>1. type \in Expected[state["client"]]
  BY DEF ClientTakes
<1>2. /\ Expected["CLIENT_EXPECT_SERVER_HELLO"] = {"SH", "HRR"}
      /\ Expected["CLIENT_EXPECT_SECOND_SERVER_HELLO"] = {"SH", "HRR"}
      /\ Expected["CLIENT_EXPECT_ENCRYPTED_EXTENSIONS"] = {"EE"}
      /\ Expected["CLIENT_EXPECT_CERTIFICATE_REQUEST_OR_CERTIFICATE"] = {"CR", "CERT"}
      /\ Expected["CLIENT_EXPECT_CERTIFICATE"] = {"CERT"}
      /\ Expected["CLIENT_EXPECT_CERTIFICATE_VERIFY"] = {"CV"}
      /\ Expected["CLIENT_EXPECT_FINISHED"] = {"FIN"}
      /\ Expected["CLIENT_POST_HANDSHAKE"] = {"NST"}
  BY DEF Expected
<1>3. state["client"] = "CLIENT_HANDSHAKE_START" \/ state["client"] = "CLIENT_POST_HANDSHAKE"
      \/ state["client"] \in ClientHellos \/ state["client"] \in ClientFlight
  BY DEF LocalInv, ClientInv
<1>4. state["client"] # "CLIENT_HANDSHAKE_START"
  BY Sides, Started DEF ClientTakes, Accepts
<1>. QED
  BY <1>1, <1>2, <1>3, <1>4, Sides
     DEF ClientTakes, Accepts, Ready, First, ClientHellos, ClientFlight

LEMMA ConfigTypes ==
  ASSUME TypeInv
  PROVE  /\ cfg \in Config
         /\ cfg.key_share \in Names /\ cfg.client_certificate \in Names
         /\ cfg.server_certificate \in Names /\ cfg.early_limit \in Nat
         /\ Offers \in BOOLEAN /\ ClientPsk \in {"psk", "other_psk"} /\ ClientPsk \in Names
         /\ HelloExtensions \in SUBSET Names
<1>1. cfg \in Config
  BY ConfigsAssumption DEF TypeInv
<1>2. /\ cfg.key_share \in Names /\ cfg.client_certificate \in Names
      /\ cfg.server_certificate \in Names /\ cfg.early_limit \in Nat
  BY <1>1, NamesAre DEF Config
<1>3. Offers \in BOOLEAN /\ ClientPsk \in {"psk", "other_psk"} /\ ClientPsk \in Names
  BY NamesAre DEF Offers, ClientPsk
<1>4. HelloExtensions \in SUBSET Names
  BY NamesAre DEF HelloExtensions, If
<1>. QED  BY <1>1, <1>2, <1>3, <1>4

LEMMA ClientHelloType ==
  ASSUME TypeInv, NEW has \in SUBSET Names, NEW cookie \in Cookies, NEW th \in Seq(Views)
  PROVE  LET ch == ClientHello(has, cookie, th) IN
         /\ ch \in Messages /\ ch.type = "CH" /\ ch.has = has /\ ch.cookie = cookie
         /\ View(ch) = <<"CH", has>>
         /\ Offers => ch.mac # <<>> /\ ch.mac[1].ikm = <<ClientPsk>>
<1>. DEFINE view == <<"CH", has>>
            sec  == Secret("res_binder", <<ClientPsk>>, <<>>)
            mac  == IF Offers THEN Mac(sec, Append(th, view)) ELSE <<>>
<1>1. view \in Views
  BY NamesAre DEF Views
<1>2. sec \in Secrets /\ sec.ikm = <<ClientPsk>>
  BY ConfigTypes, NamesAre DEF Secret, Secrets
<1>3. View(Plain("CH", has)) = view
  BY DEF View, Plain, Message
<1>. HIDE DEF view, sec
<1>4. Append(th, view) \in Seq(Views)
  BY <1>1
<1>5. mac \in Macs /\ (Offers => mac = <<sec, Append(th, view)>>)
  <2>1. <<>> \in Macs
    BY DEF Macs
  <2>. QED  BY <1>2, <1>4, <2>1, MessageTypes DEF Mac
<1>6. ClientHello(has, cookie, th) = Message("CH", has, mac, cookie)
  BY <1>3 DEF ClientHello, sec
<1>. HIDE DEF mac
<1>7. Message("CH", has, mac, cookie) \in Messages
  BY <1>5, NamesAre, MessageTypes
<1>8. Offers => mac # <<>> /\ mac[1].ikm = <<ClientPsk>>
  BY <1>2, <1>5, SMTT(30)
<1>. QED  BY <1>6, <1>7, <1>8 DEF Message, View

LEMMA SendClientHelloLocal ==
  ASSUME LocalInv, send_client_hello
  PROVE  LocalInv'
<1>. DEFINE early == Offers /\ cfg.early_data
            has == HelloExtensions \cup If(early, "early_data") \cup {cfg.key_share}
            ch == ClientHello(has, <<>>, <<>>)
            ikm == <<IF Offers THEN ClientPsk ELSE "0">>
            secret == Secret("c_e_traffic", ikm, <<View(ch)>>)
            ccs == early /\ send_change_cipher_spec
<1>1. /\ state["client"] = "CLIENT_HANDSHAKE_START"
      /\ state' = [state EXCEPT !["client"] = "CLIENT_EXPECT_SERVER_HELLO"]
      /\ offered_psk' = Offers /\ using_early_data' = early
      /\ early_data_acceptance' = (IF early THEN "UNKNOWN" ELSE "REJECTED")
      /\ max_early_data_size' = (IF early THEN cfg.early_limit ELSE 0)
      /\ sched' = [sched EXCEPT !["client"] = ikm]
      /\ transcript' = [transcript EXCEPT !["client"] = <<View(ch)>>]
      /\ enc' = (IF early THEN [enc EXCEPT !["client"] = Key(secret)] ELSE enc)
  BY DEF send_client_hello
<1>2. /\ sendbuf' = [sendbuf EXCEPT !["client"] = Records(NoKey, <<ch>>) \o CCS(ccs)]
      /\ send_change_cipher_spec' = (send_change_cipher_spec /\ ~ccs)
      /\ cfg' = cfg /\ dec' = dec /\ pending_handshake_secret' = pending_handshake_secret
      /\ is_psk_handshake' = is_psk_handshake /\ certificate_request' = certificate_request
      /\ ret' = ret /\ wire' = wire /\ faults' = faults /\ failedAsserts' = failedAsserts
      /\ pending_traffic_secret' = pending_traffic_secret
      /\ early_data_skipped_bytes' = early_data_skipped_bytes
      /\ earlySent' = earlySent /\ earlyGot' = earlyGot
  BY DEF send_client_hello, serverVars, appVars
<1>3. TypeInv /\ ClientInv /\ ServerInv /\ QuietInv /\ failedAsserts = {}
  BY DEF LocalInv
<1>4. early \in BOOLEAN /\ ccs \in BOOLEAN /\ has \in SUBSET Names
  BY <1>3, ConfigTypes, NamesAre DEF If, TypeInv
<1>. HIDE DEF early, has, ccs
<1>5. ch \in Messages /\ View(ch) \in Views
  <2>1. <<>> \in Cookies /\ <<>> \in Seq(Views)
    BY DEF Cookies
  <2>2. ch \in Messages
    BY <1>3, <1>4, <2>1, ClientHelloType
  <2>. QED  BY <2>2, MessageTypes
<1>. HIDE DEF ch
<1>6. ikm \in Seq(Names) /\ Len(ikm) = 1
  BY <1>3, ConfigTypes, NamesAre
<1>. HIDE DEF ikm
<1>7. secret \in Secrets
  BY <1>5, <1>6, NamesAre DEF Secret, Secrets
<1>. HIDE DEF secret
<1>8. Key(secret) \in Keys /\ Key(secret).aead
  BY <1>7, KeyTypes
<1>9. Records(NoKey, <<ch>>) \o CCS(ccs) \in Seq(Recs)
  <2>1. Records(NoKey, <<ch>>) \in Seq(Recs)
    BY <1>5, KeyTypes, OneRecord
  <2>2. CCS(ccs) \in Seq(Recs)
    BY <1>4, CCSType
  <2>. QED  BY <2>1, <2>2
<1>10. /\ sched' \in [Side -> Seq(Names)] /\ transcript' \in [Side -> Seq(Views)]
       /\ enc' \in [Side -> Keys] /\ state' \in [Side -> States]
       /\ sendbuf' \in [Side -> Seq(Recs)]
  <2>1. "CLIENT_EXPECT_SERVER_HELLO" \in States /\ <<View(ch)>> \in Seq(Views)
    BY <1>5 DEF States, ClientHandshake
  <2>. QED  BY <1>1, <1>2, <1>3, <1>6, <1>8, <1>9, <2>1 DEF TypeInv
<1>11. TypeInv'
  BY <1>1, <1>2, <1>3, <1>4, <1>10, ConfigTypes DEF TypeInv
<1>12. /\ state'["client"] = "CLIENT_EXPECT_SERVER_HELLO" /\ state'["server"] = state["server"]
       /\ sched'["client"] = ikm /\ sched'["server"] = sched["server"]
       /\ transcript'["client"] = <<View(ch)>> /\ enc'["server"] = enc["server"]
       /\ early => enc'["client"].aead
  BY <1>1, <1>3, <1>8, Sides DEF TypeInv
<1>13. ClientInv'
  <2>1. pending_handshake_secret["client"] = NoSecret /\ ret["client"] # "OK"
    BY <1>1, <1>3 DEF ClientInv, ClientFlight
  <2>2. /\ using_early_data' = early /\ (max_early_data_size' > 0 => early)
        /\ pending_handshake_secret'["client"] = NoSecret /\ ret'["client"] # "OK"
        /\ Len(sched'["client"]) = 1 /\ transcript'["client"] # <<>>
    BY <1>1, <1>2, <1>6, <1>12, <2>1, SMTT(30)
  <2>. QED  BY <1>12, <2>2 DEF ClientInv, ClientHellos, ClientFlight
<1>14. ServerInv'
  BY <1>2, <1>3, <1>12, ServerKept
<1>. QED  BY <1>2, <1>3, <1>11, <1>12, <1>13, <1>14 DEF LocalInv, QuietInv

LEMMA ClientStepLocal ==
  ASSUME LocalInv, NEW next \in ClientFlight, NEW type, ClientTakes(type), ClientStep(next),
         state["client"] \in ClientFlight,
         using_early_data' \in BOOLEAN, using_early_data' => using_early_data,
         early_data_acceptance' \in {"UNKNOWN", "REJECTED", "ACCEPTED"},
         certificate_request' \in BOOLEAN
  PROVE  LocalInv'
<1>1. /\ transcript' = [transcript EXCEPT !["client"] =
                          Append(transcript["client"], View(First("client").msg))]
      /\ dec' = [dec EXCEPT !["client"] = Advance(dec["client"], 1)]
      /\ state' = [state EXCEPT !["client"] = next]
      /\ Consume("client")
      /\ cfg' = cfg /\ sched' = sched /\ enc' = enc
      /\ pending_handshake_secret' = pending_handshake_secret
      /\ is_psk_handshake' = is_psk_handshake
      /\ send_change_cipher_spec' = send_change_cipher_spec /\ offered_psk' = offered_psk
      /\ max_early_data_size' = max_early_data_size /\ ret' = ret /\ sendbuf' = sendbuf
      /\ faults' = faults /\ failedAsserts' = failedAsserts
      /\ pending_traffic_secret' = pending_traffic_secret
      /\ early_data_skipped_bytes' = early_data_skipped_bytes
      /\ earlySent' = earlySent /\ earlyGot' = earlyGot
  BY DEF ClientStep, serverVars, appVars
<1>2. TypeInv /\ ClientInv /\ ServerInv /\ QuietInv /\ failedAsserts = {}
  BY DEF LocalInv
<1>3. wire["server"] # <<>> /\ First("client").msg \in Messages /\ wire' \in [Side -> Seq(Recs)]
  BY <1>1, <1>2, Sides, ClientExpects, ReadTypes
<1>4. View(First("client").msg) \in Views
  BY <1>3, MessageTypes
<1>5. Advance(dec["client"], 1) \in Keys
  BY <1>2, Sides, KeyTypes DEF TypeInv
<1>6. next \in States
  BY DEF ClientFlight, States, ClientHandshake
<1>7. /\ transcript["client"] \in Seq(Views)
      /\ Append(transcript["client"], View(First("client").msg)) \in Seq(Views)
      /\ Append(transcript["client"], View(First("client").msg)) # <<>>
  <2>1. transcript["client"] \in Seq(Views)
    BY <1>2, Sides DEF TypeInv
  <2>2. \A th \in Seq(Views), v \in Views : Append(th, v) \in Seq(Views) /\ Append(th, v) # <<>>
    OBVIOUS
  <2>. QED  BY <1>4, <2>1, <2>2
<1>8. /\ transcript' \in [Side -> Seq(Views)] /\ dec' \in [Side -> Keys]
      /\ state' \in [Side -> States]
      /\ transcript'["client"] # <<>>
      /\ state'["client"] = next /\ state'["server"] = state["server"]
  BY <1>1, <1>2, <1>5, <1>6, <1>7, Sides DEF TypeInv
<1>9. TypeInv'
  BY <1>1, <1>2, <1>3, <1>8 DEF TypeInv
<1>10. ClientInv'
  BY <1>1, <1>2, <1>8 DEF ClientInv, ClientHellos, ClientFlight
<1>11. ServerInv'
  BY <1>1, <1>2, <1>8, ServerKept
<1>12. QuietInv'
  BY <1>8 DEF QuietInv, ClientFlight
<1>. QED  BY <1>1, <1>2, <1>9, <1>10, <1>11, <1>12 DEF LocalInv

LEMMA Ch1HashType ==
  ASSUME NEW th \in Seq(Views), th # <<>>
  PROVE  ch1hash(th) \in Seq(Views) /\ Len(ch1hash(th)) = 1
<1>1. th[1] \in Views
  OBVIOUS
<1>2. <<"message_hash", th[1][2]>> \in Views
  BY <1>1, NamesAre DEF Views
<1>3. \A v \in Views : <<v>> \in Seq(Views) /\ Len(<<v>>) = 1
  OBVIOUS
<1>. QED  BY <1>2, <1>3 DEF ch1hash

LEMMA AppendType ==
  ASSUME NEW S, NEW q \in Seq(S), NEW x \in S
  PROVE  /\ Append(q, x) \in Seq(S) /\ Append(q, x) # <<>> /\ Len(Append(q, x)) = Len(q) + 1
         /\ Append(q, x)[Len(q) + 1] = x
         /\ \A i \in 1..Len(q) : Append(q, x)[i] = q[i]
OBVIOUS

LEMMA HrrLocal ==
  ASSUME LocalInv, handle_hello_retry_request
  PROVE  LocalInv'
<1>. DEFINE hrr == First("client").msg
            th == Append(ch1hash(transcript["client"]), View(hrr))
            share == IF SelectsKeyShare(hrr) THEN "group1" ELSE cfg.key_share
            has == HelloExtensions \cup {share} \cup If(hrr.cookie # <<>>, "cookie")
            ch == ClientHello(has, hrr.cookie, th)
<1>1. /\ ClientTakes("HRR") /\ Consume("client")
      /\ enc' = (IF using_early_data THEN [enc EXCEPT !["client"] = NoKey] ELSE enc)
      /\ using_early_data' = FALSE /\ early_data_acceptance' = "REJECTED"
      /\ max_early_data_size' = 0
      /\ transcript' = [transcript EXCEPT !["client"] = Append(th, View(ch))]
      /\ sendbuf' = [sendbuf EXCEPT !["client"] =
                       sendbuf["client"] \o Records(enc'["client"], <<ch>>)]
      /\ state' = [state EXCEPT !["client"] = "CLIENT_EXPECT_SECOND_SERVER_HELLO"]
  BY DEF handle_hello_retry_request
<1>2. /\ cfg' = cfg /\ sched' = sched /\ dec' = dec
      /\ pending_handshake_secret' = pending_handshake_secret
      /\ is_psk_handshake' = is_psk_handshake
      /\ send_change_cipher_spec' = send_change_cipher_spec /\ offered_psk' = offered_psk
      /\ certificate_request' = certificate_request /\ ret' = ret /\ faults' = faults
      /\ pending_traffic_secret' = pending_traffic_secret
      /\ early_data_skipped_bytes' = early_data_skipped_bytes
      /\ earlySent' = earlySent /\ earlyGot' = earlyGot
  BY DEF handle_hello_retry_request, serverVars, appVars
<1>3. TypeInv /\ ClientInv /\ ServerInv /\ failedAsserts = {}
  BY DEF LocalInv
<1>4. /\ state["client"] \in ClientHellos /\ wire["server"] # <<>>
      /\ hrr \in Messages /\ wire' \in [Side -> Seq(Recs)]
  BY <1>1, <1>3, Sides, ClientExpects, ReadTypes
<1>5. View(hrr) \in Views /\ hrr.cookie \in Cookies
  BY <1>4, MessageTypes DEF Messages
<1>6. transcript["client"] \in Seq(Views) /\ transcript["client"] # <<>>
  BY <1>3, <1>4, Sides DEF TypeInv, ClientInv, ClientHellos
<1>7. th \in Seq(Views)
  BY <1>5, <1>6, Ch1HashType, AppendType
<1>8. has \in SUBSET Names
  BY <1>3, ConfigTypes, NamesAre DEF If
<1>. HIDE DEF hrr, th, has
<1>9. ch \in Messages /\ View(ch) \in Views
  BY <1>3, <1>5, <1>7, <1>8, ClientHelloType, MessageTypes
<1>. HIDE DEF ch
<1>10. enc' \in [Side -> Keys] /\ enc'["client"] \in Keys /\ enc'["server"] = enc["server"]
  <2>1. enc \in [Side -> Keys] /\ NoKey \in Keys
    BY <1>3, KeyTypes DEF TypeInv
  <2>2. enc' = enc \/ enc' = [enc EXCEPT !["client"] = NoKey]
    BY <1>1
  <2>. QED  BY <2>1, <2>2, Sides
<1>11. Records(enc'["client"], <<ch>>) \in Seq(Recs)
  BY <1>9, <1>10, OneRecord
<1>12. Append(th, View(ch)) \in Seq(Views) /\ Append(th, View(ch)) # <<>>
  BY <1>7, <1>9, AppendType
<1>13. "CLIENT_EXPECT_SECOND_SERVER_HELLO" \in States
  BY DEF States, ClientHandshake
<1>14. sendbuf["client"] \o Records(enc'["client"], <<ch>>) \in Seq(Recs)
  BY <1>3, <1>11, Sides DEF TypeInv
<1>15. /\ sendbuf' \in [Side -> Seq(Recs)] /\ transcript' \in [Side -> Seq(Views)]
       /\ state' \in [Side -> States] /\ transcript'["client"] # <<>>
       /\ state'["client"] = "CLIENT_EXPECT_SECOND_SERVER_HELLO"
       /\ state'["server"] = state["server"]
  BY <1>1, <1>3, <1>12, <1>13, <1>14, Sides DEF TypeInv
<1>16. TypeInv'
  BY <1>1, <1>2, <1>3, <1>4, <1>10, <1>15 DEF TypeInv
<1>17. ClientInv'
  <2>1. /\ pending_handshake_secret["client"] = NoSecret /\ ret["client"] # "OK"
        /\ Len(sched["client"]) = 1
    BY <1>3, <1>4 DEF ClientInv, ClientFlight, ClientHellos
  <2>. QED  BY <1>1, <1>2, <1>15, <2>1 DEF ClientInv, ClientHellos, ClientFlight
<1>18. ServerInv'
  BY <1>2, <1>3, <1>10, <1>15, ServerKept
<1>19. QuietInv'
  BY <1>15 DEF QuietInv
<1>20. failedAsserts' = {}
  <2>. DEFINE one == Len(sched["client"]) = 1
              two == using_early_data => enc["client"].aead
  <2>1. Check([select_one_generation |-> one, hrr_early_key |-> two])
    BY DEF handle_hello_retry_request
  <2>2. one = TRUE
    BY <1>3, <1>4 DEF ClientInv, ClientHellos
  <2>3. two = TRUE
    BY <1>3 DEF ClientInv
  <2>. HIDE DEF one, two
  <2>. QED  BY <1>3, <2>1, <2>2, <2>3 DEF Check
<1>. QED  BY <1>16, <1>17, <1>18, <1>19, <1>20 DEF LocalInv

LEMMA ClientHandleHelloLocal ==
  ASSUME LocalInv, client_handle_hello
  PROVE  LocalInv'
<1>. DEFINE sh == First("client").msg
            psk == SelectsPsk(sh)
            ikm == Append(key_schedule_select_one(sched["client"], offered_psk /\ ~psk),
                          IF SelectsKeyShare(sh) THEN "dhe" ELSE "0")
            th == Append(transcript["client"], View(sh))
            hs == Secret("c_hs_traffic", ikm, th)
            rd == Secret("s_hs_traffic", ikm, th)
<1>1. /\ ClientTakes("SH") /\ Consume("client")
      /\ is_psk_handshake' = [is_psk_handshake EXCEPT !["client"] = psk]
      /\ sched' = [sched EXCEPT !["client"] = ikm]
      /\ transcript' = [transcript EXCEPT !["client"] = th]
      /\ dec' = [dec EXCEPT !["client"] = Key(rd)]
      /\ state' = [state EXCEPT !["client"] = "CLIENT_EXPECT_ENCRYPTED_EXTENSIONS"]
  BY DEF client_handle_hello
<1>2. IF using_early_data
      THEN /\ pending_handshake_secret' = [pending_handshake_secret EXCEPT !["client"] = hs]
           /\ enc' = enc
      ELSE /\ enc' = [enc EXCEPT !["client"] = Key(hs)]
           /\ pending_handshake_secret' = pending_handshake_secret
  BY DEF client_handle_hello
<1>3. /\ cfg' = cfg /\ send_change_cipher_spec' = send_change_cipher_spec
      /\ offered_psk' = offered_psk /\ using_early_data' = using_early_data
      /\ certificate_request' = certificate_request
      /\ early_data_acceptance' = early_data_acceptance
      /\ max_early_data_size' = max_early_data_size /\ ret' = ret /\ sendbuf' = sendbuf
      /\ faults' = faults /\ pending_traffic_secret' = pending_traffic_secret
      /\ early_data_skipped_bytes' = early_data_skipped_bytes
      /\ earlySent' = earlySent /\ earlyGot' = earlyGot
  BY DEF client_handle_hello, clientVars, serverVars, appVars
<1>4. TypeInv /\ ClientInv /\ ServerInv /\ failedAsserts = {}
  BY DEF LocalInv
<1>5. /\ state["client"] \in ClientHellos /\ wire["server"] # <<>>
      /\ sh \in Messages /\ wire' \in [Side -> Seq(Recs)]
  BY <1>1, <1>4, Sides, ClientExpects, ReadTypes
<1>6. Len(sched["client"]) = 1 /\ sched["client"] \in Seq(Names)
  BY <1>4, <1>5, Sides DEF TypeInv, ClientInv, ClientHellos
<1>7. ikm \in Seq(Names) /\ Len(ikm) = 2
  <2>. DEFINE base == key_schedule_select_one(sched["client"], offered_psk /\ ~psk)
              input == IF SelectsKeyShare(sh) THEN "dhe" ELSE "0"
  <2>1. base \in Seq(Names) /\ Len(base) = 1
    BY <1>6, NamesAre DEF key_schedule_select_one
  <2>2. input \in Names
    BY NamesAre
  <2>. HIDE DEF base, input
  <2>3. Append(base, input) \in Seq(Names) /\ Len(Append(base, input)) = Len(base) + 1
    BY <2>1, <2>2, AppendType
  <2>4. Append(base, input) \in Seq(Names) /\ Len(Append(base, input)) = 2
    BY <2>1, <2>3
  <2>. QED  BY <2>4 DEF base, input
<1>8. psk \in BOOLEAN
  BY DEF SelectsPsk
<1>9. th \in Seq(Views) /\ th # <<>>
  <2>1. transcript["client"] \in Seq(Views)
    BY <1>4, Sides DEF TypeInv
  <2>2. View(sh) \in Views
    BY <1>5, MessageTypes
  <2>. QED  BY <2>1, <2>2, AppendType
<1>. HIDE DEF psk, ikm, th
<1>10. hs \in Secrets /\ rd \in Secrets /\ hs # NoSecret
  BY <1>7, <1>9, NamesAre DEF Secret, Secrets, NoSecret
<1>. HIDE DEF hs, rd
<1>11. Key(hs) \in Keys /\ Key(hs).aead /\ Key(rd) \in Keys
  BY <1>10, KeyTypes
<1>12. /\ enc' \in [Side -> Keys] /\ pending_handshake_secret' \in [Side -> Secrets]
       /\ enc'["server"] = enc["server"]
       /\ pending_handshake_secret'["server"] = pending_handshake_secret["server"]
       /\ enc'["client"].aead
  <2>1. enc \in [Side -> Keys] /\ pending_handshake_secret \in [Side -> Secrets]
    BY <1>4 DEF TypeInv
  <2>2. CASE using_early_data
    BY <1>2, <1>4, <1>10, <2>1, <2>2, Sides DEF ClientInv
  <2>3. CASE ~using_early_data
    BY <1>2, <1>11, <2>1, <2>3, Sides
  <2>. QED  BY <2>2, <2>3
<1>13. "CLIENT_EXPECT_ENCRYPTED_EXTENSIONS" \in States
  BY DEF States, ClientHandshake
<1>14. /\ is_psk_handshake' \in [Side -> BOOLEAN] /\ sched' \in [Side -> Seq(Names)]
       /\ transcript' \in [Side -> Seq(Views)] /\ dec' \in [Side -> Keys]
       /\ state' \in [Side -> States]
       /\ sched'["client"] = ikm /\ sched'["server"] = sched["server"]
       /\ transcript'["client"] = th
       /\ state'["client"] = "CLIENT_EXPECT_ENCRYPTED_EXTENSIONS"
       /\ state'["server"] = state["server"]
  BY <1>1, <1>4, <1>7, <1>8, <1>9, <1>11, <1>13, Sides DEF TypeInv
<1>15. TypeInv'
  BY <1>3, <1>4, <1>5, <1>12, <1>14 DEF TypeInv
<1>16. ClientInv'
  <2>1. ret'["client"] # "OK"
    BY <1>3, <1>4, <1>5 DEF ClientInv, ClientHellos
  <2>. QED  BY <1>7, <1>9, <1>12, <1>14, <2>1 DEF ClientInv, ClientHellos, ClientFlight
<1>17. ServerInv'
  BY <1>3, <1>4, <1>12, <1>14, ServerKept
<1>18. QuietInv'
  BY <1>14 DEF QuietInv
<1>19. failedAsserts' = {}
  <2>. DEFINE one == Len(sched["client"]) = 1
  <2>1. Check([select_one_generation |-> one])
    BY DEF client_handle_hello
  <2>2. one = TRUE
    BY <1>6
  <2>. HIDE DEF one
  <2>. QED  BY <1>4, <2>1, <2>2 DEF Check
<1>. QED  BY <1>15, <1>16, <1>17, <1>18, <1>19 DEF LocalInv

LEMMA ClientMessagesLocal ==
  ASSUME LocalInv,
         \/ client_handle_encrypted_extensions \/ client_handle_certificate_request
         \/ client_handle_certificate \/ client_handle_certificate_verify
  PROVE  LocalInv'
<1>1. /\ using_early_data \in BOOLEAN /\ certificate_request \in BOOLEAN
      /\ early_data_acceptance \in {"UNKNOWN", "REJECTED", "ACCEPTED"}
  BY DEF LocalInv, TypeInv
<1>2. CASE client_handle_encrypted_extensions
  <2>. DEFINE next == IF is_psk_handshake["client"] THEN "CLIENT_EXPECT_FINISHED"
                      ELSE "CLIENT_EXPECT_CERTIFICATE_REQUEST_OR_CERTIFICATE"
  <2>1. ClientTakes("EE") /\ ClientStep(next) /\ next \in ClientFlight
    BY <1>2 DEF client_handle_encrypted_extensions, ClientFlight
  <2>2. state["client"] \in ClientFlight
    BY <2>1, ClientExpects DEF ClientFlight
  <2>3. /\ using_early_data' \in BOOLEAN /\ (using_early_data' => using_early_data)
        /\ early_data_acceptance' \in {"UNKNOWN", "REJECTED", "ACCEPTED"}
        /\ certificate_request' = certificate_request
    BY <1>1, <1>2 DEF client_handle_encrypted_extensions
  <2>. HIDE DEF next
  <2>. QED  BY <1>1, <2>1, <2>2, <2>3, ClientStepLocal
<1>3. CASE client_handle_certificate_request
  <2>1. /\ ClientTakes("CR") /\ ClientStep("CLIENT_EXPECT_CERTIFICATE")
        /\ "CLIENT_EXPECT_CERTIFICATE" \in ClientFlight
        /\ certificate_request' = TRUE /\ using_early_data' = using_early_data
        /\ early_data_acceptance' = early_data_acceptance
    BY <1>3 DEF client_handle_certificate_request, ClientFlight
  <2>2. state["client"] \in ClientFlight
    BY <2>1, ClientExpects DEF ClientFlight
  <2>. QED  BY <1>1, <2>1, <2>2, ClientStepLocal
<1>4. CASE client_handle_certificate
  <2>1. /\ ClientTakes("CERT") /\ ClientStep("CLIENT_EXPECT_CERTIFICATE_VERIFY")
        /\ "CLIENT_EXPECT_CERTIFICATE_VERIFY" \in ClientFlight
        /\ certificate_request' = certificate_request /\ using_early_data' = using_early_data
        /\ early_data_acceptance' = early_data_acceptance
    BY <1>4 DEF client_handle_certificate, ClientFlight
  <2>2. state["client"] \in ClientFlight
    BY <2>1, ClientExpects DEF ClientFlight
  <2>. QED  BY <1>1, <2>1, <2>2, ClientStepLocal
<1>5. CASE client_handle_certificate_verify
  <2>1. /\ ClientTakes("CV") /\ ClientStep("CLIENT_EXPECT_FINISHED")
        /\ "CLIENT_EXPECT_FINISHED" \in ClientFlight
        /\ certificate_request' = certificate_request /\ using_early_data' = using_early_data
        /\ early_data_acceptance' = early_data_acceptance
    BY <1>5 DEF client_handle_certificate_verify, ClientFlight
  <2>2. state["client"] \in ClientFlight
    BY <2>1, ClientExpects DEF ClientFlight
  <2>. QED  BY <1>1, <2>1, <2>2, ClientStepLocal
<1>. QED  BY <1>2, <1>3, <1>4, <1>5

(* What sequences hold.                                                     *)
LEMMA ElemsOf ==
  ASSUME NEW S
  PROVE  /\ \A q \in Seq(S) : Elems(q) \subseteq S
         /\ Elems(<<>>) = {}
         /\ \A x \in S : Elems(<<x>>) = {x}
         /\ \A p \in Seq(S), q \in Seq(S) :
              /\ p \o q \in Seq(S) /\ Len(p \o q) = Len(p) + Len(q)
              /\ Elems(p \o q) = Elems(p) \cup Elems(q)
         /\ \A q \in Seq(S), x \in S : Elems(Append(q, x)) = Elems(q) \cup {x}
         /\ \A q \in Seq(S) : q # <<>> => Elems(Tail(q)) \subseteq Elems(q) /\ q[1] \in Elems(q)
<1>1. /\ \A q \in Seq(S) : Elems(q) \subseteq S
      /\ Elems(<<>>) = {}
  BY DEF Elems
<1>2. ASSUME NEW x \in S PROVE Elems(<<x>>) = {x}
  <2>1. Len(<<x>>) = 1 /\ <<x>>[1] = x
    OBVIOUS
  <2>. QED  BY <2>1 DEF Elems
<1>3. ASSUME NEW p \in Seq(S), NEW q \in Seq(S)
      PROVE  /\ p \o q \in Seq(S) /\ Len(p \o q) = Len(p) + Len(q)
             /\ Elems(p \o q) = Elems(p) \cup Elems(q)
  <2>1. /\ p \o q \in Seq(S) /\ Len(p \o q) = Len(p) + Len(q)
        /\ Len(p) \in Nat /\ Len(q) \in Nat
        /\ \A i \in 1..Len(p) : (p \o q)[i] = p[i]
        /\ \A i \in 1..Len(q) : (p \o q)[Len(p) + i] = q[i]
    OBVIOUS
  <2>2. \A i \in 1..(Len(p) + Len(q)) : i \in 1..Len(p) \/ i - Len(p) \in 1..Len(q)
    BY <2>1
  <2>3. \A i \in 1..(Len(p) + Len(q)) : (p \o q)[i] \in Elems(p) \cup Elems(q)
    <3>. TAKE i \in 1..(Len(p) + Len(q))
    <3>1. CASE i \in 1..Len(p)
      BY <2>1, <3>1 DEF Elems
    <3>2. CASE i - Len(p) \in 1..Len(q)
      <4>1. (p \o q)[Len(p) + (i - Len(p))] = q[i - Len(p)] /\ Len(p) + (i - Len(p)) = i
        BY <2>1, <3>2
      <4>. QED  BY <3>2, <4>1 DEF Elems
    <3>. QED  BY <2>2, <3>1, <3>2
  <2>4. Elems(p) \subseteq Elems(p \o q)
    <3>1. \A i \in 1..Len(p) : i \in 1..Len(p \o q) /\ p[i] = (p \o q)[i]
      BY <2>1
    <3>. QED  BY <3>1 DEF Elems
  <2>5. Elems(q) \subseteq Elems(p \o q)
    <3>1. \A i \in 1..Len(q) : Len(p) + i \in 1..Len(p \o q) /\ q[i] = (p \o q)[Len(p) + i]
      BY <2>1
    <3>. QED  BY <3>1 DEF Elems
  <2>6. Elems(p \o q) \subseteq Elems(p) \cup Elems(q)
    BY <2>1, <2>3 DEF Elems
  <2>. QED  BY <2>1, <2>4, <2>5, <2>6
<1>4. ASSUME NEW q \in Seq(S), NEW x \in S PROVE Elems(Append(q, x)) = Elems(q) \cup {x}
  <2>1. /\ Len(Append(q, x)) = Len(q) + 1 /\ Len(q) \in Nat /\ Append(q, x)[Len(q) + 1] = x
        /\ \A i \in 1..Len(q) : Append(q, x)[i] = q[i]
    OBVIOUS
  <2>2. 1..(Len(q) + 1) = 1..Len(q) \cup {Len(q) + 1}
    BY <2>1
  <2>. QED  BY <2>1, <2>2 DEF Elems
<1>5. ASSUME NEW q \in Seq(S), q # <<>> PROVE Elems(Tail(q)) \subseteq Elems(q) /\ q[1] \in Elems(q)
  <2>1. /\ Len(Tail(q)) = Len(q) - 1 /\ Len(q) \in Nat /\ Len(q) > 0
        /\ \A i \in 1..(Len(q) - 1) : Tail(q)[i] = q[i + 1] /\ i + 1 \in 1..Len(q)
    BY <1>5
  <2>. QED  BY <2>1 DEF Elems
<1>. QED  BY <1>1, <1>2, <1>3, <1>4, <1>5

LEMMA WhenType ==
  ASSUME NEW cond \in BOOLEAN, NEW m \in Messages
  PROVE  /\ When(cond, m) \in Seq(Messages) /\ Len(When(cond, m)) \in Nat
         /\ cond => When(cond, m) = <<m>>
         /\ ~cond => When(cond, m) = <<>>
BY DEF When

(* The records of a flight carry its messages, in order.                    *)
LEMMA RecordsElems ==
  ASSUME NEW key \in Keys, NEW msgs \in Seq(Messages)
  PROVE  \A r \in Elems(Records(key, msgs)) :
           r.secret = key.secret /\ r.seq >= key.seq /\ r.msg \in Elems(msgs)
<1>1. /\ Len(Records(key, msgs)) = Len(msgs) /\ key.seq \in Nat
      /\ \A i \in 1..Len(msgs) :
              /\ Records(key, msgs)[i].secret = key.secret
              /\ Records(key, msgs)[i].seq = key.seq + i - 1
              /\ Records(key, msgs)[i].msg = msgs[i]
  BY RecordsType DEF Keys
<1>2. \A i \in 1..Len(msgs) : key.seq + i - 1 >= key.seq
  BY <1>1
<1>. HIDE DEF Records
<1>. QED  BY <1>1, <1>2 DEF Elems

(* The parts of client_handle_finished.                                     *)
FinTh1   == Append(transcript["client"], View(First("client").msg))
FinSched == Append(sched["client"], "0")
FinEarly == pending_handshake_secret["client"] # NoSecret /\ using_early_data
FinEoed  == When(FinEarly, Plain("EOED", {}))
FinKey   == IF pending_handshake_secret["client"] # NoSecret
            THEN commission_handshake_secret(pending_handshake_secret["client"])
            ELSE enc["client"]
FinTh2   == Hash(FinTh1, FinEoed)
FinCerts == IF certificate_request
            THEN Certificates("client", cfg.client_certificate, FinTh2) ELSE <<>>
FinTh3   == Hash(FinTh2, FinCerts)
FinMsg   == send_finished(FinKey.secret, FinTh3)

LEMMA FinishedType ==
  ASSUME NEW secret \in Secrets, NEW th \in Seq(Views)
  PROVE  /\ send_finished(secret, th) \in Messages
         /\ send_finished(secret, th).type = "FIN" /\ send_finished(secret, th).mac = <<secret, th>>
         /\ View(send_finished(secret, th)) = FinView
<1>1. Mac(secret, th) \in Macs /\ <<>> \in Cookies /\ "FIN" \in Names /\ {} \in SUBSET Names
  BY MessageTypes, NamesAre DEF Cookies
<1>2. send_finished(secret, th) \in Messages
  BY <1>1, MessageTypes DEF send_finished
<1>. QED  BY <1>2 DEF send_finished, Message, View, Mac, FinView

LEMMA ClientFinishedTypes ==
  ASSUME TypeInv, wire["server"] # <<>>
  PROVE  /\ FinTh1 \in Seq(Views) /\ FinTh2 \in Seq(Views) /\ FinTh3 \in Seq(Views)
         /\ FinSched \in Seq(Names) /\ Len(FinSched) = Len(sched["client"]) + 1
         /\ FinEoed \in Seq(Messages) /\ Plain("EOED", {}) \in Messages /\ FinEarly \in BOOLEAN
         /\ FinKey \in Keys /\ FinCerts \in Seq(Messages) /\ FinMsg \in Messages
         /\ Append(FinCerts, FinMsg) \in Seq(Messages)
         /\ Append(FinTh3, View(FinMsg)) \in Seq(Views) /\ Append(FinTh3, View(FinMsg)) # <<>>
<1>1. /\ transcript["client"] \in Seq(Views) /\ sched["client"] \in Seq(Names)
      /\ pending_handshake_secret["client"] \in Secrets /\ enc["client"] \in Keys
      /\ certificate_request \in BOOLEAN
  BY Sides DEF TypeInv
<1>2. First("client").msg \in Messages
  BY Sides, ReadTypes
<1>3. View(First("client").msg) \in Views
  BY <1>2, MessageTypes
<1>4. FinTh1 \in Seq(Views)
  BY <1>1, <1>3, AppendType DEF FinTh1
<1>5. FinSched \in Seq(Names) /\ Len(FinSched) = Len(sched["client"]) + 1
  <2>1. "0" \in Names
    BY NamesAre
  <2>. QED  BY <1>1, <2>1, AppendType DEF FinSched
<1>6. FinEarly \in BOOLEAN /\ Plain("EOED", {}) \in Messages
  <2>1. "EOED" \in Names /\ {} \in SUBSET Names
    BY NamesAre
  <2>2. FinEarly \in BOOLEAN
    BY DEF FinEarly, TypeInv
  <2>. QED  BY <2>1, <2>2, MessageTypes
<1>7. FinEoed \in Seq(Messages)
  BY <1>6, WhenType DEF FinEoed
<1>8. FinTh2 \in Seq(Views)
  BY <1>4, <1>7, HashType DEF FinTh2
<1>9. FinCerts \in Seq(Messages)
  <2>1. cfg.client_certificate \in Names /\ "client" \in Names
    BY ConfigTypes, NamesAre
  <2>2. Certificates("client", cfg.client_certificate, FinTh2) \in Seq(Messages)
    BY <1>8, <2>1, CertificatesType
  <2>. QED  BY <2>2 DEF FinCerts
<1>10. FinTh3 \in Seq(Views)
  BY <1>8, <1>9, HashType DEF FinTh3
<1>11. FinKey \in Keys
  BY <1>1, KeyTypes DEF FinKey, commission_handshake_secret
<1>12. FinMsg \in Messages
  <2>1. FinKey.secret \in Secrets
    BY <1>11 DEF Keys
  <2>. QED  BY <1>10, <2>1, FinishedType DEF FinMsg
<1>13. View(FinMsg) \in Views
  BY <1>12, MessageTypes
<1>. QED
  BY <1>4, <1>5, <1>6, <1>7, <1>8, <1>9, <1>10, <1>11, <1>12, <1>13, AppendType

FinRecords == Records(enc["client"], FinEoed) \o CCS(send_change_cipher_spec)
                \o Records(FinKey, Append(FinCerts, FinMsg))

LEMMA ClientFinished ==
  ASSUME client_handle_finished
  PROVE  /\ ClientTakes("FIN") /\ FinishedVerifies("client") /\ Consume("client")
         /\ certificate_request => ~is_psk_handshake["client"]
         /\ Check([finished_early_key |->
                     pending_handshake_secret["client"] # NoSecret => enc["client"].aead])
         /\ sched' = [sched EXCEPT !["client"] = FinSched]
         /\ dec' = [dec EXCEPT !["client"] = Key(Secret("s_ap_traffic", FinSched, FinTh1))]
         /\ using_early_data' =
              (using_early_data /\ pending_handshake_secret["client"] = NoSecret)
         /\ pending_handshake_secret' = [pending_handshake_secret EXCEPT !["client"] = NoSecret]
         /\ send_change_cipher_spec' = FALSE /\ certificate_request' = FALSE
         /\ transcript' = [transcript EXCEPT !["client"] = Append(FinTh3, View(FinMsg))]
         /\ enc' = [enc EXCEPT !["client"] = Key(Secret("c_ap_traffic", FinSched, FinTh1))]
         /\ state' = [state EXCEPT !["client"] = "CLIENT_POST_HANDSHAKE"]
         /\ Return("client", "OK")
         /\ cfg' = cfg /\ is_psk_handshake' = is_psk_handshake /\ offered_psk' = offered_psk
         /\ early_data_acceptance' = early_data_acceptance
         /\ max_early_data_size' = max_early_data_size /\ saved' = saved
         /\ faults' = faults /\ pending_traffic_secret' = pending_traffic_secret
         /\ early_data_skipped_bytes' = early_data_skipped_bytes
         /\ earlySent' = earlySent /\ earlyGot' = earlyGot
BY DEF client_handle_finished, serverVars, appVars, FinTh1, FinSched, FinEarly, FinEoed, FinKey,
       FinTh2, FinCerts, FinTh3, FinMsg

LEMMA ClientFinishedSends ==
  ASSUME TypeInv, wire["server"] # <<>>, client_handle_finished
  PROVE  /\ FinRecords \in Seq(Recs)
         /\ sendbuf' = [sendbuf EXCEPT !["client"] = sendbuf["client"] \o FinRecords]
         /\ sendbuf' \in [Side -> Seq(Recs)]
         /\ Elems(FinRecords) = Elems(Records(enc["client"], FinEoed))
              \cup Elems(CCS(send_change_cipher_spec))
              \cup Elems(Records(FinKey, Append(FinCerts, FinMsg)))
<1>. DEFINE a == Records(enc["client"], FinEoed)
            b == CCS(send_change_cipher_spec)
            c == Records(FinKey, Append(FinCerts, FinMsg))
<1>1. enc["client"] \in Keys /\ send_change_cipher_spec \in BOOLEAN /\ sendbuf["client"] \in Seq(Recs)
  BY Sides DEF TypeInv
<1>2. a \in Seq(Recs) /\ c \in Seq(Recs)
  BY <1>1, ClientFinishedTypes, RecordsType
<1>3. b \in Seq(Recs)
  BY <1>1, CCSType
<1>4. sendbuf' = [sendbuf EXCEPT !["client"] = sendbuf["client"] \o a \o b \o c]
  BY DEF client_handle_finished, FinTh1, FinSched, FinEarly, FinEoed, FinKey,
         FinTh2, FinCerts, FinTh3, FinMsg
<1>5. FinRecords = a \o b \o c
  BY DEF FinRecords
<1>. HIDE DEF a, b, c
<1>6. /\ a \o b \in Seq(Recs) /\ Elems(a \o b) = Elems(a) \cup Elems(b)
  BY <1>2, <1>3, ElemsOf
<1>7. /\ a \o b \o c \in Seq(Recs) /\ Elems(a \o b \o c) = Elems(a \o b) \cup Elems(c)
  <2>1. \A p \in Seq(Recs), q \in Seq(Recs) :
          p \o q \in Seq(Recs) /\ Elems(p \o q) = Elems(p) \cup Elems(q)
    BY ElemsOf
  <2>. QED  BY <1>2, <1>6, <2>1
<1>8. sendbuf["client"] \o a \o b \o c = sendbuf["client"] \o (a \o b \o c)
  <2>. DEFINE d == sendbuf["client"]
  <2>1. d \in Seq(Recs) /\ a \in Seq(Recs) /\ b \in Seq(Recs) /\ c \in Seq(Recs)
    BY <1>1, <1>2, <1>3
  <2>. HIDE DEF d
  <2>2. (d \o (a \o b)) \o c = d \o ((a \o b) \o c)
    BY <1>6, <2>1
  <2>3. (d \o a) \o b = d \o (a \o b)
    BY <2>1
  <2>. QED  BY <2>2, <2>3 DEF d
<1>9. sendbuf["client"] \o (a \o b \o c) \in Seq(Recs)
  BY <1>1, <1>7, ElemsOf
<1>10. sendbuf' \in [Side -> Seq(Recs)]
  BY <1>4, <1>8, <1>9 DEF TypeInv
<1>. QED  BY <1>4, <1>5, <1>6, <1>7, <1>8, <1>10 DEF a, b, c

LEMMA ClientFinishedLocal ==
  ASSUME LocalInv, client_handle_finished
  PROVE  LocalInv'
<1>. DEFINE rd == Secret("s_ap_traffic", FinSched, FinTh1)
            wr == Secret("c_ap_traffic", FinSched, FinTh1)
            th == Append(FinTh3, View(FinMsg))
<1>1. TypeInv /\ ClientInv /\ ServerInv /\ failedAsserts = {}
  BY DEF LocalInv
<1>2. /\ state["client"] = "CLIENT_EXPECT_FINISHED" /\ wire["server"] # <<>>
      /\ ret["client"] \in {"IN_PROGRESS", "OK"}
  BY ClientFinished, ClientExpects
<1>3. wire' \in [Side -> Seq(Recs)] /\ sendbuf' \in [Side -> Seq(Recs)]
  BY <1>1, <1>2, Sides, ReadTypes, ClientFinished, ClientFinishedSends
<1>4. /\ FinTh1 \in Seq(Views) /\ th \in Seq(Views) /\ th # <<>>
      /\ FinSched \in Seq(Names) /\ Len(FinSched) = 3
  <2>1. Len(sched["client"]) = 2
    BY <1>1, <1>2 DEF ClientInv, ClientFlight
  <2>. QED  BY <1>1, <1>2, <2>1, ClientFinishedTypes
<1>. HIDE DEF th
<1>5. rd \in Secrets /\ wr \in Secrets
  BY <1>4, NamesAre DEF Secret, Secrets
<1>. HIDE DEF rd, wr
<1>6. Key(rd) \in Keys /\ Key(wr) \in Keys /\ Key(wr).aead
  BY <1>5, KeyTypes
<1>7. ret["client"] = "IN_PROGRESS" /\ ret'["client"] = "OK" /\ ret' \in [Side -> Names]
      /\ ret'["server"] = ret["server"]
  <2>1. ret["client"] = "IN_PROGRESS"
    BY <1>1, <1>2 DEF ClientInv
  <2>2. ret' = [ret EXCEPT !["client"] = "OK"] /\ "OK" \in Names
    BY <2>1, ClientFinished, NamesAre DEF Return
  <2>. QED  BY <1>1, <2>1, <2>2, Sides DEF TypeInv
<1>8. /\ sched' = [sched EXCEPT !["client"] = FinSched]
      /\ dec' = [dec EXCEPT !["client"] = Key(rd)] /\ enc' = [enc EXCEPT !["client"] = Key(wr)]
      /\ pending_handshake_secret' = [pending_handshake_secret EXCEPT !["client"] = NoSecret]
      /\ transcript' = [transcript EXCEPT !["client"] = th]
      /\ state' = [state EXCEPT !["client"] = "CLIENT_POST_HANDSHAKE"]
  BY ClientFinished DEF rd, wr, th
<1>9. "CLIENT_POST_HANDSHAKE" \in States /\ NoSecret \in Secrets
  BY KeyTypes DEF States, PostHandshake
<1>10. /\ sched' \in [Side -> Seq(Names)] /\ transcript' \in [Side -> Seq(Views)]
       /\ enc' \in [Side -> Keys] /\ dec' \in [Side -> Keys] /\ state' \in [Side -> States]
       /\ pending_handshake_secret' \in [Side -> Secrets]
       /\ sched'["client"] = FinSched /\ sched'["server"] = sched["server"]
       /\ transcript'["client"] = th /\ enc'["client"] = Key(wr) /\ enc'["server"] = enc["server"]
       /\ pending_handshake_secret'["client"] = NoSecret
       /\ pending_handshake_secret'["server"] = pending_handshake_secret["server"]
       /\ state'["client"] = "CLIENT_POST_HANDSHAKE" /\ state'["server"] = state["server"]
  BY <1>1, <1>4, <1>6, <1>8, <1>9, Sides DEF TypeInv
<1>11. TypeInv'
  <2>1. /\ cfg' = cfg /\ is_psk_handshake' = is_psk_handshake /\ offered_psk' = offered_psk
        /\ early_data_acceptance' = early_data_acceptance
        /\ max_early_data_size' = max_early_data_size
        /\ faults' = faults /\ pending_traffic_secret' = pending_traffic_secret
        /\ early_data_skipped_bytes' = early_data_skipped_bytes
        /\ earlySent' = earlySent /\ earlyGot' = earlyGot
        /\ send_change_cipher_spec' = FALSE /\ certificate_request' = FALSE
        /\ using_early_data' =
              (using_early_data /\ pending_handshake_secret["client"] = NoSecret)
    BY ClientFinished
  <2>. QED  BY <1>1, <1>3, <1>7, <1>10, <2>1 DEF TypeInv
<1>12. ClientInv'
  BY <1>4, <1>6, <1>7, <1>10 DEF ClientInv, ClientHellos, ClientFlight
<1>13. ServerInv'
  BY <1>1, <1>7, <1>10, ServerKept
<1>14. QuietInv'
  BY <1>10 DEF QuietInv
<1>15. failedAsserts' = {}
  <2>. DEFINE one == pending_handshake_secret["client"] # NoSecret => enc["client"].aead
  <2>1. Check([finished_early_key |-> one])
    BY ClientFinished
  <2>2. one = TRUE
    BY <1>1 DEF ClientInv
  <2>. HIDE DEF one
  <2>. QED  BY <1>1, <2>1, <2>2 DEF Check
<1>. QED  BY <1>11, <1>12, <1>13, <1>14, <1>15 DEF LocalInv

LEMMA NewSessionTicketLocal ==
  ASSUME LocalInv, client_handle_new_session_ticket
  PROVE  LocalInv'
<1>1. /\ ClientTakes("NST") /\ Consume("client")
      /\ cfg' = cfg /\ state' = state /\ sched' = sched /\ transcript' = transcript
      /\ enc' = enc /\ pending_handshake_secret' = pending_handshake_secret
      /\ ret' = ret /\ sendbuf' = sendbuf /\ failedAsserts' = failedAsserts
      /\ using_early_data' = using_early_data /\ max_early_data_size' = max_early_data_size
  BY DEF client_handle_new_session_ticket, schedule, clientVars
<1>2. Ready("client") /\ wire["server"] # <<>>
  BY <1>1, ClientExpects
<1>3. wire' \in [Side -> Seq(Recs)]
  BY <1>1, <1>2, Sides, ReadTypes DEF LocalInv
<1>4. dec' \in [Side -> Keys]
  <2>1. Advance(dec["client"], 1) \in Keys
    BY Sides, KeyTypes DEF LocalInv, TypeInv
  <2>. QED  BY <2>1 DEF client_handle_new_session_ticket, LocalInv, TypeInv
<1>5. TypeInv'
  BY <1>1, <1>3, <1>4
     DEF LocalInv, TypeInv, client_handle_new_session_ticket, clientVars, serverVars
<1>6. ClientInv' /\ ServerInv'
  BY <1>1, ClientKept, ServerKept DEF LocalInv
<1>7. QuietInv'
  BY <1>1, <1>2, Sides, Started DEF QuietInv
<1>. QED  BY <1>1, <1>5, <1>6, <1>7 DEF LocalInv

LEMMA ClientErrorLocal ==
  ASSUME LocalInv, ClientError
  PROVE  LocalInv'
<1>1. PICK code \in Errors : Ready("client") /\ Fail("client", code) /\ failedAsserts' = failedAsserts
  BY DEF ClientError, Errors, ClientTakes, Accepts
<1>2. enc["client"] \in Keys /\ early_data_skipped_bytes' \in Nat \cup {UINT32_MAX}
  BY <1>1, Sides DEF LocalInv, TypeInv, Fail
<1>. QED  BY <1>1, <1>2, Sides, FailLocal DEF Fail

(* The server's handlers.                                                   *)
LEMMA ServerExpects ==
  ASSUME LocalInv, NEW type, ServerTakes(type)
  PROVE  /\ Ready("server") /\ wire["client"] # <<>> /\ ret["server"] \in {"IN_PROGRESS", "OK"}
         /\ First("server") = wire["client"][1] /\ First("server").msg.type = type
         /\ type = "CH" => state["server"] \in ServerHellos /\ ret["server"] = "IN_PROGRESS"
         /\ type = "EOED" => state["server"] = "SERVER_EXPECT_END_OF_EARLY_DATA"
         /\ type = "CERT" => state["server"] = "SERVER_EXPECT_CERTIFICATE"
         /\ type = "CV" => state["server"] = "SERVER_EXPECT_CERTIFICATE_VERIFY"
         /\ type = "FIN" => state["server"] = "SERVER_EXPECT_FINISHED"
<1>1. type \in Expected[state["server"]]
  BY DEF ServerTakes
<1>2. /\ Expected["SERVER_EXPECT_CLIENT_HELLO"] = {"CH"}
      /\ Expected["SERVER_EXPECT_SECOND_CLIENT_HELLO"] = {"CH"}
      /\ Expected["SERVER_EXPECT_CERTIFICATE"] = {"CERT"}
      /\ Expected["SERVER_EXPECT_CERTIFICATE_VERIFY"] = {"CV"}
      /\ Expected["SERVER_EXPECT_END_OF_EARLY_DATA"] = {"EOED"}
      /\ Expected["SERVER_EXPECT_FINISHED"] = {"FIN"}
      /\ Expected["SERVER_POST_HANDSHAKE"] = {}
  BY DEF Expected
<1>3. state["server"] \in ServerHandshake \cup {"SERVER_POST_HANDSHAKE"}
  BY DEF LocalInv, ServerInv
<1>4. /\ type = "CH" => state["server"] \in ServerHellos
      /\ type = "EOED" => state["server"] = "SERVER_EXPECT_END_OF_EARLY_DATA"
      /\ type = "CERT" => state["server"] = "SERVER_EXPECT_CERTIFICATE"
      /\ type = "CV" => state["server"] = "SERVER_EXPECT_CERTIFICATE_VERIFY"
      /\ type = "FIN" => state["server"] = "SERVER_EXPECT_FINISHED"
  BY <1>1, <1>2, <1>3 DEF ServerHandshake, ServerHellos
<1>5. /\ Ready("server") /\ wire["client"] # <<>> /\ ret["server"] \in {"IN_PROGRESS", "OK"}
      /\ First("server") = wire["client"][1] /\ First("server").msg.type = type
  BY Sides DEF ServerTakes, Accepts, Ready, First
<1>6. ret["server"] = "OK" => state["server"] \notin ServerHellos
  BY DEF LocalInv, ServerInv, MayReceive, PostHandshake, ServerHellos
<1>. QED  BY <1>4, <1>5, <1>6

LEMMA ServerRejectsHelloLocal ==
  ASSUME LocalInv, ServerRejectsHello
  PROVE  LocalInv'
<1>1. PICK code \in Errors : Ready("server") /\ Fail("server", code) /\ failedAsserts' = failedAsserts
  BY DEF ServerRejectsHello, HelloError, Errors, ServerTakes, Accepts
<1>2. enc["server"] \in Keys /\ early_data_skipped_bytes' \in Nat \cup {UINT32_MAX}
  BY <1>1, Sides DEF LocalInv, TypeInv, Fail
<1>. QED  BY <1>1, <1>2, Sides, FailLocal DEF Fail

LEMMA ServerErrorLocal ==
  ASSUME LocalInv, ServerError
  PROVE  LocalInv'
<1>1. PICK code \in Errors : Ready("server") /\ Fail("server", code) /\ failedAsserts' = failedAsserts
  BY DEF ServerError, Errors, ServerTakes, Accepts
<1>2. enc["server"] \in Keys /\ early_data_skipped_bytes' \in Nat \cup {UINT32_MAX}
  BY <1>1, Sides DEF LocalInv, TypeInv, Fail
<1>. QED  BY <1>1, <1>2, Sides, FailLocal DEF Fail

(* The HelloRetryRequest of a server that keeps its state.                  *)
RetryMessage(ch) == Plain("HRR", RetryExtensions(SharedGroup(ch) = "none", <<>>))
RetryRecords(ch) == Records(NoKey, <<RetryMessage(ch)>>) \o CCS("legacy_session_id" \in ch.has)

LEMMA RetryTypes ==
  ASSUME NEW ch \in Messages
  PROVE  /\ RetryMessage(ch) \in Messages /\ RetryMessage(ch).type = "HRR"
         /\ RetryRecords(ch) \in Seq(Recs)
         /\ \A r \in Elems(RetryRecords(ch)) : r.msg.type \in {"HRR", "CCS"}
<1>1. RetryMessage(ch) \in Messages /\ RetryMessage(ch).type = "HRR"
  <2>1. "HRR" \in Names /\ RetryExtensions(SharedGroup(ch) = "none", <<>>) \in SUBSET Names
    BY NamesAre DEF RetryExtensions, If
  <2>2. RetryMessage(ch) \in Messages
    BY <2>1, MessageTypes DEF RetryMessage
  <2>. QED  BY <2>2 DEF RetryMessage, Plain, Message
<1>. DEFINE a == Records(NoKey, <<RetryMessage(ch)>>)
            b == CCS("legacy_session_id" \in ch.has)
<1>2. a \in Seq(Recs) /\ \A r \in Elems(a) : r.msg = RetryMessage(ch)
  <2>1. a = <<[secret |-> NoKey.secret, seq |-> NoKey.seq, msg |-> RetryMessage(ch)]>>
        /\ [secret |-> NoKey.secret, seq |-> NoKey.seq, msg |-> RetryMessage(ch)] \in Recs
        /\ a \in Seq(Recs)
    BY <1>1, KeyTypes, OneRecord
  <2>. QED  BY <2>1, ElemsOf
<1>3. b \in Seq(Recs) /\ \A r \in Elems(b) : r.msg.type = "CCS"
  <2>1. ("legacy_session_id" \in ch.has) \in BOOLEAN
    OBVIOUS
  <2>2. b \in Seq(Recs) /\ \A i \in 1..Len(b) : b[i].msg = Plain("CCS", {})
    BY <2>1, CCSType
  <2>. HIDE DEF b
  <2>. QED  BY <2>2 DEF Elems, Plain, Message
<1>. HIDE DEF a, b
<1>4. a \o b \in Seq(Recs) /\ Elems(a \o b) = Elems(a) \cup Elems(b)
  BY <1>2, <1>3, ElemsOf
<1>. QED  BY <1>1, <1>2, <1>3, <1>4 DEF RetryRecords, a, b

LEMMA ServerRetryLocal ==
  ASSUME LocalInv, ServerRetry
  PROVE  LocalInv'
<1>. DEFINE ch == First("server").msg
            th0 == Append(transcript["server"], View(ch))
            th == Hash(ch1hash(th0), <<RetryMessage(ch)>>)
            out == sendbuf["server"] \o Records(NoKey, <<RetryMessage(ch)>>)
                      \o CCS("legacy_session_id" \in ch.has)
            ikm == Append(sched["server"], "0")
<1>1. /\ ServerTakes("CH") /\ Consume("server") /\ NeedsRetry(ch)
      /\ sched' = [sched EXCEPT !["server"] = ikm]
      /\ transcript' = [transcript EXCEPT !["server"] = th]
      /\ sendbuf' = [sendbuf EXCEPT !["server"] = out]
      /\ state' = [state EXCEPT !["server"] = "SERVER_EXPECT_SECOND_CLIENT_HELLO"]
      /\ early_data_skipped_bytes' =
            (IF "early_data" \in ch.has THEN 0 ELSE early_data_skipped_bytes)
  BY DEF ServerRetry, RetryMessage
<1>2. /\ cfg' = cfg /\ enc' = enc /\ dec' = dec
      /\ pending_handshake_secret' = pending_handshake_secret
      /\ is_psk_handshake' = is_psk_handshake
      /\ send_change_cipher_spec' = send_change_cipher_spec
      /\ offered_psk' = offered_psk /\ using_early_data' = using_early_data
      /\ certificate_request' = certificate_request
      /\ early_data_acceptance' = early_data_acceptance
      /\ max_early_data_size' = max_early_data_size
      /\ pending_traffic_secret' = pending_traffic_secret /\ ret' = ret
      /\ earlySent' = earlySent /\ earlyGot' = earlyGot /\ faults' = faults
  BY DEF ServerRetry, keys, clientVars, appVars
<1>3. TypeInv /\ ClientInv /\ ServerInv /\ failedAsserts = {}
  BY DEF LocalInv
<1>4. /\ state["server"] \in ServerHellos /\ wire["client"] # <<>> /\ Ready("server")
      /\ ch \in Messages /\ wire' \in [Side -> Seq(Recs)] /\ ret["server"] = "IN_PROGRESS"
  BY <1>1, <1>3, Sides, ServerExpects, ReadTypes
<1>5. state["server"] = "SERVER_EXPECT_CLIENT_HELLO" /\ sched["server"] = <<>>
  BY <1>1, <1>3, <1>4 DEF NeedsRetry, Stateful, ServerHellos, ServerInv
<1>6. th \in Seq(Views)
  <2>1. transcript["server"] \in Seq(Views) /\ View(ch) \in Views
    BY <1>3, <1>4, Sides, MessageTypes DEF TypeInv
  <2>2. th0 \in Seq(Views) /\ th0 # <<>>
    BY <2>1, AppendType
  <2>. HIDE DEF th0
  <2>3. ch1hash(th0) \in Seq(Views)
    BY <2>2, Ch1HashType
  <2>4. <<RetryMessage(ch)>> \in Seq(Messages)
    BY <1>4, RetryTypes
  <2>. QED  BY <2>3, <2>4, HashType
<1>7. ikm \in Seq(Names) /\ Len(ikm) = 1
  BY <1>5, NamesAre
<1>8. out \in Seq(Recs)
  <2>. DEFINE a == Records(NoKey, <<RetryMessage(ch)>>)
              b == CCS("legacy_session_id" \in ch.has)
              d == sendbuf["server"]
  <2>1. RetryMessage(ch) \in Messages /\ ("legacy_session_id" \in ch.has) \in BOOLEAN
    BY <1>4, RetryTypes
  <2>2. a \in Seq(Recs) /\ b \in Seq(Recs) /\ d \in Seq(Recs)
    BY <1>3, <2>1, Sides, KeyTypes, OneRecord, CCSType DEF TypeInv
  <2>. HIDE DEF a, b, d
  <2>3. (d \o a) \o b \in Seq(Recs)
    BY <2>2
  <2>. QED  BY <2>3 DEF a, b, d
<1>. HIDE DEF ch, th, ikm, out
<1>9. "SERVER_EXPECT_SECOND_CLIENT_HELLO" \in States
  BY DEF States, ServerHandshake
<1>10. /\ sched' \in [Side -> Seq(Names)] /\ transcript' \in [Side -> Seq(Views)]
       /\ sendbuf' \in [Side -> Seq(Recs)] /\ state' \in [Side -> States]
       /\ early_data_skipped_bytes' \in Nat \cup {UINT32_MAX}
       /\ sched'["server"] = ikm /\ sched'["client"] = sched["client"]
       /\ transcript'["client"] = transcript["client"] /\ state'["client"] = state["client"]
       /\ state'["server"] = "SERVER_EXPECT_SECOND_CLIENT_HELLO"
  BY <1>1, <1>3, <1>6, <1>7, <1>8, <1>9, Sides DEF TypeInv
<1>11. TypeInv'
  BY <1>2, <1>3, <1>4, <1>10 DEF TypeInv
<1>12. ClientInv'
  BY <1>2, <1>3, <1>10, ClientKept
<1>13. ServerInv'
  BY <1>2, <1>4, <1>7, <1>10 DEF ServerInv, ServerHandshake, ServerHellos
<1>14. QuietInv'
  BY <1>4, <1>10, Sides, Started DEF QuietInv
<1>15. failedAsserts' = {}
  <2>. DEFINE one == Len(sched["server"]) = 0
  <2>1. Check([retry_generation |-> one])
    BY DEF ServerRetry
  <2>2. one = TRUE
    BY <1>5
  <2>. HIDE DEF one
  <2>. QED  BY <1>3, <2>1, <2>2 DEF Check
<1>. QED  BY <1>11, <1>12, <1>13, <1>14, <1>15 DEF LocalInv

(* The HelloRetryRequest with a cookie.                                     *)
CookieMessage(ch) ==
    Message("HRR", RetryExtensions(SharedGroup(ch) = "none", Cookie(ch, "group1")), <<>>,
            Cookie(ch, "group1"))
CookieRecords(ch) == Records(NoKey, <<CookieMessage(ch)>>) \o CCS("legacy_session_id" \in ch.has)

LEMMA CookieTypes ==
  ASSUME NEW ch \in Messages
  PROVE  /\ CookieMessage(ch) \in Messages /\ CookieMessage(ch).type = "HRR"
         /\ CookieRecords(ch) \in Seq(Recs)
         /\ \A r \in Elems(CookieRecords(ch)) : r.msg.type \in {"HRR", "CCS"}
<1>1. Cookie(ch, "group1") \in Cookies
  <2>1. View(ch) \in Views
    BY MessageTypes
  <2>2. <<View(ch)>> \in Seq(Views) /\ <<View(ch)>> # <<>>
    BY <2>1
  <2>3. ch1hash(<<View(ch)>>) \in Seq(Views)
    BY <2>2, Ch1HashType
  <2>4. /\ Random(ch) \in SUBSET Names /\ {"group1"} \in SUBSET Names
        /\ (SharedGroup(ch) = "none") \in BOOLEAN
    BY NamesAre DEF Random
  <2>. QED  BY <2>3, <2>4 DEF Cookie, Cookies
<1>2. CookieMessage(ch) \in Messages /\ CookieMessage(ch).type = "HRR"
  <2>. DEFINE cookie == Cookie(ch, "group1")
  <2>1. /\ "HRR" \in Names /\ <<>> \in Macs /\ cookie \in Cookies
        /\ RetryExtensions(SharedGroup(ch) = "none", cookie) \in SUBSET Names
    BY <1>1, NamesAre DEF RetryExtensions, If, Macs
  <2>. HIDE DEF cookie
  <2>2. Message("HRR", RetryExtensions(SharedGroup(ch) = "none", cookie), <<>>, cookie) \in Messages
    BY <2>1, MessageTypes
  <2>. QED  BY <2>2 DEF CookieMessage, Message, cookie
<1>. DEFINE a == Records(NoKey, <<CookieMessage(ch)>>)
            b == CCS("legacy_session_id" \in ch.has)
<1>3. a \in Seq(Recs) /\ \A r \in Elems(a) : r.msg = CookieMessage(ch)
  <2>1. a = <<[secret |-> NoKey.secret, seq |-> NoKey.seq, msg |-> CookieMessage(ch)]>>
        /\ [secret |-> NoKey.secret, seq |-> NoKey.seq, msg |-> CookieMessage(ch)] \in Recs
        /\ a \in Seq(Recs)
    BY <1>2, KeyTypes, OneRecord
  <2>. QED  BY <2>1, ElemsOf
<1>4. b \in Seq(Recs) /\ \A r \in Elems(b) : r.msg.type = "CCS"
  <2>1. ("legacy_session_id" \in ch.has) \in BOOLEAN
    OBVIOUS
  <2>2. b \in Seq(Recs) /\ \A i \in 1..Len(b) : b[i].msg = Plain("CCS", {})
    BY <2>1, CCSType
  <2>. HIDE DEF b
  <2>. QED  BY <2>2 DEF Elems, Plain, Message
<1>. HIDE DEF a, b
<1>5. a \o b \in Seq(Recs) /\ Elems(a \o b) = Elems(a) \cup Elems(b)
  BY <1>3, <1>4, ElemsOf
<1>. QED  BY <1>2, <1>3, <1>4, <1>5 DEF CookieRecords, a, b

LEMMA ServerStatelessRetryLocal ==
  ASSUME LocalInv, ServerStatelessRetry
  PROVE  LocalInv'
<1>. DEFINE ch == First("server").msg
            out == wire["server"] \o Records(NoKey, <<CookieMessage(ch)>>)
                      \o CCS("legacy_session_id" \in ch.has)
<1>1. /\ ServerTakes("CH") /\ NeedsRetry(ch)
      /\ wire' = [client |-> Tail(wire["client"]), server |-> out]
  BY DEF ServerStatelessRetry, CookieMessage
<1>2. /\ cfg' = cfg /\ state' = state /\ sched' = sched /\ transcript' = transcript
      /\ enc' = enc /\ dec' = dec /\ pending_handshake_secret' = pending_handshake_secret
      /\ ret' = ret /\ sendbuf' = sendbuf
      /\ using_early_data' = using_early_data /\ max_early_data_size' = max_early_data_size
  BY DEF ServerStatelessRetry, schedule, keys, clientVars
<1>3. TypeInv /\ ClientInv /\ ServerInv /\ failedAsserts = {}
  BY DEF LocalInv
<1>4. /\ state["server"] \in ServerHellos /\ wire["client"] # <<>> /\ Ready("server")
      /\ ch \in Messages /\ ret["server"] = "IN_PROGRESS"
  BY <1>1, <1>3, Sides, ServerExpects, ReadTypes
<1>5. sched["server"] = <<>>
  BY <1>1, <1>3, <1>4 DEF NeedsRetry, Stateful, ServerHellos, ServerInv
<1>6. out \in Seq(Recs)
  <2>. DEFINE a == Records(NoKey, <<CookieMessage(ch)>>)
              b == CCS("legacy_session_id" \in ch.has)
              d == wire["server"]
  <2>1. CookieMessage(ch) \in Messages /\ ("legacy_session_id" \in ch.has) \in BOOLEAN
    BY <1>4, CookieTypes
  <2>2. a \in Seq(Recs) /\ b \in Seq(Recs) /\ d \in Seq(Recs)
    BY <1>3, <2>1, Sides, KeyTypes, OneRecord, CCSType DEF TypeInv
  <2>. HIDE DEF a, b, d
  <2>3. (d \o a) \o b \in Seq(Recs)
    BY <2>2
  <2>. QED  BY <2>3 DEF a, b, d
<1>7. wire' \in [Side -> Seq(Recs)]
  <2>. DEFINE rest == Tail(wire["client"])
  <2>1. rest \in Seq(Recs)
    BY <1>3, <1>4, Sides DEF TypeInv
  <2>2. wire' = [client |-> rest, server |-> out]
    BY <1>1
  <2>. HIDE DEF out, rest
  <2>3. [client |-> rest, server |-> out] \in [{"client", "server"} -> Seq(Recs)]
    BY <1>6, <2>1
  <2>. QED  BY <2>2, <2>3 DEF Side
<1>8. TypeInv'
  BY <1>2, <1>3, <1>7 DEF TypeInv, ServerStatelessRetry, clientVars, serverVars, appVars
<1>9. ClientInv' /\ ServerInv'
  BY <1>2, <1>3, ClientKept, ServerKept
<1>10. QuietInv'
  BY <1>2, <1>4, Sides, Started DEF QuietInv
<1>11. failedAsserts' = {}
  <2>. DEFINE one == Len(sched["server"]) = 0
  <2>1. Check([retry_generation |-> one])
    BY DEF ServerStatelessRetry
  <2>2. one = TRUE
    BY <1>5
  <2>. HIDE DEF one
  <2>. QED  BY <1>3, <2>1, <2>2 DEF Check
<1>. QED  BY <1>8, <1>9, <1>10, <1>11 DEF LocalInv

(* The parts of server_handle_hello.                                        *)
HelloKey(ch)   == Key(HandshakeSecret(ch, "s_hs_traffic"))
HelloTh1(ch)   == Hash(AfterHello(ch), Extensions(ch))
HelloCerts(ch) == IF FindsPsk(ch) THEN <<>>
                  ELSE Certificates("server", cfg.server_certificate, HelloTh1(ch))
HelloTh2(ch)   == Hash(HelloTh1(ch), HelloCerts(ch))
HelloFin(ch)   == send_finished(HelloKey(ch).secret, HelloTh2(ch))
HelloTh3(ch)   == Hash(HelloTh2(ch), <<HelloFin(ch)>>)
HelloSched(ch) == Append(HandshakeSched(ch), "0")
HelloApKey(ch) == Key(Secret("s_ap_traffic", HelloSched(ch), HelloTh3(ch)))
HelloTicket(ch) ==
    Message("NST", {},
            ResumptionSecret(HelloSched(ch), Predicted(HelloTh3(ch), AcceptsEarlyData(ch))), <<>>)
HelloNst(ch)   == When("ke_modes" \in ch.has /\ cfg.ticket_lifetime, HelloTicket(ch))
HelloFlight(ch) == Extensions(ch) \o HelloCerts(ch) \o <<HelloFin(ch)>>
HelloCCS(ch)   == CCS(~Stateful /\ "legacy_session_id" \in ch.has)
HelloRecords(ch) ==
    Records(NoKey, <<ServerHello(ch)>>) \o HelloCCS(ch) \o Records(HelloKey(ch), HelloFlight(ch))
        \o Records(HelloApKey(ch), HelloNst(ch))

LEMMA ExtensionsType ==
  ASSUME TypeInv, NEW ch \in Messages
  PROVE  LET ee == Plain("EE", If(AcceptsEarlyData(ch), "early_data"))
             cr == Plain("CR", {})
         IN  /\ Extensions(ch) \in Seq(Messages) /\ Len(Extensions(ch)) \in Nat
             /\ ee \in Messages /\ cr \in Messages /\ Extensions(ch)[1] = ee
             /\ Elems(Extensions(ch)) =
                  {ee} \cup (IF ~FindsPsk(ch) /\ cfg.require_client_authentication THEN {cr} ELSE {})
<1>. DEFINE ee == Plain("EE", If(AcceptsEarlyData(ch), "early_data"))
            cr == Plain("CR", {})
            asks == ~FindsPsk(ch) /\ cfg.require_client_authentication
<1>1. ee \in Messages /\ cr \in Messages
  <2>1. /\ "EE" \in Names /\ "CR" \in Names /\ {} \in SUBSET Names
        /\ If(AcceptsEarlyData(ch), "early_data") \in SUBSET Names
    BY NamesAre DEF If
  <2>. QED  BY <2>1, MessageTypes
<1>2. Extensions(ch) = <<ee>> \o When(asks, cr)
  BY DEF Extensions
<1>. HIDE DEF ee, cr, asks
<1>3. When(asks, cr) = IF asks THEN <<cr>> ELSE <<>>
  BY DEF When
<1>4. <<ee>> \in Seq(Messages) /\ <<cr>> \in Seq(Messages) /\ <<>> \in Seq(Messages)
  BY <1>1
<1>5. Elems(<<ee>>) = {ee} /\ Elems(<<cr>>) = {cr} /\ Elems(<<>>) = {}
  BY <1>1, ElemsOf
<1>6. /\ Extensions(ch) \in Seq(Messages)
      /\ Elems(Extensions(ch)) = {ee} \cup (IF asks THEN {cr} ELSE {})
  <2>1. \A p \in Seq(Messages), q \in Seq(Messages) :
          p \o q \in Seq(Messages) /\ Elems(p \o q) = Elems(p) \cup Elems(q)
    BY ElemsOf
  <2>2. CASE asks
    <3>. DEFINE x == <<ee>>
                y == <<cr>>
    <3>1. x \in Seq(Messages) /\ y \in Seq(Messages) /\ Extensions(ch) = x \o y
      BY <1>2, <1>3, <1>4, <2>2
    <3>2. Elems(x) = {ee} /\ Elems(y) = {cr}
      BY <1>5
    <3>. HIDE DEF x, y
    <3>. QED  BY <2>1, <2>2, <3>1, <3>2
  <2>3. CASE ~asks
    BY <1>2, <1>3, <1>4, <1>5, <2>1, <2>3
  <2>. QED  BY <2>2, <2>3
<1>7. Extensions(ch)[1] = ee
  <2>1. When(asks, cr) \in Seq(Messages)
    BY <1>3, <1>4
  <2>. HIDE DEF When
  <2>2. \A q \in Seq(Messages) : (<<ee>> \o q)[1] = ee
    BY <1>1
  <2>. QED  BY <1>2, <2>1, <2>2
<1>8. Len(Extensions(ch)) \in Nat
  BY <1>6
<1>. QED  BY <1>1, <1>6, <1>7, <1>8 DEF ee, cr, asks

LEMMA HelloTypes ==
  ASSUME TypeInv, ServerInv, state["server"] \in ServerHellos, NEW ch \in Messages
  PROVE  /\ Len(Base(ch)) = 1 /\ Base(ch) \in Seq(Names)
         /\ Before(ch) \in Seq(Views) /\ ServerHello(ch) \in Messages
         /\ AfterHello(ch) \in Seq(Views)
         /\ HandshakeSched(ch) \in Seq(Names)
         /\ \A label \in Names : HandshakeSecret(ch, label) \in Secrets
         /\ HelloKey(ch) \in Keys /\ HelloTh1(ch) \in Seq(Views)
         /\ HelloCerts(ch) \in Seq(Messages)
         /\ HelloTh2(ch) \in Seq(Views) /\ HelloFin(ch) \in Messages
         /\ HelloTh3(ch) \in Seq(Views)
         /\ HelloSched(ch) \in Seq(Names) /\ Len(HelloSched(ch)) = 3
         /\ \A label \in Names : Secret(label, HelloSched(ch), HelloTh3(ch)) \in Secrets
         /\ HelloApKey(ch) \in Keys
<1>1. Len(Base(ch)) = 1 /\ Base(ch) \in Seq(Names)
  <2>1. CASE Stateful
    BY <2>1, Sides DEF Base, Stateful, ServerInv, TypeInv
  <2>2. CASE ~Stateful
    <3>1. <<"psk">> \in Seq(Names) /\ <<"0">> \in Seq(Names)
      BY NamesAre
    <3>. QED  BY <2>2, <3>1 DEF Base
  <2>. QED  BY <2>1, <2>2
<1>2. Before(ch) \in Seq(Views)
  <2>1. CASE ~CookieFlight(ch)
    BY <2>1, Sides DEF Before, TypeInv
  <2>2. CASE CookieFlight(ch)
    <3>1. ch.cookie \in Cookies /\ ch.cookie # <<>>
      BY <2>2 DEF CookieFlight, Messages
    <3>2. ch.cookie[1] \in Seq(Views)
      BY <3>1 DEF Cookies
    <3>. DEFINE hrr == Plain("HRR", RetryExtensions(ch.cookie[4], ch.cookie))
    <3>3. hrr \in Messages
      <4>1. "HRR" \in Names /\ RetryExtensions(ch.cookie[4], ch.cookie) \in SUBSET Names
        BY NamesAre DEF RetryExtensions, If
      <4>. QED  BY <4>1, MessageTypes
    <3>4. Before(ch) = Hash(ch.cookie[1], <<hrr>>)
      BY <2>2 DEF Before
    <3>. HIDE DEF hrr
    <3>5. <<hrr>> \in Seq(Messages)
      BY <3>3
    <3>. QED  BY <3>2, <3>4, <3>5, HashType
  <2>. QED  BY <2>1, <2>2
<1>3. ServerHello(ch) \in Messages
  <2>1. "SH" \in Names /\ If(FindsPsk(ch), "psk") \cup If(Dhe(ch), "key_share") \in SUBSET Names
    BY NamesAre DEF If
  <2>. QED  BY <2>1, MessageTypes DEF ServerHello
<1>4. AfterHello(ch) \in Seq(Views)
  <2>1. <<ch, ServerHello(ch)>> \in Seq(Messages)
    BY <1>3
  <2>. QED  BY <1>2, <2>1, HashType DEF AfterHello
<1>5. HandshakeSched(ch) \in Seq(Names) /\ Len(HandshakeSched(ch)) = 2
  <2>. DEFINE input == IF Dhe(ch) THEN "dhe" ELSE "0"
  <2>1. input \in Names
    BY NamesAre
  <2>2. HandshakeSched(ch) = Append(Base(ch), input)
    BY DEF HandshakeSched
  <2>. HIDE DEF input
  <2>3. Append(Base(ch), input) \in Seq(Names) /\ Len(Append(Base(ch), input)) = Len(Base(ch)) + 1
    BY <1>1, <2>1, AppendType
  <2>. QED  BY <1>1, <2>2, <2>3
<1>6. \A label \in Names : HandshakeSecret(ch, label) \in Secrets
  BY <1>4, <1>5 DEF HandshakeSecret, Secret, Secrets
<1>7. HelloKey(ch) \in Keys /\ HelloKey(ch).secret \in Secrets
  <2>1. HandshakeSecret(ch, "s_hs_traffic") \in Secrets
    BY <1>6, NamesAre
  <2>. QED  BY <2>1, KeyTypes DEF HelloKey
<1>8. HelloTh1(ch) \in Seq(Views)
  BY <1>4, ExtensionsType, HashType DEF HelloTh1
<1>9. HelloCerts(ch) \in Seq(Messages)
  <2>1. cfg.server_certificate \in Names /\ "server" \in Names
    BY ConfigTypes, NamesAre
  <2>2. Certificates("server", cfg.server_certificate, HelloTh1(ch)) \in Seq(Messages)
    BY <1>8, <2>1, CertificatesType
  <2>. QED  BY <2>2 DEF HelloCerts
<1>10. HelloTh2(ch) \in Seq(Views)
  BY <1>8, <1>9, HashType DEF HelloTh2
<1>11. HelloFin(ch) \in Messages
  BY <1>7, <1>10, FinishedType DEF HelloFin
<1>12. HelloTh3(ch) \in Seq(Views)
  <2>1. <<HelloFin(ch)>> \in Seq(Messages)
    BY <1>11
  <2>. QED  BY <1>10, <2>1, HashType DEF HelloTh3
<1>13. HelloSched(ch) \in Seq(Names) /\ Len(HelloSched(ch)) = 3
  <2>1. "0" \in Names
    BY NamesAre
  <2>2. HelloSched(ch) \in Seq(Names) /\ Len(HelloSched(ch)) = Len(HandshakeSched(ch)) + 1
    BY <1>5, <2>1, AppendType DEF HelloSched
  <2>. QED  BY <1>5, <2>2
<1>14. \A label \in Names : Secret(label, HelloSched(ch), HelloTh3(ch)) \in Secrets
  BY <1>12, <1>13 DEF Secret, Secrets
<1>15. HelloApKey(ch) \in Keys
  <2>1. Secret("s_ap_traffic", HelloSched(ch), HelloTh3(ch)) \in Secrets
    BY <1>14, NamesAre
  <2>. QED  BY <2>1, KeyTypes DEF HelloApKey
<1>. QED
  BY <1>1, <1>2, <1>3, <1>4, <1>5, <1>6, <1>7, <1>8, <1>9, <1>10, <1>11, <1>12, <1>13, <1>14, <1>15

LEMMA TicketType ==
  ASSUME NEW ikm \in Seq(Names), NEW th \in Seq(Views), NEW b \in BOOLEAN
  PROVE  /\ Predicted(th, b) \in Seq(Views)
         /\ ResumptionSecret(ikm, Predicted(th, b)) \in Macs
<1>1. Plain("EOED", {}) \in Messages /\ Plain("FIN", {}) \in Messages
  <2>1. "EOED" \in Names /\ "FIN" \in Names /\ {} \in SUBSET Names
    BY NamesAre
  <2>. QED  BY <2>1, MessageTypes
<1>. DEFINE eoed == When(b, Plain("EOED", {}))
            fin == <<Plain("FIN", {})>>
<1>2. eoed \in Seq(Messages) /\ fin \in Seq(Messages)
  BY <1>1, WhenType
<1>3. Predicted(th, b) = Hash(th, eoed \o fin)
  BY DEF Predicted
<1>. HIDE DEF eoed, fin
<1>4. eoed \o fin \in Seq(Messages)
  BY <1>2, ElemsOf
<1>5. Predicted(th, b) \in Seq(Views)
  BY <1>3, <1>4, HashType
<1>6. Secret("res_master", ikm, Predicted(th, b)) \in Secrets /\ <<>> \in Seq(Views)
  BY <1>5, NamesAre DEF Secret, Secrets
<1>. QED  BY <1>5, <1>6, MessageTypes DEF ResumptionSecret

LEMMA HelloSends ==
  ASSUME TypeInv, ServerInv, state["server"] \in ServerHellos, NEW ch \in Messages
  PROVE  /\ HelloTicket(ch) \in Messages /\ HelloTicket(ch).type = "NST"
         /\ HelloNst(ch) \in Seq(Messages) /\ Len(HelloNst(ch)) \in Nat
         /\ HelloRecords(ch) \in Seq(Recs)
         /\ sendbuf["server"] \o Records(NoKey, <<ServerHello(ch)>>) \o HelloCCS(ch)
              \o Records(HelloKey(ch), HelloFlight(ch)) \o Records(HelloApKey(ch), HelloNst(ch))
            = sendbuf["server"] \o HelloRecords(ch)
         /\ \A r \in Elems(HelloRecords(ch)) :
              \/ r.msg = ServerHello(ch) /\ r.secret = NoSecret
              \/ r.msg.type = "CCS"
              \/ /\ r.secret = HelloKey(ch).secret
                 /\ \/ r.msg \in Elems(Extensions(ch)) \/ r.msg \in Elems(HelloCerts(ch))
                    \/ r.msg = HelloFin(ch)
              \/ r.secret = HelloApKey(ch).secret /\ r.msg = HelloTicket(ch)
<1>1. HelloTicket(ch) \in Messages /\ HelloTicket(ch).type = "NST"
  <2>1. AcceptsEarlyData(ch) \in BOOLEAN
    BY ConfigTypes DEF AcceptsEarlyData, Config
  <2>2. ResumptionSecret(HelloSched(ch), Predicted(HelloTh3(ch), AcceptsEarlyData(ch))) \in Macs
    BY <2>1, HelloTypes, TicketType
  <2>3. "NST" \in Names /\ {} \in SUBSET Names /\ <<>> \in Cookies
    BY NamesAre DEF Cookies
  <2>4. HelloTicket(ch) \in Messages
    BY <2>2, <2>3, MessageTypes DEF HelloTicket
  <2>. QED  BY <2>4 DEF HelloTicket, Message
<1>2. /\ HelloNst(ch) \in Seq(Messages) /\ Len(HelloNst(ch)) \in Nat
      /\ \A m \in Elems(HelloNst(ch)) : m = HelloTicket(ch)
  <2>1. ("ke_modes" \in ch.has /\ cfg.ticket_lifetime) \in BOOLEAN
    BY ConfigTypes DEF Config
  <2>2. /\ HelloNst(ch) \in Seq(Messages) /\ Len(HelloNst(ch)) \in Nat
        /\ HelloNst(ch) = <<HelloTicket(ch)>> \/ HelloNst(ch) = <<>>
    BY <1>1, <2>1, WhenType DEF HelloNst
  <2>. QED  BY <1>1, <2>2, ElemsOf
<1>3. /\ HelloFlight(ch) \in Seq(Messages)
      /\ Elems(HelloFlight(ch)) =
           Elems(Extensions(ch)) \cup Elems(HelloCerts(ch)) \cup {HelloFin(ch)}
  <2>. DEFINE x == Extensions(ch)
              y == HelloCerts(ch)
              z == <<HelloFin(ch)>>
  <2>1. x \in Seq(Messages) /\ y \in Seq(Messages) /\ z \in Seq(Messages) /\ Elems(z) = {HelloFin(ch)}
    BY ExtensionsType, HelloTypes, ElemsOf
  <2>2. HelloFlight(ch) = x \o y \o z
    BY DEF HelloFlight
  <2>. HIDE DEF x, y, z
  <2>3. \A p \in Seq(Messages), q \in Seq(Messages) :
          p \o q \in Seq(Messages) /\ Elems(p \o q) = Elems(p) \cup Elems(q)
    BY ElemsOf
  <2>4. x \o y \in Seq(Messages) /\ Elems(x \o y) = Elems(x) \cup Elems(y)
    BY <2>1, <2>3
  <2>5. x \o y \o z \in Seq(Messages) /\ Elems(x \o y \o z) = Elems(x \o y) \cup Elems(z)
    BY <2>1, <2>3, <2>4
  <2>. QED  BY <2>1, <2>2, <2>4, <2>5 DEF x, y
<1>. DEFINE a == Records(NoKey, <<ServerHello(ch)>>)
            b == HelloCCS(ch)
            c == Records(HelloKey(ch), HelloFlight(ch))
            d == Records(HelloApKey(ch), HelloNst(ch))
            e == sendbuf["server"]
<1>4. a \in Seq(Recs) /\ \A r \in Elems(a) : r.msg = ServerHello(ch) /\ r.secret = NoSecret
  <2>. DEFINE q == [secret |-> NoKey.secret, seq |-> NoKey.seq, msg |-> ServerHello(ch)]
  <2>1. a = <<q>> /\ q \in Recs /\ a \in Seq(Recs)
    BY HelloTypes, KeyTypes, OneRecord
  <2>2. q.msg = ServerHello(ch) /\ q.secret = NoSecret
    BY DEF NoKey
  <2>. HIDE DEF q
  <2>. QED  BY <2>1, <2>2, ElemsOf
<1>5. b \in Seq(Recs) /\ \A r \in Elems(b) : r.msg.type = "CCS"
  <2>1. (~Stateful /\ "legacy_session_id" \in ch.has) \in BOOLEAN
    BY DEF Stateful
  <2>2. b \in Seq(Recs) /\ \A i \in 1..Len(b) : b[i].msg = Plain("CCS", {})
    BY <2>1, CCSType DEF HelloCCS
  <2>. HIDE DEF b
  <2>. QED  BY <2>2 DEF Elems, Plain, Message
<1>6. c \in Seq(Recs) /\ \A r \in Elems(c) : r.secret = HelloKey(ch).secret /\ r.msg \in Elems(HelloFlight(ch))
  BY <1>3, HelloTypes, RecordsType, RecordsElems
<1>7. d \in Seq(Recs) /\ \A r \in Elems(d) : r.secret = HelloApKey(ch).secret /\ r.msg = HelloTicket(ch)
  <2>1. d \in Seq(Recs)
    BY <1>2, HelloTypes, RecordsType
  <2>2. \A r \in Elems(d) : r.secret = HelloApKey(ch).secret /\ r.msg \in Elems(HelloNst(ch))
    BY <1>2, HelloTypes, RecordsElems
  <2>. QED  BY <1>2, <2>1, <2>2
<1>8. e \in Seq(Recs)
  BY Sides DEF TypeInv
<1>9. HelloRecords(ch) = a \o b \o c \o d
  BY DEF HelloRecords
<1>. HIDE DEF a, b, c, d, e
<1>10. \A p \in Seq(Recs), q \in Seq(Recs) :
          p \o q \in Seq(Recs) /\ Elems(p \o q) = Elems(p) \cup Elems(q)
  BY ElemsOf
<1>11. a \o b \in Seq(Recs) /\ Elems(a \o b) = Elems(a) \cup Elems(b)
  BY <1>4, <1>5, <1>10
<1>12. a \o b \o c \in Seq(Recs) /\ Elems(a \o b \o c) = Elems(a \o b) \cup Elems(c)
  BY <1>6, <1>10, <1>11
<1>13. a \o b \o c \o d \in Seq(Recs) /\ Elems(a \o b \o c \o d) = Elems(a \o b \o c) \cup Elems(d)
  BY <1>7, <1>10, <1>12
<1>14. e \o a \o b \o c \o d = e \o (a \o b \o c \o d)
  <2>1. (e \o a) \o b = e \o (a \o b)
    BY <1>4, <1>5, <1>8
  <2>. DEFINE ab == a \o b
  <2>2. ab \in Seq(Recs)
    BY <1>11
  <2>. HIDE DEF ab
  <2>3. (e \o ab) \o c = e \o (ab \o c)
    BY <1>6, <1>8, <2>2
  <2>. DEFINE abc == ab \o c
  <2>4. abc \in Seq(Recs)
    BY <1>12 DEF ab
  <2>. HIDE DEF abc
  <2>5. (e \o abc) \o d = e \o (abc \o d)
    BY <1>7, <1>8, <2>4
  <2>. QED  BY <2>1, <2>3, <2>5 DEF ab, abc
<1>15. \A r \in Elems(HelloRecords(ch)) :
         r \in Elems(a) \/ r \in Elems(b) \/ r \in Elems(c) \/ r \in Elems(d)
  BY <1>9, <1>11, <1>12, <1>13
<1>16. \A r \in Elems(HelloRecords(ch)) :
              \/ r.msg = ServerHello(ch) /\ r.secret = NoSecret
              \/ r.msg.type = "CCS"
              \/ /\ r.secret = HelloKey(ch).secret
                 /\ \/ r.msg \in Elems(Extensions(ch)) \/ r.msg \in Elems(HelloCerts(ch))
                    \/ r.msg = HelloFin(ch)
              \/ r.secret = HelloApKey(ch).secret /\ r.msg = HelloTicket(ch)
  BY <1>3, <1>4, <1>5, <1>6, <1>7, <1>15
<1>. QED  BY <1>1, <1>2, <1>9, <1>13, <1>14, <1>16 DEF a, b, c, d, e

LEMMA ServerSignFailsLocal ==
  ASSUME LocalInv, ServerSignFails
  PROVE  LocalInv'
<1>. DEFINE ch == First("server").msg
            n == Len(Extensions(ch)) + 1
            key == Advance(HelloKey(ch), n)
<1>1. /\ ServerTakes("CH") /\ FailWith("server", "HANDSHAKE_FAILURE", key)
      /\ early_data_skipped_bytes' = early_data_skipped_bytes /\ failedAsserts' = failedAsserts
  BY DEF ServerSignFails, HelloKey
<1>2. TypeInv /\ ServerInv
  BY DEF LocalInv
<1>3. Ready("server") /\ state["server"] \in ServerHellos /\ ch \in Messages
  BY <1>1, <1>2, Sides, ServerExpects, ReadTypes
<1>4. HelloKey(ch) \in Keys /\ HelloKey(ch).aead
  <2>1. HelloKey(ch) \in Keys
    BY <1>2, <1>3, HelloTypes
  <2>. QED  BY <2>1 DEF HelloKey, Key
<1>5. n \in Nat
  BY <1>2, <1>3, ExtensionsType
<1>. HIDE DEF n
<1>6. key \in Keys /\ key.aead
  BY <1>4, <1>5, KeyTypes
<1>7. "HANDSHAKE_FAILURE" \in Errors /\ early_data_skipped_bytes' \in Nat \cup {UINT32_MAX}
  BY <1>1, <1>2 DEF Errors, TypeInv
<1>. HIDE DEF key, ch
<1>. QED  BY <1>1, <1>3, <1>6, <1>7, Sides, FailLocal

LEMMA ServerHelloParts ==
  ASSUME server_handle_hello
  PROVE  LET ch == First("server").msg IN
         /\ ServerTakes("CH") /\ Consume("server")
         /\ ~NeedsRetry(ch) /\ HelloError(ch) = "none"
         /\ ~FindsPsk(ch) => cfg.server_certificate # "signfails"
         /\ is_psk_handshake' = [is_psk_handshake EXCEPT !["server"] = FindsPsk(ch)]
         /\ sched' = [sched EXCEPT !["server"] = HelloSched(ch)]
         /\ transcript' = [transcript EXCEPT !["server"] = HelloTh3(ch)]
         /\ AcceptsEarlyData(ch) =>
              /\ dec' = [dec EXCEPT !["server"] =
                            Key(Secret("c_e_traffic", Base(ch), Hash(Before(ch), <<ch>>)))]
              /\ pending_handshake_secret' = [pending_handshake_secret EXCEPT !["server"] =
                                                HandshakeSecret(ch, "c_hs_traffic")]
              /\ early_data_skipped_bytes' = early_data_skipped_bytes
         /\ ~AcceptsEarlyData(ch) =>
              /\ dec' = [dec EXCEPT !["server"] = Key(HandshakeSecret(ch, "c_hs_traffic"))]
              /\ early_data_skipped_bytes' =
                    (IF "early_data" \in ch.has THEN 0 ELSE early_data_skipped_bytes)
              /\ pending_handshake_secret' = pending_handshake_secret
         /\ enc' = [enc EXCEPT !["server"] = Advance(HelloApKey(ch), Len(HelloNst(ch)))]
         /\ pending_traffic_secret' = Secret("c_ap_traffic", HelloSched(ch), HelloTh3(ch))
         /\ state' = [state EXCEPT !["server"] =
                        IF AcceptsEarlyData(ch) THEN "SERVER_EXPECT_END_OF_EARLY_DATA"
                        ELSE IF cfg.require_client_authentication THEN "SERVER_EXPECT_CERTIFICATE"
                        ELSE "SERVER_EXPECT_FINISHED"]
         /\ Return("server", IF cfg.require_client_authentication THEN "IN_PROGRESS" ELSE "OK")
         /\ cfg' = cfg /\ send_change_cipher_spec' = send_change_cipher_spec
         /\ offered_psk' = offered_psk /\ using_early_data' = using_early_data
         /\ certificate_request' = certificate_request
         /\ early_data_acceptance' = early_data_acceptance
         /\ max_early_data_size' = max_early_data_size /\ saved' = saved
         /\ earlySent' = earlySent /\ earlyGot' = earlyGot /\ faults' = faults
BY DEF server_handle_hello, clientVars, appVars, HelloKey, HelloTh1, HelloCerts, HelloTh2, HelloFin,
       HelloTh3, HelloSched, HelloApKey, HelloTicket, HelloNst

LEMMA ServerHelloSends ==
  ASSUME LocalInv, server_handle_hello
  PROVE  LET ch == First("server").msg IN
         /\ sendbuf' = [sendbuf EXCEPT !["server"] = sendbuf["server"] \o HelloRecords(ch)]
         /\ sendbuf' \in [Side -> Seq(Recs)]
         /\ state["server"] \in ServerHellos /\ ret["server"] = "IN_PROGRESS"
         /\ wire["client"] # <<>> /\ First("server") = wire["client"][1]
         /\ Ready("server") /\ ch \in Messages /\ ch.type = "CH"
<1>. DEFINE ch == First("server").msg
<1>1. TypeInv /\ ServerInv
  BY DEF LocalInv
<1>2. ServerTakes("CH")
  BY ServerHelloParts
<1>3. /\ state["server"] \in ServerHellos /\ ret["server"] = "IN_PROGRESS" /\ Ready("server")
      /\ ch \in Messages /\ ch.type = "CH" /\ wire["client"] # <<>>
      /\ First("server") = wire["client"][1]
  BY <1>1, <1>2, Sides, ServerExpects, ReadTypes
<1>4. sendbuf' = [sendbuf EXCEPT !["server"] =
                    sendbuf["server"] \o Records(NoKey, <<ServerHello(ch)>>) \o HelloCCS(ch)
                      \o Records(HelloKey(ch), HelloFlight(ch))
                      \o Records(HelloApKey(ch), HelloNst(ch))]
  BY DEF server_handle_hello, HelloKey, HelloTh1, HelloCerts, HelloTh2, HelloFin,
         HelloTh3, HelloSched, HelloApKey, HelloTicket, HelloNst, HelloFlight, HelloCCS
<1>. HIDE DEF ch
<1>5. /\ sendbuf' = [sendbuf EXCEPT !["server"] = sendbuf["server"] \o HelloRecords(ch)]
      /\ HelloRecords(ch) \in Seq(Recs)
  BY <1>1, <1>3, <1>4, HelloSends
<1>6. sendbuf' \in [Side -> Seq(Recs)]
  <2>1. sendbuf["server"] \o HelloRecords(ch) \in Seq(Recs)
    BY <1>1, <1>5, Sides DEF TypeInv
  <2>. QED  BY <1>1, <1>5, <2>1 DEF TypeInv
<1>. QED  BY <1>3, <1>5, <1>6 DEF ch

LEMMA ServerHandleHelloLocal ==
  ASSUME LocalInv, server_handle_hello
  PROVE  LocalInv'
<1>. DEFINE ch == First("server").msg
            early == AcceptsEarlyData(ch)
            er == Secret("c_e_traffic", Base(ch), Hash(Before(ch), <<ch>>))
            hs == HandshakeSecret(ch, "c_hs_traffic")
            ap == Advance(HelloApKey(ch), Len(HelloNst(ch)))
            pts == Secret("c_ap_traffic", HelloSched(ch), HelloTh3(ch))
            next == IF early THEN "SERVER_EXPECT_END_OF_EARLY_DATA"
                    ELSE IF cfg.require_client_authentication THEN "SERVER_EXPECT_CERTIFICATE"
                    ELSE "SERVER_EXPECT_FINISHED"
            r == IF cfg.require_client_authentication THEN "IN_PROGRESS" ELSE "OK"
<1>1. TypeInv /\ ClientInv /\ ServerInv /\ failedAsserts = {}
  BY DEF LocalInv
<1>2. /\ sendbuf' \in [Side -> Seq(Recs)] /\ state["server"] \in ServerHellos
      /\ ret["server"] = "IN_PROGRESS" /\ wire["client"] # <<>> /\ Ready("server")
      /\ ch \in Messages
  BY ServerHelloSends
<1>3. wire' \in [Side -> Seq(Recs)]
  BY <1>1, <1>2, Sides, ReadTypes, ServerHelloParts
<1>4. early \in BOOLEAN /\ FindsPsk(ch) \in BOOLEAN /\ (early => ~cfg.require_client_authentication)
  BY <1>1, ConfigTypes DEF AcceptsEarlyData, FindsPsk, TriesPsk, Config
<1>5. er \in Secrets
  <2>1. Hash(Before(ch), <<ch>>) \in Seq(Views)
    <3>1. <<ch>> \in Seq(Messages)
      BY <1>2
    <3>. QED  BY <1>1, <1>2, <3>1, HelloTypes, HashType
  <2>. QED  BY <1>1, <1>2, <2>1, HelloTypes, NamesAre DEF Secret, Secrets
<1>6. hs \in Secrets /\ hs # NoSecret
  <2>1. hs \in Secrets
    BY <1>1, <1>2, HelloTypes, NamesAre
  <2>. QED  BY <2>1 DEF HandshakeSecret, Secret, NoSecret
<1>7. ap \in Keys /\ ap.aead
  <2>1. HelloApKey(ch) \in Keys /\ Len(HelloNst(ch)) \in Nat
    BY <1>1, <1>2, HelloTypes, HelloSends
  <2>2. HelloApKey(ch).aead
    BY DEF HelloApKey, Key
  <2>. QED  BY <2>1, <2>2, KeyTypes
<1>8. pts \in Secrets
  BY <1>1, <1>2, HelloTypes, NamesAre
<1>9. /\ HelloSched(ch) \in Seq(Names) /\ Len(HelloSched(ch)) = 3 /\ HelloTh3(ch) \in Seq(Views)
      /\ Len(Base(ch)) = 1
  BY <1>1, <1>2, HelloTypes
<1>10. /\ is_psk_handshake' = [is_psk_handshake EXCEPT !["server"] = FindsPsk(ch)]
       /\ sched' = [sched EXCEPT !["server"] = HelloSched(ch)]
       /\ transcript' = [transcript EXCEPT !["server"] = HelloTh3(ch)]
       /\ enc' = [enc EXCEPT !["server"] = ap]
       /\ pending_traffic_secret' = pts
       /\ state' = [state EXCEPT !["server"] = next]
       /\ Return("server", r)
  BY ServerHelloParts
<1>11. /\ early => /\ dec' = [dec EXCEPT !["server"] = Key(er)]
                   /\ pending_handshake_secret' = [pending_handshake_secret EXCEPT !["server"] = hs]
                   /\ early_data_skipped_bytes' = early_data_skipped_bytes
       /\ ~early => /\ dec' = [dec EXCEPT !["server"] = Key(hs)]
                    /\ early_data_skipped_bytes' =
                          (IF "early_data" \in ch.has THEN 0 ELSE early_data_skipped_bytes)
                    /\ pending_handshake_secret' = pending_handshake_secret
  BY ServerHelloParts
<1>12. /\ cfg' = cfg /\ send_change_cipher_spec' = send_change_cipher_spec
       /\ offered_psk' = offered_psk /\ using_early_data' = using_early_data
       /\ certificate_request' = certificate_request
       /\ early_data_acceptance' = early_data_acceptance
       /\ max_early_data_size' = max_early_data_size
       /\ earlySent' = earlySent /\ earlyGot' = earlyGot /\ faults' = faults
  BY ServerHelloParts
<1>13. /\ next \in {"SERVER_EXPECT_END_OF_EARLY_DATA", "SERVER_EXPECT_CERTIFICATE",
                    "SERVER_EXPECT_FINISHED"}
       /\ next \in States /\ r \in Names /\ r \in {"IN_PROGRESS", "OK"}
       /\ next = "SERVER_EXPECT_END_OF_EARLY_DATA" => early
       /\ r = "OK" => next # "SERVER_EXPECT_CERTIFICATE"
       /\ next = "SERVER_EXPECT_END_OF_EARLY_DATA" => r = "OK"
  BY <1>4, NamesAre DEF States, ServerHandshake
<1>. HIDE DEF early, er, hs, ap, pts, next, r
<1>14. Key(er) \in Keys /\ Key(hs) \in Keys
  BY <1>5, <1>6, KeyTypes
<1>15. /\ dec' \in [Side -> Keys] /\ pending_handshake_secret' \in [Side -> Secrets]
       /\ early_data_skipped_bytes' \in Nat \cup {UINT32_MAX}
       /\ pending_handshake_secret'["client"] = pending_handshake_secret["client"]
       /\ early => pending_handshake_secret'["server"] # NoSecret
  <2>1. CASE early
    BY <1>1, <1>6, <1>11, <1>14, <2>1, Sides, ZenonT(60) DEF TypeInv
  <2>2. CASE ~early
    <3>1. dec' \in [Side -> Keys] /\ pending_handshake_secret' = pending_handshake_secret
      BY <1>1, <1>11, <1>14, <2>2, Sides DEF TypeInv
    <3>2. early_data_skipped_bytes' = 0 \/ early_data_skipped_bytes' = early_data_skipped_bytes
      BY <1>11, <2>2
    <3>. QED  BY <1>1, <2>2, <3>1, <3>2 DEF TypeInv
  <2>. QED  BY <2>1, <2>2
<1>16. ret' = [ret EXCEPT !["server"] = r]
  BY <1>2, <1>10 DEF Return
<1>17. /\ is_psk_handshake' \in [Side -> BOOLEAN] /\ sched' \in [Side -> Seq(Names)]
       /\ transcript' \in [Side -> Seq(Views)] /\ enc' \in [Side -> Keys]
       /\ state' \in [Side -> States] /\ ret' \in [Side -> Names]
       /\ sched'["server"] = HelloSched(ch) /\ sched'["client"] = sched["client"]
       /\ transcript'["client"] = transcript["client"] /\ enc'["client"] = enc["client"]
       /\ enc'["server"] = ap /\ state'["server"] = next /\ state'["client"] = state["client"]
       /\ ret'["server"] = r /\ ret'["client"] = ret["client"]
  BY <1>1, <1>4, <1>7, <1>9, <1>10, <1>13, <1>16, Sides DEF TypeInv
<1>18. TypeInv'
  BY <1>1, <1>2, <1>3, <1>8, <1>10, <1>12, <1>15, <1>17 DEF TypeInv
<1>19. ClientInv'
  BY <1>1, <1>12, <1>15, <1>17, ClientKept
<1>20. ServerInv'
  BY <1>7, <1>9, <1>13, <1>15, <1>17
     DEF ServerInv, ServerHandshake, ServerHellos, MayReceive, PostHandshake
<1>21. QuietInv'
  BY <1>2, <1>17, Sides, Started DEF QuietInv
<1>22. failedAsserts' = {}
  <2>. DEFINE one == ~FindsPsk(ch) /\ ~SecondFlight(ch) => Len(sched["server"]) = 0
              two == Len(Base(ch)) = 1
  <2>1. Check([full_generation |-> one, hs_generation |-> two])
    BY DEF server_handle_hello
  <2>2. one = TRUE
    BY <1>1, <1>2 DEF SecondFlight, Stateful, ServerHellos, ServerInv
  <2>3. two = TRUE
    BY <1>9
  <2>. HIDE DEF one, two
  <2>. QED  BY <1>1, <2>1, <2>2, <2>3 DEF Check
<1>. QED  BY <1>18, <1>19, <1>20, <1>21, <1>22 DEF LocalInv

(* A message that moves the server's state and running hash.                *)
LEMMA ServerMovesLocal ==
  ASSUME LocalInv, NEW next \in ServerHandshake \cup {"SERVER_POST_HANDSHAKE"},
         Ready("server"), Consume("server"), state["server"] \notin ServerHellos,
         next \notin ServerHellos, next # "SERVER_EXPECT_END_OF_EARLY_DATA",
         transcript' = [transcript EXCEPT !["server"] =
                          Append(transcript["server"], View(First("server").msg))],
         state' = [state EXCEPT !["server"] = next],
         dec' \in [Side -> Keys], pending_handshake_secret' \in [Side -> Secrets],
         pending_handshake_secret'["client"] = pending_handshake_secret["client"],
         pending_traffic_secret' \in Secrets,
         ret' \in [Side -> Names], ret'["client"] = ret["client"],
         ret'["server"] = "OK" => next \in MayReceive,
         next = "SERVER_POST_HANDSHAKE" => ret'["server"] = "OK",
         cfg' = cfg, sched' = sched, enc' = enc, is_psk_handshake' = is_psk_handshake,
         send_change_cipher_spec' = send_change_cipher_spec, UNCHANGED clientVars,
         early_data_skipped_bytes' = early_data_skipped_bytes, sendbuf' = sendbuf,
         UNCHANGED appVars, faults' = faults, failedAsserts' = {}
  PROVE  LocalInv'
<1>1. TypeInv /\ ClientInv /\ ServerInv
  BY DEF LocalInv
<1>2. wire["client"] # <<>> /\ First("server").msg \in Messages /\ wire' \in [Side -> Seq(Recs)]
  BY <1>1, Sides, ReadTypes DEF Ready
<1>3. Append(transcript["server"], View(First("server").msg)) \in Seq(Views)
  <2>1. transcript["server"] \in Seq(Views) /\ View(First("server").msg) \in Views
    BY <1>1, <1>2, Sides, MessageTypes DEF TypeInv
  <2>. QED  BY <2>1, AppendType
<1>4. next \in States
  BY DEF States, PostHandshake
<1>5. /\ transcript' \in [Side -> Seq(Views)] /\ state' \in [Side -> States]
      /\ transcript'["client"] = transcript["client"] /\ state'["client"] = state["client"]
      /\ state'["server"] = next
  BY <1>1, <1>3, <1>4, Sides DEF TypeInv
<1>6. /\ offered_psk' = offered_psk /\ using_early_data' = using_early_data
      /\ certificate_request' = certificate_request
      /\ early_data_acceptance' = early_data_acceptance
      /\ max_early_data_size' = max_early_data_size
      /\ earlySent' = earlySent /\ earlyGot' = earlyGot
  BY DEF clientVars, appVars
<1>7. TypeInv'
  BY <1>1, <1>2, <1>5, <1>6 DEF TypeInv
<1>8. ClientInv'
  BY <1>1, <1>5, <1>6, ClientKept
<1>9. ServerInv'
  BY <1>1, <1>5 DEF ServerInv, ServerHandshake, ServerHellos
<1>10. QuietInv'
  BY <1>5, Sides, Started DEF QuietInv
<1>. QED  BY <1>7, <1>8, <1>9, <1>10 DEF LocalInv

LEMMA EndOfEarlyDataLocal ==
  ASSUME LocalInv, server_handle_end_of_early_data
  PROVE  LocalInv'
<1>1. TypeInv /\ ServerInv /\ failedAsserts = {}
  BY DEF LocalInv
<1>2. /\ ServerTakes("EOED") /\ Consume("server")
      /\ dec' = [dec EXCEPT !["server"] = Key(pending_handshake_secret["server"])]
      /\ pending_handshake_secret' = [pending_handshake_secret EXCEPT !["server"] = NoSecret]
      /\ transcript' = [transcript EXCEPT !["server"] =
                          Append(transcript["server"], View(First("server").msg))]
      /\ state' = [state EXCEPT !["server"] = "SERVER_EXPECT_FINISHED"]
      /\ Return("server", "IN_PROGRESS")
      /\ cfg' = cfg /\ sched' = sched /\ enc' = enc /\ is_psk_handshake' = is_psk_handshake
      /\ send_change_cipher_spec' = send_change_cipher_spec /\ UNCHANGED clientVars
      /\ early_data_skipped_bytes' = early_data_skipped_bytes
      /\ pending_traffic_secret' = pending_traffic_secret /\ sendbuf' = sendbuf
      /\ UNCHANGED appVars /\ faults' = faults
  BY DEF server_handle_end_of_early_data, serverVars, commission_handshake_secret
<1>3. /\ Ready("server") /\ state["server"] = "SERVER_EXPECT_END_OF_EARLY_DATA"
      /\ ret["server"] \in {"IN_PROGRESS", "OK"}
  BY <1>2, ServerExpects
<1>4. ret' = ret /\ ret["server"] = "OK" /\ pending_handshake_secret["server"] # NoSecret
  BY <1>1, <1>2, <1>3 DEF ServerInv, Return
<1>5. /\ dec' \in [Side -> Keys] /\ pending_handshake_secret' \in [Side -> Secrets]
      /\ pending_handshake_secret'["client"] = pending_handshake_secret["client"]
  <2>1. Key(pending_handshake_secret["server"]) \in Keys /\ NoSecret \in Secrets
    BY <1>1, Sides, KeyTypes DEF TypeInv
  <2>. QED  BY <1>1, <1>2, <2>1, Sides DEF TypeInv
<1>6. /\ "SERVER_EXPECT_FINISHED" \in ServerHandshake \cup {"SERVER_POST_HANDSHAKE"}
      /\ "SERVER_EXPECT_FINISHED" \in MayReceive /\ "SERVER_EXPECT_FINISHED" \notin ServerHellos
      /\ state["server"] \notin ServerHellos
  BY <1>3 DEF ServerHandshake, MayReceive, ServerHellos
<1>7. ret' \in [Side -> Names] /\ pending_traffic_secret' \in Secrets
  BY <1>1, <1>2, <1>4 DEF TypeInv
<1>8. failedAsserts' = {}
  <2>. DEFINE one == pending_handshake_secret["server"] # NoSecret
  <2>1. Check([commission_pending |-> one])
    BY DEF server_handle_end_of_early_data
  <2>2. one = TRUE
    BY <1>4
  <2>. HIDE DEF one
  <2>. QED  BY <1>1, <2>1, <2>2 DEF Check
<1>. QED  BY <1>2, <1>3, <1>4, <1>5, <1>6, <1>7, <1>8, ServerMovesLocal

LEMMA ServerMessagesLocal ==
  ASSUME LocalInv, server_handle_certificate \/ server_handle_certificate_verify
  PROVE  LocalInv'
<1>. DEFINE next == IF server_handle_certificate THEN "SERVER_EXPECT_CERTIFICATE_VERIFY"
                    ELSE "SERVER_EXPECT_FINISHED"
<1>1. TypeInv /\ ServerInv /\ failedAsserts = {}
  BY DEF LocalInv
<1>2. ServerTakes("CERT") \/ ServerTakes("CV")
  BY DEF server_handle_certificate, server_handle_certificate_verify
<1>3. ServerStep(next)
  BY DEF server_handle_certificate, server_handle_certificate_verify
<1>4. next = "SERVER_EXPECT_CERTIFICATE_VERIFY" \/ next = "SERVER_EXPECT_FINISHED"
  OBVIOUS
<1>. HIDE DEF next
<1>5. /\ Consume("server")
      /\ dec' = [dec EXCEPT !["server"] = Advance(dec["server"], 1)]
      /\ transcript' = [transcript EXCEPT !["server"] =
                          Append(transcript["server"], View(First("server").msg))]
      /\ state' = [state EXCEPT !["server"] = next]
      /\ Return("server", "IN_PROGRESS")
      /\ cfg' = cfg /\ sched' = sched /\ enc' = enc /\ is_psk_handshake' = is_psk_handshake
      /\ send_change_cipher_spec' = send_change_cipher_spec /\ UNCHANGED clientVars
      /\ pending_handshake_secret' = pending_handshake_secret
      /\ early_data_skipped_bytes' = early_data_skipped_bytes
      /\ pending_traffic_secret' = pending_traffic_secret /\ sendbuf' = sendbuf
      /\ UNCHANGED appVars /\ faults' = faults /\ failedAsserts' = failedAsserts
  BY <1>3 DEF ServerStep, serverVars
<1>6. /\ Ready("server") /\ ret["server"] \in {"IN_PROGRESS", "OK"}
      /\ state["server"] \in {"SERVER_EXPECT_CERTIFICATE", "SERVER_EXPECT_CERTIFICATE_VERIFY"}
  BY <1>2, ServerExpects
<1>7. ret["server"] # "OK"
  BY <1>1, <1>6 DEF ServerInv, MayReceive, PostHandshake
<1>8. ret' = [ret EXCEPT !["server"] = "IN_PROGRESS"]
  BY <1>5, <1>7 DEF Return
<1>9. /\ ret' \in [Side -> Names] /\ ret'["server"] = "IN_PROGRESS" /\ ret'["client"] = ret["client"]
  <2>1. "IN_PROGRESS" \in Names
    BY NamesAre
  <2>. QED  BY <1>1, <1>8, <2>1, Sides DEF TypeInv
<1>10. dec' \in [Side -> Keys]
  <2>1. Advance(dec["server"], 1) \in Keys
    BY <1>1, Sides, KeyTypes DEF TypeInv
  <2>. QED  BY <1>1, <1>5, <2>1 DEF TypeInv
<1>11. pending_handshake_secret' \in [Side -> Secrets] /\ pending_traffic_secret' \in Secrets
  BY <1>1, <1>5 DEF TypeInv
<1>12. /\ next \in ServerHandshake \cup {"SERVER_POST_HANDSHAKE"} /\ next \notin ServerHellos
       /\ next # "SERVER_EXPECT_END_OF_EARLY_DATA" /\ next # "SERVER_POST_HANDSHAKE"
       /\ state["server"] \notin ServerHellos
  BY <1>4, <1>6 DEF ServerHandshake, ServerHellos
<1>. QED  BY <1>1, <1>5, <1>6, <1>9, <1>10, <1>11, <1>12, ServerMovesLocal

LEMMA ServerFinishedLocal ==
  ASSUME LocalInv, server_handle_finished
  PROVE  LocalInv'
<1>1. TypeInv /\ ServerInv /\ failedAsserts = {}
  BY DEF LocalInv
<1>2. /\ ServerTakes("FIN") /\ Consume("server")
      /\ dec' = [dec EXCEPT !["server"] = Key(pending_traffic_secret)]
      /\ pending_traffic_secret' = NoSecret
      /\ transcript' = [transcript EXCEPT !["server"] =
                          Append(transcript["server"], View(First("server").msg))]
      /\ state' = [state EXCEPT !["server"] = "SERVER_POST_HANDSHAKE"]
      /\ Return("server", "OK")
      /\ cfg' = cfg /\ sched' = sched /\ enc' = enc /\ is_psk_handshake' = is_psk_handshake
      /\ send_change_cipher_spec' = send_change_cipher_spec /\ UNCHANGED clientVars
      /\ pending_handshake_secret' = pending_handshake_secret
      /\ early_data_skipped_bytes' = early_data_skipped_bytes /\ sendbuf' = sendbuf
      /\ UNCHANGED appVars /\ faults' = faults /\ failedAsserts' = failedAsserts
  BY DEF server_handle_finished
<1>3. /\ Ready("server") /\ state["server"] = "SERVER_EXPECT_FINISHED"
      /\ ret["server"] \in {"IN_PROGRESS", "OK"}
  BY <1>2, ServerExpects
<1>4. ret' \in [Side -> Names] /\ ret'["server"] = "OK" /\ ret'["client"] = ret["client"]
  <2>1. "OK" \in Names
    BY NamesAre
  <2>. QED  BY <1>1, <1>2, <1>3, <2>1, Sides DEF Return, TypeInv
<1>5. /\ dec' \in [Side -> Keys] /\ pending_handshake_secret' \in [Side -> Secrets]
      /\ pending_traffic_secret' \in Secrets
  <2>1. Key(pending_traffic_secret) \in Keys /\ NoSecret \in Secrets
    BY <1>1, KeyTypes DEF TypeInv
  <2>. QED  BY <1>1, <1>2, <2>1 DEF TypeInv
<1>6. /\ "SERVER_POST_HANDSHAKE" \in ServerHandshake \cup {"SERVER_POST_HANDSHAKE"}
      /\ "SERVER_POST_HANDSHAKE" \in MayReceive /\ "SERVER_POST_HANDSHAKE" \notin ServerHellos
      /\ state["server"] \notin ServerHellos
  BY <1>3 DEF ServerHandshake, MayReceive, ServerHellos, PostHandshake
<1>. QED  BY <1>1, <1>2, <1>3, <1>4, <1>5, <1>6, ServerMovesLocal

LEMMA LocalStutters ==
  ASSUME LocalInv, UNCHANGED vars
  PROVE  LocalInv'
<1>1. /\ cfg' = cfg /\ state' = state /\ sched' = sched /\ transcript' = transcript
      /\ enc' = enc /\ dec' = dec /\ pending_handshake_secret' = pending_handshake_secret
      /\ is_psk_handshake' = is_psk_handshake
      /\ send_change_cipher_spec' = send_change_cipher_spec
      /\ offered_psk' = offered_psk /\ using_early_data' = using_early_data
      /\ certificate_request' = certificate_request
      /\ early_data_acceptance' = early_data_acceptance
      /\ max_early_data_size' = max_early_data_size
      /\ pending_traffic_secret' = pending_traffic_secret
      /\ early_data_skipped_bytes' = early_data_skipped_bytes
      /\ ret' = ret /\ sendbuf' = sendbuf /\ wire' = wire /\ saved' = saved
      /\ earlySent' = earlySent /\ earlyGot' = earlyGot /\ faults' = faults
      /\ failedAsserts' = failedAsserts
  BY DEF vars, schedule, keys, clientVars, serverVars, appVars
<1>2. TypeInv'
  BY <1>1 DEF LocalInv, TypeInv
<1>3. ClientInv' /\ ServerInv'
  BY <1>1, ClientKept, ServerKept DEF LocalInv
<1>4. QuietInv'
  BY <1>1 DEF LocalInv, QuietInv
<1>. QED  BY <1>1, <1>2, <1>3, <1>4 DEF LocalInv

LEMMA LocalNext == LocalInv /\ [Next]_vars => LocalInv'
<1>. SUFFICES ASSUME LocalInv, [Next]_vars PROVE LocalInv'
  OBVIOUS
<1>1. CASE ClientSteps
  BY <1>1, SendClientHelloLocal, HrrLocal, ClientHandleHelloLocal, ClientMessagesLocal,
     ClientFinishedLocal, NewSessionTicketLocal, ClientErrorLocal DEF ClientSteps
<1>2. CASE ServerSteps
  BY <1>2, ServerRejectsHelloLocal, ServerRetryLocal, ServerStatelessRetryLocal,
     ServerSignFailsLocal, ServerHandleHelloLocal, EndOfEarlyDataLocal, ServerMessagesLocal,
     ServerFinishedLocal, ServerErrorLocal, SkipLocal DEF ServerSteps
<1>3. ASSUME NEW s \in Side, CommonSteps(s) PROVE LocalInv'
  BY <1>3, FlushLocal, HandleCCSLocal, AlertLocal, ReceiveDataLocal, RejectLocal DEF CommonSteps
<1>4. CASE SendEarlyData
  BY <1>4, SendEarlyDataLocal
<1>5. ASSUME NEW s \in Side, ptls_send(s) PROVE LocalInv'
  BY <1>5, PtlsSendLocal
<1>6. ASSUME NEW s \in Side, Alter(s) PROVE LocalInv'
  BY <1>6, AlterLocal
<1>7. CASE UNCHANGED vars
  BY <1>7, LocalStutters
<1>. QED  BY <1>1, <1>2, <1>3, <1>4, <1>5, <1>6, <1>7 DEF Next

(* LocalInv, the part of the inductive invariant that each object keeps by  *)
(* itself, holds in every behaviour of the handshake.                       *)
THEOREM LocalHolds == Safety => []LocalInv
<1>1. Init => LocalInv
  BY LocalInit
<1>2. LocalInv /\ [Next]_vars => LocalInv'
  BY LocalNext
<1>. QED  BY <1>1, <1>2, PTL DEF Safety

(* Every variable keeps the type of the field it stands for.                *)
THEOREM TypeCorrect == Spec => []TypeOK
<1>1. LocalInv => TypeOK
  <2>. SUFFICES ASSUME LocalInv PROVE TypeOK
    OBVIOUS
  <2>1. \A s \in Side : Len(sched[s]) <= 3
    <3>1. Len(sched["client"]) <= 3
      <4>. DEFINE n == Len(sched["client"])
      <4>1. sched["client"] = <<>> \/ n \in {1, 2, 3}
        BY DEF LocalInv, ClientInv
      <4>2. n \in {0, 1, 2, 3}
        BY <4>1
      <4>. HIDE DEF n
      <4>3. n <= 3
        BY <4>2
      <4>. QED  BY <4>3 DEF n
    <3>2. Len(sched["server"]) <= 3
      <4>. DEFINE n == Len(sched["server"])
      <4>1. sched["server"] = <<>> \/ n \in {1, 2, 3}
        BY DEF LocalInv, ServerInv, ServerHellos
      <4>2. n \in {0, 1, 2, 3}
        BY <4>1
      <4>. HIDE DEF n
      <4>3. n <= 3
        BY <4>2
      <4>. QED  BY <4>3 DEF n
    <3>. QED  BY <3>1, <3>2 DEF Side
  <2>2. \A s \in Side : enc[s].seq \in Nat /\ dec[s].seq \in Nat /\ is_psk_handshake[s] \in BOOLEAN
    BY DEF LocalInv, TypeInv, Keys
  <2>3. state["client"] \in ClientHandshake \cup {"CLIENT_POST_HANDSHAKE"}
    BY DEF LocalInv, ClientInv, ClientHellos, ClientFlight, ClientHandshake
  <2>4. state["server"] \in ServerHandshake \cup {"SERVER_POST_HANDSHAKE"}
    BY DEF LocalInv, ServerInv
  <2>5. cfg \in Config
    BY ConfigTypes DEF LocalInv
  <2>6. /\ {send_change_cipher_spec, offered_psk, using_early_data, certificate_request}
             \subseteq BOOLEAN
        /\ early_data_acceptance \in {"UNKNOWN", "REJECTED", "ACCEPTED"}
        /\ early_data_skipped_bytes \in Nat \cup {UINT32_MAX}
        /\ {max_early_data_size, earlySent, earlyGot, faults} \subseteq Nat
    BY DEF LocalInv, TypeInv
  <2>. QED  BY <2>1, <2>2, <2>3, <2>4, <2>5, <2>6 DEF TypeOK
<1>. QED  BY <1>1, LocalHolds, PTL DEF Spec

(* No assert() of the handshake code fails and the calls are made in the    *)
(* states they are for, whatever the configurations and the network do.     *)
THEOREM NoAssertFails == Spec => []AssertsHold
<1>1. LocalInv => AssertsHold
  <2>. SUFFICES ASSUME LocalInv PROVE AssertsHold
    OBVIOUS
  <2>1. /\ ret["client"] = "IN_PROGRESS" => state["client"] \notin PostHandshake
        /\ ret["client"] = "OK" => state["client"] \in MayReceive
    BY DEF LocalInv, ClientInv, PostHandshake, MayReceive, ClientHellos, ClientFlight
  <2>2. /\ ret["server"] = "IN_PROGRESS" => state["server"] \notin PostHandshake
        /\ ret["server"] = "OK" => state["server"] \in MayReceive
    BY DEF LocalInv, ServerInv, PostHandshake, ServerHandshake
  <2>. QED  BY <2>1, <2>2 DEF AssertsHold, LocalInv, Side
<1>. QED  BY <1>1, LocalHolds, PTL DEF Spec
=============================================================================
