----------------------- MODULE HandshakeHonestProofs ------------------------
(***************************************************************************)
(* Two compatible configurations and an honest network: no call fails.     *)
(*                                                                         *)
(* Then everything but the amount of early data and the interleaving is    *)
(* determined by the configuration g: the messages, the transcripts, the   *)
(* secrets.  They are written down here once, without reference to the     *)
(* state.  A reader is at a point: its state, the number of the next       *)
(* record and how many records of early data it has read.  Link says which *)
(* record a reader at a point takes and to which point it moves; the       *)
(* invariant is that what is on its way leads from where the reader is to  *)
(* where the writer expects it to be.                                      *)
(***************************************************************************)
EXTENDS HandshakeAgreementProofs

(* What the configuration decides.                                          *)
GOffers(g)  == g.ticket # "none"
GEarly(g)   == g.early_data
GRetries(g) == g.enforce_retry \/ g.key_share \in {"alien", "none"}
GResumes(g) == /\ ~GRetries(g) /\ ~g.require_client_authentication
               /\ g.ticket \in {"valid", "late", "mismatch"}
GTakesEarly(g) == GResumes(g) /\ GEarly(g) /\ g.ticket # "late" /\ g.max_early_data_size
GAuth(g) == g.require_client_authentication

(* The compatible configurations, as HonestNeverFails names them.           *)
GCompatible(g) ==
    /\ g.key_share # "nocommon"
    /\ g.server_certificate = "ok"
    /\ GAuth(g) => g.client_certificate = "ok"
    /\ g.ticket = "mismatch" => GRetries(g) \/ GAuth(g)
    /\ GRetries(g) /\ g.retry_uses_cookie => ~GEarly(g) /\ g.key_share # "group2"
    /\ g.early_limit <= SKIP_LIMIT

(* The hellos.                                                              *)
GPsk(g) == IF g.ticket = "mismatch" THEN "other_psk" ELSE "psk"
GHello(g, has, cookie, th) ==
    Message("CH", has,
            IF GOffers(g)
            THEN Mac(Secret("res_binder", <<GPsk(g)>>, <<>>), Append(th, <<"CH", has>>))
            ELSE <<>>,
            cookie)
GExtensions(g) ==
    If(GOffers(g), "psk") \cup If(g.save_ticket \/ GOffers(g), "ke_modes")
        \cup If(g.send_change_cipher_spec, "legacy_session_id")
Hello1(g) == GHello(g, GExtensions(g) \cup If(GOffers(g) /\ GEarly(g), "early_data") \cup {g.key_share},
                    <<>>, <<>>)
GShareless(g) == SharedGroup(Hello1(g)) = "none"
GCookie(g) == IF g.retry_uses_cookie THEN Cookie(Hello1(g), "group1") ELSE <<>>
Hrr(g) == Message("HRR", RetryExtensions(GShareless(g), GCookie(g)), <<>>, GCookie(g))
HrrTh(g) == Append(ch1hash(<<View(Hello1(g))>>), View(Hrr(g)))
Hello2(g) == GHello(g, GExtensions(g) \cup {IF GShareless(g) THEN "group1" ELSE g.key_share}
                         \cup If(GCookie(g) # <<>>, "cookie"), GCookie(g), HrrTh(g))
LastHello(g) == IF GRetries(g) THEN Hello2(g) ELSE Hello1(g)
FirstTh(g)   == IF GRetries(g) THEN HrrTh(g) ELSE <<>>
GDhe(g)      == ~GResumes(g) \/ g.require_dhe_on_psk
Sh(g)        == Plain("SH", If(GResumes(g), "psk") \cup If(GDhe(g), "key_share"))

(* The handshake secrets and the server's flight, with the transcript       *)
(* before each message of it.                                               *)
HelloTh(g) == Append(Append(FirstTh(g), View(LastHello(g))), View(Sh(g)))
HsSched(g) == <<IF GResumes(g) THEN "psk" ELSE "0", IF GDhe(g) THEN "dhe" ELSE "0">>
Hs(g, label) == Secret(label, HsSched(g), HelloTh(g))
Ee(g)   == Plain("EE", If(GTakesEarly(g), "early_data"))
EeTh(g) == Append(HelloTh(g), View(Ee(g)))
Cr      == Plain("CR", {})
CrTh(g) == IF GAuth(g) THEN Append(EeTh(g), View(Cr)) ELSE EeTh(g)
Cert    == Plain("CERT", {"ok"})
CertTh(g) == Append(CrTh(g), View(Cert))
Cv(g)   == Message("CV", {}, Signature("server", CertTh(g)), <<>>)
CvTh(g) == IF GResumes(g) THEN EeTh(g) ELSE Append(CertTh(g), View(Cv(g)))
Fin(g)  == send_finished(Hs(g, "s_hs_traffic"), CvTh(g))
Through(g) == Append(CvTh(g), View(Fin(g)))
CertAt(g)  == IF GAuth(g) THEN 2 ELSE 1
FinAt(g)   == IF GResumes(g) THEN 1 ELSE CertAt(g) + 2

(* The other secrets and the client's flight.                               *)
Ap(g, label) == Secret(label, Append(HsSched(g), "0"), Through(g))
Ce(g) == Secret("c_e_traffic", <<IF GOffers(g) THEN GPsk(g) ELSE "0">>, <<View(Hello1(g))>>)
Eoed  == Plain("EOED", {})
EoedTh(g)  == IF GTakesEarly(g) THEN Append(Through(g), View(Eoed)) ELSE Through(g)
CCertTh(g) == Append(EoedTh(g), View(Cert))
CCv(g)     == Message("CV", {}, Signature("client", CCertTh(g)), <<>>)
CCvTh(g)   == IF GAuth(g) THEN Append(CCertTh(g), View(CCv(g))) ELSE EoedTh(g)
CFin(g)    == send_finished(Hs(g, "c_hs_traffic"), CCvTh(g))
CFinAt(g)  == IF GAuth(g) THEN 2 ELSE 0

(* Records, and points of a reader.                                         *)
Rec(secret, seq, m) == [secret |-> secret, seq |-> seq, msg |-> m]
IsCcs(r)    == r = Rec(NoSecret, 0, Plain("CCS", {}))
At(st, seq, early) == [st |-> st, seq |-> seq, early |-> early]

(* The server's point when it has read the last ClientHello.                *)
PointAfterHello(g, early) ==
    IF GTakesEarly(g) THEN At("SERVER_EXPECT_END_OF_EARLY_DATA", early, early)
    ELSE At(IF GAuth(g) THEN "SERVER_EXPECT_CERTIFICATE" ELSE "SERVER_EXPECT_FINISHED", 0, early)

(* The client at c reads r and is at d then: a ChangeCipherSpec, the retry  *)
(* request, the messages of the server's flight, and what follows it.       *)
ClientLink(g, c, r, d) ==
    \/ IsCcs(r) /\ c.st # "CLIENT_POST_HANDSHAKE" /\ d = c
    \/ /\ GRetries(g) /\ c.st = "CLIENT_EXPECT_SERVER_HELLO"
       /\ r = Rec(NoSecret, 0, Hrr(g))
       /\ d = At("CLIENT_EXPECT_SECOND_SERVER_HELLO", 0, 0)
    \/ /\ c.st = IF GRetries(g) THEN "CLIENT_EXPECT_SECOND_SERVER_HELLO"
                 ELSE "CLIENT_EXPECT_SERVER_HELLO"
       /\ r = Rec(NoSecret, 0, Sh(g))
       /\ d = At("CLIENT_EXPECT_ENCRYPTED_EXTENSIONS", 0, 0)
    \/ /\ c.st = "CLIENT_EXPECT_ENCRYPTED_EXTENSIONS" /\ c.seq = 0
       /\ r = Rec(Hs(g, "s_hs_traffic"), 0, Ee(g))
       /\ d = At(IF GResumes(g) THEN "CLIENT_EXPECT_FINISHED"
                 ELSE "CLIENT_EXPECT_CERTIFICATE_REQUEST_OR_CERTIFICATE", 1, 0)
    \/ /\ ~GResumes(g) /\ GAuth(g) /\ c.st = "CLIENT_EXPECT_CERTIFICATE_REQUEST_OR_CERTIFICATE"
       /\ c.seq = 1 /\ r = Rec(Hs(g, "s_hs_traffic"), 1, Cr)
       /\ d = At("CLIENT_EXPECT_CERTIFICATE", 2, 0)
    \/ /\ ~GResumes(g) /\ c.seq = CertAt(g)
       /\ c.st = IF GAuth(g) THEN "CLIENT_EXPECT_CERTIFICATE"
                 ELSE "CLIENT_EXPECT_CERTIFICATE_REQUEST_OR_CERTIFICATE"
       /\ r = Rec(Hs(g, "s_hs_traffic"), CertAt(g), Cert)
       /\ d = At("CLIENT_EXPECT_CERTIFICATE_VERIFY", CertAt(g) + 1, 0)
    \/ /\ ~GResumes(g) /\ c.st = "CLIENT_EXPECT_CERTIFICATE_VERIFY" /\ c.seq = CertAt(g) + 1
       /\ r = Rec(Hs(g, "s_hs_traffic"), CertAt(g) + 1, Cv(g))
       /\ d = At("CLIENT_EXPECT_FINISHED", CertAt(g) + 2, 0)
    \/ /\ c.st = "CLIENT_EXPECT_FINISHED" /\ c.seq = FinAt(g)
       /\ r = Rec(Hs(g, "s_hs_traffic"), FinAt(g), Fin(g))
       /\ d = At("CLIENT_POST_HANDSHAKE", 0, 0)
    \/ /\ c.st = "CLIENT_POST_HANDSHAKE"
       /\ r.secret = Ap(g, "s_ap_traffic") /\ r.seq = c.seq /\ r.msg.type \in {"NST", "DATA"}
       /\ d = At("CLIENT_POST_HANDSHAKE", c.seq + 1, 0)

(* The server at c reads r and is at d then: a ChangeCipherSpec, a hello,   *)
(* early data that it passes over or takes, and the client's last flight.   *)
ServerLink(g, c, r, d) ==
    \/ IsCcs(r) /\ c.st # "SERVER_POST_HANDSHAKE" /\ d = c
    \/ /\ c.st = "SERVER_EXPECT_CLIENT_HELLO" /\ c.early = 0
       /\ r = Rec(NoSecret, 0, Hello1(g))
       /\ d = IF GRetries(g) THEN At("SERVER_EXPECT_SECOND_CLIENT_HELLO", 0, 0)
              ELSE PointAfterHello(g, 0)
    \/ /\ c.st = "SERVER_EXPECT_SECOND_CLIENT_HELLO" /\ GRetries(g)
       /\ r = Rec(NoSecret, 0, Hello2(g))
       /\ d = PointAfterHello(g, c.early)
    \/ /\ c.st \in {"SERVER_EXPECT_SECOND_CLIENT_HELLO", "SERVER_EXPECT_CERTIFICATE",
                    "SERVER_EXPECT_FINISHED"}
       /\ GEarly(g) /\ ~GTakesEarly(g)
       /\ r = Rec(Ce(g), c.early, Plain("DATA", {}))
       /\ d = At(c.st, c.seq, c.early + 1)
    \/ /\ c.st = "SERVER_EXPECT_END_OF_EARLY_DATA" /\ c.seq = c.early
       /\ r = Rec(Ce(g), c.early, Plain("DATA", {}))
       /\ d = At(c.st, c.early + 1, c.early + 1)
    \/ /\ c.st = "SERVER_EXPECT_END_OF_EARLY_DATA" /\ c.seq = c.early
       /\ r = Rec(Ce(g), c.early, Eoed)
       /\ d = At("SERVER_EXPECT_FINISHED", 0, c.early)
    \/ /\ c.st = "SERVER_EXPECT_CERTIFICATE" /\ c.seq = 0
       /\ r = Rec(Hs(g, "c_hs_traffic"), 0, Cert)
       /\ d = At("SERVER_EXPECT_CERTIFICATE_VERIFY", 1, c.early)
    \/ /\ c.st = "SERVER_EXPECT_CERTIFICATE_VERIFY" /\ c.seq = 1
       /\ r = Rec(Hs(g, "c_hs_traffic"), 1, CCv(g))
       /\ d = At("SERVER_EXPECT_FINISHED", 2, c.early)
    \/ /\ c.st = "SERVER_EXPECT_FINISHED" /\ c.seq = CFinAt(g)
       /\ r = Rec(Hs(g, "c_hs_traffic"), CFinAt(g), CFin(g))
       /\ d = At("SERVER_POST_HANDSHAKE", 0, c.early)
    \/ /\ c.st = "SERVER_POST_HANDSHAKE"
       /\ r.secret = Ap(g, "c_ap_traffic") /\ r.seq = c.seq /\ r.msg.type = "DATA"
       /\ d = At("SERVER_POST_HANDSHAKE", c.seq + 1, c.early)

(* s reads r at c and is at d then.                                         *)
Link(s, g, c, r, d) == IF s = "client" THEN ClientLink(g, c, r, d) ELSE ServerLink(g, c, r, d)

(* The records q lead s from a to b.                                        *)
Walk(s, g, q, a, b) ==
    \E p : /\ p[1] = a /\ p[Len(q) + 1] = b
           /\ \A i \in 1..Len(q) : Link(s, g, p[i], q[i], p[i + 1])

(* The records that are on their way from s.                                *)
Stream(s) == wire[s] \o sendbuf[s]

(* A new server object that takes the place of one that answered with a     *)
(* cookie waits for the second ClientHello.                                 *)
CookieSent ==
    /\ GRetries(cfg) /\ cfg.retry_uses_cookie
    /\ state["server"] = "SERVER_EXPECT_CLIENT_HELLO"
    /\ \/ state["client"] = "CLIENT_EXPECT_SECOND_SERVER_HELLO"
       \/ state["client"] = "CLIENT_EXPECT_SERVER_HELLO" /\ Stream("client") = <<>>

(* What the server waits for, whichever object it is.                       *)
ServerPhase == IF CookieSent THEN "SERVER_EXPECT_SECOND_CLIENT_HELLO" ELSE state["server"]

(* The records of early data the server has read or passed over.            *)
EarlyRead == IF early_data_skipped_bytes # UINT32_MAX THEN early_data_skipped_bytes ELSE earlyGot

(* Where the two readers are, and where they will be when they have read    *)
(* what is on its way.                                                      *)
ClientPhase == IF state["client"] = "CLIENT_HANDSHAKE_START" THEN "CLIENT_EXPECT_SERVER_HELLO"
               ELSE state["client"]
ClientPoint == At(ClientPhase, dec["client"].seq, 0)
ServerPoint == At(ServerPhase, dec["server"].seq, EarlyRead)
ClientGoal ==
    CASE ServerPhase = "SERVER_EXPECT_CLIENT_HELLO" -> At("CLIENT_EXPECT_SERVER_HELLO", 0, 0)
      [] ServerPhase = "SERVER_EXPECT_SECOND_CLIENT_HELLO" ->
            At("CLIENT_EXPECT_SECOND_SERVER_HELLO", 0, 0)
      [] OTHER -> At("CLIENT_POST_HANDSHAKE", enc["server"].seq, 0)
ServerGoal ==
    CASE state["client"] = "CLIENT_HANDSHAKE_START" -> At("SERVER_EXPECT_CLIENT_HELLO", 0, 0)
      [] state["client"] = "CLIENT_EXPECT_SERVER_HELLO" /\ GRetries(cfg) ->
            At("SERVER_EXPECT_SECOND_CLIENT_HELLO", 0, earlySent)
      [] state["client"] = "CLIENT_POST_HANDSHAKE" ->
            At("SERVER_POST_HANDSHAKE", enc["client"].seq, earlySent)
      [] OTHER -> PointAfterHello(cfg, earlySent)

(* The early data on its way has been counted.                              *)
EarlyCounted ==
    \A i \in 1..Len(Stream("client")) :
        Stream("client")[i].secret = Ce(cfg) /\ Stream("client")[i].msg.type = "DATA" =>
            Stream("client")[i].seq < earlySent

(* What the client's state says of the client.                              *)
KeyOf(key, secret) == key.aead = TRUE /\ key.secret = secret
ClientTh ==
    [CLIENT_EXPECT_SERVER_HELLO |-> <<View(Hello1(cfg))>>,
     CLIENT_EXPECT_SECOND_SERVER_HELLO |-> Append(HrrTh(cfg), View(Hello2(cfg))),
     CLIENT_EXPECT_ENCRYPTED_EXTENSIONS |-> HelloTh(cfg),
     CLIENT_EXPECT_CERTIFICATE_REQUEST_OR_CERTIFICATE |-> EeTh(cfg),
     CLIENT_EXPECT_CERTIFICATE |-> CrTh(cfg),
     CLIENT_EXPECT_CERTIFICATE_VERIFY |-> CertTh(cfg),
     CLIENT_EXPECT_FINISHED |-> CvTh(cfg)]

(* The keys, the mode and the transcript of the client in each state.       *)
ClientHonest ==
    LET st == state["client"] IN
    /\ st \in ClientHellos \cup {"CLIENT_HANDSHAKE_START"} => dec["client"] = NoKey
    /\ st \in ClientFlight => /\ KeyOf(dec["client"], Hs(cfg, "s_hs_traffic"))
                              /\ is_psk_handshake["client"] = GResumes(cfg)
                              /\ sched["client"] = HsSched(cfg)
    /\ st \in ClientHellos \cup ClientFlight => transcript["client"] = ClientTh[st]
    /\ st = "CLIENT_POST_HANDSHAKE" => /\ KeyOf(dec["client"], Ap(cfg, "s_ap_traffic"))
                                       /\ KeyOf(enc["client"], Ap(cfg, "c_ap_traffic"))
    /\ certificate_request = (st \in {"CLIENT_EXPECT_CERTIFICATE", "CLIENT_EXPECT_CERTIFICATE_VERIFY",
                                      "CLIENT_EXPECT_FINISHED"} /\ GAuth(cfg))
    /\ st = "CLIENT_EXPECT_CERTIFICATE" => GAuth(cfg)
    /\ st = "CLIENT_EXPECT_SECOND_SERVER_HELLO" => GRetries(cfg)

(* The client's write key, and its early data.                              *)
ClientEarly ==
    LET st == state["client"]
        early == \/ st = "CLIENT_EXPECT_SERVER_HELLO" /\ GEarly(cfg)
                 \/ st \in ClientFlight /\ GEarly(cfg) /\ ~GRetries(cfg)
    IN
    /\ using_early_data = IF st \in {"CLIENT_EXPECT_SERVER_HELLO", "CLIENT_EXPECT_ENCRYPTED_EXTENSIONS"}
                          THEN early
                          ELSE st \in ClientFlight /\ GTakesEarly(cfg)
    /\ early => KeyOf(enc["client"], Ce(cfg)) /\ enc["client"].seq = earlySent
    /\ st \in {"CLIENT_HANDSHAKE_START"} \cup ClientHellos /\ ~early => enc["client"] = NoKey
    /\ st \in ClientFlight =>
         IF early THEN pending_handshake_secret["client"] = Hs(cfg, "c_hs_traffic")
         ELSE /\ pending_handshake_secret["client"] = NoSecret
              /\ enc["client"] = Key(Hs(cfg, "c_hs_traffic"))
    /\ max_early_data_size <= cfg.early_limit /\ earlySent <= cfg.early_limit
    /\ st # "CLIENT_POST_HANDSHAKE" /\ max_early_data_size > 0 => early
    /\ earlySent > 0 => GEarly(cfg)
    /\ st = "CLIENT_HANDSHAKE_START" => earlySent = 0

(* What the server has hashed in each state.                                *)
ServerTh ==
    [SERVER_EXPECT_CLIENT_HELLO |-> <<>>,
     SERVER_EXPECT_SECOND_CLIENT_HELLO |-> HrrTh(cfg),
     SERVER_EXPECT_END_OF_EARLY_DATA |-> Through(cfg),
     SERVER_EXPECT_CERTIFICATE |-> Through(cfg),
     SERVER_EXPECT_CERTIFICATE_VERIFY |-> CCertTh(cfg),
     SERVER_EXPECT_FINISHED |-> CCvTh(cfg)]

(* The keys, the transcript and the early data of the server in each state. *)
ServerHonest ==
    LET st == state["server"] IN
    /\ st \in ServerHellos => /\ dec["server"] = NoKey /\ enc["server"] = NoKey
                              /\ sendbuf["server"] = <<>> \/ st # "SERVER_EXPECT_CLIENT_HELLO"
    /\ st = "SERVER_EXPECT_SECOND_CLIENT_HELLO" => GRetries(cfg) /\ ~cfg.retry_uses_cookie
    /\ st \notin ServerHellos => /\ KeyOf(enc["server"], Ap(cfg, "s_ap_traffic"))
    /\ st \notin ServerHellos \cup {"SERVER_POST_HANDSHAKE"} =>
         pending_traffic_secret = Ap(cfg, "c_ap_traffic")
    /\ st = "SERVER_EXPECT_END_OF_EARLY_DATA" =>
         /\ GTakesEarly(cfg) /\ KeyOf(dec["server"], Ce(cfg))
         /\ pending_handshake_secret["server"] = Hs(cfg, "c_hs_traffic")
    /\ st \in {"SERVER_EXPECT_CERTIFICATE", "SERVER_EXPECT_CERTIFICATE_VERIFY", "SERVER_EXPECT_FINISHED"} =>
         KeyOf(dec["server"], Hs(cfg, "c_hs_traffic"))
    /\ st \in {"SERVER_EXPECT_CERTIFICATE", "SERVER_EXPECT_CERTIFICATE_VERIFY"} => GAuth(cfg)
    /\ st = "SERVER_POST_HANDSHAKE" => KeyOf(dec["server"], Ap(cfg, "c_ap_traffic"))
    /\ st # "SERVER_POST_HANDSHAKE" => transcript["server"] = ServerTh[st]
    /\ early_data_skipped_bytes # UINT32_MAX <=>
         st # "SERVER_EXPECT_CLIENT_HELLO" /\ GEarly(cfg) /\ ~GTakesEarly(cfg)
    /\ st \in ServerHellos => earlyGot = 0

(* No call has failed.                                                      *)
Calm == \A s \in Side : ret[s] \in {"IN_PROGRESS", "OK"}

(* The server has not answered before it has read a ClientHello, and with a *)
(* cookie nothing follows the first ClientHello.                            *)
Silent ==
    /\ ServerPhase = "SERVER_EXPECT_CLIENT_HELLO" => Stream("server") = <<>>
    /\ GRetries(cfg) /\ cfg.retry_uses_cookie /\ state["client"] = "CLIENT_EXPECT_SERVER_HELLO" =>
         Len(Stream("client")) <= 1

-----------------------------------------------------------------------------
(* Sequences of records.                                                    *)
LEMMA Joined ==
  ASSUME NEW q \in Seq(Recs), NEW r \in Seq(Recs)
  PROVE  /\ q \o r \in Seq(Recs) /\ Len(q \o r) = Len(q) + Len(r)
         /\ Len(q) \in Nat /\ Len(r) \in Nat
         /\ \A i \in 1..Len(q) : (q \o r)[i] = q[i]
         /\ \A i \in 1..Len(r) : (q \o r)[Len(q) + i] = r[i]
OBVIOUS

(* Nothing leads from a point to itself only.                               *)
LEMMA WalkNone ==
  ASSUME NEW s, NEW g, NEW a, NEW b
  PROVE  Walk(s, g, <<>>, a, b) <=> a = b
<1>1. Len(<<>>) = 0 /\ 1..0 = {} /\ Len(<<>>) + 1 = 1
  OBVIOUS
<1>2. ASSUME Walk(s, g, <<>>, a, b) PROVE a = b
  BY <1>1, <1>2 DEF Walk
<1>3. ASSUME a = b PROVE Walk(s, g, <<>>, a, b)
  <2>1. [i \in {1} |-> a][1] = a
    OBVIOUS
  <2>2. QED BY <1>1, <1>3, <2>1 DEF Walk
<1>4. QED BY <1>2, <1>3

(* One record.                                                              *)
LEMMA WalkOne ==
  ASSUME NEW s, NEW g, NEW r, NEW a, NEW b, Link(s, g, a, r, b)
  PROVE  Walk(s, g, <<r>>, a, b)
<1> DEFINE p == [i \in {1, 2} |-> IF i = 1 THEN a ELSE b]
<1>1. p[1] = a /\ p[2] = b
  OBVIOUS
<1> HIDE DEF p
<1>2. Len(<<r>>) = 1 /\ <<r>>[1] = r /\ Len(<<r>>) + 1 = 2
  OBVIOUS
<1>3. ASSUME NEW i \in 1..Len(<<r>>) PROVE Link(s, g, p[i], <<r>>[i], p[i + 1])
  <2>1. i = 1 /\ i + 1 = 2
    BY <1>2
  <2>2. QED BY <1>1, <1>2, <2>1
<1>4. p[1] = a /\ p[Len(<<r>>) + 1] = b
  BY <1>1, <1>2
<1>5. QED BY ONLY <1>3, <1>4 DEF Walk

(* Records behind others.                                                   *)
LEMMA WalkOn ==
  ASSUME NEW s, NEW g, NEW q \in Seq(Recs), NEW r \in Seq(Recs), NEW a, NEW b, NEW c,
         Walk(s, g, q, a, b), Walk(s, g, r, b, c)
  PROVE  Walk(s, g, q \o r, a, c)
<1> DEFINE n == Len(q)
           m == Len(r)
           t == q \o r
<1>1. /\ n \in Nat /\ m \in Nat /\ Len(t) = n + m
      /\ \A i \in 1..n : t[i] = q[i]
      /\ \A i \in 1..m : t[n + i] = r[i]
  BY Joined
<1>2. PICK v : /\ v[1] = a /\ v[n + 1] = b
               /\ \A i \in 1..n : Link(s, g, v[i], q[i], v[i + 1])
  BY DEF Walk
<1>3. PICK w : /\ w[1] = b /\ w[m + 1] = c
               /\ \A i \in 1..m : Link(s, g, w[i], r[i], w[i + 1])
  BY DEF Walk
<1> HIDE DEF n, m, t
<1> DEFINE p == [i \in 1..(n + m + 1) |-> IF i <= n THEN v[i] ELSE w[i - n]]
<1>4. ASSUME NEW i \in 1..n PROVE p[i] = v[i]
  BY <1>1
<1>5. ASSUME NEW i \in 1..(m + 1) PROVE p[n + i] = w[i]
  <2>1. n + i \in 1..(n + m + 1) /\ ~(n + i <= n) /\ (n + i) - n = i
    BY <1>1
  <2>2. QED BY <2>1
<1> HIDE DEF p
<1>6. p[n + 1] = v[n + 1]
  <2>1. 1 \in 1..(m + 1)
    BY <1>1
  <2>2. QED BY <1>2, <1>3, <1>5, <2>1
<1>7. ASSUME NEW i \in 1..(n + 1) PROVE p[i] = v[i]
  <2>1. i \in 1..n \/ i = n + 1
    BY <1>1
  <2>2. QED BY <1>4, <1>6, <2>1
<1>8. p[1] = a
  <2>1. 1 \in 1..(n + 1)
    BY <1>1
  <2>2. QED BY <1>2, <1>7, <2>1
<1>9. p[Len(t) + 1] = c
  <2>1. m + 1 \in 1..(m + 1) /\ Len(t) + 1 = n + (m + 1)
    BY <1>1
  <2>2. QED BY <1>3, <1>5, <2>1
<1>10. ASSUME NEW i \in 1..Len(t) PROVE Link(s, g, p[i], t[i], p[i + 1])
  <2>1. CASE i \in 1..n
    <3>1. i \in 1..(n + 1) /\ i + 1 \in 1..(n + 1)
      BY <1>1, <2>1
    <3>2. p[i] = v[i] /\ p[i + 1] = v[i + 1] /\ t[i] = q[i]
      BY <1>1, <1>7, <2>1, <3>1
    <3>3. QED BY <1>2, <2>1, <3>2
  <2>2. CASE i \notin 1..n
    <3> DEFINE l == i - n
    <3>1. l \in 1..m /\ l \in 1..(m + 1) /\ l + 1 \in 1..(m + 1) /\ n + l = i /\ n + (l + 1) = i + 1
      BY <1>1, <2>2
    <3> HIDE DEF l
    <3>2. p[i] = w[l] /\ p[i + 1] = w[l + 1] /\ t[i] = r[l]
      BY <1>1, <1>5, <3>1
    <3>3. QED BY <1>3, <3>1, <3>2
  <2>3. QED BY <2>1, <2>2
<1>11. Walk(s, g, t, a, c)
  BY ONLY <1>8, <1>9, <1>10 DEF Walk
<1>12. QED BY <1>11 DEF t

(* What is left when the first record has been read.                        *)
LEMMA WalkRead ==
  ASSUME NEW s, NEW g, NEW q \in Seq(Recs), NEW a, NEW b, q # <<>>, Walk(s, g, q, a, b)
  PROVE  \E d : Link(s, g, a, q[1], d) /\ Walk(s, g, Tail(q), d, b)
<1> DEFINE n == Len(q)
           t == Tail(q)
<1>1. n \in Nat /\ n # 0 /\ Len(t) = n - 1 /\ \A i \in 1..Len(t) : t[i] = q[i + 1]
  OBVIOUS
<1>2. PICK v : /\ v[1] = a /\ v[n + 1] = b
               /\ \A i \in 1..n : Link(s, g, v[i], q[i], v[i + 1])
  BY DEF Walk
<1> HIDE DEF n, t
<1> DEFINE p == [i \in 1..n |-> v[i + 1]]
<1>3. \A i \in 1..n : p[i] = v[i + 1]
  OBVIOUS
<1> HIDE DEF p
<1>4. 1 \in 1..n /\ n \in 1..n /\ Len(t) + 1 = n
  BY <1>1
<1>5. Link(s, g, a, q[1], p[1])
  <2>1. 1 + 1 = 1 + 1 /\ p[1] = v[1 + 1]
    BY <1>3, <1>4
  <2>2. QED BY <1>2, <1>4, <2>1
<1>6. p[Len(t) + 1] = b
  BY <1>2, <1>3, <1>4
<1>7. ASSUME NEW i \in 1..Len(t) PROVE Link(s, g, p[i], t[i], p[i + 1])
  <2>1. i \in 1..n /\ i + 1 \in 1..n
    BY <1>1
  <2>2. p[i] = v[i + 1] /\ p[i + 1] = v[(i + 1) + 1] /\ t[i] = q[i + 1]
    BY <1>1, <1>3, <2>1
  <2>3. QED BY <1>2, <2>1, <2>2
<1>8. Walk(s, g, t, p[1], b)
  <2> DEFINE c == p[1]
  <2>1. p[1] = c
    OBVIOUS
  <2> HIDE DEF c
  <2>2. Walk(s, g, t, c, b)
    BY ONLY <1>6, <1>7, <2>1 DEF Walk
  <2>3. QED BY <2>1, <2>2
<1>9. QED BY <1>5, <1>8 DEF t

(* The messages and secrets are told apart by their types and labels.       *)
Kinds(g) ==
    /\ Hello1(g).type = "CH" /\ Hello2(g).type = "CH" /\ Hrr(g).type = "HRR" /\ Sh(g).type = "SH"
    /\ Ee(g).type = "EE" /\ Cr.type = "CR" /\ Cert.type = "CERT" /\ Cv(g).type = "CV"
    /\ Fin(g).type = "FIN" /\ Eoed.type = "EOED" /\ CCv(g).type = "CV" /\ CFin(g).type = "FIN"
    /\ Plain("DATA", {}).type = "DATA" /\ Plain("CCS", {}).type = "CCS"
    /\ \A label : Hs(g, label).label = label /\ Ap(g, label).label = label
    /\ Ce(g).label = "c_e_traffic" /\ NoSecret.label = "none"
    /\ NoKey.aead = FALSE /\ NoKey.secret = NoSecret /\ NoKey.seq = 0

(* The messages and the secrets of the configuration have their kinds.      *)
LEMMA KindsAre == \A g : Kinds(g)
BY DEF Kinds, Hello1, Hello2, Hrr, Sh, Ee, Cr, Cert, Cv, Fin, Eoed, CCv, CFin, Plain, Message, GHello,
       send_finished, Hs, Ap, Ce, Secret, NoSecret, NoKey

(* The one group of a ClientHello is the one the server finds.              *)
LEMMA OneGroup ==
  ASSUME NEW ch
  PROVE  /\ \A x \in Groups : ch.has \cap Groups = {x} => SharedGroup(ch) = x
         /\ ch.has \cap Groups = {} => SharedGroup(ch) = "none"
<1>1. ASSUME NEW x \in Groups, ch.has \cap Groups = {x} PROVE SharedGroup(ch) = x
  <2>1. \E y \in ch.has : y \in Groups
    BY <1>1
  <2>2. (CHOOSE y \in ch.has : y \in Groups) \in ch.has \cap Groups
    BY <2>1
  <2>3. QED BY <1>1, <2>2 DEF SharedGroup
<1>2. QED BY <1>1 DEF SharedGroup

(* What the server makes of the first ClientHello...                        *)
Hello1Tells(g) ==
    LET ch == Hello1(g) IN
    /\ ch.cookie = <<>> /\ Random(ch) = {} /\ "random" \notin ch.has
    /\ "nocommon" \notin ch.has
    /\ "early_data" \in ch.has <=> GEarly(g)
    /\ "psk" \in ch.has <=> GOffers(g)
    /\ "ke_modes" \in ch.has <=> (g.save_ticket \/ GOffers(g))
    /\ SharedGroup(ch) = IF g.key_share \in Groups THEN g.key_share ELSE "none"
    /\ View(ch) = <<"CH", ch.has>>
    /\ GOffers(g) => ch.mac = Mac(Secret("res_binder", <<GPsk(g)>>, <<>>), Append(<<>>, View(ch)))

(* What the first ClientHello offers, read off the configuration.           *)
LEMMA Hello1Told ==
  ASSUME NEW g \in Configs, GCompatible(g)
  PROVE  Hello1Tells(g)
<1> DEFINE has == GExtensions(g) \cup If(GOffers(g) /\ GEarly(g), "early_data") \cup {g.key_share}
           ch  == Hello1(g)
<1>1. /\ g.key_share \in {"group1", "group2", "alien", "none"} /\ (GEarly(g) => GOffers(g))
  BY ConfigsAssumption DEF Config, GCompatible, GEarly, GOffers
<1>2. /\ ch.type = "CH" /\ ch.has = has /\ ch.cookie = <<>>
      /\ GOffers(g) => ch.mac = Mac(Secret("res_binder", <<GPsk(g)>>, <<>>), Append(<<>>, <<"CH", has>>))
  BY DEF Hello1, GHello, Message
<1>3. GExtensions(g) \subseteq {"psk", "ke_modes", "legacy_session_id"}
  BY DEF GExtensions, If
<1>4. /\ "psk" \in GExtensions(g) <=> GOffers(g)
      /\ "ke_modes" \in GExtensions(g) <=> (g.save_ticket \/ GOffers(g))
  BY DEF GExtensions, If
<1>5. If(GOffers(g) /\ GEarly(g), "early_data") \subseteq {"early_data"}
      /\ ("early_data" \in If(GOffers(g) /\ GEarly(g), "early_data") <=> GEarly(g))
  BY <1>1 DEF If
<1> DEFINE ext == GExtensions(g)
           ed  == If(GOffers(g) /\ GEarly(g), "early_data")
<1>6. /\ has \cap Groups = {g.key_share} \cap Groups
      /\ "random" \notin has /\ "nocommon" \notin has
      /\ ("early_data" \in has <=> GEarly(g))
      /\ ("psk" \in has <=> GOffers(g))
      /\ ("ke_modes" \in has <=> (g.save_ticket \/ GOffers(g)))
  <2> HIDE DEF ext, ed
  <2>1. has = ext \cup ed \cup {g.key_share}
    BY DEF ext, ed
  <2>2. ext \subseteq {"psk", "ke_modes", "legacy_session_id"} /\ ed \subseteq {"early_data"}
    BY <1>3, <1>5 DEF ext, ed
  <2> HIDE DEF has
  <2>3. has \cap Groups = {g.key_share} \cap Groups
    BY <2>1, <2>2 DEF Groups
  <2>4. "random" \notin has /\ "nocommon" \notin has
    BY <1>1, <2>1, <2>2
  <2>5. /\ ("early_data" \in has <=> "early_data" \in ed) /\ ("psk" \in has <=> "psk" \in ext)
        /\ ("ke_modes" \in has <=> "ke_modes" \in ext)
    BY <1>1, <2>1, <2>2
  <2>6. QED BY <1>4, <1>5, <2>3, <2>4, <2>5 DEF ext, ed
<1> HIDE DEF has, ch
<1>7. SharedGroup(ch) = IF g.key_share \in Groups THEN g.key_share ELSE "none"
  <2>1. ch.has \cap Groups = {g.key_share} \cap Groups
    BY <1>2, <1>6
  <2>2. CASE g.key_share \in Groups
    <3>1. ch.has \cap Groups = {g.key_share}
      BY <2>1, <2>2
    <3>2. QED BY <2>2, <3>1, OneGroup
  <2>3. CASE g.key_share \notin Groups
    <3>1. ch.has \cap Groups = {}
      BY <2>1, <2>3
    <3>2. QED BY <2>3, <3>1, OneGroup
  <2>4. QED BY <2>2, <2>3
<1>8. View(ch) = <<"CH", ch.has>> /\ Random(ch) = {}
  BY <1>2, <1>6 DEF View, Random
<1>9. QED BY <1>2, <1>6, <1>7, <1>8 DEF Hello1Tells, ch

(* ... and of the second.                                                   *)
Hello2Tells(g) ==
    LET ch == Hello2(g) IN
    /\ ch.cookie = GCookie(g) /\ Random(ch) = {} /\ "early_data" \notin ch.has
    /\ SharedGroup(ch) = IF g.key_share \in Groups THEN g.key_share ELSE "group1"
    /\ View(ch) = <<"CH", ch.has>>
    /\ "ke_modes" \in ch.has <=> (g.save_ticket \/ GOffers(g))
    /\ GShareless(g) <=> g.key_share \notin Groups
    /\ g.retry_uses_cookie => GCookie(g) # <<>> /\ CookieVerifies(ch)
    /\ ~g.retry_uses_cookie => GCookie(g) = <<>>

(* What the second ClientHello offers, read off the configuration.          *)
LEMMA Hello2Told ==
  ASSUME NEW g \in Configs, GCompatible(g), GRetries(g)
  PROVE  Hello2Tells(g)
<1> DEFINE share == IF GShareless(g) THEN "group1" ELSE g.key_share
           has == GExtensions(g) \cup {share} \cup If(GCookie(g) # <<>>, "cookie")
           ch  == Hello2(g)
<1>1. /\ g.key_share \in {"group1", "group2", "alien", "none"} /\ Hello1Tells(g)
  BY Hello1Told, ConfigsAssumption DEF Config, GCompatible
<1>2. /\ ch.type = "CH" /\ ch.has = has /\ ch.cookie = GCookie(g)
  BY DEF Hello2, GHello, Message
<1>3. GShareless(g) <=> g.key_share \notin Groups
  BY <1>1 DEF GShareless, Hello1Tells, Groups
<1>4. share \in Groups /\ share = IF g.key_share \in Groups THEN g.key_share ELSE "group1"
  BY <1>3 DEF Groups
<1>5. GExtensions(g) \subseteq {"psk", "ke_modes", "legacy_session_id"}
      /\ ("ke_modes" \in GExtensions(g) <=> (g.save_ticket \/ GOffers(g)))
  BY DEF GExtensions, If
<1>6. If(GCookie(g) # <<>>, "cookie") \subseteq {"cookie"}
  BY DEF If
<1> DEFINE ext == GExtensions(g)
           ck  == If(GCookie(g) # <<>>, "cookie")
<1>7. /\ has \cap Groups = {share} /\ "random" \notin has /\ "early_data" \notin has
      /\ "ke_modes" \in has <=> "ke_modes" \in ext
  <2>1. has = ext \cup {share} \cup ck /\ ext \subseteq {"psk", "ke_modes", "legacy_session_id"}
        /\ ck \subseteq {"cookie"}
    BY <1>5, <1>6
  <2> HIDE DEF has, ext, ck, share
  <2>2. QED BY <1>4, <2>1 DEF Groups
<1> HIDE DEF has, ch, share
<1>8. SharedGroup(ch) = share
  BY <1>2, <1>4, <1>7, OneGroup
<1>9. Random(ch) = {} /\ View(ch) = <<"CH", ch.has>>
  BY <1>2, <1>7 DEF Random, View
<1>10. g.retry_uses_cookie => GCookie(g) # <<>> /\ CookieVerifies(ch)
  <2>1. SUFFICES ASSUME g.retry_uses_cookie PROVE GCookie(g) # <<>> /\ CookieVerifies(ch)
    OBVIOUS
  <2>2. GCookie(g) = <<ch1hash(<<View(Hello1(g))>>), Random(Hello1(g)), {"group1"},
                       SharedGroup(Hello1(g)) = "none">>
    BY <2>1 DEF GCookie, Cookie
  <2>3. Random(Hello1(g)) = {}
    BY <1>1 DEF Hello1Tells
  <2>4. share = "group1"
    <3>1. g.key_share # "group2"
      BY <2>1 DEF GCompatible
    <3>2. QED BY <1>1, <1>4, <3>1 DEF Groups
  <2>5. GCookie(g) # <<>> /\ GCookie(g)[2] = {} /\ GCookie(g)[3] = {"group1"}
    BY <2>2, <2>3
  <2>6. QED BY <1>2, <1>8, <1>9, <2>4, <2>5 DEF CookieVerifies
<1>11. ~g.retry_uses_cookie => GCookie(g) = <<>>
  BY DEF GCookie
<1>12. SharedGroup(ch) = IF g.key_share \in Groups THEN g.key_share ELSE "group1"
  BY <1>4, <1>8
<1>13. "ke_modes" \in ch.has <=> (g.save_ticket \/ GOffers(g))
  BY <1>2, <1>5, <1>7
<1>14. /\ ch.cookie = GCookie(g) /\ "early_data" \notin ch.has
  BY <1>2, <1>7
<1>15. QED BY <1>3, <1>9, <1>10, <1>11, <1>12, <1>13, <1>14 DEF Hello2Tells, ch

-----------------------------------------------------------------------------
(* Where the reader s is, and where it is led.                              *)
Point(s) == IF s = "client" THEN ClientPoint ELSE ServerPoint
Goal(s)  == IF s = "client" THEN ClientGoal ELSE ServerGoal

(* The state of an honest handshake.                                        *)
Honest ==
    /\ GCompatible(cfg) /\ Calm
    /\ ClientHonest /\ ClientEarly /\ ServerHonest /\ EarlyCounted /\ Silent
    /\ \A s \in Side : Walk(s, cfg, Stream(Peer(s)), Point(s), Goal(s))

(* The invariant: no fault was injected and the configurations fit.         *)
HonestInv == GCompatible(cfg) /\ faults = 0 => Honest

(* The first record on its way is the first of the wire.                    *)
LEMMA FirstOfStream ==
  ASSUME NEW q \in Seq(Recs), NEW r \in Seq(Recs), q # <<>>
  PROVE  /\ q \o r # <<>> /\ (q \o r)[1] = q[1] /\ Tail(q \o r) = Tail(q) \o r
         /\ Tail(q) \in Seq(Recs) /\ q[1] \in Recs
<1>1. Len(q) \in Nat /\ Len(q) # 0 /\ Tail(q) \in Seq(Recs) /\ q[1] \in Recs
  OBVIOUS
<1>2. Len(q \o r) = Len(q) + Len(r) /\ (q \o r)[1] = q[1] /\ q \o r # <<>>
  BY <1>1
<1>3. Tail(q \o r) = Tail(q) \o r
  BY <1>1, SMTT(30)
<1>4. QED BY <1>1, <1>2, <1>3

(* Whoever reads has a link to go along.                                    *)
LEMMA Arrives ==
  ASSUME LocalInv, Honest, NEW s \in Side, wire[Peer(s)] # <<>>
  PROVE  /\ First(s) \in Recs /\ Tail(wire[Peer(s)]) \in Seq(Recs)
         /\ \E d : /\ Link(s, cfg, Point(s), First(s), d)
                   /\ Walk(s, cfg, Tail(wire[Peer(s)]) \o sendbuf[Peer(s)], d, Goal(s))
<1> DEFINE t == Peer(s)
<1>1. t \in Side /\ wire[t] \in Seq(Recs) /\ sendbuf[t] \in Seq(Recs)
  BY Sides DEF LocalInv, TypeInv
<1>2. Walk(s, cfg, wire[t] \o sendbuf[t], Point(s), Goal(s))
  BY DEF Honest, Stream
<1>3. /\ wire[t] \o sendbuf[t] # <<>> /\ (wire[t] \o sendbuf[t])[1] = wire[t][1]
      /\ Tail(wire[t] \o sendbuf[t]) = Tail(wire[t]) \o sendbuf[t]
      /\ Tail(wire[t]) \in Seq(Recs) /\ wire[t][1] \in Recs
      /\ wire[t] \o sendbuf[t] \in Seq(Recs)
  BY <1>1, FirstOfStream, Joined
<1>4. \E d : /\ Link(s, cfg, Point(s), wire[t][1], d)
             /\ Walk(s, cfg, Tail(wire[t]) \o sendbuf[t], d, Goal(s))
  BY <1>2, <1>3, WalkRead
<1>5. QED BY <1>3, <1>4 DEF First

(* What a client reads is what it waits for.                                *)
ClientFits(r, d) ==
    LET st == state["client"] IN
    \/ IsCcs(r) /\ st # "CLIENT_POST_HANDSHAKE" /\ d = ClientPoint
    \/ /\ r.msg.type \notin {"CCS", "ALERT"}
       /\ \/ r.msg.type \in Expected[st]
          \/ r.msg.type = "DATA" /\ st = "CLIENT_POST_HANDSHAKE"
       /\ IF dec["client"].aead THEN Opens(dec["client"], r) ELSE ~Sealed(r)

(* A record that the client's point links is one it can open and expects.   *)
LEMMA ClientGets ==
  ASSUME LocalInv, Honest, NEW r, NEW d, ClientLink(cfg, ClientPoint, r, d),
         state["client"] # "CLIENT_HANDSHAKE_START"
  PROVE  ClientFits(r, d)
<1> DEFINE st == state["client"]
<1>1. Kinds(cfg)
  BY KindsAre
<1>2. st \in ClientHellos \cup ClientFlight \cup {"CLIENT_POST_HANDSHAKE"}
  BY DEF LocalInv, ClientInv
<1>3. ClientPoint.st = st /\ ClientPoint.seq = dec["client"].seq
  BY DEF ClientPoint, At, ClientPhase
<1>4. /\ st \in ClientHellos => dec["client"].aead = FALSE
      /\ st \in ClientFlight => KeyOf(dec["client"], Hs(cfg, "s_hs_traffic"))
      /\ st = "CLIENT_POST_HANDSHAKE" => KeyOf(dec["client"], Ap(cfg, "s_ap_traffic"))
  BY <1>1 DEF Honest, ClientHonest, Kinds
<1>5. CASE IsCcs(r) /\ st # "CLIENT_POST_HANDSHAKE" /\ d = ClientPoint
  BY <1>5 DEF ClientFits
<1>6. CASE /\ st \in ClientHellos /\ r.secret = NoSecret /\ r.msg.type \in {"HRR", "SH"}
  <2>1. r.msg.type \in Expected[st]
    BY <1>6 DEF ClientHellos, Expected
  <2>2. ~Sealed(r) /\ dec["client"].aead = FALSE
    BY <1>4, <1>6 DEF Sealed
  <2>3. QED BY <1>6, <2>1, <2>2 DEF ClientFits
<1>7. CASE /\ st \in ClientFlight /\ r.secret = Hs(cfg, "s_hs_traffic") /\ r.seq = ClientPoint.seq
           /\ r.msg.type \in Expected[st] /\ r.msg.type \notin {"CCS", "ALERT"}
  BY <1>3, <1>4, <1>7 DEF ClientFits, Opens, KeyOf
<1>8. CASE /\ st = "CLIENT_POST_HANDSHAKE" /\ r.secret = Ap(cfg, "s_ap_traffic")
           /\ r.seq = ClientPoint.seq /\ r.msg.type \in {"NST", "DATA"}
  <2>1. r.msg.type \in Expected[st] \/ r.msg.type = "DATA"
    BY <1>8 DEF Expected
  <2>2. QED BY <1>3, <1>4, <1>8, <2>1 DEF ClientFits, Opens, KeyOf
<1>9. QED
  <2> DEFINE c == ClientPoint
  <2>1. CASE IsCcs(r) /\ c.st # "CLIENT_POST_HANDSHAKE" /\ d = c
    BY <1>3, <1>5, <2>1
  <2>2. CASE /\ c.st \in ClientHellos /\ \E m \in {Hrr(cfg), Sh(cfg)} : r = Rec(NoSecret, 0, m)
    BY <1>1, <1>3, <1>6, <2>2 DEF Kinds, Rec
  <2>3. CASE /\ c.st = "CLIENT_EXPECT_ENCRYPTED_EXTENSIONS"
             /\ r = Rec(Hs(cfg, "s_hs_traffic"), c.seq, Ee(cfg))
    BY <1>1, <1>3, <1>7, <2>3 DEF Kinds, Rec, ClientFlight, Expected
  <2>4. CASE /\ c.st = "CLIENT_EXPECT_CERTIFICATE_REQUEST_OR_CERTIFICATE"
             /\ \E m \in {Cr, Cert} : r = Rec(Hs(cfg, "s_hs_traffic"), c.seq, m)
    BY <1>1, <1>3, <1>7, <2>4 DEF Kinds, Rec, ClientFlight, Expected
  <2>5. CASE /\ c.st = "CLIENT_EXPECT_CERTIFICATE"
             /\ r = Rec(Hs(cfg, "s_hs_traffic"), c.seq, Cert)
    BY <1>1, <1>3, <1>7, <2>5 DEF Kinds, Rec, ClientFlight, Expected
  <2>6. CASE /\ c.st = "CLIENT_EXPECT_CERTIFICATE_VERIFY"
             /\ r = Rec(Hs(cfg, "s_hs_traffic"), c.seq, Cv(cfg))
    BY <1>1, <1>3, <1>7, <2>6 DEF Kinds, Rec, ClientFlight, Expected
  <2>7. CASE /\ c.st = "CLIENT_EXPECT_FINISHED"
             /\ r = Rec(Hs(cfg, "s_hs_traffic"), c.seq, Fin(cfg))
    BY <1>1, <1>3, <1>7, <2>7 DEF Kinds, Rec, ClientFlight, Expected
  <2>8. CASE /\ c.st = "CLIENT_POST_HANDSHAKE" /\ r.secret = Ap(cfg, "s_ap_traffic")
             /\ r.seq = c.seq /\ r.msg.type \in {"NST", "DATA"}
    BY <1>3, <1>8, <2>8
  <2> HIDE DEF c
  <2>9. ClientLink(cfg, c, r, d)
    BY DEF c
  <2>10. QED BY <2>1, <2>2, <2>3, <2>4, <2>5, <2>6, <2>7, <2>8, <2>9 DEF ClientLink, ClientHellos

(* What a server reads is what it waits for, or early data it passes over.  *)
ServerSkips(r, d) ==
    /\ early_data_skipped_bytes # UINT32_MAX /\ Sealed(r) /\ ~Opens(dec["server"], r)
    /\ r.secret = Ce(cfg) /\ r.msg.type = "DATA" /\ r.seq = EarlyRead
    /\ d = At(ServerPhase, dec["server"].seq, EarlyRead + 1)

(* A record that the server's state and key can take: a ChangeCipherSpec,   *)
(* early data to pass over, or an expected message that opens.              *)
ServerFits(r, d) ==
    LET st == state["server"] IN
    \/ IsCcs(r) /\ st # "SERVER_POST_HANDSHAKE" /\ d = ServerPoint
    \/ ServerSkips(r, d)
    \/ /\ r.msg.type \notin {"CCS", "ALERT"}
       /\ \/ r.msg.type \in Expected[st]
          \/ r.msg.type = "DATA" /\ st \in {"SERVER_POST_HANDSHAKE", "SERVER_EXPECT_END_OF_EARLY_DATA"}
       /\ IF dec["server"].aead THEN Opens(dec["server"], r) ELSE ~Sealed(r)

(* A record that the server's point links is one it can take.               *)
LEMMA ServerGets ==
  ASSUME LocalInv, Honest, NEW r, NEW d, ServerLink(cfg, ServerPoint, r, d)
  PROVE  ServerFits(r, d)
<1> DEFINE st == state["server"]
           c  == ServerPoint
<1>1. Kinds(cfg)
  BY KindsAre
<1>2. st \in ServerHandshake \cup {"SERVER_POST_HANDSHAKE"}
  BY DEF LocalInv, ServerInv
<1>3. /\ c.st = ServerPhase /\ c.seq = dec["server"].seq /\ c.early = EarlyRead
      /\ c.st \notin ServerHellos => c.st = st
      /\ c.st \in ServerHellos => st \in ServerHellos
      /\ c.st = "SERVER_EXPECT_SECOND_CLIENT_HELLO" /\ GEarly(cfg) => c.st = st
      /\ c.st = "SERVER_EXPECT_CLIENT_HELLO" => c.st = st
  BY DEF ServerPoint, At, ServerPhase, CookieSent, ServerHellos, Honest, GCompatible
<1>4. /\ st \in ServerHellos => dec["server"] = NoKey
      /\ st = "SERVER_EXPECT_END_OF_EARLY_DATA" => KeyOf(dec["server"], Ce(cfg))
      /\ st \in {"SERVER_EXPECT_CERTIFICATE", "SERVER_EXPECT_CERTIFICATE_VERIFY",
                 "SERVER_EXPECT_FINISHED"} => KeyOf(dec["server"], Hs(cfg, "c_hs_traffic"))
      /\ st = "SERVER_POST_HANDSHAKE" => KeyOf(dec["server"], Ap(cfg, "c_ap_traffic"))
      /\ early_data_skipped_bytes # UINT32_MAX <=>
           st # "SERVER_EXPECT_CLIENT_HELLO" /\ GEarly(cfg) /\ ~GTakesEarly(cfg)
  BY DEF Honest, ServerHonest
<1> HIDE DEF c
<1>5. CASE IsCcs(r) /\ c.st # "SERVER_POST_HANDSHAKE" /\ d = c
  BY <1>3, <1>5 DEF ServerFits, c, ServerHellos
<1>6. CASE /\ c.st \in ServerHellos /\ \E m \in {Hello1(cfg), Hello2(cfg)} : r = Rec(NoSecret, 0, m)
  <2>1. r.secret = NoSecret /\ r.msg.type = "CH"
    BY <1>1, <1>6 DEF Kinds, Rec
  <2>2. "CH" \in Expected[st]
    BY <1>3, <1>6 DEF ServerHellos, Expected
  <2>3. ~Sealed(r) /\ dec["server"].aead = FALSE
    BY <1>1, <1>3, <1>4, <1>6, <2>1 DEF Sealed, Kinds
  <2>4. QED BY <2>1, <2>2, <2>3 DEF ServerFits
<1>7. CASE /\ c.st \in {"SERVER_EXPECT_SECOND_CLIENT_HELLO", "SERVER_EXPECT_CERTIFICATE",
                        "SERVER_EXPECT_FINISHED"}
           /\ GEarly(cfg) /\ ~GTakesEarly(cfg)
           /\ r = Rec(Ce(cfg), c.early, Plain("DATA", {}))
           /\ d = At(c.st, c.seq, c.early + 1)
  <2>1. c.st = st /\ early_data_skipped_bytes # UINT32_MAX
    BY <1>3, <1>4, <1>7 DEF ServerHellos
  <2>2. r.secret = Ce(cfg) /\ r.msg.type = "DATA" /\ r.seq = EarlyRead
    BY <1>1, <1>3, <1>7 DEF Rec, Kinds
  <2>3. dec["server"].secret # Ce(cfg)
    <3>1. dec["server"].secret \in {NoSecret, Hs(cfg, "c_hs_traffic")}
      BY <1>1, <1>4, <1>7, <2>1 DEF KeyOf, Kinds, ServerHellos
    <3>2. QED BY <1>1, <3>1 DEF Kinds
  <2>4. Sealed(r) /\ ~Opens(dec["server"], r)
    BY <1>1, <2>2, <2>3 DEF Sealed, Opens, Kinds
  <2>5. QED BY <1>3, <1>7, <2>1, <2>2, <2>4 DEF ServerFits, ServerSkips
<1>8. CASE /\ c.st \notin ServerHellos
           /\ c.st = "SERVER_EXPECT_END_OF_EARLY_DATA" =>
                r.secret = Ce(cfg) /\ r.msg.type \in {"DATA", "EOED"}
           /\ c.st \in {"SERVER_EXPECT_CERTIFICATE", "SERVER_EXPECT_CERTIFICATE_VERIFY",
                        "SERVER_EXPECT_FINISHED"} =>
                r.secret = Hs(cfg, "c_hs_traffic") /\ r.msg.type \in Expected[c.st]
           /\ c.st = "SERVER_POST_HANDSHAKE" =>
                r.secret = Ap(cfg, "c_ap_traffic") /\ r.msg.type = "DATA"
           /\ r.seq = c.seq /\ r.msg.type \notin {"CCS", "ALERT"}
  <2>1. c.st = st
    BY <1>3, <1>8
  <2>2. dec["server"].aead = TRUE /\ dec["server"].secret = r.secret
    BY <1>2, <1>4, <1>8, <2>1 DEF KeyOf, ServerHandshake, ServerHellos
  <2>3. Opens(dec["server"], r)
    BY <1>3, <1>8, <2>2 DEF Opens
  <2>4. \/ r.msg.type \in Expected[st]
        \/ r.msg.type = "DATA" /\ st \in {"SERVER_POST_HANDSHAKE", "SERVER_EXPECT_END_OF_EARLY_DATA"}
    BY <1>2, <1>8, <2>1 DEF ServerHandshake, ServerHellos, Expected
  <2>5. QED BY <1>8, <2>2, <2>3, <2>4 DEF ServerFits
<1>9. QED
  <2>1. CASE c.st = "SERVER_EXPECT_END_OF_EARLY_DATA" /\ c.seq = c.early
             /\ \E m \in {Plain("DATA", {}), Eoed} : r = Rec(Ce(cfg), c.early, m)
    BY <1>1, <1>8, <2>1 DEF Kinds, Rec, ServerHellos
  <2>2. CASE c.st = "SERVER_EXPECT_CERTIFICATE" /\ r = Rec(Hs(cfg, "c_hs_traffic"), c.seq, Cert)
    BY <1>1, <1>8, <2>2 DEF Kinds, Rec, ServerHellos, Expected
  <2>3. CASE /\ c.st = "SERVER_EXPECT_CERTIFICATE_VERIFY"
             /\ r = Rec(Hs(cfg, "c_hs_traffic"), c.seq, CCv(cfg))
    BY <1>1, <1>8, <2>3 DEF Kinds, Rec, ServerHellos, Expected
  <2>4. CASE /\ c.st = "SERVER_EXPECT_FINISHED"
             /\ r = Rec(Hs(cfg, "c_hs_traffic"), c.seq, CFin(cfg))
    BY <1>1, <1>8, <2>4 DEF Kinds, Rec, ServerHellos, Expected
  <2>5. CASE /\ c.st = "SERVER_POST_HANDSHAKE" /\ r.secret = Ap(cfg, "c_ap_traffic")
             /\ r.seq = c.seq /\ r.msg.type = "DATA"
    BY <1>8, <2>5 DEF ServerHellos
  <2>6. ServerLink(cfg, c, r, d)
    BY DEF c
  <2>7. QED BY <1>5, <1>6, <1>7, <2>1, <2>2, <2>3, <2>4, <2>5, <2>6 DEF ServerLink, ServerHellos

(* The link a type of message goes along.                                   *)
ClientMoves(g, c, r, d) ==
    LET type == r.msg.type IN
    /\ type = "CCS" => d = c
    /\ type = "HRR" =>
         /\ GRetries(g) /\ c.st = "CLIENT_EXPECT_SERVER_HELLO" /\ r.msg = Hrr(g)
         /\ d = At("CLIENT_EXPECT_SECOND_SERVER_HELLO", 0, 0)
    /\ type = "SH" =>
         /\ c.st = IF GRetries(g) THEN "CLIENT_EXPECT_SECOND_SERVER_HELLO"
                   ELSE "CLIENT_EXPECT_SERVER_HELLO"
         /\ r.msg = Sh(g) /\ d = At("CLIENT_EXPECT_ENCRYPTED_EXTENSIONS", 0, 0)
    /\ type = "EE" =>
         /\ r.msg = Ee(g) /\ c.seq = 0
         /\ d = At(IF GResumes(g) THEN "CLIENT_EXPECT_FINISHED"
                   ELSE "CLIENT_EXPECT_CERTIFICATE_REQUEST_OR_CERTIFICATE", 1, 0)
    /\ type = "CR" =>
         /\ ~GResumes(g) /\ GAuth(g) /\ r.msg = Cr /\ c.seq = 1
         /\ d = At("CLIENT_EXPECT_CERTIFICATE", 2, 0)
    /\ type = "CERT" =>
         /\ ~GResumes(g) /\ r.msg = Cert /\ c.seq = CertAt(g)
         /\ c.st = IF GAuth(g) THEN "CLIENT_EXPECT_CERTIFICATE"
                   ELSE "CLIENT_EXPECT_CERTIFICATE_REQUEST_OR_CERTIFICATE"
         /\ d = At("CLIENT_EXPECT_CERTIFICATE_VERIFY", CertAt(g) + 1, 0)
    /\ type = "CV" =>
         /\ ~GResumes(g) /\ r.msg = Cv(g) /\ c.seq = CertAt(g) + 1
         /\ d = At("CLIENT_EXPECT_FINISHED", CertAt(g) + 2, 0)
    /\ type = "FIN" =>
         /\ r.msg = Fin(g) /\ d = At("CLIENT_POST_HANDSHAKE", 0, 0)
    /\ type \in {"NST", "DATA"} => d = At("CLIENT_POST_HANDSHAKE", c.seq + 1, 0)

(* The client's links, by the type of the message.                          *)
LEMMA ClientMoved ==
  ASSUME NEW g, NEW c, NEW r, NEW d, ClientLink(g, c, r, d)
  PROVE  ClientMoves(g, c, r, d)
<1>1. Kinds(g)
  BY KindsAre
<1>2. QED BY <1>1 DEF Kinds, ClientLink, ClientMoves, Rec, IsCcs

(* What a record that the server reads tells of its point, by type.         *)
ServerMoves(g, c, r, d) ==
    LET type == r.msg.type IN
    /\ type = "CCS" => d = c
    /\ type = "CH" =>
         \/ /\ c.st = "SERVER_EXPECT_CLIENT_HELLO" /\ c.early = 0 /\ r.msg = Hello1(g)
            /\ d = IF GRetries(g) THEN At("SERVER_EXPECT_SECOND_CLIENT_HELLO", 0, 0)
                   ELSE PointAfterHello(g, 0)
         \/ /\ c.st = "SERVER_EXPECT_SECOND_CLIENT_HELLO" /\ GRetries(g) /\ r.msg = Hello2(g)
            /\ d = PointAfterHello(g, c.early)
    /\ type = "DATA" /\ c.st = "SERVER_EXPECT_END_OF_EARLY_DATA" =>
         c.seq = c.early /\ d = At(c.st, c.early + 1, c.early + 1)
    /\ type = "DATA" /\ c.st = "SERVER_POST_HANDSHAKE" => d = At(c.st, c.seq + 1, c.early)
    /\ type = "EOED" => r.msg = Eoed /\ d = At("SERVER_EXPECT_FINISHED", 0, c.early)
    /\ type = "CERT" => r.msg = Cert /\ c.seq = 0 /\ d = At("SERVER_EXPECT_CERTIFICATE_VERIFY", 1, c.early)
    /\ type = "CV" => r.msg = CCv(g) /\ c.seq = 1 /\ d = At("SERVER_EXPECT_FINISHED", 2, c.early)
    /\ type = "FIN" => r.msg = CFin(g) /\ d = At("SERVER_POST_HANDSHAKE", 0, c.early)

(* The server's links, by the type of the message.                          *)
LEMMA ServerMoved ==
  ASSUME NEW g, NEW c, NEW r, NEW d, ServerLink(g, c, r, d)
  PROVE  ServerMoves(g, c, r, d)
<1>1. Kinds(g)
  BY KindsAre
<1>2. QED BY <1>1 DEF Kinds, ServerLink, ServerMoves, Rec, IsCcs

(* What has arrived, and the rest of the way.                               *)
ClientReading(d) ==
    /\ wire["server"] # <<>> /\ state["client"] # "CLIENT_HANDSHAKE_START"
    /\ First("client") = wire["server"][1] /\ First("client") \in Recs
    /\ ClientFits(First("client"), d) /\ ClientMoves(cfg, ClientPoint, First("client"), d)
    /\ Tail(wire["server"]) \in Seq(Recs)
    /\ Walk("client", cfg, Tail(wire["server"]) \o sendbuf["server"], d, ClientGoal)

(* The first record that waits for the client is one it can take.           *)
LEMMA ClientReads ==
  ASSUME LocalInv, Honest, wire["server"] # <<>>
  PROVE  \E d : ClientReading(d)
<1>1. "client" \in Side /\ Peer("client") = "server" /\ wire[Peer("client")] # <<>>
  BY Sides
<1>2. state["client"] # "CLIENT_HANDSHAKE_START"
  BY Sides DEF LocalInv, QuietInv
<1>3. PICK d : /\ Link("client", cfg, Point("client"), First("client"), d)
               /\ Walk("client", cfg, Tail(wire["server"]) \o sendbuf["server"], d, Goal("client"))
  BY <1>1, Arrives
<1>4. First("client") \in Recs /\ Tail(wire["server"]) \in Seq(Recs)
  BY <1>1, Arrives
<1>5. Point("client") = ClientPoint /\ Goal("client") = ClientGoal
  BY DEF Point, Goal
<1>6. ClientLink(cfg, ClientPoint, First("client"), d)
  BY <1>3, <1>5 DEF Link
<1>7. ClientFits(First("client"), d) /\ ClientMoves(cfg, ClientPoint, First("client"), d)
  BY <1>2, <1>6, ClientGets, ClientMoved
<1>8. First("client") = wire["server"][1]
  BY <1>1 DEF First
<1>9. ClientReading(d)
  BY <1>2, <1>3, <1>4, <1>5, <1>7, <1>8 DEF ClientReading
<1>10. QED BY <1>9

(* The first record that waits for the server leads it to d.                *)
ServerReading(d) ==
    /\ wire["client"] # <<>>
    /\ First("server") = wire["client"][1] /\ First("server") \in Recs
    /\ ServerFits(First("server"), d) /\ ServerMoves(cfg, ServerPoint, First("server"), d)
    /\ Tail(wire["client"]) \in Seq(Recs)
    /\ Walk("server", cfg, Tail(wire["client"]) \o sendbuf["client"], d, ServerGoal)

(* The first record that waits for the server is one it can take.           *)
LEMMA ServerReads ==
  ASSUME LocalInv, Honest, wire["client"] # <<>>
  PROVE  \E d : ServerReading(d)
<1>1. "server" \in Side /\ Peer("server") = "client" /\ wire[Peer("server")] # <<>>
  BY Sides
<1>3. PICK d : /\ Link("server", cfg, Point("server"), First("server"), d)
               /\ Walk("server", cfg, Tail(wire["client"]) \o sendbuf["client"], d, Goal("server"))
  BY <1>1, Arrives
<1>4. First("server") \in Recs /\ Tail(wire["client"]) \in Seq(Recs)
  BY <1>1, Arrives
<1>5. Point("server") = ServerPoint /\ Goal("server") = ServerGoal
  BY DEF Point, Goal
<1>6. ServerLink(cfg, ServerPoint, First("server"), d)
  BY <1>3, <1>5 DEF Link
<1>7. ServerFits(First("server"), d) /\ ServerMoves(cfg, ServerPoint, First("server"), d)
  BY <1>6, ServerGets, ServerMoved
<1>8. First("server") = wire["client"][1]
  BY <1>1 DEF First
<1>9. ServerReading(d)
  BY <1>3, <1>4, <1>5, <1>7, <1>8 DEF ServerReading
<1>10. QED BY <1>9

-----------------------------------------------------------------------------
(* None of the steps that fail can happen.                                  *)

(* Nothing is refused.                                                      *)
LEMMA NothingRefused ==
  ASSUME LocalInv, Honest, NEW s \in Side, RejectRecord(s)
  PROVE  FALSE
<1> DEFINE r == First(s)
<1>1. Ready(s) /\ RejectCode(s) # "none" /\ wire[Peer(s)] # <<>>
  BY DEF RejectRecord, Ready
<1>2. \/ r.msg.type = "CCS" /\ state[s] \notin PostHandshake
      \/ /\ s = "server" /\ early_data_skipped_bytes # UINT32_MAX /\ Sealed(r)
         /\ ~Opens(dec[s], r) /\ r.msg.type = "DATA"
      \/ /\ r.msg.type \notin {"CCS", "ALERT"}
         /\ \/ r.msg.type \in Expected[state[s]]
            \/ r.msg.type = "DATA" /\ state[s] \in PostHandshake \cup {"SERVER_EXPECT_END_OF_EARLY_DATA"}
         /\ IF dec[s].aead THEN Opens(dec[s], r) ELSE ~Sealed(r)
  <2>1. CASE s = "client"
    <3>1. PICK d : ClientReading(d)
      BY <1>1, <2>1, ClientReads, Sides
    <3>2. ClientFits(r, d)
      BY <2>1, <3>1 DEF ClientReading
    <3>3. state["client"] \in PostHandshake => state["client"] = "CLIENT_POST_HANDSHAKE"
      BY DEF LocalInv, ClientInv, ClientHellos, ClientFlight, PostHandshake
    <3>4. IsCcs(r) => r.msg.type = "CCS"
      BY DEF IsCcs, Rec, Plain, Message
    <3>5. QED BY <2>1, <3>2, <3>3, <3>4 DEF ClientFits, PostHandshake
  <2>2. CASE s = "server"
    <3>1. PICK d : ServerReading(d)
      BY <1>1, <2>2, ServerReads, Sides
    <3>2. ServerFits(r, d)
      BY <2>2, <3>1 DEF ServerReading
    <3>3. state["server"] \in PostHandshake => state["server"] = "SERVER_POST_HANDSHAKE"
      BY DEF LocalInv, ServerInv, ServerHandshake, PostHandshake
    <3>4. IsCcs(r) => r.msg.type = "CCS"
      BY DEF IsCcs, Rec, Plain, Message
    <3>5. QED BY <2>2, <3>2, <3>3, <3>4 DEF ServerFits, ServerSkips, PostHandshake
  <2>3. QED BY <2>1, <2>2 DEF Side
<1>3. CASE r.msg.type = "CCS" /\ state[s] \notin PostHandshake
  <2>1. ~Accepts(s) /\ ~PlainAlert(s)
    BY <1>3 DEF Accepts, PlainAlert
  <2>2. QED BY <1>1, <1>3, <2>1 DEF RejectCode
<1>4. CASE /\ s = "server" /\ early_data_skipped_bytes # UINT32_MAX /\ Sealed(r)
           /\ ~Opens(dec[s], r) /\ r.msg.type = "DATA"
  <2>1. ~Accepts(s) /\ ~PlainAlert(s)
    BY <1>4 DEF Accepts, PlainAlert
  <2>2. QED BY <1>1, <1>4, <2>1 DEF RejectCode
<1>5. CASE /\ r.msg.type \notin {"CCS", "ALERT"}
           /\ \/ r.msg.type \in Expected[state[s]]
              \/ r.msg.type = "DATA" /\ state[s] \in PostHandshake \cup {"SERVER_EXPECT_END_OF_EARLY_DATA"}
           /\ IF dec[s].aead THEN Opens(dec[s], r) ELSE ~Sealed(r)
  <2>1. Accepts(s) /\ ~PlainAlert(s)
    BY <1>1, <1>5 DEF Accepts, PlainAlert
  <2>2. "DATA" \notin Expected[state[s]]
    <3>1. state[s] \in DOMAIN Expected
      <4>1. CASE s = "client"
        <5>1. state["client"] # "CLIENT_HANDSHAKE_START"
          BY <1>1, <4>1, Sides DEF LocalInv, QuietInv
        <5>2. QED BY <4>1, <5>1 DEF LocalInv, ClientInv, ClientHellos, ClientFlight, Expected
      <4>2. CASE s = "server"
        BY <4>2 DEF LocalInv, ServerInv, ServerHandshake, Expected
      <4>3. QED BY <4>1, <4>2 DEF Side
    <3>2. QED BY <3>1 DEF Expected
  <2>3. QED BY <1>1, <1>5, <2>1, <2>2 DEF RejectCode
<1>6. QED BY <1>2, <1>3, <1>4, <1>5

(* Nobody sends an alert.                                                   *)
LEMMA NoAlert ==
  ASSUME LocalInv, Honest, NEW s \in Side, handle_alert(s)
  PROVE  FALSE
<1>1. wire[Peer(s)] # <<>> /\ First(s).msg.type = "ALERT"
  BY DEF handle_alert, Ready, PlainAlert
<1>2. \A r : IsCcs(r) => r.msg.type = "CCS"
  BY DEF IsCcs, Rec, Plain, Message
<1>3. CASE s = "client"
  <2>1. PICK d : ClientReading(d)
    BY <1>1, <1>3, ClientReads, Sides
  <2>2. QED BY <1>1, <1>2, <1>3, <2>1 DEF ClientReading, ClientFits
<1>4. CASE s = "server"
  <2>1. PICK d : ServerReading(d)
    BY <1>1, <1>4, ServerReads, Sides
  <2>2. QED BY <1>1, <1>2, <1>4, <2>1 DEF ServerReading, ServerFits, ServerSkips
<1>5. QED BY <1>3, <1>4 DEF Side

(* The server passes over early data only, and no more than it allows.      *)
LEMMA FewSkipped ==
  ASSUME LocalInv, Honest, ServerSkipEarlyData
  PROVE  /\ early_data_skipped_bytes \in Nat /\ early_data_skipped_bytes + 1 <= SKIP_LIMIT
         /\ \E d : ServerReading(d) /\ ServerSkips(First("server"), d)
<1> DEFINE r == First("server")
<1>1. /\ wire["client"] # <<>> /\ Sealed(r) /\ ~Opens(dec["server"], r)
      /\ early_data_skipped_bytes # UINT32_MAX
  BY Sides DEF ServerSkipEarlyData, Ready
<1>2. PICK d : ServerReading(d)
  BY <1>1, ServerReads
<1>3. ServerSkips(r, d)
  <2>1. ~IsCcs(r)
    BY <1>1 DEF IsCcs, Rec, Sealed
  <2>2. QED BY <1>1, <1>2, <2>1 DEF ServerReading, ServerFits
<1>4. r.seq = early_data_skipped_bytes /\ early_data_skipped_bytes \in Nat
  BY <1>1, <1>3 DEF ServerSkips, EarlyRead, LocalInv, TypeInv
<1>5. r.seq < earlySent
  <2>1. wire["client"] \in Seq(Recs) /\ sendbuf["client"] \in Seq(Recs)
    BY Sides DEF LocalInv, TypeInv
  <2>2. Stream("client")[1] = r /\ 1 \in 1..Len(Stream("client"))
    <3>1. Stream("client") \in Seq(Recs) /\ Stream("client") # <<>> /\ Stream("client")[1] = r
      BY <1>1, <1>2, <2>1, FirstOfStream, Joined DEF Stream, ServerReading
    <3>2. QED BY <3>1
  <2>3. QED BY <1>3, <2>2 DEF Honest, EarlyCounted, ServerSkips
<1>6. earlySent <= cfg.early_limit /\ cfg.early_limit <= SKIP_LIMIT
  BY DEF Honest, ClientEarly, GCompatible
<1>7. earlySent \in Nat /\ cfg.early_limit \in Nat /\ SKIP_LIMIT \in Nat
  BY HandshakeBounds, ConfigTypes DEF LocalInv, TypeInv
<1>8. early_data_skipped_bytes + 1 <= SKIP_LIMIT
  BY <1>4, <1>5, <1>6, <1>7
<1>9. QED BY <1>2, <1>3, <1>4, <1>8

(* No handler of the client fails...                                        *)
LEMMA NoClientError ==
  ASSUME LocalInv, Honest, ClientError
  PROVE  FALSE
<1> DEFINE m  == First("client").msg
           th == transcript["client"]
<1>1. PICK type \in {"EE", "CERT", "CV", "FIN"} : ClientTakes(type)
  BY DEF ClientError
<1>2. /\ wire["server"] # <<>> /\ m.type = type
      /\ type = "EE" => state["client"] = "CLIENT_EXPECT_ENCRYPTED_EXTENSIONS"
      /\ type = "CV" => state["client"] = "CLIENT_EXPECT_CERTIFICATE_VERIFY"
      /\ type = "FIN" => state["client"] = "CLIENT_EXPECT_FINISHED"
  BY <1>1, ClientExpects
<1>3. PICK d : ClientReading(d)
  BY <1>2, ClientReads
<1>4. /\ type = "EE" => m = Ee(cfg)
      /\ type = "CERT" => m = Cert
      /\ type = "CV" => m = Cv(cfg)
      /\ type = "FIN" => m = Fin(cfg)
  BY <1>2, <1>3 DEF ClientReading, ClientMoves
<1>5. type = "EE" => ~("early_data" \in m.has /\ ~using_early_data)
  <2>1. Ee(cfg).has = If(GTakesEarly(cfg), "early_data")
    BY DEF Ee, Plain, Message
  <2>2. GTakesEarly(cfg) => GEarly(cfg) /\ ~GRetries(cfg)
    BY DEF GTakesEarly, GResumes
  <2>3. ASSUME type = "EE", GEarly(cfg), ~GRetries(cfg) PROVE using_early_data
    BY <1>2, <2>3 DEF Honest, ClientEarly, ClientFlight
  <2>4. QED BY <1>4, <2>1, <2>2, <2>3 DEF If
<1>6. type = "CERT" => m.has # {"none"} /\ m.has # {"bad"}
  <2>1. Cert.has = {"ok"}
    BY DEF Cert, Plain, Message
  <2>2. QED BY <1>4, <2>1
<1>7. type = "CV" => m.mac = Signature("server", th)
  <2>1. Cv(cfg).mac = Signature("server", CertTh(cfg))
    BY DEF Cv, Message
  <2>2. type = "CV" => th = CertTh(cfg)
    BY <1>2 DEF Honest, ClientHonest, ClientFlight, ClientTh
  <2>3. QED BY <1>4, <2>1, <2>2
<1>8. type = "FIN" => /\ FinishedVerifies("client")
                      /\ certificate_request => ~is_psk_handshake["client"]
                      /\ certificate_request => cfg.client_certificate # "signfails"
  <2>1. Fin(cfg).mac = Mac(Hs(cfg, "s_hs_traffic"), CvTh(cfg))
    BY DEF Fin, send_finished, Message
  <2>2. type = "FIN" => /\ th = CvTh(cfg) /\ dec["client"].secret = Hs(cfg, "s_hs_traffic")
                        /\ certificate_request => GAuth(cfg)
                        /\ is_psk_handshake["client"] = GResumes(cfg)
    <3>1. ClientHonest
      BY DEF Honest
    <3>2. ASSUME type = "FIN"
          PROVE  th = CvTh(cfg) /\ KeyOf(dec["client"], Hs(cfg, "s_hs_traffic"))
      BY <1>2, <3>1, <3>2 DEF ClientHonest, ClientFlight, ClientTh
    <3>3. type = "FIN" => is_psk_handshake["client"] = GResumes(cfg)
      BY <1>2, <3>1 DEF ClientHonest, ClientFlight
    <3>4. certificate_request => GAuth(cfg)
      BY <3>1 DEF ClientHonest
    <3>5. QED BY <3>2, <3>3, <3>4 DEF KeyOf
  <2>3. GAuth(cfg) => ~GResumes(cfg) /\ cfg.client_certificate = "ok"
    BY DEF GAuth, GResumes, GCompatible, Honest
  <2>4. QED BY <1>4, <2>1, <2>2, <2>3 DEF FinishedVerifies
<1>9. QED
  BY <1>1, <1>2, <1>5, <1>6, <1>7, <1>8 DEF ClientError

(* ... and none of the server's that reads the client's last flight.        *)
LEMMA NoServerError ==
  ASSUME LocalInv, Honest, ServerError
  PROVE  FALSE
<1> DEFINE m  == First("server").msg
           th == transcript["server"]
<1>1. PICK type \in {"CERT", "CV", "FIN"} : ServerTakes(type)
  BY DEF ServerError
<1>2. /\ wire["client"] # <<>> /\ m.type = type
      /\ type = "CV" => state["server"] = "SERVER_EXPECT_CERTIFICATE_VERIFY"
      /\ type = "FIN" => state["server"] = "SERVER_EXPECT_FINISHED"
  BY <1>1, ServerExpects
<1>3. PICK d : ServerReading(d)
  BY <1>2, ServerReads
<1>4. /\ type = "CERT" => m = Cert
      /\ type = "CV" => m = CCv(cfg)
      /\ type = "FIN" => m = CFin(cfg)
  BY <1>2, <1>3 DEF ServerReading, ServerMoves
<1>5. type = "CERT" => m.has # {"none"} /\ m.has # {"bad"}
  <2>1. Cert.has = {"ok"}
    BY DEF Cert, Plain, Message
  <2>2. QED BY <1>4, <2>1
<1>6. type = "CV" => m.mac = Signature("client", th)
  <2>1. CCv(cfg).mac = Signature("client", CCertTh(cfg))
    BY DEF CCv, Message
  <2>2. type = "CV" => th = CCertTh(cfg)
    BY <1>2 DEF Honest, ServerHonest, ServerTh
  <2>3. QED BY <1>4, <2>1, <2>2
<1>7. type = "FIN" => FinishedVerifies("server")
  <2>1. CFin(cfg).mac = Mac(Hs(cfg, "c_hs_traffic"), CCvTh(cfg))
    BY DEF CFin, send_finished, Message
  <2>2. type = "FIN" => th = CCvTh(cfg) /\ dec["server"].secret = Hs(cfg, "c_hs_traffic")
    BY <1>2 DEF Honest, ServerHonest, ServerTh, KeyOf
  <2>3. QED BY <1>4, <2>1, <2>2 DEF FinishedVerifies
<1>8. QED
  BY <1>1, <1>2, <1>5, <1>6, <1>7 DEF ServerError

(* The server gets the first ClientHello, or the second one after its retry *)
(* request, which it remembers or finds in the cookie.                      *)
FirstHello(ch) ==
    /\ state["server"] = "SERVER_EXPECT_CLIENT_HELLO" /\ ServerPhase = "SERVER_EXPECT_CLIENT_HELLO"
    /\ ch = Hello1(cfg) /\ transcript["server"] = <<>> /\ EarlyRead = 0
    /\ ~Stateful /\ ~CookieFlight(ch) /\ ~SecondFlight(ch)
SecondHello(ch) ==
    /\ ServerPhase = "SERVER_EXPECT_SECOND_CLIENT_HELLO" /\ GRetries(cfg)
    /\ ch = Hello2(cfg) /\ SecondFlight(ch)
    /\ Stateful => transcript["server"] = HrrTh(cfg) /\ ~cfg.retry_uses_cookie
    /\ ~Stateful => /\ state["server"] = "SERVER_EXPECT_CLIENT_HELLO" /\ cfg.retry_uses_cookie
                    /\ CookieFlight(ch)

(* A ClientHello that the server takes is the one it waits for.             *)
LEMMA HelloComes ==
  ASSUME LocalInv, Honest, ServerTakes("CH")
  PROVE  LET ch == First("server").msg IN
         /\ wire["client"] # <<>> /\ ch.type = "CH" /\ state["server"] \in ServerHellos
         /\ cfg \in Configs /\ GCompatible(cfg) /\ Hello1Tells(cfg)
         /\ GRetries(cfg) => Hello2Tells(cfg)
         /\ \E d : /\ ServerReading(d)
                   /\ \/ /\ FirstHello(ch)
                         /\ d = IF GRetries(cfg) THEN At("SERVER_EXPECT_SECOND_CLIENT_HELLO", 0, 0)
                                ELSE PointAfterHello(cfg, 0)
                      \/ SecondHello(ch) /\ d = PointAfterHello(cfg, EarlyRead)
<1> DEFINE ch == First("server").msg
<1>1. /\ wire["client"] # <<>> /\ ch.type = "CH" /\ state["server"] \in ServerHellos
  BY ServerExpects
<1>2. cfg \in Configs /\ GCompatible(cfg)
  BY DEF LocalInv, TypeInv, Honest
<1>3. Hello1Tells(cfg) /\ (GRetries(cfg) => Hello2Tells(cfg))
  BY <1>2, Hello1Told, Hello2Told
<1>4. PICK d : ServerReading(d)
  BY <1>1, ServerReads
<1>5. ServerPoint.st = ServerPhase /\ ServerPoint.early = EarlyRead
  BY DEF ServerPoint, At
<1>6. /\ state["server"] = "SERVER_EXPECT_CLIENT_HELLO" => transcript["server"] = <<>>
      /\ state["server"] = "SERVER_EXPECT_SECOND_CLIENT_HELLO" =>
           transcript["server"] = HrrTh(cfg) /\ GRetries(cfg) /\ ~cfg.retry_uses_cookie
  BY DEF Honest, ServerHonest, ServerTh
<1>7. \/ /\ ServerPhase = "SERVER_EXPECT_CLIENT_HELLO" /\ EarlyRead = 0 /\ ch = Hello1(cfg)
         /\ d = IF GRetries(cfg) THEN At("SERVER_EXPECT_SECOND_CLIENT_HELLO", 0, 0)
                ELSE PointAfterHello(cfg, 0)
      \/ /\ ServerPhase = "SERVER_EXPECT_SECOND_CLIENT_HELLO" /\ GRetries(cfg) /\ ch = Hello2(cfg)
         /\ d = PointAfterHello(cfg, EarlyRead)
  BY <1>1, <1>4, <1>5 DEF ServerReading, ServerMoves
<1> HIDE DEF ch
<1>8. CASE ServerPhase = "SERVER_EXPECT_CLIENT_HELLO" /\ EarlyRead = 0 /\ ch = Hello1(cfg)
  <2>1. state["server"] = "SERVER_EXPECT_CLIENT_HELLO"
    BY <1>8 DEF ServerPhase
  <2>2. ch.cookie = <<>>
    BY <1>3, <1>8 DEF Hello1Tells
  <2>3. ~Stateful /\ ~CookieFlight(ch) /\ ~SecondFlight(ch)
    BY <2>1, <2>2 DEF Stateful, CookieFlight, SecondFlight
  <2>4. FirstHello(ch)
    BY <1>6, <1>8, <2>1, <2>3 DEF FirstHello
  <2>5. QED BY <1>1, <1>2, <1>3, <1>4, <1>7, <1>8, <2>4 DEF ch
<1>9. CASE ServerPhase = "SERVER_EXPECT_SECOND_CLIENT_HELLO" /\ GRetries(cfg) /\ ch = Hello2(cfg)
  <2>1. CASE Stateful
    <3>1. SecondHello(ch)
      BY <1>6, <1>9, <2>1 DEF SecondHello, SecondFlight, Stateful
    <3>2. QED BY <1>1, <1>2, <1>3, <1>4, <1>7, <1>9, <3>1 DEF ch
  <2>2. CASE ~Stateful
    <3>1. state["server"] = "SERVER_EXPECT_CLIENT_HELLO" /\ cfg.retry_uses_cookie
      BY <1>9, <2>2 DEF ServerPhase, CookieSent, Stateful
    <3>2. ch.cookie # <<>> /\ SharedGroup(ch) # "none"
      BY <1>3, <1>9, <3>1 DEF Hello2Tells, Groups
    <3>3. CookieFlight(ch) /\ SecondFlight(ch)
      BY <2>2, <3>2 DEF CookieFlight, SecondFlight
    <3>4. SecondHello(ch)
      BY <1>9, <2>2, <3>1, <3>3 DEF SecondHello
    <3>5. QED BY <1>1, <1>2, <1>3, <1>4, <1>7, <1>9, <3>4 DEF ch
  <2>3. QED BY <2>1, <2>2
<1>10. QED BY <1>7, <1>8, <1>9

(* The server finds nothing wrong with a ClientHello; it asks for a retry,  *)
(* resumes and takes early data as the configuration says.                  *)
HelloTold(ch) ==
    /\ HelloError(ch) = "none"
    /\ FirstHello(ch) => (NeedsRetry(ch) <=> GRetries(cfg))
    /\ SecondHello(ch) => ~NeedsRetry(ch)
    /\ ~NeedsRetry(ch) => /\ FindsPsk(ch) <=> GResumes(cfg)
                          /\ AcceptsEarlyData(ch) <=> GTakesEarly(cfg)
    /\ "ke_modes" \in ch.has <=> (cfg.save_ticket \/ GOffers(cfg))
    /\ View(ch) = <<"CH", ch.has>>

(* The server finds nothing wrong with the first ClientHello.               *)
LEMMA FirstHelloTold ==
  ASSUME cfg \in Configs, GCompatible(cfg), Hello1Tells(cfg), NEW ch, FirstHello(ch)
  PROVE  HelloTold(ch)
<1>1. /\ ch = Hello1(cfg) /\ transcript["server"] = <<>>
      /\ ~Stateful /\ ~CookieFlight(ch) /\ ~SecondFlight(ch)
  BY DEF FirstHello
<1>2. /\ "nocommon" \notin ch.has /\ ("early_data" \in ch.has <=> GEarly(cfg))
      /\ ("psk" \in ch.has <=> GOffers(cfg))
      /\ ("ke_modes" \in ch.has <=> (cfg.save_ticket \/ GOffers(cfg)))
      /\ SharedGroup(ch) = IF cfg.key_share \in Groups THEN cfg.key_share ELSE "none"
      /\ View(ch) = <<"CH", ch.has>>
      /\ GOffers(cfg) => ch.mac = Mac(Secret("res_binder", <<GPsk(cfg)>>, <<>>), Append(<<>>, View(ch)))
  BY <1>1 DEF Hello1Tells
<1>3. NeedsRetry(ch) <=> GRetries(cfg)
  <2>1. cfg.key_share \in {"group1", "group2", "alien", "none"}
    BY ConfigsAssumption DEF Config, GCompatible
  <2>2. SharedGroup(ch) = "none" <=> cfg.key_share \in {"alien", "none"}
    BY <1>2, <2>1 DEF Groups
  <2>3. QED BY <1>1, <2>2 DEF NeedsRetry, GRetries
<1>4. ~NeedsRetry(ch) => (FindsPsk(ch) <=> GResumes(cfg))
  <2>1. cfg.ticket \in {"valid", "late", "mismatch"} => GOffers(cfg)
    BY DEF GOffers
  <2>2. FindsPsk(ch) <=> /\ {"psk", "ke_modes"} \subseteq ch.has /\ ~cfg.require_client_authentication
                         /\ cfg.ticket \in {"valid", "late", "mismatch"}
    BY <1>1 DEF FindsPsk, TriesPsk
  <2>3. QED BY <1>2, <1>3, <2>1, <2>2 DEF GResumes
<1>5. ~NeedsRetry(ch) => (AcceptsEarlyData(ch) <=> GTakesEarly(cfg))
  BY <1>2, <1>4 DEF AcceptsEarlyData, GTakesEarly
<1>6. ~NeedsRetry(ch) /\ FindsPsk(ch) => BinderVerifies(ch)
  <2>1. SUFFICES ASSUME ~NeedsRetry(ch), FindsPsk(ch) PROVE BinderVerifies(ch)
    OBVIOUS
  <2>2. GResumes(cfg)
    BY <1>4, <2>1
  <2>3. GOffers(cfg) /\ GPsk(cfg) = "psk"
    BY <2>2 DEF GResumes, GOffers, GPsk, GCompatible, GAuth
  <2>4. QED BY <1>1, <1>2, <2>3 DEF BinderVerifies
<1>7. HelloError(ch) = "none"
  BY <1>1, <1>2, <1>6 DEF HelloError
<1>8. ~SecondHello(ch)
  BY <1>1 DEF SecondHello
<1>9. QED BY <1>2, <1>3, <1>4, <1>5, <1>7, <1>8 DEF HelloTold

(* The server finds nothing wrong with the second ClientHello.              *)
LEMMA SecondHelloTold ==
  ASSUME cfg \in Configs, GCompatible(cfg), Hello1Tells(cfg), Hello2Tells(cfg), NEW ch, SecondHello(ch)
  PROVE  HelloTold(ch)
<1>1. /\ ch = Hello2(cfg) /\ SecondFlight(ch) /\ GRetries(cfg)
      /\ Stateful => transcript["server"] = HrrTh(cfg)
      /\ ~Stateful => cfg.retry_uses_cookie /\ CookieFlight(ch)
  BY DEF SecondHello
<1>2. /\ Random(ch) = {} /\ "early_data" \notin ch.has
      /\ SharedGroup(ch) = IF cfg.key_share \in Groups THEN cfg.key_share ELSE "group1"
      /\ View(ch) = <<"CH", ch.has>>
      /\ ("ke_modes" \in ch.has <=> (cfg.save_ticket \/ GOffers(cfg)))
      /\ cfg.retry_uses_cookie => CookieVerifies(ch)
  BY <1>1 DEF Hello2Tells
<1>3. SharedGroup(ch) # "none"
  BY <1>2 DEF Groups
<1>4. ~NeedsRetry(ch)
  BY <1>1 DEF NeedsRetry
<1>5. ~FindsPsk(ch) /\ ~AcceptsEarlyData(ch) /\ ~GResumes(cfg) /\ ~GTakesEarly(cfg)
  BY <1>1 DEF FindsPsk, TriesPsk, AcceptsEarlyData, GResumes, GTakesEarly
<1>6. HrrTh(cfg)[1][2] \cap {"random"} = {}
  <2>1. View(Hello1(cfg)) = <<"CH", Hello1(cfg).has>> /\ "random" \notin Hello1(cfg).has
    BY DEF Hello1Tells
  <2>2. ch1hash(<<View(Hello1(cfg))>>) = <<<<"message_hash", Hello1(cfg).has>>>>
    BY <2>1 DEF ch1hash
  <2>3. HrrTh(cfg) = Append(<<<<"message_hash", Hello1(cfg).has>>>>, View(Hrr(cfg)))
    BY <2>2 DEF HrrTh
  <2>4. HrrTh(cfg)[1] = <<"message_hash", Hello1(cfg).has>>
    <3> DEFINE v == <<"message_hash", Hello1(cfg).has>>
               w == View(Hrr(cfg))
    <3> HIDE DEF v, w
    <3>1. Append(<<v>>, w)[1] = v
      OBVIOUS
    <3>2. QED BY <2>3, <3>1 DEF v, w
  <2>5. HrrTh(cfg)[1][2] = Hello1(cfg).has
    BY <2>4
  <2>6. QED BY <2>1, <2>5
<1>7. ~(Stateful /\ Random(ch) # transcript["server"][1][2] \cap {"random"})
  BY <1>1, <1>2, <1>6
<1>8. ~(CookieFlight(ch) /\ ~CookieVerifies(ch))
  BY <1>1, <1>2 DEF SecondHello, CookieFlight
<1>9. HelloError(ch) = "none"
  BY <1>2, <1>3, <1>4, <1>5, <1>7, <1>8 DEF HelloError
<1>10. ~FirstHello(ch)
  BY <1>1 DEF FirstHello
<1>11. QED BY <1>2, <1>4, <1>5, <1>9, <1>10 DEF HelloTold

(* So no ClientHello is rejected, and the certificate can be signed for.    *)
LEMMA NoHelloFails ==
  ASSUME LocalInv, Honest, ServerRejectsHello \/ ServerSignFails
  PROVE  FALSE
<1> DEFINE ch == First("server").msg
<1>1. ServerTakes("CH") /\ (HelloError(ch) # "none" \/ cfg.server_certificate = "signfails")
  BY DEF ServerRejectsHello, ServerSignFails
<1>2. /\ cfg \in Configs /\ GCompatible(cfg) /\ Hello1Tells(cfg)
      /\ GRetries(cfg) => Hello2Tells(cfg)
      /\ FirstHello(ch) \/ SecondHello(ch)
  BY <1>1, HelloComes
<1> HIDE DEF ch
<1>3. HelloTold(ch)
  <2>1. SecondHello(ch) => GRetries(cfg)
    BY DEF SecondHello
  <2>2. QED BY <1>2, <2>1, FirstHelloTold, SecondHelloTold
<1>4. cfg.server_certificate = "ok"
  BY <1>2 DEF GCompatible
<1>5. QED BY <1>1, <1>3, <1>4 DEF HelloTold

-----------------------------------------------------------------------------
(* What the two sides' parts of the invariant depend on.                    *)
ClientOwn ==
    <<cfg, state["client"], sched["client"], transcript["client"], enc["client"], dec["client"],
      pending_handshake_secret["client"], is_psk_handshake["client"], using_early_data,
      certificate_request, max_early_data_size, earlySent>>
ServerOwn ==
    <<cfg, state["server"], transcript["server"], enc["server"], dec["server"],
      pending_handshake_secret["server"], pending_traffic_secret, early_data_skipped_bytes, earlyGot>>

(* A step that leaves the client alone.                                     *)
LEMMA ClientSame ==
  ASSUME ClientHonest, ClientEarly, UNCHANGED ClientOwn
  PROVE  ClientHonest' /\ ClientEarly' /\ ClientPoint' = ClientPoint /\ ServerGoal' = ServerGoal
<1>1. /\ cfg' = cfg /\ state'["client"] = state["client"] /\ sched'["client"] = sched["client"]
      /\ transcript'["client"] = transcript["client"] /\ enc'["client"] = enc["client"]
      /\ dec'["client"] = dec["client"]
      /\ pending_handshake_secret'["client"] = pending_handshake_secret["client"]
      /\ is_psk_handshake'["client"] = is_psk_handshake["client"]
      /\ using_early_data' = using_early_data /\ certificate_request' = certificate_request
      /\ max_early_data_size' = max_early_data_size /\ earlySent' = earlySent
  BY DEF ClientOwn
<1>2. ClientHonest'
  BY <1>1 DEF ClientHonest, ClientTh
<1>3. ClientEarly'
  BY <1>1 DEF ClientEarly
<1>4. ClientPoint' = ClientPoint
  BY <1>1 DEF ClientPoint, ClientPhase
<1>5. ServerGoal' = ServerGoal
  BY <1>1 DEF ServerGoal
<1>6. QED BY <1>2, <1>3, <1>4, <1>5

(* A step that leaves the server alone.                                     *)
LEMMA ServerSame ==
  ASSUME ServerHonest, UNCHANGED ServerOwn,
         sendbuf'["server"] = sendbuf["server"] \/ sendbuf'["server"] = <<>>
  PROVE  /\ ServerHonest' /\ EarlyRead' = EarlyRead
         /\ ServerPhase' = ServerPhase => ServerPoint' = ServerPoint /\ ClientGoal' = ClientGoal
<1>1. /\ cfg' = cfg /\ state'["server"] = state["server"]
      /\ transcript'["server"] = transcript["server"] /\ enc'["server"] = enc["server"]
      /\ dec'["server"] = dec["server"]
      /\ pending_handshake_secret'["server"] = pending_handshake_secret["server"]
      /\ pending_traffic_secret' = pending_traffic_secret
      /\ early_data_skipped_bytes' = early_data_skipped_bytes /\ earlyGot' = earlyGot
  BY DEF ServerOwn
<1>2. ServerHonest'
  BY <1>1 DEF ServerHonest, ServerTh
<1>3. EarlyRead' = EarlyRead
  BY <1>1 DEF EarlyRead
<1>4. ServerPhase' = ServerPhase => ServerPoint' = ServerPoint /\ ClientGoal' = ClientGoal
  BY <1>1, <1>3 DEF ServerPoint, ClientGoal
<1>5. QED BY <1>2, <1>3, <1>4

(* The early data that has been counted stays counted.                      *)
LEMMA StillCounted ==
  ASSUME LocalInv, EarlyCounted, cfg' = cfg, earlySent' \in Nat, earlySent <= earlySent',
         NEW q \in Seq(Recs), Stream("client")' = q,
         \A i \in 1..Len(q) : \/ \E j \in 1..Len(Stream("client")) : q[i] = Stream("client")[j]
                              \/ q[i].secret = Ce(cfg) /\ q[i].msg.type = "DATA" => q[i].seq < earlySent'
  PROVE  EarlyCounted'
<1>1. SUFFICES ASSUME NEW i \in 1..Len(q), q[i].secret = Ce(cfg), q[i].msg.type = "DATA"
               PROVE  q[i].seq < earlySent'
  BY DEF EarlyCounted
<1>2. q[i].seq \in Int /\ earlySent \in Nat
  <2>1. q[i] \in Recs
    BY <1>1
  <2>2. QED BY <2>1 DEF Recs, LocalInv, TypeInv
<1>3. CASE \E j \in 1..Len(Stream("client")) : q[i] = Stream("client")[j]
  <2>1. q[i].seq < earlySent
    BY <1>1, <1>3 DEF EarlyCounted
  <2>2. QED BY <1>2, <2>1
<1>4. QED BY <1>1, <1>3

(* The client reads a record and writes some.                               *)
ClientMove(d, out) ==
    /\ ClientReading(d) /\ Consume("client") /\ out \in Seq(Recs)
    /\ sendbuf' = [sendbuf EXCEPT !["client"] = sendbuf["client"] \o out]
    /\ \A i \in 1..Len(out) : out[i].msg.type # "DATA"
    /\ UNCHANGED ServerOwn /\ earlySent' = earlySent
    /\ Calm' /\ ClientHonest' /\ ClientEarly' /\ ClientPoint' = d
    /\ Walk("server", cfg, out, ServerGoal, ServerGoal')
    /\ ServerPhase' = ServerPhase
    /\ state'["client"] = "CLIENT_EXPECT_SERVER_HELLO" =>
         state["client"] = "CLIENT_EXPECT_SERVER_HELLO" /\ out = <<>>

(* Joining three sequences of records.                                      *)
LEMMA Longer ==
  ASSUME NEW a \in Seq(Recs), NEW b \in Seq(Recs), NEW c \in Seq(Recs)
  PROVE  /\ a \o (b \o c) = (a \o b) \o c /\ a \o b \in Seq(Recs) /\ (a \o b) \o c \in Seq(Recs)
         /\ a \o <<>> = a
OBVIOUS

(* What is written goes behind what is on its way.                          *)
LEMMA StreamGrows ==
  ASSUME LocalInv, NEW s \in Side, NEW out \in Seq(Recs),
         wire'[s] = wire[s] /\ sendbuf'[s] = sendbuf[s] \o out
  PROVE  Stream(s)' = Stream(s) \o out /\ Stream(s) \in Seq(Recs) /\ Stream(s) \o out \in Seq(Recs)
<1> DEFINE a == wire[s]
           b == sendbuf[s]
<1>1. a \in Seq(Recs) /\ b \in Seq(Recs)
  BY DEF LocalInv, TypeInv
<1>2. Stream(s) = a \o b /\ Stream(s)' = a \o (b \o out)
  BY DEF Stream
<1> HIDE DEF a, b
<1>3. a \o (b \o out) = (a \o b) \o out /\ a \o b \in Seq(Recs) /\ (a \o b) \o out \in Seq(Recs)
  BY <1>1, Longer
<1>4. QED BY <1>2, <1>3

(* A move of the client keeps the invariant.                                *)
LEMMA ClientAdvances ==
  ASSUME LocalInv, Honest, NEW d, NEW out, ClientMove(d, out)
  PROVE  Honest'
<1> DEFINE q == Stream("client")
           p == Tail(wire["server"]) \o sendbuf["server"]
<1>1. \A s \in Side : wire[s] \in Seq(Recs) /\ sendbuf[s] \in Seq(Recs)
  BY DEF LocalInv, TypeInv
<1>2. /\ wire["client"] \in Seq(Recs) /\ sendbuf["client"] \in Seq(Recs)
      /\ wire["server"] \in Seq(Recs) /\ sendbuf["server"] \in Seq(Recs)
  BY <1>1, Sides
<1>3. /\ ClientReading(d) /\ Consume("client") /\ out \in Seq(Recs)
      /\ sendbuf' = [sendbuf EXCEPT !["client"] = sendbuf["client"] \o out]
      /\ \A i \in 1..Len(out) : out[i].msg.type # "DATA"
      /\ UNCHANGED ServerOwn /\ earlySent' = earlySent
      /\ Calm' /\ ClientHonest' /\ ClientEarly' /\ ClientPoint' = d
      /\ Walk("server", cfg, out, ServerGoal, ServerGoal') /\ ServerPhase' = ServerPhase
  BY DEF ClientMove
<1>4. /\ wire'["client"] = wire["client"] /\ wire'["server"] = Tail(wire["server"])
      /\ sendbuf'["client"] = sendbuf["client"] \o out /\ sendbuf'["server"] = sendbuf["server"]
  BY <1>3, Sides DEF Consume, LocalInv, TypeInv
<1>5. Stream("server")' = p /\ Stream("client")' = q \o out /\ q \in Seq(Recs) /\ q \o out \in Seq(Recs)
  <2>1. Stream("server")' = p
    BY <1>4 DEF Stream
  <2>2. QED BY <1>3, <1>4, <2>1, StreamGrows, Sides
<1>6. cfg' = cfg /\ GCompatible(cfg)'
  BY <1>3 DEF ServerOwn, Honest
<1>7. ServerHonest' /\ ServerPoint' = ServerPoint /\ ClientGoal' = ClientGoal
  BY <1>3, <1>4, ServerSame DEF Honest
<1> HIDE DEF q, p
<1>8. EarlyCounted'
  <2>1. /\ Len(q) \in Nat /\ Len(out) \in Nat /\ Len(q \o out) = Len(q) + Len(out)
        /\ \A i \in 1..Len(q) : (q \o out)[i] = q[i]
        /\ \A i \in 1..Len(out) : (q \o out)[Len(q) + i] = out[i]
    BY <1>3, <1>5, Joined
  <2>2. ASSUME NEW i \in 1..Len(q \o out)
        PROVE  (\E j \in 1..Len(q) : (q \o out)[i] = q[j]) \/ (q \o out)[i].msg.type # "DATA"
    <3>1. CASE i \in 1..Len(q)
      BY <2>1, <3>1
    <3>2. CASE i \notin 1..Len(q)
      <4>1. i - Len(q) \in 1..Len(out) /\ Len(q) + (i - Len(q)) = i
        BY <2>1, <3>2
      <4>2. (q \o out)[i] = out[i - Len(q)]
        BY <2>1, <4>1
      <4>3. QED BY <1>3, <4>1, <4>2
    <3>3. QED BY <3>1, <3>2
  <2>3. earlySent' \in Nat /\ earlySent <= earlySent'
    BY <1>3 DEF LocalInv, TypeInv
  <2>4. EarlyCounted
    BY DEF Honest
  <2>5. QED BY <1>5, <1>6, <2>2, <2>3, <2>4, StillCounted DEF q
<1>9. Silent'
  <2>1. Silent
    BY DEF Honest
  <2>2. ServerPhase' = "SERVER_EXPECT_CLIENT_HELLO" => Stream("server")' = <<>>
    <3>1. SUFFICES ASSUME ServerPhase = "SERVER_EXPECT_CLIENT_HELLO" PROVE FALSE
      BY <1>3
    <3>2. Stream("server") = <<>>
      BY <2>1, <3>1 DEF Silent
    <3>3. wire["server"] # <<>>
      BY <1>3 DEF ClientReading
    <3>4. QED BY <1>2, <3>2, <3>3, FirstOfStream DEF Stream
  <2>3. ASSUME (GRetries(cfg) /\ cfg.retry_uses_cookie)',
               state'["client"] = "CLIENT_EXPECT_SERVER_HELLO"
        PROVE  Len(Stream("client")') <= 1
    <3>1. state["client"] = "CLIENT_EXPECT_SERVER_HELLO" /\ out = <<>>
      BY <2>3 DEF ClientMove
    <3>2. Stream("client")' = Stream("client")
      BY <1>5, <3>1, Longer DEF q
    <3>3. QED BY <1>6, <2>1, <2>3, <3>1, <3>2 DEF Silent
  <2>4. QED BY <2>2, <2>3 DEF Silent
<1>10. Walk("client", cfg', Stream("server")', ClientPoint', ClientGoal')
  BY <1>3, <1>5, <1>6, <1>7 DEF ClientReading, p
<1>11. Walk("server", cfg', Stream("client")', ServerPoint', ServerGoal')
  <2>1. Walk("server", cfg, q, ServerPoint, ServerGoal)
    BY Sides DEF Honest, Point, Goal, q
  <2>2. Walk("server", cfg, q \o out, ServerPoint, ServerGoal')
    BY <1>3, <1>5, <2>1, WalkOn
  <2>3. QED BY <1>5, <1>6, <1>7, <2>2
<1>12. \A s \in Side : Walk(s, cfg, Stream(Peer(s)), Point(s), Goal(s))'
  BY <1>10, <1>11, Sides DEF Side, Point, Goal
<1>13. QED BY <1>3, <1>6, <1>7, <1>8, <1>9, <1>12 DEF Honest

(* The server reads a record and writes some.                               *)
ServerMove(d, out) ==
    /\ ServerReading(d) /\ out \in Seq(Recs)
    /\ Stream("client")' = Tail(wire["client"]) \o sendbuf["client"]
    /\ Stream("server")' = Stream("server") \o out
    /\ UNCHANGED ClientOwn
    /\ Calm' /\ ServerHonest' /\ ServerPoint' = d
    /\ Walk("client", cfg, out, ClientGoal, ClientGoal')
    /\ ServerPhase' = "SERVER_EXPECT_CLIENT_HELLO" =>
         ServerPhase = "SERVER_EXPECT_CLIENT_HELLO" /\ out = <<>>

(* What is left on the client's stream was there before.                    *)
LEMMA RestCounted ==
  ASSUME LocalInv, Honest, wire["client"] # <<>>, UNCHANGED ClientOwn,
         Stream("client")' = Tail(wire["client"]) \o sendbuf["client"]
  PROVE  /\ EarlyCounted' /\ Stream("client")' \in Seq(Recs)
         /\ Len(Stream("client")') = Len(Stream("client")) - 1
         /\ Len(Stream("client")') \in Nat
<1> DEFINE q == Stream("client")
           p == Stream("client")'
<1>1. wire["client"] \in Seq(Recs) /\ sendbuf["client"] \in Seq(Recs)
  BY Sides DEF LocalInv, TypeInv
<1>2. q = wire["client"] \o sendbuf["client"]
  BY DEF Stream
<1>3. q \in Seq(Recs) /\ q # <<>> /\ p = Tail(q)
  <2> DEFINE a == wire["client"]
             b == sendbuf["client"]
  <2>1. a \in Seq(Recs) /\ b \in Seq(Recs) /\ a # <<>> /\ q = a \o b /\ p = Tail(a) \o b
    BY <1>1, <1>2
  <2> HIDE DEF a, b, q, p
  <2>2. a \o b \in Seq(Recs) /\ a \o b # <<>> /\ Tail(a \o b) = Tail(a) \o b
    BY <2>1, FirstOfStream, Joined
  <2>3. QED BY <2>1, <2>2
<1> HIDE DEF q, p
<1>4. /\ p \in Seq(Recs) /\ Len(p) \in Nat /\ Len(q) \in Nat /\ Len(p) = Len(q) - 1
      /\ \A i \in 1..Len(p) : p[i] = q[i + 1]
  BY <1>3
<1>5. ASSUME NEW i \in 1..Len(p) PROVE \E j \in 1..Len(q) : p[i] = q[j]
  <2>1. i + 1 \in 1..Len(q)
    BY <1>4
  <2>2. QED BY <1>4, <2>1
<1>6. cfg' = cfg /\ earlySent' = earlySent /\ earlySent' \in Nat /\ earlySent <= earlySent'
  BY DEF ClientOwn, LocalInv, TypeInv
<1>7. EarlyCounted
  BY DEF Honest
<1>8. EarlyCounted'
  BY <1>4, <1>5, <1>6, <1>7, StillCounted DEF p, q
<1>9. QED BY <1>4, <1>8 DEF p, q

(* A move of the server keeps the invariant.                                *)
LEMMA ServerAdvances ==
  ASSUME LocalInv, Honest, NEW d, NEW out, ServerMove(d, out)
  PROVE  Honest'
<1> DEFINE q == Stream("server")
<1>2. /\ wire["client"] \in Seq(Recs) /\ sendbuf["client"] \in Seq(Recs)
      /\ wire["server"] \in Seq(Recs) /\ sendbuf["server"] \in Seq(Recs)
  BY Sides DEF LocalInv, TypeInv
<1>3. /\ ServerReading(d) /\ out \in Seq(Recs)
      /\ Stream("client")' = Tail(wire["client"]) \o sendbuf["client"]
      /\ Stream("server")' = q \o out
      /\ UNCHANGED ClientOwn
      /\ Calm' /\ ServerHonest' /\ ServerPoint' = d
      /\ Walk("client", cfg, out, ClientGoal, ClientGoal')
  BY DEF ServerMove
<1>4. wire["client"] # <<>>
  BY <1>3 DEF ServerReading
<1>5. Stream("client")' = Tail(wire["client"]) \o sendbuf["client"]
  BY <1>3
<1>6. Stream("server")' = q \o out /\ q \in Seq(Recs) /\ q \o out \in Seq(Recs)
  <2> DEFINE a == wire["server"]
             b == sendbuf["server"]
  <2>1. a \in Seq(Recs) /\ b \in Seq(Recs) /\ q = a \o b
    BY <1>2 DEF Stream
  <2> HIDE DEF a, b, q
  <2>2. q \in Seq(Recs)
    BY <2>1, Joined
  <2>3. QED BY <1>3, <2>2, Joined
<1>7. cfg' = cfg /\ GCompatible(cfg)' /\ state'["client"] = state["client"]
  BY <1>3 DEF ClientOwn, Honest
<1>8. ClientHonest' /\ ClientEarly' /\ ClientPoint' = ClientPoint /\ ServerGoal' = ServerGoal
  BY <1>3, ClientSame DEF Honest
<1> HIDE DEF q
<1>9. /\ EarlyCounted' /\ Len(Stream("client")') = Len(Stream("client")) - 1
      /\ Len(Stream("client")') \in Nat
  BY <1>3, <1>4, <1>5, RestCounted
<1>10. Silent'
  <2>1. Silent
    BY DEF Honest
  <2>2. ServerPhase' = "SERVER_EXPECT_CLIENT_HELLO" => Stream("server")' = <<>>
    <3>1. SUFFICES ASSUME ServerPhase' = "SERVER_EXPECT_CLIENT_HELLO" PROVE Stream("server")' = <<>>
      OBVIOUS
    <3>2. ServerPhase = "SERVER_EXPECT_CLIENT_HELLO" /\ out = <<>>
      BY <3>1 DEF ServerMove
    <3>3. q = <<>>
      BY <2>1, <3>2 DEF Silent, q
    <3>4. QED BY <1>6, <3>2, <3>3, Longer
  <2>3. ASSUME (GRetries(cfg) /\ cfg.retry_uses_cookie)',
               state'["client"] = "CLIENT_EXPECT_SERVER_HELLO"
        PROVE  Len(Stream("client")') <= 1
    <3>1. Len(Stream("client")) <= 1
      BY <1>7, <2>1, <2>3 DEF Silent
    <3>2. QED BY <1>9, <3>1
  <2>4. QED BY <2>2, <2>3 DEF Silent
<1>11. Walk("server", cfg', Stream("client")', ServerPoint', ServerGoal')
  BY <1>3, <1>5, <1>7, <1>8 DEF ServerReading
<1>12. Walk("client", cfg', Stream("server")', ClientPoint', ClientGoal')
  <2>1. Walk("client", cfg, q, ClientPoint, ClientGoal)
    BY Sides DEF Honest, Point, Goal, q
  <2>2. Walk("client", cfg, q \o out, ClientPoint, ClientGoal')
    BY <1>3, <1>6, <2>1, WalkOn
  <2>3. QED BY <1>6, <1>7, <1>8, <2>2
<1>13. \A s \in Side : Walk(s, cfg, Stream(Peer(s)), Point(s), Goal(s))'
  BY <1>11, <1>12, Sides DEF Side, Point, Goal
<1>14. QED BY <1>3, <1>7, <1>8, <1>9, <1>10, <1>13 DEF Honest

(* What a step that reads from the wire and writes to the buffer does to    *)
(* what is on its way.                                                      *)
LEMMA ServerWrites ==
  ASSUME LocalInv, NEW out \in Seq(Recs), Consume("server"),
         sendbuf' = [sendbuf EXCEPT !["server"] = sendbuf["server"] \o out]
  PROVE  /\ Stream("client")' = Tail(wire["client"]) \o sendbuf["client"]
         /\ Stream("server")' = Stream("server") \o out
<1>1. /\ wire'["server"] = wire["server"] /\ wire'["client"] = Tail(wire["client"])
      /\ sendbuf'["server"] = sendbuf["server"] \o out /\ sendbuf'["client"] = sendbuf["client"]
  BY Sides DEF Consume, LocalInv, TypeInv
<1>2. Stream("client")' = Tail(wire["client"]) \o sendbuf["client"]
  BY <1>1 DEF Stream
<1>3. QED BY <1>1, <1>2, StreamGrows, Sides

-----------------------------------------------------------------------------
(* The client's steps.                                                      *)
LEMMA NothingWritten ==
  ASSUME LocalInv, NEW s \in Side, sendbuf' = sendbuf
  PROVE  sendbuf' = [sendbuf EXCEPT ![s] = sendbuf[s] \o <<>>] /\ <<>> \in Seq(Recs)
<1>1. sendbuf \in [Side -> Seq(Recs)] /\ sendbuf[s] \in Seq(Recs)
  BY DEF LocalInv, TypeInv
<1>2. sendbuf[s] \o <<>> = sendbuf[s] /\ <<>> \in Seq(Recs)
  BY <1>1, Longer
<1>3. [sendbuf EXCEPT ![s] = sendbuf[s]] = sendbuf
  BY <1>1
<1>4. QED BY <1>2, <1>3

(* The client reads a record and writes nothing.                            *)
ClientRead(d) ==
    /\ ClientReading(d) /\ Consume("client") /\ sendbuf' = sendbuf
    /\ UNCHANGED ServerOwn /\ earlySent' = earlySent
    /\ Calm' /\ ClientHonest' /\ ClientEarly' /\ ClientPoint' = d
    /\ ServerGoal' = ServerGoal /\ ServerPhase' = ServerPhase
    /\ state'["client"] = "CLIENT_EXPECT_SERVER_HELLO" =>
         state["client"] = "CLIENT_EXPECT_SERVER_HELLO"

(* So does one in which the client only reads.                              *)
LEMMA ClientReadOn ==
  ASSUME LocalInv, Honest, NEW d, ClientRead(d)
  PROVE  Honest'
<1>1. /\ sendbuf' = [sendbuf EXCEPT !["client"] = sendbuf["client"] \o <<>>]
      /\ <<>> \in Seq(Recs)
  BY NothingWritten, Sides DEF ClientRead
<1>2. Walk("server", cfg, <<>>, ServerGoal, ServerGoal')
  BY WalkNone DEF ClientRead
<1>3. \A i \in 1..Len(<<>>) : <<>>[i].msg.type # "DATA"
  <2>1. 1..Len(<<>>) = {}
    OBVIOUS
  <2>2. QED BY <2>1
<1>4. ClientMove(d, <<>>)
  BY <1>1, <1>2, <1>3 DEF ClientMove, ClientRead
<1>5. QED BY <1>4, ClientAdvances

(* Where the server is does not depend on what the client does.             *)
LEMMA PhaseKept ==
  ASSUME cfg' = cfg, state'["server"] = state["server"],
         \/ state["server"] \notin ServerHellos
         \/ /\ state'["client"] = state["client"]
            /\ Stream("client")' = <<>> <=> Stream("client") = <<>>
  PROVE  ServerPhase' = ServerPhase
<1>1. CASE state["server"] \notin ServerHellos
  BY <1>1 DEF ServerPhase, CookieSent, ServerHellos
<1>2. CASE /\ state'["client"] = state["client"]
           /\ Stream("client")' = <<>> <=> Stream("client") = <<>>
  <2>1. CookieSent' <=> CookieSent
    BY <1>2 DEF CookieSent
  <2>2. QED BY <2>1 DEF ServerPhase
<1>3. QED BY <1>1, <1>2

(* After a ServerHello the server is past the hellos.                       *)
LEMMA ServerAnswered ==
  ASSUME LocalInv, AgreementInv, NEW type, ClientTakes(type),
         type \in {"SH", "EE", "CR", "CERT", "CV", "FIN", "NST"}
  PROVE  state["server"] \notin ServerHellos
<1>1. /\ wire["server"] # <<>> /\ First("client") = wire["server"][1] /\ First("client").msg.type = type
  BY ClientExpects
<1>2. First("client") \in InFlight("server")
  <2>1. wire["server"] \in Seq(Recs)
    BY Sides DEF LocalInv, TypeInv
  <2>2. wire["server"][1] \in Elems(wire["server"])
    BY <1>1, <2>1, ElemsOf
  <2>3. QED BY <1>1, <2>2 DEF InFlight
<1>3. QED BY <1>1, <1>2 DEF AgreementInv, ServerFlightInv

(* The client passes over a change_cipher_spec.                             *)
LEMMA ClientCCSHonest ==
  ASSUME LocalInv, Honest, HandleCCS("client")
  PROVE  Honest'
<1>1. /\ wire["server"] # <<>> /\ First("client").msg.type = "CCS" /\ Consume("client")
      /\ cfg' = cfg /\ state' = state /\ sched' = sched /\ transcript' = transcript
      /\ enc' = enc /\ dec' = dec /\ pending_handshake_secret' = pending_handshake_secret
      /\ is_psk_handshake' = is_psk_handshake /\ using_early_data' = using_early_data
      /\ certificate_request' = certificate_request /\ max_early_data_size' = max_early_data_size
      /\ pending_traffic_secret' = pending_traffic_secret
      /\ early_data_skipped_bytes' = early_data_skipped_bytes /\ ret' = ret /\ sendbuf' = sendbuf
      /\ earlySent' = earlySent /\ earlyGot' = earlyGot
  BY Sides DEF HandleCCS, Ready, schedule, keys, clientVars, serverVars, appVars
<1>2. UNCHANGED ClientOwn /\ UNCHANGED ServerOwn
  BY <1>1 DEF ClientOwn, ServerOwn
<1>3. PICK d : ClientReading(d)
  BY <1>1, ClientReads
<1>4. d = ClientPoint
  BY <1>1, <1>3 DEF ClientReading, ClientMoves
<1>5. ClientHonest' /\ ClientEarly' /\ ClientPoint' = ClientPoint /\ ServerGoal' = ServerGoal
  BY <1>2, ClientSame DEF Honest
<1>6. ServerPhase' = ServerPhase
  <2>1. wire'["client"] = wire["client"]
    BY <1>1, Sides DEF Consume, LocalInv, TypeInv
  <2>2. Stream("client")' = Stream("client")
    BY <1>1, <2>1 DEF Stream
  <2>3. QED BY <1>1, <2>2, PhaseKept
<1>7. Calm'
  BY <1>1 DEF Honest, Calm
<1>8. ClientRead(d)
  BY <1>1, <1>2, <1>3, <1>4, <1>5, <1>6, <1>7 DEF ClientRead
<1>9. QED BY <1>8, ClientReadOn

(* After the handshake: data and tickets.                                   *)
LEMMA ClientPostHonest ==
  ASSUME LocalInv, Honest, ReceiveData("client") \/ client_handle_new_session_ticket
  PROVE  Honest'
<1>1. /\ wire["server"] # <<>> /\ First("client").msg.type \in {"DATA", "NST"} /\ Consume("client")
      /\ cfg' = cfg /\ state' = state /\ sched' = sched /\ transcript' = transcript
      /\ enc' = enc /\ dec' = [dec EXCEPT !["client"] = Advance(dec["client"], 1)]
      /\ pending_handshake_secret' = pending_handshake_secret
      /\ is_psk_handshake' = is_psk_handshake /\ using_early_data' = using_early_data
      /\ certificate_request' = certificate_request /\ max_early_data_size' = max_early_data_size
      /\ pending_traffic_secret' = pending_traffic_secret
      /\ early_data_skipped_bytes' = early_data_skipped_bytes /\ ret' = ret /\ sendbuf' = sendbuf
      /\ earlySent' = earlySent
  BY Sides DEF ReceiveData, client_handle_new_session_ticket, ClientTakes, Accepts, Ready, schedule,
               clientVars, serverVars
<1>2. state["client"] = "CLIENT_POST_HANDSHAKE" /\ earlyGot' = earlyGot
  <2>1. CASE ReceiveData("client")
    <3>1. state["client"] = "CLIENT_POST_HANDSHAKE"
      BY <2>1 DEF ReceiveData, LocalInv, ClientInv, ClientHellos, ClientFlight, PostHandshake
    <3>2. QED BY <2>1, <3>1 DEF ReceiveData, PostHandshake
  <2>2. CASE client_handle_new_session_ticket
    BY <2>2, ClientExpects DEF client_handle_new_session_ticket
  <2>3. QED BY <2>1, <2>2
<1>3. dec'["server"] = dec["server"] /\ dec'["client"] = Advance(dec["client"], 1)
      /\ dec["client"] \in Keys
  BY <1>1, Sides DEF LocalInv, TypeInv
<1>4. KeyOf(dec["client"], Ap(cfg, "s_ap_traffic"))
  BY <1>2 DEF Honest, ClientHonest
<1>5. KeyOf(dec'["client"], Ap(cfg, "s_ap_traffic")) /\ dec'["client"].seq = dec["client"].seq + 1
  BY <1>3, <1>4, KeyTypes DEF KeyOf
<1>6. PICK d : ClientReading(d)
  BY <1>1, ClientReads
<1>7. d = At("CLIENT_POST_HANDSHAKE", dec["client"].seq + 1, 0)
  BY <1>1, <1>6 DEF ClientReading, ClientMoves, ClientPoint, At
<1>8. ClientPoint' = d
  BY <1>1, <1>2, <1>5, <1>7 DEF ClientPoint, ClientPhase
<1>9. ClientHonest'
  <2>1. ClientHonest
    BY DEF Honest
  <2>2. QED BY <1>1, <1>2, <1>5, <2>1 DEF ClientHonest, ClientHellos, ClientFlight
<1>10. ClientEarly'
  <2>1. ClientEarly
    BY DEF Honest
  <2>2. QED BY <1>1, <2>1 DEF ClientEarly
<1>11. ServerGoal' = ServerGoal
  BY <1>1 DEF ServerGoal
<1>12. UNCHANGED ServerOwn
  BY <1>1, <1>2, <1>3 DEF ServerOwn
<1>13. ServerPhase' = ServerPhase
  <2>1. wire'["client"] = wire["client"]
    BY <1>1, Sides DEF Consume, LocalInv, TypeInv
  <2>2. Stream("client")' = Stream("client")
    BY <1>1, <2>1 DEF Stream
  <2>3. QED BY <1>1, <2>2, PhaseKept
<1>14. Calm'
  BY <1>1 DEF Honest, Calm
<1>15. ClientRead(d)
  BY <1>1, <1>6, <1>8, <1>9, <1>10, <1>11, <1>12, <1>13, <1>14 DEF ClientRead
<1>16. QED BY <1>15, ClientReadOn

(* A message of the server's flight takes the client from one state of      *)
(* ClientFlight to the next.                                                *)
FlightStep(type, next, d) ==
    /\ ClientTakes(type) /\ type \in {"EE", "CR", "CERT", "CV"} /\ ClientStep(next)
    /\ state["client"] \in ClientFlight
    /\ next \in ClientFlight \ {"CLIENT_EXPECT_ENCRYPTED_EXTENSIONS"}
    /\ ClientReading(d) /\ d = At(next, dec["client"].seq + 1, 0)
    /\ Append(transcript["client"], View(First("client").msg)) = ClientTh[next]
    /\ certificate_request' =
         (next \in {"CLIENT_EXPECT_CERTIFICATE", "CLIENT_EXPECT_CERTIFICATE_VERIFY",
                    "CLIENT_EXPECT_FINISHED"} /\ GAuth(cfg))
    /\ next = "CLIENT_EXPECT_CERTIFICATE" => GAuth(cfg)
    /\ using_early_data' = GTakesEarly(cfg)

(* What ClientEarly says in these states.                                   *)
FlightEarly ==
    LET early == GEarly(cfg) /\ ~GRetries(cfg) IN
    /\ early => KeyOf(enc["client"], Ce(cfg)) /\ enc["client"].seq = earlySent
    /\ early => pending_handshake_secret["client"] = Hs(cfg, "c_hs_traffic")
    /\ ~early => /\ pending_handshake_secret["client"] = NoSecret
                 /\ enc["client"] = Key(Hs(cfg, "c_hs_traffic"))
    /\ max_early_data_size <= cfg.early_limit /\ earlySent <= cfg.early_limit
    /\ max_early_data_size > 0 => early
    /\ earlySent > 0 => GEarly(cfg)

(* The client's early data while it reads the server's flight.              *)
LEMMA FlightEarlyIs ==
  ASSUME ClientEarly, state["client"] \in ClientFlight
  PROVE  FlightEarly
<1>1. /\ state["client"] # "CLIENT_POST_HANDSHAKE" /\ state["client"] # "CLIENT_EXPECT_SERVER_HELLO"
  BY DEF ClientFlight
<1>2. QED BY <1>1 DEF ClientEarly, FlightEarly

(* The same, in the state after a step.                                     *)
LEMMA FlightEarlyMakes ==
  ASSUME FlightEarly', state'["client"] \in ClientFlight, state'["client"] # "CLIENT_EXPECT_ENCRYPTED_EXTENSIONS",
         using_early_data' = GTakesEarly(cfg')
  PROVE  ClientEarly'
<1>1. /\ state'["client"] # "CLIENT_POST_HANDSHAKE" /\ state'["client"] # "CLIENT_EXPECT_SERVER_HELLO"
      /\ state'["client"] # "CLIENT_HANDSHAKE_START" /\ state'["client"] \notin ClientHellos
  BY DEF ClientFlight, ClientHellos
<1>2. using_early_data' = (state'["client"] \in ClientFlight /\ GTakesEarly(cfg'))
  <2>1. GTakesEarly(cfg') \in BOOLEAN
    BY DEF GTakesEarly
  <2>2. QED BY <2>1
<1>3. QED BY <1>1, <1>2 DEF ClientEarly, FlightEarly

(* A step of the client through the server's flight keeps the invariant.    *)
LEMMA FlightStepHonest ==
  ASSUME LocalInv, AgreementInv, Honest, NEW type, NEW next, NEW d, FlightStep(type, next, d)
  PROVE  Honest'
<1> DEFINE th == Append(transcript["client"], View(First("client").msg))
<1>1. /\ Consume("client") /\ cfg' = cfg /\ state' = [state EXCEPT !["client"] = next]
      /\ sched' = sched /\ transcript' = [transcript EXCEPT !["client"] = th]
      /\ enc' = enc /\ dec' = [dec EXCEPT !["client"] = Advance(dec["client"], 1)]
      /\ pending_handshake_secret' = pending_handshake_secret
      /\ is_psk_handshake' = is_psk_handshake /\ max_early_data_size' = max_early_data_size
      /\ pending_traffic_secret' = pending_traffic_secret
      /\ early_data_skipped_bytes' = early_data_skipped_bytes /\ ret' = ret /\ sendbuf' = sendbuf
      /\ earlySent' = earlySent /\ earlyGot' = earlyGot
  BY DEF FlightStep, ClientStep, serverVars, appVars
<1>2. /\ state["client"] \in ClientFlight /\ next \in ClientFlight
      /\ next # "CLIENT_EXPECT_ENCRYPTED_EXTENSIONS" /\ ClientReading(d)
      /\ d = At(next, dec["client"].seq + 1, 0) /\ th = ClientTh[next]
      /\ next = "CLIENT_EXPECT_CERTIFICATE" => GAuth(cfg)
      /\ using_early_data' = GTakesEarly(cfg)
  BY DEF FlightStep
<1> HIDE DEF th
<1>3. /\ state'["client"] = next /\ state'["server"] = state["server"]
      /\ transcript'["client"] = th /\ transcript'["server"] = transcript["server"]
      /\ dec'["client"] = Advance(dec["client"], 1) /\ dec'["server"] = dec["server"]
      /\ dec["client"] \in Keys
  BY <1>1, Sides DEF LocalInv, TypeInv
<1>4. /\ KeyOf(dec["client"], Hs(cfg, "s_hs_traffic"))
      /\ is_psk_handshake["client"] = GResumes(cfg) /\ sched["client"] = HsSched(cfg)
  BY <1>2 DEF Honest, ClientHonest
<1>5. KeyOf(dec'["client"], Hs(cfg, "s_hs_traffic")) /\ dec'["client"].seq = dec["client"].seq + 1
  BY <1>3, <1>4, KeyTypes DEF KeyOf
<1>6. ClientPoint' = d
  BY <1>2, <1>3, <1>5 DEF ClientPoint, ClientPhase, ClientFlight
<1>7. ClientTh' = ClientTh
  BY <1>1 DEF ClientTh
<1>8. ClientHonest'
  <2>1. /\ next \notin ClientHellos \cup {"CLIENT_HANDSHAKE_START"}
        /\ next # "CLIENT_POST_HANDSHAKE"
    BY <1>2 DEF ClientFlight, ClientHellos
  <2>2. certificate_request' =
         (next \in {"CLIENT_EXPECT_CERTIFICATE", "CLIENT_EXPECT_CERTIFICATE_VERIFY",
                    "CLIENT_EXPECT_FINISHED"} /\ GAuth(cfg))
    BY DEF FlightStep
  <2>3. transcript'["client"] = ClientTh'[next]
    BY <1>2, <1>3, <1>7
  <2>4. next # "CLIENT_EXPECT_SECOND_SERVER_HELLO"
    BY <2>1 DEF ClientHellos
  <2>5. QED BY <1>1, <1>2, <1>3, <1>4, <1>5, <2>1, <2>2, <2>3, <2>4 DEF ClientHonest
<1>9. ClientEarly'
  <2>1. ClientEarly
    BY DEF Honest
  <2>2. /\ next \notin ClientHellos /\ next # "CLIENT_HANDSHAKE_START"
        /\ next # "CLIENT_POST_HANDSHAKE" /\ next # "CLIENT_EXPECT_SERVER_HELLO"
        /\ state["client"] # "CLIENT_POST_HANDSHAKE" /\ state["client"] # "CLIENT_EXPECT_SERVER_HELLO"
    BY <1>2 DEF ClientFlight, ClientHellos
  <2>3. FlightEarly
    BY <1>2, <2>1, <2>2, FlightEarlyIs
  <2>4. FlightEarly'
    BY <1>1, <2>3 DEF FlightEarly
  <2>5. QED BY <1>1, <1>2, <1>3, <2>2, <2>4, FlightEarlyMakes
<1>10. ServerGoal' = ServerGoal
  <2>1. /\ state["client"] \notin {"CLIENT_HANDSHAKE_START", "CLIENT_EXPECT_SERVER_HELLO",
                                   "CLIENT_POST_HANDSHAKE"}
        /\ next \notin {"CLIENT_HANDSHAKE_START", "CLIENT_EXPECT_SERVER_HELLO",
                        "CLIENT_POST_HANDSHAKE"}
    BY <1>2 DEF ClientFlight
  <2>2. QED BY <1>1, <1>3, <2>1 DEF ServerGoal
<1>11. UNCHANGED ServerOwn
  BY <1>1, <1>3 DEF ServerOwn
<1>12. ServerPhase' = ServerPhase
  <2>1. state["server"] \notin ServerHellos
    BY ServerAnswered DEF FlightStep
  <2>2. QED BY <1>1, <1>3, <2>1, PhaseKept
<1>13. Calm'
  BY <1>1 DEF Honest, Calm
<1>14. state'["client"] # "CLIENT_EXPECT_SERVER_HELLO"
  BY <1>2, <1>3 DEF ClientFlight
<1>15. ClientRead(d)
  BY <1>1, <1>2, <1>6, <1>8, <1>9, <1>10, <1>11, <1>12, <1>13, <1>14 DEF ClientRead
<1>16. QED BY <1>15, ClientReadOn

(* The client reads EncryptedExtensions and learns about its early data.    *)
LEMMA EncryptedExtensionsHonest ==
  ASSUME LocalInv, AgreementInv, Honest, client_handle_encrypted_extensions
  PROVE  Honest'
<1> DEFINE next == IF is_psk_handshake["client"] THEN "CLIENT_EXPECT_FINISHED"
                   ELSE "CLIENT_EXPECT_CERTIFICATE_REQUEST_OR_CERTIFICATE"
           m    == First("client").msg
<1>1. /\ ClientTakes("EE") /\ ClientStep(next)
      /\ using_early_data' = (using_early_data /\ "early_data" \in m.has)
      /\ certificate_request' = certificate_request
  BY DEF client_handle_encrypted_extensions
<1>2. /\ wire["server"] # <<>> /\ m.type = "EE"
      /\ state["client"] = "CLIENT_EXPECT_ENCRYPTED_EXTENSIONS"
  BY <1>1, ClientExpects
<1>3. PICK d : ClientReading(d)
  BY <1>2, ClientReads
<1>4. /\ m = Ee(cfg) /\ dec["client"].seq = 0
      /\ d = At(IF GResumes(cfg) THEN "CLIENT_EXPECT_FINISHED"
                ELSE "CLIENT_EXPECT_CERTIFICATE_REQUEST_OR_CERTIFICATE", 1, 0)
  BY <1>2, <1>3 DEF ClientReading, ClientMoves, ClientPoint, At
<1>5. ClientHonest /\ ClientEarly
  BY DEF Honest
<1>6. /\ is_psk_handshake["client"] = GResumes(cfg) /\ transcript["client"] = HelloTh(cfg)
      /\ certificate_request = FALSE
  <2>1. is_psk_handshake["client"] = GResumes(cfg)
    BY <1>2, <1>5 DEF ClientHonest, ClientFlight
  <2>2. transcript["client"] = HelloTh(cfg)
    BY <1>2, <1>5 DEF ClientHonest, ClientFlight, ClientTh
  <2>3. certificate_request = FALSE
    BY <1>2, <1>5 DEF ClientHonest
  <2>4. QED BY <2>1, <2>2, <2>3
<1>7. d = At(next, dec["client"].seq + 1, 0)
  BY <1>4, <1>6
<1>8. next \in {"CLIENT_EXPECT_FINISHED", "CLIENT_EXPECT_CERTIFICATE_REQUEST_OR_CERTIFICATE"}
  OBVIOUS
<1>9. using_early_data' = GTakesEarly(cfg)
  <2>1. Ee(cfg).has = If(GTakesEarly(cfg), "early_data")
    BY DEF Ee, Plain, Message
  <2>2. "early_data" \in m.has <=> GTakesEarly(cfg)
    BY <1>4, <2>1 DEF If
  <2>3. GTakesEarly(cfg) => GEarly(cfg) /\ ~GRetries(cfg)
    BY DEF GTakesEarly, GResumes
  <2>4. GEarly(cfg) /\ ~GRetries(cfg) => using_early_data
    BY <1>2, <1>5 DEF ClientEarly, ClientFlight
  <2>5. GTakesEarly(cfg) \in BOOLEAN /\ using_early_data' \in BOOLEAN
    BY <1>1 DEF GTakesEarly
  <2>6. using_early_data' <=> GTakesEarly(cfg)
    BY <1>1, <2>2, <2>3, <2>4
  <2>7. QED BY <2>5, <2>6
<1>10. Append(transcript["client"], View(m)) = ClientTh[next]
  <2>1. Append(transcript["client"], View(m)) = EeTh(cfg)
    BY <1>4, <1>6 DEF EeTh
  <2>2. GResumes(cfg) => CvTh(cfg) = EeTh(cfg)
    BY DEF CvTh
  <2>3. QED BY <1>6, <2>1, <2>2 DEF ClientTh
<1>11. certificate_request' =
         (next \in {"CLIENT_EXPECT_CERTIFICATE", "CLIENT_EXPECT_CERTIFICATE_VERIFY",
                    "CLIENT_EXPECT_FINISHED"} /\ GAuth(cfg))
  <2>1. ~(next \in {"CLIENT_EXPECT_CERTIFICATE", "CLIENT_EXPECT_CERTIFICATE_VERIFY",
                    "CLIENT_EXPECT_FINISHED"} /\ GAuth(cfg))
    <3>1. GAuth(cfg) => ~GResumes(cfg)
      BY DEF GAuth, GResumes
    <3>2. QED BY <1>6, <3>1
  <2>2. QED BY <1>1, <1>6, <2>1
<1> HIDE DEF next
<1>12. FlightStep("EE", next, d)
  BY <1>1, <1>2, <1>3, <1>7, <1>8, <1>9, <1>10, <1>11 DEF FlightStep, ClientFlight
<1>13. QED BY <1>12, FlightStepHonest

(* A short sequence grows by one.                                           *)
LEMMA AppendTwo ==
  ASSUME NEW S, NEW x \in S, NEW y \in S
  PROVE  Append(<<x>>, y) = <<x, y>>
<1> DEFINE q == Append(<<x>>, y)
           r == <<x, y>>
<1>1. q \in Seq(S) /\ Len(q) = 2 /\ q[1] = x /\ q[2] = y
  OBVIOUS
<1>2. r \in Seq(S) /\ Len(r) = 2 /\ r[1] = x /\ r[2] = y
  OBVIOUS
<1> HIDE DEF q, r
<1>3. q = r
  BY <1>1, <1>2
<1>4. QED BY <1>3 DEF q, r

(* In the later states of the flight the client has settled its early data. *)
LEMMA EarlySettled ==
  ASSUME Honest, state["client"] \in ClientFlight \ {"CLIENT_EXPECT_ENCRYPTED_EXTENSIONS"}
  PROVE  using_early_data = GTakesEarly(cfg)
<1>1. ClientEarly /\ state["client"] # "CLIENT_EXPECT_SERVER_HELLO"
  BY DEF Honest, ClientFlight
<1>2. using_early_data = (state["client"] \in ClientFlight /\ GTakesEarly(cfg))
  BY <1>1 DEF ClientEarly
<1>3. GTakesEarly(cfg) \in BOOLEAN
  BY DEF GTakesEarly
<1>4. QED BY <1>2, <1>3

(* The client reads the CertificateRequest of an authenticating server.     *)
LEMMA CertificateRequestHonest ==
  ASSUME LocalInv, AgreementInv, Honest, client_handle_certificate_request
  PROVE  Honest'
<1> DEFINE next == "CLIENT_EXPECT_CERTIFICATE"
           m    == First("client").msg
<1>1. /\ ClientTakes("CR") /\ ClientStep(next) /\ using_early_data' = using_early_data
      /\ certificate_request' = TRUE
  BY DEF client_handle_certificate_request
<1>2. /\ wire["server"] # <<>> /\ m.type = "CR"
      /\ state["client"] = "CLIENT_EXPECT_CERTIFICATE_REQUEST_OR_CERTIFICATE"
  BY <1>1, ClientExpects
<1>3. PICK d : ClientReading(d)
  BY <1>2, ClientReads
<1>4. m = Cr /\ GAuth(cfg) /\ dec["client"].seq = 1 /\ d = At(next, 2, 0)
  BY <1>2, <1>3 DEF ClientReading, ClientMoves, ClientPoint, At
<1>5. transcript["client"] = EeTh(cfg)
  BY <1>2 DEF Honest, ClientHonest, ClientFlight, ClientTh
<1>6. Append(transcript["client"], View(m)) = ClientTh[next]
  BY <1>4, <1>5 DEF CrTh, ClientTh
<1>7. using_early_data' = GTakesEarly(cfg)
  BY <1>1, <1>2, EarlySettled DEF ClientFlight
<1>8. certificate_request' =
         (next \in {"CLIENT_EXPECT_CERTIFICATE", "CLIENT_EXPECT_CERTIFICATE_VERIFY",
                    "CLIENT_EXPECT_FINISHED"} /\ GAuth(cfg))
  <2>1. GAuth(cfg) = TRUE
    <3>1. GAuth(cfg) \in BOOLEAN
      BY ConfigTypes DEF GAuth, LocalInv, Config
    <3>2. QED BY <1>4, <3>1
  <2>2. QED BY <1>1, <2>1
<1>9. d = At(next, dec["client"].seq + 1, 0)
  BY <1>4
<1>10. FlightStep("CR", next, d)
  BY <1>1, <1>2, <1>3, <1>4, <1>6, <1>7, <1>8, <1>9 DEF FlightStep, ClientFlight
<1>11. QED BY <1>10, FlightStepHonest

(* The client reads the server's Certificate.                               *)
LEMMA CertificateHonest ==
  ASSUME LocalInv, AgreementInv, Honest, client_handle_certificate
  PROVE  Honest'
<1> DEFINE next == "CLIENT_EXPECT_CERTIFICATE_VERIFY"
           m    == First("client").msg
<1>1. /\ ClientTakes("CERT") /\ ClientStep(next) /\ using_early_data' = using_early_data
      /\ certificate_request' = certificate_request
  BY DEF client_handle_certificate
<1>2. /\ wire["server"] # <<>> /\ m.type = "CERT"
  BY <1>1, ClientExpects
<1>3. PICK d : ClientReading(d)
  BY <1>2, ClientReads
<1>4. /\ m = Cert /\ dec["client"].seq = CertAt(cfg) /\ d = At(next, CertAt(cfg) + 1, 0)
      /\ ClientPhase = IF GAuth(cfg) THEN "CLIENT_EXPECT_CERTIFICATE"
                       ELSE "CLIENT_EXPECT_CERTIFICATE_REQUEST_OR_CERTIFICATE"
  BY <1>2, <1>3 DEF ClientReading, ClientMoves, ClientPoint, At
<1>5. state["client"] = IF GAuth(cfg) THEN "CLIENT_EXPECT_CERTIFICATE"
                        ELSE "CLIENT_EXPECT_CERTIFICATE_REQUEST_OR_CERTIFICATE"
  BY <1>4 DEF ClientPhase
<1>6. transcript["client"] = CrTh(cfg)
  <2>1. CASE GAuth(cfg)
    BY <1>5, <2>1 DEF Honest, ClientHonest, ClientFlight, ClientTh
  <2>2. CASE ~GAuth(cfg)
    <3>1. transcript["client"] = EeTh(cfg)
      BY <1>5, <2>2 DEF Honest, ClientHonest, ClientFlight, ClientTh
    <3>2. QED BY <2>2, <3>1 DEF CrTh
  <2>3. QED BY <2>1, <2>2
<1>7. Append(transcript["client"], View(m)) = ClientTh[next]
  BY <1>4, <1>6 DEF CertTh, ClientTh
<1>8. using_early_data' = GTakesEarly(cfg)
  BY <1>1, <1>5, EarlySettled DEF ClientFlight
<1>9. certificate_request' =
         (next \in {"CLIENT_EXPECT_CERTIFICATE", "CLIENT_EXPECT_CERTIFICATE_VERIFY",
                    "CLIENT_EXPECT_FINISHED"} /\ GAuth(cfg))
  <2>1. certificate_request = (state["client"] \in {"CLIENT_EXPECT_CERTIFICATE",
                                 "CLIENT_EXPECT_CERTIFICATE_VERIFY", "CLIENT_EXPECT_FINISHED"} /\ GAuth(cfg))
    BY DEF Honest, ClientHonest
  <2>2. QED BY <1>1, <1>5, <2>1
<1>10. FlightStep("CERT", next, d)
  BY <1>1, <1>2, <1>3, <1>4, <1>5, <1>7, <1>8, <1>9 DEF FlightStep, ClientFlight
<1>11. QED BY <1>10, FlightStepHonest

(* The client reads the server's CertificateVerify.                         *)
LEMMA CertificateVerifyHonest ==
  ASSUME LocalInv, AgreementInv, Honest, client_handle_certificate_verify
  PROVE  Honest'
<1> DEFINE next == "CLIENT_EXPECT_FINISHED"
           m    == First("client").msg
<1>1. /\ ClientTakes("CV") /\ ClientStep(next) /\ using_early_data' = using_early_data
      /\ certificate_request' = certificate_request
  BY DEF client_handle_certificate_verify
<1>2. /\ wire["server"] # <<>> /\ m.type = "CV"
      /\ state["client"] = "CLIENT_EXPECT_CERTIFICATE_VERIFY"
  BY <1>1, ClientExpects
<1>3. PICK d : ClientReading(d)
  BY <1>2, ClientReads
<1>4. /\ m = Cv(cfg) /\ ~GResumes(cfg) /\ dec["client"].seq = CertAt(cfg) + 1
      /\ d = At(next, CertAt(cfg) + 2, 0)
  BY <1>2, <1>3 DEF ClientReading, ClientMoves, ClientPoint, At
<1>5. transcript["client"] = CertTh(cfg)
  BY <1>2 DEF Honest, ClientHonest, ClientFlight, ClientTh
<1>6. Append(transcript["client"], View(m)) = ClientTh[next]
  BY <1>4, <1>5 DEF CvTh, ClientTh
<1>7. using_early_data' = GTakesEarly(cfg)
  BY <1>1, <1>2, EarlySettled DEF ClientFlight
<1>8. certificate_request' =
         (next \in {"CLIENT_EXPECT_CERTIFICATE", "CLIENT_EXPECT_CERTIFICATE_VERIFY",
                    "CLIENT_EXPECT_FINISHED"} /\ GAuth(cfg))
  <2>1. certificate_request = (state["client"] \in {"CLIENT_EXPECT_CERTIFICATE",
                                 "CLIENT_EXPECT_CERTIFICATE_VERIFY", "CLIENT_EXPECT_FINISHED"} /\ GAuth(cfg))
    BY DEF Honest, ClientHonest
  <2>2. QED BY <1>1, <1>2, <2>1
<1>9. d = At(next, dec["client"].seq + 1, 0)
  <2>1. CertAt(cfg) \in Nat
    BY DEF CertAt
  <2>2. QED BY <1>4, <2>1
<1>10. FlightStep("CV", next, d)
  BY <1>1, <1>2, <1>3, <1>6, <1>7, <1>8, <1>9 DEF FlightStep, ClientFlight
<1>11. QED BY <1>10, FlightStepHonest

(* The ServerHello.                                                         *)
LEMMA ServerHelloHonest ==
  ASSUME LocalInv, AgreementInv, Honest, client_handle_hello
  PROVE  Honest'
<1> DEFINE sh  == First("client").msg
           ikm == Append(key_schedule_select_one(sched["client"], offered_psk /\ ~SelectsPsk(sh)),
                         IF SelectsKeyShare(sh) THEN "dhe" ELSE "0")
           th  == Append(transcript["client"], View(sh))
           hs  == Secret("c_hs_traffic", ikm, th)
           next == "CLIENT_EXPECT_ENCRYPTED_EXTENSIONS"
<1>1. /\ ClientTakes("SH") /\ Consume("client") /\ cfg' = cfg
      /\ is_psk_handshake' = [is_psk_handshake EXCEPT !["client"] = SelectsPsk(sh)]
      /\ sched' = [sched EXCEPT !["client"] = ikm]
      /\ transcript' = [transcript EXCEPT !["client"] = th]
      /\ dec' = [dec EXCEPT !["client"] = Key(Secret("s_hs_traffic", ikm, th))]
      /\ using_early_data =>
           /\ pending_handshake_secret' = [pending_handshake_secret EXCEPT !["client"] = hs]
           /\ enc' = enc
      /\ ~using_early_data =>
           /\ enc' = [enc EXCEPT !["client"] = Key(hs)]
           /\ pending_handshake_secret' = pending_handshake_secret
      /\ state' = [state EXCEPT !["client"] = next]
      /\ using_early_data' = using_early_data /\ certificate_request' = certificate_request
      /\ max_early_data_size' = max_early_data_size /\ pending_traffic_secret' = pending_traffic_secret
      /\ early_data_skipped_bytes' = early_data_skipped_bytes /\ ret' = ret /\ sendbuf' = sendbuf
      /\ earlySent' = earlySent /\ earlyGot' = earlyGot
  BY DEF client_handle_hello, clientVars, serverVars, appVars
<1>2. /\ wire["server"] # <<>> /\ sh.type = "SH" /\ state["client"] \in ClientHellos
  BY <1>1, ClientExpects
<1>3. PICK d : ClientReading(d)
  BY <1>2, ClientReads
<1>4. /\ sh = Sh(cfg) /\ d = At(next, 0, 0)
      /\ ClientPhase = IF GRetries(cfg) THEN "CLIENT_EXPECT_SECOND_SERVER_HELLO"
                       ELSE "CLIENT_EXPECT_SERVER_HELLO"
  BY <1>2, <1>3 DEF ClientReading, ClientMoves, ClientPoint, At
<1>5. state["client"] = IF GRetries(cfg) THEN "CLIENT_EXPECT_SECOND_SERVER_HELLO"
                        ELSE "CLIENT_EXPECT_SERVER_HELLO"
  BY <1>2, <1>4 DEF ClientPhase, ClientHellos
<1>6. (SelectsPsk(sh) <=> GResumes(cfg)) /\ (SelectsKeyShare(sh) <=> GDhe(cfg))
  <2>1. sh.has = If(GResumes(cfg), "psk") \cup If(GDhe(cfg), "key_share")
    BY <1>4 DEF Sh, Plain, Message
  <2>2. QED BY <2>1 DEF SelectsPsk, SelectsKeyShare, If
<1>7. ikm = HsSched(cfg)
  <2>1. offered_psk = Offers /\ sched["client"] = <<IF Offers THEN ClientPsk ELSE "0">>
    BY <1>2 DEF AgreementInv, ClientHashInv, ClientHellos
  <2>2. GResumes(cfg) => Offers /\ ClientPsk = "psk"
    BY DEF GResumes, Offers, ClientPsk, Honest, GCompatible, GAuth
  <2>3. key_schedule_select_one(sched["client"], offered_psk /\ ~SelectsPsk(sh))
        = <<IF GResumes(cfg) THEN "psk" ELSE "0">>
    <3>1. CASE GResumes(cfg)
      BY <1>6, <2>1, <2>2, <3>1 DEF key_schedule_select_one
    <3>2. CASE ~GResumes(cfg) /\ Offers
      BY <1>6, <2>1, <3>2 DEF key_schedule_select_one
    <3>3. CASE ~GResumes(cfg) /\ ~Offers
      BY <1>6, <2>1, <3>3 DEF key_schedule_select_one
    <3>4. QED BY <3>1, <3>2, <3>3
  <2>4. ikm = Append(<<IF GResumes(cfg) THEN "psk" ELSE "0">>, IF GDhe(cfg) THEN "dhe" ELSE "0")
    BY <1>6, <2>3
  <2>5. QED
    <3> DEFINE x == IF GResumes(cfg) THEN "psk" ELSE "0"
               y == IF GDhe(cfg) THEN "dhe" ELSE "0"
    <3>1. x \in {"psk", "0", "dhe"} /\ y \in {"psk", "0", "dhe"}
      OBVIOUS
    <3>2. ikm = Append(<<x>>, y) /\ HsSched(cfg) = <<x, y>>
      BY <2>4 DEF HsSched
    <3> HIDE DEF x, y, ikm
    <3>3. QED BY <3>1, <3>2, AppendTwo
<1>8. th = HelloTh(cfg)
  <2>1. transcript["client"] = Append(FirstTh(cfg), View(LastHello(cfg)))
    <3>1. CASE GRetries(cfg)
      BY <1>5, <3>1 DEF Honest, ClientHonest, ClientHellos, ClientTh, FirstTh, LastHello
    <3>2. CASE ~GRetries(cfg)
      <4>1. transcript["client"] = <<View(Hello1(cfg))>>
        BY <1>5, <3>2 DEF Honest, ClientHonest, ClientHellos, ClientTh
      <4>2. \A x : Append(<<>>, x) = <<x>>
        OBVIOUS
      <4>3. QED BY <3>2, <4>1, <4>2 DEF FirstTh, LastHello
    <3>3. QED BY <3>1, <3>2
  <2>2. QED BY <1>4, <2>1 DEF HelloTh
<1>9. hs = Hs(cfg, "c_hs_traffic") /\ Secret("s_hs_traffic", ikm, th) = Hs(cfg, "s_hs_traffic")
  BY <1>7, <1>8 DEF Hs
<1> HIDE DEF sh, ikm, th, hs
<1>10. /\ state'["client"] = next /\ state'["server"] = state["server"]
       /\ transcript'["client"] = th /\ transcript'["server"] = transcript["server"]
       /\ sched'["client"] = ikm /\ is_psk_handshake'["client"] = SelectsPsk(sh)
       /\ dec'["client"] = Key(Hs(cfg, "s_hs_traffic")) /\ dec'["server"] = dec["server"]
  BY <1>1, <1>9, Sides DEF LocalInv, TypeInv
<1>11. /\ enc'["server"] = enc["server"]
       /\ pending_handshake_secret'["server"] = pending_handshake_secret["server"]
       /\ using_early_data =>
            /\ pending_handshake_secret'["client"] = Hs(cfg, "c_hs_traffic")
            /\ enc'["client"] = enc["client"]
       /\ ~using_early_data =>
            /\ pending_handshake_secret'["client"] = pending_handshake_secret["client"]
            /\ enc'["client"] = Key(Hs(cfg, "c_hs_traffic"))
  BY <1>1, <1>9, Sides DEF LocalInv, TypeInv
<1>12. dec'["client"].aead = TRUE /\ dec'["client"].secret = Hs(cfg, "s_hs_traffic")
       /\ dec'["client"].seq = 0
  BY <1>10 DEF Key
<1>13. ClientPoint' = d
  BY <1>4, <1>10, <1>12 DEF ClientPoint, ClientPhase
<1>14. ClientHonest'
  <2>1. certificate_request' = FALSE
    BY <1>1, <1>2 DEF Honest, ClientHonest, ClientHellos
  <2>2. is_psk_handshake'["client"] = GResumes(cfg)
    <3>1. GResumes(cfg) \in BOOLEAN /\ SelectsPsk(sh) \in BOOLEAN
      BY DEF GResumes, SelectsPsk
    <3>2. QED BY <1>6, <1>10, <3>1
  <2>3. transcript'["client"] = (ClientTh')[next]
    BY <1>1, <1>8, <1>10 DEF ClientTh
  <2>4. KeyOf(dec'["client"], Hs(cfg, "s_hs_traffic")) /\ sched'["client"] = HsSched(cfg)
    BY <1>7, <1>10, <1>12 DEF KeyOf
  <2>5. QED BY <1>1, <1>10, <2>1, <2>2, <2>3, <2>4 DEF ClientHonest, ClientHellos, ClientFlight
<1>15. ClientEarly'
  <2>1. ClientEarly
    BY DEF Honest
  <2>2. using_early_data = (GEarly(cfg) /\ ~GRetries(cfg))
    <3>1. CASE GRetries(cfg)
      BY <1>5, <2>1, <3>1 DEF ClientEarly, ClientFlight
    <3>2. CASE ~GRetries(cfg)
      BY <1>5, <2>1, <3>2 DEF ClientEarly
    <3>3. QED BY <3>1, <3>2
  <2>3. using_early_data => KeyOf(enc["client"], Ce(cfg)) /\ enc["client"].seq = earlySent
    BY <1>5, <2>1, <2>2 DEF ClientEarly
  <2>4. pending_handshake_secret["client"] = NoSecret
    BY <1>2 DEF LocalInv, ClientInv, ClientHellos, ClientFlight
  <2>5. /\ max_early_data_size <= cfg.early_limit /\ earlySent <= cfg.early_limit
        /\ earlySent > 0 => GEarly(cfg)
        /\ max_early_data_size > 0 => using_early_data
    BY <1>2, <1>5, <2>1, <2>2 DEF ClientEarly, ClientHellos, ClientFlight
  <2>6. FlightEarly'
    BY <1>1, <1>11, <2>2, <2>3, <2>4, <2>5 DEF FlightEarly
  <2>7. QED BY <1>1, <1>10, <2>2, <2>6 DEF FlightEarly, ClientEarly, ClientHellos, ClientFlight
<1>16. ServerGoal' = ServerGoal
  BY <1>1, <1>5, <1>10 DEF ServerGoal
<1>17. UNCHANGED ServerOwn
  BY <1>1, <1>10, <1>11 DEF ServerOwn
<1>18. ServerPhase' = ServerPhase
  <2>1. state["server"] \notin ServerHellos
    BY <1>1, ServerAnswered
  <2>2. QED BY <1>1, <1>10, <2>1, PhaseKept
<1>19. Calm'
  BY <1>1 DEF Honest, Calm
<1>20. ClientRead(d)
  BY <1>1, <1>3, <1>10, <1>13, <1>14, <1>15, <1>16, <1>17, <1>18, <1>19 DEF ClientRead
<1>21. QED BY <1>20, ClientReadOn

(* The client writes the hellos of the configuration.                       *)
LEMMA HellosAre ==
  /\ HelloExtensions = GExtensions(cfg) /\ (Offers <=> GOffers(cfg)) /\ ClientPsk = GPsk(cfg)
  /\ \A has, cookie, th : ClientHello(has, cookie, th) = GHello(cfg, has, cookie, th)
<1>1. HelloExtensions = GExtensions(cfg) /\ (Offers <=> GOffers(cfg)) /\ ClientPsk = GPsk(cfg)
  BY DEF HelloExtensions, GExtensions, Offers, GOffers, ClientPsk, GPsk
<1>2. \A has : View(Plain("CH", has)) = <<"CH", has>>
  BY DEF View, Plain, Message
<1>3. QED BY <1>1, <1>2 DEF ClientHello, GHello

(* A change_cipher_spec moves nobody.                                       *)
LEMMA CcsWalk ==
  ASSUME NEW s \in Side, NEW g, NEW a, NEW cond \in BOOLEAN, a.st \notin PostHandshake
  PROVE  Walk(s, g, CCS(cond), a, a)
<1> DEFINE m == Plain("CCS", {})
           r == Rec(NoSecret, 0, m)
<1>1. NoKey \in Keys /\ NoKey.secret = NoSecret /\ NoKey.seq = 0 /\ m \in Messages
  <2>1. "CCS" \in Names /\ {} \in SUBSET Names
    BY NamesAre
  <2>2. QED BY <2>1, KeyTypes, MessageTypes DEF NoKey
<1>2. Records(NoKey, <<m>>) = <<r>>
  <2> HIDE DEF m
  <2>1. QED BY <1>1, OneRecord DEF Rec
<1>3. CASE cond
  <2>1. IsCcs(r)
    BY DEF IsCcs
  <2>2. Link(s, g, a, r, a)
    BY <2>1 DEF Link, ClientLink, ServerLink, PostHandshake
  <2> HIDE DEF r
  <2>3. Walk(s, g, <<r>>, a, a)
    BY <2>2, WalkOne
  <2>4. QED BY <1>2, <1>3, <2>3 DEF CCS
<1>4. CASE ~cond
  BY <1>4, WalkNone DEF CCS
<1>5. QED BY <1>3, <1>4

(* A message in the clear.                                                  *)
LEMMA ClearRecord ==
  ASSUME NEW m \in Messages
  PROVE  /\ Records(NoKey, <<m>>) = <<Rec(NoSecret, 0, m)>>
         /\ Rec(NoSecret, 0, m) \in Recs /\ Records(NoKey, <<m>>) \in Seq(Recs)
<1>1. NoKey \in Keys /\ NoKey.secret = NoSecret /\ NoKey.seq = 0
  BY KeyTypes DEF NoKey
<1>2. QED BY <1>1, OneRecord DEF Rec

(* The types of the hellos.                                                 *)
LEMMA HelloMessages ==
  ASSUME TypeInv
  PROVE  Hello1(cfg) \in Messages /\ View(Hello1(cfg)) \in Views
<1> DEFINE has == GExtensions(cfg) \cup If(GOffers(cfg) /\ GEarly(cfg), "early_data") \cup {cfg.key_share}
<1>1. GExtensions(cfg) \in SUBSET Names /\ cfg.key_share \in Names
  BY HellosAre, ConfigTypes
<1>2. If(GOffers(cfg) /\ GEarly(cfg), "early_data") \in SUBSET Names
  BY NamesAre DEF If
<1>3. has \in SUBSET Names
  BY <1>1, <1>2
<1>4. Hello1(cfg) = ClientHello(has, <<>>, <<>>)
  BY HellosAre DEF Hello1
<1>5. <<>> \in Cookies /\ <<>> \in Seq(Views)
  BY DEF Cookies
<1> HIDE DEF has
<1>6. Hello1(cfg) \in Messages
  <2>1. ClientHello(has, <<>>, <<>>) \in Messages
    <3> DEFINE e == <<>>
    <3>1. e \in Cookies /\ e \in Seq(Views)
      BY <1>5
    <3> HIDE DEF e
    <3>2. ClientHello(has, e, e) \in Messages
      BY <1>3, <3>1, ClientHelloType
    <3>3. QED BY <3>2 DEF e
  <2>2. QED BY <1>4, <2>1
<1>7. QED BY <1>6, MessageTypes

(* The first ClientHello.                                                   *)
LEMMA SendHelloHonest ==
  ASSUME LocalInv, Honest, send_client_hello
  PROVE  Honest'
<1> DEFINE early == Offers /\ cfg.early_data
           has == HelloExtensions \cup If(early, "early_data") \cup {cfg.key_share}
           ch == ClientHello(has, <<>>, <<>>)
           ikm == <<IF Offers THEN ClientPsk ELSE "0">>
           key == Key(Secret("c_e_traffic", ikm, <<View(ch)>>))
           ccs == early /\ send_change_cipher_spec
           r == Rec(NoSecret, 0, Hello1(cfg))
           st == "CLIENT_EXPECT_SERVER_HELLO"
<1>1. /\ state["client"] = "CLIENT_HANDSHAKE_START"
      /\ state' = [state EXCEPT !["client"] = st] /\ using_early_data' = early
      /\ max_early_data_size' = (IF early THEN cfg.early_limit ELSE 0)
      /\ sched' = [sched EXCEPT !["client"] = ikm]
      /\ transcript' = [transcript EXCEPT !["client"] = <<View(ch)>>]
      /\ enc' = (IF early THEN [enc EXCEPT !["client"] = key] ELSE enc)
      /\ sendbuf' = [sendbuf EXCEPT !["client"] = Records(NoKey, <<ch>>) \o CCS(ccs)]
      /\ cfg' = cfg /\ dec' = dec /\ pending_handshake_secret' = pending_handshake_secret
      /\ is_psk_handshake' = is_psk_handshake /\ certificate_request' = certificate_request
      /\ pending_traffic_secret' = pending_traffic_secret
      /\ early_data_skipped_bytes' = early_data_skipped_bytes /\ ret' = ret /\ wire' = wire
      /\ earlySent' = earlySent /\ earlyGot' = earlyGot
  BY DEF send_client_hello, serverVars, appVars
<1>2. /\ state["server"] = "SERVER_EXPECT_CLIENT_HELLO"
      /\ \A s \in Side : sendbuf[s] = <<>> /\ wire[s] = <<>>
  BY <1>1 DEF LocalInv, QuietInv
<1>3. cfg \in Configs /\ (GEarly(cfg) => GOffers(cfg)) /\ GEarly(cfg) \in BOOLEAN
      /\ cfg.early_limit \in Nat
  BY ConfigsAssumption DEF LocalInv, TypeInv, Config, GEarly, GOffers
<1>4. early = GEarly(cfg) /\ ch = Hello1(cfg)
  <2>1. early <=> GOffers(cfg) /\ GEarly(cfg)
    BY HellosAre DEF GEarly
  <2>2. early = (GOffers(cfg) /\ GEarly(cfg))
    BY <2>1
  <2>3. early \in BOOLEAN
    OBVIOUS
  <2>4. early = GEarly(cfg)
    BY <1>3, <2>1, <2>3
  <2>5. has = GExtensions(cfg) \cup If(GOffers(cfg) /\ GEarly(cfg), "early_data") \cup {cfg.key_share}
    BY <2>2, HellosAre
  <2> HIDE DEF has
  <2>6. ch = GHello(cfg, has, <<>>, <<>>)
    BY HellosAre
  <2>7. QED BY <2>4, <2>5, <2>6 DEF Hello1
<1>5. ikm = <<IF GOffers(cfg) THEN GPsk(cfg) ELSE "0">>
  BY HellosAre
<1>6. key = Key(Ce(cfg))
  BY <1>4, <1>5 DEF Ce
<1> HIDE DEF early, ch, ikm, key, has
<1>7. ccs \in BOOLEAN /\ (ccs => GEarly(cfg))
  BY <1>4
<1> HIDE DEF ccs
<1>8. /\ r \in Recs /\ Records(NoKey, <<ch>>) = <<r>> /\ <<r>> \in Seq(Recs)
      /\ CCS(ccs) \in Seq(Recs) /\ r.msg.type = "CH"
      /\ \A i \in 1..Len(CCS(ccs)) : CCS(ccs)[i].msg.type = "CCS"
  <2>1. Hello1(cfg) \in Messages
    BY HelloMessages DEF LocalInv
  <2>2. /\ r \in Recs /\ Records(NoKey, <<ch>>) = <<r>> /\ <<r>> \in Seq(Recs)
    BY <1>4, <2>1, ClearRecord
  <2>3. r.msg.type = "CH"
    BY KindsAre DEF Kinds, Rec
  <2>4. Plain("CCS", {}).type = "CCS"
    BY DEF Plain, Message
  <2>5. QED BY <1>7, <2>2, <2>3, <2>4, CCSType
<1> HIDE DEF r
<1>9. /\ state'["client"] = st /\ state'["server"] = state["server"]
      /\ transcript'["client"] = <<View(Hello1(cfg))>> /\ transcript'["server"] = transcript["server"]
      /\ sendbuf'["client"] = <<r>> \o CCS(ccs) /\ sendbuf'["server"] = sendbuf["server"]
      /\ enc'["client"] = (IF GEarly(cfg) THEN Key(Ce(cfg)) ELSE enc["client"])
      /\ enc'["server"] = enc["server"]
  <2>1. /\ state \in [Side -> States] /\ transcript \in [Side -> Seq(Views)]
        /\ sendbuf \in [Side -> Seq(Recs)] /\ enc \in [Side -> Keys]
    BY DEF LocalInv, TypeInv
  <2>2. QED BY <1>1, <1>4, <1>6, <1>8, <2>1, Sides
<1>10. /\ ClientHonest /\ ClientEarly /\ ServerHonest /\ Calm /\ GCompatible(cfg)
  BY DEF Honest
<1>11. /\ dec["client"] = NoKey /\ enc["client"] = NoKey /\ certificate_request = FALSE /\ earlySent = 0
       /\ dec["server"] = NoKey /\ early_data_skipped_bytes = UINT32_MAX /\ earlyGot = 0
  <2>1. dec["client"] = NoKey /\ certificate_request = FALSE
    BY <1>1, <1>10 DEF ClientHonest
  <2>2. enc["client"] = NoKey /\ earlySent = 0
    BY <1>1, <1>10 DEF ClientEarly, ClientFlight
  <2>3. dec["server"] = NoKey /\ early_data_skipped_bytes = UINT32_MAX /\ earlyGot = 0
    BY <1>2, <1>10 DEF ServerHonest, ServerHellos
  <2>4. QED BY <2>1, <2>2, <2>3
<1>12. Kinds(cfg)
  BY KindsAre
<1>13. ClientHonest'
  <2>1. transcript'["client"] = (ClientTh')[st]
    BY <1>1, <1>9 DEF ClientTh
  <2>2. QED BY <1>1, <1>9, <1>11, <2>1 DEF ClientHonest, ClientHellos, ClientFlight
<1>14. ClientEarly'
  <2>1. GEarly(cfg) => KeyOf(enc'["client"], Ce(cfg)) /\ enc'["client"].seq = 0
    BY <1>9 DEF KeyOf, Key
  <2>2. ~GEarly(cfg) => enc'["client"] = NoKey
    BY <1>9, <1>11
  <2>3. /\ max_early_data_size' = (IF GEarly(cfg) THEN cfg.early_limit ELSE 0)
        /\ using_early_data' = GEarly(cfg)
    BY <1>1, <1>4
  <2>4. max_early_data_size' <= cfg.early_limit /\ (max_early_data_size' > 0 => GEarly(cfg))
    BY <1>3, <2>3
  <2>5. earlySent' = 0 /\ earlySent' <= cfg.early_limit /\ ~(earlySent' > 0)
    BY <1>1, <1>3, <1>11
  <2>6. cfg' = cfg /\ state'["client"] = st
    BY <1>1, <1>9
  <2>7. QED
    BY ONLY <1>3, <2>1, <2>2, <2>3, <2>4, <2>5, <2>6 DEF ClientEarly, ClientFlight
<1>15. UNCHANGED ServerOwn
  BY <1>1, <1>9 DEF ServerOwn
<1>16. ServerHonest'
  BY <1>9, <1>10, <1>15, ServerSame
<1>17. /\ Stream("client")' = <<r>> \o CCS(ccs) /\ Stream("server")' = <<>>
       /\ Stream("client")' \in Seq(Recs) /\ Stream("client")' # <<>>
  <2>1. wire'["client"] = <<>> /\ wire'["server"] = <<>> /\ sendbuf'["server"] = <<>>
    BY <1>1, <1>2, <1>9, Sides
  <2> DEFINE q == <<r>> \o CCS(ccs)
  <2>2. q \in Seq(Recs) /\ q # <<>>
    <3>1. Len(q) = 1 + Len(CCS(ccs)) /\ q \in Seq(Recs) /\ Len(CCS(ccs)) \in Nat
      BY <1>8, Joined
    <3>2. QED BY <3>1
  <2>3. Stream("client")' = <<>> \o q /\ Stream("server")' = <<>> \o <<>>
    BY <1>9, <2>1 DEF Stream
  <2> HIDE DEF q
  <2>4. <<>> \o q = q /\ <<>> \o <<>> = <<>>
    BY <2>2
  <2>5. QED BY <2>2, <2>3, <2>4 DEF q
<1>18. EarlyCounted'
  <2> DEFINE q == <<r>> \o CCS(ccs)
  <2>1. ASSUME NEW i \in 1..Len(q) PROVE q[i].msg.type # "DATA"
    <3>1. /\ Len(q) = 1 + Len(CCS(ccs)) /\ Len(CCS(ccs)) \in Nat /\ q[1] = r
          /\ \A j \in 1..Len(CCS(ccs)) : q[1 + j] = CCS(ccs)[j]
      BY <1>8, Joined
    <3>2. CASE i = 1
      BY <1>8, <3>1, <3>2
    <3>3. CASE i # 1
      <4>1. i - 1 \in 1..Len(CCS(ccs)) /\ 1 + (i - 1) = i
        BY <3>1, <3>3
      <4>2. QED BY <1>8, <3>1, <4>1
    <3>4. QED BY <3>2, <3>3
  <2>2. QED BY <1>17, <2>1 DEF EarlyCounted
<1>19. ServerPhase' = "SERVER_EXPECT_CLIENT_HELLO"
  <2>1. ~CookieSent'
    BY <1>9, <1>17 DEF CookieSent
  <2>2. QED BY <1>2, <1>9, <2>1 DEF ServerPhase
<1>20. Silent'
  <2>1. ASSUME (GRetries(cfg) /\ cfg.retry_uses_cookie)' PROVE Len(Stream("client")') <= 1
    <3>1. ~ccs
      BY <1>1, <1>7, <1>10, <2>1 DEF GCompatible
    <3>2. Stream("client")' = <<r>> \o <<>>
      BY <1>17, <3>1 DEF CCS
    <3>3. Len(<<r>> \o <<>>) = 1
      BY <1>8
    <3>4. QED BY <3>2, <3>3
  <2>2. QED BY <1>17, <2>1 DEF Silent
<1>21. Walk("client", cfg', Stream("server")', ClientPoint', ClientGoal')
  <2>1. ClientPoint' = At(st, 0, 0)
    BY <1>1, <1>9, <1>11, <1>12 DEF ClientPoint, ClientPhase, Kinds
  <2>2. ClientGoal' = At(st, 0, 0)
    BY <1>19 DEF ClientGoal
  <2>3. QED BY <1>17, <2>1, <2>2, WalkNone
<1>22. Walk("server", cfg', Stream("client")', ServerPoint', ServerGoal')
  <2> DEFINE a == At("SERVER_EXPECT_CLIENT_HELLO", 0, 0)
             b == IF GRetries(cfg) THEN At("SERVER_EXPECT_SECOND_CLIENT_HELLO", 0, 0)
                  ELSE PointAfterHello(cfg, 0)
  <2>1. ServerPoint' = a
    BY <1>1, <1>11, <1>12, <1>19 DEF ServerPoint, EarlyRead, Kinds
  <2>2. ServerGoal' = b
    BY <1>1, <1>9, <1>11 DEF ServerGoal
  <2>3. Link("server", cfg, a, r, b)
    BY DEF Link, ServerLink, At, r
  <2>4. b.st \notin PostHandshake
    BY DEF PointAfterHello, At, PostHandshake
  <2> HIDE DEF a, b
  <2>5. Walk("server", cfg, <<r>>, a, b)
    BY <2>3, WalkOne
  <2>6. Walk("server", cfg, CCS(ccs), b, b)
    BY <1>7, <2>4, CcsWalk, Sides
  <2>7. Walk("server", cfg, <<r>> \o CCS(ccs), a, b)
    BY <1>8, <2>5, <2>6, WalkOn
  <2>8. QED BY <1>1, <1>17, <2>1, <2>2, <2>7
<1>23. \A s \in Side : Walk(s, cfg, Stream(Peer(s)), Point(s), Goal(s))'
  BY <1>21, <1>22, Sides DEF Side, Point, Goal
<1>24. Calm' /\ GCompatible(cfg)'
  BY <1>1, <1>10 DEF Calm
<1>25. QED BY <1>13, <1>14, <1>16, <1>18, <1>20, <1>23, <1>24 DEF Honest

(* The HelloRetryRequest, and the second ClientHello that answers it.       *)
LEMMA RetryHonest ==
  ASSUME LocalInv, Honest, handle_hello_retry_request
  PROVE  Honest'
<1> DEFINE hrr == First("client").msg
           th == Append(ch1hash(transcript["client"]), View(hrr))
           share == IF SelectsKeyShare(hrr) THEN "group1" ELSE cfg.key_share
           has == HelloExtensions \cup {share} \cup If(hrr.cookie # <<>>, "cookie")
           ch == ClientHello(has, hrr.cookie, th)
           r == Rec(NoSecret, 0, Hello2(cfg))
           st == "CLIENT_EXPECT_SECOND_SERVER_HELLO"
<1>1. /\ ClientTakes("HRR") /\ Consume("client") /\ cfg' = cfg
      /\ enc' = (IF using_early_data THEN [enc EXCEPT !["client"] = NoKey] ELSE enc)
      /\ using_early_data' = FALSE /\ max_early_data_size' = 0
      /\ transcript' = [transcript EXCEPT !["client"] = Append(th, View(ch))]
      /\ sendbuf' = [sendbuf EXCEPT !["client"] =
                       sendbuf["client"] \o Records(enc'["client"], <<ch>>)]
      /\ state' = [state EXCEPT !["client"] = st]
      /\ dec' = dec /\ pending_handshake_secret' = pending_handshake_secret
      /\ certificate_request' = certificate_request
      /\ pending_traffic_secret' = pending_traffic_secret
      /\ early_data_skipped_bytes' = early_data_skipped_bytes /\ ret' = ret
      /\ earlySent' = earlySent /\ earlyGot' = earlyGot
  BY DEF handle_hello_retry_request, serverVars, appVars
<1>2. wire["server"] # <<>> /\ hrr.type = "HRR" /\ state["client"] \in ClientHellos
  BY <1>1, ClientExpects
<1>3. PICK d : ClientReading(d)
  BY <1>2, ClientReads
<1>4. GRetries(cfg) /\ hrr = Hrr(cfg) /\ d = At(st, 0, 0) /\ state["client"] = "CLIENT_EXPECT_SERVER_HELLO"
  <2>1. GRetries(cfg) /\ hrr = Hrr(cfg) /\ d = At(st, 0, 0) /\ ClientPhase = "CLIENT_EXPECT_SERVER_HELLO"
    BY <1>2, <1>3 DEF ClientReading, ClientMoves, ClientPoint, At
  <2>2. QED BY <1>2, <2>1 DEF ClientPhase, ClientHellos
<1>5. ClientHonest /\ ClientEarly /\ ServerHonest /\ Silent /\ Calm
  BY DEF Honest
<1>6. /\ transcript["client"] = <<View(Hello1(cfg))>> /\ dec["client"] = NoKey
      /\ certificate_request = FALSE
  <2>1. transcript["client"] = <<View(Hello1(cfg))>>
    BY <1>4, <1>5 DEF ClientHonest, ClientHellos, ClientTh
  <2>2. dec["client"] = NoKey /\ certificate_request = FALSE
    BY <1>4, <1>5 DEF ClientHonest, ClientHellos
  <2>3. QED BY <2>1, <2>2
<1>7. enc'["client"] = NoKey /\ enc'["server"] = enc["server"]
  <2>1. enc \in [Side -> Keys] /\ using_early_data \in BOOLEAN
    BY DEF LocalInv, TypeInv
  <2>2. CASE using_early_data
    BY <1>1, <2>1, <2>2, Sides
  <2>3. CASE ~using_early_data
    <3>1. ~GEarly(cfg)
      BY <1>4, <1>5, <2>3 DEF ClientEarly
    <3>2. enc["client"] = NoKey
      BY <1>4, <1>5, <3>1 DEF ClientEarly, ClientHellos, ClientFlight
    <3>3. QED BY <1>1, <2>3, <3>2
  <2>4. QED BY <2>2, <2>3
<1>8. th = HrrTh(cfg)
  BY <1>4, <1>6 DEF HrrTh
<1>9. hrr.cookie = GCookie(cfg) /\ (SelectsKeyShare(hrr) <=> GShareless(cfg))
  <2>1. hrr.cookie = GCookie(cfg) /\ hrr.has = RetryExtensions(GShareless(cfg), GCookie(cfg))
    BY <1>4 DEF Hrr, Message
  <2>2. QED BY <2>1 DEF SelectsKeyShare, RetryExtensions, If
<1>10. share = IF GShareless(cfg) THEN "group1" ELSE cfg.key_share
  BY <1>9
<1>11. has = GExtensions(cfg) \cup {IF GShareless(cfg) THEN "group1" ELSE cfg.key_share}
               \cup If(GCookie(cfg) # <<>>, "cookie")
  BY <1>9, <1>10, HellosAre
<1>12. has \in SUBSET Names /\ th \in Seq(Views) /\ hrr.cookie \in Cookies
  <2>1. TypeInv /\ hrr \in Messages /\ hrr.cookie \in Cookies
    <3>1. TypeInv
      BY DEF LocalInv
    <3>2. hrr \in Messages
      BY <1>2, <3>1, ReadTypes, Sides
    <3>3. QED BY <3>1, <3>2 DEF Messages
  <2>2. share \in Names /\ HelloExtensions \in SUBSET Names
    BY <2>1, ConfigTypes, NamesAre
  <2>3. If(hrr.cookie # <<>>, "cookie") \in SUBSET Names
    BY NamesAre DEF If
  <2>4. th \in Seq(Views)
    <3>1. transcript["client"] \in Seq(Views) /\ transcript["client"] # <<>>
      BY <1>2, Sides DEF LocalInv, TypeInv, ClientInv, ClientHellos
    <3>2. ch1hash(transcript["client"]) \in Seq(Views)
      BY <3>1, Ch1HashType
    <3>3. QED BY <2>1, <3>2, MessageTypes, AppendType
  <2>5. QED BY <2>1, <2>2, <2>3, <2>4
<1> HIDE DEF hrr, th, share, has
<1>13. ch = Hello2(cfg)
  <2>1. ch = GHello(cfg, has, hrr.cookie, th)
    BY HellosAre
  <2>2. QED BY <1>8, <1>9, <1>11, <2>1 DEF Hello2
<1>14. ch \in Messages
  BY <1>12, ClientHelloType DEF LocalInv
<1> HIDE DEF ch
<1>15. /\ Records(enc'["client"], <<ch>>) = <<r>> /\ r \in Recs /\ <<r>> \in Seq(Recs)
       /\ r.msg.type = "CH"
  <2>1. Records(NoKey, <<ch>>) = <<r>> /\ r \in Recs /\ <<r>> \in Seq(Recs)
    BY <1>13, <1>14, ClearRecord
  <2>2. r.msg.type = "CH"
    BY KindsAre DEF Kinds, Rec
  <2>3. QED BY <1>7, <2>1, <2>2
<1> HIDE DEF r
<1>16. /\ state'["client"] = st /\ state'["server"] = state["server"]
       /\ transcript'["client"] = Append(HrrTh(cfg), View(Hello2(cfg)))
       /\ transcript'["server"] = transcript["server"]
       /\ sendbuf' = [sendbuf EXCEPT !["client"] = sendbuf["client"] \o <<r>>]
  <2>1. /\ state \in [Side -> States] /\ transcript \in [Side -> Seq(Views)]
        /\ sendbuf \in [Side -> Seq(Recs)]
    BY DEF LocalInv, TypeInv
  <2>2. transcript' = [transcript EXCEPT !["client"] = Append(HrrTh(cfg), View(Hello2(cfg)))]
    BY <1>1, <1>8, <1>13
  <2>3. QED BY <1>1, <1>15, <2>1, <2>2, Sides
<1>17. ClientPoint' = d
  BY <1>1, <1>4, <1>6, <1>16, KindsAre DEF ClientPoint, ClientPhase, Kinds
<1>18. ClientHonest'
  <2>1. transcript'["client"] = (ClientTh')[st]
    BY <1>1, <1>16 DEF ClientTh
  <2>2. QED BY <1>1, <1>4, <1>6, <1>16, <2>1 DEF ClientHonest, ClientHellos, ClientFlight
<1>19. ClientEarly'
  <2>1. earlySent <= cfg.early_limit /\ (earlySent > 0 => GEarly(cfg))
    BY <1>5 DEF ClientEarly
  <2>2. cfg.early_limit \in Nat
    BY ConfigTypes DEF LocalInv
  <2>3. 0 <= cfg.early_limit /\ ~(0 > 0)
    BY <2>2
  <2>4. QED BY ONLY <1>1, <1>7, <1>16, <2>1, <2>3 DEF ClientEarly, ClientFlight
<1>20. UNCHANGED ServerOwn
  BY <1>1, <1>7, <1>16 DEF ServerOwn
<1>21. ServerPhase' = ServerPhase
  <2>1. CASE state["server"] = "SERVER_EXPECT_CLIENT_HELLO"
    <3>1. Stream("server") # <<>>
      <4>1. wire["server"] \in Seq(Recs) /\ sendbuf["server"] \in Seq(Recs)
        BY Sides DEF LocalInv, TypeInv
      <4>2. QED BY <1>2, <4>1, FirstOfStream DEF Stream
    <3>2. CookieSent
      BY <1>5, <2>1, <3>1 DEF Silent, ServerPhase
    <3>3. CookieSent'
      BY <1>1, <1>16, <3>2 DEF CookieSent
    <3>4. QED BY <3>2, <3>3 DEF ServerPhase
  <2>2. CASE state["server"] # "SERVER_EXPECT_CLIENT_HELLO"
    BY <1>16, <2>2 DEF ServerPhase, CookieSent
  <2>3. QED BY <2>1, <2>2
<1>22. Walk("server", cfg, <<r>>, ServerGoal, ServerGoal')
  <2> DEFINE a == At("SERVER_EXPECT_SECOND_CLIENT_HELLO", 0, earlySent)
             b == PointAfterHello(cfg, earlySent)
  <2>1. ServerGoal = a
    BY <1>4 DEF ServerGoal
  <2>2. ServerGoal' = b
    BY <1>1, <1>16 DEF ServerGoal
  <2>3. Link("server", cfg, a, r, b)
    BY <1>4 DEF Link, ServerLink, At, r
  <2> HIDE DEF a, b
  <2>4. QED BY <2>1, <2>2, <2>3, WalkOne
<1>23. Calm'
  BY <1>1, <1>5 DEF Calm
<1>24. \A i \in 1..Len(<<r>>) : <<r>>[i].msg.type # "DATA"
  BY <1>15
<1>25. ClientMove(d, <<r>>)
  BY <1>1, <1>3, <1>15, <1>16, <1>17, <1>18, <1>19, <1>20, <1>21, <1>22, <1>23, <1>24 DEF ClientMove
<1>26. QED BY <1>25, ClientAdvances

(* Joining short sequences.                                                 *)
LEMMA JoinOne ==
  ASSUME NEW S, NEW q \in Seq(S), NEW x \in S
  PROVE  q \o <<x>> = Append(q, x)
OBVIOUS

(* Joining two elements to a sequence.                                      *)
LEMMA JoinTwo ==
  ASSUME NEW S, NEW q \in Seq(S), NEW x \in S, NEW y \in S
  PROVE  q \o (<<x>> \o <<y>>) = Append(Append(q, x), y) /\ <<x>> \o <<y>> = Append(<<x>>, y)
<1>1. <<x>> \in Seq(S) /\ <<y>> \in Seq(S) /\ q \o <<x>> \in Seq(S) /\ Append(q, x) \in Seq(S)
  OBVIOUS
<1> DEFINE a == <<x>>
           b == <<y>>
<1>2. a \in Seq(S) /\ b \in Seq(S)
  BY <1>1
<1>3. /\ a \o b = Append(a, y) /\ q \o a = Append(q, x)
      /\ Append(q, x) \o b = Append(Append(q, x), y)
  BY <1>1, JoinOne
<1> HIDE DEF a, b
<1>4. q \o (a \o b) = (q \o a) \o b
  BY <1>2
<1>5. QED BY <1>3, <1>4 DEF a, b

(* One more message is hashed...                                            *)
LEMMA HashMore ==
  ASSUME NEW th \in Seq(Views), NEW q \in Seq(Messages), NEW m \in Messages
  PROVE  Hash(th, Append(q, m)) = Append(Hash(th, q), View(m))
<1> DEFINE p == Append(q, m)
           v == View(m)
           x == Hash(th, p)
           h == Hash(th, q)
           y == Append(h, v)
<1>1. /\ p \in Seq(Messages) /\ Len(p) = Len(q) + 1 /\ p[Len(q) + 1] = m /\ v \in Views
      /\ \A i \in 1..Len(q) : p[i] = q[i]
  BY AppendType, MessageTypes
<1>2. /\ x \in Seq(Views) /\ Len(x) = Len(th) + Len(p)
      /\ \A i \in 1..Len(th) : x[i] = th[i]
      /\ \A i \in 1..Len(p) : x[Len(th) + i] = View(p[i])
  BY <1>1, HashType
<1>3. /\ h \in Seq(Views) /\ Len(h) = Len(th) + Len(q)
      /\ \A i \in 1..Len(th) : h[i] = th[i]
      /\ \A i \in 1..Len(q) : h[Len(th) + i] = View(q[i])
  BY HashType
<1> HIDE DEF p, x, h, v
<1>4. /\ y \in Seq(Views) /\ Len(y) = Len(h) + 1 /\ y[Len(h) + 1] = v
      /\ \A i \in 1..Len(h) : y[i] = h[i]
  BY <1>1, <1>3
<1>5. Len(th) \in Nat /\ Len(q) \in Nat
  OBVIOUS
<1> HIDE DEF y
<1>6. ASSUME NEW i \in 1..Len(x) PROVE x[i] = y[i]
  <2>1. CASE i \in 1..Len(th)
    <3>1. i \in 1..Len(h)
      BY <1>3, <1>5, <2>1
    <3>2. QED BY <1>2, <1>3, <1>4, <2>1, <3>1
  <2>2. CASE i \notin 1..Len(th)
    <3> DEFINE j == i - Len(th)
    <3>1. j \in 1..Len(p) /\ Len(th) + j = i
      BY <1>1, <1>2, <1>5, <2>2
    <3> HIDE DEF j
    <3>2. x[i] = View(p[j])
      BY <1>2, <3>1
    <3>3. CASE j \in 1..Len(q)
      <4>1. i \in 1..Len(h)
        BY <1>3, <1>5, <3>1, <3>3
      <4>2. y[i] = h[i] /\ h[i] = View(q[j]) /\ p[j] = q[j]
        BY <1>1, <1>3, <1>4, <3>1, <3>3, <4>1
      <4>3. QED BY <3>2, <4>2
    <3>4. CASE j \notin 1..Len(q)
      <4>1. j = Len(q) + 1 /\ i = Len(h) + 1
        BY <1>1, <1>3, <1>5, <3>1, <3>4
      <4>2. QED BY <1>1, <1>4, <3>2, <4>1 DEF v
    <3>5. QED BY <3>3, <3>4
  <2>3. QED BY <2>1, <2>2
<1>7. Len(x) = Len(y)
  BY <1>1, <1>2, <1>3, <1>4, <1>5
<1>8. x = y
  BY <1>2, <1>4, <1>6, <1>7
<1>9. QED BY <1>8 DEF x, y, h, p, v

(* ... and none.                                                            *)
LEMMA HashNone ==
  ASSUME NEW th \in Seq(Views)
  PROVE  Hash(th, <<>>) = th
<1>1. <<>> \in Seq(Messages) /\ Len(<<>>) = 0
  OBVIOUS
<1>2. /\ Hash(th, <<>>) \in Seq(Views) /\ Len(Hash(th, <<>>)) = Len(th) + 0
      /\ \A i \in 1..Len(th) : Hash(th, <<>>)[i] = th[i]
  BY <1>1, HashType
<1> DEFINE x == Hash(th, <<>>)
<1> HIDE DEF x
<1>3. x \in Seq(Views) /\ Len(x) = Len(th) /\ \A i \in 1..Len(th) : x[i] = th[i]
  BY <1>2 DEF x
<1>4. x = th
  BY <1>3
<1>5. QED BY <1>4 DEF x

(* A record more under the same key.                                        *)
LEMMA WalkMore ==
  ASSUME NEW s, NEW g, NEW key \in Keys, NEW q \in Seq(Messages), NEW m \in Messages,
         NEW a, NEW b, NEW c, Walk(s, g, Records(key, q), a, b),
         Link(s, g, b, Rec(key.secret, key.seq + Len(q), m), c)
  PROVE  Walk(s, g, Records(key, Append(q, m)), a, c)
<1> DEFINE p == Append(q, m)
           x == Records(key, p)
           y == Records(key, q)
           r == Rec(key.secret, key.seq + Len(q), m)
           z == y \o <<r>>
<1>1. /\ p \in Seq(Messages) /\ Len(p) = Len(q) + 1 /\ p[Len(q) + 1] = m
      /\ \A i \in 1..Len(q) : p[i] = q[i]
  BY AppendType
<1>2. Len(q) \in Nat /\ key.seq \in Nat /\ key.secret \in Secrets
  BY DEF Keys
<1>3. r \in Recs /\ <<r>> \in Seq(Recs)
  <2>1. key.seq + Len(q) \in Int
    BY <1>2
  <2>2. r \in Recs
    BY <1>2, <2>1 DEF Rec, Recs
  <2>3. QED BY <2>2
<1>4. /\ x \in Seq(Recs) /\ Len(x) = Len(p)
      /\ \A i \in 1..Len(p) : x[i].secret = key.secret /\ x[i].seq = key.seq + i - 1 /\ x[i].msg = p[i]
  BY <1>1, RecordsType
<1>5. /\ y \in Seq(Recs) /\ Len(y) = Len(q)
      /\ \A i \in 1..Len(q) : y[i].secret = key.secret /\ y[i].seq = key.seq + i - 1 /\ y[i].msg = q[i]
  BY RecordsType
<1>6. r.secret = key.secret /\ r.seq = key.seq + Len(q) /\ r.msg = m
  BY DEF Rec
<1> HIDE DEF p, x, y, r
<1>7. /\ z \in Seq(Recs) /\ Len(z) = Len(q) + 1 /\ z[Len(q) + 1] = r
      /\ \A i \in 1..Len(q) : z[i] = y[i]
  BY <1>2, <1>3, <1>5
<1> HIDE DEF z
<1>8. \A e \in Recs, f \in Recs : e.secret = f.secret /\ e.seq = f.seq /\ e.msg = f.msg => e = f
  BY DEF Recs
<1>9. ASSUME NEW i \in 1..Len(x) PROVE x[i] = z[i]
  <2>1. x[i] \in Recs /\ z[i] \in Recs
    BY <1>1, <1>4, <1>7
  <2>2. CASE i \in 1..Len(q)
    <3>1. i \in 1..Len(p) /\ z[i] = y[i] /\ p[i] = q[i]
      BY <1>1, <1>4, <1>7, <2>2
    <3>2. x[i].secret = y[i].secret /\ x[i].seq = y[i].seq /\ x[i].msg = y[i].msg
      BY <1>4, <1>5, <2>2, <3>1
    <3>3. QED BY <1>8, <2>1, <3>1, <3>2
  <2>3. CASE i \notin 1..Len(q)
    <3>1. i = Len(q) + 1 /\ key.seq + i - 1 = key.seq + Len(q)
      BY <1>1, <1>2, <1>4, <2>3
    <3>2. QED BY <1>1, <1>4, <1>6, <1>7, <1>8, <2>1, <3>1
  <2>4. QED BY <2>2, <2>3
<1>10. x = z
  BY <1>1, <1>4, <1>7, <1>9
<1>11. Walk(s, g, <<r>>, b, c)
  BY WalkOne DEF r
<1>12. Walk(s, g, y \o <<r>>, a, c)
  BY <1>3, <1>5, <1>11, WalkOn DEF y
<1>13. QED BY <1>10, <1>12 DEF x, z, p

(* No records under a key.                                                  *)
LEMMA NoRecords == \A key : Records(key, <<>>) = <<>>
<1>1. Len(<<>>) = 0 /\ 1..0 = {}
  OBVIOUS
<1>2. QED BY <1>1 DEF Records

(* A certificate that is in order is followed by its signature.             *)
Signed(s, th) == Message("CV", {}, Signature(s, Append(th, View(Cert))), <<>>)

(* The two messages of an endpoint that has a good certificate.             *)
LEMMA CertificatesOk ==
  ASSUME NEW s \in Names, NEW th \in Seq(Views)
  PROVE  /\ Cert \in Messages /\ Signed(s, th) \in Messages
         /\ Certificates(s, "ok", th) = <<Cert>> \o <<Signed(s, th)>>
         /\ Certificates(s, "ok", th) = Append(<<Cert>>, Signed(s, th))
         /\ Hash(th, Certificates(s, "ok", th))
              = Append(Append(th, View(Cert)), View(Signed(s, th)))
<1> DEFINE cv == Signed(s, th)
           c  == Certificates(s, "ok", th)
<1>1. Cert \in Messages /\ View(Cert) \in Views
  <2>1. "CERT" \in Names /\ {"ok"} \in SUBSET Names
    BY NamesAre
  <2>2. Cert \in Messages
    BY <2>1, MessageTypes DEF Cert
  <2>3. QED BY <2>2, MessageTypes
<1>2. cv \in Messages
  <2>1. Append(th, View(Cert)) \in Seq(Views)
    BY <1>1, AppendType
  <2>2. Secret(s, <<>>, <<>>) \in Secrets
    BY DEF Secret, Secrets
  <2>3. Signature(s, Append(th, View(Cert))) \in Macs
    BY <2>1, <2>2, MessageTypes DEF Signature
  <2>4. <<>> \in Cookies /\ "CV" \in Names /\ {} \in SUBSET Names
    BY NamesAre DEF Cookies
  <2>5. QED BY <2>3, <2>4, MessageTypes DEF Signed
<1>3. c = <<Cert>> \o <<cv>>
  BY DEF Certificates, When, Cert, Signed
<1> HIDE DEF cv, c
<1>4. <<Cert>> \o <<cv>> = Append(<<Cert>>, cv)
  BY <1>1, <1>2
<1>5. <<Cert>> \in Seq(Messages)
  BY <1>1
<1>6. Hash(th, Append(<<Cert>>, cv)) = Append(Hash(th, <<Cert>>), View(cv))
  BY <1>2, <1>5, HashMore
<1>7. Hash(th, <<Cert>>) = Append(th, View(Cert))
  BY <1>1, HashOne
<1>8. QED BY <1>1, <1>2, <1>3, <1>4, <1>6, <1>7 DEF cv, c

(* The client's flight is the one of the configuration.                     *)
FinishedParts ==
    /\ FinTh1 = Through(cfg) /\ FinSched = Append(HsSched(cfg), "0")
    /\ FinEarly \in BOOLEAN /\ (FinEarly <=> GTakesEarly(cfg))
    /\ FinEarly => KeyOf(enc["client"], Ce(cfg)) /\ enc["client"].seq = earlySent
    /\ FinTh2 = EoedTh(cfg) /\ FinKey = Key(Hs(cfg, "c_hs_traffic"))
    /\ GAuth(cfg) => FinCerts = Append(<<Cert>>, CCv(cfg)) /\ ~GTakesEarly(cfg)
    /\ ~GAuth(cfg) => FinCerts = <<>>
    /\ Cert \in Messages /\ (GAuth(cfg) => CCv(cfg) \in Messages)
    /\ FinTh3 = CCvTh(cfg) /\ FinMsg = CFin(cfg)
    /\ using_early_data => pending_handshake_secret["client"] # NoSecret

(* The server's Finished is what the configuration says, and so is all that *)
(* the client answers it with.                                              *)
LEMMA FinishedTold ==
  ASSUME LocalInv, Honest, client_handle_finished
  PROVE  FinishedParts /\ \E d : ClientReading(d) /\ d = At("CLIENT_POST_HANDSHAKE", 0, 0)
<1>1. ClientTakes("FIN")
  BY ClientFinished
<1>2. /\ wire["server"] # <<>> /\ First("client").msg.type = "FIN"
      /\ state["client"] = "CLIENT_EXPECT_FINISHED"
  BY <1>1, ClientExpects
<1>3. PICK d : ClientReading(d)
  BY <1>2, ClientReads
<1>4. First("client").msg = Fin(cfg) /\ d = At("CLIENT_POST_HANDSHAKE", 0, 0)
  BY <1>2, <1>3 DEF ClientReading, ClientMoves
<1>5. ClientHonest /\ ClientEarly /\ state["client"] \in ClientFlight
  BY <1>2 DEF Honest, ClientFlight
<1>6. FinTh1 = Through(cfg)
  <2>1. transcript["client"] = CvTh(cfg)
    BY <1>2, <1>5 DEF ClientHonest, ClientTh
  <2>2. QED BY <1>4, <2>1 DEF FinTh1, Through
<1>7. FinSched = Append(HsSched(cfg), "0")
  BY <1>5 DEF ClientHonest, FinSched
<1>8. FlightEarly
  BY <1>5, FlightEarlyIs
<1>9. using_early_data = GTakesEarly(cfg)
  BY <1>2, EarlySettled DEF ClientFlight
<1>10. Hs(cfg, "c_hs_traffic") # NoSecret
  BY KindsAre DEF Kinds
<1>11. pending_handshake_secret["client"] # NoSecret <=> GEarly(cfg) /\ ~GRetries(cfg)
  BY <1>8, <1>10 DEF FlightEarly
<1>12. GTakesEarly(cfg) => GEarly(cfg) /\ ~GRetries(cfg)
  BY DEF GTakesEarly, GResumes
<1>13. /\ FinEarly <=> GTakesEarly(cfg)
       /\ using_early_data => pending_handshake_secret["client"] # NoSecret
  BY <1>9, <1>11, <1>12 DEF FinEarly
<1>14. FinEarly => KeyOf(enc["client"], Ce(cfg)) /\ enc["client"].seq = earlySent
  BY <1>8, <1>12, <1>13 DEF FlightEarly
<1>15. FinKey = Key(Hs(cfg, "c_hs_traffic"))
  <2>1. CASE GEarly(cfg) /\ ~GRetries(cfg)
    BY <1>8, <1>11, <2>1 DEF FinKey, FlightEarly, commission_handshake_secret
  <2>2. CASE ~(GEarly(cfg) /\ ~GRetries(cfg))
    BY <1>8, <1>11, <2>2 DEF FinKey, FlightEarly
  <2>3. QED BY <2>1, <2>2
<1>16. /\ FinTh1 \in Seq(Views) /\ FinTh2 \in Seq(Views) /\ FinEarly \in BOOLEAN
       /\ Plain("EOED", {}) \in Messages
  BY <1>2, ClientFinishedTypes DEF LocalInv
<1>17. FinTh2 = EoedTh(cfg)
  <2>1. CASE FinEarly
    <3>1. FinEoed = <<Eoed>> /\ Eoed \in Messages
      BY <1>16, <2>1, WhenType DEF FinEoed, Eoed
    <3>2. FinTh2 = Append(FinTh1, View(Eoed))
      BY <1>16, <3>1, HashOne DEF FinTh2
    <3>3. QED BY <1>6, <1>13, <2>1, <3>2 DEF EoedTh
  <2>2. CASE ~FinEarly
    <3>1. FinEoed = <<>>
      BY <1>16, <2>2, WhenType DEF FinEoed
    <3>2. FinTh2 = FinTh1
      BY <1>16, <3>1, HashNone DEF FinTh2
    <3>3. QED BY <1>6, <1>13, <2>2, <3>2 DEF EoedTh
  <2>3. QED BY <2>1, <2>2
<1>18. certificate_request <=> GAuth(cfg)
  BY <1>2, <1>5 DEF ClientHonest
<1>19. GAuth(cfg) => cfg.client_certificate = "ok" /\ ~GTakesEarly(cfg)
  BY DEF Honest, GCompatible, GTakesEarly, GResumes, GAuth
<1>20. /\ Cert \in Messages
       /\ Certificates("client", "ok", FinTh2) = Append(<<Cert>>, CCv(cfg))
       /\ CCv(cfg) \in Messages
       /\ Hash(FinTh2, Certificates("client", "ok", FinTh2))
            = Append(Append(EoedTh(cfg), View(Cert)), View(CCv(cfg)))
  <2>1. "client" \in Names
    BY NamesAre
  <2>2. Signed("client", FinTh2) = CCv(cfg)
    BY <1>17 DEF Signed, CCv, CCertTh
  <2>3. QED BY <1>16, <1>17, <2>1, <2>2, CertificatesOk
<1>21. /\ GAuth(cfg) => FinCerts = Append(<<Cert>>, CCv(cfg)) /\ FinTh3 = CCvTh(cfg)
       /\ ~GAuth(cfg) => FinCerts = <<>> /\ FinTh3 = CCvTh(cfg)
  <2>1. CASE GAuth(cfg)
    <3>1. FinCerts = Certificates("client", "ok", FinTh2)
      BY <1>18, <1>19, <2>1 DEF FinCerts
    <3>2. FinTh3 = CCvTh(cfg)
      BY <1>20, <2>1, <3>1 DEF FinTh3, CCvTh, CCertTh
    <3>3. QED BY <1>20, <2>1, <3>1, <3>2
  <2>2. CASE ~GAuth(cfg)
    <3>1. FinCerts = <<>>
      BY <1>18, <2>2 DEF FinCerts
    <3>2. FinTh3 = FinTh2
      BY <1>16, <3>1, HashNone DEF FinTh3
    <3>3. QED BY <1>17, <2>2, <3>1, <3>2 DEF CCvTh
  <2>3. QED BY <2>1, <2>2
<1>22. FinMsg = CFin(cfg)
  <2>1. FinKey.secret = Hs(cfg, "c_hs_traffic")
    BY <1>15 DEF Key
  <2>2. FinTh3 = CCvTh(cfg)
    BY <1>21
  <2>3. QED BY <2>1, <2>2 DEF FinMsg, CFin
<1>23. FinishedParts
  BY <1>6, <1>7, <1>13, <1>14, <1>15, <1>16, <1>17, <1>19, <1>20, <1>21, <1>22 DEF FinishedParts
<1>24. QED BY <1>3, <1>4, <1>23

(* It takes the server to the end of its handshake.                         *)
LEMMA FinishedWalks ==
  ASSUME LocalInv, Honest, FinishedParts, wire["server"] # <<>>,
         state["client"] = "CLIENT_EXPECT_FINISHED", FinRecords \in Seq(Recs)
  PROVE  /\ Walk("server", cfg, FinRecords, ServerGoal, At("SERVER_POST_HANDSHAKE", 0, earlySent))
         /\ \A i \in 1..Len(FinRecords) : FinRecords[i].msg.type # "DATA"
<1> DEFINE key == Key(Hs(cfg, "c_hs_traffic"))
           x == Records(enc["client"], FinEoed)
           y == CCS(send_change_cipher_spec)
           z == Records(FinKey, Append(FinCerts, FinMsg))
           a == PointAfterHello(cfg, earlySent)
           b == At(IF GAuth(cfg) THEN "SERVER_EXPECT_CERTIFICATE" ELSE "SERVER_EXPECT_FINISHED",
                   0, earlySent)
           e == At("SERVER_EXPECT_FINISHED", CFinAt(cfg), earlySent)
           c == At("SERVER_POST_HANDSHAKE", 0, earlySent)
<1>1. /\ FinEoed \in Seq(Messages) /\ FinCerts \in Seq(Messages) /\ FinMsg \in Messages
      /\ FinKey \in Keys /\ Append(FinCerts, FinMsg) \in Seq(Messages)
      /\ Plain("EOED", {}) \in Messages /\ FinEarly \in BOOLEAN
  BY ClientFinishedTypes DEF LocalInv
<1>2. enc["client"] \in Keys /\ send_change_cipher_spec \in BOOLEAN
  BY Sides DEF LocalInv, TypeInv
<1>3. x \in Seq(Recs) /\ z \in Seq(Recs) /\ y \in Seq(Recs)
  BY <1>1, <1>2, RecordsType, CCSType
<1>4. FinRecords = (x \o y) \o z
  BY DEF FinRecords
<1>5. ServerGoal = a
  BY DEF ServerGoal
<1>6. Walk("server", cfg, x, a, b)
  <2>1. CASE FinEarly
    <3> DEFINE r == Rec(Ce(cfg), earlySent, Eoed)
    <3>1. FinEoed = <<Eoed>> /\ Eoed \in Messages
      BY <1>1, <2>1, WhenType DEF FinEoed, Eoed
    <3>2. enc["client"].secret = Ce(cfg) /\ enc["client"].seq = earlySent
      BY <2>1 DEF FinishedParts, KeyOf
    <3>3. x = <<r>>
      BY <1>2, <3>1, <3>2, OneRecord DEF Rec
    <3>4. GTakesEarly(cfg) /\ ~GAuth(cfg)
      BY <2>1 DEF FinishedParts
    <3>5. a = At("SERVER_EXPECT_END_OF_EARLY_DATA", earlySent, earlySent)
          /\ b = At("SERVER_EXPECT_FINISHED", 0, earlySent)
      BY <3>4 DEF PointAfterHello
    <3>6. Link("server", cfg, a, r, b)
      BY <3>5 DEF Link, ServerLink, At
    <3> HIDE DEF x, a, r, b
    <3>7. QED BY <3>3, <3>6, WalkOne
  <2>2. CASE ~FinEarly
    <3>1. FinEoed = <<>>
      BY <1>1, <2>2, WhenType DEF FinEoed
    <3>2. x = <<>>
      BY <3>1, NoRecords
    <3>3. a = b
      BY <2>2 DEF FinishedParts, PointAfterHello
    <3> HIDE DEF x, a, b
    <3>4. QED BY <3>2, <3>3, WalkNone
  <2>3. QED BY <2>1, <2>2
<1>7. Walk("server", cfg, y, b, b)
  <2>1. b.st \notin PostHandshake
    BY DEF At, PostHandshake
  <2> HIDE DEF b
  <2>2. QED BY <1>2, <2>1, CcsWalk, Sides
<1>8. FinKey = key /\ FinMsg = CFin(cfg) /\ Cert \in Messages
  BY DEF FinishedParts
<1>9. key \in Keys /\ key.secret = Hs(cfg, "c_hs_traffic") /\ key.seq = 0
  BY <1>1, <1>8 DEF Key
<1> HIDE DEF key
<1>10. Walk("server", cfg, Records(key, FinCerts), b, e) /\ Len(FinCerts) = CFinAt(cfg)
  <2>1. CASE GAuth(cfg)
    <3> DEFINE r == Rec(Hs(cfg, "c_hs_traffic"), 0, Cert)
               t == Rec(Hs(cfg, "c_hs_traffic"), 1, CCv(cfg))
               v == At("SERVER_EXPECT_CERTIFICATE_VERIFY", 1, earlySent)
    <3>1. FinCerts = Append(<<Cert>>, CCv(cfg)) /\ Cert \in Messages /\ CCv(cfg) \in Messages
      BY <2>1 DEF FinishedParts
    <3>2. Records(key, <<Cert>>) = <<r>>
      BY <1>9, <3>1, OneRecord DEF Rec
    <3>3. Link("server", cfg, b, r, v)
      BY <2>1 DEF Link, ServerLink, At
    <3>4. Link("server", cfg, v, t, e)
      BY <2>1 DEF Link, ServerLink, At, CFinAt
    <3>5. Len(<<Cert>>) = 1 /\ <<Cert>> \in Seq(Messages) /\ 0 + 1 = 1
      BY <3>1
    <3>6. t = Rec(key.secret, key.seq + Len(<<Cert>>), CCv(cfg))
      BY <1>9, <3>5
    <3> HIDE DEF r, t, v, b, e
    <3>7. Walk("server", cfg, Records(key, <<Cert>>), b, v)
      BY <3>2, <3>3, WalkOne
    <3>8. Walk("server", cfg, Records(key, Append(<<Cert>>, CCv(cfg))), b, e)
      BY <1>9, <3>1, <3>4, <3>5, <3>6, <3>7, WalkMore
    <3>9. Len(FinCerts) = 2
      BY <3>1, <3>5, AppendType
    <3>10. QED BY <2>1, <3>1, <3>8, <3>9 DEF CFinAt
  <2>2. CASE ~GAuth(cfg)
    <3>1. FinCerts = <<>>
      BY <2>2 DEF FinishedParts
    <3>2. Records(key, FinCerts) = <<>>
      BY <3>1, NoRecords
    <3>3. b = e
      BY <2>2 DEF CFinAt
    <3>4. Len(FinCerts) = CFinAt(cfg)
      BY <2>2, <3>1 DEF CFinAt
    <3> HIDE DEF b, e
    <3>5. QED BY <3>2, <3>3, <3>4, WalkNone
  <2>3. QED BY <2>1, <2>2
<1>11. Walk("server", cfg, z, b, c)
  <2> DEFINE r == Rec(key.secret, key.seq + Len(FinCerts), FinMsg)
  <2>1. r = Rec(Hs(cfg, "c_hs_traffic"), CFinAt(cfg), CFin(cfg))
    <3>1. CFinAt(cfg) \in Nat
      BY DEF CFinAt
    <3>2. key.seq + Len(FinCerts) = CFinAt(cfg)
      BY <1>9, <1>10, <3>1
    <3>3. QED BY <1>8, <1>9, <3>2
  <2>2. Link("server", cfg, e, r, c)
    BY <2>1 DEF Link, ServerLink, At
  <2> HIDE DEF b, e, c
  <2>3. Walk("server", cfg, Records(key, Append(FinCerts, FinMsg)), b, c)
    BY <1>1, <1>9, <1>10, <2>2, WalkMore
  <2>4. QED BY <1>8, <2>3
<1> HIDE DEF a, b, c
<1>12. Walk("server", cfg, (x \o y) \o z, a, c)
  <2> HIDE DEF x, y, z
  <2>1. Walk("server", cfg, x \o y, a, b) /\ x \o y \in Seq(Recs)
    BY <1>3, <1>6, <1>7, WalkOn, Joined
  <2>2. QED BY <1>3, <1>11, <2>1, WalkOn
<1>13. \A r \in Elems(FinRecords) : r.msg.type # "DATA"
  <2>1. \A r \in Elems(x) : r.msg.type = "EOED"
    <3>1. \A m \in Elems(FinEoed) : m.type = "EOED"
      <4>1. CASE FinEarly
        <5>1. FinEoed = <<Eoed>> /\ Eoed \in Messages
          BY <1>1, <4>1, WhenType DEF FinEoed, Eoed
        <5>2. Elems(FinEoed) = {Eoed}
          BY <5>1, ElemsOf
        <5>3. QED BY <5>2, KindsAre DEF Kinds
      <4>2. CASE ~FinEarly
        BY <1>1, <4>2, WhenType, ElemsOf DEF FinEoed
      <4>3. QED BY <4>1, <4>2
    <3>2. QED BY <1>1, <1>2, <3>1, RecordsElems
  <2>2. \A r \in Elems(y) : r.msg.type = "CCS"
    BY <1>2, CCSElems DEF Plain, Message
  <2>3. \A r \in Elems(z) : r.msg.type \in {"CERT", "CV", "FIN"}
    <3>1. \A m \in Elems(FinCerts) : m.type \in {"CERT", "CV"}
      <4>1. CASE GAuth(cfg)
        <5>1. FinCerts = Append(<<Cert>>, CCv(cfg)) /\ Cert \in Messages /\ CCv(cfg) \in Messages
          BY <4>1 DEF FinishedParts
        <5>2. <<Cert>> \in Seq(Messages) /\ Elems(<<Cert>>) = {Cert}
          BY <5>1, ElemsOf
        <5>3. \A q \in Seq(Messages), m \in Messages : Elems(Append(q, m)) = Elems(q) \cup {m}
          BY ElemsOf
        <5>4. Elems(FinCerts) = {Cert} \cup {CCv(cfg)}
          BY <5>1, <5>2, <5>3
        <5>5. QED BY <5>4, KindsAre DEF Kinds
      <4>2. CASE ~GAuth(cfg)
        BY <4>2, ElemsOf DEF FinishedParts
      <4>3. QED BY <4>1, <4>2
    <3>2. Elems(Append(FinCerts, FinMsg)) = Elems(FinCerts) \cup {FinMsg}
      BY <1>1, ElemsOf
    <3>3. FinMsg.type = "FIN"
      BY <1>8, KindsAre DEF Kinds
    <3>4. \A m \in Elems(Append(FinCerts, FinMsg)) : m.type \in {"CERT", "CV", "FIN"}
      BY <3>1, <3>2, <3>3
    <3>5. QED BY <1>1, <3>4, RecordsElems
  <2> HIDE DEF x, y, z
  <2>4. x \o y \in Seq(Recs) /\ Elems(x \o y) = Elems(x) \cup Elems(y)
    BY <1>3, ElemsOf
  <2>5. Elems((x \o y) \o z) = Elems(x \o y) \cup Elems(z)
    <3>1. \A p \in Seq(Recs), q \in Seq(Recs) : Elems(p \o q) = Elems(p) \cup Elems(q)
      BY ElemsOf
    <3>2. QED BY <1>3, <2>4, <3>1
  <2>6. QED BY <1>4, <2>1, <2>2, <2>3, <2>4, <2>5
<1>14. \A i \in 1..Len(FinRecords) : FinRecords[i].msg.type # "DATA"
  BY <1>13 DEF Elems
<1>15. QED BY <1>4, <1>5, <1>12, <1>14 DEF c

(* The server's Finished, and the client's flight that answers it.          *)
LEMMA ClientFinishedHonest ==
  ASSUME LocalInv, AgreementInv, Honest, client_handle_finished
  PROVE  Honest'
<1>1. /\ ClientTakes("FIN") /\ Consume("client") /\ cfg' = cfg
      /\ dec' = [dec EXCEPT !["client"] = Key(Secret("s_ap_traffic", FinSched, FinTh1))]
      /\ using_early_data' = (using_early_data /\ pending_handshake_secret["client"] = NoSecret)
      /\ pending_handshake_secret' = [pending_handshake_secret EXCEPT !["client"] = NoSecret]
      /\ certificate_request' = FALSE
      /\ transcript' = [transcript EXCEPT !["client"] = Append(FinTh3, View(FinMsg))]
      /\ enc' = [enc EXCEPT !["client"] = Key(Secret("c_ap_traffic", FinSched, FinTh1))]
      /\ state' = [state EXCEPT !["client"] = "CLIENT_POST_HANDSHAKE"]
      /\ Return("client", "OK") /\ max_early_data_size' = max_early_data_size
      /\ pending_traffic_secret' = pending_traffic_secret
      /\ early_data_skipped_bytes' = early_data_skipped_bytes
      /\ earlySent' = earlySent /\ earlyGot' = earlyGot
  BY ClientFinished
<1>2. wire["server"] # <<>> /\ state["client"] = "CLIENT_EXPECT_FINISHED"
  BY <1>1, ClientExpects
<1>3. FinishedParts
  BY FinishedTold
<1>4. PICK d : ClientReading(d) /\ d = At("CLIENT_POST_HANDSHAKE", 0, 0)
  BY FinishedTold
<1>5. /\ Secret("s_ap_traffic", FinSched, FinTh1) = Ap(cfg, "s_ap_traffic")
      /\ Secret("c_ap_traffic", FinSched, FinTh1) = Ap(cfg, "c_ap_traffic")
  BY <1>3 DEF FinishedParts, Ap
<1>6. /\ state'["client"] = "CLIENT_POST_HANDSHAKE" /\ state'["server"] = state["server"]
      /\ enc'["client"] = Key(Ap(cfg, "c_ap_traffic")) /\ enc'["server"] = enc["server"]
      /\ dec'["client"] = Key(Ap(cfg, "s_ap_traffic")) /\ dec'["server"] = dec["server"]
      /\ transcript'["server"] = transcript["server"]
      /\ pending_handshake_secret'["server"] = pending_handshake_secret["server"]
  BY <1>1, <1>5, Sides DEF LocalInv, TypeInv
<1>7. /\ KeyOf(enc'["client"], Ap(cfg, "c_ap_traffic")) /\ enc'["client"].seq = 0
      /\ KeyOf(dec'["client"], Ap(cfg, "s_ap_traffic")) /\ dec'["client"].seq = 0
  BY <1>6 DEF Key, KeyOf
<1>8. ClientHonest'
  BY <1>1, <1>6, <1>7 DEF ClientHonest, ClientHellos, ClientFlight
<1>9. ClientEarly'
  <2>1. using_early_data' = FALSE
    BY <1>1, <1>3 DEF FinishedParts
  <2>2. /\ max_early_data_size <= cfg.early_limit /\ earlySent <= cfg.early_limit
        /\ earlySent > 0 => GEarly(cfg)
    BY DEF Honest, ClientEarly
  <2>3. QED BY ONLY <1>1, <1>6, <2>1, <2>2 DEF ClientEarly, ClientFlight, ClientHellos
<1>10. ClientPoint' = d
  BY <1>4, <1>6, <1>7 DEF ClientPoint, ClientPhase
<1>11. UNCHANGED ServerOwn
  BY <1>1, <1>6 DEF ServerOwn
<1>12. ServerPhase' = ServerPhase
  <2>1. state["server"] \notin ServerHellos
    BY <1>1, ServerAnswered
  <2>2. QED BY <1>1, <1>6, <2>1, PhaseKept
<1>13. Calm'
  <2>1. ret \in [Side -> Names] /\ Calm
    BY DEF LocalInv, TypeInv, Honest
  <2>2. QED BY <1>1, <2>1, Sides DEF Return, Calm
<1>14. /\ FinRecords \in Seq(Recs)
       /\ sendbuf' = [sendbuf EXCEPT !["client"] = sendbuf["client"] \o FinRecords]
  BY <1>2, ClientFinishedSends DEF LocalInv
<1>15. ServerGoal' = At("SERVER_POST_HANDSHAKE", 0, earlySent)
  BY <1>1, <1>6, <1>7 DEF ServerGoal
<1>16. /\ Walk("server", cfg, FinRecords, ServerGoal, ServerGoal')
       /\ \A i \in 1..Len(FinRecords) : FinRecords[i].msg.type # "DATA"
  BY <1>2, <1>3, <1>14, <1>15, FinishedWalks
<1>17. ClientMove(d, FinRecords)
  BY <1>1, <1>4, <1>6, <1>8, <1>9, <1>10, <1>11, <1>12, <1>13, <1>14, <1>16 DEF ClientMove
<1>18. QED BY <1>17, ClientAdvances

-----------------------------------------------------------------------------
(* The server's steps.                                                      *)

(* The server reads a record and writes nothing.                            *)
ServerRead(d) ==
    /\ ServerReading(d) /\ Consume("server") /\ sendbuf' = sendbuf
    /\ UNCHANGED ClientOwn
    /\ Calm' /\ ServerHonest' /\ ServerPoint' = d

(* Then nothing is added to what is on its way to the client.               *)
LEMMA ServerReadOn ==
  ASSUME LocalInv, Honest, NEW d, ServerRead(d), ClientGoal' = ClientGoal,
         ServerPhase' = "SERVER_EXPECT_CLIENT_HELLO" => ServerPhase = "SERVER_EXPECT_CLIENT_HELLO"
  PROVE  Honest'
<1>1. /\ sendbuf' = [sendbuf EXCEPT !["server"] = sendbuf["server"] \o <<>>]
      /\ <<>> \in Seq(Recs)
  BY NothingWritten, Sides DEF ServerRead
<1>2. /\ Stream("client")' = Tail(wire["client"]) \o sendbuf["client"]
      /\ Stream("server")' = Stream("server") \o <<>>
  BY <1>1, ServerWrites DEF ServerRead
<1>3. Walk("client", cfg, <<>>, ClientGoal, ClientGoal')
  BY WalkNone
<1>4. ServerMove(d, <<>>)
  BY <1>1, <1>2, <1>3 DEF ServerMove, ServerRead
<1>5. QED BY <1>4, ServerAdvances

(* A change_cipher_spec.  It is never the last record before a cookie's     *)
(* second ClientHello: the first one would still have to come.              *)
LEMMA ServerCCSHonest ==
  ASSUME LocalInv, Honest, HandleCCS("server")
  PROVE  Honest'
<1>1. /\ wire["client"] # <<>> /\ First("server").msg.type = "CCS" /\ Consume("server")
      /\ cfg' = cfg /\ state' = state /\ sched' = sched /\ transcript' = transcript
      /\ enc' = enc /\ dec' = dec /\ pending_handshake_secret' = pending_handshake_secret
      /\ is_psk_handshake' = is_psk_handshake /\ using_early_data' = using_early_data
      /\ certificate_request' = certificate_request /\ max_early_data_size' = max_early_data_size
      /\ pending_traffic_secret' = pending_traffic_secret
      /\ early_data_skipped_bytes' = early_data_skipped_bytes /\ ret' = ret /\ sendbuf' = sendbuf
      /\ earlySent' = earlySent /\ earlyGot' = earlyGot
  BY Sides DEF HandleCCS, Ready, schedule, keys, clientVars, serverVars, appVars
<1>2. UNCHANGED ClientOwn /\ UNCHANGED ServerOwn
  BY <1>1 DEF ClientOwn, ServerOwn
<1>3. PICK d : ServerReading(d)
  BY <1>1, ServerReads
<1>4. d = ServerPoint
  BY <1>1, <1>3 DEF ServerReading, ServerMoves
<1>5. ServerHonest' /\ (ServerPhase' = ServerPhase => ServerPoint' = ServerPoint /\ ClientGoal' = ClientGoal)
  BY <1>1, <1>2, ServerSame DEF Honest
<1>6. ServerPhase' = ServerPhase
  <2>1. CookieSent' <=> CookieSent
    <3>1. wire["client"] \in Seq(Recs) /\ sendbuf["client"] \in Seq(Recs)
      BY Sides DEF LocalInv, TypeInv
    <3>2. Stream("client") # <<>>
      BY <1>1, <3>1, FirstOfStream DEF Stream
    <3>3. Stream("client")' = Tail(wire["client"]) \o sendbuf["client"]
      BY <1>1, Sides DEF Stream, Consume, LocalInv, TypeInv
    <3>4. ASSUME Stream("client")' = <<>>, GRetries(cfg), state["client"] = "CLIENT_EXPECT_SERVER_HELLO",
                 state["server"] = "SERVER_EXPECT_CLIENT_HELLO", ~CookieSent
          PROVE  FALSE
      <4>1. Walk("server", cfg, <<>>, ServerPoint, ServerGoal)
        BY <1>3, <1>4, <3>3, <3>4 DEF ServerReading
      <4>2. ServerPoint = ServerGoal
        BY <4>1, WalkNone
      <4>3. ServerPoint.st = "SERVER_EXPECT_CLIENT_HELLO"
        BY <3>4 DEF ServerPoint, ServerPhase, At
      <4>4. ServerGoal.st = "SERVER_EXPECT_SECOND_CLIENT_HELLO"
        BY <3>4 DEF ServerGoal, At
      <4>5. QED BY <4>2, <4>3, <4>4
    <3>5. QED BY <1>1, <3>2, <3>4 DEF CookieSent
  <2>2. QED BY <1>1, <2>1 DEF ServerPhase
<1>7. Calm'
  BY <1>1 DEF Honest, Calm
<1>8. ServerRead(d)
  BY <1>1, <1>2, <1>3, <1>4, <1>5, <1>6, <1>7 DEF ServerRead
<1>9. QED BY <1>5, <1>6, <1>8, ServerReadOn

(* Early data that the server passes over.                                  *)
LEMMA SkipHonest ==
  ASSUME LocalInv, Honest, ServerSkipEarlyData
  PROVE  Honest'
<1>1. /\ early_data_skipped_bytes \in Nat /\ early_data_skipped_bytes + 1 <= SKIP_LIMIT
      /\ SKIP_LIMIT \in Nat
  BY FewSkipped, HandshakeBounds
<1>2. PICK d : ServerReading(d) /\ ServerSkips(First("server"), d)
  BY FewSkipped
<1>3. early_data_skipped_bytes' = early_data_skipped_bytes + 1
  BY DEF ServerSkipEarlyData
<1>4. ~(early_data_skipped_bytes' > SKIP_LIMIT)
  BY <1>1, <1>3
<1>5. /\ Consume("server") /\ cfg' = cfg /\ state' = state /\ sched' = sched /\ transcript' = transcript
      /\ enc' = enc /\ dec' = dec /\ pending_handshake_secret' = pending_handshake_secret
      /\ is_psk_handshake' = is_psk_handshake /\ using_early_data' = using_early_data
      /\ certificate_request' = certificate_request /\ max_early_data_size' = max_early_data_size
      /\ pending_traffic_secret' = pending_traffic_secret /\ ret' = ret /\ sendbuf' = sendbuf
      /\ earlySent' = earlySent /\ earlyGot' = earlyGot
  BY <1>4 DEF ServerSkipEarlyData, schedule, keys, clientVars, appVars
<1>6. UNCHANGED ClientOwn
  BY <1>5 DEF ClientOwn
<1>7. /\ early_data_skipped_bytes # UINT32_MAX /\ early_data_skipped_bytes' # UINT32_MAX
      /\ EarlyRead = early_data_skipped_bytes /\ EarlyRead' = EarlyRead + 1
  BY <1>1, <1>3 DEF UINT32_MAX, EarlyRead
<1>8. state["server"] # "SERVER_EXPECT_CLIENT_HELLO"
  BY <1>7 DEF Honest, ServerHonest
<1>9. ServerPhase' = ServerPhase /\ ServerPhase # "SERVER_EXPECT_CLIENT_HELLO"
  BY <1>5, <1>8 DEF ServerPhase, CookieSent
<1>10. ServerPoint' = d
  <2>1. d = At(ServerPhase, dec["server"].seq, EarlyRead + 1)
    BY <1>2 DEF ServerSkips
  <2>2. QED BY <1>5, <1>7, <1>9, <2>1 DEF ServerPoint
<1>11. ServerHonest'
  <2>1. ServerHonest
    BY DEF Honest
  <2>2. ServerTh' = ServerTh
    BY <1>5 DEF ServerTh
  <2>3. QED BY <1>5, <1>7, <2>1, <2>2 DEF ServerHonest
<1>12. ClientGoal' = ClientGoal
  BY <1>5, <1>9 DEF ClientGoal
<1>13. Calm'
  BY <1>5 DEF Honest, Calm
<1>14. ServerRead(d)
  BY <1>2, <1>5, <1>6, <1>9, <1>10, <1>11, <1>12, <1>13 DEF ServerRead
<1>15. QED BY <1>9, <1>12, <1>14, ServerReadOn

(* Past the hellos the server reads a record and writes nothing.            *)
ServerGoes(next, d) ==
    /\ ServerReading(d) /\ Consume("server") /\ sendbuf' = sendbuf
    /\ UNCHANGED ClientOwn /\ Calm' /\ ServerHonest'
    /\ state["server"] \notin ServerHellos /\ next \notin ServerHellos
    /\ state'["server"] = next /\ enc'["server"] = enc["server"]
    /\ d = At(next, dec'["server"].seq, EarlyRead')

(* Then nothing changes for the client.                                     *)
LEMMA ServerGoesHonest ==
  ASSUME LocalInv, Honest, NEW next, NEW d, ServerGoes(next, d)
  PROVE  Honest'
<1>1. /\ state["server"] \notin ServerHellos /\ state'["server"] \notin ServerHellos
      /\ enc'["server"] = enc["server"] /\ state'["server"] = next
      /\ d = At(next, dec'["server"].seq, EarlyRead')
  BY DEF ServerGoes
<1>2. ServerPhase = state["server"] /\ ServerPhase' = next
  BY <1>1 DEF ServerPhase, CookieSent, ServerHellos
<1>3. ClientGoal' = ClientGoal
  BY <1>1, <1>2 DEF ClientGoal, ServerHellos
<1>4. ServerPoint' = d
  BY <1>1, <1>2 DEF ServerPoint
<1>5. ServerRead(d)
  BY <1>4 DEF ServerGoes, ServerRead
<1>6. ServerPhase' # "SERVER_EXPECT_CLIENT_HELLO"
  BY <1>1, <1>2 DEF ServerHellos
<1>7. QED BY <1>3, <1>5, <1>6, ServerReadOn

(* What a call returns is no error.                                         *)
LEMMA CalmStays ==
  ASSUME LocalInv, Calm, NEW s \in Side, NEW r \in {"IN_PROGRESS", "OK"}, ret' = ret \/ Return(s, r)
  PROVE  Calm'
<1>1. ret \in [Side -> Names]
  BY DEF LocalInv, TypeInv
<1>2. QED BY <1>1 DEF Return, Calm

(* Data, after the handshake or before EndOfEarlyData.                      *)
LEMMA ServerDataHonest ==
  ASSUME LocalInv, Honest, ReceiveData("server")
  PROVE  Honest'
<1> DEFINE st == state["server"]
<1>1. /\ wire["client"] # <<>> /\ First("server").msg.type = "DATA" /\ Consume("server")
      /\ cfg' = cfg /\ state' = state /\ sched' = sched /\ transcript' = transcript
      /\ enc' = enc /\ dec' = [dec EXCEPT !["server"] = Advance(dec["server"], 1)]
      /\ pending_handshake_secret' = pending_handshake_secret
      /\ is_psk_handshake' = is_psk_handshake /\ using_early_data' = using_early_data
      /\ certificate_request' = certificate_request /\ max_early_data_size' = max_early_data_size
      /\ pending_traffic_secret' = pending_traffic_secret
      /\ early_data_skipped_bytes' = early_data_skipped_bytes /\ ret' = ret /\ sendbuf' = sendbuf
      /\ earlySent' = earlySent
  BY Sides DEF ReceiveData, Accepts, Ready, schedule, clientVars, serverVars
<1>2. st \in {"SERVER_POST_HANDSHAKE", "SERVER_EXPECT_END_OF_EARLY_DATA"}
  BY DEF ReceiveData, LocalInv, ServerInv, ServerHandshake, PostHandshake
<1>3. /\ st = "SERVER_POST_HANDSHAKE" => earlyGot' = earlyGot
      /\ st = "SERVER_EXPECT_END_OF_EARLY_DATA" => earlyGot' = earlyGot + 1
  BY DEF ReceiveData, PostHandshake
<1>4. /\ dec'["client"] = dec["client"] /\ dec'["server"] = Advance(dec["server"], 1)
      /\ dec["server"] \in Keys
  BY <1>1, Sides DEF LocalInv, TypeInv
<1>5. UNCHANGED ClientOwn
  BY <1>1, <1>4 DEF ClientOwn
<1>6. ServerHonest
  BY DEF Honest
<1>7. /\ dec["server"].aead = TRUE
      /\ dec'["server"].aead = TRUE /\ dec'["server"].secret = dec["server"].secret
      /\ dec'["server"].seq = dec["server"].seq + 1
  <2>1. dec["server"].aead = TRUE
    BY <1>2, <1>6 DEF ServerHonest, KeyOf
  <2>2. QED BY <1>4, <2>1, KeyTypes
<1>8. st = "SERVER_EXPECT_END_OF_EARLY_DATA" =>
        EarlyRead = earlyGot /\ EarlyRead' = earlyGot + 1
  BY <1>1, <1>3, <1>6 DEF ServerHonest, EarlyRead
<1>9. st = "SERVER_POST_HANDSHAKE" => EarlyRead' = EarlyRead
  BY <1>1, <1>3 DEF EarlyRead
<1>10. PICK d : ServerReading(d)
  BY <1>1, ServerReads
<1>11. ServerPhase = st
  BY <1>2 DEF ServerPhase, CookieSent
<1>12. /\ st = "SERVER_EXPECT_END_OF_EARLY_DATA" =>
            dec["server"].seq = EarlyRead /\ d = At(st, EarlyRead + 1, EarlyRead + 1)
       /\ st = "SERVER_POST_HANDSHAKE" => d = At(st, dec["server"].seq + 1, EarlyRead)
  <2>1. ServerPoint.st = st /\ ServerPoint.seq = dec["server"].seq /\ ServerPoint.early = EarlyRead
    BY <1>11 DEF ServerPoint, At
  <2>2. ServerMoves(cfg, ServerPoint, First("server"), d)
    BY <1>10 DEF ServerReading
  <2>3. QED BY <1>1, <2>1, <2>2 DEF ServerMoves
<1>13. d = At(st, dec'["server"].seq, EarlyRead')
  BY <1>2, <1>7, <1>8, <1>9, <1>12
<1>14. ServerHonest'
  <2>1. ServerTh' = ServerTh
    BY <1>1 DEF ServerTh
  <2>2. st \notin ServerHellos
    BY <1>2 DEF ServerHellos
  <2>3. QED BY <1>1, <1>6, <1>7, <2>1, <2>2 DEF ServerHonest, KeyOf, ServerHellos
<1>15. Calm'
  BY <1>1 DEF Honest, Calm
<1>16. st \notin ServerHellos
  BY <1>2 DEF ServerHellos
<1>17. ServerGoes(st, d)
  BY <1>1, <1>5, <1>10, <1>13, <1>14, <1>15, <1>16 DEF ServerGoes
<1>18. QED BY <1>17, ServerGoesHonest

(* What the server has of the client's flight.                              *)
FlightTells ==
    /\ GTakesEarly(cfg) => ~GAuth(cfg)
    /\ CCvTh(cfg) = IF GAuth(cfg) THEN Append(CCertTh(cfg), View(CCv(cfg))) ELSE EoedTh(cfg)
    /\ EoedTh(cfg) = IF GTakesEarly(cfg) THEN Append(Through(cfg), View(Eoed)) ELSE Through(cfg)
    /\ CCertTh(cfg) = Append(EoedTh(cfg), View(Cert))

(* The flight has EndOfEarlyData or a certificate, not both.                *)
LEMMA FlightTold == FlightTells
BY DEF FlightTells, GTakesEarly, GResumes, GAuth, CCvTh, EoedTh, CCertTh

(* EndOfEarlyData.                                                          *)
LEMMA EndOfEarlyDataHonest ==
  ASSUME LocalInv, Honest, server_handle_end_of_early_data
  PROVE  Honest'
<1> DEFINE next == "SERVER_EXPECT_FINISHED"
           key  == Key(Hs(cfg, "c_hs_traffic"))
           m    == First("server").msg
<1>1. /\ ServerTakes("EOED") /\ Consume("server") /\ cfg' = cfg
      /\ state' = [state EXCEPT !["server"] = next] /\ sched' = sched
      /\ transcript' = [transcript EXCEPT !["server"] = Append(transcript["server"], View(m))]
      /\ enc' = enc
      /\ dec' = [dec EXCEPT !["server"] = Key(pending_handshake_secret["server"])]
      /\ pending_handshake_secret' = [pending_handshake_secret EXCEPT !["server"] = NoSecret]
      /\ is_psk_handshake' = is_psk_handshake /\ using_early_data' = using_early_data
      /\ certificate_request' = certificate_request /\ max_early_data_size' = max_early_data_size
      /\ pending_traffic_secret' = pending_traffic_secret
      /\ early_data_skipped_bytes' = early_data_skipped_bytes /\ sendbuf' = sendbuf
      /\ earlySent' = earlySent /\ earlyGot' = earlyGot /\ Return("server", "IN_PROGRESS")
  BY DEF server_handle_end_of_early_data, commission_handshake_secret, clientVars, serverVars, appVars
<1>2. /\ wire["client"] # <<>> /\ m.type = "EOED"
      /\ state["server"] = "SERVER_EXPECT_END_OF_EARLY_DATA"
  BY <1>1, ServerExpects
<1>3. PICK d : ServerReading(d)
  BY <1>2, ServerReads
<1>4. m = Eoed /\ d = At(next, 0, EarlyRead)
  BY <1>2, <1>3 DEF ServerReading, ServerMoves, ServerPoint, At
<1>5. ServerHonest
  BY DEF Honest
<1>6. /\ GTakesEarly(cfg) /\ pending_handshake_secret["server"] = Hs(cfg, "c_hs_traffic")
      /\ transcript["server"] = Through(cfg) /\ pending_traffic_secret = Ap(cfg, "c_ap_traffic")
      /\ KeyOf(enc["server"], Ap(cfg, "s_ap_traffic")) /\ early_data_skipped_bytes = UINT32_MAX
  BY <1>2, <1>5 DEF ServerHonest, ServerTh, ServerHellos
<1>7. Append(transcript["server"], View(m)) = CCvTh(cfg)
  BY <1>4, <1>6, FlightTold DEF FlightTells
<1> HIDE DEF m
<1>8. /\ state'["client"] = state["client"] /\ state'["server"] = next
      /\ transcript'["client"] = transcript["client"] /\ transcript'["server"] = CCvTh(cfg)
      /\ dec'["client"] = dec["client"] /\ dec'["server"] = key
      /\ pending_handshake_secret'["client"] = pending_handshake_secret["client"]
  BY <1>1, <1>6, <1>7, Sides DEF LocalInv, TypeInv
<1>9. UNCHANGED ClientOwn
  BY <1>1, <1>8 DEF ClientOwn
<1>10. KeyOf(dec'["server"], Hs(cfg, "c_hs_traffic")) /\ dec'["server"].seq = 0
  BY <1>8 DEF Key, KeyOf
<1>11. ServerHonest'
  <2>1. transcript'["server"] = (ServerTh')[next]
    BY <1>1, <1>8 DEF ServerTh
  <2>2. QED BY <1>1, <1>6, <1>8, <1>10, <2>1 DEF ServerHonest, ServerHellos
<1>12. EarlyRead' = EarlyRead
  BY <1>1 DEF EarlyRead
<1>13. Calm'
  BY <1>1, CalmStays, Sides DEF Honest
<1>14. ServerGoes(next, d)
  BY <1>1, <1>2, <1>3, <1>4, <1>8, <1>9, <1>10, <1>11, <1>12, <1>13 DEF ServerGoes, ServerHellos
<1>15. QED BY <1>14, ServerGoesHonest

(* The client's Certificate and CertificateVerify.                          *)
LEMMA ServerCertificatesHonest ==
  ASSUME LocalInv, Honest, server_handle_certificate \/ server_handle_certificate_verify
  PROVE  Honest'
<1> DEFINE m  == First("server").msg
           st == state["server"]
<1>1. PICK type, next :
        /\ ServerTakes(type) /\ ServerStep(next)
        /\ \/ type = "CERT" /\ next = "SERVER_EXPECT_CERTIFICATE_VERIFY"
           \/ type = "CV" /\ next = "SERVER_EXPECT_FINISHED"
  BY DEF server_handle_certificate, server_handle_certificate_verify
<1>2. /\ Consume("server") /\ cfg' = cfg
      /\ state' = [state EXCEPT !["server"] = next] /\ sched' = sched
      /\ transcript' = [transcript EXCEPT !["server"] = Append(transcript["server"], View(m))]
      /\ enc' = enc
      /\ dec' = [dec EXCEPT !["server"] = Advance(dec["server"], 1)]
      /\ pending_handshake_secret' = pending_handshake_secret
      /\ is_psk_handshake' = is_psk_handshake /\ using_early_data' = using_early_data
      /\ certificate_request' = certificate_request /\ max_early_data_size' = max_early_data_size
      /\ pending_traffic_secret' = pending_traffic_secret
      /\ early_data_skipped_bytes' = early_data_skipped_bytes /\ sendbuf' = sendbuf
      /\ earlySent' = earlySent /\ earlyGot' = earlyGot /\ Return("server", "IN_PROGRESS")
  BY <1>1 DEF ServerStep, clientVars, serverVars, appVars
<1>3. /\ wire["client"] # <<>> /\ m.type = type
      /\ type = "CERT" => st = "SERVER_EXPECT_CERTIFICATE"
      /\ type = "CV" => st = "SERVER_EXPECT_CERTIFICATE_VERIFY"
  BY <1>1, ServerExpects
<1>4. PICK d : ServerReading(d)
  BY <1>3, ServerReads
<1>5. /\ type = "CERT" => m = Cert /\ dec["server"].seq = 0
      /\ type = "CV" => m = CCv(cfg) /\ dec["server"].seq = 1
      /\ type = "CERT" => d = At(next, 1, EarlyRead)
      /\ type = "CV" => d = At(next, 2, EarlyRead)
  BY <1>1, <1>3, <1>4 DEF ServerReading, ServerMoves, ServerPoint, At
<1>6. ServerHonest
  BY DEF Honest
<1>7. /\ GAuth(cfg) /\ KeyOf(dec["server"], Hs(cfg, "c_hs_traffic"))
      /\ pending_traffic_secret = Ap(cfg, "c_ap_traffic")
      /\ KeyOf(enc["server"], Ap(cfg, "s_ap_traffic"))
      /\ early_data_skipped_bytes # UINT32_MAX <=> GEarly(cfg) /\ ~GTakesEarly(cfg)
  BY <1>1, <1>3, <1>6 DEF ServerHonest, ServerHellos
<1>8. /\ type = "CERT" => transcript["server"] = Through(cfg)
      /\ type = "CV" => transcript["server"] = CCertTh(cfg)
  BY <1>3, <1>6 DEF ServerHonest, ServerTh
<1>9. /\ type = "CERT" => Append(transcript["server"], View(m)) = CCertTh(cfg)
      /\ type = "CV" => Append(transcript["server"], View(m)) = CCvTh(cfg)
  BY <1>5, <1>7, <1>8, FlightTold DEF FlightTells
<1> DEFINE th == Append(transcript["server"], View(m))
<1> HIDE DEF m, th
<1>10. /\ state'["client"] = state["client"] /\ state'["server"] = next
       /\ transcript'["client"] = transcript["client"] /\ transcript'["server"] = th
       /\ dec'["client"] = dec["client"] /\ dec'["server"] = Advance(dec["server"], 1)
       /\ dec["server"] \in Keys
  BY <1>2, Sides DEF LocalInv, TypeInv, th
<1>11. UNCHANGED ClientOwn
  BY <1>2, <1>10 DEF ClientOwn
<1>12. KeyOf(dec'["server"], Hs(cfg, "c_hs_traffic")) /\ dec'["server"].seq = dec["server"].seq + 1
  BY <1>7, <1>10, KeyTypes DEF KeyOf
<1>13. transcript'["server"] = (ServerTh')[next]
  <2>1. ServerTh' = ServerTh
    BY <1>2 DEF ServerTh
  <2>2. /\ ServerTh["SERVER_EXPECT_CERTIFICATE_VERIFY"] = CCertTh(cfg)
        /\ ServerTh["SERVER_EXPECT_FINISHED"] = CCvTh(cfg)
    BY DEF ServerTh
  <2>3. th = ServerTh[next]
    BY <1>1, <1>9, <2>2 DEF th
  <2>4. QED BY <1>10, <2>1, <2>3
<1>14. ServerHonest'
  BY <1>1, <1>2, <1>7, <1>10, <1>12, <1>13 DEF ServerHonest, ServerHellos
<1>15. EarlyRead' = EarlyRead
  BY <1>2 DEF EarlyRead
<1>16. Calm'
  BY <1>2, CalmStays, Sides DEF Honest
<1>17. d = At(next, dec'["server"].seq, EarlyRead')
  BY <1>1, <1>5, <1>12, <1>15
<1>18. ServerGoes(next, d)
  BY <1>1, <1>2, <1>3, <1>4, <1>10, <1>11, <1>14, <1>16, <1>17 DEF ServerGoes, ServerHellos
<1>19. QED BY <1>18, ServerGoesHonest

(* The client's Finished.                                                   *)
LEMMA ServerFinishedHonest ==
  ASSUME LocalInv, Honest, server_handle_finished
  PROVE  Honest'
<1> DEFINE next == "SERVER_POST_HANDSHAKE"
           key  == Key(Ap(cfg, "c_ap_traffic"))
           m    == First("server").msg
<1>1. /\ ServerTakes("FIN") /\ Consume("server") /\ cfg' = cfg
      /\ state' = [state EXCEPT !["server"] = next] /\ sched' = sched
      /\ transcript' = [transcript EXCEPT !["server"] = Append(transcript["server"], View(m))]
      /\ enc' = enc
      /\ dec' = [dec EXCEPT !["server"] = Key(pending_traffic_secret)]
      /\ pending_handshake_secret' = pending_handshake_secret
      /\ is_psk_handshake' = is_psk_handshake /\ using_early_data' = using_early_data
      /\ certificate_request' = certificate_request /\ max_early_data_size' = max_early_data_size
      /\ early_data_skipped_bytes' = early_data_skipped_bytes /\ sendbuf' = sendbuf
      /\ earlySent' = earlySent /\ earlyGot' = earlyGot /\ Return("server", "OK")
  BY DEF server_handle_finished, clientVars, appVars
<1>2. wire["client"] # <<>> /\ m.type = "FIN" /\ state["server"] = "SERVER_EXPECT_FINISHED"
  BY <1>1, ServerExpects
<1>3. PICK d : ServerReading(d)
  BY <1>2, ServerReads
<1>4. d = At(next, 0, EarlyRead)
  BY <1>2, <1>3 DEF ServerReading, ServerMoves, ServerPoint, At
<1>5. /\ pending_traffic_secret = Ap(cfg, "c_ap_traffic")
      /\ KeyOf(enc["server"], Ap(cfg, "s_ap_traffic"))
      /\ early_data_skipped_bytes # UINT32_MAX <=> GEarly(cfg) /\ ~GTakesEarly(cfg)
  BY <1>2 DEF Honest, ServerHonest, ServerHellos
<1> HIDE DEF m
<1>6. /\ state'["client"] = state["client"] /\ state'["server"] = next
      /\ transcript'["client"] = transcript["client"]
      /\ dec'["client"] = dec["client"] /\ dec'["server"] = key
  BY <1>1, <1>5, Sides DEF LocalInv, TypeInv
<1>7. UNCHANGED ClientOwn
  BY <1>1, <1>6 DEF ClientOwn
<1>8. KeyOf(dec'["server"], Ap(cfg, "c_ap_traffic")) /\ dec'["server"].seq = 0
  BY <1>6 DEF Key, KeyOf
<1>9. ServerHonest'
  BY <1>1, <1>5, <1>6, <1>8 DEF ServerHonest, ServerHellos
<1>10. EarlyRead' = EarlyRead
  BY <1>1 DEF EarlyRead
<1>11. Calm'
  BY <1>1, CalmStays, Sides DEF Honest
<1>12. ServerGoes(next, d)
  BY <1>1, <1>2, <1>3, <1>4, <1>6, <1>7, <1>8, <1>9, <1>10, <1>11 DEF ServerGoes, ServerHellos
<1>13. QED BY <1>12, ServerGoesHonest

(* The server asks for a second ClientHello when the configuration says so. *)
LEMMA RetryAsked ==
  ASSUME LocalInv, Honest, ServerTakes("CH"), NeedsRetry(First("server").msg)
  PROVE  LET ch == First("server").msg IN
         /\ FirstHello(ch) /\ GRetries(cfg) /\ Hello1Tells(cfg) /\ Hello2Tells(cfg)
         /\ wire["client"] # <<>> /\ ch \in Messages
         /\ \E d : ServerReading(d) /\ d = At("SERVER_EXPECT_SECOND_CLIENT_HELLO", 0, 0)
<1> DEFINE ch == First("server").msg
<1>1. /\ cfg \in Configs /\ GCompatible(cfg) /\ Hello1Tells(cfg) /\ wire["client"] # <<>>
      /\ GRetries(cfg) => Hello2Tells(cfg)
  BY HelloComes
<1>2. PICK d : /\ ServerReading(d)
               /\ \/ /\ FirstHello(ch)
                     /\ d = IF GRetries(cfg) THEN At("SERVER_EXPECT_SECOND_CLIENT_HELLO", 0, 0)
                            ELSE PointAfterHello(cfg, 0)
                  \/ SecondHello(ch) /\ d = PointAfterHello(cfg, EarlyRead)
  BY HelloComes
<1>3. ch \in Messages
  BY <1>1, ReadTypes, Sides DEF LocalInv
<1>4. NeedsRetry(ch)
  OBVIOUS
<1> HIDE DEF ch
<1>5. ~SecondHello(ch)
  <2>1. SecondHello(ch) => GRetries(cfg)
    BY DEF SecondHello
  <2>2. QED BY <1>1, <1>4, <2>1, SecondHelloTold DEF HelloTold
<1>6. FirstHello(ch) /\ GRetries(cfg)
  BY <1>1, <1>2, <1>4, <1>5, FirstHelloTold DEF HelloTold
<1>7. QED BY <1>1, <1>2, <1>3, <1>5, <1>6 DEF ch

(* The client goes along with the HelloRetryRequest.                        *)
LEMMA RetryWalks ==
  ASSUME GRetries(cfg), NEW cond \in BOOLEAN, NEW m \in Messages, m = Hrr(cfg)
  PROVE  /\ Records(NoKey, <<m>>) \o CCS(cond) \in Seq(Recs)
         /\ Walk("client", cfg, Records(NoKey, <<m>>) \o CCS(cond),
                 At("CLIENT_EXPECT_SERVER_HELLO", 0, 0), At("CLIENT_EXPECT_SECOND_SERVER_HELLO", 0, 0))
<1> DEFINE r == Rec(NoSecret, 0, m)
           a == At("CLIENT_EXPECT_SERVER_HELLO", 0, 0)
           b == At("CLIENT_EXPECT_SECOND_SERVER_HELLO", 0, 0)
           x == Records(NoKey, <<m>>)
           y == CCS(cond)
<1>1. x = <<r>> /\ x \in Seq(Recs)
  BY ClearRecord
<1>2. y \in Seq(Recs)
  BY CCSType
<1>3. Link("client", cfg, a, r, b)
  BY DEF Link, ClientLink, At
<1>4. b.st \notin PostHandshake
  BY DEF At, PostHandshake
<1> HIDE DEF a, b, r, x
<1>5. Walk("client", cfg, x, a, b)
  BY <1>1, <1>3, WalkOne
<1>6. Walk("client", cfg, y, b, b)
  BY <1>4, CcsWalk, Sides
<1> HIDE DEF y
<1>7. Walk("client", cfg, x \o y, a, b) /\ x \o y \in Seq(Recs)
  BY <1>1, <1>2, <1>5, <1>6, WalkOn, Joined
<1>8. QED BY <1>7 DEF a, b, x, y

(* The HelloRetryRequest the server remembers.                              *)
LEMMA ServerRetryHonest ==
  ASSUME LocalInv, Honest, ServerRetry
  PROVE  Honest'
<1> DEFINE ch   == First("server").msg
           next == "SERVER_EXPECT_SECOND_CLIENT_HELLO"
           cond == "legacy_session_id" \in ch.has
           m    == RetryMessage(ch)
           out  == Records(NoKey, <<m>>) \o CCS(cond)
           th   == Hash(ch1hash(Append(transcript["server"], View(ch))), <<m>>)
<1>1. /\ ServerTakes("CH") /\ NeedsRetry(ch) /\ Consume("server") /\ cfg' = cfg
      /\ ~cfg.retry_uses_cookie
      /\ transcript' = [transcript EXCEPT !["server"] = th]
      /\ sendbuf' = [sendbuf EXCEPT !["server"] = sendbuf["server"] \o Records(NoKey, <<m>>) \o CCS(cond)]
      /\ state' = [state EXCEPT !["server"] = next]
      /\ early_data_skipped_bytes' = (IF "early_data" \in ch.has THEN 0 ELSE early_data_skipped_bytes)
      /\ sched' = [sched EXCEPT !["server"] = Append(sched["server"], "0")]
      /\ enc' = enc /\ dec' = dec /\ pending_handshake_secret' = pending_handshake_secret
      /\ is_psk_handshake' = is_psk_handshake /\ using_early_data' = using_early_data
      /\ certificate_request' = certificate_request /\ max_early_data_size' = max_early_data_size
      /\ pending_traffic_secret' = pending_traffic_secret /\ ret' = ret
      /\ earlySent' = earlySent /\ earlyGot' = earlyGot
  BY DEF ServerRetry, RetryMessage, keys, clientVars, appVars
<1>2. /\ FirstHello(ch) /\ GRetries(cfg) /\ Hello1Tells(cfg) /\ Hello2Tells(cfg) /\ ch \in Messages
  BY <1>1, RetryAsked
<1>3. PICK d : ServerReading(d) /\ d = At(next, 0, 0)
  BY <1>1, RetryAsked
<1>4. ch = Hello1(cfg) /\ transcript["server"] = <<>> /\ EarlyRead = 0
      /\ state["server"] = "SERVER_EXPECT_CLIENT_HELLO" /\ ServerPhase = "SERVER_EXPECT_CLIENT_HELLO"
  BY <1>2 DEF FirstHello
<1>5. m = Hrr(cfg) /\ m \in Messages
  <2>1. GCookie(cfg) = <<>>
    BY <1>1 DEF GCookie
  <2>2. m = Hrr(cfg)
    BY <1>4, <2>1 DEF RetryMessage, Hrr, GShareless, Plain
  <2>3. QED BY <1>2, <2>2, RetryTypes
<1>6. th = HrrTh(cfg)
  <2>1. transcript["server"] = <<>> /\ \A x : Append(<<>>, x) = <<x>>
    BY <1>4
  <2>2. ch1hash(Append(transcript["server"], View(ch))) = ch1hash(<<View(Hello1(cfg))>>)
    BY <1>4, <2>1
  <2>3. ch1hash(<<View(Hello1(cfg))>>) \in Seq(Views)
    <3>1. View(Hello1(cfg)) \in Views
      BY HelloMessages DEF LocalInv
    <3>2. <<View(Hello1(cfg))>> \in Seq(Views) /\ <<View(Hello1(cfg))>> # <<>>
      BY <3>1
    <3>3. QED BY <3>2, Ch1HashType
  <2> HIDE DEF m
  <2>4. Hash(ch1hash(<<View(Hello1(cfg))>>), <<m>>) = Append(ch1hash(<<View(Hello1(cfg))>>), View(m))
    BY <1>5, <2>3, HashOne
  <2>5. QED BY <1>5, <2>2, <2>4 DEF HrrTh
<1>7. cond \in BOOLEAN
  OBVIOUS
<1> HIDE DEF m, cond, th
<1>8. /\ out \in Seq(Recs)
      /\ Walk("client", cfg, out, At("CLIENT_EXPECT_SERVER_HELLO", 0, 0),
              At("CLIENT_EXPECT_SECOND_SERVER_HELLO", 0, 0))
  BY <1>2, <1>5, <1>7, RetryWalks
<1>9. sendbuf' = [sendbuf EXCEPT !["server"] = sendbuf["server"] \o out]
  <2> DEFINE a == Records(NoKey, <<m>>)
             b == CCS(cond)
             e == sendbuf["server"]
  <2>1. a \in Seq(Recs) /\ b \in Seq(Recs) /\ e \in Seq(Recs)
    BY <1>5, <1>7, ClearRecord, CCSType, Sides DEF LocalInv, TypeInv
  <2>2. sendbuf' = [sendbuf EXCEPT !["server"] = (e \o a) \o b]
    BY <1>1
  <2> HIDE DEF a, b, e
  <2>3. (e \o a) \o b = e \o (a \o b)
    BY <2>1, Longer
  <2>4. QED BY <2>2, <2>3 DEF a, b, e
<1>10. /\ Stream("client")' = Tail(wire["client"]) \o sendbuf["client"]
       /\ Stream("server")' = Stream("server") \o out
  BY <1>1, <1>8, <1>9, ServerWrites
<1>11. /\ state'["client"] = state["client"] /\ state'["server"] = next
       /\ transcript'["client"] = transcript["client"] /\ transcript'["server"] = HrrTh(cfg)
       /\ sched'["client"] = sched["client"]
  BY <1>1, <1>6, Sides DEF LocalInv, TypeInv
<1>12. UNCHANGED ClientOwn
  BY <1>1, <1>11 DEF ClientOwn
<1>13. ServerHonest /\ Calm
  BY DEF Honest
<1>14. /\ dec["server"] = NoKey /\ enc["server"] = NoKey /\ earlyGot = 0
       /\ early_data_skipped_bytes = UINT32_MAX
  BY <1>4, <1>13 DEF ServerHonest, ServerHellos
<1>15. /\ early_data_skipped_bytes' # UINT32_MAX <=> GEarly(cfg)
       /\ EarlyRead' = 0
  <2>1. "early_data" \in ch.has <=> GEarly(cfg)
    BY <1>2, <1>4 DEF Hello1Tells
  <2>2. 0 # UINT32_MAX
    BY DEF UINT32_MAX
  <2>3. QED BY <1>1, <1>14, <2>1, <2>2 DEF EarlyRead
<1>16. ServerHonest'
  <2>1. transcript'["server"] = (ServerTh')[next]
    BY <1>1, <1>11 DEF ServerTh
  <2>2. ~GTakesEarly(cfg)
    BY <1>2 DEF GTakesEarly, GResumes
  <2>3. QED BY <1>1, <1>2, <1>11, <1>14, <1>15, <2>1, <2>2 DEF ServerHonest, ServerHellos
<1>17. ServerPhase' = next
  BY <1>11 DEF ServerPhase, CookieSent
<1>18. ServerPoint' = d
  <2>1. dec'["server"].seq = 0
    BY <1>1, <1>14, KindsAre DEF Kinds
  <2>2. QED BY <1>3, <1>15, <1>17, <2>1 DEF ServerPoint
<1>19. Walk("client", cfg, out, ClientGoal, ClientGoal')
  <2>1. /\ ClientGoal = At("CLIENT_EXPECT_SERVER_HELLO", 0, 0)
        /\ ClientGoal' = At("CLIENT_EXPECT_SECOND_SERVER_HELLO", 0, 0)
    BY <1>4, <1>17 DEF ClientGoal
  <2>2. QED BY <1>8, <2>1
<1>20. Calm'
  BY <1>1, <1>13 DEF Calm
<1>21. ServerMove(d, out)
  BY <1>3, <1>8, <1>10, <1>12, <1>16, <1>17, <1>18, <1>19, <1>20 DEF ServerMove
<1>22. QED BY <1>21, ServerAdvances

(* When the server waits for the first ClientHello, the client waits for    *)
(* the answer to it.                                                        *)
LEMMA ClientWaits ==
  ASSUME LocalInv, Honest, ServerPhase = "SERVER_EXPECT_CLIENT_HELLO", wire["client"] # <<>>
  PROVE  state["client"] = "CLIENT_EXPECT_SERVER_HELLO" /\ Stream("server") = <<>>
<1>1. Stream("server") = <<>>
  BY DEF Honest, Silent
<1>2. Walk("client", cfg, <<>>, ClientPoint, ClientGoal)
  BY <1>1, Sides DEF Honest, Point, Goal
<1>3. ClientPoint = ClientGoal
  BY <1>2, WalkNone
<1>4. ClientPhase = "CLIENT_EXPECT_SERVER_HELLO"
  BY <1>3 DEF ClientPoint, ClientGoal, At
<1>5. state["client"] # "CLIENT_HANDSHAKE_START"
  BY Sides DEF LocalInv, QuietInv
<1>6. QED BY <1>1, <1>4, <1>5 DEF ClientPhase

(* The HelloRetryRequest with a cookie.                                     *)
LEMMA ServerStatelessRetryHonest ==
  ASSUME LocalInv, Honest, ServerStatelessRetry
  PROVE  Honest'
<1> DEFINE ch   == First("server").msg
           next == "SERVER_EXPECT_SECOND_CLIENT_HELLO"
           cond == "legacy_session_id" \in ch.has
           m    == CookieMessage(ch)
           out  == Records(NoKey, <<m>>) \o CCS(cond)
<1>1. /\ ServerTakes("CH") /\ NeedsRetry(ch) /\ cfg' = cfg /\ cfg.retry_uses_cookie
      /\ wire' = [client |-> Tail(wire["client"]),
                  server |-> wire["server"] \o Records(NoKey, <<m>>) \o CCS(cond)]
      /\ state' = state /\ sched' = sched /\ transcript' = transcript
      /\ enc' = enc /\ dec' = dec /\ pending_handshake_secret' = pending_handshake_secret
      /\ is_psk_handshake' = is_psk_handshake /\ using_early_data' = using_early_data
      /\ certificate_request' = certificate_request /\ max_early_data_size' = max_early_data_size
      /\ pending_traffic_secret' = pending_traffic_secret
      /\ early_data_skipped_bytes' = early_data_skipped_bytes /\ ret' = ret /\ sendbuf' = sendbuf
      /\ earlySent' = earlySent /\ earlyGot' = earlyGot
  BY DEF ServerStatelessRetry, CookieMessage, schedule, keys, clientVars, serverVars, appVars
<1>2. /\ FirstHello(ch) /\ GRetries(cfg) /\ Hello1Tells(cfg) /\ Hello2Tells(cfg) /\ ch \in Messages
      /\ wire["client"] # <<>>
  BY <1>1, RetryAsked
<1>3. PICK d : ServerReading(d) /\ d = At(next, 0, 0)
  BY <1>1, RetryAsked
<1>4. ch = Hello1(cfg) /\ EarlyRead = 0
      /\ state["server"] = "SERVER_EXPECT_CLIENT_HELLO" /\ ServerPhase = "SERVER_EXPECT_CLIENT_HELLO"
  BY <1>2 DEF FirstHello
<1>5. m = Hrr(cfg) /\ m \in Messages
  <2>1. GCookie(cfg) = Cookie(ch, "group1")
    BY <1>1, <1>4 DEF GCookie
  <2>2. m = Hrr(cfg)
    BY <1>4, <2>1 DEF CookieMessage, Hrr, GShareless
  <2>3. QED BY <1>2, <2>2, CookieTypes
<1>6. cond \in BOOLEAN
  OBVIOUS
<1> HIDE DEF m, cond
<1>7. /\ out \in Seq(Recs)
      /\ Walk("client", cfg, out, At("CLIENT_EXPECT_SERVER_HELLO", 0, 0),
              At("CLIENT_EXPECT_SECOND_SERVER_HELLO", 0, 0))
  BY <1>2, <1>5, <1>6, RetryWalks
<1>8. state["client"] = "CLIENT_EXPECT_SERVER_HELLO" /\ Stream("server") = <<>>
  BY <1>2, <1>4, ClientWaits
<1>9. ServerHonest /\ Calm /\ Silent
  BY DEF Honest
<1>10. sendbuf["server"] = <<>> /\ dec["server"] = NoKey
  BY <1>4, <1>9 DEF ServerHonest, ServerHellos
<1>11. /\ Stream("client")' = Tail(wire["client"]) \o sendbuf["client"]
       /\ Stream("server")' = Stream("server") \o out
  <2> DEFINE a == Records(NoKey, <<m>>)
             b == CCS(cond)
             w == wire["server"]
             e == sendbuf["server"]
  <2>1. a \in Seq(Recs) /\ b \in Seq(Recs) /\ w \in Seq(Recs) /\ e = <<>>
    BY <1>5, <1>6, <1>10, ClearRecord, CCSType, Sides DEF LocalInv, TypeInv
  <2>2. /\ wire'["client"] = Tail(wire["client"]) /\ wire'["server"] = (w \o a) \o b
    BY <1>1
  <2>3. Stream("client")' = Tail(wire["client"]) \o sendbuf["client"]
    BY <1>1, <2>2 DEF Stream
  <2>4. Stream("server")' = ((w \o a) \o b) \o e /\ Stream("server") = w \o e
    BY <1>1, <2>2 DEF Stream
  <2> HIDE DEF a, b, w, e
  <2>5. (w \o a) \o b = w \o (a \o b) /\ (w \o a) \o b \in Seq(Recs)
    <3>1. a \in Seq(Recs) /\ b \in Seq(Recs) /\ w \in Seq(Recs)
      BY <2>1
    <3>2. QED BY ONLY <3>1, Longer
  <2>6. \A q \in Seq(Recs) : q \o e = q
    BY <2>1
  <2>7. Stream("server")' = w \o (a \o b) /\ Stream("server") = w
    BY <2>1, <2>4, <2>5, <2>6
  <2>8. QED BY <2>3, <2>7 DEF a, b
<1>12. UNCHANGED ClientOwn /\ UNCHANGED ServerOwn
  BY <1>1 DEF ClientOwn, ServerOwn
<1>13. ServerHonest' /\ EarlyRead' = 0
  BY <1>1, <1>4, <1>9, <1>12, ServerSame
<1>14. Stream("client")' = <<>>
  <2>1. /\ Stream("client")' \in Seq(Recs) /\ Len(Stream("client")') = Len(Stream("client")) - 1
        /\ Len(Stream("client")') \in Nat
    BY <1>2, <1>11, <1>12, RestCounted
  <2>2. Len(Stream("client")) <= 1
    BY <1>1, <1>2, <1>8, <1>9 DEF Silent
  <2>3. Len(Stream("client")) \in Int
    <3>1. wire["client"] \in Seq(Recs) /\ sendbuf["client"] \in Seq(Recs)
      BY Sides DEF LocalInv, TypeInv
    <3>2. QED BY <3>1, Joined DEF Stream
  <2>4. Len(Stream("client")') = 0
    BY <2>1, <2>2, <2>3
  <2>5. QED BY <2>1, <2>4
<1>15. ServerPhase' = next
  <2>1. CookieSent'
    BY <1>1, <1>2, <1>4, <1>8, <1>14 DEF CookieSent
  <2>2. QED BY <2>1 DEF ServerPhase
<1>16. ServerPoint' = d
  <2>1. dec'["server"].seq = 0
    BY <1>1, <1>10, KindsAre DEF Kinds
  <2>2. QED BY <1>3, <1>13, <1>15, <2>1 DEF ServerPoint
<1>17. Walk("client", cfg, out, ClientGoal, ClientGoal')
  <2>1. /\ ClientGoal = At("CLIENT_EXPECT_SERVER_HELLO", 0, 0)
        /\ ClientGoal' = At("CLIENT_EXPECT_SECOND_SERVER_HELLO", 0, 0)
    BY <1>4, <1>15 DEF ClientGoal
  <2>2. QED BY <1>7, <2>1
<1>18. Calm'
  BY <1>1, <1>9 DEF Calm
<1>19. ServerMove(d, out)
  BY <1>3, <1>7, <1>11, <1>12, <1>13, <1>15, <1>16, <1>17, <1>18 DEF ServerMove
<1>20. QED BY <1>19, ServerAdvances

(* The ClientHello that the server answers with its flight is the last one  *)
(* the client sends.                                                        *)
HelloGiven(ch, d) ==
    /\ ServerReading(d) /\ d = PointAfterHello(cfg, EarlyRead)
    /\ GCompatible(cfg) /\ ch = LastHello(cfg) /\ ch \in Messages
    /\ FindsPsk(ch) <=> GResumes(cfg)
    /\ AcceptsEarlyData(ch) <=> GTakesEarly(cfg)
    /\ GRetries(cfg) => SecondHello(ch) /\ "early_data" \notin ch.has /\ Hello2Tells(cfg)
    /\ ~GRetries(cfg) => FirstHello(ch) /\ ("early_data" \in ch.has <=> GEarly(cfg))

(* A ClientHello that needs no retry is the last one.                       *)
LEMMA LastHelloComes ==
  ASSUME LocalInv, Honest, ServerTakes("CH"), ~NeedsRetry(First("server").msg)
  PROVE  \E d : HelloGiven(First("server").msg, d)
<1> DEFINE ch == First("server").msg
<1>1. /\ cfg \in Configs /\ GCompatible(cfg) /\ Hello1Tells(cfg) /\ wire["client"] # <<>>
      /\ GRetries(cfg) => Hello2Tells(cfg)
  BY HelloComes
<1>2. PICK d : /\ ServerReading(d)
               /\ \/ /\ FirstHello(ch)
                     /\ d = IF GRetries(cfg) THEN At("SERVER_EXPECT_SECOND_CLIENT_HELLO", 0, 0)
                            ELSE PointAfterHello(cfg, 0)
                  \/ SecondHello(ch) /\ d = PointAfterHello(cfg, EarlyRead)
  BY HelloComes
<1>3. ch \in Messages /\ ~NeedsRetry(ch)
  BY <1>1, ReadTypes, Sides DEF LocalInv
<1> HIDE DEF ch
<1>4. CASE FirstHello(ch)
  <2>1. HelloTold(ch) /\ ch = Hello1(cfg) /\ EarlyRead = 0 /\ ~SecondHello(ch)
    BY <1>1, <1>4, FirstHelloTold DEF FirstHello, SecondHello
  <2>2. ~GRetries(cfg) /\ (FindsPsk(ch) <=> GResumes(cfg)) /\ (AcceptsEarlyData(ch) <=> GTakesEarly(cfg))
    BY <1>3, <1>4, <2>1 DEF HelloTold
  <2>3. d = PointAfterHello(cfg, EarlyRead)
    BY <1>2, <2>1, <2>2
  <2>4. "early_data" \in ch.has <=> GEarly(cfg)
    BY <1>1, <2>1 DEF Hello1Tells
  <2>5. ch = LastHello(cfg)
    BY <2>1, <2>2 DEF LastHello
  <2>6. HelloGiven(ch, d)
    BY <1>1, <1>2, <1>3, <1>4, <2>2, <2>3, <2>4, <2>5 DEF HelloGiven
  <2>7. QED BY <2>6 DEF ch
<1>5. CASE SecondHello(ch)
  <2>1. ch = Hello2(cfg) /\ GRetries(cfg) /\ ~FirstHello(ch)
    BY <1>5 DEF FirstHello, SecondHello
  <2>2. HelloTold(ch)
    BY <1>1, <1>5, <2>1, SecondHelloTold
  <2>3. (FindsPsk(ch) <=> GResumes(cfg)) /\ (AcceptsEarlyData(ch) <=> GTakesEarly(cfg))
    BY <1>3, <2>2 DEF HelloTold
  <2>4. "early_data" \notin ch.has
    BY <1>1, <2>1 DEF Hello2Tells
  <2>5. ch = LastHello(cfg)
    BY <2>1 DEF LastHello
  <2>6. HelloGiven(ch, d)
    BY <1>1, <1>2, <1>3, <1>5, <2>1, <2>3, <2>4, <2>5 DEF HelloGiven
  <2>7. QED BY <2>6 DEF ch
<1>6. QED BY <1>2, <1>4, <1>5

(* The key schedule and the running hash it starts from.                    *)
LEMMA HelloStarts ==
  ASSUME LocalInv, AgreementInv, NEW ch, NEW d, HelloGiven(ch, d)
  PROVE  /\ Base(ch) = <<IF GResumes(cfg) THEN "psk" ELSE "0">>
         /\ Before(ch) = FirstTh(cfg)
<1>1. CASE ~GRetries(cfg)
  <2>1. ~Stateful /\ ~CookieFlight(ch) /\ transcript["server"] = <<>> /\ (FindsPsk(ch) <=> GResumes(cfg))
    BY <1>1 DEF HelloGiven, FirstHello
  <2>2. QED BY <1>1, <2>1 DEF Base, Before, FirstTh
<1>2. CASE GRetries(cfg)
  <2>1. /\ SecondHello(ch) /\ Hello2Tells(cfg) /\ (FindsPsk(ch) <=> GResumes(cfg)) /\ ~GResumes(cfg)
        /\ ch = Hello2(cfg)
    BY <1>2 DEF HelloGiven, GResumes, LastHello
  <2>2. CASE Stateful
    <3>1. transcript["server"] = HrrTh(cfg) /\ ~CookieFlight(ch)
      BY <2>1, <2>2 DEF SecondHello, CookieFlight
    <3>2. sched["server"] = <<"0">>
      BY <2>2 DEF Stateful, AgreementInv, ServerHashInv
    <3>3. QED BY <1>2, <2>1, <2>2, <3>1, <3>2 DEF Base, Before, FirstTh
  <2>3. CASE ~Stateful
    <3>1. CookieFlight(ch) /\ cfg.retry_uses_cookie
      BY <2>1, <2>3 DEF SecondHello
    <3>2. ch.cookie = Cookie(Hello1(cfg), "group1") /\ GCookie(cfg) # <<>> /\ ch.cookie = GCookie(cfg)
      BY <2>1, <3>1 DEF Hello2Tells, GCookie
    <3>3. /\ ch.cookie[1] = ch1hash(<<View(Hello1(cfg))>>)
          /\ ch.cookie[4] = GShareless(cfg)
      BY <3>2 DEF Cookie, GShareless
    <3> DEFINE hrr == Plain("HRR", RetryExtensions(ch.cookie[4], ch.cookie))
               th == ch1hash(<<View(Hello1(cfg))>>)
    <3>4. hrr.has = Hrr(cfg).has /\ hrr.type = Hrr(cfg).type
      BY <3>2, <3>3 DEF Hrr, Plain, Message
    <3>5. View(hrr) = View(Hrr(cfg))
      BY <3>4 DEF View
    <3>6. hrr \in Messages
      <4>1. "HRR" \in Names /\ RetryExtensions(ch.cookie[4], ch.cookie) \in SUBSET Names
        BY NamesAre DEF RetryExtensions, If
      <4>2. QED BY <4>1, MessageTypes
    <3>7. th \in Seq(Views)
      <4>1. View(Hello1(cfg)) \in Views
        BY HelloMessages DEF LocalInv
      <4>2. <<View(Hello1(cfg))>> \in Seq(Views) /\ <<View(Hello1(cfg))>> # <<>>
        BY <4>1
      <4>3. QED BY <4>2, Ch1HashType
    <3>8. Before(ch) = Hash(th, <<hrr>>)
      BY <3>1, <3>3 DEF Before
    <3> HIDE DEF hrr, th
    <3>9. Before(ch) = Append(th, View(Hrr(cfg)))
      BY <3>5, <3>6, <3>7, <3>8, HashOne
    <3>10. Before(ch) = FirstTh(cfg)
      BY <1>2, <3>9 DEF th, FirstTh, HrrTh
    <3>11. QED BY <2>1, <2>3, <3>10 DEF Base
  <2>4. QED BY <2>2, <2>3
<1>3. QED BY <1>1, <1>2

(* The server's flight is the one the configuration determines.             *)
HelloParts(ch) ==
    /\ ServerHello(ch) = Sh(cfg) /\ Sh(cfg) \in Messages
    /\ \A label : HandshakeSecret(ch, label) = Hs(cfg, label)
    /\ Ee(cfg) \in Messages /\ Cr \in Messages /\ Cert \in Messages
    /\ ~GResumes(cfg) /\ GAuth(cfg) => Extensions(ch) = Append(<<Ee(cfg)>>, Cr)
    /\ GResumes(cfg) \/ ~GAuth(cfg) => Extensions(ch) = <<Ee(cfg)>>
    /\ GResumes(cfg) => HelloCerts(ch) = <<>>
    /\ ~GResumes(cfg) => Cv(cfg) \in Messages /\ HelloCerts(ch) = Append(<<Cert>>, Cv(cfg))
    /\ HelloFin(ch) = Fin(cfg) /\ HelloTh3(ch) = Through(cfg)
    /\ HelloSched(ch) = Append(HsSched(cfg), "0")
    /\ GTakesEarly(cfg) => Secret("c_e_traffic", Base(ch), Hash(Before(ch), <<ch>>)) = Ce(cfg)

(* What the server computes from the last ClientHello.                      *)
LEMMA HelloPartsAre ==
  ASSUME LocalInv, AgreementInv, state["server"] \in ServerHellos, NEW ch, NEW d, HelloGiven(ch, d)
  PROVE  HelloParts(ch)
<1>1. /\ GCompatible(cfg) /\ ch = LastHello(cfg) /\ ch \in Messages
      /\ FindsPsk(ch) <=> GResumes(cfg)
      /\ AcceptsEarlyData(ch) <=> GTakesEarly(cfg)
  BY DEF HelloGiven
<1>2. /\ Base(ch) = <<IF GResumes(cfg) THEN "psk" ELSE "0">>
      /\ Before(ch) = FirstTh(cfg)
  BY HelloStarts
<1>3. /\ Before(ch) \in Seq(Views) /\ ServerHello(ch) \in Messages /\ AfterHello(ch) \in Seq(Views)
      /\ HelloTh1(ch) \in Seq(Views) /\ HelloTh2(ch) \in Seq(Views) /\ HelloFin(ch) \in Messages
  BY <1>1, HelloTypes DEF LocalInv
<1>4. Dhe(ch) <=> GDhe(cfg)
  BY <1>1 DEF Dhe, GDhe
<1>5. ServerHello(ch) = Sh(cfg) /\ Sh(cfg) \in Messages
  <2>1. If(FindsPsk(ch), "psk") = If(GResumes(cfg), "psk") /\ If(Dhe(ch), "key_share") = If(GDhe(cfg), "key_share")
    BY <1>1, <1>4 DEF If
  <2>2. ServerHello(ch) = Sh(cfg)
    BY <2>1 DEF ServerHello, Sh
  <2>3. QED BY <1>3, <2>2
<1>6. AfterHello(ch) = HelloTh(cfg)
  <2> DEFINE sh == ServerHello(ch)
             q == <<ch>>
  <2>1. sh \in Messages /\ q \in Seq(Messages) /\ <<ch, sh>> = Append(q, sh)
    BY <1>1, <1>3
  <2>2. AfterHello(ch) = Hash(Before(ch), Append(q, sh)) /\ Hash(Before(ch), q) = Append(Before(ch), View(ch))
    BY <1>1, <1>3, <2>1, HashOne DEF AfterHello
  <2>3. sh = Sh(cfg)
    BY <1>5
  <2> HIDE DEF sh, q
  <2>4. AfterHello(ch) = Append(Append(Before(ch), View(ch)), View(sh))
    BY <1>3, <2>1, <2>2, HashMore
  <2>5. QED BY <1>1, <1>2, <2>3, <2>4 DEF HelloTh
<1>7. HandshakeSched(ch) = HsSched(cfg)
  <2> DEFINE x == IF GResumes(cfg) THEN "psk" ELSE "0"
             y == IF GDhe(cfg) THEN "dhe" ELSE "0"
  <2>1. Base(ch) = <<x>> /\ HandshakeSched(ch) = Append(Base(ch), y) /\ HsSched(cfg) = <<x, y>>
    BY <1>2, <1>4 DEF HandshakeSched, HsSched
  <2>2. x \in Names /\ y \in Names
    BY NamesAre
  <2> HIDE DEF x, y
  <2>3. Append(<<x>>, y) = <<x, y>>
    BY <2>2, AppendTwo
  <2>4. QED BY <2>1, <2>3
<1>8. ASSUME NEW label PROVE HandshakeSecret(ch, label) = Hs(cfg, label)
  BY <1>6, <1>7 DEF HandshakeSecret, Hs
<1>9. Ee(cfg) \in Messages /\ Cr \in Messages /\ Plain("EE", If(AcceptsEarlyData(ch), "early_data")) = Ee(cfg)
  <2>1. If(AcceptsEarlyData(ch), "early_data") = If(GTakesEarly(cfg), "early_data")
    BY <1>1 DEF If
  <2>2. Plain("EE", If(AcceptsEarlyData(ch), "early_data")) = Ee(cfg)
    BY <2>1 DEF Ee
  <2>3. Plain("EE", If(AcceptsEarlyData(ch), "early_data")) \in Messages /\ Plain("CR", {}) \in Messages
    BY <1>1, ExtensionsType DEF LocalInv
  <2>4. QED BY <2>2, <2>3 DEF Cr
<1>10. Extensions(ch) = <<Ee(cfg)>> \o When(~FindsPsk(ch) /\ cfg.require_client_authentication, Cr)
  BY <1>9 DEF Extensions, Cr
<1>11. /\ ~GResumes(cfg) /\ GAuth(cfg) => Extensions(ch) = Append(<<Ee(cfg)>>, Cr)
       /\ GResumes(cfg) \/ ~GAuth(cfg) => Extensions(ch) = <<Ee(cfg)>>
  <2> DEFINE x == Ee(cfg)
             y == Cr
  <2>1. x \in Messages /\ y \in Messages
    BY <1>9
  <2>2. ~GResumes(cfg) /\ GAuth(cfg) => Extensions(ch) = <<x>> \o <<y>>
    BY <1>1, <1>10 DEF When, GAuth
  <2>3. GResumes(cfg) \/ ~GAuth(cfg) => Extensions(ch) = <<x>> \o <<>>
    BY <1>1, <1>10 DEF When, GAuth
  <2> HIDE DEF x, y
  <2>4. <<x>> \o <<y>> = Append(<<x>>, y) /\ <<x>> \o <<>> = <<x>>
    BY <2>1
  <2>5. QED BY <2>2, <2>3, <2>4 DEF x, y
<1>12. HelloTh1(ch) = CrTh(cfg)
  <2>1. <<Ee(cfg)>> \in Seq(Messages) /\ Hash(AfterHello(ch), <<Ee(cfg)>>) = EeTh(cfg)
    BY <1>3, <1>6, <1>9, HashOne DEF EeTh
  <2>2. CASE ~GResumes(cfg) /\ GAuth(cfg)
    <3>1. HelloTh1(ch) = Hash(AfterHello(ch), Append(<<Ee(cfg)>>, Cr))
      BY <1>11, <2>2 DEF HelloTh1
    <3>2. Hash(AfterHello(ch), Append(<<Ee(cfg)>>, Cr)) = Append(Hash(AfterHello(ch), <<Ee(cfg)>>), View(Cr))
      BY <1>3, <1>9, <2>1, HashMore
    <3>3. QED BY <2>1, <2>2, <3>1, <3>2 DEF CrTh
  <2>3. CASE GResumes(cfg) \/ ~GAuth(cfg)
    <3>1. HelloTh1(ch) = EeTh(cfg)
      BY <1>11, <2>1, <2>3 DEF HelloTh1
    <3>2. ~GAuth(cfg)
      BY <2>3 DEF GResumes, GAuth
    <3>3. QED BY <3>1, <3>2 DEF CrTh
  <2>4. QED BY <2>2, <2>3
<1>13. Cert \in Messages
  <2>1. "server" \in Names /\ <<>> \in Seq(Views)
    BY NamesAre
  <2>2. QED BY <1>3, <2>1, CertificatesOk
<1>14. GResumes(cfg) => HelloCerts(ch) = <<>> /\ HelloTh2(ch) = CvTh(cfg)
  <2>1. SUFFICES ASSUME GResumes(cfg) PROVE HelloCerts(ch) = <<>> /\ HelloTh2(ch) = CvTh(cfg)
    OBVIOUS
  <2>2. HelloCerts(ch) = <<>>
    BY <1>1, <2>1 DEF HelloCerts
  <2>3. HelloTh2(ch) = HelloTh1(ch)
    BY <1>3, <2>2, HashNone DEF HelloTh2
  <2>4. ~GAuth(cfg)
    BY <2>1 DEF GResumes, GAuth
  <2>5. QED BY <1>12, <2>1, <2>2, <2>3, <2>4 DEF CvTh, CrTh
<1>15. ~GResumes(cfg) => /\ Cv(cfg) \in Messages /\ HelloCerts(ch) = Append(<<Cert>>, Cv(cfg))
                         /\ HelloTh2(ch) = CvTh(cfg)
  <2>1. SUFFICES ASSUME ~GResumes(cfg)
                 PROVE  /\ Cv(cfg) \in Messages /\ HelloCerts(ch) = Append(<<Cert>>, Cv(cfg))
                        /\ HelloTh2(ch) = CvTh(cfg)
    OBVIOUS
  <2> DEFINE th == HelloTh1(ch)
             cv == Signed("server", th)
  <2>2. "server" \in Names /\ th \in Seq(Views)
    BY <1>3, NamesAre
  <2>3. HelloCerts(ch) = Certificates("server", "ok", th)
    BY <1>1, <2>1 DEF HelloCerts, GCompatible
  <2>4. /\ Certificates("server", "ok", th) = Append(<<Cert>>, cv) /\ cv \in Messages
        /\ Hash(th, Certificates("server", "ok", th)) = Append(Append(th, View(Cert)), View(cv))
    BY <2>2, CertificatesOk
  <2>5. cv = Cv(cfg)
    BY <1>12 DEF Cv, CertTh, Signed
  <2>6. HelloTh2(ch) = Append(Append(th, View(Cert)), View(cv))
    BY <2>3, <2>4 DEF HelloTh2
  <2>7. CvTh(cfg) = Append(Append(th, View(Cert)), View(cv))
    BY <1>12, <2>1, <2>5 DEF CvTh, CertTh
  <2> HIDE DEF th, cv
  <2>8. QED BY <2>3, <2>4, <2>5, <2>6, <2>7
<1>16. HelloTh2(ch) = CvTh(cfg)
  BY <1>14, <1>15
<1>17. HelloFin(ch) = Fin(cfg)
  <2>1. HelloKey(ch).secret = Hs(cfg, "s_hs_traffic")
    BY <1>8 DEF HelloKey, Key
  <2>2. QED BY <1>16, <2>1 DEF HelloFin, Fin
<1>18. HelloTh3(ch) = Through(cfg)
  <2>1. HelloTh3(ch) = Append(HelloTh2(ch), View(HelloFin(ch)))
    BY <1>3, HashOne DEF HelloTh3
  <2>2. QED BY <1>16, <1>17, <2>1 DEF Through
<1>19. HelloSched(ch) = Append(HsSched(cfg), "0")
  BY <1>7 DEF HelloSched
<1>20. GTakesEarly(cfg) => Secret("c_e_traffic", Base(ch), Hash(Before(ch), <<ch>>)) = Ce(cfg)
  <2>1. SUFFICES ASSUME GTakesEarly(cfg)
                 PROVE  Secret("c_e_traffic", Base(ch), Hash(Before(ch), <<ch>>)) = Ce(cfg)
    OBVIOUS
  <2>2. GResumes(cfg) /\ ~GRetries(cfg) /\ ~GAuth(cfg)
    BY <2>1 DEF GTakesEarly, GResumes, GAuth
  <2>3. GOffers(cfg) /\ GPsk(cfg) = "psk"
    BY <1>1, <2>2 DEF GResumes, GOffers, GPsk, GCompatible, GAuth
  <2>4. Before(ch) = <<>> /\ ch = Hello1(cfg)
    BY <1>1, <1>2, <2>2 DEF FirstTh, LastHello
  <2>5. Hash(Before(ch), <<ch>>) = Append(Before(ch), View(ch))
    BY <1>1, <1>3, HashOne
  <2>6. Append(Before(ch), View(ch)) = <<View(Hello1(cfg))>>
    BY <2>4
  <2>7. Base(ch) = <<"psk">>
    BY <1>2, <2>2
  <2>8. QED BY <2>3, <2>5, <2>6, <2>7 DEF Ce
<1>21. QED BY <1>5, <1>8, <1>9, <1>11, <1>13, <1>14, <1>15, <1>17, <1>18, <1>19, <1>20 DEF HelloParts

(* A sequence and the two messages after it.                                *)
LEMMA TwoMore ==
  ASSUME NEW q \in Seq(Messages), NEW x \in Messages, NEW y \in Messages
  PROVE  /\ Append(q, x) \in Seq(Messages) /\ Append(Append(q, x), y) \in Seq(Messages)
         /\ Len(Append(q, x)) = Len(q) + 1 /\ Len(Append(Append(q, x), y)) = Len(q) + 2
         /\ q \o Append(<<x>>, y) = Append(Append(q, x), y)
<1>1. Append(<<x>>, y) = <<x>> \o <<y>>
  BY JoinTwo
<1>2. q \o Append(<<x>>, y) = Append(Append(q, x), y)
  BY <1>1, JoinTwo
<1>3. Append(q, x) \in Seq(Messages) /\ Len(Append(q, x)) = Len(q) + 1 /\ Len(q) \in Nat
  BY AppendType
<1> DEFINE p == Append(q, x)
<1> HIDE DEF p
<1>4. Append(p, y) \in Seq(Messages) /\ Len(Append(p, y)) = Len(p) + 1
  BY <1>3, AppendType DEF p
<1>5. QED BY <1>2, <1>3, <1>4 DEF p

(* The client reads the server's flight to its end.                         *)
LEMMA FlightWalks ==
  ASSUME LocalInv, NEW ch, HelloParts(ch), HelloKey(ch) \in Keys, HelloFin(ch) \in Messages
  PROVE  Walk("client", cfg, Records(HelloKey(ch), HelloFlight(ch)),
              At("CLIENT_EXPECT_ENCRYPTED_EXTENSIONS", 0, 0), At("CLIENT_POST_HANDSHAKE", 0, 0))
<1> DEFINE key == HelloKey(ch)
           hs == Hs(cfg, "s_hs_traffic")
           ee == Ee(cfg)
           fin == Fin(cfg)
           ex == Extensions(ch)
           a == At("CLIENT_EXPECT_ENCRYPTED_EXTENSIONS", 0, 0)
           b == At(IF GResumes(cfg) THEN "CLIENT_EXPECT_FINISHED"
                   ELSE "CLIENT_EXPECT_CERTIFICATE_REQUEST_OR_CERTIFICATE", 1, 0)
           f == At("CLIENT_EXPECT_FINISHED", FinAt(cfg), 0)
           z == At("CLIENT_POST_HANDSHAKE", 0, 0)
<1>1. key \in Keys /\ key.secret = hs /\ key.seq = 0
  BY DEF HelloParts, HelloKey, Key
<1>2. ee \in Messages /\ fin \in Messages /\ Cr \in Messages /\ Cert \in Messages
  BY DEF HelloParts
<1>3. HelloFlight(ch) = ex \o HelloCerts(ch) \o <<fin>>
  BY DEF HelloParts, HelloFlight
<1>4. <<ee>> \in Seq(Messages) /\ Len(<<ee>>) = 1
  BY <1>2
<1>5. Walk("client", cfg, Records(key, <<ee>>), a, b)
  <2> DEFINE r == Rec(hs, 0, ee)
  <2>1. Records(key, <<ee>>) = <<r>>
    BY <1>1, <1>2, OneRecord DEF Rec
  <2>2. Link("client", cfg, a, r, b)
    BY DEF Link, ClientLink, At
  <2> HIDE DEF a, b, r
  <2>3. QED BY <2>1, <2>2, WalkOne
<1>6. ASSUME NEW q \in Seq(Messages), Len(q) = FinAt(cfg), Walk("client", cfg, Records(key, q), a, f)
      PROVE  Walk("client", cfg, Records(key, q \o <<fin>>), a, z)
  <2> DEFINE r == Rec(key.secret, key.seq + Len(q), fin)
  <2>1. r = Rec(hs, FinAt(cfg), fin)
    BY <1>1, <1>6
  <2>2. Link("client", cfg, f, r, z)
    BY <2>1 DEF Link, ClientLink, At
  <2>3. q \o <<fin>> = Append(q, fin)
    BY <1>2, JoinOne
  <2> HIDE DEF a, f, z, fin, key
  <2>4. Walk("client", cfg, Records(key, Append(q, fin)), a, z)
    BY <1>1, <1>2, <1>6, <2>2, WalkMore
  <2>5. QED BY <2>3, <2>4
<1>7. CASE GResumes(cfg)
  <2>1. ex = <<ee>> /\ HelloCerts(ch) = <<>>
    BY <1>7 DEF HelloParts
  <2>2. b = f /\ FinAt(cfg) = 1
    BY <1>7 DEF FinAt
  <2>3. HelloFlight(ch) = <<ee>> \o <<fin>>
    BY <1>3, <1>4, <2>1
  <2> HIDE DEF a, b, f, z, ee, fin, key
  <2>4. QED BY <1>4, <1>5, <1>6, <2>2, <2>3 DEF a, z, key
<1>8. CASE ~GResumes(cfg)
  <2> DEFINE c == At(IF GAuth(cfg) THEN "CLIENT_EXPECT_CERTIFICATE"
                     ELSE "CLIENT_EXPECT_CERTIFICATE_REQUEST_OR_CERTIFICATE", CertAt(cfg), 0)
             v == At("CLIENT_EXPECT_CERTIFICATE_VERIFY", CertAt(cfg) + 1, 0)
             cv == Cv(cfg)
  <2>1. ex \in Seq(Messages) /\ Len(ex) = CertAt(cfg) /\ Walk("client", cfg, Records(key, ex), a, c)
    <3>1. CASE GAuth(cfg)
      <4> DEFINE r == Rec(key.secret, key.seq + Len(<<ee>>), Cr)
      <4>1. ex = Append(<<ee>>, Cr)
        BY <1>8, <3>1 DEF HelloParts
      <4>2. r = Rec(hs, 1, Cr)
        BY <1>1, <1>4
      <4>3. Link("client", cfg, b, r, c)
        BY <1>8, <3>1, <4>2 DEF Link, ClientLink, At, CertAt
      <4>4. Append(<<ee>>, Cr) \in Seq(Messages) /\ Len(Append(<<ee>>, Cr)) = 2
        BY <1>2, <1>4, TwoMore
      <4>5. CertAt(cfg) = 2
        BY <3>1 DEF CertAt
      <4> HIDE DEF a, b, c, key, ee, ex
      <4>6. Walk("client", cfg, Records(key, Append(<<ee>>, Cr)), a, c)
        BY <1>1, <1>2, <1>4, <1>5, <4>3, WalkMore
      <4>7. QED BY <4>1, <4>4, <4>5, <4>6
    <3>2. CASE ~GAuth(cfg)
      <4>1. ex = <<ee>> /\ b = c /\ CertAt(cfg) = 1
        BY <1>8, <3>2 DEF HelloParts, CertAt
      <4> HIDE DEF a, b, c, key, ee, ex
      <4>2. QED BY <1>4, <1>5, <4>1
    <3>3. QED BY <3>1, <3>2
  <2>2. cv \in Messages /\ HelloCerts(ch) = Append(<<Cert>>, cv)
    BY <1>8 DEF HelloParts
  <2>3. CertAt(cfg) \in Nat /\ FinAt(cfg) = CertAt(cfg) + 2
    BY <1>8 DEF FinAt, CertAt
  <2> DEFINE r == Rec(key.secret, key.seq + Len(ex), Cert)
             q == Append(ex, Cert)
             t == Rec(key.secret, key.seq + Len(q), cv)
  <2>4. r = Rec(hs, CertAt(cfg), Cert)
    BY <1>1, <2>1, <2>3
  <2>5. Link("client", cfg, c, r, v)
    BY <1>8, <2>4 DEF Link, ClientLink, At
  <2>6. /\ q \in Seq(Messages) /\ Len(q) = CertAt(cfg) + 1
        /\ Append(q, cv) \in Seq(Messages) /\ Len(Append(q, cv)) = FinAt(cfg)
        /\ ex \o Append(<<Cert>>, cv) = Append(q, cv)
    <3> HIDE DEF ex, cv
    <3>1. QED BY <1>2, <2>1, <2>2, <2>3, TwoMore
  <2>7. t = Rec(hs, CertAt(cfg) + 1, cv)
    BY <1>1, <2>3, <2>6
  <2>8. Link("client", cfg, v, t, f)
    BY <1>8, <2>3, <2>7 DEF Link, ClientLink, At
  <2> HIDE DEF a, c, v, f, z, key, ex, cv, fin, ee
  <2>9. Walk("client", cfg, Records(key, q), a, v)
    BY <1>1, <1>2, <2>1, <2>5, WalkMore
  <2> HIDE DEF q
  <2>10. Walk("client", cfg, Records(key, Append(q, cv)), a, f)
    BY <1>1, <2>2, <2>6, <2>8, <2>9, WalkMore
  <2>11. Walk("client", cfg, Records(key, Append(q, cv) \o <<fin>>), a, z)
    BY <1>6, <2>6, <2>10
  <2>12. HelloFlight(ch) = Append(q, cv) \o <<fin>>
    BY <1>3, <2>2, <2>6
  <2>13. QED BY <2>11, <2>12 DEF a, z, key
<1>9. QED BY <1>7, <1>8

(* The server's answer takes the client to the end of its handshake.        *)
LEMMA HelloWalks ==
  ASSUME LocalInv, NEW ch \in Messages, HelloParts(ch), state["server"] \in ServerHellos
  PROVE  Walk("client", cfg, HelloRecords(ch),
              At(IF GRetries(cfg) THEN "CLIENT_EXPECT_SECOND_SERVER_HELLO"
                 ELSE "CLIENT_EXPECT_SERVER_HELLO", 0, 0),
              At("CLIENT_POST_HANDSHAKE", Len(HelloNst(ch)), 0))
<1> DEFINE x == Records(NoKey, <<ServerHello(ch)>>)
           y == HelloCCS(ch)
           z == Records(HelloKey(ch), HelloFlight(ch))
           t == Records(HelloApKey(ch), HelloNst(ch))
           a == At(IF GRetries(cfg) THEN "CLIENT_EXPECT_SECOND_SERVER_HELLO"
                   ELSE "CLIENT_EXPECT_SERVER_HELLO", 0, 0)
           b == At("CLIENT_EXPECT_ENCRYPTED_EXTENSIONS", 0, 0)
           c == At("CLIENT_POST_HANDSHAKE", 0, 0)
           e == At("CLIENT_POST_HANDSHAKE", Len(HelloNst(ch)), 0)
           cond == ~Stateful /\ "legacy_session_id" \in ch.has
<1>1. /\ HelloKey(ch) \in Keys /\ HelloApKey(ch) \in Keys /\ HelloFin(ch) \in Messages
      /\ HelloTicket(ch) \in Messages /\ HelloTicket(ch).type = "NST"
      /\ HelloCerts(ch) \in Seq(Messages) /\ HelloNst(ch) \in Seq(Messages)
      /\ Extensions(ch) \in Seq(Messages)
  BY HelloTypes, HelloSends, ExtensionsType DEF LocalInv
<1>2. HelloFlight(ch) \in Seq(Messages)
  <2> DEFINE p == Extensions(ch)
             q == HelloCerts(ch)
             r == <<HelloFin(ch)>>
  <2>1. p \in Seq(Messages) /\ q \in Seq(Messages) /\ r \in Seq(Messages) /\ HelloFlight(ch) = p \o q \o r
    BY <1>1 DEF HelloFlight
  <2> HIDE DEF p, q, r
  <2>2. QED BY <2>1
<1>3. cond \in BOOLEAN /\ y = CCS(cond)
  BY DEF HelloCCS, Stateful
<1>4. y \in Seq(Recs) /\ z \in Seq(Recs) /\ t \in Seq(Recs)
  BY <1>1, <1>2, <1>3, RecordsType, CCSType
<1>5. HelloRecords(ch) = ((x \o y) \o z) \o t
  BY DEF HelloRecords
<1>6. Walk("client", cfg, x, a, b) /\ x \in Seq(Recs)
  <2> DEFINE r == Rec(NoSecret, 0, Sh(cfg))
  <2>1. x = <<r>> /\ x \in Seq(Recs)
    BY ClearRecord DEF HelloParts
  <2>2. Link("client", cfg, a, r, b)
    BY DEF Link, ClientLink, At
  <2> HIDE DEF a, b, r, x
  <2>3. QED BY <2>1, <2>2, WalkOne
<1>7. Walk("client", cfg, y, b, b)
  <2>1. b.st \notin PostHandshake
    BY DEF At, PostHandshake
  <2> HIDE DEF b, cond, y
  <2>2. QED BY <1>3, <2>1, CcsWalk, Sides
<1>8. Walk("client", cfg, z, b, c)
  BY <1>1, FlightWalks
<1>9. Walk("client", cfg, t, c, e)
  <2>1. HelloApKey(ch).secret = Ap(cfg, "s_ap_traffic") /\ HelloApKey(ch).seq = 0
    BY DEF HelloParts, HelloApKey, Key, Ap
  <2>2. ("ke_modes" \in ch.has /\ cfg.ticket_lifetime) \in BOOLEAN
    BY ConfigTypes DEF Config, LocalInv
  <2>3. HelloNst(ch) = <<HelloTicket(ch)>> \/ HelloNst(ch) = <<>>
    BY <1>1, <2>2, WhenType DEF HelloNst
  <2>4. CASE HelloNst(ch) = <<HelloTicket(ch)>>
    <3> DEFINE r == Rec(Ap(cfg, "s_ap_traffic"), 0, HelloTicket(ch))
    <3>1. t = <<r>>
      BY <1>1, <2>1, <2>4, OneRecord DEF Rec
    <3>2. Len(HelloNst(ch)) = 1 /\ 0 + 1 = 1
      BY <2>4
    <3>3. Link("client", cfg, c, r, e)
      BY <1>1, <3>2 DEF Link, ClientLink, At, Rec
    <3> HIDE DEF c, e, r, t
    <3>4. QED BY <3>1, <3>3, WalkOne
  <2>5. CASE HelloNst(ch) = <<>>
    <3>1. t = <<>> /\ c = e
      BY <2>5, NoRecords
    <3> HIDE DEF c, e, t
    <3>2. QED BY <3>1, WalkNone
  <2>6. QED BY <2>3, <2>4, <2>5
<1> HIDE DEF x, y, z, t, a, b, c, e
<1>10. Walk("client", cfg, x \o y, a, b) /\ x \o y \in Seq(Recs)
  BY <1>4, <1>6, <1>7, WalkOn, Joined
<1>11. Walk("client", cfg, (x \o y) \o z, a, c) /\ (x \o y) \o z \in Seq(Recs)
  <2> DEFINE p == x \o y
  <2> HIDE DEF p
  <2>1. Walk("client", cfg, p, a, b) /\ p \in Seq(Recs)
    BY <1>10 DEF p
  <2>2. Walk("client", cfg, p \o z, a, c) /\ p \o z \in Seq(Recs)
    BY <1>4, <1>8, <2>1, WalkOn, Joined
  <2>3. QED BY <2>2 DEF p
<1>12. Walk("client", cfg, ((x \o y) \o z) \o t, a, e)
  <2> DEFINE p == (x \o y) \o z
  <2> HIDE DEF p
  <2>1. Walk("client", cfg, p, a, c) /\ p \in Seq(Recs)
    BY <1>11 DEF p
  <2>2. Walk("client", cfg, p \o t, a, e)
    BY <1>4, <1>9, <2>1, WalkOn
  <2>3. QED BY <2>2 DEF p
<1>13. QED BY <1>5, <1>12 DEF a, e

(* How many records of early data it will have passed over.                 *)
HelloSkipped(ch) ==
    IF AcceptsEarlyData(ch) \/ "early_data" \notin ch.has THEN early_data_skipped_bytes ELSE 0

(* The server passes over early data when it was offered and is not taken.  *)
LEMMA HelloSkips ==
  ASSUME LocalInv, Honest, NEW ch, NEW d, HelloGiven(ch, d),
         early_data_skipped_bytes' = HelloSkipped(ch), earlyGot' = earlyGot
  PROVE  /\ early_data_skipped_bytes' # UINT32_MAX <=> GEarly(cfg) /\ ~GTakesEarly(cfg)
         /\ EarlyRead' = EarlyRead
         /\ GTakesEarly(cfg) => EarlyRead = 0
         /\ ClientGoal = At(IF GRetries(cfg) THEN "CLIENT_EXPECT_SECOND_SERVER_HELLO"
                            ELSE "CLIENT_EXPECT_SERVER_HELLO", 0, 0)
<1>1. ServerHonest
  BY DEF Honest
<1>2. AcceptsEarlyData(ch) <=> GTakesEarly(cfg)
  BY DEF HelloGiven
<1>3. 0 # UINT32_MAX
  BY DEF UINT32_MAX
<1>4. CASE ~GRetries(cfg)
  <2>1. /\ state["server"] = "SERVER_EXPECT_CLIENT_HELLO" /\ ServerPhase = "SERVER_EXPECT_CLIENT_HELLO"
        /\ EarlyRead = 0 /\ ("early_data" \in ch.has <=> GEarly(cfg))
    BY <1>4 DEF HelloGiven, FirstHello
  <2>2. early_data_skipped_bytes = UINT32_MAX
    BY <1>1, <2>1 DEF ServerHonest
  <2>3. GTakesEarly(cfg) => GEarly(cfg)
    BY DEF GTakesEarly
  <2>4. early_data_skipped_bytes' # UINT32_MAX <=> GEarly(cfg) /\ ~GTakesEarly(cfg)
    BY <1>2, <1>3, <2>1, <2>2, <2>3 DEF HelloSkipped
  <2>5. EarlyRead' = EarlyRead
    <3>1. earlyGot = 0
      BY <2>1, <2>2 DEF EarlyRead
    <3>2. early_data_skipped_bytes' \in {0, UINT32_MAX}
      BY <2>2 DEF HelloSkipped
    <3>3. QED BY <2>1, <3>1, <3>2 DEF EarlyRead
  <2>6. QED BY <1>4, <2>1, <2>4, <2>5 DEF ClientGoal
<1>5. CASE GRetries(cfg)
  <2>1. /\ ServerPhase = "SERVER_EXPECT_SECOND_CLIENT_HELLO" /\ "early_data" \notin ch.has
        /\ SecondHello(ch) /\ GCompatible(cfg)
    BY <1>5 DEF HelloGiven, SecondHello
  <2>2. early_data_skipped_bytes' = early_data_skipped_bytes /\ ~GTakesEarly(cfg)
    BY <1>5, <2>1 DEF HelloSkipped, GTakesEarly, GResumes
  <2>3. early_data_skipped_bytes # UINT32_MAX <=> GEarly(cfg)
    <3>1. CASE Stateful
      BY <1>1, <2>2, <3>1 DEF ServerHonest, Stateful
    <3>2. CASE ~Stateful
      <4>1. state["server"] = "SERVER_EXPECT_CLIENT_HELLO" /\ ~GEarly(cfg)
        BY <1>5, <2>1, <3>2 DEF SecondHello, GCompatible
      <4>2. QED BY <1>1, <4>1 DEF ServerHonest
    <3>3. QED BY <3>1, <3>2
  <2>4. EarlyRead' = EarlyRead
    BY <2>2 DEF EarlyRead
  <2>5. ClientGoal = At("CLIENT_EXPECT_SECOND_SERVER_HELLO", 0, 0)
    BY <2>1 DEF ClientGoal
  <2>6. QED BY <1>5, <2>2, <2>3, <2>4, <2>5
<1>6. QED BY <1>4, <1>5

(* The whole of server_handle_hello.                                        *)
LEMMA ServerHandleHelloHonest ==
  ASSUME LocalInv, AgreementInv, Honest, server_handle_hello
  PROVE  Honest'
<1> DEFINE ch   == First("server").msg
           out  == HelloRecords(ch)
           n    == Len(HelloNst(ch))
           next == IF GTakesEarly(cfg) THEN "SERVER_EXPECT_END_OF_EARLY_DATA"
                   ELSE IF GAuth(cfg) THEN "SERVER_EXPECT_CERTIFICATE"
                   ELSE "SERVER_EXPECT_FINISHED"
<1>1. /\ ServerTakes("CH") /\ Consume("server") /\ ~NeedsRetry(ch)
      /\ transcript' = [transcript EXCEPT !["server"] = HelloTh3(ch)]
      /\ sched' = [sched EXCEPT !["server"] = HelloSched(ch)]
      /\ is_psk_handshake' = [is_psk_handshake EXCEPT !["server"] = FindsPsk(ch)]
      /\ enc' = [enc EXCEPT !["server"] = Advance(HelloApKey(ch), n)]
      /\ pending_traffic_secret' = Secret("c_ap_traffic", HelloSched(ch), HelloTh3(ch))
      /\ cfg' = cfg /\ using_early_data' = using_early_data
      /\ certificate_request' = certificate_request
      /\ max_early_data_size' = max_early_data_size
      /\ earlySent' = earlySent /\ earlyGot' = earlyGot
  BY ServerHelloParts
<1>2. /\ state' = [state EXCEPT !["server"] =
                     IF AcceptsEarlyData(ch) THEN "SERVER_EXPECT_END_OF_EARLY_DATA"
                     ELSE IF cfg.require_client_authentication THEN "SERVER_EXPECT_CERTIFICATE"
                     ELSE "SERVER_EXPECT_FINISHED"]
      /\ Return("server", IF cfg.require_client_authentication THEN "IN_PROGRESS" ELSE "OK")
  BY ServerHelloParts
<1>3. /\ AcceptsEarlyData(ch) =>
           /\ dec' = [dec EXCEPT !["server"] =
                            Key(Secret("c_e_traffic", Base(ch), Hash(Before(ch), <<ch>>)))]
           /\ pending_handshake_secret' = [pending_handshake_secret EXCEPT !["server"] =
                                                HandshakeSecret(ch, "c_hs_traffic")]
      /\ ~AcceptsEarlyData(ch) =>
           /\ dec' = [dec EXCEPT !["server"] = Key(HandshakeSecret(ch, "c_hs_traffic"))]
           /\ pending_handshake_secret' = pending_handshake_secret
      /\ early_data_skipped_bytes' = HelloSkipped(ch)
  BY ServerHelloParts DEF HelloSkipped
<1>4. /\ sendbuf' = [sendbuf EXCEPT !["server"] = sendbuf["server"] \o out]
      /\ state["server"] \in ServerHellos /\ ch \in Messages
  BY ServerHelloSends
<1>5. PICK d : HelloGiven(ch, d)
  BY <1>1, LastHelloComes
<1> HIDE DEF ch
<1>6. HelloParts(ch) /\ (AcceptsEarlyData(ch) <=> GTakesEarly(cfg)) /\ ServerReading(d)
      /\ d = PointAfterHello(cfg, EarlyRead)
  BY <1>4, <1>5, HelloPartsAre DEF HelloGiven
<1>7. /\ early_data_skipped_bytes' # UINT32_MAX <=> GEarly(cfg) /\ ~GTakesEarly(cfg)
      /\ EarlyRead' = EarlyRead
      /\ GTakesEarly(cfg) => EarlyRead = 0
      /\ ClientGoal = At(IF GRetries(cfg) THEN "CLIENT_EXPECT_SECOND_SERVER_HELLO"
                         ELSE "CLIENT_EXPECT_SERVER_HELLO", 0, 0)
  BY <1>1, <1>3, <1>5, HelloSkips
<1>8. out \in Seq(Recs) /\ n \in Nat /\ HelloApKey(ch) \in Keys
  BY <1>4, HelloSends, HelloTypes DEF LocalInv
<1>9. /\ HelloTh3(ch) = Through(cfg) /\ HelloApKey(ch) = Key(Ap(cfg, "s_ap_traffic"))
      /\ Secret("c_ap_traffic", HelloSched(ch), HelloTh3(ch)) = Ap(cfg, "c_ap_traffic")
      /\ HandshakeSecret(ch, "c_hs_traffic") = Hs(cfg, "c_hs_traffic")
      /\ GTakesEarly(cfg) => Secret("c_e_traffic", Base(ch), Hash(Before(ch), <<ch>>)) = Ce(cfg)
  BY <1>6 DEF HelloParts, HelloApKey, Ap
<1>10. /\ Stream("client")' = Tail(wire["client"]) \o sendbuf["client"]
       /\ Stream("server")' = Stream("server") \o out
  BY <1>1, <1>4, <1>8, ServerWrites
<1>11. /\ state'["client"] = state["client"] /\ state'["server"] = next
       /\ transcript'["client"] = transcript["client"] /\ transcript'["server"] = Through(cfg)
       /\ sched'["client"] = sched["client"]
       /\ is_psk_handshake'["client"] = is_psk_handshake["client"]
       /\ enc'["client"] = enc["client"] /\ enc'["server"] = Advance(HelloApKey(ch), n)
  BY <1>1, <1>2, <1>6, <1>9, Sides DEF LocalInv, TypeInv, GAuth
<1>12. /\ dec'["client"] = dec["client"]
       /\ pending_handshake_secret'["client"] = pending_handshake_secret["client"]
       /\ GTakesEarly(cfg) => /\ dec'["server"] = Key(Ce(cfg))
                              /\ pending_handshake_secret'["server"] = Hs(cfg, "c_hs_traffic")
       /\ ~GTakesEarly(cfg) => dec'["server"] = Key(Hs(cfg, "c_hs_traffic"))
  BY <1>3, <1>6, <1>9, Sides DEF LocalInv, TypeInv
<1>13. UNCHANGED ClientOwn
  BY <1>1, <1>11, <1>12 DEF ClientOwn
<1>14. KeyOf(enc'["server"], Ap(cfg, "s_ap_traffic")) /\ enc'["server"].seq = n
  <2>1. /\ HelloApKey(ch).aead = TRUE /\ HelloApKey(ch).secret = Ap(cfg, "s_ap_traffic")
        /\ HelloApKey(ch).seq = 0
    BY <1>9 DEF Key
  <2>2. QED BY <1>8, <1>11, <2>1 DEF Advance, KeyOf
<1>15. /\ GTakesEarly(cfg) => KeyOf(dec'["server"], Ce(cfg))
       /\ ~GTakesEarly(cfg) => KeyOf(dec'["server"], Hs(cfg, "c_hs_traffic"))
       /\ dec'["server"].seq = 0
  BY <1>12 DEF Key, KeyOf
<1>16. Through(cfg) = (ServerTh')[next] /\ next \notin ServerHellos /\ next # "SERVER_POST_HANDSHAKE"
  <2>1. ~GTakesEarly(cfg) /\ ~GAuth(cfg) => CCvTh(cfg) = Through(cfg)
    BY DEF CCvTh, EoedTh
  <2>2. QED BY <1>1, <2>1 DEF ServerTh, ServerHellos
<1>17. ServerHonest'
  <2>1. pending_traffic_secret' = Ap(cfg, "c_ap_traffic")
    BY <1>1, <1>9
  <2>2. transcript'["server"] = (ServerTh')[next]
    BY <1>11, <1>16
  <2>3. /\ next = "SERVER_EXPECT_END_OF_EARLY_DATA" => GTakesEarly(cfg)
        /\ next \in {"SERVER_EXPECT_CERTIFICATE", "SERVER_EXPECT_CERTIFICATE_VERIFY", "SERVER_EXPECT_FINISHED"}
             => ~GTakesEarly(cfg)
        /\ next \in {"SERVER_EXPECT_CERTIFICATE", "SERVER_EXPECT_CERTIFICATE_VERIFY"} => GAuth(cfg)
        /\ next # "SERVER_EXPECT_CLIENT_HELLO" /\ next # "SERVER_EXPECT_SECOND_CLIENT_HELLO"
    OBVIOUS
  <2> HIDE DEF next
  <2>4. QED
    BY ONLY <1>1, <1>7, <1>11, <1>12, <1>14, <1>15, <1>16, <2>1, <2>2, <2>3 DEF ServerHonest
<1>18. ServerPhase' = next
  BY <1>11, <1>16 DEF ServerPhase, CookieSent, ServerHellos
<1>19. ServerPoint' = d
  <2>1. ServerPoint' = At(next, 0, EarlyRead)
    BY <1>7, <1>15, <1>18 DEF ServerPoint
  <2>2. QED BY <1>6, <1>7, <2>1 DEF PointAfterHello
<1>20. Walk("client", cfg, out, ClientGoal, ClientGoal')
  <2>1. ClientGoal' = At("CLIENT_POST_HANDSHAKE", n, 0)
    BY <1>14, <1>16, <1>18 DEF ClientGoal, ServerHellos
  <2>2. QED BY <1>4, <1>6, <1>7, <2>1, HelloWalks
<1>21. Calm'
  <2> DEFINE r == IF cfg.require_client_authentication THEN "IN_PROGRESS" ELSE "OK"
  <2>1. r \in {"IN_PROGRESS", "OK"} /\ Return("server", r) /\ Calm
    BY <1>2 DEF Honest
  <2> HIDE DEF r
  <2>2. QED BY <2>1, CalmStays, Sides
<1>22. ServerPhase' # "SERVER_EXPECT_CLIENT_HELLO"
  BY <1>18
<1> HIDE DEF out, next
<1>23. ServerMove(d, out)
  BY <1>6, <1>8, <1>10, <1>13, <1>17, <1>19, <1>20, <1>21, <1>22 DEF ServerMove
<1>24. QED BY <1>23, ServerAdvances

-----------------------------------------------------------------------------
(* The applications, the network and the whole.                             *)

(* A step after which everything is where it was.                           *)
LEMMA UnmovedHonest ==
  ASSUME LocalInv, Honest, UNCHANGED ClientOwn, UNCHANGED ServerOwn, ret' = ret,
         Stream("client")' = Stream("client"), Stream("server")' = Stream("server"),
         sendbuf'["server"] = sendbuf["server"] \/ sendbuf'["server"] = <<>>
  PROVE  Honest'
<1>1. /\ ClientHonest /\ ClientEarly /\ ServerHonest /\ Calm /\ GCompatible(cfg) /\ EarlyCounted /\ Silent
      /\ \A s \in Side : Walk(s, cfg, Stream(Peer(s)), Point(s), Goal(s))
  BY DEF Honest
<1>2. /\ cfg' = cfg /\ state'["client"] = state["client"] /\ state'["server"] = state["server"]
      /\ earlySent' = earlySent
  BY DEF ClientOwn, ServerOwn
<1>3. ServerPhase' = ServerPhase
  BY <1>2, PhaseKept
<1>4. ClientHonest' /\ ClientEarly' /\ ClientPoint' = ClientPoint /\ ServerGoal' = ServerGoal
  BY <1>1, ClientSame
<1>5. ServerHonest' /\ ServerPoint' = ServerPoint /\ ClientGoal' = ClientGoal
  BY <1>1, <1>3, ServerSame
<1>6. EarlyCounted' /\ Silent' /\ Calm' /\ GCompatible(cfg)'
  BY <1>1, <1>2, <1>3 DEF EarlyCounted, Silent, Calm
<1>7. /\ Walk("client", cfg, Stream("server"), ClientPoint, ClientGoal)
      /\ Walk("server", cfg, Stream("client"), ServerPoint, ServerGoal)
  BY <1>1, Sides DEF Point, Goal
<1>8. /\ Walk("client", cfg', Stream("server")', ClientPoint', ClientGoal')
      /\ Walk("server", cfg', Stream("client")', ServerPoint', ServerGoal')
  BY <1>2, <1>4, <1>5, <1>7
<1>9. \A s \in Side : Walk(s, cfg, Stream(Peer(s)), Point(s), Goal(s))'
  BY <1>8, Sides DEF Side, Point, Goal
<1>10. QED BY <1>4, <1>5, <1>6, <1>9 DEF Honest

(* What is written out was on its way already.                              *)
LEMMA FlushHonest ==
  ASSUME LocalInv, Honest, NEW s \in Side, Flush(s)
  PROVE  Honest'
<1>1. /\ wire' = [wire EXCEPT ![s] = wire[s] \o sendbuf[s]] /\ sendbuf' = [sendbuf EXCEPT ![s] = <<>>]
      /\ ret' = ret
  BY DEF Flush
<1>2. UNCHANGED ClientOwn /\ UNCHANGED ServerOwn
  BY DEF Flush, schedule, keys, clientVars, serverVars, appVars, ClientOwn, ServerOwn
<1>3. wire \in [Side -> Seq(Recs)] /\ sendbuf \in [Side -> Seq(Recs)]
  BY DEF LocalInv, TypeInv
<1>4. ASSUME NEW t \in Side PROVE Stream(t)' = Stream(t)
  <2>1. CASE t = s
    <3> DEFINE a == wire[s]
               b == sendbuf[s]
    <3>1. a \in Seq(Recs) /\ b \in Seq(Recs) /\ Stream(t) = a \o b /\ Stream(t)' = (a \o b) \o <<>>
      BY <1>1, <1>3, <2>1 DEF Stream
    <3> HIDE DEF a, b
    <3>2. a \o b \in Seq(Recs)
      BY <3>1, Longer
    <3>3. (a \o b) \o <<>> = a \o b
      BY <3>2
    <3>4. QED BY <3>1, <3>3
  <2>2. CASE t # s
    <3>1. wire'[t] = wire[t] /\ sendbuf'[t] = sendbuf[t]
      BY <1>1, <1>3, <2>2
    <3>2. QED BY <3>1 DEF Stream
  <2>3. QED BY <2>1, <2>2
<1>5. sendbuf'["server"] = sendbuf["server"] \/ sendbuf'["server"] = <<>>
  BY <1>1, <1>3, Sides
<1>6. Stream("client")' = Stream("client") /\ Stream("server")' = Stream("server")
  BY <1>4, Sides
<1>7. QED BY <1>1, <1>2, <1>5, <1>6, UnmovedHonest

(* Nothing happens.                                                         *)
LEMMA StutterHonest ==
  ASSUME LocalInv, Honest, UNCHANGED vars
  PROVE  Honest'
<1>1. UNCHANGED ClientOwn /\ UNCHANGED ServerOwn /\ ret' = ret /\ wire' = wire /\ sendbuf' = sendbuf
  BY DEF vars, schedule, keys, clientVars, serverVars, appVars, ClientOwn, ServerOwn
<1>2. Stream("client")' = Stream("client") /\ Stream("server")' = Stream("server")
  BY <1>1 DEF Stream
<1>3. QED BY <1>1, <1>2, UnmovedHonest

(* An application writes a record of data.                                  *)
DataOf(s) == Rec(enc[s].secret, enc[s].seq, Plain("DATA", {}))

(* Application data goes behind what is on its way, under the write key.    *)
LEMMA DataWritten ==
  ASSUME LocalInv, NEW s \in Side, sendbuf[s] = <<>>, Sends(s, Plain("DATA", {})), enc[s].aead = TRUE
  PROVE  /\ DataOf(s) \in Recs /\ Stream(s) \in Seq(Recs)
         /\ Stream(s)' = Stream(s) \o <<DataOf(s)>>
         /\ \A t \in Side \ {s} : Stream(t)' = Stream(t) /\ enc'[t] = enc[t]
         /\ enc'[s].aead = TRUE /\ enc'[s].secret = enc[s].secret /\ enc'[s].seq = enc[s].seq + 1
         /\ cfg' = cfg /\ state' = state /\ sched' = sched /\ transcript' = transcript /\ dec' = dec
         /\ pending_handshake_secret' = pending_handshake_secret
         /\ is_psk_handshake' = is_psk_handshake /\ using_early_data' = using_early_data
         /\ certificate_request' = certificate_request /\ max_early_data_size' = max_early_data_size
         /\ pending_traffic_secret' = pending_traffic_secret
         /\ early_data_skipped_bytes' = early_data_skipped_bytes /\ ret' = ret /\ sendbuf' = sendbuf
         /\ earlyGot' = earlyGot
<1> DEFINE m == Plain("DATA", {})
           r == DataOf(s)
<1>1. /\ wire' = [wire EXCEPT ![s] = wire[s] \o Records(enc[s], <<m>>)]
      /\ enc' = [enc EXCEPT ![s] = Advance(enc[s], 1)] /\ sendbuf' = sendbuf
  BY DEF Sends
<1>2. wire \in [Side -> Seq(Recs)] /\ sendbuf \in [Side -> Seq(Recs)] /\ enc \in [Side -> Keys]
  BY DEF LocalInv, TypeInv
<1>3. m \in Messages
  <2>1. "DATA" \in Names /\ {} \in SUBSET Names
    BY NamesAre
  <2>2. QED BY <2>1, MessageTypes
<1>4. enc[s] \in Keys
  BY <1>2
<1> HIDE DEF m
<1>5. Records(enc[s], <<m>>) = <<r>> /\ r \in Recs
  BY <1>3, <1>4, OneRecord DEF m, DataOf, Rec
<1> HIDE DEF r
<1>6. Stream(s) \in Seq(Recs) /\ Stream(s)' = Stream(s) \o <<r>>
  <2> DEFINE a == wire[s]
             b == <<r>>
  <2>1. wire'[s] = a \o b
    BY <1>1, <1>2, <1>5
  <2>2. a \in Seq(Recs) /\ b \in Seq(Recs) /\ Stream(s) = a \o <<>> /\ Stream(s)' = (a \o b) \o <<>>
    <3>1. sendbuf'[s] = <<>>
      BY <1>1
    <3>2. Stream(s) = a \o <<>>
      BY DEF Stream
    <3>3. Stream(s)' = (a \o b) \o <<>>
      <4> HIDE DEF a, b
      <4>1. QED BY <2>1, <3>1 DEF Stream
    <3>4. QED BY <1>2, <1>5, <3>2, <3>3
  <2> HIDE DEF a, b
  <2>3. a \o b \in Seq(Recs)
    BY <2>2, Longer
  <2>4. (a \o b) \o <<>> = a \o b /\ a \o <<>> = a
    BY <2>2, <2>3
  <2>5. QED BY <2>2, <2>4 DEF b
<1>7. \A t \in Side \ {s} : Stream(t)' = Stream(t) /\ enc'[t] = enc[t]
  <2>1. \A t \in Side \ {s} : wire'[t] = wire[t] /\ enc'[t] = enc[t]
    BY <1>1, <1>2
  <2>2. QED BY <1>1, <2>1 DEF Stream
<1>8. enc'[s].aead = TRUE /\ enc'[s].secret = enc[s].secret /\ enc'[s].seq = enc[s].seq + 1
  <2>1. enc[s].aead = TRUE /\ enc'[s] = Advance(enc[s], 1)
    BY <1>1, <1>2
  <2>2. QED BY <1>4, <2>1 DEF Advance
<1>9. QED
  BY <1>5, <1>6, <1>7, <1>8 DEF r, Sends, schedule, clientVars, serverVars

(* A record of the client's that the server will read last.                 *)
ClientSends(r) ==
    /\ r \in Recs /\ Stream("client") \in Seq(Recs)
    /\ Stream("client")' = Stream("client") \o <<r>>
    /\ Stream("server")' = Stream("server") /\ sendbuf' = sendbuf /\ ret' = ret
    /\ UNCHANGED ServerOwn /\ ClientHonest' /\ ClientEarly'
    /\ ClientPoint' = ClientPoint /\ ServerPhase' = ServerPhase
    /\ Link("server", cfg, ServerGoal, r, ServerGoal')
    /\ earlySent' \in Nat /\ earlySent <= earlySent'
    /\ r.secret = Ce(cfg) => r.seq < earlySent'
    /\ GRetries(cfg) /\ cfg.retry_uses_cookie => state'["client"] # "CLIENT_EXPECT_SERVER_HELLO"

(* A client that writes one record keeps the invariant.                     *)
LEMMA ClientSendsHonest ==
  ASSUME LocalInv, Honest, NEW r, ClientSends(r)
  PROVE  Honest'
<1>1. /\ ServerHonest /\ Calm /\ GCompatible(cfg) /\ EarlyCounted /\ Silent
      /\ \A s \in Side : Walk(s, cfg, Stream(Peer(s)), Point(s), Goal(s))
  BY DEF Honest
<1>2. cfg' = cfg /\ ret' = ret /\ ServerPhase' = ServerPhase
  BY DEF ClientSends, ServerOwn
<1>3. ServerHonest' /\ ServerPoint' = ServerPoint /\ ClientGoal' = ClientGoal
  BY <1>1, <1>2, ServerSame DEF ClientSends
<1>4. EarlyCounted'
  <2> DEFINE q == Stream("client")
             o == <<r>>
  <2>1. /\ q \in Seq(Recs) /\ o \in Seq(Recs) /\ Len(o) = 1 /\ o[1] = r
        /\ r.secret = Ce(cfg) => r.seq < earlySent'
        /\ Stream("client")' = q \o o /\ earlySent' \in Nat /\ earlySent <= earlySent'
    BY DEF ClientSends
  <2> HIDE DEF q, o
  <2>2. /\ Len(q) \in Nat /\ Len(q \o o) = Len(q) + Len(o) /\ q \o o \in Seq(Recs)
        /\ \A i \in 1..Len(q) : (q \o o)[i] = q[i]
        /\ \A i \in 1..Len(o) : (q \o o)[Len(q) + i] = o[i]
    BY <2>1, Joined
  <2>3. ASSUME NEW i \in 1..Len(q \o o)
        PROVE  \/ \E j \in 1..Len(q) : (q \o o)[i] = q[j]
               \/ (q \o o)[i].secret = Ce(cfg) /\ (q \o o)[i].msg.type = "DATA" =>
                    (q \o o)[i].seq < earlySent'
    <3>1. CASE i \in 1..Len(q)
      BY <2>2, <3>1
    <3>2. CASE i \notin 1..Len(q)
      <4>1. i = Len(q) + 1 /\ 1 \in 1..Len(o)
        BY <2>1, <2>2, <3>2
      <4>2. (q \o o)[i] = r
        BY <2>1, <2>2, <4>1
      <4>3. QED BY <2>1, <4>2
    <3>3. QED BY <3>1, <3>2
  <2>4. QED BY <1>1, <1>2, <2>1, <2>2, <2>3, StillCounted DEF q
<1>5. Silent'
  BY <1>1, <1>2 DEF Silent, ClientSends
<1>6. /\ Walk("client", cfg, Stream("server"), ClientPoint, ClientGoal)
      /\ Walk("server", cfg, Stream("client"), ServerPoint, ServerGoal)
  BY <1>1, Sides DEF Point, Goal
<1>7. Walk("client", cfg', Stream("server")', ClientPoint', ClientGoal')
  BY <1>2, <1>3, <1>6 DEF ClientSends
<1>8. Walk("server", cfg', Stream("client")', ServerPoint', ServerGoal')
  <2> DEFINE q == Stream("client")
             a == ServerPoint
             b == ServerGoal
             c == ServerGoal'
  <2>1. /\ Link("server", cfg, b, r, c) /\ r \in Recs /\ q \in Seq(Recs)
        /\ Stream("client")' = q \o <<r>> /\ Walk("server", cfg, q, a, b)
    BY <1>6 DEF ClientSends
  <2> HIDE DEF q, a, b, c
  <2>2. Walk("server", cfg, <<r>>, b, c) /\ <<r>> \in Seq(Recs)
    BY <2>1, WalkOne
  <2>3. Walk("server", cfg, q \o <<r>>, a, c)
    BY <2>1, <2>2, WalkOn
  <2>4. QED BY <1>2, <1>3, <2>1, <2>3 DEF a, c
<1>9. \A s \in Side : Walk(s, cfg, Stream(Peer(s)), Point(s), Goal(s))'
  BY <1>7, <1>8, Sides DEF Side, Point, Goal
<1>10. Calm' /\ GCompatible(cfg)' /\ ClientHonest' /\ ClientEarly'
  BY <1>1, <1>2 DEF Calm, ClientSends
<1>11. QED BY <1>3, <1>4, <1>5, <1>9, <1>10 DEF Honest

(* Early data: the server will read it or pass it over.                     *)
LEMMA SendEarlyDataHonest ==
  ASSUME LocalInv, Honest, SendEarlyData
  PROVE  Honest'
<1> DEFINE st == state["client"]
           r == DataOf("client")
           data == Plain("DATA", {})
<1>1. /\ st \in ClientHandshake \ {"CLIENT_HANDSHAKE_START"} /\ sendbuf["client"] = <<>>
      /\ earlySent < max_early_data_size /\ earlySent' = earlySent + 1 /\ Sends("client", data)
  BY DEF SendEarlyData
<1>2. /\ ClientHonest /\ ClientEarly /\ GCompatible(cfg) /\ earlySent \in Nat
      /\ max_early_data_size \in Nat /\ cfg.early_limit \in Nat
  BY ConfigTypes DEF Honest, LocalInv, TypeInv, Config
<1>3. st \in {"CLIENT_EXPECT_SERVER_HELLO", "CLIENT_EXPECT_SECOND_SERVER_HELLO"} \cup ClientFlight
  BY <1>1 DEF ClientHandshake, ClientFlight
<1>4. max_early_data_size > 0 /\ st # "CLIENT_POST_HANDSHAKE"
  BY <1>1, <1>2 DEF ClientHandshake
<1>5. /\ \/ st = "CLIENT_EXPECT_SERVER_HELLO"
         \/ st \in ClientFlight /\ ~GRetries(cfg)
      /\ GEarly(cfg)
  BY <1>2, <1>4 DEF ClientEarly
<1>6. /\ enc["client"].aead = TRUE /\ enc["client"].secret = Ce(cfg) /\ enc["client"].seq = earlySent
      /\ earlySent + 1 <= cfg.early_limit /\ max_early_data_size <= cfg.early_limit
  <2>1. KeyOf(enc["client"], Ce(cfg)) /\ enc["client"].seq = earlySent /\ max_early_data_size <= cfg.early_limit
    BY <1>2, <1>5 DEF ClientEarly
  <2>2. QED BY <1>1, <1>2, <2>1 DEF KeyOf
<1>7. /\ r \in Recs /\ Stream("client") \in Seq(Recs) /\ Stream("client")' = Stream("client") \o <<r>>
      /\ \A t \in Side \ {"client"} : Stream(t)' = Stream(t) /\ enc'[t] = enc[t]
      /\ enc'["client"].aead = TRUE /\ enc'["client"].secret = enc["client"].secret
      /\ enc'["client"].seq = enc["client"].seq + 1
      /\ cfg' = cfg /\ state' = state /\ sched' = sched /\ transcript' = transcript /\ dec' = dec
      /\ pending_handshake_secret' = pending_handshake_secret
      /\ is_psk_handshake' = is_psk_handshake /\ using_early_data' = using_early_data
      /\ certificate_request' = certificate_request /\ max_early_data_size' = max_early_data_size
      /\ pending_traffic_secret' = pending_traffic_secret
      /\ early_data_skipped_bytes' = early_data_skipped_bytes /\ ret' = ret /\ sendbuf' = sendbuf
      /\ earlyGot' = earlyGot
  BY <1>1, <1>6, Sides, DataWritten
<1>8. Stream("server")' = Stream("server") /\ enc'["server"] = enc["server"]
  BY <1>7 DEF Side
<1>9. UNCHANGED ServerOwn
  BY <1>7, <1>8 DEF ServerOwn
<1>10. r = Rec(Ce(cfg), earlySent, data)
  BY <1>6 DEF DataOf
<1>11. KeyOf(enc'["client"], Ce(cfg)) /\ enc'["client"].seq = earlySent'
  BY <1>1, <1>6, <1>7 DEF KeyOf
<1>12. ClientHonest'
  <2>1. ClientTh' = ClientTh
    BY <1>7 DEF ClientTh
  <2>2. QED BY <1>2, <1>4, <1>7, <2>1 DEF ClientHonest
<1>13. ClientEarly'
  <2>1. /\ using_early_data = (IF st \in {"CLIENT_EXPECT_SERVER_HELLO", "CLIENT_EXPECT_ENCRYPTED_EXTENSIONS"}
                              THEN \/ st = "CLIENT_EXPECT_SERVER_HELLO" /\ GEarly(cfg)
                                   \/ st \in ClientFlight /\ GEarly(cfg) /\ ~GRetries(cfg)
                              ELSE st \in ClientFlight /\ GTakesEarly(cfg))
        /\ st \in ClientFlight => pending_handshake_secret["client"] = Hs(cfg, "c_hs_traffic")
    BY <1>2, <1>5 DEF ClientEarly
  <2>2. earlySent' <= cfg.early_limit /\ state' = state /\ cfg' = cfg
        /\ pending_handshake_secret' = pending_handshake_secret
        /\ using_early_data' = using_early_data /\ max_early_data_size' = max_early_data_size
    BY <1>1, <1>6, <1>7
  <2>3. QED BY ONLY <1>3, <1>5, <1>1, <1>6, <1>11, <2>1, <2>2 DEF ClientEarly
<1>14. ClientPoint' = ClientPoint
  BY <1>7 DEF ClientPoint, ClientPhase
<1>15. ~(GRetries(cfg) /\ cfg.retry_uses_cookie)
  BY <1>2, <1>5 DEF GCompatible
<1>16. ServerPhase' = ServerPhase
  BY <1>7, <1>15 DEF ServerPhase, CookieSent
<1>17. Link("server", cfg, ServerGoal, r, ServerGoal')
  <2>1. st \notin {"CLIENT_HANDSHAKE_START", "CLIENT_POST_HANDSHAKE"}
    BY <1>1, <1>4
  <2>2. CASE st = "CLIENT_EXPECT_SERVER_HELLO" /\ GRetries(cfg)
    <3> DEFINE a == At("SERVER_EXPECT_SECOND_CLIENT_HELLO", 0, earlySent)
               b == At("SERVER_EXPECT_SECOND_CLIENT_HELLO", 0, earlySent + 1)
    <3>1. ServerGoal = a /\ ServerGoal' = b
      BY <1>1, <1>7, <2>2 DEF ServerGoal
    <3>2. ~GTakesEarly(cfg)
      BY <2>2 DEF GTakesEarly, GResumes
    <3>3. Link("server", cfg, a, r, b)
      BY <1>5, <1>10, <3>2 DEF Link, ServerLink, At
    <3>4. QED BY <3>1, <3>3
  <2>3. CASE ~(st = "CLIENT_EXPECT_SERVER_HELLO" /\ GRetries(cfg))
    <3> DEFINE a == PointAfterHello(cfg, earlySent)
               b == PointAfterHello(cfg, earlySent + 1)
    <3>1. ServerGoal = a /\ ServerGoal' = b
      BY <1>1, <1>7, <2>1, <2>3 DEF ServerGoal
    <3>2. Link("server", cfg, a, r, b)
      <4>1. CASE GTakesEarly(cfg)
        BY <1>10, <4>1 DEF Link, ServerLink, At, PointAfterHello
      <4>2. CASE ~GTakesEarly(cfg)
        BY <1>5, <1>10, <4>2 DEF Link, ServerLink, At, PointAfterHello
      <4>3. QED BY <4>1, <4>2
    <3>3. QED BY <3>1, <3>2
  <2>4. QED BY <2>2, <2>3
<1>18. earlySent' \in Nat /\ earlySent <= earlySent' /\ r.seq < earlySent'
  BY <1>1, <1>2, <1>10 DEF Rec
<1> HIDE DEF r
<1>19. ClientSends(r)
  BY <1>7, <1>8, <1>9, <1>12, <1>13, <1>14, <1>15, <1>16, <1>17, <1>18 DEF ClientSends
<1>20. QED BY <1>19, ClientSendsHonest

(* 1-RTT data of the client.                                                *)
LEMMA ClientSendHonest ==
  ASSUME LocalInv, Honest, ptls_send("client")
  PROVE  Honest'
<1> DEFINE r == DataOf("client")
           data == Plain("DATA", {})
           done == "CLIENT_POST_HANDSHAKE"
<1>1. /\ ret["client"] = "OK" /\ sendbuf["client"] = <<>> /\ earlySent' = earlySent
      /\ Sends("client", data)
  BY DEF ptls_send
<1>2. state["client"] = done
  BY <1>1 DEF LocalInv, ClientInv, MayReceive, PostHandshake, ClientHellos, ClientFlight
<1>3. ClientHonest /\ ClientEarly /\ earlySent \in Nat /\ enc["client"].seq \in Nat
  BY Sides DEF Honest, LocalInv, TypeInv, Keys
<1>4. KeyOf(enc["client"], Ap(cfg, "c_ap_traffic"))
  BY <1>2, <1>3 DEF ClientHonest
<1>5. enc["client"].aead = TRUE /\ enc["client"].secret = Ap(cfg, "c_ap_traffic")
  BY <1>4 DEF KeyOf
<1>6. /\ r \in Recs /\ Stream("client") \in Seq(Recs) /\ Stream("client")' = Stream("client") \o <<r>>
      /\ \A t \in Side \ {"client"} : Stream(t)' = Stream(t) /\ enc'[t] = enc[t]
      /\ enc'["client"].aead = TRUE /\ enc'["client"].secret = enc["client"].secret
      /\ enc'["client"].seq = enc["client"].seq + 1
      /\ cfg' = cfg /\ state' = state /\ sched' = sched /\ transcript' = transcript /\ dec' = dec
      /\ pending_handshake_secret' = pending_handshake_secret
      /\ is_psk_handshake' = is_psk_handshake /\ using_early_data' = using_early_data
      /\ certificate_request' = certificate_request /\ max_early_data_size' = max_early_data_size
      /\ pending_traffic_secret' = pending_traffic_secret
      /\ early_data_skipped_bytes' = early_data_skipped_bytes /\ ret' = ret /\ sendbuf' = sendbuf
      /\ earlyGot' = earlyGot
  BY <1>1, <1>5, Sides, DataWritten
<1>7. Stream("server")' = Stream("server") /\ enc'["server"] = enc["server"]
  BY <1>6 DEF Side
<1>8. UNCHANGED ServerOwn
  BY <1>6, <1>7 DEF ServerOwn
<1>9. r = Rec(Ap(cfg, "c_ap_traffic"), enc["client"].seq, data)
  BY <1>5 DEF DataOf
<1>10. ClientHonest'
  <2>1. KeyOf(enc'["client"], Ap(cfg, "c_ap_traffic"))
    BY <1>5, <1>6 DEF KeyOf
  <2>2. QED BY <1>2, <1>3, <1>6, <2>1 DEF ClientHonest, ClientHellos, ClientFlight
<1>11. ClientEarly'
  BY <1>1, <1>2, <1>3, <1>6 DEF ClientEarly, ClientHellos, ClientFlight
<1>12. ClientPoint' = ClientPoint /\ ServerPhase' = ServerPhase
  BY <1>2, <1>6 DEF ClientPoint, ClientPhase, ServerPhase, CookieSent
<1>13. Link("server", cfg, ServerGoal, r, ServerGoal')
  <2>1. /\ ServerGoal = At("SERVER_POST_HANDSHAKE", enc["client"].seq, earlySent)
        /\ ServerGoal' = At("SERVER_POST_HANDSHAKE", enc["client"].seq + 1, earlySent)
    BY <1>1, <1>2, <1>6 DEF ServerGoal
  <2>2. r.msg.type = "DATA"
    BY <1>9, KindsAre DEF Kinds, Rec
  <2>3. QED BY <1>9, <2>1, <2>2 DEF Link, ServerLink, At, Rec
<1>14. r.secret # Ce(cfg)
  BY <1>9, KindsAre DEF Kinds, Rec
<1>15. earlySent' \in Nat /\ earlySent <= earlySent' /\ state'["client"] # "CLIENT_EXPECT_SERVER_HELLO"
  BY <1>1, <1>2, <1>3, <1>6
<1> HIDE DEF r
<1>16. ClientSends(r)
  BY <1>6, <1>7, <1>8, <1>10, <1>11, <1>12, <1>13, <1>14, <1>15 DEF ClientSends
<1>17. QED BY <1>16, ClientSendsHonest

(* Data of the server, which may send it before the client's Finished.      *)
LEMMA ServerSendHonest ==
  ASSUME LocalInv, Honest, ptls_send("server")
  PROVE  Honest'
<1> DEFINE r == DataOf("server")
           data == Plain("DATA", {})
<1>1. /\ ret["server"] = "OK" /\ sendbuf["server"] = <<>> /\ earlySent' = earlySent
      /\ Sends("server", data)
  BY DEF ptls_send
<1>2. state["server"] \notin ServerHellos
  BY <1>1 DEF LocalInv, ServerInv, MayReceive, PostHandshake, ServerHellos
<1>3. /\ ClientHonest /\ ClientEarly /\ ServerHonest /\ Calm /\ GCompatible(cfg) /\ EarlyCounted /\ Silent
      /\ \A s \in Side : Walk(s, cfg, Stream(Peer(s)), Point(s), Goal(s))
      /\ enc["server"].seq \in Nat
  BY Sides DEF Honest, LocalInv, TypeInv, Keys
<1>4. enc["server"].aead = TRUE /\ enc["server"].secret = Ap(cfg, "s_ap_traffic")
  BY <1>2, <1>3 DEF ServerHonest, KeyOf
<1>5. /\ r \in Recs /\ Stream("server") \in Seq(Recs) /\ Stream("server")' = Stream("server") \o <<r>>
      /\ \A t \in Side \ {"server"} : Stream(t)' = Stream(t) /\ enc'[t] = enc[t]
      /\ enc'["server"].aead = TRUE /\ enc'["server"].secret = enc["server"].secret
      /\ enc'["server"].seq = enc["server"].seq + 1
      /\ cfg' = cfg /\ state' = state /\ sched' = sched /\ transcript' = transcript /\ dec' = dec
      /\ pending_handshake_secret' = pending_handshake_secret
      /\ is_psk_handshake' = is_psk_handshake /\ using_early_data' = using_early_data
      /\ certificate_request' = certificate_request /\ max_early_data_size' = max_early_data_size
      /\ pending_traffic_secret' = pending_traffic_secret
      /\ early_data_skipped_bytes' = early_data_skipped_bytes /\ ret' = ret /\ sendbuf' = sendbuf
      /\ earlyGot' = earlyGot
  BY <1>1, <1>4, Sides, DataWritten
<1>6. Stream("client")' = Stream("client") /\ enc'["client"] = enc["client"]
  BY <1>5 DEF Side
<1>7. UNCHANGED ClientOwn
  BY <1>1, <1>5, <1>6 DEF ClientOwn
<1>8. ClientHonest' /\ ClientEarly' /\ ClientPoint' = ClientPoint /\ ServerGoal' = ServerGoal
  BY <1>3, <1>7, ClientSame
<1>9. ServerHonest'
  <2>1. KeyOf(enc'["server"], Ap(cfg, "s_ap_traffic")) /\ ServerTh' = ServerTh
    BY <1>4, <1>5 DEF KeyOf, ServerTh
  <2>2. QED BY <1>2, <1>3, <1>5, <2>1 DEF ServerHonest
<1>10. ServerPhase' = ServerPhase
  BY <1>2, <1>5, PhaseKept
<1>11. ServerPoint' = ServerPoint
  BY <1>5, <1>10 DEF ServerPoint, EarlyRead
<1>12. ServerPhase \notin ServerHellos
  BY <1>2 DEF ServerPhase, CookieSent, ServerHellos
<1>13. Link("client", cfg, ClientGoal, r, ClientGoal')
  <2>1. /\ ClientGoal = At("CLIENT_POST_HANDSHAKE", enc["server"].seq, 0)
        /\ ClientGoal' = At("CLIENT_POST_HANDSHAKE", enc["server"].seq + 1, 0)
    BY <1>5, <1>10, <1>12 DEF ClientGoal, ServerHellos
  <2>2. r.msg.type = "DATA" /\ r.secret = Ap(cfg, "s_ap_traffic") /\ r.seq = enc["server"].seq
    BY <1>4, KindsAre DEF Kinds, Rec, DataOf
  <2> HIDE DEF r
  <2>3. QED BY <2>1, <2>2 DEF Link, ClientLink, At
<1>14. /\ Walk("client", cfg, Stream("server"), ClientPoint, ClientGoal)
       /\ Walk("server", cfg, Stream("client"), ServerPoint, ServerGoal)
  BY <1>3, Sides DEF Point, Goal
<1>15. Walk("server", cfg', Stream("client")', ServerPoint', ServerGoal')
  BY <1>5, <1>6, <1>8, <1>11, <1>14
<1> HIDE DEF r
<1>16. Walk("client", cfg', Stream("server")', ClientPoint', ClientGoal')
  <2> DEFINE q == Stream("server")
             a == ClientPoint
             b == ClientGoal
             c == ClientGoal'
  <2>1. /\ Link("client", cfg, b, r, c) /\ r \in Recs /\ q \in Seq(Recs)
        /\ Stream("server")' = q \o <<r>> /\ Walk("client", cfg, q, a, b)
    BY <1>5, <1>13, <1>14
  <2> HIDE DEF q, a, b, c
  <2>2. Walk("client", cfg, <<r>>, b, c) /\ <<r>> \in Seq(Recs)
    BY <2>1, WalkOne
  <2>3. Walk("client", cfg, q \o <<r>>, a, c)
    BY <2>1, <2>2, WalkOn
  <2>4. QED BY <1>5, <1>8, <2>1, <2>3 DEF a, c
<1>17. \A s \in Side : Walk(s, cfg, Stream(Peer(s)), Point(s), Goal(s))'
  BY <1>15, <1>16, Sides DEF Side, Point, Goal
<1>18. EarlyCounted'
  BY <1>1, <1>3, <1>5, <1>6 DEF EarlyCounted
<1>19. Silent'
  BY <1>3, <1>5, <1>6, <1>10, <1>12 DEF Silent, ServerHellos
<1>20. Calm' /\ GCompatible(cfg)'
  BY <1>3, <1>5 DEF Calm
<1>21. QED BY <1>8, <1>9, <1>17, <1>18, <1>19, <1>20 DEF Honest

(* New objects and an empty wire.                                           *)
LEMMA HonestInit == Init => HonestInv
<1>1. SUFFICES ASSUME Init, GCompatible(cfg) PROVE Honest
  BY DEF HonestInv
<1>2. /\ state["client"] = "CLIENT_HANDSHAKE_START" /\ state["server"] = "SERVER_EXPECT_CLIENT_HELLO"
      /\ \A s \in Side : /\ sendbuf[s] = <<>> /\ wire[s] = <<>> /\ ret[s] = "IN_PROGRESS"
                         /\ enc[s] = NoKey /\ dec[s] = NoKey /\ transcript[s] = <<>>
      /\ using_early_data = FALSE /\ certificate_request = FALSE
      /\ max_early_data_size = 0 /\ early_data_skipped_bytes = UINT32_MAX
      /\ earlySent = 0 /\ earlyGot = 0
  BY <1>1 DEF Init
<1>3. cfg.early_limit \in Nat
  BY <1>1, ConfigsAssumption DEF Init, Config
<1>4. /\ Stream("client") = <<>> /\ Stream("server") = <<>>
  BY <1>2, Sides DEF Stream
<1>5. /\ enc["client"] = NoKey /\ dec["client"] = NoKey /\ enc["server"] = NoKey /\ dec["server"] = NoKey
      /\ transcript["server"] = <<>> /\ sendbuf["server"] = <<>>
  BY <1>2, Sides
<1>6. ClientHonest
  BY <1>2, <1>5 DEF ClientHonest, ClientHellos, ClientFlight
<1>7. ClientEarly
  <2>1. max_early_data_size <= cfg.early_limit /\ earlySent <= cfg.early_limit
    BY <1>2, <1>3
  <2>2. ~(max_early_data_size > 0) /\ ~(earlySent > 0)
    BY <1>2
  <2>3. /\ state["client"] = "CLIENT_HANDSHAKE_START" /\ using_early_data = FALSE /\ earlySent = 0
        /\ enc["client"] = NoKey
    BY <1>2, <1>5
  <2>4. QED BY ONLY <2>1, <2>2, <2>3 DEF ClientEarly, ClientHellos, ClientFlight
<1>8. ServerHonest
  BY <1>2, <1>5 DEF ServerHonest, ServerHellos, ServerTh
<1>9. EarlyCounted /\ Calm
  BY <1>2, <1>4 DEF EarlyCounted, Calm
<1>10. Silent
  BY <1>2, <1>4 DEF Silent
<1>11. ServerPhase = "SERVER_EXPECT_CLIENT_HELLO"
  BY <1>2 DEF ServerPhase, CookieSent
<1>12. ClientPoint = ClientGoal /\ ServerPoint = ServerGoal
  <2>1. NoKey.seq = 0
    BY KindsAre DEF Kinds
  <2>2. ClientPoint = ClientGoal
    BY <1>2, <1>5, <1>11, <2>1 DEF ClientPoint, ClientPhase, ClientGoal
  <2>3. ServerPoint = ServerGoal
    BY <1>2, <1>5, <1>11, <2>1 DEF ServerPoint, ServerGoal, EarlyRead
  <2>4. QED BY <2>2, <2>3
<1>13. /\ Walk("client", cfg, Stream("server"), ClientPoint, ClientGoal)
       /\ Walk("server", cfg, Stream("client"), ServerPoint, ServerGoal)
  BY <1>4, <1>12, WalkNone
<1>14. \A s \in Side : Walk(s, cfg, Stream(Peer(s)), Point(s), Goal(s))
  BY <1>13, Sides DEF Side, Point, Goal
<1>15. QED BY <1>1, <1>6, <1>7, <1>8, <1>9, <1>10, <1>14 DEF Honest

(* Every step of an honest handshake leads to an honest handshake.          *)
LEMMA HonestStep ==
  ASSUME LocalInv, AgreementInv, Honest, [Next]_vars, faults' = faults
  PROVE  Honest'
<1>1. CASE ClientSteps
  BY <1>1, SendHelloHonest, RetryHonest, ServerHelloHonest, EncryptedExtensionsHonest,
     CertificateRequestHonest, CertificateHonest, CertificateVerifyHonest, ClientFinishedHonest,
     ClientPostHonest, NoClientError DEF ClientSteps
<1>2. CASE ServerSteps
  BY <1>2, NoHelloFails, ServerRetryHonest, ServerStatelessRetryHonest, ServerHandleHelloHonest,
     EndOfEarlyDataHonest, ServerCertificatesHonest, ServerFinishedHonest, NoServerError,
     SkipHonest DEF ServerSteps
<1>3. ASSUME NEW s \in Side, CommonSteps(s) PROVE Honest'
  <2>1. s = "client" \/ s = "server"
    BY DEF Side
  <2>2. CASE Flush(s)
    BY <2>2, FlushHonest
  <2>3. CASE HandleCCS(s)
    BY <2>1, <2>3, ClientCCSHonest, ServerCCSHonest
  <2>4. CASE handle_alert(s)
    BY <2>4, NoAlert
  <2>5. CASE ReceiveData(s)
    BY <2>1, <2>5, ClientPostHonest, ServerDataHonest
  <2>6. CASE RejectRecord(s)
    BY <2>6, NothingRefused
  <2>7. QED BY <1>3, <2>2, <2>3, <2>4, <2>5, <2>6 DEF CommonSteps
<1>4. CASE SendEarlyData
  BY <1>4, SendEarlyDataHonest
<1>5. ASSUME NEW s \in Side, ptls_send(s) PROVE Honest'
  <2>1. s = "client" \/ s = "server"
    BY DEF Side
  <2>2. QED BY <1>5, <2>1, ClientSendHonest, ServerSendHonest
<1>6. ASSUME NEW s \in Side, Alter(s) PROVE Honest'
  <2>1. faults' = faults + 1 /\ faults \in Nat
    BY <1>6 DEF Alter, LocalInv, TypeInv
  <2>2. QED BY <2>1
<1>7. CASE UNCHANGED vars
  BY <1>7, StutterHonest
<1>8. QED BY <1>1, <1>2, <1>3, <1>4, <1>5, <1>6, <1>7 DEF Next

(* The configuration stays, and a fault is an altered record.               *)
Faultless == cfg' = cfg /\ faults' = faults

(* Only Alter injects a fault, and no step changes the configuration.       *)
LEMMA FaultsCounted ==
  ASSUME [Next]_vars
  PROVE  Faultless \/ (cfg' = cfg /\ \E s \in Side : Alter(s))
<1>1. CASE ClientSteps
  <2>1. CASE \/ send_client_hello \/ handle_hello_retry_request \/ client_handle_hello
             \/ client_handle_finished
    BY <2>1 DEF send_client_hello, handle_hello_retry_request, client_handle_hello,
                client_handle_finished, Faultless
  <2>2. CASE \/ client_handle_encrypted_extensions \/ client_handle_certificate_request
             \/ client_handle_certificate \/ client_handle_certificate_verify
    BY <2>2 DEF client_handle_encrypted_extensions, client_handle_certificate_request,
                client_handle_certificate, client_handle_certificate_verify, ClientStep, Faultless
  <2>3. CASE client_handle_new_session_ticket \/ ClientError
    BY <2>3 DEF client_handle_new_session_ticket, ClientError, Fail, FailWith, Faultless
  <2>4. QED BY <1>1, <2>1, <2>2, <2>3 DEF ClientSteps
<1>2. CASE ServerSteps
  <2>1. CASE ServerRejectsHello \/ ServerSignFails \/ ServerError \/ ServerSkipEarlyData
    BY <2>1 DEF ServerRejectsHello, ServerSignFails, ServerError, ServerSkipEarlyData, Fail,
                FailWith, Faultless
  <2>2. CASE ServerRetry \/ ServerStatelessRetry \/ server_handle_end_of_early_data
             \/ server_handle_finished
    BY <2>2 DEF ServerRetry, ServerStatelessRetry, server_handle_end_of_early_data,
                server_handle_finished, Faultless
  <2>3. CASE server_handle_hello
    BY <2>3, ServerHelloParts DEF Faultless
  <2>4. CASE server_handle_certificate \/ server_handle_certificate_verify
    BY <2>4 DEF server_handle_certificate, server_handle_certificate_verify, ServerStep, Faultless
  <2>5. QED BY <1>2, <2>1, <2>2, <2>3, <2>4 DEF ServerSteps
<1>3. ASSUME NEW s \in Side, CommonSteps(s) PROVE Faultless
  BY <1>3 DEF CommonSteps, Flush, HandleCCS, handle_alert, ReceiveData, RejectRecord, Fail,
              FailWith, Faultless
<1>4. CASE SendEarlyData
  BY <1>4 DEF SendEarlyData, Sends, Faultless
<1>5. ASSUME NEW s \in Side, ptls_send(s) PROVE Faultless
  BY <1>5 DEF ptls_send, Sends, Faultless
<1>6. ASSUME NEW s \in Side, Alter(s) PROVE cfg' = cfg
  BY <1>6 DEF Alter
<1>7. CASE UNCHANGED vars
  BY <1>7 DEF vars, Faultless
<1>8. QED BY <1>1, <1>2, <1>3, <1>4, <1>5, <1>6, <1>7 DEF Next

(* Every step keeps the invariant.                                          *)
LEMMA HonestNext == LocalInv /\ AgreementInv /\ HonestInv /\ [Next]_vars => HonestInv'
<1>1. SUFFICES ASSUME LocalInv, AgreementInv, HonestInv, [Next]_vars, GCompatible(cfg'), faults' = 0
               PROVE  Honest'
  BY DEF HonestInv
<1>2. faults \in Nat
  BY <1>1 DEF LocalInv, TypeInv
<1>3. ~\E s \in Side : Alter(s)
  <2>1. ASSUME NEW s \in Side, Alter(s) PROVE faults' = faults + 1
    BY <2>1 DEF Alter
  <2>2. QED BY <1>1, <1>2, <2>1
<1>4. cfg' = cfg /\ faults' = faults
  BY <1>1, <1>3, FaultsCounted DEF Faultless
<1>5. Honest
  BY <1>1, <1>4 DEF HonestInv
<1>6. QED BY <1>1, <1>4, <1>5, HonestStep

(* With compatible configurations and a network that alters nothing, no     *)
(* call of either endpoint fails: no record is refused, no alert is sent or *)
(* read and no handler returns an error, for every combination of           *)
(* resumption, early data, retries, client authentication and tickets, and  *)
(* every interleaving of the two endpoints and their data.                  *)
THEOREM HonestRunsSucceed == Spec => []HonestNeverFails
<1>1. Init => LocalInv /\ TrustInv /\ AgreementInv /\ HonestInv
  BY LocalInit, TrustInit, AgreementInit, HonestInit
<1>2. LocalInv /\ TrustInv /\ AgreementInv /\ HonestInv /\ [Next]_vars =>
        (LocalInv /\ TrustInv /\ AgreementInv /\ HonestInv)'
  BY LocalNext, TrustNext, AgreementNext, HonestNext
<1>3. HonestInv => HonestNeverFails
  BY DEF HonestInv, Honest, Calm, HonestNeverFails, Compatible, Retries, GCompatible, GRetries,
         GAuth, GEarly
<1>4. QED BY <1>1, <1>2, <1>3, PTL DEF Spec, Safety
=============================================================================
