---------------------- MODULE HandshakeAgreementProofs ----------------------
(***************************************************************************)
(* Whoever completes the handshake has authenticated its peer, and agrees  *)
(* with it on the mode, the key schedule, the secrets and what was hashed. *)
(***************************************************************************)
EXTENDS HandshakeProofs

(***************************************************************************)
(* Authentication.  The invariant says what the certificates, signatures   *)
(* and PSKs on their way are worth, and what an endpoint that waits for    *)
(* the next of them has already verified.                                  *)
(***************************************************************************)

(* What a certificate, a signature, a binder and a selected PSK on their    *)
(* way from s are worth.                                                    *)
CertificateOf(s) == IF s = "client" THEN cfg.client_certificate ELSE cfg.server_certificate

RecordTrust(s, r) ==
    LET m == r.msg IN
    /\ m.type = "CERT" /\ m.has = {"ok"} => CertificateOf(s) \notin {"none", "bad"}
    /\ m.type = "CV" => CertificateOf(s) \in {"ok", "bad"}
    /\ s = "client" /\ m.type = "CH" /\ cfg.ticket = "mismatch" =>
         m.mac # <<>> /\ m.mac[1].ikm = <<"other_psk">>
    /\ s = "server" /\ m.type = "SH" /\ "psk" \in m.has => cfg.ticket \in {"valid", "late"}

FlightTrust == \A s \in Side : \A r \in InFlight(s) : RecordTrust(s, r)

(* What an endpoint has verified by the time it reaches a state.            *)
ClientTrust ==
    LET st == state["client"] IN
    /\ st \in ClientFlight \cup {"CLIENT_POST_HANDSHAKE"} /\ is_psk_handshake["client"] =>
         /\ cfg.ticket \in {"valid", "late"}
         /\ st \in {"CLIENT_EXPECT_ENCRYPTED_EXTENSIONS", "CLIENT_EXPECT_FINISHED",
                    "CLIENT_POST_HANDSHAKE"}
    /\ st = "CLIENT_EXPECT_CERTIFICATE_VERIFY" => cfg.server_certificate \notin {"none", "bad"}
    /\ st \in {"CLIENT_EXPECT_FINISHED", "CLIENT_POST_HANDSHAKE"} /\ ~is_psk_handshake["client"] =>
         cfg.server_certificate = "ok"

ServerTrust ==
    LET st == state["server"] IN
    cfg.require_client_authentication =>
        /\ ~is_psk_handshake["server"]
        /\ st # "SERVER_EXPECT_END_OF_EARLY_DATA"
        /\ st = "SERVER_EXPECT_CERTIFICATE_VERIFY" => cfg.client_certificate \notin {"none", "bad"}
        /\ st \in {"SERVER_EXPECT_FINISHED", "SERVER_POST_HANDSHAKE"} => cfg.client_certificate = "ok"

TrustInv == FlightTrust /\ ClientTrust /\ ServerTrust
-----------------------------------------------------------------------------
(* What happens to the records on their way.  A record stays as it was sent *)
(* but for an alteration; an endpoint that does not move on sends nothing   *)
(* but alerts and data, and a new server object's HelloRetryRequest.        *)
Same(r, q) ==
    /\ r.msg.type = q.msg.type /\ r.msg.mac = q.msg.mac /\ r.seq \in {q.seq, -1}
    /\ \/ r.msg.has = q.msg.has
       \/ /\ r.msg.type \in {"CH", "SH", "HRR"}
          /\ \E change \in {"random", "extension"} : r.msg.has = q.msg.has \cup {change}

Fresh(s, r) ==
    \/ r.msg.type \in {"ALERT", "DATA"}
    \/ /\ s = "server" /\ state["server"] = "SERVER_EXPECT_CLIENT_HELLO"
       /\ r.msg.type \in {"HRR", "CCS"}

(* The step of an endpoint that does not move on, and of the network.       *)
QuietStep ==
    /\ cfg' = cfg /\ state' = state /\ sched' = sched /\ transcript' = transcript
    /\ pending_handshake_secret' = pending_handshake_secret
    /\ is_psk_handshake' = is_psk_handshake
    /\ offered_psk' = offered_psk /\ using_early_data' = using_early_data
    /\ certificate_request' = certificate_request
    /\ early_data_acceptance' = early_data_acceptance
    /\ pending_traffic_secret' = pending_traffic_secret
    /\ \A s \in Side : /\ dec'[s].secret = dec[s].secret
                       /\ state[s] \notin ServerHellos => enc'[s].secret = enc[s].secret
    /\ \A s \in Side : \A r \in InFlight(s)' :
         (\E q \in InFlight(s) : Same(r, q)) \/ Fresh(s, r)

LEMMA FlightNow ==
  \A s \in Side : InFlight(s)' = Elems(sendbuf'[s]) \cup Elems(wire'[s])
BY DEF InFlight, Elems

LEMMA SameAs == \A r : Same(r, r)
BY DEF Same

LEMMA ReadFlight ==
  ASSUME TypeInv, NEW s \in Side, wire[Peer(s)] # <<>>, Consume(s)
  PROVE  /\ Elems(wire'[Peer(s)]) \subseteq Elems(wire[Peer(s)]) /\ wire'[s] = wire[s]
         /\ wire'[Peer(s)] = Tail(wire[Peer(s)])
         /\ First(s) \in InFlight(Peer(s)) /\ First(s) = wire[Peer(s)][1]
         /\ Peer(s) \in Side /\ Peer(s) # s /\ \A t \in Side : t = s \/ t = Peer(s)
<1>1. Peer(s) \in Side /\ Peer(s) # s /\ \A t \in Side : t = s \/ t = Peer(s)
  BY DEF Side, Peer
<1>2. wire[Peer(s)] \in Seq(Recs) /\ wire \in [Side -> Seq(Recs)]
  BY <1>1 DEF TypeInv
<1>3. wire'[Peer(s)] = Tail(wire[Peer(s)]) /\ wire'[s] = wire[s]
  BY <1>1, <1>2 DEF Consume
<1>4. Elems(Tail(wire[Peer(s)])) \subseteq Elems(wire[Peer(s)]) /\ wire[Peer(s)][1] \in Elems(wire[Peer(s)])
  BY <1>2, ElemsOf
<1>. QED  BY <1>1, <1>3, <1>4 DEF First, InFlight

LEMMA ReadQuiet ==
  ASSUME TypeInv, NEW s \in Side, Ready(s), Consume(s), sendbuf' = sendbuf
  PROVE  \A t \in Side : InFlight(t)' \subseteq InFlight(t)
<1>1. /\ Elems(wire'[Peer(s)]) \subseteq Elems(wire[Peer(s)]) /\ wire'[s] = wire[s]
      /\ Peer(s) \in Side /\ \A t \in Side : t = s \/ t = Peer(s)
  BY ReadFlight DEF Ready
<1>2. \A t \in Side : Elems(wire'[t]) \subseteq Elems(wire[t])
  BY <1>1
<1>. QED  BY <1>2, FlightNow DEF InFlight

LEMMA FailQuiet ==
  ASSUME LocalInv, NEW s \in Side, NEW code \in Errors, NEW key \in Keys, Ready(s),
         FailWith(s, code, key), key.secret = enc[s].secret \/ state[s] \in ServerHellos
  PROVE  QuietStep
<1>1. TypeInv /\ wire[Peer(s)] # <<>> /\ Consume(s)
  BY DEF LocalInv, Ready, FailWith
<1>2. /\ Elems(wire'[Peer(s)]) \subseteq Elems(wire[Peer(s)]) /\ wire'[s] = wire[s]
      /\ Peer(s) \in Side /\ \A t \in Side : t = s \/ t = Peer(s)
  BY <1>1, ReadFlight
<1>3. \A t \in Side : Elems(wire'[t]) \subseteq Elems(wire[t])
  BY <1>2
<1>. DEFINE alert == Plain("ALERT", {code})
            k == AlertKey(s, key)
            rec == [secret |-> k.secret, seq |-> k.seq, msg |-> alert]
<1>4. k \in Keys /\ alert \in Messages /\ alert.type = "ALERT"
  <2>1. "ALERT" \in Names /\ {code} \in SUBSET Names
    BY NamesAre
  <2>2. alert \in Messages
    BY <2>1, MessageTypes
  <2>. QED  BY <2>2, KeyTypes DEF AlertKey, Plain, Message
<1>5. Records(k, <<alert>>) = <<rec>> /\ rec \in Recs
  BY <1>4, OneRecord
<1>6. rec.msg.type = "ALERT" /\ Elems(<<rec>>) = {rec}
  BY <1>4, <1>5, ElemsOf, ZenonT(60)
<1>7. sendbuf' = sendbuf \/ sendbuf' = [sendbuf EXCEPT ![s] = <<rec>>]
  BY <1>5 DEF FailWith
<1>. HIDE DEF rec, alert, k
<1>8. \A t \in Side : \A r \in Elems(sendbuf'[t]) : r \in Elems(sendbuf[t]) \/ r.msg.type = "ALERT"
  <2>1. CASE sendbuf' = sendbuf
    BY <2>1
  <2>2. CASE sendbuf' = [sendbuf EXCEPT ![s] = <<rec>>]
    <3>1. sendbuf'[s] = <<rec>> /\ \A t \in Side : t # s => sendbuf'[t] = sendbuf[t]
      BY <1>1, <2>2 DEF TypeInv
    <3>. QED  BY <1>6, <3>1
  <2>. QED  BY <1>7, <2>1, <2>2
<1>9. \A t \in Side : \A r \in InFlight(t)' : r \in InFlight(t) \/ r.msg.type = "ALERT"
  BY <1>3, <1>8, FlightNow DEF InFlight
<1>10. \A t \in Side : \A r \in InFlight(t)' : (\E q \in InFlight(t) : Same(r, q)) \/ Fresh(t, r)
  BY <1>9, SameAs DEF Fresh
<1>11. \A t \in Side : state[t] \notin ServerHellos => enc'[t].secret = enc[t].secret
  <2>1. enc' = enc \/ enc' = [enc EXCEPT ![s] = key]
    BY DEF FailWith
  <2>. QED  BY <1>1, <2>1 DEF TypeInv
<1>. QED  BY <1>10, <1>11 DEF FailWith, QuietStep, schedule, clientVars

LEMMA FailsQuiet ==
  ASSUME LocalInv,
         \/ \E s \in Side : RejectRecord(s)
         \/ ClientError \/ ServerError \/ ServerRejectsHello \/ ServerSignFails
  PROVE  QuietStep
<1>1. \A s \in Side : enc[s] \in Keys
  BY DEF LocalInv, TypeInv
<1>2. ASSUME NEW s \in Side, RejectRecord(s) PROVE QuietStep
  <2>1. Ready(s) /\ RejectCode(s) # "none" /\ FailWith(s, RejectCode(s), enc[s])
    BY <1>2 DEF RejectRecord, Fail
  <2>2. RejectCode(s) \in Errors
    BY <2>1 DEF RejectCode, Errors
  <2>. QED  BY <1>1, <2>1, <2>2, FailQuiet
<1>3. CASE ClientError
  <2>1. PICK code \in Errors : Ready("client") /\ Fail("client", code)
    BY <1>3 DEF ClientError, Errors, ClientTakes, Accepts
  <2>. QED  BY <1>1, <2>1, Sides, FailQuiet DEF Fail
<1>4. CASE ServerError
  <2>1. PICK code \in Errors : Ready("server") /\ Fail("server", code)
    BY <1>4 DEF ServerError, Errors, ServerTakes, Accepts
  <2>. QED  BY <1>1, <2>1, Sides, FailQuiet DEF Fail
<1>5. CASE ServerRejectsHello
  <2>1. PICK code \in Errors : Ready("server") /\ Fail("server", code)
    BY <1>5 DEF ServerRejectsHello, HelloError, Errors, ServerTakes, Accepts
  <2>. QED  BY <1>1, <2>1, Sides, FailQuiet DEF Fail
<1>6. CASE ServerSignFails
  <2>. DEFINE ch == First("server").msg
              n == Len(Extensions(ch)) + 1
              key == Advance(HelloKey(ch), n)
  <2>1. ServerTakes("CH") /\ FailWith("server", "HANDSHAKE_FAILURE", key)
    BY <1>6 DEF ServerSignFails, HelloKey
  <2>2. TypeInv /\ ServerInv
    BY DEF LocalInv
  <2>3. Ready("server") /\ state["server"] \in ServerHellos /\ ch \in Messages
    BY <2>1, <2>2, Sides, ServerExpects, ReadTypes
  <2>4. HelloKey(ch) \in Keys /\ n \in Nat
    BY <2>2, <2>3, HelloTypes, ExtensionsType
  <2>. HIDE DEF n
  <2>5. key \in Keys
    BY <2>4, KeyTypes
  <2>6. "HANDSHAKE_FAILURE" \in Errors
    BY DEF Errors
  <2>. HIDE DEF key, ch
  <2>. QED  BY <2>1, <2>3, <2>5, <2>6, Sides, FailQuiet
<1>. QED  BY <1>2, <1>3, <1>4, <1>5, <1>6

LEMMA SkipQuiet ==
  ASSUME LocalInv, ServerSkipEarlyData
  PROVE  QuietStep
<1>1. CASE early_data_skipped_bytes' > SKIP_LIMIT
  <2>1. /\ "HANDSHAKE_FAILURE" \in Errors /\ enc["server"] \in Keys /\ Ready("server")
        /\ FailWith("server", "HANDSHAKE_FAILURE", enc["server"])
    BY <1>1, Sides DEF Errors, LocalInv, TypeInv, ServerSkipEarlyData
  <2>. QED  BY <2>1, Sides, FailQuiet
<1>2. CASE ~(early_data_skipped_bytes' > SKIP_LIMIT)
  <2>1. Ready("server") /\ Consume("server") /\ sendbuf' = sendbuf /\ enc' = enc /\ dec' = dec
    BY <1>2 DEF ServerSkipEarlyData, keys
  <2>2. \A t \in Side : InFlight(t)' \subseteq InFlight(t)
    BY <2>1, Sides, ReadQuiet DEF LocalInv
  <2>3. \A t \in Side : \A r \in InFlight(t)' : (\E q \in InFlight(t) : Same(r, q)) \/ Fresh(t, r)
    BY <2>2, SameAs
  <2>. QED
    BY <1>2, <2>1, <2>3 DEF ServerSkipEarlyData, QuietStep, schedule, clientVars, keys
<1>. QED  BY <1>1, <1>2

LEMMA CommonQuiet ==
  ASSUME LocalInv, NEW s \in Side, CommonSteps(s)
  PROVE  QuietStep
<1>1. TypeInv
  BY DEF LocalInv
<1>2. CASE Flush(s)
  <2>. DEFINE p == wire[s]
              q == sendbuf[s]
  <2>1. wire'[s] = p \o q /\ sendbuf'[s] = <<>> /\ p \in Seq(Recs) /\ q \in Seq(Recs)
        /\ \A t \in Side : t # s => wire'[t] = wire[t] /\ sendbuf'[t] = sendbuf[t]
    BY <1>1, <1>2 DEF Flush, TypeInv
  <2>. HIDE DEF p, q
  <2>2. Elems(p \o q) = Elems(p) \cup Elems(q) /\ Elems(<<>>) = {}
    BY <2>1, ElemsOf
  <2>3. InFlight(s)' = InFlight(s)
    BY <2>1, <2>2, FlightNow DEF InFlight, p, q
  <2>4. \A t \in Side : InFlight(t)' = InFlight(t)
    BY <2>1, <2>3, FlightNow DEF InFlight
  <2>5. \A t \in Side : \A r \in InFlight(t)' : (\E x \in InFlight(t) : Same(r, x)) \/ Fresh(t, r)
    BY <2>4, SameAs
  <2>. QED  BY <1>2, <2>5 DEF Flush, QuietStep, schedule, keys, clientVars, serverVars
<1>3. CASE HandleCCS(s)
  <2>1. Ready(s) /\ Consume(s) /\ sendbuf' = sendbuf
    BY <1>3 DEF HandleCCS
  <2>2. \A t \in Side : \A r \in InFlight(t)' : (\E q \in InFlight(t) : Same(r, q)) \/ Fresh(t, r)
    BY <1>1, <2>1, ReadQuiet, SameAs
  <2>. QED  BY <1>3, <2>2 DEF HandleCCS, QuietStep, schedule, keys, clientVars, serverVars
<1>4. CASE handle_alert(s)
  <2>1. /\ Ready(s) /\ Consume(s) /\ wire[Peer(s)] # <<>>
        /\ sendbuf' = [sendbuf EXCEPT ![s] = <<>>]
    BY <1>4 DEF handle_alert, Ready
  <2>2. \A t \in Side : Elems(sendbuf'[t]) \subseteq Elems(sendbuf[t])
    <3>1. sendbuf'[s] = <<>> /\ \A t \in Side : t # s => sendbuf'[t] = sendbuf[t]
      BY <1>1, <2>1 DEF TypeInv
    <3>. QED  BY <3>1, ElemsOf
  <2>3. /\ Elems(wire'[Peer(s)]) \subseteq Elems(wire[Peer(s)]) /\ wire'[s] = wire[s]
        /\ Peer(s) \in Side /\ \A t \in Side : t = s \/ t = Peer(s)
    BY <1>1, <2>1, ReadFlight
  <2>4. \A t \in Side : InFlight(t)' \subseteq InFlight(t)
    BY <2>2, <2>3, FlightNow DEF InFlight
  <2>5. \A t \in Side : \A r \in InFlight(t)' : (\E q \in InFlight(t) : Same(r, q)) \/ Fresh(t, r)
    BY <2>4, SameAs
  <2>. QED  BY <1>4, <2>5 DEF handle_alert, QuietStep, schedule, keys, clientVars, serverVars
<1>5. CASE ReceiveData(s)
  <2>1. Ready(s) /\ Consume(s) /\ sendbuf' = sendbuf /\ enc' = enc
        /\ dec' = [dec EXCEPT ![s] = Advance(dec[s], 1)]
    BY <1>5 DEF ReceiveData, Accepts
  <2>2. \A t \in Side : \A r \in InFlight(t)' : (\E q \in InFlight(t) : Same(r, q)) \/ Fresh(t, r)
    BY <1>1, <2>1, ReadQuiet, SameAs
  <2>3. \A t \in Side : dec'[t].secret = dec[t].secret
    <3>1. Advance(dec[s], 1).secret = dec[s].secret
      BY <1>1, KeyTypes DEF TypeInv
    <3>. QED  BY <1>1, <2>1, <3>1 DEF TypeInv
  <2>. QED  BY <1>5, <2>1, <2>2, <2>3 DEF ReceiveData, QuietStep, schedule, clientVars, serverVars
<1>6. CASE RejectRecord(s)
  BY <1>6, FailsQuiet
<1>. QED  BY <1>2, <1>3, <1>4, <1>5, <1>6 DEF CommonSteps

LEMMA SendsQuiet ==
  ASSUME LocalInv, SendEarlyData \/ \E s \in Side : ptls_send(s)
  PROVE  QuietStep
<1>1. PICK s \in Side : Sends(s, Plain("DATA", {}))
  BY Sides DEF SendEarlyData, ptls_send
<1>2. TypeInv /\ enc[s] \in Keys
  BY DEF LocalInv, TypeInv
<1>. DEFINE rec == [secret |-> enc[s].secret, seq |-> enc[s].seq, msg |-> Plain("DATA", {})]
            p == wire[s]
<1>3. Plain("DATA", {}) \in Messages /\ Plain("DATA", {}).type = "DATA"
  <2>1. "DATA" \in Names /\ {} \in SUBSET Names
    BY NamesAre
  <2>2. Plain("DATA", {}) \in Messages
    BY <2>1, MessageTypes
  <2>. QED  BY <2>2 DEF Plain, Message
<1>4. /\ Records(enc[s], <<Plain("DATA", {})>>) = <<rec>> /\ rec \in Recs
  BY <1>2, <1>3, OneRecord
<1>5. rec.msg.type = "DATA"
  BY <1>3
<1>6. /\ wire'[s] = p \o <<rec>> /\ p \in Seq(Recs) /\ sendbuf' = sendbuf
      /\ \A t \in Side : t # s => wire'[t] = wire[t]
  BY <1>1, <1>2, <1>4 DEF Sends, TypeInv
<1>. HIDE DEF rec, p
<1>. DEFINE q == <<rec>>
<1>7. q \in Seq(Recs) /\ Elems(q) = {rec} /\ wire'[s] = p \o q
  BY <1>4, <1>6, ElemsOf
<1>. HIDE DEF q
<1>8. Elems(p \o q) = Elems(p) \cup Elems(q)
  BY <1>6, <1>7, ElemsOf
<1>9. \A t \in Side : \A r \in InFlight(t)' : r \in InFlight(t) \/ r = rec
  BY <1>6, <1>7, <1>8, FlightNow DEF InFlight, p
<1>10. \A t \in Side : \A r \in InFlight(t)' : (\E x \in InFlight(t) : Same(r, x)) \/ Fresh(t, r)
  BY <1>5, <1>9, SameAs DEF Fresh
<1>11. \A t \in Side : enc'[t].secret = enc[t].secret
  <2>1. Advance(enc[s], 1).secret = enc[s].secret
    BY <1>2, KeyTypes
  <2>. QED  BY <1>1, <1>2, <2>1 DEF Sends, TypeInv
<1>. QED  BY <1>1, <1>10, <1>11 DEF Sends, QuietStep, schedule, clientVars, serverVars

LEMMA AlterQuiet ==
  ASSUME LocalInv, NEW s \in Side, Alter(s)
  PROVE  QuietStep
<1>1. TypeInv
  BY DEF LocalInv
<1>. DEFINE p == wire[s]
<1>2. PICK x \in Recs :
           /\ p # <<>> /\ wire' = [wire EXCEPT ![s] = [p EXCEPT ![1] = x]]
           /\ Same(x, p[1])
  BY <1>1, Altered DEF Same
<1>3. p \in Seq(Recs) /\ wire'[s] = [p EXCEPT ![1] = x] /\ \A t \in Side : t # s => wire'[t] = wire[t]
  BY <1>1, <1>2 DEF TypeInv
<1>. HIDE DEF p
<1>4. \A r \in Elems([p EXCEPT ![1] = x]) : r = x \/ r \in Elems(p)
  <2>1. Len([p EXCEPT ![1] = x]) = Len(p) /\ \A i \in 1..Len(p) : i # 1 => [p EXCEPT ![1] = x][i] = p[i]
    BY <1>2, <1>3
  <2>2. 1 \in 1..Len(p) => [p EXCEPT ![1] = x][1] = x
    BY <1>2, <1>3
  <2>. QED  BY <2>1, <2>2 DEF Elems
<1>5. p[1] \in Elems(p)
  BY <1>2, <1>3, ElemsOf
<1>6. sendbuf' = sendbuf
  BY DEF Alter
<1>7. \A t \in Side : \A r \in InFlight(t)' : \E q \in InFlight(t) : Same(r, q)
  <2>. TAKE t \in Side
  <2>1. CASE t # s
    BY <1>3, <1>6, <2>1, FlightNow, SameAs DEF InFlight
  <2>2. CASE t = s
    <3>1. \A r \in InFlight(t)' : r \in InFlight(t) \/ r = x
      BY <1>3, <1>4, <1>6, <2>2, FlightNow DEF InFlight, p
    <3>2. p[1] \in InFlight(t)
      BY <1>5, <2>2 DEF InFlight, p
    <3>. QED  BY <1>2, <3>1, <3>2, SameAs
  <2>. QED  BY <2>1, <2>2
<1>. QED  BY <1>7 DEF Alter, QuietStep, schedule, keys, clientVars, serverVars

LEMMA NewSessionTicketQuiet ==
  ASSUME LocalInv, client_handle_new_session_ticket
  PROVE  QuietStep
<1>1. /\ ClientTakes("NST") /\ Consume("client") /\ sendbuf' = sendbuf /\ enc' = enc
      /\ dec' = [dec EXCEPT !["client"] = Advance(dec["client"], 1)]
  BY DEF client_handle_new_session_ticket
<1>2. Ready("client")
  BY <1>1 DEF ClientTakes, Accepts
<1>3. \A t \in Side : \A r \in InFlight(t)' : (\E q \in InFlight(t) : Same(r, q)) \/ Fresh(t, r)
  BY <1>1, <1>2, Sides, ReadQuiet, SameAs DEF LocalInv
<1>4. \A t \in Side : dec'[t].secret = dec[t].secret
  <2>1. Advance(dec["client"], 1).secret = dec["client"].secret
    BY Sides, KeyTypes DEF LocalInv, TypeInv
  <2>. QED  BY <1>1, <2>1, Sides DEF LocalInv, TypeInv
<1>. QED
  BY <1>1, <1>3, <1>4
     DEF client_handle_new_session_ticket, QuietStep, schedule, clientVars, serverVars

LEMMA StatelessRetryQuiet ==
  ASSUME LocalInv, ServerStatelessRetry
  PROVE  QuietStep
<1>. DEFINE ch == First("server").msg
            a == Records(NoKey, <<CookieMessage(ch)>>)
            b == CCS("legacy_session_id" \in ch.has)
            p == wire["server"]
<1>1. /\ ServerTakes("CH") /\ NeedsRetry(ch) /\ sendbuf' = sendbuf
      /\ wire'["client"] = Tail(wire["client"]) /\ wire'["server"] = p \o a \o b
  BY DEF ServerStatelessRetry, CookieMessage
<1>2. TypeInv /\ ServerInv
  BY DEF LocalInv
<1>3. /\ state["server"] = "SERVER_EXPECT_CLIENT_HELLO" /\ wire["client"] # <<>> /\ ch \in Messages
  <2>1. /\ state["server"] \in ServerHellos /\ wire["client"] # <<>> /\ ch \in Messages
    BY <1>1, <1>2, Sides, ServerExpects, ReadTypes
  <2>. QED  BY <1>1, <2>1 DEF NeedsRetry, Stateful, ServerHellos
<1>4. a \o b \in Seq(Recs) /\ \A r \in Elems(a \o b) : r.msg.type \in {"HRR", "CCS"}
  BY <1>3, CookieTypes DEF CookieRecords
<1>5. a \in Seq(Recs) /\ b \in Seq(Recs) /\ p \in Seq(Recs) /\ wire["client"] \in Seq(Recs)
  <2>1. CookieMessage(ch) \in Messages /\ ("legacy_session_id" \in ch.has) \in BOOLEAN
    BY <1>3, CookieTypes
  <2>. QED  BY <1>2, <2>1, Sides, KeyTypes, OneRecord, CCSType DEF TypeInv
<1>. HIDE DEF a, b, p
<1>6. Elems(a \o b) = Elems(a) \cup Elems(b) /\ p \o a \in Seq(Recs)
      /\ Elems(p \o a) = Elems(p) \cup Elems(a)
  BY <1>5, ElemsOf
<1>7. Elems(p \o a \o b) = Elems(p \o a) \cup Elems(b)
  <2>1. \A x \in Seq(Recs), y \in Seq(Recs) : Elems(x \o y) = Elems(x) \cup Elems(y)
    BY ElemsOf
  <2>. DEFINE pa == p \o a
  <2>2. pa \in Seq(Recs)
    BY <1>6
  <2>. HIDE DEF pa
  <2>3. Elems(pa \o b) = Elems(pa) \cup Elems(b)
    BY <1>5, <2>1, <2>2
  <2>. QED  BY <2>3 DEF pa
<1>8. \A r \in InFlight("server")' : r \in InFlight("server") \/ r.msg.type \in {"HRR", "CCS"}
  BY <1>1, <1>4, <1>6, <1>7, FlightNow, Sides DEF InFlight, p
<1>9. InFlight("client")' \subseteq InFlight("client")
  <2>1. Elems(Tail(wire["client"])) \subseteq Elems(wire["client"])
    BY <1>3, <1>5, ElemsOf
  <2>. QED  BY <1>1, <2>1, FlightNow, Sides DEF InFlight
<1>10. \A t \in Side : \A r \in InFlight(t)' : (\E x \in InFlight(t) : Same(r, x)) \/ Fresh(t, r)
  BY <1>3, <1>8, <1>9, SameAs DEF Fresh, Side
<1>. QED  BY <1>10 DEF ServerStatelessRetry, QuietStep, schedule, keys, clientVars, serverVars

-----------------------------------------------------------------------------
(* The steps keep what is known of the records on their way.                *)
LEMMA CCSElems ==
  \A cond \in BOOLEAN : CCS(cond) \in Seq(Recs) /\ \A r \in Elems(CCS(cond)) : r.msg.type = "CCS"
<1>1. Plain("CCS", {}).type = "CCS"
  BY DEF Plain, Message
<1>. QED  BY <1>1, CCSType DEF Elems

LEMMA WrittenFlight ==
  ASSUME NEW s \in Side, NEW T,
         \A t \in Side : Elems(wire'[t]) \subseteq Elems(wire[t]),
         Elems(sendbuf'[s]) = Elems(sendbuf[s]) \cup T,
         \A t \in Side : t # s => sendbuf'[t] = sendbuf[t]
  PROVE  \A t \in Side : \A r \in InFlight(t)' : r \in InFlight(t) \/ (t = s /\ r \in T)
<1>1. \A t \in Side : \A r \in Elems(sendbuf'[t]) : r \in Elems(sendbuf[t]) \/ (t = s /\ r \in T)
  OBVIOUS
<1>. QED  BY <1>1, FlightNow DEF InFlight

LEMMA Written ==
  ASSUME TypeInv, NEW s \in Side, NEW out \in Seq(Recs), wire[Peer(s)] # <<>>, Consume(s),
         sendbuf' = [sendbuf EXCEPT ![s] = sendbuf[s] \o out]
  PROVE  \A t \in Side : \A r \in InFlight(t)' : r \in InFlight(t) \/ (t = s /\ r \in Elems(out))
<1>1. /\ Elems(wire'[Peer(s)]) \subseteq Elems(wire[Peer(s)]) /\ wire'[s] = wire[s]
      /\ Peer(s) \in Side /\ Peer(s) # s /\ \A t \in Side : t = s \/ t = Peer(s)
  BY ReadFlight
<1>2. sendbuf[s] \in Seq(Recs) /\ sendbuf \in [Side -> Seq(Recs)]
  BY DEF TypeInv
<1>3. sendbuf'[s] = sendbuf[s] \o out /\ \A t \in Side : t # s => sendbuf'[t] = sendbuf[t]
  BY <1>2
<1>4. Elems(sendbuf[s] \o out) = Elems(sendbuf[s]) \cup Elems(out)
  BY <1>2, ElemsOf
<1>5. \A t \in Side : Elems(wire'[t]) \subseteq Elems(wire[t])
  BY <1>1
<1>6. Elems(sendbuf'[s]) = Elems(sendbuf[s]) \cup Elems(out)
  BY <1>3, <1>4
<1>. QED  BY <1>3, <1>5, <1>6, WrittenFlight

CertificateTrust(certificate, m) ==
    /\ m.type \in {"CERT", "CV"}
    /\ m.type = "CERT" /\ m.has = {"ok"} => certificate \notin {"none", "bad"}
    /\ m.type = "CV" => certificate \in {"ok", "bad"}

LEMMA CertificatesTrust ==
  ASSUME NEW s \in Names, NEW certificate \in Names, NEW th \in Seq(Views)
  PROVE  \A m \in Elems(Certificates(s, certificate, th)) : CertificateTrust(certificate, m)
<1>. DEFINE value == IF certificate \in {"none", "bad"} THEN certificate ELSE "ok"
            cert == Plain("CERT", {value})
            cv == Message("CV", {}, Signature(s, Append(th, View(cert))), <<>>)
            p == <<cert>>
            q == When(certificate \in {"ok", "bad"}, cv)
<1>1. value \in Names /\ (value = "ok" => certificate \notin {"none", "bad"})
  BY NamesAre
<1>2. cert.type = "CERT" /\ cert.has = {value} /\ cv.type = "CV"
  BY DEF Plain, Message
<1>. HIDE DEF value
<1>3. cert \in Messages /\ View(cert) \in Views
  <2>1. cert \in Messages
    BY <1>1, NamesAre, MessageTypes
  <2>. QED  BY <2>1, MessageTypes
<1>. HIDE DEF cert
<1>4. cv \in Messages
  <2>1. Secret(s, <<>>, <<>>) \in Secrets
    BY DEF Secret, Secrets
  <2>2. Signature(s, Append(th, View(cert))) \in Macs
    BY <1>3, <2>1, AppendType, MessageTypes DEF Signature
  <2>3. <<>> \in Cookies /\ "CV" \in Names /\ {} \in SUBSET Names
    BY NamesAre DEF Cookies
  <2>. QED  BY <2>2, <2>3, MessageTypes
<1>5. Certificates(s, certificate, th) = p \o q
  BY DEF Certificates, cert, value
<1>. HIDE DEF cv
<1>6. p \in Seq(Messages) /\ Elems(p) = {cert}
  BY <1>3, ElemsOf
<1>7. /\ q \in Seq(Messages)
      /\ Elems(q) = IF certificate \in {"ok", "bad"} THEN {cv} ELSE {}
  <2>1. <<cv>> \in Seq(Messages) /\ <<>> \in Seq(Messages)
    BY <1>4
  <2>2. Elems(<<cv>>) = {cv} /\ Elems(<<>>) = {}
    BY <1>4, ElemsOf
  <2>3. CASE certificate \in {"ok", "bad"}
    BY <2>1, <2>2, <2>3 DEF When
  <2>4. CASE certificate \notin {"ok", "bad"}
    BY <2>1, <2>2, <2>4 DEF When
  <2>. QED  BY <2>3, <2>4
<1>. HIDE DEF p, q
<1>8. Elems(p \o q) = Elems(p) \cup Elems(q)
  BY <1>6, <1>7, ElemsOf
<1>9. CertificateTrust(certificate, cert)
  BY <1>1, <1>2 DEF CertificateTrust
<1>10. certificate \in {"ok", "bad"} => CertificateTrust(certificate, cv)
  BY <1>2 DEF CertificateTrust
<1>. QED  BY <1>5, <1>6, <1>7, <1>8, <1>9, <1>10

LEMMA FlightTrustKept ==
  ASSUME FlightTrust, cfg' = cfg,
         \A s \in Side : \A r \in InFlight(s)' :
            \/ \E q \in InFlight(s) : Same(r, q)
            \/ r.msg.type \notin {"CH", "SH", "CERT", "CV"}
            \/ RecordTrust(s, r)
  PROVE  FlightTrust'
<1>1. SUFFICES ASSUME NEW s \in Side, NEW r \in InFlight(s)'
               PROVE  RecordTrust(s, r)
  BY DEF FlightTrust, RecordTrust, CertificateOf
<1>2. CASE r.msg.type \notin {"CH", "SH", "CERT", "CV"}
  BY <1>2 DEF RecordTrust
<1>3. ASSUME NEW q \in InFlight(s), Same(r, q) PROVE RecordTrust(s, r)
  <2>1. RecordTrust(s, q)
    BY DEF FlightTrust
  <2>2. r.msg.type = q.msg.type /\ r.msg.mac = q.msg.mac
    BY <1>3 DEF Same
  <2>3. r.msg.type \in {"CERT", "CV"} => r.msg.has = q.msg.has
    BY <1>3 DEF Same
  <2>4. "psk" \in r.msg.has => "psk" \in q.msg.has
    BY <1>3 DEF Same
  <2>. QED  BY <2>1, <2>2, <2>3, <2>4 DEF RecordTrust
<1>. QED  BY <1>1, <1>2, <1>3

LEMMA QuietTrust ==
  ASSUME TrustInv, QuietStep
  PROVE  TrustInv'
<1>1. \A s \in Side : \A r \in InFlight(s)' :
        (\E q \in InFlight(s) : Same(r, q)) \/ r.msg.type \notin {"CH", "SH", "CERT", "CV"}
  BY DEF QuietStep, Fresh
<1>2. FlightTrust'
  BY <1>1, FlightTrustKept DEF TrustInv, QuietStep
<1>3. ClientTrust' /\ ServerTrust'
  BY DEF TrustInv, QuietStep, ClientTrust, ServerTrust
<1>. QED  BY <1>2, <1>3 DEF TrustInv

-----------------------------------------------------------------------------
(* The steps of the client.                                                 *)
(* A ClientHello's binder is of the client's PSK.                           *)
IsHello(r) == r.msg.type = "CH" /\ (Offers => r.msg.mac # <<>> /\ r.msg.mac[1].ikm = <<ClientPsk>>)

LEMMA HelloTrust == \A r : IsHello(r) => RecordTrust("client", r)
BY Sides DEF IsHello, RecordTrust, Offers, ClientPsk

LEMMA SendClientHelloFlight ==
  ASSUME LocalInv, send_client_hello
  PROVE  /\ InFlight("server")' = InFlight("server")
         /\ \A r \in InFlight("client")' :
              r.msg.type = "CCS" \/ (IsHello(r) /\ ("early_data" \in r.msg.has => using_early_data'))
<1>. DEFINE early == Offers /\ cfg.early_data
            has == HelloExtensions \cup If(early, "early_data") \cup {cfg.key_share}
            ch == ClientHello(has, <<>>, <<>>)
            ccs == early /\ send_change_cipher_spec
            a == Records(NoKey, <<ch>>)
            b == CCS(ccs)
            rec == [secret |-> NoKey.secret, seq |-> NoKey.seq, msg |-> ch]
<1>1. TypeInv /\ cfg \in Config /\ HelloExtensions \in SUBSET Names /\ cfg.key_share \in Names
      /\ Offers \in BOOLEAN
  BY ConfigTypes DEF LocalInv
<1>2. early \in BOOLEAN /\ ccs \in BOOLEAN
  BY <1>1 DEF Config, TypeInv
<1>3. has \in SUBSET Names /\ ("early_data" \in has => early)
  <2>1. "early_data" \notin HelloExtensions
    BY DEF HelloExtensions, If
  <2>2. cfg.key_share # "early_data"
    BY <1>1 DEF Config
  <2>. QED  BY <1>1, <1>2, <2>1, <2>2, NamesAre DEF If
<1>4. <<>> \in Cookies /\ <<>> \in Seq(Views)
  BY DEF Cookies
<1>5. /\ sendbuf' = [sendbuf EXCEPT !["client"] = a \o b] /\ using_early_data' = early
      /\ wire' = wire /\ state["client"] = "CLIENT_HANDSHAKE_START"
  BY DEF send_client_hello
<1>. HIDE DEF has, early
<1>6. /\ ch \in Messages /\ ch.type = "CH" /\ ch.has = has
      /\ Offers => ch.mac # <<>> /\ ch.mac[1].ikm = <<ClientPsk>>
  BY <1>1, <1>3, <1>4, ClientHelloType, ZenonT(60)
<1>. HIDE DEF ch, ccs
<1>7. a = <<rec>> /\ rec \in Recs /\ b \in Seq(Recs) /\ \A r \in Elems(b) : r.msg.type = "CCS"
  <2>1. a = <<rec>> /\ rec \in Recs
    BY <1>6, KeyTypes, OneRecord
  <2>. QED  BY <1>2, <2>1, CCSElems
<1>8. IsHello(rec) /\ ("early_data" \in rec.msg.has => early)
  BY <1>3, <1>6 DEF IsHello
<1>. HIDE DEF rec
<1>9. Elems(a) = {rec} /\ a \in Seq(Recs)
  <2>1. <<rec>> \in Seq(Recs) /\ Elems(<<rec>>) = {rec}
    BY <1>7, ElemsOf
  <2>. QED  BY <1>7, <2>1
<1>. HIDE DEF a, b
<1>10. Elems(a \o b) = Elems(a) \cup Elems(b)
  <2>1. a \in Seq(Recs) /\ b \in Seq(Recs)
    BY <1>7, <1>9
  <2>. QED  BY <2>1, ElemsOf
<1>11. sendbuf'["client"] = a \o b /\ sendbuf'["server"] = sendbuf["server"]
  BY <1>1, <1>5, Sides DEF TypeInv
<1>12. wire["client"] = <<>> /\ Elems(<<>>) = {}
  BY <1>5, Sides, ElemsOf DEF LocalInv, QuietInv
<1>13. InFlight("server")' = InFlight("server")
  BY <1>5, <1>11, Sides, FlightNow DEF InFlight
<1>14. InFlight("client")' = Elems(a) \cup Elems(b)
  BY <1>5, <1>10, <1>11, <1>12, Sides, FlightNow
<1>. QED  BY <1>5, <1>7, <1>8, <1>9, <1>13, <1>14

LEMMA SendClientHelloTrust ==
  ASSUME LocalInv, TrustInv, send_client_hello
  PROVE  TrustInv'
<1>1. /\ cfg' = cfg /\ state' = [state EXCEPT !["client"] = "CLIENT_EXPECT_SERVER_HELLO"]
      /\ is_psk_handshake' = is_psk_handshake /\ state \in [Side -> States]
  BY DEF send_client_hello, LocalInv, TypeInv
<1>2. \A r \in InFlight("client")' : r.msg.type = "CCS" \/ RecordTrust("client", r)
  BY SendClientHelloFlight, HelloTrust
<1>3. \A r \in InFlight("server")' : r \in InFlight("server")
  BY SendClientHelloFlight
<1>4. FlightTrust'
  BY <1>1, <1>2, <1>3, SameAs, FlightTrustKept DEF TrustInv, Side
<1>5. state'["client"] = "CLIENT_EXPECT_SERVER_HELLO" /\ state'["server"] = state["server"]
  BY <1>1, Sides
<1>6. ClientTrust' /\ ServerTrust'
  BY <1>1, <1>5 DEF TrustInv, ClientTrust, ServerTrust, ClientFlight
<1>. QED  BY <1>4, <1>6 DEF TrustInv

LEMMA HrrFlight ==
  ASSUME LocalInv, handle_hello_retry_request
  PROVE  \A s \in Side : \A r \in InFlight(s)' :
           r \in InFlight(s) \/ (s = "client" /\ IsHello(r) /\ "early_data" \notin r.msg.has)
<1>. DEFINE hrr == First("client").msg
            th == Append(ch1hash(transcript["client"]), View(hrr))
            share == IF SelectsKeyShare(hrr) THEN "group1" ELSE cfg.key_share
            has == HelloExtensions \cup {share} \cup If(hrr.cookie # <<>>, "cookie")
            ch == ClientHello(has, hrr.cookie, th)
            key == enc'["client"]
            out == Records(key, <<ch>>)
            rec == [secret |-> key.secret, seq |-> key.seq, msg |-> ch]
<1>1. /\ ClientTakes("HRR") /\ Consume("client")
      /\ sendbuf' = [sendbuf EXCEPT !["client"] = sendbuf["client"] \o out]
  BY DEF handle_hello_retry_request
<1>2. TypeInv /\ wire["server"] # <<>> /\ state["client"] \in ClientHellos /\ LocalInv'
  BY <1>1, ClientExpects, HrrLocal DEF LocalInv
<1>3. hrr \in Messages /\ transcript["client"] \in Seq(Views) /\ transcript["client"] # <<>>
  BY <1>2, Sides, ReadTypes DEF LocalInv, ClientInv, TypeInv, ClientHellos
<1>4. key \in Keys
  BY <1>2, Sides DEF LocalInv, TypeInv
<1>5. th \in Seq(Views)
  <2>1. ch1hash(transcript["client"]) \in Seq(Views) /\ View(hrr) \in Views
    BY <1>3, Ch1HashType, MessageTypes
  <2>. QED  BY <2>1, AppendType
<1>6. hrr.cookie \in Cookies
  BY <1>3 DEF Messages
<1>7. has \in SUBSET Names /\ "early_data" \notin has
  <2>1. "early_data" \notin HelloExtensions
    BY DEF HelloExtensions, If
  <2>2. cfg.key_share # "early_data"
    BY <1>2, ConfigTypes DEF Config
  <2>3. has \in SUBSET Names
    BY <1>2, ConfigTypes, NamesAre DEF If
  <2>. QED  BY <2>1, <2>2, <2>3 DEF If
<1>. HIDE DEF hrr, th, share, has, key
<1>8. /\ ch \in Messages /\ ch.type = "CH" /\ ch.has = has
      /\ Offers => ch.mac # <<>> /\ ch.mac[1].ikm = <<ClientPsk>>
  <2>1. TypeInv /\ has \in SUBSET Names
    BY <1>2, <1>7
  <2>2. /\ ch \in Messages /\ ch.type = "CH"
        /\ Offers => ch.mac # <<>> /\ ch.mac[1].ikm = <<ClientPsk>>
    BY <1>5, <1>6, <2>1, ClientHelloType
  <2>3. ch.has = has
    BY <1>5, <1>6, <2>1, ClientHelloType
  <2>. QED  BY <2>2, <2>3
<1>. HIDE DEF ch
<1>9. \E x \in Recs : out = <<x>> /\ IsHello(x) /\ "early_data" \notin x.msg.has
  <2>1. out = <<rec>> /\ rec \in Recs
    BY <1>4, <1>8, OneRecord
  <2>2. IsHello(rec) /\ "early_data" \notin rec.msg.has
    BY <1>7, <1>8 DEF IsHello
  <2>. QED  BY <2>1, <2>2
<1>10. PICK x \in Recs : out = <<x>> /\ IsHello(x) /\ "early_data" \notin x.msg.has
  BY <1>9
<1>. HIDE DEF out
<1>11. out \in Seq(Recs) /\ Elems(out) = {x}
  BY <1>10, ElemsOf
<1>12. \A s \in Side : \A r \in InFlight(s)' : r \in InFlight(s) \/ (s = "client" /\ r \in Elems(out))
  BY <1>1, <1>2, <1>11, Sides, Written
<1>. QED  BY <1>10, <1>11, <1>12

LEMMA HrrTrust ==
  ASSUME LocalInv, TrustInv, handle_hello_retry_request
  PROVE  TrustInv'
<1>1. /\ cfg' = cfg /\ state' = [state EXCEPT !["client"] = "CLIENT_EXPECT_SECOND_SERVER_HELLO"]
      /\ is_psk_handshake' = is_psk_handshake /\ state \in [Side -> States]
  BY DEF handle_hello_retry_request, LocalInv, TypeInv
<1>2. \A s \in Side : \A r \in InFlight(s)' : r \in InFlight(s) \/ RecordTrust(s, r)
  BY HrrFlight, HelloTrust
<1>3. FlightTrust'
  BY <1>1, <1>2, SameAs, FlightTrustKept DEF TrustInv
<1>4. state'["client"] = "CLIENT_EXPECT_SECOND_SERVER_HELLO" /\ state'["server"] = state["server"]
  BY <1>1, Sides
<1>5. ClientTrust' /\ ServerTrust'
  BY <1>1, <1>4 DEF TrustInv, ClientTrust, ServerTrust, ClientFlight
<1>. QED  BY <1>3, <1>5 DEF TrustInv

(* What the client reads in its flight decides what it trusts.              *)
LEMMA ClientReadsTrust ==
  ASSUME LocalInv, TrustInv,
         \/ client_handle_hello \/ client_handle_encrypted_extensions
         \/ client_handle_certificate_request \/ client_handle_certificate
         \/ client_handle_certificate_verify
  PROVE  TrustInv'
<1>1. PICK type \in {"SH", "EE", "CR", "CERT", "CV"} :
         ClientTakes(type) /\ Consume("client") /\ sendbuf' = sendbuf /\ cfg' = cfg
  BY DEF client_handle_hello, client_handle_encrypted_extensions, client_handle_certificate_request,
         client_handle_certificate, client_handle_certificate_verify, ClientStep
<1>2. TypeInv /\ Ready("client") /\ wire["server"] # <<>> /\ First("client") \in InFlight("server")
  BY <1>1, Sides, ClientExpects, ReadFlight DEF LocalInv
<1>3. FlightTrust'
  BY <1>1, <1>2, Sides, ReadQuiet, SameAs, FlightTrustKept DEF TrustInv
<1>4. RecordTrust("server", First("client"))
  BY <1>2, Sides DEF TrustInv, FlightTrust
<1>5. state'["server"] = state["server"] /\ is_psk_handshake'["server"] = is_psk_handshake["server"]
  BY <1>2, Sides
     DEF TypeInv, client_handle_hello, client_handle_encrypted_extensions,
         client_handle_certificate_request, client_handle_certificate,
         client_handle_certificate_verify, ClientStep
<1>6. ServerTrust'
  BY <1>1, <1>5 DEF TrustInv, ServerTrust
<1>7. ClientTrust'
  <2>1. CASE client_handle_hello
    <3>1. /\ state'["client"] = "CLIENT_EXPECT_ENCRYPTED_EXTENSIONS"
          /\ is_psk_handshake'["client"] = ("psk" \in First("client").msg.has)
          /\ First("client").msg.type = "SH"
      BY <1>2, <2>1, Sides DEF TypeInv, client_handle_hello, SelectsPsk, ClientTakes
    <3>. QED  BY <1>1, <1>4, <3>1, Sides DEF ClientTrust, RecordTrust
  <2>2. CASE ~client_handle_hello
    <3>1. PICK next : /\ ClientStep(next)
                      /\ \/ client_handle_encrypted_extensions
                            /\ next = (IF is_psk_handshake["client"] THEN "CLIENT_EXPECT_FINISHED"
                                  ELSE "CLIENT_EXPECT_CERTIFICATE_REQUEST_OR_CERTIFICATE")
                         \/ client_handle_certificate_request /\ next = "CLIENT_EXPECT_CERTIFICATE"
                         \/ client_handle_certificate /\ next = "CLIENT_EXPECT_CERTIFICATE_VERIFY"
                         \/ client_handle_certificate_verify /\ next = "CLIENT_EXPECT_FINISHED"
      BY <2>2 DEF client_handle_encrypted_extensions, client_handle_certificate_request,
                  client_handle_certificate, client_handle_certificate_verify
    <3>2. state'["client"] = next /\ is_psk_handshake' = is_psk_handshake
      BY <1>2, <3>1, Sides DEF TypeInv, ClientStep
    <3>3. CASE /\ client_handle_encrypted_extensions
               /\ next = (IF is_psk_handshake["client"] THEN "CLIENT_EXPECT_FINISHED"
                          ELSE "CLIENT_EXPECT_CERTIFICATE_REQUEST_OR_CERTIFICATE")
      <4>1. state["client"] = "CLIENT_EXPECT_ENCRYPTED_EXTENSIONS"
        BY <3>3, ClientExpects DEF client_handle_encrypted_extensions
      <4>. QED  BY <1>1, <3>2, <3>3, <4>1 DEF TrustInv, ClientTrust, ClientFlight
    <3>4. CASE client_handle_certificate_request /\ next = "CLIENT_EXPECT_CERTIFICATE"
      <4>1. state["client"] = "CLIENT_EXPECT_CERTIFICATE_REQUEST_OR_CERTIFICATE"
        BY <3>4, ClientExpects DEF client_handle_certificate_request
      <4>. QED  BY <1>1, <3>2, <3>4, <4>1 DEF TrustInv, ClientTrust, ClientFlight
    <3>5. CASE client_handle_certificate /\ next = "CLIENT_EXPECT_CERTIFICATE_VERIFY"
      <4>1. /\ state["client"] \in {"CLIENT_EXPECT_CERTIFICATE_REQUEST_OR_CERTIFICATE",
                                    "CLIENT_EXPECT_CERTIFICATE"}
            /\ First("client").msg.type = "CERT" /\ First("client").msg.has = {"ok"}
        BY <3>5, ClientExpects DEF client_handle_certificate
      <4>2. cfg.server_certificate \notin {"none", "bad"}
        BY <1>4, <4>1, Sides DEF RecordTrust, CertificateOf
      <4>. QED  BY <1>1, <3>2, <3>5, <4>1, <4>2 DEF TrustInv, ClientTrust, ClientFlight
    <3>6. CASE client_handle_certificate_verify /\ next = "CLIENT_EXPECT_FINISHED"
      <4>1. /\ state["client"] = "CLIENT_EXPECT_CERTIFICATE_VERIFY"
            /\ First("client").msg.type = "CV"
        BY <3>6, ClientExpects DEF client_handle_certificate_verify
      <4>2. cfg.server_certificate \in {"ok", "bad"}
        BY <1>4, <4>1, Sides DEF RecordTrust, CertificateOf
      <4>. QED  BY <1>1, <3>2, <3>6, <4>1, <4>2 DEF TrustInv, ClientTrust, ClientFlight
    <3>. QED  BY <3>1, <3>3, <3>4, <3>5, <3>6
  <2>. QED  BY <2>1, <2>2
<1>. QED  BY <1>3, <1>6, <1>7 DEF TrustInv

LEMMA ClientFinishedFlight ==
  ASSUME LocalInv, client_handle_finished
  PROVE  /\ \A s \in Side : \A r \in InFlight(s)' :
              r \in InFlight(s) \/ (s = "client" /\ r \in Elems(FinRecords))
         /\ \A r \in Elems(FinRecords) :
              \/ r.msg = Plain("EOED", {}) /\ FinEarly /\ r.seq = enc["client"].seq
              \/ r.msg.type = "CCS"
              \/ r.msg \in Elems(FinCerts) /\ certificate_request
              \/ r.msg = FinMsg
<1>1. TypeInv /\ wire["server"] # <<>> /\ Consume("client")
  BY ClientFinished, ClientExpects DEF LocalInv
<1>2. /\ FinRecords \in Seq(Recs)
      /\ sendbuf' = [sendbuf EXCEPT !["client"] = sendbuf["client"] \o FinRecords]
      /\ Elems(FinRecords) = Elems(Records(enc["client"], FinEoed))
           \cup Elems(CCS(send_change_cipher_spec))
           \cup Elems(Records(FinKey, Append(FinCerts, FinMsg)))
  BY <1>1, ClientFinishedSends
<1>3. \A r \in Elems(Records(enc["client"], FinEoed)) :
        r.msg = Plain("EOED", {}) /\ FinEarly /\ r.seq = enc["client"].seq
  <2>1. enc["client"] \in Keys /\ Plain("EOED", {}) \in Messages
    BY <1>1, Sides, ClientFinishedTypes DEF TypeInv
  <2>2. CASE FinEarly
    <3>. DEFINE rec == [secret |-> enc["client"].secret, seq |-> enc["client"].seq,
                        msg |-> Plain("EOED", {})]
    <3>1. FinEoed = <<Plain("EOED", {})>>
      BY <2>2 DEF FinEoed, When
    <3>2. Records(enc["client"], FinEoed) = <<rec>> /\ rec \in Recs
      BY <2>1, <3>1, OneRecord
    <3>3. Elems(<<rec>>) = {rec}
      BY <3>2, ElemsOf
    <3>. QED  BY <2>2, <3>2, <3>3
  <2>3. CASE ~FinEarly
    <3>1. FinEoed = <<>> /\ <<>> \in Seq(Messages)
      BY <2>3 DEF FinEoed, When
    <3>2. \A r \in Elems(Records(enc["client"], FinEoed)) : r.msg \in Elems(FinEoed)
      BY <2>1, <3>1, RecordsElems
    <3>. QED  BY <3>1, <3>2, ElemsOf
  <2>. QED  BY <2>2, <2>3
<1>4. \A r \in Elems(CCS(send_change_cipher_spec)) : r.msg.type = "CCS"
  BY <1>1, CCSElems DEF TypeInv
<1>5. \A r \in Elems(Records(FinKey, Append(FinCerts, FinMsg))) :
        (r.msg \in Elems(FinCerts) /\ certificate_request) \/ r.msg = FinMsg
  <2>1. /\ FinKey \in Keys /\ FinCerts \in Seq(Messages) /\ FinMsg \in Messages
        /\ Append(FinCerts, FinMsg) \in Seq(Messages)
    BY <1>1, ClientFinishedTypes
  <2>2. \A r \in Elems(Records(FinKey, Append(FinCerts, FinMsg))) : r.msg \in Elems(Append(FinCerts, FinMsg))
    BY <2>1, RecordsElems
  <2>3. Elems(Append(FinCerts, FinMsg)) = Elems(FinCerts) \cup {FinMsg}
    BY <2>1, ElemsOf
  <2>4. ~certificate_request => Elems(FinCerts) = {}
    BY ElemsOf DEF FinCerts
  <2>. QED  BY <2>2, <2>3, <2>4
<1>6. \A s \in Side : \A r \in InFlight(s)' :
        r \in InFlight(s) \/ (s = "client" /\ r \in Elems(FinRecords))
  BY <1>1, <1>2, Sides, Written
<1>. QED  BY <1>2, <1>3, <1>4, <1>5, <1>6

LEMMA ClientFinishedTrust ==
  ASSUME LocalInv, TrustInv, client_handle_finished
  PROVE  TrustInv'
<1>1. /\ ClientTakes("FIN") /\ Consume("client") /\ cfg' = cfg
      /\ state' = [state EXCEPT !["client"] = "CLIENT_POST_HANDSHAKE"]
      /\ is_psk_handshake' = is_psk_handshake
  BY ClientFinished
<1>2. TypeInv /\ wire["server"] # <<>> /\ state["client"] = "CLIENT_EXPECT_FINISHED"
  BY <1>1, ClientExpects DEF LocalInv
<1>4. ASSUME NEW r \in Elems(FinRecords)
      PROVE  r.msg.type \notin {"CH", "SH", "CERT", "CV"} \/ RecordTrust("client", r)
  <2>1. \/ r.msg = Plain("EOED", {}) \/ r.msg.type = "CCS" \/ r.msg = FinMsg
        \/ (r.msg \in Elems(FinCerts) /\ certificate_request)
    BY ClientFinishedFlight
  <2>2. CASE r.msg = Plain("EOED", {}) \/ r.msg = FinMsg
    BY <2>2 DEF FinMsg, send_finished, Plain, Message
  <2>3. CASE r.msg \in Elems(FinCerts) /\ certificate_request
    <3>1. FinCerts = Certificates("client", cfg.client_certificate, FinTh2)
      BY <2>3 DEF FinCerts
    <3>2. \A m \in Elems(FinCerts) : CertificateTrust(cfg.client_certificate, m)
      BY <1>2, <3>1, ClientFinishedTypes, ConfigTypes, NamesAre, CertificatesTrust
    <3>. QED  BY <2>3, <3>2, Sides DEF CertificateTrust, RecordTrust, CertificateOf
  <2>. QED  BY <2>1, <2>2, <2>3
<1>5. \A s \in Side : \A r \in InFlight(s)' :
        r \in InFlight(s) \/ (s = "client" /\ r \in Elems(FinRecords))
  BY ClientFinishedFlight
<1>6. FlightTrust'
  BY <1>1, <1>4, <1>5, SameAs, FlightTrustKept DEF TrustInv
<1>7. state'["client"] = "CLIENT_POST_HANDSHAKE" /\ state'["server"] = state["server"]
  BY <1>1, <1>2, Sides DEF TypeInv
<1>8. ClientTrust' /\ ServerTrust'
  BY <1>1, <1>2, <1>7 DEF TrustInv, ClientTrust, ServerTrust, ClientFlight
<1>. QED  BY <1>6, <1>8 DEF TrustInv

-----------------------------------------------------------------------------
(* The steps of the server.                                                 *)
LEMMA ServerRetryFlight ==
  ASSUME LocalInv, ServerRetry
  PROVE  \A s \in Side : \A r \in InFlight(s)' :
            r \in InFlight(s) \/ (s = "server" /\ r.msg.type \in {"HRR", "CCS"})
<1>. DEFINE ch == First("server").msg
            a == Records(NoKey, <<RetryMessage(ch)>>)
            b == CCS("legacy_session_id" \in ch.has)
            p == sendbuf["server"]
<1>1. /\ ServerTakes("CH") /\ Consume("server") /\ cfg' = cfg
      /\ sendbuf' = [sendbuf EXCEPT !["server"] = p \o a \o b]
  BY DEF ServerRetry, RetryMessage
<1>2. /\ TypeInv /\ wire["client"] # <<>> /\ ch \in Messages
  BY <1>1, Sides, ServerExpects, ReadTypes DEF LocalInv
<1>3. /\ RetryMessage(ch) \in Messages
      /\ a \o b \in Seq(Recs) /\ \A r \in Elems(a \o b) : r.msg.type \in {"HRR", "CCS"}
  BY <1>2, RetryTypes DEF RetryRecords
<1>4. a \in Seq(Recs) /\ b \in Seq(Recs) /\ p \in Seq(Recs)
  <2>1. ("legacy_session_id" \in ch.has) \in BOOLEAN
    OBVIOUS
  <2>. QED  BY <1>2, <1>3, <2>1, Sides, KeyTypes, OneRecord, CCSType DEF TypeInv
<1>. DEFINE out == a \o b
<1>. HIDE DEF a, b, p
<1>5. p \o a \o b = p \o out
  BY <1>4
<1>. HIDE DEF out
<1>6. sendbuf' = [sendbuf EXCEPT !["server"] = sendbuf["server"] \o out]
  BY <1>1, <1>5 DEF p
<1>7. out \in Seq(Recs) /\ \A r \in Elems(out) : r.msg.type \in {"HRR", "CCS"}
  BY <1>3 DEF out
<1>8. \A s \in Side : \A r \in InFlight(s)' : r \in InFlight(s) \/ (s = "server" /\ r \in Elems(out))
  BY <1>1, <1>2, <1>6, <1>7, Sides, Written
<1>. QED  BY <1>7, <1>8

LEMMA ServerRetryTrust ==
  ASSUME LocalInv, TrustInv, ServerRetry
  PROVE  TrustInv'
<1>1. /\ cfg' = cfg /\ is_psk_handshake' = is_psk_handshake
      /\ state' = [state EXCEPT !["server"] = "SERVER_EXPECT_SECOND_CLIENT_HELLO"]
  BY DEF ServerRetry
<1>2. FlightTrust'
  BY <1>1, SameAs, ServerRetryFlight, FlightTrustKept DEF TrustInv
<1>3. state'["server"] = "SERVER_EXPECT_SECOND_CLIENT_HELLO" /\ state'["client"] = state["client"]
  BY <1>1, Sides DEF LocalInv, TypeInv
<1>4. ClientTrust' /\ ServerTrust'
  BY <1>1, <1>3 DEF TrustInv, ClientTrust, ServerTrust
<1>. QED  BY <1>2, <1>4 DEF TrustInv

(* The binder tells a ticket with another PSK from the server's.            *)
LEMMA BinderTells ==
  ASSUME TrustInv, NEW r \in InFlight("client"), r.msg.type = "CH", FindsPsk(r.msg),
         BinderVerifies(r.msg)
  PROVE  cfg.ticket \in {"valid", "late"}
<1>1. cfg.ticket \in {"valid", "late", "mismatch"}
  BY DEF FindsPsk
<1>2. CASE cfg.ticket = "mismatch"
  <2>1. r.msg.mac[1].ikm = <<"other_psk">>
    BY <1>2, Sides DEF TrustInv, FlightTrust, RecordTrust
  <2>2. r.msg.mac[1].ikm = <<"psk">>
    BY DEF BinderVerifies, Mac, Secret
  <2>3. <<"other_psk">> # <<"psk">>
    <3>1. <<"other_psk">>[1] = "other_psk" /\ <<"psk">>[1] = "psk"
      OBVIOUS
    <3>. QED  BY <3>1
  <2>. QED  BY <2>1, <2>2, <2>3
<1>. QED  BY <1>1, <1>2

LEMMA ServerHelloTrust ==
  ASSUME LocalInv, TrustInv, server_handle_hello
  PROVE  TrustInv'
<1>. DEFINE ch == First("server").msg
            out == HelloRecords(ch)
<1>1. /\ Consume("server") /\ cfg' = cfg /\ ~NeedsRetry(ch) /\ HelloError(ch) = "none"
      /\ is_psk_handshake' = [is_psk_handshake EXCEPT !["server"] = FindsPsk(ch)]
      /\ state' = [state EXCEPT !["server"] =
                     IF AcceptsEarlyData(ch) THEN "SERVER_EXPECT_END_OF_EARLY_DATA"
                     ELSE IF cfg.require_client_authentication THEN "SERVER_EXPECT_CERTIFICATE"
                     ELSE "SERVER_EXPECT_FINISHED"]
  BY ServerHelloParts
<1>2. /\ sendbuf' = [sendbuf EXCEPT !["server"] = sendbuf["server"] \o out]
      /\ state["server"] \in ServerHellos
      /\ wire["client"] # <<>> /\ First("server") = wire["client"][1]
      /\ ch \in Messages /\ ch.type = "CH"
  BY ServerHelloSends
<1>3. TypeInv /\ ServerInv
  BY DEF LocalInv
<1>4. First("server") \in InFlight("client")
  BY <1>1, <1>2, <1>3, Sides, ReadFlight
<1>5. FindsPsk(ch) => cfg.ticket \in {"valid", "late"} /\ ~cfg.require_client_authentication
  <2>1. FindsPsk(ch) => BinderVerifies(ch)
    BY <1>1 DEF HelloError
  <2>2. FindsPsk(ch) => ~cfg.require_client_authentication
    BY DEF FindsPsk, TriesPsk
  <2>. QED  BY <1>2, <1>4, <2>1, <2>2, BinderTells
<1>6. out \in Seq(Recs)
  BY <1>2, <1>3, HelloSends
<1>7. ASSUME NEW r \in Elems(out)
      PROVE  r.msg.type \notin {"CH", "SH", "CERT", "CV"} \/ RecordTrust("server", r)
  <2>1. \/ r.msg = ServerHello(ch) \/ r.msg.type = "CCS"
        \/ r.msg \in Elems(Extensions(ch)) \/ r.msg \in Elems(HelloCerts(ch))
        \/ r.msg = HelloFin(ch) \/ r.msg = HelloTicket(ch)
    BY <1>2, <1>3, HelloSends
  <2>2. CASE r.msg = ServerHello(ch)
    <3>1. r.msg.type = "SH" /\ ("psk" \in r.msg.has => FindsPsk(ch))
      BY <2>2 DEF ServerHello, Plain, Message, If
    <3>. QED  BY <1>5, <3>1, Sides DEF RecordTrust
  <2>3. CASE r.msg \in Elems(Extensions(ch))
    <3>1. r.msg = Plain("EE", If(AcceptsEarlyData(ch), "early_data")) \/ r.msg = Plain("CR", {})
      BY <1>2, <1>3, <2>3, ExtensionsType
    <3>. QED  BY <3>1 DEF Plain, Message
  <2>4. CASE r.msg \in Elems(HelloCerts(ch))
    <3>1. ~FindsPsk(ch)
      BY <2>4, ElemsOf DEF HelloCerts
    <3>2. HelloCerts(ch) = Certificates("server", cfg.server_certificate, HelloTh1(ch))
      BY <3>1 DEF HelloCerts
    <3>3. \A m \in Elems(HelloCerts(ch)) : CertificateTrust(cfg.server_certificate, m)
      BY <1>2, <1>3, <3>2, HelloTypes, ConfigTypes, NamesAre, CertificatesTrust
    <3>. QED  BY <2>4, <3>3, Sides DEF CertificateTrust, RecordTrust, CertificateOf
  <2>5. CASE r.msg = HelloFin(ch) \/ r.msg = HelloTicket(ch)
    <3>1. HelloFin(ch).type = "FIN" /\ HelloTicket(ch).type = "NST"
      BY DEF HelloFin, HelloTicket, send_finished, Message
    <3>. QED  BY <2>5, <3>1
  <2>. QED  BY <2>1, <2>2, <2>3, <2>4, <2>5
<1>. HIDE DEF out
<1>8. \A s \in Side : \A r \in InFlight(s)' : r \in InFlight(s) \/ (s = "server" /\ r \in Elems(out))
  BY <1>1, <1>2, <1>3, <1>6, Sides, Written
<1>9. FlightTrust'
  BY <1>1, <1>7, <1>8, SameAs, FlightTrustKept DEF TrustInv
<1>10. /\ cfg.require_client_authentication => state'["server"] = "SERVER_EXPECT_CERTIFICATE"
       /\ state'["client"] = state["client"]
       /\ is_psk_handshake'["server"] = FindsPsk(ch)
       /\ is_psk_handshake'["client"] = is_psk_handshake["client"]
  <2>1. cfg.require_client_authentication => ~AcceptsEarlyData(ch)
    BY <1>5 DEF AcceptsEarlyData
  <2>. QED  BY <1>1, <1>3, <2>1, Sides DEF TypeInv
<1>11. ClientTrust'
  BY <1>1, <1>10 DEF TrustInv, ClientTrust
<1>12. ServerTrust'
  BY <1>1, <1>5, <1>10 DEF TrustInv, ServerTrust
<1>. QED  BY <1>9, <1>11, <1>12 DEF TrustInv

LEMMA ServerReadsTrust ==
  ASSUME LocalInv, TrustInv,
         \/ server_handle_end_of_early_data \/ server_handle_certificate
         \/ server_handle_certificate_verify \/ server_handle_finished
  PROVE  TrustInv'
<1>1. PICK type \in {"EOED", "CERT", "CV", "FIN"} :
         /\ ServerTakes(type) /\ Consume("server") /\ sendbuf' = sendbuf /\ cfg' = cfg
         /\ is_psk_handshake' = is_psk_handshake
  BY DEF server_handle_end_of_early_data, server_handle_certificate,
         server_handle_certificate_verify, server_handle_finished, ServerStep
<1>2. TypeInv /\ Ready("server") /\ wire["client"] # <<>> /\ First("server") \in InFlight("client")
  BY <1>1, Sides, ServerExpects, ReadFlight DEF LocalInv
<1>3. FlightTrust'
  BY <1>1, <1>2, Sides, ReadQuiet, SameAs, FlightTrustKept DEF TrustInv
<1>4. RecordTrust("client", First("server"))
  BY <1>2, Sides DEF TrustInv, FlightTrust
<1>5. state'["client"] = state["client"]
  BY <1>2, Sides
     DEF TypeInv, server_handle_end_of_early_data, server_handle_certificate,
         server_handle_certificate_verify, server_handle_finished, ServerStep
<1>6. ClientTrust'
  BY <1>1, <1>5 DEF TrustInv, ClientTrust
<1>7. ServerTrust'
  <2>1. CASE server_handle_end_of_early_data
    <3>1. state["server"] = "SERVER_EXPECT_END_OF_EARLY_DATA"
      BY <2>1, ServerExpects DEF server_handle_end_of_early_data
    <3>2. ~cfg.require_client_authentication
      BY <3>1 DEF TrustInv, ServerTrust
    <3>. QED  BY <1>1, <3>2 DEF ServerTrust
  <2>2. CASE server_handle_certificate
    <3>1. /\ state'["server"] = "SERVER_EXPECT_CERTIFICATE_VERIFY"
          /\ First("server").msg.type = "CERT" /\ First("server").msg.has = {"ok"}
      BY <1>2, <2>2, Sides, ServerExpects DEF server_handle_certificate, ServerStep, TypeInv
    <3>2. cfg.client_certificate \notin {"none", "bad"}
      BY <1>4, <3>1 DEF RecordTrust, CertificateOf
    <3>. QED  BY <1>1, <3>1, <3>2 DEF TrustInv, ServerTrust
  <2>3. CASE server_handle_certificate_verify
    <3>1. /\ state["server"] = "SERVER_EXPECT_CERTIFICATE_VERIFY"
          /\ state'["server"] = "SERVER_EXPECT_FINISHED" /\ First("server").msg.type = "CV"
      BY <1>2, <2>3, Sides, ServerExpects DEF server_handle_certificate_verify, ServerStep, TypeInv
    <3>2. cfg.client_certificate \in {"ok", "bad"}
      BY <1>4, <3>1 DEF RecordTrust, CertificateOf
    <3>. QED  BY <1>1, <3>1, <3>2 DEF TrustInv, ServerTrust
  <2>4. CASE server_handle_finished
    <3>1. /\ state["server"] = "SERVER_EXPECT_FINISHED"
          /\ state'["server"] = "SERVER_POST_HANDSHAKE"
      BY <1>2, <2>4, Sides, ServerExpects DEF server_handle_finished, TypeInv
    <3>. QED  BY <1>1, <3>1 DEF TrustInv, ServerTrust
  <2>. QED  BY <2>1, <2>2, <2>3, <2>4
<1>. QED  BY <1>3, <1>6, <1>7 DEF TrustInv
-----------------------------------------------------------------------------
LEMMA TrustInit == Init => TrustInv
<1>. SUFFICES ASSUME Init PROVE TrustInv
  OBVIOUS
<1>1. /\ state["client"] = "CLIENT_HANDSHAKE_START" /\ state["server"] = "SERVER_EXPECT_CLIENT_HELLO"
      /\ is_psk_handshake["server"] = FALSE
      /\ \A s \in Side : sendbuf[s] = <<>> /\ wire[s] = <<>>
  BY Sides DEF Init
<1>2. \A s \in Side : InFlight(s) = {}
  BY <1>1, ElemsOf DEF InFlight
<1>. QED  BY <1>1, <1>2 DEF TrustInv, FlightTrust, ClientTrust, ServerTrust, ClientFlight

LEMMA TrustNext == LocalInv /\ TrustInv /\ [Next]_vars => TrustInv'
<1>. SUFFICES ASSUME LocalInv, TrustInv, [Next]_vars PROVE TrustInv'
  OBVIOUS
<1>1. CASE ClientSteps
  BY <1>1, SendClientHelloTrust, HrrTrust, ClientReadsTrust, ClientFinishedTrust,
     NewSessionTicketQuiet, FailsQuiet, QuietTrust DEF ClientSteps
<1>2. CASE ServerSteps
  BY <1>2, FailsQuiet, SkipQuiet, StatelessRetryQuiet, QuietTrust, ServerRetryTrust,
     ServerHelloTrust, ServerReadsTrust DEF ServerSteps
<1>3. CASE \E s \in Side : CommonSteps(s) \/ ptls_send(s) \/ Alter(s)
  BY <1>3, CommonQuiet, SendsQuiet, AlterQuiet, QuietTrust
<1>4. CASE SendEarlyData
  BY <1>4, SendsQuiet, QuietTrust
<1>5. CASE UNCHANGED vars
  <2>1. UNCHANGED <<cfg, state, is_psk_handshake, sendbuf, wire>>
    BY <1>5 DEF vars
  <2>2. \A s \in Side : \A r \in InFlight(s)' : r \in InFlight(s)
    BY <2>1, FlightNow DEF InFlight
  <2>3. FlightTrust'
    BY <2>1, <2>2, SameAs, FlightTrustKept DEF TrustInv
  <2>. QED  BY <2>1, <2>3 DEF TrustInv, ClientTrust, ServerTrust
<1>. QED  BY <1>1, <1>2, <1>3, <1>4, <1>5 DEF Next

(* Trust survives every step of the two endpoints and of the network.       *)
THEOREM TrustHolds == Safety => []TrustInv
<1>1. Init => LocalInv /\ TrustInv
  BY LocalInit, TrustInit
<1>2. LocalInv /\ TrustInv /\ [Next]_vars => (LocalInv /\ TrustInv)'
  BY LocalNext, TrustNext
<1>. QED  BY <1>1, <1>2, PTL DEF Safety

(* A client that completes holds a PSK the server holds or has verified the *)
(* certificate and signature, and with require_client_authentication so has *)
(* a server that completes, for all configurations and whatever is altered. *)
THEOREM PeersAuthenticated == Spec => []Authenticated
<1>1. LocalInv /\ TrustInv => Authenticated
  <2>1. SUFFICES ASSUME LocalInv, TrustInv PROVE Authenticated
    OBVIOUS
  <2>2. Complete("client") => state["client"] = "CLIENT_POST_HANDSHAKE"
    BY <2>1 DEF Complete, PostHandshake, LocalInv, ClientInv, ClientHellos, ClientFlight
  <2>3. Complete("server") => state["server"] = "SERVER_POST_HANDSHAKE"
    BY <2>1 DEF Complete, PostHandshake, LocalInv, ServerInv, ServerHandshake
  <2>4. is_psk_handshake["client"] \in BOOLEAN
    BY <2>1, Sides DEF LocalInv, TypeInv
  <2>5. Complete("client") =>
          IF is_psk_handshake["client"] THEN cfg.ticket \in {"valid", "late"}
          ELSE cfg.server_certificate = "ok"
    BY <2>1, <2>2, <2>4 DEF TrustInv, ClientTrust
  <2>6. Complete("server") /\ cfg.require_client_authentication =>
          cfg.client_certificate = "ok" /\ ~is_psk_handshake["server"]
    BY <2>1, <2>3 DEF TrustInv, ServerTrust
  <2>. QED  BY <2>5, <2>6 DEF Authenticated
<1>. QED  BY <1>1, LocalHolds, TrustHolds, PTL DEF Spec

(***************************************************************************)
(* Agreement.  The invariant follows the transcripts: what the server's    *)
(* Finished says is what the server has, and the client's own flight is    *)
(* what the client hashed after it.                                        *)
(***************************************************************************)

IsPrefixOf(p, q) == Len(p) <= Len(q) /\ \A i \in 1..Len(p) : p[i] = q[i]

(* The transcript up to the server's Finished, as each side knows it: what  *)
(* the 1-RTT secret that the server writes and the client reads with was    *)
(* derived from.                                                            *)
ServerThrough == enc["server"].secret.th
ClientThrough == dec["client"].secret.th

(* A server that asks for a certificate takes no early data.                *)
NoEarlyInv ==
    /\ \A r \in InFlight("server") :
         r.msg.type = "EE" /\ "early_data" \in r.msg.has => ~cfg.require_client_authentication
    /\ cfg.require_client_authentication
         /\ state["client"] \in ClientFlight \ {"CLIENT_EXPECT_ENCRYPTED_EXTENSIONS"} =>
            ~using_early_data
    /\ state["server"] \in {"SERVER_EXPECT_CERTIFICATE", "SERVER_EXPECT_CERTIFICATE_VERIFY"} =>
         cfg.require_client_authentication

(* What the server has hashed, and what its Finished says.                  *)
ServerHashInv ==
    LET st == state["server"] IN
    /\ st = "SERVER_EXPECT_SECOND_CLIENT_HELLO" => sched["server"] = <<"0">>
    /\ st \notin ServerHellos =>
         /\ enc["server"].secret = Secret("s_ap_traffic", sched["server"], ServerThrough)
         /\ is_psk_handshake["server"] <=> sched["server"][1] # "0"
         /\ st # "SERVER_POST_HANDSHAKE" =>
              pending_traffic_secret = Secret("c_ap_traffic", sched["server"], ServerThrough)
         /\ \/ transcript["server"] = ServerThrough
            \/ /\ state["client"] = "CLIENT_POST_HANDSHAKE"
               /\ IsPrefixOf(transcript["server"], transcript["client"])
    /\ st \in {"SERVER_EXPECT_END_OF_EARLY_DATA", "SERVER_EXPECT_CERTIFICATE"} =>
         transcript["server"] = ServerThrough
    /\ st = "SERVER_EXPECT_CERTIFICATE_VERIFY" =>
         Len(transcript["server"]) = Len(ServerThrough) + 1

ServerFlightInv ==
    \A r \in InFlight("server") :
        /\ state["server"] \in ServerHellos => r.msg.type \in {"HRR", "CCS", "ALERT", "DATA"}
        /\ r.msg.type = "FIN" =>
             /\ r.msg.has = {} /\ r.msg.mac # <<>>
             /\ sched["server"] = Append(r.msg.mac[1].ikm, "0")
             /\ ServerThrough = Append(r.msg.mac[2], FinView)

ClientHashInv ==
    LET st == state["client"] IN
    /\ st # "CLIENT_HANDSHAKE_START" => offered_psk = Offers
    /\ st \in ClientHellos => sched["client"] = <<IF Offers THEN ClientPsk ELSE "0">>
    /\ st \in ClientFlight \cup {"CLIENT_POST_HANDSHAKE"} =>
         /\ dec["client"].secret.ikm = sched["client"]
         /\ is_psk_handshake["client"] <=> sched["client"][1] # "0"
    /\ st = "CLIENT_POST_HANDSHAKE" =>
         /\ state["server"] \notin ServerHellos
         /\ dec["client"].secret = enc["server"].secret
         /\ enc["client"].secret = Secret("c_ap_traffic", sched["client"], ClientThrough)
         /\ IsPrefixOf(ClientThrough, transcript["client"])

(* The client's own flight is what it hashed after the server's Finished.   *)
Hashed(m, th, i) == i <= Len(th) /\ th[i] = View(m)

OwnFlight(m, th, n) ==
    /\ m.type = "EOED" => Hashed(m, th, n + 1)
    /\ m.type = "CERT" /\ cfg.require_client_authentication => Hashed(m, th, n + 1)
    /\ m.type = "CV" /\ cfg.require_client_authentication => Hashed(m, th, n + 2)
    /\ m.type = "FIN" => m.has = {} /\ m.mac # <<>> /\ th = Append(m.mac[2], FinView)

ClientFlightInv ==
    \A r \in InFlight("client") : r.msg.type \in {"EOED", "CERT", "CV", "FIN"} =>
        /\ state["client"] = "CLIENT_POST_HANDSHAKE"
        /\ OwnFlight(r.msg, transcript["client"], Len(ClientThrough))

DoneInv ==
    state["server"] = "SERVER_POST_HANDSHAKE" =>
        /\ state["client"] = "CLIENT_POST_HANDSHAKE"
        /\ transcript["client"] = transcript["server"]
        /\ enc["client"].secret = dec["server"].secret

AgreementInv ==
    NoEarlyInv /\ ServerHashInv /\ ServerFlightInv /\ ClientHashInv /\ ClientFlightInv /\ DoneInv

-----------------------------------------------------------------------------
(* What a step of the other endpoint, or of none, leaves as it was.         *)
LEMMA NoEarlyKept ==
  ASSUME NoEarlyInv, cfg' = cfg, state'["server"] = state["server"],
         state'["client"] = state["client"] \/ state'["client"] \notin ClientFlight
            \/ state'["client"] = "CLIENT_EXPECT_ENCRYPTED_EXTENSIONS",
         using_early_data' = using_early_data \/ state'["client"] \notin ClientFlight,
         \A r \in InFlight("server")' :
            (\E q \in InFlight("server") : Same(r, q)) \/ r.msg.type # "EE"
  PROVE  NoEarlyInv'
<1>1. ASSUME NEW r \in InFlight("server")', r.msg.type = "EE", "early_data" \in r.msg.has
      PROVE  ~cfg.require_client_authentication
  <2>1. PICK q \in InFlight("server") : Same(r, q)
    BY <1>1
  <2>2. q.msg.type = "EE" /\ "early_data" \in q.msg.has
    BY <1>1, <2>1 DEF Same
  <2>. QED  BY <2>2 DEF NoEarlyInv
<1>2. /\ cfg'.require_client_authentication
           /\ state'["client"] \in ClientFlight \ {"CLIENT_EXPECT_ENCRYPTED_EXTENSIONS"} =>
              ~using_early_data'
      /\ state'["server"] \in {"SERVER_EXPECT_CERTIFICATE", "SERVER_EXPECT_CERTIFICATE_VERIFY"} =>
           cfg'.require_client_authentication
  BY DEF NoEarlyInv
<1>. QED  BY <1>1, <1>2 DEF NoEarlyInv

LEMMA ServerHashKept ==
  ASSUME ServerHashInv, state'["server"] = state["server"], sched'["server"] = sched["server"],
         is_psk_handshake'["server"] = is_psk_handshake["server"],
         transcript'["server"] = transcript["server"],
         pending_traffic_secret' = pending_traffic_secret,
         state["server"] \notin ServerHellos => enc'["server"].secret = enc["server"].secret,
         state["client"] = "CLIENT_POST_HANDSHAKE" =>
            state'["client"] = "CLIENT_POST_HANDSHAKE" /\ transcript'["client"] = transcript["client"]
  PROVE  ServerHashInv'
<1>1. CASE state["server"] \in ServerHellos
  BY <1>1 DEF ServerHashInv, ServerHellos
<1>2. CASE state["server"] \notin ServerHellos
  <2>1. ServerThrough' = ServerThrough
    BY <1>2 DEF ServerThrough
  <2>. QED  BY <1>2, <2>1 DEF ServerHashInv, ServerHellos, IsPrefixOf
<1>. QED  BY <1>1, <1>2

LEMMA ServerFlightKept ==
  ASSUME ServerFlightInv, sched'["server"] = sched["server"],
         state'["server"] \in ServerHellos <=> state["server"] \in ServerHellos,
         state["server"] \notin ServerHellos => enc'["server"].secret = enc["server"].secret,
         \A r \in InFlight("server")' :
            (\E q \in InFlight("server") : Same(r, q)) \/ r.msg.type \in {"HRR", "CCS", "ALERT", "DATA"}
  PROVE  ServerFlightInv'
<1>1. ASSUME NEW r \in InFlight("server")'
      PROVE  /\ state'["server"] \in ServerHellos => r.msg.type \in {"HRR", "CCS", "ALERT", "DATA"}
             /\ r.msg.type = "FIN" =>
                  /\ r.msg.has = {} /\ r.msg.mac # <<>>
                  /\ sched'["server"] = Append(r.msg.mac[1].ikm, "0")
                  /\ ServerThrough' = Append(r.msg.mac[2], FinView)
  <2>1. CASE r.msg.type \in {"HRR", "CCS", "ALERT", "DATA"}
    BY <2>1
  <2>2. CASE r.msg.type \notin {"HRR", "CCS", "ALERT", "DATA"}
    <3>1. PICK q \in InFlight("server") : Same(r, q)
      BY <1>1, <2>2
    <3>2. /\ r.msg.type = q.msg.type /\ r.msg.mac = q.msg.mac
          /\ r.msg.type = "FIN" => r.msg.has = q.msg.has
      BY <3>1 DEF Same
    <3>3. state["server"] \notin ServerHellos
      BY <2>2, <3>2 DEF ServerFlightInv
    <3>4. ServerThrough' = ServerThrough
      BY <3>3 DEF ServerThrough
    <3>5. r.msg.type = "FIN" =>
            /\ q.msg.has = {} /\ q.msg.mac # <<>>
            /\ sched["server"] = Append(q.msg.mac[1].ikm, "0")
            /\ ServerThrough = Append(q.msg.mac[2], FinView)
      BY <3>2 DEF ServerFlightInv
    <3>. QED  BY <3>2, <3>3, <3>4, <3>5
  <2>. QED  BY <2>1, <2>2
<1>. QED  BY <1>1 DEF ServerFlightInv

LEMMA ClientHashKept ==
  ASSUME ClientHashInv, cfg' = cfg, state'["client"] = state["client"],
         sched'["client"] = sched["client"], offered_psk' = offered_psk,
         is_psk_handshake'["client"] = is_psk_handshake["client"],
         transcript'["client"] = transcript["client"],
         dec'["client"].secret = dec["client"].secret, enc'["client"].secret = enc["client"].secret,
         state["client"] = "CLIENT_POST_HANDSHAKE" =>
            /\ state'["server"] \notin ServerHellos
            /\ enc'["server"].secret = enc["server"].secret
  PROVE  ClientHashInv'
<1>1. ClientThrough' = ClientThrough /\ Offers' = Offers /\ ClientPsk' = ClientPsk
  BY DEF ClientThrough, Offers, ClientPsk
<1>. QED  BY <1>1 DEF ClientHashInv, IsPrefixOf

LEMMA ClientFlightKept ==
  ASSUME ClientFlightInv, cfg' = cfg,
         state["client"] = "CLIENT_POST_HANDSHAKE" =>
            /\ state'["client"] = "CLIENT_POST_HANDSHAKE"
            /\ transcript'["client"] = transcript["client"]
            /\ dec'["client"].secret = dec["client"].secret,
         \A r \in InFlight("client")' :
            \/ \E q \in InFlight("client") : Same(r, q)
            \/ r.msg.type \notin {"EOED", "CERT", "CV", "FIN"}
  PROVE  ClientFlightInv'
<1>1. ASSUME NEW r \in InFlight("client")', r.msg.type \in {"EOED", "CERT", "CV", "FIN"}
      PROVE  /\ state'["client"] = "CLIENT_POST_HANDSHAKE"
             /\ OwnFlight(r.msg, transcript'["client"], Len(ClientThrough'))
  <2>1. PICK q \in InFlight("client") : Same(r, q)
    BY <1>1
  <2>2. r.msg.type = q.msg.type /\ r.msg.mac = q.msg.mac /\ r.msg.has = q.msg.has
    BY <1>1, <2>1 DEF Same
  <2>3. /\ state["client"] = "CLIENT_POST_HANDSHAKE"
        /\ OwnFlight(q.msg, transcript["client"], Len(ClientThrough))
    BY <1>1, <2>2 DEF ClientFlightInv
  <2>4. ClientThrough' = ClientThrough /\ transcript'["client"] = transcript["client"]
    BY <2>3 DEF ClientThrough
  <2>5. OwnFlight(r.msg, transcript["client"], Len(ClientThrough))
    BY <2>2, <2>3 DEF OwnFlight, Hashed, View
  <2>. QED  BY <2>3, <2>4, <2>5
<1>2. \A r \in InFlight("client")' :
        /\ r.msg.type \in {"EOED", "CERT", "CV", "FIN"}
        /\ OwnFlight(r.msg, transcript'["client"], Len(ClientThrough'))
        => OwnFlight(r.msg, transcript["client"], Len(ClientThrough))'
  BY DEF OwnFlight, Hashed
<1>. QED  BY <1>1, <1>2 DEF ClientFlightInv

LEMMA DoneKept ==
  ASSUME DoneInv, state'["server"] = "SERVER_POST_HANDSHAKE" => state["server"] = "SERVER_POST_HANDSHAKE",
         state["server"] = "SERVER_POST_HANDSHAKE" /\ state["client"] = "CLIENT_POST_HANDSHAKE" =>
            /\ state'["client"] = "CLIENT_POST_HANDSHAKE"
            /\ transcript'["client"] = transcript["client"]
            /\ transcript'["server"] = transcript["server"]
            /\ enc'["client"].secret = enc["client"].secret
            /\ dec'["server"].secret = dec["server"].secret
  PROVE  DoneInv'
BY DEF DoneInv

LEMMA QuietAgreement ==
  ASSUME LocalInv, AgreementInv, QuietStep
  PROVE  AgreementInv'
<1>1. state["client"] \notin ServerHellos
  BY DEF LocalInv, ClientInv, ServerHellos, ClientHellos, ClientFlight
<1>2. /\ enc'["client"].secret = enc["client"].secret
      /\ \A s \in Side : dec'[s].secret = dec[s].secret
      /\ state["server"] \notin ServerHellos => enc'["server"].secret = enc["server"].secret
      /\ cfg' = cfg /\ state' = state /\ sched' = sched /\ transcript' = transcript
      /\ is_psk_handshake' = is_psk_handshake /\ offered_psk' = offered_psk
      /\ using_early_data' = using_early_data /\ pending_traffic_secret' = pending_traffic_secret
  BY <1>1, Sides DEF QuietStep
<1>3. \A r \in InFlight("server")' :
        (\E q \in InFlight("server") : Same(r, q)) \/ r.msg.type \in {"HRR", "CCS", "ALERT", "DATA"}
  BY Sides DEF QuietStep, Fresh
<1>4. \A r \in InFlight("client")' :
        (\E q \in InFlight("client") : Same(r, q)) \/ r.msg.type \notin {"EOED", "CERT", "CV", "FIN"}
  BY Sides DEF QuietStep, Fresh
<1>5. NoEarlyInv'
  BY <1>2, <1>3, NoEarlyKept DEF AgreementInv
<1>6. ServerHashInv'
  BY <1>2, ServerHashKept DEF AgreementInv
<1>7. ServerFlightInv'
  BY <1>2, <1>3, ServerFlightKept DEF AgreementInv
<1>8. ClientHashInv'
  BY <1>2, Sides, ClientHashKept DEF AgreementInv, ClientHashInv
<1>9. ClientFlightInv'
  BY <1>2, <1>4, Sides, ClientFlightKept DEF AgreementInv
<1>10. DoneInv'
  BY <1>2, Sides, DoneKept DEF AgreementInv
<1>. QED  BY <1>5, <1>6, <1>7, <1>8, <1>9, <1>10 DEF AgreementInv

-----------------------------------------------------------------------------
(* The steps of the client.                                                 *)
LEMMA SendClientHelloAgreement ==
  ASSUME LocalInv, AgreementInv, send_client_hello
  PROVE  AgreementInv'
<1>. DEFINE ikm == <<IF Offers THEN ClientPsk ELSE "0">>
<1>1. /\ cfg' = cfg /\ state["client"] = "CLIENT_HANDSHAKE_START"
      /\ state' = [state EXCEPT !["client"] = "CLIENT_EXPECT_SERVER_HELLO"]
      /\ sched' = [sched EXCEPT !["client"] = ikm]
      /\ offered_psk' = Offers /\ is_psk_handshake' = is_psk_handshake
      /\ pending_traffic_secret' = pending_traffic_secret
  <2>1. sched' = [sched EXCEPT !["client"] = ikm]
    BY DEF send_client_hello
  <2>2. offered_psk' = Offers
    BY DEF send_client_hello
  <2>. QED  BY <2>1, <2>2 DEF send_client_hello, serverVars
<1>2. TypeInv /\ state["server"] = "SERVER_EXPECT_CLIENT_HELLO"
  BY <1>1 DEF LocalInv, QuietInv
<1>12. transcript'["server"] = transcript["server"]
  BY <1>2, Sides DEF send_client_hello, TypeInv
<1>3. /\ state'["client"] = "CLIENT_EXPECT_SERVER_HELLO" /\ state'["server"] = state["server"]
      /\ sched'["client"] = ikm /\ sched'["server"] = sched["server"]
  BY <1>1, <1>2, Sides DEF TypeInv
<1>4. InFlight("server")' = InFlight("server")
  BY SendClientHelloFlight
<1>5. \A r \in InFlight("client")' : r.msg.type \in {"CH", "CCS"}
  BY SendClientHelloFlight DEF IsHello
<1>6. NoEarlyInv'
  BY <1>1, <1>3, <1>4, SameAs, NoEarlyKept DEF AgreementInv, ClientFlight
<1>7. ServerHashInv'
  BY <1>1, <1>2, <1>3, <1>12, ServerHashKept DEF AgreementInv, ServerHellos
<1>8. ServerFlightInv'
  BY <1>2, <1>3, <1>4, SameAs, ServerFlightKept DEF AgreementInv, ServerHellos
<1>9. ClientHashInv'
  <2>1. Offers' = Offers /\ ClientPsk' = ClientPsk
    BY <1>1 DEF Offers, ClientPsk
  <2>. QED  BY <1>1, <1>3, <2>1 DEF ClientHashInv, ClientFlight
<1>10. ClientFlightInv'
  BY <1>1, <1>5, ClientFlightKept DEF AgreementInv
<1>11. DoneInv'
  BY <1>2, <1>3 DEF DoneInv
<1>. QED  BY <1>6, <1>7, <1>8, <1>9, <1>10, <1>11 DEF AgreementInv

(* A client that reads in its handshake keeps all that the server has.      *)
LEMMA ClientStepAgreement ==
  ASSUME LocalInv, AgreementInv, NEW next, cfg' = cfg,
         state["client"] # "CLIENT_POST_HANDSHAKE",
         state' = [state EXCEPT !["client"] = next],
         sched'["server"] = sched["server"], transcript'["server"] = transcript["server"],
         is_psk_handshake'["server"] = is_psk_handshake["server"], enc'["server"] = enc["server"],
         pending_traffic_secret' = pending_traffic_secret,
         \A r \in InFlight("server")' : r \in InFlight("server"),
         \A r \in InFlight("client")' :
            r \in InFlight("client") \/ r.msg.type \notin {"EOED", "CERT", "CV", "FIN"},
         NoEarlyInv', ClientHashInv'
  PROVE  AgreementInv'
<1>1. state'["client"] = next /\ state'["server"] = state["server"]
  BY Sides DEF LocalInv, TypeInv
<1>2. ServerHashInv'
  BY <1>1, ServerHashKept DEF AgreementInv
<1>3. ServerFlightInv'
  BY <1>1, SameAs, ServerFlightKept DEF AgreementInv
<1>4. ClientFlightInv'
  BY SameAs, ClientFlightKept DEF AgreementInv
<1>5. DoneInv'
  BY <1>1 DEF AgreementInv, DoneInv
<1>. QED  BY <1>2, <1>3, <1>4, <1>5 DEF AgreementInv

LEMMA HrrAgreement ==
  ASSUME LocalInv, AgreementInv, handle_hello_retry_request
  PROVE  AgreementInv'
<1>1. /\ ClientTakes("HRR") /\ cfg' = cfg /\ sched' = sched /\ dec' = dec
      /\ state' = [state EXCEPT !["client"] = "CLIENT_EXPECT_SECOND_SERVER_HELLO"]
      /\ is_psk_handshake' = is_psk_handshake /\ offered_psk' = offered_psk
      /\ pending_traffic_secret' = pending_traffic_secret /\ using_early_data' = FALSE
  BY DEF handle_hello_retry_request, serverVars
<1>2. transcript'["server"] = transcript["server"] /\ enc'["server"] = enc["server"]
  BY Sides DEF handle_hello_retry_request, LocalInv, TypeInv
<1>3. TypeInv /\ state["client"] \in ClientHellos
  BY <1>1, ClientExpects DEF LocalInv
<1>4. /\ state'["client"] = "CLIENT_EXPECT_SECOND_SERVER_HELLO" /\ state'["server"] = state["server"]
      /\ state["client"] # "CLIENT_POST_HANDSHAKE"
  BY <1>1, <1>3, Sides DEF TypeInv, ClientHellos
<1>5. /\ \A r \in InFlight("server")' : r \in InFlight("server")
      /\ \A r \in InFlight("client")' :
            r \in InFlight("client") \/ r.msg.type \notin {"EOED", "CERT", "CV", "FIN"}
  BY Sides, HrrFlight DEF IsHello
<1>6. NoEarlyInv'
  BY <1>1, <1>4, <1>5, SameAs, NoEarlyKept DEF AgreementInv, ClientFlight
<1>7. ClientHashInv'
  <2>1. Offers' = Offers /\ ClientPsk' = ClientPsk
    BY <1>1 DEF Offers, ClientPsk
  <2>2. offered_psk = Offers /\ sched["client"] = <<IF Offers THEN ClientPsk ELSE "0">>
    BY <1>3 DEF AgreementInv, ClientHashInv, ClientHellos
  <2>. QED  BY <1>1, <1>4, <2>1, <2>2 DEF ClientHashInv, ClientFlight
<1>. QED  BY <1>1, <1>2, <1>4, <1>5, <1>6, <1>7, ClientStepAgreement

LEMMA ClientHandleHelloAgreement ==
  ASSUME LocalInv, TrustInv, AgreementInv, client_handle_hello
  PROVE  AgreementInv'
<1>. DEFINE sh == First("client").msg
            psk == SelectsPsk(sh)
            base == key_schedule_select_one(sched["client"], offered_psk /\ ~psk)
            share == IF SelectsKeyShare(sh) THEN "dhe" ELSE "0"
            ikm == Append(base, share)
            th == Append(transcript["client"], View(sh))
<1>1. /\ ClientTakes("SH") /\ Consume("client") /\ cfg' = cfg /\ sendbuf' = sendbuf
      /\ is_psk_handshake' = [is_psk_handshake EXCEPT !["client"] = psk]
      /\ sched' = [sched EXCEPT !["client"] = ikm]
      /\ dec' = [dec EXCEPT !["client"] = Key(Secret("s_hs_traffic", ikm, th))]
      /\ state' = [state EXCEPT !["client"] = "CLIENT_EXPECT_ENCRYPTED_EXTENSIONS"]
      /\ pending_traffic_secret' = pending_traffic_secret /\ offered_psk' = offered_psk
      /\ using_early_data' = using_early_data
  BY DEF client_handle_hello, serverVars, clientVars
<1>2. TypeInv /\ state["client"] \in ClientHellos /\ wire["server"] # <<>> /\ Ready("client")
      /\ sh.type = "SH" /\ First("client") \in InFlight("server")
  BY <1>1, Sides, ClientExpects, ReadFlight DEF LocalInv
<1>3. transcript'["server"] = transcript["server"] /\ enc'["server"] = enc["server"]
  BY <1>2, Sides DEF client_handle_hello, TypeInv
<1>4. /\ is_psk_handshake'["client"] = psk
      /\ is_psk_handshake'["server"] = is_psk_handshake["server"]
      /\ sched'["client"] = ikm /\ sched'["server"] = sched["server"]
      /\ dec'["client"].secret.ikm = ikm
      /\ state'["client"] = "CLIENT_EXPECT_ENCRYPTED_EXTENSIONS" /\ state'["server"] = state["server"]
      /\ state["client"] # "CLIENT_POST_HANDSHAKE"
  BY <1>1, <1>2, Sides DEF TypeInv, Key, Secret, ClientHellos
<1>5. /\ \A r \in InFlight("server")' : r \in InFlight("server")
      /\ \A r \in InFlight("client")' :
            r \in InFlight("client") \/ r.msg.type \notin {"EOED", "CERT", "CV", "FIN"}
  BY <1>1, <1>2, Sides, ReadQuiet
<1>6. NoEarlyInv'
  BY <1>1, <1>4, <1>5, SameAs, NoEarlyKept DEF AgreementInv
<1>7. offered_psk = Offers /\ sched["client"] = <<IF Offers THEN ClientPsk ELSE "0">>
  BY <1>2 DEF AgreementInv, ClientHashInv, ClientHellos
<1>8. psk => Offers
  BY <1>2, Sides DEF TrustInv, FlightTrust, RecordTrust, SelectsPsk, Offers
<1>9. psk <=> ikm[1] # "0"
  <2>1. base = <<IF psk THEN ClientPsk ELSE "0">>
    BY <1>7, <1>8 DEF key_schedule_select_one
  <2>2. ClientPsk # "0" /\ ClientPsk \in Names /\ "0" \in Names /\ share \in Names
    BY NamesAre DEF ClientPsk
  <2>. HIDE DEF psk, base, share
  <2>3. base \in Seq(Names) /\ Len(base) = 1 /\ base[1] = IF psk THEN ClientPsk ELSE "0"
    BY <2>1, <2>2
  <2>4. Append(base, share)[1] = base[1]
    BY <2>2, <2>3
  <2>. QED  BY <2>2, <2>3, <2>4
<1>. HIDE DEF ikm, psk
<1>10. ClientHashInv'
  <2>1. Offers' = Offers
    BY <1>1 DEF Offers
  <2>. QED  BY <1>1, <1>4, <1>7, <1>9, <2>1 DEF ClientHashInv, ClientHellos
<1>. QED  BY <1>1, <1>3, <1>4, <1>5, <1>6, <1>10, ClientStepAgreement

LEMMA ClientReadsAgreement ==
  ASSUME LocalInv, AgreementInv,
         \/ client_handle_encrypted_extensions \/ client_handle_certificate_request
         \/ client_handle_certificate \/ client_handle_certificate_verify
  PROVE  AgreementInv'
<1>1. PICK next \in ClientFlight \ {"CLIENT_EXPECT_ENCRYPTED_EXTENSIONS"} : ClientStep(next)
  BY DEF client_handle_encrypted_extensions, client_handle_certificate_request,
         client_handle_certificate, client_handle_certificate_verify, ClientFlight
<1>2. PICK type \in {"EE", "CR", "CERT", "CV"} : ClientTakes(type)
  BY DEF client_handle_encrypted_extensions, client_handle_certificate_request,
         client_handle_certificate, client_handle_certificate_verify
<1>3. /\ TypeInv /\ state["client"] \in ClientFlight /\ wire["server"] # <<>> /\ Ready("client")
      /\ First("client") \in InFlight("server")
  BY <1>1, <1>2, Sides, ClientExpects, ReadFlight DEF LocalInv, ClientFlight, ClientStep
<1>4. /\ cfg' = cfg /\ state' = [state EXCEPT !["client"] = next] /\ sched' = sched
      /\ is_psk_handshake' = is_psk_handshake /\ enc' = enc /\ offered_psk' = offered_psk
      /\ pending_traffic_secret' = pending_traffic_secret /\ Consume("client") /\ sendbuf' = sendbuf
  BY <1>1 DEF ClientStep, serverVars
<1>5. /\ transcript'["server"] = transcript["server"]
      /\ dec'["client"].secret = dec["client"].secret
  <2>1. dec' = [dec EXCEPT !["client"] = Advance(dec["client"], 1)] /\ dec["client"] \in Keys
    BY <1>1, <1>3, Sides DEF ClientStep, TypeInv
  <2>2. Advance(dec["client"], 1).secret = dec["client"].secret
    BY <2>1, KeyTypes
  <2>. QED  BY <1>1, <1>3, <2>1, <2>2, Sides DEF ClientStep, TypeInv
<1>6. /\ state'["client"] = next /\ state'["server"] = state["server"]
      /\ state["client"] # "CLIENT_POST_HANDSHAKE"
  BY <1>3, <1>4, Sides DEF TypeInv, ClientFlight
<1>7. /\ \A r \in InFlight("server")' : r \in InFlight("server")
      /\ \A r \in InFlight("client")' :
            r \in InFlight("client") \/ r.msg.type \notin {"EOED", "CERT", "CV", "FIN"}
  BY <1>3, <1>4, Sides, ReadQuiet
<1>8. ClientHashInv'
  <2>1. Offers' = Offers
    BY <1>4 DEF Offers
  <2>2. /\ offered_psk = Offers /\ dec["client"].secret.ikm = sched["client"]
        /\ is_psk_handshake["client"] <=> sched["client"][1] # "0"
    BY <1>3 DEF AgreementInv, ClientHashInv, ClientFlight
  <2>. QED  BY <1>1, <1>4, <1>5, <1>6, <2>1, <2>2 DEF ClientHashInv, ClientHellos, ClientFlight
<1>9. cfg.require_client_authentication => ~using_early_data'
  <2>1. CASE client_handle_encrypted_extensions
    <3>1. First("client").msg.type = "EE"
      BY <2>1, ClientExpects DEF client_handle_encrypted_extensions
    <3>2. using_early_data' => "early_data" \in First("client").msg.has
      BY <2>1 DEF client_handle_encrypted_extensions
    <3>. QED  BY <1>3, <3>1, <3>2 DEF AgreementInv, NoEarlyInv
  <2>2. CASE ~client_handle_encrypted_extensions
    <3>1. using_early_data' = using_early_data
      BY <2>2 DEF client_handle_certificate_request, client_handle_certificate,
                  client_handle_certificate_verify
    <3>2. state["client"] \in ClientFlight \ {"CLIENT_EXPECT_ENCRYPTED_EXTENSIONS"}
      <4>1. PICK t \in {"CR", "CERT", "CV"} : ClientTakes(t)
        BY <2>2 DEF client_handle_certificate_request, client_handle_certificate,
                    client_handle_certificate_verify
      <4>. QED  BY <4>1, ClientExpects DEF ClientFlight
    <3>. QED  BY <3>1, <3>2 DEF AgreementInv, NoEarlyInv
  <2>. QED  BY <2>1, <2>2
<1>10. NoEarlyInv'
  BY <1>4, <1>6, <1>7, <1>9 DEF AgreementInv, NoEarlyInv
<1>. QED  BY <1>4, <1>5, <1>6, <1>7, <1>8, <1>10, ClientStepAgreement

(* Where the messages of the client's flight are in its transcript.         *)
Flight(t, th, a, b) ==
    /\ t \in Seq(Views) /\ Len(t) = Len(th) + Len(a) + Len(b) + 1
    /\ \A i \in 1..Len(th) : t[i] = th[i]
    /\ \A i \in 1..Len(a) : t[Len(th) + i] = View(a[i])
    /\ \A i \in 1..Len(b) : t[Len(th) + Len(a) + i] = View(b[i])

LEMMA FlightHashed ==
  ASSUME NEW th \in Seq(Views), NEW a \in Seq(Messages), NEW b \in Seq(Messages), NEW v \in Views
  PROVE  Flight(Append(Hash(Hash(th, a), b), v), th, a, b)
<1>. DEFINE t == Append(Hash(Hash(th, a), b), v)
<1>. DEFINE x == Hash(th, a)
            y == Hash(x, b)
<1>1. /\ x \in Seq(Views) /\ Len(x) = Len(th) + Len(a)
      /\ \A i \in 1..Len(th) : x[i] = th[i]
      /\ \A i \in 1..Len(a) : x[Len(th) + i] = View(a[i])
  BY HashType
<1>. HIDE DEF x
<1>2. /\ y \in Seq(Views) /\ Len(y) = Len(x) + Len(b)
      /\ \A i \in 1..Len(x) : y[i] = x[i]
      /\ \A i \in 1..Len(b) : y[Len(x) + i] = View(b[i])
  BY <1>1, HashType
<1>0. t = Append(y, v)
  BY DEF x, y
<1>. HIDE DEF t
<1>. HIDE DEF y
<1>3. t \in Seq(Views) /\ Len(t) = Len(y) + 1 /\ \A i \in 1..Len(y) : t[i] = y[i]
  <2>1. y \in Seq(Views) /\ v \in Views
    BY <1>2
  <2>2. Append(y, v) \in Seq(Views) /\ Len(Append(y, v)) = Len(y) + 1
    BY <2>1, AppendType
  <2>3. \A i \in 1..Len(y) : Append(y, v)[i] = y[i]
    BY <2>1, AppendType
  <2>. QED  BY <1>0, <2>2, <2>3
<1>. DEFINE k == Len(th)
            l == Len(a)
            n == Len(b)
<1>4. k \in Nat /\ l \in Nat /\ n \in Nat /\ Len(x) = k + l /\ Len(y) = k + l + n
  BY <1>1, <1>2
<1>. HIDE DEF k, l, n
<1>5. \A i \in 1..Len(th) : t[i] = th[i]
  <2>1. \A i \in 1..k : i \in 1..(k + l) /\ i \in 1..(k + l + n)
    BY <1>4
  <2>. QED  BY <1>1, <1>2, <1>3, <1>4, <2>1 DEF k
<1>6. \A i \in 1..Len(a) : t[Len(th) + i] = View(a[i])
  <2>1. \A i \in 1..l : k + i \in 1..(k + l) /\ k + i \in 1..(k + l + n)
    BY <1>4
  <2>2. \A i \in 1..l : x[k + i] = View(a[i])
    BY <1>1 DEF k, l
  <2>3. \A i \in 1..l : t[k + i] = x[k + i]
    BY <1>2, <1>3, <1>4, <2>1
  <2>. QED  BY <2>2, <2>3 DEF k, l
<1>7. \A i \in 1..Len(b) : t[Len(th) + Len(a) + i] = View(b[i])
  <2>1. \A i \in 1..n : (k + l) + i \in 1..(k + l + n)
    BY <1>4
  <2>2. \A i \in 1..n : y[Len(x) + i] = View(b[i])
    BY <1>2 DEF n
  <2>3. \A i \in 1..n : t[(k + l) + i] = View(b[i])
    BY <1>3, <1>4, <2>1, <2>2
  <2>. QED  BY <2>3 DEF k, l, n
<1>8. Len(t) = Len(th) + Len(a) + Len(b) + 1
  BY <1>3, <1>4 DEF k, l, n
<1>9. Flight(t, th, a, b)
  BY <1>3, <1>5, <1>6, <1>7, <1>8 DEF Flight
<1>. QED  BY <1>9 DEF t

LEMMA CertificatesAt ==
  ASSUME NEW s \in Names, NEW certificate \in Names, NEW th \in Seq(Views)
  PROVE  LET c == Certificates(s, certificate, th)
         IN  \A i \in 1..Len(c) : /\ c[i].type \in {"CERT", "CV"}
                                 /\ i = (IF c[i].type = "CERT" THEN 1 ELSE 2)
<1>. DEFINE c == Certificates(s, certificate, th)
            cert == Plain("CERT", {IF certificate \in {"none", "bad"} THEN certificate ELSE "ok"})
<1>1. Len(c) \in {1, 2}
  BY CertificatesType
<1>2. c[1] = cert
  BY CertificatesType
<1>3. ASSUME Len(c) = 2 PROVE c[2].type = "CV"
  <2>1. LET k == Certificates(s, certificate, th)
            cert0 == Plain("CERT", {IF certificate \in {"none", "bad"} THEN certificate ELSE "ok"})
        IN  /\ k \in Seq(Messages) /\ Len(k) \in {1, 2}
            /\ k[1] = cert0
            /\ Len(k) = 2 => /\ k[2].type = "CV" /\ k[2].has = {}
                              /\ certificate \in {"ok", "bad"}
    BY CertificatesType
  <2>2. c[2].type = "CV" /\ c[2].has = {} /\ certificate \in {"ok", "bad"}
    BY <1>3, <2>1, Zenon
  <2>. QED  BY <2>2
<1>4. cert.type = "CERT"
  BY DEF Plain, Message
<1>. HIDE DEF c, cert
<1>5. \A i \in 1..Len(c) : i = 1 \/ (i = 2 /\ Len(c) = 2)
  <2>. DEFINE n == Len(c)
  <2>1. n \in {1, 2}
    BY <1>1
  <2>. HIDE DEF n
  <2>2. \A i \in 1..n : i = 1 \/ (i = 2 /\ n = 2)
    BY <2>1
  <2>. QED  BY <2>2 DEF n
<1>6. \A i \in 1..Len(c) : /\ c[i].type \in {"CERT", "CV"}
                           /\ i = (IF c[i].type = "CERT" THEN 1 ELSE 2)
  BY <1>2, <1>3, <1>4, <1>5
<1>. QED  BY <1>6 DEF c

(* The server's Finished tells the client what the server has.              *)
LEMMA ServerFinishedTells ==
  ASSUME LocalInv, AgreementInv, client_handle_finished
  PROVE  /\ state["server"] \notin ServerHellos
         /\ FinSched = sched["server"] /\ FinTh1 = ServerThrough
<1>. DEFINE m == First("client").msg
<1>1. ClientTakes("FIN") /\ FinishedVerifies("client") /\ Consume("client")
  BY ClientFinished
<1>2. /\ TypeInv /\ wire["server"] # <<>> /\ state["client"] = "CLIENT_EXPECT_FINISHED"
      /\ m.type = "FIN"
  BY <1>1, ClientExpects DEF LocalInv
<1>3. First("client") \in InFlight("server")
  BY <1>1, <1>2, Sides, ReadFlight
<1>4. /\ state["server"] \notin ServerHellos
      /\ m.has = {} /\ m.mac # <<>>
      /\ sched["server"] = Append(m.mac[1].ikm, "0")
      /\ ServerThrough = Append(m.mac[2], FinView)
  BY <1>2, <1>3 DEF AgreementInv, ServerFlightInv
<1>5. m.mac[1] = dec["client"].secret /\ m.mac[2] = transcript["client"]
  BY <1>1 DEF FinishedVerifies, Mac
<1>6. dec["client"].secret.ikm = sched["client"]
  BY <1>2 DEF AgreementInv, ClientHashInv, ClientFlight
<1>7. View(m) = FinView
  BY <1>2, <1>4 DEF View, FinView
<1>. QED  BY <1>4, <1>5, <1>6, <1>7 DEF FinSched, FinTh1

LEMMA ClientFinishedAgreement ==
  ASSUME LocalInv, AgreementInv, client_handle_finished
  PROVE  AgreementInv'
<1>. DEFINE t == Append(FinTh3, View(FinMsg))
            n == Len(FinTh1)
<1>1. /\ ClientTakes("FIN") /\ cfg' = cfg
      /\ sched' = [sched EXCEPT !["client"] = FinSched]
      /\ dec' = [dec EXCEPT !["client"] = Key(Secret("s_ap_traffic", FinSched, FinTh1))]
      /\ transcript' = [transcript EXCEPT !["client"] = t]
      /\ enc' = [enc EXCEPT !["client"] = Key(Secret("c_ap_traffic", FinSched, FinTh1))]
      /\ state' = [state EXCEPT !["client"] = "CLIENT_POST_HANDSHAKE"]
      /\ is_psk_handshake' = is_psk_handshake /\ offered_psk' = offered_psk
      /\ pending_traffic_secret' = pending_traffic_secret
  BY ClientFinished
<1>2. TypeInv /\ state["client"] = "CLIENT_EXPECT_FINISHED" /\ wire["server"] # <<>>
  BY <1>1, ClientExpects DEF LocalInv
<1>3. state["server"] \notin ServerHellos /\ FinSched = sched["server"] /\ FinTh1 = ServerThrough
  BY ServerFinishedTells
<1>4. /\ FinTh1 \in Seq(Views) /\ FinEoed \in Seq(Messages) /\ FinCerts \in Seq(Messages)
      /\ FinTh3 \in Seq(Views) /\ FinMsg \in Messages /\ View(FinMsg) \in Views
  BY <1>2, ClientFinishedTypes, MessageTypes
<1>5. /\ sched'["client"] = FinSched /\ sched'["server"] = sched["server"]
      /\ transcript'["client"] = t /\ transcript'["server"] = transcript["server"]
      /\ state'["client"] = "CLIENT_POST_HANDSHAKE" /\ state'["server"] = state["server"]
      /\ enc'["server"] = enc["server"] /\ dec'["server"] = dec["server"]
      /\ dec'["client"].secret = Secret("s_ap_traffic", FinSched, FinTh1)
      /\ enc'["client"].secret = Secret("c_ap_traffic", FinSched, FinTh1)
  BY <1>1, <1>2, Sides DEF TypeInv, Key
<1>6. ClientThrough' = FinTh1 /\ dec'["client"].secret.ikm = FinSched
  BY <1>5 DEF ClientThrough, Secret
<1>7. /\ Len(t) = n + Len(FinEoed) + Len(FinCerts) + 1 /\ Len(t) \in Nat /\ n \in Nat
      /\ \A i \in 1..n : t[i] = FinTh1[i]
      /\ \A i \in 1..Len(FinEoed) : t[n + i] = View(FinEoed[i])
      /\ \A i \in 1..Len(FinCerts) : t[n + Len(FinEoed) + i] = View(FinCerts[i])
  <2>1. FinTh3 = Hash(Hash(FinTh1, FinEoed), FinCerts)
    BY DEF FinTh3, FinTh2
  <2>2. t = Append(Hash(Hash(FinTh1, FinEoed), FinCerts), View(FinMsg))
    BY <2>1
  <2>3. /\ t \in Seq(Views) /\ Len(t) = Len(FinTh1) + Len(FinEoed) + Len(FinCerts) + 1
        /\ \A i \in 1..Len(FinTh1) : t[i] = FinTh1[i]
        /\ \A i \in 1..Len(FinEoed) : t[Len(FinTh1) + i] = View(FinEoed[i])
        /\ \A i \in 1..Len(FinCerts) : t[Len(FinTh1) + Len(FinEoed) + i] = View(FinCerts[i])
    <3>1. Flight(Append(Hash(Hash(FinTh1, FinEoed), FinCerts), View(FinMsg)),
                 FinTh1, FinEoed, FinCerts)
      BY <1>4, FlightHashed
    <3>. HIDE DEF t
    <3>. QED  BY <2>2, <3>1 DEF Flight
  <2>4. Len(t) \in Nat /\ Len(FinTh1) \in Nat
    <3>. HIDE DEF t
    <3>. QED  BY <1>4, <2>3
  <2>. HIDE DEF t
  <2>. QED  BY <2>3, <2>4
<1>8. \A r \in InFlight("server")' : r \in InFlight("server")
  BY Sides, ClientFinishedFlight
<1>9. NoEarlyInv'
  BY <1>1, <1>5, <1>8, SameAs, NoEarlyKept DEF AgreementInv, ClientFlight
<1>10. ServerHashInv'
  BY <1>1, <1>2, <1>5, ServerHashKept DEF AgreementInv
<1>11. ServerFlightInv'
  BY <1>5, <1>8, SameAs, ServerFlightKept DEF AgreementInv
<1>12. DoneInv'
  BY <1>2, <1>5, DoneKept DEF AgreementInv
<1>13. ClientHashInv'
  <2>1. Offers' = Offers
    BY <1>1 DEF Offers
  <2>2. /\ offered_psk = Offers /\ sched["client"] \in Seq(Names) /\ Len(sched["client"]) = 2
        /\ is_psk_handshake["client"] <=> sched["client"][1] # "0"
    BY <1>2, Sides DEF AgreementInv, ClientHashInv, ClientFlight, LocalInv, ClientInv, TypeInv
  <2>3. FinSched[1] = sched["client"][1]
    BY <2>2, NamesAre DEF FinSched
  <2>4. enc["server"].secret = Secret("s_ap_traffic", sched["server"], ServerThrough)
    BY <1>3 DEF AgreementInv, ServerHashInv
  <2>5. dec'["client"].secret = enc'["server"].secret
    BY <1>3, <1>5, <2>4
  <2>6. IsPrefixOf(ClientThrough', transcript'["client"])
    <3>1. Len(FinEoed) \in Nat /\ Len(FinCerts) \in Nat
      BY <1>4
    <3>. HIDE DEF t
    <3>2. Len(FinTh1) <= Len(t)
      BY <1>7, <3>1
    <3>3. IsPrefixOf(FinTh1, t)
      BY <1>7, <3>2 DEF IsPrefixOf
    <3>. QED  BY <1>5, <1>6, <3>3
  <2>. HIDE DEF t
  <2>. QED  BY <1>1, <1>3, <1>5, <1>6, <2>1, <2>2, <2>3, <2>5, <2>6
            DEF ClientHashInv, ClientHellos, ClientFlight, IsPrefixOf
<1>14. ASSUME NEW r \in Elems(FinRecords), r.msg.type \in {"EOED", "CERT", "CV", "FIN"}
       PROVE  OwnFlight(r.msg, t, n)
  <2>1. \/ (r.msg = Plain("EOED", {}) /\ FinEarly) \/ r.msg = FinMsg
        \/ (r.msg \in Elems(FinCerts) /\ certificate_request)
    BY <1>14, ClientFinishedFlight
  <2>2. CASE r.msg = Plain("EOED", {}) /\ FinEarly
    <3>1. FinEoed = <<r.msg>>
      BY <2>2 DEF FinEoed, When
    <3>2. Len(FinEoed) = 1 /\ FinEoed[1] = r.msg /\ Len(FinCerts) \in Nat
      BY <1>4, <3>1
    <3>3. Hashed(r.msg, t, n + 1)
      BY <1>7, <3>2 DEF Hashed
    <3>4. r.msg.type = "EOED"
      BY <2>2 DEF Plain, Message
    <3>. QED  BY <3>3, <3>4 DEF OwnFlight
  <2>3. CASE r.msg = FinMsg
    <3>1. /\ FinMsg.type = "FIN" /\ FinMsg.has = {} /\ FinMsg.mac = <<FinKey.secret, FinTh3>>
          /\ View(FinMsg) = FinView
      BY DEF FinMsg, send_finished, Message, Mac, View, FinView
    <3>2. FinMsg.mac # <<>> /\ FinMsg.mac[2] = FinTh3
      BY <3>1
    <3>. QED  BY <2>3, <3>1, <3>2 DEF OwnFlight
  <2>4. CASE r.msg \in Elems(FinCerts) /\ certificate_request
    <3>1. FinCerts = Certificates("client", cfg.client_certificate, FinTh2)
      BY <2>4 DEF FinCerts
    <3>2. FinTh2 \in Seq(Views) /\ cfg.client_certificate \in Names /\ "client" \in Names
      BY <1>2, ClientFinishedTypes, ConfigTypes, NamesAre
    <3>3. PICK i \in 1..Len(FinCerts) : r.msg = FinCerts[i]
      BY <2>4 DEF Elems
    <3>4. r.msg.type \in {"CERT", "CV"} /\ i = (IF r.msg.type = "CERT" THEN 1 ELSE 2)
      BY <3>1, <3>2, <3>3, CertificatesAt
    <3>5. cfg.require_client_authentication => FinEoed = <<>>
      BY <1>2 DEF AgreementInv, NoEarlyInv, FinEarly, FinEoed, When, ClientFlight
    <3>6. cfg.require_client_authentication => Hashed(r.msg, t, n + i)
      <4>1. SUFFICES ASSUME FinEoed = <<>> PROVE Hashed(r.msg, t, n + i)
        BY <3>5
      <4>2. Len(FinEoed) = 0 /\ Len(FinCerts) \in Nat
        BY <1>4, <4>1
      <4>. QED  BY <1>7, <3>3, <4>2 DEF Hashed
    <3>. QED  BY <3>4, <3>6 DEF OwnFlight
  <2>. QED  BY <2>1, <2>2, <2>3, <2>4
<1>15. ClientFlightInv'
  <2>1. ASSUME NEW r \in InFlight("client")', r.msg.type \in {"EOED", "CERT", "CV", "FIN"}
        PROVE  OwnFlight(r.msg, t, n)
    <3>1. r \notin InFlight("client")
      BY <1>2, <2>1 DEF AgreementInv, ClientFlightInv
    <3>. QED  BY <1>14, <2>1, <3>1, Sides, ClientFinishedFlight
  <2>. HIDE DEF t, n
  <2>2. \A r \in InFlight("client")' :
          OwnFlight(r.msg, transcript'["client"], Len(ClientThrough')) =>
            OwnFlight(r.msg, transcript["client"], Len(ClientThrough))'
    BY <1>1 DEF OwnFlight, Hashed
  <2>3. transcript'["client"] = t /\ Len(ClientThrough') = n
    BY <1>5, <1>6 DEF n
  <2>. QED  BY <1>5, <2>1, <2>2, <2>3 DEF ClientFlightInv
<1>. QED  BY <1>9, <1>10, <1>11, <1>12, <1>13, <1>15 DEF AgreementInv

-----------------------------------------------------------------------------
(* The steps of the server.                                                 *)
LEMMA ServerRetryAgreement ==
  ASSUME LocalInv, AgreementInv, ServerRetry
  PROVE  AgreementInv'
<1>. DEFINE ch == First("server").msg
<1>1. /\ ServerTakes("CH") /\ NeedsRetry(ch) /\ cfg' = cfg /\ enc' = enc /\ dec' = dec
      /\ sched' = [sched EXCEPT !["server"] = Append(sched["server"], "0")]
      /\ state' = [state EXCEPT !["server"] = "SERVER_EXPECT_SECOND_CLIENT_HELLO"]
      /\ is_psk_handshake' = is_psk_handshake /\ offered_psk' = offered_psk
      /\ using_early_data' = using_early_data /\ pending_traffic_secret' = pending_traffic_secret
  BY DEF ServerRetry, keys, clientVars
<1>2. TypeInv /\ ServerInv /\ state["server"] = "SERVER_EXPECT_CLIENT_HELLO"
  BY <1>1, ServerExpects DEF LocalInv, ServerHellos, NeedsRetry, Stateful
<1>3. transcript'["client"] = transcript["client"]
  BY <1>2, Sides DEF ServerRetry, TypeInv
<1>4. /\ state'["server"] = "SERVER_EXPECT_SECOND_CLIENT_HELLO" /\ state'["client"] = state["client"]
      /\ sched'["client"] = sched["client"] /\ sched'["server"] = Append(sched["server"], "0")
  BY <1>1, <1>2, Sides DEF TypeInv
<1>5. sched'["server"] = <<"0">>
  <2>1. sched["server"] = <<>>
    BY <1>2 DEF ServerInv
  <2>. QED  BY <1>4, <2>1
<1>6. state["client"] # "CLIENT_POST_HANDSHAKE"
  BY <1>2 DEF AgreementInv, ClientHashInv, ServerHellos
<1>7. /\ \A r \in InFlight("server")' :
            r \in InFlight("server") \/ r.msg.type \in {"HRR", "CCS"}
      /\ \A r \in InFlight("client")' : r \in InFlight("client")
  BY Sides, ServerRetryFlight
<1>8. NoEarlyInv'
  BY <1>1, <1>4, <1>7 DEF AgreementInv, NoEarlyInv
<1>9. ServerHashInv'
  BY <1>4, <1>5 DEF ServerHashInv, ServerHellos
<1>10. ServerFlightInv'
  <2>1. \A r \in InFlight("server")' : r.msg.type \in {"HRR", "CCS", "ALERT", "DATA"}
    BY <1>2, <1>7 DEF AgreementInv, ServerFlightInv, ServerHellos
  <2>. QED  BY <2>1 DEF ServerFlightInv
<1>11. ClientHashInv'
  BY <1>1, <1>3, <1>4, <1>6, ClientHashKept DEF AgreementInv
<1>12. ClientFlightInv'
  BY <1>1, <1>6, <1>7, SameAs, ClientFlightKept DEF AgreementInv
<1>13. DoneInv'
  BY <1>4 DEF DoneInv
<1>. QED  BY <1>8, <1>9, <1>10, <1>11, <1>12, <1>13 DEF AgreementInv

LEMMA HelloThrough ==
  ASSUME TypeInv, ServerInv, state["server"] \in ServerHellos, NEW ch \in Messages
  PROVE  /\ HelloTh3(ch) = Append(HelloTh2(ch), FinView)
         /\ HelloSched(ch) = Append(HandshakeSched(ch), "0")
         /\ HelloFin(ch).type = "FIN" /\ HelloFin(ch).has = {}
         /\ HelloFin(ch).mac # <<>> /\ HelloFin(ch).mac[1].ikm = HandshakeSched(ch)
         /\ HelloFin(ch).mac[2] = HelloTh2(ch)
<1>1. HelloTh2(ch) \in Seq(Views) /\ HelloFin(ch) \in Messages
  BY HelloTypes
<1>2. HelloTh3(ch) = Append(HelloTh2(ch), View(HelloFin(ch)))
  BY <1>1, HashOne DEF HelloTh3
<1>3. /\ HelloFin(ch).type = "FIN" /\ HelloFin(ch).has = {}
      /\ HelloFin(ch).mac = <<HelloKey(ch).secret, HelloTh2(ch)>>
  BY DEF HelloFin, send_finished, Message, Mac
<1>4. HelloKey(ch).secret.ikm = HandshakeSched(ch)
  BY DEF HelloKey, HandshakeSecret, Key, Secret
<1>5. HelloFin(ch).mac # <<>> /\ HelloFin(ch).mac[1] = HelloKey(ch).secret
      /\ HelloFin(ch).mac[2] = HelloTh2(ch)
  BY <1>3
<1>6. View(HelloFin(ch)) = FinView
  BY <1>3 DEF View, FinView
<1>. QED  BY <1>2, <1>3, <1>4, <1>5, <1>6 DEF HelloSched

(* The mode is in the first input of the key schedule.                      *)
LEMMA HelloMode ==
  ASSUME TypeInv, ServerInv, ServerHashInv, state["server"] \in ServerHellos, NEW ch \in Messages
  PROVE  FindsPsk(ch) <=> HelloSched(ch)[1] # "0"
<1>. DEFINE base == Base(ch)
            share == IF Dhe(ch) THEN "dhe" ELSE "0"
<1>1. base \in Seq(Names) /\ Len(base) = 1 /\ HandshakeSched(ch) \in Seq(Names)
  BY HelloTypes
<1>2. share \in Names /\ "0" \in Names /\ HandshakeSched(ch) = Append(base, share)
  BY NamesAre DEF HandshakeSched
<1>3. FindsPsk(ch) <=> base[1] # "0"
  <2>1. CASE Stateful
    <3>1. sched["server"] = <<"0">> /\ ~FindsPsk(ch)
      BY <2>1 DEF Stateful, ServerHashInv, FindsPsk, TriesPsk, SecondFlight
    <3>. QED  BY <2>1, <3>1 DEF Base
  <2>2. CASE ~Stateful
    BY <2>2 DEF Base
  <2>. QED  BY <2>1, <2>2
<1>. HIDE DEF base, share
<1>4. Append(base, share)[1] = base[1] /\ Len(Append(base, share)) = 2
  <2>1. /\ Len(Append(base, share)) = Len(base) + 1
        /\ \A i \in 1..Len(base) : Append(base, share)[i] = base[i]
    <3>1. base \in Seq(Names) /\ share \in Names
      BY <1>1, <1>2
    <3>. QED  BY <3>1, AppendType
  <2>. QED  BY <1>1, <2>1
<1>. DEFINE hs == HandshakeSched(ch)
<1>5. hs \in Seq(Names) /\ Len(hs) = 2 /\ hs[1] = base[1]
  BY <1>1, <1>2, <1>4
<1>. HIDE DEF hs
<1>6. Append(hs, "0")[1] = hs[1]
  <2>1. \A i \in 1..Len(hs) : Append(hs, "0")[i] = hs[i]
    <3>1. hs \in Seq(Names) /\ "0" \in Names
      BY <1>2, <1>5
    <3>. QED  BY <3>1, AppendType
  <2>. QED  BY <1>5, <2>1
<1>. QED  BY <1>3, <1>5, <1>6 DEF HelloSched, hs

LEMMA ServerHelloAgreement ==
  ASSUME LocalInv, AgreementInv, server_handle_hello
  PROVE  AgreementInv'
<1>. DEFINE ch == First("server").msg
            out == HelloRecords(ch)
            ap == Advance(HelloApKey(ch), Len(HelloNst(ch)))
            next == IF AcceptsEarlyData(ch) THEN "SERVER_EXPECT_END_OF_EARLY_DATA"
                    ELSE IF cfg.require_client_authentication THEN "SERVER_EXPECT_CERTIFICATE"
                    ELSE "SERVER_EXPECT_FINISHED"
<1>1. /\ Consume("server") /\ cfg' = cfg
      /\ is_psk_handshake' = [is_psk_handshake EXCEPT !["server"] = FindsPsk(ch)]
      /\ sched' = [sched EXCEPT !["server"] = HelloSched(ch)]
      /\ transcript' = [transcript EXCEPT !["server"] = HelloTh3(ch)]
      /\ enc' = [enc EXCEPT !["server"] = ap]
      /\ pending_traffic_secret' = Secret("c_ap_traffic", HelloSched(ch), HelloTh3(ch))
      /\ state' = [state EXCEPT !["server"] = next]
      /\ offered_psk' = offered_psk /\ using_early_data' = using_early_data
  BY ServerHelloParts
<1>2. /\ sendbuf' = [sendbuf EXCEPT !["server"] = sendbuf["server"] \o out]
      /\ state["server"] \in ServerHellos /\ wire["client"] # <<>> /\ ch \in Messages
  BY ServerHelloSends
<1>3. TypeInv /\ ServerInv /\ ServerHashInv
  BY DEF LocalInv, AgreementInv
<1>4. dec'["client"] = dec["client"]
  BY <1>3, Sides, ServerHelloParts DEF TypeInv
<1>5. ap.secret = Secret("s_ap_traffic", HelloSched(ch), HelloTh3(ch))
  <2>1. HelloApKey(ch) \in Keys /\ Len(HelloNst(ch)) \in Nat
    BY <1>2, <1>3, HelloTypes, HelloSends
  <2>. QED  BY <2>1, KeyTypes DEF HelloApKey, Key
<1>6. cfg.require_client_authentication => ~AcceptsEarlyData(ch)
  BY DEF AcceptsEarlyData, FindsPsk, TriesPsk
<1>. HIDE DEF ap, next
<1>7. /\ is_psk_handshake'["server"] = FindsPsk(ch)
      /\ is_psk_handshake'["client"] = is_psk_handshake["client"]
      /\ sched'["server"] = HelloSched(ch) /\ sched'["client"] = sched["client"]
      /\ transcript'["server"] = HelloTh3(ch) /\ transcript'["client"] = transcript["client"]
      /\ enc'["server"].secret = Secret("s_ap_traffic", HelloSched(ch), HelloTh3(ch))
      /\ enc'["client"] = enc["client"]
      /\ state'["server"] = next /\ state'["client"] = state["client"]
  BY <1>1, <1>3, <1>5, Sides DEF TypeInv
<1>8. /\ next \notin ServerHellos
      /\ next \notin {"SERVER_POST_HANDSHAKE", "SERVER_EXPECT_CERTIFICATE_VERIFY"}
      /\ next = "SERVER_EXPECT_CERTIFICATE" => cfg.require_client_authentication
  BY DEF next, ServerHellos
<1>9. ServerThrough' = HelloTh3(ch)
  BY <1>7 DEF ServerThrough, Secret
<1>10. state["client"] # "CLIENT_POST_HANDSHAKE"
  BY <1>2 DEF AgreementInv, ClientHashInv
<1>11. out \in Seq(Recs)
  BY <1>2, <1>3, HelloSends
<1>12. ASSUME NEW r \in Elems(out)
       PROVE  /\ r.msg.type = "EE" /\ "early_data" \in r.msg.has => AcceptsEarlyData(ch)
              /\ r.msg.type = "FIN" => r.msg = HelloFin(ch)
  <2>1. \/ r.msg = ServerHello(ch) \/ r.msg.type = "CCS"
        \/ r.msg \in Elems(Extensions(ch)) \/ r.msg \in Elems(HelloCerts(ch))
        \/ r.msg = HelloFin(ch) \/ r.msg = HelloTicket(ch)
    BY <1>2, <1>3, HelloSends
  <2>2. CASE r.msg \in Elems(Extensions(ch))
    <3>1. r.msg = Plain("EE", If(AcceptsEarlyData(ch), "early_data")) \/ r.msg = Plain("CR", {})
      BY <1>2, <1>3, <2>2, ExtensionsType
    <3>. QED  BY <3>1 DEF Plain, Message, If
  <2>3. CASE r.msg \in Elems(HelloCerts(ch))
    <3>1. HelloCerts(ch) = Certificates("server", cfg.server_certificate, HelloTh1(ch))
      BY <2>3, ElemsOf DEF HelloCerts
    <3>2. PICK i \in 1..Len(HelloCerts(ch)) : r.msg = HelloCerts(ch)[i]
      BY <2>3 DEF Elems
    <3>3. r.msg.type \in {"CERT", "CV"}
      <4>1. /\ HelloTh1(ch) \in Seq(Views) /\ cfg.server_certificate \in Names
            /\ "server" \in Names
        BY <1>2, <1>3, HelloTypes, ConfigTypes, NamesAre
      <4>2. \A j \in 1..Len(HelloCerts(ch)) : HelloCerts(ch)[j].type \in {"CERT", "CV"}
        BY <3>1, <4>1, CertificatesAt
      <4>. QED  BY <3>2, <4>2
    <3>. QED  BY <3>3
  <2>4. CASE \/ r.msg = ServerHello(ch) \/ r.msg.type = "CCS" \/ r.msg = HelloFin(ch)
             \/ r.msg = HelloTicket(ch)
    <3>1. /\ ServerHello(ch).type = "SH" /\ HelloTicket(ch).type = "NST"
          /\ HelloFin(ch).type = "FIN"
      BY DEF ServerHello, HelloFin, HelloTicket, send_finished, Plain, Message
    <3>. QED  BY <2>4, <3>1
  <2>. QED  BY <2>1, <2>2, <2>3, <2>4
<1>. HIDE DEF out
<1>13. /\ \A r \in InFlight("server")' : r \in InFlight("server") \/ r \in Elems(out)
       /\ \A r \in InFlight("client")' : r \in InFlight("client")
  BY <1>1, <1>2, <1>3, <1>11, Sides, Written
<1>14. \A r \in InFlight("server") : r.msg.type \in {"HRR", "CCS", "ALERT", "DATA"}
  BY <1>2 DEF AgreementInv, ServerFlightInv
<1>15. NoEarlyInv'
  <2>1. \A r \in InFlight("server")' :
          r.msg.type = "EE" /\ "early_data" \in r.msg.has => ~cfg'.require_client_authentication
    BY <1>1, <1>6, <1>12, <1>13, <1>14
  <2>. QED  BY <1>1, <1>7, <1>8, <2>1 DEF AgreementInv, NoEarlyInv
<1>16. ServerHashInv'
  <2>1. FindsPsk(ch) <=> HelloSched(ch)[1] # "0"
    BY <1>2, <1>3, HelloMode
  <2>. HIDE DEF ch
  <2>. QED  BY <1>1, <1>7, <1>8, <1>9, <2>1 DEF ServerHashInv, ServerHellos
<1>17. ServerFlightInv'
  <2>1. /\ HelloTh3(ch) = Append(HelloTh2(ch), FinView)
        /\ HelloSched(ch) = Append(HandshakeSched(ch), "0")
        /\ HelloFin(ch).type = "FIN" /\ HelloFin(ch).has = {}
        /\ HelloFin(ch).mac # <<>> /\ HelloFin(ch).mac[1].ikm = HandshakeSched(ch)
        /\ HelloFin(ch).mac[2] = HelloTh2(ch)
    BY <1>2, <1>3, HelloThrough
  <2>. HIDE DEF ch
  <2>2. ASSUME NEW r \in InFlight("server")', r.msg.type = "FIN"
        PROVE  /\ r.msg.has = {} /\ r.msg.mac # <<>>
               /\ sched'["server"] = Append(r.msg.mac[1].ikm, "0")
               /\ ServerThrough' = Append(r.msg.mac[2], FinView)
    <3>1. r.msg = HelloFin(ch)
      BY <1>12, <1>13, <1>14, <2>2
    <3>. QED  BY <1>7, <1>9, <2>1, <3>1
  <2>3. state'["server"] \notin ServerHellos
    BY <1>7, <1>8
  <2>. QED  BY <2>2, <2>3 DEF ServerFlightInv
<1>18. ClientHashInv'
  BY <1>1, <1>4, <1>7, <1>10, ClientHashKept DEF AgreementInv
<1>19. ClientFlightInv'
  BY <1>1, <1>10, <1>13, SameAs, ClientFlightKept DEF AgreementInv
<1>20. DoneInv'
  BY <1>7, <1>8 DEF DoneInv
<1>. QED  BY <1>15, <1>16, <1>17, <1>18, <1>19, <1>20 DEF AgreementInv

(* A server that reads the client's flight follows the client's transcript. *)
LEMMA ServerStepAgreement ==
  ASSUME LocalInv, AgreementInv, NEW type, NEW next, ServerTakes(type), Consume("server"),
         cfg' = cfg, sched' = sched, enc' = enc, sendbuf' = sendbuf,
         is_psk_handshake' = is_psk_handshake, offered_psk' = offered_psk,
         using_early_data' = using_early_data,
         transcript' = [transcript EXCEPT !["server"] =
                          Append(transcript["server"], View(First("server").msg))],
         state' = [state EXCEPT !["server"] = next], dec'["client"] = dec["client"],
         state["server"] \notin ServerHellos \cup {"SERVER_POST_HANDSHAKE"},
         next \in {"SERVER_EXPECT_CERTIFICATE_VERIFY", "SERVER_EXPECT_FINISHED",
                   "SERVER_POST_HANDSHAKE"},
         next = "SERVER_EXPECT_CERTIFICATE_VERIFY" =>
            cfg.require_client_authentication /\ state["server"] = "SERVER_EXPECT_CERTIFICATE",
         next # "SERVER_POST_HANDSHAKE" => pending_traffic_secret' = pending_traffic_secret,
         state["client"] = "CLIENT_POST_HANDSHAKE",
         IsPrefixOf(transcript'["server"], transcript["client"]),
         DoneInv'
  PROVE  AgreementInv'
<1>1. TypeInv /\ Ready("server") /\ wire["client"] # <<>>
  BY ServerExpects DEF LocalInv
<1>2. /\ state'["server"] = next /\ state'["client"] = state["client"]
      /\ transcript'["client"] = transcript["client"]
      /\ transcript'["server"] = Append(transcript["server"], View(First("server").msg))
      /\ next \notin ServerHellos
  BY <1>1, Sides DEF TypeInv, ServerHellos
<1>3. \A s \in Side : \A r \in InFlight(s)' : r \in InFlight(s)
  BY <1>1, Sides, ReadQuiet
<1>4. ServerThrough' = ServerThrough
  BY DEF ServerThrough
<1>5. NoEarlyInv'
  BY <1>2, <1>3, Sides DEF AgreementInv, NoEarlyInv
<1>6. ServerFlightInv'
  BY <1>2, <1>3, Sides, SameAs, ServerFlightKept DEF AgreementInv
<1>7. ClientHashInv'
  BY <1>2, ClientHashKept DEF AgreementInv
<1>8. ClientFlightInv'
  BY <1>2, <1>3, Sides, SameAs, ClientFlightKept DEF AgreementInv
<1>9. next = "SERVER_EXPECT_CERTIFICATE_VERIFY" =>
        Len(transcript'["server"]) = Len(ServerThrough) + 1
  <2>1. SUFFICES ASSUME next = "SERVER_EXPECT_CERTIFICATE_VERIFY"
                 PROVE  Len(transcript'["server"]) = Len(ServerThrough) + 1
    OBVIOUS
  <2>2. transcript["server"] = ServerThrough
    BY <2>1 DEF AgreementInv, ServerHashInv
  <2>3. View(First("server").msg) \in Views /\ transcript["server"] \in Seq(Views)
    BY <1>1, Sides, ReadTypes, MessageTypes DEF TypeInv
  <2>. HIDE DEF First
  <2>4. Len(Append(transcript["server"], View(First("server").msg))) = Len(transcript["server"]) + 1
    BY <2>3, AppendType
  <2>. QED  BY <1>2, <2>2, <2>4
<1>10. ServerHashInv'
  <2>1. /\ enc["server"].secret = Secret("s_ap_traffic", sched["server"], ServerThrough)
        /\ is_psk_handshake["server"] <=> sched["server"][1] # "0"
        /\ pending_traffic_secret = Secret("c_ap_traffic", sched["server"], ServerThrough)
    BY DEF AgreementInv, ServerHashInv
  <2>2. IsPrefixOf(transcript["server"], transcript["client"])'
    BY <1>2 DEF IsPrefixOf
  <2>. QED  BY <1>2, <1>4, <1>9, <2>1, <2>2 DEF ServerHashInv, ServerHellos
<1>. QED  BY <1>5, <1>6, <1>7, <1>8, <1>10 DEF AgreementInv

LEMMA PrefixAppend ==
  ASSUME NEW p \in Seq(Views), NEW q \in Seq(Views), NEW v \in Views, IsPrefixOf(p, q),
         Len(p) + 1 <= Len(q), q[Len(p) + 1] = v
  PROVE  IsPrefixOf(Append(p, v), q)
<1>1. /\ Len(Append(p, v)) = Len(p) + 1 /\ Append(p, v)[Len(p) + 1] = v
      /\ \A i \in 1..Len(p) : Append(p, v)[i] = p[i]
  BY AppendType
<1>2. \A i \in 1..(Len(p) + 1) : i \in 1..Len(p) \/ i = Len(p) + 1
  OBVIOUS
<1>. QED  BY <1>1, <1>2 DEF IsPrefixOf

LEMMA ServerReadsAgreement ==
  ASSUME LocalInv, AgreementInv,
         \/ server_handle_end_of_early_data \/ server_handle_certificate
         \/ server_handle_certificate_verify \/ server_handle_finished
  PROVE  AgreementInv'
<1>. DEFINE m == First("server").msg
            ths == transcript["server"]
            thc == transcript["client"]
            n == Len(ServerThrough)
<1>1. PICK type \in {"EOED", "CERT", "CV", "FIN"} :
         /\ ServerTakes(type) /\ Consume("server") /\ sendbuf' = sendbuf /\ cfg' = cfg
         /\ is_psk_handshake' = is_psk_handshake /\ sched' = sched /\ enc' = enc
         /\ offered_psk' = offered_psk /\ using_early_data' = using_early_data
         /\ transcript' = [transcript EXCEPT !["server"] = Append(ths, View(m))]
  BY DEF server_handle_end_of_early_data, server_handle_certificate,
         server_handle_certificate_verify, server_handle_finished, ServerStep, clientVars
<1>2. TypeInv /\ Ready("server") /\ wire["client"] # <<>> /\ First("server") \in InFlight("client")
      /\ m.type = type /\ m \in Messages
  BY <1>1, Sides, ServerExpects, ReadFlight, ReadTypes DEF LocalInv
<1>3. state["client"] = "CLIENT_POST_HANDSHAKE" /\ OwnFlight(m, thc, Len(ClientThrough))
  BY <1>1, <1>2 DEF AgreementInv, ClientFlightInv
<1>4. /\ dec["client"].secret = enc["server"].secret /\ ClientThrough = ServerThrough
      /\ state["server"] \notin ServerHellos /\ IsPrefixOf(ServerThrough, thc)
      /\ enc["client"].secret = Secret("c_ap_traffic", sched["client"], ServerThrough)
      /\ dec["client"].secret.ikm = sched["client"]
  BY <1>3 DEF AgreementInv, ClientHashInv, ClientThrough, ServerThrough
<1>5. dec'["client"] = dec["client"]
  BY <1>2, Sides
     DEF TypeInv, server_handle_end_of_early_data, server_handle_certificate,
         server_handle_certificate_verify, server_handle_finished, ServerStep
<1>6. /\ ths \in Seq(Views) /\ thc \in Seq(Views) /\ View(m) \in Views
      /\ ServerThrough \in Seq(Views) /\ n \in Nat
  <2>1. ths \in Seq(Views) /\ thc \in Seq(Views) /\ enc["server"] \in Keys
    BY <1>2, Sides DEF TypeInv
  <2>2. View(m) \in Views
    BY <1>2, MessageTypes
  <2>3. ServerThrough \in Seq(Views)
    BY <2>1 DEF ServerThrough, Keys, Secrets
  <2>. QED  BY <2>1, <2>2, <2>3
<1>7. transcript'["server"] = Append(ths, View(m))
  BY <1>1, <1>2, Sides DEF TypeInv
<1>. HIDE DEF m, ths, thc, n
<1>8. CASE server_handle_end_of_early_data
  <2>1. /\ ServerTakes("EOED") /\ pending_traffic_secret' = pending_traffic_secret
        /\ state' = [state EXCEPT !["server"] = "SERVER_EXPECT_FINISHED"]
    BY <1>8 DEF server_handle_end_of_early_data, serverVars
  <2>2. state["server"] = "SERVER_EXPECT_END_OF_EARLY_DATA" /\ m.type = "EOED"
    BY <2>1, ServerExpects DEF m
  <2>3. ths = ServerThrough
    BY <2>2 DEF AgreementInv, ServerHashInv, ths
  <2>4. Hashed(m, thc, n + 1)
    BY <1>3, <1>4, <2>2 DEF OwnFlight, n
  <2>5. IsPrefixOf(Append(ths, View(m)), thc)
    BY <1>4, <1>6, <2>3, <2>4, PrefixAppend DEF Hashed, n
  <2>6. DoneInv'
    BY <1>2, <2>1, Sides DEF DoneInv, TypeInv
  <2>. QED  BY <1>1, <1>3, <1>4, <1>5, <1>7, <2>1, <2>2, <2>5, <2>6, ServerStepAgreement
            DEF m, ths, thc
<1>9. CASE server_handle_certificate
  <2>1. /\ ServerTakes("CERT") /\ pending_traffic_secret' = pending_traffic_secret
        /\ state' = [state EXCEPT !["server"] = "SERVER_EXPECT_CERTIFICATE_VERIFY"]
    BY <1>9 DEF server_handle_certificate, ServerStep, serverVars
  <2>2. state["server"] = "SERVER_EXPECT_CERTIFICATE" /\ m.type = "CERT"
    BY <2>1, ServerExpects DEF m
  <2>3. ths = ServerThrough /\ cfg.require_client_authentication
    BY <2>2 DEF AgreementInv, ServerHashInv, NoEarlyInv, ths
  <2>4. Hashed(m, thc, n + 1)
    BY <1>3, <1>4, <2>2, <2>3 DEF OwnFlight, n
  <2>5. IsPrefixOf(Append(ths, View(m)), thc)
    BY <1>4, <1>6, <2>3, <2>4, PrefixAppend DEF Hashed, n
  <2>6. DoneInv'
    BY <1>2, <2>1, Sides DEF DoneInv, TypeInv
  <2>. QED  BY <1>1, <1>3, <1>4, <1>5, <1>7, <2>1, <2>2, <2>3, <2>5, <2>6, ServerStepAgreement
            DEF m, ths, thc
<1>10. CASE server_handle_certificate_verify
  <2>1. /\ ServerTakes("CV") /\ pending_traffic_secret' = pending_traffic_secret
        /\ state' = [state EXCEPT !["server"] = "SERVER_EXPECT_FINISHED"]
    BY <1>10 DEF server_handle_certificate_verify, ServerStep, serverVars
  <2>2. state["server"] = "SERVER_EXPECT_CERTIFICATE_VERIFY" /\ m.type = "CV"
    BY <2>1, ServerExpects DEF m
  <2>3. /\ Len(ths) = n + 1 /\ cfg.require_client_authentication
        /\ ths = ServerThrough \/ IsPrefixOf(ths, thc)
    BY <1>4, <2>2 DEF AgreementInv, ServerHashInv, NoEarlyInv, ths, thc, n
  <2>4. IsPrefixOf(ths, thc)
    BY <1>4, <2>3
  <2>5. Hashed(m, thc, n + 2)
    BY <1>3, <1>4, <2>2, <2>3 DEF OwnFlight, n
  <2>6. IsPrefixOf(Append(ths, View(m)), thc)
    <3>1. n + 2 = Len(ths) + 1
      BY <1>6, <2>3
    <3>2. Len(ths) + 1 <= Len(thc) /\ thc[Len(ths) + 1] = View(m)
      BY <2>5, <3>1 DEF Hashed
    <3>. QED  BY <1>6, <2>4, <3>2, PrefixAppend
  <2>7. DoneInv'
    BY <1>2, <2>1, Sides DEF DoneInv, TypeInv
  <2>. QED  BY <1>1, <1>3, <1>4, <1>5, <1>7, <2>1, <2>2, <2>6, <2>7, ServerStepAgreement
            DEF m, ths, thc
<1>11. CASE server_handle_finished
  <2>1. /\ ServerTakes("FIN") /\ FinishedVerifies("server")
        /\ dec' = [dec EXCEPT !["server"] = Key(pending_traffic_secret)]
        /\ state' = [state EXCEPT !["server"] = "SERVER_POST_HANDSHAKE"]
    BY <1>11 DEF server_handle_finished
  <2>2. state["server"] = "SERVER_EXPECT_FINISHED" /\ m.type = "FIN"
    BY <2>1, ServerExpects DEF m
  <2>3. m.mac[2] = ths
    BY <2>1 DEF FinishedVerifies, Mac, m, ths
  <2>4. thc = Append(ths, View(m))
    <3>1. m.has = {} /\ thc = Append(m.mac[2], FinView)
      BY <1>3, <2>2 DEF OwnFlight
    <3>2. View(m) = FinView
      BY <2>2, <3>1 DEF View, FinView
    <3>. QED  BY <2>3, <3>1, <3>2
  <2>5. IsPrefixOf(Append(ths, View(m)), thc)
    BY <1>6, <2>4 DEF IsPrefixOf
  <2>6. /\ pending_traffic_secret = Secret("c_ap_traffic", sched["server"], ServerThrough)
        /\ enc["server"].secret = Secret("s_ap_traffic", sched["server"], ServerThrough)
    BY <2>2 DEF AgreementInv, ServerHashInv, ServerHellos
  <2>7. sched["client"] = sched["server"]
    BY <1>4, <2>6 DEF Secret
  <2>8. dec'["server"].secret = pending_traffic_secret
    BY <1>2, <2>1, Sides, KeyTypes DEF TypeInv
  <2>9. /\ state'["client"] = state["client"] /\ transcript'["client"] = thc
        /\ enc'["client"].secret = enc["client"].secret
    BY <1>1, <1>2, <2>1, Sides DEF TypeInv, thc
  <2>10. DoneInv'
    BY <1>3, <1>4, <1>7, <2>4, <2>6, <2>7, <2>8, <2>9 DEF DoneInv
  <2>. QED  BY <1>1, <1>3, <1>4, <1>5, <1>7, <2>1, <2>2, <2>5, <2>10, ServerStepAgreement
            DEF m, ths, thc
<1>. QED  BY <1>8, <1>9, <1>10, <1>11

-----------------------------------------------------------------------------
LEMMA AgreementInit == Init => AgreementInv
<1>. SUFFICES ASSUME Init PROVE AgreementInv
  OBVIOUS
<1>1. /\ state["client"] = "CLIENT_HANDSHAKE_START" /\ state["server"] = "SERVER_EXPECT_CLIENT_HELLO"
      /\ \A s \in Side : sendbuf[s] = <<>> /\ wire[s] = <<>>
  BY Sides DEF Init
<1>2. InFlight("client") = {} /\ InFlight("server") = {}
  BY <1>1, Sides, ElemsOf DEF InFlight
<1>3. NoEarlyInv /\ ServerFlightInv /\ ClientFlightInv
  BY <1>1, <1>2 DEF NoEarlyInv, ServerFlightInv, ClientFlightInv, ClientFlight
<1>4. ServerHashInv /\ ClientHashInv /\ DoneInv
  BY <1>1 DEF ServerHashInv, ClientHashInv, DoneInv, ServerHellos, ClientHellos, ClientFlight
<1>. QED  BY <1>3, <1>4 DEF AgreementInv

LEMMA StutterQuiet == UNCHANGED vars => QuietStep
<1>. SUFFICES ASSUME UNCHANGED vars PROVE QuietStep
  OBVIOUS
<1>1. /\ UNCHANGED <<cfg, state, sched, transcript, pending_handshake_secret, is_psk_handshake,
                     offered_psk, using_early_data, certificate_request, early_data_acceptance>>
      /\ UNCHANGED <<pending_traffic_secret, enc, dec, sendbuf, wire>>
  BY DEF vars, schedule, keys, clientVars, serverVars
<1>2. \A s \in Side : \A r \in InFlight(s)' : r \in InFlight(s)
  BY <1>1, FlightNow DEF InFlight
<1>. QED  BY <1>1, <1>2, SameAs DEF QuietStep

LEMMA AgreementNext == LocalInv /\ TrustInv /\ AgreementInv /\ [Next]_vars => AgreementInv'
<1>. SUFFICES ASSUME LocalInv, TrustInv, AgreementInv, [Next]_vars PROVE AgreementInv'
  OBVIOUS
<1>1. CASE ClientSteps
  BY <1>1, SendClientHelloAgreement, HrrAgreement, ClientHandleHelloAgreement,
     ClientReadsAgreement, ClientFinishedAgreement, NewSessionTicketQuiet, FailsQuiet,
     QuietAgreement DEF ClientSteps
<1>2. CASE ServerSteps
  BY <1>2, FailsQuiet, SkipQuiet, StatelessRetryQuiet, QuietAgreement, ServerRetryAgreement,
     ServerHelloAgreement, ServerReadsAgreement DEF ServerSteps
<1>3. CASE \E s \in Side : CommonSteps(s) \/ ptls_send(s) \/ Alter(s)
  BY <1>3, CommonQuiet, SendsQuiet, AlterQuiet, QuietAgreement
<1>4. CASE SendEarlyData
  BY <1>4, SendsQuiet, QuietAgreement
<1>5. CASE UNCHANGED vars
  BY <1>5, StutterQuiet, QuietAgreement
<1>. QED  BY <1>1, <1>2, <1>3, <1>4, <1>5 DEF Next

(* What the transcripts and the key schedules say of each other survives    *)
(* every step of the two endpoints and of the network.                      *)
THEOREM AgreementHolds == Safety => []AgreementInv
<1>1. Init => LocalInv /\ TrustInv /\ AgreementInv
  BY LocalInit, TrustInit, AgreementInit
<1>2. LocalInv /\ TrustInv /\ AgreementInv /\ [Next]_vars => (LocalInv /\ TrustInv /\ AgreementInv)'
  BY LocalNext, TrustNext, AgreementNext
<1>. QED  BY <1>1, <1>2, PTL DEF Safety

LEMMA PrefixIs ==
  ASSUME NEW p \in Seq(Views), NEW q \in Seq(Views), IsPrefixOf(p, q)
  PROVE  p = SubSeq(q, 1, Len(p))
<1>. DEFINE n == Len(p)
<1>1. n \in Nat /\ n <= Len(q) /\ Len(q) \in Nat
  BY DEF IsPrefixOf
<1>2. /\ SubSeq(q, 1, n) \in Seq(Views) /\ Len(SubSeq(q, 1, n)) = n
      /\ \A i \in 1..n : SubSeq(q, 1, n)[i] = q[i]
  <2>. HIDE DEF n
  <2>. QED  BY <1>1
<1>3. \A i \in 1..n : p[i] = q[i]
  BY DEF IsPrefixOf
<1>. QED  BY <1>1, <1>2, <1>3

(* A client that completes has the server's key schedule, mode and secret,  *)
(* and hashed what the server hashed; when the server completes, the client *)
(* has, and transcripts and secrets of both directions are equal: for all   *)
(* configurations, with resumption, retries, early data and client          *)
(* authentication, and whatever is altered on the way.                      *)
THEOREM PeersAgree == Spec => []Agreement
<1>1. LocalInv /\ AgreementInv => Agreement
  <2>1. SUFFICES ASSUME LocalInv, AgreementInv PROVE Agreement
    OBVIOUS
  <2>2. /\ Complete("client") => state["client"] = "CLIENT_POST_HANDSHAKE"
        /\ Complete("server") => state["server"] = "SERVER_POST_HANDSHAKE"
    BY <2>1 DEF Complete, PostHandshake, LocalInv, ClientInv, ServerInv, ClientHellos,
                ClientFlight, ServerHandshake
  <2>3. ASSUME Complete("client")
        PROVE  /\ sched["client"] = sched["server"]
               /\ is_psk_handshake["client"] = is_psk_handshake["server"]
               /\ dec["client"].secret = enc["server"].secret
               /\ Len(transcript["server"]) <= Len(transcript["client"])
               /\ transcript["server"] =
                     SubSeq(transcript["client"], 1, Len(transcript["server"]))
    <3>1. state["client"] = "CLIENT_POST_HANDSHAKE"
      BY <2>2, <2>3
    <3>2. /\ state["server"] \notin ServerHellos /\ dec["client"].secret = enc["server"].secret
          /\ dec["client"].secret.ikm = sched["client"]
          /\ is_psk_handshake["client"] <=> sched["client"][1] # "0"
          /\ IsPrefixOf(ClientThrough, transcript["client"])
      BY <2>1, <3>1 DEF AgreementInv, ClientHashInv
    <3>3. /\ enc["server"].secret = Secret("s_ap_traffic", sched["server"], ServerThrough)
          /\ is_psk_handshake["server"] <=> sched["server"][1] # "0"
          /\ \/ transcript["server"] = ServerThrough
             \/ IsPrefixOf(transcript["server"], transcript["client"])
      BY <2>1, <3>2 DEF AgreementInv, ServerHashInv
    <3>4. sched["client"] = sched["server"]
      BY <3>2, <3>3 DEF Secret
    <3>5. is_psk_handshake["client"] \in BOOLEAN /\ is_psk_handshake["server"] \in BOOLEAN
      BY <2>1, Sides DEF LocalInv, TypeInv
    <3>6. is_psk_handshake["client"] = is_psk_handshake["server"]
      BY <3>2, <3>3, <3>4, <3>5
    <3>7. IsPrefixOf(transcript["server"], transcript["client"])
      BY <3>2, <3>3 DEF ClientThrough, ServerThrough
    <3>8. transcript["server"] \in Seq(Views) /\ transcript["client"] \in Seq(Views)
      BY <2>1, Sides DEF LocalInv, TypeInv
    <3>9. Len(transcript["server"]) <= Len(transcript["client"])
      BY <3>7 DEF IsPrefixOf
    <3>. QED  BY <3>2, <3>4, <3>6, <3>7, <3>8, <3>9, PrefixIs
  <2>4. Complete("server") =>
          /\ Complete("client")
          /\ transcript["client"] = transcript["server"]
          /\ enc["client"].secret = dec["server"].secret
    BY <2>1, <2>2 DEF AgreementInv, DoneInv, Complete, PostHandshake
  <2>. QED  BY <2>3, <2>4 DEF Agreement
<1>. QED  BY <1>1, LocalHolds, AgreementHolds, PTL DEF Spec
=============================================================================
