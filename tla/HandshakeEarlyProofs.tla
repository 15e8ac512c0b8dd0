------------------------ MODULE HandshakeEarlyProofs ------------------------
(***************************************************************************)
(* What the client is told about its early data is what became of it.  The *)
(* invariant follows the ClientHello that offers early data, which is the  *)
(* first thing the client sends and is read once, the server's answer to   *)
(* it, and the sequence numbers of the early key, which count the records  *)
(* sent and delivered.  With it, the server's prediction of the client's   *)
(* flight, which the ticket depends on, is shown to be right.              *)
(***************************************************************************)
EXTENDS HandshakeAgreementProofs

IsEarlyHello(r) == r.msg.type = "CH" /\ "early_data" \in r.msg.has
EarlyHello == \E r \in InFlight("client") : IsEarlyHello(r)
RetrySent  == \E r \in InFlight("server") : r.msg.type = "HRR"

(* The offer of early data is in front of all that the client sends.        *)
HelloFirst ==
    /\ \A i \in 1..Len(wire["client"]) : IsEarlyHello(wire["client"][i]) => i = 1
    /\ \A i \in 1..Len(sendbuf["client"]) :
         IsEarlyHello(sendbuf["client"][i]) => i = 1 /\ wire["client"] = <<>>

(* Nobody has acted upon an offer that is on its way.                       *)
OfferInv ==
    EarlyHello =>
        /\ state["server"] = "SERVER_EXPECT_CLIENT_HELLO"
        /\ state["client"] = "CLIENT_EXPECT_SERVER_HELLO"
        /\ using_early_data /\ early_data_acceptance = "UNKNOWN"
        /\ ~RetrySent

(* The client still takes part in early data that the server accepted.      *)
ClientKeepsEarly ==
    LET st == state["client"] IN
    /\ early_data_acceptance # "REJECTED"
    /\ st \in {"CLIENT_EXPECT_SERVER_HELLO", "CLIENT_POST_HANDSHAKE"} \cup ClientFlight
    /\ ~RetrySent
    /\ \A r \in InFlight("server") : r.msg.type = "EE" => "early_data" \in r.msg.has

(* The server is reading early data or has read all of it.                  *)
ServerEarly ==
    \/ state["server"] = "SERVER_EXPECT_END_OF_EARLY_DATA"
    \/ /\ state["server"] \in {"SERVER_EXPECT_FINISHED", "SERVER_POST_HANDSHAKE"}
       /\ state["client"] = "CLIENT_POST_HANDSHAKE"
       /\ earlyGot = earlySent

AnnouncedInv ==
    /\ state["server"] = "SERVER_EXPECT_END_OF_EARLY_DATA" \/ earlyGot > 0 => ClientKeepsEarly
    /\ \A r \in InFlight("server") :
         r.msg.type = "EE" /\ "early_data" \in r.msg.has => ServerEarly
    /\ early_data_acceptance = "ACCEPTED" => ServerEarly

(* The client uses the early key until it is told, and then either ends     *)
(* with EndOfEarlyData or does not.                                         *)
ClientEarlyInv ==
    LET st == state["client"] IN
    /\ st = "CLIENT_HANDSHAKE_START" => earlySent = 0
    /\ using_early_data <=>
         st \in ClientHellos \cup ClientFlight /\ early_data_acceptance # "REJECTED"
    /\ using_early_data => enc["client"].seq = earlySent
    /\ using_early_data /\ st \in ClientFlight => pending_handshake_secret["client"] # NoSecret
    /\ early_data_acceptance = "ACCEPTED" =>
         st \in (ClientFlight \ {"CLIENT_EXPECT_ENCRYPTED_EXTENSIONS"})
                   \cup {"CLIENT_POST_HANDSHAKE"}
    /\ early_data_acceptance = "UNKNOWN" =>
         st \in {"CLIENT_HANDSHAKE_START", "CLIENT_EXPECT_SERVER_HELLO",
                 "CLIENT_EXPECT_ENCRYPTED_EXTENSIONS"}

ServerEarlyInv ==
    /\ state["server"] \in ServerHellos => earlyGot = 0
    /\ state["server"] = "SERVER_EXPECT_END_OF_EARLY_DATA" =>
         dec["server"].aead /\ dec["server"].seq = earlyGot

(* The number of EndOfEarlyData is that of the records before it.           *)
EndInv ==
    \A r \in InFlight("client") : r.msg.type = "EOED" =>
        /\ state["client"] = "CLIENT_POST_HANDSHAKE"
        /\ r.seq \in {earlySent, -1}

EarlyInv ==
    HelloFirst /\ OfferInv /\ AnnouncedInv /\ ClientEarlyInv /\ ServerEarlyInv /\ EndInv

-----------------------------------------------------------------------------
(* A step of an endpoint that does not move on: early data may be sent and  *)
(* delivered, and is counted by the keys.                                   *)
EarlyStep ==
    /\ QuietStep
    /\ state["client"] \in {"CLIENT_HANDSHAKE_START", "CLIENT_POST_HANDSHAKE"} =>
         earlySent' = earlySent
    /\ using_early_data /\ enc["client"].seq = earlySent => enc'["client"].seq = earlySent'
    /\ state["server"] # "SERVER_EXPECT_END_OF_EARLY_DATA" => earlyGot' = earlyGot
    /\ state["server"] = "SERVER_EXPECT_END_OF_EARLY_DATA" /\ dec["server"].aead
         /\ dec["server"].seq = earlyGot => dec'["server"].aead /\ dec'["server"].seq = earlyGot'
    /\ HelloFirst'
    /\ EarlyHello' /\ RetrySent' => RetrySent

LEMMA QuietEarly ==
  ASSUME LocalInv, EarlyInv, EarlyStep
  PROVE  EarlyInv'
<1>1. /\ state' = state /\ using_early_data' = using_early_data
      /\ early_data_acceptance' = early_data_acceptance
      /\ pending_handshake_secret' = pending_handshake_secret
  BY DEF EarlyStep, QuietStep
<1>2. /\ \A r \in InFlight("client")' : (\E q \in InFlight("client") : Same(r, q)) \/ Fresh("client", r)
      /\ \A r \in InFlight("server")' : (\E q \in InFlight("server") : Same(r, q)) \/ Fresh("server", r)
  BY Sides DEF EarlyStep, QuietStep
<1>3. \A r \in InFlight("client")' : Fresh("client", r) => r.msg.type \in {"ALERT", "DATA"}
  BY Sides DEF Fresh
<1>4. \A r \in InFlight("server")' :
        Fresh("server", r) => \/ r.msg.type \in {"ALERT", "DATA", "CCS"}
                              \/ r.msg.type = "HRR" /\ state["server"] = "SERVER_EXPECT_CLIENT_HELLO"
  BY DEF Fresh
<1>5. EarlyHello' => EarlyHello
  <2>1. SUFFICES ASSUME NEW r \in InFlight("client")', IsEarlyHello(r) PROVE EarlyHello
    BY DEF EarlyHello, IsEarlyHello
  <2>2. PICK q \in InFlight("client") : Same(r, q)
    BY <1>2, <1>3, <2>1 DEF IsEarlyHello
  <2>3. IsEarlyHello(q)
    BY <2>1, <2>2 DEF Same, IsEarlyHello
  <2>. QED  BY <2>3 DEF EarlyHello
<1>6. RetrySent' => RetrySent \/ state["server"] = "SERVER_EXPECT_CLIENT_HELLO"
  <2>1. SUFFICES ASSUME NEW r \in InFlight("server")', r.msg.type = "HRR",
                        state["server"] # "SERVER_EXPECT_CLIENT_HELLO"
                 PROVE  RetrySent
    BY DEF RetrySent
  <2>2. PICK q \in InFlight("server") : Same(r, q)
    BY <1>2, <1>4, <2>1
  <2>. QED  BY <2>1, <2>2 DEF Same, RetrySent
<1>7. OfferInv'
  BY <1>1, <1>5 DEF EarlyInv, OfferInv, EarlyStep
<1>8. ServerEarlyInv'
  BY <1>1 DEF EarlyInv, ServerEarlyInv, EarlyStep, ServerHellos
<1>9. ClientEarlyInv'
  BY <1>1 DEF EarlyInv, ClientEarlyInv, EarlyStep
<1>10. \A r \in InFlight("server")' : r.msg.type = "EE" =>
         \E q \in InFlight("server") : q.msg.type = "EE" /\ q.msg.has = r.msg.has
  BY <1>2, <1>4 DEF Same
<1>11. ServerEarly => ServerEarly'
  BY <1>1 DEF ServerEarly, EarlyStep
<1>12. state'["server"] = "SERVER_EXPECT_END_OF_EARLY_DATA" \/ earlyGot' > 0 => ClientKeepsEarly'
  <2>1. SUFFICES ASSUME state["server"] = "SERVER_EXPECT_END_OF_EARLY_DATA" \/ earlyGot > 0
                 PROVE  ClientKeepsEarly'
    BY <1>1 DEF EarlyStep
  <2>2. ClientKeepsEarly /\ state["server"] # "SERVER_EXPECT_CLIENT_HELLO"
    BY <2>1 DEF EarlyInv, AnnouncedInv, ServerEarlyInv, ServerHellos
  <2>. QED  BY <1>1, <1>6, <1>10, <2>2 DEF ClientKeepsEarly
<1>13. AnnouncedInv'
  BY <1>1, <1>10, <1>11, <1>12 DEF EarlyInv, AnnouncedInv
<1>14. EndInv'
  <2>1. ASSUME NEW r \in InFlight("client")', r.msg.type = "EOED"
        PROVE  state["client"] = "CLIENT_POST_HANDSHAKE" /\ r.seq \in {earlySent', -1}
    <3>1. PICK q \in InFlight("client") : Same(r, q)
      BY <1>2, <1>3, <2>1
    <3>2. q.msg.type = "EOED" /\ r.seq \in {q.seq, -1}
      BY <2>1, <3>1 DEF Same
    <3>3. state["client"] = "CLIENT_POST_HANDSHAKE" /\ q.seq \in {earlySent, -1}
      BY <3>2 DEF EarlyInv, EndInv
    <3>. QED  BY <3>2, <3>3 DEF EarlyStep
  <2>. QED  BY <1>1, <2>1 DEF EndInv
<1>. QED  BY <1>7, <1>8, <1>9, <1>13, <1>14 DEF EarlyInv, EarlyStep

-----------------------------------------------------------------------------
(* The offer stays in front of what the client sends until it is read.      *)
LEMMA NoOfferFirst == ~EarlyHello' => HelloFirst'
<1>1. SUFFICES ASSUME \A r \in InFlight("client")' : ~IsEarlyHello(r) PROVE HelloFirst'
  BY DEF EarlyHello, IsEarlyHello
<1>2. /\ \A i \in 1..Len(wire'["client"]) : wire'["client"][i] \in InFlight("client")'
      /\ \A i \in 1..Len(sendbuf'["client"]) : sendbuf'["client"][i] \in InFlight("client")'
  BY Sides, FlightNow DEF Elems
<1>. QED  BY <1>1, <1>2 DEF HelloFirst, IsEarlyHello

LEMMA OfferRead ==
  ASSUME TypeInv, HelloFirst, wire["client"] # <<>>, wire'["client"] = Tail(wire["client"]),
         sendbuf'["client"] = sendbuf["client"]
  PROVE  ~EarlyHello' /\ HelloFirst'
<1>. DEFINE p == wire["client"]
<1>1. p \in Seq(Recs) /\ p # <<>>
  BY Sides DEF TypeInv
<1>2. \A i \in 1..Len(p) : i # 1 => ~IsEarlyHello(p[i])
  BY DEF HelloFirst
<1>3. \A r \in Elems(sendbuf["client"]) : ~IsEarlyHello(r)
  BY <1>1 DEF HelloFirst, Elems
<1>. HIDE DEF p
<1>4. ASSUME NEW r \in Elems(Tail(p)) PROVE ~IsEarlyHello(r)
  <2>1. Len(Tail(p)) = Len(p) - 1 /\ Len(p) \in Nat /\ \A i \in 1..Len(Tail(p)) : Tail(p)[i] = p[i + 1]
    BY <1>1
  <2>2. PICK i \in 1..Len(Tail(p)) : r = Tail(p)[i]
    BY <1>4 DEF Elems
  <2>. DEFINE j == i + 1
  <2>3. j \in 1..Len(p) /\ j # 1
    BY <2>1, <2>2
  <2>4. r = p[j]
    BY <2>1, <2>2
  <2>. HIDE DEF j
  <2>. QED  BY <1>2, <2>3, <2>4
<1>5. \A r \in InFlight("client")' : ~IsEarlyHello(r)
  BY <1>3, <1>4, Sides, FlightNow DEF p
<1>6. ~EarlyHello'
  BY <1>5 DEF EarlyHello, IsEarlyHello
<1>. QED  BY <1>6, NoOfferFirst

LEMMA OfferKept ==
  ASSUME HelloFirst, wire'["client"] = wire["client"],
         \/ sendbuf'["client"] = sendbuf["client"]
         \/ \A r \in Elems(sendbuf'["client"]) : ~IsEarlyHello(r)
  PROVE  HelloFirst'
<1>1. CASE sendbuf'["client"] = sendbuf["client"]
  BY <1>1 DEF HelloFirst, IsEarlyHello
<1>2. CASE \A r \in Elems(sendbuf'["client"]) : ~IsEarlyHello(r)
  <2>1. \A i \in 1..Len(sendbuf'["client"]) : ~IsEarlyHello(sendbuf'["client"][i])
    BY <1>2 DEF Elems
  <2>. QED  BY <2>1 DEF HelloFirst, IsEarlyHello
<1>. QED  BY <1>1, <1>2

(* An endpoint that reads a record and answers with an alert or not at all. *)
LEMMA ReadEarly ==
  ASSUME TypeInv, HelloFirst, NEW s \in Side, Ready(s), Consume(s),
         \A t \in Side : t # s => sendbuf'[t] = sendbuf[t],
         sendbuf'[s] = sendbuf[s] \/ \A r \in Elems(sendbuf'[s]) : r.msg.type = "ALERT"
  PROVE  HelloFirst' /\ (EarlyHello' /\ RetrySent' => RetrySent)
<1>1. wire[Peer(s)] # <<>>
  BY DEF Ready
<1>2. /\ wire'[Peer(s)] = Tail(wire[Peer(s)]) /\ wire'[s] = wire[s]
      /\ Elems(wire'[Peer(s)]) \subseteq Elems(wire[Peer(s)])
  BY <1>1, ReadFlight
<1>3. CASE s = "server"
  <2>1. /\ wire["client"] # <<>> /\ wire'["client"] = Tail(wire["client"])
        /\ sendbuf'["client"] = sendbuf["client"]
    BY <1>1, <1>2, <1>3, Sides
  <2>. QED  BY <2>1, OfferRead
<1>4. CASE s = "client"
  <2>1. /\ wire'["client"] = wire["client"] /\ sendbuf'["server"] = sendbuf["server"]
        /\ Elems(wire'["server"]) \subseteq Elems(wire["server"])
    BY <1>2, <1>4, Sides
  <2>2. HelloFirst'
    BY <1>4, <2>1, OfferKept DEF IsEarlyHello
  <2>3. InFlight("server")' \subseteq InFlight("server")
    BY <2>1, Sides, FlightNow DEF InFlight
  <2>4. RetrySent' => RetrySent
    BY <2>3 DEF RetrySent
  <2>. QED  BY <2>2, <2>4
<1>. QED  BY <1>3, <1>4 DEF Side

(* The steps that send or deliver no early data.                            *)
LEMMA StillEarly ==
  ASSUME QuietStep, HelloFirst', EarlyHello' /\ RetrySent' => RetrySent,
         enc'["client"].seq = enc["client"].seq, dec'["server"] = dec["server"],
         earlySent' = earlySent, earlyGot' = earlyGot
  PROVE  EarlyStep
BY DEF EarlyStep

LEMMA FailEarly ==
  ASSUME LocalInv, HelloFirst, QuietStep, NEW s \in Side, NEW code \in Errors, NEW key \in Keys,
         Ready(s), FailWith(s, code, key), s = "client" => key = enc["client"]
  PROVE  EarlyStep
<1>1. TypeInv /\ Consume(s) /\ dec' = dec /\ earlySent' = earlySent /\ earlyGot' = earlyGot
  BY DEF LocalInv, FailWith, appVars
<1>2. sendbuf' = sendbuf \/ \E q : sendbuf' = [sendbuf EXCEPT ![s] = q]
                                   /\ \A r \in Elems(q) : r.msg.type = "ALERT"
  <2>. DEFINE k == AlertKey(s, key)
              m == Plain("ALERT", {code})
              rec == [secret |-> k.secret, seq |-> k.seq, msg |-> m]
  <2>1. k \in Keys /\ m \in Messages /\ m.type = "ALERT"
    <3>1. "ALERT" \in Names /\ {code} \in SUBSET Names
      BY NamesAre
    <3>2. m \in Messages
      BY <3>1, MessageTypes
    <3>. QED  BY <3>2, KeyTypes DEF AlertKey, Plain, Message
  <2>2. Records(k, <<m>>) = <<rec>> /\ rec \in Recs
    BY <2>1, OneRecord
  <2>3. rec.msg.type = "ALERT"
    BY <2>1
  <2>4. sendbuf' = sendbuf \/ sendbuf' = [sendbuf EXCEPT ![s] = <<rec>>]
    BY <2>2 DEF FailWith
  <2>. HIDE DEF rec
  <2>5. Elems(<<rec>>) = {rec}
    BY <2>2, ElemsOf
  <2>. QED  BY <2>3, <2>4, <2>5
<1>3. /\ \A t \in Side : t # s => sendbuf'[t] = sendbuf[t]
      /\ sendbuf'[s] = sendbuf[s] \/ \A r \in Elems(sendbuf'[s]) : r.msg.type = "ALERT"
  BY <1>1, <1>2 DEF TypeInv
<1>4. HelloFirst' /\ (EarlyHello' /\ RetrySent' => RetrySent)
  BY <1>1, <1>3, ReadEarly
<1>5. enc'["client"].seq = enc["client"].seq
  <2>1. enc' = enc \/ enc' = [enc EXCEPT ![s] = key]
    BY DEF FailWith
  <2>. QED  BY <1>1, <2>1, Sides DEF TypeInv
<1>. QED  BY <1>1, <1>4, <1>5, StillEarly

LEMMA FailsEarly ==
  ASSUME LocalInv, HelloFirst,
         \/ \E s \in Side : RejectRecord(s)
         \/ ClientError \/ ServerError \/ ServerRejectsHello \/ ServerSignFails
  PROVE  EarlyStep
<1>1. QuietStep /\ \A s \in Side : enc[s] \in Keys
  BY FailsQuiet DEF LocalInv, TypeInv
<1>2. ASSUME NEW s \in Side, RejectRecord(s) PROVE EarlyStep
  <2>1. Ready(s) /\ RejectCode(s) # "none" /\ FailWith(s, RejectCode(s), enc[s])
    BY <1>2 DEF RejectRecord, Fail
  <2>2. RejectCode(s) \in Errors
    BY <2>1 DEF RejectCode, Errors
  <2>. QED  BY <1>1, <2>1, <2>2, FailEarly
<1>3. CASE ClientError
  <2>1. PICK code \in Errors : Ready("client") /\ Fail("client", code)
    BY <1>3 DEF ClientError, Errors, ClientTakes, Accepts
  <2>. QED  BY <1>1, <2>1, Sides, FailEarly DEF Fail
<1>4. CASE ServerError
  <2>1. PICK code \in Errors : Ready("server") /\ Fail("server", code)
    BY <1>4 DEF ServerError, Errors, ServerTakes, Accepts
  <2>. QED  BY <1>1, <2>1, Sides, FailEarly DEF Fail
<1>5. CASE ServerRejectsHello
  <2>1. PICK code \in Errors : Ready("server") /\ Fail("server", code)
    BY <1>5 DEF ServerRejectsHello, HelloError, Errors, ServerTakes, Accepts
  <2>. QED  BY <1>1, <2>1, Sides, FailEarly DEF Fail
<1>6. CASE ServerSignFails
  <2>. DEFINE ch == First("server").msg
              n == Len(Extensions(ch)) + 1
              key == Advance(HelloKey(ch), n)
  <2>1. ServerTakes("CH") /\ FailWith("server", "HANDSHAKE_FAILURE", key)
    BY <1>6 DEF ServerSignFails, HelloKey
  <2>2. TypeInv /\ ServerInv
    BY DEF LocalInv
  <2>3. Ready("server") /\ state["server"] \in ServerHellos /\ ch \in Messages
    BY <2>1, <2>2, Sides, ServerExpects, ReadTypes
  <2>4. HelloKey(ch) \in Keys /\ n \in Nat
    BY <2>2, <2>3, HelloTypes, ExtensionsType
  <2>. HIDE DEF n
  <2>5. key \in Keys
    BY <2>4, KeyTypes
  <2>6. "HANDSHAKE_FAILURE" \in Errors
    BY DEF Errors
  <2>. HIDE DEF key, ch
  <2>. QED  BY <1>1, <2>1, <2>3, <2>5, <2>6, Sides, FailEarly
<1>. QED  BY <1>2, <1>3, <1>4, <1>5, <1>6

LEMMA SkipEarly ==
  ASSUME LocalInv, HelloFirst, ServerSkipEarlyData
  PROVE  EarlyStep
<1>1. QuietStep /\ Ready("server")
  BY SkipQuiet DEF ServerSkipEarlyData
<1>2. CASE early_data_skipped_bytes' > SKIP_LIMIT
  <2>1. /\ "HANDSHAKE_FAILURE" \in Errors /\ enc["server"] \in Keys
        /\ FailWith("server", "HANDSHAKE_FAILURE", enc["server"])
    BY <1>2, Sides DEF Errors, LocalInv, TypeInv, ServerSkipEarlyData
  <2>. QED  BY <1>1, <2>1, Sides, FailEarly
<1>3. CASE ~(early_data_skipped_bytes' > SKIP_LIMIT)
  <2>1. /\ Consume("server") /\ sendbuf' = sendbuf /\ enc' = enc /\ dec' = dec
        /\ earlySent' = earlySent /\ earlyGot' = earlyGot
    BY <1>3 DEF ServerSkipEarlyData, keys, appVars
  <2>2. HelloFirst' /\ (EarlyHello' /\ RetrySent' => RetrySent)
    BY <1>1, <2>1, Sides, ReadEarly DEF LocalInv
  <2>. QED  BY <1>1, <2>1, <2>2, StillEarly
<1>. QED  BY <1>2, <1>3

LEMMA ConcatAt ==
  ASSUME NEW S, NEW p \in Seq(S), NEW q \in Seq(S)
  PROVE  /\ Len(p \o q) = Len(p) + Len(q)
         /\ \A i \in 1..Len(p) : (p \o q)[i] = p[i]
         /\ \A i \in 1..Len(q) : (p \o q)[Len(p) + i] = q[i]
OBVIOUS

LEMMA FlushEarly ==
  ASSUME LocalInv, HelloFirst, NEW s \in Side, Flush(s)
  PROVE  HelloFirst' /\ (RetrySent' => RetrySent)
<1>. DEFINE p == wire[s]
            q == sendbuf[s]
<1>1. /\ wire'[s] = p \o q /\ sendbuf'[s] = <<>> /\ p \in Seq(Recs) /\ q \in Seq(Recs)
      /\ \A t \in Side : t # s => wire'[t] = wire[t] /\ sendbuf'[t] = sendbuf[t]
  BY DEF Flush, LocalInv, TypeInv
<1>2. CASE s = "server"
  <2>1. HelloFirst'
    <3>1. wire'["client"] = wire["client"] /\ sendbuf'["client"] = sendbuf["client"]
      BY <1>1, <1>2, Sides
    <3>. QED  BY <3>1, OfferKept
  <2>. HIDE DEF p, q
  <2>2. Elems(p \o q) = Elems(p) \cup Elems(q) /\ Elems(<<>>) = {}
    BY <1>1, ElemsOf
  <2>3. InFlight("server")' = InFlight("server")
    BY <1>1, <1>2, <2>2, FlightNow DEF InFlight, p, q
  <2>. QED  BY <2>1, <2>3 DEF RetrySent
<1>3. CASE s = "client"
  <2>1. /\ \A i \in 1..Len(p) : IsEarlyHello(p[i]) => i = 1
        /\ \A i \in 1..Len(q) : IsEarlyHello(q[i]) => i = 1 /\ p = <<>>
    BY <1>3 DEF HelloFirst
  <2>2. /\ wire'["client"] = p \o q /\ sendbuf'["client"] = <<>>
        /\ wire'["server"] = wire["server"] /\ sendbuf'["server"] = sendbuf["server"]
    BY <1>1, <1>3, Sides
  <2>. HIDE DEF p, q
  <2>3. ASSUME NEW i \in 1..Len(p \o q), IsEarlyHello((p \o q)[i]) PROVE i = 1
    <3>1. /\ Len(p) \in Nat /\ Len(q) \in Nat /\ Len(p \o q) = Len(p) + Len(q)
          /\ i \in Nat /\ i >= 1 /\ i <= Len(p) + Len(q)
      BY <1>1, <2>3
    <3>2. CASE i <= Len(p)
      <4>1. i \in 1..Len(p) /\ (p \o q)[i] = p[i]
        BY <1>1, <3>1, <3>2
      <4>. QED  BY <2>1, <2>3, <4>1
    <3>3. CASE i > Len(p)
      <4>1. (p \o q)[i] = q[i - Len(p)]
        BY <1>1, <3>1, <3>3
      <4>. DEFINE j == i - Len(p)
      <4>2. j \in 1..Len(q)
        BY <3>1, <3>3
      <4>3. j = 1 /\ p = <<>>
        <5>. HIDE DEF j
        <5>1. IsEarlyHello(q[j])
          BY <2>3, <4>1 DEF j
        <5>. QED  BY <2>1, <4>2, <5>1
      <4>4. Len(p) = 0
        BY <4>3
      <4>. QED  BY <3>1, <4>3, <4>4
    <3>. QED  BY <3>1, <3>2, <3>3
  <2>4. HelloFirst'
    <3>1. \A i \in 1..Len(wire'["client"]) : IsEarlyHello(wire'["client"][i]) => i = 1
      BY <2>2, <2>3
    <3>2. Len(sendbuf'["client"]) = 0
      BY <2>2
    <3>. QED  BY <3>1, <3>2 DEF HelloFirst, IsEarlyHello
  <2>5. InFlight("server")' = InFlight("server")
    BY <2>2, Sides, FlightNow DEF InFlight
  <2>. QED  BY <2>4, <2>5 DEF RetrySent
<1>. QED  BY <1>2, <1>3 DEF Side

LEMMA CommonEarly ==
  ASSUME LocalInv, HelloFirst, NEW s \in Side, CommonSteps(s)
  PROVE  EarlyStep
<1>1. TypeInv /\ QuietStep
  BY CommonQuiet DEF LocalInv
<1>2. CASE Flush(s)
  <2>1. enc' = enc /\ dec' = dec /\ earlySent' = earlySent /\ earlyGot' = earlyGot
    BY <1>2 DEF Flush, keys, appVars
  <2>. QED  BY <1>1, <1>2, <2>1, FlushEarly, StillEarly
<1>3. CASE HandleCCS(s)
  <2>1. /\ Ready(s) /\ Consume(s) /\ sendbuf' = sendbuf
        /\ enc' = enc /\ dec' = dec /\ earlySent' = earlySent /\ earlyGot' = earlyGot
    BY <1>3 DEF HandleCCS, keys, appVars
  <2>2. HelloFirst' /\ (EarlyHello' /\ RetrySent' => RetrySent)
    BY <1>1, <2>1, ReadEarly
  <2>. QED  BY <1>1, <2>1, <2>2, StillEarly
<1>4. CASE handle_alert(s)
  <2>1. /\ Ready(s) /\ Consume(s) /\ sendbuf' = [sendbuf EXCEPT ![s] = <<>>]
        /\ enc' = enc /\ dec' = dec /\ earlySent' = earlySent /\ earlyGot' = earlyGot
    BY <1>4 DEF handle_alert, keys, appVars
  <2>2. /\ \A t \in Side : t # s => sendbuf'[t] = sendbuf[t]
        /\ \A r \in Elems(sendbuf'[s]) : r.msg.type = "ALERT"
    BY <1>1, <2>1, ElemsOf DEF TypeInv
  <2>3. HelloFirst' /\ (EarlyHello' /\ RetrySent' => RetrySent)
    BY <1>1, <2>1, <2>2, ReadEarly
  <2>. QED  BY <1>1, <2>1, <2>3, StillEarly
<1>5. CASE ReceiveData(s)
  <2>1. /\ Ready(s) /\ Consume(s) /\ sendbuf' = sendbuf /\ enc' = enc /\ earlySent' = earlySent
        /\ dec' = [dec EXCEPT ![s] = Advance(dec[s], 1)]
        /\ state[s] \in PostHandshake => earlyGot' = earlyGot
        /\ state[s] \notin PostHandshake =>
             state[s] = "SERVER_EXPECT_END_OF_EARLY_DATA" /\ earlyGot' = earlyGot + 1
    BY <1>5 DEF ReceiveData, Accepts
  <2>2. HelloFirst' /\ (EarlyHello' /\ RetrySent' => RetrySent)
    BY <1>1, <2>1, ReadEarly
  <2>3. CASE state[s] \in PostHandshake
    <3>1. earlyGot' = earlyGot
      BY <2>1, <2>3
    <3>2. s = "client" => dec'["server"] = dec["server"]
      BY <1>1, <2>1, Sides DEF TypeInv
    <3>3. s = "server" => state["server"] # "SERVER_EXPECT_END_OF_EARLY_DATA"
      BY <2>3 DEF PostHandshake
    <3>. QED  BY <1>1, <2>1, <2>2, <3>1, <3>2, <3>3 DEF EarlyStep, Side
  <2>4. CASE state[s] \notin PostHandshake
    <3>1. state[s] = "SERVER_EXPECT_END_OF_EARLY_DATA" /\ earlyGot' = earlyGot + 1
      BY <2>1, <2>4
    <3>2. s = "server"
      BY <3>1 DEF Side, LocalInv, ClientInv, ClientHellos, ClientFlight
    <3>3. dec["server"] \in Keys /\ dec'["server"] = Advance(dec["server"], 1)
      BY <1>1, <2>1, <3>2, Sides DEF TypeInv
    <3>4. /\ dec'["server"].aead = dec["server"].aead
          /\ dec["server"].aead => dec'["server"].seq = dec["server"].seq + 1
      BY <3>3, KeyTypes
    <3>. QED  BY <1>1, <2>1, <2>2, <3>1, <3>2, <3>4 DEF EarlyStep
  <2>. QED  BY <2>3, <2>4
<1>6. CASE RejectRecord(s)
  BY <1>6, FailsEarly
<1>. QED  BY <1>2, <1>3, <1>4, <1>5, <1>6 DEF CommonSteps

LEMMA SendFirst ==
  ASSUME TypeInv, HelloFirst, NEW s \in Side, sendbuf[s] = <<>>,
         Sends(s, Plain("DATA", {}))
  PROVE  HelloFirst' /\ (RetrySent' => RetrySent)
<1>. DEFINE rec == [secret |-> enc[s].secret, seq |-> enc[s].seq, msg |-> Plain("DATA", {})]
            p == wire[s]
            q == <<rec>>
<1>1. Plain("DATA", {}) \in Messages /\ Plain("DATA", {}).type = "DATA" /\ enc[s] \in Keys
  <2>1. "DATA" \in Names /\ {} \in SUBSET Names
    BY NamesAre
  <2>2. Plain("DATA", {}) \in Messages
    BY <2>1, MessageTypes
  <2>. QED  BY <2>2 DEF Plain, Message, TypeInv
<1>2. Records(enc[s], <<Plain("DATA", {})>>) = q /\ rec \in Recs
  BY <1>1, OneRecord
<1>3. rec.msg.type = "DATA"
  BY <1>1
<1>4. /\ wire'[s] = p \o q /\ p \in Seq(Recs) /\ sendbuf' = sendbuf
      /\ \A t \in Side : t # s => wire'[t] = wire[t]
  BY <1>2 DEF Sends, TypeInv
<1>. HIDE DEF rec, p
<1>5. /\ q \in Seq(Recs) /\ Elems(q) = {rec} /\ Elems(p \o q) = Elems(p) \cup Elems(q)
      /\ Len(q) = 1 /\ q[1] = rec
  <2>1. q \in Seq(Recs) /\ Len(q) = 1 /\ q[1] = rec
    BY <1>2
  <2>2. Elems(q) = {rec}
    BY <1>2, ElemsOf
  <2>. HIDE DEF q
  <2>3. Elems(p \o q) = Elems(p) \cup Elems(q)
    BY <1>4, <2>1, ElemsOf
  <2>. QED  BY <2>1, <2>2, <2>3
<1>. HIDE DEF q
<1>6. CASE s = "server"
  <2>1. wire'["client"] = wire["client"] /\ sendbuf'["client"] = sendbuf["client"]
    BY <1>4, <1>6, Sides
  <2>2. \A r \in InFlight("server")' : r \in InFlight("server") \/ r = rec
    BY <1>4, <1>5, <1>6, FlightNow DEF InFlight, p
  <2>3. RetrySent' => RetrySent
    BY <1>3, <2>2 DEF RetrySent
  <2>. QED  BY <2>1, <2>3, OfferKept
<1>7. CASE s = "client"
  <2>1. /\ wire'["client"] = p \o q /\ sendbuf'["client"] = sendbuf["client"]
        /\ wire'["server"] = wire["server"] /\ sendbuf'["server"] = sendbuf["server"]
    BY <1>4, <1>7, Sides
  <2>2. InFlight("server")' = InFlight("server")
    BY <2>1, Sides, FlightNow DEF InFlight
  <2>3. \A i \in 1..Len(p) : IsEarlyHello(p[i]) => i = 1
    BY <1>7 DEF HelloFirst, p
  <2>4. \A i \in 1..Len(p \o q) : IsEarlyHello((p \o q)[i]) => i = 1
    <3>1. ASSUME NEW i \in 1..Len(p \o q)
          PROVE  (i \in 1..Len(p) /\ (p \o q)[i] = p[i]) \/ (p \o q)[i] = rec
      <4>1. /\ Len(p) \in Nat /\ Len(q) = 1 /\ Len(p \o q) = Len(p) + Len(q)
            /\ i \in Nat /\ i >= 1 /\ i <= Len(p) + Len(q)
        <5>1. p \in Seq(Recs) /\ q \in Seq(Recs) /\ Len(q) = 1 /\ Len(p) \in Nat
          BY <1>4, <1>5
        <5>2. Len(p \o q) = Len(p) + Len(q)
          BY <5>1, ConcatAt, Zenon
        <5>. QED  BY <3>1, <5>1, <5>2
      <4>2. CASE i <= Len(p)
        BY <1>4, <1>5, <4>1, <4>2
      <4>3. CASE i > Len(p)
        <5>1. (p \o q)[i] = q[i - Len(p)]
          BY <1>4, <1>5, <4>1, <4>3
        <5>2. i - Len(p) = 1
          BY <4>1, <4>3
        <5>. QED  BY <1>5, <5>1, <5>2
      <4>. QED  BY <4>1, <4>2, <4>3
    <3>. QED  BY <1>3, <2>3, <3>1 DEF IsEarlyHello
  <2>5. Len(sendbuf'["client"]) = 0
    BY <1>7, <2>1
  <2>6. \A i \in 1..Len(wire'["client"]) : IsEarlyHello(wire'["client"][i]) => i = 1
    BY <2>1, <2>4
  <2>. QED  BY <2>2, <2>5, <2>6 DEF HelloFirst, IsEarlyHello, RetrySent
<1>. QED  BY <1>6, <1>7 DEF Side

LEMMA SendsEarly ==
  ASSUME LocalInv, EarlyInv, SendEarlyData \/ \E s \in Side : ptls_send(s)
  PROVE  EarlyStep
<1>1. QuietStep /\ TypeInv /\ HelloFirst
  BY SendsQuiet DEF LocalInv, EarlyInv
<1>2. CASE SendEarlyData
  <2>1. /\ state["client"] \in ClientHandshake \ {"CLIENT_HANDSHAKE_START"}
        /\ sendbuf["client"] = <<>> /\ earlySent < max_early_data_size
        /\ earlySent' = earlySent + 1 /\ Sends("client", Plain("DATA", {}))
        /\ enc' = [enc EXCEPT !["client"] = Advance(enc["client"], 1)]
        /\ dec' = dec /\ earlyGot' = earlyGot
    BY <1>2 DEF SendEarlyData, Sends
  <2>2. HelloFirst' /\ (RetrySent' => RetrySent)
    BY <1>1, <2>1, Sides, SendFirst
  <2>3. enc["client"] \in Keys /\ enc["client"].aead
    <3>1. max_early_data_size > 0
      BY <1>1, <2>1 DEF TypeInv
    <3>. QED  BY <1>1, <3>1, Sides DEF TypeInv, LocalInv, ClientInv
  <2>4. enc'["client"].seq = enc["client"].seq + 1
    <3>1. Advance(enc["client"], 1).seq = enc["client"].seq + 1
      BY <2>3, KeyTypes
    <3>. QED  BY <1>1, <2>1, <3>1, Sides DEF TypeInv
  <2>5. state["client"] \notin {"CLIENT_HANDSHAKE_START", "CLIENT_POST_HANDSHAKE"}
    BY <2>1 DEF ClientHandshake
  <2>. QED  BY <1>1, <2>1, <2>2, <2>4, <2>5 DEF EarlyStep
<1>3. ASSUME NEW s \in Side, ptls_send(s) PROVE EarlyStep
  <2>1. /\ ret[s] = "OK" /\ sendbuf[s] = <<>> /\ Sends(s, Plain("DATA", {}))
        /\ enc' = [enc EXCEPT ![s] = Advance(enc[s], 1)]
        /\ dec' = dec /\ earlySent' = earlySent /\ earlyGot' = earlyGot
    BY <1>3 DEF ptls_send, Sends
  <2>2. HelloFirst' /\ (RetrySent' => RetrySent)
    BY <1>1, <2>1, SendFirst
  <2>3. CASE s = "server"
    <3>1. enc'["client"] = enc["client"]
      BY <1>1, <2>1, <2>3, Sides DEF TypeInv
    <3>. QED  BY <1>1, <2>1, <2>2, <3>1, StillEarly
  <2>4. CASE s = "client"
    <3>1. state["client"] = "CLIENT_POST_HANDSHAKE"
      BY <2>1, <2>4 DEF LocalInv, ClientInv
    <3>2. ~using_early_data
      BY <3>1 DEF EarlyInv, ClientEarlyInv, ClientHellos, ClientFlight
    <3>. QED  BY <1>1, <2>1, <2>2, <3>2 DEF EarlyStep
  <2>. QED  BY <2>3, <2>4 DEF Side
<1>. QED  BY <1>2, <1>3

LEMMA AlterEarly ==
  ASSUME LocalInv, HelloFirst, NEW s \in Side, Alter(s)
  PROVE  EarlyStep
<1>. DEFINE p == wire[s]
<1>1. /\ TypeInv /\ QuietStep /\ sendbuf' = sendbuf /\ enc' = enc /\ dec' = dec
      /\ earlySent' = earlySent /\ earlyGot' = earlyGot
  BY AlterQuiet DEF LocalInv, Alter, keys, appVars
<1>2. PICK x \in Recs : /\ p # <<>> /\ wire' = [wire EXCEPT ![s] = [p EXCEPT ![1] = x]]
                         /\ x.msg.type = p[1].msg.type
  BY <1>1, Altered
<1>3. p \in Seq(Recs) /\ wire'[s] = [p EXCEPT ![1] = x] /\ \A t \in Side : t # s => wire'[t] = wire[t]
  BY <1>1, <1>2 DEF TypeInv
<1>. DEFINE q == [p EXCEPT ![1] = x]
<1>. HIDE DEF p
<1>4. Len(q) = Len(p) /\ q[1] = x /\ \A i \in 1..Len(p) : i # 1 => q[i] = p[i]
  BY <1>2, <1>3
<1>. HIDE DEF q
<1>5. CASE s = "server"
  <2>1. wire'["client"] = wire["client"] /\ sendbuf'["client"] = sendbuf["client"]
    BY <1>1, <1>3, <1>5, Sides
  <2>2. p[1] \in InFlight("server")
    BY <1>2, <1>3, <1>5, ElemsOf DEF InFlight, p
  <2>3. \A r \in InFlight("server")' : r \in InFlight("server") \/ r = x
    <3>1. \A r \in Elems(q) : r = x \/ r \in Elems(p)
      BY <1>4 DEF Elems
    <3>. QED  BY <1>1, <1>3, <1>5, <3>1, FlightNow DEF InFlight, p, q
  <2>4. RetrySent' => RetrySent
    BY <1>2, <2>2, <2>3 DEF RetrySent
  <2>5. HelloFirst'
    BY <2>1, OfferKept
  <2>. QED  BY <1>1, <2>4, <2>5, StillEarly
<1>6. CASE s = "client"
  <2>1. /\ wire'["client"] = q /\ sendbuf'["client"] = sendbuf["client"]
        /\ wire'["server"] = wire["server"] /\ sendbuf'["server"] = sendbuf["server"]
    BY <1>1, <1>3, <1>6, Sides DEF q
  <2>2. RetrySent' => RetrySent
    <3>1. InFlight("server")' = InFlight("server")
      BY <2>1, Sides, FlightNow DEF InFlight
    <3>. QED  BY <3>1 DEF RetrySent
  <2>3. /\ \A i \in 1..Len(p) : IsEarlyHello(p[i]) => i = 1
        /\ \A i \in 1..Len(sendbuf["client"]) : ~IsEarlyHello(sendbuf["client"][i])
    BY <1>2, <1>6 DEF HelloFirst, p
  <2>4. \A i \in 1..Len(q) : IsEarlyHello(q[i]) => i = 1
    BY <1>4, <2>3
  <2>5. /\ \A i \in 1..Len(wire'["client"]) : IsEarlyHello(wire'["client"][i]) => i = 1
        /\ \A i \in 1..Len(sendbuf'["client"]) : ~IsEarlyHello(sendbuf'["client"][i])
    BY <2>1, <2>3, <2>4
  <2>6. HelloFirst'
    BY <2>5 DEF HelloFirst, IsEarlyHello
  <2>. QED  BY <1>1, <2>2, <2>6, StillEarly
<1>. QED  BY <1>5, <1>6 DEF Side

LEMMA TicketEarly ==
  ASSUME LocalInv, HelloFirst, client_handle_new_session_ticket
  PROVE  EarlyStep
<1>1. /\ ClientTakes("NST") /\ Consume("client") /\ sendbuf' = sendbuf /\ enc' = enc
      /\ dec' = [dec EXCEPT !["client"] = Advance(dec["client"], 1)]
      /\ earlySent' = earlySent /\ earlyGot' = earlyGot
  BY DEF client_handle_new_session_ticket
<1>2. Ready("client") /\ TypeInv /\ QuietStep
  BY <1>1, NewSessionTicketQuiet DEF ClientTakes, Accepts, LocalInv
<1>3. dec'["server"] = dec["server"]
  BY <1>1, <1>2, Sides DEF TypeInv
<1>4. HelloFirst' /\ (EarlyHello' /\ RetrySent' => RetrySent)
  BY <1>1, <1>2, Sides, ReadEarly
<1>. QED  BY <1>1, <1>2, <1>3, <1>4, StillEarly

LEMMA StatelessRetryEarly ==
  ASSUME LocalInv, HelloFirst, ServerStatelessRetry
  PROVE  EarlyStep
<1>1. /\ ServerTakes("CH") /\ wire'["client"] = Tail(wire["client"]) /\ sendbuf' = sendbuf
      /\ enc' = enc /\ dec' = dec /\ earlySent' = earlySent /\ earlyGot' = earlyGot
  BY DEF ServerStatelessRetry, keys, appVars
<1>2. TypeInv /\ QuietStep /\ wire["client"] # <<>>
  BY <1>1, StatelessRetryQuiet, ServerExpects DEF LocalInv
<1>3. ~EarlyHello' /\ HelloFirst'
  BY <1>1, <1>2, OfferRead
<1>. QED  BY <1>1, <1>2, <1>3, StillEarly

LEMMA StutterEarly ==
  ASSUME HelloFirst, UNCHANGED vars
  PROVE  EarlyStep
<1>1. /\ QuietStep /\ wire' = wire /\ sendbuf' = sendbuf /\ enc' = enc /\ dec' = dec
      /\ earlySent' = earlySent /\ earlyGot' = earlyGot
  BY StutterQuiet DEF vars, keys, appVars
<1>2. HelloFirst' /\ (RetrySent' => RetrySent)
  BY <1>1 DEF HelloFirst, IsEarlyHello, RetrySent, InFlight, Elems
<1>. QED  BY <1>1, <1>2, StillEarly

-----------------------------------------------------------------------------
(* The client moves on: nobody reads the offer any more.                    *)
LEMMA SendHelloFirst ==
  ASSUME LocalInv, send_client_hello
  PROVE  HelloFirst'
<1>. DEFINE early == Offers /\ cfg.early_data
            has == HelloExtensions \cup If(early, "early_data") \cup {cfg.key_share}
            ch == ClientHello(has, <<>>, <<>>)
            ccs == early /\ send_change_cipher_spec
            a == Records(NoKey, <<ch>>)
            b == CCS(ccs)
            rec == [secret |-> NoKey.secret, seq |-> NoKey.seq, msg |-> ch]
<1>1. TypeInv /\ cfg \in Config /\ HelloExtensions \in SUBSET Names /\ cfg.key_share \in Names
      /\ Offers \in BOOLEAN
  BY ConfigTypes DEF LocalInv
<1>2. early \in BOOLEAN /\ ccs \in BOOLEAN
  BY <1>1 DEF Config, TypeInv
<1>3. has \in SUBSET Names
  BY <1>1, NamesAre DEF If
<1>4. <<>> \in Cookies /\ <<>> \in Seq(Views)
  BY DEF Cookies
<1>5. /\ sendbuf' = [sendbuf EXCEPT !["client"] = a \o b] /\ wire' = wire
      /\ state["client"] = "CLIENT_HANDSHAKE_START"
  BY DEF send_client_hello
<1>. HIDE DEF has, early
<1>6. ch \in Messages
  BY <1>1, <1>3, <1>4, ClientHelloType, ZenonT(60)
<1>. HIDE DEF ch, ccs
<1>7. a = <<rec>> /\ rec \in Recs
  BY <1>6, KeyTypes, OneRecord
<1>. HIDE DEF rec
<1>8. a \in Seq(Recs) /\ Len(a) = 1
  <2>1. rec \in Recs
    BY <1>7
  <2>2. <<rec>> \in Seq(Recs) /\ Len(<<rec>>) = 1
    BY <2>1
  <2>. HIDE DEF a
  <2>. QED  BY <1>7, <2>2
<1>9. b \in Seq(Recs) /\ \A i \in 1..Len(b) : b[i].msg.type = "CCS"
  <2>1. Plain("CCS", {}).type = "CCS"
    BY DEF Plain, Message
  <2>. QED  BY <1>2, <2>1, CCSType
<1>. HIDE DEF a, b
<1>10. sendbuf'["client"] = a \o b
  BY <1>1, <1>5, Sides DEF TypeInv
<1>11. ASSUME NEW i \in 1..Len(a \o b), i # 1 PROVE (a \o b)[i].msg.type = "CCS"
  <2>1. /\ Len(b) \in Nat /\ Len(a \o b) = 1 + Len(b) /\ i \in Nat /\ i > 1 /\ i <= 1 + Len(b)
    <3>1. a \in Seq(Recs) /\ b \in Seq(Recs) /\ Len(a) = 1 /\ Len(b) \in Nat
      BY <1>8, <1>9
    <3>2. Len(a \o b) = Len(a) + Len(b)
      BY <3>1, ConcatAt, Zenon
    <3>. QED  BY <1>11, <3>1, <3>2
  <2>2. (a \o b)[i] = b[i - 1]
    BY <1>8, <1>9, <2>1
  <2>. DEFINE j == i - 1
  <2>3. j \in 1..Len(b)
    BY <2>1
  <2>. HIDE DEF j
  <2>4. b[j].msg.type = "CCS"
    BY <1>9, <2>3
  <2>. QED  BY <2>2, <2>4 DEF j
<1>12. wire'["client"] = <<>> /\ Len(wire'["client"]) = 0
  BY <1>5, Sides DEF LocalInv, QuietInv
<1>13. \A i \in 1..Len(sendbuf'["client"]) : IsEarlyHello(sendbuf'["client"][i]) => i = 1
  BY <1>10, <1>11 DEF IsEarlyHello
<1>. QED  BY <1>12, <1>13 DEF HelloFirst, IsEarlyHello

LEMMA SendClientHelloEarly ==
  ASSUME LocalInv, EarlyInv, send_client_hello
  PROVE  EarlyInv'
<1>. DEFINE early == Offers /\ cfg.early_data
<1>1. /\ state["client"] = "CLIENT_HANDSHAKE_START"
      /\ state' = [state EXCEPT !["client"] = "CLIENT_EXPECT_SERVER_HELLO"]
      /\ using_early_data' = early
      /\ early_data_acceptance' = IF early THEN "UNKNOWN" ELSE "REJECTED"
      /\ dec' = dec /\ earlySent' = earlySent /\ earlyGot' = earlyGot
  BY DEF send_client_hello, appVars
<1>2. TypeInv /\ state["server"] = "SERVER_EXPECT_CLIENT_HELLO" /\ InFlight("server") = {}
  <2>1. /\ TypeInv /\ state["server"] = "SERVER_EXPECT_CLIENT_HELLO"
        /\ \A s \in Side : sendbuf[s] = <<>> /\ wire[s] = <<>>
    BY <1>1 DEF LocalInv, QuietInv
  <2>. QED  BY <2>1, Sides, ElemsOf DEF InFlight
<1>3. state'["client"] = "CLIENT_EXPECT_SERVER_HELLO" /\ state'["server"] = state["server"]
  BY <1>1, <1>2, Sides DEF TypeInv
<1>4. early => enc'["client"].seq = 0
  <2>1. SUFFICES ASSUME early PROVE enc'["client"].seq = 0
    OBVIOUS
  <2>2. \E key : key.seq = 0 /\ enc' = [enc EXCEPT !["client"] = key]
    BY <2>1 DEF send_client_hello, Key
  <2>. QED  BY <1>2, <2>2, Sides DEF TypeInv
<1>5. InFlight("server")' = {}
  BY <1>2, SendClientHelloFlight
<1>6. \A r \in InFlight("client")' : r.msg.type # "EOED" /\ (IsEarlyHello(r) => early)
  BY <1>1, SendClientHelloFlight DEF IsHello, IsEarlyHello
<1>7. earlySent = 0 /\ earlyGot = 0
  BY <1>1, <1>2 DEF EarlyInv, ClientEarlyInv, ServerEarlyInv, ServerHellos
<1>8. early \in BOOLEAN
  BY <1>2, ConfigTypes DEF Config
<1>. HIDE DEF early
<1>9. OfferInv'
  <2>1. EarlyHello' => early
    BY <1>6 DEF EarlyHello, IsEarlyHello
  <2>2. ~RetrySent'
    BY <1>5 DEF RetrySent
  <2>. QED  BY <1>1, <1>2, <1>3, <2>1, <2>2 DEF OfferInv
<1>10. AnnouncedInv'
  BY <1>1, <1>2, <1>3, <1>5, <1>7 DEF AnnouncedInv
<1>11. ClientEarlyInv'
  BY <1>1, <1>3, <1>4, <1>7, <1>8 DEF ClientEarlyInv, ClientHellos, ClientFlight
<1>12. ServerEarlyInv'
  BY <1>1, <1>2, <1>3, <1>7 DEF ServerEarlyInv
<1>13. EndInv'
  BY <1>6 DEF EndInv
<1>. QED  BY <1>9, <1>10, <1>11, <1>12, <1>13, SendHelloFirst DEF EarlyInv

LEMMA ClientMovesEarly ==
  ASSUME EarlyInv, ~EarlyHello', state["client"] # "CLIENT_POST_HANDSHAKE",
         state'["client"] # "CLIENT_POST_HANDSHAKE",
         state'["server"] = state["server"], dec'["server"] = dec["server"],
         earlySent' = earlySent, earlyGot' = earlyGot,
         \A r \in InFlight("server")' : r \in InFlight("server"),
         \A r \in InFlight("client")' : r \in InFlight("client") \/ r.msg.type # "EOED",
         ClientEarlyInv',
         state["server"] = "SERVER_EXPECT_END_OF_EARLY_DATA" \/ earlyGot > 0 =>
            /\ early_data_acceptance' # "REJECTED"
            /\ state'["client"] \in {"CLIENT_EXPECT_SERVER_HELLO"} \cup ClientFlight,
         early_data_acceptance' = "ACCEPTED" => state["server"] = "SERVER_EXPECT_END_OF_EARLY_DATA"
  PROVE  EarlyInv'
<1>1. HelloFirst' /\ OfferInv'
  BY NoOfferFirst DEF OfferInv
<1>2. ServerEarlyInv'
  BY DEF EarlyInv, ServerEarlyInv
<1>3. EndInv'
  BY DEF EarlyInv, EndInv
<1>4. RetrySent' => RetrySent
  BY DEF RetrySent
<1>5. ServerEarly => ServerEarly'
  BY DEF ServerEarly
<1>6. ClientKeepsEarly /\ early_data_acceptance' # "REJECTED"
         /\ state'["client"] \in {"CLIENT_EXPECT_SERVER_HELLO"} \cup ClientFlight => ClientKeepsEarly'
  BY <1>4 DEF ClientKeepsEarly
<1>7. AnnouncedInv'
  <2>1. state'["server"] = "SERVER_EXPECT_END_OF_EARLY_DATA" \/ earlyGot' > 0 => ClientKeepsEarly'
    BY <1>6 DEF EarlyInv, AnnouncedInv
  <2>2. \A r \in InFlight("server")' :
          r.msg.type = "EE" /\ "early_data" \in r.msg.has => ServerEarly'
    BY <1>5 DEF EarlyInv, AnnouncedInv
  <2>3. early_data_acceptance' = "ACCEPTED" => ServerEarly'
    BY DEF ServerEarly
  <2>. QED  BY <2>1, <2>2, <2>3 DEF AnnouncedInv
<1>. QED  BY <1>1, <1>2, <1>3, <1>7 DEF EarlyInv

LEMMA HrrEarly ==
  ASSUME LocalInv, EarlyInv, handle_hello_retry_request
  PROVE  EarlyInv'
<1>1. /\ ClientTakes("HRR") /\ Consume("client") /\ dec' = dec
      /\ state' = [state EXCEPT !["client"] = "CLIENT_EXPECT_SECOND_SERVER_HELLO"]
      /\ using_early_data' = FALSE /\ early_data_acceptance' = "REJECTED"
      /\ earlySent' = earlySent /\ earlyGot' = earlyGot
  BY DEF handle_hello_retry_request, appVars
<1>2. /\ TypeInv /\ state["client"] \in ClientHellos /\ First("client") \in InFlight("server")
      /\ First("client").msg.type = "HRR"
  BY <1>1, Sides, ClientExpects, ReadFlight DEF LocalInv
<1>3. /\ state'["client"] = "CLIENT_EXPECT_SECOND_SERVER_HELLO" /\ state'["server"] = state["server"]
      /\ state["client"] # "CLIENT_POST_HANDSHAKE"
  BY <1>1, <1>2, Sides DEF TypeInv, ClientHellos
<1>4. RetrySent
  BY <1>2 DEF RetrySent
<1>5. ~EarlyHello /\ ~(state["server"] = "SERVER_EXPECT_END_OF_EARLY_DATA" \/ earlyGot > 0)
  BY <1>4 DEF EarlyInv, OfferInv, AnnouncedInv, ClientKeepsEarly
<1>6. /\ \A r \in InFlight("server")' : r \in InFlight("server")
      /\ \A r \in InFlight("client")' :
           r \in InFlight("client") \/ (r.msg.type # "EOED" /\ ~IsEarlyHello(r))
  BY Sides, HrrFlight DEF IsHello, IsEarlyHello
<1>7. ~EarlyHello'
  BY <1>5, <1>6 DEF EarlyHello, IsEarlyHello
<1>8. ClientEarlyInv'
  BY <1>1, <1>3 DEF ClientEarlyInv, ClientHellos
<1>. QED  BY <1>1, <1>3, <1>5, <1>6, <1>7, <1>8, ClientMovesEarly

LEMMA ClientHandleHelloEarly ==
  ASSUME LocalInv, AgreementInv, EarlyInv, client_handle_hello
  PROVE  EarlyInv'
<1>1. /\ ClientTakes("SH") /\ Consume("client") /\ sendbuf' = sendbuf
      /\ state' = [state EXCEPT !["client"] = "CLIENT_EXPECT_ENCRYPTED_EXTENSIONS"]
      /\ using_early_data' = using_early_data /\ early_data_acceptance' = early_data_acceptance
      /\ earlySent' = earlySent /\ earlyGot' = earlyGot
  BY DEF client_handle_hello, clientVars, appVars
<1>2. /\ TypeInv /\ state["client"] \in ClientHellos /\ First("client") \in InFlight("server")
      /\ First("client").msg.type = "SH" /\ Ready("client")
  BY <1>1, Sides, ClientExpects, ReadFlight DEF LocalInv
<1>3. /\ state'["client"] = "CLIENT_EXPECT_ENCRYPTED_EXTENSIONS" /\ state'["server"] = state["server"]
      /\ state["client"] # "CLIENT_POST_HANDSHAKE"
  BY <1>1, <1>2, Sides DEF TypeInv, ClientHellos
<1>4. dec'["server"] = dec["server"]
  BY <1>2, Sides DEF client_handle_hello, TypeInv
<1>5. using_early_data => enc' = enc /\ pending_handshake_secret'["client"] # NoSecret
  <2>1. SUFFICES ASSUME using_early_data
                 PROVE  enc' = enc /\ pending_handshake_secret'["client"] # NoSecret
    OBVIOUS
  <2>2. \E ikm, th : /\ enc' = enc
                     /\ pending_handshake_secret' = [pending_handshake_secret EXCEPT !["client"] =
                                                       Secret("c_hs_traffic", ikm, th)]
    BY <2>1 DEF client_handle_hello
  <2>3. \A ikm, th : Secret("c_hs_traffic", ikm, th) # NoSecret
    BY DEF Secret, NoSecret
  <2>. QED  BY <1>2, <2>2, <2>3, Sides DEF TypeInv
<1>6. state["server"] \notin ServerHellos
  BY <1>2 DEF AgreementInv, ServerFlightInv
<1>7. ~EarlyHello
  BY <1>6 DEF EarlyInv, OfferInv, ServerHellos
<1>8. /\ \A r \in InFlight("server")' : r \in InFlight("server")
      /\ \A r \in InFlight("client")' : r \in InFlight("client")
  BY <1>1, <1>2, Sides, ReadQuiet
<1>9. ~EarlyHello'
  BY <1>7, <1>8 DEF EarlyHello, IsEarlyHello
<1>10. /\ early_data_acceptance # "ACCEPTED" /\ using_early_data \in BOOLEAN
       /\ using_early_data <=> early_data_acceptance # "REJECTED"
       /\ using_early_data => enc["client"].seq = earlySent
  BY <1>2 DEF EarlyInv, ClientEarlyInv, ClientHellos, ClientFlight, TypeInv
<1>11. ClientEarlyInv'
  BY <1>1, <1>3, <1>5, <1>10 DEF ClientEarlyInv, ClientFlight
<1>12. state["server"] = "SERVER_EXPECT_END_OF_EARLY_DATA" \/ earlyGot > 0 =>
         early_data_acceptance # "REJECTED"
  BY DEF EarlyInv, AnnouncedInv, ClientKeepsEarly
<1>13. "CLIENT_EXPECT_ENCRYPTED_EXTENSIONS" \in ClientFlight
       /\ "CLIENT_EXPECT_ENCRYPTED_EXTENSIONS" # "CLIENT_POST_HANDSHAKE"
  BY DEF ClientFlight
<1>. QED
  BY <1>1, <1>3, <1>4, <1>8, <1>9, <1>10, <1>11, <1>12, <1>13, ClientMovesEarly

LEMMA ClientReadsEarly ==
  ASSUME LocalInv, EarlyInv,
         \/ client_handle_encrypted_extensions \/ client_handle_certificate_request
         \/ client_handle_certificate \/ client_handle_certificate_verify
  PROVE  EarlyInv'
<1>. DEFINE m == First("client").msg
<1>1. PICK next \in ClientFlight \ {"CLIENT_EXPECT_ENCRYPTED_EXTENSIONS"} : ClientStep(next)
  BY DEF client_handle_encrypted_extensions, client_handle_certificate_request,
         client_handle_certificate, client_handle_certificate_verify, ClientFlight
<1>2. PICK type \in {"EE", "CR", "CERT", "CV"} : ClientTakes(type)
  BY DEF client_handle_encrypted_extensions, client_handle_certificate_request,
         client_handle_certificate, client_handle_certificate_verify
<1>3. /\ TypeInv /\ state["client"] \in ClientFlight /\ Ready("client")
      /\ First("client") \in InFlight("server")
  BY <1>1, <1>2, Sides, ClientExpects, ReadFlight DEF LocalInv, ClientFlight, ClientStep
<1>4. /\ state' = [state EXCEPT !["client"] = next] /\ enc' = enc
      /\ pending_handshake_secret' = pending_handshake_secret
      /\ dec' = [dec EXCEPT !["client"] = Advance(dec["client"], 1)]
      /\ earlySent' = earlySent /\ earlyGot' = earlyGot /\ Consume("client") /\ sendbuf' = sendbuf
  BY <1>1 DEF ClientStep, appVars
<1>5. /\ state'["client"] = next /\ state'["server"] = state["server"]
      /\ dec'["server"] = dec["server"]
  BY <1>3, <1>4, Sides DEF TypeInv
<1>6. /\ state["client"] # "CLIENT_POST_HANDSHAKE" /\ next # "CLIENT_POST_HANDSHAKE"
      /\ next \in ClientFlight
  BY <1>1, <1>3 DEF ClientFlight
<1>7. /\ \A r \in InFlight("server")' : r \in InFlight("server")
      /\ \A r \in InFlight("client")' : r \in InFlight("client")
  BY <1>3, <1>4, Sides, ReadQuiet
<1>8. ~EarlyHello'
  <2>1. ~EarlyHello
    BY <1>3 DEF EarlyInv, OfferInv, ClientFlight
  <2>. QED  BY <1>7, <2>1 DEF EarlyHello, IsEarlyHello
<1>9. /\ using_early_data \in BOOLEAN /\ (using_early_data <=> early_data_acceptance # "REJECTED")
      /\ using_early_data => enc["client"].seq = earlySent
                             /\ pending_handshake_secret["client"] # NoSecret
  BY <1>3 DEF EarlyInv, ClientEarlyInv, TypeInv
<1>10. state["server"] = "SERVER_EXPECT_END_OF_EARLY_DATA" \/ earlyGot > 0 => ClientKeepsEarly
  BY DEF EarlyInv, AnnouncedInv
<1>. DEFINE Told ==
       /\ using_early_data' <=> early_data_acceptance' # "REJECTED"
       /\ using_early_data' => using_early_data
       /\ early_data_acceptance' # "UNKNOWN"
       /\ early_data_acceptance' = "ACCEPTED" =>
            state["server"] = "SERVER_EXPECT_END_OF_EARLY_DATA"
       /\ state["server"] = "SERVER_EXPECT_END_OF_EARLY_DATA" \/ earlyGot > 0 =>
            early_data_acceptance' # "REJECTED"
<1>11. Told
  <2>1. CASE client_handle_encrypted_extensions
    <3>1. m.type = "EE" /\ state["client"] = "CLIENT_EXPECT_ENCRYPTED_EXTENSIONS"
      BY <2>1, ClientExpects DEF client_handle_encrypted_extensions
    <3>2. early_data_acceptance # "ACCEPTED"
      BY <3>1 DEF EarlyInv, ClientEarlyInv
    <3>3. "early_data" \in m.has => state["server"] = "SERVER_EXPECT_END_OF_EARLY_DATA"
      BY <1>3, <1>6, <3>1 DEF EarlyInv, AnnouncedInv, ServerEarly
    <3>4. ClientKeepsEarly => "early_data" \in m.has /\ early_data_acceptance # "REJECTED"
      BY <1>3, <3>1 DEF ClientKeepsEarly
    <3>5. /\ "early_data" \in m.has => using_early_data
          /\ using_early_data' = (using_early_data /\ "early_data" \in m.has)
          /\ early_data_acceptance' = IF ~using_early_data THEN early_data_acceptance
                                      ELSE IF "early_data" \in m.has THEN "ACCEPTED" ELSE "REJECTED"
      BY <2>1 DEF client_handle_encrypted_extensions
    <3>. HIDE DEF m
    <3>. QED  BY <1>9, <1>10, <3>2, <3>3, <3>4, <3>5
  <2>2. CASE ~client_handle_encrypted_extensions
    <3>1. using_early_data' = using_early_data /\ early_data_acceptance' = early_data_acceptance
      BY <2>2 DEF client_handle_certificate_request, client_handle_certificate,
                  client_handle_certificate_verify
    <3>2. state["client"] \in ClientFlight \ {"CLIENT_EXPECT_ENCRYPTED_EXTENSIONS"}
      <4>1. PICK t \in {"CR", "CERT", "CV"} : ClientTakes(t)
        BY <2>2 DEF client_handle_certificate_request, client_handle_certificate,
                    client_handle_certificate_verify
      <4>. QED  BY <4>1, ClientExpects DEF ClientFlight
    <3>3. early_data_acceptance # "UNKNOWN"
      BY <3>2 DEF EarlyInv, ClientEarlyInv, ClientFlight
    <3>4. early_data_acceptance = "ACCEPTED" => state["server"] = "SERVER_EXPECT_END_OF_EARLY_DATA"
      BY <1>6 DEF EarlyInv, AnnouncedInv, ServerEarly
    <3>. QED  BY <1>9, <1>10, <3>1, <3>3, <3>4 DEF ClientKeepsEarly
  <2>. QED  BY <2>1, <2>2
<1>12. ClientEarlyInv'
  <2>1. next \in ClientFlight \ {"CLIENT_EXPECT_ENCRYPTED_EXTENSIONS"} /\ next # "CLIENT_HANDSHAKE_START"
    BY <1>1 DEF ClientFlight
  <2>. QED  BY <1>4, <1>5, <1>9, <1>11, <2>1 DEF ClientEarlyInv
<1>. QED  BY <1>4, <1>5, <1>6, <1>7, <1>8, <1>11, <1>12, ClientMovesEarly

LEMMA ClientFinishedEarly ==
  ASSUME LocalInv, EarlyInv, client_handle_finished
  PROVE  EarlyInv'
<1>1. /\ ClientTakes("FIN")
      /\ dec' = [dec EXCEPT !["client"] = Key(Secret("s_ap_traffic", FinSched, FinTh1))]
      /\ using_early_data' = (using_early_data /\ pending_handshake_secret["client"] = NoSecret)
      /\ state' = [state EXCEPT !["client"] = "CLIENT_POST_HANDSHAKE"]
      /\ early_data_acceptance' = early_data_acceptance
      /\ earlySent' = earlySent /\ earlyGot' = earlyGot
  BY ClientFinished
<1>2. TypeInv /\ state["client"] = "CLIENT_EXPECT_FINISHED"
  BY <1>1, ClientExpects DEF LocalInv
<1>3. /\ state'["client"] = "CLIENT_POST_HANDSHAKE" /\ state'["server"] = state["server"]
      /\ dec'["server"] = dec["server"]
  BY <1>1, <1>2, Sides DEF TypeInv
<1>4. /\ early_data_acceptance # "UNKNOWN" /\ using_early_data \in BOOLEAN
      /\ using_early_data => /\ enc["client"].seq = earlySent
                             /\ pending_handshake_secret["client"] # NoSecret
  BY <1>2 DEF EarlyInv, ClientEarlyInv, ClientFlight, TypeInv
<1>5. \A r \in InFlight("server")' : r \in InFlight("server")
  BY Sides, ClientFinishedFlight
<1>6. ASSUME NEW r \in Elems(FinRecords)
      PROVE  ~IsEarlyHello(r) /\ (r.msg.type = "EOED" => r.seq = earlySent)
  <2>1. \/ (r.msg = Plain("EOED", {}) /\ FinEarly /\ r.seq = enc["client"].seq)
        \/ r.msg.type = "CCS" \/ r.msg = FinMsg
        \/ (r.msg \in Elems(FinCerts) /\ certificate_request)
    BY ClientFinishedFlight
  <2>2. CASE r.msg = Plain("EOED", {}) /\ FinEarly /\ r.seq = enc["client"].seq
    <3>1. r.msg.type = "EOED"
      BY <2>2 DEF Plain, Message
    <3>. QED  BY <1>4, <2>2, <3>1 DEF FinEarly, IsEarlyHello
  <2>3. CASE r.msg = FinMsg
    <3>1. FinMsg.type = "FIN"
      BY DEF FinMsg, send_finished, Message
    <3>. QED  BY <2>3, <3>1 DEF IsEarlyHello
  <2>4. CASE r.msg \in Elems(FinCerts) /\ certificate_request
    <3>1. FinCerts = Certificates("client", cfg.client_certificate, FinTh2)
      BY <2>4 DEF FinCerts
    <3>2. wire["server"] # <<>>
      BY <1>1, ClientExpects
    <3>3. \A c \in Elems(FinCerts) : CertificateTrust(cfg.client_certificate, c)
      BY <1>2, <3>1, <3>2, ClientFinishedTypes, ConfigTypes, NamesAre, CertificatesTrust
    <3>. QED  BY <2>4, <3>3 DEF CertificateTrust, IsEarlyHello
  <2>5. CASE r.msg.type = "CCS"
    BY <2>5 DEF IsEarlyHello
  <2>. QED  BY <2>1, <2>2, <2>3, <2>4, <2>5
<1>7. \A r \in InFlight("client")' : r \in InFlight("client") \/ r \in Elems(FinRecords)
  BY Sides, ClientFinishedFlight
<1>8. ~EarlyHello'
  <2>1. ~EarlyHello
    BY <1>2 DEF EarlyInv, OfferInv
  <2>. QED  BY <1>6, <1>7, <2>1 DEF EarlyHello, IsEarlyHello
<1>9. HelloFirst' /\ OfferInv'
  BY <1>8, NoOfferFirst DEF OfferInv
<1>10. ServerEarlyInv'
  BY <1>1, <1>3 DEF EarlyInv, ServerEarlyInv
<1>11. EndInv'
  <2>1. \A r \in InFlight("client")' : r.msg.type = "EOED" => r.seq = earlySent
    BY <1>2, <1>6, <1>7 DEF EarlyInv, EndInv
  <2>. QED  BY <1>1, <1>3, <2>1 DEF EndInv
<1>12. ClientEarlyInv'
  BY <1>1, <1>3, <1>4 DEF ClientEarlyInv, ClientHellos, ClientFlight
<1>13. ServerEarly => ServerEarly'
  BY <1>2, <1>3 DEF ServerEarly
<1>14. ClientKeepsEarly => ClientKeepsEarly'
  <2>1. RetrySent' => RetrySent
    BY <1>5 DEF RetrySent
  <2>. QED  BY <1>1, <1>3, <1>5, <2>1 DEF ClientKeepsEarly
<1>15. AnnouncedInv'
  BY <1>1, <1>3, <1>5, <1>13, <1>14 DEF EarlyInv, AnnouncedInv
<1>. QED  BY <1>9, <1>10, <1>11, <1>12, <1>15 DEF EarlyInv

-----------------------------------------------------------------------------
(* The server moves on: it has read the offer, or there is none.            *)
LEMMA ServerMovesEarly ==
  ASSUME LocalInv, EarlyInv, NEW type, ServerTakes(type), Consume("server"),
         sendbuf'["client"] = sendbuf["client"], state'["client"] = state["client"],
         enc'["client"] = enc["client"],
         pending_handshake_secret'["client"] = pending_handshake_secret["client"],
         using_early_data' = using_early_data, early_data_acceptance' = early_data_acceptance,
         earlySent' = earlySent, AnnouncedInv', ServerEarlyInv'
  PROVE  EarlyInv'
<1>1. TypeInv /\ HelloFirst /\ wire["client"] # <<>>
  BY ServerExpects DEF LocalInv, EarlyInv
<1>2. /\ wire'["client"] = Tail(wire["client"])
      /\ Elems(wire'["client"]) \subseteq Elems(wire["client"])
  BY <1>1, Sides, ReadFlight
<1>3. ~EarlyHello' /\ HelloFirst'
  BY <1>1, <1>2, OfferRead
<1>4. InFlight("client")' \subseteq InFlight("client")
  BY <1>2, Sides, FlightNow DEF InFlight
<1>5. OfferInv'
  BY <1>3 DEF OfferInv
<1>6. ClientEarlyInv'
  BY DEF EarlyInv, ClientEarlyInv
<1>7. EndInv'
  BY <1>4 DEF EarlyInv, EndInv
<1>. QED  BY <1>3, <1>5, <1>6, <1>7 DEF EarlyInv

LEMMA ServerRetryEarly ==
  ASSUME LocalInv, AgreementInv, EarlyInv, ServerRetry
  PROVE  EarlyInv'
<1>1. /\ ServerTakes("CH") /\ Consume("server") /\ enc' = enc
      /\ pending_handshake_secret' = pending_handshake_secret
      /\ state' = [state EXCEPT !["server"] = "SERVER_EXPECT_SECOND_CLIENT_HELLO"]
      /\ using_early_data' = using_early_data /\ early_data_acceptance' = early_data_acceptance
      /\ earlySent' = earlySent /\ earlyGot' = earlyGot
  BY DEF ServerRetry, keys, clientVars, appVars
<1>2. TypeInv /\ state["server"] \in ServerHellos
  BY <1>1, ServerExpects DEF LocalInv
<1>3. /\ state'["server"] = "SERVER_EXPECT_SECOND_CLIENT_HELLO"
      /\ state'["client"] = state["client"]
  BY <1>1, <1>2, Sides DEF TypeInv
<1>4. sendbuf'["client"] = sendbuf["client"]
  BY <1>2, Sides DEF ServerRetry, TypeInv
<1>5. earlyGot = 0 /\ early_data_acceptance # "ACCEPTED"
  BY <1>2 DEF EarlyInv, ServerEarlyInv, AnnouncedInv, ServerEarly, ServerHellos
<1>6. \A r \in InFlight("server")' : r.msg.type # "EE"
  BY <1>2, Sides, ServerRetryFlight DEF AgreementInv, ServerFlightInv
<1>7. AnnouncedInv'
  BY <1>1, <1>3, <1>5, <1>6 DEF AnnouncedInv
<1>8. ServerEarlyInv'
  BY <1>1, <1>3, <1>5 DEF ServerEarlyInv
<1>. QED  BY <1>1, <1>3, <1>4, <1>7, <1>8, ServerMovesEarly

LEMMA HelloTells ==
  ASSUME TypeInv, ServerInv, state["server"] \in ServerHellos, NEW ch \in Messages,
         NEW r \in Elems(HelloRecords(ch))
  PROVE  /\ r.msg.type # "HRR"
         /\ r.msg.type = "EE" => ("early_data" \in r.msg.has <=> AcceptsEarlyData(ch))
<1>1. \/ r.msg = ServerHello(ch) \/ r.msg.type = "CCS"
      \/ r.msg \in Elems(Extensions(ch)) \/ r.msg \in Elems(HelloCerts(ch))
      \/ r.msg = HelloFin(ch) \/ r.msg = HelloTicket(ch)
  BY HelloSends
<1>2. CASE r.msg \in Elems(Extensions(ch))
  <2>1. r.msg = Plain("EE", If(AcceptsEarlyData(ch), "early_data")) \/ r.msg = Plain("CR", {})
    BY <1>2, ExtensionsType
  <2>. QED  BY <2>1 DEF Plain, Message, If
<1>3. CASE r.msg \in Elems(HelloCerts(ch))
  <2>1. HelloCerts(ch) = Certificates("server", cfg.server_certificate, HelloTh1(ch))
    BY <1>3, ElemsOf DEF HelloCerts
  <2>2. /\ HelloTh1(ch) \in Seq(Views) /\ cfg.server_certificate \in Names
        /\ "server" \in Names
    BY HelloTypes, ConfigTypes, NamesAre
  <2>3. \A c \in Elems(HelloCerts(ch)) : CertificateTrust(cfg.server_certificate, c)
    BY <2>1, <2>2, CertificatesTrust
  <2>. QED  BY <1>3, <2>3 DEF CertificateTrust
<1>4. CASE \/ r.msg = ServerHello(ch) \/ r.msg.type = "CCS" \/ r.msg = HelloFin(ch)
           \/ r.msg = HelloTicket(ch)
  <2>1. /\ ServerHello(ch).type = "SH" /\ HelloTicket(ch).type = "NST"
        /\ HelloFin(ch).type = "FIN"
    BY DEF ServerHello, HelloFin, HelloTicket, send_finished, Plain, Message
  <2>. QED  BY <1>4, <2>1
<1>. QED  BY <1>1, <1>2, <1>3, <1>4

LEMMA ServerHelloEarly ==
  ASSUME LocalInv, AgreementInv, EarlyInv, server_handle_hello
  PROVE  EarlyInv'
<1>. DEFINE ch == First("server").msg
            early == AcceptsEarlyData(ch)
            next == IF early THEN "SERVER_EXPECT_END_OF_EARLY_DATA"
                    ELSE IF cfg.require_client_authentication THEN "SERVER_EXPECT_CERTIFICATE"
                    ELSE "SERVER_EXPECT_FINISHED"
<1>1. /\ ServerTakes("CH") /\ Consume("server")
      /\ state' = [state EXCEPT !["server"] = next]
      /\ using_early_data' = using_early_data /\ early_data_acceptance' = early_data_acceptance
      /\ earlySent' = earlySent /\ earlyGot' = earlyGot
  BY ServerHelloParts
<1>2. /\ sendbuf' = [sendbuf EXCEPT !["server"] = sendbuf["server"] \o HelloRecords(ch)]
      /\ state["server"] \in ServerHellos /\ wire["client"] # <<>> /\ ch \in Messages
      /\ ch.type = "CH"
  BY ServerHelloSends
<1>3. TypeInv /\ ServerInv
  BY DEF LocalInv
<1>4. /\ enc'["client"] = enc["client"]
      /\ pending_handshake_secret'["client"] = pending_handshake_secret["client"]
  <2>1. enc' = [enc EXCEPT !["server"] = Advance(HelloApKey(ch), Len(HelloNst(ch)))]
    BY ServerHelloParts
  <2>2. \/ pending_handshake_secret' = pending_handshake_secret
        \/ pending_handshake_secret' = [pending_handshake_secret EXCEPT !["server"] =
                                          HandshakeSecret(ch, "c_hs_traffic")]
    BY ServerHelloParts
  <2>. QED  BY <1>3, <2>1, <2>2, Sides DEF TypeInv
<1>5. early => dec'["server"].aead /\ dec'["server"].seq = 0
  <2>1. SUFFICES ASSUME early PROVE dec'["server"].aead /\ dec'["server"].seq = 0
    OBVIOUS
  <2>2. dec' = [dec EXCEPT !["server"] =
                  Key(Secret("c_e_traffic", Base(ch), Hash(Before(ch), <<ch>>)))]
    BY <2>1, ServerHelloParts
  <2>3. dec'["server"] = Key(Secret("c_e_traffic", Base(ch), Hash(Before(ch), <<ch>>)))
    BY <1>3, <2>2, Sides DEF TypeInv
  <2>. QED  BY <2>3 DEF Key
<1>6. /\ \A r \in InFlight("server")' : r \in InFlight("server") \/ r \in Elems(HelloRecords(ch))
      /\ sendbuf'["client"] = sendbuf["client"]
  <2>1. HelloRecords(ch) \in Seq(Recs)
    BY <1>2, <1>3, HelloSends
  <2>. QED  BY <1>1, <1>2, <1>3, <2>1, Sides, Written DEF TypeInv
<1>7. \A r \in InFlight("server") : r.msg.type # "EE"
  BY <1>2 DEF AgreementInv, ServerFlightInv
<1>8. early => /\ state["client"] = "CLIENT_EXPECT_SERVER_HELLO"
               /\ early_data_acceptance = "UNKNOWN" /\ ~RetrySent
  <2>1. First("server") \in InFlight("client")
    BY <1>1, <1>2, <1>3, Sides, ReadFlight
  <2>2. early => EarlyHello
    BY <1>2, <2>1 DEF AcceptsEarlyData, EarlyHello, IsEarlyHello
  <2>. QED  BY <2>2 DEF EarlyInv, OfferInv
<1>9. earlyGot = 0 /\ early_data_acceptance # "ACCEPTED"
  BY <1>2 DEF EarlyInv, ServerEarlyInv, AnnouncedInv, ServerEarly, ServerHellos
<1>10. \A r \in Elems(HelloRecords(ch)) :
         r.msg.type # "HRR" /\ (r.msg.type = "EE" => ("early_data" \in r.msg.has <=> early))
  BY <1>2, <1>3, HelloTells
<1>11. early => next = "SERVER_EXPECT_END_OF_EARLY_DATA"
  OBVIOUS
<1>12. /\ ~early => next # "SERVER_EXPECT_END_OF_EARLY_DATA"
       /\ next \notin ServerHellos
  BY DEF ServerHellos
<1>. HIDE DEF ch, early, next
<1>13. state'["server"] = next /\ state'["client"] = state["client"]
  BY <1>1, <1>3, Sides DEF TypeInv
<1>14. early => ClientKeepsEarly'
  <2>1. SUFFICES ASSUME early PROVE ClientKeepsEarly'
    OBVIOUS
  <2>2. ~RetrySent'
    BY <1>6, <1>8, <1>10, <2>1 DEF RetrySent
  <2>3. \A r \in InFlight("server")' : r.msg.type = "EE" => "early_data" \in r.msg.has
    BY <1>6, <1>7, <1>10, <2>1
  <2>4. early_data_acceptance' # "REJECTED" /\ state'["client"] = "CLIENT_EXPECT_SERVER_HELLO"
    BY <1>1, <1>8, <1>13, <2>1
  <2>. QED  BY <2>2, <2>3, <2>4 DEF ClientKeepsEarly
<1>15. AnnouncedInv'
  <2>1. state'["server"] = "SERVER_EXPECT_END_OF_EARLY_DATA" \/ earlyGot' > 0 => ClientKeepsEarly'
    BY <1>1, <1>9, <1>12, <1>13, <1>14
  <2>2. \A r \in InFlight("server")' :
          r.msg.type = "EE" /\ "early_data" \in r.msg.has => ServerEarly'
    BY <1>6, <1>7, <1>10, <1>11, <1>13 DEF ServerEarly
  <2>3. early_data_acceptance' # "ACCEPTED"
    BY <1>1, <1>9
  <2>. QED  BY <2>1, <2>2, <2>3 DEF AnnouncedInv
<1>16. ServerEarlyInv'
  BY <1>1, <1>5, <1>9, <1>12, <1>13 DEF ServerEarlyInv
<1>. QED  BY <1>1, <1>4, <1>6, <1>13, <1>15, <1>16, ServerMovesEarly

LEMMA ServerReadsEarly ==
  ASSUME LocalInv, AgreementInv, EarlyInv,
         \/ server_handle_end_of_early_data \/ server_handle_certificate
         \/ server_handle_certificate_verify \/ server_handle_finished
  PROVE  EarlyInv'
<1>1. PICK type \in {"EOED", "CERT", "CV", "FIN"} :
         /\ ServerTakes(type) /\ Consume("server") /\ sendbuf' = sendbuf /\ enc' = enc
         /\ using_early_data' = using_early_data
         /\ early_data_acceptance' = early_data_acceptance
         /\ earlySent' = earlySent /\ earlyGot' = earlyGot
  BY DEF server_handle_end_of_early_data, server_handle_certificate,
         server_handle_certificate_verify, server_handle_finished, ServerStep, clientVars, appVars
<1>2. /\ TypeInv /\ Ready("server") /\ wire["client"] # <<>>
      /\ First("server") \in InFlight("client")
  BY <1>1, Sides, ServerExpects, ReadFlight DEF LocalInv
<1>3. pending_handshake_secret'["client"] = pending_handshake_secret["client"]
  BY <1>2, Sides DEF server_handle_end_of_early_data, server_handle_certificate,
         server_handle_certificate_verify, server_handle_finished, ServerStep, TypeInv
<1>4. /\ \A r \in InFlight("server")' : r \in InFlight("server")
      /\ \A r \in InFlight("client")' : r \in InFlight("client")
  BY <1>1, <1>2, Sides, ReadQuiet
<1>5. PICK next \in {"SERVER_EXPECT_CERTIFICATE_VERIFY", "SERVER_EXPECT_FINISHED",
                     "SERVER_POST_HANDSHAKE"} :
         state' = [state EXCEPT !["server"] = next]
  BY DEF server_handle_end_of_early_data, server_handle_certificate,
         server_handle_certificate_verify, server_handle_finished, ServerStep
<1>6. state'["server"] = next /\ state'["client"] = state["client"]
  BY <1>2, <1>5, Sides DEF TypeInv
<1>7. ServerEarly => ServerEarly'
  <2>1. CASE server_handle_end_of_early_data
    <3>1. /\ ServerTakes("EOED") /\ Accepts("server")
          /\ state' = [state EXCEPT !["server"] = "SERVER_EXPECT_FINISHED"]
      BY <2>1 DEF server_handle_end_of_early_data, ServerTakes
    <3>2. state["server"] = "SERVER_EXPECT_END_OF_EARLY_DATA" /\ First("server").msg.type = "EOED"
      BY <3>1, ServerExpects
    <3>3. dec["server"].aead /\ dec["server"].seq = earlyGot /\ earlyGot \in Nat
      BY <1>2, <3>2 DEF EarlyInv, ServerEarlyInv, TypeInv
    <3>4. First("server").seq = earlyGot
      BY <3>1, <3>3 DEF Accepts, Opens
    <3>5. state["client"] = "CLIENT_POST_HANDSHAKE" /\ First("server").seq \in {earlySent, -1}
      BY <1>2, <3>2 DEF EarlyInv, EndInv
    <3>6. earlyGot = earlySent
      BY <3>3, <3>4, <3>5
    <3>7. state'["server"] = "SERVER_EXPECT_FINISHED"
      BY <1>2, <3>1, Sides DEF TypeInv
    <3>. QED  BY <1>1, <1>6, <3>5, <3>6, <3>7 DEF ServerEarly
  <2>2. CASE server_handle_certificate \/ server_handle_certificate_verify
    <3>1. state["server"] \in {"SERVER_EXPECT_CERTIFICATE", "SERVER_EXPECT_CERTIFICATE_VERIFY"}
      BY <2>2, ServerExpects DEF server_handle_certificate, server_handle_certificate_verify
    <3>. QED  BY <3>1 DEF ServerEarly
  <2>3. CASE server_handle_finished
    <3>1. /\ ServerTakes("FIN") /\ state' = [state EXCEPT !["server"] = "SERVER_POST_HANDSHAKE"]
      BY <2>3 DEF server_handle_finished
    <3>2. state["server"] = "SERVER_EXPECT_FINISHED" /\ state'["server"] = "SERVER_POST_HANDSHAKE"
      BY <1>2, <3>1, Sides, ServerExpects DEF TypeInv
    <3>. QED  BY <1>1, <1>6, <3>2 DEF ServerEarly
  <2>. QED  BY <2>1, <2>2, <2>3
<1>8. AnnouncedInv'
  <2>1. ClientKeepsEarly => ClientKeepsEarly'
    <3>1. RetrySent' => RetrySent
      BY <1>4 DEF RetrySent
    <3>. QED  BY <1>1, <1>4, <1>6, <3>1 DEF ClientKeepsEarly
  <2>2. state'["server"] # "SERVER_EXPECT_END_OF_EARLY_DATA"
    BY <1>6
  <2>. QED  BY <1>1, <1>4, <1>7, <2>1, <2>2 DEF EarlyInv, AnnouncedInv
<1>9. ServerEarlyInv'
  BY <1>6 DEF ServerEarlyInv, ServerHellos
<1>. QED  BY <1>1, <1>3, <1>6, <1>8, <1>9, ServerMovesEarly

-----------------------------------------------------------------------------
LEMMA EarlyInit == Init => EarlyInv
<1>. SUFFICES ASSUME Init PROVE EarlyInv
  OBVIOUS
<1>1. /\ state["client"] = "CLIENT_HANDSHAKE_START" /\ state["server"] = "SERVER_EXPECT_CLIENT_HELLO"
      /\ \A s \in Side : sendbuf[s] = <<>> /\ wire[s] = <<>>
      /\ ~using_early_data /\ early_data_acceptance = "UNKNOWN" /\ earlySent = 0 /\ earlyGot = 0
  BY Sides DEF Init
<1>2. InFlight("client") = {} /\ InFlight("server") = {}
  BY <1>1, Sides, ElemsOf DEF InFlight
<1>3. Len(wire["client"]) = 0 /\ Len(sendbuf["client"]) = 0
  BY <1>1, Sides
<1>4. HelloFirst
  BY <1>3 DEF HelloFirst
<1>5. OfferInv /\ AnnouncedInv /\ EndInv
  BY <1>1, <1>2 DEF OfferInv, EarlyHello, AnnouncedInv, EndInv
<1>6. ClientEarlyInv /\ ServerEarlyInv
  BY <1>1 DEF ClientEarlyInv, ServerEarlyInv, ClientHellos, ClientFlight
<1>. QED  BY <1>4, <1>5, <1>6 DEF EarlyInv

LEMMA EarlyNext == LocalInv /\ AgreementInv /\ EarlyInv /\ [Next]_vars => EarlyInv'
<1>. SUFFICES ASSUME LocalInv, AgreementInv, EarlyInv, [Next]_vars PROVE EarlyInv'
  OBVIOUS
<1>0. HelloFirst
  BY DEF EarlyInv
<1>1. CASE ClientSteps
  BY <1>0, <1>1, SendClientHelloEarly, HrrEarly, ClientHandleHelloEarly, ClientReadsEarly,
     ClientFinishedEarly, TicketEarly, FailsEarly, QuietEarly DEF ClientSteps
<1>2. CASE ServerSteps
  BY <1>0, <1>2, FailsEarly, SkipEarly, StatelessRetryEarly, QuietEarly, ServerRetryEarly,
     ServerHelloEarly, ServerReadsEarly DEF ServerSteps
<1>3. CASE \E s \in Side : CommonSteps(s) \/ ptls_send(s) \/ Alter(s)
  BY <1>0, <1>3, CommonEarly, SendsEarly, AlterEarly, QuietEarly
<1>4. CASE SendEarlyData
  BY <1>4, SendsEarly, QuietEarly
<1>5. CASE UNCHANGED vars
  BY <1>0, <1>5, StutterEarly, QuietEarly
<1>. QED  BY <1>1, <1>2, <1>3, <1>4, <1>5 DEF Next

(* What the offer of early data, the server's answer and the sequence       *)
(* numbers of the early key say of each other survives every step of the    *)
(* two endpoints and of the network.                                        *)
THEOREM EarlyHolds == Safety => []EarlyInv
<1>1. Init => LocalInv /\ TrustInv /\ AgreementInv /\ EarlyInv
  BY LocalInit, TrustInit, AgreementInit, EarlyInit
<1>2. LocalInv /\ TrustInv /\ AgreementInv /\ EarlyInv /\ [Next]_vars =>
        (LocalInv /\ TrustInv /\ AgreementInv /\ EarlyInv)'
  BY LocalNext, TrustNext, AgreementNext, EarlyNext
<1>. QED  BY <1>1, <1>2, PTL DEF Safety

(* A client that reads PTLS_EARLY_DATA_REJECTED had none of its early data  *)
(* delivered, and one that reads PTLS_EARLY_DATA_ACCEPTED had all of it     *)
(* delivered by the time the server completes: for all configurations, any  *)
(* number of early records, retries and any interleaving with the           *)
(* handshake, and whatever is altered on the way.                           *)
THEOREM EarlyDataTold == Spec => []EarlyDataOutcome
<1>1. LocalInv /\ EarlyInv => EarlyDataOutcome
  <2>1. SUFFICES ASSUME LocalInv, EarlyInv PROVE EarlyDataOutcome
    OBVIOUS
  <2>2. early_data_acceptance = "REJECTED" => earlyGot = 0
    BY <2>1 DEF EarlyInv, AnnouncedInv, ClientKeepsEarly, LocalInv, TypeInv
  <2>3. early_data_acceptance = "ACCEPTED" /\ Complete("server") => earlyGot = earlySent
    BY <2>1 DEF EarlyInv, AnnouncedInv, ServerEarly, Complete, PostHandshake
  <2>. QED  BY <2>2, <2>3 DEF EarlyDataOutcome
<1>. QED  BY <1>1, LocalHolds, EarlyHolds, PTL DEF Spec

-----------------------------------------------------------------------------
(***************************************************************************)
(* The ticket.  A server that does not ask for a certificate can predict   *)
(* the client's flight: EndOfEarlyData if it takes early data, Finished.   *)
(***************************************************************************)
NotAsked == ~certificate_request /\ \A r \in InFlight("server") : r.msg.type # "CR"

(* What the client has hashed at the end of its handshake.                  *)
OwnHashInv ==
    state["client"] = "CLIENT_POST_HANDSHAKE" =>
        transcript["client"] = Predicted(ClientThrough, early_data_acceptance = "ACCEPTED")

(* The client neither has been nor will be told that the server takes its   *)
(* early data.                                                              *)
ClientGivesUpEarly ==
    /\ early_data_acceptance # "ACCEPTED"
    /\ \A r \in InFlight("server") : r.msg.type = "EE" => "early_data" \notin r.msg.has

Foreseen(early) == ResumptionSecret(sched["server"], Predicted(ServerThrough, early))

(* The PSK in a ticket on its way is the one the server foresees.           *)
NewTicketInv ==
    \A r \in InFlight("server") : r.msg.type = "NST" =>
        \/ r.msg.mac = Foreseen(TRUE) /\ ClientKeepsEarly
        \/ r.msg.mac = Foreseen(FALSE) /\ ClientGivesUpEarly

TicketInv ==
    ~cfg.require_client_authentication =>
        NotAsked /\ OwnHashInv /\ NewTicketInv /\ TicketAgreement

LEMMA NewTicketKept ==
  ASSUME NewTicketInv, AgreementInv,
         \A r \in InFlight("server")' :
           \/ \E q \in InFlight("server") :
                q.msg.type = r.msg.type /\ q.msg.has = r.msg.has /\ q.msg.mac = r.msg.mac
           \/ r.msg.type \notin {"EE", "NST"},
         state["server"] \notin ServerHellos =>
           /\ sched'["server"] = sched["server"]
           /\ enc'["server"].secret = enc["server"].secret
           /\ ClientKeepsEarly => ClientKeepsEarly'
           /\ ClientGivesUpEarly => early_data_acceptance' # "ACCEPTED"
  PROVE  NewTicketInv'
<1>1. SUFFICES ASSUME NEW r \in InFlight("server")', r.msg.type = "NST"
               PROVE  \/ r.msg.mac = Foreseen(TRUE)' /\ ClientKeepsEarly'
                      \/ r.msg.mac = Foreseen(FALSE)' /\ ClientGivesUpEarly'
  BY DEF NewTicketInv
<1>2. PICK q \in InFlight("server") : q.msg.type = "NST" /\ q.msg.mac = r.msg.mac
  BY <1>1
<1>3. state["server"] \notin ServerHellos
  BY <1>2 DEF AgreementInv, ServerFlightInv
<1>4. Foreseen(TRUE)' = Foreseen(TRUE) /\ Foreseen(FALSE)' = Foreseen(FALSE)
  BY <1>3 DEF Foreseen, ServerThrough
<1>5. \/ q.msg.mac = Foreseen(TRUE) /\ ClientKeepsEarly
      \/ q.msg.mac = Foreseen(FALSE) /\ ClientGivesUpEarly
  BY <1>2 DEF NewTicketInv
<1>6. ClientGivesUpEarly => ClientGivesUpEarly'
  BY <1>3 DEF ClientGivesUpEarly
<1>. QED  BY <1>2, <1>3, <1>4, <1>5, <1>6

(* A step in which no endpoint changes its state, and no ticket is read.    *)
LEMMA QuietFlight ==
  ASSUME QuietStep, AgreementInv, NewTicketInv
  PROVE  /\ NewTicketInv'
         /\ \A r \in InFlight("server")' :
              (\A q \in InFlight("server") : q.msg.type # "CR") => r.msg.type # "CR"
<1>1. \A r \in InFlight("server")' :
        (\E q \in InFlight("server") : Same(r, q)) \/ Fresh("server", r)
  BY Sides DEF QuietStep
<1>2. /\ state' = state /\ early_data_acceptance' = early_data_acceptance /\ sched' = sched
      /\ state["server"] \notin ServerHellos => enc'["server"].secret = enc["server"].secret
  BY Sides DEF QuietStep
<1>3. \A r \in InFlight("server")' :
        \/ \E q \in InFlight("server") :
             q.msg.type = r.msg.type /\ q.msg.has = r.msg.has /\ q.msg.mac = r.msg.mac
        \/ r.msg.type \notin {"EE", "NST", "CR"}
  BY <1>1 DEF Same, Fresh
<1>4. state["server"] \notin ServerHellos /\ ClientKeepsEarly => ClientKeepsEarly'
  <2>1. SUFFICES ASSUME state["server"] \notin ServerHellos, ClientKeepsEarly
                 PROVE  ClientKeepsEarly'
    OBVIOUS
  <2>2. \A r \in InFlight("server")' : r.msg.type = "HRR" => RetrySent
    <3>1. SUFFICES ASSUME NEW r \in InFlight("server")', r.msg.type = "HRR" PROVE RetrySent
      OBVIOUS
    <3>2. PICK q \in InFlight("server") : Same(r, q)
      BY <1>1, <2>1, <3>1 DEF Fresh, ServerHellos
    <3>. QED  BY <3>1, <3>2 DEF Same, RetrySent
  <2>3. RetrySent' => RetrySent
    BY <2>2 DEF RetrySent
  <2>4. \A r \in InFlight("server")' : r.msg.type = "EE" => "early_data" \in r.msg.has
    BY <1>3, <2>1 DEF ClientKeepsEarly
  <2>. QED  BY <1>2, <2>1, <2>3, <2>4 DEF ClientKeepsEarly
<1>5. NewTicketInv'
  BY <1>2, <1>3, <1>4, NewTicketKept DEF ClientGivesUpEarly
<1>. QED  BY <1>3, <1>5

LEMMA QuietOwn ==
  ASSUME QuietStep, AgreementInv, TicketInv,
         ~cfg.require_client_authentication => TicketAgreement'
  PROVE  TicketInv'
<1>1. SUFFICES ASSUME ~cfg.require_client_authentication
               PROVE  NotAsked' /\ OwnHashInv' /\ NewTicketInv'
  BY DEF TicketInv, QuietStep
<1>2. NotAsked /\ OwnHashInv /\ NewTicketInv
  BY <1>1 DEF TicketInv
<1>3. NewTicketInv' /\ NotAsked'
  BY <1>2, QuietFlight DEF NotAsked, QuietStep
<1>4. OwnHashInv'
  BY <1>2, Sides DEF OwnHashInv, ClientThrough, QuietStep
<1>. QED  BY <1>3, <1>4

LEMMA QuietTicket ==
  ASSUME QuietStep, AgreementInv, TicketInv, saved' = saved
  PROVE  TicketInv'
BY QuietOwn DEF TicketInv, TicketAgreement

LEMMA NewSessionTicketTicket ==
  ASSUME LocalInv, AgreementInv, EarlyInv, TicketInv, client_handle_new_session_ticket
  PROVE  TicketInv'
<1>1. ClientTakes("NST") /\ Consume("client") /\ QuietStep
  BY NewSessionTicketQuiet DEF client_handle_new_session_ticket
<1>2. /\ state["client"] = "CLIENT_POST_HANDSHAKE" /\ First("client") \in InFlight("server")
      /\ First("client").msg.type = "NST" /\ state["server"] \notin ServerHellos
  <2>1. /\ TypeInv /\ wire["server"] # <<>> /\ First("client").msg.type = "NST"
        /\ state["client"] = "CLIENT_POST_HANDSHAKE"
    BY <1>1, ClientExpects DEF LocalInv
  <2>2. First("client") \in InFlight("server")
    BY <1>1, <2>1, Sides, ReadFlight
  <2>. QED  BY <2>1, <2>2 DEF AgreementInv, ServerFlightInv
<1>3. /\ dec["client"].secret = enc["server"].secret
      /\ dec["client"].secret.ikm = sched["client"]
      /\ enc["server"].secret = Secret("s_ap_traffic", sched["server"], ServerThrough)
  BY <1>2 DEF AgreementInv, ClientHashInv, ServerHashInv
<1>4. sched["client"] = sched["server"] /\ ClientThrough = ServerThrough
  <2>1. enc["server"].secret.ikm = sched["server"]
    BY <1>3 DEF Secret
  <2>. QED  BY <1>3, <2>1 DEF ClientThrough, ServerThrough
<1>5. ASSUME ~cfg.require_client_authentication
      PROVE  First("client").msg.mac = ResumptionSecret(sched["client"], transcript["client"])
  <2>1. transcript["client"] = Predicted(ClientThrough, early_data_acceptance = "ACCEPTED")
    BY <1>2, <1>5 DEF TicketInv, OwnHashInv
  <2>2. early_data_acceptance # "UNKNOWN"
    BY <1>2 DEF EarlyInv, ClientEarlyInv
  <2>3. early_data_acceptance \in {"UNKNOWN", "REJECTED", "ACCEPTED"}
    BY DEF LocalInv, TypeInv
  <2>4. \/ First("client").msg.mac = Foreseen(TRUE) /\ early_data_acceptance = "ACCEPTED"
        \/ First("client").msg.mac = Foreseen(FALSE) /\ early_data_acceptance # "ACCEPTED"
    BY <1>2, <1>5, <2>2, <2>3 DEF TicketInv, NewTicketInv, ClientKeepsEarly, ClientGivesUpEarly
  <2>5. CASE early_data_acceptance = "ACCEPTED"
    <3>1. (early_data_acceptance = "ACCEPTED") = TRUE
      BY <2>5
    <3>. QED  BY <1>4, <2>1, <2>4, <2>5, <3>1 DEF Foreseen
  <2>6. CASE early_data_acceptance # "ACCEPTED"
    <3>1. (early_data_acceptance = "ACCEPTED") = FALSE
      BY <2>6
    <3>. QED  BY <1>4, <2>1, <2>4, <2>6, <3>1 DEF Foreseen
  <2>. QED  BY <2>5, <2>6
<1>6. saved' = saved \/ saved' = <<First("client").msg.mac,
                                   ResumptionSecret(sched["client"], transcript["client"])>>
  BY DEF client_handle_new_session_ticket
<1>7. ~cfg.require_client_authentication => TicketAgreement'
  BY <1>5, <1>6 DEF TicketAgreement, TicketInv
<1>. QED  BY <1>1, <1>7, QuietOwn

-----------------------------------------------------------------------------
(* An endpoint that moves on, other than to the end of its flight.          *)
LEMMA MoveTicket ==
  ASSUME AgreementInv, TicketInv, cfg' = cfg, saved' = saved,
         \A r \in InFlight("server")' :
           r \in InFlight("server") \/ r.msg.type \notin {"EE", "NST", "CR"},
         NotAsked => ~certificate_request',
         state'["client"] = "CLIENT_POST_HANDSHAKE" =>
           /\ state["client"] = "CLIENT_POST_HANDSHAKE"
           /\ transcript'["client"] = transcript["client"]
           /\ dec'["client"].secret = dec["client"].secret
           /\ early_data_acceptance' = early_data_acceptance,
         state["server"] \notin ServerHellos =>
           /\ sched'["server"] = sched["server"]
           /\ enc'["server"].secret = enc["server"].secret
           /\ ClientKeepsEarly => ClientKeepsEarly'
           /\ ClientGivesUpEarly => early_data_acceptance' # "ACCEPTED"
  PROVE  TicketInv'
<1>1. SUFFICES ASSUME ~cfg.require_client_authentication
               PROVE  NotAsked' /\ OwnHashInv' /\ NewTicketInv' /\ TicketAgreement'
  BY DEF TicketInv
<1>2. NotAsked /\ OwnHashInv /\ NewTicketInv /\ TicketAgreement
  BY <1>1 DEF TicketInv
<1>3. NotAsked'
  BY <1>2 DEF NotAsked
<1>4. OwnHashInv'
  BY <1>2 DEF OwnHashInv, ClientThrough
<1>5. NewTicketInv'
  BY <1>2, NewTicketKept
<1>. QED  BY <1>2, <1>3, <1>4, <1>5 DEF TicketAgreement

LEMMA ClientMovesTicket ==
  ASSUME LocalInv, AgreementInv, EarlyInv, TicketInv,
         \/ send_client_hello \/ handle_hello_retry_request \/ client_handle_hello
         \/ client_handle_encrypted_extensions \/ client_handle_certificate_request
         \/ client_handle_certificate \/ client_handle_certificate_verify
  PROVE  TicketInv'
<1>. DEFINE m == First("client").msg
<1>1. PICK next \in ClientHellos \cup ClientFlight : state' = [state EXCEPT !["client"] = next]
  BY DEF send_client_hello, handle_hello_retry_request, client_handle_hello,
         client_handle_encrypted_extensions, client_handle_certificate_request,
         client_handle_certificate, client_handle_certificate_verify, ClientStep,
         ClientHellos, ClientFlight
<1>2. /\ TypeInv /\ state'["client"] = next /\ next # "CLIENT_POST_HANDSHAKE"
      /\ next = "CLIENT_EXPECT_SERVER_HELLO" \/ next \in ClientFlight
           \/ next = "CLIENT_EXPECT_SECOND_SERVER_HELLO"
  BY <1>1, Sides DEF LocalInv, TypeInv, ClientHellos, ClientFlight
<1>3. cfg' = cfg /\ saved' = saved
  BY DEF send_client_hello, handle_hello_retry_request, client_handle_hello,
         client_handle_encrypted_extensions, client_handle_certificate_request,
         client_handle_certificate, client_handle_certificate_verify, ClientStep, appVars
<1>4. sched'["server"] = sched["server"] /\ enc'["server"] = enc["server"]
  <2>1. CASE send_client_hello
    BY <1>2, <2>1, Sides DEF send_client_hello, TypeInv
  <2>2. CASE handle_hello_retry_request
    BY <1>2, <2>2, Sides DEF handle_hello_retry_request, TypeInv
  <2>3. CASE client_handle_hello
    BY <1>2, <2>3, Sides DEF client_handle_hello, TypeInv
  <2>4. CASE client_handle_encrypted_extensions
    BY <1>2, <2>4, Sides DEF client_handle_encrypted_extensions, ClientStep, TypeInv
  <2>5. CASE client_handle_certificate_request \/ client_handle_certificate
    BY <1>2, <2>5, Sides
       DEF client_handle_certificate_request, client_handle_certificate, ClientStep, TypeInv
  <2>6. CASE client_handle_certificate_verify
    BY <1>2, <2>6, Sides DEF client_handle_certificate_verify, ClientStep, TypeInv
  <2>. QED  BY <2>1, <2>2, <2>3, <2>4, <2>5, <2>6
<1>5. \A r \in InFlight("server")' : r \in InFlight("server")
  <2>1. CASE send_client_hello
    BY <2>1, SendClientHelloFlight
  <2>2. CASE handle_hello_retry_request
    BY <2>2, Sides, HrrFlight
  <2>3. CASE ~send_client_hello /\ ~handle_hello_retry_request
    <3>1. PICK type : ClientTakes(type)
      BY <2>3 DEF client_handle_hello,
         client_handle_encrypted_extensions, client_handle_certificate_request,
         client_handle_certificate, client_handle_certificate_verify
    <3>2. Consume("client") /\ sendbuf' = sendbuf
      BY <2>3 DEF client_handle_hello,
         client_handle_encrypted_extensions, client_handle_certificate_request,
         client_handle_certificate, client_handle_certificate_verify, ClientStep
    <3>. QED  BY <1>2, <3>1, <3>2, Sides, ClientExpects, ReadQuiet
  <2>. QED  BY <2>1, <2>2, <2>3
<1>6. RetrySent' => RetrySent
  BY <1>5 DEF RetrySent
<1>. DEFINE Keeps ==
       /\ NotAsked => ~certificate_request'
       /\ ClientKeepsEarly /\ state["server"] \notin ServerHellos =>
            early_data_acceptance' # "REJECTED" /\ next # "CLIENT_EXPECT_SECOND_SERVER_HELLO"
       /\ ClientGivesUpEarly => early_data_acceptance' # "ACCEPTED"
<1>7. Keeps
  <2>1. CASE send_client_hello
    <3>1. /\ state["client"] = "CLIENT_HANDSHAKE_START"
          /\ certificate_request' = certificate_request
          /\ early_data_acceptance' # "ACCEPTED"
      BY <2>1 DEF send_client_hello
    <3>2. state["server"] \in ServerHellos
      BY <3>1 DEF LocalInv, QuietInv, ServerHellos
    <3>. QED  BY <3>1, <3>2 DEF NotAsked
  <2>2. CASE handle_hello_retry_request
    <3>1. /\ ClientTakes("HRR") /\ Consume("client") /\ early_data_acceptance' = "REJECTED"
          /\ certificate_request' = certificate_request
      BY <2>2 DEF handle_hello_retry_request
    <3>2. RetrySent
      BY <1>2, <3>1, Sides, ClientExpects, ReadFlight DEF RetrySent
    <3>. QED  BY <3>1, <3>2 DEF NotAsked, ClientKeepsEarly
  <2>3. CASE client_handle_hello
    <3>1. /\ early_data_acceptance' = early_data_acceptance
          /\ certificate_request' = certificate_request
          /\ state' = [state EXCEPT !["client"] = "CLIENT_EXPECT_ENCRYPTED_EXTENSIONS"]
      BY <2>3 DEF client_handle_hello, clientVars
    <3>2. next = "CLIENT_EXPECT_ENCRYPTED_EXTENSIONS"
      BY <1>2, <3>1, Sides DEF TypeInv
    <3>. QED  BY <3>1, <3>2 DEF NotAsked, ClientKeepsEarly, ClientGivesUpEarly
  <2>4. CASE client_handle_encrypted_extensions
    <3>1. ClientTakes("EE") /\ Consume("client")
      BY <2>4 DEF client_handle_encrypted_extensions, ClientStep
    <3>2. /\ First("client") \in InFlight("server") /\ m.type = "EE"
      BY <1>2, <3>1, Sides, ClientExpects, ReadFlight
    <3>3. /\ "early_data" \in m.has => using_early_data
          /\ early_data_acceptance' = IF ~using_early_data THEN early_data_acceptance
                                      ELSE IF "early_data" \in m.has THEN "ACCEPTED" ELSE "REJECTED"
          /\ certificate_request' = certificate_request
      BY <2>4 DEF client_handle_encrypted_extensions
    <3>4. next # "CLIENT_EXPECT_SECOND_SERVER_HELLO"
      <4>1. state' = [state EXCEPT !["client"] =
                        IF is_psk_handshake["client"] THEN "CLIENT_EXPECT_FINISHED"
                        ELSE "CLIENT_EXPECT_CERTIFICATE_REQUEST_OR_CERTIFICATE"]
        BY <2>4 DEF client_handle_encrypted_extensions, ClientStep
      <4>. QED  BY <1>2, <4>1, Sides DEF TypeInv
    <3>5. /\ ClientKeepsEarly => "early_data" \in m.has
          /\ ClientGivesUpEarly => "early_data" \notin m.has /\ early_data_acceptance # "ACCEPTED"
      BY <3>2 DEF ClientKeepsEarly, ClientGivesUpEarly
    <3>. QED  BY <3>3, <3>4, <3>5 DEF NotAsked
  <2>5. CASE client_handle_certificate_request \/ client_handle_certificate
               \/ client_handle_certificate_verify
    <3>1. early_data_acceptance' = early_data_acceptance
      BY <2>5 DEF client_handle_certificate_request, client_handle_certificate,
                  client_handle_certificate_verify
    <3>2. next # "CLIENT_EXPECT_SECOND_SERVER_HELLO"
      <4>1. \E n \in ClientFlight : state' = [state EXCEPT !["client"] = n]
        BY <2>5 DEF client_handle_certificate_request, client_handle_certificate,
                    client_handle_certificate_verify, ClientStep, ClientFlight
      <4>. QED  BY <1>2, <4>1, Sides DEF TypeInv, ClientFlight
    <3>3. NotAsked => ~certificate_request'
      <4>1. CASE client_handle_certificate_request
        <5>1. ClientTakes("CR") /\ Consume("client")
          BY <4>1 DEF client_handle_certificate_request, ClientStep
        <5>2. First("client") \in InFlight("server") /\ m.type = "CR"
          BY <1>2, <5>1, Sides, ClientExpects, ReadFlight
        <5>. QED  BY <5>2 DEF NotAsked
      <4>2. CASE client_handle_certificate \/ client_handle_certificate_verify
        BY <4>2 DEF client_handle_certificate, client_handle_certificate_verify, NotAsked
      <4>. QED  BY <2>5, <4>1, <4>2
    <3>. QED  BY <3>1, <3>2, <3>3 DEF ClientKeepsEarly, ClientGivesUpEarly
  <2>. QED  BY <2>1, <2>2, <2>3, <2>4, <2>5
<1>8. ClientKeepsEarly /\ state["server"] \notin ServerHellos => ClientKeepsEarly'
  BY <1>2, <1>5, <1>6, <1>7 DEF ClientKeepsEarly
<1>. HIDE DEF m
<1>. QED  BY <1>2, <1>3, <1>4, <1>5, <1>7, <1>8, MoveTicket

(* The client's flight adds what the server predicts.                       *)
LEMMA PredictedIs ==
  ASSUME NEW th \in Seq(Views), NEW b \in BOOLEAN
  PROVE  Append(Hash(Hash(th, When(b, Plain("EOED", {}))), <<>>), FinView) = Predicted(th, b)
<1>. DEFINE eoed == Plain("EOED", {})
            fin == Plain("FIN", {})
<1>1. eoed \in Messages /\ fin \in Messages /\ View(fin) = FinView
  <2>1. "EOED" \in Names /\ "FIN" \in Names /\ {} \in SUBSET Names
    BY NamesAre
  <2>2. View(fin) = FinView
    BY DEF View, FinView, Plain, Message
  <2>. QED  BY <2>1, <2>2, MessageTypes
<1>2. View(eoed) \in Views /\ FinView \in Views
  BY <1>1, MessageTypes
<1>3. Predicted(th, b) = Hash(th, When(b, eoed) \o <<fin>>)
  BY DEF Predicted
<1>. HIDE DEF eoed, fin
<1>4. \A t \in Seq(Views) : Hash(t, <<>>) = t
  <2>1. SUFFICES ASSUME NEW t \in Seq(Views) PROVE Hash(t, <<>>) = t
    OBVIOUS
  <2>. DEFINE empty == <<>>
              h == Hash(t, empty)
  <2>2. empty \in Seq(Messages) /\ Len(empty) = 0 /\ Len(t) \in Nat
    OBVIOUS
  <2>. HIDE DEF empty
  <2>3. /\ h \in Seq(Views) /\ Len(h) = Len(t) + Len(empty)
        /\ \A i \in 1..Len(t) : h[i] = t[i]
    BY <2>2, HashType
  <2>. HIDE DEF h
  <2>4. Len(h) = Len(t)
    BY <2>2, <2>3
  <2>5. h = t
    BY <2>3, <2>4
  <2>. QED  BY <2>5 DEF h, empty
<1>5. CASE b
  <2>1. When(b, eoed) = <<eoed>>
    BY <1>1, <1>5, WhenType
  <2>2. Hash(th, <<eoed>>) = Append(th, View(eoed))
    BY <1>1, HashOne
  <2>. DEFINE two == <<eoed>> \o <<fin>>
  <2>3. two \in Seq(Messages) /\ Len(two) = 2 /\ two[1] = eoed /\ two[2] = fin
    <3>1. <<eoed>> \in Seq(Messages) /\ <<fin>> \in Seq(Messages)
      BY <1>1
    <3>. QED  BY <3>1
  <2>. HIDE DEF two
  <2>4. /\ Hash(th, two) \in Seq(Views) /\ Len(Hash(th, two)) = Len(th) + 2
        /\ \A i \in 1..Len(th) : Hash(th, two)[i] = th[i]
        /\ Hash(th, two)[Len(th) + 1] = View(eoed) /\ Hash(th, two)[Len(th) + 2] = FinView
    <3>1. /\ Hash(th, two) \in Seq(Views) /\ Len(Hash(th, two)) = Len(th) + Len(two)
          /\ \A i \in 1..Len(th) : Hash(th, two)[i] = th[i]
          /\ \A i \in 1..Len(two) : Hash(th, two)[Len(th) + i] = View(two[i])
      BY <2>3, HashType
    <3>. QED  BY <1>1, <2>3, <3>1
  <2>. DEFINE p == Append(Append(th, View(eoed)), FinView)
              v == View(eoed)
  <2>5. /\ p \in Seq(Views) /\ Len(p) = Len(th) + 2
        /\ \A i \in 1..Len(th) : p[i] = th[i]
        /\ p[Len(th) + 1] = View(eoed) /\ p[Len(th) + 2] = FinView
    <3>1. v \in Views
      BY <1>2
    <3>. HIDE DEF v
    <3>2. /\ Append(Append(th, v), FinView) \in Seq(Views)
          /\ Len(Append(Append(th, v), FinView)) = Len(th) + 2
          /\ \A i \in 1..Len(th) : Append(Append(th, v), FinView)[i] = th[i]
          /\ Append(Append(th, v), FinView)[Len(th) + 1] = v
          /\ Append(Append(th, v), FinView)[Len(th) + 2] = FinView
      BY <1>2, <3>1
    <3>. QED  BY <3>2 DEF v
  <2>. HIDE DEF p, Hash
  <2>6. p = Hash(th, two)
    BY <2>4, <2>5
  <2>7. Append(th, View(eoed)) \in Seq(Views)
    BY <1>2
  <2>. QED  BY <1>3, <1>4, <2>1, <2>2, <2>6, <2>7 DEF p, eoed, two
<1>6. CASE ~b
  <2>1. When(b, eoed) = <<>>
    BY <1>1, <1>6, WhenType
  <2>2. <<>> \o <<fin>> = <<fin>>
    BY <1>1
  <2>3. Hash(th, <<fin>>) = Append(th, FinView)
    BY <1>1, HashOne
  <2>. QED  BY <1>3, <1>4, <2>1, <2>2, <2>3 DEF eoed
<1>. QED  BY <1>5, <1>6 DEF eoed

LEMMA ClientFinishedTicket ==
  ASSUME LocalInv, AgreementInv, EarlyInv, TicketInv, client_handle_finished
  PROVE  TicketInv'
<1>1. /\ ClientTakes("FIN") /\ cfg' = cfg /\ saved' = saved /\ certificate_request' = FALSE
      /\ dec' = [dec EXCEPT !["client"] = Key(Secret("s_ap_traffic", FinSched, FinTh1))]
      /\ enc' = [enc EXCEPT !["client"] = Key(Secret("c_ap_traffic", FinSched, FinTh1))]
      /\ sched' = [sched EXCEPT !["client"] = FinSched]
      /\ transcript' = [transcript EXCEPT !["client"] = Append(FinTh3, View(FinMsg))]
      /\ state' = [state EXCEPT !["client"] = "CLIENT_POST_HANDSHAKE"]
      /\ early_data_acceptance' = early_data_acceptance
  BY ClientFinished
<1>2. /\ TypeInv /\ state["client"] = "CLIENT_EXPECT_FINISHED" /\ wire["server"] # <<>>
  BY <1>1, ClientExpects DEF LocalInv
<1>3. SUFFICES ASSUME ~cfg.require_client_authentication
               PROVE  NotAsked' /\ OwnHashInv' /\ NewTicketInv' /\ TicketAgreement'
  BY <1>1 DEF TicketInv
<1>4. NotAsked /\ NewTicketInv /\ TicketAgreement
  BY <1>3 DEF TicketInv
<1>5. \A r \in InFlight("server")' : r \in InFlight("server")
  BY Sides, ClientFinishedFlight
<1>6. NotAsked' /\ TicketAgreement'
  BY <1>1, <1>4, <1>5 DEF NotAsked, TicketAgreement
<1>7. FinEarly <=> early_data_acceptance = "ACCEPTED"
  <2>1. /\ early_data_acceptance \in {"UNKNOWN", "REJECTED", "ACCEPTED"}
        /\ using_early_data <=> early_data_acceptance # "REJECTED"
        /\ using_early_data => pending_handshake_secret["client"] # NoSecret
        /\ early_data_acceptance # "UNKNOWN"
    BY <1>2 DEF EarlyInv, ClientEarlyInv, ClientFlight, TypeInv
  <2>. QED  BY <2>1 DEF FinEarly
<1>8. OwnHashInv'
  <2>1. /\ FinTh1 \in Seq(Views) /\ FinEarly \in BOOLEAN /\ FinKey \in Keys
        /\ FinTh3 \in Seq(Views)
    BY <1>2, ClientFinishedTypes
  <2>2. View(FinMsg) = FinView
    <3>1. FinKey.secret \in Secrets
      BY <2>1 DEF Keys
    <3>. QED  BY <2>1, <3>1, FinishedType DEF FinMsg
  <2>3. FinTh3 = Hash(Hash(FinTh1, When(FinEarly, Plain("EOED", {}))), <<>>)
    BY <1>4 DEF FinTh3, FinTh2, FinEoed, FinCerts, NotAsked
  <2>4. transcript'["client"] = Append(FinTh3, FinView)
    BY <1>1, <1>2, <2>2, Sides DEF TypeInv
  <2>5. Append(FinTh3, FinView) = Predicted(FinTh1, FinEarly)
    BY <2>1, <2>3, PredictedIs
  <2>6. dec'["client"].secret.th = FinTh1
    <3>1. dec'["client"] = Key(Secret("s_ap_traffic", FinSched, FinTh1))
      BY <1>1, <1>2, Sides DEF TypeInv
    <3>. QED  BY <3>1 DEF Key, Secret
  <2>7. FinEarly = (early_data_acceptance' = "ACCEPTED")
    BY <1>1, <1>7, <2>1
  <2>8. transcript'["client"] =
          Predicted(dec'["client"].secret.th, early_data_acceptance' = "ACCEPTED")
    BY <2>4, <2>5, <2>6, <2>7
  <2>. QED  BY <2>8 DEF OwnHashInv, ClientThrough
<1>9. /\ state'["client"] = "CLIENT_POST_HANDSHAKE"
      /\ sched'["server"] = sched["server"] /\ enc'["server"] = enc["server"]
  BY <1>1, <1>2, Sides DEF TypeInv
<1>10. ClientKeepsEarly => ClientKeepsEarly'
  <2>1. RetrySent' => RetrySent
    BY <1>5 DEF RetrySent
  <2>. QED  BY <1>1, <1>5, <1>9, <2>1 DEF ClientKeepsEarly
<1>11. NewTicketInv'
  BY <1>1, <1>4, <1>5, <1>9, <1>10, NewTicketKept DEF ClientGivesUpEarly
<1>. QED  BY <1>6, <1>8, <1>11

LEMMA ServerRetryTicket ==
  ASSUME LocalInv, AgreementInv, TicketInv, ServerRetry
  PROVE  TicketInv'
<1>1. /\ ServerTakes("CH") /\ cfg' = cfg /\ saved' = saved /\ dec' = dec
      /\ certificate_request' = certificate_request
      /\ early_data_acceptance' = early_data_acceptance
      /\ state' = [state EXCEPT !["server"] = "SERVER_EXPECT_SECOND_CLIENT_HELLO"]
  BY DEF ServerRetry, keys, clientVars, appVars
<1>2. TypeInv /\ state["server"] \in ServerHellos
  BY <1>1, ServerExpects DEF LocalInv
<1>3. state'["client"] = state["client"] /\ transcript'["client"] = transcript["client"]
  BY <1>1, <1>2, Sides DEF ServerRetry, TypeInv
<1>4. \A r \in InFlight("server")' : r \in InFlight("server") \/ r.msg.type \in {"HRR", "CCS"}
  BY Sides, ServerRetryFlight
<1>. QED  BY <1>1, <1>2, <1>3, <1>4, MoveTicket DEF NotAsked

LEMMA ServerReadsTicket ==
  ASSUME LocalInv, AgreementInv, TicketInv,
         \/ server_handle_end_of_early_data \/ server_handle_certificate
         \/ server_handle_certificate_verify \/ server_handle_finished
  PROVE  TicketInv'
<1>1. PICK type \in {"EOED", "CERT", "CV", "FIN"} :
         /\ ServerTakes(type) /\ Consume("server") /\ sendbuf' = sendbuf /\ enc' = enc
         /\ cfg' = cfg /\ saved' = saved /\ sched' = sched
         /\ certificate_request' = certificate_request
         /\ early_data_acceptance' = early_data_acceptance
  BY DEF server_handle_end_of_early_data, server_handle_certificate,
         server_handle_certificate_verify, server_handle_finished, ServerStep, clientVars, appVars
<1>2. TypeInv /\ Ready("server")
  BY <1>1, ServerExpects DEF LocalInv
<1>3. \A r \in InFlight("server")' : r \in InFlight("server")
  BY <1>1, <1>2, Sides, ReadQuiet
<1>4. /\ state'["client"] = state["client"] /\ transcript'["client"] = transcript["client"]
      /\ dec'["client"] = dec["client"]
  BY <1>2, Sides DEF server_handle_end_of_early_data, server_handle_certificate,
         server_handle_certificate_verify, server_handle_finished, ServerStep, TypeInv
<1>5. ClientKeepsEarly => ClientKeepsEarly'
  <2>1. RetrySent' => RetrySent
    BY <1>3 DEF RetrySent
  <2>. QED  BY <1>1, <1>3, <1>4, <2>1 DEF ClientKeepsEarly
<1>. QED  BY <1>1, <1>3, <1>4, <1>5, MoveTicket DEF NotAsked, ClientGivesUpEarly

LEMMA ServerHelloTicket ==
  ASSUME LocalInv, AgreementInv, EarlyInv, TicketInv, server_handle_hello
  PROVE  TicketInv'
<1>. DEFINE ch == First("server").msg
            early == AcceptsEarlyData(ch)
<1>1. /\ ServerTakes("CH") /\ Consume("server") /\ cfg' = cfg /\ saved' = saved
      /\ certificate_request' = certificate_request
      /\ early_data_acceptance' = early_data_acceptance
      /\ sched' = [sched EXCEPT !["server"] = HelloSched(ch)]
      /\ transcript' = [transcript EXCEPT !["server"] = HelloTh3(ch)]
      /\ enc' = [enc EXCEPT !["server"] = Advance(HelloApKey(ch), Len(HelloNst(ch)))]
  BY ServerHelloParts
<1>2. /\ \E next : state' = [state EXCEPT !["server"] = next]
      /\ \E key : dec' = [dec EXCEPT !["server"] = key]
  BY ServerHelloParts
<1>3. /\ sendbuf' = [sendbuf EXCEPT !["server"] = sendbuf["server"] \o HelloRecords(ch)]
      /\ state["server"] \in ServerHellos /\ wire["client"] # <<>> /\ ch \in Messages
      /\ ch.type = "CH"
  BY ServerHelloSends
<1>4. TypeInv /\ ServerInv
  BY DEF LocalInv
<1>5. /\ state'["client"] = state["client"] /\ transcript'["client"] = transcript["client"]
      /\ dec'["client"] = dec["client"] /\ sched'["server"] = HelloSched(ch)
      /\ enc'["server"] = Advance(HelloApKey(ch), Len(HelloNst(ch)))
  BY <1>1, <1>2, <1>4, Sides DEF TypeInv
<1>6. \A r \in InFlight("server")' : r \in InFlight("server") \/ r \in Elems(HelloRecords(ch))
  <2>1. HelloRecords(ch) \in Seq(Recs)
    BY <1>3, <1>4, HelloSends
  <2>. QED  BY <1>1, <1>3, <1>4, <2>1, Sides, Written
<1>7. \A r \in InFlight("server") : r.msg.type \notin {"EE", "NST", "CR"}
  BY <1>3 DEF AgreementInv, ServerFlightInv
<1>8. SUFFICES ASSUME ~cfg.require_client_authentication
               PROVE  NotAsked' /\ OwnHashInv' /\ NewTicketInv' /\ TicketAgreement'
  BY <1>1 DEF TicketInv
<1>9. NotAsked /\ OwnHashInv /\ TicketAgreement
  BY <1>8 DEF TicketInv
<1>10. ASSUME NEW r \in Elems(HelloRecords(ch))
       PROVE  r.msg.type # "CR" /\ (r.msg.type = "NST" => r.msg = HelloTicket(ch))
  <2>1. \/ r.msg = ServerHello(ch) \/ r.msg.type = "CCS"
        \/ r.msg \in Elems(Extensions(ch)) \/ r.msg \in Elems(HelloCerts(ch))
        \/ r.msg = HelloFin(ch) \/ r.msg = HelloTicket(ch)
    BY <1>3, <1>4, <1>10, HelloSends
  <2>2. CASE r.msg \in Elems(Extensions(ch))
    <3>1. r.msg = Plain("EE", If(early, "early_data"))
      <4>. DEFINE ee == Plain("EE", If(early, "early_data"))
      <4>1. ee \in Messages
        BY <1>3, <1>4, ExtensionsType
      <4>2. When(~FindsPsk(ch) /\ cfg.require_client_authentication, Plain("CR", {})) = <<>>
        BY <1>8 DEF When
      <4>3. Extensions(ch) = <<ee>> \o <<>>
        BY <4>2 DEF Extensions
      <4>. HIDE DEF ee
      <4>4. Extensions(ch) = <<ee>>
        BY <4>1, <4>3
      <4>5. Elems(<<ee>>) = {ee}
        BY <4>1, ElemsOf
      <4>. QED  BY <2>2, <4>4, <4>5 DEF ee
    <3>2. r.msg.type = "EE"
      BY <3>1 DEF Plain, Message
    <3>. QED  BY <3>2
  <2>3. CASE r.msg \in Elems(HelloCerts(ch))
    <3>1. HelloCerts(ch) = Certificates("server", cfg.server_certificate, HelloTh1(ch))
      BY <2>3, ElemsOf DEF HelloCerts
    <3>2. /\ HelloTh1(ch) \in Seq(Views) /\ cfg.server_certificate \in Names
          /\ "server" \in Names
      BY <1>3, <1>4, HelloTypes, ConfigTypes, NamesAre
    <3>3. \A c \in Elems(HelloCerts(ch)) : CertificateTrust(cfg.server_certificate, c)
      BY <3>1, <3>2, CertificatesTrust
    <3>. QED  BY <2>3, <3>3 DEF CertificateTrust
  <2>4. CASE \/ r.msg = ServerHello(ch) \/ r.msg.type = "CCS" \/ r.msg = HelloFin(ch)
             \/ r.msg = HelloTicket(ch)
    <3>1. /\ ServerHello(ch).type = "SH" /\ HelloTicket(ch).type = "NST"
          /\ HelloFin(ch).type = "FIN"
      BY DEF ServerHello, HelloFin, HelloTicket, send_finished, Plain, Message
    <3>. QED  BY <2>4, <3>1
  <2>. QED  BY <2>1, <2>2, <2>3, <2>4
<1>11. NotAsked' /\ OwnHashInv' /\ TicketAgreement'
  BY <1>1, <1>5, <1>6, <1>7, <1>9, <1>10 DEF NotAsked, OwnHashInv, ClientThrough, TicketAgreement
<1>12. /\ early => HelloTicket(ch).mac = Foreseen(TRUE)'
       /\ ~early => HelloTicket(ch).mac = Foreseen(FALSE)'
  <2>1. enc'["server"].secret = Secret("s_ap_traffic", HelloSched(ch), HelloTh3(ch))
    BY <1>5 DEF Advance, HelloApKey, Key
  <2>2. enc'["server"].secret.th = HelloTh3(ch)
    BY <2>1 DEF Secret
  <2>3. HelloTicket(ch).mac = ResumptionSecret(HelloSched(ch), Predicted(HelloTh3(ch), early))
    BY DEF HelloTicket, Message
  <2>4. early \in BOOLEAN
    BY DEF AcceptsEarlyData
  <2>. HIDE DEF ch, early
  <2>5. /\ early => Predicted(HelloTh3(ch), early) = Predicted(HelloTh3(ch), TRUE)
        /\ ~early => Predicted(HelloTh3(ch), early) = Predicted(HelloTh3(ch), FALSE)
    BY <2>4
  <2>6. \A b \in BOOLEAN :
          ResumptionSecret(sched'["server"], Predicted(enc'["server"].secret.th, b)) =
            ResumptionSecret(HelloSched(ch), Predicted(HelloTh3(ch), b))
    BY <1>5, <2>2
  <2>. QED  BY <2>3, <2>5, <2>6 DEF Foreseen, ServerThrough
<1>13. /\ \A r \in Elems(HelloRecords(ch)) :
             r.msg.type # "HRR" /\ (r.msg.type = "EE" => ("early_data" \in r.msg.has <=> early))
       /\ early_data_acceptance # "ACCEPTED"
       /\ early => /\ state["client"] = "CLIENT_EXPECT_SERVER_HELLO"
                   /\ early_data_acceptance = "UNKNOWN" /\ ~RetrySent
  <2>1. \A r \in Elems(HelloRecords(ch)) :
          r.msg.type # "HRR" /\ (r.msg.type = "EE" => ("early_data" \in r.msg.has <=> early))
    BY <1>3, <1>4, HelloTells
  <2>2. early_data_acceptance # "ACCEPTED"
    BY <1>3 DEF EarlyInv, AnnouncedInv, ServerEarly, ServerHellos
  <2>3. First("server") \in InFlight("client")
    BY <1>1, <1>3, <1>4, Sides, ReadFlight
  <2>4. early => EarlyHello
    BY <1>3, <2>3 DEF AcceptsEarlyData, EarlyHello, IsEarlyHello
  <2>. QED  BY <2>1, <2>2, <2>4 DEF EarlyInv, OfferInv
<1>. HIDE DEF ch, early
<1>14. early => ClientKeepsEarly'
  <2>1. SUFFICES ASSUME early PROVE ClientKeepsEarly'
    OBVIOUS
  <2>2. ~RetrySent'
    BY <1>6, <1>13, <2>1 DEF RetrySent
  <2>3. \A r \in InFlight("server")' : r.msg.type = "EE" => "early_data" \in r.msg.has
    BY <1>6, <1>7, <1>13, <2>1
  <2>4. early_data_acceptance' # "REJECTED" /\ state'["client"] = "CLIENT_EXPECT_SERVER_HELLO"
    BY <1>1, <1>5, <1>13, <2>1
  <2>. QED  BY <2>2, <2>3, <2>4 DEF ClientKeepsEarly
<1>15. ~early => ClientGivesUpEarly'
  BY <1>1, <1>6, <1>7, <1>13 DEF ClientGivesUpEarly
<1>16. NewTicketInv'
  <2>1. \A r \in InFlight("server")' : r.msg.type = "NST" => r.msg = HelloTicket(ch)
    BY <1>6, <1>7, <1>10
  <2>. QED  BY <1>12, <1>14, <1>15, <2>1 DEF NewTicketInv
<1>. QED  BY <1>11, <1>16

-----------------------------------------------------------------------------
LEMMA TicketInit == Init => TicketInv
<1>. SUFFICES ASSUME Init PROVE TicketInv
  OBVIOUS
<1>1. /\ state["client"] = "CLIENT_HANDSHAKE_START" /\ ~certificate_request /\ saved = <<>>
      /\ \A s \in Side : sendbuf[s] = <<>> /\ wire[s] = <<>>
  BY Sides DEF Init
<1>2. InFlight("server") = {}
  BY <1>1, Sides, ElemsOf DEF InFlight
<1>. QED
  BY <1>1, <1>2 DEF TicketInv, NotAsked, OwnHashInv, NewTicketInv, TicketAgreement

LEMMA TicketNext ==
  LocalInv /\ AgreementInv /\ EarlyInv /\ TicketInv /\ [Next]_vars => TicketInv'
<1>. SUFFICES ASSUME LocalInv, AgreementInv, EarlyInv, TicketInv, [Next]_vars PROVE TicketInv'
  OBVIOUS
<1>0. HelloFirst
  BY DEF EarlyInv
<1>1. CASE \/ ClientError \/ ServerError \/ ServerRejectsHello \/ ServerSignFails
           \/ \E s \in Side : RejectRecord(s)
  <2>1. saved' = saved
    BY <1>1 DEF ClientError, ServerError, ServerRejectsHello, ServerSignFails, RejectRecord, Fail,
                FailWith, appVars
  <2>. QED  BY <1>1, <2>1, FailsQuiet, QuietTicket
<1>2. CASE ClientSteps
  BY <1>1, <1>2, ClientMovesTicket, ClientFinishedTicket, NewSessionTicketTicket DEF ClientSteps
<1>3. CASE ServerSteps
  <2>1. CASE ServerSkipEarlyData
    <3>1. saved' = saved
      BY <2>1 DEF ServerSkipEarlyData, Fail, FailWith, appVars
    <3>. QED  BY <2>1, <3>1, SkipQuiet, QuietTicket
  <2>2. CASE ServerStatelessRetry
    <3>1. saved' = saved
      BY <2>2 DEF ServerStatelessRetry, appVars
    <3>. QED  BY <2>2, <3>1, StatelessRetryQuiet, QuietTicket
  <2>. QED
    BY <1>1, <1>3, <2>1, <2>2, ServerRetryTicket, ServerHelloTicket, ServerReadsTicket
       DEF ServerSteps
<1>4. ASSUME NEW s \in Side, CommonSteps(s) PROVE TicketInv'
  <2>1. CASE RejectRecord(s)
    BY <1>1, <2>1
  <2>2. CASE ~RejectRecord(s)
    <3>1. saved' = saved
      BY <1>4, <2>2 DEF CommonSteps, Flush, HandleCCS, handle_alert, ReceiveData, appVars
    <3>. QED  BY <1>4, <3>1, CommonQuiet, QuietTicket
  <2>. QED  BY <2>1, <2>2
<1>5. CASE SendEarlyData \/ \E s \in Side : ptls_send(s)
  <2>1. saved' = saved
    BY <1>5 DEF SendEarlyData, ptls_send, Sends, appVars
  <2>. QED  BY <1>5, <2>1, SendsQuiet, QuietTicket
<1>6. CASE \E s \in Side : Alter(s)
  <2>1. saved' = saved
    BY <1>6 DEF Alter, appVars
  <2>. QED  BY <1>6, <2>1, AlterQuiet, QuietTicket
<1>7. CASE UNCHANGED vars
  <2>1. saved' = saved
    BY <1>7 DEF vars, appVars
  <2>. QED  BY <1>7, <2>1, StutterQuiet, QuietTicket
<1>. QED  BY <1>2, <1>3, <1>4, <1>5, <1>6, <1>7 DEF Next

(* Without client authentication, the resumption PSK that                   *)
(* send_session_ticket derives before it has seen the client's flight is    *)
(* the one the client derives when it stores the ticket: for all            *)
(* configurations, with or without early data, retries and resumption, and  *)
(* whatever is altered on the way.  With client authentication it is not    *)
(* (handshake_ticket_auth).                                                 *)
THEOREM TicketsAgree == Spec => [](~cfg.require_client_authentication => TicketAgreement)
<1>1. Init => LocalInv /\ TrustInv /\ AgreementInv /\ EarlyInv /\ TicketInv
  BY LocalInit, TrustInit, AgreementInit, EarlyInit, TicketInit
<1>2. LocalInv /\ TrustInv /\ AgreementInv /\ EarlyInv /\ TicketInv /\ [Next]_vars =>
        (LocalInv /\ TrustInv /\ AgreementInv /\ EarlyInv /\ TicketInv)'
  BY LocalNext, TrustNext, AgreementNext, EarlyNext, TicketNext
<1>3. TicketInv => (~cfg.require_client_authentication => TicketAgreement)
  BY DEF TicketInv
<1>. QED  BY <1>1, <1>2, <1>3, PTL DEF Spec, Safety
=============================================================================
