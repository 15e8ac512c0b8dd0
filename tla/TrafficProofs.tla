--------------------------- MODULE TrafficProofs ---------------------------
(***************************************************************************)
(* Proofs about the record layer after the handshake, for every value of   *)
(* the limits and bounds of Traffic.                                       *)
(***************************************************************************)
EXTENDS Traffic, SequenceTheorems, TLAPS

(* The other endpoint is an endpoint, and its peer is this one.             *)
LEMMA PeerFacts ==
  /\ \A s \in Side : Peer(s) \in Side /\ Peer(s) # s /\ Peer(Peer(s)) = s
  /\ \A s, t \in Side : Peer(s) = Peer(t) => s = t
BY DEF Side, Peer

(* What the operations on a traffic key return.                             *)
LEMMA KeyFacts ==
  ASSUME NEW key \in Key, NEW n \in Nat
  PROVE  /\ key.gen \in Nat /\ key.seq \in Nat
         /\ Advance(key, n) \in Key
         /\ Advance(key, n).gen = key.gen /\ Advance(key, n).seq = key.seq + n
         /\ update_traffic_key(key) \in Key
         /\ update_traffic_key(key).gen = key.gen + 1 /\ update_traffic_key(key).seq = 0
         /\ NoAead(key) \in Key
         /\ NoAead(key).gen = key.gen + 1
<1>1. key.gen \in Nat /\ key.seq \in Nat /\ key.aead \in BOOLEAN
  BY DEF Key
<1>2. key.gen + 1 \in Nat /\ key.seq + n \in Nat /\ key.seq + 1 \in Nat
  BY <1>1
<1>3. Advance(key, n) \in Key /\ update_traffic_key(key) \in Key /\ NoAead(key) \in Key
  BY <1>1, <1>2, Zenon DEF Key, Advance, update_traffic_key, NoAead
<1>4. QED
  BY <1>1, <1>3 DEF Advance, update_traffic_key, NoAead

(* Elements of a concatenation.                                             *)
LEMMA ConcatElements ==
  ASSUME NEW S, NEW a \in Seq(S), NEW b \in Seq(S)
  PROVE  /\ a \o b \in Seq(S)
         /\ Len(a \o b) = Len(a) + Len(b)
         /\ \A i \in 1..Len(a \o b) : (a \o b)[i] = IF i <= Len(a) THEN a[i] ELSE b[i - Len(a)]
OBVIOUS

(* Records are packets; the packets that are not sealed open with no key.   *)
LEMMA PacketFacts ==
  /\ Record \subseteq Packet /\ Seq(Record) \subseteq Seq(Packet)
  /\ PlainAlert \in Packet /\ Stub \in Packet
  /\ \A k \in Key : ~Opens(k, PlainAlert) /\ ~Opens(k, Stub)
  /\ \A p \in Packet : \A k \in Key : Opens(k, p) => p \in Record
<1>1. Record \subseteq Packet /\ PlainAlert \in Packet /\ Stub \in Packet
  BY DEF Packet
<1>2. Seq(Record) \subseteq Seq(Packet)
  <2> SUFFICES ASSUME NEW q \in Seq(Record) PROVE q \in Seq(Packet)
    OBVIOUS
  <2>1. q \in [1..Len(q) -> Record] /\ Len(q) \in Nat
    BY LenProperties
  <2>2. q \in [1..Len(q) -> Packet]
    BY <1>1, <2>1
  <2>3. QED BY <2>1, <2>2, SeqDef
<1>3. ASSUME NEW k \in Key PROVE ~Opens(k, PlainAlert) /\ ~Opens(k, Stub)
  <2>1. k.gen \in Nat /\ PlainAlert.gen = -1 /\ Stub.gen = -1
    BY KeyFacts DEF PlainAlert, Stub, Clear
  <2>2. QED BY <2>1 DEF Opens
<1>4. QED
  BY <1>1, <1>2, <1>3 DEF Packet

(* What ptls_send emits: at most one KeyUpdate under the old key, first,    *)
(* then data under the key in use, with consecutive numbers.                *)
LEMMA EmissionType ==
  ASSUME TypeOK, NEW s \in Side, NEW n \in 0..MaxChunks
  PROVE  /\ Emission(s, n) \in Seq(Record)
         /\ Len(Emission(s, n)) = (IF MustUpdate(s) THEN 1 ELSE 0) + n
<1> DEFINE k   == IF MustUpdate(s) THEN 1 ELSE 0
           key == SendKey(s)
<1>1. k \in {0, 1} /\ n \in Nat /\ k + n \in Nat
  BY LimitsAssumption
<1>2. /\ enc[s] \in Key
      /\ key \in Key
  BY KeyFacts DEF TypeOK, SendKey
<1>3. ASSUME NEW i \in 1..(k + n)
      PROVE  Emission(s, n)[i] \in Record
  <2>1. CASE i <= k
    <3>1. Emission(s, n)[i] = Seal(enc[s], "KEY_UPDATE", key_update_send_request[s])
      BY <2>1, <1>1 DEF Emission
    <3>2. QED
      BY <3>1, <1>2 DEF TypeOK, Key, Seal, Record, Type
  <2>2. CASE ~(i <= k)
    <3>1. Emission(s, n)[i] = [gen |-> key.gen, seq |-> key.seq + (i - k) - 1,
                               type |-> "APPDATA", request |-> 0]
      BY <2>2, <1>1 DEF Emission
    <3>2. key.gen \in Nat /\ key.seq + (i - k) - 1 \in Nat
      BY <2>2, <1>1, <1>2 DEF Key
    <3>3. QED
      BY <3>1, <3>2 DEF Record, Type
  <2>3. QED BY <2>1, <2>2
<1>4. Emission(s, n) \in [1..(k + n) -> Record]
  <2>1. Emission(s, n) = [i \in 1..(k + n) |-> Emission(s, n)[i]]
    BY DEF Emission
  <2>2. QED BY <2>1, <1>3
<1>5. Emission(s, n) \in Seq(Record)
  BY <1>1, <1>4, SeqDef
<1>6. Len(Emission(s, n)) = k + n
  BY <1>1, <1>4, <1>5, LenProperties
<1>7. QED
  BY <1>5, <1>6

(* What each record of one ptls_send is: the KeyUpdate under the old key,   *)
(* or a data record under the key the call leaves in place.                 *)
LEMMA EmissionElements ==
  ASSUME TypeOK, NEW s \in Side, NEW n \in 0..MaxChunks, NEW i \in 1..Len(Emission(s, n))
  PROVE  /\ MustUpdate(s) /\ i = 1 => /\ Emission(s, n)[i].gen = enc[s].gen
                                      /\ Emission(s, n)[i].seq = enc[s].seq
                                      /\ Emission(s, n)[i].type = "KEY_UPDATE"
         /\ MustUpdate(s) /\ i # 1 => /\ Emission(s, n)[i].gen = enc[s].gen + 1
                                      /\ Emission(s, n)[i].seq = i - 2
                                      /\ Emission(s, n)[i].type = "APPDATA"
         /\ ~MustUpdate(s) => /\ Emission(s, n)[i].gen = enc[s].gen
                              /\ Emission(s, n)[i].seq = enc[s].seq + i - 1
                              /\ Emission(s, n)[i].type = "APPDATA"
<1>1. n \in Nat /\ enc[s] \in Key
  BY LimitsAssumption DEF TypeOK
<1>2. CASE MustUpdate(s)
  <2>1. i \in 1..(1 + n)
    BY <1>2, EmissionType
  <2>2. CASE i = 1
    <3>1. Emission(s, n)[i] = Seal(enc[s], "KEY_UPDATE", key_update_send_request[s])
      BY <1>1, <1>2, <2>1, <2>2 DEF Emission
    <3>2. QED BY <1>2, <2>2, <3>1 DEF Seal
  <2>3. CASE i # 1
    <3>1. Emission(s, n)[i] = [gen |-> enc[s].gen + 1, seq |-> 0 + (i - 1) - 1,
                               type |-> "APPDATA", request |-> 0]
      BY <1>1, <1>2, <2>1, <2>3 DEF Emission, SendKey, update_traffic_key
    <3>2. QED BY <1>2, <2>1, <2>3, <3>1
  <2>4. QED BY <2>2, <2>3
<1>3. CASE ~MustUpdate(s)
  <2>1. i \in 1..n
    BY <1>1, <1>3, EmissionType
  <2>2. Emission(s, n)[i] = [gen |-> enc[s].gen, seq |-> enc[s].seq + (i - 0) - 1,
                             type |-> "APPDATA", request |-> 0]
    BY <1>1, <1>3, <2>1 DEF Emission, SendKey
  <2>3. QED BY <1>1, <1>3, <2>1, <2>2 DEF Key
<1>4. QED BY <1>2, <1>3

(* What may be left on the wire of a ptls_send that failed.                 *)
LEMMA LeftoverType ==
  ASSUME TypeOK, NEW s \in Side, NEW n \in 0..MaxChunks, NEW left \in Leftovers(s, n)
  PROVE  /\ left \in Seq(Packet)
         /\ \A i \in 1..Len(left) :
               left[i] = Stub \/ \E j \in 1..Len(Emission(s, n)) : left[i] = Emission(s, n)[j]
<1> DEFINE E == Emission(s, n)
<1>1. E \in Seq(Packet) /\ <<Stub>> \in Seq(Packet) /\ Len(<<Stub>>) = 1 /\ <<Stub>>[1] = Stub
  BY EmissionType, PacketFacts
<1>2. left = <<>> \/ left = E \/ left = E \o <<Stub>>
  BY DEF Leftovers
<1> HIDE DEF E
<1>3. CASE left = <<>>
  BY <1>3, EmptySeq
<1>4. CASE left = E
  BY <1>1, <1>4 DEF E
<1>5. CASE left = E \o <<Stub>>
  <2>1. /\ left \in Seq(Packet) /\ Len(left) = Len(E) + 1 /\ Len(E) \in Nat
        /\ \A i \in 1..Len(left) : left[i] = IF i <= Len(E) THEN E[i] ELSE <<Stub>>[i - Len(E)]
    BY <1>1, <1>5, ConcatElements, LenProperties
  <2>2. ASSUME NEW i \in 1..Len(left)
        PROVE  left[i] = Stub \/ \E j \in 1..Len(E) : left[i] = E[j]
    <3>1. CASE i <= Len(E)
      BY <2>1, <3>1
    <3>2. CASE ~(i <= Len(E))
      <4>1. i - Len(E) = 1
        BY <2>1, <3>2
      <4>2. QED BY <1>1, <2>1, <3>2, <4>1
    <3>3. QED BY <3>1, <3>2
  <2>3. QED BY <2>1, <2>2 DEF E
<1>6. QED BY <1>2, <1>3, <1>4, <1>5

(***************************************************************************)
(* Type correctness.                                                       *)
(***************************************************************************)

(* The state in which the handshake leaves the endpoints is well typed.     *)
LEMMA InitTypeOK == Init => TypeOK
<1> SUFFICES ASSUME Init PROVE TypeOK
  OBVIOUS
<1>1. FirstKey \in Key /\ TicketRecord \in Record
  BY DEF FirstKey, Key, TicketRecord, Seal, Record, Type
<1>2. enc \in [Side -> Key] /\ dec \in [Side -> Key]
  BY <1>1, KeyFacts DEF Init
<1>3. /\ sent \in [Side -> Seq(Record)]
      /\ got \in [Side -> Seq(Record)]
  BY <1>1 DEF Init
<1>4. wire \in [Side -> Seq(Packet)]
  BY <1>3, PacketFacts DEF Init
<1>5. QED
  BY <1>2, <1>3, <1>4 DEF Init, TypeOK, RxStatus

(* Every step of an endpoint or of the network keeps the types.             *)
LEMMA NextTypeOK == TypeOK /\ [Next]_vars => TypeOK'
<1> SUFFICES ASSUME TypeOK, [Next]_vars PROVE TypeOK'
  OBVIOUS
<1> USE DEF TypeOK
<1>1. CASE UNCHANGED vars
  BY <1>1 DEF vars, keys, flags, history, counters
<1>2. ASSUME NEW s \in Side, Application(s) PROVE TypeOK'
  <2>1. ASSUME NEW r \in {0, 1}, ptls_update_key(s, r) PROVE TypeOK'
    BY <2>1 DEF ptls_update_key, keys
  <2>a. ASSUME NEW n \in 0..MaxChunks, SealRecords(s, n), NEW W \in Seq(Packet),
               wire' = [wire EXCEPT ![s] = @ \o W], failures' \in Nat
        PROVE  TypeOK'
    <3>1. n \in Nat
      BY LimitsAssumption
    <3>2. Emission(s, n) \in Seq(Record)
      BY EmissionType
    <3>3. enc' \in [Side -> Key]
      BY <2>a, <3>1, KeyFacts DEF SealRecords, SendKey
    <3>4. sent' \in [Side -> Seq(Record)]
      BY <2>a, <3>2 DEF SealRecords
    <3>5. wire' \in [Side -> Seq(Packet)]
      BY <2>a, ConcatElements
    <3>6. QED
      BY <2>a, <3>3, <3>4, <3>5, SMTT(30) DEF SealRecords
  <2>2. ASSUME NEW n \in 0..MaxChunks, ptls_send(s, n) PROVE TypeOK'
    <3>1. Emission(s, n) \in Seq(Packet)
      BY EmissionType, PacketFacts
    <3>2. QED
      BY <2>2, <2>a, <3>1 DEF ptls_send
  <2>b. ASSUME NEW n \in 0..(MaxChunks - 1), buffer_push_encrypted_records_fails(s, n)
        PROVE  TypeOK'
    <3>1. n \in 0..MaxChunks /\ failures' \in Nat
      BY <2>b, LimitsAssumption DEF buffer_push_encrypted_records_fails
    <3>2. PICK left \in Leftovers(s, n) : wire' = [wire EXCEPT ![s] = @ \o left]
      BY <2>b DEF buffer_push_encrypted_records_fails
    <3>3. left \in Seq(Packet)
      BY <3>1, LeftoverType
    <3>4. SealRecords(s, n)
      BY <2>b DEF buffer_push_encrypted_records_fails
    <3>5. QED
      BY <2>a, <3>1, <3>2, <3>3, <3>4
  <2>3. CASE ptls_send_fails(s)
    <3>1. Advance(enc[s], 1) \in Key /\ NoAead(enc[s]) \in Key /\ enc[s] \in Key
      BY KeyFacts
    <3>2. enc' \in [Side -> Key]
      BY <2>3, <3>1 DEF ptls_send_fails
    <3>3. QED
      BY <2>3, <3>2 DEF ptls_send_fails, history
  <2>4. CASE ptls_send_alert(s)
    <3>1. Seal(enc[s], "ALERT", 0) \in Record
      BY DEF Seal, Record, Type, Key
    <3>2. enc' \in [Side -> Key]
      BY <2>4, KeyFacts DEF ptls_send_alert
    <3>3. sent' \in [Side -> Seq(Record)]
      BY <2>4, <3>1 DEF ptls_send_alert
    <3>4. wire' \in [Side -> Seq(Packet)]
      BY <2>4, <3>1, PacketFacts, AppendProperties DEF ptls_send_alert
    <3>5. QED
      BY <2>4, <3>2, <3>3, <3>4 DEF ptls_send_alert, flags, counters
  <2>5. CASE ptls_send_alert_clear(s)
    <3>1. wire' \in [Side -> Seq(Packet)]
      BY <2>5, PacketFacts, AppendProperties DEF ptls_send_alert_clear
    <3>2. QED
      BY <2>5, <3>1, SMTT(30) DEF ptls_send_alert_clear, keys, flags
  <2>6. QED
    BY <1>2, <2>1, <2>2, <2>b, <2>3, <2>4, <2>5 DEF Application
<1>3. ASSUME NEW s \in Side, Receive(s) PROVE TypeOK'
  <2>1. /\ Head1(s) \in Packet
        /\ Consume(s)
    <3>1. Arrived(s) /\ Consume(s)
      BY <1>3 DEF Receive, ReceiveRecord, handle_plain_alert, handle_key_update,
                  handle_key_update_fails, RejectRecord, ServerSkipEarlyData
    <3>2. QED BY <3>1, PeerFacts, EmptySeq, ElementOfSeq DEF Arrived, Head1
  <2>2. wire' \in [Side -> Seq(Packet)]
    <3>1. wire[Peer(s)] # <<>>
      BY <1>3 DEF Receive, ReceiveRecord, handle_plain_alert, handle_key_update,
                  handle_key_update_fails, RejectRecord, ServerSkipEarlyData, Arrived
    <3>2. Tail(wire[Peer(s)]) \in Seq(Packet)
      BY <3>1, PeerFacts, HeadTailProperties
    <3>3. QED BY <2>1, <3>2 DEF Consume
  <2>a. Opens(dec[s], Head1(s)) => Append(got[s], Head1(s)) \in Seq(Record)
    <3>1. Opens(dec[s], Head1(s)) => Head1(s) \in Record
      BY <2>1, PacketFacts
    <3>2. QED BY <3>1, AppendProperties
  <2>b. /\ Advance(dec[s], 1) \in Key /\ update_traffic_key(dec[s]) \in Key
        /\ NoAead(dec[s]) \in Key
    BY KeyFacts
  <2>c. enc[s].gen \in Nat
    BY DEF Key
  <2>3. CASE ReceiveRecord(s)
    BY <2>a, <2>b, <2>2, <2>3 DEF ReceiveRecord, flags, counters, RxStatus
  <2>4. CASE handle_key_update(s)
    BY <2>a, <2>b, <2>c, <2>2, <2>4 DEF handle_key_update, counters
  <2>5. CASE handle_key_update_fails(s)
    BY <2>a, <2>b, <2>2, <2>5 DEF handle_key_update_fails, flags, RxStatus
  <2>6. CASE RejectRecord(s)
    BY <2>2, <2>6 DEF RejectRecord, keys, flags, history, counters, RxStatus
  <2>7. CASE ServerSkipEarlyData(s)
    BY <2>2, <2>7, SMTT(30) DEF ServerSkipEarlyData, keys, flags, history, counters, RxStatus, UINT32_MAX
  <2>8. CASE handle_plain_alert(s)
    BY <2>2, <2>8 DEF handle_plain_alert, keys, flags, history, counters, RxStatus
  <2>9. QED
    BY <1>3, <2>3, <2>4, <2>5, <2>6, <2>7, <2>8 DEF Receive
<1>4. ASSUME NEW s \in Side, Network(s) PROVE TypeOK'
  <2>1. CASE Drop(s)
    <3>1. Tail(wire[s]) \in Seq(Packet)
      BY <2>1, HeadTailProperties DEF Drop
    <3>2. QED BY <2>1, <3>1 DEF Drop, keys, flags, history
  <2>2. ASSUME NEW j \in 1..Len(sent[s]), Replay(s, j) PROVE TypeOK'
    <3>1. <<sent[s][j]>> \o wire[s] \in Seq(Packet)
      BY ElementOfSeq, ConcatElements, PacketFacts
    <3>2. QED BY <2>2, <3>1 DEF Replay, keys, flags, history
  <2>3. CASE Inject(s)
    <3>1. <<PlainAlert>> \o wire[s] \in Seq(Packet)
      BY ConcatElements, PacketFacts
    <3>2. QED BY <2>3, <3>1 DEF Inject, keys, flags
  <2>4. QED BY <1>4, <2>1, <2>2, <2>3 DEF Network
<1>5. QED
  BY <1>1, <1>2, <1>3, <1>4 DEF Next

(* Every reachable state of the record layer is well typed.                 *)
THEOREM TypeCorrect == Safety => []TypeOK
<1>1. QED
  BY InitTypeOK, NextTypeOK, PTL DEF Safety

(***************************************************************************)
(* The inductive invariant.  dec[s] cuts the peer's emission into what was *)
(* decrypted and what was not; since the keys along an emission strictly   *)
(* increase, the only record dec[s] can open is the first of the rest.     *)
(***************************************************************************)

(* The invariant holds when the handshake is complete: at most one record,  *)
(* the server's NewSessionTicket, has been sealed and none opened.          *)
LEMMA InitInv == Init => Inv
<1> SUFFICES ASSUME Init PROVE Inv
  OBVIOUS
<1>1. TypeOK
  BY InitTypeOK
<1>2. \A s \in Side : \A i \in 1..Len(sent[s]) :
          /\ Len(sent[s]) = 1 /\ i = 1
          /\ sent[s][i].gen = 0 /\ sent[s][i].seq = 0
          /\ sent[s][i].type = "NEW_SESSION_TICKET"
          /\ enc[s].gen = 0 /\ enc[s].seq = 1
  BY DEF Init, TicketRecord, Seal, FirstKey, Advance
<1>3. \A s \in Side : /\ dec[s].gen = 0 /\ dec[s].seq = 0 /\ got[s] = <<>>
                      /\ wire[s] = sent[s] /\ enc[s].gen = 0 /\ enc[s].seq \in {0, 1}
  BY DEF Init, FirstKey, Advance
<1>4. NonceUnique /\ UpdateEndsKey /\ WireSent
  BY <1>2, <1>3 DEF NonceUnique, UpdateEndsKey, WireSent, Before
<1>5. Position /\ InOrder
  <2> SUFFICES ASSUME NEW s \in Side
      PROVE  /\ ~Before(enc[Peer(s)], dec[s])
             /\ \A i \in 1..Len(sent[Peer(s)]) :
                   IF i <= Len(got[s]) THEN Before(sent[Peer(s)][i], dec[s])
                                       ELSE ~Before(sent[Peer(s)][i], dec[s])
             /\ Len(got[s]) <= Len(sent[Peer(s)])
             /\ \A i \in 1..Len(got[s]) : got[s][i] = sent[Peer(s)][i]
    BY DEF Position, InOrder
  <2>1. Peer(s) \in Side
    BY PeerFacts
  <2>2. Len(got[s]) = 0 /\ Len(sent[Peer(s)]) \in Nat
    BY <1>1, <1>3, <2>1, LenProperties, EmptySeq DEF TypeOK
  <2>3. QED
    BY <1>2, <1>3, <2>1, <2>2 DEF Before
<1>6. QED
  BY <1>1, <1>4, <1>5 DEF Inv

(* The numbers in a record.                                                 *)
LEMMA RecordFacts ==
  ASSUME NEW q \in Seq(Record)
  PROVE  /\ Len(q) \in Nat
         /\ \A i \in 1..Len(q) : /\ q[i] \in Record
                                 /\ q[i].gen \in Nat /\ q[i].seq \in Nat
<1>1. Len(q) \in Nat
  BY LenProperties
<1>2. \A i \in 1..Len(q) : q[i] \in Record
  BY ElementOfSeq
<1>3. QED
  BY <1>1, <1>2 DEF Record

(* Before is a strict order whose complement is transitive.                 *)
LEMMA BeforeFacts ==
  ASSUME NEW a, NEW b, NEW c,
         a.gen \in Nat, a.seq \in Nat, b.gen \in Nat, b.seq \in Nat, c.gen \in Nat, c.seq \in Nat
  PROVE  /\ Before(a, b) /\ ~Before(c, b) => Before(a, c)
         /\ ~Before(b, a) /\ ~Before(c, b) => ~Before(c, a)
         /\ Before(a, b) => ~Before(b, a)
         /\ ~Before(b, a) => a.gen <= b.gen
BY DEF Before

(* The records q are sealed in order, and the next key to use is k.         *)
Ordered(q, k) ==
    /\ \A i, j \in 1..Len(q) : i < j => Before(q[i], q[j])
    /\ \A i \in 1..Len(q) : Before(q[i], k)

(* Every KeyUpdate in q is the last record of its key.                      *)
Ends(q, k) ==
    \A i \in 1..Len(q) : q[i].type = "KEY_UPDATE" =>
        /\ q[i].gen < k.gen
        /\ \A j \in 1..Len(q) : i < j => q[i].gen < q[j].gen

(* What may be on the wire from s.                                          *)
Known(s, p) ==
    \/ \E j \in 1..Len(sent[s]) : p = sent[s][j]
    \/ p = Stub
    \/ p = PlainAlert /\ clear[s] > 0

(* No record of q is sealed with less than k.                               *)
From(q, k) == \A i \in 1..Len(q) : ~Before(q[i], k)

(* Appending records between two send keys keeps an emission ordered.       *)
LEMMA OrderedConcat ==
  ASSUME NEW old \in Seq(Record), NEW E \in Seq(Record), NEW k \in Key, NEW k2 \in Key,
         Ordered(old, k), Ordered(E, k2), From(E, k), ~Before(k2, k)
  PROVE  Ordered(old \o E, k2)
<1> DEFINE new == old \o E
<1> USE DEF Ordered, From
<1>1. /\ Len(old) \in Nat /\ Len(E) \in Nat /\ Len(new) = Len(old) + Len(E)
      /\ \A i \in 1..Len(new) : new[i] = IF i <= Len(old) THEN old[i] ELSE E[i - Len(old)]
  BY ConcatElements, LenProperties
<1>a. SUFFICES Ordered(new, k2)
  OBVIOUS
<1> HIDE DEF new
<1>2. k.gen \in Nat /\ k.seq \in Nat /\ k2.gen \in Nat /\ k2.seq \in Nat
  BY KeyFacts
<1>3. ASSUME NEW i \in 1..Len(new) PROVE Before(new[i], k2)
  <2>1. CASE i <= Len(old)
    <3>1. new[i] = old[i] /\ old[i].gen \in Nat /\ old[i].seq \in Nat /\ Before(old[i], k)
      BY <1>1, <2>1, RecordFacts
    <3>2. QED BY <1>2, <3>1, BeforeFacts
  <2>2. CASE ~(i <= Len(old))
    <3>1. i - Len(old) \in 1..Len(E) /\ new[i] = E[i - Len(old)]
      BY <1>1, <2>2
    <3>2. QED BY <3>1
  <2>3. QED BY <2>1, <2>2
<1>4. ASSUME NEW i \in 1..Len(new), NEW j \in 1..Len(new), i < j
      PROVE  Before(new[i], new[j])
  <2>1. CASE j <= Len(old)
    <3>1. i \in 1..Len(old) /\ j \in 1..Len(old) /\ new[i] = old[i] /\ new[j] = old[j]
      BY <1>1, <1>4, <2>1
    <3>2. QED BY <1>4, <3>1
  <2>2. CASE i <= Len(old) /\ ~(j <= Len(old))
    <3>1. /\ i \in 1..Len(old) /\ new[i] = old[i]
          /\ j - Len(old) \in 1..Len(E) /\ new[j] = E[j - Len(old)]
      BY <1>1, <2>2
    <3>2. new[i].gen \in Nat /\ new[i].seq \in Nat /\ new[j].gen \in Nat /\ new[j].seq \in Nat
      BY <3>1, RecordFacts
    <3>3. QED BY <1>2, <3>1, <3>2, BeforeFacts
  <2>3. CASE ~(i <= Len(old))
    <3>1. /\ i - Len(old) \in 1..Len(E) /\ new[i] = E[i - Len(old)]
          /\ j - Len(old) \in 1..Len(E) /\ new[j] = E[j - Len(old)]
          /\ i - Len(old) < j - Len(old)
      BY <1>1, <1>4, <2>3
    <3>2. QED BY <3>1
  <2>4. QED BY <2>1, <2>2, <2>3
<1>5. QED BY <1>3, <1>4

(* The same for the property that a KeyUpdate ends its key.                 *)
LEMMA UpdatesConcat ==
  ASSUME NEW old \in Seq(Record), NEW E \in Seq(Record), NEW k \in Key, NEW k2 \in Key,
         Ends(old, k), Ends(E, k2), From(E, k), ~Before(k2, k)
  PROVE  Ends(old \o E, k2)
<1> DEFINE new == old \o E
<1> USE DEF Ends, From
<1>1. /\ Len(old) \in Nat /\ Len(E) \in Nat /\ Len(new) = Len(old) + Len(E)
      /\ \A i \in 1..Len(new) : new[i] = IF i <= Len(old) THEN old[i] ELSE E[i - Len(old)]
  BY ConcatElements, LenProperties
<1>a. SUFFICES Ends(new, k2)
  OBVIOUS
<1> HIDE DEF new
<1>2. k.gen \in Nat /\ k.seq \in Nat /\ k2.gen \in Nat /\ k2.seq \in Nat /\ k.gen <= k2.gen
  BY KeyFacts, BeforeFacts
<1>3. \A i \in 1..Len(E) : E[i].gen \in Nat /\ k.gen <= E[i].gen
  BY <1>2, RecordFacts, BeforeFacts
<1>4. ASSUME NEW i \in 1..Len(new), new[i].type = "KEY_UPDATE"
      PROVE  /\ new[i].gen < k2.gen
             /\ \A j \in 1..Len(new) : i < j => new[i].gen < new[j].gen
  <2>1. CASE i <= Len(old)
    <3>1. /\ i \in 1..Len(old) /\ new[i] = old[i] /\ old[i].gen \in Nat
          /\ old[i].gen < k.gen
          /\ \A j \in 1..Len(old) : i < j => old[i].gen < old[j].gen
      BY <1>1, <1>4, <2>1, RecordFacts
    <3>2. ASSUME NEW j \in 1..Len(new), i < j PROVE new[i].gen < new[j].gen
      <4>1. CASE j <= Len(old)
        BY <1>1, <3>1, <3>2, <4>1
      <4>2. CASE ~(j <= Len(old))
        <5>1. j - Len(old) \in 1..Len(E) /\ new[j] = E[j - Len(old)]
          BY <1>1, <4>2
        <5>2. new[j].gen \in Nat /\ k.gen <= new[j].gen
          BY <1>3, <5>1
        <5>3. new[i].gen \in Nat /\ new[i].gen < k.gen
          BY <3>1
        <5>4. QED BY <1>2, <5>2, <5>3
      <4>3. QED BY <4>1, <4>2
    <3>3. QED BY <1>2, <3>1, <3>2
  <2>2. CASE ~(i <= Len(old))
    <3>1. i - Len(old) \in 1..Len(E) /\ new[i] = E[i - Len(old)]
      BY <1>1, <2>2
    <3>2. \A j \in 1..Len(new) : i < j => /\ j - Len(old) \in 1..Len(E)
                                          /\ new[j] = E[j - Len(old)]
                                          /\ i - Len(old) < j - Len(old)
      BY <1>1, <2>2
    <3>3. QED BY <1>4, <3>1, <3>2
  <2>3. QED BY <2>1, <2>2
<1>5. QED BY <1>4

(* Sealing the records E and moving the send key past them; W goes out, of  *)
(* E and headers without a body.                                            *)
LEMMA EmitStep ==
  ASSUME Inv, TypeOK',
         NEW s \in Side, NEW E \in Seq(Record), NEW W \in Seq(Packet),
         sent' = [sent EXCEPT ![s] = @ \o E],
         wire' = [wire EXCEPT ![s] = @ \o W],
         \A i \in 1..Len(W) : W[i] = Stub \/ \E j \in 1..Len(E) : W[i] = E[j],
         got' = got, dec' = dec, rx' = rx, clear' = clear,
         \A t \in Side : t # s => enc'[t] = enc[t],
         ~Before(enc'[s], enc[s]), Ordered(E, enc'[s]), Ends(E, enc'[s]), From(E, enc[s])
  PROVE  Inv'
<1>1. /\ sent[s] \in Seq(Record) /\ wire[s] \in Seq(Packet)
      /\ sent'[s] = sent[s] \o E /\ wire'[s] = wire[s] \o W
      /\ \A t \in Side : t # s => sent'[t] = sent[t] /\ wire'[t] = wire[t]
      /\ enc[s] \in Key /\ enc'[s] \in Key
      /\ ~Before(enc'[s], enc[s]) /\ Ordered(E, enc'[s]) /\ Ends(E, enc'[s]) /\ From(E, enc[s])
      /\ E \in Seq(Record) /\ W \in Seq(Packet)
  BY DEF Inv, TypeOK
<1>2. NonceUnique'
  <2>1. Ordered(sent[s], enc[s])
    BY DEF Inv, NonceUnique, Ordered
  <2>2. Ordered(sent'[s], enc'[s])
    BY ONLY <1>1, <2>1, OrderedConcat
  <2>3. QED
    BY <1>1, <2>2 DEF NonceUnique, Inv, Ordered
<1>3. UpdateEndsKey'
  <2>1. Ends(sent[s], enc[s])
    BY DEF Inv, UpdateEndsKey, Ends
  <2>2. Ends(sent'[s], enc'[s])
    BY ONLY <1>1, <2>1, UpdatesConcat
  <2>3. ASSUME NEW t \in Side PROVE Ends(sent'[t], enc'[t])
    <3>1. CASE t = s
      BY <2>2, <3>1
    <3>2. CASE t # s
      <4>1. Ends(sent[t], enc[t])
        BY DEF Inv, UpdateEndsKey, Ends
      <4>2. sent'[t] = sent[t] /\ enc'[t] = enc[t]
        BY <1>1, <3>2
      <4>3. QED BY <4>1, <4>2
    <3>3. QED BY <3>1, <3>2
  <2>4. QED
    BY <2>3 DEF UpdateEndsKey, Ends
<1>4. /\ Len(sent[s]) \in Nat /\ Len(wire[s]) \in Nat /\ Len(E) \in Nat /\ Len(W) \in Nat
      /\ Len(sent'[s]) = Len(sent[s]) + Len(E) /\ Len(wire'[s]) = Len(wire[s]) + Len(W)
      /\ \A i \in 1..Len(sent'[s]) :
            sent'[s][i] = IF i <= Len(sent[s]) THEN sent[s][i] ELSE E[i - Len(sent[s])]
      /\ \A i \in 1..Len(wire'[s]) :
            wire'[s][i] = IF i <= Len(wire[s]) THEN wire[s][i] ELSE W[i - Len(wire[s])]
  BY ONLY <1>1, ConcatElements, LenProperties
<1>5. WireSent'
  <2>1. ASSUME NEW i \in 1..Len(wire'[s]) PROVE Known(s, wire[s][i])'
    <3>1. CASE i <= Len(wire[s])
      <4>1. i \in 1..Len(wire[s]) /\ wire'[s][i] = wire[s][i]
        BY <1>4, <3>1
      <4>2. Known(s, wire[s][i])
        BY <4>1 DEF Inv, WireSent, Known
      <4>3. ASSUME NEW j \in 1..Len(sent[s])
            PROVE  j \in 1..Len(sent'[s]) /\ sent'[s][j] = sent[s][j]
        <5>1. j \in 1..Len(sent'[s])
          BY ONLY <1>4, j \in 1..Len(sent[s])
        <5>2. j <= Len(sent[s])
          BY ONLY <1>4, j \in 1..Len(sent[s])
        <5>3. QED BY ONLY <1>4, <5>1, <5>2
      <4>4. clear'[s] = clear[s]
        OBVIOUS
      <4>5. QED BY ONLY <4>1, <4>2, <4>3, <4>4 DEF Known
    <3>2. CASE ~(i <= Len(wire[s]))
      <4>1. PICK m \in 1..Len(W) : m = i - Len(wire[s])
        BY <1>4, <3>2
      <4>2. wire'[s][i] = W[m]
        BY <1>4, <3>2, <4>1
      <4>3. CASE W[m] = Stub
        BY <4>2, <4>3 DEF Known
      <4>4. ASSUME NEW j \in 1..Len(E), W[m] = E[j] PROVE Known(s, wire[s][i])'
        <5>1. Len(sent[s]) + j \in 1..Len(sent'[s]) /\ sent'[s][Len(sent[s]) + j] = E[j]
          <6>1. /\ Len(sent[s]) + j \in 1..Len(sent'[s]) /\ ~(Len(sent[s]) + j <= Len(sent[s]))
                /\ (Len(sent[s]) + j) - Len(sent[s]) = j
            <7>1. Len(E) \in Nat /\ Len(sent[s]) \in Nat /\ Len(sent'[s]) = Len(sent[s]) + Len(E)
              BY <1>4
            <7>2. QED BY ONLY <7>1, j \in 1..Len(E), SMTT(30)
          <6>2. QED BY ONLY <1>4, <6>1
        <5>2. QED BY <4>2, <4>4, <5>1 DEF Known
      <4>5. QED BY <4>3, <4>4
    <3>3. QED BY <3>1, <3>2
  <2>2. ASSUME NEW t \in Side, t # s, NEW i \in 1..Len(wire'[t]) PROVE Known(t, wire[t][i])'
    <3>1. wire'[t] = wire[t] /\ sent'[t] = sent[t] /\ clear'[t] = clear[t]
      BY <1>1, <2>2
    <3>2. Known(t, wire[t][i])
      BY <3>1 DEF Inv, WireSent, Known
    <3>3. QED BY ONLY <3>1, <3>2 DEF Known
  <2>3. QED
    BY ONLY <2>1, <2>2 DEF WireSent, Known
<1>6. Position'
  <2> SUFFICES ASSUME NEW t \in Side, rx[t] = "ok"
      PROVE  /\ ~Before(enc'[Peer(t)], dec[t])
             /\ \A i \in 1..Len(sent'[Peer(t)]) :
                   IF i <= Len(got[t]) THEN Before(sent'[Peer(t)][i], dec[t])
                                       ELSE ~Before(sent'[Peer(t)][i], dec[t])
    BY DEF Position
  <2>1. /\ ~Before(enc[Peer(t)], dec[t])
        /\ \A i \in 1..Len(sent[Peer(t)]) :
              IF i <= Len(got[t]) THEN Before(sent[Peer(t)][i], dec[t])
                                  ELSE ~Before(sent[Peer(t)][i], dec[t])
        /\ Len(got[t]) <= Len(sent[Peer(t)]) /\ Len(got[t]) \in Nat
    BY LenProperties DEF Inv, Position, InOrder, TypeOK
  <2>2. CASE Peer(t) = s
    <3>1. /\ dec[t].gen \in Nat /\ dec[t].seq \in Nat
          /\ enc[s].gen \in Nat /\ enc[s].seq \in Nat /\ enc'[s].gen \in Nat /\ enc'[s].seq \in Nat
      BY <1>1, KeyFacts DEF Inv, TypeOK
    <3>2. ~Before(enc'[s], dec[t])
      BY <2>1, <2>2, <3>1, BeforeFacts
    <3>3. ASSUME NEW i \in 1..Len(E) PROVE ~Before(E[i], dec[t])
      <4>1. E[i].gen \in Nat /\ E[i].seq \in Nat
        BY RecordFacts
      <4>2. QED BY <2>1, <2>2, <3>1, <4>1, BeforeFacts DEF From
    <3>4. ASSUME NEW i \in 1..Len(sent'[s])
          PROVE  IF i <= Len(got[t]) THEN Before(sent'[s][i], dec[t])
                                     ELSE ~Before(sent'[s][i], dec[t])
      <4>1. CASE i <= Len(sent[s])
        BY <1>4, <2>1, <2>2, <4>1
      <4>2. CASE ~(i <= Len(sent[s]))
        <5>1. /\ i - Len(sent[s]) \in 1..Len(E) /\ sent'[s][i] = E[i - Len(sent[s])]
              /\ ~(i <= Len(got[t]))
          BY <1>4, <2>1, <2>2, <4>2
        <5>2. QED BY <3>3, <5>1
      <4>3. QED BY <4>1, <4>2
    <3>5. QED BY <2>2, <3>2, <3>4
  <2>3. CASE Peer(t) # s
    BY <1>1, <2>1, <2>3, PeerFacts
  <2>4. QED BY <2>2, <2>3
<1>7. InOrder'
  <2> SUFFICES ASSUME NEW t \in Side
      PROVE  /\ Len(got[t]) <= Len(sent'[Peer(t)])
             /\ \A i \in 1..Len(got[t]) : got[t][i] = sent'[Peer(t)][i]
    BY DEF InOrder
  <2>1. /\ Len(got[t]) <= Len(sent[Peer(t)]) /\ Len(got[t]) \in Nat
        /\ \A i \in 1..Len(got[t]) : got[t][i] = sent[Peer(t)][i]
    BY LenProperties DEF Inv, InOrder, TypeOK
  <2>2. CASE Peer(t) = s
    BY <1>4, <2>1, <2>2
  <2>3. CASE Peer(t) # s
    BY <1>1, <2>1, <2>3, PeerFacts
  <2>4. QED BY <2>2, <2>3
<1>8. QED
  BY <1>2, <1>3, <1>5, <1>6, <1>7 DEF Inv

(* A step that only moves the send key forward or changes the network       *)
(* keeps the invariant, as long as the network holds emitted records only.  *)
LEMMA OtherStep ==
  ASSUME Inv, TypeOK', WireSent',
         sent' = sent, got' = got, dec' = dec,
         \A s \in Side : rx'[s] = "ok" => rx[s] = "ok",
         \A s \in Side : ~Before(enc'[s], enc[s])
  PROVE  Inv'
<1>1. \A s \in Side : /\ enc[s].gen \in Nat /\ enc[s].seq \in Nat
                      /\ enc'[s].gen \in Nat /\ enc'[s].seq \in Nat
                      /\ dec[s].gen \in Nat /\ dec[s].seq \in Nat
  BY KeyFacts DEF Inv, TypeOK
<1>2. \A s \in Side : sent[s] \in Seq(Record)
  BY DEF Inv, TypeOK
<1>3. NonceUnique'
  <2> SUFFICES ASSUME NEW s \in Side, NEW i \in 1..Len(sent[s]) PROVE Before(sent[s][i], enc'[s])
    BY DEF NonceUnique, Inv
  <2>1. Before(sent[s][i], enc[s]) /\ sent[s][i].gen \in Nat /\ sent[s][i].seq \in Nat
    BY <1>2, RecordFacts DEF Inv, NonceUnique
  <2>2. QED BY <1>1, <2>1, BeforeFacts
<1>4. UpdateEndsKey'
  <2>1. \A s \in Side : enc[s].gen <= enc'[s].gen
    BY <1>1, BeforeFacts
  <2> SUFFICES ASSUME NEW s \in Side, NEW i \in 1..Len(sent[s]), sent[s][i].type = "KEY_UPDATE"
               PROVE  sent[s][i].gen < enc'[s].gen
    BY DEF UpdateEndsKey, Inv
  <2>2. sent[s][i].gen < enc[s].gen /\ sent[s][i].gen \in Nat
    BY <1>2, RecordFacts DEF Inv, UpdateEndsKey
  <2>3. QED BY <1>1, <2>1, <2>2
<1>5. Position'
  <2> SUFFICES ASSUME NEW s \in Side, rx[s] = "ok" PROVE ~Before(enc'[Peer(s)], dec[s])
    BY DEF Position, Inv
  <2>1. ~Before(enc[Peer(s)], dec[s]) /\ Peer(s) \in Side
    BY PeerFacts DEF Inv, Position
  <2>2. QED BY <1>1, <2>1, BeforeFacts
<1>6. InOrder'
  BY DEF InOrder, Inv
<1>7. QED
  BY <1>3, <1>4, <1>5, <1>6 DEF Inv

(* Taking the first packet off a wire leaves packets that may be there.     *)
LEMMA ConsumeWire ==
  ASSUME TypeOK, WireSent, NEW s \in Side, wire[s] # <<>>,
         wire' = [wire EXCEPT ![s] = Tail(@)], sent' = sent, clear' = clear
  PROVE  WireSent'
<1>1. /\ wire[s] \in Seq(Packet) /\ wire'[s] = Tail(wire[s])
      /\ wire[s] # <<>>
      /\ \A t \in Side : t # s => wire'[t] = wire[t]
  BY DEF TypeOK
<1>2. /\ Len(wire[s]) \in Nat /\ Len(wire'[s]) = Len(wire[s]) - 1
      /\ \A i \in 1..Len(wire'[s]) : wire'[s][i] = wire[s][i + 1]
  BY ONLY <1>1, HeadTailProperties, LenProperties
<1>3. ASSUME NEW i \in 1..Len(wire'[s]) PROVE Known(s, wire[s][i])'
  <2>1. i + 1 \in 1..Len(wire[s]) /\ wire'[s][i] = wire[s][i + 1]
    BY <1>2
  <2>2. Known(s, wire[s][i + 1])
    BY <2>1 DEF WireSent, Known
  <2>3. QED BY <2>1, <2>2 DEF Known
<1>4. ASSUME NEW t \in Side, t # s, NEW i \in 1..Len(wire'[t]) PROVE Known(t, wire[t][i])'
  <2>1. wire'[t] = wire[t]
    BY <1>1, <1>4
  <2>2. Known(t, wire[t][i])
    BY <2>1 DEF WireSent, Known
  <2>3. QED BY <2>1, <2>2 DEF Known
<1>5. QED
  BY ONLY <1>3, <1>4 DEF WireSent, Known

(* So does leaving the wires alone.                                         *)
LEMMA SameWire ==
  ASSUME WireSent, UNCHANGED <<wire, sent, clear>>
  PROVE  WireSent'
<1>1. \A s \in Side : \A i \in 1..Len(wire[s]) : Known(s, wire[s][i])
  BY DEF WireSent, Known
<1>2. \A s \in Side : \A i \in 1..Len(wire'[s]) : Known(s, wire[s][i])'
  BY <1>1 DEF Known
<1>3. QED
  BY ONLY <1>2 DEF WireSent, Known

(* So does putting a packet that may be there anywhere on it.               *)
LEMMA AddWire ==
  ASSUME TypeOK, WireSent, NEW s \in Side, NEW p \in Packet, sent' = sent,
         wire' = [wire EXCEPT ![s] = <<p>> \o @] \/ wire' = [wire EXCEPT ![s] = Append(@, p)],
         Known(s, p)', \A t \in Side : clear[t] > 0 => clear'[t] > 0
  PROVE  WireSent'
<1>1. /\ wire[s] \in Seq(Packet) /\ <<p>> \in Seq(Packet)
      /\ wire'[s] = <<p>> \o wire[s] \/ wire'[s] = wire[s] \o <<p>>
      /\ \A t \in Side : t # s => wire'[t] = wire[t]
  BY AppendIsConcat, SMTT(30) DEF TypeOK
<1>2. Len(<<p>>) = 1 /\ <<p>>[1] = p /\ Len(wire[s]) \in Nat
  BY <1>1, LenProperties
<1>3. ASSUME NEW i \in 1..Len(wire'[s])
      PROVE  wire'[s][i] = p \/ \E j \in 1..Len(wire[s]) : wire'[s][i] = wire[s][j]
  <2>1. CASE wire'[s] = <<p>> \o wire[s]
    <3>1. /\ Len(wire'[s]) = 1 + Len(wire[s])
          /\ wire'[s][i] = IF i <= 1 THEN <<p>>[i] ELSE wire[s][i - 1]
      BY <1>1, <1>2, <2>1, ConcatElements
    <3>2. CASE i = 1
      BY <1>2, <3>1, <3>2
    <3>3. CASE i # 1
      <4>1. i - 1 \in 1..Len(wire[s]) /\ wire'[s][i] = wire[s][i - 1]
        BY <1>2, <3>1, <3>3
      <4>2. QED BY <4>1
    <3>4. QED BY <3>2, <3>3
  <2>2. CASE wire'[s] = wire[s] \o <<p>>
    <3>1. /\ Len(wire'[s]) = Len(wire[s]) + 1
          /\ wire'[s][i] = IF i <= Len(wire[s]) THEN wire[s][i] ELSE <<p>>[i - Len(wire[s])]
      BY <1>1, <1>2, <2>2, ConcatElements
    <3>2. CASE i <= Len(wire[s])
      BY <1>2, <3>1, <3>2
    <3>3. CASE ~(i <= Len(wire[s]))
      <4>1. i - Len(wire[s]) = 1
        BY <1>2, <3>1, <3>3
      <4>2. QED BY <1>2, <3>1, <3>3, <4>1
    <3>4. QED BY <3>2, <3>3
  <2>3. QED BY <1>1, <2>1, <2>2
<1>4. ASSUME NEW i \in 1..Len(wire'[s]) PROVE Known(s, wire[s][i])'
  <2>1. CASE wire'[s][i] = p
    BY <2>1 DEF Known
  <2>2. ASSUME NEW j \in 1..Len(wire[s]), wire'[s][i] = wire[s][j] PROVE Known(s, wire[s][i])'
    <3>1. Known(s, wire[s][j])
      BY DEF WireSent, Known
    <3>2. QED BY <2>2, <3>1 DEF Known
  <2>3. QED BY <1>3, <2>1, <2>2
<1>5. ASSUME NEW t \in Side, t # s, NEW i \in 1..Len(wire'[t]) PROVE Known(t, wire[t][i])'
  <2>1. wire'[t] = wire[t]
    BY <1>1, <1>5
  <2>2. Known(t, wire[t][i])
    BY <2>1 DEF WireSent, Known
  <2>3. QED BY <2>1, <2>2 DEF Known
<1>6. QED
  BY ONLY <1>4, <1>5 DEF WireSent, Known

(* The record at the head of the wire that opens under dec[s] is the next   *)
(* one of the peer's emission.                                              *)
LEMMA OpensNext ==
  ASSUME Inv, NEW s \in Side, Arrived(s), Opens(dec[s], Head1(s))
  PROVE  /\ Len(got[s]) < Len(sent[Peer(s)])
         /\ Head1(s) = sent[Peer(s)][Len(got[s]) + 1]
         /\ Head1(s) \in Record
<1> DEFINE p == Peer(s)
           n == Len(got[s])
<1>1. /\ p \in Side /\ wire[p] \in Seq(Packet) /\ sent[p] \in Seq(Record) /\ wire[p] # <<>>
      /\ n \in Nat /\ Len(sent[p]) \in Nat
  BY PeerFacts, LenProperties DEF Inv, TypeOK, Arrived
<1>2. 1 \in 1..Len(wire[p])
  BY <1>1, EmptySeq
<1>a. dec[s] \in Key /\ rx[s] = "ok"
  BY DEF Inv, TypeOK, Arrived
<1>b. wire[p][1] # Stub /\ wire[p][1] # PlainAlert
  BY <1>a, PacketFacts DEF Head1
<1>3. PICK j \in 1..Len(sent[p]) : wire[p][1] = sent[p][j]
  BY <1>1, <1>2, <1>b DEF Inv, WireSent
<1>4. /\ dec[s].gen \in Nat /\ dec[s].seq \in Nat
      /\ sent[p][j].gen = dec[s].gen /\ sent[p][j].seq = dec[s].seq
  BY <1>3, KeyFacts DEF Inv, TypeOK, Opens, Head1
<1>5. ~Before(sent[p][j], dec[s])
  BY <1>4 DEF Before
<1>6. ~(j <= n)
  BY <1>1, <1>a, <1>5 DEF Inv, Position
<1>7. j = n + 1
  <2> SUFFICES ASSUME n + 1 < j PROVE FALSE
    BY <1>1, <1>6
  <2>1. n + 1 \in 1..Len(sent[p])
    BY <1>1
  <2>2. Before(sent[p][n + 1], sent[p][j])
    BY <1>1, <2>1 DEF Inv, NonceUnique
  <2>3. ~Before(sent[p][n + 1], dec[s])
    BY <1>1, <1>a, <2>1 DEF Inv, Position
  <2>4. sent[p][n + 1].gen \in Nat /\ sent[p][n + 1].seq \in Nat
    BY <1>1, <2>1, RecordFacts
  <2>5. QED
    BY <1>4, <2>2, <2>3, <2>4 DEF Before
<1>8. QED
  BY <1>1, <1>3, <1>7, RecordFacts DEF Head1

(* Decrypting the next record, and moving the receive key past it but not   *)
(* past the records that follow, unless s stops receiving.                  *)
LEMMA DecryptStep ==
  ASSUME Inv, TypeOK', NEW s \in Side, Arrived(s), Opens(dec[s], Head1(s)),
         Consume(s), sent' = sent, enc' = enc, clear' = clear,
         got' = [got EXCEPT ![s] = Append(@, Head1(s))],
         \A t \in Side : t # s => dec'[t] = dec[t] /\ rx'[t] = rx[t],
         \/ rx'[s] # "ok"
         \/ dec'[s].gen = dec[s].gen /\ dec'[s].seq = dec[s].seq + 1
         \/ dec'[s].gen = dec[s].gen + 1 /\ dec'[s].seq = 0 /\ Head1(s).type = "KEY_UPDATE"
  PROVE  Inv'
<1> DEFINE p == Peer(s)
           n == Len(got[s])
<1>1. /\ n < Len(sent[p]) /\ Head1(s) = sent[p][n + 1] /\ Head1(s) \in Record
  BY OpensNext
<1>2. /\ p \in Side /\ p # s /\ sent[p] \in Seq(Record) /\ got[s] \in Seq(Record)
      /\ n \in Nat /\ Len(sent[p]) \in Nat
  BY PeerFacts, LenProperties DEF Inv, TypeOK
<1>3. WireSent'
  BY <1>2, ConsumeWire DEF Inv, Arrived, Consume
<1>4. NonceUnique' /\ UpdateEndsKey'
  BY DEF Inv, NonceUnique, UpdateEndsKey
<1>5. /\ Len(got'[s]) = n + 1
      /\ \A i \in 1..n : got'[s][i] = got[s][i]
      /\ got'[s][n + 1] = sent[p][n + 1]
      /\ \A t \in Side : t # s => got'[t] = got[t] /\ dec'[t] = dec[t]
  <2>1. got'[s] = Append(got[s], Head1(s)) /\ \A t \in Side : t # s => got'[t] = got[t]
    BY DEF Inv, TypeOK
  <2>2. Len(got'[s]) = n + 1 /\ got'[s][n + 1] = Head1(s)
        /\ \A i \in 1..n : got'[s][i] = got[s][i]
    BY ONLY <1>1, <1>2, <2>1, AppendProperties
  <2>3. QED
    BY <1>1, <2>1, <2>2
<1>6. InOrder'
  <2>1. \A i \in 1..n : got[s][i] = sent[p][i]
    BY DEF Inv, InOrder
  <2>2. \A i \in 1..(n + 1) : got'[s][i] = sent[p][i]
    BY <1>2, <1>5, <2>1
  <2>3. \A t \in Side : t # s => /\ Len(got[t]) <= Len(sent[Peer(t)])
                                 /\ \A i \in 1..Len(got[t]) : got[t][i] = sent[Peer(t)][i]
    BY DEF Inv, InOrder
  <2>4. sent' = sent /\ n + 1 <= Len(sent[p])
    BY <1>1, <1>2
  <2>5. QED
    BY ONLY <1>5, <2>2, <2>3, <2>4 DEF InOrder
<1>7. /\ dec[s].gen \in Nat /\ dec[s].seq \in Nat /\ dec'[s].gen \in Nat /\ dec'[s].seq \in Nat
      /\ enc[p].gen \in Nat /\ enc[p].seq \in Nat
  BY <1>2, KeyFacts DEF Inv, TypeOK
<1>8. /\ sent[p][n + 1].gen = dec[s].gen /\ sent[p][n + 1].seq = dec[s].seq
      /\ n + 1 \in 1..Len(sent[p])
  BY <1>1, <1>2 DEF Opens
<1>9. ASSUME rx'[s] = "ok"
      PROVE  /\ ~Before(enc[p], dec'[s])
             /\ \A i \in 1..Len(sent[p]) : IF i <= n + 1 THEN Before(sent[p][i], dec'[s])
                                                         ELSE ~Before(sent[p][i], dec'[s])
  <2>a. /\ Before(dec[s], dec'[s])
        /\ \/ dec'[s].gen = dec[s].gen /\ dec'[s].seq = dec[s].seq + 1
           \/ dec'[s].gen = dec[s].gen + 1 /\ dec'[s].seq = 0 /\ Head1(s).type = "KEY_UPDATE"
    BY <1>7, <1>9 DEF Before
  <2>b. ASSUME NEW r, r.gen \in Nat, r.seq \in Nat, Before(sent[p][n + 1], r),
               sent[p][n + 1].type = "KEY_UPDATE" => sent[p][n + 1].gen < r.gen
        PROVE  ~Before(r, dec'[s])
    BY <1>1, <1>7, <1>8, <2>a, <2>b, SMTT(30) DEF Before
  <2>c. rx[s] = "ok"
    BY DEF Arrived
  <2>1. ~Before(enc[p], dec'[s])
    <3>1. /\ Before(sent[p][n + 1], enc[p])
          /\ sent[p][n + 1].type = "KEY_UPDATE" => sent[p][n + 1].gen < enc[p].gen
      BY <1>2, <1>8 DEF Inv, NonceUnique, UpdateEndsKey
    <3>2. QED BY <1>7, <2>b, <3>1
  <2>2. ASSUME NEW i \in 1..Len(sent[p]), i <= n + 1 PROVE Before(sent[p][i], dec'[s])
    <3>1. CASE i = n + 1
      BY <1>7, <1>8, <2>a, <3>1 DEF Before
    <3>2. CASE i # n + 1
      <4>1. Before(sent[p][i], dec[s]) /\ sent[p][i].gen \in Nat /\ sent[p][i].seq \in Nat
        <5>1. i <= n
          BY <1>2, <2>2, <3>2
        <5>2. QED BY <1>2, <2>c, <5>1, RecordFacts DEF Inv, Position
      <4>2. QED BY <1>7, <2>a, <4>1, SMTT(30) DEF Before
    <3>3. QED BY <3>1, <3>2
  <2>3. ASSUME NEW i \in 1..Len(sent[p]), ~(i <= n + 1) PROVE ~Before(sent[p][i], dec'[s])
    <3>1. n + 1 < i
      BY <1>2, <2>3
    <3>2. /\ Before(sent[p][n + 1], sent[p][i])
          /\ sent[p][n + 1].type = "KEY_UPDATE" => sent[p][n + 1].gen < sent[p][i].gen
      BY <1>2, <1>8, <3>1 DEF Inv, NonceUnique, UpdateEndsKey
    <3>3. sent[p][i].gen \in Nat /\ sent[p][i].seq \in Nat
      BY <1>2, RecordFacts
    <3>4. QED BY <2>b, <3>2, <3>3
  <2>4. QED BY <2>1, <2>2, <2>3
<1>10. Position'
  <2>1. \A t \in Side : t # s /\ rx[t] = "ok" =>
           /\ ~Before(enc[Peer(t)], dec[t])
           /\ \A i \in 1..Len(sent[Peer(t)]) :
                IF i <= Len(got[t]) THEN Before(sent[Peer(t)][i], dec[t])
                                    ELSE ~Before(sent[Peer(t)][i], dec[t])
    BY DEF Inv, Position
  <2>2. sent' = sent /\ enc' = enc /\ \A t \in Side : t # s => rx'[t] = rx[t]
    OBVIOUS
  <2>3. QED
    BY ONLY <1>5, <1>9, <2>1, <2>2 DEF Position
<1>11. QED
  BY <1>3, <1>4, <1>6, <1>10 DEF Inv

(* The records of one ptls_send lie between the send keys around the call.  *)
LEMMA EmissionOrder ==
  ASSUME TypeOK, NEW s \in Side, NEW n \in 0..MaxChunks, NEW k2 \in Key,
         k2 = Advance(SendKey(s), n)
  PROVE  /\ Ordered(Emission(s, n), k2) /\ Ends(Emission(s, n), k2)
         /\ From(Emission(s, n), enc[s])
         /\ ~Before(k2, enc[s])
<1> DEFINE E == Emission(s, n)
<1>1. n \in Nat /\ enc[s].gen \in Nat /\ enc[s].seq \in Nat
  BY LimitsAssumption, KeyFacts DEF TypeOK
<1>2. CASE MustUpdate(s)
  <2>1. k2.gen = enc[s].gen + 1 /\ k2.seq = n
    <3>1. /\ SendKey(s) \in Key
          /\ SendKey(s).gen = enc[s].gen + 1 /\ SendKey(s).seq = 0
      BY <1>2, KeyFacts DEF SendKey, TypeOK
    <3>2. k2.gen = SendKey(s).gen /\ k2.seq = SendKey(s).seq + n
      BY <1>1, <3>1, KeyFacts
    <3>3. QED BY <1>1, <3>1, <3>2
  <2>2. Len(E) = 1 + n
    BY <1>2, EmissionType
  <2>3. \A i \in 1..Len(E) :
           /\ i = 1 => E[i].gen = enc[s].gen /\ E[i].seq = enc[s].seq
           /\ i # 1 => E[i].gen = enc[s].gen + 1 /\ E[i].seq = i - 2 /\ E[i].type = "APPDATA"
    BY <1>2, EmissionElements
  <2> HIDE DEF E
  <2>4. Ordered(E, k2) /\ From(E, enc[s]) /\ ~Before(k2, enc[s])
    BY <1>1, <2>1, <2>2, <2>3, SMTT(30) DEF Ordered, From, Before
  <2>5. Ends(E, k2)
    BY <1>1, <2>1, <2>2, <2>3 DEF Ends
  <2>6. QED
    BY <2>4, <2>5 DEF E
<1>3. CASE ~MustUpdate(s)
  <2>1. k2.gen = enc[s].gen /\ k2.seq = enc[s].seq + n
    BY <1>1, <1>3, KeyFacts DEF SendKey, TypeOK
  <2>2. Len(E) = n
    BY <1>1, <1>3, EmissionType
  <2>3. \A i \in 1..Len(E) :
           E[i].gen = enc[s].gen /\ E[i].seq = enc[s].seq + i - 1 /\ E[i].type = "APPDATA"
    BY <1>3, EmissionElements
  <2> HIDE DEF E
  <2>4. Ordered(E, k2) /\ From(E, enc[s]) /\ ~Before(k2, enc[s])
    BY <1>1, <2>1, <2>2, <2>3 DEF Ordered, From, Before
  <2>5. Ends(E, k2)
    BY <2>3 DEF Ends
  <2>6. QED
    BY <2>4, <2>5 DEF E
<1>4. QED BY <1>2, <1>3

(* Every step keeps the invariant: sending appends records behind the send  *)
(* key, receiving moves the receive key past exactly the record it opens.   *)
LEMMA NextInv == Inv /\ [Next]_vars => Inv'
<1> SUFFICES ASSUME Inv, [Next]_vars PROVE Inv'
  OBVIOUS
<1>1. TypeOK /\ TypeOK'
  BY NextTypeOK DEF Inv
<1>2. \A s \in Side : enc[s] \in Key /\ enc'[s] \in Key /\ ~Before(enc[s], enc[s])
  BY <1>1, KeyFacts, SMTT(30) DEF TypeOK, Before
<1>3. CASE UNCHANGED vars
  <2>1. UNCHANGED <<wire, sent, clear>>
    BY <1>3 DEF vars, history
  <2>a. WireSent'
    BY <2>1, SameWire DEF Inv
  <2>2. QED
    BY <1>1, <1>2, <1>3, <2>a, OtherStep DEF vars, keys, history
<1>4. ASSUME NEW s \in Side, Application(s) PROVE Inv'
  <2>1. ASSUME NEW r \in {0, 1}, ptls_update_key(s, r) PROVE Inv'
    <3>1. WireSent'
      BY <2>1, SameWire DEF ptls_update_key, Inv
    <3>2. QED
      BY <1>1, <1>2, <2>1, <3>1, OtherStep DEF ptls_update_key, keys
  <2>a. ASSUME NEW n \in 0..MaxChunks, SealRecords(s, n), NEW W \in Seq(Packet),
               wire' = [wire EXCEPT ![s] = @ \o W],
               \A i \in 1..Len(W) :
                  W[i] = Stub \/ \E j \in 1..Len(Emission(s, n)) : W[i] = Emission(s, n)[j]
        PROVE  Inv'
    <3>1. enc'[s] = Advance(SendKey(s), n) /\ \A t \in Side : t # s => enc'[t] = enc[t]
      BY <1>1, <2>a DEF SealRecords, TypeOK
    <3>2. /\ Ordered(Emission(s, n), enc'[s]) /\ Ends(Emission(s, n), enc'[s])
          /\ From(Emission(s, n), enc[s])
          /\ ~Before(enc'[s], enc[s])
      BY <1>1, <1>2, <3>1, EmissionOrder
    <3>3. Emission(s, n) \in Seq(Record)
      BY <1>1, EmissionType
    <3>4. /\ sent' = [sent EXCEPT ![s] = @ \o Emission(s, n)]
          /\ got' = got /\ dec' = dec /\ rx' = rx /\ clear' = clear
      BY <2>a DEF SealRecords
    <3>5. QED
      BY ONLY Inv, <1>1, s \in Side, W \in Seq(Packet), <2>a, <3>1, <3>2, <3>3, <3>4, EmitStep
  <2>2. ASSUME NEW n \in 0..MaxChunks, ptls_send(s, n) PROVE Inv'
    <3>1. Emission(s, n) \in Seq(Packet)
      BY <1>1, EmissionType, PacketFacts
    <3>2. QED
      BY <2>2, <2>a, <3>1 DEF ptls_send
  <2>b. ASSUME NEW n \in 0..(MaxChunks - 1), buffer_push_encrypted_records_fails(s, n)
        PROVE  Inv'
    <3>1. n \in 0..MaxChunks /\ SealRecords(s, n)
      BY <2>b, LimitsAssumption DEF buffer_push_encrypted_records_fails
    <3>2. PICK left \in Leftovers(s, n) : wire' = [wire EXCEPT ![s] = @ \o left]
      BY <2>b DEF buffer_push_encrypted_records_fails
    <3>3. QED
      BY <1>1, <2>a, <3>1, <3>2, LeftoverType
  <2>3. CASE ptls_send_fails(s)
    <3>1. WireSent'
      BY <2>3, SameWire DEF ptls_send_fails, history, Inv
    <3>2. PICK left \in {enc[s], Advance(enc[s], 1), NoAead(enc[s])} :
             enc' = [enc EXCEPT ![s] = left]
      BY <2>3 DEF ptls_send_fails
    <3>3. ~Before(left, enc[s])
      <4>1. /\ enc[s].gen \in Nat /\ enc[s].seq \in Nat
            /\ Advance(enc[s], 1).gen = enc[s].gen /\ Advance(enc[s], 1).seq = enc[s].seq + 1
            /\ NoAead(enc[s]).gen = enc[s].gen + 1
        BY <1>2, KeyFacts
      <4>2. QED BY <4>1 DEF Before
    <3>4. \A t \in Side : ~Before(enc'[t], enc[t])
      BY <1>1, <1>2, <3>2, <3>3 DEF TypeOK
    <3>5. sent' = sent /\ got' = got /\ dec' = dec /\ rx' = rx
      BY <2>3 DEF ptls_send_fails, history
    <3>6. QED
      BY ONLY Inv, <1>1, <3>1, <3>4, <3>5, OtherStep
  <2>4. CASE ptls_send_alert(s)
    <3> DEFINE E == <<Seal(enc[s], "ALERT", 0)>>
    <3>1. /\ E \in Seq(Record) /\ Len(E) = 1
          /\ E[1].gen = enc[s].gen /\ E[1].seq = enc[s].seq /\ E[1].type = "ALERT"
      BY <1>2, KeyFacts DEF Seal, Record, Type
    <3>2. enc'[s] = Advance(enc[s], 1) /\ \A t \in Side : t # s => enc'[t] = enc[t]
      BY <1>1, <2>4 DEF ptls_send_alert, TypeOK
    <3>3. /\ enc[s].gen \in Nat /\ enc[s].seq \in Nat
          /\ enc'[s].gen = enc[s].gen /\ enc'[s].seq = enc[s].seq + 1
      BY <1>2, <3>2, KeyFacts
    <3>4. /\ sent' = [sent EXCEPT ![s] = @ \o E]
          /\ wire' = [wire EXCEPT ![s] = @ \o E]
          /\ got' = got /\ dec' = dec /\ rx' = rx /\ clear' = clear
      <4>1. Seal(enc[s], "ALERT", 0) \in Record
        BY <1>2, KeyFacts DEF Seal, Record, Type
      <4>2. /\ Append(sent[s], Seal(enc[s], "ALERT", 0)) = sent[s] \o E
            /\ Append(wire[s], Seal(enc[s], "ALERT", 0)) = wire[s] \o E
        BY <1>1, <4>1, AppendIsConcat, PacketFacts DEF TypeOK
      <4>3. QED BY <2>4, <4>2 DEF ptls_send_alert
    <3> HIDE DEF E
    <3>5. Ordered(E, enc'[s]) /\ Ends(E, enc'[s]) /\ From(E, enc[s]) /\ ~Before(enc'[s], enc[s])
      BY <3>1, <3>3 DEF Ordered, Ends, From, Before
    <3>6. E \in Seq(Packet) /\ \A i \in 1..Len(E) : \E j \in 1..Len(E) : E[i] = E[j]
      BY <3>1, PacketFacts
    <3>7. QED
      BY ONLY Inv, <1>1, s \in Side, <3>1, <3>2, <3>4, <3>5, <3>6, EmitStep
  <2>5. CASE ptls_send_alert_clear(s)
    <3>1. /\ sent' = sent /\ got' = got /\ dec' = dec /\ enc' = enc /\ rx' = rx
          /\ wire' = [wire EXCEPT ![s] = Append(@, PlainAlert)]
          /\ clear' = [clear EXCEPT ![s] = @ + 1]
      BY <2>5 DEF ptls_send_alert_clear, keys
    <3>2. clear'[s] > 0 /\ \A t \in Side : clear[t] > 0 => clear'[t] > 0
      BY <1>1, <3>1, SMTT(30) DEF TypeOK
    <3>3. WireSent'
      <4>1. Known(s, PlainAlert)'
        BY <3>2 DEF Known
      <4>2. QED BY <1>1, <3>1, <3>2, <4>1, PacketFacts, AddWire DEF Inv
    <3>4. QED
      BY <1>1, <1>2, <3>1, <3>3, OtherStep
  <2>6. QED
    BY <1>4, <2>1, <2>2, <2>b, <2>3, <2>4, <2>5 DEF Application
<1>5. ASSUME NEW s \in Side, Receive(s) PROVE Inv'
  <2>1. /\ dec[s] \in Key /\ dec[s].gen \in Nat /\ dec[s].seq \in Nat
    BY <1>1, KeyFacts DEF TypeOK
  <2>2. CASE ReceiveRecord(s)
    <3>1. /\ Arrived(s) /\ Opens(dec[s], Head1(s)) /\ Consume(s) /\ sent' = sent /\ enc' = enc
          /\ got' = [got EXCEPT ![s] = Append(@, Head1(s))] /\ clear' = clear
          /\ dec' = [dec EXCEPT ![s] = Advance(@, 1)]
          /\ rx' = rx \/ rx' = [rx EXCEPT ![s] = "close_notify"]
      BY <2>2 DEF ReceiveRecord
    <3>2. /\ dec'[s].gen = dec[s].gen /\ dec'[s].seq = dec[s].seq + 1
          /\ \A t \in Side : t # s => dec'[t] = dec[t] /\ rx'[t] = rx[t]
      BY <1>1, <2>1, <3>1, KeyFacts DEF TypeOK
    <3>3. QED
      BY ONLY Inv, <1>1, s \in Side, <3>1, <3>2, DecryptStep
  <2>3. CASE handle_key_update(s)
    <3>1. /\ Arrived(s) /\ Opens(dec[s], Head1(s)) /\ Consume(s) /\ sent' = sent /\ enc' = enc
          /\ got' = [got EXCEPT ![s] = Append(@, Head1(s))] /\ clear' = clear /\ rx' = rx
          /\ dec' = [dec EXCEPT ![s] = update_traffic_key(@)]
          /\ Head1(s).type = "KEY_UPDATE"
      BY <2>3 DEF handle_key_update
    <3>2. /\ dec'[s].gen = dec[s].gen + 1 /\ dec'[s].seq = 0
          /\ \A t \in Side : t # s => dec'[t] = dec[t] /\ rx'[t] = rx[t]
      BY <1>1, <2>1, <3>1, KeyFacts DEF TypeOK
    <3>3. QED
      BY ONLY Inv, <1>1, s \in Side, <3>1, <3>2, DecryptStep
  <2>4. CASE handle_key_update_fails(s)
    <3>1. /\ Arrived(s) /\ Opens(dec[s], Head1(s)) /\ Consume(s) /\ sent' = sent /\ enc' = enc
          /\ got' = [got EXCEPT ![s] = Append(@, Head1(s))] /\ clear' = clear
          /\ rx' = [rx EXCEPT ![s] = "no_memory"]
          /\ \E left \in {Advance(dec[s], 1), NoAead(dec[s])} : dec' = [dec EXCEPT ![s] = left]
      BY <2>4 DEF handle_key_update_fails
    <3>2. /\ rx'[s] # "ok"
          /\ \A t \in Side : t # s => dec'[t] = dec[t] /\ rx'[t] = rx[t]
      BY <1>1, <3>1 DEF TypeOK
    <3>3. QED
      BY ONLY Inv, <1>1, s \in Side, <3>1, <3>2, DecryptStep
  <2>5. CASE RejectRecord(s) \/ ServerSkipEarlyData(s) \/ handle_plain_alert(s)
    <3>1. /\ Arrived(s) /\ Consume(s) /\ sent' = sent /\ got' = got /\ dec' = dec /\ enc' = enc
          /\ clear' = clear
          /\ rx' = rx \/ \E status \in RxStatus : rx' = [rx EXCEPT ![s] = status]
      BY <2>5 DEF RejectRecord, ServerSkipEarlyData, handle_plain_alert, keys, history, RxStatus
    <3>2. WireSent'
      BY <1>1, <3>1, PeerFacts, ConsumeWire DEF Arrived, Consume, Inv
    <3>3. \A t \in Side : ~Before(enc'[t], enc[t]) /\ (rx'[t] = "ok" => rx[t] = "ok")
      BY <1>1, <1>2, <3>1 DEF Arrived, TypeOK
    <3>4. QED
      BY ONLY Inv, <1>1, <3>1, <3>2, <3>3, OtherStep
  <2>6. QED
    BY <1>5, <2>2, <2>3, <2>4, <2>5 DEF Receive
<1>6. ASSUME NEW s \in Side, Network(s) PROVE Inv'
  <2>1. CASE Drop(s)
    <3>1. WireSent'
      BY <1>1, <2>1, ConsumeWire DEF Drop, Inv, history
    <3>2. QED
      BY <1>1, <1>2, <2>1, <3>1, OtherStep DEF Drop, keys, history
  <2>2. ASSUME NEW j \in 1..Len(sent[s]), Replay(s, j) PROVE Inv'
    <3>1. /\ sent[s][j] \in Packet /\ wire' = [wire EXCEPT ![s] = <<sent[s][j]>> \o @]
          /\ sent' = sent /\ clear' = clear
      BY <1>1, <2>2, RecordFacts, PacketFacts DEF Replay, history, TypeOK
    <3>2. WireSent'
      <4>1. Known(s, sent[s][j])'
        BY <3>1 DEF Known
      <4>2. QED BY <1>1, <3>1, <4>1, AddWire DEF Inv
    <3>3. QED
      BY <1>1, <1>2, <2>2, <3>2, OtherStep DEF Replay, keys, history
  <2>3. CASE Inject(s)
    <3>1. /\ sent' = sent /\ got' = got /\ dec' = dec /\ enc' = enc /\ rx' = rx
          /\ wire' = [wire EXCEPT ![s] = <<PlainAlert>> \o @]
          /\ clear' = [clear EXCEPT ![s] = @ + 1]
      BY <2>3 DEF Inject, keys
    <3>2. clear'[s] > 0 /\ \A t \in Side : clear[t] > 0 => clear'[t] > 0
      BY <1>1, <3>1 DEF TypeOK
    <3>3. WireSent'
      <4>1. Known(s, PlainAlert)'
        BY <3>2 DEF Known
      <4>2. QED BY <1>1, <3>1, <3>2, <4>1, PacketFacts, AddWire DEF Inv
    <3>4. QED
      BY <1>1, <1>2, <3>1, <3>3, OtherStep
  <2>4. QED
    BY <1>6, <2>1, <2>2, <2>3 DEF Network
<1>7. QED
  BY <1>3, <1>4, <1>5, <1>6 DEF Next

(* The inductive invariant of the record layer holds in every reachable     *)
(* state: ordered nonces, a KeyUpdate last under its key, and receive keys  *)
(* that separate what was decrypted from what was not.                      *)
THEOREM Invariance == Safety => []Inv
<1>1. QED
  BY InitInv, NextInv, PTL DEF Safety

(* For every limit and bound, whatever the network drops or replays: what a *)
(* side decrypts is a prefix of what its peer emitted.                      *)
THEOREM PrefixDelivered == Safety => []InOrder
<1>1. Inv => InOrder
  BY DEF Inv
<1>2. QED
  BY <1>1, Invariance, PTL

(* No two records of a direction share a key and a nonce.                   *)
THEOREM NoncesUnique == Safety => []NonceUnique
<1>1. Inv => NonceUnique
  BY DEF Inv
<1>2. QED
  BY <1>1, Invariance, PTL

(***************************************************************************)
(* Send keys only move on, requests are answered, and do not loop.         *)
(***************************************************************************)

(* Every way of an application to act: it seals n records of data, or does  *)
(* one of the rest.                                                         *)
LEMMA ApplicationSteps ==
  ASSUME NEW s \in Side, Application(s)
  PROVE  \/ \E r \in {0, 1} : ptls_update_key(s, r)
         \/ \E n \in 0..MaxChunks : SealRecords(s, n)
         \/ ptls_send_fails(s) \/ ptls_send_alert(s) \/ ptls_send_alert_clear(s)
<1>1. ASSUME NEW n \in 0..(MaxChunks - 1), buffer_push_encrypted_records_fails(s, n)
      PROVE  n \in 0..MaxChunks /\ SealRecords(s, n)
  BY <1>1, LimitsAssumption DEF buffer_push_encrypted_records_fails
<1>2. ASSUME NEW n \in 0..MaxChunks, ptls_send(s, n) PROVE SealRecords(s, n)
  BY <1>2 DEF ptls_send
<1>3. QED BY <1>1, <1>2 DEF Application

(* How one step moves the send keys: not at all, or one side's key goes     *)
(* strictly up, and never to an earlier secret.                             *)
LEMMA SendKeyStep ==
  ASSUME TypeOK, Next
  PROVE  /\ \A t \in Side : enc'[t] # enc[t] => Before(enc[t], enc'[t])
         /\ \A t \in Side : enc[t].gen <= enc'[t].gen
<1>1. \A t \in Side : enc[t] \in Key /\ enc[t].gen \in Nat /\ enc[t].seq \in Nat
  BY KeyFacts DEF TypeOK
<1>2. ASSUME enc' = enc
      PROVE  \A t \in Side : enc'[t] = enc[t] /\ enc[t].gen <= enc'[t].gen
  BY <1>1, <1>2
<1>3. ASSUME NEW s \in Side, NEW k, enc' = [enc EXCEPT ![s] = k], k.gen \in Nat,
             enc[s].gen <= k.gen, k # enc[s] => Before(enc[s], k)
      PROVE  /\ \A t \in Side : enc'[t] # enc[t] => Before(enc[t], enc'[t])
             /\ \A t \in Side : enc[t].gen <= enc'[t].gen
  BY <1>1, <1>3 DEF TypeOK
<1>4. ASSUME NEW s \in Side, NEW n \in 0..MaxChunks, SealRecords(s, n)
      PROVE  /\ \A t \in Side : enc'[t] # enc[t] => Before(enc[t], enc'[t])
             /\ \A t \in Side : enc[t].gen <= enc'[t].gen
  <2> DEFINE k == Advance(SendKey(s), n)
  <2>1. n \in Nat
    BY LimitsAssumption
  <2>2. CASE MustUpdate(s)
    <3>1. k.gen = enc[s].gen + 1
      BY <1>1, <2>1, <2>2, KeyFacts DEF SendKey
    <3>2. enc' = [enc EXCEPT ![s] = k]
      BY <1>4 DEF SealRecords
    <3> HIDE DEF k
    <3>3. Before(enc[s], k) /\ k.gen \in Nat /\ enc[s].gen <= k.gen
      BY <1>1, <3>1 DEF Before
    <3>4. QED BY <1>3, <3>2, <3>3
  <2>3. CASE ~MustUpdate(s)
    <3>1. /\ k.gen = enc[s].gen /\ k.seq = enc[s].seq + n
          /\ n = 0 => k = enc[s]
      BY <1>1, <2>1, <2>3, KeyFacts DEF SendKey, Advance, Key
    <3>2. enc' = [enc EXCEPT ![s] = k]
      BY <1>4 DEF SealRecords
    <3> HIDE DEF k
    <3>3. (k # enc[s] => Before(enc[s], k)) /\ k.gen \in Nat /\ enc[s].gen <= k.gen
      BY <1>1, <2>1, <3>1 DEF Before
    <3>4. QED BY <1>3, <3>2, <3>3
  <2>4. QED BY <2>2, <2>3
<1>5. ASSUME NEW s \in Side, ptls_send_fails(s) \/ ptls_send_alert(s)
      PROVE  /\ \A t \in Side : enc'[t] # enc[t] => Before(enc[t], enc'[t])
             /\ \A t \in Side : enc[t].gen <= enc'[t].gen
  <2>1. PICK k \in {enc[s], Advance(enc[s], 1), NoAead(enc[s])} : enc' = [enc EXCEPT ![s] = k]
    BY <1>5 DEF ptls_send_fails, ptls_send_alert
  <2>2. \/ k = enc[s]
        \/ k.gen = enc[s].gen + 1 \/ (k.gen = enc[s].gen /\ k.seq = enc[s].seq + 1)
    BY <1>1, <2>1, KeyFacts
  <2>3. (k # enc[s] => Before(enc[s], k)) /\ k.gen \in Nat /\ enc[s].gen <= k.gen
    BY <1>1, <2>2 DEF Before
  <2>4. QED BY ONLY <1>3, s \in Side, <2>1, <2>3
<1>6. ASSUME NEW s \in Side,
             \/ \E r \in {0, 1} : ptls_update_key(s, r)
             \/ ptls_send_alert_clear(s)
             \/ Receive(s)
             \/ Network(s)
      PROVE  enc' = enc
  BY <1>6 DEF ptls_update_key, ptls_send_alert_clear, Receive, ReceiveRecord,
              handle_plain_alert, handle_key_update, handle_key_update_fails, RejectRecord,
              ServerSkipEarlyData, Network, Drop, Replay, Inject, keys
<1>7. PICK s \in Side : Application(s) \/ Receive(s) \/ Network(s)
  BY DEF Next
<1>8. QED
  BY <1>2, <1>4, <1>5, <1>6, <1>7, ApplicationSteps

(* No step, failed updates included, takes an encryption context back to a  *)
(* key and nonce it has already passed.                                     *)
THEOREM NoncesForward == Safety => NonceForward
<1>1. TypeOK /\ [Next]_vars => [\A s \in Side : enc'[s] # enc[s] => Before(enc[s], enc'[s])]_vars
  BY SendKeyStep
<1>2. QED
  BY <1>1, TypeCorrect, PTL DEF Safety, NonceForward

(* RequestAnswered made inductive: the request was noted under a send key   *)
(* no later than the one in use.                                            *)
RequestInv ==
    /\ RequestAnswered
    /\ \A s \in Side : requested[s] <= enc[s].gen

(* A request raises the flag; only a ptls_send that moves the send key on   *)
(* lowers it, and so leaves the request behind.                             *)
LEMMA NextRequestInv == TypeOK /\ TypeOK' /\ RequestInv /\ [Next]_vars => RequestInv'
<1> SUFFICES ASSUME TypeOK, TypeOK', RequestInv, [Next]_vars PROVE RequestInv'
  OBVIOUS
<1>1. \A t \in Side : /\ enc[t] \in Key /\ enc[t].gen \in Nat /\ enc'[t].gen \in Nat
                      /\ requested[t] \in Int /\ requested'[t] \in Int
  <2>1. \A t \in Side : enc[t] \in Key /\ requested[t] \in Nat \cup {-1}
    BY DEF TypeOK
  <2>2. \A t \in Side : enc'[t] \in Key /\ requested'[t] \in Nat \cup {-1}
    BY DEF TypeOK
  <2>3. \A t \in Side : enc[t].gen \in Nat /\ enc'[t].gen \in Nat
    BY <2>1, <2>2, KeyFacts
  <2>4. QED BY <2>1, <2>2, <2>3
<1>2. /\ \A t \in Side : requested[t] <= enc[t].gen
      /\ \A t \in Side : requested[t] >= enc[t].gen => needs_key_update[t]
  BY DEF RequestInv, RequestAnswered
<1>3. CASE UNCHANGED vars
  BY <1>1, <1>2, <1>3 DEF vars, keys, flags, history, RequestInv, RequestAnswered
<1>4. CASE Next
  <2>1. \A t \in Side : enc[t].gen <= enc'[t].gen
    BY <1>4, SendKeyStep
  <2>2. ASSUME requested' = requested,
               \A t \in Side : \/ needs_key_update[t] => needs_key_update'[t]
                               \/ enc[t].gen < enc'[t].gen
        PROVE  RequestInv'
    BY <1>1, <1>2, <2>1, <2>2 DEF RequestInv, RequestAnswered
  <2>3. ASSUME NEW s \in Side, Application(s) PROVE RequestInv'
    <3>1. ASSUME NEW r \in {0, 1}, ptls_update_key(s, r) PROVE RequestInv'
      BY <2>2, <3>1 DEF ptls_update_key, TypeOK
    <3>2. ASSUME NEW n \in 0..MaxChunks, SealRecords(s, n) PROVE RequestInv'
      <4>1. MustUpdate(s) => enc[s].gen < enc'[s].gen
        <5>1. n \in Nat
          BY LimitsAssumption
        <5>2. MustUpdate(s) => Advance(SendKey(s), n).gen = enc[s].gen + 1
          BY <1>1, <5>1, KeyFacts DEF SendKey
        <5>3. enc'[s] = Advance(SendKey(s), n)
          BY <3>2 DEF SealRecords, TypeOK
        <5>4. QED BY <1>1, <5>2, <5>3
      <4>2. needs_key_update[s] => enc[s].gen < enc'[s].gen
        BY <4>1 DEF MustUpdate
      <4>3. requested' = requested /\ \A t \in Side : t # s => needs_key_update'[t] = needs_key_update[t]
        BY <3>2 DEF SealRecords, TypeOK
      <4>4. QED BY <2>2, <4>2, <4>3
    <3>3. CASE ptls_send_fails(s)
      BY <2>2, <3>3 DEF ptls_send_fails, history, TypeOK
    <3>4. CASE ptls_send_alert(s) \/ ptls_send_alert_clear(s)
      BY <2>2, <3>4 DEF ptls_send_alert, ptls_send_alert_clear, flags
    <3>5. QED
      BY <2>3, <3>1, <3>2, <3>3, <3>4, ApplicationSteps
  <2>4. ASSUME NEW s \in Side, Receive(s) PROVE RequestInv'
    <3>1. CASE handle_key_update(s)
      <4>1. CASE Head1(s).request = 1
        <5>1. /\ needs_key_update' = [needs_key_update EXCEPT ![s] = TRUE]
              /\ requested' = [requested EXCEPT ![s] = enc[s].gen]
              /\ enc' = enc
          BY <3>1, <4>1 DEF handle_key_update
        <5>2. /\ needs_key_update'[s] /\ requested'[s] = enc[s].gen
              /\ \A t \in Side : t # s => /\ needs_key_update'[t] = needs_key_update[t]
                                         /\ requested'[t] = requested[t]
          BY <5>1 DEF TypeOK
        <5>3. QED
          BY <1>1, <1>2, <5>1, <5>2 DEF RequestInv, RequestAnswered
      <4>2. CASE Head1(s).request # 1
        BY <2>2, <3>1, <4>2 DEF handle_key_update
      <4>3. QED BY <4>1, <4>2
    <3>2. CASE ~handle_key_update(s)
      <4>1. requested' = requested /\ needs_key_update' = needs_key_update
        BY <2>4, <3>2 DEF Receive, ReceiveRecord, handle_plain_alert, handle_key_update_fails,
                          RejectRecord, ServerSkipEarlyData, flags, history
      <4>2. QED BY <2>2, <4>1
    <3>3. QED BY <3>1, <3>2
  <2>5. ASSUME NEW s \in Side, Network(s) PROVE RequestInv'
    BY <2>2, <2>5 DEF Network, Drop, Replay, Inject, flags, history
  <2>6. QED
    BY <1>4, <2>3, <2>4, <2>5 DEF Next
<1>5. QED BY <1>3, <1>4

(* Whatever is sent, lost, replayed or fails in between, a processed        *)
(* KeyUpdate request is answered before more data is sealed.                *)
THEOREM RequestsAnswered == Safety => []RequestAnswered
<1>1. Init => RequestInv
  BY DEF Init, RequestInv, RequestAnswered, Advance, FirstKey
<1>2. RequestInv => RequestAnswered
  BY DEF RequestInv
<1>3. QED
  BY <1>1, <1>2, NextRequestInv, TypeCorrect, PTL DEF Safety

(* update_requested is emitted, or pending, at most once per call of        *)
(* ptls_update_key(tls, 1).                                                 *)
LEMMA NextNoRequestLoop == TypeOK /\ NoRequestLoop /\ [Next]_vars => NoRequestLoop'
<1> SUFFICES ASSUME TypeOK, NoRequestLoop, [Next]_vars PROVE NoRequestLoop'
  OBVIOUS
<1>1. \A t \in Side : /\ requests[t] \in Nat /\ requestCalls[t] \in Nat
                      /\ key_update_send_request[t] \in {0, 1}
                      /\ requests[t] + key_update_send_request[t] <= requestCalls[t]
  BY DEF TypeOK, NoRequestLoop
<1>2. ASSUME UNCHANGED <<requests, requestCalls, key_update_send_request>>
      PROVE  NoRequestLoop'
  BY <1>1, <1>2 DEF NoRequestLoop
<1>3. CASE UNCHANGED vars
  BY <1>2, <1>3 DEF vars, flags, history
<1>4. ASSUME NEW s \in Side, Application(s) PROVE NoRequestLoop'
  <2>1. ASSUME NEW r \in {0, 1}, ptls_update_key(s, r) PROVE NoRequestLoop'
    <3>1. /\ requests' = requests
          /\ key_update_send_request' = [key_update_send_request EXCEPT ![s] = r]
          /\ requestCalls' = [requestCalls EXCEPT ![s] = requestCalls[s] + r]
      BY <2>1 DEF ptls_update_key
    <3>2. /\ requestCalls'[s] = requestCalls[s] + r /\ key_update_send_request'[s] = r
          /\ \A t \in Side : t # s => /\ requestCalls'[t] = requestCalls[t]
                                     /\ key_update_send_request'[t] = key_update_send_request[t]
      BY <3>1 DEF TypeOK
    <3>3. r \in {0, 1} /\ requests' = requests
      BY <3>1
    <3>4. ASSUME NEW t \in Side
          PROVE  requests'[t] + key_update_send_request'[t] <= requestCalls'[t]
      BY <1>1, <3>2, <3>3
    <3>5. QED BY <3>4 DEF NoRequestLoop
  <2>2. ASSUME NEW n \in 0..MaxChunks, SealRecords(s, n) PROVE NoRequestLoop'
    <3>1. requestCalls' = requestCalls
      BY <2>2 DEF SealRecords
    <3>2. CASE MustUpdate(s)
      <4>1. /\ requests' = [requests EXCEPT ![s] = requests[s] + key_update_send_request[s]]
            /\ key_update_send_request' = [key_update_send_request EXCEPT ![s] = 0]
        BY <2>2, <3>2 DEF SealRecords
      <4>2. /\ requests'[s] = requests[s] + key_update_send_request[s]
            /\ key_update_send_request'[s] = 0
            /\ \A t \in Side : t # s => /\ requests'[t] = requests[t]
                                       /\ key_update_send_request'[t] = key_update_send_request[t]
        BY <4>1 DEF TypeOK
      <4>3. ASSUME NEW t \in Side
            PROVE  requests'[t] + key_update_send_request'[t] <= requestCalls'[t]
        BY <1>1, <3>1, <4>2
      <4>4. QED BY <4>3 DEF NoRequestLoop
    <3>3. CASE ~MustUpdate(s)
      BY <1>2, <2>2, <3>1, <3>3 DEF SealRecords, TypeOK
    <3>4. QED BY <3>2, <3>3
  <2>3. CASE ptls_send_fails(s) \/ ptls_send_alert(s) \/ ptls_send_alert_clear(s)
    BY <1>2, <2>3 DEF ptls_send_fails, ptls_send_alert, ptls_send_alert_clear, flags, history
  <2>4. QED
    BY <1>4, <2>1, <2>2, <2>3, ApplicationSteps
<1>5. ASSUME NEW s \in Side, Receive(s) \/ Network(s) PROVE NoRequestLoop'
  BY <1>2, <1>5 DEF Receive, ReceiveRecord, handle_plain_alert, handle_key_update,
                    handle_key_update_fails, RejectRecord, ServerSkipEarlyData,
                    Network, Drop, Replay, Inject, flags, history
<1>6. QED
  BY <1>3, <1>4, <1>5 DEF Next

(* Two endpoints never keep each other updating: every update_requested on  *)
(* the wire goes back to an application's own call.                         *)
THEOREM NoRequestLoops == Safety => []NoRequestLoop
<1>1. Init => NoRequestLoop
  BY DEF Init, NoRequestLoop
<1>2. QED
  BY <1>1, NextNoRequestLoop, TypeCorrect, PTL DEF Safety

(* A ptls_send seals its data below the limit plus the records of one call. *)
LEMMA NextDataPerKey == TypeOK /\ DataPerKey /\ [Next]_vars => DataPerKey'
<1> SUFFICES ASSUME TypeOK, DataPerKey, [Next]_vars PROVE DataPerKey'
  OBVIOUS
<1> DEFINE Fits(rec) == rec.type = "APPDATA" => rec.seq < SEQ_LIMIT + MaxChunks - 1
<1>1. ASSUME sent' = sent PROVE DataPerKey'
  BY <1>1 DEF DataPerKey
<1>2. ASSUME NEW s \in Side, NEW E \in Seq(Record), sent' = [sent EXCEPT ![s] = @ \o E],
             \A i \in 1..Len(E) : Fits(E[i])
      PROVE  DataPerKey'
  <2>1. /\ sent[s] \in Seq(Record) /\ sent'[s] = sent[s] \o E
        /\ \A t \in Side : t # s => sent'[t] = sent[t]
    BY <1>2 DEF TypeOK
  <2>2. /\ Len(sent[s]) \in Nat /\ Len(sent'[s]) = Len(sent[s]) + Len(E) /\ Len(E) \in Nat
        /\ \A i \in 1..Len(sent'[s]) :
              sent'[s][i] = IF i <= Len(sent[s]) THEN sent[s][i] ELSE E[i - Len(sent[s])]
    <3>1. E \in Seq(Record)
      OBVIOUS
    <3>2. QED BY ONLY <2>1, <3>1, ConcatElements, LenProperties
  <2>3. ASSUME NEW i \in 1..Len(sent'[s]) PROVE Fits(sent'[s][i])
    <3>1. CASE i <= Len(sent[s])
      <4>1. i \in 1..Len(sent[s]) /\ sent'[s][i] = sent[s][i]
        <5>1. i \in 1..Len(sent'[s])
          OBVIOUS
        <5>2. QED BY ONLY <2>2, <3>1, <5>1
      <4>2. QED BY <4>1 DEF DataPerKey
    <3>2. CASE ~(i <= Len(sent[s]))
      <4>1. i - Len(sent[s]) \in 1..Len(E) /\ sent'[s][i] = E[i - Len(sent[s])]
        BY <2>2, <3>2
      <4>2. QED BY <1>2, <4>1
    <3>3. QED BY <3>1, <3>2
  <2>4. QED
    BY <2>1, <2>3 DEF DataPerKey
<1>3. ASSUME NEW s \in Side, Application(s) PROVE DataPerKey'
  <2>1. ASSUME NEW n \in 0..MaxChunks, SealRecords(s, n) PROVE DataPerKey'
    <3>1. Emission(s, n) \in Seq(Record)
      BY EmissionType
    <3>2. ASSUME NEW i \in 1..Len(Emission(s, n)) PROVE Fits(Emission(s, n)[i])
      <4>1. enc[s].seq \in Nat /\ (~MustUpdate(s) => enc[s].seq < SEQ_LIMIT)
        BY LimitsAssumption, KeyFacts DEF MustUpdate, TypeOK
      <4>2. /\ n \in Nat /\ n <= MaxChunks
            /\ i \in 1..((IF MustUpdate(s) THEN 1 ELSE 0) + n)
        BY LimitsAssumption, EmissionType
      <4>3. CASE MustUpdate(s) /\ i = 1
        BY <4>3, EmissionElements
      <4>4. CASE MustUpdate(s) /\ i # 1
        <5>1. Emission(s, n)[i].seq = i - 2 /\ i - 2 <= n - 1
          BY <4>2, <4>4, EmissionElements
        <5>2. i - 2 < SEQ_LIMIT + MaxChunks - 1
          BY <4>2, <4>4, LimitsAssumption
        <5>3. QED BY <5>1, <5>2
      <4>5. CASE ~MustUpdate(s)
        <5>1. Emission(s, n)[i].seq = enc[s].seq + i - 1 /\ i <= n
          BY <4>2, <4>5, EmissionElements
        <5>2. i <= n
          BY <5>1
        <5>3. enc[s].seq + i - 1 < SEQ_LIMIT + MaxChunks - 1
          BY <4>1, <4>2, <4>5, <5>2, LimitsAssumption
        <5>4. QED BY <5>1, <5>3
      <4>6. QED BY <4>3, <4>4, <4>5
    <3>3. QED
      BY <1>2, <2>1, <3>1, <3>2 DEF SealRecords
  <2>2. CASE ptls_send_alert(s)
    <3> DEFINE alert == Seal(enc[s], "ALERT", 0)
    <3>1. alert \in Record /\ alert.type = "ALERT"
      BY KeyFacts DEF TypeOK, Seal, Record, Type
    <3>2. sent' = [sent EXCEPT ![s] = Append(@, alert)]
      BY <2>2 DEF ptls_send_alert
    <3> HIDE DEF alert
    <3>3. Append(sent[s], alert) = sent[s] \o <<alert>>
      BY <3>1, AppendIsConcat DEF TypeOK
    <3>4. /\ <<alert>> \in Seq(Record)
          /\ \A i \in 1..Len(<<alert>>) : Fits(<<alert>>[i])
          /\ sent' = [sent EXCEPT ![s] = @ \o <<alert>>]
      BY <3>1, <3>2, <3>3
    <3>5. QED BY <1>2, <3>4
  <2>3. ASSUME \/ \E r \in {0, 1} : ptls_update_key(s, r)
               \/ ptls_send_fails(s) \/ ptls_send_alert_clear(s)
        PROVE  DataPerKey'
    BY <1>1, <2>3 DEF ptls_update_key, ptls_send_fails, ptls_send_alert_clear, history
  <2>4. QED
    BY <1>3, <2>1, <2>2, <2>3, ApplicationSteps
<1>4. ASSUME NEW s \in Side, Receive(s) \/ Network(s) PROVE DataPerKey'
  BY <1>1, <1>4 DEF Receive, ReceiveRecord, handle_plain_alert, handle_key_update,
                    handle_key_update_fails, RejectRecord, ServerSkipEarlyData,
                    Network, Drop, Replay, Inject, history
<1>5. CASE UNCHANGED vars
  BY <1>1, <1>5 DEF vars, history
<1>6. QED
  BY <1>3, <1>4, <1>5 DEF Next

(* For every SEQ_LIMIT, the data sealed under one key overshoots the limit  *)
(* by less than what a single ptls_send produces.                           *)
THEOREM DataPerKeyBounded == Safety => []DataPerKey
<1>1. Init => DataPerKey
  BY DEF Init, DataPerKey, TicketRecord, Seal
<1>2. QED
  BY <1>1, NextDataPerKey, TypeCorrect, PTL DEF Safety

(***************************************************************************)
(* Refinement: the record layer implements SecureChannel.                  *)
(***************************************************************************)

(* Appending to one side's emission is an Emit step.                        *)
LEMMA EmitRefines ==
  ASSUME TypeOK, NEW s \in Side, NEW E \in Seq(Record),
         sent' = [sent EXCEPT ![s] = @ \o E], got' = got, rx' = rx, clear' = clear
  PROVE  Channel!Next
<1>1. sent[s] \in Seq(Record) /\ sent'[s] = sent[s] \o E
  BY DEF TypeOK
<1>2. /\ sent'[s] \in Seq(Record) /\ Len(sent[s]) \in Nat /\ Len(E) \in Nat
      /\ Len(sent'[s]) = Len(sent[s]) + Len(E)
      /\ \A i \in 1..Len(sent[s]) : sent'[s][i] = sent[s][i]
  <2>1. E \in Seq(Record)
    OBVIOUS
  <2>2. QED BY ONLY <1>1, <2>1, ConcatElements, LenProperties
<1>3. sent' = [sent EXCEPT ![s] = sent'[s]]
  BY <1>1
<1>4. /\ got' = got
      /\ [t \in Side |-> EndOf(rx'[t])] = [t \in Side |-> EndOf(rx[t])]
      /\ [t \in Side |-> clear'[t] > 0] = [t \in Side |-> clear[t] > 0]
  OBVIOUS
<1>5. Len(sent[s]) <= Len(sent'[s])
  BY <1>2
<1>6. Channel!Emit(s)
  BY <1>2, <1>3, <1>4, <1>5 DEF Channel!Emit
<1>7. QED
  BY <1>6 DEF Channel!Next

(* How ptls_receive's result ends the stream.                               *)
LEMMA EndFacts ==
  /\ EndOf("ok") = "open" /\ EndOf("close_notify") = "closed"
  /\ \A status \in RxStatus \ {"ok", "close_notify"} : EndOf(status) = "failed"
BY DEF EndOf, RxStatus

(* What a new result of one side's ptls_receive means for the streams.      *)
LEMMA EndChanges ==
  ASSUME TypeOK, NEW s \in Side, NEW status, rx' = [rx EXCEPT ![s] = status]
  PROVE  [t \in Side |-> EndOf(rx'[t])] = [[t \in Side |-> EndOf(rx[t])] EXCEPT ![s] = EndOf(status)]
BY DEF TypeOK

(* Decrypting the next record is a Deliver step.                            *)
LEMMA DecryptRefines ==
  ASSUME Inv, NEW s \in Side, Arrived(s), Opens(dec[s], Head1(s)), sent' = sent, clear' = clear,
         got' = [got EXCEPT ![s] = Append(@, Head1(s))],
         NEW status \in RxStatus, rx' = [rx EXCEPT ![s] = status],
         (Head1(s).type = "ALERT") <=> (status = "close_notify")
  PROVE  Channel!Next
<1> DEFINE e0 == [t \in Side |-> EndOf(rx[t])]
           e1 == [t \in Side |-> EndOf(rx'[t])]
<1>1. /\ Len(got[s]) < Len(sent[Peer(s)])
      /\ Head1(s) = sent[Peer(s)][Len(got[s]) + 1]
  BY OpensNext
<1>2. e0[s] = "open"
  BY EndFacts DEF Arrived
<1>3. e1 = [e0 EXCEPT ![s] = EndOf(status)]
  BY EndChanges DEF Inv
<1>4. EndOf(status) \in (IF IsAlert(Head1(s)) THEN {"closed"} ELSE {"open", "failed"})
  BY EndFacts DEF IsAlert, RxStatus
<1>5. [t \in Side |-> clear'[t] > 0] = [t \in Side |-> clear[t] > 0]
  OBVIOUS
<1> HIDE DEF e0, e1
<1>6. /\ e0[s] = "open" /\ Len(got[s]) < Len(sent[Peer(s)])
      /\ got' = [got EXCEPT ![s] = Append(@, sent[Peer(s)][Len(got[s]) + 1])]
      /\ EndOf(status) \in Channel!EndAfter(sent[Peer(s)][Len(got[s]) + 1])
      /\ e1 = [e0 EXCEPT ![s] = EndOf(status)]
      /\ sent' = sent
  BY <1>1, <1>2, <1>3, <1>4 DEF Channel!EndAfter
<1>7. Channel!Deliver(s)
  BY ONLY <1>5, <1>6 DEF Channel!Deliver, e0, e1
<1>8. QED
  BY <1>7 DEF Channel!Next

(* An error of ptls_receive is a Fail step.                                 *)
LEMMA FailRefines ==
  ASSUME TypeOK, NEW s \in Side, rx[s] = "ok", sent' = sent, got' = got, clear' = clear,
         NEW status \in RxStatus \ {"ok", "close_notify"}, rx' = [rx EXCEPT ![s] = status]
  PROVE  Channel!Next
<1>1. /\ [t \in Side |-> EndOf(rx[t])][s] = "open"
      /\ [t \in Side |-> EndOf(rx'[t])] = [[t \in Side |-> EndOf(rx[t])] EXCEPT ![s] = "failed"]
  <2>1. EndOf(rx[s]) = "open" /\ EndOf(status) = "failed"
    BY EndFacts
  <2>2. [t \in Side |-> EndOf(rx'[t])] = [[t \in Side |-> EndOf(rx[t])] EXCEPT ![s] = EndOf(status)]
    BY EndChanges
  <2>3. QED BY ONLY <2>1, <2>2, s \in Side
<1>2. Channel!Fail(s)
  BY <1>1 DEF Channel!Fail
<1>3. QED BY <1>2 DEF Channel!Next

(* An alert in the clear on a wire was announced.                           *)
LEMMA CutRefines ==
  ASSUME Inv, NEW s \in Side, handle_plain_alert(s)
  PROVE  Channel!Next
<1>1. /\ Arrived(s) /\ Head1(s) = PlainAlert /\ rx' = [rx EXCEPT ![s] = "close_notify"]
      /\ sent' = sent /\ got' = got /\ clear' = clear
  BY DEF handle_plain_alert, history
<1>2. /\ Peer(s) \in Side /\ 1 \in 1..Len(wire[Peer(s)]) /\ wire[Peer(s)][1] = PlainAlert
      /\ sent[Peer(s)] \in Seq(Record)
  <2>1. Peer(s) \in Side /\ wire[Peer(s)] \in Seq(Packet) /\ wire[Peer(s)] # <<>>
        /\ sent[Peer(s)] \in Seq(Record)
    BY <1>1, PeerFacts DEF Arrived, Inv, TypeOK
  <2>2. QED BY <1>1, <2>1, EmptySeq, LenProperties DEF Head1
<1>3. PlainAlert # Stub /\ \A j \in 1..Len(sent[Peer(s)]) : PlainAlert # sent[Peer(s)][j]
  <2>1. PlainAlert.gen = -1 /\ PlainAlert.type = "ALERT" /\ Stub.type = "APPDATA"
    BY DEF PlainAlert, Stub, Clear
  <2>2. \A j \in 1..Len(sent[Peer(s)]) : sent[Peer(s)][j].gen \in Nat
    BY <1>2, RecordFacts
  <2>3. QED BY <2>1, <2>2
<1>4. clear[Peer(s)] > 0
  BY <1>2, <1>3 DEF Inv, WireSent
<1>5. /\ [t \in Side |-> EndOf(rx[t])][s] = "open"
      /\ [t \in Side |-> EndOf(rx'[t])] = [[t \in Side |-> EndOf(rx[t])] EXCEPT ![s] = "closed"]
  <2>1. EndOf(rx[s]) = "open" /\ EndOf("close_notify") = "closed"
    BY <1>1, EndFacts DEF Arrived
  <2>2. [t \in Side |-> EndOf(rx'[t])]
        = [[t \in Side |-> EndOf(rx[t])] EXCEPT ![s] = EndOf("close_notify")]
    BY <1>1, EndChanges DEF Inv
  <2>3. QED BY ONLY <2>1, <2>2, s \in Side
<1>6. [t \in Side |-> clear[t] > 0][Peer(s)]
  BY <1>2, <1>4
<1>7. Channel!Cut(s)
  BY <1>1, <1>5, <1>6 DEF Channel!Cut
<1>8. QED BY <1>7 DEF Channel!Next

(* Putting an alert in the clear on the way announces it.                   *)
LEMMA AnnounceRefines ==
  ASSUME TypeOK, NEW s \in Side, sent' = sent, got' = got, rx' = rx,
         clear' = [clear EXCEPT ![s] = @ + 1]
  PROVE  Channel!Next
<1>1. clear[s] \in Nat /\ clear'[s] = clear[s] + 1 /\ \A t \in Side : t # s => clear'[t] = clear[t]
  BY DEF TypeOK
<1>2. clear'[s] > 0
  BY <1>1
<1>3. [t \in Side |-> clear'[t] > 0] = [[t \in Side |-> clear[t] > 0] EXCEPT ![s] = TRUE]
  <2>1. ASSUME NEW t \in Side, t # s PROVE (clear'[t] > 0) = (clear[t] > 0)
    BY ONLY <1>1, <2>1, Zenon
  <2>2. (clear'[s] > 0) = TRUE
    BY ONLY <1>2, Zenon
  <2>3. QED BY ONLY <2>1, <2>2, s \in Side, Zenon
<1>4. Channel!Announce(s)
  BY <1>3 DEF Channel!Announce
<1>5. QED BY <1>4 DEF Channel!Next

(* Initial states of the record layer are initial states of the channel.    *)
LEMMA InitRefines == Init => Channel!Init
<1> SUFFICES ASSUME Init PROVE Channel!Init
  OBVIOUS
<1>1. sent \in [Side -> Seq(Record)]
  BY InitTypeOK DEF TypeOK
<1>2. [s \in Side |-> EndOf(rx[s])] = [s \in Side |-> "open"]
  BY EndFacts DEF Init
<1>3. \A s \in Side : (clear[s] > 0) = FALSE
  BY DEF Init
<1>4. [s \in Side |-> clear[s] > 0] = [s \in Side |-> FALSE]
  BY ONLY <1>3, Zenon
<1>5. QED
  BY <1>1, <1>2, <1>4 DEF Init, Channel!Init

(* Every step of the record layer emits, delivers, announces or ends a      *)
(* channel direction, or leaves the channel as it is.                       *)
LEMMA StepRefines == Inv /\ [Next]_vars => [Channel!Next]_(Channel!vars)
<1> SUFFICES ASSUME Inv, [Next]_vars PROVE [Channel!Next]_(Channel!vars)
  OBVIOUS
<1>1. TypeOK
  BY DEF Inv
<1>2. ASSUME sent' = sent, got' = got, rx' = rx, clear' = clear PROVE UNCHANGED Channel!vars
  BY <1>2 DEF Channel!vars
<1>3. CASE UNCHANGED vars
  BY <1>2, <1>3 DEF vars, history
<1>4. ASSUME NEW s \in Side, Application(s) PROVE [Channel!Next]_(Channel!vars)
  <2>1. ASSUME NEW r \in {0, 1}, ptls_update_key(s, r) PROVE UNCHANGED Channel!vars
    BY <1>2, <2>1 DEF ptls_update_key
  <2>2. ASSUME NEW n \in 0..MaxChunks, SealRecords(s, n) PROVE Channel!Next
    BY <1>1, <2>2, EmissionType, EmitRefines DEF SealRecords
  <2>3. CASE ptls_send_fails(s)
    BY <1>2, <2>3 DEF ptls_send_fails, history
  <2>4. CASE ptls_send_alert(s)
    <3>1. Seal(enc[s], "ALERT", 0) \in Record
      BY <1>1, KeyFacts DEF TypeOK, Seal, Record, Type
    <3>2. Append(sent[s], Seal(enc[s], "ALERT", 0)) = sent[s] \o <<Seal(enc[s], "ALERT", 0)>>
      BY <1>1, <3>1, AppendIsConcat DEF TypeOK
    <3>3. /\ <<Seal(enc[s], "ALERT", 0)>> \in Seq(Record)
          /\ sent' = [sent EXCEPT ![s] = @ \o <<Seal(enc[s], "ALERT", 0)>>]
          /\ got' = got /\ rx' = rx /\ clear' = clear
      <4>1. <<Seal(enc[s], "ALERT", 0)>> \in Seq(Record)
        BY ONLY <3>1
      <4>2. sent' = [sent EXCEPT ![s] = Append(@, Seal(enc[s], "ALERT", 0))]
            /\ got' = got /\ rx' = rx /\ clear' = clear
        BY <2>4 DEF ptls_send_alert
      <4>3. QED BY ONLY <4>1, <4>2, <3>2
    <3>4. Channel!Next
      BY ONLY <1>1, s \in Side, <3>3, EmitRefines
    <3>5. QED BY <3>4
  <2>5. CASE ptls_send_alert_clear(s)
    BY <1>1, <2>5, AnnounceRefines DEF ptls_send_alert_clear
  <2>6. QED
    BY <1>4, <2>1, <2>2, <2>3, <2>4, <2>5, ApplicationSteps
<1>5. ASSUME NEW s \in Side, Receive(s) PROVE [Channel!Next]_(Channel!vars)
  <2>a. rx = [rx EXCEPT ![s] = rx[s]]
    BY <1>1 DEF TypeOK
  <2>1. CASE ReceiveRecord(s)
    <3>1. PICK status \in {"ok", "close_notify"} :
            /\ rx' = [rx EXCEPT ![s] = status]
            /\ (Head1(s).type = "ALERT") <=> (status = "close_notify")
      BY <2>1, <2>a DEF ReceiveRecord, Arrived
    <3>2. status \in RxStatus
      BY DEF RxStatus
    <3>3. QED BY <2>1, <3>1, <3>2, DecryptRefines DEF ReceiveRecord
  <2>2. CASE handle_key_update(s)
    <3>1. rx' = [rx EXCEPT ![s] = "ok"] /\ "ok" \in RxStatus
      BY <2>2, <2>a DEF handle_key_update, Arrived, RxStatus
    <3>2. QED BY <2>2, <3>1, DecryptRefines DEF handle_key_update
  <2>3. CASE handle_key_update_fails(s)
    <3>1. rx' = [rx EXCEPT ![s] = "no_memory"] /\ "no_memory" \in RxStatus
      BY <2>3 DEF handle_key_update_fails, RxStatus
    <3>2. QED BY <2>3, <3>1, DecryptRefines DEF handle_key_update_fails
  <2>4. CASE RejectRecord(s) \/ ServerSkipEarlyData(s)
    <3>1. /\ sent' = sent /\ got' = got /\ rx[s] = "ok" /\ clear' = clear
          /\ \/ rx' = rx
             \/ \E status \in RxStatus \ {"ok", "close_notify"} : rx' = [rx EXCEPT ![s] = status]
      BY <2>4 DEF RejectRecord, ServerSkipEarlyData, history, Arrived, RxStatus
    <3>2. CASE rx' = rx
      BY <1>2, <3>1, <3>2
    <3>3. ASSUME NEW status \in RxStatus \ {"ok", "close_notify"}, rx' = [rx EXCEPT ![s] = status]
          PROVE  Channel!Next
      BY ONLY <1>1, s \in Side, <3>1, <3>3, FailRefines
    <3>4. QED BY <3>1, <3>2, <3>3
  <2>5. CASE handle_plain_alert(s)
    BY <2>5, CutRefines
  <2>6. QED
    BY <1>5, <2>1, <2>2, <2>3, <2>4, <2>5 DEF Receive
<1>6. ASSUME NEW s \in Side, Network(s) PROVE [Channel!Next]_(Channel!vars)
  <2>1. CASE Inject(s)
    BY <1>1, <2>1, AnnounceRefines DEF Inject
  <2>2. CASE ~Inject(s)
    BY <1>2, <1>6, <2>2 DEF Network, Drop, Replay, history
  <2>3. QED BY <2>1, <2>2
<1>7. QED
  BY <1>3, <1>4, <1>5, <1>6 DEF Next

(* Every behaviour of the record layer, seen through sent, got, how each    *)
(* ptls_receive ended and whether an alert in the clear was put on the way, *)
(* is a behaviour of the abstract channel: what is handed over is a prefix  *)
(* of the emission, and a close that no sealed alert announced, so one that *)
(* may come before the end of it, takes an alert in the clear.              *)
THEOREM ChannelRefinement == Safety => ChannelSpec
<1>1. QED
  BY InitRefines, StepRefines, Invariance, PTL DEF Safety, ChannelSpec, Channel!Spec

(***************************************************************************)
(* Without interference the two ends stay in step.                         *)
(***************************************************************************)

(* The position a receiver is at when it has acted upon a record.           *)
After(r) == [aead |-> TRUE,
             gen  |-> IF r.type = "KEY_UPDATE" THEN r.gen + 1 ELSE r.gen,
             seq  |-> IF r.type = "KEY_UPDATE" THEN 0 ELSE r.seq + 1]

(* The records q lead from one position to another: each opens where the    *)
(* one before it left off.                                                  *)
Chain(q, from, to) ==
    /\ q = <<>> => from = to
    /\ q # <<>> => Opens(from, q[1]) /\ After(q[Len(q)]) = to
    /\ \A i \in 1..Len(q) : i # Len(q) => Opens(After(q[i]), q[i + 1])

(* InSync made inductive: the records on the wire lead from the receiver's  *)
(* position to the sender's.                                                *)
Synced ==
    \A s \in Side : /\ rx[s] \in {"ok", "close_notify"}
                    /\ enc[s].aead = TRUE /\ dec[s].aead = TRUE
                    /\ Chain(wire[s], dec[Peer(s)], enc[s])

SyncInv == faults = 0 /\ failures = 0 => Synced

(* Records behind others.                                                   *)
LEMMA ChainConcat ==
  ASSUME NEW a \in Seq(Packet), NEW b \in Seq(Packet), NEW x, NEW y, NEW z,
         Chain(a, x, y), Chain(b, y, z)
  PROVE  Chain(a \o b, x, z)
<1> DEFINE c == a \o b
           n == Len(a)
           m == Len(b)
<1>1. /\ c \in Seq(Packet) /\ Len(c) = n + m /\ n \in Nat /\ m \in Nat
      /\ \A i \in 1..Len(c) : c[i] = IF i <= n THEN a[i] ELSE b[i - n]
  BY ConcatElements, LenProperties
<1>2. (a = <<>> <=> n = 0) /\ (b = <<>> <=> m = 0)
  BY EmptySeq
<1>3. CASE a = <<>>
  <2>1. c = b /\ x = y
    BY <1>3, ConcatEmptySeq DEF Chain
  <2>2. QED BY <2>1
<1>4. CASE b = <<>>
  <2>1. c = a /\ y = z
    BY <1>4, ConcatEmptySeq DEF Chain
  <2>2. QED BY <2>1
<1>5. CASE a # <<>> /\ b # <<>>
  <2>1. n # 0 /\ m # 0
    BY <1>2, <1>5
  <2>2. /\ Opens(x, a[1]) /\ After(a[n]) = y /\ Opens(y, b[1]) /\ After(b[m]) = z
        /\ \A i \in 1..n : i # n => Opens(After(a[i]), a[i + 1])
        /\ \A i \in 1..m : i # m => Opens(After(b[i]), b[i + 1])
    BY <1>5 DEF Chain
  <2>3. /\ \A i \in 1..n : c[i] = a[i]
        /\ \A i \in 1..m : c[n + i] = b[i]
    <3>1. ASSUME NEW i \in 1..n PROVE c[i] = a[i]
      <4>1. i \in 1..Len(c) /\ i <= n
        BY <1>1
      <4>2. QED BY <1>1, <4>1
    <3>2. ASSUME NEW i \in 1..m PROVE c[n + i] = b[i]
      <4>1. n + i \in 1..Len(c) /\ ~(n + i <= n) /\ (n + i) - n = i
        BY <1>1
      <4>2. QED BY <1>1, <4>1
    <3>3. QED BY <3>1, <3>2
  <2> HIDE DEF c, n, m
  <2>4. Opens(x, c[1])
    <3>1. 1 \in 1..n
      BY <1>1, <2>1
    <3>2. QED BY <2>2, <2>3, <3>1
  <2>5. After(c[Len(c)]) = z
    <3>1. m \in 1..m
      BY <1>1, <2>1
    <3>2. QED BY <1>1, <2>2, <2>3, <3>1
  <2>6. ASSUME NEW i \in 1..Len(c), i # Len(c) PROVE Opens(After(c[i]), c[i + 1])
    <3>1. CASE i \in 1..n /\ i # n
      <4>1. i + 1 \in 1..n
        BY <1>1, <3>1
      <4>2. QED BY <2>2, <2>3, <3>1, <4>1
    <3>2. CASE i = n
      <4>1. n \in 1..n /\ 1 \in 1..m
        BY <1>1, <2>1
      <4>2. c[n] = a[n] /\ c[n + 1] = b[1]
        BY <2>3, <4>1
      <4>3. QED BY <2>2, <3>2, <4>2
    <3>3. CASE i \notin 1..n
      <4> DEFINE l == i - n
      <4>1. l \in 1..m /\ l # m /\ l + 1 \in 1..m /\ n + l = i /\ n + (l + 1) = i + 1
        BY <1>1, <2>6, <3>3
      <4> HIDE DEF l
      <4>2. c[i] = b[l] /\ c[i + 1] = b[l + 1]
        BY <2>3, <4>1
      <4>3. QED BY <2>2, <4>1, <4>2
    <3>4. QED BY <3>1, <3>2, <3>3
  <2>7. c # <<>>
    BY <1>1, <2>1, EmptySeq
  <2>8. Chain(c, x, z)
    BY <2>4, <2>5, <2>6, <2>7 DEF Chain
  <2>9. QED BY <2>8 DEF c
<1>6. QED BY <1>3, <1>4, <1>5

(* What is left when the first record has been acted upon.                  *)
LEMMA ChainTail ==
  ASSUME NEW q \in Seq(Packet), NEW x, NEW z, q # <<>>, Chain(q, x, z)
  PROVE  Chain(Tail(q), After(q[1]), z)
<1>1. /\ Tail(q) \in Seq(Packet) /\ Len(Tail(q)) = Len(q) - 1 /\ Len(q) \in Nat /\ Len(q) # 0
      /\ \A i \in 1..Len(Tail(q)) : Tail(q)[i] = q[i + 1]
  BY HeadTailProperties, EmptySeq, LenProperties
<1>2. /\ After(q[Len(q)]) = z
      /\ \A i \in 1..Len(q) : i # Len(q) => Opens(After(q[i]), q[i + 1])
  BY DEF Chain
<1> DEFINE t == Tail(q)
<1>3. /\ Len(t) \in Nat /\ Len(q) = Len(t) + 1
      /\ t = <<>> => Len(t) = 0
  <2>1. Len(t) \in Nat /\ Len(q) = Len(t) + 1
    BY <1>1, LenProperties
  <2>2. t = <<>> => Len(t) = 0
    BY EmptySeq
  <2>3. QED BY <2>1, <2>2
<1> HIDE DEF t
<1>4. t = <<>> => After(q[1]) = z
  <2>1. t = <<>> => Len(q) = 1
    BY <1>3
  <2>2. QED BY <1>2, <2>1
<1>5. t # <<>> => Opens(After(q[1]), t[1]) /\ After(t[Len(t)]) = z
  <2>1. SUFFICES ASSUME t # <<>> PROVE Opens(After(q[1]), t[1]) /\ After(t[Len(t)]) = z
    OBVIOUS
  <2>2. Len(t) # 0
    BY <1>1, <2>1, EmptySeq DEF t
  <2>3. /\ 1 \in 1..Len(q) /\ 1 # Len(q) /\ 1 \in 1..Len(t) /\ Len(t) \in 1..Len(t)
        /\ Len(t) + 1 = Len(q)
    BY <1>1, <2>2 DEF t
  <2>4. t[1] = q[1 + 1] /\ t[Len(t)] = q[Len(q)]
    BY <1>1, <2>3 DEF t
  <2>5. QED BY <1>2, <2>3, <2>4
<1>6. ASSUME NEW i \in 1..Len(t), i # Len(t) PROVE Opens(After(t[i]), t[i + 1])
  <2>1. i + 1 \in 1..Len(q) /\ i + 1 # Len(q) /\ i + 1 \in 1..Len(t)
    BY <1>3, <1>6
  <2>2. t[i] = q[i + 1] /\ t[i + 1] = q[(i + 1) + 1]
    BY <1>1, <2>1 DEF t
  <2>3. QED BY <1>2, <2>1, <2>2
<1>7. Chain(t, After(q[1]), z)
  BY <1>4, <1>5, <1>6 DEF Chain
<1>8. QED BY <1>7 DEF t

(* What one ptls_send emits leads from the old position to the new one.     *)
LEMMA ChainEmission ==
  ASSUME TypeOK, NEW s \in Side, NEW n \in 0..MaxChunks, enc[s].aead = TRUE
  PROVE  Chain(Emission(s, n), enc[s], Advance(SendKey(s), n))
<1> DEFINE E == Emission(s, n)
<1>1. n \in Nat /\ enc[s] \in Key /\ enc[s].gen \in Nat /\ enc[s].seq \in Nat
  BY LimitsAssumption, KeyFacts DEF TypeOK
<1>2. E \in Seq(Record) /\ Len(E) = (IF MustUpdate(s) THEN 1 ELSE 0) + n
  BY EmissionType
<1>3. ASSUME NEW i \in 1..Len(E)
      PROVE  /\ MustUpdate(s) /\ i = 1 => /\ E[i].gen = enc[s].gen
                                          /\ E[i].seq = enc[s].seq
                                          /\ E[i].type = "KEY_UPDATE"
             /\ MustUpdate(s) /\ i # 1 => /\ E[i].gen = enc[s].gen + 1
                                          /\ E[i].seq = i - 2
                                          /\ E[i].type = "APPDATA"
             /\ ~MustUpdate(s) => /\ E[i].gen = enc[s].gen
                                  /\ E[i].seq = enc[s].seq + i - 1
                                  /\ E[i].type = "APPDATA"
  BY EmissionElements
<1> HIDE DEF E
<1>4. CASE MustUpdate(s)
  <2>1. Len(E) = n + 1 /\ E # <<>>
    BY <1>1, <1>2, <1>4, EmptySeq
  <2>2. Advance(SendKey(s), n) = [aead |-> TRUE, gen |-> enc[s].gen + 1, seq |-> n]
    BY <1>1, <1>4 DEF SendKey, update_traffic_key, Advance
  <2>3. ASSUME NEW i \in 1..Len(E)
        PROVE  After(E[i]) = [aead |-> TRUE, gen |-> enc[s].gen + 1, seq |-> i - 1]
    <3>1. CASE i = 1
      <4>1. E[1].type = "KEY_UPDATE" /\ E[1].gen = enc[s].gen /\ i - 1 = 0
        BY <1>3, <1>4, <3>1
      <4>2. QED BY <3>1, <4>1 DEF After
    <3>2. CASE i # 1
      <4>1. E[i].type = "APPDATA" /\ E[i].gen = enc[s].gen + 1 /\ E[i].seq + 1 = i - 1
        BY <1>1, <1>3, <1>4, <2>1, <3>2
      <4>2. QED BY <4>1 DEF After
    <3>3. QED BY <3>1, <3>2
  <2>4. Opens(enc[s], E[1])
    <3>1. 1 \in 1..Len(E)
      BY <1>1, <2>1
    <3>2. QED BY <1>3, <1>4, <3>1 DEF Opens
  <2>5. After(E[Len(E)]) = Advance(SendKey(s), n)
    <3>1. Len(E) \in 1..Len(E) /\ Len(E) - 1 = n
      BY <1>1, <2>1
    <3>2. QED BY <2>2, <2>3, <3>1
  <2>6. ASSUME NEW i \in 1..Len(E), i # Len(E) PROVE Opens(After(E[i]), E[i + 1])
    <3>1. i + 1 \in 1..Len(E) /\ i + 1 # 1 /\ (i + 1) - 2 = i - 1
      BY <1>1, <2>1, <2>6
    <3>2. E[i + 1].gen = enc[s].gen + 1 /\ E[i + 1].seq = (i + 1) - 2
      BY <1>3, <1>4, <3>1
    <3>3. After(E[i]).gen = enc[s].gen + 1 /\ After(E[i]).seq = i - 1
      <4>1. After(E[i]) = [aead |-> TRUE, gen |-> enc[s].gen + 1, seq |-> i - 1]
        BY <2>3
      <4>2. QED BY ONLY <4>1
    <3>4. QED BY <3>1, <3>2, <3>3 DEF Opens
  <2>7. QED BY <2>1, <2>4, <2>5, <2>6 DEF Chain, E
<1>5. CASE ~MustUpdate(s)
  <2>1. Len(E) = n /\ (E = <<>> <=> n = 0)
    BY <1>1, <1>2, <1>5, EmptySeq
  <2>2. Advance(SendKey(s), n) = [aead |-> TRUE, gen |-> enc[s].gen, seq |-> enc[s].seq + n]
    BY <1>1, <1>5 DEF SendKey, Advance
  <2>3. ASSUME NEW i \in 1..Len(E)
        PROVE  After(E[i]) = [aead |-> TRUE, gen |-> enc[s].gen, seq |-> enc[s].seq + i]
    <3>1. E[i].type = "APPDATA" /\ E[i].gen = enc[s].gen /\ E[i].seq = enc[s].seq + i - 1
      BY <1>3, <1>5
    <3>2. E[i].seq + 1 = enc[s].seq + i
      BY <1>1, <2>1, <3>1
    <3>3. QED BY <3>1, <3>2 DEF After
  <2>4. n # 0 => Opens(enc[s], E[1])
    <3>1. SUFFICES ASSUME n # 0 PROVE Opens(enc[s], E[1])
      OBVIOUS
    <3>2. 1 \in 1..Len(E) /\ enc[s].seq + 1 - 1 = enc[s].seq
      BY <1>1, <2>1, <3>1
    <3>3. QED BY <1>3, <1>5, <3>2 DEF Opens
  <2>5. n # 0 => After(E[Len(E)]) = Advance(SendKey(s), n)
    <3>1. n # 0 => Len(E) \in 1..Len(E)
      BY <1>1, <2>1
    <3>2. QED BY <2>1, <2>2, <2>3, <3>1
  <2>6. n = 0 => Advance(SendKey(s), n) = enc[s]
    <3>1. n = 0 => enc[s].seq + n = enc[s].seq
      BY <1>1
    <3>2. enc[s] = [aead |-> TRUE, gen |-> enc[s].gen, seq |-> enc[s].seq]
      BY <1>1 DEF Key
    <3>3. QED BY <2>2, <3>1, <3>2
  <2>7. ASSUME NEW i \in 1..Len(E), i # Len(E) PROVE Opens(After(E[i]), E[i + 1])
    <3>1. i + 1 \in 1..Len(E) /\ enc[s].seq + (i + 1) - 1 = enc[s].seq + i
      BY <1>1, <2>1, <2>7
    <3>2. E[i + 1].gen = enc[s].gen /\ E[i + 1].seq = enc[s].seq + (i + 1) - 1
      BY <1>3, <1>5, <3>1
    <3>3. After(E[i]).gen = enc[s].gen /\ After(E[i]).seq = enc[s].seq + i
      <4>1. After(E[i]) = [aead |-> TRUE, gen |-> enc[s].gen, seq |-> enc[s].seq + i]
        BY <2>3
      <4>2. QED BY ONLY <4>1
    <3>4. QED BY <3>1, <3>2, <3>3 DEF Opens
  <2>8. QED BY <2>1, <2>4, <2>5, <2>6, <2>7 DEF Chain, E
<1>6. QED BY <1>4, <1>5

(* Sending puts records behind those on the wire.                           *)
LEMMA EmitSync ==
  ASSUME TypeOK, Synced, NEW s \in Side, NEW E \in Seq(Packet), NEW k,
         wire' = [wire EXCEPT ![s] = @ \o E], enc' = [enc EXCEPT ![s] = k],
         dec' = dec, rx' = rx, k.aead = TRUE, Chain(E, enc[s], k)
  PROVE  Synced'
<1>1. ASSUME NEW t \in Side
      PROVE  rx'[t] \in {"ok", "close_notify"} /\ enc'[t].aead = TRUE /\ dec'[t].aead = TRUE
  BY DEF Synced, TypeOK
<1>2. ASSUME NEW t \in Side PROVE Chain(wire'[t], dec'[Peer(t)], enc'[t])
  <2>1. Chain(wire[t], dec[Peer(t)], enc[t]) /\ wire[t] \in Seq(Packet)
    BY DEF Synced, TypeOK
  <2>2. CASE t = s
    <3>1. wire'[t] = wire[t] \o E /\ enc'[t] = k /\ dec'[Peer(t)] = dec[Peer(t)]
      BY <2>2 DEF TypeOK
    <3>2. Chain(wire[t] \o E, dec[Peer(t)], k)
      BY <2>1, <2>2, ChainConcat
    <3>3. QED BY <3>1, <3>2
  <2>3. CASE t # s
    <3>1. wire'[t] = wire[t] /\ enc'[t] = enc[t] /\ dec'[Peer(t)] = dec[Peer(t)]
      BY <2>3 DEF TypeOK
    <3>2. QED BY <2>1, <3>1
  <2>4. QED BY <2>2, <2>3
<1>3. QED BY <1>1, <1>2 DEF Synced

(* Acting upon the record at the head moves the receiver behind it.         *)
LEMMA DecryptSync ==
  ASSUME TypeOK, Synced, NEW s \in Side, wire[Peer(s)] # <<>>, Consume(s),
         enc' = enc, dec' = [dec EXCEPT ![s] = After(Head1(s))],
         \A t \in Side : rx'[t] \in {"ok", "close_notify"}
  PROVE  Synced'
<1>1. ASSUME NEW t \in Side
      PROVE  rx'[t] \in {"ok", "close_notify"} /\ enc'[t].aead = TRUE /\ dec'[t].aead = TRUE
  BY DEF Synced, TypeOK, After
<1>2. ASSUME NEW t \in Side PROVE Chain(wire'[t], dec'[Peer(t)], enc'[t])
  <2>1. Chain(wire[t], dec[Peer(t)], enc[t]) /\ wire[t] \in Seq(Packet)
    BY DEF Synced, TypeOK
  <2>2. Peer(t) \in Side /\ Peer(s) \in Side /\ (t = Peer(s) <=> Peer(t) = s)
    BY PeerFacts
  <2>3. CASE t = Peer(s)
    <3>1. wire'[t] = Tail(wire[t]) /\ dec'[Peer(t)] = After(wire[t][1]) /\ enc'[t] = enc[t]
      BY <2>2, <2>3 DEF TypeOK, Consume, Head1
    <3>2. Chain(Tail(wire[t]), After(wire[t][1]), enc[t])
      BY <2>1, <2>3, ChainTail
    <3>3. QED BY <3>1, <3>2
  <2>4. CASE t # Peer(s)
    <3>1. wire'[t] = wire[t] /\ dec'[Peer(t)] = dec[Peer(t)] /\ enc'[t] = enc[t]
      BY <2>2, <2>4 DEF TypeOK, Consume
    <3>2. QED BY <2>1, <3>1
  <2>5. QED BY <2>3, <2>4
<1>3. QED BY <1>1, <1>2 DEF Synced

(* While the ends are in step, what arrives opens.                          *)
LEMMA SyncedOpens ==
  ASSUME TypeOK, Synced, NEW s \in Side, Arrived(s)
  PROVE  /\ Opens(dec[s], Head1(s)) /\ wire[Peer(s)] # <<>> /\ rx[s] = "ok"
         /\ Head1(s).type # "KEY_UPDATE" => Advance(dec[s], 1) = After(Head1(s))
         /\ Head1(s).type = "KEY_UPDATE" => update_traffic_key(dec[s]) = After(Head1(s))
<1>1. wire[Peer(s)] # <<>> /\ rx[s] = "ok" /\ dec[s] \in Key /\ dec[s].aead = TRUE
  BY DEF Arrived, TypeOK, Synced
<1>2. Peer(s) \in Side /\ Peer(Peer(s)) = s
  BY PeerFacts
<1>3. Opens(dec[s], Head1(s))
  BY <1>1, <1>2 DEF Synced, Chain, Head1
<1>4. dec[s].gen = Head1(s).gen /\ dec[s].seq = Head1(s).seq
  BY <1>3 DEF Opens
<1>5. QED BY <1>1, <1>3, <1>4 DEF Advance, update_traffic_key, After

(* Every step without a fault or a failure keeps the ends in step: only      *)
(* drops, replays and failed key derivations can part them.                *)
LEMMA NextSyncInv == TypeOK /\ SyncInv /\ [Next]_vars => SyncInv'
<1> SUFFICES ASSUME TypeOK, SyncInv, [Next]_vars, faults' = 0, failures' = 0 PROVE Synced'
  BY DEF SyncInv
<1>1. faults \in Nat /\ failures \in Nat
  BY DEF TypeOK
<1>2. CASE UNCHANGED vars
  <2>1. Synced /\ UNCHANGED <<rx, enc, dec, wire>>
    BY <1>2 DEF vars, keys, counters, SyncInv
  <2>2. QED BY <2>1 DEF Synced
<1>3. ASSUME NEW s \in Side, Application(s) PROVE Synced'
  <2>1. ASSUME NEW r \in {0, 1}, ptls_update_key(s, r) PROVE Synced'
    <3>1. Synced /\ UNCHANGED <<rx, enc, dec, wire>>
      BY <2>1 DEF ptls_update_key, keys, SyncInv
    <3>2. QED BY <3>1 DEF Synced
  <2>2. ASSUME NEW n \in 0..MaxChunks, ptls_send(s, n) PROVE Synced'
    <3>1. /\ Synced /\ dec' = dec /\ rx' = rx
          /\ enc' = [enc EXCEPT ![s] = Advance(SendKey(s), n)]
          /\ wire' = [wire EXCEPT ![s] = @ \o Emission(s, n)]
      BY <2>2 DEF ptls_send, SealRecords, SyncInv
    <3>2. enc[s].aead = TRUE
      BY <3>1 DEF Synced
    <3>3. Advance(SendKey(s), n).aead = TRUE
      BY <3>2 DEF Advance, SendKey, update_traffic_key
    <3>4. Emission(s, n) \in Seq(Packet) /\ Chain(Emission(s, n), enc[s], Advance(SendKey(s), n))
      BY <3>2, EmissionType, ChainEmission, PacketFacts
    <3>5. QED BY ONLY TypeOK, s \in Side, <3>1, <3>3, <3>4, EmitSync
  <2>3. ASSUME \/ ptls_send_fails(s)
               \/ \E n \in 0..(MaxChunks - 1) : buffer_push_encrypted_records_fails(s, n)
        PROVE  Synced'
    <3>1. failures' = failures + 1
      BY <2>3 DEF ptls_send_fails, buffer_push_encrypted_records_fails
    <3>2. QED BY <1>1, <3>1
  <2>4. CASE ptls_send_alert(s)
    <3> DEFINE r == Seal(enc[s], "ALERT", 0)
    <3>1. /\ Synced /\ dec' = dec /\ rx' = rx
          /\ enc' = [enc EXCEPT ![s] = Advance(enc[s], 1)]
          /\ wire' = [wire EXCEPT ![s] = Append(wire[s], r)]
      BY <2>4 DEF ptls_send_alert, counters, SyncInv
    <3>2. enc[s].aead = TRUE /\ enc[s] \in Key
      BY <3>1 DEF Synced, TypeOK
    <3>3. r \in Record /\ r.gen = enc[s].gen /\ r.seq = enc[s].seq /\ r.type = "ALERT"
      BY <3>2, KeyFacts DEF Seal, Record, Type
    <3>4. After(r) = Advance(enc[s], 1) /\ Opens(enc[s], r)
      BY <3>2, <3>3 DEF After, Advance, Opens
    <3> HIDE DEF r
    <3>5. <<r>> \in Seq(Packet) /\ Append(wire[s], r) = wire[s] \o <<r>>
      BY <3>3, AppendIsConcat, PacketFacts DEF TypeOK
    <3>6. Chain(<<r>>, enc[s], Advance(enc[s], 1))
      <4>1. Len(<<r>>) = 1 /\ <<r>>[1] = r /\ <<r>> # <<>>
        OBVIOUS
      <4>2. QED BY <3>4, <4>1 DEF Chain
    <3>7. Advance(enc[s], 1).aead = TRUE
      BY <3>2 DEF Advance
    <3>8. wire' = [wire EXCEPT ![s] = @ \o <<r>>]
      BY <3>1, <3>5
    <3>9. QED BY ONLY TypeOK, s \in Side, <3>1, <3>5, <3>6, <3>7, <3>8, EmitSync
  <2>5. CASE ptls_send_alert_clear(s)
    <3>1. /\ faults' = faults
          /\ (~enc[s].aead /\ failures' = failures) \/ failures' = failures + 1
      BY <2>5 DEF ptls_send_alert_clear
    <3>2. failures' = failures => enc[s].aead = TRUE
      BY <3>1 DEF SyncInv, Synced
    <3>3. QED BY <1>1, <3>1, <3>2
  <2>6. QED BY <1>3, <2>1, <2>2, <2>3, <2>4, <2>5 DEF Application
<1>4. ASSUME NEW s \in Side, Receive(s) PROVE Synced'
  <2>1. failures' = failures => Synced
    <3>1. faults' = faults
      BY <1>4 DEF Receive, ReceiveRecord, handle_plain_alert, handle_key_update,
                  handle_key_update_fails, RejectRecord, ServerSkipEarlyData, counters
    <3>2. QED BY <3>1 DEF SyncInv
  <2>2. CASE ReceiveRecord(s)
    <3>1. /\ Synced /\ Arrived(s) /\ Consume(s) /\ enc' = enc
          /\ dec' = [dec EXCEPT ![s] = Advance(dec[s], 1)] /\ Head1(s).type # "KEY_UPDATE"
          /\ rx' = IF Head1(s).type = "ALERT" THEN [rx EXCEPT ![s] = "close_notify"] ELSE rx
      BY <2>1, <2>2 DEF ReceiveRecord, counters
    <3>2. wire[Peer(s)] # <<>> /\ Advance(dec[s], 1) = After(Head1(s))
      BY <3>1, SyncedOpens
    <3>3. \A t \in Side : rx'[t] \in {"ok", "close_notify"}
      BY <3>1 DEF Synced, TypeOK
    <3>4. dec' = [dec EXCEPT ![s] = After(Head1(s))]
      BY <3>1, <3>2
    <3>5. QED BY ONLY TypeOK, s \in Side, <3>1, <3>2, <3>3, <3>4, DecryptSync
  <2>3. CASE handle_key_update(s)
    <3>1. /\ Synced /\ Arrived(s) /\ Consume(s) /\ enc' = enc /\ rx' = rx
          /\ dec' = [dec EXCEPT ![s] = update_traffic_key(dec[s])]
          /\ Head1(s).type = "KEY_UPDATE"
      BY <2>1, <2>3 DEF handle_key_update, counters
    <3>2. wire[Peer(s)] # <<>> /\ update_traffic_key(dec[s]) = After(Head1(s))
      BY <3>1, SyncedOpens
    <3>3. \A t \in Side : rx'[t] \in {"ok", "close_notify"}
      BY <3>1 DEF Synced
    <3>4. dec' = [dec EXCEPT ![s] = After(Head1(s))]
      BY <3>1, <3>2
    <3>5. QED BY ONLY TypeOK, s \in Side, <3>1, <3>2, <3>3, <3>4, DecryptSync
  <2>4. CASE handle_key_update_fails(s)
    <3>1. failures' = failures + 1
      BY <2>4 DEF handle_key_update_fails
    <3>2. QED BY <1>1, <3>1
  <2>5. CASE RejectRecord(s) \/ ServerSkipEarlyData(s)
    <3>1. Synced /\ Arrived(s) /\ ~Opens(dec[s], Head1(s))
      BY <2>1, <2>5 DEF RejectRecord, ServerSkipEarlyData, counters
    <3>2. QED BY <3>1, SyncedOpens
  <2>6. CASE handle_plain_alert(s)
    <3>1. Synced /\ Arrived(s) /\ Head1(s) = PlainAlert /\ dec[s] \in Key
      BY <2>1, <2>6 DEF handle_plain_alert, counters, TypeOK
    <3>2. QED BY <3>1, SyncedOpens, PacketFacts
  <2>7. QED BY <1>4, <2>2, <2>3, <2>4, <2>5, <2>6 DEF Receive
<1>5. ASSUME NEW s \in Side, Network(s) PROVE Synced'
  <2>1. faults' = faults + 1
    BY <1>5 DEF Network, Drop, Replay, Inject
  <2>2. QED BY <1>1, <2>1
<1>6. QED BY <1>2, <1>3, <1>4, <1>5 DEF Next

(* When the handshake completes, all that can be on the wire is a           *)
(* NewSessionTicket that opens with the client's first key.                 *)
LEMMA InitSyncInv == Init => SyncInv
<1> SUFFICES ASSUME Init, NEW s \in Side
             PROVE  /\ rx[s] \in {"ok", "close_notify"}
                    /\ enc[s].aead = TRUE /\ dec[s].aead = TRUE
                    /\ Chain(wire[s], dec[Peer(s)], enc[s])
  BY DEF SyncInv, Synced
<1>1. Peer(s) \in Side
  BY PeerFacts
<1>2. PICK ticket \in BOOLEAN :
        /\ sent = [t \in Side |-> IF t = "server" /\ ticket THEN <<TicketRecord>> ELSE <<>>]
        /\ enc = [t \in Side |-> Advance(FirstKey, IF t = "server" /\ ticket THEN 1 ELSE 0)]
  BY DEF Init
<1>3. /\ wire = sent /\ dec = [t \in Side |-> FirstKey] /\ rx = [t \in Side |-> "ok"]
  BY DEF Init
<1>4. rx[s] = "ok" /\ dec[s] = FirstKey /\ dec[Peer(s)] = FirstKey
  BY <1>1, <1>3
<1>5. CASE s = "server" /\ ticket
  <2>1. wire[s] = <<TicketRecord>> /\ enc[s] = Advance(FirstKey, 1)
    BY <1>2, <1>3, <1>5
  <2>2. After(TicketRecord) = Advance(FirstKey, 1) /\ Opens(FirstKey, TicketRecord)
    BY DEF After, TicketRecord, Seal, FirstKey, Advance, Opens
  <2>3. Len(<<TicketRecord>>) = 1 /\ <<TicketRecord>>[1] = TicketRecord /\ <<TicketRecord>> # <<>>
    OBVIOUS
  <2>4. Chain(<<TicketRecord>>, FirstKey, Advance(FirstKey, 1))
    BY <2>2, <2>3 DEF Chain
  <2>5. QED BY <1>4, <2>1, <2>4 DEF FirstKey, Advance
<1>6. CASE ~(s = "server" /\ ticket)
  <2>1. wire[s] = <<>> /\ enc[s] = Advance(FirstKey, 0)
    BY <1>2, <1>3, <1>6
  <2>2. Advance(FirstKey, 0) = FirstKey
    BY DEF Advance, FirstKey
  <2>3. Chain(<<>>, FirstKey, FirstKey)
    BY EmptySeq DEF Chain
  <2>4. QED BY <1>4, <2>1, <2>2, <2>3 DEF FirstKey
<1>7. QED BY <1>5, <1>6

(* Without interference no record is ever refused and each receiver has     *)
(* exactly the key and number of the next record, however many KeyUpdates   *)
(* cross on the wire or follow each other.                                  *)
THEOREM StaysInSync == Safety => []InSync
<1>1. SyncInv => InSync
  BY DEF SyncInv, Synced, InSync, Chain
<1>2. QED
  BY <1>1, InitSyncInv, NextSyncInv, TypeCorrect, PTL DEF Safety
=============================================================================
