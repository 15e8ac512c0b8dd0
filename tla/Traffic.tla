------------------------------ MODULE Traffic ------------------------------
(***************************************************************************)
(* The record layer of picotls (lib/picotls.c) after the handshake: both   *)
(* endpoints are in a POST_HANDSHAKE state and hold the application        *)
(* traffic keys of the two directions.  The module covers ptls_send,       *)
(* ptls_receive, ptls_update_key, ptls_send_alert, the KeyUpdate handshake *)
(* message and the record numbering under them.                            *)
(*                                                                         *)
(* A traffic secret is modelled by its place in the chain                  *)
(* secret(n+1) = HKDF-Expand-Label(secret(n), "traffic upd"): `gen' is n.  *)
(* A record is opened exactly by the key and the sequence number it was    *)
(* sealed with (AEAD).  The network may drop records, replay any record    *)
(* ever emitted, in any order, and put an alert in the clear on the way:   *)
(* handle_input takes an alert without decrypting it.                      *)
(***************************************************************************)
EXTENDS Integers, Sequences

CONSTANTS SEQ_LIMIT,        \* 16777216 in ptls_send
          SKIP_LIMIT,       \* PTLS_MAX_EARLY_DATA_SKIP_SIZE, in records
          MaxChunks,        \* records one ptls_send may produce
          MaxRecords,       \* bound: records the endpoints emit
          MaxUpdates,       \* bound: calls of ptls_update_key
          MaxFaults,        \* bound: drops, replays and alerts in the clear by the network
          MaxFailures,      \* bound: allocation failures
          MaxClear          \* bound: alerts in the clear per direction

ASSUME LimitsAssumption == /\ SEQ_LIMIT \in Nat \ {0}
                           /\ SKIP_LIMIT \in Nat
                           /\ MaxChunks \in Nat

ASSUME BoundsAssumption == /\ MaxRecords \in Nat
                           /\ MaxUpdates \in Nat
                           /\ MaxFaults \in Nat
                           /\ MaxFailures \in Nat
                           /\ MaxClear \in Nat

Side == {"client", "server"}
Peer(s) == IF s = "client" THEN "server" ELSE "client"

UINT32_MAX == -1    \* the all-ones value of early_data_skipped_bytes

VARIABLES
    enc,                        \* enc[s]: key and sequence number of the next record s seals
    dec,                        \* dec[s]: key and sequence number of the next record s opens
    needs_key_update,           \* tls->needs_key_update
    key_update_send_request,    \* tls->key_update_send_request
    early_data_skipped_bytes,   \* tls->server.early_data_skipped_bytes (UINT32_MAX: not skipping)
    rx,                         \* what s's last ptls_receive returned
    wire,                       \* wire[s]: what is on its way from s to Peer(s)
    sent,                       \* history: every record s put into a sendbuf
    got,                        \* history: every record s decrypted
    requested,                  \* history: enc[s].gen when s last processed a KeyUpdate request, or -1
    requests,                   \* history: KeyUpdate(update_requested) records s emitted
    requestCalls,               \* history: calls ptls_update_key(tls, 1) by s
    clear,                      \* history: alerts in the clear put on the way from s
    updates,                    \* calls of ptls_update_key so far
    faults,                     \* interference of the network so far
    failures                    \* allocation failures so far

keys     == <<enc, dec>>
flags    == <<needs_key_update, key_update_send_request>>
history  == <<sent, got, requested, requests, requestCalls, clear>>
counters == <<updates, faults, failures>>
vars     == <<keys, flags, early_data_skipped_bytes, rx, wire, history, counters>>

Type == {"APPDATA", "KEY_UPDATE", "NEW_SESSION_TICKET", "ALERT"}

(* A record: the key and number it is sealed with, its inner content type   *)
(* (handshake messages by their own type), KeyUpdate's request_update octet. *)
Record == [gen : Nat, seq : Nat, type : Type, request : {0, 1}]

(* What travels without being sealed: an alert in the clear, and the header *)
(* of a record whose body found no room in the sendbuf (its length is 0).   *)
Clear      == -1
PlainAlert == [gen |-> Clear, seq |-> 0, type |-> "ALERT", request |-> 0]
Stub       == [gen |-> Clear, seq |-> 0, type |-> "APPDATA", request |-> 0]
Packet     == Record \cup {PlainAlert, Stub}

RxStatus == {"ok", "close_notify", "bad_record_mac", "handshake_failure", "no_memory"}

Seal(key, type, request) ==
    [gen |-> key.gen, seq |-> key.seq, type |-> type, request |-> request]

(* Mutation: the numbering restarts without a new secret.                   *)
update_traffic_key_same_secret(key) == [aead |-> TRUE, gen |-> key.gen, seq |-> 0]

(* update_traffic_key: the next secret of the chain, numbering from 0.      *)
update_traffic_key(key) == [aead |-> TRUE, gen |-> key.gen + 1, seq |-> 0]

(* Mutation: the sequence number counts down.                               *)
Advance_down(key, n) == [aead |-> key.aead, gen |-> key.gen, seq |-> key.seq - n]

(* aead_encrypt's ctx->seq++ and aead_decrypt's ++ctx->seq, n times.        *)
Advance(key, n) == [aead |-> key.aead, gen |-> key.gen, seq |-> key.seq + n]

(***************************************************************************)
(* The state both endpoints are in when the handshake is complete.  The    *)
(* server may have sealed a NewSessionTicket with its application key, and *)
(* a server that rejected early data still counts the bytes it skips.      *)
(***************************************************************************)
FirstKey == [aead |-> TRUE, gen |-> 0, seq |-> 0]

TicketRecord == Seal(FirstKey, "NEW_SESSION_TICKET", 0)

Init ==
    /\ \E ticket \in BOOLEAN :
          /\ sent = [s \in Side |-> IF s = "server" /\ ticket THEN <<TicketRecord>> ELSE <<>>]
          /\ enc = [s \in Side |-> Advance(FirstKey, IF s = "server" /\ ticket THEN 1 ELSE 0)]
    /\ wire = sent
    /\ dec = [s \in Side |-> FirstKey]
    /\ needs_key_update = [s \in Side |-> FALSE]
    /\ key_update_send_request = [s \in Side |-> 0]
    /\ \E skipped \in {UINT32_MAX, 0} :
          early_data_skipped_bytes = [s \in Side |-> IF s = "server" THEN skipped ELSE UINT32_MAX]
    /\ rx = [s \in Side |-> "ok"]
    /\ got = [s \in Side |-> <<>>]
    /\ requested = [s \in Side |-> -1]
    /\ requests = [s \in Side |-> 0]
    /\ requestCalls = [s \in Side |-> 0]
    /\ clear = [s \in Side |-> 0]
    /\ updates = 0
    /\ faults = 0
    /\ failures = 0

(***************************************************************************)
(* Sending.                                                                *)
(***************************************************************************)

(* How much has been emitted, for the bound MaxRecords.                     *)
Emitted == Len(sent["client"]) + Len(sent["server"])

(* ptls_update_key: only sets the flags; the next ptls_send acts on them.   *)
ptls_update_key(s, request_update) ==
    /\ updates < MaxUpdates
    /\ needs_key_update' = [needs_key_update EXCEPT ![s] = TRUE]
    /\ key_update_send_request' = [key_update_send_request EXCEPT ![s] = request_update]
    /\ updates' = updates + 1
    /\ requestCalls' = [requestCalls EXCEPT ![s] = @ + request_update]
    /\ UNCHANGED <<keys, early_data_skipped_bytes, rx, wire, sent, got, requested, requests,
                   clear, faults, failures>>

(* Mutation: the limit is not looked at.                                    *)
MustUpdate_no_limit(s) == needs_key_update[s]

(* The condition under which ptls_send changes keys before it sends.        *)
MustUpdate(s) == needs_key_update[s] \/ enc[s].seq >= SEQ_LIMIT

(* Mutation: the KeyUpdate goes out but the old key stays.                  *)
SendKey_old(s) == IF MustUpdate(s) THEN Advance(enc[s], 1) ELSE enc[s]

(* The key the data of the call is sealed with.                             *)
SendKey(s) == IF MustUpdate(s) THEN update_traffic_key(enc[s]) ELSE enc[s]

(* The records one ptls_send appends: the KeyUpdate sealed with the old     *)
(* key if there is one, then the n chunks of buffer_push_encrypted_records. *)
Emission(s, n) ==
    LET k   == IF MustUpdate(s) THEN 1 ELSE 0
        key == SendKey(s)
    IN  [i \in 1..(k + n) |->
            IF i <= k
            THEN Seal(enc[s], "KEY_UPDATE", key_update_send_request[s])
            ELSE [gen |-> key.gen, seq |-> key.seq + (i - k) - 1, type |-> "APPDATA", request |-> 0]]

(* Mutation: key_update_send_request is not cleared once it was sent.       *)
SealRecords_keeps_request(s, n) ==
    /\ enc[s].aead
    /\ Emitted + n < MaxRecords
    /\ enc' = [enc EXCEPT ![s] = Advance(SendKey(s), n)]
    /\ sent' = [sent EXCEPT ![s] = @ \o Emission(s, n)]
    /\ requests' = [requests EXCEPT ![s] =
                       IF MustUpdate(s) THEN @ + key_update_send_request[s] ELSE @]
    /\ needs_key_update' = [needs_key_update EXCEPT ![s] = FALSE]
    /\ UNCHANGED <<dec, key_update_send_request, early_data_skipped_bytes, rx, got, requested,
                   requestCalls, clear, updates, faults>>

(* What a ptls_send that seals n records of data does to the connection.    *)
SealRecords(s, n) ==
    /\ enc[s].aead
    /\ Emitted + n < MaxRecords
    /\ enc' = [enc EXCEPT ![s] = Advance(SendKey(s), n)]
    /\ sent' = [sent EXCEPT ![s] = @ \o Emission(s, n)]
    /\ requests' = [requests EXCEPT ![s] =
                       IF MustUpdate(s) THEN @ + key_update_send_request[s] ELSE @]
    /\ needs_key_update' = [needs_key_update EXCEPT ![s] = FALSE]
    /\ key_update_send_request' =
          IF MustUpdate(s) THEN [key_update_send_request EXCEPT ![s] = 0]
                           ELSE key_update_send_request
    /\ UNCHANGED <<dec, early_data_skipped_bytes, rx, got, requested, requestCalls, clear,
                   updates, faults>>

(* ptls_send of a buffer that makes n records (n = 0 for an empty buffer).  *)
ptls_send(s, n) ==
    /\ SealRecords(s, n)
    /\ wire' = [wire EXCEPT ![s] = @ \o Emission(s, n)]
    /\ UNCHANGED failures

(* What the application may send of a sendbuf when ptls_send has failed     *)
(* behind n records: nothing, or all of it, which may end in a header.      *)
Leftovers(s, n) == {<<>>, Emission(s, n), Emission(s, n) \o <<Stub>>}

(* ptls_send when the sendbuf cannot grow for the record behind the n-th.   *)
(* What was sealed stays in the sendbuf, a finished key update stays done.  *)
buffer_push_encrypted_records_fails(s, n) ==
    /\ failures < MaxFailures
    /\ failures' = failures + 1
    /\ SealRecords(s, n)
    /\ \E left \in Leftovers(s, n) : wire' = [wire EXCEPT ![s] = @ \o left]

(* The context left by setup_traffic_protection when ptls_aead_new fails.   *)
NoAead(key) == [aead |-> FALSE, gen |-> key.gen + 1, seq |-> key.seq + 1]

(* Mutation: the flag is cleared before the key has been replaced.          *)
ptls_send_fails_clears_flag(s) ==
    /\ enc[s].aead
    /\ MustUpdate(s)
    /\ failures < MaxFailures
    /\ failures' = failures + 1
    /\ \E left \in {enc[s], Advance(enc[s], 1), NoAead(enc[s])} : enc' = [enc EXCEPT ![s] = left]
    /\ needs_key_update' = [needs_key_update EXCEPT ![s] = FALSE]
    /\ UNCHANGED <<dec, key_update_send_request, early_data_skipped_bytes, rx, wire, history,
                   updates, faults>>

(* ptls_send when update_send_key fails; the sendbuf is rolled back.  If no *)
(* KeyUpdate could be put into it nothing has changed, if HKDF failed the   *)
(* old key stays with a sequence number spent, and if ptls_aead_new failed  *)
(* the secret has moved on and there is no AEAD context any more.           *)
ptls_send_fails(s) ==
    /\ enc[s].aead
    /\ MustUpdate(s)
    /\ failures < MaxFailures
    /\ failures' = failures + 1
    /\ \E left \in {enc[s], Advance(enc[s], 1), NoAead(enc[s])} : enc' = [enc EXCEPT ![s] = left]
    /\ needs_key_update' = [needs_key_update EXCEPT ![s] = TRUE]
    /\ UNCHANGED <<dec, key_update_send_request, early_data_skipped_bytes, rx, wire, history,
                   updates, faults>>

(* ptls_send_alert after the handshake: the alert is sealed like data.      *)
ptls_send_alert(s) ==
    /\ enc[s].aead
    /\ Emitted < MaxRecords
    /\ sent' = [sent EXCEPT ![s] = Append(@, Seal(enc[s], "ALERT", 0))]
    /\ wire' = [wire EXCEPT ![s] = Append(@, Seal(enc[s], "ALERT", 0))]
    /\ enc' = [enc EXCEPT ![s] = Advance(@, 1)]
    /\ UNCHANGED <<dec, flags, early_data_skipped_bytes, rx, got, requested, requests,
                   requestCalls, clear, counters>>

(* The alert goes out in the clear if a failed update has left no AEAD      *)
(* context, and stays in the sendbuf in the clear if buffer_encrypt_record  *)
(* finds no room to seal it.                                                *)
ptls_send_alert_clear(s) ==
    /\ clear[s] < MaxClear
    /\ \/ ~enc[s].aead /\ UNCHANGED failures
       \/ enc[s].aead /\ failures < MaxFailures /\ failures' = failures + 1
    /\ wire' = [wire EXCEPT ![s] = Append(@, PlainAlert)]
    /\ clear' = [clear EXCEPT ![s] = @ + 1]
    /\ UNCHANGED <<keys, flags, early_data_skipped_bytes, rx, sent, got, requested, requests,
                   requestCalls, updates, faults>>

(***************************************************************************)
(* Receiving: ptls_receive, one record (one handle_input) per step.        *)
(***************************************************************************)
Head1(s) == wire[Peer(s)][1]

(* A record has arrived at s, whose last ptls_receive did not fail.         *)
Arrived(s) == rx[s] = "ok" /\ wire[Peer(s)] # <<>>

(* Mutation: the nonce is not part of the check.                            *)
Opens_any_seq(key, rec) == key.gen = rec.gen

(* aead_decrypt succeeds: same key, same sequence number.                   *)
Opens(key, rec) == key.gen = rec.gen /\ key.seq = rec.seq

Consume(s) == wire' = [wire EXCEPT ![Peer(s)] = Tail(@)]

(* Application data, a NewSessionTicket (handed to save_ticket) or an alert *)
(* was decrypted; the number of the next record goes up.                    *)
ReceiveRecord(s) ==
    /\ Arrived(s)
    /\ Opens(dec[s], Head1(s))
    /\ Head1(s).type # "KEY_UPDATE"
    /\ dec' = [dec EXCEPT ![s] = Advance(@, 1)]
    /\ got' = [got EXCEPT ![s] = Append(@, Head1(s))]
    /\ rx' = IF Head1(s).type = "ALERT" THEN [rx EXCEPT ![s] = "close_notify"] ELSE rx
    /\ Consume(s)
    /\ UNCHANGED <<enc, flags, early_data_skipped_bytes, sent, requested, requests,
                   requestCalls, clear, counters>>

(* An alert in the clear is acted upon like one that was decrypted; neither *)
(* the key nor the number of the next record moves.                         *)
handle_plain_alert(s) ==
    /\ Arrived(s)
    /\ Head1(s) = PlainAlert
    /\ rx' = [rx EXCEPT ![s] = "close_notify"]
    /\ Consume(s)
    /\ UNCHANGED <<keys, flags, early_data_skipped_bytes, history, counters>>

(* handle_key_update: the receive key moves on; a request is remembered.    *)
handle_key_update(s) ==
    /\ Arrived(s)
    /\ Opens(dec[s], Head1(s))
    /\ Head1(s).type = "KEY_UPDATE"
    /\ dec' = [dec EXCEPT ![s] = update_traffic_key(@)]
    /\ got' = [got EXCEPT ![s] = Append(@, Head1(s))]
    /\ IF Head1(s).request = 1
       THEN /\ needs_key_update' = [needs_key_update EXCEPT ![s] = TRUE]
            /\ requested' = [requested EXCEPT ![s] = enc[s].gen]
       ELSE UNCHANGED <<needs_key_update, requested>>
    /\ Consume(s)
    /\ UNCHANGED <<enc, key_update_send_request, early_data_skipped_bytes, rx, sent, requests,
                   requestCalls, clear, counters>>

(* The same, when HKDF or ptls_aead_new fails for the new receive key.      *)
(* ptls_receive returns the error; what is left of the receive context is   *)
(* not used again.                                                          *)
handle_key_update_fails(s) ==
    /\ Arrived(s)
    /\ Opens(dec[s], Head1(s))
    /\ Head1(s).type = "KEY_UPDATE"
    /\ failures < MaxFailures
    /\ failures' = failures + 1
    /\ \E left \in {Advance(dec[s], 1), NoAead(dec[s])} : dec' = [dec EXCEPT ![s] = left]
    /\ rx' = [rx EXCEPT ![s] = "no_memory"]
    /\ got' = [got EXCEPT ![s] = Append(@, Head1(s))]
    /\ Consume(s)
    /\ UNCHANGED <<enc, flags, early_data_skipped_bytes, sent, requested, requests,
                   requestCalls, clear, updates, faults>>

(* A record that does not open: bad_record_mac, unless s is a server that   *)
(* still counts skipped early data; then the record is passed over.         *)
RejectRecord(s) ==
    /\ Arrived(s)
    /\ ~Opens(dec[s], Head1(s))
    /\ Head1(s) # PlainAlert
    /\ early_data_skipped_bytes[s] = UINT32_MAX
    /\ rx' = [rx EXCEPT ![s] = "bad_record_mac"]
    /\ Consume(s)
    /\ UNCHANGED <<keys, flags, early_data_skipped_bytes, history, counters>>

ServerSkipEarlyData(s) ==
    /\ Arrived(s)
    /\ ~Opens(dec[s], Head1(s))
    /\ Head1(s) # PlainAlert
    /\ early_data_skipped_bytes[s] # UINT32_MAX
    /\ early_data_skipped_bytes' =
          [early_data_skipped_bytes EXCEPT ![s] = @ + (IF Head1(s) = Stub THEN 0 ELSE 1)]
    /\ rx' = IF early_data_skipped_bytes'[s] > SKIP_LIMIT
             THEN [rx EXCEPT ![s] = "handshake_failure"]
             ELSE rx
    /\ Consume(s)
    /\ UNCHANGED <<keys, flags, history, counters>>

(***************************************************************************)
(* The network: anything that was ever sealed may show up again, what is   *)
(* next may be lost, and an alert nobody sealed may come before it.        *)
(***************************************************************************)
Drop(s) ==
    /\ faults < MaxFaults
    /\ wire[s] # <<>>
    /\ wire' = [wire EXCEPT ![s] = Tail(@)]
    /\ faults' = faults + 1
    /\ UNCHANGED <<keys, flags, early_data_skipped_bytes, rx, history, updates, failures>>

Replay(s, j) ==
    /\ faults < MaxFaults
    /\ wire' = [wire EXCEPT ![s] = <<sent[s][j]>> \o @]
    /\ faults' = faults + 1
    /\ UNCHANGED <<keys, flags, early_data_skipped_bytes, rx, history, updates, failures>>

Inject(s) ==
    /\ faults < MaxFaults
    /\ clear[s] < MaxClear
    /\ wire' = [wire EXCEPT ![s] = <<PlainAlert>> \o @]
    /\ clear' = [clear EXCEPT ![s] = @ + 1]
    /\ faults' = faults + 1
    /\ UNCHANGED <<keys, flags, early_data_skipped_bytes, rx, sent, got, requested, requests,
                   requestCalls, updates, failures>>

Receive(s) ==
    \/ ReceiveRecord(s)
    \/ handle_plain_alert(s)
    \/ handle_key_update(s)
    \/ handle_key_update_fails(s)
    \/ RejectRecord(s)
    \/ ServerSkipEarlyData(s)

Application(s) ==
    \/ \E request_update \in {0, 1} : ptls_update_key(s, request_update)
    \/ \E n \in 0..MaxChunks : ptls_send(s, n)
    \/ \E n \in 0..(MaxChunks - 1) : buffer_push_encrypted_records_fails(s, n)
    \/ ptls_send_fails(s)
    \/ ptls_send_alert(s)
    \/ ptls_send_alert_clear(s)

Network(s) ==
    \/ Drop(s)
    \/ \E j \in 1..Len(sent[s]) : Replay(s, j)
    \/ Inject(s)

Next == \E s \in Side : Application(s) \/ Receive(s) \/ Network(s)

(* Applications may stop calling; what has arrived is read.                 *)
Fairness == \A s \in Side : WF_vars(Receive(s))

Safety == Init /\ [][Next]_vars
Spec   == Safety /\ Fairness

-----------------------------------------------------------------------------
(***************************************************************************)
(* Properties.                                                             *)
(***************************************************************************)
Key == [aead : BOOLEAN, gen : Nat, seq : Nat]

(* Every variable has the type of the field it stands for.                  *)
TypeOK ==
    /\ enc \in [Side -> Key]
    /\ dec \in [Side -> Key]
    /\ needs_key_update \in [Side -> BOOLEAN]
    /\ key_update_send_request \in [Side -> {0, 1}]
    /\ early_data_skipped_bytes \in [Side -> Nat \cup {UINT32_MAX}]
    /\ rx \in [Side -> RxStatus]
    /\ wire \in [Side -> Seq(Packet)]
    /\ sent \in [Side -> Seq(Record)]
    /\ got \in [Side -> Seq(Record)]
    /\ requested \in [Side -> Nat \cup {-1}]
    /\ requests \in [Side -> Nat]
    /\ requestCalls \in [Side -> Nat]
    /\ clear \in [Side -> Nat]
    /\ updates \in Nat
    /\ faults \in Nat
    /\ failures \in Nat

(* The order of the (key, sequence number) pairs of a direction.            *)
Before(a, b) == a.gen < b.gen \/ (a.gen = b.gen /\ a.seq < b.seq)

(* What ptls_receive hands over, and what drives the receiver's keys, is a  *)
(* prefix of what the peer emitted: no replayed, reordered or dropped       *)
(* record gets past aead_decrypt, across any number of key updates.         *)
InOrder ==
    \A s \in Side :
        /\ Len(got[s]) <= Len(sent[Peer(s)])
        /\ \A i \in 1..Len(got[s]) : got[s][i] = sent[Peer(s)][i]

(* No two records of a direction are sealed with the same key and nonce,    *)
(* and the next one will not repeat any: aead_encrypt's ctx->seq++ and the  *)
(* reset to 0 in setup_traffic_protection only ever come with a new key.    *)
NonceUnique ==
    \A s \in Side :
        /\ \A i, j \in 1..Len(sent[s]) : i < j => Before(sent[s][i], sent[s][j])
        /\ \A i \in 1..Len(sent[s]) : Before(sent[s][i], enc[s])

(* An encryption context never goes back, not even when update_send_key     *)
(* fails and its caller's sendbuf is rolled back.                           *)
NonceForward == [][\A s \in Side : enc'[s] # enc[s] => Before(enc[s], enc'[s])]_vars

(* Without interference no record is ever refused: KeyUpdates that cross on *)
(* the wire, requested, unrequested or forced by SEQ_LIMIT, leave each      *)
(* receiver with exactly the key and number of the next record.             *)
InSync ==
    (faults = 0 /\ failures = 0) =>
        \A s \in Side :
            /\ rx[s] \in {"ok", "close_notify"}
            /\ wire[s] # <<>> => Opens(dec[Peer(s)], wire[s][1])
            /\ wire[s] = <<>> => dec[Peer(s)] = enc[s]

(* Once a KeyUpdate request has been processed, the endpoint's send key is  *)
(* replaced before more data is sealed: handle_key_update's flag survives   *)
(* whatever happens, the sealing of alerts and failed updates included,     *)
(* until a ptls_send has replaced the key.  (ptls_send_alert does not look  *)
(* at the flag; an alert may still go out under the old key.)               *)
RequestAnswered ==
    \A s \in Side : requested[s] >= enc[s].gen => needs_key_update[s]

(* An endpoint asks its peer to update only when its application asked for  *)
(* it; answering a request never asks back, so two endpoints cannot keep    *)
(* each other busy with KeyUpdates.                                         *)
NoRequestLoop ==
    \A s \in Side : requests[s] + key_update_send_request[s] <= requestCalls[s]

(* The comment in ptls_send bounds what is sealed with one key: data goes   *)
(* past SEQ_LIMIT by at most the rest of the call that reached it.          *)
DataPerKey ==
    \A s \in Side : \A i \in 1..Len(sent[s]) :
        sent[s][i].type = "APPDATA" => sent[s][i].seq < SEQ_LIMIT + MaxChunks - 1

(* With a network that loses nothing, every record put into a sendbuf is    *)
(* decrypted by the peer, unless the peer has read a close_notify.          *)
EverythingArrives ==
    \A s \in Side : \A n \in 1..MaxRecords :
        Len(sent[s]) >= n ~> (Len(got[Peer(s)]) >= n \/ rx[Peer(s)] = "close_notify")

(***************************************************************************)
(* The inductive invariant behind InOrder and NonceUnique.                 *)
(***************************************************************************)

(* A KeyUpdate is the last record sealed with its key.                      *)
UpdateEndsKey ==
    \A s \in Side : \A i \in 1..Len(sent[s]) :
        sent[s][i].type = "KEY_UPDATE" =>
            /\ sent[s][i].gen < enc[s].gen
            /\ \A j \in 1..Len(sent[s]) : i < j => sent[s][i].gen < sent[s][j].gen

(* The network holds records that were emitted, headers without a body and  *)
(* alerts in the clear.                                                     *)
WireSent ==
    \A s \in Side : \A i \in 1..Len(wire[s]) :
        \/ \E j \in 1..Len(sent[s]) : wire[s][i] = sent[s][j]
        \/ wire[s][i] = Stub
        \/ wire[s][i] = PlainAlert /\ clear[s] > 0

(* While s receives, dec[s] separates the records it has decrypted from     *)
(* those it has not.                                                        *)
Position ==
    \A s \in Side : rx[s] = "ok" =>
        /\ ~Before(enc[Peer(s)], dec[s])
        /\ \A i \in 1..Len(sent[Peer(s)]) :
              IF i <= Len(got[s]) THEN Before(sent[Peer(s)][i], dec[s])
                                  ELSE ~Before(sent[Peer(s)][i], dec[s])

Inv == TypeOK /\ NonceUnique /\ UpdateEndsKey /\ WireSent /\ Position /\ InOrder

(* The record layer implements the channel the applications rely on: what   *)
(* is decrypted is what was emitted, in order, and ptls_receive reports the *)
(* peer's close either behind everything emitted before it or because of an *)
(* alert in the clear, which is all that can cut the stream short unseen.   *)
IsAlert(rec) == rec.type = "ALERT"

EndOf(status) == CASE status = "ok" -> "open"
                   [] status = "close_notify" -> "closed"
                   [] OTHER -> "failed"

Channel == INSTANCE SecureChannel WITH Item <- Record, IsClose <- IsAlert,
                                       end <- [s \in Side |-> EndOf(rx[s])],
                                       unsealed <- [s \in Side |-> clear[s] > 0]

ChannelSpec == Channel!Spec
=============================================================================
