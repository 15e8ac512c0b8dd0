# A TLA+ model of picotls

picotls is a TLS 1.3 library in C. Almost all of its own logic is in
`src/lib/picotls.c`: the handshake state machines of client and server, the key
schedule, the record layer, tickets, retries and alerts. The rest of `src/lib`
binds it to cryptographic libraries. This project models that core in TLA+,
checks it with TLC on small instances, and proves the safety properties of the
record layer (sealing and opening records, and putting messages together from
them), the handshake, the negotiation and the fusion engine with TLAPS for every
value of their constants.

Line numbers below are of `src/lib/picotls.c` unless a file is named.

## The system

A `ptls_t` object (150-270) is one end of a connection. It does no I/O: the
application hands it received bytes and writes out what it appends to a buffer.

| component | state | operations |
|---|---|---|
| record protection | `traffic_protection.enc/dec`: secret, AEAD context, sequence number | `ptls_send`, `ptls_receive`, `ptls_send_alert` (4786-4890), `aead_encrypt/decrypt` (628-654) |
| KeyUpdate | `needs_key_update`, `key_update_send_request` | `ptls_update_key`, `update_send_key`, `handle_key_update` (4106-4144, 4822-4869) |
| handshake | `state`, `key_schedule`, `pending_handshake_secret`, `client.*`, `server.*` | `ptls_handshake` (4727-4784) and one handler per message (1901-4104) |
| key schedule | secret, generation, running hash | `key_schedule_*` (860-1022) |
| 0-RTT | `client.using_early_data`, `server.early_data_skipped_bytes`, early keys | spread over hello, EncryptedExtensions, EndOfEarlyData and `handle_input` |
| tickets, PSK | the ticket in the properties, `encrypt_ticket`, `save_ticket` callbacks | `send_session_ticket`, `client_handle_new_session_ticket`, `try_psk_handshake` |
| retry, cookies | second-flight state, or nothing at all (stateless) | `server_handle_hello` (3758-3850), `handle_hello_retry_request` |
| record parsing, reassembly | `recvbuf.rec`, `recvbuf.mess` | `parse_record`, `handle_handshake_record` (4146-4217, 4566-4632) |
| algorithm selection | none | `select_cipher`, `select_key_share`, `select_negotiated_group` |
| exporters, ESNI, QUIC message API | exporter secrets, `esni`, epoch offsets | `ptls_export_secret`, `client_setup_esni`, `ptls_handle_message` |
| object lifecycle | every pointer `ptls_t` owns, callbacks that own their context | `ptls_client_new`, `ptls_server_new`, `ptls_free`, the `Exit:` of every handler |
| fusion | table of powers of H, capacity | `ptls_fusion_aesgcm_encrypt/decrypt`, `ptls_fusion_aesgcm_set_capacity` |
| backends, PEM, ASN.1, ffx | key, cipher and hash contexts | `lib/openssl.c`, `lib/cifra*`, `lib/uecc.c`, `lib/ptlsbcrypt.c`, ... |
| command line tool | sockets, early data loop | `t/cli.c` |

Two objects interact only through the records on the wire; the handlers call
the record layer, which calls back into the handlers for the messages it
opens. There are no threads. What makes the code hard is order: each side
reads and writes at its own pace, early data is in flight while the handshake
goes on, the read and write keys change at different moments, a retry or a
refused PSK undoes work already done, KeyUpdates cross, and an error may come
when half of a flight has been written. `PROJECT.json` lists these hazards at
the lines where they bite.

What makes each component correct:

* record protection and KeyUpdate: what is received is an in-order prefix of
  what was sent; a nonce is never used twice with a key, not even around a
  failed update; the two ends never get out of step; a request is answered,
  and an answer asks for nothing;
* handshake: nobody completes without agreeing with the peer on keys and
  transcript and without the authentication the configuration asks for;
  compatible peers always complete; nobody is left waiting;
* 0-RTT: the client's view of its early data matches what the server did;
* tickets: both ends store the same PSK;
* cookies: the server accepts the cookies it issued, and rebuilds the
  transcript from them;
* record parsing: however bytes and messages are cut, they are acted upon once,
  whole and in order, and nothing complete is left waiting;
* negotiation: both ends come to the same choice and the same secret, whatever
  was guessed, offered or kept from an earlier connection;
* lifecycle: every object is released exactly once, on every error path;
* fusion: the interleaved schedule is GCM for every length;
* the assertions of the code hold.

## Modules

| module | models |
|---|---|
| `SecureChannel` | abstract: what a channel promises, per direction a log of emitted items, the prefix delivered, how the stream ended, and whether an unsealed end of it is on the way |
| `Traffic` | the record layer of two endpoints after the handshake; instantiates `SecureChannel` with a refinement mapping |
| `MCTraffic` | `Traffic` for TLC |
| `TrafficProofs` | the theorems about `Traffic` |
| `Records` | the receiving half of the record layer: bytes, records, handshake messages; instantiates `SecureChannel` too |
| `MCRecords` | a script of messages, settings and odd records for `Records` |
| `RecordsProofs` | the theorems about `Records` |
| `Handshake` | client and server from creation to application data |
| `MCHandshake` | the sets of configurations `Handshake` is checked with |
| `HandshakeProofs` | the theorems about what each endpoint keeps by itself: types, assertions |
| `HandshakeAgreementProofs` | extends it: who has verified whom, and that the two ends agree |
| `HandshakeEarlyProofs` | extends that: what becomes of early data, and of tickets |
| `HandshakeHonestProofs` | extends `HandshakeAgreementProofs`: without alterations nothing fails |
| `Negotiation` | suites, groups, the multi-hash key schedule, tickets and their ages over several connections |
| `MCNegotiation` | the client and server contexts of `Negotiation` |
| `NegotiationProofs` | the theorems about `Negotiation` |
| `CSteps` | a vocabulary for what C functions obtain, release and hand over |
| `Ownership` | executes functions written in that vocabulary over a heap of reference-counted objects |
| `PicotlsResources`, `ConnectionResources` | the functions of `lib/picotls.c` in that vocabulary: helpers, and the handlers up to whole lives of a client and a server |
| `OpensslResources`, `MinicryptoResources` | the same for `lib/openssl.c`; for `lib/uecc.c`, `lib/cifra`, `lib/certificate_compression.c` and `lib/ptlsbcrypt.c` |
| `MCOwnership` | the programs `Ownership` runs, and the known defects |
| `Fusion`, `MCFusion` | the AES-GCM schedule of `lib/fusion.c` |
| `FusionProofs` | the theorems about `Fusion` |
| `BcryptStream` | incremental encryption in `lib/ptlsbcrypt.c` |

### Traffic

`enc[s]` and `dec[s]` are the two `st_ptls_traffic_protection_t` of endpoint
`s`: `gen` is how often the secret was put through "traffic upd", `seq` the
record number, `aead` whether the context exists. A record is what it was
sealed with and its content type; `aead_decrypt` succeeds exactly for the same
`gen` and `seq`. Each call of the API is one action, the whole of it:
`ptls_send(s, n)` tests the limit and the flag, emits the KeyUpdate under the
old key, changes the key, clears both flags and seals `n` records.
`ptls_send_fails` is the same call when `update_send_key` fails, in the three
ways the code can leave the context (no room for the KeyUpdate, HKDF failed,
`ptls_aead_new` failed), and `buffer_push_encrypted_records_fails` when the
buffer cannot grow behind some of the records: those are sealed, and an
application may send all, none, or all of them with the header that was begun
(`Leftovers`). `ptls_receive` is six actions, one per outcome for the record at
the head of the wire. `Init` is what the handshake leaves: a NewSessionTicket
may already be sealed, and a server that refused early data still has
`early_data_skipped_bytes` at 0. `Drop`, `Replay` and `Inject` are the network.

Alerts in the clear are part of the model. `handle_input` decrypts a record
unless its type is ALERT (4656), also after the handshake, so an alert nobody
sealed is acted upon like a sealed one (`handle_plain_alert`). It comes from the
network (`Inject`), from a peer whose key update failed and left it without an
AEAD context, or from one that had no memory to seal its alert
(`ptls_send_alert_clear`). `SecureChannel` says what is left of the promise: the
items handed over are an in-order prefix of those emitted, whatever happens, but
an orderly close is known to follow everything emitted only if no unsealed alert
was on the way (`Announce`, `Cut`). Other records forged outside the two
endpoints fail `aead_decrypt` like replayed ones and are not generated.

### Handshake

A key schedule is the sequence of inputs of `key_schedule_extract` (its length
is `generation`), the running hash is the sequence of messages hashed, and a
secret is its label, key schedule and hash. So a mistake in what is hashed, in
which order, or in which key seals what, shows up as a record that does not
open, a MAC that does not verify, or disagreement at the end. A message is its
type, the set of its extensions, a MAC (binder, signature, verify data or the
PSK in a ticket) and a cookie.

One action is one handler with everything it calls. `server_handle_hello` is
split by outcome: rejected (`ServerRejectsHello`), stateful retry, stateless
retry, signer failure, and the whole flight. A step reads one record
(`handle_input`); while `ret[s]` is `IN_PROGRESS` the reader is
`ptls_handshake`, which on an error drops what the call has written and sends
an alert, afterwards `ptls_receive`, which does neither. `Flush` is the
application writing out the buffer, so records of one call may be read by the
peer before or after more input is handled. Assertions of the code are
evaluated where they stand and collected in `failedAsserts`.

`Config` is what the two applications configured. Where the outcome of a check
is all that matters (does the ticket decrypt, is it too old, is the
certificate trusted), the configuration holds the outcome. `Alter` is the
network: it makes a sealed record unreadable, or changes a hello in its random
or by an extension that is ignored.

Abstractions: one cipher suite and hash; one ticket; two groups; one message
per record; no ALPN, SNI or unknown extensions; no compressed certificate; no
failing callbacks other than the signer; the server's own
`send_change_cipher_spec` is off; early data is counted in records. `Records`
and `Negotiation` take up what the first four leave out.

### Records

The handshake messages are one stream of bytes, and a byte is its position in
it. The peer is picotls, which begins a record for every message, or another
implementation, which cuts the stream anywhere, puts several messages into a
record and sends ChangeCipherSpecs, alerts, data and malformed records in
between. The transport gives the application any number of bytes at a time
(`Call`). The receiver is `parse_record` with `recvbuf.rec`, `handle_input` by
record type, and `handle_handshake_record` with `recvbuf.mess`; `src` and `pc`
are its locals, so errors in the middle of a record leave the buffers as the
code does. With `api = "message"` the pieces go to `ptls_handle_message`
instead. Handlers that change the key do so as a whole; whether one accepts a
message is `Handshake`'s matter. Two things the code allows are kept in the
properties: KeyUpdate and EndOfEarlyData do not insist on being the last of
their record, and behind the message API `max_buffer_size` also counts the
messages that follow in the same piece.

### Negotiation

One connection after the other, each with any of the contexts, and the ticket
the client saved from the last. `send_client_hello`, the two outcomes of
`client_handle_hello`, and `server_handle_hello` by outcome (rejected, retry,
ServerHello) are the actions; `select_cipher`, `select_negotiated_group`,
`key_schedule_new`, `key_schedule_select_one`, the checks of
`decode_stored_session_ticket` and of `try_psk_handshake` are operators. The
key schedule is the hash of its first slot, the other hashes still running, and
what the early secret was made with. `Tick` is time: it passes between any two steps, so a ticket can
expire between the two ClientHellos of a retry, and the delays of ticket and
ClientHello add up. The server's own checks of the ALPN protocol, several PSK
identities and cookies are left out.

### Ownership

Every function is its body and its `Exit:` part as a sequence of steps: obtain,
free, copy, clear, use, take a reference, call, branch. The bytes computed are
left out; every failure with its `goto Exit`, `return` or lack of a check is
kept. `Ownership` runs the programs of `MCOwnership` (connections in nine
configurations, from `ptls_new` to `ptls_free`, and single functions an
application calls) and lets each fallible step fail. Pointers keep their value
after `free`, so a stale pointer that is released or read again is found.

Three functions release their outputs when they fail and do not reset them:
`cipher_setup_crypto` (`lib/openssl.c`, 709-711: `ctx->evp`),
`ptls_init_compressed_certificate` (`lib/certificate_compression.c`, 139-148:
`without_ocsp_status`, if the other entry cannot be built) and `ptls_esni_init_context` (5431-5447: `esni->key_exchanges` and
`esni->cipher_suites`). The model leaves the pointers dangling as the code does
and names them in `LeavesStale`; `OutputsOwned` excepts them, and `NoFault`
shows that the callers there are do not touch them: `ptls_cipher_new` frees the
whole context, and the applications (`t/util.h`, 150, and `t/cli.c`, 555) give up.
An application that disposed of such a context again after a failure would
release its members twice.

`MCKnownDefects` names failures the code mishandles; `Ownership` does not make
these happen, so that the other paths can be checked. Removing any one of the
fifteen names makes TLC find the fault or leak it stands for:

* `x9_62_create_context` and `verify_cert` go on after an allocation failed,
  `ptls_client_new`/`ptls_server_new` write through the NULL of
  `new_instance`, `send_client_hello` and `server_handle_hello` use a NULL key
  schedule, and `send_client_hello` a NULL ESNI secret;
* `x9_62_init_key` releases the key its caller releases as well;
  `evp_keyex_on_exchange` and `evp_keyex_exchange` leave a released secret or
  public key in the caller's field;
* `evp_keyex_init`, `x25519_key_exchange` (cifra) and `server_handle_hello`
  (the server name decrypted by ESNI) lose an object on an error path;
* `send_session_ticket` does not check the copy of the hash it will restore,
  and disposes of `session_id` before it is initialised;
* `ptls_esni_init_context` owns the caller's keys or not, depending on where it
  fails.

Left out because they do not release at all what they obtain, on any path:
`ptls_openssl_encrypt_ticket` and `ptls_openssl_decrypt_ticket` (the cipher
context is cleaned up and not freed) and the hash contexts of
`lib/ptlsbcrypt.c`. `parse_esni_keys` compares a pointer, not its target, with
0 in `padded_length == 0`: the check has no effect.

### Fusion

`ptls_fusion_aesgcm_encrypt` and `_decrypt` compute six AES blocks and up to
six GHASH multiplications per round. A block of key stream is the number of its
counter, a multiplication is the pair of a block and the entry of the table of
powers of H, and a round (`AESECB6_*` with the gathering of GHASH input) is one
action. Reads of output that is not written yet, of sample bytes that are not
there, and failed assertions set `fault`.

### BcryptStream

`do_encrypt_init`, `_update` with a segment of any length, and `_final`; the
message is the numbers of its bytes. It has one run, which shows the bytes the
code loses.

## Runs

| run | shows | states |
|---|---|---|
| `traffic_faults` | order, nonces, requests, the inductive invariant and the refinement of `SecureChannel`, with two drops, replays or injected alerts and an allocation that fails in a key update, between two records or while an alert is sealed | 2.2 M |
| `traffic_clean` | keys stay in step without faults, the record limit holds, everything arrives | 90 k |
| `handshake` | assertions, early data, tickets, success and completion of compatible peers in every combination of ticket, early data, share, retry, PSK mode and CCS; authentication under every pair of certificates; nobody waits for ever | 49 k |
| `handshake_network` | agreement when up to two records are altered | 62 k |
| `records` | messages and data are acted upon once, whole and in order (`InOrder` is `SecureChannel`), nothing complete stays in a buffer, keys change between records, picotls understands picotls, everything arrives | 700 k |
| `negotiation` | both ends have the same suite, hash, group and early secret; connections fail only without common ground; early data is taken exactly if fresh | 2.4 M |
| `ownership` | nothing is used or released after it is gone, nothing leaks, a failed function leaves no output dangling but the ones named in `LeavesStale`; without the failures in `MCKnownDefects` | 385 k |
| `fusion` | the schedule computes GCM for all lengths, within its table and buffers, and ends | 26 k |

Four more runs each show one disagreement between the code and what it says of
itself (next section).

Deadlock is checked in `negotiation`, which never ends. The others may stop: a
connection on which nobody sends has nothing to do, programs and calls end.

Bounds. `SEQ_LIMIT = 2` (1 in `traffic_clean`) and `MaxChunks = 2` let a call
start below the limit and end above it, and let generations follow each other; `MaxRecords = 4`
with up to two `ptls_update_key` calls (3 and one in `traffic_faults`) gives
crossing, repeated and unanswered KeyUpdates; two faults suffice to drop a
KeyUpdate and replay a record from before it, and one alert in the clear per
direction ends its stream. The proofs do not depend on any of these. In
`Handshake` a connection is finite, so the bounds are few: early data
against a skip limit of two (below it, and beyond it), one record of application data per side (enough to show a wrong
1-RTT key), and two alterations (both directions, or both hellos).
In `Records`, headers of two bytes, records of three and messages of two and
four bytes let a header, a message and a record be cut at every place, and a
message fill less than, exactly, or more than a record; four messages include
three key changes. In `Negotiation`, three suites with two hashes and two
groups in different orders give every outcome of the selection; a clock of five
ticks passes the server's lifetime of tickets (3), the client's (4) and the allowed delay
(1), and with a modulus of 8 an `age_add` of 6 makes the age wrap. In
`Fusion`, 13 blocks of AAD and 17 of payload are more than two rounds of six
each, with every remainder, and blocks of two bytes have a partial form; one record per context is
enough but for `fusion_capacity`. In `Ownership` the programs bound themselves;
`MaxObjects = 32` is checked to be enough.

Fairness. Weak fairness of receiving (`Traffic`, `Records`) and of handling
input and flushing output (`Handshake`): the application's loop calls the
library for what has arrived and writes what it got, as `handle_connection` in
`src/t/cli.c` does. Nothing is assumed about applications sending data,
updating keys or closing.

## Disagreements found

* `handshake_ticket_auth`: `send_session_ticket` predicts the client's flight
  without its Certificate and CertificateVerify (1417), so with client
  authentication the ticket holds a PSK the client does not have. Harmless
  while the issuing server also refuses resumption (3859).
* `handshake_alert`: a client sends alerts in the clear until its handshake is
  complete (4883), although the comment promises this only for the early key.
* `fusion_capacity`: `ptls_fusion_aesgcm_set_capacity` tests its loop the wrong
  way round (`lib/fusion.c`, 800), so raising the capacity allocates entries
  of the table and computes none of them.
* `bcrypt_stream`: a segment too short to complete the block that waits is
  lost with the bytes that wait (`lib/ptlsbcrypt.c`, 389).

Seen while modelling and not shown by a run of its own:

* `early_data_skipped_bytes` is never set back, so a server that refused early
  data passes over undecryptable records after the handshake too (4664);
  `Traffic` has this, and delivery stays in order all the same.
* A cookie is signed for the group `select_negotiated_group` picks (3824) and
  checked for the group of the key share (3764). If the client's ticket makes
  it start with its second group and the server enforces a retry, the server
  refuses its own cookie; `Compatible` in `Handshake` excludes this.
* The early data loop of `t/cli.c` subtracts from a limit the library may have
  reset to 0 (214).
* An alert in the clear ends a connection after the handshake too (4656), and
  `ptls_receive` reports it like a sealed one; `SecureChannel` is stated
  accordingly.
* The defects and the dangling outputs listed under Ownership.

`Compatible` excludes one further case, in which the code
behaves as written but the handshake fails: early data sent before a stateless
retry reaches the server's new object, which has no reason to skip it and
answers unexpected_message.

## Proofs

### Traffic

`TrafficProofs` proves, from `LimitsAssumption` and `BoundsAssumption` (the
limits are natural numbers, `SEQ_LIMIT` is not 0) and for every value of the
constants:

* `TypeCorrect`: `Safety => []TypeOK`;
* `Invariance`: `Safety => []Inv`, the inductive invariant;
* `PrefixDelivered`: `Safety => []InOrder`;
* `NoncesUnique`: `Safety => []NonceUnique`;
* `NoncesForward`: `Safety => NonceForward`;
* `RequestsAnswered`: `Safety => []RequestAnswered`;
* `NoRequestLoops`: `Safety => []NoRequestLoop`;
* `DataPerKeyBounded`: `Safety => []DataPerKey`;
* `StaysInSync`: `Safety => []InSync`;
* `ChannelRefinement`: `Safety => ChannelSpec`.

`InOrder` is not inductive. That the record which opens is the next one of the
peer's emission needs, first, that positions (`gen`, `seq`) strictly increase
along an emission (`NonceUnique`); second, that a KeyUpdate is the last record
under its key (`UpdateEndsKey`), because the receiver jumps to number 0 of the
next key and must not jump over anything; third, that the network holds only
emitted records, headers without a body and announced alerts in the clear
(`WireSent`); and fourth, that the receive position separates
the records already decrypted from the others and is not ahead of the send
position (`Position`). `Inv` is their conjunction; TLC checks it in
`traffic_faults`. The steps that seal records go through `EmitStep`, the steps
that open one through `OpensNext` and `DecryptStep`, all others through
`OtherStep`. The refinement follows from `Inv` and `OpensNext`: a decrypted
record is a `Deliver` step because it is the next one, and an alert taken in the
clear is a `Cut`, which only an announced one can be.

`NonceForward` follows from `TypeOK` alone, action by action (`SendKeyStep`).
`RequestAnswered` is inductive only with the bound that a request was noted
under a send key no later than the one in use (`RequestInv`): without it, one
key change would not be enough to leave the request behind. `NoRequestLoop`
and `DataPerKey` are inductive relative to `TypeOK`; the latter rests on
`EmissionElements`, what each record of one `ptls_send` is.

`InSync` speaks of the next record only. Its invariant, `SyncInv`, speaks of all
that are in between: the records on the wire form a chain (`Chain`) from the
receiver's position to the sender's, each opening where the one before it left
the receiver (`After`). A `ptls_send` adds a chain that starts at the old send
position and ends at the new one (`ChainEmission`, `ChainConcat`), whether or
not it begins with a KeyUpdate; a receiver takes the first link off
(`ChainTail`). `RejectRecord` and `ServerSkipEarlyData` are then impossible, and
drops, replays and failures are what the property excludes.

### Records

From `SizesAssumption` (headers are not empty, a record has room for an alert,
a sealed record is longer by no more than the receiver allows, a message has its
header), `ScriptAssumption`, `ConfAssumption`, `ExtrasAssumption` and
`BoundsAssumption` (the scripts, settings and odd records are well formed;
picotls as a peer is met through the record API), for all sizes of headers,
records and messages, every script, every limit `max_buffer_size`, a peer that
cuts its messages anywhere and a transport that cuts the bytes anywhere:

* `TypeCorrect`: `Spec => []TypeOK`;
* `NothingIsLeft`: `Spec => []NothingWaits`;
* `KeysAlign`: `Spec => []KeyChangesAlign`;
* `PicotlsIsUnderstood`: `Spec => []PicotlsUnderstood`;
* `ReceivedInOrder`: `Spec => InOrder`, the refinement of `SecureChannel`.

None of them is inductive. `RecordsInv` says, while the connection lives, that
the bytes kept in `recvbuf.rec` and those on the wire together are a stream of
whole records (`Stream`) which carries the handshake stream from where the
receiver stands to where the peer stands (`StreamInv`; behind the message API
the bytes of the stream themselves, `PieceInv`); that every record on its way is
sealed with the key of its position and, if picotls sent it, lies within one
message or, if it is data or an alert, between two (`RecordOK`); that
`recvbuf.rec` is the beginning of a record that passed `parse_record_header`
(`RecInv`); and that what waits in `recvbuf.mess` or `src` begins where the last
message handled ended, with the key in use that of the messages handled
(`MessInv`). A stream stays one when records are put behind it (`ConcatStreams`,
with `PiecesStream` for the records of `buffer_encrypt_record`, whose places are
a division with remainder) and when its first record is taken off it.

The refinement needs to know which item a byte on its way belongs to. `ItemsInv`
states it without induction over the sequence: there is a function that counts,
for each byte on its way, the data and alerts up to it, those acted upon
included; a record of data is the item whose number is that count plus the
messages that ended before it (`DatasAt`), and a message is the one whose number
is its own plus the count where it ends (`MessagesAt`). Sending extends the
function, taking a record off shifts it, and at the first byte it is what has
been acted upon, so the next record or message is the next item (`NextData`,
`NextMessage`). That a live connection has acted upon no alert (`AlertLast`)
tells a stream that was closed from one that failed.

### Handshake

From `ConfigsAssumption` (configurations are well formed, and an application
offers early data, or a share of a group that is not its first, only with a
ticket) and `HandshakeBounds` (the limits are natural numbers), for every set of
configurations, any number of early records and any number of alterations:

* `TypeCorrect`: `Spec => []TypeOK`;
* `NoAssertFails`: `Spec => []AssertsHold`;
* `PeersAuthenticated`: `Spec => []Authenticated`;
* `PeersAgree`: `Spec => []Agreement`;
* `EarlyDataTold`: `Spec => []EarlyDataOutcome`;
* `TicketsAgree`: `Spec => [](~cfg.require_client_authentication => TicketAgreement)`;
* `HonestRunsSucceed`: `Spec => []HonestNeverFails`.

The inductive invariant is built in layers, each inductive relative to the
ones below.

* `LocalInv` (`LocalHolds`) is what an endpoint keeps by itself: the types, what
  each value of `state` says of the object (which secrets exist, how far the key
  schedule is, which flags can be set), and that nothing has happened before
  the first call. The assertions follow from it.
* `TrustInv` (`TrustHolds`) is what certificates, signatures, binders and PSKs
  are worth while they are in flight, and what an endpoint that waits for a
  later message has verified already. `Authenticated` is what is left of it at
  the end.
* `AgreementInv` (`AgreementHolds`) relates the two hashes. A Finished is a MAC
  over everything hashed, so an endpoint that accepts one has its peer's
  transcript; the invariant says what the running hash of server and client is
  in each state (`ServerHashInv`, `ClientHashInv`), which MACs are in flight and
  over what (`ServerFlightInv`, `ClientFlightInv`), that a server which asks for
  a certificate takes no early data (`NoEarlyInv`), and what a complete endpoint knows
  (`DoneInv`). Because records may be altered, nothing is said of the hellos
  before a Finished has been checked.
* `EarlyInv` (`EarlyHolds`) follows the offer of early data. It is the first of
  all the client sends and is read once (`HelloFirst`), and nobody has acted
  upon an offer that is in flight (`OfferInv`); a server that reads early data
  or has read all of it, an EncryptedExtensions that says so and a client that
  knows so go together (`AnnouncedInv`); while the early key is in use its
  sequence numbers count the records sent and delivered (`ClientEarlyInv`,
  `ServerEarlyInv`), and the number of EndOfEarlyData is that of the records
  before it (`EndInv`). That last part is what makes "accepted" mean "all of
  it": EndOfEarlyData opens only if every early record opened before.
  Steps in which neither endpoint changes its state are `EarlyStep`s, and one
  lemma (`QuietEarly`) is for all of them.
* `TicketInv`, in the same module, is about servers that do not require client
  authentication: nobody has asked for a certificate (`NotAsked`), so the
  transcript of a client that is through is the one the server predicted, with
  EndOfEarlyData exactly if early data was accepted (`OwnHashInv`), and a ticket
  in flight holds the PSK of that prediction, whichever of the two outcomes the
  client has yet to be told (`NewTicketInv`).
* `HonestInv` (`HonestInit`, `HonestNext`) turns the view round: if nothing was altered and
  the configurations are `Compatible`, every message in flight is one its
  receiver accepts. All that is left open then is how much early data is sent
  and how the steps interleave; the messages, transcripts and secrets are
  functions of the configuration and are written down as such (`Hello1`, `Hrr`,
  `Hello2`, `Sh`, `Ee`, ..., `Through`, `CFin`). A reader is at a *point*: its
  state, the number of the next record and the early records it has passed.
  `Link` says which record it takes there and where it is afterwards, and the
  invariant is that the records on their way are a `Walk` from where each reader
  is to where its peer has got (`ClientGoal`, `ServerGoal`), together with what
  each state says of keys and hashes (`ClientHonest`, `ClientEarly`,
  `ServerHonest`), that early data on its way is counted (`EarlyCounted`), and
  that a server object that answered with a cookie and forgot the client is
  followed by one that has the second ClientHello to read and nothing else
  (`CookieSent`, `Silent`). Reading takes the first link off a walk and
  writing puts links at the end of the other (`ClientAdvances`,
  `ServerAdvances`), so each handler has one lemma that says what it reads and
  writes. The steps that fail have one each that says they cannot be taken:
  a refused record (`NothingRefused`), an alert (`NoAlert`), an error of a
  handler (`NoClientError`, `NoServerError`) and a refused hello
  (`NoHelloFails`). That the skipped early data stays within the limit
  is where `early_limit <= SKIP_LIMIT` of `Compatible` is used.

### Negotiation

From `ContextsAssumption` (lists of suites and groups are drawn from those
there are, the client's are not empty) and `TimesAssumption` (a client keeps a
ticket for no longer than the age counter takes to wrap: seven days against
2^32 ms), for all contexts, any clock and any random `ticket_age_add`:

* `TypeCorrect`: `Spec => []TypeOK`;
* `SchedulesAgree`: `Spec => []SameSchedule`;
* `AlwaysNegotiated`: `Spec => []Negotiated`;
* `EarlyDataIsFresh`: `Spec => []EarlyDataFresh`.

They are proved together, as `Inv` with what the two sides rely on in between: a
ticket says what its encrypted session says and was issued before it arrived
(`TicketInv`, `NewTicketInv`); the ticket of a ClientHello was usable when it
was sent, and its age is the one of that moment (`PskOK`); the key schedule of a
client has a slot for each hash it offers (`ScheduleOK`), so
`key_schedule_select_one` finds one; and a client after a retry has one hash
left, that of the suite the server chose (`AfterRetry`). Freshness is arithmetic
modulo `MODULUS`: the age the server reconstructs is the real one because it is
below the modulus.

### Fusion

From `LengthsAssumption` (lengths are natural numbers, a block is not empty),
for all lengths of AAD and payload, all block sizes and all places of the
sample:

* `TypeCorrect`: `Spec => []TypeOK`;
* `NeverAtFault`: `Spec => []NoFault`;
* `ComputesGcm`: `Spec => []GcmComputed`;
* `LoopsAreBounded`: `Spec => []LoopsEnd`;
* `TableIsEnough`: `Spec => []TableComputed` if `MaxAad + MaxPayload <= INITIAL`.

The invariant says that AAD, payload and output end at a block or at the end of
the data (`ProgressInv`); that what has been hashed is a prefix of the sequence
GCM defines, with the powers it defines (`HashInv`); and how the two halves of
a round are out of step: when encrypting, the hash is behind the key stream and
up to six blocks wait (`EncryptInv`, `EncryptRoundInv`), when decrypting it is
ahead (`DecryptInv`). The condition of `TableIsEnough` is the one under which
`aesgcm_setup` computes the table; `fusion_capacity` shows that it is needed,
since raising the capacity later computes nothing.

### Only model-checked

* `EverythingArrives`, `Completes`, `Terminates` and `Delivered`: liveness under
  fairness is out of the prover's reach.
* `TicketAgreement` of `Handshake` with client authentication, where
  `handshake_ticket_auth` shows it is false.
* `Ownership`, whose properties are about the particular programs in
  `MCOwnership`: TLC visits every failure of each, and there is no parameter
  to be general in.

## Plan

Done: `SecureChannel`, `Traffic`, `Records`, `Handshake`, `Negotiation`,
`Ownership` with its resource modules, `Fusion`, `BcryptStream`; the proofs
about `Traffic`, `Records`, `Handshake`, `Negotiation` and `Fusion`. Next, in
order:

1. The epoch offsets that the message API reports for what it emits.
2. `ptls_update_key` during the handshake, by composing `Handshake` with
   `Traffic`.

## Not modelled

The cryptography itself and the vendored code under `deps`; byte-level encoding and
malformed handshake messages (a message is the fields its handler looks at);
the contents of encrypted SNI and of compressed certificates, whose ownership
is modelled; several PSK identities and ALPN; PEM, base64, ASN.1 and the
format preserving cipher, pure functions over byte strings whose mistakes are
in details of data that an abstraction leaves out; socket I/O and options of the command
line tool; probes and logging; tests, benchmarks and fuzzers.
