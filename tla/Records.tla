------------------------------ MODULE Records ------------------------------
(***************************************************************************)
(* The receiving half of picotls' record layer: cutting the byte stream of *)
(* the transport into records (parse_record), sorting the records by type  *)
(* (handle_input), putting handshake messages together from records        *)
(* (handle_handshake_record, recvbuf.mess) and handing them one at a time  *)
(* to the message handlers, through ptls_handshake, ptls_receive or the    *)
(* message API a QUIC stack uses (ptls_handle_message).                    *)
(*                                                                         *)
(* The handshake messages form one stream of bytes, and a byte of it is    *)
(* its position in that stream.  A byte on the wire is a record and a      *)
(* place in it.  The peer is either picotls itself, which starts a record  *)
(* for every message, or another implementation, which cuts the stream     *)
(* where it likes and may break the rules of the protocol.  Which message  *)
(* is acceptable when is the matter of Handshake; early data that a server *)
(* skips is in Handshake and Traffic.                                      *)
(***************************************************************************)
EXTENDS Naturals, Sequences, FiniteSets

CONSTANTS REC_HEADER,       \* 5: bytes before the fragment of a record
          MESS_HEADER,      \* 4: bytes before the body of a handshake message
          MAX_PLAINTEXT,    \* PTLS_MAX_PLAINTEXT_RECORD_SIZE
          OVERHEAD,         \* bytes encryption adds (inner type and tag)
          EXPANSION,        \* 256: what a sealed record may be longer than MAX_PLAINTEXT
          Script,           \* the kinds of the messages of the peer, in order
          Sizes,            \* bound: the sizes of messages, header included
          Conf,             \* the settings: [api, peer, max_buffer_size]
          Extras,           \* the records without handshake messages: [type, len, sealed]
          Window,           \* bound: bytes on the wire when the peer goes on sending
          MaxExtra          \* bound: records that carry no handshake message

ASSUME SizesAssumption ==
    /\ REC_HEADER \in Nat \ {0}
    /\ MESS_HEADER \in Nat \ {0}
    /\ MAX_PLAINTEXT \in Nat \ {0, 1}        \* an alert has two bytes
    /\ OVERHEAD \in Nat /\ EXPANSION \in Nat /\ OVERHEAD <= EXPANSION
    /\ Sizes \subseteq {n \in Nat : n >= MESS_HEADER}

ASSUME ScriptAssumption ==
    Script \in Seq({"hello", "plain", "finished", "ticket", "update"})

ASSUME ConfAssumption ==
    Conf \subseteq {c \in [api : {"record", "message"}, peer : {"picotls", "other"},
                           max_buffer_size : Nat] : c.api = "message" => c.peer = "other"}

ASSUME BoundsAssumption == Window \in Nat /\ MaxExtra \in Nat

Types == {"ccs", "appdata", "alert", "unknown"}     \* other than handshake

ASSUME ExtrasAssumption ==
    Extras \subseteq [type : Types, len : Nat, sealed : BOOLEAN]

VARIABLES
    conf,       \* the setting of this behaviour
    messages,   \* the messages composed by the peer: where each starts, its size
    sent,       \* the peer has put the bytes of positions below this into records
    extra,      \* records without handshake bytes sent so far
    wire,       \* the bytes between the peer and the caller
    avail,      \* how many of them the current call was given and has not consumed
    rec,        \* recvbuf.rec (<<>>: NULL)
    mess,       \* recvbuf.mess (<<>>: NULL)
    src,        \* the bytes between src and src_end in handle_handshake_record
    pc,         \* where the receiver is: idle, input, messages or failed
    keys,       \* the epoch of traffic_protection.dec
    done,       \* how many messages were handed to the handlers
    emitted,    \* history: the items of the peer, in order
    got         \* history: the items acted upon, in order

sending   == <<messages, sent, extra, emitted>>
receiving == <<wire, avail, rec, mess, src, pc, keys, done, got>>
vars      == <<conf, sending, receiving>>

(* The messages whose last record is also the last one under its key, and   *)
(* those whose handlers are only called at the end of a record.             *)
KeyChanging == {"hello", "finished", "update"}
EndsRecord  == {"hello", "finished"}

End(m) == messages[m].start + messages[m].size
Total  == IF messages = <<>> THEN 0 ELSE End(Len(messages))

(* The key a record is sealed with: one more for every key change before it.*)
EpochAt(pos) == Cardinality({m \in DOMAIN messages :
                               Script[m] \in KeyChanging /\ End(m) <= pos})

(* A record: its inner type, the bytes first .. first+len-1 of the handshake*)
(* stream, whether it is sealed and under which key.                        *)
Record(type, first, len, sealed) ==
    [type |-> type, first |-> first, len |-> len, sealed |-> sealed, epoch |-> EpochAt(first)]

(* The length field of a record, and its bytes on the wire: QUIC carries no *)
(* record headers.                                                          *)
Length(r) == r.len + (IF r.sealed THEN OVERHEAD ELSE 0)
Extent(r) == IF conf.api = "record" THEN REC_HEADER + Length(r) ELSE r.len
Bytes(r)  == [i \in 1..Extent(r) |-> [r |-> r, i |-> i]]

Init ==
    /\ conf \in Conf
    /\ messages = <<>> /\ sent = 0 /\ extra = 0 /\ emitted = <<>>
    /\ wire = <<>> /\ avail = 0 /\ rec = <<>> /\ mess = <<>> /\ src = <<>>
    /\ pc = "idle" /\ keys = 0 /\ done = 0 /\ got = <<>>

-----------------------------------------------------------------------------
(* The peer.  An item is a message, by its number, or a record of another   *)
(* type; a message counts as emitted once its last byte is in a record.  A  *)
(* call sees only the bytes it was given, so the peer need not act while    *)
(* one is in progress.                                                      *)

AsItem(type, m) == [type |-> type, m |-> m]

Compose(size) ==
    Append(messages, [start |-> Total, size |-> size])

(* buffer_encrypt_record: a message that does not fit in one record goes on *)
(* in further ones, all of them full but the last.                          *)
FullRecords(size) == (size - 1) \div MAX_PLAINTEXT

Chunk(size, sealed, k) ==
    Record("handshake", Total + k * MAX_PLAINTEXT,
           IF k < FullRecords(size) THEN MAX_PLAINTEXT ELSE size - k * MAX_PLAINTEXT, sealed)

buffer_encrypt_record(size, sealed) ==
    LET full == Extent(Chunk(size, sealed, 0))
        last == FullRecords(size)
    IN  [j \in 1..(last * full + Extent(Chunk(size, sealed, last))) |->
           [r |-> Chunk(size, sealed, (j - 1) \div full), i |-> ((j - 1) % full) + 1]]

(* commit_record_message: a message starts a record.  Without a key it must *)
(* fit in one (the assertion).                                              *)
commit_record_message(size) ==
    /\ conf.peer = "picotls"
    /\ Len(messages) < Len(Script) /\ Len(wire) <= Window /\ pc = "idle"
    /\ messages' = Compose(size)
    /\ LET sealed == EpochAt(Total) > 0
       IN  /\ ~sealed => size <= MAX_PLAINTEXT
           /\ wire' = wire \o buffer_encrypt_record(size, sealed)
    /\ sent' = Total + size
    /\ emitted' = Append(emitted, AsItem("handshake", Len(messages) + 1))
    /\ UNCHANGED <<conf, extra, avail, rec, mess, src, pc, keys, done, got>>

(* Another implementation composes messages and cuts them into records as   *)
(* it likes: several to a record, or a record across several.               *)
ComposeMessage(size) ==
    /\ conf.peer = "other"
    /\ Len(messages) < Len(Script) /\ Total - sent < MAX_PLAINTEXT /\ pc = "idle"
    /\ messages' = Compose(size)
    /\ UNCHANGED <<conf, sent, extra, emitted, receiving>>

Ended(pos) == Cardinality({m \in DOMAIN messages : End(m) <= pos})

SendFragment(len) ==
    /\ conf.peer = "other"
    /\ len <= Total - sent /\ Len(wire) <= Window /\ pc = "idle"
    /\ len = 0 => extra < MaxExtra
    /\ extra' = extra + (IF len = 0 THEN 1 ELSE 0)
    /\ wire' = wire \o Bytes(Record("handshake", sent, len, EpochAt(sent) > 0))
    /\ sent' = sent + len
    /\ emitted' = emitted \o [k \in 1..(Ended(sent + len) - Ended(sent)) |->
                                AsItem("handshake", Ended(sent) + k)]
    /\ UNCHANGED <<conf, messages, avail, rec, mess, src, pc, keys, done, got>>

(* Records of other types.  picotls sends a ChangeCipherSpec during its     *)
(* handshake and data and alerts after it, and seals what it can; another   *)
(* implementation may send any of them at any time: malformed, unsealed, of *)
(* an unknown type, too long, or holding nothing but padding.               *)
Finished == \E m \in DOMAIN messages : Script[m] = "finished" /\ End(m) <= sent

SendOther(type, len, sealed) ==
    /\ conf.api = "record" /\ extra < MaxExtra /\ Len(wire) <= Window /\ pc = "idle"
    /\ sealed => EpochAt(sent) > 0
    /\ conf.peer = "picotls" =>
         /\ type \in {"ccs", "appdata", "alert"}
         /\ len = CASE type = "ccs" -> 1 [] type = "alert" -> 2 [] OTHER -> MAX_PLAINTEXT
         /\ (type = "ccs") = ~Finished
         /\ sealed = (type # "ccs")
    /\ extra' = extra + 1
    /\ wire' = wire \o Bytes(Record(type, sent, len, sealed))
    /\ emitted' = IF type \in {"appdata", "alert"} THEN Append(emitted, AsItem(type, 0))
                  ELSE emitted
    /\ UNCHANGED <<conf, messages, sent, avail, rec, mess, src, pc, keys, done, got>>

-----------------------------------------------------------------------------
(* The receiver. *)

(* tls->state >= PTLS_STATE_POST_HANDSHAKE_MIN *)
Complete == \E m \in 1..done : m <= Len(Script) /\ Script[m] = "finished"

(* The application hands what the transport has to ptls_handshake, or to    *)
(* ptls_receive once the handshake is complete, in pieces of any size.      *)
Call(n) ==
    /\ conf.api = "record" /\ pc = "idle" /\ n \in 1..Len(wire)
    /\ avail' = n
    /\ pc' = "input"
    /\ UNCHANGED <<conf, sending, wire, rec, mess, src, keys, done, got>>

(* The loop of ptls_handshake and ptls_receive ends with the input; what    *)
(* a call did not consume is given to the next one.                         *)
Return ==
    /\ pc = "input" /\ avail = 0
    /\ pc' = "idle"
    /\ UNCHANGED <<conf, sending, wire, avail, rec, mess, src, keys, done, got>>

(* What parse_record has to look at: the bytes kept from earlier calls and  *)
(* those of this one.                                                       *)
Buffered == rec \o SubSeq(wire, 1, avail)
Current  == Buffered[1].r
Needed   == REC_HEADER + Length(Current)

HasHeader == pc = "input" /\ avail > 0 /\ Len(Buffered) >= REC_HEADER

(* Mutant: the length field is believed. *)
NeverTooLong == FALSE

(* parse_record_header *)
TooLong == Length(Current) > MAX_PLAINTEXT + (IF Current.sealed THEN EXPANSION ELSE 0)

Consumed(n) ==
    /\ wire' = SubSeq(wire, n + 1, Len(wire))
    /\ avail' = avail - n

(* parse_record without a whole record: everything given is kept.           *)
parse_record_incomplete ==
    /\ pc = "input" /\ avail > 0
    /\ Len(Buffered) >= REC_HEADER => ~TooLong /\ Len(Buffered) < Needed
    /\ rec' = Buffered
    /\ Consumed(avail)
    /\ UNCHANGED <<conf, sending, mess, src, pc, keys, done, got>>

Whole == HasHeader /\ ~TooLong /\ Len(Buffered) >= Needed

(* parse_record with a whole record, on the fast path (nothing kept, the    *)
(* record is read in place) or on the slow one (the rest is copied behind   *)
(* what was kept), then NextRecord.                                         *)
NextRecord ==
    /\ Whole
    /\ Consumed(Needed - Len(rec))
    /\ rec' = <<>>

(* handle_input returns an error: the connection is over.                   *)
Failed ==
    /\ pc' = "failed"
    /\ UNCHANGED <<conf, sending, wire, avail, rec, mess, src, keys, done, got>>

(* aead_decrypt, or no key and a record in the clear *)
Opens(r) == IF keys > 0 THEN (r.sealed /\ r.epoch = keys) \/ (~r.sealed /\ r.type = "alert")
            ELSE ~r.sealed

(* A ChangeCipherSpec is skipped while the handshake lasts, between the     *)
(* records of a message too.                                                *)
(* Mutant: not any more once a key is in use. *)
SkipsPlainCCS == Current.type = "ccs" /\ ~Complete /\ Current.len = 1 /\ keys = 0

SkipsCCS == Current.type = "ccs" /\ ~Current.sealed /\ ~Complete /\ Current.len = 1

change_cipher_spec ==
    /\ NextRecord /\ SkipsCCS
    /\ UNCHANGED <<conf, sending, mess, src, pc, keys, done, got>>

(* handle_handshake_record applies while a message is incomplete, whatever  *)
(* the type of the record.                                                  *)
IsHandshake == Opens(Current) /\ Current.type = "handshake"

message_buffer_is_overflow(size) == conf.max_buffer_size # 0 /\ size > conf.max_buffer_size

Overflows(len) == mess # <<>> /\ message_buffer_is_overflow(Len(mess) + len)

Fragment(r) == [i \in 1..r.len |-> [pos |-> r.first + i - 1, epoch |-> r.epoch]]

(* Mutant: the record is not put behind the partial message. *)
FlattenNothing(fragment) == fragment

(* handle_handshake_record: "flatten the unhandled messages". *)
Flatten(fragment) == mess \o fragment

handle_handshake_record ==
    /\ NextRecord /\ IsHandshake /\ ~Overflows(Current.len)
    /\ src' = Flatten(Fragment(Current))
    /\ mess' = IF mess = <<>> THEN mess ELSE src'
    /\ pc' = "messages"
    /\ UNCHANGED <<conf, sending, keys, done, got>>

(* ptls_handle_message: a piece of the handshake stream of one epoch, which *)
(* must be the epoch the state expects (ptls_get_read_epoch).               *)
Piece(n) == [i \in 1..n |-> [pos |-> wire[i].r.first + wire[i].i - 1, epoch |-> wire[i].r.epoch]]

ptls_handle_message(n) ==
    /\ conf.api = "message" /\ pc = "idle" /\ n \in 1..Len(wire)
    /\ \A i \in 1..n : Piece(n)[i].epoch = keys
    /\ ~Overflows(n)
    /\ src' = Flatten(Piece(n))
    /\ mess' = IF mess = <<>> THEN mess ELSE src'
    /\ wire' = SubSeq(wire, n + 1, Len(wire))
    /\ pc' = "messages"
    /\ UNCHANGED <<conf, sending, avail, rec, keys, done, got>>

ptls_handle_message_fails(n) ==
    /\ conf.api = "message" /\ pc = "idle" /\ n \in 1..Len(wire)
    /\ \A i \in 1..n : Piece(n)[i].epoch = Piece(n)[1].epoch
    /\ Piece(n)[1].epoch # keys \/ Overflows(n)
    /\ Failed

(* The message whose header src points at, and its length field.  Bytes     *)
(* that begin no message would be read as the header of one (number 0).     *)
Heads     == {m \in DOMAIN messages : messages[m].start = src[1].pos}
Message   == IF Heads = {} THEN 0 ELSE CHOOSE m \in Heads : TRUE
mess_len  == IF Heads = {} THEN MESS_HEADER ELSE messages[Message].size
Kind      == IF Heads = {} THEN "plain" ELSE Script[Message]

(* Mutants: the last message of a record waits; one without a body does.    *)
UnhandledBefore == Len(src) >= MESS_HEADER /\ Len(src) > mess_len
UnhandledBody   == Len(src) > MESS_HEADER /\ Len(src) >= mess_len

Unhandled == Len(src) >= MESS_HEADER /\ Len(src) >= mess_len

(* Mutant: no handler asks for is_end_of_record. *)
MayAlwaysHandle == TRUE

(* is_end_of_record, for the handlers that ask for it *)
MayHandle == Kind \in EndsRecord => Len(src) = mess_len

(* One round of the loop "handle the messages".  Once the handshake is      *)
(* complete ptls_handshake leaves the rest of its input to the caller; the  *)
(* first flight may end a call too (early data is next).                    *)
handle_message ==
    /\ pc = "messages" /\ Unhandled /\ MayHandle
    /\ src' = SubSeq(src, mess_len + 1, Len(src))
    /\ keys' = keys + (IF Kind \in KeyChanging THEN 1 ELSE 0)
    /\ done' = done + 1
    /\ got' = Append(got, AsItem("handshake", Message))
    /\ avail' \in CASE Kind = "finished" -> {0} [] Kind = "hello" -> {avail, 0}
                    [] OTHER -> {avail}
    /\ UNCHANGED <<conf, sending, wire, rec, mess, pc>>

(* A handler reports an error. *)
handle_message_fails ==
    /\ pc = "messages" /\ Unhandled
    /\ MayHandle => conf.peer = "other"
    /\ mess' = <<>>
    /\ pc' = "failed"
    /\ UNCHANGED <<conf, sending, wire, avail, rec, src, keys, done, got>>

(* "keep last partial message in buffer" *)
keep_partial_message ==
    /\ pc = "messages" /\ ~Unhandled /\ ~message_buffer_is_overflow(Len(src))
    /\ mess' = src
    /\ src' = <<>>
    /\ pc' = IF conf.api = "record" THEN "input" ELSE "idle"
    /\ UNCHANGED <<conf, sending, wire, avail, rec, keys, done, got>>

message_overflow ==
    /\ pc = "messages" /\ ~Unhandled /\ message_buffer_is_overflow(Len(src))
    /\ Failed

(* Application data and alerts, between messages only.  Data ends the call  *)
(* of ptls_receive, every alert the connection.                             *)
IsData  == Opens(Current) /\ mess = <<>> /\ Current.type = "appdata" /\ Complete
IsAlert == Opens(Current) /\ mess = <<>> /\ Current.type = "alert" /\ Current.len = 2

receive_data ==
    /\ Whole /\ IsData
    /\ wire' = SubSeq(wire, Needed - Len(rec) + 1, Len(wire))
    /\ avail' = 0
    /\ rec' = <<>>
    /\ got' = Append(got, AsItem("appdata", 0))
    /\ UNCHANGED <<conf, sending, mess, src, pc, keys, done>>

handle_alert ==
    /\ NextRecord /\ IsAlert
    /\ got' = Append(got, AsItem("alert", 0))
    /\ pc' = "failed"
    /\ UNCHANGED <<conf, sending, mess, src, keys, done>>

(* Everything else is an error: a header that announces too much, a record  *)
(* that does not open or has no place here.                                 *)
Accepts == \/ SkipsCCS
           \/ IsHandshake /\ ~Overflows(Current.len)
           \/ IsData
           \/ IsAlert

handle_input_fails ==
    /\ HasHeader
    /\ TooLong \/ (Whole /\ ~Accepts)
    /\ Failed

Receive ==
    \/ \E n \in 1..Len(wire) : Call(n) \/ ptls_handle_message(n) \/ ptls_handle_message_fails(n)
    \/ Return \/ parse_record_incomplete \/ change_cipher_spec
    \/ handle_handshake_record \/ handle_message \/ handle_message_fails
    \/ keep_partial_message \/ message_overflow
    \/ receive_data \/ handle_alert \/ handle_input_fails

Send ==
    \/ \E size \in Sizes : commit_record_message(size) \/ ComposeMessage(size)
    \/ \E len \in 0..MAX_PLAINTEXT : SendFragment(len)
    \/ \E e \in Extras : SendOther(e.type, e.len, e.sealed)

Next == Send \/ Receive

Safety == Init /\ [][Next]_vars

(* The application goes on handing over what the transport brings.          *)
Spec == Safety /\ WF_vars(Receive)

-----------------------------------------------------------------------------
Byte     == [r : [type : Types \cup {"handshake"}, first : Nat, len : Nat, sealed : BOOLEAN,
                  epoch : Nat], i : Nat \ {0}]
Position == [pos : Nat, epoch : Nat]

(* recvbuf.rec never holds as much as a whole record of the largest size,   *)
(* and the number of bytes a call may still consume never exceeds what the  *)
(* transport delivered.                                                     *)
TypeOK ==
    /\ conf \in Conf
    /\ messages \in Seq([start : Nat, size : Sizes]) /\ Len(messages) <= Len(Script)
    /\ sent \in 0..Total /\ extra \in 0..MaxExtra
    /\ wire \in Seq(Byte) /\ avail \in 0..Len(wire)
    /\ rec \in Seq(Byte) /\ Len(rec) < REC_HEADER + MAX_PLAINTEXT + EXPANSION
    /\ mess \in Seq(Position) /\ src \in Seq(Position)
    /\ pc \in {"idle", "input", "messages", "failed"}
    /\ keys \in Nat /\ done \in Nat
    /\ emitted \in Seq([type : {"handshake", "appdata", "alert"}, m : Nat])
    /\ got \in Seq([type : {"handshake", "appdata", "alert"}, m : Nat])

(* How the connection ended: with the alert that ptls_receive reported, or  *)
(* on the way there.                                                        *)
Outcome(items) ==
    IF items # <<>> /\ items[Len(items)].type = "alert" THEN "closed" ELSE "failed"

(* What the application and the handlers are given is what the peer         *)
(* emitted, in its order, however the transport and the peer cut it up:     *)
(* SecureChannel, with the messages of handle_handshake_record as its items.*)
Channel == INSTANCE SecureChannel WITH
    Side    <- {"peer", "us"},
    Peer    <- LAMBDA s : IF s = "us" THEN "peer" ELSE "us",
    Item    <- [type : {"handshake", "appdata", "alert"}, m : Nat],
    IsClose <- LAMBDA item : item.type = "alert",
    sent    <- [s \in {"peer", "us"} |-> IF s = "peer" THEN emitted ELSE <<>>],
    got     <- [s \in {"peer", "us"} |-> IF s = "us" THEN got ELSE <<>>],
    end     <- [s \in {"peer", "us"} |-> IF s = "us" /\ pc = "failed" THEN Outcome(got) ELSE "open"],
    unsealed <- [s \in {"peer", "us"} |-> FALSE]

InOrder == Channel!Spec

(* When ptls_handshake, ptls_receive or ptls_handle_message has returned    *)
(* successfully, everything it consumed has had its effect: recvbuf.rec     *)
(* holds less than a record, recvbuf.mess less than a message, both start   *)
(* where the last complete one ended, and recvbuf.mess respects             *)
(* max_buffer_size.                                                         *)
NothingWaits ==
    pc = "idle" =>
      /\ src = <<>>
      /\ rec # <<>> => \A i \in 1..Len(rec) : rec[i] = [r |-> rec[1].r, i |-> i]
      /\ Len(rec) >= REC_HEADER => Len(rec) < REC_HEADER + Length(rec[1].r)
      /\ \A i \in 1..Len(mess) : mess[i].pos = (IF done = 0 THEN 0 ELSE End(done)) + i - 1
      /\ mess # <<>> => Len(mess) < messages[done + 1].size
      /\ conf.max_buffer_size # 0 => Len(mess) <= conf.max_buffer_size

(* No byte is acted upon under a key older than the one a ServerHello,      *)
(* ClientHello or Finished before it installed: the handlers that change    *)
(* keys insist on is_end_of_record.  (KeyUpdate and EndOfEarlyData do not   *)
(* insist; what follows them in the same record is accepted.)               *)
KeyChangesAlign ==
    pc = "messages" /\ src # <<>> =>
      \A i \in 1..Len(src) : src[i].epoch >= Cardinality({m \in 1..done : Script[m] \in EndsRecord})

(* Between two picotls endpoints nothing in the cutting of messages into    *)
(* records makes a connection fail: only an alert ends it, or a message     *)
(* larger than the receiver's max_buffer_size.  (Not so behind the message  *)
(* API: the limit also counts the messages that follow in the same piece.)  *)
PicotlsUnderstood ==
    conf.peer = "picotls" /\ conf.api = "record" /\ pc = "failed" =>
      \/ got # <<>> /\ got[Len(got)].type = "alert"
      \/ \E m \in DOMAIN messages : message_buffer_is_overflow(messages[m].size)

(* Everything the peer emitted is acted upon in the end, unless the         *)
(* connection fails: no byte is left behind in a buffer.                    *)
Delivered == <>[](got = emitted \/ pc = "failed")
=============================================================================
