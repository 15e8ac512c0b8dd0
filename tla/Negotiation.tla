---------------------------- MODULE Negotiation ----------------------------
(***************************************************************************)
(* What a connection agrees on, over several connections in time: cipher   *)
(* suite, group, key schedule and session ticket (lib/picotls.c).  Client  *)
(* and server each have lists of what they support, in order of            *)
(* preference, and the lists may be other ones in the next connection,     *)
(* when the client still holds the ticket of an earlier one.  Suites have  *)
(* different hash functions; a client that does not know yet which one it  *)
(* will be keeps a running hash for each and computes its early secret     *)
(* with the first.                                                         *)
(*                                                                         *)
(* Messages take time.  A ticket's age is reported by the client, hidden   *)
(* by a 32-bit addition, and compared with the age the server computes.    *)
(* What follows the hellos, and cookies, are in Handshake.                 *)
(***************************************************************************)
EXTENDS Integers, SequencesExt

CONSTANTS
  Clients,        \* client contexts: [suites, groups, negotiate_before_key_exchange, require_dhe]
  Servers,        \* server contexts: [suites, groups, enforce_retry, require_dhe, early]
  Groups,         \* identifiers of groups
  Hash,           \* the hash function of each suite
  Names,          \* server names a client may ask for
  ticket_lifetime,
  CLIENT_LIMIT,   \* the seven days a client uses a ticket for
  MAX_DELAY,      \* PTLS_EARLY_DATA_MAX_DELAY
  MODULUS,        \* 2^32: ages and ticket_age_add are uint32_t
  AgeAdds,        \* values of the random ticket_age_add
  MaxTime         \* bound on the clock

None == "none"

ASSUME ContextsAssumption ==
  /\ \A c \in Clients : /\ c.suites \in Seq(DOMAIN Hash) \ {<<>>}
                        /\ c.groups \in Seq(Groups) \ {<<>>}
                        /\ c.negotiate_before_key_exchange \in BOOLEAN
                        /\ c.require_dhe \in BOOLEAN
  /\ \A s \in Servers : /\ s.suites \in Seq(DOMAIN Hash)
                        /\ s.groups \in Seq(Groups)
                        /\ s.enforce_retry \in BOOLEAN
                        /\ s.require_dhe \in BOOLEAN /\ s.early \in BOOLEAN
  /\ None \notin DOMAIN Hash \cup Groups \cup Names

ASSUME TimesAssumption ==
  /\ {ticket_lifetime, CLIENT_LIMIT, MAX_DELAY, MaxTime} \subseteq Nat
  /\ MODULUS \in Nat \ {0} /\ CLIENT_LIMIT <= MODULUS
  /\ AgeAdds \subseteq 0..(MODULUS - 1)

VARIABLES
  now,         \* ctx->get_time
  ticket,      \* what save_ticket was given last, or NoTicket
  pc,          \* whose turn it is, or how the connection ended
  cctx, sctx,  \* the contexts of this connection
  name,        \* the server name asked for
  ch,          \* the ClientHello on its way
  sh,          \* the HelloRetryRequest or ServerHello on its way
  client,      \* the client's tls
  server       \* the server's tls

vars == <<now, ticket, pc, cctx, sctx, name, ch, sh, client, server>>

NoTicket  == [kx |-> None]
NoHello   == [share |-> None]
NoTls     == [suite |-> None, share |-> None]
NoContext == [suites |-> <<>>]

\* ptls_free: between two connections there is only the ticket.
Free ==
  /\ cctx' = NoContext /\ sctx' = NoContext /\ name' = None
  /\ ch' = NoHello /\ sh' = NoHello /\ client' = NoTls /\ server' = NoTls
-----------------------------------------------------------------------------
(* Selection.                                                               *)

\* The first element of list that is among the candidates.
First(list, candidates) ==
  LET common == {i \in DOMAIN list : Contains(candidates, list[i])} IN
  IF common = {} THEN None ELSE list[Min(common)]

\* Mutant: the server's order decides.
select_first_server(list, candidates) == First(candidates, list)

\* The first the peer names that is supported.
select_first(list, candidates) == First(list, candidates)

select_cipher(list, candidates) == select_first(list, candidates)

select_negotiated_group(list, candidates) == select_first(list, candidates)

\* select_key_share, for a client that sends one share at most.
select_key_share(share, candidates) == IF Contains(candidates, share) THEN share ELSE None
-----------------------------------------------------------------------------
(* The key schedule: the hash in the first slot, which the secret is        *)
(* computed with, the hashes in the others, and what the secret is made of. *)

extract(first, others, ikm) ==
  [first |-> first, others |-> others, secret |-> [hash |-> first, ikm |-> ikm]]

\* One slot for each hash: that of the preferred suite first, or else that of
\* the first suite offered.
key_schedule_new(preferred, offered, ikm) ==
  LET first == Hash[IF preferred = None THEN Head(offered) ELSE preferred] IN
  extract(first, {Hash[offered[i]] : i \in DOMAIN offered} \ {first}, ikm)

\* Mutant: the secret is only recalculated when a PSK was refused.
select_one_same_secret(sched, cs, reset) ==
  IF reset THEN extract(Hash[cs], {}, None) ELSE [sched EXCEPT !.first = Hash[cs], !.others = {}]

\* The selected hash moves to the first slot; the secret is recalculated if
\* it was made with another hash or from a PSK that is not used.
key_schedule_select_one(sched, cs, reset) ==
  IF reset \/ sched.first # Hash[cs]
  THEN extract(Hash[cs], {}, None)
  ELSE [sched EXCEPT !.others = {}]
-----------------------------------------------------------------------------
(* The client.                                                              *)

\* decode_stored_session_ticket succeeds.
Usable(ctx) ==
  /\ ticket # NoTicket
  /\ Contains(ctx.groups, ticket.kx)
  /\ Contains(ctx.suites, ticket.cs)
  /\ ticket.obtained_at <= now
  /\ now - ticket.obtained_at < CLIENT_LIMIT

\* Mutant: the age is encoded without being reduced to 32 bits.
obfuscated_ticket_age_wide == (now - ticket.obtained_at) + ticket.age_add

obfuscated_ticket_age == ((now - ticket.obtained_at) + ticket.age_add) % MODULUS

Hello(ctx, share, second) ==
  [share |-> share,
   suites |-> ctx.suites, groups |-> ctx.groups,
   psk |-> IF Usable(ctx) THEN ticket ELSE NoTicket,
   age |-> IF Usable(ctx) THEN obfuscated_ticket_age ELSE 0,
   ke_modes |-> IF ctx.require_dhe THEN {"psk_dhe"} ELSE {"psk", "psk_dhe"},
   early |-> Usable(ctx) /\ ticket.early /\ ~second,
   sent_at |-> now]

\* The group of the first ClientHello's share.
FirstShare(ctx) ==
  IF Usable(ctx) THEN ticket.kx
  ELSE IF ctx.negotiate_before_key_exchange THEN None
  ELSE Head(ctx.groups)

send_client_hello(c, s, n) ==
  /\ pc = "idle"
  /\ cctx' = c /\ sctx' = s /\ name' = n
  /\ client' = [suite |-> IF Usable(c) THEN ticket.cs ELSE None,
                share |-> FirstShare(c),
                offered_psk |-> Usable(c),
                is_psk |-> FALSE,
                sched |-> IF Usable(c) THEN key_schedule_new(ticket.cs, c.suites, "psk")
                                       ELSE key_schedule_new(None, c.suites, None)]
  /\ server' = NoTls
  /\ ch' = Hello(c, FirstShare(c), FALSE)
  /\ pc' = "server_handle_hello"
  /\ UNCHANGED <<now, ticket, sh>>

\* decode_server_hello succeeds.
ServerHelloDecodes ==
  /\ Contains(cctx.suites, sh.suite)
  /\ ~sh.retry => /\ sh.share # None => sh.share = client.share
                  /\ sh.psk => client.offered_psk
                  /\ sh.share # None \/ sh.psk

\* handle_hello_retry_request, after the part of client_handle_hello before it.
handle_hello_retry_request ==
  LET share == IF sh.share # None THEN sh.share ELSE client.share IN
  /\ pc = "client_handle_hello"
  /\ sh.retry
  /\ IF ServerHelloDecodes /\ Contains(cctx.groups, share)
     THEN /\ client' = [client EXCEPT
                          !.suite = IF Usable(cctx) THEN ticket.cs ELSE sh.suite,
                          !.share = share,
                          !.offered_psk = @ \/ Usable(cctx),
                          !.sched = key_schedule_select_one(@, sh.suite, FALSE)]
          /\ ch' = Hello(cctx, share, TRUE)
          /\ pc' = "server_handle_hello"
     ELSE /\ pc' = "failed"
          /\ UNCHANGED <<client, ch>>
  /\ UNCHANGED <<now, ticket, cctx, sctx, name, sh, server>>

client_handle_hello ==
  /\ pc = "client_handle_hello"
  /\ ~sh.retry
  /\ IF ServerHelloDecodes
     THEN /\ client' = [client EXCEPT
                          !.suite = sh.suite, !.is_psk = sh.psk,
                          !.sched = key_schedule_select_one(@, sh.suite,
                                                            client.offered_psk /\ ~sh.psk)]
          /\ pc' = "established"
     ELSE /\ pc' = "failed"
          /\ UNCHANGED client
  /\ UNCHANGED <<now, ticket, cctx, sctx, name, ch, sh, server>>

\* The ticket is stored with the time it arrived at, or not at all.
client_handle_new_session_ticket ==
  /\ pc = "established"
  /\ pc' = "idle"
  /\ \/ ticket' = [kx |-> client.share, cs |-> client.suite, obtained_at |-> now,
                   age_add |-> sh.ticket.age_add, early |-> sh.ticket.early,
                   session |-> sh.ticket.session]
     \/ UNCHANGED ticket
  /\ Free
  /\ UNCHANGED now
-----------------------------------------------------------------------------
(* The server.                                                              *)

\* Mutant: the ages are compared as they are reported.
reported_age_obfuscated == ch.age

\* identity->obfuscated_ticket_age - age_add, in 32 bits.
reported_age == (ch.age - ch.psk.session.age_add) % MODULUS

\* The two ages differ by PTLS_EARLY_DATA_MAX_DELAY at most.
AgesAgree ==
  LET delta == (now - ch.psk.session.issue_at) - reported_age IN
  delta \in (0 - MAX_DELAY)..MAX_DELAY

\* Mutant: the cipher suite of the ticket is not compared.
PskFound_any_suite(suite) ==
  LET session == ch.psk.session IN
  /\ now >= session.issue_at /\ now - session.issue_at <= ticket_lifetime
  /\ session.name = name
  /\ Contains(sctx.groups, session.kx)

\* try_psk_handshake, for a suite that has been selected.
PskFound(suite) ==
  LET session == ch.psk.session IN
  /\ now >= session.issue_at /\ now - session.issue_at <= ticket_lifetime
  /\ session.name = name
  /\ Contains(sctx.groups, session.kx)
  /\ session.cs = suite

Second == server # NoTls

Fails ==
  /\ pc' = "failed"
  /\ UNCHANGED <<now, ticket, cctx, sctx, name, ch, sh, client, server>>

\* No common cipher suite, or none after the retry that was there before it.
NoSuite ==
  LET suite == select_cipher(ch.suites, sctx.suites) IN
  suite = None \/ (Second /\ suite # server.suite)

NeedsRetry == ~Second /\ (select_key_share(ch.share, sctx.groups) = None \/ sctx.enforce_retry)

ServerRejects ==
  /\ pc = "server_handle_hello"
  /\ \/ NoSuite
     \/ NeedsRetry /\ select_negotiated_group(ch.groups, sctx.groups) = None
     \/ Second /\ select_key_share(ch.share, sctx.groups) = None
  /\ Fails

ServerRetries ==
  LET suite == select_cipher(ch.suites, sctx.suites)
      group == select_negotiated_group(ch.groups, sctx.groups) IN
  /\ pc = "server_handle_hello"
  /\ ~NoSuite /\ NeedsRetry /\ group # None
  /\ server' = [suite |-> suite, share |-> None]
  /\ sh' = [retry |-> TRUE, suite |-> suite,
            share |-> IF select_key_share(ch.share, sctx.groups) = None THEN group ELSE None]
  /\ pc' = "client_handle_hello"
  /\ UNCHANGED <<now, ticket, cctx, sctx, name, ch, client>>

\* What the server will find in the ticket when it comes back.
encode_session_identifier(suite, group, add) ==
  [issue_at |-> now, age_add |-> add, kx |-> group, cs |-> suite, name |-> name]

NewSessionTicket(suite, group, add) ==
  [age_add |-> add, early |-> sctx.early,
   session |-> encode_session_identifier(suite, group, add)]

\* The ServerHello, and the ticket that follows it.
server_handle_hello ==
  LET suite == select_cipher(ch.suites, sctx.suites)
      share == select_key_share(ch.share, sctx.groups)
      modes == IF sctx.require_dhe THEN ch.ke_modes \ {"psk"} ELSE ch.ke_modes
      psk   == ~Second /\ ch.psk # NoTicket /\ PskFound(suite)
      dhe   == ~(psk /\ "psk" \in modes)
      group == IF dhe THEN share ELSE ch.psk.session.kx
      early == psk /\ ch.early /\ AgesAgree /\ sctx.early IN
  /\ pc = "server_handle_hello"
  /\ ~NoSuite /\ ~NeedsRetry /\ share # None
  /\ server' = [suite |-> suite, share |-> group, is_psk |-> psk, early |-> early, at |-> now,
                sched |-> extract(Hash[suite], {}, IF psk THEN "psk" ELSE None)]
  /\ \E add \in AgeAdds :
       sh' = [retry |-> FALSE, suite |-> suite, share |-> IF dhe THEN share ELSE None,
              psk |-> psk,
              ticket |-> NewSessionTicket(suite, group, add)]
  /\ pc' = "client_handle_hello"
  /\ UNCHANGED <<now, ticket, cctx, sctx, name, ch, client>>
-----------------------------------------------------------------------------
\* Messages take time, and connections come at any time.
Tick ==
  /\ now < MaxTime
  /\ now' = now + 1
  /\ UNCHANGED <<ticket, pc, cctx, sctx, name, ch, sh, client, server>>

Close ==
  /\ pc = "failed"
  /\ pc' = "idle"
  /\ Free
  /\ UNCHANGED <<now, ticket>>

Init ==
  /\ now = 0 /\ ticket = NoTicket /\ pc = "idle"
  /\ cctx = NoContext /\ sctx = NoContext /\ name = None
  /\ ch = NoHello /\ sh = NoHello /\ client = NoTls /\ server = NoTls

Next ==
  \/ \E c \in Clients, s \in Servers, n \in Names : send_client_hello(c, s, n)
  \/ handle_hello_retry_request
  \/ client_handle_hello
  \/ client_handle_new_session_ticket
  \/ ServerRejects
  \/ ServerRetries
  \/ server_handle_hello
  \/ Tick
  \/ Close

Spec == Init /\ [][Next]_vars
-----------------------------------------------------------------------------
(***************************************************************************)
(* The types; ages fit in 32 bits, tickets are not from the future, and an *)
(* established client has one hash left.                                   *)
(***************************************************************************)
TypeOK ==
  /\ now \in 0..MaxTime
  /\ pc \in {"idle", "server_handle_hello", "client_handle_hello", "established", "failed"}
  /\ cctx \in Clients \cup {NoContext} /\ sctx \in Servers \cup {NoContext}
  /\ name \in Names \cup {None}
  /\ ticket # NoTicket => /\ ticket.age_add \in 0..(MODULUS - 1)
                         /\ ticket.session.issue_at \in 0..now
                         /\ ticket.obtained_at \in 0..now
  /\ ch # NoHello => ch.age \in 0..(MODULUS - 1)
  /\ pc = "established" => client.sched.others = {}

(***************************************************************************)
(* Whatever was offered, refused, retried or has expired in between, both  *)
(* sides compute the same early secret: they have the same suite, hash     *)
(* function and PSK or none; and a resumed connection is with the server   *)
(* name and the suite the ticket was issued for.  On the way there, key_   *)
(* schedule_select_one always finds a slot with the hash it looks for.     *)
(***************************************************************************)
SameSchedule ==
  /\ pc = "client_handle_hello" =>
       Hash[sh.suite] \in {client.sched.first} \cup client.sched.others
  /\ pc = "established" =>
    /\ client.suite = server.suite /\ client.share = server.share
    /\ client.is_psk = server.is_psk
    /\ client.sched = server.sched
    /\ client.is_psk => ch.psk.session.name = name /\ ch.psk.session.cs = client.suite

(***************************************************************************)
(* A connection fails only if there is no common suite or no common group, *)
(* whatever the client guesses first and whatever ticket it holds; else    *)
(* the suite is the one the client likes best of those the server has.     *)
(***************************************************************************)
Negotiated ==
  LET suites == {i \in DOMAIN cctx.suites : Contains(sctx.suites, cctx.suites[i])}
      groups == {i \in DOMAIN cctx.groups : Contains(sctx.groups, cctx.groups[i])} IN
  /\ pc = "failed" => suites = {} \/ groups = {}
  /\ pc = "established" =>
       \E i \in suites : client.suite = cctx.suites[i] /\ \A j \in suites : i <= j

(***************************************************************************)
(* Early data is taken exactly if the server resumes the session and the   *)
(* ClientHello and the ticket have together been on their way for no more  *)
(* than PTLS_EARLY_DATA_MAX_DELAY, whatever age_add is: the arithmetic on  *)
(* 32 bits neither lets a stale ClientHello pass nor refuses a fresh one.  *)
(***************************************************************************)
EarlyDataFresh ==
  Second /\ ~sh.retry =>
    server.early = /\ server.is_psk /\ ch.early /\ sctx.early
                   /\ (server.at - ch.sent_at)
                      + (ch.psk.obtained_at - ch.psk.session.issue_at) <= MAX_DELAY
=============================================================================
