------------------------- MODULE NegotiationProofs -------------------------
(***************************************************************************)
(* The invariants of Negotiation hold for all lists of suites and groups,  *)
(* all settings of the contexts, all hash functions, lifetimes and times.  *)
(***************************************************************************)
EXTENDS Negotiation, TLAPS, WellFoundedInduction, NaturalsInduction

(***************************************************************************)
(* The inductive invariant.  A ticket, seen at time t: it says of itself   *)
(* what the server's session says, and it was issued before it arrived.    *)
(***************************************************************************)
TicketOK(tk, t) ==
  /\ tk.kx \in Groups /\ tk.cs \in DOMAIN Hash
  /\ tk.age_add \in 0..(MODULUS - 1)
  /\ tk.obtained_at \in 0..t
  /\ tk.session.issue_at \in 0..tk.obtained_at
  /\ tk.session.age_add = tk.age_add
  /\ tk.session.cs = tk.cs /\ tk.session.kx = tk.kx

TicketInv == ticket = NoTicket \/ TicketOK(ticket, now)

\* Between connections there is nothing but the ticket.
IdleInv ==
  pc = "idle" => /\ cctx = NoContext /\ sctx = NoContext /\ name = None
                 /\ ch = NoHello /\ server = NoTls

\* The ticket of a ClientHello was usable when it was sent.
PskOK(c, h) ==
  h.psk # NoTicket =>
    /\ TicketOK(h.psk, h.sent_at)
    /\ Contains(c.groups, h.psk.kx) /\ Contains(c.suites, h.psk.cs)
    /\ h.sent_at - h.psk.obtained_at < CLIENT_LIMIT
    /\ h.age = ((h.sent_at - h.psk.obtained_at) + h.psk.age_add) % MODULUS

HelloOK(c, h, t) ==
  /\ h.suites = c.suites /\ h.groups = c.groups
  /\ h.sent_at \in 0..t
  /\ h.age \in 0..(MODULUS - 1)
  /\ h.early => h.psk # NoTicket
  /\ PskOK(c, h)

ConnectionInv ==
  pc # "idle" =>
    /\ cctx \in Clients /\ sctx \in Servers /\ name \in Names
    /\ HelloOK(cctx, ch, now)

\* A key schedule that has a slot for each hash of the list.
ScheduleOK(sched, suites) ==
  /\ sched = extract(sched.first, sched.others, sched.secret.ikm)
  /\ \A i \in DOMAIN suites : Hash[suites[i]] \in {sched.first} \cup sched.others

\* A client that has not been asked to retry: the PSK, if it offers one,
\* decides about hash and share.
FirstFlight ==
  /\ ScheduleOK(client.sched, cctx.suites)
  /\ client.offered_psk = (ch.psk # NoTicket)
  /\ client.offered_psk => /\ client.sched.first = Hash[ch.psk.cs]
                           /\ client.sched.secret.ikm = "psk"
                           /\ client.share = ch.psk.kx
  /\ ~client.offered_psk => client.sched.secret.ikm = None

\* A client that has been: one hash is left, and the PSK is refused.
AfterRetry(suite) ==
  /\ client.sched = extract(Hash[suite], {}, client.sched.secret.ikm)
  /\ client.offered_psk \in BOOLEAN
  /\ ~client.offered_psk => client.sched.secret.ikm = None

Selected(suite) == suite # None /\ suite = select_cipher(cctx.suites, sctx.suites)

ClientInv ==
  pc \in {"server_handle_hello", "client_handle_hello"} =>
    /\ {"suite", "share", "offered_psk", "is_psk", "sched"} \subseteq DOMAIN client
    /\ client.share = ch.share
    /\ client.share # None => Contains(cctx.groups, client.share)

\* A ClientHello is on its way.
ToServerInv ==
  pc = "server_handle_hello" =>
    IF server = NoTls THEN FirstFlight
    ELSE /\ sh.retry
         /\ Selected(server.suite)
         /\ AfterRetry(server.suite)
         /\ Contains(sctx.groups, client.share)

\* A HelloRetryRequest or a ServerHello is on its way.
ToClientInv ==
  pc = "client_handle_hello" =>
    /\ sh.retry \in BOOLEAN
    /\ Selected(sh.suite) /\ server.suite = sh.suite
    /\ IF sh.retry
       THEN /\ FirstFlight
            /\ sh.share # None => Contains(cctx.groups, sh.share)
            /\ Contains(sctx.groups, IF sh.share # None THEN sh.share ELSE client.share)
       ELSE /\ FirstFlight \/ (AfterRetry(sh.suite) /\ ~sh.psk)
            /\ sh.psk \in BOOLEAN /\ server.is_psk = sh.psk
            /\ server.share = client.share /\ client.share # None
            /\ sh.share \in {None, client.share}
            /\ sh.share = None => sh.psk
            /\ sh.psk => /\ FirstFlight /\ client.offered_psk
                         /\ ch.psk.session.name = name
                         /\ ch.psk.session.cs = sh.suite
            /\ server.sched = extract(Hash[sh.suite], {}, IF sh.psk THEN "psk" ELSE None)

\* The ticket that is on its way.
NewTicketInv ==
  (pc = "client_handle_hello" /\ ~sh.retry) \/ pc = "established" =>
    /\ sh.ticket.age_add \in 0..(MODULUS - 1)
    /\ sh.ticket.session.age_add = sh.ticket.age_add
    /\ sh.ticket.session.issue_at \in 0..now
    /\ sh.ticket.session.cs = server.suite /\ server.suite \in DOMAIN Hash
    /\ sh.ticket.session.kx = server.share /\ server.share \in Groups

Inv ==
  /\ TypeOK /\ SameSchedule /\ Negotiated /\ EarlyDataFresh
  /\ TicketInv /\ IdleInv /\ ConnectionInv /\ ClientInv
  /\ ToServerInv /\ ToClientInv /\ NewTicketInv
-----------------------------------------------------------------------------
(* Selection and arithmetic.                                                *)

\* A set of numbers that is not empty has a least element, which Min finds.
LEMMA MinIsLeast ==
  ASSUME NEW S \in SUBSET Nat, S # {}
  PROVE  Min(S) \in S /\ \A y \in S : Min(S) <= y
<1>1. PICK m \in S : \A y \in S : <<y, m>> \notin OpToRel(<, Nat)
  BY WFMin, NatLessThanWellFounded
<1>2. \A y \in S : ~(y < m)
  BY <1>1, Zenon DEF OpToRel
<1>3. \A y \in S : m <= y
  BY <1>2
<1>. QED  BY <1>3 DEF Min

\* select_cipher and select_negotiated_group: what First returns is the first of
\* the list that the candidates contain, and None only if there is none.
LEMMA FirstIsFirst ==
  ASSUME NEW S, None \notin S, NEW list \in Seq(S), NEW candidates
  PROVE  LET common == {i \in DOMAIN list : Contains(candidates, list[i])}
             first  == First(list, candidates)
         IN  /\ first = None => common = {}
             /\ first # None =>
                  /\ first \in S
                  /\ Contains(candidates, first) /\ Contains(list, first)
                  /\ \E i \in common : first = list[i] /\ \A j \in common : i <= j
<1>. DEFINE common == {i \in DOMAIN list : Contains(candidates, list[i])}
<1>1. CASE common = {}
  BY <1>1 DEF First
<1>2. CASE common # {}
  <2>1. common \in SUBSET Nat /\ DOMAIN list = 1..Len(list)
    OBVIOUS
  <2>2. Min(common) \in common /\ \A y \in common : Min(common) <= y
    BY <2>1, <1>2, MinIsLeast
  <2>3. First(list, candidates) = list[Min(common)]
    BY <1>2 DEF First
  <2>4. list[Min(common)] \in S /\ Contains(list, list[Min(common)])
    BY <2>1, <2>2 DEF Contains
  <2>. QED  BY <2>2, <2>3, <2>4
<1>. QED  BY <1>1, <1>2

\* An age that was hidden by adding age_add in 32 bits is found again.
LEMMA AgeIsFound ==
  ASSUME NEW M \in Nat \ {0}, NEW x \in 0..(M - 1), NEW a \in 0..(M - 1)
  PROVE  (((x + a) % M) - a) % M = x
<1>1. CASE x + a < M
  <2>1. (x + a) % M = x + a  BY <1>1
  <2>. QED  BY <2>1
<1>2. CASE x + a >= M
  <2>1. (x + a) % M = x + a - M  BY <1>2
  <2>2. (x - M) % M = x  OBVIOUS
  <2>. QED  BY <2>1, <2>2
<1>. QED  BY <1>1, <1>2

\* What select_cipher and select_negotiated_group return for two contexts.
LEMMA Selection ==
  ASSUME NEW c \in Clients, NEW s \in Servers
  PROVE  LET suites == {i \in DOMAIN c.suites : Contains(s.suites, c.suites[i])}
             groups == {i \in DOMAIN c.groups : Contains(s.groups, c.groups[i])}
             cs     == select_cipher(c.suites, s.suites)
             kx     == select_negotiated_group(c.groups, s.groups)
         IN  /\ cs = None => suites = {}
             /\ cs # None => /\ cs \in DOMAIN Hash
                             /\ Contains(c.suites, cs)
                             /\ \E i \in suites : cs = c.suites[i] /\ \A j \in suites : i <= j
             /\ kx = None => groups = {}
             /\ kx # None => /\ kx \in Groups
                             /\ Contains(c.groups, kx)
                             /\ Contains(s.groups, kx)
<1>. DEFINE suites == {i \in DOMAIN c.suites : Contains(s.suites, c.suites[i])}
            groups == {i \in DOMAIN c.groups : Contains(s.groups, c.groups[i])}
            cs     == select_cipher(c.suites, s.suites)
            kx     == select_negotiated_group(c.groups, s.groups)
<1>1. /\ c.suites \in Seq(DOMAIN Hash) /\ None \notin DOMAIN Hash
      /\ c.groups \in Seq(Groups) /\ None \notin Groups
  BY ContextsAssumption
<1>2. cs = First(c.suites, s.suites) /\ kx = First(c.groups, s.groups)
  BY DEF select_cipher, select_negotiated_group, select_first
<1>3. /\ cs = None => suites = {}
      /\ cs # None => /\ cs \in DOMAIN Hash
                      /\ Contains(c.suites, cs)
                      /\ \E i \in suites : cs = c.suites[i] /\ \A j \in suites : i <= j
  BY <1>1, <1>2, FirstIsFirst
<1>4. /\ kx = None => groups = {}
      /\ kx # None => /\ kx \in Groups
                      /\ Contains(c.groups, kx)
                      /\ Contains(s.groups, kx)
  BY <1>1, <1>2, FirstIsFirst
<1>. QED  BY <1>3, <1>4

\* What a context's lists contain has the type of the list.
LEMMA ContextTypes ==
  /\ \A c \in Clients : /\ c.suites \in Seq(DOMAIN Hash) /\ c.suites # <<>>
                        /\ c.groups \in Seq(Groups) /\ c.groups # <<>>
                        /\ \A x : Contains(c.suites, x) => x \in DOMAIN Hash
                        /\ \A x : Contains(c.groups, x) => x \in Groups
  /\ \A s \in Servers : \A x : Contains(s.groups, x) => x \in Groups
  /\ None \notin DOMAIN Hash /\ None \notin Groups /\ None \notin Names
<1>1. \A S : \A q \in Seq(S) : \A x : Contains(q, x) => x \in S
  BY DEF Contains
<1>2. \A c \in Clients : /\ c.suites \in Seq(DOMAIN Hash) /\ c.suites # <<>>
                        /\ c.groups \in Seq(Groups) /\ c.groups # <<>>
  BY ContextsAssumption
<1>3. \A s \in Servers : s.groups \in Seq(Groups)
  BY ContextsAssumption
<1>4. None \notin DOMAIN Hash /\ None \notin Groups /\ None \notin Names
  BY ContextsAssumption
<1>. QED  BY <1>1, <1>2, <1>3, <1>4

\* select_key_share: the share if the server supports its group.
LEMMA KeyShare ==
  ASSUME NEW s \in Servers, NEW share
  PROVE  select_key_share(share, s.groups) # None <=> Contains(s.groups, share)
BY ContextTypes DEF select_key_share

\* key_schedule_new: a slot for each hash the client may need.
LEMMA NewSchedule ==
  ASSUME NEW c \in Clients, NEW cs, NEW ikm
  PROVE  LET sched == key_schedule_new(cs, c.suites, ikm) IN
         /\ ScheduleOK(sched, c.suites)
         /\ cs # None => sched.first = Hash[cs]
         /\ sched.secret.ikm = ikm
BY ContextTypes DEF key_schedule_new, extract, ScheduleOK

\* The ClientHello of a client that holds a ticket as TicketInv says.
LEMMA HelloIsOK ==
  ASSUME TicketInv, now \in 0..MaxTime, NEW c \in Clients, NEW h,
         h.suites = c.suites /\ h.groups = c.groups,
         h.psk = IF Usable(c) THEN ticket ELSE NoTicket,
         h.age = IF Usable(c) THEN obfuscated_ticket_age ELSE 0,
         h.early => Usable(c),
         h.sent_at = now
  PROVE  HelloOK(c, h, now)
<1>1. MODULUS \in Nat \ {0} /\ now \in Nat /\ h.sent_at \in 0..now
  BY TimesAssumption
<1>2. CASE Usable(c)
  <2>1. TicketOK(ticket, now) /\ ticket # NoTicket
    BY <1>2 DEF Usable, TicketInv
  <2>2. ((now - ticket.obtained_at) + ticket.age_add) % MODULUS \in 0..(MODULUS - 1)
    <3>1. (now - ticket.obtained_at) + ticket.age_add \in Int
      BY <1>1, <2>1 DEF TicketOK
    <3>. QED  BY <1>1, <3>1
  <2>3. PskOK(c, h)
    BY <1>2, <2>1 DEF PskOK, Usable, obfuscated_ticket_age
  <2>. QED  BY <1>1, <1>2, <2>1, <2>2, <2>3 DEF HelloOK, obfuscated_ticket_age
<1>3. CASE ~Usable(c)
  <2>1. PskOK(c, h)
    BY <1>3 DEF PskOK
  <2>2. 0 \in 0..(MODULUS - 1)
    BY <1>1
  <2>. QED  BY <1>1, <1>3, <2>1, <2>2 DEF HelloOK
<1>. QED  BY <1>2, <1>3
-----------------------------------------------------------------------------
(* The steps.                                                               *)

LEMMA InitInv == Init => Inv
<1>. SUFFICES ASSUME Init PROVE Inv
  OBVIOUS
<1>1. 0 \in 0..MaxTime
  BY TimesAssumption
<1>. QED
  BY <1>1 DEF Init, Inv, TypeOK, SameSchedule, Negotiated, EarlyDataFresh, TicketInv, IdleInv,
              ConnectionInv, ClientInv, ToServerInv, ToClientInv, NewTicketInv, Second

LEMMA SendClientHelloInv ==
  ASSUME Inv, NEW c \in Clients, NEW s \in Servers, NEW n \in Names, send_client_hello(c, s, n)
  PROVE  Inv'
<1>1. /\ pc = "idle" /\ pc' = "server_handle_hello"
      /\ cctx' = c /\ sctx' = s /\ name' = n /\ server' = NoTls
      /\ now' = now /\ ticket' = ticket /\ sh' = sh
      /\ ch' = Hello(c, FirstShare(c), FALSE)
  BY DEF send_client_hello
<1>2. TicketInv /\ now \in 0..MaxTime
  BY DEF Inv, TypeOK
<1>3. /\ HelloOK(c, ch', now)
      /\ ch'.share = FirstShare(c)
      /\ ch'.psk = IF Usable(c) THEN ticket ELSE NoTicket
  <2>1. /\ ch'.suites = c.suites /\ ch'.groups = c.groups /\ ch'.share = FirstShare(c)
        /\ ch'.psk = IF Usable(c) THEN ticket ELSE NoTicket
        /\ ch'.age = IF Usable(c) THEN obfuscated_ticket_age ELSE 0
        /\ ch'.early => Usable(c)
        /\ ch'.sent_at = now
    BY <1>1 DEF Hello
  <2>. QED  BY <1>2, <2>1, HelloIsOK
<1>4. /\ client'.share = FirstShare(c)
      /\ client'.offered_psk = Usable(c)
      /\ DOMAIN client' = {"suite", "share", "offered_psk", "is_psk", "sched"}
      /\ client'.sched = IF Usable(c) THEN key_schedule_new(ticket.cs, c.suites, "psk")
                                      ELSE key_schedule_new(None, c.suites, None)
  BY DEF send_client_hello
<1>5. Usable(c) => /\ ticket # NoTicket /\ TicketOK(ticket, now)
                   /\ ticket.cs \in DOMAIN Hash /\ ticket.cs # None
                   /\ Contains(c.groups, ticket.kx)
  BY <1>2, ContextTypes DEF Usable, TicketInv, TicketOK
<1>6. FirstFlight'
  <2>1. CASE Usable(c)
    <3>1. /\ ScheduleOK(client'.sched, c.suites)
          /\ client'.sched.first = Hash[ticket.cs]
          /\ client'.sched.secret.ikm = "psk"
      BY <1>4, <1>5, <2>1, NewSchedule
    <3>. QED  BY <1>1, <1>3, <1>4, <1>5, <2>1, <3>1 DEF FirstFlight, FirstShare
  <2>2. CASE ~Usable(c)
    <3>1. client'.sched = key_schedule_new(None, c.suites, None)
      BY <1>4, <2>2
    <3>2. ScheduleOK(client'.sched, c.suites) /\ client'.sched.secret.ikm = None
      BY <3>1, NewSchedule
    <3>3. client'.offered_psk = FALSE /\ ch'.psk = NoTicket
      BY <1>3, <1>4, <2>2
    <3>. QED  BY <1>1, <3>2, <3>3 DEF FirstFlight
  <2>. QED  BY <2>1, <2>2
<1>7. client'.share # None => Contains(c.groups, client'.share)
  <2>1. Contains(c.groups, Head(c.groups))
    BY ContextTypes DEF Contains
  <2>. QED  BY <1>4, <1>5, <2>1 DEF FirstShare
<1>8. TypeOK'
  BY <1>1, <1>3 DEF Inv, TypeOK, HelloOK
<1>9. ConnectionInv' /\ IdleInv' /\ ClientInv' /\ ToServerInv' /\ ToClientInv' /\ NewTicketInv'
  BY <1>1, <1>3, <1>4, <1>6, <1>7
     DEF ConnectionInv, IdleInv, ClientInv, ToServerInv, ToClientInv, NewTicketInv
<1>10. SameSchedule' /\ Negotiated' /\ EarlyDataFresh' /\ TicketInv'
  BY <1>1, <1>2 DEF SameSchedule, Negotiated, EarlyDataFresh, TicketInv, Second
<1>. QED  BY <1>8, <1>9, <1>10 DEF Inv

\* The key schedule has a slot for the suite the server selects.
LEMMA SlotFound ==
  ASSUME Inv, pc # "idle", NEW cs, Selected(cs), FirstFlight \/ AfterRetry(cs)
  PROVE  Hash[cs] \in {client.sched.first} \cup client.sched.others
<1>1. cctx \in Clients /\ sctx \in Servers
  BY DEF Inv, ConnectionInv
<1>2. \E i \in DOMAIN cctx.suites : cs = cctx.suites[i]
  BY <1>1, Selection DEF Selected
<1>. QED  BY <1>2 DEF FirstFlight, ScheduleOK, AfterRetry, extract

LEMMA HandleHelloRetryRequestInv ==
  ASSUME Inv, handle_hello_retry_request
  PROVE  Inv'
<1>. DEFINE share == IF sh.share # None THEN sh.share ELSE client.share
<1>1. /\ pc = "client_handle_hello" /\ sh.retry
      /\ now' = now /\ ticket' = ticket /\ cctx' = cctx /\ sctx' = sctx
      /\ name' = name /\ sh' = sh /\ server' = server
  BY DEF handle_hello_retry_request
<1>2. /\ TicketInv /\ now \in 0..MaxTime
      /\ cctx \in Clients /\ sctx \in Servers /\ name \in Names
  BY <1>1 DEF Inv, TypeOK, ConnectionInv
<1>3. /\ Selected(sh.suite) /\ server.suite = sh.suite
      /\ FirstFlight
      /\ sh.share # None => Contains(cctx.groups, sh.share)
      /\ Contains(sctx.groups, share)
      /\ client.share # None => Contains(cctx.groups, client.share)
  BY <1>1 DEF Inv, ToClientInv, ClientInv
<1>4. /\ sh.suite \in DOMAIN Hash /\ Contains(cctx.suites, sh.suite)
      /\ share # None /\ Contains(cctx.groups, share)
  BY <1>2, <1>3, Selection, ContextTypes DEF Selected
<1>5. /\ client' = [client EXCEPT
                      !.suite = IF Usable(cctx) THEN ticket.cs ELSE sh.suite,
                      !.share = share,
                      !.offered_psk = @ \/ Usable(cctx),
                      !.sched = key_schedule_select_one(@, sh.suite, FALSE)]
      /\ ch' = Hello(cctx, share, TRUE)
      /\ pc' = "server_handle_hello"
  BY <1>1, <1>4 DEF handle_hello_retry_request, ServerHelloDecodes
<1>6. HelloOK(cctx, ch', now) /\ ch'.share = share
  <2>1. /\ ch'.suites = cctx.suites /\ ch'.groups = cctx.groups /\ ch'.share = share
        /\ ch'.psk = IF Usable(cctx) THEN ticket ELSE NoTicket
        /\ ch'.age = IF Usable(cctx) THEN obfuscated_ticket_age ELSE 0
        /\ ch'.early => Usable(cctx)
        /\ ch'.sent_at = now
    BY <1>5 DEF Hello
  <2>. QED  BY <1>2, <2>1, HelloIsOK
<1>7. /\ DOMAIN client' = DOMAIN client
      /\ {"suite", "share", "offered_psk", "is_psk", "sched"} \subseteq DOMAIN client'
      /\ client'.share = share
      /\ AfterRetry(sh.suite)'
  <2>1. {"suite", "share", "offered_psk", "is_psk", "sched"} \subseteq DOMAIN client
    BY <1>1 DEF Inv, ClientInv
  <2>2. /\ DOMAIN client' = DOMAIN client
        /\ client'.share = share
        /\ client'.offered_psk = (client.offered_psk \/ Usable(cctx))
        /\ client'.sched = key_schedule_select_one(client.sched, sh.suite, FALSE)
    BY <1>5, <2>1
  <2>3. /\ client'.sched = extract(Hash[sh.suite], {}, client'.sched.secret.ikm)
        /\ client'.sched.secret.ikm \in {None, client.sched.secret.ikm}
    BY <1>3, <2>2 DEF FirstFlight, ScheduleOK, key_schedule_select_one, extract
  <2>4. ~client'.offered_psk => client'.sched.secret.ikm = None
    BY <1>3, <2>2, <2>3 DEF FirstFlight
  <2>. QED  BY <1>1, <2>1, <2>2, <2>3, <2>4 DEF AfterRetry
<1>8. TypeOK'
  BY <1>1, <1>5, <1>6 DEF Inv, TypeOK, HelloOK
<1>9. server' # NoTls /\ Selected(server.suite)'
  BY <1>1, <1>3 DEF Selected, NoTls
<1>10. ConnectionInv' /\ IdleInv' /\ ClientInv' /\ ToServerInv' /\ ToClientInv' /\ NewTicketInv'
  BY <1>1, <1>2, <1>3, <1>4, <1>5, <1>6, <1>7, <1>9
     DEF ConnectionInv, IdleInv, ClientInv, ToServerInv, ToClientInv, NewTicketInv, AfterRetry
<1>11. SameSchedule' /\ Negotiated' /\ EarlyDataFresh' /\ TicketInv'
  BY <1>1, <1>2, <1>5 DEF SameSchedule, Negotiated, EarlyDataFresh, TicketInv
<1>. QED  BY <1>8, <1>10, <1>11 DEF Inv

LEMMA ClientHandleHelloInv ==
  ASSUME Inv, client_handle_hello
  PROVE  Inv'
<1>1. /\ pc = "client_handle_hello" /\ ~sh.retry
      /\ now' = now /\ ticket' = ticket /\ cctx' = cctx /\ sctx' = sctx
      /\ name' = name /\ ch' = ch /\ sh' = sh /\ server' = server
  BY DEF client_handle_hello
<1>2. cctx \in Clients /\ sctx \in Servers /\ name \in Names /\ HelloOK(cctx, ch, now)
  BY <1>1 DEF Inv, ConnectionInv
<1>3. /\ Selected(sh.suite) /\ server.suite = sh.suite
      /\ FirstFlight \/ (AfterRetry(sh.suite) /\ ~sh.psk)
      /\ sh.psk \in BOOLEAN /\ server.is_psk = sh.psk
      /\ server.share = client.share /\ client.share # None
      /\ sh.share \in {None, client.share}
      /\ sh.share = None => sh.psk
      /\ sh.psk => /\ FirstFlight /\ client.offered_psk
                   /\ ch.psk.session.name = name
                   /\ ch.psk.session.cs = sh.suite
      /\ server.sched = extract(Hash[sh.suite], {}, IF sh.psk THEN "psk" ELSE None)
  BY <1>1 DEF Inv, ToClientInv
<1>4. ServerHelloDecodes
  <2>1. Contains(cctx.suites, sh.suite)
    BY <1>2, <1>3, Selection DEF Selected
  <2>. QED  BY <1>3, <2>1 DEF ServerHelloDecodes
<1>5. /\ pc' = "established"
      /\ client' = [client EXCEPT
                      !.suite = sh.suite, !.is_psk = sh.psk,
                      !.sched = key_schedule_select_one(@, sh.suite,
                                                        client.offered_psk /\ ~sh.psk)]
  BY <1>1, <1>4 DEF client_handle_hello
<1>6. {"suite", "share", "offered_psk", "is_psk", "sched"} \subseteq DOMAIN client
  BY <1>1 DEF Inv, ClientInv
<1>7. /\ client'.suite = sh.suite /\ client'.is_psk = sh.psk /\ client'.share = client.share
      /\ client'.sched = key_schedule_select_one(client.sched, sh.suite,
                                                 client.offered_psk /\ ~sh.psk)
  BY <1>5, <1>6
<1>8. client'.sched = server.sched
  <2>1. CASE sh.psk
    <3>1. /\ FirstFlight
          /\ client.sched.first = Hash[sh.suite]
          /\ client.sched.secret.ikm = "psk"
      BY <1>2, <1>3, <2>1 DEF FirstFlight, HelloOK, PskOK, TicketOK
    <3>. QED  BY <1>3, <1>7, <2>1, <3>1, SMTT(30)
              DEF key_schedule_select_one, FirstFlight, ScheduleOK, extract
  <2>2. CASE ~sh.psk /\ client.offered_psk
    BY <1>3, <1>7, <2>2 DEF key_schedule_select_one
  <2>3. CASE ~sh.psk /\ ~client.offered_psk
    <3>1. /\ client.sched.secret.ikm = None
          /\ client.sched = extract(client.sched.first, client.sched.others, None)
      BY <1>3, <2>3 DEF FirstFlight, ScheduleOK, AfterRetry, extract
    <3>. QED  BY <1>3, <1>7, <2>3, <3>1 DEF key_schedule_select_one, extract
  <2>. QED  BY <1>3, <2>1, <2>2, <2>3
<1>9. TypeOK'
  BY <1>1, <1>3, <1>5, <1>8 DEF Inv, TypeOK, extract
<1>10. SameSchedule'
  BY <1>1, <1>3, <1>5, <1>7, <1>8 DEF SameSchedule
<1>11. Negotiated'
  BY <1>1, <1>2, <1>3, <1>5, <1>7, Selection DEF Negotiated, Selected
<1>12. EarlyDataFresh' /\ TicketInv'
  BY <1>1 DEF Inv, EarlyDataFresh, Second, TicketInv
<1>13. ConnectionInv' /\ IdleInv' /\ ClientInv' /\ ToServerInv' /\ ToClientInv' /\ NewTicketInv'
  BY <1>1, <1>2, <1>5
     DEF Inv, ConnectionInv, IdleInv, ClientInv, ToServerInv, ToClientInv, NewTicketInv
<1>. QED  BY <1>9, <1>10, <1>11, <1>12, <1>13 DEF Inv

LEMMA ClientHandleNewSessionTicketInv ==
  ASSUME Inv, client_handle_new_session_ticket
  PROVE  Inv'
<1>1. /\ pc = "established" /\ pc' = "idle" /\ now' = now
      /\ cctx' = NoContext /\ sctx' = NoContext /\ name' = None
      /\ ch' = NoHello /\ server' = NoTls
  BY DEF client_handle_new_session_ticket, Free
<1>2. now \in 0..MaxTime /\ TicketInv
  BY DEF Inv, TypeOK
<1>3. TicketInv'
  <2>1. CASE ticket' = ticket
    BY <1>1, <1>2, <2>1 DEF TicketInv
  <2>2. CASE ticket' # ticket
    <3>1. /\ ticket'.kx = client.share /\ ticket'.cs = client.suite
          /\ ticket'.obtained_at = now
          /\ ticket'.age_add = sh.ticket.age_add
          /\ ticket'.session = sh.ticket.session
      BY <2>2 DEF client_handle_new_session_ticket
    <3>2. client.suite = server.suite /\ client.share = server.share
      BY <1>1 DEF Inv, SameSchedule
    <3>3. TicketOK(ticket', now)
      BY <1>1, <1>2, <3>1, <3>2 DEF Inv, NewTicketInv, TicketOK
    <3>. QED  BY <1>1, <3>3 DEF TicketInv
  <2>. QED  BY <2>1, <2>2
<1>4. TypeOK'
  BY <1>1, <1>2, <1>3 DEF TypeOK, TicketInv, TicketOK
<1>5. SameSchedule' /\ Negotiated' /\ EarlyDataFresh'
  BY <1>1 DEF SameSchedule, Negotiated, EarlyDataFresh, Second
<1>6. ConnectionInv' /\ IdleInv' /\ ClientInv' /\ ToServerInv' /\ ToClientInv' /\ NewTicketInv'
  BY <1>1 DEF ConnectionInv, IdleInv, ClientInv, ToServerInv, ToClientInv, NewTicketInv
<1>. QED  BY <1>3, <1>4, <1>5, <1>6 DEF Inv

LEMMA ServerRejectsInv ==
  ASSUME Inv, ServerRejects
  PROVE  Inv'
<1>1. /\ pc = "server_handle_hello" /\ pc' = "failed"
      /\ now' = now /\ ticket' = ticket /\ cctx' = cctx /\ sctx' = sctx /\ name' = name
      /\ ch' = ch /\ sh' = sh /\ client' = client /\ server' = server
  BY DEF ServerRejects, Fails
<1>2. cctx \in Clients /\ sctx \in Servers /\ HelloOK(cctx, ch, now)
  BY <1>1 DEF Inv, ConnectionInv
<1>3. Negotiated'
  <2>1. Second => Selected(server.suite) /\ Contains(sctx.groups, ch.share)
    BY <1>1 DEF Inv, ToServerInv, ClientInv, Second
  <2>2. \/ select_cipher(cctx.suites, sctx.suites) = None
        \/ select_negotiated_group(cctx.groups, sctx.groups) = None
    BY <1>2, <2>1, KeyShare DEF ServerRejects, NoSuite, HelloOK, Selected
  <2>. QED  BY <1>1, <1>2, <2>2, Selection DEF Negotiated
<1>4. TypeOK'
  BY <1>1 DEF Inv, TypeOK
<1>5. SameSchedule' /\ EarlyDataFresh' /\ TicketInv'
  BY <1>1 DEF Inv, SameSchedule, EarlyDataFresh, TicketInv, Second
<1>6. ConnectionInv' /\ IdleInv' /\ ClientInv' /\ ToServerInv' /\ ToClientInv' /\ NewTicketInv'
  BY <1>1 DEF Inv, ConnectionInv, IdleInv, ClientInv, ToServerInv, ToClientInv, NewTicketInv
<1>. QED  BY <1>3, <1>4, <1>5, <1>6 DEF Inv

LEMMA ServerRetriesInv ==
  ASSUME Inv, ServerRetries
  PROVE  Inv'
<1>. DEFINE suite == select_cipher(ch.suites, sctx.suites)
            group == select_negotiated_group(ch.groups, sctx.groups)
<1>1. /\ pc = "server_handle_hello" /\ pc' = "client_handle_hello"
      /\ now' = now /\ ticket' = ticket /\ cctx' = cctx /\ sctx' = sctx /\ name' = name
      /\ ch' = ch /\ client' = client
  BY DEF ServerRetries
<1>2. cctx \in Clients /\ sctx \in Servers /\ name \in Names /\ HelloOK(cctx, ch, now)
  BY <1>1 DEF Inv, ConnectionInv
<1>3. /\ ~NoSuite /\ NeedsRetry /\ group # None
      /\ sh'.retry = TRUE /\ sh'.suite = suite /\ server'.suite = suite
      /\ sh'.share = IF select_key_share(ch.share, sctx.groups) = None THEN group ELSE None
  BY DEF ServerRetries
<1>4. ~Second /\ suite # None
  BY <1>3 DEF NeedsRetry, NoSuite
<1>5. /\ FirstFlight /\ client.share = ch.share
      /\ {"suite", "share", "offered_psk", "is_psk", "sched"} \subseteq DOMAIN client
      /\ client.share # None => Contains(cctx.groups, client.share)
  BY <1>1, <1>4 DEF Inv, ToServerInv, ClientInv, Second
<1>6. ch.suites = cctx.suites /\ ch.groups = cctx.groups
  BY <1>2 DEF HelloOK
<1>7. Selected(sh.suite)'
  BY <1>1, <1>3, <1>4, <1>6 DEF Selected
<1>8. FirstFlight'
  BY <1>1, <1>5 DEF FirstFlight
<1>9. /\ sh'.share # None => Contains(cctx.groups, sh'.share)
      /\ Contains(sctx.groups, IF sh'.share # None THEN sh'.share ELSE client.share)
  <2>1. Contains(cctx.groups, group) /\ Contains(sctx.groups, group)
    BY <1>2, <1>3, <1>6, Selection
  <2>2. select_key_share(ch.share, sctx.groups) # None => Contains(sctx.groups, client.share)
    BY <1>2, <1>5, KeyShare
  <2>. QED  BY <1>3, <2>1, <2>2
<1>10. SameSchedule'
  <2>1. Selected(suite)
    BY <1>4, <1>6 DEF Selected
  <2>2. Hash[suite] \in {client.sched.first} \cup client.sched.others
    BY <1>1, <1>5, <2>1, SlotFound
  <2>. QED  BY <1>1, <1>3, <2>2 DEF SameSchedule
<1>11. TypeOK'
  BY <1>1 DEF Inv, TypeOK
<1>12. Negotiated' /\ EarlyDataFresh' /\ TicketInv'
  BY <1>1, <1>3 DEF Inv, Negotiated, EarlyDataFresh, TicketInv
<1>13. ConnectionInv' /\ IdleInv' /\ ClientInv' /\ ToServerInv' /\ NewTicketInv'
  BY <1>1, <1>3 DEF Inv, ConnectionInv, IdleInv, ClientInv, ToServerInv, NewTicketInv
<1>14. ToClientInv'
  BY <1>1, <1>3, <1>7, <1>8, <1>9 DEF ToClientInv
<1>. QED  BY <1>10, <1>11, <1>12, <1>13, <1>14 DEF Inv

LEMMA TickInv ==
  ASSUME Inv, Tick
  PROVE  Inv'
<1>1. /\ now' = now + 1 /\ now < MaxTime
      /\ ticket' = ticket /\ pc' = pc /\ cctx' = cctx /\ sctx' = sctx /\ name' = name
      /\ ch' = ch /\ sh' = sh /\ client' = client /\ server' = server
  BY DEF Tick
<1>2. now \in Nat /\ now' \in 0..MaxTime /\ \A x \in 0..now : x \in 0..now'
  BY <1>1, TimesAssumption DEF Inv, TypeOK
<1>3. TypeOK'
  BY <1>1, <1>2 DEF Inv, TypeOK
<1>4. SameSchedule' /\ Negotiated' /\ EarlyDataFresh'
  BY <1>1 DEF Inv, SameSchedule, Negotiated, EarlyDataFresh, Second
<1>5. TicketInv' /\ NewTicketInv'
  BY <1>1, <1>2 DEF Inv, TicketInv, TicketOK, NewTicketInv
<1>6. ConnectionInv'
  BY <1>1, <1>2 DEF Inv, ConnectionInv, HelloOK
<1>7. IdleInv' /\ ClientInv'
  BY <1>1 DEF Inv, IdleInv, ClientInv
<1>8. ToServerInv' /\ ToClientInv'
  BY <1>1 DEF Inv, ToServerInv, ToClientInv, FirstFlight, AfterRetry, Selected
<1>. QED  BY <1>3, <1>4, <1>5, <1>6, <1>7, <1>8 DEF Inv

LEMMA CloseInv ==
  ASSUME Inv, Close
  PROVE  Inv'
<1>1. /\ pc = "failed" /\ pc' = "idle" /\ now' = now /\ ticket' = ticket
      /\ cctx' = NoContext /\ sctx' = NoContext /\ name' = None
      /\ ch' = NoHello /\ server' = NoTls
  BY DEF Close, Free
<1>2. TypeOK' /\ SameSchedule' /\ Negotiated' /\ EarlyDataFresh'
  BY <1>1 DEF Inv, TypeOK, SameSchedule, Negotiated, EarlyDataFresh, Second
<1>3. TicketInv' /\ ConnectionInv' /\ IdleInv' /\ ClientInv'
  BY <1>1 DEF Inv, TicketInv, ConnectionInv, IdleInv, ClientInv
<1>4. ToServerInv' /\ ToClientInv' /\ NewTicketInv'
  BY <1>1 DEF ToServerInv, ToClientInv, NewTicketInv
<1>. QED  BY <1>2, <1>3, <1>4 DEF Inv

\* The server's comparison of the two ages, on 32 bits, is the comparison of
\* the time the two messages took with PTLS_EARLY_DATA_MAX_DELAY.
LEMMA AgesAgreeMeans ==
  ASSUME now \in 0..MaxTime, HelloOK(cctx, ch, now), ch.psk # NoTicket
  PROVE  AgesAgree <=> (now - ch.sent_at)
                       + (ch.psk.obtained_at - ch.psk.session.issue_at) <= MAX_DELAY
<1>1. /\ MODULUS \in Nat \ {0} /\ CLIENT_LIMIT \in Nat /\ CLIENT_LIMIT <= MODULUS
      /\ MAX_DELAY \in Nat /\ MaxTime \in Nat
  BY TimesAssumption
<1>2. /\ now \in Nat /\ ch.sent_at \in 0..now
      /\ ch.psk.obtained_at \in 0..ch.sent_at
      /\ ch.psk.session.issue_at \in 0..ch.psk.obtained_at
      /\ ch.psk.age_add \in 0..(MODULUS - 1)
      /\ ch.psk.session.age_add = ch.psk.age_add
      /\ ch.sent_at - ch.psk.obtained_at < CLIENT_LIMIT
      /\ ch.age = ((ch.sent_at - ch.psk.obtained_at) + ch.psk.age_add) % MODULUS
  BY <1>1 DEF HelloOK, PskOK, TicketOK
<1>3. ch.sent_at - ch.psk.obtained_at \in 0..(MODULUS - 1)
  BY <1>1, <1>2
<1>4. reported_age = ch.sent_at - ch.psk.obtained_at
  <2>. DEFINE x == ch.sent_at - ch.psk.obtained_at
              a == ch.psk.age_add
  <2>1. x \in 0..(MODULUS - 1) /\ a \in 0..(MODULUS - 1)
    BY <1>2, <1>3
  <2>. HIDE DEF x, a
  <2>2. (((x + a) % MODULUS) - a) % MODULUS = x
    BY <1>1, <2>1, AgeIsFound
  <2>. QED  BY <1>2, <2>2 DEF reported_age, x, a
<1>. QED  BY <1>1, <1>2, <1>4 DEF AgesAgree

LEMMA ServerHandleHelloInv ==
  ASSUME Inv, server_handle_hello
  PROVE  Inv'
<1>. DEFINE suite == select_cipher(ch.suites, sctx.suites)
            share == select_key_share(ch.share, sctx.groups)
            modes == IF sctx.require_dhe THEN ch.ke_modes \ {"psk"} ELSE ch.ke_modes
            psk   == ~Second /\ ch.psk # NoTicket /\ PskFound(suite)
            dhe   == ~(psk /\ "psk" \in modes)
            group == IF dhe THEN share ELSE ch.psk.session.kx
            early == psk /\ ch.early /\ AgesAgree /\ sctx.early
<1>1. /\ pc = "server_handle_hello" /\ pc' = "client_handle_hello"
      /\ now' = now /\ ticket' = ticket /\ cctx' = cctx /\ sctx' = sctx /\ name' = name
      /\ ch' = ch /\ client' = client
  BY DEF server_handle_hello
<1>2. cctx \in Clients /\ sctx \in Servers /\ name \in Names /\ HelloOK(cctx, ch, now)
  BY <1>1 DEF Inv, ConnectionInv
<1>3. /\ ~NoSuite /\ ~NeedsRetry /\ share # None
      /\ server'.suite = suite /\ server'.share = group /\ server'.is_psk = psk
      /\ server'.early = early /\ server'.at = now
      /\ server'.sched = extract(Hash[suite], {}, IF psk THEN "psk" ELSE None)
  BY DEF server_handle_hello
<1>4. PICK add \in AgeAdds :
        sh' = [retry |-> FALSE, suite |-> suite, share |-> IF dhe THEN share ELSE None,
               psk |-> psk,
               ticket |-> NewSessionTicket(suite, group, add)]
  BY DEF server_handle_hello
<1>5. /\ sh'.retry = FALSE /\ sh'.suite = suite /\ sh'.share = (IF dhe THEN share ELSE None)
      /\ sh'.psk = psk /\ sh'.ticket = NewSessionTicket(suite, group, add)
  BY <1>4
<1>6. ch.suites = cctx.suites /\ ch.groups = cctx.groups
  BY <1>2 DEF HelloOK
<1>7. Selected(suite) /\ suite \in DOMAIN Hash
  BY <1>2, <1>3, <1>6, Selection DEF NoSuite, Selected
<1>8. /\ client.share = ch.share
      /\ {"suite", "share", "offered_psk", "is_psk", "sched"} \subseteq DOMAIN client
      /\ client.share # None => Contains(cctx.groups, client.share)
  BY <1>1 DEF Inv, ClientInv
<1>9. share = client.share /\ share \in Groups
  BY <1>2, <1>3, <1>8, ContextTypes DEF select_key_share
<1>10. /\ ~Second => FirstFlight
       /\ Second => AfterRetry(suite)
  BY <1>1, <1>3 DEF Inv, ToServerInv, Second, NoSuite
<1>11. psk => /\ FirstFlight /\ client.offered_psk
              /\ ch.psk.session.name = name /\ ch.psk.session.cs = suite
              /\ ch.psk.session.kx = client.share
  BY <1>2, <1>10 DEF PskFound, FirstFlight, HelloOK, PskOK, TicketOK
<1>12. group = client.share
  BY <1>9, <1>11
<1>13. SameSchedule'
  <2>1. Hash[suite] \in {client.sched.first} \cup client.sched.others
    BY <1>1, <1>7, <1>10, SlotFound
  <2>. QED  BY <1>1, <1>5, <2>1 DEF SameSchedule
<1>14. EarlyDataFresh'
  <2>1. now \in 0..MaxTime
    BY DEF Inv, TypeOK
  <2>2. early <=> /\ psk /\ ch.early /\ sctx.early
                  /\ (now - ch.sent_at)
                     + (ch.psk.obtained_at - ch.psk.session.issue_at) <= MAX_DELAY
    BY <1>2, <2>1, AgesAgreeMeans
  <2>. QED  BY <1>1, <1>3, <1>5, <2>2 DEF EarlyDataFresh
<1>15. ToClientInv'
  <2>1. (~Second => FirstFlight') /\ (Second => AfterRetry(suite)')
    BY <1>1, <1>10 DEF FirstFlight, AfterRetry
  <2>2. Selected(sh.suite)'
    BY <1>1, <1>5, <1>7 DEF Selected
  <2>3. /\ sh'.psk \in BOOLEAN /\ server'.is_psk = sh'.psk
        /\ sh'.share \in {None, client.share} /\ (sh'.share = None => sh'.psk)
    BY <1>3, <1>5, <1>9
  <2>4. sh'.psk => /\ FirstFlight' /\ client'.offered_psk
                   /\ ch'.psk.session.name = name'
                   /\ ch'.psk.session.cs = sh'.suite
    BY <1>1, <1>5, <1>11, <2>1
  <2>. QED  BY <1>1, <1>3, <1>5, <1>9, <1>12, <2>1, <2>2, <2>3, <2>4 DEF ToClientInv
<1>16. NewTicketInv'
  <2>1. add \in 0..(MODULUS - 1) /\ now \in 0..now
    BY TimesAssumption DEF Inv, TypeOK
  <2>. QED  BY <1>1, <1>3, <1>5, <1>7, <1>9, <1>12, <2>1
            DEF NewTicketInv, NewSessionTicket, encode_session_identifier
<1>17. TypeOK' /\ Negotiated' /\ TicketInv'
  BY <1>1 DEF Inv, TypeOK, Negotiated, TicketInv
<1>18. ConnectionInv' /\ IdleInv' /\ ClientInv' /\ ToServerInv'
  BY <1>1 DEF Inv, ConnectionInv, IdleInv, ClientInv, ToServerInv
<1>. QED  BY <1>13, <1>14, <1>15, <1>16, <1>17, <1>18 DEF Inv

LEMMA NextInv == Inv /\ [Next]_vars => Inv'
<1>. SUFFICES ASSUME Inv, [Next]_vars PROVE Inv'
  OBVIOUS
<1>1. CASE \E c \in Clients, s \in Servers, n \in Names : send_client_hello(c, s, n)
  BY <1>1, SendClientHelloInv
<1>2. CASE handle_hello_retry_request
  BY <1>2, HandleHelloRetryRequestInv
<1>3. CASE client_handle_hello
  BY <1>3, ClientHandleHelloInv
<1>4. CASE client_handle_new_session_ticket
  BY <1>4, ClientHandleNewSessionTicketInv
<1>5. CASE ServerRejects
  BY <1>5, ServerRejectsInv
<1>6. CASE ServerRetries
  BY <1>6, ServerRetriesInv
<1>7. CASE server_handle_hello
  BY <1>7, ServerHandleHelloInv
<1>8. CASE Tick
  BY <1>8, TickInv
<1>9. CASE Close
  BY <1>9, CloseInv
<1>10. CASE UNCHANGED vars
  <2>1. /\ now' = now /\ ticket' = ticket /\ pc' = pc /\ cctx' = cctx /\ sctx' = sctx
        /\ name' = name /\ ch' = ch /\ sh' = sh /\ client' = client /\ server' = server
    BY <1>10 DEF vars
  <2>2. TypeOK'
    BY <2>1 DEF Inv, TypeOK
  <2>3. SameSchedule' /\ Negotiated' /\ EarlyDataFresh'
    BY <2>1 DEF Inv, SameSchedule, Negotiated, EarlyDataFresh, Second
  <2>4. TicketInv' /\ ConnectionInv' /\ IdleInv' /\ ClientInv' /\ NewTicketInv'
    BY <2>1 DEF Inv, TicketInv, ConnectionInv, IdleInv, ClientInv, NewTicketInv
  <2>5. ToServerInv' /\ ToClientInv'
    BY <2>1 DEF Inv, ToServerInv, ToClientInv, FirstFlight, AfterRetry, Selected
  <2>. QED  BY <2>2, <2>3, <2>4, <2>5 DEF Inv
<1>. QED
  BY <1>1, <1>2, <1>3, <1>4, <1>5, <1>6, <1>7, <1>8, <1>9, <1>10 DEF Next

LEMMA InvAlways == Spec => []Inv
BY InitInv, NextInv, PTL DEF Spec
-----------------------------------------------------------------------------
(***************************************************************************)
(* The types: the age that a client reports fits in 32 bits whatever the   *)
(* ticket says, no ticket is from the future, and key_schedule_select_one  *)
(* leaves one hash.                                                        *)
(***************************************************************************)
THEOREM TypeCorrect == Spec => []TypeOK
<1>1. Inv => TypeOK  BY DEF Inv
<1>. QED  BY <1>1, InvAlways, PTL

(***************************************************************************)
(* Client and server compute the same early secret, with the same hash and *)
(* from the same PSK or none, whatever lists, tickets, retries and delays  *)
(* there were, and a connection is resumed only for the name and suite the *)
(* ticket was issued for.                                                  *)
(***************************************************************************)
THEOREM SchedulesAgree == Spec => []SameSchedule
<1>1. Inv => SameSchedule  BY DEF Inv
<1>. QED  BY <1>1, InvAlways, PTL

(***************************************************************************)
(* select_cipher, select_key_share and the retry find what the two lists   *)
(* have in common: a connection fails only if that is nothing, and else    *)
(* has the suite the client prefers.                                       *)
(***************************************************************************)
THEOREM AlwaysNegotiated == Spec => []Negotiated
<1>1. Inv => Negotiated  BY DEF Inv
<1>. QED  BY <1>1, InvAlways, PTL

(***************************************************************************)
(* Early data is taken exactly when the messages took no longer than       *)
(* PTLS_EARLY_DATA_MAX_DELAY, for every modulus the ages are reduced by,   *)
(* as long as it is not below the time a client keeps a ticket for.        *)
(***************************************************************************)
THEOREM EarlyDataIsFresh == Spec => []EarlyDataFresh
<1>1. Inv => EarlyDataFresh  BY DEF Inv
<1>. QED  BY <1>1, InvAlways, PTL
=============================================================================
