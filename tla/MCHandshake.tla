---------------------------- MODULE MCHandshake ----------------------------
(* The configurations the handshake is model-checked with.                  *)
EXTENDS Handshake

(* Client authentication and the certificates of the two sides.             *)
Trust == [auth : BOOLEAN, client : {"ok", "none", "bad", "unsigned", "signfails"},
          server : {"ok", "none", "bad", "unsigned", "signfails"}]
Trusted == {[auth |-> FALSE, client |-> "none", server |-> "ok"]}

Make(tickets, early, shares, enforce, cookie, dhe, trust, lifetime, maxearly, ccs, limit,
     alterations) ==
    {c \in {[ticket |-> t, early_data |-> e, key_share |-> k, enforce_retry |-> r,
             retry_uses_cookie |-> o, require_dhe_on_psk |-> d,
             require_client_authentication |-> a.auth, client_certificate |-> a.client,
             server_certificate |-> a.server, save_ticket |-> l, ticket_lifetime |-> l,
             max_early_data_size |-> m, send_change_cipher_spec |-> v,
             early_limit |-> limit, alterations |-> alterations] :
               t \in tickets, e \in early, k \in shares, r \in enforce, o \in cookie,
               d \in dhe, a \in trust, l \in lifetime, m \in maxearly, v \in ccs} :
        /\ c.early_data => c.ticket # "none"
        /\ c.key_share = "none" => c.ticket = "none"
        /\ c.key_share = "group2" => c.ticket # "none"
        \* what makes no difference without a retry
        /\ c.retry_uses_cookie => c.enforce_retry \/ c.key_share \in {"alien", "none"}}

Tickets == {"none", "valid", "late", "unknown", "mismatch"}
Shares  == {"group1", "group2", "alien", "none", "nocommon"}

(* Every way to resume, to send early data, to retry and to exchange keys,  *)
(* and some of them with change_cipher_spec and tickets without early data. *)
Modes == Make(Tickets, BOOLEAN, Shares, BOOLEAN, BOOLEAN, BOOLEAN, Trusted, {TRUE}, {TRUE},
              {FALSE}, 2, 0)
         \cup
         Make({"none", "valid", "unknown"}, BOOLEAN, {"group1", "alien"}, BOOLEAN, BOOLEAN,
              {TRUE}, Trusted, {TRUE}, BOOLEAN, {TRUE}, 2, 0)

(* Every outcome of authentication, in full handshakes and beside a ticket; *)
(* the ticket allows more early data than the server skips.                 *)
Auth == Make({"none", "valid"}, BOOLEAN, {"group1", "alien"}, {FALSE}, BOOLEAN, {TRUE}, Trust,
             {FALSE}, {TRUE}, {TRUE}, 3, 0)

(* The modes that differ in the records an altering network can reach.      *)
Network == Make({"none", "valid", "unknown"}, BOOLEAN, {"group1", "alien"}, {FALSE}, BOOLEAN,
                BOOLEAN,
                {[auth |-> a, client |-> "ok", server |-> "ok"] : a \in BOOLEAN},
                {TRUE}, {TRUE}, {FALSE}, 2, 2)

ModesAndAuth == Modes \cup Auth

(* For the runs about one disagreement.                                     *)
AuthTicket == Make({"none"}, {FALSE}, {"group1"}, {FALSE}, {FALSE}, {TRUE},
                   {[auth |-> TRUE, client |-> "ok", server |-> "ok"]}, {TRUE}, {TRUE}, {FALSE},
                   2, 0)
BadCertificate == Make({"none"}, {FALSE}, {"group1"}, {FALSE}, {FALSE}, {TRUE},
                       {[auth |-> FALSE, client |-> "none", server |-> "bad"]}, {TRUE}, {TRUE},
                       {FALSE}, 2, 0)
=============================================================================
