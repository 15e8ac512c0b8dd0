--------------------------- MODULE SecureChannel ---------------------------
(***************************************************************************)
(* What the TLS record layer promises to the two applications once the     *)
(* handshake is over: whatever the network does, each side is handed a     *)
(* prefix of the items its peer emitted, in the order of emission, with    *)
(* nothing repeated, skipped or made up, until its stream ends.            *)
(*                                                                         *)
(* The promise about the end of the stream is weaker.  A side learns of a  *)
(* close when it has been handed the item that announces it, and so after  *)
(* everything emitted before; but picotls also acts upon an alert that     *)
(* nobody sealed, and the application cannot tell the two apart.  A close  *)
(* before the end of the emission is therefore possible, and only once an  *)
(* unsealed announcement was put on the way.                               *)
(***************************************************************************)
EXTENDS Naturals, Sequences

CONSTANTS Side,         \* the two endpoints
          Peer(_),      \* the other endpoint
          Item,         \* what travels: application data and control messages
          IsClose(_)    \* the items that announce the end of the stream

VARIABLES sent,         \* sent[s]: the items s emitted so far
          got,          \* got[s]: the items handed to s so far
          end,          \* end[s]: s's stream is open, or was closed, or failed
          unsealed      \* unsealed[s]: an unsealed end of s's emission is on the way

vars == <<sent, got, end, unsealed>>

Init ==
    /\ sent \in [Side -> Seq(Item)]
    /\ got = [s \in Side |-> <<>>]
    /\ end = [s \in Side |-> "open"]
    /\ unsealed = [s \in Side |-> FALSE]

(* The application emits some more items. *)
Emit(s) ==
    /\ sent' = [sent EXCEPT ![s] = sent'[s]]
    /\ sent'[s] \in Seq(Item)
    /\ Len(sent[s]) <= Len(sent'[s])
    /\ \A i \in 1..Len(sent[s]) : sent'[s][i] = sent[s][i]
    /\ UNCHANGED <<got, end, unsealed>>

(* How the stream may stand when an item has been handed over. *)
EndAfter(item) == IF IsClose(item) THEN {"closed"} ELSE {"open", "failed"}

(* The next item of the peer, and no other, is handed over. *)
Deliver(s) ==
    /\ end[s] = "open"
    /\ Len(got[s]) < Len(sent[Peer(s)])
    /\ LET item == sent[Peer(s)][Len(got[s]) + 1]
       IN  /\ got' = [got EXCEPT ![s] = Append(@, item)]
           /\ \E e \in EndAfter(item) : end' = [end EXCEPT ![s] = e]
    /\ UNCHANGED <<sent, unsealed>>

(* The stream is torn down (an undecryptable record, an internal error). *)
Fail(s) ==
    /\ end[s] = "open"
    /\ end' = [end EXCEPT ![s] = "failed"]
    /\ UNCHANGED <<sent, got, unsealed>>

(* Somebody puts an unsealed end of s's emission on the way. *)
Announce(s) ==
    /\ unsealed' = [unsealed EXCEPT ![s] = TRUE]
    /\ UNCHANGED <<sent, got, end>>

(* It ends the peer's stream, whatever has been handed over by then. *)
Cut(s) ==
    /\ end[s] = "open"
    /\ unsealed[Peer(s)]
    /\ end' = [end EXCEPT ![s] = "closed"]
    /\ UNCHANGED <<sent, got, unsealed>>

Next == \E s \in Side : Emit(s) \/ Deliver(s) \/ Fail(s) \/ Announce(s) \/ Cut(s)

Spec == Init /\ [][Next]_vars
=============================================================================
