---------------------------- MODULE BcryptStream ----------------------------
(***************************************************************************)
(* Incremental encryption in the Windows backend (lib/ptlsbcrypt.c).  A    *)
(* message is passed in segments of any length; BCryptEncrypt takes whole  *)
(* blocks only, except in its last call, so the rest of a segment waits in *)
(* extraBytes.  A byte is its position in the message.                     *)
(***************************************************************************)
EXTENDS Integers, Sequences

CONSTANTS
  BLOCK,       \* ecb_cipher->block_size
  MaxSegment,  \* bound on the length of a segment
  MaxLength    \* bound on the length of a message

VARIABLES
  pc,         \* "idle", "open" between init and final, "sealed" after final
  given,      \* bytes of the message passed so far
  extra,      \* the first nbExtraBytes of extraBytes
  encrypted,  \* what BCryptEncrypt was given, in this order
  failed      \* BCryptEncrypt refused a length, which the code asserts it does not

vars == <<pc, given, extra, encrypted, failed>>

Segment(n) == [i \in 1..n |-> given + i]

\* A chained call: the length has to be a multiple of the block size.
BCryptEncrypt(bytes) ==
  /\ encrypted' = encrypted \o bytes
  /\ failed' = (failed \/ Len(bytes) % BLOCK # 0)

do_encrypt_init ==
  /\ pc # "open"
  /\ pc' = "open" /\ given' = 0 /\ extra' = <<>> /\ encrypted' = <<>>
  /\ UNCHANGED failed

\* The start of the segment completes the block that waits, if it can; what
\* is left of it after its last whole block waits for the next segment.
do_encrypt_update(n) ==
  LET required == BLOCK - Len(extra)
      used     == IF extra = <<>> THEN 0 ELSE IF n < required THEN n ELSE required
      first    == IF extra # <<>> /\ n >= required
                  THEN extra \o SubSeq(Segment(n), 1, required) ELSE <<>>
      input    == SubSeq(Segment(n), used + 1, n)
      whole    == Len(input) - (Len(input) % BLOCK) IN
  /\ pc = "open"
  /\ given + n <= MaxLength
  /\ given' = given + n
  /\ extra' = SubSeq(input, whole + 1, Len(input))
  /\ BCryptEncrypt(first \o SubSeq(input, 1, whole))
  /\ UNCHANGED pc

\* The last call is not chained and takes any length.
do_encrypt_final ==
  /\ pc = "open"
  /\ pc' = "sealed"
  /\ encrypted' = encrypted \o extra
  /\ UNCHANGED <<given, extra, failed>>

Init == pc = "idle" /\ given = 0 /\ extra = <<>> /\ encrypted = <<>> /\ failed = FALSE

Next ==
  \/ do_encrypt_init
  \/ \E n \in 1..MaxSegment : do_encrypt_update(n)
  \/ do_encrypt_final

Spec == Init /\ [][Next]_vars
-----------------------------------------------------------------------------
(***************************************************************************)
(* Every byte that was passed is encrypted once and in order, however the  *)
(* message is cut into segments, and BCryptEncrypt accepts every call.     *)
(* The code loses the bytes in extraBytes when a segment is too short to   *)
(* complete their block.                                                   *)
(***************************************************************************)
SegmentsComplete ==
  /\ ~failed
  /\ pc = "sealed" => encrypted = [i \in 1..given |-> i]
=============================================================================
