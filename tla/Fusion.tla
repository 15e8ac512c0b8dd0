------------------------------- MODULE Fusion -------------------------------
(***************************************************************************)
(* lib/fusion.c: AES-GCM as one loop that runs six AES blocks and up to    *)
(* six GHASH multiplications side by side.  GHASH uses a table of powers   *)
(* of H, one entry for each block, the highest first.  The difficulty is   *)
(* the schedule: the key stream runs ahead of the hash when encrypting and *)
(* not when decrypting, AAD takes slots of the hash only, the block that   *)
(* masks the tag (ek0) and one supplementary block (QUIC's header          *)
(* protection) are computed in slots the payload leaves free, the last     *)
(* blocks are partial, and the table grows with the largest record seen.   *)
(*                                                                         *)
(* A block of AES output is the number of the counter it was computed      *)
(* from.  Multiplication is left out; what is kept is which block was      *)
(* multiplied by which entry of the table, in which order.  Lengths are in *)
(* bytes, and a block has BLOCK of them.                                   *)
(***************************************************************************)
EXTENDS Naturals, Sequences

CONSTANTS BLOCK,         \* 16: the bytes of a block
          INITIAL,       \* 1500: the capacity aesgcm_setup asks for
          MaxAad,        \* bound: bytes of AAD
          MaxPayload,    \* bound: bytes of payload
          Samples,       \* where in the output the sample may start
          MaxCalls       \* bound: records processed with one context

ASSUME LengthsAssumption ==
  /\ BLOCK \in Nat \ {0} /\ INITIAL \in Nat /\ MaxAad \in Nat /\ MaxPayload \in Nat
  /\ MaxCalls \in Nat /\ Samples \subseteq Nat

SLOTS == 6
Slot  == 0..(SLOTS - 1)

\* Nothing: no supplementary block asked for, a slot without a counter.
None == 0

VARIABLES
  capacity,   \* ctx->capacity
  space,      \* entries there is memory for in ctx->ghash
  ghash_cnt,  \* ctx->ghash_cnt: entries that have been computed
  calls,      \* records processed so far
  pc,         \* idle, encrypt, decrypt, encrypt_finish, decrypt_finish, done
  args,       \* [aadlen, inlen, sample]: where the sample for the supplementary
              \* block ends in the output, or None
  aad,        \* bytes of AAD fed into GHASH
  fed,        \* bytes of ciphertext fed into GHASH (dst_ghash, src_ghash)
  src,        \* bytes of payload encrypted or decrypted (src, src_aes)
  ctr,        \* the counter
  bits,       \* the counter each slot encrypts
  gdata,      \* the blocks to be multiplied in this round
  entry,      \* ghash_precompute - ctx->ghash
  ek0,        \* the block that masks the tag: "none", "fed" into a slot, "ready"
  supp,       \* the supplementary block: "unused", "used", "in_process", "done"
  nondata,    \* nondata_aes_cnt
  more,       \* STATE_GHASH_HAS_MORE
  hashed,     \* history: the blocks multiplied, each with its entry
  written,    \* history: the counter each block of output was made with
  mask,       \* the counter ek0 was made from
  fault       \* an assertion that failed, a read of something not there

context  == <<capacity, space, ghash_cnt>>
locals   == <<aad, fed, src, ctr, bits, gdata, entry, ek0, supp, nondata, more, mask>>
vars     == <<context, calls, pc, args, locals, hashed, written, fault>>
-----------------------------------------------------------------------------
(* The table of powers.                                                     *)

Blocks(bytes) == (bytes + BLOCK - 1) \div BLOCK

Least(m, n) == IF m < n THEN m ELSE n

\* Mutant: only one of AAD and payload may end in a partial block.
calc_ghash_cnt_one_partial(size) == Blocks(size) + 1

aesgcm_calc_ghash_cnt(size) == Blocks(size) + 2

(* aead_do_encrypt and aead_do_decrypt before a record of this size.  When  *)
(* the table grows, ptls_fusion_aesgcm_set_capacity means to compute the    *)
(* new entries, but its loop runs while ghash_cnt < ctx->ghash_cnt, which   *)
(* is never so at that point.                                               *)
set_capacity(size) ==
  LET cnt   == aesgcm_calc_ghash_cnt(size)
      grows == size > capacity /\ cnt > ghash_cnt IN
  /\ capacity' = IF grows THEN size ELSE capacity
  /\ space' = IF grows THEN cnt ELSE space
  /\ UNCHANGED ghash_cnt

Init ==
  /\ capacity = INITIAL
  /\ space = aesgcm_calc_ghash_cnt(INITIAL)
  /\ ghash_cnt = aesgcm_calc_ghash_cnt(INITIAL)
  /\ calls = 0 /\ pc = "idle" /\ fault = "none"
  /\ args = [aadlen |-> 0, inlen |-> 0, sample |-> None]
  /\ aad = 0 /\ fed = 0 /\ src = 0 /\ ctr = 0 /\ entry = 0 /\ nondata = 0 /\ mask = None
  /\ bits = [i \in Slot |-> None] /\ gdata = <<>> /\ ek0 = "none" /\ supp = "unused"
  /\ more = FALSE /\ hashed = <<>> /\ written = <<>>

\* The locals every call starts with.
begin(aadlen, inlen, sample) ==
  /\ pc = "idle" /\ calls < MaxCalls
  /\ calls' = calls + 1
  /\ set_capacity(aadlen + inlen)
  /\ args' = [aadlen |-> aadlen, inlen |-> inlen, sample |-> sample]
  /\ entry' = Blocks(aadlen) + Blocks(inlen) + 1
  /\ fed' = 0 /\ src' = 0 /\ mask' = None
  /\ hashed' = <<>> /\ written' = <<>>
  /\ UNCHANGED fault

return ==
  /\ pc = "done"
  /\ pc' = "idle"
  /\ UNCHANGED <<context, calls, args, locals, hashed, written, fault>>
-----------------------------------------------------------------------------
(* Collecting blocks for GHASH: AAD as long as there is any, then           *)
(* ciphertext, six blocks at most.                                          *)

Aad(i)    == [of |-> "aad", i |-> i]
Cipher(i) == [of |-> "ciphertext", i |-> i]
AC        == [of |-> "lengths", i |-> 0]

AadTaken == Least(SLOTS, Blocks(args.aadlen - aad))
FedTaken == Least(SLOTS - AadTaken, Blocks(args.inlen - fed))

Group == [i \in 1..(AadTaken + FedTaken) |->
            IF i <= AadTaken THEN Aad(Blocks(aad) + i)
                             ELSE Cipher(Blocks(fed) + i - AadTaken)]

\* Mutant: the lengths are only put in the last slot.
LastGroup_last_slot == AadTaken + FedTaken = SLOTS - 1

\* The data ended within this group: there is a slot for the lengths.
LastGroup == AadTaken + FedTaken < SLOTS

\* Mutant: a partial block counts as a whole one.
Feed_whole ==
  /\ aad' = aad + AadTaken * BLOCK
  /\ fed' = fed + FedTaken * BLOCK

Feed ==
  /\ aad' = Least(args.aadlen, aad + AadTaken * BLOCK)
  /\ fed' = Least(args.inlen, fed + FedTaken * BLOCK)

\* gfmul_onestep over a group of blocks, an entry of the table for each.
Multiply(group) ==
  /\ hashed' = hashed \o [i \in 1..Len(group) |-> [block |-> group[i], entry |-> entry - i]]
  /\ entry' = entry - Len(group)
-----------------------------------------------------------------------------
(* ptls_fusion_aesgcm_encrypt.                                              *)

\* Mutant: ek0 is put in the last slot although the payload needs it.
TakesLastSlot_late(left) == left > BLOCK * SLOTS

\* The payload needs all the slots.
TakesLastSlot(left) == left > BLOCK * (SLOTS - 1)

\* Mutant: the sample is not waited for.
SuppReady_early(left, sample, reached) == left <= BLOCK * (SLOTS - 2)

\* There is a slot for the supplementary block and its input has been written.
SuppReady(left, sample, reached) == left <= BLOCK * (SLOTS - 2) /\ sample <= reached

\* AESECB6_INIT, with left bytes of payload to go and the ciphertext up to
\* reached given to GHASH; c, e and s are the counter, ek0 and supp so far.
AESECB6_INIT(left, reached, sample, c, e, s) ==
  LET all   == TakesLastSlot(left)
      start == ~all /\ s = "used" /\ SuppReady(left, sample, reached) IN
  /\ ctr' = c + (IF all THEN SLOTS ELSE SLOTS - 1)
  /\ bits' = [i \in Slot |->
                CASE i = SLOTS - 1 /\ ~all  -> IF e = "none" THEN 1 ELSE None
                  [] i = SLOTS - 2 /\ start -> None
                  [] OTHER -> c + 1 + i]
  /\ ek0' = IF ~all /\ e = "none" THEN "fed" ELSE e
  /\ supp' = IF start THEN "in_process" ELSE s

\* dst_ghash is not moved over a partial block.
dst_ghash == (fed \div BLOCK) * BLOCK

encrypt_begin(aadlen, inlen, sample) ==
  /\ begin(aadlen, inlen, sample)
  /\ LET taken == Least(SLOTS, Blocks(aadlen)) IN
     /\ aad' = Least(aadlen, taken * BLOCK)
     /\ gdata' = [i \in 1..taken |-> Aad(i)]
  /\ AESECB6_INIT(inlen, 0, sample, 1, "none", IF sample = None THEN "unused" ELSE "used")
  /\ nondata' = 0 /\ more' = FALSE
  /\ pc' = "encrypt"

(* One round of the main loop: the multiplications and the AES of this      *)
(* round, the key stream applied, then the next six blocks of AES started   *)
(* and the next blocks for GHASH collected.                                 *)
encrypt_round ==
  LET left  == args.inlen - src
      full  == left >= SLOTS * BLOCK
      made  == written \o [i \in 1..Least(SLOTS, Blocks(left)) |-> bits[i - 1]]
      reads == {i \in 1..Blocks(args.inlen) : \E k \in DOMAIN Group : Group[k] = Cipher(i)} IN
  /\ pc = "encrypt"
  /\ Multiply(gdata)
  /\ written' = made
  /\ src' = Least(args.inlen, src + SLOTS * BLOCK)
  /\ mask' = IF ~full /\ ek0 = "fed" THEN bits[SLOTS - 1] ELSE mask
  /\ AESECB6_INIT(args.inlen - src', dst_ghash, args.sample, ctr,
                  IF ~full /\ ek0 = "fed" THEN "ready" ELSE ek0,
                  IF ~full /\ supp = "in_process" THEN "done" ELSE supp)
  /\ gdata' = Group
  /\ Feed
  /\ fault' = CASE \E i \in reads : i > Len(made) -> "hashed_early"
                [] supp' = "in_process" /\ args.sample > src' -> "sampled_early"
                [] OTHER -> fault
  /\ pc' = IF LastGroup THEN "encrypt_finish" ELSE "encrypt"
  /\ UNCHANGED <<context, calls, args, nondata, more>>

(* The rest of the hash with the lengths, the tag, and the supplementary    *)
(* block if it is not complete: its sample may cover the tag.               *)
(* assert(STATE_EK0_READY()) is the fault ek0_not_ready.                    *)
encrypt_finish ==
  /\ pc = "encrypt_finish"
  /\ Multiply(Append(gdata, AC))
  /\ fault' = IF ek0 = "ready" THEN fault ELSE "ek0_not_ready"
  /\ supp' = IF supp = "unused" THEN supp ELSE "done"
  /\ pc' = "done"
  /\ UNCHANGED <<context, calls, args, aad, fed, src, ctr, bits, gdata, ek0, nondata, more,
                 mask, written>>
-----------------------------------------------------------------------------
(* ptls_fusion_aesgcm_decrypt.  The first slot of the first round is ek0's, *)
(* and every block of AAD takes a slot from the key stream, which keeps it  *)
(* from overtaking the hash: the output may be the input.                   *)

decrypt_begin(aadlen, inlen) ==
  /\ begin(aadlen, inlen, None)
  /\ ctr' = 1
  /\ bits' = [i \in Slot |-> IF i = 0 THEN 1 ELSE None]
  /\ nondata' = 1 /\ more' = TRUE /\ ek0' = "fed" /\ supp' = "unused"
  /\ aad' = 0 /\ gdata' = <<>>
  /\ pc' = "decrypt"

\* Mutant: AAD takes no slot.
Nondata_ek0_only == nondata

\* nondata_aes_cnt once the AAD of this round has been collected.
Nondata == nondata + AadTaken

(* One round of the main loop, up to the last block of output, which is     *)
(* written at Finish.                                                       *)
decrypt_round ==
  LET left   == Blocks(args.inlen - src)
      free   == IF Nondata < SLOTS THEN SLOTS - Nondata ELSE 0
      stream == [i \in Slot |-> IF i >= Nondata THEN ctr + 1 + i - Nondata ELSE bits[i]]
      fast   == Nondata = 0 /\ args.inlen - src >= SLOTS * BLOCK
      last   == ~fast /\ free > 0 /\ left <= free
      n      == Least(left, free)
      group  == IF LastGroup /\ more THEN Append(Group, AC) ELSE Group
      known  == Blocks(fed) + FedTaken IN
  /\ pc = "decrypt"
  /\ Multiply(group)
  /\ gdata' = group
  /\ more' = (more /\ ~LastGroup)
  /\ Feed
  /\ ctr' = ctr + free
  /\ bits' = stream
  /\ written' = written \o [i \in 1..n |-> stream[Nondata + i - 1]]
  /\ src' = Least(args.inlen, src + n * BLOCK)
  /\ mask' = IF ~fast /\ ek0 = "fed" THEN stream[0] ELSE mask
  /\ ek0' = IF ~fast /\ ek0 = "fed" THEN "ready" ELSE ek0
  /\ nondata' = 0
  /\ fault' = IF Len(written) + n > known THEN "overwritten_early"
              ELSE fault
  /\ pc' = IF last THEN "decrypt_finish" ELSE "decrypt"
  /\ UNCHANGED <<context, calls, args, supp>>

\* The two assertions at Finish: of not being in the first run, and of having
\* used all but one entry of the table.
decrypt_finish ==
  /\ pc = "decrypt_finish"
  /\ Multiply(IF more THEN <<AC>> ELSE <<>>)
  /\ fault' = CASE ek0 # "ready" -> "still_first_run"
                [] more /\ entry # 1 -> "table_not_used_up"
                [] OTHER -> fault
  /\ pc' = "done"
  /\ UNCHANGED <<context, calls, args, aad, fed, src, ctr, bits, gdata, ek0, supp, nondata,
                 more, mask, written>>
-----------------------------------------------------------------------------
Next ==
  \/ \E aadlen \in 0..MaxAad, inlen \in 0..MaxPayload :
       \/ encrypt_begin(aadlen, inlen, None)
       \/ \E at \in Samples : at <= inlen /\ encrypt_begin(aadlen, inlen, at + BLOCK)
       \/ decrypt_begin(aadlen, inlen)
  \/ encrypt_round \/ encrypt_finish
  \/ decrypt_round \/ decrypt_finish
  \/ return

Spec == Init /\ [][Next]_vars
-----------------------------------------------------------------------------
(***************************************************************************)
(* The types; nothing is consumed beyond the lengths that were given, and  *)
(* no more blocks are collected than a round multiplies.                   *)
(***************************************************************************)
TypeOK ==
  /\ capacity \in Nat /\ space \in Nat /\ ghash_cnt \in Nat /\ calls \in 0..MaxCalls
  /\ pc \in {"idle", "encrypt", "decrypt", "encrypt_finish", "decrypt_finish", "done"}
  /\ args \in [aadlen : 0..MaxAad, inlen : 0..MaxPayload, sample : Nat]
  /\ aad \in 0..args.aadlen /\ fed \in 0..args.inlen /\ src \in 0..args.inlen
  /\ ctr \in Nat /\ bits \in [Slot -> Nat] /\ entry \in Nat /\ nondata \in Nat
  /\ Len(gdata) <= SLOTS
  /\ ek0 \in {"none", "fed", "ready"} /\ mask \in Nat /\ more \in BOOLEAN
  /\ supp \in {"unused", "used", "in_process", "done"}

(***************************************************************************)
(* The assertions of the two functions hold for all lengths; encryption    *)
(* hashes and samples ciphertext only once it is written, and decryption   *)
(* in place never overwrites ciphertext it has yet to hash.                *)
(***************************************************************************)
NoFault == fault = "none"

(***************************************************************************)
(* Whatever the lengths, the schedule computes GCM: AAD, ciphertext and    *)
(* lengths are hashed once each, in order, with the power of H that their  *)
(* place asks for, block i of the payload is combined with counter i + 1,  *)
(* and the tag is masked with counter 1.                                   *)
(***************************************************************************)
GcmComputed ==
  LET a == Blocks(args.aadlen)
      n == Blocks(args.inlen) IN
  pc = "done" =>
    /\ hashed = [i \in 1..(a + n + 1) |->
                   [block |-> IF i <= a THEN Aad(i) ELSE IF i <= a + n THEN Cipher(i - a) ELSE AC,
                    entry |-> a + n + 1 - i]]
    /\ written = [i \in 1..n |-> i + 1]
    /\ mask = 1
    /\ (supp = "done") = (args.sample # None)

(***************************************************************************)
(* No entry of the table is used that is outside of it or has not been     *)
(* computed.  It holds at the capacity the context was made with, and not  *)
(* after ptls_fusion_aesgcm_set_capacity has raised it.                    *)
(***************************************************************************)
TableComputed ==
  \A i \in DOMAIN hashed : hashed[i].entry < space /\ hashed[i].entry < ghash_cnt

(***************************************************************************)
(* Both loops, which have no condition, end: no more AES is computed than  *)
(* for AAD and payload and the two groups they may leave incomplete.       *)
(***************************************************************************)
LoopsEnd == ctr <= 1 + Blocks(args.aadlen) + Blocks(args.inlen) + 2 * SLOTS
=============================================================================
