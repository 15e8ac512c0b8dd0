---------------------------- MODULE FusionProofs ----------------------------
(***************************************************************************)
(* The schedule of lib/fusion.c computes AES-GCM for all lengths of AAD    *)
(* and payload, all sizes of a block and all places of the sample.         *)
(***************************************************************************)
EXTENDS Fusion, Integers, TLAPS

\* The bytes up to the end of block j of x bytes, the last block being partial.
At(x, j) == Least(x, j * BLOCK)

\* Blocks there are, and blocks done.
AadBlocks == Blocks(args.aadlen)
Payload   == Blocks(args.inlen)
AadDone   == Blocks(aad)
Fed       == Blocks(fed)
Src       == Blocks(src)

\* What GHASH takes as its block i, and with which entry of the table.
BlockAt(i) ==
  IF i <= AadBlocks THEN Aad(i)
  ELSE IF i <= AadBlocks + Payload THEN Cipher(i - AadBlocks) ELSE AC

Hashed(i) == [block |-> BlockAt(i), entry |-> AadBlocks + Payload + 1 - i]

GBlock == [of : {"aad", "ciphertext", "lengths"}, i : Nat]

(***************************************************************************)
(* The inductive invariant.  Everything ends with a whole block or with    *)
(* the data, and payload is hashed when there is no AAD left.              *)
(***************************************************************************)
ProgressInv ==
  /\ AadDone \in 0..AadBlocks /\ aad = At(args.aadlen, AadDone)
  /\ Fed \in 0..Payload /\ fed = At(args.inlen, Fed)
  /\ Src \in 0..Payload /\ src = At(args.inlen, Src)

Running == pc \in {"encrypt", "decrypt", "encrypt_finish", "decrypt_finish"}

HashOK(h, e) ==
  /\ h \in Seq([block : GBlock, entry : Nat])
  /\ \A i \in 1..Len(h) : h[i] = Hashed(i)
  /\ Len(h) <= AadBlocks + Payload + 1
  /\ e = AadBlocks + Payload + 1 - Len(h)

WrittenOK(w) == w \in Seq(Nat) /\ \A i \in 1..Len(w) : w[i] = i + 1

HashInv ==
  Running =>
    /\ HashOK(hashed, entry)
    /\ AadDone < AadBlocks => Fed = 0
    /\ WrittenOK(written) /\ Len(written) = Src
    /\ ek0 = "ready" => mask = 1
    /\ (supp = "unused") = (args.sample = None)

(***************************************************************************)
(* Encryption.  Six blocks at most have been collected and are to be       *)
(* multiplied; the key stream is ahead of the hash, and holds the next     *)
(* counters as long as there is payload; ek0 is fed as soon as the payload *)
(* leaves the last slot free.                                              *)
(***************************************************************************)
EncryptInv ==
  pc \in {"encrypt", "encrypt_finish"} =>
    /\ gdata \in Seq(GBlock)
    /\ \A i \in 1..Len(gdata) : gdata[i] = BlockAt(Len(hashed) + i)
    /\ Len(hashed) + Len(gdata) = AadDone + Fed
    /\ Fed <= Src

EncryptRoundInv ==
  pc = "encrypt" =>
    /\ \A i \in Slot : i < Payload - Src => bits[i] = Src + 2 + i
    /\ Payload - Src > SLOTS - 1 => ctr = Src + SLOTS + 1
    /\ ek0 = "none" <=> Payload - Src > SLOTS - 1
    /\ ek0 = "fed" => bits[SLOTS - 1] = 1
    /\ supp = "in_process" => args.sample <= src
    /\ ctr <= 1 + SLOTS + AadDone + Fed

EncryptFinishInv ==
  pc = "encrypt_finish" =>
    /\ AadDone = AadBlocks /\ Fed = Payload /\ Src = Payload
    /\ ek0 = "ready"

(***************************************************************************)
(* Decryption.  The hash is ahead of the key stream, which wastes no slot  *)
(* before the last round.                                                  *)
(***************************************************************************)
DecryptInv ==
  pc \in {"decrypt", "decrypt_finish"} =>
    /\ Src <= Fed
    /\ args.sample = None
    /\ more => Len(hashed) = AadDone + Fed
    /\ ~more => /\ Len(hashed) = AadBlocks + Payload + 1
                /\ AadDone = AadBlocks /\ Fed = Payload

DecryptRoundInv ==
  pc = "decrypt" =>
    /\ ctr = Src + 1
    /\ \/ ek0 = "fed" /\ nondata = 1 /\ bits[0] = 1
       \/ ek0 = "ready" /\ nondata = 0

DecryptFinishInv ==
  pc = "decrypt_finish" =>
    /\ AadDone = AadBlocks /\ Fed = Payload /\ Src = Payload
    /\ ek0 = "ready"

\* The table: what is used of it, and what was computed at setup.
TableInv ==
  /\ ghash_cnt = aesgcm_calc_ghash_cnt(INITIAL) /\ space \in Nat /\ space >= ghash_cnt
  /\ \A i \in DOMAIN hashed : hashed[i].entry \in 0..(AadBlocks + Payload)

Inv ==
  /\ TypeOK /\ NoFault /\ GcmComputed /\ LoopsEnd
  /\ ProgressInv /\ HashInv
  /\ EncryptInv /\ EncryptRoundInv /\ EncryptFinishInv
  /\ DecryptInv /\ DecryptRoundInv /\ DecryptFinishInv
  /\ TableInv
-----------------------------------------------------------------------------
(* Counting blocks.                                                         *)

LEMMA Times ==
  ASSUME NEW j \in Nat, NEW k \in Nat
  PROVE  /\ BLOCK \in Nat /\ BLOCK > 0
         /\ j * BLOCK \in Nat
         /\ j <= k => j * BLOCK <= k * BLOCK
         /\ j < k => j * BLOCK + BLOCK <= k * BLOCK
         /\ (j + k) * BLOCK = j * BLOCK + k * BLOCK
<1>1. BLOCK \in Nat /\ BLOCK > 0
  BY LengthsAssumption
<1>2. \A i \in Nat : i * BLOCK \in Nat
  BY <1>1
<1>3. (j + k) * BLOCK = j * BLOCK + k * BLOCK
  BY <1>1
<1>4. ASSUME j <= k PROVE j * BLOCK <= k * BLOCK
  <2>1. k - j \in Nat /\ k * BLOCK = j * BLOCK + (k - j) * BLOCK
    BY <1>1, <1>4
  <2>. QED  BY <1>2, <2>1
<1>5. ASSUME j < k PROVE j * BLOCK + BLOCK <= k * BLOCK
  <2>1. k - j - 1 \in Nat /\ k * BLOCK = j * BLOCK + BLOCK + (k - j - 1) * BLOCK
    BY <1>1, <1>5
  <2>2. (k - j - 1) * BLOCK \in Nat /\ j * BLOCK \in Nat /\ k * BLOCK \in Nat
    BY <1>2, <2>1
  <2>. QED  BY <1>1, <2>1, <2>2
<1>. QED  BY <1>1, <1>2, <1>3, <1>4, <1>5

\* The number of blocks of x bytes is the least that has room for them.
LEMMA BlocksOf ==
  ASSUME NEW x \in Nat
  PROVE  /\ Blocks(x) \in Nat
         /\ x <= Blocks(x) * BLOCK
         /\ Blocks(x) * BLOCK < x + BLOCK
<1>1. BLOCK \in Nat /\ BLOCK > 0 /\ x + BLOCK - 1 \in Nat
  BY LengthsAssumption
<1>2. \A y \in Nat : /\ y \div BLOCK \in Nat
                     /\ (y \div BLOCK) * BLOCK <= y
                     /\ y < (y \div BLOCK) * BLOCK + BLOCK
  BY <1>1
<1>. QED  BY <1>1, <1>2 DEF Blocks

LEMMA BlocksAre ==
  ASSUME NEW x \in Nat, NEW q \in Nat, x <= q * BLOCK, q * BLOCK < x + BLOCK
  PROVE  Blocks(x) = q
<1>1. /\ Blocks(x) \in Nat
      /\ x <= Blocks(x) * BLOCK /\ Blocks(x) * BLOCK < x + BLOCK
  BY BlocksOf
<1>2. CASE q < Blocks(x)
  <2>1. q * BLOCK + BLOCK <= Blocks(x) * BLOCK
    BY <1>1, <1>2, Times
  <2>2. q * BLOCK \in Nat /\ Blocks(x) * BLOCK \in Nat /\ BLOCK \in Nat
    BY <1>1, Times
  <2>. QED  BY <1>1, <2>1, <2>2
<1>3. CASE Blocks(x) < q
  <2>1. Blocks(x) * BLOCK + BLOCK <= q * BLOCK
    BY <1>1, <1>3, Times
  <2>2. q * BLOCK \in Nat /\ Blocks(x) * BLOCK \in Nat /\ BLOCK \in Nat
    BY <1>1, Times
  <2>. QED  BY <1>1, <2>1, <2>2
<1>. QED  BY <1>1, <1>2, <1>3

\* There are at most k blocks in x bytes iff k blocks have room for them.
LEMMA BlocksAtMost ==
  ASSUME NEW x \in Nat, NEW k \in Nat
  PROVE  Blocks(x) <= k <=> x <= k * BLOCK
<1>1. /\ Blocks(x) \in Nat
      /\ x <= Blocks(x) * BLOCK /\ Blocks(x) * BLOCK < x + BLOCK
  BY BlocksOf
<1>2. k * BLOCK \in Nat /\ Blocks(x) * BLOCK \in Nat /\ BLOCK \in Nat
  BY <1>1, Times
<1>3. ASSUME Blocks(x) <= k PROVE x <= k * BLOCK
  <2>1. Blocks(x) * BLOCK <= k * BLOCK
    BY <1>1, <1>3, Times
  <2>. QED  BY <1>1, <1>2, <2>1
<1>4. ASSUME k < Blocks(x) PROVE k * BLOCK < x
  <2>1. k * BLOCK + BLOCK <= Blocks(x) * BLOCK
    BY <1>1, <1>4, Times
  <2>. QED  BY <1>1, <1>2, <2>1
<1>. QED  BY <1>1, <1>2, <1>3, <1>4

\* Being at the end of block j: j blocks are done and the others are left.
LEMMA AtBlock ==
  ASSUME NEW x \in Nat, NEW j \in 0..Blocks(x)
  PROVE  /\ At(x, j) \in 0..x
         /\ Blocks(At(x, j)) = j
         /\ Blocks(x - At(x, j)) = Blocks(x) - j
<1>. DEFINE q == Blocks(x)
<1>1. q \in Nat /\ x <= q * BLOCK /\ q * BLOCK < x + BLOCK
  BY BlocksOf
<1>2. BLOCK \in Nat /\ BLOCK > 0 /\ j \in Nat /\ j * BLOCK \in Nat
  BY <1>1, Times
<1>3. Blocks(0) = 0
  BY <1>2, BlocksAre
<1>4. CASE j = q
  <2>1. At(x, j) = x
    BY <1>1, <1>2, <1>4 DEF At, Least
  <2>2. x - x = 0
    OBVIOUS
  <2>. QED  BY <1>1, <1>3, <1>4, <2>1, <2>2
<1>5. CASE j < q
  <2>1. j * BLOCK + BLOCK <= q * BLOCK /\ q * BLOCK \in Nat
    BY <1>1, <1>2, <1>5, Times
  <2>2. At(x, j) = j * BLOCK /\ j * BLOCK < x
    BY <1>1, <1>2, <2>1 DEF At, Least
  <2>3. Blocks(j * BLOCK) = j
    BY <1>2, BlocksAre
  <2>4. q - j \in Nat /\ (q - j) * BLOCK = q * BLOCK - j * BLOCK
    BY <1>1, <1>2, <1>5
  <2>5. x - j * BLOCK \in Nat
    BY <1>2, <2>2
  <2>6. Blocks(x - j * BLOCK) = q - j
    <3>1. x - j * BLOCK <= (q - j) * BLOCK
      BY <1>1, <1>2, <2>1, <2>4
    <3>2. (q - j) * BLOCK < (x - j * BLOCK) + BLOCK
      BY <1>1, <1>2, <2>1, <2>4
    <3>. QED  BY <2>4, <2>5, <3>1, <3>2, BlocksAre
  <2>. QED  BY <1>2, <2>2, <2>3, <2>6
<1>. QED  BY <1>1, <1>4, <1>5

\* Going k blocks further.
LEMMA AtStep ==
  ASSUME NEW x \in Nat, NEW j \in 0..Blocks(x), NEW k \in Nat
  PROVE  Least(x, At(x, j) + k * BLOCK) = At(x, Least(Blocks(x), j + k))
<1>. DEFINE q == Blocks(x)
<1>1. q \in Nat /\ x <= q * BLOCK /\ q * BLOCK < x + BLOCK
  BY BlocksOf
<1>2. /\ BLOCK \in Nat /\ j \in Nat /\ j * BLOCK \in Nat /\ k * BLOCK \in Nat
      /\ q * BLOCK \in Nat /\ (j + k) * BLOCK = j * BLOCK + k * BLOCK
  <2>1. j \in Nat
    BY <1>1
  <2>. QED  BY <1>1, <2>1, Times
<1>3. At(x, q) = x
  BY <1>1, <1>2 DEF At, Least
<1>4. CASE j = q
  <2>1. Least(q, j + k) = q
    BY <1>1, <1>4 DEF Least
  <2>2. Least(x, x + k * BLOCK) = x
    BY <1>2 DEF Least
  <2>. QED  BY <1>3, <1>4, <2>1, <2>2
<1>5. CASE j < q
  <2>1. j * BLOCK + BLOCK <= q * BLOCK
    BY <1>1, <1>2, <1>5, Times
  <2>2. At(x, j) = j * BLOCK
    BY <1>1, <1>2, <2>1 DEF At, Least
  <2>3. CASE j + k < q
    BY <1>1, <1>2, <2>2, <2>3 DEF At, Least
  <2>4. CASE j + k >= q
    <3>1. q * BLOCK <= (j + k) * BLOCK
      BY <1>1, <1>2, <2>4, Times
    <3>2. Least(q, j + k) = q
      BY <1>1, <1>2, <2>4 DEF Least
    <3>. QED  BY <1>1, <1>2, <1>3, <2>2, <3>1, <3>2 DEF Least
  <2>. QED  BY <1>1, <1>2, <2>3, <2>4
<1>. QED  BY <1>1, <1>4, <1>5
-----------------------------------------------------------------------------
(* The parts of a round.                                                    *)

Lengths == args.aadlen \in Nat /\ args.inlen \in Nat

LEMMA Counts ==
  ASSUME Lengths, ProgressInv
  PROVE  /\ AadBlocks \in Nat /\ Payload \in Nat
         /\ AadDone \in Nat /\ AadDone <= AadBlocks
         /\ Fed \in Nat /\ Fed <= Payload
         /\ Src \in Nat /\ Src <= Payload
         /\ Blocks(args.aadlen - aad) = AadBlocks - AadDone
         /\ Blocks(args.inlen - fed) = Payload - Fed
         /\ Blocks(args.inlen - src) = Payload - Src
         /\ aad \in 0..args.aadlen /\ fed \in 0..args.inlen /\ src \in 0..args.inlen
<1>1. AadBlocks \in Nat /\ Payload \in Nat
  BY BlocksOf DEF Lengths, AadBlocks, Payload
<1>2. aad \in 0..args.aadlen /\ Blocks(args.aadlen - aad) = AadBlocks - AadDone
  BY AtBlock DEF Lengths, ProgressInv, AadBlocks
<1>3. fed \in 0..args.inlen /\ Blocks(args.inlen - fed) = Payload - Fed
  BY AtBlock DEF Lengths, ProgressInv, Payload
<1>4. src \in 0..args.inlen /\ Blocks(args.inlen - src) = Payload - Src
  BY AtBlock DEF Lengths, ProgressInv, Payload
<1>. QED  BY <1>1, <1>2, <1>3, <1>4 DEF ProgressInv

\* What is collected in a round.
LEMMA Taken ==
  ASSUME Lengths, ProgressInv
  PROVE  /\ AadTaken \in 0..SLOTS /\ FedTaken \in 0..SLOTS
         /\ AadDone + AadTaken <= AadBlocks /\ Fed + FedTaken <= Payload
         /\ AadTaken < SLOTS => AadDone + AadTaken = AadBlocks
         /\ AadTaken + FedTaken <= SLOTS
         /\ AadTaken + FedTaken < SLOTS => Fed + FedTaken = Payload
         /\ FedTaken > 0 => AadDone + AadTaken = AadBlocks
BY Counts DEF AadTaken, FedTaken, Least, SLOTS

LEMMA FeedMoves ==
  ASSUME Lengths, ProgressInv, Feed, args' = args
  PROVE  /\ AadDone' = AadDone + AadTaken /\ Fed' = Fed + FedTaken
         /\ aad' = At(args.aadlen, AadDone + AadTaken)
         /\ fed' = At(args.inlen, Fed + FedTaken)
<1>1. /\ AadBlocks \in Nat /\ Payload \in Nat
      /\ AadDone \in 0..Blocks(args.aadlen) /\ Fed \in 0..Blocks(args.inlen)
      /\ AadTaken \in Nat /\ FedTaken \in Nat
      /\ AadDone + AadTaken \in 0..Blocks(args.aadlen)
      /\ Fed + FedTaken \in 0..Blocks(args.inlen)
  <2>1. /\ AadDone \in 0..AadBlocks /\ Fed \in 0..Payload
        /\ AadTaken \in Nat /\ FedTaken \in Nat
        /\ AadDone + AadTaken \in 0..AadBlocks /\ Fed + FedTaken \in 0..Payload
    BY Counts, Taken DEF SLOTS
  <2>. QED  BY <2>1, Counts DEF AadBlocks, Payload
<1>2. aad = At(args.aadlen, AadDone) /\ fed = At(args.inlen, Fed)
  BY DEF ProgressInv
<1>3. aad' = At(args.aadlen, Least(Blocks(args.aadlen), AadDone + AadTaken))
  BY <1>1, <1>2, AtStep DEF Feed, Lengths
<1>4. fed' = At(args.inlen, Least(Blocks(args.inlen), Fed + FedTaken))
  BY <1>1, <1>2, AtStep DEF Feed, Lengths
<1>5. /\ Least(Blocks(args.aadlen), AadDone + AadTaken) = AadDone + AadTaken
      /\ Least(Blocks(args.inlen), Fed + FedTaken) = Fed + FedTaken
  BY <1>1 DEF Least, AadBlocks, Payload
<1>6. Blocks(aad') = AadDone + AadTaken /\ Blocks(fed') = Fed + FedTaken
  BY <1>1, <1>3, <1>4, <1>5, AtBlock DEF Lengths
<1>. QED  BY <1>3, <1>4, <1>5, <1>6 DEF AadDone, Fed

\* The blocks collected are those whose turn it is.
LEMMA GroupIs ==
  ASSUME Lengths, ProgressInv, AadDone < AadBlocks => Fed = 0
  PROVE  /\ Group \in Seq(GBlock)
         /\ Len(Group) = AadTaken + FedTaken
         /\ \A i \in 1..Len(Group) : Group[i] = BlockAt(AadDone + Fed + i)
<1>1. /\ AadTaken \in Nat /\ FedTaken \in Nat /\ AadDone \in Nat /\ Fed \in Nat
      /\ AadBlocks \in Nat /\ Payload \in Nat /\ AadDone <= AadBlocks /\ Fed <= Payload
      /\ AadDone + AadTaken <= AadBlocks /\ Fed + FedTaken <= Payload
      /\ FedTaken > 0 => AadDone + AadTaken = AadBlocks
  BY Counts, Taken DEF SLOTS
<1>2. ASSUME NEW i \in 1..(AadTaken + FedTaken)
      PROVE  Group[i] \in GBlock /\ Group[i] = BlockAt(AadDone + Fed + i)
  <2>1. CASE i <= AadTaken
    <3>1. Group[i] = Aad(AadDone + i)
      BY <2>1 DEF Group, AadDone
    <3>2. Fed = 0 /\ AadDone + Fed + i = AadDone + i /\ AadDone + i <= AadBlocks
      BY <1>1, <2>1
    <3>. QED  BY <1>1, <3>1, <3>2 DEF BlockAt, Aad, GBlock
  <2>2. CASE i > AadTaken
    <3>1. Group[i] = Cipher(Fed + i - AadTaken)
      BY <1>1, <2>2 DEF Group, Fed
    <3>2. /\ FedTaken > 0 /\ AadDone + Fed + i > AadBlocks
          /\ AadDone + Fed + i <= AadBlocks + Payload
          /\ AadDone + Fed + i - AadBlocks = Fed + i - AadTaken
          /\ Fed + i - AadTaken \in Nat
      BY <1>1, <2>2
    <3>. QED  BY <1>1, <3>1, <3>2 DEF BlockAt, Cipher, GBlock
  <2>. QED  BY <1>1, <2>1, <2>2
<1>3. Group \in [1..(AadTaken + FedTaken) -> GBlock]
  BY <1>2 DEF Group
<1>4. Group \in Seq(GBlock) /\ Len(Group) = AadTaken + FedTaken
  BY <1>1, <1>3
<1>. QED  BY <1>2, <1>4

LEMMA Concat ==
  ASSUME NEW S, NEW p \in Seq(S), NEW q \in Seq(S)
  PROVE  /\ p \o q \in Seq(S) /\ Len(p \o q) = Len(p) + Len(q)
         /\ \A i \in 1..Len(p) : (p \o q)[i] = p[i]
         /\ \A i \in 1..Len(q) : (p \o q)[Len(p) + i] = q[i]
OBVIOUS

LEMMA IndexSplit ==
  ASSUME NEW m \in Nat, NEW n \in Nat, NEW i \in 1..(m + n)
  PROVE  i \in 1..m \/ \E k \in 1..n : i = m + k
<1>. SUFFICES ASSUME i > m PROVE \E k \in 1..n : i = m + k
  OBVIOUS
<1>. WITNESS i - m \in 1..n
<1>. QED  OBVIOUS

HashItem == [block : GBlock, entry : Nat]

\* gfmul_onestep for blocks whose turn it is.
LEMMA MultiplyHashes ==
  ASSUME AadBlocks \in Nat, Payload \in Nat, HashOK(hashed, entry),
         NEW group \in Seq(GBlock),
         \A i \in 1..Len(group) : group[i] = BlockAt(Len(hashed) + i),
         Len(hashed) + Len(group) <= AadBlocks + Payload + 1,
         Multiply(group), args' = args
  PROVE  /\ HashOK(hashed, entry)'
         /\ Len(hashed') = Len(hashed) + Len(group)
<1>. DEFINE new == [i \in 1..Len(group) |-> [block |-> group[i], entry |-> entry - i]]
<1>1. /\ hashed \in Seq(HashItem)
      /\ \A i \in 1..Len(hashed) : hashed[i] = Hashed(i)
      /\ entry = AadBlocks + Payload + 1 - Len(hashed)
  BY DEF HashOK, HashItem
<1>2. hashed' = hashed \o new /\ entry' = entry - Len(group)
  BY DEF Multiply
<1>3. Len(group) \in Nat /\ Len(hashed) \in Nat
  BY <1>1
<1>4. ASSUME NEW i \in 1..Len(group)
      PROVE  new[i] = Hashed(Len(hashed) + i) /\ new[i] \in HashItem
  <2>1. /\ entry - i \in Nat /\ entry - i = AadBlocks + Payload + 1 - (Len(hashed) + i)
        /\ group[i] \in GBlock /\ group[i] = BlockAt(Len(hashed) + i)
    BY <1>1, <1>3
  <2>. QED  BY <2>1 DEF Hashed, HashItem
<1>5. new \in [1..Len(group) -> HashItem]
  BY <1>4
<1>. HIDE DEF new
<1>6. new \in Seq(HashItem) /\ Len(new) = Len(group)
  BY <1>3, <1>5
<1>7. /\ hashed' \in Seq(HashItem)
      /\ Len(hashed') = Len(hashed) + Len(group)
  <2>1. /\ hashed \o new \in Seq(HashItem)
        /\ Len(hashed \o new) = Len(hashed) + Len(new)
    BY <1>1, <1>6, Concat, Zenon
  <2>. QED  BY <1>2, <1>6, <2>1
<1>8. ASSUME NEW i \in 1..Len(hashed') PROVE hashed'[i] = Hashed(i)
  <2>1. CASE i \in 1..Len(hashed)
    BY <1>1, <1>2, <1>6, <2>1, Concat
  <2>2. CASE \E k \in 1..Len(group) : i = Len(hashed) + k
    BY <1>1, <1>2, <1>4, <1>6, <2>2, Concat
  <2>3. i \in 1..(Len(hashed) + Len(group))
    BY <1>7
  <2>4. i \in 1..Len(hashed) \/ \E k \in 1..Len(group) : i = Len(hashed) + k
    BY <1>3, <2>3, IndexSplit
  <2>. QED  BY <2>1, <2>2, <2>4
<1>9. AadBlocks' = AadBlocks /\ Payload' = Payload /\ \A i : Hashed(i)' = Hashed(i)
  BY DEF AadBlocks, Payload, Hashed, BlockAt
<1>. QED  BY <1>1, <1>2, <1>3, <1>7, <1>8, <1>9, SMTT(30) DEF HashOK, HashItem

\* The next blocks of output, made with the next counters.
LEMMA OutputGrows ==
  ASSUME NEW w, WrittenOK(w), NEW k \in Nat, NEW f \in [1..k -> Nat],
         \A i \in 1..k : f[i] = Len(w) + i + 1
  PROVE  WrittenOK(w \o f) /\ Len(w \o f) = Len(w) + k
<1>1. f \in Seq(Nat) /\ Len(f) = k /\ w \in Seq(Nat) /\ Len(w) \in Nat
  BY DEF WrittenOK
<1>2. w \o f \in Seq(Nat) /\ Len(w \o f) = Len(w) + k
  BY <1>1, Concat
<1>3. ASSUME NEW i \in 1..(Len(w) + k) PROVE (w \o f)[i] = i + 1
  <2>1. CASE i \in 1..Len(w)
    BY <1>1, <2>1, Concat DEF WrittenOK
  <2>2. CASE \E j \in 1..k : i = Len(w) + j
    BY <1>1, <2>2, Concat
  <2>. QED  BY <1>1, <2>1, <2>2, IndexSplit
<1>. QED  BY <1>2, <1>3 DEF WrittenOK

\* AESECB6_INIT with left bytes of payload to go: the slots the payload needs
\* hold the next counters, and ek0 is fed if it is time and there is a slot.
LEMMA SlotsFilled ==
  ASSUME NEW left \in Nat, NEW reached \in Nat, NEW sample \in Nat, NEW c \in Nat, NEW e, NEW u,
         AESECB6_INIT(left, reached, sample, c, e, u)
  PROVE  /\ ctr' \in Nat /\ ctr' <= c + SLOTS
         /\ Blocks(left) > SLOTS - 1 => ctr' = c + SLOTS
         /\ bits' \in [Slot -> Nat]
         /\ \A i \in Slot : i < Blocks(left) => bits'[i] = c + 1 + i
         /\ ek0' = IF Blocks(left) <= SLOTS - 1 /\ e = "none" THEN "fed" ELSE e
         /\ Blocks(left) <= SLOTS - 1 /\ e = "none" => bits'[SLOTS - 1] = 1
         /\ supp' = u \/ (supp' = "in_process" /\ u = "used" /\ sample <= reached)
<1>. DEFINE all   == TakesLastSlot(left)
            start == ~all /\ u = "used" /\ SuppReady(left, sample, reached)
<1>1. Blocks(left) \in Nat
  BY BlocksOf
<1>2. all <=> Blocks(left) > SLOTS - 1
  <2>1. BLOCK * (SLOTS - 1) = 5 * BLOCK /\ SLOTS - 1 = 5 /\ 5 * BLOCK \in Nat
    BY LengthsAssumption DEF SLOTS
  <2>2. Blocks(left) <= 5 <=> left <= 5 * BLOCK
    BY BlocksAtMost
  <2>. QED  BY <1>1, <2>1, <2>2 DEF TakesLastSlot
<1>3. start => Blocks(left) <= SLOTS - 2 /\ u = "used" /\ sample <= reached
  <2>1. BLOCK * (SLOTS - 2) = 4 * BLOCK /\ SLOTS - 2 = 4 /\ 4 * BLOCK \in Nat
    BY LengthsAssumption DEF SLOTS
  <2>2. Blocks(left) <= 4 <=> left <= 4 * BLOCK
    BY BlocksAtMost
  <2>. QED  BY <1>1, <2>1, <2>2 DEF SuppReady
<1>4. bits' = [i \in Slot |->
                 CASE i = SLOTS - 1 /\ ~all  -> IF e = "none" THEN 1 ELSE None
                   [] i = SLOTS - 2 /\ start -> None
                   [] OTHER -> c + 1 + i]
  BY DEF AESECB6_INIT
<1>5. \A i \in Slot : bits'[i] = CASE i = SLOTS - 1 /\ ~all  -> IF e = "none" THEN 1 ELSE None
                                   [] i = SLOTS - 2 /\ start -> None
                                   [] OTHER -> c + 1 + i
  BY <1>4
<1>6. \A i \in Slot : bits'[i] \in Nat
  BY <1>5 DEF None, Slot, SLOTS
<1>7. bits' \in [Slot -> Nat]
  BY <1>4, <1>6
<1>8. \A i \in Slot : i < Blocks(left) => bits'[i] = c + 1 + i
  BY <1>1, <1>2, <1>3, <1>5 DEF Slot, SLOTS
<1>9. Blocks(left) <= SLOTS - 1 /\ e = "none" => bits'[SLOTS - 1] = 1
  BY <1>1, <1>2, <1>5 DEF Slot, SLOTS
<1>10. ctr' \in Nat /\ ctr' <= c + SLOTS /\ (Blocks(left) > SLOTS - 1 => ctr' = c + SLOTS)
  <2>1. ctr' = c + (IF all THEN SLOTS ELSE SLOTS - 1)
    BY DEF AESECB6_INIT
  <2>. QED  BY <1>2, <2>1 DEF SLOTS
<1>11. ek0' = IF Blocks(left) <= SLOTS - 1 /\ e = "none" THEN "fed" ELSE e
  <2>1. ek0' = IF ~all /\ e = "none" THEN "fed" ELSE e
    BY DEF AESECB6_INIT
  <2>. QED  BY <1>1, <1>2, <2>1 DEF SLOTS
<1>12. supp' = u \/ (supp' = "in_process" /\ u = "used" /\ sample <= reached)
  <2>1. supp' = IF start THEN "in_process" ELSE u
    BY DEF AESECB6_INIT
  <2>. QED  BY <1>3, <2>1
<1>. QED  BY <1>7, <1>8, <1>9, <1>10, <1>11, <1>12
-----------------------------------------------------------------------------
(* The steps.                                                               *)

LEMMA ZeroBlocks ==
  /\ Blocks(0) = 0
  /\ \A x \in Nat : At(x, 0) = 0
<1>1. BLOCK \in Nat /\ BLOCK > 0 /\ 0 * BLOCK = 0
  BY LengthsAssumption
<1>2. Blocks(0) = 0
  BY <1>1, BlocksAre
<1>. QED  BY <1>1, <1>2 DEF At, Least

LEMMA InitInv == Init => Inv
<1>. SUFFICES ASSUME Init PROVE Inv
  OBVIOUS
<1>1. /\ args.aadlen = 0 /\ args.inlen = 0 /\ args.sample = None
      /\ aad = 0 /\ fed = 0 /\ src = 0 /\ pc = "idle" /\ hashed = <<>>
  BY DEF Init
<1>2. AadBlocks = 0 /\ Payload = 0 /\ AadDone = 0 /\ Fed = 0 /\ Src = 0
  BY <1>1, ZeroBlocks DEF AadBlocks, Payload, AadDone, Fed, Src
<1>3. Blocks(INITIAL) \in Nat
  BY BlocksOf, LengthsAssumption
<1>4. TypeOK
  <2>1. /\ capacity \in Nat /\ space \in Nat /\ ghash_cnt \in Nat /\ calls \in 0..MaxCalls
    BY <1>3, LengthsAssumption DEF Init, aesgcm_calc_ghash_cnt
  <2>2. args \in [aadlen : 0..MaxAad, inlen : 0..MaxPayload, sample : Nat]
    BY LengthsAssumption DEF Init, None
  <2>3. bits \in [Slot -> Nat] /\ Len(gdata) <= SLOTS
    BY DEF Init, None, SLOTS
  <2>4. more \in BOOLEAN /\ mask \in Nat
    BY DEF Init, None
  <2>5. aad \in 0..args.aadlen /\ fed \in 0..args.inlen /\ src \in 0..args.inlen
    BY <1>1
  <2>6. ctr \in Nat /\ entry \in Nat /\ nondata \in Nat /\ ek0 = "none" /\ supp = "unused"
    BY DEF Init
  <2>. QED  BY <1>1, <2>1, <2>2, <2>3, <2>4, <2>5, <2>6 DEF TypeOK
<1>5. NoFault /\ GcmComputed
  BY DEF Init, NoFault, GcmComputed
<1>6. LoopsEnd
  BY <1>2 DEF Init, LoopsEnd, AadBlocks, Payload, SLOTS
<1>7. ProgressInv
  BY <1>1, <1>2, ZeroBlocks DEF ProgressInv
<1>8. TableInv
  BY <1>3 DEF Init, TableInv, aesgcm_calc_ghash_cnt
<1>. QED
  BY <1>1, <1>4, <1>5, <1>6, <1>7, <1>8
     DEF Inv, HashInv, Running, EncryptInv, EncryptRoundInv, EncryptFinishInv,
         DecryptInv, DecryptRoundInv, DecryptFinishInv

\* What both kinds of calls begin with.
LEMMA BeginFacts ==
  ASSUME Inv, NEW aadlen \in 0..MaxAad, NEW inlen \in 0..MaxPayload, NEW sample \in Nat,
         begin(aadlen, inlen, sample)
  PROVE  /\ aadlen \in Nat /\ inlen \in Nat
         /\ args' \in [aadlen : 0..MaxAad, inlen : 0..MaxPayload, sample : Nat]
         /\ args'.aadlen = aadlen /\ args'.inlen = inlen /\ args'.sample = sample
         /\ AadBlocks' = Blocks(aadlen) /\ Payload' = Blocks(inlen)
         /\ AadBlocks' \in Nat /\ Payload' \in Nat
         /\ fed' = 0 /\ src' = 0 /\ Fed' = 0 /\ Src' = 0
         /\ At(inlen, 0) = 0
         /\ hashed' = <<>> /\ written' = <<>> /\ mask' = None
         /\ HashOK(hashed, entry)' /\ WrittenOK(written') /\ Len(written') = 0
         /\ Len(hashed') = 0 /\ entry' \in Nat
         /\ TableInv'
         /\ capacity' \in Nat /\ calls' \in 0..MaxCalls /\ ghash_cnt' \in Nat
         /\ fault' = fault
<1>1. /\ aadlen \in Nat /\ inlen \in Nat /\ aadlen + inlen \in Nat
      /\ args' = [aadlen |-> aadlen, inlen |-> inlen, sample |-> sample]
      /\ entry' = Blocks(aadlen) + Blocks(inlen) + 1
      /\ fed' = 0 /\ src' = 0 /\ mask' = None /\ hashed' = <<>> /\ written' = <<>>
      /\ fault' = fault /\ calls' = calls + 1 /\ calls < MaxCalls
      /\ set_capacity(aadlen + inlen)
  BY LengthsAssumption DEF begin
<1>2. /\ args'.aadlen = aadlen /\ args'.inlen = inlen /\ args'.sample = sample
      /\ args' \in [aadlen : 0..MaxAad, inlen : 0..MaxPayload, sample : Nat]
  BY <1>1
<1>3. AadBlocks' = Blocks(aadlen) /\ Payload' = Blocks(inlen)
  BY <1>2 DEF AadBlocks, Payload
<1>4. Blocks(aadlen) \in Nat /\ Blocks(inlen) \in Nat /\ Blocks(aadlen + inlen) \in Nat
  BY <1>1, BlocksOf
<1>5. Fed' = 0 /\ Src' = 0 /\ At(inlen, 0) = 0
  BY <1>1, ZeroBlocks DEF Fed, Src
<1>6. HashOK(hashed, entry)' /\ WrittenOK(written')
  <2>1. <<>> \in Seq([block : GBlock, entry : Nat]) /\ <<>> \in Seq(Nat) /\ Len(<<>>) = 0
    OBVIOUS
  <2>. QED  BY <1>1, <1>3, <1>4, <2>1 DEF HashOK, WrittenOK
<1>7. TableInv' /\ capacity' \in Nat /\ ghash_cnt' \in Nat
  <2>1. /\ ghash_cnt = aesgcm_calc_ghash_cnt(INITIAL) /\ space \in Nat /\ space >= ghash_cnt
        /\ capacity \in Nat /\ ghash_cnt \in Nat
    BY DEF Inv, TableInv, TypeOK
  <2>2. ghash_cnt' = ghash_cnt /\ capacity' \in Nat /\ space' \in Nat /\ space' >= ghash_cnt
    BY <1>1, <1>4, <2>1, SMTT(30) DEF set_capacity, aesgcm_calc_ghash_cnt
  <2>. QED  BY <1>1, <2>1, <2>2 DEF TableInv
<1>8. calls' \in 0..MaxCalls
  <2>1. calls \in 0..MaxCalls /\ MaxCalls \in Nat
    BY LengthsAssumption DEF Inv, TypeOK
  <2>. QED  BY <1>1, <2>1
<1>9. Len(hashed') = 0 /\ Len(written') = 0 /\ entry' \in Nat
  BY <1>1, <1>4
<1>. QED  BY <1>1, <1>2, <1>3, <1>4, <1>5, <1>6, <1>7, <1>8, <1>9

\* Outside of the two functions the invariant is about types and the table.
LEMMA EncryptBeginInv ==
  ASSUME Inv, NEW aadlen \in 0..MaxAad, NEW inlen \in 0..MaxPayload, NEW sample \in Nat,
         encrypt_begin(aadlen, inlen, sample)
  PROVE  Inv'
<1>. DEFINE taken == Least(SLOTS, Blocks(aadlen))
            used  == IF sample = None THEN "unused" ELSE "used"
<1>1. /\ begin(aadlen, inlen, sample)
      /\ aad' = Least(aadlen, taken * BLOCK)
      /\ gdata' = [i \in 1..taken |-> Aad(i)]
      /\ AESECB6_INIT(inlen, 0, sample, 1, "none", used)
      /\ nondata' = 0 /\ more' = FALSE /\ pc' = "encrypt"
  BY DEF encrypt_begin
<1>2. aadlen \in Nat /\ inlen \in Nat
  BY <1>1, BeginFacts
<1>3. /\ args' \in [aadlen : 0..MaxAad, inlen : 0..MaxPayload, sample : Nat]
      /\ args'.aadlen = aadlen /\ args'.inlen = inlen /\ args'.sample = sample
  BY <1>1, BeginFacts
<1>4. /\ AadBlocks' = Blocks(aadlen) /\ Payload' = Blocks(inlen)
      /\ AadBlocks' \in Nat /\ Payload' \in Nat
  BY <1>1, BeginFacts
<1>5. fed' = 0 /\ src' = 0 /\ Fed' = 0 /\ Src' = 0 /\ At(inlen, 0) = 0
  BY <1>1, BeginFacts
<1>6. /\ HashOK(hashed, entry)' /\ WrittenOK(written)' /\ Len(written') = 0
      /\ Len(hashed') = 0 /\ mask' = None
  BY <1>1, BeginFacts
<1>7. /\ TableInv' /\ capacity' \in Nat /\ calls' \in 0..MaxCalls /\ ghash_cnt' \in Nat
      /\ entry' \in Nat /\ fault' = fault
  BY <1>1, BeginFacts
<1>8. taken \in Nat /\ taken <= SLOTS /\ taken \in 0..Blocks(aadlen)
  BY <1>4 DEF Least, SLOTS
<1>9. /\ used \in {"unused", "used"}
      /\ used = "unused" <=> sample = None
  OBVIOUS
<1>. HIDE DEF taken, used
<1>10. aad' = At(aadlen, taken) /\ AadDone' = taken /\ aad' \in 0..aadlen
  BY <1>1, <1>2, <1>8, AtBlock DEF At, AadDone
<1>11. /\ ctr' \in Nat /\ ctr' <= 1 + SLOTS
       /\ Payload' > SLOTS - 1 => ctr' = 1 + SLOTS
  BY <1>1, <1>2, <1>4, SlotsFilled
<1>12. /\ bits' \in [Slot -> Nat]
       /\ \A i \in Slot : i < Payload' => bits'[i] = 1 + 1 + i
  BY <1>1, <1>2, <1>4, SlotsFilled
<1>13. /\ ek0' = IF Payload' <= SLOTS - 1 THEN "fed" ELSE "none"
       /\ Payload' <= SLOTS - 1 => bits'[SLOTS - 1] = 1
  BY <1>1, <1>2, <1>4, SlotsFilled
<1>14. supp' = used
  <2>1. supp' = used \/ (used = "used" /\ sample <= 0)
    BY <1>1, <1>2, SlotsFilled
  <2>. QED  BY <1>9, <2>1 DEF None
<1>15. /\ gdata' \in Seq(GBlock) /\ Len(gdata') = taken
       /\ \A i \in 1..taken : gdata'[i] = BlockAt(i)'
  <2>1. gdata' \in [1..taken -> GBlock]
    BY <1>1 DEF Aad, GBlock
  <2>2. \A i \in 1..taken : gdata'[i] = BlockAt(i)'
    BY <1>1, <1>4, <1>8 DEF BlockAt
  <2>. QED  BY <1>8, <2>1, <2>2
<1>16. TypeOK'
  <2>1. space' \in Nat
    BY <1>7 DEF TableInv
  <2>2. mask' \in Nat /\ more' \in BOOLEAN /\ nondata' \in Nat
    BY <1>1, <1>6 DEF None
  <2>3. Len(gdata') <= SLOTS /\ ek0' \in {"none", "fed", "ready"}
    BY <1>8, <1>13, <1>15
  <2>4. fed' \in 0..args'.inlen /\ src' \in 0..args'.inlen /\ aad' \in 0..args'.aadlen
    BY <1>2, <1>3, <1>5, <1>10
  <2>. QED  BY <1>1, <1>3, <1>7, <1>9, <1>11, <1>12, <1>14, <2>1, <2>2, <2>3, <2>4 DEF TypeOK
<1>17. NoFault' /\ GcmComputed'
  BY <1>1, <1>7 DEF Inv, NoFault, GcmComputed
<1>18. LoopsEnd'
  <2>1. ctr' <= 1 + AadBlocks' + Payload' + 2 * SLOTS
    BY <1>4, <1>11 DEF SLOTS
  <2>. QED  BY <2>1 DEF LoopsEnd, AadBlocks, Payload
<1>19. ProgressInv'
  BY <1>3, <1>4, <1>5, <1>8, <1>10 DEF ProgressInv
<1>20. HashInv'
  <2>1. ek0' # "ready"
    BY <1>13
  <2>. QED  BY <1>3, <1>5, <1>6, <1>9, <1>14, <2>1 DEF HashInv
<1>21. EncryptInv'
  <2>1. \A i \in 1..taken : 0 + i = i
    BY <1>8
  <2>. QED  BY <1>5, <1>6, <1>8, <1>10, <1>15, <2>1 DEF EncryptInv
<1>22. EncryptRoundInv'
  <2>1. \A i \in Slot : i < Payload' - Src' => bits'[i] = Src' + 2 + i
    BY <1>4, <1>5, <1>12 DEF Slot, SLOTS
  <2>2. /\ Payload' - Src' > SLOTS - 1 => ctr' = Src' + SLOTS + 1
        /\ ek0' = "none" <=> Payload' - Src' > SLOTS - 1
        /\ ek0' = "fed" => bits'[SLOTS - 1] = 1
    BY <1>4, <1>5, <1>11, <1>13 DEF SLOTS
  <2>3. ctr' <= 1 + SLOTS + AadDone' + Fed'
    BY <1>5, <1>8, <1>10, <1>11 DEF SLOTS
  <2>. QED  BY <1>9, <1>14, <2>1, <2>2, <2>3 DEF EncryptRoundInv
<1>. QED
  BY <1>1, <1>7, <1>16, <1>17, <1>18, <1>19, <1>20, <1>21, <1>22
     DEF Inv, EncryptFinishInv, DecryptInv, DecryptRoundInv, DecryptFinishInv

LEMMA DecryptBeginInv ==
  ASSUME Inv, NEW aadlen \in 0..MaxAad, NEW inlen \in 0..MaxPayload,
         decrypt_begin(aadlen, inlen)
  PROVE  Inv'
<1>1. /\ begin(aadlen, inlen, None) /\ None \in Nat
      /\ ctr' = 1 /\ bits' = [i \in Slot |-> IF i = 0 THEN 1 ELSE None]
      /\ nondata' = 1 /\ ek0' = "fed" /\ supp' = "unused"
      /\ aad' = 0 /\ gdata' = <<>> /\ pc' = "decrypt"
  BY DEF decrypt_begin, None
<1>2. more' = TRUE
  BY DEF decrypt_begin
<1>3. aadlen \in Nat /\ inlen \in Nat
  BY <1>1, BeginFacts
<1>4. /\ args' \in [aadlen : 0..MaxAad, inlen : 0..MaxPayload, sample : Nat]
      /\ args'.aadlen = aadlen /\ args'.inlen = inlen /\ args'.sample = None
  BY <1>1, BeginFacts
<1>5. /\ AadBlocks' = Blocks(aadlen) /\ Payload' = Blocks(inlen)
      /\ AadBlocks' \in Nat /\ Payload' \in Nat
  BY <1>1, BeginFacts
<1>6. fed' = 0 /\ src' = 0 /\ Fed' = 0 /\ Src' = 0 /\ At(inlen, 0) = 0
  BY <1>1, BeginFacts
<1>7. /\ HashOK(hashed, entry)' /\ WrittenOK(written)' /\ Len(written') = 0
      /\ Len(hashed') = 0 /\ mask' = None
  BY <1>1, BeginFacts
<1>8. /\ TableInv' /\ capacity' \in Nat /\ calls' \in 0..MaxCalls /\ ghash_cnt' \in Nat
      /\ entry' \in Nat /\ fault' = fault
  BY <1>1, BeginFacts
<1>9. AadDone' = 0 /\ At(aadlen, 0) = 0
  BY <1>1, <1>3, ZeroBlocks DEF AadDone
<1>10. bits' \in [Slot -> Nat] /\ bits'[0] = 1
  BY <1>1 DEF None, Slot, SLOTS
<1>11. TypeOK'
  <2>1. space' \in Nat
    BY <1>8 DEF TableInv
  <2>2. mask' \in Nat /\ more' \in BOOLEAN /\ Len(gdata') <= SLOTS
    BY <1>1, <1>2, <1>7 DEF None, SLOTS
  <2>3. fed' \in 0..args'.inlen /\ src' \in 0..args'.inlen /\ aad' \in 0..args'.aadlen
    BY <1>1, <1>3, <1>4, <1>6
  <2>. QED  BY <1>1, <1>4, <1>8, <1>10, <2>1, <2>2, <2>3 DEF TypeOK
<1>12. NoFault' /\ GcmComputed'
  BY <1>1, <1>8 DEF Inv, NoFault, GcmComputed
<1>13. LoopsEnd'
  <2>1. ctr' <= 1 + AadBlocks' + Payload' + 2 * SLOTS
    BY <1>1, <1>5 DEF SLOTS
  <2>. QED  BY <2>1 DEF LoopsEnd, AadBlocks, Payload
<1>14. ProgressInv'
  BY <1>1, <1>4, <1>5, <1>6, <1>9 DEF ProgressInv
<1>15. HashInv'
  BY <1>1, <1>4, <1>6, <1>7 DEF HashInv
<1>16. DecryptInv'
  BY <1>2, <1>4, <1>6, <1>7, <1>9 DEF DecryptInv
<1>17. DecryptRoundInv'
  BY <1>1, <1>6, <1>10 DEF DecryptRoundInv
<1>. QED
  BY <1>1, <1>8, <1>11, <1>12, <1>13, <1>14, <1>15, <1>16, <1>17
     DEF Inv, EncryptFinishInv, EncryptInv, EncryptRoundInv, DecryptFinishInv

LEMMA ReturnInv ==
  ASSUME Inv, return
  PROVE  Inv'
<1>1. /\ pc' = "idle" /\ capacity' = capacity /\ space' = space /\ ghash_cnt' = ghash_cnt
      /\ calls' = calls /\ args' = args /\ aad' = aad /\ fed' = fed /\ src' = src
      /\ ctr' = ctr /\ bits' = bits /\ gdata' = gdata /\ entry' = entry /\ ek0' = ek0
      /\ supp' = supp /\ nondata' = nondata /\ more' = more /\ mask' = mask
      /\ hashed' = hashed /\ fault' = fault
  BY DEF return, context, locals
<1>2. TypeOK' /\ NoFault' /\ GcmComputed' /\ LoopsEnd'
  BY <1>1 DEF Inv, TypeOK, NoFault, GcmComputed, LoopsEnd
<1>3. ProgressInv' /\ TableInv'
  BY <1>1 DEF Inv, ProgressInv, TableInv, AadBlocks, Payload, AadDone, Fed, Src
<1>. QED
  BY <1>1, <1>2, <1>3
     DEF Inv, HashInv, Running, EncryptInv, EncryptRoundInv, EncryptFinishInv,
         DecryptInv, DecryptRoundInv, DecryptFinishInv

\* While a call lasts, every entry that was used is one of the first a + n + 1.
LEMMA TableKept ==
  ASSUME TableInv, UNCHANGED context, HashOK(hashed, entry)',
         AadBlocks' \in Nat, Payload' \in Nat
  PROVE  TableInv'
<1>1. \A i \in DOMAIN hashed' : hashed'[i].entry \in 0..(AadBlocks' + Payload')
  <2>. SUFFICES ASSUME NEW i \in DOMAIN hashed'
                PROVE  hashed'[i].entry \in 0..(AadBlocks' + Payload')
    OBVIOUS
  <2>1. /\ hashed' \in Seq([block : GBlock, entry : Nat])
        /\ Len(hashed') <= AadBlocks' + Payload' + 1
        /\ \A k \in 1..Len(hashed') : hashed'[k] = Hashed(k)'
    BY DEF HashOK
  <2>2. i \in 1..Len(hashed') /\ Len(hashed') \in Nat
    BY <2>1
  <2>3. hashed'[i] = Hashed(i)'
    BY <2>1, <2>2
  <2>4. hashed'[i].entry = AadBlocks' + Payload' + 1 - i
    BY <2>3 DEF Hashed
  <2>5. i \in Nat /\ i >= 1 /\ i <= AadBlocks' + Payload' + 1
    BY <2>1, <2>2
  <2>. QED  BY <2>4, <2>5
<1>. QED  BY <1>1 DEF TableInv, context

\* src and dst are moved by k blocks, or to the end.
LEMMA SrcMoves ==
  ASSUME Lengths, ProgressInv, NEW k \in Nat, src' = Least(args.inlen, src + k * BLOCK)
  PROVE  /\ src' = At(args.inlen, Least(Payload, Src + k))
         /\ Src' = Least(Payload, Src + k)
         /\ src' \in 0..args.inlen
         /\ Blocks(args.inlen - src') = Payload - Src'
<1>. DEFINE j == Least(Payload, Src + k)
<1>1. Payload \in Nat /\ Src \in 0..Payload /\ j \in 0..Payload
  BY Counts DEF Least
<1>2. src = At(args.inlen, Src) /\ Payload = Blocks(args.inlen)
  BY DEF ProgressInv, Payload
<1>3. src' = At(args.inlen, j)
  BY <1>1, <1>2, AtStep DEF Lengths
<1>. HIDE DEF j
<1>4. src' \in 0..args.inlen /\ Blocks(src') = j /\ Blocks(args.inlen - src') = Payload - j
  BY <1>1, <1>2, <1>3, AtBlock DEF Lengths
<1>. QED  BY <1>3, <1>4 DEF Src, j

LEMMA EncryptRoundStep ==
  ASSUME Inv, encrypt_round
  PROVE  Inv'
<1>. DEFINE left == args.inlen - src
            full == left >= SLOTS * BLOCK
            k    == Least(SLOTS, Blocks(left))
            new  == [i \in 1..k |-> bits[i - 1]]
            made == written \o new
            e    == IF ~full /\ ek0 = "fed" THEN "ready" ELSE ek0
            u    == IF ~full /\ supp = "in_process" THEN "done" ELSE supp
            reads == {i \in 1..Blocks(args.inlen) : \E j \in DOMAIN Group : Group[j] = Cipher(i)}
<1>1. /\ pc = "encrypt" /\ pc' = IF LastGroup THEN "encrypt_finish" ELSE "encrypt"
      /\ capacity' = capacity /\ space' = space /\ ghash_cnt' = ghash_cnt /\ calls' = calls
      /\ args' = args /\ nondata' = nondata /\ more' = more
      /\ gdata' = Group
  BY DEF encrypt_round, context
<1>2. /\ Multiply(gdata) /\ Feed
      /\ src' = Least(args.inlen, src + SLOTS * BLOCK)
      /\ written' = made
      /\ mask' = IF ~full /\ ek0 = "fed" THEN bits[SLOTS - 1] ELSE mask
      /\ AESECB6_INIT(args.inlen - src', dst_ghash, args.sample, ctr, e, u)
  BY DEF encrypt_round
<1>3. fault' = CASE \E i \in reads : i > Len(made) -> "hashed_early"
                 [] supp' = "in_process" /\ args.sample > src' -> "sampled_early"
                 [] OTHER -> fault
  BY DEF encrypt_round
<1>4. /\ TypeOK /\ Lengths /\ ProgressInv /\ TableInv /\ fault = "none"
      /\ ctr \in Nat /\ args.sample \in Nat /\ bits \in [Slot -> Nat]
  BY LengthsAssumption DEF Inv, TypeOK, Lengths, NoFault
<1>5. /\ AadBlocks \in Nat /\ Payload \in Nat
      /\ AadDone \in Nat /\ AadDone <= AadBlocks /\ Fed \in Nat /\ Fed <= Payload
      /\ Src \in Nat /\ Src <= Payload /\ Blocks(left) = Payload - Src
      /\ fed \in 0..args.inlen /\ src \in 0..args.inlen
  BY <1>4, Counts
<1>6. /\ HashOK(hashed, entry) /\ (AadDone < AadBlocks => Fed = 0)
      /\ WrittenOK(written) /\ Len(written) = Src
      /\ (ek0 = "ready" => mask = 1)
      /\ ((supp = "unused") <=> (args.sample = None))
  BY <1>1 DEF Inv, HashInv, Running
<1>7. /\ gdata \in Seq(GBlock)
      /\ \A i \in 1..Len(gdata) : gdata[i] = BlockAt(Len(hashed) + i)
      /\ Len(hashed) + Len(gdata) = AadDone + Fed
      /\ Fed <= Src
  BY <1>1 DEF Inv, EncryptInv
<1>8. /\ \A i \in Slot : i < Payload - Src => bits[i] = Src + 2 + i
      /\ Payload - Src > SLOTS - 1 => ctr = Src + SLOTS + 1
      /\ ek0 = "none" <=> Payload - Src > SLOTS - 1
      /\ ek0 = "fed" => bits[SLOTS - 1] = 1
      /\ supp = "in_process" => args.sample <= src
      /\ ctr <= 1 + SLOTS + AadDone + Fed
  BY <1>1 DEF Inv, EncryptRoundInv
<1>9. k \in 0..SLOTS /\ k = Least(SLOTS, Payload - Src)
  BY <1>5 DEF Least, SLOTS
<1>10. full => Payload - Src >= SLOTS
  <2>1. left \in Nat /\ 5 * BLOCK \in Nat /\ BLOCK \in Nat /\ BLOCK > 0 /\ SLOTS = 6
    BY <1>4, <1>5, LengthsAssumption DEF Lengths, SLOTS
  <2>2. 6 * BLOCK > 5 * BLOCK /\ 6 * BLOCK \in Nat
    BY <2>1
  <2>3. Blocks(left) <= 5 <=> left <= 5 * BLOCK
    BY <2>1, BlocksAtMost
  <2>. QED  BY <1>5, <2>1, <2>2, <2>3
<1>11. /\ e \in {"none", "fed", "ready"} /\ e # "fed"
       /\ e = "none" <=> ek0 = "none"
  BY <1>4, <1>8, <1>10, <1>5 DEF TypeOK, SLOTS
<1>12. /\ u \in {"unused", "used", "in_process", "done"}
       /\ u = "unused" <=> supp = "unused"
       /\ u = "in_process" => supp = "in_process"
  BY <1>4 DEF TypeOK
<1>13. mask' \in Nat /\ (e = "ready" => mask' = 1)
  <2>1. mask \in Nat /\ bits[SLOTS - 1] \in Nat
    BY <1>4 DEF TypeOK, Slot, SLOTS
  <2>. QED  BY <1>2, <1>6, <1>8, <2>1
<1>14. /\ src' = At(args.inlen, Src') /\ Src' = Src + k
       /\ src' \in 0..args.inlen /\ Blocks(args.inlen - src') = Payload - Src'
       /\ Src' \in 0..Payload
  <2>1. SLOTS \in Nat
    BY DEF SLOTS
  <2>2. Least(Payload, Src + SLOTS) = Src + k
    BY <1>5, <1>9 DEF Least, SLOTS
  <2>3. /\ src' = At(args.inlen, Src') /\ Src' = Src + k
        /\ src' \in 0..args.inlen /\ Blocks(args.inlen - src') = Payload - Src'
    BY <1>2, <1>4, <2>1, <2>2, SrcMoves
  <2>. QED  BY <1>5, <1>9, <2>3 DEF Least, SLOTS
<1>15. WrittenOK(written)' /\ Len(written') = Src' /\ Len(made) = Src'
  <2>1. \A i \in 1..k : i - 1 \in Slot /\ i - 1 < Payload - Src /\ Src + 2 + (i - 1) = Src + i + 1
    BY <1>5, <1>9 DEF Least, Slot, SLOTS
  <2>2. new \in [1..k -> Nat] /\ \A i \in 1..k : new[i] = Len(written) + i + 1
    BY <1>4, <1>6, <1>8, <2>1
  <2>3. k \in Nat
    BY <1>9 DEF SLOTS
  <2>4. WrittenOK(made) /\ Len(made) = Len(written) + k
    BY <1>6, <2>2, <2>3, OutputGrows
  <2>. QED  BY <1>2, <1>6, <1>14, <2>4 DEF WrittenOK
<1>. HIDE DEF full, e, u, new, made, k, left
<1>16. dst_ghash \in Nat /\ dst_ghash <= fed
  <2>1. BLOCK \in Nat /\ BLOCK > 0 /\ fed \in Nat
    BY <1>4, <1>5, LengthsAssumption DEF Lengths
  <2>. QED  BY <2>1 DEF dst_ghash
<1>17. args.inlen - src' \in Nat
  BY <1>4, <1>14 DEF Lengths
<1>18. /\ ctr' \in Nat /\ ctr' <= ctr + SLOTS
       /\ Payload - Src' > SLOTS - 1 => ctr' = ctr + SLOTS
  BY <1>2, <1>4, <1>14, <1>16, <1>17, SlotsFilled
<1>19. /\ bits' \in [Slot -> Nat]
       /\ \A i \in Slot : i < Payload - Src' => bits'[i] = ctr + 1 + i
  BY <1>2, <1>4, <1>14, <1>16, <1>17, SlotsFilled, SMTT(30)
<1>20. /\ ek0' = IF Payload - Src' <= SLOTS - 1 /\ e = "none" THEN "fed" ELSE e
       /\ Payload - Src' <= SLOTS - 1 /\ e = "none" => bits'[SLOTS - 1] = 1
  BY <1>2, <1>4, <1>14, <1>16, <1>17, SlotsFilled
<1>21. supp' = u \/ (supp' = "in_process" /\ u = "used" /\ args.sample <= dst_ghash)
  BY <1>2, <1>4, <1>14, <1>16, <1>17, SlotsFilled
<1>22. /\ AadTaken \in 0..SLOTS /\ FedTaken \in 0..SLOTS /\ AadTaken + FedTaken <= SLOTS
       /\ AadDone + AadTaken <= AadBlocks /\ Fed + FedTaken <= Payload
       /\ AadTaken < SLOTS => AadDone + AadTaken = AadBlocks
       /\ AadTaken + FedTaken < SLOTS => Fed + FedTaken = Payload
       /\ FedTaken > 0 => AadDone + AadTaken = AadBlocks
  BY <1>4, Taken
<1>23. /\ AadDone' = AadDone + AadTaken /\ Fed' = Fed + FedTaken
       /\ aad' = At(args.aadlen, AadDone') /\ fed' = At(args.inlen, Fed')
  BY <1>1, <1>2, <1>4, FeedMoves
<1>24. AadBlocks' = AadBlocks /\ Payload' = Payload /\ \A i : BlockAt(i)' = BlockAt(i)
  BY <1>1 DEF AadBlocks, Payload, BlockAt
<1>25. Fed' <= Src'
  BY <1>5, <1>7, <1>9, <1>14, <1>22, <1>23 DEF Least, SLOTS
<1>26. HashOK(hashed, entry)' /\ Len(hashed') = AadDone + Fed
  <2>1. Len(hashed) + Len(gdata) <= AadBlocks + Payload + 1
    BY <1>5, <1>7
  <2>. QED  BY <1>1, <1>2, <1>5, <1>6, <1>7, <2>1, MultiplyHashes
<1>27. /\ Group \in Seq(GBlock) /\ Len(Group) = AadTaken + FedTaken
       /\ \A i \in 1..Len(Group) : Group[i] = BlockAt(AadDone + Fed + i)
  BY <1>4, <1>6, GroupIs
<1>28. supp' = "in_process" => args.sample <= src'
  <2>1. Fed <= Src' /\ Src <= Src' /\ Src' \in Nat
    BY <1>5, <1>7, <1>9, <1>14, SMTT(30)
  <2>2. fed <= src' /\ src <= src'
    <3>1. Fed * BLOCK <= Src' * BLOCK /\ Src * BLOCK <= Src' * BLOCK
      BY <1>5, <2>1, Times
    <3>2. Fed * BLOCK \in Nat /\ Src' * BLOCK \in Nat /\ Src * BLOCK \in Nat
      BY <1>5, <2>1, Times
    <3>3. /\ fed = At(args.inlen, Fed) /\ src = At(args.inlen, Src)
          /\ src' = At(args.inlen, Src') /\ args.inlen \in Nat
      BY <1>4, <1>14 DEF ProgressInv, Lengths
    <3>. QED  BY <3>1, <3>2, <3>3 DEF At, Least
  <2>3. src \in Nat /\ fed \in Nat /\ src' \in Nat
    BY <1>4, <1>5, <1>14 DEF Lengths
  <2>. QED  BY <1>4, <1>8, <1>12, <1>16, <1>21, <2>2, <2>3
<1>29. fault' = "none"
  <2>1. ASSUME NEW i \in reads PROVE i <= Len(made)
    <3>1. PICK j \in 1..(AadTaken + FedTaken) : Group[j] = Cipher(i)
      BY <1>27
    <3>2. i \in Nat
      OBVIOUS
    <3>3. j > AadTaken
      <4>1. j <= AadTaken => Group[j] = Aad(AadDone + j)
        BY DEF Group, AadDone
      <4>2. Aad(AadDone + j) # Cipher(i)
        BY DEF Aad, Cipher
      <4>3. ~(j <= AadTaken)
        BY <3>1, <4>1, <4>2
      <4>. QED  BY <1>22, <4>3 DEF SLOTS
    <3>4. Group[j] = Cipher(Fed + j - AadTaken)
      BY <1>22, <3>3 DEF Group, Fed, SLOTS
    <3>5. i = Fed + j - AadTaken
      BY <3>1, <3>4 DEF Cipher
    <3>. QED  BY <1>5, <1>14, <1>15, <1>22, <1>23, <1>25, <3>5 DEF SLOTS
  <2>2. args.sample \in Nat /\ src' \in Nat /\ Len(made) \in Nat
    BY <1>4, <1>5, <1>14, <1>15 DEF Lengths
  <2>3. ~\E i \in reads : i > Len(made)
    BY <2>1, <2>2
  <2>4. ~(supp' = "in_process" /\ args.sample > src')
    BY <1>28, <2>2
  <2>. HIDE DEF reads
  <2>. QED  BY <1>3, <1>4, <2>3, <2>4
<1>30. TypeOK'
  <2>1. aad' \in 0..args'.aadlen /\ fed' \in 0..args'.inlen
    <3>1. AadDone' \in 0..Blocks(args.aadlen) /\ Fed' \in 0..Blocks(args.inlen)
      BY <1>5, <1>22, <1>23 DEF AadBlocks, Payload, SLOTS
    <3>. QED  BY <1>1, <1>4, <1>23, <3>1, AtBlock DEF Lengths
  <2>2. entry' \in Nat
    <3>1. entry' = AadBlocks + Payload + 1 - Len(hashed')
      BY <1>24, <1>26 DEF HashOK
    <3>. QED  BY <1>5, <1>26, <3>1
  <2>3. Len(gdata') <= SLOTS
    BY <1>1, <1>22, <1>27
  <2>4. ek0' \in {"none", "fed", "ready"} /\ supp' \in {"unused", "used", "in_process", "done"}
    BY <1>11, <1>12, <1>20, <1>21
  <2>5. pc' \in {"encrypt", "encrypt_finish"}
    BY <1>1
  <2>. QED
    BY <1>1, <1>4, <1>13, <1>14, <1>18, <1>19, <2>1, <2>2, <2>3, <2>4, <2>5 DEF TypeOK
<1>31. NoFault' /\ GcmComputed'
  BY <1>1, <1>29 DEF NoFault, GcmComputed
<1>32. ctr' <= 1 + AadBlocks + Payload + 2 * SLOTS
  BY <1>4, <1>5, <1>8, <1>18 DEF SLOTS
<1>33. ProgressInv'
  BY <1>1, <1>5, <1>14, <1>22, <1>23, <1>24 DEF ProgressInv, SLOTS
<1>34. HashInv'
  <2>1. AadDone' < AadBlocks' => Fed' = 0
    <3>1. AadDone + AadTaken < AadBlocks => Fed + FedTaken = 0
      BY <1>5, <1>6, <1>22 DEF SLOTS
    <3>. QED  BY <1>23, <1>24, <3>1
  <2>2. ek0' = "ready" => mask' = 1
    BY <1>11, <1>13, <1>20
  <2>3. (supp' = "unused") <=> (args'.sample = None)
    BY <1>1, <1>6, <1>12, <1>21
  <2>. QED  BY <1>15, <1>26, <2>1, <2>2, <2>3 DEF HashInv
<1>35. EncryptInv'
  <2>1. (\A i \in 1..Len(gdata) : gdata[i] = BlockAt(Len(hashed) + i))'
    BY <1>1, <1>24, <1>26, <1>27
  <2>2. Len(hashed') + Len(gdata') = AadDone' + Fed'
    BY <1>1, <1>5, <1>22, <1>23, <1>26, <1>27, SMTT(30) DEF SLOTS
  <2>. QED  BY <1>1, <1>25, <1>27, <2>1, <2>2 DEF EncryptInv
<1>36. EncryptRoundInv'
  <2>. SUFFICES ASSUME pc' = "encrypt" PROVE EncryptRoundInv'
    BY DEF EncryptRoundInv
  <2>1. AadTaken + FedTaken = SLOTS
    BY <1>1, <1>22 DEF LastGroup, SLOTS
  <2>2. Payload - Src' > 0 => Src' = Src + SLOTS /\ ctr = Src' + 1
    BY <1>5, <1>8, <1>9, <1>14 DEF Least, SLOTS
  <2>3. \A i \in Slot : i < Payload' - Src' => bits'[i] = Src' + 2 + i
    BY <1>4, <1>5, <1>14, <1>19, <1>24, <2>2 DEF Slot, SLOTS
  <2>4. Payload' - Src' > SLOTS - 1 => ctr' = Src' + SLOTS + 1
    BY <1>5, <1>14, <1>18, <1>24, <2>2 DEF SLOTS
  <2>5. ek0' = "none" <=> Payload' - Src' > SLOTS - 1
    BY <1>5, <1>8, <1>9, <1>11, <1>14, <1>20, <1>24 DEF SLOTS
  <2>6. ek0' = "fed" => bits'[SLOTS - 1] = 1
    BY <1>11, <1>20
  <2>7. supp' = "in_process" => args'.sample <= src'
    BY <1>1, <1>28
  <2>8. ctr' <= 1 + SLOTS + AadDone' + Fed'
    BY <1>4, <1>5, <1>8, <1>18, <1>22, <1>23, <2>1 DEF SLOTS
  <2>. QED  BY <2>3, <2>4, <2>5, <2>6, <2>7, <2>8 DEF EncryptRoundInv
<1>37. EncryptFinishInv'
  <2>. SUFFICES ASSUME pc' = "encrypt_finish" PROVE EncryptFinishInv'
    BY DEF EncryptFinishInv
  <2>1. AadTaken + FedTaken < SLOTS
    BY <1>1 DEF LastGroup
  <2>2. AadDone' = AadBlocks' /\ Fed' = Payload' /\ Src' = Payload'
    BY <1>5, <1>14, <1>22, <1>23, <1>24, <1>25, <2>1 DEF SLOTS
  <2>3. ~(Payload - Src > SLOTS - 1)
    BY <1>5, <1>7, <1>22, <2>1 DEF SLOTS
  <2>4. ek0' = "ready"
    BY <1>8, <1>11, <1>20, <2>3
  <2>. QED  BY <2>2, <2>4 DEF EncryptFinishInv
<1>38. LoopsEnd'
  BY <1>1, <1>32 DEF LoopsEnd, AadBlocks, Payload
<1>39. TableInv'
  BY <1>1, <1>4, <1>5, <1>24, <1>26, TableKept DEF context
<1>40. DecryptInv' /\ DecryptRoundInv' /\ DecryptFinishInv'
  BY <1>1 DEF DecryptInv, DecryptRoundInv, DecryptFinishInv
<1>. QED
  BY <1>30, <1>31, <1>33, <1>34, <1>35, <1>36, <1>37, <1>38, <1>39, <1>40 DEF Inv

\* A call that has hashed and written everything has computed GCM.
LEMMA ComputedWhenDone ==
  ASSUME AadBlocks' \in Nat, Payload' \in Nat,
         HashOK(hashed, entry)', Len(hashed') = AadBlocks' + Payload' + 1,
         WrittenOK(written)', Len(written') = Payload', mask' = 1,
         (supp' = "done") = (args'.sample # None)
  PROVE  GcmComputed'
<1>1. hashed' = [i \in 1..(AadBlocks' + Payload' + 1) |-> Hashed(i)']
  <2>1. /\ hashed' \in Seq([block : GBlock, entry : Nat])
        /\ \A i \in 1..Len(hashed') : hashed'[i] = Hashed(i)'
    BY DEF HashOK
  <2>2. hashed' = [i \in 1..Len(hashed') |-> hashed'[i]]
    BY <2>1
  <2>. QED  BY <2>1, <2>2
<1>2. written' = [i \in 1..Payload' |-> i + 1]
  <2>1. written' \in Seq(Nat) /\ \A i \in 1..Len(written') : written'[i] = i + 1
    BY DEF WrittenOK
  <2>2. written' = [i \in 1..Len(written') |-> written'[i]]
    BY <2>1
  <2>. QED  BY <2>1, <2>2
<1>. QED  BY <1>1, <1>2 DEF GcmComputed, Hashed, BlockAt, AadBlocks, Payload

LEMMA EncryptFinishStep ==
  ASSUME Inv, encrypt_finish
  PROVE  Inv'
<1>1. /\ pc = "encrypt_finish" /\ pc' = "done"
      /\ capacity' = capacity /\ space' = space /\ ghash_cnt' = ghash_cnt /\ calls' = calls
      /\ args' = args /\ aad' = aad /\ fed' = fed /\ src' = src /\ ctr' = ctr /\ bits' = bits
      /\ gdata' = gdata /\ ek0' = ek0 /\ nondata' = nondata /\ more' = more
      /\ mask' = mask /\ written' = written
  BY DEF encrypt_finish, context
<1>2. /\ Multiply(Append(gdata, AC))
      /\ fault' = IF ek0 = "ready" THEN fault ELSE "ek0_not_ready"
      /\ supp' = IF supp = "unused" THEN supp ELSE "done"
  BY DEF encrypt_finish
<1>3. TypeOK /\ Lengths /\ ProgressInv /\ TableInv /\ fault = "none" /\ LoopsEnd
  BY LengthsAssumption DEF Inv, TypeOK, Lengths, NoFault
<1>4. AadBlocks \in Nat /\ Payload \in Nat
  BY <1>3, Counts
<1>5. /\ HashOK(hashed, entry) /\ WrittenOK(written) /\ Len(written) = Src
      /\ (ek0 = "ready" => mask = 1)
      /\ ((supp = "unused") <=> (args.sample = None))
  BY <1>1 DEF Inv, HashInv, Running
<1>6. /\ gdata \in Seq(GBlock)
      /\ \A i \in 1..Len(gdata) : gdata[i] = BlockAt(Len(hashed) + i)
      /\ Len(hashed) + Len(gdata) = AadDone + Fed
  BY <1>1 DEF Inv, EncryptInv
<1>7. AadDone = AadBlocks /\ Fed = Payload /\ Src = Payload /\ ek0 = "ready"
  BY <1>1 DEF Inv, EncryptFinishInv
<1>8. Len(hashed) \in Nat /\ Len(gdata) \in Nat
  BY <1>5, <1>6 DEF HashOK
<1>9. /\ Append(gdata, AC) \in Seq(GBlock) /\ Len(Append(gdata, AC)) = Len(gdata) + 1
      /\ \A i \in 1..(Len(gdata) + 1) : Append(gdata, AC)[i] = BlockAt(Len(hashed) + i)
  <2>1. AC \in GBlock
    BY DEF AC, GBlock
  <2>2. AC = BlockAt(Len(hashed) + (Len(gdata) + 1))
    BY <1>4, <1>6, <1>7, <1>8 DEF BlockAt
  <2>3. /\ Append(gdata, AC) \in Seq(GBlock) /\ Len(Append(gdata, AC)) = Len(gdata) + 1
        /\ Append(gdata, AC)[Len(gdata) + 1] = AC
        /\ \A i \in 1..Len(gdata) : Append(gdata, AC)[i] = gdata[i]
    BY <1>6, <2>1
  <2>4. \A i \in 1..(Len(gdata) + 1) : i \in 1..Len(gdata) \/ i = Len(gdata) + 1
    BY <1>8
  <2>. QED  BY <1>6, <2>2, <2>3, <2>4
<1>10. HashOK(hashed, entry)' /\ Len(hashed') = AadBlocks + Payload + 1
  <2>. DEFINE g == Append(gdata, AC)
  <2>1. /\ g \in Seq(GBlock) /\ Multiply(g)
        /\ \A i \in 1..Len(g) : g[i] = BlockAt(Len(hashed) + i)
        /\ Len(hashed) + Len(g) = AadBlocks + Payload + 1
    BY <1>2, <1>4, <1>6, <1>7, <1>8, <1>9
  <2>. HIDE DEF g
  <2>2. HashOK(hashed, entry)' /\ Len(hashed') = Len(hashed) + Len(g)
    BY <1>1, <1>4, <1>5, <2>1, MultiplyHashes
  <2>. QED  BY <2>1, <2>2
<1>11. AadBlocks' = AadBlocks /\ Payload' = Payload
  BY <1>1 DEF AadBlocks, Payload
<1>12. supp' = (IF args.sample = None THEN "unused" ELSE "done")
  BY <1>2, <1>5
<1>13. GcmComputed'
  <2>1. WrittenOK(written)' /\ mask' = 1
    BY <1>1, <1>5, <1>7 DEF WrittenOK
  <2>2. (supp' = "done") = (args'.sample # None)
    BY <1>1, <1>12
  <2>. QED  BY <1>1, <1>4, <1>5, <1>7, <1>10, <1>11, <2>1, <2>2, ComputedWhenDone
<1>14. TypeOK'
  <2>1. entry' \in Nat
    <3>1. entry' = AadBlocks + Payload + 1 - Len(hashed')
      BY <1>10, <1>11 DEF HashOK
    <3>. QED  BY <1>4, <1>10, <3>1
  <2>. QED  BY <1>1, <1>3, <1>12, <2>1 DEF TypeOK
<1>15. NoFault' /\ LoopsEnd'
  BY <1>1, <1>2, <1>3, <1>7 DEF NoFault, LoopsEnd
<1>16. ProgressInv'
  BY <1>1, <1>3 DEF ProgressInv, AadBlocks, Payload, AadDone, Fed, Src
<1>17. TableInv'
  BY <1>1, <1>3, <1>4, <1>10, <1>11, TableKept DEF context
<1>. QED
  BY <1>1, <1>13, <1>14, <1>15, <1>16, <1>17
     DEF Inv, HashInv, Running, EncryptInv, EncryptRoundInv, EncryptFinishInv,
         DecryptInv, DecryptRoundInv, DecryptFinishInv

LEMMA DecryptRoundStep ==
  ASSUME Inv, decrypt_round
  PROVE  Inv'
<1>. DEFINE left   == Blocks(args.inlen - src)
            free   == IF Nondata < SLOTS THEN SLOTS - Nondata ELSE 0
            stream == [i \in Slot |-> IF i >= Nondata THEN ctr + 1 + i - Nondata ELSE bits[i]]
            fast   == Nondata = 0 /\ args.inlen - src >= SLOTS * BLOCK
            last   == ~fast /\ free > 0 /\ left <= free
            n      == Least(left, free)
            group  == IF LastGroup /\ more THEN Append(Group, AC) ELSE Group
            known  == Blocks(fed) + FedTaken
            new    == [i \in 1..n |-> stream[Nondata + i - 1]]
<1>1. /\ pc = "decrypt" /\ pc' = IF last THEN "decrypt_finish" ELSE "decrypt"
      /\ capacity' = capacity /\ space' = space /\ ghash_cnt' = ghash_cnt /\ calls' = calls
      /\ args' = args /\ supp' = supp /\ nondata' = 0 /\ gdata' = group
  BY DEF decrypt_round, context
<1>2. /\ Multiply(group) /\ Feed
      /\ ctr' = ctr + free /\ bits' = stream
      /\ written' = written \o new
      /\ src' = Least(args.inlen, src + n * BLOCK)
  BY DEF decrypt_round
<1>3. /\ mask' = IF ~fast /\ ek0 = "fed" THEN stream[0] ELSE mask
      /\ ek0' = IF ~fast /\ ek0 = "fed" THEN "ready" ELSE ek0
      /\ fault' = IF Len(written) + n > known THEN "overwritten_early" ELSE fault
  BY DEF decrypt_round
<1>4. more' = (more /\ ~LastGroup)
  BY DEF decrypt_round
<1>5. /\ TypeOK /\ Lengths /\ ProgressInv /\ TableInv /\ fault = "none"
      /\ ctr \in Nat /\ args.sample \in Nat /\ bits \in [Slot -> Nat] /\ more \in BOOLEAN
  BY LengthsAssumption DEF Inv, TypeOK, Lengths, NoFault
<1>6. /\ AadBlocks \in Nat /\ Payload \in Nat
      /\ AadDone \in Nat /\ AadDone <= AadBlocks /\ Fed \in Nat /\ Fed <= Payload
      /\ Src \in Nat /\ Src <= Payload /\ left = Payload - Src
      /\ fed \in 0..args.inlen /\ src \in 0..args.inlen
  BY <1>5, Counts
<1>7. /\ HashOK(hashed, entry) /\ (AadDone < AadBlocks => Fed = 0)
      /\ WrittenOK(written) /\ Len(written) = Src
      /\ (ek0 = "ready" => mask = 1)
      /\ ((supp = "unused") <=> (args.sample = None))
  BY <1>1 DEF Inv, HashInv, Running
<1>8. /\ Src <= Fed /\ args.sample = None
      /\ more => Len(hashed) = AadDone + Fed
      /\ ~more => /\ Len(hashed) = AadBlocks + Payload + 1
                  /\ AadDone = AadBlocks /\ Fed = Payload
  BY <1>1 DEF Inv, DecryptInv
<1>9. /\ ctr = Src + 1
      /\ \/ ek0 = "fed" /\ nondata = 1 /\ bits[0] = 1
         \/ ek0 = "ready" /\ nondata = 0
  BY <1>1 DEF Inv, DecryptRoundInv
<1>10. /\ AadTaken \in 0..SLOTS /\ FedTaken \in 0..SLOTS /\ AadTaken + FedTaken <= SLOTS
       /\ AadDone + AadTaken <= AadBlocks /\ Fed + FedTaken <= Payload
       /\ AadTaken < SLOTS => AadDone + AadTaken = AadBlocks
       /\ AadTaken + FedTaken < SLOTS => Fed + FedTaken = Payload
       /\ FedTaken > 0 => AadDone + AadTaken = AadBlocks
  BY <1>5, Taken
<1>11. FedTaken = Least(SLOTS - AadTaken, Payload - Fed)
  BY <1>5, Counts DEF FedTaken
<1>12. Nondata \in Nat /\ Nondata >= AadTaken /\ (ek0 = "fed" => Nondata > 0)
  BY <1>9, <1>10 DEF Nondata, SLOTS
<1>13. /\ free \in 0..SLOTS /\ free <= SLOTS - AadTaken
       /\ n \in 0..SLOTS /\ n <= left /\ n <= free
       /\ n = left \/ n = free
  BY <1>6, <1>10, <1>12 DEF Least, SLOTS
<1>14. fast => free = SLOTS /\ left >= SLOTS
  <2>1. SLOTS * BLOCK = 6 * BLOCK /\ 6 * BLOCK > 5 * BLOCK /\ 5 * BLOCK \in Nat /\ SLOTS = 6
    BY LengthsAssumption DEF SLOTS
  <2>2. args.inlen - src \in Nat
    BY <1>5, <1>6 DEF Lengths
  <2>3. Blocks(args.inlen - src) <= 5 <=> args.inlen - src <= 5 * BLOCK
    BY <2>2, BlocksAtMost
  <2>4. Blocks(args.inlen - src) \in Nat
    BY <2>2, BlocksOf
  <2>5. fast => free = SLOTS
    BY DEF SLOTS
  <2>6. 6 * BLOCK \in Nat
    BY LengthsAssumption
  <2>7. args.inlen - src >= 6 * BLOCK => Blocks(args.inlen - src) >= 6
    BY <2>1, <2>2, <2>3, <2>4, <2>6
  <2>. QED  BY <2>1, <2>5, <2>7
<1>15. /\ ~last => n = free
       /\ last => n = left /\ AadTaken < SLOTS
  BY <1>6, <1>10, <1>12, <1>13, <1>14 DEF Least, SLOTS
<1>16. \A i \in 1..n : /\ Nondata + i - 1 \in Slot
                       /\ stream[Nondata + i - 1] = Src + i + 1
  <2>1. \A i \in 1..n : /\ Nondata + i - 1 \in Slot /\ Nondata + i - 1 >= Nondata
                        /\ ctr + 1 + (Nondata + i - 1) - Nondata = Src + i + 1
    BY <1>6, <1>9, <1>12, <1>13 DEF Slot, SLOTS
  <2>. QED  BY <2>1
<1>17. stream \in [Slot -> Nat] /\ (ek0 = "fed" => stream[0] = 1)
  <2>1. \A i \in Slot : i >= Nondata => ctr + 1 + i - Nondata \in Nat
    BY <1>5, <1>12 DEF Slot, SLOTS
  <2>2. ek0 = "fed" => ~(0 >= Nondata) /\ 0 \in Slot /\ bits[0] = 1
    BY <1>9, <1>12 DEF Slot, SLOTS
  <2>. QED  BY <1>5, <2>1, <2>2
<1>. HIDE DEF stream
<1>18. new \in [1..n -> Nat] /\ \A i \in 1..n : new[i] = Len(written) + i + 1
  BY <1>6, <1>7, <1>16, <1>17
<1>. HIDE DEF new
<1>19. /\ ek0' = "ready" /\ mask' = 1
  BY <1>3, <1>7, <1>9, <1>12, <1>17
<1>20. WrittenOK(written)' /\ Len(written') = Src + n
  <2>1. n \in Nat
    BY <1>13 DEF SLOTS
  <2>. HIDE DEF n
  <2>2. WrittenOK(written \o new) /\ Len(written \o new) = Src + n
    BY <1>7, <1>18, <2>1, OutputGrows
  <2>. QED  BY <1>2, <2>2 DEF WrittenOK
<1>21. /\ src' = At(args.inlen, Src') /\ Src' = Src + n /\ src' \in 0..args.inlen
       /\ Src' \in 0..Payload
  <2>1. n \in Nat /\ Least(Payload, Src + n) = Src + n /\ Src + n \in 0..Payload
    BY <1>6, <1>13 DEF Least, SLOTS
  <2>. HIDE DEF n
  <2>. QED  BY <1>2, <1>5, <2>1, SrcMoves
<1>22. /\ AadDone' = AadDone + AadTaken /\ Fed' = Fed + FedTaken
       /\ aad' = At(args.aadlen, AadDone') /\ fed' = At(args.inlen, Fed')
  BY <1>1, <1>2, <1>5, FeedMoves
<1>23. AadBlocks' = AadBlocks /\ Payload' = Payload
  BY <1>1 DEF AadBlocks, Payload
<1>. HIDE DEF left, free, fast, last, n, group
<1>24. Src' <= Fed'
  BY <1>6, <1>8, <1>10, <1>11, <1>13, <1>21, <1>22, SMTT(30) DEF Least, SLOTS
<1>25. fault' = "none"
  <2>1. Len(written) + n <= known
    BY <1>7, <1>21, <1>22, <1>24 DEF Fed
  <2>2. Len(written) + n \in Nat /\ known \in Nat
    BY <1>6, <1>7, <1>10, <1>13 DEF SLOTS, Fed
  <2>. HIDE DEF known
  <2>. QED  BY <1>3, <1>5, <2>1, <2>2
<1>26. /\ Group \in Seq(GBlock) /\ Len(Group) = AadTaken + FedTaken
       /\ \A i \in 1..Len(Group) : Group[i] = BlockAt(AadDone + Fed + i)
  BY <1>5, <1>7, GroupIs
<1>27. /\ group \in Seq(GBlock) /\ Len(group) <= SLOTS
       /\ \A i \in 1..Len(group) : group[i] = BlockAt(Len(hashed) + i)
       /\ Len(hashed) + Len(group) = IF more /\ ~LastGroup THEN AadDone' + Fed'
                                     ELSE AadBlocks + Payload + 1
  <2>1. CASE LastGroup /\ more
    <3>1. group = Append(Group, AC) /\ AadTaken + FedTaken < SLOTS
      BY <2>1 DEF group, LastGroup
    <3>2. AadDone + AadTaken = AadBlocks /\ Fed + FedTaken = Payload
      BY <1>10, <3>1 DEF SLOTS
    <3>3. AC \in GBlock /\ AC = BlockAt(Len(hashed) + (Len(Group) + 1))
      <4>1. AC \in GBlock
        BY DEF AC, GBlock
      <4>2. Len(hashed) + (Len(Group) + 1) = AadBlocks + Payload + 1
        BY <1>6, <1>8, <1>10, <1>26, <2>1, <3>2 DEF SLOTS
      <4>3. BlockAt(AadBlocks + Payload + 1) = AC
        BY <1>6 DEF BlockAt
      <4>. QED  BY <4>1, <4>2, <4>3
    <3>4. /\ Append(Group, AC) \in Seq(GBlock) /\ Len(Append(Group, AC)) = Len(Group) + 1
          /\ Append(Group, AC)[Len(Group) + 1] = AC
          /\ \A i \in 1..Len(Group) : Append(Group, AC)[i] = Group[i]
      BY <1>26, <3>3
    <3>5. Len(Group) \in Nat /\ Len(Group) < SLOTS
      BY <1>10, <1>26, <3>1 DEF SLOTS
    <3>6. \A i \in 1..(Len(Group) + 1) : i \in 1..Len(Group) \/ i = Len(Group) + 1
      BY <3>5
    <3>7. Len(hashed) + (Len(Group) + 1) = AadBlocks + Payload + 1
      BY <1>6, <1>8, <1>10, <1>26, <2>1, <3>2 DEF SLOTS
    <3>8. \A i \in 1..Len(Group) : Append(Group, AC)[i] = BlockAt(Len(hashed) + i)
      BY <1>8, <1>26, <2>1, <3>4
    <3>9. Len(Append(Group, AC)) <= SLOTS
      BY <3>4, <3>5 DEF SLOTS
    <3>. QED  BY <2>1, <3>1, <3>3, <3>4, <3>6, <3>7, <3>8, <3>9
  <2>2. CASE ~LastGroup /\ more
    <3>1. group = Group /\ Len(Group) <= SLOTS
      BY <1>10, <1>26, <2>2 DEF group
    <3>2. Len(hashed) + Len(group) = AadDone' + Fed'
      BY <1>6, <1>8, <1>10, <1>22, <1>26, <2>2, <3>1 DEF SLOTS
    <3>. QED  BY <1>8, <1>26, <2>2, <3>1, <3>2
  <2>3. CASE ~more
    <3>1. group = Group /\ AadTaken = 0 /\ FedTaken = 0
      BY <1>6, <1>8, <1>10, <2>3 DEF group, SLOTS
    <3>2. Len(group) = 0
      BY <1>26, <3>1
    <3>3. Len(hashed) + Len(group) = AadBlocks + Payload + 1
      BY <1>6, <1>8, <2>3, <3>2
    <3>. QED  BY <1>26, <2>3, <3>1, <3>2, <3>3 DEF SLOTS
  <2>. QED  BY <1>5, <2>1, <2>2, <2>3
<1>28. /\ HashOK(hashed, entry)'
       /\ Len(hashed') = IF more' THEN AadDone' + Fed' ELSE AadBlocks + Payload + 1
  <2>1. Len(hashed) + Len(group) <= AadBlocks + Payload + 1
    <3>1. /\ AadDone' \in Nat /\ AadDone' <= AadBlocks
          /\ Fed' \in Nat /\ Fed' <= Payload
      BY <1>6, <1>10, <1>22 DEF SLOTS
    <3>2. AadDone' + Fed' <= AadBlocks + Payload + 1
      <4>1. \A i, j, k, l \in Nat : i <= k /\ j <= l => i + j <= k + l + 1
        OBVIOUS
      <4>. QED  BY <1>6, <3>1, <4>1
    <3>3. Len(hashed) + Len(group) = AadDone' + Fed'
          \/ Len(hashed) + Len(group) = AadBlocks + Payload + 1
      BY <1>27
    <3>. QED  BY <1>6, <3>2, <3>3
  <2>2. HashOK(hashed, entry)' /\ Len(hashed') = Len(hashed) + Len(group)
    BY <1>1, <1>2, <1>6, <1>7, <1>27, <2>1, MultiplyHashes
  <2>. QED  BY <1>4, <1>27, <2>2
<1>29. TypeOK'
  <2>1. aad' \in 0..args'.aadlen /\ fed' \in 0..args'.inlen
    <3>1. AadDone' \in 0..Blocks(args.aadlen) /\ Fed' \in 0..Blocks(args.inlen)
      BY <1>6, <1>10, <1>22 DEF AadBlocks, Payload, SLOTS
    <3>. QED  BY <1>1, <1>5, <1>22, <3>1, AtBlock DEF Lengths
  <2>2. entry' \in Nat
    <3>1. /\ entry' = AadBlocks + Payload + 1 - Len(hashed')
          /\ Len(hashed') <= AadBlocks + Payload + 1
          /\ hashed' \in Seq([block : GBlock, entry : Nat])
      BY <1>23, <1>28 DEF HashOK
    <3>2. Len(hashed') \in Nat
      BY <3>1
    <3>. QED  BY <1>6, <3>1, <3>2
  <2>3. Len(gdata') <= SLOTS /\ ctr' \in Nat
    BY <1>1, <1>2, <1>5, <1>13, <1>27 DEF SLOTS
  <2>4. more' \in BOOLEAN
    BY <1>4
  <2>5. bits' \in [Slot -> Nat] /\ mask' \in Nat
    BY <1>2, <1>17, <1>19
  <2>6. pc' \in {"decrypt", "decrypt_finish"}
    BY <1>1
  <2>. QED
    BY <1>1, <1>5, <1>19, <1>21, <2>1, <2>2, <2>3, <2>4, <2>5, <2>6 DEF TypeOK
<1>30. NoFault' /\ GcmComputed'
  BY <1>1, <1>25 DEF NoFault, GcmComputed
<1>31. LoopsEnd'
  <2>1. ctr' <= 1 + AadBlocks + Payload + 2 * SLOTS
    BY <1>2, <1>6, <1>9, <1>13 DEF SLOTS
  <2>. QED  BY <1>1, <2>1 DEF LoopsEnd, AadBlocks, Payload
<1>32. ProgressInv'
  BY <1>1, <1>6, <1>10, <1>21, <1>22, <1>23 DEF ProgressInv, SLOTS
<1>33. HashInv'
  <2>1. AadDone' < AadBlocks' => Fed' = 0
    <3>1. AadDone + AadTaken < AadBlocks => Fed + FedTaken = 0
      BY <1>6, <1>7, <1>10 DEF SLOTS
    <3>. QED  BY <1>22, <1>23, <3>1
  <2>. QED  BY <1>1, <1>7, <1>19, <1>20, <1>21, <1>28, <2>1 DEF HashInv
<1>34. DecryptInv'
  <2>1. ~more' => AadDone' = AadBlocks' /\ Fed' = Payload'
    <3>1. LastGroup => AadDone + AadTaken = AadBlocks /\ Fed + FedTaken = Payload
      BY <1>10 DEF LastGroup, SLOTS
    <3>2. ~more => AadDone + AadTaken = AadBlocks /\ Fed + FedTaken = Payload
      BY <1>6, <1>8, <1>10 DEF SLOTS
    <3>. QED  BY <1>4, <1>22, <1>23, <3>1, <3>2
  <2>. QED  BY <1>1, <1>8, <1>23, <1>24, <1>28, <2>1 DEF DecryptInv
<1>35. DecryptRoundInv'
  <2>1. pc' = "decrypt" => ctr' = Src' + 1
    BY <1>1, <1>2, <1>6, <1>9, <1>13, <1>15, <1>21 DEF SLOTS
  <2>. QED  BY <1>1, <1>19, <2>1 DEF DecryptRoundInv
<1>36. DecryptFinishInv'
  <2>1. last => Src' = Payload /\ AadDone' = AadBlocks
    BY <1>6, <1>10, <1>13, <1>15, <1>21, <1>22 DEF SLOTS
  <2>2. last => Fed' = Payload
    BY <1>6, <1>10, <1>22, <1>24, <2>1 DEF SLOTS
  <2>. QED  BY <1>1, <1>19, <1>23, <2>1, <2>2 DEF DecryptFinishInv
<1>37. TableInv'
  BY <1>1, <1>5, <1>6, <1>23, <1>28, TableKept DEF context
<1>38. EncryptInv' /\ EncryptRoundInv' /\ EncryptFinishInv'
  BY <1>1 DEF EncryptInv, EncryptRoundInv, EncryptFinishInv
<1>. QED
  BY <1>29, <1>30, <1>31, <1>32, <1>33, <1>34, <1>35, <1>36, <1>37, <1>38 DEF Inv

LEMMA DecryptFinishStep ==
  ASSUME Inv, decrypt_finish
  PROVE  Inv'
<1>. DEFINE group == IF more THEN <<AC>> ELSE <<>>
<1>1. /\ pc = "decrypt_finish" /\ pc' = "done"
      /\ capacity' = capacity /\ space' = space /\ ghash_cnt' = ghash_cnt /\ calls' = calls
      /\ args' = args /\ aad' = aad /\ fed' = fed /\ src' = src /\ ctr' = ctr /\ bits' = bits
      /\ gdata' = gdata /\ ek0' = ek0 /\ supp' = supp /\ nondata' = nondata /\ more' = more
      /\ mask' = mask /\ written' = written
  BY DEF decrypt_finish, context
<1>2. /\ Multiply(group)
      /\ fault' = CASE ek0 # "ready" -> "still_first_run"
                    [] more /\ entry # 1 -> "table_not_used_up"
                    [] OTHER -> fault
  BY DEF decrypt_finish
<1>3. TypeOK /\ Lengths /\ ProgressInv /\ TableInv /\ fault = "none" /\ LoopsEnd
  BY LengthsAssumption DEF Inv, TypeOK, Lengths, NoFault
<1>4. AadBlocks \in Nat /\ Payload \in Nat
  BY <1>3, Counts
<1>5. /\ HashOK(hashed, entry) /\ WrittenOK(written) /\ Len(written) = Src
      /\ (ek0 = "ready" => mask = 1)
      /\ ((supp = "unused") <=> (args.sample = None))
  BY <1>1 DEF Inv, HashInv, Running
<1>6. /\ args.sample = None
      /\ more => Len(hashed) = AadDone + Fed
      /\ ~more => Len(hashed) = AadBlocks + Payload + 1
  BY <1>1 DEF Inv, DecryptInv
<1>7. AadDone = AadBlocks /\ Fed = Payload /\ Src = Payload /\ ek0 = "ready"
  BY <1>1 DEF Inv, DecryptFinishInv
<1>8. Len(hashed) \in Nat /\ entry = AadBlocks + Payload + 1 - Len(hashed)
  BY <1>5 DEF HashOK
<1>9. more => entry = 1
  BY <1>4, <1>6, <1>7, <1>8
<1>10. fault' = "none"
  BY <1>2, <1>3, <1>7, <1>9
<1>11. /\ group \in Seq(GBlock)
       /\ \A i \in 1..Len(group) : group[i] = BlockAt(Len(hashed) + i)
       /\ Len(hashed) + Len(group) = AadBlocks + Payload + 1
  <2>1. CASE more
    <3>1. AC \in GBlock
      BY DEF AC, GBlock
    <3>2. AC = BlockAt(Len(hashed) + 1)
      BY <1>4, <1>6, <1>7, <2>1 DEF BlockAt
    <3>3. <<AC>> \in Seq(GBlock) /\ Len(<<AC>>) = 1 /\ <<AC>>[1] = AC
      BY <3>1
    <3>4. \A i \in 1..1 : i = 1
      OBVIOUS
    <3>. QED  BY <1>4, <1>6, <1>7, <2>1, <3>2, <3>3, <3>4
  <2>2. CASE ~more
    <3>1. group = <<>> /\ <<>> \in Seq(GBlock) /\ Len(<<>>) = 0
      BY <2>2
    <3>2. \A i \in 1..0 : FALSE
      OBVIOUS
    <3>. QED  BY <1>4, <1>6, <2>2, <3>1, <3>2
  <2>. QED  BY <2>1, <2>2
<1>. HIDE DEF group
<1>12. HashOK(hashed, entry)' /\ Len(hashed') = AadBlocks + Payload + 1
  <2>1. HashOK(hashed, entry)' /\ Len(hashed') = Len(hashed) + Len(group)
    BY <1>1, <1>2, <1>4, <1>5, <1>11, MultiplyHashes
  <2>. QED  BY <1>11, <2>1
<1>13. AadBlocks' = AadBlocks /\ Payload' = Payload
  BY <1>1 DEF AadBlocks, Payload
<1>14. GcmComputed'
  <2>1. WrittenOK(written)' /\ mask' = 1
    BY <1>1, <1>5, <1>7 DEF WrittenOK
  <2>2. (supp' = "done") = (args'.sample # None)
    BY <1>1, <1>5, <1>6
  <2>. QED  BY <1>1, <1>4, <1>5, <1>7, <1>12, <1>13, <2>1, <2>2, ComputedWhenDone
<1>15. TypeOK'
  <2>1. entry' \in Nat
    <3>1. entry' = AadBlocks + Payload + 1 - Len(hashed')
      BY <1>12, <1>13 DEF HashOK
    <3>. QED  BY <1>4, <1>12, <3>1
  <2>. QED  BY <1>1, <1>3, <2>1 DEF TypeOK
<1>16. NoFault' /\ LoopsEnd'
  BY <1>1, <1>3, <1>10 DEF NoFault, LoopsEnd
<1>17. ProgressInv'
  BY <1>1, <1>3 DEF ProgressInv, AadDone, AadBlocks, Fed, Payload, Src
<1>18. TableInv'
  BY <1>1, <1>3, <1>4, <1>12, <1>13, TableKept DEF context
<1>19. /\ HashInv' /\ EncryptInv' /\ EncryptRoundInv' /\ EncryptFinishInv'
       /\ DecryptInv' /\ DecryptRoundInv' /\ DecryptFinishInv'
  BY <1>1 DEF HashInv, Running, EncryptInv, EncryptRoundInv, EncryptFinishInv, DecryptInv,
              DecryptRoundInv, DecryptFinishInv
<1>. QED
  BY <1>14, <1>15, <1>16, <1>17, <1>18, <1>19 DEF Inv

LEMMA StutterInv ==
  ASSUME Inv, UNCHANGED vars
  PROVE  Inv'
<1>1. /\ capacity' = capacity /\ space' = space /\ ghash_cnt' = ghash_cnt /\ calls' = calls
      /\ pc' = pc /\ args' = args /\ aad' = aad /\ fed' = fed /\ src' = src /\ ctr' = ctr
      /\ bits' = bits /\ gdata' = gdata /\ entry' = entry /\ ek0' = ek0 /\ supp' = supp
      /\ nondata' = nondata /\ more' = more /\ mask' = mask
      /\ hashed' = hashed /\ written' = written /\ fault' = fault
  BY DEF vars, context, locals
<1>2. AadBlocks' = AadBlocks /\ Payload' = Payload
      /\ AadDone' = AadDone /\ Fed' = Fed /\ Src' = Src
  BY <1>1 DEF AadBlocks, Payload, AadDone, Fed, Src
<1>3. TypeOK' /\ NoFault' /\ LoopsEnd' /\ GcmComputed'
  BY <1>1 DEF Inv, TypeOK, NoFault, LoopsEnd, GcmComputed
<1>4. ProgressInv' /\ TableInv'
  BY <1>1, <1>2 DEF Inv, ProgressInv, TableInv
<1>5. HashInv'
  BY <1>1, <1>2 DEF Inv, HashInv, Running, HashOK, WrittenOK, Hashed, BlockAt
<1>6. EncryptInv' /\ EncryptRoundInv' /\ EncryptFinishInv'
  BY <1>1, <1>2 DEF Inv, EncryptInv, EncryptRoundInv, EncryptFinishInv, BlockAt
<1>7. DecryptInv' /\ DecryptRoundInv' /\ DecryptFinishInv'
  BY <1>1, <1>2 DEF Inv, DecryptInv, DecryptRoundInv, DecryptFinishInv
<1>. QED  BY <1>3, <1>4, <1>5, <1>6, <1>7 DEF Inv

LEMMA NextInv == Inv /\ [Next]_vars => Inv'
<1>1. SUFFICES ASSUME Inv, [Next]_vars  PROVE Inv'
  OBVIOUS
<1>2. ASSUME NEW aadlen \in 0..MaxAad, NEW inlen \in 0..MaxPayload,
             encrypt_begin(aadlen, inlen, None)
      PROVE  Inv'
  <2>1. None \in Nat
    BY DEF None
  <2>. QED  BY <1>1, <1>2, <2>1, EncryptBeginInv
<1>3. ASSUME NEW aadlen \in 0..MaxAad, NEW inlen \in 0..MaxPayload, NEW at \in Samples,
             encrypt_begin(aadlen, inlen, at + BLOCK)
      PROVE  Inv'
  <2>1. at + BLOCK \in Nat
    BY LengthsAssumption
  <2>. QED  BY <1>1, <1>3, <2>1, EncryptBeginInv
<1>4. ASSUME NEW aadlen \in 0..MaxAad, NEW inlen \in 0..MaxPayload,
             decrypt_begin(aadlen, inlen)
      PROVE  Inv'
  BY <1>1, <1>4, DecryptBeginInv
<1>5. ASSUME encrypt_round  PROVE Inv'
  BY <1>1, <1>5, EncryptRoundStep
<1>6. ASSUME encrypt_finish  PROVE Inv'
  BY <1>1, <1>6, EncryptFinishStep
<1>7. ASSUME decrypt_round  PROVE Inv'
  BY <1>1, <1>7, DecryptRoundStep
<1>8. ASSUME decrypt_finish  PROVE Inv'
  BY <1>1, <1>8, DecryptFinishStep
<1>9. ASSUME return  PROVE Inv'
  BY <1>1, <1>9, ReturnInv
<1>10. ASSUME UNCHANGED vars  PROVE Inv'
  BY <1>1, <1>10, StutterInv
<1>. QED
  BY <1>1, <1>2, <1>3, <1>4, <1>5, <1>6, <1>7, <1>8, <1>9, <1>10 DEF Next

LEMMA InvAlways == Spec => []Inv
  BY InitInv, NextInv, PTL DEF Spec
-----------------------------------------------------------------------------
(***************************************************************************)
(* Neither function reads beyond the lengths it was given or collects more *)
(* than six blocks for a round, whatever AAD, payload and sample are.      *)
(***************************************************************************)
THEOREM TypeCorrect == Spec => []TypeOK
<1>1. Inv => TypeOK
  BY DEF Inv
<1>. QED  BY <1>1, InvAlways, PTL

(***************************************************************************)
(* For all lengths the assertions of ptls_fusion_aesgcm_encrypt and        *)
(* _decrypt hold, no ciphertext is hashed or sampled before it is written, *)
(* and none is overwritten before it is hashed.                            *)
(***************************************************************************)
THEOREM NeverAtFault == Spec => []NoFault
<1>1. Inv => NoFault
  BY DEF Inv
<1>. QED  BY <1>1, InvAlways, PTL

(***************************************************************************)
(* For all lengths, the six-block schedule of the two functions computes   *)
(* what GCM defines.                                                       *)
(***************************************************************************)
THEOREM ComputesGcm == Spec => []GcmComputed
<1>1. Inv => GcmComputed
  BY DEF Inv
<1>. QED  BY <1>1, InvAlways, PTL

(***************************************************************************)
(* The loops of the two functions compute a bounded number of AES blocks.  *)
(***************************************************************************)
THEOREM LoopsAreBounded == Spec => []LoopsEnd
<1>1. Inv => LoopsEnd
  BY DEF Inv
<1>. QED  BY <1>1, InvAlways, PTL

LEMMA BlocksOfTwo ==
  ASSUME NEW x \in Nat, NEW y \in Nat, NEW z \in Nat, x + y <= z
  PROVE  Blocks(x) + Blocks(y) <= Blocks(z) + 1
<1>. DEFINE a == Blocks(x)
            b == Blocks(y)
            c == Blocks(z)
<1>1. /\ a \in Nat /\ a * BLOCK < x + BLOCK
      /\ b \in Nat /\ b * BLOCK < y + BLOCK
      /\ c \in Nat /\ z <= c * BLOCK
  BY BlocksOf
<1>. HIDE DEF a, b, c
<1>2. (a + b) * BLOCK = a * BLOCK + b * BLOCK /\ (c + 2) * BLOCK = c * BLOCK + 2 * BLOCK
  BY <1>1, LengthsAssumption
<1>3. /\ BLOCK \in Nat /\ a * BLOCK \in Nat /\ b * BLOCK \in Nat /\ c * BLOCK \in Nat
      /\ 2 * BLOCK = BLOCK + BLOCK
  BY <1>1, Times
<1>4. (a + b) * BLOCK < (c + 2) * BLOCK
  BY <1>1, <1>2, <1>3
<1>5. c + 2 \in Nat /\ a + b \in Nat
  BY <1>1
<1>6. /\ c + 2 <= a + b => (c + 2) * BLOCK <= (a + b) * BLOCK
      /\ (a + b) * BLOCK \in Nat /\ (c + 2) * BLOCK \in Nat
  BY <1>5, Times
<1>7. ~(c + 2 <= a + b)
  BY <1>4, <1>6
<1>8. a + b <= c + 1
  BY <1>1, <1>7
<1>. QED  BY <1>8 DEF a, b, c

(***************************************************************************)
(* As long as no record is longer than what aesgcm_setup was asked for,    *)
(* every entry of the table that gfmul reads has been computed: the two    *)
(* entries that aesgcm_calc_ghash_cnt adds are enough for the lengths and  *)
(* for a second partial block.  For a longer record, ghash_cnt is not what *)
(* it takes, and the run fusion_capacity shows an entry that is missing.   *)
(***************************************************************************)
THEOREM TableIsEnough ==
  ASSUME MaxAad + MaxPayload <= INITIAL
  PROVE  Spec => []TableComputed
<1>1. Inv => TableComputed
  <2>. SUFFICES ASSUME Inv, NEW i \in DOMAIN hashed
                PROVE  hashed[i].entry < space /\ hashed[i].entry < ghash_cnt
    BY DEF TableComputed
  <2>1. /\ ghash_cnt = Blocks(INITIAL) + 2 /\ space \in Nat /\ space >= ghash_cnt
        /\ hashed[i].entry \in 0..(AadBlocks + Payload)
    BY DEF Inv, TableInv, aesgcm_calc_ghash_cnt
  <2>2. /\ args.aadlen \in Nat /\ args.inlen \in Nat /\ INITIAL \in Nat
        /\ args.aadlen + args.inlen <= INITIAL
    BY LengthsAssumption DEF Inv, TypeOK
  <2>3. AadBlocks + Payload <= Blocks(INITIAL) + 1
    BY <2>2, BlocksOfTwo DEF AadBlocks, Payload
  <2>4. AadBlocks \in Nat /\ Payload \in Nat /\ Blocks(INITIAL) \in Nat
    BY <2>2, BlocksOf DEF AadBlocks, Payload
  <2>. QED  BY <2>1, <2>3, <2>4
<1>. QED  BY <1>1, InvAlways, PTL
=============================================================================
