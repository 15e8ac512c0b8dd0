--------------------------- MODULE RecordsProofs ---------------------------
(***************************************************************************)
(* Proofs about Records, for every size of header, record and message,     *)
(* every script of messages, every setting and every way of cutting the    *)
(* bytes: the inductive invariant of the receiving half, the four          *)
(* invariants that follow from it, and the refinement of SecureChannel.    *)
(*                                                                         *)
(* The invariant describes the bytes that are on their way, recvbuf.rec    *)
(* and then the wire, as a stream of whole records (Stream) that carries   *)
(* the handshake stream from where the receiver stands (Received) to where *)
(* the peer stands (sent).  The refinement adds where the items are on     *)
(* that stream: a function counts the data and alerts before each byte.    *)
(***************************************************************************)
EXTENDS Records, FiniteSetTheorems, SequenceTheorems, TLAPS

-----------------------------------------------------------------------------
(* Sequences: the rest after the first n elements, and joining again.       *)
Drop(seq, n) == SubSeq(seq, n + 1, Len(seq))

(* What is left of a sequence after its first n elements.                   *)
LEMMA DropFacts ==
  ASSUME NEW T, NEW seq \in Seq(T), NEW n \in 0..Len(seq)
  PROVE  /\ Drop(seq, n) \in Seq(T)
         /\ Len(Drop(seq, n)) = Len(seq) - n
         /\ \A i \in 1..(Len(seq) - n) : Drop(seq, n)[i] = seq[n + i]
<1>1. Len(seq) \in Nat /\ \A i \in 1..Len(seq) : seq[i] \in T
  BY ElementOfSeq, LenProperties
<1>2. \A i \in (n + 1)..Len(seq) : seq[i] \in T
  BY <1>1
<1>3. n + 1 \in Int /\ Len(seq) \in Int
  BY <1>1
<1>4. /\ SubSeq(seq, n + 1, Len(seq)) \in Seq(T)
      /\ Len(SubSeq(seq, n + 1, Len(seq))) =
           IF n + 1 <= Len(seq) THEN Len(seq) - (n + 1) + 1 ELSE 0
      /\ \A i \in 1..(Len(seq) - (n + 1) + 1) :
           SubSeq(seq, n + 1, Len(seq))[i] = seq[(n + 1) + i - 1]
  BY <1>2, <1>3, SubSeqProperties
<1>. QED  BY <1>1, <1>4 DEF Drop

(* The first n elements of a sequence.                                      *)
LEMMA TakeFacts ==
  ASSUME NEW T, NEW seq \in Seq(T), NEW n \in 0..Len(seq)
  PROVE  /\ SubSeq(seq, 1, n) \in Seq(T)
         /\ Len(SubSeq(seq, 1, n)) = n
         /\ \A i \in 1..n : SubSeq(seq, 1, n)[i] = seq[i]
<1>1. Len(seq) \in Nat /\ \A i \in 1..Len(seq) : seq[i] \in T
  BY ElementOfSeq, LenProperties
<1>2. \A i \in 1..n : seq[i] \in T
  BY <1>1
<1>3. 1 \in Int /\ n \in Int
  BY <1>1
<1>4. /\ SubSeq(seq, 1, n) \in Seq(T)
      /\ Len(SubSeq(seq, 1, n)) = IF 1 <= n THEN n - 1 + 1 ELSE 0
      /\ \A i \in 1..(n - 1 + 1) : SubSeq(seq, 1, n)[i] = seq[1 + i - 1]
  BY <1>2, <1>3, SubSeqProperties
<1>. QED  BY <1>1, <1>4

(* Two sequences put behind one another, element by element.                *)
LEMMA ConcatFacts ==
  ASSUME NEW T, NEW a \in Seq(T), NEW b \in Seq(T)
  PROVE  /\ a \o b \in Seq(T)
         /\ Len(a \o b) = Len(a) + Len(b)
         /\ \A i \in 1..Len(a) : (a \o b)[i] = a[i]
         /\ \A i \in 1..Len(b) : (a \o b)[Len(a) + i] = b[i]
<1>1. Len(a) \in Nat /\ Len(b) \in Nat
  BY LenProperties
<1>2. /\ a \o b \in Seq(T)
      /\ Len(a \o b) = Len(a) + Len(b)
      /\ \A i \in 1..(Len(a) + Len(b)) :
           (a \o b)[i] = IF i <= Len(a) THEN a[i] ELSE b[i - Len(a)]
  BY ConcatProperties
<1>3. ASSUME NEW i \in 1..Len(b)  PROVE (a \o b)[Len(a) + i] = b[i]
  <2>1. Len(a) + i \in 1..(Len(a) + Len(b)) /\ ~(Len(a) + i <= Len(a)) /\ (Len(a) + i) - Len(a) = i
    BY <1>1
  <2>. QED  BY <1>2, <2>1
<1>. QED  BY <1>1, <1>2, <1>3

(* A function on 1..n is a sequence of length n.                            *)
LEMMA FunctionSeq ==
  ASSUME NEW T, NEW n \in Nat, NEW f \in [1..n -> T]
  PROVE  f \in Seq(T) /\ Len(f) = n
<1>1. f \in Seq(T) /\ DOMAIN f = 1..n
  BY SeqDef
<1>2. DOMAIN f = 1..Len(f) /\ Len(f) \in Nat
  BY <1>1, LenProperties
<1>3. 1..n = 1..Len(f)
  BY <1>1, <1>2
<1>4. \A k \in Nat : k \in 1..n <=> k \in 1..Len(f)
  BY <1>3
<1>5. n >= 1 => n <= Len(f)
  BY <1>2, <1>4
<1>6. Len(f) >= 1 => Len(f) <= n
  BY <1>2, <1>4
<1>. QED  BY <1>1, <1>2, <1>5, <1>6

(* What is cut off in front and put behind a: nothing is lost.              *)
LEMMA Rejoin ==
  ASSUME NEW T, NEW a \in Seq(T), NEW b \in Seq(T), NEW n \in 0..Len(b)
  PROVE  (a \o SubSeq(b, 1, n)) \o Drop(b, n) = a \o b
<1>. DEFINE x == SubSeq(b, 1, n)
            y == Drop(b, n)
<1>1. x \in Seq(T) /\ Len(x) = n /\ \A i \in 1..n : x[i] = b[i]
  BY TakeFacts
<1>2. y \in Seq(T) /\ Len(y) = Len(b) - n /\ \A i \in 1..(Len(b) - n) : y[i] = b[n + i]
  BY DropFacts
<1>3. Len(a) \in Nat /\ Len(b) \in Nat
  BY LenProperties
<1>. HIDE DEF x, y
<1>4. x \o y = b
  <2>1. /\ x \o y \in Seq(T) /\ Len(x \o y) = Len(b)
        /\ \A i \in 1..n : (x \o y)[i] = x[i]
        /\ \A i \in 1..(Len(b) - n) : (x \o y)[n + i] = y[i]
    BY <1>1, <1>2, <1>3, ConcatFacts
  <2>2. ASSUME NEW i \in 1..Len(b)  PROVE (x \o y)[i] = b[i]
    <3>1. CASE i <= n
      BY <1>1, <2>1, <3>1
    <3>2. CASE ~(i <= n)
      <4>1. i - n \in 1..(Len(b) - n) /\ n + (i - n) = i
        BY <1>3, <3>2
      <4>. QED  BY <1>2, <2>1, <4>1
    <3>. QED  BY <1>3, <3>1, <3>2
  <2>. QED  BY <2>1, <2>2, SeqEqual
<1>5. (a \o x) \o y = a \o (x \o y)
  BY <1>1, <1>2, ConcatAssociative
<1>. QED  BY <1>4, <1>5 DEF x, y

(* Dropping more than the first of two sequences.                           *)
LEMMA DropConcat ==
  ASSUME NEW T, NEW a \in Seq(T), NEW b \in Seq(T), NEW n \in 0..Len(b)
  PROVE  Drop(a \o b, Len(a) + n) = Drop(b, n)
<1>1. Len(a) \in Nat /\ Len(b) \in Nat
  BY LenProperties
<1>2. /\ a \o b \in Seq(T) /\ Len(a \o b) = Len(a) + Len(b)
      /\ \A i \in 1..Len(b) : (a \o b)[Len(a) + i] = b[i]
  BY ConcatFacts
<1>. DEFINE c == a \o b
            k == Len(a) + n
<1>3. k \in 0..Len(c)
  BY <1>1, <1>2
<1>. HIDE DEF c
<1>4. c \in Seq(T)
  BY <1>2 DEF c
<1>5. Drop(c, k) \in Seq(T) /\ Len(Drop(c, k)) = Len(c) - k
      /\ \A i \in 1..(Len(c) - k) : Drop(c, k)[i] = c[k + i]
  BY <1>3, <1>4, DropFacts
<1>6. Drop(b, n) \in Seq(T) /\ Len(Drop(b, n)) = Len(b) - n
      /\ \A i \in 1..(Len(b) - n) : Drop(b, n)[i] = b[n + i]
  BY DropFacts
<1>7. Len(c) - k = Len(b) - n
  BY <1>1, <1>2 DEF c
<1>8. ASSUME NEW i \in 1..(Len(b) - n)  PROVE Drop(c, k)[i] = Drop(b, n)[i]
  <2>1. n + i \in 1..Len(b) /\ k + i = Len(a) + (n + i)
    BY <1>1
  <2>. QED  BY <1>2, <1>5, <1>6, <1>7, <2>1 DEF c
<1>9. Drop(c, k) = Drop(b, n)
  BY <1>5, <1>6, <1>7, <1>8, SeqEqual
<1>. QED  BY <1>9 DEF c

-----------------------------------------------------------------------------
(* The handshake messages of the peer, as a value: they follow one another. *)
Messages == Seq([start : Nat, size : Sizes])

EndIn(ms, m)   == ms[m].start + ms[m].size
BaseOf(ms, n)  == IF n = 0 THEN 0 ELSE EndIn(ms, n)
TotalOf(ms)    == BaseOf(ms, Len(ms))
EndedOf(ms, p) == Cardinality({m \in DOMAIN ms : EndIn(ms, m) <= p})
EpochOf(ms, p) == Cardinality({m \in DOMAIN ms : Script[m] \in KeyChanging /\ EndIn(ms, m) <= p})
Changes(n)     == Cardinality({m \in 1..n : Script[m] \in KeyChanging})
Ends(n)        == Cardinality({m \in 1..n : Script[m] \in EndsRecord})

InRow(ms) ==
    /\ ms \in Messages
    /\ \A m \in 1..Len(ms) : ms[m].start = BaseOf(ms, m - 1)
    /\ \A m, n \in 1..Len(ms) : m < n => EndIn(ms, m) <= ms[n].start

(* What the model says of the messages composed so far, as operators of the *)
(* sequence of messages.                                                    *)
LEMMA AsValues ==
  ASSUME messages \in Messages
  PROVE  /\ Total = TotalOf(messages)
         /\ \A m : End(m) = EndIn(messages, m)
         /\ \A p : Ended(p) = EndedOf(messages, p)
         /\ \A p : EpochAt(p) = EpochOf(messages, p)
<1>1. \A m : End(m) = EndIn(messages, m)
  BY DEF End, EndIn
<1>2. Total = TotalOf(messages)
  <2>1. messages = <<>> <=> Len(messages) = 0
    BY EmptySeq, LenProperties DEF Messages
  <2>. QED  BY <1>1, <2>1 DEF Total, TotalOf, BaseOf
<1>3. \A p : Ended(p) = EndedOf(messages, p)
  BY <1>1 DEF Ended, EndedOf
<1>4. \A p : EpochAt(p) = EpochOf(messages, p)
  BY <1>1 DEF EpochAt, EpochOf
<1>. QED  BY <1>1, <1>2, <1>3, <1>4

(* A message has at least its header.                                       *)
LEMMA SizesFacts == \A size \in Sizes : size \in Nat /\ size >= MESS_HEADER /\ size >= 1
  BY SizesAssumption

(* Messages lie one behind the other in the handshake stream, each where    *)
(* the one before it ends.                                                  *)
LEMMA RowFacts ==
  ASSUME NEW ms, InRow(ms)
  PROVE  /\ Len(ms) \in Nat /\ DOMAIN ms = 1..Len(ms)
         /\ TotalOf(ms) \in Nat
         /\ \A n \in 0..Len(ms) : BaseOf(ms, n) \in Nat /\ BaseOf(ms, n) <= TotalOf(ms)
         /\ \A m \in 1..Len(ms) :
              /\ ms[m].start \in Nat /\ ms[m].size \in Sizes /\ EndIn(ms, m) \in Nat
              /\ ms[m].start < EndIn(ms, m) /\ EndIn(ms, m) <= TotalOf(ms)
              /\ EndIn(ms, m) = BaseOf(ms, m)
              /\ ms[m].start = BaseOf(ms, m - 1)
         /\ \A m, n \in 1..Len(ms) : m < n => EndIn(ms, m) <= ms[n].start
<1>1. Len(ms) \in Nat /\ DOMAIN ms = 1..Len(ms)
      /\ \A m \in 1..Len(ms) : ms[m] \in [start : Nat, size : Sizes]
  BY LenProperties, ElementOfSeq DEF InRow, Messages
<1>2. \A m \in 1..Len(ms) : ms[m].start \in Nat /\ ms[m].size \in Sizes /\ ms[m].size \in Nat
                            /\ ms[m].size >= 1
  BY <1>1, SizesFacts
<1>3. \A m \in 1..Len(ms) : EndIn(ms, m) \in Nat /\ ms[m].start < EndIn(ms, m)
  BY <1>2 DEF EndIn
<1>4. \A m, n \in 1..Len(ms) : m < n => EndIn(ms, m) <= ms[n].start
  BY DEF InRow
<1>5. \A m \in 1..Len(ms) : EndIn(ms, m) = BaseOf(ms, m) /\ ms[m].start = BaseOf(ms, m - 1)
  BY <1>1 DEF InRow, BaseOf
<1>6. TotalOf(ms) \in Nat
  BY <1>1, <1>3 DEF TotalOf, BaseOf
<1>7. ASSUME NEW m \in 1..Len(ms)  PROVE EndIn(ms, m) <= TotalOf(ms)
  <2>1. Len(ms) \in 1..Len(ms) /\ TotalOf(ms) = EndIn(ms, Len(ms))
    BY <1>1 DEF TotalOf, BaseOf
  <2>2. CASE m = Len(ms)
    BY <1>3, <2>1, <2>2
  <2>3. CASE m # Len(ms)
    <3>1. m < Len(ms)
      BY <1>1, <2>3
    <3>. QED  BY <1>2, <1>3, <1>4, <2>1, <3>1
  <2>. QED  BY <2>2, <2>3
<1>8. \A n \in 0..Len(ms) : BaseOf(ms, n) \in Nat /\ BaseOf(ms, n) <= TotalOf(ms)
  BY <1>1, <1>3, <1>6, <1>7 DEF BaseOf
<1>. QED  BY <1>1, <1>2, <1>3, <1>4, <1>5, <1>6, <1>7, <1>8

Added(ms, size) == Append(ms, [start |-> TotalOf(ms), size |-> size])

(* Composing one more message moves none of the earlier ones.               *)
LEMMA ComposeFacts ==
  ASSUME NEW ms, InRow(ms), NEW size \in Sizes
  PROVE  /\ Len(Added(ms, size)) = Len(ms) + 1
         /\ \A m \in 1..Len(ms) : Added(ms, size)[m] = ms[m]
         /\ Added(ms, size)[Len(ms) + 1] = [start |-> TotalOf(ms), size |-> size]
         /\ \A m \in 1..Len(ms) : EndIn(Added(ms, size), m) = EndIn(ms, m)
         /\ \A n \in 0..Len(ms) : BaseOf(Added(ms, size), n) = BaseOf(ms, n)
         /\ EndIn(Added(ms, size), Len(ms) + 1) = TotalOf(ms) + size
         /\ TotalOf(Added(ms, size)) = TotalOf(ms) + size
         /\ InRow(Added(ms, size))
<1>. DEFINE new == [start |-> TotalOf(ms), size |-> size]
            mt  == Added(ms, size)
<1>1. /\ Len(ms) \in Nat /\ TotalOf(ms) \in Nat
      /\ \A m \in 1..Len(ms) : EndIn(ms, m) \in Nat /\ EndIn(ms, m) <= TotalOf(ms)
      /\ \A m \in 1..Len(ms) : ms[m].start = BaseOf(ms, m - 1)
      /\ \A m, n \in 1..Len(ms) : m < n => EndIn(ms, m) <= ms[n].start
  BY RowFacts
<1>2. new \in [start : Nat, size : Sizes] /\ ms \in Seq([start : Nat, size : Sizes])
  BY <1>1 DEF InRow, Messages
<1>3. /\ mt \in Messages /\ Len(mt) = Len(ms) + 1
      /\ \A m \in 1..Len(ms) : mt[m] = ms[m]
      /\ mt[Len(ms) + 1] = new
  BY <1>2, AppendProperties DEF Added, Messages
<1>. HIDE DEF mt
<1>4. \A m \in 1..Len(ms) : EndIn(mt, m) = EndIn(ms, m)
  BY <1>3 DEF EndIn
<1>5. EndIn(mt, Len(ms) + 1) = TotalOf(ms) + size
  BY <1>3 DEF EndIn
<1>6. \A n \in 0..Len(ms) : BaseOf(mt, n) = BaseOf(ms, n)
  BY <1>1, <1>4 DEF BaseOf
<1>7. TotalOf(mt) = TotalOf(ms) + size
  BY <1>1, <1>3, <1>5 DEF TotalOf, BaseOf
<1>8. InRow(mt)
  <2>1. ASSUME NEW m \in 1..Len(mt)  PROVE mt[m].start = BaseOf(mt, m - 1)
    <3>1. CASE m \in 1..Len(ms)
      BY <1>1, <1>3, <1>6, <3>1
    <3>2. CASE m = Len(ms) + 1
      <4>1. mt[m].start = TotalOf(ms) /\ m - 1 = Len(ms) /\ Len(ms) \in 0..Len(ms)
        BY <1>1, <1>3, <3>2
      <4>. QED  BY <1>6, <4>1 DEF TotalOf
    <3>. QED  BY <1>1, <1>3, <3>1, <3>2
  <2>2. ASSUME NEW m \in 1..Len(mt), NEW n \in 1..Len(mt), m < n
        PROVE  EndIn(mt, m) <= mt[n].start
    <3>1. m \in 1..Len(ms)
      BY <1>1, <1>3, <2>2
    <3>2. CASE n \in 1..Len(ms)
      BY <1>1, <1>3, <1>4, <2>2, <3>1, <3>2
    <3>3. CASE n = Len(ms) + 1
      BY <1>1, <1>3, <1>4, <3>1, <3>3
    <3>. QED  BY <1>1, <1>3, <3>2, <3>3
  <2>. QED  BY <1>3, <2>1, <2>2 DEF InRow
<1>. QED  BY <1>3, <1>4, <1>5, <1>6, <1>7, <1>8 DEF mt

(* A message composed now changes neither the key nor the messages ended at *)
(* a position before its own end.                                           *)
LEMMA EpochStays ==
  ASSUME NEW ms, InRow(ms), NEW size \in Sizes, NEW p \in Nat, p < TotalOf(ms) + size
  PROVE  /\ EpochOf(Added(ms, size), p) = EpochOf(ms, p)
         /\ EndedOf(Added(ms, size), p) = EndedOf(ms, p)
<1>. DEFINE mt == Added(ms, size)
<1>1. /\ Len(ms) \in Nat /\ DOMAIN ms = 1..Len(ms) /\ TotalOf(ms) \in Nat
      /\ InRow(mt) /\ Len(mt) = Len(ms) + 1
      /\ \A m \in 1..Len(ms) : EndIn(mt, m) = EndIn(ms, m)
      /\ EndIn(mt, Len(ms) + 1) = TotalOf(ms) + size
  BY RowFacts, ComposeFacts
<1>. HIDE DEF mt
<1>2. DOMAIN mt = 1..(Len(ms) + 1)
  BY <1>1, RowFacts
<1>3. size \in Nat
  BY SizesFacts
<1>4. \A m \in 1..(Len(ms) + 1) : EndIn(mt, m) <= p => m \in 1..Len(ms)
  BY <1>1, <1>3
<1>5. {m \in DOMAIN mt : EndIn(mt, m) <= p} = {m \in DOMAIN ms : EndIn(ms, m) <= p}
  BY <1>1, <1>2, <1>4
<1>6. {m \in DOMAIN mt : Script[m] \in KeyChanging /\ EndIn(mt, m) <= p}
        = {m \in DOMAIN ms : Script[m] \in KeyChanging /\ EndIn(ms, m) <= p}
  BY <1>1, <1>2, <1>4
<1>. QED  BY <1>5, <1>6 DEF EpochOf, EndedOf, mt

(* Where the stream stands tells how many messages have ended, and so the   *)
(* key.                                                                     *)
LEMMA EndedIs ==
  ASSUME NEW ms, InRow(ms), NEW n \in 0..Len(ms), NEW p \in Nat, BaseOf(ms, n) <= p,
         n < Len(ms) => p < EndIn(ms, n + 1)
  PROVE  /\ \A m \in 1..Len(ms) : EndIn(ms, m) <= p <=> m <= n
         /\ EndedOf(ms, p) = n
         /\ EpochOf(ms, p) = Changes(n)
<1>1. /\ Len(ms) \in Nat /\ DOMAIN ms = 1..Len(ms)
      /\ \A m \in 1..Len(ms) : ms[m].start \in Nat /\ EndIn(ms, m) \in Nat /\ ms[m].start < EndIn(ms, m)
                               /\ EndIn(ms, m) = BaseOf(ms, m)
      /\ \A m, k \in 1..Len(ms) : m < k => EndIn(ms, m) <= ms[k].start
  BY RowFacts
<1>2. ASSUME NEW m \in 1..Len(ms)  PROVE EndIn(ms, m) <= p <=> m <= n
  <2>1. CASE m < n
    BY <1>1, <2>1
  <2>2. CASE m = n
    BY <1>1, <2>2
  <2>3. CASE m = n + 1
    BY <1>1, <2>3
  <2>4. CASE m > n + 1
    <3>1. n + 1 \in 1..Len(ms) /\ n + 1 < m
      BY <1>1, <2>4
    <3>2. p < EndIn(ms, n + 1) /\ EndIn(ms, n + 1) <= ms[m].start /\ ms[m].start < EndIn(ms, m)
      BY <1>1, <3>1
    <3>. QED  BY <1>1, <2>4, <3>1, <3>2
  <2>. QED  BY <1>1, <2>1, <2>2, <2>3, <2>4
<1>3. {m \in DOMAIN ms : EndIn(ms, m) <= p} = 1..n
  BY <1>1, <1>2
<1>4. Cardinality(1..n) = n
  BY FS_Interval
<1>5. {m \in DOMAIN ms : Script[m] \in KeyChanging /\ EndIn(ms, m) <= p}
        = {m \in 1..n : Script[m] \in KeyChanging}
  BY <1>1, <1>2
<1>. QED  BY <1>2, <1>3, <1>4, <1>5 DEF EndedOf, EpochOf, Changes

(* The messages that end at or before a position are the first ones.        *)
LEMMA EndedSet ==
  ASSUME NEW ms, InRow(ms), NEW p \in Nat
  PROVE  /\ EndedOf(ms, p) \in 0..Len(ms)
         /\ \A m \in 1..Len(ms) : EndIn(ms, m) <= p <=> m <= EndedOf(ms, p)
<1>. DEFINE E == {m \in DOMAIN ms : EndIn(ms, m) <= p}
            c == Cardinality(E)
<1>1. /\ Len(ms) \in Nat /\ DOMAIN ms = 1..Len(ms)
      /\ \A m \in 1..Len(ms) : ms[m].start \in Nat /\ EndIn(ms, m) \in Nat /\ ms[m].start < EndIn(ms, m)
      /\ \A m, k \in 1..Len(ms) : m < k => EndIn(ms, m) <= ms[k].start
  BY RowFacts
<1>2. \A m \in 1..Len(ms) : m \in E <=> EndIn(ms, m) <= p
  BY <1>1
<1>3. E \in SUBSET (1..Len(ms)) /\ IsFiniteSet(1..Len(ms)) /\ Cardinality(1..Len(ms)) = Len(ms)
  BY <1>1, FS_Interval
<1>4. ASSUME NEW m \in E, NEW k \in 1..m  PROVE k \in E
  <2>1. m \in 1..Len(ms) /\ k \in 1..Len(ms) /\ EndIn(ms, m) <= p
    BY <1>1
  <2>2. EndIn(ms, k) <= p
    <3>1. CASE k = m
      BY <2>1, <3>1
    <3>2. CASE k # m
      <4>1. k < m
        BY <1>1, <3>2
      <4>. QED  BY <1>1, <2>1, <4>1
    <3>. QED  BY <3>1, <3>2
  <2>. QED  BY <1>2, <2>1, <2>2
<1>. HIDE DEF E
<1>5. IsFiniteSet(E) /\ c \in Nat /\ c <= Len(ms)
  BY <1>3, FS_Subset, FS_CardinalityType
<1>6. c + 1 \notin E
  <2>1. SUFFICES ASSUME c + 1 \in E  PROVE FALSE
    OBVIOUS
  <2>2. 1..(c + 1) \in SUBSET E
    BY <1>4, <2>1
  <2>3. Cardinality(1..(c + 1)) <= c
    BY <1>5, <2>2, FS_Subset
  <2>4. Cardinality(1..(c + 1)) = c + 1
    BY <1>5, FS_Interval
  <2>. QED  BY <1>5, <2>3, <2>4
<1>7. E \in SUBSET (1..c)
  <2>1. SUFFICES ASSUME NEW m \in E, ~(m \in 1..c)  PROVE FALSE
    OBVIOUS
  <2>2. m \in Nat /\ c + 1 \in 1..m
    BY <1>3, <1>5, <2>1
  <2>. QED  BY <1>4, <1>6, <2>2
<1>8. IsFiniteSet(1..c) /\ Cardinality(1..c) = c
  BY <1>5, FS_Interval
<1>9. E = 1..c
  BY <1>7, <1>8, FS_Subset
<1>10. EndedOf(ms, p) = c
  BY DEF EndedOf, E
<1>. HIDE DEF c
<1>. QED  BY <1>1, <1>2, <1>5, <1>9, <1>10

(* The key changes, and those that insist on the end of a record, among the *)
(* first n + 1 messages.                                                    *)
LEMMA CountsStep ==
  ASSUME NEW n \in Nat
  PROVE  /\ Changes(n) \in Nat /\ Ends(n) \in Nat /\ Ends(n) <= Changes(n)
         /\ Changes(n + 1) = Changes(n) + (IF Script[n + 1] \in KeyChanging THEN 1 ELSE 0)
         /\ Ends(n + 1) = Ends(n) + (IF Script[n + 1] \in EndsRecord THEN 1 ELSE 0)
<1>. DEFINE C(k) == {m \in 1..k : Script[m] \in KeyChanging}
            E(k) == {m \in 1..k : Script[m] \in EndsRecord}
<1>1. IsFiniteSet(1..n)
  BY FS_Interval
<1>2. IsFiniteSet(C(n)) /\ IsFiniteSet(E(n)) /\ E(n) \in SUBSET C(n)
  <2>1. C(n) \in SUBSET (1..n) /\ E(n) \in SUBSET (1..n)
    OBVIOUS
  <2>2. E(n) \in SUBSET C(n)
    BY DEF EndsRecord, KeyChanging
  <2>. QED  BY <1>1, <2>1, <2>2, FS_Subset
<1>3. Cardinality(C(n)) \in Nat /\ Cardinality(E(n)) \in Nat /\ Cardinality(E(n)) <= Cardinality(C(n))
  BY <1>2, FS_Subset, FS_CardinalityType
<1>4. /\ C(n + 1) = IF Script[n + 1] \in KeyChanging THEN C(n) \cup {n + 1} ELSE C(n)
      /\ E(n + 1) = IF Script[n + 1] \in EndsRecord THEN E(n) \cup {n + 1} ELSE E(n)
  <2>1. \A k : k \in 1..(n + 1) <=> (k \in 1..n \/ k = n + 1)
    OBVIOUS
  <2>. QED  BY <2>1
<1>5. n + 1 \notin C(n) /\ n + 1 \notin E(n)
  OBVIOUS
<1>6. Changes(n) = Cardinality(C(n)) /\ Ends(n) = Cardinality(E(n))
      /\ Changes(n + 1) = Cardinality(C(n + 1)) /\ Ends(n + 1) = Cardinality(E(n + 1))
  BY DEF Changes, Ends
<1>. HIDE DEF C, E
<1>7. Cardinality(C(n) \cup {n + 1}) = Cardinality(C(n)) + 1
      /\ Cardinality(E(n) \cup {n + 1}) = Cardinality(E(n)) + 1
  BY <1>2, <1>5, FS_AddElement
<1>. QED  BY <1>3, <1>4, <1>6, <1>7

-----------------------------------------------------------------------------
(* Records on the wire, as values.  A record carries bytes of the handshake *)
(* stream from one position to another.                                     *)
RecordType == [type : Types \cup {"handshake"}, first : Nat, len : Nat, sealed : BOOLEAN,
               epoch : Nat]

Size(r)  == REC_HEADER + Length(r)
EndOf(r) == r.first + (IF r.type = "handshake" THEN r.len ELSE 0)

(* The record a byte belongs to is there from its first byte to its last.   *)
WholeAt(seq, j) ==
    /\ seq[j].i <= j /\ seq[j].i <= Size(seq[j].r)
    /\ (j - seq[j].i) + Size(seq[j].r) <= Len(seq)
    /\ \A i \in 1..Size(seq[j].r) : seq[(j - seq[j].i) + i] = [r |-> seq[j].r, i |-> i]

(* It starts where the one before it ended, and behind all earlier ones.    *)
OrderedAt(seq, j, from, to) ==
    /\ from <= seq[j].r.first /\ EndOf(seq[j].r) <= to
    /\ seq[j].i = 1 => seq[j].r.first = IF j = 1 THEN from ELSE EndOf(seq[j - 1].r)
    /\ \A k \in 1..(j - seq[j].i) : EndOf(seq[k].r) <= seq[j].r.first

(* Whole records that carry the stream between two positions.               *)
Stream(seq, from, to) ==
    /\ seq \in Seq(Byte) /\ from \in Nat /\ to \in Nat /\ from <= to
    /\ \A j \in 1..Len(seq) : WholeAt(seq, j) /\ OrderedAt(seq, j, from, to)
    /\ to = IF Len(seq) = 0 THEN from ELSE EndOf(seq[Len(seq)].r)

(* The length field of a record and its size on the wire.                   *)
LEMMA RecordFacts ==
  ASSUME NEW r \in RecordType
  PROVE  /\ Length(r) \in Nat /\ Size(r) \in Nat /\ Size(r) >= REC_HEADER /\ Size(r) >= 1
         /\ r.first \in Nat /\ r.len \in Nat /\ EndOf(r) \in Nat /\ r.first <= EndOf(r)
         /\ \A i \in Nat \ {0} : [r |-> r, i |-> i] \in Byte
<1>1. r.first \in Nat /\ r.len \in Nat /\ r.sealed \in BOOLEAN
  BY DEF RecordType
<1>2. REC_HEADER \in Nat /\ REC_HEADER >= 1 /\ OVERHEAD \in Nat
  BY SizesAssumption
<1>3. Length(r) \in Nat
  BY <1>1, <1>2 DEF Length
<1>4. \A i \in Nat \ {0} : [r |-> r, i |-> i] \in Byte
  BY DEF Byte, RecordType
<1>. QED  BY <1>1, <1>2, <1>3, <1>4 DEF Size, EndOf

(* A byte on the wire is a record and a place in it.                        *)
LEMMA ByteFacts ==
  ASSUME NEW b \in Byte
  PROVE  b.r \in RecordType /\ b.i \in Nat /\ b.i >= 1 /\ b = [r |-> b.r, i |-> b.i]
  BY DEF Byte, RecordType

(* The bytes of one record are a stream of whole records.                   *)
LEMMA OneRecord ==
  ASSUME NEW r \in RecordType
  PROVE  LET seq == [i \in 1..Size(r) |-> [r |-> r, i |-> i]]
         IN  /\ Stream(seq, r.first, EndOf(r))
             /\ Len(seq) = Size(r) /\ \A j \in 1..Size(r) : seq[j] = [r |-> r, i |-> j]
<1>. DEFINE seq == [i \in 1..Size(r) |-> [r |-> r, i |-> i]]
<1>1. /\ Size(r) \in Nat /\ Size(r) >= 1
      /\ r.first \in Nat /\ EndOf(r) \in Nat /\ r.first <= EndOf(r)
      /\ \A i \in Nat \ {0} : [r |-> r, i |-> i] \in Byte
  BY RecordFacts
<1>2. seq \in Seq(Byte) /\ Len(seq) = Size(r)
  <2>1. seq \in [1..Size(r) -> Byte]
    BY <1>1
  <2>. QED  BY <1>1, <2>1, FunctionSeq
<1>3. \A j \in 1..Size(r) : seq[j] = [r |-> r, i |-> j]
  OBVIOUS
<1>4. \A j \in 1..Size(r) : seq[j].r = r /\ seq[j].i = j
  OBVIOUS
<1>. HIDE DEF seq
<1>5. ASSUME NEW j \in 1..Len(seq)  PROVE WholeAt(seq, j) /\ OrderedAt(seq, j, r.first, EndOf(r))
  <2>1. j \in Nat /\ seq[j].r = r /\ seq[j].i = j /\ j - j = 0 /\ j <= Size(r)
    BY <1>1, <1>2, <1>4
  <2>2. WholeAt(seq, j)
    BY <1>1, <1>2, <1>3, <2>1 DEF WholeAt
  <2>3. OrderedAt(seq, j, r.first, EndOf(r))
    BY <1>1, <2>1 DEF OrderedAt
  <2>. QED  BY <2>2, <2>3
<1>6. EndOf(r) = IF Len(seq) = 0 THEN r.first ELSE EndOf(seq[Len(seq)].r)
  BY <1>1, <1>2, <1>4
<1>7. Stream(seq, r.first, EndOf(r))
  BY <1>1, <1>2, <1>5, <1>6 DEF Stream
<1>. QED  BY <1>2, <1>3, <1>7 DEF seq

(* A stream behind another that ends where it starts is a stream: what the  *)
(* peer sends may be put behind what is on the way.                         *)
LEMMA ConcatStreams ==
  ASSUME NEW a, NEW b, NEW x, NEW y, NEW z, Stream(a, x, y), Stream(b, y, z)
  PROVE  Stream(a \o b, x, z)
<1>. DEFINE c == a \o b
            n == Len(a)
<1>1. a \in Seq(Byte) /\ b \in Seq(Byte) /\ x \in Nat /\ y \in Nat /\ z \in Nat
      /\ x <= y /\ y <= z /\ n \in Nat /\ Len(b) \in Nat
  BY LenProperties DEF Stream
<1>2. /\ c \in Seq(Byte) /\ Len(c) = n + Len(b)
      /\ \A i \in 1..n : c[i] = a[i]
      /\ \A i \in 1..Len(b) : c[n + i] = b[i]
  BY <1>1, ConcatFacts
<1>3. /\ \A j \in 1..n : a[j] \in Byte /\ a[j].r \in RecordType /\ a[j].i \in Nat /\ a[j].i >= 1
      /\ \A j \in 1..Len(b) : b[j] \in Byte /\ b[j].r \in RecordType /\ b[j].i \in Nat /\ b[j].i >= 1
  BY <1>1, ElementOfSeq, ByteFacts
<1>4. /\ \A j \in 1..n : WholeAt(a, j) /\ OrderedAt(a, j, x, y)
      /\ \A j \in 1..Len(b) : WholeAt(b, j) /\ OrderedAt(b, j, y, z)
      /\ y = IF n = 0 THEN x ELSE EndOf(a[n].r)
      /\ z = IF Len(b) = 0 THEN y ELSE EndOf(b[Len(b)].r)
  BY DEF Stream
<1>. HIDE DEF c
<1>5. ASSUME NEW j \in 1..n  PROVE WholeAt(c, j) /\ OrderedAt(c, j, x, z)
  <2>1. c[j] = a[j] /\ a[j].i \in Nat /\ a[j].i >= 1 /\ Size(a[j].r) \in Nat
        /\ EndOf(a[j].r) \in Nat /\ j \in Nat /\ j <= n
    BY <1>1, <1>2, <1>3, RecordFacts
  <2>2. /\ a[j].i <= j /\ a[j].i <= Size(a[j].r)
        /\ (j - a[j].i) + Size(a[j].r) <= n
        /\ \A i \in 1..Size(a[j].r) : a[(j - a[j].i) + i] = [r |-> a[j].r, i |-> i]
    BY <1>4 DEF WholeAt
  <2>3. \A i \in 1..Size(a[j].r) : (j - a[j].i) + i \in 1..n
    BY <1>1, <2>1, <2>2, SMTT(30)
  <2>4. WholeAt(c, j)
    <3>1. \A i \in 1..Size(a[j].r) : c[(j - a[j].i) + i] = [r |-> a[j].r, i |-> i]
      BY <1>2, <2>2, <2>3
    <3>2. (j - a[j].i) + Size(a[j].r) <= Len(c)
      BY <1>1, <1>2, <2>1, <2>2
    <3>. QED  BY <2>1, <2>2, <3>1, <3>2 DEF WholeAt
  <2>5. OrderedAt(c, j, x, z)
    <3>1. OrderedAt(a, j, x, y)
      BY <1>4
    <3>2. \A k \in 1..(j - a[j].i) : k \in 1..n /\ c[k] = a[k]
      BY <1>1, <1>2, <2>1, <2>2, SMTT(30)
    <3>3. j # 1 => c[j - 1] = a[j - 1]
      <4>1. j # 1 => j - 1 \in 1..n
        BY <2>1
      <4>. QED  BY <1>2, <4>1
    <3>. QED  BY <1>1, <2>1, <3>1, <3>2, <3>3, SMTT(30) DEF OrderedAt
  <2>. QED  BY <2>4, <2>5
<1>6. ASSUME NEW j \in 1..Len(b)  PROVE WholeAt(c, n + j) /\ OrderedAt(c, n + j, x, z)
  <2>1. c[n + j] = b[j] /\ b[j].i \in Nat /\ b[j].i >= 1 /\ Size(b[j].r) \in Nat
        /\ EndOf(b[j].r) \in Nat /\ b[j].r.first \in Nat /\ j \in Nat /\ j <= Len(b)
    BY <1>1, <1>2, <1>3, RecordFacts, SMTT(30)
  <2>2. /\ b[j].i <= j /\ b[j].i <= Size(b[j].r)
        /\ (j - b[j].i) + Size(b[j].r) <= Len(b)
        /\ \A i \in 1..Size(b[j].r) : b[(j - b[j].i) + i] = [r |-> b[j].r, i |-> i]
    BY <1>4 DEF WholeAt
  <2>3. ASSUME NEW i \in 1..Size(b[j].r)
        PROVE  /\ (j - b[j].i) + i \in 1..Len(b)
               /\ ((n + j) - b[j].i) + i = n + ((j - b[j].i) + i)
    <3>1. /\ n \in Nat /\ j \in Nat /\ Len(b) \in Nat /\ b[j].i \in Nat /\ Size(b[j].r) \in Nat
          /\ b[j].i <= j /\ (j - b[j].i) + Size(b[j].r) <= Len(b)
      BY <1>1, <2>1, <2>2
    <3>. QED  BY ONLY <3>1, i \in 1..Size(b[j].r), SMTT(30)
  <2>4. \A i \in 1..Size(b[j].r) : c[((n + j) - b[j].i) + i] = [r |-> b[j].r, i |-> i]
    BY <1>2, <2>2, <2>3
  <2>5. b[j].i <= n + j /\ ((n + j) - b[j].i) + Size(b[j].r) <= Len(c)
    BY <1>1, <1>2, <2>1, <2>2, SMTT(30)
  <2>6. WholeAt(c, n + j)
    BY <2>1, <2>2, <2>4, <2>5 DEF WholeAt
  <2>7. /\ y <= b[j].r.first /\ EndOf(b[j].r) <= z
        /\ b[j].i = 1 => b[j].r.first = IF j = 1 THEN y ELSE EndOf(b[j - 1].r)
        /\ \A k \in 1..(j - b[j].i) : EndOf(b[k].r) <= b[j].r.first
    BY <1>4 DEF OrderedAt
  <2>8. ASSUME b[j].i = 1
        PROVE  b[j].r.first = IF n + j = 1 THEN x ELSE EndOf(c[(n + j) - 1].r)
    <3>1. CASE j = 1
      <4>1. b[j].r.first = y /\ (n + j) - 1 = n
        BY <1>1, <2>7, <2>8, <3>1
      <4>2. n # 0 => n \in 1..n /\ c[n] = a[n]
        BY <1>1, <1>2
      <4>3. CASE n = 0
        BY <1>4, <3>1, <4>1, <4>3
      <4>4. CASE n # 0
        <5>1. n + j # 1
          BY <1>1, <3>1, <4>4
        <5>. QED  BY <1>4, <4>1, <4>2, <4>4, <5>1
      <4>. QED  BY <4>3, <4>4
    <3>2. CASE j # 1
      <4>1. j - 1 \in 1..Len(b) /\ (n + j) - 1 = n + (j - 1) /\ n + j # 1
        BY <1>1, <2>1, <3>2, SMTT(30)
      <4>. QED  BY <1>2, <2>7, <2>8, <3>2, <4>1
    <3>. QED  BY <3>1, <3>2
  <2>9. ASSUME NEW k \in 1..((n + j) - b[j].i)  PROVE EndOf(c[k].r) <= b[j].r.first
    <3>1. CASE k \in 1..n
      <4>1. c[k] = a[k] /\ EndOf(a[k].r) <= y /\ EndOf(a[k].r) \in Nat
        BY <1>2, <1>3, <1>4, <3>1, RecordFacts DEF OrderedAt
      <4>. QED  BY <1>1, <2>1, <2>7, <4>1
    <3>2. CASE k \notin 1..n
      <4>1. k - n \in 1..(j - b[j].i) /\ k - n \in 1..Len(b) /\ k = n + (k - n)
        BY <1>1, <2>1, <2>2, <3>2, SMTT(30)
      <4>2. c[n + (k - n)] = b[k - n]
        BY <1>2, <4>1
      <4>. QED  BY <2>7, <4>1, <4>2
    <3>. QED  BY <3>1, <3>2
  <2>10. x <= b[j].r.first
    BY <1>1, <2>1, <2>7
  <2>11. OrderedAt(c, n + j, x, z)
    BY <2>1, <2>7, <2>8, <2>9, <2>10 DEF OrderedAt
  <2>. QED  BY <2>6, <2>11
<1>7. ASSUME NEW j \in 1..Len(c)  PROVE WholeAt(c, j) /\ OrderedAt(c, j, x, z)
  <2>1. CASE j \in 1..n
    BY <1>5, <2>1
  <2>2. CASE j \notin 1..n
    <3>1. j - n \in 1..Len(b) /\ n + (j - n) = j
      BY <1>1, <1>2, <2>2
    <3>. QED  BY <1>6, <3>1
  <2>. QED  BY <2>1, <2>2
<1>8. z = IF Len(c) = 0 THEN x ELSE EndOf(c[Len(c)].r)
  <2>1. CASE Len(b) = 0
    <3>1. Len(c) = n /\ (n # 0 => n \in 1..n)
      BY <1>1, <1>2, <2>1
    <3>. QED  BY <1>2, <1>4, <2>1, <3>1
  <2>2. CASE Len(b) # 0
    <3>1. Len(c) # 0 /\ Len(b) \in 1..Len(b) /\ Len(c) = n + Len(b)
      BY <1>1, <1>2, <2>2
    <3>. QED  BY <1>2, <1>4, <2>2, <3>1
  <2>. QED  BY <2>1, <2>2
<1>9. x <= z
  BY <1>1
<1>10. Stream(c, x, z)
  BY <1>1, <1>2, <1>7, <1>8, <1>9 DEF Stream
<1>. QED  BY <1>10 DEF c

(* The first record of a stream, and the stream behind it.                  *)
LEMMA FirstRecord ==
  ASSUME NEW seq, NEW from, NEW to, Stream(seq, from, to), Len(seq) # 0
  PROVE  /\ seq[1].r \in RecordType /\ seq[1].i = 1 /\ seq[1].r.first = from
         /\ Size(seq[1].r) <= Len(seq) /\ EndOf(seq[1].r) <= to
         /\ \A i \in 1..Size(seq[1].r) : seq[i] = [r |-> seq[1].r, i |-> i]
         /\ Stream(Drop(seq, Size(seq[1].r)), EndOf(seq[1].r), to)
<1>. DEFINE r == seq[1].r
            n == Size(r)
            d == Drop(seq, n)
<1>1. /\ seq \in Seq(Byte) /\ from \in Nat /\ to \in Nat /\ from <= to
      /\ Len(seq) \in Nat /\ 1 \in 1..Len(seq)
      /\ \A j \in 1..Len(seq) : WholeAt(seq, j) /\ OrderedAt(seq, j, from, to)
      /\ to = EndOf(seq[Len(seq)].r)
  BY LenProperties DEF Stream
<1>2. \A j \in 1..Len(seq) : /\ seq[j] \in Byte /\ seq[j].r \in RecordType
                             /\ seq[j].i \in Nat /\ seq[j].i >= 1
  BY <1>1, ElementOfSeq, ByteFacts
<1>3. r \in RecordType /\ seq[1].i = 1
  BY <1>1, <1>2 DEF WholeAt
<1>4. n \in Nat /\ n >= 1 /\ EndOf(r) \in Nat
  BY <1>3, RecordFacts
<1>5. /\ n <= Len(seq)
      /\ \A i \in 1..n : seq[i] = [r |-> r, i |-> i]
  <2>1. /\ (1 - 1) + n <= Len(seq)
        /\ \A i \in 1..n : seq[(1 - 1) + i] = [r |-> r, i |-> i]
    BY <1>1, <1>3 DEF WholeAt
  <2>2. (1 - 1) + n = n /\ \A i \in 1..n : (1 - 1) + i = i
    BY <1>4
  <2>. QED  BY <2>1, <2>2
<1>6. r.first = from /\ EndOf(r) <= to
  BY <1>1, <1>3 DEF OrderedAt
<1>. HIDE DEF r, n, d
<1>7. n \in 0..Len(seq)
  BY <1>1, <1>4, <1>5
<1>8. /\ d \in Seq(Byte) /\ Len(d) = Len(seq) - n
      /\ \A j \in 1..(Len(seq) - n) : d[j] = seq[n + j]
  BY <1>1, <1>7, DropFacts DEF d
<1>9. ASSUME NEW j \in 1..Len(d)  PROVE WholeAt(d, j) /\ OrderedAt(d, j, EndOf(r), to)
  <2>. DEFINE b == seq[n + j]
  <2>1. n + j \in 1..Len(seq) /\ d[j] = b /\ j \in Nat /\ j >= 1 /\ n + j \in Nat
    BY <1>1, <1>4, <1>5, <1>8
  <2>2. b \in Byte /\ b.r \in RecordType /\ b.i \in Nat /\ b.i >= 1
    BY <1>2, <2>1
  <2>3. Size(b.r) \in Nat /\ Size(b.r) >= 1 /\ EndOf(b.r) \in Nat /\ b.r.first \in Nat
    BY <2>2, RecordFacts
  <2>4. /\ b.i <= n + j /\ b.i <= Size(b.r)
        /\ ((n + j) - b.i) + Size(b.r) <= Len(seq)
        /\ \A i \in 1..Size(b.r) : seq[((n + j) - b.i) + i] = [r |-> b.r, i |-> i]
    BY <1>1, <2>1 DEF WholeAt
  <2>5. /\ EndOf(b.r) <= to
        /\ b.i = 1 => b.r.first = IF n + j = 1 THEN from ELSE EndOf(seq[(n + j) - 1].r)
        /\ \A k \in 1..((n + j) - b.i) : EndOf(seq[k].r) <= b.r.first
    BY <1>1, <2>1 DEF OrderedAt
  <2>. HIDE DEF b
  <2>6. b.i <= j
    <3>1. SUFFICES ASSUME b.i > j  PROVE FALSE
      BY <2>1, <2>2
    <3>. DEFINE k == (n + j) - b.i + 1
    <3>2. k \in 1..n /\ k = ((n + j) - b.i) + 1 /\ 1 \in 1..Size(b.r)
      BY <1>4, <2>1, <2>2, <2>3, <2>4, <3>1
    <3>3. seq[k] = [r |-> b.r, i |-> 1] /\ seq[k] = [r |-> r, i |-> k]
      BY <1>5, <2>4, <3>2
    <3>4. b.r = r /\ k = 1
      BY <3>3
    <3>5. Size(b.r) = n
      BY <3>4 DEF n
    <3>6. b.i = n + j
      BY <1>4, <2>1, <2>2, <3>2, <3>4
    <3>. QED  BY <1>4, <2>1, <2>4, <3>5, <3>6
  <2>7. ASSUME NEW i \in 1..Size(b.r)
        PROVE  /\ (j - b.i) + i \in 1..(Len(seq) - n)
               /\ ((n + j) - b.i) + i = n + ((j - b.i) + i)
    <3>1. i \in Nat /\ i >= 1 /\ i <= Size(b.r)
      BY <2>3
    <3>2. ((n + j) - b.i) + i = n + ((j - b.i) + i)
      BY <1>4, <2>1, <2>2, <3>1
    <3>3. (j - b.i) + i >= 1
      BY <2>1, <2>2, <2>6, <3>1
    <3>4. n + ((j - b.i) + i) <= Len(seq)
      BY <1>1, <1>4, <2>1, <2>2, <2>3, <2>4, <3>1, SMTT(30)
    <3>5. (j - b.i) + i \in Int
      BY <2>1, <2>2, <3>1
    <3>. HIDE DEF b
    <3>. QED  BY <1>1, <1>4, <3>2, <3>3, <3>4, <3>5
  <2>8. \A i \in 1..Size(b.r) : d[(j - b.i) + i] = [r |-> b.r, i |-> i]
    BY <1>8, <2>4, <2>7
  <2>9. (j - b.i) + Size(b.r) <= Len(d)
    BY <1>1, <1>4, <1>8, <2>1, <2>2, <2>3, <2>4, SMTT(30)
  <2>10. WholeAt(d, j)
    BY <2>1, <2>4, <2>6, <2>8, <2>9 DEF WholeAt
  <2>11. EndOf(r) <= b.r.first
    <3>1. 1 \in 1..((n + j) - b.i)
      BY <1>4, <2>1, <2>2, <2>6
    <3>. QED  BY <2>5, <3>1 DEF r
  <2>12. ASSUME b.i = 1  PROVE b.r.first = IF j = 1 THEN EndOf(r) ELSE EndOf(d[j - 1].r)
    <3>1. b.r.first = EndOf(seq[(n + j) - 1].r)
      BY <1>4, <2>1, <2>5, <2>12
    <3>2. CASE j = 1
      <4>1. (n + j) - 1 = n /\ n \in 1..n
        BY <1>4, <3>2
      <4>2. seq[n] = [r |-> r, i |-> n]
        BY <1>5, <4>1
      <4>3. seq[n].r = r
        BY <4>2
      <4>. QED  BY <3>1, <3>2, <4>1, <4>3
    <3>3. CASE j # 1
      <4>1. j - 1 \in 1..(Len(seq) - n) /\ (n + j) - 1 = n + (j - 1)
        BY <1>1, <1>4, <1>8, <2>1, <3>3
      <4>. QED  BY <1>8, <3>1, <3>3, <4>1
    <3>. QED  BY <3>2, <3>3
  <2>13. ASSUME NEW k \in 1..(j - b.i)  PROVE EndOf(d[k].r) <= b.r.first
    <3>1. n + k \in 1..((n + j) - b.i) /\ k \in 1..(Len(seq) - n)
      BY <1>1, <1>4, <1>8, <2>1, <2>2, <2>6
    <3>. QED  BY <1>8, <2>5, <3>1
  <2>14. OrderedAt(d, j, EndOf(r), to)
    BY <2>1, <2>5, <2>11, <2>12, <2>13 DEF OrderedAt
  <2>. QED  BY <2>10, <2>14
<1>10. to = IF Len(d) = 0 THEN EndOf(r) ELSE EndOf(d[Len(d)].r)
  <2>1. CASE Len(d) = 0
    <3>1. Len(seq) = n /\ n \in 1..n
      BY <1>1, <1>4, <1>8, <2>1
    <3>2. seq[n] = [r |-> r, i |-> n]
      BY <1>5, <3>1
    <3>3. seq[n].r = r
      BY <3>2
    <3>. QED  BY <1>1, <2>1, <3>1, <3>3
  <2>2. CASE Len(d) # 0
    <3>1. Len(d) \in 1..(Len(seq) - n) /\ n + Len(d) = Len(seq)
      BY <1>1, <1>4, <1>5, <1>8, <2>2
    <3>. QED  BY <1>1, <1>8, <2>2, <3>1
  <2>. QED  BY <2>1, <2>2
<1>11. Stream(d, EndOf(r), to)
  BY <1>1, <1>4, <1>6, <1>8, <1>9, <1>10 DEF Stream
<1>. QED  BY <1>3, <1>5, <1>6, <1>11 DEF d, n, r

-----------------------------------------------------------------------------
(* Division, for buffer_encrypt_record.                                     *)
LEMMA TimesMono ==
  ASSUME NEW f \in Nat, NEW a \in Nat, NEW b \in Nat, a <= b
  PROVE  a * f <= b * f /\ a * f \in Nat
  OBVIOUS

(* One more record of the same size.                                        *)
LEMMA TimesNext ==
  ASSUME NEW f \in Nat, NEW a \in Nat
  PROVE  (a + 1) * f = a * f + f /\ a * f \in Nat
  OBVIOUS

(* Quotient and remainder.                                                  *)
LEMMA DivType ==
  ASSUME NEW n \in Nat, NEW f \in Nat \ {0}
  PROVE  n \div f \in Nat /\ n % f \in 0..(f - 1) /\ n = (n \div f) * f + (n % f)
<1>1. n % f \in 0..(f - 1)
  OBVIOUS
<1>2. n \div f \in Int
  OBVIOUS
<1>3. n = (n \div f) * f + (n % f)
  OBVIOUS
<1>4. n \div f \in Nat
  <2>1. SUFFICES ASSUME n \div f < 0  PROVE FALSE
    BY <1>2
  <2>2. (n \div f) * f <= (-1) * f
    BY <1>2, <2>1
  <2>. QED  BY <1>1, <1>2, <1>3, <2>2
<1>. QED  BY <1>1, <1>3, <1>4

(* They are unique: byte i of record k is where it is computed to be.       *)
LEMMA DivUnique ==
  ASSUME NEW k \in Nat, NEW f \in Nat \ {0}, NEW i \in 0..(f - 1)
  PROVE  (k * f + i) \div f = k /\ (k * f + i) % f = i
<1>. DEFINE n == k * f + i
            q == n \div f
            m == n % f
<1>1. n \in Nat /\ k * f \in Nat
  OBVIOUS
<1>2. q \in Nat /\ m \in 0..(f - 1) /\ n = q * f + m
  BY <1>1, DivType
<1>. HIDE DEF q, m
<1>3. q = k
  <2>1. CASE q < k
    <3>1. (q + 1) * f <= k * f /\ (q + 1) * f = q * f + f
      BY <1>2, <2>1, TimesMono, TimesNext
    <3>. QED  BY <1>1, <1>2, <3>1
  <2>2. CASE k < q
    <3>1. (k + 1) * f <= q * f /\ (k + 1) * f = k * f + f
      BY <1>2, <2>2, TimesMono, TimesNext
    <3>. QED  BY <1>1, <1>2, <3>1
  <2>. QED  BY <1>2, <2>1, <2>2
<1>. QED  BY <1>1, <1>2, <1>3 DEF q, m

(* Records of one size but for the last, one behind the other.              *)
InPieces(R, last, full) ==
    [j \in 1..(last * full + Size(R[last])) |->
       [r |-> R[(j - 1) \div full], i |-> ((j - 1) % full) + 1]]

(* Every byte of a message that buffer_encrypt_record cut into records of   *)
(* one size but for the last lies in one of them.                           *)
LEMMA PlaceInPieces ==
  ASSUME NEW last \in Nat, NEW full \in Nat \ {0}, NEW tail \in 1..full,
         NEW j \in 1..(last * full + tail)
  PROVE  LET k == (j - 1) \div full
             i == ((j - 1) % full) + 1
         IN  /\ k \in 0..last /\ i \in 1..full /\ (k = last => i <= tail)
             /\ j = k * full + i /\ k * full \in Nat
             /\ last * full \in Nat
<1>. DEFINE k == (j - 1) \div full
            m == (j - 1) % full
<1>1. last * full \in Nat /\ j - 1 \in Nat
  BY TimesNext
<1>2. k \in Nat /\ m \in 0..(full - 1) /\ j - 1 = k * full + m
  BY <1>1, DivType
<1>. HIDE DEF k, m
<1>3. k * full \in Nat
  BY <1>2, TimesNext
<1>4. k <= last
  <2>1. SUFFICES ASSUME last + 1 <= k  PROVE FALSE
    BY <1>2
  <2>2. (last + 1) * full <= k * full /\ (last + 1) * full = last * full + full
    BY <1>2, <2>1, TimesMono, TimesNext
  <2>. QED  BY <1>1, <1>2, <1>3, <2>2
<1>5. k = last => m + 1 <= tail
  BY <1>1, <1>2
<1>6. j = k * full + (m + 1) /\ m + 1 \in 1..full /\ k \in 0..last
  BY <1>1, <1>2, <1>3, <1>4
<1>. QED  BY <1>1, <1>3, <1>5, <1>6 DEF k, m

(* Records of one size but for the last, which may be smaller.              *)
CutUp(R, last, full) ==
    /\ last \in Nat /\ full \in Nat \ {0}
    /\ \A k \in 0..last : R[k] \in RecordType
    /\ \A k \in 0..last : k < last => Size(R[k]) = full
    /\ Size(R[last]) <= full

(* Record k is found from byte k * full on.                                 *)
FoundAt(R, last, full) ==
    /\ InPieces(R, last, full) \in Seq(Byte)
    /\ last * full \in Nat
    /\ Len(InPieces(R, last, full)) = last * full + Size(R[last])
    /\ \A k \in 0..last : \A i \in 1..Size(R[k]) :
         /\ k * full \in Nat
         /\ k * full + i \in 1..(last * full + Size(R[last]))
         /\ InPieces(R, last, full)[k * full + i] = [r |-> R[k], i |-> i]

(* The bytes of a message cut into records: record k is found from byte k * *)
(* full on.                                                                 *)
LEMMA PiecesFacts ==
  ASSUME NEW last, NEW full, NEW R, CutUp(R, last, full)
  PROVE  FoundAt(R, last, full)
<1>. DEFINE tail == Size(R[last])
            seq  == InPieces(R, last, full)
            n    == last * full + tail
<1>0. /\ last \in Nat /\ full \in Nat \ {0}
      /\ \A k \in 0..last : R[k] \in RecordType
      /\ \A k \in 0..last : k < last => Size(R[k]) = full
      /\ Size(R[last]) <= full
  BY DEF CutUp
<1>. USE <1>0
<1>1. tail \in 1..full /\ n \in Nat /\ last * full \in Nat /\ last \in 0..last /\ n >= 1
  BY RecordFacts, TimesNext
<1>2. ASSUME NEW j \in 1..n
      PROVE  [r |-> R[(j - 1) \div full], i |-> ((j - 1) % full) + 1] \in Byte
  <2>1. (j - 1) \div full \in 0..last /\ ((j - 1) % full) + 1 \in 1..full
    BY <1>1, PlaceInPieces
  <2>2. ((j - 1) % full) + 1 \in Nat \ {0}
    BY <2>1
  <2>. QED  BY <2>1, <2>2, RecordFacts
<1>3. seq = [j \in 1..n |-> [r |-> R[(j - 1) \div full], i |-> ((j - 1) % full) + 1]]
  BY DEF InPieces
<1>. HIDE DEF n, tail, seq
<1>4. seq \in [1..n -> Byte] /\ DOMAIN seq = 1..n
  BY <1>2, <1>3
<1>5. seq \in Seq(Byte)
  BY <1>1, <1>4, SeqDef
<1>6. Len(seq) = n
  <2>1. n \in Nat
    BY <1>1
  <2>. QED  BY <1>4, <2>1, FunctionSeq
<1>7. ASSUME NEW k \in 0..last, NEW i \in 1..Size(R[k])
      PROVE  k * full \in Nat /\ k * full + i \in 1..n /\ seq[k * full + i] = [r |-> R[k], i |-> i]
  <2>1. Size(R[k]) \in Nat /\ Size(R[k]) <= full /\ i \in Nat /\ i >= 1 /\ k \in Nat
    BY RecordFacts
  <2>2. k * full \in Nat
    BY <2>1, TimesNext
  <2>3. k * full + i <= n
    <3>1. CASE k = last
      BY <1>1, <2>1, <2>2, <3>1 DEF n, tail
    <3>2. CASE k # last
      <4>1. (k + 1) * full <= last * full /\ (k + 1) * full = k * full + full
        <5>1. k + 1 <= last /\ k + 1 \in Nat
          BY <2>1, <3>2
        <5>. QED  BY <2>1, <5>1, TimesMono, TimesNext
      <4>. QED  BY <1>1, <2>1, <2>2, <4>1 DEF n
    <3>. QED  BY <3>1, <3>2
  <2>4. k * full + i \in 1..n /\ (k * full + i) - 1 = k * full + (i - 1) /\ i - 1 \in 0..(full - 1)
    BY <1>1, <2>1, <2>2, <2>3
  <2>5. ((k * full + i) - 1) \div full = k /\ ((k * full + i) - 1) % full = i - 1
    BY <2>1, <2>4, DivUnique
  <2>6. (i - 1) + 1 = i
    BY <2>1
  <2>. QED  BY <1>3, <2>2, <2>4, <2>5, <2>6
<1>. QED  BY <1>1, <1>5, <1>6, <1>7 DEF FoundAt, n, tail, seq

(* They are a stream of whole records, when each record continues the one   *)
(* before.                                                                  *)
LEMMA PiecesStream ==
  ASSUME NEW last \in Nat, NEW full \in Nat \ {0}, NEW R, NEW x, NEW z,
         \A k \in 0..last : R[k] \in RecordType,
         \A k \in 0..last : k < last => Size(R[k]) = full,
         Size(R[last]) <= full,
         R[0].first = x, EndOf(R[last]) = z,
         \A k \in 0..last : k < last => EndOf(R[k]) = R[k + 1].first,
         \A k \in 0..last : x <= R[k].first /\ EndOf(R[k]) <= z,
         \A k, l \in 0..last : k < l => EndOf(R[k]) <= R[l].first
  PROVE  Stream(InPieces(R, last, full), x, z)
<1>. DEFINE seq  == InPieces(R, last, full)
            tail == Size(R[last])
            n    == last * full + tail
<1>0. /\ InPieces(R, last, full) \in Seq(Byte)
      /\ last * full \in Nat
      /\ Len(InPieces(R, last, full)) = last * full + Size(R[last])
      /\ \A k \in 0..last : \A i \in 1..Size(R[k]) :
           /\ k * full \in Nat
           /\ k * full + i \in 1..(last * full + Size(R[last]))
           /\ InPieces(R, last, full)[k * full + i] = [r |-> R[k], i |-> i]
  <2>1. CutUp(R, last, full)
    BY DEF CutUp
  <2>2. FoundAt(R, last, full)
    BY ONLY <2>1, PiecesFacts
  <2>. QED  BY ONLY <2>2 DEF FoundAt
<1>1. /\ seq \in Seq(Byte) /\ Len(seq) = n
      /\ \A k \in 0..last : \A i \in 1..Size(R[k]) :
           /\ k * full \in Nat
           /\ k * full + i \in 1..n
           /\ seq[k * full + i] = [r |-> R[k], i |-> i]
  BY <1>0
<1>2. tail \in 1..full /\ last * full \in Nat /\ last \in 0..last /\ 0 \in 0..last
  BY RecordFacts, TimesNext
<1>3. ASSUME NEW k \in 0..last
      PROVE  Size(R[k]) \in 1..full /\ R[k].first \in Nat /\ EndOf(R[k]) \in Nat
  <2>1. /\ Size(R[k]) \in Nat /\ Size(R[k]) >= 1 /\ R[k].first \in Nat /\ EndOf(R[k]) \in Nat
    BY RecordFacts
  <2>2. Size(R[k]) <= full
    <3>1. CASE k < last
      <4>1. Size(R[k]) = full
        BY <3>1
      <4>. QED  BY <4>1
    <3>2. CASE k = last
      BY <3>2
    <3>3. k < last \/ k = last
      OBVIOUS
    <3>. QED  BY <3>1, <3>2, <3>3
  <2>. QED  BY <2>1, <2>2
<1>4. ASSUME NEW j \in 1..n
      PROVE  \E k \in 0..last : \E i \in 1..Size(R[k]) :
               j = k * full + i /\ k * full \in Nat /\ seq[j] = [r |-> R[k], i |-> i]
  <2>. DEFINE k == (j - 1) \div full
              i == ((j - 1) % full) + 1
  <2>1. /\ k \in 0..last /\ i \in 1..full /\ (k = last => i <= tail)
        /\ j = k * full + i /\ k * full \in Nat
    BY <1>2, PlaceInPieces
  <2>. HIDE DEF k, i
  <2>2. i \in 1..Size(R[k])
    <3>1. CASE k = last
      BY <1>2, <2>1, <3>1
    <3>2. CASE k # last
      <4>1. k < last
        BY <2>1, <3>2
      <4>. QED  BY <2>1, <4>1
    <3>. QED  BY <3>1, <3>2
  <2>3. seq[j] = [r |-> R[k], i |-> i]
    BY <1>1, <2>1, <2>2
  <2>. QED  BY <2>1, <2>2, <2>3
<1>. HIDE DEF seq, tail, n
<1>5. n \in Nat /\ n >= 1
  BY <1>2 DEF n
<1>6. ASSUME NEW j \in 1..n  PROVE WholeAt(seq, j) /\ OrderedAt(seq, j, x, z)
  <2>1. PICK k \in 0..last : \E i \in 1..Size(R[k]) :
               j = k * full + i /\ k * full \in Nat /\ seq[j] = [r |-> R[k], i |-> i]
    BY <1>4
  <2>2. PICK i \in 1..Size(R[k]) :
               j = k * full + i /\ k * full \in Nat /\ seq[j] = [r |-> R[k], i |-> i]
    BY <2>1
  <2>. DEFINE p == k * full
  <2>3. /\ p \in Nat /\ j = p + i /\ j - i = p /\ i \in Nat /\ i >= 1 /\ i <= Size(R[k])
        /\ Size(R[k]) \in Nat /\ k \in Nat
    BY <1>3, <2>2
  <2>4. seq[j].r = R[k] /\ seq[j].i = i
    BY <2>2
  <2>5. /\ \A l \in 1..Size(R[k]) : p + l \in 1..n /\ seq[p + l] = [r |-> R[k], i |-> l]
        /\ p + Size(R[k]) <= n
    <3>1. \A l \in 1..Size(R[k]) : p + l \in 1..n /\ seq[p + l] = [r |-> R[k], i |-> l]
      BY <1>1
    <3>2. Size(R[k]) \in 1..Size(R[k])
      BY <2>3
    <3>3. p + Size(R[k]) \in 1..n
      BY <3>1, <3>2
    <3>. QED  BY <1>5, <3>1, <3>3
  <2>6. k > 0 => /\ k - 1 \in 0..last /\ k - 1 < last /\ (k - 1) + 1 = k
                 /\ (k - 1) * full \in Nat /\ p = (k - 1) * full + full /\ Size(R[k - 1]) = full
    <3>1. SUFFICES ASSUME k > 0
                   PROVE  /\ k - 1 \in 0..last /\ k - 1 < last /\ (k - 1) + 1 = k
                          /\ (k - 1) * full \in Nat /\ p = (k - 1) * full + full
                          /\ Size(R[k - 1]) = full
      OBVIOUS
    <3>2. k - 1 \in 0..last /\ k - 1 < last /\ (k - 1) + 1 = k /\ k - 1 \in Nat
      BY <2>3, <3>1
    <3>3. ((k - 1) + 1) * full = (k - 1) * full + full /\ (k - 1) * full \in Nat
      BY <3>2, TimesNext
    <3>. QED  BY <3>2, <3>3
  <2>7. k > 0 => /\ p \in 1..n /\ seq[p] = [r |-> R[k - 1], i |-> full]
                 /\ EndOf(R[k - 1]) = R[k].first
    <3>1. SUFFICES ASSUME k > 0
                   PROVE  /\ p \in 1..n /\ seq[p] = [r |-> R[k - 1], i |-> full]
                          /\ EndOf(R[k - 1]) = R[k].first
      OBVIOUS
    <3>. DEFINE q == k - 1
    <3>2. q \in 0..last /\ q < last /\ q + 1 = k /\ p = q * full + full /\ full \in 1..Size(R[q])
      BY <2>6, <3>1
    <3>. HIDE DEF q
    <3>3. q * full + full \in 1..n /\ seq[q * full + full] = [r |-> R[q], i |-> full]
      BY <1>1, <3>2
    <3>4. EndOf(R[q]) = R[k].first
      BY <3>2
    <3>. QED  BY <3>2, <3>3, <3>4 DEF q
  <2>8. k = 0 => p = 0
    OBVIOUS
  <2>. HIDE DEF p
  <2>9. WholeAt(seq, j)
    BY <1>1, <2>3, <2>4, <2>5 DEF WholeAt
  <2>10. ASSUME i = 1  PROVE R[k].first = IF j = 1 THEN x ELSE EndOf(seq[j - 1].r)
    <3>1. j - 1 = p
      BY <2>3, <2>10
    <3>2. CASE k = 0
      BY <2>3, <2>8, <2>10, <3>2
    <3>3. CASE k > 0
      <4>1. seq[p].r = R[k - 1] /\ j # 1 /\ EndOf(R[k - 1]) = R[k].first
        BY <2>3, <2>7, <3>1, <3>3
      <4>. QED  BY <3>1, <4>1
    <3>. QED  BY <2>3, <3>2, <3>3
  <2>11. ASSUME NEW l \in 1..p  PROVE EndOf(seq[l].r) <= R[k].first
    <3>1. l \in 1..n
      BY <1>5, <2>3, <2>5
    <3>2. PICK q \in 0..last : \E h \in 1..Size(R[q]) :
               l = q * full + h /\ q * full \in Nat /\ seq[l] = [r |-> R[q], i |-> h]
      BY <1>4, <3>1
    <3>3. seq[l].r = R[q]
      BY <3>2
    <3>4. q < k
      <4>1. SUFFICES ASSUME k <= q  PROVE FALSE
        BY <2>3
      <4>2. k * full <= q * full
        BY <2>3, <4>1, TimesMono
      <4>3. p <= q * full
        BY <4>2 DEF p
      <4>4. PICK h \in 1..Size(R[q]) : l = q * full + h
        BY <3>2
      <4>5. h \in Nat /\ h >= 1
        BY <1>3
      <4>. QED  BY <2>3, <3>2, <4>3, <4>4, <4>5
    <3>. QED  BY <3>3, <3>4
  <2>12. OrderedAt(seq, j, x, z)
    BY <2>3, <2>4, <2>10, <2>11 DEF OrderedAt
  <2>. QED  BY <2>9, <2>12
<1>7. EndOf(seq[n].r) = z
  <2>1. tail \in 1..Size(R[last])
    BY <1>2 DEF tail
  <2>2. seq[last * full + tail] = [r |-> R[last], i |-> tail]
    BY <1>1, <1>2, <2>1
  <2>3. seq[n].r = R[last]
    BY <2>2 DEF n
  <2>. QED  BY <2>3
<1>8. x \in Nat /\ z \in Nat /\ x <= z
  <2>1. x \in Nat /\ z \in Nat
    BY <1>2, <1>3
  <2>2. x <= R[0].first /\ EndOf(R[0]) <= z /\ R[0].first <= EndOf(R[0])
        /\ R[0].first \in Nat /\ EndOf(R[0]) \in Nat
    BY <1>2, <1>3, RecordFacts
  <2>. QED  BY <2>1, <2>2
<1>9. Stream(seq, x, z)
  <2>1. Len(seq) # 0 /\ Len(seq) = n /\ seq \in Seq(Byte)
    BY <1>1, <1>5
  <2>. QED  BY <1>6, <1>7, <1>8, <2>1 DEF Stream
<1>. QED  BY <1>9 DEF seq

-----------------------------------------------------------------------------
(* What is so of every record on the wire.  Those of picotls keep to the    *)
(* boundaries of messages.                                                  *)
Boundary(ms, p)   == \A m \in 1..Len(ms) : p <= ms[m].start \/ EndIn(ms, m) <= p
FinishedAt(ms, p) == \E m \in 1..Len(ms) : Script[m] = "finished" /\ EndIn(ms, m) <= p
Within(ms, r)     == \E m \in 1..Len(ms) : ms[m].start <= r.first /\ r.first + r.len <= EndIn(ms, m)

OfPicotls(ms, r) ==
    \/ r.type = "handshake" /\ r.len \in 1..MAX_PLAINTEXT /\ Within(ms, r)
    \/ r.type = "ccs" /\ r.len = 1 /\ ~r.sealed /\ ~FinishedAt(ms, r.first)
    \/ /\ r.type = "appdata" /\ r.len = MAX_PLAINTEXT /\ r.sealed /\ r.epoch > 0
       /\ FinishedAt(ms, r.first) /\ Boundary(ms, r.first)
    \/ r.type = "alert" /\ r.len = 2 /\ r.sealed /\ r.epoch > 0 /\ Boundary(ms, r.first)

RecordOK(ms, peer, r) ==
    /\ r.epoch = EpochOf(ms, r.first)
    /\ r.type = "handshake" => r.sealed = (r.epoch > 0)
    /\ peer = "picotls" => OfPicotls(ms, r)

(* A record sent before a message was composed stays a correct one.         *)
LEMMA ComposeRecord ==
  ASSUME NEW ms, InRow(ms), NEW size \in Sizes, NEW peer, NEW r \in RecordType,
         RecordOK(ms, peer, r), r.first <= TotalOf(ms)
  PROVE  RecordOK(Added(ms, size), peer, r)
<1>. DEFINE mt == Added(ms, size)
<1>1. /\ Len(ms) \in Nat /\ TotalOf(ms) \in Nat /\ Len(mt) = Len(ms) + 1
      /\ \A m \in 1..Len(ms) : mt[m] = ms[m] /\ EndIn(mt, m) = EndIn(ms, m)
      /\ mt[Len(ms) + 1] = [start |-> TotalOf(ms), size |-> size]
      /\ EndIn(mt, Len(ms) + 1) = TotalOf(ms) + size
  BY RowFacts, ComposeFacts
<1>2. r.first \in Nat /\ size \in Nat /\ size >= 1
  BY RecordFacts, SizesFacts
<1>3. EpochOf(mt, r.first) = EpochOf(ms, r.first)
  BY <1>1, <1>2, EpochStays
<1>. HIDE DEF mt
<1>4. \A m \in 1..Len(mt) : m \in 1..Len(ms) \/ m = Len(ms) + 1
  BY <1>1
<1>5. \A m \in 1..Len(ms) : m \in 1..Len(mt)
  BY <1>1
<1>6. Boundary(ms, r.first) => Boundary(mt, r.first)
  BY <1>1, <1>2, <1>4 DEF Boundary
<1>7. FinishedAt(mt, r.first) <=> FinishedAt(ms, r.first)
  <2>1. ~(EndIn(mt, Len(ms) + 1) <= r.first)
    BY <1>1, <1>2
  <2>. QED  BY <1>1, <1>4, <1>5, <2>1 DEF FinishedAt
<1>8. Within(ms, r) => Within(mt, r)
  BY <1>1, <1>5 DEF Within
<1>9. OfPicotls(ms, r) => OfPicotls(mt, r)
  BY <1>6, <1>7, <1>8 DEF OfPicotls
<1>. QED  BY <1>3, <1>9 DEF RecordOK, mt

-----------------------------------------------------------------------------
(* The invariant.                                                           *)
Items == [type : {"handshake", "appdata", "alert"}, m : Nat]

TypeInv ==
    /\ conf \in Conf
    /\ sent \in Nat /\ extra \in 0..MaxExtra
    /\ wire \in Seq(Byte) /\ avail \in 0..Len(wire)
    /\ rec \in Seq(Byte)
    /\ mess \in Seq(Position) /\ src \in Seq(Position)
    /\ pc \in {"idle", "input", "messages", "failed"}
    /\ keys \in Nat /\ done \in Nat
    /\ emitted \in Seq(Items) /\ got \in Seq(Items)

(* The messages composed, and how far the peer has sent them.               *)
RowInv ==
    /\ InRow(messages) /\ Len(messages) <= Len(Script)
    /\ sent <= TotalOf(messages)
    /\ conf.peer = "picotls" => sent = TotalOf(messages)

(* Handshake bytes that are waiting, and up to where the stream has come.   *)
Base     == BaseOf(messages, done)
Pending  == IF pc = "messages" THEN src ELSE mess
Received == Base + Len(Pending)

(* Every record kept or on the wire is one the peer could send.             *)
ByteInv ==
    /\ \A j \in 1..Len(rec) : RecordOK(messages, conf.peer, rec[j].r)
    /\ \A j \in 1..Len(wire) : RecordOK(messages, conf.peer, wire[j].r)

(* recvbuf.rec holds the beginning of a record that is not too long.        *)
RecInv ==
    /\ rec # <<>> =>
         /\ Len(rec) < Size(rec[1].r)
         /\ Len(rec) >= REC_HEADER =>
              Length(rec[1].r) <= MAX_PLAINTEXT + (IF rec[1].r.sealed THEN EXPANSION ELSE 0)
    /\ pc = "messages" => rec = <<>>

(* What waits begins with the next message; the key in use is the one of    *)
(* the messages handled.                                                    *)
MessInv ==
    /\ done <= Len(messages)
    /\ keys = Changes(done)
    /\ pc # "messages" => src = <<>>
    /\ \A i \in 1..Len(Pending) :
         Pending[i].pos = (Base + i) - 1 /\ Pending[i].epoch >= Ends(done)
    /\ Received <= sent
    /\ pc # "messages" /\ mess # <<>> =>
         Len(mess) < messages[done + 1].size /\ ~message_buffer_is_overflow(Len(mess))
    /\ pc = "messages" /\ conf.peer = "picotls" /\ src # <<>> =>
         Len(src) <= messages[done + 1].size

(* Behind the message API there are no records, only pieces of the stream.  *)
PieceInv ==
    /\ rec = <<>> /\ pc # "input" /\ avail = 0
    /\ \A i \in 1..Len(wire) :
         /\ wire[i].r.type = "handshake" /\ wire[i].i <= wire[i].r.len
         /\ (wire[i].r.first + wire[i].i) - 1 = (Received + i) - 1
    /\ Received + Len(wire) = sent

StreamInv == IF conf.api = "record" THEN Stream(rec \o wire, Received, sent) ELSE PieceInv

LiveInv == pc # "failed" => ByteInv /\ RecInv /\ MessInv /\ StreamInv

RecordsInv == TypeInv /\ RowInv /\ LiveInv /\ PicotlsUnderstood

(* The settings; picotls as a peer is only met through the record API.      *)
LEMMA ConfFacts ==
  ASSUME TypeInv
  PROVE  /\ conf.api \in {"record", "message"} /\ conf.peer \in {"picotls", "other"}
         /\ conf.max_buffer_size \in Nat
         /\ conf.api # "record" => conf.peer # "picotls" /\ conf.api = "message"
  BY ConfAssumption DEF TypeInv

(* The buffers of the receiver and the bytes in them.                       *)
LEMMA LenFacts ==
  ASSUME TypeInv
  PROVE  /\ Len(wire) \in Nat /\ Len(rec) \in Nat /\ Len(mess) \in Nat /\ Len(src) \in Nat
         /\ Len(Pending) \in Nat /\ Pending \in Seq(Position)
         /\ rec = <<>> <=> Len(rec) = 0
         /\ mess = <<>> <=> Len(mess) = 0
         /\ src = <<>> <=> Len(src) = 0
         /\ \A j \in 1..Len(rec) : rec[j] \in Byte /\ rec[j].r \in RecordType
         /\ \A j \in 1..Len(wire) : wire[j] \in Byte /\ wire[j].r \in RecordType
<1>1. /\ Len(wire) \in Nat /\ Len(rec) \in Nat /\ Len(mess) \in Nat /\ Len(src) \in Nat
      /\ Len(Pending) \in Nat /\ Pending \in Seq(Position)
  BY LenProperties DEF TypeInv, Pending
<1>2. /\ rec = <<>> <=> Len(rec) = 0
      /\ mess = <<>> <=> Len(mess) = 0
      /\ src = <<>> <=> Len(src) = 0
  BY <1>1, EmptySeq DEF TypeInv
<1>3. /\ \A j \in 1..Len(rec) : rec[j] \in Byte /\ rec[j].r \in RecordType
      /\ \A j \in 1..Len(wire) : wire[j] \in Byte /\ wire[j].r \in RecordType
  BY ElementOfSeq, ByteFacts DEF TypeInv
<1>. QED  BY <1>1, <1>2, <1>3

(* Between two records the position in the stream says which messages have  *)
(* been handled, and so which key the next record is sealed with.           *)
LEMMA PositionFacts ==
  ASSUME TypeInv, RowInv, MessInv, pc # "messages"
  PROVE  /\ Base \in Nat /\ Received = Base + Len(mess) /\ Received \in Nat
         /\ \A m \in 1..Len(messages) : EndIn(messages, m) <= Received <=> m <= done
         /\ EndedOf(messages, Received) = done
         /\ EpochOf(messages, Received) = keys
         /\ mess # <<>> => done + 1 \in 1..Len(messages)
         /\ done + 1 \in 1..Len(messages) =>
              /\ messages[done + 1].start = Base
              /\ EndIn(messages, done + 1) = Base + messages[done + 1].size
              /\ messages[done + 1].size \in Nat /\ messages[done + 1].size >= MESS_HEADER
<1>1. /\ Len(messages) \in Nat /\ done \in 0..Len(messages) /\ Len(mess) \in Nat
      /\ (mess = <<>> <=> Len(mess) = 0) /\ InRow(messages)
  BY RowFacts, LenFacts DEF RowInv, MessInv, TypeInv
<1>2. Base \in Nat /\ Received = Base + Len(mess) /\ Received \in Nat
  BY <1>1, RowFacts DEF Base, Received, Pending
<1>3. done + 1 \in 1..Len(messages) =>
              /\ messages[done + 1].start = Base
              /\ EndIn(messages, done + 1) = Base + messages[done + 1].size
              /\ messages[done + 1].size \in Nat /\ messages[done + 1].size >= MESS_HEADER
              /\ messages[done + 1].size >= 1
  <2>1. SUFFICES ASSUME done + 1 \in 1..Len(messages)
                 PROVE  /\ messages[done + 1].start = Base
                        /\ EndIn(messages, done + 1) = Base + messages[done + 1].size
                        /\ messages[done + 1].size \in Nat
                        /\ messages[done + 1].size >= MESS_HEADER
                        /\ messages[done + 1].size >= 1
    OBVIOUS
  <2>2. messages[done + 1].start = BaseOf(messages, (done + 1) - 1) /\ (done + 1) - 1 = done
        /\ messages[done + 1].size \in Sizes
    BY <1>1, <2>1, RowFacts
  <2>. QED  BY <2>2, SizesFacts DEF Base, EndIn
<1>4. mess # <<>> => done + 1 \in 1..Len(messages)
  <2>1. SUFFICES ASSUME mess # <<>>, done = Len(messages)  PROVE FALSE
    BY <1>1
  <2>2. Base = TotalOf(messages) /\ Received <= sent /\ sent <= TotalOf(messages) /\ sent \in Nat
    BY <2>1 DEF Base, TotalOf, MessInv, RowInv, TypeInv
  <2>. QED  BY <1>1, <1>2, <2>1, <2>2
<1>5. done < Len(messages) => Received < EndIn(messages, done + 1)
  <2>1. SUFFICES ASSUME done < Len(messages)  PROVE Received < EndIn(messages, done + 1)
    OBVIOUS
  <2>2. done + 1 \in 1..Len(messages)
    BY <1>1, <2>1
  <2>3. Len(mess) < messages[done + 1].size
    BY <1>1, <1>3, <2>2 DEF MessInv
  <2>. QED  BY <1>1, <1>2, <1>3, <2>2, <2>3
<1>6. /\ \A m \in 1..Len(messages) : EndIn(messages, m) <= Received <=> m <= done
      /\ EndedOf(messages, Received) = done
      /\ EpochOf(messages, Received) = Changes(done)
  <2>1. BaseOf(messages, done) <= Received
    BY <1>1, <1>2 DEF Base
  <2>. QED  BY <1>1, <1>2, <1>5, <2>1, EndedIs
<1>. QED  BY <1>2, <1>3, <1>4, <1>6 DEF MessInv

-----------------------------------------------------------------------------
(* What parse_record looks at is the first record of the stream.            *)
LEMMA CurrentFacts ==
  ASSUME TypeInv, RowInv, LiveInv, pc = "input", avail > 0
  PROVE  /\ conf.api = "record" /\ Stream(rec \o wire, Received, sent)
         /\ rec \o wire \in Seq(Byte) /\ Len(rec \o wire) = Len(rec) + Len(wire)
         /\ Buffered \in Seq(Byte) /\ Len(Buffered) = Len(rec) + avail
         /\ \A i \in 1..Len(Buffered) : Buffered[i] = (rec \o wire)[i]
         /\ Current = (rec \o wire)[1].r /\ Needed = Size(Current)
         /\ rec # <<>> => rec[1].r = Current
         /\ Current \in RecordType /\ Current.first = Received /\ EndOf(Current) <= sent
         /\ RecordOK(messages, conf.peer, Current)
         /\ Size(Current) <= Len(rec) + Len(wire) /\ Len(rec) < Size(Current)
         /\ Stream(Drop(rec \o wire, Size(Current)), EndOf(Current), sent)
<1>. DEFINE S == rec \o wire
            w == SubSeq(wire, 1, avail)
<1>1. ByteInv /\ RecInv /\ MessInv /\ StreamInv
  BY DEF LiveInv
<1>2. conf.api = "record" /\ Stream(S, Received, sent)
  BY <1>1 DEF StreamInv, PieceInv
<1>3. /\ Len(rec) \in Nat /\ Len(wire) \in Nat /\ avail \in Nat /\ avail \in 0..Len(wire)
      /\ avail <= Len(wire) /\ rec \in Seq(Byte) /\ wire \in Seq(Byte)
      /\ (rec = <<>> <=> Len(rec) = 0)
  BY LenFacts DEF TypeInv
<1>4. /\ S \in Seq(Byte) /\ Len(S) = Len(rec) + Len(wire)
      /\ \A i \in 1..Len(rec) : S[i] = rec[i]
      /\ \A i \in 1..Len(wire) : S[Len(rec) + i] = wire[i]
  BY <1>3, ConcatFacts
<1>5. w \in Seq(Byte) /\ Len(w) = avail /\ \A i \in 1..avail : w[i] = wire[i]
  BY <1>3, TakeFacts
<1>6. /\ Buffered \in Seq(Byte) /\ Len(Buffered) = Len(rec) + avail
      /\ \A i \in 1..Len(rec) : Buffered[i] = rec[i]
      /\ \A i \in 1..avail : Buffered[Len(rec) + i] = w[i]
  <2>. HIDE DEF w
  <2>1. /\ rec \o w \in Seq(Byte) /\ Len(rec \o w) = Len(rec) + Len(w)
        /\ \A i \in 1..Len(rec) : (rec \o w)[i] = rec[i]
        /\ \A i \in 1..Len(w) : (rec \o w)[Len(rec) + i] = w[i]
    <3>1. rec \in Seq(Byte) /\ w \in Seq(Byte)
      BY <1>3, <1>5
    <3>. QED  BY <3>1, ConcatFacts
  <2>. QED  BY <1>5, <2>1 DEF Buffered, w
<1>. HIDE DEF S, w
<1>7. ASSUME NEW i \in 1..Len(Buffered)  PROVE Buffered[i] = S[i]
  <2>1. CASE i \in 1..Len(rec)
    BY <1>4, <1>6, <2>1
  <2>2. CASE i \notin 1..Len(rec)
    <3>1. i - Len(rec) \in 1..avail /\ Len(rec) + (i - Len(rec)) = i /\ i - Len(rec) \in 1..Len(wire)
      BY <1>3, <1>6, <2>2
    <3>. QED  BY <1>4, <1>5, <1>6, <3>1, ZenonT(60)
  <2>. QED  BY <2>1, <2>2
<1>8. 1 \in 1..Len(Buffered) /\ Len(S) # 0
  BY <1>3, <1>4, <1>6
<1>9. Current = S[1].r /\ Needed = Size(Current)
  BY <1>7, <1>8 DEF Current, Needed, Size
<1>10. rec # <<>> => rec[1].r = Current
  <2>1. rec # <<>> => 1 \in 1..Len(rec)
    BY <1>3
  <2>. QED  BY <1>4, <1>9, <2>1
<1>11. /\ S[1].r \in RecordType /\ S[1].r.first = Received /\ EndOf(S[1].r) <= sent
       /\ Size(S[1].r) <= Len(S)
       /\ Stream(Drop(S, Size(S[1].r)), EndOf(S[1].r), sent)
  BY <1>2, <1>8, FirstRecord
<1>12. RecordOK(messages, conf.peer, Current)
  <2>1. CASE rec = <<>>
    <3>1. 1 \in 1..Len(wire) /\ Len(rec) + 1 = 1
      BY <1>3, <2>1
    <3>2. S[1] = wire[1]
      BY <1>4, <3>1
    <3>. QED  BY <1>1, <1>9, <3>1, <3>2 DEF ByteInv
  <2>2. CASE rec # <<>>
    <3>1. 1 \in 1..Len(rec)
      BY <1>3, <2>2
    <3>. QED  BY <1>1, <1>10, <2>2, <3>1 DEF ByteInv
  <2>. QED  BY <2>1, <2>2
<1>13. Len(rec) < Size(Current)
  <2>1. CASE rec = <<>>
    BY <1>3, <1>9, <1>11, <2>1, RecordFacts
  <2>2. CASE rec # <<>>
    BY <1>1, <1>10, <2>2 DEF RecInv
  <2>. QED  BY <2>1, <2>2
<1>. QED  BY <1>2, <1>4, <1>6, <1>7, <1>9, <1>10, <1>11, <1>12, <1>13 DEF S

(* A whole record leaves the stream.                                        *)
LEMMA TakeRecord ==
  ASSUME TypeInv, RowInv, LiveInv, Whole, UNCHANGED <<conf, sending>>, rec' = <<>>,
         wire' = SubSeq(wire, Needed - Len(rec) + 1, Len(wire))
  PROVE  /\ Needed - Len(rec) \in 1..avail
         /\ wire' \in Seq(Byte) /\ Len(wire') = Len(wire) - (Needed - Len(rec))
         /\ rec' \in Seq(Byte) /\ ByteInv'
         /\ rec' \o wire' = Drop(rec \o wire, Size(Current))
         /\ Stream(rec' \o wire', EndOf(Current), sent)
<1>. DEFINE n == Needed - Len(rec)
<1>1. pc = "input" /\ avail > 0 /\ Len(Buffered) >= Needed
  BY DEF Whole, HasHeader
<1>2. /\ Needed = Size(Current) /\ Len(rec) < Size(Current) /\ Current \in RecordType
      /\ Len(Buffered) = Len(rec) + avail
      /\ Stream(Drop(rec \o wire, Size(Current)), EndOf(Current), sent)
  BY <1>1, CurrentFacts
<1>3. /\ Len(rec) \in Nat /\ Len(wire) \in Nat /\ avail \in Nat /\ avail <= Len(wire)
      /\ rec \in Seq(Byte) /\ wire \in Seq(Byte)
  BY LenFacts DEF TypeInv
<1>4. Size(Current) \in Nat
  BY <1>2, RecordFacts
<1>5. n \in 1..avail /\ n \in 0..Len(wire) /\ Len(rec) + n = Size(Current)
  <2>1. /\ Needed \in Nat /\ Needed = Size(Current) /\ Len(rec) < Needed
        /\ Needed <= Len(rec) + avail
    BY <1>1, <1>2, <1>4
  <2>. QED  BY <1>3, <2>1
<1>6. wire' = Drop(wire, n)
  BY DEF Drop
<1>. HIDE DEF n
<1>7. /\ wire' \in Seq(Byte) /\ Len(wire') = Len(wire) - n
      /\ \A i \in 1..(Len(wire) - n) : wire'[i] = wire[n + i]
  BY <1>3, <1>5, <1>6, DropFacts
<1>8. rec' \o wire' = wire' /\ rec' \in Seq(Byte)
  BY <1>7, ConcatEmptySeq, EmptySeq
<1>9. wire' = Drop(rec \o wire, Size(Current))
  <2>1. n \in 0..Len(wire)
    BY <1>5
  <2>2. Drop(rec \o wire, Len(rec) + n) = Drop(wire, n)
    BY <1>3, <2>1, DropConcat
  <2>. QED  BY <1>5, <1>6, <2>2
<1>10. ByteInv'
  <2>1. Len(rec') = 0
    BY EmptySeq
  <2>2. ASSUME NEW j \in 1..Len(wire')  PROVE RecordOK(messages', conf'.peer, wire'[j].r)
    <3>1. j \in 1..(Len(wire) - n) /\ n + j \in 1..Len(wire)
      <4>1. Len(wire) \in Nat /\ n \in Nat /\ n <= Len(wire) /\ Len(wire') = Len(wire) - n
        BY <1>3, <1>5, <1>7
      <4>2. j \in 1..(Len(wire) - n)
        BY <4>1
      <4>. QED  BY <4>1, <4>2
    <3>2. ByteInv /\ messages' = messages /\ conf' = conf
      BY <1>1 DEF LiveInv, sending
    <3>. QED  BY <1>7, <3>1, <3>2 DEF ByteInv
  <2>3. \A j \in 1..Len(rec') : FALSE
    BY <2>1
  <2>. QED  BY <2>2, <2>3 DEF ByteInv
<1>. QED  BY <1>2, <1>5, <1>7, <1>8, <1>9, <1>10 DEF n

-----------------------------------------------------------------------------
(* The message at hand is the next one.                                     *)
LEMMA MessageIs ==
  ASSUME TypeInv, RowInv, MessInv, pc = "messages", src # <<>>
  PROVE  /\ done + 1 \in 1..Len(messages) /\ Message = done + 1
         /\ mess_len = messages[done + 1].size /\ Kind = Script[done + 1]
         /\ Base \in Nat /\ Len(src) \in Nat /\ Len(src) >= 1 /\ Received = Base + Len(src)
         /\ EndIn(messages, done + 1) = Base + messages[done + 1].size
         /\ messages[done + 1].start = Base
         /\ messages[done + 1].size \in Nat /\ messages[done + 1].size >= MESS_HEADER
         /\ messages[done + 1].size >= 1
<1>1. /\ Len(messages) \in Nat /\ DOMAIN messages = 1..Len(messages) /\ done \in 0..Len(messages)
      /\ InRow(messages) /\ sent \in Nat /\ sent <= TotalOf(messages)
  BY RowFacts DEF RowInv, MessInv, TypeInv
<1>2. Len(src) \in Nat /\ Len(src) >= 1 /\ Received = Base + Len(src)
  BY LenFacts DEF Received, Pending
<1>3. Base \in Nat
  BY <1>1, RowFacts DEF Base
<1>4. done + 1 \in 1..Len(messages)
  <2>0. Len(messages) \in Nat /\ done \in 0..Len(messages)
    BY <1>1
  <2>1. SUFFICES ASSUME done = Len(messages)  PROVE FALSE
    BY <2>0
  <2>2. Base = TotalOf(messages) /\ Received <= sent
    BY <2>1 DEF Base, TotalOf, MessInv
  <2>. QED  BY <1>1, <1>2, <1>3, <2>2
<1>5. /\ messages[done + 1].start = Base /\ messages[done + 1].size \in Sizes
  <2>1. (done + 1) - 1 = done
    BY <1>1
  <2>. QED  BY <1>1, <1>4, <2>1, RowFacts DEF Base
<1>6. /\ messages[done + 1].size \in Nat /\ messages[done + 1].size >= MESS_HEADER
      /\ messages[done + 1].size >= 1
      /\ EndIn(messages, done + 1) = Base + messages[done + 1].size
  BY <1>5, SizesFacts DEF EndIn
<1>7. src[1].pos = Base
  <2>1. 1 \in 1..Len(src) /\ (Base + 1) - 1 = Base
    BY <1>2, <1>3
  <2>. QED  BY <2>1 DEF MessInv, Pending
<1>8. ASSUME NEW m \in 1..Len(messages), messages[m].start = Base  PROVE m = done + 1
  <2>1. /\ messages[m].start < EndIn(messages, m)
        /\ m < done + 1 => EndIn(messages, m) <= messages[done + 1].start
        /\ done + 1 < m => EndIn(messages, done + 1) <= messages[m].start
        /\ EndIn(messages, m) \in Nat
    BY <1>1, <1>4, RowFacts
  <2>2. ~(m < done + 1)
    BY <1>3, <1>5, <1>8, <2>1
  <2>3. ~(done + 1 < m)
    BY <1>3, <1>6, <1>8, <2>1
  <2>. QED  BY <1>1, <2>2, <2>3
<1>9. Heads = {done + 1}
  BY <1>1, <1>4, <1>5, <1>7, <1>8 DEF Heads
<1>10. Message = done + 1
  BY <1>9 DEF Message
<1>. QED  BY <1>2, <1>3, <1>4, <1>5, <1>6, <1>9, <1>10 DEF mess_len, Kind

-----------------------------------------------------------------------------
(* One lemma per action.                                                    *)
LEMMA InitRecords == Init => RecordsInv
<1>1. SUFFICES ASSUME Init  PROVE RecordsInv
  OBVIOUS
<1>2. /\ messages = <<>> /\ sent = 0 /\ extra = 0 /\ emitted = <<>> /\ wire = <<>> /\ avail = 0
      /\ rec = <<>> /\ mess = <<>> /\ src = <<>> /\ pc = "idle" /\ keys = 0 /\ done = 0 /\ got = <<>>
      /\ conf \in Conf
  BY <1>1 DEF Init
<1>3. \A T : <<>> \in Seq(T) /\ Len(<<>>) = 0
  BY EmptySeq
<1>4. TypeInv
  BY <1>2, <1>3, BoundsAssumption DEF TypeInv
<1>5. RowInv
  <2>1. TotalOf(messages) = 0
    BY <1>2, <1>3 DEF TotalOf, BaseOf
  <2>2. Len(Script) \in Nat
    BY ScriptAssumption, LenProperties
  <2>3. InRow(messages)
    BY <1>2, <1>3 DEF InRow, Messages
  <2>. QED  BY <1>2, <1>3, <2>1, <2>2, <2>3 DEF RowInv
<1>6. Changes(0) = 0
  <2>1. {m \in 1..0 : Script[m] \in KeyChanging} = {}
    OBVIOUS
  <2>. QED  BY <2>1, FS_EmptySet DEF Changes
<1>7. Received = 0 /\ Pending = <<>>
  BY <1>2, <1>3 DEF Received, Pending, Base, BaseOf
<1>8. ByteInv /\ RecInv /\ MessInv
  <2>1. ByteInv
    BY <1>2, <1>3 DEF ByteInv
  <2>2. RecInv
    BY <1>2 DEF RecInv
  <2>3. MessInv
    BY <1>2, <1>3, <1>6, <1>7 DEF MessInv
  <2>. QED  BY <2>1, <2>2, <2>3
<1>9. StreamInv
  <2>1. rec \o wire = <<>>
    BY <1>2, <1>3, ConcatEmptySeq
  <2>2. Stream(rec \o wire, Received, sent)
    BY <1>2, <1>3, <1>7, <2>1 DEF Stream
  <2>3. PieceInv
    BY <1>2, <1>3, <1>7 DEF PieceInv
  <2>. QED  BY <2>2, <2>3 DEF StreamInv
<1>10. PicotlsUnderstood
  BY <1>2 DEF PicotlsUnderstood
<1>. QED  BY <1>4, <1>5, <1>8, <1>9, <1>10 DEF RecordsInv, LiveInv

(* A call begins or ends.                                                   *)
LEMMA CallRecords ==
  ASSUME RecordsInv, \/ \E n \in 1..Len(wire) : Call(n)
                     \/ Return
  PROVE  RecordsInv'
<1>1. /\ UNCHANGED <<conf, messages, sent, extra, emitted, wire, rec, mess, src, keys, done, got>>
      /\ pc \in {"idle", "input"} /\ pc' \in {"idle", "input"}
      /\ avail' \in 0..Len(wire)
      /\ pc' = "input" => conf.api = "record"
      /\ conf.api = "record" \/ avail' = 0
  <2>1. CASE \E n \in 1..Len(wire) : Call(n)
    <3>1. Len(wire) \in Nat
      BY LenFacts DEF RecordsInv
    <3>. QED  BY <2>1, <3>1 DEF Call, sending
  <2>2. CASE Return
    BY <2>2 DEF Return, sending, RecordsInv, TypeInv
  <2>. QED  BY <2>1, <2>2
<1>2. TypeInv /\ RowInv /\ ByteInv /\ RecInv /\ MessInv /\ StreamInv
  BY <1>1 DEF RecordsInv, LiveInv
<1>3. TypeInv'
  BY <1>1, <1>2 DEF TypeInv
<1>4. RowInv'
  BY <1>1, <1>2 DEF RowInv
<1>5. Pending' = Pending /\ Base' = Base /\ Received' = Received
  BY <1>1 DEF Pending, Base, Received
<1>6. ByteInv' /\ RecInv'
  BY <1>1, <1>2 DEF ByteInv, RecInv
<1>7. MessInv'
  BY <1>1, <1>2, <1>5 DEF MessInv, message_buffer_is_overflow
<1>8. StreamInv'
  <2>1. CASE conf.api = "record"
    BY <1>1, <1>2, <1>5, <2>1 DEF StreamInv
  <2>2. CASE conf.api # "record"
    BY <1>1, <1>2, <1>5, <2>2 DEF StreamInv, PieceInv
  <2>. QED  BY <2>1, <2>2
<1>9. PicotlsUnderstood'
  BY <1>1 DEF PicotlsUnderstood
<1>. QED  BY <1>3, <1>4, <1>6, <1>7, <1>8, <1>9 DEF RecordsInv, LiveInv

(* handle_message keeps the invariant: the message taken from src is the    *)
(* next one, and the key in use follows it.                                 *)
LEMMA HandleMessageRecords ==
  ASSUME RecordsInv, handle_message
  PROVE  RecordsInv'
<1>. DEFINE size == messages[done + 1].size
<1>1. TypeInv /\ RowInv /\ ByteInv /\ RecInv /\ MessInv /\ StreamInv /\ pc = "messages"
  BY DEF RecordsInv, LiveInv, handle_message
<1>2. src # <<>>
  <2>1. Len(src) >= MESS_HEADER /\ MESS_HEADER \in Nat /\ MESS_HEADER # 0
    BY SizesAssumption DEF handle_message, Unhandled
  <2>. QED  BY <1>1, <2>1, LenFacts
<1>3. /\ done + 1 \in 1..Len(messages) /\ Message = done + 1
      /\ mess_len = size /\ Kind = Script[done + 1]
      /\ Base \in Nat /\ Len(src) \in Nat /\ Len(src) >= 1 /\ Received = Base + Len(src)
      /\ EndIn(messages, done + 1) = Base + size
      /\ size \in Nat /\ size >= 1
  BY <1>1, <1>2, MessageIs
<1>4. /\ src' = Drop(src, size) /\ done' = done + 1 /\ size <= Len(src)
      /\ keys' = keys + (IF Script[done + 1] \in KeyChanging THEN 1 ELSE 0)
      /\ Script[done + 1] \in EndsRecord => Len(src) = size
      /\ got' = Append(got, AsItem("handshake", done + 1))
      /\ avail' \in {avail, 0}
      /\ UNCHANGED <<conf, messages, sent, extra, emitted, wire, rec, mess, pc>>
  BY <1>3 DEF handle_message, Unhandled, MayHandle, sending, Drop
<1>5. done \in Nat /\ size \in 0..Len(src) /\ src \in Seq(Position)
  BY <1>1, <1>3, <1>4 DEF TypeInv
<1>6. /\ src' \in Seq(Position) /\ Len(src') = Len(src) - size
      /\ \A i \in 1..(Len(src) - size) : src'[i] = src[size + i]
  BY <1>4, <1>5, DropFacts
<1>7. TypeInv'
  <2>1. AsItem("handshake", done + 1) \in Items
    BY <1>5 DEF AsItem, Items
  <2>2. got' \in Seq(Items)
    BY <1>1, <1>4, <2>1, AppendProperties DEF TypeInv
  <2>3. avail' \in 0..Len(wire)
    BY <1>1, <1>4, LenFacts DEF TypeInv
  <2>4. keys' \in Nat /\ done' \in Nat
    BY <1>1, <1>4 DEF TypeInv
  <2>. QED  BY <1>1, <1>4, <1>6, <2>2, <2>3, <2>4 DEF TypeInv
<1>8. RowInv'
  BY <1>1, <1>4 DEF RowInv
<1>9. Base' = Base + size
  <2>1. Base' = BaseOf(messages, done + 1) /\ done + 1 # 0
    BY <1>4, <1>5 DEF Base
  <2>. QED  BY <1>3, <2>1 DEF BaseOf
<1>10. Pending' = src' /\ Pending = src /\ Received' = Received
  <2>1. Pending' = src' /\ Pending = src
    BY <1>1, <1>4 DEF Pending
  <2>2. Received' = Base' + Len(src')
    BY <2>1 DEF Received
  <2>. QED  BY <1>3, <1>6, <1>9, <2>1, <2>2, SMTT(30)
<1>11. ByteInv' /\ RecInv'
  BY <1>1, <1>4 DEF ByteInv, RecInv
<1>12. /\ Changes(done + 1) = Changes(done) + (IF Script[done + 1] \in KeyChanging THEN 1 ELSE 0)
       /\ Script[done + 1] \notin EndsRecord => Ends(done + 1) = Ends(done)
       /\ Ends(done) \in Nat
  <2>1. /\ Changes(done + 1) = Changes(done) + (IF Script[done + 1] \in KeyChanging THEN 1 ELSE 0)
        /\ Ends(done + 1) = Ends(done) + (IF Script[done + 1] \in EndsRecord THEN 1 ELSE 0)
        /\ Ends(done) \in Nat
    BY <1>5, CountsStep
  <2>. QED  BY <2>1
<1>13. ASSUME NEW i \in 1..Len(src')
       PROVE  src'[i].pos = (Base' + i) - 1 /\ src'[i].epoch >= Ends(done + 1)
  <2>1. /\ i \in 1..(Len(src) - size) /\ size + i \in 1..Len(src)
        /\ (Base + (size + i)) - 1 = ((Base + size) + i) - 1
    <3>1. Len(src') = Len(src) - size /\ Len(src) \in Nat /\ size \in Nat /\ Base \in Nat
          /\ size <= Len(src)
      BY <1>3, <1>4, <1>6
    <3>2. i \in 1..(Len(src) - size)
      BY <3>1
    <3>. QED  BY <3>1, <3>2, SMTT(30)
  <2>2. src'[i] = src[size + i]
    BY <1>6, <2>1
  <2>3. src[size + i].pos = (Base + (size + i)) - 1 /\ src[size + i].epoch >= Ends(done)
    BY <1>1, <1>10, <2>1 DEF MessInv
  <2>4. Script[done + 1] \notin EndsRecord
    <3>1. SUFFICES ASSUME Len(src) = size  PROVE FALSE
      BY <1>4
    <3>. QED  BY <1>3, <2>1, <3>1, SMTT(30)
  <2>. QED  BY <1>9, <1>12, <2>1, <2>2, <2>3, <2>4
<1>14. conf.peer = "picotls" => src' = <<>>
  <2>1. SUFFICES ASSUME conf.peer = "picotls"  PROVE Len(src') = 0
    BY <1>7, LenFacts, <1>6, EmptySeq
  <2>2. Len(src) <= size
    BY <1>1, <1>2, <2>1 DEF MessInv
  <2>. QED  BY <1>3, <1>4, <1>6, <2>2
<1>15. MessInv'
  <2>1. done' <= Len(messages')
    BY <1>3, <1>4
  <2>2. keys' = Changes(done')
    BY <1>1, <1>4, <1>12 DEF MessInv
  <2>3. Received' <= sent'
    BY <1>1, <1>4, <1>10 DEF MessInv
  <2>4. \A i \in 1..Len(Pending') : Pending'[i].pos = (Base' + i) - 1
                                    /\ Pending'[i].epoch >= Ends(done')
    BY <1>4, <1>10, <1>13
  <2>5. pc' = "messages"
    BY <1>1, <1>4
  <2>6. conf'.peer = "picotls" => src' = <<>>
    BY <1>4, <1>14
  <2>. QED  BY <2>1, <2>2, <2>3, <2>4, <2>5, <2>6 DEF MessInv
<1>16. StreamInv'
  BY <1>1, <1>4, <1>10 DEF StreamInv, PieceInv
<1>17. PicotlsUnderstood'
  BY <1>1, <1>4 DEF PicotlsUnderstood
<1>. QED  BY <1>7, <1>8, <1>11, <1>15, <1>16, <1>17 DEF RecordsInv, LiveInv

(* keep_partial_message keeps the invariant: what is put into recvbuf.mess  *)
(* is less than the next message.                                           *)
LEMMA KeepPartialRecords ==
  ASSUME RecordsInv, keep_partial_message
  PROVE  RecordsInv'
<1>1. TypeInv /\ RowInv /\ ByteInv /\ RecInv /\ MessInv /\ StreamInv /\ pc = "messages"
  BY DEF RecordsInv, LiveInv, keep_partial_message
<1>2. /\ mess' = src /\ src' = <<>> /\ pc' = IF conf.api = "record" THEN "input" ELSE "idle"
      /\ ~Unhandled /\ ~message_buffer_is_overflow(Len(src))
      /\ UNCHANGED <<conf, messages, sent, extra, emitted, wire, avail, rec, keys, done, got>>
  BY DEF keep_partial_message, sending
<1>3. TypeInv'
  BY <1>1, <1>2, EmptySeq DEF TypeInv
<1>4. RowInv' /\ ByteInv' /\ RecInv'
  BY <1>1, <1>2 DEF RowInv, ByteInv, RecInv
<1>5. Pending' = Pending /\ Base' = Base /\ Received' = Received /\ Pending = src
  BY <1>1, <1>2 DEF Pending, Base, Received
<1>6. src # <<>> => Len(src) < messages[done + 1].size
  <2>1. SUFFICES ASSUME src # <<>>  PROVE Len(src) < messages[done + 1].size
    OBVIOUS
  <2>2. /\ mess_len = messages[done + 1].size /\ Len(src) \in Nat
        /\ messages[done + 1].size \in Nat /\ messages[done + 1].size >= MESS_HEADER
    BY <1>1, <2>1, MessageIs
  <2>. QED  BY <1>2, <2>2, SizesAssumption DEF Unhandled
<1>7. MessInv'
  <2>1. /\ done' <= Len(messages') /\ keys' = Changes(done') /\ Received' <= sent'
        /\ \A i \in 1..Len(Pending') : Pending'[i].pos = (Base' + i) - 1
                                       /\ Pending'[i].epoch >= Ends(done')
    BY <1>1, <1>2, <1>5 DEF MessInv
  <2>2. pc' # "messages" /\ src' = <<>>
    BY <1>2
  <2>3. mess' # <<>> => Len(mess') < messages'[done' + 1].size
                        /\ ~message_buffer_is_overflow(Len(mess))'
    BY <1>2, <1>6 DEF message_buffer_is_overflow
  <2>. QED  BY <2>1, <2>2, <2>3 DEF MessInv
<1>8. StreamInv'
  BY <1>1, <1>2, <1>5 DEF StreamInv, PieceInv
<1>9. PicotlsUnderstood'
  BY <1>2 DEF PicotlsUnderstood
<1>. QED  BY <1>3, <1>4, <1>7, <1>8, <1>9 DEF RecordsInv, LiveInv

(* Everything given is kept.                                                *)
LEMMA IncompleteRecords ==
  ASSUME RecordsInv, parse_record_incomplete
  PROVE  RecordsInv'
<1>1. TypeInv /\ RowInv /\ ByteInv /\ RecInv /\ MessInv /\ StreamInv /\ LiveInv
      /\ pc = "input" /\ avail > 0
  BY DEF RecordsInv, LiveInv, parse_record_incomplete
<1>2. /\ rec' = Buffered /\ wire' = Drop(wire, avail) /\ avail' = avail - avail
      /\ Len(Buffered) >= REC_HEADER => ~TooLong /\ Len(Buffered) < Needed
      /\ UNCHANGED <<conf, messages, sent, extra, emitted, mess, src, pc, keys, done, got>>
  BY DEF parse_record_incomplete, sending, Consumed, Drop
<1>3. /\ conf.api = "record" /\ Stream(rec \o wire, Received, sent)
      /\ Buffered \in Seq(Byte) /\ Len(Buffered) = Len(rec) + avail
      /\ \A i \in 1..Len(Buffered) : Buffered[i] = (rec \o wire)[i]
      /\ Current = (rec \o wire)[1].r /\ Needed = Size(Current) /\ Current \in RecordType
      /\ RecordOK(messages, conf.peer, Current)
      /\ Len(rec) < Size(Current)
  BY <1>1, CurrentFacts
<1>4. /\ Len(rec) \in Nat /\ Len(wire) \in Nat /\ avail \in 0..Len(wire) /\ avail \in Nat
      /\ rec \in Seq(Byte) /\ wire \in Seq(Byte)
  BY <1>1, LenFacts DEF TypeInv
<1>5. /\ wire' \in Seq(Byte) /\ Len(wire') = Len(wire) - avail
      /\ \A i \in 1..(Len(wire) - avail) : wire'[i] = wire[avail + i]
  BY <1>2, <1>4, DropFacts
<1>6. avail' = 0 /\ avail' \in 0..Len(wire')
  BY <1>2, <1>4, <1>5
<1>7. TypeInv'
  BY <1>1, <1>2, <1>3, <1>5, <1>6 DEF TypeInv
<1>8. rec' \o wire' = rec \o wire
  BY <1>2, <1>4, Rejoin DEF Buffered
<1>9. Pending' = Pending /\ Base' = Base /\ Received' = Received
  BY <1>2 DEF Pending, Base, Received
<1>10. Size(Current) \in Nat /\ Size(Current) >= REC_HEADER /\ REC_HEADER \in Nat
  BY <1>3, RecordFacts, SizesAssumption
<1>11. Len(Buffered) < Size(Current)
  <2>1. Len(Buffered) \in Nat /\ Needed = Size(Current)
    BY <1>3, <1>4
  <2>2. Len(Buffered) >= REC_HEADER => Len(Buffered) < Size(Current)
    BY <1>2, <2>1
  <2>. QED  BY <1>10, <2>1, <2>2
<1>12. 1 \in 1..Len(Buffered) /\ Buffered[1].r = Current
  BY <1>1, <1>3, <1>4
<1>13. ASSUME NEW j \in 1..Len(Buffered)  PROVE Buffered[j].r = Current
  <2>1. \A i \in 1..Size(Current) : (rec \o wire)[i] = [r |-> Current, i |-> i]
    <3>1. Len(rec \o wire) # 0
      BY <1>1, <1>4, ConcatFacts
    <3>. QED  BY <1>3, <3>1, FirstRecord
  <2>2. j \in 1..Size(Current)
    BY <1>3, <1>4, <1>10, <1>11
  <2>3. Buffered[j] = [r |-> Current, i |-> j]
    BY <1>3, <2>1, <2>2
  <2>. QED  BY <2>3
<1>14. ByteInv'
  <2>1. \A j \in 1..Len(rec') : RecordOK(messages', conf'.peer, rec'[j].r)
    BY <1>2, <1>3, <1>13
  <2>2. ASSUME NEW j \in 1..Len(wire')  PROVE RecordOK(messages', conf'.peer, wire'[j].r)
    <3>1. Len(wire') = Len(wire) - avail /\ Len(wire) \in Nat /\ avail \in Nat /\ avail <= Len(wire)
      BY <1>4, <1>5
    <3>2. j \in 1..(Len(wire) - avail)
      BY <3>1
    <3>3. avail + j \in 1..Len(wire)
      BY <3>1, <3>2
    <3>. QED  BY <1>1, <1>2, <1>5, <3>2, <3>3 DEF ByteInv
  <2>. QED  BY <2>1, <2>2 DEF ByteInv
<1>15. RecInv'
  <2>1. rec'[1].r = Current /\ Len(rec') < Size(Current)
    BY <1>2, <1>11, <1>12
  <2>2. Len(rec') >= REC_HEADER =>
          Length(Current) <= MAX_PLAINTEXT + (IF Current.sealed THEN EXPANSION ELSE 0)
    <3>1. SUFFICES ASSUME ~TooLong
                   PROVE Length(Current) <= MAX_PLAINTEXT + (IF Current.sealed THEN EXPANSION ELSE 0)
      BY <1>2
    <3>2. Length(Current) \in Nat /\ MAX_PLAINTEXT \in Nat /\ EXPANSION \in Nat
      BY <1>3, RecordFacts, SizesAssumption
    <3>. QED  BY <3>1, <3>2 DEF TooLong
  <2>3. pc' # "messages"
    BY <1>1, <1>2
  <2>. QED  BY <2>1, <2>2, <2>3 DEF RecInv
<1>16. MessInv'
  BY <1>1, <1>2, <1>9 DEF MessInv, message_buffer_is_overflow
<1>17. StreamInv' /\ RowInv'
  BY <1>1, <1>2, <1>3, <1>8, <1>9 DEF StreamInv, RowInv
<1>18. PicotlsUnderstood'
  BY <1>1, <1>2 DEF PicotlsUnderstood
<1>. QED  BY <1>7, <1>14, <1>15, <1>16, <1>17, <1>18 DEF RecordsInv, LiveInv

(* A record without handshake bytes is skipped or handed to the             *)
(* application.                                                             *)
LEMMA OtherRecords ==
  ASSUME RecordsInv, change_cipher_spec \/ receive_data
  PROVE  RecordsInv'
<1>1. TypeInv /\ RowInv /\ ByteInv /\ RecInv /\ MessInv /\ StreamInv /\ LiveInv
      /\ pc = "input" /\ avail > 0
  BY DEF RecordsInv, LiveInv, change_cipher_spec, receive_data, NextRecord, Whole, HasHeader
<1>2. /\ Whole /\ wire' = SubSeq(wire, Needed - Len(rec) + 1, Len(wire)) /\ rec' = <<>>
      /\ avail' \in {avail - (Needed - Len(rec)), 0} /\ Current.type # "handshake"
      /\ UNCHANGED <<conf, messages, sent, extra, emitted, mess, src, pc, keys, done>>
      /\ got' \in {got, Append(got, AsItem("appdata", 0))}
  <2>1. CASE change_cipher_spec
    BY <2>1 DEF change_cipher_spec, NextRecord, Consumed, SkipsCCS, sending
  <2>2. CASE receive_data
    BY <2>2 DEF receive_data, IsData, sending
  <2>. QED  BY <2>1, <2>2
<1>3. /\ Needed - Len(rec) \in 1..avail
      /\ wire' \in Seq(Byte) /\ Len(wire') = Len(wire) - (Needed - Len(rec))
      /\ rec' \in Seq(Byte) /\ ByteInv'
      /\ Stream(rec' \o wire', EndOf(Current), sent)
  <2>1. UNCHANGED <<conf, sending>>
    BY <1>2 DEF sending
  <2>. QED  BY <1>1, <1>2, <2>1, TakeRecord
<1>4. /\ conf.api = "record" /\ EndOf(Current) = Received
  <2>1. Current \in RecordType /\ Current.first = Received /\ conf.api = "record"
    BY <1>1, CurrentFacts
  <2>2. Current.first \in Nat
    BY <2>1, RecordFacts
  <2>. QED  BY <1>2, <2>1, <2>2 DEF EndOf
<1>5. TypeInv'
  <2>1. avail' \in 0..Len(wire')
    <3>1. avail \in Nat /\ avail <= Len(wire) /\ Len(wire) \in Nat
      BY <1>1, LenFacts DEF TypeInv
    <3>. QED  BY <1>2, <1>3, <3>1
  <2>2. got' \in Seq(Items)
    <3>1. AsItem("appdata", 0) \in Items /\ got \in Seq(Items)
      BY <1>1 DEF AsItem, Items, TypeInv
    <3>2. Append(got, AsItem("appdata", 0)) \in Seq(Items)
      BY <3>1, AppendProperties
    <3>. QED  BY <1>2, <3>1, <3>2
  <2>. QED  BY <1>1, <1>2, <1>3, <2>1, <2>2 DEF TypeInv
<1>6. Pending' = Pending /\ Base' = Base /\ Received' = Received
  BY <1>2 DEF Pending, Base, Received
<1>7. MessInv' /\ RowInv' /\ RecInv'
  BY <1>1, <1>2, <1>6 DEF MessInv, RowInv, RecInv, message_buffer_is_overflow
<1>8. StreamInv'
  BY <1>2, <1>3, <1>4, <1>6 DEF StreamInv
<1>9. PicotlsUnderstood'
  BY <1>1, <1>2 DEF PicotlsUnderstood
<1>. QED  BY <1>3, <1>5, <1>7, <1>8, <1>9 DEF RecordsInv, LiveInv

(* A record of picotls lies within the message at hand.                     *)
LEMMA WithinNext ==
  ASSUME TypeInv, RowInv, MessInv, pc # "messages",
         NEW r \in RecordType, r.first = Received, r.len >= 1, Within(messages, r)
  PROVE  /\ done + 1 \in 1..Len(messages)
         /\ Len(mess) + r.len <= messages[done + 1].size
<1>1. /\ Base \in Nat /\ Received = Base + Len(mess) /\ Received \in Nat
      /\ \A m \in 1..Len(messages) : EndIn(messages, m) <= Received <=> m <= done
      /\ done + 1 \in 1..Len(messages) =>
           /\ EndIn(messages, done + 1) = Base + messages[done + 1].size
           /\ messages[done + 1].size \in Nat
  BY PositionFacts
<1>2. PICK m \in 1..Len(messages) :
        messages[m].start <= r.first /\ r.first + r.len <= EndIn(messages, m)
  BY DEF Within
<1>3. /\ Len(messages) \in Nat /\ done \in Nat /\ Len(mess) \in Nat
      /\ \A k, l \in 1..Len(messages) : k < l => EndIn(messages, k) <= messages[l].start
      /\ \A k \in 1..Len(messages) : EndIn(messages, k) \in Nat /\ messages[k].start \in Nat
  BY RowFacts, LenFacts DEF RowInv, TypeInv
<1>4. r.len \in Nat
  BY RecordFacts
<1>5. ~(m <= done)
  <2>1. ~(EndIn(messages, m) <= Received)
    BY <1>1, <1>2, <1>3, <1>4
  <2>. QED  BY <1>1, <2>1
<1>6. done + 1 \in 1..Len(messages) /\ done + 1 <= m
  BY <1>3, <1>5
<1>7. m = done + 1
  <2>1. SUFFICES ASSUME done + 1 < m  PROVE FALSE
    BY <1>3, <1>6
  <2>2. EndIn(messages, done + 1) <= messages[m].start
    BY <1>3, <1>6, <2>1
  <2>3. EndIn(messages, done + 1) <= Received
    BY <1>1, <1>2, <1>3, <1>6, <2>2
  <2>4. ~(done + 1 <= done)
    BY <1>3
  <2>. QED  BY <1>1, <1>6, <2>3, <2>4
<1>. QED  BY <1>1, <1>2, <1>3, <1>4, <1>6, <1>7, SMTT(30)

(* The handshake bytes of a record are consecutive positions of the         *)
(* handshake stream.                                                        *)
LEMMA FragmentFacts ==
  ASSUME NEW r \in RecordType
  PROVE  /\ Fragment(r) \in Seq(Position) /\ Len(Fragment(r)) = r.len
         /\ \A i \in 1..r.len : Fragment(r)[i] = [pos |-> r.first + i - 1, epoch |-> r.epoch]
<1>1. r.len \in Nat /\ r.first \in Nat /\ r.epoch \in Nat
  BY DEF RecordType
<1>2. Fragment(r) \in [1..r.len -> Position]
  BY <1>1 DEF Fragment, Position
<1>. QED  BY <1>1, <1>2, FunctionSeq DEF Fragment

(* More of the stream is put behind what was kept.                          *)
LEMMA Flattened ==
  ASSUME TypeInv, RowInv, MessInv, pc # "messages", NEW f \in Seq(Position),
         \A i \in 1..Len(f) : f[i].pos = (Received + i) - 1 /\ f[i].epoch = keys
  PROVE  /\ mess \o f \in Seq(Position) /\ Len(mess \o f) = Len(mess) + Len(f)
         /\ Len(f) \in Nat /\ Len(mess) \in Nat
         /\ \A i \in 1..Len(mess \o f) :
              (mess \o f)[i].pos = (Base + i) - 1 /\ (mess \o f)[i].epoch >= Ends(done)
<1>1. /\ mess \in Seq(Position) /\ Len(mess) \in Nat /\ Len(f) \in Nat
      /\ Base \in Nat /\ Received = Base + Len(mess) /\ done \in Nat
  BY LenFacts, LenProperties, PositionFacts DEF TypeInv
<1>2. /\ mess \o f \in Seq(Position) /\ Len(mess \o f) = Len(mess) + Len(f)
      /\ \A i \in 1..Len(mess) : (mess \o f)[i] = mess[i]
      /\ \A i \in 1..Len(f) : (mess \o f)[Len(mess) + i] = f[i]
  BY <1>1, ConcatFacts
<1>3. keys >= Ends(done)
  BY <1>1, CountsStep DEF MessInv
<1>4. \A i \in 1..Len(mess) : mess[i].pos = (Base + i) - 1 /\ mess[i].epoch >= Ends(done)
  BY DEF MessInv, Pending
<1>. DEFINE g == mess \o f
<1>. HIDE DEF g
<1>5. ASSUME NEW i \in 1..Len(g)  PROVE g[i].pos = (Base + i) - 1 /\ g[i].epoch >= Ends(done)
  <2>1. CASE i \in 1..Len(mess)
    BY <1>2, <1>4, <2>1 DEF g
  <2>2. CASE i \notin 1..Len(mess)
    <3>1. Len(g) = Len(mess) + Len(f)
      BY <1>2 DEF g
    <3>2. i - Len(mess) \in 1..Len(f) /\ Len(mess) + (i - Len(mess)) = i
          /\ (Received + (i - Len(mess))) - 1 = (Base + i) - 1
      BY <1>1, <2>2, <3>1
    <3>3. g[i] = f[i - Len(mess)]
      BY <1>2, <3>2 DEF g
    <3>. QED  BY <1>3, <3>2, <3>3
  <2>. QED  BY <2>1, <2>2
<1>. QED  BY <1>1, <1>2, <1>5 DEF g

(* handle_handshake_record keeps the invariant: the fragment continues the  *)
(* partial message.                                                         *)
LEMMA HandshakeRecords ==
  ASSUME RecordsInv, handle_handshake_record
  PROVE  RecordsInv'
<1>1. TypeInv /\ RowInv /\ ByteInv /\ RecInv /\ MessInv /\ StreamInv /\ LiveInv
      /\ pc = "input" /\ avail > 0 /\ pc # "messages"
  BY DEF RecordsInv, LiveInv, handle_handshake_record, NextRecord, Whole, HasHeader
<1>2. /\ Whole /\ wire' = SubSeq(wire, Needed - Len(rec) + 1, Len(wire)) /\ rec' = <<>>
      /\ avail' = avail - (Needed - Len(rec)) /\ Current.type = "handshake"
      /\ src' = mess \o Fragment(Current) /\ mess' = (IF mess = <<>> THEN mess ELSE src')
      /\ pc' = "messages"
      /\ UNCHANGED <<conf, messages, sent, extra, emitted, keys, done, got>>
  BY DEF handle_handshake_record, NextRecord, Consumed, IsHandshake, Flatten, sending
<1>3. /\ Needed - Len(rec) \in 1..avail
      /\ wire' \in Seq(Byte) /\ Len(wire') = Len(wire) - (Needed - Len(rec))
      /\ rec' \in Seq(Byte) /\ ByteInv'
      /\ Stream(rec' \o wire', EndOf(Current), sent)
  <2>1. UNCHANGED <<conf, sending>>
    BY <1>2 DEF sending
  <2>. QED  BY <1>1, <1>2, <2>1, TakeRecord
<1>4. /\ conf.api = "record" /\ Current \in RecordType /\ Current.first = Received
      /\ EndOf(Current) <= sent /\ RecordOK(messages, conf.peer, Current)
  BY <1>1, CurrentFacts
<1>5. Current.first \in Nat /\ Current.len \in Nat /\ EndOf(Current) = Received + Current.len
  BY <1>2, <1>4, RecordFacts DEF EndOf
<1>6. Current.epoch = keys
  BY <1>1, <1>4, PositionFacts DEF RecordOK
<1>. DEFINE f == Fragment(Current)
<1>7. /\ f \in Seq(Position) /\ Len(f) = Current.len
      /\ \A i \in 1..Len(f) : f[i].pos = (Received + i) - 1 /\ f[i].epoch = keys
  <2>1. /\ f \in Seq(Position) /\ Len(f) = Current.len
        /\ \A i \in 1..Current.len :
             f[i] = [pos |-> Current.first + i - 1, epoch |-> Current.epoch]
    <3>1. Current \in RecordType
      BY <1>4
    <3>2. /\ Fragment(Current) \in Seq(Position) /\ Len(Fragment(Current)) = Current.len
          /\ \A i \in 1..Current.len :
               Fragment(Current)[i] = [pos |-> Current.first + i - 1, epoch |-> Current.epoch]
      BY ONLY <3>1, FragmentFacts
    <3>. QED  BY <3>2
  <2>. HIDE DEF f
  <2>2. ASSUME NEW i \in 1..Len(f)  PROVE f[i].pos = (Received + i) - 1 /\ f[i].epoch = keys
    <3>1. f[i] = [pos |-> Current.first + i - 1, epoch |-> Current.epoch]
      BY <2>1
    <3>2. i \in Nat
      BY <1>5, <2>1
    <3>3. Current.first + i - 1 = (Received + i) - 1
      BY <1>4, <1>5, <3>2
    <3>. QED  BY <1>6, <3>1, <3>3
  <2>. QED  BY <2>1, <2>2
<1>. HIDE DEF f
<1>8. /\ src' \in Seq(Position) /\ Len(src') = Len(mess) + Len(f)
      /\ Len(f) \in Nat /\ Len(mess) \in Nat
      /\ \A i \in 1..Len(src') : src'[i].pos = (Base + i) - 1 /\ src'[i].epoch >= Ends(done)
  <2>1. src' = mess \o f
    BY <1>2 DEF f
  <2>. QED  BY <1>1, <1>7, <2>1, Flattened
<1>9. TypeInv'
  <2>1. avail' \in 0..Len(wire')
    <3>1. avail \in Nat /\ avail <= Len(wire) /\ Len(wire) \in Nat
      BY <1>1, LenFacts DEF TypeInv
    <3>. QED  BY <1>2, <1>3, <3>1
  <2>. QED  BY <1>1, <1>2, <1>3, <1>8, <2>1 DEF TypeInv
<1>10. Pending' = src' /\ Base' = Base /\ Received' = EndOf(Current)
  <2>1. Pending' = src' /\ Base' = Base /\ Received' = Base + Len(src')
    BY <1>2 DEF Pending, Base, Received
  <2>2. Received = Base + Len(mess) /\ Base \in Nat
    BY <1>1, PositionFacts
  <2>. QED  BY <1>5, <1>7, <1>8, <2>1, <2>2
<1>11. conf.peer = "picotls" => Len(src') <= messages[done + 1].size
  <2>1. SUFFICES ASSUME conf.peer = "picotls"  PROVE Len(src') <= messages[done + 1].size
    OBVIOUS
  <2>2. Current.len \in 1..MAX_PLAINTEXT /\ Within(messages, Current)
    BY <1>2, <1>4, <2>1 DEF RecordOK, OfPicotls
  <2>3. Current.len >= 1
    BY <1>5, <2>2, SizesAssumption
  <2>4. Len(mess) + Current.len <= messages[done + 1].size
    BY <1>1, <1>4, <2>2, <2>3, WithinNext
  <2>. QED  BY <1>7, <1>8, <2>4
<1>12. MessInv'
  <2>1. done' <= Len(messages') /\ keys' = Changes(done')
    BY <1>1, <1>2 DEF MessInv
  <2>2. Received' <= sent'
    BY <1>2, <1>4, <1>10
  <2>3. \A i \in 1..Len(Pending') : Pending'[i].pos = (Base' + i) - 1
                                    /\ Pending'[i].epoch >= Ends(done')
    BY <1>2, <1>8, <1>10
  <2>. QED  BY <1>2, <1>11, <2>1, <2>2, <2>3 DEF MessInv
<1>13. RowInv' /\ RecInv'
  BY <1>1, <1>2 DEF RowInv, RecInv
<1>14. StreamInv'
  BY <1>2, <1>3, <1>4, <1>10 DEF StreamInv
<1>15. PicotlsUnderstood'
  BY <1>2 DEF PicotlsUnderstood
<1>. QED  BY <1>3, <1>9, <1>12, <1>13, <1>14, <1>15 DEF RecordsInv, LiveInv

(* A piece of the stream behind the message API.                            *)
LEMMA PieceFacts ==
  ASSUME TypeInv, RowInv, MessInv, PieceInv, pc = "idle", NEW n \in 1..Len(wire)
  PROVE  /\ Piece(n) \in Seq(Position) /\ Len(Piece(n)) = n
         /\ \A i \in 1..n : Piece(n)[i].pos = (Received + i) - 1
<1>1. /\ Len(wire) \in Nat /\ \A j \in 1..Len(wire) : wire[j] \in Byte /\ wire[j].r \in RecordType
      /\ Received \in Nat
  BY LenFacts, PositionFacts
<1>2. \A i \in 1..n : i \in 1..Len(wire) /\ i \in Nat
  BY <1>1
<1>3. ASSUME NEW i \in 1..n
      PROVE  [pos |-> wire[i].r.first + wire[i].i - 1, epoch |-> wire[i].r.epoch] \in Position
             /\ wire[i].r.first + wire[i].i - 1 = (Received + i) - 1
  <2>1. /\ wire[i].r \in RecordType /\ wire[i].i \in Nat /\ wire[i].i >= 1 /\ i \in 1..Len(wire)
        /\ wire[i] \in Byte
    BY <1>1, <1>2, ByteFacts
  <2>2. wire[i].r.first \in Nat /\ wire[i].r.epoch \in Nat
    BY <2>1 DEF RecordType
  <2>3. wire[i].r.first + wire[i].i - 1 \in Nat
    BY <2>1, <2>2, SMTT(30)
  <2>4. wire[i].r.first + wire[i].i - 1 = (Received + i) - 1
    <3>1. (wire[i].r.first + wire[i].i) - 1 = (Received + i) - 1
      BY <2>1 DEF PieceInv
    <3>. QED  BY <2>1, <2>2, <3>1
  <2>. QED  BY <2>2, <2>3, <2>4 DEF Position
<1>4. Piece(n) \in [1..n -> Position]
  BY <1>3 DEF Piece
<1>5. Piece(n) \in Seq(Position) /\ Len(Piece(n)) = n
  <2>1. n \in Nat
    BY <1>1
  <2>. QED  BY <1>4, <2>1, FunctionSeq
<1>6. ASSUME NEW i \in 1..n  PROVE Piece(n)[i].pos = (Received + i) - 1
  <2>1. Piece(n)[i] = [pos |-> wire[i].r.first + wire[i].i - 1, epoch |-> wire[i].r.epoch]
    BY DEF Piece
  <2>. QED  BY <1>3, <2>1
<1>. QED  BY <1>5, <1>6

(* ptls_handle_message keeps the invariant: the piece continues the partial *)
(* message.                                                                 *)
LEMMA MessageRecords ==
  ASSUME RecordsInv, NEW n \in 1..Len(wire), ptls_handle_message(n)
  PROVE  RecordsInv'
<1>1. /\ TypeInv /\ RowInv /\ ByteInv /\ RecInv /\ MessInv /\ StreamInv /\ PieceInv
      /\ pc = "idle" /\ pc # "messages" /\ conf.api = "message"
  BY DEF RecordsInv, LiveInv, ptls_handle_message, StreamInv
<1>2. /\ src' = mess \o Piece(n) /\ mess' = (IF mess = <<>> THEN mess ELSE src')
      /\ wire' = Drop(wire, n) /\ pc' = "messages"
      /\ UNCHANGED <<conf, messages, sent, extra, emitted, avail, rec, keys, done, got>>
      /\ \A i \in 1..n : Piece(n)[i].epoch = keys
  BY DEF ptls_handle_message, Flatten, sending, Drop
<1>3. /\ Len(wire) \in Nat /\ n \in Nat /\ n <= Len(wire) /\ wire \in Seq(Byte) /\ n \in 0..Len(wire)
      /\ sent \in Nat
  BY <1>1, LenFacts DEF TypeInv
<1>4. /\ wire' \in Seq(Byte) /\ Len(wire') = Len(wire) - n
      /\ \A i \in 1..(Len(wire) - n) : wire'[i] = wire[n + i]
  BY <1>2, <1>3, DropFacts
<1>. DEFINE f == Piece(n)
<1>5. /\ f \in Seq(Position) /\ Len(f) = n
      /\ \A i \in 1..Len(f) : f[i].pos = (Received + i) - 1 /\ f[i].epoch = keys
  BY <1>1, <1>2, PieceFacts
<1>6. src' = mess \o f
  BY <1>2
<1>. HIDE DEF f
<1>7. /\ src' \in Seq(Position) /\ Len(src') = Len(mess) + Len(f)
      /\ Len(f) \in Nat /\ Len(mess) \in Nat
      /\ \A i \in 1..Len(src') : src'[i].pos = (Base + i) - 1 /\ src'[i].epoch >= Ends(done)
  BY <1>1, <1>5, <1>6, Flattened
<1>8. TypeInv'
  <2>1. avail' \in 0..Len(wire')
    BY <1>1, <1>2, <1>3, <1>4 DEF PieceInv
  <2>2. mess' \in Seq(Position)
    BY <1>1, <1>2, <1>7 DEF TypeInv
  <2>. QED  BY <1>1, <1>2, <1>4, <1>7, <2>1, <2>2 DEF TypeInv
<1>9. /\ Received = Base + Len(mess) /\ Base \in Nat /\ Received \in Nat
      /\ Received + Len(wire) = sent
  BY <1>1, PositionFacts DEF PieceInv
<1>10. Pending' = src' /\ Base' = Base /\ Received' = Received + n
  <2>1. Pending' = src' /\ Base' = Base /\ Received' = Base + Len(src')
    BY <1>2 DEF Pending, Base, Received
  <2>. QED  BY <1>5, <1>7, <1>9, <2>1
<1>11. Received' <= sent /\ Received' + Len(wire') = sent
  <2>1. /\ Received' = Received + n /\ Len(wire') = Len(wire) - n
        /\ Received \in Nat /\ n \in Nat /\ Len(wire) \in Nat /\ n <= Len(wire)
        /\ Received + Len(wire) = sent
    BY <1>3, <1>4, <1>9, <1>10
  <2>. QED  BY ONLY <2>1
<1>12. ASSUME NEW i \in 1..Len(wire')
       PROVE  i \in 1..(Len(wire) - n) /\ n + i \in 1..Len(wire) /\ i \in Nat
  BY <1>3, <1>4
<1>13. ByteInv'
  <2>1. ASSUME NEW j \in 1..Len(wire')  PROVE RecordOK(messages', conf'.peer, wire'[j].r)
    BY <1>1, <1>2, <1>4, <1>12 DEF ByteInv
  <2>2. \A j \in 1..Len(rec') : RecordOK(messages', conf'.peer, rec'[j].r)
    BY <1>1, <1>2 DEF ByteInv
  <2>. QED  BY <2>1, <2>2 DEF ByteInv
<1>14. PieceInv'
  <2>1. ASSUME NEW i \in 1..Len(wire')
        PROVE  /\ wire'[i].r.type = "handshake" /\ wire'[i].i <= wire'[i].r.len
               /\ (wire'[i].r.first + wire'[i].i) - 1 = (Received' + i) - 1
    <3>1. wire'[i] = wire[n + i]
      BY <1>4, <1>12
    <3>2. /\ wire[n + i].r.type = "handshake" /\ wire[n + i].i <= wire[n + i].r.len
          /\ (wire[n + i].r.first + wire[n + i].i) - 1 = (Received + (n + i)) - 1
      BY <1>1, <1>12 DEF PieceInv
    <3>3. (Received' + i) - 1 = (Received + (n + i)) - 1
      BY <1>3, <1>9, <1>10, <1>12
    <3>. QED  BY <3>1, <3>2, <3>3
  <2>2. rec' = <<>> /\ pc' # "input" /\ avail' = 0
    BY <1>1, <1>2 DEF PieceInv
  <2>. QED  BY <1>2, <1>11, <2>1, <2>2 DEF PieceInv
<1>15. MessInv'
  <2>1. done' <= Len(messages') /\ keys' = Changes(done')
    BY <1>1, <1>2 DEF MessInv
  <2>2. \A i \in 1..Len(Pending') : Pending'[i].pos = (Base' + i) - 1
                                    /\ Pending'[i].epoch >= Ends(done')
    BY <1>2, <1>7, <1>10
  <2>3. conf'.peer # "picotls"
    BY <1>1, <1>2, ConfFacts
  <2>. QED  BY <1>2, <1>11, <2>1, <2>2, <2>3 DEF MessInv
<1>16. RowInv' /\ RecInv'
  BY <1>1, <1>2 DEF RowInv, RecInv, PieceInv
<1>17. StreamInv'
  BY <1>1, <1>2, <1>14 DEF StreamInv
<1>18. PicotlsUnderstood'
  BY <1>2 DEF PicotlsUnderstood
<1>. QED  BY <1>8, <1>13, <1>15, <1>16, <1>17, <1>18 DEF RecordsInv, LiveInv

-----------------------------------------------------------------------------
(* Failures.  Nothing more is claimed of the buffers then, only that picotls*)
(* as the peer did not cause it.                                            *)
LEMMA PicotlsRecord ==
  ASSUME TypeInv, RowInv, LiveInv, pc = "input", avail > 0, conf.peer = "picotls"
  PROVE  /\ ~TooLong
         /\ \/ Accepts
            \/ \E m \in DOMAIN messages : message_buffer_is_overflow(messages[m].size)
<1>1. MessInv /\ pc # "messages"
  BY DEF LiveInv
<1>2. /\ Current \in RecordType /\ Current.first = Received /\ OfPicotls(messages, Current)
      /\ Current.epoch = EpochOf(messages, Current.first)
      /\ Current.type = "handshake" => Current.sealed = (Current.epoch > 0)
  BY CurrentFacts DEF RecordOK
<1>3. /\ Base \in Nat /\ Received = Base + Len(mess) /\ Received \in Nat
      /\ \A m \in 1..Len(messages) : EndIn(messages, m) <= Received <=> m <= done
      /\ EpochOf(messages, Received) = keys
      /\ mess # <<>> => done + 1 \in 1..Len(messages)
      /\ done + 1 \in 1..Len(messages) =>
           /\ messages[done + 1].start = Base
           /\ EndIn(messages, done + 1) = Base + messages[done + 1].size
           /\ messages[done + 1].size \in Nat
  BY <1>1, PositionFacts
<1>4. Current.epoch = keys /\ keys \in Nat
  BY <1>2, <1>3 DEF TypeInv
<1>5. /\ MAX_PLAINTEXT \in Nat /\ MAX_PLAINTEXT >= 2 /\ OVERHEAD \in Nat /\ EXPANSION \in Nat
      /\ OVERHEAD <= EXPANSION
  BY SizesAssumption
<1>6. /\ Len(messages) \in Nat /\ DOMAIN messages = 1..Len(messages) /\ done \in 0..Len(messages)
      /\ Len(Script) \in Nat /\ Len(messages) <= Len(Script)
      /\ Len(mess) \in Nat /\ (mess = <<>> <=> Len(mess) = 0)
  BY <1>1, RowFacts, LenFacts, ScriptAssumption, LenProperties DEF RowInv, MessInv, TypeInv
<1>7. Current.len \in Nat /\ Current.sealed \in BOOLEAN
  BY <1>2 DEF RecordType
<1>8. ~TooLong
  <2>1. Current.len <= MAX_PLAINTEXT
    BY <1>2, <1>5, <1>7 DEF OfPicotls
  <2>. QED  BY <1>5, <1>7, <2>1 DEF TooLong, Length
<1>9. Complete <=> FinishedAt(messages, Current.first)
  <2>1. ASSUME NEW m \in 1..done  PROVE m \in 1..Len(messages) /\ m <= Len(Script) /\ m <= done
    BY <1>6
  <2>2. ASSUME NEW m \in 1..Len(messages), m <= done  PROVE m \in 1..done /\ m <= Len(Script)
    BY <1>6, <2>2
  <2>3. \A m \in 1..Len(messages) : EndIn(messages, m) <= Current.first <=> m <= done
    BY <1>2, <1>3
  <2>. QED  BY <2>1, <2>2, <2>3 DEF Complete, FinishedAt
<1>10. Boundary(messages, Current.first) => mess = <<>>
  <2>1. SUFFICES ASSUME Boundary(messages, Current.first), mess # <<>>  PROVE FALSE
    OBVIOUS
  <2>2. /\ done + 1 \in 1..Len(messages) /\ ~(done + 1 <= done)
        /\ messages[done + 1].start = Base
    BY <1>3, <1>6, <2>1
  <2>3. ~(EndIn(messages, done + 1) <= Received)
    BY <1>3, <2>2
  <2>4. ~(Received <= messages[done + 1].start)
    BY <1>3, <1>6, <2>1, <2>2
  <2>. QED  BY <1>2, <2>1, <2>2, <2>3, <2>4 DEF Boundary
<1>11. CASE Current.type = "handshake"
  <2>1. /\ Current.len >= 1 /\ Within(messages, Current)
        /\ Current.sealed = (keys > 0)
    BY <1>2, <1>4, <1>5, <1>7, <1>11 DEF OfPicotls
  <2>2. IsHandshake
    BY <1>4, <1>11, <2>1 DEF IsHandshake, Opens
  <2>3. ASSUME Overflows(Current.len)
        PROVE  done + 1 \in DOMAIN messages /\ message_buffer_is_overflow(messages[done + 1].size)
    <3>1. done + 1 \in 1..Len(messages) /\ Len(mess) + Current.len <= messages[done + 1].size
      BY <1>1, <1>2, <2>1, WithinNext
    <3>2. conf.max_buffer_size \in Nat
      BY ConfFacts
    <3>. QED  BY <1>3, <1>6, <1>7, <2>3, <3>1, <3>2, SMTT(30) DEF Overflows, message_buffer_is_overflow
  <2>. QED  BY <1>8, <2>2, <2>3 DEF Accepts
<1>12. CASE Current.type = "ccs"
  <2>1. Current.len = 1 /\ ~Current.sealed /\ ~FinishedAt(messages, Current.first)
    BY <1>2, <1>12 DEF OfPicotls
  <2>. QED  BY <1>8, <1>9, <1>12, <2>1 DEF Accepts, SkipsCCS
<1>13. CASE Current.type = "appdata"
  <2>1. /\ Current.sealed /\ Current.epoch > 0 /\ FinishedAt(messages, Current.first)
        /\ Boundary(messages, Current.first)
    BY <1>2, <1>13 DEF OfPicotls
  <2>. QED  BY <1>4, <1>8, <1>9, <1>10, <1>13, <2>1 DEF Accepts, IsData, Opens
<1>14. CASE Current.type = "alert"
  <2>1. /\ Current.sealed /\ Current.epoch > 0 /\ Current.len = 2
        /\ Boundary(messages, Current.first)
    BY <1>2, <1>14 DEF OfPicotls
  <2>. QED  BY <1>4, <1>8, <1>10, <1>14, <2>1 DEF Accepts, IsAlert, Opens
<1>. QED  BY <1>2, <1>11, <1>12, <1>13, <1>14 DEF OfPicotls

(* The actions that end a connection keep the invariant: with picotls as    *)
(* the peer only a message larger than max_buffer_size can make one happen. *)
LEMMA FailRecords ==
  ASSUME RecordsInv,
         \/ handle_input_fails
         \/ handle_message_fails
         \/ message_overflow
         \/ \E n \in 1..Len(wire) : ptls_handle_message_fails(n)
  PROVE  RecordsInv'
<1>1. TypeInv /\ RowInv /\ LiveInv /\ pc # "failed"
  BY DEF RecordsInv, handle_input_fails, HasHeader, handle_message_fails, message_overflow,
         ptls_handle_message_fails
<1>2. /\ pc' = "failed" /\ mess' \in {mess, <<>>}
      /\ UNCHANGED <<conf, messages, sent, extra, emitted, wire, avail, rec, src, keys, done, got>>
  BY DEF handle_input_fails, handle_message_fails, message_overflow, ptls_handle_message_fails,
         Failed, sending
<1>3. TypeInv' /\ RowInv' /\ LiveInv'
  <2>1. mess' \in Seq(Position)
    BY <1>1, <1>2, EmptySeq DEF TypeInv
  <2>. QED  BY <1>1, <1>2, <2>1 DEF TypeInv, RowInv, LiveInv
<1>4. SUFFICES ASSUME conf.peer = "picotls", conf.api = "record"
               PROVE  \E m \in DOMAIN messages : message_buffer_is_overflow(messages[m].size)
  <2>1. (\E m \in DOMAIN messages : message_buffer_is_overflow(messages[m].size)) =>
          (\E m \in DOMAIN messages' : message_buffer_is_overflow(messages[m].size)')
    BY <1>2 DEF message_buffer_is_overflow
  <2>. QED  BY <1>2, <1>3, <2>1 DEF RecordsInv, PicotlsUnderstood
<1>5. CASE handle_input_fails
  <2>1. pc = "input" /\ avail > 0 /\ (TooLong \/ ~Accepts)
    BY <1>5 DEF handle_input_fails, HasHeader
  <2>. QED  BY <1>1, <1>4, <2>1, PicotlsRecord
<1>6. CASE handle_message_fails \/ message_overflow
  <2>1. MessInv /\ pc = "messages"
    BY <1>1, <1>6 DEF LiveInv, handle_message_fails, message_overflow
  <2>2. Len(src) \in Nat /\ (src = <<>> <=> Len(src) = 0) /\ conf.max_buffer_size \in Nat
    BY <1>1, LenFacts, ConfFacts
  <2>3. src # <<>>
    <3>1. CASE handle_message_fails
      BY <2>2, <3>1, SizesAssumption DEF handle_message_fails, Unhandled
    <3>2. CASE message_overflow
      BY <2>2, <3>2 DEF message_overflow, message_buffer_is_overflow
    <3>. QED  BY <1>6, <3>1, <3>2
  <2>4. /\ done + 1 \in 1..Len(messages) /\ mess_len = messages[done + 1].size
        /\ messages[done + 1].size \in Nat
    BY <1>1, <2>1, <2>3, MessageIs
  <2>5. Len(src) <= messages[done + 1].size
    BY <1>4, <2>1, <2>3 DEF MessInv
  <2>6. DOMAIN messages = 1..Len(messages)
    BY <1>1, RowFacts DEF RowInv
  <2>7. ~handle_message_fails
    <3>1. SUFFICES ASSUME Unhandled, ~MayHandle  PROVE FALSE
      BY <1>4 DEF handle_message_fails
    <3>. QED  BY <2>2, <2>4, <2>5, <3>1 DEF Unhandled, MayHandle
  <2>8. message_buffer_is_overflow(messages[done + 1].size)
    <3>1. message_buffer_is_overflow(Len(src))
      BY <1>6, <2>7 DEF message_overflow
    <3>. QED  BY <2>2, <2>4, <2>5, <3>1 DEF message_buffer_is_overflow
  <2>. QED  BY <2>4, <2>6, <2>8
<1>7. CASE \E n \in 1..Len(wire) : ptls_handle_message_fails(n)
  BY <1>4, <1>7 DEF ptls_handle_message_fails
<1>. QED  BY <1>5, <1>6, <1>7

(* handle_alert keeps the invariant.                                        *)
LEMMA AlertRecords ==
  ASSUME RecordsInv, handle_alert
  PROVE  RecordsInv'
<1>1. /\ TypeInv /\ RowInv /\ LiveInv /\ Whole /\ pc' = "failed"
      /\ wire' = SubSeq(wire, Needed - Len(rec) + 1, Len(wire)) /\ rec' = <<>>
      /\ avail' = avail - (Needed - Len(rec)) /\ got' = Append(got, AsItem("alert", 0))
      /\ UNCHANGED <<conf, messages, sent, extra, emitted, mess, src, keys, done>>
  BY DEF RecordsInv, handle_alert, NextRecord, Consumed, sending
<1>2. /\ Needed - Len(rec) \in 1..avail
      /\ wire' \in Seq(Byte) /\ Len(wire') = Len(wire) - (Needed - Len(rec))
      /\ rec' \in Seq(Byte)
  <2>1. UNCHANGED <<conf, sending>>
    BY <1>1 DEF sending
  <2>. QED  BY <1>1, <2>1, TakeRecord
<1>3. /\ got' \in Seq(Items) /\ got' # <<>> /\ got'[Len(got')].type = "alert"
  <2>1. AsItem("alert", 0) \in Items /\ got \in Seq(Items) /\ AsItem("alert", 0).type = "alert"
    BY <1>1 DEF AsItem, Items, TypeInv
  <2>2. /\ got' \in Seq(Items) /\ Len(got') = Len(got) + 1 /\ Len(got) \in Nat
        /\ got'[Len(got) + 1] = AsItem("alert", 0)
    BY <1>1, <2>1, AppendProperties, LenProperties
  <2>3. got' # <<>>
    BY <2>2, EmptySeq
  <2>. QED  BY <2>1, <2>2, <2>3
<1>4. avail' \in 0..Len(wire')
  <2>1. avail \in Nat /\ avail <= Len(wire) /\ Len(wire) \in Nat
    BY <1>1, LenFacts DEF TypeInv
  <2>. QED  BY <1>1, <1>2, <2>1
<1>. QED  BY <1>1, <1>2, <1>3, <1>4 DEF RecordsInv, TypeInv, RowInv, LiveInv, PicotlsUnderstood

-----------------------------------------------------------------------------
(* The peer goes on: no record on its way reaches beyond what was composed, *)
(* and what was composed stays.                                             *)
LEMMA OldBytes ==
  ASSUME TypeInv, RowInv, LiveInv, pc = "idle"
  PROVE  /\ \A j \in 1..Len(rec) : rec[j].r.first <= TotalOf(messages)
         /\ \A j \in 1..Len(wire) : wire[j].r.first <= TotalOf(messages)
<1>1. /\ MessInv /\ StreamInv /\ sent \in Nat /\ sent <= TotalOf(messages) /\ TotalOf(messages) \in Nat
  BY RowFacts DEF LiveInv, TypeInv, RowInv
<1>2. /\ Len(rec) \in Nat /\ Len(wire) \in Nat /\ rec \in Seq(Byte) /\ wire \in Seq(Byte)
      /\ \A j \in 1..Len(rec) : rec[j] \in Byte /\ rec[j].r \in RecordType
      /\ \A j \in 1..Len(wire) : wire[j] \in Byte /\ wire[j].r \in RecordType
  BY LenFacts DEF TypeInv
<1>3. CASE conf.api = "record"
  <2>. DEFINE S == rec \o wire
  <2>1. /\ S \in Seq(Byte) /\ Len(S) = Len(rec) + Len(wire)
        /\ \A i \in 1..Len(rec) : S[i] = rec[i]
        /\ \A i \in 1..Len(wire) : S[Len(rec) + i] = wire[i]
    BY <1>2, ConcatFacts
  <2>2. Stream(S, Received, sent)
    BY <1>1, <1>3 DEF StreamInv
  <2>. HIDE DEF S
  <2>3. ASSUME NEW j \in 1..Len(S)  PROVE S[j].r.first <= TotalOf(messages)
    <3>1. EndOf(S[j].r) <= sent
      BY <2>2 DEF Stream, OrderedAt
    <3>2. S[j].r \in RecordType
      BY <2>1, ElementOfSeq, ByteFacts
    <3>3. S[j].r.first \in Nat /\ EndOf(S[j].r) \in Nat /\ S[j].r.first <= EndOf(S[j].r)
      BY <3>2, RecordFacts
    <3>. QED  BY <1>1, <3>1, <3>3
  <2>4. \A i \in 1..Len(rec) : i \in 1..Len(S)
    BY <1>2, <2>1
  <2>5. \A i \in 1..Len(wire) : Len(rec) + i \in 1..Len(S)
    BY <1>2, <2>1
  <2>. QED  BY <2>1, <2>3, <2>4, <2>5
<1>4. CASE conf.api # "record"
  <2>1. PieceInv
    BY <1>1, <1>4 DEF StreamInv
  <2>2. ASSUME NEW j \in 1..Len(wire)  PROVE wire[j].r.first <= TotalOf(messages)
    <3>1. (wire[j].r.first + wire[j].i) - 1 = (Received + j) - 1 /\ Received + Len(wire) = sent
      BY <2>1 DEF PieceInv
    <3>2. wire[j].r.first \in Nat /\ wire[j].i \in Nat /\ wire[j].i >= 1
      BY <1>2, RecordFacts, ByteFacts
    <3>3. Received \in Nat /\ j \in Nat /\ j <= Len(wire)
      BY <1>1, <1>2, PositionFacts
    <3>. QED  BY <1>1, <1>2, <3>1, <3>2, <3>3
  <2>3. \A j \in 1..Len(rec) : FALSE
    BY <2>1, EmptySeq DEF PieceInv
  <2>. QED  BY <2>2, <2>3
<1>. QED  BY <1>3, <1>4

(* What the receiver holds is not disturbed when the peer composes or sends *)
(* more.                                                                    *)
LEMMA GrownMessages ==
  ASSUME TypeInv, RowInv, LiveInv, pc = "idle", sent' \in Nat, sent <= sent',
         messages' = messages \/ \E size \in Sizes : messages' = Added(messages, size),
         UNCHANGED <<conf, rec, mess, src, pc, keys, done>>
  PROVE  /\ InRow(messages') /\ MessInv' /\ RecInv' /\ Base' = Base /\ Received' = Received
         /\ \A j \in 1..Len(rec) : RecordOK(messages', conf.peer, rec[j].r)
         /\ \A j \in 1..Len(wire) : RecordOK(messages', conf.peer, wire[j].r)
<1>1. ByteInv /\ RecInv /\ MessInv /\ StreamInv /\ pc # "messages" /\ pc' # "messages"
  BY DEF LiveInv
<1>2. /\ InRow(messages) /\ Len(messages) \in Nat /\ sent \in Nat /\ done \in 0..Len(messages)
  BY <1>1, RowFacts DEF RowInv, TypeInv, MessInv
<1>3. /\ InRow(messages') /\ Len(messages') \in Nat /\ Len(messages) <= Len(messages')
      /\ \A m \in 1..Len(messages) : messages'[m] = messages[m]
      /\ \A n \in 0..Len(messages) : BaseOf(messages', n) = BaseOf(messages, n)
  <2>1. CASE messages' = messages
    BY <1>2, <2>1
  <2>2. ASSUME NEW size \in Sizes, messages' = Added(messages, size)
        PROVE  /\ InRow(messages') /\ Len(messages') \in Nat /\ Len(messages) <= Len(messages')
               /\ \A m \in 1..Len(messages) : messages'[m] = messages[m]
               /\ \A n \in 0..Len(messages) : BaseOf(messages', n) = BaseOf(messages, n)
    <3>1. /\ Len(Added(messages, size)) = Len(messages) + 1
          /\ \A m \in 1..Len(messages) : Added(messages, size)[m] = messages[m]
          /\ \A n \in 0..Len(messages) : BaseOf(Added(messages, size), n) = BaseOf(messages, n)
          /\ InRow(Added(messages, size))
      BY <1>2, ComposeFacts
    <3>2. Len(messages') = Len(messages) + 1
      BY <2>2, <3>1
    <3>3. Len(messages') \in Nat /\ Len(messages) <= Len(messages')
      BY <1>2, <3>2
    <3>. QED  BY <2>2, <3>1, <3>3
  <2>. QED  BY <2>1, <2>2
<1>4. Base' = Base /\ Pending' = Pending /\ Pending = mess /\ Received' = Received
  <2>1. Base' = Base
    BY <1>2, <1>3 DEF Base
  <2>2. Pending' = Pending /\ Pending = mess
    BY <1>1 DEF Pending
  <2>. QED  BY <2>1, <2>2 DEF Received
<1>5. RecInv'
  BY <1>1 DEF RecInv
<1>6. MessInv'
  <2>1. done' <= Len(messages') /\ keys' = Changes(done')
    BY <1>1, <1>2, <1>3 DEF MessInv
  <2>2. Received' <= sent'
    <3>1. Received \in Nat /\ Received <= sent
      BY <1>1, PositionFacts DEF MessInv
    <3>. QED  BY <1>2, <1>4, <3>1
  <2>3. \A i \in 1..Len(Pending') : Pending'[i].pos = (Base' + i) - 1
                                    /\ Pending'[i].epoch >= Ends(done')
    BY <1>1, <1>4 DEF MessInv
  <2>4. mess' # <<>> => Len(mess') < messages'[done' + 1].size
                        /\ ~message_buffer_is_overflow(Len(mess))'
    <3>1. SUFFICES ASSUME mess # <<>>
                   PROVE  Len(mess) < messages'[done + 1].size /\ ~message_buffer_is_overflow(Len(mess))'
      OBVIOUS
    <3>2. done + 1 \in 1..Len(messages)
      BY <1>1, <3>1, PositionFacts
    <3>3. Len(mess) < messages[done + 1].size /\ ~message_buffer_is_overflow(Len(mess))
      BY <1>1, <3>1 DEF MessInv
    <3>. QED  BY <1>3, <3>2, <3>3 DEF message_buffer_is_overflow
  <2>5. src' = <<>>
    BY <1>1 DEF MessInv
  <2>. QED  BY <1>1, <2>1, <2>2, <2>3, <2>4, <2>5 DEF MessInv
<1>7. ASSUME NEW r \in RecordType, RecordOK(messages, conf.peer, r), r.first <= TotalOf(messages)
      PROVE  RecordOK(messages', conf.peer, r)
  <2>1. CASE messages' = messages
    BY <1>7, <2>1
  <2>2. CASE \E size \in Sizes : messages' = Added(messages, size)
    BY <1>2, <1>7, <2>2, ComposeRecord
  <2>. QED  BY <2>1, <2>2
<1>8. /\ \A j \in 1..Len(rec) : rec[j].r \in RecordType /\ rec[j].r.first <= TotalOf(messages)
      /\ \A j \in 1..Len(wire) : wire[j].r \in RecordType /\ wire[j].r.first <= TotalOf(messages)
  BY LenFacts, OldBytes
<1>9. /\ \A j \in 1..Len(rec) : RecordOK(messages', conf.peer, rec[j].r)
      /\ \A j \in 1..Len(wire) : RecordOK(messages', conf.peer, wire[j].r)
  BY <1>1, <1>7, <1>8 DEF ByteInv
<1>. QED  BY <1>3, <1>4, <1>5, <1>6, <1>9

(* Records are put behind the others.                                       *)
LEMMA SentRecords ==
  ASSUME RecordsInv, pc = "idle", NEW b \in Seq(Byte),
         messages' = messages \/ \E size \in Sizes : messages' = Added(messages, size),
         Len(messages') <= Len(Script), wire' = wire \o b, sent' \in Nat, sent <= sent',
         IF conf.api = "record" THEN Stream(b, sent, sent') ELSE PieceInv',
         \A j \in 1..Len(b) : RecordOK(messages', conf.peer, b[j].r),
         sent' <= TotalOf(messages'), conf.peer = "picotls" => sent' = TotalOf(messages'),
         extra' \in 0..MaxExtra, emitted' \in Seq(Items),
         UNCHANGED <<conf, avail, rec, mess, src, pc, keys, done, got>>
  PROVE  RecordsInv'
<1>1. TypeInv /\ RowInv /\ LiveInv /\ StreamInv
  BY DEF RecordsInv, LiveInv
<1>2. /\ InRow(messages') /\ MessInv' /\ RecInv' /\ Received' = Received
      /\ \A j \in 1..Len(rec) : RecordOK(messages', conf.peer, rec[j].r)
      /\ \A j \in 1..Len(wire) : RecordOK(messages', conf.peer, wire[j].r)
  <2>1. UNCHANGED <<conf, rec, mess, src, pc, keys, done>>
    OBVIOUS
  <2>. QED  BY <1>1, <2>1, GrownMessages
<1>3. RowInv'
  BY <1>2 DEF RowInv
<1>4. /\ rec \in Seq(Byte) /\ wire \in Seq(Byte) /\ Len(wire) \in Nat /\ Len(b) \in Nat
  BY <1>1, LenProperties DEF TypeInv
<1>5. /\ wire' \in Seq(Byte) /\ Len(wire') = Len(wire) + Len(b)
      /\ \A i \in 1..Len(wire) : wire'[i] = wire[i]
      /\ \A i \in 1..Len(b) : wire'[Len(wire) + i] = b[i]
  BY <1>4, ConcatFacts
<1>6. TypeInv'
  <2>1. avail' \in 0..Len(wire')
    <3>1. avail \in Nat /\ avail <= Len(wire) /\ avail' = avail
      BY <1>1, <1>4 DEF TypeInv
    <3>. QED  BY <1>4, <1>5, <3>1
  <2>. QED  BY <1>1, <1>5, <2>1 DEF TypeInv
<1>7. ByteInv'
  <2>1. ASSUME NEW j \in 1..Len(wire')  PROVE RecordOK(messages', conf'.peer, wire'[j].r)
    <3>1. CASE j \in 1..Len(wire)
      BY <1>2, <1>5, <3>1
    <3>2. CASE j \notin 1..Len(wire)
      <4>1. j - Len(wire) \in 1..Len(b) /\ Len(wire) + (j - Len(wire)) = j
        BY <1>4, <1>5, <3>2
      <4>2. wire'[j] = b[j - Len(wire)]
        BY <1>5, <4>1
      <4>. QED  BY <4>1, <4>2
    <3>. QED  BY <3>1, <3>2
  <2>. QED  BY <1>2, <2>1 DEF ByteInv
<1>8. StreamInv'
  <2>1. CASE conf.api = "record"
    <3>1. Stream(rec \o wire, Received, sent) /\ Stream(b, sent, sent')
      BY <1>1, <2>1 DEF StreamInv
    <3>2. Stream((rec \o wire) \o b, Received, sent')
      BY <3>1, ConcatStreams
    <3>3. rec' \o wire' = (rec \o wire) \o b
      <4>1. (rec \o wire) \o b = rec \o (wire \o b)
        <5>1. rec \in Seq(Byte) /\ wire \in Seq(Byte) /\ b \in Seq(Byte)
          BY <1>4
        <5>. QED  BY ONLY <5>1, ConcatAssociative, SMTT(30)
      <4>2. rec' \o wire' = rec \o (wire \o b)
        OBVIOUS
      <4>. QED  BY <4>1, <4>2
    <3>. QED  BY <1>2, <2>1, <3>2, <3>3 DEF StreamInv
  <2>2. CASE conf.api # "record"
    BY <2>2 DEF StreamInv
  <2>. QED  BY <2>1, <2>2
<1>9. PicotlsUnderstood'
  BY DEF PicotlsUnderstood
<1>. QED  BY <1>2, <1>3, <1>6, <1>7, <1>8, <1>9 DEF RecordsInv, LiveInv

(* Composing a message keeps the invariant.                                 *)
LEMMA ComposeRecords ==
  ASSUME RecordsInv, NEW size \in Sizes, ComposeMessage(size)
  PROVE  RecordsInv'
<1>1. /\ TypeInv /\ RowInv /\ LiveInv /\ StreamInv /\ pc = "idle" /\ InRow(messages)
      /\ messages \in Messages
  BY DEF RecordsInv, LiveInv, ComposeMessage, RowInv, InRow
<1>2. /\ messages' = Added(messages, size) /\ conf.peer = "other" /\ Len(messages) < Len(Script)
      /\ UNCHANGED <<conf, sent, extra, emitted, wire, avail, rec, mess, src, pc, keys, done, got>>
  BY <1>1, AsValues DEF ComposeMessage, Compose, Added, receiving
<1>3. /\ Len(messages') = Len(messages) + 1 /\ Len(messages) \in Nat
      /\ TotalOf(messages') = TotalOf(messages) + size /\ TotalOf(messages) \in Nat /\ size \in Nat
  BY <1>1, <1>2, ComposeFacts, RowFacts, SizesFacts
<1>4. Len(messages') <= Len(Script) /\ sent' \in Nat /\ sent <= sent' /\ sent' <= TotalOf(messages')
  <2>1. Len(Script) \in Nat /\ sent \in Nat /\ sent <= TotalOf(messages)
    BY <1>1, ScriptAssumption, LenProperties DEF TypeInv, RowInv
  <2>. QED  BY <1>2, <1>3, <2>1
<1>5. /\ InRow(messages') /\ MessInv' /\ RecInv' /\ Received' = Received
      /\ \A j \in 1..Len(rec) : RecordOK(messages', conf.peer, rec[j].r)
      /\ \A j \in 1..Len(wire) : RecordOK(messages', conf.peer, wire[j].r)
  <2>1. messages' = messages \/ \E s \in Sizes : messages' = Added(messages, s)
    BY <1>2
  <2>2. UNCHANGED <<conf, rec, mess, src, pc, keys, done>>
    BY <1>2
  <2>. QED  BY <1>1, <1>4, <2>1, <2>2, GrownMessages
<1>6. RowInv'
  BY <1>2, <1>4, <1>5 DEF RowInv
<1>7. TypeInv'
  BY <1>1, <1>2 DEF TypeInv
<1>8. ByteInv'
  BY <1>2, <1>5 DEF ByteInv
<1>9. StreamInv'
  BY <1>1, <1>2, <1>5 DEF StreamInv, PieceInv
<1>10. PicotlsUnderstood'
  BY <1>1, <1>2 DEF PicotlsUnderstood
<1>. QED  BY <1>5, <1>6, <1>7, <1>8, <1>9, <1>10 DEF RecordsInv, LiveInv

(* A record of the bytes behind those sent is as it should be.              *)
LEMMA RecordNow ==
  ASSUME TypeInv, RowInv, NEW type \in Types \cup {"handshake"}, NEW len \in Nat,
         NEW sealed \in BOOLEAN, NEW first \in Nat
  PROVE  LET r == Record(type, first, len, sealed)
         IN  /\ r \in RecordType /\ r.epoch = EpochOf(messages, first)
             /\ r.type = type /\ r.first = first /\ r.len = len /\ r.sealed = sealed
<1>1. EpochAt(first) = EpochOf(messages, first)
  BY AsValues DEF RowInv, InRow
<1>2. EpochOf(messages, first) \in Nat
  <2>1. PICK n \in 0..Len(messages) : \A m \in 1..Len(messages) : EndIn(messages, m) <= first <=> m <= n
    BY EndedSet DEF RowInv
  <2>2. DOMAIN messages = 1..Len(messages) /\ Len(messages) \in Nat
    BY RowFacts DEF RowInv
  <2>3. IsFiniteSet({m \in DOMAIN messages : Script[m] \in KeyChanging /\ EndIn(messages, m) <= first})
    <3>1. IsFiniteSet(1..Len(messages))
      BY <2>2, FS_Interval
    <3>. QED  BY <2>2, <3>1, FS_Subset
  <2>. QED  BY <2>3, FS_CardinalityType DEF EpochOf
<1>. QED  BY <1>1, <1>2 DEF Record, RecordType

(* What SendFragment does: a record that continues the handshake stream,    *)
(* under the key of its first byte.                                         *)
LEMMA FragmentIs ==
  ASSUME RecordsInv, NEW len \in 0..MAX_PLAINTEXT, SendFragment(len)
  PROVE  /\ TypeInv /\ RowInv /\ LiveInv /\ StreamInv /\ MessInv /\ pc = "idle" /\ InRow(messages)
         /\ messages \in Messages /\ sent \in Nat /\ sent <= TotalOf(messages) /\ len \in Nat
         /\ pc # "messages" /\ extra \in 0..MaxExtra /\ MaxExtra \in Nat
         /\ sent' = sent + len /\ conf.peer = "other"
         /\ len <= TotalOf(messages) - sent
         /\ len = 0 => extra < MaxExtra
         /\ extra' = extra + (IF len = 0 THEN 1 ELSE 0)
         /\ emitted' = emitted \o [k \in 1..(EndedOf(messages, sent + len) - EndedOf(messages, sent)) |->
                                     AsItem("handshake", EndedOf(messages, sent) + k)]
         /\ UNCHANGED <<conf, messages, avail, rec, mess, src, pc, keys, done, got>>
         /\ \E r \in RecordType :
              /\ wire' = wire \o Bytes(r)
              /\ r.epoch = EpochOf(messages, sent) /\ r.type = "handshake"
              /\ r.first = sent /\ r.len = len /\ r.sealed = (r.epoch > 0)
<1>. DEFINE r == Record("handshake", sent, len, EpochAt(sent) > 0)
            b == Bytes(r)
<1>1. /\ TypeInv /\ RowInv /\ LiveInv /\ StreamInv /\ MessInv /\ pc = "idle" /\ InRow(messages)
      /\ messages \in Messages /\ sent \in Nat /\ sent <= TotalOf(messages) /\ len \in Nat
      /\ pc # "messages" /\ extra \in 0..MaxExtra /\ MaxExtra \in Nat
  <2>1. TypeInv /\ RowInv /\ LiveInv /\ pc = "idle" /\ pc # "messages"
    BY DEF RecordsInv, SendFragment
  <2>2. StreamInv /\ MessInv
    BY <2>1 DEF LiveInv
  <2>3. InRow(messages) /\ messages \in Messages /\ sent <= TotalOf(messages)
    BY <2>1 DEF RowInv, InRow
  <2>4. sent \in Nat /\ extra \in 0..MaxExtra
    BY <2>1 DEF TypeInv
  <2>5. len \in Nat /\ MaxExtra \in Nat
    BY SizesAssumption, BoundsAssumption
  <2>. QED  BY <2>1, <2>2, <2>3, <2>4, <2>5
<1>2. /\ wire' = wire \o b /\ sent' = sent + len /\ conf.peer = "other"
      /\ len <= TotalOf(messages) - sent
      /\ len = 0 => extra < MaxExtra
      /\ extra' = extra + (IF len = 0 THEN 1 ELSE 0)
      /\ emitted' = emitted \o [k \in 1..(EndedOf(messages, sent + len) - EndedOf(messages, sent)) |->
                                  AsItem("handshake", EndedOf(messages, sent) + k)]
      /\ UNCHANGED <<conf, messages, avail, rec, mess, src, pc, keys, done, got>>
  <2>1. /\ wire' = wire \o b /\ sent' = sent + len /\ conf.peer = "other"
        /\ len <= Total - sent
        /\ len = 0 => extra < MaxExtra
        /\ extra' = extra + (IF len = 0 THEN 1 ELSE 0)
        /\ emitted' = emitted \o [k \in 1..(Ended(sent + len) - Ended(sent)) |->
                                    AsItem("handshake", Ended(sent) + k)]
        /\ UNCHANGED <<conf, messages, avail, rec, mess, src, pc, keys, done, got>>
    BY DEF SendFragment
  <2>2. /\ Total = TotalOf(messages) /\ Ended(sent) = EndedOf(messages, sent)
        /\ Ended(sent + len) = EndedOf(messages, sent + len)
    BY <1>1, AsValues
  <2>. QED  BY <2>1, <2>2
<1>3. /\ r \in RecordType /\ r.epoch = EpochOf(messages, sent) /\ r.type = "handshake"
      /\ r.first = sent /\ r.len = len /\ r.sealed = (r.epoch > 0)
  <2>1. EpochAt(sent) = EpochOf(messages, sent) /\ (EpochAt(sent) > 0) \in BOOLEAN
    BY <1>1, AsValues
  <2>2. "handshake" \in Types \cup {"handshake"}
    OBVIOUS
  <2>3. /\ r \in RecordType /\ r.epoch = EpochOf(messages, sent) /\ r.type = "handshake"
        /\ r.first = sent /\ r.len = len /\ r.sealed = (EpochAt(sent) > 0)
    <3>. DEFINE sealed == EpochAt(sent) > 0
                q == Record("handshake", sent, len, sealed)
    <3>1. sealed \in BOOLEAN
      BY <2>1
    <3>2. r = q
      OBVIOUS
    <3>. HIDE DEF sealed, r
    <3>3. /\ q \in RecordType /\ q.epoch = EpochOf(messages, sent) /\ q.type = "handshake"
          /\ q.first = sent /\ q.len = len /\ q.sealed = sealed
      BY <1>1, <2>2, <3>1, RecordNow
    <3>. HIDE DEF q
    <3>. QED  BY <3>2, <3>3 DEF sealed
  <2>. QED  BY <2>1, <2>3
<1>. QED  BY <1>1, <1>2, <1>3

(* SendFragment keeps the invariant.                                        *)
LEMMA FragmentRecords ==
  ASSUME RecordsInv, NEW len \in 0..MAX_PLAINTEXT, SendFragment(len)
  PROVE  RecordsInv'
<1>1. /\ TypeInv /\ RowInv /\ LiveInv /\ StreamInv /\ MessInv /\ pc = "idle" /\ InRow(messages)
      /\ messages \in Messages /\ sent \in Nat /\ sent <= TotalOf(messages) /\ len \in Nat
      /\ pc # "messages" /\ extra \in 0..MaxExtra /\ MaxExtra \in Nat
  BY FragmentIs
<1>2. /\ sent' = sent + len /\ conf.peer = "other"
      /\ len <= TotalOf(messages) - sent
      /\ len = 0 => extra < MaxExtra
      /\ extra' = extra + (IF len = 0 THEN 1 ELSE 0)
      /\ emitted' = emitted \o [k \in 1..(EndedOf(messages, sent + len) - EndedOf(messages, sent)) |->
                                  AsItem("handshake", EndedOf(messages, sent) + k)]
      /\ UNCHANGED <<conf, messages, avail, rec, mess, src, pc, keys, done, got>>
  BY FragmentIs
<1>3. PICK r \in RecordType :
      /\ wire' = wire \o Bytes(r)
      /\ r.epoch = EpochOf(messages, sent) /\ r.type = "handshake"
      /\ r.first = sent /\ r.len = len /\ r.sealed = (r.epoch > 0)
  BY FragmentIs
<1>. DEFINE b == Bytes(r)
<1>4. TotalOf(messages) \in Nat /\ sent' \in Nat /\ sent <= sent' /\ sent' <= TotalOf(messages)
  BY <1>1, <1>2, RowFacts
<1>5. RecordOK(messages', conf.peer, r)
  BY <1>2, <1>3 DEF RecordOK
<1>6. extra' \in 0..MaxExtra
  BY <1>1, <1>2
<1>7. emitted' \in Seq(Items)
  <2>. DEFINE x == EndedOf(messages, sent)
              y == EndedOf(messages, sent + len)
              new == [k \in 1..(y - x) |-> AsItem("handshake", x + k)]
  <2>1. x \in Nat /\ y \in Nat
    BY <1>1, EndedSet, SMTT(30)
  <2>. HIDE DEF x, y
  <2>2. \A k \in 1..(y - x) : AsItem("handshake", x + k) \in Items
    BY <2>1 DEF AsItem, Items
  <2>3. new \in Seq(Items)
    <3>1. CASE y - x \in Nat
      BY <2>2, <3>1, FunctionSeq
    <3>2. CASE y - x \notin Nat
      <4>1. 1..(y - x) = {} /\ 1..0 = {}
        BY <2>1, <3>2
      <4>2. new \in [1..0 -> Items]
        BY <4>1
      <4>. QED  BY <4>2, FunctionSeq
    <3>. QED  BY <3>1, <3>2
  <2>4. emitted' = emitted \o new /\ emitted \in Seq(Items)
    BY <1>1, <1>2 DEF x, y, TypeInv
  <2>. HIDE DEF new
  <2>. QED  BY <2>3, <2>4, ConcatFacts
<1>8. Len(messages') <= Len(Script) /\ messages' = messages
  BY <1>1, <1>2 DEF RowInv
<1>9. CASE conf.api = "record"
  <2>1. b = [i \in 1..Size(r) |-> [r |-> r, i |-> i]]
    BY <1>9 DEF Bytes, Extent, Size
  <2>2. EndOf(r) = sent'
    BY <1>2, <1>3 DEF EndOf
  <2>3. /\ Stream(b, sent, sent') /\ Len(b) = Size(r)
        /\ \A j \in 1..Size(r) : b[j] = [r |-> r, i |-> j]
    BY <1>3, <2>1, <2>2, OneRecord
  <2>0. wire' = wire \o b
    BY <1>3
  <2>. HIDE DEF b
  <2>4. \A j \in 1..Len(b) : RecordOK(messages', conf.peer, b[j].r)
    BY <1>5, <2>3
  <2>5. b \in Seq(Byte)
    BY <2>3 DEF Stream
  <2>. QED  BY <1>1, <1>2, <2>0, <1>4, <1>6, <1>7, <1>8, <1>9, <2>3, <2>4, <2>5, SentRecords
<1>10. CASE conf.api # "record"
  <2>1. b = [i \in 1..len |-> [r |-> r, i |-> i]]
    BY <1>3, <1>10 DEF Bytes, Extent
  <2>2. b \in Seq(Byte) /\ Len(b) = len /\ \A i \in 1..len : b[i] = [r |-> r, i |-> i]
    <3>1. b \in [1..len -> Byte]
      BY <1>1, <1>3, <2>1, RecordFacts
    <3>. QED  BY <1>1, <2>1, <3>1, FunctionSeq
  <2>0. wire' = wire \o b
    BY <1>3
  <2>. HIDE DEF b
  <2>3. \A j \in 1..Len(b) : RecordOK(messages', conf.peer, b[j].r)
    BY <1>5, <2>2
  <2>4. PieceInv'
    <3>1. PieceInv
      BY <1>1, <1>10 DEF StreamInv
    <3>2. Received' = Received /\ Received \in Nat /\ Received + Len(wire) = sent /\ Len(wire) \in Nat
      <4>1. Received' = Received
        BY <1>2 DEF Received, Base, Pending
      <4>. QED  BY <1>1, <3>1, <4>1, PositionFacts, LenFacts DEF PieceInv
    <3>3. /\ Len(wire') = Len(wire) + len
          /\ \A i \in 1..Len(wire) : wire'[i] = wire[i]
          /\ \A i \in 1..len : wire'[Len(wire) + i] = b[i]
      <4>1. wire \in Seq(Byte) /\ b \in Seq(Byte)
        BY <1>1, <2>2 DEF TypeInv
      <4>2. /\ Len(wire \o b) = Len(wire) + Len(b)
            /\ \A i \in 1..Len(wire) : (wire \o b)[i] = wire[i]
            /\ \A i \in 1..Len(b) : (wire \o b)[Len(wire) + i] = b[i]
        BY ONLY <4>1, ConcatFacts
      <4>. QED  BY <2>0, <2>2, <4>2
    <3>4. ASSUME NEW i \in 1..Len(wire')
          PROVE  /\ wire'[i].r.type = "handshake" /\ wire'[i].i <= wire'[i].r.len
                 /\ (wire'[i].r.first + wire'[i].i) - 1 = (Received + i) - 1
      <4>1. CASE i \in 1..Len(wire)
        BY <3>1, <3>3, <4>1 DEF PieceInv
      <4>2. CASE i \notin 1..Len(wire)
        <5>. DEFINE k == i - Len(wire)
        <5>1. k \in 1..len /\ Len(wire) + k = i /\ k \in Nat /\ k <= len
          BY <1>1, <3>2, <3>3, <4>2
        <5>. HIDE DEF k
        <5>2. wire'[i] = [r |-> r, i |-> k]
          BY <2>2, <3>3, <5>1
        <5>3. wire'[i].r = r /\ wire'[i].i = k
          BY <5>2
        <5>4. (sent + k) - 1 = (Received + i) - 1
          BY <3>2, <5>1
        <5>. QED  BY <1>3, <5>1, <5>3, <5>4
      <4>. QED  BY <4>1, <4>2
    <3>5. Received' + Len(wire') = sent'
      <4>1. /\ Received' = Received /\ Len(wire') = Len(wire) + len /\ sent' = sent + len
            /\ Received + Len(wire) = sent /\ Received \in Nat /\ Len(wire) \in Nat /\ len \in Nat
        BY <1>1, <1>2, <3>2, <3>3
      <4>. QED  BY ONLY <4>1
    <3>6. rec' = <<>> /\ pc' # "input" /\ avail' = 0
      BY <1>2, <3>1 DEF PieceInv
    <3>. QED  BY <3>2, <3>4, <3>5, <3>6 DEF PieceInv
  <2>. QED  BY <1>1, <1>2, <2>0, <1>4, <1>6, <1>7, <1>8, <1>10, <2>2, <2>3, <2>4, SentRecords
<1>. QED  BY <1>9, <1>10

(* A record without handshake bytes.                                        *)
LEMMA OtherIs ==
  ASSUME RecordsInv, NEW e \in Extras, SendOther(e.type, e.len, e.sealed)
  PROVE  /\ conf.api = "record" /\ pc = "idle" /\ extra' \in 0..MaxExtra
         /\ UNCHANGED <<conf, messages, sent, avail, rec, mess, src, pc, keys, done, got>>
         /\ \E r \in RecordType : \E b \in Seq(Byte) :
              /\ r.type # "handshake" /\ r.first = sent /\ RecordOK(messages, conf.peer, r)
              /\ IF r.type \in {"appdata", "alert"}
                 THEN emitted' = Append(emitted, AsItem(r.type, 0)) ELSE emitted' = emitted
              /\ wire' = wire \o b /\ Stream(b, sent, sent) /\ Len(b) = Size(r)
              /\ \A j \in 1..Size(r) : b[j] = [r |-> r, i |-> j]
<1>. DEFINE type == e.type
            len == e.len
            sealed == e.sealed
            r == Record(type, sent, len, sealed)
            b == Bytes(r)
<1>1. type \in Types /\ len \in Nat /\ sealed \in BOOLEAN /\ type # "handshake"
      /\ type \in Types \cup {"handshake"}
  BY ExtrasAssumption DEF Types
<1>2. /\ wire' = wire \o b /\ conf.api = "record" /\ extra < MaxExtra /\ extra' = extra + 1
      /\ emitted' = (IF type \in {"appdata", "alert"} THEN Append(emitted, AsItem(type, 0))
                     ELSE emitted)
      /\ sealed => EpochAt(sent) > 0
      /\ conf.peer = "picotls" =>
           /\ type \in {"ccs", "appdata", "alert"}
           /\ len = CASE type = "ccs" -> 1 [] type = "alert" -> 2 [] OTHER -> MAX_PLAINTEXT
           /\ (type = "ccs") = ~Finished
           /\ sealed = (type # "ccs")
      /\ UNCHANGED <<conf, messages, sent, avail, rec, mess, src, pc, keys, done, got>>
      /\ pc = "idle"
  BY DEF SendOther
<1>. HIDE DEF type, len, sealed
<1>3. TypeInv /\ RowInv /\ InRow(messages) /\ messages \in Messages /\ sent \in Nat
      /\ extra \in 0..MaxExtra /\ MaxExtra \in Nat /\ emitted \in Seq(Items)
      /\ sent <= TotalOf(messages) /\ Len(messages) <= Len(Script)
      /\ (conf.peer = "picotls" => sent = TotalOf(messages))
  BY BoundsAssumption DEF RecordsInv, RowInv, InRow, TypeInv
<1>4. /\ r \in RecordType /\ r.epoch = EpochOf(messages, sent) /\ r.type = type
      /\ r.first = sent /\ r.len = len /\ r.sealed = sealed
  BY <1>1, <1>3, RecordNow
<1>5. b = [i \in 1..Size(r) |-> [r |-> r, i |-> i]]
  BY <1>2 DEF Bytes, Extent, Size
<1>. HIDE DEF r
<1>6. EndOf(r) = sent
  BY <1>1, <1>3, <1>4 DEF EndOf
<1>7. /\ Stream(b, sent, sent) /\ Len(b) = Size(r)
      /\ \A j \in 1..Size(r) : b[j] = [r |-> r, i |-> j]
  BY <1>4, <1>5, <1>6, OneRecord
<1>. HIDE DEF b
<1>8. RecordOK(messages, conf.peer, r)
  <2>1. SUFFICES ASSUME conf.peer = "picotls"  PROVE OfPicotls(messages, r)
    BY <1>1, <1>4 DEF RecordOK
  <2>2. Finished <=> FinishedAt(messages, sent)
    <3>1. DOMAIN messages = 1..Len(messages) /\ \A m : End(m) = EndIn(messages, m)
      BY <1>3, RowFacts, AsValues
    <3>. QED  BY <3>1 DEF Finished, FinishedAt
  <2>3. Boundary(messages, sent)
    <3>1. sent = TotalOf(messages)
      BY <1>3, <2>1
    <3>2. \A m \in 1..Len(messages) : EndIn(messages, m) <= TotalOf(messages)
      BY <1>3, RowFacts
    <3>. QED  BY <3>1, <3>2 DEF Boundary
  <2>4. EpochAt(sent) = EpochOf(messages, sent)
    BY <1>3, AsValues
  <2>5. CASE type = "ccs"
    <3>1. len = 1 /\ ~sealed /\ ~FinishedAt(messages, sent)
      BY <1>2, <2>1, <2>2, <2>5
    <3>. QED  BY <1>4, <2>5, <3>1 DEF OfPicotls
  <2>6. CASE type = "appdata"
    <3>1. len = MAX_PLAINTEXT /\ sealed /\ FinishedAt(messages, sent) /\ EpochAt(sent) > 0
      BY <1>2, <2>1, <2>2, <2>6
    <3>. QED  BY <1>4, <2>3, <2>4, <2>6, <3>1 DEF OfPicotls
  <2>7. CASE type = "alert"
    <3>1. len = 2 /\ sealed /\ EpochAt(sent) > 0
      BY <1>2, <2>1, <2>7
    <3>. QED  BY <1>4, <2>3, <2>4, <2>7, <3>1 DEF OfPicotls
  <2>. QED  BY <1>2, <2>1, <2>5, <2>6, <2>7
<1>9. b \in Seq(Byte)
  BY <1>7 DEF Stream
<1>10. extra' \in 0..MaxExtra
  BY <1>2, <1>3
<1>11. IF r.type \in {"appdata", "alert"}
       THEN emitted' = Append(emitted, AsItem(r.type, 0)) ELSE emitted' = emitted
  BY <1>2, <1>4
<1>12. r.type # "handshake" /\ r.first = sent
  BY <1>1, <1>4
<1>. QED  BY <1>2, <1>4, <1>7, <1>8, <1>9, <1>10, <1>11, <1>12

(* SendOther keeps the invariant.                                           *)
LEMMA OtherSent ==
  ASSUME RecordsInv, NEW e \in Extras, SendOther(e.type, e.len, e.sealed)
  PROVE  RecordsInv'
<1>1. /\ conf.api = "record" /\ pc = "idle" /\ extra' \in 0..MaxExtra
      /\ UNCHANGED <<conf, messages, sent, avail, rec, mess, src, pc, keys, done, got>>
  BY OtherIs
<1>2. PICK r \in RecordType : \E b \in Seq(Byte) :
        /\ r.type # "handshake" /\ r.first = sent /\ RecordOK(messages, conf.peer, r)
        /\ IF r.type \in {"appdata", "alert"}
           THEN emitted' = Append(emitted, AsItem(r.type, 0)) ELSE emitted' = emitted
        /\ wire' = wire \o b /\ Stream(b, sent, sent) /\ Len(b) = Size(r)
        /\ \A j \in 1..Size(r) : b[j] = [r |-> r, i |-> j]
  BY OtherIs
<1>3. PICK b \in Seq(Byte) :
        /\ r.type # "handshake" /\ r.first = sent /\ RecordOK(messages, conf.peer, r)
        /\ IF r.type \in {"appdata", "alert"}
           THEN emitted' = Append(emitted, AsItem(r.type, 0)) ELSE emitted' = emitted
        /\ wire' = wire \o b /\ Stream(b, sent, sent) /\ Len(b) = Size(r)
        /\ \A j \in 1..Size(r) : b[j] = [r |-> r, i |-> j]
  BY <1>2
<1>4. /\ sent \in Nat /\ sent <= TotalOf(messages) /\ Len(messages) <= Len(Script)
      /\ (conf.peer = "picotls" => sent = TotalOf(messages)) /\ emitted \in Seq(Items)
  BY DEF RecordsInv, RowInv, TypeInv
<1>5. \A j \in 1..Len(b) : RecordOK(messages', conf.peer, b[j].r)
  <2>1. Len(b) = Size(r) /\ \A j \in 1..Size(r) : b[j] = [r |-> r, i |-> j]
    BY <1>3
  <2>2. \A j \in 1..Len(b) : b[j].r = r
    BY <2>1
  <2>. QED  BY <1>1, <1>3, <2>2
<1>6. emitted' \in Seq(Items)
  <2>1. CASE r.type \in {"appdata", "alert"}
    <3>1. AsItem(r.type, 0) \in Items
      BY <2>1 DEF AsItem, Items
    <3>2. Append(emitted, AsItem(r.type, 0)) \in Seq(Items)
      BY <1>4, <3>1, AppendProperties
    <3>. QED  BY <1>3, <2>1, <3>2
  <2>2. CASE r.type \notin {"appdata", "alert"}
    BY <1>3, <1>4, <2>2
  <2>. QED  BY <2>1, <2>2
<1>7. /\ sent' \in Nat /\ sent <= sent' /\ sent' <= TotalOf(messages') /\ Stream(b, sent, sent')
      /\ messages' = messages /\ Len(messages') <= Len(Script) /\ wire' = wire \o b
      /\ (conf.peer = "picotls" => sent' = TotalOf(messages'))
  BY <1>1, <1>3, <1>4
<1>. QED  BY <1>1, <1>5, <1>6, <1>7, SentRecords

(* The records of a message.                                                *)
LEMMA ChunkFacts ==
  ASSUME TypeInv, RowInv, NEW size \in Sizes, NEW sealed \in BOOLEAN,
         sealed = (EpochAt(Total) > 0), sent = TotalOf(messages)
  PROVE  LET last == FullRecords(size)
             R    == [k \in 0..last |-> Chunk(size, sealed, k)]
         IN  /\ last \in Nat
             /\ \A k \in 0..last :
                  /\ R[k] \in RecordType /\ R[k].type = "handshake" /\ R[k].sealed = sealed
                  /\ R[k].first = sent + k * MAX_PLAINTEXT
                  /\ R[k].len \in 1..MAX_PLAINTEXT
                  /\ k < last => R[k].len = MAX_PLAINTEXT
                  /\ R[k].first + R[k].len <= sent + size
                  /\ k = last => R[k].first + R[k].len = sent + size
                  /\ R[k].epoch = EpochOf(messages, R[k].first)
                  /\ R[k].sealed = (R[k].epoch > 0)
<1>. DEFINE last == FullRecords(size)
            M == MAX_PLAINTEXT
<1>1. /\ M \in Nat \ {0} /\ M \in Nat /\ size \in Nat /\ size >= 1 /\ size - 1 \in Nat
      /\ InRow(messages) /\ messages \in Messages /\ TotalOf(messages) \in Nat
      /\ Total = TotalOf(messages) /\ Len(messages) \in Nat
  BY SizesAssumption, SizesFacts, RowFacts, AsValues DEF RowInv, InRow
<1>2. last \in Nat /\ last * M \in Nat /\ last * M <= size - 1 /\ size <= last * M + M
  <2>. DEFINE q == (size - 1) \div M
              m == (size - 1) % M
  <2>1. q \in Nat /\ m \in 0..(M - 1) /\ size - 1 = q * M + m
    BY <1>1, DivType
  <2>2. last = q
    BY DEF FullRecords
  <2>. HIDE DEF q, m, last
  <2>3. q * M \in Nat
    BY <1>1, <2>1, TimesNext
  <2>. QED  BY <1>1, <2>1, <2>2, <2>3
<1>. HIDE DEF last, M
<1>3. ASSUME NEW k \in 0..last
      PROVE  /\ k \in Nat /\ k * M \in Nat /\ k * M <= last * M
             /\ k < last => k * M + M <= last * M
  <2>1. k \in Nat /\ k <= last
    BY <1>2
  <2>2. k * M \in Nat /\ k * M <= last * M
    BY <1>1, <1>2, <2>1, TimesMono
  <2>3. ASSUME k < last  PROVE k * M + M <= last * M
    <3>1. k + 1 <= last /\ k + 1 \in Nat
      BY <1>2, <2>1, <2>3
    <3>2. (k + 1) * M <= last * M /\ (k + 1) * M = k * M + M
      BY <1>1, <1>2, <2>1, <3>1, TimesMono, TimesNext
    <3>. QED  BY <3>2
  <2>. QED  BY <2>1, <2>2, <2>3
<1>4. ASSUME NEW p \in Nat, TotalOf(messages) <= p
      PROVE  EpochOf(messages, p) = Changes(Len(messages))
  <2>1. Len(messages) \in 0..Len(messages) /\ BaseOf(messages, Len(messages)) <= p
        /\ ~(Len(messages) < Len(messages))
    BY <1>1, <1>4 DEF TotalOf
  <2>. QED  BY <1>1, <2>1, EndedIs
<1>5. ASSUME NEW k \in 0..last
      PROVE  LET r == Chunk(size, sealed, k)
             IN  /\ r \in RecordType /\ r.type = "handshake" /\ r.sealed = sealed
                 /\ r.first = sent + k * MAX_PLAINTEXT
                 /\ r.len \in 1..MAX_PLAINTEXT
                 /\ k < last => r.len = MAX_PLAINTEXT
                 /\ r.first + r.len <= sent + size
                 /\ k = last => r.first + r.len = sent + size
                 /\ r.epoch = EpochOf(messages, r.first)
                 /\ r.sealed = (r.epoch > 0)
  <2>. DEFINE r == Chunk(size, sealed, k)
              n == IF k < last THEN M ELSE size - k * M
              x == sent + k * M
  <2>1. /\ k \in Nat /\ k * M \in Nat /\ k * M <= last * M /\ k <= last
        /\ k < last => k * M + M <= last * M
    BY <1>2, <1>3
  <2>2. /\ n \in Nat /\ n >= 1 /\ n <= M /\ (k < last => n = M) /\ k * M + n <= size
        /\ (k = last => k * M + n = size)
    <3>1. CASE k < last
      <4>1. n = M /\ k * M + M <= last * M /\ k # last
        BY <1>2, <2>1, <3>1
      <4>. HIDE DEF n
      <4>. QED  BY <1>1, <1>2, <2>1, <4>1
    <3>2. CASE k = last
      <4>1. n = size - last * M /\ ~(k < last)
        BY <1>2, <3>2
      <4>. HIDE DEF n
      <4>. QED  BY <1>1, <1>2, <2>1, <3>2, <4>1
    <3>. QED  BY <1>2, <2>1, <3>1, <3>2
  <2>3. r = Record("handshake", x, n, sealed)
    BY <1>1 DEF Chunk, last, M
  <2>. HIDE DEF n, r
  <2>4. x \in Nat /\ sent \in Nat /\ TotalOf(messages) <= x /\ x + n <= sent + size
        /\ (k = last => x + n = sent + size)
    <3>1. sent \in Nat
      BY DEF TypeInv
    <3>. QED  BY <1>1, <2>1, <2>2, <3>1
  <2>. HIDE DEF x
  <2>5. /\ r \in RecordType /\ r.epoch = EpochOf(messages, x)
        /\ r.type = "handshake" /\ r.first = x /\ r.len = n /\ r.sealed = sealed
    <3>1. "handshake" \in Types \cup {"handshake"}
      OBVIOUS
    <3>. DEFINE q == Record("handshake", x, n, sealed)
    <3>2. TypeInv /\ RowInv /\ n \in Nat /\ x \in Nat /\ sealed \in BOOLEAN
      BY <2>2, <2>4
    <3>3. /\ q \in RecordType /\ q.epoch = EpochOf(messages, x)
          /\ q.type = "handshake" /\ q.first = x /\ q.len = n /\ q.sealed = sealed
      BY ONLY <3>1, <3>2, RecordNow
    <3>. HIDE DEF q
    <3>. QED  BY <2>3, <3>3 DEF q
  <2>6. r.sealed = (r.epoch > 0)
    <3>1. EpochOf(messages, x) = Changes(Len(messages))
      BY <1>4, <2>4
    <3>2. EpochAt(Total) = Changes(Len(messages))
      <4>1. EpochAt(Total) = EpochOf(messages, TotalOf(messages))
        BY <1>1, AsValues
      <4>. QED  BY <1>1, <1>4, <4>1
    <3>. QED  BY <2>5, <3>1, <3>2
  <2>7. r.len \in 1..M
    BY <1>1, <2>2, <2>5
  <2>. QED  BY <2>2, <2>4, <2>5, <2>6, <2>7 DEF r, x, M
<1>. QED  BY <1>2, <1>5 DEF last

(* What commit_record_message does: a stream of records that carries        *)
(* exactly the new message.                                                 *)
LEMMA CommitSends ==
  ASSUME RecordsInv, NEW size \in Sizes, commit_record_message(size)
  PROVE  /\ conf.peer = "picotls" /\ conf.api = "record" /\ pc = "idle" /\ sent = TotalOf(messages)
         /\ messages' = Added(messages, size) /\ Len(messages') = Len(messages) + 1
         /\ Len(messages) \in Nat /\ Len(messages) < Len(Script)
         /\ sent \in Nat /\ size \in Nat /\ sent' = sent + size
         /\ TotalOf(messages') = sent + size
         /\ EndIn(messages', Len(messages) + 1) = sent + size
         /\ emitted' = Append(emitted, AsItem("handshake", Len(messages) + 1))
         /\ UNCHANGED <<conf, extra, avail, rec, mess, src, pc, keys, done, got>>
         /\ \E b \in Seq(Byte) :
              /\ wire' = wire \o b /\ Stream(b, sent, sent + size)
              /\ \A j \in 1..Len(b) : /\ RecordOK(messages', conf.peer, b[j].r)
                                      /\ b[j].r.type = "handshake" /\ b[j].r.first < sent + size
<1>. DEFINE sealed == EpochAt(Total) > 0
            b      == buffer_encrypt_record(size, sealed)
            last   == FullRecords(size)
            R      == [k \in 0..last |-> Chunk(size, sealed, k)]
            full   == Extent(Chunk(size, sealed, 0))
            M      == MAX_PLAINTEXT
<1>1. /\ TypeInv /\ RowInv /\ InRow(messages) /\ messages \in Messages /\ sent \in Nat
      /\ conf.peer = "picotls" /\ conf.api = "record" /\ pc = "idle" /\ sent = TotalOf(messages)
      /\ emitted \in Seq(Items) /\ extra \in 0..MaxExtra /\ Len(messages) \in Nat
  <2>1. TypeInv /\ RowInv /\ conf.peer = "picotls" /\ pc = "idle"
    BY DEF RecordsInv, commit_record_message
  <2>2. conf.api = "record"
    BY <2>1, ConfFacts
  <2>. QED  BY <2>1, <2>2, RowFacts DEF RowInv, InRow, TypeInv
<1>2. /\ messages' = Added(messages, size) /\ Len(messages) < Len(Script)
      /\ wire' = wire \o b /\ sent' = sent + size
      /\ emitted' = Append(emitted, AsItem("handshake", Len(messages) + 1))
      /\ UNCHANGED <<conf, extra, avail, rec, mess, src, pc, keys, done, got>>
  <2>1. Total = TotalOf(messages)
    BY <1>1, AsValues
  <2>. QED  BY <1>1, <2>1 DEF commit_record_message, Compose, Added
<1>3. /\ last \in Nat
      /\ \A k \in 0..last :
           /\ R[k] \in RecordType /\ R[k].type = "handshake" /\ R[k].sealed = sealed
           /\ R[k].first = sent + k * M
           /\ R[k].len \in 1..M
           /\ k < last => R[k].len = M
           /\ R[k].first + R[k].len <= sent + size
           /\ k = last => R[k].first + R[k].len = sent + size
           /\ R[k].epoch = EpochOf(messages, R[k].first)
           /\ R[k].sealed = (R[k].epoch > 0)
  <2>1. sealed \in BOOLEAN
    OBVIOUS
  <2>. QED  BY <1>1, <2>1, ChunkFacts, ZenonT(60)
<1>4. \A k \in 0..last : R[k] = Chunk(size, sealed, k)
  OBVIOUS
<1>5. /\ 0 \in 0..last /\ last \in 0..last
      /\ full = Size(R[0]) /\ Extent(Chunk(size, sealed, last)) = Size(R[last])
  <2>1. 0 \in 0..last /\ last \in 0..last
    BY <1>3
  <2>2. R[0] = Chunk(size, sealed, 0) /\ R[last] = Chunk(size, sealed, last)
    BY <1>4, <2>1
  <2>. QED  BY <1>1, <2>1, <2>2 DEF Extent, Size
<1>6. b = [j \in 1..(last * full + Size(R[last])) |->
             [r |-> Chunk(size, sealed, (j - 1) \div full), i |-> ((j - 1) % full) + 1]]
  BY <1>5 DEF buffer_encrypt_record
<1>. HIDE DEF last, R, full, b, sealed, M
<1>7. M \in Nat /\ M >= 1 /\ REC_HEADER \in Nat /\ REC_HEADER >= 1 /\ OVERHEAD \in Nat
      /\ size \in Nat /\ size >= 1
  BY SizesAssumption, SizesFacts DEF M
<1>8. /\ full \in Nat \ {0} /\ Size(R[last]) \in 1..full
      /\ \A k \in 0..last : k < last => Size(R[k]) = full
  <2>. DEFINE o == REC_HEADER + (IF sealed THEN OVERHEAD ELSE 0)
  <2>1. o \in Nat /\ o >= 1
    BY <1>7
  <2>2. ASSUME NEW k \in 0..last  PROVE Size(R[k]) = o + R[k].len /\ R[k].len \in Nat
    <3>1. R[k].sealed = sealed /\ R[k].len \in Nat
      BY <1>3, <1>7
    <3>. QED  BY <1>7, <3>1 DEF Size, Length
  <2>. HIDE DEF o
  <2>3. R[last].len \in 1..M /\ R[0].len \in 1..M /\ R[0].len \in Nat /\ R[last].len \in Nat
    BY <1>3, <1>5, <1>7
  <2>4. CASE last = 0
    <3>1. \A k \in 0..last : ~(k < last)
      BY <2>4
    <3>2. Size(R[last]) = full /\ full = o + R[0].len
      BY <1>5, <2>2, <2>4
    <3>. QED  BY <2>1, <2>3, <3>1, <3>2
  <2>5. CASE last # 0
    <3>1. 0 < last
      BY <1>3, <2>5
    <3>2. R[0].len = M
      BY <1>3, <1>5, <3>1
    <3>3. full = o + M /\ Size(R[last]) = o + R[last].len
      BY <1>5, <2>2, <3>2
    <3>4. ASSUME NEW k \in 0..last, k < last  PROVE Size(R[k]) = full
      BY <1>3, <2>2, <3>3, <3>4
    <3>. QED  BY <1>7, <2>1, <2>3, <3>3, <3>4
  <2>. QED  BY <2>4, <2>5
<1>9. ASSUME NEW j \in 1..(last * full + Size(R[last]))
      PROVE  /\ (j - 1) \div full \in 0..last
             /\ Chunk(size, sealed, (j - 1) \div full) = R[(j - 1) \div full]
  <2>1. (j - 1) \div full \in 0..last
    BY <1>3, <1>8, PlaceInPieces
  <2>. QED  BY <1>4, <2>1
<1>10. b = InPieces(R, last, full)
  BY <1>6, <1>9 DEF InPieces
<1>11. \A k \in 0..last : R[k].first \in Nat /\ R[k].len \in Nat /\ EndOf(R[k]) = R[k].first + R[k].len
  BY <1>3, RecordFacts DEF EndOf
<1>12. ASSUME NEW k \in 0..last
       PROVE  k \in Nat /\ k * M \in Nat /\ (k + 1) * M = k * M + M
  BY <1>3, <1>7, TimesNext
<1>13. ASSUME NEW k \in 0..last, NEW l \in 0..last, k < l
       PROVE  EndOf(R[k]) <= R[l].first /\ (l = k + 1 => EndOf(R[k]) = R[l].first)
  <2>1. k < last /\ k + 1 <= l /\ k + 1 \in Nat /\ l \in Nat
    BY <1>3, <1>13
  <2>2. EndOf(R[k]) = (sent + k * M) + M /\ R[l].first = sent + l * M
    BY <1>3, <1>11, <2>1
  <2>3. (k + 1) * M <= l * M /\ l * M \in Nat
    BY <1>7, <1>12, <2>1, TimesMono
  <2>4. l = k + 1 => l * M = k * M + M
    BY <1>12
  <2>. DEFINE a == k * M
              c == l * M
  <2>5. /\ a \in Nat /\ c \in Nat /\ a + M <= c /\ (l = k + 1 => c = a + M)
        /\ EndOf(R[k]) = (sent + a) + M /\ R[l].first = sent + c /\ sent \in Nat /\ M \in Nat
    BY <1>1, <1>7, <1>12, <2>2, <2>3, <2>4
  <2>. HIDE DEF a, c
  <2>. QED  BY ONLY <2>5
<1>14. Stream(b, sent, sent + size)
  <2>1. R[0].first = sent
    <3>1. R[0].first = sent + 0 * M
      BY <1>3, <1>5
    <3>. QED  BY <1>1, <1>7, <3>1
  <2>2. EndOf(R[last]) = sent + size
    BY <1>3, <1>5, <1>11
  <2>3. \A k \in 0..last : k < last => EndOf(R[k]) = R[k + 1].first
    <3>1. ASSUME NEW k \in 0..last, k < last  PROVE EndOf(R[k]) = R[k + 1].first
      <4>1. k + 1 \in 0..last /\ k < k + 1
        BY <1>3, <3>1
      <4>. QED  BY <1>13, <4>1
    <3>. QED  BY <3>1
  <2>4. ASSUME NEW k \in 0..last  PROVE sent <= R[k].first /\ EndOf(R[k]) <= sent + size
    <3>1. R[k].first = sent + k * M /\ EndOf(R[k]) = R[k].first + R[k].len
          /\ R[k].first + R[k].len <= sent + size
      BY <1>3, <1>11
    <3>2. sent <= R[k].first
      BY <1>1, <1>12, <3>1
    <3>. QED  BY <3>1, <3>2
  <2>5. /\ \A k \in 0..last : R[k] \in RecordType
        /\ \A k, l \in 0..last : k < l => EndOf(R[k]) <= R[l].first
        /\ Size(R[last]) <= full
    BY <1>3, <1>8, <1>13
  <2>6. Stream(InPieces(R, last, full), sent, sent + size)
    BY ONLY <1>3, <1>8, <2>1, <2>2, <2>3, <2>4, <2>5, PiecesStream
  <2>. QED  BY <1>10, <2>6
<1>15. /\ Len(messages') = Len(messages) + 1
       /\ messages'[Len(messages) + 1] = [start |-> sent, size |-> size]
       /\ EndIn(messages', Len(messages) + 1) = sent + size
       /\ TotalOf(messages') = sent + size
  BY <1>1, <1>2, ComposeFacts
<1>16. ASSUME NEW k \in 0..last
       PROVE  RecordOK(messages', conf.peer, R[k]) /\ R[k].first < sent + size
  <2>1. /\ R[k].type = "handshake" /\ R[k].len \in 1..M
        /\ R[k].epoch = EpochOf(messages, R[k].first) /\ R[k].sealed = (R[k].epoch > 0)
    BY <1>3
  <2>2. sent <= R[k].first /\ R[k].first < sent + size /\ R[k].first + R[k].len <= sent + size
    <3>1. R[k].first = sent + k * M /\ R[k].first + R[k].len <= sent + size /\ R[k].len \in 1..M
      BY <1>3
    <3>2. k * M \in Nat /\ R[k].first \in Nat
      BY <1>11, <1>12
    <3>. QED  BY <1>1, <1>7, <3>1, <3>2, SMTT(30)
  <2>3. EpochOf(messages', R[k].first) = EpochOf(messages, R[k].first)
    BY <1>1, <1>2, <1>11, <2>2, EpochStays
  <2>4. Within(messages', R[k])
    <3>1. Len(messages) + 1 \in 1..Len(messages')
      BY <1>1, <1>15
    <3>2. messages'[Len(messages) + 1].start = sent
      BY <1>15
    <3>. QED  BY <1>15, <2>2, <3>1, <3>2 DEF Within
  <2>. QED  BY <2>1, <2>2, <2>3, <2>4 DEF RecordOK, OfPicotls, M
<1>17. b \in Seq(Byte) /\ Len(b) = last * full + Size(R[last])
  <2>1. CutUp(R, last, full)
    BY ONLY <1>3, <1>8 DEF CutUp
  <2>2. /\ InPieces(R, last, full) \in Seq(Byte)
        /\ Len(InPieces(R, last, full)) = last * full + Size(R[last])
    BY ONLY <2>1, PiecesFacts DEF FoundAt
  <2>. QED  BY ONLY <1>10, <2>2
<1>18. ASSUME NEW j \in 1..Len(b)
       PROVE  /\ RecordOK(messages', conf.peer, b[j].r)
              /\ b[j].r.type = "handshake" /\ b[j].r.first < sent + size
  <2>1. b[j] = [r |-> Chunk(size, sealed, (j - 1) \div full), i |-> ((j - 1) % full) + 1]
    BY <1>6, <1>17
  <2>2. b[j].r = R[(j - 1) \div full] /\ (j - 1) \div full \in 0..last
    BY <1>9, <1>17, <2>1
  <2>. QED  BY <1>3, <1>16, <2>2
<1>. QED  BY <1>1, <1>2, <1>7, <1>14, <1>15, <1>17, <1>18

(* commit_record_message keeps the invariant.                               *)
LEMMA CommitRecords ==
  ASSUME RecordsInv, NEW size \in Sizes, commit_record_message(size)
  PROVE  RecordsInv'
<1>1. /\ conf.peer = "picotls" /\ conf.api = "record" /\ pc = "idle"
      /\ messages' = Added(messages, size) /\ Len(messages') = Len(messages) + 1
      /\ Len(messages) \in Nat /\ Len(messages) < Len(Script)
      /\ sent \in Nat /\ size \in Nat /\ sent' = sent + size
      /\ TotalOf(messages') = sent + size
      /\ emitted' = Append(emitted, AsItem("handshake", Len(messages) + 1))
      /\ UNCHANGED <<conf, extra, avail, rec, mess, src, pc, keys, done, got>>
  BY CommitSends
<1>2. PICK b \in Seq(Byte) :
        /\ wire' = wire \o b /\ Stream(b, sent, sent + size)
        /\ \A j \in 1..Len(b) : RecordOK(messages', conf.peer, b[j].r)
  BY CommitSends
<1>3. emitted' \in Seq(Items) /\ extra' \in 0..MaxExtra
  <2>1. AsItem("handshake", Len(messages) + 1) \in Items
    BY <1>1 DEF AsItem, Items
  <2>2. emitted \in Seq(Items) /\ extra \in 0..MaxExtra
    BY DEF RecordsInv, TypeInv
  <2>. QED  BY <1>1, <2>1, <2>2, AppendProperties
<1>4. /\ Len(messages') <= Len(Script) /\ sent' \in Nat /\ sent <= sent'
      /\ sent' = TotalOf(messages') /\ sent' <= TotalOf(messages')
  <2>1. Len(Script) \in Nat
    BY ScriptAssumption, LenProperties
  <2>. QED  BY <1>1, <2>1
<1>5. /\ \E s \in Sizes : messages' = Added(messages, s)
      /\ Stream(b, sent, sent')
  BY <1>1, <1>2
<1>. QED  BY <1>1, <1>2, <1>3, <1>4, <1>5, SentRecords

-----------------------------------------------------------------------------
(* Every step keeps the invariant.                                          *)
LEMMA StepRecords ==
  ASSUME RecordsInv, [Next]_vars
  PROVE  RecordsInv'
<1>1. CASE Send
  BY <1>1, CommitRecords, ComposeRecords, FragmentRecords, OtherSent DEF Send
<1>2. CASE Receive
  BY <1>2, CallRecords, MessageRecords, FailRecords, IncompleteRecords, OtherRecords,
     HandshakeRecords, HandleMessageRecords, KeepPartialRecords, AlertRecords DEF Receive
<1>3. CASE UNCHANGED vars
  <2>1. UNCHANGED <<conf, messages, sent, extra, emitted, wire, avail, rec, mess, src, pc, keys,
                    done, got>>
    BY <1>3 DEF vars, sending, receiving
  <2>2. Base' = Base /\ Pending' = Pending /\ Received' = Received
    BY <2>1 DEF Base, Pending, Received
  <2>3. TypeInv' /\ RowInv' /\ PicotlsUnderstood'
    BY <2>1 DEF RecordsInv, TypeInv, RowInv, PicotlsUnderstood, message_buffer_is_overflow
  <2>4. LiveInv'
    BY <2>1, <2>2 DEF RecordsInv, LiveInv, ByteInv, RecInv, MessInv, StreamInv, PieceInv,
                      message_buffer_is_overflow
  <2>. QED  BY <2>3, <2>4 DEF RecordsInv
<1>. QED  BY <1>1, <1>2, <1>3 DEF Next

(* The inductive invariant of the receiving half, for all sizes, scripts    *)
(* and settings: the bytes kept and on the way are whole records in order,  *)
(* what handle_handshake_record holds continues the last message handled,   *)
(* and the key in use is the one of the next message.                       *)
THEOREM RecordsInvariant == Spec => []RecordsInv
<1>1. Init => RecordsInv
  BY InitRecords
<1>2. RecordsInv /\ [Next]_vars => RecordsInv'
  BY StepRecords
<1>. QED  BY <1>1, <1>2, PTL DEF Spec, Safety

-----------------------------------------------------------------------------
(* What the invariant says.                                                 *)
RecBound == Len(rec) < REC_HEADER + MAX_PLAINTEXT + EXPANSION

(* While a connection lives, recvbuf.rec holds less than a record of the    *)
(* largest size.                                                            *)
LEMMA RecordBounded ==
  ASSUME TypeInv, RecInv
  PROVE  RecBound
<1>1. /\ REC_HEADER \in Nat /\ REC_HEADER >= 1 /\ MAX_PLAINTEXT \in Nat /\ EXPANSION \in Nat
  BY SizesAssumption
<1>2. /\ Len(rec) \in Nat /\ (rec = <<>> <=> Len(rec) = 0)
      /\ \A j \in 1..Len(rec) : rec[j].r \in RecordType
  BY LenFacts
<1>3. CASE rec = <<>>
  BY <1>1, <1>2, <1>3 DEF RecBound
<1>4. CASE rec # <<>>
  <2>1. 1 \in 1..Len(rec)
    BY <1>2, <1>4
  <2>2. Length(rec[1].r) \in Nat
    BY <1>2, <2>1, RecordFacts
  <2>3. /\ Len(rec) < REC_HEADER + Length(rec[1].r)
        /\ Len(rec) >= REC_HEADER => Length(rec[1].r) <= MAX_PLAINTEXT + EXPANSION
    BY <1>1, <1>4, <2>2 DEF RecInv, Size
  <2>. QED  BY <1>1, <1>2, <2>2, <2>3 DEF RecBound
<1>. QED  BY <1>3, <1>4

(* A failure leaves recvbuf.rec as it was, or without the alert.            *)
LEMMA RecordKept ==
  ASSUME [Next]_vars, pc' = "failed"
  PROVE  rec' = rec \/ rec' = <<>>
<1>1. CASE Send
  BY <1>1 DEF Send, commit_record_message, ComposeMessage, SendFragment, SendOther, receiving
<1>2. CASE Receive
  BY <1>2 DEF Receive, Call, ptls_handle_message, ptls_handle_message_fails, Return,
     parse_record_incomplete, change_cipher_spec, handle_handshake_record, handle_message,
     handle_message_fails, keep_partial_message, message_overflow, receive_data, handle_alert,
     handle_input_fails, Failed, NextRecord
<1>3. CASE UNCHANGED vars
  BY <1>3 DEF vars, receiving
<1>. QED  BY <1>1, <1>2, <1>3 DEF Next

(* A step that ends a connection does not add to recvbuf.rec.               *)
LEMMA BoundStep ==
  ASSUME RecBound, [Next]_vars, (pc = "failed")'
  PROVE  RecBound'
<1>1. CASE rec' = rec
  BY <1>1 DEF RecBound
<1>2. CASE rec' = <<>>
  BY <1>2, EmptySeq, SizesAssumption DEF RecBound
<1>. QED  BY <1>1, <1>2, RecordKept

(* Type correctness, with the bounds of recvbuf.rec and of the input of a   *)
(* call: parse_record never keeps a whole record nor consumes more than it  *)
(* was given.                                                               *)
THEOREM TypeCorrect == Spec => []TypeOK
<1>1. RecordsInv /\ RecBound => TypeOK
  <2>1. SUFFICES ASSUME RecordsInv, RecBound  PROVE TypeOK
    OBVIOUS
  <2>2. TypeInv /\ RowInv /\ InRow(messages) /\ messages \in Messages
    BY <2>1 DEF RecordsInv, RowInv, InRow
  <2>3. Total = TotalOf(messages) /\ TotalOf(messages) \in Nat
    BY <2>2, AsValues, RowFacts
  <2>4. sent \in 0..Total
    BY <2>2, <2>3 DEF TypeInv, RowInv
  <2>5. messages \in Seq([start : Nat, size : Sizes]) /\ Len(messages) <= Len(Script)
    BY <2>2 DEF Messages, RowInv
  <2>. QED  BY <2>1, <2>2, <2>4, <2>5 DEF TypeInv, TypeOK, RecBound, Items
<1>2. Init => RecBound
  BY EmptySeq, SizesAssumption DEF Init, RecBound
<1>3. RecordsInv => RecBound \/ pc = "failed"
  BY RecordBounded DEF RecordsInv, LiveInv
<1>4. RecBound /\ [Next]_vars /\ (pc = "failed")' => RecBound'
  BY BoundStep
<1>. QED  BY <1>1, <1>2, <1>3, <1>4, RecordsInvariant, PTL DEF Spec, Safety

(* Between two calls the buffers hold less than a record and less than a    *)
(* message.                                                                 *)
LEMMA NothingWaitsThen ==
  ASSUME RecordsInv
  PROVE  NothingWaits
<1>1. SUFFICES ASSUME pc = "idle"
               PROVE
      /\ src = <<>>
      /\ rec # <<>> => \A i \in 1..Len(rec) : rec[i] = [r |-> rec[1].r, i |-> i]
      /\ Len(rec) >= REC_HEADER => Len(rec) < REC_HEADER + Length(rec[1].r)
      /\ \A i \in 1..Len(mess) : mess[i].pos = (IF done = 0 THEN 0 ELSE End(done)) + i - 1
      /\ mess # <<>> => Len(mess) < messages[done + 1].size
      /\ conf.max_buffer_size # 0 => Len(mess) <= conf.max_buffer_size
  BY DEF NothingWaits
<1>2. /\ TypeInv /\ RowInv /\ RecInv /\ MessInv /\ StreamInv /\ pc # "messages"
      /\ messages \in Messages
  BY <1>1 DEF RecordsInv, LiveInv, RowInv, InRow
<1>3. /\ Len(rec) \in Nat /\ Len(wire) \in Nat /\ rec \in Seq(Byte) /\ wire \in Seq(Byte)
      /\ (rec = <<>> <=> Len(rec) = 0) /\ Len(mess) \in Nat /\ (mess = <<>> <=> Len(mess) = 0)
      /\ \A j \in 1..Len(rec) : rec[j].r \in RecordType
      /\ conf.max_buffer_size \in Nat
  BY <1>2, LenFacts, ConfFacts DEF TypeInv
<1>4. rec # <<>> => \A i \in 1..Len(rec) : rec[i] = [r |-> rec[1].r, i |-> i]
  <2>1. SUFFICES ASSUME rec # <<>>  PROVE \A i \in 1..Len(rec) : rec[i] = [r |-> rec[1].r, i |-> i]
    OBVIOUS
  <2>. DEFINE S == rec \o wire
  <2>2. Stream(S, Received, sent)
    BY <1>2, <2>1 DEF StreamInv, PieceInv
  <2>3. Len(S) = Len(rec) + Len(wire) /\ \A i \in 1..Len(rec) : S[i] = rec[i]
    BY <1>3, ConcatFacts
  <2>. HIDE DEF S
  <2>4. 1 \in 1..Len(rec) /\ Len(S) # 0
    BY <1>3, <2>1, <2>3
  <2>5. \A i \in 1..Size(S[1].r) : S[i] = [r |-> S[1].r, i |-> i]
    BY <2>2, <2>4, FirstRecord
  <2>6. S[1] = rec[1] /\ Len(rec) < Size(rec[1].r) /\ Size(rec[1].r) \in Nat
    BY <1>2, <1>3, <2>1, <2>3, <2>4, RecordFacts DEF RecInv
  <2>7. \A i \in 1..Len(rec) : i \in 1..Size(rec[1].r)
    BY <1>3, <2>6
  <2>. QED  BY <2>3, <2>5, <2>6, <2>7
<1>5. Len(rec) >= REC_HEADER => Len(rec) < REC_HEADER + Length(rec[1].r)
  <2>1. Len(rec) >= REC_HEADER => rec # <<>>
    BY <1>3, SizesAssumption
  <2>. QED  BY <1>2, <2>1 DEF RecInv, Size
<1>6. ASSUME NEW i \in 1..Len(mess)
      PROVE  mess[i].pos = (IF done = 0 THEN 0 ELSE End(done)) + i - 1
  <2>1. Base = (IF done = 0 THEN 0 ELSE End(done))
    BY <1>2, AsValues DEF Base, BaseOf
  <2>2. mess[i].pos = (Base + i) - 1
    BY <1>2 DEF MessInv, Pending
  <2>3. (Base + i) - 1 = Base + i - 1
    <3>1. Base \in Nat /\ i \in Nat
      BY <1>2, <1>3, PositionFacts
    <3>. QED  BY <3>1
  <2>. QED  BY <2>1, <2>2, <2>3
<1>7. conf.max_buffer_size # 0 => Len(mess) <= conf.max_buffer_size
  <2>1. CASE mess = <<>>
    BY <1>3, <2>1
  <2>2. CASE mess # <<>>
    BY <1>2, <1>3, <2>2 DEF MessInv, message_buffer_is_overflow
  <2>. QED  BY <2>1, <2>2
<1>. QED  BY <1>2, <1>4, <1>5, <1>6, <1>7 DEF MessInv

(* When ptls_handshake, ptls_receive or ptls_handle_message has returned,   *)
(* everything it consumed has had its effect: whatever the sizes of the     *)
(* pieces, no record or message that is complete waits in recvbuf.rec or    *)
(* recvbuf.mess.                                                            *)
THEOREM NothingIsLeft == Spec => []NothingWaits
  BY NothingWaitsThen, RecordsInvariant, PTL

(* No byte is acted upon under a key older than the one a ServerHello,      *)
(* ClientHello or Finished before it installed, because their handlers      *)
(* insist on is_end_of_record.                                              *)
THEOREM KeysAlign == Spec => []KeyChangesAlign
<1>1. RecordsInv => KeyChangesAlign
  BY DEF RecordsInv, LiveInv, MessInv, Pending, Ends, KeyChangesAlign
<1>. QED  BY <1>1, RecordsInvariant, PTL

(* Between two picotls endpoints neither commit_record_message nor          *)
(* buffer_encrypt_record cuts messages so that handle_input fails: only an  *)
(* alert or a message beyond max_buffer_size ends the connection.           *)
THEOREM PicotlsIsUnderstood == Spec => []PicotlsUnderstood
<1>1. RecordsInv => PicotlsUnderstood
  BY DEF RecordsInv
<1>. QED  BY <1>1, RecordsInvariant, PTL

-----------------------------------------------------------------------------
(* Items.  c counts, for every byte on its way, the data and alerts up to   *)
(* the record it belongs to, those acted upon included: it places the items *)
(* on their way in the sequence of all items.                               *)
Data == {"appdata", "alert"}

Counting(S, c) ==
    /\ c \in [0..Len(S) -> Nat]
    /\ \A j \in 1..Len(S) : c[j] = c[j - S[j].i] + (IF S[j].r.type \in Data THEN 1 ELSE 0)

(* The item at place x of all items.                                        *)
ItemAt(em, x, item) == x \in 1..Len(em) /\ em[x] = item

(* The records on their way that start before position p are the first k    *)
(* bytes.                                                                   *)
CutAt(S, k, p) ==
    /\ \A i \in 1..k : S[i].r.first < p
    /\ \A i \in (k + 1)..Len(S) : p <= S[i].r.first

(* Data and alerts on their way are the items after the messages that       *)
(* ended and the data that came before them.                                *)
DatasAt(ms, S, c, em) ==
    \A j \in 1..Len(S) : S[j].i = 1 /\ S[j].r.type \in Data =>
        ItemAt(em, EndedOf(ms, S[j].r.first) + c[j], AsItem(S[j].r.type, 0))

(* So are the messages not handled yet.                                     *)
MessagesAt(ms, S, c, n, em, to) ==
    \A m \in 1..EndedOf(ms, to) : \A k \in 0..Len(S) :
        n < m /\ CutAt(S, k, EndIn(ms, m)) => ItemAt(em, m + c[k], AsItem("handshake", m))

ItemsAt(ms, S, c, n, em, to) ==
    /\ Counting(S, c)
    /\ Len(em) = EndedOf(ms, to) + c[Len(S)]
    /\ DatasAt(ms, S, c, em)
    /\ MessagesAt(ms, S, c, n, em, to)

(* Bytes of records that start no later than position to.                   *)
Placed(S, to) ==
    /\ S \in Seq(Byte) /\ to \in Nat
    /\ \A j \in 1..Len(S) : S[j].i <= j /\ S[j].r.first <= to

(* A byte and the record it belongs to lie within the bytes on the way.     *)
LEMMA PlacedFacts ==
  ASSUME NEW S, NEW to, Placed(S, to)
  PROVE  /\ Len(S) \in Nat
         /\ \A j \in 1..Len(S) :
              /\ S[j].r \in RecordType /\ S[j].i \in 1..j /\ j - S[j].i \in 0..Len(S)
              /\ j - S[j].i < j /\ S[j].r.first \in Nat
<1>1. Len(S) \in Nat /\ \A j \in 1..Len(S) : S[j] \in Byte
  BY LenProperties, ElementOfSeq DEF Placed
<1>2. ASSUME NEW j \in 1..Len(S)
      PROVE  /\ S[j].r \in RecordType /\ S[j].i \in 1..j /\ j - S[j].i \in 0..Len(S)
             /\ j - S[j].i < j /\ S[j].r.first \in Nat
  <2>1. S[j].r \in RecordType /\ S[j].i \in Nat /\ S[j].i >= 1
    BY <1>1, ByteFacts
  <2>2. S[j].i <= j
    BY DEF Placed
  <2>. QED  BY <1>1, <2>1, <2>2, RecordFacts
<1>. QED  BY <1>1, <1>2

(* Messages and their records are put behind the others.                    *)
(* What the peer adds when it puts the bytes b, up to position tt, behind S. *)
MayEmit(ms, mt, S, b, c, n, to, tt, em, en) ==
    /\ InRow(ms) /\ InRow(mt)
    /\ mt = ms \/ \E size \in Sizes : mt = Added(ms, size)
    /\ tt \in Nat /\ Placed(S, to) /\ to <= TotalOf(ms) /\ ItemsAt(ms, S, c, n, em, to) /\ to <= tt
    /\ em \in Seq(Items) /\ en \in Seq(Items) /\ n \in Nat
    /\ Len(en) = Len(em) + (EndedOf(mt, tt) - EndedOf(ms, to))
    /\ \A i \in 1..Len(em) : en[i] = em[i]
    /\ \A m \in (EndedOf(ms, to) + 1)..EndedOf(mt, tt) :
            en[Len(em) + (m - EndedOf(ms, to))] = AsItem("handshake", m)
    /\ b \in Seq(Byte)
    /\ \A j \in 1..Len(b) : b[j].i <= j /\ b[j].r.type = "handshake" /\ to <= b[j].r.first
    /\ \A j \in 1..Len(b) : \A m \in (EndedOf(ms, to) + 1)..EndedOf(mt, tt) :
            b[j].r.first < EndIn(mt, m)

(* Handshake bytes sent at the end of the stream add the items of the       *)
(* messages they complete and move no other.                                *)
LEMMA EmitMessages ==
  ASSUME NEW ms, NEW mt, NEW S, NEW b, NEW c, NEW n, NEW to, NEW tt, NEW em, NEW en,
         MayEmit(ms, mt, S, b, c, n, to, tt, em, en)
  PROVE  \E g : ItemsAt(mt, S \o b, g, n, en, tt) /\ g[0] = c[0]
<1>. SUFFICES ASSUME InRow(ms), InRow(mt),
           mt = ms \/ \E size \in Sizes : mt = Added(ms, size),
           tt \in Nat, Placed(S, to), to <= TotalOf(ms), ItemsAt(ms, S, c, n, em, to), to <= tt,
           em \in Seq(Items), en \in Seq(Items), n \in Nat,
           Len(en) = Len(em) + (EndedOf(mt, tt) - EndedOf(ms, to)),
           \A i \in 1..Len(em) : en[i] = em[i],
           \A m \in (EndedOf(ms, to) + 1)..EndedOf(mt, tt) :
              en[Len(em) + (m - EndedOf(ms, to))] = AsItem("handshake", m),
           b \in Seq(Byte),
           \A j \in 1..Len(b) : b[j].i <= j /\ b[j].r.type = "handshake" /\ to <= b[j].r.first,
           \A j \in 1..Len(b) : \A m \in (EndedOf(ms, to) + 1)..EndedOf(mt, tt) :
              b[j].r.first < EndIn(mt, m)
         PROVE  \E g : ItemsAt(mt, S \o b, g, n, en, tt) /\ g[0] = c[0]
  BY DEF MayEmit
<1>. DEFINE T == S \o b
            g == [k \in 0..Len(T) |-> IF k <= Len(S) THEN c[k] ELSE c[Len(S)]]
            x == EndedOf(ms, to)
            y == EndedOf(mt, tt)
<1>1. /\ Len(S) \in Nat /\ S \in Seq(Byte) /\ to \in Nat
      /\ \A j \in 1..Len(S) : /\ S[j].r \in RecordType /\ S[j].i \in 1..j
                              /\ j - S[j].i \in 0..Len(S) /\ j - S[j].i < j
                              /\ S[j].r.first \in Nat /\ S[j].r.first <= to
  BY PlacedFacts DEF Placed
<1>2. Len(b) \in Nat /\ \A j \in 1..Len(b) : b[j] \in Byte /\ b[j].i \in Nat /\ b[j].i >= 1
  BY LenProperties, ElementOfSeq, ByteFacts
<1>3. /\ T \in Seq(Byte) /\ Len(T) = Len(S) + Len(b)
      /\ \A i \in 1..Len(S) : T[i] = S[i]
      /\ \A i \in 1..Len(b) : T[Len(S) + i] = b[i]
  BY <1>1, ConcatFacts
<1>4. /\ c \in [0..Len(S) -> Nat] /\ Len(em) = x + c[Len(S)]
      /\ \A j \in 1..Len(S) : c[j] = c[j - S[j].i] + (IF S[j].r.type \in Data THEN 1 ELSE 0)
      /\ DatasAt(ms, S, c, em) /\ MessagesAt(ms, S, c, n, em, to)
  BY DEF ItemsAt, Counting
<1>5. 0 \in 0..Len(S) /\ Len(S) \in 0..Len(S) /\ c[Len(S)] \in Nat /\ c[0] \in Nat
  BY <1>1, <1>4, SMTT(30)
<1>. HIDE DEF T
<1>6. /\ g \in [0..Len(T) -> Nat]
      /\ \A k \in 0..Len(S) : g[k] = c[k]
      /\ \A k \in 0..Len(T) : Len(S) <= k => g[k] = c[Len(S)]
  <2>1. \A k \in 0..Len(T) : k <= Len(S) => k \in 0..Len(S)
    BY <1>1
  <2>2. \A k \in 0..Len(S) : k \in 0..Len(T) /\ k <= Len(S)
    BY <1>1, <1>2, <1>3
  <2>3. \A k \in 0..Len(T) : Len(S) <= k /\ k <= Len(S) => k = Len(S)
    BY <1>1
  <2>. QED  BY <1>4, <1>5, <2>1, <2>2, <2>3
<1>. HIDE DEF g
<1>7. /\ x \in Nat /\ y \in Nat /\ x <= Len(ms) /\ y <= Len(mt) /\ Len(ms) \in Nat /\ Len(mt) \in Nat
      /\ \A m \in 1..Len(ms) : EndIn(ms, m) <= to <=> m <= x
      /\ \A m \in 1..Len(mt) : EndIn(mt, m) <= tt <=> m <= y
  <2>1. /\ EndedOf(ms, to) \in 0..Len(ms) /\ Len(ms) \in Nat
        /\ \A m \in 1..Len(ms) : EndIn(ms, m) <= to <=> m <= EndedOf(ms, to)
    BY <1>1, EndedSet, RowFacts
  <2>2. /\ EndedOf(mt, tt) \in 0..Len(mt) /\ Len(mt) \in Nat
        /\ \A m \in 1..Len(mt) : EndIn(mt, m) <= tt <=> m <= EndedOf(mt, tt)
    BY EndedSet, RowFacts
  <2>. HIDE DEF x, y
  <2>3. x \in 0..Len(ms) /\ y \in 0..Len(mt)
    BY <2>1, <2>2 DEF x, y
  <2>4. x \in Nat /\ y \in Nat /\ x <= Len(ms) /\ y <= Len(mt)
    BY <2>1, <2>2, <2>3
  <2>. QED  BY <2>1, <2>2, <2>4 DEF x, y
<1>8. /\ Len(ms) <= Len(mt)
      /\ \A m \in 1..Len(ms) : EndIn(mt, m) = EndIn(ms, m)
      /\ \A p \in Nat : p <= to => EndedOf(mt, p) = EndedOf(ms, p)
  <2>1. CASE mt = ms
    BY <1>7, <2>1
  <2>2. ASSUME NEW size \in Sizes, mt = Added(ms, size)
        PROVE  /\ Len(ms) <= Len(mt)
               /\ \A m \in 1..Len(ms) : EndIn(mt, m) = EndIn(ms, m)
               /\ \A p \in Nat : p <= to => EndedOf(mt, p) = EndedOf(ms, p)
    <3>1. Len(mt) = Len(ms) + 1 /\ \A m \in 1..Len(ms) : EndIn(mt, m) = EndIn(ms, m)
      BY <2>2, ComposeFacts
    <3>2. Len(ms) <= Len(mt)
      BY <1>7, <3>1
    <3>3. ASSUME NEW p \in Nat, p <= to  PROVE EndedOf(mt, p) = EndedOf(ms, p)
      <4>1. size \in Nat /\ size >= 1 /\ TotalOf(ms) \in Nat
        BY SizesFacts, RowFacts
      <4>2. p < TotalOf(ms) + size
        BY <1>1, <3>3, <4>1
      <4>. QED  BY <2>2, <4>2, EpochStays
    <3>. QED  BY <3>1, <3>2, <3>3
  <2>. QED  BY <2>1, <2>2
<1>. HIDE DEF x, y
<1>9. x <= y
  <2>1. SUFFICES ASSUME x >= 1  PROVE x <= y
    BY <1>7
  <2>2. x \in 1..Len(ms) /\ x \in 1..Len(mt)
    BY <1>7, <1>8, <2>1
  <2>3. EndIn(ms, x) <= to /\ EndIn(mt, x) = EndIn(ms, x) /\ EndIn(ms, x) \in Nat
    BY <1>7, <1>8, <2>2, RowFacts
  <2>4. EndIn(mt, x) <= tt
    BY <1>1, <2>3
  <2>. QED  BY <1>7, <2>2, <2>4
<1>10. Len(em) \in Nat /\ Len(en) = Len(em) + (y - x) /\ Len(em) <= Len(en)
  <2>1. Len(em) \in Nat /\ Len(en) = Len(em) + (y - x)
    BY LenProperties DEF x, y
  <2>2. x \in Nat /\ y \in Nat /\ x <= y
    BY <1>7, <1>9
  <2>. QED  BY ONLY <2>1, <2>2
<1>11. Counting(T, g)
  <2>1. ASSUME NEW j \in 1..Len(T)
        PROVE  g[j] = g[j - T[j].i] + (IF T[j].r.type \in Data THEN 1 ELSE 0)
    <3>1. CASE j \in 1..Len(S)
      <4>1. T[j] = S[j] /\ j \in 0..Len(S) /\ j - S[j].i \in 0..Len(S)
        BY <1>1, <1>3, <3>1
      <4>. QED  BY <1>4, <1>6, <3>1, <4>1, SMTT(30)
    <3>2. CASE j \notin 1..Len(S)
      <4>. DEFINE l == j - Len(S)
      <4>1. l \in 1..Len(b) /\ Len(S) + l = j /\ j \in 0..Len(T) /\ Len(S) <= j
        BY <1>1, <1>2, <1>3, <3>2
      <4>. HIDE DEF l
      <4>2. T[j] = b[l] /\ b[l].i <= l /\ b[l].i \in Nat /\ b[l].r.type = "handshake"
        BY <1>2, <1>3, <4>1
      <4>3. j - b[l].i \in 0..Len(T) /\ Len(S) <= j - b[l].i
        <5>1. l \in Nat /\ j = Len(S) + l /\ j \in 0..Len(T) /\ Len(S) \in Nat /\ Len(T) \in Nat
          BY <1>1, <1>2, <1>3, <4>1
        <5>. QED  BY ONLY <4>2, <5>1
      <4>4. T[j].r.type \notin Data
        BY <4>2 DEF Data
      <4>5. g[j] = c[Len(S)] /\ g[j - T[j].i] = c[Len(S)]
        BY <1>6, <4>1, <4>2, <4>3
      <4>. QED  BY <1>5, <4>4, <4>5
    <3>. QED  BY <3>1, <3>2
  <2>. QED  BY <1>6, <2>1 DEF Counting
<1>12. Len(en) = y + g[Len(T)]
  <2>1. Len(T) \in 0..Len(T) /\ Len(S) <= Len(T)
    BY <1>1, <1>2, <1>3
  <2>2. g[Len(T)] = c[Len(S)]
    BY <1>6, <2>1
  <2>. QED  BY <1>4, <1>5, <1>7, <1>10, <2>2, SMTT(30) DEF x
<1>13. \A k, item : ItemAt(em, k, item) => ItemAt(en, k, item)
  BY <1>10 DEF ItemAt
<1>14. DatasAt(mt, T, g, en)
  <2>1. SUFFICES ASSUME NEW j \in 1..Len(T), T[j].i = 1, T[j].r.type \in Data
                 PROVE  ItemAt(en, EndedOf(mt, T[j].r.first) + g[j], AsItem(T[j].r.type, 0))
    BY DEF DatasAt
  <2>2. j \in 1..Len(S)
    <3>1. SUFFICES ASSUME j \notin 1..Len(S)  PROVE FALSE
      OBVIOUS
    <3>2. j - Len(S) \in 1..Len(b) /\ Len(S) + (j - Len(S)) = j
      BY <1>1, <1>2, <1>3, <3>1
    <3>3. T[j].r.type = "handshake"
      BY <1>3, <3>2, ZenonT(60)
    <3>. QED  BY <2>1, <3>3 DEF Data
  <2>3. T[j] = S[j] /\ g[j] = c[j]
    BY <1>1, <1>3, <1>6, <2>2
  <2>4. ItemAt(em, EndedOf(ms, S[j].r.first) + c[j], AsItem(S[j].r.type, 0))
    BY <1>4, <2>1, <2>2, <2>3 DEF DatasAt
  <2>5. EndedOf(mt, S[j].r.first) = EndedOf(ms, S[j].r.first)
    BY <1>1, <1>8, <2>2
  <2>. QED  BY <1>13, <2>3, <2>4, <2>5
<1>15. MessagesAt(mt, T, g, n, en, tt)
  <2>1. SUFFICES ASSUME NEW m \in 1..y, NEW k \in 0..Len(T), n < m, CutAt(T, k, EndIn(mt, m))
                 PROVE  ItemAt(en, m + g[k], AsItem("handshake", m))
    BY DEF MessagesAt, y
  <2>2. m \in 1..Len(mt) /\ EndIn(mt, m) \in Nat
    <3>1. m \in 1..Len(mt)
      BY <1>7
    <3>. QED  BY <3>1, RowFacts
  <2>3. CASE m <= x
    <3>1. m \in 1..x /\ m \in 1..Len(ms)
      BY <1>7, <2>3
    <3>2. EndIn(mt, m) = EndIn(ms, m) /\ EndIn(ms, m) <= to
      BY <1>7, <1>8, <2>3, <3>1
    <3>3. k <= Len(S)
      <4>1. SUFFICES ASSUME Len(S) < k  PROVE FALSE
        BY <1>1
      <4>2. Len(S) + 1 \in 1..k /\ 1 \in 1..Len(b)
        BY <1>1, <1>2, <1>3, <4>1
      <4>3. T[Len(S) + 1] = b[1] /\ to <= b[1].r.first
        BY <1>3, <4>2
      <4>4. T[Len(S) + 1].r.first < EndIn(mt, m)
        BY <2>1, <4>2 DEF CutAt
      <4>5. b[1].r.first \in Nat
        BY <1>2, <4>2, ByteFacts, RecordFacts
      <4>6. /\ EndIn(mt, m) \in Nat /\ EndIn(mt, m) <= to /\ to \in Nat /\ to <= b[1].r.first
            /\ b[1].r.first < EndIn(mt, m) /\ b[1].r.first \in Nat
        BY <1>1, <2>2, <3>2, <4>3, <4>4, <4>5
      <4>. QED  BY ONLY <4>6
    <3>4. k \in 0..Len(S)
      BY <1>1, <3>3
    <3>5. CutAt(S, k, EndIn(ms, m))
      <4>1. \A i \in 1..k : i \in 1..Len(S)
        BY <1>1, <3>4
      <4>2. \A i \in (k + 1)..Len(S) : i \in 1..Len(S) /\ i \in (k + 1)..Len(T)
        BY <1>1, <1>2, <1>3, <3>4
      <4>. QED  BY <1>3, <2>1, <3>2, <4>1, <4>2 DEF CutAt
    <3>6. ItemAt(em, m + c[k], AsItem("handshake", m))
      BY <1>4, <2>1, <3>1, <3>4, <3>5 DEF MessagesAt, x
    <3>. QED  BY <1>6, <1>13, <3>4, <3>6
  <2>4. CASE ~(m <= x)
    <3>1. m \in (x + 1)..y
      BY <1>7, <2>4
    <3>2. k = Len(T)
      <4>0. Len(T) \in Nat
        BY <1>1, <1>2, <1>3
      <4>1. SUFFICES ASSUME k < Len(T)  PROVE FALSE
        BY <4>0
      <4>2. k + 1 \in (k + 1)..Len(T) /\ k + 1 \in 1..Len(T) /\ k \in Nat
        BY <1>1, <1>2, <1>3, <4>1
      <4>3. EndIn(mt, m) <= T[k + 1].r.first
        BY <2>1, <4>2 DEF CutAt
      <4>4. CASE k + 1 <= Len(S)
        <5>1. k + 1 \in 1..Len(S)
          BY <4>2, <4>4
        <5>2. T[k + 1] = S[k + 1] /\ S[k + 1].r.first <= to /\ S[k + 1].r.first \in Nat
          BY <1>1, <1>3, <5>1
        <5>3. EndIn(mt, m) <= to
          BY <1>1, <2>2, <4>3, <5>2, SMTT(30)
        <5>4. CASE m \in 1..Len(ms)
          BY <1>7, <1>8, <2>4, <5>3, <5>4
        <5>5. CASE m \notin 1..Len(ms)
          <6>1. EndedOf(mt, to) = x
            BY <1>1, <1>8 DEF x
          <6>2. EndIn(mt, m) <= to <=> m <= EndedOf(mt, to)
            BY <1>1, <2>2, EndedSet
          <6>. QED  BY <2>4, <5>3, <6>1, <6>2
        <5>. QED  BY <5>4, <5>5
      <4>5. CASE ~(k + 1 <= Len(S))
        <5>. DEFINE l == (k + 1) - Len(S)
        <5>1. l \in 1..Len(b) /\ Len(S) + l = k + 1
          BY <1>1, <1>2, <1>3, <4>2, <4>5
        <5>. HIDE DEF l
        <5>2. T[k + 1] = b[l] /\ b[l].r.first < EndIn(mt, m)
          BY <1>3, <3>1, <5>1 DEF x, y
        <5>3. b[l].r.first \in Nat
          BY <1>2, <5>1, ByteFacts, RecordFacts
        <5>. QED  BY <2>2, <4>3, <5>2, <5>3, SMTT(30)
      <4>. QED  BY <4>4, <4>5
    <3>3. g[k] = c[Len(S)]
      <4>1. Len(S) <= k
        BY <1>1, <1>2, <1>3, <3>2
      <4>. QED  BY <1>6, <4>1
    <3>4. m + g[k] = Len(em) + (m - x)
      BY <1>4, <1>5, <1>7, <3>1, <3>3, SMTT(30) DEF x
    <3>5. en[Len(em) + (m - x)] = AsItem("handshake", m)
      BY <3>1 DEF x, y
    <3>6. Len(em) + (m - x) \in 1..Len(en)
      BY <1>7, <1>10, <3>1, SMTT(30)
    <3>. QED  BY <3>4, <3>5, <3>6 DEF ItemAt
  <2>. QED  BY <2>3, <2>4
<1>16. g[0] = c[0]
  BY <1>5, <1>6
<1>. QED  BY <1>11, <1>12, <1>14, <1>15, <1>16 DEF ItemsAt, T, y

(* A record without handshake bytes is put behind the others.               *)
(* What the peer adds when it puts the record r behind S.                   *)
MayAdd(ms, S, b, c, n, to, em, en, r) ==
    /\ InRow(ms) /\ n \in Nat /\ r \in RecordType /\ r.first = to /\ r.type # "handshake"
    /\ Placed(S, to) /\ ItemsAt(ms, S, c, n, em, to) /\ em \in Seq(Items)
    /\ IF r.type \in Data THEN en = Append(em, AsItem(r.type, 0)) ELSE en = em
    /\ b \in Seq(Byte) /\ Len(b) = Size(r) /\ \A j \in 1..Size(r) : b[j] = [r |-> r, i |-> j]

(* A record without handshake bytes adds its own item, if it is data or an  *)
(* alert, and moves no other.                                               *)
LEMMA EmitOther ==
  ASSUME NEW ms, NEW S, NEW b, NEW c, NEW n, NEW to, NEW em, NEW en, NEW r,
         MayAdd(ms, S, b, c, n, to, em, en, r)
  PROVE  \E g : ItemsAt(ms, S \o b, g, n, en, to) /\ g[0] = c[0]
<1>. SUFFICES ASSUME InRow(ms), n \in Nat, r \in RecordType, r.first = to, r.type # "handshake",
           Placed(S, to), ItemsAt(ms, S, c, n, em, to), em \in Seq(Items),
           IF r.type \in Data THEN en = Append(em, AsItem(r.type, 0)) ELSE en = em,
           b \in Seq(Byte), Len(b) = Size(r), \A j \in 1..Size(r) : b[j] = [r |-> r, i |-> j]
         PROVE  \E g : ItemsAt(ms, S \o b, g, n, en, to) /\ g[0] = c[0]
  BY DEF MayAdd
<1>. DEFINE T == S \o b
            one == IF r.type \in Data THEN 1 ELSE 0
            g == [k \in 0..Len(T) |-> IF k <= Len(S) THEN c[k] ELSE c[Len(S)] + one]
            x == EndedOf(ms, to)
<1>1. /\ Len(S) \in Nat /\ S \in Seq(Byte) /\ to \in Nat
      /\ \A j \in 1..Len(S) : /\ S[j].r \in RecordType /\ S[j].i \in 1..j
                              /\ j - S[j].i \in 0..Len(S) /\ j - S[j].i < j
                              /\ S[j].r.first \in Nat /\ S[j].r.first <= to
  BY PlacedFacts DEF Placed
<1>2. Len(b) \in Nat /\ Len(b) >= 1
  BY RecordFacts
<1>3. /\ T \in Seq(Byte) /\ Len(T) = Len(S) + Len(b)
      /\ \A i \in 1..Len(S) : T[i] = S[i]
      /\ \A i \in 1..Len(b) : T[Len(S) + i] = b[i]
  <2>1. S \in Seq(Byte) /\ b \in Seq(Byte)
    BY <1>1
  <2>2. /\ S \o b \in Seq(Byte) /\ Len(S \o b) = Len(S) + Len(b)
        /\ \A i \in 1..Len(S) : (S \o b)[i] = S[i]
        /\ \A i \in 1..Len(b) : (S \o b)[Len(S) + i] = b[i]
    BY ONLY <2>1, ConcatFacts
  <2>. QED  BY <2>2
<1>4. /\ c \in [0..Len(S) -> Nat] /\ Len(em) = x + c[Len(S)]
      /\ \A j \in 1..Len(S) : c[j] = c[j - S[j].i] + (IF S[j].r.type \in Data THEN 1 ELSE 0)
      /\ DatasAt(ms, S, c, em) /\ MessagesAt(ms, S, c, n, em, to)
  BY DEF ItemsAt, Counting
<1>5. /\ 0 \in 0..Len(S) /\ Len(S) \in 0..Len(S) /\ c[Len(S)] \in Nat /\ c[0] \in Nat
      /\ one \in {0, 1} /\ one \in Nat
  BY <1>1, <1>4
<1>. HIDE DEF T, one
<1>6. /\ g \in [0..Len(T) -> Nat]
      /\ \A k \in 0..Len(S) : g[k] = c[k]
      /\ \A k \in 0..Len(T) : ~(k <= Len(S)) => g[k] = c[Len(S)] + one
  <2>1. \A k \in 0..Len(T) : k <= Len(S) => k \in 0..Len(S)
    BY <1>1
  <2>2. \A k \in 0..Len(S) : k \in 0..Len(T) /\ k <= Len(S)
    BY <1>1, <1>2, <1>3
  <2>3. c[Len(S)] + one \in Nat
    BY <1>5
  <2>. QED  BY <1>4, <2>1, <2>2, <2>3
<1>. HIDE DEF g
<1>7. /\ x \in Nat /\ \A m \in 1..Len(ms) : EndIn(ms, m) <= to <=> m <= x
      /\ x <= Len(ms) /\ Len(ms) \in Nat
  <2>1. /\ EndedOf(ms, to) \in 0..Len(ms) /\ Len(ms) \in Nat
        /\ \A m \in 1..Len(ms) : EndIn(ms, m) <= to <=> m <= EndedOf(ms, to)
    BY <1>1, EndedSet, RowFacts
  <2>2. EndedOf(ms, to) \in Nat /\ EndedOf(ms, to) <= Len(ms)
    BY <2>1
  <2>. QED  BY <2>1, <2>2
<1>. HIDE DEF x
<1>8. /\ Len(em) \in Nat /\ Len(en) = Len(em) + one
      /\ \A i \in 1..Len(em) : en[i] = em[i]
      /\ r.type \in Data => en[Len(em) + 1] = AsItem(r.type, 0)
  <2>1. Len(em) \in Nat
    BY LenProperties
  <2>2. CASE r.type \in Data
    <3>1. AsItem(r.type, 0) \in Items
      BY <2>2 DEF AsItem, Items, Data
    <3>2. /\ Len(en) = Len(em) + 1 /\ \A i \in 1..Len(em) : en[i] = em[i]
          /\ en[Len(em) + 1] = AsItem(r.type, 0)
      BY <2>2, <3>1, AppendProperties
    <3>. QED  BY <2>1, <2>2, <3>2 DEF one
  <2>3. CASE r.type \notin Data
    BY <2>1, <2>3 DEF one
  <2>. QED  BY <2>2, <2>3
<1>9. ASSUME NEW j \in 1..Len(T), j \notin 1..Len(S)
      PROVE  /\ j - Len(S) \in 1..Size(r) /\ T[j] = [r |-> r, i |-> j - Len(S)]
             /\ T[j].r = r /\ T[j].i = j - Len(S) /\ ~(j <= Len(S)) /\ j \in 0..Len(T)
             /\ j - (j - Len(S)) = Len(S)
  <2>1. /\ j - Len(S) \in 1..Len(b) /\ Len(S) + (j - Len(S)) = j /\ ~(j <= Len(S)) /\ j \in 0..Len(T)
        /\ j - (j - Len(S)) = Len(S)
    BY <1>1, <1>2, <1>3, <1>9
  <2>2. T[j] = [r |-> r, i |-> j - Len(S)]
    BY <1>3, <2>1
  <2>. QED  BY <2>1, <2>2
<1>10. Counting(T, g)
  <2>1. ASSUME NEW j \in 1..Len(T)
        PROVE  g[j] = g[j - T[j].i] + (IF T[j].r.type \in Data THEN 1 ELSE 0)
    <3>1. CASE j \in 1..Len(S)
      <4>1. T[j] = S[j] /\ j \in 0..Len(S) /\ j - S[j].i \in 0..Len(S)
        BY <1>1, <1>3, <3>1
      <4>. QED  BY <1>4, <1>6, <3>1, <4>1
    <3>2. CASE j \notin 1..Len(S)
      <4>1. g[j] = c[Len(S)] + one /\ g[Len(S)] = c[Len(S)] /\ T[j].r = r /\ j - T[j].i = Len(S)
        BY <1>5, <1>6, <1>9, <3>2
      <4>. QED  BY <4>1 DEF one
    <3>. QED  BY <3>1, <3>2
  <2>. QED  BY <1>6, <2>1 DEF Counting
<1>11. Len(en) = x + g[Len(T)]
  <2>1. Len(T) \in 0..Len(T) /\ ~(Len(T) <= Len(S))
    BY <1>1, <1>2, <1>3
  <2>2. g[Len(T)] = c[Len(S)] + one
    BY <1>6, <2>1
  <2>. QED  BY <1>4, <1>5, <1>7, <1>8, <2>2, SMTT(30) DEF x
<1>12. \A k, item : ItemAt(em, k, item) => ItemAt(en, k, item)
  <2>1. \A k \in 1..Len(em) : k \in 1..Len(en)
    BY <1>5, <1>8
  <2>. QED  BY <1>8, <2>1 DEF ItemAt
<1>13. DatasAt(ms, T, g, en)
  <2>1. SUFFICES ASSUME NEW j \in 1..Len(T), T[j].i = 1, T[j].r.type \in Data
                 PROVE  ItemAt(en, EndedOf(ms, T[j].r.first) + g[j], AsItem(T[j].r.type, 0))
    BY DEF DatasAt
  <2>2. CASE j \in 1..Len(S)
    <3>1. T[j] = S[j] /\ g[j] = c[j]
      BY <1>1, <1>3, <1>6, <2>2
    <3>2. ItemAt(em, EndedOf(ms, S[j].r.first) + c[j], AsItem(S[j].r.type, 0))
      BY <1>4, <2>1, <2>2, <3>1 DEF DatasAt
    <3>. QED  BY <1>12, <3>1, <3>2
  <2>3. CASE j \notin 1..Len(S)
    <3>1. T[j].r = r /\ g[j] = c[Len(S)] + one
      BY <1>6, <1>9, <2>3
    <3>2. one = 1 /\ r.type \in Data
      BY <2>1, <3>1 DEF one
    <3>3. EndedOf(ms, T[j].r.first) = x
      BY <3>1 DEF x
    <3>4. x + g[j] = Len(em) + 1 /\ Len(em) + 1 \in 1..Len(en)
      BY <1>4, <1>5, <1>7, <1>8, <3>1, <3>2, SMTT(30) DEF x
    <3>. QED  BY <1>8, <3>1, <3>2, <3>3, <3>4 DEF ItemAt
  <2>. QED  BY <2>2, <2>3
<1>14. MessagesAt(ms, T, g, n, en, to)
  <2>1. SUFFICES ASSUME NEW m \in 1..x, NEW k \in 0..Len(T), n < m, CutAt(T, k, EndIn(ms, m))
                 PROVE  ItemAt(en, m + g[k], AsItem("handshake", m))
    BY DEF MessagesAt, x
  <2>2. m \in 1..Len(ms) /\ m <= x
    BY <1>7
  <2>3. EndIn(ms, m) <= to /\ EndIn(ms, m) \in Nat
    BY <1>7, <2>2, RowFacts
  <2>4. k <= Len(S)
    <3>1. SUFFICES ASSUME ~(k <= Len(S))  PROVE FALSE
      OBVIOUS
    <3>2. k \in 1..k /\ k \in 1..Len(T) /\ k \notin 1..Len(S)
      BY <1>1, <1>2, <1>3, <3>1
    <3>3. T[k].r.first < EndIn(ms, m) /\ T[k].r.first = to
      BY <1>9, <2>1, <3>2 DEF CutAt
    <3>. QED  BY <1>1, <2>3, <3>3
  <2>5. k \in 0..Len(S)
    BY <1>1, <2>4
  <2>6. CutAt(S, k, EndIn(ms, m))
    <3>1. \A i \in 1..k : i \in 1..Len(S)
      BY <1>1, <2>5
    <3>2. \A i \in (k + 1)..Len(S) : i \in 1..Len(S) /\ i \in (k + 1)..Len(T)
      BY <1>1, <1>2, <1>3, <2>5
    <3>. QED  BY <1>3, <2>1, <3>1, <3>2 DEF CutAt
  <2>7. ItemAt(em, m + c[k], AsItem("handshake", m))
    BY <1>4, <2>1, <2>5, <2>6 DEF MessagesAt, x
  <2>. QED  BY <1>6, <1>12, <2>5, <2>7
<1>15. g[0] = c[0]
  BY <1>5, <1>6
<1>. QED  BY <1>10, <1>11, <1>13, <1>14, <1>15 DEF ItemsAt, T, x

(* The first record leaves: its item, if it is one, has been acted upon.    *)
LEMMA DropItems ==
  ASSUME NEW ms, InRow(ms), NEW S, NEW from, NEW to, Stream(S, from, to), Len(S) # 0,
         NEW c, NEW n \in Nat, NEW em, ItemsAt(ms, S, c, n, em, to),
         \A m \in 1..Len(ms) : n < m => from < EndIn(ms, m)
  PROVE  \E g : /\ ItemsAt(ms, Drop(S, Size(S[1].r)), g, n, em, to)
                /\ g[0] = c[0] + (IF S[1].r.type \in Data THEN 1 ELSE 0)
<1>. DEFINE r == S[1].r
            d == Size(r)
            T == Drop(S, d)
            g == [k \in 0..Len(T) |-> c[d + k]]
<1>1. /\ r \in RecordType /\ r.first = from /\ d <= Len(S)
      /\ \A i \in 1..d : S[i] = [r |-> r, i |-> i]
      /\ Stream(T, EndOf(r), to)
  BY FirstRecord
<1>2. d \in Nat /\ d >= 1 /\ Len(S) \in Nat /\ S \in Seq(Byte) /\ from \in Nat /\ to \in Nat
  BY <1>1, RecordFacts, LenProperties DEF Stream
<1>3. /\ T \in Seq(Byte) /\ Len(T) = Len(S) - d
      /\ \A i \in 1..(Len(S) - d) : T[i] = S[d + i]
  <2>1. d \in 0..Len(S) /\ S \in Seq(Byte)
    BY <1>1, <1>2
  <2>. HIDE DEF d
  <2>. QED  BY ONLY <2>1, DropFacts DEF T
<1>4. /\ c \in [0..Len(S) -> Nat] /\ Len(em) = EndedOf(ms, to) + c[Len(S)]
      /\ \A j \in 1..Len(S) : c[j] = c[j - S[j].i] + (IF S[j].r.type \in Data THEN 1 ELSE 0)
      /\ DatasAt(ms, S, c, em) /\ MessagesAt(ms, S, c, n, em, to)
  BY DEF ItemsAt, Counting
<1>. HIDE DEF T, r, d
<1>5. Len(T) \in Nat /\ d + Len(T) = Len(S)
  BY <1>1, <1>2, <1>3
<1>6. /\ \A k \in 0..Len(T) : d + k \in 0..Len(S)
      /\ \A k \in 1..Len(T) : d + k \in 1..Len(S) /\ T[k] = S[d + k]
  <2>1. \A k \in 0..Len(T) : d + k \in 0..Len(S)
    BY <1>2, <1>5
  <2>2. ASSUME NEW k \in 1..Len(T)  PROVE d + k \in 1..Len(S) /\ T[k] = S[d + k]
    <3>1. d + k \in 1..Len(S) /\ k \in 1..(Len(S) - d)
      BY <1>2, <1>5
    <3>. QED  BY <1>3, <3>1
  <2>. QED  BY <2>1, <2>2
<1>7. g \in [0..Len(T) -> Nat] /\ \A k \in 0..Len(T) : g[k] = c[d + k]
  BY <1>4, <1>6
<1>. HIDE DEF g
<1>8. Counting(T, g)
  <2>1. ASSUME NEW j \in 1..Len(T)
        PROVE  g[j] = g[j - T[j].i] + (IF T[j].r.type \in Data THEN 1 ELSE 0)
    <3>1. T[j].i <= j /\ T[j].i \in Nat /\ T[j] = S[d + j] /\ d + j \in 1..Len(S)
      BY <1>1, <1>3, <1>6, ElementOfSeq, ByteFacts DEF Stream, WholeAt
    <3>2. /\ j \in 0..Len(T) /\ j - T[j].i \in 0..Len(T)
          /\ d + (j - T[j].i) = (d + j) - T[j].i
      <4>1. T[j].i <= j /\ T[j].i \in Nat /\ d \in Nat /\ Len(T) \in Nat /\ j \in Nat /\ j <= Len(T)
        BY <1>2, <1>5, <3>1
      <4>. QED  BY ONLY <4>1
    <3>3. c[d + j] = c[(d + j) - S[d + j].i] + (IF S[d + j].r.type \in Data THEN 1 ELSE 0)
      BY <1>4, <3>1
    <3>4. g[j] = c[d + j] /\ g[j - T[j].i] = c[(d + j) - T[j].i]
      BY <1>7, <3>2
    <3>. QED  BY <3>1, <3>3, <3>4
  <2>. QED  BY <1>7, <2>1 DEF Counting
<1>9. Len(em) = EndedOf(ms, to) + g[Len(T)]
  <2>1. Len(T) \in 0..Len(T)
    BY <1>5
  <2>. QED  BY <1>4, <1>5, <1>7, <2>1
<1>10. DatasAt(ms, T, g, em)
  <2>1. SUFFICES ASSUME NEW j \in 1..Len(T), T[j].i = 1, T[j].r.type \in Data
                 PROVE  ItemAt(em, EndedOf(ms, T[j].r.first) + g[j], AsItem(T[j].r.type, 0))
    BY DEF DatasAt
  <2>2. T[j] = S[d + j] /\ d + j \in 1..Len(S) /\ g[j] = c[d + j]
    BY <1>5, <1>6, <1>7
  <2>. QED  BY <1>4, <2>1, <2>2 DEF DatasAt
<1>11. MessagesAt(ms, T, g, n, em, to)
  <2>1. SUFFICES ASSUME NEW m \in 1..EndedOf(ms, to), NEW k \in 0..Len(T), n < m,
                        CutAt(T, k, EndIn(ms, m))
                 PROVE  ItemAt(em, m + g[k], AsItem("handshake", m))
    BY DEF MessagesAt
  <2>2. m \in 1..Len(ms)
    <3>1. EndedOf(ms, to) \in 0..Len(ms) /\ Len(ms) \in Nat
      BY <1>2, EndedSet, RowFacts
    <3>. QED  BY <3>1
  <2>3. r.first < EndIn(ms, m)
    BY <1>1, <2>1, <2>2
  <2>4. CutAt(S, d + k, EndIn(ms, m))
    <3>1. ASSUME NEW i \in 1..(d + k)  PROVE S[i].r.first < EndIn(ms, m)
      <4>1. CASE i \in 1..d
        <5>1. S[i] = [r |-> r, i |-> i]
          BY <1>1, <4>1
        <5>. QED  BY <2>3, <5>1
      <4>2. CASE i \notin 1..d
        <5>. DEFINE l == i - d
        <5>1. l \in 1..k /\ l \in 1..Len(T) /\ d + l = i
          BY <1>2, <1>5, <4>2
        <5>. HIDE DEF l
        <5>. QED  BY <1>6, <2>1, <5>1 DEF CutAt
      <4>. QED  BY <4>1, <4>2
    <3>2. ASSUME NEW i \in ((d + k) + 1)..Len(S)  PROVE EndIn(ms, m) <= S[i].r.first
      <4>. DEFINE l == i - d
      <4>1. l \in (k + 1)..Len(T) /\ l \in 1..Len(T) /\ d + l = i
        BY <1>2, <1>5
      <4>. HIDE DEF l
      <4>. QED  BY <1>6, <2>1, <4>1 DEF CutAt
    <3>. QED  BY <3>1, <3>2 DEF CutAt
  <2>5. d + k \in 0..Len(S) /\ g[k] = c[d + k]
    BY <1>6, <1>7
  <2>. QED  BY <1>4, <2>1, <2>4, <2>5 DEF MessagesAt
<1>12. g[0] = c[0] + (IF r.type \in Data THEN 1 ELSE 0)
  <2>1. S[d] = [r |-> r, i |-> d] /\ d \in 1..Len(S) /\ d - d = 0 /\ d + 0 = d /\ 0 \in 0..Len(T)
    BY <1>1, <1>2, <1>5
  <2>2. S[d].r = r /\ S[d].i = d
    BY <2>1
  <2>3. c[d] = c[0] + (IF r.type \in Data THEN 1 ELSE 0)
    BY <1>4, <2>1, <2>2
  <2>. QED  BY <1>7, <2>1, <2>3
<1>13. ItemsAt(ms, T, g, n, em, to)
  BY <1>8, <1>9, <1>10, <1>11 DEF ItemsAt
<1>. QED  BY <1>12, <1>13 DEF T, d, r

-----------------------------------------------------------------------------
(* The items on their way are the ones the channel has not delivered.       *)
Queue == IF conf.api = "record" THEN rec \o wire ELSE <<>>

(* What was acted upon is the messages handled and the data before the      *)
(* first byte on the way.                                                   *)
ItemsInv ==
    pc # "failed" => \E c : /\ ItemsAt(messages, Queue, c, done, emitted, sent)
                            /\ c[0] = Len(got) - done

(* The bytes on the way, those of recvbuf.rec first, carry the handshake    *)
(* stream from what was received to what was sent.                          *)
LEMMA QueuePlaced ==
  ASSUME RecordsInv, pc # "failed"
  PROVE  Placed(Queue, sent) /\ (conf.api = "record" => Stream(Queue, Received, sent))
<1>1. StreamInv /\ sent \in Nat
  BY DEF RecordsInv, LiveInv, TypeInv
<1>2. CASE conf.api = "record"
  <2>1. Stream(Queue, Received, sent)
    BY <1>1, <1>2 DEF StreamInv, Queue
  <2>2. ASSUME NEW j \in 1..Len(Queue)  PROVE Queue[j].i <= j /\ Queue[j].r.first <= sent
    <3>1. Queue[j].i <= j /\ EndOf(Queue[j].r) <= sent /\ Queue \in Seq(Byte)
      BY <2>1 DEF Stream, WholeAt, OrderedAt
    <3>2. Queue[j].r \in RecordType
      BY <3>1, ElementOfSeq, ByteFacts
    <3>3. Queue[j].r.first \in Nat /\ EndOf(Queue[j].r) \in Nat /\ Queue[j].r.first <= EndOf(Queue[j].r)
      BY <3>2, RecordFacts
    <3>. QED  BY <1>1, <3>1, <3>3
  <2>. QED  BY <1>1, <2>1, <2>2 DEF Placed, Stream
<1>3. CASE conf.api # "record"
  BY <1>1, <1>3, EmptySeq DEF Queue, Placed
<1>. QED  BY <1>2, <1>3

(* The items stay where they are when nothing moves.                        *)
LEMMA KeepItems ==
  ASSUME ItemsInv, pc # "failed", Queue' = Queue, UNCHANGED <<messages, done, emitted, sent, got>>
  PROVE  ItemsInv'
  BY DEF ItemsInv

(* Nothing has been emitted initially.                                      *)
LEMMA InitItems == Init => ItemsInv
<1>1. SUFFICES ASSUME Init  PROVE ItemsInv
  OBVIOUS
<1>2. /\ messages = <<>> /\ sent = 0 /\ emitted = <<>> /\ rec = <<>> /\ wire = <<>>
      /\ done = 0 /\ got = <<>> /\ RecordsInv
  BY <1>1, InitRecords DEF Init
<1>3. \A T : <<>> \in Seq(T) /\ Len(<<>>) = 0
  BY EmptySeq
<1>4. Queue = <<>>
  BY <1>2, <1>3, ConcatEmptySeq DEF Queue
<1>5. EndedOf(messages, sent) = 0
  <2>1. EndedOf(messages, sent) \in 0..Len(messages) /\ Len(messages) = 0
    BY <1>2, <1>3, EndedSet DEF RecordsInv, RowInv, TypeInv
  <2>. QED  BY <2>1
<1>. DEFINE c == [k \in 0..0 |-> 0]
<1>6. c[0] = 0 /\ c \in [0..0 -> Nat]
  OBVIOUS
<1>. HIDE DEF c
<1>7. Len(Queue) = 0 /\ Len(emitted) = 0 /\ Len(got) - done = 0
  BY <1>2, <1>3, <1>4
<1>8. Counting(Queue, c)
  BY <1>6, <1>7 DEF Counting
<1>9. DatasAt(messages, Queue, c, emitted)
  BY <1>7 DEF DatasAt
<1>10. MessagesAt(messages, Queue, c, done, emitted, sent)
  BY <1>5 DEF MessagesAt
<1>. QED  BY <1>5, <1>6, <1>7, <1>8, <1>9, <1>10 DEF ItemsInv, ItemsAt

(* Between two records the messages still to come end further on.           *)
LEMMA StillToCome ==
  ASSUME RecordsInv, pc # "failed", pc # "messages"
  PROVE  /\ \A m \in 1..Len(messages) : done < m => Received < EndIn(messages, m)
         /\ EndedOf(messages, Received) = done
<1>1. TypeInv /\ RowInv /\ MessInv /\ done \in Nat /\ InRow(messages)
  BY DEF RecordsInv, LiveInv, TypeInv, RowInv
<1>2. /\ Received \in Nat /\ EndedOf(messages, Received) = done
      /\ \A m \in 1..Len(messages) : EndIn(messages, m) <= Received <=> m <= done
  BY <1>1, PositionFacts
<1>3. ASSUME NEW m \in 1..Len(messages), done < m  PROVE Received < EndIn(messages, m)
  <2>1. ~(m <= done) /\ EndIn(messages, m) \in Nat
    <3>1. Len(messages) \in Nat /\ EndIn(messages, m) \in Nat
      BY <1>1, RowFacts
    <3>2. m \in Nat
      BY <3>1
    <3>. QED  BY <1>1, <1>3, <3>1, <3>2
  <2>2. ~(EndIn(messages, m) <= Received)
    BY <1>2, <2>1
  <2>. QED  BY <1>2, <2>1, <2>2
<1>. QED  BY <1>2, <1>3

(* What a record that carries data stands for is the next item.             *)
LEMMA NextData ==
  ASSUME RecordsInv, ItemsInv, pc = "input", avail > 0, Current.type \in Data
  PROVE  ItemAt(emitted, Len(got) + 1, AsItem(Current.type, 0))
<1>1. PICK c : ItemsAt(messages, Queue, c, done, emitted, sent) /\ c[0] = Len(got) - done
  BY DEF ItemsInv
<1>2. /\ conf.api = "record" /\ Current = (rec \o wire)[1].r /\ Current.first = Received
      /\ Stream(rec \o wire, Received, sent) /\ Len(rec \o wire) = Len(rec) + Len(wire)
  BY CurrentFacts DEF RecordsInv
<1>3. Len(rec) \in Nat /\ Len(wire) \in Nat /\ avail \in 0..Len(wire) /\ Len(got) \in Nat /\ done \in Nat
  BY LenFacts, LenProperties DEF RecordsInv, TypeInv
<1>4. Queue = rec \o wire /\ Len(Queue) # 0 /\ 1 \in 1..Len(Queue) /\ Len(Queue) \in Nat
  BY <1>2, <1>3 DEF Queue
<1>5. Queue[1].r = Current /\ Queue[1].i = 1
  BY <1>2, <1>4, FirstRecord
<1>6. ItemAt(emitted, EndedOf(messages, Received) + c[1], AsItem(Current.type, 0))
  BY <1>1, <1>2, <1>4, <1>5 DEF ItemsAt, DatasAt
<1>7. c[1] = c[1 - 1] + 1 /\ c[0] \in Nat
  BY <1>1, <1>4, <1>5 DEF ItemsAt, Counting
<1>8. EndedOf(messages, Received) = done
  BY StillToCome
<1>9. done + c[1] = Len(got) + 1
  BY <1>1, <1>3, <1>7
<1>. QED  BY <1>6, <1>8, <1>9

(* So is the message at hand.                                               *)
LEMMA NextMessage ==
  ASSUME RecordsInv, ItemsInv, handle_message
  PROVE  /\ ItemAt(emitted, Len(got) + 1, AsItem("handshake", done + 1))
         /\ Message = done + 1
<1>1. PICK c : ItemsAt(messages, Queue, c, done, emitted, sent) /\ c[0] = Len(got) - done
  BY DEF ItemsInv, handle_message
<1>2. TypeInv /\ RowInv /\ MessInv /\ pc = "messages" /\ InRow(messages) /\ sent \in Nat
      /\ done \in Nat /\ Len(got) \in Nat
  BY LenProperties DEF RecordsInv, LiveInv, handle_message, RowInv, TypeInv
<1>3. src # <<>>
  <2>1. Len(src) >= MESS_HEADER /\ MESS_HEADER \in Nat /\ MESS_HEADER # 0
    BY SizesAssumption DEF handle_message, Unhandled
  <2>. QED  BY <1>2, <2>1, LenFacts
<1>4. /\ done + 1 \in 1..Len(messages) /\ Message = done + 1
      /\ mess_len = messages[done + 1].size
      /\ Base \in Nat /\ Len(src) \in Nat /\ Received = Base + Len(src)
      /\ EndIn(messages, done + 1) = Base + messages[done + 1].size
      /\ messages[done + 1].size \in Nat
  BY <1>2, <1>3, MessageIs
<1>5. EndIn(messages, done + 1) <= Received /\ Received <= sent /\ Received \in Nat
      /\ EndIn(messages, done + 1) \in Nat
  <2>1. messages[done + 1].size <= Len(src)
    BY <1>4 DEF handle_message, Unhandled
  <2>. QED  BY <1>2, <1>4, <2>1 DEF MessInv
<1>6. done + 1 \in 1..EndedOf(messages, sent)
  <2>1. EndIn(messages, done + 1) <= sent
    BY <1>2, <1>5
  <2>2. done + 1 <= EndedOf(messages, sent) /\ EndedOf(messages, sent) \in 0..Len(messages)
    BY <1>2, <1>4, <2>1, EndedSet
  <2>3. Len(messages) \in Nat
    BY <1>2, RowFacts
  <2>. QED  BY <1>2, <2>2, <2>3
<1>7. Placed(Queue, sent) /\ (conf.api = "record" => Stream(Queue, Received, sent))
  BY <1>2, QueuePlaced
<1>8. Len(Queue) \in Nat /\ 0 \in 0..Len(Queue)
      /\ \A j \in 1..Len(Queue) : Queue[j].r.first \in Nat
  BY <1>7, PlacedFacts
<1>9. ASSUME NEW i \in (0 + 1)..Len(Queue)  PROVE EndIn(messages, done + 1) <= Queue[i].r.first
  <2>1. i \in 1..Len(Queue)
    BY <1>8
  <2>2. CASE conf.api = "record"
    <3>1. Received <= Queue[i].r.first
      BY <1>7, <2>1, <2>2 DEF Stream, OrderedAt
    <3>. QED  BY <1>5, <1>8, <2>1, <3>1
  <2>3. CASE conf.api # "record"
    BY <2>1, <2>3, EmptySeq DEF Queue
  <2>. QED  BY <2>2, <2>3
<1>10. CutAt(Queue, 0, EndIn(messages, done + 1))
  BY <1>9 DEF CutAt
<1>11. ItemAt(emitted, (done + 1) + c[0], AsItem("handshake", done + 1))
  <2>1. done < done + 1
    BY <1>2
  <2>. QED  BY <1>1, <1>6, <1>8, <1>10, <2>1 DEF ItemsAt, MessagesAt
<1>12. (done + 1) + c[0] = Len(got) + 1
  BY <1>1, <1>2
<1>. QED  BY <1>4, <1>11, <1>12

(* handle_message acts upon one message and leaves the other items in their *)
(* places.                                                                  *)
LEMMA MessageItems ==
  ASSUME RecordsInv, ItemsInv, handle_message
  PROVE  ItemsInv'
<1>1. PICK c : ItemsAt(messages, Queue, c, done, emitted, sent) /\ c[0] = Len(got) - done
  BY DEF ItemsInv, handle_message
<1>2. /\ done \in Nat /\ got \in Seq(Items)
  BY DEF RecordsInv, TypeInv
<1>3. /\ done' = done + 1 /\ got' = Append(got, AsItem("handshake", done + 1))
      /\ UNCHANGED <<conf, messages, sent, emitted, wire, rec>>
  BY NextMessage DEF handle_message, sending
<1>4. Len(got') = Len(got) + 1 /\ Len(got) \in Nat
  <2>1. AsItem("handshake", done + 1) \in Items
    BY <1>2 DEF AsItem, Items
  <2>. QED  BY <1>2, <1>3, <2>1, AppendProperties, LenProperties
<1>5. Queue' = Queue
  BY <1>3 DEF Queue
<1>6. MessagesAt(messages, Queue, c, done + 1, emitted, sent)
  <2>1. ASSUME NEW m \in 1..EndedOf(messages, sent), done + 1 < m  PROVE done < m
    <3>1. EndedOf(messages, sent) \in Nat
      <4>1. EndedOf(messages, sent) \in 0..Len(messages) /\ Len(messages) \in Nat
        BY EndedSet, RowFacts DEF RecordsInv, RowInv, TypeInv
      <4>. QED  BY <4>1
    <3>. QED  BY <1>2, <2>1, <3>1
  <2>. QED  BY <1>1, <2>1 DEF ItemsAt, MessagesAt
<1>7. c[0] = Len(got') - done'
  <2>1. (Len(got) + 1) - (done + 1) = Len(got) - done
    BY <1>2, <1>4
  <2>. QED  BY <1>1, <1>3, <1>4, <2>1
<1>8. ItemsAt(messages', Queue', c, done', emitted', sent')
  BY <1>1, <1>3, <1>5, <1>6 DEF ItemsAt
<1>. QED  BY <1>7, <1>8 DEF ItemsInv

(* Taking a record off the bytes on the way leaves the items behind it in   *)
(* their places.                                                            *)
LEMMA RecordItems ==
  ASSUME RecordsInv, ItemsInv, change_cipher_spec \/ receive_data \/ handle_handshake_record
  PROVE  ItemsInv'
<1>1. /\ Whole /\ wire' = SubSeq(wire, Needed - Len(rec) + 1, Len(wire)) /\ rec' = <<>>
      /\ UNCHANGED <<conf, messages, sent, extra, emitted, done>>
      /\ \/ Current.type \notin Data /\ got' = got
         \/ Current.type \in Data /\ got' = Append(got, AsItem("appdata", 0))
  <2>1. CASE change_cipher_spec
    BY <2>1 DEF change_cipher_spec, NextRecord, Consumed, SkipsCCS, sending, Data
  <2>2. CASE receive_data
    BY <2>2 DEF receive_data, IsData, sending, Data
  <2>3. CASE handle_handshake_record
    BY <2>3 DEF handle_handshake_record, NextRecord, Consumed, IsHandshake, sending, Data
  <2>. QED  BY <2>1, <2>2, <2>3
<1>2. pc = "input" /\ avail > 0 /\ TypeInv /\ RowInv /\ LiveInv /\ InRow(messages)
      /\ got \in Seq(Items) /\ done \in Nat
  BY <1>1 DEF Whole, HasHeader, RecordsInv, RowInv, TypeInv
<1>3. /\ conf.api = "record" /\ Current = (rec \o wire)[1].r
      /\ Stream(rec \o wire, Received, sent) /\ Len(rec \o wire) = Len(rec) + Len(wire)
  BY <1>2, CurrentFacts
<1>4. rec' \o wire' = Drop(rec \o wire, Size(Current))
  <2>1. UNCHANGED <<conf, sending>>
    BY <1>1 DEF sending
  <2>. QED  BY <1>1, <1>2, <2>1, TakeRecord
<1>5. Queue = rec \o wire /\ Queue' = Drop(Queue, Size(Queue[1].r)) /\ Queue[1].r = Current
  BY <1>1, <1>3, <1>4 DEF Queue
<1>6. Len(Queue) # 0
  <2>1. Len(rec) \in Nat /\ Len(wire) \in Nat /\ avail \in 0..Len(wire)
    BY <1>2, LenFacts DEF TypeInv
  <2>. QED  BY <1>2, <1>3, <1>5, <2>1
<1>7. PICK c : ItemsAt(messages, Queue, c, done, emitted, sent) /\ c[0] = Len(got) - done
  BY <1>2 DEF ItemsInv
<1>8. \A m \in 1..Len(messages) : done < m => Received < EndIn(messages, m)
  BY <1>2, StillToCome
<1>9. Stream(Queue, Received, sent)
  BY <1>3, <1>5
<1>10. PICK g : /\ ItemsAt(messages, Drop(Queue, Size(Queue[1].r)), g, done, emitted, sent)
                /\ g[0] = c[0] + (IF Queue[1].r.type \in Data THEN 1 ELSE 0)
  BY ONLY <1>2, <1>6, <1>7, <1>8, <1>9, DropItems
<1>11. ItemsAt(messages', Queue', g, done', emitted', sent')
  BY <1>1, <1>5, <1>10
<1>12. Len(got) \in Nat /\ Len(got') = Len(got) + (IF Current.type \in Data THEN 1 ELSE 0)
  <2>1. Len(got) \in Nat
    BY <1>2, LenProperties
  <2>2. AsItem("appdata", 0) \in Items
    BY DEF AsItem, Items
  <2>3. Len(Append(got, AsItem("appdata", 0))) = Len(got) + 1
    BY <1>2, <2>2, AppendProperties
  <2>. QED  BY <1>1, <2>1, <2>3
<1>13. g[0] = Len(got') - done'
  <2>1. CASE Current.type \in Data
    BY <1>1, <1>2, <1>5, <1>7, <1>10, <1>12, <2>1
  <2>2. CASE Current.type \notin Data
    BY <1>1, <1>2, <1>5, <1>7, <1>10, <1>12, <2>2
  <2>. QED  BY <2>1, <2>2
<1>. QED  BY <1>11, <1>13 DEF ItemsInv

(* The actions that move no record and no item.                             *)
LEMMA QuietItems ==
  ASSUME RecordsInv, ItemsInv,
         \/ \E n \in 1..Len(wire) : Call(n) \/ ptls_handle_message(n)
         \/ Return \/ parse_record_incomplete \/ keep_partial_message \/ UNCHANGED vars
  PROVE  /\ UNCHANGED <<messages, done, emitted, sent, got>>
         /\ pc' = "failed" <=> pc = "failed"
         /\ ItemsInv'
<1>1. CASE \/ \E n \in 1..Len(wire) : Call(n)
           \/ Return \/ keep_partial_message
  <2>1. /\ UNCHANGED <<conf, messages, done, emitted, sent, got, rec, wire>>
        /\ pc # "failed" /\ pc' # "failed"
    BY <1>1 DEF Call, Return, keep_partial_message, sending
  <2>2. Queue' = Queue
    BY <2>1 DEF Queue
  <2>. QED  BY <2>1, <2>2, KeepItems
<1>2. CASE \E n \in 1..Len(wire) : ptls_handle_message(n)
  <2>1. /\ UNCHANGED <<conf, messages, done, emitted, sent, got>> /\ conf.api = "message"
        /\ pc # "failed" /\ pc' # "failed"
    BY <1>2 DEF ptls_handle_message, sending
  <2>2. Queue' = Queue
    BY <2>1 DEF Queue
  <2>. QED  BY <2>1, <2>2, KeepItems
<1>3. CASE parse_record_incomplete
  <2>1. /\ UNCHANGED <<conf, messages, done, emitted, sent, got, pc>>
        /\ pc # "failed" /\ pc' # "failed"
        /\ rec' = rec \o SubSeq(wire, 1, avail) /\ wire' = Drop(wire, avail)
    BY <1>3 DEF parse_record_incomplete, sending, Consumed, Buffered, Drop
  <2>2. rec \in Seq(Byte) /\ wire \in Seq(Byte) /\ avail \in 0..Len(wire)
    BY DEF RecordsInv, TypeInv
  <2>3. rec' \o wire' = rec \o wire
    BY <2>1, <2>2, Rejoin
  <2>4. Queue' = Queue
    BY <2>1, <2>3 DEF Queue
  <2>. QED  BY <2>1, <2>4, KeepItems
<1>4. CASE UNCHANGED vars
  <2>1. UNCHANGED <<conf, messages, done, emitted, sent, got, pc, rec, wire>>
    BY <1>4 DEF vars, sending, receiving
  <2>2. Queue' = Queue
    BY <2>1 DEF Queue
  <2>. QED  BY <2>1, <2>2 DEF ItemsInv
<1>. QED  BY <1>1, <1>2, <1>3, <1>4

(* More messages have ended further on.                                     *)
LEMMA EndedMono ==
  ASSUME NEW ms, InRow(ms), NEW p \in Nat, NEW q \in Nat, p <= q
  PROVE  /\ EndedOf(ms, p) \in Nat /\ EndedOf(ms, q) \in Nat /\ EndedOf(ms, p) <= EndedOf(ms, q)
         /\ EndedOf(ms, q) <= Len(ms) /\ Len(ms) \in Nat
<1>. DEFINE x == EndedOf(ms, p)
            y == EndedOf(ms, q)
<1>1. /\ x \in 0..Len(ms) /\ y \in 0..Len(ms) /\ Len(ms) \in Nat
      /\ \A m \in 1..Len(ms) : EndIn(ms, m) <= p <=> m <= x
      /\ \A m \in 1..Len(ms) : EndIn(ms, m) <= q <=> m <= y
      /\ \A m \in 1..Len(ms) : EndIn(ms, m) \in Nat
  BY EndedSet, RowFacts
<1>. HIDE DEF x, y
<1>2. x <= y
  <2>1. CASE x = 0
    BY <1>1, <2>1
  <2>2. CASE x # 0
    <3>1. x \in 1..Len(ms) /\ x <= x
      BY <1>1, <2>2
    <3>2. EndIn(ms, x) <= p /\ EndIn(ms, x) \in Nat
      BY <1>1, <3>1
    <3>3. EndIn(ms, x) <= q
      BY <3>2
    <3>. QED  BY <1>1, <3>1, <3>3
  <2>. QED  BY <2>1, <2>2
<1>. QED  BY <1>1, <1>2 DEF x, y

(* The peer's actions: its items are only added to.                         *)
Extends(new, old) ==
    /\ new \in Seq(Items) /\ Len(old) \in Nat /\ Len(old) <= Len(new)
    /\ \A i \in 1..Len(old) : new[i] = old[i]

(* commit_record_message emits the new message.                             *)
LEMMA CommitItems ==
  ASSUME RecordsInv, ItemsInv, NEW size \in Sizes, commit_record_message(size)
  PROVE  Extends(emitted', emitted) /\ UNCHANGED <<got, pc>> /\ pc = "idle" /\ ItemsInv'
<1>1. /\ conf.api = "record" /\ pc = "idle" /\ sent = TotalOf(messages)
      /\ messages' = Added(messages, size) /\ Len(messages') = Len(messages) + 1
      /\ Len(messages) \in Nat
      /\ sent \in Nat /\ size \in Nat /\ sent' = sent + size
      /\ TotalOf(messages') = sent + size
      /\ EndIn(messages', Len(messages) + 1) = sent + size
      /\ emitted' = Append(emitted, AsItem("handshake", Len(messages) + 1))
      /\ UNCHANGED <<conf, extra, avail, rec, mess, src, pc, keys, done, got>>
  BY CommitSends
<1>2. PICK b \in Seq(Byte) :
        /\ wire' = wire \o b /\ Stream(b, sent, sent + size)
        /\ \A j \in 1..Len(b) : /\ RecordOK(messages', conf.peer, b[j].r)
                                /\ b[j].r.type = "handshake" /\ b[j].r.first < sent + size
  BY CommitSends
<1>3. /\ InRow(messages) /\ InRow(messages') /\ emitted \in Seq(Items) /\ done \in Nat
  BY <1>1, ComposeFacts DEF RecordsInv, RowInv, TypeInv
<1>4. AsItem("handshake", Len(messages) + 1) \in Items
  BY <1>1 DEF AsItem, Items
<1>5. /\ emitted' \in Seq(Items) /\ Len(emitted') = Len(emitted) + 1 /\ Len(emitted) \in Nat
      /\ \A i \in 1..Len(emitted) : emitted'[i] = emitted[i]
      /\ emitted'[Len(emitted) + 1] = AsItem("handshake", Len(messages) + 1)
  BY <1>1, <1>3, <1>4, AppendProperties, LenProperties
<1>6. Extends(emitted', emitted)
  BY <1>5 DEF Extends
<1>7. EndedOf(messages, sent) = Len(messages)
  <2>1. /\ Len(messages) \in 0..Len(messages) /\ BaseOf(messages, Len(messages)) <= sent
        /\ ~(Len(messages) < Len(messages))
    BY <1>1 DEF TotalOf
  <2>. QED  BY <1>1, <1>3, <2>1, EndedIs, SMTT(30)
<1>8. EndedOf(messages', sent') = Len(messages) + 1
  <2>1. /\ Len(messages') \in 0..Len(messages') /\ BaseOf(messages', Len(messages')) <= sent'
        /\ ~(Len(messages') < Len(messages')) /\ sent' \in Nat
    BY <1>1 DEF TotalOf
  <2>. QED  BY <1>1, <1>3, <2>1, EndedIs
<1>9. \A m \in (EndedOf(messages, sent) + 1)..EndedOf(messages', sent') : m = Len(messages) + 1
  BY <1>1, <1>7, <1>8
<1>10. PICK c : ItemsAt(messages, Queue, c, done, emitted, sent) /\ c[0] = Len(got) - done
  BY <1>1 DEF ItemsInv
<1>11. Placed(Queue, sent)
  BY <1>1, QueuePlaced
<1>12. \A j \in 1..Len(b) : b[j].i <= j /\ b[j].r.type = "handshake" /\ sent <= b[j].r.first
  BY <1>2 DEF Stream, WholeAt, OrderedAt
<1>13. Queue' = Queue \o b
  <2>1. Queue = rec \o wire /\ Queue' = rec \o (wire \o b)
    BY <1>1, <1>2 DEF Queue
  <2>2. rec \in Seq(Byte) /\ wire \in Seq(Byte) /\ b \in Seq(Byte)
    BY DEF RecordsInv, TypeInv
  <2>3. (rec \o wire) \o b = rec \o (wire \o b)
    BY ONLY <2>2, ConcatAssociative, SMTT(30)
  <2>. QED  BY <2>1, <2>3
<1>14. /\ Len(emitted') = Len(emitted) + (EndedOf(messages', sent') - EndedOf(messages, sent))
       /\ \A m \in (EndedOf(messages, sent) + 1)..EndedOf(messages', sent') :
            emitted'[Len(emitted) + (m - EndedOf(messages, sent))] = AsItem("handshake", m)
  <2>1. (Len(messages) + 1) - Len(messages) = 1
    BY <1>1
  <2>. QED  BY <1>5, <1>7, <1>8, <1>9, <2>1
<1>15. \A j \in 1..Len(b) : \A m \in (EndedOf(messages, sent) + 1)..EndedOf(messages', sent') :
         b[j].r.first < EndIn(messages', m)
  BY <1>1, <1>2, <1>9
<1>16. sent <= TotalOf(messages) /\ sent <= sent' /\ sent' \in Nat
       /\ (messages' = messages \/ \E s \in Sizes : messages' = Added(messages, s))
  BY <1>1
<1>17. PICK g : ItemsAt(messages', Queue \o b, g, done, emitted', sent') /\ g[0] = c[0]
  <2>1. MayEmit(messages, messages', Queue, b, c, done, sent, sent', emitted, emitted')
    BY ONLY <1>2, <1>3, <1>5, <1>10, <1>11, <1>12, <1>14, <1>15, <1>16 DEF MayEmit
  <2>. QED  BY ONLY <2>1, EmitMessages
<1>18. ItemsInv'
  BY <1>1, <1>10, <1>13, <1>17 DEF ItemsInv
<1>. QED  BY <1>1, <1>6, <1>18

(* A message that was only composed is not an item yet.                     *)
LEMMA ComposeItems ==
  ASSUME RecordsInv, ItemsInv, NEW size \in Sizes, ComposeMessage(size)
  PROVE  UNCHANGED <<emitted, got, pc>> /\ ItemsInv'
<1>1. /\ TypeInv /\ RowInv /\ pc = "idle" /\ InRow(messages) /\ messages \in Messages
      /\ emitted \in Seq(Items) /\ done \in Nat /\ sent \in Nat /\ sent <= TotalOf(messages)
  BY DEF RecordsInv, ComposeMessage, RowInv, InRow, TypeInv
<1>2. /\ messages' = Added(messages, size)
      /\ UNCHANGED <<conf, sent, extra, emitted, wire, avail, rec, mess, src, pc, keys, done, got>>
  BY <1>1, AsValues DEF ComposeMessage, Compose, Added, receiving
<1>3. InRow(messages')
  BY <1>1, <1>2, ComposeFacts
<1>4. EndedOf(messages', sent) = EndedOf(messages, sent)
  <2>1. sent < TotalOf(messages) + size
    BY <1>1, SizesFacts, RowFacts
  <2>. QED  BY <1>1, <1>2, <2>1, EpochStays
<1>5. EndedOf(messages, sent) \in Nat /\ Len(emitted) \in Nat
  BY <1>1, EndedMono, LenProperties
<1>. DEFINE b == << >>
<1>6. b \in Seq(Byte) /\ Len(b) = 0
  BY EmptySeq
<1>7. PICK c : ItemsAt(messages, Queue, c, done, emitted, sent) /\ c[0] = Len(got) - done
  BY <1>1 DEF ItemsInv
<1>8. Placed(Queue, sent) /\ Queue \in Seq(Byte)
  BY <1>1, QueuePlaced DEF Placed
<1>9. Queue' = Queue /\ Queue \o b = Queue
  BY <1>2, <1>8, ConcatEmptySeq DEF Queue
<1>. HIDE DEF b
<1>10. /\ Len(emitted) = Len(emitted) + (EndedOf(messages', sent) - EndedOf(messages, sent))
       /\ \A m \in (EndedOf(messages, sent) + 1)..EndedOf(messages', sent) : FALSE
       /\ \A j \in 1..Len(b) : FALSE
  BY <1>4, <1>5, <1>6
<1>11. sent <= sent /\ \E s \in Sizes : messages' = Added(messages, s)
  BY <1>1, <1>2
<1>12. PICK g : ItemsAt(messages', Queue \o b, g, done, emitted, sent) /\ g[0] = c[0]
  <2>1. MayEmit(messages, messages', Queue, b, c, done, sent, sent, emitted, emitted)
    BY ONLY <1>1, <1>3, <1>6, <1>7, <1>8, <1>10, <1>11 DEF MayEmit
  <2>. QED  BY ONLY <2>1, EmitMessages
<1>. QED  BY <1>2, <1>7, <1>9, <1>12 DEF ItemsInv

(* SendFragment emits the messages whose last byte it sends.                *)
LEMMA FragmentItems ==
  ASSUME RecordsInv, ItemsInv, NEW len \in 0..MAX_PLAINTEXT, SendFragment(len)
  PROVE  Extends(emitted', emitted) /\ UNCHANGED <<got, pc>> /\ pc = "idle" /\ ItemsInv'
<1>. DEFINE x == EndedOf(messages, sent)
            y == EndedOf(messages, sent + len)
            more == [k \in 1..(y - x) |-> AsItem("handshake", x + k)]
<1>1. /\ TypeInv /\ pc = "idle" /\ InRow(messages) /\ sent \in Nat /\ len \in Nat
      /\ sent <= TotalOf(messages) /\ len <= TotalOf(messages) - sent
      /\ sent' = sent + len /\ emitted' = emitted \o more
      /\ UNCHANGED <<conf, messages, avail, rec, mess, src, pc, keys, done, got>>
  BY FragmentIs
<1>2. PICK r \in RecordType :
        /\ wire' = wire \o Bytes(r) /\ r.type = "handshake" /\ r.first = sent /\ r.len = len
  BY FragmentIs
<1>3. sent' \in Nat /\ sent <= sent' /\ sent + len \in Nat /\ sent <= sent + len
  BY <1>1
<1>4. x \in Nat /\ y \in Nat /\ x <= y
  BY <1>1, <1>3, EndedMono
<1>5. emitted \in Seq(Items) /\ done \in Nat /\ rec \in Seq(Byte) /\ wire \in Seq(Byte)
  BY <1>1 DEF TypeInv
<1>. HIDE DEF x, y
<1>6. y - x \in Nat /\ x + (y - x) = y
  BY <1>4
<1>7. more \in Seq(Items) /\ Len(more) = y - x
      /\ \A k \in 1..(y - x) : more[k] = AsItem("handshake", x + k)
  <2>1. \A k \in 1..(y - x) : AsItem("handshake", x + k) \in Items
    BY <1>4 DEF AsItem, Items
  <2>2. more \in Seq(Items) /\ Len(more) = y - x
    BY <1>6, <2>1, FunctionSeq
  <2>. QED  BY <2>2
<1>. HIDE DEF more
<1>8. /\ emitted' \in Seq(Items) /\ Len(emitted') = Len(emitted) + (y - x) /\ Len(emitted) \in Nat
      /\ \A i \in 1..Len(emitted) : emitted'[i] = emitted[i]
      /\ \A k \in 1..(y - x) : emitted'[Len(emitted) + k] = AsItem("handshake", x + k)
  <2>1. /\ emitted \o more \in Seq(Items) /\ Len(emitted \o more) = Len(emitted) + Len(more)
        /\ \A i \in 1..Len(emitted) : (emitted \o more)[i] = emitted[i]
        /\ \A i \in 1..Len(more) : (emitted \o more)[Len(emitted) + i] = more[i]
    <3>1. emitted \in Seq(Items) /\ more \in Seq(Items)
      BY <1>5, <1>7
    <3>. QED  BY ONLY <3>1, ConcatFacts
  <2>. QED  BY <1>1, <1>5, <1>7, <2>1, LenProperties
<1>9. Extends(emitted', emitted)
  <2>1. Len(emitted) <= Len(emitted')
    BY <1>6, <1>8
  <2>. QED  BY <1>8, <2>1 DEF Extends
<1>10. \A m \in (x + 1)..y : emitted'[Len(emitted) + (m - x)] = AsItem("handshake", m)
  <2>1. ASSUME NEW m \in (x + 1)..y
        PROVE  emitted'[Len(emitted) + (m - x)] = AsItem("handshake", m)
    <3>1. m - x \in 1..(y - x) /\ x + (m - x) = m
      BY <1>4
    <3>. QED  BY <1>8, <3>1
  <2>. QED  BY <2>1
<1>11. \A m \in (x + 1)..y : sent < EndIn(messages, m)
  <2>1. ASSUME NEW m \in (x + 1)..y  PROVE sent < EndIn(messages, m)
    <3>1. y <= Len(messages) /\ Len(messages) \in Nat
      BY <1>1, <1>3, EndedMono DEF y
    <3>2. m \in 1..Len(messages) /\ ~(m <= x)
      BY <1>4, <3>1
    <3>3. EndIn(messages, m) <= sent <=> m <= x
      BY <1>1, <3>2, EndedSet DEF x
    <3>4. EndIn(messages, m) \in Nat
      BY <1>1, <3>2, RowFacts
    <3>. QED  BY <1>1, <3>2, <3>3, <3>4
  <2>. QED  BY <2>1
<1>12. PICK c : ItemsAt(messages, Queue, c, done, emitted, sent) /\ c[0] = Len(got) - done
  BY <1>1 DEF ItemsInv
<1>13. Placed(Queue, sent)
  BY <1>1, QueuePlaced
<1>14. PICK b : /\ b \in Seq(Byte) /\ Queue' = Queue \o b
                /\ \A j \in 1..Len(b) : b[j].r = r /\ b[j].i = j
  <2>1. CASE conf.api = "record"
    <3>1. Bytes(r) \in Seq(Byte) /\ \A j \in 1..Len(Bytes(r)) : Bytes(r)[j] = [r |-> r, i |-> j]
      <4>1. Bytes(r) = [i \in 1..Size(r) |-> [r |-> r, i |-> i]]
        BY <2>1 DEF Bytes, Extent, Size
      <4>2. /\ Stream(Bytes(r), r.first, EndOf(r)) /\ Len(Bytes(r)) = Size(r)
            /\ \A j \in 1..Size(r) : Bytes(r)[j] = [r |-> r, i |-> j]
        BY <4>1, OneRecord
      <4>. QED  BY <4>2 DEF Stream
    <3>2. Queue = rec \o wire /\ Queue' = rec \o (wire \o Bytes(r))
      BY <1>1, <1>2, <2>1 DEF Queue
    <3>3. (rec \o wire) \o Bytes(r) = rec \o (wire \o Bytes(r))
      BY ONLY <1>5, <3>1, ConcatAssociative, SMTT(30)
    <3>4. Queue' = Queue \o Bytes(r)
      BY <3>2, <3>3
    <3>5. ASSUME NEW j \in 1..Len(Bytes(r))  PROVE Bytes(r)[j].r = r /\ Bytes(r)[j].i = j
      <4>1. Bytes(r)[j] = [r |-> r, i |-> j]
        BY <3>1
      <4>. QED  BY <4>1
    <3>6. /\ Bytes(r) \in Seq(Byte) /\ Queue' = Queue \o Bytes(r)
          /\ \A j \in 1..Len(Bytes(r)) : Bytes(r)[j].r = r /\ Bytes(r)[j].i = j
      BY <3>1, <3>4, <3>5
    <3>. QED  BY ONLY <3>6
  <2>2. CASE conf.api # "record"
    <3>1. Queue = <<>> /\ Queue' = <<>>
      BY <1>1, <2>2 DEF Queue
    <3>2. <<>> \in Seq(Byte) /\ Len(<<>>) = 0 /\ <<>> \o <<>> = <<>>
      BY EmptySeq, ConcatEmptySeq
    <3>. DEFINE none == <<>>
    <3>3. /\ none \in Seq(Byte) /\ Queue' = Queue \o none
          /\ \A j \in 1..Len(none) : none[j].r = r /\ none[j].i = j
      BY <3>1, <3>2
    <3>. HIDE DEF none
    <3>. QED  BY ONLY <3>3
  <2>. QED  BY <2>1, <2>2
<1>15. \A j \in 1..Len(b) : b[j].i <= j /\ b[j].r.type = "handshake" /\ sent <= b[j].r.first
  <2>1. Len(b) \in Nat
    BY <1>14, LenProperties
  <2>. QED  BY <1>1, <1>2, <1>14, <2>1
<1>16. \A j \in 1..Len(b) : \A m \in (x + 1)..y : b[j].r.first < EndIn(messages, m)
  BY <1>2, <1>11, <1>14
<1>17. PICK g : ItemsAt(messages, Queue \o b, g, done, emitted', sent') /\ g[0] = c[0]
  <2>1. x = EndedOf(messages, sent) /\ y = EndedOf(messages, sent')
    BY <1>1 DEF x, y
  <2>2. MayEmit(messages, messages, Queue, b, c, done, sent, sent', emitted, emitted')
    BY ONLY <1>1, <1>3, <1>5, <1>8, <1>10, <1>12, <1>13, <1>14, <1>15, <1>16, <2>1 DEF MayEmit
  <2>. QED  BY ONLY <2>2, EmitMessages
<1>18. ItemsInv'
  BY <1>1, <1>12, <1>14, <1>17 DEF ItemsInv
<1>. QED  BY <1>1, <1>9, <1>18

(* SendOther emits a record of data or an alert.                            *)
LEMMA OtherItems ==
  ASSUME RecordsInv, ItemsInv, NEW e \in Extras, SendOther(e.type, e.len, e.sealed)
  PROVE  Extends(emitted', emitted) /\ UNCHANGED <<got, pc>> /\ pc = "idle" /\ ItemsInv'
<1>1. /\ conf.api = "record" /\ pc = "idle"
      /\ UNCHANGED <<conf, messages, sent, avail, rec, mess, src, pc, keys, done, got>>
  BY OtherIs
<1>2. PICK r \in RecordType : \E b \in Seq(Byte) :
        /\ r.type # "handshake" /\ r.first = sent
        /\ IF r.type \in {"appdata", "alert"}
           THEN emitted' = Append(emitted, AsItem(r.type, 0)) ELSE emitted' = emitted
        /\ wire' = wire \o b /\ Len(b) = Size(r)
        /\ \A j \in 1..Size(r) : b[j] = [r |-> r, i |-> j]
  BY OtherIs
<1>3. PICK b \in Seq(Byte) :
        /\ r.type # "handshake" /\ r.first = sent
        /\ IF r.type \in {"appdata", "alert"}
           THEN emitted' = Append(emitted, AsItem(r.type, 0)) ELSE emitted' = emitted
        /\ wire' = wire \o b /\ Len(b) = Size(r)
        /\ \A j \in 1..Size(r) : b[j] = [r |-> r, i |-> j]
  BY <1>2
<1>4. /\ emitted \in Seq(Items) /\ done \in Nat /\ rec \in Seq(Byte) /\ wire \in Seq(Byte)
      /\ InRow(messages)
  BY DEF RecordsInv, TypeInv, RowInv
<1>5. IF r.type \in Data THEN emitted' = Append(emitted, AsItem(r.type, 0)) ELSE emitted' = emitted
  BY <1>3 DEF Data
<1>6. Extends(emitted', emitted)
  <2>1. CASE r.type \in Data
    <3>1. AsItem(r.type, 0) \in Items
      BY <2>1 DEF Data, AsItem, Items
    <3>2. /\ emitted' \in Seq(Items) /\ Len(emitted') = Len(emitted) + 1 /\ Len(emitted) \in Nat
          /\ \A i \in 1..Len(emitted) : emitted'[i] = emitted[i]
      <4>. DEFINE item == AsItem(r.type, 0)
      <4>1. emitted' = Append(emitted, item) /\ item \in Items /\ emitted \in Seq(Items)
        BY <1>4, <1>5, <2>1, <3>1
      <4>. HIDE DEF item
      <4>. QED  BY ONLY <4>1, AppendProperties, LenProperties
    <3>. QED  BY <3>2 DEF Extends
  <2>2. CASE r.type \notin Data
    BY <1>4, <1>5, <2>2, LenProperties DEF Extends
  <2>. QED  BY <2>1, <2>2
<1>7. PICK c : ItemsAt(messages, Queue, c, done, emitted, sent) /\ c[0] = Len(got) - done
  BY <1>1 DEF ItemsInv
<1>8. Placed(Queue, sent)
  BY <1>1, QueuePlaced
<1>9. Queue' = Queue \o b
  <2>1. Queue = rec \o wire /\ Queue' = rec \o (wire \o b)
    BY <1>1, <1>3 DEF Queue
  <2>2. b \in Seq(Byte)
    OBVIOUS
  <2>3. (rec \o wire) \o b = rec \o (wire \o b)
    BY ONLY <1>4, <2>2, ConcatAssociative
  <2>. QED  BY <2>1, <2>3
<1>10. PICK g : ItemsAt(messages, Queue \o b, g, done, emitted', sent) /\ g[0] = c[0]
  <2>1. r \in RecordType /\ b \in Seq(Byte)
    OBVIOUS
  <2>2. MayAdd(messages, Queue, b, c, done, sent, emitted, emitted', r)
    BY ONLY <1>3, <1>4, <1>5, <1>7, <1>8, <2>1 DEF MayAdd
  <2>. QED  BY ONLY <2>2, EmitOther
<1>11. ItemsInv'
  BY <1>1, <1>7, <1>9, <1>10 DEF ItemsInv
<1>. QED  BY <1>1, <1>6, <1>11

(* The actions that end the connection without an item.                     *)
Fails ==
    \/ \E n \in 1..Len(wire) : ptls_handle_message_fails(n)
    \/ handle_message_fails \/ message_overflow \/ handle_input_fails

(* They do nothing else to the channel.                                     *)
LEMMA FailsStop ==
  ASSUME Fails  PROVE pc # "failed" /\ pc' = "failed" /\ UNCHANGED <<emitted, got>>
<1>1. CASE \E n \in 1..Len(wire) : ptls_handle_message_fails(n)
  BY <1>1 DEF ptls_handle_message_fails, Failed, sending
<1>2. CASE handle_message_fails
  BY <1>2 DEF handle_message_fails, sending
<1>3. CASE message_overflow
  BY <1>3 DEF message_overflow, Failed, sending
<1>4. CASE handle_input_fails
  BY <1>4 DEF handle_input_fails, HasHeader, Failed, sending
<1>. QED  BY <1>1, <1>2, <1>3, <1>4 DEF Fails

(* The actions that leave the items as they are.                            *)
Quiet ==
    \/ \E n \in 1..Len(wire) : Call(n) \/ ptls_handle_message(n)
    \/ Return \/ parse_record_incomplete \/ keep_partial_message \/ UNCHANGED vars

(* The steps, grouped by what they do to the channel.                       *)
LEMMA Steps ==
  ASSUME [Next]_vars
  PROVE  \/ \E size \in Sizes : commit_record_message(size)
         \/ \E size \in Sizes : ComposeMessage(size)
         \/ \E len \in 0..MAX_PLAINTEXT : SendFragment(len)
         \/ \E e \in Extras : SendOther(e.type, e.len, e.sealed)
         \/ Quiet \/ Fails
         \/ change_cipher_spec \/ handle_handshake_record \/ receive_data
         \/ handle_message \/ handle_alert
  BY DEF Next, Send, Receive, Quiet, Fails

(* Every step keeps the items in their places.                              *)
LEMMA ItemsStep ==
  ASSUME RecordsInv, ItemsInv, [Next]_vars  PROVE ItemsInv'
<1>1. CASE Fails \/ handle_alert
  <2>1. pc' = "failed"
    BY <1>1, FailsStop DEF handle_alert
  <2>. QED  BY <2>1 DEF ItemsInv
<1>2. CASE Quiet
  BY <1>2, QuietItems DEF Quiet
<1>3. CASE change_cipher_spec \/ receive_data \/ handle_handshake_record
  BY <1>3, RecordItems
<1>4. CASE handle_message
  BY <1>4, MessageItems
<1>. QED  BY <1>1, <1>2, <1>3, <1>4, Steps, CommitItems, ComposeItems, FragmentItems, OtherItems

(* In every reachable state of a live connection each message and each      *)
(* record of data on its way is the item its place on the wire says it is.  *)
THEOREM ItemsInvariant == Spec => []ItemsInv
<1>1. RecordsInv /\ ItemsInv /\ [Next]_vars => ItemsInv'
  BY ItemsStep
<1>. QED  BY <1>1, InitItems, RecordsInvariant, PTL DEF Spec, Safety

-----------------------------------------------------------------------------
(* Refinement of SecureChannel.                                             *)
LEMMA EmitRefines ==
  ASSUME Extends(emitted', emitted), UNCHANGED <<got, pc>>
  PROVE  Channel!Next
<1>. DEFINE s0 == [s \in {"peer", "us"} |-> IF s = "peer" THEN emitted ELSE <<>>]
            s1 == [s \in {"peer", "us"} |-> IF s = "peer" THEN emitted' ELSE <<>>]
<1>1. s0["peer"] = emitted /\ s1["peer"] = emitted' /\ s1 = [s0 EXCEPT !["peer"] = s1["peer"]]
  OBVIOUS
<1>2. /\ emitted' \in Seq([type : {"handshake", "appdata", "alert"}, m : Nat])
      /\ Len(emitted) <= Len(emitted')
      /\ \A i \in 1..Len(emitted) : emitted'[i] = emitted[i]
  BY DEF Extends, Items
<1>3. Channel!Emit("peer")
  BY <1>1, <1>2 DEF Channel!Emit
<1>. QED  BY <1>3 DEF Channel!Next

(* A connection ends with the alert it has acted upon, so that none has     *)
(* been acted upon while it is live.                                        *)
AlertLast == pc # "failed" => Outcome(got) = "failed"

(* What Outcome makes of a sequence with one more item.                       *)
LEMMA EndAppended ==
  ASSUME NEW T, NEW q \in Seq(T), NEW item
  PROVE  Outcome(Append(q, item)) = IF item.type = "alert" THEN "closed" ELSE "failed"
<1>1. Len(Append(q, item)) = Len(q) + 1 /\ Append(q, item)[Len(q) + 1] = item /\ Append(q, item) # <<>>
  OBVIOUS
<1>. QED  BY ONLY <1>1 DEF Outcome

(* A connection that fails ends its direction of the channel.               *)
LEMMA FailRefines ==
  ASSUME AlertLast, pc # "failed", pc' = "failed", UNCHANGED <<emitted, got>>
  PROVE  Channel!Next
<1>. DEFINE d0 == [s \in {"peer", "us"} |-> IF s = "us" /\ pc = "failed" THEN Outcome(got) ELSE "open"]
            d1 == [s \in {"peer", "us"} |-> IF s = "us" /\ pc' = "failed" THEN Outcome(got') ELSE "open"]
<1>1. Outcome(got) = "failed" /\ got' = got
  BY DEF AlertLast
<1>2. d0["us"] = "open" /\ d1 = [d0 EXCEPT !["us"] = "failed"]
  BY <1>1
<1>3. Channel!Fail("us")
  BY <1>2 DEF Channel!Fail
<1>. QED  BY <1>3 DEF Channel!Next

(* Acting upon the next item delivers it; an alert ends the channel.        *)
LEMMA DeliverRefines ==
  ASSUME RecordsInv, NEW item, ItemAt(emitted, Len(got) + 1, item), emitted' = emitted,
         got' = Append(got, item), pc # "failed",
         pc' = "failed" <=> item.type = "alert"
  PROVE  Channel!Next
<1>. DEFINE s0 == [s \in {"peer", "us"} |-> IF s = "peer" THEN emitted ELSE <<>>]
            g0 == [s \in {"peer", "us"} |-> IF s = "us" THEN got ELSE <<>>]
            g1 == [s \in {"peer", "us"} |-> IF s = "us" THEN got' ELSE <<>>]
            d0 == [s \in {"peer", "us"} |-> IF s = "us" /\ pc = "failed" THEN Outcome(got) ELSE "open"]
            d1 == [s \in {"peer", "us"} |-> IF s = "us" /\ pc' = "failed" THEN Outcome(got') ELSE "open"]
<1>1. s0["peer"] = emitted /\ g0["us"] = got /\ d0["us"] = "open"
  OBVIOUS
<1>2. g1 = [g0 EXCEPT !["us"] = Append(got, item)]
  OBVIOUS
<1>3. d1 = [d0 EXCEPT !["us"] = IF item.type = "alert" THEN "closed" ELSE "open"]
  <2>1. Outcome(got') = IF item.type = "alert" THEN "closed" ELSE "failed"
    BY EndAppended DEF RecordsInv, TypeInv
  <2>. QED  BY <2>1
<1>4. Len(got) < Len(emitted) /\ item = emitted[Len(got) + 1]
  <2>1. Len(got) \in Nat /\ Len(emitted) \in Nat
    BY LenProperties DEF RecordsInv, TypeInv
  <2>. QED  BY <2>1 DEF ItemAt
<1>5. Channel!Deliver("us")
  BY <1>1, <1>2, <1>3, <1>4 DEF Channel!Deliver, Channel!EndAfter
<1>. QED  BY <1>5 DEF Channel!Next

(* Initial states of the record layer are initial states of the channel.    *)
LEMMA InitRefines == Init => Channel!Init /\ AlertLast
<1>. SUFFICES ASSUME Init  PROVE Channel!Init /\ AlertLast
  OBVIOUS
<1>1. emitted = <<>> /\ got = <<>> /\ pc = "idle"
  BY DEF Init
<1>2. <<>> \in Seq([type : {"handshake", "appdata", "alert"}, m : Nat])
  BY EmptySeq
<1>3. [s \in {"peer", "us"} |-> IF s = "peer" THEN emitted ELSE <<>>]
      \in [{"peer", "us"} -> Seq([type : {"handshake", "appdata", "alert"}, m : Nat])]
  BY <1>1, <1>2
<1>4. [s \in {"peer", "us"} |-> IF s = "us" THEN got ELSE <<>>] = [s \in {"peer", "us"} |-> <<>>]
  BY <1>1
<1>5. [s \in {"peer", "us"} |-> IF s = "us" /\ pc = "failed" THEN Outcome(got) ELSE "open"]
      = [s \in {"peer", "us"} |-> "open"]
  BY <1>1
<1>6. AlertLast
  BY <1>1 DEF AlertLast, Outcome
<1>. QED  BY <1>3, <1>4, <1>5, <1>6 DEF Channel!Init

(* Every step emits, delivers the next item or ends the channel, or leaves  *)
(* it as it is.                                                             *)
LEMMA StepRefines ==
  ASSUME RecordsInv, ItemsInv, AlertLast, [Next]_vars
  PROVE  [Channel!Next]_(Channel!vars) /\ AlertLast'
<1>1. ASSUME UNCHANGED <<emitted, got>>, pc' = "failed" <=> pc = "failed"
      PROVE  UNCHANGED Channel!vars /\ AlertLast'
  BY <1>1 DEF Channel!vars, AlertLast
<1>1a. ASSUME UNCHANGED <<got, pc>>  PROVE AlertLast'
  BY <1>1a DEF AlertLast
<1>1b. ASSUME pc' = "failed"  PROVE AlertLast'
  BY <1>1b DEF AlertLast
<1>1c. ASSUME NEW item, got' = Append(got, item), item.type # "alert"  PROVE AlertLast'
  <2>1. Outcome(got') = "failed"
    BY <1>1c, EndAppended DEF RecordsInv, TypeInv
  <2>. QED  BY <2>1 DEF AlertLast
<1>2. CASE Quiet
  BY <1>1, <1>2, QuietItems DEF Quiet
<1>3. CASE Fails
  BY <1>1b, <1>3, FailsStop, FailRefines
<1>4. CASE \E size \in Sizes : commit_record_message(size)
  BY <1>1a, <1>4, CommitItems, EmitRefines
<1>5. CASE \E size \in Sizes : ComposeMessage(size)
  BY <1>1, <1>5, ComposeItems
<1>6. CASE \E len \in 0..MAX_PLAINTEXT : SendFragment(len)
  BY <1>1a, <1>6, FragmentItems, EmitRefines
<1>7. CASE \E e \in Extras : SendOther(e.type, e.len, e.sealed)
  BY <1>1a, <1>7, OtherItems, EmitRefines
<1>8. CASE change_cipher_spec \/ handle_handshake_record
  <2>1. UNCHANGED <<emitted, got>> /\ pc # "failed" /\ pc' # "failed"
    BY <1>8 DEF change_cipher_spec, handle_handshake_record, NextRecord, Whole, HasHeader, sending
  <2>. QED  BY <1>1, <2>1
<1>9. CASE handle_message
  <2>1. /\ ItemAt(emitted, Len(got) + 1, AsItem("handshake", done + 1))
        /\ Message = done + 1
    BY <1>9, NextMessage
  <2>2. /\ emitted' = emitted /\ got' = Append(got, AsItem("handshake", done + 1))
        /\ pc # "failed" /\ pc' # "failed"
    BY <1>9, <2>1 DEF handle_message, sending
  <2>3. AsItem("handshake", done + 1).type # "alert"
    BY DEF AsItem
  <2>. QED  BY <1>1c, <2>1, <2>2, <2>3, DeliverRefines
<1>10. CASE receive_data
  <2>1. /\ emitted' = emitted /\ got' = Append(got, AsItem("appdata", 0))
        /\ pc = "input" /\ avail > 0 /\ Current.type = "appdata" /\ pc' = pc
    BY <1>10 DEF receive_data, Whole, HasHeader, IsData, sending
  <2>2. ItemAt(emitted, Len(got) + 1, AsItem("appdata", 0))
    BY <2>1, NextData DEF Data
  <2>3. AsItem("appdata", 0).type # "alert"
    BY DEF AsItem
  <2>. QED  BY <1>1c, <2>1, <2>2, <2>3, DeliverRefines
<1>11. CASE handle_alert
  <2>1. /\ emitted' = emitted /\ got' = Append(got, AsItem("alert", 0))
        /\ pc = "input" /\ avail > 0 /\ Current.type = "alert" /\ pc' = "failed"
    BY <1>11 DEF handle_alert, NextRecord, Whole, HasHeader, IsAlert, sending
  <2>2. ItemAt(emitted, Len(got) + 1, AsItem("alert", 0)) /\ AsItem("alert", 0).type = "alert"
    BY <2>1, NextData DEF Data, AsItem
  <2>. QED  BY <1>1b, <2>1, <2>2, DeliverRefines
<1>. QED
  BY <1>2, <1>3, <1>4, <1>5, <1>6, <1>7, <1>8, <1>9, <1>10, <1>11, Steps

(* However the transport and the peer cut the bytes up, the messages, data  *)
(* and alerts that handle_input and ptls_handle_message act upon are the    *)
(* ones the peer emitted, in its order, with nothing skipped or repeated:   *)
(* the receiving half implements SecureChannel.                             *)
THEOREM ReceivedInOrder == Spec => InOrder
<1>1. RecordsInv /\ ItemsInv /\ AlertLast /\ [Next]_vars => [Channel!Next]_(Channel!vars) /\ AlertLast'
  BY StepRefines
<1>. QED
  BY <1>1, InitRefines, RecordsInvariant, ItemsInvariant, PTL DEF Spec, Safety, InOrder, Channel!Spec
=============================================================================
