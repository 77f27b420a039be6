--------------------------- MODULE OffloadProofs ---------------------------
(***************************************************************************)
(* For every length of the messages and of what recv returns: the types of *)
(* Offload, that the parser is given bytes in the order they were sent,    *)
(* and that it is given the messages whole when none is shorter than a     *)
(* piece of the stream.                                                    *)
(***************************************************************************)
EXTENDS Offload, Integers, SequenceTheorems, WellFoundedInduction, TLAPS

\* A set of naturals that is not empty has a least element.
LEMMA LeastOf ==
  ASSUME NEW T, T \subseteq Nat, T # {}
  PROVE  \E x \in T : \A y \in T : x <= y
<1>1. PICK x \in T : \A y \in T : ~ (<<y, x>> \in OpToRel(<, Nat))
  BY NatLessThanWellFounded, WFMin, Zenon
<1>2. \A y \in T : ~(y < x)
  BY <1>1, Zenon DEF OpToRel
<1> QED
  BY <1>2

\* A piece of a sequence: its length and its elements.
LEMMA Piece ==
  ASSUME NEW S, NEW s \in Seq(S), NEW m \in 1 .. Len(s) + 1, NEW n \in m - 1 .. Len(s)
  PROVE  /\ SubSeq(s, m, n) \in Seq(S)
         /\ Len(SubSeq(s, m, n)) = (n - m) + 1
         /\ \A i \in 1 .. (n - m) + 1 : SubSeq(s, m, n)[i] = s[(m + i) - 1]
<1>1. m \in Int /\ n \in Int /\ m <= n + 1
  OBVIOUS
<1>2. \A i \in m .. n : s[i] \in S
  OBVIOUS
<1> QED
  BY <1>1, <1>2, SubSeqProperties

\* A piece of the beginning of a sequence is a piece of the sequence.
LEMMA PieceOfPiece ==
  ASSUME NEW S, NEW s \in Seq(S), NEW n \in 0 .. Len(s),
         NEW i \in 1 .. n + 1, NEW j \in i - 1 .. n
  PROVE  SubSeq(SubSeq(s, 1, n), i, j) = SubSeq(s, i, j)
<1> DEFINE c == SubSeq(s, 1, n)
<1>1. /\ c \in Seq(S) /\ Len(c) = n
      /\ \A k \in 1 .. n : c[k] = s[k]
  BY Piece
<1> HIDE DEF c
<1>2. /\ SubSeq(c, i, j) \in Seq(S) /\ Len(SubSeq(c, i, j)) = (j - i) + 1
      /\ \A k \in 1 .. (j - i) + 1 : SubSeq(c, i, j)[k] = c[(i + k) - 1]
  BY <1>1, Piece
<1>3. /\ SubSeq(s, i, j) \in Seq(S) /\ Len(SubSeq(s, i, j)) = (j - i) + 1
      /\ \A k \in 1 .. (j - i) + 1 : SubSeq(s, i, j)[k] = s[(i + k) - 1]
  BY Piece
<1>4. \A k \in 1 .. (j - i) + 1 : (i + k) - 1 \in 1 .. n
  OBVIOUS
<1>5. SubSeq(c, i, j) = SubSeq(s, i, j)
  BY <1>1, <1>2, <1>3, <1>4, SeqEqual
<1> QED
  BY <1>5 DEF c

\* Cut is the place of the first newline, or one past the end.
LEMMA CutIs ==
  ASSUME NEW S, NEW c \in Seq(S), NEW i \in 0 .. Len(c)
  PROVE  /\ Cut(c, i) \in i + 1 .. Len(c) + 1
         /\ Cut(c, i) <= Len(c) => Newline(c[Cut(c, i)])
         /\ \A k \in i + 1 .. Cut(c, i) - 1 : ~Newline(c[k])
<1> DEFINE places == {k \in i + 1 .. Len(c) : Newline(c[k])}
<1>1. CASE places = {}
  <2>1. Cut(c, i) = Len(c) + 1
    BY <1>1 DEF Cut
  <2> QED
    BY <1>1, <2>1
<1>2. CASE places # {}
  <2>1. Cut(c, i) = CHOOSE k \in places : \A l \in places : k <= l
    BY <1>2 DEF Cut
  <2>2. \E k \in places : \A l \in places : k <= l
    <3>1. places \subseteq Nat
      OBVIOUS
    <3> QED
      BY <1>2, <3>1, LeastOf, Zenon
  <2>3. Cut(c, i) \in places /\ \A l \in places : Cut(c, i) <= l
    BY <2>1, <2>2
  <2> QED
    BY <2>3
<1> QED
  BY <1>1, <1>2

\* What recv does: with no newline in the piece the buffer grows; else what is
\* before the newline at p ends a packet, and what follows up to q begins one.
Grows(n) ==
  /\ \A k \in 1 .. n : ~Newline(stream[k])
  /\ buffer' = buffer \o SubSeq(stream, 1, n)
  /\ UNCHANGED <<parsed, pc, listening>>

Splits(n, p, q) ==
  /\ p \in 1 .. n /\ Newline(stream[p])
  /\ \A k \in 1 .. p - 1 : ~Newline(stream[k])
  /\ q \in p + 1 .. n + 1 /\ (q <= n => Newline(stream[q]))
  /\ \A k \in p + 1 .. q - 1 : ~Newline(stream[k])
  /\ HandlePacket(buffer \o SubSeq(stream, 1, p - 1))
  /\ buffer' = SubSeq(stream, p + 1, q - 1)

LEMMA RecvIs ==
  ASSUME TypeOK, Recv
  PROVE  \E n \in 1 .. Len(stream) :
           /\ n <= ChunkMax
           /\ stream' = SubSeq(stream, n + 1, Len(stream))
           /\ Grows(n) \/ \E p, q \in Nat : Splits(n, p, q)
<1>1. PICK n \in 1 .. Len(stream) :
        /\ n <= ChunkMax
        /\ UpdateBuffer(SubSeq(stream, 1, n))
        /\ stream' = SubSeq(stream, n + 1, Len(stream))
  BY DEF Recv
<1> DEFINE S == (DOMAIN sizes) \X (0 .. LongLen - 1)
           c == SubSeq(stream, 1, n)
           p == Cut(c, 0)
           q == Cut(c, p)
<1>2. stream \in Seq(S) /\ Len(stream) \in Nat
  BY DEF TypeOK
<1>3. n \in 0 .. Len(stream) /\ n \in Nat
  BY <1>2
<1> HIDE DEF S
<1>4. c \in Seq(S) /\ Len(c) = n /\ \A k \in 1 .. n : c[k] = stream[k]
  BY <1>2, <1>3, Piece
<1> HIDE DEF c
<1>5. /\ p \in 1 .. n + 1
      /\ p <= n => Newline(c[p])
      /\ \A k \in 1 .. p - 1 : ~Newline(c[k])
  BY <1>3, <1>4, CutIs
<1> HIDE DEF p
<1>6. CASE p > n
  <2>1. \A k \in 1 .. n : ~Newline(stream[k])
    BY <1>3, <1>4, <1>5, <1>6
  <2>2. buffer' = buffer \o c /\ UNCHANGED <<parsed, pc, listening>>
    BY <1>1, <1>4, <1>6 DEF UpdateBuffer, c, p
  <2> QED
    BY <1>1, <2>1, <2>2 DEF Grows, c
<1>7. CASE ~(p > n)
  <2>0. p \in 1 .. n /\ p \in 0 .. Len(c)
    BY <1>3, <1>4, <1>5, <1>7
  <2>1. /\ q \in p + 1 .. n + 1
        /\ q <= n => Newline(c[q])
        /\ \A k \in p + 1 .. q - 1 : ~Newline(c[k])
    BY <1>4, <2>0, CutIs
  <2> HIDE DEF q
  <2>2. /\ HandlePacket(buffer \o SubSeq(c, 1, p - 1))
        /\ buffer' = SubSeq(c, p + 1, q - 1)
    BY <1>1, <1>4, <1>7 DEF UpdateBuffer, c, p, q
  <2>3. /\ SubSeq(c, 1, p - 1) = SubSeq(stream, 1, p - 1)
        /\ SubSeq(c, p + 1, q - 1) = SubSeq(stream, p + 1, q - 1)
    <3>1. 1 \in 1 .. n + 1 /\ p - 1 \in 1 - 1 .. n
      BY <1>3, <2>0
    <3>2. p + 1 \in 1 .. n + 1 /\ q - 1 \in (p + 1) - 1 .. n
      BY <1>3, <2>0, <2>1
    <3> QED
      BY <1>2, <1>3, <3>1, <3>2, PieceOfPiece DEF c
  <2>4. /\ Newline(stream[p])
        /\ \A k \in 1 .. p - 1 : ~Newline(stream[k])
        /\ q <= n => Newline(stream[q])
        /\ \A k \in p + 1 .. q - 1 : ~Newline(stream[k])
    <3>1. /\ \A k \in 1 .. p - 1 : k \in 1 .. n
          /\ \A k \in p + 1 .. q - 1 : k \in 1 .. n
          /\ q <= n => q \in 1 .. n
      BY <1>3, <2>0, <2>1
    <3> QED
      BY <1>4, <1>5, <2>0, <2>1, <3>1
  <2>5. Splits(n, p, q)
    BY <2>0, <2>1, <2>2, <2>3, <2>4 DEF Splits
  <2>6. p \in Nat /\ q \in Nat
    BY <1>3, <2>0, <2>1
  <2> QED
    BY <1>1, <2>5, <2>6
<1> QED
  BY <1>6, <1>7

-----------------------------------------------------------------------------
(* The types.                                                              *)

\* The bytes the board has sent, and those of them that are no newline.
Sent == (DOMAIN sizes) \X (0 .. LongLen - 1)
Text == (DOMAIN sizes) \X (1 .. LongLen - 1)

\* A byte of a message that is no newline.
LEMMA TextByte ==
  ASSUME NEW D, NEW b \in D \X (0 .. LongLen - 1), ~Newline(b)
  PROVE  b \in D \X (1 .. LongLen - 1)
<1>1. b = <<b[1], b[2]>> /\ b[1] \in D /\ b[2] \in 0 .. LongLen - 1
  OBVIOUS
<1>2. b[2] \in 1 .. LongLen - 1
  BY <1>1 DEF Newline
<1> QED
  BY <1>1, <1>2

LEMMA TextSeq ==
  ASSUME NEW D, NEW s \in Seq(D \X (0 .. LongLen - 1)),
         \A k \in 1 .. Len(s) : ~Newline(s[k])
  PROVE  s \in Seq(D \X (1 .. LongLen - 1))
<1> DEFINE S == D \X (0 .. LongLen - 1)
           T == D \X (1 .. LongLen - 1)
<1>1. \A b \in S : ~Newline(b) => b \in T
  BY TextByte
<1> HIDE DEF S, T
<1>2. s \in Seq(S) /\ Len(s) \in Nat
  BY DEF S
<1>3. \A k \in 1 .. Len(s) : s[k] \in T
  BY <1>1, <1>2
<1>4. s \in [1 .. Len(s) -> T]
  BY <1>2, <1>3, LenProperties
<1> QED
  BY <1>2, <1>4, SeqDef DEF T

\* The bytes of a message.
LEMMA BytesAre ==
  ASSUME NEW m \in Nat, NEW n \in {LongLen, ShortLen}
  PROVE  /\ Bytes(m, n) \in Seq({m} \X (0 .. LongLen - 1))
         /\ Len(Bytes(m, n)) = n /\ n \in 2 .. LongLen
         /\ \A k \in 1 .. n - 1 : Bytes(m, n)[k] = <<m, k>>
         /\ Bytes(m, n)[n] = <<m, 0>>
<1> DEFINE S == {m} \X (0 .. LongLen - 1)
           s == [k \in 1 .. n - 1 |-> <<m, k>>]
<1>1. n \in 2 .. LongLen /\ n \in Nat /\ n - 1 \in Nat
  BY OffloadAssumption
<1>2. \A k \in 1 .. n - 1 : <<m, k>> \in S
  BY <1>1
<1>3. <<m, 0>> \in S
  BY <1>1
<1> HIDE DEF S
<1>4. s \in [1 .. n - 1 -> S]
  BY <1>2
<1>5. s \in Seq(S) /\ Len(s) = n - 1 /\ \A k \in 1 .. n - 1 : s[k] = <<m, k>>
  BY <1>1, <1>4
<1> HIDE DEF s
<1>6. /\ Append(s, <<m, 0>>) \in Seq(S)
      /\ Len(Append(s, <<m, 0>>)) = Len(s) + 1
      /\ \A k \in 1 .. Len(s) : Append(s, <<m, 0>>)[k] = s[k]
      /\ Append(s, <<m, 0>>)[Len(s) + 1] = <<m, 0>>
  BY <1>3, <1>5, AppendProperties
<1>7. Bytes(m, n) = Append(s, <<m, 0>>)
  BY DEF Bytes, s
<1> QED
  BY <1>1, <1>5, <1>6, <1>7 DEF S

\* What one more message does to the stream.
LEMMA SendIs ==
  ASSUME TypeOK, BoardSends
  PROVE  \E n \in {LongLen, ShortLen} :
           /\ n \in 2 .. LongLen
           /\ sizes' \in Seq({LongLen, ShortLen}) /\ Len(sizes') = Len(sizes) + 1
           /\ DOMAIN sizes' = 1 .. Len(sizes) + 1 /\ DOMAIN sizes = 1 .. Len(sizes)
           /\ \A m \in 1 .. Len(sizes) : sizes'[m] = sizes[m]
           /\ sizes'[Len(sizes) + 1] = n
           /\ stream' \in Seq(Sent') /\ Len(stream') = Len(stream) + n
           /\ \A k \in 1 .. Len(stream) : stream'[k] = stream[k]
           /\ \A k \in 1 .. n - 1 : stream'[Len(stream) + k] = <<Len(sizes) + 1, k>>
           /\ stream'[Len(stream) + n] = <<Len(sizes) + 1, 0>>
<1>1. PICK n \in {LongLen, ShortLen} :
        /\ sizes' = Append(sizes, n)
        /\ stream' = stream \o Bytes(Len(sizes) + 1, n)
  BY DEF BoardSends
<1> DEFINE m == Len(sizes) + 1
           t == Bytes(m, n)
<1>2. /\ sizes \in Seq({LongLen, ShortLen}) /\ Len(sizes) \in Nat /\ m \in Nat
      /\ stream \in Seq((DOMAIN sizes) \X (0 .. LongLen - 1)) /\ Len(stream) \in Nat
  BY DEF TypeOK
<1>3. /\ sizes' \in Seq({LongLen, ShortLen}) /\ Len(sizes') = Len(sizes) + 1
      /\ \A k \in 1 .. Len(sizes) : sizes'[k] = sizes[k]
      /\ sizes'[Len(sizes) + 1] = n
  BY <1>1, <1>2, AppendProperties
<1>4. DOMAIN sizes' = 1 .. Len(sizes) + 1 /\ DOMAIN sizes = 1 .. Len(sizes)
  BY <1>2, <1>3
<1>5. /\ t \in Seq({m} \X (0 .. LongLen - 1)) /\ Len(t) = n /\ n \in 2 .. LongLen
      /\ \A k \in 1 .. n - 1 : t[k] = <<m, k>>
      /\ t[n] = <<m, 0>>
  BY <1>2, BytesAre
<1> HIDE DEF t
<1>6. t \in Seq(Sent') /\ stream \in Seq(Sent')
  <2>1. (DOMAIN sizes) \X (0 .. LongLen - 1) \subseteq Sent'
    BY <1>2, <1>4 DEF Sent
  <2>2. {m} \X (0 .. LongLen - 1) \subseteq Sent'
    BY <1>2, <1>4 DEF Sent
  <2> QED
    BY <1>2, <1>5, <2>1, <2>2, SeqMonotonic
<1>7. /\ stream' \in Seq(Sent') /\ Len(stream') = Len(stream) + n
      /\ \A k \in 1 .. Len(stream) + n :
            stream'[k] = IF k <= Len(stream) THEN stream[k] ELSE t[k - Len(stream)]
  <2>1. stream' = stream \o t
    BY <1>1 DEF t
  <2> QED
    BY <1>5, <1>6, <2>1, ConcatProperties
<1>8. ASSUME NEW k \in 1 .. n PROVE stream'[Len(stream) + k] = t[k]
  <2>1. /\ Len(stream) + k \in 1 .. Len(stream) + n
        /\ ~(Len(stream) + k <= Len(stream))
        /\ (Len(stream) + k) - Len(stream) = k
    BY <1>2, <1>5
  <2> QED
    BY <1>7, <2>1
<1>9. \A k \in 1 .. Len(stream) : stream'[k] = stream[k]
  BY <1>2, <1>5, <1>7
<1>10. n \in 1 .. n /\ 1 .. n - 1 \subseteq 1 .. n
  BY <1>5
<1> QED
  BY <1>3, <1>4, <1>5, <1>7, <1>8, <1>9, <1>10

\* The lengths, elements and types of what recv makes of the stream.
LEMMA RecvTypes ==
  ASSUME TypeOK, NEW n \in 1 .. Len(stream), stream' = SubSeq(stream, n + 1, Len(stream))
  PROVE  /\ stream \in Seq(Sent) /\ Len(stream) \in Nat
         /\ stream' \in Seq(Sent) /\ Len(stream') = Len(stream) - n
         /\ \A k \in 1 .. Len(stream) - n : stream'[k] = stream[n + k]
<1>1. stream \in Seq(Sent) /\ Len(stream) \in Nat
  BY DEF TypeOK, Sent
<1>2. n + 1 \in 1 .. Len(stream) + 1 /\ Len(stream) \in (n + 1) - 1 .. Len(stream)
  BY <1>1
<1>3. /\ stream' \in Seq(Sent) /\ Len(stream') = (Len(stream) - (n + 1)) + 1
      /\ \A k \in 1 .. (Len(stream) - (n + 1)) + 1 :
            stream'[k] = stream[((n + 1) + k) - 1]
  BY <1>1, <1>2, Piece
<1>4. (Len(stream) - (n + 1)) + 1 = Len(stream) - n
  BY <1>1
<1>5. ASSUME NEW k \in 1 .. Len(stream) - n PROVE stream'[k] = stream[n + k]
  <2>1. ((n + 1) + k) - 1 = n + k
    BY <1>1
  <2> QED
    BY <1>3, <1>4, <2>1
<1> QED
  BY <1>1, <1>3, <1>4, <1>5

LEMMA GrowsIs ==
  ASSUME TypeOK, NEW n \in 1 .. Len(stream), Grows(n)
  PROVE  /\ buffer' \in Seq(Text) /\ Len(buffer') = Len(buffer) + n /\ Len(buffer) \in Nat
         /\ \A k \in 1 .. Len(buffer) : buffer'[k] = buffer[k]
         /\ \A k \in 1 .. n : buffer'[Len(buffer) + k] = stream[k]
<1> DEFINE t == SubSeq(stream, 1, n)
<1>1. /\ stream \in Seq(Sent) /\ Len(stream) \in Nat
      /\ buffer \in Seq(Text) /\ Len(buffer) \in Nat
  BY DEF TypeOK, Sent, Text
<1>2. t \in Seq(Sent) /\ Len(t) = n /\ \A k \in 1 .. n : t[k] = stream[k]
  BY <1>1, Piece
<1> HIDE DEF t
<1>3. t \in Seq(Text)
  BY <1>2, TextSeq DEF Sent, Text, Grows
<1>4. /\ buffer' \in Seq(Text) /\ Len(buffer') = Len(buffer) + n
      /\ \A k \in 1 .. Len(buffer) + n :
            buffer'[k] = IF k <= Len(buffer) THEN buffer[k] ELSE t[k - Len(buffer)]
  <2>1. buffer' = buffer \o t
    BY DEF Grows, t
  <2> QED
    BY <1>1, <1>2, <1>3, <2>1, ConcatProperties
<1>5. ASSUME NEW k \in 1 .. n PROVE buffer'[Len(buffer) + k] = stream[k]
  <2>1. /\ Len(buffer) + k \in 1 .. Len(buffer) + n
        /\ ~(Len(buffer) + k <= Len(buffer))
        /\ (Len(buffer) + k) - Len(buffer) = k
    BY <1>1
  <2> QED
    BY <1>2, <1>4, <2>1
<1>6. \A k \in 1 .. Len(buffer) : buffer'[k] = buffer[k]
  BY <1>1, <1>4
<1> QED
  BY <1>1, <1>4, <1>5, <1>6

\* The packet that ends at p, and what follows it.
LEMMA SplitsIs ==
  ASSUME TypeOK, NEW n \in 1 .. Len(stream), NEW p \in Nat, NEW q \in Nat, Splits(n, p, q)
  PROVE  \E packet \in Seq(Text) :
           /\ HandlePacket(packet)
           /\ Len(packet) = Len(buffer) + (p - 1) /\ Len(buffer) \in Nat
           /\ \A k \in 1 .. Len(buffer) : packet[k] = buffer[k]
           /\ \A k \in 1 .. p - 1 : packet[Len(buffer) + k] = stream[k]
           /\ buffer' \in Seq(Text) /\ Len(buffer') = (q - 1) - p
           /\ \A k \in 1 .. (q - 1) - p : buffer'[k] = stream[p + k]
<1> DEFINE t == SubSeq(stream, 1, p - 1)
           packet == buffer \o t
<1>1. /\ stream \in Seq(Sent) /\ Len(stream) \in Nat
      /\ buffer \in Seq(Text) /\ Len(buffer) \in Nat
  BY DEF TypeOK, Sent, Text
<1>2. /\ p \in 1 .. n /\ q \in p + 1 .. n + 1 /\ n \in Nat /\ n <= Len(stream)
      /\ HandlePacket(packet)
      /\ buffer' = SubSeq(stream, p + 1, q - 1)
      /\ \A k \in 1 .. p - 1 : ~Newline(stream[k])
      /\ \A k \in p + 1 .. q - 1 : ~Newline(stream[k])
  BY <1>1 DEF Splits
<1>3. t \in Seq(Sent) /\ Len(t) = p - 1 /\ \A k \in 1 .. p - 1 : t[k] = stream[k]
  <2>1. 1 \in 1 .. Len(stream) + 1 /\ p - 1 \in 1 - 1 .. Len(stream)
    BY <1>1, <1>2
  <2>2. /\ t \in Seq(Sent) /\ Len(t) = ((p - 1) - 1) + 1
        /\ \A k \in 1 .. ((p - 1) - 1) + 1 : t[k] = stream[(1 + k) - 1]
    BY <1>1, <2>1, Piece
  <2>3. ((p - 1) - 1) + 1 = p - 1 /\ \A k \in Nat : (1 + k) - 1 = k
    BY <1>2
  <2> QED
    BY <2>2, <2>3
<1> HIDE DEF t
<1>4. t \in Seq(Text)
  BY <1>2, <1>3, TextSeq DEF Sent, Text
<1>5. /\ packet \in Seq(Text) /\ Len(packet) = Len(buffer) + (p - 1)
      /\ \A k \in 1 .. Len(buffer) + (p - 1) :
            packet[k] = IF k <= Len(buffer) THEN buffer[k] ELSE t[k - Len(buffer)]
  <2>1. /\ packet \in Seq(Text) /\ Len(packet) = Len(buffer) + Len(t)
        /\ \A k \in 1 .. Len(buffer) + Len(t) :
              packet[k] = IF k <= Len(buffer) THEN buffer[k] ELSE t[k - Len(buffer)]
    BY <1>1, <1>4, ConcatProperties
  <2> HIDE DEF packet
  <2> QED
    BY <1>3, <2>1
<1>6. ASSUME NEW k \in 1 .. p - 1 PROVE packet[Len(buffer) + k] = stream[k]
  <2>1. /\ Len(buffer) + k \in 1 .. Len(buffer) + (p - 1)
        /\ ~(Len(buffer) + k <= Len(buffer))
        /\ (Len(buffer) + k) - Len(buffer) = k
    BY <1>1, <1>2
  <2> QED
    BY <1>3, <1>5, <2>1
<1>7. \A k \in 1 .. Len(buffer) : packet[k] = buffer[k]
  BY <1>1, <1>2, <1>5
<1>8. /\ buffer' \in Seq(Sent) /\ Len(buffer') = (q - 1) - p
      /\ \A k \in 1 .. (q - 1) - p : buffer'[k] = stream[p + k]
  <2>1. p + 1 \in 1 .. Len(stream) + 1 /\ q - 1 \in (p + 1) - 1 .. Len(stream)
    BY <1>1, <1>2
  <2>2. /\ buffer' \in Seq(Sent) /\ Len(buffer') = ((q - 1) - (p + 1)) + 1
        /\ \A k \in 1 .. ((q - 1) - (p + 1)) + 1 : buffer'[k] = stream[((p + 1) + k) - 1]
    BY <1>1, <1>2, <2>1, Piece
  <2>3. /\ ((q - 1) - (p + 1)) + 1 = (q - 1) - p
        /\ \A k \in Nat : ((p + 1) + k) - 1 = p + k
    BY <1>2
  <2> QED
    BY <2>2, <2>3
<1>9. buffer' \in Seq(Text)
  <2>1. \A k \in 1 .. (q - 1) - p : p + k \in p + 1 .. q - 1
    BY <1>2
  <2>2. \A k \in 1 .. Len(buffer') : ~Newline(buffer'[k])
    BY <1>2, <1>8, <2>1
  <2> DEFINE b == buffer'
  <2>3. b \in Seq(Sent) /\ \A k \in 1 .. Len(b) : ~Newline(b[k])
    BY <1>8, <2>2
  <2> HIDE DEF b
  <2>4. b \in Seq(Text)
    BY <2>3, TextSeq DEF Sent, Text
  <2> QED
    BY <2>4 DEF b
<1> HIDE DEF packet
<1> QED
  BY <1>1, <1>2, <1>5, <1>6, <1>7, <1>8, <1>9

LEMMA InitType == Init => TypeOK
<1> SUFFICES ASSUME Init PROVE TypeOK
  OBVIOUS
<1>1. /\ sizes = <<>> /\ stream = <<>> /\ buffer = <<>> /\ parsed = <<>>
      /\ pc = "bind" /\ listening = FALSE /\ board = "down" /\ breaks = 0
  BY DEF Init
<1>2. /\ sizes \in Seq({LongLen, ShortLen})
      /\ stream \in Seq((DOMAIN sizes) \X (0 .. LongLen - 1))
      /\ buffer \in Seq((DOMAIN sizes) \X (1 .. LongLen - 1))
      /\ parsed \in Seq(Seq((DOMAIN sizes) \X (1 .. LongLen - 1)))
  BY <1>1, EmptySeq
<1>3. Len(sizes) <= MaxPosts /\ breaks \in 0 .. MaxBreaks
  BY <1>1, OffloadAssumption
<1> QED
  BY <1>1, <1>2, <1>3 DEF TypeOK

\* A packet is handed on, or ignored, or ends the thread.
LEMMA HandleTypes ==
  ASSUME TypeOK, NEW p \in Seq(Text), HandlePacket(p), pc = "recv"
  PROVE  /\ parsed' = parsed \/ parsed' = Append(parsed, p)
         /\ parsed' \in Seq(Seq(Text))
         /\ pc' \in {"recv", "ended"}
         /\ listening' \in BOOLEAN
<1>1. parsed \in Seq(Seq(Text)) /\ listening \in BOOLEAN
  BY DEF TypeOK, Text
<1>2. Append(parsed, p) \in Seq(Seq(Text))
  BY <1>1, AppendProperties
<1> QED
  BY <1>1, <1>2 DEF HandlePacket

LEMMA RecvType == TypeOK /\ Recv => TypeOK'
<1> SUFFICES ASSUME TypeOK, Recv PROVE TypeOK'
  OBVIOUS
<1>1. UNCHANGED <<board, sizes, breaks>> /\ pc = "recv" /\ Text' = Text /\ Sent' = Sent
  BY DEF Recv, Text, Sent
<1>2. PICK n \in 1 .. Len(stream) :
        /\ stream' = SubSeq(stream, n + 1, Len(stream))
        /\ Grows(n) \/ \E p, q \in Nat : Splits(n, p, q)
  BY RecvIs
<1>3. stream' \in Seq(Sent)
  BY <1>2, RecvTypes
<1>4. /\ buffer' \in Seq(Text) /\ parsed' \in Seq(Seq(Text))
      /\ pc' \in {"recv", "ended"} /\ listening' \in BOOLEAN
  <2>1. CASE Grows(n)
    <3>1. UNCHANGED <<parsed, pc, listening>>
      BY <2>1 DEF Grows
    <3>2. buffer' \in Seq(Text)
      BY <2>1, GrowsIs
    <3> QED
      BY <1>1, <3>1, <3>2 DEF TypeOK, Text
  <2>2. CASE \E p, q \in Nat : Splits(n, p, q)
    <3>1. PICK p \in Nat, q \in Nat : Splits(n, p, q)
      BY <2>2
    <3>2. PICK packet \in Seq(Text) : HandlePacket(packet) /\ buffer' \in Seq(Text)
      BY <3>1, SplitsIs
    <3> QED
      BY <1>1, <3>2, HandleTypes
  <2> QED
    BY <1>2, <2>1, <2>2
<1> QED
  BY <1>1, <1>3, <1>4 DEF TypeOK, Sent, Text

LEMMA SendsType == TypeOK /\ BoardSends => TypeOK'
<1> SUFFICES ASSUME TypeOK, BoardSends PROVE TypeOK'
  OBVIOUS
<1>1. /\ UNCHANGED <<pc, listening, board, buffer, parsed, breaks>>
      /\ Len(sizes) < MaxPosts /\ MaxPosts \in Nat
  BY OffloadAssumption DEF BoardSends
<1>2. /\ sizes' \in Seq({LongLen, ShortLen}) /\ Len(sizes') = Len(sizes) + 1
      /\ DOMAIN sizes' = 1 .. Len(sizes) + 1 /\ DOMAIN sizes = 1 .. Len(sizes)
      /\ stream' \in Seq(Sent')
  BY SendIs
<1>3. Len(sizes) \in Nat /\ Len(sizes') <= MaxPosts
  BY <1>1, <1>2 DEF TypeOK
<1>4. Text \subseteq Text'
  BY <1>2, <1>3 DEF Text
<1>5. buffer' \in Seq(Text') /\ parsed' \in Seq(Seq(Text'))
  <2>1. buffer \in Seq(Text) /\ parsed \in Seq(Seq(Text))
    BY DEF TypeOK, Text
  <2>2. Seq(Text) \subseteq Seq(Text')
    BY <1>4, SeqMonotonic
  <2>3. buffer \in Seq(Text') /\ parsed \in Seq(Seq(Text'))
    BY <2>1, <2>2, SeqMonotonic
  <2> QED
    BY <1>1, <2>3
<1> QED
  BY <1>1, <1>2, <1>3, <1>5 DEF TypeOK, Sent, Text

\* What a break leaves of the stream.
LEMMA LeaveIs ==
  ASSUME TypeOK, BoardLeaves
  PROVE  \E n \in 0 .. Len(stream) :
           /\ stream \in Seq(Sent) /\ Len(stream) \in Nat
           /\ stream' \in Seq(Sent) /\ Len(stream') = n
           /\ \A k \in 1 .. n : stream'[k] = stream[k]
<1>1. PICK n \in 0 .. Len(stream) : stream' = SubSeq(stream, 1, n)
  BY DEF BoardLeaves
<1>2. stream \in Seq(Sent) /\ Len(stream) \in Nat
  BY DEF TypeOK, Sent
<1>3. 1 \in 1 .. Len(stream) + 1 /\ n \in 1 - 1 .. Len(stream) /\ (n - 1) + 1 = n
  BY <1>2
<1>4. /\ stream' \in Seq(Sent) /\ Len(stream') = (n - 1) + 1
      /\ \A k \in 1 .. (n - 1) + 1 : stream'[k] = stream[(1 + k) - 1]
  BY <1>1, <1>2, <1>3, Piece
<1>5. \A k \in 1 .. n : (1 + k) - 1 = k
  OBVIOUS
<1> QED
  BY <1>2, <1>3, <1>4, <1>5

LEMMA NextType == TypeOK /\ [Next]_vars => TypeOK'
<1> SUFFICES ASSUME TypeOK, [Next]_vars PROVE TypeOK'
  OBVIOUS
<1>1. CASE Recv
  BY <1>1, RecvType
<1>2. CASE BoardSends
  BY <1>2, SendsType
<1>3. CASE BoardLeaves
  <2>1. UNCHANGED <<pc, listening, buffer, parsed, sizes>> /\ board' = "down"
    BY <1>3 DEF BoardLeaves
  <2>2. breaks' \in 0 .. MaxBreaks
    BY <1>3, OffloadAssumption DEF BoardLeaves, TypeOK
  <2>3. stream' \in Seq(Sent)
    BY <1>3, LeaveIs
  <2> QED
    BY <2>1, <2>2, <2>3 DEF TypeOK, Sent
<1>4. CASE Bind \/ Accept \/ AcceptRaises \/ RecvEnd \/ UNCHANGED vars
  <2>1. UNCHANGED <<stream, buffer, parsed, sizes, breaks>>
    BY <1>4 DEF Bind, Accept, AcceptRaises, RecvEnd, vars
  <2>2. /\ pc' \in {"bind", "accept", "recv", "ended"}
        /\ listening' \in BOOLEAN
        /\ board' \in {"down", "up"}
    BY <1>4 DEF Bind, Accept, AcceptRaises, RecvEnd, CloseSocket, vars, TypeOK
  <2> QED
    BY <2>1, <2>2 DEF TypeOK
<1> QED
  BY <1>1, <1>2, <1>3, <1>4 DEF Next, Thread

\* Every variable keeps its type (renderer.py:141-216).
THEOREM TypeCorrect == Spec => []TypeOK
<1> QED
  BY InitType, NextType, PTL DEF Spec

-----------------------------------------------------------------------------
(* The order of the bytes.                                                 *)

\* Before, for bytes that may be newlines: a newline is the last of its message.
Earlier(b, c) == b[1] < c[1] \/ (b[1] = c[1] /\ b[2] # 0 /\ (c[2] = 0 \/ b[2] < c[2]))

\* The inductive form of ParsedInOrder: the packets, the buffer and the stream,
\* one after the other, are in order, and so are the bytes of each.
OrderInv ==
  /\ \A i, j \in 1 .. Len(stream) : i < j => Earlier(stream[i], stream[j])
  /\ \A i, j \in 1 .. Len(buffer) : i < j => Earlier(buffer[i], buffer[j])
  /\ \A q \in 1 .. Len(parsed) :
       \A i, j \in 1 .. Len(parsed[q]) : i < j => Earlier(parsed[q][i], parsed[q][j])
  /\ \A i \in 1 .. Len(buffer), j \in 1 .. Len(stream) : Earlier(buffer[i], stream[j])
  /\ \A q \in 1 .. Len(parsed) : \A i \in 1 .. Len(parsed[q]) :
       /\ \A j \in 1 .. Len(stream) : Earlier(parsed[q][i], stream[j])
       /\ \A j \in 1 .. Len(buffer) : Earlier(parsed[q][i], buffer[j])
       /\ \A r \in 1 .. Len(parsed) : q < r =>
            \A j \in 1 .. Len(parsed[r]) : Earlier(parsed[q][i], parsed[r][j])

LEMMA InitOrder == Init => OrderInv
  BY DEF Init, OrderInv

\* t is the buffer followed by the first a bytes of the stream.
Joined(t, a) ==
  /\ Len(t) = Len(buffer) + a
  /\ \A k \in 1 .. Len(buffer) : t[k] = buffer[k]
  /\ \A k \in 1 .. a : t[Len(buffer) + k] = stream[k]

LEMMA JoinedOrder ==
  ASSUME TypeOK, OrderInv, NEW a \in 0 .. Len(stream), NEW t \in Seq(Text), Joined(t, a)
  PROVE  /\ \A i, j \in 1 .. Len(t) : i < j => Earlier(t[i], t[j])
         /\ \A i \in 1 .. Len(t), j \in a + 1 .. Len(stream) : Earlier(t[i], stream[j])
         /\ \A q \in 1 .. Len(parsed) : \A i \in 1 .. Len(parsed[q]), j \in 1 .. Len(t) :
              Earlier(parsed[q][i], t[j])
<1> DEFINE B == Len(buffer)
           L == Len(stream)
<1>1. B \in Nat /\ L \in Nat /\ a \in Nat /\ a <= L /\ Len(t) = B + a
  BY DEF TypeOK, Joined
<1>2. /\ \A k \in 1 .. B : t[k] = buffer[k]
      /\ \A k \in 1 .. a : t[B + k] = stream[k]
  BY DEF Joined
<1>3. /\ \A i, j \in 1 .. L : i < j => Earlier(stream[i], stream[j])
      /\ \A i, j \in 1 .. B : i < j => Earlier(buffer[i], buffer[j])
      /\ \A i \in 1 .. B, j \in 1 .. L : Earlier(buffer[i], stream[j])
      /\ \A q \in 1 .. Len(parsed) : \A i \in 1 .. Len(parsed[q]) :
           /\ \A j \in 1 .. L : Earlier(parsed[q][i], stream[j])
           /\ \A j \in 1 .. B : Earlier(parsed[q][i], buffer[j])
  BY DEF OrderInv
<1> HIDE DEF B, L
<1>4. ASSUME NEW i \in 1 .. Len(t)
      PROVE  \/ i \in 1 .. B /\ t[i] = buffer[i]
             \/ i - B \in 1 .. a /\ i - B \in 1 .. L /\ i > B /\ t[i] = stream[i - B]
  <2>1. CASE i <= B
    <3>1. i \in 1 .. B
      BY <1>1, <2>1
    <3> QED
      BY <1>2, <3>1
  <2>2. CASE ~(i <= B)
    <3>1. i - B \in 1 .. a /\ i - B \in 1 .. L /\ i > B /\ B + (i - B) = i
      BY <1>1, <2>2
    <3> QED
      BY <1>2, <3>1
  <2> QED
    BY <2>1, <2>2
<1>5. ASSUME NEW i \in 1 .. Len(t), NEW j \in 1 .. Len(t), i < j
      PROVE  Earlier(t[i], t[j])
  <2>1. CASE j \in 1 .. B /\ t[j] = buffer[j]
    <3>1. i \in 1 .. B /\ t[i] = buffer[i]
      BY <1>1, <1>2, <1>5, <2>1
    <3> QED
      BY <1>3, <1>5, <2>1, <3>1
  <2>2. CASE j - B \in 1 .. a /\ j - B \in 1 .. L /\ j > B /\ t[j] = stream[j - B]
    <3>1. CASE i \in 1 .. B /\ t[i] = buffer[i]
      BY <1>3, <2>2, <3>1
    <3>2. CASE i - B \in 1 .. a /\ i - B \in 1 .. L /\ i > B /\ t[i] = stream[i - B]
      <4>1. i - B < j - B
        BY <1>1, <1>5
      <4> QED
        BY <1>3, <2>2, <3>2, <4>1
    <3> QED
      BY <1>4, <3>1, <3>2
  <2> QED
    BY <1>4, <2>1, <2>2
<1>6. ASSUME NEW i \in 1 .. Len(t), NEW j \in a + 1 .. L
      PROVE  Earlier(t[i], stream[j])
  <2>1. j \in 1 .. L
    BY <1>1
  <2>2. CASE i \in 1 .. B /\ t[i] = buffer[i]
    BY <1>3, <2>1, <2>2
  <2>3. CASE i - B \in 1 .. a /\ i - B \in 1 .. L /\ i > B /\ t[i] = stream[i - B]
    <3>1. i - B < j
      BY <1>1, <2>3
    <3> QED
      BY <1>3, <2>1, <2>3, <3>1
  <2> QED
    BY <1>4, <2>2, <2>3
<1>7. ASSUME NEW q \in 1 .. Len(parsed), NEW i \in 1 .. Len(parsed[q]), NEW j \in 1 .. Len(t)
      PROVE  Earlier(parsed[q][i], t[j])
  BY <1>3, <1>4
<1> QED
  BY <1>5, <1>6, <1>7 DEF L

\* The packets after a step of recv: the old ones, and perhaps t.
LEMMA PacketsAfter ==
  ASSUME TypeOK, NEW t \in Seq(Text), parsed' = parsed \/ parsed' = Append(parsed, t),
         NEW q \in 1 .. Len(parsed')
  PROVE  \/ q \in 1 .. Len(parsed) /\ parsed'[q] = parsed[q]
         \/ q = Len(parsed) + 1 /\ parsed'[q] = t
<1>1. parsed \in Seq(Seq(Text)) /\ Len(parsed) \in Nat
  BY DEF TypeOK, Text
<1>2. CASE parsed' = parsed
  BY <1>2
<1>3. CASE parsed' = Append(parsed, t)
  <2>1. /\ Len(parsed') = Len(parsed) + 1
        /\ \A k \in 1 .. Len(parsed) : parsed'[k] = parsed[k]
        /\ parsed'[Len(parsed) + 1] = t
    BY <1>1, <1>3, AppendProperties
  <2>2. q \in 1 .. Len(parsed) \/ q = Len(parsed) + 1
    BY <1>1, <2>1
  <2> QED
    BY <2>1, <2>2
<1> QED
  BY <1>2, <1>3

LEMMA RecvOrder == TypeOK /\ OrderInv /\ Recv => OrderInv'
<1> SUFFICES ASSUME TypeOK, OrderInv, Recv PROVE OrderInv'
  OBVIOUS
<1>1. PICK n \in 1 .. Len(stream) :
        /\ stream' = SubSeq(stream, n + 1, Len(stream))
        /\ Grows(n) \/ \E p, q \in Nat : Splits(n, p, q)
  BY RecvIs
<1> DEFINE L == Len(stream)
<1>2. /\ L \in Nat /\ n \in Nat /\ n <= L /\ Len(stream') = L - n
      /\ \A k \in 1 .. L - n : stream'[k] = stream[n + k]
  BY <1>1, RecvTypes
<1>3. /\ \A i, j \in 1 .. L : i < j => Earlier(stream[i], stream[j])
      /\ \A q \in 1 .. Len(parsed) : \A i, j \in 1 .. Len(parsed[q]) :
           i < j => Earlier(parsed[q][i], parsed[q][j])
      /\ \A q \in 1 .. Len(parsed) : \A i \in 1 .. Len(parsed[q]) :
           /\ \A j \in 1 .. L : Earlier(parsed[q][i], stream[j])
           /\ \A r \in 1 .. Len(parsed) : q < r =>
                \A j \in 1 .. Len(parsed[r]) : Earlier(parsed[q][i], parsed[r][j])
  BY DEF OrderInv
<1>4. \A j \in 1 .. Len(stream') :
        n + j \in n + 1 .. L /\ n + j \in 1 .. L /\ stream'[j] = stream[n + j]
  BY <1>2
<1>5. \A i, j \in 1 .. Len(stream') : i < j => Earlier(stream'[i], stream'[j])
  <2> SUFFICES ASSUME NEW i \in 1 .. Len(stream'), NEW j \in 1 .. Len(stream'), i < j
               PROVE  Earlier(stream'[i], stream'[j])
    OBVIOUS
  <2>1. n + i < n + j
    BY <1>2
  <2> QED
    BY <1>3, <1>4, <2>1
<1>6. CASE Grows(n)
  <2> DEFINE t == buffer'
  <2>1. t \in Seq(Text) /\ Joined(t, n) /\ n \in 0 .. Len(stream)
    BY <1>2, <1>6, GrowsIs DEF Joined
  <2> HIDE DEF t
  <2>2. /\ \A i, j \in 1 .. Len(t) : i < j => Earlier(t[i], t[j])
        /\ \A i \in 1 .. Len(t), j \in n + 1 .. L : Earlier(t[i], stream[j])
        /\ \A q \in 1 .. Len(parsed) : \A i \in 1 .. Len(parsed[q]), j \in 1 .. Len(t) :
             Earlier(parsed[q][i], t[j])
    BY <2>1, JoinedOrder
  <2>3. parsed' = parsed
    BY <1>6 DEF Grows
  <2>4. \A i \in 1 .. Len(t), j \in 1 .. Len(stream') : Earlier(t[i], stream'[j])
    BY <1>4, <2>2
  <2>5. \A q \in 1 .. Len(parsed) : \A i \in 1 .. Len(parsed[q]), j \in 1 .. Len(stream') :
          Earlier(parsed[q][i], stream'[j])
    BY <1>3, <1>4
  <2> HIDE DEF L
  <2> QED
    BY <1>3, <1>5, <2>2, <2>3, <2>4, <2>5 DEF OrderInv, t
<1>7. CASE \E p, q \in Nat : Splits(n, p, q)
  <2>1. PICK p \in Nat, q \in Nat : Splits(n, p, q)
    BY <1>7
  <2>2. PICK t \in Seq(Text) :
          /\ HandlePacket(t)
          /\ Joined(t, p - 1)
          /\ Len(buffer') = (q - 1) - p
          /\ \A k \in 1 .. (q - 1) - p : buffer'[k] = stream[p + k]
    BY <2>1, SplitsIs DEF Joined
  <2>3. p \in 1 .. n /\ q \in p + 1 .. n + 1 /\ p - 1 \in 0 .. Len(stream)
    BY <1>2, <2>1 DEF Splits
  <2>4. /\ \A i, j \in 1 .. Len(t) : i < j => Earlier(t[i], t[j])
        /\ \A i \in 1 .. Len(t), j \in (p - 1) + 1 .. L : Earlier(t[i], stream[j])
        /\ \A r \in 1 .. Len(parsed) : \A i \in 1 .. Len(parsed[r]), j \in 1 .. Len(t) :
             Earlier(parsed[r][i], t[j])
    BY <2>2, <2>3, JoinedOrder
  <2>5. parsed' = parsed \/ parsed' = Append(parsed, t)
    BY <2>2 DEF HandlePacket
  <2>6. \A r \in 1 .. Len(parsed') :
          \/ r \in 1 .. Len(parsed) /\ parsed'[r] = parsed[r]
          \/ r = Len(parsed) + 1 /\ parsed'[r] = t
    BY <2>5, PacketsAfter
  <2>7. \A k \in 1 .. Len(buffer') :
          /\ p + k \in 1 .. L /\ p + k \in (p - 1) + 1 .. L /\ p + k <= n
          /\ buffer'[k] = stream[p + k]
    BY <1>2, <2>2, <2>3
  <2>8. \A j \in 1 .. Len(stream') :
          /\ n + j \in 1 .. L /\ n + j \in (p - 1) + 1 .. L /\ n + j > n
          /\ stream'[j] = stream[n + j]
    BY <1>2, <1>4, <2>3
  <2>9. \A i, j \in 1 .. Len(buffer') : i < j => Earlier(buffer'[i], buffer'[j])
    <3> SUFFICES ASSUME NEW i \in 1 .. Len(buffer'), NEW j \in 1 .. Len(buffer'), i < j
                 PROVE  Earlier(buffer'[i], buffer'[j])
      OBVIOUS
    <3>1. p + i < p + j
      BY <2>3
    <3> QED
      BY <1>3, <2>7, <3>1
  <2>10. \A i \in 1 .. Len(buffer'), j \in 1 .. Len(stream') : Earlier(buffer'[i], stream'[j])
    <3> SUFFICES ASSUME NEW i \in 1 .. Len(buffer'), NEW j \in 1 .. Len(stream')
                 PROVE  Earlier(buffer'[i], stream'[j])
      OBVIOUS
    <3>1. p + i < n + j
      BY <1>2, <2>3, <2>7, <2>8
    <3> QED
      BY <1>3, <2>7, <2>8, <3>1
  <2> HIDE DEF L
  <2>11. ASSUME NEW r \in 1 .. Len(parsed')
         PROVE  /\ \A i, j \in 1 .. Len(parsed'[r]) :
                     i < j => Earlier(parsed'[r][i], parsed'[r][j])
                /\ \A i \in 1 .. Len(parsed'[r]) :
                     /\ \A j \in 1 .. Len(stream') : Earlier(parsed'[r][i], stream'[j])
                     /\ \A j \in 1 .. Len(buffer') : Earlier(parsed'[r][i], buffer'[j])
    <3>1. CASE r \in 1 .. Len(parsed) /\ parsed'[r] = parsed[r]
      BY <1>3, <2>7, <2>8, <3>1
    <3>2. CASE r = Len(parsed) + 1 /\ parsed'[r] = t
      BY <2>4, <2>7, <2>8, <3>2
    <3> QED
      BY <2>6, <3>1, <3>2
  <2>12. ASSUME NEW r \in 1 .. Len(parsed'), NEW u \in 1 .. Len(parsed'), r < u
         PROVE  \A i \in 1 .. Len(parsed'[r]), j \in 1 .. Len(parsed'[u]) :
                  Earlier(parsed'[r][i], parsed'[u][j])
    <3>1. Len(parsed) \in Nat
      BY DEF TypeOK
    <3>2. r \in 1 .. Len(parsed) /\ parsed'[r] = parsed[r]
      <4>1. u <= Len(parsed) + 1
        BY <2>6, <3>1
      <4> QED
        BY <2>6, <2>12, <3>1, <4>1
    <3>3. CASE u \in 1 .. Len(parsed) /\ parsed'[u] = parsed[u]
      BY <1>3, <2>12, <3>2, <3>3
    <3>4. CASE u = Len(parsed) + 1 /\ parsed'[u] = t
      BY <2>4, <3>2, <3>4
    <3> QED
      BY <2>6, <3>3, <3>4
  <2> QED
    BY <1>5, <2>9, <2>10, <2>11, <2>12 DEF OrderInv
<1> QED
  BY <1>1, <1>6, <1>7

LEMMA SendsOrder == TypeOK /\ OrderInv /\ BoardSends => OrderInv'
<1> SUFFICES ASSUME TypeOK, OrderInv, BoardSends PROVE OrderInv'
  OBVIOUS
<1> DEFINE m == Len(sizes) + 1
           L == Len(stream)
<1>1. PICK n \in {LongLen, ShortLen} :
        /\ n \in 2 .. LongLen
        /\ DOMAIN sizes = 1 .. Len(sizes)
        /\ Len(stream') = L + n
        /\ \A k \in 1 .. L : stream'[k] = stream[k]
        /\ \A k \in 1 .. n - 1 : stream'[L + k] = <<m, k>>
        /\ stream'[L + n] = <<m, 0>>
  BY SendIs
<1>2. UNCHANGED <<parsed, buffer>> /\ L \in Nat /\ m \in Nat /\ n \in Nat
  BY <1>1, OffloadAssumption DEF BoardSends, TypeOK
<1>3. ASSUME NEW j \in L + 1 .. L + n
      PROVE  stream'[j][1] = m /\ (stream'[j][2] = j - L \/ (j = L + n /\ stream'[j][2] = 0))
  <2>1. CASE j = L + n
    BY <1>1, <2>1
  <2>2. CASE j # L + n
    <3>1. j - L \in 1 .. n - 1 /\ L + (j - L) = j
      BY <1>2, <2>2
    <3>2. stream'[j] = <<m, j - L>>
      BY <1>1, <3>1
    <3> QED
      BY <3>2
  <2> QED
    BY <2>1, <2>2
\* A byte that was there is earlier than one of the new message.
<1>4. ASSUME NEW b \in Sent, NEW j \in L + 1 .. L + n PROVE Earlier(b, stream'[j])
  <2>1. b[1] \in 1 .. Len(sizes)
    BY <1>1 DEF Sent
  <2>2. b[1] < m
    BY <1>2, <2>1
  <2> QED
    BY <1>3, <2>2 DEF Earlier
<1>5. /\ \A k \in 1 .. L : stream[k] \in Sent
      /\ \A k \in 1 .. Len(buffer) : buffer[k] \in Sent
      /\ \A q \in 1 .. Len(parsed) : \A k \in 1 .. Len(parsed[q]) : parsed[q][k] \in Sent
  <2>1. Text \subseteq Sent
    BY DEF Text, Sent
  <2>2. /\ stream \in Seq(Sent) /\ buffer \in Seq(Text) /\ parsed \in Seq(Seq(Text))
    BY DEF TypeOK, Text, Sent
  <2>3. \A q \in 1 .. Len(parsed) : parsed[q] \in Seq(Text)
    BY <2>2
  <2> QED
    BY <2>1, <2>2, <2>3, ElementOfSeq
<1>6. \A j \in 1 .. L + n : j \in 1 .. L \/ j \in L + 1 .. L + n
  BY <1>1, <1>2
<1>7. ASSUME NEW i \in 1 .. L + n, NEW j \in 1 .. L + n, i < j
      PROVE  Earlier(stream'[i], stream'[j])
  <2>1. CASE j \in 1 .. L
    <3>1. i \in 1 .. L
      BY <1>2, <1>7, <2>1
    <3> QED
      BY <1>1, <1>7, <2>1, <3>1 DEF OrderInv
  <2>2. CASE j \in L + 1 .. L + n /\ i \in 1 .. L
    <3>1. stream'[i] = stream[i]
      BY <1>1, <2>2
    <3> QED
      BY <1>4, <1>5, <2>2, <3>1
  <2>3. CASE j \in L + 1 .. L + n /\ i \in L + 1 .. L + n
    <3>1. i # L + n /\ i - L # 0 /\ i - L < j - L
      BY <1>1, <1>2, <1>7, <2>3
    <3>2. stream'[i][1] = m /\ stream'[i][2] = i - L
      BY <1>3, <2>3, <3>1
    <3>3. stream'[j][1] = m /\ (stream'[j][2] = j - L \/ stream'[j][2] = 0)
      BY <1>3, <2>3
    <3> QED
      BY <3>1, <3>2, <3>3 DEF Earlier
  <2> QED
    BY <1>6, <2>1, <2>2, <2>3
<1>8. ASSUME NEW j \in 1 .. L + n
      PROVE  /\ \A i \in 1 .. Len(buffer) : Earlier(buffer[i], stream'[j])
             /\ \A q \in 1 .. Len(parsed) : \A i \in 1 .. Len(parsed[q]) :
                  Earlier(parsed[q][i], stream'[j])
  <2>1. CASE j \in 1 .. L
    BY <1>1, <2>1 DEF OrderInv
  <2>2. CASE j \in L + 1 .. L + n
    BY <1>4, <1>5, <2>2
  <2> QED
    BY <1>6, <2>1, <2>2
<1> QED
  BY <1>1, <1>2, <1>7, <1>8 DEF OrderInv

LEMMA NextOrder == TypeOK /\ OrderInv /\ [Next]_vars => OrderInv'
<1> SUFFICES ASSUME TypeOK, OrderInv, [Next]_vars PROVE OrderInv'
  OBVIOUS
<1>1. CASE Recv
  BY <1>1, RecvOrder
<1>2. CASE BoardSends
  BY <1>2, SendsOrder
<1>3. CASE BoardLeaves
  <2>1. UNCHANGED <<parsed, buffer>>
    BY <1>3 DEF BoardLeaves
  <2>2. PICK n \in 0 .. Len(stream) :
          /\ Len(stream) \in Nat /\ Len(stream') = n
          /\ \A k \in 1 .. n : stream'[k] = stream[k]
    BY <1>3, LeaveIs
  <2>3. \A k \in 1 .. Len(stream') : k \in 1 .. Len(stream) /\ stream'[k] = stream[k]
    BY <2>2
  <2> QED
    BY <2>1, <2>3 DEF OrderInv
<1>4. CASE Bind \/ Accept \/ AcceptRaises \/ RecvEnd \/ UNCHANGED vars
  <2>1. UNCHANGED <<stream, buffer, parsed>>
    BY <1>4 DEF Bind, Accept, AcceptRaises, RecvEnd, vars
  <2> QED
    BY <2>1 DEF OrderInv
<1> QED
  BY <1>1, <1>2, <1>3, <1>4 DEF Next, Thread

LEMMA OrderImplies == TypeOK /\ OrderInv => ParsedInOrder
<1> SUFFICES ASSUME TypeOK, OrderInv PROVE ParsedInOrder
  OBVIOUS
<1> DEFINE pieces == Append(parsed, buffer)
           P == Len(parsed)
<1>1. buffer \in Seq(Text) /\ parsed \in Seq(Seq(Text)) /\ P \in Nat
  BY DEF TypeOK, Text
<1>2. /\ pieces \in Seq(Seq(Text)) /\ Len(pieces) = P + 1
      /\ \A q \in 1 .. P : pieces[q] = parsed[q]
      /\ pieces[P + 1] = buffer
  BY <1>1, AppendProperties
<1> HIDE DEF pieces
<1>3. ASSUME NEW q \in 1 .. Len(pieces), NEW r \in 1 .. Len(pieces),
             NEW k \in 1 .. Len(pieces[q]), NEW l \in 1 .. Len(pieces[r]),
             q < r \/ (q = r /\ k < l)
      PROVE  Before(pieces[q][k], pieces[r][l])
  <2>1. (q \in 1 .. P \/ q = P + 1) /\ (r \in 1 .. P \/ r = P + 1)
    BY <1>1, <1>2
  <2>2. Earlier(pieces[q][k], pieces[r][l])
    <3>1. CASE q < r
      <4>1. q \in 1 .. P /\ pieces[q] = parsed[q]
        BY <1>1, <1>2, <3>1
      <4>2. CASE r = P + 1
        BY <1>2, <4>1, <4>2 DEF OrderInv
      <4>3. CASE r \in 1 .. P
        BY <1>2, <3>1, <4>1, <4>3 DEF OrderInv
      <4> QED
        BY <2>1, <4>2, <4>3
    <3>2. CASE q = r /\ k < l
      <4>1. CASE q = P + 1
        BY <1>2, <3>2, <4>1 DEF OrderInv
      <4>2. CASE q \in 1 .. P
        BY <1>2, <3>2, <4>2 DEF OrderInv
      <4> QED
        BY <2>1, <4>1, <4>2
    <3> QED
      BY <1>3, <3>1, <3>2
  <2>3. pieces[q][k] \in Text /\ pieces[r][l] \in Text
    <3>1. pieces[q] \in Seq(Text) /\ pieces[r] \in Seq(Text)
      BY <1>2, ElementOfSeq
    <3> QED
      BY <3>1, ElementOfSeq
  <2>4. pieces[q][k][2] \in Nat \ {0} /\ pieces[r][l][2] \in Nat \ {0}
    BY <2>3, OffloadAssumption DEF Text
  <2> QED
    BY <2>2, <2>4 DEF Earlier, Before
<1> QED
  BY <1>3 DEF ParsedInOrder, pieces

\* However recv cuts the stream and whenever the board leaves, no byte is parsed
\* twice or before an earlier one (renderer.py:153-161).
THEOREM BytesKeepTheirOrder == Spec => []ParsedInOrder
<1>1. Init => TypeOK /\ OrderInv
  BY InitType, InitOrder
<1>2. TypeOK /\ OrderInv /\ [Next]_vars => (TypeOK /\ OrderInv)'
  BY NextType, NextOrder
<1> QED
  BY <1>1, <1>2, OrderImplies, PTL DEF Spec

-----------------------------------------------------------------------------
(* Whole messages.                                                         *)

\* Up to a newline the stream is a piece of one message, without a gap.
Runs ==
  \A i, j \in 1 .. Len(stream) :
    (i < j /\ \A k \in i .. j - 1 : ~Newline(stream[k])) =>
      /\ stream[j][1] = stream[i][1]
      /\ Place(stream[j]) = Place(stream[i]) + (j - i)

\* After a newline comes the beginning of the next message.
Follows ==
  \A i, j \in 1 .. Len(stream) :
    (j = i + 1 /\ Newline(stream[i])) =>
      stream[j][1] = stream[i][1] + 1 /\ stream[j][2] = 1

\* The connection ends between messages while the board is there, and there is only
\* one: after it the socket is closed.
Ends ==
  /\ (board = "up" /\ stream # <<>>) =>
       stream[Len(stream)][1] = Len(sizes) /\ Newline(stream[Len(stream)])
  /\ (pc = "bind" \/ (pc = "accept" /\ listening)) =>
       /\ board = "down" /\ sizes = <<>>
       /\ stream = <<>> /\ buffer = <<>> /\ parsed = <<>>

\* The inductive form of ParsedWhole.
WholeInv == Runs /\ Follows /\ Ends /\ ParsedWhole

\* The bytes of the stream and the lengths of the messages.
LEMMA StreamBytes ==
  ASSUME TypeOK
  PROVE  /\ Len(stream) \in Nat /\ DOMAIN sizes = 1 .. Len(sizes) /\ Len(sizes) \in Nat
         /\ \A k \in 1 .. Len(stream) :
              /\ stream[k] = <<stream[k][1], stream[k][2]>>
              /\ stream[k][1] \in 1 .. Len(sizes) /\ stream[k][2] \in Nat
         /\ \A m \in 1 .. Len(sizes) : sizes[m] \in Nat /\ sizes[m] >= 2
<1>1. stream \in Seq(Sent) /\ sizes \in Seq({LongLen, ShortLen})
  BY DEF TypeOK, Sent
<1>2. DOMAIN sizes = 1 .. Len(sizes) /\ Len(sizes) \in Nat /\ Len(stream) \in Nat
  BY <1>1
<1>3. ASSUME NEW k \in 1 .. Len(stream)
      PROVE  /\ stream[k] = <<stream[k][1], stream[k][2]>>
             /\ stream[k][1] \in 1 .. Len(sizes) /\ stream[k][2] \in Nat
  <2>1. stream[k] \in Sent
    BY <1>1, ElementOfSeq
  <2> QED
    BY <1>2, <2>1, OffloadAssumption DEF Sent
<1>4. ASSUME NEW m \in 1 .. Len(sizes) PROVE sizes[m] \in Nat /\ sizes[m] >= 2
  <2>1. sizes[m] \in {LongLen, ShortLen}
    BY <1>1, ElementOfSeq
  <2> QED
    BY <2>1, OffloadAssumption
<1> QED
  BY <1>2, <1>3, <1>4

LEMMA InitWhole == Init => WholeInv
  BY DEF Init, WholeInv, Runs, Follows, Ends, ParsedWhole

\* What recv leaves of the stream is a piece of it.
LEMMA RecvRuns ==
  ASSUME TypeOK, WholeInv, Recv
  PROVE  Runs' /\ Follows' /\ Ends'
<1>1. PICK n \in 1 .. Len(stream) :
        /\ stream' = SubSeq(stream, n + 1, Len(stream))
        /\ Grows(n) \/ \E p, q \in Nat : Splits(n, p, q)
  BY RecvIs
<1> DEFINE L == Len(stream)
<1>2. /\ L \in Nat /\ n \in Nat /\ n >= 1 /\ n <= L /\ Len(stream') = L - n
      /\ \A k \in 1 .. L - n : stream'[k] = stream[n + k]
  BY <1>1, RecvTypes
<1>3. UNCHANGED <<board, sizes>> /\ pc = "recv"
  BY DEF Recv
<1>4. \A k \in 1 .. Len(stream') : n + k \in 1 .. L /\ stream'[k] = stream[n + k]
  BY <1>2
<1>5. Runs'
  <2> SUFFICES ASSUME NEW i \in 1 .. Len(stream'), NEW j \in 1 .. Len(stream'), i < j,
                      \A k \in i .. j - 1 : ~Newline(stream'[k])
               PROVE  /\ stream'[j][1] = stream'[i][1]
                      /\ Place(stream'[j]) = Place(stream'[i]) + (j - i)
    BY <1>3 DEF Runs, Place
  <2>1. ASSUME NEW k \in n + i .. (n + j) - 1 PROVE ~Newline(stream[k])
    <3>1. k - n \in i .. j - 1 /\ k - n \in 1 .. Len(stream') /\ n + (k - n) = k
      BY <1>2
    <3> QED
      BY <1>4, <3>1
  <2>2. /\ n + i \in 1 .. L /\ n + j \in 1 .. L /\ n + i < n + j
        /\ (n + j) - (n + i) = j - i
    BY <1>2, <1>4
  <2>3. /\ stream[n + j][1] = stream[n + i][1]
        /\ Place(stream[n + j]) = Place(stream[n + i]) + ((n + j) - (n + i))
    BY <2>1, <2>2 DEF WholeInv, Runs
  <2> QED
    BY <1>4, <2>2, <2>3
<1>6. Follows'
  <2> SUFFICES ASSUME NEW i \in 1 .. Len(stream'), NEW j \in 1 .. Len(stream'),
                      j = i + 1, Newline(stream'[i])
               PROVE  stream'[j][1] = stream'[i][1] + 1 /\ stream'[j][2] = 1
    BY DEF Follows
  <2>1. n + i \in 1 .. L /\ n + j \in 1 .. L /\ n + j = (n + i) + 1
    BY <1>2, <1>4
  <2>2. Newline(stream[n + i])
    BY <1>4
  <2>3. stream[n + j][1] = stream[n + i][1] + 1 /\ stream[n + j][2] = 1
    BY <2>1, <2>2 DEF WholeInv, Follows
  <2>4. stream'[i] = stream[n + i] /\ stream'[j] = stream[n + j]
    BY <1>4
  <2> QED
    BY <2>3, <2>4
<1>7. Ends'
  <2>1. pc' # "bind" /\ pc' # "accept"
    BY <1>1, <1>3 DEF Grows, Splits, HandlePacket
  <2>2. ASSUME board' = "up", stream' # <<>>
        PROVE  stream'[Len(stream')][1] = Len(sizes') /\ Newline(stream'[Len(stream')])
    <3>1. L # n
      <4>1. stream' \in Seq(Sent)
        BY <1>1, RecvTypes
      <4> QED
        BY <1>2, <2>2, <4>1, EmptySeq
    <3>2. L - n \in 1 .. Len(stream') /\ n + (L - n) = L /\ stream # <<>>
      BY <1>2, <3>1
    <3>3. stream'[Len(stream')] = stream[L]
      BY <1>2, <1>4, <3>2
    <3> QED
      BY <1>3, <2>2, <3>2, <3>3 DEF WholeInv, Ends
  <2> QED
    BY <2>1, <2>2 DEF Ends
<1> QED
  BY <1>5, <1>6, <1>7

-----------------------------------------------------------------------------
(* What recv parses while the board sends long messages only.              *)

Long == \A m \in DOMAIN sizes : sizes[m] >= ChunkMax

\* Up to its first newline the stream goes on where the buffer ends.
LEMMA GoesOn ==
  ASSUME TypeOK, WholeInv, Long, NEW a \in 1 .. Len(stream),
         \A k \in 1 .. a - 1 : ~Newline(stream[k])
  PROVE  /\ stream[a][1] = Len(parsed) + 1
         /\ Place(stream[a]) = Len(buffer) + a
<1>1. Len(stream) \in Nat /\ Len(buffer) \in Nat /\ 1 \in 1 .. Len(stream) /\ stream # <<>>
  BY StreamBytes DEF TypeOK
<1>2. stream[1][1] = Len(parsed) + 1 /\ Place(stream[1]) = Len(buffer) + 1
  BY <1>1 DEF WholeInv, ParsedWhole, Long
<1>3. CASE a = 1
  BY <1>2, <1>3
<1>4. CASE a # 1
  <2>1. 1 < a
    BY <1>4
  <2>2. stream[a][1] = stream[1][1] /\ Place(stream[a]) = Place(stream[1]) + (a - 1)
    BY <1>1, <2>1 DEF WholeInv, Runs
  <2> QED
    BY <1>1, <1>2, <2>2
<1> QED
  BY <1>3, <1>4

\* The bytes before the first newline.
LEMMA GoesOnText ==
  ASSUME TypeOK, WholeInv, Long, NEW a \in 0 .. Len(stream),
         \A k \in 1 .. a : ~Newline(stream[k]),
         NEW j \in 1 .. a
  PROVE  stream[j] = <<Len(parsed) + 1, Len(buffer) + j>>
<1>1. Len(stream) \in Nat
  BY StreamBytes
<1>2. j \in 1 .. Len(stream) /\ \A k \in 1 .. j - 1 : k \in 1 .. a
  BY <1>1
<1>3. stream[j][1] = Len(parsed) + 1 /\ Place(stream[j]) = Len(buffer) + j
  BY <1>2, GoesOn
<1>4. stream[j] = <<stream[j][1], stream[j][2]>>
  BY <1>2, StreamBytes
<1>5. stream[j][2] = Len(buffer) + j
  BY <1>3 DEF Place
<1> QED
  BY <1>3, <1>4, <1>5

LEMMA GrowsWhole ==
  ASSUME TypeOK, WholeInv, Long, NEW n \in 1 .. Len(stream), Grows(n),
         stream' = SubSeq(stream, n + 1, Len(stream)), UNCHANGED <<board, sizes>>
  PROVE  ParsedWhole'
<1> DEFINE L == Len(stream)
           B == Len(buffer)
           P == Len(parsed)
<1>1. /\ L \in Nat /\ n \in Nat /\ n >= 1 /\ n <= L /\ Len(stream') = L - n
      /\ stream' \in Seq(Sent) /\ \A k \in 1 .. L - n : stream'[k] = stream[n + k]
  BY RecvTypes
<1>2. /\ parsed' = parsed /\ \A k \in 1 .. n : ~Newline(stream[k])
  BY DEF Grows
<1>3. /\ buffer' \in Seq(Text) /\ Len(buffer') = B + n /\ B \in Nat
      /\ \A k \in 1 .. B : buffer'[k] = buffer[k]
      /\ \A k \in 1 .. n : buffer'[B + k] = stream[k]
  BY GrowsIs
<1>4. \A m \in DOMAIN parsed : parsed[m] = Body(m)
  BY DEF WholeInv, ParsedWhole, Long
<1>5. ASSUME NEW k \in DOMAIN buffer' PROVE buffer'[k] = <<P + 1, k>>
  <2>0. DOMAIN buffer' = 1 .. B + n /\ DOMAIN buffer = 1 .. B
    <3>1. buffer \in Seq(Text)
      BY DEF TypeOK, Text
    <3> QED
      BY <1>3, <3>1
  <2>1. CASE k <= B
    <3>1. k \in 1 .. B
      BY <1>1, <1>3, <2>0, <2>1
    <3>2. buffer[k] = <<P + 1, k>>
      BY <2>0, <3>1 DEF WholeInv, ParsedWhole, Long
    <3> QED
      BY <1>3, <3>1, <3>2
  <2>2. CASE ~(k <= B)
    <3>1. k - B \in 1 .. n /\ B + (k - B) = k
      BY <1>1, <1>3, <2>0, <2>2
    <3>2. stream[k - B] = <<P + 1, B + (k - B)>>
      BY <1>1, <1>2, <3>1, GoesOnText
    <3> QED
      BY <1>3, <3>1, <3>2
  <2> QED
    BY <2>1, <2>2
<1>6. CASE n < L
  <2>0. L \in Nat /\ n \in Nat /\ n >= 1
    BY <1>1
  <2>1. n + 1 \in 1 .. L /\ 1 \in 1 .. L - n /\ (n + 1) - 1 = n
    BY <1>6, <2>0
  <2>2. stream[n + 1][1] = P + 1 /\ Place(stream[n + 1]) = B + (n + 1)
    BY <1>2, <2>1, GoesOn
  <2>3. stream' # <<>> /\ stream'[1] = stream[n + 1] /\ B + (n + 1) = Len(buffer') + 1
    BY <1>1, <1>3, <2>1
  <2>4. Body(1)' = Body(1) /\ \A m \in DOMAIN parsed' : parsed'[m] = Body(m)
    BY <1>2, <1>4 DEF Body
  <2> QED
    BY <1>2, <1>4, <1>5, <2>2, <2>3 DEF ParsedWhole, Body, Place
<1>7. CASE ~(n < L)
  <2>1. n = L /\ stream' = <<>> /\ stream # <<>>
    BY <1>1, <1>7, EmptySeq
  <2>2. board # "up"
    BY <1>1, <1>2, <2>1 DEF WholeInv, Ends
  <2> QED
    BY <1>2, <1>4, <1>5, <2>1, <2>2 DEF ParsedWhole, Body
<1> QED
  BY <1>6, <1>7

\* What ends at the first newline is the next message, and it is handed on.
LEMMA PacketWhole ==
  ASSUME TypeOK, WholeInv, Long, NEW p \in 1 .. Len(stream), Newline(stream[p]),
         \A k \in 1 .. p - 1 : ~Newline(stream[k]),
         NEW t \in Seq(Text), Joined(t, p - 1), HandlePacket(t)
  PROVE  /\ Len(parsed) + 1 \in DOMAIN sizes
         /\ stream[p][1] = Len(parsed) + 1
         /\ parsed' = Append(parsed, Body(Len(parsed) + 1))
<1> DEFINE B == Len(buffer)
           m == Len(parsed) + 1
<1>1. /\ B \in Nat /\ p \in Nat /\ p >= 1 /\ Len(stream) \in Nat /\ p <= Len(stream)
      /\ p - 1 \in 0 .. Len(stream) /\ DOMAIN sizes = 1 .. Len(sizes)
  BY StreamBytes DEF TypeOK
<1>2. stream[p][1] = m /\ Place(stream[p]) = B + p
  BY GoesOn
<1>3. m \in DOMAIN sizes /\ sizes[m] = B + p /\ sizes[m] >= 2
  <2>1. m \in 1 .. Len(sizes) /\ sizes[m] = B + p
    BY <1>2, StreamBytes DEF Place
  <2> QED
    BY <1>1, <2>1, StreamBytes
<1>4. Len(t) = sizes[m] - 1 /\ Len(t) >= 1
  BY <1>1, <1>3 DEF Joined
<1>5. ASSUME NEW k \in 1 .. Len(t) PROVE t[k] = <<m, k>>
  <2>0. buffer \in Seq(Text) /\ DOMAIN buffer = 1 .. B
    BY DEF TypeOK, Text
  <2>1. CASE k <= B
    <3>1. k \in 1 .. B
      BY <1>1, <2>1
    <3>2. buffer[k] = <<m, k>>
      BY <2>0, <3>1 DEF WholeInv, ParsedWhole, Long
    <3> QED
      BY <3>1, <3>2 DEF Joined
  <2>2. CASE ~(k <= B)
    <3>1. k - B \in 1 .. p - 1 /\ B + (k - B) = k
      <4>1. Len(t) = B + (p - 1)
        BY DEF Joined
      <4> QED
        BY <1>1, <2>2, <4>1
    <3>2. stream[k - B] = <<m, B + (k - B)>>
      BY <1>1, <3>1, GoesOnText
    <3>3. t[B + (k - B)] = stream[k - B]
      BY <3>1 DEF Joined
    <3> QED
      BY <3>1, <3>2, <3>3
  <2> QED
    BY <2>1, <2>2
<1>6. t = Body(m)
  <2>1. t = [k \in 1 .. Len(t) |-> t[k]]
    BY LenProperties
  <2>2. t = [k \in 1 .. Len(t) |-> <<m, k>>]
    BY <1>5, <2>1
  <2> QED
    BY <1>4, <2>2 DEF Body
<1>7. t # <<>> /\ t[1][2] = 1
  <2>1. 1 \in 1 .. Len(t)
    BY <1>4
  <2>2. t[1] = <<m, 1>>
    BY <1>5, <2>1
  <2>3. t # <<>>
    BY <1>4, EmptySeq
  <2> QED
    BY <2>2, <2>3
<1>8. parsed' = Append(parsed, t)
  BY <1>3, <1>6, <1>7 DEF HandlePacket
<1> QED
  BY <1>2, <1>3, <1>6, <1>8

LEMMA SplitsWhole ==
  ASSUME TypeOK, WholeInv, Long, NEW n \in 1 .. Len(stream), n <= ChunkMax,
         NEW p \in Nat, NEW q \in Nat, Splits(n, p, q),
         stream' = SubSeq(stream, n + 1, Len(stream)), UNCHANGED <<board, sizes>>
  PROVE  ParsedWhole'
<1> DEFINE L == Len(stream)
           m == Len(parsed) + 1
<1>1. /\ L \in Nat /\ n \in Nat /\ n >= 1 /\ n <= L /\ Len(stream') = L - n
      /\ stream' \in Seq(Sent) /\ \A k \in 1 .. L - n : stream'[k] = stream[n + k]
  BY RecvTypes
<1>2. /\ p \in 1 .. n /\ Newline(stream[p])
      /\ \A k \in 1 .. p - 1 : ~Newline(stream[k])
      /\ q \in p + 1 .. n + 1 /\ (q <= n => Newline(stream[q]))
      /\ \A k \in p + 1 .. q - 1 : ~Newline(stream[k])
  BY DEF Splits
<1>3. PICK t \in Seq(Text) :
        /\ HandlePacket(t) /\ Joined(t, p - 1)
        /\ buffer' \in Seq(Text) /\ Len(buffer') = (q - 1) - p
        /\ \A k \in 1 .. (q - 1) - p : buffer'[k] = stream[p + k]
  BY SplitsIs DEF Joined
<1>4. /\ L \in Nat /\ n \in Nat /\ n >= 1 /\ n <= L /\ p >= 1 /\ p <= n /\ q > p /\ q <= n + 1
      /\ p \in 1 .. L /\ Len(parsed) \in Nat /\ ChunkMax \in Nat /\ n <= ChunkMax
      /\ DOMAIN sizes = 1 .. Len(sizes)
  <2>1. L \in Nat /\ n \in Nat /\ n >= 1 /\ n <= L /\ p \in 1 .. n /\ q \in p + 1 .. n + 1
    BY <1>1, <1>2
  <2>2. p >= 1 /\ p <= n /\ q > p /\ q <= n + 1 /\ p \in 1 .. L
    BY <2>1
  <2>3. Len(parsed) \in Nat /\ ChunkMax \in Nat /\ DOMAIN sizes = 1 .. Len(sizes)
    BY StreamBytes, OffloadAssumption DEF TypeOK
  <2> QED
    BY <2>1, <2>2, <2>3
<1>5. /\ m \in DOMAIN sizes /\ stream[p][1] = m
      /\ parsed' = Append(parsed, Body(m))
  BY <1>2, <1>3, <1>4, PacketWhole
\* The byte after the newline is the first of the next message.
<1>6. ASSUME p < L
      PROVE  /\ stream[p + 1][1] = m + 1 /\ stream[p + 1][2] = 1
             /\ Place(stream[p + 1]) = 1 /\ m + 1 \in DOMAIN sizes
  <2>1. p + 1 \in 1 .. L
    BY <1>4, <1>6
  <2>2. stream[p + 1][1] = stream[p][1] + 1 /\ stream[p + 1][2] = 1
    BY <1>2, <1>4, <2>1 DEF WholeInv, Follows
  <2>3. stream[p + 1][1] \in 1 .. Len(sizes)
    BY <2>1, StreamBytes
  <2> QED
    BY <1>4, <1>5, <2>2, <2>3 DEF Place, Newline
\* And up to the next newline the stream goes on from there.
<1>7. ASSUME NEW j \in p + 1 .. L, \A k \in p + 1 .. j - 1 : ~Newline(stream[k])
      PROVE  stream[j][1] = m + 1 /\ Place(stream[j]) = j - p
  <2>1. p < L
    BY <1>4
  <2>2. CASE j = p + 1
    BY <1>4, <1>6, <2>1, <2>2
  <2>3. CASE j # p + 1
    <3>1. p + 1 \in 1 .. L /\ j \in 1 .. L /\ p + 1 < j
      BY <1>4, <2>3
    <3>2. stream[j][1] = stream[p + 1][1] /\ Place(stream[j]) = Place(stream[p + 1]) + (j - (p + 1))
      BY <1>7, <3>1 DEF WholeInv, Runs
    <3> QED
      BY <1>4, <1>6, <2>1, <3>2
  <2> QED
    BY <2>2, <2>3
\* A second newline in the piece would end a message shorter than the piece.
<1>8. q = n + 1
  <2> SUFFICES ASSUME q # n + 1 PROVE FALSE
    OBVIOUS
  <2>1. q <= n /\ q \in p + 1 .. L /\ p < L
    BY <1>4
  <2>2. stream[q][1] = m + 1 /\ Place(stream[q]) = q - p /\ Newline(stream[q])
    BY <1>2, <1>7, <2>1
  <2>3. sizes[m + 1] = q - p
    BY <2>2 DEF Place
  <2>4. sizes[m + 1] >= ChunkMax
    BY <1>6, <2>1 DEF Long
  <2> QED
    BY <1>4, <2>1, <2>3, <2>4
<1>9. \A k \in p + 1 .. n : ~Newline(stream[k])
  BY <1>2, <1>4, <1>8
<1>10. ASSUME NEW k \in DOMAIN buffer' PROVE buffer'[k] = <<m + 1, k>>
  <2>1. k \in 1 .. n - p
    BY <1>3, <1>4, <1>8, LenProperties
  <2>2. p + k \in p + 1 .. L /\ p + k \in 1 .. L /\ p + k \in p + 1 .. n /\ (p + k) - p = k
    BY <1>4, <2>1
  <2>3. \A l \in p + 1 .. (p + k) - 1 : l \in p + 1 .. n
    BY <1>4, <2>1
  <2>4. stream[p + k][1] = m + 1 /\ Place(stream[p + k]) = k
    BY <1>7, <1>9, <2>2, <2>3
  <2>5. stream[p + k] = <<stream[p + k][1], stream[p + k][2]>>
    BY <2>2, StreamBytes
  <2>6. stream[p + k][2] = k
    BY <1>9, <2>2, <2>4 DEF Place
  <2>7. buffer'[k] = stream[p + k]
    BY <1>3, <1>4, <1>8, <2>1
  <2> QED
    BY <2>4, <2>5, <2>6, <2>7
<1>11. /\ Len(parsed') = m
       /\ \A l \in DOMAIN parsed' : parsed'[l] = Body(l)
  <2>1. parsed \in Seq(Seq(Text)) /\ Body(m) \in Seq(Text)
    <3>1. /\ sizes[m] \in Nat /\ sizes[m] >= 2 /\ sizes[m] <= LongLen /\ LongLen \in Nat
      <4>1. sizes[m] \in {LongLen, ShortLen}
        BY <1>4, <1>5, ElementOfSeq DEF TypeOK
      <4> QED
        BY <4>1, OffloadAssumption
    <3>2. sizes[m] - 1 \in Nat /\ \A k \in 1 .. sizes[m] - 1 : k \in 1 .. LongLen - 1
      BY <3>1
    <3>3. \A k \in 1 .. sizes[m] - 1 : <<m, k>> \in Text
      BY <1>5, <3>2 DEF Text
    <3>4. Body(m) \in [1 .. sizes[m] - 1 -> Text]
      BY <3>3 DEF Body
    <3>5. Body(m) \in Seq(Text)
      <4>1. \A k \in Nat : [1 .. k -> Text] \subseteq Seq(Text)
        BY SeqDef
      <4> HIDE DEF m
      <4> QED
        BY <3>2, <3>4, <4>1, Zenon
    <3>6. parsed \in Seq(Seq(Text))
      BY DEF TypeOK, Text
    <3> QED
      BY <3>5, <3>6
  <2>2. /\ Len(parsed') = Len(parsed) + 1 /\ DOMAIN parsed' = 1 .. Len(parsed) + 1
        /\ DOMAIN parsed = 1 .. Len(parsed)
        /\ \A k \in 1 .. Len(parsed) : parsed'[k] = parsed[k]
        /\ parsed'[Len(parsed) + 1] = Body(m)
    BY <1>5, <2>1, AppendProperties, LenProperties
  <2>3. \A l \in DOMAIN parsed : parsed[l] = Body(l)
    BY DEF WholeInv, ParsedWhole, Long
  <2>4. \A l \in 1 .. Len(parsed) + 1 : l \in 1 .. Len(parsed) \/ l = m
    BY <1>4
  <2> QED
    BY <2>2, <2>3, <2>4
<1>12. CASE n < L
  <2>1. n + 1 \in p + 1 .. L /\ 1 \in 1 .. L - n /\ p < L /\ (n + 1) - 1 = n
    BY <1>4, <1>12
  <2>2. stream[n + 1][1] = m + 1 /\ Place(stream[n + 1]) = (n + 1) - p
    BY <1>7, <1>9, <2>1
  <2>3. stream' # <<>> /\ stream'[1] = stream[n + 1]
    <3>1. stream'[1] = stream[n + 1]
      BY <1>1, <2>1
    <3>2. Len(stream') # 0
      BY <1>1, <1>4, <1>12
    <3> QED
      BY <3>1, <3>2, EmptySeq
  <2>4. (n + 1) - p = Len(buffer') + 1
    BY <1>3, <1>4, <1>8
  <2> QED
    BY <1>10, <1>11, <2>2, <2>3, <2>4 DEF ParsedWhole, Body, Place
<1>13. CASE ~(n < L)
  <2>1. n = L /\ stream' = <<>> /\ stream # <<>>
    BY <1>1, <1>4, <1>13, EmptySeq
  <2>2. ASSUME board = "up" PROVE m = Len(sizes) /\ buffer' = <<>>
    <3>1. stream[L][1] = Len(sizes) /\ Newline(stream[L])
      BY <2>1, <2>2 DEF WholeInv, Ends
    <3>2. p = L
      BY <1>4, <1>9, <2>1, <3>1
    <3>3. Len(buffer') = 0
      BY <1>3, <1>4, <1>8, <2>1, <3>2
    <3> QED
      BY <1>3, <1>5, <3>1, <3>2, <3>3, EmptySeq
  <2> QED
    BY <1>10, <1>11, <2>1, <2>2 DEF ParsedWhole, Body
<1> QED
  BY <1>4, <1>12, <1>13

LEMMA RecvWhole == TypeOK /\ WholeInv /\ Recv => WholeInv'
<1> SUFFICES ASSUME TypeOK, WholeInv, Recv PROVE WholeInv'
  OBVIOUS
<1>1. PICK n \in 1 .. Len(stream) :
        /\ n <= ChunkMax
        /\ stream' = SubSeq(stream, n + 1, Len(stream))
        /\ Grows(n) \/ \E p, q \in Nat : Splits(n, p, q)
  BY RecvIs
<1>2. UNCHANGED <<board, sizes>>
  BY DEF Recv
<1>3. ParsedWhole'
  <2>1. CASE Long
    BY <1>1, <1>2, <2>1, GrowsWhole, SplitsWhole
  <2>2. CASE ~Long
    BY <1>2, <2>2 DEF Long, ParsedWhole
  <2> QED
    BY <2>1, <2>2
<1> QED
  BY <1>3, RecvRuns DEF WholeInv

\* A message goes behind those on their way.
LEMMA SendsRuns ==
  ASSUME TypeOK, WholeInv, BoardSends
  PROVE  Runs' /\ Follows' /\ Ends'
<1> DEFINE m == Len(sizes) + 1
           L == Len(stream)
<1>1. PICK n \in {LongLen, ShortLen} :
        /\ n \in 2 .. LongLen
        /\ Len(sizes') = Len(sizes) + 1
        /\ \A k \in 1 .. Len(sizes) : sizes'[k] = sizes[k]
        /\ sizes'[m] = n
        /\ stream' \in Seq(Sent') /\ Len(stream') = L + n
        /\ \A k \in 1 .. L : stream'[k] = stream[k]
        /\ \A k \in 1 .. n - 1 : stream'[L + k] = <<m, k>>
        /\ stream'[L + n] = <<m, 0>>
  BY SendIs
<1>2. /\ L \in Nat /\ m \in Nat /\ n \in Nat /\ n >= 2
      /\ pc' = pc /\ listening' = listening /\ board = "up" /\ board' = board
  BY <1>1, OffloadAssumption DEF BoardSends, TypeOK
\* The bytes that were there are the same, and so are their places.
<1>3. ASSUME NEW k \in 1 .. L
      PROVE  stream'[k] = stream[k] /\ Place(stream[k])' = Place(stream[k])
  <2>1. stream'[k] = stream[k] /\ stream[k][1] \in 1 .. Len(sizes)
    BY <1>1, StreamBytes
  <2>2. sizes'[stream[k][1]] = sizes[stream[k][1]]
    BY <1>1, <2>1
  <2> QED
    BY <2>1, <2>2 DEF Place
\* The places of the new ones.
<1>4. ASSUME NEW k \in L + 1 .. L + n
      PROVE  /\ stream'[k][1] = m /\ Place(stream[k])' = k - L
             /\ Newline(stream'[k]) <=> k = L + n
             /\ k # L + n => stream'[k][2] = k - L
  <2>1. CASE k = L + n
    <3>1. stream'[k] = <<m, 0>> /\ sizes'[m] = k - L
      BY <1>1, <1>2, <2>1
    <3> QED
      BY <2>1, <3>1 DEF Place, Newline
  <2>2. CASE k # L + n
    <3>1. k - L \in 1 .. n - 1 /\ L + (k - L) = k /\ k - L # 0
      BY <1>2, <2>2
    <3>2. stream'[k] = <<m, k - L>>
      BY <1>1, <3>1
    <3> QED
      BY <2>2, <3>1, <3>2 DEF Place, Newline
  <2> QED
    BY <2>1, <2>2
<1>5. \A k \in 1 .. L + n : k \in 1 .. L \/ k \in L + 1 .. L + n
  BY <1>2
\* Between an old byte and a new one there is a newline.
<1>6. L # 0 => L \in 1 .. L /\ stream[L][1] = Len(sizes) /\ Newline(stream[L])
  <2>1. L # 0 => stream # <<>>
    OBVIOUS
  <2> QED
    BY <1>2, <2>1 DEF WholeInv, Ends
<1>7. Runs'
  <2> SUFFICES ASSUME NEW i \in 1 .. L + n, NEW j \in 1 .. L + n, i < j,
                      \A k \in i .. j - 1 : ~Newline(stream'[k])
               PROVE  /\ stream'[j][1] = stream'[i][1]
                      /\ Place(stream[j])' = Place(stream[i])' + (j - i)
    BY <1>1 DEF Runs
  <2>1. CASE j \in 1 .. L
    <3>1. i \in 1 .. L /\ \A k \in i .. j - 1 : k \in 1 .. L
      BY <1>2, <2>1
    <3>2. \A k \in i .. j - 1 : ~Newline(stream[k])
      BY <1>3, <3>1
    <3>3. /\ stream[j][1] = stream[i][1]
          /\ Place(stream[j]) = Place(stream[i]) + (j - i)
      BY <2>1, <3>1, <3>2 DEF WholeInv, Runs
    <3> QED
      BY <1>3, <2>1, <3>1, <3>3
  <2>2. CASE j \in L + 1 .. L + n /\ i \in 1 .. L
    <3>1. L # 0 /\ L \in i .. j - 1 /\ L \in 1 .. L
      BY <1>2, <2>2
    <3> QED
      BY <1>3, <1>6, <3>1
  <2>3. CASE j \in L + 1 .. L + n /\ i \in L + 1 .. L + n
    <3>1. /\ stream'[j][1] = m /\ stream'[i][1] = m
          /\ Place(stream[j])' = j - L /\ Place(stream[i])' = i - L
      BY <1>4, <2>3
    <3>2. j - L = (i - L) + (j - i)
      BY <1>2
    <3> QED
      BY <3>1, <3>2
  <2> QED
    BY <1>5, <2>1, <2>2, <2>3
<1>8. Follows'
  <2> SUFFICES ASSUME NEW i \in 1 .. L + n, NEW j \in 1 .. L + n,
                      j = i + 1, Newline(stream'[i])
               PROVE  stream'[j][1] = stream'[i][1] + 1 /\ stream'[j][2] = 1
    BY <1>1 DEF Follows
  <2>1. CASE j \in 1 .. L
    <3>1. i \in 1 .. L
      BY <1>2, <2>1
    <3>2. Newline(stream[i])
      BY <1>3, <3>1
    <3>3. stream[j][1] = stream[i][1] + 1 /\ stream[j][2] = 1
      BY <2>1, <3>1, <3>2 DEF WholeInv, Follows
    <3> QED
      BY <1>3, <2>1, <3>1, <3>3
  <2>2. CASE i = L
    <3>1. L # 0 /\ j \in L + 1 .. L + n /\ j # L + n /\ j - L = 1
      BY <1>2, <2>2
    <3>2. stream'[j][1] = m /\ stream'[j][2] = 1
      BY <1>4, <3>1
    <3>3. stream'[i][1] = Len(sizes)
      BY <1>3, <1>6, <2>2, <3>1
    <3> QED
      BY <3>2, <3>3
  <2>3. CASE i \in L + 1 .. L + n
    <3>1. i = L + n
      BY <1>4, <2>3
    <3> QED
      BY <1>2, <3>1
  <2> QED
    BY <1>2, <2>1, <2>2, <2>3
<1>9. Ends'
  <2>1. ~(pc = "bind" \/ (pc = "accept" /\ listening))
    BY <1>2 DEF WholeInv, Ends
  <2>2. L + n \in L + 1 .. L + n
    BY <1>2
  <2>3. stream'[L + n][1] = m /\ Newline(stream'[L + n])
    BY <1>4, <2>2
  <2> QED
    BY <1>1, <1>2, <2>1, <2>3 DEF Ends
<1> QED
  BY <1>7, <1>8, <1>9

LEMMA SendsWhole == TypeOK /\ WholeInv /\ BoardSends => WholeInv'
<1> SUFFICES ASSUME TypeOK, WholeInv, BoardSends PROVE WholeInv'
  OBVIOUS
<1> DEFINE m == Len(sizes) + 1
           L == Len(stream)
<1>1. PICK n \in {LongLen, ShortLen} :
        /\ n \in 2 .. LongLen
        /\ DOMAIN sizes' = 1 .. m /\ DOMAIN sizes = 1 .. Len(sizes)
        /\ \A k \in 1 .. Len(sizes) : sizes'[k] = sizes[k]
        /\ stream' \in Seq(Sent') /\ Len(stream') = L + n
        /\ \A k \in 1 .. L : stream'[k] = stream[k]
        /\ \A k \in 1 .. n - 1 : stream'[L + k] = <<m, k>>
  BY SendIs
<1>2. /\ L \in Nat /\ m \in Nat /\ n \in Nat /\ n >= 2 /\ m = Len(sizes) + 1
      /\ UNCHANGED <<buffer, parsed>> /\ board = "up"
      /\ Len(parsed) \in Nat /\ DOMAIN parsed = 1 .. Len(parsed) /\ Len(sizes) \in Nat
      /\ Len(buffer) \in Nat
  BY <1>1, OffloadAssumption DEF BoardSends, TypeOK
<1>3. ASSUME Long' PROVE ParsedWhole'
  <2>1. Long
    BY <1>1, <1>2, <1>3 DEF Long
  <2>2. /\ \A k \in DOMAIN parsed : parsed[k] = Body(k)
        /\ \A k \in DOMAIN buffer : buffer[k] = <<Len(parsed) + 1, k>>
        /\ stream # <<>> => stream[1][1] = Len(parsed) + 1 /\ Place(stream[1]) = Len(buffer) + 1
        /\ stream = <<>> => Len(parsed) = Len(sizes) /\ buffer = <<>>
    BY <1>2, <2>1 DEF WholeInv, ParsedWhole, Long
  <2>3. Len(parsed) <= Len(sizes) /\ stream' # <<>>
    <3>1. Len(parsed) <= Len(sizes)
      <4>1. CASE stream # <<>>
        <5>1. 1 \in 1 .. L
          BY <1>2, <4>1 DEF TypeOK
        <5>2. stream[1][1] \in 1 .. Len(sizes)
          BY <5>1, StreamBytes
        <5> QED
          BY <1>2, <2>2, <4>1, <5>2
      <4> QED
        BY <1>2, <2>2, <4>1
    <3>2. Len(stream') # 0
      BY <1>1, <1>2
    <3> QED
      BY <3>1, <3>2
  <2>4. \A k \in DOMAIN parsed : Body(k)' = Body(k)
    <3>1. \A k \in DOMAIN parsed : k \in 1 .. Len(sizes)
      BY <1>2, <2>3
    <3> QED
      BY <1>1, <3>1 DEF Body
  <2>5. stream'[1][1] = Len(parsed) + 1 /\ Place(stream[1])' = Len(buffer) + 1
    <3>1. CASE stream # <<>>
      <4>1. 1 \in 1 .. L
        BY <1>2, <3>1 DEF TypeOK
      <4>2. stream[1][1] \in 1 .. Len(sizes) /\ stream'[1] = stream[1]
        BY <1>1, <4>1, StreamBytes
      <4>3. sizes'[stream[1][1]] = sizes[stream[1][1]]
        BY <1>1, <4>2
      <4> QED
        BY <2>2, <3>1, <4>2, <4>3 DEF Place
    <3>2. CASE stream = <<>>
      <4>1. L = 0 /\ 1 \in 1 .. n - 1 /\ L + 1 = 1
        BY <1>2, <3>2
      <4>2. stream'[1] = <<m, 1>>
        BY <1>1, <4>1
      <4>3. buffer = <<>> /\ Len(buffer) = 0 /\ m = Len(parsed) + 1
        BY <1>2, <2>2, <3>2
      <4> QED
        BY <4>2, <4>3 DEF Place, Newline
    <3> QED
      BY <3>1, <3>2
  <2> QED
    BY <1>2, <2>2, <2>3, <2>4, <2>5 DEF ParsedWhole
<1>4. ParsedWhole'
  BY <1>3 DEF Long, ParsedWhole
<1> QED
  BY <1>4, SendsRuns DEF WholeInv

LEMMA LeavesWhole == TypeOK /\ WholeInv /\ BoardLeaves => WholeInv'
<1> SUFFICES ASSUME TypeOK, WholeInv, BoardLeaves PROVE WholeInv'
  OBVIOUS
<1>1. /\ UNCHANGED <<pc, listening, buffer, parsed, sizes>>
      /\ board = "up" /\ board' = "down"
  BY DEF BoardLeaves
<1>2. PICK n \in 0 .. Len(stream) :
        /\ Len(stream) \in Nat /\ Len(stream') = n /\ stream' \in Seq(Sent)
        /\ \A k \in 1 .. n : stream'[k] = stream[k]
  BY LeaveIs
<1>3. n \in Nat /\ \A k \in 1 .. Len(stream') : k \in 1 .. Len(stream) /\ stream'[k] = stream[k]
  BY <1>2
<1>4. Runs'
  <2> SUFFICES ASSUME NEW i \in 1 .. Len(stream'), NEW j \in 1 .. Len(stream'), i < j,
                      \A k \in i .. j - 1 : ~Newline(stream'[k])
               PROVE  /\ stream'[j][1] = stream'[i][1]
                      /\ Place(stream'[j]) = Place(stream'[i]) + (j - i)
    BY <1>1 DEF Runs, Place
  <2>1. \A k \in i .. j - 1 : k \in 1 .. Len(stream')
    BY <1>2, <1>3
  <2>2. \A k \in i .. j - 1 : ~Newline(stream[k])
    BY <1>3, <2>1
  <2> QED
    BY <1>3, <2>2 DEF WholeInv, Runs
<1>5. Follows'
  <2> SUFFICES ASSUME NEW i \in 1 .. Len(stream'), NEW j \in 1 .. Len(stream'),
                      j = i + 1, Newline(stream'[i])
               PROVE  stream'[j][1] = stream'[i][1] + 1 /\ stream'[j][2] = 1
    BY DEF Follows
  <2>1. Newline(stream[i])
    BY <1>3
  <2>2. stream[j][1] = stream[i][1] + 1 /\ stream[j][2] = 1
    BY <1>3, <2>1 DEF WholeInv, Follows
  <2> QED
    BY <1>3, <2>2
<1>6. Ends'
  BY <1>1 DEF WholeInv, Ends
<1>7. ParsedWhole'
  <2>1. stream' # <<>> => stream # <<>> /\ stream'[1] = stream[1]
    <3>1. ASSUME stream' # <<>> PROVE 1 \in 1 .. Len(stream')
      BY <1>2, <3>1
    <3> QED
      BY <1>3, <3>1
  <2> QED
    BY <1>1, <2>1 DEF WholeInv, ParsedWhole, Body, Place
<1> QED
  BY <1>4, <1>5, <1>6, <1>7 DEF WholeInv

LEMMA NextWhole == TypeOK /\ WholeInv /\ [Next]_vars => WholeInv'
<1> SUFFICES ASSUME TypeOK, WholeInv, [Next]_vars PROVE WholeInv'
  OBVIOUS
<1>1. CASE Recv
  BY <1>1, RecvWhole
<1>2. CASE BoardSends
  BY <1>2, SendsWhole
<1>3. CASE BoardLeaves
  BY <1>3, LeavesWhole
<1>4. CASE Bind \/ AcceptRaises \/ RecvEnd \/ UNCHANGED vars
  <2>1. UNCHANGED <<board, stream, buffer, parsed, sizes>>
    BY <1>4 DEF Bind, AcceptRaises, RecvEnd, vars
  <2>2. Ends'
    BY <1>4, <2>1 DEF Bind, AcceptRaises, RecvEnd, CloseSocket, vars, WholeInv, Ends
  <2>3. Runs' /\ Follows' /\ ParsedWhole'
    BY <2>1 DEF WholeInv, Runs, Follows, ParsedWhole, Body, Place
  <2> QED
    BY <2>2, <2>3 DEF WholeInv
<1>5. CASE Accept
  <2>1. /\ UNCHANGED <<stream, buffer, parsed, sizes>> /\ pc' = "recv"
        /\ sizes = <<>> /\ stream = <<>> /\ buffer = <<>> /\ parsed = <<>>
    BY <1>5 DEF Accept, WholeInv, Ends
  <2> QED
    BY <2>1 DEF WholeInv, Runs, Follows, Ends, ParsedWhole
<1> QED
  BY <1>1, <1>2, <1>3, <1>4, <1>5 DEF Next, Thread

\* While no message is shorter than what recv may return, the parser is given every
\* message whole and in order however recv cuts the stream (renderer.py:153-161).
THEOREM MessagesAreWhole == Spec => []ParsedWhole
<1>1. Init => TypeOK /\ WholeInv
  BY InitType, InitWhole
<1>2. TypeOK /\ WholeInv /\ [Next]_vars => (TypeOK /\ WholeInv)'
  BY NextType, NextWhole
<1>3. TypeOK /\ WholeInv => ParsedWhole
  BY DEF WholeInv
<1> QED
  BY <1>1, <1>2, <1>3, PTL DEF Spec

=============================================================================
