----------------------------- MODULE ReceiveProofs -----------------------------
(***************************************************************************)
(* What a peer of the torrent client receives, for every torrent, every    *)
(* capacity of the ring, every way of cutting the connection into reads    *)
(* and every sequence of messages a remote may send: the ring is a queue   *)
(* of the bytes of the connection, and the messages handled are the ones   *)
(* sent, in order, none left behind.                                       *)
(*                                                                         *)
(* The bytes of a message are those Encode gives it; the parser, shown     *)
(* some or all of them, waits, finds that very message, or rejects it      *)
(* (MessageParsed).  StreamInv says where in the connection the parser is, *)
(* which makes that the step of the refinement.                            *)
(***************************************************************************)
EXTENDS Receive, MetainfoProofs, RingProofs

USE ReadLengthAssumption, RingCapAssumption DEF Slots

Byte == 0 .. 255

-----------------------------------------------------------------------------
(* Bytes, and the encoding of a message. *)

\* Sequence j is the m bytes of s and then the n bytes of t.
Joins(j, s, t, m, n) ==
    /\ j \in Seq(Byte)
    /\ Len(j) = m + n
    /\ \A i \in 1 .. m : j[i] = s[i]
    /\ \A i \in 1 .. n : j[m + i] = t[i]

\* Concatenation gives just that.
LEMMA Joined ==
    ASSUME NEW s \in Seq(Byte), NEW t \in Seq(Byte)
    PROVE  Joins(s \o t, s, t, Len(s), Len(t))
  <1> DEFINE n == Len(t)
             m == Len(s)
             j == s \o t
  <1>1. n \in Nat /\ m \in Nat
    OBVIOUS
  <1>2. /\ j \in Seq(Byte)
        /\ Len(j) = m + n
        /\ \A i \in 1 .. m + n : j[i] = IF i <= m THEN s[i] ELSE t[i - m]
    BY ConcatProperties
  <1> HIDE DEF n, m, j
  <1>3. ASSUME NEW i \in 1 .. m
        PROVE  j[i] = s[i]
    <2>1. i \in 1 .. m + n /\ i <= m
      BY <1>1
    <2> QED
      BY <1>2, <2>1, Zenon
  <1>4. ASSUME NEW i \in 1 .. n
        PROVE  j[m + i] = t[i]
    <2>1. m + i \in 1 .. m + n /\ ~(m + i <= m) /\ (m + i) - m = i
      BY <1>1
    <2>2. j[m + i] = t[(m + i) - m]
      BY <1>2, <2>1, Zenon
    <2> QED
      BY <2>1, <2>2, Zenon
  <1>5. Joins(j, s, t, m, n)
    BY <1>2, <1>3, <1>4 DEF Joins
  <1> QED
    BY <1>5 DEF n, m, j

\* Four bytes make a number.
LEMMA BigEndianIsNumber ==
    ASSUME NEW a \in Byte, NEW b \in Byte, NEW c \in Byte, NEW d \in Byte
    PROVE  BigEndian(a, b, c, d) \in Nat
  BY DEF Byte, BigEndian

\* htonl and ntohl are inverse to each other.
LEMMA NumberOfBytes ==
    ASSUME NEW x \in Nat, FourBytes(x)
    PROVE  /\ U32Bytes(x) \in Seq(Byte)
           /\ Len(U32Bytes(x)) = 4
           /\ BigEndian(U32Bytes(x)[1], U32Bytes(x)[2], U32Bytes(x)[3], U32Bytes(x)[4]) = x
  <1> DEFINE a == x \div 16777216
             b == (x \div 65536) % 256
             c == (x \div 256) % 256
             d == x % 256
  <1>1. a \in Byte /\ b \in Byte /\ c \in Byte /\ d \in Byte
    BY DEF FourBytes, Byte
  <1>2. 256 * (256 * (256 * a + b)) + (256 * c + d) = x
    <2>1. x = 256 * (x \div 256) + d /\ x \div 256 \in Nat
      OBVIOUS
    <2>2. x \div 256 = 256 * (x \div 65536) + c /\ x \div 65536 \in Nat
      OBVIOUS
    <2>3. x \div 65536 = 256 * (x \div 16777216) + b /\ x \div 16777216 \in Nat
      OBVIOUS
    <2> QED
      BY <2>1, <2>2, <2>3
  <1>3. U32Bytes(x) = <<a, b, c, d>>
    BY DEF U32Bytes
  <1> HIDE DEF a, b, c, d
  <1> QED
    BY <1>1, <1>2, <1>3 DEF BigEndian

\* Numbers that the model puts into four bytes.
LEMMA SmallNumbers ==
    /\ \A x \in 0 .. Word - 1 : x \in Nat /\ FourBytes(x)
    /\ \A x \in 0 .. MaxMessageLength : x \in Nat /\ FourBytes(x)
  BY LimitsAssumption, WordAssumption DEF FourBytes

\* The length of a message, its tag, and what it says.
IsFramed(e, tag, body) ==
    /\ e \in Seq(Byte)
    /\ Len(e) = 5 + Len(body)
    /\ BigEndian(e[1], e[2], e[3], e[4]) = 1 + Len(body)
    /\ e[5] = tag
    /\ \A i \in 1 .. Len(body) : e[5 + i] = body[i]

\* The bytes that Framed gives a message, when they are not too many.
LEMMA FramedBytes ==
    ASSUME NEW tag \in Byte, NEW body \in Seq(Byte), 1 + Len(body) <= MaxMessageLength
    PROVE  IsFramed(Framed(tag, body), tag, body)
  <1> DEFINE n == Len(body)
             l == U32Bytes(1 + n)
             f == l \o <<tag>>
             e == f \o body
  <1>1. n \in Nat /\ 1 + n \in 0 .. MaxMessageLength
    BY LimitsAssumption
  <1>2. l \in Seq(Byte) /\ Len(l) = 4 /\ BigEndian(l[1], l[2], l[3], l[4]) = 1 + n
    BY <1>1, SmallNumbers, NumberOfBytes
  <1> HIDE DEF l
  <1>3. <<tag>> \in Seq(Byte) /\ Len(<<tag>>) = 1 /\ <<tag>>[1] = tag
    OBVIOUS
  <1>4. Joins(f, l, <<tag>>, 4, 1)
    BY <1>2, <1>3, Joined
  <1> HIDE DEF f
  <1>5. /\ f \in Seq(Byte) /\ Len(f) = 5
        /\ f[1] = l[1] /\ f[2] = l[2] /\ f[3] = l[3] /\ f[4] = l[4] /\ f[5] = tag
    <2>1. f[4 + 1] = <<tag>>[1]
      BY <1>4 DEF Joins
    <2> QED
      BY <1>3, <1>4, <2>1 DEF Joins
  <1>6. Joins(e, f, body, 5, n)
    BY <1>5, Joined
  <1> HIDE DEF e
  <1>7. /\ e \in Seq(Byte) /\ Len(e) = 5 + n
        /\ e[1] = f[1] /\ e[2] = f[2] /\ e[3] = f[3] /\ e[4] = f[4] /\ e[5] = f[5]
        /\ \A i \in 1 .. n : e[5 + i] = body[i]
    BY <1>6 DEF Joins
  <1>8. Framed(tag, body) = e
    BY DEF Framed, e, f, l
  <1>9. IsFramed(e, tag, body)
    BY <1>2, <1>5, <1>7 DEF IsFramed
  <1> QED
    BY <1>8, <1>9

\* Two numbers, and what follows them.
StartsWith(b, x, y, rest) ==
    /\ b \in Seq(Byte)
    /\ Len(b) = 8 + Len(rest)
    /\ BigEndian(b[1], b[2], b[3], b[4]) = x
    /\ BigEndian(b[5], b[6], b[7], b[8]) = y
    /\ \A i \in 1 .. Len(rest) : b[8 + i] = rest[i]

\* A request or a piece begins with its index and its offset.
LEMMA TwoNumbers ==
    ASSUME NEW x \in 0 .. Word - 1, NEW y \in 0 .. Word - 1, NEW rest \in Seq(Byte)
    PROVE  StartsWith(U32Bytes(x) \o U32Bytes(y) \o rest, x, y, rest)
  <1> DEFINE p == U32Bytes(x)
             q == U32Bytes(y)
             pq == p \o q
             b == pq \o rest
             n == Len(rest)
  <1>1. /\ p \in Seq(Byte) /\ Len(p) = 4 /\ BigEndian(p[1], p[2], p[3], p[4]) = x
        /\ q \in Seq(Byte) /\ Len(q) = 4 /\ BigEndian(q[1], q[2], q[3], q[4]) = y
        /\ n \in Nat
    BY SmallNumbers, NumberOfBytes
  <1> HIDE DEF p, q
  <1>2. Joins(pq, p, q, 4, 4)
    BY <1>1, Joined
  <1> HIDE DEF pq
  <1>3. /\ pq \in Seq(Byte) /\ Len(pq) = 8
        /\ pq[1] = p[1] /\ pq[2] = p[2] /\ pq[3] = p[3] /\ pq[4] = p[4]
        /\ pq[5] = q[1] /\ pq[6] = q[2] /\ pq[7] = q[3] /\ pq[8] = q[4]
    <2>1. /\ pq[4 + 1] = q[1] /\ pq[4 + 2] = q[2] /\ pq[4 + 3] = q[3] /\ pq[4 + 4] = q[4]
      BY <1>2 DEF Joins
    <2> QED
      BY <1>2, <2>1 DEF Joins
  <1>4. Joins(b, pq, rest, 8, n)
    BY <1>3, Joined
  <1> HIDE DEF b
  <1>5. /\ b \in Seq(Byte) /\ Len(b) = 8 + n
        /\ b[1] = pq[1] /\ b[2] = pq[2] /\ b[3] = pq[3] /\ b[4] = pq[4]
        /\ b[5] = pq[5] /\ b[6] = pq[6] /\ b[7] = pq[7] /\ b[8] = pq[8]
        /\ \A i \in 1 .. n : b[8 + i] = rest[i]
    BY <1>4 DEF Joins
  <1>6. U32Bytes(x) \o U32Bytes(y) \o rest = b
    BY DEF b, pq, p, q
  <1>7. StartsWith(b, x, y, rest)
    BY <1>1, <1>3, <1>5 DEF StartsWith
  <1> QED
    BY <1>6, <1>7

\* A number on its own.
LEMMA OneNumber ==
    ASSUME NEW x \in 0 .. Word - 1
    PROVE  LET b == U32Bytes(x)
           IN  b \in Seq(Byte) /\ Len(b) = 4 /\ BigEndian(b[1], b[2], b[3], b[4]) = x
  BY SmallNumbers, NumberOfBytes

-----------------------------------------------------------------------------
(* What a message looks like. *)

USE DEF FlagTags, PT_HAVE, PT_BITFIELD, PT_REQUEST, PT_PIECE, PT_CANCEL

\* The messages that are a tag alone.
FlagKinds == {"choke", "unchoke", "interested", "uninterested"}

\* Every flag has a tag of its own.
LEMMA FlagHasTag ==
    ASSUME NEW kind \in FlagKinds
    PROVE  /\ (CHOOSE tag \in FlagTags : Flag(tag) = kind) \in FlagTags
           /\ Flag(CHOOSE tag \in FlagTags : Flag(tag) = kind) = kind
  <1>1. /\ 0 \in FlagTags /\ 1 \in FlagTags /\ 2 \in FlagTags /\ 3 \in FlagTags
        /\ Flag(0) = "choke" /\ Flag(1) = "unchoke" /\ Flag(2) = "interested" /\ Flag(3) = "uninterested"
    BY DEF Flag
  <1>2. \E tag \in FlagTags : Flag(tag) = kind
    BY <1>1 DEF FlagKinds
  <1> QED
    BY <1>2

\* A flag is its tag and nothing else.
LEMMA EncodeFlag ==
    ASSUME NEW m, m.kind \in FlagKinds
    PROVE  \E tag \in FlagTags : Flag(tag) = m.kind /\ Encode(m) = Framed(tag, <<>>)
  <1>1. Encode(m) = Framed(CHOOSE tag \in FlagTags : Flag(tag) = m.kind, <<>>)
    BY DEF Encode, FlagKinds
  <1> QED
    BY <1>1, FlagHasTag

\* The case of Encode for each other kind of message.
LEMMA EncodeOther ==
    ASSUME NEW m
    PROVE  /\ m.kind = "heartbeat" => Encode(m) = U32Bytes(0)
           /\ m.kind = "have" => Encode(m) = Framed(PT_HAVE, U32Bytes(m.have))
           /\ m.kind = "bitfield" => Encode(m) = Framed(PT_BITFIELD, BitfieldBytes(m.pieces))
           /\ m.kind = "request" =>
                 Encode(m) = Framed(PT_REQUEST, U32Bytes(m.index) \o U32Bytes(m.begin) \o U32Bytes(m.length))
           /\ m.kind = "cancel" =>
                 Encode(m) = Framed(PT_CANCEL, U32Bytes(m.index) \o U32Bytes(m.begin) \o U32Bytes(m.length))
           /\ m.kind = "piece" =>
                 Encode(m) = Framed(PT_PIECE, U32Bytes(m.index) \o U32Bytes(m.begin) \o m.data)
           /\ m.kind = "raw" => Encode(m) = m.bytes
  BY DEF Encode

-----------------------------------------------------------------------------
(* The torrent. *)

\* The torrent of this module is one that the lemmas on geometry are about.
LEMMA TorrentIsWellFormed ==
    /\ WellFormed(M)
    /\ M.pieces_count \in Nat \ {0}
    /\ M.pieces_count < Word
    /\ M.piece_length = PieceLength
  <1>1. WellFormed(M)
    BY TorrentAssumption DEF WellFormed, M
  <1>2. M.pieces_count = CeilDiv(Length, PieceLength) /\ M.piece_length = PieceLength
    BY DEF M, metainfo_init
  <1>3. M.pieces_count \in Nat \ {0}
    BY <1>1, LastPiece
  <1> QED
    BY <1>1, <1>2, <1>3, TorrentAssumption

\* A byte from its bits.
Weighted(c0, c1, c2, c3, c4, c5, c6, c7) ==
    BitWeight[1] * c0 + BitWeight[2] * c1 + BitWeight[3] * c2 + BitWeight[4] * c3
    + BitWeight[5] * c4 + BitWeight[6] * c5 + BitWeight[7] * c6 + BitWeight[8] * c7

\* Byte s has these bits.
HasBits(s, c0, c1, c2, c3, c4, c5, c6, c7) ==
    /\ s \in Byte
    /\ Bit(s, 0) <=> c0 = 1
    /\ Bit(s, 1) <=> c1 = 1
    /\ Bit(s, 2) <=> c2 = 1
    /\ Bit(s, 3) <=> c3 = 1
    /\ Bit(s, 4) <=> c4 = 1
    /\ Bit(s, 5) <=> c5 = 1
    /\ Bit(s, 6) <=> c6 = 1
    /\ Bit(s, 7) <=> c7 = 1

\* The eight weights do not disturb each other.
LEMMA BitsOfSum ==
    ASSUME NEW c0 \in {0, 1}, NEW c1 \in {0, 1}, NEW c2 \in {0, 1}, NEW c3 \in {0, 1},
           NEW c4 \in {0, 1}, NEW c5 \in {0, 1}, NEW c6 \in {0, 1}, NEW c7 \in {0, 1}
    PROVE  HasBits(Weighted(c0, c1, c2, c3, c4, c5, c6, c7), c0, c1, c2, c3, c4, c5, c6, c7)
  <1> DEFINE s == 128 * c0 + 64 * c1 + 32 * c2 + 16 * c3 + 8 * c4 + 4 * c5 + 2 * c6 + 1 * c7
  <1>1. /\ BitWeight[1] = 128 /\ BitWeight[2] = 64 /\ BitWeight[3] = 32 /\ BitWeight[4] = 16
        /\ BitWeight[5] = 8 /\ BitWeight[6] = 4 /\ BitWeight[7] = 2 /\ BitWeight[8] = 1
    BY DEF BitWeight
  <1>2. s \in Byte
    BY DEF Byte
  <1>3. /\ s \div 128 = c0
        /\ s \div 64 = 2 * c0 + c1
        /\ s \div 32 = 2 * (2 * c0 + c1) + c2
        /\ s \div 16 = 2 * (4 * c0 + 2 * c1 + c2) + c3
        /\ s \div 8 = 2 * (8 * c0 + 4 * c1 + 2 * c2 + c3) + c4
        /\ s \div 4 = 2 * (16 * c0 + 8 * c1 + 4 * c2 + 2 * c3 + c4) + c5
        /\ s \div 2 = 2 * (32 * c0 + 16 * c1 + 8 * c2 + 4 * c3 + 2 * c4 + c5) + c6
        /\ s \div 1 = 2 * (64 * c0 + 32 * c1 + 16 * c2 + 8 * c3 + 4 * c4 + 2 * c5 + c6) + c7
    OBVIOUS
  <1>4. ASSUME NEW q \in Int, NEW c \in {0, 1}
        PROVE  (2 * q + c) % 2 = c
    OBVIOUS
  <1>5. /\ (s \div 128) % 2 = c0 /\ (s \div 64) % 2 = c1 /\ (s \div 32) % 2 = c2
        /\ (s \div 16) % 2 = c3 /\ (s \div 8) % 2 = c4 /\ (s \div 4) % 2 = c5
        /\ (s \div 2) % 2 = c6 /\ (s \div 1) % 2 = c7
    BY <1>3, <1>4
  <1>6. ASSUME NEW x
        PROVE  /\ Bit(x, 0) <=> (x \div 128) % 2 = 1
               /\ Bit(x, 1) <=> (x \div 64) % 2 = 1
               /\ Bit(x, 2) <=> (x \div 32) % 2 = 1
               /\ Bit(x, 3) <=> (x \div 16) % 2 = 1
               /\ Bit(x, 4) <=> (x \div 8) % 2 = 1
               /\ Bit(x, 5) <=> (x \div 4) % 2 = 1
               /\ Bit(x, 6) <=> (x \div 2) % 2 = 1
               /\ Bit(x, 7) <=> (x \div 1) % 2 = 1
    <2>1. 0 + 1 = 1 /\ 1 + 1 = 2 /\ 2 + 1 = 3 /\ 3 + 1 = 4 /\ 4 + 1 = 5 /\ 5 + 1 = 6 /\ 6 + 1 = 7 /\ 7 + 1 = 8
      OBVIOUS
    <2> QED
      BY <1>1, <2>1, SMT DEF Bit
  <1>7. Weighted(c0, c1, c2, c3, c4, c5, c6, c7) = s
    BY <1>1 DEF Weighted
  <1> HIDE DEF s
  <1>8. HasBits(s, c0, c1, c2, c3, c4, c5, c6, c7)
    BY <1>2, <1>5, <1>6 DEF HasBits
  <1> QED
    BY <1>7, <1>8, Zenon

\* Byte k of a bitfield has exactly the bits of its pieces.
LEMMA BitfieldBits ==
    ASSUME NEW pieces
    PROVE  LET n == CeilDiv(M.pieces_count, 8)
               e == BitfieldBytes(pieces)
           IN  /\ n \in Nat \ {0}
               /\ 8 * (n - 1) < M.pieces_count
               /\ M.pieces_count <= 8 * n
               /\ e \in Seq(Byte)
               /\ Len(e) = n
               /\ \A k \in 0 .. n - 1 : \A b \in 0 .. 7 :
                     Bit(e[k + 1], b) <=> 8 * k + b \in pieces
  <1> DEFINE n == CeilDiv(M.pieces_count, 8)
             bit(p) == IF p \in pieces THEN 1 ELSE 0
             byte(p) == Weighted(bit(p), bit(p + 1), bit(p + 2), bit(p + 3),
                                 bit(p + 4), bit(p + 5), bit(p + 6), bit(p + 7))
             e == BitfieldBytes(pieces)
  <1>1. n \in Nat \ {0} /\ 8 * (n - 1) < M.pieces_count /\ M.pieces_count <= 8 * n
    <2>1. 8 \in Nat \ {0}
      OBVIOUS
    <2>2. n \in Nat \ {0} /\ (n - 1) * 8 < M.pieces_count /\ M.pieces_count <= n * 8
      BY <2>1, TorrentIsWellFormed, RoundedUp
    <2> HIDE DEF n
    <2> QED
      BY <2>2
  <1>2. e = [k \in 1 .. n |-> byte(8 * (k - 1))]
    BY DEF BitfieldBytes, Weighted
  <1>3. ASSUME NEW p \in Nat
        PROVE  /\ byte(p) \in Byte
               /\ Bit(byte(p), 0) <=> p \in pieces
               /\ Bit(byte(p), 1) <=> p + 1 \in pieces
               /\ Bit(byte(p), 2) <=> p + 2 \in pieces
               /\ Bit(byte(p), 3) <=> p + 3 \in pieces
               /\ Bit(byte(p), 4) <=> p + 4 \in pieces
               /\ Bit(byte(p), 5) <=> p + 5 \in pieces
               /\ Bit(byte(p), 6) <=> p + 6 \in pieces
               /\ Bit(byte(p), 7) <=> p + 7 \in pieces
    <2>1. ASSUME NEW q
          PROVE  bit(q) \in {0, 1} /\ (bit(q) = 1 <=> q \in pieces)
      OBVIOUS
    <2> HIDE DEF bit
    <2>2. HasBits(byte(p), bit(p), bit(p + 1), bit(p + 2), bit(p + 3),
                  bit(p + 4), bit(p + 5), bit(p + 6), bit(p + 7))
      BY <2>1, BitsOfSum
    <2> HIDE DEF byte
    <2> QED
      BY <2>1, <2>2, Zenon DEF HasBits
  <1> HIDE DEF byte, bit, n, e
  <1>4. ASSUME NEW k \in 0 .. n - 1
        PROVE  e[k + 1] = byte(8 * k) /\ 8 * k \in Nat
    <2>1. k + 1 \in 1 .. n /\ (k + 1) - 1 = k /\ 8 * k \in Nat
      BY <1>1
    <2> QED
      BY <1>2, <2>1
  <1>5. ASSUME NEW k \in 0 .. n - 1, NEW b \in 0 .. 7
        PROVE  Bit(e[k + 1], b) <=> 8 * k + b \in pieces
    <2>1. b = 0 \/ b = 1 \/ b = 2 \/ b = 3 \/ b = 4 \/ b = 5 \/ b = 6 \/ b = 7
      OBVIOUS
    <2>2. 8 * k + 0 = 8 * k
      BY <1>1
    <2> QED
      BY <1>3, <1>4, <2>1, <2>2
  <1>6. ASSUME NEW k \in 1 .. n
        PROVE  byte(8 * (k - 1)) \in Byte
    <2>1. 8 * (k - 1) \in Nat
      BY <1>1
    <2> QED
      BY <1>3, <2>1
  <1>7. e \in [1 .. n -> Byte]
    BY <1>2, <1>6
  <1>8. e \in Seq(Byte) /\ Len(e) = n
    BY <1>1, <1>7
  <1> QED
    BY <1>1, <1>5, <1>8 DEF n, e

-----------------------------------------------------------------------------
(* The bytes of a connection. *)

\* Messages as StreamsAssumption lets a remote send them.
Sendable(m) ==
    /\ m \in Messages
    /\ FollowsProtocol(m) \/ (m.kind = "raw" /\ Malformed(m.bytes))

\* g is the first n + 1 entries of Wires.
Carries(g, n, first, messages) ==
    g = [k \in 0 .. n |-> IF k = 0 THEN first ELSE g[k - 1] \o Encode(messages[k])]

\* Wires is a function defined by recursion over the messages: it exists.
LEMMA WiresExist ==
    ASSUME NEW first, NEW messages, NEW n \in Nat
    PROVE  \E g : Carries(g, n, first, messages)
  <1> DEFINE S == {k \in Nat : \E g : Carries(g, k, first, messages)}
  <1>1. 0 \in S
    <2> DEFINE g == [k \in 0 .. 0 |-> first]
    <2>1. g = [k \in 0 .. 0 |-> IF k = 0 THEN first ELSE g[k - 1] \o Encode(messages[k])]
      <3>1. \A k \in 0 .. 0 : k = 0
        OBVIOUS
      <3> QED
        BY <3>1, Zenon
    <2>2. Carries(g, 0, first, messages)
      BY <2>1, Zenon DEF Carries
    <2> QED
      BY <2>2
  <1>2. ASSUME NEW k \in S
        PROVE  k + 1 \in S
    <2>1. k \in Nat
      OBVIOUS
    <2>2. PICK g : Carries(g, k, first, messages)
      OBVIOUS
    <2> HIDE DEF S
    <2> DEFINE next == g[k] \o Encode(messages[k + 1])
               h == [i \in 0 .. k + 1 |-> IF i = k + 1 THEN next ELSE g[i]]
    <2>3. ASSUME NEW i \in 0 .. k + 1
          PROVE  h[i] = IF i = 0 THEN first ELSE h[i - 1] \o Encode(messages[i])
      <3>1. CASE i = 0
        <4>1. 0 \in 0 .. k + 1 /\ 0 # k + 1 /\ 0 \in 0 .. k
          BY <2>1
        <4>2. h[0] = g[0]
          BY <4>1
        <4>3. g[0] = first
          <5> HIDE DEF h, next
          <5> QED
            BY <2>2, <4>1, Zenon DEF Carries
        <4> QED
          BY <3>1, <4>2, <4>3, Zenon
      <3>2. CASE i = k + 1
        <4>1. i # 0 /\ i - 1 = k /\ k \in 0 .. k + 1 /\ k # k + 1
          BY <2>1, <3>2
        <4>2. h[k] = g[k]
          BY <4>1
        <4>3. h[i] = next
          BY <3>2
        <4> QED
          BY <3>2, <4>1, <4>2, <4>3, Zenon
      <3>3. CASE i # 0 /\ i # k + 1
        <4>1. i \in 0 .. k /\ i - 1 \in 0 .. k + 1 /\ i - 1 # k + 1
          BY <2>1, <3>3
        <4>2. h[i] = g[i] /\ h[i - 1] = g[i - 1]
          BY <3>3, <4>1, Zenon
        <4>3. g[i] = g[i - 1] \o Encode(messages[i])
          <5> HIDE DEF h, next
          <5> QED
            BY <2>2, <3>3, <4>1, Zenon DEF Carries
        <4> QED
          BY <3>3, <4>2, <4>3, Zenon
      <3> QED
        BY <3>1, <3>2, <3>3
    <2>4. h = [i \in 0 .. k + 1 |-> h[i]]
      BY Zenon
    <2> HIDE DEF h
    <2>5. h = [i \in 0 .. k + 1 |-> IF i = 0 THEN first ELSE h[i - 1] \o Encode(messages[i])]
      BY <2>3, <2>4, Zenon
    <2>6. Carries(h, k + 1, first, messages)
      BY <2>5, Zenon DEF Carries
    <2> QED
      BY <2>1, <2>6 DEF S
  <1>3. S = Nat
    <2>1. S \in SUBSET Nat
      OBVIOUS
    <2> HIDE DEF S
    <2> QED
      BY <1>1, <1>2, <2>1, SetInduction
  <1> QED
    BY <1>3

\* What it says: the opening, and then one message after the other.
LEMMA WiresAre ==
    ASSUME NEW first, NEW messages \in Seq(Messages)
    PROVE  /\ Wires(first, messages)[0] = first
           /\ \A k \in 0 .. Len(messages) - 1 :
                 Wires(first, messages)[k + 1] = Wires(first, messages)[k] \o Encode(messages[k + 1])
  <1> DEFINE n == Len(messages)
             w == Wires(first, messages)
  <1>1. n \in Nat
    OBVIOUS
  <1>2. w = CHOOSE g : Carries(g, n, first, messages)
    BY DEF Wires, Carries
  <1> HIDE DEF w, n
  <1>3. \E g : Carries(g, n, first, messages)
    BY <1>1, WiresExist
  <1>4. Carries(w, n, first, messages)
    BY <1>2, <1>3, Zenon
  <1>5. w[0] = first
    <2>1. 0 \in 0 .. n
      BY <1>1
    <2> QED
      BY <1>4, <2>1, Zenon DEF Carries
  <1>6. ASSUME NEW k \in 0 .. n - 1
        PROVE  w[k + 1] = w[k] \o Encode(messages[k + 1])
    <2>1. k + 1 \in 0 .. n /\ k + 1 # 0 /\ (k + 1) - 1 = k
      BY <1>1
    <2>2. w[k + 1] = w[(k + 1) - 1] \o Encode(messages[k + 1])
      BY <1>4, <2>1, Zenon DEF Carries
    <2> QED
      BY <2>1, <2>2, Zenon
  <1> QED
    BY <1>5, <1>6 DEF w, n

-----------------------------------------------------------------------------
(* Messages. *)

\* What four bytes can hold.
Number == 0 .. Word - 1

\* The fields that a message of each kind has.
Formed(m) ==
    \/ m = [kind |-> "heartbeat"]
    \/ m.kind \in FlagKinds /\ m = [kind |-> m.kind]
    \/ /\ m.kind = "have" /\ m.have \in Number
       /\ m = [kind |-> "have", have |-> m.have]
    \/ /\ m.kind = "bitfield" /\ m.pieces \in SUBSET Pieces(M)
       /\ m = [kind |-> "bitfield", pieces |-> m.pieces]
    \/ /\ m.kind \in {"request", "cancel"}
       /\ m.index \in Number /\ m.begin \in Number /\ m.length \in Number
       /\ m = [kind |-> m.kind, index |-> m.index, begin |-> m.begin, length |-> m.length]
    \/ /\ m.kind = "piece"
       /\ m.index \in Number /\ m.begin \in Number /\ m.data \in Seq(Byte)
       /\ m = [kind |-> "piece", index |-> m.index, begin |-> m.begin, data |-> m.data]
    \/ m.kind = "raw" /\ m.bytes \in Seq(Byte)

\* A message has the fields of its kind and no others.
LEMMA MessageForms == ASSUME NEW m \in Messages PROVE Formed(m)
  <1>1. CASE m \in [kind : {"heartbeat", "choke", "unchoke", "interested", "uninterested"}]
    BY <1>1 DEF FlagKinds, Formed
  <1>2. CASE m \in [kind : {"have"}, have : 0 .. Word - 1]
    BY <1>2 DEF Number, Formed
  <1>3. CASE m \in [kind : {"bitfield"}, pieces : SUBSET Pieces(M)]
    BY <1>3 DEF Formed
  <1>4. CASE m \in [kind : {"request", "cancel"}, index : 0 .. Word - 1,
                    begin : 0 .. Word - 1, length : 0 .. Word - 1]
    BY <1>4 DEF Number, Formed
  <1>5. CASE m \in [kind : {"piece"}, index : 0 .. Word - 1, begin : 0 .. Word - 1, data : Seq(0 .. 255)]
    BY <1>5 DEF Number, Byte, Formed
  <1>6. CASE m \in [kind : {"raw"}, bytes : Seq(0 .. 255)]
    BY <1>6 DEF Byte, Formed
  <1> QED
    BY <1>1, <1>2, <1>3, <1>4, <1>5, <1>6 DEF Messages

-----------------------------------------------------------------------------
(* What the parser sees of a message at the front of the ring. *)

\* The bytes of the ring are the beginning of e, as far as either goes.
Shows(r, e) ==
    \A i \in 0 .. r.len - 1 : i < Len(e) => pg_ring_get(r, i) = e[i + 1]

\* Reading a byte, and a number, that the ring shows.
LEMMA ShownByte ==
    ASSUME NEW r \in Rings(Byte), NEW e \in Seq(Byte), Shows(r, e),
           NEW i \in Nat, i < r.len, i < Len(e)
    PROVE  pg_ring_get(r, i) = e[i + 1]
  BY RingFields DEF Shows

\* The same for four of them.
LEMMA ShownNumber ==
    ASSUME NEW r \in Rings(Byte), NEW e \in Seq(Byte), Shows(r, e),
           NEW i \in Nat, i + 4 <= r.len, i + 4 <= Len(e)
    PROVE  U32At(r, i) = BigEndian(e[i + 1], e[i + 2], e[i + 3], e[i + 4])
  <1>1. /\ i + 1 \in Nat /\ i + 2 \in Nat /\ i + 3 \in Nat
        /\ (i + 1) + 1 = i + 2 /\ (i + 2) + 1 = i + 3 /\ (i + 3) + 1 = i + 4
        /\ i < r.len /\ i + 1 < r.len /\ i + 2 < r.len /\ i + 3 < r.len
        /\ i < Len(e) /\ i + 1 < Len(e) /\ i + 2 < Len(e) /\ i + 3 < Len(e)
    <2> DEFINE l == r.len
               n == Len(e)
    <2>1. l \in Nat /\ n \in Nat /\ i + 4 <= l /\ i + 4 <= n
      BY RingFields
    <2> HIDE DEF l, n
    <2>2. /\ i + 1 \in Nat /\ i + 2 \in Nat /\ i + 3 \in Nat
          /\ (i + 1) + 1 = i + 2 /\ (i + 2) + 1 = i + 3 /\ (i + 3) + 1 = i + 4
          /\ i < l /\ i + 1 < l /\ i + 2 < l /\ i + 3 < l
          /\ i < n /\ i + 1 < n /\ i + 2 < n /\ i + 3 < n
      BY <2>1
    <2> QED
      BY <2>2, Zenon DEF l, n
  <1>2. /\ pg_ring_get(r, i) = e[i + 1] /\ pg_ring_get(r, i + 1) = e[i + 2]
        /\ pg_ring_get(r, i + 2) = e[i + 3] /\ pg_ring_get(r, i + 3) = e[i + 4]
    BY <1>1, ShownByte
  <1> QED
    BY <1>2 DEF U32At

\* A message that is not a heartbeat, from the two numbers in front of it.
ParsedFromHead(r, tag, announced_len) ==
    parse_message(r) =
        IF r.len < 4 THEN NeedMore(0)
        ELSE IF announced_len > MaxMessageLength THEN Rejected(0)
        ELSE IF r.len < 5 THEN NeedMore(0)
        ELSE IF tag \in FlagTags THEN Parsed([kind |-> Flag(tag)], 5)
        ELSE IF ~HasFittingLength(tag, announced_len) THEN Rejected(0)
        ELSE IF ~IsComplete(r, announced_len) THEN NeedMore(0)
        ELSE parse_body(r, tag, announced_len)

\* What parse_message does once it knows the length and the tag.
LEMMA ParseHead ==
    ASSUME NEW r \in Rings(Byte), NEW e \in Seq(Byte), Shows(r, e), Len(e) >= 5,
           NEW announced_len \in Nat, announced_len = BigEndian(e[1], e[2], e[3], e[4]),
           announced_len # 0
    PROVE  ParsedFromHead(r, e[5], announced_len)
  <1>1. r.len \in Nat /\ Len(e) \in Nat
    BY RingFields
  <1>2. CASE r.len < 4
    BY <1>2 DEF parse_message, ParsedFromHead
  <1>3. CASE ~(r.len < 4)
    <2>1. U32At(r, 0) = announced_len
      <3>1. 0 \in Nat /\ 0 + 4 <= r.len /\ 0 + 4 <= Len(e)
        BY <1>1, <1>3
      <3>2. U32At(r, 0) = BigEndian(e[0 + 1], e[0 + 2], e[0 + 3], e[0 + 4])
        BY <3>1, ShownNumber, Zenon
      <3> QED
        BY <3>2
    <2>2. ASSUME ~(r.len < 5)
          PROVE  pg_ring_get(r, 4) = e[5]
      <3>1. 4 \in Nat /\ 4 < r.len /\ 4 < Len(e) /\ 4 + 1 = 5
        BY <1>1, <2>2
      <3> QED
        BY <3>1, ShownByte
    <2>3. CASE r.len < 5
      BY <1>3, <2>1, <2>3 DEF parse_message, ParsedFromHead
    <2>4. CASE ~(r.len < 5)
      BY <1>3, <2>1, <2>2, <2>4 DEF parse_message, ParsedFromHead
    <2> QED
      BY <2>3, <2>4
  <1> QED
    BY <1>2, <1>3

\* What parsing a ring that begins with message m comes to: the message when
\* it is all there and follows the protocol, or else more bytes are needed, or
\* it is turned away, which no message is that honest remotes send.
Welcome(m) == FollowsProtocol(m) /\ M.pieces_count % 8 # 1

Outcome(r, m) ==
    \/ r.len < Len(Encode(m)) /\ parse_message(r) = NeedMore(0)
    \/ FollowsProtocol(m) /\ r.len >= Len(Encode(m)) /\ parse_message(r) = Parsed(m, Len(Encode(m)))
    \/ ~Welcome(m) /\ \E n : parse_message(r) = Rejected(n)

\* A heartbeat is the length 0.
LEMMA HeartbeatParsed ==
    ASSUME NEW r \in Rings(Byte), NEW m, m = [kind |-> "heartbeat"]
    PROVE  /\ Encode(m) \in Seq(Byte) /\ Len(Encode(m)) = 4
           /\ Shows(r, Encode(m)) => Outcome(r, m)
  <1> DEFINE e == Encode(m)
  <1>1. e = U32Bytes(0) /\ FollowsProtocol(m)
    BY DEF Encode, FollowsProtocol
  <1>2. 0 \in 0 .. Word - 1
    BY WordAssumption
  <1>3. e \in Seq(Byte) /\ Len(e) = 4 /\ BigEndian(e[1], e[2], e[3], e[4]) = 0
    BY <1>1, <1>2, OneNumber
  <1> HIDE DEF e
  <1>4. ASSUME Shows(r, e)
        PROVE  Outcome(r, m)
    <2>1. r.len \in Nat
      BY RingFields
    <2>2. CASE r.len < 4
      BY <1>3, <2>2 DEF Outcome, parse_message, e
    <2>3. CASE ~(r.len < 4)
      <3>1. 0 \in Nat /\ 0 + 4 <= r.len /\ 0 + 4 <= Len(e)
        BY <1>3, <2>1, <2>3
      <3>2. U32At(r, 0) = BigEndian(e[0 + 1], e[0 + 2], e[0 + 3], e[0 + 4])
        BY <1>3, <1>4, <3>1, ShownNumber
      <3>3. U32At(r, 0) = 0
        BY <1>3, <3>2
      <3>4. parse_message(r) = Parsed(m, 4) /\ r.len >= 4
        BY <2>1, <2>3, <3>3 DEF parse_message
      <3> QED
        BY <1>1, <1>3, <2>1, <2>3, <3>4, Zenon DEF Outcome, e
    <2> QED
      BY <2>2, <2>3
  <1> QED
    BY <1>3, <1>4 DEF e

\* choke, unchoke, interested, uninterested: five bytes, the tag the last one.
LEMMA FlagParsed ==
    ASSUME NEW r \in Rings(Byte), NEW m, m.kind \in FlagKinds, m = [kind |-> m.kind]
    PROVE  /\ Encode(m) \in Seq(Byte) /\ Len(Encode(m)) = 5
           /\ Shows(r, Encode(m)) => Outcome(r, m)
  <1> DEFINE e == Encode(m)
  <1>1. PICK tag \in FlagTags : Flag(tag) = m.kind /\ e = Framed(tag, <<>>)
    BY EncodeFlag
  <1>2. FollowsProtocol(m)
    BY DEF FollowsProtocol, FlagKinds
  <1> DEFINE body == <<>>
  <1>3. tag \in Byte /\ body \in Seq(Byte) /\ Len(body) = 0 /\ 1 + 0 <= MaxMessageLength
    BY LimitsAssumption DEF Byte
  <1> HIDE DEF body
  <1>4. IsFramed(Framed(tag, body), tag, body)
    BY <1>3, FramedBytes
  <1>6. e = Framed(tag, body)
    BY <1>1 DEF body
  <1>7. /\ e \in Seq(Byte) /\ Len(e) = 5 /\ BigEndian(e[1], e[2], e[3], e[4]) = 1 /\ e[5] = tag
    BY <1>3, <1>4, <1>6 DEF IsFramed
  <1> HIDE DEF e
  <1>5. ASSUME Shows(r, e)
        PROVE  Outcome(r, m)
    <2>1. r.len \in Nat /\ ~(1 > MaxMessageLength)
      BY RingFields, LimitsAssumption
    <2>2. parse_message(r) =
             IF r.len < 4 THEN NeedMore(0)
             ELSE IF r.len < 5 THEN NeedMore(0)
             ELSE Parsed([kind |-> Flag(tag)], 5)
      <3>1. 1 \in Nat /\ 1 # 0 /\ Len(e) >= 5
        BY <1>7
      <3>2. ParsedFromHead(r, e[5], 1)
        BY <1>7, <1>5, <3>1, ParseHead
      <3> QED
        BY <1>1, <1>7, <2>1, <3>2 DEF ParsedFromHead
    <2>3. Parsed([kind |-> Flag(tag)], 5) = Parsed(m, 5)
      BY <1>1
    <2> QED
      BY <1>2, <1>7, <2>1, <2>2, <2>3 DEF Outcome, e
  <1> QED
    BY <1>7, <1>5 DEF e

\* A ring that begins with tag and body, the body being there in full.
Holds(r, body) ==
    /\ r.len >= 5 + Len(body)
    /\ \A i \in 1 .. Len(body) : pg_ring_get(r, 4 + i) = body[i]

\* A number of the body is found where the parser looks for it.
LEMMA HeldNumber ==
    ASSUME NEW r \in Rings(Byte), NEW body \in Seq(Byte), Holds(r, body),
           NEW i \in Nat, i + 4 <= Len(body)
    PROVE  U32At(r, 5 + i) = BigEndian(body[i + 1], body[i + 2], body[i + 3], body[i + 4])
  <1>1. /\ i + 1 \in 1 .. Len(body) /\ i + 2 \in 1 .. Len(body)
        /\ i + 3 \in 1 .. Len(body) /\ i + 4 \in 1 .. Len(body)
        /\ 4 + (i + 1) = 5 + i /\ 4 + (i + 2) = (5 + i) + 1
        /\ 4 + (i + 3) = (5 + i) + 2 /\ 4 + (i + 4) = (5 + i) + 3
    OBVIOUS
  <1>2. /\ pg_ring_get(r, 4 + (i + 1)) = body[i + 1] /\ pg_ring_get(r, 4 + (i + 2)) = body[i + 2]
        /\ pg_ring_get(r, 4 + (i + 3)) = body[i + 3] /\ pg_ring_get(r, 4 + (i + 4)) = body[i + 4]
    BY <1>1 DEF Holds
  <1> QED
    BY <1>1, <1>2 DEF U32At

\* A message that is neither a heartbeat nor a flag.
ParsedFromBody(r, tag, body, n) ==
    \/ /\ r.len < 5 + n
       /\ parse_message(r) = NeedMore(0)
    \/ /\ ~HasFittingLength(tag, 1 + n)
       /\ parse_message(r) = Rejected(0)
    \/ /\ r.len >= 5 + n
       /\ HasFittingLength(tag, 1 + n)
       /\ Holds(r, body)
       /\ parse_message(r) = parse_body(r, tag, 1 + n)

\* Such a message waits for its last byte, is refused for its length, or is
\* left to parse_body.
LEMMA FramedParsed ==
    ASSUME NEW r \in Rings(Byte), NEW tag \in 4 .. 255, NEW body \in Seq(Byte),
           1 + Len(body) <= MaxMessageLength, Shows(r, Framed(tag, body))
    PROVE  ParsedFromBody(r, tag, body, Len(body))
  <1> DEFINE n == Len(body)
             e == Framed(tag, body)
  <1>1. tag \in Byte /\ tag \notin FlagTags /\ n \in Nat /\ r.len \in Nat
    BY RingFields DEF Byte
  <1>2. /\ e \in Seq(Byte) /\ Len(e) = 5 + n /\ BigEndian(e[1], e[2], e[3], e[4]) = 1 + n /\ e[5] = tag
        /\ \A i \in 1 .. n : e[5 + i] = body[i]
    BY <1>1, FramedBytes DEF IsFramed
  <1> HIDE DEF e
  <1>3. Shows(r, e)
    BY DEF e
  <1> HIDE DEF n
  <1>4. parse_message(r) =
             IF r.len < 4 THEN NeedMore(0)
             ELSE IF r.len < 5 THEN NeedMore(0)
             ELSE IF ~HasFittingLength(tag, 1 + n) THEN Rejected(0)
             ELSE IF ~IsComplete(r, 1 + n) THEN NeedMore(0)
             ELSE parse_body(r, tag, 1 + n)
    <2>1. 1 + n \in Nat /\ 1 + n # 0 /\ ~(1 + n > MaxMessageLength) /\ Len(e) >= 5
      BY <1>1, <1>2, LimitsAssumption DEF n
    <2> QED
      <3>1. ParsedFromHead(r, e[5], 1 + n)
        BY <1>2, <1>3, <2>1, ParseHead
      <3> QED
        BY <1>1, <1>2, <2>1, <3>1 DEF ParsedFromHead
  <1>5. ASSUME r.len >= 5 + n
        PROVE  Holds(r, body)
    <2> SUFFICES ASSUME NEW i \in 1 .. n
                 PROVE  pg_ring_get(r, 4 + i) = body[i]
      BY <1>5 DEF Holds, n
    <2>1. 4 + i \in Nat /\ 4 + i < r.len /\ 4 + i < Len(e) /\ (4 + i) + 1 = 5 + i
      BY <1>1, <1>2, <1>5
    <2> QED
      BY <1>2, <1>3, <2>1, ShownByte
  <1>6. IsComplete(r, 1 + n) <=> r.len >= 5 + n
    BY <1>1 DEF IsComplete
  <1>7. r.len < 5 => r.len < 5 + n
    BY <1>1
  <1>8. ~(r.len >= 5 + n) => r.len < 5 + n
    BY <1>1
  <1>9. ParsedFromBody(r, tag, body, n)
    <2>1. r.len < 4 => r.len < 5 + n
      BY <1>1
    <2> QED
      BY <1>4, <1>5, <1>6, <1>7, <1>8, <2>1, Zenon DEF ParsedFromBody
  <1> QED
    BY <1>9 DEF n

\* A have is found again when its piece is one of the torrent.
LEMMA HaveParsed ==
    ASSUME NEW r \in Rings(Byte), NEW m, m = [kind |-> "have", have |-> m.have],
           m.have \in Number, FollowsProtocol(m)
    PROVE  /\ Encode(m) \in Seq(Byte) /\ Len(Encode(m)) = 9
           /\ Shows(r, Encode(m)) => Outcome(r, m)
  <1> DEFINE e == Encode(m)
             body == U32Bytes(m.have)
  <1>1. m.kind = "have"
    OBVIOUS
  <1>2. e = Framed(PT_HAVE, body)
    BY <1>1, EncodeOther
  <1>3. /\ body \in Seq(Byte) /\ Len(body) = 4
        /\ BigEndian(body[1], body[2], body[3], body[4]) = m.have
    BY OneNumber DEF Number
  <1> HIDE DEF body
  <1>4. 4 \in Byte /\ 1 + 4 <= MaxMessageLength
    BY LimitsAssumption DEF Byte
  <1>5. e \in Seq(Byte) /\ Len(e) = 9
    <2>1. IsFramed(Framed(4, body), 4, body)
      BY <1>3, <1>4, FramedBytes
    <2> QED
      BY <1>2, <1>3, <2>1 DEF IsFramed
  <1> HIDE DEF e
  <1>6. ASSUME Shows(r, e)
        PROVE  Outcome(r, m)
    <2>1. \/ /\ r.len < 9
             /\ parse_message(r) = NeedMore(0)
          \/ /\ ~HasFittingLength(4, 5)
             /\ parse_message(r) = Rejected(0)
          \/ /\ r.len >= 9
             /\ Holds(r, body)
             /\ parse_message(r) = parse_body(r, 4, 5)
      <3>1. 4 \in 4 .. 255 /\ 1 + Len(body) <= MaxMessageLength /\ Shows(r, Framed(4, body))
            /\ Len(body) = 4
        BY <1>2, <1>3, <1>4, <1>6
      <3>2. ParsedFromBody(r, 4, body, 4)
        BY <1>3, <3>1, FramedParsed
      <3> QED
        BY <3>2 DEF ParsedFromBody
    <2>2. HasFittingLength(4, 5)
      BY DEF HasFittingLength
    <2>3. ASSUME Holds(r, body)
          PROVE  parse_body(r, 4, 5) = Parsed(m, 9)
      <3>1. 0 \in Nat /\ 0 + 4 <= Len(body)
        BY <1>3
      <3>2. U32At(r, 5 + 0) = BigEndian(body[0 + 1], body[0 + 2], body[0 + 3], body[0 + 4])
        BY <1>3, <2>3, <3>1, HeldNumber
      <3>3. U32At(r, 5) = m.have
        BY <1>3, <3>2
      <3>4. ~(m.have > M.pieces_count)
        <4>1. m.have \in 0 .. M.pieces_count - 1
          BY <1>1 DEF FollowsProtocol, Pieces
        <4> QED
          BY <4>1, TorrentIsWellFormed
      <3> QED
        BY <3>3, <3>4 DEF parse_body
    <2> QED
      BY <1>5, <2>1, <2>2, <2>3 DEF Outcome, e
  <1> QED
    BY <1>5, <1>6 DEF e

\* So are requests and cancels, whatever they ask for.
LEMMA RequestParsed ==
    ASSUME NEW r \in Rings(Byte), NEW m, m.kind \in {"request", "cancel"},
           m.index \in Number, m.begin \in Number, m.length \in Number,
           m = [kind |-> m.kind, index |-> m.index, begin |-> m.begin, length |-> m.length]
    PROVE  /\ Encode(m) \in Seq(Byte) /\ Len(Encode(m)) = 17
           /\ Shows(r, Encode(m)) => Outcome(r, m)
  <1> DEFINE e == Encode(m)
             last == U32Bytes(m.length)
             body == U32Bytes(m.index) \o U32Bytes(m.begin) \o last
             tag == IF m.kind = "request" THEN 6 ELSE 8
  <1>1. e = Framed(tag, body)
    BY EncodeOther
  <1>2. /\ last \in Seq(Byte) /\ Len(last) = 4
        /\ BigEndian(last[1], last[2], last[3], last[4]) = m.length
    BY OneNumber DEF Number
  <1> HIDE DEF last
  <1>3. /\ body \in Seq(Byte)
        /\ Len(body) = 8 + 4
        /\ BigEndian(body[1], body[2], body[3], body[4]) = m.index
        /\ BigEndian(body[5], body[6], body[7], body[8]) = m.begin
        /\ \A i \in 1 .. 4 : body[8 + i] = last[i]
    <2>1. StartsWith(body, m.index, m.begin, last)
      BY <1>2, TwoNumbers DEF Number
    <2> HIDE DEF body
    <2> QED
      BY <1>2, <2>1 DEF StartsWith
  <1> HIDE DEF body
  <1>4. BigEndian(body[9], body[10], body[11], body[12]) = m.length
    <2>1. /\ body[8 + 1] = last[1] /\ body[8 + 2] = last[2]
          /\ body[8 + 3] = last[3] /\ body[8 + 4] = last[4]
      BY <1>3
    <2> QED
      BY <1>2, <2>1
  <1>5. tag \in Byte /\ tag \in 4 .. 255 /\ 1 + 12 <= MaxMessageLength /\ tag \in {6, 8}
    BY LimitsAssumption DEF Byte
  <1>6. m.kind = IF tag = PT_REQUEST THEN "request" ELSE "cancel"
    OBVIOUS
  <1> HIDE DEF tag
  <1>7. e \in Seq(Byte) /\ Len(e) = 17
    <2>1. IsFramed(Framed(tag, body), tag, body)
      <3>1. 1 + Len(body) <= MaxMessageLength
        BY <1>3, <1>5
      <3> QED
        BY <1>3, <1>5, <3>1, FramedBytes
    <2> QED
      BY <1>1, <1>3, <2>1 DEF IsFramed
  <1> HIDE DEF e
  <1>8. ASSUME Shows(r, e)
        PROVE  Outcome(r, m)
    <2>1. \/ /\ r.len < 17
             /\ parse_message(r) = NeedMore(0)
          \/ /\ ~HasFittingLength(tag, 13)
             /\ parse_message(r) = Rejected(0)
          \/ /\ r.len >= 17
             /\ Holds(r, body)
             /\ parse_message(r) = parse_body(r, tag, 13)
      <3>1. 1 + Len(body) <= MaxMessageLength /\ Shows(r, Framed(tag, body))
            /\ Len(body) = 12
        BY <1>1, <1>3, <1>5, <1>8
      <3>2. ParsedFromBody(r, tag, body, 12)
        BY <1>3, <1>5, <3>1, FramedParsed
      <3> QED
        BY <3>2 DEF ParsedFromBody
    <2>2. HasFittingLength(tag, 13)
      BY <1>5 DEF HasFittingLength
    <2>3. ASSUME Holds(r, body)
          PROVE  parse_body(r, tag, 13) = Parsed(m, 17)
      <3>1. /\ 0 \in Nat /\ 0 + 4 <= Len(body) /\ 4 \in Nat /\ 4 + 4 <= Len(body)
            /\ 8 \in Nat /\ 8 + 4 <= Len(body)
        BY <1>3
      <3>2. /\ U32At(r, 5 + 0) = BigEndian(body[0 + 1], body[0 + 2], body[0 + 3], body[0 + 4])
            /\ U32At(r, 5 + 4) = BigEndian(body[4 + 1], body[4 + 2], body[4 + 3], body[4 + 4])
            /\ U32At(r, 5 + 8) = BigEndian(body[8 + 1], body[8 + 2], body[8 + 3], body[8 + 4])
        BY <1>3, <2>3, <3>1, HeldNumber
      <3>3. U32At(r, 5) = m.index /\ U32At(r, 9) = m.begin /\ U32At(r, 13) = m.length
        BY <1>3, <1>4, <3>2
      <3>4. parse_body(r, tag, 13) =
              Parsed([ kind   |-> IF tag = PT_REQUEST THEN "request" ELSE "cancel",
                       index  |-> U32At(r, 5), begin |-> U32At(r, 9),
                       length |-> U32At(r, 13) ], 17)
        BY <1>5 DEF parse_body
      <3> QED
        BY <1>6, <3>3, <3>4
    <2>4. FollowsProtocol(m)
      BY DEF FollowsProtocol
    <2> QED
      BY <1>7, <2>1, <2>2, <2>3, <2>4 DEF Outcome, e
  <1> QED
    BY <1>7, <1>8 DEF e

\* The words of the code for the length of a bitfield.
LEMMA ExpectedLength ==
    LET n == CeilDiv(M.pieces_count, 8)
    IN  /\ n \in Nat \ {0}
        /\ M.pieces_count % 8 # 1 => expected_bitfield_len = n
  <1> DEFINE c == M.pieces_count
  <1>1. c \in Nat \ {0}
    BY TorrentIsWellFormed
  <1> HIDE DEF c
  <1>2. (c + 8 - 1) \div 8 \in Nat \ {0}
    BY <1>1
  <1>3. c % 8 # 1 => (c - 1 + 8 - 1) \div 8 = (c + 8 - 1) \div 8
    BY <1>1
  <1> QED
    BY <1>2, <1>3 DEF expected_bitfield_len, CeilDiv, c

\* A bitfield is the set of pieces it was written from, or is refused for its
\* length (which only happens next to a multiple of 8, see ExpectedLength).
LEMMA BitfieldParsed ==
    ASSUME NEW r \in Rings(Byte), NEW m, m = [kind |-> "bitfield", pieces |-> m.pieces],
           m.pieces \in SUBSET Pieces(M)
    PROVE  /\ Encode(m) \in Seq(Byte) /\ Len(Encode(m)) >= 5
           /\ Shows(r, Encode(m)) => Outcome(r, m)
  <1> DEFINE e == Encode(m)
             n == CeilDiv(M.pieces_count, 8)
             body == BitfieldBytes(m.pieces)
  <1>1. m.kind = "bitfield"
    OBVIOUS
  <1>2. e = Framed(5, body)
    BY <1>1, EncodeOther
  <1>3. /\ n \in Nat \ {0}
        /\ M.pieces_count <= 8 * n
        /\ body \in Seq(Byte)
        /\ Len(body) = n
        /\ \A k \in 0 .. n - 1 : \A b \in 0 .. 7 :
              Bit(body[k + 1], b) <=> 8 * k + b \in m.pieces
    BY BitfieldBits
  <1>4. n + 1 <= MaxMessageLength
    BY LimitsAssumption DEF Byte
  <1>5. M.pieces_count % 8 # 1 => HasFittingLength(5, 1 + n)
    BY <1>3, ExpectedLength DEF HasFittingLength
  <1> HIDE DEF body, n
  <1>6. e \in Seq(Byte) /\ Len(e) = 5 + n
    <2>1. 5 \in Byte /\ 1 + Len(body) <= MaxMessageLength
      BY <1>3, <1>4 DEF Byte
    <2>2. IsFramed(Framed(5, body), 5, body)
      BY <1>3, <2>1, FramedBytes
    <2> QED
      BY <1>2, <1>3, <2>2 DEF IsFramed
  <1> HIDE DEF e
  <1>7. ASSUME Holds(r, body)
        PROVE  parse_body(r, 5, 1 + n) = Parsed(m, 5 + n)
    <2> DEFINE all == { 8 * k + b : k \in 0 .. (1 + n) - 2, b \in 0 .. 7 }
               found == { p \in all : Bit(pg_ring_get(r, 5 + p \div 8), p % 8) }
    <2>0. n \in Nat \ {0}
      BY <1>3
    <2>1. ASSUME NEW k \in 0 .. n - 1, NEW b \in 0 .. 7
          PROVE  Bit(pg_ring_get(r, 5 + (8 * k + b) \div 8), (8 * k + b) % 8) <=> 8 * k + b \in m.pieces
      <3>0. k \in Nat /\ b \in Nat /\ b < 8 /\ 8 \in Nat \ {0}
        BY <2>0
      <3>4. (8 * k + b) \div 8 = k /\ (8 * k + b) % 8 = b
        <4>1. k \in Int
          BY <3>0
        <4> QED
          BY <3>0, <4>1, DivisionUnique, Zenon
      <3>1. (8 * k + b) \div 8 = k /\ (8 * k + b) % 8 = b /\ k + 1 \in 1 .. n /\ 4 + (k + 1) = 5 + k
        BY <2>0, <3>0, <3>4
      <3>2. pg_ring_get(r, 4 + (k + 1)) = body[k + 1]
        BY <1>3, <1>7, <3>1 DEF Holds
      <3>3. Bit(body[k + 1], b) <=> 8 * k + b \in m.pieces
        BY <1>3
      <3> QED
        BY <3>1, <3>2, <3>3
    <2>2. (1 + n) - 2 = n - 1
      BY <1>3
    <2>3. ASSUME NEW p \in found
          PROVE  p \in m.pieces
      <3>1. PICK k \in 0 .. n - 1, b \in 0 .. 7 : p = 8 * k + b
        BY <2>2
      <3> QED
        BY <2>1, <3>1
    <2>4. ASSUME NEW p \in m.pieces
          PROVE  p \in found
      <3>1. p \in 0 .. M.pieces_count - 1
        BY DEF Pieces
      <3> DEFINE k == p \div 8
                 b == p % 8
      <3>2. p \in Nat /\ p < 8 * n
        BY <1>3, <3>1, TorrentIsWellFormed
      <3>3. k \in 0 .. n - 1 /\ b \in 0 .. 7 /\ p = 8 * k + b
        BY <2>0, <3>2
      <3> HIDE DEF k, b
      <3>4. p \in all
        BY <2>2, <3>3
      <3>5. Bit(pg_ring_get(r, 5 + p \div 8), p % 8)
        BY <2>1, <3>3
      <3> QED
        BY <3>4, <3>5
    <2>5. found = m.pieces
      BY <2>3, <2>4
    <2>6. parse_body(r, 5, 1 + n) = Parsed([kind |-> "bitfield", pieces |-> found], (1 + n) + 4)
      BY DEF parse_body, parse_bitfield
    <2> HIDE DEF found
    <2> QED
      BY <1>3, <2>5, <2>6
  <1>8. ASSUME Shows(r, e)
        PROVE  Outcome(r, m)
    <2>1. 5 \in 4 .. 255 /\ 1 + Len(body) <= MaxMessageLength /\ Shows(r, Framed(5, body))
          /\ Len(body) = n
      BY <1>2, <1>3, <1>4, <1>8
    <2>2. ParsedFromBody(r, 5, body, n)
      BY <1>3, <2>1, FramedParsed
    <2>3. FollowsProtocol(m)
      BY <1>1 DEF FollowsProtocol
    <2>4. CASE r.len < 5 + n /\ parse_message(r) = NeedMore(0)
      BY <1>6, <2>4, Zenon DEF Outcome, e
    <2>5. CASE ~HasFittingLength(5, 1 + n) /\ parse_message(r) = Rejected(0)
      BY <1>5, <2>5, Zenon DEF Outcome, Welcome
    <2>6. CASE r.len >= 5 + n /\ Holds(r, body) /\ parse_message(r) = parse_body(r, 5, 1 + n)
      BY <1>6, <1>7, <2>3, <2>6, Zenon DEF Outcome, e
    <2> QED
      BY <2>2, <2>4, <2>5, <2>6 DEF ParsedFromBody
  <1>9. Len(e) >= 5
    BY <1>3, <1>6
  <1> QED
    BY <1>6, <1>8, <1>9 DEF e

\* A block that answers a request is found again with its data.
LEMMA PieceParsed ==
    ASSUME NEW r \in Rings(Byte), NEW m,
           m = [kind |-> "piece", index |-> m.index, begin |-> m.begin, data |-> m.data],
           m.index \in Number, m.begin \in Number, m.data \in Seq(Byte),
           FollowsProtocol(m)
    PROVE  /\ Encode(m) \in Seq(Byte) /\ Len(Encode(m)) >= 5
           /\ Shows(r, Encode(m)) => Outcome(r, m)
  <1> DEFINE e == Encode(m)
             n == Len(m.data)
             body == U32Bytes(m.index) \o U32Bytes(m.begin) \o m.data
  <1>1. m.kind = "piece"
    OBVIOUS
  <1>2. e = Framed(7, body)
    BY <1>1, EncodeOther
  <1>3. /\ body \in Seq(Byte)
        /\ Len(body) = 8 + n
        /\ BigEndian(body[1], body[2], body[3], body[4]) = m.index
        /\ BigEndian(body[5], body[6], body[7], body[8]) = m.begin
        /\ \A i \in 1 .. n : body[8 + i] = m.data[i]
    <2>1. StartsWith(body, m.index, m.begin, m.data)
      BY TwoNumbers DEF Number
    <2> HIDE DEF body
    <2> QED
      BY <2>1 DEF StartsWith
  <1> HIDE DEF body
  <1>4. n \in 1 .. BlockLength /\ looks_like_block(m.index, m.begin, n)
    <2>1. PICK b \in Blocks(M) :
            /\ m.index = request_of_block(M, b).index
            /\ m.begin = request_of_block(M, b).begin
            /\ n = request_of_block(M, b).length
      BY <1>1 DEF FollowsProtocol
    <2>2. Fits(M, request_of_block(M, b))
      BY TorrentIsWellFormed, RequestFitsItsPiece
    <2>3. request_of_block(M, b).index < M.pieces_count
      BY <2>2, TorrentIsWellFormed DEF Fits, Pieces
    <2> QED
      BY <2>1, <2>2, <2>3, Zenon DEF Fits, looks_like_block
  <1>5. n \in Nat \ {0} /\ n + 9 <= MaxMessageLength
    BY <1>4, LimitsAssumption, BlockLengthAssumption
  <1> HIDE DEF n, e
  <1>6. e \in Seq(Byte) /\ Len(e) = 13 + n
    <2>1. 7 \in Byte /\ 1 + Len(body) <= MaxMessageLength
      BY <1>3, <1>5 DEF Byte
    <2>2. IsFramed(Framed(7, body), 7, body)
      BY <1>3, <2>1, FramedBytes
    <2>3. e \in Seq(Byte) /\ Len(e) = 5 + Len(body)
      BY <1>2, <2>2, Zenon DEF IsFramed
    <2>4. Len(e) = 5 + (8 + n)
      BY <1>3, <2>3, Zenon
    <2> HIDE DEF n
    <2>5. 5 + (8 + n) = 13 + n
      BY <1>5
    <2> QED
      BY <2>3, <2>4, <2>5, Zenon
  <1>7. ASSUME Holds(r, body)
        PROVE  parse_body(r, 7, 9 + n) = Parsed(m, 13 + n)
    <2>1. /\ 0 \in Nat /\ 0 + 4 <= Len(body) /\ 4 \in Nat /\ 4 + 4 <= Len(body)
      <3>1. 0 + 4 <= 8 + n /\ 4 + 4 <= 8 + n
        BY <1>5
      <3> QED
        BY <1>3, <3>1
    <2>2. /\ U32At(r, 5 + 0) = BigEndian(body[0 + 1], body[0 + 2], body[0 + 3], body[0 + 4])
          /\ U32At(r, 5 + 4) = BigEndian(body[4 + 1], body[4 + 2], body[4 + 3], body[4 + 4])
      BY <1>3, <1>7, <2>1, HeldNumber
    <2>3. U32At(r, 5) = m.index /\ U32At(r, 9) = m.begin
      BY <1>3, <2>2
    <2>4. (9 + n) - 9 = n /\ (9 + n) + 4 = 13 + n
      BY <1>5
    <2>5. BytesAt(r, 13, n) = m.data
      <3>1. ASSUME NEW i \in 1 .. n
            PROVE  pg_ring_get(r, 13 + i - 1) = m.data[i]
        <4>1. 13 + i - 1 = 4 + (8 + i) /\ 8 + i \in 1 .. 8 + n
          BY <1>5
        <4>2. pg_ring_get(r, 4 + (8 + i)) = body[8 + i]
          BY <1>3, <1>7, <4>1, Zenon DEF Holds
        <4> QED
          BY <1>3, <4>1, <4>2, Zenon
      <3>2. BytesAt(r, 13, n) = [i \in 1 .. n |-> m.data[i]]
        BY <3>1 DEF BytesAt
      <3> QED
        BY <3>2 DEF n
    <2>6. parse_body(r, 7, 9 + n) = parse_piece(r, 9 + n)
      BY DEF parse_body
    <2>7. parse_piece(r, 9 + n) =
            Parsed([ kind |-> "piece", index |-> m.index, begin |-> m.begin,
                     data |-> BytesAt(r, 13, n) ], 13 + n)
      BY <1>4, <2>3, <2>4 DEF parse_piece
    <2> QED
      BY <2>5, <2>6, <2>7
  <1>8. ASSUME Shows(r, e)
        PROVE  Outcome(r, m)
    <2>1. 7 \in 4 .. 255 /\ 1 + Len(body) <= MaxMessageLength /\ Shows(r, Framed(7, body))
          /\ Len(body) = 8 + n
      BY <1>2, <1>3, <1>5, <1>8
    <2>2. ParsedFromBody(r, 7, body, 8 + n)
      BY <1>3, <2>1, FramedParsed
    <2>3. HasFittingLength(7, 1 + (8 + n)) /\ 1 + (8 + n) = 9 + n /\ 5 + (8 + n) = 13 + n
      BY <1>5 DEF HasFittingLength
    <2>4. CASE r.len < 13 + n /\ parse_message(r) = NeedMore(0)
      BY <1>6, <2>4, Zenon DEF Outcome, e
    <2>6. CASE r.len >= 13 + n /\ Holds(r, body) /\ parse_message(r) = parse_body(r, 7, 9 + n)
      BY <1>6, <1>7, <2>6, Zenon DEF Outcome, e
    <2> QED
      BY <2>2, <2>3, <2>4, <2>6 DEF ParsedFromBody
  <1>9. Len(e) >= 5
    BY <1>5, <1>6
  <1> QED
    BY <1>6, <1>8, <1>9 DEF e

\* Bytes that are no message are refused, or still wait for more.
LEMMA RawRejected ==
    ASSUME NEW r \in Rings(Byte), NEW m,
           m.kind = "raw", m.bytes \in Seq(Byte), Malformed(m.bytes)
    PROVE  /\ Encode(m) \in Seq(Byte) /\ Len(Encode(m)) >= 5
           /\ Shows(r, Encode(m)) => Outcome(r, m)
  <1> DEFINE e == m.bytes
             announced_len == BigEndian(e[1], e[2], e[3], e[4])
             tag == e[5]
             Num(i) == BigEndian(e[i], e[i + 1], e[i + 2], e[i + 3])
  <1>1. Encode(m) = e
    BY EncodeOther
  <1>2. ~FollowsProtocol(m)
    BY DEF FollowsProtocol
  <1>3. Len(e) >= 5 /\ announced_len \in Nat /\ announced_len # 0
    <2>1. Len(e) >= 5 /\ announced_len # 0
      BY DEF Malformed
    <2>2. e[1] \in Byte /\ e[2] \in Byte /\ e[3] \in Byte /\ e[4] \in Byte
      BY <2>1
    <2> QED
      BY <2>1, <2>2, BigEndianIsNumber
  <1>4. \/ announced_len > MaxMessageLength
        \/ tag \notin FlagTags /\ ~HasFittingLength(tag, announced_len)
        \/ tag = 4 /\ announced_len = 5 /\ Len(e) >= 9 /\ Num(6) > M.pieces_count
        \/ /\ tag = 7 /\ announced_len >= 10 /\ Len(e) >= announced_len + 4
           /\ ~looks_like_block(Num(6), Num(10), announced_len - 9)
    BY DEF Malformed
  <1> HIDE DEF announced_len, tag, e
  <1>5. ASSUME Shows(r, e)
        PROVE  Outcome(r, m)
    <2>1. ParsedFromHead(r, tag, announced_len)
      BY <1>3, <1>5, ParseHead DEF announced_len, tag, e
    <2> SUFFICES \/ r.len < Len(e) /\ parse_message(r) = NeedMore(0)
                 \/ \E n : parse_message(r) = Rejected(n)
      BY <1>1, <1>2, Zenon DEF Outcome, Welcome
    <2>2. r.len \in Nat /\ Len(e) \in Nat
      BY RingFields DEF e
    <2>3. CASE r.len < 5
      BY <1>3, <2>1, <2>2, <2>3 DEF ParsedFromHead
    <2>4. CASE ~(r.len < 5)
      <3>1. parse_message(r) =
              IF announced_len > MaxMessageLength THEN Rejected(0)
              ELSE IF tag \in FlagTags THEN Parsed([kind |-> Flag(tag)], 5)
              ELSE IF ~HasFittingLength(tag, announced_len) THEN Rejected(0)
              ELSE IF ~IsComplete(r, announced_len) THEN NeedMore(0)
              ELSE parse_body(r, tag, announced_len)
        BY <2>1, <2>2, <2>4 DEF ParsedFromHead
      <3>2. CASE announced_len > MaxMessageLength \/ (tag \notin FlagTags /\ ~HasFittingLength(tag, announced_len))
        BY <3>1, <3>2
      <3>3. CASE /\ ~(announced_len > MaxMessageLength)
                 /\ tag = 4 /\ announced_len = 5 /\ Len(e) >= 9 /\ Num(6) > M.pieces_count
        <4>1. HasFittingLength(tag, announced_len) /\ tag \notin FlagTags
          BY <3>3 DEF HasFittingLength
        <4>2. parse_message(r) = IF r.len < 9 THEN NeedMore(0) ELSE parse_body(r, 4, 5)
          BY <2>2, <3>1, <3>3, <4>1 DEF IsComplete
        <4>3. CASE r.len < 9
          BY <2>2, <3>3, <4>2, <4>3
        <4>4. CASE ~(r.len < 9)
          <5>1. 5 \in Nat /\ 5 + 4 <= r.len /\ 5 + 4 <= Len(e)
            BY <2>2, <3>3, <4>4
          <5>2. U32At(r, 5) = BigEndian(e[5 + 1], e[5 + 2], e[5 + 3], e[5 + 4])
            BY <1>5, <5>1, ShownNumber DEF e
          <5>3. U32At(r, 5) = Num(6)
            BY <5>2
          <5>4. parse_body(r, 4, 5) = Rejected(9)
            BY <3>3, <5>3 DEF parse_body
          <5> QED
            BY <4>2, <4>4, <5>4
        <4> QED
          BY <4>3, <4>4
      <3>4. CASE /\ ~(announced_len > MaxMessageLength)
                 /\ tag = 7 /\ announced_len >= 10 /\ Len(e) >= announced_len + 4
                 /\ ~looks_like_block(Num(6), Num(10), announced_len - 9)
        <4>1. HasFittingLength(tag, announced_len) /\ tag \notin FlagTags
          BY <3>4 DEF HasFittingLength
        <4>2. parse_message(r) = IF r.len >= announced_len + 4 THEN parse_body(r, 7, announced_len) ELSE NeedMore(0)
          BY <3>1, <3>4, <4>1 DEF IsComplete
        <4>3. CASE ~(r.len >= announced_len + 4)
          BY <1>3, <2>2, <3>4, <4>2, <4>3
        <4>4. CASE r.len >= announced_len + 4
          <5>1. /\ 5 \in Nat /\ 5 + 4 <= r.len /\ 5 + 4 <= Len(e)
                /\ 9 \in Nat /\ 9 + 4 <= r.len /\ 9 + 4 <= Len(e)
            <6> DEFINE l == r.len
                       n == Len(e)
                       a == announced_len
            <6>1. l \in Nat /\ n \in Nat /\ a \in Nat /\ a >= 10 /\ n >= a + 4 /\ l >= a + 4
              BY <1>3, <2>2, <3>4, <4>4
            <6> HIDE DEF l, n, a
            <6>2. 5 + 4 <= l /\ 5 + 4 <= n /\ 9 + 4 <= l /\ 9 + 4 <= n
              BY <6>1
            <6> QED
              BY <6>2 DEF l, n
          <5>2. /\ U32At(r, 5) = BigEndian(e[5 + 1], e[5 + 2], e[5 + 3], e[5 + 4])
                /\ U32At(r, 9) = BigEndian(e[9 + 1], e[9 + 2], e[9 + 3], e[9 + 4])
            BY <1>5, <5>1, ShownNumber DEF e
          <5>3. U32At(r, 5) = Num(6) /\ U32At(r, 9) = Num(10)
            BY <5>2
          <5>4. parse_body(r, 7, announced_len) = parse_piece(r, announced_len)
            BY DEF parse_body
          <5>5. parse_piece(r, announced_len) = Rejected(13)
            BY <3>4, <5>3 DEF parse_piece
          <5> QED
            BY <4>2, <4>4, <5>4, <5>5
        <4> QED
          BY <4>3, <4>4
      <3> QED
        BY <1>4, <3>2, <3>3, <3>4
    <2> QED
      BY <2>3, <2>4
  <1> QED
    BY <1>1, <1>3, <1>5 DEF e

\* What a remote sends is bytes, and parsing them from the ring has an outcome
\* for each message.
LEMMA MessageParsed ==
    ASSUME NEW r \in Rings(Byte), NEW m, Sendable(m)
    PROVE  /\ Encode(m) \in Seq(Byte) /\ Len(Encode(m)) >= 4
           /\ Shows(r, Encode(m)) => Outcome(r, m)
  <1>1. Formed(m) /\ (FollowsProtocol(m) \/ (m.kind = "raw" /\ Malformed(m.bytes)))
    BY MessageForms DEF Sendable
  <1>2. CASE m = [kind |-> "heartbeat"]
    <2>1. /\ Encode(m) \in Seq(Byte) /\ Len(Encode(m)) = 4
          /\ Shows(r, Encode(m)) => Outcome(r, m)
      BY <1>2, HeartbeatParsed, Zenon
    <2> QED
      BY <2>1
  <1>3. CASE m.kind \in FlagKinds /\ m = [kind |-> m.kind]
    <2>1. /\ Encode(m) \in Seq(Byte) /\ Len(Encode(m)) = 5
          /\ Shows(r, Encode(m)) => Outcome(r, m)
      BY <1>3, FlagParsed, Zenon
    <2> QED
      BY <2>1
  <1>4. CASE m.kind = "have" /\ m.have \in Number /\ m = [kind |-> "have", have |-> m.have]
    <2>1. /\ Encode(m) \in Seq(Byte) /\ Len(Encode(m)) = 9
          /\ Shows(r, Encode(m)) => Outcome(r, m)
      BY <1>1, <1>4, HaveParsed, Zenon
    <2> QED
      BY <2>1
  <1>5. CASE m.kind = "bitfield" /\ m.pieces \in SUBSET Pieces(M) /\ m = [kind |-> "bitfield", pieces |-> m.pieces]
    BY <1>5, BitfieldParsed
  <1>6. CASE /\ m.kind \in {"request", "cancel"}
             /\ m.index \in Number /\ m.begin \in Number /\ m.length \in Number
             /\ m = [kind |-> m.kind, index |-> m.index, begin |-> m.begin, length |-> m.length]
    <2>1. /\ Encode(m) \in Seq(Byte) /\ Len(Encode(m)) = 17
          /\ Shows(r, Encode(m)) => Outcome(r, m)
      BY <1>6, RequestParsed, SMT
    <2> QED
      BY <2>1
  <1>7. CASE /\ m.kind = "piece"
             /\ m.index \in Number /\ m.begin \in Number /\ m.data \in Seq(Byte)
             /\ m = [kind |-> "piece", index |-> m.index, begin |-> m.begin, data |-> m.data]
    BY <1>1, <1>7, PieceParsed
  <1>8. CASE m.kind = "raw" /\ m.bytes \in Seq(Byte)
    <2>1. ~FollowsProtocol(m)
      BY <1>8 DEF FollowsProtocol
    <2> QED
      BY <1>1, <1>8, <2>1, RawRejected
  <1> QED
    BY <1>1, <1>2, <1>3, <1>4, <1>5, <1>6, <1>7, <1>8 DEF Formed

-----------------------------------------------------------------------------
(* The bytes of a connection are those of its messages. *)

\* s begins with the bytes of t.
Extends(s, t) ==
    /\ Len(t) <= Len(s)
    /\ \A i \in 1 .. Len(t) : s[i] = t[i]

\* The remotes of StreamsAssumption and OpeningsAssumption.
Remote(first, messages) ==
    /\ first \in Seq(Byte)
    /\ Len(first) >= 4
    /\ messages \in Seq(Messages)
    /\ \A k \in 1 .. Len(messages) : Sendable(messages[k])

\* The assumptions on Streams and Openings, for one remote.
LEMMA RemotesAre ==
    ASSUME NEW first \in Openings, NEW messages \in Streams
    PROVE  /\ Remote(first, messages)
           /\ Len(first) = Len(Handshake)
           /\ BigEndian(first[1], first[2], first[3], first[4]) > MaxMessageLength
  <1>1. /\ first \in Seq(Byte) /\ Len(first) = Len(Handshake) /\ Len(first) >= 4
        /\ BigEndian(first[1], first[2], first[3], first[4]) > MaxMessageLength
    BY OpeningsAssumption DEF Byte
  <1>2. /\ messages \in Seq(Messages)
        /\ \A k \in DOMAIN messages :
              \/ FollowsProtocol(messages[k])
              \/ messages[k].kind = "raw" /\ Malformed(messages[k].bytes)
    BY StreamsAssumption, Zenon
  <1>3. ASSUME NEW k \in 1 .. Len(messages)
        PROVE  Sendable(messages[k])
    <2>1. k \in DOMAIN messages /\ messages[k] \in Messages
      BY <1>2
    <2> QED
      BY <1>2, <2>1, Zenon DEF Sendable
  <1> QED
    BY <1>1, <1>2, <1>3, Zenon DEF Remote

\* One more message.
LEMMA WireGrows ==
    ASSUME NEW first, NEW messages, Remote(first, messages),
           NEW k \in 0 .. Len(messages) - 1, Wires(first, messages)[k] \in Seq(Byte)
    PROVE  LET w == Wires(first, messages)
               e == Encode(messages[k + 1])
           IN  /\ e \in Seq(Byte) /\ Len(e) >= 4 /\ Sendable(messages[k + 1])
               /\ Joins(w[k + 1], w[k], e, Len(w[k]), Len(e))
  <1> DEFINE w == Wires(first, messages)
             e == Encode(messages[k + 1])
  <1>1. messages \in Seq(Messages)
    BY DEF Remote
  <1>2. k + 1 \in 1 .. Len(messages)
    BY <1>1
  <1>3. Sendable(messages[k + 1])
    BY <1>2 DEF Remote
  <1>4. e \in Seq(Byte) /\ Len(e) >= 4
    <2>1. pg_ring_init \in Rings(Byte)
      BY DEF pg_ring_init, Rings, Byte
    <2> QED
      BY <1>3, <2>1, MessageParsed
  <1>5. w[k + 1] = w[k] \o e
    BY <1>1, WiresAre
  <1> HIDE DEF w, e
  <1>6. w[k] \in Seq(Byte)
    BY DEF w
  <1>7. Joins(w[k] \o e, w[k], e, Len(w[k]), Len(e))
    BY <1>4, <1>6, Joined
  <1>8. Joins(w[k + 1], w[k], e, Len(w[k]), Len(e))
    BY <1>5, <1>7
  <1> QED
    BY <1>3, <1>4, <1>8 DEF w, e

\* A connection carries bytes, by induction over its messages.
LEMMA WiresAreBytes ==
    ASSUME NEW first, NEW messages, Remote(first, messages), NEW k \in 0 .. Len(messages)
    PROVE  Wires(first, messages)[k] \in Seq(Byte)
  <1> DEFINE w == Wires(first, messages)
             n == Len(messages)
             S == {i \in Nat : i <= n => w[i] \in Seq(Byte)}
  <1>1. messages \in Seq(Messages) /\ first \in Seq(Byte) /\ n \in Nat
    BY DEF Remote
  <1>2. 0 \in S
    <2>1. w[0] = first
      BY <1>1, WiresAre
    <2> QED
      BY <1>1, <2>1
  <1>3. ASSUME NEW i \in S
        PROVE  i + 1 \in S
    <2> SUFFICES ASSUME i + 1 <= n
                 PROVE  w[i + 1] \in Seq(Byte)
      OBVIOUS
    <2>1. i \in 0 .. Len(messages) - 1 /\ w[i] \in Seq(Byte)
      BY <1>1
    <2>2. Joins(w[i + 1], w[i], Encode(messages[i + 1]), Len(w[i]), Len(Encode(messages[i + 1])))
      BY <2>1, WireGrows
    <2> QED
      BY <2>2 DEF Joins
  <1>4. S = Nat
    <2>1. S \in SUBSET Nat
      OBVIOUS
    <2> HIDE DEF S
    <2> QED
      BY <1>2, <1>3, <2>1, SetInduction
  <1>5. k \in Nat /\ k <= n
    BY <1>1
  <1>6. k \in S
    BY <1>4, <1>5
  <1> QED
    BY <1>5, <1>6

\* What has been sent once stays at its place.
LEMMA WiresExtend ==
    ASSUME NEW first, NEW messages, Remote(first, messages),
           NEW j \in 0 .. Len(messages), NEW k \in j .. Len(messages)
    PROVE  Extends(Wires(first, messages)[k], Wires(first, messages)[j])
  <1> DEFINE w == Wires(first, messages)
             n == Len(messages)
             S == {i \in Nat : j + i <= n => Extends(w[j + i], w[j])}
  <1>1. n \in Nat /\ j \in Nat /\ j <= n
    BY DEF Remote
  <1>2. ASSUME NEW i \in 0 .. n
        PROVE  w[i] \in Seq(Byte)
    BY WiresAreBytes
  <1>3. 0 \in S
    <2>1. j + 0 = j /\ w[j] \in Seq(Byte)
      BY <1>1, <1>2
    <2>2. Extends(w[j], w[j])
      BY <2>1 DEF Extends
    <2> QED
      BY <2>1, <2>2
  <1>4. ASSUME NEW i \in S
        PROVE  i + 1 \in S
    <2> SUFFICES ASSUME j + (i + 1) <= n
                 PROVE  Extends(w[j + (i + 1)], w[j])
      OBVIOUS
    <2> DEFINE m == j + i
               e == Encode(messages[m + 1])
    <2>1. /\ m \in 0 .. Len(messages) - 1 /\ m + 1 = j + (i + 1) /\ m \in 0 .. n
          /\ m + 1 \in 0 .. n /\ j \in 0 .. n
      BY <1>1
    <2>2. Extends(w[m], w[j])
      BY <1>1, <2>1
    <2> HIDE DEF m
    <2>3. w[m] \in Seq(Byte) /\ w[m + 1] \in Seq(Byte) /\ w[j] \in Seq(Byte)
      BY <1>2, <2>1
    <2>4. Joins(w[m + 1], w[m], e, Len(w[m]), Len(e)) /\ e \in Seq(Byte)
      BY <2>1, <2>3, WireGrows
    <2> HIDE DEF w, e
    <2>5. Len(w[m]) \in Nat /\ Len(w[j]) \in Nat /\ Len(e) \in Nat
      BY <2>3, <2>4
    <2>6. Len(w[j]) <= Len(w[m + 1])
      BY <2>2, <2>4, <2>5 DEF Extends, Joins
    <2>7. ASSUME NEW x \in 1 .. Len(w[j])
          PROVE  w[m + 1][x] = w[j][x]
      <3>1. x \in 1 .. Len(w[m])
        BY <2>2, <2>5 DEF Extends
      <3> QED
        BY <2>2, <2>4, <3>1 DEF Extends, Joins
    <2>8. Extends(w[m + 1], w[j])
      BY <2>6, <2>7 DEF Extends
    <2> QED
      BY <2>1, <2>8
  <1>5. S = Nat
    <2>1. S \in SUBSET Nat
      OBVIOUS
    <2> HIDE DEF S
    <2> QED
      BY <1>3, <1>4, <2>1, SetInduction
  <1>6. k - j \in Nat /\ j + (k - j) = k /\ k <= n
    BY <1>1
  <1>7. k - j \in S
    BY <1>5, <1>6
  <1> QED
    BY <1>6, <1>7

\* The part of the whole stream, entry n of w, that is message k + 1.
HasMessage(w, n, k, e) ==
    /\ Len(w[k]) \in Nat /\ Len(e) \in Nat /\ Len(e) >= 4
    /\ Len(w[k + 1]) = Len(w[k]) + Len(e)
    /\ Len(w[k]) + Len(e) <= Len(w[n])
    /\ \A i \in 1 .. Len(e) : w[n][Len(w[k]) + i] = e[i]

\* Message k + 1 is in the whole stream right behind the first k of them.
LEMMA StreamHasMessage ==
    ASSUME NEW first, NEW messages, Remote(first, messages), NEW k \in 0 .. Len(messages) - 1
    PROVE  HasMessage(Wires(first, messages), Len(messages), k, Encode(messages[k + 1]))
  <1> DEFINE w == Wires(first, messages)
             e == Encode(messages[k + 1])
             n == Len(messages)
  <1>1. /\ n \in Nat /\ k \in 0 .. n /\ k + 1 \in 0 .. n /\ n \in (k + 1) .. Len(messages)
        /\ k + 1 \in 0 .. Len(messages)
    BY DEF Remote
  <1>2. w[k] \in Seq(Byte) /\ w[k + 1] \in Seq(Byte) /\ w[n] \in Seq(Byte)
    BY <1>1, WiresAreBytes
  <1>3. /\ e \in Seq(Byte) /\ Len(e) >= 4 /\ Sendable(messages[k + 1])
        /\ Joins(w[k + 1], w[k], e, Len(w[k]), Len(e))
    BY <1>2, WireGrows
  <1>4. Extends(w[n], w[k + 1])
    BY <1>1, WiresExtend
  <1> HIDE DEF w, e, n
  <1>5. /\ Len(w[k]) \in Nat /\ Len(e) \in Nat
        /\ Len(w[k + 1]) = Len(w[k]) + Len(e)
        /\ Len(w[k]) + Len(e) <= Len(w[n])
    BY <1>2, <1>3, <1>4 DEF Joins, Extends
  <1>6. ASSUME NEW i \in 1 .. Len(e)
        PROVE  w[n][Len(w[k]) + i] = e[i]
    <2>1. w[k + 1][Len(w[k]) + i] = e[i]
      BY <1>3 DEF Joins
    <2>2. Len(w[k]) + i \in 1 .. Len(w[k + 1])
      BY <1>5
    <2> QED
      BY <1>4, <2>1, <2>2 DEF Extends
  <1>7. HasMessage(w, n, k, e)
    BY <1>3, <1>5, <1>6 DEF HasMessage
  <1> QED
    BY <1>7 DEF w, e, n

-----------------------------------------------------------------------------
(* The parser. *)

\* A byte of the ring is a byte, four of them a number.
LEMMA BytesRead ==
    ASSUME NEW r \in Rings(Byte), NEW i \in Nat
    PROVE  pg_ring_get(r, i) \in Byte /\ U32At(r, i) \in Nat
  <1>1. ASSUME NEW k \in Nat
        PROVE  pg_ring_get(r, k) \in Byte
    BY GetIsByte
  <1>2. /\ pg_ring_get(r, i) \in Byte /\ pg_ring_get(r, i + 1) \in Byte
        /\ pg_ring_get(r, i + 2) \in Byte /\ pg_ring_get(r, i + 3) \in Byte
    BY <1>1
  <1>3. ASSUME NEW a \in Byte, NEW b \in Byte, NEW c \in Byte, NEW d \in Byte
        PROVE  BigEndian(a, b, c, d) \in Nat
    BY DEF Byte, BigEndian
  <1>5. U32At(r, i) \in Nat
    BY <1>2, <1>3 DEF U32At
  <1> QED
    BY <1>2, <1>5

\* A result of the parser that consumes at most n bytes.
Result(x, n) ==
    \E e, m, t : x = [err |-> e, msg |-> m, taken |-> t] /\ t \in 0 .. n

\* A message that is not there in full is not consumed, and one that is does
\* not reach beyond what has arrived.
LEMMA ParseTakesWhatIsThere ==
    ASSUME NEW r \in Rings(Byte)
    PROVE  Result(parse_message(r), r.len)
  <1> DEFINE announced_len == U32At(r, 0)
             tag           == pg_ring_get(r, 4)
  <1>1. announced_len \in Nat /\ r.len \in Nat
    BY BytesRead, RingFields
  <1>2. ASSUME NEW n \in 0 .. r.len, NEW m
        PROVE  Result(NeedMore(n), r.len) /\ Result(Rejected(n), r.len) /\ Result(Parsed(m, n), r.len)
    BY DEF Result, NeedMore, Rejected, Parsed
  <1> HIDE DEF announced_len, tag
  <1>3. ASSUME r.len >= 5, HasFittingLength(tag, announced_len), IsComplete(r, announced_len)
        PROVE  Result(parse_body(r, tag, announced_len), r.len)
    <2>1. announced_len + 4 \in 0 .. r.len
      BY <1>1, <1>3 DEF IsComplete
    <2>2. CASE tag = PT_HAVE
      <3>1. 9 \in 0 .. r.len
        BY <2>1, <2>2, <1>3 DEF HasFittingLength, PT_HAVE, PT_BITFIELD, PT_REQUEST, PT_PIECE, PT_CANCEL
      <3>2. parse_body(r, tag, announced_len) =
              IF U32At(r, 5) > M.pieces_count
              THEN Rejected(9) ELSE Parsed([kind |-> "have", have |-> U32At(r, 5)], 9)
        BY <2>2 DEF parse_body, PT_HAVE, PT_BITFIELD, PT_REQUEST, PT_PIECE, PT_CANCEL
      <3> QED
        BY <3>1, <3>2, <1>2
    <2>3. CASE tag = PT_BITFIELD
      <3>1. parse_body(r, tag, announced_len) = parse_bitfield(r, announced_len)
        BY <2>3 DEF parse_body, PT_HAVE, PT_BITFIELD, PT_REQUEST, PT_PIECE, PT_CANCEL
      <3> QED
        BY <3>1, <2>1, <1>2 DEF parse_bitfield
    <2>4. CASE tag = PT_PIECE
      <3>1. 13 \in 0 .. r.len
        BY <2>1, <2>4, <1>3, <1>1 DEF HasFittingLength, PT_HAVE, PT_BITFIELD, PT_REQUEST, PT_PIECE, PT_CANCEL
      <3>2. parse_body(r, tag, announced_len) = parse_piece(r, announced_len)
        BY <2>4 DEF parse_body, PT_HAVE, PT_BITFIELD, PT_REQUEST, PT_PIECE, PT_CANCEL
      <3> QED
        BY <3>1, <3>2, <2>1, <1>2 DEF parse_piece
    <2>5. CASE tag \in {PT_REQUEST, PT_CANCEL}
      <3>1. 17 \in 0 .. r.len
        BY <2>1, <2>5, <1>3 DEF HasFittingLength, PT_HAVE, PT_BITFIELD, PT_REQUEST, PT_PIECE, PT_CANCEL
      <3>2. \E m : parse_body(r, tag, announced_len) = Parsed(m, 17)
        BY <2>5 DEF parse_body, PT_HAVE, PT_BITFIELD, PT_REQUEST, PT_PIECE, PT_CANCEL
      <3> QED
        BY <3>1, <3>2, <1>2
    <2> QED
      BY <1>3, <2>2, <2>3, <2>4, <2>5 DEF HasFittingLength
  <1>4. parse_message(r) =
          IF r.len < 4 THEN NeedMore(0)
          ELSE IF announced_len = 0 THEN Parsed([kind |-> "heartbeat"], 4)
          ELSE IF announced_len > MaxMessageLength THEN Rejected(0)
          ELSE IF r.len < 5 THEN NeedMore(0)
          ELSE IF tag \in FlagTags THEN Parsed([kind |-> Flag(tag)], 5)
          ELSE IF ~HasFittingLength(tag, announced_len) THEN Rejected(0)
          ELSE IF ~IsComplete(r, announced_len) THEN NeedMore(0)
          ELSE parse_body(r, tag, announced_len)
    BY DEF parse_message, announced_len, tag
  <1>5. 0 \in 0 .. r.len /\ (~(r.len < 4) => 4 \in 0 .. r.len) /\ (~(r.len < 5) => 5 \in 0 .. r.len /\ r.len >= 5)
    BY <1>1
  <1> QED
    BY <1>2, <1>3, <1>4, <1>5

\* The same for the handshake and the message behind it.
LEMMA ParserTakesWhatIsThere ==
    ASSUME NEW r \in Rings(Byte)
    PROVE  peer_message_parse(r).taken \in 0 .. r.len
  <1> DEFINE shake == peer_check_handshaked(r)
             after == pg_ring_consume_front(r, shake.taken)
             rest  == parse_message(after)
  <1>1. Len(Handshake) \in Nat
    BY HandshakeAssumption DEF Handshake
  <1>2. \/ shake = Parsed(NoMessage, 0) \/ shake = NeedMore(0)
        \/ /\ r.len >= Len(Handshake)
           /\ \/ shake = Parsed(NoMessage, Len(Handshake))
              \/ shake = Rejected(Len(Handshake))
    BY <1>1, RingFields, SMT DEF peer_check_handshaked
  <1>3. shake.taken \in 0 .. r.len
    <2> HIDE DEF shake
    <2> QED
      BY <1>1, <1>2, RingFields DEF Parsed, NeedMore, Rejected
  <1> HIDE DEF shake
  <1>4. after \in Rings(Byte) /\ after.len = r.len - shake.taken
    BY <1>3, ConsumeFrontDrops
  <1> HIDE DEF after
  <1>5. Result(rest, r.len - shake.taken)
    BY <1>4, ParseTakesWhatIsThere
  <1> HIDE DEF rest
  <1>6. rest.taken \in 0 .. r.len - shake.taken
    BY <1>5 DEF Result
  <1>7. peer_message_parse(r).taken \in {shake.taken, shake.taken + rest.taken}
    BY DEF peer_message_parse, shake, after, rest
  <1>8. shake.taken + rest.taken \in 0 .. r.len
    BY <1>3, <1>6, RingFields
  <1> QED
    BY <1>3, <1>7, <1>8

-----------------------------------------------------------------------------
(* The invariant. *)

IInv ==
    /\ TypeOK
    /\ recv_data.len <= delivered
    /\ RingHoldsTheRest

\* The ring is empty at first.
LEMMA InitHolds == Init => IInv
  <1> SUFFICES ASSUME Init
               PROVE  IInv
    OBVIOUS
  <1>1. stream \in Seq(Byte)
    <2>1. Remote(opening, sent) /\ Len(sent) \in 0 .. Len(sent)
      BY RemotesAre DEF Init, Remote
    <2> QED
      BY <2>1, WiresAreBytes DEF Init, Wire
  <1>2. recv_data \in Rings(Byte) /\ recv_data.len = 0
    BY DEF Init, pg_ring_init, Rings, Byte
  <1>3. /\ handshaked = FALSE /\ connection = "open" /\ reading = FALSE
        /\ aborted = FALSE /\ delivered = 0 /\ failed = {}
    BY DEF Init
  <1>4. TypeOK
    <2>1. delivered \in 0 .. Len(stream)
      BY <1>1, <1>3
    <2>2. failed \subseteq AllFaults
      BY <1>3
    <2>3. recv_data \in Rings(Byte)
      BY <1>2
    <2> QED
      BY <1>1, <1>3, <2>1, <2>2, <2>3, Zenon DEF TypeOK, Rings, Byte, Slots
  <1>5. RingHoldsTheRest
    BY <1>2 DEF RingHoldsTheRest
  <1> QED
    BY <1>2, <1>3, <1>4, <1>5 DEF IInv

\* A read appends the next bytes of the connection.
LEMMA ReadHolds ==
    ASSUME IInv, NEW n \in 1 .. ReadLength, Read(n)
    PROVE  IInv'
  <1>1. /\ recv_data \in Rings(Byte) /\ stream \in Seq(Byte)
        /\ delivered \in Nat /\ delivered + n <= Len(stream) /\ n \in Nat
        /\ stream' = stream
    BY DEF IInv, TypeOK, Read, Rings, Byte, remoteVars
  <1>2. CASE n > pg_ring_space(recv_data)
    <2>1. /\ aborted' = TRUE
          /\ UNCHANGED <<recv_data, delivered, reading, handshaked, connection, stream, failed>>
      BY <1>2 DEF Read, remoteVars
    <2>2. TypeOK'
      BY <2>1 DEF IInv, TypeOK
    <2>3. RingHoldsTheRest'
      BY <2>1 DEF IInv, RingHoldsTheRest
    <2> QED
      BY <2>1, <2>2, <2>3 DEF IInv
  <1>3. CASE ~(n > pg_ring_space(recv_data))
    <2> DEFINE bytes == SubSeq(stream, delivered + 1, delivered + n)
    <2>1. /\ bytes \in Seq(Byte)
          /\ Len(bytes) = n
          /\ \A j \in 0 .. n - 1 : bytes[j + 1] = stream[delivered + j + 1]
      <3>1. /\ delivered + 1 \in Int /\ delivered + n \in Int /\ delivered + 1 <= delivered + n
            /\ \A i \in delivered + 1 .. delivered + n : stream[i] \in Byte
        BY <1>1
      <3>2. /\ bytes \in Seq(Byte)
            /\ Len(bytes) = (delivered + n) - (delivered + 1) + 1
            /\ \A i \in 1 .. (delivered + n) - (delivered + 1) + 1 : bytes[i] = stream[(delivered + 1) + i - 1]
        BY <3>1, SubSeqProperties
      <3> HIDE DEF bytes
      <3>3. ASSUME NEW j \in 0 .. n - 1
            PROVE  bytes[j + 1] = stream[delivered + j + 1]
        <4>1. /\ j + 1 \in 1 .. (delivered + n) - (delivered + 1) + 1
              /\ (delivered + 1) + (j + 1) - 1 = delivered + j + 1
          BY <1>1
        <4> QED
          BY <3>2, <4>1
      <3> QED
        BY <1>1, <3>2, <3>3
    <2>2. /\ recv_data' = pg_ring_push_backv(recv_data, bytes)
          /\ delivered' = delivered + n
          /\ reading' = TRUE
      BY <1>3 DEF Read
    <2>3. recv_data.len \in Nat /\ recv_data.len <= delivered /\ n <= RingCap - recv_data.len
      BY <1>1, <1>3, RingFields DEF pg_ring_space, IInv
    <2> HIDE DEF bytes
    <2>4. /\ recv_data' \in Rings(Byte)
          /\ recv_data'.len = recv_data.len + n
          /\ \A i \in 0 .. recv_data.len - 1 :
               pg_ring_get(recv_data', i) = pg_ring_get(recv_data, i)
          /\ \A j \in 0 .. n - 1 : pg_ring_get(recv_data', recv_data.len + j) = bytes[j + 1]
      <3>1. Len(bytes) <= RingCap - recv_data.len
        BY <2>1, <2>3
      <3> QED
        BY <1>1, <2>1, <2>2, <3>1, PushBackvAppends
    <2>5. TypeOK'
      <3>1. /\ handshaked' = handshaked /\ connection' = connection
            /\ failed' = failed /\ aborted' = aborted
        BY <1>3 DEF Read
      <3>2. delivered' \in 0 .. Len(stream')
        BY <1>1, <2>2
      <3> QED
        BY <1>1, <2>2, <2>4, <3>1, <3>2 DEF IInv, TypeOK, Rings, Byte
    <2>6. RingHoldsTheRest'
      <3> SUFFICES ASSUME NEW i \in 0 .. recv_data'.len - 1
                   PROVE  pg_ring_get(recv_data', i) = stream[delivered' - recv_data'.len + i + 1]
        BY <1>1 DEF RingHoldsTheRest
      <3>1. delivered' - recv_data'.len + i + 1 = delivered - recv_data.len + i + 1
        BY <1>1, <2>2, <2>3, <2>4
      <3>2. CASE i < recv_data.len
        <4>1. i \in 0 .. recv_data.len - 1
          BY <2>3, <2>4, <3>2
        <4>2. pg_ring_get(recv_data', i) = pg_ring_get(recv_data, i)
          BY <2>4, <4>1
        <4>3. pg_ring_get(recv_data, i) = stream[delivered - recv_data.len + i + 1]
          BY <4>1 DEF IInv, RingHoldsTheRest
        <4> QED
          BY <3>1, <4>2, <4>3, Zenon
      <3>3. CASE ~(i < recv_data.len)
        <4> DEFINE j == i - recv_data.len
        <4>1. /\ j \in 0 .. n - 1
              /\ recv_data.len + j = i
              /\ delivered + j + 1 = delivered - recv_data.len + i + 1
          <5>1. i \in Nat /\ i < recv_data.len + n
            BY <1>1, <2>3, <2>4
          <5> DEFINE l == recv_data.len
          <5>2. l \in Nat /\ ~(i < l) /\ i < l + n /\ n \in Nat /\ delivered \in Nat
            BY <1>1, <2>3, <3>3, <5>1
          <5> HIDE DEF l
          <5>3. i - l \in 0 .. n - 1 /\ l + (i - l) = i /\ delivered + (i - l) + 1 = delivered - l + i + 1
            BY <5>1, <5>2
          <5> QED
            BY <5>3 DEF l
        <4> HIDE DEF j
        <4>2. pg_ring_get(recv_data', recv_data.len + j) = bytes[j + 1]
          BY <2>4, <4>1
        <4>3. bytes[j + 1] = stream[delivered + j + 1]
          BY <2>1, <4>1
        <4> QED
          BY <3>1, <4>1, <4>2, <4>3, Zenon
      <3> QED
        BY <3>2, <3>3
    <2> QED
      BY <1>1, <2>2, <2>3, <2>4, <2>5, <2>6 DEF IInv
  <1> QED
    BY <1>2, <1>3

\* A round of the loop takes bytes from the front and leaves the others.
LEMMA ConsumeHolds ==
    ASSUME IInv, Consume(peer_message_parse(recv_data)),
           reading' \in BOOLEAN, connection' \in {"open", "closing"}, failed' \subseteq AllFaults
    PROVE  IInv'
  <1> DEFINE n == peer_message_parse(recv_data).taken
  <1>1. recv_data \in Rings(Byte) /\ delivered \in Nat /\ recv_data.len <= delivered
    BY DEF IInv, TypeOK, Rings, Byte
  <1>2. n \in 0 .. recv_data.len
    BY <1>1, ParserTakesWhatIsThere
  <1>3. /\ recv_data' = pg_ring_consume_front(recv_data, n)
        /\ stream' = stream /\ delivered' = delivered /\ aborted' = aborted
        /\ handshaked' \in BOOLEAN
    BY DEF Consume, remoteVars
  <1> HIDE DEF n
  <1>4. /\ recv_data' \in Rings(Byte)
        /\ recv_data'.len = recv_data.len - n
        /\ \A i \in Nat : pg_ring_get(recv_data', i) = pg_ring_get(recv_data, n + i)
    BY <1>1, <1>2, <1>3, ConsumeFrontDrops
  <1>5. TypeOK'
    BY <1>3, <1>4 DEF IInv, TypeOK, Rings, Byte
  <1>6. RingHoldsTheRest'
    <2> SUFFICES ASSUME NEW i \in 0 .. recv_data'.len - 1
                 PROVE  pg_ring_get(recv_data', i) = stream[delivered' - recv_data'.len + i + 1]
      BY <1>3 DEF RingHoldsTheRest
    <2>1. recv_data.len \in Nat
      BY <1>1, RingFields
    <2>2. /\ n + i \in 0 .. recv_data.len - 1
          /\ delivered' - recv_data'.len + i + 1 = delivered - recv_data.len + (n + i) + 1
      BY <1>1, <1>2, <1>3, <1>4, <2>1
    <2> QED
      BY <1>4, <2>2 DEF IInv, RingHoldsTheRest
  <1> QED
    BY <1>1, <1>2, <1>3, <1>4, <1>5, <1>6, RingFields DEF IInv

\* No step disturbs the invariant about bytes.
LEMMA StepHolds == IInv /\ [Next]_vars => IInv'
  <1> SUFFICES ASSUME IInv, [Next]_vars
               PROVE  IInv'
    OBVIOUS
  <1>1. ASSUME NEW n \in 1 .. ReadLength, Read(n)
        PROVE  IInv'
    BY <1>1, ReadHolds
  <1>2. CASE ReadFails
    BY <1>2 DEF ReadFails, IInv, TypeOK, RingHoldsTheRest, AllFaults, remoteVars
  <1>3. CASE NeedsMore
    <2>1. /\ Consume(peer_message_parse(recv_data))
          /\ reading' \in BOOLEAN
          /\ connection' \in {"open", "closing"}
          /\ failed' \subseteq AllFaults
      BY <1>3 DEF NeedsMore, IInv, TypeOK
    <2> QED
      BY <2>1, ConsumeHolds
  <1>4. CASE RejectMessage
    <2>1. /\ Consume(peer_message_parse(recv_data))
          /\ reading' \in BOOLEAN
          /\ connection' \in {"open", "closing"}
          /\ failed' \subseteq AllFaults
      BY <1>4 DEF RejectMessage, IInv, TypeOK
    <2> QED
      BY <2>1, ConsumeHolds
  <1>5. CASE HandleMessage
    <2>1. /\ Consume(peer_message_parse(recv_data))
          /\ reading' \in BOOLEAN
          /\ connection' \in {"open", "closing"}
          /\ failed' \subseteq AllFaults
      BY <1>5 DEF HandleMessage, IInv, TypeOK, AllFaults, KeepsParsing
    <2> QED
      BY <2>1, ConsumeHolds
  <1>6. CASE UNCHANGED vars
    BY <1>6 DEF vars, remoteVars, IInv, TypeOK, RingHoldsTheRest
  <1> QED
    BY <1>1, <1>2, <1>3, <1>4, <1>5, <1>6 DEF Next

\* Offset and length of the ring stay within its memory, for every capacity,
\* every size of reads and every sequence of bytes a remote may send.
THEOREM TypeCorrect == Spec => []TypeOK
  <1>1. IInv => TypeOK
    BY DEF IInv
  <1> QED
    BY <1>1, InitHolds, StepHolds, PTL DEF Spec

\* The parser reads the very bytes of the connection: pg_ring_push_backv,
\* pg_ring_pop_front and pg_ring_consume_front make the ring a queue.
THEOREM RingIsAQueue == Spec => []RingHoldsTheRest
  <1>1. IInv => RingHoldsTheRest
    BY DEF IInv
  <1> QED
    BY <1>1, InitHolds, StepHolds, PTL DEF Spec

-----------------------------------------------------------------------------
(* The connection as a sequence of messages. *)

\* As long as something may still be handled, the ring holds what follows the
\* last message handled, or what has arrived of the handshake.
Aligned ==
    reading \/ connection = "open" =>
        IF handshaked
        THEN delivered - recv_data.len = Len(Wire(Len(handled)))
        ELSE delivered = recv_data.len /\ handled = <<>>

\* When a read callback has returned, that is no whole message.
Drained ==
    connection = "open" /\ ~reading =>
        IF handshaked
        THEN Len(handled) < Len(sent) => recv_data.len < Len(Encode(sent[Len(handled) + 1]))
        ELSE recv_data.len < 4

\* The invariant: the bytes (IInv), where the parser is in them, and what
\* follows from that about closing and overflowing.
StreamInv ==
    /\ IInv
    /\ opening \in Openings /\ sent \in Streams /\ stream = Wire(Len(sent))
    /\ handled \in Seq(Messages) /\ Len(handled) <= Len(sent)
    /\ Aligned
    /\ Drained
    /\ connection = "closing" /\ failed = {} => ~reading
    /\ HonestPeersAreKept
    /\ OverflowsOnlyOnLongMessages

\* What the invariant says of types, for the lemmas below.
LEMMA StreamTypes ==
    ASSUME StreamInv
    PROVE  /\ recv_data \in Rings(Byte) /\ recv_data.len \in Nat /\ recv_data.len <= RingCap
           /\ delivered \in Nat /\ delivered <= Len(stream) /\ recv_data.len <= delivered
           /\ Remote(opening, sent) /\ Len(opening) = Len(Handshake)
           /\ BigEndian(opening[1], opening[2], opening[3], opening[4]) > MaxMessageLength
           /\ Len(handled) \in Nat /\ Len(sent) \in Nat /\ Len(handled) <= Len(sent)
           /\ stream = Wires(opening, sent)[Len(sent)] /\ Len(stream) \in Nat
  <1>1. recv_data \in Rings(Byte) /\ delivered \in 0 .. Len(stream) /\ stream \in Seq(Byte)
    BY DEF StreamInv, IInv, TypeOK, Rings, Byte
  <1>2. recv_data.len \in Nat /\ recv_data.len <= RingCap
    BY <1>1, RingFields
  <1>3. /\ Remote(opening, sent) /\ Len(opening) = Len(Handshake)
        /\ BigEndian(opening[1], opening[2], opening[3], opening[4]) > MaxMessageLength
    BY RemotesAre DEF StreamInv
  <1>4. /\ Len(handled) \in Nat /\ Len(sent) \in Nat /\ Len(handled) <= Len(sent)
    BY <1>3 DEF StreamInv, Remote
  <1>5. recv_data.len <= delivered /\ stream = Wires(opening, sent)[Len(sent)]
    BY DEF StreamInv, IInv, Wire
  <1>6. delivered \in Nat /\ delivered <= Len(stream) /\ Len(stream) \in Nat
    BY <1>1
  <1> QED
    BY <1>1, <1>2, <1>3, <1>4, <1>5, <1>6, Zenon

\* What is behind the last message handled is the next one.
NextShown(s) ==
    /\ Len(handled) < Len(sent) => Shows(s, Encode(sent[Len(handled) + 1]))
    /\ Len(handled) >= Len(sent) => s.len = 0

\* Ring s is recv_data without its first n bytes.
Rest(s, n) ==
    /\ s \in Rings(Byte)
    /\ n \in 0 .. recv_data.len
    /\ s.len = recv_data.len - n
    /\ \A i \in Nat : pg_ring_get(s, i) = pg_ring_get(recv_data, n + i)

\* When n bytes of the ring are behind the parser and those are the last of
\* message k, the rest shows message k + 1.
LEMMA RestIsShown ==
    ASSUME StreamInv, NEW s, NEW n, Rest(s, n),
           delivered - s.len = Len(Wire(Len(handled)))
    PROVE  NextShown(s)
  <1> DEFINE k == Len(handled)
             w == Wires(opening, sent)
  <1>1. /\ recv_data \in Rings(Byte) /\ recv_data.len \in Nat
        /\ delivered \in Nat /\ delivered <= Len(stream)
        /\ Remote(opening, sent)
        /\ k \in Nat /\ Len(sent) \in Nat /\ k <= Len(sent)
        /\ stream = w[Len(sent)]
    BY StreamTypes
  <1>2. s.len = recv_data.len - n /\ n \in Nat /\ n <= recv_data.len /\ s.len \in Nat
    <2>1. s \in Rings(Byte) /\ s.len = recv_data.len - n /\ n \in 0 .. recv_data.len
      BY DEF Rest
    <2>2. s.len \in Nat
      BY <2>1, RingFields
    <2> QED
      BY <1>1, <2>1, <2>2
  <1>3. delivered - s.len = Len(w[k])
    BY DEF Wire
  <1> HIDE DEF k, w
  <1>4. ASSUME k < Len(sent)
        PROVE  Shows(s, Encode(sent[k + 1]))
    <2> DEFINE e == Encode(sent[k + 1])
    <2>1. k \in 0 .. Len(sent) - 1
      BY <1>1, <1>4
    <2>2. /\ Len(e) \in Nat /\ Len(w[k]) \in Nat
          /\ \A i \in 1 .. Len(e) : w[Len(sent)][Len(w[k]) + i] = e[i]
      <3>1. HasMessage(w, Len(sent), k, e)
        BY <1>1, <2>1, StreamHasMessage DEF w
      <3> QED
        BY <3>1 DEF HasMessage
    <2> HIDE DEF e
    <2>3. ASSUME NEW i \in 0 .. s.len - 1, i < Len(e)
          PROVE  pg_ring_get(s, i) = e[i + 1]
      <3>1. /\ i + 1 \in 1 .. Len(e) /\ i \in Nat /\ n + i \in 0 .. recv_data.len - 1
            /\ delivered - recv_data.len + (n + i) + 1 = Len(w[k]) + (i + 1)
        <4> DEFINE l == recv_data.len
                   d == delivered
                   c == Len(w[k])
                   t == s.len
                   x == Len(e)
        <4>1. /\ l \in Nat /\ d \in Nat /\ c \in Nat /\ t \in Nat /\ x \in Nat /\ n \in Nat
              /\ t = l - n /\ d - t = c /\ i \in 0 .. t - 1 /\ i < x
          BY <1>1, <1>2, <1>3, <2>2, <2>3
        <4> HIDE DEF l, d, c, t, x
        <4>2. i + 1 \in 1 .. x /\ i \in Nat /\ n + i \in 0 .. l - 1 /\ d - l + (n + i) + 1 = c + (i + 1)
          BY <4>1
        <4> QED
          BY <4>2 DEF l, d, c, t, x
      <3>2. pg_ring_get(s, i) = pg_ring_get(recv_data, n + i)
        BY <3>1 DEF Rest
      <3>3. pg_ring_get(recv_data, n + i) = stream[delivered - recv_data.len + (n + i) + 1]
        BY <3>1 DEF StreamInv, IInv, RingHoldsTheRest
      <3>4. w[Len(sent)][Len(w[k]) + (i + 1)] = e[i + 1]
        BY <2>2, <3>1
      <3> QED
        BY <1>1, <3>1, <3>2, <3>3, <3>4, Zenon
    <2>4. Shows(s, e)
      BY <2>3 DEF Shows
    <2> QED
      BY <2>4 DEF e
  <1>5. ASSUME k >= Len(sent)
        PROVE  s.len = 0
    <2>1. k = Len(sent)
      BY <1>1, <1>5
    <2>2. Len(stream) - s.len <= delivered - s.len => s.len = 0 \/ s.len > 0
      BY <1>2
    <2>3. delivered - s.len = Len(stream)
      BY <1>1, <1>3, <2>1
    <2> QED
      BY <1>1, <1>2, <2>3
  <1> QED
    BY <1>4, <1>5 DEF NextShown, k

\* What comes of parsing there.
NextParsed(p, len) ==
    LET m == sent[Len(handled) + 1]
    IN  \/ /\ p = NeedMore(0)
           /\ Len(handled) < Len(sent) => len < Len(Encode(m))
        \/ /\ Len(handled) < Len(sent)
           /\ FollowsProtocol(m)
           /\ Len(Encode(m)) <= len
           /\ p = Parsed(m, Len(Encode(m)))
        \/ /\ Len(handled) < Len(sent)
           /\ ~Welcome(m)
           /\ \E n : p = Rejected(n)

\* So parse_message finds, awaits or rejects that one.
LEMMA NextIsParsed ==
    ASSUME StreamInv, NEW s \in Rings(Byte), NextShown(s)
    PROVE  NextParsed(parse_message(s), s.len)
  <1> DEFINE k == Len(handled)
             m == sent[k + 1]
  <1>1. /\ Remote(opening, sent)
        /\ k \in Nat /\ Len(sent) \in Nat /\ k <= Len(sent) /\ s.len \in Nat
    BY StreamTypes, RingFields
  <1>2. CASE k < Len(sent)
    <2>1. k + 1 \in 1 .. Len(sent)
      BY <1>1, <1>2
    <2>2. Sendable(m)
      BY <1>1, <2>1 DEF Remote
    <2>3. Shows(s, Encode(m))
      BY <1>2 DEF NextShown
    <2> HIDE DEF m, k
    <2>4. Outcome(s, m) /\ Len(Encode(m)) \in Nat
      BY <2>2, <2>3, MessageParsed
    <2>5. s.len >= Len(Encode(m)) => Len(Encode(m)) <= s.len
      BY <1>1, <2>4
    <2> QED
      BY <1>2, <2>4, <2>5, Zenon DEF Outcome, NextParsed, m, k
  <1>3. CASE ~(k < Len(sent))
    <2>1. s.len = 0
      BY <1>1, <1>3 DEF NextShown
    <2>2. parse_message(s) = NeedMore(0)
      BY <2>1 DEF parse_message
    <2> QED
      BY <1>3, <2>2 DEF NextParsed
  <1> QED
    BY <1>2, <1>3

-----------------------------------------------------------------------------
(* The handshake. *)

\* A part of a sequence, from its elements.
LEMMA SubSeqIs ==
    ASSUME NEW s \in Seq(Byte), NEW t \in Seq(Byte), NEW a \in Nat,
           a + Len(t) <= Len(s), \A i \in 1 .. Len(t) : s[a + i] = t[i]
    PROVE  SubSeq(s, a + 1, a + Len(t)) = t
  <1> DEFINE n == Len(t)
             u == SubSeq(s, a + 1, a + n)
  <1>1. n \in Nat /\ Len(s) \in Nat /\ a + 1 \in Int /\ a + n \in Int
    OBVIOUS
  <1>2. ASSUME NEW i \in (a + 1) .. (a + n)
        PROVE  s[i] \in Byte
    BY <1>1
  <1>3. /\ u \in Seq(Byte)
        /\ Len(u) = IF a + 1 <= a + n THEN (a + n) - (a + 1) + 1 ELSE 0
        /\ \A i \in 1 .. (a + n) - (a + 1) + 1 : u[i] = s[(a + 1) + i - 1]
    BY <1>1, <1>2, SubSeqProperties
  <1> HIDE DEF u
  <1>4. Len(u) = n
    BY <1>1, <1>3
  <1>5. ASSUME NEW i \in 1 .. n
        PROVE  u[i] = t[i]
    <2>1. i \in 1 .. (a + n) - (a + 1) + 1 /\ (a + 1) + i - 1 = a + i
      BY <1>1
    <2> QED
      BY <1>3, <2>1
  <1>6. u = t
    <2>1. Len(u) = Len(t) /\ \A i \in 1 .. Len(u) : u[i] = t[i]
      BY <1>4, <1>5
    <2> QED
      BY <1>3, <2>1, SeqEqual
  <1> QED
    BY <1>6 DEF u

\* Where the handshake has its first bytes and the info hash.
LEMMA HandshakeParts ==
    LET hash_at == Len(Header \o Reserved)
    IN  /\ Handshake \in Seq(Byte) /\ Len(Handshake) \in Nat
        /\ SubSeq(Handshake, 1, Len(Header)) = Header
        /\ SubSeq(Handshake, hash_at + 1, hash_at + Len(InfoHash)) = InfoHash
  <1> DEFINE p == Header \o Reserved
             q == p \o InfoHash
             s == q \o PeerId
             h == Len(Header)
             l == Len(p)
             n == Len(InfoHash)
             o == Len(PeerId)
  <1>1. /\ Header \in Seq(Byte) /\ Reserved \in Seq(Byte)
        /\ InfoHash \in Seq(Byte) /\ PeerId \in Seq(Byte)
    BY HandshakeAssumption DEF Byte
  <1>2. Joins(p, Header, Reserved, h, Len(Reserved))
    BY <1>1, Joined
  <1> HIDE DEF p
  <1>3. Joins(q, p, InfoHash, l, n)
    BY <1>1, <1>2, Joined DEF Joins
  <1> HIDE DEF q
  <1>4. Joins(s, q, PeerId, Len(q), o)
    BY <1>1, <1>3, Joined DEF Joins
  <1> HIDE DEF s
  <1>5. /\ h \in Nat /\ Len(Reserved) \in Nat /\ n \in Nat /\ o \in Nat
        /\ l = h + Len(Reserved) /\ Len(q) = l + n /\ Len(s) = (l + n) + o
        /\ s \in Seq(Byte)
    BY <1>1, <1>2, <1>3, <1>4 DEF Joins
  <1>6. ASSUME NEW i \in 1 .. h
        PROVE  s[0 + i] = Header[i]
    <2>1. i \in 1 .. l /\ i \in 1 .. Len(q) /\ 0 + i = i
      BY <1>5
    <2>2. s[i] = q[i] /\ q[i] = p[i] /\ p[i] = Header[i]
      BY <1>2, <1>3, <1>4, <2>1 DEF Joins
    <2> QED
      BY <2>1, <2>2
  <1>7. ASSUME NEW i \in 1 .. n
        PROVE  s[l + i] = InfoHash[i]
    <2>1. l + i \in 1 .. Len(q)
      BY <1>5
    <2>2. s[l + i] = q[l + i]
      BY <1>4, <2>1 DEF Joins
    <2>3. q[l + i] = InfoHash[i]
      BY <1>3 DEF Joins
    <2> QED
      BY <2>2, <2>3
  <1>8. SubSeq(s, 0 + 1, 0 + h) = Header
    <2>1. 0 + h <= Len(s)
      BY <1>5
    <2> QED
      BY <1>1, <1>5, <1>6, <2>1, SubSeqIs
  <1>9. SubSeq(s, l + 1, l + n) = InfoHash
    <2>1. l + n <= Len(s) /\ l \in Nat
      BY <1>5
    <2> QED
      BY <1>1, <1>5, <1>7, <2>1, SubSeqIs
  <1>10. Handshake = s
    BY DEF Handshake, s, q, p
  <1>11. 0 + 1 = 1 /\ 0 + h = h
    BY <1>5
  <1> QED
    BY <1>5, <1>8, <1>9, <1>10, <1>11 DEF p

\* What peer_check_handshaked finds while the peer reads.
Checked(check) ==
    \/ /\ handshaked
       /\ check = Parsed(NoMessage, 0)
    \/ /\ ~handshaked
       /\ recv_data.len < Len(Handshake)
       /\ check = NeedMore(0)
    \/ /\ ~handshaked
       /\ recv_data.len >= Len(Handshake)
       /\ check = Parsed(NoMessage, Len(Handshake))
    \/ /\ ~handshaked
       /\ recv_data.len >= Len(Handshake)
       /\ check = Rejected(Len(Handshake))
       /\ opening # Handshake

\* The beginning of the ring is the opening.
LEMMA OpeningShown ==
    ASSUME StreamInv, reading, ~handshaked
    PROVE  Shows(recv_data, opening)
  <1> DEFINE w == Wires(opening, sent)
  <1>1. /\ recv_data.len \in Nat /\ delivered \in Nat
        /\ Remote(opening, sent) /\ Len(sent) \in Nat
        /\ stream = w[Len(sent)]
    BY StreamTypes
  <1>2. delivered = recv_data.len
    BY DEF StreamInv, Aligned
  <1>3. w[0] = opening
    BY <1>1, WiresAre DEF Remote
  <1>4. Extends(w[Len(sent)], w[0])
    <2>1. 0 \in 0 .. Len(sent) /\ Len(sent) \in 0 .. Len(sent)
      BY <1>1
    <2> QED
      BY <1>1, <2>1, WiresExtend
  <1> HIDE DEF w
  <1>5. Extends(stream, opening)
    BY <1>1, <1>3, <1>4
  <1>6. ASSUME NEW i \in 0 .. recv_data.len - 1, i < Len(opening)
        PROVE  pg_ring_get(recv_data, i) = opening[i + 1]
    <2>1. /\ i + 1 \in 1 .. Len(opening)
          /\ delivered - recv_data.len + i + 1 = i + 1
      <3>1. Len(opening) \in Nat
        BY <1>1 DEF Remote
      <3> QED
        BY <1>1, <1>2, <1>6, <3>1
    <2>2. pg_ring_get(recv_data, i) = stream[delivered - recv_data.len + i + 1]
      BY DEF StreamInv, IInv, RingHoldsTheRest
    <2>3. stream[i + 1] = opening[i + 1]
      BY <1>5, <2>1 DEF Extends
    <2> QED
      BY <2>1, <2>2, <2>3
  <1> QED
    BY <1>6 DEF Shows

\* A handshake that is complete is accepted unless it is another one.
LEMMA HandshakeIsChecked ==
    ASSUME StreamInv, reading
    PROVE  Checked(peer_check_handshaked(recv_data))
  <1> DEFINE L == Len(Handshake)
             got == BytesAt(recv_data, 0, L)
             hash_at == Len(Header \o Reserved)
             Good == /\ SubSeq(got, 1, Len(Header)) = Header
                     /\ SubSeq(got, hash_at + 1, hash_at + Len(InfoHash)) = InfoHash
  <1>1. L \in Nat /\ recv_data.len \in Nat /\ Len(opening) = L
    BY HandshakeParts, StreamTypes
  <1>2. CASE handshaked
    BY <1>2 DEF peer_check_handshaked, Checked
  <1>3. CASE ~handshaked /\ recv_data.len < L
    BY <1>3 DEF peer_check_handshaked, Checked
  <1>4. CASE ~handshaked /\ ~(recv_data.len < L)
    <2>1. peer_check_handshaked(recv_data) = IF Good THEN Parsed(NoMessage, L) ELSE Rejected(L)
      BY <1>4 DEF peer_check_handshaked
    <2>2. ASSUME opening = Handshake
          PROVE  Good
      <3>1. ASSUME NEW i \in 1 .. L
            PROVE  pg_ring_get(recv_data, 0 + i - 1) = Handshake[i]
        <4>1. i - 1 \in Nat /\ i - 1 \in 0 .. recv_data.len - 1 /\ i - 1 < Len(opening)
              /\ (i - 1) + 1 = i /\ 0 + i - 1 = i - 1
          BY <1>1, <1>4
        <4>2. pg_ring_get(recv_data, i - 1) = opening[(i - 1) + 1]
          BY <1>4, <4>1, OpeningShown DEF Shows
        <4> QED
          BY <2>2, <4>1, <4>2
      <3>2. got = [i \in 1 .. L |-> Handshake[i]]
        BY <3>1 DEF BytesAt
      <3>3. Handshake = [i \in 1 .. L |-> Handshake[i]]
        BY HandshakeParts
      <3>4. got = Handshake
        BY <3>2, <3>3
      <3> HIDE DEF got
      <3> QED
        BY <3>4, HandshakeParts
    <2> HIDE DEF Good
    <2>3. recv_data.len >= L
      BY <1>1, <1>4
    <2> QED
      BY <1>4, <2>1, <2>2, <2>3 DEF Checked
  <1> QED
    BY <1>2, <1>3, <1>4

-----------------------------------------------------------------------------
(* A round of the read loop. *)

\* What of the ring is the handshake.
Base == IF handshaked THEN 0 ELSE Len(Handshake)

\* A handshake that has not arrived in full is taken for a message: too few
\* bytes for one are left alone, more of them are turned away.
CutShort(check, result) ==
    /\ ~handshaked /\ check.err # "none"
    /\ recv_data.len < Len(Handshake)
    /\ result.taken = 0
    /\ \/ result.err = "need_more" /\ recv_data.len < 4
       \/ result.err = "rejected" /\ recv_data.len >= 4

\* The remote has sent something else for a handshake.
Refused(check, result) ==
    /\ ~handshaked /\ check.err # "none"
    /\ result.err = "rejected"
    /\ opening # Handshake

\* The handshake is behind the parser, which finds what NextParsed says.
Shaken(check, result) ==
    /\ check.err = "none"
    /\ Base <= recv_data.len
    /\ delivered - (recv_data.len - Base) = Len(Wire(Len(handled)))
    /\ \E p : /\ NextParsed(p, recv_data.len - Base)
              /\ result = [err |-> p.err, msg |-> p.msg, taken |-> Base + p.taken]

\* One of these.
Rounds(check, result) ==
    CutShort(check, result) \/ Refused(check, result) \/ Shaken(check, result)

\* One call of peer_message_parse, wherever the connection was cut.
LEMMA RoundIs ==
    ASSUME StreamInv, reading
    PROVE  Rounds(peer_check_handshaked(recv_data), peer_message_parse(recv_data))
  <1> DEFINE r == recv_data
             check == peer_check_handshaked(r)
             s == pg_ring_consume_front(r, check.taken)
             p == parse_message(s)
             result == peer_message_parse(r)
             L == Len(Handshake)
  <1>1. /\ r \in Rings(Byte) /\ r.len \in Nat /\ L \in Nat /\ delivered \in Nat
        /\ Remote(opening, sent) /\ Len(opening) = L
        /\ BigEndian(opening[1], opening[2], opening[3], opening[4]) > MaxMessageLength
    BY StreamTypes, HandshakeParts
  <1>2. Checked(check)
    BY HandshakeIsChecked
  <1>3. /\ check.err = "rejected" => result = check
        /\ check.err # "rejected" =>
             result = [ err   |-> IF p.msg.kind = "heartbeat" THEN check.err ELSE p.err,
                        msg   |-> p.msg,
                        taken |-> check.taken + p.taken ]
    BY DEF peer_message_parse
  <1>4. ASSUME check.taken \in 0 .. r.len
        PROVE  Rest(s, check.taken)
    <2> DEFINE n == check.taken
    <2> HIDE DEF check
    <2>1. /\ s \in Rings(Byte)
          /\ s.len = r.len - n
          /\ \A i \in Nat : pg_ring_get(s, i) = pg_ring_get(r, n + i)
      BY <1>1, <1>4, ConsumeFrontDrops
    <2> HIDE DEF s
    <2> QED
      BY <1>4, <2>1 DEF Rest
  <1> HIDE DEF check, s, p, result
  <1>5. ASSUME check = NeedMore(0), ~handshaked, r.len < L
        PROVE  CutShort(check, result)
    <2>1. check.err = "need_more" /\ check.taken = 0
      BY <1>5 DEF NeedMore
    <2>2. Rest(s, 0)
      BY <1>1, <1>4, <2>1
    <2>3. s \in Rings(Byte) /\ s.len = r.len
      BY <1>1, <2>2 DEF Rest
    <2>4. Shows(r, opening)
      BY <1>5, OpeningShown
    <2>5. ASSUME s.len >= 4
          PROVE  p = Rejected(0)
      <3>1. /\ 0 \in Nat /\ 1 \in Nat /\ 2 \in Nat /\ 3 \in Nat
            /\ 0 \in 0 .. r.len - 1 /\ 1 \in 0 .. r.len - 1 /\ 2 \in 0 .. r.len - 1 /\ 3 \in 0 .. r.len - 1
            /\ 0 < Len(opening) /\ 1 < Len(opening) /\ 2 < Len(opening) /\ 3 < Len(opening)
            /\ 0 + 0 = 0 /\ 0 + 1 = 1 /\ 0 + 2 = 2 /\ 0 + 3 = 3 /\ 1 + 1 = 2 /\ 2 + 1 = 3 /\ 3 + 1 = 4
        BY <1>1, <1>5, <2>3, <2>5
      <3>2. /\ pg_ring_get(s, 0) = pg_ring_get(r, 0 + 0) /\ pg_ring_get(s, 1) = pg_ring_get(r, 0 + 1)
            /\ pg_ring_get(s, 2) = pg_ring_get(r, 0 + 2) /\ pg_ring_get(s, 3) = pg_ring_get(r, 0 + 3)
        BY <2>2, <3>1, Zenon DEF Rest
      <3>3. /\ pg_ring_get(r, 0) = opening[0 + 1] /\ pg_ring_get(r, 1) = opening[1 + 1]
            /\ pg_ring_get(r, 2) = opening[2 + 1] /\ pg_ring_get(r, 3) = opening[3 + 1]
        BY <2>4, <3>1, Zenon DEF Shows
      <3>4. /\ pg_ring_get(s, 0) = opening[1] /\ pg_ring_get(s, 1) = opening[2]
            /\ pg_ring_get(s, 2) = opening[3] /\ pg_ring_get(s, 3) = opening[4]
        BY <3>1, <3>2, <3>3
      <3>5. U32At(s, 0) = BigEndian(opening[1], opening[2], opening[3], opening[4])
        BY <3>1, <3>4 DEF U32At
      <3>6. U32At(s, 0) > MaxMessageLength /\ U32At(s, 0) # 0
        BY <1>1, <3>5, LimitsAssumption
      <3>7. p = Rejected(0)
        <4>1. ~(s.len < 4)
          BY <1>1, <2>3, <2>5
        <4> QED
          BY <3>6, <4>1 DEF p, parse_message
      <3> QED
        BY <3>7
    <2>6. ASSUME ~(s.len >= 4)
          PROVE  p = NeedMore(0) /\ s.len < 4
      <3>1. s.len < 4
        BY <1>1, <2>3, <2>6
      <3> QED
        BY <3>1 DEF p, parse_message
    <2>7. result = [ err   |-> IF p.msg.kind = "heartbeat" THEN check.err ELSE p.err,
                     msg   |-> p.msg,
                     taken |-> check.taken + p.taken ]
      BY <1>3, <2>1
    <2>8. CASE s.len >= 4
      <3>1. p = Rejected(0)
        BY <2>5, <2>8
      <3>2. result.err = "rejected" /\ result.taken = 0
        BY <2>1, <2>7, <3>1 DEF Rejected, NoMessage
      <3> QED
        BY <1>5, <2>1, <2>3, <2>8, <3>2 DEF CutShort
    <2>9. CASE ~(s.len >= 4)
      <3>1. p = NeedMore(0) /\ s.len < 4
        BY <2>6, <2>9
      <3>2. result.err = "need_more" /\ result.taken = 0
        BY <2>1, <2>7, <3>1 DEF NeedMore, NoMessage
      <3> QED
        BY <1>5, <2>1, <2>3, <3>1, <3>2 DEF CutShort
    <2> QED
      BY <2>8, <2>9
  <1>6. ASSUME check = Rejected(L), ~handshaked, opening # Handshake
        PROVE  Refused(check, result)
    <2>1. check.err = "rejected"
      BY <1>6 DEF Rejected
    <2> QED
      BY <1>3, <1>6, <2>1 DEF Refused
  <1>7. ASSUME check = Parsed(NoMessage, Base), Base <= r.len
        PROVE  Shaken(check, result)
    <2>1. check.err = "none" /\ check.taken = Base
      BY <1>7 DEF Parsed
    <2>2. Base \in 0 .. r.len
      BY <1>1, <1>7 DEF Base
    <2>3. Rest(s, Base)
      BY <1>4, <2>1, <2>2
    <2>4. s \in Rings(Byte) /\ s.len = r.len - Base
      BY <2>3 DEF Rest
    <2>5. delivered - (r.len - Base) = Len(Wire(Len(handled)))
      <3>1. CASE handshaked
        BY <1>1, <3>1 DEF StreamInv, Aligned, Base
      <3>2. CASE ~handshaked
        <4>1. delivered = r.len /\ handled = <<>>
          BY <3>2 DEF StreamInv, Aligned
        <4>2. Wires(opening, sent)[0] = opening
          BY <1>1, WiresAre DEF Remote
        <4>3. Len(handled) = 0 /\ Wire(0) = opening
          BY <4>1, <4>2 DEF Wire
        <4>4. Len(Wire(Len(handled))) = L
          BY <1>1, <4>3
        <4>5. Base = L
          BY <3>2 DEF Base
        <4> QED
          BY <1>1, <4>1, <4>4, <4>5
      <3> QED
        BY <3>1, <3>2
    <2>6. NextShown(s)
      BY <2>3, <2>4, <2>5, RestIsShown
    <2>7. NextParsed(p, r.len - Base)
      BY <2>4, <2>6, NextIsParsed DEF p
    <2>8. result = [ err   |-> IF p.msg.kind = "heartbeat" THEN "none" ELSE p.err,
                     msg   |-> p.msg,
                     taken |-> Base + p.taken ]
      BY <1>3, <2>1
    <2>9. p.msg.kind = "heartbeat" => p.err = "none"
      BY <2>7 DEF NextParsed, NeedMore, Rejected, Parsed, NoMessage
    <2>10. result = [err |-> p.err, msg |-> p.msg, taken |-> Base + p.taken]
      BY <2>8, <2>9
    <2> QED
      BY <1>7, <2>1, <2>5, <2>7, <2>10, Zenon DEF Shaken
  <1>8. Rounds(check, result)
    BY <1>1, <1>2, <1>5, <1>6, <1>7 DEF Checked, Base, Rounds
  <1> QED
    BY <1>8 DEF check, result

-----------------------------------------------------------------------------
(* The invariant about messages. *)

\* A step that leaves the remote alone leaves its bytes alone.
LEMMA WireStays ==
    ASSUME UNCHANGED remoteVars
    PROVE  \A k : Wire(k)' = Wire(k)
  BY DEF remoteVars, Wire

\* Nothing has arrived at first.
LEMMA StreamInitHolds == Init => StreamInv
  <1> SUFFICES ASSUME Init
               PROVE  StreamInv
    OBVIOUS
  <1>1. /\ handshaked = FALSE /\ connection = "open" /\ reading = FALSE
        /\ aborted = FALSE /\ delivered = 0 /\ failed = {} /\ handled = <<>>
        /\ sent \in Streams /\ opening \in Openings /\ stream = Wire(Len(sent))
        /\ recv_data.len = 0
    BY DEF Init, pg_ring_init
  <1>2. Len(sent) \in Nat
    BY <1>1, RemotesAre DEF Remote
  <1>3. handled \in Seq(Messages) /\ Len(handled) <= Len(sent)
    BY <1>1, <1>2
  <1>4. Aligned /\ Drained
    BY <1>1 DEF Aligned, Drained
  <1>5. HonestPeersAreKept /\ OverflowsOnlyOnLongMessages
    BY <1>1 DEF HonestPeersAreKept, OverflowsOnlyOnLongMessages
  <1> QED
    BY <1>1, <1>3, <1>4, <1>5, InitHolds DEF StreamInv

\* A read appends to the ring; the assertion of pg_ring_push_backv can only
\* fail when the message that the ring waits for is a long one.
LEMMA ReadKeeps ==
    ASSUME StreamInv, IInv', NEW n \in 1 .. ReadLength, Read(n)
    PROVE  StreamInv'
  <1>1. /\ recv_data \in Rings(Byte) /\ recv_data.len \in Nat /\ delivered \in Nat
        /\ Len(handled) \in Nat /\ Len(sent) \in Nat /\ Len(handled) <= Len(sent)
        /\ delivered <= Len(stream) /\ Len(stream) \in Nat
        /\ Remote(opening, sent)
    BY StreamTypes
  <1>2. /\ connection = "open" /\ ~reading /\ ~aborted
        /\ handshaked' = handshaked /\ connection' = connection
        /\ opening' = opening /\ sent' = sent /\ stream' = stream
        /\ handled' = handled /\ failed' = failed
        /\ n \in Nat /\ n <= ReadLength
    BY DEF Read, CanRead, remoteVars
  <1>3. \A k : Wire(k)' = Wire(k)
    BY <1>2, WireStays DEF remoteVars
  <1>4. HonestPeersAreKept'
    BY <1>2 DEF HonestPeersAreKept
  <1>5. CASE n > pg_ring_space(recv_data)
    <2>1. aborted' = TRUE /\ recv_data' = recv_data /\ delivered' = delivered /\ reading' = reading
      BY <1>5 DEF Read
    <2>2. Aligned' /\ Drained'
      BY <1>2, <1>3, <2>1 DEF StreamInv, Aligned, Drained
    <2>3. OverflowsOnlyOnLongMessages'
      <3>1. recv_data.len > RingCap - n
        BY <1>1, <1>2, <1>5 DEF pg_ring_space
      <3>2. recv_data.len >= 4
        BY <1>1, <1>2, <3>1
      <3>3. handshaked
        BY <1>1, <1>2, <3>2 DEF StreamInv, Drained
      <3> DEFINE k == Len(handled)
      <3>4. k < Len(sent)
        <4>1. delivered - recv_data.len = Len(Wire(k))
          BY <1>2, <3>3 DEF StreamInv, Aligned
        <4>2. k = Len(sent) => Len(Wire(k)) = Len(stream)
          BY DEF StreamInv
        <4> HIDE DEF k
        <4>3. k # Len(sent)
          BY <1>1, <3>2, <4>1, <4>2
        <4> QED
          BY <1>1, <4>3 DEF k
      <3>5. recv_data.len < Len(Encode(sent[k + 1]))
        BY <1>2, <3>3, <3>4 DEF StreamInv, Drained
      <3>6. Len(Encode(sent[k + 1])) \in Nat
        <4>1. k \in 0 .. Len(sent) - 1
          BY <1>1, <3>4
        <4>2. HasMessage(Wires(opening, sent), Len(sent), k, Encode(sent[k + 1]))
          BY <1>1, <4>1, StreamHasMessage
        <4> QED
          BY <4>2 DEF HasMessage
      <3>7. k + 1 \in DOMAIN sent
        BY <1>1, <3>4 DEF Remote
      <3>8. Len(Encode(sent[k + 1])) > LongestThatFits
        <4> DEFINE x == Len(Encode(sent[k + 1]))
        <4> HIDE DEF x
        <4>1. x \in Nat /\ recv_data.len < x
          BY <3>5, <3>6 DEF x
        <4>2. x > RingCap - ReadLength + 1
          BY <1>1, <1>2, <3>1, <4>1
        <4> QED
          BY <4>2 DEF x, LongestThatFits
      <3> HIDE DEF k
      <3>9. \E j \in DOMAIN sent : Len(Encode(sent[j])) > LongestThatFits
        BY <3>7, <3>8
      <3> QED
        BY <1>2, <3>9 DEF OverflowsOnlyOnLongMessages
    <2> QED
      BY <1>2, <1>3, <1>4, <2>1, <2>2, <2>3 DEF StreamInv
  <1>6. CASE ~(n > pg_ring_space(recv_data))
    <2>1. /\ delivered' = delivered + n /\ reading' = TRUE /\ aborted' = aborted
          /\ recv_data'.len = recv_data.len + n
      <3>1. recv_data' = pg_ring_push_backv(recv_data, SubSeq(stream, delivered + 1, delivered + n))
        BY <1>6 DEF Read
      <3>2. Len(SubSeq(stream, delivered + 1, delivered + n)) = n
        <4>1. stream \in Seq(Byte) /\ delivered + n <= Len(stream)
          BY DEF Read, StreamInv, IInv, TypeOK, Byte
        <4> QED
          BY <1>1, <1>2, <4>1
      <3>3. recv_data'.len = recv_data.len + n
        <4> DEFINE bytes == SubSeq(stream, delivered + 1, delivered + n)
        <4> HIDE DEF bytes
        <4>1. recv_data' = pg_ring_push_backv(recv_data, bytes) /\ Len(bytes) = n
          BY <3>1, <3>2 DEF bytes
        <4>2. recv_data \in [data : [Slots -> Byte], offset : Slots, len : 0 .. RingCap]
          BY <1>1 DEF Rings
        <4> QED
          BY <4>1, <4>2 DEF pg_ring_push_backv
      <3> QED
        BY <1>6, <3>3 DEF Read
    <2>2. Aligned'
      <3>1. delivered' - recv_data'.len = delivered - recv_data.len
        BY <1>1, <1>2, <2>1
      <3>2. delivered = recv_data.len => delivered' = recv_data'.len
        BY <2>1
      <3> QED
        BY <1>2, <1>3, <3>1, <3>2 DEF StreamInv, Aligned
    <2>3. Drained'
      BY <2>1 DEF Drained
    <2>4. OverflowsOnlyOnLongMessages'
      BY <1>2, <2>1 DEF StreamInv, OverflowsOnlyOnLongMessages
    <2> QED
      BY <1>2, <1>3, <1>4, <2>1, <2>2, <2>3, <2>4 DEF StreamInv
  <1> QED
    BY <1>5, <1>6

\* A read that fails closes the peer, which is no fault of the remote.
LEMMA ReadFailsKeeps ==
    ASSUME StreamInv, IInv', ReadFails
    PROVE  StreamInv'
  <1>1. /\ connection' = "closing" /\ reading' = reading /\ ~reading
        /\ failed' = failed \cup {"read"} /\ failed' # {}
        /\ handshaked' = handshaked /\ recv_data' = recv_data /\ aborted' = aborted
        /\ opening' = opening /\ sent' = sent /\ stream' = stream
        /\ delivered' = delivered /\ handled' = handled
    BY DEF ReadFails, CanRead, remoteVars
  <1>2. \A k : Wire(k)' = Wire(k)
    BY <1>1, WireStays DEF remoteVars
  <1>3. Aligned' /\ Drained'
    BY <1>1 DEF Aligned, Drained
  <1>4. HonestPeersAreKept'
    BY <1>1 DEF HonestPeersAreKept
  <1>5. OverflowsOnlyOnLongMessages'
    BY <1>1 DEF StreamInv, OverflowsOnlyOnLongMessages
  <1> QED
    BY <1>1, <1>2, <1>3, <1>4, <1>5 DEF StreamInv

\* What every round of the loop leaves alone, and what it does to the ring.
LEMMA ConsumeKeeps ==
    ASSUME StreamInv, Consume(peer_message_parse(recv_data))
    PROVE  /\ aborted' = aborted /\ opening' = opening /\ sent' = sent /\ stream' = stream
           /\ delivered' = delivered
           /\ recv_data'.len = recv_data.len - peer_message_parse(recv_data).taken
           /\ peer_message_parse(recv_data).taken \in 0 .. recv_data.len
           /\ handshaked' = (handshaked \/ peer_check_handshaked(recv_data).err = "none")
           /\ \A k : Wire(k)' = Wire(k)
           /\ OverflowsOnlyOnLongMessages'
  <1> DEFINE n == peer_message_parse(recv_data).taken
  <1>1. recv_data \in Rings(Byte)
    BY StreamTypes
  <1>2. n \in 0 .. recv_data.len
    BY <1>1, ParserTakesWhatIsThere
  <1>3. /\ recv_data' = pg_ring_consume_front(recv_data, n)
        /\ handshaked' = (handshaked \/ peer_check_handshaked(recv_data).err = "none")
        /\ aborted' = aborted /\ opening' = opening /\ sent' = sent /\ stream' = stream
        /\ delivered' = delivered
    BY DEF Consume, remoteVars
  <1> HIDE DEF n
  <1>4. recv_data'.len = recv_data.len - n
    BY <1>1, <1>2, <1>3, ConsumeFrontDrops
  <1>5. \A k : Wire(k)' = Wire(k)
    BY <1>3, WireStays DEF remoteVars
  <1>6. OverflowsOnlyOnLongMessages'
    BY <1>3 DEF StreamInv, OverflowsOnlyOnLongMessages
  <1> QED
    BY <1>2, <1>3, <1>4, <1>5, <1>6, Zenon DEF n

\* The loop ends when the parser needs more: then no whole message is left.
LEMMA NeedsMoreKeeps ==
    ASSUME StreamInv, IInv', NeedsMore
    PROVE  StreamInv'
  <1> DEFINE result == peer_message_parse(recv_data)
             check == peer_check_handshaked(recv_data)
  <1>1. /\ reading /\ result.err = "need_more" /\ Consume(result)
        /\ reading' = FALSE /\ connection' = connection /\ handled' = handled /\ failed' = failed
    BY DEF NeedsMore
  <1>2. /\ aborted' = aborted /\ opening' = opening /\ sent' = sent /\ stream' = stream
        /\ delivered' = delivered
        /\ recv_data'.len = recv_data.len - result.taken
        /\ handshaked' = (handshaked \/ check.err = "none")
        /\ \A k : Wire(k)' = Wire(k)
        /\ OverflowsOnlyOnLongMessages'
    BY <1>1, ConsumeKeeps
  <1>3. Rounds(check, result)
    BY <1>1, RoundIs
  <1>4. /\ recv_data.len \in Nat /\ delivered \in Nat /\ Len(handled) \in Nat /\ Base \in Nat
    BY StreamTypes, HandshakeParts DEF Base
  <1>5. connection' = "closing" => failed' # {}
    BY <1>1 DEF StreamInv, IInv, TypeOK
  <1>6. HonestPeersAreKept'
    BY <1>5 DEF HonestPeersAreKept
  <1> HIDE DEF result, check
  <1>7. Aligned' /\ Drained'
    <2>1. CASE CutShort(check, result)
      <3>1. ~handshaked /\ check.err # "none" /\ result.taken = 0
        BY <2>1 DEF CutShort
      <3>2. recv_data.len < 4
        BY <1>1, <2>1 DEF CutShort
      <3>3. handshaked' = FALSE /\ recv_data'.len = recv_data.len - 0
        BY <1>2, <3>1
      <3>4. recv_data'.len = recv_data.len
        BY <1>4, <3>3
      <3> QED
        BY <1>1, <1>2, <3>1, <3>2, <3>3, <3>4 DEF StreamInv, Aligned, Drained
    <2>2. CASE Refused(check, result)
      BY <1>1, <2>2 DEF Refused
    <2>3. CASE Shaken(check, result)
      <3>1. PICK p : /\ NextParsed(p, recv_data.len - Base)
                     /\ result = [err |-> p.err, msg |-> p.msg, taken |-> Base + p.taken]
        BY <2>3 DEF Shaken
      <3>2. p.err = "need_more" /\ result.taken = Base + p.taken
        BY <1>1, <3>1
      <3>3. /\ p = NeedMore(0)
            /\ Len(handled) < Len(sent) => recv_data.len - Base < Len(Encode(sent[Len(handled) + 1]))
        <4>1. (\A m, t : p # Parsed(m, t)) /\ (\A n : p # Rejected(n))
          BY <3>2 DEF Parsed, Rejected
        <4> QED
          BY <3>1, <4>1, Zenon DEF NextParsed
      <3>4. result.taken = Base
        BY <1>4, <3>2, <3>3 DEF NeedMore
      <3>5. handshaked' /\ recv_data'.len = recv_data.len - Base
        BY <1>2, <2>3, <3>4 DEF Shaken
      <3>6. delivered' - recv_data'.len = Len(Wire(Len(handled)))
        BY <1>2, <2>3, <3>5 DEF Shaken
      <3> QED
        BY <1>1, <1>2, <3>3, <3>5, <3>6 DEF Aligned, Drained
    <2> QED
      BY <1>3, <2>1, <2>2, <2>3 DEF Rounds
  <1> QED
    BY <1>1, <1>2, <1>5, <1>6, <1>7 DEF StreamInv

\* A peer is turned away for a message that no honest one sends, or for a
\* handshake that was cut.
LEMMA RejectKeeps ==
    ASSUME StreamInv, IInv', RejectMessage
    PROVE  StreamInv'
  <1> DEFINE result == peer_message_parse(recv_data)
             check == peer_check_handshaked(recv_data)
  <1>1. /\ reading /\ result.err = "rejected" /\ Consume(result)
        /\ reading' = FALSE /\ connection' = "closing" /\ handled' = handled /\ failed' = failed
    BY DEF RejectMessage
  <1>2. /\ aborted' = aborted /\ opening' = opening /\ sent' = sent /\ stream' = stream
        /\ delivered' = delivered
        /\ handshaked' = (handshaked \/ check.err = "none")
        /\ \A k : Wire(k)' = Wire(k)
        /\ OverflowsOnlyOnLongMessages'
    BY <1>1, ConsumeKeeps
  <1>3. Rounds(check, result)
    BY <1>1, RoundIs
  <1>4. /\ recv_data.len \in Nat /\ delivered \in Nat /\ Len(Handshake) \in Nat
        /\ Len(handled) \in Nat /\ Len(sent) \in Nat /\ Remote(opening, sent)
    BY StreamTypes, HandshakeParts
  <1>5. Aligned' /\ Drained'
    BY <1>1 DEF Aligned, Drained
  <1> HIDE DEF result, check
  <1>6. ASSUME Honest
        PROVE  ~handshaked' /\ delivered' \in 4 .. Len(Handshake) - 1
    <2>1. CASE CutShort(check, result)
      <3>1. ~handshaked /\ ~handshaked' /\ recv_data.len >= 4 /\ recv_data.len < Len(Handshake)
        BY <1>1, <1>2, <2>1 DEF CutShort
      <3>2. delivered = recv_data.len
        BY <1>1, <3>1 DEF StreamInv, Aligned
      <3> QED
        BY <1>2, <1>4, <3>1, <3>2
    <2>2. CASE Refused(check, result)
      BY <1>6, <2>2 DEF Refused, Honest
    <2>3. CASE Shaken(check, result)
      <3>1. PICK p : /\ NextParsed(p, recv_data.len - Base)
                     /\ result = [err |-> p.err, msg |-> p.msg, taken |-> Base + p.taken]
        BY <2>3 DEF Shaken
      <3>2. p.err = "rejected"
        BY <1>1, <3>1
      <3>3. Len(handled) < Len(sent) /\ ~Welcome(sent[Len(handled) + 1])
        <4>1. p # NeedMore(0) /\ \A m, t : p # Parsed(m, t)
          BY <3>2 DEF NeedMore, Parsed
        <4> QED
          BY <3>1, <4>1, Zenon DEF NextParsed
      <3>4. Len(handled) + 1 \in DOMAIN sent
        BY <1>4, <3>3 DEF Remote
      <3>5. Welcome(sent[Len(handled) + 1])
        BY <1>6, <3>4 DEF Honest, Welcome
      <3> QED
        BY <3>3, <3>5
    <2> QED
      BY <1>3, <2>1, <2>2, <2>3 DEF Rounds
  <1>7. HonestPeersAreKept'
    <2>1. Honest' => Honest
      BY <1>2 DEF Honest
    <2> QED
      BY <1>6, <2>1 DEF HonestPeersAreKept
  <1> QED
    BY <1>1, <1>2, <1>5, <1>7 DEF StreamInv

\* The message handled is the next one that the remote has sent.
LEMMA HandlesTheNext ==
    ASSUME StreamInv, HandleMessage
    PROVE  LET m == sent[Len(handled) + 1]
           IN  /\ Len(handled) < Len(sent)
               /\ FollowsProtocol(m)
               /\ m \in Messages
               /\ handled' = Append(handled, m)
               /\ peer_check_handshaked(recv_data).err = "none"
               /\ peer_message_parse(recv_data).taken = Base + Len(Encode(m))
               /\ delivered - (recv_data.len - Base) = Len(Wire(Len(handled)))
  <1> DEFINE result == peer_message_parse(recv_data)
             check == peer_check_handshaked(recv_data)
             m == sent[Len(handled) + 1]
  <1>1. reading /\ result.err = "none" /\ handled' = Append(handled, result.msg)
    BY DEF HandleMessage
  <1>2. Rounds(check, result)
    BY <1>1, RoundIs
  <1>3. Len(handled) \in Nat /\ Len(sent) \in Nat /\ Remote(opening, sent)
    BY StreamTypes
  <1> HIDE DEF result, check
  <1>4. Shaken(check, result)
    BY <1>1, <1>2 DEF Rounds, CutShort, Refused
  <1>5. PICK p : /\ NextParsed(p, recv_data.len - Base)
                 /\ result = [err |-> p.err, msg |-> p.msg, taken |-> Base + p.taken]
    BY <1>4 DEF Shaken
  <1>6. p.err = "none" /\ result.msg = p.msg /\ result.taken = Base + p.taken
    BY <1>1, <1>5
  <1>7. Len(handled) < Len(sent) /\ FollowsProtocol(m) /\ p = Parsed(m, Len(Encode(m)))
    <2>1. p # NeedMore(0) /\ \A n : p # Rejected(n)
      BY <1>6 DEF NeedMore, Rejected
    <2> QED
      BY <1>5, <2>1, Zenon DEF NextParsed
  <1>8. m \in Messages
    <2>1. Len(handled) + 1 \in 1 .. Len(sent)
      BY <1>3, <1>7
    <2> QED
      BY <1>3, <2>1 DEF Remote, Sendable
  <1> HIDE DEF m
  <1>9. result.msg = m /\ result.taken = Base + Len(Encode(m))
    BY <1>6, <1>7 DEF Parsed
  <1> QED
    BY <1>1, <1>4, <1>7, <1>8, <1>9 DEF Shaken, result, check, m

\* After a message the parser is in front of the next one.
LEMMA HandleKeeps ==
    ASSUME StreamInv, IInv', HandleMessage
    PROVE  StreamInv'
  <1> DEFINE result == peer_message_parse(recv_data)
             check == peer_check_handshaked(recv_data)
             m == sent[Len(handled) + 1]
             k == Len(handled)
  <1>1. /\ reading /\ Consume(result) /\ reading' = TRUE
        /\ \/ connection' = connection /\ failed' = failed
           \/ connection' = "closing" /\ failed' = failed \cup {"handle"}
    BY DEF HandleMessage, KeepsParsing
  <1>2. /\ aborted' = aborted /\ opening' = opening /\ sent' = sent /\ stream' = stream
        /\ delivered' = delivered
        /\ recv_data'.len = recv_data.len - result.taken
        /\ handshaked' = (handshaked \/ check.err = "none")
        /\ \A i : Wire(i)' = Wire(i)
        /\ OverflowsOnlyOnLongMessages'
    BY <1>1, ConsumeKeeps
  <1>3. /\ k < Len(sent) /\ m \in Messages /\ handled' = Append(handled, m)
        /\ check.err = "none" /\ result.taken = Base + Len(Encode(m))
        /\ delivered - (recv_data.len - Base) = Len(Wire(k))
    BY HandlesTheNext
  <1>4. /\ recv_data.len \in Nat /\ delivered \in Nat /\ Base \in Nat
        /\ k \in Nat /\ Len(sent) \in Nat /\ Remote(opening, sent)
    BY StreamTypes, HandshakeParts DEF Base
  <1>5. /\ handled' \in Seq(Messages) /\ Len(handled') = k + 1
    BY <1>3 DEF StreamInv
  <1>6. Len(Wire(k + 1)) = Len(Wire(k)) + Len(Encode(m)) /\ Len(Encode(m)) \in Nat
    <2>1. k \in 0 .. Len(sent) - 1
      BY <1>3, <1>4
    <2>2. HasMessage(Wires(opening, sent), Len(sent), k, Encode(sent[k + 1]))
      BY <1>4, <2>1, StreamHasMessage
    <2> QED
      BY <2>2 DEF HasMessage, Wire
  <1> HIDE DEF result, check, m, k
  <1>7. connection' = "closing" => failed' # {}
    BY <1>1 DEF StreamInv, IInv, TypeOK
  <1>8. HonestPeersAreKept'
    BY <1>7 DEF HonestPeersAreKept
  <1>9. handshaked' /\ delivered' - recv_data'.len = Len(Wire(k + 1))
    <2> DEFINE x == Len(Encode(m))
               y == Len(Wire(k))
               z == Len(Wire(k + 1))
               l == recv_data.len
               b == Base
    <2>1. /\ x \in Nat /\ l \in Nat /\ b \in Nat /\ delivered \in Nat
          /\ delivered - (l - b) = y /\ z = y + x
          /\ recv_data'.len = l - (b + x)
      BY <1>2, <1>3, <1>4, <1>6
    <2> HIDE DEF x, y, z, l, b
    <2>2. delivered - (l - (b + x)) = z
      BY <2>1
    <2>3. delivered' - recv_data'.len = z
      BY <1>2, <2>1, <2>2
    <2> QED
      BY <1>2, <1>3, <2>3 DEF z
  <1>10. Aligned' /\ Drained'
    <2>1. Wire(Len(handled))' = Wire(k + 1)
      BY <1>2, <1>5 DEF Wire
    <2> QED
      BY <1>1, <1>9, <2>1 DEF Aligned, Drained
  <1>11. Len(handled') <= Len(sent')
    BY <1>2, <1>3, <1>4, <1>5
  <1> QED
    BY <1>1, <1>2, <1>5, <1>7, <1>8, <1>10, <1>11 DEF StreamInv

\* No step disturbs the invariant about messages.
LEMMA StreamStepHolds == StreamInv /\ [Next]_vars => StreamInv'
  <1> SUFFICES ASSUME StreamInv, [Next]_vars
               PROVE  StreamInv'
    OBVIOUS
  <1>1. IInv'
    BY StepHolds DEF StreamInv
  <1>2. ASSUME NEW n \in 1 .. ReadLength, Read(n)
        PROVE  StreamInv'
    BY <1>1, <1>2, ReadKeeps
  <1>3. CASE ReadFails
    BY <1>1, <1>3, ReadFailsKeeps
  <1>4. CASE NeedsMore
    BY <1>1, <1>4, NeedsMoreKeeps
  <1>5. CASE RejectMessage
    BY <1>1, <1>5, RejectKeeps
  <1>6. CASE HandleMessage
    BY <1>1, <1>6, HandleKeeps
  <1>7. CASE UNCHANGED vars
    BY <1>1, <1>7 DEF vars, remoteVars, StreamInv, Aligned, Drained, HonestPeersAreKept, Honest,
                      OverflowsOnlyOnLongMessages, Wire
  <1> QED
    BY <1>2, <1>3, <1>4, <1>5, <1>6, <1>7 DEF Next

\* A message that has arrived whole has been handled.
LEMMA DrainedLeavesNothing == StreamInv => NothingLeftBehind
  <1> SUFFICES ASSUME StreamInv, CanRead, NEW k \in DOMAIN sent,
                      Len(Wire(k)) <= delivered
               PROVE  k <= Len(handled)
    BY DEF NothingLeftBehind
  <1> DEFINE h == Len(handled)
             w == Wires(opening, sent)
             n == Len(sent)
  <1>1. /\ recv_data.len \in Nat /\ delivered \in Nat
        /\ h \in Nat /\ n \in Nat /\ h <= n
        /\ Remote(opening, sent) /\ connection = "open" /\ ~reading
    BY StreamTypes DEF CanRead
  <1>2. k \in 1 .. n
    BY <1>1 DEF Remote
  <1>3. CASE ~handshaked
    <2>1. delivered < 4
      BY <1>1, <1>3 DEF StreamInv, Aligned, Drained
    <2>2. 0 \in 0 .. Len(sent) /\ k \in 0 .. Len(sent) /\ k \in 0 .. Len(sent)
      BY <1>1, <1>2
    <2>3. Extends(w[k], w[0]) /\ w[0] = opening /\ w[k] \in Seq(Byte)
      BY <1>1, <2>2, WiresExtend, WiresAre, WiresAreBytes DEF Remote
    <2>4. Len(w[k]) >= 4
      BY <1>1, <2>3 DEF Extends, Remote
    <2> QED
      BY <1>1, <2>1, <2>3, <2>4 DEF Wire
  <1>4. CASE handshaked
    <2> SUFFICES ASSUME k > h
                 PROVE  FALSE
      BY <1>1, <1>2
    <2>1. h \in 0 .. Len(sent) - 1 /\ h + 1 \in 0 .. Len(sent) /\ k \in (h + 1) .. Len(sent) /\ k \in 0 .. Len(sent)
      BY <1>1, <1>2
    <2>2. HasMessage(w, n, h, Encode(sent[h + 1]))
      BY <1>1, <2>1, StreamHasMessage
    <2>3. Extends(w[k], w[h + 1]) /\ w[k] \in Seq(Byte)
      BY <1>1, <2>1, WiresExtend, WiresAreBytes
    <2>4. recv_data.len < Len(Encode(sent[h + 1])) /\ delivered - recv_data.len = Len(w[h])
      BY <1>1, <1>4, <2>1 DEF StreamInv, Aligned, Drained, Wire
    <2>5. Len(w[k]) <= delivered
      BY DEF Wire
    <2> DEFINE e == Len(Encode(sent[h + 1]))
               a == Len(w[h])
               c == Len(w[h + 1])
               d == Len(w[k])
               l == recv_data.len
    <2>6. a \in Nat /\ e \in Nat /\ c = a + e
      BY <2>2 DEF HasMessage
    <2>7. c <= d /\ d \in Nat
      BY <2>3 DEF Extends
    <2>8. l < e /\ delivered - l = a /\ d <= delivered /\ l \in Nat /\ delivered \in Nat
      BY <1>1, <2>4, <2>5
    <2> HIDE DEF a, c, d, e, l
    <2> QED
      BY <2>6, <2>7, <2>8
  <1> QED
    BY <1>3, <1>4

\* So it always holds.
LEMMA InvIsKept == Spec => []StreamInv
  BY StreamInitHolds, StreamStepHolds, PTL DEF Spec

\* When a read callback returns with the peer still open, every message that
\* has arrived whole has been handled: the loop of peer_on_read, and the places
\* where peer_message_parse says PEK_NEED_MORE.
THEOREM NothingWaits == Spec => []NothingLeftBehind
  BY InvIsKept, DrainedLeavesNothing, PTL

\* A remote that follows the protocol is closed only for a failure that is not
\* its own, or when the first read ends inside its handshake: the checks of
\* peer_check_handshaked and peer_message_parse refuse nothing else it sends.
THEOREM HonestPeersStay == Spec => []HonestPeersAreKept
  <1>1. StreamInv => HonestPeersAreKept
    BY DEF StreamInv
  <1> QED
    BY InvIsKept, <1>1, PTL

\* The assertion in pg_ring_push_backv fails only when the remote has sent a
\* message that does not leave room for a read of chunk_size bytes.
THEOREM OverflowNeedsALongMessage == Spec => []OverflowsOnlyOnLongMessages
  <1>1. StreamInv => OverflowsOnlyOnLongMessages
    BY DEF StreamInv
  <1> QED
    BY InvIsKept, <1>1, PTL

\* peer_on_read implements a stream of messages: however the bytes are cut into
\* reads, what peer_message_handle is given are the messages that were sent, in
\* their order, each once, up to the first one that is malformed.
THEOREM StreamIsDelivered == Spec => ImplementsStream
  <1>1. Init => DeliversTheStream!Init
    BY DEF Init, DeliversTheStream!Init
  <1>2. StreamInv /\ [Next]_vars => [DeliversTheStream!Next]_<<sent, handled>>
    <2> SUFFICES ASSUME StreamInv, [Next]_vars
                 PROVE  DeliversTheStream!Next \/ UNCHANGED <<sent, handled>>
      OBVIOUS
    <2>1. CASE HandleMessage
      <3>1. sent' = sent
        BY <2>1 DEF HandleMessage, Consume, remoteVars
      <3>2. /\ Len(handled) < Len(sent)
            /\ FollowsProtocol(sent[Len(handled) + 1])
            /\ handled' = Append(handled, sent[Len(handled) + 1])
        BY <2>1, HandlesTheNext
      <3> QED
        BY <3>1, <3>2 DEF DeliversTheStream!Next
    <2>2. CASE \/ \E n \in 1 .. ReadLength : Read(n)
               \/ ReadFails \/ NeedsMore \/ RejectMessage \/ UNCHANGED vars
      BY <2>2 DEF Read, ReadFails, NeedsMore, RejectMessage, Consume, vars, remoteVars
    <2> QED
      BY <2>1, <2>2 DEF Next
  <1> QED
    BY <1>1, <1>2, InvIsKept, PTL DEF Spec, ImplementsStream, DeliversTheStream!Spec
===============================================================================
