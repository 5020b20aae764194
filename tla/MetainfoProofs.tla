---------------------------- MODULE MetainfoProofs ----------------------------
(***************************************************************************)
(* The geometry of torrents (Metainfo), for every block length, every word *)
(* size and every torrent whose pieces are made of whole blocks. Download  *)
(* and Receive rest on it: the one asks for blocks, the other checks what  *)
(* it is sent.                                                             *)
(***************************************************************************)
EXTENDS Metainfo, FiniteSetTheorems, TLAPS

\* Quotient and remainder, as the other lemmas use them.
LEMMA Division ==
    ASSUME NEW a \in Int, NEW n \in Nat \ {0}
    PROVE  /\ a \div n \in Int
           /\ a % n \in Nat
           /\ a % n < n
           /\ a = n * (a \div n) + (a % n)
  OBVIOUS

\* Quotient and remainder are determined by a decomposition.
LEMMA DivisionUnique ==
    ASSUME NEW q \in Int, NEW r \in Nat, NEW n \in Nat \ {0}, r < n
    PROVE  /\ (n * q + r) \div n = q
           /\ (n * q + r) % n = r
  OBVIOUS

\* Induction, from the pigeonhole principle: adding one to the members up to a
\* number that is not in the set would map a finite set to less than itself.
LEMMA SetInduction ==
    ASSUME NEW S \in SUBSET Nat, 0 \in S, \A n \in S : n + 1 \in S
    PROVE  S = Nat
  <1> SUFFICES ASSUME NEW n \in Nat, n \notin S
               PROVE  FALSE
    OBVIOUS
  <1> DEFINE T == S \cap (0 .. n)
             up == [i \in T |-> i + 1]
  <1>1. IsFiniteSet(T)
    <2>1. IsFiniteSet(0 .. n)
      BY FS_Interval
    <2> QED
      BY <2>1, FS_Subset
  <1>2. ASSUME NEW i \in T
        PROVE  i \in Nat /\ i + 1 \in T
    <2>1. i \in Nat /\ i <= n /\ i # n /\ i + 1 \in S
      OBVIOUS
    <2> QED
      BY <2>1
  <1>3. up \in Injection(T, T)
    BY <1>2 DEF Injection, IsInjective
  <1>4. 0 \in T
    OBVIOUS
  <1>5. \A i \in T : up[i] # 0
    BY <1>2
  <1> HIDE DEF T, up
  <1> QED
    BY <1>1, <1>3, <1>4, <1>5, FS_Injection DEF Surjection

-----------------------------------------------------------------------------

\* Torrents as every well-formed metainfo file describes them.
WellFormed(m) ==
    \E length, piece_length \in Nat \ {0} :
        /\ piece_length % BlockLength = 0
        /\ piece_length < Word
        /\ m = metainfo_init(length, piece_length, CeilDiv(length, piece_length))

\* A piece is a positive number of whole blocks.
LEMMA BlocksPerPiece ==
    ASSUME NEW m, WellFormed(m)
    PROVE  /\ m.blocks_per_piece \in Nat \ {0}
           /\ m.piece_length = m.blocks_per_piece * BlockLength
           /\ m.piece_length \in Nat \ {0}
           /\ m.piece_length < Word
  <1>1. PICK length \in Nat \ {0}, piece_length \in Nat \ {0} :
          /\ piece_length % BlockLength = 0
          /\ piece_length < Word
          /\ m = metainfo_init(length, piece_length, CeilDiv(length, piece_length))
    BY DEF WellFormed
  <1>2. /\ m.piece_length = piece_length
        /\ m.blocks_per_piece = piece_length \div BlockLength
    BY <1>1 DEF metainfo_init
  <1>3. BlockLength \in Nat \ {0}
    BY BlockLengthAssumption
  <1>4. /\ piece_length \div BlockLength \in Int
        /\ piece_length = BlockLength * (piece_length \div BlockLength)
    BY <1>1, <1>3, Division
  <1>5. piece_length \div BlockLength > 0
    BY <1>3, <1>4
  <1> QED
    BY <1>1, <1>2, <1>3, <1>4, <1>5

\* The number of blocks is what the file needs, unless that exceeds a word.
LEMMA BlocksCount ==
    ASSUME NEW m, WellFormed(m)
    PROVE  /\ m.length \in Nat \ {0}
           /\ m.blocks_count \in Nat
           /\ m.blocks_count < Word
           /\ m.blocks_count * BlockLength < m.length + BlockLength
           /\ m.pieces_count = CeilDiv(m.length, m.piece_length)
  <1>1. PICK length \in Nat \ {0}, piece_length \in Nat \ {0} :
          /\ piece_length % BlockLength = 0
          /\ piece_length < Word
          /\ m = metainfo_init(length, piece_length, CeilDiv(length, piece_length))
    BY DEF WellFormed
  <1>2. /\ m.length = length
        /\ m.piece_length = piece_length
        /\ m.pieces_count = CeilDiv(length, piece_length)
        /\ m.blocks_count = CeilDiv(length, BlockLength) % Word
    BY <1>1 DEF metainfo_init, U32
  <1>3. BlockLength \in Nat \ {0} /\ Word \in Nat \ {0}
    BY BlockLengthAssumption, WordAssumption
  <1> DEFINE c == CeilDiv(length, BlockLength)
  <1>4. /\ c \in Int
        /\ length + BlockLength - 1 = BlockLength * c + ((length + BlockLength - 1) % BlockLength)
        /\ (length + BlockLength - 1) % BlockLength \in Nat
        /\ (length + BlockLength - 1) % BlockLength < BlockLength
    <2>1. length + BlockLength - 1 \in Int
      BY <1>3
    <2> QED
      BY <2>1, <1>3, Division DEF CeilDiv
  <1>5. c >= 0 /\ c * BlockLength < length + BlockLength
    BY <1>3, <1>4
  <1>6. /\ c % Word \in Nat
        /\ c % Word < Word
        /\ c % Word <= c
    BY <1>3, <1>4, <1>5
  <1>7. (c % Word) * BlockLength <= c * BlockLength
    BY <1>3, <1>4, <1>6
  <1> HIDE DEF c
  <1>8. (c % Word) * BlockLength < length + BlockLength
    BY <1>3, <1>4, <1>5, <1>6, <1>7
  <1> QED
    BY <1>1, <1>2, <1>6, <1>8 DEF c

\* picker_pick_block: assert(piece < pieces_count).
LEMMA PieceOfBlock ==
    ASSUME NEW m, WellFormed(m), NEW b \in Blocks(m)
    PROVE  piece_of_block(m, b) \in Pieces(m)
  <1> DEFINE k == m.blocks_per_piece
             piece == b \div k
  <1>1. /\ k \in Nat \ {0}
        /\ m.piece_length = k * BlockLength
        /\ m.piece_length \in Nat \ {0}
    BY BlocksPerPiece
  <1>2. /\ m.length \in Nat \ {0}
        /\ m.blocks_count \in Nat
        /\ m.blocks_count * BlockLength < m.length + BlockLength
        /\ m.pieces_count = CeilDiv(m.length, m.piece_length)
    BY BlocksCount
  <1>3. BlockLength \in Nat \ {0}
    BY BlockLengthAssumption
  <1>4. b \in Nat /\ b + 1 <= m.blocks_count
    BY <1>2 DEF Blocks
  <1>5. (b + 1) * BlockLength <= m.blocks_count * BlockLength
    BY <1>2, <1>3, <1>4
  <1>6. b * BlockLength < m.length
    BY <1>2, <1>3, <1>4, <1>5
  <1> HIDE DEF k
  <1>7. piece \in Nat /\ k * piece <= b
    <2>1. b \in Int
      BY <1>4
    <2>2. /\ piece \in Int
          /\ b % k \in Nat
          /\ b % k < k
          /\ b = k * piece + (b % k)
      BY <1>1, <2>1, Division
    <2> HIDE DEF piece
    <2>3. k * (piece + 1) > 0
      BY <1>1, <1>4, <2>2
    <2>4. piece + 1 > 0
      BY <1>1, <2>2, <2>3
    <2> QED
      BY <1>1, <1>4, <2>2, <2>4
  <1>8. (k * piece) * BlockLength <= b * BlockLength
    BY <1>1, <1>3, <1>4, <1>7
  <1>9. piece * m.piece_length < m.length
    <2>1. piece * (k * BlockLength) = (k * piece) * BlockLength
      BY <1>1, <1>3, <1>7
    <2> QED
      BY <2>1, <1>1, <1>2, <1>3, <1>4, <1>6, <1>7, <1>8
  <1> DEFINE c == CeilDiv(m.length, m.piece_length)
  <1>10. c \in Int /\ m.length <= m.piece_length * c
    <2>1. m.length + m.piece_length - 1 \in Int
      BY <1>1, <1>2
    <2>2. /\ c \in Int
          /\ m.length + m.piece_length - 1
               = m.piece_length * c + ((m.length + m.piece_length - 1) % m.piece_length)
          /\ (m.length + m.piece_length - 1) % m.piece_length \in Nat
          /\ (m.length + m.piece_length - 1) % m.piece_length < m.piece_length
      BY <2>1, <1>1, Division DEF CeilDiv
    <2> QED
      BY <2>2, <1>1, <1>2
  <1> HIDE DEF piece, c
  <1>11. piece * m.piece_length < c * m.piece_length
    BY <1>1, <1>2, <1>7, <1>9, <1>10
  <1>12. piece < c
    BY <1>1, <1>7, <1>10, <1>11
  <1> QED
    BY <1>2, <1>7, <1>10, <1>12 DEF Pieces, piece_of_block, piece, c, k

(***************************************************************************)
(* The answer to the request for a block is stored as that block: sending  *)
(* (index, begin) in peer_send_request and reading it back in              *)
(* peer_message_handle is the identity, in spite of the 32-bit products.   *)
(***************************************************************************)
THEOREM RequestRoundTrip ==
    ASSUME NEW m, WellFormed(m), NEW b \in Blocks(m)
    PROVE  LET r == request_of_block(m, b)
           IN  block_of_answer(m, r.index, r.begin) = b
  <1> DEFINE k == m.blocks_per_piece
             piece == b \div k
             rest == b % k
  <1>1. /\ k \in Nat \ {0}
        /\ m.piece_length = k * BlockLength
        /\ m.piece_length < Word
    BY BlocksPerPiece
  <1>2. /\ BlockLength \in Nat \ {0}
        /\ Word \in Nat \ {0}
    BY BlockLengthAssumption, WordAssumption
  <1>3. b \in Nat /\ b < Word
    BY BlocksCount, <1>2 DEF Blocks
  <1> HIDE DEF k
  <1>4. /\ piece \in Int
        /\ rest \in Nat
        /\ rest < k
        /\ b = k * piece + rest
    <2>1. b \in Int
      BY <1>3
    <2> QED
      BY <1>1, <2>1, Division
  <1> HIDE DEF piece, rest
  <1>5. b * BlockLength - piece * m.piece_length = rest * BlockLength
    <2>1. piece * (k * BlockLength) = (k * piece) * BlockLength
      BY <1>1, <1>2, <1>4
    <2>2. (k * piece + rest) * BlockLength = (k * piece) * BlockLength + rest * BlockLength
      BY <1>1, <1>2, <1>4
    <2> QED
      BY <2>1, <2>2, <1>1, <1>2, <1>4
  <1>6. rest * BlockLength \in Nat /\ rest * BlockLength < Word
    <2>1. rest * BlockLength < k * BlockLength
      BY <1>1, <1>2, <1>4
    <2> QED
      BY <2>1, <1>1, <1>2, <1>4
  <1>7. U32(b * BlockLength - piece * m.piece_length) = rest * BlockLength
    BY <1>2, <1>5, <1>6 DEF U32
  <1>8. (rest * BlockLength) \div BlockLength = rest
    <2>1. (BlockLength * rest + 0) \div BlockLength = rest
      BY <1>2, <1>4, DivisionUnique
    <2> QED
      BY <2>1, <1>2, <1>4
  <1>9. U32(piece * k + rest) = b
    <2>1. piece * k + rest = b
      BY <1>1, <1>4
    <2> QED
      BY <2>1, <1>2, <1>3 DEF U32
  <1>10. /\ request_of_block(m, b).index = piece
         /\ request_of_block(m, b).begin = U32(b * BlockLength - piece * m.piece_length)
    BY DEF request_of_block, piece_of_block, piece, k
  <1> QED
    BY <1>7, <1>8, <1>9, <1>10
       DEF block_of_answer, metainfo_block_for_piece_to_block, k
-----------------------------------------------------------------------------
(* The last piece, and the blocks of a piece. *)

\* A uint32_t difference of a word-sized result is exact, even when what is
\* subtracted has wrapped.
LEMMA WrappedDifference ==
    ASSUME NEW a \in Int, NEW d \in Int, a - d \in 0 .. Word - 1
    PROVE  U32(a - U32(d)) = a - d
  <1>1. Word \in Nat \ {0}
    BY WordAssumption
  <1>2. /\ d \div Word \in Int
        /\ d % Word \in Nat
        /\ d = Word * (d \div Word) + (d % Word)
    BY <1>1, Division
  <1> DEFINE q == d \div Word
             r == d % Word
  <1>3. a - r = Word * q + (a - d)
    BY <1>1, <1>2
  <1>4. (Word * q + (a - d)) % Word = a - d
    <2>1. q \in Int /\ a - d \in Nat /\ a - d < Word
      BY <1>1, <1>2
    <2> HIDE DEF q
    <2> QED
      BY <1>1, <2>1, DivisionUnique
  <1> QED
    BY <1>3, <1>4 DEF U32

\* Rounding up: the quotient covers a, and one less does not.
LEMMA RoundedUp ==
    ASSUME NEW a \in Nat \ {0}, NEW n \in Nat \ {0}
    PROVE  /\ CeilDiv(a, n) \in Nat \ {0}
           /\ (CeilDiv(a, n) - 1) * n < a
           /\ a <= CeilDiv(a, n) * n
  <1> DEFINE c == CeilDiv(a, n)
             r == (a + n - 1) % n
  <1>1. c \in Int /\ r \in Nat /\ r < n /\ a + n - 1 = n * c + r
    BY Division DEF CeilDiv
  <1> HIDE DEF c, r
  <1>2. n * c = c * n /\ (c - 1) * n = n * c - n
    BY <1>1
  <1>3. n * c > 0
    BY <1>1
  <1>4. c > 0
    BY <1>1, <1>3
  <1> QED
    BY <1>1, <1>2, <1>4 DEF c

\* Rounding up is determined by these bounds.
LEMMA RoundedUpUnique ==
    ASSUME NEW a \in Nat \ {0}, NEW n \in Nat \ {0}, NEW c \in Int,
           (c - 1) * n < a, a <= c * n
    PROVE  CeilDiv(a, n) = c
  <1> DEFINE r == a - 1 - (c - 1) * n
  <1>1. (c - 1) * n = c * n - n /\ c * n = n * c
    OBVIOUS
  <1>2. r \in Nat /\ r < n /\ a + n - 1 = n * c + r
    BY <1>1
  <1> HIDE DEF r
  <1> QED
    BY <1>2, DivisionUnique DEF CeilDiv

\* Where the last piece starts, how long it is and how many blocks it has.
LEMMA LastPiece ==
    ASSUME NEW m, WellFormed(m)
    PROVE  LET n    == m.pieces_count
               k    == m.blocks_per_piece
               last == m.last_piece_block_count
           IN  /\ n \in Nat \ {0}
               /\ last \in 1 .. k
               /\ m.last_piece_length = m.length - (n - 1) * m.piece_length
               /\ m.last_piece_length \in 1 .. m.piece_length
               /\ CeilDiv(m.length, BlockLength) = (n - 1) * k + last
               /\ m.blocks_count = U32((n - 1) * k + last)
               /\ m.blocks_count <= (n - 1) * k + last
  <1> DEFINE n    == m.pieces_count
             k    == m.blocks_per_piece
             B    == BlockLength
             P    == m.piece_length
             L    == m.last_piece_length
             last == m.last_piece_block_count
  <1>1. /\ k \in Nat \ {0} /\ P = k * B /\ P \in Nat \ {0} /\ P < Word
        /\ m.length \in Nat \ {0} /\ n = CeilDiv(m.length, P)
        /\ B \in Nat \ {0} /\ Word \in Nat \ {0}
    BY BlocksPerPiece, BlocksCount, BlockLengthAssumption, WordAssumption
  <1>2. /\ L = U32(m.length - U32((n - 1) * P))
        /\ last = CeilDiv(L, B)
        /\ m.blocks_count = U32(CeilDiv(m.length, B))
    BY DEF WellFormed, metainfo_init
  <1>3. n \in Nat \ {0} /\ (n - 1) * P < m.length /\ m.length <= n * P
    BY <1>1, RoundedUp
  <1> HIDE DEF n, k, B, P, L, last
  <1>4. (n - 1) * P \in Int /\ n * P = (n - 1) * P + P
    BY <1>1, <1>3
  <1>5. m.length - (n - 1) * P \in 1 .. P
    BY <1>1, <1>3, <1>4
  <1>6. L = m.length - (n - 1) * P
    BY <1>1, <1>2, <1>4, <1>5, WrappedDifference
  <1>7. /\ last \in Nat \ {0}
        /\ (last - 1) * B < L
        /\ L <= last * B
    BY <1>1, <1>2, <1>5, <1>6, RoundedUp
  <1>8. last <= k
    <2>1. (last - 1) * B < k * B
      BY <1>1, <1>5, <1>6, <1>7
    <2>2. last - 1 < k
      BY <1>1, <1>7, <2>1
    <2> QED
      BY <1>1, <1>7, <2>2
  <1> DEFINE c == (n - 1) * k + last
  <1>9. CeilDiv(m.length, B) = c
    <2>1. c \in Int
      BY <1>1, <1>3, <1>7
    <2>2. (n - 1) * P = ((n - 1) * k) * B
      BY <1>1, <1>3
    <2>3. /\ c * B = ((n - 1) * k) * B + last * B
          /\ (c - 1) * B = ((n - 1) * k) * B + (last - 1) * B
      BY <1>1, <1>3, <1>7
    <2>4. (c - 1) * B < m.length /\ m.length <= c * B
      BY <1>1, <1>4, <1>6, <1>7, <2>1, <2>2, <2>3
    <2> HIDE DEF c
    <2> QED
      BY <1>1, <2>1, <2>4, RoundedUpUnique
  <1>10. U32(c) <= c
    <2>1. (n - 1) * k >= 0
      BY <1>1, <1>3
    <2>2. c \in Nat
      BY <1>1, <1>3, <1>7, <2>1
    <2> HIDE DEF c
    <2> QED
      BY <1>1, <2>2 DEF U32
  <1> QED
    BY <1>1, <1>2, <1>3, <1>5, <1>6, <1>7, <1>8, <1>9, <1>10 DEF n, k, B, P, L, last

\* How many blocks a piece has (first_block .. last_block in the picker).
LEMMA BlocksInPiece ==
    ASSUME NEW m, WellFormed(m), NEW piece \in Pieces(m)
    PROVE  /\ metainfo_block_count_for_piece(m, piece) \in 1 .. m.blocks_per_piece
           /\ piece \in Nat
  BY LastPiece, BlocksPerPiece DEF metainfo_block_count_for_piece, Pieces

\* picker_pick_block and picker_have_all_blocks_for_piece mean the same by the
\* piece a block belongs to.
LEMMA PieceHasBlock ==
    ASSUME NEW m, WellFormed(m)
    PROVE  /\ \A b \in Blocks(m) : b \in blocks_of_piece(m, piece_of_block(m, b))
           /\ \A piece \in Pieces(m) : \A b \in blocks_of_piece(m, piece) :
                b \in Int /\ piece_of_block(m, b) = piece
  <1> DEFINE n    == m.pieces_count
             k    == m.blocks_per_piece
             last == m.last_piece_block_count
  <1>1. /\ k \in Nat \ {0}
        /\ n \in Nat \ {0}
        /\ last \in 1 .. k
        /\ m.blocks_count \in Nat /\ m.blocks_count <= (n - 1) * k + last
    BY BlocksPerPiece, BlocksCount, LastPiece
  <1> HIDE DEF n, k, last
  <1>2. ASSUME NEW b \in Blocks(m)
        PROVE  b \in blocks_of_piece(m, piece_of_block(m, b))
    <2> DEFINE piece == b \div k
               rest  == b % k
    <2>1. b \in Int /\ b <= (n - 1) * k + last - 1
      BY <1>1 DEF Blocks
    <2>2. /\ piece \in Int /\ rest \in Nat /\ rest < k
          /\ b = k * piece + rest
      BY <1>1, <2>1, Division
    <2> HIDE DEF piece, rest
    <2>3. piece * k = k * piece
      BY <1>1, <2>2
    <2>4. ASSUME piece = n - 1
          PROVE  rest <= last - 1
      BY <1>1, <2>1, <2>2, <2>3, <2>4
    <2>5. b \in piece * k .. piece * k + metainfo_block_count_for_piece(m, piece) - 1
      BY <1>1, <2>2, <2>3, <2>4
         DEF metainfo_block_count_for_piece, metainfo_is_last_piece, n, k, last
    <2> QED
      BY <2>5 DEF blocks_of_piece, piece_of_block, piece, k
  <1>3. ASSUME NEW piece \in Pieces(m), NEW b \in blocks_of_piece(m, piece)
        PROVE  b \in Int /\ piece_of_block(m, b) = piece
    <2> DEFINE rest == b - piece * k
    <2>1. piece \in Int /\ metainfo_block_count_for_piece(m, piece) \in 1 .. k
      BY BlocksInPiece DEF k
    <2>2. b \in piece * k .. piece * k + metainfo_block_count_for_piece(m, piece) - 1
      BY DEF blocks_of_piece, k
    <2>3. piece * k \in Int /\ piece * k = k * piece
      BY <1>1, <2>1
    <2>4. b \in Int /\ rest \in Nat /\ rest < k /\ b = k * piece + rest
      BY <1>1, <2>1, <2>2, <2>3
    <2> HIDE DEF rest
    <2>5. (k * piece + rest) \div k = piece
      BY <1>1, <2>1, <2>4, DivisionUnique
    <2> QED
      BY <2>4, <2>5 DEF piece_of_block, k
  <1> QED
    BY <1>2, <1>3

\* peer_send_request: the numbers of a request are the position of its block.
Position(m, b, r, piece, rest) ==
    /\ piece \in Pieces(m)
    /\ rest \in Nat /\ rest < m.blocks_per_piece
    /\ b = m.blocks_per_piece * piece + rest
    /\ piece = m.pieces_count - 1 =>
          /\ rest <= m.last_piece_block_count - 1
          /\ rest = m.last_piece_block_count - 1 <=>
                b = ((m.pieces_count - 1) * m.blocks_per_piece + m.last_piece_block_count) - 1
    /\ r.index = piece
    /\ r.begin = rest * BlockLength
    /\ r.begin \in 0 .. Word - 1
    /\ r.begin \div BlockLength = rest
    /\ r.length = metainfo_block_for_piece_length(m, piece, rest)

LEMMA RequestPosition ==
    ASSUME NEW m, WellFormed(m), NEW b \in Blocks(m)
    PROVE  Position(m, b, request_of_block(m, b),
                    b \div m.blocks_per_piece, b % m.blocks_per_piece)
  <1> DEFINE n     == m.pieces_count
             k     == m.blocks_per_piece
             last  == m.last_piece_block_count
             B     == BlockLength
             c     == (n - 1) * k + last
             piece == b \div k
             rest  == b % k
             bfp   == metainfo_block_to_block_for_piece(m, piece, b)
             r     == request_of_block(m, b)
  <1>1. /\ k \in Nat \ {0} /\ m.piece_length = k * B /\ m.piece_length < Word
        /\ n \in Nat \ {0} /\ last \in 1 .. k
        /\ m.blocks_count \in Nat /\ m.blocks_count <= c
        /\ B \in Nat \ {0} /\ Word \in Nat \ {0}
    BY BlocksPerPiece, BlocksCount, LastPiece, BlockLengthAssumption, WordAssumption
  <1>2. b \in Nat /\ b <= c - 1
    BY <1>1 DEF Blocks
  <1>3. piece \in Int /\ rest \in Nat /\ rest < k /\ b = k * piece + rest
    <2>1. b \in Int /\ k \in Nat \ {0}
      BY <1>1, <1>2
    <2> HIDE DEF k
    <2> QED
      BY <2>1, Division
  <1>13. piece \in Pieces(m)
    BY PieceOfBlock DEF piece_of_block
  <1>14. /\ r.index = piece
         /\ r.begin = U32(b * B - piece * m.piece_length)
         /\ r.length = metainfo_block_for_piece_length(m, piece, bfp)
    BY DEF request_of_block, piece_of_block
  <1> HIDE DEF n, k, last, B, piece, rest, r
  <1>4. /\ piece * k = k * piece
        /\ piece * (k * B) = (k * piece) * B
        /\ (k * piece + rest) * B = (k * piece) * B + rest * B
        /\ (k * piece) * B \in Int
    BY <1>1, <1>3
  <1>5. rest * B \in Nat /\ rest * B < Word
    <2>1. rest * B < k * B
      BY <1>1, <1>3
    <2> QED
      BY <2>1, <1>1, <1>3
  <1>6. U32(b * B - piece * m.piece_length) = rest * B
    BY <1>1, <1>3, <1>4, <1>5 DEF U32
  <1>7. (rest * B) \div B = rest
    <2>1. (B * rest + 0) \div B = rest
      BY <1>1, <1>3, DivisionUnique
    <2> QED
      BY <2>1, <1>1, <1>3
  <1>8. ASSUME piece = n - 1
        PROVE  rest <= last - 1 /\ (rest = last - 1 <=> b = c - 1)
    BY <1>1, <1>2, <1>3, <1>4, <1>8
  <1>9. bfp = rest
    <2>1. U32(b * B - piece * m.piece_length) \div B = rest
      BY <1>6, <1>7
    <2>2. bfp = IF piece = n - 1 /\ rest >= last THEN last - 1 ELSE rest
      BY <2>1 DEF metainfo_block_to_block_for_piece, metainfo_is_last_piece, n, last, B
    <2> QED
      BY <1>1, <1>3, <1>8, <2>2
  <1> HIDE DEF bfp
  <1>10. /\ r.begin = rest * B
         /\ r.begin \in 0 .. Word - 1
         /\ r.begin \div B = rest
         /\ r.length = metainfo_block_for_piece_length(m, piece, rest)
    BY <1>1, <1>5, <1>6, <1>7, <1>9, <1>14
  <1>11. Position(m, b, r, piece, rest)
    BY <1>3, <1>8, <1>10, <1>13, <1>14, Zenon DEF Position, n, k, last, B
  <1> QED
    BY <1>11 DEF r, piece, rest, k

\* Every request asks for a whole block, except one for the last block of the
\* file, which asks for what is left of it.
LEMMA RequestLength ==
    ASSUME NEW m, WellFormed(m), NEW b \in Blocks(m)
    PROVE  LET c == (m.pieces_count - 1) * m.blocks_per_piece + m.last_piece_block_count
           IN  request_of_block(m, b).length
                 = IF b = c - 1 THEN m.length - b * BlockLength ELSE BlockLength
  <1> DEFINE n     == m.pieces_count
             k     == m.blocks_per_piece
             last  == m.last_piece_block_count
             B     == BlockLength
             c     == (n - 1) * k + last
             piece == b \div k
             rest  == b % k
  <1>1. /\ k \in Nat \ {0} /\ m.piece_length = k * B /\ m.piece_length < Word
        /\ m.length \in Nat \ {0}
        /\ n \in Nat \ {0} /\ last \in 1 .. k
        /\ m.blocks_count \in Nat /\ m.blocks_count <= c
        /\ c = CeilDiv(m.length, B)
        /\ B \in Nat \ {0} /\ Word \in Nat \ {0}
    BY BlocksPerPiece, BlocksCount, LastPiece, BlockLengthAssumption, WordAssumption
  <1>2. b \in Nat /\ b <= c - 1
    BY <1>1 DEF Blocks
  <1> HIDE DEF piece, rest
  <1>3. /\ piece \in Int /\ rest \in Nat /\ rest < k /\ b = k * piece + rest
        /\ piece = n - 1 => rest <= last - 1 /\ (rest = last - 1 <=> b = c - 1)
        /\ request_of_block(m, b).length = metainfo_block_for_piece_length(m, piece, rest)
    <2>1. Position(m, b, request_of_block(m, b), piece, rest)
      BY RequestPosition DEF piece, rest
    <2>2. piece \in Int
      BY <2>1, BlocksInPiece DEF Position
    <2> QED
      BY <2>1, <2>2, Zenon DEF Position
  <1> HIDE DEF n, k, last, B
  <1>4. /\ piece * k = k * piece
        /\ piece * (k * B) = (k * piece) * B
        /\ (k * piece + rest) * B = (k * piece) * B + rest * B
        /\ (k * piece) * B \in Int
    BY <1>1, <1>3
  <1>11. CASE b = c - 1
    <2>1. piece = n - 1
      <3>1. k * piece + rest = (n - 1) * k + (last - 1)
        BY <1>1, <1>3, <1>11
      <3>2. (k * piece + rest) \div k = piece
        BY <1>1, <1>3, DivisionUnique
      <3>3. (k * (n - 1) + (last - 1)) \div k = n - 1
        <4>1. n - 1 \in Int /\ last - 1 \in Nat /\ last - 1 < k
          BY <1>1
        <4> QED
          BY <1>1, <4>1, DivisionUnique
      <3>4. (n - 1) * k = k * (n - 1)
        BY <1>1
      <3> QED
        BY <3>1, <3>2, <3>3, <3>4
    <2>2. rest = last - 1
      BY <1>3, <1>11, <2>1
    <2>3. metainfo_block_for_piece_length(m, piece, rest)
            = U32(m.length - U32(piece * m.piece_length + rest * B))
      BY <2>1, <2>2
         DEF metainfo_block_for_piece_length, metainfo_is_last_piece, n, last, B
    <2>4. piece * m.piece_length + rest * B = b * B
      BY <1>1, <1>3, <1>4
    <2>5. m.length - b * B \in 0 .. Word - 1
      <3>1. (c - 1) * B < m.length /\ m.length <= c * B
        BY <1>1, RoundedUp
      <3>2. c * B = (c - 1) * B + B
        BY <1>1
      <3>3. B <= k * B
        BY <1>1
      <3>4. b * B = (c - 1) * B /\ b * B \in Int
        BY <1>1, <1>2, <1>11
      <3> HIDE DEF c
      <3>5. m.length - b * B > 0 /\ m.length - b * B <= B
        BY <1>1, <1>2, <3>1, <3>2, <3>4
      <3> QED
        BY <1>1, <3>3, <3>4, <3>5
    <2>6. b * B \in Int
      BY <1>1, <1>2
    <2> HIDE DEF c
    <2>7. U32(m.length - U32(b * B)) = m.length - b * B
      BY <1>1, <2>5, <2>6, WrappedDifference
    <2> QED
      BY <1>3, <1>11, <2>3, <2>4, <2>7 DEF c, n, k, last, B
  <1>12. CASE b # c - 1
    <2>1. metainfo_block_for_piece_length(m, piece, rest) = B
      BY <1>3, <1>12 DEF metainfo_block_for_piece_length, metainfo_is_last_piece, n, last, B
    <2> QED
      BY <1>3, <1>12, <2>1 DEF c, n, k, last, B
  <1> QED
    BY <1>11, <1>12

\* What a request asks for lies within its piece, so that the answer to it is
\* not turned away: the checks of peer_message_parse_piece, on what
\* peer_send_request computes.
Fits(m, r) ==
    /\ r.index \in Pieces(m)
    /\ r.begin \in 0 .. Word - 1
    /\ r.length \in 1 .. BlockLength
    /\ r.begin + r.length <= metainfo_piece_length(m, r.index)
    /\ r.length = metainfo_block_for_piece_length(m, r.index, r.begin \div BlockLength)

THEOREM RequestFitsItsPiece ==
    ASSUME NEW m, WellFormed(m), NEW b \in Blocks(m)
    PROVE  Fits(m, request_of_block(m, b))
  <1> DEFINE n     == m.pieces_count
             k     == m.blocks_per_piece
             last  == m.last_piece_block_count
             B     == BlockLength
             c     == (n - 1) * k + last
             piece == b \div k
             rest  == b % k
             r     == request_of_block(m, b)
  <1>1. /\ k \in Nat \ {0} /\ m.piece_length = k * B
        /\ m.length \in Nat \ {0}
        /\ n \in Nat \ {0} /\ last \in 1 .. k
        /\ m.last_piece_length = m.length - (n - 1) * m.piece_length
        /\ c = CeilDiv(m.length, B)
        /\ B \in Nat \ {0}
    BY BlocksPerPiece, BlocksCount, LastPiece, BlockLengthAssumption
  <1>2. Position(m, b, r, piece, rest)
    BY RequestPosition
  <1>3. r.length = IF b = c - 1 THEN m.length - b * B ELSE B
    BY RequestLength
  <1> HIDE DEF piece, rest, r
  <1>4. /\ piece \in Pieces(m) /\ piece \in Int
        /\ rest \in Nat /\ rest < k
        /\ b = k * piece + rest
        /\ piece = n - 1 => rest <= last - 1 /\ (rest = last - 1 <=> b = c - 1)
        /\ r.index = piece
        /\ r.begin = rest * B
        /\ r.begin \in 0 .. Word - 1
        /\ r.begin \div B = rest
        /\ r.length = metainfo_block_for_piece_length(m, piece, rest)
    <2>1. piece \in Int
      BY <1>2, BlocksInPiece DEF Position
    <2> QED
      BY <1>2, <2>1, Zenon DEF Position
  <1>5. (c - 1) * B < m.length /\ m.length <= c * B
    BY <1>1, RoundedUp
  <1>6. metainfo_piece_length(m, piece) = IF piece = n - 1 THEN m.last_piece_length ELSE k * B
    BY <1>1 DEF metainfo_piece_length, metainfo_is_last_piece
  <1>7. piece # n - 1 => r.length = B
    BY <1>4 DEF metainfo_block_for_piece_length, metainfo_is_last_piece
  <1> HIDE DEF n, k, last, B
  <1>8. rest * B + B <= k * B
    <2>1. rest + 1 <= k /\ (rest + 1) * B <= k * B
      BY <1>1, <1>4
    <2> QED
      BY <2>1, <1>1, <1>4
  <1>9. CASE piece # n - 1
    <2>1. r.length \in 1 .. B /\ r.begin + r.length <= metainfo_piece_length(m, piece)
      BY <1>1, <1>4, <1>6, <1>7, <1>8, <1>9
    <2> QED
      BY <1>4, <2>1 DEF Fits, r, B
  <1>10. CASE piece = n - 1
    <2>1. /\ m.last_piece_length = m.length - (n - 1) * (k * B)
          /\ (n - 1) * (k * B) = (k * piece) * B
          /\ (k * piece) * B \in Int
          /\ b * B = (k * piece) * B + rest * B
          /\ (c - 1) * B = (k * piece) * B + (last - 1) * B
          /\ c * B = (c - 1) * B + B
      BY <1>1, <1>4, <1>10
    <2>2. CASE b = c - 1
      <3>1. b * B = (c - 1) * B
        BY <2>2
      <3> HIDE DEF c
      <3>2. r.length = m.length - b * B /\ rest * B \in Int /\ (c - 1) * B \in Int
        BY <1>1, <1>3, <1>4, <2>2
      <3>3. r.length \in 1 .. B /\ rest * B + r.length <= m.last_piece_length
        BY <1>1, <1>5, <2>1, <3>1, <3>2
      <3> QED
        BY <1>4, <1>6, <1>10, <3>3 DEF Fits, r, B
    <2>3. CASE b # c - 1
      <3>1. rest + 1 <= last - 1
        BY <1>1, <1>4, <1>10, <2>3
      <3>2. (rest + 1) * B <= (last - 1) * B /\ (rest + 1) * B = rest * B + B
        BY <1>1, <1>4, <3>1
      <3>3. rest * B \in Int /\ (last - 1) * B \in Int
        BY <1>1, <1>4
      <3>4. r.length = B
        BY <1>3, <2>3
      <3> HIDE DEF c
      <3>5. r.length \in 1 .. B /\ rest * B + r.length <= m.last_piece_length
        BY <1>1, <1>5, <2>1, <3>2, <3>3, <3>4
      <3> QED
        BY <1>4, <1>6, <1>10, <3>5 DEF Fits, r, B
    <2> QED
      BY <2>2, <2>3
  <1> QED
    BY <1>9, <1>10

-----------------------------------------------------------------------------
(* Torrents whose blocks can be numbered in a word. *)

\* Nothing of the number of blocks is lost, and there is one.
LEMMA BlocksNumbered ==
    ASSUME NEW m, WellFormed(m), CeilDiv(m.length, BlockLength) < Word
    PROVE  /\ m.blocks_count = CeilDiv(m.length, BlockLength)
           /\ m.blocks_count = (m.pieces_count - 1) * m.blocks_per_piece + m.last_piece_block_count
           /\ m.blocks_count \in Nat \ {0}
  <1> DEFINE c == CeilDiv(m.length, BlockLength)
  <1>1. c \in Nat \ {0} /\ c < Word /\ Word \in Nat \ {0}
    BY BlocksCount, BlockLengthAssumption, WordAssumption, RoundedUp
  <1>2. m.blocks_count = U32(c) /\ c = (m.pieces_count - 1) * m.blocks_per_piece + m.last_piece_block_count
    BY LastPiece
  <1> HIDE DEF c
  <1>3. U32(c) = c
    BY <1>1 DEF U32
  <1> QED
    BY <1>1, <1>2, <1>3 DEF c

\* A block ends where the next one starts, and the last one with the file: what
\* peer_put_block writes of one answer is not overwritten by another.
LEMMA BlockEnds ==
    ASSUME NEW m, WellFormed(m), CeilDiv(m.length, BlockLength) < Word, NEW b \in Blocks(m)
    PROVE  put_offset(b) + request_of_block(m, b).length =
              IF b + 1 \in Blocks(m) THEN put_offset(b + 1) ELSE m.length
  <1> DEFINE c == m.blocks_count
  <1>1. /\ c = (m.pieces_count - 1) * m.blocks_per_piece + m.last_piece_block_count
        /\ c \in Nat \ {0} /\ BlockLength \in Nat \ {0} /\ m.length \in Nat
    BY BlocksNumbered, BlocksCount, BlockLengthAssumption
  <1>2. request_of_block(m, b).length
          = IF b = c - 1 THEN m.length - b * BlockLength ELSE BlockLength
    BY <1>1, RequestLength
  <1>3. /\ b \in Nat /\ b < c
        /\ b + 1 \in Blocks(m) <=> b # c - 1
    BY <1>1 DEF Blocks
  <1> HIDE DEF c
  <1>4. b * BlockLength \in Int /\ (b + 1) * BlockLength = b * BlockLength + BlockLength
    BY <1>1, <1>3
  <1> QED
    BY <1>1, <1>2, <1>3, <1>4 DEF put_offset

\* Where a block is written is where its request says: at begin, counted from
\* the start of its piece.
LEMMA BlockStarts ==
    ASSUME NEW m, WellFormed(m), NEW b \in Blocks(m)
    PROVE  LET r == request_of_block(m, b)
           IN  put_offset(b) = r.index * m.piece_length + r.begin
  <1> DEFINE k     == m.blocks_per_piece
             piece == b \div k
             rest  == b % k
             r     == request_of_block(m, b)
  <1>1. Position(m, b, r, piece, rest)
    BY RequestPosition
  <1>2. k \in Nat \ {0} /\ m.piece_length = k * BlockLength /\ BlockLength \in Nat \ {0}
    BY BlocksPerPiece, BlockLengthAssumption
  <1> HIDE DEF piece, rest, r
  <1>3. /\ piece \in Nat /\ rest \in Nat /\ b = k * piece + rest
        /\ r.index = piece /\ r.begin = rest * BlockLength
    <2>1. piece \in Nat
      BY <1>1, BlocksInPiece DEF Position
    <2> QED
      BY <1>1, <2>1, Zenon DEF Position, k
  <1> HIDE DEF k
  <1>4. /\ piece * (k * BlockLength) = (k * piece) * BlockLength
        /\ (k * piece + rest) * BlockLength = (k * piece) * BlockLength + rest * BlockLength
    BY <1>2, <1>3
  <1>5. b * BlockLength = piece * m.piece_length + rest * BlockLength
    BY <1>2, <1>3, <1>4
  <1> QED
    BY <1>3, <1>5 DEF put_offset, r

\* The block of a request is one that its piece has, for the assertions of
\* metainfo_block_for_piece_length and metainfo_block_for_piece_to_block.
LEMMA BlockIsInPiece ==
    ASSUME NEW m, WellFormed(m), NEW b \in Blocks(m)
    PROVE  LET r   == request_of_block(m, b)
               bfp == r.begin \div BlockLength
           IN  /\ bfp < m.blocks_per_piece
               /\ bfp < metainfo_block_count_for_piece(m, r.index)
  <1> DEFINE k     == m.blocks_per_piece
             last  == m.last_piece_block_count
             piece == b \div k
             rest  == b % k
             r     == request_of_block(m, b)
  <1>1. Position(m, b, r, piece, rest)
    BY RequestPosition
  <1>2. k \in Nat /\ last \in Nat
    BY BlocksPerPiece, LastPiece
  <1> HIDE DEF piece, rest, r
  <1>3. /\ rest \in Nat /\ rest < k
        /\ piece = m.pieces_count - 1 => rest <= last - 1
        /\ r.index = piece /\ r.begin \div BlockLength = rest
    BY <1>1, Zenon DEF Position, k, last
  <1>4. metainfo_block_count_for_piece(m, r.index) = IF piece = m.pieces_count - 1 THEN last ELSE k
    BY <1>3 DEF metainfo_block_count_for_piece, metainfo_is_last_piece
  <1> HIDE DEF k, last
  <1>5. rest < k /\ rest < metainfo_block_count_for_piece(m, r.index)
    BY <1>2, <1>3, <1>4
  <1> QED
    BY <1>3, <1>5 DEF k, r

\* The blocks that picker_have_all_blocks_for_piece waits for exist.
LEMMA PieceBlocksExist ==
    ASSUME NEW m, WellFormed(m), CeilDiv(m.length, BlockLength) < Word, NEW piece \in Pieces(m)
    PROVE  /\ blocks_of_piece(m, piece) \subseteq Blocks(m)
           /\ piece * m.blocks_per_piece \in blocks_of_piece(m, piece)
  <1> DEFINE n     == m.pieces_count
             k     == m.blocks_per_piece
             last  == m.last_piece_block_count
             count == metainfo_block_count_for_piece(m, piece)
  <1>1. /\ m.blocks_count = (n - 1) * k + last
        /\ n \in Nat \ {0} /\ k \in Nat \ {0} /\ last \in 1 .. k
    BY BlocksNumbered, LastPiece, BlocksPerPiece
  <1>2. /\ piece \in Nat /\ piece <= n - 1 /\ count \in 1 .. k
        /\ count = IF piece = n - 1 THEN last ELSE k
    BY <1>1, BlocksInPiece
       DEF Pieces, metainfo_block_count_for_piece, metainfo_is_last_piece
  <1> HIDE DEF n, k, last, count
  <1>3. piece * k \in Nat /\ (n - 1) * k \in Nat
    BY <1>1, <1>2
  <1>4. piece * k + count <= (n - 1) * k + last
    <2>1. CASE piece = n - 1
      BY <1>1, <1>2, <1>3, <2>1
    <2>2. CASE piece # n - 1
      <3>1. (piece + 1) * k <= (n - 1) * k /\ (piece + 1) * k = piece * k + k
        BY <1>1, <1>2, <2>2
      <3> QED
        BY <1>1, <1>2, <1>3, <2>2, <3>1
    <2> QED
      BY <2>1, <2>2
  <1>5. blocks_of_piece(m, piece) = piece * k .. piece * k + count - 1
    BY DEF blocks_of_piece, k, count
  <1>6. /\ blocks_of_piece(m, piece) \subseteq Blocks(m)
        /\ piece * k \in blocks_of_piece(m, piece)
    BY <1>1, <1>2, <1>3, <1>4, <1>5 DEF Blocks
  <1> QED
    BY <1>6 DEF k

\* The 32-bit product of download_checksum_piece is the start of the piece, in
\* files of at most 4 GiB: where its first block is written.
LEMMA ChecksumStart ==
    ASSUME NEW m, WellFormed(m), m.length <= Word, NEW piece \in Pieces(m)
    PROVE  /\ checksum_offset(m, piece) = piece * m.piece_length
           /\ checksum_offset(m, piece) = put_offset(piece * m.blocks_per_piece)
  <1> DEFINE n == m.pieces_count
             P == m.piece_length
             k == m.blocks_per_piece
  <1>1. /\ n \in Nat \ {0} /\ P \in Nat \ {0} /\ P = k * BlockLength
        /\ k \in Nat \ {0} /\ BlockLength \in Nat \ {0} /\ Word \in Nat \ {0}
        /\ m.length \in Nat
        /\ m.length - (n - 1) * P >= 1
    BY LastPiece, BlocksPerPiece, BlocksCount, BlockLengthAssumption, WordAssumption
  <1>2. piece \in Nat /\ piece <= n - 1
    BY <1>1, BlocksInPiece DEF Pieces
  <1> HIDE DEF n, P, k
  <1>3. piece * P \in Nat /\ piece * P <= (n - 1) * P /\ (n - 1) * P \in Nat
    BY <1>1, <1>2
  <1>4. piece * P < Word
    BY <1>1, <1>3
  <1>5. U32(piece * P) = piece * P
    BY <1>1, <1>3, <1>4 DEF U32
  <1>6. piece * (k * BlockLength) = (piece * k) * BlockLength
    BY <1>1, <1>2
  <1> QED
    BY <1>1, <1>5, <1>6 DEF checksum_offset, put_offset, P, k
=============================================================================
