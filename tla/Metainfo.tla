------------------------------- MODULE Metainfo -------------------------------
(***************************************************************************)
(* The geometry of a torrent: how its bytes are cut into pieces, and its   *)
(* pieces into blocks (src/torrent/bencode.h).  A metainfo is a record     *)
(* with the fields of bc_metainfo_t that the download uses.  Fields and    *)
(* results declared uint32_t wrap modulo Word (2^32 in the build); length, *)
(* and the byte offset peer_put_block computes, are uint64_t and do not.   *)
(***************************************************************************)
EXTENDS Integers

CONSTANTS
    BlockLength,    \* BC_BLOCK_LENGTH, 2^14 bytes in the code
    Word            \* 2^32: the modulus of uint32_t arithmetic

ASSUME BlockLengthAssumption == BlockLength \in Nat \ {0}
ASSUME WordAssumption == Word \in Nat \ {0}

U32(x) == x % Word
CeilDiv(a, b) == (a + b - 1) \div b

\* Mutant of metainfo_init: the number of blocks of the file is rounded down.
metainfo_init_rounds_down(length, piece_length, pieces_count) ==
    LET last == length - (pieces_count - 1) * piece_length
    IN  [ length                 |-> length,
          piece_length           |-> piece_length,
          pieces_count           |-> pieces_count,
          blocks_per_piece       |-> piece_length \div BlockLength,
          last_piece_length      |-> last,
          last_piece_block_count |-> CeilDiv(last, BlockLength),
          blocks_count           |-> length \div BlockLength ]

(***************************************************************************)
(* The "QoL values" at the end of bc_parser_init_metainfo.                 *)
(***************************************************************************)
metainfo_init(length, piece_length, pieces_count) ==
    LET last == U32(length - U32((pieces_count - 1) * piece_length))
    IN  [ length                 |-> length,
          piece_length           |-> piece_length,
          pieces_count           |-> pieces_count,
          blocks_per_piece       |-> piece_length \div BlockLength,
          last_piece_length      |-> last,
          last_piece_block_count |-> CeilDiv(last, BlockLength),
          blocks_count           |-> U32(CeilDiv(length, BlockLength)) ]

Blocks(m) == 0 .. m.blocks_count - 1
Pieces(m) == 0 .. m.pieces_count - 1

metainfo_is_last_piece(m, piece) == piece = m.pieces_count - 1

metainfo_block_count_for_piece(m, piece) ==
    IF metainfo_is_last_piece(m, piece)
    THEN m.last_piece_block_count
    ELSE m.blocks_per_piece

\* The last block of the last piece is whatever the other blocks leave over.
metainfo_block_for_piece_length(m, piece, block_for_piece) ==
    IF /\ metainfo_is_last_piece(m, piece)
       /\ block_for_piece = m.last_piece_block_count - 1
    THEN U32(m.length - U32(piece * m.piece_length
                            + block_for_piece * BlockLength))
    ELSE BlockLength

metainfo_piece_length(m, piece) ==
    IF metainfo_is_last_piece(m, piece)
    THEN m.last_piece_length
    ELSE m.piece_length

metainfo_block_to_block_for_piece(m, piece, block) ==
    LET bfp == U32(block * BlockLength - piece * m.piece_length) \div BlockLength
    IN  IF metainfo_is_last_piece(m, piece) /\ bfp >= m.last_piece_block_count
        THEN m.last_piece_block_count - 1
        ELSE bfp

metainfo_block_for_piece_to_block(m, piece, block_for_piece) ==
    U32(piece * m.blocks_per_piece + block_for_piece)

(***************************************************************************)
(* Positions computed by the peer code from that geometry.                 *)
(***************************************************************************)

\* picker_pick_block and peer_send_request: the piece a block belongs to.
piece_of_block(m, block) == block \div m.blocks_per_piece

\* peer_send_request: the three numbers of a Request message.
request_of_block(m, block) ==
    LET piece == piece_of_block(m, block)
    IN  [ index  |-> piece,
          begin  |-> U32(block * BlockLength - piece * m.piece_length),
          length |-> metainfo_block_for_piece_length(m, piece,
                       metainfo_block_to_block_for_piece(m, piece, block)) ]

\* peer_message_handle: the block that an answer (index, begin) is stored as.
block_of_answer(m, index, begin) ==
    metainfo_block_for_piece_to_block(m, index, begin \div BlockLength)

\* peer_put_block: where in the file a block is written (uint64_t).
put_offset(block) == block * BlockLength

\* download_checksum_piece, picker_checksum_all: where a piece is read back.
\* Both factors are uint32_t, so the product wraps before it is widened.
checksum_offset(m, piece) == U32(piece * m.piece_length)

\* The blocks of a piece: first_block .. last_block in the picker.
blocks_of_piece(m, piece) ==
    LET first == piece * m.blocks_per_piece
    IN  first .. first + metainfo_block_count_for_piece(m, piece) - 1
=============================================================================
