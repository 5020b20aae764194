------------------------------ MODULE MCMetainfo ------------------------------
(***************************************************************************)
(* The geometry of Metainfo for every torrent in a bounded set: a torrent  *)
(* is picked, and its blocks are walked over in order, the way the picker  *)
(* hands them out.  A part of TorrentFile.                                 *)
(***************************************************************************)
EXTENDS Metainfo

CONSTANTS
    MaxLength,          \* bound on the length of the file
    MaxBlocksPerPiece   \* bound on the piece length, in blocks

\* Some torrent, a piece of which is shorter than a word, and whose blocks can
\* be numbered in one (64 TiB, with the sizes of the code).
ASSUME MaxLengthAssumption ==
    /\ MaxLength \in Nat \ {0}
    /\ CeilDiv(MaxLength, BlockLength) < Word
ASSUME MaxBlocksPerPieceAssumption ==
    /\ MaxBlocksPerPiece \in Nat \ {0}
    /\ MaxBlocksPerPiece * BlockLength < Word

VARIABLES
    m,      \* the torrent
    block   \* the block under consideration

\* Well-formed torrents: whole blocks in a piece, and as many pieces as the
\* file needs.  Lengths beyond Word are included (length is a uint64_t).
Torrents ==
    { metainfo_init(l, k * BlockLength, CeilDiv(l, k * BlockLength)) :
        l \in 1 .. MaxLength, k \in 1 .. MaxBlocksPerPiece }

GeometryInit ==
    /\ m \in Torrents
    /\ block = 0

NextBlock ==
    /\ block + 1 \in Blocks(m)
    /\ block' = block + 1
    /\ UNCHANGED m

-----------------------------------------------------------------------------
(***************************************************************************)
(* A request names its block: the answer to the Request message sent for a *)
(* block is accepted by peer_message_parse (it stays within its piece and  *)
(* has the expected length), trips none of the geometry assertions, and is *)
(* stored by peer_put_block as the very block that was asked for, at the   *)
(* byte of the file that (index, begin) stands for.                        *)
(***************************************************************************)
RequestNamesItsBlock ==
    LET r   == request_of_block(m, block)
        bfp == r.begin \div BlockLength
    IN  /\ r.index \in Pieces(m)
        /\ bfp < m.blocks_per_piece
        /\ bfp < metainfo_block_count_for_piece(m, r.index)
        /\ r.begin + r.length <= metainfo_piece_length(m, r.index)
        /\ r.length = metainfo_block_for_piece_length(m, r.index, bfp)
        /\ block_of_answer(m, r.index, r.begin) = block
        /\ put_offset(block) = r.index * m.piece_length + r.begin

(***************************************************************************)
(* The blocks tile the file: each block ends where the next one starts,    *)
(* and the last one ends at the end of the file, short or not.  No byte is *)
(* downloaded twice and none is left out.                                  *)
(***************************************************************************)
BlocksTileTheFile ==
    put_offset(block) + request_of_block(m, block).length =
        IF block + 1 \in Blocks(m) THEN put_offset(block + 1) ELSE m.length

(***************************************************************************)
(* The checksum reads the piece back: picker_have_all_blocks_for_piece     *)
(* waits for exactly the blocks that picker_pick_block attributes to the   *)
(* piece, and download_checksum_piece hashes exactly the bytes those       *)
(* blocks were written to.  The offset is a 32-bit product, so this holds  *)
(* for files of at most Word (4 GiB) bytes.                                *)
(***************************************************************************)
ChecksumReadsThePiece ==
    LET piece == piece_of_block(m, block)
        mine  == blocks_of_piece(m, piece)
    IN  /\ block \in mine
        /\ \A b \in mine : b \in Blocks(m) /\ piece_of_block(m, b) = piece
        /\ m.length <= Word =>
             /\ checksum_offset(m, piece) <= put_offset(block)
             /\ put_offset(block) + request_of_block(m, block).length
                    <= checksum_offset(m, piece) + metainfo_piece_length(m, piece)
             /\ \E b \in mine : checksum_offset(m, piece) = put_offset(b)

(***************************************************************************)
(* The conversions between file, piece, block and byte agree everywhere,   *)
(* at the short last piece and the short last block too.                   *)
(***************************************************************************)
PositionsAgree == RequestNamesItsBlock /\ BlocksTileTheFile /\ ChecksumReadsThePiece
=============================================================================
