---------------------------- MODULE DownloadProofs ----------------------------
(***************************************************************************)
(* Theorems about Download, for every set of peers, every well-formed      *)
(* torrent, every pipeline limit and every combination of failures: type   *)
(* correctness, then NoLostWakeup, and then the accounting of blocks, the  *)
(* pipeline and the counters.                                              *)
(*                                                                         *)
(* A read callback starts the idle handle of its peer once: after the      *)
(* first message that asks for more blocks it remembers that in            *)
(* idle_started and leaves the handle alone (the loop of peer_on_read).    *)
(* That goes wrong when one read brings such a message, a choke, and       *)
(* another such message, and only then: wakeups are not lost when a read   *)
(* brings no more than two messages, or when remotes do not choke us       *)
(* again.                                                                  *)
(***************************************************************************)
EXTENDS Download, MetainfoProofs, FiniteSetTheorems, TLAPS

-----------------------------------------------------------------------------
(* The geometry of the torrent being downloaded. *)

\* The torrent being downloaded (metainfo_init) is well-formed.
LEMMA MIsWellFormed == WellFormed(M)
  BY LengthAssumption, PieceLengthAssumption DEF WellFormed, M, PiecesCount

\* Its blocks are finitely many, and each belongs to a piece (picker_pick_block).
LEMMA BlocksAndPieces ==
    /\ AllBlocks \subseteq Nat
    /\ IsFiniteSet(AllBlocks)
    /\ \A b \in AllBlocks : piece_of_block(M, b) \in AllPieces
  <1>1. M.blocks_count \in Nat
    BY MIsWellFormed, BlocksCount
  <1>2. AllBlocks = 0 .. M.blocks_count - 1
    BY DEF AllBlocks, Blocks
  <1>3. IsFiniteSet(AllBlocks)
    BY <1>1, <1>2, FS_Interval
  <1>4. \A b \in AllBlocks : piece_of_block(M, b) \in AllPieces
    BY MIsWellFormed, PieceOfBlock DEF AllBlocks, AllPieces
  <1> QED
    BY <1>1, <1>2, <1>3, <1>4

\* The numbers the handlers add and subtract are integers.
LEMMA Lengths ==
    /\ M.blocks_count \in Nat
    /\ \A piece \in AllPieces :
         /\ metainfo_piece_length(M, piece) \in Nat
         /\ metainfo_block_count_for_piece(M, piece) \in Int
    /\ \A b \in AllBlocks :
         /\ request_of_block(M, b).length \in Nat
         /\ request_of_block(M, b).index \in AllPieces
         /\ request_of_block(M, b).begin \in Nat
  <1>1. /\ BlockLength \in Nat \ {0}
        /\ Word \in Nat \ {0}
        /\ Length \in Nat \ {0}
        /\ PieceLength \in Nat \ {0}
    BY BlockLengthAssumption, WordAssumption, LengthAssumption, PieceLengthAssumption
  <1>2. \A x \in Int : U32(x) \in Nat
    BY <1>1 DEF U32
  <1>3. PiecesCount \in Int
    BY <1>1 DEF PiecesCount, CeilDiv
  <1>4. /\ M.length = Length
        /\ M.piece_length = PieceLength
        /\ M.pieces_count = PiecesCount
        /\ M.last_piece_length = U32(Length - U32((PiecesCount - 1) * PieceLength))
        /\ M.last_piece_block_count = CeilDiv(M.last_piece_length, BlockLength)
    BY DEF M, metainfo_init
  <1>5. M.last_piece_length \in Nat
    <2>1. (PiecesCount - 1) * PieceLength \in Int
      BY <1>1, <1>3
    <2>2. Length - U32((PiecesCount - 1) * PieceLength) \in Int
      BY <1>1, <1>2, <2>1
    <2> QED
      BY <1>2, <1>4, <2>2
  <1>6. M.last_piece_block_count \in Int
    BY <1>1, <1>4, <1>5 DEF CeilDiv
  <1>7. M.blocks_per_piece \in Nat \ {0} /\ M.blocks_count \in Nat
    BY MIsWellFormed, BlocksPerPiece, BlocksCount
  <1>8. ASSUME NEW piece \in AllPieces
        PROVE  /\ metainfo_piece_length(M, piece) \in Nat
               /\ metainfo_block_count_for_piece(M, piece) \in Int
    BY <1>1, <1>4, <1>5, <1>6, <1>7
       DEF metainfo_piece_length, metainfo_block_count_for_piece
  <1>9. ASSUME NEW b \in AllBlocks
        PROVE  /\ request_of_block(M, b).length \in Nat
               /\ request_of_block(M, b).index \in AllPieces
               /\ request_of_block(M, b).begin \in Nat
    <2> DEFINE piece == piece_of_block(M, b)
               bfp == metainfo_block_to_block_for_piece(M, piece, b)
    <2>1. piece \in AllPieces /\ piece \in Int /\ b \in Int
      BY <1>3, <1>4, BlocksAndPieces DEF AllPieces, Pieces
    <2>2. b * BlockLength - piece * M.piece_length \in Int
      BY <1>1, <1>4, <2>1
    <2>3. U32(b * BlockLength - piece * M.piece_length) \in Nat
      BY <1>2, <2>2
    <2>4. bfp \in Int
      BY <1>1, <1>6, <2>3 DEF metainfo_block_to_block_for_piece
    <2>5. piece * M.piece_length + bfp * BlockLength \in Int
      BY <1>1, <1>4, <2>1, <2>4
    <2>6. M.length - U32(piece * M.piece_length + bfp * BlockLength) \in Int
      BY <1>1, <1>2, <1>4, <2>5
    <2>7. metainfo_block_for_piece_length(M, piece, bfp) \in Nat
      BY <1>1, <1>2, <2>6 DEF metainfo_block_for_piece_length
    <2> QED
      BY <2>1, <2>3, <2>7 DEF request_of_block
  <1> QED
    BY <1>7, <1>8, <1>9

-----------------------------------------------------------------------------
(* Type correctness. *)

\* What a message of each kind carries.
LEMMA MessageTypes ==
    ASSUME NEW msg \in Messages
    PROVE  /\ msg.kind = "have" => msg.piece \in AllPieces
           /\ msg.kind = "bitfield" => msg.pieces \in SUBSET AllPieces
           /\ msg.kind = "piece" => /\ BlockOf(msg) \in AllBlocks
                                    /\ msg.content \in {"good", "bad"}
  <1>1. \A b \in AllBlocks, c \in {"good", "bad"} :
          BlockOf(Answer(b, c)) = b /\ Answer(b, c).content = c
    BY MIsWellFormed, RequestRoundTrip DEF BlockOf, Answer, AllBlocks
  <1>2. \A b \in AllBlocks, c \in {"good", "bad"} : Answer(b, c).kind = "piece"
    BY DEF Answer
  <1> QED
    BY <1>1, <1>2 DEF Messages

\* The message a handler is about to parse exists.
LEMMA ParsedMessage ==
    ASSUME TypeOK, NEW p \in Peers, NEW kind, Parses(p, kind)
    PROVE  /\ callback \in [peer : Peers, left : Nat \ {0}, idle_started : BOOLEAN]
           /\ callback.left <= Len(inbox[p])
           /\ inbox[p] \in Seq(Messages)
           /\ inbox[p] # <<>>
           /\ Head(inbox[p]) \in Messages
           /\ Head(inbox[p]).kind = kind
           /\ Tail(inbox[p]) \in Seq(Messages)
           /\ Len(Tail(inbox[p])) = Len(inbox[p]) - 1
  <1>1. /\ callback \in [peer : Peers, left : Nat \ {0}, idle_started : BOOLEAN]
        /\ callback.left <= Len(inbox[p])
        /\ inbox[p] \in Seq(Messages)
        /\ Head(inbox[p]).kind = kind
    BY DEF TypeOK, Parses, Callbacks
  <1>2. callback.left >= 1
    BY <1>1
  <1>3. Len(inbox[p]) >= 1
    BY <1>1, <1>2
  <1>4. inbox[p] # <<>>
    BY <1>1, <1>3
  <1> QED
    BY <1>1, <1>4

\* The part of TypeOK that Consume and NextMessage touch.
CallbackOK ==
    /\ callback \in Callbacks
    /\ inbox \in [Peers -> Seq(Messages)]
    /\ callback # NoCallback => callback.left <= Len(inbox[callback.peer])

\* The read loop of peer_on_read never goes past the messages that were read.
LEMMA ConsumeKeepsCallback ==
    ASSUME TypeOK, NEW p \in Peers, NEW kind, Parses(p, kind), Consume(p),
           \/ \E starts \in BOOLEAN : NextMessage(starts)
           \/ callback' = NoCallback
    PROVE  CallbackOK'
  <1>1. /\ callback \in [peer : Peers, left : Nat \ {0}, idle_started : BOOLEAN]
        /\ callback.peer = p
        /\ callback.left <= Len(inbox[p])
        /\ Tail(inbox[p]) \in Seq(Messages)
        /\ Len(Tail(inbox[p])) = Len(inbox[p]) - 1
        /\ inbox[p] \in Seq(Messages)
    BY ParsedMessage DEF Parses
  <1>2. inbox' = [inbox EXCEPT ![p] = Tail(inbox[p])]
    BY DEF Consume
  <1>3. inbox' \in [Peers -> Seq(Messages)] /\ inbox'[p] = Tail(inbox[p])
    BY <1>1, <1>2 DEF TypeOK
  <1>4. CASE callback' = NoCallback
    BY <1>3, <1>4 DEF CallbackOK, Callbacks
  <1>5. CASE callback' # NoCallback
    <2>1. PICK starts \in BOOLEAN : NextMessage(starts)
      BY <1>5
    <2>2. /\ callback.left # 1
          /\ callback' = [callback EXCEPT !.left = @ - 1,
                                         !.idle_started = IF starts THEN TRUE ELSE @]
      BY <1>5, <2>1 DEF NextMessage
    <2>3. /\ callback' \in [peer : Peers, left : Nat \ {0}, idle_started : BOOLEAN]
          /\ callback'.peer = p
          /\ callback'.left = callback.left - 1
      <3> DEFINE x == IF starts THEN TRUE ELSE callback.idle_started
      <3>1. x \in BOOLEAN
        BY <1>1
      <3>2. callback' = [callback EXCEPT !.left = @ - 1, !.idle_started = x]
        BY <2>2
      <3>3. callback.left - 1 \in Nat \ {0}
        BY <1>1, <2>2
      <3> HIDE DEF x
      <3> QED
        BY <1>1, <3>1, <3>2, <3>3
    <2>4. callback'.left <= Len(inbox'[p])
      BY <1>1, <1>3, <2>3
    <2> QED
      BY <1>3, <2>3, <2>4 DEF CallbackOK, Callbacks
  <1> QED
    BY <1>4, <1>5

\* Handling a message (peer_message_handle) keeps the types.
LEMMA HandlersKeepTypes ==
    ASSUME TypeOK, NEW p \in Peers, HandleMessage(p)
    PROVE  TypeOK'
  <1> USE DEF pickerVars, downloadVars, writeVars, themVars, remoteVars, historyVars
  <1>1. CASE on_handshake(p)
    <2>1. CallbackOK'
      BY <1>1, ConsumeKeepsCallback DEF on_handshake, ActNone
    <2> QED
      BY <1>1, <2>1 DEF on_handshake, ActNone, Consume, TypeOK, CallbackOK
  <1>2. CASE on_malformed(p)
    <2>1. CallbackOK'
      BY <1>2, ConsumeKeepsCallback DEF on_malformed
    <2> QED
      BY <1>2, <2>1 DEF on_malformed, peer_close, Consume, TypeOK, CallbackOK
  <1>3. CASE on_heartbeat(p)
    <2>1. CallbackOK'
      BY <1>3, ConsumeKeepsCallback DEF on_heartbeat, ActNone
    <2>2. ~aborted
      BY <1>3 DEF on_heartbeat, Parses, Running
    <2>3. aborted' \in BOOLEAN
      BY <1>3 DEF on_heartbeat
    <2>4. /\ control_writes' \in [Peers -> Nat]
          /\ connection' \in [Peers -> {"init", "connecting", "open", "closing", "closed"}]
      <3>1. \/ /\ control_writes' = [control_writes EXCEPT ![p] = @ + 1]
               /\ UNCHANGED connection
            \/ /\ peer_close(p)
               /\ UNCHANGED control_writes
        BY <1>3 DEF on_heartbeat
      <3>2. /\ control_writes \in [Peers -> Nat]
            /\ connection \in [Peers -> {"init", "connecting", "open", "closing", "closed"}]
        BY DEF TypeOK
      <3>3. control_writes[p] + 1 \in Nat
        BY <3>2
      <3>4. CASE /\ control_writes' = [control_writes EXCEPT ![p] = @ + 1]
                 /\ UNCHANGED connection
        BY <3>2, <3>3, <3>4
      <3>5. CASE /\ connection' = [connection EXCEPT ![p] = "closing"]
                 /\ UNCHANGED control_writes
        BY <3>2, <3>5
      <3> QED
        BY <3>1, <3>4, <3>5 DEF peer_close
    <2>5. /\ UNCHANGED <<pickerVars, downloadVars, disk, handshaked, themVars,
                         in_flight_requests, request_writes, booted, historyVars>>
          /\ UNCHANGED <<idle_handle, asked, remote>>
      BY <1>3 DEF on_heartbeat, ActNone, Consume
    <2> QED
      BY <2>1, <2>2, <2>3, <2>4, <2>5, SMTT(30) DEF TypeOK, CallbackOK
  <1>4. CASE on_choke(p)
    <2>1. CallbackOK'
      BY <1>4, ConsumeKeepsCallback DEF on_choke, ActStopRequesting
    <2> QED
      BY <1>4, <2>1 DEF on_choke, ActStopRequesting, Consume, TypeOK, CallbackOK
  <1>5. CASE on_unchoke(p)
    <2>1. CallbackOK'
      BY <1>5, ConsumeKeepsCallback DEF on_unchoke, ActRequestMore
    <2> QED
      BY <1>5, <2>1 DEF on_unchoke, ActRequestMore, Consume, TypeOK, CallbackOK
  <1>6. CASE on_interested(p)
    <2>1. CallbackOK'
      BY <1>6, ConsumeKeepsCallback DEF on_interested, ActNone
    <2> QED
      BY <1>6, <2>1 DEF on_interested, ActNone, Consume, TypeOK, CallbackOK
  <1>7. CASE on_have(p)
    <2>1. CallbackOK'
      BY <1>7, ConsumeKeepsCallback DEF on_have, ActRequestMore
    <2>2. them_have_pieces' \in [Peers -> SUBSET AllPieces]
      <3>1. them_have_pieces \in [Peers -> SUBSET AllPieces]
        BY DEF TypeOK
      <3>2. CASE /\ Parses(p, "have")
                 /\ them_have_pieces' =
                      [them_have_pieces EXCEPT ![p] = @ \cup {Head(inbox[p]).piece}]
        <4>1. Head(inbox[p]).piece \in AllPieces
          BY <3>2, ParsedMessage, MessageTypes
        <4> QED
          BY <3>1, <3>2, <4>1
      <3>3. CASE /\ Parses(p, "bitfield")
                 /\ them_have_pieces' =
                      [them_have_pieces EXCEPT ![p] = Head(inbox[p]).pieces]
        <4>1. Head(inbox[p]).pieces \in SUBSET AllPieces
          BY <3>3, ParsedMessage, MessageTypes
        <4> QED
          BY <3>1, <3>3, <4>1
      <3> QED
        BY <1>7, <3>2, <3>3 DEF on_have
    <2> QED
      BY <1>7, <2>1, <2>2 DEF on_have, ActRequestMore, Consume, TypeOK, CallbackOK
  <1>8. CASE on_unwanted_piece(p)
    <2>1. CallbackOK'
      BY <1>8, ConsumeKeepsCallback DEF on_unwanted_piece, ActNone
    <2> QED
      BY <1>8, <2>1 DEF on_unwanted_piece, ActNone, peer_close, Consume, TypeOK, CallbackOK
  <1>9. CASE on_piece(p)
    <2>1. CallbackOK'
      BY <1>9, ConsumeKeepsCallback DEF on_piece, ActRequestMore
    <2> DEFINE msg == Head(inbox[p])
               b == BlockOf(msg)
               content == msg.content
    <2>2. b \in AllBlocks /\ content \in {"good", "bad"}
      BY <1>9, ParsedMessage, MessageTypes DEF on_piece
    <2>3. PutFails(b) \/ PutBlock(p, b, content)
      BY <1>9 DEF on_piece, BlockOf
    <2>4. /\ idle_handle' \in [Peers -> BOOLEAN]
          /\ asked' = asked /\ remote' = remote
          /\ UNCHANGED <<connection, handshaked, themVars, writeVars, booted>>
      BY <1>9 DEF on_piece, ActRequestMore, Consume, TypeOK
    <2>5. in_flight_requests[p] > 0 /\ ~aborted
      BY <1>9 DEF on_piece, Parses, Running
    <2> HIDE DEF msg, b, content
    <2>6. CASE PutFails(b)
      <3>1. disk' \in [AllBlocks -> {"good", "bad"}]
        BY <2>2, <2>6 DEF PutFails, TypeOK
      <3>2. aborted' \in BOOLEAN
        BY <2>6 DEF PutFails
      <3>3. UNCHANGED <<pickerVars, downloadVars, in_flight_requests, historyVars>>
        BY <2>6 DEF PutFails
      <3> QED
        BY <2>1, <2>4, <2>5, <3>1, <3>2, <3>3 DEF TypeOK, CallbackOK
    <2>7. CASE PutBlock(p, b, content)
      <3> DEFINE piece == piece_of_block(M, b)
                 bytes == downloaded_bytes + request_of_block(M, b).length
                 blocks == downloaded_blocks_count + 1
      <3>1. piece \in AllPieces
        BY <2>2, BlocksAndPieces
      <3>2. /\ request_of_block(M, b).length \in Nat
            /\ metainfo_piece_length(M, piece) \in Nat
            /\ metainfo_block_count_for_piece(M, piece) \in Int
        BY <2>2, <3>1, Lengths
      <3>3. /\ disk' = [disk EXCEPT ![b] = content]
            /\ picker_mark_block_as_downloaded(b)
            /\ in_flight_requests' = [in_flight_requests EXCEPT ![p] = @ - 1]
            /\ requests' = [requests EXCEPT ![p] = @ \ {b}]
        BY <2>7 DEF PutBlock
      <3>4. /\ disk' \in [AllBlocks -> {"good", "bad"}]
            /\ in_flight_requests' \in [Peers -> Nat]
            /\ requests' \in [Peers -> SUBSET AllBlocks]
            /\ blocks_to_download' \subseteq AllBlocks
            /\ blocks_downloading' \subseteq AllBlocks
            /\ blocks_downloaded' \subseteq AllBlocks
        BY <2>2, <2>5, <3>3 DEF picker_mark_block_as_downloaded, TypeOK
      <3>5. /\ downloaded_pieces_count' \in Nat
            /\ downloaded_blocks_count' \in Int
            /\ downloaded_bytes' \in Int
            /\ rejected' \subseteq AllPieces
            /\ aborted' \in BOOLEAN
            /\ ~aborted' => downloaded_blocks_count' >= 0 /\ downloaded_bytes' >= 0
        <4>1. /\ bytes \in Int /\ bytes >= 0
              /\ blocks \in Int /\ blocks >= 0
          BY <2>5, <3>2 DEF TypeOK
        <4>2. \/ /\ downloaded_bytes' = bytes
                 /\ downloaded_blocks_count' = blocks
                 /\ UNCHANGED <<downloaded_pieces_count, rejected>>
              \/ /\ downloaded_bytes' = bytes
                 /\ downloaded_blocks_count' = blocks
                 /\ downloaded_pieces_count' = downloaded_pieces_count + 1
                 /\ UNCHANGED rejected
              \/ /\ downloaded_bytes' = bytes - metainfo_piece_length(M, piece)
                 /\ downloaded_blocks_count' = blocks - metainfo_block_count_for_piece(M, piece)
                 /\ ~aborted' => /\ bytes >= metainfo_piece_length(M, piece)
                                 /\ blocks >= metainfo_block_count_for_piece(M, piece)
                 /\ rejected' = rejected \cup {piece}
                 /\ UNCHANGED downloaded_pieces_count
          BY <2>7 DEF PutBlock
        <4>3. aborted' \in BOOLEAN
          BY <2>7 DEF PutBlock
        <4>4. downloaded_pieces_count \in Nat /\ rejected \subseteq AllPieces
          BY DEF TypeOK
        <4> HIDE DEF piece, bytes, blocks
        <4>5. downloaded_pieces_count' \in Nat /\ rejected' \subseteq AllPieces
          BY <3>1, <4>2, <4>4
        <4>6. downloaded_blocks_count' \in Int /\ downloaded_bytes' \in Int
          BY <3>2, <4>1, <4>2
        <4>7. ASSUME ~aborted'
              PROVE  downloaded_blocks_count' >= 0 /\ downloaded_bytes' >= 0
          BY <3>2, <4>1, <4>2, <4>7
        <4> QED
          BY <4>3, <4>5, <4>6, <4>7
      <3> QED
        BY <2>1, <2>4, <3>4, <3>5 DEF TypeOK, CallbackOK
    <2> QED
      BY <2>3, <2>6, <2>7
  <1> QED
    BY <1>1, <1>2, <1>3, <1>4, <1>5, <1>6, <1>7, <1>8, <1>9 DEF HandleMessage

\* A message that a remote sends arrives at the end of the inbox.
LEMMA SendKeepsCallback ==
    ASSUME TypeOK, NEW p \in Peers, NEW msg \in Messages, RemoteSends(p, msg)
    PROVE  CallbackOK'
  <1>1. /\ inbox' = [inbox EXCEPT ![p] = Append(inbox[p], msg)]
        /\ inbox \in [Peers -> Seq(Messages)]
        /\ callback' = callback
    BY DEF RemoteSends, TypeOK
  <1>2. /\ Append(inbox[p], msg) \in Seq(Messages)
        /\ Len(Append(inbox[p], msg)) = Len(inbox[p]) + 1
    BY <1>1
  <1>3. /\ inbox' \in [Peers -> Seq(Messages)]
        /\ \A q \in Peers : /\ Len(inbox[q]) \in Nat
                            /\ Len(inbox'[q]) \in {Len(inbox[q]), Len(inbox[q]) + 1}
    BY <1>1, <1>2
  <1>4. ASSUME callback # NoCallback
        PROVE  callback.left <= Len(inbox'[callback.peer])
    BY <1>3, <1>4 DEF TypeOK, Callbacks
  <1> QED
    BY <1>1, <1>3, <1>4 DEF CallbackOK, TypeOK

\* Whatever a remote peer sends keeps the types.
LEMMA RemoteKeepsTypes ==
    ASSUME TypeOK, NEW p \in Peers, Remote(p)
    PROVE  TypeOK'
  <1> DEFINE RemoteStates ==
        [said : {"nothing", "hello", "more", "goodbye"},
         announced : SUBSET AllPieces, choking : BOOLEAN, chokes : Nat, noise : Nat]
  <1>1. ASSUME NEW msg \in Messages, RemoteSends(p, msg),
               remote' \in [Peers -> RemoteStates],
               asked' \in [Peers -> SUBSET AllBlocks]
        PROVE  TypeOK'
    <2>1. CallbackOK'
      BY <1>1, SendKeepsCallback
    <2> QED
      BY <1>1, <2>1
         DEF RemoteSends, TypeOK, CallbackOK, pickerVars, downloadVars, writeVars,
             themVars, historyVars
  <1>2. /\ remote \in [Peers -> RemoteStates]
        /\ asked \in [Peers -> SUBSET AllBlocks]
    BY DEF TypeOK
  <1>3. \A b \in AllBlocks, c \in {"good", "bad"} : Answer(b, c) \in Messages
    BY DEF Messages
  <1>4. Contents \subseteq {"good", "bad"}
    BY DEF Contents
  <1>5. RemoteHas[p] \in SUBSET AllPieces
    BY RemoteHasAssumption
  <1>6. CASE RemoteHandshake(p)
    BY <1>1, <1>2, <1>6 DEF RemoteHandshake, Messages
  <1>7. CASE RemoteBitfield(p)
    <2>1. PICK S \in SUBSET RemoteHas[p] :
            /\ remote' = [remote EXCEPT ![p].said = "more", ![p].announced = S]
            /\ RemoteSends(p, [kind |-> "bitfield", pieces |-> S])
      BY <1>7 DEF RemoteBitfield
    <2>2. [kind |-> "bitfield", pieces |-> S] \in Messages
      BY <1>5 DEF Messages
    <2>3. remote' \in [Peers -> RemoteStates]
      BY <1>2, <1>5, <2>1
    <2>4. asked' = asked
      BY <1>7 DEF RemoteBitfield
    <2> QED
      BY <1>1, <1>2, <2>1, <2>2, <2>3, <2>4
  <1>8. CASE RemoteHave(p)
    <2>1. PICK piece \in RemoteHas[p] :
            /\ remote' = [remote EXCEPT ![p].said = "more",
                                        ![p].announced = @ \cup {piece}]
            /\ RemoteSends(p, [kind |-> "have", piece |-> piece])
      BY <1>8 DEF RemoteHave
    <2>2. [kind |-> "have", piece |-> piece] \in Messages
      BY <1>5 DEF Messages
    <2>3. remote' \in [Peers -> RemoteStates]
      BY <1>2, <1>5, <2>1
    <2>4. asked' = asked
      BY <1>8 DEF RemoteHave
    <2> QED
      BY <1>1, <1>2, <2>1, <2>2, <2>3, <2>4
  <1>9. CASE RemoteUnchoke(p)
    BY <1>1, <1>2, <1>9 DEF RemoteUnchoke, Messages
  <1>10. CASE RemoteChoke(p)
    BY <1>1, <1>2, <1>10 DEF RemoteChoke, Messages
  <1>11. CASE RemoteNoise(p)
    <2>1. PICK kind \in {"heartbeat", "interested", "uninterested", "request", "cancel"} :
            RemoteSends(p, [kind |-> kind])
      BY <1>11 DEF RemoteNoise
    <2>2. [kind |-> kind] \in Messages
      BY DEF Messages
    <2> QED
      BY <1>1, <1>2, <1>11, <2>1, <2>2 DEF RemoteNoise
  <1>12. CASE RemoteServe(p)
    <2>1. PICK b \in asked[p], content \in Contents :
            /\ asked' = [asked EXCEPT ![p] = @ \ {b}]
            /\ RemoteSends(p, Answer(b, content))
      BY <1>12 DEF RemoteServe
    <2>2. Answer(b, content) \in Messages
      BY <1>2, <1>3, <1>4
    <2>3. remote' = remote
      BY <1>12 DEF RemoteServe
    <2> QED
      BY <1>1, <1>2, <2>1, <2>2, <2>3
  <1>13. CASE RemoteMisbehaves(p)
    <2>1. asked' = asked
      BY <1>13 DEF RemoteMisbehaves
    <2>2. PICK msg \in Messages : RemoteSends(p, msg)
      <3>1. [kind |-> "eof"] \in Messages /\ [kind |-> "malformed"] \in Messages
        BY DEF Messages
      <3> QED
        BY <1>3, <1>4, <1>13, <3>1 DEF RemoteMisbehaves
    <2>3. \/ remote' = [remote EXCEPT ![p].said = "goodbye"]
          \/ remote' = [remote EXCEPT ![p].said = "more", ![p].noise = @ + 1]
      BY <1>13 DEF RemoteMisbehaves
    <2>4. remote' \in [Peers -> RemoteStates]
      BY <1>2, <2>3
    <2> QED
      BY <1>1, <1>2, <2>1, <2>2, <2>4
  <1> QED
    BY <1>6, <1>7, <1>8, <1>9, <1>10, <1>11, <1>12, <1>13 DEF Remote

\* The end of main() keeps the types.
LEMMA MainKeepsTypes ==
    ASSUME TypeOK, main
    PROVE  TypeOK'
  <1>1. /\ aborted' \in BOOLEAN
        /\ UNCHANGED <<blocks_to_download, blocks_downloading, blocks_downloaded,
                       downloaded_pieces_count, downloaded_blocks_count,
                       downloaded_bytes>>
    BY DEF main, picker_checksum_all, pickerVars, downloadVars
  <1>2. connection' \in [Peers -> {"init", "connecting", "open", "closing", "closed"}]
    BY DEF main
  <1>3. booted' = TRUE /\ UNCHANGED <<disk, handshaked, them_choked, them_interested,
           them_have_pieces, in_flight_requests, idle_handle, control_writes,
           request_writes, callback, inbox, asked, remote, requests, rejected>>
    BY DEF main, themVars, writeVars, remoteVars, historyVars
  <1>4. ~aborted' => downloaded_blocks_count' >= 0 /\ downloaded_bytes' >= 0
    BY <1>1 DEF main, TypeOK
  <1> QED
    BY <1>1, <1>2, <1>3, <1>4, SMTT(30) DEF TypeOK

\* peer_on_connect keeps the types.
LEMMA ConnectKeepsTypes ==
    ASSUME TypeOK, NEW p \in Peers, peer_on_connect(p)
    PROVE  TypeOK'
  <1>1. /\ control_writes \in [Peers -> Nat]
        /\ connection \in [Peers -> {"init", "connecting", "open", "closing", "closed"}]
        /\ aborted \in BOOLEAN
    BY DEF TypeOK
  <1>2. control_writes' \in [Peers -> Nat]
    BY <1>1 DEF peer_on_connect
  <1>3. connection' \in [Peers -> {"init", "connecting", "open", "closing", "closed"}]
    BY <1>1 DEF peer_on_connect, peer_close
  <1>4. aborted' \in BOOLEAN /\ ~aborted
    <2>1. ~aborted
      BY DEF peer_on_connect, Running
    <2>2. \/ aborted' = (2 > WriteCtxs)
          \/ aborted' = aborted
          \/ \E n \in {0, 1} : aborted' = (n + 1 > WriteCtxs)
      BY DEF peer_on_connect
    <2>3. ASSUME NEW n \in {0, 1}, aborted' = (n + 1 > WriteCtxs)
          PROVE  aborted' \in BOOLEAN
      BY <2>3
    <2>4. ASSUME aborted' = (2 > WriteCtxs)
          PROVE  aborted' \in BOOLEAN
      BY <2>4
    <2>5. ASSUME aborted' = aborted
          PROVE  aborted' \in BOOLEAN
      BY <1>1, <2>5
    <2> QED
      BY <2>1, <2>2, <2>3, <2>4, <2>5, Zenon
  <1>5. UNCHANGED <<pickerVars, downloadVars, disk, handshaked, themVars,
                    in_flight_requests, idle_handle, request_writes, callback,
                    booted, remoteVars, historyVars>>
    BY DEF peer_on_connect
  <1> QED
    BY <1>2, <1>3, <1>4, <1>5, SMTT(30)
       DEF TypeOK, pickerVars, downloadVars, themVars, remoteVars, historyVars

\* peer_on_write keeps the types; a context given back was in use.
LEMMA WriteKeepsTypes ==
    ASSUME TypeOK, NEW p \in Peers, peer_on_write(p)
    PROVE  TypeOK'
  <1>1. /\ control_writes \in [Peers -> Nat]
        /\ request_writes \in [Peers -> SUBSET AllBlocks]
        /\ asked \in [Peers -> SUBSET AllBlocks]
        /\ connection \in [Peers -> {"init", "connecting", "open", "closing", "closed"}]
    BY DEF TypeOK
  <1>2. ASSUME NEW sent \in SUBSET AllBlocks, WriteStatus(p, sent)
        PROVE  /\ asked' \in [Peers -> SUBSET AllBlocks]
               /\ connection' \in [Peers -> {"init", "connecting", "open", "closing", "closed"}]
    BY <1>1, <1>2 DEF WriteStatus, peer_close
  <1>3. UNCHANGED <<pickerVars, downloadVars, disk, handshaked, themVars,
                    in_flight_requests, idle_handle, callback, booted, aborted,
                    inbox, remote, historyVars>>
    BY DEF peer_on_write
  <1>4. CASE /\ control_writes[p] > 0
             /\ control_writes' = [control_writes EXCEPT ![p] = @ - 1]
             /\ WriteStatus(p, {})
             /\ UNCHANGED request_writes
    <2>1. control_writes' \in [Peers -> Nat]
      BY <1>1, <1>4
    <2>2. {} \in SUBSET AllBlocks
      OBVIOUS
    <2> QED
      BY <1>2, <1>3, <1>4, <2>1, <2>2, SMTT(30)
         DEF TypeOK, pickerVars, downloadVars, themVars, historyVars
  <1>5. ASSUME NEW b \in request_writes[p],
               request_writes' = [request_writes EXCEPT ![p] = @ \ {b}],
               WriteStatus(p, {b}),
               UNCHANGED control_writes
        PROVE  TypeOK'
    <2>1. request_writes' \in [Peers -> SUBSET AllBlocks] /\ {b} \in SUBSET AllBlocks
      BY <1>1, <1>5
    <2> QED
      BY <1>2, <1>3, <1>5, <2>1, SMTT(30)
         DEF TypeOK, pickerVars, downloadVars, themVars, historyVars
  <1> QED
    BY <1>4, <1>5 DEF peer_on_write

\* peer_on_close keeps the types.
LEMMA CloseKeepsTypes ==
    ASSUME TypeOK, NEW p \in Peers, peer_on_close(p)
    PROVE  TypeOK'
  BY SMTT(30) DEF peer_on_close, TypeOK, pickerVars, downloadVars, writeVars, themVars,
     remoteVars, historyVars

\* peer_on_read keeps the types.
LEMMA ReadKeepsTypes ==
    ASSUME TypeOK, NEW p \in Peers, peer_on_read(p)
    PROVE  TypeOK'
  <1>1. UNCHANGED <<pickerVars, downloadVars, disk, handshaked, themVars,
                    in_flight_requests, idle_handle, writeVars, booted, aborted,
                    remoteVars, historyVars>>
    BY DEF peer_on_read
  <1>2. \/ peer_close(p) /\ UNCHANGED callback
        \/ /\ \E n \in 1 .. ReadBatch :
                /\ n <= Len(inbox[p])
                /\ callback' = [peer |-> p, left |-> n, idle_started |-> FALSE]
           /\ UNCHANGED connection
    BY DEF peer_on_read
  <1>3. connection' \in [Peers -> {"init", "connecting", "open", "closing", "closed"}]
    BY <1>2 DEF peer_close, TypeOK
  <1>4. /\ callback' \in Callbacks
        /\ callback' # NoCallback => callback'.left <= Len(inbox[callback'.peer])
    <2>1. CASE UNCHANGED callback
      BY <2>1 DEF TypeOK
    <2>2. ASSUME NEW n \in 1 .. ReadBatch,
                 n <= Len(inbox[p]),
                 callback' = [peer |-> p, left |-> n, idle_started |-> FALSE]
          PROVE  /\ callback' \in Callbacks
                 /\ callback' # NoCallback => callback'.left <= Len(inbox[callback'.peer])
      BY <2>2, BoundsAssumption DEF Callbacks
    <2> QED
      BY <1>2, <2>1, <2>2
  <1> QED
    BY <1>1, <1>3, <1>4, SMTT(30)
       DEF TypeOK, pickerVars, downloadVars, writeVars, themVars, remoteVars, historyVars

\* peer_on_idle keeps the types.
LEMMA IdleKeepsTypes ==
    ASSUME TypeOK, NEW p \in Peers, peer_on_idle(p)
    PROVE  TypeOK'
  <1>1. /\ UNCHANGED <<downloadVars, disk, handshaked, themVars, control_writes,
                       callback, booted, remoteVars, rejected>>
        /\ ~aborted
    BY DEF peer_on_idle, Running
  <1>2. /\ idle_handle \in [Peers -> BOOLEAN]
        /\ in_flight_requests \in [Peers -> Nat]
        /\ request_writes \in [Peers -> SUBSET AllBlocks]
        /\ requests \in [Peers -> SUBSET AllBlocks]
        /\ connection \in [Peers -> {"init", "connecting", "open", "closing", "closed"}]
        /\ blocks_to_download \subseteq AllBlocks
        /\ blocks_downloading \subseteq AllBlocks
        /\ blocks_downloaded \subseteq AllBlocks
    BY DEF TypeOK
  <1>3. ASSUME NEW S \in SUBSET AllBlocks, NEW sent \in SUBSET S,
               MarkRequested(p, S, sent),
               idle_handle' \in [Peers -> BOOLEAN],
               connection' \in [Peers -> {"init", "connecting", "open", "closing", "closed"}]
        PROVE  TypeOK'
    <2>1. Cardinality(S) \in Nat
      BY BlocksAndPieces, FS_Subset, FS_CardinalityType
    <2>2. /\ blocks_downloading' = blocks_downloading \cup S
          /\ blocks_to_download' = blocks_to_download \ S
          /\ UNCHANGED blocks_downloaded
          /\ in_flight_requests' = [in_flight_requests EXCEPT ![p] = @ + Cardinality(S)]
          /\ request_writes' = [request_writes EXCEPT ![p] = @ \cup sent]
          /\ requests' = [requests EXCEPT ![p] = @ \cup S]
      BY <1>3 DEF MarkRequested, picker_mark_blocks_as_downloading
    <2>3. in_flight_requests' \in [Peers -> Nat]
      BY <1>2, <2>1, <2>2
    <2>4. /\ request_writes' \in [Peers -> SUBSET AllBlocks]
          /\ requests' \in [Peers -> SUBSET AllBlocks]
      BY <1>2, <2>2
    <2>5. aborted' \in BOOLEAN
      BY <1>3 DEF MarkRequested
    <2> QED
      BY <1>1, <1>2, <1>3, <2>2, <2>3, <2>4, <2>5, SMTT(30)
         DEF TypeOK, downloadVars, themVars, remoteVars
  <1>4. Pickable(p) \subseteq AllBlocks
    BY <1>2 DEF Pickable
  <1>5. CASE StopRequesting(p)
    BY <1>1, <1>5, SMTT(30)
       DEF StopRequesting, TypeOK, pickerVars, downloadVars, themVars, remoteVars
  <1>6. CASE RequestMore(p)
    <2> DEFINE enough == Cardinality(Pickable(p)) >= Room(p)
    <2>1. PICK S \in SUBSET Pickable(p) : MarkRequested(p, S, S)
      BY <1>6 DEF RequestMore
    <2>2. idle_handle' \in [Peers -> BOOLEAN]
      <3>1. idle_handle' = [idle_handle EXCEPT ![p] = enough]
        BY <1>6 DEF RequestMore
      <3>2. enough \in BOOLEAN
        OBVIOUS
      <3> HIDE DEF enough
      <3> QED
        BY <1>2, <3>1, <3>2
    <2>3. connection' = connection
      BY <1>6 DEF RequestMore
    <2> QED
      BY <1>2, <1>3, <1>4, <2>1, <2>2, <2>3
  <1>7. CASE RequestFails(p)
    <2>1. PICK S \in SUBSET Pickable(p) :
            \E last \in S : MarkRequested(p, S, S \ {last})
      BY <1>7 DEF RequestFails
    <2>2. connection' = [connection EXCEPT ![p] = "closing"] /\ idle_handle' = idle_handle
      BY <1>7 DEF RequestFails, peer_close
    <2> QED
      BY <1>2, <1>3, <1>4, <2>1, <2>2
  <1> QED
    BY <1>5, <1>6, <1>7 DEF peer_on_idle

\* TypeOK is inductive: every callback and every step of a remote keeps it.
LEMMA StepKeepsTypes == TypeOK /\ [Next]_vars => TypeOK'
  <1> SUFFICES ASSUME TypeOK, [Next]_vars PROVE TypeOK'
    OBVIOUS
  <1>1. CASE UNCHANGED vars
    BY <1>1, SMTT(30) DEF vars, TypeOK, pickerVars, downloadVars, writeVars, themVars,
       remoteVars, historyVars
  <1>2. CASE main
    BY <1>2, MainKeepsTypes
  <1>3. ASSUME NEW p \in Peers, Client(p)
        PROVE  TypeOK'
    BY <1>3, ConnectKeepsTypes, WriteKeepsTypes, CloseKeepsTypes, IdleKeepsTypes,
       ReadKeepsTypes, HandlersKeepTypes DEF Client
  <1>4. ASSUME NEW p \in Peers, Remote(p)
        PROVE  TypeOK'
    BY <1>4, RemoteKeepsTypes
  <1> QED
    BY <1>1, <1>2, <1>3, <1>4 DEF Next

\* peer_init, picker_init and download_init establish the types.
LEMMA InitTypes == Init => TypeOK
  <1> SUFFICES ASSUME Init PROVE TypeOK
    OBVIOUS
  <1>1. disk \in [AllBlocks -> {"good", "bad"}]
    BY DEF Init
  <1>2. inbox \in [Peers -> Seq(Messages)]
    BY DEF Init
  <1>3. callback = NoCallback /\ callback \in Callbacks
    BY DEF Init, Callbacks
  <1>4. remote \in [Peers -> [said : {"nothing", "hello", "more", "goodbye"},
                              announced : SUBSET AllPieces, choking : BOOLEAN,
                              chokes : Nat, noise : Nat]]
    BY DEF Init
  <1>5. /\ request_writes \in [Peers -> SUBSET AllBlocks]
        /\ asked \in [Peers -> SUBSET AllBlocks]
        /\ requests \in [Peers -> SUBSET AllBlocks]
        /\ them_have_pieces \in [Peers -> SUBSET AllPieces]
    BY DEF Init
  <1>6. /\ handshaked \in [Peers -> BOOLEAN]
        /\ them_choked \in [Peers -> BOOLEAN]
        /\ them_interested \in [Peers -> BOOLEAN]
        /\ idle_handle \in [Peers -> BOOLEAN]
        /\ in_flight_requests \in [Peers -> Nat]
        /\ control_writes \in [Peers -> Nat]
        /\ connection \in [Peers -> {"init", "connecting", "open", "closing", "closed"}]
    BY DEF Init
  <1>7. /\ blocks_to_download = AllBlocks
        /\ blocks_downloading = {} /\ blocks_downloaded = {} /\ rejected = {}
        /\ downloaded_pieces_count = 0
        /\ downloaded_blocks_count = 0
        /\ downloaded_bytes = 0
        /\ booted = FALSE /\ aborted = FALSE
    BY DEF Init
  <1> QED
    <2>1. /\ blocks_to_download \subseteq AllBlocks
          /\ blocks_downloading \subseteq AllBlocks
          /\ blocks_downloaded \subseteq AllBlocks
          /\ downloaded_pieces_count \in Nat
          /\ downloaded_blocks_count \in Int /\ downloaded_bytes \in Int
          /\ downloaded_blocks_count >= 0 /\ downloaded_bytes >= 0
          /\ rejected \subseteq AllPieces
      <3>1. /\ blocks_to_download = AllBlocks
            /\ blocks_downloading = {} /\ blocks_downloaded = {} /\ rejected = {}
            /\ downloaded_pieces_count = 0
            /\ downloaded_blocks_count = 0
            /\ downloaded_bytes = 0
        BY <1>7, Zenon
      <3> QED
        BY <3>1
    <2>3. booted \in BOOLEAN /\ aborted \in BOOLEAN
      BY <1>7, Zenon
    <2>2. callback # NoCallback => callback.left <= Len(inbox[callback.peer])
      BY <1>3
    <2> HIDE DEF NoCallback
    <2> QED
      BY <1>1, <1>2, <1>3, <1>4, <1>5, <1>6, <2>1, <2>2, <2>3, ZenonT(60) DEF TypeOK

\* Whatever peers, remotes and the disk do, every variable keeps its type; in
\* particular the parser of peer_on_read never runs out of the messages a read
\* announced, and the unsigned counters do not wrap unless an assert() failed.
THEOREM TypeCorrect == Spec => []TypeOK
  BY InitTypes, StepKeepsTypes, PTL DEF Spec

-----------------------------------------------------------------------------
(* Wakeups. *)

\* No read brings a choke between two messages that restart the requests.
ReadsAreHarmless == ReadBatch <= 2 \/ MaxChokes = 0

-----------------------------------------------------------------------------
(* Which peers a read callback or the first unchoke can concern. *)

ConnectionInv ==
    /\ \A p \in Peers : connection[p] \in {"init", "connecting"} => them_choked[p]
    /\ callback # NoCallback => connection[callback.peer] \in {"open", "closing"}
    /\ ~booted => \A p \in Peers : connection[p] = "init"

\* What every handler does to connections and to the callback in progress.
LEMMA HandlersReadOnePeer ==
    ASSUME TypeOK, NEW p \in Peers, HandleMessage(p)
    PROVE  /\ callback # NoCallback /\ callback.peer = p
           /\ booted /\ booted' = booted
           /\ connection' \in {connection, [connection EXCEPT ![p] = "closing"]}
           /\ \A q \in Peers \ {p} : them_choked'[q] = them_choked[q]
           /\ callback' = NoCallback \/ callback'.peer = p
  <1>1. PICK kind : Parses(p, kind)
    BY DEF HandleMessage, on_handshake, on_malformed, on_heartbeat, on_choke,
       on_unchoke, on_interested, on_have, on_unwanted_piece, on_piece
  <1>2. callback # NoCallback /\ callback.peer = p /\ booted
    BY <1>1 DEF Parses, Running
  <1>3. connection' \in {connection, [connection EXCEPT ![p] = "closing"]}
    BY DEF HandleMessage, on_handshake, on_malformed, on_heartbeat, on_choke,
       on_unchoke, on_interested, on_have, on_unwanted_piece, on_piece, peer_close
  <1>4. \A q \in Peers \ {p} : them_choked'[q] = them_choked[q]
    BY DEF HandleMessage, on_handshake, on_malformed, on_heartbeat, on_choke,
       on_unchoke, on_interested, on_have, on_unwanted_piece, on_piece, themVars, TypeOK
  <1>5. \/ callback' = NoCallback
        \/ \E starts \in BOOLEAN : NextMessage(starts)
    BY DEF HandleMessage, on_handshake, on_malformed, on_heartbeat, on_choke,
       on_unchoke, on_interested, on_have, on_unwanted_piece, on_piece,
       ActNone, ActRequestMore, ActStopRequesting
  <1>6. callback' = NoCallback \/ callback'.peer = p
    <2>1. callback \in [peer : Peers, left : Nat \ {0}, idle_started : BOOLEAN]
      BY <1>2 DEF TypeOK, Callbacks
    <2>2. ASSUME NEW starts \in BOOLEAN, NextMessage(starts), callback' # NoCallback
          PROVE  callback'.peer = p
      BY <1>2, <2>1, <2>2 DEF NextMessage
    <2> QED
      BY <1>5, <2>2
  <1>7. booted' = booted
    BY DEF HandleMessage, on_handshake, on_malformed, on_heartbeat, on_choke,
       on_unchoke, on_interested, on_have, on_unwanted_piece, on_piece
  <1> QED
    BY <1>2, <1>3, <1>4, <1>6, <1>7

\* A remote chokes us from the start, and only the peer read from can unchoke us.
LEMMA StepKeepsConnection == TypeOK /\ ConnectionInv /\ [Next]_vars => ConnectionInv'
  <1> SUFFICES ASSUME TypeOK, ConnectionInv, [Next]_vars
               PROVE  ConnectionInv'
    OBVIOUS
  <1> DEFINE quiet == <<connection, them_choked, callback, booted>>
  <1>1. ASSUME UNCHANGED quiet
        PROVE  ConnectionInv'
    BY <1>1 DEF ConnectionInv
  <1>2. /\ connection \in [Peers -> {"init", "connecting", "open", "closing", "closed"}]
        /\ callback # NoCallback => callback.peer \in Peers
    BY DEF TypeOK, Callbacks
  <1>3. ASSUME NEW p \in Peers, booted, booted' = booted, them_choked' = them_choked,
               NEW c \in {"open", "closing", "closed"},
               connection' \in {connection, [connection EXCEPT ![p] = c]},
               callback = NoCallback, callback' = callback
        PROVE  ConnectionInv'
    BY <1>2, <1>3 DEF ConnectionInv
  <1>4. CASE UNCHANGED vars
    BY <1>1, <1>4 DEF vars, themVars
  <1>5. CASE main
    <2>1. /\ ~booted /\ booted'
          /\ them_choked' = them_choked /\ callback' = callback
      BY <1>5 DEF main, themVars
    <2>2. callback = NoCallback
      BY <1>2, <2>1 DEF ConnectionInv
    <2>3. \A p \in Peers : them_choked[p]
      BY <2>1 DEF ConnectionInv
    <2> QED
      BY <2>1, <2>2, <2>3 DEF ConnectionInv
  <1>6. ASSUME NEW p \in Peers, Client(p)
        PROVE  ConnectionInv'
    <2>1. CASE peer_on_connect(p)
      <3>1. connection' \in {[connection EXCEPT ![p] = "open"],
                             [connection EXCEPT ![p] = "closing"]}
        BY <2>1 DEF peer_on_connect, peer_close
      <3> QED
        BY <1>3, <2>1, <3>1 DEF peer_on_connect, Running, themVars
    <2>2. CASE peer_on_write(p)
      <3>1. connection' \in {connection, [connection EXCEPT ![p] = "closing"]}
        BY <2>2 DEF peer_on_write, WriteStatus, peer_close
      <3> QED
        BY <1>3, <2>2, <3>1 DEF peer_on_write, Running, themVars
    <2>3. CASE peer_on_close(p)
      BY <1>3, <2>3 DEF peer_on_close, Running, themVars
    <2>4. CASE peer_on_idle(p)
      <3>1. connection' \in {connection, [connection EXCEPT ![p] = "closing"]}
        BY <2>4 DEF peer_on_idle, StopRequesting, RequestMore, RequestFails, peer_close
      <3> QED
        BY <1>3, <2>4, <3>1 DEF peer_on_idle, Running, themVars
    <2>5. CASE peer_on_read(p)
      <3>1. /\ booted /\ booted' = booted /\ them_choked' = them_choked
            /\ callback = NoCallback
            /\ connection[p] = "open"
        BY <2>5 DEF peer_on_read, Running, themVars
      <3>2. \/ peer_close(p) /\ UNCHANGED callback
            \/ callback'.peer = p /\ UNCHANGED connection
        BY <2>5 DEF peer_on_read
      <3>3. CASE peer_close(p) /\ UNCHANGED callback
        BY <1>3, <3>1, <3>3 DEF peer_close
      <3>4. CASE callback'.peer = p /\ UNCHANGED connection
        BY <3>1, <3>4 DEF ConnectionInv
      <3> QED
        BY <3>2, <3>3, <3>4
    <2>6. CASE HandleMessage(p)
      <3>1. /\ callback # NoCallback /\ callback.peer = p
            /\ booted /\ booted' = booted
            /\ connection' \in {connection, [connection EXCEPT ![p] = "closing"]}
            /\ \A q \in Peers \ {p} : them_choked'[q] = them_choked[q]
            /\ callback' = NoCallback \/ callback'.peer = p
        BY <2>6, HandlersReadOnePeer
      <3>2. connection[p] \in {"open", "closing"}
        BY <3>1 DEF ConnectionInv
      <3>3. /\ connection'[p] \in {"open", "closing"}
            /\ \A q \in Peers \ {p} : connection'[q] = connection[q]
        BY <1>2, <3>1, <3>2
      <3> QED
        BY <3>1, <3>3 DEF ConnectionInv
    <2> QED
      BY <1>6, <2>1, <2>2, <2>3, <2>4, <2>5, <2>6 DEF Client
  <1>7. ASSUME NEW p \in Peers, Remote(p)
        PROVE  ConnectionInv'
    <2>1. PICK msg : RemoteSends(p, msg)
      BY <1>7 DEF Remote, RemoteHandshake, RemoteBitfield, RemoteHave, RemoteUnchoke,
         RemoteChoke, RemoteNoise, RemoteServe, RemoteMisbehaves
    <2> QED
      BY <1>1, <2>1 DEF RemoteSends, themVars
  <1> QED
    BY <1>4, <1>5, <1>6, <1>7 DEF Next

-----------------------------------------------------------------------------
(* Remotes that never choke us again. *)

NoChokeOnItsWay ==
    MaxChokes = 0 => \A p \in Peers : \A i \in 1 .. Len(inbox[p]) : inbox[p][i].kind # "choke"

\* RemoteChoke is the only source of chokes.
LEMMA StepKeepsNoChoke ==
    TypeOK /\ NoChokeOnItsWay /\ [Next]_vars => NoChokeOnItsWay'
  <1> SUFFICES ASSUME TypeOK, NoChokeOnItsWay, [Next]_vars, MaxChokes = 0
               PROVE  \A p \in Peers :
                        \A i \in 1 .. Len(inbox'[p]) : inbox'[p][i].kind # "choke"
    BY DEF NoChokeOnItsWay
  <1>1. inbox \in [Peers -> Seq(Messages)]
    BY DEF TypeOK
  <1>2. \A q \in Peers : \A i \in 1 .. Len(inbox[q]) : inbox[q][i].kind # "choke"
    BY DEF NoChokeOnItsWay
  <1>3. CASE UNCHANGED inbox
    BY <1>2, <1>3
  <1>4. ASSUME NEW p \in Peers, HandleMessage(p)
        PROVE  \A q \in Peers :
                 \A i \in 1 .. Len(inbox'[q]) : inbox'[q][i].kind # "choke"
    <2>1. inbox' = [inbox EXCEPT ![p] = Tail(inbox[p])]
      BY <1>4 DEF HandleMessage, on_handshake, on_malformed, on_heartbeat, on_choke,
         on_unchoke, on_interested, on_have, on_unwanted_piece, on_piece, Consume
    <2>2. inbox[p] # <<>>
      <3>1. PICK kind : Parses(p, kind)
        BY <1>4 DEF HandleMessage, on_handshake, on_malformed, on_heartbeat, on_choke,
           on_unchoke, on_interested, on_have, on_unwanted_piece, on_piece
      <3> QED
        BY <3>1, ParsedMessage
    <2>3. /\ Len(Tail(inbox[p])) = Len(inbox[p]) - 1
          /\ \A i \in 1 .. Len(Tail(inbox[p])) :
               i + 1 \in 1 .. Len(inbox[p]) /\ Tail(inbox[p])[i] = inbox[p][i + 1]
      BY <1>1, <2>2
    <2>4. \A i \in 1 .. Len(Tail(inbox[p])) : Tail(inbox[p])[i].kind # "choke"
      BY <1>2, <2>3
    <2> QED
      BY <1>1, <1>2, <2>1, <2>4
  <1>5. ASSUME NEW p \in Peers, Remote(p)
        PROVE  \A q \in Peers :
                 \A i \in 1 .. Len(inbox'[q]) : inbox'[q][i].kind # "choke"
    <2>1. ~RemoteChoke(p)
      BY DEF RemoteChoke, TypeOK
    <2>2. PICK msg : msg.kind # "choke" /\ RemoteSends(p, msg)
      <3>1. \A b \in AllBlocks, c \in Contents : Answer(b, c).kind # "choke"
        BY DEF Answer
      <3>2. asked[p] \subseteq AllBlocks
        BY DEF TypeOK
      <3>3. CASE RemoteServe(p)
        BY <3>1, <3>2, <3>3 DEF RemoteServe
      <3>4. CASE RemoteMisbehaves(p)
        BY <3>1, <3>4 DEF RemoteMisbehaves
      <3>5. CASE RemoteNoise(p)
        BY <3>5 DEF RemoteNoise
      <3>6. CASE RemoteHandshake(p) \/ RemoteBitfield(p) \/ RemoteHave(p) \/ RemoteUnchoke(p)
        BY <3>6 DEF RemoteHandshake, RemoteBitfield, RemoteHave, RemoteUnchoke
      <3> QED
        BY <1>5, <2>1, <3>3, <3>4, <3>5, <3>6 DEF Remote
    <2>3. inbox' = [inbox EXCEPT ![p] = Append(inbox[p], msg)]
      BY <2>2 DEF RemoteSends
    <2> DEFINE box == Append(inbox[p], msg)
    <2>4. \A i \in 1 .. Len(box) : box[i].kind # "choke"
      <3>1. /\ Len(box) = Len(inbox[p]) + 1 /\ Len(inbox[p]) \in Nat
            /\ \A i \in 1 .. Len(inbox[p]) : box[i] = inbox[p][i]
            /\ box[Len(inbox[p]) + 1] = msg
        BY <1>1
      <3> HIDE DEF box
      <3>2. \A i \in 1 .. Len(box) : i \in 1 .. Len(inbox[p]) \/ i = Len(inbox[p]) + 1
        BY <3>1
      <3> QED
        BY <1>2, <2>2, <3>1, <3>2
    <2> HIDE DEF box
    <2>5. inbox'[p] = box /\ \A q \in Peers \ {p} : inbox'[q] = inbox[q]
      BY <1>1, <2>3 DEF box
    <2> QED
      BY <1>2, <2>4, <2>5
  <1>6. CASE UNCHANGED vars
    BY <1>3, <1>6 DEF vars, remoteVars
  <1>7. CASE main
    BY <1>3, <1>7 DEF main, remoteVars
  <1>8. ASSUME NEW p \in Peers, Client(p), ~HandleMessage(p)
        PROVE  UNCHANGED inbox
    BY <1>8 DEF Client, peer_on_connect, peer_on_write, peer_on_close, peer_on_idle,
       peer_on_read, remoteVars
  <1> QED
    BY <1>3, <1>4, <1>5, <1>6, <1>7, <1>8 DEF Next, Client

-----------------------------------------------------------------------------
(* The idle handle. *)

\* idle_started tells the truth, and no message of this read can make it a lie.
IdleWhileReading ==
    callback # NoCallback =>
        /\ callback.idle_started => idle_handle[callback.peer]
        /\ ReadBatch <= 2 => /\ callback.left <= 2
                             /\ callback.idle_started => callback.left = 1

\* NoLostWakeup, in the middle of a read callback too.
Wanted(p) ==
    /\ connection[p] = "open" /\ ~them_choked[p]
    /\ in_flight_requests[p] < MaxInFlight
    /\ Pickable(p) # {}

WakesWhenWanted == \A p \in Peers : Wanted(p) => idle_handle[p]

WakeupInv ==
    /\ TypeOK
    /\ ConnectionInv
    /\ NoChokeOnItsWay
    /\ IdleWhileReading
    /\ WakesWhenWanted

idleVars == <<connection, them_choked, in_flight_requests, blocks_to_download,
              them_have_pieces, idle_handle>>

\* A step that touches nothing a peer waits for.
LEMMA IdleUntouched ==
    ASSUME WakeupInv, UNCHANGED idleVars, UNCHANGED callback
    PROVE  IdleWhileReading' /\ WakesWhenWanted'
  BY DEF WakeupInv, IdleWhileReading, WakesWhenWanted, Wanted, Pickable, idleVars

\* A peer that stops wanting, or keeps its idle handle.
LEMMA OnePeerWanted ==
    ASSUME WakesWhenWanted, NEW p \in Peers, Wanted(p)' => idle_handle'[p],
           blocks_to_download' \subseteq blocks_to_download,
           \A q \in Peers \ {p} :
             /\ connection'[q] = connection[q]
             /\ them_choked'[q] = them_choked[q]
             /\ in_flight_requests'[q] = in_flight_requests[q]
             /\ them_have_pieces'[q] = them_have_pieces[q]
             /\ idle_handle'[q] = idle_handle[q]
    PROVE  WakesWhenWanted'
  <1> SUFFICES ASSUME NEW q \in Peers \ {p}, Wanted(q)'
               PROVE  idle_handle'[q]
    BY DEF WakesWhenWanted
  <1>1. Wanted(q)
    BY DEF Wanted, Pickable
  <1> QED
    BY <1>1 DEF WakesWhenWanted

\* peer_request_more_blocks stops its idle handle only when there is no room in
\* the pipeline, or no block left to pick.
LEMMA IdleKeepsWakeup ==
    ASSUME WakeupInv, NEW p \in Peers, peer_on_idle(p)
    PROVE  WakesWhenWanted'
  <1>1. /\ UNCHANGED <<them_choked, them_have_pieces>>
        /\ connection \in [Peers -> {"init", "connecting", "open", "closing", "closed"}]
        /\ in_flight_requests \in [Peers -> Nat]
        /\ idle_handle \in [Peers -> BOOLEAN]
        /\ idle_handle[p]
        /\ blocks_to_download \subseteq AllBlocks
    BY DEF peer_on_idle, themVars, WakeupInv, TypeOK
  <1>2. CASE StopRequesting(p)
    <2>1. ~Wanted(p)'
      BY <1>1, <1>2, MaxInFlightAssumption DEF StopRequesting, Wanted
    <2>2. UNCHANGED <<connection, in_flight_requests, blocks_to_download>>
      BY <1>2 DEF StopRequesting, pickerVars
    <2>3. \A q \in Peers \ {p} : idle_handle'[q] = idle_handle[q]
      BY <1>1, <1>2 DEF StopRequesting
    <2> QED
      BY <1>1, <2>1, <2>2, <2>3, OnePeerWanted DEF WakeupInv
  <1>3. CASE RequestMore(p)
    <2> DEFINE few == Cardinality(Pickable(p))
               enough == few >= Room(p)
    <2>1. PICK S \in SUBSET Pickable(p) :
            /\ IsLowest(S, Pickable(p), IF enough THEN Room(p) ELSE few)
            /\ MarkRequested(p, S, S)
      BY <1>3 DEF RequestMore
    <2>2. /\ blocks_to_download' = blocks_to_download \ S
          /\ in_flight_requests' = [in_flight_requests EXCEPT ![p] = @ + Cardinality(S)]
      BY <2>1 DEF MarkRequested, picker_mark_blocks_as_downloading
    <2>3. idle_handle' = [idle_handle EXCEPT ![p] = enough] /\ UNCHANGED connection
      BY <1>3 DEF RequestMore
    <2>4. Wanted(p)' => idle_handle'[p]
      <3>1. CASE enough
        BY <1>1, <2>3, <3>1
      <3>2. CASE ~enough
        <4>1. IsFiniteSet(Pickable(p))
          BY <1>1, BlocksAndPieces, FS_Subset DEF Pickable
        <4>2. Cardinality(S) = Cardinality(Pickable(p))
          BY <2>1, <3>2 DEF IsLowest
        <4>3. S = Pickable(p)
          BY <2>1, <4>1, <4>2, FS_Subset
        <4>4. Pickable(p)' = {}
          BY <1>1, <2>2, <4>3 DEF Pickable
        <4> QED
          BY <4>4 DEF Wanted
      <3> QED
        BY <3>1, <3>2
    <2> HIDE DEF enough
    <2>5. \A q \in Peers \ {p} : /\ idle_handle'[q] = idle_handle[q]
                                 /\ in_flight_requests'[q] = in_flight_requests[q]
      BY <1>1, <2>2, <2>3
    <2> QED
      BY <1>1, <2>2, <2>3, <2>4, <2>5, OnePeerWanted DEF WakeupInv
  <1>4. CASE RequestFails(p)
    <2>1. PICK S \in SUBSET Pickable(p) :
            \E last \in S : MarkRequested(p, S, S \ {last})
      BY <1>4 DEF RequestFails
    <2>2. /\ blocks_to_download' = blocks_to_download \ S
          /\ in_flight_requests' = [in_flight_requests EXCEPT ![p] = @ + Cardinality(S)]
      BY <2>1 DEF MarkRequested, picker_mark_blocks_as_downloading
    <2>3. /\ connection' = [connection EXCEPT ![p] = "closing"]
          /\ idle_handle' = idle_handle
      BY <1>4 DEF RequestFails, peer_close
    <2>4. ~Wanted(p)'
      BY <1>1, <2>3 DEF Wanted
    <2>5. \A q \in Peers \ {p} : /\ connection'[q] = connection[q]
                                 /\ in_flight_requests'[q] = in_flight_requests[q]
      BY <1>1, <2>2, <2>3
    <2> QED
      BY <1>1, <2>2, <2>3, <2>4, <2>5, OnePeerWanted DEF WakeupInv
  <1> QED
    BY <1>2, <1>3, <1>4 DEF peer_on_idle

\* What the loop of peer_on_read does with the three actions a handler asks for.
LEMMA ActionsKeepIdle ==
    ASSUME WakeupInv, callback # NoCallback, NEW p \in Peers, callback.peer = p
    PROVE  /\ ActNone => IdleWhileReading' /\ idle_handle' = idle_handle
           /\ ActRequestMore(p) =>
                /\ IdleWhileReading' /\ idle_handle'[p]
                /\ \A q \in Peers \ {p} : idle_handle'[q] = idle_handle[q]
           /\ ActStopRequesting(p) /\ ReadBatch <= 2 =>
                /\ IdleWhileReading'
                /\ \A q \in Peers \ {p} : idle_handle'[q] = idle_handle[q]
  <1>1. /\ callback \in [peer : Peers, left : Nat \ {0}, idle_started : BOOLEAN]
        /\ idle_handle \in [Peers -> BOOLEAN]
        /\ callback.idle_started => idle_handle[p]
        /\ ReadBatch <= 2 => /\ callback.left <= 2
                             /\ callback.idle_started => callback.left = 1
        /\ ReadBatch \in Nat
    BY BoundsAssumption DEF WakeupInv, TypeOK, Callbacks, IdleWhileReading
  <1>2. ASSUME callback' # NoCallback
        PROVE  /\ NextMessage(FALSE) => /\ callback'.peer = p
                                        /\ callback'.left = callback.left - 1
                                        /\ callback'.idle_started = callback.idle_started
                                        /\ callback.left # 1
               /\ NextMessage(TRUE) => /\ callback'.peer = p
                                       /\ callback'.left = callback.left - 1
                                       /\ callback.left # 1
    BY <1>1, <1>2 DEF NextMessage
  <1>3. ASSUME ActNone
        PROVE  IdleWhileReading' /\ idle_handle' = idle_handle
    <2>1. idle_handle' = idle_handle /\ NextMessage(FALSE)
      BY <1>3 DEF ActNone
    <2>2. ASSUME callback' # NoCallback
          PROVE  /\ callback'.idle_started => idle_handle'[p]
                 /\ callback'.peer = p
                 /\ ReadBatch <= 2 => callback'.left <= 2 /\ ~callback'.idle_started
      BY <1>1, <1>2, <2>1, <2>2
    <2> QED
      BY <2>1, <2>2 DEF IdleWhileReading
  <1>4. ASSUME ActRequestMore(p)
        PROVE  /\ IdleWhileReading' /\ idle_handle'[p]
               /\ \A q \in Peers \ {p} : idle_handle'[q] = idle_handle[q]
    <2>1. /\ idle_handle'[p] /\ \A q \in Peers \ {p} : idle_handle'[q] = idle_handle[q]
          /\ NextMessage(TRUE)
      BY <1>1, <1>4 DEF ActRequestMore
    <2>2. ASSUME callback' # NoCallback
          PROVE  /\ callback'.peer = p
                 /\ ReadBatch <= 2 => callback'.left <= 2 /\ callback'.left = 1
      BY <1>1, <1>2, <2>1, <2>2
    <2> QED
      BY <2>1, <2>2 DEF IdleWhileReading
  <1>5. ASSUME ActStopRequesting(p), ReadBatch <= 2
        PROVE  /\ IdleWhileReading'
               /\ \A q \in Peers \ {p} : idle_handle'[q] = idle_handle[q]
    <2>1. /\ \A q \in Peers \ {p} : idle_handle'[q] = idle_handle[q]
          /\ NextMessage(FALSE)
      BY <1>1, <1>5 DEF ActStopRequesting
    <2>2. ASSUME callback' # NoCallback
          PROVE  /\ callback'.left <= 2
                 /\ ~callback'.idle_started
      BY <1>1, <1>2, <1>5, <2>1, <2>2
    <2> QED
      BY <2>1, <2>2 DEF IdleWhileReading
  <1> QED
    BY <1>3, <1>4, <1>5

\* A message that makes a block wanted, or makes room, starts the idle handle.
LEMMA HandlersKeepWakeup ==
    ASSUME WakeupInv, ReadsAreHarmless, NEW p \in Peers, HandleMessage(p)
    PROVE  IdleWhileReading' /\ WakesWhenWanted'
  <1>1. /\ callback # NoCallback /\ callback.peer = p
        /\ connection' \in {connection, [connection EXCEPT ![p] = "closing"]}
        /\ \A q \in Peers \ {p} : them_choked'[q] = them_choked[q]
    BY HandlersReadOnePeer DEF WakeupInv
  <1>2. /\ connection \in [Peers -> {"init", "connecting", "open", "closing", "closed"}]
        /\ in_flight_requests \in [Peers -> Nat]
        /\ them_have_pieces \in [Peers -> SUBSET AllPieces]
        /\ them_choked \in [Peers -> BOOLEAN]
    BY DEF WakeupInv, TypeOK
  <1>3. \A q \in Peers \ {p} : connection'[q] = connection[q]
    BY <1>1, <1>2
  <1>4. ASSUME ActNone,
               UNCHANGED <<them_choked, them_have_pieces, in_flight_requests, blocks_to_download>>
        PROVE  IdleWhileReading' /\ WakesWhenWanted'
    <2>1. IdleWhileReading' /\ idle_handle' = idle_handle
      BY <1>1, <1>4, ActionsKeepIdle
    <2>2. Wanted(p)' => Wanted(p)
      BY <1>1, <1>2, <1>4 DEF Wanted, Pickable
    <2>3. Wanted(p)' => idle_handle'[p]
      BY <2>1, <2>2 DEF WakeupInv, WakesWhenWanted
    <2> QED
      BY <1>3, <1>4, <2>1, <2>3, OnePeerWanted DEF WakeupInv
  <1>5. ASSUME ActRequestMore(p),
               blocks_to_download' \subseteq blocks_to_download,
               \A q \in Peers \ {p} :
                 /\ in_flight_requests'[q] = in_flight_requests[q]
                 /\ them_have_pieces'[q] = them_have_pieces[q]
        PROVE  IdleWhileReading' /\ WakesWhenWanted'
    <2>1. /\ IdleWhileReading' /\ idle_handle'[p]
          /\ \A q \in Peers \ {p} : idle_handle'[q] = idle_handle[q]
      BY <1>1, <1>5, ActionsKeepIdle
    <2> QED
      BY <1>1, <1>3, <1>5, <2>1, OnePeerWanted DEF WakeupInv
  <1>6. CASE on_malformed(p)
    <2>1. /\ UNCHANGED <<them_choked, them_have_pieces, in_flight_requests,
                         blocks_to_download, idle_handle>>
          /\ callback' = NoCallback
          /\ connection' = [connection EXCEPT ![p] = "closing"]
      BY <1>6 DEF on_malformed, themVars, pickerVars, peer_close
    <2>2. ~Wanted(p)'
      BY <1>2, <2>1 DEF Wanted
    <2> QED
      BY <1>3, <2>1, <2>2, OnePeerWanted DEF WakeupInv, IdleWhileReading
  <1>7. CASE on_handshake(p) \/ on_heartbeat(p) \/ on_interested(p) \/ on_unwanted_piece(p)
    BY <1>4, <1>7 DEF on_handshake, on_heartbeat, on_interested, on_unwanted_piece,
       themVars, pickerVars
  <1>8. CASE on_unchoke(p)
    BY <1>5, <1>8 DEF on_unchoke, pickerVars
  <1>9. CASE on_have(p)
    <2>1. \A q \in Peers \ {p} : them_have_pieces'[q] = them_have_pieces[q]
      BY <1>2, <1>9 DEF on_have
    <2> QED
      BY <1>5, <1>9, <2>1 DEF on_have, pickerVars
  <1>10. CASE on_piece(p)
    <2>1. /\ blocks_to_download' = blocks_to_download
          /\ them_have_pieces' = them_have_pieces
      BY <1>10 DEF on_piece, PutFails, PutBlock, picker_mark_block_as_downloaded,
         pickerVars, themVars
    <2>2. \A q \in Peers \ {p} : in_flight_requests'[q] = in_flight_requests[q]
      BY <1>2, <1>10 DEF on_piece, PutFails, PutBlock
    <2> QED
      BY <1>5, <1>10, <2>1, <2>2 DEF on_piece
  <1>11. CASE on_choke(p)
    <2>1. ReadBatch <= 2
      <3>1. Parses(p, "choke")
        BY <1>11 DEF on_choke
      <3>2. inbox[p] # <<>> /\ inbox[p] \in Seq(Messages) /\ Head(inbox[p]).kind = "choke"
        BY <3>1, ParsedMessage DEF WakeupInv
      <3>3. 1 \in 1 .. Len(inbox[p]) /\ inbox[p][1] = Head(inbox[p])
        BY <3>2
      <3> QED
        BY <3>2, <3>3 DEF WakeupInv, NoChokeOnItsWay, ReadsAreHarmless
    <2>2. /\ IdleWhileReading'
          /\ \A q \in Peers \ {p} : idle_handle'[q] = idle_handle[q]
      BY <1>1, <1>11, <2>1, ActionsKeepIdle DEF on_choke
    <2>3. ~Wanted(p)'
      BY <1>2, <1>11 DEF on_choke, Wanted
    <2> QED
      BY <1>1, <1>3, <1>11, <2>2, <2>3, OnePeerWanted DEF on_choke, pickerVars, WakeupInv
  <1> QED
    BY <1>6, <1>7, <1>8, <1>9, <1>10, <1>11 DEF HandleMessage

\* WakeupInv is inductive.
LEMMA StepKeepsWakeup ==
    ASSUME ReadsAreHarmless
    PROVE  WakeupInv /\ [Next]_vars => WakeupInv'
  <1> SUFFICES ASSUME WakeupInv, [Next]_vars
               PROVE  IdleWhileReading' /\ WakesWhenWanted'
    BY StepKeepsTypes, StepKeepsConnection, StepKeepsNoChoke DEF WakeupInv
  <1> USE DEF themVars, pickerVars
  <1>1. /\ connection \in [Peers -> {"init", "connecting", "open", "closing", "closed"}]
        /\ idle_handle \in [Peers -> BOOLEAN]
        /\ ConnectionInv
    BY DEF WakeupInv, TypeOK
  <1>2. CASE UNCHANGED vars
    BY <1>2, IdleUntouched DEF vars, idleVars
  <1>3. CASE main
    <2>1. /\ UNCHANGED callback /\ ~booted
          /\ \A p \in Peers : connection'[p] \in {"init", "connecting"}
      BY <1>3 DEF main
    <2>2. callback = NoCallback
      BY <1>1, <2>1 DEF ConnectionInv, WakeupInv, TypeOK, Callbacks
    <2> QED
      BY <2>1, <2>2 DEF IdleWhileReading, WakesWhenWanted, Wanted
  <1>4. ASSUME NEW p \in Peers, callback = NoCallback, callback' = callback,
               UNCHANGED <<them_choked, in_flight_requests, blocks_to_download,
                           them_have_pieces>>,
               Wanted(p)' => idle_handle'[p],
               \A q \in Peers \ {p} : /\ connection'[q] = connection[q]
                                       /\ idle_handle'[q] = idle_handle[q]
        PROVE  IdleWhileReading' /\ WakesWhenWanted'
    BY <1>4, OnePeerWanted DEF WakeupInv, IdleWhileReading
  <1>5. ASSUME NEW p \in Peers, Client(p)
        PROVE  IdleWhileReading' /\ WakesWhenWanted'
    <2>1. CASE peer_on_connect(p)
      <3>1. /\ callback = NoCallback /\ callback' = callback
            /\ UNCHANGED <<them_choked, in_flight_requests, blocks_to_download,
                           them_have_pieces, idle_handle>>
            /\ connection[p] = "connecting"
        BY <2>1 DEF peer_on_connect
      <3>2. ~Wanted(p)'
        BY <1>1, <3>1 DEF ConnectionInv, Wanted
      <3>3. \A q \in Peers \ {p} : connection'[q] = connection[q]
        BY <1>1, <2>1 DEF peer_on_connect, peer_close
      <3> QED
        BY <1>4, <3>1, <3>2, <3>3
    <2>2. CASE peer_on_write(p)
      <3>1. /\ callback = NoCallback /\ callback' = callback
            /\ UNCHANGED <<them_choked, in_flight_requests, blocks_to_download,
                           them_have_pieces, idle_handle>>
        BY <2>2 DEF peer_on_write
      <3>2. connection' \in {connection, [connection EXCEPT ![p] = "closing"]}
        BY <2>2 DEF peer_on_write, WriteStatus, peer_close
      <3>3. Wanted(p)' => Wanted(p)
        BY <1>1, <3>1, <3>2 DEF Wanted, Pickable
      <3>4. Wanted(p)' => idle_handle'[p]
        BY <3>1, <3>3 DEF WakeupInv, WakesWhenWanted
      <3>5. \A q \in Peers \ {p} : connection'[q] = connection[q]
        BY <1>1, <3>2
      <3> QED
        BY <1>4, <3>1, <3>4, <3>5
    <2>3. CASE peer_on_close(p)
      <3>1. /\ callback = NoCallback /\ callback' = callback
            /\ UNCHANGED <<them_choked, in_flight_requests, blocks_to_download,
                           them_have_pieces>>
            /\ connection' = [connection EXCEPT ![p] = "closed"]
            /\ idle_handle' = [idle_handle EXCEPT ![p] = FALSE]
        BY <2>3 DEF peer_on_close
      <3>2. ~Wanted(p)'
        BY <1>1, <3>1 DEF Wanted
      <3>3. \A q \in Peers \ {p} : /\ connection'[q] = connection[q]
                                   /\ idle_handle'[q] = idle_handle[q]
        BY <1>1, <3>1
      <3> QED
        BY <1>4, <3>1, <3>2, <3>3
    <2>4. CASE peer_on_idle(p)
      <3>1. IdleWhileReading'
        BY <2>4 DEF peer_on_idle, IdleWhileReading
      <3> QED
        BY <2>4, <3>1, IdleKeepsWakeup
    <2>5. CASE peer_on_read(p)
      <3>1. /\ callback = NoCallback
            /\ UNCHANGED <<them_choked, in_flight_requests, blocks_to_download,
                           them_have_pieces, idle_handle>>
        BY <2>5 DEF peer_on_read
      <3>2. CASE peer_close(p) /\ UNCHANGED callback
        <4>1. ~Wanted(p)'
          BY <1>1, <3>2 DEF Wanted, peer_close
        <4>2. \A q \in Peers \ {p} : connection'[q] = connection[q]
          BY <1>1, <3>2 DEF peer_close
        <4> QED
          BY <1>4, <3>1, <3>2, <4>1, <4>2
      <3>3. ASSUME NEW n \in 1 .. ReadBatch,
                   callback' = [peer |-> p, left |-> n, idle_started |-> FALSE],
                   UNCHANGED connection
            PROVE  IdleWhileReading' /\ WakesWhenWanted'
        <4>1. IdleWhileReading'
          BY <3>3, BoundsAssumption DEF IdleWhileReading
        <4>2. WakesWhenWanted'
          BY <3>1, <3>3 DEF WakeupInv, WakesWhenWanted, Wanted, Pickable
        <4> QED
          BY <4>1, <4>2
      <3> QED
        BY <2>5, <3>2, <3>3 DEF peer_on_read
    <2> QED
      BY <1>5, <2>1, <2>2, <2>3, <2>4, <2>5, HandlersKeepWakeup DEF Client
  <1>6. ASSUME NEW p \in Peers, Remote(p)
        PROVE  IdleWhileReading' /\ WakesWhenWanted'
    <2>1. PICK msg : RemoteSends(p, msg)
      BY <1>6 DEF Remote, RemoteHandshake, RemoteBitfield, RemoteHave, RemoteUnchoke,
         RemoteChoke, RemoteNoise, RemoteServe, RemoteMisbehaves
    <2> QED
      BY <2>1, IdleUntouched DEF RemoteSends, idleVars
  <1> QED
    BY <1>2, <1>3, <1>5, <1>6 DEF Next

\* No peer is connected, and every remote chokes us.
LEMMA InitWakeup == Init => WakeupInv
  <1> SUFFICES ASSUME Init PROVE WakeupInv
    OBVIOUS
  <1>1. /\ callback = NoCallback
        /\ \A p \in Peers : /\ connection[p] = "init" /\ them_choked[p]
                            /\ Len(inbox[p]) = 0
    BY DEF Init
  <1> QED
    BY <1>1, InitTypes
       DEF WakeupInv, ConnectionInv, NoChokeOnItsWay, IdleWhileReading,
           WakesWhenWanted, Wanted

\* A connected peer that has unchoked us, has room in its pipeline and has a block
\* we want will ask for it (peer_request_more_blocks, the loop of peer_on_read),
\* whatever fails, unless a single read brings a choke between two messages that
\* each restart the requests.
THEOREM WakeupsAreNotLost ==
    ASSUME ReadsAreHarmless
    PROVE  Spec => []NoLostWakeup
  <1>1. Spec => []WakeupInv
    BY InitWakeup, StepKeepsWakeup, PTL DEF Spec
  <1>2. WakeupInv => NoLostWakeup
    BY DEF WakeupInv, WakesWhenWanted, Wanted, NoLostWakeup
  <1> QED
    BY <1>1, <1>2, PTL

-----------------------------------------------------------------------------
(***************************************************************************)
(* PipelineLimits, proved for every set of failures, unsolicited blocks    *)
(* included: however a remote abuses the protocol, the pipeline of a peer  *)
(* keeps its limit and no block is requested twice.  It is not inductive:  *)
(* that the blocks a peer picks are not requested already depends on       *)
(* blocks_to_download.  NeverToDownloadAgain adds what is missing: no      *)
(* callback puts a block back.                                             *)
(*                                                                         *)
(* With remotes that only send blocks we asked them for (whatever else may *)
(* fail): BlocksPartition, InFlightAccounting and RequestsInOnePlace.      *)
(* The counter and the bit arrays stay right because peer_put_block is     *)
(* only ever called with a block that is in flight through this very peer. *)
(* Nothing in peer_put_block checks that: it follows from the path of a    *)
(* request, written, then held by the remote, then answered, on which it   *)
(* is in one place at a time.  Hence RequestsInOnePlace, in the invariant. *)
(*                                                                         *)
(* CountersAgree and VerifiedPiecesAreFinal follow, because a block is     *)
(* stored once: a second copy would be counted twice, or would write into  *)
(* a verified piece.  What has to be added is that a piece is rolled back  *)
(* when all its blocks are here, so that the blocks peer_put_block         *)
(* subtracts are those that were added before.  Then the counters stay     *)
(* within the limits peer_put_block asserts, and NoAssertionFails holds    *)
(* for files of whole blocks.                                              *)
(***************************************************************************)

NeverToDownloadAgain == \A p \in Peers : requests[p] \cap blocks_to_download = {}

LimitsInv == TypeOK /\ PipelineLimits /\ NeverToDownloadAgain

limitVars == <<blocks_to_download, in_flight_requests, requests>>

\* Sets of blocks are finite, so their cardinalities add up.
LEMMA BlockSets ==
    ASSUME NEW R \in SUBSET AllBlocks, NEW S \in SUBSET AllBlocks
    PROVE  /\ Cardinality(R) \in Nat /\ Cardinality(S) \in Nat
           /\ R \cap S = {} => Cardinality(R \cup S) = Cardinality(R) + Cardinality(S)
           /\ \A b \in R : Cardinality(R \ {b}) = Cardinality(R) - 1
           /\ \A b : Cardinality(R \ {b}) >= Cardinality(R) - 1
  <1>1. IsFiniteSet(R) /\ IsFiniteSet(S)
    BY BlocksAndPieces, FS_Subset
  <1>2. /\ Cardinality(R) \in Nat
        /\ Cardinality(S) \in Nat
        /\ Cardinality(R \cup S) = Cardinality(R) + Cardinality(S) - Cardinality(R \cap S)
    BY <1>1, FS_CardinalityType, FS_Union
  <1>3. ASSUME R \cap S = {}
        PROVE  Cardinality(R \cup S) = Cardinality(R) + Cardinality(S)
    <2>1. Cardinality({}) = 0
      BY FS_EmptySet
    <2>2. Cardinality(R \cap S) = 0
      BY <1>3, <2>1, Zenon
    <2> QED
      BY <1>2, <2>2
  <1>4. \A b : Cardinality(R \ {b}) =
                 IF b \in R THEN Cardinality(R) - 1 ELSE Cardinality(R)
    BY <1>1, FS_RemoveElement
  <1>5. \A b \in R : Cardinality(R \ {b}) = Cardinality(R) - 1
    BY <1>4
  <1>6. \A b : Cardinality(R \ {b}) >= Cardinality(R) - 1
    BY <1>2, <1>4
  <1> QED
    BY <1>2, <1>3, <1>5, <1>6

\* Requesting the blocks S, none of them requested before, within the room left.
LEMMA MarkKeepsLimits ==
    ASSUME LimitsInv, NEW p \in Peers, NEW S \in SUBSET Pickable(p), NEW sent,
           Cardinality(S) <= Room(p), MarkRequested(p, S, sent)
    PROVE  PipelineLimits' /\ NeverToDownloadAgain'
  <1>1. /\ blocks_to_download' = blocks_to_download \ S
        /\ in_flight_requests' = [in_flight_requests EXCEPT ![p] = @ + Cardinality(S)]
        /\ requests' = [requests EXCEPT ![p] = @ \cup S]
    BY DEF MarkRequested, picker_mark_blocks_as_downloading
  <1>2. /\ in_flight_requests \in [Peers -> Nat]
        /\ requests \in [Peers -> SUBSET AllBlocks]
        /\ S \subseteq blocks_to_download
        /\ S \in SUBSET AllBlocks
    BY DEF LimitsInv, TypeOK, Pickable
  <1>3. /\ requests'[p] = requests[p] \cup S
        /\ in_flight_requests'[p] = in_flight_requests[p] + Cardinality(S)
        /\ \A q \in Peers \ {p} : /\ requests'[q] = requests[q]
                                  /\ in_flight_requests'[q] = in_flight_requests[q]
    BY <1>1, <1>2
  <1>4. \A q \in Peers : requests[q] \cap S = {}
    BY <1>2 DEF LimitsInv, NeverToDownloadAgain
  <1>5. /\ Cardinality(requests[p] \cup S) = Cardinality(requests[p]) + Cardinality(S)
        /\ Cardinality(requests[p]) \in Nat
        /\ Cardinality(S) \in Nat
    BY <1>2, <1>4, BlockSets
  <1>6. /\ in_flight_requests'[p] \in 0 .. MaxInFlight
        /\ in_flight_requests'[p] <= Cardinality(requests'[p])
    BY <1>2, <1>3, <1>5, MaxInFlightAssumption DEF LimitsInv, PipelineLimits, Room
  <1>7. \A q \in Peers \ {p} :
          /\ in_flight_requests'[q] \in 0 .. MaxInFlight
          /\ in_flight_requests'[q] <= Cardinality(requests'[q])
    BY <1>3 DEF LimitsInv, PipelineLimits
  <1>8. \A q, r \in Peers : q # r => requests'[q] \cap requests'[r] = {}
    <2> SUFFICES ASSUME NEW q \in Peers, NEW r \in Peers, q # r
                 PROVE  requests'[q] \cap requests'[r] = {}
      OBVIOUS
    <2>1. requests[q] \cap requests[r] = {}
      BY DEF LimitsInv, PipelineLimits
    <2> QED
      BY <1>3, <1>4, <2>1
  <1>9. NeverToDownloadAgain'
    <2> SUFFICES ASSUME NEW q \in Peers
                 PROVE  requests'[q] \cap blocks_to_download' = {}
      BY DEF NeverToDownloadAgain
    <2>1. requests[q] \cap blocks_to_download = {}
      BY DEF LimitsInv, NeverToDownloadAgain
    <2> QED
      BY <1>1, <1>3, <2>1
  <1> QED
    BY <1>6, <1>7, <1>8, <1>9 DEF PipelineLimits

\* peer_on_idle requests no more than there is room for, and nothing twice.
LEMMA IdleKeepsLimits ==
    ASSUME LimitsInv, NEW p \in Peers, peer_on_idle(p)
    PROVE  PipelineLimits' /\ NeverToDownloadAgain'
  <1>1. Pickable(p) \subseteq AllBlocks
    BY DEF Pickable, LimitsInv, TypeOK
  <1>2. Room(p) \in Int
    BY MaxInFlightAssumption DEF Room, LimitsInv, TypeOK
  <1>3. CASE StopRequesting(p)
    BY <1>3 DEF StopRequesting, LimitsInv, PipelineLimits, NeverToDownloadAgain, pickerVars
  <1>4. CASE RequestMore(p)
    <2> DEFINE few == Cardinality(Pickable(p))
               n == IF few >= Room(p) THEN Room(p) ELSE few
    <2>1. PICK S \in SUBSET Pickable(p) :
            /\ IsLowest(S, Pickable(p), n)
            /\ MarkRequested(p, S, S)
      BY <1>4 DEF RequestMore
    <2>2. few \in Nat
      BY <1>1, BlockSets
    <2>3. Cardinality(S) <= Room(p)
      BY <1>2, <2>1, <2>2 DEF IsLowest
    <2> QED
      BY <2>1, <2>3, MarkKeepsLimits
  <1>5. CASE RequestFails(p)
    <2>1. PICK n \in 1 .. Room(p), S \in SUBSET Pickable(p) :
            /\ IsLowest(S, Pickable(p), n)
            /\ \E last \in S : MarkRequested(p, S, S \ {last})
      BY <1>5 DEF RequestFails
    <2>2. Cardinality(S) <= Room(p)
      BY <1>2, <2>1 DEF IsLowest
    <2> QED
      BY <2>1, <2>2, MarkKeepsLimits
  <1> QED
    BY <1>3, <1>4, <1>5 DEF peer_on_idle

\* A block that arrives, asked for or not, takes at most one request away (peer_put_block).
LEMMA PieceKeepsLimits ==
    ASSUME LimitsInv, NEW p \in Peers, on_piece(p)
    PROVE  PipelineLimits' /\ NeverToDownloadAgain'
  <1>1. PICK b, content : PutFails(b) \/ PutBlock(p, b, content)
    BY DEF on_piece
  <1>2. CASE PutFails(b)
    BY <1>2 DEF PutFails, LimitsInv, PipelineLimits, NeverToDownloadAgain,
       pickerVars, historyVars
  <1>3. CASE PutBlock(p, b, content)
    <2>1. /\ blocks_to_download' = blocks_to_download
          /\ in_flight_requests' = [in_flight_requests EXCEPT ![p] = @ - 1]
          /\ requests' = [requests EXCEPT ![p] = @ \ {b}]
      BY <1>3 DEF PutBlock, picker_mark_block_as_downloaded
    <2>2. /\ in_flight_requests \in [Peers -> Nat]
          /\ requests \in [Peers -> SUBSET AllBlocks]
          /\ in_flight_requests[p] > 0
      BY DEF LimitsInv, TypeOK, on_piece
    <2>3. /\ requests'[p] = requests[p] \ {b}
          /\ in_flight_requests'[p] = in_flight_requests[p] - 1
          /\ \A q \in Peers \ {p} : /\ requests'[q] = requests[q]
                                    /\ in_flight_requests'[q] = in_flight_requests[q]
      BY <2>1, <2>2
    <2>4. /\ Cardinality(requests[p]) \in Nat
          /\ Cardinality(requests'[p]) \in Nat
          /\ Cardinality(requests'[p]) >= Cardinality(requests[p]) - 1
      <3>1. requests[p] \in SUBSET AllBlocks /\ requests[p] \ {b} \in SUBSET AllBlocks
        BY <2>2
      <3> QED
        BY <2>3, <3>1, BlockSets
    <2>5. /\ in_flight_requests'[p] \in 0 .. MaxInFlight
          /\ in_flight_requests'[p] <= Cardinality(requests'[p])
      BY <2>2, <2>3, <2>4, MaxInFlightAssumption DEF LimitsInv, PipelineLimits
    <2>6. \A q \in Peers \ {p} :
            /\ in_flight_requests'[q] \in 0 .. MaxInFlight
            /\ in_flight_requests'[q] <= Cardinality(requests'[q])
      BY <2>3 DEF LimitsInv, PipelineLimits
    <2>7. \A q \in Peers : requests'[q] \subseteq requests[q]
      BY <2>3
    <2>8. NeverToDownloadAgain'
      BY <2>1, <2>7 DEF LimitsInv, NeverToDownloadAgain
    <2>9. \A q \in Peers : \A r \in Peers \ {q} : requests'[q] \cap requests'[r] = {}
      BY <2>7 DEF LimitsInv, PipelineLimits
    <2> QED
      BY <2>5, <2>6, <2>8, <2>9 DEF PipelineLimits
  <1> QED
    BY <1>1, <1>2, <1>3

\* LimitsInv is inductive.
LEMMA StepKeepsLimits == LimitsInv /\ [Next]_vars => LimitsInv'
  <1> SUFFICES ASSUME LimitsInv, [Next]_vars
               PROVE  PipelineLimits' /\ NeverToDownloadAgain'
    BY StepKeepsTypes DEF LimitsInv
  <1>1. CASE UNCHANGED limitVars
    BY <1>1 DEF limitVars, LimitsInv, PipelineLimits, NeverToDownloadAgain
  <1> USE DEF pickerVars, historyVars, limitVars
  <1>2. CASE UNCHANGED vars
    BY <1>1, <1>2 DEF vars
  <1>3. CASE main
    BY <1>1, <1>3 DEF main, picker_checksum_all
  <1>4. ASSUME NEW p \in Peers, Client(p)
        PROVE  PipelineLimits' /\ NeverToDownloadAgain'
    <2>1. CASE peer_on_connect(p)
      BY <1>1, <2>1 DEF peer_on_connect
    <2>2. CASE peer_on_write(p)
      BY <1>1, <2>2 DEF peer_on_write
    <2>3. CASE peer_on_close(p)
      BY <1>1, <2>3 DEF peer_on_close
    <2>4. CASE peer_on_read(p)
      BY <1>1, <2>4 DEF peer_on_read
    <2>5. CASE HandleMessage(p) /\ ~on_piece(p)
      BY <1>1, <2>5 DEF HandleMessage, on_handshake, on_malformed, on_heartbeat,
         on_choke, on_unchoke, on_interested, on_have, on_unwanted_piece
    <2> QED
      BY <1>4, <2>1, <2>2, <2>3, <2>4, <2>5, IdleKeepsLimits, PieceKeepsLimits DEF Client
  <1>5. ASSUME NEW p \in Peers, Remote(p)
        PROVE  PipelineLimits' /\ NeverToDownloadAgain'
    <2>1. PICK msg : RemoteSends(p, msg)
      BY <1>5 DEF Remote, RemoteHandshake, RemoteBitfield, RemoteHave, RemoteUnchoke,
         RemoteChoke, RemoteNoise, RemoteServe, RemoteMisbehaves
    <2> QED
      BY <1>1, <2>1 DEF RemoteSends
  <1> QED
    BY <1>2, <1>3, <1>4, <1>5 DEF Next

\* LimitsInv holds before anything is requested.
LEMMA InitLimits == Init => LimitsInv
  <1> SUFFICES ASSUME Init PROVE PipelineLimits /\ NeverToDownloadAgain
    BY InitTypes DEF LimitsInv
  <1>1. \A p \in Peers : in_flight_requests[p] = 0 /\ requests[p] = {}
    BY DEF Init
  <1> QED
    BY <1>1, FS_EmptySet, MaxInFlightAssumption DEF PipelineLimits, NeverToDownloadAgain

\* Whatever a remote sends, asked for or not: never more requests in flight than
\* the pipeline holds, never counted above what was requested, and no block
\* requested through two peers (picker_pick_block, peer_request_more_blocks and
\* peer_put_block together).
THEOREM PipelineIsLimited == Spec => []PipelineLimits
  <1>1. Spec => []LimitsInv
    BY InitLimits, StepKeepsLimits, PTL DEF Spec
  <1>2. LimitsInv => PipelineLimits
    BY DEF LimitsInv
  <1> QED
    BY <1>1, <1>2, PTL
-----------------------------------------------------------------------------
(* Remotes that send what they were asked for. *)

RequestsCounted ==
    /\ \A p \in Peers : in_flight_requests[p] = Cardinality(requests[p])
    /\ blocks_downloading = UNION { requests[p] : p \in Peers }

AccountingInv ==
    LimitsInv /\ BlocksPartition /\ RequestsCounted /\ RequestsInOnePlace

countVars == <<pickerVars, in_flight_requests, requests>>

\* RequestsInOnePlace for one peer.
IsPiece(msg) == msg.kind = "piece"

OnePlace(R, W, A, box) ==
    /\ W \subseteq R
    /\ A \subseteq R
    /\ W \cap A = {}
    /\ \A i \in 1 .. Len(box) : IsPiece(box[i]) =>
         /\ BlockOf(box[i]) \in R
         /\ BlockOf(box[i]) \notin W \cup A
         /\ \A j \in 1 .. Len(box) :
              IsPiece(box[j]) /\ i # j => BlockOf(box[i]) # BlockOf(box[j])

\* RequestsInOnePlace, one peer at a time.
LEMMA OnePlacePerPeer ==
    RequestsInOnePlace <=>
      \A p \in Peers : OnePlace(requests[p], request_writes[p], asked[p], inbox[p])
  BY Zenon DEF RequestsInOnePlace, OnePlace, IsPiece

\* Parsing a message takes it from the front of the inbox.
LEMMA OnePlaceTail ==
    ASSUME NEW R, NEW W, NEW A, NEW T, NEW box \in Seq(T), box # <<>>,
           OnePlace(R, W, A, box)
    PROVE  OnePlace(R, W, A, Tail(box))
  <1>1. /\ Len(box) \in Nat \ {0}
        /\ Len(Tail(box)) = Len(box) - 1
        /\ \A i \in 1 .. Len(Tail(box)) : Tail(box)[i] = box[i + 1]
    OBVIOUS
  <1>2. \A i \in 1 .. Len(Tail(box)) : i + 1 \in 1 .. Len(box)
    BY <1>1
  <1>3. \A i, j \in 1 .. Len(Tail(box)) : i # j => i + 1 # j + 1
    BY <1>1
  <1> QED
    BY <1>1, <1>2, <1>3 DEF OnePlace

\* Storing the block of the message at the front.
LEMMA OnePlaceStored ==
    ASSUME NEW R, NEW W, NEW A, NEW T, NEW box \in Seq(T), box # <<>>,
           OnePlace(R, W, A, box), IsPiece(Head(box))
    PROVE  OnePlace(R \ {BlockOf(Head(box))}, W, A, Tail(box))
  <1>1. /\ Len(box) \in Nat \ {0}
        /\ Len(Tail(box)) = Len(box) - 1
        /\ \A i \in 1 .. Len(Tail(box)) : Tail(box)[i] = box[i + 1]
        /\ Head(box) = box[1]
    OBVIOUS
  <1>2. \A i \in 1 .. Len(Tail(box)) : i + 1 \in 1 .. Len(box) /\ i + 1 # 1
    BY <1>1
  <1>3. 1 \in 1 .. Len(box)
    BY <1>1
  <1>4. BlockOf(Head(box)) \notin W \cup A
    BY <1>1, <1>3 DEF OnePlace
  <1>5. \A i \in 1 .. Len(Tail(box)) : IsPiece(Tail(box)[i]) =>
          BlockOf(Tail(box)[i]) # BlockOf(Head(box))
    BY <1>1, <1>2, <1>3 DEF OnePlace
  <1>6. OnePlace(R, W, A, Tail(box))
    BY OnePlaceTail
  <1> QED
    BY <1>4, <1>5, <1>6 DEF OnePlace

\* A message arrives: it carries no block, or one the remote was asked for.
LEMMA OnePlaceAppend ==
    ASSUME NEW R, NEW W, NEW A, NEW T, NEW box \in Seq(T), NEW msg \in T, NEW B,
           OnePlace(R, W, A, box), B \subseteq A,
           IsPiece(msg) => BlockOf(msg) \in A \ B
    PROVE  OnePlace(R, W, B, Append(box, msg))
  <1> DEFINE n == Len(box)
             new == Append(box, msg)
  <1>1. /\ n \in Nat
        /\ Len(new) = n + 1
        /\ \A i \in 1 .. n : new[i] = box[i]
        /\ new[n + 1] = msg
    OBVIOUS
  <1> HIDE DEF n, new
  <1>2. \A i \in 1 .. n + 1 : i \in 1 .. n \/ i = n + 1
    BY <1>1
  <1>3. /\ W \subseteq R /\ B \subseteq R /\ W \cap B = {}
        /\ \A i \in 1 .. n : IsPiece(new[i]) =>
             /\ BlockOf(new[i]) \in R
             /\ BlockOf(new[i]) \notin W \cup A
             /\ \A j \in 1 .. n :
                  IsPiece(new[j]) /\ i # j => BlockOf(new[i]) # BlockOf(new[j])
    BY <1>1 DEF OnePlace, n
  <1>4. IsPiece(msg) => /\ BlockOf(msg) \in R
                        /\ BlockOf(msg) \notin W \cup B
                        /\ \A i \in 1 .. n : IsPiece(new[i]) =>
                             BlockOf(new[i]) # BlockOf(msg)
    BY <1>3 DEF OnePlace
  <1>5. ASSUME NEW i \in 1 .. n + 1, IsPiece(new[i])
        PROVE  /\ BlockOf(new[i]) \in R
               /\ BlockOf(new[i]) \notin W \cup B
               /\ \A j \in 1 .. n + 1 :
                    IsPiece(new[j]) /\ i # j => BlockOf(new[i]) # BlockOf(new[j])
    <2>1. CASE i = n + 1
      BY <1>1, <1>2, <1>4, <1>5, <2>1
    <2>2. CASE i \in 1 .. n
      BY <1>1, <1>2, <1>3, <1>4, <1>5, <2>2
    <2> QED
      BY <1>2, <2>1, <2>2
  <1>6. OnePlace(R, W, B, new)
    BY <1>1, <1>3, <1>5 DEF OnePlace
  <1> QED
    BY <1>6 DEF new

-----------------------------------------------------------------------------
(* The steps that only move messages. *)

\* Steps that leave requests, writes, answers and the picker alone keep the invariant.
LEMMA QuietSteps ==
    ASSUME AccountingInv, UNCHANGED countVars
    PROVE  BlocksPartition' /\ RequestsCounted'
  BY DEF AccountingInv, BlocksPartition, RequestsCounted, countVars, pickerVars

\* A peer whose requests and places are untouched keeps its part of the invariant.
LEMMA UntouchedPlaces ==
    ASSUME AccountingInv, UNCHANGED <<requests, request_writes, asked, inbox>>
    PROVE  RequestsInOnePlace'
  BY OnePlacePerPeer DEF AccountingInv, RequestsInOnePlace, OnePlace

\* A write completes: its Request, if it was one, is with the remote or lost.
LEMMA WriteKeepsPlaces ==
    ASSUME AccountingInv, NEW p \in Peers, peer_on_write(p)
    PROVE  RequestsInOnePlace'
  <1>1. /\ requests' = requests /\ inbox' = inbox
        /\ request_writes \in [Peers -> SUBSET AllBlocks]
        /\ asked \in [Peers -> SUBSET AllBlocks]
    BY DEF peer_on_write, historyVars, AccountingInv, LimitsInv, TypeOK
  <1>2. PICK sent \in SUBSET AllBlocks :
          /\ sent \subseteq request_writes[p]
          /\ request_writes' = [request_writes EXCEPT ![p] = @ \ sent]
          /\ WriteStatus(p, sent)
    <2>1. CASE WriteStatus(p, {}) /\ UNCHANGED request_writes
      <3>1. request_writes' = [request_writes EXCEPT ![p] = @ \ {}]
        BY <1>1, <2>1
      <3> QED
        BY <2>1, <3>1
    <2>2. ASSUME NEW b \in request_writes[p],
                 request_writes' = [request_writes EXCEPT ![p] = @ \ {b}],
                 WriteStatus(p, {b})
          PROVE  \E sent \in SUBSET AllBlocks :
                   /\ sent \subseteq request_writes[p]
                   /\ request_writes' = [request_writes EXCEPT ![p] = @ \ sent]
                   /\ WriteStatus(p, sent)
      BY <1>1, <2>2
    <2> QED
      BY <2>1, <2>2 DEF peer_on_write
  <1>3. /\ request_writes'[p] = request_writes[p] \ sent
        /\ asked'[p] \in {asked[p], asked[p] \cup sent}
        /\ \A q \in Peers \ {p} : /\ request_writes'[q] = request_writes[q]
                                  /\ asked'[q] = asked[q]
    BY <1>1, <1>2 DEF WriteStatus
  <1>4. \A q \in Peers : OnePlace(requests[q], request_writes[q], asked[q], inbox[q])
    BY OnePlacePerPeer DEF AccountingInv
  <1>5. OnePlace(requests'[p], request_writes'[p], asked'[p], inbox'[p])
    BY <1>1, <1>2, <1>3, <1>4 DEF OnePlace
  <1>6. \A q \in Peers \ {p} :
          OnePlace(requests'[q], request_writes'[q], asked'[q], inbox'[q])
    BY <1>1, <1>3, <1>4
  <1>7. \A q \in Peers :
          OnePlace(requests'[q], request_writes'[q], asked'[q], inbox'[q])
    BY <1>5, <1>6
  <1> QED
    BY <1>7 DEF RequestsInOnePlace, OnePlace, IsPiece

\* A handler that stores no block.
LEMMA ConsumeKeepsPlaces ==
    ASSUME AccountingInv, NEW p \in Peers, NEW kind, Parses(p, kind), Consume(p),
           UNCHANGED <<requests, request_writes>>
    PROVE  RequestsInOnePlace'
  <1>1. /\ inbox \in [Peers -> Seq(Messages)]
        /\ inbox[p] \in Seq(Messages) /\ inbox[p] # <<>>
        /\ inbox' = [inbox EXCEPT ![p] = Tail(@)]
        /\ asked' = asked
    BY ParsedMessage DEF AccountingInv, LimitsInv, Consume, TypeOK
  <1>2. \A q \in Peers : OnePlace(requests[q], request_writes[q], asked[q], inbox[q])
    BY OnePlacePerPeer DEF AccountingInv
  <1>3. OnePlace(requests[p], request_writes[p], asked[p], Tail(inbox[p]))
    BY <1>1, <1>2, OnePlaceTail
  <1>4. \A q \in Peers :
          OnePlace(requests'[q], request_writes'[q], asked'[q], inbox'[q])
    BY <1>1, <1>2, <1>3
  <1> QED
    BY <1>4 DEF RequestsInOnePlace, OnePlace, IsPiece

\* A remote sends a message that is no block, or answers a request.
LEMMA SendKeepsPlaces ==
    ASSUME AccountingInv, NEW p \in Peers, NEW msg \in Messages, RemoteSends(p, msg),
           NEW B \in SUBSET asked[p], asked' = [asked EXCEPT ![p] = B],
           IsPiece(msg) => BlockOf(msg) \in asked[p] \ B
    PROVE  RequestsInOnePlace'
  <1>1. /\ inbox \in [Peers -> Seq(Messages)]
        /\ asked \in [Peers -> SUBSET AllBlocks]
        /\ inbox' = [inbox EXCEPT ![p] = Append(@, msg)]
        /\ UNCHANGED <<requests, request_writes>>
    BY DEF AccountingInv, LimitsInv, TypeOK, RemoteSends, historyVars, writeVars
  <1>2. \A q \in Peers : OnePlace(requests[q], request_writes[q], asked[q], inbox[q])
    BY OnePlacePerPeer DEF AccountingInv
  <1>3. OnePlace(requests[p], request_writes[p], B, Append(inbox[p], msg))
    BY <1>1, <1>2, OnePlaceAppend
  <1>4. \A q \in Peers :
          OnePlace(requests'[q], request_writes'[q], asked'[q], inbox'[q])
    BY <1>1, <1>2, <1>3
  <1> QED
    BY <1>4 DEF RequestsInOnePlace, OnePlace, IsPiece

-----------------------------------------------------------------------------
(* Requesting blocks. *)

\* Marking and counting the blocks of a batch of requests (peer_request_more_blocks).
LEMMA MarkKeepsAccounting ==
    ASSUME AccountingInv, NEW p \in Peers, NEW S \in SUBSET Pickable(p),
           NEW sent \in SUBSET S, MarkRequested(p, S, sent),
           UNCHANGED <<asked, inbox>>
    PROVE  BlocksPartition' /\ RequestsCounted' /\ RequestsInOnePlace'
  <1>1. /\ blocks_to_download' = blocks_to_download \ S
        /\ blocks_downloading' = blocks_downloading \cup S
        /\ blocks_downloaded' = blocks_downloaded
        /\ in_flight_requests' = [in_flight_requests EXCEPT ![p] = @ + Cardinality(S)]
        /\ requests' = [requests EXCEPT ![p] = @ \cup S]
        /\ request_writes' = [request_writes EXCEPT ![p] = @ \cup sent]
    BY DEF MarkRequested, picker_mark_blocks_as_downloading
  <1>2. /\ in_flight_requests \in [Peers -> Nat]
        /\ requests \in [Peers -> SUBSET AllBlocks]
        /\ request_writes \in [Peers -> SUBSET AllBlocks]
        /\ S \subseteq blocks_to_download
        /\ S \in SUBSET AllBlocks
    BY DEF AccountingInv, LimitsInv, TypeOK, Pickable
  <1>3. BlocksPartition'
    BY <1>1, <1>2 DEF AccountingInv, BlocksPartition
  <1>4. requests[p] \cap S = {}
    BY <1>2 DEF AccountingInv, LimitsInv, NeverToDownloadAgain
  <1>5. /\ requests'[p] = requests[p] \cup S
        /\ request_writes'[p] = request_writes[p] \cup sent
        /\ in_flight_requests'[p] = in_flight_requests[p] + Cardinality(S)
        /\ \A q \in Peers \ {p} : /\ requests'[q] = requests[q]
                                  /\ request_writes'[q] = request_writes[q]
                                  /\ in_flight_requests'[q] = in_flight_requests[q]
    BY <1>1, <1>2
  <1>6. RequestsCounted'
    <2>1. in_flight_requests'[p] = Cardinality(requests'[p])
      <3>1. Cardinality(requests[p] \cup S) = Cardinality(requests[p]) + Cardinality(S)
        BY <1>2, <1>4, BlockSets
      <3> QED
        BY <1>5, <3>1 DEF AccountingInv, RequestsCounted
    <2>2. \A q \in Peers : in_flight_requests'[q] = Cardinality(requests'[q])
      BY <1>5, <2>1 DEF AccountingInv, RequestsCounted
    <2>3. UNION { requests'[q] : q \in Peers } =
            (UNION { requests[q] : q \in Peers }) \cup S
      <3>1. \A x : (\E q \in Peers : x \in requests'[q])
                     <=> (\E q \in Peers : x \in requests[q]) \/ x \in S
        BY <1>5
      <3> QED
        BY <3>1
    <2>4. blocks_downloading = UNION { requests[q] : q \in Peers }
      BY DEF AccountingInv, RequestsCounted
    <2>5. blocks_downloading' = UNION { requests'[q] : q \in Peers }
      BY <1>1, <2>3, <2>4
    <2> QED
      BY <2>2, <2>5 DEF RequestsCounted
  <1>7. RequestsInOnePlace'
    <2>1. \A q \in Peers : OnePlace(requests[q], request_writes[q], asked[q], inbox[q])
      BY OnePlacePerPeer DEF AccountingInv
    <2>2. OnePlace(requests[p] \cup S, request_writes[p] \cup sent, asked[p], inbox[p])
      BY <1>4, <2>1 DEF OnePlace
    <2>3. \A q \in Peers : OnePlace(requests'[q], request_writes'[q], asked'[q], inbox'[q])
      BY <1>5, <2>1, <2>2
    <2> QED
      BY <2>3 DEF RequestsInOnePlace, OnePlace, IsPiece
  <1> QED
    BY <1>3, <1>6, <1>7

\* peer_on_idle keeps the invariant.
LEMMA IdleKeepsAccounting ==
    ASSUME AccountingInv, NEW p \in Peers, peer_on_idle(p)
    PROVE  BlocksPartition' /\ RequestsCounted' /\ RequestsInOnePlace'
  <1>1. UNCHANGED <<asked, inbox>>
    BY DEF peer_on_idle, remoteVars
  <1>2. CASE StopRequesting(p)
    BY <1>1, <1>2, QuietSteps, UntouchedPlaces DEF StopRequesting, countVars
  <1>3. CASE RequestMore(p)
    <2>1. PICK S \in SUBSET Pickable(p) : MarkRequested(p, S, S)
      BY <1>3 DEF RequestMore
    <2> QED
      BY <1>1, <2>1, MarkKeepsAccounting
  <1>4. CASE RequestFails(p)
    <2>1. PICK S \in SUBSET Pickable(p) :
            \E last \in S : MarkRequested(p, S, S \ {last})
      BY <1>4 DEF RequestFails
    <2> QED
      BY <1>1, <2>1, MarkKeepsAccounting
  <1> QED
    BY <1>2, <1>3, <1>4 DEF peer_on_idle

-----------------------------------------------------------------------------
(* Storing a block. *)

\* A block that arrives was in flight, and leaves it (peer_put_block).
LEMMA PieceKeepsAccounting ==
    ASSUME AccountingInv, NEW p \in Peers, on_piece(p)
    PROVE  BlocksPartition' /\ RequestsCounted' /\ RequestsInOnePlace'
  <1> DEFINE msg == Head(inbox[p])
             b == BlockOf(msg)
  <1>1. PutFails(b) \/ PutBlock(p, b, msg.content)
    BY DEF on_piece, BlockOf
  <1>2. /\ Parses(p, "piece") /\ Consume(p)
        /\ request_writes' = request_writes
    BY DEF on_piece, writeVars
  <1>3. /\ inbox \in [Peers -> Seq(Messages)]
        /\ inbox[p] \in Seq(Messages) /\ inbox[p] # <<>>
        /\ IsPiece(msg)
        /\ inbox' = [inbox EXCEPT ![p] = Tail(@)]
        /\ asked' = asked
    BY <1>2, ParsedMessage DEF AccountingInv, LimitsInv, Consume, TypeOK, IsPiece
  <1>4. \A q \in Peers : OnePlace(requests[q], request_writes[q], asked[q], inbox[q])
    BY OnePlacePerPeer DEF AccountingInv
  <1>5. b \in requests[p]
    <2>1. 1 \in 1 .. Len(inbox[p]) /\ msg = inbox[p][1]
      BY <1>3
    <2> QED
      BY <1>3, <1>4, <2>1 DEF OnePlace
  <1>6. OnePlace(requests[p] \ {b}, request_writes[p], asked[p], Tail(inbox[p]))
    BY <1>3, <1>4, OnePlaceStored
  <1> HIDE DEF msg, b
  <1>7. CASE PutFails(b)
    <2>1. UNCHANGED countVars /\ UNCHANGED requests
      BY <1>7 DEF PutFails, countVars, historyVars
    <2> QED
      BY <1>2, <2>1, QuietSteps, ConsumeKeepsPlaces
  <1>8. CASE PutBlock(p, b, msg.content)
    <2>1. /\ blocks_to_download' = blocks_to_download
          /\ blocks_downloading' = blocks_downloading \ {b}
          /\ blocks_downloaded' = blocks_downloaded \cup {b}
          /\ in_flight_requests' = [in_flight_requests EXCEPT ![p] = @ - 1]
          /\ requests' = [requests EXCEPT ![p] = @ \ {b}]
      BY <1>8 DEF PutBlock, picker_mark_block_as_downloaded
    <2>2. /\ in_flight_requests \in [Peers -> Nat]
          /\ requests \in [Peers -> SUBSET AllBlocks]
      BY DEF AccountingInv, LimitsInv, TypeOK
    <2>3. /\ requests'[p] = requests[p] \ {b}
          /\ in_flight_requests'[p] = in_flight_requests[p] - 1
          /\ \A q \in Peers \ {p} : /\ requests'[q] = requests[q]
                                    /\ in_flight_requests'[q] = in_flight_requests[q]
      BY <2>1, <2>2
    <2>4. b \in blocks_downloading
      BY <1>5 DEF AccountingInv, RequestsCounted
    <2>5. BlocksPartition'
      BY <2>1, <2>4 DEF AccountingInv, BlocksPartition
    <2>6. RequestsCounted'
      <3>1. in_flight_requests'[p] = Cardinality(requests'[p])
        <4>1. Cardinality(requests[p] \ {b}) = Cardinality(requests[p]) - 1
          BY <1>5, <2>2, BlockSets
        <4> QED
          BY <2>3, <4>1 DEF AccountingInv, RequestsCounted
      <3>2. \A q \in Peers : in_flight_requests'[q] = Cardinality(requests'[q])
        BY <2>3, <3>1 DEF AccountingInv, RequestsCounted
      <3>3. \A q \in Peers \ {p} : b \notin requests[q]
        BY <1>5 DEF AccountingInv, LimitsInv, PipelineLimits
      <3>4. UNION { requests'[q] : q \in Peers } =
              (UNION { requests[q] : q \in Peers }) \ {b}
        BY <2>3, <3>3
      <3> QED
        BY <2>1, <3>2, <3>4 DEF AccountingInv, RequestsCounted
    <2>7. \A q \in Peers : OnePlace(requests'[q], request_writes'[q], asked'[q], inbox'[q])
      BY <1>2, <1>3, <1>4, <1>6, <2>3
    <2> QED
      BY <2>5, <2>6, <2>7 DEF RequestsInOnePlace, OnePlace, IsPiece
  <1> QED
    BY <1>1, <1>7, <1>8

-----------------------------------------------------------------------------
(* The remote peers. *)

\* A remote moves a request from asked to inbox, or forgets it.
LEMMA RemoteKeepsPlaces ==
    ASSUME AccountingInv, "unsolicited" \notin Faults, NEW p \in Peers, Remote(p)
    PROVE  RequestsInOnePlace' /\ UNCHANGED countVars
  <1>1. ASSUME NEW msg, RemoteSends(p, msg)
        PROVE  UNCHANGED countVars
    BY <1>1 DEF RemoteSends, countVars, historyVars
  <1>2. asked \in [Peers -> SUBSET AllBlocks]
    BY DEF AccountingInv, LimitsInv, TypeOK
  <1>3. ASSUME NEW msg \in Messages, ~IsPiece(msg), RemoteSends(p, msg),
               asked' = asked \/ asked' = [asked EXCEPT ![p] = {}]
        PROVE  RequestsInOnePlace'
    <2>1. PICK B \in SUBSET asked[p] : asked' = [asked EXCEPT ![p] = B]
      BY <1>2, <1>3
    <2> QED
      BY <1>3, <2>1, SendKeepsPlaces
  <1>4. CASE RemoteServe(p)
    <2>1. PICK b \in asked[p], content \in Contents :
            /\ asked' = [asked EXCEPT ![p] = @ \ {b}]
            /\ RemoteSends(p, Answer(b, content))
      BY <1>4 DEF RemoteServe
    <2>2. b \in AllBlocks /\ content \in {"good", "bad"}
      BY <1>2, <2>1 DEF Contents
    <2>3. Answer(b, content) \in Messages
      BY <2>2 DEF Messages
    <2>4. BlockOf(Answer(b, content)) = b
      BY <2>2, MIsWellFormed, RequestRoundTrip DEF BlockOf, Answer, AllBlocks
    <2>5. RequestsInOnePlace'
      <3> DEFINE B == asked[p] \ {b}
      <3>1. B \in SUBSET asked[p] /\ b \in asked[p] \ B
        BY <2>1
      <3> QED
        BY <2>1, <2>3, <2>4, <3>1, SendKeepsPlaces
    <2> QED
      BY <1>1, <2>1, <2>5
  <1>5. CASE ~RemoteServe(p)
    <2>1. PICK msg \in Messages : RemoteSends(p, msg) /\ ~IsPiece(msg)
      <3>1. RemoteHas[p] \in SUBSET AllPieces
        BY RemoteHasAssumption
      <3>2. ASSUME NEW kind \in {"handshake", "malformed", "heartbeat", "choke", "unchoke",
                     "interested", "uninterested", "request", "cancel", "eof"}
            PROVE  [kind |-> kind] \in Messages /\ ~IsPiece([kind |-> kind])
        BY DEF Messages, IsPiece
      <3>3. \A piece \in AllPieces :
              /\ [kind |-> "have", piece |-> piece] \in Messages
              /\ ~IsPiece([kind |-> "have", piece |-> piece])
        BY DEF Messages, IsPiece
      <3>4. \A S \in SUBSET AllPieces :
              /\ [kind |-> "bitfield", pieces |-> S] \in Messages
              /\ ~IsPiece([kind |-> "bitfield", pieces |-> S])
        BY DEF Messages, IsPiece
      <3>5. CASE RemoteHandshake(p)
        BY <3>2, <3>5 DEF RemoteHandshake
      <3>6. CASE RemoteBitfield(p)
        BY <3>1, <3>4, <3>6 DEF RemoteBitfield
      <3>7. CASE RemoteHave(p)
        BY <3>1, <3>3, <3>7 DEF RemoteHave
      <3>8. CASE RemoteUnchoke(p)
        BY <3>2, <3>8 DEF RemoteUnchoke
      <3>9. CASE RemoteChoke(p)
        BY <3>2, <3>9 DEF RemoteChoke
      <3>10. CASE RemoteNoise(p)
        BY <3>2, <3>10 DEF RemoteNoise
      <3>11. CASE RemoteMisbehaves(p)
        BY <3>2, <3>11 DEF RemoteMisbehaves
      <3> QED
        BY <1>5, <3>5, <3>6, <3>7, <3>8, <3>9, <3>10, <3>11 DEF Remote
    <2>2. asked' = asked \/ asked' = [asked EXCEPT ![p] = {}]
      BY <1>5 DEF Remote, RemoteHandshake, RemoteBitfield, RemoteHave, RemoteUnchoke,
         RemoteChoke, RemoteNoise, RemoteMisbehaves
    <2> QED
      BY <1>1, <1>3, <2>1, <2>2
  <1> QED
    BY <1>4, <1>5

-----------------------------------------------------------------------------
(* The theorem. *)

\* AccountingInv is inductive when no remote sends what it was not asked for.
LEMMA StepKeepsAccounting ==
    ASSUME "unsolicited" \notin Faults
    PROVE  AccountingInv /\ [Next]_vars => AccountingInv'
  <1> SUFFICES ASSUME AccountingInv, [Next]_vars
               PROVE  BlocksPartition' /\ RequestsCounted' /\ RequestsInOnePlace'
    BY StepKeepsLimits DEF AccountingInv
  <1> DEFINE placeVars == <<requests, request_writes, asked, inbox>>
  <1>1. ASSUME UNCHANGED countVars, UNCHANGED placeVars
        PROVE  BlocksPartition' /\ RequestsCounted' /\ RequestsInOnePlace'
    BY <1>1, QuietSteps, UntouchedPlaces
  <1> USE DEF countVars, pickerVars, historyVars
  <1>2. CASE UNCHANGED vars
    BY <1>1, <1>2 DEF vars, writeVars, remoteVars
  <1>3. CASE main
    BY <1>1, <1>3 DEF main, picker_checksum_all, writeVars, remoteVars
  <1>4. ASSUME NEW p \in Peers, Client(p)
        PROVE  BlocksPartition' /\ RequestsCounted' /\ RequestsInOnePlace'
    <2>1. CASE peer_on_connect(p)
      BY <1>1, <2>1 DEF peer_on_connect, remoteVars
    <2>2. CASE peer_on_write(p)
      <3>1. UNCHANGED countVars
        BY <2>2 DEF peer_on_write
      <3> QED
        BY <2>2, <3>1, QuietSteps, WriteKeepsPlaces
    <2>3. CASE peer_on_close(p)
      BY <1>1, <2>3 DEF peer_on_close, writeVars, remoteVars
    <2>4. CASE peer_on_read(p)
      BY <1>1, <2>4 DEF peer_on_read, writeVars, remoteVars
    <2>5. CASE HandleMessage(p) /\ ~on_piece(p)
      <3>1. UNCHANGED countVars /\ UNCHANGED request_writes /\ Consume(p)
        BY <2>5 DEF HandleMessage, on_handshake, on_malformed, on_heartbeat,
           on_choke, on_unchoke, on_interested, on_have, on_unwanted_piece, writeVars
      <3>2. \E kind : Parses(p, kind)
        BY <2>5 DEF HandleMessage, on_handshake, on_malformed, on_heartbeat,
           on_choke, on_unchoke, on_interested, on_have, on_unwanted_piece
      <3> QED
        BY <3>1, <3>2, QuietSteps, ConsumeKeepsPlaces
    <2> QED
      BY <1>4, <2>1, <2>2, <2>3, <2>4, <2>5, IdleKeepsAccounting, PieceKeepsAccounting
         DEF Client
  <1>5. ASSUME NEW p \in Peers, Remote(p)
        PROVE  BlocksPartition' /\ RequestsCounted' /\ RequestsInOnePlace'
    BY <1>5, RemoteKeepsPlaces, QuietSteps
  <1> QED
    BY <1>2, <1>3, <1>4, <1>5 DEF Next

\* AccountingInv holds before anything is requested.
LEMMA InitAccounting == Init => AccountingInv
  <1> SUFFICES ASSUME Init
               PROVE  BlocksPartition /\ RequestsCounted /\ RequestsInOnePlace
    BY InitLimits DEF AccountingInv
  <1>1. BlocksPartition
    BY DEF Init, BlocksPartition
  <1>2. \A p \in Peers : /\ in_flight_requests[p] = 0 /\ requests[p] = {}
                         /\ request_writes[p] = {} /\ asked[p] = {}
                         /\ inbox[p] = <<>>
    BY DEF Init
  <1>3. blocks_downloading = {}
    BY DEF Init
  <1>4. RequestsCounted
    BY <1>2, <1>3, FS_EmptySet DEF RequestsCounted
  <1>5. RequestsInOnePlace
    BY <1>2 DEF RequestsInOnePlace
  <1> QED
    BY <1>1, <1>4, <1>5

\* As long as remotes only answer what they were asked, a block is in exactly one
\* of the picker's bit arrays (picker_mark_block_as_downloading,
\* picker_mark_block_as_downloaded).
THEOREM BlocksArePartitioned ==
    ASSUME "unsolicited" \notin Faults
    PROVE  Spec => []BlocksPartition
  <1>1. Spec => []AccountingInv
    BY InitAccounting, StepKeepsAccounting, PTL DEF Spec
  <1>2. AccountingInv => BlocksPartition
    BY DEF AccountingInv
  <1> QED
    BY <1>1, <1>2, PTL

\* Under the same assumption in_flight_requests is the number of blocks requested
\* and not yet stored (peer_request_more_blocks, peer_put_block).
THEOREM RequestsAreAccountedFor ==
    ASSUME "unsolicited" \notin Faults
    PROVE  Spec => []InFlightAccounting
  <1>1. Spec => []AccountingInv
    BY InitAccounting, StepKeepsAccounting, PTL DEF Spec
  <1>2. AccountingInv => InFlightAccounting
    <2> SUFFICES ASSUME AccountingInv
                 PROVE  InFlightAccounting
      OBVIOUS
    <2>1. RequestsCounted /\ PipelineLimits
      BY DEF AccountingInv, LimitsInv
    <2>2. \A p \in Peers : in_flight_requests[p] <= MaxInFlight
      BY <2>1 DEF PipelineLimits
    <2> QED
      BY <2>1, <2>2 DEF RequestsCounted, InFlightAccounting, PipelineLimits
  <1> QED
    BY <1>1, <1>2, PTL

\* Under the same assumption a block in flight is on one leg of its way only: no
\* answer can arrive twice, or for a Request that is not yet written.
THEOREM RequestsTakeOnePath ==
    ASSUME "unsolicited" \notin Faults
    PROVE  Spec => []RequestsInOnePlace
  <1>1. Spec => []AccountingInv
    BY InitAccounting, StepKeepsAccounting, PTL DEF Spec
  <1>2. AccountingInv => RequestsInOnePlace
    BY DEF AccountingInv
  <1> QED
    BY <1>1, <1>2, PTL

-----------------------------------------------------------------------------
(* The pieces of the torrent, and how many bytes a set of blocks has. *)

\* The blocks of a piece, and the piece of a block.
LEMMA PiecesOfM ==
    /\ PiecesCount \in Nat \ {0}
    /\ IsFiniteSet(AllPieces)
    /\ Cardinality(AllPieces) = PiecesCount
    /\ \A x \in AllPieces :
         /\ x \in Nat
         /\ metainfo_block_count_for_piece(M, x) \in Nat \ {0}
         /\ IsFiniteSet(blocks_of_piece(M, x))
         /\ Cardinality(blocks_of_piece(M, x)) = metainfo_block_count_for_piece(M, x)
         /\ \A b \in blocks_of_piece(M, x) : piece_of_block(M, b) = x
    /\ \A b \in AllBlocks : b \in blocks_of_piece(M, piece_of_block(M, b))
  <1>1. M.pieces_count = PiecesCount
    BY DEF M, metainfo_init
  <1>2. PiecesCount \in Nat \ {0}
    BY <1>1, MIsWellFormed, LastPiece
  <1>3. IsFiniteSet(AllPieces) /\ Cardinality(AllPieces) = PiecesCount
    BY <1>1, <1>2, FS_Interval DEF AllPieces, Pieces
  <1>4. ASSUME NEW x \in AllPieces
        PROVE  /\ x \in Nat
               /\ metainfo_block_count_for_piece(M, x) \in Nat \ {0}
               /\ IsFiniteSet(blocks_of_piece(M, x))
               /\ Cardinality(blocks_of_piece(M, x)) = metainfo_block_count_for_piece(M, x)
    <2> DEFINE first == x * M.blocks_per_piece
               n == metainfo_block_count_for_piece(M, x)
    <2>1. x \in Nat /\ n \in 1 .. M.blocks_per_piece /\ M.blocks_per_piece \in Nat \ {0}
      BY MIsWellFormed, BlocksInPiece, BlocksPerPiece DEF AllPieces
    <2>2. first \in Int /\ n \in Nat \ {0}
      BY <2>1
    <2>3. blocks_of_piece(M, x) = first .. first + n - 1
      BY DEF blocks_of_piece
    <2> HIDE DEF first, n
    <2>4. /\ IsFiniteSet(first .. first + n - 1)
          /\ Cardinality(first .. first + n - 1) = n
      BY <2>2, FS_Interval
    <2> QED
      BY <2>1, <2>2, <2>3, <2>4 DEF n
  <1> QED
    BY <1>2, <1>3, <1>4, MIsWellFormed, PieceHasBlock DEF AllPieces, AllBlocks

LastBlock == M.blocks_count - 1

Bytes(S) ==
    BlockLength * Cardinality(S)
      - (IF LastBlock \in S
         THEN BlockLength - request_of_block(M, LastBlock).length ELSE 0)

\* Only the last block of the file may be shorter than a block.
LEMMA BlockLengths ==
    /\ BlockLength \in Nat \ {0}
    /\ \A b \in AllBlocks :
         /\ request_of_block(M, b).length \in 1 .. BlockLength
         /\ b # LastBlock => request_of_block(M, b).length = BlockLength
         /\ b * BlockLength + request_of_block(M, b).length <= Length
  <1> DEFINE c == (M.pieces_count - 1) * M.blocks_per_piece + M.last_piece_block_count
  <1>1. /\ BlockLength \in Nat \ {0}
        /\ M.length = Length /\ Length \in Nat \ {0}
        /\ M.blocks_count \in Nat /\ M.blocks_count <= c
        /\ c = CeilDiv(Length, BlockLength)
    BY MIsWellFormed, BlocksCount, LastPiece, LengthAssumption, BlockLengthAssumption
       DEF M, metainfo_init
  <1>2. ASSUME NEW b \in AllBlocks
        PROVE  request_of_block(M, b).length
                 = IF b = c - 1 THEN Length - b * BlockLength ELSE BlockLength
    BY <1>1, <1>2, MIsWellFormed, RequestLength DEF AllBlocks
  <1> HIDE DEF c
  <1>3. c \in Nat \ {0} /\ (c - 1) * BlockLength < Length /\ Length <= c * BlockLength
    BY <1>1, RoundedUp
  <1>4. c * BlockLength = (c - 1) * BlockLength + BlockLength
    BY <1>1, <1>3
  <1>5. ASSUME NEW b \in AllBlocks
        PROVE  /\ request_of_block(M, b).length \in 1 .. BlockLength
               /\ b # LastBlock => request_of_block(M, b).length = BlockLength
               /\ b * BlockLength + request_of_block(M, b).length <= Length
    <2>1. b \in Nat /\ b < M.blocks_count
      BY <1>1 DEF AllBlocks, Blocks
    <2>2. CASE b = c - 1
      <3>1. b * BlockLength = (c - 1) * BlockLength /\ b * BlockLength \in Int
        BY <1>1, <2>1, <2>2
      <3>2. b = LastBlock
        BY <1>1, <1>3, <2>1, <2>2 DEF LastBlock
      <3>3. Length - b * BlockLength \in 1 .. BlockLength
        BY <1>1, <1>3, <1>4, <3>1
      <3> QED
        BY <1>1, <1>2, <2>2, <3>1, <3>2, <3>3
    <2>3. CASE b # c - 1
      <3>1. b + 1 <= c - 1
        BY <1>1, <1>3, <2>1, <2>3
      <3>2. (b + 1) * BlockLength <= (c - 1) * BlockLength
        BY <1>1, <1>3, <2>1, <3>1
      <3>3. (b + 1) * BlockLength = b * BlockLength + BlockLength
        BY <1>1, <2>1
      <3>4. b * BlockLength \in Int /\ (c - 1) * BlockLength \in Int
        BY <1>1, <1>3, <2>1
      <3> QED
        BY <1>1, <1>2, <1>3, <2>3, <3>2, <3>3, <3>4
    <2> QED
      BY <2>2, <2>3
  <1> QED
    BY <1>1, <1>5

\* What download_checksum_piece takes back for a piece is what its blocks added.
LEMMA PieceBytes ==
    ASSUME NEW x \in AllPieces, blocks_of_piece(M, x) \subseteq AllBlocks
    PROVE  metainfo_piece_length(M, x) = Bytes(blocks_of_piece(M, x))
  <1> DEFINE n == M.pieces_count
             k == M.blocks_per_piece
             last == M.last_piece_block_count
             B == BlockLength
             c == (n - 1) * k + last
  <1>1. /\ k \in Nat \ {0} /\ M.piece_length = k * B
        /\ n \in Nat \ {0} /\ last \in 1 .. k
        /\ M.last_piece_length = Length - (n - 1) * (k * B)
        /\ M.blocks_count \in Nat /\ M.blocks_count <= c
        /\ B \in Nat \ {0}
        /\ M.length = Length /\ Length \in Nat \ {0}
    <2>1. M.length = Length
      BY DEF M, metainfo_init
    <2> QED
      BY <2>1, MIsWellFormed, BlocksPerPiece, BlocksCount, LastPiece, LengthAssumption,
         BlockLengthAssumption
  <1>2. /\ x \in Nat
        /\ Cardinality(blocks_of_piece(M, x)) = metainfo_block_count_for_piece(M, x)
    BY PiecesOfM
  <1> HIDE DEF n, k, last
  <1>3. CASE x = n - 1
    <2>1. /\ metainfo_piece_length(M, x) = Length - (n - 1) * (k * B)
          /\ Cardinality(blocks_of_piece(M, x)) = last
          /\ blocks_of_piece(M, x) = (n - 1) * k .. (n - 1) * k + last - 1
      BY <1>1, <1>2, <1>3
         DEF metainfo_piece_length, metainfo_block_count_for_piece,
             metainfo_is_last_piece, blocks_of_piece, n, k, last
    <2>2. (n - 1) * k \in Int /\ c \in Int
      BY <1>1
    <2>3. c - 1 \in blocks_of_piece(M, x)
      BY <1>1, <2>1, <2>2
    <2>4. c - 1 \in AllBlocks
      BY <2>3
    <2>5. c - 1 = LastBlock
      BY <1>1, <2>2, <2>4 DEF AllBlocks, Blocks, LastBlock
    <2>6. request_of_block(M, LastBlock).length = Length - (c - 1) * B
      BY <1>1, <2>4, <2>5, MIsWellFormed, RequestLength DEF AllBlocks, n, k, last
    <2>7. (c - 1) * B = (n - 1) * (k * B) + (B * last - B)
      <3>1. ((n - 1) * k) * B = (n - 1) * (k * B)
        BY <1>1
      <3>2. (((n - 1) * k) + (last - 1)) * B = ((n - 1) * k) * B + (last - 1) * B
        BY <1>1
      <3>3. (last - 1) * B = B * last - B
        BY <1>1
      <3>4. c - 1 = ((n - 1) * k) + (last - 1)
        BY <1>1, <2>2
      <3> QED
        BY <3>1, <3>2, <3>3, <3>4
    <2>8. Bytes(blocks_of_piece(M, x)) = B * last - (B - (Length - (c - 1) * B))
      BY <2>1, <2>3, <2>5, <2>6 DEF Bytes
    <2>9. (n - 1) * (k * B) \in Int /\ B * last \in Int
      BY <1>1
    <2> HIDE DEF c, B
    <2> QED
      BY <1>1, <2>1, <2>7, <2>8, <2>9
  <1>4. CASE x # n - 1
    <2>1. /\ metainfo_piece_length(M, x) = k * B
          /\ Cardinality(blocks_of_piece(M, x)) = k
      BY <1>1, <1>2, <1>4
         DEF metainfo_piece_length, metainfo_block_count_for_piece,
             metainfo_is_last_piece, n, k
    <2>2. ASSUME LastBlock \in blocks_of_piece(M, x)
          PROVE  request_of_block(M, LastBlock).length = B
      <3>1. piece_of_block(M, LastBlock) = x /\ LastBlock \in AllBlocks
        BY <2>2, PiecesOfM
      <3>2. ~metainfo_is_last_piece(M, x)
        BY <1>4 DEF metainfo_is_last_piece, n
      <3> QED
        BY <3>1, <3>2 DEF request_of_block, metainfo_block_for_piece_length
    <2>3. Bytes(blocks_of_piece(M, x)) = B * k
      BY <1>1, <2>1, <2>2 DEF Bytes
    <2> QED
      BY <1>1, <2>1, <2>3
  <1> QED
    BY <1>3, <1>4

\* One more block adds what was asked for it.
LEMMA BytesOfOneMore ==
    ASSUME NEW S \in SUBSET AllBlocks, NEW b \in AllBlocks \ S
    PROVE  /\ Cardinality(S \cup {b}) = Cardinality(S) + 1
           /\ Bytes(S \cup {b}) = Bytes(S) + request_of_block(M, b).length
  <1> DEFINE len == request_of_block(M, b).length
             lastLen == request_of_block(M, LastBlock).length
  <1>1. /\ BlockLength \in Nat \ {0} /\ len \in Nat
        /\ b # LastBlock => len = BlockLength
    BY BlockLengths
  <1>2. IsFiniteSet(S) /\ Cardinality(S) \in Nat
    BY BlocksAndPieces, FS_Subset, FS_CardinalityType
  <1>3. Cardinality(S \cup {b}) = Cardinality(S) + 1
    BY <1>2, FS_AddElement
  <1>4. BlockLength * (Cardinality(S) + 1) = BlockLength * Cardinality(S) + BlockLength
    BY <1>1, <1>2
  <1>5. BlockLength * Cardinality(S) \in Int
    BY <1>1, <1>2
  <1>6. CASE b = LastBlock
    <2>1. /\ Bytes(S) = BlockLength * Cardinality(S)
          /\ Bytes(S \cup {b}) = BlockLength * (Cardinality(S) + 1) - (BlockLength - len)
      BY <1>1, <1>3, <1>5, <1>6 DEF Bytes
    <2> HIDE DEF len
    <2> QED
      BY <1>1, <1>3, <1>4, <1>5, <2>1 DEF len
  <1>7. CASE b # LastBlock
    <2>1. LastBlock \in S => lastLen \in Nat
      BY BlockLengths
    <2>2. LastBlock \in S \cup {b} <=> LastBlock \in S
      BY <1>7
    <2> DEFINE less == IF LastBlock \in S THEN BlockLength - lastLen ELSE 0
    <2>3. less \in Int
      BY <1>1, <2>1
    <2>4. /\ Bytes(S) = BlockLength * Cardinality(S) - less
          /\ Bytes(S \cup {b}) = BlockLength * (Cardinality(S) + 1) - less
      BY <1>3, <2>2 DEF Bytes
    <2> HIDE DEF len, less
    <2> QED
      BY <1>1, <1>3, <1>4, <1>5, <1>7, <2>3, <2>4 DEF len
  <1> QED
    BY <1>6, <1>7

\* A piece fewer is its length less.
LEMMA BytesWithoutPiece ==
    ASSUME NEW S \in SUBSET AllBlocks, NEW x \in AllPieces,
           blocks_of_piece(M, x) \subseteq S
    PROVE  LET T == S \ blocks_of_piece(M, x)
           IN  /\ Cardinality(T) = Cardinality(S) - metainfo_block_count_for_piece(M, x)
               /\ Bytes(T) = Bytes(S) - metainfo_piece_length(M, x)
  <1> DEFINE P == blocks_of_piece(M, x)
             T == S \ P
             n == metainfo_block_count_for_piece(M, x)
             less == BlockLength - request_of_block(M, LastBlock).length
  <1>1. /\ Cardinality(P) = n /\ n \in Nat
        /\ metainfo_piece_length(M, x) = Bytes(P)
    <2>1. P \subseteq AllBlocks
      OBVIOUS
    <2> QED
      BY <2>1, PieceBytes, PiecesOfM
  <1>2. /\ IsFiniteSet(S) /\ Cardinality(S) \in Nat
        /\ Cardinality(T) = Cardinality(S) - Cardinality(S \cap P)
    BY BlocksAndPieces, FS_Subset, FS_CardinalityType, FS_Difference
  <1>3. S \cap P = P
    OBVIOUS
  <1>4. Cardinality(T) = Cardinality(S) - n
    BY <1>1, <1>2, <1>3
  <1>5. BlockLength \in Nat \ {0} /\ (LastBlock \in S => less \in Int)
    BY BlockLengths
  <1>6. /\ BlockLength * (Cardinality(S) - n) = BlockLength * Cardinality(S) - BlockLength * n
        /\ BlockLength * Cardinality(S) \in Int /\ BlockLength * n \in Int
    BY <1>1, <1>2, <1>5
  <1> HIDE DEF n, less
  <1>7. /\ Bytes(S) = BlockLength * Cardinality(S) - (IF LastBlock \in S THEN less ELSE 0)
        /\ Bytes(P) = BlockLength * n - (IF LastBlock \in P THEN less ELSE 0)
        /\ Bytes(T) = BlockLength * (Cardinality(S) - n) - (IF LastBlock \in T THEN less ELSE 0)
    BY <1>1, <1>4 DEF Bytes, less
  <1>8. Bytes(T) = Bytes(S) - Bytes(P)
    <2>1. CASE LastBlock \in P
      <3>1. LastBlock \in S /\ LastBlock \notin T
        BY <2>1
      <3> QED
        BY <1>5, <1>6, <1>7, <2>1, <3>1
    <2>2. CASE LastBlock \notin P /\ LastBlock \in S
      BY <1>5, <1>6, <1>7, <2>2
    <2>3. CASE LastBlock \notin S
      BY <1>6, <1>7, <2>3
    <2> QED
      BY <2>1, <2>2, <2>3
  <1> QED
    BY <1>1, <1>4, <1>8 DEF n
-----------------------------------------------------------------------------
(* A verified piece is never written again. *)

\* The block that a handler stores, or fails to store, is one in flight.
LEMMA StoredBlockIsInFlight ==
    ASSUME AccountingInv, NEW p \in Peers, on_piece(p)
    PROVE  LET msg == Head(inbox[p])
               b   == BlockOf(msg)
           IN  /\ b \in AllBlocks
               /\ b \in blocks_downloading /\ b \notin blocks_downloaded
               /\ ~aborted
               /\ msg.content \in {"good", "bad"}
               /\ PutFails(b) \/ PutBlock(p, b, msg.content)
  <1> DEFINE msg == Head(inbox[p])
             b   == BlockOf(msg)
  <1>1. Parses(p, "piece") /\ (PutFails(b) \/ PutBlock(p, b, msg.content))
    BY DEF on_piece, BlockOf
  <1>2. TypeOK
    BY DEF AccountingInv, LimitsInv
  <1>3. /\ inbox[p] \in Seq(Messages) /\ inbox[p] # <<>>
        /\ msg \in Messages /\ msg.kind = "piece"
    BY <1>1, <1>2, ParsedMessage
  <1>4. b \in AllBlocks /\ msg.content \in {"good", "bad"}
    BY <1>3, MessageTypes
  <1>5. b \in requests[p]
    <2>1. 1 \in 1 .. Len(inbox[p]) /\ msg = inbox[p][1]
      BY <1>3
    <2> QED
      BY <1>3, <2>1 DEF AccountingInv, RequestsInOnePlace
  <1>6. b \in blocks_downloading /\ b \notin blocks_downloaded
    BY <1>5 DEF AccountingInv, RequestsCounted, BlocksPartition
  <1> QED
    BY <1>1, <1>4, <1>6 DEF Parses, Running

\* Only a handler that stores a block changes what the counters are about.
storeVars == <<blocks_downloaded, downloadVars, disk, rejected>>

\* Every other step leaves the counters, the disk and the verdicts alone.
LEMMA OnlyPiecesAreStored ==
    ASSUME [Next]_vars
    PROVE  \/ \E p \in Peers : on_piece(p)
           \/ UNCHANGED storeVars /\ (~aborted' => ~aborted)
  <1> USE DEF pickerVars, historyVars, storeVars
  <1>1. CASE UNCHANGED vars
    BY <1>1 DEF vars
  <1>2. CASE main
    BY <1>2 DEF main, picker_checksum_all
  <1>3. ASSUME NEW p \in Peers, Client(p), ~on_piece(p)
        PROVE  UNCHANGED storeVars /\ ~aborted
    <2>1. CASE peer_on_connect(p)
      BY <2>1 DEF peer_on_connect, Running
    <2>2. CASE peer_on_write(p)
      BY <2>2 DEF peer_on_write, Running
    <2>3. CASE peer_on_close(p)
      BY <2>3 DEF peer_on_close, Running
    <2>4. CASE peer_on_read(p)
      BY <2>4 DEF peer_on_read, Running
    <2>5. CASE HandleMessage(p)
      BY <1>3, <2>5 DEF HandleMessage, on_handshake, on_malformed, on_heartbeat,
         on_choke, on_unchoke, on_interested, on_have, on_unwanted_piece, Parses, Running
    <2>6. CASE peer_on_idle(p)
      <3>1. UNCHANGED <<downloadVars, disk, rejected>> /\ ~aborted
        BY <2>6 DEF peer_on_idle, Running
      <3>2. UNCHANGED blocks_downloaded
        BY <2>6 DEF peer_on_idle, StopRequesting, RequestMore, RequestFails, MarkRequested,
           picker_mark_blocks_as_downloading
      <3> QED
        BY <3>1, <3>2
    <2> QED
      BY <1>3, <2>1, <2>2, <2>3, <2>4, <2>5, <2>6 DEF Client
  <1>4. ASSUME NEW p \in Peers, Remote(p)
        PROVE  UNCHANGED storeVars /\ ~aborted
    <2>1. PICK msg : RemoteSends(p, msg)
      BY <1>4 DEF Remote, RemoteHandshake, RemoteBitfield, RemoteHave, RemoteUnchoke,
         RemoteChoke, RemoteNoise, RemoteServe, RemoteMisbehaves
    <2> QED
      BY <2>1 DEF RemoteSends, Running
  <1> QED
    BY <1>1, <1>2, <1>3, <1>4 DEF Next

\* Once all its blocks are here and its checksum is right, the bytes of a piece on
\* disk stay what they are: what peer_put_block writes is a block in flight, and
\* those are not here yet.
THEOREM VerifiedPiecesStay ==
    ASSUME "unsolicited" \notin Faults
    PROVE  Spec => VerifiedPiecesAreFinal
  <1> DEFINE Final == \A x \in AllPieces : Verified(x) =>
                        \A b \in blocks_of_piece(M, x) : disk'[b] = disk[b]
  <1>1. ASSUME AccountingInv, [Next]_vars
        PROVE  Final
    <2>1. CASE UNCHANGED storeVars
      BY <2>1 DEF storeVars
    <2>2. ASSUME NEW p \in Peers, on_piece(p)
          PROVE  Final
      <3>1. PICK b \in AllBlocks, content \in {"good", "bad"} :
              /\ b \notin blocks_downloaded
              /\ PutFails(b) \/ PutBlock(p, b, content)
        BY <1>1, <2>2, StoredBlockIsInFlight
      <3>2. \A c \in AllBlocks \ {b} : disk'[c] = disk[c]
        <4>1. disk \in [AllBlocks -> {"good", "bad"}]
          BY <1>1 DEF AccountingInv, LimitsInv, TypeOK
        <4>2. \/ disk' = disk
              \/ \E v : disk' = [disk EXCEPT ![b] = v]
          BY <3>1 DEF PutFails, PutBlock
        <4> QED
          BY <4>1, <4>2
      <3>3. \A x \in AllPieces : Verified(x) =>
              blocks_of_piece(M, x) \subseteq AllBlocks \ {b}
        BY <1>1, <3>1 DEF Verified, AccountingInv, LimitsInv, TypeOK
      <3> QED
        BY <3>2, <3>3
    <2> QED
      BY <1>1, <2>1, <2>2, OnlyPiecesAreStored
  <1>2. AccountingInv /\ [Next]_vars => [Final]_vars
    BY <1>1
  <1>3. Spec => []AccountingInv
    BY InitAccounting, StepKeepsAccounting, PTL DEF Spec
  <1> QED
    BY <1>2, <1>3, PTL DEF Spec, VerifiedPiecesAreFinal

-----------------------------------------------------------------------------
(* The counters. *)

Counted == { b \in blocks_downloaded : piece_of_block(M, b) \notin rejected }
VerifiedPieces == { x \in AllPieces : Verified(x) }

CountersRight ==
    /\ downloaded_blocks_count = Cardinality(Counted)
    /\ downloaded_bytes = Bytes(Counted)
    /\ downloaded_pieces_count = Cardinality(VerifiedPieces)
    /\ \A x \in VerifiedPieces : \A b \in blocks_of_piece(M, x) : disk[b] = "good"

\* A piece is rolled back when all its blocks are here.
RejectedAreHere == \A x \in rejected : blocks_of_piece(M, x) \subseteq blocks_downloaded

CountersInv ==
    /\ AccountingInv
    /\ RejectedAreHere
    /\ ~aborted => CountersRight

\* CountersRight is CountersAgree, by the names of its parts.
LEMMA CountersByName == CountersAgree <=> (~aborted => CountersRight)
  BY DEF CountersAgree, CountersRight, Counted, VerifiedPieces, Bytes, LastBlock

\* Storing a block: what there is to count before and after (peer_put_block).
LEMMA PutCounts ==
    ASSUME CountersInv, NEW p \in Peers, NEW b \in AllBlocks, NEW content,
           b \notin blocks_downloaded, ~aborted, PutBlock(p, b, content)
    PROVE  LET piece == piece_of_block(M, b)
           IN  /\ piece \in AllPieces
               /\ piece \notin rejected /\ piece \notin VerifiedPieces
               /\ b \in blocks_of_piece(M, piece)
               /\ blocks_downloaded' = blocks_downloaded \cup {b}
               /\ \A x \in AllPieces \ {piece} : /\ Verified(x)' <=> Verified(x)
                                                /\ b \notin blocks_of_piece(M, x)
               /\ Counted \in SUBSET AllBlocks /\ b \notin Counted
               /\ downloaded_blocks_count + 1 = Cardinality(Counted \cup {b})
               /\ downloaded_bytes + request_of_block(M, b).length = Bytes(Counted \cup {b})
  <1> DEFINE piece == piece_of_block(M, b)
  <1>1. piece \in AllPieces /\ b \in blocks_of_piece(M, piece)
    BY BlocksAndPieces, PiecesOfM
  <1>2. /\ blocks_downloaded' = blocks_downloaded \cup {b}
        /\ rejected' \in {rejected, rejected \cup {piece}}
        /\ blocks_downloaded \subseteq AllBlocks
    BY DEF PutBlock, picker_mark_block_as_downloaded, CountersInv, AccountingInv, LimitsInv,
       TypeOK
  <1>3. piece \notin rejected /\ piece \notin VerifiedPieces
    BY <1>1 DEF CountersInv, RejectedAreHere, VerifiedPieces, Verified
  <1>4. \A x \in AllPieces \ {piece} : b \notin blocks_of_piece(M, x)
    BY PiecesOfM
  <1>5. ASSUME NEW x \in AllPieces \ {piece}
        PROVE  Verified(x)' <=> Verified(x)
    BY <1>2, <1>4 DEF Verified
  <1>6. Counted \in SUBSET AllBlocks /\ b \in AllBlocks \ Counted
    BY <1>2 DEF Counted
  <1>7. /\ downloaded_blocks_count = Cardinality(Counted)
        /\ downloaded_bytes = Bytes(Counted)
    BY DEF CountersInv, CountersRight
  <1>8. /\ downloaded_blocks_count + 1 = Cardinality(Counted \cup {b})
        /\ downloaded_bytes + request_of_block(M, b).length = Bytes(Counted \cup {b})
    BY <1>6, <1>7, BytesOfOneMore
  <1> QED
    BY <1>1, <1>2, <1>3, <1>4, <1>5, <1>6, <1>8

\* Adding one to the verified pieces.
LEMMA OneMorePiece ==
    ASSUME NEW x \in AllPieces \ VerifiedPieces
    PROVE  /\ Cardinality(VerifiedPieces \cup {x}) = Cardinality(VerifiedPieces) + 1
           /\ Cardinality(VerifiedPieces) \in Nat
           /\ Cardinality(VerifiedPieces) < PiecesCount
  <1> DEFINE V == VerifiedPieces
  <1>1. /\ V \subseteq AllPieces /\ V \cup {x} \subseteq AllPieces
        /\ IsFiniteSet(AllPieces) /\ Cardinality(AllPieces) = PiecesCount
    BY PiecesOfM DEF VerifiedPieces
  <1>2. IsFiniteSet(V) /\ Cardinality(V) \in Nat
    BY <1>1, FS_Subset, FS_CardinalityType
  <1>3. Cardinality(V \cup {x}) = Cardinality(V) + 1
    BY <1>2, FS_AddElement
  <1>4. Cardinality(V \cup {x}) <= PiecesCount
    BY <1>1, FS_Subset
  <1> QED
    BY <1>2, <1>3, <1>4, PiecesOfM

\* Storing a block keeps the counters right, whatever becomes of its piece.
LEMMA PutKeepsCounters ==
    ASSUME CountersInv, NEW p \in Peers, NEW b \in AllBlocks, NEW content,
           b \notin blocks_downloaded, ~aborted, PutBlock(p, b, content)
    PROVE  RejectedAreHere' /\ CountersRight'
  <1> DEFINE piece == piece_of_block(M, b)
             len == request_of_block(M, b).length
             blocks == downloaded_blocks_count + 1
             bytes == downloaded_bytes + len
             P == blocks_of_piece(M, piece)
             whole == P \subseteq blocks_downloaded'
  <1>1. /\ piece \in AllPieces
        /\ piece \notin rejected /\ piece \notin VerifiedPieces
        /\ b \in P
        /\ blocks_downloaded' = blocks_downloaded \cup {b}
        /\ \A x \in AllPieces \ {piece} : /\ Verified(x)' <=> Verified(x)
                                         /\ b \notin blocks_of_piece(M, x)
        /\ Counted \in SUBSET AllBlocks /\ b \notin Counted
        /\ blocks = Cardinality(Counted \cup {b})
        /\ bytes = Bytes(Counted \cup {b})
    BY PutCounts
  <1>2. /\ CountersRight /\ RejectedAreHere
        /\ disk \in [AllBlocks -> {"good", "bad"}]
        /\ blocks_downloaded \subseteq AllBlocks
        /\ rejected \subseteq AllPieces
    BY DEF CountersInv, AccountingInv, LimitsInv, TypeOK
  <1>3. \A c \in AllBlocks \ {b} : disk'[c] = disk[c]
    BY <1>2 DEF PutBlock
  <1>4. \A x \in VerifiedPieces : \A c \in blocks_of_piece(M, x) : disk'[c] = "good"
    <2> SUFFICES ASSUME NEW x \in VerifiedPieces, NEW c \in blocks_of_piece(M, x)
                 PROVE  disk'[c] = "good"
      OBVIOUS
    <2>1. x \in AllPieces \ {piece} /\ c \in AllBlocks
      BY <1>1, <1>2 DEF VerifiedPieces, Verified
    <2>2. c # b /\ disk[c] = "good"
      BY <1>1, <1>2, <2>1 DEF CountersRight
    <2> QED
      BY <1>3, <2>1, <2>2
  <1> HIDE DEF piece, len, blocks, bytes, P, whole
  <1>5. CASE /\ ~whole
             /\ downloaded_bytes' = bytes
             /\ downloaded_blocks_count' = blocks
             /\ UNCHANGED <<downloaded_pieces_count, rejected>>
    <2>1. Counted' = Counted \cup {b}
      BY <1>1, <1>5 DEF Counted, piece
    <2>2. ~Verified(piece)'
      BY <1>5 DEF Verified, whole, P
    <2>3. VerifiedPieces' = VerifiedPieces
      BY <1>1, <2>2 DEF VerifiedPieces
    <2>4. RejectedAreHere'
      BY <1>1, <1>2, <1>5 DEF RejectedAreHere
    <2> QED
      BY <1>1, <1>2, <1>4, <1>5, <2>1, <2>3, <2>4 DEF CountersRight
  <1>6. CASE /\ whole /\ \A c \in P : disk'[c] = "good"
             /\ downloaded_bytes' = bytes
             /\ downloaded_blocks_count' = blocks
             /\ downloaded_pieces_count' = downloaded_pieces_count + 1
             /\ UNCHANGED rejected
    <2>1. Counted' = Counted \cup {b}
      BY <1>1, <1>6 DEF Counted, piece
    <2>2. Verified(piece)'
      BY <1>1, <1>6 DEF Verified, whole, P
    <2>3. VerifiedPieces' = VerifiedPieces \cup {piece}
      BY <1>1, <2>2 DEF VerifiedPieces
    <2>4. Cardinality(VerifiedPieces') = Cardinality(VerifiedPieces) + 1
      BY <1>1, <2>3, OneMorePiece
    <2>5. RejectedAreHere'
      BY <1>1, <1>2, <1>6 DEF RejectedAreHere
    <2>6. \A x \in VerifiedPieces' : \A c \in blocks_of_piece(M, x) : disk'[c] = "good"
      BY <1>4, <1>6, <2>3 DEF P
    <2> QED
      BY <1>1, <1>2, <1>6, <2>1, <2>4, <2>5, <2>6 DEF CountersRight
  <1>7. CASE /\ whole
             /\ downloaded_bytes' = bytes - metainfo_piece_length(M, piece)
             /\ downloaded_blocks_count' = blocks - metainfo_block_count_for_piece(M, piece)
             /\ rejected' = rejected \cup {piece}
             /\ UNCHANGED downloaded_pieces_count
    <2> DEFINE S == Counted \cup {b}
    <2>1. S \in SUBSET AllBlocks /\ P \subseteq S
      <3>1. \A c \in P : piece_of_block(M, c) = piece
        BY <1>1, PiecesOfM DEF P
      <3> QED
        BY <1>1, <1>7, <3>1 DEF Counted, whole
    <2>2. Counted' = S \ P
      <3>1. \A c \in blocks_downloaded' : piece_of_block(M, c) = piece <=> c \in P
        BY <1>1, <1>2, PiecesOfM DEF P
      <3>2. \A c : c \in Counted' <=> c \in S /\ c \notin P
        BY <1>1, <1>7, <3>1 DEF Counted, piece
      <3> QED
        BY <3>2
    <2>3. /\ Cardinality(Counted') = blocks - metainfo_block_count_for_piece(M, piece)
          /\ Bytes(Counted') = bytes - metainfo_piece_length(M, piece)
      BY <1>1, <2>1, <2>2, BytesWithoutPiece DEF P
    <2>4. VerifiedPieces' = VerifiedPieces
      BY <1>1, <1>7 DEF VerifiedPieces, Verified
    <2>5. RejectedAreHere'
      BY <1>1, <1>2, <1>7 DEF RejectedAreHere, whole, P
    <2>6. Bytes(Counted)' = Bytes(Counted')
      BY DEF Bytes, LastBlock
    <2> QED
      BY <1>1, <1>2, <1>4, <1>7, <2>3, <2>4, <2>5, <2>6 DEF CountersRight
  <1> QED
    BY <1>5, <1>6, <1>7
       DEF PutBlock, Verifies, picker_have_all_blocks_for_piece, whole, P, piece, bytes,
           blocks, len

\* CountersInv is inductive when no remote sends what it was not asked for.
LEMMA StepKeepsCounters ==
    ASSUME "unsolicited" \notin Faults
    PROVE  CountersInv /\ [Next]_vars => CountersInv'
  <1> SUFFICES ASSUME CountersInv, [Next]_vars
               PROVE  RejectedAreHere' /\ (~aborted' => CountersRight')
    BY StepKeepsAccounting DEF CountersInv
  <1>1. CASE UNCHANGED storeVars /\ (~aborted' => ~aborted)
    BY <1>1 DEF CountersInv, RejectedAreHere, CountersRight, Counted, VerifiedPieces, Verified,
       Bytes, storeVars, downloadVars
  <1>2. ASSUME NEW p \in Peers, on_piece(p)
        PROVE  RejectedAreHere' /\ (~aborted' => CountersRight')
    <2>1. PICK b \in AllBlocks, content \in {"good", "bad"} :
            /\ b \notin blocks_downloaded /\ ~aborted
            /\ PutFails(b) \/ PutBlock(p, b, content)
      BY <1>2, StoredBlockIsInFlight DEF CountersInv
    <2>2. CASE PutBlock(p, b, content)
      BY <2>1, <2>2, PutKeepsCounters
    <2>3. CASE PutFails(b)
      <3>1. /\ UNCHANGED <<blocks_downloaded, downloadVars, rejected>>
            /\ disk' \in {disk, [disk EXCEPT ![b] = "bad"]}
        BY <2>3 DEF PutFails, pickerVars, historyVars
      <3>2. /\ disk \in [AllBlocks -> {"good", "bad"}]
            /\ blocks_downloaded \subseteq AllBlocks
        BY DEF CountersInv, AccountingInv, LimitsInv, TypeOK
      <3>3. VerifiedPieces' = VerifiedPieces /\ Counted' = Counted
        BY <3>1 DEF VerifiedPieces, Verified, Counted
      <3>4. \A x \in VerifiedPieces : \A c \in blocks_of_piece(M, x) : disk'[c] = disk[c]
        BY <2>1, <3>1, <3>2 DEF VerifiedPieces, Verified
      <3> QED
        BY <2>1, <3>1, <3>3, <3>4
           DEF CountersInv, RejectedAreHere, CountersRight, Bytes, downloadVars
    <2> QED
      BY <2>1, <2>2, <2>3
  <1> QED
    BY <1>1, <1>2, OnlyPiecesAreStored

\* Nothing is stored, and nothing is counted.
LEMMA InitCounters == Init => CountersInv
  <1> SUFFICES ASSUME Init PROVE RejectedAreHere /\ CountersRight
    BY InitAccounting DEF CountersInv
  <1>1. /\ blocks_downloaded = {} /\ rejected = {}
        /\ downloaded_blocks_count = 0 /\ downloaded_bytes = 0
        /\ downloaded_pieces_count = 0
    BY DEF Init
  <1>2. Counted = {}
    BY <1>1 DEF Counted
  <1>3. VerifiedPieces = {}
    <2>1. \A x \in AllPieces : blocks_of_piece(M, x) # {}
      BY PiecesOfM, FS_EmptySet
    <2> QED
      BY <1>1, <2>1 DEF VerifiedPieces, Verified
  <1>4. Bytes({}) = 0
    BY FS_EmptySet, BlockLengths DEF Bytes
  <1> QED
    BY <1>1, <1>2, <1>3, <1>4, FS_EmptySet DEF RejectedAreHere, CountersRight

\* As long as remotes only answer what they were asked, the counters of the download
\* are those of the picker, rolled back pieces excluded, and a piece counted as
\* downloaded is right on disk (peer_put_block, download_checksum_piece).
THEOREM CountersAreRight ==
    ASSUME "unsolicited" \notin Faults
    PROVE  Spec => []CountersAgree
  <1>1. Spec => []CountersInv
    BY InitCounters, StepKeepsCounters, PTL DEF Spec
  <1>2. CountersInv => CountersAgree
    BY CountersByName DEF CountersInv
  <1> QED
    BY <1>1, <1>2, PTL
-----------------------------------------------------------------------------
(* Write contexts. *)

\* Heartbeats that will be answered.
Heartbeats(box) == { i \in 1 .. Len(box) : box[i].kind = "heartbeat" }

\* Handshake and interested.
Greetings(p) == IF connection[p] \in {"init", "connecting"} THEN 0 ELSE 2

ContextsCounted ==
    \A p \in Peers :
        /\ control_writes[p] + Cardinality(Heartbeats(inbox[p]))
             <= Greetings(p) + remote[p].noise
        /\ remote[p].noise <= MaxNoise

\* There are finitely many heartbeats in an inbox; a message taken from its front
\* takes itself away, and one that arrives adds itself at most.
LEMMA CountHeartbeats ==
    ASSUME NEW T, NEW box \in Seq(T)
    PROVE  /\ Cardinality(Heartbeats(box)) \in Nat
           /\ box # <<>> => Cardinality(Heartbeats(box)) =
                              Cardinality(Heartbeats(Tail(box)))
                                + (IF Head(box).kind = "heartbeat" THEN 1 ELSE 0)
           /\ \A msg \in T : Cardinality(Heartbeats(Append(box, msg))) <=
                              Cardinality(Heartbeats(box))
                                + (IF msg.kind = "heartbeat" THEN 1 ELSE 0)
  <1>1. ASSUME NEW b \in Seq(T)
        PROVE  IsFiniteSet(Heartbeats(b)) /\ Cardinality(Heartbeats(b)) \in Nat
    <2>1. Len(b) \in Nat /\ Heartbeats(b) \subseteq 1 .. Len(b)
      BY DEF Heartbeats
    <2>2. IsFiniteSet(1 .. Len(b))
      BY <2>1, FS_Interval
    <2> QED
      BY <2>1, <2>2, FS_Subset, FS_CardinalityType
  <1>2. ASSUME box # <<>>
        PROVE  Cardinality(Heartbeats(box)) =
                 Cardinality(Heartbeats(Tail(box)))
                   + (IF Head(box).kind = "heartbeat" THEN 1 ELSE 0)
    <2> DEFINE H == Heartbeats(box)
               R == Heartbeats(Tail(box))
               f == [i \in R |-> i + 1]
    <2>1. /\ Tail(box) \in Seq(T)
          /\ Len(box) \in Nat \ {0}
          /\ Len(Tail(box)) = Len(box) - 1
          /\ \A i \in 1 .. Len(Tail(box)) : Tail(box)[i] = box[i + 1]
          /\ Head(box) = box[1]
      BY <1>2
    <2>2. \A i \in 1 .. Len(box) : i = 1 \/ (i - 1 \in 1 .. Len(Tail(box)) /\ i = (i - 1) + 1)
      BY <2>1
    <2>3. R \subseteq Int /\ \A i \in R : i + 1 \in H \ {1}
      BY <2>1 DEF Heartbeats
    <2>4. \A i \in H \ {1} : i \in Int /\ i - 1 \in R /\ i = (i - 1) + 1
      BY <2>1, <2>2 DEF Heartbeats
    <2> HIDE DEF H, R
    <2>5. f \in Bijection(R, H \ {1})
      <3>1. f \in [R -> H \ {1}]
        BY <2>3
      <3>2. \A i, j \in R : f[i] = f[j] => i = j
        BY <2>3
      <3>3. \A i \in H \ {1} : \E j \in R : f[j] = i
        BY <2>4
      <3> HIDE DEF f
      <3>4. f \in Injection(R, H \ {1})
        BY <3>1, <3>2 DEF Injection, IsInjective
      <3>5. f \in Surjection(R, H \ {1})
        BY <3>1, <3>3 DEF Surjection
      <3> QED
        BY <3>4, <3>5 DEF Bijection
    <2>6. /\ IsFiniteSet(R) /\ IsFiniteSet(H)
          /\ Cardinality(R) \in Nat /\ Cardinality(H) \in Nat
      BY <1>1, <2>1 DEF R, H
    <2>7. Cardinality(H \ {1}) = Cardinality(R)
      BY <2>5, <2>6, FS_Bijection DEF ExistsBijection
    <2>8. Cardinality(H \ {1}) = IF 1 \in H THEN Cardinality(H) - 1 ELSE Cardinality(H)
      BY <2>6, FS_RemoveElement
    <2>9. 1 \in H <=> Head(box).kind = "heartbeat"
      BY <2>1 DEF H, Heartbeats
    <2> QED
      BY <2>6, <2>7, <2>8, <2>9 DEF H, R
  <1>3. ASSUME NEW msg \in T
        PROVE  Cardinality(Heartbeats(Append(box, msg))) <=
                 Cardinality(Heartbeats(box))
                   + (IF msg.kind = "heartbeat" THEN 1 ELSE 0)
    <2> DEFINE H == Heartbeats(box)
               n == Len(box)
               new == Append(box, msg)
    <2>1. /\ n \in Nat /\ Len(new) = n + 1
          /\ \A i \in 1 .. n : new[i] = box[i]
          /\ new[n + 1] = msg
      OBVIOUS
    <2>2. \A i \in 1 .. n + 1 : i \in 1 .. n \/ i = n + 1
      BY <2>1
    <2>3. IsFiniteSet(H) /\ Cardinality(H) \in Nat
      BY <1>1
    <2>4. CASE msg.kind = "heartbeat"
      <3>1. Heartbeats(new) \subseteq H \cup {n + 1}
        BY <2>1, <2>2 DEF Heartbeats
      <3>2. /\ IsFiniteSet(H \cup {n + 1})
            /\ Cardinality(H \cup {n + 1}) <= Cardinality(H) + 1
        <4> HIDE DEF H, n
        <4>1. /\ IsFiniteSet(H \cup {n + 1})
              /\ \/ Cardinality(H \cup {n + 1}) = Cardinality(H)
                 \/ Cardinality(H \cup {n + 1}) = Cardinality(H) + 1
          BY <2>3, FS_AddElement
        <4> QED
          BY <2>3, <4>1
      <3>3. Cardinality(Heartbeats(new)) <= Cardinality(H \cup {n + 1})
        BY <3>1, <3>2, FS_Subset
      <3>4. /\ Cardinality(Heartbeats(new)) \in Nat
            /\ Cardinality(H \cup {n + 1}) \in Nat
        <4>1. new \in Seq(T)
          OBVIOUS
        <4> QED
          BY <1>1, <3>2, <4>1, FS_CardinalityType
      <3> HIDE DEF H, n, new
      <3> QED
        BY <2>3, <2>4, <3>2, <3>3, <3>4 DEF H, new
    <2>5. CASE msg.kind # "heartbeat"
      <3>1. Heartbeats(new) \subseteq H
        BY <2>1, <2>2, <2>5 DEF Heartbeats
      <3>2. Cardinality(Heartbeats(new)) <= Cardinality(H)
        BY <2>3, <3>1, FS_Subset
      <3> HIDE DEF H, new
      <3> QED
        BY <2>3, <2>5, <3>2 DEF H, new
    <2> QED
      BY <2>4, <2>5
  <1> QED
    BY <1>1, <1>2, <1>3

\* Every step keeps ContextsCounted.
LEMMA StepKeepsContexts ==
    TypeOK /\ ConnectionInv /\ ContextsCounted /\ [Next]_vars => ContextsCounted'
  <1> SUFFICES ASSUME TypeOK, ConnectionInv, ContextsCounted, [Next]_vars
               PROVE  ContextsCounted'
    OBVIOUS
  <1>1. /\ control_writes \in [Peers -> Nat]
        /\ inbox \in [Peers -> Seq(Messages)]
        /\ connection \in [Peers -> {"init", "connecting", "open", "closing", "closed"}]
        /\ \A p \in Peers : remote[p].noise \in Nat
        /\ \A p \in Peers : Cardinality(Heartbeats(inbox[p])) \in Nat
        /\ MaxNoise \in Nat
    BY CountHeartbeats, BoundsAssumption DEF TypeOK
  <1>2. ASSUME NEW p \in Peers,
               \A q \in Peers \ {p} :
                 /\ control_writes'[q] = control_writes[q] /\ inbox'[q] = inbox[q]
                 /\ connection'[q] = connection[q] /\ remote'[q] = remote[q],
               control_writes'[p] + Cardinality(Heartbeats(inbox'[p]))
                 <= Greetings(p)' + remote'[p].noise,
               remote'[p].noise <= MaxNoise
        PROVE  ContextsCounted'
    BY <1>2 DEF ContextsCounted, Greetings
  <1>3. ASSUME NEW p \in Peers, NEW c \in {"open", "closing", "closed"},
               connection' \in {connection, [connection EXCEPT ![p] = c]}
        PROVE  /\ \A q \in Peers \ {p} : connection'[q] = connection[q]
               /\ Greetings(p) <= Greetings(p)'
               /\ Greetings(p) \in Nat /\ Greetings(p)' \in Nat
    BY <1>1, <1>3 DEF Greetings
  <1>4. CASE UNCHANGED vars
    BY <1>4 DEF vars, writeVars, remoteVars, ContextsCounted, Greetings
  <1>5. CASE main
    <2>1. /\ UNCHANGED <<control_writes, inbox, remote>>
          /\ \A p \in Peers : connection[p] = "init"
          /\ \A p \in Peers : connection'[p] \in {"init", "connecting"}
      BY <1>5 DEF main, writeVars, remoteVars, ConnectionInv
    <2> QED
      BY <2>1 DEF ContextsCounted, Greetings
  <1>6. ASSUME NEW p \in Peers, NEW c \in {"open", "closing", "closed"},
               connection' \in {connection, [connection EXCEPT ![p] = c]},
               UNCHANGED <<inbox, remote>>,
               control_writes' \in {control_writes, [control_writes EXCEPT ![p] = @ - 1]}
        PROVE  ContextsCounted'
    <2>1. /\ \A q \in Peers \ {p} : connection'[q] = connection[q]
          /\ Greetings(p) <= Greetings(p)'
          /\ Greetings(p) \in Nat /\ Greetings(p)' \in Nat
      BY <1>3, <1>6
    <2>2. /\ \A q \in Peers \ {p} : control_writes'[q] = control_writes[q]
          /\ control_writes'[p] <= control_writes[p]
          /\ control_writes'[p] \in Int
      BY <1>1, <1>6
    <2>3. control_writes'[p] + Cardinality(Heartbeats(inbox'[p]))
            <= Greetings(p)' + remote'[p].noise
      <3> DEFINE h == Cardinality(Heartbeats(inbox[p]))
                 g == Greetings(p)
                 gn == Greetings(p)'
                 w == control_writes[p]
                 wn == control_writes'[p]
                 k == remote[p].noise
      <3>1. w + h <= g + k
        BY DEF ContextsCounted
      <3>2. w \in Nat /\ h \in Nat /\ k \in Nat
        BY <1>1
      <3>3. inbox'[p] = inbox[p] /\ remote'[p].noise = k
        BY <1>6
      <3>4. g <= gn /\ g \in Nat /\ gn \in Nat /\ wn <= w /\ wn \in Int
        BY <2>1, <2>2
      <3> HIDE DEF h, g, gn, w, wn, k
      <3>5. wn + h <= gn + k
        BY <3>1, <3>2, <3>4
      <3> QED
        BY <3>3, <3>5 DEF h, gn, wn, k
    <2> QED
      BY <1>2, <1>6, <2>1, <2>2, <2>3 DEF ContextsCounted
  <1>7. ASSUME NEW p \in Peers, Client(p)
        PROVE  ContextsCounted'
    <2>1. CASE peer_on_connect(p)
      <3>1. /\ UNCHANGED <<inbox, remote>> /\ connection[p] = "connecting"
            /\ connection' \in {[connection EXCEPT ![p] = "open"],
                                [connection EXCEPT ![p] = "closing"]}
            /\ \/ control_writes' = control_writes
               \/ \E n \in {0, 1, 2} : control_writes' = [control_writes EXCEPT ![p] = n]
        BY <2>1 DEF peer_on_connect, peer_close, remoteVars
      <3>2. control_writes[p] + Cardinality(Heartbeats(inbox[p])) <= remote[p].noise
        BY <1>1, <3>1 DEF ContextsCounted, Greetings
      <3>3. Greetings(p)' = 2 /\ \A q \in Peers \ {p} : connection'[q] = connection[q]
        BY <1>1, <3>1 DEF Greetings
      <3>4. /\ \A q \in Peers \ {p} : control_writes'[q] = control_writes[q]
            /\ control_writes'[p] <= control_writes[p] + 2
            /\ control_writes'[p] \in Nat
        BY <1>1, <3>1
      <3>5. control_writes'[p] + Cardinality(Heartbeats(inbox'[p])) <= 2 + remote'[p].noise
        BY <1>1, <3>1, <3>2, <3>4
      <3> QED
        BY <1>2, <3>1, <3>3, <3>4, <3>5 DEF ContextsCounted
    <2>2. CASE peer_on_write(p)
      <3>1. connection' \in {connection, [connection EXCEPT ![p] = "closing"]}
        BY <2>2 DEF peer_on_write, WriteStatus, peer_close
      <3> QED
        BY <1>6, <2>2, <3>1 DEF peer_on_write
    <2>3. CASE peer_on_close(p)
      BY <1>6, <2>3 DEF peer_on_close, writeVars, remoteVars
    <2>4. CASE peer_on_idle(p)
      <3>1. connection' \in {connection, [connection EXCEPT ![p] = "closing"]}
        BY <2>4 DEF peer_on_idle, StopRequesting, RequestMore, RequestFails, peer_close
      <3> QED
        BY <1>6, <2>4, <3>1 DEF peer_on_idle, remoteVars
    <2>5. CASE peer_on_read(p)
      <3>1. connection' \in {connection, [connection EXCEPT ![p] = "closing"]}
        BY <2>5 DEF peer_on_read, peer_close
      <3> QED
        BY <1>6, <2>5, <3>1 DEF peer_on_read, writeVars, remoteVars
    <2>6. CASE HandleMessage(p)
      <3>1. PICK kind : Parses(p, kind)
        BY <2>6 DEF HandleMessage, on_handshake, on_malformed, on_heartbeat, on_choke,
           on_unchoke, on_interested, on_have, on_unwanted_piece, on_piece
      <3>2. inbox[p] \in Seq(Messages) /\ inbox[p] # <<>>
        BY <3>1, ParsedMessage
      <3>3. /\ inbox' = [inbox EXCEPT ![p] = Tail(inbox[p])] /\ remote' = remote
            /\ connection' \in {connection, [connection EXCEPT ![p] = "closing"]}
        BY <2>6, HandlersReadOnePeer
           DEF HandleMessage, on_handshake, on_malformed, on_heartbeat, on_choke,
           on_unchoke, on_interested, on_have, on_unwanted_piece, on_piece, Consume
      <3>4. /\ inbox'[p] = Tail(inbox[p])
            /\ \A q \in Peers \ {p} : inbox'[q] = inbox[q] /\ connection'[q] = connection[q]
            /\ Greetings(p) <= Greetings(p)'
            /\ Greetings(p) \in Nat /\ Greetings(p)' \in Nat
        BY <1>1, <1>3, <3>3
      <3>5. /\ Cardinality(Heartbeats(Tail(inbox[p]))) \in Nat
            /\ Cardinality(Heartbeats(inbox[p])) =
                 Cardinality(Heartbeats(Tail(inbox[p])))
                   + (IF Head(inbox[p]).kind = "heartbeat" THEN 1 ELSE 0)
        <4>1. Tail(inbox[p]) \in Seq(Messages)
          BY <3>2
        <4> QED
          BY <3>2, <4>1, CountHeartbeats
      <3>6. \/ control_writes' = control_writes
            \/ /\ Head(inbox[p]).kind = "heartbeat"
               /\ control_writes' = [control_writes EXCEPT ![p] = @ + 1]
        BY <2>6 DEF HandleMessage, on_handshake, on_malformed, on_heartbeat, on_choke,
           on_unchoke, on_interested, on_have, on_unwanted_piece, on_piece, writeVars, Parses
      <3>7. \A q \in Peers \ {p} : control_writes'[q] = control_writes[q]
        BY <1>1, <3>6
      <3>8. control_writes'[p] + Cardinality(Heartbeats(Tail(inbox[p])))
              <= control_writes[p] + Cardinality(Heartbeats(inbox[p]))
        BY <1>1, <3>5, <3>6
      <3>9. control_writes'[p] \in Nat
        BY <1>1, <3>6
      <3>10. control_writes'[p] + Cardinality(Heartbeats(inbox'[p]))
               <= Greetings(p)' + remote'[p].noise
        <4>1. /\ control_writes[p] + Cardinality(Heartbeats(inbox[p]))
                   <= Greetings(p) + remote[p].noise
              /\ inbox'[p] = Tail(inbox[p])
              /\ remote'[p].noise = remote[p].noise
          BY <3>3, <3>4 DEF ContextsCounted
        <4>2. /\ control_writes[p] \in Nat /\ remote[p].noise \in Nat
              /\ Cardinality(Heartbeats(inbox[p])) \in Nat
          BY <1>1
        <4> QED
          BY <3>4, <3>5, <3>8, <3>9, <4>1, <4>2
      <3> QED
        BY <1>2, <3>3, <3>4, <3>7, <3>10 DEF ContextsCounted
    <2> QED
      BY <1>7, <2>1, <2>2, <2>3, <2>4, <2>5, <2>6 DEF Client
  <1>8. ASSUME NEW p \in Peers, Remote(p)
        PROVE  ContextsCounted'
    <2>1. PICK msg \in Messages :
            /\ RemoteSends(p, msg)
            /\ \/ msg.kind # "heartbeat" /\ remote'[p].noise = remote[p].noise
               \/ remote'[p].noise = remote[p].noise + 1 /\ remote[p].noise < MaxNoise
      <3>1. RemoteHas[p] \in SUBSET AllPieces /\ asked[p] \subseteq AllBlocks
        BY RemoteHasAssumption DEF TypeOK
      <3>2. Contents \subseteq {"good", "bad"}
        BY DEF Contents
      <3>3. \A b \in AllBlocks, content \in Contents :
              Answer(b, content) \in Messages /\ Answer(b, content).kind # "heartbeat"
        BY <3>2 DEF Messages, Answer
      <3>4. \A piece \in AllPieces : [kind |-> "have", piece |-> piece] \in Messages
        BY DEF Messages
      <3>5. \A S \in SUBSET AllPieces : [kind |-> "bitfield", pieces |-> S] \in Messages
        BY DEF Messages
      <3>6. \A kind \in {"handshake", "malformed", "heartbeat", "choke", "unchoke",
                         "interested", "uninterested", "request", "cancel", "eof"} :
              [kind |-> kind] \in Messages
        BY DEF Messages
      <3>7. remote \in [Peers -> [said : {"nothing", "hello", "more", "goodbye"},
                                  announced : SUBSET AllPieces, choking : BOOLEAN,
                                  chokes : Nat, noise : Nat]]
        BY DEF TypeOK
      <3>8. CASE RemoteHandshake(p)
        BY <3>6, <3>7, <3>8 DEF RemoteHandshake
      <3>9. CASE RemoteBitfield(p)
        BY <3>1, <3>5, <3>7, <3>9 DEF RemoteBitfield
      <3>10. CASE RemoteHave(p)
        BY <3>1, <3>4, <3>7, <3>10 DEF RemoteHave
      <3>11. CASE RemoteUnchoke(p)
        BY <3>6, <3>7, <3>11 DEF RemoteUnchoke
      <3>12. CASE RemoteChoke(p)
        BY <3>6, <3>7, <3>12 DEF RemoteChoke
      <3>13. CASE RemoteNoise(p)
        BY <3>6, <3>7, <3>13 DEF RemoteNoise
      <3>14. CASE RemoteServe(p)
        BY <3>1, <3>3, <3>14 DEF RemoteServe
      <3>15. CASE RemoteMisbehaves(p)
        BY <3>3, <3>6, <3>7, <3>15 DEF RemoteMisbehaves
      <3> QED
        BY <1>8, <3>8, <3>9, <3>10, <3>11, <3>12, <3>13, <3>14, <3>15 DEF Remote
    <2>2. /\ inbox' = [inbox EXCEPT ![p] = Append(inbox[p], msg)]
          /\ UNCHANGED <<connection, control_writes>>
      BY <2>1 DEF RemoteSends, writeVars
    <2>3. \A q \in Peers \ {p} : remote'[q] = remote[q]
      <3>1. remote \in [Peers -> [said : {"nothing", "hello", "more", "goodbye"},
                                  announced : SUBSET AllPieces, choking : BOOLEAN,
                                  chokes : Nat, noise : Nat]]
        BY DEF TypeOK
      <3> QED
        BY <1>8, <3>1 DEF Remote, RemoteHandshake, RemoteBitfield, RemoteHave, RemoteUnchoke,
           RemoteChoke, RemoteNoise, RemoteServe, RemoteMisbehaves
    <2>4. /\ inbox'[p] = Append(inbox[p], msg)
          /\ \A q \in Peers \ {p} : inbox'[q] = inbox[q]
      BY <1>1, <2>2
    <2>5. /\ Cardinality(Heartbeats(Append(inbox[p], msg))) \in Nat
          /\ Cardinality(Heartbeats(Append(inbox[p], msg))) <=
               Cardinality(Heartbeats(inbox[p])) + (IF msg.kind = "heartbeat" THEN 1 ELSE 0)
      <3>1. inbox[p] \in Seq(Messages) /\ Append(inbox[p], msg) \in Seq(Messages)
        BY <1>1
      <3> QED
        BY <3>1, CountHeartbeats
    <2>6. Greetings(p)' = Greetings(p) /\ Greetings(p) \in Nat
      BY <2>2 DEF Greetings
    <2>7. control_writes'[p] + Cardinality(Heartbeats(inbox'[p]))
            <= Greetings(p)' + remote'[p].noise
      <3> DEFINE h == Cardinality(Heartbeats(inbox[p]))
                 k == Cardinality(Heartbeats(Append(inbox[p], msg)))
                 n == remote[p].noise
                 m == remote'[p].noise
                 c == control_writes[p]
                 g == Greetings(p)
      <3>1. c + h <= g + n
        BY DEF ContextsCounted
      <3>2. c \in Nat /\ h \in Nat /\ g \in Nat /\ n \in Nat /\ k \in Nat /\ m \in Nat
        <4>1. c \in Nat /\ h \in Nat /\ n \in Nat
          BY <1>1
        <4>2. g \in Nat /\ k \in Nat
          BY <2>5, <2>6
        <4>3. m \in Nat
          <5>1. m = n \/ m = n + 1
            BY <2>1
          <5> HIDE DEF n, m
          <5> QED
            BY <4>1, <5>1
        <4> HIDE DEF c, h, g, n, k, m
        <4> QED
          BY <4>1, <4>2, <4>3
      <3>3. k <= h + (m - n)
        <4>1. (k <= h /\ n <= m) \/ (k <= h + 1 /\ m = n + 1)
          <5>1. CASE msg.kind = "heartbeat"
            <6>1. k <= h + 1
              BY <2>5, <5>1
            <6>2. m = n + 1
              BY <2>1, <5>1
            <6> QED
              BY <6>1, <6>2
          <5>2. CASE msg.kind # "heartbeat"
            <6>1. k <= h + 0
              BY <2>5, <5>2
            <6>2. m = n \/ m = n + 1
              BY <2>1
            <6> HIDE DEF h, k, n, m
            <6> QED
              BY <3>2, <6>1, <6>2
          <5> QED
            BY <5>1, <5>2
        <4> HIDE DEF h, k, n, m
        <4> QED
          BY <3>2, <4>1
      <3>4. control_writes'[p] = c /\ inbox'[p] = Append(inbox[p], msg) /\ Greetings(p)' = g
        BY <2>2, <2>4, <2>6
      <3>5. c + k <= g + m
        <4> HIDE DEF h, k, n, m, c, g
        <4> QED
          BY <3>1, <3>2, <3>3
      <3> QED
        BY <3>4, <3>5
    <2>8. remote'[p].noise <= MaxNoise
      BY <1>1, <2>1 DEF ContextsCounted
    <2> QED
      BY <1>2, <2>2, <2>3, <2>4, <2>7, <2>8
  <1> QED
    BY <1>4, <1>5, <1>7, <1>8 DEF Next
-----------------------------------------------------------------------------
(***************************************************************************)
(* No assert() fails.  The file is a whole number of blocks (the run       *)
(* MCDownload_short_last_block shows what happens otherwise), the pool of  *)
(* write contexts holds what can be in flight (it has                      *)
(* PEER_MAX_IN_FLIGHT_REQUESTS + 20 chunks, peer_make), reads and writes   *)
(* of the file succeed, and remotes send no block they were not asked for. *)
(***************************************************************************)
WholeBlocks == Length % BlockLength = 0
EnoughContexts == WriteCtxs >= MaxInFlight + 2 + MaxNoise

AssertInv ==
    /\ CountersInv /\ ConnectionInv /\ ContextsCounted
    /\ ~aborted

\* Bytes are counted upwards from zero, and at most BlockLength for each block.
LEMMA BytesAreCounted ==
    ASSUME NEW S \in SUBSET AllBlocks
    PROVE  /\ Cardinality(S) \in Nat
           /\ Bytes(S) \in Nat
           /\ Bytes(S) <= BlockLength * Cardinality(S)
  <1>1. IsFiniteSet(S) /\ Cardinality(S) \in Nat
    BY BlocksAndPieces, FS_Subset, FS_CardinalityType
  <1>2. BlockLength \in Nat \ {0} /\ BlockLength * Cardinality(S) \in Nat
    BY <1>1, BlockLengths
  <1>3. CASE LastBlock \in S
    <2> DEFINE len == request_of_block(M, LastBlock).length
    <2>1. len \in 1 .. BlockLength
      BY <1>3, BlockLengths
    <2>2. Cardinality(S) >= 1
      BY <1>1, <1>3, FS_EmptySet
    <2>3. BlockLength * Cardinality(S) >= BlockLength
      BY <1>1, <1>2, <2>2
    <2>4. Bytes(S) = BlockLength * Cardinality(S) - (BlockLength - len)
      BY <1>3 DEF Bytes
    <2> HIDE DEF len
    <2> QED
      BY <1>1, <1>2, <2>1, <2>3, <2>4
  <1>4. CASE LastBlock \notin S
    <2>1. Bytes(S) = BlockLength * Cardinality(S) - 0
      BY <1>4 DEF Bytes
    <2> QED
      BY <1>1, <1>2, <2>1
  <1> QED
    BY <1>3, <1>4

\* With whole blocks every block is a full one, and none ends past the file.
LEMMA BlocksAreWhole ==
    ASSUME WholeBlocks
    PROVE  /\ \A b \in AllBlocks : put_offset(b) + BlockLength <= Length
           /\ \A S \in SUBSET AllBlocks : /\ Cardinality(S) <= M.blocks_count
                                         /\ Bytes(S) <= Length
  <1> DEFINE q == Length \div BlockLength
             c == M.blocks_count
  <1>1. /\ BlockLength \in Nat \ {0} /\ Length \in Nat \ {0}
        /\ c \in Nat /\ c * BlockLength < Length + BlockLength
    <2>1. M.length = Length
      BY DEF M, metainfo_init
    <2> QED
      BY <2>1, BlockLengths, LengthAssumption, MIsWellFormed, BlocksCount
  <1>2. q \in Int /\ Length = BlockLength * q
    <2>1. Length = BlockLength * q + (Length % BlockLength) /\ q \in Int
      BY <1>1, Division
    <2> QED
      BY <1>1, <2>1 DEF WholeBlocks
  <1> HIDE DEF q
  <1>3. c <= q
    <2> SUFFICES ASSUME c >= q + 1 PROVE FALSE
      BY <1>1, <1>2
    <2>1. c * BlockLength >= (q + 1) * BlockLength
      BY <1>1, <1>2
    <2>2. (q + 1) * BlockLength = BlockLength * q + BlockLength
      BY <1>1, <1>2
    <2>3. c * BlockLength \in Int
      BY <1>1
    <2> QED
      BY <1>1, <1>2, <2>1, <2>2, <2>3
  <1>4. BlockLength * c <= Length
    <2>1. BlockLength * c <= BlockLength * q
      BY <1>1, <1>2, <1>3
    <2> QED
      BY <1>2, <2>1
  <1>5. ASSUME NEW b \in AllBlocks
        PROVE  put_offset(b) + BlockLength <= Length
    <2>1. b \in Nat /\ b + 1 <= c
      BY <1>1 DEF AllBlocks, Blocks
    <2>2. BlockLength * (b + 1) <= BlockLength * c
      BY <1>1, <2>1
    <2>3. BlockLength * (b + 1) = b * BlockLength + BlockLength
      BY <1>1, <2>1
    <2>4. b * BlockLength \in Int /\ BlockLength * c \in Int
      BY <1>1, <2>1
    <2> QED
      BY <1>1, <1>4, <2>2, <2>3, <2>4 DEF put_offset
  <1>6. ASSUME NEW S \in SUBSET AllBlocks
        PROVE  Cardinality(S) <= c /\ Bytes(S) <= Length
    <2>1. IsFiniteSet(AllBlocks) /\ Cardinality(AllBlocks) = c
      <3>1. AllBlocks = 0 .. c - 1
        BY DEF AllBlocks, Blocks
      <3> HIDE DEF c
      <3>2. /\ IsFiniteSet(0 .. c - 1)
            /\ Cardinality(0 .. c - 1) = IF 0 > c - 1 THEN 0 ELSE (c - 1) - 0 + 1
        BY <1>1, FS_Interval
      <3>3. Cardinality(0 .. c - 1) = c
        BY <1>1, <3>2
      <3> QED
        BY <3>1, <3>2, <3>3
    <2>2. Cardinality(S) <= c /\ Cardinality(S) \in Nat
      BY <2>1, FS_Subset, FS_CardinalityType
    <2>3. BlockLength * Cardinality(S) <= BlockLength * c
      BY <1>1, <2>2
    <2>4. BlockLength * Cardinality(S) \in Int /\ BlockLength * c \in Int
      BY <1>1, <2>2
    <2>5. Bytes(S) \in Int /\ Bytes(S) <= BlockLength * Cardinality(S)
      BY BytesAreCounted
    <2> QED
      BY <1>1, <1>4, <2>2, <2>3, <2>4, <2>5
  <1> QED
    BY <1>5, <1>6

\* Storing a block fails none of the assertions of peer_put_block.
LEMMA PutIsSafe ==
    ASSUME WholeBlocks, CountersInv, NEW p \in Peers, NEW b \in AllBlocks, NEW content,
           b \notin blocks_downloaded, ~aborted, PutBlock(p, b, content)
    PROVE  ~aborted'
  <1> DEFINE piece == piece_of_block(M, b)
             S == Counted \cup {b}
             P == blocks_of_piece(M, piece)
             bytes == downloaded_bytes + request_of_block(M, b).length
             blocks == downloaded_blocks_count + 1
             stored == /\ put_offset(b) + BlockLength <= Length
                       /\ bytes <= Length /\ blocks <= M.blocks_count
  <1>1. /\ piece \in AllPieces \ VerifiedPieces /\ piece \notin rejected
        /\ blocks_downloaded' = blocks_downloaded \cup {b}
        /\ S \in SUBSET AllBlocks
        /\ blocks = Cardinality(S) /\ bytes = Bytes(S)
    BY PutCounts
  <1>2. stored
    BY <1>1, BlocksAreWhole
  <1>3. downloaded_pieces_count < PiecesCount
    BY <1>1, OneMorePiece DEF CountersInv, CountersRight
  <1>4. ASSUME P \subseteq blocks_downloaded'
        PROVE  /\ bytes >= metainfo_piece_length(M, piece)
               /\ blocks >= metainfo_block_count_for_piece(M, piece)
    <2>1. P \subseteq S
      <3>1. \A c \in P : piece_of_block(M, c) = piece
        BY <1>1, PiecesOfM
      <3> QED
        BY <1>1, <1>4, <3>1 DEF Counted
    <2> DEFINE T == S \ P
    <2>2. /\ Cardinality(T) = blocks - metainfo_block_count_for_piece(M, piece)
          /\ Bytes(T) = bytes - metainfo_piece_length(M, piece)
      BY <1>1, <2>1, BytesWithoutPiece
    <2>3. T \in SUBSET AllBlocks
      BY <1>1
    <2>4. /\ Cardinality(T) \in Nat /\ Cardinality(S) \in Nat
          /\ Bytes(T) \in Nat /\ Bytes(S) \in Nat
      BY <1>1, <2>3, BytesAreCounted
    <2>5. /\ metainfo_piece_length(M, piece) \in Nat
          /\ metainfo_block_count_for_piece(M, piece) \in Int
      BY <1>1, Lengths
    <2> HIDE DEF T, S, P, bytes, blocks, piece
    <2> QED
      BY <1>1, <2>2, <2>4, <2>5
  <1> HIDE DEF stored, bytes, blocks, P, piece
  <1> QED
    BY <1>2, <1>3, <1>4
       DEF PutBlock, picker_have_all_blocks_for_piece, stored, bytes, blocks, P, piece

\* A peer never holds more contexts than its requests, its greetings and the answers
\* to heartbeats take.
LEMMA WritesAreFew ==
    ASSUME AssertInv, NEW p \in Peers
    PROVE  /\ WritesInUse(p) \in Nat
           /\ WritesInUse(p) + Cardinality(Heartbeats(inbox[p]))
                <= in_flight_requests[p] + 2 + MaxNoise
           /\ in_flight_requests[p] \in 0 .. MaxInFlight
           /\ Cardinality(Heartbeats(inbox[p])) \in Nat
           /\ MaxNoise \in Nat
  <1>1. /\ TypeOK /\ PipelineLimits /\ RequestsInOnePlace /\ RequestsCounted
        /\ ContextsCounted
    BY DEF AssertInv, CountersInv, AccountingInv, LimitsInv
  <1> DEFINE w == Cardinality(request_writes[p])
             h == Cardinality(Heartbeats(inbox[p]))
             n == remote[p].noise
  <1>2. /\ control_writes[p] \in Nat /\ in_flight_requests[p] \in 0 .. MaxInFlight
        /\ n \in Nat /\ MaxNoise \in Nat
        /\ request_writes[p] \in SUBSET AllBlocks /\ requests[p] \in SUBSET AllBlocks
    BY <1>1, BoundsAssumption DEF TypeOK, PipelineLimits
  <1>3. h \in Nat
    BY <1>1, CountHeartbeats DEF TypeOK
  <1>4. w \in Nat /\ w <= in_flight_requests[p]
    <2>1. request_writes[p] \subseteq requests[p]
      BY <1>1 DEF RequestsInOnePlace
    <2>2. IsFiniteSet(requests[p])
      BY <1>2, BlocksAndPieces, FS_Subset
    <2>3. w \in Nat /\ w <= Cardinality(requests[p])
      BY <2>1, <2>2, FS_Subset, FS_CardinalityType
    <2>4. Cardinality(requests[p]) = in_flight_requests[p]
      BY <1>1 DEF RequestsCounted
    <2> QED
      BY <2>3, <2>4
  <1>5. control_writes[p] + h <= 2 + n /\ n <= MaxNoise
    <2>1. control_writes[p] + h <= Greetings(p) + n /\ n <= MaxNoise
      BY <1>1 DEF ContextsCounted
    <2>2. Greetings(p) \in {0, 2}
      BY DEF Greetings
    <2> HIDE DEF h, n
    <2> QED
      BY <1>2, <1>3, <2>1, <2>2
  <1>6. WritesInUse(p) = control_writes[p] + w
    BY DEF WritesInUse
  <1> HIDE DEF w, h, n
  <1>7. /\ WritesInUse(p) \in Nat
        /\ WritesInUse(p) + h <= in_flight_requests[p] + 2 + MaxNoise
    BY <1>2, <1>3, <1>4, <1>5, <1>6
  <1> QED
    BY <1>2, <1>3, <1>7 DEF h

\* An idle callback requests what there is room for, and has contexts for it.
LEMMA IdleIsSafe ==
    ASSUME EnoughContexts, AssertInv, NEW p \in Peers, peer_on_idle(p)
    PROVE  ~aborted'
  <1>1. /\ WritesInUse(p) \in Nat
        /\ WritesInUse(p) <= in_flight_requests[p] + 2 + MaxNoise
        /\ in_flight_requests[p] \in 0 .. MaxInFlight /\ MaxNoise \in Nat
    <2> DEFINE h == Cardinality(Heartbeats(inbox[p]))
    <2>1. /\ WritesInUse(p) \in Nat
          /\ WritesInUse(p) + h <= in_flight_requests[p] + 2 + MaxNoise
          /\ in_flight_requests[p] \in 0 .. MaxInFlight /\ h \in Nat /\ MaxNoise \in Nat
      BY WritesAreFew
    <2> HIDE DEF h
    <2> QED
      BY <2>1, MaxInFlightAssumption
  <1>2. Pickable(p) \subseteq AllBlocks
    BY DEF Pickable, AssertInv, CountersInv, AccountingInv, LimitsInv, TypeOK
  <1>3. MaxInFlight \in Nat /\ WriteCtxs \in Nat /\ WriteCtxs >= MaxInFlight + 2 + MaxNoise
    BY MaxInFlightAssumption, WriteCtxsAssumption DEF EnoughContexts
  <1>4. ASSUME NEW S \in SUBSET Pickable(p), NEW sent, Cardinality(S) <= Room(p),
               MarkRequested(p, S, sent)
        PROVE  ~aborted'
    <2>1. Cardinality(S) \in Nat
      BY <1>2, BlockSets
    <2>2. aborted' = (WritesInUse(p) + Cardinality(S) > WriteCtxs)
      BY <1>4 DEF MarkRequested
    <2>3. Cardinality(S) <= MaxInFlight - in_flight_requests[p]
      BY <1>4 DEF Room
    <2>4. WritesInUse(p) + Cardinality(S) <= WriteCtxs
      BY <1>1, <1>3, <2>1, <2>3
    <2>5. ~(WritesInUse(p) + Cardinality(S) > WriteCtxs)
      BY <1>1, <1>3, <2>1, <2>4
    <2> QED
      BY <2>2, <2>5
  <1>5. Room(p) \in Int
    BY <1>1, <1>3 DEF Room
  <1>6. CASE StopRequesting(p)
    BY <1>6 DEF StopRequesting, AssertInv
  <1>7. CASE RequestMore(p)
    <2> DEFINE few == Cardinality(Pickable(p))
               n == IF few >= Room(p) THEN Room(p) ELSE few
    <2>1. PICK S \in SUBSET Pickable(p) :
            /\ IsLowest(S, Pickable(p), n)
            /\ MarkRequested(p, S, S)
      BY <1>7 DEF RequestMore
    <2>2. few \in Nat
      BY <1>2, BlockSets
    <2>3. Cardinality(S) <= Room(p)
      BY <1>5, <2>1, <2>2 DEF IsLowest
    <2> QED
      BY <1>4, <2>1, <2>3
  <1>8. CASE RequestFails(p)
    <2>1. PICK n \in 1 .. Room(p), S \in SUBSET Pickable(p) :
            /\ IsLowest(S, Pickable(p), n)
            /\ \E last \in S : MarkRequested(p, S, S \ {last})
      BY <1>8 DEF RequestFails
    <2>2. Cardinality(S) <= Room(p)
      BY <1>5, <2>1 DEF IsLowest
    <2> QED
      BY <1>4, <2>1, <2>2
  <1> QED
    BY <1>6, <1>7, <1>8 DEF peer_on_idle

\* Answering a heartbeat finds a context: it was counted when the heartbeat was sent.
LEMMA HeartbeatIsSafe ==
    ASSUME EnoughContexts, AssertInv, NEW p \in Peers, on_heartbeat(p)
    PROVE  ~aborted'
  <1> DEFINE h == Cardinality(Heartbeats(inbox[p]))
             u == WritesInUse(p)
  <1>1. /\ u \in Nat /\ u + h <= in_flight_requests[p] + 2 + MaxNoise
        /\ in_flight_requests[p] \in 0 .. MaxInFlight /\ h \in Nat /\ MaxNoise \in Nat
    BY WritesAreFew
  <1>2. aborted' = (u + 1 > WriteCtxs)
    BY DEF on_heartbeat
  <1>3. h >= 1
    <2>1. TypeOK /\ Parses(p, "heartbeat")
      BY DEF on_heartbeat, AssertInv, CountersInv, AccountingInv, LimitsInv
    <2>2. /\ inbox[p] \in Seq(Messages) /\ inbox[p] # <<>>
          /\ Tail(inbox[p]) \in Seq(Messages)
          /\ Head(inbox[p]).kind = "heartbeat"
      BY <2>1, ParsedMessage DEF Parses
    <2> DEFINE r == Cardinality(Heartbeats(Tail(inbox[p])))
    <2>3. r \in Nat
      BY <2>2, CountHeartbeats
    <2>4. h = r + (IF Head(inbox[p]).kind = "heartbeat" THEN 1 ELSE 0)
      BY <2>2, CountHeartbeats
    <2>5. h = r + 1
      BY <2>2, <2>4
    <2> HIDE DEF r, h
    <2> QED
      BY <2>3, <2>5
  <1>4. MaxInFlight \in Nat /\ WriteCtxs \in Nat /\ WriteCtxs >= MaxInFlight + 2 + MaxNoise
    BY MaxInFlightAssumption, WriteCtxsAssumption DEF EnoughContexts
  <1> HIDE DEF h, u
  <1>5. ~(u + 1 > WriteCtxs)
    BY <1>1, <1>3, <1>4
  <1> QED
    BY <1>2, <1>5

\* No step fails an assertion.
LEMMA StepIsSafe ==
    ASSUME WholeBlocks, EnoughContexts, "disk" \notin Faults, AssertInv, [Next]_vars,
           "unsolicited" \notin Faults
    PROVE  ~aborted'
  <1>1. ~aborted
    BY DEF AssertInv
  <1>2. CASE UNCHANGED vars
    BY <1>1, <1>2 DEF vars
  <1>3. CASE main
    BY <1>3 DEF main, picker_checksum_all
  <1>4. ASSUME NEW p \in Peers, Client(p)
        PROVE  ~aborted'
    <2>1. CASE peer_on_connect(p)
      <3>1. /\ MaxInFlight \in Nat \ {0} /\ WriteCtxs \in Nat /\ MaxNoise \in Nat
            /\ WriteCtxs >= MaxInFlight + 2 + MaxNoise
        BY MaxInFlightAssumption, WriteCtxsAssumption, BoundsAssumption DEF EnoughContexts
      <3>2. ~(2 > WriteCtxs) /\ ~(0 + 1 > WriteCtxs) /\ ~(1 + 1 > WriteCtxs)
        BY <3>1
      <3> QED
        BY <1>1, <2>1, <3>2 DEF peer_on_connect
    <2>2. CASE peer_on_write(p)
      BY <1>1, <2>2 DEF peer_on_write
    <2>3. CASE peer_on_close(p)
      BY <1>1, <2>3 DEF peer_on_close
    <2>4. CASE peer_on_idle(p)
      BY <2>4, IdleIsSafe
    <2>5. CASE peer_on_read(p)
      BY <1>1, <2>5 DEF peer_on_read
    <2>6. CASE HandleMessage(p) /\ ~on_heartbeat(p) /\ ~on_piece(p)
      BY <1>1, <2>6 DEF HandleMessage, on_handshake, on_malformed, on_choke,
         on_unchoke, on_interested, on_have, on_unwanted_piece
    <2>7. CASE on_heartbeat(p)
      BY <2>7, HeartbeatIsSafe
    <2>8. CASE on_piece(p)
      <3>1. AccountingInv /\ CountersInv
        BY DEF AssertInv, CountersInv
      <3>2. PICK b \in AllBlocks, content \in {"good", "bad"} :
              /\ b \notin blocks_downloaded
              /\ PutFails(b) \/ PutBlock(p, b, content)
        BY <2>8, <3>1, StoredBlockIsInFlight
      <3>3. PutBlock(p, b, content)
        BY <3>2 DEF PutFails
      <3> QED
        BY <1>1, <3>1, <3>2, <3>3, PutIsSafe
    <2> QED
      BY <1>4, <2>1, <2>2, <2>3, <2>4, <2>5, <2>6, <2>7, <2>8 DEF Client, HandleMessage
  <1>5. ASSUME NEW p \in Peers, Remote(p)
        PROVE  ~aborted'
    <2>1. PICK msg : RemoteSends(p, msg)
      BY <1>5 DEF Remote, RemoteHandshake, RemoteBitfield, RemoteHave, RemoteUnchoke,
         RemoteChoke, RemoteNoise, RemoteServe, RemoteMisbehaves
    <2> QED
      BY <1>1, <2>1 DEF RemoteSends
  <1> QED
    BY <1>2, <1>3, <1>4, <1>5 DEF Next

\* Nothing has been sent, and nothing has failed.
LEMMA InitIsSafe == Init => AssertInv
  <1> SUFFICES ASSUME Init PROVE ConnectionInv /\ ContextsCounted /\ ~aborted
    BY InitCounters DEF AssertInv
  <1>1. \A p \in Peers : /\ connection[p] = "init" /\ them_choked[p] /\ inbox[p] = <<>>
                         /\ control_writes[p] = 0 /\ remote[p].noise = 0
    BY DEF Init
  <1>2. callback = NoCallback /\ ~booted /\ ~aborted
    BY DEF Init
  <1>3. ConnectionInv
    BY <1>1, <1>2 DEF ConnectionInv
  <1>4. Cardinality(Heartbeats(<<>>)) = 0
    <2>1. Heartbeats(<<>>) = {}
      BY DEF Heartbeats
    <2> QED
      BY <2>1, FS_EmptySet
  <1>5. ContextsCounted
    BY <1>1, <1>4, BoundsAssumption DEF ContextsCounted, Greetings
  <1> QED
    BY <1>2, <1>3, <1>5

\* With a file of whole blocks that can be read and written, enough write contexts,
\* and remotes that only answer what they were asked, no assert() of the peer code
\* fails, whatever else goes wrong: connections, writes, wrong bytes, chokes.
THEOREM AssertionsHold ==
    ASSUME WholeBlocks, EnoughContexts, "disk" \notin Faults, "unsolicited" \notin Faults
    PROVE  Spec => []NoAssertionFails
  <1>1. AssertInv /\ [Next]_vars => AssertInv'
    <2> SUFFICES ASSUME AssertInv, [Next]_vars PROVE AssertInv'
      OBVIOUS
    <2>1. TypeOK
      BY DEF AssertInv, CountersInv, AccountingInv, LimitsInv
    <2> QED
      BY <2>1, StepKeepsCounters, StepKeepsConnection, StepKeepsContexts, StepIsSafe
         DEF AssertInv
  <1>2. AssertInv => NoAssertionFails
    BY DEF AssertInv, NoAssertionFails
  <1> QED
    BY <1>1, <1>2, InitIsSafe, PTL DEF Spec

=============================================================================
