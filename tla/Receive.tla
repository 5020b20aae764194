-------------------------------- MODULE Receive --------------------------------
(***************************************************************************)
(* How one peer of the torrent client reads (src/torrent/peer.h): libuv    *)
(* delivers the bytes of the connection in reads of any size, peer_on_read *)
(* appends them to a ring and parses as many messages as it finds there.   *)
(* Download takes messages for atomic; this module is about the bytes.     *)
(*                                                                         *)
(* What a handler does with a message is left to Download: here it may     *)
(* fail, and then closes the peer.  The remote's bytes are all written at  *)
(* the start; how much of them has arrived is the variable delivered.      *)
(***************************************************************************)
EXTENDS Metainfo, Ring, Sequences

CONSTANTS
    Length, PieceLength, \* of the torrent both sides have
    Header, Reserved,   \* the first 20 and the next 8 bytes of a handshake
    InfoHash, PeerId,   \* its last 20 and 20 bytes
    MaxMessageLength,   \* PEER_MAX_MESSAGE_LENGTH
    ReadLength,         \* chunk_size of read_buf_pool
    Streams,            \* bound: the sequences of messages a remote may send
    Openings,           \* bound: the bytes it may send before them
    Faults              \* which failures may happen, out of AllFaults

AllFaults ==
    { "read",           \* end of file, an error, or a read of no bytes
      "handle"          \* peer_message_handle returns an error
    }

\* A read fits next to the three bytes that do not announce a length yet.
ASSUME ReadLengthAssumption == ReadLength \in Nat \ {0} /\ ReadLength + 3 <= RingCap
ASSUME TorrentAssumption ==
    /\ {Length, PieceLength} \subseteq Nat \ {0}
    /\ PieceLength % BlockLength = 0
    /\ PieceLength < Word
    /\ CeilDiv(Length, PieceLength) < Word
ASSUME HandshakeAssumption ==
    {Header, Reserved, InfoHash, PeerId} \subseteq Seq(0 .. 255)
ASSUME ReceiveFaultsAssumption == Faults \subseteq AllFaults

VARIABLES
    handshaked, connection,
    recv_data,      \* the ring
    reading,        \* peer_on_read is in its loop
    aborted,        \* an assert() has failed
    \* external: the remote
    opening,        \* its first bytes: a handshake, or what it takes for one
    sent,           \* its messages
    stream,         \* the bytes all of that makes
    delivered,      \* how many of them libuv has handed over
    \* history, read by no action
    handled,        \* the messages given to peer_message_handle
    failed          \* the failures that have happened

M == metainfo_init(Length, PieceLength, CeilDiv(Length, PieceLength))

remoteVars == <<opening, sent, stream>>
vars == <<handshaked, connection, recv_data, reading, aborted, remoteVars,
          delivered, handled, failed>>

-----------------------------------------------------------------------------
(* Bytes. *)

\* A number of four bytes, the first one the most significant.
BigEndian(a, b, c, d) == 256 * (256 * (256 * a + b)) + (256 * c + d)

\* peer_write_u32: htonl of a number that fits.
U32Bytes(x) == << x \div 16777216, (x \div 65536) % 256, (x \div 256) % 256, x % 256 >>

\* peer_peek_read_u32 and peer_read_u32: the number in bytes i .. i + 3.
U32At(r, i) == BigEndian(pg_ring_get(r, i), pg_ring_get(r, i + 1),
                         pg_ring_get(r, i + 2), pg_ring_get(r, i + 3))

BytesAt(r, i, n) == [k \in 1 .. n |-> pg_ring_get(r, i + k - 1)]

\* Bit b of a byte, counted from 0 for the most significant one, which the
\* protocol uses for the first piece.
BitWeight    == <<128, 64, 32, 16, 8, 4, 2, 1>>
Bit(byte, b) == (byte \div BitWeight[b + 1]) % 2 = 1

Handshake == Header \o Reserved \o InfoHash \o PeerId

\* peer_tag_t.
FlagTags == 0 .. 3
Flag(tag) == CASE tag = 0 -> "choke"      [] tag = 1 -> "unchoke"
               [] tag = 2 -> "interested" [] tag = 3 -> "uninterested"
PT_HAVE == 4
PT_BITFIELD == 5
PT_REQUEST == 6
PT_PIECE == 7
PT_CANCEL == 8

\* The payload and the tag of a message, after its length.  Those this
\* client can send are built by peer_send_*, the others only by remotes.
Framed(tag, body) == U32Bytes(1 + Len(body)) \o <<tag>> \o body

\* Byte k has the bits of the pieces from 8 * (k - 1) on.
BitfieldBytes(pieces) ==
    LET bit(p) == IF p \in pieces THEN 1 ELSE 0
        byte(p) == BitWeight[1] * bit(p) + BitWeight[2] * bit(p + 1)
                   + BitWeight[3] * bit(p + 2) + BitWeight[4] * bit(p + 3)
                   + BitWeight[5] * bit(p + 4) + BitWeight[6] * bit(p + 5)
                   + BitWeight[7] * bit(p + 6) + BitWeight[8] * bit(p + 7)
    IN  [k \in 1 .. CeilDiv(M.pieces_count, 8) |-> byte(8 * (k - 1))]

\* The bytes of a message; of an unknown kind, whatever the remote makes up.
Encode(m) ==
    CASE m.kind = "heartbeat" -> U32Bytes(0)
      [] m.kind \in {"choke", "unchoke", "interested", "uninterested"} ->
            Framed(CHOOSE tag \in FlagTags : Flag(tag) = m.kind, <<>>)
      [] m.kind = "have"      -> Framed(PT_HAVE, U32Bytes(m.have))
      [] m.kind = "bitfield"  -> Framed(PT_BITFIELD, BitfieldBytes(m.pieces))
      [] m.kind \in {"request", "cancel"} ->
            Framed(IF m.kind = "request" THEN PT_REQUEST ELSE PT_CANCEL,
                   U32Bytes(m.index) \o U32Bytes(m.begin) \o U32Bytes(m.length))
      [] m.kind = "piece"     ->
            Framed(PT_PIECE, U32Bytes(m.index) \o U32Bytes(m.begin) \o m.data)
      [] m.kind = "raw"       -> m.bytes

\* A connection carries bytes: the opening, and then the messages.  Entry k is
\* what it has carried after the first k of them.
Wires(first, messages) ==
    LET wires[k \in 0 .. Len(messages)] ==
            IF k = 0 THEN first ELSE wires[k - 1] \o Encode(messages[k])
    IN  wires

\* What a remote that follows the protocol, for this torrent, may send.
FollowsProtocol(m) ==
    CASE m.kind = "raw"      -> FALSE
      [] m.kind = "have"     -> m.have \in Pieces(M)
      [] m.kind = "bitfield" -> m.pieces \subseteq Pieces(M)
      [] m.kind = "piece"    ->
            \E b \in Blocks(M) :
                LET r == request_of_block(M, b)
                IN  /\ m.index = r.index
                    /\ m.begin = r.begin
                    /\ Len(m.data) = r.length
      [] OTHER -> TRUE

\* The messages that can be written down.
Messages ==
    [kind : {"heartbeat", "choke", "unchoke", "interested", "uninterested"}]
    \cup [kind : {"have"}, have : 0 .. Word - 1]
    \cup [kind : {"bitfield"}, pieces : SUBSET Pieces(M)]
    \cup [kind : {"request", "cancel"}, index : 0 .. Word - 1,
                begin : 0 .. Word - 1, length : 0 .. Word - 1]
    \cup [kind : {"piece"}, index : 0 .. Word - 1, begin : 0 .. Word - 1, data : Seq(0 .. 255)]
    \cup [kind : {"raw"}, bytes : Seq(0 .. 255)]

-----------------------------------------------------------------------------
(* Parsing: what is wrong (err), the message found, the bytes consumed.    *)

NoMessage == [kind |-> "none"]
NeedMore(n)  == [err |-> "need_more", msg |-> NoMessage, taken |-> n]
Rejected(n)  == [err |-> "rejected", msg |-> NoMessage, taken |-> n]
Parsed(m, n) == [err |-> "none", msg |-> m, taken |-> n]

\* The connection is not handshaked before PEER_HANDSHAKE_LENGTH bytes are
\* there; the two checks differ in the error they return only.
peer_check_handshaked(r) ==
    IF handshaked THEN Parsed(NoMessage, 0)
    ELSE IF r.len < Len(Handshake) THEN NeedMore(0)
    ELSE LET got == BytesAt(r, 0, Len(Handshake))
             hash_at == Len(Header \o Reserved)
         IN  IF /\ SubSeq(got, 1, Len(Header)) = Header
                /\ SubSeq(got, hash_at + 1, hash_at + Len(InfoHash)) = InfoHash
             THEN Parsed(NoMessage, Len(Handshake))
             ELSE Rejected(Len(Handshake))

\* ceil((pieces_count - 1) / 8), in the words of the code.
expected_bitfield_len == CeilDiv(M.pieces_count - 1, 8)

\* Mutant of HasFittingLength: the length of a bitfield is rounded down.
HasFittingLength_rounds_down(tag, announced_len) ==
    \/ tag = PT_HAVE /\ announced_len = 5
    \/ tag = PT_BITFIELD /\ announced_len = (M.pieces_count - 1) \div 8 + 1
    \/ tag \in {PT_REQUEST, PT_CANCEL} /\ announced_len = 13
    \/ tag = PT_PIECE /\ announced_len >= 10

\* Is this tag known, and is the length one it can have?
HasFittingLength(tag, announced_len) ==
    \/ tag = PT_HAVE /\ announced_len = 5
    \/ tag = PT_BITFIELD /\ announced_len = expected_bitfield_len + 1
    \/ tag \in {PT_REQUEST, PT_CANCEL} /\ announced_len = 13
    \/ tag = PT_PIECE /\ announced_len >= 10

\* Mutant of IsComplete: forgets the four bytes of the length itself.
IsComplete_without_prefix(r, announced_len) == r.len >= announced_len

\* Mutant of IsComplete: waits for a byte of the next message.
IsComplete_and_more(r, announced_len) == r.len > announced_len + 4

IsComplete(r, announced_len) == r.len >= announced_len + 4

\* The bytes are reversed bit by bit into the words of a bit array.
parse_bitfield(r, announced_len) ==
    LET pieces == { 8 * k + b : k \in 0 .. announced_len - 2, b \in 0 .. 7 }
    IN  Parsed([ kind   |-> "bitfield",
                 pieces |-> { p \in pieces :
                    Bit(pg_ring_get(r, 5 + p \div 8), p % 8) } ],
               announced_len + 4)

\* Do so many bytes look like a block of this torrent?
looks_like_block(index, begin, data_len) ==
    /\ index < M.pieces_count
    /\ begin + data_len <= metainfo_piece_length(M, index)
    /\ data_len = metainfo_block_for_piece_length(M, index, begin \div BlockLength)

parse_piece(r, announced_len) ==
    LET index    == U32At(r, 5)
        begin    == U32At(r, 9)
        data_len == announced_len - 9
    IN  IF ~looks_like_block(index, begin, data_len)
        THEN Rejected(13)
        ELSE Parsed([ kind |-> "piece", index |-> index, begin |-> begin,
                      data |-> BytesAt(r, 13, data_len) ], announced_len + 4)

parse_body(r, tag, announced_len) ==
    CASE tag = PT_HAVE ->
            IF U32At(r, 5) > M.pieces_count
            THEN Rejected(9)
            ELSE Parsed([kind |-> "have", have |-> U32At(r, 5)], 9)
      [] tag = PT_BITFIELD -> parse_bitfield(r, announced_len)
      [] tag = PT_PIECE    -> parse_piece(r, announced_len)
      [] tag \in {PT_REQUEST, PT_CANCEL} ->
            Parsed([ kind   |-> IF tag = PT_REQUEST THEN "request" ELSE "cancel",
                     index  |-> U32At(r, 5), begin |-> U32At(r, 9),
                     length |-> U32At(r, 13) ], 17)

\* peer_message_parse after its handshake check.  A flag is taken for the
\* message it names whatever length it announces.
parse_message(r) ==
    LET announced_len == U32At(r, 0)
        tag           == pg_ring_get(r, 4)
    IN  IF r.len < 4 THEN NeedMore(0)
        ELSE IF announced_len = 0 THEN Parsed([kind |-> "heartbeat"], 4)
        ELSE IF announced_len > MaxMessageLength THEN Rejected(0)
        ELSE IF r.len < 5 THEN NeedMore(0)
        ELSE IF tag \in FlagTags THEN Parsed([kind |-> Flag(tag)], 5)
        ELSE IF ~HasFittingLength(tag, announced_len) THEN Rejected(0)
        ELSE IF ~IsComplete(r, announced_len) THEN NeedMore(0)
        ELSE parse_body(r, tag, announced_len)

\* A handshake that is not complete does not end the parsing: the bytes are
\* parsed as a message, and only a heartbeat reports what is missing.
peer_message_parse(r) ==
    LET shake == peer_check_handshaked(r)
        rest  == parse_message(pg_ring_consume_front(r, shake.taken))
    IN  IF shake.err = "rejected" THEN shake
        ELSE [ err   |-> IF rest.msg.kind = "heartbeat" THEN shake.err ELSE rest.err,
               msg   |-> rest.msg,
               taken |-> shake.taken + rest.taken ]

-----------------------------------------------------------------------------
(* The remotes that Streams and Openings stand for. *)

\* The first bytes are a length or a tag that no message has, or they are a
\* message about what the torrent has not.
Malformed(bytes) ==
    LET Number(i)     == BigEndian(bytes[i], bytes[i + 1], bytes[i + 2], bytes[i + 3])
        announced_len == Number(1)
        tag           == bytes[5]
    IN  /\ Len(bytes) >= 5
        /\ announced_len # 0
        /\ \/ announced_len > MaxMessageLength
           \/ tag \notin FlagTags /\ ~HasFittingLength(tag, announced_len)
           \/ /\ tag = PT_HAVE /\ announced_len = 5 /\ Len(bytes) >= 9
              /\ Number(6) > M.pieces_count
           \/ /\ tag = PT_PIECE /\ announced_len >= 10 /\ Len(bytes) >= announced_len + 4
              /\ ~looks_like_block(Number(6), Number(10), announced_len - 9)

\* A remote follows the protocol, or breaks it where the parser can tell.
ASSUME StreamsAssumption ==
    \A messages \in Streams :
        /\ messages \in Seq(Messages)
        /\ \A k \in DOMAIN messages :
              \/ FollowsProtocol(messages[k])
              \/ messages[k].kind = "raw" /\ Malformed(messages[k].bytes)

\* What takes the place of a handshake is as long as one, and not the start of
\* a message, as no text is.
ASSUME OpeningsAssumption ==
    \A first \in Openings :
        /\ first \in Seq(0 .. 255)
        /\ Len(first) = Len(Handshake) /\ Len(first) >= 4
        /\ BigEndian(first[1], first[2], first[3], first[4]) > MaxMessageLength

\* The numbers of a torrent fit into four bytes (stated so that TLC's integers
\* hold it), and its messages are not longer than the parser takes.
FourBytes(x) == x \div 16777216 <= 255
ASSUME LimitsAssumption ==
    /\ FourBytes(Word - 1)
    /\ MaxMessageLength \in Nat /\ FourBytes(MaxMessageLength)
    /\ {13, BlockLength + 9, CeilDiv(M.pieces_count, 8) + 1} \subseteq 0 .. MaxMessageLength

-----------------------------------------------------------------------------
(* The read callback. *)

Wire(k) == Wires(opening, sent)[k]

Init ==
    /\ handshaked = FALSE
    /\ connection = "open"
    /\ recv_data = pg_ring_init
    /\ reading = FALSE
    /\ aborted = FALSE
    /\ sent \in Streams
    /\ opening \in Openings
    /\ stream = Wire(Len(sent))
    /\ delivered = 0
    /\ handled = <<>>
    /\ failed = {}

\* libuv runs callbacks one at a time, and none for a handle being closed.
CanRead == connection = "open" /\ ~reading /\ ~aborted

\* peer_alloc and the beginning of peer_on_read: n bytes have arrived.  The
\* read buffer is taken from its pool and given back within the callback.
Read(n) ==
    /\ CanRead
    /\ delivered + n <= Len(stream)
    /\ IF n > pg_ring_space(recv_data)
       THEN /\ aborted' = TRUE
            /\ UNCHANGED <<recv_data, delivered, reading>>
       ELSE /\ recv_data' = pg_ring_push_backv(recv_data,
                                SubSeq(stream, delivered + 1, delivered + n))
            /\ delivered' = delivered + n
            /\ reading' = TRUE
            /\ UNCHANGED aborted
    /\ UNCHANGED <<handshaked, connection, remoteVars, handled, failed>>

\* peer_on_read with nread <= 0.  libuv also reports zero bytes when the
\* socket had nothing left after a read that filled the buffer.
ReadFails ==
    /\ "read" \in Faults
    /\ CanRead
    /\ connection' = "closing"
    /\ failed' = failed \cup {"read"}
    /\ UNCHANGED <<handshaked, recv_data, reading, aborted, remoteVars,
                   delivered, handled>>

\* What every round of the loop does to the ring and to handshaked.
Consume(result) ==
    /\ recv_data' = pg_ring_consume_front(recv_data, result.taken)
    /\ handshaked' = (handshaked \/ peer_check_handshaked(recv_data).err = "none")
    /\ UNCHANGED <<aborted, remoteVars, delivered>>

NeedsMore ==
    LET result == peer_message_parse(recv_data)
    IN  /\ reading
        /\ result.err = "need_more"
        /\ Consume(result)
        /\ reading' = FALSE
        /\ UNCHANGED <<connection, handled, failed>>

RejectMessage ==
    LET result == peer_message_parse(recv_data)
    IN  /\ reading
        /\ result.err = "rejected"
        /\ Consume(result)
        /\ reading' = FALSE
        /\ connection' = "closing"
        /\ UNCHANGED <<handled, failed>>

\* Mutant of KeepsParsing: one message per read.
KeepsParsing_never == FALSE

\* The loop goes on after a message, also after one that closed the peer.
KeepsParsing == TRUE

HandleMessage ==
    LET result == peer_message_parse(recv_data)
    IN  /\ reading
        /\ result.err = "none"
        /\ Consume(result)
        /\ reading' = KeepsParsing
        /\ handled' = Append(handled, result.msg)
        /\ \/ UNCHANGED <<connection, failed>>
           \/ /\ "handle" \in Faults
              /\ connection' = "closing"
              /\ failed' = failed \cup {"handle"}

Next ==
    \/ \E n \in 1 .. ReadLength : Read(n)
    \/ ReadFails
    \/ NeedsMore
    \/ RejectMessage
    \/ HandleMessage

Spec == Init /\ [][Next]_vars

-----------------------------------------------------------------------------
(* Properties. *)

\* Types: in particular the offset and the length of the ring stay within
\* its memory, and the read loop ends with the callback.
TypeOK ==
    /\ handshaked \in BOOLEAN
    /\ connection \in {"open", "closing"}
    /\ recv_data \in [data : [Slots -> 0 .. 255], offset : Slots, len : 0 .. RingCap]
    /\ reading \in BOOLEAN
    /\ aborted \in BOOLEAN
    /\ stream \in Seq(0 .. 255)
    /\ delivered \in 0 .. Len(stream)
    /\ failed \subseteq AllFaults

(***************************************************************************)
(* The ring is a queue: whatever the sizes of the reads and wherever they  *)
(* wrap around, it holds the bytes that have arrived last, in their order, *)
(* so that the parser reads the very bytes of the connection               *)
(* (pg_ring_push_backv, pg_ring_pop_front, pg_ring_consume_front).         *)
(***************************************************************************)
RingHoldsTheRest ==
    \A i \in 0 .. recv_data.len - 1 :
        pg_ring_get(recv_data, i) = stream[delivered - recv_data.len + i + 1]

(***************************************************************************)
(* However the connection is cut into reads, the messages handled are the  *)
(* ones the remote has sent, in order, none twice, none made up, and none  *)
(* after one that is malformed (peer_message_parse, peer_on_read).         *)
(***************************************************************************)
DeliversTheStream ==
    INSTANCE MessageStream WITH Acceptable <- FollowsProtocol
ImplementsStream == DeliversTheStream!Spec

(***************************************************************************)
(* A read callback leaves no message behind: when it returns with the peer *)
(* still open, every message that has arrived whole has been handled, so   *)
(* that none waits for a read that may never come (the loop of             *)
(* peer_on_read, and the conditions for PEK_NEED_MORE).                    *)
(***************************************************************************)
NothingLeftBehind ==
    CanRead =>
        \A k \in DOMAIN sent : Len(Wire(k)) <= delivered => k <= Len(handled)

\* The remote follows the protocol.  A torrent with 8 * n + 1 pieces is left
\* out: the parser expects its bitfield to be a byte shorter than it is.
Honest ==
    /\ opening = Handshake
    /\ \A k \in DOMAIN sent : FollowsProtocol(sent[k])
    /\ M.pieces_count % 8 # 1

(***************************************************************************)
(* A peer that follows the protocol is not turned away: as long as no read *)
(* and no handler fails, it is closed only when its handshake was cut      *)
(* after its fourth byte, which the parser takes for a message             *)
(* (peer_check_handshaked, peer_message_parse).                            *)
(***************************************************************************)
HonestPeersAreKept ==
    connection = "closing" /\ Honest /\ failed = {} =>
        ~handshaked /\ delivered \in 4 .. Len(Handshake) - 1

\* The longest message, or handshake, for which a whole read always fits.
LongestThatFits == RingCap - ReadLength + 1

(***************************************************************************)
(* The ring never overflows as long as the incomplete message in it is one *)
(* that leaves room for a read: the assertion in pg_ring_push_backv can    *)
(* only fail after a message of more than LongestThatFits bytes.           *)
(***************************************************************************)
OverflowsOnlyOnLongMessages ==
    aborted =>
        \E k \in DOMAIN sent : Len(Encode(sent[k])) > LongestThatFits
=============================================================================
