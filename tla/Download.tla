------------------------------- MODULE Download -------------------------------
(***************************************************************************)
(* The download engine of the torrent client (src/torrent/peer.h and the   *)
(* end of src/torrent/main.c): one picker and one set of counters shared   *)
(* by all peers, and for every peer the callbacks libuv runs for it:       *)
(* connect, read, idle, write, close.  The event loop is single-threaded,  *)
(* so a callback is atomic with respect to the other callbacks; what       *)
(* interleaves is the order of the callbacks and what the remote peers and *)
(* the disk do between them.  A read callback handles the messages it      *)
(* finds one after the other: it is one step per message, and the variable *)
(* callback keeps every other callback out until its loop is done.         *)
(*                                                                         *)
(* Remote peers, TCP, libuv and the disk are external: the Remote actions, *)
(* and the failures named in Faults.                                       *)
(***************************************************************************)
EXTENDS Metainfo, Sequences, FiniteSets

CONSTANTS
    Peers,          \* the peers the tracker returned
    Length,         \* metainfo.length
    PieceLength,    \* metainfo.piece_length
    MaxInFlight,    \* PEER_MAX_IN_FLIGHT_REQUESTS
    WriteCtxs,      \* chunks in a peer's write_ctx_pool
    RemoteHas,      \* [Peers -> set of pieces]: what each remote can serve
    Faults,         \* which failures may happen, out of AllFaults
    ReadBatch,      \* bound: complete messages delivered by one read
    MaxInbox,       \* bound: messages on their way from a remote
    MaxChokes,      \* bound: how often a remote chokes us
    MaxNoise        \* bound: messages of a remote that carry no block

AllFaults ==
    { "connect",     \* uv_tcp_connect or the connection itself fails
      "write",       \* uv_write, or a write that was queued, fails
      "disk",        \* lseek, write or read on the file fails
      "eof",         \* the remote closes the connection
      "corrupt",     \* the remote serves wrong bytes
      "discard",     \* the remote forgets our requests when it chokes us
      "malformed",   \* wrong handshake, or a message the parser rejects
      "unsolicited"  \* the remote sends a block we did not ask it for
    }

PiecesCount == CeilDiv(Length, PieceLength)
M           == metainfo_init(Length, PieceLength, PiecesCount)
AllBlocks   == Blocks(M)
AllPieces   == Pieces(M)

ASSUME LengthAssumption == Length \in Nat \ {0}
ASSUME PieceLengthAssumption ==
    /\ PieceLength \in Nat \ {0}
    /\ PieceLength % BlockLength = 0
    /\ PieceLength < Word
ASSUME MaxInFlightAssumption == MaxInFlight \in Nat \ {0}
ASSUME WriteCtxsAssumption == WriteCtxs \in Nat
ASSUME RemoteHasAssumption == RemoteHas \in [Peers -> SUBSET AllPieces]
ASSUME FaultsAssumption == Faults \subseteq AllFaults
ASSUME BoundsAssumption ==
    {ReadBatch, MaxInbox, MaxChokes, MaxNoise} \subseteq Nat

VARIABLES
    \* picker_t
    blocks_to_download, blocks_downloading, blocks_downloaded,
    \* download_t, and what the file holds
    downloaded_pieces_count, downloaded_blocks_count, downloaded_bytes,
    disk,
    \* peer_t, one entry per peer
    connection, handshaked, them_choked, them_interested, them_have_pieces,
    in_flight_requests, idle_handle,
    control_writes,     \* write contexts held by handshake, interested, heartbeats
    request_writes,     \* blocks whose Request still holds a write context
    \* the event loop
    callback,           \* the read callback in progress, or NoCallback
    booted,             \* main() has reached uv_run
    aborted,            \* an assert() has failed
    \* external: the remote peers
    inbox,              \* messages on their way to us, in order
    asked,              \* blocks whose Request the remote holds
    remote,             \* what the remote has told us so far
    \* history, read by no action
    requests,           \* blocks requested through a peer and not stored
    rejected            \* pieces whose checksum step failed

pickerVars   == <<blocks_to_download, blocks_downloading, blocks_downloaded>>
downloadVars == <<downloaded_pieces_count, downloaded_blocks_count, downloaded_bytes>>
writeVars    == <<control_writes, request_writes>>
themVars     == <<them_choked, them_interested, them_have_pieces>>
remoteVars   == <<inbox, asked, remote>>
historyVars  == <<requests, rejected>>
vars == <<pickerVars, downloadVars, disk, connection, handshaked, themVars,
          in_flight_requests, idle_handle, writeVars, callback, booted, aborted,
          remoteVars, historyVars>>

NoCallback == [peer |-> "none"]

-----------------------------------------------------------------------------
(* The picker. *)

\* Mutant of Pickable: blocks in flight are fair game, as in an end-game mode.
Pickable_in_flight_too(p) ==
    { b \in blocks_to_download \cup blocks_downloading :
        piece_of_block(M, b) \in them_have_pieces[p] }

\* picker_pick_block considers these blocks, lowest first.
Pickable(p) ==
    { b \in blocks_to_download : piece_of_block(M, b) \in them_have_pieces[p] }

\* What n successive picks take from a set of blocks S.
IsLowest(T, S, n) ==
    /\ T \subseteq S
    /\ Cardinality(T) = n
    /\ \A b \in T, c \in S \ T : b < c

picker_have_all_blocks_for_piece(downloaded, piece) ==
    blocks_of_piece(M, piece) \subseteq downloaded

\* Mutant of picker_mark_blocks_as_downloading: does not unset blocks_to_download.
picker_mark_without_unset(S) ==
    /\ blocks_downloading' = blocks_downloading \cup S
    /\ UNCHANGED <<blocks_to_download, blocks_downloaded>>

picker_mark_blocks_as_downloading(S) ==
    /\ blocks_downloading' = blocks_downloading \cup S
    /\ blocks_to_download' = blocks_to_download \ S
    /\ UNCHANGED blocks_downloaded

picker_mark_block_as_downloaded(b) ==
    /\ blocks_downloaded' = blocks_downloaded \cup {b}
    /\ blocks_downloading' = blocks_downloading \ {b}
    /\ UNCHANGED blocks_to_download

-----------------------------------------------------------------------------
(* Connections and writes. *)

WritesInUse(p) == control_writes[p] + Cardinality(request_writes[p])

\* uv_write fails at once on a closing handle, and on any when "write" may fail.
WriteMayFail(p) == connection[p] = "closing" \/ "write" \in Faults

\* peer_close: idempotent, and a no-op on a handle that is closing already.
peer_close(p) ==
    connection' = [connection EXCEPT ![p] = "closing"]

Running == booted /\ ~aborted

(***************************************************************************)
(* main(): picker_checksum_all, then peer_connect for every peer.          *)
(*                                                                         *)
(* pg_array_read_file_fd answers true when it has read the file, which     *)
(* picker_checksum_all takes for an error: it returns PEK_OS, main logs it *)
(* and goes on with nothing marked.  When the read does fail the function  *)
(* carries on with too little data and assert(offset + length <= len)      *)
(* stops the program.  A failing uv_tcp_connect is ignored.                *)
(***************************************************************************)
picker_checksum_all(read_ok) ==
    /\ aborted' = ~read_ok
    /\ UNCHANGED <<pickerVars, downloadVars>>

main ==
    /\ ~booted /\ ~aborted
    /\ booted' = TRUE
    /\ \E read_ok \in BOOLEAN :
         (read_ok \/ "disk" \in Faults) /\ picker_checksum_all(read_ok)
    /\ \E refused \in (IF "connect" \in Faults THEN SUBSET Peers ELSE {{}}) :
         connection' = [p \in Peers |-> IF p \in refused THEN "init" ELSE "connecting"]
    /\ UNCHANGED <<disk, handshaked, themVars, in_flight_requests, idle_handle,
                   writeVars, callback, remoteVars, historyVars>>

(***************************************************************************)
(* peer_on_connect: starts reading and sends handshake and interested.     *)
(***************************************************************************)
peer_on_connect(p) ==
    /\ Running /\ callback = NoCallback
    /\ connection[p] = "connecting"
    /\ \/ /\ connection' = [connection EXCEPT ![p] = "open"]
          /\ control_writes' = [control_writes EXCEPT ![p] = 2]
          /\ aborted' = (2 > WriteCtxs)
       \/ /\ "connect" \in Faults                  \* status != 0, or uv_read_start
          /\ peer_close(p)
          /\ UNCHANGED <<control_writes, aborted>>
       \/ /\ "write" \in Faults                    \* first or second send fails
          /\ peer_close(p)
          /\ \E n \in {0, 1} : /\ control_writes' = [control_writes EXCEPT ![p] = n]
                               /\ aborted' = (n + 1 > WriteCtxs)
    /\ UNCHANGED <<pickerVars, downloadVars, disk, handshaked, themVars,
                   in_flight_requests, idle_handle, request_writes, callback,
                   booted, remoteVars, historyVars>>

(***************************************************************************)
(* peer_on_write: gives the context back.  libuv completes a write before  *)
(* it reads the answer to it, so the remote gets to see a Request here.    *)
(* All writes of a closing handle are cancelled before its close callback. *)
(***************************************************************************)
WriteStatus(p, sent) ==
    \/ /\ connection[p] = "open"
       /\ asked' = [asked EXCEPT ![p] = @ \cup sent]
       /\ UNCHANGED connection
    \/ /\ WriteMayFail(p)
       /\ peer_close(p)
       /\ UNCHANGED asked

peer_on_write(p) ==
    /\ Running /\ callback = NoCallback
    /\ \/ /\ control_writes[p] > 0
          /\ control_writes' = [control_writes EXCEPT ![p] = @ - 1]
          /\ WriteStatus(p, {})
          /\ UNCHANGED request_writes
       \/ \E b \in request_writes[p] :
          /\ request_writes' = [request_writes EXCEPT ![p] = @ \ {b}]
          /\ WriteStatus(p, {b})
          /\ UNCHANGED control_writes
    /\ UNCHANGED <<pickerVars, downloadVars, disk, handshaked, themVars,
                   in_flight_requests, idle_handle, callback, booted, aborted,
                   inbox, remote, historyVars>>

\* peer_on_close and peer_destroy.  The blocks the peer was asked for stay
\* where they are.
peer_on_close(p) ==
    /\ Running /\ callback = NoCallback
    /\ connection[p] = "closing"
    /\ WritesInUse(p) = 0
    /\ connection' = [connection EXCEPT ![p] = "closed"]
    /\ idle_handle' = [idle_handle EXCEPT ![p] = FALSE]
    /\ UNCHANGED <<pickerVars, downloadVars, disk, handshaked, themVars,
                   in_flight_requests, writeVars, callback, booted, aborted,
                   remoteVars, historyVars>>

(***************************************************************************)
(* peer_on_idle, with peer_request_more_blocks and peer_send_request.      *)
(***************************************************************************)

\* Mutant of Room: off by one, the guard is <= instead of <.
Room_off_by_one(p) == MaxInFlight - in_flight_requests[p] + 1

Room(p) == MaxInFlight - in_flight_requests[p]

\* Blocks S are marked and counted; those in sent were handed to uv_write.
MarkRequested(p, S, sent) ==
    /\ picker_mark_blocks_as_downloading(S)
    /\ in_flight_requests' = [in_flight_requests EXCEPT ![p] = @ + Cardinality(S)]
    /\ request_writes' = [request_writes EXCEPT ![p] = @ \cup sent]
    /\ requests' = [requests EXCEPT ![p] = @ \cup S]
    /\ aborted' = (WritesInUse(p) + Cardinality(S) > WriteCtxs)

\* "stop" while the pipeline is full or the remote chokes us.
StopRequesting(p) ==
    /\ in_flight_requests[p] >= MaxInFlight \/ them_choked[p]
    /\ idle_handle' = [idle_handle EXCEPT ![p] = FALSE]
    /\ UNCHANGED <<pickerVars, in_flight_requests, request_writes, requests,
                   aborted, connection>>

\* Fills the pipeline; "stop" when the blocks run out before it is full.
RequestMore(p) ==
    /\ in_flight_requests[p] < MaxInFlight /\ ~them_choked[p]
    /\ connection[p] = "open" \/ Pickable(p) = {}
    /\ LET enough == Cardinality(Pickable(p)) >= Room(p)
       IN  /\ \E S \in SUBSET Pickable(p) :
                /\ IsLowest(S, Pickable(p),
                            IF enough THEN Room(p) ELSE Cardinality(Pickable(p)))
                /\ MarkRequested(p, S, S)
           /\ idle_handle' = [idle_handle EXCEPT ![p] = enough]
    /\ UNCHANGED connection

\* The n-th uv_write fails: its block is marked and counted all the same.
RequestFails(p) ==
    /\ in_flight_requests[p] < MaxInFlight /\ ~them_choked[p]
    /\ WriteMayFail(p)
    /\ \E n \in 1 .. Room(p), S \in SUBSET Pickable(p) :
         /\ IsLowest(S, Pickable(p), n)
         /\ connection[p] = "closing" => n = 1
         /\ \E last \in S :
              /\ \A b \in S : b <= last
              /\ MarkRequested(p, S, S \ {last})
    /\ peer_close(p)
    /\ UNCHANGED idle_handle

peer_on_idle(p) ==
    /\ Running /\ callback = NoCallback
    /\ idle_handle[p]
    /\ StopRequesting(p) \/ RequestMore(p) \/ RequestFails(p)
    /\ UNCHANGED <<downloadVars, disk, handshaked, themVars, control_writes,
                   callback, booted, remoteVars, rejected>>

-----------------------------------------------------------------------------
(***************************************************************************)
(* peer_on_read.  A read delivers some of the messages on their way; eof   *)
(* (nread <= 0) comes alone.  Then one step per message.                   *)
(***************************************************************************)
peer_on_read(p) ==
    /\ Running /\ callback = NoCallback
    /\ connection[p] = "open"
    /\ inbox[p] # <<>>
    /\ IF Head(inbox[p]).kind = "eof"
       THEN peer_close(p) /\ UNCHANGED callback
       ELSE /\ \E n \in 1 .. ReadBatch :
                 /\ n <= Len(inbox[p])
                 /\ \A i \in 1 .. n : inbox[p][i].kind # "eof"
                 /\ callback' = [peer |-> p, left |-> n, idle_started |-> FALSE]
            /\ UNCHANGED connection
    /\ UNCHANGED <<pickerVars, downloadVars, disk, handshaked, themVars,
                   in_flight_requests, idle_handle, writeVars, booted, aborted,
                   remoteVars, historyVars>>

\* The read callback of p is about to parse a message of this kind.
Parses(p, kind) ==
    /\ Running
    /\ callback # NoCallback /\ callback.peer = p
    /\ Head(inbox[p]).kind = kind

Consume(p) ==
    /\ inbox' = [inbox EXCEPT ![p] = Tail(@)]
    /\ UNCHANGED <<asked, remote>>

\* Mutant of NextMessage: the loop reads past the bytes that arrived.
NextMessage_keeps_going(starts) ==
    callback' = [callback EXCEPT !.idle_started = IF starts THEN TRUE ELSE @]

\* The loop in peer_on_read goes on until it has parsed what was read.
NextMessage(starts) ==
    callback' = IF callback.left = 1 THEN NoCallback
                ELSE [callback EXCEPT !.left = @ - 1,
                                      !.idle_started = IF starts THEN TRUE ELSE @]

\* What the loop does with the action peer_message_handle asks for.
ActNone == NextMessage(FALSE) /\ UNCHANGED idle_handle

ActRequestMore(p) ==
    /\ idle_handle' = [idle_handle EXCEPT ![p] = IF callback.idle_started THEN @ ELSE TRUE]
    /\ NextMessage(TRUE)

ActStopRequesting(p) ==
    /\ idle_handle' = [idle_handle EXCEPT ![p] = FALSE]
    /\ NextMessage(FALSE)

\* peer_check_handshaked: the handshake precedes the first message.
on_handshake(p) ==
    /\ Parses(p, "handshake")
    /\ handshaked' = [handshaked EXCEPT ![p] = TRUE]
    /\ Consume(p) /\ ActNone
    /\ UNCHANGED <<pickerVars, downloadVars, disk, connection, themVars,
                   in_flight_requests, writeVars, booted, aborted, historyVars>>

\* A parse error closes the peer and ends the callback.
on_malformed(p) ==
    /\ Parses(p, "malformed")
    /\ Consume(p)
    /\ peer_close(p)
    /\ callback' = NoCallback
    /\ UNCHANGED <<pickerVars, downloadVars, disk, handshaked, themVars,
                   in_flight_requests, idle_handle, writeVars, booted, aborted,
                   historyVars>>

\* PMK_HEARTBEAT: answered with a heartbeat.
on_heartbeat(p) ==
    /\ Parses(p, "heartbeat")
    /\ Consume(p) /\ ActNone
    /\ aborted' = (WritesInUse(p) + 1 > WriteCtxs)
    /\ \/ /\ connection[p] = "open"
          /\ control_writes' = [control_writes EXCEPT ![p] = @ + 1]
          /\ UNCHANGED connection
       \/ /\ WriteMayFail(p)
          /\ peer_close(p)
          /\ UNCHANGED control_writes
    /\ UNCHANGED <<pickerVars, downloadVars, disk, handshaked, themVars,
                   in_flight_requests, request_writes, booted, historyVars>>

\* PMK_CHOKE and PMK_UNCHOKE.  Requests in flight stay counted.
on_choke(p) ==
    /\ Parses(p, "choke")
    /\ them_choked' = [them_choked EXCEPT ![p] = TRUE]
    /\ Consume(p) /\ ActStopRequesting(p)
    /\ UNCHANGED <<pickerVars, downloadVars, disk, connection, handshaked,
                   them_interested, them_have_pieces, in_flight_requests,
                   writeVars, booted, aborted, historyVars>>

\* Mutant of on_unchoke: does not ask for more blocks.
on_unchoke_asks_nothing(p) ==
    /\ Parses(p, "unchoke")
    /\ them_choked' = [them_choked EXCEPT ![p] = FALSE]
    /\ Consume(p) /\ ActNone
    /\ UNCHANGED <<pickerVars, downloadVars, disk, connection, handshaked,
                   them_interested, them_have_pieces, in_flight_requests,
                   writeVars, booted, aborted, historyVars>>

on_unchoke(p) ==
    /\ Parses(p, "unchoke")
    /\ them_choked' = [them_choked EXCEPT ![p] = FALSE]
    /\ Consume(p) /\ ActRequestMore(p)
    /\ UNCHANGED <<pickerVars, downloadVars, disk, connection, handshaked,
                   them_interested, them_have_pieces, in_flight_requests,
                   writeVars, booted, aborted, historyVars>>

\* PMK_INTERESTED, PMK_UNINTERESTED; PMK_REQUEST and PMK_CANCEL do nothing.
on_interested(p) ==
    /\ \/ /\ Parses(p, "interested")
          /\ them_interested' = [them_interested EXCEPT ![p] = TRUE]
       \/ /\ Parses(p, "uninterested")
          /\ them_interested' = [them_interested EXCEPT ![p] = FALSE]
       \/ /\ Parses(p, "request") \/ Parses(p, "cancel")
          /\ UNCHANGED them_interested
    /\ Consume(p) /\ ActNone
    /\ UNCHANGED <<pickerVars, downloadVars, disk, connection, handshaked,
                   them_choked, them_have_pieces, in_flight_requests,
                   writeVars, booted, aborted, historyVars>>

\* PMK_HAVE adds a piece, PMK_BITFIELD replaces the whole set.
on_have(p) ==
    /\ \/ /\ Parses(p, "have")
          /\ them_have_pieces' =
               [them_have_pieces EXCEPT ![p] = @ \cup {Head(inbox[p]).piece}]
       \/ /\ Parses(p, "bitfield")
          /\ them_have_pieces' =
               [them_have_pieces EXCEPT ![p] = Head(inbox[p]).pieces]
    /\ Consume(p) /\ ActRequestMore(p)
    /\ UNCHANGED <<pickerVars, downloadVars, disk, connection, handshaked,
                   them_choked, them_interested, in_flight_requests,
                   writeVars, booted, aborted, historyVars>>

-----------------------------------------------------------------------------
(* PMK_PIECE: peer_message_handle and peer_put_block. *)

\* Mutant of Verifies: the result of the comparison is ignored.
Verifies_whatever_it_reads(content, piece) == piece \in AllPieces

\* download_checksum_piece: the bytes read back are those of the piece.
Verifies(content, piece) ==
    /\ checksum_offset(M, piece) = piece * PieceLength
    /\ \A b \in blocks_of_piece(M, piece) : content[b] = "good"

\* Nothing is in flight: PEK_INVALID_PIECE closes the peer, the loop goes on.
on_unwanted_piece(p) ==
    /\ Parses(p, "piece")
    /\ in_flight_requests[p] = 0
    /\ peer_close(p)
    /\ Consume(p) /\ ActNone
    /\ UNCHANGED <<pickerVars, downloadVars, disk, handshaked, themVars,
                   in_flight_requests, writeVars, booted, aborted, historyVars>>

\* Mutant of PutFails: the failed request is no longer counted as in flight.
PutFails_uncounted(b) ==
    /\ "disk" \in Faults
    /\ disk' \in {disk, [disk EXCEPT ![b] = "bad"]}
    /\ in_flight_requests' = [in_flight_requests EXCEPT ![callback.peer] = @ - 1]
    /\ aborted' = (put_offset(b) + BlockLength > Length)
    /\ UNCHANGED <<pickerVars, downloadVars, historyVars>>

\* The write fails, wholly or in part.  peer_put_block returns PEK_OS, which
\* peer_message_handle drops: the block stays in flight.
PutFails(b) ==
    /\ "disk" \in Faults
    /\ disk' \in {disk, [disk EXCEPT ![b] = "bad"]}
    /\ aborted' = (put_offset(b) + BlockLength > Length)
    /\ UNCHANGED <<pickerVars, downloadVars, in_flight_requests, historyVars>>

PutBlock(p, b, content) ==
    LET piece  == piece_of_block(M, b)
        length == request_of_block(M, b).length
        bytes  == downloaded_bytes + length
        blocks == downloaded_blocks_count + 1
        mine   == metainfo_block_count_for_piece(M, piece)
        whole  == picker_have_all_blocks_for_piece(blocks_downloaded', piece)
        stored == put_offset(b) + BlockLength <= Length
                  /\ bytes <= Length /\ blocks <= M.blocks_count
    IN  /\ disk' = [disk EXCEPT ![b] = content]
        /\ picker_mark_block_as_downloaded(b)
        /\ in_flight_requests' = [in_flight_requests EXCEPT ![p] = @ - 1]
        /\ requests' = [requests EXCEPT ![p] = @ \ {b}]
        /\ \/ /\ ~whole
              /\ downloaded_bytes' = bytes
              /\ downloaded_blocks_count' = blocks
              /\ aborted' = ~stored
              /\ UNCHANGED <<downloaded_pieces_count, rejected>>
           \/ /\ whole /\ Verifies(disk', piece)
              /\ downloaded_bytes' = bytes
              /\ downloaded_blocks_count' = blocks
              /\ downloaded_pieces_count' = downloaded_pieces_count + 1
              /\ aborted' = ~(stored /\ downloaded_pieces_count < PiecesCount)
              /\ UNCHANGED rejected
           \/ /\ whole /\ (~Verifies(disk', piece) \/ "disk" \in Faults)
              /\ downloaded_bytes' = bytes - metainfo_piece_length(M, piece)
              /\ downloaded_blocks_count' = blocks - mine
              /\ aborted' = ~(stored /\ bytes >= metainfo_piece_length(M, piece)
                                     /\ blocks >= mine)
              /\ rejected' = rejected \cup {piece}
              /\ UNCHANGED downloaded_pieces_count

\* Mutant of on_piece: does not check that anything is in flight.
on_piece_unguarded(p) ==
    /\ Parses(p, "piece")
    /\ LET msg == Head(inbox[p])
       IN  PutBlock(p, block_of_answer(M, msg.index, msg.begin), msg.content)
    /\ Consume(p) /\ ActRequestMore(p)
    /\ UNCHANGED <<connection, handshaked, themVars, writeVars, booted>>

on_piece(p) ==
    /\ Parses(p, "piece")
    /\ in_flight_requests[p] > 0
    /\ LET msg == Head(inbox[p])
           b   == block_of_answer(M, msg.index, msg.begin)
       IN  PutFails(b) \/ PutBlock(p, b, msg.content)
    /\ Consume(p) /\ ActRequestMore(p)
    /\ UNCHANGED <<connection, handshaked, themVars, writeVars, booted>>

-----------------------------------------------------------------------------
(***************************************************************************)
(* External: a remote peer.  It greets with a handshake, may announce its  *)
(* pieces with one bitfield right after it and with Have messages later,   *)
(* chokes and unchokes us, and serves what it was asked for, in any order. *)
(***************************************************************************)
RemoteSends(p, msg) ==
    /\ Running
    /\ connection[p] = "open"
    /\ remote[p].said # "goodbye"
    /\ Len(inbox[p]) < MaxInbox
    /\ inbox' = [inbox EXCEPT ![p] = Append(@, msg)]
    /\ UNCHANGED <<pickerVars, downloadVars, disk, connection, handshaked,
                   themVars, in_flight_requests, idle_handle, writeVars,
                   callback, booted, aborted, historyVars>>

Greeted(p) == remote[p].said \in {"hello", "more"}

RemoteHandshake(p) ==
    /\ remote[p].said = "nothing"
    /\ remote' = [remote EXCEPT ![p].said = "hello"]
    /\ RemoteSends(p, [kind |-> "handshake"])
    /\ UNCHANGED asked

RemoteBitfield(p) ==
    /\ remote[p].said = "hello"
    /\ \E S \in SUBSET RemoteHas[p] :
         /\ remote' = [remote EXCEPT ![p].said = "more", ![p].announced = S]
         /\ RemoteSends(p, [kind |-> "bitfield", pieces |-> S])
    /\ UNCHANGED asked

RemoteHave(p) ==
    /\ Greeted(p)
    /\ \E piece \in RemoteHas[p] \ remote[p].announced :
         /\ remote' = [remote EXCEPT ![p].said = "more",
                                     ![p].announced = @ \cup {piece}]
         /\ RemoteSends(p, [kind |-> "have", piece |-> piece])
    /\ UNCHANGED asked

RemoteUnchoke(p) ==
    /\ Greeted(p)
    /\ remote[p].choking
    /\ remote' = [remote EXCEPT ![p].said = "more", ![p].choking = FALSE]
    /\ RemoteSends(p, [kind |-> "unchoke"])
    /\ UNCHANGED asked

RemoteChoke(p) ==
    /\ Greeted(p)
    /\ ~remote[p].choking
    /\ remote[p].chokes < MaxChokes
    /\ remote' = [remote EXCEPT ![p].said = "more", ![p].choking = TRUE,
                                ![p].chokes = @ + 1]
    /\ RemoteSends(p, [kind |-> "choke"])
    /\ \/ UNCHANGED asked
       \/ "discard" \in Faults /\ asked' = [asked EXCEPT ![p] = {}]

RemoteNoise(p) ==
    /\ Greeted(p)
    /\ remote[p].noise < MaxNoise
    /\ remote' = [remote EXCEPT ![p].said = "more", ![p].noise = @ + 1]
    /\ \E kind \in {"heartbeat", "interested", "uninterested", "request", "cancel"} :
         RemoteSends(p, [kind |-> kind])
    /\ UNCHANGED asked

Answer(b, content) ==
    LET r == request_of_block(M, b)
    IN  [kind |-> "piece", index |-> r.index, begin |-> r.begin, content |-> content]

Contents == {"good"} \cup (IF "corrupt" \in Faults THEN {"bad"} ELSE {})

RemoteServe(p) ==
    /\ Greeted(p)
    /\ \E b \in asked[p], content \in Contents :
         /\ asked' = [asked EXCEPT ![p] = @ \ {b}]
         /\ RemoteSends(p, Answer(b, content))
    /\ UNCHANGED remote

\* Misbehaviour, and the end of the connection.
RemoteMisbehaves(p) ==
    /\ \/ /\ "eof" \in Faults
          /\ RemoteSends(p, [kind |-> "eof"])
          /\ remote' = [remote EXCEPT ![p].said = "goodbye"]
       \/ /\ "malformed" \in Faults
          /\ RemoteSends(p, [kind |-> "malformed"])
          /\ remote' = [remote EXCEPT ![p].said = "goodbye"]
       \/ /\ "unsolicited" \in Faults
          /\ Greeted(p)
          /\ remote[p].noise < MaxNoise
          /\ remote' = [remote EXCEPT ![p].said = "more", ![p].noise = @ + 1]
          /\ \E b \in AllBlocks, content \in Contents :
               RemoteSends(p, Answer(b, content))
    /\ UNCHANGED asked

-----------------------------------------------------------------------------
(* The file may hold good blocks of an earlier run: O_RDWR | O_CREAT. *)
Init ==
    /\ blocks_to_download = AllBlocks
    /\ blocks_downloading = {}
    /\ blocks_downloaded = {}
    /\ downloaded_pieces_count = 0
    /\ downloaded_blocks_count = 0
    /\ downloaded_bytes = 0
    /\ disk \in { [b \in AllBlocks |-> c] : c \in {"good", "bad"} }
    /\ connection = [p \in Peers |-> "init"]
    /\ handshaked = [p \in Peers |-> FALSE]
    /\ them_choked = [p \in Peers |-> TRUE]
    /\ them_interested = [p \in Peers |-> FALSE]
    /\ them_have_pieces = [p \in Peers |-> {}]
    /\ in_flight_requests = [p \in Peers |-> 0]
    /\ idle_handle = [p \in Peers |-> FALSE]
    /\ control_writes = [p \in Peers |-> 0]
    /\ request_writes = [p \in Peers |-> {}]
    /\ callback = NoCallback
    /\ booted = FALSE
    /\ aborted = FALSE
    /\ inbox = [p \in Peers |-> <<>>]
    /\ asked = [p \in Peers |-> {}]
    /\ remote = [p \in Peers |-> [said |-> "nothing", announced |-> {},
                                  choking |-> TRUE, chokes |-> 0, noise |-> 0]]
    /\ requests = [p \in Peers |-> {}]
    /\ rejected = {}

HandleMessage(p) ==
    \/ on_handshake(p) \/ on_malformed(p) \/ on_heartbeat(p)
    \/ on_choke(p) \/ on_unchoke(p) \/ on_interested(p) \/ on_have(p)
    \/ on_unwanted_piece(p) \/ on_piece(p)

Client(p) ==
    \/ peer_on_connect(p) \/ peer_on_write(p) \/ peer_on_close(p)
    \/ peer_on_idle(p) \/ peer_on_read(p) \/ HandleMessage(p)

Remote(p) ==
    \/ RemoteHandshake(p) \/ RemoteBitfield(p) \/ RemoteHave(p)
    \/ RemoteUnchoke(p) \/ RemoteChoke(p) \/ RemoteNoise(p)
    \/ RemoteServe(p) \/ RemoteMisbehaves(p)

Next == main \/ \E p \in Peers : Client(p) \/ Remote(p)

Spec == Init /\ [][Next]_vars

(***************************************************************************)
(* Fairness.  uv_run keeps running every callback that is due, and the     *)
(* loop of a read callback runs to its end.  Of a remote we assume that it *)
(* greets, announces what it has, unchokes in the end and serves requests. *)
(***************************************************************************)
Fairness ==
    /\ WF_vars(main)
    /\ \A p \in Peers :
         /\ WF_vars(peer_on_connect(p)) /\ WF_vars(peer_on_write(p))
         /\ WF_vars(peer_on_close(p)) /\ WF_vars(peer_on_idle(p))
         /\ WF_vars(peer_on_read(p)) /\ WF_vars(HandleMessage(p))
         /\ WF_vars(RemoteHandshake(p)) /\ WF_vars(RemoteHave(p))
         /\ WF_vars(RemoteUnchoke(p)) /\ WF_vars(RemoteServe(p))

FairSpec == Spec /\ Fairness

-----------------------------------------------------------------------------
(* Properties. *)

Messages ==
    [kind : {"handshake", "malformed", "heartbeat", "choke", "unchoke",
             "interested", "uninterested", "request", "cancel", "eof"}]
    \cup [kind : {"have"}, piece : AllPieces]
    \cup [kind : {"bitfield"}, pieces : SUBSET AllPieces]
    \cup { Answer(b, content) : b \in AllBlocks, content \in {"good", "bad"} }

Callbacks == {NoCallback}
    \cup [peer : Peers, left : Nat \ {0}, idle_started : BOOLEAN]

\* Every variable keeps its type; the unsigned counters never go below zero
\* (where the roll back of a piece would take them there, an assert() fails).
TypeOK ==
    /\ blocks_to_download \subseteq AllBlocks
    /\ blocks_downloading \subseteq AllBlocks
    /\ blocks_downloaded \subseteq AllBlocks
    /\ downloaded_pieces_count \in Nat
    /\ downloaded_blocks_count \in Int
    /\ downloaded_bytes \in Int
    /\ ~aborted => downloaded_blocks_count >= 0 /\ downloaded_bytes >= 0
    /\ disk \in [AllBlocks -> {"good", "bad"}]
    /\ connection \in [Peers -> {"init", "connecting", "open", "closing", "closed"}]
    /\ handshaked \in [Peers -> BOOLEAN]
    /\ them_choked \in [Peers -> BOOLEAN]
    /\ them_interested \in [Peers -> BOOLEAN]
    /\ them_have_pieces \in [Peers -> SUBSET AllPieces]
    /\ in_flight_requests \in [Peers -> Nat]
    /\ idle_handle \in [Peers -> BOOLEAN]
    /\ control_writes \in [Peers -> Nat]
    /\ request_writes \in [Peers -> SUBSET AllBlocks]
    /\ callback \in Callbacks
    /\ booted \in BOOLEAN /\ aborted \in BOOLEAN
    /\ inbox \in [Peers -> Seq(Messages)]
    /\ callback # NoCallback => callback.left <= Len(inbox[callback.peer])
    /\ asked \in [Peers -> SUBSET AllBlocks]
    /\ remote \in [Peers -> [said : {"nothing", "hello", "more", "goodbye"},
                             announced : SUBSET AllPieces, choking : BOOLEAN,
                             chokes : Nat, noise : Nat]]
    /\ requests \in [Peers -> SUBSET AllBlocks]
    /\ rejected \subseteq AllPieces

(***************************************************************************)
(* A block is in exactly one place: to download, downloading or            *)
(* downloaded.  The three bit arrays are updated by callbacks of different *)
(* peers and none of the updates looks at all three.                       *)
(***************************************************************************)
BlocksPartition ==
    /\ blocks_to_download \cap blocks_downloading = {}
    /\ blocks_to_download \cap blocks_downloaded = {}
    /\ blocks_downloading \cap blocks_downloaded = {}
    /\ blocks_to_download \cup blocks_downloading \cup blocks_downloaded = AllBlocks

(***************************************************************************)
(* in_flight_requests counts what is in flight: it is the number of blocks *)
(* requested through the peer and not stored yet, no block is in flight    *)
(* through two peers, the pipeline never exceeds its limit, and the blocks *)
(* marked as downloading are exactly those.                                *)
(***************************************************************************)
InFlightAccounting ==
    /\ \A p \in Peers :
         /\ in_flight_requests[p] = Cardinality(requests[p])
         /\ in_flight_requests[p] <= MaxInFlight
         /\ \A q \in Peers : p # q => requests[p] \cap requests[q] = {}
    /\ blocks_downloading = UNION { requests[p] : p \in Peers }

\* No assert() of the peer code fails.
NoAssertionFails == ~aborted

\* A piece whose blocks are all here and whose checksum step succeeded.
Verified(piece) ==
    /\ blocks_of_piece(M, piece) \subseteq blocks_downloaded
    /\ piece \notin rejected

(***************************************************************************)
(* The counters agree with the picker: blocks and bytes count the stored   *)
(* blocks of pieces that were not rolled back, pieces count the verified   *)
(* ones, and a verified piece is good on disk.                             *)
(***************************************************************************)
CountersAgree ==
    LET counted == { b \in blocks_downloaded : piece_of_block(M, b) \notin rejected }
        last    == M.blocks_count - 1
    IN  ~aborted =>
        /\ downloaded_blocks_count = Cardinality(counted)
        /\ downloaded_bytes = BlockLength * Cardinality(counted)
             - (IF last \in counted
                THEN BlockLength - request_of_block(M, last).length ELSE 0)
        /\ downloaded_pieces_count = Cardinality({ x \in AllPieces : Verified(x) })
        /\ \A x \in AllPieces : Verified(x) =>
             \A b \in blocks_of_piece(M, x) : disk[b] = "good"

(***************************************************************************)
(* Why InFlightAccounting is kept: a request is in one place only.  The    *)
(* block of a Request waiting to be written, held by the remote, or        *)
(* answered by a message on its way, is in flight, and in no other of      *)
(* these places.  (A remote may also forget a request: then it is in none.)*)
(***************************************************************************)
BlockOf(msg) == block_of_answer(M, msg.index, msg.begin)

RequestsInOnePlace ==
    \A p \in Peers :
        /\ request_writes[p] \subseteq requests[p]
        /\ asked[p] \subseteq requests[p]
        /\ request_writes[p] \cap asked[p] = {}
        /\ \A i \in 1 .. Len(inbox[p]) : inbox[p][i].kind = "piece" =>
             /\ BlockOf(inbox[p][i]) \in requests[p]
             /\ BlockOf(inbox[p][i]) \notin request_writes[p] \cup asked[p]
             /\ \A j \in 1 .. Len(inbox[p]) :
                  inbox[p][j].kind = "piece" /\ i # j =>
                    BlockOf(inbox[p][i]) # BlockOf(inbox[p][j])

(***************************************************************************)
(* Whatever a remote sends, asked for or not: the pipeline stays within    *)
(* its limit and never counts more than was requested, and no block is     *)
(* requested again while a request for it is outstanding.                  *)
(***************************************************************************)
PipelineLimits ==
    \A p \in Peers :
        /\ in_flight_requests[p] \in 0 .. MaxInFlight
        /\ in_flight_requests[p] <= Cardinality(requests[p])
        /\ \A q \in Peers \ {p} : requests[p] \cap requests[q] = {}

(***************************************************************************)
(* A verified piece is never written again, whatever blocks of it or of    *)
(* other pieces arrive later through other peers.                          *)
(***************************************************************************)
VerifiedPiecesAreFinal ==
    [][\A x \in AllPieces : Verified(x) =>
         \A b \in blocks_of_piece(M, x) : disk'[b] = disk[b]]_vars

(***************************************************************************)
(* No lost wakeup: between callbacks, a connected peer that has unchoked   *)
(* us, has room in its pipeline and has a block we still want has its idle *)
(* handle running, so that the block will be requested.                    *)
(***************************************************************************)
NoLostWakeup ==
    \A p \in Peers :
        /\ callback = NoCallback /\ ~aborted
        /\ connection[p] = "open" /\ ~them_choked[p]
        /\ in_flight_requests[p] < MaxInFlight
        /\ Pickable(p) # {}
        => idle_handle[p]

\* With cooperating remotes the whole file is downloaded and verified.
DownloadCompletes ==
    <>(blocks_downloaded = AllBlocks /\ downloaded_pieces_count = PiecesCount)

=============================================================================
