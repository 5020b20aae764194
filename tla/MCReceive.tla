------------------------------- MODULE MCReceive -------------------------------
(***************************************************************************)
(* Instances of Receive for TLC: three pieces, blocks of four bytes, a     *)
(* handshake of eight bytes, and remotes that follow the protocol, greet   *)
(* wrongly, or send one message that has to be rejected.                   *)
(***************************************************************************)
EXTENDS Receive

CONSTANTS MaxMessages   \* bound on the messages of an honest remote

SmallHeader   == <<19, 66>>
SmallReserved == <<0, 0>>
SmallInfoHash == <<7, 8>>
SmallPeerId   == <<1, 2>>

GoodMessages ==
    { [kind |-> "heartbeat"],
      [kind |-> "unchoke"],
      [kind |-> "have", have |-> 2],
      [kind |-> "bitfield", pieces |-> {0, 2}],
      [kind |-> "request", index |-> 1, begin |-> 4, length |-> 4],
      [kind |-> "piece", index |-> 0, begin |-> 4, data |-> <<5, 0, 0, 1>>],
      [kind |-> "piece", index |-> 2, begin |-> 0, data |-> <<9>>] }

\* A tag that does not exist, a have that is too short, a block beyond the end
\* of its piece, one that is not a whole block, and one longer than the ring.
BadMessages ==
    { [kind |-> "raw", bytes |-> <<0, 0, 0, 1, 9>>],
      [kind |-> "raw", bytes |-> <<0, 0, 0, 4, 4, 0, 0, 2>>],
      [kind |-> "raw", bytes |-> <<0, 0, 0, 1, 20>>],
      [kind |-> "raw", bytes |-> Framed(PT_PIECE, U32Bytes(2) \o U32Bytes(4) \o <<1>>)],
      [kind |-> "raw", bytes |-> Framed(PT_PIECE, U32Bytes(0) \o U32Bytes(0) \o <<1, 2>>)],
      [kind |-> "raw", bytes |-> Framed(PT_PIECE, [i \in 1 .. 40 |-> i])] }

GoodStreams == UNION { [1 .. n -> GoodMessages] : n \in 0 .. MaxMessages }
BadStreams  == { <<g, b, h>> : g, h \in {[kind |-> "unchoke"], [kind |-> "have", have |-> 1]},
                               b \in BadMessages }
AllStreams  == GoodStreams \cup BadStreams

WrongHeader == <<19, 67>> \o SmallReserved \o SmallInfoHash \o SmallPeerId
WrongHash   == SmallHeader \o SmallReserved \o <<8, 7>> \o SmallPeerId
AllOpenings == {Handshake, WrongHeader, WrongHash}
=============================================================================
