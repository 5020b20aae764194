----------------------------- MODULE MessageStream -----------------------------
(***************************************************************************)
(* What reading a connection promises to the handlers: they are given the  *)
(* messages the remote has sent, each once, unchanged and in order, up to  *)
(* the first one that is not acceptable.  Bytes, reads and buffers do not  *)
(* appear.  Reading may stop anywhere: connections are lost.               *)
(***************************************************************************)
EXTENDS Naturals, Sequences

CONSTANT Acceptable(_)  \* is this a message that a peer has to understand?

VARIABLES
    sent,       \* what the remote sends, in order
    handled     \* what peer_message_handle was given, in order

Init == handled = <<>>

Next ==
    /\ Len(handled) < Len(sent)
    /\ Acceptable(sent[Len(handled) + 1])
    /\ handled' = Append(handled, sent[Len(handled) + 1])
    /\ UNCHANGED sent

Spec == Init /\ [][Next]_<<sent, handled>>
=============================================================================
