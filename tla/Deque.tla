---------------------------------- MODULE Deque ----------------------------------
(***************************************************************************)
(* What the ring buffer of src/pg/pg.h promises: a queue of at most Cap    *)
(* bytes with two ends. `out` is what the last operation returned.         *)
(***************************************************************************)
EXTENDS Integers, Sequences

CONSTANTS Cap, Values
VARIABLES queue, out

DequeInit == queue = <<>> /\ out = <<>>

PushBack(bytes) == Len(queue) + Len(bytes) <= Cap /\ queue' = queue \o bytes /\ UNCHANGED out
PushFront(x)    == Len(queue) < Cap /\ queue' = <<x>> \o queue /\ UNCHANGED out
DropFront(n)    == n <= Len(queue) /\ queue' = SubSeq(queue, n + 1, Len(queue))
DropBack(n)     == n <= Len(queue) /\ queue' = SubSeq(queue, 1, Len(queue) - n)
PopFront        == DropFront(1) /\ out' = <<queue[1]>>
PopBack         == DropBack(1) /\ out' = <<queue[Len(queue)]>>
Clear           == queue' = <<>> /\ UNCHANGED out

DequeNext == \/ \E n \in 0 .. Cap : \E bytes \in [1 .. n -> Values] : PushBack(bytes)
             \/ \E x \in Values : PushFront(x)
             \/ PopFront \/ PopBack \/ Clear
             \/ \E n \in 0 .. Cap : (DropFront(n) \/ DropBack(n)) /\ UNCHANGED out
DequeSpec == DequeInit /\ [][DequeNext]_<<queue, out>>
=============================================================================
