-------------------------------- MODULE RingDeque --------------------------------
(***************************************************************************)
(* Every operation of the ring buffer of src/pg/pg.h, called within its    *)
(* assertions, and the queue with two ends that it implements. Receive     *)
(* uses the two operations that the torrent client needs.                  *)
(***************************************************************************)
EXTENDS Ring

CONSTANT RingValues   \* of a byte

VARIABLES ring,
          out     \* what the last pop returned
ringVars == <<ring, out>>

\* Mutant of Before: without adding the capacity, which unsigned numbers need.
Before_saturates(offset) == IF offset = 0 THEN 0 ELSE offset - 1
Before(offset) == (offset - 1 + RingCap) % RingCap
At(i)          == (ring.offset + i) % RingCap

RingInit == ring = pg_ring_init /\ out = <<>>

PushBackv(bytes) == \* pg_ring_push_backv
    /\ Len(bytes) <= pg_ring_space(ring)
    /\ ring' = pg_ring_push_backv(ring, bytes) /\ UNCHANGED out

pg_ring_push_back(x) ==
    /\ ring.len < RingCap
    /\ ring' = [ring EXCEPT !.data = [@ EXCEPT ![At(ring.len)] = x], !.len = @ + 1]
    /\ UNCHANGED out

pg_ring_push_front(x) ==
    /\ ring.len < RingCap
    /\ ring' = [ring EXCEPT !.offset = Before(ring.offset),
                            !.data = [@ EXCEPT ![Before(ring.offset)] = x], !.len = @ + 1]
    /\ UNCHANGED out

\* pg_ring_back, and then consume_back of one.
pg_ring_pop_back ==
    /\ ring.len > 0
    /\ ring' = [ring EXCEPT !.len = @ - 1]
    /\ out' = <<ring.data[At(ring.len - 1)]>>

\* pg_ring_front, and then consume_front of one.
pg_ring_pop_front ==
    /\ ring.len > 0
    /\ ring' = pg_ring_consume_front(ring, 1)
    /\ out' = <<ring.data[ring.offset]>>

ConsumeFront(n) == n <= ring.len /\ ring' = pg_ring_consume_front(ring, n) /\ UNCHANGED out
pg_ring_consume_back(n) == n <= ring.len /\ ring' = [ring EXCEPT !.len = @ - n] /\ UNCHANGED out
pg_ring_clear == ring' = [ring EXCEPT !.offset = 0, !.len = 0] /\ UNCHANGED out

RingNext ==
    \/ \E x \in RingValues : pg_ring_push_back(x) \/ pg_ring_push_front(x)
    \/ \E n \in 0 .. RingCap : \E bytes \in [1 .. n -> RingValues] : PushBackv(bytes)
    \/ pg_ring_pop_back \/ pg_ring_pop_front \/ pg_ring_clear
    \/ \E n \in 0 .. RingCap : ConsumeFront(n) \/ pg_ring_consume_back(n)
RingSpec == RingInit /\ [][RingNext]_ringVars

-----------------------------------------------------------------------------
\* The bytes that pg_ring_get(0), pg_ring_get(1), ... return.
Contents == [i \in 1 .. ring.len |-> pg_ring_get(ring, i - 1)]

D == INSTANCE Deque WITH Cap <- RingCap, Values <- RingValues, queue <- Contents

\* The ring is a queue with two ends: bytes come out at either end in the order
\* they went in, wherever the memory wraps around.
RingIsADeque == D!DequeInit /\ [][D!DequeNext]_<<Contents, out>>
=============================================================================
