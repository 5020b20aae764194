--------------------------------- MODULE Ring ---------------------------------
(***************************************************************************)
(* The ring buffer of bytes of src/pg/pg.h, as far as the peer code uses   *)
(* it.  A ring is a record with the fields of pg_ring_t that change: the   *)
(* bytes themselves, the index of the first one, and how many there are.   *)
(* Its promise is to be a queue of at most RingCap bytes.                  *)
(***************************************************************************)
EXTENDS Integers, Sequences

CONSTANT RingCap        \* cap: 2 * 17000 bytes in peer_init

ASSUME RingCapAssumption == RingCap \in Nat \ {0}

Slots == 0 .. RingCap - 1

\* The memory is zeroed by the allocator.
pg_ring_init == [data |-> [i \in Slots |-> 0], offset |-> 0, len |-> 0]

\* The i-th byte of the queue, counted from 0.
pg_ring_get(r, i) == r.data[(r.offset + i) % RingCap]

pg_ring_space(r) == RingCap - r.len

\* Mutant of pg_ring_consume_front: the offset runs past the end.
pg_ring_consume_front_unwrapped(r, n) ==
    [r EXCEPT !.offset = @ + n, !.len = @ - n]

\* Also what n times pg_ring_pop_front leave behind.
pg_ring_consume_front(r, n) ==
    [r EXCEPT !.offset = (@ + n) % RingCap, !.len = @ - n]

\* Mutant of pg_ring_push_backv: the head gets the first bytes once more.
pg_ring_push_backv_restarts(r, bytes) ==
    LET index == (r.offset + r.len) % RingCap
        tail  == IF Len(bytes) > RingCap - index THEN RingCap - index ELSE Len(bytes)
        head  == Len(bytes) - tail
    IN  [r EXCEPT !.data = [ i \in Slots |->
                               IF i < head THEN bytes[i + 1]
                               ELSE IF i \in index .. index + tail - 1
                               THEN bytes[i - index + 1]
                               ELSE @[i] ],
                  !.len  = @ + Len(bytes)]

\* Two copies: from the end of the queue to the end of the memory, and what
\* is left over to the start of the memory.
pg_ring_push_backv(r, bytes) ==
    LET index == (r.offset + r.len) % RingCap
        tail  == IF Len(bytes) > RingCap - index THEN RingCap - index ELSE Len(bytes)
        head  == Len(bytes) - tail
    IN  [r EXCEPT !.data = [ i \in Slots |->
                               IF i < head THEN bytes[tail + i + 1]
                               ELSE IF i \in index .. index + tail - 1
                               THEN bytes[i - index + 1]
                               ELSE @[i] ],
                  !.len  = @ + Len(bytes)]
=============================================================================
