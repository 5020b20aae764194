------------------------------ MODULE RingProofs ------------------------------
(***************************************************************************)
(* What the operations of the ring buffer do to the queue of bytes that it *)
(* holds, for every capacity and every kind of byte.                       *)
(***************************************************************************)
EXTENDS Ring, FiniteSetTheorems, SequenceTheorems, TLAPS

USE RingCapAssumption DEF Slots

Rings(ByteSet) == [data : [Slots -> ByteSet], offset : Slots, len : 0 .. RingCap]

-----------------------------------------------------------------------------
(* Arithmetic modulo the capacity. *)

\* Quotient and remainder, as the other lemmas use them.
LEMMA DivMod ==
    ASSUME NEW a \in Int, NEW n \in Nat \ {0}
    PROVE  /\ a \div n \in Int
           /\ a % n \in Nat
           /\ a % n < n
           /\ a = n * (a \div n) + (a % n)
  OBVIOUS

\* Quotient and remainder are determined by a decomposition.
LEMMA DivModUnique ==
    ASSUME NEW q \in Int, NEW r \in Nat, NEW n \in Nat \ {0}, r < n
    PROVE  /\ (n * q + r) \div n = q
           /\ (n * q + r) % n = r
  OBVIOUS

\* Adding to a remainder is adding to the number.
LEMMA ModAdd ==
    ASSUME NEW a \in Nat, NEW b \in Nat, NEW n \in Nat \ {0}
    PROVE  ((a % n) + b) % n = (a + b) % n
  <1> DEFINE q == a \div n
             c == (a % n) + b
  <1>1. q \in Int /\ a % n \in Nat /\ a = n * q + (a % n)
    BY DivMod
  <1>2. c \in Nat
    BY <1>1
  <1>3. c \div n \in Int /\ c % n \in Nat /\ c % n < n /\ c = n * (c \div n) + (c % n)
    BY <1>2, DivMod
  <1>4. n * q + n * (c \div n) = n * (q + (c \div n))
    BY <1>1, <1>3
  <1>5. a + b = n * (q + (c \div n)) + (c % n)
    BY <1>1, <1>3, <1>4
  <1>6. q + (c \div n) \in Int
    BY <1>1, <1>3
  <1> HIDE DEF q, c
  <1>7. (n * (q + (c \div n)) + (c % n)) % n = c % n
    BY <1>3, <1>6, DivModUnique
  <1> QED
    BY <1>5, <1>7 DEF c

\* An index that runs past the end by less than a round wraps around once.
LEMMA WrapOnce ==
    ASSUME NEW x \in Nat, NEW n \in Nat \ {0}, x < 2 * n
    PROVE  /\ x < n => x % n = x
           /\ x >= n => x % n = x - n
  <1>1. CASE x < n
    <2>1. (n * 0 + x) % n = x
      BY <1>1, DivModUnique
    <2> QED
      BY <1>1, <2>1
  <1>2. CASE x >= n
    <2>1. x - n \in Nat /\ x - n < n
      BY <1>2
    <2>2. (n * 1 + (x - n)) % n = x - n
      BY <2>1, DivModUnique
    <2> QED
      BY <1>2, <2>2
  <1> QED
    BY <1>1, <1>2

-----------------------------------------------------------------------------
(* The two operations on the ring. *)

\* The fields of a ring.
LEMMA RingFields ==
    ASSUME NEW ByteSet, NEW r \in Rings(ByteSet)
    PROVE  /\ r.offset \in Nat /\ r.offset < RingCap
           /\ r.len \in Nat /\ r.len <= RingCap
           /\ r.data \in [Slots -> ByteSet]
  BY DEF Rings

\* Consuming n bytes leaves a ring whose i-th byte was the (n + i)-th.
LEMMA ConsumeFrontDrops ==
    ASSUME NEW ByteSet, NEW r \in Rings(ByteSet), NEW n \in 0 .. r.len
    PROVE  LET s == pg_ring_consume_front(r, n)
           IN  /\ s \in Rings(ByteSet)
               /\ s.len = r.len - n
               /\ \A i \in Nat : pg_ring_get(s, i) = pg_ring_get(r, n + i)
  <1> DEFINE s == pg_ring_consume_front(r, n)
             a == r.offset + n
             o == a % RingCap
             l == r.len - n
  <1>1. /\ n \in Nat /\ a \in Nat /\ l \in 0 .. RingCap
        /\ r.offset \in Nat
    BY RingFields
  <1>2. /\ s = [r EXCEPT !.offset = o, !.len = l]
        /\ s.data = r.data /\ s.offset = o /\ s.len = l
    BY DEF pg_ring_consume_front, Rings
  <1> HIDE DEF s, a, l
  <1>3. o \in 0 .. RingCap - 1
    BY <1>1, DivMod
  <1>4. s \in Rings(ByteSet)
    <2> HIDE DEF o
    <2> QED
      BY <1>1, <1>2, <1>3 DEF Rings
  <1>5. ASSUME NEW i \in Nat
        PROVE  pg_ring_get(s, i) = pg_ring_get(r, n + i)
    <2>1. (o + i) % RingCap = (a + i) % RingCap
      BY <1>1, ModAdd
    <2>2. a + i = r.offset + (n + i)
      BY <1>1 DEF a
    <2> QED
      BY <1>2, <2>1, <2>2 DEF pg_ring_get
  <1> QED
    BY <1>2, <1>4, <1>5 DEF s, l

\* What a ring holds is a byte.
LEMMA GetIsByte ==
    ASSUME NEW ByteSet, NEW r \in Rings(ByteSet), NEW i \in Nat
    PROVE  pg_ring_get(r, i) \in ByteSet
  <1> DEFINE a == r.offset + i
  <1>1. a \in Nat
    BY RingFields
  <1> HIDE DEF a
  <1>2. a % RingCap \in Slots
    BY <1>1, DivMod
  <1>3. r.data[a % RingCap] \in ByteSet
    BY <1>2, RingFields
  <1> QED
    BY <1>3 DEF pg_ring_get, a

\* Where the i-th byte of a ring is kept.
LEMMA SlotOf ==
    ASSUME NEW ByteSet, NEW r \in Rings(ByteSet), NEW i \in Nat, i <= RingCap
    PROVE  /\ (r.offset + i) % RingCap \in 0 .. RingCap - 1
           /\ r.offset + i < RingCap => (r.offset + i) % RingCap = r.offset + i
           /\ r.offset + i >= RingCap => (r.offset + i) % RingCap = (r.offset + i) - RingCap
  <1> DEFINE x == r.offset + i
  <1>1. x \in Nat /\ x < 2 * RingCap
    BY RingFields
  <1> HIDE DEF x
  <1>2. /\ x < RingCap => x % RingCap = x
        /\ x >= RingCap => x % RingCap = x - RingCap
    BY <1>1, WrapOnce
  <1>3. x % RingCap \in 0 .. RingCap - 1
    BY <1>1, <1>2
  <1> QED
    BY <1>2, <1>3, Zenon DEF x

\* The numbers of pg_ring_push_backv: n bytes that fit are put behind the len
\* bytes that start at offset, from index on and, all but tail of them, from 0.
Split(cap, offset, len, n, index, tail) ==
    /\ cap \in Nat /\ offset \in Nat /\ len \in Nat
    /\ n \in Nat /\ index \in Nat /\ tail \in Int
    /\ offset < cap /\ len <= cap /\ n <= cap - len /\ index < cap
    /\ offset + len < cap => index = offset + len
    /\ offset + len >= cap => index = (offset + len) - cap
    /\ \/ n > cap - index /\ tail = cap - index
       \/ n <= cap - index /\ tail = n

\* Byte i of a queue that starts at offset is kept in slot.
KeptIn(cap, offset, i, slot) ==
    /\ i \in Nat /\ slot \in Nat /\ slot < cap
    /\ offset + i < cap => slot = offset + i
    /\ offset + i >= cap => slot = (offset + i) - cap

\* The slot that pg_ring_get computes.
LEMMA SlotIsKept ==
    ASSUME NEW ByteSet, NEW r \in Rings(ByteSet), NEW i \in Nat, i <= RingCap
    PROVE  /\ (r.offset + i) % RingCap \in Slots
           /\ KeptIn(RingCap, r.offset, i, (r.offset + i) % RingCap)
  <1> DEFINE slot == (r.offset + i) % RingCap
  <1>1. /\ slot \in 0 .. RingCap - 1
        /\ r.offset + i < RingCap => slot = r.offset + i
        /\ r.offset + i >= RingCap => slot = (r.offset + i) - RingCap
    BY SlotOf, Zenon
  <1> HIDE DEF slot
  <1>2. slot \in Slots /\ KeptIn(RingCap, r.offset, i, slot)
    BY <1>1 DEF KeptIn
  <1> QED
    BY <1>2, Zenon DEF slot

\* The second copy ends before the first byte of the queue.
LEMMA TwoCopies ==
    ASSUME NEW cap, NEW offset, NEW len, NEW n, NEW index, NEW tail,
           Split(cap, offset, len, n, index, tail)
    PROVE  /\ tail \in 0 .. n /\ n - tail \in 0 .. n
           /\ index + tail <= cap
           /\ n - tail <= index
  BY DEF Split

\* Neither copy touches the slot of a byte that is in the queue already.
LEMMA OldSlots ==
    ASSUME NEW cap, NEW offset, NEW len, NEW n, NEW index, NEW tail,
           NEW i, NEW slot,
           Split(cap, offset, len, n, index, tail),
           KeptIn(cap, offset, i, slot), i < len
    PROVE  ~(slot < n - tail) /\ slot \notin index .. index + tail - 1
  BY DEF Split, KeptIn

\* One of them writes byte j of the new ones where the queue goes on.
LEMMA NewSlots ==
    ASSUME NEW cap, NEW offset, NEW len, NEW n, NEW index, NEW tail,
           NEW j, NEW slot,
           Split(cap, offset, len, n, index, tail),
           j \in Nat, j < n, KeptIn(cap, offset, len + j, slot)
    PROVE  /\ j < tail => /\ ~(slot < n - tail)
                          /\ slot \in index .. index + tail - 1
                          /\ slot - index + 1 = j + 1
           /\ ~(j < tail) => slot < n - tail /\ tail + slot + 1 = j + 1
  BY DEF Split, KeptIn

\* Pushing bytes that fit keeps what was there, and appends them.
LEMMA PushBackvAppends ==
    ASSUME NEW ByteSet, NEW r \in Rings(ByteSet), NEW bytes \in Seq(ByteSet),
           Len(bytes) <= RingCap - r.len
    PROVE  LET s == pg_ring_push_backv(r, bytes)
           IN  /\ s \in Rings(ByteSet)
               /\ s.len = r.len + Len(bytes)
               /\ \A i \in 0 .. r.len - 1 : pg_ring_get(s, i) = pg_ring_get(r, i)
               /\ \A j \in 0 .. Len(bytes) - 1 : pg_ring_get(s, r.len + j) = bytes[j + 1]
  <1> DEFINE s     == pg_ring_push_backv(r, bytes)
             n     == Len(bytes)
             index == (r.offset + r.len) % RingCap
             tail  == IF n > RingCap - index THEN RingCap - index ELSE n
             head  == n - tail
             d     == [ i \in Slots |->
                          IF i < head THEN bytes[tail + i + 1]
                          ELSE IF i \in index .. index + tail - 1
                          THEN bytes[i - index + 1]
                          ELSE r.data[i] ]
             l     == r.len + n
  <1>0. /\ r.offset \in Nat /\ r.offset < RingCap
        /\ r.len \in Nat /\ r.len <= RingCap
        /\ r.data \in [Slots -> ByteSet]
        /\ RingCap \in Nat
    BY RingFields
  <1>1. n \in Nat /\ n <= RingCap - r.len /\ l \in 0 .. RingCap
    BY <1>0
  <1>2. /\ index \in 0 .. RingCap - 1
        /\ r.offset + r.len < RingCap => index = r.offset + r.len
        /\ r.offset + r.len >= RingCap => index = (r.offset + r.len) - RingCap
    BY SlotOf, <1>0
  <1>3. /\ s = [r EXCEPT !.data = d, !.len = l]
        /\ s.data = d /\ s.offset = r.offset /\ s.len = l
    BY DEF pg_ring_push_backv, Rings
  <1>4. \A k \in 1 .. n : bytes[k] \in ByteSet
    OBVIOUS
  <1> HIDE DEF s, n, index, l
  <1>split. Split(RingCap, r.offset, r.len, n, index, tail)
    BY <1>0, <1>1, <1>2 DEF Split
  <1> HIDE DEF tail
  <1>5. /\ tail \in 0 .. n /\ n - tail \in 0 .. n
        /\ index + tail <= RingCap
        /\ n - tail <= index
    BY <1>split, TwoCopies
  <1>6. d \in [Slots -> ByteSet]
    <2>1. ASSUME NEW i \in Slots
          PROVE  d[i] \in ByteSet
      <3> i \in Nat /\ tail \in Nat /\ index \in Nat
        BY <1>2, <1>5
      <3>1. CASE i < head
        <4>1. tail + i + 1 \in 1 .. n
          BY <1>1, <1>2, <1>5, <3>1
        <4> QED
          BY <1>4, <3>1, <4>1
      <3>2. CASE ~(i < head) /\ i \in index .. index + tail - 1
        <4>1. i - index + 1 \in 1 .. n
          BY <1>1, <1>2, <1>5, <3>2
        <4> QED
          BY <1>4, <3>2, <4>1
      <3>3. CASE ~(i < head) /\ i \notin index .. index + tail - 1
        BY <3>3, <1>0
      <3> QED
        BY <3>1, <3>2, <3>3
    <2> QED
      BY <2>1
  <1>7. s \in Rings(ByteSet)
    <2> HIDE DEF d
    <2> QED
      BY <1>1, <1>3, <1>6 DEF Rings
  <1>8. ASSUME NEW i \in 0 .. r.len - 1
        PROVE  pg_ring_get(s, i) = pg_ring_get(r, i)
    <2> DEFINE slot == (r.offset + i) % RingCap
    <2>1. slot \in Slots /\ KeptIn(RingCap, r.offset, i, slot)
      <3>1. i \in Nat /\ i <= RingCap
        BY <1>0
      <3> QED
        BY <3>1, SlotIsKept
    <2>2. pg_ring_get(s, i) = d[slot] /\ pg_ring_get(r, i) = r.data[slot]
      BY <1>3 DEF pg_ring_get
    <2> HIDE DEF slot
    <2>3. ~(slot < head) /\ slot \notin index .. index + tail - 1
      BY <1>0, <1>split, <2>1, OldSlots
    <2> QED
      BY <2>1, <2>2, <2>3
  <1>9. ASSUME NEW j \in 0 .. n - 1
        PROVE  pg_ring_get(s, r.len + j) = bytes[j + 1]
    <2> DEFINE slot == (r.offset + (r.len + j)) % RingCap
    <2>1. slot \in Slots /\ KeptIn(RingCap, r.offset, r.len + j, slot)
      <3>1. r.len + j \in Nat /\ r.len + j <= RingCap
        BY <1>0, <1>1
      <3> QED
        BY <3>1, SlotIsKept
    <2>2. pg_ring_get(s, r.len + j) = d[slot]
      BY <1>3 DEF pg_ring_get
    <2> HIDE DEF slot
    <2>3. /\ j < tail => /\ ~(slot < head)
                         /\ slot \in index .. index + tail - 1
                         /\ slot - index + 1 = j + 1
          /\ ~(j < tail) => slot < head /\ tail + slot + 1 = j + 1
      BY <1>1, <1>split, <2>1, NewSlots
    <2> QED
      BY <2>1, <2>2, <2>3
  <1> QED
    BY <1>3, <1>7, <1>8, <1>9 DEF n, s, l
-----------------------------------------------------------------------------
(* Induction and recursion up to a number.  A set stands for the formula,   *)
(* and a function for the step of the recursion: no operator is a parameter.*)

\* A set that has 0, and each number up to N after one that it has, has all.
LEMMA UpToInduction ==
    ASSUME NEW N \in Nat, NEW S, 0 \in S, \A n \in 0 .. N - 1 : n \in S => n + 1 \in S
    PROVE  \A n \in 0 .. N : n \in S
  <1> SUFFICES ASSUME NEW n \in 0 .. N, n \notin S
               PROVE  FALSE
    OBVIOUS
  <1> DEFINE R == {p \in Nat \X Nat : p[1] < p[2]}
             T == {m \in 0 .. N : m \notin S}
  <1>1. IsWellFoundedOn(R, Nat)
    BY NatLessThanWellFounded DEF OpToRel
  <1>2. T \subseteq Nat /\ T # {}
    OBVIOUS
  <1> HIDE DEF R, T
  <1>3. PICK m \in T : \A k \in T : ~(<<k, m>> \in R)
    BY <1>1, <1>2, WFMin
  <1>4. m \in 0 .. N /\ m \notin S
    BY <1>3 DEF T
  <1>5. m # 0 /\ m - 1 \in 0 .. N - 1 /\ m - 1 + 1 = m
    BY <1>4
  <1>6. <<m - 1, m>> \in R
    BY <1>4, <1>5 DEF R
  <1>7. m - 1 \in S
    BY <1>3, <1>5, <1>6 DEF T
  <1> QED
    BY <1>4, <1>5, <1>7

\* The function from 0 .. N to V that starts with zero and goes on by a rule.
IsRecursive(f, N, V, zero, rule) ==
    f \in [0 .. N -> V] /\ f[0] = zero /\ \A n \in 1 .. N : f[n] = rule[<<n, f[n - 1]>>]

\* There is one, if the rule is a function on V.
LEMMA RecursionExists ==
    ASSUME NEW N \in Nat, NEW V, NEW zero \in V, NEW rule \in [(1 .. N) \X V -> V]
    PROVE  \E f : IsRecursive(f, N, V, zero, rule)
  <1> DEFINE Computes(f, k) == f[0] = zero /\ \A n \in 1 .. k : f[n] = rule[<<n, f[n - 1]>>]
             S == {k \in 0 .. N : \E f \in [0 .. N -> V] : Computes(f, k)}
  <1>1. 0 \in S
    <2>1. [n \in 0 .. N |-> zero] \in [0 .. N -> V] /\ 0 \in 0 .. N
      OBVIOUS
    <2>2. Computes([n \in 0 .. N |-> zero], 0)
      BY <2>1
    <2> QED
      BY <2>1, <2>2
  <1>2. ASSUME NEW k \in 0 .. N - 1, k \in S
        PROVE  k + 1 \in S
    <2>1. PICK f \in [0 .. N -> V] : Computes(f, k)
      BY <1>2
    <2>2. k \in 0 .. N /\ k + 1 \in 1 .. N /\ k + 1 \in 0 .. N /\ k + 1 - 1 = k /\ f[k] \in V
      OBVIOUS
    <2> DEFINE new == rule[<<k + 1, f[k]>>]
               g   == [f EXCEPT ![k + 1] = new]
    <2>3. new \in V
      BY <2>2
    <2> HIDE DEF new
    <2>4. g \in [0 .. N -> V] /\ g[k + 1] = new /\ \A n \in 0 .. k : g[n] = f[n]
      BY <2>2, <2>3
    <2> HIDE DEF g
    <2>5. ASSUME NEW n \in 1 .. k + 1 PROVE g[n] = rule[<<n, g[n - 1]>>]
      <3>1. CASE n = k + 1
        <4>1. n - 1 = k /\ g[k] = f[k]
          BY <2>2, <2>4, <3>1
        <4>2. g[k + 1] = rule[<<k + 1, g[k]>>]
          BY <2>4, <4>1 DEF new
        <4> QED
          BY <3>1, <4>1, <4>2
      <3>2. CASE n # k + 1
        <4>1. n \in 1 .. k /\ n - 1 \in 0 .. k /\ n \in 0 .. k
          BY <3>2
        <4> QED
          BY <2>1, <2>4, <4>1
      <3> QED
        BY <3>1, <3>2
    <2>6. g[0] = zero
      BY <2>1, <2>4
    <2>7. Computes(g, k + 1)
      BY <2>5, <2>6
    <2> QED
      BY <2>2, <2>4, <2>7
  <1>3. \A k \in 0 .. N : k \in S
    <2> HIDE DEF S
    <2> QED
      BY <1>1, <1>2, UpToInduction
  <1>4. N \in S
    <2>1. N \in 0 .. N
      OBVIOUS
    <2> HIDE DEF S
    <2> QED
      BY <1>3, <2>1
  <1> QED
    BY <1>4 DEF IsRecursive
=============================================================================
