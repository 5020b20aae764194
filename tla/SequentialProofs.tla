---------------------------- MODULE SequentialProofs ----------------------------
(***************************************************************************)
(* The structures of pg.h and the programs of Sequential, each from an     *)
(* invariant of its own variables and for every value of its parameters:   *)
(* the pool, the bit array, the buffers and the ring, the pairing of       *)
(* allocations, the bills, the spans. ProgramsProofs has those of the      *)
(* other programs, and the theorems about the specification in which each  *)
(* of them runs.                                                           *)
(***************************************************************************)
EXTENDS Sequential, RingProofs, FiniteSetTheorems, TLAPS

-----------------------------------------------------------------------------
(***************************************************************************)
(* Pool: the free list is exact. It is inductive as it stands: the first   *)
(* chunk leaves the list, or one that is not in it becomes the first; and  *)
(* what an owner writes to its chunk is not read as a node.                *)
(***************************************************************************)

FreeChunks == Pools!Chunks \ owned

Linked(n, q) ==
    q \in [1 .. n -> FreeChunks] /\ Pools!IsFreeList(n, q) /\ Pools!ListsOnce(n, q, FreeChunks)

\* No two chunks of a list are one, and so it is not longer than the pool.
LEMMA ListsFit ==
    ASSUME NEW n \in Nat, NEW q \in [1 .. n -> Pools!Chunks], \A i, j \in 1 .. n : q[i] = q[j] => i = j
    PROVE  n \in 0 .. max_items_count
  <1>1. q \in Injection(1 .. n, Pools!Chunks)
    BY DEF Injection, IsInjective
  <1>2. /\ IsFiniteSet(Pools!Chunks) /\ Cardinality(Pools!Chunks) = max_items_count
    BY PoolAssumption, FS_Interval DEF Pools!Chunks
  <1>3. Cardinality(1 .. n) <= max_items_count
    BY <1>1, <1>2, FS_Injection
  <1>4. Cardinality(1 .. n) = n
    BY FS_Interval
  <1> QED
    BY <1>3, <1>4, PoolAssumption

\* The list that init makes, and free_all of a pool whose chunks are all owned.
LEMMA AllChunksAreListed ==
    ASSUME NEW mem, mem = Pools!pg_pool_free_all_list(Pools!NULL)
    PROVE  /\ max_items_count - 1 \in Pools!Chunks /\ max_items_count # 0
           /\ mem \in [Pools!Chunks -> Pools!Chunks \cup {Pools!NULL, Pools!Data}]
           /\ \E q \in [1 .. max_items_count -> Pools!Chunks] :
                /\ q[1] = max_items_count - 1
                /\ \A i \in 1 .. max_items_count :
                     mem[q[i]] = IF i = max_items_count THEN Pools!NULL ELSE q[i + 1]
                /\ Pools!ListsOnce(max_items_count, q, Pools!Chunks)
  <1> DEFINE N == max_items_count
             q == [i \in 1 .. N |-> N - i]
  <1>1. N \in Nat \ {0} /\ Pools!Chunks = 0 .. N - 1
    BY PoolAssumption DEF Pools!Chunks
  <1>2. \A c \in 0 .. N - 1 : mem[c] = IF c = 0 THEN N ELSE c - 1
    BY DEF Pools!pg_pool_free_all_list, Pools!Chunks, Pools!NULL
  <1>3. /\ N - 1 \in Pools!Chunks /\ N # 0
        /\ mem \in [Pools!Chunks -> Pools!Chunks \cup {Pools!NULL, Pools!Data}]
    BY <1>1 DEF Pools!pg_pool_free_all_list, Pools!Chunks, Pools!NULL
  <1>4. q \in [1 .. N -> 0 .. N - 1] /\ q[1] = N - 1
    BY <1>1
  <1>5. \A i \in 1 .. N : mem[q[i]] = IF i = N THEN N ELSE q[i + 1]
    <2>1. TAKE i \in 1 .. N
    <2>2. q[i] = N - i /\ N - i \in 0 .. N - 1
      BY <1>1
    <2>3. CASE i = N
      BY <1>1, <1>2, <2>2, <2>3
    <2>4. CASE i # N
      <3>1. i + 1 \in 1 .. N /\ q[i + 1] = N - (i + 1) /\ N - i # 0
        BY <1>1, <2>4
      <3>2. mem[q[i]] = (N - i) - 1
        BY <1>2, <2>2, <3>1
      <3> QED
        BY <1>1, <2>4, <3>1, <3>2
    <2> QED
      BY <2>3, <2>4
  <1>6. \A i, j \in 1 .. N : q[i] = q[j] => i = j
    BY <1>1
  <1>7. \A c \in 0 .. N - 1 : \E i \in 1 .. N : q[i] = c
    <2>1. TAKE c \in 0 .. N - 1
    <2>2. N - c \in 1 .. N /\ q[N - c] = c
      BY <1>1
    <2> QED
      BY <2>2
  <1> HIDE DEF q
  <1> QED
    BY <1>1, <1>3, <1>4, <1>5, <1>6, <1>7 DEF Pools!ListsOnce, Pools!NULL

LEMMA PoolInitHolds == Pools!PoolInit => Pools!FreeListIsExact
  <1> SUFFICES ASSUME Pools!PoolInit PROVE Pools!FreeListIsExact
    OBVIOUS
  <1>1. /\ memory = Pools!pg_pool_free_all_list(Pools!NULL) /\ head = max_items_count - 1
        /\ owned = {} /\ last = Pools!NULL /\ misused = FALSE
    BY DEF Pools!PoolInit
  <1>2. PICK q \in [1 .. max_items_count -> Pools!Chunks] :
                /\ q[1] = max_items_count - 1
                /\ \A i \in 1 .. max_items_count :
                     memory[q[i]] = IF i = max_items_count THEN Pools!NULL ELSE q[i + 1]
                /\ Pools!ListsOnce(max_items_count, q, Pools!Chunks)
    BY <1>1, AllChunksAreListed
  <1>3. Pools!IsFreeList(max_items_count, q) /\ Pools!Chunks \ owned = Pools!Chunks
    BY <1>1, <1>2, AllChunksAreListed DEF Pools!IsFreeList
  <1>4. max_items_count \in 0 .. max_items_count
    BY PoolAssumption
  <1>5. Pools!PoolTypeOK
    BY <1>1, AllChunksAreListed DEF Pools!PoolTypeOK
  <1> QED
    BY <1>2, <1>3, <1>4, <1>5 DEF Pools!FreeListIsExact

LEMMA AllocHolds ==
    ASSUME Pools!FreeListIsExact, Pools!pg_pool_alloc
    PROVE  Pools!FreeListIsExact'
  <1> USE DEF Pools!FreeListIsExact
  <1>1. CASE head = Pools!NULL
    BY <1>1 DEF Pools!pg_pool_alloc, Pools!PoolTypeOK, Pools!IsFreeList
  <1>2. CASE head # Pools!NULL
    <2>1. /\ head \in Pools!Chunks /\ head' = memory[head] /\ memory[head] # Pools!Data
          /\ memory' = [memory EXCEPT ![head] = Pools!NULL] /\ owned' = owned \cup {head}
          /\ last' = head /\ misused' = misused
      BY <1>2 DEF Pools!pg_pool_alloc, Pools!PoolTypeOK, Pools!Zeroed
    <2>2. Pools!PoolTypeOK'
      BY <2>1 DEF Pools!PoolTypeOK
    <2>3. ASSUME ~misused
          PROVE  \E m \in 0 .. max_items_count : \E r \in [1 .. m -> FreeChunks'] : Linked(m, r)'
      <3>1. PICK n \in 0 .. max_items_count : \E q \in [1 .. n -> FreeChunks] : Linked(n, q)
        BY <2>3 DEF Linked, FreeChunks
      <3>2. PICK q \in [1 .. n -> FreeChunks] : Linked(n, q)
        BY <3>1
      <3>3. n \in Nat /\ n # 0 /\ head = q[1] /\ n - 1 \in Nat /\ n - 1 \in 0 .. max_items_count
        BY <1>2, <3>2, PoolAssumption DEF Linked, Pools!IsFreeList
      <3> DEFINE m == n - 1
                 r == [i \in 1 .. m |-> q[i + 1]]
      <3>4. \A i \in 1 .. m : i + 1 \in 1 .. n /\ i \in 1 .. n /\ i + 1 # 1 /\ r[i] = q[i + 1] /\ (i = m <=> i + 1 = n)
                                /\ (i # m => i + 1 \in 1 .. m)
        BY <3>3
      <3>5. \A i, j \in 1 .. n : q[i] = q[j] => i = j
        BY <3>2 DEF Linked, Pools!ListsOnce
      <3>6. 1 \in 1 .. n /\ \A i \in 2 .. n : i \in 1 .. n /\ i - 1 \in 1 .. m /\ (i - 1) + 1 = i
        BY <3>3
      <3>7. FreeChunks' = FreeChunks \ {q[1]}
        BY <2>1, <3>3 DEF FreeChunks, Pools!Chunks
      <3>8. r \in [1 .. m -> FreeChunks']
        <4>1. ASSUME NEW i \in 1 .. m
              PROVE  q[i + 1] \in FreeChunks'
          <5>1. q[i + 1] # q[1] /\ q[i + 1] \in FreeChunks
            BY <3>4, <3>5, <3>6
          <5> QED
            BY <5>1, <3>7
        <4> QED
          BY <4>1
      <3>9. \A i \in 1 .. m : memory'[r[i]] = memory[q[i + 1]]
        <4>1. TAKE i \in 1 .. m
        <4>2. q[i + 1] # head /\ q[i + 1] \in Pools!Chunks
          BY <3>3, <3>4, <3>5, <3>6 DEF FreeChunks
        <4> QED
          BY <2>1, <3>4, <4>2
      <3> HIDE DEF m, r
      <3>10. \A i \in 1 .. m : memory'[r[i]] = IF i = m THEN Pools!NULL ELSE r[i + 1]
        <4>1. TAKE i \in 1 .. m
        <4>2. memory[q[i + 1]] = IF i + 1 = n THEN Pools!NULL ELSE q[(i + 1) + 1]
          BY <3>2, <3>4 DEF Linked, Pools!IsFreeList
        <4>3. i # m => r[i + 1] = q[(i + 1) + 1]
          BY <3>4
        <4> QED
          BY <3>4, <3>9, <4>2, <4>3
      <3>11. head' = IF m = 0 THEN Pools!NULL ELSE r[1]
        <4>1. memory[q[1]] = IF 1 = n THEN Pools!NULL ELSE q[1 + 1]
          BY <3>2, <3>6 DEF Linked, Pools!IsFreeList
        <4>2. m = 0 <=> n = 1
          BY <3>3 DEF m
        <4>3. m # 0 => 1 \in 1 .. m
          BY <3>3 DEF m
        <4>4. m # 0 => r[1] = q[1 + 1]
          BY <3>4, <4>3
        <4> QED
          BY <2>1, <3>3, <4>1, <4>2, <4>4
      <3>12. \A i, j \in 1 .. m : r[i] = r[j] => i = j
        <4>1. TAKE i, j \in 1 .. m
        <4>2. q[i + 1] = q[j + 1] => i + 1 = j + 1
          BY <3>4, <3>5
        <4> QED
          BY <3>4, <4>2
      <3>13. \A c \in FreeChunks' : \E i \in 1 .. m : r[i] = c
        <4>1. TAKE c \in FreeChunks'
        <4>2. PICK i \in 1 .. n : q[i] = c
          BY <3>2, <3>7 DEF Linked, Pools!ListsOnce
        <4>3. i # 1
          BY <3>7, <4>2
        <4>4. i - 1 \in 1 .. m /\ (i - 1) + 1 = i
          BY <3>3, <4>3 DEF m
        <4>5. r[i - 1] = c
          BY <3>4, <4>2, <4>4
        <4> QED
          BY <4>4, <4>5
      <3>14. Linked(m, r)'
        BY <3>8, <3>10, <3>11, <3>12, <3>13 DEF Linked, Pools!IsFreeList, Pools!ListsOnce, Pools!NULL
      <3> QED
        BY <3>3, <3>8, <3>14 DEF m
    <2> QED
      BY <2>1, <2>2, <2>3 DEF Linked, FreeChunks, Pools!Chunks
  <1> QED
    BY <1>1, <1>2

LEMMA FreeHolds ==
    ASSUME Pools!FreeListIsExact, NEW c \in Pools!Chunks, Pools!pg_pool_free(c)
    PROVE  Pools!FreeListIsExact'
  <1> USE DEF Pools!FreeListIsExact
  <1>1. /\ c \in owned /\ memory' = [memory EXCEPT ![c] = head] /\ head' = c
        /\ owned' = owned \ {c} /\ last' = last /\ misused' = misused
    BY DEF Pools!pg_pool_free
  <1>2. Pools!PoolTypeOK'
    BY <1>1 DEF Pools!PoolTypeOK
  <1>3. ASSUME ~misused
        PROVE  \E m \in 0 .. max_items_count : \E r \in [1 .. m -> FreeChunks'] : Linked(m, r)'
    <2>1. PICK n \in 0 .. max_items_count : \E q \in [1 .. n -> FreeChunks] : Linked(n, q)
      BY <1>3 DEF Linked, FreeChunks
    <2>2. PICK q \in [1 .. n -> FreeChunks] : Linked(n, q)
      BY <2>1
    <2>3. n \in Nat /\ n + 1 \in Nat /\ (n + 1 # 0) /\ n + 1 # 1 => n # 0
      BY PoolAssumption
    <2> DEFINE m == n + 1
               r == [i \in 1 .. m |-> IF i = 1 THEN c ELSE q[i - 1]]
    <2>4. 1 \in 1 .. m /\ r[1] = c
      BY <2>3
    <2>5. \A i \in 1 .. m : i # 1 => i - 1 \in 1 .. n /\ r[i] = q[i - 1]
      BY <2>3
    <2>6. \A i \in 1 .. n : i + 1 \in 1 .. m /\ i + 1 # 1 /\ (i + 1) - 1 = i /\ (i = n <=> i + 1 = m)
      BY <2>3
    <2>7. m \in Nat /\ (m = 1 <=> n = 0) /\ m # 0 /\ (n # 0 => 1 \in 1 .. n /\ 1 + 1 \in 1 .. m)
      BY <2>3
    <2>8. FreeChunks' = FreeChunks \cup {c} /\ c \notin FreeChunks
      BY <1>1 DEF FreeChunks, Pools!Chunks
    <2> HIDE DEF r, m
    <2>9. \A i \in 1 .. m : r[i] \in FreeChunks' /\ (i # 1 => r[i] \in FreeChunks)
      BY <2>2, <2>4, <2>5, <2>8
    <2>10. r \in [1 .. m -> FreeChunks']
      BY <2>9 DEF r
    <2>11. \A i \in 1 .. n : memory'[q[i]] = memory[q[i]]
      <3>1. TAKE i \in 1 .. n
      <3>2. q[i] \in FreeChunks /\ q[i] # c
        BY <2>2, <2>8
      <3> QED
        BY <1>1, <3>2
    <2>12. \A i \in 1 .. m : memory'[r[i]] = IF i = m THEN Pools!NULL ELSE r[i + 1]
      <3>1. TAKE i \in 1 .. m
      <3>2. CASE i = 1
        <4>1. memory'[r[1]] = head
          BY <1>1, <2>4 DEF Pools!PoolTypeOK
        <4>2. n # 0 => r[1 + 1] = q[1]
          BY <2>5, <2>6, <2>7
        <4> QED
          BY <2>2, <2>7, <3>2, <4>1, <4>2 DEF Linked, Pools!IsFreeList
      <3>3. CASE i # 1
        <4>1. i - 1 \in 1 .. n /\ r[i] = q[i - 1] /\ (i - 1 = n <=> i = m)
          BY <2>5, <3>3 DEF m
        <4>2. memory[q[i - 1]] = IF i - 1 = n THEN Pools!NULL ELSE q[(i - 1) + 1]
          BY <2>2, <4>1 DEF Linked, Pools!IsFreeList
        <4>3. i # m => i + 1 \in 1 .. m /\ i + 1 # 1 /\ (i + 1) - 1 = (i - 1) + 1
          BY <2>7, <3>1
        <4>4. i # m => r[i + 1] = q[(i - 1) + 1]
          BY <2>5, <4>3
        <4> QED
          BY <2>11, <4>1, <4>2, <4>4
      <3> QED
        BY <3>2, <3>3
    <2>13. \A i, j \in 1 .. m : r[i] = r[j] => i = j
      <3>1. TAKE i, j \in 1 .. m
      <3>2. CASE i = 1 \/ j = 1
        BY <2>4, <2>8, <2>9, <3>2
      <3>3. CASE i # 1 /\ j # 1
        <4>1. i - 1 \in 1 .. n /\ j - 1 \in 1 .. n /\ r[i] = q[i - 1] /\ r[j] = q[j - 1]
          BY <2>5, <3>3
        <4>2. q[i - 1] = q[j - 1] => i - 1 = j - 1
          BY <2>2, <4>1 DEF Linked, Pools!ListsOnce
        <4> QED
          BY <2>7, <4>1, <4>2
      <3> QED
        BY <3>2, <3>3
    <2>14. \A d \in FreeChunks' : \E i \in 1 .. m : r[i] = d
      <3>1. TAKE d \in FreeChunks'
      <3>2. CASE d = c
        BY <2>4, <3>2
      <3>3. CASE d # c
        <4>1. PICK i \in 1 .. n : q[i] = d
          BY <2>2, <2>8, <3>3 DEF Linked, Pools!ListsOnce
        <4>2. i + 1 \in 1 .. m /\ r[i + 1] = d
          BY <2>5, <2>6, <4>1
        <4> QED
          BY <4>2
      <3> QED
        BY <3>2, <3>3
    <2>15. Linked(m, r)'
      <3>1. Pools!IsFreeList(m, r)'
        BY <1>1, <2>4, <2>7, <2>12 DEF Pools!IsFreeList, Pools!NULL
      <3> QED
        BY <2>10, <2>13, <2>14, <3>1 DEF Linked, Pools!ListsOnce
    <2>16. m \in 0 .. max_items_count
      <3>1. r \in [1 .. m -> Pools!Chunks]
        BY <2>10 DEF FreeChunks
      <3> QED
        BY <2>7, <2>13, <3>1, ListsFit
    <2> QED
      BY <2>10, <2>15, <2>16
  <1> QED
    BY <1>1, <1>2, <1>3 DEF Linked, FreeChunks, Pools!Chunks

LEMMA PoolStepHolds == Pools!FreeListIsExact /\ [Pools!PoolNext]_Pools!poolVars => Pools!FreeListIsExact'
  <1> SUFFICES ASSUME Pools!FreeListIsExact, [Pools!PoolNext]_Pools!poolVars
               PROVE  Pools!FreeListIsExact'
    OBVIOUS
  <1>1. CASE Pools!pg_pool_alloc
    BY <1>1, AllocHolds
  <1>2. ASSUME NEW c \in Pools!Chunks, Pools!pg_pool_free(c)
        PROVE  Pools!FreeListIsExact'
    BY <1>2, FreeHolds
  <1>3. ASSUME NEW c \in Pools!Chunks, Pools!Use(c)
        PROVE  Pools!FreeListIsExact'
    <2>1. /\ c \in owned /\ memory' = [memory EXCEPT ![c] = Pools!Data]
          /\ UNCHANGED <<head, owned, last, misused>>
      BY <1>3 DEF Pools!Use
    <2>2. Pools!PoolTypeOK'
      BY <2>1 DEF Pools!PoolTypeOK, Pools!FreeListIsExact
    <2>3. \A d \in FreeChunks : memory'[d] = memory[d]
      BY <2>1 DEF FreeChunks, Pools!FreeListIsExact, Pools!PoolTypeOK
    <2>4. \A n \in 0 .. max_items_count : \A q \in [1 .. n -> FreeChunks] :
              Pools!IsFreeList(n, q) => Pools!IsFreeList(n, q)'
      BY <2>1, <2>3 DEF Pools!IsFreeList, Pools!NULL
    <2>5. FreeChunks' = FreeChunks
      BY <2>1 DEF FreeChunks, Pools!Chunks
    <2>6. ASSUME ~misused
          PROVE  \E n \in 0 .. max_items_count : \E q \in [1 .. n -> FreeChunks'] : Linked(n, q)'
      <3>1. PICK n \in 0 .. max_items_count : \E q \in [1 .. n -> FreeChunks] : Linked(n, q)
        BY <2>6 DEF Linked, FreeChunks, Pools!FreeListIsExact
      <3>2. PICK q \in [1 .. n -> FreeChunks] : Linked(n, q)
        BY <3>1
      <3>3. Linked(n, q)'
        BY <2>4, <2>5, <3>2 DEF Linked, Pools!ListsOnce
      <3> QED
        BY <2>5, <3>3
    <2> QED
      BY <2>1, <2>2, <2>6 DEF Pools!FreeListIsExact, Linked, FreeChunks, Pools!Chunks
  <1>4. CASE Pools!pg_pool_free_all
    <2>1. /\ memory' = Pools!pg_pool_free_all_list(head) /\ head' = max_items_count - 1
          /\ owned' = {} /\ misused' = (misused \/ head # Pools!NULL) /\ last' = last
      BY <1>4 DEF Pools!pg_pool_free_all
    <2>2. CASE head = Pools!NULL
      <3>1. PICK q \in [1 .. max_items_count -> Pools!Chunks] :
                /\ q[1] = max_items_count - 1
                /\ \A i \in 1 .. max_items_count :
                     memory'[q[i]] = IF i = max_items_count THEN Pools!NULL ELSE q[i + 1]
                /\ Pools!ListsOnce(max_items_count, q, Pools!Chunks)
        BY <2>1, <2>2, AllChunksAreListed
      <3>2. Pools!IsFreeList(max_items_count, q)' /\ FreeChunks' = Pools!Chunks
        BY <2>1, <3>1, AllChunksAreListed DEF Pools!IsFreeList, FreeChunks, Pools!Chunks, Pools!NULL
      <3>3. Linked(max_items_count, q)' /\ max_items_count \in 0 .. max_items_count
        BY <3>1, <3>2, PoolAssumption DEF Linked, Pools!ListsOnce
      <3>4. Pools!PoolTypeOK'
        BY <2>1, <2>2, AllChunksAreListed
        DEF Pools!FreeListIsExact, Pools!PoolTypeOK, Pools!Chunks, Pools!NULL, Pools!Data
      <3> QED
        BY <3>2, <3>3, <3>4 DEF Pools!FreeListIsExact, Linked, FreeChunks, Pools!Chunks
    <2>3. CASE head # Pools!NULL
      <3>1. misused' = TRUE
        BY <2>1, <2>3
      <3>2. head' \in Pools!Chunks
        BY <2>1, PoolAssumption DEF Pools!Chunks
      <3>3. memory' \in [Pools!Chunks -> Pools!Chunks \cup {Pools!NULL, Pools!Data}]
        <4>1. head \in Pools!Chunks
          BY <2>3 DEF Pools!FreeListIsExact, Pools!PoolTypeOK
        <4>2. \A d \in Pools!Chunks : d # 0 => d - 1 \in Pools!Chunks
          BY PoolAssumption DEF Pools!Chunks
        <4> QED
          BY <2>1, <4>1, <4>2 DEF Pools!pg_pool_free_all_list
      <3> QED
        BY <2>1, <3>1, <3>2, <3>3 DEF Pools!FreeListIsExact, Pools!PoolTypeOK, Pools!Chunks, Pools!NULL, Pools!Data
    <2> QED
      BY <2>2, <2>3
  <1>5. CASE UNCHANGED Pools!poolVars
    <2>1. UNCHANGED <<head, memory, owned, last, misused>>
      BY <1>5 DEF Pools!poolVars
    <2>2. Pools!PoolTypeOK' <=> Pools!PoolTypeOK
      BY <2>1 DEF Pools!PoolTypeOK
    <2>3. ASSUME NEW n, NEW q PROVE Pools!IsFreeList(n, q)' <=> Pools!IsFreeList(n, q)
      BY <2>1 DEF Pools!IsFreeList
    <2> QED
      BY <2>1, <2>2, <2>3 DEF Pools!FreeListIsExact, Pools!ListsOnce
  <1> QED
    BY <1>1, <1>2, <1>3, <1>4, <1>5 DEF Pools!PoolNext
-----------------------------------------------------------------------------
(***************************************************************************)
(* Bitarray: the bits are the set that was asked for, for bytes and arrays *)
(* of any size. Two indices that share a byte have two bits in it, and an  *)
(* index within the array has a byte, as long as it was not resized.       *)
(***************************************************************************)

BitTypes ==
    /\ max_index \in Nat /\ max_index \in MaxIndices /\ len \in Nat
    /\ 0 .. len - 1 \subseteq DOMAIN data
    /\ bits \subseteq 0 .. max_index /\ failed \in BOOLEAN

BitInv ==
    /\ BitTypes
    /\ ~resized => /\ ~failed /\ len = Bitarrays!pg_bitarray_init_len(max_index)
                   /\ \A i \in 0 .. max_index : Bitarrays!pg_bitarray_get(i) <=> i \in bits
    /\ resized => len = Bitarrays!pg_bitarray_resize_len(max_index)
    /\ Bitarrays!IndicesHaveABit

\* The byte and the bit of an index determine it.
LEMMA BitOfIndex ==
    ASSUME NEW i \in Nat
    PROVE  /\ Bitarrays!ByteOf(i) \in Nat /\ Bitarrays!BitOf(i) \in 0 .. ByteBits - 1
           /\ i = ByteBits * Bitarrays!ByteOf(i) + Bitarrays!BitOf(i)
  <1>1. ByteBits \in Nat \ {0} /\ i \in Int
    BY BitAssumption
  <1>2. i \div ByteBits \in Int /\ i % ByteBits \in Nat /\ i % ByteBits < ByteBits
        /\ i = ByteBits * (i \div ByteBits) + (i % ByteBits)
    BY <1>1, DivMod
  <1>3. i \div ByteBits \in Nat
    BY <1>1
  <1> QED
    BY <1>1, <1>2, <1>3 DEF Bitarrays!ByteOf, Bitarrays!BitOf

LEMMA IndicesDiffer ==
    ASSUME NEW i \in Nat, NEW j \in Nat, i # j
    PROVE  Bitarrays!ByteOf(i) # Bitarrays!ByteOf(j) \/ Bitarrays!BitOf(i) # Bitarrays!BitOf(j)
  BY BitOfIndex

\* The bytes for n bits: the last one is reached by them.
LEMMA CeilOfBits ==
    ASSUME NEW n \in Nat
    PROVE  /\ Bitarrays!CeilBytes(n) \in Nat
           /\ Bitarrays!CeilBytes(n) = Bitarrays!ByteOf(n) + (IF Bitarrays!BitOf(n) = 0 THEN 0 ELSE 1)
  <1> DEFINE q == Bitarrays!ByteOf(n)
             r == Bitarrays!BitOf(n)
             B == ByteBits
  <1>1. B \in Nat \ {0} /\ q \in Nat /\ r \in 0 .. B - 1 /\ n = B * q + r
    BY BitAssumption, BitOfIndex
  <1>2. Bitarrays!CeilBytes(n) = (n + B - 1) \div B
    BY DEF Bitarrays!CeilBytes
  <1> HIDE DEF q, r, B
  <1>3. CASE r = 0
    <2>1. n + B - 1 = B * q + (B - 1) /\ B - 1 \in Nat /\ B - 1 < B
      BY <1>1, <1>3
    <2>2. (B * q + (B - 1)) \div B = q
      BY <1>1, <2>1, DivModUnique
    <2> QED
      BY <1>1, <1>2, <1>3, <2>1, <2>2 DEF q, r
  <1>4. CASE r # 0
    <2>1. n + B - 1 = B * (q + 1) + (r - 1) /\ r - 1 \in Nat /\ r - 1 < B /\ q + 1 \in Int
      BY <1>1, <1>4
    <2>2. (B * (q + 1) + (r - 1)) \div B = q + 1
      BY <1>1, <2>1, DivModUnique
    <2> QED
      BY <1>1, <1>2, <1>4, <2>1, <2>2 DEF q, r
  <1> QED
    BY <1>3, <1>4

\* An index up to max has a byte among the first ByteOf(max) + 1.
LEMMA BytesAreOrdered ==
    ASSUME NEW max_i \in Nat, NEW i \in 0 .. max_i
    PROVE  Bitarrays!ByteOf(i) <= Bitarrays!ByteOf(max_i)
  <1> DEFINE B == ByteBits
             p == Bitarrays!ByteOf(i)
             q == Bitarrays!ByteOf(max_i)
             r == Bitarrays!BitOf(i)
             t == Bitarrays!BitOf(max_i)
  <1>1. i \in Nat /\ i <= max_i
    OBVIOUS
  <1>2. /\ B \in Nat \ {0} /\ p \in Nat /\ q \in Nat /\ r \in 0 .. B - 1 /\ t \in 0 .. B - 1
        /\ B * p + r <= B * q + t
    BY <1>1, BitAssumption, BitOfIndex
  <1> HIDE DEF B, p, q, r, t
  <1>3. SUFFICES ASSUME p > q PROVE FALSE
    BY <1>2 DEF p, q
  <1>4. p >= q + 1
    BY <1>2, <1>3
  <1>5. B * p >= B * (q + 1)
    BY <1>2, <1>4
  <1>6. B * (q + 1) = B * q + B
    BY <1>2
  <1>7. B * p \in Nat /\ B * q \in Nat
    BY <1>2
  <1> QED
    BY <1>2, <1>5, <1>6, <1>7

\* The bounds check fails for no index, but for one after a resize.
LEMMA IndicesHaveBytes ==
    ASSUME BitInv, NEW i \in 0 .. max_index
    PROVE  /\ i \in Nat /\ Bitarrays!ByteOf(i) \in Nat
           /\ ~resized => Bitarrays!ByteOf(i) \in 0 .. len - 1
           /\ Bitarrays!InBounds(i) => Bitarrays!ByteOf(i) \in DOMAIN data
           /\ Bitarrays!InBounds(i) \/ (resized /\ max_index % ByteBits = 0)
  <1> DEFINE p == Bitarrays!ByteOf(i)
             q == Bitarrays!ByteOf(max_index)
             t == Bitarrays!BitOf(max_index)
             c == Bitarrays!CeilBytes(max_index)
  <1>1. i \in Nat /\ max_index \in Nat /\ len \in Nat /\ 0 .. len - 1 \subseteq DOMAIN data
    BY DEF BitInv, BitTypes
  <1>2. p \in Nat /\ q \in Nat /\ t \in Nat /\ p <= q
    BY <1>1, BitAssumption, BitOfIndex, BytesAreOrdered
  <1>3. c \in Nat /\ (t = 0 => c = q) /\ (t # 0 => c = q + 1)
    <2>1. c \in Nat /\ c = q + (IF t = 0 THEN 0 ELSE 1)
      BY <1>1, CeilOfBits
    <2> HIDE DEF c, q, t
    <2> QED
      BY <1>2, <2>1
  <1>4. (~resized => len = 1 + c) /\ (resized => len = c)
    BY DEF BitInv, Bitarrays!pg_bitarray_init_len, Bitarrays!pg_bitarray_resize_len
  <1>5. (Bitarrays!InBounds(i) <=> p < len) /\ t = max_index % ByteBits
    BY DEF Bitarrays!InBounds, Bitarrays!BitOf
  <1> HIDE DEF p, q, t, c
  <1>6. p < len => p \in 0 .. len - 1
    BY <1>1, <1>2
  <1>7. CASE ~resized
    <2>1. p < len
      BY <1>2, <1>3, <1>4, <1>7
    <2> QED
      BY <1>1, <1>2, <1>5, <1>6, <1>7, <2>1 DEF p
  <1>8. CASE resized /\ t = 0
    BY <1>1, <1>2, <1>5, <1>6, <1>8 DEF p
  <1>9. CASE resized /\ t # 0
    <2>1. p < len
      BY <1>2, <1>3, <1>4, <1>9
    <2> QED
      BY <1>1, <1>2, <1>5, <1>6, <1>9, <2>1 DEF p
  <1> QED
    BY <1>7, <1>8, <1>9

\* Bits are written, and the array stays as long as it is.
LEMMA WrittenHolds ==
    ASSUME BitInv, UNCHANGED <<max_index, len, failed, resized>>,
           DOMAIN data' = DOMAIN data, bits' \subseteq 0 .. max_index,
           ~resized => \A i \in 0 .. max_index : Bitarrays!pg_bitarray_get(i)' <=> i \in bits'
    PROVE  BitInv'
  BY DEF BitInv, BitTypes, Bitarrays!IndicesHaveABit, Bitarrays!pg_bitarray_init_len, Bitarrays!pg_bitarray_resize_len,
         Bitarrays!pg_bitarray_get, Bitarrays!BitOf, Bitarrays!ByteOf, Bitarrays!CeilBytes

LEMMA SetHolds ==
    ASSUME BitInv, NEW i \in Bitarrays!Indices(max_index), ~failed,
           Bitarrays!pg_bitarray_set(i) \/ Bitarrays!pg_bitarray_unset(i)
    PROVE  BitInv'
  <1>1. i \in 0 .. max_index
    BY DEF Bitarrays!Indices
  <1>2. UNCHANGED <<max_index, len, resized>> /\ bits' \subseteq 0 .. max_index
    BY <1>1 DEF Bitarrays!pg_bitarray_set, Bitarrays!pg_bitarray_unset, BitInv, BitTypes
  <1>3. CASE Bitarrays!InBounds(i)
    <2>1. failed' = failed /\ DOMAIN data' = DOMAIN data
      BY <1>3 DEF Bitarrays!pg_bitarray_set, Bitarrays!pg_bitarray_unset
    <2>2. ASSUME ~resized, NEW j \in 0 .. max_index
          PROVE  Bitarrays!pg_bitarray_get(j)' <=> j \in bits'
      <3>1. /\ i \in Nat /\ j \in Nat /\ Bitarrays!ByteOf(i) \in DOMAIN data /\ Bitarrays!ByteOf(j) \in DOMAIN data
        <4>1. i \in Nat /\ j \in Nat /\ Bitarrays!ByteOf(i) \in 0 .. len - 1 /\ Bitarrays!ByteOf(j) \in 0 .. len - 1
          BY <1>1, <2>2, IndicesHaveBytes
        <4> QED
          BY <4>1 DEF BitInv, BitTypes
      <3>2. Bitarrays!BitOf(j) \in data[Bitarrays!ByteOf(j)] <=> j \in bits
        BY <2>2 DEF BitInv, Bitarrays!pg_bitarray_get
      <3>3. Bitarrays!pg_bitarray_get(j)' <=> Bitarrays!BitOf(j) \in data'[Bitarrays!ByteOf(j)]
        BY DEF Bitarrays!pg_bitarray_get, Bitarrays!BitOf, Bitarrays!ByteOf
      <3>4. j = i \/ Bitarrays!ByteOf(i) # Bitarrays!ByteOf(j) \/ Bitarrays!BitOf(i) # Bitarrays!BitOf(j)
        BY <3>1, IndicesDiffer
      <3>5. CASE Bitarrays!pg_bitarray_set(i)
        BY <1>3, <3>1, <3>2, <3>3, <3>4, <3>5 DEF Bitarrays!pg_bitarray_set
      <3>6. CASE Bitarrays!pg_bitarray_unset(i)
        BY <1>3, <3>1, <3>2, <3>3, <3>4, <3>6 DEF Bitarrays!pg_bitarray_unset
      <3> QED
        BY <3>5, <3>6
    <2> QED
      BY <1>2, <2>1, <2>2, WrittenHolds
  <1>4. CASE ~Bitarrays!InBounds(i)
    <2>1. resized /\ max_index % ByteBits = 0
      BY <1>1, <1>4, IndicesHaveBytes
    <2>2. failed' = TRUE /\ data' = data
      BY <1>4 DEF Bitarrays!pg_bitarray_set, Bitarrays!pg_bitarray_unset
    <2> QED
      BY <1>2, <2>1, <2>2 DEF BitInv, BitTypes, Bitarrays!IndicesHaveABit, Bitarrays!pg_bitarray_resize_len, Bitarrays!CeilBytes
  <1> QED
    BY <1>3, <1>4

LEMMA SetAllHolds ==
    ASSUME BitInv, Bitarrays!pg_bitarray_set_all \/ Bitarrays!pg_bitarray_unset_all
    PROVE  BitInv'
  <1>1. UNCHANGED <<max_index, len, failed, resized>> /\ DOMAIN data' = DOMAIN data /\ bits' \subseteq 0 .. max_index
    BY DEF Bitarrays!pg_bitarray_set_all, Bitarrays!pg_bitarray_unset_all, Bitarrays!Indices
  <1>2. ASSUME ~resized, NEW j \in 0 .. max_index
        PROVE  Bitarrays!pg_bitarray_get(j)' <=> j \in bits'
    <2>1. j \in Nat /\ Bitarrays!ByteOf(j) \in 0 .. len - 1
      BY <1>2, IndicesHaveBytes
    <2>2. Bitarrays!ByteOf(j) \in DOMAIN data /\ Bitarrays!ByteOf(j) < len
      <3>1. len \in Nat /\ 0 .. len - 1 \subseteq DOMAIN data
        BY DEF BitInv, BitTypes
      <3> QED
        BY <2>1, <3>1
    <2>3. Bitarrays!BitOf(j) \in 0 .. ByteBits - 1
      BY <2>1, BitOfIndex
    <2>4. Bitarrays!pg_bitarray_get(j)' <=> Bitarrays!BitOf(j) \in data'[Bitarrays!ByteOf(j)]
      BY DEF Bitarrays!pg_bitarray_get, Bitarrays!BitOf, Bitarrays!ByteOf
    <2>5. CASE Bitarrays!pg_bitarray_set_all
      BY <2>2, <2>3, <2>4, <2>5 DEF Bitarrays!pg_bitarray_set_all, Bitarrays!Indices
    <2>6. CASE Bitarrays!pg_bitarray_unset_all
      BY <2>2, <2>4, <2>6 DEF Bitarrays!pg_bitarray_unset_all
    <2> QED
      BY <2>5, <2>6
  <1> QED
    BY <1>1, <1>2, WrittenHolds

LEMMA SetvHolds ==
    ASSUME BitInv, NEW bytes, Bitarrays!pg_bitarray_setv(bytes)
    PROVE  BitInv'
  <1>1. UNCHANGED <<max_index, len, failed, resized>> /\ DOMAIN data' = DOMAIN data /\ bits' \subseteq 0 .. max_index
    BY DEF Bitarrays!pg_bitarray_setv, Bitarrays!Indices
  <1>2. ASSUME ~resized, NEW j \in 0 .. max_index
        PROVE  Bitarrays!pg_bitarray_get(j)' <=> j \in bits'
    <2>1. Bitarrays!ByteOf(j) \in DOMAIN data
      <3>1. Bitarrays!ByteOf(j) \in 0 .. len - 1
        BY <1>2, IndicesHaveBytes
      <3> QED
        BY <3>1 DEF BitInv, BitTypes
    <2>2. Bitarrays!BitOf(j) \in data[Bitarrays!ByteOf(j)] <=> j \in bits
      BY <1>2 DEF BitInv, Bitarrays!pg_bitarray_get
    <2>3. Bitarrays!pg_bitarray_get(j)' <=> Bitarrays!BitOf(j) \in data'[Bitarrays!ByteOf(j)]
      BY DEF Bitarrays!pg_bitarray_get, Bitarrays!BitOf, Bitarrays!ByteOf
    <2> QED
      BY <2>1, <2>2, <2>3 DEF Bitarrays!pg_bitarray_setv, Bitarrays!Indices
  <1> QED
    BY <1>1, <1>2, WrittenHolds

LEMMA ResizeHolds ==
    ASSUME BitInv, ~failed, NEW m \in MaxIndices, Bitarrays!pg_bitarray_resize(m)
    PROVE  BitInv'
  <1>1. m \in Nat
    BY BitAssumption
  <1>2. /\ max_index' = m /\ len' = Bitarrays!pg_bitarray_resize_len(m)
        /\ DOMAIN data' = DOMAIN data \cup 0 .. len' - 1
        /\ bits' = bits \cap 0 .. m /\ resized' = TRUE /\ failed' = failed
    BY DEF Bitarrays!pg_bitarray_resize, Bitarrays!Indices
  <1>3. len' \in Nat
    BY <1>1, <1>2, CeilOfBits DEF Bitarrays!pg_bitarray_resize_len
  <1> QED
    BY <1>1, <1>2, <1>3 DEF BitInv, BitTypes, Bitarrays!IndicesHaveABit, Bitarrays!pg_bitarray_resize_len, Bitarrays!CeilBytes

LEMMA BitInitHolds == Bitarrays!BitInit => BitInv
  <1> SUFFICES ASSUME Bitarrays!BitInit PROVE BitInv
    OBVIOUS
  <1>1. /\ max_index \in MaxIndices /\ len = Bitarrays!pg_bitarray_init_len(max_index)
        /\ data = [b \in 0 .. len - 1 |-> {}] /\ failed = FALSE /\ bits = {} /\ resized = FALSE
    BY DEF Bitarrays!BitInit
  <1>2. max_index \in Nat
    BY <1>1, BitAssumption
  <1>3. Bitarrays!CeilBytes(max_index) \in Nat
       /\ Bitarrays!CeilBytes(max_index) = Bitarrays!ByteOf(max_index) + (IF Bitarrays!BitOf(max_index) = 0 THEN 0 ELSE 1)
    BY <1>2, CeilOfBits
  <1>4. len \in Nat /\ len = 1 + Bitarrays!CeilBytes(max_index)
    BY <1>1, <1>3 DEF Bitarrays!pg_bitarray_init_len
  <1>5. ASSUME NEW i \in 0 .. max_index
        PROVE  Bitarrays!ByteOf(i) \in 0 .. len - 1
    <2>1. Bitarrays!ByteOf(i) <= Bitarrays!ByteOf(max_index)
      BY <1>2, BytesAreOrdered
    <2>2. Bitarrays!ByteOf(i) \in Nat /\ Bitarrays!ByteOf(max_index) \in Nat
      BY <1>2, BitOfIndex
    <2>3. Bitarrays!ByteOf(max_index) <= Bitarrays!CeilBytes(max_index)
      BY <1>3, <2>2
    <2> QED
      BY <1>3, <1>4, <2>1, <2>2, <2>3
  <1>6. BitTypes
    BY <1>1, <1>2, <1>4 DEF BitTypes
  <1>7. \A i \in 0 .. max_index : ~Bitarrays!pg_bitarray_get(i)
    BY <1>1, <1>5 DEF Bitarrays!pg_bitarray_get
  <1> QED
    BY <1>1, <1>6, <1>7 DEF BitInv, Bitarrays!IndicesHaveABit

LEMMA BitStepHolds == BitInv /\ [Bitarrays!BitNext]_Bitarrays!bitVars => BitInv'
  <1> SUFFICES ASSUME BitInv, [Bitarrays!BitNext]_Bitarrays!bitVars
               PROVE  BitInv'
    OBVIOUS
  <1>1. CASE Bitarrays!BitNext
    BY <1>1, SetHolds, SetAllHolds, SetvHolds, ResizeHolds, Zenon DEF Bitarrays!BitNext
  <1>2. CASE UNCHANGED Bitarrays!bitVars
    BY <1>2, WrittenHolds DEF Bitarrays!bitVars, BitInv, BitTypes, Bitarrays!pg_bitarray_get, Bitarrays!BitOf, Bitarrays!ByteOf
  <1> QED
    BY <1>1, <1>2

\* The cardinality of an instance is that of sets.
LEMMA BitarraysCardinality == ASSUME NEW S PROVE Bitarrays!Cardinality(S) = Cardinality(S)
  BY DEF Bitarrays!Cardinality, Cardinality

LEMMA BitInvIsExact == BitInv => Bitarrays!BitsAreExact
  <1> SUFFICES ASSUME BitInv, ~resized PROVE Bitarrays!BitsAreASet
    BY DEF Bitarrays!BitsAreExact, BitInv, Bitarrays!BitsAreASet
  <1>1. max_index \in Nat /\ bits \subseteq 0 .. max_index
        /\ \A i \in 0 .. max_index : Bitarrays!pg_bitarray_get(i) <=> i \in bits
    BY DEF BitInv, BitTypes
  <1>2. 0 .. Bitarrays!pg_bitarray_len - 1 = 0 .. max_index
    BY <1>1 DEF Bitarrays!pg_bitarray_len
  <1>3. IsFiniteSet(0 .. max_index) /\ Cardinality(0 .. max_index) = max_index + 1
    BY <1>1, FS_Interval
  <1>4. {i \in 0 .. max_index : Bitarrays!pg_bitarray_get(i)} = bits
    BY <1>1
  <1>5. {i \in 0 .. max_index : ~Bitarrays!pg_bitarray_get(i)} = (0 .. max_index) \ bits
    BY <1>1
  <1>6. Cardinality((0 .. max_index) \ bits) = max_index + 1 - Cardinality(bits)
    <2> DEFINE S == 0 .. max_index
    <2>1. S \cap bits = bits
      BY <1>1
    <2>2. Cardinality(S \ bits) = Cardinality(S) - Cardinality(S \cap bits)
      BY <1>3, FS_Difference
    <2>3. Cardinality(S) = max_index + 1 /\ max_index \in Nat
      BY <1>1, <1>3
    <2>4. Cardinality(bits) \in Nat
      BY <1>1, <1>3, FS_Subset, FS_CardinalityType
    <2>5. Cardinality(S \cap bits) = Cardinality(bits)
      BY <2>1
    <2> HIDE DEF S
    <2>6. Cardinality(S \ bits) = max_index + 1 - Cardinality(bits)
      BY <2>2, <2>3, <2>4, <2>5
    <2> QED
      BY <2>6 DEF S
  <1>7. Bitarrays!pg_bitarray_count_set = Bitarrays!Cardinality(bits)
    BY <1>2, <1>4 DEF Bitarrays!pg_bitarray_count_set
  <1>8. Bitarrays!pg_bitarray_count_unset = max_index + 1 - Bitarrays!Cardinality(bits)
    BY <1>2, <1>5, <1>6, BitarraysCardinality DEF Bitarrays!pg_bitarray_count_unset
  <1>9. /\ Bitarrays!pg_bitarray_is_all_set <=> bits = 0 .. max_index
        /\ Bitarrays!pg_bitarray_is_all_unset <=> bits = {}
    BY <1>1, <1>2 DEF Bitarrays!pg_bitarray_is_all_set, Bitarrays!pg_bitarray_is_all_unset
  <1> QED
    BY <1>1, <1>7, <1>8, <1>9 DEF Bitarrays!BitsAreASet, Bitarrays!Indices
-----------------------------------------------------------------------------
(***************************************************************************)
(* Buffers: what is read of a file lands in the memory that was allocated  *)
(* for as much as fstat told. While a file is read the content is a prefix *)
(* of it, as long as the position of the descriptor says; and unless the   *)
(* file changes, the position is within what fstat told, and that within   *)
(* the memory. Before, the buffer holds no more than its capacity.         *)
(***************************************************************************)

Prefix(n) == [i \in 1 .. n |-> i]

BufTypes ==
    /\ content \in Seq(Nat) /\ capacity \in Nat /\ allocated = capacity
    /\ size \in Nat /\ st_size \in Nat /\ pos \in Nat
    /\ kind \in {"array", "string"}

InUse ==
    buf_pc = "use" => ~overrun /\ ~changed /\ pos = 0 /\ st_size = 0 /\ Len(content) <= capacity

Reading ==
    buf_pc = "read" => /\ Len(content) = pos /\ content = Prefix(pos)
                       /\ ~changed => size = st_size /\ pos <= size /\ st_size <= capacity

BufInv == BufTypes /\ InUse /\ Reading /\ BuffersOf!NoOverrun /\ BuffersOf!ReadsTheFile

LEMMA ArraysGrow ==
    ASSUME NEW room \in Nat, NEW min \in Nat
    PROVE  /\ BuffersOf!GrownArray(room, min) \in Nat
           /\ BuffersOf!GrownArray(room, min) >= min
           /\ BuffersOf!GrownArray(room, min) >= room + 1
  <1> DEFINE f == BuffersOf!PG_ARRAY_GROW_FORMULA(room)
  <1>1. f \in Nat /\ f >= room + 1
    BY DEF BuffersOf!PG_ARRAY_GROW_FORMULA
  <1> HIDE DEF f
  <1>2. BuffersOf!GrownArray(room, min) = IF f >= min THEN f ELSE min
    BY DEF BuffersOf!GrownArray, BuffersOf!Max2, f
  <1> QED
    BY <1>1, <1>2

LEMMA SpaceIsMade ==
    ASSUME BufTypes, NEW n \in Nat
    PROVE  /\ BuffersOf!SpaceFor(capacity, n) \in Nat
           /\ BuffersOf!SpaceFor(capacity, n) >= Len(content) + n
           /\ BuffersOf!SpaceFor(capacity, n) >= capacity
  <1>1. Len(content) \in Nat /\ capacity \in Nat
    BY DEF BufTypes
  <1> QED
    BY <1>1 DEF BuffersOf!SpaceFor, BuffersOf!len

LEMMA BuffersGrow ==
    ASSUME BufTypes, NEW n \in Nat
    PROVE  BuffersOf!Grown(n) \in Nat /\ BuffersOf!Grown(n) >= Len(content) + n
  <1>1. Len(content) \in Nat /\ capacity \in Nat
    BY DEF BufTypes
  <1> DEFINE m == Len(content) + n
             g == BuffersOf!GrownArray(capacity, m)
             s == BuffersOf!SpaceFor(capacity, n)
  <1>2. m \in Nat
    BY <1>1
  <1>3. g \in Nat /\ g >= m
    <2> HIDE DEF m
    <2> QED
      BY <1>1, <1>2, ArraysGrow
  <1>4. s \in Nat /\ s >= m
    BY SpaceIsMade
  <1>5. BuffersOf!Grown(n) = IF kind = "string" THEN s ELSE IF capacity < m THEN g ELSE capacity
    BY DEF BuffersOf!Grown, BuffersOf!len
  <1> HIDE DEF m, g, s
  <1>6. BuffersOf!Grown(n) \in Nat /\ BuffersOf!Grown(n) >= m
    BY <1>1, <1>2, <1>3, <1>4, <1>5
  <1> QED
    BY <1>6 DEF m

\* The prefix of a file, and what a read adds to it.
LEMMA PrefixesGrow ==
    ASSUME NEW m \in Nat, NEW n \in Nat
    PROVE  /\ Prefix(m) \in Seq(Nat) /\ Len(Prefix(m)) = m
           /\ Prefix(m) \o [i \in 1 .. n |-> m + i] = Prefix(m + n)
  <1>1. Prefix(m) \in Seq(Nat) /\ Len(Prefix(m)) = m
    BY DEF Prefix
  <1>2. Prefix(m + n) \in Seq(Nat) /\ Len(Prefix(m + n)) = m + n
    BY DEF Prefix
  <1> DEFINE r == [i \in 1 .. n |-> m + i]
             c == Prefix(m) \o r
  <1>3. r \in Seq(Nat) /\ Len(r) = n
    OBVIOUS
  <1>4. c \in Seq(Nat) /\ Len(c) = m + n
    BY <1>1, <1>3
  <1>5. ASSUME NEW i \in 1 .. m + n
        PROVE  c[i] = i
    <2>1. CASE i <= m
      <3>1. i \in 1 .. m /\ c[i] = Prefix(m)[i]
        BY <1>1, <1>3, <2>1
      <3> QED
        BY <3>1 DEF Prefix
    <2>2. CASE i > m
      <3>1. i - m \in 1 .. n /\ c[i] = r[i - m]
        BY <1>1, <1>3, <2>2
      <3>2. r[i - m] = m + (i - m) /\ m + (i - m) = i
        BY <3>1
      <3> QED
        BY <3>1, <3>2
    <2>3. i \in Nat /\ m \in Nat /\ (i <= m \/ i > m)
      OBVIOUS
    <2> QED
      BY <2>1, <2>2, <2>3
  <1> HIDE DEF c, r
  <1>6. c = [i \in 1 .. m + n |-> c[i]]
    BY <1>4
  <1>7. c = Prefix(m + n)
    BY <1>5, <1>6 DEF Prefix
  <1> QED
    BY <1>1, <1>7 DEF c, r

\* What a new content and a new capacity make of the memory.
LEMMA HoldsInUse ==
    ASSUME BufInv, buf_pc = "use", NEW room \in Nat, NEW new \in Seq(Nat),
           Len(new) <= room, BuffersOf!Holds(room, new)
    PROVE  content' = new /\ capacity' = room /\ allocated' = room /\ ~overrun'
  <1>1. content' = new /\ capacity' = room /\ allocated' = room
        /\ overrun' = (overrun \/ Len(new) > room)
    BY DEF BuffersOf!Holds
  <1>2. ~(Len(new) > room)
    OBVIOUS
  <1>3. ~overrun
    BY DEF BufInv, InUse
  <1>4. ~overrun'
    BY <1>1, <1>2, <1>3, Zenon
  <1> QED
    BY <1>1, <1>4

\* The operations on a buffer that is in use.
LEMMA UseHolds ==
    ASSUME BufInv, buf_pc = "use", UNCHANGED <<kind, buf_pc, size, st_size, pos, ok, changed>>,
           content' \in Seq(Nat), capacity' \in Nat, allocated' = capacity', ~overrun',
           Len(content') <= capacity'
    PROVE  BufInv'
  <1>1. BufTypes' /\ Reading'
    BY DEF BufInv, BufTypes, Reading
  <1>2. pos' = 0 /\ st_size' = 0 /\ ~changed'
    BY DEF BufInv, InUse
  <1>3. InUse'
    BY <1>2 DEF InUse
  <1>4. BuffersOf!NoOverrun' /\ BuffersOf!ReadsTheFile'
    BY DEF BuffersOf!NoOverrun, BuffersOf!ReadsTheFile
  <1> QED
    BY <1>1, <1>3, <1>4 DEF BufInv

LEMMA AppendHolds == BufInv /\ BuffersOf!pg_array_append => BufInv'
  <1> SUFFICES ASSUME BufInv, BuffersOf!pg_array_append PROVE BufInv'
    OBVIOUS
  <1> DEFINE new == Append(content, 0)
             room == IF capacity < Len(content) + 1 THEN BuffersOf!GrownArray(capacity, 0) ELSE capacity
  <1>1. buf_pc = "use" /\ BuffersOf!Holds(room, new)
        /\ UNCHANGED <<kind, buf_pc, size, st_size, pos, ok, changed>>
    BY DEF BuffersOf!pg_array_append, BuffersOf!fileVars, BuffersOf!len
  <1>2. content \in Seq(Nat) /\ Len(content) \in Nat /\ capacity \in Nat /\ Len(content) <= capacity
    BY <1>1 DEF BufInv, BufTypes, InUse
  <1>3. new \in Seq(Nat) /\ Len(new) = Len(content) + 1
    BY <1>2
  <1>4. /\ BuffersOf!GrownArray(capacity, 0) \in Nat
        /\ BuffersOf!GrownArray(capacity, 0) >= capacity + 1
    BY <1>2, ArraysGrow
  <1>5. room \in Nat /\ room >= Len(content) + 1
    BY <1>2, <1>4
  <1> HIDE DEF new, room
  <1>6. Len(new) <= room
    BY <1>3, <1>5
  <1>7. content' = new /\ capacity' = room /\ allocated' = room /\ ~overrun'
    BY <1>1, <1>3, <1>5, <1>6, HoldsInUse
  <1> QED
    BY <1>1, <1>3, <1>5, <1>6, <1>7, UseHolds

LEMMA AppendManyHolds == ASSUME NEW n \in Nat PROVE BufInv /\ BuffersOf!AppendMany(n) => BufInv'
  <1> SUFFICES ASSUME BufInv, BuffersOf!AppendMany(n) PROVE BufInv'
    OBVIOUS
  <1> DEFINE more == [i \in 1 .. n |-> 0]
             new == content \o more
             room == BuffersOf!Grown(n)
  <1>1. buf_pc = "use" /\ BuffersOf!Holds(room, new)
        /\ UNCHANGED <<kind, buf_pc, size, st_size, pos, ok, changed>>
    BY DEF BuffersOf!AppendMany, BuffersOf!fileVars
  <1>2. content \in Seq(Nat) /\ BufTypes
    BY DEF BufInv, BufTypes
  <1>3. more \in Seq(Nat) /\ Len(more) = n
    OBVIOUS
  <1>4. room \in Nat /\ room >= Len(content) + n
    BY <1>2, BuffersGrow
  <1> HIDE DEF more, room
  <1>5. new \in Seq(Nat) /\ Len(new) = Len(content) + n
    <2>1. content \in Seq(Nat) /\ Len(content) \in Nat /\ more \in Seq(Nat)
      BY <1>2, <1>3
    <2>2. new \in Seq(Nat) /\ Len(new) = Len(content) + Len(more)
      BY <2>1
    <2> QED
      BY <1>3, <2>2
  <1> HIDE DEF new
  <1>6. Len(new) <= room
    BY <1>4, <1>5
  <1>7. content' = new /\ capacity' = room /\ allocated' = room /\ ~overrun'
    BY <1>1, <1>4, <1>5, <1>6, HoldsInUse
  <1> QED
    BY <1>1, <1>4, <1>5, <1>6, <1>7, UseHolds

LEMMA ShortenHolds == ASSUME NEW n \in Nat PROVE BufInv /\ BuffersOf!Shorten(n) => BufInv'
  <1> SUFFICES ASSUME BufInv, BuffersOf!Shorten(n) PROVE BufInv'
    OBVIOUS
  <1>1. /\ buf_pc = "use" /\ n < Len(content) /\ content' = SubSeq(content, 1, n)
        /\ UNCHANGED <<kind, capacity, allocated, overrun, buf_pc, size, st_size, pos, ok, changed>>
    BY DEF BuffersOf!Shorten, BuffersOf!fileVars, BuffersOf!len
  <1>2. /\ content \in Seq(Nat) /\ capacity \in Nat /\ Len(content) <= capacity
        /\ ~overrun /\ allocated = capacity
    BY <1>1 DEF BufInv, BufTypes, InUse
  <1>3. content' \in Seq(Nat) /\ Len(content') = n
    BY <1>1, <1>2
  <1>4. capacity' \in Nat /\ allocated' = capacity' /\ Len(content') <= capacity'
    BY <1>1, <1>2, <1>3
  <1>5. ~overrun'
    BY <1>1, <1>2
  <1> QED
    BY <1>1, <1>3, <1>4, <1>5, UseHolds

\* A file that could not be opened looks like an empty one.
LEMMA OpenFailsHolds == BufInv /\ BuffersOf!OpenFails => BufInv'
  <1> SUFFICES ASSUME BufInv, BuffersOf!OpenFails PROVE BufInv'
    OBVIOUS
  <1>1. /\ buf_pc = "use" /\ Len(content) = 0 /\ buf_pc' = "done"
        /\ UNCHANGED <<kind, content, capacity, allocated, overrun, size, st_size, pos, changed>>
    BY DEF BuffersOf!OpenFails, BuffersOf!len
  <1>2. content \in Seq(Nat) /\ pos = 0 /\ st_size = 0
    BY <1>1 DEF BufInv, BufTypes, InUse
  <1>3. content = <<>>
    BY <1>1, <1>2
  <1>4. BuffersOf!ReadsTheFile'
    BY <1>1, <1>2, <1>3 DEF BuffersOf!ReadsTheFile
  <1> QED
    BY <1>1, <1>4 DEF BufInv, BufTypes, InUse, Reading, BuffersOf!NoOverrun

\* The memory is as large as what fstat told.
LEMMA FstatHolds == BufInv /\ BuffersOf!Fstat => BufInv'
  <1> SUFFICES ASSUME BufInv, BuffersOf!Fstat PROVE BufInv'
    OBVIOUS
  <1> DEFINE g == BuffersOf!GrownArray(capacity, size)
             s == BuffersOf!SpaceFor(capacity, size)
             room == IF kind = "array" THEN g ELSE s
  <1>1. /\ buf_pc = "use" /\ Len(content) = 0 /\ buf_pc' = "read" /\ st_size' = size
        /\ BuffersOf!Holds(room, content) /\ UNCHANGED <<kind, size, pos, ok, changed>>
    BY DEF BuffersOf!Fstat, BuffersOf!len
  <1>2. /\ content \in Seq(Nat) /\ pos = 0 /\ ~changed /\ size \in Nat /\ capacity \in Nat
        /\ BufTypes
    BY <1>1 DEF BufInv, BufTypes, InUse
  <1>3. g \in Nat /\ g >= size
    BY <1>2, ArraysGrow
  <1>4. s \in Nat /\ s >= Len(content) + size
    BY <1>2, SpaceIsMade
  <1> HIDE DEF g, s
  <1>5. room \in Nat /\ room >= size
    BY <1>1, <1>2, <1>3, <1>4
  <1> HIDE DEF room
  <1>6. Len(content) <= room
    BY <1>1, <1>5
  <1>7. content' = content /\ capacity' = room /\ allocated' = room /\ ~overrun'
    BY <1>1, <1>2, <1>5, <1>6, HoldsInUse
  <1>8. content = Prefix(0) /\ Len(content) = 0
    BY <1>1, <1>2 DEF Prefix
  <1>9. Reading'
    BY <1>1, <1>2, <1>5, <1>7, <1>8 DEF Reading
  <1>10. BufTypes'
    BY <1>1, <1>2, <1>5, <1>7 DEF BufTypes
  <1>11. InUse' /\ BuffersOf!NoOverrun' /\ BuffersOf!ReadsTheFile'
    BY <1>1, <1>7 DEF InUse, BuffersOf!NoOverrun, BuffersOf!ReadsTheFile
  <1> QED
    BY <1>9, <1>10, <1>11 DEF BufInv

\* What is left of the file fits into what is left of the memory, although
\* every read asks for the whole file.
LEMMA FileReadHolds ==
    ASSUME NEW n \in Nat, BufInv, BuffersOf!Read(n)
    PROVE  BufInv'
  <1> DEFINE m == Len(content) + n
             g == BuffersOf!GrownArray(capacity, m)
             s == BuffersOf!SpaceFor(capacity, m)
  <1>1. /\ buf_pc = "read" /\ pos + n <= size /\ pos' = pos + n
        /\ content' = content \o [i \in 1 .. n |-> pos + i]
        /\ overrun' = (overrun \/ Len(content) + n > allocated)
        /\ UNCHANGED <<kind, buf_pc, size, st_size, ok, changed>>
    BY DEF BuffersOf!Read, BuffersOf!Landed, BuffersOf!len
  <1>2. /\ capacity' = IF kind = "string" THEN s ELSE IF capacity < m THEN g ELSE capacity
        /\ allocated' = capacity'
    BY DEF BuffersOf!Read, BuffersOf!len
  <1>3. /\ Len(content) = pos /\ content = Prefix(pos) /\ BufTypes
        /\ pos \in Nat /\ size \in Nat /\ st_size \in Nat /\ capacity \in Nat /\ allocated = capacity
    BY <1>1 DEF BufInv, BufTypes, Reading
  <1>4. ~changed => size = st_size /\ st_size <= capacity
    BY <1>1 DEF BufInv, Reading
  <1>5. m = pos + n /\ m \in Nat
    BY <1>3
  <1>6. /\ content' = Prefix(pos + n)
        /\ Prefix(pos + n) \in Seq(Nat) /\ Len(Prefix(pos + n)) = pos + n
    <2>1. Prefix(pos) \o [i \in 1 .. n |-> pos + i] = Prefix(pos + n)
      BY <1>3, PrefixesGrow
    <2>2. content \o [i \in 1 .. n |-> pos + i] = Prefix(pos + n)
      BY <1>3, <2>1, Zenon
    <2>3. content' = Prefix(pos + n)
      BY <1>1, <2>2, Zenon
    <2>4. pos + n \in Nat
      BY <1>3
    <2>5. Prefix(pos + n) \in Seq(Nat) /\ Len(Prefix(pos + n)) = pos + n
      BY <2>4, PrefixesGrow
    <2> QED
      BY <2>3, <2>5
  <1>7. g \in Nat /\ g >= capacity + 1
    <2> HIDE DEF m
    <2> QED
      BY <1>3, <1>5, ArraysGrow
  <1>8. s \in Nat /\ s >= capacity
    <2> HIDE DEF m
    <2> QED
      BY <1>3, <1>5, SpaceIsMade
  <1> HIDE DEF g, s
  <1>9. capacity' \in Nat /\ capacity' >= capacity
    BY <1>2, <1>3, <1>7, <1>8
  <1>10. BuffersOf!NoOverrun'
    <2>1. CASE changed
      BY <1>1, <2>1 DEF BuffersOf!NoOverrun
    <2>2. CASE ~changed
      <3>1. ~(Len(content) + n > allocated)
        BY <1>1, <1>3, <1>4, <2>2
      <3>2. ~overrun
        BY <2>2 DEF BufInv, BuffersOf!NoOverrun
      <3>3. ~overrun'
        BY <1>1, <3>1, <3>2, Zenon
      <3> QED
        BY <3>3 DEF BuffersOf!NoOverrun
    <2> QED
      BY <2>1, <2>2
  <1>11. BufTypes'
    BY <1>1, <1>2, <1>3, <1>6, <1>9 DEF BufTypes
  <1>12. Len(content') = pos' /\ content' = Prefix(pos')
    BY <1>1, <1>6
  <1>13. ~changed => size' = st_size' /\ pos' <= size' /\ st_size' <= capacity'
    BY <1>1, <1>3, <1>4, <1>9
  <1>14. changed' = changed /\ buf_pc' = "read"
    BY <1>1
  <1>15. Reading'
    BY <1>12, <1>13, <1>14 DEF Reading
  <1>16. InUse' /\ BuffersOf!ReadsTheFile'
    BY <1>14 DEF InUse, BuffersOf!ReadsTheFile
  <1> QED
    BY <1>10, <1>11, <1>15, <1>16 DEF BufInv

\* As much as fstat told is the whole file, and so is its end.
LEMMA ReadDoneHolds == BufInv /\ BuffersOf!ReadDone => BufInv'
  <1> SUFFICES ASSUME BufInv, BuffersOf!ReadDone PROVE BufInv'
    OBVIOUS
  <1>1. /\ buf_pc = "read" /\ (Len(content) >= st_size \/ pos >= size) /\ buf_pc' = "done"
        /\ UNCHANGED <<kind, content, capacity, allocated, overrun, size, st_size, pos, changed>>
    BY DEF BuffersOf!ReadDone, BuffersOf!len
  <1>2. Len(content) = pos /\ content = Prefix(pos) /\ pos \in Nat /\ size \in Nat
    BY <1>1 DEF BufInv, BufTypes, Reading
  <1>3. ~changed => size = st_size /\ pos <= size
    BY <1>1 DEF BufInv, Reading
  <1>4. ~changed => pos = size
    BY <1>1, <1>2, <1>3
  <1>5. ~changed' => content' = [i \in 1 .. size' |-> i]
    BY <1>1, <1>2, <1>4 DEF Prefix
  <1>6. BuffersOf!ReadsTheFile'
    BY <1>5 DEF BuffersOf!ReadsTheFile
  <1> QED
    BY <1>1, <1>6 DEF BufInv, BufTypes, InUse, Reading, BuffersOf!NoOverrun

LEMMA ReadFailsHolds == BufInv /\ BuffersOf!ReadFails => BufInv'
  BY DEF BuffersOf!ReadFails, BufInv, BufTypes, InUse, Reading, BuffersOf!NoOverrun,
         BuffersOf!ReadsTheFile

LEMMA FileChangesHolds ==
    ASSUME NEW n \in FileSizes PROVE BufInv /\ BuffersOf!FileChangesTo(n) => BufInv'
  BY BufAssumption DEF BuffersOf!FileChangesTo, BufInv, BufTypes, InUse, Reading,
         BuffersOf!NoOverrun, BuffersOf!ReadsTheFile

LEMMA BufInitHolds == BuffersOf!BufInit => BufInv
  BY BufAssumption DEF BuffersOf!BufInit, BufInv, BufTypes, InUse, Reading, BuffersOf!NoOverrun,
         BuffersOf!ReadsTheFile

LEMMA BufStepHolds == BufInv /\ [BuffersOf!BufNext]_BuffersOf!bufVars => BufInv'
  <1> SUFFICES ASSUME BufInv, [BuffersOf!BufNext]_BuffersOf!bufVars PROVE BufInv'
    OBVIOUS
  <1>1. CASE UNCHANGED BuffersOf!bufVars
    BY <1>1 DEF BuffersOf!bufVars, BufInv, BufTypes, InUse, Reading, BuffersOf!NoOverrun,
         BuffersOf!ReadsTheFile
  <1>2. ASSUME NEW n \in 0 .. MaxLen, BuffersOf!AppendMany(n) \/ BuffersOf!Shorten(n) \/ BuffersOf!Read(n)
        PROVE  BufInv'
    <2>1. n \in Nat
      BY BufAssumption
    <2> QED
      BY <1>2, <2>1, AppendManyHolds, ShortenHolds, FileReadHolds
  <1>3. CASE BuffersOf!BufNext
    BY <1>2, <1>3, AppendHolds, OpenFailsHolds, FstatHolds, ReadDoneHolds, ReadFailsHolds,
       FileChangesHolds DEF BuffersOf!BufNext
  <1> QED
    BY <1>1, <1>3
-----------------------------------------------------------------------------
(***************************************************************************)
(* RingDeque: the ring buffer implements the queue with two ends, for      *)
(* every capacity and every set of bytes (RingIsADeque).                   *)
(*                                                                         *)
(* The invariant is its type. What is left is that each operation on the   *)
(* memory is an operation on the queue that pg_ring_get shows: every slot  *)
(* that is read is one that the operation left alone, or has written.      *)
(***************************************************************************)

USE RingCapAssumption DEF Slots

\* The memory starts with zeros, which the operations never show.
Bytes   == RingValues \cup {0}
RingInv == ring \in Rings(Bytes)

\* The queue that a ring holds; Contents is that of the variable.
Queue(r) == [i \in 1 .. r.len |-> pg_ring_get(r, i - 1)]

-----------------------------------------------------------------------------
(* Queues and the sequences that the abstract operations build. *)

LEMMA QueueIsSeq ==
    ASSUME NEW r \in Rings(Bytes)
    PROVE  /\ Queue(r) \in Seq(Bytes)
           /\ Len(Queue(r)) = r.len /\ r.len \in Nat
           /\ \A i \in 1 .. r.len : Queue(r)[i] = pg_ring_get(r, i - 1)
  <1>1. r.len \in Nat
    BY RingFields
  <1>2. ASSUME NEW i \in 1 .. r.len
        PROVE  pg_ring_get(r, i - 1) \in Bytes
    <2>1. i - 1 \in Nat
      BY <1>1
    <2> QED
      BY <2>1, GetIsByte
  <1>3. Queue(r) \in [1 .. r.len -> Bytes]
    BY <1>2 DEF Queue
  <1>4. Queue(r) \in Seq(Bytes)
    BY <1>1, <1>3, SeqDef
  <1> QED
    BY <1>1, <1>3, <1>4, LenProperties DEF Queue

LEMMA Concatenated ==
    ASSUME NEW S, NEW q \in Seq(S), NEW t \in Seq(S), NEW n, Len(q) = n
    PROVE  /\ q \o t \in Seq(S) /\ Len(q \o t) = n + Len(t)
           /\ \A i \in 1 .. n + Len(t) : (q \o t)[i] = IF i <= n THEN q[i] ELSE t[i - n]
  BY ConcatProperties

LEMMA OneMore ==
    ASSUME NEW S, NEW q \in Seq(S), NEW x \in S, NEW n, Len(q) = n
    PROVE  /\ /\ q \o <<x>> \in Seq(S) /\ Len(q \o <<x>>) = n + 1
              /\ \A i \in 1 .. n + 1 : (q \o <<x>>)[i] = IF i <= n THEN q[i] ELSE x
           /\ /\ <<x>> \o q \in Seq(S) /\ Len(<<x>> \o q) = n + 1
              /\ \A i \in 1 .. n + 1 : (<<x>> \o q)[i] = IF i = 1 THEN x ELSE q[i - 1]
  <1>1. <<x>> \in Seq(S) /\ Len(<<x>>) = 1 /\ <<x>>[1] = x
    OBVIOUS
  <1>2. n \in Nat
    OBVIOUS
  <1>3. ASSUME NEW i \in 1 .. n + 1
        PROVE  /\ (q \o <<x>>)[i] = IF i <= n THEN q[i] ELSE x
               /\ (<<x>> \o q)[i] = IF i = 1 THEN x ELSE q[i - 1]
    <2>1. ~(i <= n) => i - n = 1
      BY <1>2
    <2>2. /\ (q \o <<x>>)[i] = IF i <= n THEN q[i] ELSE <<x>>[i - n]
          /\ (<<x>> \o q)[i] = IF i <= 1 THEN <<x>>[i] ELSE q[i - 1]
      BY <1>1, <1>2, ConcatProperties
    <2> QED
      BY <1>1, <1>2, <2>1, <2>2
  <1> QED
    BY <1>1, <1>2, <1>3, ConcatProperties

LEMMA SubSequence ==
    ASSUME NEW S, NEW q \in Seq(S), NEW n \in 0 .. Len(q)
    PROVE  /\ /\ SubSeq(q, n + 1, Len(q)) \in Seq(S)
              /\ Len(SubSeq(q, n + 1, Len(q))) = Len(q) - n
              /\ \A i \in 1 .. Len(q) - n : SubSeq(q, n + 1, Len(q))[i] = q[n + i]
           /\ /\ SubSeq(q, 1, Len(q) - n) \in Seq(S)
              /\ Len(SubSeq(q, 1, Len(q) - n)) = Len(q) - n
              /\ \A i \in 1 .. Len(q) - n : SubSeq(q, 1, Len(q) - n)[i] = q[i]
  BY SubSeqProperties

\* A ring that shows the elements of q holds q.
LEMMA SameQueue ==
    ASSUME NEW r \in Rings(Bytes), NEW q \in Seq(Bytes), Len(q) = r.len,
           \A i \in 1 .. r.len : q[i] = pg_ring_get(r, i - 1)
    PROVE  Queue(r) = q
  BY QueueIsSeq, SeqEqual

-----------------------------------------------------------------------------
(* The operations on the memory, one lemma for each. *)

\* pg_ring_push_backv.
LEMMA PushBackvQueue ==
    ASSUME NEW r \in Rings(Bytes), NEW bytes \in Seq(Bytes), Len(bytes) <= RingCap - r.len
    PROVE  LET s == pg_ring_push_backv(r, bytes)
           IN  s \in Rings(Bytes) /\ Queue(s) = Queue(r) \o bytes
  <1> DEFINE s == pg_ring_push_backv(r, bytes)
             q == Queue(r) \o bytes
  <1>1. /\ s \in Rings(Bytes) /\ s.len = r.len + Len(bytes)
        /\ \A i \in 0 .. r.len - 1 : pg_ring_get(s, i) = pg_ring_get(r, i)
        /\ \A j \in 0 .. Len(bytes) - 1 : pg_ring_get(s, r.len + j) = bytes[j + 1]
    BY PushBackvAppends
  <1>2. /\ Queue(r) \in Seq(Bytes) /\ Len(Queue(r)) = r.len /\ r.len \in Nat
        /\ \A i \in 1 .. r.len : Queue(r)[i] = pg_ring_get(r, i - 1)
    BY QueueIsSeq
  <1>3. /\ q \in Seq(Bytes) /\ Len(q) = r.len + Len(bytes)
        /\ \A i \in 1 .. r.len + Len(bytes) :
             q[i] = IF i <= r.len THEN Queue(r)[i] ELSE bytes[i - r.len]
    <2> DEFINE old == Queue(r)
    <2>1. old \in Seq(Bytes) /\ Len(old) = r.len
      BY <1>2
    <2> HIDE DEF old
    <2>2. /\ old \o bytes \in Seq(Bytes) /\ Len(old \o bytes) = Len(old) + Len(bytes)
          /\ \A i \in 1 .. Len(old) + Len(bytes) :
               (old \o bytes)[i] = IF i <= Len(old) THEN old[i] ELSE bytes[i - Len(old)]
      BY <2>1, ConcatProperties
    <2>3. Len(old) = r.len /\ q = old \o bytes
      BY <2>1 DEF old
    <2> HIDE DEF q
    <2>4. /\ q \in Seq(Bytes) /\ Len(q) = r.len + Len(bytes)
          /\ \A i \in 1 .. r.len + Len(bytes) : q[i] = IF i <= r.len THEN old[i] ELSE bytes[i - r.len]
      BY <2>2, <2>3
    <2> QED
      BY <2>4 DEF old
  <1> HIDE DEF s, q
  <1>4. ASSUME NEW i \in 1 .. s.len
        PROVE  q[i] = pg_ring_get(s, i - 1)
    <2>1. CASE i <= r.len
      <3>1. i \in 1 .. r.len /\ i - 1 \in 0 .. r.len - 1
        BY <1>1, <1>2, <2>1
      <3> QED
        BY <1>1, <1>2, <1>3, <2>1, <3>1
    <2>2. CASE ~(i <= r.len)
      <3> DEFINE j == i - 1 - r.len
      <3>1. /\ j \in 0 .. Len(bytes) - 1 /\ r.len + j = i - 1 /\ j + 1 = i - r.len
        BY <1>1, <1>2, <2>2
      <3>2. q[i] = bytes[i - r.len]
        BY <1>1, <1>3, <2>2
      <3> HIDE DEF j
      <3> QED
        BY <1>1, <3>1, <3>2
    <2> QED
      BY <2>1, <2>2
  <1>5. Queue(s) = q
    BY <1>1, <1>3, <1>4, SameQueue
  <1> QED
    BY <1>1, <1>5 DEF s, q

\* Different bytes are kept in different slots.
LEMMA SlotsDiffer ==
    ASSUME NEW count \in Nat, NEW first \in Nat, first < count, NEW i, NEW j \in Nat,
           i < j, j < count, NEW a, NEW b, KeptIn(count, first, i, a), KeptIn(count, first, j, b)
    PROVE  a # b
  BY DEF KeptIn

LEMMA SlotsAgree ==
    ASSUME NEW count, NEW first, NEW i \in Nat, NEW a, NEW b,
           count \in Nat, first \in Nat, KeptIn(count, first, i, a), KeptIn(count, first, i, b)
    PROVE  a = b
  BY DEF KeptIn

\* Writing x into the slot behind the last byte.
LEMMA PushBackQueue ==
    ASSUME NEW r \in Rings(Bytes), NEW x \in Bytes, r.len < RingCap
    PROVE  LET slot == (r.offset + r.len) % RingCap
               s    == [r EXCEPT !.data = [@ EXCEPT ![slot] = x], !.len = @ + 1]
           IN  s \in Rings(Bytes) /\ Queue(s) = Queue(r) \o <<x>>
  <1> DEFINE slot == (r.offset + r.len) % RingCap
             d    == [r.data EXCEPT ![slot] = x]
             s    == [r EXCEPT !.data = d, !.len = r.len + 1]
             q    == Queue(r) \o <<x>>
  <1>1. /\ r.offset \in Nat /\ r.offset < RingCap /\ r.len \in Nat
        /\ r.data \in [Slots -> Bytes] /\ RingCap \in Nat
    BY RingFields
  <1>2. slot \in Slots /\ KeptIn(RingCap, r.offset, r.len, slot)
    <2>1. r.len <= RingCap
      BY <1>1
    <2> QED
      BY <1>1, <2>1, SlotIsKept
  <1>3. /\ Queue(r) \in Seq(Bytes) /\ Len(Queue(r)) = r.len
        /\ \A i \in 1 .. r.len : Queue(r)[i] = pg_ring_get(r, i - 1)
    BY QueueIsSeq
  <1>4. /\ q \in Seq(Bytes) /\ Len(q) = r.len + 1
        /\ \A i \in 1 .. r.len + 1 : q[i] = IF i <= r.len THEN Queue(r)[i] ELSE x
    BY <1>3, OneMore
  <1> HIDE DEF slot
  <1>5. d \in [Slots -> Bytes] /\ d[slot] = x /\ \A k \in Slots : k # slot => d[k] = r.data[k]
    BY <1>1, <1>2
  <1> HIDE DEF d
  <1>6. s \in Rings(Bytes) /\ s.data = d /\ s.offset = r.offset /\ s.len = r.len + 1
    <2>1. s.data = d /\ s.offset = r.offset /\ s.len = r.len + 1
      BY DEF Rings
    <2>2. r.len + 1 \in 0 .. RingCap
      BY <1>1
    <2> QED
      BY <1>5, <2>1, <2>2 DEF Rings
  <1> HIDE DEF s, q
  <1>7. ASSUME NEW i \in 1 .. s.len
        PROVE  q[i] = pg_ring_get(s, i - 1)
    <2> DEFINE k == (r.offset + (i - 1)) % RingCap
    <2>1. i - 1 \in Nat /\ i - 1 <= RingCap
      BY <1>1, <1>6
    <2>2. k \in Slots /\ KeptIn(RingCap, r.offset, i - 1, k)
      BY <2>1, SlotIsKept
    <2>3. pg_ring_get(s, i - 1) = d[k] /\ pg_ring_get(r, i - 1) = r.data[k]
      BY <1>6 DEF pg_ring_get
    <2> HIDE DEF k
    <2>4. CASE i <= r.len
      <3>1. k # slot
        <4> DEFINE m == i - 1
        <4>1. m < r.len /\ r.len < RingCap
          BY <1>1, <2>1, <2>4
        <4>2. KeptIn(RingCap, r.offset, m, k)
          BY <2>2
        <4>3. KeptIn(RingCap, r.offset, r.len, slot)
          BY <1>2
        <4> HIDE DEF m
        <4> QED
          BY <1>1, <4>1, <4>2, <4>3, SlotsDiffer
      <3>2. i \in 1 .. r.len
        BY <1>1, <2>4
      <3> QED
        BY <1>3, <1>4, <1>5, <1>6, <2>2, <2>3, <2>4, <3>1, <3>2
    <2>5. CASE ~(i <= r.len)
      <3>1. i = r.len + 1
        BY <1>1, <1>6, <2>5
      <3>2. k = slot
        <4>1. KeptIn(RingCap, r.offset, r.len, k)
          <5>1. i - 1 = r.len
            BY <1>1, <3>1
          <5> QED
            BY <2>2, <5>1
        <4> QED
          BY <1>1, <1>2, <4>1, SlotsAgree
      <3>3. q[i] = x
        BY <1>4, <1>6, <2>5
      <3> QED
        BY <1>5, <2>3, <3>2, <3>3
    <2> QED
      BY <2>4, <2>5
  <1>8. Queue(s) = q
    BY <1>4, <1>6, <1>7, SameQueue
  <1> QED
    BY <1>6, <1>8 DEF s, q, d, slot

\* Where pg_ring_push_front writes: one slot before the first byte.
LEMMA BeforeIs ==
    ASSUME NEW r \in Rings(Bytes)
    PROVE  /\ Before(r.offset) \in Slots
           /\ r.offset = 0 => Before(r.offset) = RingCap - 1
           /\ r.offset > 0 => Before(r.offset) = r.offset - 1
  <1> DEFINE a == r.offset - 1 + RingCap
  <1>1. r.offset \in Nat /\ r.offset < RingCap /\ RingCap \in Nat \ {0}
    BY RingFields
  <1>2. a \in Nat /\ a < 2 * RingCap
    BY <1>1
  <1>3. /\ r.offset = 0 => a = RingCap - 1
        /\ r.offset > 0 => a - RingCap = r.offset - 1 /\ a >= RingCap
    BY <1>1
  <1> HIDE DEF a
  <1>4. /\ a < RingCap => a % RingCap = a
        /\ a >= RingCap => a % RingCap = a - RingCap
    BY <1>1, <1>2, WrapOnce
  <1>5. Before(r.offset) = a % RingCap
    BY DEF Before, a
  <1> QED
    BY <1>1, <1>3, <1>4, <1>5

\* Writing x there.
LEMMA PushFrontQueue ==
    ASSUME NEW r \in Rings(Bytes), NEW x \in Bytes, r.len < RingCap
    PROVE  LET slot == Before(r.offset)
               s    == [r EXCEPT !.offset = slot, !.data = [@ EXCEPT ![slot] = x], !.len = @ + 1]
           IN  s \in Rings(Bytes) /\ Queue(s) = <<x>> \o Queue(r)
  <1> DEFINE slot == Before(r.offset)
             d    == [r.data EXCEPT ![slot] = x]
             s    == [r EXCEPT !.offset = slot, !.data = d, !.len = r.len + 1]
             q    == <<x>> \o Queue(r)
  <1>1. /\ r.offset \in Nat /\ r.offset < RingCap /\ r.len \in Nat
        /\ r.data \in [Slots -> Bytes] /\ RingCap \in Nat
    BY RingFields
  <1>2. /\ slot \in Slots
        /\ r.offset = 0 => slot = RingCap - 1
        /\ r.offset > 0 => slot = r.offset - 1
    BY BeforeIs
  <1>3. /\ Queue(r) \in Seq(Bytes) /\ Len(Queue(r)) = r.len
        /\ \A i \in 1 .. r.len : Queue(r)[i] = pg_ring_get(r, i - 1)
    BY QueueIsSeq
  <1>4. /\ q \in Seq(Bytes) /\ Len(q) = r.len + 1
        /\ \A i \in 1 .. r.len + 1 : q[i] = IF i = 1 THEN x ELSE Queue(r)[i - 1]
    BY <1>3, OneMore
  <1> HIDE DEF slot
  <1>5. d \in [Slots -> Bytes] /\ d[slot] = x /\ \A k \in Slots : k # slot => d[k] = r.data[k]
    BY <1>1, <1>2
  <1> HIDE DEF d
  <1>6. s \in Rings(Bytes) /\ s.data = d /\ s.offset = slot /\ s.len = r.len + 1
    <2>1. s.data = d /\ s.offset = slot /\ s.len = r.len + 1
      BY DEF Rings
    <2>2. r.len + 1 \in 0 .. RingCap
      BY <1>1
    <2> QED
      BY <1>2, <1>5, <2>1, <2>2 DEF Rings
  <1> HIDE DEF s, q
  <1>7. ASSUME NEW i \in 1 .. s.len
        PROVE  q[i] = pg_ring_get(s, i - 1)
    <2> DEFINE k == (s.offset + (i - 1)) % RingCap
    <2>1. i - 1 \in Nat /\ i - 1 <= RingCap /\ i - 1 < RingCap
      BY <1>1, <1>6
    <2>2. k \in Slots /\ KeptIn(RingCap, slot, i - 1, k)
      BY <1>6, <2>1, SlotIsKept
    <2>3. pg_ring_get(s, i - 1) = d[k]
      BY <1>6 DEF pg_ring_get
    <2> HIDE DEF k
    <2>4. CASE i = 1
      <3>1. k = slot
        BY <1>1, <1>2, <2>2, <2>4 DEF KeptIn
      <3>2. q[i] = x
        BY <1>4, <1>6, <2>4
      <3> QED
        BY <1>5, <2>3, <3>1, <3>2
    <2>5. CASE i # 1
      <3> DEFINE j == (r.offset + (i - 2)) % RingCap
      <3>1. i - 2 \in Nat /\ i - 2 <= RingCap /\ i - 1 \in 1 .. r.len /\ (i - 1) - 1 = i - 2
        BY <1>1, <1>6, <2>5
      <3>2. j \in Slots /\ KeptIn(RingCap, r.offset, i - 2, j)
        BY <3>1, SlotIsKept
      <3>3. pg_ring_get(r, i - 2) = r.data[j]
        BY DEF pg_ring_get
      <3> HIDE DEF j
      <3>4. k = j /\ k # slot
        BY <1>1, <1>2, <2>1, <2>2, <2>5, <3>2 DEF KeptIn
      <3>5. q[i] = Queue(r)[i - 1]
        BY <1>4, <1>6, <2>5
      <3>6. Queue(r)[i - 1] = pg_ring_get(r, i - 2)
        BY <1>3, <3>1
      <3> QED
        BY <1>5, <2>2, <2>3, <3>3, <3>4, <3>5, <3>6
    <2> QED
      BY <2>4, <2>5
  <1>8. Queue(s) = q
    BY <1>4, <1>6, <1>7, SameQueue
  <1> QED
    BY <1>6, <1>8 DEF s, q, d, slot

\* pg_ring_consume_front.
LEMMA DropFrontQueue ==
    ASSUME NEW r \in Rings(Bytes), NEW n \in 0 .. r.len
    PROVE  LET s == pg_ring_consume_front(r, n)
           IN  s \in Rings(Bytes) /\ Queue(s) = SubSeq(Queue(r), n + 1, Len(Queue(r)))
  <1> DEFINE s == pg_ring_consume_front(r, n)
             q == SubSeq(Queue(r), n + 1, Len(Queue(r)))
  <1>1. /\ s \in Rings(Bytes) /\ s.len = r.len - n
        /\ \A i \in Nat : pg_ring_get(s, i) = pg_ring_get(r, n + i)
    BY ConsumeFrontDrops
  <1>2. /\ Queue(r) \in Seq(Bytes) /\ Len(Queue(r)) = r.len /\ r.len \in Nat
        /\ \A i \in 1 .. r.len : Queue(r)[i] = pg_ring_get(r, i - 1)
    BY QueueIsSeq
  <1>3. /\ q \in Seq(Bytes) /\ Len(q) = r.len - n
        /\ \A i \in 1 .. r.len - n : q[i] = Queue(r)[n + i]
    BY <1>2, SubSequence
  <1> HIDE DEF s, q
  <1>4. ASSUME NEW i \in 1 .. s.len
        PROVE  q[i] = pg_ring_get(s, i - 1)
    <2>1. i \in 1 .. r.len - n /\ n + i \in 1 .. r.len /\ i - 1 \in Nat /\ (n + i) - 1 = n + (i - 1)
      <3> DEFINE l == r.len
      <3>1. l \in Nat /\ n \in 0 .. l /\ i \in 1 .. l - n
        BY <1>1, <1>2
      <3> HIDE DEF l
      <3>2. i \in Nat /\ 1 <= i /\ i <= l - n /\ n \in Nat
        BY <3>1
      <3>3. n + i \in 1 .. l /\ i - 1 \in Nat /\ (n + i) - 1 = n + (i - 1)
        BY <3>1, <3>2
      <3> QED
        BY <3>1, <3>3 DEF l
    <2>2. q[i] = Queue(r)[n + i]
      BY <1>3, <2>1
    <2>3. Queue(r)[n + i] = pg_ring_get(r, (n + i) - 1)
      BY <1>2, <2>1
    <2>4. pg_ring_get(s, i - 1) = pg_ring_get(r, n + (i - 1))
      BY <1>1, <2>1
    <2> QED
      BY <2>1, <2>2, <2>3, <2>4
  <1>5. Queue(s) = q
    BY <1>1, <1>3, <1>4, SameQueue
  <1> QED
    BY <1>1, <1>5 DEF s, q

\* pg_ring_consume_back only changes the length.
LEMMA DropBackQueue ==
    ASSUME NEW r \in Rings(Bytes), NEW n \in 0 .. r.len
    PROVE  LET s == [r EXCEPT !.len = @ - n]
           IN  s \in Rings(Bytes) /\ Queue(s) = SubSeq(Queue(r), 1, Len(Queue(r)) - n)
  <1> DEFINE s == [r EXCEPT !.len = r.len - n]
             q == SubSeq(Queue(r), 1, Len(Queue(r)) - n)
  <1>1. /\ Queue(r) \in Seq(Bytes) /\ Len(Queue(r)) = r.len /\ r.len \in Nat
        /\ \A i \in 1 .. r.len : Queue(r)[i] = pg_ring_get(r, i - 1)
    BY QueueIsSeq
  <1>2. s \in Rings(Bytes) /\ s.data = r.data /\ s.offset = r.offset /\ s.len = r.len - n
    <2>1. r.len - n \in 0 .. RingCap
      BY <1>1, RingFields
    <2> QED
      BY <2>1 DEF Rings
  <1>3. /\ q \in Seq(Bytes) /\ Len(q) = r.len - n
        /\ \A i \in 1 .. r.len - n : q[i] = Queue(r)[i]
    BY <1>1, SubSequence
  <1> HIDE DEF s, q
  <1>4. ASSUME NEW i \in 1 .. s.len
        PROVE  q[i] = pg_ring_get(s, i - 1)
    <2>1. i \in 1 .. r.len /\ i \in 1 .. r.len - n
      BY <1>1, <1>2
    <2>2. pg_ring_get(s, i - 1) = pg_ring_get(r, i - 1)
      BY <1>2 DEF pg_ring_get
    <2> QED
      BY <1>1, <1>3, <2>1, <2>2
  <1>5. Queue(s) = q
    BY <1>2, <1>3, <1>4, SameQueue
  <1> QED
    BY <1>2, <1>5 DEF s, q

\* pg_ring_clear.
LEMMA ClearQueue ==
    ASSUME NEW r \in Rings(Bytes)
    PROVE  LET s == [r EXCEPT !.offset = 0, !.len = 0]
           IN  s \in Rings(Bytes) /\ Queue(s) = <<>>
  <1> DEFINE s == [r EXCEPT !.offset = 0, !.len = 0]
  <1>1. s \in Rings(Bytes) /\ s.len = 0
    <2>1. 0 \in Slots /\ 0 \in 0 .. RingCap
      OBVIOUS
    <2>2. s.data = r.data /\ s.offset = 0 /\ s.len = 0
      BY DEF Rings
    <2> QED
      BY <2>1, <2>2, RingFields DEF Rings
  <1> HIDE DEF s
  <1>2. Queue(s) = <<>>
    BY <1>1, QueueIsSeq, EmptySeq
  <1> QED
    BY <1>1, <1>2 DEF s

-----------------------------------------------------------------------------
(* The refinement. *)

\* What a step must be: one of the queue, which leaves a ring behind.
Implements == RingInv' /\ D!DequeNext

LEMMA InitIsEmpty == RingInit => RingInv /\ D!DequeInit
  <1> SUFFICES ASSUME RingInit
               PROVE  RingInv /\ D!DequeInit
    OBVIOUS
  <1>1. ring.data = [i \in Slots |-> 0] /\ ring.offset = 0 /\ ring.len = 0 /\ out = <<>>
    BY DEF RingInit, pg_ring_init
  <1>2. ring \in Rings(Bytes)
    BY DEF RingInit, pg_ring_init, Rings, Bytes
  <1>3. Contents = <<>>
    BY <1>1, <1>2, QueueIsSeq, EmptySeq DEF Contents, Queue
  <1> QED
    BY <1>1, <1>2, <1>3 DEF RingInv, D!DequeInit

LEMMA PushBackvHolds ==
    ASSUME RingInv, NEW n \in 0 .. RingCap, NEW bytes \in [1 .. n -> RingValues], PushBackv(bytes)
    PROVE  Implements
  <1>1. bytes \in Seq(Bytes) /\ Len(bytes) = n
    <2>1. bytes \in [1 .. n -> Bytes]
      BY DEF Bytes
    <2> QED
      BY <2>1, SeqDef
  <1>2. ring \in Rings(Bytes) /\ ring.len \in Nat /\ Len(bytes) <= RingCap - ring.len
    BY RingFields DEF RingInv, PushBackv, pg_ring_space
  <1>3. ring' \in Rings(Bytes) /\ Queue(ring') = Queue(ring) \o bytes
    BY <1>1, <1>2, PushBackvQueue DEF PushBackv
  <1>4. D!PushBack(bytes)
    <2>1. Contents = Queue(ring) /\ Contents' = Queue(ring')
      BY DEF Contents, Queue
    <2>2. Len(Queue(ring)) = ring.len
      BY <1>2, QueueIsSeq
    <2> HIDE DEF Contents
    <2> QED
      BY <1>1, <1>2, <1>3, <2>1, <2>2 DEF D!PushBack, PushBackv
  <1> QED
    BY <1>3, <1>4 DEF Implements, RingInv, D!DequeNext

LEMMA PushBackHolds ==
    ASSUME RingInv, NEW x \in RingValues, pg_ring_push_back(x)
    PROVE  Implements
  <1>1. ring \in Rings(Bytes) /\ ring.len \in Nat /\ ring.len < RingCap /\ x \in Bytes
    BY RingFields DEF RingInv, pg_ring_push_back, Bytes
  <1>2. ring' \in Rings(Bytes) /\ Queue(ring') = Queue(ring) \o <<x>>
    BY <1>1, PushBackQueue DEF pg_ring_push_back, At
  <1>3. D!PushBack(<<x>>)
    <2>1. Contents = Queue(ring) /\ Contents' = Queue(ring')
      BY DEF Contents, Queue
    <2>2. Len(Queue(ring)) = ring.len /\ Len(<<x>>) = 1
      BY <1>1, QueueIsSeq
    <2>3. Len(Queue(ring)) + Len(<<x>>) <= RingCap
      BY <1>1, <2>2
    <2> HIDE DEF Contents
    <2> QED
      BY <1>2, <2>1, <2>3 DEF D!PushBack, pg_ring_push_back
  <1>4. 1 \in 0 .. RingCap /\ <<x>> \in [1 .. 1 -> RingValues]
    OBVIOUS
  <1> QED
    BY <1>2, <1>3, <1>4 DEF Implements, RingInv, D!DequeNext

LEMMA PushFrontHolds ==
    ASSUME RingInv, NEW x \in RingValues, pg_ring_push_front(x)
    PROVE  Implements
  <1>1. ring \in Rings(Bytes) /\ ring.len \in Nat /\ ring.len < RingCap /\ x \in Bytes
    BY RingFields DEF RingInv, pg_ring_push_front, Bytes
  <1>2. ring' \in Rings(Bytes) /\ Queue(ring') = <<x>> \o Queue(ring)
    BY <1>1, PushFrontQueue DEF pg_ring_push_front
  <1>3. D!PushFront(x)
    <2>1. Contents = Queue(ring) /\ Contents' = Queue(ring')
      BY DEF Contents, Queue
    <2>2. Len(Queue(ring)) = ring.len
      BY <1>1, QueueIsSeq
    <2> HIDE DEF Contents
    <2> QED
      BY <1>1, <1>2, <2>1, <2>2 DEF D!PushFront, pg_ring_push_front
  <1> QED
    BY <1>2, <1>3 DEF Implements, RingInv, D!DequeNext

\* Consuming at the front, which pop_front also does.
LEMMA DropsFront ==
    ASSUME RingInv, NEW n \in 0 .. RingCap, n <= ring.len, ring' = pg_ring_consume_front(ring, n)
    PROVE  RingInv' /\ D!DropFront(n)
  <1>1. ring \in Rings(Bytes) /\ n \in 0 .. ring.len
    BY RingFields DEF RingInv
  <1>2. ring' \in Rings(Bytes) /\ Queue(ring') = SubSeq(Queue(ring), n + 1, Len(Queue(ring)))
    BY <1>1, DropFrontQueue
  <1>3. Contents = Queue(ring) /\ Contents' = Queue(ring')
    BY DEF Contents, Queue
  <1>4. Len(Queue(ring)) = ring.len
    BY <1>1, QueueIsSeq
  <1> HIDE DEF Contents
  <1> QED
    BY <1>2, <1>3, <1>4 DEF RingInv, D!DropFront

LEMMA DropsBack ==
    ASSUME RingInv, NEW n \in 0 .. RingCap, n <= ring.len, ring' = [ring EXCEPT !.len = @ - n]
    PROVE  RingInv' /\ D!DropBack(n)
  <1>1. ring \in Rings(Bytes) /\ n \in 0 .. ring.len
    BY RingFields DEF RingInv
  <1>2. ring' \in Rings(Bytes) /\ Queue(ring') = SubSeq(Queue(ring), 1, Len(Queue(ring)) - n)
    BY <1>1, DropBackQueue
  <1>3. Contents = Queue(ring) /\ Contents' = Queue(ring')
    BY DEF Contents, Queue
  <1>4. Len(Queue(ring)) = ring.len
    BY <1>1, QueueIsSeq
  <1> HIDE DEF Contents
  <1> QED
    BY <1>2, <1>3, <1>4 DEF RingInv, D!DropBack

\* What pop returns is the byte at that end.
LEMMA PopHolds == RingInv /\ (pg_ring_pop_front \/ pg_ring_pop_back) => Implements
  <1> SUFFICES ASSUME RingInv, pg_ring_pop_front \/ pg_ring_pop_back
               PROVE  Implements
    OBVIOUS
  <1>1. /\ ring \in Rings(Bytes) /\ ring.len \in Nat /\ ring.len > 0 /\ ring.len <= RingCap
        /\ ring.offset \in Nat /\ ring.offset < RingCap
    BY RingFields DEF RingInv, pg_ring_pop_front, pg_ring_pop_back
  <1>2. 1 \in 0 .. RingCap /\ 1 <= ring.len
    BY <1>1
  <1>3. /\ Len(Contents) = ring.len
        /\ \A i \in 1 .. ring.len : Contents[i] = pg_ring_get(ring, i - 1)
    BY <1>1, QueueIsSeq DEF Contents, Queue
  <1>4. CASE pg_ring_pop_front
    <2>1. RingInv' /\ D!DropFront(1)
      BY <1>2, <1>4, DropsFront DEF pg_ring_pop_front
    <2>2. (ring.offset + 0) % RingCap = ring.offset
      BY <1>1, SlotOf
    <2>3. 1 \in 1 .. ring.len /\ 1 - 1 = 0
      BY <1>1
    <2>4. Contents[1] = ring.data[ring.offset]
      BY <1>3, <2>2, <2>3 DEF pg_ring_get
    <2> HIDE DEF Contents
    <2> QED
      BY <1>4, <2>1, <2>4 DEF Implements, D!DequeNext, D!PopFront, pg_ring_pop_front
  <1>5. CASE pg_ring_pop_back
    <2>1. RingInv' /\ D!DropBack(1)
      BY <1>2, <1>5, DropsBack DEF pg_ring_pop_back
    <2>2. Contents[Len(Contents)] = ring.data[At(ring.len - 1)]
      <3>1. ring.len \in 1 .. ring.len
        BY <1>1
      <3> QED
        BY <1>3, <3>1 DEF pg_ring_get, At
    <2> HIDE DEF Contents
    <2> QED
      BY <1>5, <2>1, <2>2 DEF Implements, D!DequeNext, D!PopBack, pg_ring_pop_back
  <1> QED
    BY <1>4, <1>5

LEMMA ConsumeHolds ==
    ASSUME RingInv, NEW n \in 0 .. RingCap, ConsumeFront(n) \/ pg_ring_consume_back(n)
    PROVE  Implements
  <1>1. CASE ConsumeFront(n)
    <2>1. RingInv' /\ D!DropFront(n) /\ UNCHANGED out
      BY <1>1, DropsFront DEF ConsumeFront
    <2> QED
      BY <2>1 DEF Implements, D!DequeNext
  <1>2. CASE pg_ring_consume_back(n)
    <2>1. RingInv' /\ D!DropBack(n) /\ UNCHANGED out
      BY <1>2, DropsBack DEF pg_ring_consume_back
    <2> QED
      BY <2>1 DEF Implements, D!DequeNext
  <1> QED
    BY <1>1, <1>2

LEMMA ClearHolds == RingInv /\ pg_ring_clear => Implements
  <1> SUFFICES ASSUME RingInv, pg_ring_clear
               PROVE  Implements
    OBVIOUS
  <1>1. ring' \in Rings(Bytes) /\ Queue(ring') = <<>>
    BY ClearQueue DEF RingInv, pg_ring_clear
  <1>2. Contents' = Queue(ring')
    BY DEF Contents, Queue
  <1>3. D!Clear
    BY <1>1, <1>2 DEF D!Clear, pg_ring_clear
  <1> QED
    BY <1>1, <1>3 DEF Implements, RingInv, D!DequeNext

LEMMA StepImplements == RingInv /\ [RingNext]_ringVars => RingInv' /\ [D!DequeNext]_<<Contents, out>>
  <1> SUFFICES ASSUME RingInv, [RingNext]_ringVars
               PROVE  RingInv' /\ [D!DequeNext]_<<Contents, out>>
    OBVIOUS
  <1>1. CASE RingNext
    <2>1. Implements
      BY <1>1, PushBackvHolds, PushBackHolds, PushFrontHolds, PopHolds, ConsumeHolds, ClearHolds, Zenon
      DEF RingNext
    <2> QED
      BY <2>1 DEF Implements
  <1>2. CASE UNCHANGED ringVars
    BY <1>2 DEF RingInv, ringVars, Contents
  <1> QED
    BY <1>1, <1>2

\* The operations of pg_ring_t are those of a queue of at most RingCap bytes
\* with two ends, wherever the memory wraps around.
THEOREM RingImplementsDeque == RingSpec => RingIsADeque
  BY InitIsEmpty, StepImplements, PTL DEF RingSpec, RingIsADeque
-----------------------------------------------------------------------------
(***************************************************************************)
(* AllocTrace: allocations and frees are paired right, for every hash      *)
(* function, every table and every trace. As long as the table has not     *)
(* grown each entry is where the search for its key ends (EntriesAreFound) *)
(* and is the last allocation of that pointer, and what was allocated has  *)
(* an entry (AllocationsAreEntries). A grown table only keeps entries that *)
(* are allocations of their key. That a search ends is a matter of         *)
(* counting: RoomLeft.                                                     *)
(***************************************************************************)

Slot == [hash : Nat, key : Ptrs \cup {0}, value : Nat]
Trace == Seq([kind : {"alloc", "realloc", "free"}, ptr : Ptrs, related : Nat])
Used == {s \in 0 .. cap - 1 : slots[s].hash # 0}

\* The allocations of a pointer before an event of a trace, and in all of it.
AllocatedBefore(trace, e, ptr) == {a \in 1 .. e - 1 : trace[a].kind # "free" /\ trace[a].ptr = ptr}
Allocations(trace, ptr) == AllocatedBefore(trace, Len(trace) + 1, ptr)

TraceTypes ==
    /\ initial_cap \in InitialCaps /\ cap \in Nat /\ cap >= initial_cap /\ entries \in Nat
    /\ slots \in [0 .. cap - 1 -> Slot] /\ events \in Trace

EntriesAreAllocations ==
    \A s \in Used : /\ slots[s].key \in Ptrs /\ slots[s].hash = HashOf(slots[s].key)
                    /\ slots[s].value \in Allocations(events, slots[s].key)

EntriesAreFound ==
    cap = initial_cap /\ ~stuck =>
        \A s \in Used : /\ Traces!Ends(slots, cap, slots[s].key)
                        /\ Traces!pg_hashtable_find(slots, cap, slots[s].key) = s
                        /\ slots[s].value = Traces!Max(Allocations(events, slots[s].key))

AllocationsAreEntries ==
    cap = initial_cap /\ ~stuck =>
        \A ptr \in Ptrs : HashOf(ptr) # 0 /\ Allocations(events, ptr) # {} => \E s \in Used : slots[s].key = ptr

RoomLeft ==
    initial_cap >= 4 => /\ ~stuck /\ cap >= 4 /\ 4 * entries < 3 * cap + 4
                        /\ Cardinality(Used) <= entries

\* An allocation has no free yet, or one that comes later in the trace.
AllocationsKnowFrees ==
    \A a \in DOMAIN events : events[a].kind # "free" => events[a].related \in {0} \cup Traces!Frees

TraceInv ==
    /\ TraceTypes /\ EntriesAreAllocations /\ EntriesAreFound /\ AllocationsAreEntries /\ RoomLeft
    /\ AllocationsKnowFrees /\ Traces!LinksAreRight /\ Traces!LinksGoBothWays

-----------------------------------------------------------------------------
(* Searching in a table. *)

LEMMA MinOfNats ==
    ASSUME NEW S \in SUBSET Nat, S # {}
    PROVE  Traces!Min(S) \in S /\ \A n \in S : Traces!Min(S) <= n
  <1> DEFINE R == {p \in Nat \X Nat : p[1] < p[2]}
  <1>1. IsWellFoundedOn(R, Nat)
    BY NatLessThanWellFounded DEF OpToRel
  <1> HIDE DEF R
  <1>2. PICK m \in S : \A n \in S : ~(<<n, m>> \in R)
    BY <1>1, WFMin
  <1>3. \A n \in S : ~(n < m)
    BY <1>2 DEF R
  <1>4. \A n \in S : m <= n
    BY <1>3
  <1> QED
    BY <1>4 DEF Traces!Min

LEMMA LeastIsMin ==
    ASSUME NEW S \in SUBSET Nat, NEW m \in S, \A n \in S : m <= n
    PROVE  Traces!Min(S) = m
  <1>1. Traces!Min(S) \in S /\ \A n \in S : Traces!Min(S) <= n
    BY MinOfNats
  <1>2. Traces!Min(S) <= m /\ m <= Traces!Min(S) /\ Traces!Min(S) \in Nat /\ m \in Nat
    BY <1>1
  <1> QED
    BY <1>2

LEMMA LargestIsMax ==
    ASSUME NEW S \in SUBSET Nat, NEW m \in S, \A n \in S : n <= m
    PROVE  Traces!Max(S) = m
  <1>1. Traces!Max(S) \in S /\ \A n \in S : Traces!Max(S) >= n
    BY DEF Traces!Max
  <1>2. Traces!Max(S) >= m /\ Traces!Max(S) <= m /\ Traces!Max(S) \in Nat /\ m \in Nat
    BY <1>1
  <1> QED
    BY <1>2

\* Where a search for a pointer may end.
Halts(slot, ptr) == slot.hash = 0 \/ Traces!SameKey(slot, ptr)

LEMMA StopsHalt ==
    ASSUME NEW tab, NEW c, NEW ptr
    PROVE  Traces!Stops(tab, c, ptr) = {d \in 0 .. c - 1 : Halts(tab[(HashOf(ptr) + d) % c], ptr)}
  BY DEF Traces!Stops, Halts

\* Every slot of a table is on the way of every search.
Reached(h, c, s) == \E d \in 0 .. c - 1 : (h + d) % c = s

LEMMA SlotIsReached ==
    ASSUME NEW c \in Nat \ {0}, NEW h \in Nat, NEW s \in 0 .. c - 1
    PROVE  Reached(h, c, s)
  <1> DEFINE q == h \div c
             r == h % c
  <1>1. q \in Int /\ r \in Nat /\ r < c /\ h = c * q + r
    BY DivMod
  <1>2. s \in Nat /\ s < c
    OBVIOUS
  <1> HIDE DEF q, r
  <1>3. CASE s >= r
    <2>1. s - r \in 0 .. c - 1 /\ h + (s - r) = c * q + s
      BY <1>1, <1>2, <1>3
    <2>2. (c * q + s) % c = s
      BY <1>1, <1>2, DivModUnique
    <2> QED
      BY <2>1, <2>2 DEF Reached
  <1>4. CASE s < r
    <2>1. s - r + c \in 0 .. c - 1 /\ h + (s - r + c) = c * (q + 1) + s /\ q + 1 \in Int
      BY <1>1, <1>2, <1>4
    <2>2. (c * (q + 1) + s) % c = s
      BY <1>1, <1>2, <2>1, DivModUnique
    <2> QED
      BY <2>1, <2>2 DEF Reached
  <1> QED
    BY <1>1, <1>2, <1>3, <1>4

\* A search that ends does so at a slot of the table.
LEMMA FindHalts ==
    ASSUME NEW tab, NEW c \in Nat, NEW ptr \in Ptrs, Traces!Ends(tab, c, ptr)
    PROVE  /\ Traces!pg_hashtable_find(tab, c, ptr) \in 0 .. c - 1
           /\ Halts(tab[Traces!pg_hashtable_find(tab, c, ptr)], ptr)
  <1> DEFINE S == Traces!Stops(tab, c, ptr)
             d == Traces!Min(S)
             f == (HashOf(ptr) + d) % c
  <1>1. c > 0 /\ S # {} /\ HashOf(ptr) \in Nat
    BY AllocAssumption DEF Traces!Ends
  <1>2. S \in SUBSET Nat
    BY StopsHalt
  <1>3. d \in S
    BY <1>1, <1>2, MinOfNats
  <1>4. d \in 0 .. c - 1 /\ Halts(tab[f], ptr)
    BY <1>3, StopsHalt
  <1>5. HashOf(ptr) + d \in Int
    BY <1>1, <1>4
  <1>6. f \in 0 .. c - 1
    <2> DEFINE x == HashOf(ptr) + d
    <2> HIDE DEF x
    <2>1. x % c \in 0 .. c - 1
      BY <1>1, <1>5, DivMod DEF x
    <2> QED
      BY <2>1 DEF x
  <1> QED
    BY <1>4, <1>6 DEF Traces!pg_hashtable_find

\* A table with an empty slot ends every search.
LEMMA EmptySlotEnds ==
    ASSUME NEW tab, NEW c \in Nat \ {0}, NEW ptr \in Ptrs, NEW s \in 0 .. c - 1, tab[s].hash = 0
    PROVE  Traces!Ends(tab, c, ptr)
  <1>0. HashOf(ptr) \in Nat
    BY AllocAssumption
  <1>1. PICK d \in 0 .. c - 1 : (HashOf(ptr) + d) % c = s
    <2>1. Reached(HashOf(ptr), c, s)
      BY <1>0, SlotIsReached
    <2> QED
      BY <2>1 DEF Reached
  <1>2. d \in Traces!Stops(tab, c, ptr)
    BY <1>1, StopsHalt DEF Halts
  <1> QED
    BY <1>2 DEF Traces!Ends

\* A search ends where it did when one slot changes that it would not have
\* stopped at, unless it did before, and it still stops at its end.
LEMMA SearchStays ==
    ASSUME NEW tab, NEW c \in Nat, NEW ptr \in Ptrs, Traces!Ends(tab, c, ptr), NEW new,
           \A s \in 0 .. c - 1 : Halts(new[s], ptr) => Halts(tab[s], ptr),
           Halts(new[Traces!pg_hashtable_find(tab, c, ptr)], ptr)
    PROVE  /\ Traces!Ends(new, c, ptr)
           /\ Traces!pg_hashtable_find(new, c, ptr) = Traces!pg_hashtable_find(tab, c, ptr)
  <1> DEFINE S == Traces!Stops(tab, c, ptr)
             T == Traces!Stops(new, c, ptr)
             d == Traces!Min(S)
  <1>1. c > 0 /\ S # {} /\ HashOf(ptr) \in Nat
    BY AllocAssumption DEF Traces!Ends
  <1>2. S \in SUBSET Nat /\ T \in SUBSET Nat
    BY StopsHalt
  <1>3. d \in S /\ \A n \in S : d <= n
    BY <1>1, <1>2, MinOfNats
  <1>4. d \in 0 .. c - 1
    BY <1>3, StopsHalt
  <1>5. d \in T
    BY <1>4, StopsHalt DEF Traces!pg_hashtable_find
  <1>6. ASSUME NEW n \in T PROVE n \in S
    <2> DEFINE x == HashOf(ptr) + n
               s == x % c
    <2>1. n \in 0 .. c - 1 /\ Halts(new[s], ptr)
      BY StopsHalt
    <2>2. x \in Int
      BY <1>1, <2>1
    <2>3. s \in 0 .. c - 1
      <3> HIDE DEF x
      <3> QED
        BY <1>1, <2>2, DivMod
    <2> QED
      BY <2>1, <2>3, StopsHalt
  <1>7. Traces!Min(T) = d
    BY <1>2, <1>3, <1>5, <1>6, LeastIsMin
  <1> QED
    BY <1>1, <1>5, <1>7 DEF Traces!Ends, Traces!pg_hashtable_find

-----------------------------------------------------------------------------
(* Events. *)

\* A trace that goes on with one event, while some that are there may be linked.
GoesOn(old, new, event) ==
    /\ new \in Trace /\ Len(new) = Len(old) + 1 /\ new[Len(old) + 1] = event
    /\ \A e \in 1 .. Len(old) : new[e].kind = old[e].kind /\ new[e].ptr = old[e].ptr

LEMMA PastStays ==
    ASSUME NEW old \in Trace, NEW new, NEW event, GoesOn(old, new, event),
           NEW e \in 1 .. Len(old) + 1, NEW ptr
    PROVE  AllocatedBefore(new, e, ptr) = AllocatedBefore(old, e, ptr)
  <1>1. Len(old) \in Nat
    OBVIOUS
  <1>2. ASSUME NEW a \in 1 .. e - 1 PROVE a \in 1 .. Len(old)
    BY <1>1
  <1> QED
    BY <1>2 DEF GoesOn, AllocatedBefore

LEMMA NewAllocations ==
    ASSUME NEW old \in Trace, NEW new, NEW event, GoesOn(old, new, event), NEW ptr
    PROVE  AllocatedBefore(new, Len(new) + 1, ptr) =
             AllocatedBefore(old, Len(old) + 1, ptr)
               \cup {n \in {Len(old) + 1} : event.kind # "free" /\ event.ptr = ptr}
  <1> DEFINE n == Len(old) + 1
  <1>1. n \in Nat /\ Len(new) = n /\ new[n] = event /\ 1 .. n = 1 .. n - 1 \cup {n} /\ n + 1 - 1 = n
    BY DEF GoesOn
  <1>2. AllocatedBefore(new, n, ptr) = AllocatedBefore(old, n, ptr)
    BY PastStays
  <1> HIDE DEF n
  <1>3. AllocatedBefore(new, n + 1, ptr) =
          AllocatedBefore(new, n, ptr) \cup {a \in {n} : new[a].kind # "free" /\ new[a].ptr = ptr}
    BY <1>1 DEF AllocatedBefore
  <1> QED
    BY <1>1, <1>2, <1>3 DEF n

\* Allocations are numbers of events.
LEMMA AllocationsAreEvents ==
    ASSUME TraceTypes, NEW ptr
    PROVE  Allocations(events, ptr) \in SUBSET (1 .. Len(events)) /\ Len(events) \in Nat
  <1>1. Len(events) \in Nat
    BY DEF TraceTypes, Trace
  <1>2. Len(events) + 1 - 1 = Len(events)
    BY <1>1
  <1> QED
    BY <1>1, <1>2 DEF Allocations, AllocatedBefore

\* What an event adds to them.
LEMMA AllocationsGrow ==
    ASSUME TraceTypes, NEW event, GoesOn(events, events', event), NEW ptr
    PROVE  Allocations(events', ptr) =
             Allocations(events, ptr) \cup {n \in {Len(events) + 1} : event.kind # "free" /\ event.ptr = ptr}
  <1>1. events \in Trace
    BY DEF TraceTypes
  <1> QED
    BY <1>1, NewAllocations DEF Allocations

LEMMA EventIsAppended ==
    ASSUME NEW old \in Trace, NEW event \in [kind : {"alloc", "realloc", "free"}, ptr : Ptrs, related : Nat],
           NEW base \in Trace, Len(base) = Len(old),
           \A e \in 1 .. Len(old) : base[e].kind = old[e].kind /\ base[e].ptr = old[e].ptr
    PROVE  /\ GoesOn(old, Append(base, event), event)
           /\ \A e \in 1 .. Len(old) : Append(base, event)[e] = base[e]
  BY DEF GoesOn, Trace

-----------------------------------------------------------------------------
(* The table. *)

LEMMA FewLeaveOne ==
    ASSUME NEW c \in Nat, NEW S \in SUBSET (0 .. c - 1), Cardinality(S) < c
    PROVE  \E s \in 0 .. c - 1 : s \notin S
  <1>1. SUFFICES ASSUME S = 0 .. c - 1 PROVE FALSE
    OBVIOUS
  <1>2. Cardinality(0 .. c - 1) = c
    <2>1. 0 \in Int /\ c - 1 \in Int
      OBVIOUS
    <2>2. Cardinality(0 .. c - 1) = IF 0 > c - 1 THEN 0 ELSE c - 1 - 0 + 1
      BY <2>1, FS_Interval
    <2> QED
      BY <2>2
  <1>3. Cardinality(S) = c
    BY <1>1, <1>2
  <1> QED
    BY <1>3

\* The table in which upsert searches.
Larger(c) == [s \in 0 .. c - 1 |-> IF s < cap THEN slots[s] ELSE Traces!Empty]
UpsertCap == IF Traces!IsLoaded THEN Traces!NewCap ELSE cap

LEMMA TableGrows ==
    ASSUME TraceTypes
    PROVE  /\ UpsertCap \in Nat /\ UpsertCap >= cap
           /\ UpsertCap = cap \/ (UpsertCap >= cap + 8 /\ 4 * entries >= 3 * cap)
           /\ UpsertCap = cap => 4 * entries < 3 * cap
           /\ Larger(UpsertCap) \in [0 .. UpsertCap - 1 -> Slot]
           /\ \A s \in 0 .. UpsertCap - 1 : Larger(UpsertCap)[s].hash # 0 <=> s \in Used
           /\ \A s \in Used : s \in 0 .. UpsertCap - 1 /\ Larger(UpsertCap)[s] = slots[s]
           /\ UpsertCap = cap => Larger(UpsertCap) = slots
  <1> DEFINE c == UpsertCap
  <1>1. cap \in Nat /\ entries \in Nat /\ slots \in [0 .. cap - 1 -> Slot]
    BY DEF TraceTypes
  <1>2. Traces!NewCap \in Nat /\ Traces!NewCap >= cap + 8
    BY <1>1 DEF Traces!NewCap
  <1>3. Traces!IsLoaded <=> 4 * entries >= 3 * cap
    BY DEF Traces!IsLoaded
  <1>5. /\ c \in Nat /\ c >= cap
        /\ c = cap \/ (c >= cap + 8 /\ 4 * entries >= 3 * cap)
        /\ c = cap => 4 * entries < 3 * cap
    <2>1. CASE Traces!IsLoaded
      <3>1. c = Traces!NewCap
        BY <2>1 DEF UpsertCap
      <3> QED
        BY <1>1, <1>2, <1>3, <2>1, <3>1
    <2>2. CASE ~Traces!IsLoaded
      <3>1. c = cap
        BY <2>2 DEF UpsertCap
      <3>2. 4 * entries < 3 * cap
        BY <1>1, <1>3, <2>2
      <3> QED
        BY <1>1, <3>1, <3>2
    <2> QED
      BY <2>1, <2>2
  <1> HIDE DEF c
  <1>6. Traces!Empty \in Slot /\ Traces!Empty.hash = 0
    BY DEF Traces!Empty, Slot
  <1>7. ASSUME NEW s \in 0 .. c - 1
        PROVE  /\ s < cap => s \in 0 .. cap - 1 /\ Larger(c)[s] = slots[s]
               /\ ~(s < cap) => s \notin 0 .. cap - 1 /\ Larger(c)[s] = Traces!Empty
    BY <1>1, <1>5 DEF Larger
  <1>8. Larger(c) \in [0 .. c - 1 -> Slot]
    BY <1>1, <1>5, <1>6 DEF Larger
  <1>9. \A s \in 0 .. c - 1 : Larger(c)[s].hash # 0 <=> s \in Used
    BY <1>6, <1>7 DEF Used
  <1>10. \A s \in Used : s \in 0 .. c - 1 /\ Larger(c)[s] = slots[s]
    BY <1>1, <1>5, <1>7 DEF Used
  <1>11. c = cap => Larger(c) = slots
    BY <1>1, <1>7, <1>8
  <1> QED
    BY <1>5, <1>8, <1>9, <1>10, <1>11 DEF c

\* What upsert does when the search ends.
LEMMA UpsertWrites ==
    ASSUME TraceTypes, NEW ptr \in Ptrs, NEW value, Traces!Upsert(ptr, value),
           Traces!Ends(Larger(UpsertCap), UpsertCap, ptr), cap # 0
    PROVE  LET tab == Larger(UpsertCap)
               f   == Traces!pg_hashtable_find(tab, UpsertCap, ptr)
           IN  /\ cap' = UpsertCap /\ stuck' = stuck
               /\ slots' = [tab EXCEPT ![f] = [hash |-> HashOf(ptr), key |-> ptr, value |-> value]]
               /\ entries' = IF tab[f].hash # 0 THEN entries ELSE entries + 1
  BY DEF Traces!Upsert, Larger, UpsertCap, Traces!Found

LEMMA UpsertStuck ==
    ASSUME NEW ptr \in Ptrs, NEW value, Traces!Upsert(ptr, value),
           ~Traces!Ends(Larger(UpsertCap), UpsertCap, ptr) \/ cap = 0
    PROVE  stuck' = TRUE /\ UNCHANGED <<cap, slots, entries>>
  BY DEF Traces!Upsert, Larger, UpsertCap

\* With room left every search ends, before and after the table grows.
LEMMA RoomEnds ==
    ASSUME TraceTypes, RoomLeft, initial_cap >= 4, NEW ptr \in Ptrs
    PROVE  /\ cap # 0 /\ Traces!Ends(slots, cap, ptr)
           /\ Traces!Ends(Larger(UpsertCap), UpsertCap, ptr)
  <1>1. /\ cap \in Nat /\ cap >= 4 /\ entries \in Nat /\ 4 * entries < 3 * cap + 4
        /\ Cardinality(Used) <= entries /\ entries < cap
    BY DEF TraceTypes, RoomLeft
  <1>2. Used \in SUBSET (0 .. cap - 1) /\ IsFiniteSet(Used) /\ Cardinality(Used) \in Nat
    <2>1. IsFiniteSet(0 .. cap - 1) /\ Used \in SUBSET (0 .. cap - 1)
      BY <1>1, FS_Interval DEF Used
    <2> QED
      BY <2>1, FS_Subset, FS_CardinalityType
  <1>3. Cardinality(Used) < cap
    BY <1>1, <1>2
  <1>4. PICK s \in 0 .. cap - 1 : s \notin Used
    BY <1>1, <1>2, <1>3, FewLeaveOne
  <1>5. slots[s].hash = 0
    BY <1>4 DEF Used
  <1>6. Traces!Ends(slots, cap, ptr)
    BY <1>1, <1>5, EmptySlotEnds
  <1>7. UpsertCap \in Nat \ {0} /\ s \in 0 .. UpsertCap - 1
    BY <1>1, TableGrows
  <1>8. Larger(UpsertCap)[s].hash = 0
    BY <1>4, <1>7, TableGrows
  <1>9. Traces!Ends(Larger(UpsertCap), UpsertCap, ptr)
    BY <1>7, <1>8, EmptySlotEnds
  <1> QED
    BY <1>1, <1>6, <1>9

\* A step that allocates a pointer: an event, and an upsert of its number.
Allocating(ptr, event) ==
    /\ TraceInv /\ ~stuck /\ ptr \in Ptrs /\ event.kind # "free" /\ event.ptr = ptr
    /\ GoesOn(events, events', event) /\ Traces!Upsert(ptr, Len(events) + 1)
    /\ initial_cap' = initial_cap

LEMMA AllocationsWithNew ==
    ASSUME NEW ptr, NEW event, Allocating(ptr, event), NEW other
    PROVE  /\ Allocations(events', other) = Allocations(events, other) \cup {n \in {Len(events) + 1} : ptr = other}
           /\ Allocations(events, other) \in SUBSET (1 .. Len(events)) /\ Len(events) \in Nat
           /\ ptr # other => Allocations(events', other) = Allocations(events, other)
  <1>1. TraceTypes /\ GoesOn(events, events', event) /\ event.kind # "free" /\ event.ptr = ptr
    BY DEF Allocating, TraceInv
  <1>2. Allocations(events', other) = Allocations(events, other) \cup {n \in {Len(events) + 1} : ptr = other}
    BY <1>1, AllocationsGrow
  <1>3. ptr # other => {n \in {Len(events) + 1} : ptr = other} = {}
    OBVIOUS
  <1> QED
    BY <1>1, <1>2, <1>3, AllocationsAreEvents

\* The search ended, and the entry was written where it did.
Written(ptr, tab, c, f) ==
    /\ cap # 0 /\ tab = Larger(UpsertCap) /\ c = UpsertCap
    /\ Traces!Ends(tab, c, ptr) /\ f = Traces!pg_hashtable_find(tab, c, ptr)
    /\ cap' = c /\ ~stuck'
    /\ slots' = [tab EXCEPT ![f] = [hash |-> HashOf(ptr), key |-> ptr, value |-> Len(events) + 1]]
    /\ entries' = IF tab[f].hash # 0 THEN entries ELSE entries + 1

Stuck == stuck' /\ initial_cap < 4 /\ UNCHANGED <<cap, slots, entries>>

LEMMA UpsertEnds ==
    ASSUME NEW ptr, NEW event, Allocating(ptr, event)
    PROVE  Stuck \/ \E tab, c, f : Written(ptr, tab, c, f)
  <1> DEFINE tab == Larger(UpsertCap)
             c   == UpsertCap
             f   == Traces!pg_hashtable_find(tab, c, ptr)
  <1>1. /\ TraceTypes /\ RoomLeft /\ ptr \in Ptrs /\ ~stuck
        /\ Traces!Upsert(ptr, Len(events) + 1)
    BY DEF Allocating, TraceInv
  <1>2. CASE Traces!Ends(tab, c, ptr) /\ cap # 0
    <2>1. Written(ptr, tab, c, f)
      BY <1>1, <1>2, UpsertWrites DEF Written
    <2> QED
      BY <2>1
  <1>3. CASE ~Traces!Ends(tab, c, ptr) \/ cap = 0
    <2>1. stuck' = TRUE /\ UNCHANGED <<cap, slots, entries>>
      BY <1>1, <1>3, UpsertStuck
    <2>2. ~(initial_cap >= 4)
      BY <1>1, <1>3, RoomEnds
    <2>3. initial_cap \in Nat
      BY <1>1, AllocAssumption DEF TraceTypes
    <2>4. initial_cap < 4
      BY <2>2, <2>3
    <2> QED
      BY <2>1, <2>4 DEF Stuck
  <1> QED
    BY <1>2, <1>3

\* The slots after an upsert.
SlotsWritten(ptr, tab, c, f) ==
    /\ c \in Nat /\ c >= cap /\ cap' = c /\ tab \in [0 .. c - 1 -> Slot] /\ f \in 0 .. c - 1
    /\ Halts(tab[f], ptr)
    /\ slots' \in [0 .. c - 1 -> Slot]
    /\ slots'[f] = [hash |-> HashOf(ptr), key |-> ptr, value |-> Len(events) + 1]
    /\ \A s \in 0 .. c - 1 : s # f => slots'[s] = tab[s]
    /\ HashOf(ptr) # 0 => Used' = Used \cup {f}
    /\ HashOf(ptr) = 0 => Used' = Used /\ f \notin Used
    /\ \A s \in Used : s # f => slots'[s] = slots[s]
    /\ tab[f].hash # 0 <=> f \in Used
    /\ c = cap => tab = slots

LEMMA SlotsAfter ==
    ASSUME NEW ptr, NEW event, Allocating(ptr, event), NEW tab, NEW c, NEW f, Written(ptr, tab, c, f)
    PROVE  SlotsWritten(ptr, tab, c, f)
  <1> DEFINE new == [hash |-> HashOf(ptr), key |-> ptr, value |-> Len(events) + 1]
  <1>1. TraceTypes /\ ptr \in Ptrs
    BY DEF Allocating, TraceInv
  <1>2. /\ tab = Larger(UpsertCap) /\ c = UpsertCap /\ Traces!Ends(tab, c, ptr)
        /\ f = Traces!pg_hashtable_find(tab, c, ptr) /\ cap' = c
        /\ slots' = [tab EXCEPT ![f] = new]
    BY DEF Written
  <1>3. /\ c \in Nat /\ c >= cap /\ tab \in [0 .. c - 1 -> Slot]
        /\ \A s \in 0 .. c - 1 : tab[s].hash # 0 <=> s \in Used
        /\ \A s \in Used : s \in 0 .. c - 1 /\ tab[s] = slots[s]
        /\ c = cap => tab = slots
    BY <1>1, <1>2, TableGrows
  <1>4. f \in 0 .. c - 1 /\ Halts(tab[f], ptr)
    BY <1>1, <1>2, <1>3, FindHalts
  <1>5. new \in Slot
    <2>1. Len(events) + 1 \in Nat /\ HashOf(ptr) \in Nat
      BY <1>1, AllocationsAreEvents, AllocAssumption
    <2> QED
      BY <1>1, <2>1 DEF Slot
  <1> HIDE DEF new
  <1>6. slots' \in [0 .. c - 1 -> Slot] /\ slots'[f] = new /\ \A s \in 0 .. c - 1 : s # f => slots'[s] = tab[s]
    BY <1>2, <1>3, <1>4, <1>5
  <1>7. Used' = {s \in 0 .. c - 1 : slots'[s].hash # 0}
    BY <1>2 DEF Used
  <1>8. new.hash = HashOf(ptr)
    BY DEF new
  <1>9. HashOf(ptr) # 0 => Used' = Used \cup {f}
    BY <1>3, <1>4, <1>6, <1>7, <1>8
  <1>10. ASSUME HashOf(ptr) = 0 PROVE Used' = Used /\ f \notin Used
    <2>1. tab[f].hash = 0
      BY <1>4, <1>10 DEF Halts, Traces!SameKey
    <2>2. f \notin Used
      BY <1>3, <1>4, <2>1
    <2> QED
      BY <1>3, <1>4, <1>6, <1>7, <1>8, <1>10, <2>2
  <1>11. \A s \in Used : s # f => slots'[s] = slots[s]
    BY <1>3, <1>6
  <1> QED
    BY <1>2, <1>3, <1>4, <1>6, <1>9, <1>10, <1>11 DEF new, SlotsWritten

LEMMA TableAfterUpsert ==
    ASSUME NEW ptr, NEW event, Allocating(ptr, event), NEW tab, NEW c, NEW f, Written(ptr, tab, c, f)
    PROVE  TraceTypes' /\ EntriesAreAllocations'
  <1>0. SlotsWritten(ptr, tab, c, f)
    BY SlotsAfter
  <1>1. TraceTypes /\ EntriesAreAllocations /\ ptr \in Ptrs /\ initial_cap' = initial_cap
    BY DEF Allocating, TraceInv
  <1>2. events' \in Trace
    BY DEF Allocating, GoesOn
  <1>3. entries' \in Nat
    <2>1. entries \in Nat /\ entries + 1 \in Nat
      BY <1>1 DEF TraceTypes
    <2> QED
      BY <2>1 DEF Written
  <1>4. cap' \in Nat /\ cap' >= initial_cap'
    <2>1. c \in Nat /\ c >= cap /\ cap \in Nat /\ cap >= initial_cap /\ cap' = c /\ initial_cap \in Nat
      BY <1>1, <1>0, AllocAssumption DEF SlotsWritten, TraceTypes
    <2> QED
      BY <1>1, <2>1
  <1>5. TraceTypes'
    BY <1>1, <1>2, <1>3, <1>4, <1>0 DEF SlotsWritten, TraceTypes
  <1>6. ASSUME NEW s \in Used'
        PROVE  /\ slots'[s].key \in Ptrs /\ slots'[s].hash = HashOf(slots'[s].key)
               /\ slots'[s].value \in Allocations(events', slots'[s].key)
    <2>1. CASE s = f
      <3>1. slots'[s].hash = HashOf(ptr) /\ slots'[s].key = ptr /\ slots'[s].value = Len(events) + 1
        BY <2>1, <1>0 DEF SlotsWritten
      <3>2. Len(events) + 1 \in Allocations(events', ptr)
        BY AllocationsWithNew
      <3> QED
        BY <1>1, <3>1, <3>2
    <2>2. CASE s # f
      <3>1. s \in Used /\ slots'[s] = slots[s]
        BY <2>2, <1>0 DEF SlotsWritten
      <3>2. Allocations(events, slots[s].key) \subseteq Allocations(events', slots[s].key)
        BY AllocationsWithNew
      <3> QED
        BY <1>1, <3>1, <3>2 DEF EntriesAreAllocations
    <2> QED
      BY <2>1, <2>2
  <1> QED
    BY <1>5, <1>6 DEF EntriesAreAllocations

\* As long as the table does not grow, all searches end where they did.
LEMMA FoundAfterUpsert ==
    ASSUME NEW ptr, NEW event, Allocating(ptr, event), NEW tab, NEW c, NEW f, Written(ptr, tab, c, f),
           cap' = initial_cap'
    PROVE  /\ cap = initial_cap /\ c = cap /\ tab = slots
           /\ \A s \in Used' : /\ Traces!Ends(slots', cap', slots'[s].key)
                               /\ Traces!pg_hashtable_find(slots', cap', slots'[s].key) = s
                               /\ slots'[s].value = Traces!Max(Allocations(events', slots'[s].key))
  <1>0. SlotsWritten(ptr, tab, c, f)
    BY SlotsAfter
  <1>1. /\ TraceTypes /\ EntriesAreFound /\ EntriesAreAllocations /\ ptr \in Ptrs
        /\ initial_cap' = initial_cap /\ ~stuck
    BY DEF Allocating, TraceInv
  <1>2. cap = initial_cap /\ c = cap
    <2>1. c \in Nat /\ c >= cap /\ cap' = c
      BY <1>0 DEF SlotsWritten
    <2>2. cap \in Nat /\ cap >= initial_cap /\ initial_cap \in Nat
      BY <1>1, AllocAssumption DEF TraceTypes
    <2> QED
      BY <1>1, <2>1, <2>2
  <1>3. tab = slots /\ cap' = cap /\ cap \in Nat
    BY <1>2, <1>0 DEF SlotsWritten
  <1>4. f = Traces!pg_hashtable_find(slots, cap, ptr) /\ Traces!Ends(slots, cap, ptr)
    BY <1>2, <1>3 DEF Written
  <1>5. ASSUME NEW s \in Used'
        PROVE  /\ slots'[s].key \in Ptrs
               /\ Traces!Ends(slots', cap, slots'[s].key)
               /\ Traces!pg_hashtable_find(slots', cap, slots'[s].key) = s
               /\ slots'[s].value = Traces!Max(Allocations(events', slots'[s].key))
    <2>1. CASE s = f
      <3>1. slots'[f].hash = HashOf(ptr) /\ slots'[f].key = ptr /\ slots'[f].value = Len(events) + 1
        BY <1>0 DEF SlotsWritten
      <3>2. \A r \in 0 .. cap - 1 : Halts(slots'[r], ptr) => Halts(slots[r], ptr)
        BY <1>2, <1>3, <1>0 DEF SlotsWritten
      <3>3. Halts(slots'[f], ptr)
        BY <3>1 DEF Halts, Traces!SameKey
      <3>4. Traces!Ends(slots', cap, ptr) /\ Traces!pg_hashtable_find(slots', cap, ptr) = f
        BY <1>1, <1>3, <1>4, <3>2, <3>3, SearchStays
      <3>5. Traces!Max(Allocations(events', ptr)) = Len(events) + 1
        <4> DEFINE A == Allocations(events', ptr)
                   n == Len(events) + 1
        <4>1. A = Allocations(events, ptr) \cup {n} /\ Allocations(events, ptr) \in SUBSET (1 .. Len(events)) /\ Len(events) \in Nat
          BY AllocationsWithNew
        <4>2. A \in SUBSET Nat /\ n \in A /\ \A a \in A : a <= n
          BY <4>1
        <4> HIDE DEF A, n
        <4>3. Traces!Max(A) = n
          BY <4>2, LargestIsMax
        <4> QED
          BY <4>3 DEF A, n
      <3> QED
        BY <1>1, <2>1, <3>1, <3>4, <3>5
    <2>2. CASE s # f
      <3> DEFINE q == slots[s].key
      <3>1. s \in Used /\ slots'[s] = slots[s] /\ s \in 0 .. cap - 1
        BY <2>2, <1>0 DEF SlotsWritten, Used
      <3>2. /\ q \in Ptrs /\ slots[s].hash = HashOf(q)
            /\ Traces!Ends(slots, cap, q) /\ Traces!pg_hashtable_find(slots, cap, q) = s
            /\ slots[s].value = Traces!Max(Allocations(events, q))
        BY <1>1, <1>2, <3>1 DEF EntriesAreFound, EntriesAreAllocations
      <3>3. q # ptr
        BY <1>4, <2>2, <3>2
      <3>4. Halts(slots'[s], q)
        BY <3>1, <3>2 DEF Halts, Traces!SameKey
      <3>5. Halts(slots'[f], q) => Halts(slots[f], q)
        <4>1. slots'[f].hash = HashOf(ptr) /\ slots'[f].key = ptr /\ Halts(slots[f], ptr)
          BY <1>3, <1>0 DEF SlotsWritten
        <4>2. SUFFICES ASSUME Halts(slots'[f], q) PROVE Halts(slots[f], q)
          OBVIOUS
        <4>3. HashOf(ptr) = 0
          BY <3>3, <4>1, <4>2 DEF Halts, Traces!SameKey
        <4>4. slots[f].hash = 0
          BY <4>1, <4>3 DEF Halts, Traces!SameKey
        <4> QED
          BY <4>4 DEF Halts
      <3>6. \A r \in 0 .. cap - 1 : Halts(slots'[r], q) => Halts(slots[r], q)
        BY <1>2, <1>3, <3>5, <1>0 DEF SlotsWritten
      <3>7. Traces!Ends(slots', cap, q) /\ Traces!pg_hashtable_find(slots', cap, q) = s
        BY <1>3, <3>2, <3>4, <3>6, SearchStays
      <3>8. Allocations(events', q) = Allocations(events, q)
        BY <3>3, AllocationsWithNew
      <3>9. slots'[s].key = q
        BY <3>1
      <3> QED
        BY <3>1, <3>2, <3>7, <3>8, <3>9
    <2> QED
      BY <2>1, <2>2
  <1> QED
    BY <1>2, <1>3, <1>5

LEMMA EntriesAfterUpsert ==
    ASSUME NEW ptr, NEW event, Allocating(ptr, event), NEW tab, NEW c, NEW f, Written(ptr, tab, c, f)
    PROVE  EntriesAreFound' /\ AllocationsAreEntries'
  <1>0. SlotsWritten(ptr, tab, c, f)
    BY SlotsAfter
  <1>1. EntriesAreFound'
    BY FoundAfterUpsert DEF EntriesAreFound
  <1>2. AllocationsAreEntries /\ ~stuck
    BY DEF Allocating, TraceInv
  <1>3. ASSUME cap' = initial_cap', NEW p \in Ptrs, HashOf(p) # 0, Allocations(events', p) # {}
        PROVE  \E s \in Used' : slots'[s].key = p
    <2>1. CASE p = ptr
      <3>1. f \in Used' /\ slots'[f].key = ptr
        BY <1>3, <2>1, <1>0 DEF SlotsWritten
      <3> QED
        BY <2>1, <3>1
    <2>2. CASE p # ptr
      <3>1. Allocations(events, p) # {}
        BY <1>3, <2>2, AllocationsWithNew
      <3>2. cap = initial_cap /\ tab = slots
        BY <1>3, FoundAfterUpsert
      <3>3. PICK s \in Used : slots[s].key = p
        BY <1>2, <1>3, <3>1, <3>2 DEF AllocationsAreEntries
      <3>4. s # f
        <4>1. SUFFICES ASSUME s = f PROVE FALSE
          OBVIOUS
        <4>2. slots[f].hash # 0
          BY <3>3, <4>1 DEF Used
        <4>3. Halts(slots[f], ptr)
          BY <3>2, <1>0 DEF SlotsWritten
        <4> QED
          BY <2>2, <3>3, <4>1, <4>2, <4>3 DEF Halts, Traces!SameKey
      <3>5. s \in Used' /\ slots'[s] = slots[s]
        BY <3>3, <3>4, <1>0 DEF SlotsWritten
      <3> QED
        BY <3>3, <3>5
    <2> QED
      BY <2>1, <2>2
  <1> QED
    BY <1>1, <1>3 DEF AllocationsAreEntries

LEMMA RoomAfterUpsert ==
    ASSUME NEW ptr, NEW event, Allocating(ptr, event), NEW tab, NEW c, NEW f, Written(ptr, tab, c, f)
    PROVE  RoomLeft'
  <1>0. SlotsWritten(ptr, tab, c, f)
    BY SlotsAfter
  <1>1. TraceTypes /\ RoomLeft /\ initial_cap' = initial_cap
    BY DEF Allocating, TraceInv
  <1>2. SUFFICES ASSUME initial_cap >= 4
                 PROVE  cap' >= 4 /\ 4 * entries' < 3 * cap' + 4 /\ Cardinality(Used') <= entries'
    BY <1>1 DEF RoomLeft, Written
  <1>3. /\ cap \in Nat /\ entries \in Nat /\ cap >= 4 /\ 4 * entries < 3 * cap + 4
        /\ Cardinality(Used) <= entries
    BY <1>1, <1>2 DEF RoomLeft, TraceTypes
  <1>4. /\ cap' = c /\ c \in Nat /\ c >= cap
        /\ c = cap \/ c >= cap + 8
        /\ c = cap => 4 * entries < 3 * cap
    BY <1>1, TableGrows DEF Written
  <1>5. IsFiniteSet(Used) /\ Cardinality(Used) \in Nat
    <2>1. IsFiniteSet(0 .. cap - 1) /\ Used \in SUBSET (0 .. cap - 1)
      BY <1>3, FS_Interval DEF Used
    <2> QED
      BY <2>1, FS_Subset, FS_CardinalityType
  <1>6. Used' = Used \/ Used' = Used \cup {f}
    BY <1>0 DEF SlotsWritten
  <1>7. /\ f \in Used => Cardinality(Used') = Cardinality(Used)
        /\ Cardinality(Used') = Cardinality(Used) \/ Cardinality(Used') = Cardinality(Used) + 1
    <2>1. f \in Used => Used' = Used
      BY <1>6
    <2> QED
      BY <1>5, <1>6, <2>1, FS_AddElement
  <1>8. (f \in Used => entries' = entries) /\ (f \notin Used => entries' = entries + 1)
    BY <1>0 DEF SlotsWritten, Written
  <1>9. CASE f \in Used
    <2>1. entries' = entries /\ Cardinality(Used') = Cardinality(Used)
      BY <1>7, <1>8, <1>9
    <2> QED
      BY <1>3, <1>4, <2>1
  <1>10. CASE f \notin Used
    <2>1. entries' = entries + 1
      BY <1>8, <1>10
    <2> DEFINE u == Cardinality(Used)
               v == Cardinality(Used')
    <2>2. v = u \/ v = u + 1
      BY <1>7
    <2>3. u \in Nat /\ u <= entries
      BY <1>3, <1>5
    <2> HIDE DEF u, v
    <2>4. v <= entries'
      BY <1>3, <2>1, <2>2, <2>3
    <2>5. cap' >= 4 /\ 4 * entries' < 3 * cap' + 4
      BY <1>3, <1>4, <2>1
    <2> QED
      BY <2>4, <2>5 DEF v
  <1> QED
    BY <1>9, <1>10

-----------------------------------------------------------------------------
(* The links. *)

\* A new event, linked to an allocation that is linked back, and to the last
\* one of its pointer while the table is the first one.
EventLinked(event) ==
    /\ GoesOn(events, events', event)
    /\ \A e \in 1 .. Len(events) :
         \/ events'[e].related = events[e].related
         \/ event.kind = "free" /\ event.related = e /\ events'[e].related = Len(events) + 1
    /\ event.related # 0 => /\ event.kind = "free" /\ event.related \in Allocations(events, event.ptr)
                            /\ events'[event.related].related = Len(events) + 1
    /\ cap' = initial_cap' /\ ~stuck' => cap = initial_cap /\ ~stuck
    /\ event.kind = "free" /\ cap' = initial_cap' /\ HashOf(event.ptr) # 0 /\ ~stuck' =>
         event.related = IF Allocations(events, event.ptr) = {} THEN 0
                         ELSE Traces!Max(Allocations(events, event.ptr))

LEMMA FreesAfter ==
    ASSUME TraceTypes, NEW event, EventLinked(event)
    PROVE  /\ Len(events) \in Nat /\ DOMAIN events = 1 .. Len(events)
           /\ DOMAIN events' = 1 .. Len(events) + 1 /\ events'[Len(events) + 1] = event
           /\ \A e \in 1 .. Len(events) : events'[e].kind = events[e].kind /\ events'[e].ptr = events[e].ptr
           /\ \A e \in Traces!Frees : e \in 1 .. Len(events) /\ events'[e].related = events[e].related
           /\ \A e \in 1 .. Len(events) : e \in Traces!Frees' <=> e \in Traces!Frees
           /\ Len(events) + 1 \in Traces!Frees' <=> event.kind = "free"
           /\ \A e \in Traces!Frees' : e \in Traces!Frees \/ e = Len(events) + 1
  <1> DEFINE n == Len(events)
  <1>1. n \in Nat /\ events \in Trace /\ DOMAIN events = 1 .. n
    BY DEF TraceTypes, Trace
  <1>2. /\ events' \in Trace /\ Len(events') = n + 1 /\ events'[n + 1] = event
        /\ \A e \in 1 .. n : events'[e].kind = events[e].kind /\ events'[e].ptr = events[e].ptr
    BY DEF EventLinked, GoesOn
  <1>3. DOMAIN events' = 1 .. n + 1
    BY <1>1, <1>2 DEF Trace
  <1>4. /\ Traces!Frees = {e \in 1 .. n : events[e].kind = "free"}
        /\ Traces!Frees' = {e \in 1 .. n + 1 : events'[e].kind = "free"}
    BY <1>1, <1>3 DEF Traces!Frees
  <1>5. ASSUME NEW e \in Traces!Frees
        PROVE  events'[e].related = events[e].related
    <2>1. e \in 1 .. n /\ events[e].kind = "free"
      BY <1>4
    <2>2. SUFFICES ASSUME event.kind = "free", event.related = e PROVE FALSE
      BY <2>1 DEF EventLinked
    <2>3. event.related # 0
      BY <1>1, <2>1, <2>2
    <2>4. e \in Allocations(events, event.ptr)
      BY <2>2, <2>3 DEF EventLinked
    <2> QED
      BY <2>1, <2>4 DEF Allocations, AllocatedBefore
  <1>6. \A e \in 1 .. n : e \in 1 .. n + 1
    BY <1>1
  <1>7. n + 1 \in 1 .. n + 1 /\ \A e \in 1 .. n + 1 : e \in 1 .. n \/ e = n + 1
    BY <1>1
  <1> HIDE DEF n
  <1>8. /\ \A e \in 1 .. n : e \in Traces!Frees' <=> e \in Traces!Frees
        /\ n + 1 \in Traces!Frees' <=> event.kind = "free"
        /\ \A e \in Traces!Frees' : e \in Traces!Frees \/ e = n + 1
    BY <1>2, <1>4, <1>6, <1>7
  <1>9. \A e \in Traces!Frees : e \in 1 .. n
    BY <1>4
  <1> QED
    BY <1>1, <1>2, <1>3, <1>5, <1>8, <1>9 DEF n

LEMMA LinksAfter ==
    ASSUME TraceTypes, AllocationsKnowFrees, Traces!LinksAreRight, Traces!LinksGoBothWays,
           NEW event, EventLinked(event)
    PROVE  Traces!LinksAreRight' /\ Traces!LinksGoBothWays' /\ AllocationsKnowFrees'
  <1> DEFINE n == Len(events)
             m == n + 1
  <1>1. /\ n \in Nat /\ DOMAIN events = 1 .. n /\ DOMAIN events' = 1 .. m /\ events'[m] = event
        /\ \A e \in 1 .. n : events'[e].kind = events[e].kind /\ events'[e].ptr = events[e].ptr
        /\ \A e \in Traces!Frees : e \in 1 .. n /\ events'[e].related = events[e].related
        /\ \A e \in 1 .. n : e \in Traces!Frees' <=> e \in Traces!Frees
        /\ m \in Traces!Frees' <=> event.kind = "free"
        /\ \A e \in Traces!Frees' : e \in Traces!Frees \/ e = m
    BY FreesAfter
  <1>2. /\ \A e \in 1 .. n : \/ events'[e].related = events[e].related
                             \/ event.kind = "free" /\ event.related = e /\ events'[e].related = m
        /\ event.related # 0 => /\ event.kind = "free" /\ event.related \in Allocations(events, event.ptr)
                                /\ events'[event.related].related = m
        /\ cap' = initial_cap' /\ ~stuck' => cap = initial_cap /\ ~stuck
        /\ event.kind = "free" /\ cap' = initial_cap' /\ HashOf(event.ptr) # 0 /\ ~stuck' =>
             event.related = IF Allocations(events, event.ptr) = {} THEN 0
                             ELSE Traces!Max(Allocations(events, event.ptr))
        /\ GoesOn(events, events', event)
    BY DEF EventLinked
  <1>3. events \in Trace /\ m \in 1 .. m /\ \A e \in 1 .. n : e \in 1 .. m
    BY <1>1 DEF TraceTypes
  <1> HIDE DEF n, m
  <1>4. \A e \in 1 .. m : \A ptr : AllocatedBefore(events', e, ptr) = AllocatedBefore(events, e, ptr)
    BY <1>2, <1>3, PastStays DEF n, m
  <1>5. Allocations(events, event.ptr) = AllocatedBefore(events, m, event.ptr)
    BY DEF Allocations, n, m
  <1>6. \A e, ptr : Traces!Before(e, ptr) = AllocatedBefore(events, e, ptr)
    BY DEF Traces!Before, AllocatedBefore
  <1>7. \A e, ptr : Traces!Before(e, ptr)' = AllocatedBefore(events', e, ptr)
    BY DEF Traces!Before, AllocatedBefore
  <1>8. ASSUME NEW e \in Traces!Frees
        PROVE  /\ events[e].related # 0 => events[e].related \in AllocatedBefore(events, e, events[e].ptr)
               /\ cap = initial_cap /\ HashOf(events[e].ptr) # 0 /\ ~stuck =>
                    events[e].related = IF AllocatedBefore(events, e, events[e].ptr) = {} THEN 0
                                        ELSE Traces!Max(AllocatedBefore(events, e, events[e].ptr))
               /\ events[e].related # 0 => events[events[e].related].related >= e
    BY <1>6 DEF Traces!LinksAreRight, Traces!LinksGoBothWays
  <1>9. ASSUME NEW e \in Traces!Frees'
        PROVE  /\ e \in 1 .. m
               /\ events'[e].related # 0 =>
                    events'[e].related \in AllocatedBefore(events', e, events'[e].ptr)
               /\ cap' = initial_cap' /\ HashOf(events'[e].ptr) # 0 /\ ~stuck' =>
                    events'[e].related = IF AllocatedBefore(events', e, events'[e].ptr) = {} THEN 0
                                         ELSE Traces!Max(AllocatedBefore(events', e, events'[e].ptr))
    <2>1. CASE e \in Traces!Frees
      <3>1. e \in 1 .. n /\ e \in 1 .. m /\ events'[e].related = events[e].related /\ events'[e].ptr = events[e].ptr
        BY <1>1, <1>3, <2>1
      <3>2. AllocatedBefore(events', e, events[e].ptr) = AllocatedBefore(events, e, events[e].ptr)
        BY <1>4, <3>1
      <3> QED
        BY <1>2, <1>8, <2>1, <3>1, <3>2
    <2>2. CASE e = m
      <3>1. events'[e] = event /\ event.kind = "free"
        BY <1>1, <2>2
      <3>2. AllocatedBefore(events', e, event.ptr) = Allocations(events, event.ptr)
        BY <1>3, <1>4, <1>5, <2>2
      <3> QED
        BY <1>2, <1>3, <2>2, <3>1, <3>2
    <2> QED
      BY <1>1, <2>1, <2>2
  <1>10. Traces!LinksAreRight'
    BY <1>7, <1>9 DEF Traces!LinksAreRight
  <1>11. ASSUME NEW e \in Traces!Frees', events'[e].related # 0
         PROVE  /\ events'[events'[e].related].related >= e
                /\ events'[events'[e].related].ptr = events'[e].ptr
    <2> DEFINE r == events'[e].related
    <2>1. r \in 1 .. e - 1 /\ events'[r].ptr = events'[e].ptr
      BY <1>9, <1>11 DEF AllocatedBefore
    <2>2. CASE e \in Traces!Frees
      <3>1. e \in 1 .. n /\ r = events[e].related /\ m >= e /\ e \in Nat /\ m \in Nat
        BY <1>1, <2>2 DEF m
      <3>2. events[r].related >= e
        BY <1>8, <1>11, <2>2, <3>1
      <3>3. r \in 1 .. n
        BY <1>1, <2>1, <3>1
      <3>4. events'[r].related = events[r].related \/ events'[r].related = m
        BY <1>2, <3>3
      <3> QED
        BY <2>1, <3>1, <3>2, <3>4
    <2>3. CASE e = m
      <3>1. events'[r].related = m /\ m >= m
        BY <1>1, <1>2, <1>11, <2>3 DEF m
      <3> QED
        BY <2>1, <2>3, <3>1
    <2> QED
      BY <1>1, <2>2, <2>3
  <1>12. ASSUME NEW a \in 1 .. m, events'[a].kind # "free"
         PROVE  /\ events'[a].related \in {0} \cup Traces!Frees'
                /\ events'[a].related # 0 => events'[events'[a].related].related = a
    <2>1. CASE a \in 1 .. n
      <3>1. events[a].kind # "free" /\ a \in DOMAIN events /\ a \in DOMAIN events \ Traces!Frees
        BY <1>1, <1>12, <2>1 DEF Traces!Frees
      <3>2. CASE events'[a].related = events[a].related
        <4> DEFINE b == events[a].related
        <4>1. b \in {0} \cup Traces!Frees
          BY <3>1 DEF AllocationsKnowFrees
        <4>2. b # 0 => events[b].related = a
          BY <3>1 DEF Traces!LinksGoBothWays
        <4>3. b # 0 => b \in Traces!Frees' /\ events'[b].related = events[b].related
          BY <1>1, <4>1
        <4> QED
          BY <3>2, <4>1, <4>2, <4>3
      <3>3. CASE event.kind = "free" /\ event.related = a /\ events'[a].related = m
        <4>1. m \in Traces!Frees' /\ events'[m].related = a
          BY <1>1, <3>3
        <4> QED
          BY <3>3, <4>1
      <3> QED
        BY <1>2, <2>1, <3>2, <3>3
    <2>2. CASE a = m
      <3>1. events'[a] = event /\ event.kind # "free"
        BY <1>1, <1>12, <2>2
      <3>2. events'[a].related = 0
        BY <1>2, <3>1
      <3> QED
        BY <3>2
    <2>3. a \in 1 .. n \/ a = m
      BY <1>1 DEF m
    <2> QED
      BY <2>1, <2>2, <2>3
  <1>13. AllocationsKnowFrees'
    BY <1>1, <1>12 DEF AllocationsKnowFrees
  <1>14. ASSUME NEW e \in Traces!Frees', events'[e].related # 0
         PROVE  (IF events'[e].kind # "free" THEN events'[e].ptr
                 ELSE IF events'[e].related = 0 THEN 0 ELSE events'[events'[e].related].ptr) = events'[e].ptr
    <2>1. events'[e].kind = "free"
      BY DEF Traces!Frees
    <2> QED
      BY <1>11, <1>14, <2>1
  <1>15. \A a \in DOMAIN events' \ Traces!Frees' : a \in 1 .. m /\ events'[a].kind # "free"
    BY <1>1 DEF Traces!Frees
  <1>16. Traces!LinksGoBothWays'
    BY <1>11, <1>12, <1>14, <1>15 DEF Traces!LinksGoBothWays, Traces!event_ptr
  <1> QED
    BY <1>10, <1>13, <1>16

-----------------------------------------------------------------------------
(* The steps of the trace. *)

\* An upsert that does not end, and a free, leave the table as it is.
LEMMA TableStays ==
    ASSUME TraceInv, NEW event, GoesOn(events, events', event), UNCHANGED <<cap, slots, entries, initial_cap>>,
           (event.kind = "free" /\ stuck' = stuck) \/ (stuck' /\ initial_cap < 4)
    PROVE  TraceTypes' /\ EntriesAreAllocations' /\ EntriesAreFound' /\ AllocationsAreEntries' /\ RoomLeft'
  <1>1. /\ TraceTypes /\ EntriesAreAllocations /\ EntriesAreFound /\ AllocationsAreEntries /\ RoomLeft
        /\ initial_cap \in Nat
    BY AllocAssumption DEF TraceInv, TraceTypes
  <1>2. /\ \A p : Allocations(events, p) \subseteq Allocations(events', p)
        /\ event.kind = "free" => \A p : Allocations(events', p) = Allocations(events, p)
    BY <1>1, AllocationsGrow
  <1>3. Used' = Used
    BY DEF Used
  <1>4. TraceTypes'
    BY <1>1 DEF TraceTypes, GoesOn
  <1>5. EntriesAreAllocations'
    BY <1>1, <1>2, <1>3 DEF EntriesAreAllocations
  <1>6. CASE event.kind = "free" /\ stuck' = stuck
    <2>1. EntriesAreFound'
      BY <1>1, <1>2, <1>3, <1>6 DEF EntriesAreFound
    <2>2. AllocationsAreEntries'
      BY <1>1, <1>2, <1>3, <1>6 DEF AllocationsAreEntries
    <2>3. RoomLeft'
      BY <1>1, <1>3, <1>6 DEF RoomLeft
    <2> QED
      BY <1>4, <1>5, <2>1, <2>2, <2>3
  <1>7. CASE stuck' /\ initial_cap < 4
    <2>1. ~(initial_cap' >= 4)
      BY <1>1, <1>7
    <2> QED
      BY <1>4, <1>5, <1>7, <2>1 DEF EntriesAreFound, AllocationsAreEntries, RoomLeft
  <1> QED
    BY <1>6, <1>7

LEMMA AllocateHolds ==
    ASSUME TraceInv, ~stuck, NEW ptr \in Ptrs, NEW k \in {"alloc", "realloc"}, Traces!Allocate(k, ptr),
           initial_cap' = initial_cap
    PROVE  TraceInv'
  <1> DEFINE event == Traces!Event(k, ptr)
  <1>1. /\ event \in [kind : {"alloc", "realloc", "free"}, ptr : Ptrs, related : Nat]
        /\ event.kind # "free" /\ event.ptr = ptr /\ event.related = 0
    BY DEF Traces!Event
  <1>2. events' = Append(events, event) /\ Traces!Upsert(ptr, Len(events) + 1)
    BY DEF Traces!Allocate
  <1>3. /\ TraceTypes /\ AllocationsKnowFrees /\ Traces!LinksAreRight /\ Traces!LinksGoBothWays
        /\ events \in Trace
    BY DEF TraceInv, TraceTypes
  <1> HIDE DEF event
  <1>4. GoesOn(events, events', event) /\ \A e \in 1 .. Len(events) : events'[e] = events[e]
    BY <1>1, <1>2, <1>3, EventIsAppended
  <1>5. Allocating(ptr, event)
    BY <1>1, <1>2, <1>4 DEF Allocating
  <1>6. CASE Stuck
    <2>1. TraceTypes' /\ EntriesAreAllocations' /\ EntriesAreFound' /\ AllocationsAreEntries' /\ RoomLeft'
      BY <1>4, <1>6, TableStays DEF Stuck
    <2>2. EventLinked(event)
      BY <1>1, <1>4, <1>6 DEF EventLinked, Stuck
    <2> QED
      BY <1>3, <2>1, <2>2, LinksAfter DEF TraceInv
  <1>7. CASE \E tab, c, f : Written(ptr, tab, c, f)
    <2>1. PICK tab, c, f : Written(ptr, tab, c, f)
      BY <1>7
    <2>2. TraceTypes' /\ EntriesAreAllocations' /\ EntriesAreFound' /\ AllocationsAreEntries' /\ RoomLeft'
      BY <1>5, <2>1, TableAfterUpsert, EntriesAfterUpsert, RoomAfterUpsert
    <2>3. cap' = initial_cap' => cap = initial_cap
      BY <1>5, <2>1, FoundAfterUpsert
    <2>4. EventLinked(event)
      BY <1>1, <1>4, <2>3 DEF EventLinked
    <2> QED
      BY <1>3, <2>2, <2>4, LinksAfter DEF TraceInv
  <1> QED
    BY <1>5, <1>6, <1>7, UpsertEnds

\* An allocation that is found is one of the pointer, and the last one while the
\* table is the first one; if none is, there is none then.
LEMMA FreeFinds ==
    ASSUME TraceInv, ~stuck, NEW ptr \in Ptrs, Traces!Ends(slots, cap, ptr)
    PROVE  LET other == slots[Traces!pg_hashtable_find(slots, cap, ptr)].value
           IN  /\ Traces!Found(slots, cap, ptr) => other \in Allocations(events, ptr)
               /\ cap = initial_cap /\ Traces!Found(slots, cap, ptr) => other = Traces!Max(Allocations(events, ptr))
               /\ cap = initial_cap /\ HashOf(ptr) # 0 /\ ~Traces!Found(slots, cap, ptr) => Allocations(events, ptr) = {}
  <1> DEFINE f == Traces!pg_hashtable_find(slots, cap, ptr)
  <1>1. TraceTypes /\ EntriesAreAllocations /\ EntriesAreFound /\ AllocationsAreEntries
    BY DEF TraceInv
  <1>2. f \in 0 .. cap - 1 /\ Halts(slots[f], ptr)
    BY <1>1, FindHalts DEF TraceTypes
  <1>3. Traces!Found(slots, cap, ptr) <=> slots[f].hash # 0
    BY DEF Traces!Found
  <1> HIDE DEF f
  <1>4. CASE slots[f].hash # 0
    <2>1. f \in Used /\ slots[f].key = ptr
      BY <1>2, <1>4 DEF Used, Halts, Traces!SameKey
    <2>2. slots[f].value \in Allocations(events, ptr)
      BY <1>1, <2>1 DEF EntriesAreAllocations
    <2>3. cap = initial_cap => slots[f].value = Traces!Max(Allocations(events, ptr))
      BY <1>1, <2>1 DEF EntriesAreFound
    <2> QED
      BY <1>3, <1>4, <2>2, <2>3 DEF f
  <1>5. CASE slots[f].hash = 0
    <2>1. ASSUME cap = initial_cap, HashOf(ptr) # 0, Allocations(events, ptr) # {}
          PROVE  FALSE
      <3>1. PICK s \in Used : slots[s].key = ptr
        BY <1>1, <2>1 DEF AllocationsAreEntries
      <3>2. f = s
        BY <1>1, <2>1, <3>1 DEF EntriesAreFound, f
      <3> QED
        BY <1>5, <3>1, <3>2 DEF Used
    <2> QED
      BY <1>3, <1>5, <2>1 DEF f
  <1> QED
    BY <1>4, <1>5

LEMMA BackLinked ==
    ASSUME NEW trace \in Trace, NEW a \in 1 .. Len(trace), NEW m \in Nat
    PROVE  LET new == [trace EXCEPT ![a].related = m]
           IN  /\ new \in Trace /\ Len(new) = Len(trace)
               /\ \A e \in 1 .. Len(trace) : /\ new[e].kind = trace[e].kind /\ new[e].ptr = trace[e].ptr
                                             /\ e # a => new[e].related = trace[e].related
               /\ new[a].related = m
  <1> DEFINE R   == [kind : {"alloc", "realloc", "free"}, ptr : Ptrs, related : Nat]
             n   == Len(trace)
             old == trace[a]
             new == [trace EXCEPT ![a].related = m]
  <1>1. n \in Nat /\ trace \in [1 .. n -> R]
    BY LenProperties DEF Trace
  <1>2. old \in R
    BY <1>1
  <1>3. [old EXCEPT !.related = m] \in R
    BY <1>2
  <1>4. /\ [old EXCEPT !.related = m].kind = old.kind /\ [old EXCEPT !.related = m].ptr = old.ptr
        /\ [old EXCEPT !.related = m].related = m
    BY <1>2
  <1>5. new = [trace EXCEPT ![a] = [old EXCEPT !.related = m]]
    OBVIOUS
  <1>6. new[a] = [old EXCEPT !.related = m] /\ \A e \in 1 .. n : e # a => new[e] = trace[e]
    BY <1>1, <1>5
  <1>7. new \in [1 .. n -> R]
    BY <1>1, <1>3, <1>5
  <1> HIDE DEF R, n, new
  <1>8. new \in Seq(R) /\ Len(new) = n
    BY <1>1, <1>7
  <1>9. new \in Trace
    BY <1>8 DEF Trace, R
  <1>10. \A e \in 1 .. n : new[e].kind = trace[e].kind /\ new[e].ptr = trace[e].ptr
    BY <1>4, <1>6
  <1> QED
    BY <1>4, <1>6, <1>8, <1>9, <1>10 DEF n, new

LEMMA FreeEventHolds ==
    ASSUME TraceInv, ~stuck, NEW ptr \in Ptrs, Traces!free(ptr), initial_cap' = initial_cap
    PROVE  TraceInv'
  <1> DEFINE me    == Len(events) + 1
             other == slots[Traces!pg_hashtable_find(slots, cap, ptr)].value
             Free(related) == [kind |-> "free", ptr |-> ptr, related |-> related]
             FreeRecs == [kind : {"alloc", "realloc", "free"}, ptr : Ptrs, related : Nat]
  <1>1. /\ TraceTypes /\ RoomLeft /\ AllocationsKnowFrees /\ Traces!LinksAreRight /\ Traces!LinksGoBothWays
        /\ events \in Trace /\ initial_cap \in Nat
    BY AllocAssumption DEF TraceInv, TraceTypes
  <1>2. UNCHANGED <<cap, slots, entries>>
    BY DEF Traces!free
  <1>3. SUFFICES \E event : /\ GoesOn(events, events', event) /\ EventLinked(event)
                            /\ (event.kind = "free" /\ stuck' = stuck) \/ (stuck' /\ initial_cap < 4)
    <2>1. PICK event : /\ GoesOn(events, events', event) /\ EventLinked(event)
                       /\ (event.kind = "free" /\ stuck' = stuck) \/ (stuck' /\ initial_cap < 4)
      BY <1>3
    <2>2. TraceTypes' /\ EntriesAreAllocations' /\ EntriesAreFound' /\ AllocationsAreEntries' /\ RoomLeft'
      BY <1>2, <2>1, TableStays
    <2> QED
      BY <1>1, <2>1, <2>2, LinksAfter DEF TraceInv
  <1>4. Free(0) \in FreeRecs /\ Traces!Event("free", ptr) = Free(0) /\ me \in Nat
    BY <1>1, AllocationsAreEvents DEF Traces!Event
  <1>5. CASE ~Traces!Ends(slots, cap, ptr)
    <2>1. stuck' /\ events' = Append(events, Free(0))
      BY <1>4, <1>5 DEF Traces!free
    <2>2. GoesOn(events, events', Free(0)) /\ \A e \in 1 .. Len(events) : events'[e] = events[e]
      BY <1>1, <1>4, <2>1, EventIsAppended
    <2>3. ~(initial_cap >= 4)
      BY <1>1, <1>5, RoomEnds
    <2>4. initial_cap < 4
      BY <1>1, <2>3
    <2>5. EventLinked(Free(0))
      BY <2>1, <2>2 DEF EventLinked
    <2> QED
      BY <2>1, <2>2, <2>4, <2>5
  <1>6. CASE Traces!Ends(slots, cap, ptr) /\ Traces!Found(slots, cap, ptr)
    <2>1. other \in Allocations(events, ptr) /\ (cap = initial_cap => other = Traces!Max(Allocations(events, ptr)))
      BY <1>6, FreeFinds
    <2>2. other \in 1 .. Len(events) /\ other \in Nat /\ other # 0
      BY <1>1, <2>1, AllocationsAreEvents
    <2>3. events' = Append(Traces!LinkedBack(other, me), Free(other)) /\ stuck' = stuck
      BY <1>4, <1>6 DEF Traces!free
    <2> DEFINE base == Traces!LinkedBack(other, me)
    <2> HIDE DEF other, me
    <2>4. /\ base \in Trace /\ Len(base) = Len(events)
          /\ \A e \in 1 .. Len(events) : /\ base[e].kind = events[e].kind /\ base[e].ptr = events[e].ptr
                                         /\ e # other => base[e].related = events[e].related
          /\ base[other].related = me
      BY <1>1, <1>4, <2>2, BackLinked DEF Traces!LinkedBack
    <2>5. Free(other) \in FreeRecs
      BY <2>2
    <2> HIDE DEF base
    <2>6. GoesOn(events, events', Free(other)) /\ \A e \in 1 .. Len(events) : events'[e] = base[e]
      BY <1>1, <2>3, <2>4, <2>5, EventIsAppended DEF base
    <2>7. Allocations(events, ptr) # {}
      BY <2>1
    <2>8. EventLinked(Free(other))
      BY <1>2, <2>1, <2>2, <2>3, <2>4, <2>6, <2>7 DEF EventLinked, me
    <2> QED
      BY <2>3, <2>6, <2>8
  <1>7. CASE Traces!Ends(slots, cap, ptr) /\ ~Traces!Found(slots, cap, ptr)
    <2>1. stuck' = stuck /\ events' = Append(events, Free(0))
      BY <1>4, <1>7 DEF Traces!free
    <2>2. GoesOn(events, events', Free(0)) /\ \A e \in 1 .. Len(events) : events'[e] = events[e]
      BY <1>1, <1>4, <2>1, EventIsAppended
    <2>3. cap = initial_cap /\ HashOf(ptr) # 0 => Allocations(events, ptr) = {}
      BY <1>7, FreeFinds
    <2>4. EventLinked(Free(0))
      BY <1>2, <2>1, <2>2, <2>3 DEF EventLinked
    <2> QED
      BY <2>1, <2>2, <2>4
  <1> QED
    BY <1>5, <1>6, <1>7

LEMMA TraceInitHolds == Traces!AllocInit => TraceInv
  <1>1. SUFFICES ASSUME Traces!AllocInit PROVE TraceInv
    OBVIOUS
  <1>2. /\ initial_cap \in InitialCaps /\ cap = initial_cap /\ slots = [s \in 0 .. cap - 1 |-> Traces!Empty]
        /\ entries = 0 /\ events = <<>> /\ stuck = FALSE /\ initial_cap \in Nat
    BY <1>1, AllocAssumption DEF Traces!AllocInit
  <1>3. Traces!Empty \in Slot /\ Traces!Empty.hash = 0
    BY DEF Traces!Empty, Slot
  <1>4. TraceTypes
    BY <1>2, <1>3 DEF TraceTypes, Trace
  <1>5. Used = {}
    BY <1>2, <1>3 DEF Used
  <1>6. \A p : Allocations(events, p) = {}
    BY <1>2 DEF Allocations, AllocatedBefore
  <1>7. DOMAIN events = {} /\ Traces!Frees = {}
    BY <1>2 DEF Traces!Frees
  <1>8. Cardinality(Used) = 0
    BY <1>5, FS_EmptySet
  <1>9. RoomLeft
    <2>1. 4 * 0 < 3 * cap + 4
      BY <1>2
    <2> QED
      BY <1>2, <1>8, <2>1 DEF RoomLeft
  <1> QED
    BY <1>4, <1>5, <1>6, <1>7, <1>9 DEF TraceInv, EntriesAreAllocations, EntriesAreFound, AllocationsAreEntries,
       AllocationsKnowFrees, Traces!LinksAreRight, Traces!LinksGoBothWays

LEMMA TraceStepHolds == TraceInv /\ [Traces!AllocNext]_Traces!allocVars => TraceInv'
  <1>1. ASSUME TraceInv, Traces!AllocNext PROVE TraceInv'
    <2>1. PICK ptr \in Ptrs : Traces!malloc(ptr) \/ Traces!free(ptr) \/ \E old \in Ptrs : Traces!realloc(old, ptr)
      BY <1>1 DEF Traces!AllocNext
    <2>2. ~stuck /\ initial_cap' = initial_cap
      BY <1>1 DEF Traces!AllocNext
    <2>3. CASE Traces!malloc(ptr)
      BY <1>1, <2>2, <2>3, AllocateHolds DEF Traces!malloc
    <2>4. CASE Traces!free(ptr)
      BY <1>1, <2>2, <2>4, FreeEventHolds
    <2>5. CASE \E old \in Ptrs : Traces!realloc(old, ptr)
      BY <1>1, <2>2, <2>5, AllocateHolds DEF Traces!realloc
    <2> QED
      BY <2>1, <2>3, <2>4, <2>5
  <1>2. ASSUME TraceInv, UNCHANGED Traces!allocVars PROVE TraceInv'
    <2>1. UNCHANGED <<events, cap, slots, entries, stuck, initial_cap>>
      BY <1>2 DEF Traces!allocVars
    <2>2. Used' = Used
      BY <2>1 DEF Used
    <2>3. (TraceTypes' <=> TraceTypes) /\ (EntriesAreAllocations' <=> EntriesAreAllocations)
      BY <2>1, <2>2 DEF TraceTypes, EntriesAreAllocations
    <2>4. (EntriesAreFound' <=> EntriesAreFound) /\ (AllocationsAreEntries' <=> AllocationsAreEntries)
      BY <2>1, <2>2 DEF EntriesAreFound, AllocationsAreEntries
    <2>5. (RoomLeft' <=> RoomLeft) /\ (AllocationsKnowFrees' <=> AllocationsKnowFrees)
      BY <2>1, <2>2 DEF RoomLeft, AllocationsKnowFrees, Traces!Frees
    <2>6. (Traces!LinksAreRight' <=> Traces!LinksAreRight) /\ (Traces!LinksGoBothWays' <=> Traces!LinksGoBothWays)
      BY <2>1 DEF Traces!LinksAreRight, Traces!LinksGoBothWays, Traces!Frees, Traces!Before, Traces!event_ptr
    <2> QED
      BY <1>2, <2>3, <2>4, <2>5, <2>6 DEF TraceInv
  <1> QED
    BY <1>1, <1>2

LEMMA TraceInvSuffices == TraceInv => Traces!PairsAreRight
  <1>1. SUFFICES ASSUME TraceInv, stuck PROVE initial_cap < 4
    BY DEF TraceInv, Traces!PairsAreRight, Traces!LookupsEnd
  <1>2. initial_cap \in Nat /\ ~(initial_cap >= 4)
    BY <1>1, AllocAssumption DEF TraceInv, TraceTypes, RoomLeft
  <1> QED
    BY <1>2
-----------------------------------------------------------------------------
(***************************************************************************)
(* OnCall: BillsAreRight, for any calendar and any list of shifts.  The    *)
(* months are numbered from the first on (Index).  The bills are right for *)
(* the hours so far when they are those of ever later months, every hour   *)
(* has one, and each counts the hours of its own month (BillsFor).  That a *)
(* month is not billed again rests on the last bill being of the month in  *)
(* which the last shift ends.                                              *)
(***************************************************************************)

Bill        == [month : 0 .. YearMonths - 1, year : Nat, week_hours : Nat, week_end_hours : Nat]
Index(t)    == t \div Shifts!MonthHours
IndexOf(b)  == b.year * YearMonths + b.month
Billable(from, to) == {t \in from .. to - 1 : ~Shifts!datetime_is_working_hour(t)}
WeekEnds(S) == {t \in S : Shifts!datetime_is_week_end(t)}
OwnHours(b, hours) == {t \in hours : Index(t) = IndexOf(b)}
Counts(b, own) ==
    b.week_end_hours = Cardinality(WeekEnds(own)) /\ b.week_hours = Cardinality(own \ WeekEnds(own))

BillsFor(bills, hours) ==
    /\ \A i, j \in DOMAIN bills : i < j => IndexOf(bills[i]) < IndexOf(bills[j])
    /\ \A t \in hours : \E i \in DOMAIN bills : IndexOf(bills[i]) = Index(t)
    /\ \A i \in DOMAIN bills : Counts(bills[i], OwnHours(bills[i], hours))

BillsSoFar ==
    (\A i \in DOMAIN shifts : Shifts!IsOrdinary(shifts[i])) =>
        /\ BillsFor(monthly_bills, Shifts!Outside)
        /\ monthly_bills = <<>> <=> shifts = <<>>
        /\ shifts # <<>> => IndexOf(Shifts!Last(monthly_bills)) = Index(Shifts!Last(shifts)[2])

OnCallInv ==
    /\ shifts \in Seq(Nat \X Nat) /\ monthly_bills \in Seq(Bill)
    /\ IsFiniteSet(Shifts!Covered) /\ Shifts!Covered \subseteq Nat
    /\ \A t \in Shifts!Covered : shifts # <<>> /\ t < Shifts!Last(shifts)[2]
    /\ Shifts!HoursIn(monthly_bills) \in Nat /\ Shifts!NothingIsBilledTwice
    /\ BillsSoFar

-----------------------------------------------------------------------------
(* The calendar. *)

\* A quotient of a quotient.
LEMMA DivDiv ==
    ASSUME NEW a \in Nat, NEW m \in Nat \ {0}, NEW n \in Nat \ {0}
    PROVE  a \div (m * n) = (a \div m) \div n
  <1> DEFINE q == a \div m
             r == a % m
             p == q \div n
             s == q % n
  <1>1. q \in Int /\ r \in Nat /\ r < m /\ a = m * q + r
    BY DivMod
  <1> HIDE DEF q, r
  <1>2. p \in Int /\ s \in Nat /\ s < n /\ q = n * p + s
    BY <1>1, DivMod
  <1> HIDE DEF p, s
  <1>3. m * n \in Nat \ {0}
    OBVIOUS
  <1>4. a = (m * n) * p + (m * s + r)
    <2>1. m * (n * p + s) = (m * n) * p + m * s
      BY <1>2
    <2> QED
      BY <1>1, <1>2, <2>1
  <1>5. m * s + r \in Nat /\ m * s + r < m * n
    <2>1. s \in 0 .. n - 1 /\ n - 1 - s \in Nat
      BY <1>2
    <2>2. m * (n - 1 - s) \in Nat /\ m * (n - 1 - s) = m * n - m - m * s
      BY <1>2, <2>1
    <2> QED
      BY <1>1, <1>2, <2>2
  <1> DEFINE mn == m * n
             rest == m * s + r
  <1> HIDE DEF mn, rest
  <1>6. (mn * p + rest) \div mn = p
    BY <1>2, <1>3, <1>5, DivModUnique DEF mn, rest
  <1>7. a \div mn = p
    BY <1>4, <1>6 DEF mn, rest
  <1> QED
    BY <1>7 DEF mn, p, q

LEMMA MonthsHaveHours == Shifts!MonthHours \in Nat \ {0} /\ YearMonths \in Nat \ {0}
  BY OnCallAssumption DEF Shifts!MonthHours

\* The number of a month is that of its year and of its month in the year.
LEMMA IndexIsOfMonth ==
    ASSUME NEW t \in Nat
    PROVE  /\ Index(t) \in Nat
           /\ Shifts!MonthOf(t) \in 0 .. YearMonths - 1 /\ Shifts!YearOf(t) \in Nat
           /\ Index(t) = Shifts!YearOf(t) * YearMonths + Shifts!MonthOf(t)
  <1> DEFINE h == Shifts!MonthHours
             q == t \div h
             p == q \div YearMonths
  <1>1. h \in Nat \ {0} /\ YearMonths \in Nat \ {0}
    BY MonthsHaveHours
  <1> HIDE DEF h
  <1>2. q \in Nat
    BY <1>1
  <1>3. t \div (h * YearMonths) = p
    BY <1>1, DivDiv
  <1> HIDE DEF q
  <1>4. p \in Nat /\ q % YearMonths \in 0 .. YearMonths - 1 /\ q = YearMonths * p + (q % YearMonths)
    BY <1>1, <1>2, DivMod
  <1>5. Shifts!YearOf(t) = p /\ Shifts!MonthOf(t) = q % YearMonths /\ Index(t) = q
    BY <1>3 DEF Shifts!YearOf, Shifts!MonthOf, Index, h, q
  <1> HIDE DEF p
  <1>6. YearMonths * p = p * YearMonths
    BY <1>1, <1>4
  <1> QED
    BY <1>2, <1>4, <1>5, <1>6

\* A year and a month in it are determined by the number of the month.
LEMMA IndexIsUnique ==
    ASSUME NEW y \in Nat, NEW m \in 0 .. YearMonths - 1, NEW z \in Nat, NEW n \in 0 .. YearMonths - 1,
           y * YearMonths + m = z * YearMonths + n
    PROVE  y = z /\ m = n
  <1> DEFINE k == y * YearMonths + m
  <1>1. YearMonths \in Nat \ {0} /\ m \in Nat /\ m < YearMonths /\ n \in Nat /\ n < YearMonths
    BY MonthsHaveHours
  <1>2. k = YearMonths * y + m /\ k = YearMonths * z + n
    BY <1>1
  <1> HIDE DEF k
  <1>3. k \div YearMonths = y /\ k % YearMonths = m
    BY <1>1, <1>2, DivModUnique
  <1>4. k \div YearMonths = z /\ k % YearMonths = n
    BY <1>1, <1>2, DivModUnique
  <1> QED
    BY <1>3, <1>4

\* The hours before the end of a month are those of this month and of others
\* before it.
LEMMA BeforeEndOfMonth ==
    ASSUME NEW t \in Nat, NEW i \in Nat
    PROVE  t < (i + 1) * Shifts!MonthHours <=> Index(t) <= i
  <1> DEFINE h == Shifts!MonthHours
             q == t \div h
             r == t % h
  <1>1. h \in Nat \ {0}
    BY MonthsHaveHours
  <1> HIDE DEF h
  <1>2. q \in Nat /\ r \in Nat /\ r < h /\ t = h * q + r
    BY <1>1, DivMod
  <1> HIDE DEF q, r
  <1>3. ASSUME q <= i PROVE t < (i + 1) * h
    <2>1. i - q \in Nat
      BY <1>2, <1>3
    <2>2. (i - q) * h \in Nat
      BY <1>1, <2>1
    <2>3. (i + 1) * h = (i - q) * h + h * q + h
      BY <1>1, <1>2
    <2> QED
      BY <1>1, <1>2, <2>2, <2>3
  <1>4. ASSUME q > i PROVE ~(t < (i + 1) * h)
    <2>1. q - (i + 1) \in Nat
      BY <1>2, <1>4
    <2>2. (q - (i + 1)) * h \in Nat
      BY <1>1, <2>1
    <2>3. h * q = (q - (i + 1)) * h + (i + 1) * h
      BY <1>1, <1>2
    <2>4. (i + 1) * h \in Nat
      BY <1>1
    <2> QED
      BY <1>1, <1>2, <2>2, <2>3, <2>4
  <1>5. Index(t) = q
    BY DEF Index, q, h
  <1> QED
    BY <1>2, <1>3, <1>4, <1>5 DEF h

LEMMA NextMonthStarts ==
    ASSUME NEW t \in Nat
    PROVE  /\ Shifts!get_start_of_next_month(t) = (Index(t) + 1) * Shifts!MonthHours
           /\ Shifts!get_start_of_next_month(t) \in Nat
           /\ t < Shifts!get_start_of_next_month(t)
  <1>1. /\ Index(t) \in Nat
        /\ Index(t) = Shifts!YearOf(t) * YearMonths + Shifts!MonthOf(t)
        /\ Shifts!MonthOf(t) \in Nat /\ Shifts!YearOf(t) \in Nat
    BY IndexIsOfMonth
  <1>2. Shifts!YearOf(t) * YearMonths \in Nat /\ Shifts!MonthHours \in Nat
    BY <1>1, MonthsHaveHours
  <1>3. Shifts!YearOf(t) * YearMonths + (Shifts!MonthOf(t) + 1) = Index(t) + 1
    BY <1>1, <1>2
  <1>4. Shifts!get_start_of_next_month(t) = (Index(t) + 1) * Shifts!MonthHours
    BY <1>3 DEF Shifts!get_start_of_next_month, Shifts!StartOf
  <1>5. (Index(t) + 1) * Shifts!MonthHours \in Nat
    BY <1>1, <1>2
  <1>6. t < (Index(t) + 1) * Shifts!MonthHours
    BY <1>1, BeforeEndOfMonth
  <1> QED
    BY <1>4, <1>5, <1>6

\* Later hours are not of earlier months.
LEMMA IndexGrows ==
    ASSUME NEW s \in Nat, NEW t \in Nat, s <= t
    PROVE  Index(s) <= Index(t)
  <1>1. Index(t) \in Nat /\ Shifts!MonthHours \in Nat
    BY IndexIsOfMonth, MonthsHaveHours
  <1>2. t < (Index(t) + 1) * Shifts!MonthHours /\ (Index(t) + 1) * Shifts!MonthHours \in Nat
    BY <1>1, BeforeEndOfMonth
  <1>3. s < (Index(t) + 1) * Shifts!MonthHours
    BY <1>2
  <1> QED
    BY <1>1, <1>3, BeforeEndOfMonth

-----------------------------------------------------------------------------
(* The sum of the bills. *)

LEMMA ShiftsCardinality == ASSUME NEW S PROVE Shifts!Cardinality(S) = Cardinality(S)
  BY DEF Shifts!Cardinality, Cardinality

BillHours(b) == b.week_hours + b.week_end_hours
AddsUp(f, bills) == f = [n \in 0 .. Len(bills) |-> IF n = 0 THEN 0 ELSE f[n - 1] + bills[n].week_hours + bills[n].week_end_hours]
Totals(bills) == CHOOSE f : AddsUp(f, bills)

LEMMA TotalsExist ==
    ASSUME NEW bills \in Seq(Bill)
    PROVE  LET f == Totals(bills) IN
           /\ f \in [0 .. Len(bills) -> Nat] /\ f[0] = 0
           /\ \A n \in 1 .. Len(bills) : f[n] = f[n - 1] + BillHours(bills[n])
           /\ Shifts!HoursIn(bills) = f[Len(bills)]
  <1> DEFINE N == Len(bills)
             adds == [p \in (1 .. N) \X Nat |-> p[2] + BillHours(bills[p[1]])]
  <1>1. N \in Nat /\ \A n \in 1 .. N : bills[n].week_hours \in Nat /\ bills[n].week_end_hours \in Nat
    <2>1. \A n \in 1 .. N : bills[n] \in Bill
      BY ElementOfSeq
    <2> QED
      BY <2>1, LenProperties DEF Bill
  <1>2. adds \in [(1 .. N) \X Nat -> Nat]
    BY <1>1 DEF BillHours
  <1>3. \A n \in 1 .. N, x \in Nat : adds[<<n, x>>] = x + BillHours(bills[n])
    OBVIOUS
  <1> HIDE DEF adds
  <1>4. PICK f \in [0 .. N -> Nat] : f[0] = 0 /\ \A n \in 1 .. N : f[n] = adds[<<n, f[n - 1]>>]
    <2>1. \E f : IsRecursive(f, N, Nat, 0, adds)
      <3> DEFINE V == Nat
      <3>1. N \in Nat /\ 0 \in V /\ adds \in [(1 .. N) \X V -> V]
        BY <1>1, <1>2
      <3> HIDE DEF N, V
      <3>2. \E f : IsRecursive(f, N, V, 0, adds)
        BY <3>1, RecursionExists, Zenon
      <3> QED
        BY <3>2 DEF V
    <2> QED
      BY <2>1 DEF IsRecursive
  <1>5. AddsUp(f, bills)
    <2> DEFINE g == [n \in 0 .. N |-> IF n = 0 THEN 0 ELSE f[n - 1] + bills[n].week_hours + bills[n].week_end_hours]
    <2>1. ASSUME NEW n \in 0 .. N PROVE g[n] = f[n]
      <3>1. CASE n = 0
        BY <1>4, <3>1
      <3>2. CASE n # 0
        <4>1. n \in 1 .. N /\ n - 1 \in 0 .. N /\ f[n - 1] \in Nat
          <5>1. n \in 1 .. N /\ n - 1 \in 0 .. N
            BY <1>1, <3>2
          <5> HIDE DEF N
          <5> QED
            BY <1>4, <5>1
        <4>2. f[n] = f[n - 1] + BillHours(bills[n])
          BY <1>3, <1>4, <4>1
        <4> QED
          BY <1>1, <3>2, <4>1, <4>2 DEF BillHours
      <3> QED
        BY <3>1, <3>2
    <2>2. f = g
      <3>1. g = [n \in 0 .. N |-> g[n]] /\ f = [n \in 0 .. N |-> f[n]]
        BY <1>4
      <3> HIDE DEF g
      <3> QED
        BY <2>1, <3>1
    <2> QED
      BY <2>2 DEF AddsUp
  <1> DEFINE t == Totals(bills)
  <1>6. AddsUp(t, bills)
    BY <1>5 DEF Totals
  <1> HIDE DEF t
  <1>7. t = [n \in 0 .. N |-> IF n = 0 THEN 0 ELSE t[n - 1] + bills[n].week_hours + bills[n].week_end_hours]
    BY <1>6 DEF AddsUp
  <1>8. t = f
    <2> DEFINE S == {k \in 0 .. N : t[k] = f[k]}
    <2>1. 0 \in S
      BY <1>1, <1>4, <1>7
    <2>2. \A k \in 0 .. N - 1 : k \in S => k + 1 \in S
      <3> SUFFICES ASSUME NEW k \in 0 .. N - 1, k \in S PROVE k + 1 \in S
        OBVIOUS
      <3>1. k + 1 \in 0 .. N /\ k + 1 \in 1 .. N /\ k + 1 # 0 /\ k + 1 - 1 = k /\ t[k] = f[k] /\ k \in 0 .. N /\ f[k] \in Nat
        BY <1>1, <1>4
      <3>2. t[k + 1] = t[k] + bills[k + 1].week_hours + bills[k + 1].week_end_hours
        BY <1>7, <3>1
      <3>3. f[k + 1] = f[k] + BillHours(bills[k + 1])
        <4>1. f[k + 1] = adds[<<k + 1, f[k + 1 - 1]>>]
          BY <1>4, <3>1
        <4> QED
          BY <1>3, <3>1, <4>1
      <3> QED
        BY <1>1, <3>1, <3>2, <3>3 DEF BillHours
    <2>3. \A k \in 0 .. N : k \in S
      <3> HIDE DEF S, N
      <3> QED
        BY <1>1, <2>1, <2>2, UpToInduction
    <2>4. t = [k \in 0 .. N |-> t[k]] /\ f = [k \in 0 .. N |-> f[k]]
      BY <1>4, <1>7
    <2> QED
      BY <2>3, <2>4
  <1>9. Shifts!HoursIn(bills) = t[N]
    BY DEF Shifts!HoursIn, Totals, AddsUp, t
  <1>10. \A n \in 1 .. N : f[n] = f[n - 1] + BillHours(bills[n])
    <2> SUFFICES ASSUME NEW n \in 1 .. N PROVE f[n] = f[n - 1] + BillHours(bills[n])
      OBVIOUS
    <2>1. n - 1 \in 0 .. N
      BY <1>1
    <2>2. f[n - 1] \in Nat
      BY <1>4, <2>1
    <2> QED
      BY <1>3, <1>4, <2>2
  <1> QED
    BY <1>4, <1>8, <1>9, <1>10 DEF t

\* Another bill adds its hours.
LEMMA HoursInAppend ==
    ASSUME NEW bills \in Seq(Bill), NEW b \in Bill
    PROVE  Shifts!HoursIn(bills) \in Nat /\ Shifts!HoursIn(Append(bills, b)) = Shifts!HoursIn(bills) + BillHours(b)
  <1> DEFINE N == Len(bills)
             more == Append(bills, b)
             f == Totals(bills)
             g == Totals(more)
  <1>1. /\ more \in Seq(Bill) /\ Len(more) = N + 1 /\ N \in Nat
        /\ \A n \in 1 .. N : more[n] = bills[n]
        /\ more[N + 1] = b
    BY AppendProperties, LenProperties
  <1>2. /\ f \in [0 .. N -> Nat] /\ f[0] = 0
        /\ \A n \in 1 .. N : f[n] = f[n - 1] + BillHours(bills[n])
        /\ Shifts!HoursIn(bills) = f[N]
    BY TotalsExist
  <1>3. /\ g \in [0 .. N + 1 -> Nat] /\ g[0] = 0
        /\ \A n \in 1 .. N + 1 : g[n] = g[n - 1] + BillHours(more[n])
        /\ Shifts!HoursIn(more) = g[N + 1]
    <2> HIDE DEF more, N
    <2>1. /\ g \in [0 .. Len(more) -> Nat] /\ g[0] = 0
          /\ \A n \in 1 .. Len(more) : g[n] = g[n - 1] + BillHours(more[n])
          /\ Shifts!HoursIn(more) = g[Len(more)]
      BY <1>1, TotalsExist
    <2> QED
      BY <1>1, <2>1
  <1> HIDE DEF f, g, more, N
  <1> DEFINE S == {k \in 0 .. N : g[k] = f[k]}
  <1>4. 0 \in S
    BY <1>1, <1>2, <1>3
  <1>5. ASSUME NEW k \in 0 .. N - 1, k \in S PROVE k + 1 \in S
    <2>1. k + 1 \in 1 .. N /\ k + 1 \in 1 .. N + 1 /\ k + 1 - 1 = k
      BY <1>1
    <2>2. g[k + 1] = g[k] + BillHours(more[k + 1])
      BY <1>3, <2>1
    <2>3. f[k + 1] = f[k] + BillHours(bills[k + 1])
      BY <1>2, <2>1
    <2> QED
      BY <1>1, <1>5, <2>1, <2>2, <2>3
  <1>6. \A k \in 0 .. N : k \in S
    <2> HIDE DEF S
    <2> QED
      BY <1>1, <1>4, <1>5, UpToInduction
  <1>7. g[N] = f[N] /\ f[N] \in Nat /\ g[N + 1] = g[N] + BillHours(b)
    <2>1. N \in 0 .. N /\ N + 1 \in 1 .. N + 1 /\ N + 1 - 1 = N
      BY <1>1
    <2>2. g[N + 1] = g[N] + BillHours(more[N + 1])
      BY <1>3, <2>1
    <2> QED
      BY <1>1, <1>2, <1>6, <2>1, <2>2
  <1> QED
    BY <1>2, <1>3, <1>7 DEF more

LEMMA HoursInNone == Shifts!HoursIn(<<>>) = 0
  <1>1. <<>> \in Seq(Bill) /\ Len(<<>>) = 0
    BY EmptySeq
  <1> QED
    BY <1>1, TotalsExist

\* A sequence is its front and its last element.
LEMMA FrontAndLast ==
    ASSUME NEW S, NEW s \in Seq(S), s # <<>>
    PROVE  /\ Shifts!Front(s) \in Seq(S) /\ Shifts!Last(s) \in S
           /\ Len(s) \in Nat \ {0} /\ Len(Shifts!Front(s)) = Len(s) - 1
           /\ \A i \in 1 .. Len(s) - 1 : Shifts!Front(s)[i] = s[i]
           /\ Shifts!Last(s) = s[Len(s)]
           /\ s = Append(Shifts!Front(s), Shifts!Last(s))
  <1>1. Len(s) \in Nat \ {0} /\ \A i \in 1 .. Len(s) : s[i] \in S
    BY EmptySeq, ElementOfSeq
  <1>2. /\ Shifts!Front(s) \in Seq(S) /\ Len(Shifts!Front(s)) = Len(s) - 1
        /\ \A i \in 1 .. Len(s) - 1 : Shifts!Front(s)[i] = s[i]
    <2>1. \A i \in 1 .. Len(s) - 1 : s[i] \in S
      BY <1>1
    <2>2. /\ SubSeq(s, 1, Len(s) - 1) \in Seq(S)
          /\ Len(SubSeq(s, 1, Len(s) - 1)) = IF 1 <= Len(s) - 1 THEN Len(s) - 1 - 1 + 1 ELSE 0
          /\ \A i \in 1 .. Len(s) - 1 - 1 + 1 : SubSeq(s, 1, Len(s) - 1)[i] = s[1 + i - 1]
      BY <1>1, <2>1, SubSeqProperties
    <2>3. ASSUME NEW i \in 1 .. Len(s) - 1 PROVE SubSeq(s, 1, Len(s) - 1)[i] = s[i]
      <3>1. i \in 1 .. Len(s) - 1 - 1 + 1 /\ 1 + i - 1 = i
        BY <1>1
      <3> QED
        BY <2>2, <3>1
    <2>4. Len(SubSeq(s, 1, Len(s) - 1)) = Len(s) - 1
      <3> DEFINE n == Len(s)
                 m == Len(SubSeq(s, 1, n - 1))
      <3>1. n \in Nat \ {0} /\ m = IF 1 <= n - 1 THEN n - 1 - 1 + 1 ELSE 0
        BY <1>1, <2>2
      <3> HIDE DEF n, m
      <3>2. m = n - 1
        BY <3>1
      <3> QED
        BY <3>2 DEF n, m
    <2> QED
      BY <2>2, <2>3, <2>4 DEF Shifts!Front
  <1>3. Shifts!Last(s) = s[Len(s)] /\ Shifts!Last(s) \in S
    BY <1>1 DEF Shifts!Last
  <1> DEFINE t == Append(Shifts!Front(s), Shifts!Last(s))
  <1>4. /\ t \in Seq(S) /\ Len(t) = Len(s)
        /\ \A i \in 1 .. Len(s) - 1 : t[i] = s[i]
        /\ t[Len(s)] = s[Len(s)]
    <2>1. /\ t \in Seq(S) /\ Len(t) = Len(Shifts!Front(s)) + 1
          /\ \A i \in 1 .. Len(Shifts!Front(s)) : t[i] = Shifts!Front(s)[i]
          /\ t[Len(Shifts!Front(s)) + 1] = Shifts!Last(s)
      BY <1>2, <1>3, AppendProperties
    <2> QED
      BY <1>1, <1>2, <1>3, <2>1
  <1>5. s = t
    <2>1. \A i \in 1 .. Len(s) : s[i] = t[i]
      BY <1>1, <1>4
    <2> HIDE DEF t
    <2> QED
      BY <1>4, <2>1, SeqEqual
  <1> QED
    BY <1>1, <1>2, <1>3, <1>5

-----------------------------------------------------------------------------
(* What bill_shift_monthly does to the bills. *)

LEMMA IndexIsNat == ASSUME NEW b \in Bill PROVE IndexOf(b) \in Nat
  <1>1. b.year \in Nat /\ b.month \in Nat /\ YearMonths \in Nat
    BY MonthsHaveHours DEF Bill
  <1>2. b.year * YearMonths \in Nat
    BY <1>1
  <1> QED
    BY <1>1, <1>2 DEF IndexOf

LEMMA DisjointCardinality ==
    ASSUME NEW S, NEW T, IsFiniteSet(S), IsFiniteSet(T), S \cap T = {}
    PROVE  /\ Cardinality(S \cup T) = Cardinality(S) + Cardinality(T) /\ IsFiniteSet(S \cup T)
           /\ Cardinality(S) \in Nat /\ Cardinality(T) \in Nat
  <1>1. IsFiniteSet(S \cup T) /\ Cardinality(S \cup T) = Cardinality(S) + Cardinality(T) - Cardinality(S \cap T)
    BY FS_Union
  <1>2. Cardinality(S) \in Nat /\ Cardinality(T) \in Nat
    BY FS_CardinalityType
  <1>3. Cardinality(S \cap T) = 0
    BY FS_EmptySet
  <1> DEFINE x == Cardinality(S)
             y == Cardinality(T)
             z == Cardinality(S \cap T)
             u == Cardinality(S \cup T)
  <1>4. u = x + y - z /\ x \in Nat /\ y \in Nat /\ z = 0
    BY <1>1, <1>2, <1>3
  <1> HIDE DEF x, y, z, u
  <1>5. u = x + y
    BY <1>4
  <1> QED
    BY <1>1, <1>2, <1>5 DEF x, y, u

\* The hours of a range are added to a bill.
LEMMA BilledCounts ==
    ASSUME NEW b \in Bill, NEW from \in Nat, NEW to \in Nat
    PROVE  LET c == Shifts!Billed(b, from, to)
               hours == Billable(from, to)
           IN  /\ c \in Bill /\ IndexOf(c) = IndexOf(b)
               /\ IsFiniteSet(hours) /\ hours \subseteq Nat /\ Cardinality(hours) \in Nat
               /\ c.week_end_hours = b.week_end_hours + Cardinality(WeekEnds(hours))
               /\ c.week_hours = b.week_hours + Cardinality(hours \ WeekEnds(hours))
               /\ BillHours(c) = BillHours(b) + Cardinality(hours)
  <1> DEFINE hours == Billable(from, to)
             ends == WeekEnds(hours)
             c == Shifts!Billed(b, from, to)
  <1>1. IsFiniteSet(hours) /\ hours \subseteq Nat
    <2>1. IsFiniteSet(from .. to - 1) /\ hours \in SUBSET (from .. to - 1)
      BY FS_Interval DEF Billable
    <2> QED
      BY <2>1, FS_Subset
  <1>2. ends \subseteq hours
    BY DEF WeekEnds
  <1> HIDE DEF hours, ends
  <1>3. /\ Cardinality(hours) \in Nat /\ Cardinality(ends) \in Nat /\ Cardinality(hours \ ends) \in Nat
        /\ Cardinality(hours) = Cardinality(ends) + Cardinality(hours \ ends)
    <2>1. hours \cap ends = ends /\ IsFiniteSet(ends)
      BY <1>1, <1>2, FS_Subset
    <2>2. IsFiniteSet(hours \ ends) /\ Cardinality(hours \ ends) = Cardinality(hours) - Cardinality(ends)
      BY <1>1, <2>1, FS_Difference
    <2> QED
      BY <1>1, <2>1, <2>2, FS_CardinalityType
  <1>4. c = [b EXCEPT !.week_end_hours = @ + Cardinality(ends), !.week_hours = @ + Cardinality(hours \ ends)]
    BY ShiftsCardinality DEF Shifts!Billed, hours, ends, Billable, WeekEnds
  <1> HIDE DEF c
  <1>5. /\ c \in Bill /\ c.year = b.year /\ c.month = b.month
        /\ c.week_end_hours = b.week_end_hours + Cardinality(ends)
        /\ c.week_hours = b.week_hours + Cardinality(hours \ ends)
    <2> DEFINE x == Cardinality(ends)
               y == Cardinality(hours \ ends)
    <2>1. x \in Nat /\ y \in Nat /\ c = [b EXCEPT !.week_end_hours = @ + x, !.week_hours = @ + y]
      BY <1>3, <1>4
    <2> HIDE DEF x, y
    <2>2. /\ c.year = b.year /\ c.month = b.month
          /\ c.week_end_hours = b.week_end_hours + x /\ c.week_hours = b.week_hours + y
      BY <2>1 DEF Bill
    <2>3. c \in Bill
      <3>1. b.week_end_hours + x \in Nat /\ b.week_hours + y \in Nat
        BY <2>1 DEF Bill
      <3> QED
        BY <2>1, <3>1 DEF Bill
    <2> QED
      BY <2>2, <2>3 DEF x, y
  <1>6. b.week_end_hours \in Nat /\ b.week_hours \in Nat
    BY DEF Bill
  <1> QED
    BY <1>1, <1>3, <1>5, <1>6 DEF IndexOf, BillHours, c, hours, ends

\* Adding the hours of a range to the last bill, when they are of its month and
\* after all others.
LEMMA LastBillGrows ==
    ASSUME NEW bills \in Seq(Bill), bills # <<>>, NEW from \in Nat, NEW to \in Nat
    PROVE  LET more == Append(Shifts!Front(bills), Shifts!Billed(Shifts!Last(bills), from, to)) IN
           /\ more \in Seq(Bill) /\ more # <<>> /\ IndexOf(Shifts!Last(more)) = IndexOf(Shifts!Last(bills))
           /\ Shifts!HoursIn(more) = Shifts!HoursIn(bills) + Cardinality(Billable(from, to))
           /\ Shifts!HoursIn(bills) \in Nat
           /\ \A hours : /\ IsFiniteSet(hours) /\ BillsFor(bills, hours)
                         /\ hours \cap Billable(from, to) = {}
                         /\ \A t \in Billable(from, to) : Index(t) = IndexOf(Shifts!Last(bills))
                         => BillsFor(more, hours \cup Billable(from, to))
  <1> DEFINE b == Shifts!Last(bills)
             c == Shifts!Billed(b, from, to)
             front == Shifts!Front(bills)
             more == Append(front, c)
             N == Len(bills)
             new == Billable(from, to)
  <1>1. /\ front \in Seq(Bill) /\ b \in Bill /\ N \in Nat \ {0} /\ Len(front) = N - 1
        /\ \A i \in 1 .. N - 1 : front[i] = bills[i]
        /\ b = bills[N] /\ bills = Append(front, b)
    BY FrontAndLast
  <1>2. /\ c \in Bill /\ IndexOf(c) = IndexOf(b)
        /\ IsFiniteSet(new) /\ new \subseteq Nat /\ Cardinality(new) \in Nat
        /\ c.week_end_hours = b.week_end_hours + Cardinality(WeekEnds(new))
        /\ c.week_hours = b.week_hours + Cardinality(new \ WeekEnds(new))
        /\ BillHours(c) = BillHours(b) + Cardinality(new)
    BY <1>1, BilledCounts
  <1> HIDE DEF c, front, N, new, b
  <1>3. /\ more \in Seq(Bill) /\ more # <<>> /\ Len(more) = N
        /\ \A i \in 1 .. N - 1 : more[i] = bills[i]
        /\ more[N] = c
    <2>1. /\ more \in Seq(Bill) /\ more # <<>> /\ Len(more) = Len(front) + 1
          /\ \A i \in 1 .. Len(front) : more[i] = front[i]
          /\ more[Len(front) + 1] = c
      BY <1>1, <1>2, AppendProperties
    <2> QED
      BY <1>1, <2>1
  <1>4. Shifts!Last(more) = c
    BY <1>3 DEF Shifts!Last
  <1>5. /\ Shifts!HoursIn(more) = Shifts!HoursIn(bills) + Cardinality(new)
        /\ Shifts!HoursIn(bills) \in Nat
    <2>1. Shifts!HoursIn(front) \in Nat
      BY <1>1, HoursInAppend
    <2>2. Shifts!HoursIn(more) = Shifts!HoursIn(front) + BillHours(c)
      BY <1>1, <1>2, HoursInAppend
    <2>3. Shifts!HoursIn(bills) = Shifts!HoursIn(front) + BillHours(b)
      BY <1>1, HoursInAppend
    <2>4. BillHours(b) \in Nat
      BY <1>1 DEF Bill, BillHours
    <2> QED
      BY <1>2, <2>1, <2>2, <2>3, <2>4
  <1> HIDE DEF more
  <1>6. ASSUME NEW hours, IsFiniteSet(hours), BillsFor(bills, hours), hours \cap new = {},
               \A t \in new : Index(t) = IndexOf(b)
        PROVE  BillsFor(more, hours \cup new)
    <2>1. DOMAIN more = 1 .. N /\ DOMAIN bills = 1 .. N
      BY <1>1, <1>3, LenProperties DEF N
    <2>2. \A i \in 1 .. N : IndexOf(more[i]) = IndexOf(bills[i])
      BY <1>1, <1>2, <1>3
    <2>3. \A i, j \in 1 .. N : i < j => IndexOf(bills[i]) < IndexOf(bills[j])
      BY <1>6, <2>1 DEF BillsFor
    <2>4. \A i, j \in 1 .. N : i < j => IndexOf(more[i]) < IndexOf(more[j])
      BY <2>2, <2>3
    <2>5. ASSUME NEW t \in hours \cup new PROVE \E i \in 1 .. N : IndexOf(more[i]) = Index(t)
      <3>1. CASE t \in hours
        <4>1. PICK i \in 1 .. N : IndexOf(bills[i]) = Index(t)
          BY <1>6, <2>1, <3>1 DEF BillsFor
        <4> QED
          BY <2>2, <4>1
      <3>2. CASE t \in new
        <4>1. N \in 1 .. N /\ Index(t) = IndexOf(bills[N])
          BY <1>1, <1>6, <3>2
        <4> QED
          BY <2>2, <4>1
      <3> QED
        BY <3>1, <3>2
    <2>6. ASSUME NEW i \in 1 .. N PROVE Counts(more[i], OwnHours(more[i], hours \cup new))
      <3>1. Counts(bills[i], OwnHours(bills[i], hours))
        BY <1>6, <2>1 DEF BillsFor
      <3>2. CASE i # N
        <4>1. i \in 1 .. N - 1 /\ N \in 1 .. N /\ i < N
          BY <1>1, <3>2
        <4>2. IndexOf(bills[i]) # IndexOf(b)
          <5>1. IndexOf(bills[i]) < IndexOf(bills[N]) /\ bills[i] \in Bill
            BY <2>3, <4>1, ElementOfSeq DEF N
          <5>2. IndexOf(bills[i]) \in Nat /\ IndexOf(bills[N]) \in Nat
            BY <1>1, <5>1, IndexIsNat
          <5> QED
            BY <1>1, <5>1, <5>2
        <4>3. OwnHours(bills[i], hours \cup new) = OwnHours(bills[i], hours)
          BY <1>6, <4>2 DEF OwnHours
        <4> QED
          BY <1>3, <3>1, <4>1, <4>3
      <3>3. CASE i = N
        <4> DEFINE own == OwnHours(b, hours)
                   all == OwnHours(c, hours \cup new)
        <4>1. all = own \cup new /\ own \cap new = {} /\ IsFiniteSet(own)
          <5>1. own \in SUBSET hours
            BY DEF OwnHours
          <5>2. IsFiniteSet(own)
            BY <1>6, <5>1, FS_Subset
          <5> QED
            BY <1>2, <1>6, <5>1, <5>2 DEF OwnHours
        <4>2. b.week_end_hours = Cardinality(WeekEnds(own)) /\ b.week_hours = Cardinality(own \ WeekEnds(own))
          BY <1>1, <3>1, <3>3 DEF Counts
        <4> HIDE DEF own, all
        <4>3. WeekEnds(all) = WeekEnds(own) \cup WeekEnds(new) /\ WeekEnds(own) \cap WeekEnds(new) = {}
          BY <4>1 DEF WeekEnds
        <4>4. /\ all \ WeekEnds(all) = (own \ WeekEnds(own)) \cup (new \ WeekEnds(new))
              /\ (own \ WeekEnds(own)) \cap (new \ WeekEnds(new)) = {}
          BY <4>1 DEF WeekEnds
        <4>5. /\ WeekEnds(own) \in SUBSET own /\ WeekEnds(new) \in SUBSET new
              /\ own \ WeekEnds(own) \in SUBSET own /\ new \ WeekEnds(new) \in SUBSET new
          BY DEF WeekEnds
        <4>6. /\ IsFiniteSet(WeekEnds(own)) /\ IsFiniteSet(WeekEnds(new))
              /\ IsFiniteSet(own \ WeekEnds(own)) /\ IsFiniteSet(new \ WeekEnds(new))
          BY <1>2, <4>1, <4>5, FS_Subset
        <4>7. Cardinality(WeekEnds(all)) = Cardinality(WeekEnds(own)) + Cardinality(WeekEnds(new))
          BY <4>3, <4>6, DisjointCardinality
        <4>8. Cardinality(all \ WeekEnds(all)) = Cardinality(own \ WeekEnds(own)) + Cardinality(new \ WeekEnds(new))
          BY <4>4, <4>6, DisjointCardinality
        <4>9. Counts(c, all)
          BY <1>2, <4>2, <4>7, <4>8 DEF Counts
        <4> QED
          BY <1>3, <3>3, <4>9 DEF all
      <3> QED
        BY <3>2, <3>3
    <2> QED
      BY <2>1, <2>4, <2>5, <2>6 DEF BillsFor
  <1> QED
    BY <1>2, <1>3, <1>4, <1>5, <1>6 DEF more, c, b, front, new

\* A new bill has no hours yet.
LEMMA NewBillAdded ==
    ASSUME NEW bills \in Seq(Bill), NEW t \in Nat
    PROVE  LET b == Shifts!NewBill(t)
               more == Append(bills, b)
           IN  /\ b \in Bill /\ IndexOf(b) = Index(t) /\ b.week_hours = 0 /\ b.week_end_hours = 0
               /\ more \in Seq(Bill) /\ more # <<>> /\ IndexOf(Shifts!Last(more)) = Index(t)
               /\ Len(bills) \in Nat /\ DOMAIN bills = 1 .. Len(bills)
               /\ Len(more) = Len(bills) + 1 /\ DOMAIN more = 1 .. Len(bills) + 1
               /\ \A i \in 1 .. Len(bills) : more[i] = bills[i]
               /\ more[Len(bills) + 1] = b
               /\ Shifts!HoursIn(more) = Shifts!HoursIn(bills)
  <1> DEFINE b == Shifts!NewBill(t)
             more == Append(bills, b)
             N == Len(bills)
  <1>1. b \in Bill /\ IndexOf(b) = Index(t) /\ b.week_hours = 0 /\ b.week_end_hours = 0
    <2>1. /\ Shifts!MonthOf(t) \in 0 .. YearMonths - 1 /\ Shifts!YearOf(t) \in Nat
          /\ Index(t) = Shifts!YearOf(t) * YearMonths + Shifts!MonthOf(t)
      BY IndexIsOfMonth
    <2> QED
      BY <2>1 DEF Shifts!NewBill, Bill, IndexOf
  <1> HIDE DEF b
  <1>2. N \in Nat /\ DOMAIN bills = 1 .. N
    BY LenProperties
  <1>3. /\ more \in Seq(Bill) /\ more # <<>> /\ Len(more) = N + 1 /\ DOMAIN more = 1 .. N + 1
        /\ \A i \in 1 .. N : more[i] = bills[i]
        /\ more[N + 1] = b
    <2>1. /\ more \in Seq(Bill) /\ more # <<>> /\ Len(more) = N + 1
          /\ \A i \in 1 .. N : more[i] = bills[i]
          /\ more[N + 1] = b
      BY <1>1, AppendProperties
    <2>2. DOMAIN more = 1 .. Len(more)
      BY <2>1, LenProperties
    <2> QED
      BY <2>1, <2>2
  <1>4. IndexOf(Shifts!Last(more)) = Index(t)
    BY <1>1, <1>3 DEF Shifts!Last
  <1>5. Shifts!HoursIn(more) = Shifts!HoursIn(bills)
    <2>1. Shifts!HoursIn(bills) \in Nat /\ Shifts!HoursIn(more) = Shifts!HoursIn(bills) + BillHours(b)
      BY <1>1, HoursInAppend
    <2> QED
      BY <1>1, <2>1 DEF BillHours
  <1> QED
    BY <1>1, <1>2, <1>3, <1>4, <1>5 DEF b, N

\* The bill of a later month leaves the bills right.
LEMMA BillIsAdded ==
    ASSUME NEW bills \in Seq(Bill), NEW t \in Nat,
           bills # <<>> => IndexOf(Shifts!Last(bills)) < Index(t)
    PROVE  LET more == Append(bills, Shifts!NewBill(t)) IN
           /\ more \in Seq(Bill) /\ more # <<>> /\ IndexOf(Shifts!Last(more)) = Index(t)
           /\ Shifts!HoursIn(more) = Shifts!HoursIn(bills)
           /\ \A hours : BillsFor(bills, hours) => BillsFor(more, hours)
  <1> DEFINE b == Shifts!NewBill(t)
             more == Append(bills, b)
             N == Len(bills)
  <1>1. b \in Bill /\ IndexOf(b) = Index(t) /\ b.week_hours = 0 /\ b.week_end_hours = 0
    BY NewBillAdded
  <1>2. N \in Nat /\ DOMAIN bills = 1 .. N
    BY NewBillAdded
  <1>3. /\ more \in Seq(Bill) /\ more # <<>> /\ Len(more) = N + 1 /\ DOMAIN more = 1 .. N + 1
        /\ \A i \in 1 .. N : more[i] = bills[i]
        /\ more[N + 1] = b
    BY NewBillAdded
  <1>4. IndexOf(Shifts!Last(more)) = Index(t) /\ Shifts!HoursIn(more) = Shifts!HoursIn(bills)
    BY NewBillAdded
  <1>6. N # 0 => bills # <<>> /\ Shifts!Last(bills) = bills[N]
    BY EmptySeq DEF Shifts!Last
  <1> HIDE DEF more, N, b
  <1>7. ASSUME NEW hours, BillsFor(bills, hours) PROVE BillsFor(more, hours)
    <2>1. ASSUME NEW i \in 1 .. N PROVE IndexOf(bills[i]) \in Nat /\ IndexOf(bills[i]) < Index(t)
      <3>1. \A k \in 1 .. N : IndexOf(bills[k]) \in Nat
        BY ElementOfSeq, IndexIsNat DEF N
      <3>2. N # 0 /\ N \in 1 .. N /\ i <= N
        BY <1>2
      <3>3. IndexOf(bills[N]) < Index(t) /\ Index(t) \in Nat
        BY <1>6, <3>2, IndexIsOfMonth
      <3>4. i < N => IndexOf(bills[i]) < IndexOf(bills[N])
        BY <1>2, <1>7, <3>2 DEF BillsFor
      <3> QED
        BY <3>1, <3>2, <3>3, <3>4
    <2>2. \A i, j \in 1 .. N + 1 : i < j => IndexOf(more[i]) < IndexOf(more[j])
      <3> SUFFICES ASSUME NEW i \in 1 .. N + 1, NEW j \in 1 .. N + 1, i < j
                   PROVE  IndexOf(more[i]) < IndexOf(more[j])
        OBVIOUS
      <3>1. i \in 1 .. N
        BY <1>2
      <3>2. CASE j = N + 1
        BY <1>1, <1>3, <2>1, <3>1, <3>2
      <3>3. CASE j # N + 1
        <4>1. j \in 1 .. N
          BY <1>2, <3>3
        <4> QED
          BY <1>2, <1>3, <1>7, <3>1, <4>1 DEF BillsFor
      <3> QED
        BY <3>2, <3>3
    <2>3. ASSUME NEW h \in hours PROVE \E i \in 1 .. N + 1 : IndexOf(more[i]) = Index(h)
      <3>1. PICK i \in 1 .. N : IndexOf(bills[i]) = Index(h)
        BY <1>2, <1>7 DEF BillsFor
      <3>2. i \in 1 .. N + 1
        BY <1>2
      <3> QED
        BY <1>3, <3>1, <3>2
    <2>4. ASSUME NEW i \in 1 .. N + 1 PROVE Counts(more[i], OwnHours(more[i], hours))
      <3>1. CASE i \in 1 .. N
        BY <1>2, <1>3, <1>7, <3>1 DEF BillsFor
      <3>2. CASE i = N + 1
        <4>1. OwnHours(b, hours) = {}
          <5> SUFFICES ASSUME NEW h \in hours, Index(h) = Index(t) PROVE FALSE
            BY <1>1 DEF OwnHours
          <5>1. PICK k \in 1 .. N : IndexOf(bills[k]) = Index(h)
            BY <1>2, <1>7 DEF BillsFor
          <5>2. IndexOf(bills[k]) \in Nat /\ IndexOf(bills[k]) < Index(t)
            BY <2>1
          <5> QED
            BY <5>1, <5>2
        <4>2. WeekEnds({}) = {} /\ {} \ {} = {}
          BY DEF WeekEnds
        <4>3. Counts(b, {})
          BY <1>1, <4>2, FS_EmptySet DEF Counts
        <4> QED
          BY <1>3, <3>2, <4>1, <4>3
      <3>3. i \in 1 .. N \/ i = N + 1
        BY <1>2
      <3> QED
        BY <3>1, <3>2, <3>3
    <2> QED
      BY <1>3, <2>2, <2>3, <2>4 DEF BillsFor
  <1> QED
    BY <1>3, <1>4, <1>7 DEF more, b

-----------------------------------------------------------------------------
(* A shift. *)

LEMMA CoveredWithShift ==
    ASSUME shifts \in Seq(Nat \X Nat), NEW start \in Nat, NEW end \in Nat,
           shifts' = Append(shifts, <<start, end>>)
    PROVE  /\ shifts' \in Seq(Nat \X Nat) /\ shifts' # <<>> /\ Shifts!Last(shifts)' = <<start, end>>
           /\ Shifts!Covered' = Shifts!Covered \cup start .. end - 1
           /\ Shifts!Outside' = Shifts!Outside \cup Billable(start, end)
           /\ \A i \in DOMAIN shifts : i \in DOMAIN shifts' /\ shifts'[i] = shifts[i]
           /\ Len(shifts') \in DOMAIN shifts' /\ shifts'[Len(shifts')] = <<start, end>>
  <1> DEFINE N == Len(shifts)
             w == <<start, end>>
  <1>1. w \in Nat \X Nat /\ w[1] = start /\ w[2] = end
    OBVIOUS
  <1> HIDE DEF w
  <1>2. /\ shifts' \in Seq(Nat \X Nat) /\ shifts' # <<>> /\ Len(shifts') = N + 1 /\ DOMAIN shifts' = 1 .. N + 1
        /\ \A i \in 1 .. N : shifts'[i] = shifts[i]
        /\ shifts'[N + 1] = w
        /\ N \in Nat /\ DOMAIN shifts = 1 .. N
    <2>1. /\ shifts' \in Seq(Nat \X Nat) /\ shifts' # <<>> /\ Len(shifts') = N + 1
          /\ \A i \in 1 .. N : shifts'[i] = shifts[i]
          /\ shifts'[N + 1] = w
      BY <1>1, AppendProperties DEF w
    <2>2. DOMAIN shifts' = 1 .. Len(shifts') /\ N \in Nat /\ DOMAIN shifts = 1 .. N
      BY <2>1, LenProperties
    <2> QED
      BY <2>1, <2>2
  <1> HIDE DEF N
  <1>3. 1 .. N + 1 = 1 .. N \cup {N + 1}
    BY <1>2
  <1>4. Shifts!Covered' = Shifts!Covered \cup start .. end - 1
    <2>1. Shifts!Covered = UNION {shifts[i][1] .. shifts[i][2] - 1 : i \in 1 .. N}
      BY <1>2 DEF Shifts!Covered
    <2>2. Shifts!Covered' = UNION {shifts'[i][1] .. shifts'[i][2] - 1 : i \in 1 .. N + 1}
      BY <1>2 DEF Shifts!Covered
    <2>3. ASSUME NEW t
          PROVE  t \in Shifts!Covered' <=> t \in Shifts!Covered \cup start .. end - 1
      <3>1. t \in Shifts!Covered' <=> \E i \in 1 .. N + 1 : t \in shifts'[i][1] .. shifts'[i][2] - 1
        BY <2>2
      <3>2. t \in Shifts!Covered <=> \E i \in 1 .. N : t \in shifts[i][1] .. shifts[i][2] - 1
        BY <2>1
      <3>3. t \in start .. end - 1 <=> t \in shifts'[N + 1][1] .. shifts'[N + 1][2] - 1
        BY <1>1, <1>2
      <3>4. \A i \in 1 .. N : t \in shifts'[i][1] .. shifts'[i][2] - 1 <=> t \in shifts[i][1] .. shifts[i][2] - 1
        BY <1>2
      <3> QED
        BY <1>3, <3>1, <3>2, <3>3, <3>4
    <2> QED
      BY <2>3
  <1>5. Shifts!Outside' = Shifts!Outside \cup Billable(start, end)
    BY <1>4 DEF Shifts!Outside, Billable
  <1>6. Shifts!Last(shifts)' = w
    BY <1>2 DEF Shifts!Last
  <1> QED
    BY <1>2, <1>3, <1>4, <1>5, <1>6 DEF w

LEMMA EndOfFirst ==
    ASSUME NEW start \in Nat, NEW end \in Nat, start < end
    PROVE  LET mid == Shifts!FirstEnd(start, end)
               next == Shifts!get_start_of_next_month(start)
           IN  mid \in Nat /\ start < mid /\ mid <= end /\ mid <= next /\ (mid = end \/ mid = next)
  <1> DEFINE next == Shifts!get_start_of_next_month(start)
             mid == Shifts!FirstEnd(start, end)
  <1>1. next \in Nat /\ start < next
    BY NextMonthStarts
  <1>2. mid = CHOOSE x \in {end, next} : \A y \in {end, next} : x <= y
    BY DEF Shifts!FirstEnd, Shifts!Min
  <1> HIDE DEF next, mid
  <1>3. \E x \in {end, next} : \A y \in {end, next} : x <= y
    BY <1>1
  <1>4. mid \in {end, next} /\ \A y \in {end, next} : mid <= y
    BY <1>2, <1>3
  <1> QED
    BY <1>1, <1>4 DEF next, mid

\* The ranges before and after an hour.
LEMMA BillableSplits ==
    ASSUME NEW from \in Nat, NEW mid \in Nat, NEW to \in Nat, from <= mid, mid <= to
    PROVE  /\ Billable(from, to) = Billable(from, mid) \cup Billable(mid, to)
           /\ Billable(from, mid) \cap Billable(mid, to) = {}
  <1>1. from .. to - 1 = (from .. mid - 1) \cup (mid .. to - 1)
    OBVIOUS
  <1>2. (from .. mid - 1) \cap (mid .. to - 1) = {}
    OBVIOUS
  <1> QED
    BY <1>1, <1>2 DEF Billable

\* The bills when the one for the start of the shift is the last of them.
LEMMA UpsertedFor ==
    ASSUME OnCallInv, NEW start \in Nat, shifts # <<>> => Shifts!Last(shifts)[2] <= start
    PROVE  LET bills == Shifts!Upserted(start) IN
           /\ bills \in Seq(Bill) /\ bills # <<>>
           /\ Shifts!HoursIn(bills) = Shifts!HoursIn(monthly_bills)
           /\ (\A i \in DOMAIN shifts : Shifts!IsOrdinary(shifts[i]))
              => BillsFor(bills, Shifts!Outside) /\ IndexOf(Shifts!Last(bills)) = Index(start)
  <1> DEFINE bills == Shifts!Upserted(start)
             lastBill == Shifts!Last(monthly_bills)
             ordinary == \A i \in DOMAIN shifts : Shifts!IsOrdinary(shifts[i])
  <1>1. monthly_bills \in Seq(Bill) /\ shifts \in Seq(Nat \X Nat)
    BY DEF OnCallInv
  <1>2. monthly_bills # <<>> => lastBill \in Bill
    BY <1>1, FrontAndLast
  <1>3. ordinary => /\ BillsFor(monthly_bills, Shifts!Outside)
                    /\ monthly_bills # <<>> => IndexOf(lastBill) <= Index(start) /\ IndexOf(lastBill) \in Nat
    <2> SUFFICES ASSUME ordinary PROVE /\ BillsFor(monthly_bills, Shifts!Outside)
                                       /\ monthly_bills # <<>> => IndexOf(lastBill) <= Index(start) /\ IndexOf(lastBill) \in Nat
      OBVIOUS
    <2>1. /\ BillsFor(monthly_bills, Shifts!Outside)
          /\ monthly_bills = <<>> <=> shifts = <<>>
          /\ shifts # <<>> => IndexOf(lastBill) = Index(Shifts!Last(shifts)[2])
      BY DEF OnCallInv, BillsSoFar
    <2>2. ASSUME monthly_bills # <<>> PROVE IndexOf(lastBill) <= Index(start) /\ IndexOf(lastBill) \in Nat
      <3>1. shifts # <<>> /\ Shifts!Last(shifts) \in Nat \X Nat
        BY <1>1, <2>1, <2>2, FrontAndLast
      <3> DEFINE e == Shifts!Last(shifts)[2]
      <3>2. e \in Nat /\ e <= start /\ IndexOf(lastBill) = Index(e)
        BY <2>1, <3>1
      <3> HIDE DEF e
      <3> QED
        BY <1>2, <2>2, <3>2, IndexGrows, IndexIsNat
    <2> QED
      BY <2>1, <2>2
  <1>4. CASE monthly_bills # <<>> /\ Shifts!IsBillOf(lastBill, start)
    <2>1. bills = monthly_bills
      BY <1>4 DEF Shifts!Upserted
    <2>2. IndexOf(lastBill) = Index(start)
      BY <1>4, IndexIsOfMonth DEF Shifts!IsBillOf, IndexOf
    <2> HIDE DEF bills, lastBill
    <2> QED
      BY <1>1, <1>3, <1>4, <2>1, <2>2 DEF bills, lastBill
  <1>5. CASE ~(monthly_bills # <<>> /\ Shifts!IsBillOf(lastBill, start))
    <2>1. bills = Append(monthly_bills, Shifts!NewBill(start))
      BY <1>5 DEF Shifts!Upserted
    <2> HIDE DEF bills
    <2>2. monthly_bills # <<>> => IndexOf(lastBill) # Index(start)
      <3> SUFFICES ASSUME monthly_bills # <<>>, IndexOf(lastBill) = Index(start) PROVE Shifts!IsBillOf(lastBill, start)
        BY <1>5
      <3>1. lastBill.month \in 0 .. YearMonths - 1 /\ lastBill.year \in Nat
        BY <1>2 DEF Bill
      <3>2. /\ Shifts!MonthOf(start) \in 0 .. YearMonths - 1 /\ Shifts!YearOf(start) \in Nat
            /\ lastBill.year * YearMonths + lastBill.month = Shifts!YearOf(start) * YearMonths + Shifts!MonthOf(start)
        BY IndexIsOfMonth DEF IndexOf
      <3> QED
        BY <3>1, <3>2, IndexIsUnique DEF Shifts!IsBillOf
    <2>3. CASE ordinary
      <3>1. monthly_bills # <<>> => IndexOf(lastBill) < Index(start)
        BY <1>3, <2>2, <2>3, IndexIsOfMonth
      <3> QED
        BY <1>1, <1>3, <2>1, <2>3, <3>1, BillIsAdded DEF bills
    <2>4. CASE ~ordinary
      BY <1>1, <2>1, <2>4, NewBillAdded DEF bills
    <2> QED
      BY <2>3, <2>4
  <1> QED
    BY <1>4, <1>5

LEMMA FrontOfAppend ==
    ASSUME NEW S, NEW s \in Seq(S), NEW x \in S
    PROVE  Shifts!Front(Append(s, x)) = s /\ Shifts!Last(Append(s, x)) = x
  <1> DEFINE t == Append(s, x)
  <1>1. t \in Seq(S) /\ t # <<>> /\ Len(t) = Len(s) + 1 /\ Len(s) \in Nat /\ t[Len(s) + 1] = x
    BY AppendProperties, LenProperties
  <1> HIDE DEF t
  <1>2. /\ Shifts!Front(t) \in Seq(S) /\ Shifts!Last(t) = x
        /\ t = Append(Shifts!Front(t), Shifts!Last(t))
    BY <1>1, FrontAndLast DEF t
  <1>3. Append(Shifts!Front(t), x) = Append(s, x)
    BY <1>2 DEF t
  <1>4. Shifts!Front(t) = s
    BY <1>2, <1>3, AppendInjective
  <1> QED
    BY <1>2, <1>4 DEF t

\* The hours up to the end of the month, and the bill that has them.
First(start, end) ==
    LET bills == Shifts!Upserted(start)
    IN  Append(Shifts!Front(bills), Shifts!Billed(Shifts!Last(bills), start, Shifts!FirstEnd(start, end)))
\* The bill with those after them.
Second(start, end) ==
    Append(First(start, end), Shifts!Billed(Shifts!NewBill(end), Shifts!FirstEnd(start, end), end))

\* The new hours come after all others.
LEMMA HoursAreNew ==
    ASSUME OnCallInv, NEW start \in Nat, NEW end \in Nat, start < end,
           shifts # <<>> => Shifts!Last(shifts)[2] <= start
    PROVE  /\ Shifts!Outside \cap Billable(start, end) = {}
           /\ IsFiniteSet(Shifts!Outside) /\ Shifts!Outside \subseteq Nat
  <1>1. /\ IsFiniteSet(Shifts!Covered) /\ Shifts!Covered \subseteq Nat
        /\ \A t \in Shifts!Covered : shifts # <<>> /\ t < Shifts!Last(shifts)[2]
        /\ shifts \in Seq(Nat \X Nat)
    BY DEF OnCallInv
  <1>2. Shifts!Outside \in SUBSET Shifts!Covered
    BY DEF Shifts!Outside
  <1>3. ASSUME NEW t \in Shifts!Covered PROVE t \notin start .. end - 1
    <2>1. Shifts!Last(shifts) \in Nat \X Nat
      BY <1>1, FrontAndLast
    <2> DEFINE e == Shifts!Last(shifts)[2]
    <2>2. e \in Nat /\ t < e /\ e <= start /\ t \in Nat
      BY <1>1, <2>1
    <2> HIDE DEF e
    <2> QED
      BY <2>2
  <1> QED
    BY <1>1, <1>2, <1>3, FS_Subset DEF Billable

LEMMA FirstHolds ==
    ASSUME OnCallInv, NEW start \in Nat, NEW end \in Nat, start < end,
           shifts # <<>> => Shifts!Last(shifts)[2] <= start
    PROVE  LET first == First(start, end)
               mid == Shifts!FirstEnd(start, end)
           IN  /\ first \in Seq(Bill) /\ first # <<>>
               /\ Shifts!HoursIn(first) = Shifts!HoursIn(monthly_bills) + Cardinality(Billable(start, mid))
               /\ (\A i \in DOMAIN shifts : Shifts!IsOrdinary(shifts[i]))
                  => /\ BillsFor(first, Shifts!Outside \cup Billable(start, mid))
                     /\ IndexOf(Shifts!Last(first)) = Index(start)
  <1> DEFINE bills == Shifts!Upserted(start)
             mid == Shifts!FirstEnd(start, end)
             first == First(start, end)
             ordinary == \A i \in DOMAIN shifts : Shifts!IsOrdinary(shifts[i])
             hours == Shifts!Outside
  <1>1. /\ bills \in Seq(Bill) /\ bills # <<>>
        /\ Shifts!HoursIn(bills) = Shifts!HoursIn(monthly_bills)
        /\ ordinary => BillsFor(bills, hours) /\ IndexOf(Shifts!Last(bills)) = Index(start)
    BY UpsertedFor
  <1>2. /\ mid \in Nat /\ start < mid /\ mid <= end /\ mid <= Shifts!get_start_of_next_month(start)
        /\ Shifts!get_start_of_next_month(start) = (Index(start) + 1) * Shifts!MonthHours
        /\ Shifts!get_start_of_next_month(start) \in Nat
        /\ Index(start) \in Nat
    BY EndOfFirst, NextMonthStarts, IndexIsOfMonth
  <1>3. hours \cap Billable(start, mid) = {} /\ IsFiniteSet(hours)
    BY <1>2, HoursAreNew, BillableSplits
  <1>4. ASSUME NEW t \in Billable(start, mid) PROVE Index(t) = Index(start)
    <2>1. t \in Nat /\ start <= t /\ t < (Index(start) + 1) * Shifts!MonthHours
      BY <1>2 DEF Billable
    <2>2. Index(t) <= Index(start) /\ Index(start) <= Index(t) /\ Index(t) \in Nat
      BY <1>2, <2>1, BeforeEndOfMonth, IndexGrows, IndexIsOfMonth
    <2> QED
      BY <1>2, <2>2
  <1>5. first = Append(Shifts!Front(bills), Shifts!Billed(Shifts!Last(bills), start, mid))
    BY DEF First
  <1> HIDE DEF bills, mid, first, hours, ordinary
  <1>6. /\ first \in Seq(Bill) /\ first # <<>> /\ IndexOf(Shifts!Last(first)) = IndexOf(Shifts!Last(bills))
        /\ Shifts!HoursIn(first) = Shifts!HoursIn(bills) + Cardinality(Billable(start, mid))
        /\ \A h : /\ IsFiniteSet(h) /\ BillsFor(bills, h)
                  /\ h \cap Billable(start, mid) = {}
                  /\ \A t \in Billable(start, mid) : Index(t) = IndexOf(Shifts!Last(bills))
                  => BillsFor(first, h \cup Billable(start, mid))
    BY <1>1, <1>2, <1>5, LastBillGrows
  <1>7. ordinary => BillsFor(first, hours \cup Billable(start, mid))
    BY <1>1, <1>3, <1>4, <1>6
  <1> QED
    BY <1>1, <1>6, <1>7 DEF first, mid, hours, ordinary

LEMMA SecondHolds ==
    ASSUME OnCallInv, NEW start \in Nat, NEW end \in Nat, start < end,
           shifts # <<>> => Shifts!Last(shifts)[2] <= start
    PROVE  LET second == Second(start, end)
               mid == Shifts!FirstEnd(start, end)
           IN  /\ second \in Seq(Bill) /\ second # <<>>
               /\ Shifts!HoursIn(second) = Shifts!HoursIn(First(start, end)) + Cardinality(Billable(mid, end))
               /\ Index(end) = Index(start) + 1 /\ (\A i \in DOMAIN shifts : Shifts!IsOrdinary(shifts[i]))
                  => /\ BillsFor(second, Shifts!Outside \cup Billable(start, end))
                     /\ IndexOf(Shifts!Last(second)) = Index(end)
  <1> DEFINE first == First(start, end)
             second == Second(start, end)
             mid == Shifts!FirstEnd(start, end)
             next == Shifts!get_start_of_next_month(start)
             b == Shifts!NewBill(end)
             bills == Append(first, b)
             ordinary == \A i \in DOMAIN shifts : Shifts!IsOrdinary(shifts[i])
             hours == Shifts!Outside \cup Billable(start, mid)
  <1>1. /\ first \in Seq(Bill) /\ first # <<>>
        /\ ordinary => BillsFor(first, hours) /\ IndexOf(Shifts!Last(first)) = Index(start)
    BY FirstHolds
  <1>2. /\ mid \in Nat /\ start < mid /\ mid <= end /\ mid <= next /\ (mid = end \/ mid = next)
        /\ next = (Index(start) + 1) * Shifts!MonthHours /\ next \in Nat
        /\ Index(start) \in Nat /\ Index(end) \in Nat
    BY EndOfFirst, NextMonthStarts, IndexIsOfMonth
  <1>3. second = Append(first, Shifts!Billed(b, mid, end))
    BY DEF Second
  <1> HIDE DEF first, second, mid, next
  <1>4. /\ bills \in Seq(Bill) /\ bills # <<>> /\ b \in Bill /\ IndexOf(b) = Index(end)
        /\ Shifts!HoursIn(bills) = Shifts!HoursIn(first)
    BY <1>1, NewBillAdded
  <1>5. Shifts!Front(bills) = first /\ Shifts!Last(bills) = b
    BY <1>1, <1>4, FrontOfAppend
  <1> HIDE DEF b, bills
  <1>6. /\ second \in Seq(Bill) /\ second # <<>> /\ IndexOf(Shifts!Last(second)) = Index(end)
        /\ Shifts!HoursIn(second) = Shifts!HoursIn(bills) + Cardinality(Billable(mid, end))
        /\ \A h : /\ IsFiniteSet(h) /\ BillsFor(bills, h)
                  /\ h \cap Billable(mid, end) = {}
                  /\ \A t \in Billable(mid, end) : Index(t) = IndexOf(Shifts!Last(bills))
                  => BillsFor(second, h \cup Billable(mid, end))
    <2> DEFINE more == Append(Shifts!Front(bills), Shifts!Billed(Shifts!Last(bills), mid, end))
    <2>1. second = more
      BY <1>3, <1>5
    <2>2. /\ more \in Seq(Bill) /\ more # <<>> /\ IndexOf(Shifts!Last(more)) = IndexOf(Shifts!Last(bills))
          /\ Shifts!HoursIn(more) = Shifts!HoursIn(bills) + Cardinality(Billable(mid, end))
          /\ \A h : /\ IsFiniteSet(h) /\ BillsFor(bills, h)
                    /\ h \cap Billable(mid, end) = {}
                    /\ \A t \in Billable(mid, end) : Index(t) = IndexOf(Shifts!Last(bills))
                    => BillsFor(more, h \cup Billable(mid, end))
      BY <1>2, <1>4, LastBillGrows
    <2> HIDE DEF more
    <2> QED
      BY <1>4, <1>5, <2>1, <2>2
  <1>7. ASSUME Index(end) = Index(start) + 1, ordinary
        PROVE  BillsFor(second, Shifts!Outside \cup Billable(start, end))
    <2>1. mid = next
      <3>1. ~(end < next)
        BY <1>2, <1>7, BeforeEndOfMonth
      <3> QED
        BY <1>2, <3>1
    <2>2. ASSUME NEW t \in Billable(mid, end) PROVE Index(t) = IndexOf(Shifts!Last(bills))
      <3>1. t \in Nat /\ t <= end /\ ~(t < (Index(start) + 1) * Shifts!MonthHours)
        BY <1>2, <2>1 DEF Billable
      <3>2. ~(Index(t) <= Index(start)) /\ Index(t) <= Index(end) /\ Index(t) \in Nat
        BY <1>2, <3>1, BeforeEndOfMonth, IndexGrows, IndexIsOfMonth
      <3> QED
        BY <1>2, <1>4, <1>5, <1>7, <3>2
    <2>3. /\ hours \cap Billable(mid, end) = {} /\ IsFiniteSet(hours)
          /\ hours \cup Billable(mid, end) = Shifts!Outside \cup Billable(start, end)
      <3>1. /\ Billable(start, end) = Billable(start, mid) \cup Billable(mid, end)
            /\ Billable(start, mid) \cap Billable(mid, end) = {}
        BY <1>2, BillableSplits
      <3>2. Shifts!Outside \cap Billable(start, end) = {} /\ IsFiniteSet(Shifts!Outside)
        BY HoursAreNew
      <3>3. IsFiniteSet(Billable(start, mid))
        BY <1>2, <1>4, BilledCounts
      <3> QED
        BY <3>1, <3>2, <3>3, FS_Union
    <2>4. BillsFor(bills, hours)
      <3>1. IndexOf(Shifts!Last(first)) < Index(end)
        BY <1>1, <1>2, <1>7
      <3> QED
        BY <1>1, <1>7, <3>1, BillIsAdded DEF bills, b
    <2> HIDE DEF hours
    <2> QED
      BY <1>6, <2>2, <2>3, <2>4
  <1> QED
    BY <1>4, <1>6, <1>7 DEF first, second, mid

LEMMA BillShiftHolds ==
    ASSUME OnCallInv, NEW start \in Nat, NEW end \in Nat, Shifts!BillShift(start, end)
    PROVE  OnCallInv'
  <1> DEFINE mid == Shifts!FirstEnd(start, end)
             first == First(start, end)
             second == Second(start, end)
             ordinary == \A i \in DOMAIN shifts : Shifts!IsOrdinary(shifts[i])
             hours == Shifts!Outside
             new == Billable(start, end)
  <1>1. /\ start < end /\ (shifts # <<>> => Shifts!Last(shifts)[2] <= start)
        /\ shifts' = Append(shifts, <<start, end>>)
    BY DEF Shifts!BillShift
  <1>2. \/ Shifts!MonthOf(start) = Shifts!MonthOf(end) /\ monthly_bills' = first
        \/ /\ Shifts!MonthOf(start) # Shifts!MonthOf(end) /\ Shifts!MonthOf(start) + 1 # Shifts!MonthOf(end)
           /\ monthly_bills' = first
        \/ /\ Shifts!MonthOf(start) # Shifts!MonthOf(end) /\ Shifts!MonthOf(start) + 1 = Shifts!MonthOf(end)
           /\ monthly_bills' = second
    BY DEF Shifts!BillShift, Shifts!bill_shift_monthly, First, Second
  <1>3. /\ shifts \in Seq(Nat \X Nat) /\ monthly_bills \in Seq(Bill)
        /\ Shifts!HoursIn(monthly_bills) \in Nat /\ Shifts!HoursIn(monthly_bills) <= Cardinality(hours)
        /\ IsFiniteSet(Shifts!Covered) /\ Shifts!Covered \subseteq Nat
        /\ \A t \in Shifts!Covered : shifts # <<>> /\ t < Shifts!Last(shifts)[2]
    BY ShiftsCardinality DEF OnCallInv, Shifts!NothingIsBilledTwice
  <1>4. /\ shifts' \in Seq(Nat \X Nat) /\ shifts' # <<>> /\ Shifts!Last(shifts)' = <<start, end>>
        /\ Shifts!Covered' = Shifts!Covered \cup start .. end - 1
        /\ Shifts!Outside' = hours \cup new
        /\ \A i \in DOMAIN shifts : i \in DOMAIN shifts' /\ shifts'[i] = shifts[i]
        /\ Len(shifts') \in DOMAIN shifts' /\ shifts'[Len(shifts')] = <<start, end>>
    BY <1>1, <1>3, CoveredWithShift
  <1>5. /\ mid \in Nat /\ start < mid /\ mid <= end
        /\ new = Billable(start, mid) \cup Billable(mid, end)
        /\ Billable(start, mid) \cap Billable(mid, end) = {}
    <2>1. mid \in Nat /\ start < mid /\ mid <= end
      BY <1>1, EndOfFirst
    <2> QED
      BY <2>1, BillableSplits
  <1>6. /\ hours \cap new = {} /\ IsFiniteSet(hours) /\ hours \subseteq Nat
    BY <1>1, HoursAreNew
  <1>7. /\ first \in Seq(Bill) /\ first # <<>>
        /\ Shifts!HoursIn(first) = Shifts!HoursIn(monthly_bills) + Cardinality(Billable(start, mid))
        /\ ordinary => /\ BillsFor(first, hours \cup Billable(start, mid))
                       /\ IndexOf(Shifts!Last(first)) = Index(start)
    BY <1>1, FirstHolds
  <1>8. /\ second \in Seq(Bill) /\ second # <<>>
        /\ Shifts!HoursIn(second) = Shifts!HoursIn(first) + Cardinality(Billable(mid, end))
        /\ Index(end) = Index(start) + 1 /\ ordinary
             => BillsFor(second, hours \cup new) /\ IndexOf(Shifts!Last(second)) = Index(end)
    BY <1>1, SecondHolds
  <1> HIDE DEF first, second, mid, ordinary, hours, new
  <1>9. monthly_bills' \in Seq(Bill) /\ monthly_bills' # <<>> /\ (monthly_bills' = first \/ monthly_bills' = second)
    BY <1>2, <1>7, <1>8
  <1>10. Shifts!HoursIn(monthly_bills') \in Nat /\ Shifts!HoursIn(monthly_bills') <= Cardinality(Shifts!Outside')
    <2> DEFINE x == Cardinality(Billable(start, mid))
               y == Cardinality(Billable(mid, end))
               h == Shifts!HoursIn(monthly_bills)
               c == Cardinality(hours)
    <2>1. IsFiniteSet(Billable(start, mid)) /\ IsFiniteSet(Billable(mid, end)) /\ x \in Nat /\ y \in Nat
      <3>1. Shifts!NewBill(end) \in Bill
        BY <1>3, NewBillAdded
      <3> QED
        BY <1>5, <3>1, BilledCounts
    <2>2. IsFiniteSet(new) /\ Cardinality(new) = x + y
      BY <1>5, <2>1, DisjointCardinality
    <2>3. Cardinality(Shifts!Outside') = c + Cardinality(new) /\ c \in Nat
      BY <1>4, <1>6, <2>2, DisjointCardinality
    <2>4. h \in Nat /\ h <= c
      BY <1>3
    <2>5. Shifts!HoursIn(monthly_bills') = h + x \/ Shifts!HoursIn(monthly_bills') = h + x + y
      BY <1>7, <1>8, <1>9
    <2> HIDE DEF x, y, h, c
    <2> QED
      BY <2>1, <2>2, <2>3, <2>4, <2>5
  <1>11. /\ IsFiniteSet(Shifts!Covered') /\ Shifts!Covered' \subseteq Nat
         /\ \A t \in Shifts!Covered' : shifts' # <<>> /\ t < Shifts!Last(shifts)'[2]
    <2>1. IsFiniteSet(start .. end - 1) /\ start .. end - 1 \subseteq Nat
      BY FS_Interval
    <2>2. ASSUME NEW t \in Shifts!Covered' PROVE t < end
      <3>1. CASE t \in start .. end - 1
        BY <3>1
      <3>2. CASE t \in Shifts!Covered
        <4>1. Shifts!Last(shifts) \in Nat \X Nat
          BY <1>3, <3>2, FrontAndLast
        <4> DEFINE e == Shifts!Last(shifts)[2]
        <4>2. e \in Nat /\ t < e /\ e <= start /\ t \in Nat
          BY <1>1, <1>3, <3>2, <4>1
        <4> HIDE DEF e
        <4> QED
          BY <1>1, <4>2
      <3> QED
        BY <1>4, <3>1, <3>2
    <2>3. IsFiniteSet(Shifts!Covered') /\ Shifts!Covered' \subseteq Nat
      <3> DEFINE before == Shifts!Covered
                 range == start .. end - 1
      <3>1. IsFiniteSet(before) /\ before \subseteq Nat /\ Shifts!Covered' = before \cup range
        BY <1>3, <1>4
      <3>2. IsFiniteSet(range) /\ range \subseteq Nat
        BY <2>1
      <3> HIDE DEF before, range
      <3> QED
        BY <3>1, <3>2, FS_Union
    <2>4. shifts' # <<>> /\ Shifts!Last(shifts)'[2] = end
      BY <1>4
    <2> QED
      BY <2>2, <2>3, <2>4
  <1>12. BillsSoFar'
    <2> SUFFICES ASSUME \A i \in DOMAIN shifts' : Shifts!IsOrdinary(shifts'[i])
                 PROVE  /\ BillsFor(monthly_bills', Shifts!Outside')
                        /\ IndexOf(Shifts!Last(monthly_bills')) = Index(end)
      <3>1. IndexOf(Shifts!Last(monthly_bills)') = IndexOf(Shifts!Last(monthly_bills'))
        BY DEF Shifts!Last
      <3>2. Index(Shifts!Last(shifts)'[2]) = Index(end)
        BY <1>4
      <3> QED
        BY <1>4, <1>9, <3>1, <3>2 DEF BillsSoFar
    <2>1. ordinary
      BY <1>4 DEF ordinary
    <2>2. Shifts!YearOf(start) = Shifts!YearOf(end) /\ Shifts!MonthOf(end) - Shifts!MonthOf(start) \in {0, 1}
      <3>1. Shifts!IsOrdinary(<<start, end>>)
        BY <1>4
      <3> QED
        BY <3>1 DEF Shifts!IsOrdinary
    <2>3. /\ Index(start) = Shifts!YearOf(start) * YearMonths + Shifts!MonthOf(start)
          /\ Index(end) = Shifts!YearOf(end) * YearMonths + Shifts!MonthOf(end)
          /\ Shifts!MonthOf(start) \in Nat /\ Shifts!MonthOf(end) \in Nat
          /\ Index(start) \in Nat /\ Index(end) \in Nat
      BY IndexIsOfMonth
    <2>4. CASE Shifts!MonthOf(start) = Shifts!MonthOf(end)
      <3>1. Index(end) = Index(start) /\ monthly_bills' = first
        BY <1>2, <2>2, <2>3, <2>4
      <3>2. mid = end
        <4> DEFINE next == Shifts!get_start_of_next_month(start)
        <4>1. next \in Nat /\ next = (Index(end) + 1) * Shifts!MonthHours
          BY <3>1, NextMonthStarts
        <4> HIDE DEF next
        <4>2. end < next
          BY <2>3, <4>1, BeforeEndOfMonth
        <4>3. mid = end \/ mid = next
          BY <1>1, EndOfFirst DEF mid, next
        <4> QED
          BY <1>5, <4>1, <4>2, <4>3
      <3> QED
        BY <1>4, <1>7, <2>1, <3>1, <3>2 DEF new
    <2>5. CASE Shifts!MonthOf(start) # Shifts!MonthOf(end)
      <3>1. Shifts!MonthOf(end) = Shifts!MonthOf(start) + 1
        BY <2>2, <2>3, <2>5
      <3>2. monthly_bills' = second
        BY <1>2, <2>5, <3>1
      <3>3. Index(end) = Index(start) + 1
        <4> DEFINE y == Shifts!YearOf(start) * YearMonths
        <4>1. Index(start) = y + Shifts!MonthOf(start) /\ Index(end) = y + (Shifts!MonthOf(start) + 1) /\ y \in Int
          <5>1. Shifts!YearOf(start) \in Nat
            BY IndexIsOfMonth
          <5> QED
            BY <2>2, <2>3, <3>1, <5>1, MonthsHaveHours
        <4> HIDE DEF y
        <4> QED
          BY <2>3, <4>1
      <3> QED
        BY <1>4, <1>8, <2>1, <3>2, <3>3
    <2> QED
      BY <2>4, <2>5
  <1>13. Shifts!NothingIsBilledTwice'
    <2>1. Shifts!Cardinality(Shifts!Outside)' = Cardinality(Shifts!Outside')
      BY ShiftsCardinality
    <2> QED
      BY <1>10, <2>1 DEF Shifts!NothingIsBilledTwice
  <1> QED
    BY <1>4, <1>9, <1>10, <1>11, <1>12, <1>13 DEF OnCallInv

LEMMA OnCallInitHolds == Shifts!OnCallInit => OnCallInv
  <1> SUFFICES ASSUME shifts = <<>>, monthly_bills = <<>>
               PROVE  OnCallInv
    BY DEF Shifts!OnCallInit
  <1>1. Shifts!Covered = {} /\ Shifts!Outside = {}
    BY DEF Shifts!Covered, Shifts!Outside
  <1>2. Shifts!HoursIn(monthly_bills) = 0
    BY HoursInNone
  <1>3. Shifts!NothingIsBilledTwice
    BY <1>1, <1>2, ShiftsCardinality, FS_EmptySet DEF Shifts!NothingIsBilledTwice
  <1>4. BillsSoFar
    BY <1>1 DEF BillsSoFar, BillsFor
  <1> QED
    BY <1>1, <1>2, <1>3, <1>4, FS_EmptySet DEF OnCallInv

LEMMA OnCallStepHolds == OnCallInv /\ [Shifts!OnCallNext]_onCallVars => OnCallInv'
  <1> SUFFICES ASSUME OnCallInv, [Shifts!OnCallNext]_onCallVars
               PROVE  OnCallInv'
    OBVIOUS
  <1>1. CASE Shifts!OnCallNext
    <2>1. PICK start, end \in 0 .. Horizon : Shifts!BillShift(start, end)
      BY <1>1 DEF Shifts!OnCallNext
    <2>2. start \in Nat /\ end \in Nat
      BY <2>1
    <2> QED
      BY <2>1, <2>2, BillShiftHolds
  <1>2. CASE UNCHANGED onCallVars
    <2>1. shifts' = shifts /\ monthly_bills' = monthly_bills
      BY <1>2 DEF onCallVars
    <2>2. /\ Shifts!Covered' = Shifts!Covered /\ Shifts!Outside' = Shifts!Outside
          /\ Shifts!HoursIn(monthly_bills)' = Shifts!HoursIn(monthly_bills)
      BY <2>1 DEF Shifts!Covered, Shifts!Outside, Shifts!HoursIn
    <2>3. Shifts!NothingIsBilledTwice' = Shifts!NothingIsBilledTwice
      BY <2>2 DEF Shifts!NothingIsBilledTwice
    <2>4. BillsSoFar' = BillsSoFar
      BY <2>1, <2>2 DEF BillsSoFar
    <2> QED
      BY <2>1, <2>2, <2>3, <2>4 DEF OnCallInv
  <1> QED
    BY <1>1, <1>2

\* What the bills hold for a month, in the words of the property.
LEMMA OnCallInvSays == OnCallInv => Shifts!BillsAreRight
  <1> SUFFICES ASSUME OnCallInv, \A i \in DOMAIN shifts : Shifts!IsOrdinary(shifts[i]),
                      NEW y \in 0 .. Shifts!YearOf(Horizon), NEW m \in 0 .. YearMonths - 1
               PROVE  LET hours == {t \in Shifts!Outside : Shifts!YearOf(t) = y /\ Shifts!MonthOf(t) = m}
                          ends  == {t \in hours : Shifts!datetime_is_week_end(t)}
                          bills == {i \in DOMAIN monthly_bills : monthly_bills[i].month = m /\ monthly_bills[i].year = y}
                      IN  IF bills = {} THEN hours = {}
                          ELSE \E i \in bills :
                                 /\ bills = {i}
                                 /\ monthly_bills[i].week_hours = Shifts!Cardinality(hours \ ends)
                                 /\ monthly_bills[i].week_end_hours = Shifts!Cardinality(ends)
    BY DEF OnCallInv, Shifts!BillsAreRight, Shifts!HoursAreBilledOnce
  <1> DEFINE hours == {t \in Shifts!Outside : Shifts!YearOf(t) = y /\ Shifts!MonthOf(t) = m}
             ends  == {t \in hours : Shifts!datetime_is_week_end(t)}
             bills == {i \in DOMAIN monthly_bills : monthly_bills[i].month = m /\ monthly_bills[i].year = y}
             index == y * YearMonths + m
  <1>1. /\ y \in Nat /\ Shifts!Outside \subseteq Nat /\ monthly_bills \in Seq(Bill)
        /\ BillsFor(monthly_bills, Shifts!Outside)
    <2>1. Shifts!Outside \subseteq Nat
      BY DEF OnCallInv, Shifts!Outside
    <2>2. BillsFor(monthly_bills, Shifts!Outside) /\ monthly_bills \in Seq(Bill)
      BY DEF OnCallInv, BillsSoFar
    <2>3. y \in Nat
      OBVIOUS
    <2> QED
      BY <2>1, <2>2, <2>3
  <1>2. ASSUME NEW t \in Shifts!Outside
        PROVE  t \in hours <=> Index(t) = index
    BY <1>1, IndexIsOfMonth, IndexIsUnique
  <1>3. ASSUME NEW i \in DOMAIN monthly_bills
        PROVE  i \in bills <=> IndexOf(monthly_bills[i]) = index
    <2>1. monthly_bills[i] \in Bill
      BY <1>1
    <2>2. monthly_bills[i].month \in 0 .. YearMonths - 1 /\ monthly_bills[i].year \in Nat
      BY <2>1 DEF Bill
    <2> QED
      BY <1>1, <2>2, IndexIsUnique DEF IndexOf
  <1>4. hours \subseteq Shifts!Outside /\ bills \subseteq DOMAIN monthly_bills
    OBVIOUS
  <1> HIDE DEF hours, bills, index
  <1>5. ASSUME NEW i \in bills, NEW j \in bills
        PROVE  i = j
    <2>1. i \in DOMAIN monthly_bills /\ j \in DOMAIN monthly_bills /\ i \in Nat /\ j \in Nat
      BY <1>1, <1>4
    <2>2. IndexOf(monthly_bills[i]) = index /\ IndexOf(monthly_bills[j]) = index
      BY <1>3, <2>1
    <2>3. index \in Nat
      BY <1>1, MonthsHaveHours DEF index
    <2>4. ~(i < j) /\ ~(j < i)
      BY <1>1, <2>1, <2>2, <2>3 DEF BillsFor
    <2> QED
      BY <2>1, <2>4
  <1>6. ASSUME NEW i \in bills
        PROVE  /\ bills = {i}
               /\ monthly_bills[i].week_hours = Cardinality(hours \ ends)
               /\ monthly_bills[i].week_end_hours = Cardinality(ends)
    <2>1. bills = {i}
      BY <1>5
    <2>2. i \in DOMAIN monthly_bills /\ IndexOf(monthly_bills[i]) = index
      BY <1>3, <1>4
    <2>3. OwnHours(monthly_bills[i], Shifts!Outside) = hours
      BY <1>2, <1>4, <2>2 DEF OwnHours
    <2>4. WeekEnds(hours) = ends
      BY DEF WeekEnds
    <2> HIDE DEF ends
    <2> QED
      BY <1>1, <2>1, <2>2, <2>3, <2>4 DEF BillsFor, Counts
  <1>7. ASSUME bills = {}
        PROVE  hours = {}
    <2> SUFFICES ASSUME NEW t \in hours PROVE FALSE
      OBVIOUS
    <2>1. t \in Shifts!Outside /\ Index(t) = index
      BY <1>2, <1>4
    <2>2. \E i \in DOMAIN monthly_bills : IndexOf(monthly_bills[i]) = index
      BY <1>1, <2>1 DEF BillsFor
    <2> QED
      BY <1>3, <1>7, <2>2
  <1>8. /\ Shifts!Cardinality(hours \ ends) = Cardinality(hours \ ends)
        /\ Shifts!Cardinality(ends) = Cardinality(ends)
    BY ShiftsCardinality
  <1> QED
    BY <1>6, <1>7, <1>8, Zenon DEF hours, bills
-----------------------------------------------------------------------------
(***************************************************************************)
(* Spans: SpansAreRight, for every text and needles of any length.  It is  *)
(* a property of the text alone, whose type is all of the invariant.       *)
(***************************************************************************)

SpanInv == text \in Seq(Alphabet)

\* The first and the last of some indices.
LEMMA FirstAndLast ==
    ASSUME NEW n \in Nat, NEW S \in SUBSET (1 .. n), S # {}
    PROVE  /\ SpansOf!FirstOf(S) \in S /\ \A j \in S : SpansOf!FirstOf(S) <= j
           /\ SpansOf!LastOf(S) \in S /\ \A j \in S : j <= SpansOf!LastOf(S)
  <1> DEFINE R == {p \in Nat \X Nat : p[1] < p[2]}
             T == {n - j : j \in S}
  <1>1. IsWellFoundedOn(R, Nat)
    BY NatLessThanWellFounded DEF OpToRel
  <1>2. S \subseteq Nat /\ T \subseteq Nat /\ T # {}
    <2> USE DEF T
    <2>1. \A j \in S : j \in 1 .. n
      OBVIOUS
    <2>2. \A j \in 1 .. n : j \in Nat /\ n - j \in Nat
      OBVIOUS
    <2>3. S \subseteq Nat
      BY <2>1, <2>2, Zenon
    <2>4. T \subseteq Nat
      <3> SUFFICES ASSUME NEW k \in T PROVE k \in Nat
        BY Zenon
      <3>1. PICK j \in S : k = n - j
        BY Zenon
      <3> QED
        BY <2>1, <2>2, <3>1, Zenon
    <2>5. T # {}
      <3>1. PICK j \in S : TRUE
        BY Zenon
      <3>2. n - j \in T
        BY Zenon
      <3> QED
        BY <3>2, Zenon
    <2> QED
      BY <2>3, <2>4, <2>5, Zenon
  <1> HIDE DEF R, T
  <1>3. PICK i \in S : \A j \in S : ~(<<j, i>> \in R)
    BY <1>1, <1>2, WFMin
  <1>4. \A j \in S : i <= j
    <2>1. \A j \in S : ~(j < i)
      BY <1>2, <1>3 DEF R
    <2> QED
      BY <1>2, <2>1
  <1>5. PICK k \in T : \A j \in T : ~(<<j, k>> \in R)
    BY <1>1, <1>2, WFMin
  <1>6. \A j \in T : k <= j
    <2>1. \A j \in T : ~(j < k)
      BY <1>2, <1>5 DEF R
    <2> QED
      BY <1>2, <2>1
  <1>7. PICK l \in S : k = n - l
    BY DEF T
  <1>8. \A j \in S : j <= l
    <2> SUFFICES ASSUME NEW j \in S PROVE j <= l
      OBVIOUS
    <2>1. n - j \in T
      BY DEF T
    <2>2. n - l <= n - j
      BY <1>6, <1>7, <2>1
    <2> QED
      BY <1>2, <2>2
  <1> QED
    BY <1>4, <1>8 DEF SpansOf!FirstOf, SpansOf!LastOf

-----------------------------------------------------------------------------
(* Searching. *)

\* A needle is where its characters are.
LEMMA AtIs ==
    ASSUME NEW needle \in Seq(Alphabet), NEW h \in Seq(Alphabet), NEW i \in Nat \ {0}
    PROVE  SpansOf!IsAt(needle, h, i)
             <=> i + Len(needle) - 1 <= Len(h) /\ \A k \in 1 .. Len(needle) : h[i + k - 1] = needle[k]
  <1> DEFINE m == Len(needle)
             e == i + m - 1
             sub == SubSeq(h, i, e)
  <1>1. m \in Nat /\ Len(h) \in Nat
    BY LenProperties
  <1> SUFFICES ASSUME e <= Len(h)
               PROVE  sub = needle <=> \A k \in 1 .. m : h[i + k - 1] = needle[k]
    BY DEF SpansOf!IsAt
  <1>2. /\ sub \in Seq(Alphabet)
        /\ Len(sub) = IF i <= e THEN e - i + 1 ELSE 0
        /\ \A k \in 1 .. e - i + 1 : sub[k] = h[i + k - 1]
    <2>1. \A k \in i .. e : h[k] \in Alphabet
      BY <1>1, ElementOfSeq
    <2> HIDE DEF m
    <2>2. e \in Int
      BY <1>1
    <2> QED
      BY <2>1, <2>2, SubSeqProperties
  <1>3. Len(sub) = m /\ e - i + 1 = m
    <2> HIDE DEF m, sub
    <2> QED
      BY <1>1, <1>2
  <1> HIDE DEF m, sub, e
  <1>4. \A k \in 1 .. m : sub[k] = h[i + k - 1]
    BY <1>2, <1>3
  <1>5. ASSUME \A k \in 1 .. m : h[i + k - 1] = needle[k]
        PROVE  sub = needle
    <2>1. \A k \in 1 .. Len(sub) : sub[k] = needle[k]
      BY <1>3, <1>4, <1>5
    <2> QED
      BY <1>2, <1>3, <2>1, SeqEqual DEF m
  <1> QED
    BY <1>4, <1>5

\* What pg_memmem finds before a terminator is there; and it finds what is at
\* the start.
LEMMA MemmemFinds ==
    ASSUME NEW needle \in Needles, NEW h \in Seq(Alphabet), NEW len_ \in 0 .. Len(h)
    PROVE  LET found == SpansOf!pg_memmem(h \o <<SpansOf!NUL>>, len_, needle) IN
           /\ found => \E i \in 1 .. len_ : SpansOf!IsAt(needle, h, i)
           /\ Len(needle) <= len_ /\ SpansOf!IsAt(needle, h, 1) => found
  <1> DEFINE m == h \o <<SpansOf!NUL>>
             starts == {i \in 1 .. len_ : m[i] = needle[1]}
             s == SpansOf!FirstOf(starts)
             l == Len(needle)
  <1>1. /\ needle \in Seq(Alphabet) /\ l \in Nat \ {0} /\ Len(h) \in Nat
        /\ \A k \in 1 .. l : needle[k] \in Alphabet
    BY SpanAssumption, EmptySeq, LenProperties, ElementOfSeq
  <1>2. /\ Len(m) = Len(h) + 1 /\ m[Len(h) + 1] = SpansOf!NUL
        /\ \A i \in 1 .. Len(h) : m[i] = h[i]
    <2> DEFINE C == Alphabet \cup {SpansOf!NUL}
    <2>1. h \in Seq(C)
      BY SeqMonotonic
    <2>2. SpansOf!NUL \in C
      OBVIOUS
    <2> HIDE DEF C
    <2>3. Len(m) = Len(h) + 1 /\ \A i \in 1 .. Len(h) + 1 : m[i] = IF i <= Len(h) THEN h[i] ELSE SpansOf!NUL
      BY <2>1, <2>2, OneMore
    <2> QED
      BY <1>1, <2>3
  <1> HIDE DEF m, l
  <1>3. /\ SpansOf!pg_memmem(m, len_, needle)
             <=> /\ starts # {} /\ len_ + (s - 1) >= l
                 /\ \A i \in 1 .. l : s + i - 1 <= Len(m) /\ m[s + i - 1] = needle[i]
    BY DEF SpansOf!pg_memmem, l
  <1>4. starts # {} => s \in 1 .. len_ /\ s \in starts /\ \A j \in starts : s <= j
    <2>1. len_ \in Nat /\ starts \in SUBSET (1 .. len_)
      BY <1>1
    <2> HIDE DEF starts
    <2> QED
      BY <2>1, FirstAndLast
  <1>5. ASSUME SpansOf!pg_memmem(m, len_, needle)
        PROVE  \E i \in 1 .. len_ : SpansOf!IsAt(needle, h, i)
    <2>1. s \in 1 .. len_ /\ \A i \in 1 .. l : s + i - 1 <= Len(m) /\ m[s + i - 1] = needle[i]
      BY <1>3, <1>4, <1>5
    <2> HIDE DEF s, starts
    <2>2. s \in Nat \ {0} /\ s <= Len(h)
      BY <1>1, <2>1
    <2>3. s + l - 1 <= Len(h)
      <3>1. s + l - 1 <= Len(m) /\ m[s + l - 1] = needle[l] /\ needle[l] # SpansOf!NUL
        BY <1>1, <2>1, SpanAssumption
      <3> QED
        BY <1>1, <1>2, <2>2, <3>1
    <2>4. ASSUME NEW k \in 1 .. l PROVE h[s + k - 1] = needle[k]
      <3>1. s + k - 1 \in 1 .. Len(h)
        BY <1>1, <2>2, <2>3
      <3> QED
        BY <1>2, <2>1, <3>1
    <2>5. SpansOf!IsAt(needle, h, s)
      BY <1>1, <2>2, <2>3, <2>4, AtIs DEF l
    <2> QED
      BY <2>1, <2>5
  <1>6. ASSUME l <= len_, SpansOf!IsAt(needle, h, 1)
        PROVE  SpansOf!pg_memmem(m, len_, needle)
    <2>1. l <= Len(h) /\ \A k \in 1 .. l : h[k] = needle[k]
      <3>1. 1 + l - 1 <= Len(h) /\ \A k \in 1 .. l : h[1 + k - 1] = needle[k]
        BY <1>1, <1>6, AtIs DEF l
      <3> QED
        BY <1>1, <3>1
    <2>2. 1 \in starts
      BY <1>1, <1>2, <1>6, <2>1
    <2>3. s = 1
      <3>1. s \in 1 .. len_ /\ s <= 1
        BY <1>4, <2>2
      <3> QED
        BY <3>1
    <2>4. ASSUME NEW i \in 1 .. l PROVE s + i - 1 <= Len(m) /\ m[s + i - 1] = needle[i]
      <3> HIDE DEF s
      <3>1. s + i - 1 = i /\ i \in 1 .. Len(h)
        BY <1>1, <2>1, <2>3
      <3>2. m[i] = needle[i] /\ i <= Len(m)
        BY <1>1, <1>2, <2>1, <3>1
      <3> QED
        BY <3>1, <3>2
    <2>5. len_ + (s - 1) >= l
      BY <1>1, <1>6, <2>3
    <2> QED
      BY <1>3, <2>2, <2>4, <2>5
  <1> QED
    BY <1>5, <1>6 DEF m, l

LEMMA SearchHolds == SpanInv => SpansOf!SearchFindsWhatIsThere
  <1> SUFFICES ASSUME SpanInv, NEW n \in Needles
               PROVE  /\ SpansOf!pg_span_contains(text, n, <<SpansOf!NUL>>)
                           => \E i \in 1 .. Len(text) : SpansOf!IsAt(n, text, i)
                      /\ SpansOf!pg_span_starts_with(text, n, <<SpansOf!NUL>>)
                           => \E i \in 1 .. Len(n) : SpansOf!IsAt(n, text, i)
                      /\ SpansOf!IsAt(n, text, 1) => /\ SpansOf!pg_span_starts_with(text, n, <<SpansOf!NUL>>)
                                                     /\ SpansOf!pg_span_contains(text, n, <<SpansOf!NUL>>)
                      /\ SpansOf!pg_span_ends_with(text, n, <<SpansOf!NUL>>)
                           <=> Len(n) <= Len(text) /\ SpansOf!IsAt(n, text, Len(text) - Len(n) + 1)
    BY DEF SpansOf!SearchFindsWhatIsThere
  <1> DEFINE l == Len(n)
             L == Len(text)
             d == L - l
             rest == SubSeq(text, d + 1, L)
  <1>1. text \in Seq(Alphabet) /\ n \in Seq(Alphabet) /\ l \in Nat \ {0} /\ L \in Nat
    BY SpanAssumption, EmptySeq, LenProperties DEF SpanInv
  <1>2. SpansOf!IsAt(n, text, 1) => l <= L
    <2>1. SpansOf!IsAt(n, text, 1) => 1 + Len(n) - 1 <= Len(text)
      BY <1>1, AtIs
    <2> QED
      BY <1>1, <2>1
  <1>3. /\ SpansOf!pg_span_contains(text, n, <<SpansOf!NUL>>)
             <=> l <= L /\ SpansOf!pg_memmem(text \o <<SpansOf!NUL>>, L, n)
        /\ SpansOf!pg_span_starts_with(text, n, <<SpansOf!NUL>>)
             <=> l <= L /\ SpansOf!pg_memmem(text \o <<SpansOf!NUL>>, l, n)
        /\ SpansOf!pg_span_ends_with(text, n, <<SpansOf!NUL>>)
             <=> l <= L /\ SpansOf!pg_memmem(rest \o <<SpansOf!NUL>>, l, n)
    BY DEF SpansOf!pg_span_contains, SpansOf!pg_span_starts_with, SpansOf!pg_span_ends_with, SpansOf!Tail0
  <1>4. ASSUME l <= L
        PROVE  /\ SpansOf!pg_memmem(text \o <<SpansOf!NUL>>, L, n) => \E i \in 1 .. L : SpansOf!IsAt(n, text, i)
               /\ SpansOf!pg_memmem(text \o <<SpansOf!NUL>>, l, n) => \E i \in 1 .. l : SpansOf!IsAt(n, text, i)
               /\ SpansOf!IsAt(n, text, 1) => /\ SpansOf!pg_memmem(text \o <<SpansOf!NUL>>, L, n)
                                              /\ SpansOf!pg_memmem(text \o <<SpansOf!NUL>>, l, n)
    <2>1. L \in 0 .. Len(text) /\ l \in 0 .. Len(text) /\ l <= l
      BY <1>1, <1>4
    <2> QED
      BY <1>1, <1>4, <2>1, MemmemFinds
  <1>5. ASSUME l <= L
        PROVE  SpansOf!pg_memmem(rest \o <<SpansOf!NUL>>, l, n) <=> SpansOf!IsAt(n, text, d + 1)
    <2>1. d \in 0 .. L /\ L - d = l /\ d \in Nat /\ d + 1 \in Nat \ {0}
      BY <1>1, <1>5
    <2> HIDE DEF d, L, l
    <2>2. rest \in Seq(Alphabet) /\ Len(rest) = l /\ \A i \in 1 .. l : rest[i] = text[d + i]
      BY <1>1, <2>1, SubSequence DEF L
    <2> HIDE DEF rest
    <2>3. /\ SpansOf!pg_memmem(rest \o <<SpansOf!NUL>>, l, n) => \E i \in 1 .. l : SpansOf!IsAt(n, rest, i)
          /\ SpansOf!IsAt(n, rest, 1) => SpansOf!pg_memmem(rest \o <<SpansOf!NUL>>, l, n)
      <3>1. l \in 0 .. Len(rest) /\ Len(n) <= l
        BY <1>1, <2>2 DEF l
      <3> QED
        BY <2>2, <3>1, MemmemFinds
    <2>4. ASSUME NEW i \in 1 .. l, SpansOf!IsAt(n, rest, i) PROVE i = 1
      <3>1. i \in Nat \ {0}
        BY <1>1
      <3>2. i + Len(n) - 1 <= Len(rest)
        BY <1>1, <2>2, <2>4, <3>1, AtIs
      <3> QED
        BY <1>1, <2>2, <3>1, <3>2 DEF l
    <2>5. SpansOf!IsAt(n, rest, 1) <=> \A k \in 1 .. l : text[d + k] = n[k]
      <3>1. SpansOf!IsAt(n, rest, 1) <=> 1 + l - 1 <= l /\ \A k \in 1 .. l : rest[1 + k - 1] = n[k]
        BY <1>1, <2>2, AtIs DEF l
      <3>2. 1 + l - 1 <= l /\ \A k \in 1 .. l : rest[1 + k - 1] = text[d + k]
        BY <1>1, <2>2
      <3> QED
        BY <3>1, <3>2
    <2>6. SpansOf!IsAt(n, text, d + 1) <=> \A k \in 1 .. l : text[d + k] = n[k]
      <3>1. SpansOf!IsAt(n, text, d + 1)
              <=> d + 1 + l - 1 <= L /\ \A k \in 1 .. l : text[d + 1 + k - 1] = n[k]
        BY <1>1, <2>1, AtIs DEF l, L
      <3>2. d + 1 + l - 1 <= L /\ \A k \in 1 .. l : d + 1 + k - 1 = d + k
        BY <1>1, <2>1
      <3> QED
        BY <3>1, <3>2
    <2> QED
      BY <2>3, <2>4, <2>5, <2>6
  <1> QED
    BY <1>2, <1>3, <1>4, <1>5

-----------------------------------------------------------------------------
(* Splitting and trimming. *)

\* The two parts of a sequence that is split at an index, and the second one
\* without the character it is split at.
IsSplitAt(s, k, left, right) ==
    /\ left \o right = s
    /\ DOMAIN left = 1 .. k - 1 /\ \A i \in 1 .. k - 1 : left[i] = s[i]
    /\ right # <<>> /\ right[1] = s[k]
    /\ SpansOf!Tail0(right, 1) = Tail(right)
    /\ DOMAIN Tail(right) = 1 .. Len(s) - k /\ \A i \in 1 .. Len(s) - k : Tail(right)[i] = s[k + i]

LEMMA PartsOf ==
    ASSUME NEW S, NEW s \in Seq(S), NEW k \in 1 .. Len(s)
    PROVE  IsSplitAt(s, k, SubSeq(s, 1, k - 1), SpansOf!Tail0(s, k - 1))
  <1> DEFINE n == Len(s)
             left == SubSeq(s, 1, k - 1)
             right == SubSeq(s, k - 1 + 1, n)
             rest == Tail(right)
  <1>1. n \in Nat /\ k \in Nat /\ 1 <= k /\ k <= n /\ k - 1 \in 0 .. n /\ n - k + 1 \in 0 .. n /\ n - (n - k + 1) = k - 1
    BY LenProperties
  <1>2. left \in Seq(S) /\ Len(left) = k - 1 /\ \A i \in 1 .. k - 1 : left[i] = s[i]
    <2> DEFINE d == n - k + 1
    <2>1. /\ SubSeq(s, 1, n - d) \in Seq(S) /\ Len(SubSeq(s, 1, n - d)) = n - d
          /\ \A i \in 1 .. n - d : SubSeq(s, 1, n - d)[i] = s[i]
      BY <1>1, SubSequence
    <2>2. n - d = k - 1
      BY <1>1
    <2> QED
      BY <2>1, <2>2
  <1>3. right \in Seq(S) /\ Len(right) = n - (k - 1) /\ \A i \in 1 .. n - (k - 1) : right[i] = s[k - 1 + i]
    BY <1>1, SubSequence
  <1>4. left \o right = s
    <2>1. 1 \in 1 .. n + 1 /\ k - 1 \in 1 - 1 .. n /\ n \in k - 1 .. n
      BY <1>1
    <2>2. left \o right = SubSeq(s, 1, n)
      BY <2>1, ConcatAdjacentSubSeq
    <2> QED
      BY <2>2, SubSeqFull
  <1> HIDE DEF left, right
  <1>5. right # <<>> /\ right[1] = s[k]
    <2>1. 1 \in 1 .. n - (k - 1) /\ k - 1 + 1 = k
      BY <1>1
    <2>2. right[1] = s[k]
      BY <1>3, <2>1
    <2> QED
      BY <1>1, <1>3, <2>2, EmptySeq
  <1>6. rest = SubSeq(right, 2, Len(right))
    BY <1>3, <1>5, TailIsSubSeq
  <1>7. Len(rest) = n - k /\ rest \in Seq(S) /\ \A i \in 1 .. n - k : rest[i] = s[k + i]
    <2>1. 1 \in 0 .. Len(right) /\ 1 + 1 = 2 /\ Len(right) - 1 = n - k
      BY <1>1, <1>3
    <2> HIDE DEF n
    <2>4. /\ SubSeq(right, 1 + 1, Len(right)) \in Seq(S) /\ Len(SubSeq(right, 1 + 1, Len(right))) = Len(right) - 1
          /\ \A i \in 1 .. Len(right) - 1 : SubSeq(right, 1 + 1, Len(right))[i] = right[1 + i]
      BY <1>3, <2>1, SubSequence
    <2>2. /\ SubSeq(right, 2, Len(right)) \in Seq(S) /\ Len(SubSeq(right, 2, Len(right))) = n - k
          /\ \A i \in 1 .. n - k : SubSeq(right, 2, Len(right))[i] = right[1 + i]
      BY <2>1, <2>4
    <2>3. ASSUME NEW i \in 1 .. n - k PROVE right[1 + i] = s[k + i]
      <3>1. 1 + i \in 1 .. n - (k - 1) /\ k - 1 + (1 + i) = k + i
        BY <1>1
      <3> QED
        BY <1>3, <3>1
    <2> QED
      BY <1>6, <2>2, <2>3
  <1>8. DOMAIN left = 1 .. k - 1 /\ DOMAIN rest = 1 .. n - k
    BY <1>2, <1>7, LenProperties
  <1>9. SpansOf!Tail0(right, 1) = rest
    BY <1>6 DEF SpansOf!Tail0
  <1>10. right = SpansOf!Tail0(s, k - 1)
    BY DEF right, SpansOf!Tail0
  <1> QED
    <2>1. IsSplitAt(s, k, left, right)
      BY <1>2, <1>4, <1>5, <1>7, <1>8, <1>9, Zenon DEF IsSplitAt
    <2> QED
      BY <1>10, <2>1, Zenon DEF left

LEMMA SplitHolds ==
    ASSUME SpanInv, NEW c \in Alphabet
    PROVE  LET first == SpansOf!pg_span_split_at_first(text, c)
               last_  == SpansOf!pg_span_split_at_last(text, c)
           IN  /\ first[1] \o first[2] = text /\ last_[1] \o last_[2] = text
               /\ c \notin SpansOf!Range(first[1])
               /\ last_[2] # <<>> => last_[2][1] = c /\ c \notin SpansOf!Range(Tail(last_[2]))
               /\ SpansOf!pg_span_skip_left_until_inclusive(text, c)
                    = IF first[2] = <<>> THEN text ELSE Tail(first[2])
  <1> DEFINE n == Len(text)
             is == {i \in 1 .. n : text[i] = c}
             f == SpansOf!FirstOf(is)
             l == SpansOf!LastOf(is)
             first == SpansOf!pg_span_split_at_first(text, c)
             final == SpansOf!pg_span_split_at_last(text, c)
  <1>1. text \in Seq(Alphabet) /\ n \in Nat /\ DOMAIN text = 1 .. n
    BY LenProperties DEF SpanInv
  <1>2. c \in SpansOf!Range(text) <=> is # {}
    BY <1>1 DEF SpansOf!Range
  <1>3. CASE is = {}
    <2>1. first = <<text, <<>>>> /\ final = <<text, <<>>>>
      BY <1>3 DEF SpansOf!pg_span_split_at_first, SpansOf!pg_span_split_at_last
    <2>2. text \o <<>> = text
      BY <1>1, ConcatEmptySeq
    <2>3. SpansOf!pg_span_skip_left_until_inclusive(text, c) = text
      BY <1>2, <1>3 DEF SpansOf!pg_span_skip_left_until_inclusive
    <2> HIDE DEF first, final
    <2> QED
      BY <1>2, <1>3, <2>1, <2>2, <2>3 DEF first, final
  <1>4. CASE is # {}
    <2>1. first = <<SubSeq(text, 1, f - 1), SpansOf!Tail0(text, f - 1)>>
      BY <1>4 DEF SpansOf!pg_span_split_at_first
    <2>2. final = <<SubSeq(text, 1, l - 1), SpansOf!Tail0(text, l - 1)>>
      BY <1>4 DEF SpansOf!pg_span_split_at_last
    <2>3. /\ f \in 1 .. n /\ text[f] = c /\ \A i \in 1 .. n : text[i] = c => f <= i
          /\ l \in 1 .. n /\ text[l] = c /\ \A i \in 1 .. n : text[i] = c => i <= l
      <3>1. is \in SUBSET (1 .. n)
        BY Zenon
      <3>2. f \in is /\ l \in is /\ \A j \in is : f <= j /\ j <= l
        <4> HIDE DEF is
        <4> QED
          BY <1>1, <1>4, <3>1, FirstAndLast
      <3> QED
        BY <3>2
    <2>4. SpansOf!pg_span_skip_left_until_inclusive(text, c) = SpansOf!Tail0(first[2], 1)
      BY <1>2, <1>4 DEF SpansOf!pg_span_skip_left_until_inclusive
    <2> HIDE DEF f, l, first, final, is
    <2>5. /\ first[1] \o first[2] = text /\ first[2] # <<>>
          /\ SpansOf!Tail0(first[2], 1) = Tail(first[2])
          /\ DOMAIN first[1] = 1 .. f - 1 /\ \A i \in 1 .. f - 1 : first[1][i] = text[i]
      <3>1. first[1] = SubSeq(text, 1, f - 1) /\ first[2] = SpansOf!Tail0(text, f - 1)
        BY <2>1
      <3>2. text \in Seq(Alphabet) /\ f \in 1 .. Len(text)
        BY <1>1, <2>3, Zenon
      <3>3. IsSplitAt(text, f, SubSeq(text, 1, f - 1), SpansOf!Tail0(text, f - 1))
        BY <3>2, PartsOf
      <3>4. IsSplitAt(text, f, first[1], first[2])
        BY <3>1, <3>3, Zenon
      <3> QED
        BY <2>3, <3>4, Zenon DEF IsSplitAt
    <2>6. /\ final[1] \o final[2] = text /\ final[2][1] = text[l]
          /\ DOMAIN Tail(final[2]) = 1 .. n - l /\ \A i \in 1 .. n - l : Tail(final[2])[i] = text[l + i]
      <3>1. final[1] = SubSeq(text, 1, l - 1) /\ final[2] = SpansOf!Tail0(text, l - 1)
        BY <2>2
      <3>2. text \in Seq(Alphabet) /\ l \in 1 .. Len(text)
        BY <1>1, <2>3, Zenon
      <3>3. IsSplitAt(text, l, SubSeq(text, 1, l - 1), SpansOf!Tail0(text, l - 1))
        BY <3>2, PartsOf
      <3>4. IsSplitAt(text, l, final[1], final[2])
        BY <3>1, <3>3, Zenon
      <3> QED
        BY <2>3, <3>4, Zenon DEF IsSplitAt
    <2>7. c \notin SpansOf!Range(first[1])
      <3> DEFINE left == first[1]
      <3>2. DOMAIN left = 1 .. f - 1 /\ \A i \in 1 .. f - 1 : left[i] = text[i]
        BY <2>5, Zenon
      <3> HIDE DEF left
      <3>3. ASSUME c \in SpansOf!Range(left) PROVE \E i \in 1 .. f - 1 : text[i] = c
        BY <3>2, <3>3, Zenon DEF SpansOf!Range
      <3> SUFFICES ASSUME NEW i \in 1 .. f - 1, text[i] = c PROVE FALSE
        BY <3>3, Zenon DEF left
      <3>1. i \in 1 .. n /\ ~(f <= i)
        BY <1>1, <2>3
      <3> QED
        BY <2>3, <3>1
    <2>8. c \notin SpansOf!Range(Tail(final[2]))
      <3> DEFINE right == Tail(final[2])
      <3>2. DOMAIN right = 1 .. n - l /\ \A i \in 1 .. n - l : right[i] = text[l + i]
        BY <2>6, Zenon
      <3> HIDE DEF right
      <3>3. ASSUME c \in SpansOf!Range(right) PROVE \E i \in 1 .. n - l : text[l + i] = c
        BY <3>2, <3>3, Zenon DEF SpansOf!Range
      <3> SUFFICES ASSUME NEW i \in 1 .. n - l, text[l + i] = c PROVE FALSE
        BY <3>3, Zenon DEF right
      <3>1. l + i \in 1 .. n /\ ~(l + i <= l)
        BY <1>1, <2>3
      <3> QED
        BY <2>3, <3>1
    <2> QED
      BY <2>3, <2>4, <2>5, <2>6, <2>7, <2>8 DEF first, final
  <1> QED
    BY <1>3, <1>4

\* A trimmed text starts after l spaces, ends before spaces, and has none at its
\* ends.
LEMMA TrimHolds ==
    ASSUME SpanInv
    PROVE  LET t == SpansOf!pg_span_trim(text) IN
           /\ t \in Seq(Alphabet)
           /\ t # <<>> => ~SpansOf!pg_char_is_space(t[1]) /\ ~SpansOf!pg_char_is_space(t[Len(t)])
           /\ \E l \in 0 .. Len(text) :
                 /\ SpansOf!IsAt(t, text, l + 1)
                 /\ \A i \in 1 .. Len(text) : i \in l + 1 .. l + Len(t) \/ SpansOf!pg_char_is_space(text[i])
           /\ SpansOf!pg_string_trim(text, {c \in Alphabet : SpansOf!pg_char_is_space(c)}) = t
  <1> DEFINE n == Len(text)
             kept == {i \in 1 .. n : ~SpansOf!pg_char_is_space(text[i])}
             f == SpansOf!FirstOf(kept)
             e == SpansOf!LastOf(kept)
             t == SpansOf!pg_span_trim(text)
             spaces == {c \in Alphabet : SpansOf!pg_char_is_space(c)}
             other == {i \in 1 .. n : text[i] \notin spaces \cup {SpansOf!NUL}}
  <1>1. text \in Seq(Alphabet) /\ n \in Nat /\ \A i \in 1 .. n : text[i] \in Alphabet
    BY LenProperties, ElementOfSeq DEF SpanInv
  <1>2. t = IF kept = {} THEN <<>> ELSE SubSeq(text, f, e)
    BY DEF SpansOf!pg_span_trim
  <1>3. SpansOf!pg_string_trim(text, spaces) = t
    <2>1. other = kept
      BY <1>1, SpanAssumption
    <2>2. SpansOf!pg_string_trim(text, spaces)
            = IF other = {} THEN <<>> ELSE SubSeq(text, SpansOf!FirstOf(other), SpansOf!LastOf(other))
      BY DEF SpansOf!pg_string_trim
    <2> HIDE DEF other, kept, t, spaces
    <2> QED
      BY <1>2, <2>1, <2>2 DEF f, e
  <1> HIDE DEF t
  <1>4. CASE kept = {}
    <2>1. t = <<>> /\ t \in Seq(Alphabet) /\ Len(t) = 0
      BY <1>2, <1>4
    <2> HIDE DEF kept, spaces, other
    <2>2. SpansOf!IsAt(t, text, 0 + 1)
      <3>1. 1 + Len(t) - 1 = 0 /\ 0 <= Len(text) /\ SubSeq(text, 1, 0) = t
        BY <1>1, <2>1, SubSeqEmpty
      <3> QED
        BY <3>1 DEF SpansOf!IsAt
    <2>3. 0 \in 0 .. Len(text) /\ \A i \in 1 .. Len(text) : SpansOf!pg_char_is_space(text[i])
      BY <1>1, <1>4 DEF kept
    <2> QED
      BY <1>3, <2>1, <2>2, <2>3 DEF t, spaces
  <1>5. CASE kept # {}
    <2>1. /\ f \in 1 .. n /\ ~SpansOf!pg_char_is_space(text[f])
          /\ e \in 1 .. n /\ ~SpansOf!pg_char_is_space(text[e])
          /\ \A i \in 1 .. n : (f <= i /\ i <= e) \/ SpansOf!pg_char_is_space(text[i])
          /\ f <= e
      <3>1. kept \in SUBSET (1 .. n)
        OBVIOUS
      <3>2. f \in kept /\ e \in kept /\ \A j \in kept : f <= j /\ j <= e
        <4> HIDE DEF kept
        <4> QED
          BY <1>1, <1>5, <3>1, FirstAndLast
      <3> QED
        BY <3>2
    <2> HIDE DEF f, e, kept
    <2>2. t = SubSeq(text, f, e)
      BY <1>2, <1>5
    <2>3. /\ f \in Nat /\ e \in Nat /\ 1 <= f /\ f <= e /\ e <= n
          /\ \A i \in f .. e : text[i] \in Alphabet
      BY <1>1, <2>1
    <2>4. t \in Seq(Alphabet) /\ Len(t) = e - f + 1 /\ \A i \in 1 .. e - f + 1 : t[i] = text[f + i - 1]
      <3>1. /\ t \in Seq(Alphabet) /\ Len(t) = IF f <= e THEN e - f + 1 ELSE 0
            /\ \A i \in 1 .. e - f + 1 : t[i] = text[f + i - 1]
        BY <2>2, <2>3, SubSeqProperties
      <3> QED
        BY <2>3, <3>1
    <2>5. t[1] = text[f] /\ t[Len(t)] = text[e]
      <3>1. 1 \in 1 .. e - f + 1 /\ f + 1 - 1 = f /\ e - f + 1 \in 1 .. e - f + 1 /\ f + (e - f + 1) - 1 = e
        BY <2>3
      <3> QED
        BY <2>4, <3>1
    <2> DEFINE l == f - 1
    <2>6. l \in 0 .. n /\ l + 1 = f /\ l + Len(t) = e
      BY <1>1, <2>3, <2>4
    <2>7. SpansOf!IsAt(t, text, f)
      <3>1. f \in Nat \ {0}
        BY <2>3
      <3>2. f + Len(t) - 1 <= Len(text)
        BY <1>1, <2>3, <2>4
      <3> QED
        BY <1>1, <2>4, <3>1, <3>2, AtIs
    <2>8. \A i \in 1 .. n : i \in l + 1 .. l + Len(t) \/ SpansOf!pg_char_is_space(text[i])
      BY <1>1, <2>1, <2>3, <2>6
    <2> HIDE DEF l
    <2> QED
      BY <1>3, <2>1, <2>4, <2>5, <2>6, <2>7, <2>8 DEF t
  <1> QED
    BY <1>4, <1>5

-----------------------------------------------------------------------------
(* Parsing. *)

\* A remainder may be taken before a multiplication.
WrapsOnce(a, b, d, n) == ((a % n) * b + d) % n = (a * b + d) % n

LEMMA ModTimes ==
    ASSUME NEW a \in Nat, NEW b \in Nat, NEW d \in Nat, NEW n \in Nat \ {0}
    PROVE  WrapsOnce(a, b, d, n)
  <1> DEFINE q == a \div n
             r == a % n
             c == r * b + d
             p == c \div n
             s == c % n
  <1>1. q \in Int /\ r \in Nat /\ a = n * q + r
    BY DivMod
  <1> HIDE DEF q, r
  <1>2. c \in Nat
    BY <1>1
  <1>3. a * b + d = n * (q * b) + c
    <2>1. (n * q + r) * b = n * (q * b) + r * b
      BY <1>1
    <2> QED
      BY <1>1, <2>1
  <1> HIDE DEF c
  <1>4. p \in Int /\ s \in Nat /\ s < n /\ c = n * p + s
    BY <1>2, DivMod
  <1> HIDE DEF p, s
  <1>5. a * b + d = n * (q * b + p) + s
    <2> DEFINE x == q * b
    <2>1. x \in Int
      BY <1>1
    <2> HIDE DEF x
    <2>2. n * (x + p) = n * x + n * p
      BY <1>4, <2>1
    <2>3. a * b + d = n * x + c
      BY <1>3 DEF x
    <2>4. n * x \in Int /\ n * p \in Int
      BY <1>4, <2>1
    <2>5. a * b + d = n * (x + p) + s
      BY <1>4, <2>2, <2>3, <2>4
    <2> QED
      BY <2>5 DEF x
  <1>6. (n * (q * b + p) + s) % n = s
    <2>1. q * b + p \in Int
      BY <1>1, <1>4
    <2> HIDE DEF q, p
    <2> QED
      BY <1>4, <2>1, DivModUnique
  <1> QED
    BY <1>5, <1>6 DEF c, r, s, WrapsOnce

AllIn(s, base) == \A k \in 1 .. Len(s) : s[k] \in SpansOf!Digits(base)

LEMMA DigitsAre ==
    /\ \A base : \A c \in SpansOf!Digits(base) : SpansOf!DigitValue[c] \in Nat
    /\ SpansOf!Digits(10) \subseteq SpansOf!Digits(16)
    /\ \A base : {"-", "+", "x"} \cap SpansOf!Digits(base) = {}
  BY DEF SpansOf!Digits, SpansOf!DigitValue

\* The functions that Number and Unsigned compute, digit by digit.
IsNumber(f, s, base) ==
    f = [n \in 0 .. Len(s) |-> IF n = 0 THEN 0 ELSE f[n - 1] * base + SpansOf!DigitValue[s[n]]]
NumberOf(s, base) == CHOOSE f : IsNumber(f, s, base)
IsWrapped(f, s, base) ==
    f = [n \in 0 .. Len(s) |-> IF n = 0 THEN 0 ELSE (f[n - 1] * base + SpansOf!DigitValue[s[n]]) % U64]
WrappedOf(s, base) == CHOOSE f : IsWrapped(f, s, base)

AddsDigits(f, s, base) ==
    f[0] = 0 /\ \A n \in 1 .. Len(s) : f[n] = f[n - 1] * base + SpansOf!DigitValue[s[n]]
AddsWrapped(f, s, base) ==
    f[0] = 0 /\ \A n \in 1 .. Len(s) : f[n] = (f[n - 1] * base + SpansOf!DigitValue[s[n]]) % U64

LEMMA NumberSteps ==
    ASSUME NEW f, NEW s, NEW base, Len(s) \in Nat
    PROVE  /\ IsNumber(f, s, base) => AddsDigits(f, s, base)
           /\ IsWrapped(f, s, base) => AddsWrapped(f, s, base)
  <1> DEFINE N == Len(s)
  <1>1. 0 \in 0 .. N /\ \A n \in 1 .. N : n \in 0 .. N /\ n # 0
    OBVIOUS
  <1> HIDE DEF N
  <1>2. ASSUME IsNumber(f, s, base)
        PROVE  f[0] = 0 /\ \A n \in 1 .. N : f[n] = f[n - 1] * base + SpansOf!DigitValue[s[n]]
    <2> DEFINE e(n) == f[n - 1] * base + SpansOf!DigitValue[s[n]]
    <2>1. f = [n \in 0 .. N |-> IF n = 0 THEN 0 ELSE e(n)]
      BY <1>2, Zenon DEF IsNumber, N
    <2> HIDE DEF e
    <2>2. f[0] = 0 /\ \A n \in 1 .. N : f[n] = e(n)
      BY <1>1, <2>1, Zenon
    <2> QED
      BY <2>2, Zenon DEF e
  <1>3. ASSUME IsWrapped(f, s, base)
        PROVE  f[0] = 0 /\ \A n \in 1 .. N : f[n] = (f[n - 1] * base + SpansOf!DigitValue[s[n]]) % U64
    <2> DEFINE e(n) == (f[n - 1] * base + SpansOf!DigitValue[s[n]]) % U64
    <2>1. f = [n \in 0 .. N |-> IF n = 0 THEN 0 ELSE e(n)]
      BY <1>3, Zenon DEF IsWrapped, N
    <2> HIDE DEF e
    <2>2. f[0] = 0 /\ \A n \in 1 .. N : f[n] = e(n)
      BY <1>1, <2>1, Zenon
    <2> QED
      BY <2>2, Zenon DEF e
  <1> QED
    BY <1>2, <1>3, Zenon DEF N, AddsDigits, AddsWrapped

LEMMA NumbersExist ==
    ASSUME NEW s \in Seq(Alphabet), NEW base \in Nat, AllIn(s, base)
    PROVE  IsNumber(NumberOf(s, base), s, base) /\ IsWrapped(WrappedOf(s, base), s, base)
  <1> DEFINE N == Len(s)
             digit == [n \in 1 .. N |-> SpansOf!DigitValue[s[n]]]
             rule == [p \in (1 .. N) \X Nat |-> p[2] * base + digit[p[1]]]
             wrap == [p \in (1 .. N) \X Nat |-> (p[2] * base + digit[p[1]]) % U64]
  <1>1. N \in Nat /\ digit \in [1 .. N -> Nat] /\ \A n \in 1 .. N : digit[n] = SpansOf!DigitValue[s[n]]
    BY LenProperties, DigitsAre DEF AllIn
  <1> HIDE DEF digit
  <1>2. /\ rule \in [(1 .. N) \X Nat -> Nat]
        /\ \A n \in 1 .. N, x \in Nat : rule[<<n, x>>] = x * base + digit[n]
    BY <1>1
  <1>3. /\ wrap \in [(1 .. N) \X Nat -> Nat]
        /\ \A n \in 1 .. N, x \in Nat : wrap[<<n, x>>] = (x * base + digit[n]) % U64
    <2> HIDE DEF N
    <2>1. ASSUME NEW n \in 1 .. N, NEW x \in Nat PROVE (x * base + digit[n]) % U64 \in Nat
      <3>1. x * base + digit[n] \in Nat
        BY <1>1
      <3>2. U64 \in Nat \ {0}
        BY SpanAssumption, Zenon
      <3> HIDE DEF wrap, rule
      <3> QED
        BY <3>1, <3>2, DivMod, SMTT(30)
    <2>2. wrap \in [(1 .. N) \X Nat -> Nat]
      <3> DEFINE e(p) == (p[2] * base + digit[p[1]]) % U64
      <3>1. ASSUME NEW p \in (1 .. N) \X Nat PROVE e(p) \in Nat
        <4>1. p[1] \in 1 .. N /\ p[2] \in Nat
          OBVIOUS
        <4> QED
          BY <2>1, <4>1, Zenon
      <3>2. wrap = [p \in (1 .. N) \X Nat |-> e(p)]
        OBVIOUS
      <3> HIDE DEF wrap, e
      <3> QED
        BY <3>1, <3>2, Zenon
    <2>3. ASSUME NEW n \in 1 .. N, NEW x \in Nat
          PROVE  wrap[<<n, x>>] = (x * base + digit[n]) % U64
      OBVIOUS
    <2> HIDE DEF wrap
    <2> QED
      BY <2>2, <2>3, Zenon
  <1> HIDE DEF rule, wrap
  <1>4. (\E f : IsRecursive(f, N, Nat, 0, rule)) /\ (\E f : IsRecursive(f, N, Nat, 0, wrap))
    <2> DEFINE V == Nat
    <2>1. N \in Nat /\ 0 \in V /\ rule \in [(1 .. N) \X V -> V] /\ wrap \in [(1 .. N) \X V -> V]
      BY <1>1, <1>2, <1>3
    <2> HIDE DEF N, V
    <2>2. (\E f : IsRecursive(f, N, V, 0, rule)) /\ (\E f : IsRecursive(f, N, V, 0, wrap))
      BY <2>1, RecursionExists, Zenon
    <2> QED
      BY <2>2 DEF V
  <1>5. ASSUME NEW f, IsRecursive(f, N, Nat, 0, rule)
        PROVE  IsNumber(f, s, base)
    <2> DEFINE g == [n \in 0 .. N |-> IF n = 0 THEN 0 ELSE f[n - 1] * base + SpansOf!DigitValue[s[n]]]
    <2>1. f \in [0 .. N -> Nat] /\ f[0] = 0 /\ \A n \in 1 .. N : f[n] = rule[<<n, f[n - 1]>>]
      BY <1>5 DEF IsRecursive
    <2> HIDE DEF N
    <2>2. ASSUME NEW n \in 0 .. N PROVE g[n] = f[n]
      <3>1. CASE n = 0
        BY <2>1, <3>1
      <3>2. CASE n # 0
        <4>1. n \in 1 .. N /\ n - 1 \in 0 .. N
          BY <1>1, <3>2
        <4>2. f[n - 1] \in Nat
          BY <2>1, <4>1
        <4>3. f[n] = f[n - 1] * base + SpansOf!DigitValue[s[n]]
          <5> DEFINE x == f[n - 1]
          <5>1. x \in Nat /\ f[n] = rule[<<n, x>>] /\ digit[n] = SpansOf!DigitValue[s[n]]
            BY <1>1, <2>1, <4>1, <4>2
          <5> HIDE DEF x
          <5>2. rule[<<n, x>>] = x * base + digit[n]
            BY <1>2, <4>1, <5>1, Zenon
          <5>3. f[n] = x * base + SpansOf!DigitValue[s[n]]
            BY <5>1, <5>2, Zenon
          <5> QED
            BY <5>3 DEF x
        <4> QED
          BY <3>2, <4>3
      <3> QED
        BY <3>1, <3>2
    <2>3. g = [n \in 0 .. N |-> g[n]] /\ f = [n \in 0 .. N |-> f[n]]
      BY <2>1
    <2> HIDE DEF g
    <2>4. f = g
      BY <2>2, <2>3
    <2> QED
      BY <2>4 DEF IsNumber, g, N
  <1>6. ASSUME NEW f, IsRecursive(f, N, Nat, 0, wrap)
        PROVE  IsWrapped(f, s, base)
    <2> DEFINE g == [n \in 0 .. N |-> IF n = 0 THEN 0 ELSE (f[n - 1] * base + SpansOf!DigitValue[s[n]]) % U64]
    <2>1. f \in [0 .. N -> Nat] /\ f[0] = 0 /\ \A n \in 1 .. N : f[n] = wrap[<<n, f[n - 1]>>]
      BY <1>6 DEF IsRecursive
    <2> HIDE DEF N
    <2>2. ASSUME NEW n \in 0 .. N PROVE g[n] = f[n]
      <3>1. CASE n = 0
        BY <2>1, <3>1
      <3>2. CASE n # 0
        <4>1. n \in 1 .. N /\ n - 1 \in 0 .. N
          BY <1>1, <3>2
        <4>2. f[n - 1] \in Nat
          BY <2>1, <4>1
        <4>3. f[n] = (f[n - 1] * base + SpansOf!DigitValue[s[n]]) % U64
          <5> DEFINE x == f[n - 1]
          <5>1. x \in Nat /\ f[n] = wrap[<<n, x>>] /\ digit[n] = SpansOf!DigitValue[s[n]]
            BY <1>1, <2>1, <4>1, <4>2
          <5> HIDE DEF x
          <5>2. wrap[<<n, x>>] = (x * base + digit[n]) % U64
            BY <1>3, <4>1, <5>1, Zenon
          <5>3. f[n] = (x * base + SpansOf!DigitValue[s[n]]) % U64
            BY <5>1, <5>2, Zenon
          <5> QED
            BY <5>3 DEF x
        <4> QED
          BY <3>2, <4>3
      <3> QED
        BY <3>1, <3>2
    <2>3. g = [n \in 0 .. N |-> g[n]] /\ f = [n \in 0 .. N |-> f[n]]
      BY <2>1
    <2> HIDE DEF g
    <2>4. f = g
      BY <2>2, <2>3
    <2> QED
      BY <2>4 DEF IsWrapped, g, N
  <1> QED
    BY <1>4, <1>5, <1>6, Zenon DEF NumberOf, WrappedOf

\* What is parsed is the number, up to a multiple of 2^64.
LEMMA UnsignedIs ==
    ASSUME NEW s \in Seq(Alphabet), NEW base \in Nat
    PROVE  /\ SpansOf!Unsigned(s, base).valid <=> AllIn(s, base)
           /\ SpansOf!Unsigned(s, base).valid
                => /\ SpansOf!Number(s, base) \in Nat
                   /\ SpansOf!Unsigned(s, base) = [valid |-> TRUE, value |-> SpansOf!Number(s, base) % U64]
  <1> DEFINE N == Len(s)
             t == NumberOf(s, base)
             u == WrappedOf(s, base)
             digits == SpansOf!DigitValue
  <1>0. \A x, d \in Nat : ((x % U64) * base + d) % U64 = (x * base + d) % U64
    <2> SUFFICES ASSUME NEW x \in Nat, NEW d \in Nat
                 PROVE  ((x % U64) * base + d) % U64 = (x * base + d) % U64
      OBVIOUS
    <2>1. U64 \in Nat \ {0}
      BY SpanAssumption
    <2> HIDE DEF N, t, u, digits
    <2>2. WrapsOnce(x, base, d, U64)
      BY <2>1, ModTimes
    <2> QED
      BY <2>2, Zenon DEF WrapsOnce
  <1>1. /\ SpansOf!Number(s, base) = t[N]
        /\ SpansOf!Unsigned(s, base) = IF ~AllIn(s, base) THEN SpansOf!Invalid ELSE [valid |-> TRUE, value |-> u[N]]
    BY DEF SpansOf!Number, SpansOf!Unsigned, NumberOf, WrappedOf, IsNumber, IsWrapped, AllIn
  <1>2. SpansOf!Invalid.valid = FALSE
    BY DEF SpansOf!Invalid
  <1>3. ASSUME AllIn(s, base)
        PROVE  t[N] \in Nat /\ u[N] = t[N] % U64
    <2>1. IsNumber(t, s, base) /\ IsWrapped(u, s, base)
      BY <1>3, NumbersExist
    <2> HIDE DEF t, u
    <2>2. N \in Nat /\ U64 \in Nat \ {0} /\ \A n \in 1 .. N : digits[s[n]] \in Nat
      BY <1>3, LenProperties, DigitsAre, SpanAssumption DEF AllIn
    <2>3. t[0] = 0 /\ \A n \in 1 .. N : t[n] = t[n - 1] * base + digits[s[n]]
      <3>1. AddsDigits(t, s, base)
        BY <2>1, <2>2, NumberSteps
      <3> QED
        BY <3>1, Zenon DEF AddsDigits
    <2>4. u[0] = 0 /\ \A n \in 1 .. N : u[n] = (u[n - 1] * base + digits[s[n]]) % U64
      <3>1. AddsWrapped(u, s, base)
        BY <2>1, <2>2, NumberSteps
      <3> QED
        BY <3>1, Zenon DEF AddsWrapped
    <2> HIDE DEF N, digits
    <2> DEFINE S == {n \in 0 .. N : t[n] \in Nat /\ u[n] = t[n] % U64}
    <2>5. 0 \in S
      <3>1. 0 \in Nat /\ (U64 * 0 + 0) % U64 = 0
        BY <2>2, DivModUnique
      <3>2. U64 * 0 + 0 = 0
        BY <2>2
      <3>3. 0 % U64 = 0
        BY <3>1, <3>2
      <3> QED
        BY <2>2, <2>3, <2>4, <3>3
    <2>6. ASSUME NEW n \in 0 .. N - 1, n \in S PROVE n + 1 \in S
      <3>1. n + 1 \in 1 .. N /\ n + 1 \in 0 .. N /\ n + 1 - 1 = n
        BY <2>2
      <3> DEFINE x == t[n]
                 d == digits[s[n + 1]]
      <3>2. x \in Nat /\ u[n] = x % U64 /\ d \in Nat
        BY <2>2, <2>6, <3>1
      <3>3. t[n + 1] = x * base + d /\ u[n + 1] = (u[n] * base + d) % U64
        BY <2>3, <2>4, <3>1
      <3> HIDE DEF x, d
      <3>4. ((x % U64) * base + d) % U64 = (x * base + d) % U64
        BY <1>0, <3>2
      <3>5. x * base + d \in Nat
        BY <3>2
      <3>6. t[n + 1] \in Nat
        BY <3>3, <3>5
      <3>7. u[n + 1] = t[n + 1] % U64
        BY <3>2, <3>3, <3>4
      <3> QED
        BY <3>1, <3>6, <3>7
    <2>7. \A n \in 0 .. N : n \in S
      <3> HIDE DEF S
      <3> QED
        BY <2>2, <2>5, <2>6, UpToInduction
    <2>8. N \in 0 .. N
      BY <2>2
    <2> QED
      BY <2>7, <2>8
  <1> HIDE DEF t, u, N
  <1>4. CASE AllIn(s, base)
    <2>1. SpansOf!Unsigned(s, base) = [valid |-> TRUE, value |-> u[N]]
      BY <1>1, <1>4
    <2>2. u[N] = SpansOf!Number(s, base) % U64 /\ SpansOf!Number(s, base) \in Nat
      BY <1>1, <1>3, <1>4
    <2>3. SpansOf!Unsigned(s, base) = [valid |-> TRUE, value |-> SpansOf!Number(s, base) % U64]
      BY <2>1, <2>2
    <2> QED
      BY <1>4, <2>2, <2>3
  <1>5. CASE ~AllIn(s, base)
    BY <1>1, <1>2, <1>5
  <1> QED
    BY <1>4, <1>5

\* The function that Accumulated computes, and its steps.
IsChecked(f, s) ==
    f = [n \in 0 .. Len(s) |-> IF n = 0 THEN 0 ELSE SpansOf!NextDigit(f[n - 1], SpansOf!DigitValue[s[n]])]
CheckedOf(s) == CHOOSE f : IsChecked(f, s)
AddsChecked(f, s) ==
    f[0] = 0 /\ \A n \in 1 .. Len(s) : f[n] = SpansOf!NextDigit(f[n - 1], SpansOf!DigitValue[s[n]])

LEMMA CheckedSteps ==
    ASSUME NEW f, NEW s, Len(s) \in Nat
    PROVE  /\ IsChecked(f, s) => AddsChecked(f, s)
           /\ AddsChecked(f, s) /\ f = [n \in 0 .. Len(s) |-> f[n]] => IsChecked(f, s)
  <1> DEFINE N == Len(s)
             e(n) == SpansOf!NextDigit(f[n - 1], SpansOf!DigitValue[s[n]])
  <1>1. /\ 0 \in 0 .. N /\ \A n \in 1 .. N : n \in 0 .. N /\ n # 0
        /\ \A n \in 0 .. N : n # 0 => n \in 1 .. N
    OBVIOUS
  <1>2. /\ IsChecked(f, s) <=> f = [n \in 0 .. N |-> IF n = 0 THEN 0 ELSE e(n)]
        /\ AddsChecked(f, s) <=> f[0] = 0 /\ \A n \in 1 .. N : f[n] = e(n)
    BY Zenon DEF IsChecked, AddsChecked
  <1> HIDE DEF N, e
  <1>3. ASSUME f = [n \in 0 .. N |-> IF n = 0 THEN 0 ELSE e(n)]
        PROVE  f[0] = 0 /\ \A n \in 1 .. N : f[n] = e(n)
    BY <1>1, <1>3, Zenon
  <1>4. ASSUME f[0] = 0, \A n \in 1 .. N : f[n] = e(n), f = [n \in 0 .. N |-> f[n]]
        PROVE  f = [n \in 0 .. N |-> IF n = 0 THEN 0 ELSE e(n)]
    BY <1>1, <1>4
  <1> QED
    BY <1>2, <1>3, <1>4, Zenon DEF N

\* A number that fits is accumulated without an overflow.
LEMMA AccumulatedIs ==
    ASSUME NEW s \in Seq(Alphabet), AllIn(s, 10), SpansOf!Number(s, 10) < U64 \div 2
    PROVE  SpansOf!Number(s, 10) \in Nat /\ SpansOf!Accumulated(s) = SpansOf!Number(s, 10)
  <1> DEFINE N == Len(s)
             t == NumberOf(s, 10)
             c == CheckedOf(s)
             digit(n) == SpansOf!DigitValue[s[n]]
             H == U64 \div 2
  <1>1. SpansOf!Number(s, 10) = t[N] /\ SpansOf!Accumulated(s) = c[N]
    BY DEF SpansOf!Number, SpansOf!Accumulated, NumberOf, IsNumber, CheckedOf, IsChecked
  <1>2. N \in Nat /\ H \in Int /\ \A n \in 1 .. N : digit(n) \in Nat
    BY LenProperties, DigitsAre, SpanAssumption DEF AllIn
  <1>3. IsNumber(t, s, 10)
    BY NumbersExist
  <1>4. t = [n \in 0 .. N |-> IF n = 0 THEN 0 ELSE t[n - 1] * 10 + digit(n)]
    BY <1>3, Zenon DEF IsNumber
  <1>5. t[0] = 0 /\ \A n \in 1 .. N : t[n] = t[n - 1] * 10 + digit(n)
    <2>1. AddsDigits(t, s, 10)
      BY <1>2, <1>3, NumberSteps
    <2> QED
      BY <2>1, Zenon DEF AddsDigits
  <1>6. t = [n \in 0 .. N |-> t[n]]
    <2> HIDE DEF t, digit, N
    <2> QED
      BY <1>4
  <1>7. t[N] < H
    BY <1>1
  <1> HIDE DEF t, c, N, digit, H
  <1> DEFINE S == {n \in 0 .. N : t[n] \in Nat}
  <1>8. \A n \in 0 .. N : n \in S
    <2>1. 0 \in S
      BY <1>2, <1>5
    <2>2. ASSUME NEW n \in 0 .. N - 1, n \in S PROVE n + 1 \in S
      <3>1. n + 1 \in 1 .. N /\ n + 1 \in 0 .. N /\ n + 1 - 1 = n
        BY <1>2
      <3> QED
        BY <1>2, <1>5, <2>2, <3>1
    <2> HIDE DEF S
    <2> QED
      BY <1>2, <2>1, <2>2, UpToInduction
  <1> DEFINE Back == {k \in 0 .. N : t[N - k] <= t[N]}
  <1>9. \A k \in 0 .. N : k \in Back
    <2>1. 0 \in Back
      BY <1>2, <1>8
    <2>2. ASSUME NEW k \in 0 .. N - 1, k \in Back PROVE k + 1 \in Back
      <3>1. /\ k + 1 \in 0 .. N /\ N - k \in 1 .. N /\ N - k - 1 \in 0 .. N /\ N - (k + 1) = N - k - 1
            /\ N - k \in 0 .. N /\ N \in 0 .. N
        BY <1>2
      <3>2. t[N - k] = t[N - k - 1] * 10 + digit(N - k)
        BY <1>5, <3>1
      <3>3. t[N - k - 1] \in Nat /\ t[N - k] \in Nat /\ t[N] \in Nat /\ digit(N - k) \in Nat
        BY <1>2, <1>8, <3>1
      <3>4. t[N - k - 1] <= t[N]
        BY <2>2, <3>2, <3>3
      <3> QED
        BY <3>1, <3>4
    <2> HIDE DEF Back
    <2> QED
      BY <1>2, <2>1, <2>2, UpToInduction
  <1>10. ASSUME NEW n \in 1 .. N PROVE t[n] = SpansOf!NextDigit(t[n - 1], digit(n))
    <2>1. n \in 0 .. N /\ n - 1 \in 0 .. N /\ N - n \in 0 .. N /\ N - (N - n) = n
      BY <1>2
    <2>2. t[n - 1] \in Nat /\ t[n] \in Nat /\ t[n] <= t[N] /\ t[N] \in Nat
      <3>1. N - n \in Back
        BY <1>9, <2>1, Zenon
      <3>2. t[n] <= t[N]
        BY <2>1, <3>1
      <3>3. N \in 0 .. N
        BY <1>2
      <3> QED
        BY <1>8, <2>1, <3>2, <3>3
    <2>3. t[n] = t[n - 1] * 10 + digit(n) /\ t[n - 1] # -1 /\ ~(t[n] >= H)
      BY <1>2, <1>5, <1>7, <2>2
    <2> QED
      BY <2>3, Zenon DEF SpansOf!NextDigit, SpansOf!Overflowed, H
  <1>11. IsChecked(t, s)
    <2>1. AddsChecked(t, s)
      BY <1>5, <1>10, Zenon DEF AddsChecked, N, digit
    <2> QED
      BY <1>2, <1>6, <2>1, CheckedSteps DEF N
  <1>12. c[0] = 0 /\ \A n \in 1 .. N : c[n] = SpansOf!NextDigit(c[n - 1], digit(n))
    <2>1. IsChecked(c, s)
      BY <1>11, Zenon DEF c, CheckedOf
    <2>2. AddsChecked(c, s)
      BY <1>2, <2>1, CheckedSteps DEF N
    <2> QED
      BY <2>2, Zenon DEF AddsChecked, N, digit
  <1> DEFINE E == {n \in 0 .. N : c[n] = t[n]}
  <1>13. \A n \in 0 .. N : n \in E
    <2>1. 0 \in E
      BY <1>2, <1>5, <1>12
    <2>2. ASSUME NEW n \in 0 .. N - 1, n \in E PROVE n + 1 \in E
      <3>1. n + 1 \in 1 .. N /\ n + 1 \in 0 .. N /\ n + 1 - 1 = n
        BY <1>2
      <3>2. c[n + 1] = SpansOf!NextDigit(c[n], digit(n + 1)) /\ t[n + 1] = SpansOf!NextDigit(t[n], digit(n + 1))
        <4> DEFINE m == n + 1
        <4>1. m \in 1 .. N /\ m - 1 = n
          BY <3>1
        <4> HIDE DEF m
        <4>2. c[m] = SpansOf!NextDigit(c[m - 1], digit(m)) /\ t[m] = SpansOf!NextDigit(t[m - 1], digit(m))
          BY <1>10, <1>12, <4>1, Zenon
        <4> QED
          BY <4>1, <4>2, Zenon DEF m
      <3>3. c[n] = t[n]
        BY <2>2
      <3> QED
        BY <3>1, <3>2, <3>3
    <2> HIDE DEF E
    <2> QED
      BY <1>2, <2>1, <2>2, UpToInduction
  <1>14. N \in 0 .. N
    BY <1>2
  <1> QED
    BY <1>1, <1>8, <1>13, <1>14

\* A text without an x has no 0x to be skipped.
LEMMA No0x ==
    ASSUME NEW s \in Seq(Alphabet), \A k \in 1 .. Len(s) : s[k] # "x"
    PROVE  SpansOf!Without0x(s, <<SpansOf!NUL>>) = s
  <1> DEFINE needle == <<"0", "x">>
             m == s \o <<SpansOf!NUL>>
             starts == {i \in 1 .. 2 : m[i] = "0"}
             f == SpansOf!FirstOf(starts)
  <1> SUFFICES ASSUME 2 <= Len(s), SpansOf!pg_memmem(m, 2, needle)
               PROVE  FALSE
    BY DEF SpansOf!Without0x, SpansOf!pg_span_starts_with
  <1>1. Len(s) \in Nat /\ Len(m) = Len(s) + 1 /\ \A i \in 1 .. Len(s) + 1 : m[i] = IF i <= Len(s) THEN s[i] ELSE SpansOf!NUL
    <2> DEFINE C == Alphabet \cup {SpansOf!NUL}
    <2>1. s \in Seq(C)
      BY SeqMonotonic
    <2>2. SpansOf!NUL \in C
      OBVIOUS
    <2> HIDE DEF C
    <2> QED
      BY <2>1, <2>2, OneMore, LenProperties
  <1> HIDE DEF m
  <1>2. starts # {} /\ f + 2 - 1 <= Len(m) /\ m[f + 2 - 1] = "x"
    BY DEF SpansOf!pg_memmem
  <1>3. f \in 1 .. 2
    <2>1. starts \in SUBSET (1 .. 2) /\ 2 \in Nat
      OBVIOUS
    <2> HIDE DEF starts
    <2> QED
      BY <1>2, <2>1, FirstAndLast
  <1> HIDE DEF f, starts
  <1>4. f + 2 - 1 \in 1 .. Len(s) + 1
    BY <1>1, <1>2, <1>3
  <1>5. SpansOf!NUL # "x"
    BY DEF SpansOf!NUL
  <1> QED
    BY <1>1, <1>2, <1>4, <1>5

\* The texts without a sign and without 0x are of the same alphabet.
LEMMA TextsOf ==
    ASSUME NEW r \in Seq(Alphabet)
    PROVE  /\ SpansOf!WithoutSign(r) \in Seq(Alphabet)
           /\ \A k \in 1 .. Len(SpansOf!WithoutSign(r)) : \E l \in 1 .. Len(r) : SpansOf!WithoutSign(r)[k] = r[l]
           /\ SpansOf!Without0x(r, <<SpansOf!NUL>>) \in Seq(Alphabet)
  <1> DEFINE d == SpansOf!WithoutSign(r)
             z == SpansOf!Without0x(r, <<SpansOf!NUL>>)
  <1>1. ASSUME r # <<>>, r[1] \in {"-", "+"}
        PROVE  d \in Seq(Alphabet) /\ \A k \in 1 .. Len(d) : \E l \in 1 .. Len(r) : d[k] = r[l]
    <2>1. d = Tail(r)
      BY <1>1 DEF SpansOf!WithoutSign
    <2>2. d \in Seq(Alphabet) /\ Len(d) = Len(r) - 1 /\ \A k \in 1 .. Len(d) : d[k] = r[k + 1]
      BY <1>1, <2>1, HeadTailProperties
    <2> HIDE DEF d
    <2>3. \A k \in 1 .. Len(d) : k + 1 \in 1 .. Len(r)
      BY <2>2, LenProperties
    <2>4. ASSUME NEW k \in 1 .. Len(d) PROVE \E l \in 1 .. Len(r) : d[k] = r[l]
      BY <2>2, <2>3
    <2> QED
      BY <2>2, <2>4
  <1>2. ASSUME ~(r # <<>> /\ r[1] \in {"-", "+"})
        PROVE  d \in Seq(Alphabet) /\ \A k \in 1 .. Len(d) : \E l \in 1 .. Len(r) : d[k] = r[l]
    <2>1. d = r
      BY <1>2 DEF SpansOf!WithoutSign
    <2> HIDE DEF d
    <2> QED
      BY <2>1
  <1>3. z \in Seq(Alphabet)
    <2>1. z = r \/ (z = SpansOf!Tail0(r, 2) /\ 2 <= Len(r))
      BY DEF SpansOf!Without0x, SpansOf!pg_span_starts_with
    <2>2. 2 <= Len(r) => SpansOf!Tail0(r, 2) \in Seq(Alphabet)
      <3>1. 2 <= Len(r) => 2 \in 0 .. Len(r)
        BY LenProperties
      <3> QED
        BY <3>1, SubSequence DEF SpansOf!Tail0
    <2> QED
      BY <2>1, <2>2
  <1>4. d \in Seq(Alphabet) /\ \A k \in 1 .. Len(d) : \E l \in 1 .. Len(r) : d[k] = r[l]
    <2> HIDE DEF d
    <2> QED
      BY <1>1, <1>2
  <1> QED
    BY <1>3, <1>4, Zenon DEF d, z

\* What the signed parsers may return of a text without its sign.
DecimalOf(sign, d) ==
    IF \E i \in 1 .. Len(d) : d[i] \notin SpansOf!Digits(10) THEN {SpansOf!Invalid}
    ELSE SpansOf!Results(IF SpansOf!Accumulated(d) = SpansOf!Overflowed THEN SpansOf!I64s
                         ELSE {sign * SpansOf!Accumulated(d)})
HexOf(sign, n) ==
    IF ~n.valid THEN {SpansOf!Invalid}
    ELSE SpansOf!Results(IF sign = -1 /\ n.value = U64 \div 2 THEN SpansOf!I64s
                         ELSE {sign * SpansOf!AsI64(n.value)})

LEMMA ResultsAre == \A S : \A i \in SpansOf!Results(S) : i.valid = TRUE /\ i.value \in S
  BY DEF SpansOf!Results

LEMMA DecimalIs ==
    ASSUME NEW d \in Seq(Alphabet), NEW sign, NEW i \in DecimalOf(sign, d)
    PROVE  /\ i.valid <=> AllIn(d, 10)
           /\ i.valid /\ SpansOf!Number(d, 10) < U64 \div 2 => i.value = sign * SpansOf!Number(d, 10)
  <1>1. CASE ~AllIn(d, 10)
    <2>1. i = SpansOf!Invalid
      BY <1>1 DEF DecimalOf, AllIn
    <2>2. ~i.valid
      BY <2>1 DEF SpansOf!Invalid
    <2> QED
      BY <1>1, <2>2
  <1>2. CASE AllIn(d, 10)
    <2> DEFINE n == SpansOf!Accumulated(d)
               S == IF n = SpansOf!Overflowed THEN SpansOf!I64s ELSE {sign * n}
    <2>1. i \in SpansOf!Results(S)
      BY <1>2, Zenon DEF DecimalOf, AllIn
    <2> HIDE DEF S
    <2>2. i.valid = TRUE /\ i.value \in S
      BY <2>1, ResultsAre
    <2>3. ASSUME SpansOf!Number(d, 10) < U64 \div 2
          PROVE  i.value = sign * SpansOf!Number(d, 10)
      <3>1. SpansOf!Number(d, 10) \in Nat /\ n = SpansOf!Number(d, 10)
        BY <1>2, <2>3, AccumulatedIs
      <3> HIDE DEF n
      <3>2. n # SpansOf!Overflowed
        BY <3>1 DEF SpansOf!Overflowed
      <3>3. i.value = sign * n
        BY <2>2, <3>2, Zenon DEF S
      <3> QED
        BY <3>1, <3>3, Zenon
    <2> QED
      BY <1>2, <2>2, <2>3, Zenon
  <1> QED
    BY <1>1, <1>2

LEMMA HexIs ==
    ASSUME NEW sign, NEW n, NEW j \in HexOf(sign, n), n.valid => n.value \in Nat, n.valid \in BOOLEAN
    PROVE  /\ j.valid <=> n.valid
           /\ n.valid /\ n.value < U64 \div 2 => j.value = sign * n.value
           /\ n.valid /\ sign = 1 => j.value \in {n.value, n.value - U64}
  <1>1. CASE ~n.valid
    <2>1. j = SpansOf!Invalid
      BY <1>1 DEF HexOf
    <2>2. ~j.valid
      BY <2>1 DEF SpansOf!Invalid
    <2> QED
      BY <1>1, <2>2
  <1>2. CASE n.valid
    <2> DEFINE v == n.value
               H == U64 \div 2
               S == IF sign = -1 /\ v = H THEN SpansOf!I64s ELSE {sign * SpansOf!AsI64(v)}
    <2>1. j \in SpansOf!Results(S)
      BY <1>2, Zenon DEF HexOf
    <2>2. v \in Nat /\ U64 \in Nat /\ H \in Int
      BY <1>2, SpanAssumption
    <2>3. SpansOf!AsI64(v) = IF v < H THEN v ELSE v - U64
      BY DEF SpansOf!AsI64
    <2> HIDE DEF S, v, H
    <2>4. j.valid = TRUE /\ j.value \in S
      BY <2>1, ResultsAre
    <2>5. ASSUME v < H PROVE j.value = sign * v
      <3>1. v # H /\ SpansOf!AsI64(v) = v
        BY <2>2, <2>3, <2>5
      <3> QED
        BY <2>4, <3>1, Zenon DEF S
    <2>6. ASSUME sign = 1 PROVE j.value \in {v, v - U64}
      <3>1. j.value = 1 * SpansOf!AsI64(v)
        <4>1. sign # -1
          BY <2>6
        <4> QED
          BY <2>4, <2>6, <4>1, Zenon DEF S
      <3> QED
        BY <2>2, <2>3, <3>1
    <2> QED
      BY <1>2, <2>4, <2>5, <2>6, Zenon DEF v, H
  <1> QED
    BY <1>1, <1>2

LEMMA ParseHolds == SpanInv => SpansOf!ParsesTheNumber
  <1> DEFINE r == SpansOf!pg_span_trim(text)
             s == SpansOf!Sign(r)
             t == SpansOf!WithoutPlus(r)
             d == SpansOf!WithoutSign(r)
             negative == r # <<>> /\ r[1] = "-"
             u == SpansOf!pg_span_parse_u64_decimal(text)
             h == SpansOf!pg_span_parse_u64_hex(text, <<SpansOf!NUL>>)
             z == SpansOf!Without0x(t, <<SpansOf!NUL>>)
             y == SpansOf!Without0x(d, <<SpansOf!NUL>>)
             w == SpansOf!Unsigned(y, 16)
             I == SpansOf!pg_span_parse_i64_decimal(text)
             J == SpansOf!pg_span_parse_i64_hex(text, <<SpansOf!NUL>>)
  <1> SUFFICES ASSUME SpanInv
               PROVE  /\ u.valid <=> AllIn(t, 10)
                      /\ u.valid /\ SpansOf!Number(t, 10) < U64 => u.value = SpansOf!Number(t, 10)
                      /\ h.valid /\ "x" \notin SpansOf!Range(text) /\ SpansOf!Number(t, 16) < U64
                           => h.value = SpansOf!Number(t, 16)
                      /\ u.valid => h.valid
                      /\ \A i \in I :
                           /\ i.valid <=> AllIn(d, 10)
                           /\ i.valid /\ SpansOf!Number(d, 10) < U64 \div 2 => i.value = s * SpansOf!Number(d, 10)
                      /\ \A j \in J :
                           /\ j.valid /\ "x" \notin SpansOf!Range(text) /\ SpansOf!Number(d, 16) < U64 \div 2
                                => j.value = s * SpansOf!Number(d, 16)
                           /\ h.valid => j.valid /\ j.value \in {h.value, h.value - U64}
    BY Zenon DEF SpansOf!ParsesTheNumber, AllIn
  <1>1. /\ r \in Seq(Alphabet)
        /\ \A k \in 1 .. Len(r) : \E l \in 1 .. Len(text) : r[k] = text[l]
    <2>1. r \in Seq(Alphabet) /\ \E l \in 0 .. Len(text) : SpansOf!IsAt(r, text, l + 1)
      BY TrimHolds
    <2> HIDE DEF r
    <2>2. PICK l \in 0 .. Len(text) : SpansOf!IsAt(r, text, l + 1)
      BY <2>1
    <2>3. text \in Seq(Alphabet) /\ Len(text) \in Nat /\ Len(r) \in Nat /\ l + 1 \in Nat \ {0}
      BY <2>1, LenProperties DEF SpanInv
    <2>4. l + 1 + Len(r) - 1 <= Len(text) /\ \A k \in 1 .. Len(r) : text[l + 1 + k - 1] = r[k]
      BY <2>1, <2>2, <2>3, AtIs
    <2>5. ASSUME NEW k \in 1 .. Len(r) PROVE \E m \in 1 .. Len(text) : r[k] = text[m]
      <3>1. l + 1 + k - 1 \in 1 .. Len(text)
        BY <2>3, <2>4
      <3> QED
        BY <2>4, <3>1
    <2> QED
      BY <2>1, <2>5
  <1>2. /\ t \in Seq(Alphabet)
        /\ \A k \in 1 .. Len(t) : \E l \in 1 .. Len(r) : t[k] = r[l]
        /\ negative => t = r
    <2> HIDE DEF r
    <2>1. CASE r # <<>> /\ r[1] = "+"
      <3>1. t = Tail(r)
        BY <2>1 DEF SpansOf!WithoutPlus
      <3>2. t \in Seq(Alphabet) /\ Len(t) = Len(r) - 1 /\ \A k \in 1 .. Len(t) : t[k] = r[k + 1]
        BY <1>1, <2>1, <3>1, HeadTailProperties
      <3> HIDE DEF t
      <3>3. \A k \in 1 .. Len(t) : k + 1 \in 1 .. Len(r)
        BY <1>1, <3>2
      <3> QED
        BY <2>1, <3>2, <3>3
    <2>2. CASE ~(r # <<>> /\ r[1] = "+")
      <3>1. t = r
        BY <2>2 DEF SpansOf!WithoutPlus
      <3> QED
        BY <1>1, <3>1
    <2> QED
      BY <2>1, <2>2
  <1>3. /\ ~negative => d = t /\ s = 1
        /\ s = -1 \/ s = 1
    BY DEF SpansOf!WithoutSign, SpansOf!WithoutPlus, SpansOf!Sign
  <1>4. /\ u = IF negative THEN SpansOf!Invalid ELSE SpansOf!Unsigned(t, 10)
        /\ h = IF negative THEN SpansOf!Invalid ELSE SpansOf!Unsigned(z, 16)
        /\ I = DecimalOf(s, d)
        /\ J = HexOf(s, w)
    BY Zenon DEF SpansOf!pg_span_parse_u64_decimal, SpansOf!pg_span_parse_u64_hex,
           SpansOf!pg_span_parse_i64_decimal, SpansOf!pg_span_parse_i64_hex, DecimalOf, HexOf
  <1>5. /\ z \in Seq(Alphabet) /\ d \in Seq(Alphabet) /\ y \in Seq(Alphabet)
        /\ \A k \in 1 .. Len(d) : \E l \in 1 .. Len(r) : d[k] = r[l]
    <2> HIDE DEF r
    <2>1. d \in Seq(Alphabet) /\ \A k \in 1 .. Len(d) : \E l \in 1 .. Len(r) : d[k] = r[l]
      BY <1>1, TextsOf
    <2> HIDE DEF t, d
    <2> QED
      BY <1>2, <2>1, TextsOf
  <1>6. negative => ~AllIn(t, 10)
    <2> SUFFICES ASSUME negative, AllIn(t, 10) PROVE FALSE
      OBVIOUS
    <2>1. t = r /\ r # <<>> /\ r[1] = "-" /\ 1 \in 1 .. Len(r)
      BY <1>1, <1>2, EmptySeq
    <2> HIDE DEF t, r
    <2> QED
      BY <2>1, DigitsAre DEF AllIn
  <1> HIDE DEF r, s, t, d, u, h, I, J, z, y, negative
  <1>8. /\ SpansOf!Unsigned(t, 10).valid <=> AllIn(t, 10)
        /\ SpansOf!Unsigned(t, 10).valid
             => /\ SpansOf!Number(t, 10) \in Nat
                /\ SpansOf!Unsigned(t, 10) = [valid |-> TRUE, value |-> SpansOf!Number(t, 10) % U64]
    BY <1>2, UnsignedIs
  <1>9. /\ SpansOf!Unsigned(z, 16).valid <=> AllIn(z, 16)
        /\ SpansOf!Unsigned(z, 16).valid
             => /\ SpansOf!Number(z, 16) \in Nat
                /\ SpansOf!Unsigned(z, 16) = [valid |-> TRUE, value |-> SpansOf!Number(z, 16) % U64]
    BY <1>5, UnsignedIs
  <1>7. /\ w.valid => /\ SpansOf!Number(y, 16) \in Nat
                      /\ w = [valid |-> TRUE, value |-> SpansOf!Number(y, 16) % U64]
        /\ w.valid \in BOOLEAN
    <2>1. w.valid => /\ SpansOf!Number(y, 16) \in Nat
                     /\ w = [valid |-> TRUE, value |-> SpansOf!Number(y, 16) % U64]
      BY <1>5, UnsignedIs
    <2>2. w = SpansOf!Invalid \/ w.valid = TRUE
      BY DEF SpansOf!Unsigned
    <2>3. SpansOf!Invalid.valid = FALSE
      BY DEF SpansOf!Invalid
    <2> QED
      BY <2>1, <2>2, <2>3
  <1> HIDE DEF w
  <1>10. SpansOf!Invalid.valid = FALSE
    BY DEF SpansOf!Invalid
  <1>11. \A x \in Nat : x < U64 => x % U64 = x
    BY SpanAssumption, WrapOnce
  <1>12. u.valid <=> AllIn(t, 10)
    BY <1>4, <1>6, <1>8, <1>10
  <1>13. ASSUME u.valid, SpansOf!Number(t, 10) < U64
         PROVE  u.value = SpansOf!Number(t, 10)
    <2>1. ~negative /\ u = SpansOf!Unsigned(t, 10)
      BY <1>4, <1>10, <1>13
    <2>2. u = [valid |-> TRUE, value |-> SpansOf!Number(t, 10) % U64] /\ SpansOf!Number(t, 10) \in Nat
      BY <1>8, <1>13, <2>1
    <2> QED
      BY <1>11, <1>13, <2>2
  <1>14. (\A k \in 1 .. Len(t) : t[k] # "x") => z = t
    BY <1>2, No0x DEF z
  <1>15. ASSUME h.valid, "x" \notin SpansOf!Range(text), SpansOf!Number(t, 16) < U64
         PROVE  h.value = SpansOf!Number(t, 16)
    <2>1. DOMAIN text = 1 .. Len(text)
      BY LenProperties DEF SpanInv
    <2>2. z = t
      BY <1>1, <1>2, <1>14, <1>15, <2>1 DEF SpansOf!Range
    <2>3. h = SpansOf!Unsigned(t, 16)
      BY <1>4, <1>10, <1>15, <2>2
    <2> QED
      BY <1>9, <1>11, <1>15, <2>2, <2>3
  <1>16. ASSUME u.valid
         PROVE  h.valid
    <2>1. AllIn(t, 10) /\ ~negative
      BY <1>4, <1>10, <1>12, <1>16
    <2>2. z = t
      BY <1>14, <2>1, DigitsAre DEF AllIn
    <2>3. AllIn(t, 16)
      BY <2>1, DigitsAre DEF AllIn
    <2> QED
      BY <1>4, <1>9, <2>1, <2>2, <2>3
  <1>17. ASSUME NEW i \in I
         PROVE  /\ i.valid <=> AllIn(d, 10)
                /\ i.valid /\ SpansOf!Number(d, 10) < U64 \div 2 => i.value = s * SpansOf!Number(d, 10)
    BY <1>4, <1>5, <1>17, DecimalIs
  <1>18. ASSUME NEW j \in J
         PROVE  /\ j.valid <=> w.valid
                /\ w.valid /\ w.value < U64 \div 2 => j.value = s * w.value
                /\ w.valid /\ s = 1 => j.value \in {w.value, w.value - U64}
    <2>1. j \in HexOf(s, w)
      BY <1>4, <1>18
    <2>2. w.valid => w.value \in Nat
      <3>1. U64 \in Nat \ {0}
        BY SpanAssumption
      <3> QED
        BY <1>7, <3>1, DivMod
    <2> QED
      BY <1>7, <2>1, <2>2, HexIs
  <1>19. ASSUME NEW j \in J, j.valid, "x" \notin SpansOf!Range(text), SpansOf!Number(d, 16) < U64 \div 2
         PROVE  j.value = s * SpansOf!Number(d, 16)
    <2>1. DOMAIN text = 1 .. Len(text)
      BY LenProperties DEF SpanInv
    <2>2. \A k \in 1 .. Len(d) : d[k] # "x"
      BY <1>1, <1>5, <1>19, <2>1 DEF SpansOf!Range
    <2>3. y = d
      BY <1>5, <2>2, No0x DEF y
    <2>4. w.valid /\ SpansOf!Number(d, 16) \in Nat /\ w.value = SpansOf!Number(d, 16) % U64
      BY <1>7, <1>18, <1>19, <2>3
    <2>5. U64 \div 2 <= U64
      BY SpanAssumption
    <2>6. w.value = SpansOf!Number(d, 16)
      BY <1>11, <1>19, <2>4, <2>5, SpanAssumption
    <2> QED
      BY <1>18, <1>19, <2>4, <2>6
  <1>20. ASSUME NEW j \in J, h.valid
         PROVE  j.valid /\ j.value \in {h.value, h.value - U64}
    <2>1. ~negative /\ h = SpansOf!Unsigned(z, 16) /\ d = t /\ s = 1
      BY <1>3, <1>4, <1>10, <1>20
    <2>2. w = h
      BY <2>1 DEF w, y, z
    <2> QED
      BY <1>18, <1>20, <2>1, <2>2
  <1> QED
    BY <1>12, <1>13, <1>15, <1>16, <1>17, <1>19, <1>20 DEF t, r, u, h, I, J, s, d

-----------------------------------------------------------------------------
LEMMA SpanInitHolds == SpansOf!SpansInit => SpanInv
  BY EmptySeq DEF SpansOf!SpansInit, SpanInv

LEMMA SpanStepHolds == SpanInv /\ [SpansOf!SpansNext]_spanVars => SpanInv'
  BY AppendProperties DEF SpanInv, SpansOf!SpansNext, SpansOf!Type, spanVars

LEMMA SpanInvSuffices == SpanInv => SpansOf!SpansAreRight
  <1> SUFFICES ASSUME SpanInv PROVE SpansOf!SplitAndTrimKeepTheRest
    BY SearchHolds, ParseHolds DEF SpansOf!SpansAreRight
  <1>1. \A c \in Alphabet :
           LET first == SpansOf!pg_span_split_at_first(text, c)
               last_  == SpansOf!pg_span_split_at_last(text, c)
           IN  /\ first[1] \o first[2] = text /\ last_[1] \o last_[2] = text
               /\ c \notin SpansOf!Range(first[1])
               /\ last_[2] # <<>> => last_[2][1] = c /\ c \notin SpansOf!Range(Tail(last_[2]))
               /\ SpansOf!pg_span_skip_left_until_inclusive(text, c)
                    = IF first[2] = <<>> THEN text ELSE Tail(first[2])
    BY SplitHolds
  <1> QED
    BY <1>1, TrimHolds DEF SpansOf!SplitAndTrimKeepTheRest
=============================================================================
