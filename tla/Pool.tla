---------------------------------- MODULE Pool ----------------------------------
(***************************************************************************)
(* The pool allocator of src/pg/pg.h: chunks of one size in one buffer,    *)
(* the free ones in a list that is threaded through their own memory. The  *)
(* first word of a chunk is all of it that is modelled: the `next` of its  *)
(* node while it is free, what its owner wrote once it is not. The users   *)
(* keep the contract of an allocator: they write to chunks they own and    *)
(* free what they own. The torrent client frees them in any order.         *)
(***************************************************************************)
EXTENDS Naturals

CONSTANT max_items_count

Chunks == 0 .. max_items_count - 1
NULL   == max_items_count        \* no chunk; also memory that is zero
Data   == max_items_count + 1    \* what an owner has written

VARIABLES head,      \* of the free list
          memory,    \* the first word of each chunk: a chunk, NULL, or Data
          owned,     \* the chunks that were handed out and not freed
          last,      \* what the last alloc returned
          misused    \* whether free_all was called with chunks in the free list
poolVars == <<head, memory, owned, last, misused>>

\* pg_pool_free_all pushes every chunk, from the first to the last, on what is
\* in the list already.
pg_pool_free_all_list(old) ==
    [c \in Chunks |-> IF c = 0 THEN old ELSE c - 1]

PoolInit ==   \* pg_pool_init
    /\ memory = pg_pool_free_all_list(NULL)
    /\ head = max_items_count - 1
    /\ owned = {} /\ last = NULL /\ misused = FALSE

Zeroed(c)     == [memory EXCEPT ![c] = NULL]

pg_pool_alloc ==
    /\ last' = head
    /\ IF head = NULL
         THEN UNCHANGED <<head, memory, owned>>
         ELSE /\ memory[head] # Data     \* undefined otherwise
              /\ head' = memory[head]
              /\ memory' = Zeroed(head)
              /\ owned' = owned \cup {head}
    /\ UNCHANGED misused

pg_pool_free(c) ==
    /\ c \in owned
    /\ memory' = [memory EXCEPT ![c] = head]
    /\ head' = c
    /\ owned' = owned \ {c}
    /\ UNCHANGED <<last, misused>>

\* The owner uses its chunk.
Use(c) ==
    /\ c \in owned /\ memory' = [memory EXCEPT ![c] = Data]
    /\ UNCHANGED <<head, owned, last, misused>>

\* The test calls it when everything is handed out.
pg_pool_free_all ==
    /\ memory' = pg_pool_free_all_list(head)
    /\ head' = max_items_count - 1
    /\ owned' = {}
    /\ misused' = (misused \/ head # NULL)
    /\ UNCHANGED last

PoolNext == pg_pool_alloc \/ pg_pool_free_all \/ \E c \in Chunks : pg_pool_free(c) \/ Use(c)
PoolSpec == PoolInit /\ [][PoolNext]_poolVars

-----------------------------------------------------------------------------
PoolTypeOK ==
    /\ head \in Chunks \cup {NULL} /\ last \in Chunks \cup {NULL}
    /\ memory \in [Chunks -> Chunks \cup {NULL, Data}]
    /\ owned \subseteq Chunks /\ misused \in BOOLEAN

\* q are the nodes of the list, n of them: head, next, next, ...
IsFreeList(n, q) ==
    /\ head = IF n = 0 THEN NULL ELSE q[1]
    /\ \A i \in 1 .. n : memory[q[i]] = IF i = n THEN NULL ELSE q[i + 1]

\* Every chunk of a set is there once.
ListsOnce(n, q, chunks) ==
    /\ \A i, j \in 1 .. n : q[i] = q[j] => i = j
    /\ \A c \in chunks : \E i \in 1 .. n : q[i] = c

\* Whatever order chunks are freed in, and whatever their owners write to them:
\* the free list holds exactly the chunks that nobody owns. A chunk has one
\* owner, and the pool is only exhausted when all of them are owned.
\* (This ends with a call of free_all on a list that is not empty, which makes
\* the list a cycle.)
FreeListIsExact ==
    /\ PoolTypeOK
    /\ ~misused => \E n \in 0 .. max_items_count : \E q \in [1 .. n -> Chunks \ owned] :
                       IsFreeList(n, q) /\ ListsOnce(n, q, Chunks \ owned)
=============================================================================
