-------------------------------- MODULE Bitarray --------------------------------
(***************************************************************************)
(* The bit array of src/pg/pg.h. The data is an array of bytes, a byte a   *)
(* set of bit numbers; the array behind it keeps its capacity, and what it *)
(* holds, when it is made shorter. What it promises is to be a set of      *)
(* indices, and `bits` is that set: what the calls ask for.                *)
(***************************************************************************)
EXTENDS Naturals, FiniteSets

CONSTANTS ByteBits,    \* 8
          MaxIndices   \* the values of max_index that are used

VARIABLES max_index,
          data,      \* the bytes up to the capacity
          len,       \* of data, in bytes
          failed,    \* an assertion failed
          bits,      \* the indices that should be set
          resized
bitVars == <<max_index, data, len, failed, bits, resized>>

ByteOf(index) == index \div ByteBits
BitOf(index)  == index % ByteBits
Byte          == SUBSET (0 .. ByteBits - 1)
CeilBytes(n)  == (n + ByteBits - 1) \div ByteBits

Indices(max)         == 0 .. max
pg_bitarray_len      == max_index + 1
pg_bitarray_get(i)   == BitOf(i) \in data[ByteOf(i)]
InBounds(i)          == ByteOf(i) < len

\* The folds over the whole array. They fail where pg_bitarray_get does.
pg_bitarray_count_set      == Cardinality({i \in 0 .. pg_bitarray_len - 1 : pg_bitarray_get(i)})
pg_bitarray_count_unset    == Cardinality({i \in 0 .. pg_bitarray_len - 1 : ~pg_bitarray_get(i)})
pg_bitarray_is_all_set     == \A i \in 0 .. pg_bitarray_len - 1 : pg_bitarray_get(i)
pg_bitarray_is_all_unset   == \A i \in 0 .. pg_bitarray_len - 1 : ~pg_bitarray_get(i)

pg_bitarray_init_len(max)       == 1 + CeilBytes(max)
pg_bitarray_resize_len(max)     == CeilBytes(max)

BitInit ==   \* pg_bitarray_init; the memory is zeroed
    /\ max_index \in MaxIndices
    /\ len = pg_bitarray_init_len(max_index)
    /\ data = [b \in 0 .. len - 1 |-> {}]
    /\ failed = FALSE /\ bits = {} /\ resized = FALSE

pg_bitarray_set(i) ==
    /\ IF InBounds(i) THEN data' = [data EXCEPT ![ByteOf(i)] = @ \cup {BitOf(i)}] /\ UNCHANGED failed
                      ELSE failed' = TRUE /\ UNCHANGED data
    /\ bits' = bits \cup {i}
    /\ UNCHANGED <<max_index, len, resized>>

\* Mutant of pg_bitarray_unset: the whole byte.
pg_bitarray_unset_byte(i) ==
    /\ IF InBounds(i) THEN data' = [data EXCEPT ![ByteOf(i)] = {}] /\ UNCHANGED failed
                      ELSE failed' = TRUE /\ UNCHANGED data
    /\ bits' = bits \ {i}
    /\ UNCHANGED <<max_index, len, resized>>

pg_bitarray_unset(i) ==
    /\ IF InBounds(i) THEN data' = [data EXCEPT ![ByteOf(i)] = @ \ {BitOf(i)}] /\ UNCHANGED failed
                      ELSE failed' = TRUE /\ UNCHANGED data
    /\ bits' = bits \ {i}
    /\ UNCHANGED <<max_index, len, resized>>

\* All the bytes, and so more than the indices.
pg_bitarray_set_all ==
    /\ data' = [b \in DOMAIN data |-> IF b < len THEN 0 .. ByteBits - 1 ELSE data[b]]
    /\ bits' = Indices(max_index)
    /\ UNCHANGED <<max_index, len, failed, resized>>

pg_bitarray_unset_all ==
    /\ data' = [b \in DOMAIN data |-> IF b < len THEN {} ELSE data[b]]
    /\ bits' = {}
    /\ UNCHANGED <<max_index, len, failed, resized>>

\* memcpy of some bytes to the front. The assertion compares their number with
\* the number of bits; the callers pass no more than the bits need.
pg_bitarray_setv(bytes) ==
    /\ Cardinality(DOMAIN bytes) <= CeilBytes(max_index + 1) /\ Cardinality(DOMAIN bytes) <= len
    /\ data' = [b \in DOMAIN data |-> IF b \in DOMAIN bytes THEN bytes[b] ELSE data[b]]
    /\ bits' = {i \in Indices(max_index) : IF ByteOf(i) \in DOMAIN bytes THEN BitOf(i) \in bytes[ByteOf(i)]
                                                                       ELSE i \in bits}
    /\ UNCHANGED <<max_index, len, failed, resized>>

\* pg_array_resize: bytes beyond the capacity are new, and zero.
pg_bitarray_resize(max) ==
    LET new == pg_bitarray_resize_len(max) IN
    /\ max_index' = max /\ len' = new
    /\ data' = [b \in DOMAIN data \cup 0 .. new - 1 |-> IF b \in DOMAIN data THEN data[b] ELSE {}]
    /\ bits' = bits \cap Indices(max)
    /\ resized' = TRUE
    /\ UNCHANGED failed

BitNext ==
    /\ ~failed
    /\ \/ \E i \in Indices(max_index) : pg_bitarray_set(i) \/ pg_bitarray_unset(i)
       \/ pg_bitarray_set_all \/ pg_bitarray_unset_all
       \/ \E n \in 0 .. 2 : \E bytes \in [0 .. n - 1 -> Byte] : pg_bitarray_setv(bytes)
       \/ \E max \in MaxIndices : pg_bitarray_resize(max)
BitSpec == BitInit /\ [][BitNext]_bitVars

-----------------------------------------------------------------------------
BitTypeOK ==
    /\ max_index \in MaxIndices /\ len \in Nat
    /\ 0 .. len - 1 \subseteq DOMAIN data
    /\ \A b \in DOMAIN data : data[b] \in Byte

\* Reading every index gives the set that was asked for, whatever mix of single
\* bits, whole bytes and whole arrays it was written with, and the count is
\* its size. (After a resize bits come back that were set beyond the end.)
BitsAreASet ==
    ~resized => /\ \A i \in Indices(max_index) : pg_bitarray_get(i) <=> i \in bits
                /\ pg_bitarray_count_set = Cardinality(bits)
                /\ pg_bitarray_count_unset = max_index + 1 - Cardinality(bits)
                /\ pg_bitarray_is_all_set <=> bits = Indices(max_index)
                /\ pg_bitarray_is_all_unset <=> bits = {}

\* The bounds check never fails for an index up to max_index, except after a
\* resize, which forgets a byte that init has: then the highest index has no
\* byte when it is the first of one.
IndicesHaveABit == failed => resized /\ max_index % ByteBits = 0

\* The bits at any size, and at the end of the last byte.
BitsAreExact == BitsAreASet /\ IndicesHaveABit
=============================================================================
