--------------------------------- MODULE Buffers ---------------------------------
(***************************************************************************)
(* The growing arrays and strings of src/pg/pg.h, and reading a file into  *)
(* one. Both keep their length and capacity in a header before the data.   *)
(* The contents that matter are those of a file: the element at offset i   *)
(* of the file is i, and 0 is anything else.                               *)
(***************************************************************************)
EXTENDS Integers, Sequences

CONSTANTS FileSizes,    \* of the file, when it is opened
          MaxLen,       \* bound on the length of a buffer
          FileChanges   \* whether somebody else writes to the file

VARIABLES kind,       \* array or string
          content,    \* the data up to the length
          capacity, memory,   \* what the header says, and what was allocated
          overrun,    \* something was written behind the memory
          pc,         \* use, read, done
          size,       \* of the file
          st_size,    \* as fstat told it
          pos,        \* of the file descriptor
          ok,         \* what pg_read_file returned
          changed     \* whether the file did change
bufVars == <<kind, content, capacity, memory, overrun, pc, size, st_size, pos, ok, changed>>
fileVars == <<pc, size, st_size, pos, ok, changed>>

len == Len(content)
Max2(a, b) == IF a >= b THEN a ELSE b

PG_ARRAY_GROW_FORMULA(x)       == (3 * x) \div 2 + 8

BufInit ==   \* pg_array_init_reserve, pg_string_make_reserve
    /\ kind \in {"array", "string"} /\ capacity \in {0, 2} /\ memory = capacity
    /\ content = <<>> /\ overrun = FALSE
    /\ pc = "use" /\ size \in FileSizes /\ st_size = 0 /\ pos = 0 /\ ok = FALSE /\ changed = FALSE

\* pg_array_grow and pg_string_make_space_for, for n more elements. Strings grow
\* to what is asked for.
GrownArray(cap, min) == Max2(PG_ARRAY_GROW_FORMULA(cap), min)
SpaceFor(cap, n)     == IF cap >= len /\ cap - len >= n THEN cap ELSE len + n

Grown(n) ==
    IF kind = "string" THEN SpaceFor(capacity, n)
    ELSE IF capacity < len + n THEN GrownArray(capacity, len + n) ELSE capacity

Holds(cap, new) ==
    /\ content' = new /\ capacity' = cap /\ memory' = cap
    /\ overrun' = (overrun \/ Len(new) > cap)

\* pg_array_append grows for one element, without a minimum.
pg_array_append ==
    /\ pc = "use" /\ kind = "array" /\ len < MaxLen
    /\ Holds(IF capacity < len + 1 THEN GrownArray(capacity, 0) ELSE capacity, Append(content, 0))
    /\ UNCHANGED <<kind, fileVars>>

\* pg_array_resize to more, and pg_string_append_length.
AppendMany(n) ==
    /\ pc = "use" /\ len + n <= MaxLen
    /\ Holds(Grown(n), content \o [i \in 1 .. n |-> 0])
    /\ UNCHANGED <<kind, fileVars>>

\* pg_array_pop, pg_array_resize to less, pg_array_clear and pg_string_clear.
Shorten(n) ==
    /\ pc = "use" /\ n < len /\ (kind = "string" => n = 0)
    /\ content' = SubSeq(content, 1, n)
    /\ UNCHANGED <<kind, capacity, memory, overrun, fileVars>>

-----------------------------------------------------------------------------
(* pg_read_file: open, fstat, grow, and read until as much was read as     *)
(* fstat told. The callers give it a buffer without elements.              *)

\* The errno of open is returned as a bool: the caller takes it for success.
OpenFails ==
    /\ pc = "use" /\ len = 0
    /\ pc' = "done" /\ ok' = (kind = "array")
    /\ UNCHANGED <<kind, content, capacity, memory, overrun, size, st_size, pos, changed>>

Fstat ==
    /\ pc = "use" /\ len = 0
    /\ pc' = "read" /\ st_size' = size
    /\ Holds(IF kind = "array" THEN GrownArray(capacity, size) ELSE SpaceFor(capacity, size), content)
    /\ UNCHANGED <<kind, size, pos, ok, changed>>

Landed(n)          == content \o [i \in 1 .. n |-> pos + i]

\* Every read asks for as much as the whole file has, whatever room is left.
\* A read may be short. Growing comes too late for an array, and before the
\* next read for a string, which grows by its whole length.
Read(n) ==
    /\ pc = "read" /\ len < st_size
    /\ n > 0 /\ n <= st_size /\ pos + n <= size
    /\ content' = Landed(n)
    /\ overrun' = (overrun \/ len + n > memory)
    /\ capacity' = IF kind = "string" THEN SpaceFor(capacity, len + n)
                   ELSE IF capacity < len + n THEN GrownArray(capacity, len + n) ELSE capacity
    /\ memory' = capacity'
    /\ pos' = pos + n
    /\ UNCHANGED <<kind, pc, size, st_size, ok, changed>>

\* Enough, or the end of the file: success in both cases.
ReadDone ==
    /\ pc = "read" /\ (len >= st_size \/ pos >= size)
    /\ pc' = "done" /\ ok' = TRUE
    /\ UNCHANGED <<kind, content, capacity, memory, overrun, size, st_size, pos, changed>>

ReadFails ==
    /\ pc = "read" /\ len < st_size
    /\ pc' = "done" /\ ok' = FALSE
    /\ UNCHANGED <<kind, content, capacity, memory, overrun, size, st_size, pos, changed>>

\* Somebody else makes the file longer or shorter.
FileChangesTo(n) ==
    /\ FileChanges /\ pc = "read" /\ n # size
    /\ size' = n /\ changed' = TRUE
    /\ UNCHANGED <<kind, content, capacity, memory, overrun, pc, st_size, pos, ok>>

BufNext ==
    \/ pg_array_append \/ OpenFails \/ Fstat \/ ReadDone \/ ReadFails
    \/ \E n \in 0 .. MaxLen : AppendMany(n) \/ Shorten(n) \/ Read(n)
    \/ \E n \in FileSizes : FileChangesTo(n)
BufSpec == BufInit /\ [][BufNext]_bufVars

-----------------------------------------------------------------------------
\* A buffer never holds more than was allocated for it, however it grows, and
\* a file is never read past the memory, in reads of any size, unless somebody
\* makes the file longer after fstat.
NoOverrun == overrun => changed

\* The file is read whole and in order, unless it could not be opened (which
\* looks like an empty file), or changed.
ReadsTheFile ==
    pc = "done" /\ ok /\ ~changed => \/ content = [i \in 1 .. size |-> i]
                                     \/ (content = <<>> /\ pos = 0 /\ st_size = 0)

\* What is put in is kept, in order and within the memory.
ContentsAreKept == NoOverrun /\ ReadsTheFile
=============================================================================
