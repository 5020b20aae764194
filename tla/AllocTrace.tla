-------------------------------- MODULE AllocTrace --------------------------------
(***************************************************************************)
(* src/dtrace-alloc-postprocess/main.c: it reads the events of an          *)
(* allocator from a trace and links each free to the allocation it ends,   *)
(* which it finds with a hash table, by pointer. The table is of open      *)
(* addressing; a hash of 0 marks an empty slot. A trace is one of a        *)
(* program that started before it and keeps the rules of an allocator.     *)
(* Events and slots count from 1 and 0.                                    *)
(***************************************************************************)
EXTENDS Integers, SequencesExt

CONSTANTS Ptrs,           \* the pointers of the trace
          HashOf(_),      \* pg_hash of a pointer
          InitialCaps,    \* of the table: an 800th of the length of the file
          MaxEvents       \* bound on the trace

VARIABLES events,   \* kind, ptr, and the related event, 0 for none
          cap, slots, len,   \* last_allocation_by_ptr
          stuck,    \* a lookup does not end, or an assertion failed
          initial_cap,
          live      \* what the traced program has allocated
allocVars == <<events, cap, slots, len, stuck, initial_cap, live>>

Empty == [hash |-> 0, key |-> 0, value |-> 0]

AllocInit ==
    /\ initial_cap \in InitialCaps /\ cap = initial_cap
    /\ slots = [s \in 0 .. cap - 1 |-> Empty] /\ len = 0
    /\ events = <<>> /\ stuck = FALSE /\ live = {}

-----------------------------------------------------------------------------
\* Mutant of SameKey: the pointer is not compared.
SameKey_hash(slot, ptr) == slot.hash = HashOf(ptr)
SameKey(slot, ptr)      == slot.hash = HashOf(ptr) /\ slot.key = ptr

\* The first slot, from that of the hash on, that is empty or has the key.
Stops(tab, c, ptr) == {d \in 0 .. c - 1 :
    LET slot == tab[(HashOf(ptr) + d) % c] IN slot.hash = 0 \/ SameKey(slot, ptr)}
pg_hashtable_find(tab, c, ptr) == (HashOf(ptr) + Min(Stops(tab, c, ptr))) % c
Ends(tab, c, ptr)  == c > 0 /\ Stops(tab, c, ptr) # {}
Found(tab, c, ptr) == tab[pg_hashtable_find(tab, c, ptr)].hash # 0

IsLoaded == 4 * len >= 3 * cap
NewCap   == (3 * cap) \div 2 + 8

\* pg_hashtable_upsert. The entries stay where they are when it grows.
Upsert(ptr, value) ==
    LET c   == IF IsLoaded THEN NewCap ELSE cap
        tab == [s \in 0 .. c - 1 |-> IF s < cap THEN slots[s] ELSE Empty]
    IN  IF cap = 0 \/ ~Ends(tab, c, ptr)
        THEN stuck' = TRUE /\ UNCHANGED <<cap, slots, len>>
        ELSE LET s == pg_hashtable_find(tab, c, ptr) IN
             /\ cap' = c
             /\ slots' = [tab EXCEPT ![s] = [hash |-> HashOf(ptr), key |-> ptr, value |-> value]]
             /\ len' = IF Found(tab, c, ptr) THEN len ELSE len + 1
             /\ UNCHANGED stuck

Event(kind, ptr) == [kind |-> kind, ptr |-> ptr, related |-> 0]

\* malloc and calloc; and realloc, of which only the new pointer is looked at.
\* (The old one is parsed from the text of the new one, and not used.)
Allocate(kind, ptr) ==
    /\ events' = Append(events, Event(kind, ptr))
    /\ Upsert(ptr, Len(events) + 1)

malloc(ptr) ==
    /\ ptr \notin live /\ live' = live \cup {ptr}
    /\ Allocate("alloc", ptr)
realloc(old, ptr) ==
    /\ old \in live /\ (ptr \notin live \/ ptr = old) /\ live' = (live \ {old}) \cup {ptr}
    /\ Allocate("realloc", ptr)

LinkedBack(other, me) == [events EXCEPT ![other].related = me]

\* A free of something older than the trace finds nothing. Nothing leaves the
\* table. The allocation that is found has this event as its related one.
free(ptr) ==
    /\ live' = live \ {ptr}
    /\ IF ~Ends(slots, cap, ptr) THEN stuck' = TRUE /\ events' = Append(events, Event("free", ptr))
       ELSE LET me    == Len(events) + 1
                other == slots[pg_hashtable_find(slots, cap, ptr)].value
            IN  /\ events' = IF Found(slots, cap, ptr)
                             THEN Append(LinkedBack(other, me),
                                         [Event("free", ptr) EXCEPT !.related = other])
                             ELSE Append(events, Event("free", ptr))
                /\ UNCHANGED stuck
    /\ UNCHANGED <<cap, slots, len>>

AllocNext ==
    /\ ~stuck /\ Len(events) < MaxEvents
    /\ \E ptr \in Ptrs : malloc(ptr) \/ free(ptr) \/ \E old \in Ptrs : realloc(old, ptr)
    /\ UNCHANGED initial_cap
AllocSpec == AllocInit /\ [][AllocNext]_allocVars

\* event_ptr, by which print_html shows the pointer of a free: none is shown
\* when the allocation is not known.
event_ptr(e) == IF events[e].kind # "free" THEN events[e].ptr
                ELSE IF events[e].related = 0 THEN 0 ELSE events[events[e].related].ptr
-----------------------------------------------------------------------------
\* The allocations of a pointer before an event.
Before(e, ptr) == {a \in 1 .. e - 1 : events[a].kind # "free" /\ events[a].ptr = ptr}
Frees          == {e \in DOMAIN events : events[e].kind = "free"}

\* A free is never shown with an allocation of another pointer, or a later one,
\* and as long as the table has not grown it is the last one of its pointer:
\* also when pointers are used again, and share slots. (A table that has grown
\* loses some, or finds one that is out of date.)
LinksAreRight ==
    \A e \in Frees :
        /\ events[e].related # 0 => events[e].related \in Before(e, events[e].ptr)
        /\ cap = initial_cap /\ HashOf(events[e].ptr) # 0 /\ ~stuck =>
             events[e].related = IF Before(e, events[e].ptr) = {} THEN 0 ELSE Max(Before(e, events[e].ptr))

\* What a free is linked to is linked to it, or to a later free of the pointer;
\* and the pointer shown for a free is its own.
LinksGoBothWays ==
    /\ \A e \in Frees : events[e].related # 0 =>
         /\ events[events[e].related].related >= e
         /\ event_ptr(e) = events[e].ptr
    /\ \A a \in DOMAIN events \ Frees : events[a].related # 0 => events[events[a].related].related = a

\* Every lookup ends: there is always an empty slot, however the trace goes,
\* if the table starts with four slots, which takes a file of 3200 bytes.
LookupsEnd == stuck => initial_cap < 4

\* Allocations and frees are paired right, and pairing them ends.
PairsAreRight == LinksAreRight /\ LinksGoBothWays /\ LookupsEnd
=============================================================================
