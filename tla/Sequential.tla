------------------------------- MODULE Sequential -------------------------------
(***************************************************************************)
(* Instances of what has its memory to itself, whatever else runs: the     *)
(* structures of src/pg/pg.h, and the programs that pair allocations and   *)
(* bill shifts. MCPrograms runs each of them next to the other programs.   *)
(***************************************************************************)
EXTENDS RingDeque    \* whose refinement is proved as it stands

CONSTANTS max_items_count, ByteBits, MaxIndices,
          Alphabet, Needles, MaxText, U64, FileSizes, MaxLen, FileChanges,
          Ptrs, HashOf(_), InitialCaps, MaxAllocEvents,
          DayHours, WorkHours, WeekDays, WeekEnd, MonthDays, YearMonths, Horizon, MaxShifts,
          RopeLen, GridSide, MaxSteps,
          Letters, MaxLetters, Width, Height, TreeSizes, Sums, MaxLines

VARIABLES head, memory, owned, last, misused,
          max_index, data, len, failed, bits, resized,
          text,
          kind, content, capacity, allocated, overrun, buf_pc, size, st_size, pos, ok,
          changed,
          events, cap, slots, entries, stuck, initial_cap, live,
          shifts, monthly_bills, asserted,
          rope_head, tail, visited_cells, rope, rope_cells, steps, off_grid,
          aoc, input, cursor, visible, sum, max, answer, undefined

Pools     == INSTANCE Pool
Bitarrays == INSTANCE Bitarray
SpansOf   == INSTANCE Spans
BuffersOf == INSTANCE Buffers WITH memory <- allocated, pc <- buf_pc
Traces    == INSTANCE AllocTrace WITH len <- entries, MaxEvents <- MaxAllocEvents
Shifts    == INSTANCE OnCall
RopesOf   == INSTANCE Ropes WITH head <- rope_head
PuzzlesOf == INSTANCE Puzzles WITH puzzle <- aoc

\* What the theorems assume of the parameters.
ASSUME PoolAssumption   == max_items_count \in Nat \ {0}
ASSUME BitAssumption    == ByteBits \in Nat \ {0} /\ MaxIndices \subseteq Nat
ASSUME SpanAssumption   == Needles \subseteq Seq(Alphabet) \ {<<>>} /\ SpansOf!NUL \notin Alphabet /\ U64 \in Nat \ {0}
ASSUME BufAssumption    == FileSizes \subseteq Nat /\ MaxLen \in Nat
ASSUME AllocAssumption  == (\A ptr \in Ptrs : HashOf(ptr) \in Nat) /\ InitialCaps \subseteq Nat
ASSUME OnCallAssumption == {DayHours, MonthDays, YearMonths} \subseteq Nat \ {0} /\ Horizon \in Nat
ASSUME RopeAssumption   == RopeLen \in Nat /\ RopeLen >= 2 /\ GridSide \in Nat
ASSUME PuzzleAssumption == {Width, Height} \subseteq Nat /\ TreeSizes \subseteq Nat \ {0} /\ Sums \subseteq Nat /\ PuzzlesOf!NUL \notin Letters

poolVars   == <<head, memory, owned, last, misused>>
bitVars    == <<max_index, data, len, failed, bits, resized>>
spanVars   == <<text>>
bufVars    == <<kind, content, capacity, allocated, overrun, buf_pc, size, st_size, pos, ok, changed>>
allocVars  == <<events, cap, slots, entries, stuck, initial_cap, live>>
onCallVars == <<shifts, monthly_bills, asserted>>
ropeVars   == <<rope_head, tail, visited_cells, rope, rope_cells, steps, off_grid>>
puzzleVars == <<aoc, input, cursor, visible, sum, max, answer, undefined>>
=============================================================================
