---------------------------------- MODULE Sudoku ----------------------------------
(***************************************************************************)
(* The two solvers of src/sudoku-solver: brute_force.c, which counts       *)
(* through every content of the empty cells, and constraints.c, which      *)
(* first lists what each cell may hold and then tries, going back when a   *)
(* choice leads nowhere. The grid is a function from positions to values,  *)
(* 0 for an empty cell, and a block is of Box by Box cells; 3 in the code. *)
(***************************************************************************)
EXTENDS Integers, SequencesExt

CONSTANTS Box, Puzzles   \* the grids to solve

Size      == Box * Box
Values    == 1 .. Size
Positions == 0 .. Size * Size - 1

VARIABLES solver,        \* brute_force or constraints
          puzzle, grid,
          stage,         \* first pass, solve; solved, exhausted, asserted
          position,      \* of the first pass
          possibilities, \* of each cell
          calls,         \* of grid_solve: its grid, position and next possibility
          solution       \* of brute_force: 0 for a cell that is given
sudokuVars == <<solver, puzzle, grid, stage, position, possibilities, calls, solution>>

RowOf(p)    == p \div Size
ColumnOf(p) == p % Size
BlockOf(p)  == (RowOf(p) \div Box) * Box + ColumnOf(p) \div Box
\* The row, the column and the block of a position, each a set of positions.
Units(p) == {{q \in Positions : RowOf(q) = RowOf(p)}, {q \in Positions : ColumnOf(q) = ColumnOf(p)},
             {q \in Positions : BlockOf(q) = BlockOf(p)}}
AllUnits == UNION {Units(p) : p \in Positions}

\* constraints.c counts what it has seen; brute_force.c multiplies a prime for
\* each value, and compares the product with that of all primes.
Invalid(g, unit) == \E v \in Values : Cardinality({q \in unit : g[q] = v}) > 1
Incomplete(g, unit) == \E q \in unit : g[q] = 0
Prime == <<2, 3, 5, 7, 11, 13, 17, 19, 23>>
ProductOf(g, unit) == FoldSet(LAMBDA q, n : n * (IF g[q] = 0 THEN 1 ELSE Prime[g[q]]), 1, unit)
filled_id          == FoldSet(LAMBDA v, n : n * Prime[v], 1, Values)
is_grid_valid(g)   == \A unit \in AllUnits : ProductOf(g, unit) = filled_id
IsValid(g)         == \A unit \in AllUnits : ~Invalid(g, unit) /\ ~Incomplete(g, unit)

SudokuInit ==
    /\ solver \in {"brute_force", "constraints"} /\ puzzle \in Puzzles /\ grid = puzzle
    /\ stage = IF solver = "constraints" THEN "first pass" ELSE "solve"
    /\ position = 0 /\ possibilities = [p \in Positions |-> {}] /\ calls = <<>>
    /\ solution = [p \in Positions |-> IF puzzle[p] = 0 THEN 1 ELSE 0]

-----------------------------------------------------------------------------
(* brute_force.c *)

\* increment_solution_vector: the last cell that can is increased, and the
\* cells after it start again. After the last vector comes the first.
Incremented(s) ==
    LET can == {p \in Positions : s[p] \in 1 .. Size - 1}
    IN  [p \in Positions |-> IF s[p] = 0 THEN 0
                             ELSE IF can = {} \/ p > Max(can) THEN 1
                             ELSE IF p = Max(can) THEN s[p] + 1 ELSE s[p]]

Merged(g, s) == [p \in Positions |-> IF s[p] # 0 THEN s[p] ELSE g[p]]

\* One turn of the loop of main, which ends when the grid is valid.
TryNext ==
    /\ solver = "brute_force" /\ stage = "solve"
    /\ solution' = Incremented(solution)
    /\ grid' = Merged(grid, solution')
    /\ stage' = IF is_grid_valid(grid') THEN "solved" ELSE "solve"
    /\ UNCHANGED <<solver, puzzle, position, possibilities, calls>>

-----------------------------------------------------------------------------
(* constraints.c *)

Fits(g, p, v) == LET with == [g EXCEPT ![p] = v] IN \A unit \in Units(p) : ~Invalid(with, unit)
Possible(p)   == {v \in Values : Fits(grid, p, v)}

\* Mutant of Settles: any cell takes its highest possibility.
Settles_always(p) == TRUE
\* A single possibility is set right away, and counts for the cells after it.
Settles(p) == Cardinality(Possible(p)) = 1

FirstPass ==
    /\ stage = "first pass" /\ position \in Positions
    /\ IF grid[position] # 0 THEN UNCHANGED <<grid, possibilities, stage>> /\ position' = position + 1
       ELSE IF Possible(position) = {}
         THEN stage' = "asserted" /\ UNCHANGED <<grid, possibilities, position>>
         ELSE /\ possibilities' = [possibilities EXCEPT ![position] = Possible(position)]
              /\ grid' = IF Settles(position) THEN [grid EXCEPT ![position] = Max(Possible(position))] ELSE grid
              /\ position' = position + 1
              /\ UNCHANGED stage
    /\ UNCHANGED <<solver, puzzle, calls, solution>>

Call(g, p) == [grid |-> g, position |-> p, next |-> 1]

SecondPass ==
    /\ stage = "first pass" /\ position \notin Positions
    /\ stage' = "solve" /\ calls' = <<Call(grid, 0)>>
    /\ UNCHANGED <<solver, puzzle, grid, position, possibilities, solution>>

top == Last(calls)
Deeper(call) == calls' = Append(Front(calls), [top EXCEPT !.next = @ + 1]) \o <<call>>

\* grid_solve, one possibility at a time. A given cell is passed over.
SolveStep ==
    /\ solver = "constraints" /\ stage = "solve" /\ calls # <<>>
    /\ LET p == top.position IN
       IF p \notin Positions
       THEN /\ grid' = top.grid
            /\ stage' = IF IsValid(top.grid) THEN "solved" ELSE "asserted"
            /\ UNCHANGED calls
       ELSE /\ UNCHANGED <<grid, stage>>
            /\ IF top.next > Size THEN calls' = Front(calls)
               ELSE IF top.grid[p] # 0
                 THEN calls' = Append(Front(calls), [top EXCEPT !.next = Size + 1]) \o <<Call(top.grid, p + 1)>>
               ELSE IF top.next \in possibilities[p] /\ Fits(top.grid, p, top.next)
                 THEN Deeper(Call([top.grid EXCEPT ![p] = top.next], p + 1))
               ELSE calls' = Append(Front(calls), [top EXCEPT !.next = @ + 1])
    /\ UNCHANGED <<solver, puzzle, position, possibilities, solution>>

\* main returns when grid_solve does.
SolveEnd ==
    /\ solver = "constraints" /\ stage = "solve" /\ calls = <<>>
    /\ stage' = "exhausted"
    /\ UNCHANGED <<solver, puzzle, grid, position, possibilities, calls, solution>>

SudokuNext == TryNext \/ FirstPass \/ SecondPass \/ SolveStep \/ SolveEnd
SudokuSpec == SudokuInit /\ [][SudokuNext]_sudokuVars /\ WF_sudokuVars(SudokuNext)
-----------------------------------------------------------------------------
\* The ways to fill a puzzle.
Holes(pz)     == {p \in Positions : pz[p] = 0}
Filled(pz, f) == [p \in Positions |-> IF pz[p] = 0 THEN f[p] ELSE pz[p]]
CompletionsOf == [pz \in Puzzles |-> {g \in {Filled(pz, f) : f \in [Holes(pz) -> Values]} : IsValid(g)}]
Completions   == CompletionsOf[puzzle]
Agrees(g, s) == \A p \in Positions : g[p] # 0 => g[p] = s[p]

\* The first pass decides nothing that is open: every solution is still one of
\* the grid and of the possibilities when it has passed.
FirstPassKeepsSolutions ==
    stage = "first pass" =>
        \A s \in Completions : /\ Agrees(grid, s)
                               /\ \A p \in Holes(puzzle) : p < position => s[p] \in possibilities[p]

\* Both solvers end with a solution, and constraints.c without one only when
\* there is none. (brute_force.c then goes on for ever.)
AnswersAreRight ==
    /\ stage = "solved" => IsValid(grid) /\ \A p \in Positions : puzzle[p] # 0 => grid[p] = puzzle[p]
    /\ stage \in {"exhausted", "asserted"} => Completions = {}

\* A puzzle that has a solution is solved.
SolversEnd == <>(stage \in {"solved", "exhausted", "asserted"} \/ Completions = {})

\* No solution is lost on the way, and what is found is one.
SolverIsRight == FirstPassKeepsSolutions /\ AnswersAreRight
=============================================================================
