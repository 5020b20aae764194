----------------------------------- MODULE Ropes -----------------------------------
(***************************************************************************)
(* The two programs of src/aoc2022 about a rope on a grid, side by side on *)
(* the same moves: in 9_1.c the rope has a head and a tail, and the tail   *)
(* jumps to where the head was; in 9_2.c it has many knots, and each takes *)
(* a step towards the one before. Up is one way in one, and the other way  *)
(* in the other. A move of some distance is as many steps.                 *)
(***************************************************************************)
EXTENDS Integers, FiniteSetsExt

CONSTANTS RopeLen,     \* 10 in 9_2.c
          GridSide,    \* of the array of visited cells
          MaxSteps     \* bound on the moves

VARIABLES head, tail, visited_cells,     \* 9_1.c
          rope, rope_cells,              \* 9_2.c
          steps, off_grid
ropeVars == <<head, tail, visited_cells, rope, rope_cells, steps, off_grid>>

Origin == [x |-> 0, y |-> 0]
Vector == [L |-> [x |-> -1, y |-> 0], R |-> [x |-> 1, y |-> 0], U |-> [x |-> 0, y |-> 1], D |-> [x |-> 0, y |-> -1]]

Plus(a, b) == [x |-> a.x + b.x, y |-> a.y + b.y]
Flip(a)    == [a EXCEPT !.y = -a.y]
Abs(n)     == IF n < 0 THEN -n ELSE n
chebychev_dist(a, b) == Max({Abs(a.x - b.x), Abs(a.y - b.y)})

\* What the programs assert of the head.
IsOnGrid(a) == Abs(a.x) < GridSide \div 2 /\ Abs(a.y) < GridSide \div 2
\* What indexing the array of visited cells takes.
HasCell(a)  == a.x + GridSide \div 2 \in 0 .. GridSide - 1 /\ a.y + GridSide \div 2 \in 0 .. GridSide - 1

RopesInit ==
    /\ head = Origin /\ tail = Origin /\ visited_cells = {}
    /\ rope = [k \in 1 .. RopeLen |-> Origin] /\ rope_cells = {}
    /\ steps = 0 /\ off_grid = FALSE

Clamp(n) == IF n > 1 THEN 1 ELSE IF n < -1 THEN -1 ELSE n

move_rope_knot_step(front, knot) ==
    IF chebychev_dist(front, knot) <= 1 THEN knot
    ELSE Plus(knot, [x |-> Clamp(front.x - knot.x), y |-> Clamp(front.y - knot.y)])

\* The knots of the body follow one after the other.
Pulled(knots, delta) ==
    LET pulled[k \in DOMAIN knots] == IF k = 1 THEN Plus(knots[1], delta)
                                      ELSE move_rope_knot_step(pulled[k - 1], knots[k])
    IN  pulled

\* One step of a move, in both programs. What they count is the visited cells.
Step(direction) ==
    /\ ~off_grid /\ steps < MaxSteps
    /\ steps' = steps + 1
    /\ head' = Plus(head, Vector[direction])
    /\ rope' = Pulled(rope, Flip(Vector[direction]))
    /\ off_grid' = ~IsOnGrid(head')
    /\ tail' = IF chebychev_dist(head', tail) > 1 THEN head ELSE tail
    /\ visited_cells' = IF off_grid' THEN visited_cells ELSE visited_cells \cup {tail'}
    /\ rope_cells'    = IF off_grid' THEN rope_cells ELSE rope_cells \cup {rope'[RopeLen]}

RopesNext == \E direction \in DOMAIN Vector : Step(direction)
RopesSpec == RopesInit /\ [][RopesNext]_ropeVars
-----------------------------------------------------------------------------
\* The two rules agree: the tail of 9_1.c is the second knot of 9_2.c, upside
\* down; although the rule of 9_1.c would not do for the knots after it.
TailIsSecondKnot == rope[2] = Flip(tail)

\* The rope holds together: knots that follow each other stay within a step, as
\* 9_2.c asserts only of those that move, and none leaves the array.
RopeHolds ==
    /\ \A k \in 2 .. RopeLen : chebychev_dist(rope[k - 1], rope[k]) <= 1
    /\ \A cell \in visited_cells \cup rope_cells : HasCell(cell)

\* Both ropes, after any moves.
RopesAreRight == TailIsSecondKnot /\ RopeHolds
=============================================================================
