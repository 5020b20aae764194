---------------------------------- MODULE Puzzles ----------------------------------
(***************************************************************************)
(* Three puzzles of src/aoc2022, each a loop over its input: 6_1.c and     *)
(* 6_1_xor.c look for four different letters, 8_1.c for the trees that are *)
(* seen from outside, and 1_1.c for the group with the largest sum.        *)
(***************************************************************************)
EXTENDS Integers, SequencesExt

CONSTANTS Letters, MaxLetters,       \* 0 is none: it ends the text
          Width, Height, TreeSizes,
          Sums, MaxLines             \* a line has a number, or is blank: 0

VARIABLES puzzle,     \* 6_1, 6_1_xor, 8_1 or 1_1
          input,
          cursor,     \* letters, sweeps or lines done
          visible,    \* of 8_1
          sum, max,   \* of 1_1
          answer,     \* Unknown until the end
          undefined   \* has done what C leaves undefined: what follows may be anything
puzzleVars == <<puzzle, input, cursor, visible, sum, max, answer, undefined>>

NUL     == 0
Unknown == -1
Cells == (0 .. Width - 1) \X (0 .. Height - 1)

PuzzlesInit ==
    /\ \/ /\ puzzle \in {"6_1", "6_1_xor"}
          /\ \E n \in 1 .. MaxLetters : input \in [1 .. n -> Letters]
       \/ puzzle = "8_1" /\ input \in [Cells -> TreeSizes]
       \/ puzzle = "1_1" /\ \E n \in 1 .. MaxLines : input \in [1 .. n -> Sums \cup {0}]
    /\ cursor = 0 /\ visible = {} /\ sum = 0 /\ max = 0 /\ answer = Unknown
    /\ undefined = FALSE

-----------------------------------------------------------------------------
(* 6_1.c and 6_1_xor.c *)

HasPair(s)      == \E i, j \in 1 .. 4 : i < j /\ s[i] = s[j]
\* The letters that occur an odd number of times: the bits of the exclusive or.
Combined(s)     == {c \in Letters : Cardinality({i \in 1 .. 4 : s[i] = c}) % 2 = 1}
Differ(s)       == IF puzzle = "6_1" THEN ~HasPair(s) ELSE Cardinality(Combined(s)) = 4

\* The end of the text: 6_1 reads the NUL like a letter, which 6_1_xor would
\* shift by a negative number; there is nothing after it.
Window(n)    == [i \in 1 .. 4 |-> IF n + i <= Len(input) THEN input[n + i] ELSE NUL]
Overreads(n) == n + 4 > Len(input) + (IF puzzle = "6_1" THEN 1 ELSE 0)

\* A window that does not fit is passed over whole, and the NUL with it: the
\* loop then goes on with what is behind the text.
LookAtWindow ==
    /\ puzzle \in {"6_1", "6_1_xor"} /\ answer = Unknown /\ ~undefined /\ cursor < Len(input)
    /\ \/ /\ Overreads(cursor)
          /\ undefined' = TRUE
          /\ UNCHANGED <<cursor, answer>>
       \/ /\ ~Overreads(cursor) /\ Differ(Window(cursor))
          /\ answer' = cursor + 3
          /\ UNCHANGED <<cursor, undefined>>
       \/ /\ ~Overreads(cursor) /\ ~Differ(Window(cursor))
          /\ cursor' = cursor + 4
          /\ undefined' = (cursor' > Len(input))
          /\ UNCHANGED answer
    /\ UNCHANGED <<puzzle, input, visible, sum, max>>

-----------------------------------------------------------------------------
(* 8_1.c *)

\* The sweeps: along rows from the left and the right, along columns from the
\* top and the bottom. The trees before one in a sweep:
Before(sweep, c) ==
    {d \in Cells : \/ sweep = 1 /\ d[2] = c[2] /\ d[1] < c[1]
                   \/ sweep = 2 /\ d[2] = c[2] /\ d[1] > c[1]
                   \/ sweep = 3 /\ d[1] = c[1] /\ d[2] < c[2]
                   \/ sweep = 4 /\ d[1] = c[1] /\ d[2] > c[2]}
\* Mutant of Tops: a tree as high as the highest is seen too.
Tops_equal(sweep) == {c \in Cells : input[c] >= Max({0} \cup {input[d] : d \in Before(sweep, c)})}
\* A tree is seen when it is higher than the highest so far.
Tops(sweep) == {c \in Cells : input[c] > Max({0} \cup {input[d] : d \in Before(sweep, c)})}

Sweep ==
    /\ puzzle = "8_1" /\ answer = Unknown /\ cursor < 4
    /\ cursor' = cursor + 1
    /\ visible' = visible \cup Tops(cursor')
    /\ UNCHANGED <<puzzle, input, sum, max, answer, undefined>>

-----------------------------------------------------------------------------
(* 1_1.c *)

EndsGroup(n)      == n < Len(input) /\ input[n + 1] = 0

\* A line is added, and the sum compared when the next line is blank. A blank
\* line adds nothing.
ReadLine ==
    /\ puzzle = "1_1" /\ answer = Unknown /\ cursor < Len(input)
    /\ cursor' = cursor + 1
    /\ LET total == sum + input[cursor'] IN
       IF EndsGroup(cursor') THEN max' = Max({max, total}) /\ sum' = 0
       ELSE sum' = total /\ UNCHANGED max
    /\ UNCHANGED <<puzzle, input, visible, answer, undefined>>

-----------------------------------------------------------------------------
Done == \/ puzzle = "8_1" /\ cursor = 4
        \/ puzzle = "1_1" /\ cursor = Len(input)
\* The answer is printed.
Report ==
    /\ answer = Unknown /\ Done
    /\ answer' = IF puzzle = "8_1" THEN Cardinality(visible) ELSE max
    /\ UNCHANGED <<puzzle, input, cursor, visible, sum, max, undefined>>

PuzzlesNext == LookAtWindow \/ Sweep \/ ReadLine \/ Report
PuzzlesSpec == PuzzlesInit /\ [][PuzzlesNext]_puzzleVars
-----------------------------------------------------------------------------
\* What the puzzle looks for: four letters in a row, of which none is there twice.
Differing(n, k) == Cardinality({input[i] : i \in n + 1 .. n + k}) = k
Markers == {n \in 0 .. Len(input) - 4 : Differing(n, 4)}

\* What the two programs find is a marker, up to the three last letters and the
\* NUL, which 6_1 takes for one. It need not be the first: those that do not
\* start at a multiple of four are missed. A program that finds none has missed
\* them all, and leaves its text when that is not a multiple of four long.
FindsAMarker ==
    puzzle \in {"6_1", "6_1_xor"} =>
        /\ answer # Unknown =>
             LET n == answer - 3
             IN  /\ n \in Markers \/ (puzzle = "6_1" /\ n + 3 = Len(input) /\ Differing(n, 3))
                 /\ \A m \in Markers : m < n => m % 4 # 0
        /\ answer = Unknown /\ (undefined \/ cursor = Len(input)) => \A m \in Markers : m % 4 # 0
        /\ undefined => Len(input) % 4 # 0

\* A tree is counted once, when from one side at least all before it are lower.
CountsVisibleTrees ==
    puzzle = "8_1" /\ answer # Unknown =>
        answer = Cardinality({c \in Cells : \E s \in 1 .. 4 : \A d \in Before(s, c) : input[d] < input[c]})

\* What the puzzle looks for: the largest sum of the lines between blank ones.
IsGroup(a, b) == /\ a <= b /\ (b = Len(input) \/ input[b + 1] = 0) /\ (a = 1 \/ input[a - 1] = 0)
                 /\ \A i \in a .. b : input[i] # 0
SumOf(s) ==
    LET total[n \in 0 .. Len(s)] == IF n = 0 THEN 0 ELSE total[n - 1] + s[n]
    IN  total[Len(s)]
Groups == {g \in (1 .. Len(input)) \X (1 .. Len(input)) : IsGroup(g[1], g[2])}
GroupSum(g) == SumOf(SubSeq(input, g[1], g[2]))
Largest(G)  == Max({0} \cup {GroupSum(g) : g \in G})
\* The program prints it, unless it is the sum of the group that ends the text:
\* then it prints that of the others.
FindsTheLargestGroup ==
    puzzle = "1_1" /\ answer # Unknown =>
        \/ answer = Largest(Groups)
        \/ \E last \in Groups : /\ last[2] = Len(input) /\ GroupSum(last) > answer
                               /\ answer = Largest(Groups \ {last})

\* What each loop prints is what its puzzle asks for, up to the cases that the
\* parts tell: markers that are missed, and a last group that does not count.
PuzzlesAreSolved == FindsAMarker /\ CountsVisibleTrees /\ FindsTheLargestGroup
=============================================================================
