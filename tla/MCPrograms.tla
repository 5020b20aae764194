------------------------------- MODULE MCPrograms -------------------------------
(***************************************************************************)
(* Instances of the programs and data structures of this repository that   *)
(* do not interact: those that run other processes or are run as one, the  *)
(* structures of src/pg/pg.h, and the small programs. They have nothing in *)
(* common but the model checker: `program` chooses the one that runs, the  *)
(* others do not move.                                                     *)
(***************************************************************************)
EXTENDS Sequential, Sudoku    \* whose completions TLC then computes once

CONSTANTS Backends, MaxRetries, MaxDuration,
          PipeCapacity, MaxOutput,
          HeadLength, PayloadLengths, max_payload_length, SocketBuffer, ResponseLength,
          ClientBuffer, BatchSizeMax, TimesOut,
          ReadEvents, ImageWords, MaxXEvents,
          LineRange, MaxSpecial, U16, CallSize

-----------------------------------------------------------------------------
(* Parameters that a configuration file cannot hold. *)

SpanNeedles == {<<"0", "x">>, <<"a", "a", "x">>, <<"x", "/">>, <<"/">>}

\* Three pointers share a slot; so does the other in a table of four.
SharedHash(ptr) == IF ptr = 2 THEN 5 ELSE 1

\* Sudokus: with one solution, with two, and with none.
Solved     == <<1,2,3,4, 3,4,1,2, 2,1,4,3, 4,3,2,1>>
Without(h) == [p \in 0 .. 15 |-> IF p \in h THEN 0 ELSE Solved[p + 1]]
SudokuPuzzles == {Without(h) : h \in {{0, 1, 4, 5}, {0, 2, 4, 6}, {0, 1, 2, 3}, {0, 5, 10, 15, 3}}}
                \cup {[Without({0, 1, 2, 3}) EXCEPT ![7] = 1], [Without({0, 1, 4, 13}) EXCEPT ![2] = 0, ![6] = 3],
                      [Without({0, 1, 2, 3, 5}) EXCEPT ![4] = 4]}

\* Binaries for the crash reporter: one function of three rows, and what can go
\* wrong in its header, commands, functions and text; and all functions of three
\* rows with short and long steps, followed by another.
LineBase == -1
NeededSections == {"__debug_abbrev", "__debug_info", "__debug_str", "__debug_line"}
Files == <<[name |-> 5, dir |-> 0, time |-> 0, size |-> 0], [name |-> 6, dir |-> 1, time |-> 0, size |-> 3]>>
Other(cmd) == [cmd |-> cmd, sections |-> {}, ntools |-> 0]
Dsym == <<Other("uuid"), Other("build_version"), Other("symtab"), [cmd |-> "segment", sections |-> {"__text"}],
          [cmd |-> "segment", sections |-> NeededSections \cup {"__debug_loc"}]>>
Fun(name, low, bytes) == [name |-> name, low |-> low, size |-> bytes, file |-> 1]
Plain == [commands |-> Dsym, dirs |-> 1, names |-> Files,
          sequences |-> <<<<[pc |-> 4, line |-> 2, file |-> 1], [pc |-> 6, line |-> 3, file |-> 1], [pc |-> 9, line |-> 2, file |-> 1]>>>>,
          functions |-> <<Fun(1, 4, 7)>>, debug_str |-> <<7, 0, 7, 7, 0>>,
          text |-> <<"a", "\n", " ", "b", "\n", "c", "\n", "\n", "d", "\n">>,
          missing |-> {}, unreadable |-> {}, addresses |-> 4 .. 12]
Row(dpc, line) == [dpc |-> dpc, line |-> line]
Steps == {Row(d, l) : d \in {1, 2, 5}, l \in {0, 2, 3, 5}}
Rows(low, given) == [i \in 1 .. Len(given) + 1 |->
     [pc |-> low + FoldLeft(LAMBDA n, s : n + s.dpc, 0, SubSeq(given, 1, i - 1)),
      line |-> IF i = 1 THEN 2 ELSE given[i - 1].line, file |-> IF i = 3 THEN 2 ELSE 1]]
Sequenced(rows, rest) == [Plain EXCEPT !.sequences = <<rows>> \o rest, !.functions = <<Fun(1, 4, 12), Fun(3, 16, 4)>>, !.addresses = 6 .. 20]
Binaries == {Plain, [Plain EXCEPT !.dirs = 0], [Plain EXCEPT !.dirs = 2], [Plain EXCEPT !.dirs = 0, !.names[1].time = 4],
     [Plain EXCEPT !.commands = <<Dsym[1]>>], [Plain EXCEPT !.commands = Append(Dsym, Other("dysymtab"))],
     [Plain EXCEPT !.commands[2].ntools = 1],
     [Plain EXCEPT !.functions = <<Fun(1, 4, 3), Fun(3, 7, 3)>>], [Plain EXCEPT !.functions = <<Fun(1, 4, 20)>>],
     [Plain EXCEPT !.functions = <<Fun(0, 4, 9)>>],
     [Plain EXCEPT !.missing = {5}], [Plain EXCEPT !.unreadable = {5}], [Plain EXCEPT !.missing = {6}, !.unreadable = {6}],
     [Plain EXCEPT !.sequences[1][2].line = 4],
     [Plain EXCEPT !.sequences[1][2].line = 4, !.text = <<"a", "\n", " ", "b", "\n", "c", "\n", " ", "\n", "\n">>],
     [Plain EXCEPT !.text = <<"a", "\n", " ", "b", "\n", "c", "\n">>],
     [Plain EXCEPT !.text = <<"a", "\n", " ", "b", "\n", "c">>]}
   \cup {Sequenced(Rows(4, <<a, b>>), <<<<[pc |-> 16, line |-> 1, file |-> 1], [pc |-> 19, line |-> 3, file |-> 1]>>>>) : a \in Steps, b \in Steps}
   \cup {Sequenced(Rows(4, <<a>>), <<>>) : a \in Steps}

-----------------------------------------------------------------------------
VARIABLES program,
          backend, pc, attempt, child, outcome, notices, told, result,
          step, exec_pc, plan, written, pipe, got, exec_child, missed, url,
          server, handler, fds, req_len, sent, to_server, to_client, reset, client,
          method, msg_len, total_sent, total_received, trouble,
          drawing, requests, missing, taken, in_step, exposed, x_events,
          binary, reading, offset, files, op, fsm, line_entries, command, sections,
          strings, die, directory, fn_decls, newline_offsets, frame

Retries   == INSTANCE Retry
Execs     == INSTANCE PgExec WITH pc <- exec_pc, child <- exec_child
Exchanges == INSTANCE HttpExchange WITH written <- sent
Windows   == INSTANCE X11 WITH stage <- drawing, events <- x_events, MaxEvents <- MaxXEvents
Symbols   == INSTANCE Symbolizer WITH stage <- reading

\* What the theorems assume of the parameters.
ASSUME RetryAssumption == Backends \subseteq Retries!Ueb \cup {"eb"} /\ MaxRetries \in Nat
ASSUME ExecAssumption  == PipeCapacity \in Nat /\ MaxOutput \in Nat
\* The response fits into the buffer of the client.
ASSUME HttpAssumption  ==
    /\ HeadLength \in Nat \ {0} /\ PayloadLengths \subseteq Nat
    /\ {max_payload_length, SocketBuffer, ClientBuffer, BatchSizeMax} \subseteq Nat
    /\ ResponseLength \in 1 .. ClientBuffer
ASSUME XAssumption     == ImageWords \in Nat \ {0} /\ ReadEvents \in Nat

retryVars == <<backend, pc, attempt, child, outcome, notices, told, result>>
execVars == <<step, exec_pc, plan, written, pipe, got, exec_child, missed, url>>
httpVars == <<server, handler, fds, req_len, sent, to_server, to_client, reset, client,
                method, msg_len, total_sent, total_received, trouble>>
xVars == <<drawing, requests, missing, taken, in_step, exposed, x_events>>
symbolVars == <<binary, reading, offset, files, op, fsm, line_entries, command, sections,
                strings, die, directory, fn_decls, newline_offsets, frame>>
vars == <<program, retryVars, execVars, httpVars, poolVars, bitVars, ringVars, spanVars, bufVars,
         allocVars, sudokuVars, onCallVars, xVars, ropeVars, puzzleVars, symbolVars>>

Init ==
    /\ program \in {"retry", "gitlab-url-copy", "http-server", "pool", "bit_array",
                    "ring", "span", "buffer", "dtrace-alloc-postprocess", "sudoku",
                    "on-call", "x11", "rope", "puzzle", "crash-reporter"}
    \* A program that does not run has one initial state.
    /\ program # "retry" => backend = CHOOSE b \in Backends : TRUE
    /\ program # "http-server" => method = "known" /\ msg_len = HeadLength
    /\ program # "bit_array" => max_index = CHOOSE m \in MaxIndices : TRUE
    /\ program # "buffer" => kind = "array" /\ capacity = 0 /\ size = CHOOSE s \in FileSizes : TRUE
    /\ program # "dtrace-alloc-postprocess" => initial_cap = CHOOSE c \in InitialCaps : TRUE
    /\ program # "sudoku" => solver = "constraints" /\ puzzle = CHOOSE g \in Puzzles : TRUE
    /\ program # "puzzle" => aoc = "1_1" /\ input = <<0>>
    /\ program # "crash-reporter" => binary = Plain
    /\ Retries!RetryInit /\ Execs!ExecInit /\ Exchanges!HttpInit /\ Pools!PoolInit
    /\ Bitarrays!BitInit /\ RingInit /\ SpansOf!SpansInit /\ BuffersOf!BufInit
    /\ Traces!AllocInit /\ SudokuInit /\ Shifts!OnCallInit /\ Windows!XInit
    /\ RopesOf!RopesInit /\ Symbols!SymbolInit /\ PuzzlesOf!PuzzlesInit

RetryStep == program = "retry" /\ Retries!RetryNext
    /\ UNCHANGED <<program, execVars, httpVars, poolVars, bitVars, ringVars, spanVars,
                           bufVars, allocVars, sudokuVars, onCallVars, xVars, ropeVars,
                           puzzleVars, symbolVars>>
PgExecStep == program = "gitlab-url-copy" /\ Execs!ExecNext
    /\ UNCHANGED <<program, retryVars, httpVars, poolVars, bitVars, ringVars, spanVars,
                           bufVars, allocVars, sudokuVars, onCallVars, xVars, ropeVars,
                           puzzleVars, symbolVars>>
HttpExchangeStep == program = "http-server" /\ Exchanges!HttpNext
    /\ UNCHANGED <<program, retryVars, execVars, poolVars, bitVars, ringVars, spanVars,
                           bufVars, allocVars, sudokuVars, onCallVars, xVars, ropeVars,
                           puzzleVars, symbolVars>>
PoolStep == program = "pool" /\ Pools!PoolNext
    /\ UNCHANGED <<program, retryVars, execVars, httpVars, bitVars, ringVars, spanVars,
                           bufVars, allocVars, sudokuVars, onCallVars, xVars, ropeVars,
                           puzzleVars, symbolVars>>
BitarrayStep == program = "bit_array" /\ Bitarrays!BitNext
    /\ UNCHANGED <<program, retryVars, execVars, httpVars, poolVars, ringVars, spanVars,
                           bufVars, allocVars, sudokuVars, onCallVars, xVars, ropeVars,
                           puzzleVars, symbolVars>>
RingDequeStep == program = "ring" /\ RingNext
    /\ UNCHANGED <<program, retryVars, execVars, httpVars, poolVars, bitVars, spanVars,
                           bufVars, allocVars, sudokuVars, onCallVars, xVars, ropeVars,
                           puzzleVars, symbolVars>>
SpansStep == program = "span" /\ SpansOf!SpansNext
    /\ UNCHANGED <<program, retryVars, execVars, httpVars, poolVars, bitVars, ringVars,
                           bufVars, allocVars, sudokuVars, onCallVars, xVars, ropeVars,
                           puzzleVars, symbolVars>>
BuffersStep == program = "buffer" /\ BuffersOf!BufNext
    /\ UNCHANGED <<program, retryVars, execVars, httpVars, poolVars, bitVars, ringVars,
                           spanVars, allocVars, sudokuVars, onCallVars, xVars, ropeVars,
                           puzzleVars, symbolVars>>
AllocTraceStep == program = "dtrace-alloc-postprocess" /\ Traces!AllocNext
    /\ UNCHANGED <<program, retryVars, execVars, httpVars, poolVars, bitVars, ringVars,
                           spanVars, bufVars, sudokuVars, onCallVars, xVars, ropeVars,
                           puzzleVars, symbolVars>>
SudokuStep == program = "sudoku" /\ SudokuNext
    /\ UNCHANGED <<program, retryVars, execVars, httpVars, poolVars, bitVars, ringVars,
                           spanVars, bufVars, allocVars, onCallVars, xVars, ropeVars,
                           puzzleVars, symbolVars>>
OnCallStep == program = "on-call" /\ Shifts!OnCallNext
    /\ UNCHANGED <<program, retryVars, execVars, httpVars, poolVars, bitVars, ringVars,
                           spanVars, bufVars, allocVars, sudokuVars, xVars, ropeVars,
                           puzzleVars, symbolVars>>
X11Step == program = "x11" /\ Windows!XNext
    /\ UNCHANGED <<program, retryVars, execVars, httpVars, poolVars, bitVars, ringVars,
                           spanVars, bufVars, allocVars, sudokuVars, onCallVars,
                           ropeVars, puzzleVars, symbolVars>>
RopesStep == program = "rope" /\ RopesOf!RopesNext
    /\ UNCHANGED <<program, retryVars, execVars, httpVars, poolVars, bitVars, ringVars,
                           spanVars, bufVars, allocVars, sudokuVars, onCallVars, xVars,
                           puzzleVars, symbolVars>>
PuzzlesStep == program = "puzzle" /\ PuzzlesOf!PuzzlesNext
    /\ UNCHANGED <<program, retryVars, execVars, httpVars, poolVars, bitVars, ringVars,
                           spanVars, bufVars, allocVars, sudokuVars, onCallVars, xVars,
                           ropeVars, symbolVars>>
SymbolizerStep == program = "crash-reporter" /\ Symbols!SymbolNext
    /\ UNCHANGED <<program, retryVars, execVars, httpVars, poolVars, bitVars, ringVars,
                           spanVars, bufVars, allocVars, sudokuVars, onCallVars, xVars,
                           ropeVars, puzzleVars>>

Next ==
    \/ RetryStep \/ PgExecStep \/ HttpExchangeStep \/ PoolStep \/ BitarrayStep
    \/ RingDequeStep \/ SpansStep \/ BuffersStep \/ AllocTraceStep \/ SudokuStep
    \/ OnCallStep \/ X11Step \/ RopesStep \/ PuzzlesStep \/ SymbolizerStep

RetryFair  == program = "retry" /\ Retries!Parent
EbFair     == program = "retry" /\ Retries!exit_after_max_duration
ExecFair   == program = "gitlab-url-copy" /\ Execs!ExecParent
GitFair    == program = "gitlab-url-copy" /\ Execs!ExecChild
ServFair   == program = "http-server" /\ Exchanges!HttpServer
CliFair    == program = "http-server" /\ Exchanges!HttpClient
SudokuFair == program = "sudoku" /\ SudokuNext

\* The fairness of the specifications: of each program and its timers, of git
\* and of the two ends of a connection, but not of a retried command.
Spec ==
    /\ Init /\ [][Next]_vars
    /\ WF_retryVars(RetryFair) /\ WF_retryVars(EbFair)
    /\ WF_execVars(ExecFair) /\ WF_execVars(GitFair)
    /\ WF_httpVars(ServFair) /\ WF_httpVars(CliFair)
    /\ WF_sudokuVars(SudokuFair)
-----------------------------------------------------------------------------
(* The properties of the components, which state and explain them, of the  *)
(* program that runs.                                                      *)

\* Success is only reported when the command succeeded, a command that succeeded
\* is not run again, and a late notification is not taken for the next attempt.
RetryIsSafe == program = "retry" => Retries!RetryIsSafe

\* What a poll of pg_exec has announced is read, and the address that is opened
\* has all its parts.
OutputReachesTheUrl == program = "gitlab-url-copy" => Execs!OutputReachesTheUrl

\* However the bytes are cut, there is no response before the headers are
\* complete, and a client that sees the end of the stream has all of it.
AnswersAreWhole == program = "http-server" => Exchanges!AnswersAreWhole

\* The structures of pg.h: the free list holds the chunks nobody owns, a bit
\* array the bits that were set, and an array what was read, within its memory.
StructuresAreExact ==
    /\ program = "pool" => Pools!FreeListIsExact
    /\ program = "bit_array" => Bitarrays!BitsAreExact
    /\ program = "buffer" => BuffersOf!ContentsAreKept

\* Searches in a text find what is there, splitting and trimming lose nothing
\* else, and a number is parsed as it is written: up to the largest of its type,
\* beyond which a signed one is undefined or what the machine makes of it.
SpansAreRight == program = "span" => SpansOf!SpansAreRight

\* A free is linked to the allocation it ends, both ways, and no lookup goes
\* round for ever in a table that starts with four slots.
PairsAreRight == program = "dtrace-alloc-postprocess" => Traces!PairsAreRight

\* The first pass decides nothing that is open, what is found is a solution, and
\* no puzzle that has one is given up.
SolutionsAreFound == program = "sudoku" => SolverIsRight

\* Every hour of a shift is in the bill of its month, and none is there twice.
BillsAreRight == program = "on-call" => Shifts!BillsAreRight

\* The X server never takes part of an image for a request.
StreamStaysInStep == program = "x11" => Windows!StreamStaysInStep

\* The programs of aoc2022 find what their puzzle asks for, where they look for
\* it: the ropes of 9_1 and 9_2 agree with each other, the answer of the others is
\* one that a search of everything finds, or the best of those they consider.
PuzzlesAreSolved ==
    /\ program = "rope" => RopesOf!RopesAreRight
    /\ program = "puzzle" => PuzzlesOf!PuzzlesAreSolved


\* What must come to its end does, under the fairness above: a retry program, but
\* for a command that it waits for and does not kill, pg_exec when the output fits
\* into its pipes, an exchange of the HTTP server, and the search for a solution
\* that exists.
ProgramsEnd ==
    /\ program = "retry" => Retries!RetryEnds
    /\ program = "gitlab-url-copy" => Execs!Returns
    /\ program = "http-server" => Exchanges!ExchangeEnds
    /\ program = "sudoku" => SolversEnd
=============================================================================
