--------------------------------- MODULE LineTable ---------------------------------
(***************************************************************************)
(* How src/crash-reporter/macho.h reads .debug_line: the names of the      *)
(* directories and files, and the program that tells the line of each      *)
(* address, of which a table of entries is kept. The section is what an    *)
(* assembler writes for the rows of a compiler, modelled here as far as    *)
(* the reader can tell. Bytes count from 1; a number is one byte.          *)
(***************************************************************************)
EXTENDS Integers, SequencesExt

CONSTANTS Binaries,    \* what the compiler has to say: see Symbolizer
          LineBase, LineRange, MaxSpecial   \* the parameters of special opcodes

VARIABLES binary,
          stage,    \* commands, strings, directories, files, program, ... of the reader
          offset,   \* in .debug_line
          files,    \* the names read, of one byte
          op, fsm, line_entries
lineVars == <<binary, stage, offset, files, op, fsm, line_entries>>

\* The header: the directories and the files, each list ended by a 0. A file
\* has the numbers of its directory, its time and its size.
Header == FlattenSeq([i \in 1 .. binary.dirs |-> <<9, 0>>]) \o <<0>>
            \o FlattenSeq([i \in DOMAIN binary.names |->
                   LET n == binary.names[i] IN <<n.name, 0, n.dir, n.time, n.size>>])
            \o <<0>>

-----------------------------------------------------------------------------
(* The assembler. *)

\* A step of the address and the line is one special opcode when it can be.
Special(dpc, dline) == dline - LineBase + LineRange * dpc
const_add           == MaxSpecial \div LineRange
FitsLine(dline)     == dline \in LineBase .. LineBase + LineRange - 1
Op(name, arg)       == [op |-> name, arg |-> arg]

Advance(dpc, dline, finish) ==
    IF Special(dpc, dline) <= MaxSpecial THEN <<Op("special", Special(dpc, dline))>>
    ELSE IF dpc >= const_add /\ Special(dpc - const_add, dline) <= MaxSpecial
      THEN <<Op("const_add_pc", 0), Op("special", Special(dpc - const_add, dline))>>
    ELSE <<Op("advance_pc", dpc), finish>>

\* A long step of the line comes before that of the address.
Encoded(dpc, dline) ==
    IF FitsLine(dline) THEN Advance(dpc, dline, Op("special", Special(0, dline)))
    ELSE <<Op("advance_line", dline)>>
           \o (IF dpc = 0 THEN <<Op("copy", 0)>> ELSE Advance(dpc, 0, Op("copy", 0)))

RowOps(last, row) ==
    (IF row.file = last.file THEN <<>> ELSE <<Op("set_file", row.file)>>)
      \o Encoded(row.pc - last.pc, row.line - last.line)

\* A sequence is the rows of one function.
SequenceOps(rows) ==
    <<Op("set_address", rows[1].pc)>>
      \o FlattenSeq([i \in DOMAIN rows |->
             RowOps(IF i = 1 THEN [pc |-> rows[1].pc, line |-> 1, file |-> 1] ELSE rows[i - 1], rows[i])])
      \o <<Op("end_sequence", 0)>>

ops == FlattenSeq([i \in DOMAIN binary.sequences |-> SequenceOps(binary.sequences[i])])

-----------------------------------------------------------------------------
(* The reader. *)

StartOfSequence == [address |-> 0, line |-> 1, file |-> 1]

LineInit ==
    /\ offset = 1 /\ files = <<>>
    /\ op = 1 /\ fsm = StartOfSequence /\ line_entries = <<>>

Nuls(o) == {p \in o .. Len(Header) : Header[p] = 0}

\* One directory. The list ends with two zeros; one that is empty has only one,
\* and the names of the files are passed over too.
ReadDirectory ==
    /\ stage = "directories" /\ Nuls(offset) # {}
    /\ LET end == Min(Nuls(offset)) IN
       IF end = offset THEN offset' = offset + 1 /\ UNCHANGED stage
       ELSE IF end < Len(Header) /\ Header[end + 1] = 0 THEN offset' = end + 2 /\ stage' = "files"
       ELSE offset' = end /\ UNCHANGED stage
    /\ UNCHANGED <<binary, files, op, fsm, line_entries>>

NumbersOfAFile     == 3

\* A file: its name, and three numbers.
ReadFile ==
    /\ stage = "files" /\ Nuls(offset) # {}
    /\ IF Header[offset] = 0
       THEN /\ offset' = offset + 1
            /\ stage' = IF offset = Len(Header) THEN "program" ELSE "garbled"
            /\ UNCHANGED files
       ELSE /\ files' = Append(files, Header[offset])
            /\ offset' = Min(Nuls(offset)) + 1 + NumbersOfAFile
            /\ UNCHANGED stage
    /\ UNCHANGED <<binary, op, fsm, line_entries>>

\* The header was not read to its end, or beyond it: what follows is nonsense.
LosesTrack ==
    /\ stage \in {"directories", "files"} /\ Nuls(offset) = {}
    /\ stage' = "garbled"
    /\ UNCHANGED <<binary, offset, files, op, fsm, line_entries>>

Top == Last(line_entries)

\* dw_line_entry_should_add_new_entry. Line 0 is code of no line.
ShouldAddNewEntry(f) ==
    /\ f.line # 0
    /\ line_entries # <<>> => Top.pc # f.address /\ (Top.line # f.line \/ Top.file # f.file)

NewEntry(f) == IF ShouldAddNewEntry(f)
               THEN Append(line_entries, [pc |-> f.address, line |-> f.line, file |-> f.file])
               ELSE line_entries

AddressStep(o) == IF o.op = "special" THEN o.arg \div LineRange
                  ELSE IF o.op = "const_add_pc" THEN const_add
                  ELSE IF o.op = "advance_pc" THEN o.arg ELSE 0
LineStep(o) == IF o.op = "special" THEN LineBase + (o.arg % LineRange)
               ELSE IF o.op = "advance_line" THEN o.arg ELSE 0

\* The line has 16 bits. Other opcodes do not change what is looked at.
AfterOp(f, o) ==
    IF o.op = "end_sequence" THEN StartOfSequence
    ELSE IF o.op = "set_address" THEN [f EXCEPT !.address = o.arg]
    ELSE IF o.op = "set_file" THEN [f EXCEPT !.file = o.arg]
    ELSE [f EXCEPT !.address = @ + AddressStep(o), !.line = (@ + LineStep(o)) % 65536]

RunOp ==
    /\ stage = "program" /\ op \in DOMAIN ops
    /\ fsm' = AfterOp(fsm, ops[op])
    /\ line_entries' = IF ops[op].op \in {"special", "advance_line"} THEN NewEntry(fsm') ELSE line_entries
    /\ op' = op + 1
    /\ UNCHANGED <<binary, stage, offset, files>>

EndOfProgram ==
    /\ stage = "program" /\ op \notin DOMAIN ops
    /\ stage' = "abbrev"
    /\ UNCHANGED <<binary, offset, files, op, fsm, line_entries>>

LineNext == ReadDirectory \/ ReadFile \/ LosesTrack \/ RunOp \/ EndOfProgram

-----------------------------------------------------------------------------
\* The rows of the whole program, which are sorted by address.
Rows == FlattenSeq(binary.sequences)
Begins(r) == \E i \in DOMAIN binary.sequences : Rows[r] = binary.sequences[i][1]
IsLong(r) == ~Begins(r) /\ ~FitsLine(Rows[r].line - Rows[r - 1].line)
\* A row that is a long step of the line and of the address is written with a
\* copy opcode, of which the reader makes no entry.
IsCopied(r) == ~Begins(r) /\ Last(RowOps(Rows[r - 1], Rows[r])).op = "copy"

\* The header is read to its end, with every file: when there are directories.
\* (Without any, the list of files is taken for them.)
HeaderIsRead ==
    /\ stage = "garbled" => binary.dirs = 0
    /\ stage = "program" => files = [i \in DOMAIN binary.names |-> binary.names[i].name]

\* Every entry is a row of the compiler, at its address; or, when the line made
\* a long step, at that of the row before. The entries are sorted by address.
EntriesAreRows ==
    /\ \A i \in DOMAIN line_entries : LET e == line_entries[i] IN
         \E r \in DOMAIN Rows : /\ e.line = Rows[r].line /\ e.file = Rows[r].file
                                /\ \/ e.pc = Rows[r].pc
                                   \/ IsLong(r) /\ e.pc >= Rows[r - 1].pc /\ e.pc < Rows[r].pc
    /\ \A i \in 2 .. Len(line_entries) : line_entries[i - 1].pc < line_entries[i].pc
=============================================================================
