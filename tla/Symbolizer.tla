-------------------------------- MODULE Symbolizer --------------------------------
(***************************************************************************)
(* src/crash-reporter/macho.h: from the debug information of a binary to   *)
(* the function, the file, the line and the source text of an address.     *)
(* A binary is a record: its load commands, the number of directories and  *)
(* the names of files, the rows of its lines, its functions, the bytes of  *)
(* .debug_str, the text of its sources and the names of those that cannot  *)
(* be opened or read, and the addresses to look up.                        *)
(***************************************************************************)
EXTENDS LineTable

CONSTANTS U16,        \* 2^16: the end of a function, and the offset of a line
          CallSize    \* what is subtracted from a return address

VARIABLES command, sections,   \* of the object file
          strings,             \* the offsets where a string is known to be
          die, directory, fn_decls,
          newline_offsets,
          frame                \* the last one printed
symbolVars == <<lineVars, command, sections, strings, die, directory, fn_decls, newline_offsets, frame>>

NoFrame == [pc |-> 0, fn_name |-> 0, file |-> 0, line |-> 0, text |-> <<>>]

SymbolInit ==
    /\ binary \in Binaries /\ stage = "commands" /\ LineInit
    /\ command = 1 /\ sections = {} /\ strings = {}
    /\ die = 1 /\ directory = 0 /\ fn_decls = <<>>
    /\ newline_offsets = <<>> /\ frame = NoFrame

Needed == {"__debug_abbrev", "__debug_info", "__debug_str", "__debug_line"}

\* A load command: only segments hold sections. Any other kind is an error, and
\* so are the versions of tools.
ReadCommand ==
    /\ stage = "commands" /\ command \in DOMAIN binary.commands
    /\ LET c == binary.commands[command] IN
       IF /\ c.cmd \in {"uuid", "build_version", "symtab", "segment"}
          /\ c.cmd = "build_version" => c.ntools = 0
       THEN /\ command' = command + 1
            /\ sections' = sections \cup (IF c.cmd = "segment" THEN c.sections \cap Needed ELSE {})
            /\ UNCHANGED stage
       ELSE stage' = "asserted" /\ UNCHANGED <<command, sections>>
    /\ UNCHANGED <<binary, offset, files, op, fsm, line_entries, strings, die, directory, fn_decls, newline_offsets, frame>>

\* The strings are read first, as the entries refer to them: what begins after
\* a zero is one, the rest of one is not.
StringsIn(bytes) == {o \in DOMAIN bytes : bytes[o] # 0 /\ (o = 1 \/ bytes[o - 1] = 0)}
ReadStrings ==
    /\ stage = "commands" /\ command \notin DOMAIN binary.commands
    /\ IF sections = Needed THEN stage' = "directories" /\ strings' = StringsIn(binary.debug_str)
       ELSE stage' = "asserted" /\ UNCHANGED strings
    /\ UNCHANGED <<binary, offset, files, op, fsm, line_entries, command, sections, die, directory, fn_decls, newline_offsets, frame>>

-----------------------------------------------------------------------------
(* .debug_info *)

\* What a compiler writes of its functions: a tag and a list of attributes with
\* their forms for each type of entry, and the entries, those of a function
\* followed by one for a variable and the end of its children. Type 3 is for a
\* function that is described elsewhere.
Abbrevs == <<
    [tag |-> "compile_unit", attributes |-> <<<<"name", "strp">>, <<"stmt_list", "sec_offset">>, <<"comp_dir", "strp">>,
                                              <<"low_pc", "addr">>, <<"high_pc", "data4">>>>],
    [tag |-> "subprogram", attributes |-> <<<<"low_pc", "addr">>, <<"high_pc", "data4">>, <<"frame_base", "exprloc">>,
                                            <<"name", "strp">>, <<"decl_file", "data1">>, <<"decl_line", "data1">>>>],
    [tag |-> "subprogram", attributes |-> <<<<"low_pc", "addr">>, <<"high_pc", "data4">>, <<"abstract_origin", "ref4">>>>],
    [tag |-> "variable", attributes |-> <<<<"name", "strp">>, <<"decl_file", "data1">>, <<"decl_line", "data1">>>>] >>
Die(type, values) == [type |-> type, values |-> values]
dies ==
    <<Die(1, <<1, 0, 1, 0, 0>>)>> \o FlattenSeq([i \in DOMAIN binary.functions |->
        LET f == binary.functions[i] IN
        <<IF f.name = 0 THEN Die(3, <<f.low, f.size, 1>>) ELSE Die(2, <<f.low, f.size, 0, f.name, f.file, 1>>),
          Die(4, <<1, 1, 1>>), Die(0, <<>>)>>])

ReadAbbrevs ==
    /\ stage = "abbrev" /\ stage' = "info"
    /\ UNCHANGED <<binary, offset, files, op, fsm, line_entries, command, sections, strings, die, directory, fn_decls, newline_offsets, frame>>

SetsFile(at, f) == at = <<"decl_file", "data1">> /\ f.file = 0

\* What an attribute with its value does to a function. A form decides how much
\* is read, and only some attributes in some forms are kept.
WithAttribute(f, at, value) ==
    IF at = <<"name", "strp">> THEN [f EXCEPT !.fn_name = value]
    ELSE IF SetsFile(at, f) THEN [f EXCEPT !.file = files[value]]
    ELSE IF at = <<"low_pc", "addr">> THEN [f EXCEPT !.low_pc = value]
    ELSE IF at = <<"high_pc", "data4">> THEN [f EXCEPT !.high_pc = value % U16]
    ELSE f

AbbrevOf(d)    == Abbrevs[d.type]
Attributes(d)  == DOMAIN AbbrevOf(d).attributes
IsFunction(d)  == AbbrevOf(d).tag = "subprogram"
Known(d)       == \A i \in Attributes(d) :
                      /\ AbbrevOf(d).attributes[i][2] = "strp" => d.values[i] \in strings
                      /\ IsFunction(d) /\ AbbrevOf(d).attributes[i] = <<"decl_file", "data1">> => d.values[i] \in DOMAIN files
NewFunction    == [low_pc |-> 0, high_pc |-> 0, fn_name |-> 0, file |-> 0, directory |-> directory]
FunctionOf(d)  == FoldLeftDomain(LAMBDA f, i : WithAttribute(f, AbbrevOf(d).attributes[i], d.values[i]),
                                 NewFunction, d.values)
\* The directory counts from the next entry on.
DirectoryOf(d) == FoldLeftDomain(LAMBDA dir, i : IF AbbrevOf(d).attributes[i] = <<"comp_dir", "strp">>
                                                 THEN d.values[i] ELSE dir,
                                 directory, d.values)

\* One entry of .debug_info. Type 0 ends a list of children.
ReadDie ==
    /\ stage = "info" /\ die \in DOMAIN dies
    /\ LET d == dies[die] IN
       IF d.type = 0 THEN die' = die + 1 /\ UNCHANGED <<stage, directory, fn_decls>>
       ELSE IF ~Known(d) THEN stage' = "asserted" /\ UNCHANGED <<die, directory, fn_decls>>
       ELSE /\ fn_decls' = IF IsFunction(d) THEN Append(fn_decls, FunctionOf(d)) ELSE fn_decls
            /\ directory' = DirectoryOf(d)
            /\ die' = die + 1
            /\ UNCHANGED stage
    /\ UNCHANGED <<binary, offset, files, op, fsm, line_entries, command, sections, strings, newline_offsets, frame>>

Newlines(text) == SetToSortSeq({j - 1 : j \in {k \in DOMAIN text : text[k] = "\n"}}, <)
\* Where the lines end, with 0 for the first to start from.
NewlineOffsets(text) ==
    <<0>> \o [i \in DOMAIN Newlines(text) |-> Newlines(text)[i] % U16] \o <<Len(text) % U16>>

\* The source of every function that has one. pg_read_file takes a file that it
\* cannot open for an empty one; when reading fails the process exits.
Sourced     == {fn_decls[i].file : i \in {j \in DOMAIN fn_decls : fn_decls[j].directory # 0 /\ fn_decls[j].file # 0}}
Contents(f) == IF f \in binary.missing THEN <<>> ELSE binary.text
ReadSources ==
    /\ stage = "info" /\ die \notin DOMAIN dies
    /\ IF Sourced \cap binary.unreadable # {} THEN stage' = "exited" /\ UNCHANGED newline_offsets
       ELSE stage' = "ready" /\ newline_offsets' = [f \in Sourced |-> NewlineOffsets(Contents(f))]
    /\ UNCHANGED <<binary, offset, files, op, fsm, line_entries, command, sections, strings, die, directory, fn_decls, frame>>

-----------------------------------------------------------------------------
(* stacktrace_find_entry and stacktrace_print *)

\* The first function that has the address, its end included.
Holding(pc) == {i \in DOMAIN fn_decls : fn_decls[i].low_pc <= pc /\ pc <= fn_decls[i].low_pc + fn_decls[i].high_pc}
\* The entry before the first one that is behind the address; none is when the
\* address is behind them all.
LineAt(pc) == LET behind == {i \in 2 .. Len(line_entries) : line_entries[i].pc > pc}
              IN  IF behind = {} THEN 0 ELSE line_entries[Min(behind) - 1].line

\* From behind one newline to the next. (The first line loses a character.)
Start(f, line) == newline_offsets[f][line] + 1
End(f, line)   == newline_offsets[f][line + 1]
IsInText(f, line) ==
    /\ line >= 1 /\ line < Len(newline_offsets[f])
    /\ Start(f, line) < Len(Contents(f)) /\ End(f, line) < Len(Contents(f))

Spaces == {" ", "\t", "\n"}
Beyond == "..."    \* the bytes that follow the contents in memory, up to a zero
\* Spaces are skipped, newlines too, and counted off an unsigned length: when it
\* wraps, printf takes it for a negative precision, which is none.
TextOf(f, line) ==
    LET text == Contents(f)
        left == {i \in Start(f, line) + 1 .. Len(text) : text[i] \notin Spaces}
    IN  IF left = {} THEN <<Beyond>>
        ELSE IF Min(left) - 1 <= End(f, line) THEN SubSeq(text, Min(left), End(f, line))
        ELSE Append(SubSeq(text, Min(left), Len(text)), Beyond)

\* One frame of the stack, by its return address. Nothing is shown for code
\* without debug information.
PrintFrame(rip) ==
    LET pc == rip - CallSize IN
    /\ stage = "ready"
    /\ IF Holding(pc) = {} THEN frame' = [NoFrame EXCEPT !.pc = pc] /\ UNCHANGED stage
       ELSE LET f == fn_decls[Min(Holding(pc))] IN
            IF f.directory = 0 THEN frame' = [NoFrame EXCEPT !.pc = pc] /\ UNCHANGED stage
            ELSE IF f.file = 0 \/ f.fn_name = 0 \/ ~IsInText(f.file, LineAt(pc))
              THEN stage' = "asserted" /\ frame' = [NoFrame EXCEPT !.pc = pc]
            ELSE /\ frame' = [pc |-> pc, fn_name |-> f.fn_name, file |-> f.file, line |-> LineAt(pc),
                              text |-> TextOf(f.file, LineAt(pc))]
                 /\ UNCHANGED stage
    /\ UNCHANGED <<binary, offset, files, op, fsm, line_entries, command, sections, strings, die, directory, fn_decls, newline_offsets>>

SymbolNext ==
    \/ ReadCommand \/ ReadStrings \/ ReadAbbrevs \/ ReadDie \/ ReadSources
    \/ \E rip \in binary.addresses : PrintFrame(rip)
    \/ LineNext /\ UNCHANGED <<command, sections, strings, die, directory, fn_decls, newline_offsets, frame>>
SymbolSpec == SymbolInit /\ [][SymbolNext]_symbolVars
-----------------------------------------------------------------------------
\* The text of a line of the source.
LineStart(n) == IF n = 1 THEN 1 ELSE Newlines(binary.text)[n - 1] + 2
SourceLine(n) ==
    LET ink == {i \in LineStart(n) .. Newlines(binary.text)[n] : binary.text[i] # " "}
    IN  IF ink = {} THEN <<>> ELSE SubSeq(binary.text, Min(ink), Newlines(binary.text)[n])
HasCode(f, pc) == f.low <= pc /\ pc < f.low + f.size

Shown == frame.fn_name # 0

\* The function shown for an address is the one whose code it is, or one that
\* ends right there; and code of a function with debug information is found,
\* unless the function has 2^16 bytes.
FunctionIsRight ==
    /\ Shown => \E i \in DOMAIN binary.functions : LET f == binary.functions[i] IN
           f.name = frame.fn_name /\ (HasCode(f, frame.pc) \/ frame.pc = f.low + f.size)
    /\ stage = "ready" /\ ~Shown =>
           \A i \in DOMAIN binary.functions : HasCode(binary.functions[i], frame.pc) => binary.functions[i].size >= U16

\* The line shown is that of the last row at or before the address, not counting
\* code of no line, and rows that are a long step of line and address (which get
\* lost); or that of a long step of the line, which may count too early.
LineIsRight ==
    Shown => LET before == {r \in DOMAIN Rows : Rows[r].pc <= frame.pc /\ Rows[r].line # 0 /\ ~IsCopied(r)} IN
             \/ frame.line = Rows[Max(before)].line
             \/ \E r \in DOMAIN Rows : IsLong(r) /\ Rows[r - 1].pc <= frame.pc /\ frame.line = Rows[r].line

\* The text shown is that of the line, without its indentation: but the first
\* line of a file loses a character, the end of a long file is another text, and
\* for a blank line all that follows it is shown, to the end of the file and on.
TextIsTheLine ==
    Shown /\ frame.line > 1 /\ Len(binary.text) < U16 =>
        IF SourceLine(frame.line) # <<>> THEN frame.text = SourceLine(frame.line)
        ELSE Last(frame.text) = Beyond

\* The reporter gives up on a call only where it comes last in the table of
\* lines, in a function that is described elsewhere, in a source that cannot be
\* opened or read, or in a text that is too long or whose last line is not ended;
\* or on a binary that lacks a section, has another load command, or tools.
GivesUpRarely ==
    stage \in {"asserted", "exited"} =>
        \/ \E i \in DOMAIN binary.functions : LET f == binary.functions[i] IN
               f.name = 0 \/ binary.names[f.file].name \in binary.missing \cup binary.unreadable
        \/ frame.pc # 0 /\ frame.pc >= Last(line_entries).pc
        \/ Len(binary.text) >= U16 \/ Last(binary.text) # "\n"
        \/ command \in DOMAIN binary.commands \/ sections # Needed

=============================================================================
