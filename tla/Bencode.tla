--------------------------------- MODULE Bencode ---------------------------------
(***************************************************************************)
(* The bencode parser of src/torrent/bencode.h. It fills three arrays, a   *)
(* value after the other, in which a container comes before its children   *)
(* and its length is the number of them. A token is what one call of       *)
(* bc_parse consumes: a number, a string, the start or the end of a        *)
(* container, a NUL, or some other character. Tokens are read one at a     *)
(* time, and which one comes next is up to the module that uses this one.  *)
(* Positions count from 1, in the code from 0.                             *)
(***************************************************************************)
EXTENDS Integers, SequencesExt

VARIABLES kinds, lengths, spans,  \* the arrays
          parent,    \* of the value that is parsed
          calls,     \* the containers that are open: what their calls hold
          read,      \* how many tokens were consumed
          err,       \* what bc_parse returned, or "parsing", or "loops"
          walk,      \* the furthest element that the check of keys looks at
          owner      \* the container that each value was found in
bcVars == <<kinds, lengths, spans, parent, calls, read, err, walk, owner>>

Number(digits) == [token |-> "int", text |-> digits]   \* between i and e
Str(content)   == [token |-> "str", text |-> <<content>>]  \* 4:spam
ShortStr       == [token |-> "short string", text |-> <<>>]  \* 5:a
Mark(c)        == [token |-> c, text |-> <<>>]
Containers     == {"list", "dict"}

\* The digits, with a minus perhaps. A leading zero after a minus is accepted.
ValidNumber(s) ==
    /\ s # <<>> /\ s # <<"-">> /\ s # <<"-", "0">>
    /\ s[1] \in {"-"} \cup {"0", "3", "7"}
    /\ \A i \in 2 .. Len(s) : s[i] \in {"0", "3", "7"}
    /\ ~(Len(s) > 1 /\ s[1] = "0")

BencodeReset ==   \* a zeroed bc_parser_t, so that parent is the first value
    /\ kinds = <<>> /\ lengths = <<>> /\ spans = <<>> /\ parent = 1
    /\ calls = <<>> /\ read = 0 /\ err = "parsing" /\ walk = 0 /\ owner = <<>>

\* The parent has one child more. For the first value that is an element which
\* does not exist yet, and is written again at once.
Counted == [i \in DOMAIN lengths |-> IF i = parent THEN lengths[i] + 1 ELSE lengths[i]]

Add(kind, len, span) ==
    /\ kinds' = Append(kinds, kind)
    /\ lengths' = Append(Counted, len)
    /\ spans' = Append(spans, span)
    /\ owner' = Append(owner, IF calls = <<>> THEN 0 ELSE Last(calls).me)
    /\ read' = read + 1

\* The value at the root ends the parse, whatever comes after it.
Returns(stack) == IF stack = <<>> THEN "none" ELSE "parsing"

Scalar(t) ==
    /\ \/ t.token = "int" /\ ValidNumber(t.text) /\ Add("int", Len(t.text), t)
       \/ t.token = "str" /\ Add("str", 1, t)
    /\ err' = Returns(calls)
    /\ UNCHANGED <<parent, calls, walk>>

Open(t) ==
    /\ t.token \in {"l", "d"}
    /\ Add(IF t.token = "l" THEN "list" ELSE "dict", 0, [from |-> read + 1, to |-> 0])
    /\ calls' = Append(calls, [me |-> Len(kinds) + 1, parent |-> parent])
    /\ parent' = Len(kinds) + 1
    /\ UNCHANGED <<err, walk>>

\* The keys that the check of a dictionary looks at. It starts at the first
\* child and goes on only by the lengths of nested containers, one step for
\* each pair: mostly it looks at the same key again and again.
KeysChecked(me) ==
    LET at[n \in 0 .. lengths[me]] ==
          IF n = 0 THEN me + 1
          ELSE LET j == at[n - 1]
               IN  IF j + 1 <= Len(kinds) /\ kinds[j + 1] \in Containers THEN j + lengths[j + 1] ELSE j
    IN  {at[n] : n \in 0 .. (lengths[me] + 1) \div 2 - 1}

IsEven(count)        == count % 2 = 0

ValidDict(me) == IsEven(lengths[me]) /\ \A j \in KeysChecked(me) : j <= Len(kinds) /\ kinds[j] = "str"

\* Mutant of RestoredParent: the parent stays the container that was closed.
RestoredParent_not == parent
RestoredParent     == Last(calls).parent

Close(t) ==
    /\ t.token = "e" /\ calls # <<>>
    /\ LET me == Last(calls).me IN
       IF kinds[me] = "list" \/ ValidDict(me)
       THEN /\ parent' = RestoredParent
            /\ spans' = [spans EXCEPT ![me].to = read + 1]
            /\ err' = Returns(Front(calls))
       ELSE err' = "invalid dict" /\ UNCHANGED <<parent, spans>>
    /\ LET me   == Last(calls).me
           keys == IF kinds[me] = "dict" /\ IsEven(lengths[me]) THEN KeysChecked(me) ELSE {}
       IN  walk' = Max({j + 1 : j \in keys} \cup {walk})
    /\ calls' = Front(calls)
    /\ read' = read + 1
    /\ UNCHANGED <<kinds, lengths, owner>>

\* A NUL is not consumed: no error for a file that starts with it, and in a
\* container the loop meets it for ever.
Stop(t) ==
    /\ err' = CASE t.token = "int" -> "invalid number"
                [] t.token = "short string" -> "invalid string"
                [] t.token = "NUL" -> IF calls = <<>> THEN "none" ELSE "loops"
                [] t.token = "end" -> IF calls = <<>> THEN "none" ELSE "unexpected character"
                [] OTHER -> "unexpected character"
    /\ t.token \in {"short string", "NUL", "end", "other"} \/ (t.token = "int" /\ ~ValidNumber(t.text))
       \/ (t.token = "e" /\ calls = <<>>)
    /\ UNCHANGED <<kinds, lengths, spans, parent, calls, read, walk, owner>>

bc_parse(t) == err = "parsing" /\ (Scalar(t) \/ Open(t) \/ Close(t) \/ Stop(t))

\* bc_dump_value: the element after n values that start at j.
DumpEnd ==
    LET end[j \in 1 .. Len(kinds) + 1] == [n \in 0 .. Len(kinds) |->
          IF n = 0 \/ j > Len(kinds) THEN j
          ELSE IF kinds[j] \in Containers THEN end[end[j + 1][lengths[j]]][n - 1]
          ELSE end[j + 1][n - 1]]
    IN  end
After(j) == DumpEnd[j][1]   \* the element after the value at j
-----------------------------------------------------------------------------
\* Children are counted where they belong: while a container is open, and once
\* it is closed, at every depth, its length is the number of values that were
\* found directly in it.
LengthsCountChildren ==
    \A i \in DOMAIN kinds : kinds[i] \in Containers =>
        lengths[i] = Cardinality({j \in DOMAIN owner : owner[j] = i})

\* A file that is accepted can be dumped: bc_dump_value finds every value once,
\* and pairs in every dictionary, the first of which has a string as its key;
\* and what is hashed as a dictionary is all of its tokens. (An empty file is
\* accepted too, and bencode_dump stops at an assertion.)
DumpIsComplete ==
    err = "none" /\ kinds # <<>> =>
        /\ After(1) = Len(kinds) + 1
        /\ \A i \in DOMAIN kinds : kinds[i] \in Containers =>
             LET inside == {j \in DOMAIN kinds : i < j /\ j < After(i)}
                 nested == Cardinality({j \in inside : kinds[j] \in Containers})
             IN  spans[i].to - spans[i].from + 1 = 2 + Cardinality(inside) + nested
        /\ \A i \in DOMAIN kinds : kinds[i] = "dict" =>
             lengths[i] % 2 = 0 /\ (lengths[i] > 0 => kinds[i + 1] = "str")

\* The check of keys, which reads a key and the element after it, reads none
\* that is not there.
KeyCheckInBounds == walk <= Len(kinds)

\* The tokens of a file are a tree, as the readers after the parser take it.
TokensFormATree == LengthsCountChildren /\ DumpIsComplete /\ KeyCheckInBounds
=============================================================================
