---------------------------------- MODULE Spans ----------------------------------
(***************************************************************************)
(* The spans and string helpers of src/pg/pg.h: searching, splitting,      *)
(* trimming and parsing. A span is a sequence of characters, and `after`   *)
(* are the characters that follow it in memory, which pg_memmem may read.  *)
(* TLC checks the functions for every text that it types, one character    *)
(* at a time.                                                              *)
(***************************************************************************)
EXTENDS Integers, SequencesExt

CONSTANTS Alphabet,    \* the characters of the text
          Needles,     \* what is searched for
          MaxText,     \* bound on the length of the text
          U64          \* 2^64, the range of the numbers

VARIABLE text

NUL == "NUL"   \* the terminator: pg_span_make_c and pg_string_make leave one
Tail0(s, n)  == SubSeq(s, n + 1, Len(s))   \* s + n
FirstOf(S)   == CHOOSE i \in S : \A j \in S : i <= j
LastOf(S)    == CHOOSE i \in S : \A j \in S : j <= i

-----------------------------------------------------------------------------
(* Searching. *)

\* Mutant of pg_memmem: it does not compare the last character.
pg_memmem_prefix(memory, len, needle) ==
    \E s \in 1 .. len : /\ memory[s] = needle[1]
                        /\ \A i \in 1 .. Len(needle) - 1 : s + i - 1 <= Len(memory) /\ memory[s + i - 1] = needle[i]

\* Of the len first characters of memory, only the first that starts like
\* needle is tried; what it is compared with may lie beyond them. The check of
\* the length adds what was skipped instead of subtracting it.
pg_memmem(memory, len, needle) ==
    LET starts == {i \in 1 .. len : memory[i] = needle[1]}
        s      == FirstOf(starts)
    IN  /\ starts # {}
        /\ len + (s - 1) >= Len(needle)
        /\ \A i \in 1 .. Len(needle) : /\ s + i - 1 <= Len(memory)
                                       /\ memory[s + i - 1] = needle[i]

pg_span_contains(h, needle, after) ==
    Len(needle) <= Len(h) /\ pg_memmem(h \o after, Len(h), needle)

\* The haystack is given to pg_memmem as long as the needle.
pg_span_starts_with(h, needle, after) ==
    Len(needle) <= Len(h) /\ pg_memmem(h \o after, Len(needle), needle)

pg_span_ends_with(h, needle, after) ==
    Len(needle) <= Len(h) /\ pg_memmem(Tail0(h, Len(h) - Len(needle)) \o after, Len(needle), needle)

-----------------------------------------------------------------------------
(* Splitting and trimming. *)

\* The needle stays at the start of the right part. Without it everything is
\* left, and the right part is empty.
pg_span_split_at_first(s, c) ==
    LET is == {i \in 1 .. Len(s) : s[i] = c}
    IN  IF is = {} THEN <<s, <<>>>>
        ELSE <<SubSeq(s, 1, FirstOf(is) - 1), Tail0(s, FirstOf(is) - 1)>>

pg_span_split_at_last(s, c) ==
    LET is == {i \in 1 .. Len(s) : s[i] = c}
    IN  IF is = {} THEN <<s, <<>>>>
        ELSE <<SubSeq(s, 1, LastOf(is) - 1), Tail0(s, LastOf(is) - 1)>>

pg_span_skip_left_until_inclusive(s, c) ==
    IF c \in Range(s) THEN Tail0(pg_span_split_at_first(s, c)[2], 1) ELSE s

pg_char_is_space(c) == c \in {" ", "\t", "\n", "\r", "\f", "vertical tab"}

pg_span_trim(s) ==
    LET kept == {i \in 1 .. Len(s) : ~pg_char_is_space(s[i])}
    IN  IF kept = {} THEN <<>> ELSE SubSeq(s, FirstOf(kept), LastOf(kept))

\* pg_string_trim, on the string itself. A terminator is a part of every set
\* of characters for pg_char_first_occurence.
pg_string_trim(s, cut_set) ==
    LET kept == {i \in 1 .. Len(s) : s[i] \notin cut_set \cup {NUL}}
    IN  IF kept = {} THEN <<>> ELSE SubSeq(s, FirstOf(kept), LastOf(kept))

\* pg_path_base_name, with pg_char_last_occurence.
pg_path_base_name(path) ==
    IF "/" \in Range(path) THEN Tail0(pg_span_split_at_last(path, "/")[2], 1) ELSE path

-----------------------------------------------------------------------------
(* Parsing. *)

DigitValue == [c \in {"0", "1", "9", "a", "f"} |->
                 CASE c = "0" -> 0 [] c = "1" -> 1 [] c = "9" -> 9 [] c = "a" -> 10 [] c = "f" -> 15]
Digits(base) == {c \in DOMAIN DigitValue : DigitValue[c] < base}

Invalid == [valid |-> FALSE, value |-> 0]

\* The accumulator is a 64-bit number that wraps around.
Unsigned(s, base) ==
    LET value[n \in 0 .. Len(s)] == IF n = 0 THEN 0 ELSE (value[n - 1] * base + DigitValue[s[n]]) % U64
    IN  IF \E i \in 1 .. Len(s) : s[i] \notin Digits(base) THEN Invalid
        ELSE [valid |-> TRUE, value |-> value[Len(s)]]

WithoutPlus(s) == IF s # <<>> /\ s[1] = "+" THEN Tail(s) ELSE s
\* Also when the 0x is not at the very start, as for pg_span_starts_with.
Without0x(s, after) == IF pg_span_starts_with(s, <<"0", "x">>, after) THEN Tail0(s, 2) ELSE s

pg_span_parse_u64_decimal(s) ==
    LET t == pg_span_trim(s)
    IN  IF t # <<>> /\ t[1] = "-" THEN Invalid ELSE Unsigned(WithoutPlus(t), 10)

pg_span_parse_u64_hex(s, after) ==
    LET t == pg_span_trim(s)
    IN  IF t # <<>> /\ t[1] = "-" THEN Invalid ELSE Unsigned(Without0x(WithoutPlus(t), after), 16)

\* The signed parsers. An overflow of a signed number is undefined: they may
\* then return any, and are the sets of what they may return.
I64s           == -(U64 \div 2) .. (U64 \div 2) - 1
AsI64(n)       == IF n < U64 \div 2 THEN n ELSE n - U64   \* (int64_t)n
Sign(s)        == IF s # <<>> /\ s[1] = "-" THEN -1 ELSE 1
WithoutSign(s) == IF s # <<>> /\ s[1] \in {"-", "+"} THEN Tail(s) ELSE s
Results(S)     == [valid : {TRUE}, value : S]

\* In decimal the accumulator is signed itself. It is never negative, until it
\* has overflowed.
Overflowed == -1
NextDigit(n, d) == IF n = Overflowed \/ n * 10 + d >= U64 \div 2 THEN Overflowed ELSE n * 10 + d
Accumulated(s) ==
    LET value[n \in 0 .. Len(s)] == IF n = 0 THEN 0 ELSE NextDigit(value[n - 1], DigitValue[s[n]])
    IN  value[Len(s)]

pg_span_parse_i64_decimal(s) ==
    LET t == pg_span_trim(s)
        d == WithoutSign(t)
        n == Accumulated(d)
    IN  IF \E i \in 1 .. Len(d) : d[i] \notin Digits(10) THEN {Invalid}
        ELSE Results(IF n = Overflowed THEN I64s ELSE {Sign(t) * n})

\* In hexadecimal the unsigned number becomes a signed one, which cannot be
\* negated when it is the smallest.
pg_span_parse_i64_hex(s, after) ==
    LET t == pg_span_trim(s)
        u == Unsigned(Without0x(WithoutSign(t), after), 16)
    IN  IF ~u.valid THEN {Invalid}
        ELSE Results(IF Sign(t) = -1 /\ u.value = U64 \div 2 THEN I64s ELSE {Sign(t) * AsI64(u.value)})

\* Every character becomes three, a byte in hexadecimal.
pg_span_url_encode(s) == FoldLeft(LAMBDA r, c : r \o <<"%", c, c>>, <<>>, s)

-----------------------------------------------------------------------------
SpansInit == text = <<>>
Type(c)   == Len(text) < MaxText /\ text' = Append(text, c)
SpansNext == \E c \in Alphabet : Type(c)
SpansSpec == SpansInit /\ [][SpansNext]_text

IsAt(needle, h, i) == i + Len(needle) - 1 <= Len(h) /\ SubSeq(h, i, i + Len(needle) - 1) = needle

\* What is found is there, as long as a terminator follows the span; a prefix
\* is found, and so is a suffix, and whatever starts at the first candidate.
\* pg_span_starts_with also finds what starts later, within the length of the
\* needle: the check of torrent/main.c for http:// accepts a few characters
\* before it. pg_span_contains misses what starts at a later candidate.
SearchFindsWhatIsThere ==
    \A n \in Needles :
        /\ pg_span_contains(text, n, <<NUL>>) => \E i \in 1 .. Len(text) : IsAt(n, text, i)
        /\ pg_span_starts_with(text, n, <<NUL>>) => \E i \in 1 .. Len(n) : IsAt(n, text, i)
        /\ IsAt(n, text, 1) => pg_span_starts_with(text, n, <<NUL>>) /\ pg_span_contains(text, n, <<NUL>>)
        /\ pg_span_ends_with(text, n, <<NUL>>) <=>
              (Len(n) <= Len(text) /\ IsAt(n, text, Len(text) - Len(n) + 1))

\* Splitting loses nothing and splits where it says; trimming takes spaces from
\* the ends, all of them, and nothing else.
SplitAndTrimKeepTheRest ==
    LET t == pg_span_trim(text) IN
    /\ \A c \in Alphabet :
         LET first == pg_span_split_at_first(text, c)
             last  == pg_span_split_at_last(text, c)
         IN  /\ first[1] \o first[2] = text /\ last[1] \o last[2] = text
             /\ c \notin Range(first[1])
             /\ last[2] # <<>> => last[2][1] = c /\ c \notin Range(Tail(last[2]))
             /\ pg_span_skip_left_until_inclusive(text, c) = IF first[2] = <<>> THEN text ELSE Tail(first[2])
    /\ t # <<>> => ~pg_char_is_space(t[1]) /\ ~pg_char_is_space(t[Len(t)])
    /\ \E l \in 0 .. Len(text) : /\ IsAt(t, text, l + 1)
                                 /\ \A i \in 1 .. Len(text) : i \in l + 1 .. l + Len(t) \/ pg_char_is_space(text[i])
    /\ pg_string_trim(text, {c \in Alphabet : pg_char_is_space(c)}) = t

\* A number that fits is parsed as the number that is written, with any spaces
\* around it and a sign before it, and a text that is none is rejected; nothing
\* at all counts as 0. What does not fit is not rejected: an unsigned number
\* wraps around, a signed one in decimal may be anything, and a signed one in
\* hexadecimal has the bits of the unsigned one.
Number(s, base) ==
    LET value[n \in 0 .. Len(s)] == IF n = 0 THEN 0 ELSE value[n - 1] * base + DigitValue[s[n]]
    IN  value[Len(s)]
ParsesTheNumber ==
    LET s == Sign(pg_span_trim(text))
        t == WithoutPlus(pg_span_trim(text))
        d == WithoutSign(pg_span_trim(text))
        u == pg_span_parse_u64_decimal(text)
        h == pg_span_parse_u64_hex(text, <<NUL>>)
    IN  /\ u.valid <=> \A k \in 1 .. Len(t) : t[k] \in Digits(10)
        /\ u.valid /\ Number(t, 10) < U64 => u.value = Number(t, 10)
        /\ h.valid /\ "x" \notin Range(text) /\ Number(t, 16) < U64 => h.value = Number(t, 16)
        /\ u.valid => h.valid
        /\ \A i \in pg_span_parse_i64_decimal(text) :
             /\ i.valid <=> \A k \in 1 .. Len(d) : d[k] \in Digits(10)
             /\ i.valid /\ Number(d, 10) < U64 \div 2 => i.value = s * Number(d, 10)
        /\ \A i \in pg_span_parse_i64_hex(text, <<NUL>>) :
             /\ i.valid /\ "x" \notin Range(text) /\ Number(d, 16) < U64 \div 2 => i.value = s * Number(d, 16)
             /\ h.valid => i.valid /\ i.value \in {h.value, h.value - U64}

\* What the functions on spans return is what their names say, up to the cases
\* that the parts tell.
SpansAreRight == SearchFindsWhatIsThere /\ SplitAndTrimKeepTheRest /\ ParsesTheNumber
=============================================================================
