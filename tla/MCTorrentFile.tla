------------------------------ MODULE MCTorrentFile ------------------------------
(***************************************************************************)
(* An instance of TorrentFile: torrents with their keys in every order,    *)
(* and with something missing, wrong or nested; the responses of a         *)
(* tracker; and the tokens of the files that are dumped.                   *)
(***************************************************************************)
EXTENDS TorrentFile

MCStringLength(s) ==
    CASE s = "hashes" -> 40 [] s = "no hashes" -> 41 [] s = "two" -> 12 [] s = "five" -> 30
      [] s = "seven bytes" -> 7 [] s = "one6" -> 18 [] OTHER -> 4
MCNumberOf(digits) == CASE digits = <<"7">> -> 7 [] digits = <<"7", "7">> -> 77
                        [] digits = <<"0">> -> 0 [] OTHER -> -7
MCHttpUrls == {"http"}

-----------------------------------------------------------------------------
(* The files. *)
Pair(key, value) == <<Str(key), value>>
Enclose(c, values) == <<Mark(c)>> \o FlattenSeq(values) \o <<Mark("e")>>
Seven == Number(<<"7">>)

InfoPairs == <<Pair("length", Seven), Pair("name", Str("file")),
               Pair("piece length", Seven), Pair("pieces", Str("hashes"))>>
Nested == <<Str("x")>> \o Enclose("l", <<Pair("length", Seven)>>)

\* In every order; with something more, one missing, or one that is wrong.
Orders == {[k \in 1 .. 4 |-> InfoPairs[p[k]]] : p \in {q \in [1 .. 4 -> 1 .. 4] : IsInjective(q)}}
Infos ==
    Orders
    \cup {InsertAt(InfoPairs, k, Nested) : k \in 1 .. 5}
    \cup {RemoveAt(InfoPairs, k) : k \in 1 .. 4}
    \cup {ReplaceAt(InfoPairs, 1, Pair("length", Number(<<"0">>))),
          ReplaceAt(InfoPairs, 1, Pair("length", Number(<<"-", "7">>))),
          ReplaceAt(InfoPairs, 2, Pair("name", Str("name"))),
          ReplaceAt(InfoPairs, 3, Pair("piece length", Number(<<"7", "7">>))),
          ReplaceAt(InfoPairs, 3, Pair("piece length", Str("x"))),
          ReplaceAt(InfoPairs, 4, Pair("pieces", Str("no hashes")))}

Extras == {Pair("x", Seven),
           <<Str("x")>> \o Enclose("d", <<Pair("length", Seven), Pair("name", Str("x"))>>),
           <<Str("x")>> \o Enclose("l", <<Pair("name", Str("x")), <<Seven>>>>)}
Roots(info) ==
    LET pairs(x) == <<Pair("announce", Str("http")), <<Str("info")>> \o Enclose("d", info), x>>
    IN  {Enclose("d", [k \in 1 .. 3 |-> pairs(x)[p[k]]]) :
            x \in Extras, p \in {q \in [1 .. 3 -> 1 .. 3] : IsInjective(q)}}
Reference == Enclose("d", <<Pair("announce", Str("http")), <<Str("info")>> \o Enclose("d", InfoPairs)>>)
TorrentFiles ==
    UNION {Roots(info) : info \in Infos}
    \cup {Enclose("d", <<Pair("announce", Str("https"))>> \o <<<<Str("info")>> \o Enclose("d", InfoPairs)>>),
          Enclose("d", <<<<Str("info")>> \o Enclose("d", InfoPairs)>>),
          Enclose("l", <<<<Seven>>>>), <<>>}

\* The responses of the tracker, in which no key is repeated in the dictionary.
Answers == {Pair("peers", Str("two")), Pair("peers", Str("five")), Pair("peers", Str("seven bytes")),
            Pair("peers6", Str("one6")), Pair("failure reason", Str("x")), Pair("interval", Seven),
            <<Str("x")>> \o Enclose("l", <<<<Seven>>, Pair("peers", Str("two"))>>),
            <<Str("x"), Mark("l"), Mark("NUL")>>}
Responses == {Enclose("d", <<a>>) : a \in Answers} \cup {Enclose("d", p) : p \in {q \in Answers \X Answers : q[1][1] # q[2][1]}}
                \cup {Enclose("l", <<>>)}
ShortResponse == Enclose("d", <<Pair("peers", Str("two"))>>)

\* What torrent may find: a file, and what the tracker answers.
MCStarts == {[file |-> f, answer |-> ShortResponse] : f \in TorrentFiles}
            \cup {[file |-> Reference, answer |-> r] : r \in Responses}

MCAnyToken == {Number(s) : s \in {<<"7">>, <<"0", "3">>, <<"-">>, <<"-", "0">>, <<>>, <<"x">>, <<"7", "x">>}}
              \cup {Str("info"), Str("length"), ShortStr}
              \cup {Mark(c) : c \in {"l", "d", "e", "NUL", "other"}}
=============================================================================
