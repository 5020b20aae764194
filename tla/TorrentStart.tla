------------------------------- MODULE TorrentStart -------------------------------
(***************************************************************************)
(* How a download starts: main of src/torrent/main.c, with the reader of   *)
(* the metainfo of src/torrent/bencode.h and the tracker client of         *)
(* src/torrent/tracker.h, up to the event loop (see Download); and         *)
(* bencode_dump.c, which reads any file the same way. The fields of a      *)
(* bc_metainfo_t are positions of values in the arrays of the parser, or 0 *)
(* when they were not found.                                               *)
(***************************************************************************)
EXTENDS Bencode

CONSTANTS
    StringLength(_),       \* of the content of a string
    NumberOf(_),           \* that some digits stand for
    HttpUrls,              \* those that pg_span_starts_with takes for http://
    MaxU32,                \* UINT32_MAX
    MaxResponse,           \* bytes of a response, UINT16_MAX; here in tokens
    TRACKER_MAX_PEERS

VARIABLES
    tool,      \* torrent or bencode_dump
    input,     \* what is read: the tokens of the file, then of the response
    response,  \* what the tracker will answer
    got,       \* how much of it has arrived
    stage,     \* what main does next
    i, in_info, info_end, metainfo,   \* of bc_parser_init_metainfo
    ipv4, ipv6,                       \* the addresses of peers
    file,      \* none, opened, or sized: as long as the torrent says
    connected  \* the peers that were given a connection
startVars == <<tool, input, response, got, stage, i, in_info, info_end, metainfo, ipv4, ipv6, file, connected>>
readerVars  == <<i, in_info, info_end, metainfo>>
trackerVars == <<response, got, ipv4, ipv6>>
mainVars    == <<file, connected>>

Fields == {"announce", "length", "name", "pieces", "piece length", "info"}
NoMetainfo == [f \in Fields |-> 0]

StartInit ==
    /\ BencodeReset
    /\ stage = "parse" /\ got = 0
    /\ i = 2 /\ in_info = FALSE /\ info_end = 0 /\ metainfo = NoMetainfo
    /\ ipv4 = <<>> /\ ipv6 = <<>>
    /\ file = "none" /\ connected = <<>>

IsDictionary == kinds # <<>> /\ kinds[1] = "dict"
Goes(next) == stage' = next

-----------------------------------------------------------------------------
\* pg_read_file comes first: a file that cannot be read is fatal, one that
\* cannot be opened is taken for an empty one.
ReadFails ==
    /\ stage = "parse" /\ read = 0 /\ err = "parsing"
    /\ Goes("fatal")
    /\ UNCHANGED <<bcVars, tool, input, readerVars, trackerVars, mainVars>>

\* bc_parse, and the exit on an error. bencode_dump then dumps, and an empty
\* file fails its assertion.
Parse(t) ==
    /\ stage \in {"parse", "parse response"}
    /\ bc_parse(t)
    /\ stage' = IF err' \in {"parsing", "loops"} THEN stage
                ELSE IF err' # "none" THEN "fatal"
                ELSE IF stage = "parse response" THEN "addresses"
                ELSE IF tool = "bencode_dump" /\ kinds' = <<>> THEN "fatal" ELSE "metainfo"
    /\ UNCHANGED <<tool, input, readerVars, trackerVars, mainVars>>

-----------------------------------------------------------------------------
(* bc_parser_init_metainfo: every value is tried as a key, whatever it is. *)

\* Mutant of InInfo: the end of the dictionary is forgotten.
InInfo_always == in_info
InInfo        == in_info /\ i <= info_end
IsKey(name)   == kinds[i] = "str" /\ spans[i].text = <<name>>
ValueIs(kind) == kinds[i + 1] = kind
ValueNumber   == NumberOf(spans[i + 1].text)
ValueLength   == StringLength(spans[i + 1].text[1])

Keeps(name)  == metainfo' = [metainfo EXCEPT ![name] = i + 1] /\ UNCHANGED <<info_end, stage>>
Rejects      == Goes("rejected") /\ UNCHANGED <<metainfo, info_end>>

ReadField(name, kind, valid) ==
    /\ IsKey(name) /\ ValueIs(kind) /\ (name = "announce" \/ InInfo)
    /\ in_info' = InInfo
    /\ IF valid THEN Keeps(name) ELSE Rejects

InfoEnd       == i + lengths[i + 1]

ReadInfo ==
    /\ IsKey("info") /\ ValueIs("dict")
    /\ in_info' = TRUE /\ info_end' = InfoEnd
    /\ metainfo' = [metainfo EXCEPT !["info"] = i + 1]
    /\ UNCHANGED stage

Matches ==
    \/ IsKey("info") /\ ValueIs("dict")
    \/ IsKey("announce") /\ ValueIs("str")
    \/ InInfo /\ (IsKey("length") \/ IsKey("piece length")) /\ ValueIs("int")
    \/ InInfo /\ (IsKey("name") \/ IsKey("pieces")) /\ ValueIs("str")

ReadNothing == ~Matches /\ in_info' = InInfo /\ UNCHANGED <<metainfo, info_end, stage>>

\* Mutant of NextKey: what is not known is not skipped.
NextKey_stuck == IF Matches THEN i + 1 ELSE i
NextKey       == i + 1

bc_parser_init_metainfo_step ==
    /\ stage = "metainfo" /\ IsDictionary /\ i < Len(kinds)
    /\ i' = NextKey
    /\ \/ ReadInfo
       \/ ReadField("announce", "str", TRUE)
       \/ kinds[i + 1] = "int" /\ ReadField("piece length", "int", ValueNumber \in 1 .. MaxU32)
       \/ kinds[i + 1] = "int" /\ ReadField("length", "int", ValueNumber > 0)
       \/ ReadField("name", "str", TRUE)
       \/ kinds[i + 1] = "str" /\ ReadField("pieces", "str", ValueLength % 20 = 0)
       \/ ReadNothing
    /\ UNCHANGED <<bcVars, tool, input, trackerVars, mainVars>>

\* Everything was looked at. A missing info dictionary shows as missing fields.
\* torrent then checks the announce url, bencode_dump is done.
bc_parser_init_metainfo_end ==
    /\ stage = "metainfo"
    /\ ~IsDictionary \/ i >= Len(kinds)
    /\ stage' = IF \E f \in Fields \ {"info"} : metainfo[f] = 0 THEN "rejected"
                ELSE IF tool = "bencode_dump" THEN "done"
                ELSE IF spans[metainfo["announce"]].text[1] \in HttpUrls THEN "fetch" ELSE "fatal"
    /\ UNCHANGED <<bcVars, tool, input, readerVars, trackerVars, mainVars>>

-----------------------------------------------------------------------------
(* tracker_fetch_peers. *)

\* tracker_on_response_chunk tells curl the length of the whole response, and
\* curl fails unless it is that of the chunk: after the second chunk, always.
tracker_on_response_chunk(n) ==
    /\ stage = "fetch" /\ n > 0 /\ got + n <= Len(response)
    /\ got' = IF got + n > MaxResponse THEN got ELSE got + n
    /\ stage' = IF got + n > MaxResponse \/ got + n # n THEN "fatal" ELSE "fetch"
    /\ UNCHANGED <<bcVars, tool, input, readerVars, response, ipv4, ipv6, mainVars>>

CurlFails ==   \* the timeout is ten seconds
    /\ stage = "fetch" /\ Goes("fatal")
    /\ UNCHANGED <<bcVars, tool, input, readerVars, trackerVars, mainVars>>

\* Mutant of Responded: what has arrived will do.
Responded_partly == got > 0
Responded        == got = Len(response)

\* A parser of its own. The spans of the metainfo are still those of the first.
CurlSucceeds ==
    /\ stage = "fetch" /\ Responded
    /\ input' = SubSeq(response, 1, got)
    /\ kinds' = <<>> /\ lengths' = <<>> /\ spans' = <<>> /\ parent' = 1
    /\ calls' = <<>> /\ read' = 0 /\ err' = "parsing" /\ walk' = 0 /\ owner' = <<>>
    /\ Goes("parse response")
    /\ UNCHANGED <<tool, readerVars, trackerVars, mainVars>>

\* Each by its first byte in the string, up to the limit. The step is 6 for
\* IPv6 too, and not 18: most of those overlap, and the last two end beyond
\* the string.
Addresses(len, room) == [k \in 1 .. Min({len \div 6, room}) |-> 6 * (k - 1)]

\* The n-th pair, at the place it has when nothing is nested before it.
PairIs(n, key) == kinds[2 * n] = "str" /\ spans[2 * n].text = <<key>> /\ kinds[2 * n + 1] = "str"

TakePair(acc, n) ==
    LET len     == StringLength(spans[2 * n + 1].text[1])
        With(v) == v \o Addresses(len, TRACKER_MAX_PEERS - Len(v))
        Onward(v) == IF Len(v) >= TRACKER_MAX_PEERS THEN "full" ELSE "more"
        v4      == With(acc.v4)
        v6      == With(acc.v6)
    IN  IF acc.next # "more" THEN acc
        ELSE IF PairIs(n, "peers")
             THEN IF len % 6 = 0 THEN [v4 |-> v4, v6 |-> acc.v6, next |-> Onward(v4)]
                                 ELSE [acc EXCEPT !.next = "invalid"]
        ELSE IF PairIs(n, "peers6")
             THEN IF len % 18 = 0 THEN [v4 |-> acc.v4, v6 |-> v6, next |-> Onward(v6)]
                                  ELSE [acc EXCEPT !.next = "invalid"]
        ELSE acc

TakenPairs ==
    LET after[n \in 0 .. lengths[1] \div 2] ==
          IF n = 0 THEN [v4 |-> <<>>, v6 |-> <<>>, next |-> "more"] ELSE TakePair(after[n - 1], n)
    IN  after[lengths[1] \div 2]

NoPeers(found) == found.v4 = <<>> /\ found.v6 = <<>>

tracker_parse_peer_addresses ==
    /\ stage = "addresses"
    /\ IF ~IsDictionary
       THEN Goes("fatal") /\ UNCHANGED <<ipv4, ipv6>>
       ELSE LET found == TakenPairs
            IN  /\ ipv4' = found.v4 /\ ipv6' = found.v6
                /\ Goes(IF found.next = "invalid" \/ NoPeers(found) THEN "fatal" ELSE "open")
    /\ UNCHANGED <<bcVars, tool, input, readerVars, response, got, mainVars>>

-----------------------------------------------------------------------------
(* The file, and the peers. *)

open ==
    /\ stage = "open" /\ stage' \in {"ftruncate", "fatal"}
    /\ file' = IF stage' = "fatal" THEN "none" ELSE "opened"
    /\ UNCHANGED <<bcVars, tool, input, readerVars, trackerVars, connected>>

ftruncate ==
    /\ stage = "ftruncate" /\ stage' \in {"peers", "fatal"}
    /\ file' = IF stage' = "fatal" THEN "opened" ELSE "sized"
    /\ UNCHANGED <<bcVars, tool, input, readerVars, trackerVars, connected>>

Connects         == ipv4

\* picker_checksum_all, whose failure is only logged, and the pool of peers:
\* one for each IPv4 address. Nobody connects to the others.
peer_connect ==
    /\ stage = "peers" /\ connected' = Connects /\ Goes("run")
    /\ UNCHANGED <<bcVars, tool, input, readerVars, trackerVars, file>>

Main == \/ ReadFails \/ bc_parser_init_metainfo_step \/ bc_parser_init_metainfo_end
        \/ CurlSucceeds \/ tracker_parse_peer_addresses \/ open \/ ftruncate \/ peer_connect
Curl == (\E n \in 1 .. Len(response) : tracker_on_response_chunk(n)) \/ CurlFails
-----------------------------------------------------------------------------
\* Where a value is the key of a pair of the container d, and where it is one
\* of the names that are looked for.
IsDirectKey(p, d) == owner[p] = d /\ Cardinality({q \in 1 .. p - 1 : owner[q] = d}) % 2 = 0
IsName(p)         == kinds[p] = "str" /\ spans[p].text[1] \in Fields
InfoDicts         == {d \in 2 .. Len(kinds) : /\ kinds[d] = "dict" /\ kinds[d - 1] = "str"
                                              /\ spans[d - 1].text = <<"info">>}

\* What is taken for a field of the info dictionary is in it: nothing that comes
\* before it, or after it, on any level, is mistaken for one.
FieldsComeFromInfo ==
    stage \in {"metainfo", "fetch", "done", "rejected"} =>
        \A f \in Fields \ {"announce", "info"} :
            metainfo[f] # 0 => \E d \in InfoDicts : d < metainfo[f] /\ metainfo[f] < After(d)

\* Torrents without surprises: names are keys, and only once, and nothing is
\* nested in the info dictionary, which is one. (A name that is a value takes
\* the key after it for its value, something nested hides the last keys, and
\* announce is taken from wherever it is.)
Plain ==
    /\ IsDictionary /\ Cardinality(InfoDicts) = 1
    /\ \A d \in InfoDicts : /\ IsDirectKey(d - 1, 1)
                            /\ \A p \in DOMAIN owner : owner[p] = d => kinds[p] \notin Containers
    /\ \A p \in DOMAIN kinds : IsName(p) => IsDirectKey(p, owner[p])
    /\ \A p \in DOMAIN kinds : IsName(p) /\ spans[p].text = <<"announce">> => owner[p] = 1
    /\ \A p, q \in DOMAIN kinds : IsName(p) /\ IsName(q) /\ spans[p].text = spans[q].text => p = q
Home(f)     == IF f \in {"announce", "info"} THEN {1} ELSE InfoDicts
Values(f)   == {p + 1 : p \in {q \in DOMAIN kinds : IsName(q) /\ owner[q] \in Home(f) /\ spans[q].text = <<f>>}}
GoodValue(f, p) == CASE f = "piece length" -> kinds[p] = "int" /\ NumberOf(spans[p].text) \in 1 .. MaxU32
                     [] f = "length" -> kinds[p] = "int" /\ NumberOf(spans[p].text) > 0
                     [] f = "pieces" -> kinds[p] = "str" /\ StringLength(spans[p].text[1]) % 20 = 0
                     [] f = "info" -> kinds[p] = "dict"
                     [] OTHER -> kinds[p] = "str"

\* Such a torrent is read as it is written, whatever the order of its keys and
\* whatever else is in it, and rejected only when a field is missing or wrong.
ReadsTheInfoDictionary ==
    stage \in {"fetch", "done", "rejected"} /\ kinds # <<>> /\ Plain =>
        IF stage = "rejected" THEN \E f \in Fields : ~\E p \in Values(f) : GoodValue(f, p)
                              ELSE \A f \in Fields : Values(f) = {metainfo[f]}

\* For any order of the keys and anything else between them.
MetainfoIsRead == FieldsComeFromInfo /\ ReadsTheInfoDictionary

\* Only a response that is whole is parsed.
ResponseIsWhole == stage \in {"parse response", "addresses", "open"} => input = response

\* The file on the disk is touched when the tracker has named a peer, and not
\* before. (It may have named IPv6 peers only: then the loop ends at once.)
NoFileWithoutPeers == file # "none" => ipv4 # <<>> \/ ipv6 # <<>>

\* Each connection is to another of the first addresses of the response, and
\* lies within the string of addresses. (Two strings of addresses could be used,
\* the one behind a peers that is nested too.)
PeersOnce == \A t, u \in DOMAIN response : response[t] = Str("peers") /\ response[u] = Str("peers") => t = u
ConnectsToListedPeers ==
    stage = "run" =>
        /\ Len(connected) <= TRACKER_MAX_PEERS
        /\ PeersOnce => IsInjective(connected)
        /\ \A k \in DOMAIN connected : \E t \in DOMAIN response :
               /\ response[t].token = "str"
               /\ connected[k] % 6 = 0 /\ connected[k] + 6 <= StringLength(response[t].text[1])

\* However the response is cut, and whatever it lists.
PeersAreThoseListed == ResponseIsWhole /\ NoFileWithoutPeers /\ ConnectsToListedPeers

\* Reading and starting come to an end, unless a container holds a NUL.
StartEnds == <>(stage \in {"run", "done", "fatal", "rejected"} \/ err = "loops")
=============================================================================
