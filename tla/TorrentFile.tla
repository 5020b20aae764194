------------------------------- MODULE TorrentFile -------------------------------
(***************************************************************************)
(* What happens to a torrent file: torrent reads one and starts a download *)
(* (TorrentStart), bencode_dump dumps any file, and the geometry (Metainfo *)
(* and MCMetainfo) is that of every torrent up to a size, whose blocks are *)
(* walked over in the order the picker hands them out.                     *)
(***************************************************************************)
EXTENDS TorrentStart, MCMetainfo

CONSTANTS
    Starts,      \* what torrent may find: the tokens of a file, and of a response
    AnyToken,    \* what a file that is dumped is made of
    MaxTokens    \* bound on the tokens of such a file

\* A response is a sequence of tokens, and its strings have lengths.
Tokens == [token : STRING, text : Seq(STRING)]
ASSUME StartsAssumption ==
    \A s \in Starts :
        /\ s.answer \in Seq(Tokens)
        /\ \A t \in DOMAIN s.answer : s.answer[t].token = "str" => StringLength(s.answer[t].text[1]) \in Nat
ASSUME TRACKER_MAX_PEERS_Assumption == TRACKER_MAX_PEERS \in Nat

geometryVars == <<m, block>>
vars == <<bcVars, startVars, geometryVars>>
-----------------------------------------------------------------------------
FirstTorrent == CHOOSE t \in Torrents : TRUE

Init ==
    /\ StartInit
    /\ \/ /\ tool = "torrent" /\ m = FirstTorrent /\ block = 0
          /\ \E s \in Starts : input = s.file /\ response = s.answer
       \/ /\ tool = "bencode_dump" /\ m = FirstTorrent /\ block = 0
          /\ input = <<>> /\ response = <<>>
       \/ /\ tool = "geometry" /\ GeometryInit
          /\ input = <<>> /\ response = <<>>

Parsing ==
    IF tool = "bencode_dump" THEN read < MaxTokens /\ \E t \in AnyToken : Parse(t)
                             ELSE read < Len(input) /\ Parse(input[read + 1])
ParsingEnd == read = Len(input) /\ Parse(Mark("end"))
DumpedEnd  == tool = "bencode_dump" /\ Parse(Mark("end"))

Starting == tool # "geometry" /\ (Parsing \/ DumpedEnd \/ (tool = "torrent" /\ ParsingEnd) \/ Main \/ Curl)
                /\ UNCHANGED geometryVars
Walking  == tool = "geometry" /\ NextBlock /\ UNCHANGED <<bcVars, startVars>>
Next     == Starting \/ Walking

\* The programs go on, and curl has a timeout.
Spec == Init /\ [][Next]_vars /\ WF_vars(Starting)

\* TorrentStart!StartEnds, for the programs that start.
StartsEnd == tool # "geometry" => StartEnds
=============================================================================
