------------------------------ MODULE MCDownload ------------------------------
(***************************************************************************)
(* Instances of Download for TLC.  A block is two bytes, a piece two       *)
(* blocks; what the remotes can serve is chosen below.                     *)
(***************************************************************************)
EXTENDS Download

CONSTANTS p1, p2

\* Both remotes have the first piece, only p1 has the others.
OverlappingPieces == [p \in Peers |-> IF p = p1 THEN AllPieces ELSE {0}]
=============================================================================
