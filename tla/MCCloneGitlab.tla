---------------------------- MODULE MCCloneGitlab ----------------------------
(***************************************************************************)
(* Instances of CloneGitlab for TLC: how many projects each page lists.    *)
(***************************************************************************)
EXTENDS CloneGitlab

OnePage  == <<2>>
TwoPages == <<2, 1>>
ShortPages == <<1, 1>>
=============================================================================
