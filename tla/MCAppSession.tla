---------------------------- MODULE MCAppSession ----------------------------
(* Tabs that may be pinned, in up to two windows of the unique     *)
(* instance and one of a standalone one.                                      *)
EXTENDS AppSession

CONSTANTS id1, id2

TwoIds == {id1, id2}
(* The tabs that may be pinned are interchangeable.                           *)
IdSymmetry == Permutations(Pinnable)
Windows21 == [i \in Instances |-> IF i = "main" THEN 2 ELSE 1]
=============================================================================
