----------------------------- MODULE MCSkipList -----------------------------
(***************************************************************************)
(* TLC's instance of SkipList.                                             *)
(***************************************************************************)
EXTENDS SkipList, TLC

Symmetry == Permutations(Node)

=============================================================================
