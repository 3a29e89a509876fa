----------------------------- MODULE MCCaseBook -----------------------------
(* Small instances of CaseBook for TLC. *)
EXTENDS CaseBook, TLC

Symmetry == Permutations(Cases) \cup Permutations(Workers)
=============================================================================
