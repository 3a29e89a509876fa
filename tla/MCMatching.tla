----------------------------- MODULE MCMatching -----------------------------
(* Small instances of Matching for TLC. *)
EXTENDS Matching, TLC

\* Requests, users and photos are interchangeable.
Interchangeable ==
  Permutations(Requests) \cup Permutations(Users) \cup Permutations(Photos)
=============================================================================
