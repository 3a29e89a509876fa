------------------------------ MODULE MCRewards ------------------------------
(* Small instances of Rewards for TLC. *)
EXTENDS Rewards, TLC

CONSTANTS u1, u2, u3

\* u1 has joined with the code of u2, and u2 with that of u3.
Chain == (u1 :> u2) @@ (u2 :> u3) @@ (u3 :> None)
=============================================================================
