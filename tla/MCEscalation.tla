---------------------------- MODULE MCEscalation ----------------------------
(* Small instances of Escalation for TLC. *)
EXTENDS Escalation

CONSTANTS t1, t2, m

MCTargets == <<t1, t2>>
MCCopied == <<m>>
Symmetry == Permutations(Workers)
=============================================================================
