------------------------------ MODULE MCEmail ------------------------------
(* Small instances of Email for TLC. *)
EXTENDS Email

CONSTANTS b1, b2, p1, p2, e1, e2, a1, a2

FoundContacts == [r \in Reports |-> IF r \in {b1, p1} THEN {e1, e2} ELSE {e1}]
AreasOfOne == [r \in Reports |-> IF r = p1 THEN Areas ELSE {}]
OverlappingAreas == [a \in Areas |-> IF a = a1 THEN {e2} ELSE {e1, e2}]

\* The two loops share no row but the opt-outs: each is given two reports of its own,
\* while those of the other are done with.
OneLoop == Init /\ processed \in {Branded, Brandless}
OneLoopAtATime == OneLoop /\ [][Next]_vars /\ Fairness
=============================================================================
