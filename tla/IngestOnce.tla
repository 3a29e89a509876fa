----------------------------- MODULE IngestOnce -----------------------------
(***************************************************************************)
(* What the ingest promises those who submit and those who analyse: each   *)
(* source has one report, which is handed on once or left behind, and one  *)
(* receipt, which every answer agrees with.  Requests, their look-ups and  *)
(* what they know of each other do not appear: each takes effect at one    *)
(* point.                                                                  *)
(***************************************************************************)
EXTENDS Naturals

CONSTANTS Sources, Payloads, BadImages, None

VARIABLES
  report,     \* payload of the report of a source, or None
  receipt,    \* payload that a source is accepted with, or None
  queued,     \* how often the report was handed on
  abandoned,  \* sources whose report never will be
  answered    \* answers given

vars == <<report, receipt, queued, abandoned, answered>>

Init ==
  /\ report = [s \in Sources |-> None]
  /\ receipt = [s \in Sources |-> None]
  /\ queued = [s \in Sources |-> 0]
  /\ abandoned = {}
  /\ answered = {}

Pending(s) == report[s] # None /\ queued[s] = 0 /\ s \notin abandoned

Commit(s, p) ==
  /\ report[s] = None
  /\ report' = [report EXCEPT ![s] = p]
  /\ abandoned' \in {abandoned, abandoned \cup {s}}
  /\ UNCHANGED <<receipt, queued>>

HandOn(s) ==
  /\ Pending(s)
  /\ queued' = [queued EXCEPT ![s] = 1]
  /\ UNCHANGED <<report, receipt, abandoned>>

Abandon(S) ==
  /\ \A s \in S : Pending(s)
  /\ abandoned' = abandoned \cup S
  /\ UNCHANGED <<report, receipt, queued>>

\* A submission is accepted for good, and not before it is stored.
Accept(s, p) ==
  /\ receipt[s] = None
  /\ report[s] # None \/ p \in BadImages
  /\ receipt' = [receipt EXCEPT ![s] = p]
  /\ UNCHANGED <<report, queued, abandoned>>

Stay == UNCHANGED <<report, receipt, queued, abandoned>>

\* An answer agrees with the receipt that is there once it is given.
Respond(s, p) ==
  \E code \in {200, 409, 500, 503} :
    /\ code = 200 => receipt'[s] = p
    /\ code = 409 => receipt'[s] \notin {None, p}
    /\ answered' = answered \cup {[src |-> s, pay |-> p, code |-> code]}

Next ==
  /\ \/ \E s \in Sources, p \in Payloads \ BadImages : Commit(s, p)
     \/ \E s \in Sources : HandOn(s)
     \/ \E S \in SUBSET Sources : Abandon(S)
     \/ \E s \in Sources, p \in Payloads : Accept(s, p)
     \/ Stay
  /\ \/ UNCHANGED answered
     \/ \E s \in Sources, p \in Payloads : Respond(s, p)

Spec == Init /\ [][Next]_vars
=============================================================================
