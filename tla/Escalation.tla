----------------------------- MODULE Escalation -----------------------------
(***************************************************************************)
(* Escalating a case: report-listener creates an action per contact,       *)
(* email-service mails the contacts and the people put in copy and answers *)
(* what became of each, and report-listener records the deliveries, the    *)
(* outcomes and what it learns of each address.  Several escalations and   *)
(* replies are handled at once, the answer can be lost, people opt out     *)
(* and the case can be merged into another one meanwhile.                  *)
(*                                                                         *)
(* One case is modelled; its targets are told apart by their addresses.    *)
(***************************************************************************)
EXTENDS Naturals, FiniteSets, SequencesExt

CONSTANTS
  Targets,     \* addresses of the case's targets, in the order of the list
  Copied,      \* addresses that may be put in copy by hand, sorted
  OptingOut,   \* those who may opt out (a bound)
  Replying,    \* targets that may reply (a bound)
  Workers,     \* handlers that run at once
  MaxRequests, \* requests in all (a bound)
  MaxFaults,   \* calls and statements that fail (a bound)
  None

\* The members of T that are in the list s, in its order.
Among(s, T) ==
  LET f[i \in 0 .. Len(s)] ==
        IF i = 0 THEN <<>>
          ELSE IF s[i] \in T THEN Append(f[i - 1], s[i]) ELSE f[i - 1]
  IN  f[Len(s)]

Addresses == Range(Targets \o Copied)
Kinds == {"sent", "bounced", "fixed"}
Results == {"sent", "failed", "opted_out"}
Outcomes == Kinds \cup {"opted_out"}

ASSUME ConstantsAssumption ==
  /\ Targets \in Seq(Range(Targets)) /\ Copied \in Seq(Range(Copied))
  /\ IsInjective(Targets \o Copied)
  /\ OptingOut \subseteq Addresses
  /\ Replying \subseteq Range(Targets)
  /\ IsFiniteSet(Workers)
  /\ MaxRequests \in Nat /\ MaxFaults \in Nat
  /\ None \notin Outcomes \cup Results

VARIABLES
  merged,     \* the case was merged: its targets and actions are the heir's
  actions,    \* case_escalation_actions, by id
  deliveries, \* case_email_deliveries
  outcomes,   \* notify_outcomes: how many of each kind, by address
  memory,     \* contact_endpoint_memory: how many it counted
  lastResult, \* and its last_result, which decides cooldown_until too
  optedOut,   \* opted_out_emails
  mailed,     \* history: which request mailed whom
  latest,     \* history: the outcome of each address that was stored last
  overlapped, \* history: addresses that two handlers recorded outcomes of at once
  unlearned,  \* history: outcomes stored by handlers that then failed
  job,        \* what each handler is at
  requests,   \* how many there have been
  faults      \* and how many faults

case == <<merged, actions, deliveries>>
learned == <<outcomes, memory, lastResult>>
people == <<optedOut, mailed>>
past == <<latest, overlapped, unlearned>>
vars == <<case, learned, people, past, job, requests, faults>>

ActionIds == DOMAIN actions
NoCount == [k \in Kinds |-> 0]
NoOutcome == [k \in Outcomes |-> 0]

\* to: whom to deal with yet; act: the action of each target; result: what
\* became of each mail; known: the counts of the next one as they were read;
\* out: who had opted out when the request came.
Idle == [pc |-> "idle", req |-> 0, to |-> <<>>, out |-> {},
         act |-> [p \in Addresses |-> 0], result |-> [p \in Addresses |-> None],
         known |-> NoCount]

Jobs ==
  [pc : {"idle", "create", "mail", "send", "record", "outcome", "recall", "learn"},
   req : 0 .. MaxRequests, to : Seq(Addresses), out : SUBSET Addresses,
   act : [Addresses -> {0} \cup ActionIds],
   result : [Addresses -> Outcomes \cup Results \cup {None}],
   known : [Kinds -> Nat]]

TypeOK ==
  /\ merged \in BOOLEAN
  /\ actions \in Seq([req : 1 .. MaxRequests, target : Range(Targets),
                      status : {"pending"} \cup Results])
  /\ deliveries \subseteq [req : 1 .. MaxRequests, who : Addresses,
                           action : {0} \cup ActionIds, status : Results]
  /\ outcomes \in [Addresses -> [Outcomes -> Nat]]
  /\ memory \in [Addresses -> [Kinds -> Nat]]
  /\ lastResult \in [Addresses -> Outcomes \cup {None}]
  /\ optedOut \subseteq OptingOut
  /\ mailed \subseteq (1 .. MaxRequests) \X Addresses
  /\ latest \in [Addresses -> Outcomes \cup {None}]
  /\ overlapped \subseteq Addresses
  /\ unlearned \in [Addresses -> [Outcomes -> Nat]]
  /\ job \in [Workers -> Jobs]
  /\ requests \in 0 .. MaxRequests
  /\ faults \in 0 .. MaxFaults

Init ==
  /\ merged = FALSE
  /\ actions = <<>>
  /\ deliveries = {}
  /\ outcomes = [p \in Addresses |-> NoOutcome]
  /\ memory = [p \in Addresses |-> NoCount]
  /\ lastResult = [p \in Addresses |-> None]
  /\ optedOut = {}
  /\ mailed = {}
  /\ latest = [p \in Addresses |-> None]
  /\ overlapped = {}
  /\ unlearned = [p \in Addresses |-> NoOutcome]
  /\ job = [w \in Workers |-> Idle]
  /\ requests = 0
  /\ faults = 0

Request(w) ==
  /\ job[w].pc = "idle"
  /\ requests < MaxRequests
  /\ requests' = requests + 1
  /\ UNCHANGED faults

Fault == faults < MaxFaults /\ faults' = faults + 1

At(w, pc) == job[w].pc = pc /\ UNCHANGED requests

Stop(w) == job' = [job EXCEPT ![w] = Idle]

(***************************************************************************)
(* The handler of an escalation, up to its call of email-service.          *)
(***************************************************************************)

\* Who is a target already is not put in copy as well.
Addressed(S, cc) == Among(Targets \o Copied, S \cup cc)

SendCaseEscalation(w, S, cc) ==
  /\ Request(w)
  /\ ~merged
  /\ S # {}
  /\ job' = [job EXCEPT ![w] =
       [Idle EXCEPT !.pc = "create", !.req = requests + 1, !.out = optedOut,
                    !.to = Addressed(S, cc)]]
  /\ UNCHANGED <<case, learned, people, past>>

\* Slip: the actions share the loop's variable, which ends at the last target.
NumberedByLast(n, S) == [p \in Addresses |-> IF p = Last(S) THEN n + 1 ELSE 0]

\* Each target's action has the next id.
Numbered(n, S) == [p \in Addresses |->
  IF Contains(S, p) THEN n + (CHOOSE i \in DOMAIN S : S[i] = p) ELSE 0]

\* The targets are read again: those of a case merged by now are gone.
CreateActions(w) ==
  LET S == Among(job[w].to, Range(Targets)) IN
  /\ At(w, "create")
  /\ \/ /\ merged
        /\ Stop(w)
        /\ UNCHANGED actions
     \/ /\ ~merged
        /\ actions' = actions \o [i \in DOMAIN S |->
             [req |-> job[w].req, target |-> S[i], status |-> "pending"]]
        /\ job' = [job EXCEPT ![w].pc = "mail",
                              ![w].act = Numbered(Len(actions), S)]
  /\ UNCHANGED <<merged, deliveries, learned, people, past, faults>>

(***************************************************************************)
(* email-service, one recipient after the other.                           *)
(***************************************************************************)

Settled(w, r) ==
  job' = [job EXCEPT ![w].pc = "mail", ![w].to = Tail(@),
                     ![w].result[Head(job[w].to)] = r]

\* Slip: the people in copy are not looked up.
CheckOptOutOfTargets(w) ==
  /\ At(w, "mail")
  /\ job[w].to # <<>>
  /\ \/ /\ Head(job[w].to) \in optedOut \cap Range(Targets)
        /\ Settled(w, "opted_out")
        /\ UNCHANGED faults
     \/ /\ Head(job[w].to) \notin optedOut \cap Range(Targets)
        /\ job' = [job EXCEPT ![w].pc = "send"]
        /\ UNCHANGED faults
     \/ Fault /\ Settled(w, "failed")
  /\ UNCHANGED <<case, learned, people, past>>

\* The opt-out list is asked, or cannot be.
CheckOptOut(w) ==
  /\ At(w, "mail")
  /\ job[w].to # <<>>
  /\ \/ /\ Head(job[w].to) \in optedOut
        /\ Settled(w, "opted_out")
        /\ UNCHANGED faults
     \/ /\ Head(job[w].to) \notin optedOut
        /\ job' = [job EXCEPT ![w].pc = "send"]
        /\ UNCHANGED faults
     \/ Fault /\ Settled(w, "failed")
  /\ UNCHANGED <<case, learned, people, past>>

\* A mail that cannot be noted counts as failed, though it was sent.
SendMail(w) ==
  /\ At(w, "send")
  /\ \/ /\ mailed' = mailed \cup {<<job[w].req, Head(job[w].to)>>}
        /\ \/ Settled(w, "sent") /\ UNCHANGED faults
           \/ Settled(w, "failed") /\ Fault
     \/ Settled(w, "failed") /\ Fault /\ UNCHANGED mailed
  /\ UNCHANGED <<case, learned, optedOut, past>>

Recipients(w) == {p \in Addresses : job[w].result[p] # None}

Answer(w) ==
  /\ At(w, "mail")
  /\ job[w].to = <<>>
  /\ job' = [job EXCEPT ![w].pc = "record"]
  /\ UNCHANGED <<faults, case, learned, people, past>>

(***************************************************************************)
(* The handler again.                                                      *)
(***************************************************************************)

\* Slip: an action is sent if any of the mails was.
StatusFromAny(w, a) ==
  IF \E p \in Recipients(w) : job[w].result[p] = "sent" THEN "sent" ELSE "failed"

\* An action has the status of the delivery made for it.
StatusFrom(w, a) ==
  LET own == {p \in Recipients(w) : job[w].act[p] = a} IN
  IF own = {} THEN "failed" ELSE job[w].result[CHOOSE p \in own : TRUE]

\* Only actions that are still the case's are updated.
RecordDeliveries(w) ==
  /\ At(w, "record")
  /\ deliveries' = deliveries \cup
       {[req |-> job[w].req, who |-> p, action |-> job[w].act[p],
         status |-> job[w].result[p]] : p \in Recipients(w)}
  /\ actions' = [a \in ActionIds |->
       IF actions[a].req = job[w].req /\ ~merged
       THEN [actions[a] EXCEPT !.status = StatusFrom(w, a)] ELSE actions[a]]
  /\ job' = [job EXCEPT ![w] =
       [Idle EXCEPT !.pc = "outcome", !.result = job[w].result,
                    !.to = Addressed(Recipients(w), {})]]
  /\ UNCHANGED <<merged, learned, people, past, faults>>

\* What a target replied is recorded by hand.
RecordReply(w, p, k) ==
  /\ Request(w)
  /\ job' = [job EXCEPT ![w] =
       [Idle EXCEPT !.pc = "outcome", !.to = <<p>>, !.result = [@ EXCEPT ![p] = k]]]
  /\ UNCHANGED <<case, learned, people, past>>

OutcomeOf(r) == IF r = "failed" THEN "bounced" ELSE r

\* The address and the outcome a handler is at.
Subject(w) == Head(job[w].to)
Finding(w) == OutcomeOf(job[w].result[Subject(w)])

\* Handlers that have stored an outcome of p and not noted it yet.
Learning(p) == {w \in Workers : job[w].pc \in {"recall", "learn"} /\ Subject(w) = p}

\* One outcome after the other: it is stored,
RecordOutcome(w) ==
  /\ At(w, "outcome")
  /\ job[w].to # <<>>
  /\ outcomes' = [outcomes EXCEPT ![Subject(w)][Finding(w)] = @ + 1]
  /\ latest' = [latest EXCEPT ![Subject(w)] = Finding(w)]
  /\ overlapped' = overlapped \cup {p \in {Subject(w)} : Learning(p) # {}}
  /\ job' = [job EXCEPT ![w].pc = "recall"]
  /\ UNCHANGED <<case, memory, lastResult, people, unlearned, faults>>

\* what is known of the address is read,
RecallMemory(w) ==
  /\ At(w, "recall")
  /\ job' = [job EXCEPT ![w].pc = "learn", ![w].known = memory[Subject(w)]]
  /\ UNCHANGED <<case, learned, people, past, faults>>

\* Slip: a count is replaced by the one that was worked out.
Stored(old, new) == new

Greatest(old, new) == IF old >= new THEN old ELSE new

\* and written back with one more: a count is never replaced by a smaller one, and
\* the last result and the cooldown that goes with it by whatever comes.
UpsertMemory(w) ==
  LET p == Subject(w)
      counted == [i \in Kinds |-> job[w].known[i] + (IF i = Finding(w) THEN 1 ELSE 0)]
  IN
  /\ At(w, "learn")
  /\ memory' = [memory EXCEPT ![p] = [i \in Kinds |-> Greatest(@[i], counted[i])]]
  /\ lastResult' = [lastResult EXCEPT ![p] = Finding(w)]
  /\ job' = [job EXCEPT ![w].pc = "outcome", ![w].to = Tail(@),
                        ![w].result[p] = None, ![w].known = NoCount]
  /\ UNCHANGED <<case, outcomes, people, past, faults>>

Done(w) ==
  /\ At(w, "outcome")
  /\ job[w].to = <<>>
  /\ Stop(w)
  /\ UNCHANGED <<case, learned, people, past, faults>>

\* A call times out, a statement fails, a process dies: the rest is not done.
Fail(w) ==
  /\ job[w].pc # "idle" /\ Fault /\ UNCHANGED requests
  /\ Stop(w)
  /\ unlearned' = IF job[w].pc \in {"recall", "learn"}
                  THEN [unlearned EXCEPT ![Subject(w)][Finding(w)] = @ + 1] ELSE unlearned
  /\ UNCHANGED <<case, learned, people, latest, overlapped>>

(***************************************************************************)
(* Meanwhile.                                                              *)
(***************************************************************************)

OptOut(p) ==
  /\ p \in OptingOut \ optedOut
  /\ optedOut' = optedOut \cup {p}
  /\ UNCHANGED <<case, learned, mailed, past, job, requests, faults>>

MergeCase ==
  /\ ~merged
  /\ merged' = TRUE
  /\ UNCHANGED <<actions, deliveries, learned, people, past, job, requests, faults>>

Next ==
  \/ \E w \in Workers :
       \/ \E S \in SUBSET Range(Targets), cc \in SUBSET Range(Copied) :
            SendCaseEscalation(w, S, cc)
       \/ CreateActions(w)
       \/ CheckOptOut(w) \/ SendMail(w) \/ Answer(w) \/ RecordDeliveries(w)
       \/ \E p \in Replying, k \in {"bounced", "fixed"} : RecordReply(w, p, k)
       \/ RecordOutcome(w) \/ RecallMemory(w) \/ UpsertMemory(w)
       \/ Done(w) \/ Fail(w)
  \/ \E p \in Addresses : OptOut(p)
  \/ MergeCase

Spec == Init /\ [][Next]_vars

(***************************************************************************)
(* Properties.                                                             *)
(***************************************************************************)

\* Nothing is recorded as sent (RecordCaseEscalationDeliveries) that was not:
\* through answers that are lost, failures and merges.
SentIsMailed ==
  /\ \A d \in deliveries : d.status = "sent" => <<d.req, d.who>> \in mailed
  /\ \A a \in ActionIds :
       actions[a].status = "sent" => <<actions[a].req, actions[a].target>> \in mailed

\* What an action says is what became of the mail to its own target: the
\* results, which come in any order, are matched to the actions by target id
\* (SendCaseEscalation), not by position.
ActionTellsItsOwn ==
  \A a \in ActionIds : actions[a].status # "pending" =>
    \E d \in deliveries : /\ d.action = a
                          /\ d.who = actions[a].target
                          /\ d.status = actions[a].status

\* Nobody is mailed who had opted out when the escalation was asked for, be it
\* a target or someone in copy (SendCaseEscalationEmails).
OptOutHonoured ==
  \A w \in Workers : \A p \in job[w].out : <<job[w].req, p>> \notin mailed

\* Outcomes of p, of kind k, that are stored and about to be noted.
Pending(p, k) == {w \in Learning(p) : Finding(w) = k}

\* What is noted of an address agrees with the outcomes stored for it, though
\* handlers read the counts, add one and write them back in three steps
\* (recordCaseDeliveryOutcomes, recordNotifyOutcomeAndMemory).  No outcome is
\* counted twice, or without having happened; one that was stored, and not left by
\* a handler that failed, is not forgotten altogether, whoever writes after it; and
\* at an address whose handlers never overlapped every outcome is counted, and the
\* last result is that of the latest.  Of outcomes that come at once some may go
\* uncounted, and an older one may stand as the last.
MemoryAgrees ==
  \A p \in Addresses :
    /\ \A k \in Kinds :
         LET noted == unlearned[p][k] + Cardinality(Pending(p, k)) IN
         /\ memory[p][k] + noted <= outcomes[p][k]
         /\ outcomes[p][k] > noted => memory[p][k] > 0
         /\ p \notin overlapped => memory[p][k] + noted = outcomes[p][k]
    /\ p \notin overlapped /\ Learning(p) = {} /\ unlearned[p] = NoOutcome =>
         lastResult[p] = latest[p]
=============================================================================
