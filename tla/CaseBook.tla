------------------------------ MODULE CaseBook ------------------------------
(***************************************************************************)
(* The cases of report-listener: umbrella records that gather reports and  *)
(* the contacts to notify about them.  Cases are created, extended and     *)
(* merged by HTTP handlers that run side by side; each handler is one or   *)
(* more transactions, and all of them end with the same refresh of the     *)
(* case's contacts, of its notify plan and of its execution tasks, whose   *)
(* steps other handlers may come between.                                  *)
(*                                                                         *)
(* A target is a row of case_escalation_targets; contacts stand for the    *)
(* key (channel and address) by which targets are told apart.              *)
(***************************************************************************)
EXTENDS Naturals, SequencesExt

CONSTANTS
  Cases,       \* case ids
  Reports,
  Contacts,
  ByMail,      \* contacts that are mailed and so need no task
  Workers,     \* handlers that run at once
  MaxRequests, \* requests in all (a bound)
  None

ASSUME ConstantsAssumption ==
  /\ IsFiniteSet(Cases) /\ IsFiniteSet(Contacts)
  /\ ByMail \subseteq Contacts
  /\ MaxRequests \in Nat
  /\ None \notin Cases

VARIABLES
  status,   \* cases.status, "none" where there is no such row
  into,     \* cases.merged_into_case_id
  links,    \* case_reports and case_clusters
  targets,  \* case_escalation_targets, by id
  plans,    \* case_notify_plans and their selected items, by id
  tasks,    \* notify_execution_tasks, by id
  told,     \* notify_outcomes: the tasks they are about
  cooling,  \* contact_endpoint_memory: contacts with a cooldown
  job,      \* what each handler is at
  requests  \* how many there have been

book == <<status, into, links, targets>>
calls == <<plans, tasks>>
memory == <<told, cooling>>
vars == <<book, calls, memory, job, requests>>

TargetIds == DOMAIN targets
PlanIds == DOMAIN plans
TaskIds == DOMAIN tasks
Existing == {c \in Cases : status[c] # "none"}
TargetsOf(c) == {i \in TargetIds : targets[i].case = c}
Whos(S) == {targets[i].who : i \in S}

Idle == [pc |-> "idle", case |-> None, report |-> None, seen |-> {},
         known |-> {}, plan |-> 0, stored |-> {}, items |-> {}, task |-> 0]

Target == [case : Cases, who : Contacts]
Plan == [case : Cases, active : BOOLEAN, items : SUBSET TargetIds]
Task == [case : Cases, target : TargetIds,
         status : {"pending", "completed", "deleted"}]
Job == [pc : {"idle", "write", "load", "enrich", "keys", "upsert", "plan", "replan",
              "reread", "tasks", "complete", "outcome", "remember"},
        case : Cases \cup {None}, report : Reports \cup {None},
        seen : SUBSET Contacts, known : SUBSET Contacts,
        plan : {0} \cup PlanIds, stored : SUBSET TargetIds, items : SUBSET TargetIds,
        task : {0} \cup TaskIds]

TypeOK ==
  /\ status \in [Cases -> {"none", "open", "resolved", "merged"}]
  /\ into \in [Cases -> Cases \cup {None}]
  /\ links \in [Cases -> SUBSET Reports]
  /\ targets \in Seq(Target)
  /\ plans \in Seq(Plan)
  /\ tasks \in Seq(Task)
  /\ told \subseteq TaskIds
  /\ cooling \subseteq Contacts
  /\ job \in [Workers -> Job]
  /\ requests \in 0 .. MaxRequests

Init ==
  /\ status = [c \in Cases |-> "none"]
  /\ into = [c \in Cases |-> None]
  /\ links = [c \in Cases |-> {}]
  /\ targets = <<>>
  /\ plans = <<>>
  /\ tasks = <<>>
  /\ told = {}
  /\ cooling = {}
  /\ job = [w \in Workers |-> Idle]
  /\ requests = 0

(***************************************************************************)
(* How handlers begin, and how they go on.                                 *)
(***************************************************************************)

Request(w) ==
  /\ job[w].pc = "idle"
  /\ requests < MaxRequests
  /\ requests' = requests + 1

At(w, pc) == job[w].pc = pc /\ UNCHANGED requests

Refresh(w, c) == job' = [job EXCEPT ![w] = [Idle EXCEPT !.pc = "load", !.case = c]]

Stop(w) == job' = [job EXCEPT ![w] = Idle]

\* Contacts are inserted as targets of the case, one row each, in some order.
Insert(c, S) ==
  \E order \in SetToSeqs(S) :
    targets' = targets \o [n \in 1 .. Cardinality(S) |-> [case |-> c, who |-> order[n]]]

(***************************************************************************)
(* Creating a case from a cluster, or attaching the cluster to a case.     *)
(***************************************************************************)

\* The case is the one the request names, the best match among the open
\* ones, or none;
Attachable == Existing \cup {None}

\* contacts come with the request or are suggested.
CreateCase(w, c, r, S) ==
  /\ Request(w)
  /\ c \in Attachable
  /\ job' = [job EXCEPT ![w] =
       [Idle EXCEPT !.pc = "write", !.case = c, !.report = r, !.seen = S]]
  /\ UNCHANGED <<book, calls, memory>>

InsertCase(w, c) ==
  /\ At(w, "write") /\ job[w].case = None
  /\ status[c] = "none"
  /\ status' = [status EXCEPT ![c] = "open"]
  /\ links' = [links EXCEPT ![c] = {job[w].report}]
  /\ Insert(c, job[w].seen)
  /\ Refresh(w, c)
  /\ UNCHANGED <<into, calls, memory>>

\* The transaction does not look at the state of the case again.
AttachCluster(w) ==
  LET c == job[w].case IN
  /\ At(w, "write") /\ c # None
  /\ links' = [links EXCEPT ![c] = @ \cup {job[w].report}]
  /\ Insert(c, job[w].seen \ Whos(TargetsOf(c)))
  /\ Refresh(w, c)
  /\ UNCHANGED <<status, into, calls, memory>>

AddReports(w, c, r) ==
  /\ Request(w)
  /\ c \in Existing
  /\ links' = [links EXCEPT ![c] = @ \cup {r}]
  /\ Refresh(w, c)
  /\ UNCHANGED <<status, into, targets, calls, memory>>

UpdateCaseStatus(w, c, s) ==
  /\ Request(w)
  /\ c \in Existing
  /\ status' = [status EXCEPT ![c] = s]
  /\ Refresh(w, c)
  /\ UNCHANGED <<into, links, targets, calls, memory>>

\* Slip: only the status says that a case was merged.
HeirsUnset(t, S) == into

Heirs(t, S) == [c \in Cases |-> IF c \in S THEN t ELSE into[c]]

Moved(t, S) ==
  [i \in TargetIds |->
     IF targets[i].case \in S THEN [targets[i] EXCEPT !.case = t] ELSE targets[i]]

\* Links are copied, targets are moved; plans and tasks stay where they are.
MergeCases(w, t, S) ==
  /\ Request(w)
  /\ t \in Existing
  /\ S # {} /\ S \subseteq Existing \ {t}
  /\ status' = [c \in Cases |-> IF c \in S THEN "merged" ELSE status[c]]
  /\ into' = Heirs(t, S)
  /\ links' = [links EXCEPT ![t] = @ \cup UNION {links[c] : c \in S}]
  /\ targets' = Moved(t, S)
  /\ Refresh(w, t)
  /\ UNCHANGED <<calls, memory>>

\* A view refreshes the contacts too, and may look for more of them.
GetCase(w, c, discover) ==
  /\ Request(w)
  /\ c \in Existing
  /\ job' = [job EXCEPT ![w] =
       [Idle EXCEPT !.pc = IF discover THEN "enrich" ELSE "load", !.case = c]]
  /\ UNCHANGED <<book, calls, memory>>

(***************************************************************************)
(* The refresh: reading the case, storing its contacts, choosing whom to   *)
(* notify, and replacing the tasks.                                        *)
(***************************************************************************)

\* Contacts are discovered for a case that has reports.
Enrich(w, p) ==
  /\ At(w, "enrich")
  /\ links[job[w].case] # {}
  /\ job' = [job EXCEPT ![w].pc = "keys",
                        ![w].seen = Whos(TargetsOf(job[w].case)) \cup {p}]
  /\ UNCHANGED <<book, calls, memory>>

GetCaseDetail(w) ==
  LET seen == Whos(TargetsOf(job[w].case)) IN
  /\ At(w, "load")
  /\ IF seen = {} THEN Stop(w)
     ELSE job' = [job EXCEPT ![w].pc = "keys", ![w].seen = seen]
  /\ UNCHANGED <<book, calls, memory>>

\* The transaction of the update reads which contacts have a row,
LoadExistingKeys(w) ==
  /\ At(w, "keys")
  /\ job' = [job EXCEPT ![w].pc = "upsert",
                        ![w].known = Whos(TargetsOf(job[w].case))]
  /\ UNCHANGED <<book, calls, memory>>

\* and inserts the others; two such transactions do not see each other.
UpsertTargets(w) ==
  /\ At(w, "upsert")
  /\ Insert(job[w].case, job[w].seen \ job[w].known)
  /\ job' = [job EXCEPT ![w] = [Idle EXCEPT !.pc = "plan", !.case = job[w].case]]
  /\ UNCHANGED <<status, into, links, calls, memory>>

\* Slip: all of them are.
VisibleRows(S) == S

\* Of several rows with one contact, one is shown.
Visible(S) == {i \in S : \A k \in S : targets[k].who = targets[i].who => i <= k}

Eligible == Contacts \ cooling

\* Contacts are chosen by their scores, and never while they cool down.  The
\* transaction of the plan reads which plan is the active one,
ReadPlan(w, chosen) ==
  LET c == job[w].case
      active == {q \in PlanIds : plans[q].case = c /\ plans[q].active}
  IN
  /\ At(w, "plan")
  /\ chosen \subseteq Eligible
  /\ job' = [job EXCEPT ![w] =
       [Idle EXCEPT !.pc = "replan", !.case = c,
                    !.plan = IF active = {} THEN 0 ELSE Max(active),
                    !.stored = Visible(TargetsOf(c)),
                    !.items = {i \in Visible(TargetsOf(c)) : targets[i].who \in chosen}]]
  /\ UNCHANGED <<book, calls, memory>>

\* and fills it, superseding any other, or starts the first one.
ReplacePlan(w) ==
  LET c == job[w].case
      p == job[w].plan
      items == job[w].items
  IN
  /\ At(w, "replan")
  /\ IF p = 0
     THEN plans' = Append(plans, [case |-> c, active |-> TRUE, items |-> items])
     ELSE plans' = [q \in PlanIds |->
            IF q = p THEN [plans[q] EXCEPT !.items = items]
            ELSE IF plans[q].case = c THEN [plans[q] EXCEPT !.active = FALSE]
            ELSE plans[q]]
  /\ job' = [job EXCEPT ![w].pc = "reread"]
  /\ UNCHANGED <<book, tasks, memory>>

\* The active plan of a case, or when none is, as one handler supersedes what another
\* fills, the one that was updated last, which may be any.
Current(c) ==
  LET own == {q \in PlanIds : plans[q].case = c}
      active == {q \in own : plans[q].active}
  IN IF active = {} THEN own ELSE {Max(active)}

\* After the commit the plan is read again: it may be what another handler has planned.
\* Of its items, those count whose targets the handler has stored.
GetActivePlan(w) ==
  /\ At(w, "reread")
  /\ \E q \in Current(job[w].case) :
       job' = [job EXCEPT ![w].pc = "tasks",
                          ![w].items = plans[q].items \cap job[w].stored]
  /\ UNCHANGED <<book, calls, memory>>

Cleared(c) ==
  [k \in TaskIds |->
     IF tasks[k].case = c /\ tasks[k].status = "pending"
     THEN [tasks[k] EXCEPT !.status = "deleted"] ELSE tasks[k]]

ToBeDone(items) == {i \in items : targets[i].who \notin ByMail}

\* Pending tasks are dropped, and new ones made for the items of the plan.
ReplaceTasks(w) ==
  LET c == job[w].case
      needed == ToBeDone(job[w].items)
  IN
  /\ At(w, "tasks")
  /\ \E order \in SetToSeqs(needed) :
       tasks' = Cleared(c) \o [n \in 1 .. Cardinality(needed) |->
         [case |-> c, target |-> order[n], status |-> "pending"]]
  /\ Stop(w)
  /\ UNCHANGED <<book, plans, memory>>

(***************************************************************************)
(* Recording what came of a task.                                          *)
(***************************************************************************)

RecordOutcome(w, k) ==
  /\ Request(w)
  /\ tasks[k].status # "deleted"
  /\ tasks[k].target \in TargetsOf(tasks[k].case)
  /\ job' = [job EXCEPT ![w] =
       [Idle EXCEPT !.pc = "complete", !.case = tasks[k].case, !.task = k]]
  /\ UNCHANGED <<book, calls, memory>>

\* Slip: the outcome is recorded whether or not the task is still there.
UpdateTaskUnchecked(w) ==
  /\ At(w, "complete")
  /\ tasks' = [tasks EXCEPT ![job[w].task].status =
                 IF @ = "deleted" THEN @ ELSE "completed"]
  /\ job' = [job EXCEPT ![w].pc = "outcome"]
  /\ UNCHANGED <<book, plans, memory>>

\* A refresh may have deleted the task: the handler panics on a nil task.
UpdateTask(w) ==
  LET k == job[w].task IN
  /\ At(w, "complete")
  /\ IF tasks[k].status = "deleted"
     THEN Stop(w) /\ UNCHANGED tasks
     ELSE /\ tasks' = [tasks EXCEPT ![k].status = "completed"]
          /\ job' = [job EXCEPT ![w].pc = "outcome"]
  /\ UNCHANGED <<book, plans, memory>>

InsertOutcome(w) ==
  /\ At(w, "outcome")
  /\ told' = told \cup {job[w].task}
  /\ job' = [job EXCEPT ![w].pc = "remember"]
  /\ UNCHANGED <<book, calls, cooling>>

\* Some outcomes start a cooldown, the others end it.
Remember(w, cools) ==
  LET who == targets[tasks[job[w].task].target].who IN
  /\ At(w, "remember")
  /\ cooling' = IF cools THEN cooling \cup {who} ELSE cooling \ {who}
  /\ Stop(w)
  /\ UNCHANGED <<book, calls, told>>

\* A handler that fails, or dies with the process, leaves what it committed.
Fail(w) ==
  /\ job[w].pc # "idle" /\ UNCHANGED requests
  /\ Stop(w)
  /\ UNCHANGED <<book, calls, memory>>

Next ==
  \E w \in Workers :
    \/ \E r \in Reports :
         \/ \E c \in Cases \cup {None}, p \in Contacts : CreateCase(w, c, r, {p})
         \/ \E c \in Cases : AddReports(w, c, r)
    \/ \E c \in Cases :
         \/ InsertCase(w, c)
         \/ \E s \in {"open", "resolved"} : UpdateCaseStatus(w, c, s)
         \/ \E S \in SUBSET Cases : MergeCases(w, c, S)
         \/ \E discover \in BOOLEAN : GetCase(w, c, discover)
    \/ AttachCluster(w)
    \/ \E p \in Contacts : Enrich(w, p)
    \/ GetCaseDetail(w) \/ LoadExistingKeys(w) \/ UpsertTargets(w)
    \/ \E chosen \in SUBSET Contacts : ReadPlan(w, chosen)
    \/ ReplacePlan(w) \/ GetActivePlan(w) \/ ReplaceTasks(w)
    \/ \E k \in TaskIds : RecordOutcome(w, k)
    \/ UpdateTask(w) \/ InsertOutcome(w)
    \/ \E cools \in BOOLEAN : Remember(w, cools)
    \/ Fail(w)

Spec == Init /\ [][Next]_vars

(***************************************************************************)
(* Properties.                                                             *)
(***************************************************************************)

\* What a case plans and has to do (ReplaceCaseNotifyPlan,
\* ReplaceNotifyExecutionTasks) is about its own contacts, however many
\* handlers refresh, extend and merge cases at once; only of a case that was
\* merged can the contacts have gone elsewhere.
OwnTargetsOnly ==
  /\ \A q \in PlanIds : \A i \in plans[q].items :
       targets[i].case = plans[q].case \/ into[plans[q].case] # None
  /\ \A k \in TaskIds :
       targets[tasks[k].target].case = tasks[k].case \/ into[tasks[k].case] # None

\* Nobody is to be called twice about one case: its pending tasks are about
\* different contacts, though merges and refreshes that do not see each other
\* (UpsertCaseEscalationTargets) can leave several rows for one contact.
OnePendingPerContact ==
  \A k, l \in TaskIds :
    /\ tasks[k].case = tasks[l].case
    /\ tasks[k].status = "pending" /\ tasks[l].status = "pending"
    /\ targets[tasks[k].target].who = targets[tasks[l].target].who
    => k = l

\* An outcome is recorded only for a task that was there to be completed: a
\* refresh that deletes the task while its outcome is being recorded cannot
\* leave an outcome without a task (RecordCaseExecutionTaskOutcome).
OutcomeHasTask == \A k \in told : tasks[k].status = "completed"
=============================================================================
