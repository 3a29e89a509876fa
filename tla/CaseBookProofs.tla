---------------------------- MODULE CaseBookProofs ----------------------------
(***************************************************************************)
(* Theorems about the cases, for any number of cases, contacts, handlers   *)
(* and requests: types, whose contacts a case notifies, that nobody is to  *)
(* be called twice, and that outcomes are of tasks.                        *)
(***************************************************************************)
EXTENDS CaseBook, FiniteSetTheorems, SequenceTheorems, WellFoundedInduction, TLAPS

(***************************************************************************)
(* Sequences.                                                              *)
(***************************************************************************)
LEMMA Indices ==
  ASSUME NEW S, NEW s \in Seq(S)
  PROVE  /\ Len(s) \in Nat /\ DOMAIN s = 1 .. Len(s)
         /\ \A i \in DOMAIN s : s[i] \in S
OBVIOUS

LEMMA SameLength ==
  ASSUME NEW S, NEW T, NEW s \in Seq(S), NEW f \in [DOMAIN s -> T]
  PROVE  f \in Seq(T) /\ DOMAIN f = DOMAIN s
<1>1. f \in [1 .. Len(s) -> T] /\ Len(s) \in Nat
  BY Indices
<1>2. QED
  BY <1>1, SeqDef

LEMMA Extended ==
  ASSUME NEW S, NEW s \in Seq(S), NEW t \in Seq(S)
  PROVE  /\ s \o t \in Seq(S)
         /\ DOMAIN s \subseteq DOMAIN (s \o t)
         /\ \A i \in DOMAIN s : (s \o t)[i] = s[i]
         /\ \A i \in DOMAIN (s \o t) :
              i \in DOMAIN s
                \/ \E n \in 1 .. Len(t) : i = Len(s) + n /\ (s \o t)[i] = t[n]
<1> DEFINE u == s \o t
<1>1. u \in Seq(S) /\ Len(u) = Len(s) + Len(t)
      /\ \A i \in 1 .. Len(s) : u[i] = s[i]
  OBVIOUS
<1>0. \A n \in 1 .. Len(t) : u[n + Len(s)] = t[n]
  OBVIOUS
<1>2. Len(s) \in Nat /\ Len(t) \in Nat /\ DOMAIN s = 1 .. Len(s) /\ DOMAIN u = 1 .. Len(u)
  BY <1>1
<1> HIDE DEF u
<1>3. DOMAIN s \subseteq DOMAIN u
  BY <1>1, <1>2
<1>4. ASSUME NEW i \in DOMAIN u, i \notin DOMAIN s
      PROVE  \E n \in 1 .. Len(t) : i = Len(s) + n /\ u[i] = t[n]
  <2> DEFINE d == i - Len(s)
  <2>1. d \in 1 .. Len(t) /\ i = Len(s) + d
    BY <1>1, <1>2, <1>4
  <2> HIDE DEF d
  <2>2. u[i] = t[d]
    <3>1. u[d + Len(s)] = t[d]
      BY <1>0, <2>1
    <3>2. d + Len(s) = i
      BY <1>2, <2>1
    <3>3. QED
      BY <3>1, <3>2
  <2>3. QED
    BY <2>1, <2>2
<1>5. \A i \in DOMAIN u :
        i \in DOMAIN s \/ \E n \in 1 .. Len(t) : i = Len(s) + n /\ u[i] = t[n]
  BY <1>4
<1>6. u \in Seq(S) /\ \A i \in DOMAIN s : u[i] = s[i]
  BY <1>1, <1>2
<1>7. QED
  BY <1>3, <1>5, <1>6 DEF u

\* The elements of a finite set in some order.
LEMMA Ordering ==
  ASSUME NEW S, IsFiniteSet(S), NEW order \in SetToSeqs(S)
  PROVE  /\ Cardinality(S) \in Nat
         /\ order \in [1 .. Cardinality(S) -> S]
         /\ \A i, k \in 1 .. Cardinality(S) : order[i] = order[k] => i = k
BY FS_CardinalityType DEF SetToSeqs

(***************************************************************************)
(* A non-empty set of numbers up to a bound has a greatest one.            *)
(***************************************************************************)
LEMMA Greatest ==
  ASSUME NEW n \in Nat, NEW S \in SUBSET (1 .. n), S # {}
  PROVE  Max(S) \in S
<1> DEFINE T == {n - s : s \in S}
<1>1. T \in SUBSET Nat /\ T # {}
  <2>1. \A s \in S : n - s \in Nat
    OBVIOUS
  <2>2. QED
    BY <2>1
<1>2. PICK x \in T : \A y \in T : ~(<<y, x>> \in OpToRel(<, Nat))
  BY <1>1, NatLessThanWellFounded, WFMin
<1>3. PICK s \in S : x = n - s
  OBVIOUS
<1>4. \A t \in S : s >= t
  <2> SUFFICES ASSUME NEW t \in S PROVE s >= t
    OBVIOUS
  <2>1. n - t \in T /\ n - t \in Nat /\ x \in Nat
    BY <1>1
  <2>2. ~(n - t < x)
    BY <1>2, <2>1 DEF OpToRel
  <2>3. QED
    BY <1>3, <2>2
<1>5. QED
  BY <1>4 DEF Max

-----------------------------------------------------------------------------
(***************************************************************************)
(* The inductive invariant.                                                *)
(***************************************************************************)

\* A target is the case's own, unless the case was merged.
Owned(tg, in, i, c) == tg[i].case = c \/ in[c] # None

\* What a handler holds at each of its steps.  The items it has chosen to notify
\* are the case's own, and about different contacts; a task whose outcome it is
\* about to record is completed.
Sound(j, tg, ts, in) ==
  /\ j.pc \notin {"idle", "write"} => j.case \in Cases
  /\ j.pc = "write" => j.report \in Reports
  /\ j.pc \in {"complete", "outcome", "remember"} => j.task \in DOMAIN ts
  /\ j.pc \in {"outcome", "remember"} => ts[j.task].status = "completed"
  /\ \A i \in j.items : Owned(tg, in, i, j.case)
  /\ \A i, k \in j.items : tg[i].who = tg[k].who => i = k
  /\ j.items # {} => j.case \in Cases

JobInv == \A w \in Workers : Sound(job[w], targets, tasks, into)

\* The plan a handler is about to fill is the case's.
Fills(j) == j.pc = "replan" /\ j.plan # 0

FillInv == \A w \in Workers : Fills(job[w]) => plans[job[w].plan].case = job[w].case

PlanInv == \A q \in PlanIds : \A i \in plans[q].items :
             Owned(targets, into, i, plans[q].case)

\* No two items of a plan are of one contact.
DistinctInv == \A q \in PlanIds : \A i, k \in plans[q].items :
                 targets[i].who = targets[k].who => i = k

TaskInv == \A k \in TaskIds : Owned(targets, into, tasks[k].target, tasks[k].case)

Inv == /\ TypeOK /\ JobInv /\ FillInv /\ PlanInv /\ DistinctInv /\ TaskInv
       /\ OnePendingPerContact /\ OutcomeHasTask

-----------------------------------------------------------------------------
(* Types. *)

Pcs == {"idle", "write", "load", "enrich", "keys", "upsert", "plan", "replan",
        "reread", "tasks", "complete", "outcome", "remember"}

LEMMA TypesGrow ==
  ASSUME TargetIds \subseteq TargetIds', PlanIds \subseteq PlanIds', TaskIds \subseteq TaskIds'
  PROVE  Plan \subseteq Plan' /\ Task \subseteq Task' /\ Job \subseteq Job'
<1>1. Plan \subseteq Plan'
  BY DEF Plan
<1>2. Task \subseteq Task'
  BY DEF Task
<1>3. Job \subseteq Job'
  BY DEF Job
<1>4. QED
  BY <1>1, <1>2, <1>3

LEMMA IdleSound ==
  ASSUME NEW tg, NEW ts, NEW in
  PROVE  Idle \in Job /\ Sound(Idle, tg, ts, in) /\ ~Fills(Idle)
BY DEF Idle, Job, Sound, Fills

\* The first steps of a handler.
LEMMA BegunSound ==
  ASSUME NEW tg, NEW ts, NEW in, NEW c \in Cases,
         NEW pc \in {"load", "enrich", "plan"}
  PROVE  LET j == [Idle EXCEPT !.pc = pc, !.case = c]
         IN  j \in Job /\ Sound(j, tg, ts, in) /\ ~Fills(j)
BY DEF Idle, Job, Sound, Fills

LEMMA CreateSound ==
  ASSUME NEW tg, NEW ts, NEW in, NEW c \in Cases \cup {None}, NEW r \in Reports,
         NEW S \in SUBSET Contacts
  PROVE  LET j == [Idle EXCEPT !.pc = "write", !.case = c, !.report = r, !.seen = S]
         IN  j \in Job /\ Sound(j, tg, ts, in) /\ ~Fills(j)
BY DEF Idle, Job, Sound, Fills

LEMMA OutcomeSound ==
  ASSUME NEW tg, NEW in, NEW c \in Cases, NEW k \in TaskIds
  PROVE  LET j == [Idle EXCEPT !.pc = "complete", !.case = c, !.task = k]
         IN  j \in Job /\ Sound(j, tg, tasks, in) /\ ~Fills(j)
BY DEF Idle, Job, Sound, TaskIds, Fills

\* Steps that only change where the handler is at.
LEMMA MovedSound ==
  ASSUME NEW j \in Job, NEW pc \in Pcs, NEW tg, NEW ts, NEW in, Sound(j, tg, ts, in),
         j.case \in Cases,
         pc \notin {"write", "replan", "complete", "outcome", "remember"}
  PROVE  /\ [j EXCEPT !.pc = pc] \in Job /\ Sound([j EXCEPT !.pc = pc], tg, ts, in)
         /\ ~Fills([j EXCEPT !.pc = pc])
BY DEF Job, Pcs, Sound, Fills

LEMMA SeenSound ==
  ASSUME NEW j \in Job, NEW tg, NEW ts, NEW in, Sound(j, tg, ts, in),
         NEW S \in SUBSET Contacts, ~Fills(j)
  PROVE  /\ [j EXCEPT !.seen = S] \in Job /\ Sound([j EXCEPT !.seen = S], tg, ts, in)
         /\ ~Fills([j EXCEPT !.seen = S])
<1>1. [j EXCEPT !.seen = S] \in Job
  BY DEF Job
<1>2. Sound([j EXCEPT !.seen = S], tg, ts, in)
  BY DEF Job, Sound
<1>3. ~Fills([j EXCEPT !.seen = S])
  BY DEF Job, Fills
<1>4. QED
  BY <1>1, <1>2, <1>3

LEMMA KnownSound ==
  ASSUME NEW j \in Job, NEW tg, NEW ts, NEW in, Sound(j, tg, ts, in),
         NEW S \in SUBSET Contacts, ~Fills(j)
  PROVE  /\ [j EXCEPT !.known = S] \in Job /\ Sound([j EXCEPT !.known = S], tg, ts, in)
         /\ ~Fills([j EXCEPT !.known = S])
<1>1. [j EXCEPT !.known = S] \in Job
  BY DEF Job
<1>2. Sound([j EXCEPT !.known = S], tg, ts, in)
  BY DEF Job, Sound
<1>3. ~Fills([j EXCEPT !.known = S])
  BY DEF Job, Fills
<1>4. QED
  BY <1>1, <1>2, <1>3

\* Choosing what to notify.
Chosen(c, p, T, S) ==
  [Idle EXCEPT !.pc = "replan", !.case = c, !.plan = p, !.stored = T, !.items = S]

Choice(tg, c, S) == /\ \A i \in S : tg[i].case = c
                    /\ \A i, k \in S : tg[i].who = tg[k].who => i = k

LEMMA ChosenSound ==
  ASSUME NEW c \in Cases, NEW tg, NEW ts, NEW in,
         NEW p \in {0} \cup PlanIds, NEW T \in SUBSET TargetIds,
         NEW S \in SUBSET TargetIds, Choice(tg, c, S)
  PROVE  /\ Chosen(c, p, T, S) \in Job /\ Sound(Chosen(c, p, T, S), tg, ts, in)
         /\ Chosen(c, p, T, S).plan = p /\ Chosen(c, p, T, S).case = c
<1> SUFFICES ASSUME NEW l, l = Chosen(c, p, T, S)
             PROVE  l \in Job /\ Sound(l, tg, ts, in) /\ l.plan = p /\ l.case = c
  OBVIOUS
<1>1. l = [pc |-> "replan", case |-> c, report |-> None, seen |-> {}, known |-> {},
           plan |-> p, stored |-> T, items |-> S, task |-> 0]
  BY DEF Idle, Chosen
<1>2. l \in Job
  BY <1>1 DEF Job
<1>3. /\ l.pc = "replan" /\ l.case = c /\ l.items = S
  BY <1>1
<1>4. Sound(l, tg, ts, in)
  BY <1>3 DEF Sound, Owned, Choice
<1>5. QED
  BY <1>1, <1>2, <1>4

\* The steps of recording an outcome.
LEMMA RecordSound ==
  ASSUME NEW j \in Job, NEW tg, NEW ts, NEW in, Sound(j, tg, ts, in), j.case \in Cases,
         j.task \in DOMAIN ts, ts[j.task].status = "completed",
         NEW pc \in {"outcome", "remember"}
  PROVE  /\ [j EXCEPT !.pc = pc] \in Job /\ Sound([j EXCEPT !.pc = pc], tg, ts, in)
         /\ ~Fills([j EXCEPT !.pc = pc])
BY DEF Job, Sound, Fills

-----------------------------------------------------------------------------
(* What steps do to targets. *)

LEMMA InsertEffect ==
  ASSUME TypeOK, NEW c \in Cases, NEW S \in SUBSET Contacts, Insert(c, S)
  PROVE  /\ targets' \in Seq(Target)
         /\ TargetIds \subseteq TargetIds'
         /\ \A i \in TargetIds : targets'[i] = targets[i]
<1>1. IsFiniteSet(S)
  BY ConstantsAssumption, FS_Subset
<1>2. PICK order \in SetToSeqs(S) :
        targets' = targets \o [n \in 1 .. Cardinality(S) |-> [case |-> c, who |-> order[n]]]
  BY DEF Insert
<1> DEFINE t == [n \in 1 .. Cardinality(S) |-> [case |-> c, who |-> order[n]]]
<1>3. t \in Seq(Target)
  <2>1. Cardinality(S) \in Nat /\ order \in [1 .. Cardinality(S) -> S]
    BY <1>1, Ordering
  <2>2. t \in [1 .. Cardinality(S) -> Target]
    BY <2>1 DEF Target
  <2>3. QED
    BY <2>1, <2>2, SeqDef
<1>4. targets \in Seq(Target) /\ targets' = targets \o t
  BY <1>2 DEF TypeOK
<1> HIDE DEF t
<1>5. QED
  BY <1>3, <1>4, Extended DEF TargetIds

LEMMA MovedEffect ==
  ASSUME TypeOK, NEW c \in Cases, NEW S, targets' = Moved(c, S)
  PROVE  /\ targets' \in Seq(Target)
         /\ TargetIds' = TargetIds
         /\ \A i \in TargetIds : /\ targets'[i].who = targets[i].who
                                 /\ targets'[i].case = targets[i].case
                                      \/ targets[i].case \in S
<1>1. targets \in Seq(Target) /\ \A i \in TargetIds : targets[i] \in Target
  BY Indices DEF TypeOK, TargetIds
<1>2. targets' \in [TargetIds -> Target]
  BY <1>1 DEF Moved, Target
<1>3. targets' \in Seq(Target) /\ TargetIds' = TargetIds
  BY <1>1, <1>2, SameLength DEF TargetIds
<1>4. QED
  BY <1>1, <1>3 DEF Moved, Target

\* Targets stay, with their contacts; what is a case's own remains so.
Keeps == /\ targets' \in Seq(Target)
         /\ TargetIds \subseteq TargetIds'
         /\ \A i \in TargetIds : targets'[i].who = targets[i].who
         /\ \A i \in TargetIds, c \in Cases :
              Owned(targets, into, i, c) => Owned(targets', into', i, c)

LEMMA InsertKeeps ==
  ASSUME TypeOK, NEW c \in Cases, NEW S \in SUBSET Contacts, Insert(c, S), UNCHANGED into
  PROVE  Keeps
BY InsertEffect DEF Keeps, Owned

LEMMA StillKeeps ==
  ASSUME TypeOK, UNCHANGED <<targets, into>>
  PROVE  Keeps
BY DEF Keeps, TypeOK, TargetIds

LEMMA MergeKeeps ==
  ASSUME TypeOK, NEW w \in Workers, NEW c \in Cases, NEW S \in SUBSET Cases,
         MergeCases(w, c, S)
  PROVE  Keeps /\ into' \in [Cases -> Cases \cup {None}]
<1>1. targets' = Moved(c, S) /\ into' = Heirs(c, S)
  BY DEF MergeCases
<1>2. into' \in [Cases -> Cases \cup {None}] /\ c # None
      /\ \A d \in Cases : into'[d] = IF d \in S THEN c ELSE into[d]
  BY <1>1, ConstantsAssumption DEF Heirs, TypeOK
<1>3. ASSUME NEW i \in TargetIds, NEW d \in Cases, Owned(targets, into, i, d)
      PROVE  Owned(targets', into', i, d)
  BY <1>1, <1>2, <1>3, MovedEffect DEF Owned
<1>4. QED
  BY <1>1, <1>2, <1>3, MovedEffect DEF Keeps

-----------------------------------------------------------------------------
(* What steps do to plans and tasks. *)

\* A plan keeps its case, and its items are what it had or what a handler chose.
LEMMA PlanEffect ==
  ASSUME TypeOK, NEW w \in Workers, Sound(job[w], targets, tasks, into),
         Fills(job[w]) => plans[job[w].plan].case = job[w].case, ReplacePlan(w)
  PROVE  /\ plans' \in Seq(Plan)
         /\ PlanIds \subseteq PlanIds'
         /\ \A q \in PlanIds' :
              \/ /\ q \in PlanIds
                 /\ plans'[q].case = plans[q].case /\ plans'[q].items = plans[q].items
              \/ /\ plans'[q].case = job[w].case /\ plans'[q].items = job[w].items
         /\ \A q \in PlanIds : plans'[q].case = plans[q].case
<1> DEFINE c == job[w].case
           p == job[w].plan
           items == job[w].items
<1>1. job[w] \in Job /\ c \in Cases /\ items \in SUBSET TargetIds /\ p \in {0} \cup PlanIds
  BY DEF TypeOK, Sound, ReplacePlan, At, Job
<1>2. plans \in Seq(Plan) /\ \A q \in PlanIds : plans[q] \in Plan
  BY Indices DEF TypeOK, PlanIds
<1>3. CASE p = 0
  <2>1. plans' = Append(plans, [case |-> c, active |-> TRUE, items |-> items])
    BY <1>3 DEF ReplacePlan
  <2> DEFINE x == [case |-> c, active |-> TRUE, items |-> items]
  <2>2. x \in Plan
    BY <1>1 DEF Plan
  <2> HIDE DEF x
  <2>3. /\ plans' \in Seq(Plan) /\ DOMAIN plans' = 1 .. Len(plans) + 1
        /\ DOMAIN plans = 1 .. Len(plans) /\ Len(plans) \in Nat
        /\ plans'[Len(plans) + 1] = x
        /\ \A q \in 1 .. Len(plans) : plans'[q] = plans[q]
    <3>1. DOMAIN plans = 1 .. Len(plans) /\ Len(plans) \in Nat /\ plans' = Append(plans, x)
      BY <1>2, <2>1, Indices DEF x
    <3>2. /\ plans' \in Seq(Plan) /\ Len(plans') = Len(plans) + 1
          /\ plans'[Len(plans) + 1] = x
          /\ \A q \in 1 .. Len(plans) : plans'[q] = plans[q]
      BY <1>2, <2>2, <3>1, AppendProperties
    <3>3. DOMAIN plans' = 1 .. Len(plans')
      BY <3>2, Indices
    <3>4. QED
      BY <3>1, <3>2, <3>3
  <2>4. \A q \in PlanIds' : q \in PlanIds \/ q = Len(plans) + 1
    BY <2>3 DEF PlanIds
  <2>5. PlanIds \subseteq PlanIds'
    BY <2>3 DEF PlanIds
  <2>6. ASSUME NEW q \in PlanIds
        PROVE  plans'[q] = plans[q]
    BY <2>3 DEF PlanIds
  <2>7. x.case = c /\ x.items = items
    BY DEF x
  <2>8. QED
    BY <2>3, <2>4, <2>5, <2>6, <2>7
<1>4. CASE p # 0
  <2>1. plans' = [q \in PlanIds |->
          IF q = p THEN [plans[q] EXCEPT !.items = items]
          ELSE IF plans[q].case = c THEN [plans[q] EXCEPT !.active = FALSE]
          ELSE plans[q]]
    BY <1>4 DEF ReplacePlan
  <2>2. plans' \in [PlanIds -> Plan]
    BY <1>1, <1>2, <2>1 DEF Plan
  <2>3. plans' \in Seq(Plan) /\ PlanIds' = PlanIds
    BY <1>2, <2>2, SameLength DEF PlanIds
  <2>4. ASSUME NEW q \in PlanIds
        PROVE  /\ plans'[q].case = plans[q].case
               /\ plans'[q].items = plans[q].items
                    \/ (q = p /\ plans'[q].items = items)
    <3>0. plans[q] \in Plan
      BY <1>2
    <3>1. \A x \in Plan : /\ [x EXCEPT !.items = items].case = x.case
                          /\ [x EXCEPT !.items = items].items = items
                          /\ [x EXCEPT !.active = FALSE].case = x.case
                          /\ [x EXCEPT !.active = FALSE].items = x.items
      BY DEF Plan
    <3>2. CASE q = p
      BY <2>1, <3>0, <3>1, <3>2
    <3>3. CASE q # p
      <4>1. plans'[q] = [plans[q] EXCEPT !.active = FALSE] \/ plans'[q] = plans[q]
        BY <2>1, <3>3
      <4>2. CASE plans'[q] = [plans[q] EXCEPT !.active = FALSE]
        BY <3>0, <3>1, <4>2
      <4>3. CASE plans'[q] = plans[q]
        BY <4>3
      <4>4. QED
        BY <4>1, <4>2, <4>3
    <3>4. QED
      BY <3>2, <3>3
  <2>5. plans[p].case = c
    BY <1>4 DEF Fills, ReplacePlan, At
  <2>6. QED
    BY <2>3, <2>4, <2>5
<1>5. QED
  BY <1>3, <1>4

\* A task that has been cleared is not pending; nothing else about it changes.
LEMMA ClearedEffect ==
  ASSUME TypeOK, NEW c \in Cases
  PROVE  /\ Cleared(c) \in Seq(Task)
         /\ DOMAIN Cleared(c) = TaskIds
         /\ \A k \in TaskIds :
              /\ Cleared(c)[k].case = tasks[k].case
              /\ Cleared(c)[k].target = tasks[k].target
              /\ tasks[k].status # "pending" => Cleared(c)[k].status = tasks[k].status
              /\ tasks[k].case = c => Cleared(c)[k].status # "pending"
              /\ tasks[k].case # c => Cleared(c)[k].status = tasks[k].status
<1>1. tasks \in Seq(Task) /\ \A k \in TaskIds : tasks[k] \in Task
  BY Indices DEF TypeOK, TaskIds
<1>2. \A x \in Task : /\ [x EXCEPT !.status = "deleted"] \in Task
                      /\ [x EXCEPT !.status = "deleted"].case = x.case
                      /\ [x EXCEPT !.status = "deleted"].target = x.target
                      /\ [x EXCEPT !.status = "deleted"].status = "deleted"
  BY DEF Task
<1>3. ASSUME NEW k \in TaskIds
      PROVE  /\ Cleared(c)[k] \in Task
             /\ Cleared(c)[k].case = tasks[k].case
             /\ Cleared(c)[k].target = tasks[k].target
             /\ tasks[k].status # "pending" => Cleared(c)[k].status = tasks[k].status
             /\ tasks[k].case = c => Cleared(c)[k].status # "pending"
             /\ tasks[k].case # c => Cleared(c)[k].status = tasks[k].status
  <2>1. CASE tasks[k].case = c /\ tasks[k].status = "pending"
    BY <1>1, <1>2, <2>1 DEF Cleared
  <2>2. CASE ~(tasks[k].case = c /\ tasks[k].status = "pending")
    <3>1. Cleared(c)[k] = tasks[k]
      BY <2>2 DEF Cleared
    <3>2. QED
      BY <1>1, <2>2, <3>1
  <2>3. QED
    BY <2>1, <2>2
<1>4. Cleared(c) \in [TaskIds -> Task]
  <2>1. Cleared(c) = [k \in TaskIds |-> Cleared(c)[k]]
    BY DEF Cleared
  <2>2. QED
    BY <1>3, <2>1
<1>5. Cleared(c) \in Seq(Task) /\ DOMAIN Cleared(c) = TaskIds
  BY <1>1, <1>4, SameLength DEF TaskIds
<1>6. QED
  BY <1>3, <1>5

\* A task stays what it is about, and what is done stays done; one that is new, or
\* pending where the others of its case were dropped, is about an item the handler chose.
TasksKept ==
  /\ tasks' \in Seq(Task)
  /\ TaskIds \subseteq TaskIds'
  /\ \A k \in TaskIds :
       /\ tasks'[k].case = tasks[k].case
       /\ tasks'[k].target = tasks[k].target
       /\ tasks[k].status = "completed" => tasks'[k].status = "completed"

LEMMA ReplaceEffect ==
  ASSUME TypeOK, NEW w \in Workers, Sound(job[w], targets, tasks, into), ReplaceTasks(w)
  PROVE  /\ TasksKept
         /\ \A k \in TaskIds' \ TaskIds :
              tasks'[k].case = job[w].case /\ tasks'[k].target \in job[w].items
         /\ \A k, l \in TaskIds' \ TaskIds :
              tasks'[k].target = tasks'[l].target => k = l
         /\ \A k \in TaskIds :
              tasks'[k].status = "pending" =>
                tasks[k].status = "pending" /\ tasks[k].case # job[w].case
<1> DEFINE c == job[w].case
           items == job[w].items
           needed == ToBeDone(items)
<1>1. job[w] \in Job /\ c \in Cases /\ items \in SUBSET TargetIds
  BY DEF TypeOK, Sound, ReplaceTasks, At, Job
<1>2. needed \subseteq items
  BY DEF ToBeDone
<1>3. IsFiniteSet(needed)
  <2>1. IsFiniteSet(TargetIds)
    <3>1. TargetIds = 1 .. Len(targets) /\ Len(targets) \in Nat
      BY Indices DEF TypeOK, TargetIds
    <3>2. QED
      BY <3>1, FS_Interval
  <2>2. QED
    BY <1>1, <1>2, <2>1, FS_Subset
<1>4. PICK order \in SetToSeqs(needed) :
        tasks' = Cleared(c) \o [n \in 1 .. Cardinality(needed) |->
          [case |-> c, target |-> order[n], status |-> "pending"]]
  BY DEF ReplaceTasks
<1> DEFINE m == Cardinality(needed)
<1>5. /\ m \in Nat
      /\ order \in [1 .. m -> needed]
      /\ \A i, k \in 1 .. m : order[i] = order[k] => i = k
  BY <1>3, Ordering
<1> DEFINE t == [n \in 1 .. m |-> [case |-> c, target |-> order[n], status |-> "pending"]]
           u == Cleared(c)
<1>6. t \in Seq(Task) /\ Len(t) = m
      /\ \A n \in 1 .. m : /\ t[n].case = c /\ t[n].target = order[n]
  <2> HIDE DEF needed, m, c
  <2>1. \A n \in 1 .. m : order[n] \in TargetIds
    BY <1>1, <1>2, <1>5
  <2>2. t \in [1 .. m -> Task]
    BY <1>1, <2>1 DEF Task, c
  <2>3. t \in Seq(Task)
    BY <1>5, <2>2, SeqDef
  <2>4. DOMAIN t = 1 .. m /\ DOMAIN t = 1 .. Len(t) /\ Len(t) \in Nat
    BY <2>3, Indices
  <2>5. Len(t) = m
    BY <1>5, <2>4
  <2>6. \A n \in 1 .. m : /\ t[n].case = c /\ t[n].target = order[n]
    OBVIOUS
  <2>7. QED
    BY <2>3, <2>5, <2>6
<1>7. u \in Seq(Task) /\ DOMAIN u = TaskIds /\ tasks' = u \o t
  BY <1>1, <1>4, ClearedEffect
<1> HIDE DEF needed, m, t, u
<1>8. /\ tasks' \in Seq(Task)
      /\ TaskIds \subseteq TaskIds'
      /\ \A k \in TaskIds : tasks'[k] = u[k]
      /\ \A k \in TaskIds' : k \in TaskIds
           \/ \E n \in 1 .. m : k = Len(u) + n /\ tasks'[k] = t[n]
  BY <1>6, <1>7, Extended DEF TaskIds
<1>9. /\ TasksKept
      /\ \A k \in TaskIds : tasks'[k].status = "pending" =>
           tasks[k].status = "pending" /\ tasks[k].case # c
  <2>1. \A k \in TaskIds :
          /\ u[k].case = tasks[k].case
          /\ u[k].target = tasks[k].target
          /\ tasks[k].status # "pending" => u[k].status = tasks[k].status
          /\ tasks[k].case = c => u[k].status # "pending"
          /\ tasks[k].case # c => u[k].status = tasks[k].status
    BY <1>1, ClearedEffect DEF u
  <2>2. QED
    BY <1>8, <2>1 DEF TasksKept
<1>10. ASSUME NEW k \in TaskIds' \ TaskIds
       PROVE  \E n \in 1 .. m : /\ k = Len(u) + n
                                /\ tasks'[k].case = c /\ tasks'[k].target = order[n]
                                /\ order[n] \in items
  BY <1>2, <1>5, <1>6, <1>8
<1>11. \A k, l \in TaskIds' \ TaskIds : tasks'[k].target = tasks'[l].target => k = l
  BY <1>5, <1>10
<1>12. QED
  BY <1>9, <1>10, <1>11

-----------------------------------------------------------------------------
(* What each step leaves its handler with. *)

Holds(w, j) == /\ j \in Job
               /\ job' = [job EXCEPT ![w] = j]
               /\ Sound(j, targets, tasks', into)
               /\ Fills(j) => j.plan \in PlanIds /\ plans[j.plan].case = j.case

LEMMA StopHolds ==
  ASSUME NEW w, Stop(w)
  PROVE  Holds(w, Idle)
BY IdleSound DEF Stop, Holds

LEMMA RefreshHolds ==
  ASSUME NEW w, NEW c \in Cases, Refresh(w, c)
  PROVE  \E j : Holds(w, j)
<1>1. Holds(w, [Idle EXCEPT !.pc = "load", !.case = c])
  BY BegunSound DEF Refresh, Holds
<1>2. QED
  BY <1>1

LEMMA EditHolds ==
  ASSUME Inv, NEW w \in Workers,
         \/ \E r \in Reports, c \in Cases \cup {None}, S \in SUBSET Contacts :
              CreateCase(w, c, r, S)
         \/ \E r \in Reports, c \in Cases : AddReports(w, c, r)
         \/ \E c \in Cases, s \in {"open", "resolved"} : UpdateCaseStatus(w, c, s)
         \/ \E c \in Cases, S \in SUBSET Cases : MergeCases(w, c, S)
         \/ \E c \in Cases, d \in BOOLEAN : GetCase(w, c, d)
         \/ \E c \in Cases : InsertCase(w, c)
         \/ AttachCluster(w)
  PROVE  \E j : Holds(w, j)
<1>1. ASSUME NEW r \in Reports, NEW c \in Cases \cup {None}, NEW S \in SUBSET Contacts,
             CreateCase(w, c, r, S)
      PROVE  \E j : Holds(w, j)
  <2>1. Holds(w, [Idle EXCEPT !.pc = "write", !.case = c, !.report = r, !.seen = S])
    BY <1>1, CreateSound DEF CreateCase, Holds
  <2>2. QED
    BY <2>1
<1>2. ASSUME NEW c \in Cases, NEW d \in BOOLEAN, GetCase(w, c, d)
      PROVE  \E j : Holds(w, j)
  <2> DEFINE pc == IF d THEN "enrich" ELSE "load"
  <2>1. pc \in {"load", "enrich", "plan"}
    OBVIOUS
  <2>2. job' = [job EXCEPT ![w] = [Idle EXCEPT !.pc = pc, !.case = c]]
    BY <1>2 DEF GetCase
  <2> HIDE DEF pc
  <2>3. Holds(w, [Idle EXCEPT !.pc = pc, !.case = c])
    BY <2>1, <2>2, BegunSound DEF Holds
  <2>4. QED
    BY <2>3
<1>3. ASSUME NEW c \in Cases,
             \/ \E r \in Reports : AddReports(w, c, r)
             \/ \E s \in {"open", "resolved"} : UpdateCaseStatus(w, c, s)
             \/ \E S \in SUBSET Cases : MergeCases(w, c, S)
             \/ InsertCase(w, c)
      PROVE  \E j : Holds(w, j)
  BY <1>3, RefreshHolds DEF AddReports, UpdateCaseStatus, MergeCases, InsertCase
<1>4. CASE AttachCluster(w)
  <2>1. job[w].case \in Cases /\ Refresh(w, job[w].case)
    BY <1>4 DEF AttachCluster, Inv, TypeOK, Job
  <2>2. QED
    BY <2>1, RefreshHolds
<1>5. QED
  BY <1>1, <1>2, <1>3, <1>4

\* The case of a handler, and what it holds, at a step of the refresh.
LEMMA JobAt ==
  ASSUME Inv, NEW w \in Workers
  PROVE  /\ job[w] \in Job /\ Sound(job[w], targets, tasks, into)
         /\ job[w].pc \notin {"idle", "write"} => job[w].case \in Cases
         /\ Fills(job[w]) => plans[job[w].plan].case = job[w].case
BY DEF Inv, TypeOK, JobInv, FillInv, Sound

LEMMA WhosTyped ==
  ASSUME TypeOK, NEW c
  PROVE  Whos(TargetsOf(c)) \in SUBSET Contacts
<1>1. \A i \in TargetIds : targets[i] \in Target
  BY Indices DEF TypeOK, TargetIds
<1>2. QED
  BY <1>1 DEF Whos, TargetsOf, Target

\* What a handler notifies after it has read a plan of its case.
LEMMA PlannedSound ==
  ASSUME NEW j \in Job, NEW tg, NEW ts, NEW in, Sound(j, tg, ts, in), j.case \in Cases,
         NEW S \in SUBSET TargetIds,
         \A i \in S : Owned(tg, in, i, j.case),
         \A i, k \in S : tg[i].who = tg[k].who => i = k
  PROVE  LET l == [j EXCEPT !.pc = "tasks", !.items = S]
         IN  l \in Job /\ Sound(l, tg, ts, in) /\ ~Fills(l)
<1> DEFINE l == [j EXCEPT !.pc = "tasks", !.items = S]
<1>1. l \in Job
  BY DEF Job
<1>2. l.pc = "tasks" /\ l.case = j.case /\ l.items = S
  BY DEF Job
<1> HIDE DEF l
<1>3. Sound(l, tg, ts, in) /\ ~Fills(l)
  BY <1>2 DEF Sound, Fills
<1>4. QED
  BY <1>1, <1>3 DEF l

LEMMA RereadHolds ==
  ASSUME Inv, NEW w \in Workers, GetActivePlan(w)
  PROVE  \E j : Holds(w, j)
<1>0. TypeOK /\ PlanInv /\ DistinctInv
  BY DEF Inv
<1> DEFINE c == job[w].case
<1>1. /\ job[w] \in Job /\ Sound(job[w], targets, tasks, into) /\ c \in Cases
      /\ UNCHANGED tasks
  BY JobAt DEF GetActivePlan, At, calls
<1>2. \A q \in Current(c) : q \in PlanIds /\ plans[q].case = c
  <2> DEFINE own == {q \in PlanIds : plans[q].case = c}
             active == {q \in own : plans[q].active}
  <2>1. CASE active # {}
    <3>1. PlanIds = 1 .. Len(plans) /\ Len(plans) \in Nat
      BY <1>0, Indices DEF TypeOK, PlanIds
    <3>2. Max(active) \in active
      BY <2>1, <3>1, Greatest
    <3>3. QED
      BY <2>1, <3>2 DEF Current
  <2>2. CASE active = {}
    BY <2>2 DEF Current
  <2>3. QED
    BY <2>1, <2>2
<1>3. PICK q \in Current(c) :
        job' = [job EXCEPT ![w].pc = "tasks", ![w].items = plans[q].items \cap job[w].stored]
  BY DEF GetActivePlan
<1> DEFINE S == plans[q].items \cap job[w].stored
           j == [job[w] EXCEPT !.pc = "tasks", !.items = S]
<1>4. /\ S \in SUBSET TargetIds
      /\ \A i \in S : Owned(targets, into, i, c)
      /\ \A i, k \in S : targets[i].who = targets[k].who => i = k
  <2>1. S \in SUBSET TargetIds
    BY <1>1 DEF Job
  <2>2. QED
    BY <1>0, <1>2, <2>1 DEF PlanInv, DistinctInv
<1>5. job' = [job EXCEPT ![w] = j]
  BY <1>0, <1>3 DEF TypeOK
<1> HIDE DEF S
<1>6. j \in Job /\ Sound(j, targets, tasks, into) /\ ~Fills(j)
  BY <1>1, <1>4, PlannedSound
<1> HIDE DEF j
<1>7. Holds(w, j)
  BY <1>1, <1>5, <1>6 DEF Holds
<1>8. QED
  BY <1>7

LEMMA LookHolds ==
  ASSUME Inv, NEW w \in Workers,
         (\E p \in Contacts : Enrich(w, p)) \/ GetCaseDetail(w) \/ LoadExistingKeys(w)
           \/ UpsertTargets(w) \/ GetActivePlan(w)
  PROVE  \E j : Holds(w, j)
<1> DEFINE c == job[w].case
           k == [job[w] EXCEPT !.pc = "keys"]
           u == [job[w] EXCEPT !.pc = "upsert"]
<1>0. TypeOK
  BY DEF Inv
<1>1. /\ job[w] \in Job /\ Sound(job[w], targets, tasks, into) /\ c \in Cases
      /\ UNCHANGED tasks
      /\ job \in [Workers -> Job]
  BY <1>0, JobAt DEF Enrich, GetCaseDetail, LoadExistingKeys, UpsertTargets, GetActivePlan,
     At, calls, TypeOK
<1>2. /\ k \in Job /\ Sound(k, targets, tasks, into) /\ ~Fills(k)
      /\ u \in Job /\ Sound(u, targets, tasks, into) /\ ~Fills(u)
  BY <1>1, MovedSound DEF Pcs
<1>3. ASSUME NEW S \in SUBSET Contacts,
             job' = [job EXCEPT ![w] = [k EXCEPT !.seen = S]]
      PROVE  \E j : Holds(w, j)
  <2>1. Holds(w, [k EXCEPT !.seen = S])
    <3> HIDE DEF k
    <3>1. QED
      BY <1>1, <1>2, <1>3, SeenSound DEF Holds
  <2>2. QED
    BY <2>1
<1>4. ASSUME NEW p \in Contacts, Enrich(w, p) PROVE \E j : Holds(w, j)
  <2> DEFINE S == Whos(TargetsOf(c)) \cup {p}
  <2>1. S \in SUBSET Contacts
    BY <1>0, WhosTyped
  <2>2. job' = [job EXCEPT ![w] = [k EXCEPT !.seen = S]]
    BY <1>1, <1>4 DEF Enrich
  <2> HIDE DEF S, k
  <2>3. QED
    BY <1>3, <2>1, <2>2
<1>5. CASE GetCaseDetail(w)
  <2> DEFINE S == Whos(TargetsOf(c))
  <2>1. S \in SUBSET Contacts
    BY <1>0, WhosTyped
  <2>2. Stop(w) \/ job' = [job EXCEPT ![w] = [k EXCEPT !.seen = S]]
    BY <1>1, <1>5 DEF GetCaseDetail
  <2> HIDE DEF S, k
  <2>3. QED
    BY <1>3, <2>1, <2>2, StopHolds
<1>6. CASE LoadExistingKeys(w)
  <2> DEFINE S == Whos(TargetsOf(c))
  <2>1. S \in SUBSET Contacts
    BY <1>0, WhosTyped
  <2>2. job' = [job EXCEPT ![w] = [u EXCEPT !.known = S]]
    BY <1>1, <1>6 DEF LoadExistingKeys
  <2>3. Holds(w, [u EXCEPT !.known = S])
    <3> HIDE DEF u, S
    <3>1. QED
      BY <1>1, <1>2, <2>1, <2>2, KnownSound DEF Holds
  <2>4. QED
    BY <2>3
<1>7. CASE UpsertTargets(w)
  <2>1. job' = [job EXCEPT ![w] = [Idle EXCEPT !.pc = "plan", !.case = c]]
    BY <1>7 DEF UpsertTargets
  <2>2. Holds(w, [Idle EXCEPT !.pc = "plan", !.case = c])
    BY <1>1, <2>1, BegunSound DEF Holds
  <2>3. QED
    BY <2>2
<1>8. CASE GetActivePlan(w)
  BY <1>1, <1>8, RereadHolds
<1>9. QED
  BY <1>4, <1>5, <1>6, <1>7, <1>8

\* Of the targets a case shows, no two have one contact.
LEMMA VisibleDistinct ==
  ASSUME TypeOK, NEW S \in SUBSET TargetIds, NEW i \in Visible(S), NEW k \in Visible(S),
         targets[i].who = targets[k].who
  PROVE  i = k
<1>1. TargetIds \subseteq Nat
  BY Indices DEF TypeOK, TargetIds
<1>2. i \in S /\ k \in S /\ i <= k /\ k <= i
  BY DEF Visible
<1>3. QED
  BY <1>1, <1>2

LEMMA ReadPlanHolds ==
  ASSUME Inv, NEW w \in Workers, NEW chosen, ReadPlan(w, chosen)
  PROVE  \E j : Holds(w, j)
<1> DEFINE c == job[w].case
           active == {q \in PlanIds : plans[q].case = c /\ plans[q].active}
           p == IF active = {} THEN 0 ELSE Max(active)
           S == {i \in Visible(TargetsOf(c)) : targets[i].who \in chosen}
           T == Visible(TargetsOf(c))
           j == Chosen(c, p, T, S)
<1>0. TypeOK
  BY DEF Inv
<1>1. c \in Cases /\ UNCHANGED tasks /\ job' = [job EXCEPT ![w] = j]
  BY JobAt DEF ReadPlan, At, calls, Chosen
<1>2. p \in {0} \cup PlanIds /\ (p # 0 => p \in PlanIds /\ plans[p].case = c)
  <2>1. CASE active # {}
    <3>1. PlanIds = 1 .. Len(plans) /\ Len(plans) \in Nat
      BY <1>0, Indices DEF TypeOK, PlanIds
    <3>2. Max(active) \in active
      BY <2>1, <3>1, Greatest
    <3>3. QED
      BY <2>1, <3>2
  <2>2. QED
    BY <2>1
<1>3. S \subseteq TargetsOf(c) /\ TargetsOf(c) \in SUBSET TargetIds /\ T \in SUBSET TargetIds
  BY DEF Visible, TargetsOf
<1>4. \A i \in S : targets[i].case = c
  BY <1>3 DEF TargetsOf
<1>5. \A i, k \in S : targets[i].who = targets[k].who => i = k
  BY <1>0, <1>3, VisibleDistinct
<1> HIDE DEF c, p, S, T
<1>6. /\ j \in Job /\ Sound(j, targets, tasks, into) /\ j.plan = p /\ j.case = c
  <2>1. S \in SUBSET TargetIds /\ T \in SUBSET TargetIds /\ c \in Cases /\ p \in {0} \cup PlanIds
    BY <1>1, <1>2, <1>3
  <2>3. Choice(targets, c, S)
    BY <1>4, <1>5 DEF Choice
  <2>2. QED
    BY <2>1, <2>3, ChosenSound
<1> HIDE DEF j
<1>7. Fills(j) => j.plan \in PlanIds /\ plans[j.plan].case = j.case
  BY <1>2, <1>6 DEF Fills
<1>8. Holds(w, j)
  BY <1>1, <1>6, <1>7 DEF Holds
<1>9. QED
  BY <1>8

LEMMA ReplaceHolds ==
  ASSUME Inv, NEW w \in Workers, ReplacePlan(w) \/ ReplaceTasks(w) \/ Fail(w)
  PROVE  \E j : Holds(w, j)
<1>1. CASE ReplaceTasks(w) \/ Fail(w)
  BY <1>1, StopHolds DEF ReplaceTasks, Fail
<1>2. CASE ReplacePlan(w)
  <2> DEFINE j == [job[w] EXCEPT !.pc = "reread"]
  <2>1. /\ job[w] \in Job /\ Sound(job[w], targets, tasks, into) /\ job[w].case \in Cases
        /\ UNCHANGED tasks
    BY <1>2, JobAt DEF ReplacePlan, At
  <2>2. j \in Job /\ Sound(j, targets, tasks, into) /\ ~Fills(j)
    BY <2>1, MovedSound DEF Pcs
  <2>3. job' = [job EXCEPT ![w] = j]
    BY <1>2 DEF ReplacePlan, Inv, TypeOK
  <2> HIDE DEF j
  <2>4. QED
    BY <2>1, <2>2, <2>3 DEF Holds
<1>3. QED
  BY <1>1, <1>2

LEMMA OutcomeHolds ==
  ASSUME Inv, NEW w \in Workers,
         \/ \E k \in TaskIds : RecordOutcome(w, k)
         \/ UpdateTask(w) \/ InsertOutcome(w)
         \/ \E cools \in BOOLEAN : Remember(w, cools)
  PROVE  (\E j : Holds(w, j)) /\ TasksKept
<1>0. /\ TypeOK
      /\ tasks \in Seq(Task) /\ \A k \in TaskIds : tasks[k] \in Task
  BY Indices DEF Inv, TypeOK, TaskIds
<1>1. UNCHANGED tasks => TasksKept
  BY <1>0 DEF TasksKept, TaskIds
<1>2. ASSUME NEW k \in TaskIds, RecordOutcome(w, k)
      PROVE  (\E j : Holds(w, j)) /\ TasksKept
  <2> DEFINE j == [Idle EXCEPT !.pc = "complete", !.case = tasks[k].case, !.task = k]
  <2>1. tasks[k].case \in Cases
    BY <1>0 DEF Task
  <2>2. job' = [job EXCEPT ![w] = j] /\ UNCHANGED tasks
    BY <1>2 DEF RecordOutcome, calls
  <2>3. Holds(w, j)
    BY <2>1, <2>2, OutcomeSound DEF Holds
  <2>4. QED
    BY <1>1, <2>2, <2>3
<1>3. CASE \E cools \in BOOLEAN : Remember(w, cools)
  BY <1>1, <1>3, StopHolds DEF Remember, calls
<1>4. CASE InsertOutcome(w)
  <2> DEFINE j == [job[w] EXCEPT !.pc = "remember"]
  <2>1. /\ job[w] \in Job /\ Sound(job[w], targets, tasks, into) /\ job[w].case \in Cases
        /\ job[w].task \in DOMAIN tasks /\ tasks[job[w].task].status = "completed"
        /\ UNCHANGED tasks
    BY <1>4, JobAt DEF InsertOutcome, At, calls, Sound
  <2>2. j \in Job /\ Sound(j, targets, tasks, into) /\ ~Fills(j)
    BY <2>1, RecordSound
  <2>3. job' = [job EXCEPT ![w] = j]
    BY <1>0, <1>4 DEF InsertOutcome, TypeOK
  <2> HIDE DEF j
  <2>4. Holds(w, j)
    BY <2>1, <2>2, <2>3 DEF Holds
  <2>5. QED
    BY <1>1, <2>1, <2>4
<1>5. CASE UpdateTask(w)
  <2> DEFINE k == job[w].task
  <2>1. /\ job[w] \in Job /\ Sound(job[w], targets, tasks, into) /\ job[w].case \in Cases
        /\ k \in TaskIds /\ job[w].pc = "complete"
    BY <1>5, JobAt DEF UpdateTask, At, Sound, TaskIds
  <2>2. CASE tasks[k].status = "deleted"
    BY <1>1, <1>5, <2>2, StopHolds DEF UpdateTask
  <2>3. CASE tasks[k].status # "deleted"
    <3> DEFINE j == [job[w] EXCEPT !.pc = "outcome"]
    <3>1. /\ tasks' = [tasks EXCEPT ![k].status = "completed"]
          /\ job' = [job EXCEPT ![w] = j]
      BY <1>0, <1>5, <2>3 DEF UpdateTask, TypeOK
    <3>2. \A x \in Task : /\ [x EXCEPT !.status = "completed"] \in Task
                          /\ [x EXCEPT !.status = "completed"].case = x.case
                          /\ [x EXCEPT !.status = "completed"].target = x.target
                          /\ [x EXCEPT !.status = "completed"].status = "completed"
      BY DEF Task
    <3>3. tasks' = [tasks EXCEPT ![k] = [tasks[k] EXCEPT !.status = "completed"]]
      BY <3>1
    <3> DEFINE x == [tasks[k] EXCEPT !.status = "completed"]
    <3>4. /\ x \in Task /\ x.case = tasks[k].case /\ x.target = tasks[k].target
          /\ x.status = "completed"
      BY <1>0, <2>1, <3>2
    <3> HIDE DEF x, k
    <3>5. /\ tasks' \in [TaskIds -> Task] /\ tasks'[k] = x
          /\ \A l \in TaskIds : l # k => tasks'[l] = tasks[l]
      <4>1. tasks \in [TaskIds -> Task]
        BY <1>0 DEF TaskIds
      <4>2. tasks' = [tasks EXCEPT ![k] = x]
        BY <3>3 DEF x
      <4>3. QED
        BY <2>1, <3>4, <4>1, <4>2
    <3>6. tasks' \in Seq(Task) /\ TaskIds' = TaskIds
      BY <1>0, <3>5, SameLength DEF TaskIds
    <3>7. TasksKept
      BY <3>4, <3>5, <3>6 DEF TasksKept
    <3>8. Sound(job[w], targets, tasks', into)
      BY <2>1, <3>6 DEF Sound, TaskIds
    <3>9. j \in Job /\ Sound(j, targets, tasks', into) /\ ~Fills(j)
      <4>1. k \in DOMAIN tasks' /\ tasks'[k].status = "completed"
        BY <2>1, <3>4, <3>5, <3>6 DEF TaskIds
      <4>2. QED
        BY <2>1, <3>8, <4>1, RecordSound DEF k
    <3> HIDE DEF j
    <3>10. Holds(w, j)
      BY <3>1, <3>9 DEF Holds
    <3>11. QED
      BY <3>7, <3>10
  <2>4. QED
    BY <2>2, <2>3
<1>6. QED
  BY <1>2, <1>3, <1>4, <1>5

-----------------------------------------------------------------------------
(* A step as a whole. *)

Edits(w) ==
  \/ \E r \in Reports, c \in Cases \cup {None}, S \in SUBSET Contacts :
       CreateCase(w, c, r, S)
  \/ \E r \in Reports, c \in Cases : AddReports(w, c, r)
  \/ \E c \in Cases, s \in {"open", "resolved"} : UpdateCaseStatus(w, c, s)
  \/ \E c \in Cases, S \in SUBSET Cases : MergeCases(w, c, S)
  \/ \E c \in Cases, d \in BOOLEAN : GetCase(w, c, d)
  \/ \E c \in Cases : InsertCase(w, c)
  \/ AttachCluster(w)

Looks(w) == \/ \E p \in Contacts : Enrich(w, p)
            \/ GetCaseDetail(w) \/ LoadExistingKeys(w) \/ UpsertTargets(w)
            \/ GetActivePlan(w)

Records(w) == \/ \E k \in TaskIds : RecordOutcome(w, k)
              \/ UpdateTask(w) \/ InsertOutcome(w)
              \/ \E cools \in BOOLEAN : Remember(w, cools)

LEMMA Steps ==
  ASSUME Next
  PROVE  \E w \in Workers :
           \/ Edits(w) \/ Looks(w) \/ Records(w)
           \/ (\E chosen \in SUBSET Contacts : ReadPlan(w, chosen))
           \/ ReplacePlan(w) \/ ReplaceTasks(w) \/ Fail(w)
<1>1. \A p \in Contacts : {p} \in SUBSET Contacts
  OBVIOUS
<1>2. QED
  BY <1>1 DEF Next, Edits, Looks, Records

PlansKept == /\ plans' \in Seq(Plan)
             /\ PlanIds \subseteq PlanIds'
             /\ \A q \in PlanIds : plans'[q].case = plans[q].case

RestTyped == /\ status' \in [Cases -> {"none", "open", "resolved", "merged"}]
             /\ into' \in [Cases -> Cases \cup {None}]
             /\ links' \in [Cases -> SUBSET Reports]
             /\ told' \subseteq TaskIds
             /\ cooling' \subseteq Contacts
             /\ requests' \in 0 .. MaxRequests

LEMMA CallsKept ==
  ASSUME TypeOK
  PROVE  /\ UNCHANGED plans => PlansKept
         /\ UNCHANGED tasks => TasksKept
BY Indices DEF TypeOK, PlansKept, TasksKept, PlanIds, TaskIds

LEMMA RequestTyped ==
  ASSUME TypeOK, requests' = requests \/ (requests < MaxRequests /\ requests' = requests + 1)
  PROVE  requests' \in 0 .. MaxRequests
BY ConstantsAssumption DEF TypeOK

LEMMA EditKeeps ==
  ASSUME Inv, NEW w \in Workers, Edits(w)
  PROVE  Keeps /\ PlansKept /\ TasksKept /\ RestTyped
<1>0. TypeOK /\ job[w] \in Job
  BY DEF Inv, TypeOK
<1>1. UNCHANGED <<plans, tasks, told, cooling>>
  BY DEF Edits, CreateCase, AddReports, UpdateCaseStatus, MergeCases, GetCase, InsertCase,
     AttachCluster, calls, memory
<1>2. requests' \in 0 .. MaxRequests
  BY <1>0, RequestTyped DEF Edits, CreateCase, AddReports, UpdateCaseStatus, MergeCases,
     GetCase, InsertCase, AttachCluster, Request, At
<1> DEFINE Done == /\ Keeps
                   /\ status' \in [Cases -> {"none", "open", "resolved", "merged"}]
                   /\ into' \in [Cases -> Cases \cup {None}]
                   /\ links' \in [Cases -> SUBSET Reports]
<1>3. ASSUME \/ \E r \in Reports, c \in Cases \cup {None}, S \in SUBSET Contacts :
                  CreateCase(w, c, r, S)
             \/ \E c \in Cases, d \in BOOLEAN : GetCase(w, c, d)
             \/ \E r \in Reports, c \in Cases : AddReports(w, c, r)
             \/ \E c \in Cases, s \in {"open", "resolved"} : UpdateCaseStatus(w, c, s)
      PROVE  Done
  <2>1. UNCHANGED <<into, targets>>
    BY <1>3 DEF CreateCase, GetCase, AddReports, UpdateCaseStatus, book
  <2>2. Keeps
    BY <1>0, <2>1, StillKeeps
  <2>3. /\ status' \in [Cases -> {"none", "open", "resolved", "merged"}]
        /\ links' \in [Cases -> SUBSET Reports]
    BY <1>0, <1>3 DEF CreateCase, GetCase, AddReports, UpdateCaseStatus, book, TypeOK
  <2>4. QED
    BY <1>0, <2>1, <2>2, <2>3 DEF TypeOK
<1>4. ASSUME NEW c \in Cases, NEW S \in SUBSET Cases, MergeCases(w, c, S)
      PROVE  Done
  <2>1. Keeps /\ into' \in [Cases -> Cases \cup {None}]
    BY <1>0, <1>4, MergeKeeps
  <2>2. /\ status' \in [Cases -> {"none", "open", "resolved", "merged"}]
        /\ links' \in [Cases -> SUBSET Reports]
    BY <1>0, <1>4 DEF MergeCases, TypeOK
  <2>3. QED
    BY <2>1, <2>2
<1>5. ASSUME NEW c \in Cases, InsertCase(w, c)
      PROVE  Done
  <2>1. job[w].seen \in SUBSET Contacts /\ job[w].report \in Reports
    BY <1>0, <1>5, JobAt DEF InsertCase, At, Job, Sound
  <2>2. Keeps
    BY <1>0, <1>5, <2>1, InsertKeeps DEF InsertCase
  <2>3. QED
    BY <1>0, <1>5, <2>1, <2>2 DEF InsertCase, TypeOK
<1>6. ASSUME AttachCluster(w)
      PROVE  Done
  <2>1. /\ job[w].case \in Cases /\ job[w].report \in Reports
        /\ job[w].seen \ Whos(TargetsOf(job[w].case)) \in SUBSET Contacts
    BY <1>0, <1>6, JobAt DEF AttachCluster, At, Job, Sound
  <2>2. Insert(job[w].case, job[w].seen \ Whos(TargetsOf(job[w].case)))
        /\ UNCHANGED into
    BY <1>6 DEF AttachCluster
  <2>3. Keeps
    BY <1>0, <2>1, <2>2, InsertKeeps
  <2>4. QED
    BY <1>0, <1>6, <2>1, <2>3 DEF AttachCluster, TypeOK
<1>7. Done
  BY <1>3, <1>4, <1>5, <1>6 DEF Edits
<1>8. QED
  BY <1>0, <1>1, <1>2, <1>7, CallsKept DEF RestTyped, TypeOK

LEMMA LookKeeps ==
  ASSUME Inv, NEW w \in Workers,
         Looks(w) \/ (\E chosen \in SUBSET Contacts : ReadPlan(w, chosen)) \/ Fail(w)
  PROVE  Keeps /\ PlansKept /\ TasksKept /\ RestTyped
<1>0. TypeOK /\ job[w] \in Job
  BY DEF Inv, TypeOK
<1>1. UNCHANGED <<status, into, links, plans, tasks, told, cooling, requests>>
  BY DEF Looks, Enrich, GetCaseDetail, LoadExistingKeys, UpsertTargets, GetActivePlan,
     ReadPlan, Fail, At, book, calls, memory
<1>2. Keeps
  <2>1. CASE UpsertTargets(w)
    <3>1. job[w].case \in Cases /\ job[w].seen \ job[w].known \in SUBSET Contacts
      BY <1>0, <2>1, JobAt DEF UpsertTargets, At, Job
    <3>2. QED
      BY <1>0, <1>1, <2>1, <3>1, InsertKeeps DEF UpsertTargets
  <2>2. CASE UNCHANGED targets
    BY <1>0, <1>1, <2>2, StillKeeps
  <2>3. QED
    BY <2>1, <2>2 DEF Looks, Enrich, GetCaseDetail, LoadExistingKeys, GetActivePlan,
      ReadPlan, Fail, book
<1>3. QED
  BY <1>0, <1>1, <1>2, CallsKept DEF RestTyped, TypeOK

LEMMA RecordKeeps ==
  ASSUME Inv, NEW w \in Workers, Records(w)
  PROVE  Keeps /\ PlansKept /\ TasksKept /\ RestTyped
<1>0. TypeOK /\ job[w] \in Job /\ \A k \in TaskIds : tasks[k] \in Task
  BY Indices DEF Inv, TypeOK, TaskIds
<1>1. UNCHANGED <<status, into, links, targets, plans>>
  BY DEF Records, RecordOutcome, UpdateTask, InsertOutcome, Remember, book, calls
<1>2. TasksKept
  BY OutcomeHolds DEF Records
<1>3. requests' \in 0 .. MaxRequests
  BY <1>0, RequestTyped DEF Records, RecordOutcome, UpdateTask, InsertOutcome, Remember,
     Request, At
<1>4. told' \subseteq TaskIds
  <2>1. CASE InsertOutcome(w)
    <3>1. job[w].task \in TaskIds
      BY <2>1, JobAt DEF InsertOutcome, At, Sound, TaskIds
    <3>2. QED
      BY <1>0, <2>1, <3>1 DEF InsertOutcome, TypeOK
  <2>2. CASE UNCHANGED told
    BY <1>0, <2>2 DEF TypeOK
  <2>3. QED
    BY <2>1, <2>2 DEF Records, RecordOutcome, UpdateTask, Remember, memory
<1>5. cooling' \subseteq Contacts
  <2>1. ASSUME NEW cools \in BOOLEAN, Remember(w, cools)
        PROVE  cooling' \subseteq Contacts
    <3>1. job[w].task \in TaskIds
      BY <2>1, JobAt DEF Remember, At, Sound, TaskIds
    <3>2. targets[tasks[job[w].task].target] \in Target
      <4>1. tasks[job[w].task].target \in TargetIds
        BY <1>0, <3>1 DEF Task
      <4>2. QED
        BY <1>0, <4>1, Indices DEF TypeOK, TargetIds
    <3>3. targets[tasks[job[w].task].target].who \in Contacts
      BY <3>2 DEF Target
    <3>4. QED
      BY <1>0, <2>1, <3>3 DEF Remember, TypeOK
  <2>2. CASE UNCHANGED cooling
    BY <1>0, <2>2 DEF TypeOK
  <2>3. QED
    BY <2>1, <2>2 DEF Records, RecordOutcome, UpdateTask, InsertOutcome, memory
<1>6. QED
  BY <1>0, <1>1, <1>2, <1>3, <1>4, <1>5, StillKeeps, CallsKept DEF RestTyped, TypeOK

LEMMA ReplaceKeeps ==
  ASSUME Inv, NEW w \in Workers, ReplacePlan(w) \/ ReplaceTasks(w)
  PROVE  Keeps /\ PlansKept /\ TasksKept /\ RestTyped
<1>0. TypeOK
  BY DEF Inv
<1>1. UNCHANGED <<status, into, links, targets, told, cooling, requests>>
  BY DEF ReplacePlan, ReplaceTasks, At, book, memory
<1>2. CASE ReplacePlan(w)
  <2>1. PlansKept
    BY <1>0, <1>2, JobAt, PlanEffect DEF PlansKept
  <2>2. UNCHANGED tasks
    BY <1>2 DEF ReplacePlan
  <2>3. QED
    BY <1>0, <1>1, <2>1, <2>2, StillKeeps, CallsKept DEF RestTyped, TypeOK
<1>3. CASE ReplaceTasks(w)
  <2>1. TasksKept
    BY <1>0, <1>3, JobAt, ReplaceEffect
  <2>2. UNCHANGED plans
    BY <1>3 DEF ReplaceTasks
  <2>3. QED
    BY <1>0, <1>1, <2>1, <2>2, StillKeeps, CallsKept DEF RestTyped, TypeOK
<1>4. QED
  BY <1>2, <1>3

LEMMA NextKeeps ==
  ASSUME Inv, Next
  PROVE  /\ Keeps /\ PlansKept /\ TasksKept /\ RestTyped
         /\ \E w \in Workers, j \in Job : Holds(w, j)
<1>1. PICK w \in Workers :
        \/ Edits(w) \/ Looks(w) \/ Records(w)
        \/ (\E chosen \in SUBSET Contacts : ReadPlan(w, chosen))
        \/ ReplacePlan(w) \/ ReplaceTasks(w) \/ Fail(w)
  BY Steps
<1>2. Keeps /\ PlansKept /\ TasksKept /\ RestTyped
  BY <1>1, EditKeeps, LookKeeps, RecordKeeps, ReplaceKeeps
<1>3. \E j : Holds(w, j)
  <2>1. Edits(w) => \E j : Holds(w, j)
    BY EditHolds DEF Edits
  <2>2. Looks(w) => \E j : Holds(w, j)
    BY LookHolds DEF Looks
  <2>3. Records(w) => \E j : Holds(w, j)
    BY OutcomeHolds DEF Records
  <2>4. QED
    BY <1>1, <2>1, <2>2, <2>3, ReadPlanHolds, ReplaceHolds
<1>4. QED
  BY <1>2, <1>3 DEF Holds

LEMMA TypeStep ==
  ASSUME Inv, Next
  PROVE  TypeOK'
<1>1. PICK w \in Workers, j \in Job : Holds(w, j)
  BY NextKeeps
<1>2. Keeps /\ PlansKept /\ TasksKept /\ RestTyped
  BY NextKeeps
<1>3. Plan \subseteq Plan' /\ Task \subseteq Task' /\ Job \subseteq Job'
  BY <1>2, TypesGrow DEF Keeps, PlansKept, TasksKept
<1>4. job' \in [Workers -> Job]
  BY <1>1 DEF Holds, Inv, TypeOK
<1>5. job' \in [Workers -> Job']
  BY <1>3, <1>4
<1>6. plans' \in Seq(Plan') /\ tasks' \in Seq(Task')
  BY <1>2, <1>3, SeqMonotonic DEF PlansKept, TasksKept
<1>7. targets' \in Seq(Target')
  BY <1>2 DEF Keeps, Target
<1>8. told' \subseteq TaskIds'
  BY <1>2 DEF RestTyped, TasksKept
<1>9. QED
  BY <1>2, <1>5, <1>6, <1>7, <1>8 DEF TypeOK, RestTyped

\* What a handler holds stays sound whatever other handlers do.
LEMMA SoundKept ==
  ASSUME TypeOK, Keeps, TasksKept, NEW j \in Job, NEW ts,
         Sound(j, targets, ts, into), ts = tasks \/ ts = tasks'
  PROVE  Sound(j, targets', tasks', into')
<1>1. \A i \in j.items : i \in TargetIds
  BY DEF Job
<1>2. /\ \A i, k \in j.items : targets'[i].who = targets'[k].who => i = k
      /\ \A i \in j.items : Owned(targets', into', i, j.case)
  BY <1>1 DEF Sound, Keeps
<1>3. /\ DOMAIN ts \subseteq DOMAIN tasks'
      /\ \A k \in DOMAIN ts : ts[k].status = "completed" => tasks'[k].status = "completed"
  BY DEF TasksKept, TaskIds
<1>4. QED
  BY <1>2, <1>3 DEF Sound

LEMMA JobStep ==
  ASSUME Inv, Next
  PROVE  JobInv' /\ FillInv'
<1>0. TypeOK /\ Keeps /\ TasksKept /\ PlansKept
  BY NextKeeps DEF Inv
<1>1. PICK w \in Workers, j \in Job : Holds(w, j)
  BY NextKeeps
<1>2. /\ job'[w] = j
      /\ \A v \in Workers : v # w => job'[v] = job[v]
  BY <1>0, <1>1 DEF Holds, TypeOK
<1>3. Sound(j, targets', tasks', into')
  BY <1>0, <1>1, SoundKept DEF Holds
<1>4. ASSUME NEW v \in Workers, v # w
      PROVE  Sound(job[v], targets', tasks', into')
  <2>1. job[v] \in Job /\ Sound(job[v], targets, tasks, into)
    BY JobAt
  <2>2. QED
    BY <1>0, <2>1, SoundKept
<1>5. JobInv'
  <2>1. \A v \in Workers : Sound(job'[v], targets', tasks', into')
    BY <1>2, <1>3, <1>4
  <2>2. QED
    BY <2>1 DEF JobInv
<1>6. FillInv'
  <2> SUFFICES ASSUME NEW v \in Workers, Fills(job'[v])
               PROVE  plans'[job'[v].plan].case = job'[v].case
    BY DEF FillInv
  <2>1. \A q \in PlanIds : plans'[q].case = plans[q].case
    BY <1>0 DEF PlansKept
  <2>2. CASE v = w
    BY <1>1, <1>2, <2>1, <2>2 DEF Holds
  <2>3. CASE v # w
    <3>1. job'[v] = job[v] /\ job[v] \in Job /\ Fills(job[v])
      BY <1>2, <2>3, JobAt
    <3>2. job[v].plan \in PlanIds
      BY <3>1 DEF Job, Fills
    <3>3. plans[job[v].plan].case = job[v].case
      BY <3>1, JobAt
    <3>4. QED
      BY <2>1, <3>1, <3>2, <3>3
  <2>4. QED
    BY <2>2, <2>3
<1>7. QED
  BY <1>5, <1>6

LEMMA PlanStep ==
  ASSUME Inv, Next
  PROVE  PlanInv'
<1>0. TypeOK /\ Keeps
  BY NextKeeps DEF Inv
<1>1. ASSUME NEW q \in PlanIds, NEW i \in plans[q].items
      PROVE  Owned(targets', into', i, plans[q].case)
  <2>1. plans[q] \in Plan
    BY <1>0, Indices DEF TypeOK, PlanIds
  <2>2. i \in TargetIds /\ plans[q].case \in Cases
    BY <2>1 DEF Plan
  <2>3. Owned(targets, into, i, plans[q].case)
    BY DEF Inv, PlanInv
  <2>4. QED
    BY <1>0, <2>2, <2>3 DEF Keeps
<1>2. PICK w \in Workers :
        \/ Edits(w) \/ Looks(w) \/ Records(w)
        \/ (\E chosen \in SUBSET Contacts : ReadPlan(w, chosen))
        \/ ReplacePlan(w) \/ ReplaceTasks(w) \/ Fail(w)
  BY Steps
<1>3. CASE ReplacePlan(w)
  <2>1. /\ job[w] \in Job /\ job[w].case \in Cases /\ Sound(job[w], targets, tasks, into)
        /\ UNCHANGED <<targets, into>>
    BY <1>3, JobAt DEF ReplacePlan, At, book
  <2>2. \A i \in job[w].items : Owned(targets', into', i, job[w].case)
    BY <2>1 DEF Sound
  <2>3. \A q \in PlanIds' :
          \/ /\ q \in PlanIds
             /\ plans'[q].case = plans[q].case /\ plans'[q].items = plans[q].items
          \/ /\ plans'[q].case = job[w].case /\ plans'[q].items = job[w].items
    BY <1>0, <1>3, <2>1, JobAt, PlanEffect
  <2>4. \A q \in PlanIds' : \A i \in plans'[q].items :
          Owned(targets', into', i, plans'[q].case)
    BY <1>1, <2>2, <2>3
  <2>5. QED
    BY <2>4 DEF PlanInv
<1>4. CASE UNCHANGED plans
  <2>1. \A q \in PlanIds' : \A i \in plans'[q].items :
          Owned(targets', into', i, plans'[q].case)
    BY <1>1, <1>4 DEF PlanIds
  <2>2. QED
    BY <2>1 DEF PlanInv
<1>5. QED
  BY <1>2, <1>3, <1>4 DEF Edits, Looks, Records, CreateCase, AddReports, UpdateCaseStatus,
    MergeCases, GetCase, InsertCase, AttachCluster, Enrich, GetCaseDetail, LoadExistingKeys,
    UpsertTargets, GetActivePlan, RecordOutcome, UpdateTask, InsertOutcome, Remember,
    ReadPlan, ReplaceTasks, Fail, calls

LEMMA DistinctStep ==
  ASSUME Inv, Next
  PROVE  DistinctInv'
<1>0. TypeOK /\ Keeps
  BY NextKeeps DEF Inv
<1> DEFINE Distinct(S) == \A i, k \in S : targets'[i].who = targets'[k].who => i = k
<1>1. ASSUME NEW q \in PlanIds
      PROVE  Distinct(plans[q].items)
  <2>1. plans[q] \in Plan
    BY <1>0, Indices DEF TypeOK, PlanIds
  <2>2. plans[q].items \subseteq TargetIds
    BY <2>1 DEF Plan
  <2>3. \A i, k \in plans[q].items : targets[i].who = targets[k].who => i = k
    BY DEF Inv, DistinctInv
  <2>4. QED
    BY <1>0, <2>2, <2>3 DEF Keeps
<1>2. PICK w \in Workers :
        \/ Edits(w) \/ Looks(w) \/ Records(w)
        \/ (\E chosen \in SUBSET Contacts : ReadPlan(w, chosen))
        \/ ReplacePlan(w) \/ ReplaceTasks(w) \/ Fail(w)
  BY Steps
<1>3. CASE ReplacePlan(w)
  <2>1. Sound(job[w], targets, tasks, into) /\ UNCHANGED <<targets, into>>
    BY <1>3, JobAt DEF ReplacePlan, book
  <2>2. Distinct(job[w].items)
    BY <2>1 DEF Sound
  <2>3. \A q \in PlanIds' :
          \/ q \in PlanIds /\ plans'[q].items = plans[q].items
          \/ plans'[q].items = job[w].items
    BY <1>0, <1>3, <2>1, JobAt, PlanEffect
  <2> HIDE DEF Distinct
  <2>4. \A q \in PlanIds' : Distinct(plans'[q].items)
    BY <1>1, <2>2, <2>3
  <2>5. QED
    BY <2>4 DEF DistinctInv, Distinct
<1>4. CASE UNCHANGED plans
  <2> HIDE DEF Distinct
  <2>1. \A q \in PlanIds' : Distinct(plans'[q].items)
    BY <1>1, <1>4 DEF PlanIds
  <2>2. QED
    BY <2>1 DEF DistinctInv, Distinct
<1>5. QED
  BY <1>2, <1>3, <1>4 DEF Edits, Looks, Records, CreateCase, AddReports, UpdateCaseStatus,
    MergeCases, GetCase, InsertCase, AttachCluster, Enrich, GetCaseDetail, LoadExistingKeys,
    UpsertTargets, GetActivePlan, RecordOutcome, UpdateTask, InsertOutcome, Remember,
    ReadPlan, ReplaceTasks, Fail, calls

LEMMA TaskStep ==
  ASSUME Inv, Next
  PROVE  TaskInv'
<1>0. TypeOK /\ Keeps /\ TasksKept
  BY NextKeeps DEF Inv
<1>1. ASSUME NEW k \in TaskIds
      PROVE  Owned(targets', into', tasks'[k].target, tasks'[k].case)
  <2>1. tasks[k] \in Task
    BY <1>0, Indices DEF TypeOK, TaskIds
  <2>2. tasks[k].target \in TargetIds /\ tasks[k].case \in Cases
    BY <2>1 DEF Task
  <2>3. Owned(targets, into, tasks[k].target, tasks[k].case)
    BY DEF Inv, TaskInv
  <2>4. QED
    BY <1>0, <2>2, <2>3 DEF Keeps, TasksKept
<1>2. PICK w \in Workers :
        \/ Edits(w) \/ Looks(w) \/ Records(w)
        \/ (\E chosen \in SUBSET Contacts : ReadPlan(w, chosen))
        \/ ReplacePlan(w) \/ ReplaceTasks(w) \/ Fail(w)
  BY Steps
<1>3. ASSUME NEW k \in TaskIds' \ TaskIds
      PROVE  Owned(targets', into', tasks'[k].target, tasks'[k].case)
  <2>1. CASE ReplaceTasks(w)
    <3>1. /\ Sound(job[w], targets, tasks, into) /\ UNCHANGED <<targets, into>>
      BY <2>1, JobAt DEF ReplaceTasks, book
    <3>2. tasks'[k].case = job[w].case /\ tasks'[k].target \in job[w].items
      BY <1>0, <1>3, <2>1, <3>1, ReplaceEffect
    <3>3. QED
      BY <3>1, <3>2 DEF Sound
  <2>2. CASE ~ReplaceTasks(w)
    <3>1. TaskIds' = TaskIds
      <4>1. CASE UpdateTask(w)
        BY <1>0, <4>1 DEF UpdateTask, TypeOK, TaskIds
      <4>2. CASE UNCHANGED tasks
        BY <4>2 DEF TaskIds
      <4>3. QED
        BY <1>2, <2>2, <4>1, <4>2 DEF Edits, Looks, Records, CreateCase, AddReports,
          UpdateCaseStatus, MergeCases, GetCase, InsertCase, AttachCluster, Enrich,
          GetCaseDetail, LoadExistingKeys, UpsertTargets, GetActivePlan, RecordOutcome,
          InsertOutcome, Remember, ReadPlan, ReplacePlan, Fail, calls
    <3>2. QED
      BY <1>3, <3>1
  <2>3. QED
    BY <2>1, <2>2
<1>4. \A k \in TaskIds' : Owned(targets', into', tasks'[k].target, tasks'[k].case)
  BY <1>1, <1>3
<1>5. QED
  BY <1>4 DEF TaskInv

\* Two pending tasks about one contact of one case.
Doubled(k, l, ts, tg) ==
  /\ ts[k].case = ts[l].case
  /\ ts[k].status = "pending" /\ ts[l].status = "pending"
  /\ tg[ts[k].target].who = tg[ts[l].target].who

LEMMA PendingStep ==
  ASSUME Inv, Next
  PROVE  OnePendingPerContact'
<1>0. TypeOK /\ Keeps /\ TasksKept
  BY NextKeeps DEF Inv
<1>1. PICK w \in Workers :
        \/ Edits(w) \/ Looks(w) \/ Records(w)
        \/ (\E chosen \in SUBSET Contacts : ReadPlan(w, chosen))
        \/ ReplacePlan(w) \/ ReplaceTasks(w) \/ Fail(w)
  BY Steps
<1>2. \A k \in TaskIds : /\ tasks'[k].case = tasks[k].case
                         /\ tasks'[k].target = tasks[k].target
                         /\ targets'[tasks[k].target].who = targets[tasks[k].target].who
  <2>1. \A k \in TaskIds : tasks[k].target \in TargetIds
    <3>1. \A k \in TaskIds : tasks[k] \in Task
      BY <1>0, Indices DEF TypeOK, TaskIds
    <3>2. QED
      BY <3>1 DEF Task
  <2>2. QED
    BY <1>0, <2>1 DEF TasksKept, Keeps
<1>3. \A k, l \in TaskIds : Doubled(k, l, tasks, targets) => k = l
  BY DEF Inv, OnePendingPerContact, Doubled
<1>4. ASSUME \A k \in TaskIds : tasks'[k].status = "pending" => tasks[k].status = "pending"
      PROVE  \A k, l \in TaskIds : Doubled(k, l, tasks', targets') => k = l
  BY <1>2, <1>3, <1>4 DEF Doubled
<1>5. CASE ReplaceTasks(w)
  <2>0. Sound(job[w], targets, tasks, into) /\ job[w] \in Job
    BY JobAt
  <2>1. /\ \A k \in TaskIds' \ TaskIds :
             tasks'[k].case = job[w].case /\ tasks'[k].target \in job[w].items
        /\ \A k, l \in TaskIds' \ TaskIds : tasks'[k].target = tasks'[l].target => k = l
        /\ \A k \in TaskIds : tasks'[k].status = "pending" =>
             tasks[k].status = "pending" /\ tasks[k].case # job[w].case
    BY <1>0, <1>5, <2>0, ReplaceEffect
  <2>2. \A k, l \in TaskIds : Doubled(k, l, tasks', targets') => k = l
    BY <1>4, <2>1
  <2>3. ASSUME NEW k \in TaskIds' \ TaskIds, NEW l \in TaskIds' \ TaskIds,
               Doubled(k, l, tasks', targets')
        PROVE  k = l
    <3>1. tasks'[k].target \in job[w].items /\ tasks'[l].target \in job[w].items
      BY <2>1
    <3>2. targets'[tasks'[k].target].who = targets'[tasks'[l].target].who
      BY <2>3 DEF Doubled
    <3>3. UNCHANGED targets
      BY <1>5 DEF ReplaceTasks, book
    <3>4. tasks'[k].target = tasks'[l].target
      BY <2>0, <3>1, <3>2, <3>3 DEF Sound
    <3>5. QED
      BY <2>1, <3>4
  <2>4. ASSUME NEW k \in TaskIds, NEW l \in TaskIds' \ TaskIds
        PROVE  ~Doubled(k, l, tasks', targets') /\ ~Doubled(l, k, tasks', targets')
    BY <1>2, <2>1 DEF Doubled
  <2>5. \A k, l \in TaskIds' : Doubled(k, l, tasks', targets') => k = l
    BY <2>2, <2>3, <2>4
  <2>6. QED
    BY <2>5 DEF OnePendingPerContact, Doubled
<1>6. CASE ~ReplaceTasks(w)
  <2>1. /\ TaskIds' = TaskIds
        /\ \A k \in TaskIds : tasks'[k].status = "pending" => tasks[k].status = "pending"
    <3>1. CASE UpdateTask(w)
      <4>1. CASE UNCHANGED tasks
        BY <4>1 DEF TaskIds
      <4>2. CASE tasks' = [tasks EXCEPT ![job[w].task].status = "completed"]
        <5>1. tasks \in [TaskIds -> Task]
          <6>1. tasks \in Seq(Task)
            BY <1>0 DEF TypeOK
          <6>2. QED
            BY <6>1, Indices DEF TaskIds
        <5>2. TaskIds' = TaskIds
          BY <4>2, <5>1 DEF TaskIds
        <5>3. ASSUME NEW k \in TaskIds, tasks'[k].status = "pending"
              PROVE  tasks[k].status = "pending"
          <6>1. CASE k = job[w].task
            <7>1. tasks'[k] = [tasks[k] EXCEPT !.status = "completed"] /\ tasks[k] \in Task
              BY <4>2, <5>1, <6>1
            <7>2. tasks'[k].status = "completed"
              BY <7>1 DEF Task
            <7>3. QED
              BY <5>3, <7>2
          <6>2. CASE k # job[w].task
            BY <4>2, <5>1, <5>3, <6>2
          <6>3. QED
            BY <6>1, <6>2
        <5>4. QED
          BY <5>2, <5>3
      <4>3. QED
        BY <3>1, <4>1, <4>2 DEF UpdateTask
    <3>2. CASE UNCHANGED tasks
      BY <3>2 DEF TaskIds
    <3>3. QED
      BY <1>1, <1>6, <3>1, <3>2 DEF Edits, Looks, Records, CreateCase, AddReports,
        UpdateCaseStatus, MergeCases, GetCase, InsertCase, AttachCluster, Enrich,
        GetCaseDetail, LoadExistingKeys, UpsertTargets, GetActivePlan, RecordOutcome,
        InsertOutcome, Remember, ReadPlan, ReplacePlan, Fail, calls
  <2>2. \A k, l \in TaskIds' : Doubled(k, l, tasks', targets') => k = l
    BY <1>4, <2>1
  <2>3. QED
    BY <2>2 DEF OnePendingPerContact, Doubled
<1>7. QED
  BY <1>5, <1>6

LEMMA OutcomeStep ==
  ASSUME Inv, Next
  PROVE  OutcomeHasTask'
<1>0. TypeOK /\ TasksKept
  BY NextKeeps DEF Inv
<1>1. PICK w \in Workers :
        \/ Edits(w) \/ Looks(w) \/ Records(w)
        \/ (\E chosen \in SUBSET Contacts : ReadPlan(w, chosen))
        \/ ReplacePlan(w) \/ ReplaceTasks(w) \/ Fail(w)
  BY Steps
<1>2. \A k \in told : tasks[k].status = "completed" /\ k \in TaskIds
  BY <1>0 DEF Inv, OutcomeHasTask, TypeOK
<1>3. \A k \in told : tasks'[k].status = "completed"
  BY <1>0, <1>2 DEF TasksKept
<1>4. CASE InsertOutcome(w)
  <2>1. /\ told' = told \cup {job[w].task}
        /\ UNCHANGED tasks
        /\ tasks[job[w].task].status = "completed"
    BY <1>4, JobAt DEF InsertOutcome, At, calls, Sound
  <2>2. QED
    BY <1>3, <2>1 DEF OutcomeHasTask
<1>5. CASE UNCHANGED told
  BY <1>3, <1>5 DEF OutcomeHasTask
<1>6. QED
  BY <1>1, <1>4, <1>5 DEF Edits, Looks, Records, CreateCase, AddReports, UpdateCaseStatus,
    MergeCases, GetCase, InsertCase, AttachCluster, Enrich, GetCaseDetail, LoadExistingKeys,
    UpsertTargets, GetActivePlan, RecordOutcome, UpdateTask, Remember, ReadPlan, ReplacePlan,
    ReplaceTasks, Fail, memory

-----------------------------------------------------------------------------
(* The invariant, and what follows from it. *)

LEMMA InvInit == Init => Inv
<1> SUFFICES ASSUME Init PROVE Inv
  OBVIOUS
<1>1. targets = <<>> /\ plans = <<>> /\ tasks = <<>> /\ told = {}
  BY DEF Init
<1>2. TargetIds = {} /\ PlanIds = {} /\ TaskIds = {}
  BY <1>1 DEF TargetIds, PlanIds, TaskIds
<1>3. targets \in Seq(Target) /\ plans \in Seq(Plan) /\ tasks \in Seq(Task)
  BY <1>1
<1>4. TypeOK
  BY <1>3, IdleSound, ConstantsAssumption DEF Init, TypeOK
<1>5. JobInv /\ FillInv
  BY IdleSound DEF Init, JobInv, FillInv
<1>6. PlanInv /\ DistinctInv /\ TaskInv /\ OnePendingPerContact /\ OutcomeHasTask
  BY <1>1, <1>2 DEF PlanInv, DistinctInv, TaskInv, OnePendingPerContact, OutcomeHasTask
<1>7. QED
  BY <1>4, <1>5, <1>6 DEF Inv

LEMMA Still ==
  ASSUME Inv, UNCHANGED vars
  PROVE  Inv'
<1>1. UNCHANGED <<status, into, links, targets, plans, tasks, told, cooling, job, requests>>
  BY DEF vars, book, calls, memory
<1>2. TypeOK'
  BY <1>1 DEF Inv, TypeOK, Job, Plan, Task, Target, TargetIds, PlanIds, TaskIds
<1>3. QED
  BY <1>1, <1>2 DEF Inv, JobInv, FillInv, PlanInv, DistinctInv, TaskInv,
    OnePendingPerContact, OutcomeHasTask, PlanIds, TaskIds

LEMMA Inductive == Spec => []Inv
<1>1. Inv /\ [Next]_vars => Inv'
  BY TypeStep, JobStep, PlanStep, DistinctStep, TaskStep, PendingStep, OutcomeStep, Still DEF Inv
<1>2. QED
  BY <1>1, InvInit, PTL DEF Spec

\* Every variable keeps its type.
THEOREM TypeCorrect == Spec => []TypeOK
<1>1. Inv => TypeOK
  BY DEF Inv
<1>2. QED
  BY <1>1, Inductive, PTL

\* What a case plans and has to do is about its own contacts, unless it was merged.
THEOREM OwnTargets == Spec => []OwnTargetsOnly
<1>1. Inv => OwnTargetsOnly
  BY DEF Inv, PlanInv, TaskInv, OwnTargetsOnly, Owned
<1>2. QED
  BY <1>1, Inductive, PTL

\* No two pending tasks of a case are about one contact.
THEOREM OnePending == Spec => []OnePendingPerContact
<1>1. Inv => OnePendingPerContact
  BY DEF Inv
<1>2. QED
  BY <1>1, Inductive, PTL

\* Outcomes are of tasks that were completed.
THEOREM OutcomeTask == Spec => []OutcomeHasTask
<1>1. Inv => OutcomeHasTask
  BY DEF Inv
<1>2. QED
  BY <1>1, Inductive, PTL
=============================================================================
