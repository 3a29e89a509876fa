--------------------------- MODULE FetchersProofs ---------------------------
(***************************************************************************)
(* What holds of Fetchers for any fetchers, caps, workers and clock: no    *)
(* minute and no day is charged beyond a cap its fetcher has had, and      *)
(* nobody is served who was not let in.                                    *)
(***************************************************************************)
EXTENDS Fetchers, TLAPS

\* The steps of a registration, and of a submission.
Registering == {"inserting", "holding", "keying"}
Submitting == {"admitted", "stamped", "minuteLocked", "locked"}

\* Whoever serves a request serves it for a fetcher, with caps that the fetcher has
\* had.
Named == \A w \in Workers : job[w].step # "idle" => job[w].fetcher \in Fetchers

CapsHad == \A f \in Fetchers : caps[f] \in hadCaps[f]

GivenHad == \A w \in Workers :
  job[w].step \in Submitting => job[w].caps \in hadCaps[job[w].fetcher]

\* A row of a minute, and of a day, is held by one transaction at most.
MinuteAlone == \A v, w \in Workers :
  HoldsMinute(v, job[w].fetcher, job[w].at) /\ job[w].step \in {"minuteLocked", "locked"}
    => v = w

DayAlone == \A v, w \in Workers :
  HoldsDay(v, job[w].fetcher, DayOf(job[w].at)) /\ job[w].step = "locked" => v = w

\* What a transaction that holds its rows has read is what they hold.
Fresh == \A w \in Workers : job[w].step = "locked" =>
  /\ job[w].minuteUsed = minutes[job[w].fetcher][job[w].at]
  /\ job[w].dayUsed = days[job[w].fetcher][DayOf(job[w].at)]

QuotaInv ==
  /\ TypeOK
  /\ Named
  /\ CapsHad
  /\ GivenHad
  /\ MinuteAlone
  /\ DayAlone
  /\ Fresh
  /\ QuotaHeld

\* A fetcher without a row has no key; one request registers it; it has no key
\* before the last step, and is pending then unless an operator said otherwise.
NoRowNoKey == \A f \in Fetchers : status[f] = "none" => key[f] = "none"

RegistersAlone == \A v, w \in Workers :
  /\ job[v].step \in Registering
  /\ job[w].step \in Registering
  /\ job[v].fetcher = job[w].fetcher
  => v = w

Half == \A w \in Workers : job[w].step \in Registering =>
  /\ key[job[w].fetcher] = "none"
  /\ job[w].step = "inserting" <=> status[job[w].fetcher] = "none"

HeldBack == \A w \in Workers :
  job[w].step = "keying" /\ status[job[w].fetcher] = "active"
    => job[w].fetcher \in letIn

\* Only a fetcher with a row asks to be promoted.
HasRow ==
  /\ \A f \in Fetchers : pending[f] > 0 => status[f] # "none"
  /\ \A w \in Workers :
       job[w].step = "requesting" => status[job[w].fetcher] # "none"

Invited == \A f \in Fetchers : Authenticated(f) => f \in letIn

InvitedInv ==
  /\ TypeOK
  /\ Named
  /\ NoRowNoKey
  /\ RegistersAlone
  /\ Half
  /\ HeldBack
  /\ HasRow
  /\ Invited

-----------------------------------------------------------------------------
(* Types. *)

LEMMA DayInRange ==
  ASSUME NEW t \in Minutes
  PROVE  DayOf(t) \in 0..DayOf(LastMinute)
<1>1. t \in Nat /\ LastMinute \in Nat /\ Day \in Nat \ {0} /\ t <= LastMinute
  BY ConstantsAssumption DEF Minutes
<1>2. \A a, b \in Nat, d \in Nat \ {0} : a <= b => a \div d \in Nat /\ a \div d <= b \div d
  OBVIOUS
<1> QED BY <1>1, <1>2 DEF DayOf

\* What a step does to the request of a worker leaves a request.
LEMMA Steered ==
  ASSUME NEW j \in Jobs, NEW step \in Steps
  PROVE  [j EXCEPT !.step = step] \in Jobs
BY DEF Jobs

LEMMA GoesTyped ==
  ASSUME TypeOK, NEW w \in Workers, NEW step \in Steps, Goes(w, step)
  PROVE  job' \in [Workers -> Jobs]
BY Steered DEF TypeOK, Goes

LEMMA BeginsTyped ==
  ASSUME TypeOK, NEW w \in Workers, NEW f \in Fetchers, NEW step \in Steps, Begins(w, step, f)
  PROVE  job' \in [Workers -> Jobs]
<1>1. \A j \in Jobs : [j EXCEPT !.step = step, !.fetcher = f] \in Jobs
  BY DEF Jobs
<1>2. job' = [job EXCEPT ![w] = [job[w] EXCEPT !.step = step, !.fetcher = f]]
  BY DEF Begins, TypeOK
<1> QED BY <1>1, <1>2 DEF TypeOK

LEMMA Reads ==
  ASSUME TypeOK, Named, NEW w \in Workers, job[w].step = "minuteLocked", ReadUsage(w)
  PROVE  job' \in [Workers -> Jobs]
<1>1. job[w].fetcher \in Fetchers /\ job[w].at \in Minutes
  BY DEF Named, TypeOK, Jobs
<1>2. PICK m \in Nat : m = minutes[job[w].fetcher][job[w].at]
  BY <1>1 DEF TypeOK
<1>3. PICK d \in Nat : d = days[job[w].fetcher][DayOf(job[w].at)]
  BY <1>1, DayInRange DEF TypeOK
<1>4. \A j \in Jobs : [j EXCEPT !.step = "locked", !.minuteUsed = m, !.dayUsed = d] \in Jobs
  BY DEF Jobs, Steps
<1>5. job' = [job EXCEPT ![w] =
        [job[w] EXCEPT !.step = "locked", !.minuteUsed = m, !.dayUsed = d]]
  BY <1>2, <1>3 DEF ReadUsage, TypeOK
<1> QED BY <1>4, <1>5 DEF TypeOK

\* One bucket of a table of buckets is raised.
LEMMA RaisedTyped ==
  ASSUME NEW R, NEW C, NEW u \in [R -> [C -> Nat]], NEW r \in R, NEW c \in C, NEW n \in Nat
  PROVE  [u EXCEPT ![r][c] = @ + n] \in [R -> [C -> Nat]]
<1>1. u[r] \in [C -> Nat] /\ u[r][c] + n \in Nat
  OBVIOUS
<1>2. [u[r] EXCEPT ![c] = @ + n] \in [C -> Nat]
  BY <1>1
<1> QED BY <1>2

\* Only that bucket is.
LEMMA RaisedOnly ==
  ASSUME NEW R, NEW C, NEW u \in [R -> [C -> Nat]], NEW r \in R, NEW c \in C, NEW n \in Nat,
         NEW q \in R, NEW e \in C
  PROVE  [u EXCEPT ![r][c] = @ + n][q][e] =
           IF q = r /\ e = c THEN u[q][e] + n ELSE u[q][e]
OBVIOUS

LEMMA NoJobTyped == NoJob \in Jobs
<1>1. 0 \in 0..MaxBatch /\ 0 \in Minutes
  BY ConstantsAssumption DEF Minutes
<1>2. NewCaps \in Caps
  BY ConstantsAssumption DEF NewCaps, Caps
<1> QED BY <1>1, <1>2 DEF NoJob, Jobs, Steps

LEMMA EndsTyped ==
  ASSUME TypeOK, NEW w \in Workers, Ends(w)
  PROVE  job' \in [Workers -> Jobs]
BY NoJobTyped DEF TypeOK, Ends

LEMMA TypeInit == Init => TypeOK
<1> SUFFICES ASSUME Init PROVE TypeOK
  OBVIOUS
<1>1. 0 \in Minutes /\ 0 \in 0..MaxRegistrations /\ 0 \in 0..MaxActs /\ 0 \in 0..MaxFaults
  BY ConstantsAssumption DEF Minutes
<1>2. NewCaps \in Caps
  BY ConstantsAssumption DEF NewCaps, Caps
<1>3. window \in [start : Minutes, count : 0..MaxRegistrations]
  BY <1>1 DEF Init, NoWindow
<1>4. job \in [Workers -> Jobs]
  BY NoJobTyped DEF Init
<1>5. /\ status \in [Fetchers -> Statuses]
      /\ key \in [Fetchers -> {"none", "active", "revoked"}]
      /\ pending \in [Fetchers -> Nat]
  BY DEF Init, Statuses
<1>6. /\ minutes \in [Fetchers -> [Minutes -> Nat]]
      /\ days \in [Fetchers -> [0..DayOf(LastMinute) -> Nat]]
  BY DEF Init
<1>7. caps \in [Fetchers -> Caps] /\ hadCaps \in [Fetchers -> SUBSET Caps]
  BY <1>2 DEF Init
<1>8. letIn \subseteq Fetchers
  BY ConstantsAssumption DEF Init
<1> QED BY <1>1, <1>3, <1>4, <1>5, <1>6, <1>7, <1>8 DEF TypeOK, Init

LEMMA TypeStep == TypeOK /\ Named /\ [Next]_vars => TypeOK'
<1> SUFFICES ASSUME TypeOK, Named, [Next]_vars PROVE TypeOK'
  OBVIOUS
<1> USE DEF fetcher, usage, history
<1>1. CASE UNCHANGED vars
  BY <1>1 DEF TypeOK, vars
<1>2. ASSUME NEW w \in Workers, Register(w) PROVE TypeOK'
  <2>1. job' \in [Workers -> Jobs]
    <3>1. PICK f \in Fetchers : Begins(w, "inserting", f)
      BY <1>2 DEF Register
    <3> QED BY <3>1, BeginsTyped DEF Steps
  <2>2. Window \in [start : Minutes, count : 0..MaxRegistrations]
    BY ConstantsAssumption DEF Window, TypeOK
  <2>3. window' \in [start : Minutes, count : 0..MaxRegistrations]
    BY <1>2, <2>2, ConstantsAssumption DEF Register
  <2> QED BY <1>2, <2>1, <2>3 DEF Register, TypeOK
<1>3. ASSUME NEW w \in Workers, InsertFetcher(w) PROVE TypeOK'
  <2>1. job' \in [Workers -> Jobs]
    BY <1>3, GoesTyped DEF InsertFetcher, Steps
  <2> QED BY <1>3, <2>1 DEF InsertFetcher, TypeOK, Statuses
<1>4. ASSUME NEW w \in Workers, SetPending(w) PROVE TypeOK'
  <2>1. job' \in [Workers -> Jobs]
    BY <1>4, GoesTyped DEF SetPending, Steps
  <2> QED BY <1>4, <2>1 DEF SetPending, TypeOK, Statuses
<1>5. ASSUME NEW w \in Workers, InsertKey(w) PROVE TypeOK'
  <2>1. job' \in [Workers -> Jobs]
    BY <1>5, EndsTyped DEF InsertKey
  <2> QED BY <1>5, <2>1 DEF InsertKey, TypeOK
<1>6. ASSUME NEW w \in Workers, RequestPromotion(w) PROVE TypeOK'
  <2>1. PICK f \in Fetchers : Begins(w, "requesting", f)
    BY <1>6 DEF RequestPromotion
  <2>2. job' \in [Workers -> Jobs]
    BY <2>1, BeginsTyped DEF Steps
  <2> QED BY <1>6, <2>2 DEF RequestPromotion, TypeOK
<1>7. ASSUME NEW w \in Workers, InsertRequest(w) PROVE TypeOK'
  <2>1. job' \in [Workers -> Jobs]
    BY <1>7, EndsTyped DEF InsertRequest
  <2>2. pending' \in [Fetchers -> Nat]
    BY <1>7 DEF InsertRequest, TypeOK, Named
  <2> QED BY <1>7, <2>1, <2>2 DEF InsertRequest, TypeOK
<1>8. ASSUME NEW w \in Workers, Submit(w) PROVE TypeOK'
  <2>1. PICK f \in Provisioned, n \in 1..MaxBatch :
          job' = [job EXCEPT ![w].step = "admitted", ![w].fetcher = f,
                             ![w].items = n, ![w].caps = caps[f]]
    BY <1>8 DEF Submit
  <2>2. f \in Fetchers /\ n \in 0..MaxBatch /\ caps[f] \in Caps
    BY ConstantsAssumption DEF TypeOK
  <2>3. \A j \in Jobs :
          [j EXCEPT !.step = "admitted", !.fetcher = f, !.items = n, !.caps = caps[f]]
            \in Jobs
    BY <2>2 DEF Jobs, Steps
  <2>4. job' = [job EXCEPT ![w] =
          [job[w] EXCEPT !.step = "admitted", !.fetcher = f, !.items = n, !.caps = caps[f]]]
    BY <2>1 DEF TypeOK
  <2>5. job' \in [Workers -> Jobs]
    BY <2>3, <2>4 DEF TypeOK
  <2> QED BY <1>8, <2>5 DEF Submit, TypeOK
<1>9. ASSUME NEW w \in Workers, Stamp(w) PROVE TypeOK'
  <2>1. \A j \in Jobs : [j EXCEPT !.step = "stamped", !.at = now] \in Jobs
    BY DEF Jobs, Steps, TypeOK
  <2>2. job' = [job EXCEPT ![w] = [job[w] EXCEPT !.step = "stamped", !.at = now]]
    BY <1>9 DEF Stamp, TypeOK
  <2>3. job' \in [Workers -> Jobs]
    BY <2>1, <2>2 DEF TypeOK
  <2> QED BY <1>9, <2>3 DEF Stamp, TypeOK
<1>10. ASSUME NEW w \in Workers, LockMinute(w) PROVE TypeOK'
  <2>1. job' \in [Workers -> Jobs]
    BY <1>10, GoesTyped DEF LockMinute, Steps
  <2> QED BY <1>10, <2>1 DEF LockMinute, TypeOK
<1>11. ASSUME NEW w \in Workers, LockDay(w) PROVE TypeOK'
  <2>1. job' \in [Workers -> Jobs]
    BY <1>11, Reads DEF LockDay
  <2> QED BY <1>11, <2>1 DEF LockDay, TypeOK
<1>12. ASSUME NEW w \in Workers, Charge(w) PROVE TypeOK'
  <2>1. job' \in [Workers -> Jobs]
    BY <1>12, EndsTyped DEF Charge
  <2>2. PICK f \in Fetchers, t \in Minutes, n \in Nat :
          /\ f = job[w].fetcher /\ t = job[w].at /\ n = job[w].items
    BY <1>12, ConstantsAssumption DEF Charge, Named, TypeOK, Jobs
  <2>3. /\ minutes' = [minutes EXCEPT ![f][t] = @ + n]
        /\ days' = [days EXCEPT ![f][DayOf(t)] = @ + n]
    BY <1>12, <2>2 DEF Charge
  <2>4. minutes' \in [Fetchers -> [Minutes -> Nat]]
    BY <2>3, RaisedTyped DEF TypeOK
  <2>5. days' \in [Fetchers -> [0..DayOf(LastMinute) -> Nat]]
    BY <2>3, RaisedTyped, DayInRange DEF TypeOK
  <2> QED BY <1>12, <2>1, <2>4, <2>5 DEF Charge, TypeOK
<1>13. ASSUME NEW w \in Workers, Refuse(w) PROVE TypeOK'
  <2>1. job' \in [Workers -> Jobs]
    BY <1>13, EndsTyped DEF Refuse
  <2> QED BY <1>13, <2>1 DEF Refuse, TypeOK
<1>14. ASSUME NEW w \in Workers, Fail(w) PROVE TypeOK'
  <2>1. job' \in [Workers -> Jobs]
    BY <1>14, EndsTyped DEF Fail, AfterFailure
  <2>2. faults' \in 0..MaxFaults
    BY <1>14, ConstantsAssumption DEF Fail, Happens, TypeOK
  <2> QED BY <1>14, <2>1, <2>2 DEF Fail, TypeOK
<1>15. ASSUME NEW f \in Fetchers, Decide(f) PROVE TypeOK'
  <2>1. acts' \in 0..MaxActs
    BY <1>15, ConstantsAssumption DEF Decide, Acts, TypeOK
  <2>2. pending' \in [Fetchers -> Nat]
    BY <1>15 DEF Decide, TypeOK
  <2>3. Keeps \/ Rules(f)
    BY <1>15 DEF Decide
  <2>4. status' \in [Fetchers -> Statuses] /\ letIn' \subseteq Fetchers
    BY <2>3 DEF Keeps, Rules, TypeOK, Statuses
  <2>5. caps' \in [Fetchers -> Caps] /\ hadCaps' \in [Fetchers -> SUBSET Caps]
    <3>1. CASE UNCHANGED <<caps, hadCaps>>
      BY <3>1 DEF TypeOK
    <3>2. ASSUME NEW m \in MinuteCaps \cup {caps[f].minute},
                 NEW d \in DayCaps \cup {caps[f].day},
                 caps' = [caps EXCEPT ![f] = [minute |-> m, day |-> d]],
                 hadCaps' = [hadCaps EXCEPT ![f] = @ \cup {[minute |-> m, day |-> d]}]
          PROVE  caps' \in [Fetchers -> Caps] /\ hadCaps' \in [Fetchers -> SUBSET Caps]
      <4>1. [minute |-> m, day |-> d] \in Caps
        BY DEF TypeOK, Caps
      <4> QED BY <3>2, <4>1 DEF TypeOK
    <3> QED BY <1>15, <3>1, <3>2 DEF Decide
  <2> QED BY <1>15, <2>1, <2>2, <2>4, <2>5 DEF Decide, TypeOK
<1>16. ASSUME NEW f \in Fetchers, Suspend(f) PROVE TypeOK'
  <2>1. acts' \in 0..MaxActs
    BY <1>16, ConstantsAssumption DEF Suspend, Acts, TypeOK
  <2>2. status' \in [Fetchers -> Statuses] /\ letIn' \subseteq Fetchers
    BY <1>16 DEF Suspend, Rules, TypeOK, Statuses
  <2> QED BY <1>16, <2>1, <2>2 DEF Suspend, TypeOK
<1>17. ASSUME NEW f \in Fetchers, Revoke(f) PROVE TypeOK'
  <2>1. acts' \in 0..MaxActs
    BY <1>17, ConstantsAssumption DEF Revoke, Acts, TypeOK
  <2> QED BY <1>17, <2>1 DEF Revoke, TypeOK
<1>18. CASE Tick
  <2>1. now' \in Minutes
    BY <1>18, ConstantsAssumption DEF Tick, TypeOK, Minutes
  <2> QED BY <1>18, <2>1 DEF Tick, TypeOK
<1>19. CASE Crash
  <2>1. window' \in [start : Minutes, count : 0..MaxRegistrations]
    BY <1>19, ConstantsAssumption DEF Crash, NoWindow, Minutes
  <2>2. job' \in [Workers -> Jobs]
    BY <1>19, NoJobTyped DEF Crash
  <2>3. faults' \in 0..MaxFaults
    BY <1>19, ConstantsAssumption DEF Crash, Happens, TypeOK
  <2> QED BY <1>19, <2>1, <2>2, <2>3 DEF Crash, TypeOK
<1> QED
  BY <1>1, <1>2, <1>3, <1>4, <1>5, <1>6, <1>7, <1>8, <1>9, <1>10, <1>11, <1>12, <1>13,
     <1>14, <1>15, <1>16, <1>17, <1>18, <1>19
     DEF Next, Registers, Asks, Waits, Consumes, Operator

\* What is left of a request after a step of it.
LEMMA Went ==
  ASSUME TypeOK, NEW w \in Workers, NEW step, Goes(w, step)
  PROVE  /\ job'[w].step = step
         /\ job'[w].fetcher = job[w].fetcher
         /\ job'[w].items = job[w].items
         /\ job'[w].caps = job[w].caps
         /\ job'[w].at = job[w].at
         /\ \A v \in Workers : v # w => job'[v] = job[v]
<1>1. job[w] \in Jobs /\ DOMAIN job = Workers
  BY DEF TypeOK
<1>2. job'[w] = [job[w] EXCEPT !.step = step]
  BY <1>1 DEF Goes
<1>3. \A v \in Workers : v # w => job'[v] = job[v]
  BY <1>1 DEF Goes
<1> QED BY <1>1, <1>2, <1>3 DEF Jobs

LEMMA Began ==
  ASSUME TypeOK, NEW w \in Workers, NEW step, NEW f, Begins(w, step, f)
  PROVE  /\ job'[w].step = step
         /\ job'[w].fetcher = f
         /\ \A v \in Workers : v # w => job'[v] = job[v]
<1>1. job[w] \in Jobs /\ DOMAIN job = Workers
  BY DEF TypeOK
<1>2. job'[w] = [job[w] EXCEPT !.step = step, !.fetcher = f]
  BY <1>1 DEF Begins
<1>3. \A v \in Workers : v # w => job'[v] = job[v]
  BY <1>1 DEF Begins
<1> QED BY <1>1, <1>2, <1>3 DEF Jobs

LEMMA Ended ==
  ASSUME TypeOK, NEW w \in Workers, Ends(w)
  PROVE  /\ job'[w].step = "idle"
         /\ \A v \in Workers : v # w => job'[v] = job[v]
BY DEF TypeOK, Ends, NoJob

LEMMA Submitted ==
  ASSUME TypeOK, NEW w \in Workers, Submit(w)
  PROVE  \E f \in Provisioned :
           /\ Authenticated(f)
           /\ job'[w].step = "admitted"
           /\ job'[w].fetcher = f
           /\ job'[w].caps = caps[f]
           /\ \A v \in Workers : v # w => job'[v] = job[v]
<1>1. PICK f \in Provisioned, n \in 1..MaxBatch :
        /\ Authenticated(f)
        /\ job' = [job EXCEPT ![w].step = "admitted", ![w].fetcher = f,
                              ![w].items = n, ![w].caps = caps[f]]
  BY DEF Submit
<1>2. job[w] \in Jobs /\ DOMAIN job = Workers
  BY DEF TypeOK
<1>3. job'[w] =
        [job[w] EXCEPT !.step = "admitted", !.fetcher = f, !.items = n, !.caps = caps[f]]
  BY <1>1, <1>2
<1>4. \A v \in Workers : v # w => job'[v] = job[v]
  BY <1>1, <1>2
<1>5. /\ job'[w].step = "admitted"
      /\ job'[w].fetcher = f
      /\ job'[w].caps = caps[f]
  BY <1>2, <1>3 DEF Jobs
<1> QED BY <1>1, <1>4, <1>5

LEMMA Stamped ==
  ASSUME TypeOK, NEW w \in Workers, Stamp(w)
  PROVE  /\ job[w].step = "admitted"
         /\ job'[w].step = "stamped"
         /\ job'[w].fetcher = job[w].fetcher
         /\ job'[w].caps = job[w].caps
         /\ \A v \in Workers : v # w => job'[v] = job[v]
<1>1. job[w] \in Jobs /\ DOMAIN job = Workers
  BY DEF TypeOK
<1>2. job'[w] = [job[w] EXCEPT !.step = "stamped", !.at = now]
  BY <1>1 DEF Stamp
<1>3. \A v \in Workers : v # w => job'[v] = job[v]
  BY <1>1 DEF Stamp
<1> QED BY <1>1, <1>2, <1>3 DEF Jobs, Stamp

LEMMA HasRead ==
  ASSUME TypeOK, NEW w \in Workers, ReadUsage(w)
  PROVE  /\ job'[w].step = "locked"
         /\ job'[w].fetcher = job[w].fetcher
         /\ job'[w].items = job[w].items
         /\ job'[w].caps = job[w].caps
         /\ job'[w].at = job[w].at
         /\ job'[w].minuteUsed = minutes[job[w].fetcher][job[w].at]
         /\ job'[w].dayUsed = days[job[w].fetcher][DayOf(job[w].at)]
         /\ \A v \in Workers : v # w => job'[v] = job[v]
<1>1. job[w] \in Jobs /\ DOMAIN job = Workers
  BY DEF TypeOK
<1>2. \E m, d :
        /\ m = minutes[job[w].fetcher][job[w].at]
        /\ d = days[job[w].fetcher][DayOf(job[w].at)]
        /\ job' = [job EXCEPT ![w].step = "locked", ![w].minuteUsed = m, ![w].dayUsed = d]
  BY DEF ReadUsage
<1>3. PICK m, d :
        /\ m = minutes[job[w].fetcher][job[w].at]
        /\ d = days[job[w].fetcher][DayOf(job[w].at)]
        /\ job' = [job EXCEPT ![w].step = "locked", ![w].minuteUsed = m, ![w].dayUsed = d]
  BY <1>2
<1>4. job'[w] = [job[w] EXCEPT !.step = "locked", !.minuteUsed = m, !.dayUsed = d]
  BY <1>1, <1>3
<1>5. \A v \in Workers : v # w => job'[v] = job[v]
  BY <1>1, <1>3
<1> QED BY <1>1, <1>3, <1>4, <1>5 DEF Jobs

\* A step of a worker is no step of another.
LEMMA Elsewhere ==
  ASSUME TypeOK, NEW w \in Workers,
         Registers(w) \/ Asks(w) \/ Consumes(w) \/ Fail(w),
         NEW v \in Workers, v # w
  PROVE  job'[v] = job[v]
<1>1. CASE Registers(w)
  BY <1>1, Went, Began, Ended DEF Registers, Register, InsertFetcher, SetPending, InsertKey
<1>2. CASE Asks(w)
  BY <1>2, Began, Ended DEF Asks, RequestPromotion, InsertRequest
<1>3. CASE Consumes(w)
  BY <1>3, Went, Ended, Submitted, Stamped, HasRead
     DEF Consumes, Waits, LockMinute, LockDay, Charge, Refuse
<1>4. CASE Fail(w)
  BY <1>4, Ended DEF Fail, AfterFailure
<1> QED BY <1>1, <1>2, <1>3, <1>4

\* Whoever works for a fetcher goes on to work for it, or ends; and a request that
\* starts, starts for a fetcher.
LEMMA NamedStep == TypeOK /\ Named /\ [Next]_vars => Named'
<1> SUFFICES ASSUME TypeOK, Named, [Next]_vars, NEW v \in Workers, job'[v].step # "idle"
             PROVE  job'[v].fetcher \in Fetchers
  BY DEF Named
<1>1. ASSUME NEW w \in Workers, Registers(w) \/ Asks(w) \/ Consumes(w) \/ Fail(w)
      PROVE  job'[v].fetcher \in Fetchers
  <2>1. CASE v # w
    BY <1>1, <2>1, Elsewhere DEF Named
  <2>2. CASE v = w
    <3>1. CASE Registers(w)
      BY <2>2, <3>1, Went, Began, Ended
         DEF Named, Registers, Register, InsertFetcher, SetPending, InsertKey
    <3>2. CASE Asks(w)
      BY <2>2, <3>2, Began, Ended DEF Asks, RequestPromotion, InsertRequest
    <3>3. CASE Consumes(w)
      <4>1. CASE Submit(w)
        BY <2>2, <4>1, Submitted, ConstantsAssumption
      <4>2. CASE Stamp(w)
        BY <2>2, <4>2, Stamped DEF Named
      <4>3. CASE LockMinute(w)
        BY <2>2, <4>3, Went DEF Named, LockMinute
      <4>4. CASE LockDay(w)
        BY <2>2, <4>4, HasRead DEF Named, LockDay
      <4>5. CASE Charge(w) \/ Refuse(w)
        BY <2>2, <4>5, Ended DEF Charge, Refuse
      <4> QED BY <3>3, <4>1, <4>2, <4>3, <4>4, <4>5 DEF Consumes, Waits
    <3>4. CASE Fail(w)
      BY <2>2, <3>4, Ended DEF Fail, AfterFailure
    <3> QED BY <1>1, <3>1, <3>2, <3>3, <3>4
  <2> QED BY <2>1, <2>2
<1>2. CASE Crash
  BY <1>2 DEF Crash, NoJob
<1>3. CASE UNCHANGED job
  BY <1>3 DEF Named
<1> QED
  BY <1>1, <1>2, <1>3 DEF Next, vars, Operator, Decide, Suspend, Revoke, Tick

\* The type invariant (TypeOK) of whatever report-listener keeps of its fetchers.
THEOREM TypeCorrect == Spec => []TypeOK
<1>1. Init => TypeOK /\ Named
  BY TypeInit DEF Init, Named, NoJob
<1>2. TypeOK /\ Named /\ [Next]_vars => TypeOK' /\ Named'
  BY TypeStep, NamedStep
<1> QED BY <1>1, <1>2, PTL DEF Spec

-----------------------------------------------------------------------------
(* Nobody is served who was not let in. *)

LEMMA InvitedInit == Init => InvitedInv
<1> SUFFICES ASSUME Init PROVE InvitedInv
  OBVIOUS
<1>1. \A w \in Workers : job[w].step = "idle"
  BY DEF Init, NoJob
<1>2. /\ status = [f \in Fetchers |-> IF f \in Provisioned THEN "active" ELSE "none"]
      /\ key = [f \in Fetchers |-> IF f \in Provisioned THEN "active" ELSE "none"]
      /\ letIn = Provisioned
  BY DEF Init
<1>3. \A f \in Fetchers : ~(pending[f] > 0)
  <2>1. pending = [f \in Fetchers |-> 0]
    BY DEF Init
  <2>2. ~(0 > 0)
    OBVIOUS
  <2> QED BY <2>1, <2>2, Zenon
<1>4. NoRowNoKey /\ Invited
  BY <1>2 DEF NoRowNoKey, Invited, Authenticated
<1>5. Named /\ RegistersAlone /\ Half /\ HeldBack
  BY <1>1 DEF Named, RegistersAlone, Half, HeldBack, Registering
<1>6. HasRow
  BY <1>1, <1>3 DEF HasRow
<1> QED BY <1>4, <1>5, <1>6, TypeInit DEF InvitedInv

\* A step that neither rules on a fetcher nor touches a registration changes nothing.
LEMMA InvitedKept ==
  ASSUME InvitedInv, TypeOK', Named', HasRow', UNCHANGED <<status, key, letIn>>,
         \A v \in Workers : job'[v].step \in Registering =>
           job'[v].step = job[v].step /\ job'[v].fetcher = job[v].fetcher
  PROVE  InvitedInv'
<1> USE DEF InvitedInv
<1>1. NoRowNoKey'
  BY DEF NoRowNoKey
<1>2. RegistersAlone'
  BY DEF RegistersAlone
<1>3. Half'
  BY DEF Half
<1>4. HeldBack'
  BY DEF HeldBack, Registering
<1>5. Invited'
  BY DEF Invited, Authenticated
<1> QED BY <1>1, <1>2, <1>3, <1>4, <1>5

\* Neither does a step that gives rows to fetchers, and takes none.
LEMMA HasRowKept ==
  ASSUME HasRow, TypeOK, Named, UNCHANGED pending,
         \A f \in Fetchers : status[f] # "none" => status'[f] # "none",
         \A v \in Workers : job'[v].step = "requesting" => job'[v] = job[v]
  PROVE  HasRow'
BY DEF HasRow, Named

LEMMA InvitedStep == InvitedInv /\ [Next]_vars => InvitedInv'
<1> SUFFICES ASSUME InvitedInv, [Next]_vars PROVE InvitedInv'
  OBVIOUS
<1>0. TypeOK /\ Named /\ TypeOK' /\ Named'
  BY TypeStep, NamedStep DEF InvitedInv
<1> USE DEF fetcher, history
<1>1. CASE UNCHANGED vars
  <2>1. HasRow'
    BY <1>0, <1>1, HasRowKept DEF vars, InvitedInv
  <2> QED BY <1>0, <1>1, <2>1, InvitedKept DEF vars
<1>2. ASSUME NEW w \in Workers, Register(w) PROVE InvitedInv'
  <2>1. PICK f \in Fetchers :
          /\ status[f] = "none"
          /\ \A v \in Workers : job[v].fetcher # f
          /\ Begins(w, "inserting", f)
    BY <1>2 DEF Register
  <2>2. /\ job'[w].step = "inserting"
        /\ job'[w].fetcher = f
        /\ \A v \in Workers : v # w => job'[v] = job[v]
    BY <1>0, <2>1, Began
  <2>3. UNCHANGED <<status, key, letIn>>
    BY <1>2 DEF Register
  <2>4. key[f] = "none"
    BY <2>1 DEF InvitedInv, NoRowNoKey
  <2>5. RegistersAlone'
    BY <2>1, <2>2 DEF InvitedInv, RegistersAlone
  <2>6. Half'
    BY <2>1, <2>2, <2>3, <2>4 DEF InvitedInv, Half
  <2>7. HeldBack'
    BY <2>2, <2>3 DEF InvitedInv, HeldBack
  <2>8. NoRowNoKey' /\ Invited'
    BY <2>3 DEF InvitedInv, NoRowNoKey, Invited, Authenticated
  <2>9. HasRow'
    BY <1>0, <1>2, <2>2, HasRowKept DEF Register, InvitedInv
  <2> QED BY <1>0, <2>5, <2>6, <2>7, <2>8, <2>9 DEF InvitedInv
<1>3. ASSUME NEW w \in Workers, InsertFetcher(w) PROVE InvitedInv'
  <2>1. PICK f \in Fetchers : f = job[w].fetcher
    BY <1>0, <1>3 DEF InsertFetcher, Named
  <2>2. /\ job[w].step = "inserting"
        /\ job'[w].step = "holding"
        /\ job'[w].fetcher = f
        /\ \A v \in Workers : v # w => job'[v] = job[v]
    BY <1>0, <1>3, <2>1, Went DEF InsertFetcher
  <2>3. /\ status' = [status EXCEPT ![f] = "active"]
        /\ UNCHANGED <<key, letIn>>
    BY <1>3, <2>1 DEF InsertFetcher
  <2>4. /\ status'[f] = "active"
        /\ \A g \in Fetchers : g # f => status'[g] = status[g]
    BY <1>0, <2>3 DEF TypeOK
  <2>5. key[f] = "none"
    BY <2>1, <2>2 DEF InvitedInv, Half, Registering
  <2>6. \A v \in Workers : v # w /\ job[v].step \in Registering => job[v].fetcher # f
    BY <2>1, <2>2 DEF InvitedInv, RegistersAlone, Registering
  <2>7. NoRowNoKey'
    BY <2>3, <2>4 DEF InvitedInv, NoRowNoKey
  <2>8. RegistersAlone'
    BY <2>1, <2>2 DEF InvitedInv, RegistersAlone, Registering
  <2>9. Half'
    <3> SUFFICES ASSUME NEW v \in Workers, job'[v].step \in Registering
                 PROVE  /\ key'[job'[v].fetcher] = "none"
                        /\ job'[v].step = "inserting" <=> status'[job'[v].fetcher] = "none"
      BY DEF Half
    <3>1. CASE v = w
      BY <3>1, <2>2, <2>3, <2>4, <2>5
    <3>2. CASE v # w
      <4>1. job'[v] = job[v] /\ job[v].fetcher # f /\ job[v].fetcher \in Fetchers
        BY <1>0, <2>2, <2>6, <3>2 DEF Named, Registering
      <4> QED BY <2>3, <2>4, <4>1 DEF InvitedInv, Half
    <3> QED BY <3>1, <3>2
  <2>10. HeldBack'
    <3> SUFFICES ASSUME NEW v \in Workers, job'[v].step = "keying",
                        status'[job'[v].fetcher] = "active"
                 PROVE  job'[v].fetcher \in letIn'
      BY DEF HeldBack
    <3>1. v # w /\ job'[v] = job[v] /\ job[v].step \in Registering
      BY <2>2 DEF Registering
    <3>2. job[v].fetcher # f /\ job[v].fetcher \in Fetchers
      BY <1>0, <2>6, <3>1 DEF Named, Registering
    <3> QED BY <2>3, <2>4, <3>1, <3>2 DEF InvitedInv, HeldBack
  <2>11. Invited'
    BY <2>3, <2>4, <2>5 DEF InvitedInv, Invited, Authenticated
  <2>12. HasRow'
    BY <1>0, <1>3, <2>2, <2>3, <2>4, HasRowKept DEF InsertFetcher, InvitedInv
  <2> QED BY <1>0, <2>7, <2>8, <2>9, <2>10, <2>11, <2>12 DEF InvitedInv
<1>4. ASSUME NEW w \in Workers, SetPending(w) PROVE InvitedInv'
  <2>1. PICK f \in Fetchers : f = job[w].fetcher
    BY <1>0, <1>4 DEF SetPending, Named
  <2>2. /\ job[w].step = "holding"
        /\ job'[w].step = "keying"
        /\ job'[w].fetcher = f
        /\ \A v \in Workers : v # w => job'[v] = job[v]
    BY <1>0, <1>4, <2>1, Went DEF SetPending
  <2>3. /\ status' = [status EXCEPT ![f] = "pending"]
        /\ UNCHANGED <<key, letIn>>
    BY <1>4, <2>1 DEF SetPending
  <2>4. /\ status'[f] = "pending"
        /\ \A g \in Fetchers : g # f => status'[g] = status[g]
    BY <1>0, <2>3 DEF TypeOK
  <2>5. key[f] = "none"
    BY <2>1, <2>2 DEF InvitedInv, Half, Registering
  <2>6. \A v \in Workers : v # w /\ job[v].step \in Registering => job[v].fetcher # f
    BY <2>1, <2>2 DEF InvitedInv, RegistersAlone, Registering
  <2>7. NoRowNoKey'
    BY <2>3, <2>4 DEF InvitedInv, NoRowNoKey
  <2>8. RegistersAlone'
    BY <2>1, <2>2 DEF InvitedInv, RegistersAlone, Registering
  <2>9. Half'
    <3> SUFFICES ASSUME NEW v \in Workers, job'[v].step \in Registering
                 PROVE  /\ key'[job'[v].fetcher] = "none"
                        /\ job'[v].step = "inserting" <=> status'[job'[v].fetcher] = "none"
      BY DEF Half
    <3>1. CASE v = w
      BY <3>1, <2>2, <2>3, <2>4, <2>5
    <3>2. CASE v # w
      <4>1. job'[v] = job[v] /\ job[v].fetcher # f /\ job[v].fetcher \in Fetchers
        BY <1>0, <2>2, <2>6, <3>2 DEF Named, Registering
      <4> QED BY <2>3, <2>4, <4>1 DEF InvitedInv, Half
    <3> QED BY <3>1, <3>2
  <2>10. HeldBack'
    <3> SUFFICES ASSUME NEW v \in Workers, job'[v].step = "keying",
                        status'[job'[v].fetcher] = "active"
                 PROVE  job'[v].fetcher \in letIn'
      BY DEF HeldBack
    <3>1. v # w /\ job'[v] = job[v] /\ job[v].step \in Registering
      BY <2>2, <2>4 DEF Registering
    <3>2. job[v].fetcher # f /\ job[v].fetcher \in Fetchers
      BY <1>0, <2>6, <3>1 DEF Named, Registering
    <3> QED BY <2>3, <2>4, <3>1, <3>2 DEF InvitedInv, HeldBack
  <2>11. Invited'
    BY <2>3, <2>4, <2>5 DEF InvitedInv, Invited, Authenticated
  <2>12. HasRow'
    BY <1>0, <1>4, <2>2, <2>3, <2>4, HasRowKept DEF SetPending, InvitedInv
  <2> QED BY <1>0, <2>7, <2>8, <2>9, <2>10, <2>11, <2>12 DEF InvitedInv
<1>5. ASSUME NEW w \in Workers, InsertKey(w) PROVE InvitedInv'
  <2>1. PICK f \in Fetchers : f = job[w].fetcher
    BY <1>0, <1>5 DEF InsertKey, Named
  <2>2. /\ job[w].step = "keying"
        /\ job'[w].step = "idle"
        /\ \A v \in Workers : v # w => job'[v] = job[v]
    BY <1>0, <1>5, Ended DEF InsertKey
  <2>3. /\ key' = [key EXCEPT ![f] = "active"]
        /\ UNCHANGED <<status, letIn>>
    BY <1>5, <2>1 DEF InsertKey
  <2>4. /\ key'[f] = "active"
        /\ \A g \in Fetchers : g # f => key'[g] = key[g]
    BY <1>0, <2>3 DEF TypeOK
  <2>5. /\ status[f] # "none"
        /\ status[f] = "active" => f \in letIn
    BY <2>1, <2>2 DEF InvitedInv, Half, HeldBack, Registering
  <2>6. \A v \in Workers : v # w /\ job[v].step \in Registering => job[v].fetcher # f
    BY <2>1, <2>2 DEF InvitedInv, RegistersAlone, Registering
  <2>7. NoRowNoKey'
    BY <2>3, <2>4, <2>5 DEF InvitedInv, NoRowNoKey
  <2>8. RegistersAlone'
    BY <2>2 DEF InvitedInv, RegistersAlone, Registering
  <2>9. Half'
    <3> SUFFICES ASSUME NEW v \in Workers, job'[v].step \in Registering
                 PROVE  /\ key'[job'[v].fetcher] = "none"
                        /\ job'[v].step = "inserting" <=> status'[job'[v].fetcher] = "none"
      BY DEF Half
    <3>1. v # w /\ job'[v] = job[v]
      BY <2>2 DEF Registering
    <3>2. job[v].fetcher # f /\ job[v].fetcher \in Fetchers
      BY <1>0, <2>6, <3>1 DEF Named, Registering
    <3> QED BY <2>3, <2>4, <3>1, <3>2 DEF InvitedInv, Half
  <2>10. HeldBack'
    BY <2>2, <2>3 DEF InvitedInv, HeldBack
  <2>11. Invited'
    BY <2>3, <2>4, <2>5 DEF InvitedInv, Invited, Authenticated
  <2>12. HasRow'
    BY <1>0, <1>5, <2>2, <2>3, <2>4, HasRowKept DEF InsertKey, InvitedInv
  <2> QED BY <1>0, <2>7, <2>8, <2>9, <2>10, <2>11, <2>12 DEF InvitedInv
<1>6. ASSUME NEW w \in Workers, Asks(w) \/ Consumes(w) \/ Fail(w) PROVE InvitedInv'
  <2>1. UNCHANGED <<status, key, letIn>>
    BY <1>6 DEF Asks, RequestPromotion, InsertRequest, Consumes, Waits, Submit, Stamp,
                LockMinute, LockDay, Charge, Refuse, Fail
  <2>2. \A v \in Workers : v # w => job'[v] = job[v]
    BY <1>0, <1>6, Elsewhere
  <2>3. job'[w].step \notin Registering
    <3>1. CASE Asks(w)
      BY <1>0, <3>1, Began, Ended DEF Asks, RequestPromotion, InsertRequest, Registering
    <3>2. CASE Consumes(w)
      BY <1>0, <3>2, Went, Ended, Submitted, Stamped, HasRead
         DEF Consumes, Waits, LockMinute, LockDay, Charge, Refuse, Registering
    <3>3. CASE Fail(w)
      BY <1>0, <3>3, Ended DEF Fail, AfterFailure, Registering
    <3> QED BY <1>6, <3>1, <3>2, <3>3
  <2>4. HasRow'
    <3>1. CASE RequestPromotion(w)
      <4>1. PICK f \in Fetchers : Authenticated(f) /\ Begins(w, "requesting", f)
        BY <3>1 DEF RequestPromotion
      <4>2. job'[w].fetcher = f /\ status[f] # "none"
        BY <1>0, <4>1, Began DEF Authenticated
      <4> QED BY <2>1, <2>2, <3>1, <4>2 DEF InvitedInv, HasRow, RequestPromotion
    <3>2. CASE InsertRequest(w)
      <4>1. PICK f \in Fetchers : f = job[w].fetcher
        BY <1>0, <3>2 DEF InsertRequest, Named
      <4>2. \A g \in Fetchers : g # f => pending'[g] = pending[g]
        BY <1>0, <3>2, <4>1 DEF InsertRequest, TypeOK
      <4>3. status[f] # "none" /\ job'[w].step = "idle"
        BY <1>0, <3>2, <4>1, Ended DEF InsertRequest, InvitedInv, HasRow
      <4> QED BY <2>1, <2>2, <4>2, <4>3 DEF InvitedInv, HasRow
    <3>3. CASE Consumes(w)
      <4>1. UNCHANGED pending
        BY <3>3 DEF Consumes, Waits, Submit, Stamp, LockMinute, LockDay, Charge, Refuse
      <4>2. job'[w].step # "requesting"
        BY <1>0, <3>3, Went, Ended, Submitted, Stamped, HasRead
           DEF Consumes, Waits, LockMinute, LockDay, Charge, Refuse
      <4> QED BY <1>0, <2>1, <2>2, <4>1, <4>2, HasRowKept DEF InvitedInv
    <3>4. CASE Fail(w)
      BY <1>0, <2>1, <2>2, <3>4, Ended, HasRowKept DEF InvitedInv, Fail, AfterFailure
    <3> QED BY <1>6, <3>1, <3>2, <3>3, <3>4 DEF Asks
  <2> QED BY <1>0, <2>1, <2>2, <2>3, <2>4, InvitedKept
\* An operator rules on a fetcher that has a row.
<1>7. ASSUME NEW f \in Fetchers, Rules(f), status[f] # "none", UNCHANGED <<key, job>>,
             \A g \in Fetchers : pending'[g] > 0 => pending[g] > 0
      PROVE  InvitedInv'
  <2>1. PICK s \in {"active", "suspended"} :
          /\ status' = [status EXCEPT ![f] = s]
          /\ letIn' = IF s = "active" THEN letIn \cup {f} ELSE letIn
    BY <1>7 DEF Rules
  <2>2. /\ status'[f] = s
        /\ \A g \in Fetchers : g # f => status'[g] = status[g]
    BY <1>0, <2>1 DEF TypeOK
  <2>3. letIn \subseteq letIn' /\ (s = "active" => f \in letIn')
    BY <2>1
  <2>4. NoRowNoKey'
    BY <1>7, <2>2 DEF InvitedInv, NoRowNoKey
  <2>5. RegistersAlone'
    BY <1>7 DEF InvitedInv, RegistersAlone
  <2>6. Half'
    <3>1. \A g \in Fetchers : status'[g] = "none" <=> status[g] = "none"
      BY <1>7, <2>2
    <3>2. \A v \in Workers : job[v].step \in Registering => job[v].fetcher \in Fetchers
      BY <1>0 DEF Named, Registering
    <3> QED BY <1>7, <3>1, <3>2 DEF InvitedInv, Half
  <2>7. HeldBack'
    BY <1>0, <1>7, <2>2, <2>3 DEF InvitedInv, HeldBack, Named
  <2>8. Invited'
    BY <1>7, <2>2, <2>3 DEF InvitedInv, Invited, Authenticated
  <2>9. HasRow'
    BY <1>0, <1>7, <2>2 DEF InvitedInv, HasRow, Named
  <2> QED BY <1>0, <2>4, <2>5, <2>6, <2>7, <2>8, <2>9 DEF InvitedInv
<1>8. ASSUME NEW f \in Fetchers, Suspend(f) PROVE InvitedInv'
  BY <1>7, <1>8 DEF Suspend
<1>9. ASSUME NEW f \in Fetchers, Decide(f) PROVE InvitedInv'
  <2>1. /\ pending[f] > 0
        /\ UNCHANGED <<key, job>>
    BY <1>9 DEF Decide
  <2>2. \A g \in Fetchers : pending'[g] > 0 => pending[g] > 0
    <3>1. /\ pending' = [pending EXCEPT ![f] = @ - 1]
          /\ pending \in [Fetchers -> Nat]
      BY <1>0, <1>9 DEF Decide, TypeOK
    <3> QED BY <2>1, <3>1
  <2>3. CASE Rules(f)
    BY <1>7, <2>1, <2>2, <2>3 DEF InvitedInv, HasRow
  <2>4. CASE Keeps
    <3>1. HasRow'
      BY <2>1, <2>2, <2>4 DEF InvitedInv, HasRow, Keeps
    <3> QED BY <1>0, <2>1, <2>4, <3>1, InvitedKept DEF Keeps
  <2> QED BY <1>9, <2>3, <2>4 DEF Decide
<1>10. ASSUME NEW f \in Fetchers, Revoke(f) PROVE InvitedInv'
  <2>1. /\ key[f] = "active"
        /\ UNCHANGED <<status, pending, letIn, job>>
    BY <1>10 DEF Revoke
  <2>2. /\ key'[f] = "revoked"
        /\ \A g \in Fetchers : g # f => key'[g] = key[g]
    BY <1>0, <1>10 DEF Revoke, TypeOK
  <2>3. NoRowNoKey'
    BY <2>1, <2>2 DEF InvitedInv, NoRowNoKey
  <2>4. RegistersAlone'
    BY <2>1 DEF InvitedInv, RegistersAlone
  <2>5. Half'
    <3>1. \A v \in Workers : job[v].step \in Registering =>
            job[v].fetcher \in Fetchers /\ job[v].fetcher # f
      BY <1>0, <2>1 DEF Named, InvitedInv, Half, Registering
    <3> QED BY <2>1, <2>2, <3>1 DEF InvitedInv, Half
  <2>6. HeldBack' /\ HasRow'
    BY <2>1 DEF InvitedInv, HeldBack, HasRow
  <2>7. Invited'
    BY <2>1, <2>2 DEF InvitedInv, Invited, Authenticated
  <2> QED BY <1>0, <2>3, <2>4, <2>5, <2>6, <2>7 DEF InvitedInv
<1>11. CASE Tick
  <2>1. HasRow'
    BY <1>0, <1>11, HasRowKept DEF Tick, InvitedInv
  <2> QED BY <1>0, <1>11, <2>1, InvitedKept DEF Tick
<1>12. CASE Crash
  <2>1. \A v \in Workers : job'[v].step = "idle"
    BY <1>12 DEF Crash, NoJob
  <2>2. HasRow'
    BY <1>0, <1>12, <2>1, HasRowKept DEF Crash, InvitedInv
  <2> QED BY <1>0, <1>12, <2>1, <2>2, InvitedKept DEF Crash, Registering
<1> QED
  BY <1>1, <1>2, <1>3, <1>4, <1>5, <1>6, <1>8, <1>9, <1>10, <1>11, <1>12
     DEF Next, Registers, Operator

\* A fetcher that registered itself is served only once an operator let it in, for
\* whatever registrations fail half-way and whoever asks meanwhile
\* (RegisterFetcherV1, ingest_v1.go:231 and :236; FetcherKeyAuthV1).
THEOREM Uninvited == Spec => NoneUninvited
<1>1. ASSUME InvitedInv, Next, NEW w \in Workers,
             job[w].step = "idle", job'[w].step \in {"requesting", "admitted"}
      PROVE  job'[w].fetcher \in letIn
  <2>0. TypeOK /\ \A f \in Fetchers : Authenticated(f) => f \in letIn
    BY <1>1 DEF InvitedInv, Invited
  <2>1. ASSUME NEW v \in Workers, Registers(v) \/ Asks(v) \/ Consumes(v) \/ Fail(v)
        PROVE  job'[w].fetcher \in letIn
    <3>1. v = w
      BY <1>1, <2>0, <2>1, Elsewhere
    <3>2. CASE Registers(v)
      BY <1>1, <2>0, <3>1, <3>2, Began
         DEF Registers, Register, InsertFetcher, SetPending, InsertKey
    <3>3. CASE RequestPromotion(v)
      BY <2>0, <3>1, <3>3, Began DEF RequestPromotion
    <3>4. CASE Submit(v)
      BY <2>0, <3>1, <3>4, Submitted, ConstantsAssumption
    <3> QED
      BY <1>1, <2>1, <3>1, <3>2, <3>3, <3>4
         DEF Asks, InsertRequest, Consumes, Waits, Stamp, LockMinute, LockDay, Charge,
             Refuse, Fail
  <2> QED
    BY <1>1, <2>1
       DEF Next, Operator, Decide, Suspend, Revoke, Tick, Crash, NoJob
<1>2. ASSUME InvitedInv, [Next]_vars
      PROVE  [\A w \in Workers :
                job[w].step = "idle" /\ job'[w].step \in {"requesting", "admitted"}
                  => job'[w].fetcher \in letIn]_vars
  BY <1>1, <1>2
<1> QED BY <1>2, InvitedInit, InvitedStep, PTL DEF Spec, NoneUninvited

-----------------------------------------------------------------------------
(* The quota. *)

MinuteHeld(f, t) == Within(minutes[f][t], {c.minute : c \in hadCaps[f]})
DayHeld(f, d) == Within(days[f][d], {c.day : c \in hadCaps[f]})

LEMMA QuotaByRow ==
  ASSUME TypeOK
  PROVE  QuotaHeld <=> \A f \in Fetchers :
           /\ \A t \in Minutes : MinuteHeld(f, t)
           /\ \A d \in 0..DayOf(LastMinute) : DayHeld(f, d)
<1>1. \A f \in Fetchers : DOMAIN days[f] = 0..DayOf(LastMinute)
  BY DEF TypeOK
<1> QED BY <1>1 DEF QuotaHeld, MinuteHeld, DayHeld

\* A fetcher that is given more caps stays within those it has had.
LEMMA WithinMore ==
  ASSUME NEW used, NEW A, NEW B, A \subseteq B, Within(used, A)
  PROVE  Within(used, B)
BY DEF Within

LEMMA HeldMore ==
  ASSUME TypeOK, TypeOK', QuotaHeld, UNCHANGED <<minutes, days>>,
         \A f \in Fetchers : hadCaps[f] \subseteq hadCaps'[f]
  PROVE  QuotaHeld'
<1> SUFFICES ASSUME NEW f \in Fetchers
             PROVE  /\ \A t \in Minutes : MinuteHeld(f, t)'
                    /\ \A d \in 0..DayOf(LastMinute) : DayHeld(f, d)'
  BY DEF TypeOK, QuotaHeld, MinuteHeld, DayHeld
<1>1. /\ {c.minute : c \in hadCaps[f]} \subseteq {c.minute : c \in hadCaps'[f]}
      /\ {c.day : c \in hadCaps[f]} \subseteq {c.day : c \in hadCaps'[f]}
  OBVIOUS
<1>2. ASSUME NEW t \in Minutes PROVE MinuteHeld(f, t)'
  <2>1. MinuteHeld(f, t)
    BY QuotaByRow
  <2> QED BY <1>1, <2>1, WithinMore DEF MinuteHeld
<1>3. ASSUME NEW d \in 0..DayOf(LastMinute) PROVE DayHeld(f, d)'
  <2>1. DayHeld(f, d)
    BY QuotaByRow
  <2> QED BY <1>1, <2>1, WithinMore DEF DayHeld
<1> QED BY <1>2, <1>3

LEMMA QuotaInit == Init => QuotaInv
<1> SUFFICES ASSUME Init PROVE QuotaInv
  OBVIOUS
<1>1. \A w \in Workers : job[w].step = "idle"
  BY DEF Init, NoJob
<1>2. /\ caps = [f \in Fetchers |-> NewCaps]
      /\ hadCaps = [f \in Fetchers |-> {NewCaps}]
      /\ minutes = [f \in Fetchers |-> [t \in Minutes |-> 0]]
      /\ days = [f \in Fetchers |-> [d \in 0..DayOf(LastMinute) |-> 0]]
  BY DEF Init
<1>3. TypeOK
  BY TypeInit
<1>4. CapsHad
  BY <1>2 DEF CapsHad
<1>5. Named /\ GivenHad /\ MinuteAlone /\ DayAlone /\ Fresh
  BY <1>1 DEF Named, GivenHad, MinuteAlone, DayAlone, Fresh, Submitting, HoldsMinute, HoldsDay
<1>6. QuotaHeld
  <2> SUFFICES ASSUME NEW f \in Fetchers
               PROVE  /\ \A t \in Minutes : MinuteHeld(f, t)
                      /\ \A d \in 0..DayOf(LastMinute) : DayHeld(f, d)
    BY <1>3, QuotaByRow
  <2>1. 0 <= NewCaps.minute /\ 0 <= NewCaps.day
    BY ConstantsAssumption DEF NewCaps
  <2>2. NewCaps.minute \in {c.minute : c \in hadCaps[f]} /\ NewCaps.day \in {c.day : c \in hadCaps[f]}
    BY <1>2
  <2>3. \A t \in Minutes : minutes[f][t] = 0
    BY <1>2
  <2>4. \A d \in 0..DayOf(LastMinute) : days[f][d] = 0
    BY <1>2
  <2> QED BY <2>1, <2>2, <2>3, <2>4 DEF Within, MinuteHeld, DayHeld
<1> QED BY <1>3, <1>4, <1>5, <1>6 DEF QuotaInv

\* A step that neither takes a row nor writes one leaves those that are held as they
\* are.
LEMMA RowsKept ==
  ASSUME QuotaInv, TypeOK', UNCHANGED <<minutes, days>>,
         \A f \in Fetchers : hadCaps[f] \subseteq hadCaps'[f],
         \A v \in Workers : job'[v].step \in {"minuteLocked", "locked"} => job'[v] = job[v]
  PROVE  MinuteAlone' /\ DayAlone' /\ Fresh' /\ QuotaHeld'
<1>1. MinuteAlone'
  BY DEF QuotaInv, MinuteAlone, HoldsMinute
<1>2. DayAlone'
  BY DEF QuotaInv, DayAlone, HoldsDay
<1>3. Fresh'
  BY DEF QuotaInv, Fresh
<1>4. QuotaHeld'
  BY HeldMore DEF QuotaInv
<1> QED BY <1>1, <1>2, <1>3, <1>4

LEMMA QuotaStep == QuotaInv /\ [Next]_vars => QuotaInv'
<1> SUFFICES ASSUME QuotaInv, [Next]_vars PROVE QuotaInv'
  OBVIOUS
<1>0. TypeOK /\ Named /\ TypeOK' /\ Named'
  BY TypeStep, NamedStep DEF QuotaInv
<1> USE DEF fetcher, usage, history
\* Steps that have nothing to do with the quota.
<1>1. ASSUME UNCHANGED <<minutes, days, caps, hadCaps>>,
             \A v \in Workers : job'[v].step \in Submitting => job'[v] = job[v]
      PROVE  QuotaInv'
  <2>1. CapsHad'
    BY <1>1 DEF QuotaInv, CapsHad
  <2>2. GivenHad'
    BY <1>1 DEF QuotaInv, GivenHad
  <2>3. MinuteAlone' /\ DayAlone' /\ Fresh' /\ QuotaHeld'
    BY <1>0, <1>1, RowsKept DEF Submitting
  <2> QED BY <1>0, <2>1, <2>2, <2>3 DEF QuotaInv
<1>2. CASE UNCHANGED vars
  BY <1>1, <1>2 DEF vars
<1>3. ASSUME NEW w \in Workers,
             Registers(w) \/ Asks(w) \/ Refuse(w) \/ Fail(w)
      PROVE  QuotaInv'
  <2>1. UNCHANGED <<minutes, days, caps, hadCaps>>
    BY <1>3 DEF Registers, Register, InsertFetcher, SetPending, InsertKey, Asks,
                RequestPromotion, InsertRequest, Refuse, Fail
  <2>2. \A v \in Workers : v # w => job'[v] = job[v]
    BY <1>0, <1>3, Elsewhere DEF Consumes
  <2>3. job'[w].step \notin Submitting
    BY <1>0, <1>3, Went, Began, Ended
       DEF Registers, Register, InsertFetcher, SetPending, InsertKey, Asks,
           RequestPromotion, InsertRequest, Refuse, Fail, AfterFailure, Submitting
  <2> QED BY <1>1, <2>1, <2>2, <2>3
<1>4. ASSUME NEW w \in Workers, Submit(w) PROVE QuotaInv'
  <2>1. PICK f \in Provisioned :
          /\ job'[w].step = "admitted"
          /\ job'[w].fetcher = f
          /\ job'[w].caps = caps[f]
          /\ \A v \in Workers : v # w => job'[v] = job[v]
    BY <1>0, <1>4, Submitted
  <2>2. UNCHANGED <<minutes, days, caps, hadCaps>>
    BY <1>4 DEF Submit
  <2>3. CapsHad'
    BY <2>2 DEF QuotaInv, CapsHad
  <2>4. caps[f] \in hadCaps[f]
    BY ConstantsAssumption DEF QuotaInv, CapsHad
  <2>5. GivenHad'
    BY <2>1, <2>2, <2>4 DEF QuotaInv, GivenHad
  <2>6. MinuteAlone' /\ DayAlone' /\ Fresh' /\ QuotaHeld'
    BY <1>0, <2>1, <2>2, RowsKept
  <2> QED BY <1>0, <2>3, <2>5, <2>6 DEF QuotaInv
<1>5. ASSUME NEW w \in Workers, Stamp(w) PROVE QuotaInv'
  <2>1. /\ job[w].step = "admitted"
        /\ job'[w].step = "stamped"
        /\ job'[w].fetcher = job[w].fetcher
        /\ job'[w].caps = job[w].caps
        /\ \A v \in Workers : v # w => job'[v] = job[v]
    BY <1>0, <1>5, Stamped
  <2>2. UNCHANGED <<minutes, days, caps, hadCaps>>
    BY <1>5 DEF Stamp
  <2>3. CapsHad'
    BY <2>2 DEF QuotaInv, CapsHad
  <2>4. GivenHad'
    BY <2>1, <2>2 DEF QuotaInv, GivenHad, Submitting
  <2>5. MinuteAlone' /\ DayAlone' /\ Fresh' /\ QuotaHeld'
    BY <1>0, <2>1, <2>2, RowsKept
  <2> QED BY <1>0, <2>3, <2>4, <2>5 DEF QuotaInv
<1>6. ASSUME NEW w \in Workers, LockMinute(w) PROVE QuotaInv'
  <2>1. /\ job[w].step = "stamped"
        /\ \A v \in Workers : ~HoldsMinute(v, job[w].fetcher, job[w].at)
    BY <1>6 DEF LockMinute
  <2>2. /\ job'[w].step = "minuteLocked"
        /\ job'[w].fetcher = job[w].fetcher
        /\ job'[w].caps = job[w].caps
        /\ job'[w].at = job[w].at
        /\ \A v \in Workers : v # w => job'[v] = job[v]
    BY <1>0, <1>6, Went DEF LockMinute
  <2>3. UNCHANGED <<minutes, days, caps, hadCaps>>
    BY <1>6 DEF LockMinute
  <2>4. CapsHad'
    BY <2>3 DEF QuotaInv, CapsHad
  <2>5. GivenHad'
    BY <2>1, <2>2, <2>3 DEF QuotaInv, GivenHad, Submitting
  <2>6. MinuteAlone'
    BY <2>1, <2>2 DEF QuotaInv, MinuteAlone, HoldsMinute
  <2>7. DayAlone'
    BY <2>2 DEF QuotaInv, DayAlone, HoldsDay
  <2>8. Fresh'
    BY <2>2, <2>3 DEF QuotaInv, Fresh
  <2>9. QuotaHeld'
    BY <1>0, <2>3, HeldMore DEF QuotaInv
  <2> QED BY <1>0, <2>4, <2>5, <2>6, <2>7, <2>8, <2>9 DEF QuotaInv
<1>7. ASSUME NEW w \in Workers, LockDay(w) PROVE QuotaInv'
  <2>1. /\ job[w].step = "minuteLocked"
        /\ \A v \in Workers : ~HoldsDay(v, job[w].fetcher, DayOf(job[w].at))
    BY <1>7 DEF LockDay
  <2>2. /\ job'[w].step = "locked"
        /\ job'[w].fetcher = job[w].fetcher
        /\ job'[w].caps = job[w].caps
        /\ job'[w].at = job[w].at
        /\ job'[w].minuteUsed = minutes[job[w].fetcher][job[w].at]
        /\ job'[w].dayUsed = days[job[w].fetcher][DayOf(job[w].at)]
        /\ \A v \in Workers : v # w => job'[v] = job[v]
    BY <1>0, <1>7, HasRead DEF LockDay
  <2>3. UNCHANGED <<minutes, days, caps, hadCaps>>
    BY <1>7 DEF LockDay
  <2>4. CapsHad'
    BY <2>3 DEF QuotaInv, CapsHad
  <2>5. GivenHad'
    BY <2>1, <2>2, <2>3 DEF QuotaInv, GivenHad, Submitting
  <2>6. MinuteAlone'
    BY <2>1, <2>2 DEF QuotaInv, MinuteAlone, HoldsMinute
  <2>7. DayAlone'
    BY <2>1, <2>2 DEF QuotaInv, DayAlone, HoldsDay
  <2>8. Fresh'
    BY <2>2, <2>3 DEF QuotaInv, Fresh
  <2>9. QuotaHeld'
    BY <1>0, <2>3, HeldMore DEF QuotaInv
  <2> QED BY <1>0, <2>4, <2>5, <2>6, <2>7, <2>8, <2>9 DEF QuotaInv
<1>8. ASSUME NEW w \in Workers, Charge(w) PROVE QuotaInv'
  <2>1. PICK f \in Fetchers, t \in Minutes, n \in Nat :
          /\ f = job[w].fetcher
          /\ t = job[w].at
          /\ n = job[w].items
    BY <1>0, <1>8, ConstantsAssumption DEF Charge, Named, TypeOK, Jobs
  <2>2. DayOf(t) \in 0..DayOf(LastMinute)
    BY DayInRange
  <2>3. /\ job[w].step = "locked"
        /\ job[w].minuteUsed = minutes[f][t]
        /\ job[w].dayUsed = days[f][DayOf(t)]
    BY <1>8, <2>1 DEF Charge, QuotaInv, Fresh
  <2>4. PICK c \in hadCaps[f] : c = job[w].caps
    BY <2>1, <2>3 DEF QuotaInv, GivenHad, Submitting
  <2>5. /\ job'[w].step = "idle"
        /\ \A v \in Workers : v # w => job'[v] = job[v]
    BY <1>0, <1>8, Ended DEF Charge
  <2>6. /\ minutes' = [minutes EXCEPT ![f][t] = @ + n]
        /\ days' = [days EXCEPT ![f][DayOf(t)] = @ + n]
        /\ UNCHANGED <<caps, hadCaps>>
    BY <1>8, <2>1 DEF Charge
  <2>7. \A g \in Fetchers, m \in Minutes :
          minutes'[g][m] = IF g = f /\ m = t THEN minutes[g][m] + n ELSE minutes[g][m]
    <3>1. minutes \in [Fetchers -> [Minutes -> Nat]]
      BY <1>0 DEF TypeOK
    <3> QED BY <2>6, <3>1, RaisedOnly
  <2>8. \A g \in Fetchers, d \in 0..DayOf(LastMinute) :
          days'[g][d] = IF g = f /\ d = DayOf(t) THEN days[g][d] + n ELSE days[g][d]
    <3> DEFINE D == 0..DayOf(LastMinute)
    <3>1. days \in [Fetchers -> [D -> Nat]] /\ DayOf(t) \in D
      BY <1>0, <2>2 DEF TypeOK
    <3> SUFFICES ASSUME NEW g \in Fetchers, NEW d \in D
                 PROVE  days'[g][d] = IF g = f /\ d = DayOf(t) THEN days[g][d] + n
                                      ELSE days[g][d]
      OBVIOUS
    <3> HIDE DEF D
    <3> QED BY <2>6, <3>1, RaisedOnly
  <2>9. CapsHad'
    BY <2>6 DEF QuotaInv, CapsHad
  <2>10. GivenHad'
    BY <2>5, <2>6 DEF QuotaInv, GivenHad, Submitting
  <2>11. MinuteAlone' /\ DayAlone'
    BY <2>5 DEF QuotaInv, MinuteAlone, DayAlone, HoldsMinute, HoldsDay
  <2>12. Fresh'
    <3> SUFFICES ASSUME NEW v \in Workers, job'[v].step = "locked"
                 PROVE  /\ job'[v].minuteUsed = minutes'[job'[v].fetcher][job'[v].at]
                        /\ job'[v].dayUsed = days'[job'[v].fetcher][DayOf(job'[v].at)]
      BY DEF Fresh
    <3>1. v # w /\ job'[v] = job[v] /\ job[v].step = "locked"
      BY <2>5
    <3>2. PICK g \in Fetchers, m \in Minutes : g = job[v].fetcher /\ m = job[v].at
      BY <1>0, <3>1 DEF Named, TypeOK, Jobs
    <3>3. /\ job[v].minuteUsed = minutes[g][m]
          /\ job[v].dayUsed = days[g][DayOf(m)]
      BY <3>1, <3>2 DEF QuotaInv, Fresh
    <3>4. ~(g = f /\ m = t)
      BY <2>1, <2>3, <3>1, <3>2 DEF QuotaInv, MinuteAlone, HoldsMinute
    <3>5. ~(g = f /\ DayOf(m) = DayOf(t))
      BY <2>1, <2>3, <3>1, <3>2 DEF QuotaInv, DayAlone, HoldsDay
    <3>6. DayOf(m) \in 0..DayOf(LastMinute)
      BY DayInRange
    <3> QED BY <2>7, <2>8, <3>1, <3>2, <3>3, <3>4, <3>5, <3>6
  <2>13. QuotaHeld'
    <3> SUFFICES ASSUME NEW g \in Fetchers
                 PROVE  /\ \A m \in Minutes : MinuteHeld(g, m)'
                        /\ \A d \in 0..DayOf(LastMinute) : DayHeld(g, d)'
      BY <1>0 DEF TypeOK, QuotaHeld, MinuteHeld, DayHeld
    <3>0. /\ \A m \in Minutes : MinuteHeld(g, m)
          /\ \A d \in 0..DayOf(LastMinute) : DayHeld(g, d)
      BY <1>0, QuotaByRow DEF QuotaInv
    <3>1. /\ c.minute = 0 \/ minutes[f][t] + n <= c.minute
          /\ c.day = 0 \/ days[f][DayOf(t)] + n <= c.day
      BY <1>8, <2>1, <2>3, <2>4 DEF Charge, Fits, Free
    <3>2. /\ Within(minutes[f][t] + n, {a.minute : a \in hadCaps[f]})
          /\ Within(days[f][DayOf(t)] + n, {a.day : a \in hadCaps[f]})
      BY <3>1 DEF Within
    <3>3. ASSUME NEW m \in Minutes PROVE MinuteHeld(g, m)'
      <4>1. CASE g = f /\ m = t
        BY <2>6, <2>7, <3>2, <4>1 DEF MinuteHeld
      <4>2. CASE ~(g = f /\ m = t)
        BY <2>6, <2>7, <3>0, <4>2 DEF MinuteHeld
      <4> QED BY <4>1, <4>2
    <3>4. ASSUME NEW d \in 0..DayOf(LastMinute) PROVE DayHeld(g, d)'
      <4>1. CASE g = f /\ d = DayOf(t)
        BY <2>6, <2>8, <3>2, <4>1 DEF DayHeld
      <4>2. CASE ~(g = f /\ d = DayOf(t))
        BY <2>6, <2>8, <3>0, <4>2 DEF DayHeld
      <4> QED BY <4>1, <4>2
    <3> QED BY <3>3, <3>4
  <2> QED BY <1>0, <2>9, <2>10, <2>11, <2>12, <2>13 DEF QuotaInv
<1>9. ASSUME NEW f \in Fetchers, Decide(f) PROVE QuotaInv'
  <2>1. UNCHANGED <<minutes, days, job>>
    BY <1>9 DEF Decide
  <2>2. \/ UNCHANGED <<caps, hadCaps>>
        \/ \E given \in Caps : /\ caps' = [caps EXCEPT ![f] = given]
                               /\ hadCaps' = [hadCaps EXCEPT ![f] = @ \cup {given}]
    <3>1. \A m \in MinuteCaps \cup {caps[f].minute}, d \in DayCaps \cup {caps[f].day} :
            [minute |-> m, day |-> d] \in Caps
      BY <1>0 DEF TypeOK, Caps
    <3> QED BY <1>9, <3>1 DEF Decide
  <2>3. CASE UNCHANGED <<caps, hadCaps>>
    BY <1>1, <2>1, <2>3
  <2>4. ASSUME NEW given \in Caps,
               caps' = [caps EXCEPT ![f] = given],
               hadCaps' = [hadCaps EXCEPT ![f] = @ \cup {given}]
        PROVE  QuotaInv'
    <3>1. \A g \in Fetchers : hadCaps[g] \subseteq hadCaps'[g]
      BY <1>0, <2>4 DEF TypeOK
    <3>2. CapsHad'
      BY <1>0, <2>4 DEF QuotaInv, CapsHad, TypeOK
    <3>3. GivenHad'
      BY <1>0, <2>1, <3>1 DEF QuotaInv, GivenHad, Named, Submitting
    <3>4. MinuteAlone' /\ DayAlone' /\ Fresh' /\ QuotaHeld'
      BY <1>0, <2>1, <3>1, RowsKept
    <3> QED BY <1>0, <3>2, <3>3, <3>4 DEF QuotaInv
  <2> QED BY <2>2, <2>3, <2>4
<1>10. ASSUME NEW f \in Fetchers, Suspend(f) \/ Revoke(f) PROVE QuotaInv'
  BY <1>1, <1>10 DEF Suspend, Revoke
<1>11. CASE Tick
  BY <1>1, <1>11 DEF Tick
<1>12. CASE Crash
  <2>1. \A v \in Workers : job'[v].step \notin Submitting
    BY <1>12 DEF Crash, NoJob, Submitting
  <2> QED BY <1>1, <1>12, <2>1 DEF Crash
<1> QED
  BY <1>2, <1>3, <1>4, <1>5, <1>6, <1>7, <1>8, <1>9, <1>10, <1>11, <1>12
     DEF Next, Consumes, Waits, Operator

\* However many requests of a fetcher are served at once, whenever they were stamped
\* and however long they waited, no minute and no day is charged beyond a cap that
\* the fetcher has had (ConsumeQuotaV1, fetcher_keys_v1.go:323).
THEOREM Quota == Spec => []QuotaHeld
<1>1. QuotaInv => QuotaHeld
  BY DEF QuotaInv
<1> QED BY <1>1, QuotaInit, QuotaStep, PTL DEF Spec
=============================================================================
