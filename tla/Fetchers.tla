------------------------------ MODULE Fetchers ------------------------------
(***************************************************************************)
(* Machine submitters ("fetchers") of report-listener: how one registers,  *)
(* is let in by an operator, asks to be promoted, is suspended, and how    *)
(* the items it submits are charged to its quota.  A fetcher has one key.  *)
(*                                                                         *)
(* A worker serves one HTTP request at a time.  Every statement is a step  *)
(* of its own, except within a transaction that holds its rows; it may     *)
(* fail, and the process may be killed after any of them.  What becomes of *)
(* the items once they are charged is in Ingest.  The clock counts minutes.*)
(***************************************************************************)
EXTENDS Naturals

CONSTANTS
  Fetchers,
  Provisioned,       \* fetchers that operators set up, with report:submit
  Workers,           \* requests served at the same time
  MinuteCaps,        \* per_minute_cap_items that operators give, 0 for no limit
  DayCaps,           \* daily_cap_items that operators give, 0 for no limit
  NewMinuteCap,      \* the caps of a new fetcher
  NewDayCap,
  MaxBatch,          \* FetcherIngestMaxBatchItems
  MaxRegistrations,  \* FetcherRegisterMaxPerHourPerIP
  Hour,              \* minutes in an hour
  Day,               \* minutes in a day
  LastMinute,        \* when the clock stops (a bound)
  MaxActs,           \* how often operators act (a bound)
  MaxFaults,         \* how many failures may happen (a bound)
  None

ASSUME ConstantsAssumption ==
  /\ Provisioned \subseteq Fetchers
  /\ MinuteCaps \subseteq Nat
  /\ DayCaps \subseteq Nat
  /\ NewMinuteCap \in MinuteCaps
  /\ NewDayCap \in DayCaps
  /\ MaxBatch \in Nat \ {0}
  /\ MaxRegistrations \in Nat
  /\ Hour \in Nat \ {0}
  /\ Day \in Nat \ {0}
  /\ LastMinute \in Nat
  /\ MaxActs \in Nat
  /\ MaxFaults \in Nat
  /\ None \notin Fetchers

VARIABLES
  status,     \* fetchers.status
  caps,       \* fetchers.per_minute_cap_items and daily_cap_items
  key,        \* fetcher_keys.status
  pending,    \* fetcher_promotion_requests that are pending
  minutes,    \* fetcher_usage_minute
  days,       \* fetcher_usage_daily
  window,     \* regByIP of the one address that registers, in memory
  job,        \* request of a worker
  now,        \* the clock
  letIn,      \* history: fetchers that an operator has ever let in
  hadCaps,    \* history: caps a fetcher has ever had
  acts,       \* history: what operators did so far
  faults      \* history: failures so far

fetcher == <<status, caps, key, pending>>
usage == <<minutes, days>>
history == <<letIn, hadCaps, acts>>
vars == <<fetcher, usage, window, job, now, history, faults>>

Minutes == 0..LastMinute
DayOf(t) == t \div Day
Caps == [minute : MinuteCaps, day : DayCaps]
NewCaps == [minute |-> NewMinuteCap, day |-> NewDayCap]

\* "limited" lets a fetcher in as "active" does, and is not told from it; "banned",
\* and any other word an operator writes, keeps it out as "suspended" does.
Statuses == {"none", "active", "pending", "suspended"}
Steps == {"idle", "inserting", "holding", "keying", "requesting", "admitted",
          "stamped", "minuteLocked", "locked"}

Jobs == [step : Steps, fetcher : Fetchers \cup {None}, items : 0..MaxBatch,
         caps : Caps, at : Minutes, minuteUsed : Nat, dayUsed : Nat]

NoJob == [step |-> "idle", fetcher |-> None, items |-> 0, caps |-> NewCaps,
          at |-> 0, minuteUsed |-> 0, dayUsed |-> 0]

NoWindow == [start |-> 0, count |-> 0]

TypeOK ==
  /\ status \in [Fetchers -> Statuses]
  /\ caps \in [Fetchers -> Caps]
  /\ key \in [Fetchers -> {"none", "active", "revoked"}]
  /\ pending \in [Fetchers -> Nat]
  /\ minutes \in [Fetchers -> [Minutes -> Nat]]
  /\ days \in [Fetchers -> [0..DayOf(LastMinute) -> Nat]]
  /\ window \in [start : Minutes, count : 0..MaxRegistrations]
  /\ job \in [Workers -> Jobs]
  /\ now \in Minutes
  /\ letIn \subseteq Fetchers
  /\ hadCaps \in [Fetchers -> SUBSET Caps]
  /\ acts \in 0..MaxActs
  /\ faults \in 0..MaxFaults

Init ==
  /\ status = [f \in Fetchers |-> IF f \in Provisioned THEN "active" ELSE "none"]
  /\ caps = [f \in Fetchers |-> NewCaps]
  /\ key = [f \in Fetchers |-> IF f \in Provisioned THEN "active" ELSE "none"]
  /\ pending = [f \in Fetchers |-> 0]
  /\ minutes = [f \in Fetchers |-> [t \in Minutes |-> 0]]
  /\ days = [f \in Fetchers |-> [d \in 0..DayOf(LastMinute) |-> 0]]
  /\ window = NoWindow
  /\ job = [w \in Workers |-> NoJob]
  /\ now = 0
  /\ letIn = Provisioned
  /\ hadCaps = [f \in Fetchers |-> {NewCaps}]
  /\ acts = 0
  /\ faults = 0

Begins(w, step, f) == job' = [job EXCEPT ![w].step = step, ![w].fetcher = f]
Goes(w, step) == job' = [job EXCEPT ![w].step = step]
Ends(w) == job' = [job EXCEPT ![w] = NoJob]

-----------------------------------------------------------------------------
(* Registration. *)

\* The window of the address, opened when it has none and anew when it is more than
\* an hour old.
Window == IF window.count = 0 \/ now - window.start > Hour
          THEN [start |-> now, count |-> 0] ELSE window

\* A registration is counted, whatever becomes of it.
Register(w) ==
  /\ job[w].step = "idle"
  /\ Window.count < MaxRegistrations
  /\ window' = [Window EXCEPT !.count = @ + 1]
  /\ \E f \in Fetchers :
       /\ status[f] = "none"
       /\ \A v \in Workers : job[v].fetcher # f
       /\ Begins(w, "inserting", f)
  /\ UNCHANGED <<fetcher, usage, now, history, faults>>

\* The row is inserted as active, with the caps of its column list.
InsertFetcher(w) ==
  /\ job[w].step = "inserting"
  /\ status' = [status EXCEPT ![job[w].fetcher] = "active"]
  /\ Goes(w, "holding")
  /\ UNCHANGED <<caps, key, pending, usage, window, now, history, faults>>

SetPending(w) ==
  /\ job[w].step = "holding"
  /\ status' = [status EXCEPT ![job[w].fetcher] = "pending"]
  /\ Goes(w, "keying")
  /\ UNCHANGED <<caps, key, pending, usage, window, now, history, faults>>

\* The key that is handed out can read, and not submit.
InsertKey(w) ==
  /\ job[w].step = "keying"
  /\ key' = [key EXCEPT ![job[w].fetcher] = "active"]
  /\ Ends(w)
  /\ UNCHANGED <<status, caps, pending, usage, window, now, history, faults>>

-----------------------------------------------------------------------------
(* Authentication and promotion requests. *)

\* The key and its fetcher are read at once.
Authenticated(f) ==
  /\ key[f] = "active"
  /\ status[f] = "active"

\* CreatePromotionRequestV1 looks for a pending request, and then inserts one.
RequestPromotion(w) ==
  /\ job[w].step = "idle"
  /\ \E f \in Fetchers :
       /\ Authenticated(f)
       /\ pending[f] = 0
       /\ Begins(w, "requesting", f)
  /\ UNCHANGED <<fetcher, usage, window, now, history, faults>>

InsertRequest(w) ==
  /\ job[w].step = "requesting"
  /\ pending' = [pending EXCEPT ![job[w].fetcher] = @ + 1]
  /\ Ends(w)
  /\ UNCHANGED <<status, caps, key, usage, window, now, history, faults>>

-----------------------------------------------------------------------------
(* What operators do. *)

Acts ==
  /\ acts < MaxActs
  /\ acts' = acts + 1

\* An operator lets the fetcher in, or shuts it out.
Rules(f) == \E s \in {"active", "suspended"} :
  /\ status' = [status EXCEPT ![f] = s]
  /\ letIn' = IF s = "active" THEN letIn \cup {f} ELSE letIn

Keeps == UNCHANGED <<status, letIn>>

\* decidePromotionRequestTx holds the request while it decides: it is pending no
\* more, and approval sets the status, the caps, or both.
Decide(f) ==
  /\ Acts
  /\ pending[f] > 0
  /\ pending' = [pending EXCEPT ![f] = @ - 1]
  /\ \/ Keeps /\ UNCHANGED <<caps, hadCaps>>
     \/ /\ Keeps \/ Rules(f)
        /\ \E m \in MinuteCaps \cup {caps[f].minute},
              d \in DayCaps \cup {caps[f].day} :
             LET given == [minute |-> m, day |-> d]
             IN  /\ caps' = [caps EXCEPT ![f] = given]
                 /\ hadCaps' = [hadCaps EXCEPT ![f] = @ \cup {given}]
  /\ UNCHANGED <<key, usage, window, job, now, faults>>

\* The endpoint that suspends also sets "limited", whatever the status was.
Suspend(f) ==
  /\ Acts
  /\ status[f] # "none"
  /\ Rules(f)
  /\ UNCHANGED <<caps, key, pending, usage, window, job, now, hadCaps, faults>>

Revoke(f) ==
  /\ Acts
  /\ key[f] = "active"
  /\ key' = [key EXCEPT ![f] = "revoked"]
  /\ UNCHANGED <<status, caps, pending, usage, window, job, now, letIn, hadCaps, faults>>

-----------------------------------------------------------------------------
(* Submissions and the quota. *)

\* The caps are those of the moment of authentication.  Nothing gives a fetcher
\* that registered itself the scope to submit.
Submit(w) ==
  /\ job[w].step = "idle"
  /\ \E f \in Provisioned, n \in 1..MaxBatch :
       /\ Authenticated(f)
       /\ job' = [job EXCEPT ![w].step = "admitted", ![w].fetcher = f,
                             ![w].items = n, ![w].caps = caps[f]]
  /\ UNCHANGED <<fetcher, usage, window, now, history, faults>>

\* time.Now() of the call of ConsumeQuotaV1: what it charges, however long it
\* then waits.
Stamp(w) ==
  /\ job[w].step = "admitted"
  /\ job' = [job EXCEPT ![w].step = "stamped", ![w].at = now]
  /\ UNCHANGED <<fetcher, usage, window, now, history, faults>>

\* Whether a transaction holds the row of the minute, of the day.
HoldsMinute(v, f, t) ==
  /\ job[v].step \in {"minuteLocked", "locked"}
  /\ job[v].fetcher = f
  /\ job[v].at = t

HoldsDay(v, f, d) ==
  /\ job[v].step = "locked"
  /\ job[v].fetcher = f
  /\ DayOf(job[v].at) = d

\* Inserting a row that exists holds it until the transaction ends.
LockMinute(w) ==
  /\ job[w].step = "stamped"
  /\ \A v \in Workers : ~HoldsMinute(v, job[w].fetcher, job[w].at)
  /\ Goes(w, "minuteLocked")
  /\ UNCHANGED <<fetcher, usage, window, now, history, faults>>

\* With the row of the day held too, both are read.
ReadUsage(w) ==
  LET j == job[w]
  IN  job' = [job EXCEPT ![w].step = "locked",
                         ![w].minuteUsed = minutes[j.fetcher][j.at],
                         ![w].dayUsed = days[j.fetcher][DayOf(j.at)]]

\* Slip: the row of the day is read without a lock.
LockNoDay(w) ==
  /\ job[w].step = "minuteLocked"
  /\ ReadUsage(w)
  /\ UNCHANGED <<fetcher, usage, window, now, history, faults>>

LockDay(w) ==
  /\ job[w].step = "minuteLocked"
  /\ \A v \in Workers : ~HoldsDay(v, job[w].fetcher, DayOf(job[w].at))
  /\ ReadUsage(w)
  /\ UNCHANGED <<fetcher, usage, window, now, history, faults>>

Free(used, items, cap) == cap = 0 \/ used + items <= cap

Fits(j) ==
  /\ Free(j.minuteUsed, j.items, j.caps.minute)
  /\ Free(j.dayUsed, j.items, j.caps.day)

\* Both buckets are raised, and the transaction is committed.
Charge(w) ==
  LET j == job[w]
  IN  /\ j.step = "locked"
      /\ Fits(j)
      /\ minutes' = [minutes EXCEPT ![j.fetcher][j.at] = @ + j.items]
      /\ days' = [days EXCEPT ![j.fetcher][DayOf(j.at)] = @ + j.items]
      /\ Ends(w)
      /\ UNCHANGED <<fetcher, window, now, history, faults>>

\* Slip: only the quota of the minute rolls the transaction back.
RefuseHolding(w) ==
  /\ job[w].step = "locked"
  /\ ~Free(job[w].minuteUsed, job[w].items, job[w].caps.minute)
  /\ Ends(w)
  /\ UNCHANGED <<fetcher, usage, window, now, history, faults>>

\* 429; the transaction is rolled back.
Refuse(w) ==
  /\ job[w].step = "locked"
  /\ ~Fits(job[w])
  /\ Ends(w)
  /\ UNCHANGED <<fetcher, usage, window, now, history, faults>>

-----------------------------------------------------------------------------
(* Time and failures. *)

Tick ==
  /\ now < LastMinute
  /\ now' = now + 1
  /\ UNCHANGED <<fetcher, usage, window, job, history, faults>>

Happens ==
  /\ faults < MaxFaults
  /\ faults' = faults + 1

\* Slip: a registration that could not be set to pending goes on.
AfterFailureOn(step) == IF step = "holding" THEN "keying" ELSE "idle"

\* Where a request goes on when its statement fails.
AfterFailure(step) == "idle"

\* A statement fails, or the wait for a row is too long: 429 or 500, with the
\* transaction rolled back.
Fail(w) ==
  /\ job[w].step \notin {"idle", "admitted"}
  /\ Happens
  /\ IF AfterFailure(job[w].step) = "idle" THEN Ends(w)
     ELSE Goes(w, AfterFailure(job[w].step))
  /\ UNCHANGED <<fetcher, usage, window, now, history>>

\* The process is killed and starts again; the transactions are rolled back.
Crash ==
  /\ Happens
  /\ window' = NoWindow
  /\ job' = [w \in Workers |-> NoJob]
  /\ UNCHANGED <<fetcher, usage, now, history>>

-----------------------------------------------------------------------------

Registers(w) == Register(w) \/ InsertFetcher(w) \/ SetPending(w) \/ InsertKey(w)
Asks(w) == RequestPromotion(w) \/ InsertRequest(w)
Waits(w) == LockMinute(w) \/ LockDay(w)
Consumes(w) == Submit(w) \/ Stamp(w) \/ Waits(w) \/ Charge(w) \/ Refuse(w)
Operator(f) == Decide(f) \/ Suspend(f) \/ Revoke(f)

Next ==
  \/ \E w \in Workers : Registers(w) \/ Asks(w) \/ Consumes(w) \/ Fail(w)
  \/ \E f \in Fetchers : Operator(f)
  \/ Tick \/ Crash

\* A request goes on by itself, and MySQL serves those that wait for a row in
\* their order.  Clients, operators and the clock need not do anything.
Proceeds(w) ==
  \/ InsertFetcher(w) \/ SetPending(w) \/ InsertKey(w) \/ InsertRequest(w)
  \/ Stamp(w) \/ Charge(w) \/ Refuse(w)

Fairness == \A w \in Workers :
  /\ WF_vars(Proceeds(w))
  /\ SF_vars(LockMinute(w))
  /\ SF_vars(LockDay(w))

Spec == Init /\ [][Next]_vars
FairSpec == Spec /\ Fairness

-----------------------------------------------------------------------------
(* Properties. *)

\* Of an allowance that was raised or lowered meanwhile, the largest counts, and
\* a fetcher that ever was without a limit has none.
Within(used, allowed) == 0 \in allowed \/ \E c \in allowed : used <= c

\* However many requests of a fetcher are served at once, in whatever minutes
\* they were stamped and however long they waited, no minute and no day is
\* charged more items than a cap that the fetcher has had
\* (ConsumeQuotaV1, fetcher_keys_v1.go:323).
QuotaHeld == \A f \in Fetchers :
  /\ \A t \in Minutes : Within(minutes[f][t], {c.minute : c \in hadCaps[f]})
  /\ \A d \in DOMAIN days[f] : Within(days[f][d], {c.day : c \in hadCaps[f]})

\* A fetcher that registered itself stays outside until an operator lets it in,
\* even if its registration fails half-way, when its row is still active
\* (RegisterFetcherV1, ingest_v1.go:231 and :236; FetcherKeyAuthV1).
NoneUninvited == [][
  \A w \in Workers :
    job[w].step = "idle" /\ job'[w].step \in {"requesting", "admitted"}
      => job'[w].fetcher \in letIn]_vars

\* No request waits for ever for the rows of the quota: the transactions take
\* them in one order, and every path out of ConsumeQuotaV1 lets go of them.
Served == \A w \in Workers : job[w].step # "idle" ~> job[w].step = "idle"
=============================================================================
