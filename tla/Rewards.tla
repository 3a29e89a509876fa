-------------------------------- MODULE Rewards --------------------------------
(***************************************************************************)
(* The KITN ledger: the tokens of a user that the users table counts, and  *)
(* those that the chain has paid.  Reports and verified responses earn     *)
(* KITNs (report-listener, report-processor); the redemption awards a      *)
(* share of them to the referrers of the user, one level after the other,  *)
(* and the disbursement pays what is due in batches (pipelines).  The      *)
(* backend creates users with a first KITN, which it counts as paid: the   *)
(* handler passes no disburser, so nothing pays it.                        *)
(*                                                                         *)
(* Runs of the pipelines are HTTP requests: two may overlap, and the       *)
(* process may die in any of them.  The statements of a redemption run     *)
(* outside the transaction it opens, so each of them stays.                *)
(***************************************************************************)
EXTENDS Integers, FiniteSets, Functions

CONSTANTS
  Users,
  Referrer,     \* whose referral code a user has joined with, if any
  Newcomers,    \* users who have not been created yet
  Unmatched,    \* users whose id is not what the chain's library writes for its address
  Redemptions,  \* redemptions under way at the same time
  Disbursals,   \* disbursements under way at the same time
  BatchSize,    \* users paid by one transaction
  Failures,     \* kinds of failure that may happen
  MaxFaults,    \* how many failures may happen (a bound)
  MaxEarned,    \* how many KITNs are earned (a bound)
  MaxRuns,      \* how many redemptions and disbursements are made (a bound)
  None

FailureKinds == {"award", "mark", "funds", "receiver", "events",
                  "record", "crash"}

ASSUME ConstantsAssumption ==
  /\ None \notin Users
  /\ Newcomers \subseteq Users
  /\ Unmatched \subseteq Users
  /\ Referrer \in [Users -> Users \cup {None}]
  /\ BatchSize \in Nat \ {0}
  /\ Failures \subseteq FailureKinds
  /\ MaxFaults \in Nat
  /\ MaxEarned \in Nat
  /\ MaxRuns \in Nat

\* A KITN has that many units, so that a tenth of it, and half of that, is whole.
Unit == 20

VARIABLES
  known,         \* users in the table
  daily,         \* KITNs due to a user, kitns_daily
  disbursed,     \* KITNs paid, kitns_disbursed
  refDaily,      \* units of referral awards due, kitns_ref_daily
  refDisbursed,  \* units of referral awards paid, kitns_ref_disbursed
  redeemed,      \* KITNs whose share the referrers have, kitns_ref_redeemed
  wallet,        \* units the chain has paid to the address a user's id is read as
  rows,          \* rows a redemption has still to redeem
  row,           \* the row it is at, the next referrer and the level, or None
  due,           \* rows a disbursement has still to pay
  paid,          \* rows it has paid and has still to record
  earned,        \* history: KITNs a user has been credited with
  awarded,       \* history: units of referral awards it has been credited with
  given,         \* history: KITNs of a user that a referrer had a share of
  slipped,       \* history: users for whom a step failed, or whom two runs met
  runs,          \* history: runs so far
  faults         \* history: failures so far

table == <<known, daily, disbursed, refDaily, refDisbursed, redeemed>>
redemption == <<rows, row>>
disbursal == <<due, paid>>
history == <<earned, awarded, given, slipped, runs, faults>>
vars == <<table, wallet, redemption, disbursal, history>>

Rows == [user : Users, kitns : Nat, next : Users \cup {None}, level : Nat \ {0}]
Due == [user : Users, kitns : Int, ref : Int]

ASSUME NoneAssumption == None \notin Rows

TypeOK ==
  /\ known \subseteq Users
  /\ \A f \in {daily, disbursed, refDaily, refDisbursed} : f \in [Users -> Int]
  /\ \A f \in {redeemed, wallet, earned, awarded, given} : f \in [Users -> Nat]
  /\ rows \in [Redemptions -> SUBSET [user : Users, kitns : Nat]]
  /\ row \in [Redemptions -> Rows \cup {None}]
  /\ due \in [Disbursals -> SUBSET Due]
  /\ paid \in [Disbursals -> SUBSET Due]
  /\ slipped \subseteq Users
  /\ runs \in 0..MaxRuns
  /\ faults \in 0..MaxFaults

Nothing == [u \in Users |-> 0]

Init ==
  /\ known = Users \ Newcomers
  /\ daily = Nothing /\ disbursed = Nothing
  /\ refDaily = Nothing /\ refDisbursed = Nothing /\ redeemed = Nothing
  /\ wallet = Nothing
  /\ earned = Nothing /\ awarded = Nothing /\ given = Nothing
  /\ rows = [r \in Redemptions |-> {}]
  /\ row = [r \in Redemptions |-> None]
  /\ due = [d \in Disbursals |-> {}]
  /\ paid = [d \in Disbursals |-> {}]
  /\ slipped = {}
  /\ runs = 0
  /\ faults = 0

Works == UNCHANGED <<slipped, faults>>

Fails(kind, S) ==
  /\ kind \in Failures
  /\ faults < MaxFaults
  /\ faults' = faults + 1
  /\ slipped' = slipped \cup S

Adds(f, u, n) == [f EXCEPT ![u] = @ + n]

Total(f) == FoldFunction(+, 0, f)

-----------------------------------------------------------------------------
(* Earning. *)

\* A KITN for a report that is no replay, or for a verified response.  A user who
\* is not in the table earns nothing, silently.
Earn(u) ==
  /\ Total(earned) < MaxEarned
  /\ u \in known
  /\ daily' = Adds(daily, u, 1)
  /\ earned' = Adds(earned, u, 1)
  /\ UNCHANGED <<known, disbursed, refDaily, refDisbursed, redeemed, wallet,
                 redemption, disbursal, awarded, given, slipped, runs, faults>>

CreateUser(u) ==
  /\ u \notin known
  /\ known' = known \cup {u}
  /\ disbursed' = [disbursed EXCEPT ![u] = 1]
  /\ earned' = Adds(earned, u, 1)
  /\ UNCHANGED <<daily, refDaily, refDisbursed, redeemed, wallet, redemption,
                 disbursal, awarded, given, slipped, runs, faults>>

-----------------------------------------------------------------------------
(* Redeeming referrals. *)

Begins == runs < MaxRuns /\ runs' = runs + 1

\* Users in the rows a redemption still holds.
Redeeming(r) == {q.user : q \in rows[r]} \cup (IF row[r] = None THEN {} ELSE {row[r].user})

\* Slip: what has been redeemed before is redeemed again with the rest.
ToReferAll(u) == daily[u] + disbursed[u]

\* KITNs of a user that no referrer has had a share of.
ToRefer(u) == daily[u] + disbursed[u] - redeemed[u]

\* The rows are read.  A user whom another redemption holds is redeemed twice.
ReadReferred(r) ==
  /\ Redeeming(r) = {}
  /\ Begins
  /\ LET Referred == {u \in known : Referrer[u] # None /\ ToRefer(u) > 0} IN
       /\ rows' = [rows EXCEPT ![r] = {[user |-> u, kitns |-> ToRefer(u)] : u \in Referred}]
       /\ slipped' = slipped \cup (Referred \cap UNION {Redeeming(q) : q \in Redemptions})
  /\ UNCHANGED <<table, wallet, row, disbursal, earned, awarded, given, faults>>

TakeRow(r) ==
  /\ row[r] = None
  /\ \E q \in rows[r] :
       /\ rows' = [rows EXCEPT ![r] = @ \ {q}]
       /\ row' = [row EXCEPT ![r] =
            [user |-> q.user, kitns |-> q.kitns, next |-> Referrer[q.user], level |-> 1]]
  /\ UNCHANGED <<table, wallet, disbursal, history>>

\* A tenth for the referrer, half of that for the referrer's, and so on.
Award(kitns, level) == (kitns * Unit) \div (10 * level)

\* One level of redeemStep.  A failure leaves the levels below awarded.
RedeemStep(r) ==
  /\ row[r] # None
  /\ row[r].next # None
  /\ LET q == row[r]  award == Award(q.kitns, q.level) IN
       \/ /\ Works
          /\ IF q.next \in known
             THEN /\ refDaily' = Adds(refDaily, q.next, award)
                  /\ awarded' = Adds(awarded, q.next, award)
             ELSE UNCHANGED <<refDaily, awarded>>
          /\ given' = IF q.level = 1 THEN Adds(given, q.user, q.kitns) ELSE given
          /\ row' = [row EXCEPT ![r] =
               [user |-> q.user, kitns |-> q.kitns, level |-> q.level + 1,
                next |-> IF q.next \in known THEN Referrer[q.next] ELSE None]]
       \/ /\ Fails("award", {q.user})
          /\ row' = [row EXCEPT ![r] = None]
          /\ UNCHANGED <<refDaily, awarded, given>>
  /\ UNCHANGED <<known, daily, disbursed, refDisbursed, redeemed, wallet, rows,
                 disbursal, earned, runs>>

\* The chain has ended: what has been redeemed is stored.
StoreRedeemed(r) ==
  /\ row[r] # None
  /\ row[r].next = None
  /\ \/ Works /\ redeemed' = Adds(redeemed, row[r].user, row[r].kitns)
     \/ Fails("mark", {row[r].user}) /\ UNCHANGED redeemed
  /\ row' = [row EXCEPT ![r] = None]
  /\ UNCHANGED <<known, daily, disbursed, refDaily, refDisbursed, wallet, rows,
                 disbursal, earned, awarded, given, runs>>

-----------------------------------------------------------------------------
(* Disbursing. *)

Disbursing(d) == {q.user : q \in due[d] \cup paid[d]}

ReadDue(d) ==
  /\ Disbursing(d) = {}
  /\ Begins
  /\ LET Creditors == {u \in known : daily[u] > 0 \/ refDaily[u] > 0} IN
       /\ due' = [due EXCEPT ![d] =
            {[user |-> u, kitns |-> daily[u], ref |-> refDaily[u]] : u \in Creditors}]
       /\ slipped' = slipped \cup
            (Creditors \cap UNION {Disbursing(e) : e \in Disbursals})
  /\ UNCHANGED <<table, wallet, redemption, paid, earned, awarded, given, faults>>

\* What is due to a user.
Amount(q) == Unit * q.kitns + q.ref

\* The next rows, as many as one transaction pays.
Batches(d) ==
  {B \in SUBSET due[d] :
     Cardinality(B) = IF Cardinality(due[d]) < BatchSize THEN Cardinality(due[d])
                      ELSE BatchSize}

Pays(B) ==
  wallet' = [u \in Users |->
    IF \E q \in B : q.user = u
    THEN wallet[u] + Amount(CHOOSE q \in B : q.user = u) ELSE wallet[u]]

\* Slip: the receivers for whom the contract failed are taken for paid.
ReceiversAll(batch, failed) == batch

\* Slip: when the contract fails for one, nobody is taken for paid.
ReceiversNone(batch, failed) == {}

\* An amount below zero, of a user who has been paid twice, is none that the
\* contract could pay (uint256).
Refused(batch) == {q \in batch : Amount(q) < 0}

\* Receivers that the event of the transaction reports as paid.
Receivers(batch, failed) == batch \ failed

\* The contract may lack funds, it may fail to pay a receiver, and the events of a
\* transaction that has been made may not be read.
DisburseBatch(d) ==
  /\ due[d] # {}
  /\ paid[d] = {}
  /\ \E B \in Batches(d) :
       \/ \E failed \in {Refused(B)} \cup {Refused(B) \cup {q} : q \in B} :
            /\ IF failed = Refused(B) THEN Works ELSE Fails("receiver", {})
            /\ Pays(B \ failed)
            /\ paid' = [paid EXCEPT ![d] = Receivers(B, failed)]
            /\ due' = [due EXCEPT ![d] = @ \ B]
       \/ /\ Fails("events", {q.user : q \in B})
          /\ Pays(B \ Refused(B))
          /\ due' = [due EXCEPT ![d] = {}]
          /\ UNCHANGED paid
       \/ /\ Fails("funds", {})
          /\ due' = [due EXCEPT ![d] = {}]
          /\ UNCHANGED <<wallet, paid>>
  /\ UNCHANGED <<table, redemption, earned, awarded, given, runs>>

\* Slip: the balance is cleared, with what has been earned since it was read.
LeftCleared(u, kitns) == 0

\* KITNs still due to a user of whom some have been paid.
Left(u, kitns) == daily[u] - kitns

\* The update may fail, and the address may be no user's id as it stands in the
\* table, which is no error at all.
Unrecorded(u) ==
  \/ u \in Unmatched /\ slipped' = slipped \cup {u} /\ UNCHANGED faults
  \/ Fails("record", {u})

\* updateDisbursed, whose error is ignored.
RecordDisbursed(d) ==
  /\ \E q \in paid[d] :
       /\ paid' = [paid EXCEPT ![d] = @ \ {q}]
       /\ \/ /\ Works
             /\ q.user \notin Unmatched
             /\ daily' = [daily EXCEPT ![q.user] = Left(q.user, q.kitns)]
             /\ refDaily' = Adds(refDaily, q.user, -q.ref)
             /\ disbursed' = Adds(disbursed, q.user, q.kitns)
             /\ refDisbursed' = Adds(refDisbursed, q.user, q.ref)
          \/ Unrecorded(q.user) /\ UNCHANGED <<daily, refDaily, disbursed, refDisbursed>>
  /\ UNCHANGED <<known, redeemed, wallet, redemption, due, earned, awarded, given, runs>>

-----------------------------------------------------------------------------
\* The process of the pipelines dies in whatever it was doing.
Crash ==
  /\ Fails("crash", {u \in Users :
       \/ \E d \in Disbursals : \E q \in paid[d] : q.user = u
       \/ \E r \in Redemptions : row[r] # None /\ row[r].user = u})
  /\ rows' = [r \in Redemptions |-> {}]
  /\ row' = [r \in Redemptions |-> None]
  /\ due' = [d \in Disbursals |-> {}]
  /\ paid' = [d \in Disbursals |-> {}]
  /\ UNCHANGED <<table, wallet, earned, awarded, given, runs>>

Next ==
  \/ \E u \in Users : Earn(u) \/ CreateUser(u)
  \/ \E r \in Redemptions :
       ReadReferred(r) \/ TakeRow(r) \/ RedeemStep(r) \/ StoreRedeemed(r)
  \/ \E d \in Disbursals : ReadDue(d) \/ DisburseBatch(d) \/ RecordDisbursed(d)
  \/ Crash

Spec == Init /\ [][Next]_vars

-----------------------------------------------------------------------------
(* Properties. *)

\* KITNs earned and awards are due or paid, in the table: a disbursement that
\* overlaps with reports, redemptions and other disbursements loses none of them,
\* and makes none up.
NoneLost ==
  \A u \in Users :
    /\ daily[u] + disbursed[u] = earned[u]
    /\ refDaily[u] + refDisbursed[u] = awarded[u]

\* What the table counts as paid has been paid, but for the first KITN of users
\* the backend has created: whatever the contract and the process do.
RecordedIsPaid ==
  \A u \in Users :
    Unit * disbursed[u] + refDisbursed[u]
      <= wallet[u] + IF u \in Newcomers THEN Unit ELSE 0

\* Nobody is paid more than was earned, unless a payment was not recorded or two
\* disbursements met.
NoneOverpaid ==
  \A u \in Users \ slipped : wallet[u] <= Unit * earned[u] + awarded[u]

\* Referrers have no more than one share of a KITN, unless a redemption failed
\* half-way or two of them met.
SharedOnce ==
  \A u \in Users \ slipped : given[u] <= earned[u]
=============================================================================
