---------------------------- MODULE RewardsProofs ----------------------------
(***************************************************************************)
(* Theorems about the KITN ledger: for any number of users, redemptions,   *)
(* disbursements and failures, its variables keep their types, the table   *)
(* loses and makes up nothing, referrers share a KITN once, nobody is      *)
(* overpaid, and what is recorded as paid was paid.                        *)
(***************************************************************************)
EXTENDS Rewards, FiniteSetTheorems, TLAPS

(***************************************************************************)
(* NoneLost is not inductive alone: a user is created with one KITN counted *)
(* as paid, whatever was counted before, so that nothing may have been      *)
(* counted for a user who is not in the table.                              *)
(***************************************************************************)
Strangers == \A u \in Users \ known : disbursed[u] = 0

DueKnown == \A d \in Disbursals : \A q \in due[d] \cup paid[d] : q.user \in known

Inv == TypeOK /\ Strangers /\ DueKnown /\ NoneLost

LEMMA AddsInt ==
  ASSUME NEW f \in [Users -> Int], NEW u \in Users, NEW n \in Int
  PROVE  /\ Adds(f, u, n) \in [Users -> Int]
         /\ \A v \in Users : Adds(f, u, n)[v] = IF v = u THEN f[v] + n ELSE f[v]
BY DEF Adds

LEMMA AddsNat ==
  ASSUME NEW f \in [Users -> Nat], NEW u \in Users, NEW n \in Nat
  PROVE  Adds(f, u, n) \in [Users -> Nat]
BY DEF Adds

LEMMA AwardNat ==
  ASSUME NEW kitns \in Nat, NEW level \in Nat \ {0}
  PROVE  Award(kitns, level) \in Nat
<1>1. kitns * Unit \in Nat /\ 10 * level \in Nat \ {0}
  BY DEF Unit
<1>2. \A a \in Nat, b \in Nat \ {0} : a \div b \in Nat
  OBVIOUS
<1>3. QED
  BY <1>1, <1>2 DEF Award

\* A failure, and the lack of one, keep the types of the history.
LEMMA OutcomeTyped ==
  ASSUME TypeOK, NEW kind, NEW S \in SUBSET Users, Works \/ Fails(kind, S)
  PROVE  slipped' \subseteq Users /\ faults' \in 0..MaxFaults
BY ConstantsAssumption DEF TypeOK, Works, Fails

-----------------------------------------------------------------------------
LEMMA InvInit == Init => Inv
<1> SUFFICES ASSUME Init PROVE Inv
  OBVIOUS
<1>1. Nothing \in [Users -> Nat] /\ Nothing \in [Users -> Int]
  BY DEF Nothing
<1>2. TypeOK
  BY <1>1, ConstantsAssumption DEF Init, TypeOK
<1>3. Strangers /\ DueKnown /\ NoneLost
  BY DEF Init, Strangers, DueKnown, NoneLost, Nothing
<1>4. QED
  BY <1>2, <1>3 DEF Inv

LEMMA EarnInv ==
  ASSUME Inv, NEW u \in Users, Earn(u)
  PROVE  Inv'
<1> USE DEF Inv, Earn
<1>1. /\ daily' \in [Users -> Int] /\ earned' \in [Users -> Nat]
      /\ \A v \in Users : daily'[v] = IF v = u THEN daily[v] + 1 ELSE daily[v]
      /\ \A v \in Users : earned'[v] = IF v = u THEN earned[v] + 1 ELSE earned[v]
  BY DEF TypeOK, Adds
<1>2. TypeOK'
  BY <1>1 DEF TypeOK, redemption, disbursal
<1>3. Strangers' /\ DueKnown'
  BY DEF Strangers, DueKnown, disbursal
<1>4. NoneLost'
  BY <1>1 DEF NoneLost, TypeOK
<1>5. QED
  BY <1>2, <1>3, <1>4

LEMMA CreateUserInv ==
  ASSUME Inv, NEW u \in Users, CreateUser(u)
  PROVE  Inv'
<1> USE DEF Inv, CreateUser
<1>1. /\ disbursed' \in [Users -> Int] /\ earned' \in [Users -> Nat]
      /\ \A v \in Users : disbursed'[v] = IF v = u THEN 1 ELSE disbursed[v]
      /\ \A v \in Users : earned'[v] = IF v = u THEN earned[v] + 1 ELSE earned[v]
  BY DEF TypeOK, Adds
<1>2. TypeOK'
  BY <1>1 DEF TypeOK, redemption, disbursal
<1>3. Strangers' /\ DueKnown'
  BY <1>1 DEF Strangers, DueKnown, disbursal
<1>4. NoneLost'
  BY <1>1 DEF NoneLost, Strangers, TypeOK
<1>5. QED
  BY <1>2, <1>3, <1>4

-----------------------------------------------------------------------------
(* Redeeming. *)

LEMMA ReadReferredInv ==
  ASSUME Inv, NEW r \in Redemptions, ReadReferred(r)
  PROVE  Inv'
<1> USE DEF Inv, ReadReferred, Begins
<1> DEFINE Referred == {u \in known : Referrer[u] # None /\ ToRefer(u) > 0}
<1>1. \A u \in Referred : u \in Users /\ ToRefer(u) \in Nat
  BY DEF TypeOK, ToRefer
<1>2. rows' \in [Redemptions -> SUBSET [user : Users, kitns : Nat]]
  BY <1>1 DEF TypeOK
<1>3. slipped' \subseteq Users
  BY <1>1 DEF TypeOK
<1>4. runs' \in 0..MaxRuns
  BY ConstantsAssumption DEF TypeOK
<1>5. TypeOK'
  BY <1>2, <1>3, <1>4 DEF TypeOK, table, disbursal
<1>6. QED
  BY <1>5 DEF Strangers, DueKnown, NoneLost, table, disbursal

LEMMA TakeRowInv ==
  ASSUME Inv, NEW r \in Redemptions, TakeRow(r)
  PROVE  Inv'
<1> USE DEF Inv, TakeRow
<1>1. rows' \in [Redemptions -> SUBSET [user : Users, kitns : Nat]]
  BY DEF TypeOK
<1>2. row' \in [Redemptions -> Rows \cup {None}]
  BY ConstantsAssumption DEF TypeOK, Rows
<1>3. TypeOK'
  BY <1>1, <1>2 DEF TypeOK, table, disbursal, history
<1>4. QED
  BY <1>3 DEF Strangers, DueKnown, NoneLost, table, disbursal, history

LEMMA RedeemStepInv ==
  ASSUME Inv, NEW r \in Redemptions, RedeemStep(r)
  PROVE  Inv'
<1> DEFINE q == row[r]
           award == Award(q.kitns, q.level)
<1>1. /\ q \in Rows
      /\ q.next \in Users
  BY DEF Inv, TypeOK, RedeemStep, Rows
<1>2. award \in Nat
  BY <1>1, AwardNat DEF Rows
<1> HIDE DEF award
<1>3. /\ refDaily' \in [Users -> Int]
      /\ awarded' \in [Users -> Nat]
      /\ \A v \in Users : refDaily[v] - awarded[v] = refDaily'[v] - awarded'[v]
  <2>1. CASE /\ refDaily' = Adds(refDaily, q.next, award)
             /\ awarded' = Adds(awarded, q.next, award)
    BY <1>1, <1>2, <2>1 DEF Inv, TypeOK, Adds
  <2>2. CASE UNCHANGED <<refDaily, awarded>>
    BY <2>2 DEF Inv, TypeOK
  <2>3. QED
    BY <2>1, <2>2 DEF RedeemStep, award
<1>4. given' \in [Users -> Nat]
  BY <1>1 DEF RedeemStep, Adds, Inv, TypeOK, Rows
<1>5. row' \in [Redemptions -> Rows \cup {None}]
  <2> DEFINE onward == IF q.next \in known THEN Referrer[q.next] ELSE None
  <2>1. onward \in Users \cup {None}
    BY <1>1, ConstantsAssumption
  <2> DEFINE moved == [user |-> q.user, kitns |-> q.kitns, level |-> q.level + 1,
                       next |-> onward]
  <2>2. moved \in Rows
    BY <1>1, <2>1 DEF Rows
  <2>3. row' = [row EXCEPT ![r] = moved] \/ row' = [row EXCEPT ![r] = None]
    BY DEF RedeemStep
  <2> HIDE DEF moved
  <2>4. QED
    BY <2>2, <2>3 DEF Inv, TypeOK
<1>6. slipped' \subseteq Users /\ faults' \in 0..MaxFaults
  BY <1>1, OutcomeTyped DEF RedeemStep, Inv, Rows
<1>7. TypeOK'
  BY <1>3, <1>4, <1>5, <1>6 DEF TypeOK, RedeemStep, Inv, disbursal
<1>8. NoneLost'
  <2>1. UNCHANGED <<daily, disbursed, refDisbursed, earned>>
    BY DEF RedeemStep
  <2>2. \A u \in Users : /\ refDaily[u] \in Int /\ refDaily'[u] \in Int
                        /\ awarded[u] \in Int /\ awarded'[u] \in Int
                        /\ refDisbursed[u] \in Int
    BY <1>3 DEF Inv, TypeOK
  <2>3. ASSUME NEW u \in Users
        PROVE  refDaily'[u] + refDisbursed'[u] = awarded'[u]
    <3>1. refDaily[u] + refDisbursed[u] = awarded[u]
      BY DEF NoneLost, Inv
    <3>2. refDaily[u] - awarded[u] = refDaily'[u] - awarded'[u]
      BY <1>3
    <3>3. QED
      BY <2>1, <2>2, <3>1, <3>2
  <2>4. QED
    BY <2>1, <2>3 DEF NoneLost, Inv
<1>9. Strangers' /\ DueKnown'
  BY DEF Strangers, DueKnown, RedeemStep, Inv, disbursal
<1>10. QED
  BY <1>7, <1>8, <1>9 DEF Inv

LEMMA StoreRedeemedInv ==
  ASSUME Inv, NEW r \in Redemptions, StoreRedeemed(r)
  PROVE  Inv'
<1> USE DEF Inv, StoreRedeemed
<1>1. row[r] \in Rows
  BY DEF TypeOK, Rows
<1>2. redeemed' \in [Users -> Nat]
  <2>1. Adds(redeemed, row[r].user, row[r].kitns) \in [Users -> Nat]
    BY <1>1, AddsNat DEF TypeOK, Rows
  <2>2. QED
    BY <2>1 DEF TypeOK
<1>3. slipped' \subseteq Users /\ faults' \in 0..MaxFaults
  BY <1>1, OutcomeTyped DEF Rows
<1>4. TypeOK'
  BY <1>2, <1>3 DEF TypeOK, disbursal
<1>5. QED
  BY <1>4 DEF Strangers, DueKnown, NoneLost, disbursal

-----------------------------------------------------------------------------
(* Disbursing. *)

LEMMA ReadDueInv ==
  ASSUME Inv, NEW d \in Disbursals, ReadDue(d)
  PROVE  Inv'
<1> USE DEF Inv, ReadDue, Begins
<1> DEFINE Creditors == {u \in known : daily[u] > 0 \/ refDaily[u] > 0}
<1>1. \A u \in Creditors : u \in Users /\ daily[u] \in Int /\ refDaily[u] \in Int
  BY DEF TypeOK
<1>2. due' \in [Disbursals -> SUBSET Due]
  BY <1>1 DEF TypeOK, Due
<1>3. slipped' \subseteq Users
  BY <1>1 DEF TypeOK
<1>4. runs' \in 0..MaxRuns
  BY ConstantsAssumption DEF TypeOK
<1>5. TypeOK'
  BY <1>2, <1>3, <1>4 DEF TypeOK, table, redemption
<1>6. DueKnown'
  BY DEF DueKnown, TypeOK, table
<1>7. QED
  BY <1>5, <1>6 DEF Strangers, NoneLost, table

\* The wallets of the receivers grow, by amounts that are not negative.
LEMMA PaysTyped ==
  ASSUME TypeOK, NEW B \in SUBSET Due, \A q \in B : Amount(q) >= 0, Pays(B)
  PROVE  wallet' \in [Users -> Nat]
<1>1. \A q \in B : Amount(q) \in Nat
  BY DEF Amount, Due, Unit
<1>2. ASSUME NEW u \in Users, \E q \in B : q.user = u
      PROVE  Amount(CHOOSE q \in B : q.user = u) \in Nat
  BY <1>1, <1>2
<1>3. QED
  BY <1>2 DEF Pays, TypeOK

\* Whatever becomes of a batch, some of its rows are paid and are to be recorded,
\* or not, and no row comes to those that are due.
BatchEffect(d) ==
  /\ wallet' \in [Users -> Nat]
  /\ \E P \in SUBSET due[d] : paid' \in {paid, [paid EXCEPT ![d] = P]}
  /\ \E R \in SUBSET due[d] : due' = [due EXCEPT ![d] = R]
  /\ slipped' \subseteq Users /\ faults' \in 0..MaxFaults

LEMMA DisburseBatchEffect ==
  ASSUME Inv, NEW d \in Disbursals, DisburseBatch(d)
  PROVE  BatchEffect(d)
<1> USE DEF Inv
<1>1. due[d] \in SUBSET Due /\ wallet \in [Users -> Nat]
  BY DEF TypeOK
<1>2. ASSUME NEW B \in SUBSET due[d], NEW failed, Refused(B) \subseteq failed, Pays(B \ failed)
      PROVE  wallet' \in [Users -> Nat]
  <2>1. \A q \in B \ failed : Amount(q) >= 0
    BY <1>1, <1>2 DEF Refused, Amount, Due, Unit
  <2>2. QED
    BY <1>1, <1>2, <2>1, PaysTyped
<1>3. ASSUME NEW B \in SUBSET due[d],
             NEW failed \in {Refused(B)} \cup {Refused(B) \cup {q} : q \in B},
             IF failed = Refused(B) THEN Works ELSE Fails("receiver", {}),
             Pays(B \ failed),
             paid' = [paid EXCEPT ![d] = Receivers(B, failed)],
             due' = [due EXCEPT ![d] = @ \ B]
      PROVE  BatchEffect(d)
  <2>1. wallet' \in [Users -> Nat]
    BY <1>2, <1>3
  <2>2. Receivers(B, failed) \in SUBSET due[d] /\ due[d] \ B \in SUBSET due[d]
    BY DEF Receivers
  <2>3. slipped' \subseteq Users /\ faults' \in 0..MaxFaults
    BY <1>3, OutcomeTyped
  <2>4. QED
    BY <1>3, <2>1, <2>2, <2>3 DEF BatchEffect
<1>4. ASSUME NEW B \in SUBSET due[d], Fails("events", {q.user : q \in B}),
             Pays(B \ Refused(B)), due' = [due EXCEPT ![d] = {}], UNCHANGED paid
      PROVE  BatchEffect(d)
  <2>1. wallet' \in [Users -> Nat]
    BY <1>2, <1>4
  <2>2. {q.user : q \in B} \in SUBSET Users
    BY <1>1 DEF Due
  <2>3. slipped' \subseteq Users /\ faults' \in 0..MaxFaults
    BY <1>4, <2>2, OutcomeTyped
  <2>4. QED
    BY <1>4, <2>1, <2>3 DEF BatchEffect
<1>5. ASSUME Fails("funds", {}), due' = [due EXCEPT ![d] = {}], UNCHANGED <<wallet, paid>>
      PROVE  BatchEffect(d)
  <2>1. slipped' \subseteq Users /\ faults' \in 0..MaxFaults
    BY <1>5, OutcomeTyped
  <2>2. QED
    BY <1>1, <1>5, <2>1 DEF BatchEffect
<1>6. Batches(d) \subseteq SUBSET due[d]
  BY DEF Batches
<1>7. PICK B \in Batches(d) :
        \/ \E failed \in {Refused(B)} \cup {Refused(B) \cup {q} : q \in B} :
             /\ IF failed = Refused(B) THEN Works ELSE Fails("receiver", {})
             /\ Pays(B \ failed)
             /\ paid' = [paid EXCEPT ![d] = Receivers(B, failed)]
             /\ due' = [due EXCEPT ![d] = @ \ B]
        \/ /\ Fails("events", {q.user : q \in B})
           /\ Pays(B \ Refused(B))
           /\ due' = [due EXCEPT ![d] = {}]
           /\ UNCHANGED paid
        \/ /\ Fails("funds", {})
           /\ due' = [due EXCEPT ![d] = {}]
           /\ UNCHANGED <<wallet, paid>>
  BY DEF DisburseBatch
<1>8. QED
  BY <1>3, <1>4, <1>5, <1>6, <1>7

LEMMA DisburseBatchInv ==
  ASSUME Inv, NEW d \in Disbursals, DisburseBatch(d)
  PROVE  Inv'
<1> USE DEF Inv
<1>1. BatchEffect(d)
  BY DisburseBatchEffect
<1>2. PICK P \in SUBSET due[d], R \in SUBSET due[d] :
        paid' \in {paid, [paid EXCEPT ![d] = P]} /\ due' = [due EXCEPT ![d] = R]
  BY <1>1 DEF BatchEffect
<1>3. UNCHANGED <<table, redemption, earned, awarded, given, runs>>
  BY DEF DisburseBatch
<1>4. due' \in [Disbursals -> SUBSET Due] /\ paid' \in [Disbursals -> SUBSET Due]
  BY <1>2 DEF TypeOK
<1>5. TypeOK'
  BY <1>1, <1>3, <1>4 DEF BatchEffect, TypeOK, table, redemption
<1>6. DueKnown'
  BY <1>2, <1>3 DEF DueKnown, TypeOK, table
<1>7. QED
  BY <1>3, <1>5, <1>6 DEF Strangers, NoneLost, table

\* A payment that is not recorded.
LEMMA UnrecordedTyped ==
  ASSUME TypeOK, NEW u \in Users, Unrecorded(u)
  PROVE  slipped' = slipped \cup {u} /\ slipped' \subseteq Users /\ faults' \in 0..MaxFaults
BY ConstantsAssumption DEF TypeOK, Unrecorded, Fails

LEMMA RecordDisbursedInv ==
  ASSUME Inv, NEW d \in Disbursals, RecordDisbursed(d)
  PROVE  Inv'
<1> USE DEF Inv
<1>1. PICK q \in paid[d] :
        /\ paid' = [paid EXCEPT ![d] = @ \ {q}]
        /\ \/ /\ Works
              /\ daily' = [daily EXCEPT ![q.user] = Left(q.user, q.kitns)]
              /\ refDaily' = Adds(refDaily, q.user, -q.ref)
              /\ disbursed' = Adds(disbursed, q.user, q.kitns)
              /\ refDisbursed' = Adds(refDisbursed, q.user, q.ref)
           \/ /\ Unrecorded(q.user)
              /\ UNCHANGED <<daily, refDaily, disbursed, refDisbursed>>
  BY DEF RecordDisbursed
<1>2. q \in Due /\ q.user \in known /\ q.user \in Users /\ q.kitns \in Int /\ q.ref \in Int
  BY DEF TypeOK, Due, DueKnown
<1>3. UNCHANGED <<known, redeemed, wallet, redemption, due, earned, awarded, given, runs>>
  BY DEF RecordDisbursed
<1>4. slipped' \subseteq Users /\ faults' \in 0..MaxFaults
  BY <1>1, <1>2, UnrecordedTyped DEF TypeOK, Works
<1>5. paid' \in [Disbursals -> SUBSET Due]
  BY <1>1 DEF TypeOK
<1>6. DueKnown'
  BY <1>1, <1>3 DEF DueKnown, TypeOK
<1>7. /\ \A f \in {daily', disbursed', refDaily', refDisbursed'} : f \in [Users -> Int]
      /\ \A u \in Users : daily'[u] + disbursed'[u] = daily[u] + disbursed[u]
      /\ \A u \in Users : refDaily'[u] + refDisbursed'[u] = refDaily[u] + refDisbursed[u]
      /\ \A u \in Users \ known : disbursed'[u] = disbursed[u]
  <2>1. CASE UNCHANGED <<daily, refDaily, disbursed, refDisbursed>>
    BY <2>1 DEF TypeOK
  <2>2. CASE /\ daily' = [daily EXCEPT ![q.user] = Left(q.user, q.kitns)]
             /\ refDaily' = Adds(refDaily, q.user, -q.ref)
             /\ disbursed' = Adds(disbursed, q.user, q.kitns)
             /\ refDisbursed' = Adds(refDisbursed, q.user, q.ref)
    <3>1. /\ -q.ref \in Int /\ Left(q.user, q.kitns) \in Int
          /\ \A f \in {daily, disbursed, refDaily, refDisbursed} : f \in [Users -> Int]
      BY <1>2 DEF TypeOK, Left
    <3>2. \A f \in {daily', disbursed', refDaily', refDisbursed'} : f \in [Users -> Int]
      <4>1. daily' \in [Users -> Int]
        BY <1>2, <2>2, <3>1
      <4>2. /\ refDaily' \in [Users -> Int]
            /\ disbursed' \in [Users -> Int]
            /\ refDisbursed' \in [Users -> Int]
        BY <1>2, <2>2, <3>1 DEF Adds
      <4>3. QED
        BY <4>1, <4>2
    <3>3. ASSUME NEW u \in Users
          PROVE  /\ daily'[u] = IF u = q.user THEN daily[u] - q.kitns ELSE daily[u]
                 /\ disbursed'[u] = IF u = q.user THEN disbursed[u] + q.kitns ELSE disbursed[u]
                 /\ refDaily'[u] = IF u = q.user THEN refDaily[u] + -q.ref ELSE refDaily[u]
                 /\ refDisbursed'[u]
                      = IF u = q.user THEN refDisbursed[u] + q.ref ELSE refDisbursed[u]
      <4>1. u \in DOMAIN daily /\ u \in DOMAIN disbursed /\ u \in DOMAIN refDaily
            /\ u \in DOMAIN refDisbursed
        BY <3>1
      <4>2. QED
        BY <1>2, <2>2, <4>1 DEF Left, Adds
    <3>4. \A u \in Users : /\ daily[u] \in Int /\ disbursed[u] \in Int
                          /\ refDaily[u] \in Int /\ refDisbursed[u] \in Int
      BY <3>1
    <3>5. QED
      BY <1>2, <3>2, <3>3, <3>4
  <2>3. QED
    BY <1>1, <2>1, <2>2
<1>8. TypeOK'
  BY <1>3, <1>4, <1>5, <1>7 DEF TypeOK, redemption
<1>9. NoneLost' /\ Strangers'
  BY <1>3, <1>7 DEF NoneLost, Strangers, TypeOK
<1>10. QED
  BY <1>6, <1>8, <1>9

LEMMA CrashInv ==
  ASSUME Inv, Crash
  PROVE  Inv'
<1> USE DEF Inv, Crash
<1> DEFINE S == {u \in Users : \/ \E d \in Disbursals : \E q \in paid[d] : q.user = u
                               \/ \E r \in Redemptions : row[r] # None /\ row[r].user = u}
<1>1. S \in SUBSET Users /\ Fails("crash", S)
  OBVIOUS
<1>2. slipped' \subseteq Users /\ faults' \in 0..MaxFaults
  BY <1>1, OutcomeTyped
<1>3. TypeOK'
  BY <1>2 DEF TypeOK, table
<1>4. QED
  BY <1>3 DEF Strangers, DueKnown, NoneLost, table

-----------------------------------------------------------------------------
(* Theorems. *)

LEMMA InvStep == Inv /\ [Next]_vars => Inv'
<1> SUFFICES ASSUME Inv, [Next]_vars PROVE Inv'
  OBVIOUS
<1>1. ASSUME NEW u \in Users, Earn(u) \/ CreateUser(u) PROVE Inv'
  BY <1>1, EarnInv, CreateUserInv
<1>2. ASSUME NEW r \in Redemptions,
             ReadReferred(r) \/ TakeRow(r) \/ RedeemStep(r) \/ StoreRedeemed(r)
      PROVE  Inv'
  BY <1>2, ReadReferredInv, TakeRowInv, RedeemStepInv, StoreRedeemedInv
<1>3. ASSUME NEW d \in Disbursals, ReadDue(d) \/ DisburseBatch(d) \/ RecordDisbursed(d)
      PROVE  Inv'
  BY <1>3, ReadDueInv, DisburseBatchInv, RecordDisbursedInv
<1>4. CASE Crash
  BY <1>4, CrashInv
<1>5. CASE UNCHANGED vars
  BY <1>5 DEF vars, table, redemption, disbursal, history, Inv, TypeOK, Strangers,
        DueKnown, NoneLost
<1>6. QED
  BY <1>1, <1>2, <1>3, <1>4, <1>5 DEF Next

LEMMA Inductive == Spec => []Inv
BY InvInit, InvStep, PTL DEF Spec

\* Every variable of the ledger keeps its type: balances may fall below zero, when
\* disbursements meet, but nothing is taken back from a wallet.
THEOREM TypeCorrect == Spec => []TypeOK
<1>1. Inv => TypeOK
  BY DEF Inv
<1>2. QED
  BY <1>1, Inductive, PTL

\* KITNs earned and referral awards are due or paid, in the table, however many
\* disbursements and redemptions overlap with reports and with each other, and
\* whatever fails.
THEOREM Ledger == Spec => []NoneLost
<1>1. Inv => NoneLost
  BY DEF Inv
<1>2. QED
  BY <1>1, Inductive, PTL

-----------------------------------------------------------------------------
(* Referrers share a KITN once. *)

\* Rows of different users.
Alone(Q) == \A p, q \in Q : p.user = q.user => p = q

\* The row a redemption is at is of that user.
At(r, u) == row[r] # None /\ row[r].user = u

\* A redemption holds one row of a user who has a referrer.
RowInv ==
  \A r \in Redemptions :
    /\ Alone(rows[r])
    /\ \A q \in rows[r] : Referrer[q.user] # None /\ ~At(r, q.user)
    /\ row[r] # None /\ row[r].level = 1 => row[r].next # None

\* What a redemption that nothing has gone wrong with has read of a user is still
\* to be redeemed, and what the first referrer has a share of is redeemed or at
\* a level above.
ShareInv ==
  \A u \in Users \ slipped :
    /\ \A r, s \in Redemptions : u \in Redeeming(r) /\ u \in Redeeming(s) => r = s
    /\ redeemed[u] <= earned[u]
    /\ \A r \in Redemptions :
         /\ \A q \in rows[r] : q.user = u => redeemed[u] + q.kitns <= earned[u]
         /\ At(r, u) => /\ redeemed[u] + row[r].kitns <= earned[u]
                        /\ given[u] <= redeemed[u] + row[r].kitns
    /\ (\A r \in Redemptions : At(r, u) => row[r].level = 1) => given[u] <= redeemed[u]

LEMMA OutcomeSlips ==
  ASSUME NEW kind, NEW S, Works \/ Fails(kind, S)
  PROVE  slipped \subseteq slipped'
BY DEF Works, Fails

\* Steps of others, which may only earn a user more.
LEMMA ShareKept ==
  ASSUME TypeOK, TypeOK', RowInv, ShareInv, UNCHANGED <<redemption, redeemed, given>>,
         \A u \in Users : earned[u] <= earned'[u], slipped \subseteq slipped'
  PROVE  RowInv' /\ ShareInv'
<1>1. RowInv'
  BY DEF RowInv, redemption, At
<1>2. \A u \in Users : earned[u] \in Nat /\ earned'[u] \in Nat /\ redeemed[u] \in Nat
  BY DEF TypeOK
<1>3. \A r \in Redemptions : /\ \A q \in rows[r] : q.kitns \in Nat
                             /\ row[r] # None => row[r].kitns \in Nat
  BY DEF TypeOK, Rows
<1>4. ASSUME NEW u \in Users \ slipped'
      PROVE  /\ redeemed'[u] <= earned'[u]
             /\ \A r \in Redemptions :
                  /\ \A q \in rows'[r] : q.user = u => redeemed'[u] + q.kitns <= earned'[u]
                  /\ At(r, u)' => redeemed'[u] + row'[r].kitns <= earned'[u]
  BY <1>2, <1>3, <1>4 DEF ShareInv, redemption, At
<1>5. QED
  BY <1>1, <1>4 DEF ShareInv, redemption, At, Redeeming

LEMMA ReadReferredShares ==
  ASSUME Inv, Inv', RowInv, ShareInv, NEW r \in Redemptions, ReadReferred(r)
  PROVE  RowInv' /\ ShareInv'
<1> DEFINE Referred == {u \in known : Referrer[u] # None /\ ToRefer(u) > 0}
<1>1. /\ rows' = [rows EXCEPT ![r] = {[user |-> u, kitns |-> ToRefer(u)] : u \in Referred}]
      /\ slipped' = slipped \cup (Referred \cap UNION {Redeeming(q) : q \in Redemptions})
      /\ UNCHANGED <<row, redeemed, earned, given>>
  BY DEF ReadReferred, table
<1>2. row[r] = None /\ rows \in [Redemptions -> SUBSET [user : Users, kitns : Nat]]
  BY DEF ReadReferred, Redeeming, Inv, TypeOK
<1>3. /\ \A q \in rows'[r] : /\ q.user \in Referred /\ q.kitns = ToRefer(q.user)
                             /\ q = [user |-> q.user, kitns |-> ToRefer(q.user)]
      /\ \A s \in Redemptions \ {r} : rows'[s] = rows[s]
  BY <1>1, <1>2
<1> HIDE DEF Referred
<1>4. RowInv'
  <2>1. Alone(rows'[r])
    BY <1>3, Zenon DEF Alone
  <2>2. \A q \in rows'[r] : Referrer[q.user] # None
    BY <1>3 DEF Referred
  <2>3. QED
    BY <1>1, <1>2, <1>3, <2>1, <2>2 DEF RowInv, At
<1>5. ASSUME NEW u \in Users \ slipped', NEW q \in rows'[r], q.user = u
      PROVE  redeemed'[u] + q.kitns <= earned'[u] /\ \A s \in Redemptions : u \notin Redeeming(s)
  <2>1. q.kitns = ToRefer(u) /\ u \in Referred
    BY <1>3, <1>5
  <2>2. redeemed[u] + ToRefer(u) = earned[u]
    BY DEF ToRefer, Inv, NoneLost, TypeOK
  <2>3. \A s \in Redemptions : u \notin Redeeming(s)
    BY <1>1, <2>1
  <2>4. redeemed[u] \in Nat /\ earned[u] \in Nat /\ ToRefer(u) \in Int
    BY DEF ToRefer, Inv, TypeOK
  <2>5. QED
    BY <1>1, <2>1, <2>2, <2>3, <2>4
<1>6. /\ Redeeming(r)' = {q.user : q \in rows'[r]}
      /\ \A s \in Redemptions \ {r} : Redeeming(s)' = Redeeming(s)
  BY <1>1, <1>2, <1>3 DEF Redeeming
<1>7. ASSUME NEW u \in Users \ slipped', NEW s \in Redemptions, NEW t \in Redemptions,
             u \in Redeeming(s)', u \in Redeeming(t)'
      PROVE  s = t
  <2>1. u \in Redeeming(r)' => \A v \in Redemptions : u \notin Redeeming(v)
    BY <1>5, <1>6
  <2>2. s # r /\ t # r => s = t
    BY <1>1, <1>6, <1>7 DEF ShareInv
  <2>3. QED
    BY <1>6, <1>7, <2>1, <2>2
<1>8. ASSUME NEW u \in Users \ slipped'
      PROVE  /\ redeemed'[u] <= earned'[u]
             /\ \A s \in Redemptions :
                  At(s, u)' => /\ redeemed'[u] + row'[s].kitns <= earned'[u]
                               /\ given'[u] <= redeemed'[u] + row'[s].kitns
             /\ (\A s \in Redemptions : At(s, u)' => row'[s].level = 1)
                   => given'[u] <= redeemed'[u]
  <2>1. u \in Users \ slipped /\ \A s \in Redemptions : At(s, u)' <=> At(s, u)
    BY <1>1 DEF At
  <2>2. QED
    BY <1>1, <2>1 DEF ShareInv
<1>9. ASSUME NEW u \in Users \ slipped', NEW s \in Redemptions, NEW q \in rows'[s], q.user = u
      PROVE  redeemed'[u] + q.kitns <= earned'[u]
  <2>1. CASE s = r
    BY <1>5, <1>9, <2>1
  <2>2. CASE s # r
    BY <1>1, <1>3, <1>9, <2>2 DEF ShareInv
  <2>3. QED
    BY <2>1, <2>2
<1>10. ShareInv'
  BY <1>7, <1>8, <1>9 DEF ShareInv
<1>11. QED
  BY <1>4, <1>10

LEMMA TakeRowShares ==
  ASSUME Inv, RowInv, ShareInv, NEW r \in Redemptions, TakeRow(r)
  PROVE  RowInv' /\ ShareInv'
<1>1. PICK q \in rows[r] :
        /\ rows' = [rows EXCEPT ![r] = @ \ {q}]
        /\ row' = [row EXCEPT ![r] =
             [user |-> q.user, kitns |-> q.kitns, next |-> Referrer[q.user], level |-> 1]]
  BY DEF TakeRow
<1>2. row[r] = None /\ UNCHANGED <<redeemed, earned, given, slipped>>
  BY DEF TakeRow, table, history
<1>3. q.user \in Users /\ q.kitns \in Nat
  BY DEF Inv, TypeOK
<1>4. /\ rows'[r] = rows[r] \ {q} /\ row'[r].user = q.user /\ row'[r].kitns = q.kitns
      /\ row'[r].next = Referrer[q.user] /\ row'[r].level = 1 /\ row'[r] # None
      /\ \A s \in Redemptions \ {r} : rows'[s] = rows[s] /\ row'[s] = row[s]
  <2>1. [user |-> q.user, kitns |-> q.kitns, next |-> Referrer[q.user], level |-> 1] # None
    BY <1>3, ConstantsAssumption, NoneAssumption DEF Rows
  <2>2. QED
    BY <1>1, <2>1 DEF Inv, TypeOK
<1>5. RowInv'
  BY <1>4 DEF RowInv, Alone, At
<1>6. \A s \in Redemptions : Redeeming(s)' = Redeeming(s)
  <2>1. Redeeming(r) = {p.user : p \in rows[r]}
    BY <1>2 DEF Redeeming
  <2>2. Redeeming(r)' = {p.user : p \in rows[r] \ {q}} \cup {q.user}
    BY <1>4 DEF Redeeming
  <2>3. QED
    BY <1>4, <2>1, <2>2 DEF Redeeming
<1>7. ASSUME NEW u \in Users \ slipped'
      PROVE  /\ redeemed'[u] <= earned'[u]
             /\ \A s \in Redemptions :
                  \A p \in rows'[s] : p.user = u => redeemed'[u] + p.kitns <= earned'[u]
  BY <1>2, <1>4, <1>7 DEF ShareInv
<1>8. ASSUME NEW u \in Users \ slipped', \A s \in Redemptions : At(s, u)' => row'[s].level = 1
      PROVE  given'[u] <= redeemed'[u]
  BY <1>2, <1>4, <1>8 DEF ShareInv, At
<1>9. ASSUME NEW u \in Users \ slipped', NEW s \in Redemptions, At(s, u)'
      PROVE  /\ redeemed'[u] + row'[s].kitns <= earned'[u]
             /\ given'[u] <= redeemed'[u] + row'[s].kitns
  <2>1. CASE s = r
    <3>1. q.user = u /\ u \in Redeeming(r)
      BY <1>4, <1>9, <2>1 DEF At, Redeeming
    <3>2. \A t \in Redemptions : At(t, u) => t = r
      BY <1>2, <3>1 DEF ShareInv, At, Redeeming
    <3>3. given[u] <= redeemed[u] /\ redeemed[u] + q.kitns <= earned[u]
      BY <1>2, <3>1, <3>2 DEF ShareInv, At
    <3>4. given[u] \in Nat /\ redeemed[u] \in Nat
      BY DEF Inv, TypeOK
    <3>5. QED
      BY <1>2, <1>3, <1>4, <2>1, <3>3, <3>4
  <2>2. CASE s # r
    BY <1>2, <1>4, <1>9, <2>2 DEF ShareInv, At
  <2>3. QED
    BY <2>1, <2>2
<1>10. ShareInv'
  <2>1. \A u \in Users \ slipped' : \A s, t \in Redemptions :
          u \in Redeeming(s)' /\ u \in Redeeming(t)' => s = t
    BY <1>2, <1>6 DEF ShareInv
  <2>2. QED
    BY <1>7, <1>8, <1>9, <2>1 DEF ShareInv
<1>11. QED
  BY <1>5, <1>10

\* A redemption drops the row it is at: of a user who slips, or when all of it is
\* redeemed.
LEMMA DropRowShares ==
  ASSUME Inv, RowInv, ShareInv, NEW r \in Redemptions, row[r] # None,
         row' = [row EXCEPT ![r] = None], UNCHANGED <<rows, earned, given>>,
         \/ row[r].user \in slipped' /\ slipped \subseteq slipped' /\ UNCHANGED redeemed
         \/ /\ UNCHANGED slipped
            /\ redeemed' = Adds(redeemed, row[r].user, row[r].kitns)
  PROVE  RowInv' /\ ShareInv'
<1>0. PICK v \in Users, k \in Nat : v = row[r].user /\ k = row[r].kitns
  BY DEF Inv, TypeOK, Rows
<1>1. /\ v \in Users /\ k \in Nat /\ v = row[r].user /\ k = row[r].kitns
      /\ redeemed \in [Users -> Nat] /\ given \in [Users -> Nat]
  BY <1>0 DEF Inv, TypeOK
<1>2. row'[r] = None /\ \A s \in Redemptions \ {r} : row'[s] = row[s]
  BY DEF Inv, TypeOK
<1>3. At(r, v) /\ v \in Redeeming(r)
  BY <1>1 DEF At, Redeeming
<1>4. RowInv'
  BY <1>2 DEF RowInv, At
<1>5. \A s \in Redemptions : Redeeming(s)' \subseteq Redeeming(s)
  BY <1>2 DEF Redeeming
<1>6. \A u \in Users, s \in Redemptions : At(s, u)' => s # r /\ At(s, u) /\ row'[s] = row[s]
  BY <1>2 DEF At
<1>7. slipped \subseteq slipped'
  OBVIOUS
<1>8. ASSUME NEW u \in Users \ slipped', u # v
      PROVE  /\ redeemed'[u] = redeemed[u]
             /\ (\A s \in Redemptions : At(s, u)' => row'[s].level = 1)
                   => given'[u] <= redeemed'[u]
  <2>1. redeemed'[u] = redeemed[u]
    BY <1>1, <1>8 DEF Adds
  <2>2. ~At(r, u)
    BY <1>1, <1>8 DEF At
  <2>3. \A s \in Redemptions : At(s, u) => At(s, u)' /\ row'[s] = row[s]
    BY <1>2, <2>2 DEF At
  <2>4. QED
    BY <1>7, <1>8, <2>1, <2>3 DEF ShareInv
<1>9. ASSUME v \notin slipped'
      PROVE  /\ redeemed'[v] <= earned'[v] /\ given'[v] <= redeemed'[v]
             /\ \A s \in Redemptions : ~At(s, v)' /\ \A q \in rows'[s] : q.user # v
  <2>1. redeemed'[v] = redeemed[v] + k
    BY <1>1, <1>9 DEF Adds
  <2>2. redeemed[v] + k <= earned[v] /\ given[v] <= redeemed[v] + k
    BY <1>1, <1>3, <1>7, <1>9 DEF ShareInv
  <2>3. \A s \in Redemptions : v \in Redeeming(s) => s = r
    BY <1>1, <1>3, <1>7, <1>9 DEF ShareInv
  <2>4. \A s \in Redemptions : At(s, v) => v \in Redeeming(s)
    BY DEF At, Redeeming
  <2>5. \A s \in Redemptions : ~At(s, v)'
    BY <1>1, <1>6, <2>3, <2>4
  <2>6. \A q \in rows[r] : q.user # v
    BY <1>3 DEF RowInv
  <2>7. \A s \in Redemptions \ {r} : \A q \in rows[s] : q.user # v
    BY <2>3 DEF Redeeming
  <2>8. QED
    BY <2>1, <2>2, <2>5, <2>6, <2>7
<1>10. ASSUME NEW u \in Users \ slipped'
       PROVE  /\ redeemed'[u] <= earned'[u]
              /\ \A s \in Redemptions :
                   /\ \A q \in rows'[s] : q.user = u => redeemed'[u] + q.kitns <= earned'[u]
                   /\ At(s, u)' => /\ redeemed'[u] + row'[s].kitns <= earned'[u]
                                   /\ given'[u] <= redeemed'[u] + row'[s].kitns
              /\ (\A s \in Redemptions : At(s, u)' => row'[s].level = 1)
                    => given'[u] <= redeemed'[u]
  <2>1. CASE u = v
    BY <1>9, <1>10, <2>1
  <2>2. CASE u # v
    BY <1>6, <1>7, <1>8, <1>10, <2>2 DEF ShareInv
  <2>3. QED
    BY <2>1, <2>2
<1>11. ShareInv'
  <2>1. \A u \in Users \ slipped' : \A s, t \in Redemptions :
          u \in Redeeming(s)' /\ u \in Redeeming(t)' => s = t
    BY <1>5, <1>7 DEF ShareInv
  <2>2. QED
    BY <1>10, <2>1 DEF ShareInv
<1>12. QED
  BY <1>4, <1>11

\* A redemption goes up a level; at the first one the referrer has its share.
LEMMA ClimbShares ==
  ASSUME Inv, RowInv, ShareInv, NEW r \in Redemptions, row[r] # None,
         NEW q \in Rows, q.user = row[r].user, q.kitns = row[r].kitns,
         q.level = row[r].level + 1, row' = [row EXCEPT ![r] = q],
         given' = IF row[r].level = 1 THEN Adds(given, q.user, q.kitns) ELSE given,
         UNCHANGED <<rows, redeemed, earned, slipped>>
  PROVE  RowInv' /\ ShareInv'
<1>0. PICK v \in Users, k \in Nat : v = row[r].user /\ k = row[r].kitns
  BY DEF Inv, TypeOK, Rows
<1>1. /\ v \in Users /\ k \in Nat /\ v = row[r].user /\ k = row[r].kitns
      /\ row[r].level \in Nat \ {0}
      /\ redeemed \in [Users -> Nat] /\ given \in [Users -> Nat]
  BY <1>0 DEF Inv, TypeOK, Rows
<1>2. row'[r] = q /\ q # None /\ \A s \in Redemptions \ {r} : row'[s] = row[s]
  BY NoneAssumption DEF Inv, TypeOK
<1>3. \A u \in Users, s \in Redemptions : At(s, u)' <=> At(s, u)
  BY <1>2 DEF At
<1>4. At(r, v)
  BY <1>1 DEF At
<1>5. q.level # 1
  BY <1>1
<1>6. RowInv'
  <2>1. \A s \in Redemptions : \A p \in rows[s] : p.user \in Users
    BY DEF Inv, TypeOK
  <2>2. QED
    BY <1>2, <1>3, <1>5, <2>1 DEF RowInv
<1>7. \A s \in Redemptions : Redeeming(s)' = Redeeming(s)
  BY <1>2 DEF Redeeming
<1>8. \A s \in Redemptions : row[s] # None => row'[s].kitns = row[s].kitns
  BY <1>2
<1>9. \A u \in Users : given'[u] = IF u = v /\ row[r].level = 1 THEN given[u] + k ELSE given[u]
  BY <1>1 DEF Adds
<1>10. ASSUME v \notin slipped
       PROVE  given'[v] <= redeemed[v] + k /\ \A s \in Redemptions : At(s, v) => s = r
  <2>1. \A s \in Redemptions : At(s, v) => s = r
    BY <1>1, <1>4, <1>10 DEF ShareInv, At, Redeeming
  <2>2. CASE row[r].level = 1
    <3>1. given[v] <= redeemed[v]
      BY <1>1, <1>10, <2>1, <2>2 DEF ShareInv
    <3>2. \A a, b, c \in Nat : a <= b => a + c <= b + c
      OBVIOUS
    <3>3. given[v] \in Nat /\ redeemed[v] \in Nat /\ given'[v] = given[v] + k
      BY <1>1, <1>9, <2>2
    <3>4. QED
      BY <1>1, <2>1, <3>1, <3>2, <3>3
  <2>3. CASE row[r].level # 1
    BY <1>1, <1>4, <1>9, <1>10, <2>1, <2>3 DEF ShareInv
  <2>4. QED
    BY <2>2, <2>3
<1>11. ASSUME NEW u \in Users \ slipped
       PROVE  /\ \A s \in Redemptions :
                   At(s, u)' => given'[u] <= redeemed'[u] + row'[s].kitns
              /\ (\A s \in Redemptions : At(s, u)' => row'[s].level = 1)
                    => given'[u] <= redeemed'[u]
  <2>1. CASE u = v
    BY <1>1, <1>2, <1>3, <1>4, <1>5, <1>10, <1>11, <2>1
  <2>2. CASE u # v
    <3>1. ~At(r, u) /\ given'[u] = given[u]
      BY <1>1, <1>9, <2>2 DEF At
    <3>2. QED
      BY <1>2, <1>3, <1>8, <1>11, <3>1 DEF ShareInv
  <2>3. QED
    BY <2>1, <2>2
<1>12. ASSUME NEW u \in Users \ slipped
       PROVE  /\ redeemed'[u] <= earned'[u]
              /\ \A s \in Redemptions :
                   /\ \A p \in rows'[s] : p.user = u => redeemed'[u] + p.kitns <= earned'[u]
                   /\ At(s, u)' => redeemed'[u] + row'[s].kitns <= earned'[u]
  BY <1>3, <1>8, <1>12 DEF ShareInv, At
<1>13. ShareInv'
  <2>1. \A u \in Users \ slipped : \A s, t \in Redemptions :
          u \in Redeeming(s)' /\ u \in Redeeming(t)' => s = t
    BY <1>7 DEF ShareInv
  <2>2. QED
    BY <1>11, <1>12, <2>1 DEF ShareInv
<1>14. QED
  BY <1>6, <1>13

LEMMA RedeemShares ==
  ASSUME Inv, Inv', RowInv, ShareInv, NEW r \in Redemptions,
         RedeemStep(r) \/ StoreRedeemed(r)
  PROVE  RowInv' /\ ShareInv'
<1>1. row[r] # None /\ row[r] \in Rows /\ UNCHANGED <<rows, earned>>
  BY DEF RedeemStep, StoreRedeemed, Inv, TypeOK
<1>2. CASE StoreRedeemed(r)
  <2>1. row' = [row EXCEPT ![r] = None] /\ UNCHANGED given
    BY <1>2 DEF StoreRedeemed
  <2>2. \/ row[r].user \in slipped' /\ slipped \subseteq slipped' /\ UNCHANGED redeemed
        \/ /\ UNCHANGED slipped
           /\ redeemed' = Adds(redeemed, row[r].user, row[r].kitns)
    BY <1>2 DEF StoreRedeemed, Works, Fails
  <2>3. QED
    BY <1>1, <2>1, <2>2, DropRowShares
<1>3. CASE RedeemStep(r)
  <2>1. CASE /\ Fails("award", {row[r].user})
             /\ row' = [row EXCEPT ![r] = None]
             /\ UNCHANGED given
    <3>1. UNCHANGED redeemed /\ row[r].user \in slipped' /\ slipped \subseteq slipped'
      BY <1>3, <2>1 DEF RedeemStep, Fails
    <3>2. QED
      BY <1>1, <2>1, <3>1, DropRowShares
  <2>2. CASE /\ Works
             /\ given' = IF row[r].level = 1 THEN Adds(given, row[r].user, row[r].kitns)
                         ELSE given
             /\ row' = [row EXCEPT ![r] =
                  [user |-> row[r].user, kitns |-> row[r].kitns, level |-> row[r].level + 1,
                   next |-> IF row[r].next \in known THEN Referrer[row[r].next] ELSE None]]
    <3> DEFINE q == [user |-> row[r].user, kitns |-> row[r].kitns, level |-> row[r].level + 1,
                     next |-> IF row[r].next \in known THEN Referrer[row[r].next] ELSE None]
    <3>1. q \in Rows
      <4>1. row[r].next \in known => row[r].next \in Users
        BY DEF Inv, TypeOK
      <4>2. (IF row[r].next \in known THEN Referrer[row[r].next] ELSE None) \in Users \cup {None}
        BY <4>1, ConstantsAssumption
      <4>3. QED
        BY <1>1, <4>2 DEF Rows
    <3>2. q.user = row[r].user /\ q.kitns = row[r].kitns /\ q.level = row[r].level + 1
      OBVIOUS
    <3>3. row' = [row EXCEPT ![r] = q] /\ UNCHANGED <<redeemed, slipped>>
      BY <1>3, <2>2 DEF RedeemStep, Works
    <3> HIDE DEF q
    <3>4. QED
      BY <1>1, <2>2, <3>1, <3>2, <3>3, ClimbShares
  <2>3. QED
    BY <1>3, <2>1, <2>2 DEF RedeemStep
<1>4. QED
  BY <1>2, <1>3

LEMMA CrashShares ==
  ASSUME Inv, RowInv, ShareInv, Crash
  PROVE  RowInv' /\ ShareInv'
<1>1. /\ \A r \in Redemptions : rows'[r] = {} /\ row'[r] = None
      /\ UNCHANGED <<redeemed, earned, given>> /\ slipped \subseteq slipped'
  BY DEF Crash, table, Fails
<1>2. \A u \in Users \ slipped' : \A r \in Redemptions : ~At(r, u)
  BY DEF Crash, Fails, At
<1>3. RowInv'
  BY <1>1 DEF RowInv, Alone
<1>4. ShareInv'
  BY <1>1, <1>2 DEF ShareInv, At, Redeeming
<1>5. QED
  BY <1>3, <1>4

LEMMA OthersShares ==
  ASSUME Inv, Inv', RowInv, ShareInv,
         \/ \E u \in Users : Earn(u) \/ CreateUser(u)
         \/ \E d \in Disbursals : ReadDue(d) \/ DisburseBatch(d) \/ RecordDisbursed(d)
  PROVE  RowInv' /\ ShareInv'
<1>1. UNCHANGED <<redemption, redeemed, given>>
  BY DEF Earn, CreateUser, ReadDue, DisburseBatch, RecordDisbursed, table
<1>2. \A u \in Users : earned[u] <= earned'[u]
  <2>1. CASE \E u \in Users : Earn(u) \/ CreateUser(u)
    <3>1. PICK v \in Users : earned' = Adds(earned, v, 1)
      BY <2>1 DEF Earn, CreateUser
    <3>2. QED
      BY <3>1 DEF Adds, Inv, TypeOK
  <2>2. CASE \E d \in Disbursals : ReadDue(d) \/ DisburseBatch(d) \/ RecordDisbursed(d)
    BY <2>2 DEF ReadDue, DisburseBatch, RecordDisbursed, Inv, TypeOK
  <2>3. QED
    BY <2>1, <2>2
<1>3. slipped \subseteq slipped'
  BY DEF Earn, CreateUser, ReadDue, DisburseBatch, RecordDisbursed, Unrecorded, Works, Fails
<1>4. QED
  BY <1>1, <1>2, <1>3, ShareKept DEF Inv

\* Of a KITN nobody's referrers have more than one share, however redemptions
\* overlap with reports and disbursements and wherever other redemptions stop,
\* as long as none for that user stops half-way or meets another.
THEOREM Shares == Spec => []SharedOnce
<1> DEFINE Sharing == RowInv /\ ShareInv
<1>1. Init => Sharing
  <2> SUFFICES ASSUME Init PROVE Sharing
    OBVIOUS
  <2>1. \A r \in Redemptions : rows[r] = {} /\ row[r] = None
    BY DEF Init
  <2>2. \A u \in Users : redeemed[u] = 0 /\ earned[u] = 0 /\ given[u] = 0
    BY DEF Init, Nothing
  <2>3. QED
    BY <2>1, <2>2 DEF RowInv, ShareInv, Alone, At, Redeeming
<1>2. Inv /\ Inv' /\ Sharing /\ [Next]_vars => Sharing'
  <2> SUFFICES ASSUME Inv, Inv', Sharing, [Next]_vars PROVE Sharing'
    OBVIOUS
  <2>1. ASSUME NEW r \in Redemptions,
               ReadReferred(r) \/ TakeRow(r) \/ RedeemStep(r) \/ StoreRedeemed(r)
        PROVE  Sharing'
    BY <2>1, ReadReferredShares, TakeRowShares, RedeemShares
  <2>2. CASE Crash
    BY <2>2, CrashShares
  <2>3. CASE UNCHANGED vars
    BY <2>3 DEF vars, table, redemption, history, RowInv, ShareInv, At, Redeeming
  <2>4. QED
    BY <2>1, <2>2, <2>3, OthersShares DEF Next
<1>3. Inv /\ Sharing => SharedOnce
  <2> SUFFICES ASSUME Inv, Sharing, NEW u \in Users \ slipped PROVE given[u] <= earned[u]
    BY DEF SharedOnce
  <2>1. given[u] \in Nat /\ redeemed[u] \in Nat /\ earned[u] \in Nat
    BY DEF Inv, TypeOK
  <2>2. CASE \E r \in Redemptions : At(r, u)
    <3>1. PICK r \in Redemptions : At(r, u)
      BY <2>2
    <3>2. row[r].kitns \in Nat
      BY <3>1 DEF At, Inv, TypeOK, Rows
    <3>3. QED
      BY <2>1, <3>1, <3>2 DEF ShareInv
  <2>3. CASE \A r \in Redemptions : ~At(r, u)
    BY <2>1, <2>3 DEF ShareInv
  <2>4. QED
    BY <2>2, <2>3
<1>4. QED
  BY <1>1, <1>2, <1>3, Inductive, PTL DEF Spec

-----------------------------------------------------------------------------
(* What is paid, and what is recorded of it. *)

Held(d) == due[d] \cup paid[d]

\* A disbursement holds one row of a user, which is still to be paid or to be
\* recorded, and has paid no row below zero.
BatchInv ==
  \A d \in Disbursals :
    /\ Alone(Held(d))
    /\ due[d] \cap paid[d] = {}
    /\ \A q \in paid[d] : Amount(q) >= 0

\* What a transaction makes of the rows D that stay due and the rows P it pays:
\* it reports them, or its events are not read, or it is not made.
PayEffect(d, D, P) ==
  /\ due' = [due EXCEPT ![d] = D]
  /\ slipped \subseteq slipped'
  /\ \A q \in P : Amount(q) >= 0
  /\ \/ /\ Pays(P) /\ D \cap P = {}
        /\ paid' = [paid EXCEPT ![d] = P]
     \/ /\ Pays(P) /\ D = {}
        /\ UNCHANGED paid
        /\ \A q \in P : q.user \in slipped'
     \/ UNCHANGED <<paid, wallet>> /\ D = {}

LEMMA DisbursePays ==
  ASSUME Inv, NEW d \in Disbursals, DisburseBatch(d)
  PROVE  \E D, P \in SUBSET due[d] : PayEffect(d, D, P)
<1>1. due[d] \in SUBSET Due
  BY DEF Inv, TypeOK
<1>2. \A B \in SUBSET due[d] : \A q \in B : q \notin Refused(B) => Amount(q) >= 0
  BY <1>1 DEF Refused, Amount, Due, Unit
<1>3. ASSUME NEW B \in SUBSET due[d], NEW failed, Refused(B) \subseteq failed,
             Works \/ Fails("receiver", {}), Pays(B \ failed),
             paid' = [paid EXCEPT ![d] = Receivers(B, failed)],
             due' = [due EXCEPT ![d] = @ \ B]
      PROVE  \E D, P \in SUBSET due[d] : PayEffect(d, D, P)
  <2>1. PayEffect(d, due[d] \ B, B \ failed)
    BY <1>2, <1>3, OutcomeSlips DEF PayEffect, Receivers
  <2>2. QED
    BY <2>1
<1>4. ASSUME NEW B \in SUBSET due[d], Fails("events", {q.user : q \in B}),
             Pays(B \ Refused(B)), due' = [due EXCEPT ![d] = {}], UNCHANGED paid
      PROVE  \E D, P \in SUBSET due[d] : PayEffect(d, D, P)
  <2>1. PayEffect(d, {}, B \ Refused(B))
    BY <1>2, <1>4 DEF PayEffect, Fails
  <2>2. QED
    BY <2>1
<1>5. ASSUME Fails("funds", {}), due' = [due EXCEPT ![d] = {}], UNCHANGED <<wallet, paid>>
      PROVE  \E D, P \in SUBSET due[d] : PayEffect(d, D, P)
  <2>1. PayEffect(d, {}, {})
    BY <1>5, OutcomeSlips DEF PayEffect
  <2>2. QED
    BY <2>1
<1>6. Batches(d) \subseteq SUBSET due[d]
  BY DEF Batches
<1>7. PICK B \in Batches(d) :
        \/ \E failed \in {Refused(B)} \cup {Refused(B) \cup {q} : q \in B} :
             /\ IF failed = Refused(B) THEN Works ELSE Fails("receiver", {})
             /\ Pays(B \ failed)
             /\ paid' = [paid EXCEPT ![d] = Receivers(B, failed)]
             /\ due' = [due EXCEPT ![d] = @ \ B]
        \/ /\ Fails("events", {q.user : q \in B})
           /\ Pays(B \ Refused(B))
           /\ due' = [due EXCEPT ![d] = {}]
           /\ UNCHANGED paid
        \/ /\ Fails("funds", {})
           /\ due' = [due EXCEPT ![d] = {}]
           /\ UNCHANGED <<wallet, paid>>
  BY DEF DisburseBatch
<1>8. QED
  BY <1>3, <1>4, <1>5, <1>6, <1>7

\* Each receiver of a transaction gets what its row says.
LEMMA PaysEach ==
  ASSUME Inv, NEW P \in SUBSET Due, Alone(P), Pays(P), NEW u \in Users
  PROVE  /\ \A q \in P : q.user = u => wallet'[u] = wallet[u] + Amount(q)
         /\ (\A q \in P : q.user # u) => wallet'[u] = wallet[u]
<1>1. ASSUME NEW q \in P, q.user = u PROVE wallet'[u] = wallet[u] + Amount(q)
  <2>1. (CHOOSE p \in P : p.user = u) = q
    BY <1>1 DEF Alone
  <2>2. QED
    BY <1>1, <2>1 DEF Pays
<1>2. ASSUME \A q \in P : q.user # u PROVE wallet'[u] = wallet[u]
  BY <1>2 DEF Pays
<1>3. QED
  BY <1>1, <1>2

LEMMA BatchStep ==
  ASSUME Inv, BatchInv, [Next]_vars
  PROVE  BatchInv'
<1>1. CASE UNCHANGED disbursal
  BY <1>1 DEF disbursal, BatchInv, Held
<1>2. ASSUME NEW d \in Disbursals, ReadDue(d) PROVE BatchInv'
  <2> DEFINE Creditors == {u \in known : daily[u] > 0 \/ refDaily[u] > 0}
  <2>1. /\ due' = [due EXCEPT ![d] =
             {[user |-> u, kitns |-> daily[u], ref |-> refDaily[u]] : u \in Creditors}]
        /\ paid' = paid /\ paid[d] = {}
        /\ due \in [Disbursals -> SUBSET Due]
    BY <1>2 DEF ReadDue, Disbursing, Inv, TypeOK
  <2> HIDE DEF Creditors
  <2>2. Alone(due'[d])
    BY <2>1 DEF Alone
  <2>3. QED
    BY <2>1, <2>2 DEF BatchInv, Held
<1>3. ASSUME NEW d \in Disbursals, DisburseBatch(d) PROVE BatchInv'
  <2>1. PICK D \in SUBSET due[d], P \in SUBSET due[d] : PayEffect(d, D, P)
    BY <1>3, DisbursePays
  <2>2. /\ due' = [due EXCEPT ![d] = D]
        /\ \/ paid' = paid
           \/ paid' = [paid EXCEPT ![d] = P] /\ \A q \in P : Amount(q) >= 0
    BY <2>1 DEF PayEffect
  <2>3. \A e \in Disbursals : Held(e)' \subseteq Held(e)
    BY <2>2 DEF Held, Inv, TypeOK
  <2>4. \A e \in Disbursals : \A q \in paid'[e] : Amount(q) >= 0
    BY <2>2 DEF BatchInv, Inv, TypeOK
  <2>5. due'[d] \cap paid'[d] = {}
    BY <1>3, <2>1 DEF PayEffect, DisburseBatch, Inv, TypeOK
  <2>6. \A e \in Disbursals \ {d} : due'[e] = due[e] /\ paid'[e] = paid[e]
    BY <2>2 DEF Inv, TypeOK
  <2>7. QED
    BY <2>3, <2>4, <2>5, <2>6 DEF BatchInv, Alone
<1>4. ASSUME NEW d \in Disbursals, RecordDisbursed(d) PROVE BatchInv'
  <2>1. \A e \in Disbursals : paid'[e] \subseteq paid[e] /\ due'[e] = due[e]
    BY <1>4 DEF RecordDisbursed, Inv, TypeOK
  <2>2. QED
    BY <2>1 DEF BatchInv, Alone, Held
<1>5. CASE Crash
  BY <1>5 DEF Crash, BatchInv, Alone, Held
<1>6. CASE UNCHANGED vars
  BY <1>1, <1>6 DEF vars
<1>7. QED
  BY <1>1, <1>2, <1>3, <1>4, <1>5, <1>6 DEF Next, Earn, CreateUser, ReadReferred, TakeRow,
     RedeemStep, StoreRedeemed

\* What a disbursement that nothing has gone wrong with has read of a user is
\* still due, and the wallet is ahead of the table only by the row it has paid and
\* not yet recorded.
OverInv ==
  \A u \in Users \ slipped :
    /\ \A d, e \in Disbursals : u \in Disbursing(d) /\ u \in Disbursing(e) => d = e
    /\ daily[u] >= 0 /\ refDaily[u] >= 0
    /\ \A d \in Disbursals : \A q \in Held(d) :
         q.user = u => q.kitns <= daily[u] /\ q.ref <= refDaily[u]
    /\ \A d \in Disbursals : \A q \in paid[d] :
         q.user = u => wallet[u] <= Unit * disbursed[u] + refDisbursed[u] + Amount(q)
    /\ (\A d \in Disbursals : \A q \in paid[d] : q.user # u) =>
         wallet[u] <= Unit * disbursed[u] + refDisbursed[u]

LEMMA UserTyped ==
  ASSUME TypeOK, NEW u \in Users
  PROVE  /\ daily[u] \in Int /\ disbursed[u] \in Int /\ refDaily[u] \in Int
         /\ refDisbursed[u] \in Int /\ wallet[u] \in Nat
         /\ earned[u] \in Nat /\ awarded[u] \in Nat
BY DEF TypeOK

LEMMA HeldTyped ==
  ASSUME TypeOK, NEW d \in Disbursals, NEW q \in Held(d)
  PROVE  q \in Due /\ q.user \in Users /\ q.kitns \in Int /\ q.ref \in Int /\ Amount(q) \in Int
BY DEF TypeOK, Held, Due, Amount, Unit

\* Steps that pay nothing, and may only make more due.
LEMMA OverKept ==
  ASSUME TypeOK, TypeOK', OverInv, UNCHANGED <<disbursal, wallet, refDisbursed>>,
         slipped \subseteq slipped',
         \A u \in Users : /\ daily[u] <= daily'[u] /\ refDaily[u] <= refDaily'[u]
                          /\ disbursed[u] <= disbursed'[u]
  PROVE  OverInv'
<1> SUFFICES ASSUME NEW u \in Users \ slipped'
             PROVE  /\ \A d, e \in Disbursals :
                          u \in Disbursing(d)' /\ u \in Disbursing(e)' => d = e
                    /\ daily'[u] >= 0 /\ refDaily'[u] >= 0
                    /\ \A d \in Disbursals : \A q \in Held(d)' :
                         q.user = u => q.kitns <= daily'[u] /\ q.ref <= refDaily'[u]
                    /\ \A d \in Disbursals : \A q \in paid'[d] : q.user = u =>
                         wallet'[u] <= Unit * disbursed'[u] + refDisbursed'[u] + Amount(q)
                    /\ (\A d \in Disbursals : \A q \in paid'[d] : q.user # u) =>
                         wallet'[u] <= Unit * disbursed'[u] + refDisbursed'[u]
  BY DEF OverInv
<1>1. /\ UNCHANGED <<due, paid, wallet, refDisbursed>> /\ u \in Users \ slipped
      /\ \A d \in Disbursals : Held(d)' = Held(d) /\ Disbursing(d)' = Disbursing(d)
  BY DEF disbursal, Held, Disbursing
<1>2. /\ daily[u] \in Int /\ daily'[u] \in Int /\ refDaily[u] \in Int /\ refDaily'[u] \in Int
      /\ disbursed[u] \in Int /\ disbursed'[u] \in Int /\ refDisbursed[u] \in Int
      /\ wallet[u] \in Nat
      /\ daily[u] <= daily'[u] /\ refDaily[u] <= refDaily'[u] /\ disbursed[u] <= disbursed'[u]
  BY UserTyped DEF TypeOK
<1>3. \A d, e \in Disbursals : u \in Disbursing(d)' /\ u \in Disbursing(e)' => d = e
  BY <1>1 DEF OverInv
<1>4. daily'[u] >= 0 /\ refDaily'[u] >= 0
  BY <1>1, <1>2 DEF OverInv
<1>5. ASSUME NEW d \in Disbursals, NEW q \in Held(d), q.user = u
      PROVE  q.kitns <= daily'[u] /\ q.ref <= refDaily'[u]
  BY <1>1, <1>2, <1>5, HeldTyped DEF OverInv
<1>6. ASSUME NEW d \in Disbursals, NEW q \in paid[d], q.user = u
      PROVE  wallet[u] <= Unit * disbursed'[u] + refDisbursed[u] + Amount(q)
  <2>1. Amount(q) \in Int
    BY HeldTyped DEF Held
  <2>2. wallet[u] <= Unit * disbursed[u] + refDisbursed[u] + Amount(q)
    BY <1>1, <1>6 DEF OverInv
  <2>3. QED
    BY <1>2, <2>1, <2>2 DEF Unit
<1>7. ASSUME \A d \in Disbursals : \A q \in paid[d] : q.user # u
      PROVE  wallet[u] <= Unit * disbursed'[u] + refDisbursed[u]
  <2>1. wallet[u] <= Unit * disbursed[u] + refDisbursed[u]
    BY <1>1, <1>7 DEF OverInv
  <2>2. QED
    BY <1>2, <2>1 DEF Unit
<1>8. QED
  BY <1>1, <1>3, <1>4, <1>5, <1>6, <1>7

LEMMA EarningOver ==
  ASSUME Inv, Inv', OverInv, NEW u \in Users, Earn(u) \/ CreateUser(u)
  PROVE  OverInv'
<1>1. \A v \in Users : /\ daily[v] <= daily'[v] /\ refDaily[v] <= refDaily'[v]
                       /\ disbursed[v] <= disbursed'[v]
  <2>1. CASE Earn(u)
    BY <2>1 DEF Earn, Adds, Inv, TypeOK
  <2>2. CASE CreateUser(u)
    <3>1. disbursed[u] = 0
      BY <2>2 DEF CreateUser, Inv, Strangers
    <3>2. QED
      BY <2>2, <3>1 DEF CreateUser, Inv, TypeOK
  <2>3. QED
    BY <2>1, <2>2
<1>2. UNCHANGED <<disbursal, wallet, refDisbursed, slipped>>
  BY DEF Earn, CreateUser
<1>3. QED
  BY <1>1, <1>2, OverKept DEF Inv

LEMMA RedeemingOver ==
  ASSUME Inv, Inv', OverInv, NEW r \in Redemptions,
         ReadReferred(r) \/ TakeRow(r) \/ RedeemStep(r) \/ StoreRedeemed(r)
  PROVE  OverInv'
<1>1. UNCHANGED <<disbursal, wallet, daily, disbursed, refDisbursed>>
  BY DEF ReadReferred, TakeRow, RedeemStep, StoreRedeemed, table
<1>2. slipped \subseteq slipped'
  BY DEF ReadReferred, TakeRow, RedeemStep, StoreRedeemed, history, Works, Fails
<1>3. \A u \in Users : refDaily[u] <= refDaily'[u]
  <2>1. CASE UNCHANGED refDaily
    BY <2>1, UserTyped DEF Inv
  <2>2. CASE refDaily' # refDaily
    <3> DEFINE award == Award(row[r].kitns, row[r].level)
    <3>1. row[r].next \in known /\ refDaily' = Adds(refDaily, row[r].next, award) /\ row[r] \in Rows
      BY <2>2 DEF ReadReferred, TakeRow, RedeemStep, StoreRedeemed, table, Inv, TypeOK
    <3>2. award \in Nat
      BY <3>1, AwardNat DEF Rows
    <3> HIDE DEF award
    <3>3. QED
      BY <3>1, <3>2 DEF Adds, Inv, TypeOK
  <2>3. QED
    BY <2>1, <2>2
<1>4. \A u \in Users : daily[u] <= daily'[u] /\ disbursed[u] <= disbursed'[u]
  BY <1>1, UserTyped DEF Inv
<1>5. QED
  BY <1>1, <1>2, <1>3, <1>4, OverKept DEF Inv

LEMMA ReadDueOver ==
  ASSUME Inv, OverInv, NEW d \in Disbursals, ReadDue(d)
  PROVE  OverInv'
<1> DEFINE Creditors == {u \in known : daily[u] > 0 \/ refDaily[u] > 0}
           Read == {[user |-> u, kitns |-> daily[u], ref |-> refDaily[u]] : u \in Creditors}
<1>1. /\ due' = [due EXCEPT ![d] = Read]
      /\ slipped' = slipped \cup (Creditors \cap UNION {Disbursing(e) : e \in Disbursals})
      /\ UNCHANGED <<paid, wallet, daily, disbursed, refDaily, refDisbursed>>
      /\ paid[d] = {} /\ due[d] = {}
      /\ due \in [Disbursals -> SUBSET Due]
  BY DEF ReadDue, Disbursing, table, Inv, TypeOK
<1>2. \A q \in Read : q.user \in Creditors /\ q.kitns = daily[q.user] /\ q.ref = refDaily[q.user]
  OBVIOUS
<1> HIDE DEF Creditors, Read
<1>3. /\ Held(d)' = Read /\ \A e \in Disbursals \ {d} : Held(e)' = Held(e)
      /\ \A e \in Disbursals : Disbursing(e) = {q.user : q \in Held(e)}
      /\ \A e \in Disbursals : Disbursing(e)' = {q.user : q \in Held(e)'}
  BY <1>1 DEF Held, Disbursing
<1>4. ASSUME NEW u \in Users \ slipped', u \in Disbursing(d)'
      PROVE  \A e \in Disbursals \ {d} : u \notin Disbursing(e)'
  BY <1>1, <1>2, <1>3, <1>4
<1> SUFFICES ASSUME NEW u \in Users \ slipped'
             PROVE  /\ \A c, e \in Disbursals :
                          u \in Disbursing(c)' /\ u \in Disbursing(e)' => c = e
                    /\ daily'[u] >= 0 /\ refDaily'[u] >= 0
                    /\ \A e \in Disbursals : \A q \in Held(e)' :
                         q.user = u => q.kitns <= daily'[u] /\ q.ref <= refDaily'[u]
                    /\ \A e \in Disbursals : \A q \in paid'[e] : q.user = u =>
                         wallet'[u] <= Unit * disbursed'[u] + refDisbursed'[u] + Amount(q)
                    /\ (\A e \in Disbursals : \A q \in paid'[e] : q.user # u) =>
                         wallet'[u] <= Unit * disbursed'[u] + refDisbursed'[u]
  BY DEF OverInv
<1>5. u \in Users \ slipped /\ daily[u] \in Int /\ refDaily[u] \in Int
  BY <1>1, UserTyped DEF Inv
<1>6. \A c, e \in Disbursals : u \in Disbursing(c)' /\ u \in Disbursing(e)' => c = e
  BY <1>3, <1>4, <1>5 DEF OverInv
<1>7. \A e \in Disbursals : \A q \in Held(e)' :
        q.user = u => q.kitns <= daily'[u] /\ q.ref <= refDaily'[u]
  BY <1>1, <1>2, <1>3, <1>5 DEF OverInv
<1>8. QED
  BY <1>1, <1>5, <1>6, <1>7 DEF OverInv

LEMMA DisburseOver ==
  ASSUME Inv, BatchInv, OverInv, NEW d \in Disbursals, DisburseBatch(d)
  PROVE  OverInv'
<1>1. PICK D \in SUBSET due[d], P \in SUBSET due[d] : PayEffect(d, D, P)
  BY DisbursePays
<1>2. paid[d] = {} /\ UNCHANGED <<daily, disbursed, refDaily, refDisbursed>>
  BY DEF DisburseBatch, table
<1>3. /\ due' = [due EXCEPT ![d] = D] /\ due \in [Disbursals -> SUBSET Due]
      /\ paid \in [Disbursals -> SUBSET Due] /\ slipped \subseteq slipped'
  BY <1>1 DEF PayEffect, Inv, TypeOK
<1>4. Alone(P) /\ P \in SUBSET Due
  BY <1>3 DEF BatchInv, Alone, Held
<1>5. paid' \in {paid, [paid EXCEPT ![d] = P]}
  BY <1>1 DEF PayEffect
<1>6. \A e \in Disbursals : Held(e)' \subseteq Held(e)
  BY <1>3, <1>5 DEF Held
<1> SUFFICES ASSUME NEW u \in Users \ slipped'
             PROVE  /\ \A c, e \in Disbursals :
                          u \in Disbursing(c)' /\ u \in Disbursing(e)' => c = e
                    /\ daily'[u] >= 0 /\ refDaily'[u] >= 0
                    /\ \A e \in Disbursals : \A q \in Held(e)' :
                         q.user = u => q.kitns <= daily'[u] /\ q.ref <= refDaily'[u]
                    /\ \A e \in Disbursals : \A q \in paid'[e] : q.user = u =>
                         wallet'[u] <= Unit * disbursed'[u] + refDisbursed'[u] + Amount(q)
                    /\ (\A e \in Disbursals : \A q \in paid'[e] : q.user # u) =>
                         wallet'[u] <= Unit * disbursed'[u] + refDisbursed'[u]
  BY DEF OverInv
<1>7. u \in Users \ slipped
  BY <1>3
<1>8. /\ \A c, e \in Disbursals : u \in Disbursing(c)' /\ u \in Disbursing(e)' => c = e
      /\ daily'[u] >= 0 /\ refDaily'[u] >= 0
      /\ \A e \in Disbursals : \A q \in Held(e)' :
           q.user = u => q.kitns <= daily'[u] /\ q.ref <= refDaily'[u]
  <2>1. \A e \in Disbursals : Disbursing(e)' \subseteq Disbursing(e)
    BY <1>6 DEF Disbursing, Held
  <2>2. QED
    BY <1>2, <1>6, <1>7, <2>1 DEF OverInv
<1>9. \A q \in P : q.user = u => u \in Disbursing(d)
  BY DEF Disbursing
<1>10. CASE \E q \in P : q.user = u
  <2>1. PICK q \in P : q.user = u
    BY <1>10
  <2>2. \A e \in Disbursals : \A p \in paid[e] : p.user # u
    <3>1. \A e \in Disbursals : u \in Disbursing(e) => e = d
      BY <1>7, <1>9, <2>1 DEF OverInv
    <3>2. QED
      BY <1>2, <3>1 DEF Disbursing
  <2>3. wallet[u] <= Unit * disbursed[u] + refDisbursed[u]
    BY <1>7, <2>2 DEF OverInv
  <2>4. CASE UNCHANGED <<paid, wallet>>
    BY <1>2, <1>8, <2>2, <2>3, <2>4
  <2>5. CASE Pays(P) /\ paid' = [paid EXCEPT ![d] = P]
    <3>1. wallet'[u] = wallet[u] + Amount(q)
      BY <1>4, <2>1, <2>5, PaysEach
    <3>2. \A e \in Disbursals : \A p \in paid'[e] : p.user = u => p = q
      BY <1>3, <1>4, <2>1, <2>2, <2>5 DEF Alone
    <3>3. q \in paid'[d]
      BY <1>3, <2>1, <2>5
    <3>4. Amount(q) \in Int
      BY <2>1, HeldTyped DEF Held, Inv
    <3>5. Unit * disbursed[u] + refDisbursed[u] \in Int /\ wallet[u] \in Int
      BY UserTyped DEF Inv, Unit
    <3>6. wallet'[u] <= Unit * disbursed[u] + refDisbursed[u] + Amount(q)
      BY <2>3, <3>1, <3>4, <3>5
    <3>7. QED
      BY <1>2, <1>8, <2>1, <3>2, <3>3, <3>6
  <2>6. QED
    BY <1>1, <2>1, <2>4, <2>5 DEF PayEffect
<1>11. CASE \A q \in P : q.user # u
  <2>1. wallet'[u] = wallet[u]
    BY <1>1, <1>4, <1>11, PaysEach DEF PayEffect
  <2>2. \A e \in Disbursals : \A q : q.user = u => (q \in paid'[e] <=> q \in paid[e])
    BY <1>2, <1>3, <1>5, <1>11
  <2>3. QED
    BY <1>2, <1>7, <1>8, <2>1, <2>2 DEF OverInv
<1>12. QED
  BY <1>10, <1>11

\* What recording a row does to the balances of its user, if it does not fail.
LEMMA RecordEffect ==
  ASSUME Inv, NEW d \in Disbursals, RecordDisbursed(d)
  PROVE  \E q \in paid[d] :
           /\ q \in Due /\ q.user \in Users
           /\ paid' = [paid EXCEPT ![d] = @ \ {q}]
           /\ \/ /\ UNCHANGED slipped
                 /\ \A u \in Users :
                      /\ daily'[u] = IF u = q.user THEN daily[u] - q.kitns ELSE daily[u]
                      /\ refDaily'[u] = IF u = q.user THEN refDaily[u] - q.ref ELSE refDaily[u]
                      /\ disbursed'[u]
                           = IF u = q.user THEN disbursed[u] + q.kitns ELSE disbursed[u]
                      /\ refDisbursed'[u]
                           = IF u = q.user THEN refDisbursed[u] + q.ref ELSE refDisbursed[u]
              \/ /\ slipped' = slipped \cup {q.user}
                 /\ UNCHANGED <<daily, refDaily, disbursed, refDisbursed>>
<1>1. PICK q \in paid[d] :
        /\ paid' = [paid EXCEPT ![d] = @ \ {q}]
        /\ \/ /\ Works
              /\ daily' = [daily EXCEPT ![q.user] = Left(q.user, q.kitns)]
              /\ refDaily' = Adds(refDaily, q.user, -q.ref)
              /\ disbursed' = Adds(disbursed, q.user, q.kitns)
              /\ refDisbursed' = Adds(refDisbursed, q.user, q.ref)
           \/ /\ Unrecorded(q.user)
              /\ UNCHANGED <<daily, refDaily, disbursed, refDisbursed>>
  BY DEF RecordDisbursed
<1>2. q \in Due /\ q.user \in Users /\ q.kitns \in Int /\ q.ref \in Int
  BY DEF Inv, TypeOK, Due
<1>3. \A f \in {daily, disbursed, refDaily, refDisbursed} : f \in [Users -> Int]
  BY DEF Inv, TypeOK
<1>4. \A i, j \in Int : i + -j = i - j
  OBVIOUS
<1>5. ASSUME /\ daily' = [daily EXCEPT ![q.user] = Left(q.user, q.kitns)]
             /\ refDaily' = Adds(refDaily, q.user, -q.ref)
             /\ disbursed' = Adds(disbursed, q.user, q.kitns)
             /\ refDisbursed' = Adds(refDisbursed, q.user, q.ref),
             NEW u \in Users
      PROVE  /\ daily'[u] = IF u = q.user THEN daily[u] - q.kitns ELSE daily[u]
             /\ refDaily'[u] = IF u = q.user THEN refDaily[u] - q.ref ELSE refDaily[u]
             /\ disbursed'[u] = IF u = q.user THEN disbursed[u] + q.kitns ELSE disbursed[u]
             /\ refDisbursed'[u]
                  = IF u = q.user THEN refDisbursed[u] + q.ref ELSE refDisbursed[u]
  BY <1>2, <1>3, <1>4, <1>5 DEF Left, Adds
<1>6. QED
  BY <1>1, <1>2, <1>5 DEF Works, Unrecorded, Fails

LEMMA RecordOver ==
  ASSUME Inv, BatchInv, OverInv, NEW d \in Disbursals, RecordDisbursed(d)
  PROVE  OverInv'
<1>1. PICK q \in paid[d] :
        /\ q \in Due /\ q.user \in Users
        /\ paid' = [paid EXCEPT ![d] = @ \ {q}]
        /\ \/ /\ UNCHANGED slipped
              /\ \A u \in Users :
                   /\ daily'[u] = IF u = q.user THEN daily[u] - q.kitns ELSE daily[u]
                   /\ refDaily'[u] = IF u = q.user THEN refDaily[u] - q.ref ELSE refDaily[u]
                   /\ disbursed'[u]
                        = IF u = q.user THEN disbursed[u] + q.kitns ELSE disbursed[u]
                   /\ refDisbursed'[u]
                        = IF u = q.user THEN refDisbursed[u] + q.ref ELSE refDisbursed[u]
           \/ /\ slipped' = slipped \cup {q.user}
              /\ UNCHANGED <<daily, refDaily, disbursed, refDisbursed>>
  BY RecordEffect
<1>2. UNCHANGED <<due, wallet>> /\ paid \in [Disbursals -> SUBSET Due]
  BY DEF RecordDisbursed, Inv, TypeOK
<1>3. /\ paid'[d] = paid[d] \ {q}
      /\ \A e \in Disbursals \ {d} : paid'[e] = paid[e]
      /\ \A e \in Disbursals : Held(e)' \subseteq Held(e) /\ Disbursing(e)' \subseteq Disbursing(e)
  BY <1>1, <1>2 DEF Held, Disbursing
<1> SUFFICES ASSUME NEW u \in Users \ slipped'
             PROVE  /\ \A c, e \in Disbursals :
                          u \in Disbursing(c)' /\ u \in Disbursing(e)' => c = e
                    /\ daily'[u] >= 0 /\ refDaily'[u] >= 0
                    /\ \A e \in Disbursals : \A p \in Held(e)' :
                         p.user = u => p.kitns <= daily'[u] /\ p.ref <= refDaily'[u]
                    /\ \A e \in Disbursals : \A p \in paid'[e] : p.user = u =>
                         wallet'[u] <= Unit * disbursed'[u] + refDisbursed'[u] + Amount(p)
                    /\ (\A e \in Disbursals : \A p \in paid'[e] : p.user # u) =>
                         wallet'[u] <= Unit * disbursed'[u] + refDisbursed'[u]
  BY DEF OverInv
<1>4. u \in Users \ slipped
  BY <1>1
<1>5. \A c, e \in Disbursals : u \in Disbursing(c)' /\ u \in Disbursing(e)' => c = e
  BY <1>3, <1>4 DEF OverInv
<1>6. CASE u = q.user
  <2>1. /\ daily'[u] = daily[u] - q.kitns /\ refDaily'[u] = refDaily[u] - q.ref
        /\ disbursed'[u] = disbursed[u] + q.kitns
        /\ refDisbursed'[u] = refDisbursed[u] + q.ref
    BY <1>1, <1>6
  <2>2. /\ q.kitns <= daily[u] /\ q.ref <= refDaily[u]
        /\ wallet[u] <= Unit * disbursed[u] + refDisbursed[u] + Amount(q)
    BY <1>4, <1>6 DEF OverInv, Held
  <2>3. /\ q.kitns \in Int /\ q.ref \in Int /\ daily[u] \in Int /\ refDaily[u] \in Int
        /\ disbursed[u] \in Int /\ refDisbursed[u] \in Int /\ wallet[u] \in Int
    BY <1>1, UserTyped DEF Due, Inv
  <2>4. daily'[u] >= 0 /\ refDaily'[u] >= 0
    BY <2>1, <2>2, <2>3
  <2>5. wallet'[u] <= Unit * disbursed'[u] + refDisbursed'[u]
    BY <1>2, <2>1, <2>2, <2>3 DEF Amount, Unit
  <2>6. \A e \in Disbursals : u \in Disbursing(e) => e = d
    BY <1>4, <1>6 DEF OverInv, Disbursing
  <2>7. \A p \in due[d] \cup (paid[d] \ {q}) : p.user = u => p = q
    BY <1>6 DEF BatchInv, Alone, Held
  <2>8. \A e \in Disbursals : \A p \in paid'[e] : p.user # u
    BY <1>3, <2>6, <2>7 DEF Disbursing
  <2>9. q \notin due[d]
    BY DEF BatchInv
  <2>10. \A e \in Disbursals : \A p \in Held(e)' : p.user # u
    BY <1>2, <1>3, <2>6, <2>7, <2>8, <2>9 DEF Disbursing, Held
  <2>11. QED
    BY <1>5, <2>4, <2>5, <2>8, <2>10
<1>7. CASE u # q.user
  <2>1. /\ daily'[u] = daily[u] /\ refDaily'[u] = refDaily[u]
        /\ disbursed'[u] = disbursed[u] /\ refDisbursed'[u] = refDisbursed[u]
    BY <1>1, <1>7
  <2>2. \A e \in Disbursals : \A p : p.user = u => (p \in paid'[e] <=> p \in paid[e])
    BY <1>3, <1>7
  <2>3. QED
    BY <1>2, <1>3, <1>4, <1>5, <2>1, <2>2 DEF OverInv
<1>8. QED
  BY <1>6, <1>7

LEMMA CrashOver ==
  ASSUME OverInv, Crash
  PROVE  OverInv'
<1>1. /\ \A d \in Disbursals : due'[d] = {} /\ paid'[d] = {}
      /\ UNCHANGED <<daily, refDaily, disbursed, refDisbursed, wallet>>
      /\ slipped \subseteq slipped'
  BY DEF Crash, table, Fails
<1>2. \A u \in Users \ slipped' : \A d \in Disbursals : \A q \in paid[d] : q.user # u
  BY DEF Crash, Fails
<1>3. QED
  BY <1>1, <1>2 DEF OverInv, Held, Disbursing

LEMMA OverStep == Inv /\ Inv' /\ BatchInv /\ OverInv /\ [Next]_vars => OverInv'
<1> SUFFICES ASSUME Inv, Inv', BatchInv, OverInv, [Next]_vars PROVE OverInv'
  OBVIOUS
<1>1. CASE UNCHANGED vars
  BY <1>1 DEF vars, table, disbursal, history, OverInv, Held, Disbursing
<1>2. QED
  BY <1>1, EarningOver, RedeemingOver, ReadDueOver, DisburseOver, RecordOver, CrashOver DEF Next

LEMMA PaymentsInit == Init => BatchInv /\ OverInv
<1> SUFFICES ASSUME Init PROVE BatchInv /\ OverInv
  OBVIOUS
<1>1. \A d \in Disbursals : due[d] = {} /\ paid[d] = {}
  BY DEF Init
<1>2. \A u \in Users : /\ daily[u] = 0 /\ refDaily[u] = 0 /\ wallet[u] = 0
                       /\ disbursed[u] = 0 /\ refDisbursed[u] = 0
  BY DEF Init, Nothing
<1>3. QED
  BY <1>1, <1>2 DEF BatchInv, OverInv, Alone, Held, Disbursing, Unit

\* Nobody is paid more than was earned and awarded, however disbursements overlap
\* with reports and redemptions, whatever the contract refuses and wherever the
\* process stops, but for users one of whose payments was not recorded, or whom
\* two disbursements met.
THEOREM Solvent == Spec => []NoneOverpaid
<1>1. Inv /\ OverInv => NoneOverpaid
  <2> SUFFICES ASSUME Inv, OverInv, NEW u \in Users \ slipped
               PROVE  wallet[u] <= Unit * earned[u] + awarded[u]
    BY DEF NoneOverpaid
  <2>1. /\ daily[u] \in Int /\ disbursed[u] \in Int /\ refDaily[u] \in Int
        /\ refDisbursed[u] \in Int /\ wallet[u] \in Int
        /\ earned[u] = daily[u] + disbursed[u] /\ awarded[u] = refDaily[u] + refDisbursed[u]
    BY UserTyped DEF Inv, NoneLost
  <2>2. CASE \E d \in Disbursals : \E q \in paid[d] : q.user = u
    <3>1. PICK d \in Disbursals : \E q \in paid[d] : q.user = u
      BY <2>2
    <3>2. PICK q \in paid[d] : q.user = u
      BY <3>1
    <3>3. /\ q.kitns <= daily[u] /\ q.ref <= refDaily[u]
          /\ wallet[u] <= Unit * disbursed[u] + refDisbursed[u] + Amount(q)
      BY <3>2 DEF OverInv, Held
    <3>4. q.kitns \in Int /\ q.ref \in Int
      BY <3>2, HeldTyped DEF Held, Inv
    <3>5. QED
      BY <2>1, <3>3, <3>4 DEF Amount, Unit
  <2>3. CASE \A d \in Disbursals : \A q \in paid[d] : q.user # u
    <3>1. /\ wallet[u] <= Unit * disbursed[u] + refDisbursed[u]
          /\ daily[u] >= 0 /\ refDaily[u] >= 0
      BY <2>3 DEF OverInv
    <3>2. QED
      BY <2>1, <3>1 DEF Unit
  <2>4. QED
    BY <2>2, <2>3
<1>2. Inv /\ BatchInv /\ [Next]_vars => BatchInv'
  BY BatchStep
<1>3. QED
  BY <1>1, <1>2, OverStep, PaymentsInit, Inductive, PTL DEF Spec

-----------------------------------------------------------------------------
(* What is recorded as paid was paid, whoever else slipped. *)

\* The units that disbursements have paid a user and have still to record.
Outstanding(u) ==
  {x \in Disbursals \X Nat : \E q \in paid[x[1]] : q.user = u /\ x[2] \in 1..Amount(q)}

\* The units counted as paid to a user the backend has created.
Gift(u) == IF u \in Newcomers \cap known THEN Unit ELSE 0

\* Whatever has gone wrong, the wallet covers what the table counts as paid, and
\* what is still to be recorded on top of it.
CoverInv ==
  /\ Users \ Newcomers \subseteq known
  /\ \A u \in Users :
       /\ IsFiniteSet(Outstanding(u))
       /\ Unit * disbursed[u] + refDisbursed[u] + Cardinality(Outstanding(u))
            <= wallet[u] + Gift(u)

LEMMA UnitsOf ==
  ASSUME NEW d, NEW n \in Nat
  PROVE  IsFiniteSet({d} \X (1..n)) /\ Cardinality({d} \X (1..n)) = n
<1>1. IsFiniteSet({d}) /\ Cardinality({d}) = 1
  BY FS_Singleton, Zenon
<1>2. IsFiniteSet(1..n) /\ Cardinality(1..n) = n
  BY FS_Interval
<1>3. /\ IsFiniteSet({d} \X (1..n))
      /\ Cardinality({d} \X (1..n)) = Cardinality({d}) * Cardinality(1..n)
  BY <1>1, <1>2, FS_Product, Zenon
<1>4. QED
  BY <1>1, <1>2, <1>3

\* Paying a row adds its units to those that are outstanding, recording it takes
\* them away.
LEMMA OutstandingMoves ==
  ASSUME NEW S, IsFiniteSet(S), NEW d, NEW n \in Nat
  PROVE  /\ S \cap ({d} \X (1..n)) = {} =>
              /\ IsFiniteSet(S \cup ({d} \X (1..n)))
              /\ Cardinality(S \cup ({d} \X (1..n))) = Cardinality(S) + n
         /\ {d} \X (1..n) \subseteq S =>
              /\ IsFiniteSet(S \ ({d} \X (1..n)))
              /\ Cardinality(S \ ({d} \X (1..n))) = Cardinality(S) - n
<1> DEFINE T == {d} \X (1..n)
<1>1. IsFiniteSet(T) /\ Cardinality(T) = n
  BY UnitsOf
<1> HIDE DEF T
<1>2. Cardinality(S) \in Nat
  BY FS_CardinalityType
<1>3. ASSUME S \cap T = {}
      PROVE  IsFiniteSet(S \cup T) /\ Cardinality(S \cup T) = Cardinality(S) + n
  <2>1. Cardinality(S \cap T) = 0
    BY <1>3, FS_EmptySet
  <2>2. /\ IsFiniteSet(S \cup T)
        /\ Cardinality(S \cup T) = Cardinality(S) + Cardinality(T) - Cardinality(S \cap T)
    BY <1>1, FS_Union, Zenon
  <2>3. QED
    BY <1>1, <1>2, <2>1, <2>2
<1>4. ASSUME T \subseteq S
      PROVE  IsFiniteSet(S \ T) /\ Cardinality(S \ T) = Cardinality(S) - n
  <2>1. S \cap T = T
    BY <1>4
  <2>2. IsFiniteSet(S \ T) /\ Cardinality(S \ T) = Cardinality(S) - Cardinality(S \cap T)
    BY FS_Difference, Zenon
  <2>3. QED
    BY <1>1, <2>1, <2>2
<1>5. QED
  BY <1>3, <1>4 DEF T

LEMMA OutstandingGrows ==
  ASSUME NEW S, IsFiniteSet(S), NEW d, NEW n \in Nat, S \cap ({d} \X (1..n)) = {}
  PROVE  /\ IsFiniteSet(S \cup ({d} \X (1..n)))
         /\ Cardinality(S \cup ({d} \X (1..n))) = Cardinality(S) + n
BY OutstandingMoves, Zenon

LEMMA OutstandingShrinks ==
  ASSUME NEW S, IsFiniteSet(S), NEW d, NEW n \in Nat, {d} \X (1..n) \subseteq S
  PROVE  /\ IsFiniteSet(S \ ({d} \X (1..n)))
         /\ Cardinality(S \ ({d} \X (1..n))) = Cardinality(S) - n
BY OutstandingMoves, Zenon

LEMMA CoverTyped ==
  ASSUME Inv, CoverInv, NEW u \in Users
  PROVE  /\ Cardinality(Outstanding(u)) \in Nat /\ Gift(u) \in Nat
         /\ disbursed[u] \in Int /\ refDisbursed[u] \in Int /\ wallet[u] \in Nat
<1>1. Cardinality(Outstanding(u)) \in Nat
  BY FS_CardinalityType DEF CoverInv
<1>2. QED
  BY <1>1, UserTyped DEF Gift, Unit, Inv

\* Steps that neither pay nor record.
LEMMA CoverKept ==
  ASSUME CoverInv, UNCHANGED <<known, disbursed, refDisbursed, wallet, paid>>
  PROVE  CoverInv'
BY DEF CoverInv, Gift, Outstanding

LEMMA CreateUserCover ==
  ASSUME Inv, CoverInv, NEW v \in Users, CreateUser(v)
  PROVE  CoverInv'
<1>1. /\ known' = known \cup {v} /\ v \notin known /\ v \in Newcomers
      /\ disbursed' = [disbursed EXCEPT ![v] = 1] /\ disbursed[v] = 0
      /\ UNCHANGED <<refDisbursed, wallet, paid>>
  BY DEF CreateUser, CoverInv, Inv, Strangers, disbursal
<1>2. ASSUME NEW u \in Users
      PROVE  Unit * disbursed'[u] + refDisbursed'[u] + Cardinality(Outstanding(u)')
               <= wallet'[u] + Gift(u)'
  <2>1. Outstanding(u)' = Outstanding(u)
    BY <1>1 DEF Outstanding
  <2>2. Unit * disbursed[u] + refDisbursed[u] + Cardinality(Outstanding(u)) <= wallet[u] + Gift(u)
    BY DEF CoverInv
  <2>3. u = v => disbursed'[u] = disbursed[u] + 1 /\ Gift(u)' = Gift(u) + Unit
    BY <1>1 DEF Gift, Inv, TypeOK, Unit
  <2>4. u # v => disbursed'[u] = disbursed[u] /\ Gift(u)' = Gift(u)
    BY <1>1 DEF Gift, Inv, TypeOK
  <2> DEFINE n == Cardinality(Outstanding(u))
             g == Gift(u)
  <2>5. /\ n \in Nat /\ g \in Nat
        /\ disbursed[u] \in Int /\ refDisbursed[u] \in Int /\ wallet[u] \in Nat
    BY CoverTyped
  <2> HIDE DEF n, g
  <2>6. Unit * disbursed[u] + refDisbursed[u] + n <= wallet[u] + g
    BY <2>2 DEF n, g
  <2>7. CASE u = v
    <3>1. Unit * disbursed'[u] + refDisbursed'[u] + n <= wallet'[u] + (g + Unit)
      BY <1>1, <2>3, <2>5, <2>6, <2>7 DEF Unit
    <3>2. QED
      BY <2>1, <2>3, <2>7, <3>1 DEF n, g
  <2>8. CASE u # v
    BY <1>1, <2>1, <2>2, <2>4, <2>8
  <2>9. QED
    BY <2>7, <2>8
<1>3. \A u \in Users : IsFiniteSet(Outstanding(u)')
  BY <1>1 DEF CoverInv, Outstanding
<1>4. QED
  BY <1>1, <1>2, <1>3 DEF CoverInv

\* A step that does not bring what is counted, or outstanding, closer to the wallet.
LEMMA CoverMoves ==
  ASSUME Inv, CoverInv, NEW u \in Users,
         Cardinality(Outstanding(u)') \in Int, UNCHANGED known,
         wallet'[u] \in Int, disbursed'[u] \in Int, refDisbursed'[u] \in Int,
         Unit * disbursed'[u] + refDisbursed'[u] + Cardinality(Outstanding(u)') - wallet'[u]
           <= Unit * disbursed[u] + refDisbursed[u] + Cardinality(Outstanding(u)) - wallet[u]
  PROVE  Unit * disbursed'[u] + refDisbursed'[u] + Cardinality(Outstanding(u)')
           <= wallet'[u] + Gift(u)'
<1>1. /\ Cardinality(Outstanding(u)) \in Int /\ Gift(u) \in Int /\ wallet[u] \in Int
      /\ Unit * disbursed[u] + refDisbursed[u] \in Int
      /\ Unit * disbursed'[u] + refDisbursed'[u] \in Int
      /\ Unit * disbursed[u] + refDisbursed[u] + Cardinality(Outstanding(u)) <= wallet[u] + Gift(u)
  BY CoverTyped DEF CoverInv, Unit
<1>2. Gift(u)' = Gift(u)
  BY DEF Gift
<1>3. \A s, t, c, d, v, w, g \in Int : t + d - w <= s + c - v /\ s + c <= v + g => t + d <= w + g
  OBVIOUS
<1>4. QED
  BY <1>1, <1>2, <1>3

LEMMA DisburseCover ==
  ASSUME Inv, Inv', BatchInv, CoverInv, NEW d \in Disbursals, DisburseBatch(d)
  PROVE  CoverInv'
<1>1. PICK D \in SUBSET due[d], P \in SUBSET due[d] : PayEffect(d, D, P)
  BY DisbursePays
<1>2. paid[d] = {} /\ UNCHANGED <<known, disbursed, refDisbursed>>
  BY DEF DisburseBatch, table
<1>3. P \in SUBSET Due /\ Alone(P) /\ \A q \in P : Amount(q) \in Nat
  <2>1. P \in SUBSET Due /\ Alone(P)
    BY DEF BatchInv, Alone, Held, Inv, TypeOK
  <2>2. QED
    BY <1>1, <2>1 DEF PayEffect, Due, Amount, Unit
<1>4. paid \in [Disbursals -> SUBSET Due]
  BY DEF Inv, TypeOK
<1>5. ASSUME NEW u \in Users
      PROVE  /\ IsFiniteSet(Outstanding(u)')
             /\ Unit * disbursed'[u] + refDisbursed'[u] + Cardinality(Outstanding(u)')
                  <= wallet'[u] + Gift(u)'
  <2>0. /\ disbursed[u] \in Int /\ refDisbursed[u] \in Int
        /\ wallet[u] \in Nat /\ wallet'[u] \in Nat
        /\ IsFiniteSet(Outstanding(u)) /\ Cardinality(Outstanding(u)) \in Nat
    BY CoverTyped DEF Inv, TypeOK, CoverInv
  <2>1. \A q \in P : q.user = u => wallet'[u] = wallet[u] \/ wallet'[u] = wallet[u] + Amount(q)
    BY <1>1, <1>3, PaysEach DEF PayEffect
  <2>2. (\A q \in P : q.user # u) => wallet'[u] = wallet[u]
    BY <1>1, <1>3, PaysEach DEF PayEffect
  <2>3. wallet[u] <= wallet'[u]
    BY <1>3, <2>0, <2>1, <2>2
  <2>4. CASE /\ paid' = [paid EXCEPT ![d] = P] /\ Pays(P)
             /\ \E q \in P : q.user = u
    <3>1. PICK q \in P : q.user = u
      BY <2>4
    <3>2. wallet'[u] = wallet[u] + Amount(q)
      BY <1>3, <2>4, <3>1, PaysEach
    <3> DEFINE T == {d} \X (1..Amount(q))
    <3>3. Outstanding(u) \cap T = {}
      BY <1>2 DEF Outstanding
    <3>4. Outstanding(u)' = Outstanding(u) \cup T
      <4>1. \A p \in P : p.user = u => p = q
        BY <1>3, <3>1 DEF Alone
      <4>2. paid'[d] = P /\ \A e \in Disbursals \ {d} : paid'[e] = paid[e]
        BY <1>4, <2>4
      <4>3. 1..Amount(q) \subseteq Nat
        BY <1>3
      <4>4. ASSUME NEW e \in Disbursals, NEW k \in Nat
            PROVE  <<e, k>> \in Outstanding(u)' <=> <<e, k>> \in Outstanding(u) \cup T
        BY <1>2, <3>1, <4>1, <4>2 DEF Outstanding
      <4>5. T \subseteq Disbursals \X Nat
        BY <4>3
      <4>6. QED
        BY <4>4, <4>5 DEF Outstanding
    <3>5. /\ IsFiniteSet(Outstanding(u)')
          /\ Cardinality(Outstanding(u)') = Cardinality(Outstanding(u)) + Amount(q)
      <4>1. Amount(q) \in Nat
        BY <1>3
      <4>2. /\ IsFiniteSet(Outstanding(u) \cup T)
            /\ Cardinality(Outstanding(u) \cup T) = Cardinality(Outstanding(u)) + Amount(q)
        BY <2>0, <3>3, <4>1, OutstandingGrows, Zenon
      <4>3. QED
        BY <3>4, <4>2
    <3>6. Unit * disbursed'[u] + refDisbursed'[u] + Cardinality(Outstanding(u)') - wallet'[u]
            <= Unit * disbursed[u] + refDisbursed[u] + Cardinality(Outstanding(u)) - wallet[u]
      BY <1>2, <1>3, <2>0, <3>2, <3>5 DEF Unit
    <3>7. Cardinality(Outstanding(u)') \in Int
      BY <1>3, <2>0, <3>5
    <3>8. QED
      BY <1>2, <2>0, <3>5, <3>6, <3>7, CoverMoves
  <2>5. CASE \/ UNCHANGED paid
             \/ paid' = [paid EXCEPT ![d] = P] /\ \A q \in P : q.user # u
    <3>1. \A e \in Disbursals : \A q : q.user = u => (q \in paid'[e] <=> q \in paid[e])
      BY <1>2, <1>4, <2>5
    <3>2. Outstanding(u)' = Outstanding(u)
      BY <3>1 DEF Outstanding
    <3>3. Unit * disbursed'[u] + refDisbursed'[u] + Cardinality(Outstanding(u)') - wallet'[u]
            <= Unit * disbursed[u] + refDisbursed[u] + Cardinality(Outstanding(u)) - wallet[u]
      BY <1>2, <2>0, <2>3, <3>2 DEF Unit
    <3>4. QED
      BY <1>2, <2>0, <3>2, <3>3, CoverMoves
  <2>6. QED
    BY <1>1, <2>4, <2>5 DEF PayEffect
<1>6. QED
  BY <1>2, <1>5 DEF CoverInv

LEMMA RecordCover ==
  ASSUME Inv, Inv', BatchInv, CoverInv, NEW d \in Disbursals, RecordDisbursed(d)
  PROVE  CoverInv'
<1>1. PICK q \in paid[d] :
        /\ q \in Due /\ q.user \in Users
        /\ paid' = [paid EXCEPT ![d] = @ \ {q}]
        /\ \/ /\ UNCHANGED slipped
              /\ \A u \in Users :
                   /\ daily'[u] = IF u = q.user THEN daily[u] - q.kitns ELSE daily[u]
                   /\ refDaily'[u] = IF u = q.user THEN refDaily[u] - q.ref ELSE refDaily[u]
                   /\ disbursed'[u]
                        = IF u = q.user THEN disbursed[u] + q.kitns ELSE disbursed[u]
                   /\ refDisbursed'[u]
                        = IF u = q.user THEN refDisbursed[u] + q.ref ELSE refDisbursed[u]
           \/ /\ slipped' = slipped \cup {q.user}
              /\ UNCHANGED <<daily, refDaily, disbursed, refDisbursed>>
  BY RecordEffect
<1>2. UNCHANGED <<known, wallet>> /\ paid \in [Disbursals -> SUBSET Due]
  BY DEF RecordDisbursed, Inv, TypeOK
<1>3. paid'[d] = paid[d] \ {q} /\ \A e \in Disbursals \ {d} : paid'[e] = paid[e]
  BY <1>1, <1>2
<1>4. Amount(q) \in Nat /\ q.kitns \in Int /\ q.ref \in Int
  BY <1>1 DEF BatchInv, Due, Amount, Unit
<1>5. ASSUME NEW u \in Users
      PROVE  /\ IsFiniteSet(Outstanding(u)')
             /\ Unit * disbursed'[u] + refDisbursed'[u] + Cardinality(Outstanding(u)')
                  <= wallet'[u] + Gift(u)'
  <2>0. /\ disbursed[u] \in Int /\ refDisbursed[u] \in Int
        /\ disbursed'[u] \in Int /\ refDisbursed'[u] \in Int
        /\ wallet[u] \in Nat /\ wallet'[u] = wallet[u]
        /\ IsFiniteSet(Outstanding(u)) /\ Cardinality(Outstanding(u)) \in Nat
    BY <1>2, CoverTyped DEF Inv, TypeOK, CoverInv
  <2>1. CASE u = q.user
    <3> DEFINE T == {d} \X (1..Amount(q))
    <3>1. \A p \in paid[d] : p.user = u => p = q
      BY <2>1 DEF BatchInv, Alone, Held
    <3>2. 1..Amount(q) \subseteq Nat
      BY <1>4
    <3>3. T \subseteq Outstanding(u)
      BY <2>1, <3>2 DEF Outstanding
    <3>4. ASSUME NEW e \in Disbursals, NEW k \in Nat
          PROVE  <<e, k>> \in Outstanding(u)' <=> <<e, k>> \in Outstanding(u) \ T
      BY <1>3, <3>1 DEF Outstanding
    <3>5. Outstanding(u)' = Outstanding(u) \ T
      BY <3>4 DEF Outstanding
    <3>6. /\ IsFiniteSet(Outstanding(u)')
          /\ Cardinality(Outstanding(u)') = Cardinality(Outstanding(u)) - Amount(q)
      <4>1. /\ IsFiniteSet(Outstanding(u) \ T)
            /\ Cardinality(Outstanding(u) \ T) = Cardinality(Outstanding(u)) - Amount(q)
        BY <1>4, <2>0, <3>3, OutstandingShrinks, Zenon
      <4>2. QED
        BY <3>5, <4>1
    <3>7. Cardinality(Outstanding(u)') \in Int
      BY <1>4, <2>0, <3>6
    <3>8. CASE disbursed'[u] = disbursed[u] + q.kitns /\ refDisbursed'[u] = refDisbursed[u] + q.ref
      <4>1. Unit * disbursed'[u] + refDisbursed'[u]
              = Unit * disbursed[u] + refDisbursed[u] + Amount(q)
        <5>1. Unit * disbursed'[u] + refDisbursed'[u]
                = Unit * (disbursed[u] + q.kitns) + (refDisbursed[u] + q.ref)
          BY <3>8
        <5>2. disbursed[u] \in Int /\ refDisbursed[u] \in Int
          BY <2>0
        <5>3. Unit * (disbursed[u] + q.kitns) + (refDisbursed[u] + q.ref)
                = Unit * disbursed[u] + refDisbursed[u] + (Unit * q.kitns + q.ref)
          BY <1>4, <5>2 DEF Unit
        <5>4. QED
          BY <5>1, <5>3 DEF Amount
      <4>2. Unit * disbursed'[u] + refDisbursed'[u] + Cardinality(Outstanding(u)') - wallet'[u]
              <= Unit * disbursed[u] + refDisbursed[u] + Cardinality(Outstanding(u)) - wallet[u]
        BY <1>4, <2>0, <3>6, <4>1 DEF Unit
      <4>3. QED
        BY <1>2, <2>0, <3>6, <3>7, <4>2, CoverMoves
    <3>9. CASE UNCHANGED <<disbursed, refDisbursed>>
      <4>1. Unit * disbursed'[u] + refDisbursed'[u] + Cardinality(Outstanding(u)') - wallet'[u]
              <= Unit * disbursed[u] + refDisbursed[u] + Cardinality(Outstanding(u)) - wallet[u]
        BY <1>4, <2>0, <3>6, <3>9 DEF Unit
      <4>2. QED
        BY <1>2, <2>0, <3>6, <3>7, <4>1, CoverMoves
    <3>10. QED
      BY <1>1, <2>1, <3>8, <3>9
  <2>2. CASE u # q.user
    <3>1. \A e \in Disbursals : \A p : p.user = u => (p \in paid'[e] <=> p \in paid[e])
      BY <1>3, <2>2
    <3>2. Outstanding(u)' = Outstanding(u)
      BY <3>1 DEF Outstanding
    <3>3. Unit * disbursed'[u] + refDisbursed'[u] + Cardinality(Outstanding(u)') - wallet'[u]
            <= Unit * disbursed[u] + refDisbursed[u] + Cardinality(Outstanding(u)) - wallet[u]
      BY <1>1, <2>0, <2>2, <3>2 DEF Unit
    <3>4. QED
      BY <1>2, <2>0, <3>2, <3>3, CoverMoves
  <2>3. QED
    BY <2>1, <2>2
<1>6. QED
  BY <1>2, <1>5 DEF CoverInv

LEMMA CrashCover ==
  ASSUME Inv, CoverInv, Crash
  PROVE  CoverInv'
<1>1. UNCHANGED <<known, disbursed, refDisbursed, wallet>> /\ \A d \in Disbursals : paid'[d] = {}
  BY DEF Crash, table
<1>2. ASSUME NEW u \in Users
      PROVE  /\ IsFiniteSet(Outstanding(u)')
             /\ Unit * disbursed'[u] + refDisbursed'[u] + Cardinality(Outstanding(u)')
                  <= wallet'[u] + Gift(u)'
  <2>1. Outstanding(u)' = {}
    BY <1>1 DEF Outstanding
  <2>2. IsFiniteSet(Outstanding(u)') /\ Cardinality(Outstanding(u)') = 0
    BY <2>1, FS_EmptySet
  <2> DEFINE n == Cardinality(Outstanding(u))
  <2>3. /\ n \in Nat /\ Gift(u) \in Nat
        /\ disbursed[u] \in Int /\ refDisbursed[u] \in Int /\ wallet[u] \in Nat
        /\ Unit * disbursed[u] + refDisbursed[u] + n <= wallet[u] + Gift(u)
    BY CoverTyped DEF CoverInv
  <2> HIDE DEF n
  <2>4. Gift(u)' = Gift(u)
    BY <1>1 DEF Gift
  <2>5. QED
    BY <1>1, <2>2, <2>3, <2>4 DEF Unit
<1>3. QED
  BY <1>1, <1>2 DEF CoverInv

\* What the table counts as paid has been paid, but for the first KITN of users the
\* backend has created: whatever fails, for every user, and even when disbursements
\* meet.
THEOREM Covered == Spec => []RecordedIsPaid
<1>1. Init => CoverInv
  <2> SUFFICES ASSUME Init PROVE CoverInv
    OBVIOUS
  <2>1. \A u \in Users : Outstanding(u) = {}
    BY DEF Init, Outstanding
  <2>2. IsFiniteSet({}) /\ Cardinality({}) = 0
    BY FS_EmptySet
  <2>3. \A u \in Users : /\ disbursed[u] = 0 /\ refDisbursed[u] = 0 /\ wallet[u] = 0
                         /\ Gift(u) \in Nat
    BY DEF Init, Nothing, Gift, Unit
  <2>4. QED
    BY <2>1, <2>2, <2>3 DEF CoverInv, Unit, Init
<1>2. Inv /\ Inv' /\ BatchInv /\ CoverInv /\ [Next]_vars => CoverInv'
  <2> SUFFICES ASSUME Inv, Inv', BatchInv, CoverInv, [Next]_vars PROVE CoverInv'
    OBVIOUS
  <2>1. ASSUME NEW u \in Users, Earn(u) PROVE CoverInv'
    BY <2>1, CoverKept DEF Earn, disbursal
  <2>2. ASSUME NEW r \in Redemptions,
               ReadReferred(r) \/ TakeRow(r) \/ RedeemStep(r) \/ StoreRedeemed(r)
        PROVE  CoverInv'
    BY <2>2, CoverKept DEF ReadReferred, TakeRow, RedeemStep, StoreRedeemed, disbursal, table
  <2>3. ASSUME NEW d \in Disbursals, ReadDue(d) PROVE CoverInv'
    BY <2>3, CoverKept DEF ReadDue, table
  <2>4. CASE UNCHANGED vars
    BY <2>4, CoverKept DEF vars, table, disbursal
  <2>5. QED
    BY <2>1, <2>2, <2>3, <2>4, CreateUserCover, DisburseCover, RecordCover, CrashCover DEF Next
<1>3. Inv /\ CoverInv => RecordedIsPaid
  <2> SUFFICES ASSUME Inv, CoverInv, NEW u \in Users
               PROVE  Unit * disbursed[u] + refDisbursed[u]
                        <= wallet[u] + IF u \in Newcomers THEN Unit ELSE 0
    BY DEF RecordedIsPaid
  <2> DEFINE n == Cardinality(Outstanding(u))
  <2>1. /\ n \in Nat /\ Gift(u) \in Nat
        /\ disbursed[u] \in Int /\ refDisbursed[u] \in Int /\ wallet[u] \in Nat
        /\ Unit * disbursed[u] + refDisbursed[u] + n <= wallet[u] + Gift(u)
    BY CoverTyped DEF CoverInv
  <2>2. Gift(u) <= IF u \in Newcomers THEN Unit ELSE 0
    BY DEF Gift, Unit
  <2> HIDE DEF n
  <2>3. QED
    BY <2>1, <2>2 DEF Unit
<1>4. Inv /\ BatchInv /\ [Next]_vars => BatchInv'
  BY BatchStep
<1>5. QED
  BY <1>1, <1>2, <1>3, <1>4, PaymentsInit, Inductive, PTL DEF Spec
=============================================================================
