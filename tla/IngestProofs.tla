---------------------------- MODULE IngestProofs ----------------------------
(***************************************************************************)
(* Proofs about Ingest, for any number of concurrent submissions, sources, *)
(* payloads and failures: its safety, and that it implements IngestOnce.   *)
(* In the second half they are about Matching (as M, an instance of it),   *)
(* whose photos end in that ingest.                                        *)
(***************************************************************************)
EXTENDS Ingest, SequenceTheorems, FiniteSetTheorems, TLAPS

Points == {"idle", "lookup", "core", "insert", "hook", "publish", "record"}

\* A request that has committed its report and not queued it yet.
Committing(r) == pc[r] \in {"hook", "publish"}

\* QueuedOnce is not inductive alone: only one request can have committed the
\* report of a source, and nothing is queued before it is committed.
OnceInv ==
  /\ QueuedOnce
  /\ \A s \in Sources : queued[s] > 0 => report[s] # None
  /\ \A r \in Requests :
       Committing(r) => report[src[r]] # None /\ queued[src[r]] = 0
  /\ \A q, r \in Requests :
       q # r /\ Committing(q) /\ Committing(r) => src[q] # src[r]

\* The answers agree with the receipt, which is never replaced.
ReceiptInv ==
  \A a \in answered :
    /\ a.code = 200 => receipt[a.src] = a.pay
    /\ a.code = 409 => receipt[a.src] \notin {None, a.pay}

\* A committed report has been queued, is about to be, or was left behind by a
\* failure; only what is committed, or has no decodable image, gets a receipt.
TraceInv ==
  /\ \A s \in Sources :
       report[s] # None => queued[s] > 0 \/ AboutToQueue(s) \/ s \in stranded
  /\ \A r \in Requests : pc[r] = "record" => report[src[r]] # None \/ pay[r] \in BadImages
  /\ \A s \in Sources : receipt[s] # None => report[s] # None \/ receipt[s] \in BadImages

Inv == TypeOK /\ OnceInv /\ ReceiptInv /\ TraceInv

LEMMA InitInv == Init => Inv
  BY ConstantsAssumption
  DEF Init, Inv, TypeOK, OnceInv, QueuedOnce, Committing, ReceiptInv, TraceInv

-----------------------------------------------------------------------------
(* Typing. *)

LEMMA OutcomeTyped ==
  ASSUME TypeOK, NEW kind, Works \/ Fails(kind)
  PROVE  faults' \in Nat
  BY DEF TypeOK, Works, Fails

LEMMA GoesTyped ==
  ASSUME TypeOK, NEW r \in Requests, NEW point \in Points, Goes(r, point)
  PROVE  pc' \in [Requests -> Points] /\ answered' \subseteq Answers
  BY DEF TypeOK, Points, Goes

LEMMA AnswerTyped ==
  ASSUME TypeOK, NEW r \in Requests, NEW code \in {200, 409, 500, 503}, Answer(r, code)
  PROVE  pc' \in [Requests -> Points] /\ answered' \subseteq Answers
  BY DEF TypeOK, Points, Answer, Answers

LEMMA CoreReturnsTyped ==
  ASSUME TypeOK, NEW r \in Requests, NEW code \in {200, 400, 500, 503}, CoreReturns(r, code)
  PROVE  pc' \in [Requests -> Points] /\ answered' \subseteq Answers
<1>1. CASE code \in {500, 503}
  BY <1>1, AnswerTyped DEF CoreReturns, Refuses
<1>2. CASE code \in {200, 400}
  BY <1>2, GoesTyped DEF CoreReturns, Refuses, Points
<1>3. QED
  BY <1>1, <1>2

\* The part of TypeOK that steps of a request do not reach through Goes and Answer.
LEMMA RequestTyped ==
  ASSUME TypeOK, NEW r \in Requests,
         \/ Submit(r) \/ Lookup(r) \/ CoreLookup(r) \/ CoreInsert(r)
         \/ CoreHook(r) \/ CorePublish(r) \/ Record(r)
  PROVE  TypeOK'
<1> USE DEF tables
<1>1. CASE Submit(r)
  <2>1. pc' \in [Requests -> Points] /\ answered' \subseteq Answers
    BY <1>1, GoesTyped DEF Submit, Points
  <2>2. src' \in [Requests -> Sources] /\ pay' \in [Requests -> Payloads]
    BY <1>1 DEF Submit, TypeOK
  <2>3. asked' \in Nat
    BY <1>1 DEF Submit, TypeOK
  <2>4. UNCHANGED <<report, receipt, queued, stranded, faults>>
    BY <1>1 DEF Submit
  <2>5. QED
    BY <2>1, <2>2, <2>3, <2>4 DEF TypeOK, Points
<1>2. CASE Lookup(r)
  <2>1. ReplayCode(r) \in {200, 409}
    BY DEF ReplayCode
  <2>2. Goes(r, "core") \/ Answer(r, ReplayCode(r)) \/ Answer(r, 500)
    BY <1>2 DEF Lookup
  <2>3. pc' \in [Requests -> Points] /\ answered' \subseteq Answers
    BY <2>1, <2>2, GoesTyped, AnswerTyped DEF Points
  <2>4. faults' \in Nat
    BY <1>2, OutcomeTyped DEF Lookup
  <2>5. QED
    BY <1>2, <2>3, <2>4 DEF Lookup, TypeOK, Points
<1>3. CASE CoreLookup(r)
  <2>1. \/ \E code \in {200, 400, 500, 503} : CoreReturns(r, code)
        \/ Goes(r, "insert")
    BY <1>3 DEF CoreLookup
  <2>2. pc' \in [Requests -> Points] /\ answered' \subseteq Answers
    BY <2>1, CoreReturnsTyped, GoesTyped DEF Points
  <2>3. faults' \in Nat
    BY <1>3, OutcomeTyped DEF CoreLookup
  <2>4. QED
    BY <1>3, <2>2, <2>3 DEF CoreLookup, TypeOK, Points
<1>4. CASE CoreInsert(r)
  <2>1. CoreReturns(r, 500) \/ Goes(r, "hook")
    BY <1>4 DEF CoreInsert
  <2>2. pc' \in [Requests -> Points] /\ answered' \subseteq Answers
    BY <2>1, CoreReturnsTyped, GoesTyped DEF Points
  <2>3. faults' \in Nat
    BY <1>4, OutcomeTyped DEF CoreInsert
  <2>4. report' \in [Sources -> Payloads \cup {None}] /\ stranded' \subseteq Sources
    BY <1>4 DEF CoreInsert, Strand, TypeOK
  <2>5. QED
    BY <1>4, <2>2, <2>3, <2>4 DEF CoreInsert, TypeOK, Points
<1>5. CASE CoreHook(r)
  <2>1. CoreReturns(r, 500) \/ Goes(r, "publish")
    BY <1>5 DEF CoreHook
  <2>2. pc' \in [Requests -> Points] /\ answered' \subseteq Answers
    BY <2>1, CoreReturnsTyped, GoesTyped DEF Points
  <2>3. faults' \in Nat
    BY <1>5, OutcomeTyped DEF CoreHook
  <2>4. stranded' \subseteq Sources
    BY <1>5 DEF CoreHook, Strand, TypeOK
  <2>5. QED
    BY <1>5, <2>2, <2>3, <2>4 DEF CoreHook, TypeOK, Points
<1>6. CASE CorePublish(r)
  <2>1. CoreReturns(r, 200) \/ CoreReturns(r, 503)
    BY <1>6 DEF CorePublish
  <2>2. pc' \in [Requests -> Points] /\ answered' \subseteq Answers
    BY <2>1, CoreReturnsTyped
  <2>3. faults' \in Nat
    BY <1>6, OutcomeTyped DEF CorePublish
  <2>4. queued' \in [Sources -> Nat] /\ stranded' \subseteq Sources
    BY <1>6 DEF CorePublish, Strand, TypeOK
  <2>5. QED
    BY <1>6, <2>2, <2>3, <2>4 DEF CorePublish, TypeOK, Points
<1>7. CASE Record(r)
  <2>1. Answer(r, 200) \/ Answer(r, 500)
    BY <1>7 DEF Record
  <2>2. pc' \in [Requests -> Points] /\ answered' \subseteq Answers
    BY <2>1, AnswerTyped
  <2>3. faults' \in Nat
    BY <1>7, OutcomeTyped DEF Record
  <2>4. receipt' \in [Sources -> Payloads \cup {None}]
    BY <1>7 DEF Record, TypeOK
  <2>5. QED
    BY <1>7, <2>2, <2>3, <2>4 DEF Record, TypeOK, Points
<1>8. QED
  BY <1>1, <1>2, <1>3, <1>4, <1>5, <1>6, <1>7

-----------------------------------------------------------------------------
(* What a step of one request does, and what it leaves alone. *)

\* The request moves on and the others stay where they are.
Moves(r) ==
  /\ src' \in [Requests -> Sources]
  /\ \A q \in Requests : q # r => pc'[q] = pc[q] /\ src'[q] = src[q] /\ pay'[q] = pay[q]

\* The answer that a step of a submission gives.
Answers1(r, code) == answered' = answered \cup {[src |-> src[r], pay |-> pay[r], code |-> code]}

LEMMA GoesMoves ==
  ASSUME TypeOK, NEW r \in Requests, NEW point \in Points, Goes(r, point)
  PROVE  /\ pc'[r] = point /\ answered' = answered
         /\ \A q \in Requests : q # r => pc'[q] = pc[q]
  BY DEF Goes, TypeOK

LEMMA AnswerMoves ==
  ASSUME TypeOK, NEW r \in Requests, NEW code, Answer(r, code)
  PROVE  /\ pc'[r] = "idle" /\ Answers1(r, code)
         /\ \A q \in Requests : q # r => pc'[q] = pc[q]
  BY DEF Answer, Answers1, TypeOK

LEMMA CoreReturnsMoves ==
  ASSUME TypeOK, NEW r \in Requests, NEW code \in {200, 400, 500, 503}, CoreReturns(r, code)
  PROVE  /\ \A q \in Requests : q # r => pc'[q] = pc[q]
         /\ \/ pc'[r] = "record" /\ answered' = answered /\ code \in {200, 400}
            \/ pc'[r] = "idle" /\ Answers1(r, code) /\ code \in {500, 503}
<1>1. CASE code \in {500, 503}
  BY <1>1, AnswerMoves DEF CoreReturns, Refuses
<1>2. CASE code \in {200, 400}
  BY <1>2, GoesMoves DEF CoreReturns, Refuses, Points
<1>3. QED
  BY <1>1, <1>2

LEMMA LookupEffect ==
  ASSUME TypeOK, NEW r \in Requests, Lookup(r)
  PROVE  /\ Moves(r) /\ src'[r] = src[r] /\ pc[r] = "lookup" /\ pc'[r] \in {"core", "idle"}
         /\ UNCHANGED <<report, receipt, queued, stranded>>
         /\ \/ answered' = answered
            \/ Answers1(r, 500)
            \/ receipt[src[r]] # None /\ Answers1(r, ReplayCode(r))
<1>1. src' \in [Requests -> Sources] /\ pc[r] = "lookup"
  BY DEF Lookup, TypeOK
<1>2. UNCHANGED <<report, receipt, queued, stranded, src, pay>>
  BY DEF Lookup, tables
<1>3. CASE Goes(r, "core")
  BY <1>1, <1>2, <1>3, GoesMoves DEF Moves, Points
<1>4. CASE receipt[src[r]] # None /\ Answer(r, ReplayCode(r))
  BY <1>1, <1>2, <1>4, AnswerMoves DEF Moves
<1>5. CASE Answer(r, 500)
  BY <1>1, <1>2, <1>5, AnswerMoves DEF Moves
<1>6. QED
  BY <1>3, <1>4, <1>5 DEF Lookup

LEMMA CoreLookupEffect ==
  ASSUME TypeOK, NEW r \in Requests, CoreLookup(r)
  PROVE  /\ Moves(r) /\ src'[r] = src[r] /\ pc[r] = "core"
         /\ pc'[r] \in {"insert", "record", "idle"}
         /\ pc'[r] = "record" => report[src[r]] # None \/ pay'[r] \in BadImages
         /\ UNCHANGED <<report, receipt, queued, stranded>>
         /\ answered' = answered \/ Answers1(r, 500)
<1>1. src' \in [Requests -> Sources] /\ pc[r] = "core"
  BY DEF CoreLookup, TypeOK
<1>2. UNCHANGED <<report, receipt, queued, stranded, src, pay>>
  BY DEF CoreLookup, tables
<1>3. CASE report[src[r]] # None /\ CoreReturns(r, 200)
  BY <1>1, <1>2, <1>3, CoreReturnsMoves DEF Moves
<1>4. CASE pay[r] \in BadImages /\ CoreReturns(r, 400)
  BY <1>1, <1>2, <1>4, CoreReturnsMoves DEF Moves
<1>5. CASE Goes(r, "insert")
  BY <1>1, <1>2, <1>5, GoesMoves DEF Moves, Points
<1>6. CASE CoreReturns(r, 500)
  <2>1. pc'[r] = "idle" /\ Answers1(r, 500) /\ \A q \in Requests : q # r => pc'[q] = pc[q]
    BY <1>6, CoreReturnsMoves
  <2>2. QED
    BY <1>1, <1>2, <2>1 DEF Moves
<1>7. QED
  BY <1>3, <1>4, <1>5, <1>6 DEF CoreLookup

LEMMA CoreInsertEffect ==
  ASSUME TypeOK, NEW r \in Requests, CoreInsert(r)
  PROVE  /\ Moves(r) /\ src'[r] = src[r] /\ pc[r] = "insert"
         /\ UNCHANGED <<receipt, queued>>
         /\ answered' = answered \/ Answers1(r, 500)
         /\ \/ /\ UNCHANGED <<report, stranded>>
               /\ pc'[r] = "idle"
            \/ /\ report[src[r]] = None
               /\ report' = [report EXCEPT ![src[r]] = pay[r]]
               /\ \/ pc'[r] = "hook" /\ UNCHANGED stranded
                  \/ pc'[r] = "idle" /\ stranded' = stranded \cup {src[r]}
<1>1. src' \in [Requests -> Sources] /\ pc[r] = "insert"
  BY DEF CoreInsert, TypeOK
<1>2. UNCHANGED <<receipt, queued, src, pay>>
  BY DEF CoreInsert
<1>3. CASE Goes(r, "hook")
  <2>1. pc'[r] = "hook" /\ answered' = answered /\ \A q \in Requests : q # r => pc'[q] = pc[q]
    BY <1>3, GoesMoves DEF Points
  <2>2. ~CoreReturns(r, 500)
    BY <2>1, CoreReturnsMoves
  <2>3. QED
    BY <1>1, <1>2, <2>1, <2>2 DEF Moves, CoreInsert, Insertable
<1>4. CASE CoreReturns(r, 500)
  <2>1. pc'[r] = "idle" /\ Answers1(r, 500) /\ \A q \in Requests : q # r => pc'[q] = pc[q]
    BY <1>4, CoreReturnsMoves
  <2>2. ~Goes(r, "hook")
    BY <2>1, GoesMoves DEF Points
  <2>3. QED
    BY <1>1, <1>2, <2>1, <2>2 DEF Moves, CoreInsert, Insertable, Strand
<1>5. QED
  BY <1>3, <1>4 DEF CoreInsert

LEMMA CoreHookEffect ==
  ASSUME TypeOK, NEW r \in Requests, CoreHook(r)
  PROVE  /\ Moves(r) /\ src'[r] = src[r] /\ pc[r] = "hook"
         /\ UNCHANGED <<report, receipt, queued>>
         /\ answered' = answered \/ Answers1(r, 500)
         /\ \/ pc'[r] = "publish" /\ UNCHANGED stranded
            \/ pc'[r] = "idle" /\ stranded' = stranded \cup {src[r]}
<1>1. src' \in [Requests -> Sources] /\ pc[r] = "hook"
  BY DEF CoreHook, TypeOK
<1>2. UNCHANGED <<report, receipt, queued, src, pay>>
  BY DEF CoreHook, tables
<1>3. CASE Goes(r, "publish") /\ UNCHANGED stranded
  BY <1>1, <1>2, <1>3, GoesMoves DEF Moves, Points
<1>4. CASE CoreReturns(r, 500) /\ Strand({src[r]})
  <2>1. pc'[r] = "idle" /\ Answers1(r, 500) /\ \A q \in Requests : q # r => pc'[q] = pc[q]
    BY <1>4, CoreReturnsMoves
  <2>2. QED
    BY <1>1, <1>2, <1>4, <2>1 DEF Moves, Strand
<1>5. QED
  BY <1>3, <1>4 DEF CoreHook

LEMMA CorePublishEffect ==
  ASSUME TypeOK, NEW r \in Requests, CorePublish(r)
  PROVE  /\ Moves(r) /\ src'[r] = src[r] /\ pc[r] = "publish"
         /\ UNCHANGED <<report, receipt>>
         /\ answered' = answered \/ Answers1(r, 503)
         /\ \/ /\ pc'[r] = "record" /\ UNCHANGED stranded
               /\ queued' = [queued EXCEPT ![src[r]] = @ + 1]
            \/ /\ pc'[r] = "idle" /\ stranded' = stranded \cup {src[r]}
               /\ UNCHANGED queued
<1>1. src' \in [Requests -> Sources] /\ pc[r] = "publish"
  BY DEF CorePublish, TypeOK
<1>2. UNCHANGED <<report, receipt, src, pay>>
  BY DEF CorePublish, tables
<1>3. CASE /\ queued' = [queued EXCEPT ![src[r]] = @ + 1]
           /\ CoreReturns(r, 200) /\ UNCHANGED stranded
  <2>1. pc'[r] = "record" /\ answered' = answered /\ \A q \in Requests : q # r => pc'[q] = pc[q]
    BY <1>3, CoreReturnsMoves
  <2>2. QED
    BY <1>1, <1>2, <1>3, <2>1 DEF Moves
<1>4. CASE CoreReturns(r, 503) /\ Strand({src[r]}) /\ UNCHANGED queued
  <2>1. pc'[r] = "idle" /\ Answers1(r, 503) /\ \A q \in Requests : q # r => pc'[q] = pc[q]
    BY <1>4, CoreReturnsMoves
  <2>2. QED
    BY <1>1, <1>2, <1>4, <2>1 DEF Moves, Strand
<1>5. QED
  BY <1>3, <1>4 DEF CorePublish

LEMMA RecordEffect ==
  ASSUME TypeOK, NEW r \in Requests, Record(r)
  PROVE  /\ Moves(r) /\ src'[r] = src[r] /\ pc[r] = "record" /\ pc'[r] = "idle"
         /\ UNCHANGED <<report, queued, stranded>>
         /\ \/ UNCHANGED receipt /\ Answers1(r, 500)
            \/ /\ receipt[src[r]] = None
               /\ receipt' = [receipt EXCEPT ![src[r]] = pay[r]]
               /\ Answers1(r, 200) \/ Answers1(r, 500)
<1>1. src' \in [Requests -> Sources] /\ pc[r] = "record"
  BY DEF Record, TypeOK
<1>2. UNCHANGED <<report, queued, stranded, src, pay>>
  BY DEF Record
<1>3. PICK code \in {200, 500} : Answer(r, code)
  BY DEF Record
<1>4. pc'[r] = "idle" /\ \A q \in Requests : q # r => pc'[q] = pc[q]
  BY <1>3, AnswerMoves
<1>5. Answer(r, 200) => Answers1(r, 200)
  BY AnswerMoves
<1>6. Answer(r, 500) => Answers1(r, 500)
  BY AnswerMoves
<1>7. \/ UNCHANGED receipt /\ Answers1(r, 500)
      \/ /\ receipt[src[r]] = None
         /\ receipt' = [receipt EXCEPT ![src[r]] = pay[r]]
         /\ Answers1(r, 200) \/ Answers1(r, 500)
  BY <1>5, <1>6 DEF Record
<1>8. QED
  BY <1>1, <1>2, <1>4, <1>7 DEF Moves

LEMMA SubmitEffect ==
  ASSUME TypeOK, NEW r \in Requests, Submit(r)
  PROVE  /\ Moves(r) /\ pc[r] = "idle" /\ pc'[r] = "lookup"
         /\ UNCHANGED <<report, receipt, queued, stranded, answered>>
<1>1. src' \in [Requests -> Sources] /\ pc[r] = "idle"
  BY DEF Submit, TypeOK
<1>2. UNCHANGED <<report, receipt, queued, stranded>>
  BY DEF Submit, tables
<1>3. /\ pc'[r] = "lookup" /\ answered' = answered
      /\ \A q \in Requests : q # r => pc'[q] = pc[q]
  BY GoesMoves DEF Submit, Points
<1>4. \A q \in Requests : q # r => src'[q] = src[q] /\ pay'[q] = pay[q]
  BY DEF Submit, TypeOK
<1>5. QED
  BY <1>1, <1>2, <1>3, <1>4 DEF Moves

-----------------------------------------------------------------------------
(* The parts of the invariant, when little changes. *)

LEMMA OnceKept ==
  ASSUME TypeOK, OnceInv, NEW r \in Requests, Moves(r), UNCHANGED <<report, queued>>,
         Committing(r)' => Committing(r) /\ src'[r] = src[r]
  PROVE  OnceInv'
<1>1. \A q \in Requests : Committing(q)' => Committing(q) /\ src'[q] = src[q]
  BY DEF Moves, Committing
<1>2. QED
  BY <1>1 DEF OnceInv, QueuedOnce

LEMMA TraceKept ==
  ASSUME TypeOK, TraceInv, NEW r \in Requests, Moves(r),
         UNCHANGED <<report, receipt, queued>>, stranded \subseteq stranded',
         Committing(r) => \/ Committing(r)' /\ src'[r] = src[r]
                          \/ src[r] \in stranded',
         pc'[r] = "record" => report[src'[r]] # None \/ pay'[r] \in BadImages
  PROVE  TraceInv'
<1>1. ASSUME NEW s \in Sources, AboutToQueue(s)
      PROVE  AboutToQueue(s)' \/ s \in stranded'
  <2>1. PICK q \in Requests : Committing(q) /\ src[q] = s
    BY <1>1 DEF AboutToQueue, Committing
  <2>2. QED
    BY <2>1 DEF AboutToQueue, Committing, Moves
<1>2. \A s \in Sources :
        report'[s] # None => queued'[s] > 0 \/ AboutToQueue(s)' \/ s \in stranded'
  BY <1>1 DEF TraceInv
<1>3. \A q \in Requests : pc'[q] = "record" => report'[src'[q]] # None \/ pay'[q] \in BadImages
  BY DEF TraceInv, Moves
<1>4. QED
  BY <1>2, <1>3 DEF TraceInv

-----------------------------------------------------------------------------
(* The invariant is inductive. *)

Step(r) ==
  \/ Submit(r) \/ Lookup(r) \/ CoreLookup(r) \/ CoreInsert(r)
  \/ CoreHook(r) \/ CorePublish(r) \/ Record(r)

LEMMA OnceStep ==
  ASSUME Inv, NEW r \in Requests, Step(r)
  PROVE  OnceInv'
<1> USE DEF Inv
<1>1. CASE Submit(r)
  BY <1>1, SubmitEffect, OnceKept DEF Committing
<1>2. CASE Lookup(r)
  BY <1>2, LookupEffect, OnceKept DEF Committing
<1>3. CASE CoreLookup(r)
  BY <1>3, CoreLookupEffect, OnceKept DEF Committing
<1>4. CASE CoreInsert(r)
  <2>1. CASE UNCHANGED report
    <3>1. pc'[r] = "idle"
      BY <1>4, <2>1, CoreInsertEffect, ConstantsAssumption DEF TypeOK
    <3>2. QED
      BY <1>4, <2>1, <3>1, CoreInsertEffect, OnceKept DEF Committing
  <2>2. CASE /\ report[src[r]] = None
             /\ report' = [report EXCEPT ![src[r]] = pay[r]]
    <3>1. /\ Moves(r) /\ src'[r] = src[r] /\ queued' = queued
      BY <1>4, CoreInsertEffect
    <3>2. \A q \in Requests : Committing(q) => src[q] # src[r]
      BY <2>2 DEF OnceInv
    <3>3. queued[src[r]] = 0
      BY <2>2 DEF OnceInv, TypeOK
    <3>4. /\ report'[src[r]] # None
          /\ \A s \in Sources : s # src[r] => report'[s] = report[s]
      BY <2>2, ConstantsAssumption DEF TypeOK
    <3>5. \A q \in Requests : q # r => (Committing(q)' <=> Committing(q)) /\ src'[q] = src[q]
      BY <3>1 DEF Moves, Committing
    <3>6. src[r] \in Sources /\ \A q \in Requests : src[q] \in Sources
      BY DEF TypeOK
    <3>7. \A s \in Sources : queued'[s] > 0 => report'[s] # None
      BY <3>1, <3>4 DEF OnceInv
    <3>8. \A q \in Requests : Committing(q)' => report'[src'[q]] # None /\ queued'[src'[q]] = 0
      BY <3>1, <3>2, <3>3, <3>4, <3>5, <3>6 DEF OnceInv
    <3>9. \A p, q \in Requests : p # q /\ Committing(p)' /\ Committing(q)' => src'[p] # src'[q]
      BY <3>1, <3>2, <3>5 DEF OnceInv
    <3>10. QED
      BY <3>1, <3>7, <3>8, <3>9 DEF OnceInv, QueuedOnce
  <2>3. QED
    BY <1>4, <2>1, <2>2, CoreInsertEffect
<1>5. CASE CoreHook(r)
  BY <1>5, CoreHookEffect, OnceKept DEF Committing
<1>6. CASE CorePublish(r)
  <2>1. CASE UNCHANGED queued
    <3>1. Committing(r)
      BY <1>6, CorePublishEffect DEF Committing
    <3>2. QED
      BY <1>6, <2>1, <3>1, CorePublishEffect, OnceKept
  <2>2. CASE /\ pc'[r] = "record"
             /\ queued' = [queued EXCEPT ![src[r]] = @ + 1]
    <3>1. /\ Moves(r) /\ src'[r] = src[r] /\ report' = report /\ Committing(r) /\ ~Committing(r)'
      BY <1>6, <2>2, CorePublishEffect DEF Committing
    <3>2. \A q \in Requests : q # r => (Committing(q)' <=> Committing(q)) /\ src'[q] = src[q]
      BY <3>1 DEF Moves, Committing
    <3>3. \A q \in Requests : Committing(q)' => Committing(q) /\ src'[q] = src[q] /\ src[q] # src[r]
      BY <3>1, <3>2 DEF OnceInv
    <3>4. /\ src[r] \in Sources /\ report[src[r]] # None /\ queued'[src[r]] = 1
          /\ \A s \in Sources : s # src[r] => queued'[s] = queued[s]
      BY <2>2, <3>1 DEF OnceInv, TypeOK
    <3>5. \A q \in Requests : src[q] \in Sources
      BY DEF TypeOK
    <3>6. QED
      BY <3>1, <3>3, <3>4, <3>5 DEF OnceInv, QueuedOnce
  <2>3. QED
    BY <1>6, <2>1, <2>2, CorePublishEffect
<1>7. CASE Record(r)
  BY <1>7, RecordEffect, OnceKept DEF Committing
<1>8. QED
  BY <1>1, <1>2, <1>3, <1>4, <1>5, <1>6, <1>7 DEF Step

LEMMA ReceiptStep ==
  ASSUME Inv, NEW r \in Requests, Step(r)
  PROVE  ReceiptInv'
<1> USE DEF Inv
<1> DEFINE Refused == \E code \in {500, 503} : Answers1(r, code)
<1>1. ASSUME UNCHANGED receipt, answered' = answered \/ Refused
      PROVE  ReceiptInv'
  <2>1. \A a \in answered' : a.code \in {200, 409} => a \in answered
    BY <1>1 DEF Answers1
  <2>2. QED
    BY <1>1, <2>1 DEF ReceiptInv
<1>2. CASE Submit(r)
  BY <1>1, <1>2, SubmitEffect
<1>3. CASE Lookup(r)
  <2>1. receipt' = receipt
    BY <1>3, LookupEffect
  <2>2. CASE receipt[src[r]] # None /\ Answers1(r, ReplayCode(r))
    BY <2>1, <2>2 DEF ReceiptInv, Answers1, ReplayCode, SameMaterial
  <2>3. QED
    BY <1>1, <1>3, <2>1, <2>2, LookupEffect
<1>4. CASE CoreLookup(r)
  BY <1>1, <1>4, CoreLookupEffect
<1>5. CASE CoreInsert(r)
  BY <1>1, <1>5, CoreInsertEffect
<1>6. CASE CoreHook(r)
  BY <1>1, <1>6, CoreHookEffect
<1>7. CASE CorePublish(r)
  BY <1>1, <1>7, CorePublishEffect
<1>8. CASE Record(r)
  <2>1. CASE UNCHANGED receipt /\ Answers1(r, 500)
    BY <1>1, <2>1
  <2>2. CASE /\ receipt[src[r]] = None
             /\ receipt' = [receipt EXCEPT ![src[r]] = pay[r]]
             /\ Answers1(r, 200) \/ Answers1(r, 500)
    <3>1. src[r] \in Sources /\ receipt'[src[r]] = pay[r] /\ pay[r] # None
      BY <2>2, ConstantsAssumption DEF TypeOK
    <3>2. \A s \in Sources : s # src[r] => receipt'[s] = receipt[s]
      BY <2>2 DEF TypeOK
    <3>3. \A a \in answered : a.src \in Sources /\ a.pay \in Payloads
      BY DEF TypeOK, Answers
    <3>4. \A a \in answered : a.code \in {200, 409} => a.src # src[r]
      BY <2>2, <3>3, ConstantsAssumption DEF ReceiptInv
    <3>5. \A a \in answered :
            /\ a.code = 200 => receipt'[a.src] = a.pay
            /\ a.code = 409 => receipt'[a.src] \notin {None, a.pay}
      BY <3>2, <3>3, <3>4 DEF ReceiptInv
    <3>6. QED
      BY <2>2, <3>1, <3>5 DEF ReceiptInv, Answers1
  <2>3. QED
    BY <1>8, <2>1, <2>2, RecordEffect
<1>9. QED
  BY <1>2, <1>3, <1>4, <1>5, <1>6, <1>7, <1>8 DEF Step

LEMMA TraceStep ==
  ASSUME Inv, NEW r \in Requests, Step(r)
  PROVE  TraceInv'
<1> USE DEF Inv
<1>1. CASE Submit(r)
  BY <1>1, SubmitEffect, TraceKept DEF Committing
<1>2. CASE Lookup(r)
  BY <1>2, LookupEffect, TraceKept DEF Committing
<1>3. CASE CoreLookup(r)
  BY <1>3, CoreLookupEffect, TraceKept DEF Committing
<1>4. CASE CoreInsert(r)
  <2>1. /\ Moves(r) /\ src'[r] = src[r] /\ UNCHANGED <<receipt, queued>>
        /\ pc'[r] # "record" /\ ~Committing(r) /\ stranded \subseteq stranded'
    BY <1>4, CoreInsertEffect DEF Committing
  <2>2. CASE UNCHANGED report
    BY <2>1, <2>2, TraceKept
  <2>3. CASE /\ report' = [report EXCEPT ![src[r]] = pay[r]]
             /\ Committing(r)' \/ src[r] \in stranded'
    <3>1. /\ src[r] \in Sources /\ report'[src[r]] # None
          /\ \A s \in Sources : s # src[r] => report'[s] = report[s]
      BY <2>3, ConstantsAssumption DEF TypeOK
    <3>2. ASSUME NEW s \in Sources, AboutToQueue(s)
          PROVE  AboutToQueue(s)'
      <4>1. PICK q \in Requests : Committing(q) /\ src[q] = s
        BY <3>2 DEF AboutToQueue, Committing
      <4>2. QED
        BY <2>1, <4>1 DEF AboutToQueue, Committing, Moves
    <3>3. AboutToQueue(src[r])' \/ src[r] \in stranded'
      BY <2>1, <2>3 DEF AboutToQueue, Committing
    <3>4. \A s \in Sources :
            report'[s] # None => queued'[s] > 0 \/ AboutToQueue(s)' \/ s \in stranded'
      BY <2>1, <3>1, <3>2, <3>3 DEF TraceInv
    <3>5. \A q \in Requests : src[q] \in Sources
      BY DEF TypeOK
    <3>6. \A q \in Requests : pc'[q] = "record" => report'[src'[q]] # None \/ pay'[q] \in BadImages
      BY <2>1, <3>1, <3>5 DEF TraceInv, Moves
    <3>7. \A s \in Sources : receipt'[s] # None => report'[s] # None \/ receipt'[s] \in BadImages
      BY <2>1, <3>1 DEF TraceInv
    <3>8. QED
      BY <3>4, <3>6, <3>7 DEF TraceInv
  <2>4. QED
    BY <1>4, <2>2, <2>3, CoreInsertEffect DEF Committing
<1>5. CASE CoreHook(r)
  BY <1>5, CoreHookEffect, TraceKept DEF Committing
<1>6. CASE CorePublish(r)
  <2>1. CASE UNCHANGED queued /\ src[r] \in stranded' /\ pc'[r] = "idle"
    BY <1>6, <2>1, CorePublishEffect, TraceKept
  <2>2. CASE /\ pc'[r] = "record" /\ UNCHANGED stranded
             /\ queued' = [queued EXCEPT ![src[r]] = @ + 1]
    <3>1. /\ Moves(r) /\ src'[r] = src[r] /\ UNCHANGED <<report, receipt>> /\ Committing(r)
      BY <1>6, CorePublishEffect DEF Committing
    <3>2. /\ src[r] \in Sources /\ queued'[src[r]] > 0 /\ report[src[r]] # None
          /\ \A s \in Sources : s # src[r] => queued'[s] = queued[s]
      BY <2>2, <3>1 DEF OnceInv, TypeOK
    <3>3. ASSUME NEW s \in Sources, AboutToQueue(s), s # src[r]
          PROVE  AboutToQueue(s)'
      <4>1. PICK q \in Requests : Committing(q) /\ src[q] = s
        BY <3>3 DEF AboutToQueue, Committing
      <4>2. QED
        BY <3>1, <3>3, <4>1 DEF AboutToQueue, Committing, Moves
    <3>4. \A s \in Sources :
            report'[s] # None => queued'[s] > 0 \/ AboutToQueue(s)' \/ s \in stranded'
      BY <2>2, <3>1, <3>2, <3>3 DEF TraceInv
    <3>5. \A q \in Requests : pc'[q] = "record" => report'[src'[q]] # None \/ pay'[q] \in BadImages
      BY <3>1, <3>2 DEF TraceInv, Moves
    <3>6. QED
      BY <3>1, <3>4, <3>5 DEF TraceInv
  <2>3. QED
    BY <1>6, <2>1, <2>2, CorePublishEffect
<1>7. CASE Record(r)
  <2>1. CASE UNCHANGED receipt
    BY <1>7, <2>1, RecordEffect, TraceKept DEF Committing
  <2>2. CASE receipt' = [receipt EXCEPT ![src[r]] = pay[r]]
    <3>1. /\ Moves(r) /\ src'[r] = src[r] /\ UNCHANGED <<report, queued, stranded>>
          /\ pc[r] = "record" /\ pc'[r] = "idle"
      BY <1>7, RecordEffect
    <3>2. \A q \in Requests : (Committing(q)' <=> Committing(q)) /\ src'[q] = src[q]
      BY <3>1 DEF Moves, Committing
    <3>3. \A s \in Sources : AboutToQueue(s) => AboutToQueue(s)'
      BY <3>2 DEF AboutToQueue, Committing
    <3>4. report[src[r]] # None \/ pay[r] \in BadImages
      BY <3>1 DEF TraceInv
    <3>5. \A s \in Sources : receipt'[s] # None => report'[s] # None \/ receipt'[s] \in BadImages
      BY <2>2, <3>1, <3>4 DEF TraceInv, TypeOK
    <3>6. \A q \in Requests : pc'[q] = "record" => report'[src'[q]] # None \/ pay'[q] \in BadImages
      BY <3>1 DEF TraceInv, Moves
    <3>7. QED
      BY <3>1, <3>3, <3>5, <3>6 DEF TraceInv
  <2>3. QED
    BY <1>7, <2>1, <2>2, RecordEffect
<1>8. QED
  BY <1>1, <1>2, <1>3, <1>4, <1>5, <1>6, <1>7 DEF Step

LEMMA CrashStep ==
  ASSUME Inv, Crash
  PROVE  Inv'
<1> USE DEF Inv
<1>1. /\ UNCHANGED <<report, receipt, src, pay, queued, answered, asked>>
      /\ faults' \in Nat /\ pc' = [r \in Requests |-> "idle"]
      /\ stranded' = stranded \cup {src[r] : r \in {q \in Requests : Committing(q)}}
  BY DEF Crash, Fails, TypeOK, tables, Strand, Committing
<1>2. TypeOK'
  BY <1>1 DEF TypeOK, Answers
<1>3. \A r \in Requests : pc'[r] = "idle"
  BY <1>1
<1>4. OnceInv'
  BY <1>1, <1>3 DEF OnceInv, QueuedOnce, Committing
<1>5. ReceiptInv'
  BY <1>1 DEF ReceiptInv
<1>6. \A s \in Sources : AboutToQueue(s) => s \in stranded'
  BY <1>1 DEF AboutToQueue, Committing
<1>7. TraceInv'
  BY <1>1, <1>3, <1>6 DEF TraceInv
<1>8. QED
  BY <1>2, <1>4, <1>5, <1>7

LEMMA StutterStep ==
  ASSUME Inv, UNCHANGED vars
  PROVE  Inv'
<1> USE DEF Inv, vars, tables, request
<1>1. TypeOK'
  BY DEF TypeOK
<1>2. OnceInv' /\ ReceiptInv'
  BY DEF OnceInv, QueuedOnce, Committing, ReceiptInv
<1>3. TraceInv'
  BY DEF TraceInv, AboutToQueue
<1>4. QED
  BY <1>1, <1>2, <1>3

THEOREM Inductive == Spec => []Inv
<1>1. Inv /\ [Next]_vars => Inv'
  <2> SUFFICES ASSUME Inv, [Next]_vars
               PROVE  Inv'
    OBVIOUS
  <2>1. ASSUME NEW r \in Requests, Step(r)
        PROVE  Inv'
    <3>1. TypeOK'
      BY <2>1, RequestTyped DEF Inv, Step
    <3>2. QED
      BY <2>1, <3>1, OnceStep, ReceiptStep, TraceStep DEF Inv
  <2>2. CASE Crash
    BY <2>2, CrashStep
  <2>3. CASE UNCHANGED vars
    BY <2>3, StutterStep
  <2>4. QED
    BY <2>1, <2>2, <2>3 DEF Next, Step
<1>2. QED
  BY InitInv, <1>1, PTL DEF Spec

-----------------------------------------------------------------------------
(* What follows from it. *)

\* Every variable keeps its type, whatever fails and whenever the process dies.
THEOREM TypeCorrect == Spec => []TypeOK
<1>1. Inv => TypeOK
  BY DEF Inv
<1>2. QED
  BY <1>1, Inductive, PTL

\* However many requests submit a source, and whatever fails in between, its
\* analysis is triggered at most once.
THEOREM TriggeredOnce == Spec => []QueuedOnce
<1>1. Inv => QueuedOnce
  BY DEF Inv, OnceInv
<1>2. QED
  BY <1>1, Inductive, PTL

\* No source is accepted with two payloads, and no accepted payload is answered
\* as a conflict.
THEOREM OnePayload == Spec => []OnePayloadAccepted
<1>1. Inv => OnePayloadAccepted
  BY DEF Inv, ReceiptInv, OnePayloadAccepted, Accepted
<1>2. QED
  BY <1>1, Inductive, PTL

\* An accepted submission is queued, about to be, or was left behind by a failure
\* after its commit, unless its image could not be decoded.
THEOREM NoneForgotten == Spec => []AcceptedIsQueued
<1>1. Inv => AcceptedIsQueued
  <2> SUFFICES ASSUME Inv, NEW a \in Accepted
               PROVE  \/ queued[a.src] > 0
                      \/ AboutToQueue(a.src)
                      \/ a.src \in stranded
                      \/ a.pay \in BadImages
    BY DEF AcceptedIsQueued
  <2>1. a.src \in Sources /\ a.pay \in Payloads /\ receipt[a.src] = a.pay
    BY DEF Inv, Accepted, ReceiptInv, TypeOK, Answers
  <2>2. receipt[a.src] # None
    BY <2>1, ConstantsAssumption
  <2>3. report[a.src] # None \/ a.pay \in BadImages
    BY <2>1, <2>2 DEF Inv, TraceInv
  <2>4. QED
    BY <2>1, <2>3 DEF Inv, TraceInv
<1>2. QED
  BY <1>1, Inductive, PTL

-----------------------------------------------------------------------------
(* Ingest implements IngestOnce. *)

\* What is inserted can be decoded, and a source that was left behind has a report
\* and nobody about to queue it.
LeftInv ==
  /\ \A r \in Requests : pc[r] = "insert" => pay[r] \notin BadImages
  /\ \A r \in Requests : Committing(r) => src[r] \notin stranded
  /\ \A s \in stranded : report[s] # None

LEMMA InsertsDecoded ==
  ASSUME TypeOK, NEW r \in Requests, CoreLookup(r), pc'[r] = "insert"
  PROVE  pay'[r] \notin BadImages
<1>1. \A code \in {200, 400, 500} : ~CoreReturns(r, code)
  BY CoreReturnsMoves
<1>2. UNCHANGED pay
  BY DEF CoreLookup
<1>3. QED
  BY <1>1, <1>2 DEF CoreLookup

\* LeftInv, when nothing is left behind or stored.
LEMMA LeftKept ==
  ASSUME LeftInv, NEW r \in Requests, Moves(r), UNCHANGED <<report, stranded>>,
         Committing(r)' => Committing(r) /\ src'[r] = src[r],
         pc'[r] = "insert" => pay'[r] \notin BadImages
  PROVE  LeftInv'
  BY DEF LeftInv, Moves, Committing

\* LeftInv, when the request gives up after its commit.
LEMMA LeftBehind ==
  ASSUME Inv, LeftInv, NEW r \in Requests, Moves(r), Committing(r), UNCHANGED report,
         pc'[r] = "idle", stranded' = stranded \cup {src[r]}
  PROVE  LeftInv'
<1>1. report[src[r]] # None
  BY DEF Inv, OnceInv
<1>2. \A q \in Requests : Committing(q)' =>
        q # r /\ Committing(q) /\ src'[q] = src[q] /\ src[q] # src[r]
  BY DEF Inv, OnceInv, Moves, Committing
<1>3. \A q \in Requests : pc'[q] = "insert" => pc[q] = "insert" /\ pay'[q] = pay[q]
  BY DEF Moves
<1>4. QED
  BY <1>1, <1>2, <1>3 DEF LeftInv

LEMMA LeftStep ==
  ASSUME Inv, LeftInv, NEW r \in Requests, Step(r)
  PROVE  LeftInv'
<1>0. TypeOK
  BY DEF Inv
<1>1. CASE Submit(r)
  BY <1>0, <1>1, SubmitEffect, LeftKept DEF Committing
<1>2. CASE Lookup(r)
  BY <1>0, <1>2, LookupEffect, LeftKept DEF Committing
<1>3. CASE CoreLookup(r)
  BY <1>0, <1>3, CoreLookupEffect, InsertsDecoded, LeftKept DEF Committing
<1>4. CASE CoreInsert(r)
  <2>1. Moves(r) /\ src'[r] = src[r] /\ pc'[r] # "insert"
    BY <1>0, <1>4, CoreInsertEffect
  <2>2. CASE UNCHANGED <<report, stranded>> /\ pc'[r] = "idle"
    BY <2>1, <2>2, LeftKept DEF Committing
  <2>3. CASE /\ report[src[r]] = None
             /\ report' = [report EXCEPT ![src[r]] = pay[r]]
             /\ \/ pc'[r] = "hook" /\ UNCHANGED stranded
                \/ pc'[r] = "idle" /\ stranded' = stranded \cup {src[r]}
    <3>1. /\ src[r] \in Sources /\ report'[src[r]] # None
          /\ \A s \in Sources : s # src[r] => report'[s] = report[s]
      BY <1>0, <2>3, ConstantsAssumption DEF TypeOK
    <3>2. src[r] \notin stranded /\ \A q \in Requests : Committing(q) => src[q] # src[r]
      BY <2>3 DEF LeftInv, Inv, OnceInv
    <3>3. \A q \in Requests : q # r /\ Committing(q)' => src'[q] \notin stranded'
      BY <2>1, <2>3, <3>2 DEF LeftInv, Moves, Committing
    <3>4. Committing(r)' => src'[r] \notin stranded'
      BY <2>1, <2>3, <3>2 DEF Committing
    <3>5. stranded' \subseteq stranded \cup {src[r]} /\ stranded \subseteq Sources
      BY <1>0, <2>3 DEF TypeOK
    <3>6. \A s \in stranded' : report'[s] # None
      BY <3>1, <3>5 DEF LeftInv
    <3>7. \A q \in Requests : pc'[q] = "insert" => pay'[q] \notin BadImages
      BY <2>1 DEF LeftInv, Moves
    <3>8. QED
      BY <3>3, <3>4, <3>6, <3>7 DEF LeftInv
  <2>4. QED
    BY <1>0, <1>4, <2>2, <2>3, CoreInsertEffect
<1>5. CASE CoreHook(r)
  <2>1. Moves(r) /\ src'[r] = src[r] /\ Committing(r) /\ UNCHANGED report
    BY <1>0, <1>5, CoreHookEffect DEF Committing
  <2>2. CASE pc'[r] = "publish" /\ UNCHANGED stranded
    BY <2>1, <2>2, LeftKept
  <2>3. CASE pc'[r] = "idle" /\ stranded' = stranded \cup {src[r]}
    BY <2>1, <2>3, LeftBehind
  <2>4. QED
    BY <1>0, <1>5, <2>2, <2>3, CoreHookEffect
<1>6. CASE CorePublish(r)
  <2>1. Moves(r) /\ src'[r] = src[r] /\ Committing(r) /\ UNCHANGED report
    BY <1>0, <1>6, CorePublishEffect DEF Committing
  <2>2. CASE pc'[r] = "record" /\ UNCHANGED stranded
    BY <2>1, <2>2, LeftKept
  <2>3. CASE pc'[r] = "idle" /\ stranded' = stranded \cup {src[r]}
    BY <2>1, <2>3, LeftBehind
  <2>4. QED
    BY <1>0, <1>6, <2>2, <2>3, CorePublishEffect
<1>7. CASE Record(r)
  BY <1>0, <1>7, RecordEffect, LeftKept DEF Committing
<1>8. QED
  BY <1>1, <1>2, <1>3, <1>4, <1>5, <1>6, <1>7 DEF Step

\* What a crash leaves behind was committed, and nobody is at work after it.
LEMMA CrashLeaves ==
  ASSUME Inv, Crash
  PROVE  /\ UNCHANGED <<report, receipt, queued, answered>>
         /\ \A r \in Requests : pc'[r] = "idle"
         /\ stranded' = stranded \cup {src[r] : r \in {q \in Requests : Committing(q)}}
  BY DEF Crash, tables, Strand, Committing

\* What Ingest implements IngestOnce by: only what can be decoded is stored, and whoever
\* is about to queue a report has not left it behind.
THEOREM LeftAlways == Spec => [](Inv /\ LeftInv)
<1>1. Init => LeftInv
  BY DEF Init, LeftInv, Committing
<1>2. Inv /\ LeftInv /\ [Next]_vars => LeftInv'
  <2> SUFFICES ASSUME Inv, LeftInv, [Next]_vars
               PROVE  LeftInv'
    OBVIOUS
  <2>1. CASE Crash
    BY <2>1, CrashLeaves DEF LeftInv, Inv, OnceInv, Committing
  <2>2. CASE UNCHANGED vars
    BY <2>2 DEF LeftInv, Committing, vars, tables, request
  <2>3. QED
    BY <2>1, <2>2, LeftStep DEF Next, Step
<1>3. QED
  BY <1>1, <1>2, Inductive, PTL DEF Spec

\* A step that gives an answer gives one that agrees with the receipts after it.
LEMMA AnswerAgrees ==
  ASSUME TypeOK, ReceiptInv', NEW r \in Requests,
         NEW code \in {200, 409, 500, 503}, Answers1(r, code)
  PROVE  \E s \in Sources, p \in Payloads : Abstract!Respond(s, p)
<1> DEFINE a == [src |-> src[r], pay |-> pay[r], code |-> code]
<1>1. src[r] \in Sources /\ pay[r] \in Payloads
  BY DEF TypeOK
<1>2. a \in answered' /\ answered' = answered \cup {a}
  BY DEF Answers1
<1>3. /\ code = 200 => receipt'[src[r]] = pay[r]
      /\ code = 409 => receipt'[src[r]] \notin {None, pay[r]}
  BY <1>2 DEF ReceiptInv
<1>4. Abstract!Respond(src[r], pay[r])
  BY <1>2, <1>3 DEF Abstract!Respond
<1>5. QED
  BY <1>1, <1>4

\* Each step of a request is one of the abstract ingest, or none, and its answer agrees.
Abstracted ==
  \/ \E s \in Sources, p \in Payloads \ BadImages : Abstract!Commit(s, p)
  \/ \E s \in Sources : Abstract!HandOn(s)
  \/ \E S \in SUBSET Sources : Abstract!Abandon(S)
  \/ \E s \in Sources, p \in Payloads : Abstract!Accept(s, p)
  \/ Abstract!Stay

LEMMA RequestAnswers ==
  ASSUME TypeOK, ReceiptInv', NEW r \in Requests, Step(r)
  PROVE  answered' = answered \/ \E s \in Sources, p \in Payloads : Abstract!Respond(s, p)
<1>1. answered' = answered \/ \E code \in {200, 409, 500, 503} : Answers1(r, code)
  BY SubmitEffect, LookupEffect, CoreLookupEffect, CoreInsertEffect, CoreHookEffect,
     CorePublishEffect, RecordEffect DEF Step, ReplayCode
<1>2. QED
  BY <1>1, AnswerAgrees

\* A request gives up the report it has committed.
LEMMA GivesUp ==
  ASSUME Inv, LeftInv, NEW r \in Requests, Committing(r),
         UNCHANGED <<report, receipt, queued>>, stranded' = stranded \cup {src[r]}
  PROVE  Abstracted
<1>1. src[r] \in Sources /\ Abstract!Pending(src[r])
  BY DEF Inv, TypeOK, OnceInv, LeftInv, Abstract!Pending
<1>2. Abstract!Abandon({src[r]})
  BY <1>1 DEF Abstract!Abandon
<1>3. QED
  BY <1>1, <1>2 DEF Abstracted

LEMMA RequestAbstracted ==
  ASSUME Inv, LeftInv, NEW r \in Requests, Step(r)
  PROVE  Abstracted
<1>0. TypeOK /\ src[r] \in Sources /\ pay[r] \in Payloads
  BY DEF Inv, TypeOK
<1>1. CASE UNCHANGED <<report, receipt, queued, stranded>>
  BY <1>1 DEF Abstracted, Abstract!Stay
<1>2. CASE CoreInsert(r)
  <2>1. UNCHANGED <<receipt, queued>> /\ pc[r] = "insert"
    BY <1>0, <1>2, CoreInsertEffect
  <2>2. CASE UNCHANGED <<report, stranded>>
    BY <1>1, <2>1, <2>2
  <2>3. CASE /\ report[src[r]] = None
             /\ report' = [report EXCEPT ![src[r]] = pay[r]]
             /\ stranded' \in {stranded, stranded \cup {src[r]}}
    <3>1. Abstract!Commit(src[r], pay[r])
      BY <2>1, <2>3 DEF Abstract!Commit
    <3>2. pay[r] \notin BadImages
      BY <2>1 DEF LeftInv
    <3>3. QED
      BY <1>0, <3>1, <3>2 DEF Abstracted
  <2>4. QED
    BY <1>0, <1>2, <2>2, <2>3, CoreInsertEffect
<1>3. CASE CoreHook(r)
  <2>1. Committing(r) /\ UNCHANGED <<report, receipt, queued>>
    BY <1>0, <1>3, CoreHookEffect DEF Committing
  <2>2. QED
    BY <1>0, <1>1, <1>3, <2>1, CoreHookEffect, GivesUp
<1>4. CASE CorePublish(r)
  <2>1. Committing(r) /\ UNCHANGED <<report, receipt>>
    BY <1>0, <1>4, CorePublishEffect DEF Committing
  <2>2. CASE UNCHANGED stranded /\ queued' = [queued EXCEPT ![src[r]] = @ + 1]
    <3>1. Abstract!Pending(src[r]) /\ queued[src[r]] = 0
      BY <2>1 DEF Inv, OnceInv, LeftInv, Abstract!Pending
    <3>2. queued' = [queued EXCEPT ![src[r]] = 1]
      BY <2>2, <3>1
    <3>3. Abstract!HandOn(src[r])
      BY <2>1, <2>2, <3>1, <3>2 DEF Abstract!HandOn
    <3>4. QED
      BY <1>0, <3>3 DEF Abstracted
  <2>3. QED
    BY <1>0, <1>4, <2>1, <2>2, CorePublishEffect, GivesUp
<1>5. CASE Record(r)
  <2>1. pc[r] = "record" /\ UNCHANGED <<report, queued, stranded>>
    BY <1>0, <1>5, RecordEffect
  <2>2. CASE /\ receipt[src[r]] = None
             /\ receipt' = [receipt EXCEPT ![src[r]] = pay[r]]
    <3>1. report[src[r]] # None \/ pay[r] \in BadImages
      BY <2>1 DEF Inv, TraceInv
    <3>2. Abstract!Accept(src[r], pay[r])
      BY <2>1, <2>2, <3>1 DEF Abstract!Accept
    <3>3. QED
      BY <1>0, <3>2 DEF Abstracted
  <2>3. QED
    BY <1>0, <1>1, <1>5, <2>1, <2>2, RecordEffect
<1>6. CASE Submit(r) \/ Lookup(r) \/ CoreLookup(r)
  BY <1>0, <1>1, <1>6, SubmitEffect, LookupEffect, CoreLookupEffect
<1>7. QED
  BY <1>2, <1>3, <1>4, <1>5, <1>6 DEF Step

LEMMA CrashAbstracted ==
  ASSUME Inv, LeftInv, Crash
  PROVE  Abstracted
<1> DEFINE S == {src[r] : r \in {q \in Requests : Committing(q)}}
<1>1. UNCHANGED <<report, receipt, queued>> /\ stranded' = stranded \cup S
  BY CrashLeaves
<1>2. S \in SUBSET Sources
  BY DEF Inv, TypeOK
<1>3. \A s \in S : Abstract!Pending(s)
  BY DEF Inv, OnceInv, LeftInv, Abstract!Pending
<1>4. Abstract!Abandon(S)
  BY <1>1, <1>3 DEF Abstract!Abandon
<1> HIDE DEF S
<1>5. QED
  BY <1>2, <1>4 DEF Abstracted

\* However requests for a source interleave, fail and are repeated, each takes effect
\* at one point, and what is answered agrees: the ingest implements its abstraction.
THEOREM ActsAtOnce == Spec => IngestedOnce
<1>1. Init => Abstract!Init
  BY DEF Init, Abstract!Init
<1>2. Inv /\ LeftInv /\ Inv' /\ [Next]_vars => [Abstract!Next]_(Abstract!vars)
  <2> SUFFICES ASSUME Inv, LeftInv, Inv', [Next]_vars
               PROVE  [Abstract!Next]_(Abstract!vars)
    OBVIOUS
  <2>1. ASSUME NEW r \in Requests, Step(r)
        PROVE  Abstract!Next
    <3>1. Abstracted
      BY <2>1, RequestAbstracted
    <3>2. answered' = answered \/ \E s \in Sources, p \in Payloads : Abstract!Respond(s, p)
      BY <2>1, RequestAnswers DEF Inv
    <3>3. QED
      BY <3>1, <3>2 DEF Abstracted, Abstract!Next
  <2>2. CASE Crash
    BY <2>2, CrashAbstracted, CrashLeaves DEF Abstracted, Abstract!Next
  <2>3. CASE UNCHANGED vars
    BY <2>3 DEF vars, tables, Abstract!vars
  <2>4. QED
    BY <2>1, <2>2, <2>3 DEF Next, Step
<1>3. QED
  BY <1>1, <1>2, LeftAlways, PTL DEF Spec, IngestedOnce, Abstract!Spec

-----------------------------------------------------------------------------
(***************************************************************************)
(* What holds of Matching, whose photos are submitted to the listener, for *)
(* any requests, users, photos and failures.  Requests, the bounds and the *)
(* variables that have the same name there stand for those of Matching     *)
(* below, where nothing is about Ingest any more.                          *)
(***************************************************************************)

CONSTANTS Users, Photos, Protocol, Limit, Slips

VARIABLES
  reports, analysed, resolved, raw, responses, clusters, no, user, photo, found, gone,
  marked, similar, matched, new, replayed, slipped, done

M == INSTANCE Matching WITH Failures <- Slips

Report == [src : M!Sources, by : Users, photo : Photos, req : M!Numbers]
Control == {"idle", "compare", "submit", "latest", "publish", "cluster"}
Unsubmitted == {"compare", "submit"}

\* The source that report-listener knows a user's photo by.
SourceOf(u, p) == IF Protocol = "wire" THEN <<u>> ELSE <<u, p>>

\* Requests are numbered, and a request makes one report, when it is submitted.
Numbered ==
  /\ \A r \in Requests : pc[r] # "idle" => no[r] \in 1 .. asked
  /\ \A q, r \in Requests : pc[q] # "idle" /\ pc[r] # "idle" /\ no[q] = no[r] => q = r
  /\ \A s \in DOMAIN reports : reports[s].req \in 1 .. asked
  /\ \A s, t \in DOMAIN reports : reports[s].req = reports[t].req => s = t
  /\ \A r \in Requests : pc[r] \in Unsubmitted =>
       \A s \in DOMAIN reports : reports[s].req # no[r]

\* What a request works on is there.
Within == \A r \in Requests :
  /\ found[r] \cup gone[r] \cup marked[r] \cup similar[r] \subseteq DOMAIN reports
  /\ new[r] \in 0 .. Len(reports)

\* A source has one report, and a receipt only with it.
OwnSource ==
  /\ \A s \in DOMAIN reports : reports[s].src = SourceOf(reports[s].by, reports[s].photo)
  /\ \A s, t \in DOMAIN reports : reports[s].src = reports[t].src => s = t
  /\ \A x \in M!Sources : receipt[x] # None => \E s \in DOMAIN reports : reports[s].src = x

\* The source of a request has its report.
Submitted(r) == \E s \in DOMAIN reports : reports[s].src = M!Source(r)

\* A request that found litter gone has verified it, is about to, or has slipped; one
\* that has submitted its photo has a report or has slipped.
OnTheWay(r) ==
  /\ pc[r] = "idle" => ~matched[r]
  /\ pc[r] = "compare" /\ matched[r] =>
       \/ no[r] \in slipped
       \/ gone[r] # {} \/ marked[r] # {}
       \/ \E p \in responses : p.req = no[r]
  /\ pc[r] \in {"latest", "publish", "cluster"} => no[r] \in slipped \/ Submitted(r)

Queued == \A s \in DOMAIN reports : raw[s] > 0 \/ reports[s].req \in slipped

Traceable == M!Traced /\ Queued /\ \A r \in Requests : OnTheWay(r)

\* What a request has found similar is older than what it has submitted.
Older(r) ==
  \/ no[r] \in replayed
  \/ /\ pc[r] = "latest" => \A s \in similar[r] : s < Len(reports)
     /\ pc[r] \in {"publish", "cluster"} /\ new[r] # 0 => \A s \in similar[r] : s < new[r]

Forward == M!ClustersGrowForward /\ \A r \in Requests : Older(r)

Matches == M!TypeOK /\ Numbered /\ Within

-----------------------------------------------------------------------------
(* Reports. *)

LEMMA Types ==
  ASSUME M!TypeOK
  PROVE  /\ reports \in Seq(Report)
         /\ pc \in [Requests -> Control]
         /\ found \in [Requests -> SUBSET M!Seqs] /\ gone \in [Requests -> SUBSET M!Seqs]
         /\ marked \in [Requests -> SUBSET M!Seqs] /\ similar \in [Requests -> SUBSET M!Seqs]
  BY DEF M!TypeOK, Report, Control

LEMMA Lengths ==
  ASSUME M!TypeOK
  PROVE  Len(reports) \in Nat /\ DOMAIN reports = 1 .. Len(reports)
  BY DEF M!TypeOK

LEMMA Injects ==
  ASSUME NEW n \in Nat, NEW T, IsFiniteSet(T), NEW f \in [1 .. n -> T],
         \A x, y \in 1 .. n : f[x] = f[y] => x = y
  PROVE  n <= Cardinality(T)
<1>1. PICK S : S = 1 .. n
  OBVIOUS
<1>2. IsFiniteSet(S) /\ Cardinality(S) = n
  BY <1>1, FS_Interval
<1>3. f \in [S -> T] /\ \A x, y \in S : f[x] = f[y] => x = y
  BY <1>1
<1>4. ~(Cardinality(T) < Cardinality(S))
  <2> SUFFICES ASSUME Cardinality(T) < Cardinality(S) PROVE FALSE
    OBVIOUS
  <2>1. \E x, y \in S : x # y /\ f[x] = f[y]
    BY <1>2, <1>3, FS_PigeonHole
  <2> QED BY <1>3, <2>1
<1>5. Cardinality(T) \in Nat
  BY FS_CardinalityType
<1> QED BY <1>2, <1>4, <1>5

\* A request makes one report at most.
LEMMA Room ==
  ASSUME M!ConstantsAssumption, M!TypeOK, Numbered
  PROVE  /\ Len(reports) <= asked
         /\ \A r \in Requests : pc[r] \in Unsubmitted => Len(reports) < asked
<1> DEFINE f == [s \in 1 .. Len(reports) |-> reports[s].req]
<1>1. Len(reports) \in Nat /\ DOMAIN reports = 1 .. Len(reports) /\ asked \in Nat
  BY Lengths DEF M!TypeOK, M!ConstantsAssumption
<1>3. IsFiniteSet(1 .. asked) /\ Cardinality(1 .. asked) = asked
  <2>1. asked \in Int /\ 1 \in Int
    BY <1>1
  <2>2. /\ IsFiniteSet(1 .. asked)
        /\ Cardinality(1 .. asked) = IF 1 > asked THEN 0 ELSE asked - 1 + 1
    BY <2>1, FS_Interval
  <2> QED BY <1>1, <2>2
<1>4. \A x, y \in 1 .. Len(reports) : f[x] = f[y] => x = y
  BY <1>1 DEF Numbered
<1>5. f \in [1 .. Len(reports) -> 1 .. asked]
  BY <1>1 DEF Numbered
<1>6. \A r \in Requests : pc[r] \in Unsubmitted => \A s \in 1 .. Len(reports) : f[s] # no[r]
  BY <1>1 DEF Numbered
<1> HIDE DEF f
<1>7. Len(reports) <= asked
  BY <1>1, <1>3, <1>4, <1>5, Injects
<1>8. ASSUME NEW r \in Requests, pc[r] \in Unsubmitted PROVE Len(reports) < asked
  <2>1. PICK T : T = (1 .. asked) \ {no[r]}
    OBVIOUS
  <2>2. no[r] \in 1 .. asked
    BY <1>8 DEF Numbered, Unsubmitted
  <2>3. IsFiniteSet(T) /\ Cardinality(T) = Cardinality(1 .. asked) - 1
    BY <1>3, <2>1, <2>2, FS_RemoveElement
  <2>4. f \in [1 .. Len(reports) -> T]
    BY <1>5, <1>6, <1>8, <2>1
  <2>5. Len(reports) <= Cardinality(T)
    BY <1>1, <1>4, <2>3, <2>4, Injects
  <2> QED BY <1>1, <1>3, <2>3, <2>5
<1> QED BY <1>7, <1>8

LEMMA Created ==
  ASSUME M!TypeOK, NEW r \in Requests, M!Creates(r), no[r] \in M!Numbers
  PROVE  /\ reports' \in Seq(Report)
         /\ DOMAIN reports' = 1 .. Len(reports) + 1 /\ Len(reports') = Len(reports) + 1
         /\ \A s \in DOMAIN reports : s \in DOMAIN reports' /\ reports'[s] = reports[s]
         /\ reports'[Len(reports) + 1] =
              [src |-> M!Source(r), by |-> user[r], photo |-> photo[r], req |-> no[r]]
<1>1. reports \in Seq(Report) /\ Len(reports) \in Nat /\ DOMAIN reports = 1 .. Len(reports)
  BY Types, Lengths
<1>2. user[r] \in Users /\ photo[r] \in Photos
  BY DEF M!TypeOK
<1>3. M!Source(r) \in M!Sources
  BY <1>2 DEF M!Source, M!Sources
<1>4. PICK x : x = [src |-> M!Source(r), by |-> user[r], photo |-> photo[r], req |-> no[r]]
  OBVIOUS
<1>5. x \in Report
  BY <1>2, <1>3, <1>4 DEF Report
<1>6. reports' = Append(reports, x)
  BY <1>4 DEF M!Creates
<1>7. /\ reports' \in Seq(Report) /\ Len(reports') = Len(reports) + 1
      /\ \A i \in 1 .. Len(reports) : reports'[i] = reports[i]
      /\ reports'[Len(reports) + 1] = x
  BY <1>1, <1>5, <1>6, AppendProperties
<1>8. DOMAIN reports' = 1 .. Len(reports) + 1
  BY <1>7
<1> QED BY <1>1, <1>4, <1>7, <1>8

LEMMA Reported ==
  ASSUME M!TypeOK, NEW x
  PROVE  /\ M!ReportFor(x) = 0 => ~\E s \in DOMAIN reports : reports[s].src = x
         /\ M!ReportFor(x) # 0 => M!ReportFor(x) \in DOMAIN reports /\ reports[M!ReportFor(x)].src = x
<1>1. CASE \E s \in DOMAIN reports : reports[s].src = x
  <2>1. M!ReportFor(x) = CHOOSE s \in DOMAIN reports : reports[s].src = x
    BY <1>1 DEF M!ReportFor
  <2>2. M!ReportFor(x) \in DOMAIN reports /\ reports[M!ReportFor(x)].src = x
    BY <1>1, <2>1
  <2>3. M!ReportFor(x) # 0
    BY <2>2, Lengths
  <2> QED BY <2>2, <2>3
<1>2. CASE ~\E s \in DOMAIN reports : reports[s].src = x
  BY <1>2 DEF M!ReportFor
<1> QED BY <1>1, <1>2

-----------------------------------------------------------------------------
(* What each step leaves of a request, and of the others. *)

Only(r) == \A q \in Requests \ {r} :
  /\ pc'[q] = pc[q] /\ no'[q] = no[q] /\ user'[q] = user[q] /\ photo'[q] = photo[q]
  /\ found'[q] = found[q] /\ gone'[q] = gone[q] /\ marked'[q] = marked[q]
  /\ similar'[q] = similar[q] /\ matched'[q] = matched[q] /\ new'[q] = new[q]

Same(r) == no'[r] = no[r] /\ user'[r] = user[r] /\ photo'[r] = photo[r]

SameWork(r) ==
  /\ found'[r] = found[r] /\ gone'[r] = gone[r] /\ marked'[r] = marked[r]
  /\ similar'[r] = similar[r] /\ matched'[r] = matched[r]

Forgotten(r) ==
  /\ found'[r] = found[r] /\ gone'[r] = gone[r] /\ marked'[r] = marked[r]
  /\ similar'[r] = {} /\ matched'[r] = FALSE /\ new'[r] = 0

LEMMA ForgetsOnly ==
  ASSUME M!TypeOK, NEW r \in Requests, UNCHANGED M!request, M!Forgets(r), M!Ends(r)
  PROVE  Only(r) /\ Same(r) /\ Forgotten(r) /\ pc'[r] = "idle"
  BY DEF M!TypeOK, M!request, M!Forgets, M!Ends, Only, Same, Forgotten

LEMMA MatchEffect ==
  ASSUME M!TypeOK, NEW r \in Requests, M!Match(r)
  PROVE  /\ pc[r] = "idle" /\ asked' = asked + 1 /\ asked < MaxRequests
         /\ no'[r] = asked + 1 /\ user'[r] \in Users /\ photo'[r] \in Photos
         /\ \/ pc'[r] = "compare" /\ found'[r] = M!Around
            \/ pc'[r] = "idle" /\ found'[r] = found[r]
         /\ gone'[r] = gone[r] /\ marked'[r] = marked[r]
         /\ similar'[r] = similar[r] /\ matched'[r] = matched[r] /\ new'[r] = new[r]
         /\ Only(r)
         /\ UNCHANGED <<M!tables, replayed, slipped, done>>
  BY DEF M!Match, M!TypeOK, Only, M!Goes, M!Works

LEMMA CompareEffect ==
  ASSUME M!TypeOK, NEW r \in Requests, M!Compare(r)
  PROVE  /\ pc[r] = "compare" /\ pc'[r] = "compare" /\ Same(r) /\ Only(r)
         /\ UNCHANGED <<M!tables, M!history>>
         /\ marked'[r] = marked[r] /\ new'[r] = new[r]
         /\ \E s \in found[r] :
              /\ found'[r] = found[r] \ {s}
              /\ \/ gone'[r] = gone[r] /\ similar'[r] = similar[r] /\ matched'[r] = matched[r]
                 \/ /\ similar'[r] = similar[r] \cup {s}
                    /\ gone'[r] = gone[r] /\ matched'[r] = matched[r]
                 \/ /\ gone'[r] = gone[r] \cup {s} /\ matched'[r] = TRUE
                    /\ similar'[r] = similar[r]
  BY DEF M!Compare, M!TypeOK, Only, Same, M!request

LEMMA MarkEffect ==
  ASSUME M!TypeOK, NEW r \in Requests, M!Mark(r)
  PROVE  /\ pc[r] = "compare" /\ pc'[r] = "compare" /\ Same(r) /\ Only(r)
         /\ UNCHANGED <<reports, analysed, receipt, raw, responses, clusters, replayed, done, asked>>
         /\ found'[r] = found[r] /\ similar'[r] = similar[r] /\ matched'[r] = matched[r]
         /\ new'[r] = new[r]
         /\ \E s \in gone[r] :
              /\ gone'[r] = gone[r] \ {s}
              /\ \/ /\ marked'[r] = marked[r] \cup {s} /\ resolved' = resolved \cup {s}
                    /\ slipped' = slipped
                 \/ /\ marked'[r] = marked[r] /\ resolved' = resolved
                    /\ slipped' = slipped \cup {no[r]}
<1>1. PICK s \in gone[r] :
        /\ gone' = [gone EXCEPT ![r] = @ \ {s}]
        /\ \/ /\ M!Works
              /\ resolved' = resolved \cup {s}
              /\ marked' = [marked EXCEPT ![r] = @ \cup {s}]
           \/ M!Fails(r, "mark") /\ UNCHANGED <<resolved, marked>>
  BY DEF M!Mark
<1>2. /\ pc[r] = "compare"
      /\ UNCHANGED <<reports, analysed, receipt, raw, responses, clusters, pc, M!request,
                     found, similar, matched, new, replayed, done, asked>>
  BY DEF M!Mark
<1>3. gone'[r] = gone[r] \ {s} /\ \A q \in Requests \ {r} : gone'[q] = gone[q]
  BY <1>1 DEF M!TypeOK
<1>4. \A q \in Requests \ {r} : marked'[q] = marked[q]
  BY <1>1 DEF M!TypeOK
<1>5. \/ /\ marked'[r] = marked[r] \cup {s} /\ resolved' = resolved \cup {s}
         /\ slipped' = slipped
      \/ /\ marked'[r] = marked[r] /\ resolved' = resolved
         /\ slipped' = slipped \cup {no[r]}
  BY <1>1 DEF M!TypeOK, M!Works, M!Fails
<1> QED BY <1>2, <1>3, <1>4, <1>5 DEF Only, Same, M!request

LEMMA RespondEffect ==
  ASSUME M!TypeOK, NEW r \in Requests, M!Respond(r)
  PROVE  /\ pc[r] = "compare" /\ pc'[r] = "compare" /\ Same(r) /\ Only(r)
         /\ UNCHANGED <<reports, analysed, resolved, receipt, raw, clusters, replayed, done, asked>>
         /\ found'[r] = found[r] /\ gone'[r] = gone[r] /\ similar'[r] = similar[r]
         /\ matched'[r] = matched[r] /\ new'[r] = new[r]
         /\ \E s \in marked[r] :
              /\ marked'[r] = marked[r] \ {s}
              /\ \/ /\ responses' = responses \cup
                         {[req |-> no[r], by |-> user[r], report |-> s]}
                    /\ slipped' = slipped
                 \/ responses' = responses /\ slipped' = slipped \cup {no[r]}
<1>1. PICK s \in marked[r] :
        /\ marked' = [marked EXCEPT ![r] = @ \ {s}]
        /\ \/ /\ M!Works
              /\ responses' = responses \cup {[req |-> no[r], by |-> user[r], report |-> s]}
           \/ M!Fails(r, "respond") /\ UNCHANGED responses
  BY DEF M!Respond
<1>2. /\ pc[r] = "compare"
      /\ UNCHANGED <<reports, analysed, resolved, receipt, raw, clusters, pc, M!request,
                     found, gone, similar, matched, new, replayed, done, asked>>
  BY DEF M!Respond
<1>3. marked'[r] = marked[r] \ {s} /\ \A q \in Requests \ {r} : marked'[q] = marked[q]
  BY <1>1 DEF M!TypeOK
<1>4. \/ /\ responses' = responses \cup {[req |-> no[r], by |-> user[r], report |-> s]}
         /\ slipped' = slipped
      \/ responses' = responses /\ slipped' = slipped \cup {no[r]}
  BY <1>1 DEF M!Works, M!Fails
<1> QED BY <1>2, <1>3, <1>4 DEF Only, Same, M!request

\* A request that has answered, as it stood before.
Answered(r) == done' = done \cup {[req |-> no[r], by |-> user[r], photo |-> photo[r]]}

LEMMA ComparedEffect ==
  ASSUME M!TypeOK, NEW r \in Requests, M!Compared(r)
  PROVE  /\ pc[r] = "compare" /\ Same(r) /\ Only(r)
         /\ UNCHANGED <<M!tables, replayed, slipped, asked, faults>>
         /\ found[r] \cup gone[r] \cup marked[r] = {}
         /\ \/ /\ ~matched[r] /\ pc'[r] = "submit" /\ done' = done
               /\ SameWork(r) /\ new'[r] = new[r]
            \/ /\ matched[r] /\ pc'[r] = "idle" /\ Answered(r) /\ Forgotten(r)
<1>1. /\ pc[r] = "compare" /\ UNCHANGED <<M!tables, M!request, replayed, slipped, asked, faults>>
      /\ found[r] \cup gone[r] \cup marked[r] = {}
  BY DEF M!Compared
<1>2. CASE ~matched[r]
  <2>1. pc' = [pc EXCEPT ![r] = "submit"] /\ done' = done /\ UNCHANGED <<M!work, new>>
    BY <1>2 DEF M!Compared, M!NothingResolved, M!Goes, M!Keeps
  <2>2. pc'[r] = "submit" /\ Only(r) /\ Same(r) /\ SameWork(r) /\ new'[r] = new[r]
    BY <1>1, <2>1 DEF M!TypeOK, Only, Same, SameWork, M!request, M!work
  <2> QED BY <1>1, <1>2, <2>1, <2>2
<1>3. CASE matched[r]
  <2>1. M!Ends(r) /\ M!Forgets(r)
    BY <1>3 DEF M!Compared, M!NothingResolved
  <2>2. Only(r) /\ Same(r) /\ Forgotten(r) /\ pc'[r] = "idle"
    BY <1>1, <2>1, ForgetsOnly
  <2> QED BY <1>1, <1>3, <2>1, <2>2 DEF Answered, M!Ends
<1> QED BY <1>2, <1>3

LEMMA GoesOnly ==
  ASSUME M!TypeOK, NEW r \in Requests, NEW point, M!Goes(r, point), UNCHANGED <<M!request,
         M!work, new>>
  PROVE  Only(r) /\ Same(r) /\ SameWork(r) /\ new'[r] = new[r] /\ pc'[r] = point /\ done' = done
  BY DEF M!TypeOK, M!Goes, M!request, M!work, Only, Same, SameWork

LEMMA TakeLatestEffect ==
  ASSUME M!TypeOK, NEW r \in Requests, M!TakeLatest(r)
  PROVE  /\ pc[r] = "latest" /\ Same(r) /\ Only(r)
         /\ UNCHANGED <<M!tables, replayed, asked>>
         /\ \/ /\ pc'[r] = "cluster" /\ SameWork(r) /\ new'[r] = Len(reports)
               /\ slipped' = slipped /\ done' = done
            \/ /\ pc'[r] = "idle" /\ slipped' = slipped \cup {no[r]}
               /\ Answered(r) /\ Forgotten(r)
<1>1. pc[r] = "latest" /\ UNCHANGED <<M!tables, M!request, replayed, asked>>
  BY DEF M!TakeLatest
<1>2. CASE M!Works /\ new' = [new EXCEPT ![r] = M!Latest] /\ M!Goes(r, "cluster") /\ UNCHANGED M!work
  <2>1. pc'[r] = "cluster" /\ new'[r] = Len(reports) /\ Only(r) /\ Same(r) /\ SameWork(r)
    BY <1>1, <1>2 DEF M!TypeOK, M!Goes, M!Latest, M!request, M!work, Only, Same, SameWork
  <2> QED BY <1>1, <1>2, <2>1 DEF M!Works, M!Goes
<1>3. CASE M!Fails(r, "latest") /\ M!Ends(r) /\ M!Forgets(r)
  <2>1. Only(r) /\ Same(r) /\ Forgotten(r) /\ pc'[r] = "idle"
    BY <1>1, <1>3, ForgetsOnly
  <2> QED BY <1>1, <1>3, <2>1 DEF Answered, M!Ends, M!Fails
<1> QED BY <1>2, <1>3 DEF M!TakeLatest

LEMMA PublishEffect ==
  ASSUME M!TypeOK, NEW r \in Requests, M!Publish(r)
  PROVE  /\ pc[r] = "publish" /\ pc'[r] = "cluster" /\ Same(r) /\ Only(r)
         /\ SameWork(r) /\ new'[r] = new[r]
         /\ UNCHANGED <<reports, analysed, resolved, receipt, responses, clusters, replayed, asked, done>>
         /\ raw' \in [M!Seqs -> Nat]
         /\ \A s \in M!Seqs : raw[s] > 0 => raw'[s] > 0
         /\ slipped' = slipped \/ slipped' = slipped \cup {no[r]}
<1>1. /\ pc[r] = "publish" /\ M!Goes(r, "cluster")
      /\ UNCHANGED <<reports, analysed, resolved, receipt, responses, clusters, M!request,
                     M!work, new, replayed, asked>>
  BY DEF M!Publish
<1>2. Only(r) /\ Same(r) /\ SameWork(r) /\ new'[r] = new[r] /\ pc'[r] = "cluster" /\ done' = done
  BY <1>1, GoesOnly
<1>3. raw' \in [M!Seqs -> Nat] /\ \A s \in M!Seqs : raw[s] > 0 => raw'[s] > 0
  <2>1. raw \in [M!Seqs -> Nat]
    BY DEF M!TypeOK
  <2>2. raw' = raw \/ raw' = [raw EXCEPT ![new[r]] = @ + 1]
    BY DEF M!Publish
  <2> QED BY <2>1, <2>2
<1>4. slipped' = slipped \/ slipped' = slipped \cup {no[r]}
  BY DEF M!Publish, M!Works, M!Fails
<1> QED BY <1>1, <1>2, <1>3, <1>4

LEMMA ClusterEffect ==
  ASSUME M!TypeOK, NEW r \in Requests, M!Cluster(r)
  PROVE  /\ pc[r] = "cluster" /\ pc'[r] = "idle" /\ Same(r) /\ Only(r)
         /\ Forgotten(r) /\ Answered(r)
         /\ UNCHANGED <<reports, analysed, resolved, receipt, raw, responses, replayed, asked>>
         /\ slipped' = slipped \/ slipped' = slipped \cup {no[r]}
         /\ \/ clusters' = clusters
            \/ /\ new[r] # 0
               /\ \E s \in similar[r] :
                    clusters' = clusters \cup {[primary |-> s, related |-> new[r], req |-> no[r]]}
<1>1. /\ pc[r] = "cluster" /\ M!Ends(r) /\ M!Forgets(r)
      /\ UNCHANGED <<reports, analysed, resolved, receipt, raw, responses, M!request, replayed, asked>>
  BY DEF M!Cluster
<1>2. Only(r) /\ Same(r) /\ Forgotten(r) /\ pc'[r] = "idle"
  BY <1>1, ForgetsOnly
<1>3. slipped' = slipped \/ slipped' = slipped \cup {no[r]}
  BY DEF M!Cluster, M!Works, M!Fails
<1>4. \/ clusters' = clusters
      \/ /\ new[r] # 0
         /\ \E s \in similar[r] :
              clusters' = clusters \cup {[primary |-> s, related |-> new[r], req |-> no[r]]}
  BY DEF M!Cluster
<1> QED BY <1>1, <1>2, <1>3, <1>4 DEF Answered, M!Ends

\* The request slips, and is answered.
FailsAnswered(r) ==
  pc'[r] = "idle" /\ slipped' = slipped \cup {no[r]} /\ Answered(r) /\ Forgotten(r)

LEMMA FailsEnds ==
  ASSUME M!TypeOK, NEW r \in Requests, NEW kind, UNCHANGED M!request,
         M!Fails(r, kind), M!Ends(r), M!Forgets(r)
  PROVE  Only(r) /\ Same(r) /\ FailsAnswered(r)
<1>1. Only(r) /\ Same(r) /\ Forgotten(r) /\ pc'[r] = "idle"
  BY ForgetsOnly
<1> QED BY <1>1 DEF FailsAnswered, Answered, M!Ends, M!Fails

Submits(r) ==
  \/ /\ M!Accepts(r) /\ slipped' = slipped /\ done' = done
     /\ pc'[r] \in {"publish", "cluster"} /\ SameWork(r)
     /\ new'[r] = IF M!ReportFor(M!Source(r)) = 0 THEN Len(reports) + 1 ELSE M!ReportFor(M!Source(r))
  \/ /\ M!Accepts(r) /\ slipped' = slipped \cup {no[r]} /\ done' = done
     /\ pc'[r] = "latest" /\ SameWork(r) /\ new'[r] = new[r]
  \/ M!Accepts(r) /\ FailsAnswered(r)
  \/ /\ M!Conflicts(r) /\ slipped' = slipped /\ pc'[r] = "idle" /\ Answered(r) /\ Forgotten(r)
  \/ M!Strands(r) /\ FailsAnswered(r)
  \/ UNCHANGED <<reports, receipt, raw, replayed>> /\ FailsAnswered(r)

LEMMA SubmissionEffect ==
  ASSUME M!TypeOK, NEW r \in Requests, M!Submit(r)
  PROVE  /\ pc[r] = "submit" /\ Same(r) /\ Only(r) /\ Submits(r)
         /\ UNCHANGED <<analysed, resolved, responses, clusters, asked>>
<1>1. pc[r] = "submit" /\ UNCHANGED <<analysed, resolved, responses, clusters, M!request, asked>>
  BY DEF M!Submit
<1>2. CASE /\ M!Accepts(r) /\ M!Works /\ UNCHANGED M!work
           /\ M!Goes(r, IF Protocol = "wire" THEN "cluster" ELSE "publish")
           /\ new' = [new EXCEPT ![r] = IF M!ReportFor(M!Source(r)) = 0 THEN Len(reports) + 1
                                        ELSE M!ReportFor(M!Source(r))]
  <2>1. PICK n : n = IF M!ReportFor(M!Source(r)) = 0 THEN Len(reports) + 1 ELSE M!ReportFor(M!Source(r))
    OBVIOUS
  <2>2. new' = [new EXCEPT ![r] = n]
    BY <1>2, <2>1, Zenon
  <2>3. PICK point \in {"publish", "cluster"} : M!Goes(r, point)
    BY <1>2
  <2>4. new'[r] = n /\ pc'[r] = point /\ Only(r) /\ Same(r) /\ SameWork(r) /\ done' = done
    BY <1>1, <1>2, <2>2, <2>3 DEF M!TypeOK, M!Goes, M!request, M!work, Only, Same, SameWork
  <2>5. slipped' = slipped
    BY <1>2 DEF M!Works
  <2> QED BY <1>1, <1>2, <2>1, <2>3, <2>4, <2>5, Zenon DEF Submits
<1>3. CASE M!Accepts(r) /\ M!Fails(r, "answer") /\ M!Ends(r) /\ M!Forgets(r)
  BY <1>1, <1>3, FailsEnds, Zenon DEF Submits
<1>4. CASE M!Accepts(r) /\ M!Fails(r, "body") /\ M!Goes(r, "latest") /\ M!Keeps
  <2>1. UNCHANGED <<M!work, new>>
    BY <1>4 DEF M!Keeps
  <2>2. Only(r) /\ Same(r) /\ SameWork(r) /\ new'[r] = new[r] /\ pc'[r] = "latest" /\ done' = done
    BY <1>1, <1>4, <2>1, GoesOnly
  <2>3. slipped' = slipped \cup {no[r]}
    BY <1>4 DEF M!Fails
  <2> QED BY <1>1, <1>4, <2>2, <2>3, Zenon DEF Submits
<1>5. CASE M!Conflicts(r) /\ M!Works /\ M!Ends(r) /\ M!Forgets(r)
  <2>1. Only(r) /\ Same(r) /\ Forgotten(r) /\ pc'[r] = "idle"
    BY <1>1, <1>5, ForgetsOnly
  <2>2. Answered(r) /\ slipped' = slipped
    BY <1>5 DEF Answered, M!Ends, M!Works
  <2> QED BY <1>1, <1>5, <2>1, <2>2, Zenon DEF Submits
<1>6. CASE M!Strands(r) /\ M!Fails(r, "strand") /\ M!Ends(r) /\ M!Forgets(r)
  BY <1>1, <1>6, FailsEnds, Zenon DEF Submits
<1>7. CASE /\ M!Fails(r, "submit") /\ M!Ends(r) /\ M!Forgets(r)
           /\ UNCHANGED <<reports, receipt, raw, replayed>>
  BY <1>1, <1>7, FailsEnds, Zenon DEF Submits
<1> QED BY <1>2, <1>3, <1>4, <1>5, <1>6, <1>7, Zenon DEF M!Submit

-----------------------------------------------------------------------------
(* What requests are about. *)

LEMMA MatchesInit == ASSUME M!ConstantsAssumption, M!Init PROVE Matches
<1>1. M!TypeOK
  <2>1. PICK u \in Users, p \in Photos :
          user = [r \in Requests |-> u] /\ photo = [r \in Requests |-> p]
    BY DEF M!Init
  <2>2. user \in [Requests -> Users] /\ photo \in [Requests -> Photos]
    BY <2>1
  <2>3. \A f \in {found, gone, marked, similar} : f \in [Requests -> SUBSET M!Seqs]
    BY DEF M!Init
  <2>4. /\ reports \in Seq(Report) /\ analysed \subseteq DOMAIN reports
        /\ resolved \subseteq DOMAIN reports
    BY DEF M!Init
  <2> QED BY <2>2, <2>3, <2>4 DEF M!Init, M!TypeOK, M!ConstantsAssumption, Report
<1>2. DOMAIN reports = {} /\ Len(reports) = 0
  BY DEF M!Init
<1>3. Numbered
  BY <1>2 DEF M!Init, Numbered
<1>4. Within
  <2>1. ASSUME NEW r \in Requests
        PROVE  found[r] = {} /\ gone[r] = {} /\ marked[r] = {} /\ similar[r] = {} /\ new[r] = 0
    BY DEF M!Init
  <2>2. 0 \in 0 .. Len(reports)
    BY <1>2
  <2>3. ASSUME NEW r \in Requests
        PROVE  found[r] \cup gone[r] \cup marked[r] \cup similar[r] \subseteq DOMAIN reports
    BY <2>1
  <2> QED BY <2>1, <2>2, <2>3, Zenon DEF Within
<1> QED BY <1>1, <1>3, <1>4 DEF Matches

\* A step of a request that is at work leaves the numbers right.
LEMMA NumberedKept ==
  ASSUME M!TypeOK, Numbered, NEW r \in Requests, Only(r), Same(r), asked' = asked, pc[r] # "idle",
         pc'[r] \in Unsubmitted => pc[r] \in Unsubmitted /\ reports' = reports,
         reports' = reports \/ (pc[r] = "submit" /\ M!Creates(r))
  PROVE  Numbered'
<1>0. DOMAIN reports = 1 .. Len(reports) /\ Len(reports) \in Nat
  BY Lengths
<1>1. /\ \A q \in Requests : no'[q] = no[q]
      /\ \A q \in Requests : pc'[q] # "idle" => pc[q] # "idle"
      /\ \A q \in Requests : pc'[q] \in Unsubmitted => pc[q] \in Unsubmitted
  BY DEF Only, Same
<1>2. CASE reports' = reports
  BY <1>1, <1>2 DEF Numbered
<1>3. CASE pc[r] = "submit" /\ M!Creates(r) /\ pc'[r] \notin Unsubmitted
  <2>1. no[r] \in 1 .. asked /\ asked \in 0 .. MaxRequests /\ no[r] \in 0 .. MaxRequests
    BY <1>3 DEF Numbered, M!TypeOK
  <2>2. no[r] \in M!Numbers
    BY <2>1 DEF M!Numbers
  <2>3. /\ DOMAIN reports' = 1 .. Len(reports) + 1
        /\ \A s \in DOMAIN reports : s \in DOMAIN reports' /\ reports'[s] = reports[s]
        /\ reports'[Len(reports) + 1].req = no[r]
    <3>1. PICK x : x = reports'[Len(reports) + 1]
      OBVIOUS
    <3>2. /\ DOMAIN reports' = 1 .. Len(reports) + 1
          /\ \A s \in DOMAIN reports : s \in DOMAIN reports' /\ reports'[s] = reports[s]
          /\ x = [src |-> M!Source(r), by |-> user[r], photo |-> photo[r], req |-> no[r]]
      BY <1>3, <2>2, <3>1, Created, Zenon
    <3>3. x.req = no[r]
      BY ONLY <3>2
    <3> QED BY <3>1, <3>2, <3>3, Zenon
  <2>4. \A s \in DOMAIN reports' : s = Len(reports) + 1 \/ s \in DOMAIN reports
    BY <1>0, <2>3
  <2>5. \A s \in DOMAIN reports : reports[s].req # no[r]
    BY <1>3 DEF Numbered, Unsubmitted
  <2>6. \A s \in DOMAIN reports' : reports'[s].req \in 1 .. asked'
    BY <2>1, <2>3, <2>4 DEF Numbered
  <2>7. \A s, t \in DOMAIN reports' : reports'[s].req = reports'[t].req => s = t
    BY <2>3, <2>4, <2>5 DEF Numbered
  <2>8. ASSUME NEW q \in Requests, pc'[q] \in Unsubmitted, NEW s \in DOMAIN reports'
        PROVE  reports'[s].req # no'[q]
    <3>1. q # r /\ pc[q] \in Unsubmitted /\ pc[q] # "idle" /\ no'[q] = no[q]
      BY <1>1, <1>3, <2>8 DEF Unsubmitted
    <3>2. no[q] # no[r]
      BY <1>3, <3>1 DEF Numbered
    <3> QED BY <2>3, <2>4, <3>1, <3>2 DEF Numbered
  <2> QED BY <1>1, <2>6, <2>7, <2>8 DEF Numbered
<1> QED BY <1>2, <1>3

\* Nothing is taken from the reports.
Grows ==
  /\ DOMAIN reports \subseteq DOMAIN reports' /\ Len(reports) <= Len(reports')
  /\ \A s \in DOMAIN reports : reports'[s] = reports[s]

LEMMA Growing ==
  ASSUME M!TypeOK, NEW r \in Requests, no[r] \in M!Numbers, reports' = reports \/ M!Creates(r)
  PROVE  Grows
<1>1. Len(reports) \in Nat
  BY Lengths
<1>2. CASE reports' = reports
  BY <1>1, <1>2 DEF Grows
<1>3. CASE M!Creates(r)
  <2>1. /\ \A s \in DOMAIN reports : s \in DOMAIN reports' /\ reports'[s] = reports[s]
        /\ Len(reports') = Len(reports) + 1
    BY <1>3, Created, Zenon
  <2> QED BY <1>1, <2>1 DEF Grows
<1> QED BY <1>2, <1>3

Work(r) == found[r] \cup gone[r] \cup marked[r] \cup similar[r]

LEMMA WithinKept ==
  ASSUME Within, M!TypeOK, Grows, NEW r \in Requests, Only(r), Len(reports') \in Nat,
         Work(r)' \subseteq DOMAIN reports', new'[r] \in 0 .. Len(reports')
  PROVE  Within'
<1>1. ASSUME NEW q \in Requests \ {r}
      PROVE  Work(q)' \subseteq DOMAIN reports' /\ new'[q] \in 0 .. Len(reports')
  <2>1. Work(q)' = Work(q) /\ new'[q] = new[q]
    BY DEF Only, Work
  <2>2. Work(q) \subseteq DOMAIN reports /\ new[q] \in 0 .. Len(reports)
    BY DEF Within, Work
  <2> QED BY <2>1, <2>2, Lengths DEF Grows
<1> QED BY <1>1 DEF Within, Work

\* What is there has a number.
LEMMA Seated ==
  ASSUME M!ConstantsAssumption, Matches
  PROVE  DOMAIN reports \subseteq M!Seqs /\ Len(reports) \in 0 .. MaxRequests
<1>1. Len(reports) \in Nat /\ DOMAIN reports = 1 .. Len(reports) /\ Len(reports) <= asked
  BY Lengths, Room DEF Matches
<1>2. asked \in 0 .. MaxRequests /\ MaxRequests \in Nat
  BY DEF Matches, M!TypeOK, M!ConstantsAssumption
<1> QED BY <1>1, <1>2 DEF M!Seqs

LEMMA MatchesMatch ==
  ASSUME M!ConstantsAssumption, Matches, NEW r \in Requests, M!Match(r)
  PROVE  Matches'
<1> USE DEF Matches
<1>1. M!TypeOK'
  <2>1. M!Around \subseteq M!Seqs /\ asked + 1 \in 0 .. MaxRequests
    BY Seated DEF M!Match, M!Around, M!Open, M!TypeOK, M!ConstantsAssumption
  <2>2. found' \in [Requests -> SUBSET M!Seqs] /\ pc' \in [Requests -> Control]
    BY <2>1, Types DEF M!Match, M!Goes, Control
  <2>3. no' \in [Requests -> 0 .. MaxRequests] /\ asked' \in 0 .. MaxRequests
    BY <2>1 DEF M!Match, M!TypeOK
  <2>4. user' \in [Requests -> Users] /\ photo' \in [Requests -> Photos]
    BY DEF M!Match, M!TypeOK
  <2>5. UNCHANGED <<M!tables, gone, marked, similar, matched, new, replayed, slipped, done>>
    BY DEF M!Match, M!Works, M!Goes
  <2>6. faults' \in 0 .. MaxFaults
    BY DEF M!Match, M!Works, M!TypeOK, M!ConstantsAssumption
  <2> QED BY <2>2, <2>3, <2>4, <2>5, <2>6 DEF M!TypeOK, M!tables, Control
<1>2. /\ pc[r] = "idle" /\ asked' = asked + 1 /\ no'[r] = asked + 1 /\ Only(r)
      /\ reports' = reports /\ asked \in Nat
  BY MatchEffect DEF M!tables, M!TypeOK, M!ConstantsAssumption
<1>3. Numbered'
  <2>1. \A q \in Requests : pc'[q] # "idle" => no'[q] \in 1 .. asked'
    BY <1>2 DEF Only, Numbered
  <2>2. \A p, q \in Requests : pc'[p] # "idle" /\ pc'[q] # "idle" /\ no'[p] = no'[q] => p = q
    BY <1>2 DEF Only, Numbered
  <2>3. \A s \in DOMAIN reports' : reports'[s].req \in 1 .. asked'
    BY <1>2 DEF Numbered
  <2>4. \A q \in Requests : pc'[q] \in Unsubmitted =>
          \A s \in DOMAIN reports' : reports'[s].req # no'[q]
    BY <1>2 DEF Only, Numbered
  <2> QED BY <1>2, <2>1, <2>2, <2>3, <2>4 DEF Numbered
<1>4. Within'
  <2>1. M!Around \subseteq DOMAIN reports
    BY DEF M!Around, M!Open, M!TypeOK
  <2>2. Work(r)' \subseteq DOMAIN reports' /\ new'[r] \in 0 .. Len(reports')
    BY <1>2, <2>1, MatchEffect DEF Within, Work
  <2>3. Grows /\ Len(reports') \in Nat
    BY <1>2, Lengths DEF Grows
  <2> QED BY <1>2, <2>2, <2>3, WithinKept
<1> QED BY <1>1, <1>3, <1>4

LEMMA FaultTyped ==
  ASSUME M!ConstantsAssumption, M!TypeOK, Numbered, NEW r \in Requests, pc[r] # "idle",
         M!Works \/ \E kind \in M!FailureKinds : M!Fails(r, kind)
  PROVE  faults' \in 0 .. MaxFaults /\ slipped' \subseteq M!Numbers
<1>1. no[r] \in M!Numbers
  BY DEF M!TypeOK, Numbered, M!Numbers, M!ConstantsAssumption
<1> QED BY <1>1 DEF M!Works, M!Fails, M!TypeOK, M!ConstantsAssumption

LEMMA NumberOf ==
  ASSUME M!ConstantsAssumption, M!TypeOK, Numbered, NEW r \in Requests, pc[r] # "idle"
  PROVE  no[r] \in M!Numbers
BY DEF M!TypeOK, Numbered, M!Numbers, M!ConstantsAssumption

LEMMA MatchesWork ==
  ASSUME M!ConstantsAssumption, Matches, NEW r \in Requests,
         M!Compare(r) \/ M!Mark(r) \/ M!Respond(r)
  PROVE  Matches'
<1> USE DEF Matches
<1>1. /\ pc[r] = "compare" /\ pc'[r] = "compare" /\ Same(r) /\ Only(r)
      /\ reports' = reports /\ asked' = asked /\ new'[r] = new[r]
      /\ Work(r)' \subseteq Work(r)
  <2>1. CASE M!Compare(r)
    <3>1. PICK s \in found[r] :
            /\ found'[r] = found[r] \ {s} /\ marked'[r] = marked[r]
            /\ \/ gone'[r] = gone[r] /\ similar'[r] = similar[r]
               \/ similar'[r] = similar[r] \cup {s} /\ gone'[r] = gone[r]
               \/ gone'[r] = gone[r] \cup {s} /\ similar'[r] = similar[r]
      BY <2>1, CompareEffect
    <3>2. Work(r)' \subseteq Work(r)
      BY <3>1 DEF Work
    <3> QED BY <2>1, <3>2, CompareEffect DEF M!tables, M!history
  <2>2. CASE M!Mark(r)
    BY <2>2, MarkEffect DEF Work
  <2>3. CASE M!Respond(r)
    BY <2>3, RespondEffect DEF Work
  <2> QED BY <2>1, <2>2, <2>3
<1>2. Numbered'
  BY <1>1, NumberedKept DEF Unsubmitted
<1>3. Within'
  <2>1. Work(r)' \subseteq DOMAIN reports' /\ new'[r] \in 0 .. Len(reports')
    BY <1>1 DEF Within, Work
  <2>2. Grows /\ Len(reports') \in Nat
    BY <1>1, Lengths DEF Grows
  <2> QED BY <1>1, <2>1, <2>2, WithinKept
<1>4. no[r] \in M!Numbers
  BY <1>1, NumberOf
<1>5. M!TypeOK'
  <2>1. CASE M!Compare(r)
    <3>1. found' \in [Requests -> SUBSET M!Seqs]
      BY <2>1, Types DEF M!Compare
    <3>2. gone' \in [Requests -> SUBSET M!Seqs] /\ similar' \in [Requests -> SUBSET M!Seqs]
      BY <2>1, Types DEF M!Compare
    <3>3. matched' \in [Requests -> BOOLEAN]
      BY <2>1 DEF M!Compare, M!TypeOK
    <3> QED BY <2>1, <3>1, <3>2, <3>3 DEF M!Compare, M!TypeOK, M!tables, M!request, M!history
  <2>2. CASE M!Mark(r)
    <3>1. PICK s \in gone[r] :
            /\ gone' = [gone EXCEPT ![r] = @ \ {s}]
            /\ \/ /\ M!Works
                  /\ resolved' = resolved \cup {s}
                  /\ marked' = [marked EXCEPT ![r] = @ \cup {s}]
               \/ M!Fails(r, "mark") /\ UNCHANGED <<resolved, marked>>
      BY <2>2 DEF M!Mark
    <3>2. s \in M!Seqs /\ s \in DOMAIN reports
      BY Types DEF Within
    <3>3. gone' \in [Requests -> SUBSET M!Seqs]
      BY <3>1, Types
    <3>4. marked' \in [Requests -> SUBSET M!Seqs] /\ resolved' \subseteq DOMAIN reports
      <4>1. marked \in [Requests -> SUBSET M!Seqs] /\ resolved \subseteq DOMAIN reports
        BY Types DEF M!TypeOK
      <4>2. marked' = marked \/ marked' = [marked EXCEPT ![r] = @ \cup {s}]
        BY <3>1
      <4>3. resolved' = resolved \/ resolved' = resolved \cup {s}
        BY <3>1
      <4> QED BY <3>2, <4>1, <4>2, <4>3
    <3>5. faults' \in 0 .. MaxFaults /\ slipped' \subseteq M!Numbers
      BY <1>1, <3>1, FaultTyped DEF M!FailureKinds
    <3> QED BY <2>2, <3>3, <3>4, <3>5 DEF M!Mark, M!TypeOK, M!request
  <2>3. CASE M!Respond(r)
    <3>1. PICK s \in marked[r] :
            /\ marked' = [marked EXCEPT ![r] = @ \ {s}]
            /\ \/ /\ M!Works
                  /\ responses' = responses \cup {[req |-> no[r], by |-> user[r], report |-> s]}
               \/ M!Fails(r, "respond") /\ UNCHANGED responses
      BY <2>3 DEF M!Respond
    <3>2. s \in M!Seqs /\ user[r] \in Users
      BY Types DEF M!TypeOK
    <3>3. marked' \in [Requests -> SUBSET M!Seqs]
      BY <3>1, Types
    <3>4. responses' \subseteq [req : M!Numbers, by : Users, report : M!Seqs]
      BY <1>4, <3>1, <3>2 DEF M!TypeOK
    <3>5. faults' \in 0 .. MaxFaults /\ slipped' \subseteq M!Numbers
      BY <1>1, <3>1, FaultTyped DEF M!FailureKinds
    <3> QED BY <2>3, <3>3, <3>4, <3>5 DEF M!Respond, M!TypeOK, M!request
  <2> QED BY <2>1, <2>2, <2>3
<1> QED BY <1>2, <1>3, <1>5

\* Where a step of a request may leave its control and work.
LEMMA ControlTyped ==
  ASSUME M!TypeOK, NEW r \in Requests, no[r] \in M!Numbers,
         M!Ends(r) \/ \E point \in Control : M!Goes(r, point)
  PROVE  pc' \in [Requests -> Control] /\ done' \subseteq [req : M!Numbers, by : Users, photo : Photos]
<1>1. /\ pc \in [Requests -> Control] /\ user[r] \in Users /\ photo[r] \in Photos
      /\ done \subseteq [req : M!Numbers, by : Users, photo : Photos]
  BY Types DEF M!TypeOK
<1>2. CASE M!Ends(r)
  BY <1>1, <1>2 DEF M!Ends, Control
<1>3. CASE \E point \in Control : M!Goes(r, point)
  BY <1>1, <1>3 DEF M!Goes
<1> QED BY <1>2, <1>3

LEMMA WorkTyped ==
  ASSUME M!ConstantsAssumption, M!TypeOK, NEW r \in Requests, M!Forgets(r) \/ M!Keeps
  PROVE  /\ \A f \in {found', gone', marked', similar'} : f \in [Requests -> SUBSET M!Seqs]
         /\ matched' \in [Requests -> BOOLEAN]
         /\ new' \in [Requests -> 0 .. MaxRequests]
<1>0. /\ found \in [Requests -> SUBSET M!Seqs] /\ gone \in [Requests -> SUBSET M!Seqs]
      /\ marked \in [Requests -> SUBSET M!Seqs] /\ similar \in [Requests -> SUBSET M!Seqs]
      /\ matched \in [Requests -> BOOLEAN]
      /\ new \in [Requests -> 0 .. MaxRequests] /\ 0 \in 0 .. MaxRequests
  BY Types DEF M!TypeOK, M!ConstantsAssumption
<1>1. CASE M!Forgets(r)
  BY <1>0, <1>1 DEF M!Forgets
<1>2. CASE M!Keeps
  BY <1>0, <1>2 DEF M!Keeps, M!work
<1> QED BY <1>1, <1>2

LEMMA ForgottenWithin ==
  ASSUME Within, M!TypeOK, NEW r \in Requests, Grows, Len(reports') \in Nat, Forgotten(r)
  PROVE  Work(r)' \subseteq DOMAIN reports' /\ new'[r] \in 0 .. Len(reports')
BY DEF Within, Work, Grows, Forgotten

LEMMA MatchesCompared ==
  ASSUME M!ConstantsAssumption, Matches, NEW r \in Requests, M!Compared(r)
  PROVE  Matches'
<1> USE DEF Matches
<1>1. /\ pc[r] = "compare" /\ Same(r) /\ Only(r) /\ reports' = reports /\ asked' = asked
      /\ pc'[r] \in {"submit", "idle"}
  BY ComparedEffect DEF M!tables
<1>2. Numbered'
  BY <1>1, NumberedKept DEF Unsubmitted
<1>3. Grows /\ Len(reports') \in Nat
  BY <1>1, Lengths DEF Grows
<1>4. Within'
  <2>1. CASE SameWork(r) /\ new'[r] = new[r]
    <3>1. Work(r)' \subseteq DOMAIN reports' /\ new'[r] \in 0 .. Len(reports')
      BY <1>1, <2>1 DEF Within, Work, SameWork
    <3> QED BY <1>1, <1>3, <3>1, WithinKept
  <2>2. CASE Forgotten(r)
    BY <1>1, <1>3, <2>2, ForgottenWithin, WithinKept
  <2> QED BY <2>1, <2>2, ComparedEffect
<1>5. M!TypeOK'
  <2>1. no[r] \in M!Numbers
    BY <1>1, NumberOf
  <2>2. (M!Goes(r, "submit") /\ M!Keeps) \/ (M!Ends(r) /\ M!Forgets(r))
    BY DEF M!Compared
  <2>3. pc' \in [Requests -> Control] /\ done' \subseteq [req : M!Numbers, by : Users, photo : Photos]
    BY <2>1, <2>2, ControlTyped DEF Control
  <2>4. /\ \A f \in {found', gone', marked', similar'} : f \in [Requests -> SUBSET M!Seqs]
        /\ matched' \in [Requests -> BOOLEAN]
        /\ new' \in [Requests -> 0 .. MaxRequests]
    BY <2>2, WorkTyped
  <2>5. UNCHANGED <<M!tables, M!request, replayed, slipped, asked, faults>>
    BY DEF M!Compared
  <2> QED BY <2>3, <2>4, <2>5 DEF M!TypeOK, M!tables, M!request, Control
<1> QED BY <1>2, <1>4, <1>5

LEMMA MatchesTakeLatest ==
  ASSUME M!ConstantsAssumption, Matches, NEW r \in Requests, M!TakeLatest(r)
  PROVE  Matches'
<1> USE DEF Matches
<1>1. /\ pc[r] = "latest" /\ Same(r) /\ Only(r) /\ reports' = reports /\ asked' = asked
      /\ pc'[r] \in {"cluster", "idle"}
  BY TakeLatestEffect DEF M!tables
<1>2. Numbered'
  BY <1>1, NumberedKept DEF Unsubmitted
<1>3. Grows /\ Len(reports') \in Nat
  BY <1>1, Lengths DEF Grows
<1>4. Within'
  <2>1. CASE SameWork(r) /\ new'[r] = Len(reports)
    <3>1. Work(r)' \subseteq DOMAIN reports' /\ new'[r] \in 0 .. Len(reports')
      BY <1>1, <1>3, <2>1 DEF Within, Work, SameWork
    <3> QED BY <1>1, <1>3, <3>1, WithinKept
  <2>2. CASE Forgotten(r)
    BY <1>1, <1>3, <2>2, ForgottenWithin, WithinKept
  <2> QED BY <2>1, <2>2, TakeLatestEffect
<1>5. M!TypeOK'
  <2>1. no[r] \in M!Numbers
    BY <1>1, NumberOf
  <2>2. \/ M!Works /\ new' = [new EXCEPT ![r] = M!Latest] /\ M!Goes(r, "cluster") /\ UNCHANGED M!work
        \/ M!Fails(r, "latest") /\ M!Ends(r) /\ M!Forgets(r)
    BY Zenon DEF M!TakeLatest
  <2>3. pc' \in [Requests -> Control] /\ done' \subseteq [req : M!Numbers, by : Users, photo : Photos]
    BY <2>1, <2>2, ControlTyped DEF Control
  <2>4. /\ \A f \in {found', gone', marked', similar'} : f \in [Requests -> SUBSET M!Seqs]
        /\ matched' \in [Requests -> BOOLEAN]
        /\ new' \in [Requests -> 0 .. MaxRequests]
    <3>1. CASE new' = [new EXCEPT ![r] = M!Latest] /\ UNCHANGED M!work
      <4>1. M!Latest \in 0 .. MaxRequests
        BY Seated DEF M!Latest
      <4> QED BY <3>1, <4>1, Types DEF M!work, M!TypeOK
    <3>2. CASE M!Forgets(r)
      BY <3>2, WorkTyped
    <3> QED BY <2>2, <3>1, <3>2
  <2>5. UNCHANGED <<M!tables, M!request, replayed, asked>>
    BY DEF M!TakeLatest
  <2>6. faults' \in 0 .. MaxFaults /\ slipped' \subseteq M!Numbers
    BY <1>1, <2>2, FaultTyped DEF M!FailureKinds
  <2> QED BY <2>3, <2>4, <2>5, <2>6 DEF M!TypeOK, M!tables, M!request, Control
<1> QED BY <1>2, <1>4, <1>5

LEMMA MatchesPublish ==
  ASSUME M!ConstantsAssumption, Matches, NEW r \in Requests, M!Publish(r)
  PROVE  Matches'
<1> USE DEF Matches
<1>1. /\ pc[r] = "publish" /\ Same(r) /\ Only(r) /\ reports' = reports /\ asked' = asked
      /\ pc'[r] = "cluster" /\ SameWork(r) /\ new'[r] = new[r] /\ raw' \in [M!Seqs -> Nat]
  BY PublishEffect
<1>2. Numbered'
  BY <1>1, NumberedKept DEF Unsubmitted
<1>3. Grows /\ Len(reports') \in Nat
  BY <1>1, Lengths DEF Grows
<1>4. Within'
  <2>1. Work(r)' \subseteq DOMAIN reports' /\ new'[r] \in 0 .. Len(reports')
    BY <1>1 DEF Within, Work, SameWork
  <2> QED BY <1>1, <1>3, <2>1, WithinKept
<1>5. M!TypeOK'
  <2>1. no[r] \in M!Numbers
    BY <1>1, NumberOf
  <2>2. M!Goes(r, "cluster") /\ (M!Works \/ M!Fails(r, "publish"))
    BY DEF M!Publish
  <2>3. pc' \in [Requests -> Control] /\ done' \subseteq [req : M!Numbers, by : Users, photo : Photos]
    BY <2>1, <2>2, ControlTyped DEF Control
  <2>4. UNCHANGED <<reports, analysed, resolved, receipt, responses, clusters, M!request,
                    M!work, new, replayed, asked>>
    BY DEF M!Publish
  <2>5. faults' \in 0 .. MaxFaults /\ slipped' \subseteq M!Numbers
    BY <1>1, <2>2, FaultTyped DEF M!FailureKinds
  <2> QED BY <1>1, <2>3, <2>4, <2>5 DEF M!TypeOK, M!request, M!work, Control
<1> QED BY <1>2, <1>4, <1>5

LEMMA MatchesCluster ==
  ASSUME M!ConstantsAssumption, Matches, NEW r \in Requests, M!Cluster(r)
  PROVE  Matches'
<1> USE DEF Matches
<1>1. /\ pc[r] = "cluster" /\ Same(r) /\ Only(r) /\ reports' = reports /\ asked' = asked
      /\ pc'[r] = "idle" /\ Forgotten(r)
  BY ClusterEffect
<1>2. Numbered'
  BY <1>1, NumberedKept DEF Unsubmitted
<1>3. Grows /\ Len(reports') \in Nat
  BY <1>1, Lengths DEF Grows
<1>4. Within'
  BY <1>1, <1>3, ForgottenWithin, WithinKept
<1>5. M!TypeOK'
  <2>1. no[r] \in M!Numbers
    BY <1>1, NumberOf
  <2>2. M!Ends(r) /\ M!Forgets(r) /\ (M!Works \/ M!Fails(r, "cluster"))
    BY DEF M!Cluster
  <2>3. pc' \in [Requests -> Control] /\ done' \subseteq [req : M!Numbers, by : Users, photo : Photos]
    BY <2>1, <2>2, ControlTyped
  <2>4. /\ \A f \in {found', gone', marked', similar'} : f \in [Requests -> SUBSET M!Seqs]
        /\ matched' \in [Requests -> BOOLEAN]
        /\ new' \in [Requests -> 0 .. MaxRequests]
    BY <2>2, WorkTyped
  <2>5. UNCHANGED <<reports, analysed, resolved, receipt, raw, responses, M!request, replayed, asked>>
    BY DEF M!Cluster
  <2>6. faults' \in 0 .. MaxFaults /\ slipped' \subseteq M!Numbers
    BY <1>1, <2>2, FaultTyped DEF M!FailureKinds
  <2>7. clusters' \subseteq [primary : M!Seqs, related : M!Seqs, req : M!Numbers]
    <3>1. CASE clusters' = clusters
      BY <3>1 DEF M!TypeOK
    <3>2. ASSUME new[r] # 0, NEW s \in similar[r],
                 clusters' = clusters \cup {[primary |-> s, related |-> new[r], req |-> no[r]]}
          PROVE  clusters' \subseteq [primary : M!Seqs, related : M!Seqs, req : M!Numbers]
      <4>1. s \in M!Seqs
        BY <3>2, Types
      <4>2. new[r] \in M!Seqs
        BY <3>2 DEF M!TypeOK, M!Seqs, M!ConstantsAssumption
      <4> QED BY <2>1, <3>2, <4>1, <4>2 DEF M!TypeOK
    <3> QED BY <3>1, <3>2, ClusterEffect
  <2> QED BY <2>3, <2>4, <2>5, <2>6, <2>7 DEF M!TypeOK, M!request, Control
<1> QED BY <1>2, <1>4, <1>5

LEMMA MatchesSubmit ==
  ASSUME M!ConstantsAssumption, Matches, NEW r \in Requests, M!Submit(r)
  PROVE  Matches'
<1> USE DEF Matches
<1>1. /\ pc[r] = "submit" /\ Same(r) /\ Only(r) /\ Submits(r) /\ asked' = asked
      /\ UNCHANGED <<analysed, resolved, responses, clusters>>
  BY SubmissionEffect
<1>2. no[r] \in M!Numbers
  BY <1>1, NumberOf
<1>3. reports' = reports \/ M!Creates(r)
  BY <1>1 DEF Submits, M!Accepts, M!Conflicts, M!Strands
<1>4. pc'[r] \in {"publish", "cluster", "latest", "idle"}
  BY <1>1 DEF Submits, FailsAnswered
<1>5. Numbered'
  BY <1>1, <1>3, <1>4, NumberedKept DEF Unsubmitted
<1>6. Grows
  BY <1>2, <1>3, Growing
<1>7. Len(reports) \in Nat /\ DOMAIN reports = 1 .. Len(reports) /\ Len(reports) + 1 \in M!Seqs
  <2>1. Len(reports) \in Nat /\ DOMAIN reports = 1 .. Len(reports) /\ Len(reports) < asked
    BY <1>1, Lengths, Room DEF Unsubmitted
  <2> QED BY <2>1 DEF M!TypeOK, M!Seqs, M!ConstantsAssumption
<1>8. /\ reports' \in Seq(Report) /\ Len(reports') \in Nat
      /\ M!Creates(r) => Len(reports') = Len(reports) + 1
  <2>1. CASE reports' = reports /\ ~M!Creates(r)
    BY <1>7, <2>1, Types
  <2>2. CASE M!Creates(r)
    <3>1. reports' \in Seq(Report) /\ Len(reports') = Len(reports) + 1
      BY <1>2, <2>2, Created, Zenon
    <3> QED BY <1>7, <3>1
  <2> QED BY <1>3, <1>7, <2>1, <2>2
<1>9. PICK n : n = IF M!ReportFor(M!Source(r)) = 0 THEN Len(reports) + 1 ELSE M!ReportFor(M!Source(r))
  OBVIOUS
<1>10. M!Accepts(r) => n \in 0 .. Len(reports')
  <2>1. CASE M!Accepts(r) /\ M!ReportFor(M!Source(r)) = 0
    BY <1>7, <1>8, <1>9, <2>1 DEF M!Accepts
  <2>2. CASE M!Accepts(r) /\ M!ReportFor(M!Source(r)) # 0
    <3>1. n \in DOMAIN reports
      BY <1>9, <2>2, Reported
    <3> QED BY <1>6, <1>7, <1>8, <3>1 DEF Grows
  <2> QED BY <2>1, <2>2
<1>11. Within'
  <2>1. CASE Forgotten(r)
    BY <1>1, <1>6, <1>8, <2>1, ForgottenWithin, WithinKept
  <2>2. CASE SameWork(r) /\ (new'[r] = new[r] \/ (new'[r] = n /\ M!Accepts(r)))
    <3>1. Work(r) \subseteq DOMAIN reports /\ new[r] \in 0 .. Len(reports)
      BY DEF Within, Work
    <3>2. Work(r)' \subseteq DOMAIN reports'
      BY <1>6, <2>2, <3>1 DEF Work, SameWork, Grows
    <3>3. new'[r] \in 0 .. Len(reports')
      BY <1>6, <1>7, <1>8, <1>10, <2>2, <3>1 DEF Grows
    <3> QED BY <1>1, <1>6, <1>8, <3>2, <3>3, WithinKept
  <2> QED BY <1>1, <1>9, <2>1, <2>2 DEF Submits, FailsAnswered
<1>12. M!Source(r) \in M!Sources /\ photo[r] \in Photos
  BY DEF M!TypeOK, M!Source, M!Sources
<1>13. /\ receipt' \in [M!Sources -> Photos \cup {None}] /\ raw' \in [M!Seqs -> Nat]
       /\ replayed' \subseteq M!Numbers
  <2>0. receipt \in [M!Sources -> Photos \cup {None}] /\ raw \in [M!Seqs -> Nat]
    BY DEF M!TypeOK
  <2>1. ASSUME receipt' = [receipt EXCEPT ![M!Source(r)] = photo[r]]
        PROVE  receipt' \in [M!Sources -> Photos \cup {None}]
    <3>1. PICK T : T = Photos \cup {None}
      OBVIOUS
    <3>2. photo[r] \in T /\ receipt \in [M!Sources -> T]
      BY <1>12, <2>0, <3>1
    <3>3. receipt' \in [M!Sources -> T]
      BY <2>1, <3>2
    <3> QED BY <3>1, <3>3
  <2>2. receipt' = receipt \/ receipt' = [receipt EXCEPT ![M!Source(r)] = photo[r]]
    BY <1>1 DEF Submits, M!Accepts, M!Conflicts, M!Strands
  <2>3. receipt' \in [M!Sources -> Photos \cup {None}]
    BY <2>0, <2>1, <2>2, Zenon
  <2>4. raw' = raw \/ raw' = [raw EXCEPT ![Len(reports) + 1] = @ + 1]
    BY <1>1 DEF Submits, M!Accepts, M!Conflicts, M!Strands
  <2>5. raw' \in [M!Seqs -> Nat]
    BY ONLY <2>0, <2>4
  <2>6. replayed' = replayed \/ replayed' = replayed \cup {no[r]}
    BY <1>1 DEF Submits, M!Accepts, M!Conflicts, M!Strands
  <2> QED BY <1>2, <2>3, <2>5, <2>6 DEF M!TypeOK
<1>14. M!TypeOK'
  <2>1. /\ M!Ends(r) \/ \E point \in Control : M!Goes(r, point)
        /\ M!Works \/ \E kind \in M!FailureKinds : M!Fails(r, kind)
    BY DEF M!Submit, Control, M!FailureKinds
  <2>2. pc' \in [Requests -> Control] /\ done' \subseteq [req : M!Numbers, by : Users, photo : Photos]
    BY <1>2, <2>1, ControlTyped
  <2>3. faults' \in 0 .. MaxFaults /\ slipped' \subseteq M!Numbers
    BY <1>1, <2>1, FaultTyped
  <2>4. \/ M!Forgets(r) \/ M!Keeps
        \/ M!Accepts(r) /\ new' = [new EXCEPT ![r] = n] /\ UNCHANGED M!work
    BY <1>9 DEF M!Submit
  <2>5. /\ \A f \in {found', gone', marked', similar'} : f \in [Requests -> SUBSET M!Seqs]
        /\ matched' \in [Requests -> BOOLEAN]
        /\ new' \in [Requests -> 0 .. MaxRequests]
    <3>1. CASE M!Forgets(r) \/ M!Keeps
      BY <3>1, WorkTyped
    <3>2. CASE M!Accepts(r) /\ new' = [new EXCEPT ![r] = n] /\ UNCHANGED M!work
      <4>1. n \in 0 .. MaxRequests
        <5>1. Len(reports') \in 0 .. MaxRequests
          BY <1>3, <1>7, <1>8 DEF M!Seqs, M!ConstantsAssumption
        <5> QED BY <1>10, <3>2, <5>1 DEF M!ConstantsAssumption
      <4> QED BY <3>2, <4>1, Types DEF M!work, M!TypeOK
    <3> QED BY <2>4, <3>1, <3>2
  <2>6. UNCHANGED M!request
    BY DEF M!Submit
  <2>7. analysed' \subseteq DOMAIN reports' /\ resolved' \subseteq DOMAIN reports'
    BY <1>1, <1>6 DEF M!TypeOK, Grows
  <2> QED BY <1>1, <1>8, <1>13, <2>2, <2>3, <2>5, <2>6, <2>7 DEF M!TypeOK, M!request, Control, Report
<1> QED BY <1>5, <1>11, <1>14

LEMMA MatchesServer ==
  ASSUME M!ConstantsAssumption, Matches, M!Analyse \/ M!MarkResolved
  PROVE  Matches'
<1> USE DEF Matches
<1>1. UNCHANGED <<reports, receipt, raw, responses, clusters, pc, M!request, M!work, new, M!history>>
  BY DEF M!Analyse, M!MarkResolved
<1>2. Numbered'
  BY <1>1 DEF Numbered, M!request, M!history
<1>3. Within'
  BY <1>1 DEF Within, M!work
<1>4. analysed' \subseteq DOMAIN reports /\ resolved' \subseteq DOMAIN reports
  BY DEF M!Analyse, M!MarkResolved, M!TypeOK
<1>5. M!TypeOK'
  BY <1>1, <1>4 DEF M!TypeOK, M!request, M!work, M!history
<1> QED BY <1>2, <1>3, <1>5

LEMMA MatchesCrash ==
  ASSUME M!ConstantsAssumption, Matches, M!Crash
  PROVE  Matches'
<1> USE DEF Matches
<1>1. UNCHANGED <<M!tables, M!request, replayed, done, asked>>
  BY DEF M!Crash
<1>2. \A r \in Requests : pc'[r] = "idle" /\ Work(r)' = {} /\ new'[r] = 0
  BY DEF M!Crash, Work
<1>3. Numbered'
  BY <1>1, <1>2 DEF Numbered, M!tables, M!request, Unsubmitted
<1>4. Within'
  <2>1. Len(reports') \in Nat
    BY <1>1, Lengths DEF M!tables
  <2> QED BY <1>2, <2>1 DEF Within, Work
<1>5. slipped' \subseteq M!Numbers
  <2>1. \A r \in Requests : pc[r] # "idle" => no[r] \in M!Numbers
    BY NumberOf
  <2> QED BY <2>1 DEF M!Crash, M!TypeOK
<1>6. faults' \in 0 .. MaxFaults
  BY DEF M!Crash, M!TypeOK, M!ConstantsAssumption
<1>7. M!TypeOK'
  BY <1>1, <1>5, <1>6 DEF M!Crash, M!TypeOK, M!tables, M!request, M!ConstantsAssumption
<1> QED BY <1>3, <1>4, <1>7

LEMMA MatchesStays ==
  ASSUME Matches, UNCHANGED M!vars
  PROVE  Matches'
BY DEF Matches, M!TypeOK, Numbered, Within, M!vars, M!tables, M!request, M!work, M!history

-----------------------------------------------------------------------------
(* Sources. *)

LEMMA SourceOfRequest ==
  ASSUME NEW r
  PROVE  M!Source(r) = SourceOf(user[r], photo[r])
BY DEF M!Source, SourceOf

\* OwnSource is about the reports and the receipts, which only Submit changes.
LEMMA OwnSourceKept ==
  ASSUME OwnSource, UNCHANGED <<reports, receipt>>
  PROVE  OwnSource'
BY DEF OwnSource, SourceOf

LEMMA OwnSourceStep ==
  ASSUME M!ConstantsAssumption, Matches, OwnSource, NEW r \in Requests, M!Submit(r)
  PROVE  OwnSource'
<1>1. pc[r] = "submit" /\ Submits(r)
  BY SubmissionEffect DEF Matches
<1>2. no[r] \in M!Numbers
  BY <1>1, NumberOf DEF Matches
<1>3. M!Source(r) = SourceOf(user[r], photo[r])
  BY SourceOfRequest
<1>4. receipt \in [M!Sources -> Photos \cup {None}]
  BY DEF Matches, M!TypeOK
<1>5. CASE reports' = reports /\ receipt' = receipt
  BY <1>5, OwnSourceKept
<1>6. CASE /\ reports' = reports /\ M!ReportFor(M!Source(r)) # 0
           /\ receipt' = [receipt EXCEPT ![M!Source(r)] = photo[r]]
  <2>1. \E s \in DOMAIN reports : reports[s].src = M!Source(r)
    BY <1>6, Reported DEF Matches
  <2>2. \A x \in M!Sources : x # M!Source(r) => receipt'[x] = receipt[x]
    BY <1>4, <1>6
  <2> QED BY <1>6, <2>1, <2>2 DEF OwnSource, SourceOf
<1>7. CASE /\ M!Creates(r) /\ M!ReportFor(M!Source(r)) = 0
           /\ receipt' = receipt \/ receipt' = [receipt EXCEPT ![M!Source(r)] = photo[r]]
  <2>1. PICK x : x = M!Source(r)
    OBVIOUS
  <2>2. PICK n : n = Len(reports) + 1
    OBVIOUS
  <2>3. DOMAIN reports = 1 .. Len(reports) /\ Len(reports) \in Nat
    BY Lengths DEF Matches
  <2>4. /\ DOMAIN reports' = 1 .. Len(reports) + 1
        /\ \A s \in DOMAIN reports : s \in DOMAIN reports' /\ reports'[s] = reports[s]
        /\ reports'[n] = [src |-> x, by |-> user[r], photo |-> photo[r], req |-> no[r]]
    BY <1>2, <1>7, <2>1, <2>2, Created, Zenon DEF Matches
  <2>5. \A s \in DOMAIN reports' : s = n \/ s \in DOMAIN reports
    BY <2>2, <2>3, <2>4
  <2>6. reports'[n].src = x /\ reports'[n].by = user[r] /\ reports'[n].photo = photo[r]
    BY ONLY <2>4
  <2>7. \A s \in DOMAIN reports : reports[s].src # x
    BY <1>7, <2>1, Reported DEF Matches
  <2>8. \A s \in DOMAIN reports' :
          reports'[s].src = SourceOf(reports'[s].by, reports'[s].photo)
    BY <1>3, <2>1, <2>4, <2>5, <2>6 DEF OwnSource
  <2>9. \A s, t \in DOMAIN reports' : reports'[s].src = reports'[t].src => s = t
    BY <2>4, <2>5, <2>6, <2>7 DEF OwnSource
  <2>10. n \in DOMAIN reports'
    BY <2>2, <2>3, <2>4
  <2>11. \A y \in M!Sources : y # x => receipt'[y] = receipt[y]
    BY <1>4, <1>7, <2>1
  <2>12. \A y \in M!Sources : receipt'[y] # None => \E s \in DOMAIN reports' : reports'[s].src = y
    BY <2>4, <2>6, <2>10, <2>11 DEF OwnSource
  <2> QED BY <2>8, <2>9, <2>12 DEF OwnSource, SourceOf
<1> QED BY <1>1, <1>5, <1>6, <1>7 DEF Submits, M!Accepts, M!Conflicts, M!Strands

-----------------------------------------------------------------------------
(* Traces. *)

TraceOf(d) ==
  \/ d.req \in slipped
  \/ \E p \in responses : p.req = d.req
  \/ \E s \in DOMAIN reports :
       /\ reports[s].by = d.by
       /\ reports[s].photo = d.photo
       /\ raw[s] > 0 \/ reports[s].req \in slipped

\* No trace is ever lost.
Onward ==
  /\ Grows /\ slipped \subseteq slipped' /\ responses \subseteq responses'
  /\ \A s \in DOMAIN reports : raw[s] > 0 => raw'[s] > 0

\* What a request leaves when it is answered.
Leaves(r) ==
  \/ no[r] \in slipped
  \/ \E p \in responses : p.req = no[r]
  \/ Submitted(r)

LEMMA TraceRemains ==
  ASSUME Onward, NEW d, TraceOf(d)
  PROVE  TraceOf(d)'
<1>1. CASE d.req \in slipped \/ \E p \in responses : p.req = d.req
  BY <1>1 DEF TraceOf, Onward
<1>2. ASSUME NEW s \in DOMAIN reports, reports[s].by = d.by, reports[s].photo = d.photo,
             raw[s] > 0 \/ reports[s].req \in slipped
      PROVE  TraceOf(d)'
  <2>1. s \in DOMAIN reports' /\ reports'[s] = reports[s]
    BY DEF Onward, Grows
  <2>2. raw'[s] > 0 \/ reports'[s].req \in slipped'
    BY <1>2, <2>1 DEF Onward
  <2> QED BY <1>2, <2>1, <2>2 DEF TraceOf
<1> QED BY <1>1, <1>2 DEF TraceOf

LEMMA Left ==
  ASSUME Protocol = "legacy", OwnSource, Queued, NEW r, Leaves(r)
  PROVE  TraceOf([req |-> no[r], by |-> user[r], photo |-> photo[r]])
<1>1. PICK d : d = [req |-> no[r], by |-> user[r], photo |-> photo[r]]
  OBVIOUS
<1>2. d.req = no[r] /\ d.by = user[r] /\ d.photo = photo[r]
  BY <1>1
<1>3. CASE Submitted(r)
  <2>1. PICK s \in DOMAIN reports : reports[s].src = M!Source(r)
    BY <1>3 DEF Submitted
  <2>2. <<reports[s].by, reports[s].photo>> = <<user[r], photo[r]>>
    BY <2>1 DEF OwnSource, SourceOf, M!Source
  <2>3. reports[s].by = d.by /\ reports[s].photo = d.photo
    BY <1>2, <2>2
  <2>4. raw[s] > 0 \/ reports[s].req \in slipped
    BY DEF Queued
  <2>5. TraceOf(d)
    BY <2>3, <2>4 DEF TraceOf
  <2> QED BY <1>1, <2>5
<1>4. CASE no[r] \in slipped \/ \E p \in responses : p.req = no[r]
  <2>1. TraceOf(d)
    BY <1>2, <1>4 DEF TraceOf
  <2> QED BY <1>1, <2>1
<1> QED BY <1>3, <1>4 DEF Leaves

LEMMA SubmittedKept ==
  ASSUME Onward, NEW r, user'[r] = user[r], photo'[r] = photo[r], Submitted(r)
  PROVE  Submitted(r)'
<1>1. M!Source(r)' = M!Source(r)
  BY DEF M!Source
<1>2. PICK s \in DOMAIN reports : reports[s].src = M!Source(r)
  BY DEF Submitted
<1>3. s \in DOMAIN reports' /\ reports'[s] = reports[s]
  BY DEF Onward, Grows
<1> QED BY <1>1, <1>2, <1>3 DEF Submitted

LEMMA QueuedKept ==
  ASSUME Queued, Onward
  PROVE  \A s \in DOMAIN reports : raw'[s] > 0 \/ reports'[s].req \in slipped'
BY DEF Queued, Onward, Grows

\* The trace of the step of a request, given what it leaves of the request itself.
LEMMA TraceLeft ==
  ASSUME Protocol = "legacy", OwnSource, Traceable, NEW r \in Requests, Only(r), Onward,
         done' = done \/ (Answered(r) /\ (Leaves(r) \/ no[r] \in slipped')),
         Queued', OnTheWay(r)'
  PROVE  Traceable'
<1>1. ASSUME NEW q \in Requests \ {r} PROVE OnTheWay(q)'
  <2>1. /\ pc'[q] = pc[q] /\ no'[q] = no[q] /\ user'[q] = user[q] /\ photo'[q] = photo[q]
        /\ gone'[q] = gone[q] /\ marked'[q] = marked[q] /\ matched'[q] = matched[q]
    BY DEF Only
  <2>2. OnTheWay(q)
    BY DEF Traceable
  <2>3. Submitted(q) => Submitted(q)'
    BY <2>1, SubmittedKept
  <2>4. (pc[q] = "idle" => ~matched[q]) => (pc'[q] = "idle" => ~matched'[q])
    BY <2>1
  <2> QED BY <2>1, <2>2, <2>3, <2>4 DEF OnTheWay, Onward
<1>2. \A d \in done : TraceOf(d)
  BY DEF Traceable, M!Traced, TraceOf
<1>3. \A d \in done : TraceOf(d)'
  BY <1>2, TraceRemains
<1>4. ASSUME NEW d \in done' PROVE TraceOf(d)'
  <2>1. CASE d \in done
    BY <1>3, <2>1
  <2>2. CASE d = [req |-> no[r], by |-> user[r], photo |-> photo[r]] /\ Leaves(r)
    <3>1. TraceOf(d)
      BY <2>2, Left DEF Traceable
    <3> QED BY <3>1, TraceRemains
  <2>3. CASE d = [req |-> no[r], by |-> user[r], photo |-> photo[r]] /\ no[r] \in slipped'
    BY <2>3 DEF TraceOf
  <2> QED BY <2>1, <2>2, <2>3 DEF Answered
<1>5. M!Traced'
  BY <1>4 DEF M!Traced, TraceOf
<1> QED BY <1>1, <1>5 DEF Traceable

LEMMA OnwardWithout ==
  ASSUME M!TypeOK, UNCHANGED <<reports, raw>>, slipped \subseteq slipped',
         responses \subseteq responses'
  PROVE  Onward
BY Lengths DEF Onward, Grows

LEMMA QueuedWithout ==
  ASSUME Queued, Onward, UNCHANGED reports
  PROVE  Queued'
BY QueuedKept DEF Queued

LEMMA MatchTrace ==
  ASSUME Protocol = "legacy", Matches, OwnSource, Traceable, NEW r \in Requests, M!Match(r)
  PROVE  Traceable'
<1>1. /\ pc[r] = "idle" /\ pc'[r] \in {"compare", "idle"} /\ matched'[r] = matched[r] /\ Only(r)
      /\ UNCHANGED <<M!tables, slipped, done>>
  BY MatchEffect DEF Matches
<1>2. Onward
  BY <1>1, OnwardWithout DEF M!tables, Matches
<1>3. Queued'
  BY <1>1, <1>2, QueuedWithout DEF Traceable, M!tables
<1>4. ~matched'[r]
  BY <1>1 DEF Traceable, OnTheWay
<1>5. OnTheWay(r)'
  BY <1>1, <1>4 DEF OnTheWay
<1> QED BY <1>1, <1>2, <1>3, <1>5, TraceLeft

LEMMA CompareTrace ==
  ASSUME Protocol = "legacy", Matches, OwnSource, Traceable, NEW r \in Requests, M!Compare(r)
  PROVE  Traceable'
<1>1. /\ pc[r] = "compare" /\ pc'[r] = "compare" /\ Same(r) /\ Only(r)
      /\ UNCHANGED <<M!tables, M!history>> /\ marked'[r] = marked[r]
      /\ \/ gone'[r] = gone[r] /\ matched'[r] = matched[r]
         \/ gone'[r] # {}
  BY CompareEffect DEF Matches
<1>2. Onward
  BY <1>1, OnwardWithout DEF M!tables, M!history, Matches
<1>3. Queued'
  BY <1>1, <1>2, QueuedWithout DEF Traceable, M!tables
<1>4. OnTheWay(r)
  BY DEF Traceable
<1>5. OnTheWay(r)'
  BY <1>1, <1>4 DEF OnTheWay, Same, M!tables, M!history
<1> QED BY <1>1, <1>2, <1>3, <1>5, TraceLeft DEF M!history

LEMMA MarkTrace ==
  ASSUME Protocol = "legacy", Matches, OwnSource, Traceable, NEW r \in Requests, M!Mark(r)
  PROVE  Traceable'
<1>1. /\ pc[r] = "compare" /\ pc'[r] = "compare" /\ Same(r) /\ Only(r)
      /\ UNCHANGED <<reports, raw, responses, done>> /\ matched'[r] = matched[r]
  BY MarkEffect DEF Matches
<1>2. \/ marked'[r] # {} /\ slipped' = slipped
      \/ no[r] \in slipped' /\ slipped \subseteq slipped'
  BY MarkEffect DEF Matches
<1>3. Onward
  BY <1>1, <1>2, OnwardWithout DEF Matches
<1>4. Queued'
  BY <1>1, <1>3, QueuedWithout DEF Traceable
<1>5. OnTheWay(r)'
  BY <1>1, <1>2 DEF OnTheWay, Same
<1> QED BY <1>1, <1>3, <1>4, <1>5, TraceLeft

LEMMA RespondTrace ==
  ASSUME Protocol = "legacy", Matches, OwnSource, Traceable, NEW r \in Requests, M!Respond(r)
  PROVE  Traceable'
<1>1. /\ pc[r] = "compare" /\ pc'[r] = "compare" /\ Same(r) /\ Only(r)
      /\ UNCHANGED <<reports, raw, done>> /\ matched'[r] = matched[r]
  BY RespondEffect DEF Matches
<1>2. \/ /\ \E s : responses' = responses \cup {[req |-> no[r], by |-> user[r], report |-> s]}
         /\ slipped' = slipped
      \/ responses' = responses /\ slipped' = slipped \cup {no[r]}
  BY RespondEffect DEF Matches
<1>3. Onward
  BY <1>1, <1>2, OnwardWithout DEF Matches
<1>4. Queued'
  BY <1>1, <1>3, QueuedWithout DEF Traceable
<1>5. no[r] \in slipped' \/ \E p \in responses' : p.req = no[r]
  <2>1. ASSUME NEW s,
               responses' = responses \cup {[req |-> no[r], by |-> user[r], report |-> s]}
        PROVE  \E p \in responses' : p.req = no[r]
    <3>1. PICK p : p = [req |-> no[r], by |-> user[r], report |-> s]
      OBVIOUS
    <3>2. p \in responses' /\ p.req = no[r]
      BY <2>1, <3>1
    <3> QED BY <3>2
  <2> QED BY <1>2, <2>1
<1>6. OnTheWay(r)'
  BY <1>1, <1>5 DEF OnTheWay, Same
<1> QED BY <1>1, <1>3, <1>4, <1>6, TraceLeft

LEMMA ComparedTrace ==
  ASSUME Protocol = "legacy", Matches, OwnSource, Traceable, NEW r \in Requests, M!Compared(r)
  PROVE  Traceable'
<1>1. /\ pc[r] = "compare" /\ Only(r) /\ UNCHANGED <<M!tables, slipped>>
      /\ found[r] \cup gone[r] \cup marked[r] = {}
      /\ \/ pc'[r] = "submit" /\ done' = done
         \/ matched[r] /\ pc'[r] = "idle" /\ Answered(r) /\ Forgotten(r)
  BY ComparedEffect DEF Matches
<1>2. Onward
  BY <1>1, OnwardWithout DEF M!tables, Matches
<1>3. Queued'
  BY <1>1, <1>2, QueuedWithout DEF Traceable, M!tables
<1>4. matched[r] => Leaves(r)
  BY <1>1 DEF Traceable, OnTheWay, Leaves
<1>5. OnTheWay(r)'
  BY <1>1 DEF OnTheWay, Forgotten
<1> QED BY <1>1, <1>2, <1>3, <1>4, <1>5, TraceLeft

LEMMA TakeLatestTrace ==
  ASSUME Protocol = "legacy", Matches, OwnSource, Traceable, NEW r \in Requests, M!TakeLatest(r)
  PROVE  Traceable'
<1>1. /\ pc[r] = "latest" /\ Same(r) /\ Only(r) /\ UNCHANGED M!tables
      /\ \/ pc'[r] = "cluster" /\ done' = done /\ slipped' = slipped
         \/ /\ pc'[r] = "idle" /\ Answered(r) /\ Forgotten(r)
            /\ slipped' = slipped \cup {no[r]}
  BY TakeLatestEffect DEF Matches
<1>2. Onward
  BY <1>1, OnwardWithout DEF M!tables, Matches
<1>3. Queued'
  BY <1>1, <1>2, QueuedWithout DEF Traceable, M!tables
<1>4. no[r] \in slipped \/ Submitted(r)
  BY <1>1 DEF Traceable, OnTheWay
<1>5. no'[r] \in slipped' \/ Submitted(r)'
  BY <1>1, <1>2, <1>4, SubmittedKept DEF Same
<1>6. OnTheWay(r)'
  BY <1>1, <1>5 DEF OnTheWay, Forgotten
<1> QED BY <1>1, <1>2, <1>3, <1>6, TraceLeft

LEMMA PublishTrace ==
  ASSUME M!ConstantsAssumption, Protocol = "legacy", Matches, OwnSource, Traceable,
         NEW r \in Requests, M!Publish(r)
  PROVE  Traceable'
<1>1. /\ pc[r] = "publish" /\ pc'[r] = "cluster" /\ Same(r) /\ Only(r)
      /\ UNCHANGED <<reports, responses, done>>
      /\ \A s \in M!Seqs : raw[s] > 0 => raw'[s] > 0
      /\ slipped \subseteq slipped'
  BY PublishEffect DEF Matches
<1>2. Onward
  <2>1. DOMAIN reports \subseteq M!Seqs
    BY Seated, M!ConstantsAssumption
  <2> QED BY <1>1, <2>1, Lengths DEF Onward, Grows, Matches
<1>3. Queued'
  BY <1>1, <1>2, QueuedWithout DEF Traceable
<1>4. no[r] \in slipped \/ Submitted(r)
  BY <1>1 DEF Traceable, OnTheWay
<1>5. no'[r] \in slipped' \/ Submitted(r)'
  BY <1>1, <1>2, <1>4, SubmittedKept DEF Same
<1>6. OnTheWay(r)'
  BY <1>1, <1>5 DEF OnTheWay
<1> QED BY <1>1, <1>2, <1>3, <1>6, TraceLeft

LEMMA ClusterTrace ==
  ASSUME Protocol = "legacy", Matches, OwnSource, Traceable, NEW r \in Requests, M!Cluster(r)
  PROVE  Traceable'
<1>1. /\ pc[r] = "cluster" /\ pc'[r] = "idle" /\ Only(r) /\ Answered(r) /\ Forgotten(r)
      /\ UNCHANGED <<reports, raw, responses>> /\ slipped \subseteq slipped'
  BY ClusterEffect DEF Matches
<1>2. Onward
  BY <1>1, OnwardWithout DEF Matches
<1>3. Queued'
  BY <1>1, <1>2, QueuedWithout DEF Traceable
<1>4. Leaves(r)
  BY <1>1 DEF Traceable, OnTheWay, Leaves
<1>5. OnTheWay(r)'
  BY <1>1 DEF OnTheWay, Forgotten
<1> QED BY <1>1, <1>2, <1>3, <1>4, <1>5, TraceLeft

LEMMA ServerTrace ==
  ASSUME Traceable, M!Analyse \/ M!MarkResolved
  PROVE  Traceable'
<1>1. UNCHANGED <<reports, receipt, raw, responses, pc, M!request, M!work, new, M!history>>
  BY DEF M!Analyse, M!MarkResolved
<1>2. M!Traced'
  BY <1>1 DEF Traceable, M!Traced, M!history
<1>3. Queued'
  BY <1>1 DEF Traceable, Queued, M!history
<1>4. ASSUME NEW r \in Requests PROVE OnTheWay(r)'
  <2>1. OnTheWay(r)
    BY DEF Traceable
  <2> QED BY <1>1, <2>1 DEF OnTheWay, Submitted, M!Source, M!request, M!work, M!history
<1> QED BY <1>2, <1>3, <1>4 DEF Traceable

LEMMA CrashTrace ==
  ASSUME Traceable, M!TypeOK, M!Crash
  PROVE  Traceable'
<1>1. UNCHANGED <<M!tables, done>> /\ slipped \subseteq slipped'
  BY DEF M!Crash
<1>2. \A r \in Requests : pc'[r] = "idle" /\ ~matched'[r]
  BY DEF M!Crash
<1>3. Onward
  BY <1>1, OnwardWithout DEF M!tables
<1>4. Queued'
  BY <1>1, <1>3, QueuedWithout DEF Traceable, M!tables
<1>5. \A d \in done' : TraceOf(d)'
  BY <1>1, <1>3, TraceRemains DEF Traceable, M!Traced, TraceOf
<1>6. M!Traced'
  BY <1>5 DEF M!Traced, TraceOf
<1>7. \A r \in Requests : OnTheWay(r)'
  BY <1>2 DEF OnTheWay
<1> QED BY <1>4, <1>6, <1>7 DEF Traceable

LEMMA TraceStays ==
  ASSUME Traceable, UNCHANGED M!vars
  PROVE  Traceable'
<1>1. UNCHANGED <<M!tables, pc, M!request, M!work, M!history>>
  BY DEF M!vars
<1>2. M!Traced'
  BY <1>1 DEF Traceable, M!Traced, M!tables, M!history
<1>3. Queued'
  BY <1>1 DEF Traceable, Queued, M!tables, M!history
<1>4. ASSUME NEW r \in Requests PROVE OnTheWay(r)'
  <2>1. OnTheWay(r)
    BY DEF Traceable
  <2> QED BY <1>1, <2>1 DEF OnTheWay, Submitted, M!Source, M!tables, M!request, M!work, M!history
<1> QED BY <1>2, <1>3, <1>4 DEF Traceable

\* A submission that is taken leaves a report of its source.
LEMMA AcceptsSubmitted ==
  ASSUME Matches, NEW r \in Requests, no[r] \in M!Numbers, Same(r), M!Accepts(r)
  PROVE  Submitted(r)'
<1>1. M!Source(r)' = M!Source(r)
  BY DEF M!Source, Same
<1>2. CASE M!Creates(r)
  <2>1. PICK n : n = Len(reports) + 1
    OBVIOUS
  <2>2. /\ DOMAIN reports' = 1 .. n
        /\ reports'[n] = [src |-> M!Source(r), by |-> user[r], photo |-> photo[r], req |-> no[r]]
    BY <1>2, <2>1, Created, Zenon DEF Matches
  <2>3. reports'[n].src = M!Source(r)
    BY <2>2
  <2>4. n \in DOMAIN reports'
    BY <2>1, <2>2, Lengths DEF Matches
  <2> QED BY <1>1, <2>3, <2>4 DEF Submitted
<1>3. CASE reports' = reports /\ M!ReportFor(M!Source(r)) # 0
  <2>1. M!ReportFor(M!Source(r)) \in DOMAIN reports /\ reports[M!ReportFor(M!Source(r))].src = M!Source(r)
    BY <1>3, Reported DEF Matches
  <2> QED BY <1>1, <1>3, <2>1 DEF Submitted
<1> QED BY <1>2, <1>3 DEF M!Accepts

LEMMA SubmitTrace ==
  ASSUME M!ConstantsAssumption, Protocol = "legacy", Matches, OwnSource, Traceable,
         NEW r \in Requests, M!Submit(r)
  PROVE  Traceable'
<1>1. pc[r] = "submit" /\ Same(r) /\ Only(r) /\ Submits(r) /\ responses' = responses
  BY SubmissionEffect DEF Matches
<1>2. no[r] \in M!Numbers
  BY <1>1, NumberOf DEF Matches
<1>3. slipped \subseteq slipped'
  BY <1>1 DEF Submits, FailsAnswered
<1>4. PICK n : n = Len(reports) + 1
  OBVIOUS
<1>5. n \in M!Seqs /\ DOMAIN reports = 1 .. Len(reports) /\ Len(reports) \in Nat
  <2>1. Len(reports) \in Nat /\ DOMAIN reports = 1 .. Len(reports) /\ Len(reports) < asked
    BY <1>1, Lengths, Room DEF Matches, Unsubmitted
  <2> QED BY <1>4, <2>1 DEF Matches, M!TypeOK, M!Seqs, M!ConstantsAssumption
<1>6. raw \in [M!Seqs -> Nat] /\ DOMAIN reports \subseteq M!Seqs
  BY Seated DEF Matches, M!TypeOK
<1>7. \/ M!Creates(r) /\ raw' = [raw EXCEPT ![n] = @ + 1]
      \/ M!Creates(r) /\ raw' = raw /\ FailsAnswered(r)
      \/ reports' = reports /\ raw' = raw
  BY <1>1, <1>4 DEF Submits, M!Accepts, M!Conflicts, M!Strands
<1>8. \A s \in DOMAIN reports : raw[s] > 0 => raw'[s] > 0
  BY <1>4, <1>5, <1>6, <1>7
<1>9. Grows
  BY <1>2, <1>7, Growing DEF Matches
<1>10. Onward
  BY <1>1, <1>3, <1>8, <1>9 DEF Onward
<1>11. Queued'
  <2>1. CASE reports' = reports
    BY <1>10, <2>1, QueuedWithout DEF Traceable
  <2>2. CASE M!Creates(r) /\ (raw' = [raw EXCEPT ![n] = @ + 1] \/ FailsAnswered(r))
    <3>1. /\ DOMAIN reports' = 1 .. n
          /\ reports'[n] = [src |-> M!Source(r), by |-> user[r], photo |-> photo[r], req |-> no[r]]
      BY <1>2, <1>4, <2>2, Created, Zenon DEF Matches
    <3>2. reports'[n].req = no[r]
      BY <3>1
    <3>3. raw'[n] > 0 \/ reports'[n].req \in slipped'
      BY <1>5, <1>6, <2>2, <3>2 DEF FailsAnswered
    <3>4. \A s \in DOMAIN reports' : s = n \/ s \in DOMAIN reports
      BY <1>4, <1>5, <3>1
    <3> QED BY <1>10, <3>3, <3>4, QueuedKept DEF Queued, Traceable
  <2> QED BY <1>7, <2>1, <2>2
<1>12. CASE FailsAnswered(r)
  <2>1. OnTheWay(r)'
    BY <1>12 DEF FailsAnswered, OnTheWay, Forgotten
  <2> QED BY <1>1, <1>10, <1>11, <1>12, <2>1, TraceLeft DEF FailsAnswered
<1>13. CASE M!Conflicts(r) /\ pc'[r] = "idle" /\ Answered(r) /\ Forgotten(r)
  <2>1. M!Source(r) \in M!Sources
    BY DEF Matches, M!TypeOK, M!Source, M!Sources
  <2>2. Submitted(r)
    BY <1>13, <2>1 DEF M!Conflicts, OwnSource, Submitted
  <2>3. OnTheWay(r)'
    BY <1>13 DEF OnTheWay, Forgotten
  <2> QED BY <1>1, <1>10, <1>11, <1>13, <2>2, <2>3, TraceLeft DEF Leaves
<1>14. CASE M!Accepts(r) /\ pc'[r] \in {"publish", "cluster", "latest"} /\ done' = done
  <2>1. Submitted(r)'
    BY <1>1, <1>2, <1>14, AcceptsSubmitted
  <2>2. OnTheWay(r)'
    BY <1>14, <2>1 DEF OnTheWay
  <2> QED BY <1>1, <1>10, <1>11, <1>14, <2>2, TraceLeft
<1> QED BY <1>1, <1>12, <1>13, <1>14 DEF Submits

-----------------------------------------------------------------------------
(* Clusters. *)

\* A step of a request, given what it leaves of the request itself.
LEMMA ForwardStep ==
  ASSUME M!TypeOK, Forward, NEW r \in Requests, Only(r), Grows, Len(reports') \in Nat,
         replayed \subseteq replayed', Older(r)',
         \/ clusters' = clusters
         \/ \E s \in similar[r] :
              /\ s < new[r] \/ no[r] \in replayed
              /\ clusters' = clusters \cup {[primary |-> s, related |-> new[r], req |-> no[r]]}
  PROVE  Forward'
<1>1. ASSUME NEW q \in Requests \ {r} PROVE Older(q)'
  <2>1. /\ pc'[q] = pc[q] /\ no'[q] = no[q] /\ similar'[q] = similar[q] /\ new'[q] = new[q]
    BY DEF Only
  <2>2. Older(q)
    BY DEF Forward
  <2>3. Len(reports) \in Nat /\ Len(reports) <= Len(reports')
    BY Lengths DEF Grows
  <2>4. similar[q] \subseteq Nat
    BY Types DEF M!Seqs
  <2> QED BY <2>1, <2>2, <2>3, <2>4 DEF Older
<1>2. M!ClustersGrowForward'
  <2>1. \A c \in clusters : c.primary < c.related \/ c.req \in replayed'
    BY DEF Forward, M!ClustersGrowForward
  <2>2. ASSUME NEW s, s < new[r] \/ no[r] \in replayed,
               NEW c, c = [primary |-> s, related |-> new[r], req |-> no[r]]
        PROVE  c.primary < c.related \/ c.req \in replayed'
    <3>1. c.primary = s /\ c.related = new[r] /\ c.req = no[r]
      BY <2>2
    <3> QED BY <2>2, <3>1
  <2> QED BY <2>1, <2>2 DEF M!ClustersGrowForward
<1> QED BY <1>1, <1>2 DEF Forward

LEMMA MatchForward ==
  ASSUME Matches, Forward, NEW r \in Requests, M!Match(r)
  PROVE  Forward'
<1>1. pc'[r] \in {"compare", "idle"} /\ Only(r) /\ UNCHANGED <<M!tables, replayed>>
  BY MatchEffect DEF Matches
<1>2. Older(r)'
  BY <1>1 DEF Older
<1>3. Grows /\ Len(reports') \in Nat
  BY <1>1, Lengths DEF Grows, Matches, M!tables
<1> QED BY <1>1, <1>2, <1>3, ForwardStep DEF Matches, M!tables

LEMMA WorkForward ==
  ASSUME Matches, Forward, NEW r \in Requests, M!Compare(r) \/ M!Mark(r) \/ M!Respond(r)
  PROVE  Forward'
<1>1. pc'[r] = "compare" /\ Only(r) /\ UNCHANGED <<reports, clusters, replayed>>
  BY CompareEffect, MarkEffect, RespondEffect DEF Matches, M!tables, M!history
<1>2. Older(r)'
  BY <1>1 DEF Older
<1>3. Grows /\ Len(reports') \in Nat
  BY <1>1, Lengths DEF Grows, Matches
<1> QED BY <1>1, <1>2, <1>3, ForwardStep DEF Matches

LEMMA ComparedForward ==
  ASSUME Matches, Forward, NEW r \in Requests, M!Compared(r)
  PROVE  Forward'
<1>1. pc'[r] \in {"submit", "idle"} /\ Only(r) /\ UNCHANGED <<M!tables, replayed>>
  BY ComparedEffect DEF Matches
<1>2. Older(r)'
  BY <1>1 DEF Older
<1>3. Grows /\ Len(reports') \in Nat
  BY <1>1, Lengths DEF Grows, Matches, M!tables
<1> QED BY <1>1, <1>2, <1>3, ForwardStep DEF Matches, M!tables

LEMMA TakeLatestForward ==
  ASSUME Matches, Forward, NEW r \in Requests, M!TakeLatest(r)
  PROVE  Forward'
<1>1. /\ pc[r] = "latest" /\ Same(r) /\ Only(r) /\ UNCHANGED <<M!tables, replayed>>
      /\ \/ pc'[r] = "cluster" /\ SameWork(r) /\ new'[r] = Len(reports)
         \/ pc'[r] = "idle"
  BY TakeLatestEffect DEF Matches
<1>2. Older(r)
  BY DEF Forward
<1>3. Older(r)'
  BY <1>1, <1>2 DEF Older, Same, SameWork
<1>4. Grows /\ Len(reports') \in Nat
  BY <1>1, Lengths DEF Grows, Matches, M!tables
<1> QED BY <1>1, <1>3, <1>4, ForwardStep DEF Matches, M!tables

LEMMA PublishForward ==
  ASSUME Matches, Forward, NEW r \in Requests, M!Publish(r)
  PROVE  Forward'
<1>1. /\ pc[r] = "publish" /\ pc'[r] = "cluster" /\ Same(r) /\ Only(r)
      /\ SameWork(r) /\ new'[r] = new[r] /\ UNCHANGED <<reports, clusters, replayed>>
  BY PublishEffect DEF Matches
<1>2. Older(r)
  BY DEF Forward
<1>3. Older(r)'
  BY <1>1, <1>2 DEF Older, Same, SameWork
<1>4. Grows /\ Len(reports') \in Nat
  BY <1>1, Lengths DEF Grows, Matches
<1> QED BY <1>1, <1>3, <1>4, ForwardStep DEF Matches

LEMMA ClusterForward ==
  ASSUME Matches, Forward, NEW r \in Requests, M!Cluster(r)
  PROVE  Forward'
<1>1. /\ pc[r] = "cluster" /\ pc'[r] = "idle" /\ Only(r) /\ UNCHANGED <<reports, replayed>>
      /\ \/ clusters' = clusters
         \/ /\ new[r] # 0
            /\ \E s \in similar[r] :
                 clusters' = clusters \cup {[primary |-> s, related |-> new[r], req |-> no[r]]}
  BY ClusterEffect DEF Matches
<1>2. new[r] # 0 => \A s \in similar[r] : s < new[r] \/ no[r] \in replayed
  BY <1>1 DEF Forward, Older
<1>3. Older(r)'
  BY <1>1 DEF Older
<1>4. Grows /\ Len(reports') \in Nat
  BY <1>1, Lengths DEF Grows, Matches
<1> QED BY <1>1, <1>2, <1>3, <1>4, ForwardStep DEF Matches

LEMMA SubmitForward ==
  ASSUME M!ConstantsAssumption, Matches, Forward, NEW r \in Requests, M!Submit(r)
  PROVE  Forward'
<1>1. pc[r] = "submit" /\ Same(r) /\ Only(r) /\ Submits(r) /\ clusters' = clusters
  BY SubmissionEffect DEF Matches
<1>2. no[r] \in M!Numbers
  BY <1>1, NumberOf DEF Matches
<1>3. reports' = reports \/ M!Creates(r)
  BY <1>1 DEF Submits, M!Accepts, M!Conflicts, M!Strands
<1>4. Grows /\ replayed \subseteq replayed'
  BY <1>1, <1>2, <1>3, Growing DEF Matches, Submits, M!Accepts, M!Conflicts, M!Strands
<1>5. Len(reports) \in Nat /\ DOMAIN reports = 1 .. Len(reports)
  BY Lengths DEF Matches
<1>6. M!Creates(r) => Len(reports') = Len(reports) + 1
  BY <1>2, Created, Zenon DEF Matches
<1>7. Len(reports') \in Nat
  BY <1>3, <1>5, <1>6
<1>8. \A s \in similar[r] : s \in 1 .. Len(reports)
  BY <1>5 DEF Matches, Within
<1>9. Older(r)'
  <2>1. CASE pc'[r] = "idle"
    BY <2>1 DEF Older
  <2>2. CASE /\ M!Accepts(r) /\ SameWork(r)
             /\ pc'[r] = "latest" \/ new'[r] = IF M!ReportFor(M!Source(r)) = 0 THEN Len(reports) + 1
                                               ELSE M!ReportFor(M!Source(r))
    <3>1. CASE replayed' = replayed \cup {no[r]}
      BY <1>1, <3>1 DEF Older, Same
    <3>2. CASE M!ReportFor(M!Source(r)) = 0 /\ M!Creates(r)
      <4>1. \A s \in similar'[r] : s < Len(reports')
        BY <1>5, <1>6, <1>8, <2>2, <3>2 DEF SameWork
      <4>2. pc'[r] = "latest" \/ new'[r] = Len(reports')
        BY <1>6, <2>2, <3>2
      <4> QED BY <4>1, <4>2 DEF Older
    <3> QED BY <2>2, <3>1, <3>2 DEF M!Accepts
  <2> QED BY <1>1, <2>1, <2>2 DEF Submits, FailsAnswered
<1> QED BY <1>1, <1>4, <1>7, <1>9, ForwardStep DEF Matches

LEMMA ServerForward ==
  ASSUME Forward, M!Analyse \/ M!MarkResolved
  PROVE  Forward'
<1>1. UNCHANGED <<reports, clusters, pc, M!request, M!work, new, M!history>>
  BY DEF M!Analyse, M!MarkResolved
<1> QED BY <1>1 DEF Forward, M!ClustersGrowForward, Older, M!request, M!work, M!history

LEMMA CrashForward ==
  ASSUME Forward, M!Crash
  PROVE  Forward'
BY DEF Forward, M!ClustersGrowForward, Older, M!Crash, M!tables

LEMMA ForwardStays ==
  ASSUME Forward, UNCHANGED M!vars
  PROVE  Forward'
BY DEF Forward, M!ClustersGrowForward, Older, M!vars, M!tables, M!request, M!work, M!history

-----------------------------------------------------------------------------
(* The theorems. *)

RequestStep(r) ==
  \/ M!Match(r) \/ M!Compare(r) \/ M!Mark(r) \/ M!Respond(r) \/ M!Compared(r)
  \/ M!Submit(r) \/ M!TakeLatest(r) \/ M!Publish(r) \/ M!Cluster(r)

LEMMA MatchesNext ==
  ASSUME M!ConstantsAssumption, Matches, [M!Next]_(M!vars)
  PROVE  Matches'
<1>1. ASSUME NEW r \in Requests, RequestStep(r) PROVE Matches'
  BY <1>1, MatchesMatch, MatchesWork, MatchesCompared, MatchesSubmit, MatchesTakeLatest, MatchesPublish,
     MatchesCluster DEF RequestStep
<1> QED BY <1>1, MatchesServer, MatchesCrash, MatchesStays DEF M!Next, RequestStep

LEMMA OwnSourceNext ==
  ASSUME M!ConstantsAssumption, Matches, OwnSource, [M!Next]_(M!vars)
  PROVE  OwnSource'
<1>1. ASSUME NEW r \in Requests, M!Submit(r) PROVE OwnSource'
  BY <1>1, OwnSourceStep
<1>2. ASSUME NEW r \in Requests, RequestStep(r), ~M!Submit(r) PROVE UNCHANGED <<reports, receipt>>
  BY <1>2, MatchEffect, CompareEffect, MarkEffect, RespondEffect, ComparedEffect,
     TakeLatestEffect, PublishEffect, ClusterEffect DEF RequestStep, Matches, M!tables
<1>3. M!Analyse \/ M!MarkResolved \/ M!Crash \/ UNCHANGED M!vars => UNCHANGED <<reports, receipt>>
  BY DEF M!Analyse, M!MarkResolved, M!Crash, M!vars, M!tables
<1> QED BY <1>1, <1>2, <1>3, OwnSourceKept DEF M!Next, RequestStep

LEMMA TraceNext ==
  ASSUME M!ConstantsAssumption, Protocol = "legacy", Matches, OwnSource, Traceable,
         [M!Next]_(M!vars)
  PROVE  Traceable'
<1>1. ASSUME NEW r \in Requests, RequestStep(r) PROVE Traceable'
  BY <1>1, MatchTrace, CompareTrace, MarkTrace, RespondTrace, ComparedTrace, SubmitTrace,
     TakeLatestTrace, PublishTrace, ClusterTrace DEF RequestStep
<1> QED BY <1>1, ServerTrace, CrashTrace, TraceStays DEF M!Next, RequestStep, Matches

LEMMA ForwardNext ==
  ASSUME M!ConstantsAssumption, Matches, Forward, [M!Next]_(M!vars)
  PROVE  Forward'
<1>1. ASSUME NEW r \in Requests, RequestStep(r) PROVE Forward'
  BY <1>1, MatchForward, WorkForward, ComparedForward, SubmitForward, TakeLatestForward,
     PublishForward, ClusterForward DEF RequestStep
<1> QED BY <1>1, ServerForward, CrashForward, ForwardStays DEF M!Next, RequestStep

LEMMA MatchesAlways ==
  ASSUME M!ConstantsAssumption
  PROVE  M!Spec => []Matches
<1>1. M!Init => Matches
  BY MatchesInit
<1>2. Matches /\ [M!Next]_(M!vars) => Matches'
  BY MatchesNext
<1> QED BY <1>1, <1>2, PTL DEF M!Spec

\* A user id, a photo, a sequence number and a control point are what report-processor
\* takes them for after every step of the requests it serves, the failed ones and the
\* crashes included.
THEOREM MatchingTyped ==
  ASSUME M!ConstantsAssumption
  PROVE  M!Spec => []M!TypeOK
<1>1. Matches => M!TypeOK
  BY DEF Matches
<1> QED BY <1>1, MatchesAlways, PTL

LEMMA OwnSourceAlways ==
  ASSUME M!ConstantsAssumption
  PROVE  M!Spec => []OwnSource
<1>1. M!Init => OwnSource
  BY DEF M!Init, OwnSource
<1>2. Matches /\ OwnSource /\ [M!Next]_(M!vars) => OwnSource'
  BY OwnSourceNext
<1> QED BY <1>1, <1>2, MatchesAlways, PTL DEF M!Spec

\* However many requests bring the same photo of the same user, by whichever protocol,
\* and whatever fails between them, the listener makes one report of it: the second is
\* answered with the first, or refused.
THEOREM PhotoReportedOnce ==
  ASSUME M!ConstantsAssumption
  PROVE  M!Spec => []M!OneReportPerPhoto
<1>1. OwnSource => M!OneReportPerPhoto
  BY DEF OwnSource, M!OneReportPerPhoto
<1> QED BY <1>1, OwnSourceAlways, PTL

\* A legacy request that has been answered without a failure left something behind: the
\* user's photo is a report that was queued for analysis, or the request verified that
\* the litter of another report is gone.  By Wire this is false (run matching_wire), for
\* the source of the request is the user, not the photo.
THEOREM NoneLost ==
  ASSUME M!ConstantsAssumption, Protocol = "legacy"
  PROVE  M!Spec => []M!Traced
<1>1. M!Init => Traceable
  BY DEF M!Init, Traceable, M!Traced, Queued, OnTheWay
<1>2. Matches /\ OwnSource /\ Traceable /\ [M!Next]_(M!vars) => Traceable'
  BY TraceNext
<1>3. Traceable => M!Traced
  BY DEF Traceable
<1> QED BY <1>1, <1>2, <1>3, MatchesAlways, OwnSourceAlways, PTL DEF M!Spec

\* The pairs of report_clusters lead from an older report to a newer one, although the
\* newest sequence number is read after the photo was submitted and another request can
\* have submitted one in between: only a request that was answered with a report that
\* was there already can relate a report to itself or to an older one.
THEOREM RelatedToOlder ==
  ASSUME M!ConstantsAssumption
  PROVE  M!Spec => []M!ClustersGrowForward
<1>1. M!Init => Forward
  BY DEF M!Init, Forward, M!ClustersGrowForward, Older
<1>2. Matches /\ Forward /\ [M!Next]_(M!vars) => Forward'
  BY ForwardNext
<1>3. Forward => M!ClustersGrowForward
  BY DEF Forward
<1> QED BY <1>1, <1>2, <1>3, MatchesAlways, PTL DEF M!Spec
=============================================================================
