------------------------------- MODULE Ingest -------------------------------
(***************************************************************************)
(* The ingest core of report-listener: what a submission of a report does  *)
(* to the database and to the report.raw queue, and what it answers.  All  *)
(* machine and human submissions go through it.  A source stands for a     *)
(* (fetcher_id, source_id) pair, which report_raw and wire_submissions_raw *)
(* both hold at most once; a payload for what the material hash tells      *)
(* apart.                                                                  *)
(*                                                                         *)
(* The look-ups, the transaction of the report, the queue and the          *)
(* transaction of the receipt are steps of their own: requests interleave, *)
(* each step may fail, and the process may die after any of them.          *)
(***************************************************************************)
EXTENDS Naturals

CONSTANTS
  Requests,     \* submissions served at the same time
  Sources,
  Payloads,
  BadImages,    \* payloads whose inline image cannot be decoded
  Failures,     \* kinds of failure that may happen
  MaxFaults,    \* how many failures may happen (a bound)
  MaxRequests,  \* how many submissions are made (a bound)
  None

FailureKinds == {"lookup", "coreLookup", "insert", "commit", "hook", "publish",
                 "record", "recordCommit", "crash"}

ASSUME ConstantsAssumption ==
  /\ BadImages \subseteq Payloads
  /\ Failures \subseteq FailureKinds
  /\ MaxFaults \in Nat
  /\ MaxRequests \in Nat
  /\ None \notin Payloads

VARIABLES
  report,     \* payload of the committed report of a source, in report_raw
  receipt,    \* payload recorded in wire_submissions_raw with its receipt
  pc,         \* control point of a request
  src,        \* source it is for
  pay,        \* payload it carries
  queued,     \* history: report.raw messages published for a source
  answered,   \* history: answers given
  stranded,   \* history: sources with a request that failed after committing
  asked,      \* history: requests so far
  faults      \* history: failures so far

tables == <<report, receipt>>
request == <<pc, src, pay>>
vars == <<tables, request, queued, answered, stranded, asked, faults>>

Answers == [src : Sources, pay : Payloads, code : {200, 409, 500, 503}]

TypeOK ==
  /\ report \in [Sources -> Payloads \cup {None}]
  /\ receipt \in [Sources -> Payloads \cup {None}]
  /\ pc \in [Requests -> {"idle", "lookup", "core", "insert", "hook", "publish",
                          "record"}]
  /\ src \in [Requests -> Sources]
  /\ pay \in [Requests -> Payloads]
  /\ queued \in [Sources -> Nat]
  /\ answered \subseteq Answers
  /\ stranded \subseteq Sources
  /\ asked \in Nat
  /\ faults \in Nat

Init ==
  /\ report = [s \in Sources |-> None]
  /\ receipt = [s \in Sources |-> None]
  /\ pc = [r \in Requests |-> "idle"]
  /\ src \in [Requests -> Sources]
  /\ pay \in [Requests -> Payloads]
  /\ queued = [s \in Sources |-> 0]
  /\ answered = {}
  /\ stranded = {}
  /\ asked = 0
  /\ faults = 0

Works == UNCHANGED faults

Fails(kind) ==
  /\ kind \in Failures
  /\ faults < MaxFaults
  /\ faults' = faults + 1

-----------------------------------------------------------------------------
(* A submission. *)

Goes(r, point) ==
  /\ pc' = [pc EXCEPT ![r] = point]
  /\ UNCHANGED answered

Answer(r, code) ==
  /\ pc' = [pc EXCEPT ![r] = "idle"]
  /\ answered' = answered \cup {[src |-> src[r], pay |-> pay[r], code |-> code]}

Strand(S) == stranded' = stranded \cup S

\* Slip: an internal error of the ingest core is not told from a success.
RefusesUnavailableOnly(code) == code > 500

\* Whether an outcome of the ingest core ends the submission.
Refuses(code) == code >= 500

\* cleanAppWireIngestCore returns, and its caller goes on unless it refused.  An
\* image that cannot be decoded (400) is not a refusal.
CoreReturns(r, code) ==
  IF Refuses(code) THEN Answer(r, code) ELSE Goes(r, "record")

Submit(r) ==
  /\ pc[r] = "idle"
  /\ asked < MaxRequests
  /\ asked' = asked + 1
  /\ \E s \in Sources : src' = [src EXCEPT ![r] = s]
  /\ \E p \in Payloads : pay' = [pay EXCEPT ![r] = p]
  /\ Goes(r, "lookup")
  /\ UNCHANGED <<tables, queued, stranded, faults>>

\* Slip: the payload of a replay is not compared.
SameMaterialAlways(r) == TRUE

SameMaterial(r) == receipt[src[r]] = pay[r]

\* A source with a receipt is a replay, or a conflict.
ReplayCode(r) == IF SameMaterial(r) THEN 200 ELSE 409

Lookup(r) ==
  /\ pc[r] = "lookup"
  /\ \/ /\ Works
        /\ IF receipt[src[r]] = None THEN Goes(r, "core") ELSE Answer(r, ReplayCode(r))
     \/ Fails("lookup") /\ Answer(r, 500)
  /\ UNCHANGED <<tables, src, pay, queued, stranded, asked>>

\* A source with a report is a duplicate, taken to have been queued.
CoreLookup(r) ==
  /\ pc[r] = "core"
  /\ \/ /\ Works
        /\ CASE report[src[r]] # None -> CoreReturns(r, 200)
             [] report[src[r]] = None /\ pay[r] \in BadImages -> CoreReturns(r, 400)
             [] OTHER -> Goes(r, "insert")
     \/ Fails("coreLookup") /\ CoreReturns(r, 500)
  /\ UNCHANGED <<tables, src, pay, queued, stranded, asked>>

\* Slip: report_raw has no unique key.
InsertableAlways(s) == TRUE

\* The unique key of report_raw.
Insertable(s) == report[s] = None

\* The transaction of reports and report_raw.  A commit whose answer is lost
\* has been made all the same.
CoreInsert(r) ==
  /\ pc[r] = "insert"
  /\ \/ /\ Works
        /\ Insertable(src[r])
        /\ report' = [report EXCEPT ![src[r]] = pay[r]]
        /\ Goes(r, "hook")
        /\ UNCHANGED stranded
     \/ /\ Works
        /\ ~Insertable(src[r])
        /\ CoreReturns(r, 500)
        /\ UNCHANGED <<report, stranded>>
     \/ /\ Fails("insert")
        /\ CoreReturns(r, 500)
        /\ UNCHANGED <<report, stranded>>
     \/ /\ Fails("commit")
        /\ Insertable(src[r])
        /\ report' = [report EXCEPT ![src[r]] = pay[r]]
        /\ Strand({src[r]})
        /\ CoreReturns(r, 500)
  /\ UNCHANGED <<receipt, src, pay, queued, asked>>

\* The hook of a digital share stores its metadata; other submissions have none.
CoreHook(r) ==
  /\ pc[r] = "hook"
  /\ \/ Works /\ Goes(r, "publish") /\ UNCHANGED stranded
     \/ Fails("hook") /\ CoreReturns(r, 500) /\ Strand({src[r]})
  /\ UNCHANGED <<tables, src, pay, queued, asked>>

CorePublish(r) ==
  /\ pc[r] = "publish"
  /\ \/ /\ Works
        /\ queued' = [queued EXCEPT ![src[r]] = @ + 1]
        /\ CoreReturns(r, 200)
        /\ UNCHANGED stranded
     \/ /\ Fails("publish")
        /\ CoreReturns(r, 503)
        /\ Strand({src[r]})
        /\ UNCHANGED queued
  /\ UNCHANGED <<tables, src, pay, asked>>

\* InsertWireSubmissionAndReceipt: fails when the source has a receipt by now.  A
\* commit whose answer is lost has been made all the same.
Record(r) ==
  /\ pc[r] = "record"
  /\ \/ /\ Works
        /\ receipt[src[r]] = None
        /\ receipt' = [receipt EXCEPT ![src[r]] = pay[r]]
        /\ Answer(r, 200)
     \/ /\ Works
        /\ receipt[src[r]] # None
        /\ Answer(r, 500)
        /\ UNCHANGED receipt
     \/ /\ Fails("record")
        /\ Answer(r, 500)
        /\ UNCHANGED receipt
     \/ /\ Fails("recordCommit")
        /\ receipt[src[r]] = None
        /\ receipt' = [receipt EXCEPT ![src[r]] = pay[r]]
        /\ Answer(r, 500)
  /\ UNCHANGED <<report, src, pay, queued, stranded, asked>>

\* The process dies, and what it was serving gets no answer.
Crash ==
  /\ Fails("crash")
  /\ pc' = [r \in Requests |-> "idle"]
  /\ Strand({src[r] : r \in {q \in Requests : pc[q] \in {"hook", "publish"}}})
  /\ UNCHANGED <<tables, src, pay, queued, answered, asked>>

-----------------------------------------------------------------------------
Next ==
  \/ \E r \in Requests :
       \/ Submit(r) \/ Lookup(r) \/ CoreLookup(r) \/ CoreInsert(r)
       \/ CoreHook(r) \/ CorePublish(r) \/ Record(r)
  \/ Crash

Spec == Init /\ [][Next]_vars

-----------------------------------------------------------------------------
(* Properties. *)

Accepted == {a \in answered : a.code = 200}

\* A request has committed the report of a source and is about to queue it.
AboutToQueue(s) == \E r \in Requests : pc[r] \in {"hook", "publish"} /\ src[r] = s

\* A source is accepted with one payload only, and what is accepted is never in
\* conflict: "same payload returns idempotent replay, materially different
\* payload returns conflict" (docs/cleanapp-wire.md), for requests that overlap
\* and for retries after any failure.
OnePayloadAccepted ==
  \A a \in Accepted, b \in answered :
    a.src = b.src =>
      /\ b.code = 200 => a.pay = b.pay
      /\ b.code = 409 => a.pay # b.pay

\* The analysis of a source is triggered at most once, however often and by how
\* many requests at once it is submitted (GetExistingReportSeqsV1, uniq_fetcher_source).
QueuedOnce == \A s \in Sources : queued[s] <= 1

\* What has been accepted has been queued for analysis, or a request that has
\* committed it is about to, unless a request failed in between (or the image
\* could not be decoded: then there is a receipt and no report).
AcceptedIsQueued ==
  \A a \in Accepted :
    \/ queued[a.src] > 0
    \/ AboutToQueue(a.src)
    \/ a.src \in stranded
    \/ a.pay \in BadImages

\* A submission that was not fully ingested can be retried: once the retry is
\* accepted the report is queued ("retry the same request safely", BulkIngestV1).
RetrySafe ==
  \A a \in Accepted : queued[a.src] > 0 \/ AboutToQueue(a.src)

Abstract == INSTANCE IngestOnce WITH abandoned <- stranded

\* However requests for a source interleave, fail and are repeated, each takes
\* effect at one point: one report, handed on once unless it is left behind, one
\* receipt for good, and answers that agree with it (cleanapp_wire_v1.go:507-705).
IngestedOnce == Abstract!Spec
=============================================================================
