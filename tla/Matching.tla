------------------------------- MODULE Matching -------------------------------
(***************************************************************************)
(* report-processor: a request brings a photo of a place.  It is compared  *)
(* with the open reports around, in parallel; a report whose litter is     *)
(* gone is marked as resolved and the request is rewarded with a response. *)
(* When there is none the photo is submitted as a new report, through the  *)
(* legacy /report of the backend or through CleanApp Wire, and is          *)
(* clustered with the report it looks like.                                *)
(*                                                                         *)
(* The ingest of report-listener, which both ways end in, is one step here *)
(* (module Ingest has its own steps).  It tells submissions apart by their *)
(* source: the user and the photo by the legacy way, whose fingerprint     *)
(* covers both, and the user only by Wire, where source_id is the id of    *)
(* the request, which is the id of a user everywhere else.                 *)
(***************************************************************************)
EXTENDS Naturals, Sequences, FiniteSets

CONSTANTS
  Requests,     \* requests served at the same time
  Users,
  Photos,
  Protocol,     \* "legacy" or "wire" (REPORTS_SUBMISSION_PROTOCOL)
  Limit,        \* how many reports are compared at most
  Failures,     \* kinds of failure that may happen
  MaxFaults,    \* how many failures may happen (a bound)
  MaxRequests,  \* how many requests are made (a bound)
  None

FailureKinds == {"read", "mark", "respond", "submit", "strand", "answer", "body",
                 "latest", "publish", "cluster", "crash"}

ASSUME ConstantsAssumption ==
  /\ Protocol \in {"legacy", "wire"}
  /\ Limit \in Nat \ {0}
  /\ Failures \subseteq FailureKinds
  /\ MaxFaults \in Nat
  /\ MaxRequests \in Nat
  /\ None \notin Photos

VARIABLES
  reports,     \* the reports, by their sequence number
  analysed,    \* reports with a valid analysis
  resolved,    \* reports marked in report_status
  receipt,     \* photo that report-listener has a receipt for, by source
  raw,         \* report.raw messages for a report
  responses,   \* the responses: who verified what, by which request
  clusters,    \* report_clusters, and the request that made the pair
  pc,          \* control point of a request
  no,          \* its number
  user,        \* who makes it
  photo,       \* what it shows
  found,       \* reports still to be compared
  gone,        \* reports whose litter is gone, still to be marked
  marked,      \* reports marked, still to be responded to
  similar,     \* reports that look like the photo
  matched,     \* whether a comparison found litter gone
  new,         \* sequence number of the report submitted
  replayed,    \* history: requests answered with a report that was there
  slipped,     \* history: requests in which something failed
  done,        \* history: requests that have been answered
  asked,       \* history: requests so far
  faults       \* history: failures so far

tables == <<reports, analysed, resolved, receipt, raw, responses, clusters>>
request == <<no, user, photo>>
work == <<found, gone, marked, similar, matched>>
history == <<replayed, slipped, done, asked, faults>>
vars == <<tables, pc, request, work, new, history>>

Sources == {<<u>> : u \in Users} \cup Users \X Photos
Numbers == 1..MaxRequests
Seqs == 1..MaxRequests

TypeOK ==
  /\ reports \in Seq([src : Sources, by : Users, photo : Photos, req : Numbers])
  /\ analysed \subseteq DOMAIN reports
  /\ resolved \subseteq DOMAIN reports
  /\ receipt \in [Sources -> Photos \cup {None}]
  /\ raw \in [Seqs -> Nat]
  /\ responses \subseteq [req : Numbers, by : Users, report : Seqs]
  /\ clusters \subseteq [primary : Seqs, related : Seqs, req : Numbers]
  /\ pc \in [Requests -> {"idle", "compare", "submit", "latest", "publish", "cluster"}]
  /\ no \in [Requests -> 0..MaxRequests]
  /\ user \in [Requests -> Users]
  /\ photo \in [Requests -> Photos]
  /\ \A f \in {found, gone, marked, similar} : f \in [Requests -> SUBSET Seqs]
  /\ matched \in [Requests -> BOOLEAN]
  /\ new \in [Requests -> 0..MaxRequests]
  /\ replayed \subseteq Numbers
  /\ slipped \subseteq Numbers
  /\ done \subseteq [req : Numbers, by : Users, photo : Photos]
  /\ asked \in 0..MaxRequests
  /\ faults \in 0..MaxFaults

Init ==
  /\ reports = <<>>
  /\ analysed = {}
  /\ resolved = {}
  /\ receipt = [s \in Sources |-> None]
  /\ raw = [s \in Seqs |-> 0]
  /\ responses = {}
  /\ clusters = {}
  /\ pc = [r \in Requests |-> "idle"]
  /\ no = [r \in Requests |-> 0]
  /\ \E u \in Users : user = [r \in Requests |-> u]
  /\ \E p \in Photos : photo = [r \in Requests |-> p]
  /\ found = [r \in Requests |-> {}]
  /\ gone = [r \in Requests |-> {}]
  /\ marked = [r \in Requests |-> {}]
  /\ similar = [r \in Requests |-> {}]
  /\ matched = [r \in Requests |-> FALSE]
  /\ new = [r \in Requests |-> 0]
  /\ replayed = {}
  /\ slipped = {}
  /\ done = {}
  /\ asked = 0
  /\ faults = 0

Works == UNCHANGED <<slipped, faults>>

Fails(r, kind) ==
  /\ kind \in Failures
  /\ faults < MaxFaults
  /\ faults' = faults + 1
  /\ slipped' = slipped \cup {no[r]}

Goes(r, point) ==
  /\ pc' = [pc EXCEPT ![r] = point]
  /\ UNCHANGED done

\* The request is answered; its work is forgotten.
Ends(r) ==
  /\ pc' = [pc EXCEPT ![r] = "idle"]
  /\ done' = done \cup {[req |-> no[r], by |-> user[r], photo |-> photo[r]]}

Forgets(r) ==
  /\ similar' = [similar EXCEPT ![r] = {}]
  /\ matched' = [matched EXCEPT ![r] = FALSE]
  /\ new' = [new EXCEPT ![r] = 0]
  /\ UNCHANGED <<found, gone, marked>>

Keeps == UNCHANGED <<work, new>>

-----------------------------------------------------------------------------
(* Comparing. *)

Open == analysed \ resolved

\* The newest open reports around, GetReportsInRadius.
Around == {s \in Open : Cardinality({t \in Open : t > s}) < Limit}

\* A request comes in, and the reports around it are read.
Match(r) ==
  /\ pc[r] = "idle"
  /\ asked < MaxRequests
  /\ asked' = asked + 1
  /\ no' = [no EXCEPT ![r] = asked + 1]
  /\ \E u \in Users : user' = [user EXCEPT ![r] = u]
  /\ \E p \in Photos : photo' = [photo EXCEPT ![r] = p]
  /\ \/ /\ Works
        /\ found' = [found EXCEPT ![r] = Around]
        /\ Goes(r, "compare")
     \/ /\ "read" \in Failures /\ faults < MaxFaults
        /\ faults' = faults + 1
        /\ UNCHANGED <<slipped, found, pc, done>>
  /\ UNCHANGED <<tables, gone, marked, similar, matched, new, replayed>>

\* One of the parallel comparisons: the report is another's, is of the same
\* litter, or is of litter that is gone.  A model that fails says the first.
Compare(r) ==
  /\ pc[r] = "compare"
  /\ \E s \in found[r] :
       /\ found' = [found EXCEPT ![r] = @ \ {s}]
       /\ \/ UNCHANGED <<gone, similar, matched>>
          \/ /\ similar' = [similar EXCEPT ![r] = @ \cup {s}]
             /\ UNCHANGED <<gone, matched>>
          \/ /\ gone' = [gone EXCEPT ![r] = @ \cup {s}]
             /\ matched' = [matched EXCEPT ![r] = TRUE]
             /\ UNCHANGED similar
  /\ UNCHANGED <<tables, pc, request, marked, new, history>>

\* A failure to mark leaves the report open, and the request goes on all the same.
Mark(r) ==
  /\ pc[r] = "compare"
  /\ \E s \in gone[r] :
       /\ gone' = [gone EXCEPT ![r] = @ \ {s}]
       /\ \/ /\ Works
             /\ resolved' = resolved \cup {s}
             /\ marked' = [marked EXCEPT ![r] = @ \cup {s}]
          \/ Fails(r, "mark") /\ UNCHANGED <<resolved, marked>>
  /\ UNCHANGED <<reports, analysed, receipt, raw, responses, clusters, pc, request,
                 found, similar, matched, new, replayed, done, asked>>

\* The response and the reward are one transaction.
Respond(r) ==
  /\ pc[r] = "compare"
  /\ \E s \in marked[r] :
       /\ marked' = [marked EXCEPT ![r] = @ \ {s}]
       /\ \/ /\ Works
             /\ responses' = responses \cup
                  {[req |-> no[r], by |-> user[r], report |-> s]}
          \/ Fails(r, "respond") /\ UNCHANGED responses
  /\ UNCHANGED <<reports, analysed, resolved, receipt, raw, clusters, pc, request,
                 found, gone, similar, matched, new, replayed, done, asked>>

\* Slip: a photo is submitted only when it looks like no open report.
NothingResolvedOrSimilar(r) == ~matched[r] /\ similar[r] = {}

\* Whether the photo is submitted as a new report.
NothingResolved(r) == ~matched[r]

\* All comparisons are over.
Compared(r) ==
  /\ pc[r] = "compare"
  /\ found[r] \cup gone[r] \cup marked[r] = {}
  /\ IF NothingResolved(r) THEN Goes(r, "submit") /\ Keeps ELSE Ends(r) /\ Forgets(r)
  /\ UNCHANGED <<tables, request, replayed, slipped, asked, faults>>

-----------------------------------------------------------------------------
(* Submitting. *)

Source(r) == IF Protocol = "wire" THEN <<user[r]>> ELSE <<user[r], photo[r]>>

\* Slip: report_raw is not looked up, and has no unique key.
ReportForNobody(src) == 0

\* The report that report-listener has for a source (report_raw), or 0.
ReportFor(src) ==
  IF \E s \in DOMAIN reports : reports[s].src = src
  THEN CHOOSE s \in DOMAIN reports : reports[s].src = src
  ELSE 0

Creates(r) ==
  reports' = Append(reports, [src |-> Source(r), by |-> user[r], photo |-> photo[r],
                              req |-> no[r]])

\* The listener takes the submission: as a new report, which it queues, or as one
\* it has.  It has the report but no receipt when an earlier ingest failed half-way.
Accepts(r) ==
  /\ receipt' = [receipt EXCEPT ![Source(r)] = photo[r]]
  /\ \/ /\ ReportFor(Source(r)) = 0
        /\ Creates(r)
        /\ raw' = [raw EXCEPT ![Len(reports) + 1] = @ + 1]
        /\ UNCHANGED replayed
     \/ /\ ReportFor(Source(r)) # 0
        /\ receipt[Source(r)] \in {None, photo[r]}
        /\ replayed' = replayed \cup {no[r]}
        /\ UNCHANGED <<reports, raw>>

\* A receipt for another photo, or for this one but observed in another second.
Conflicts(r) ==
  /\ receipt[Source(r)] # None
  /\ UNCHANGED <<reports, receipt, raw, replayed>>

\* The report is committed, and then its ingest fails.
Strands(r) ==
  /\ ReportFor(Source(r)) = 0
  /\ Creates(r)
  /\ UNCHANGED <<receipt, raw, replayed>>

\* The answer is lost, or cannot be decoded (the legacy way only).
Submit(r) ==
  /\ pc[r] = "submit"
  /\ \/ /\ Accepts(r)
        /\ \/ /\ Works
              /\ Goes(r, IF Protocol = "wire" THEN "cluster" ELSE "publish")
              /\ new' = [new EXCEPT ![r] =
                   IF ReportFor(Source(r)) = 0 THEN Len(reports) + 1
                   ELSE ReportFor(Source(r))]
              /\ UNCHANGED work
           \/ Fails(r, "answer") /\ Ends(r) /\ Forgets(r)
           \/ Protocol = "legacy" /\ Fails(r, "body") /\ Goes(r, "latest") /\ Keeps
     \/ Conflicts(r) /\ Works /\ Ends(r) /\ Forgets(r)
     \/ Strands(r) /\ Fails(r, "strand") /\ Ends(r) /\ Forgets(r)
     \/ /\ Fails(r, "submit") /\ Ends(r) /\ Forgets(r)
        /\ UNCHANGED <<reports, receipt, raw, replayed>>
  /\ UNCHANGED <<analysed, resolved, responses, clusters, request, asked>>

\* Slip: the latest report that can be seen around, not the latest at all.
LatestOpen == IF Open = {} THEN 0 ELSE CHOOSE s \in Open : \A t \in Open : t <= s

\* GetLatestReportSeq.
Latest == Len(reports)

\* The latest report stands for the one submitted, whoever it is of.
TakeLatest(r) ==
  /\ pc[r] = "latest"
  /\ \/ /\ Works
        /\ new' = [new EXCEPT ![r] = Latest]
        /\ Goes(r, "cluster")
        /\ UNCHANGED work
     \/ Fails(r, "latest") /\ Ends(r) /\ Forgets(r)
  /\ UNCHANGED <<tables, request, replayed, asked>>

\* The legacy way publishes report.raw once more, for the tags.
Publish(r) ==
  /\ pc[r] = "publish"
  /\ \/ Works /\ raw' = [raw EXCEPT ![new[r]] = @ + 1]
     \/ Fails(r, "publish") /\ UNCHANGED raw
  /\ Goes(r, "cluster")
  /\ UNCHANGED <<reports, analysed, resolved, receipt, responses, clusters, request,
                 work, new, replayed, asked>>

\* The new report is related to the one it looks like most.  A report is related
\* to one other at most (related_seq_unique).
Cluster(r) ==
  /\ pc[r] = "cluster"
  /\ \/ /\ \/ similar[r] = {} \/ new[r] = 0
           \/ \E c \in clusters : c.related = new[r]
        /\ Works
        /\ UNCHANGED clusters
     \/ /\ new[r] # 0
        /\ ~\E c \in clusters : c.related = new[r]
        /\ Works
        /\ \E s \in similar[r] :
             clusters' = clusters \cup
               {[primary |-> s, related |-> new[r], req |-> no[r]]}
     \/ /\ similar[r] # {}
        /\ Fails(r, "cluster")
        /\ UNCHANGED clusters
  /\ Ends(r)
  /\ Forgets(r)
  /\ UNCHANGED <<reports, analysed, resolved, receipt, raw, responses, request,
                 replayed, asked>>

-----------------------------------------------------------------------------
(* The rest of the system. *)

\* The analysis of a report that has been queued.
Analyse ==
  /\ \E s \in DOMAIN reports \ analysed : raw[s] > 0 /\ analysed' = analysed \cup {s}
  /\ UNCHANGED <<reports, resolved, receipt, raw, responses, clusters, pc, request,
                 work, new, history>>

MarkResolved ==
  /\ \E s \in DOMAIN reports \ resolved : resolved' = resolved \cup {s}
  /\ UNCHANGED <<reports, analysed, receipt, raw, responses, clusters, pc, request,
                 work, new, history>>

\* The process dies, and what it was serving gets no answer.
Crash ==
  /\ "crash" \in Failures /\ faults < MaxFaults
  /\ faults' = faults + 1
  /\ slipped' = slipped \cup {no[r] : r \in {q \in Requests : pc[q] # "idle"}}
  /\ pc' = [r \in Requests |-> "idle"]
  /\ found' = [r \in Requests |-> {}]
  /\ gone' = [r \in Requests |-> {}]
  /\ marked' = [r \in Requests |-> {}]
  /\ similar' = [r \in Requests |-> {}]
  /\ matched' = [r \in Requests |-> FALSE]
  /\ new' = [r \in Requests |-> 0]
  /\ UNCHANGED <<tables, request, replayed, done, asked>>

Next ==
  \/ \E r \in Requests :
       \/ Match(r) \/ Compare(r) \/ Mark(r) \/ Respond(r) \/ Compared(r)
       \/ Submit(r) \/ TakeLatest(r) \/ Publish(r) \/ Cluster(r)
  \/ Analyse \/ MarkResolved \/ Crash

Spec == Init /\ [][Next]_vars

-----------------------------------------------------------------------------
(* Properties. *)

\* A request leaves a trace: it has verified a report, or its photo is a report of
\* its user that has been queued for analysis - unless something failed in it, or
\* in the request whose report it met ("If no matches found, submits the report to
\* the main reports service", REPORT_SUBMISSION_WITH_TAGS_FLOW.md).
Traced ==
  \A d \in done :
    \/ d.req \in slipped
    \/ \E p \in responses : p.req = d.req
    \/ \E s \in DOMAIN reports :
         /\ reports[s].by = d.by
         /\ reports[s].photo = d.photo
         /\ raw[s] > 0 \/ reports[s].req \in slipped

\* A photo that a user sends again - since the answer was lost, or twice at once -
\* is one report (syntheticHumanSourceID, uniq_fetcher_source).
OneReportPerPhoto ==
  \A s, t \in DOMAIN reports :
    reports[s].by = reports[t].by /\ reports[s].photo = reports[t].photo => s = t

\* A report is clustered with an older one, so that clusters are trees, even when
\* requests overlap and when the latest report stands for the one submitted;
\* unless the submission was a replay, whose report is older than what it is
\* compared with.
ClustersGrowForward ==
  \A c \in clusters : c.primary < c.related \/ c.req \in replayed
=============================================================================
