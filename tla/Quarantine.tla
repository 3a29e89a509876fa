----------------------------- MODULE Quarantine -----------------------------
(***************************************************************************)
(* The quarantine lane: when is a report.analysed event published for a    *)
(* report?  report-analyze-pipeline analyses the report and publishes it   *)
(* if it is public; report-listener changes its visibility at the request  *)
(* of a moderator and publishes it if a promotion made it public and       *)
(* nobody has published it yet.  The two services share only the rows of   *)
(* the database.  One report is modelled: reports share no state.          *)
(*                                                                         *)
(* The failures that may happen are a parameter, by kind, so that a run    *)
(* can tell which of them a property withstands.                           *)
(***************************************************************************)
EXTENDS Naturals, FiniteSets

CONSTANTS
  Analysers,    \* workers of report-analyze-pipeline
  Promoters,    \* requests InternalPromoteReport serves at the same time
  Languages,    \* English, and those of TRANSLATION_LANGUAGES
  English,
  Failures,     \* kinds of failure that may happen
  MaxFaults,    \* how many failures may happen (a bound)
  MaxRequests,  \* how many promotion requests are made (a bound)
  Queued,       \* where the report.raw message is: not delivered,
  Acked         \* or acked

FailureKinds == {"redeliver", "analyse", "translate", "readVisibility",
                 "analyserPublish", "analyserMark", "analyserCrash",
                 "readPrevious", "upsert", "markPromoted", "check", "load",
                 "promoterPublish", "promoterMark", "listenerCrash"}

ASSUME ConstantsAssumption ==
  /\ English \in Languages
  /\ IsFiniteSet(Promoters)
  /\ Failures \subseteq FailureKinds
  /\ MaxFaults \in Nat
  /\ MaxRequests \in Nat
  /\ Queued \notin Analysers
  /\ Acked \notin Analysers \cup {Queued}

Visibilities == {"shadow", "limited", "public"}

VARIABLES
  row,        \* visibility in report_raw; "none" without a row
  promoted,   \* promoted_to_public_at is set
  marked,     \* analysed_published_at is set
  rows,       \* languages with a row in report_analysis
  raw,        \* the report.raw message: Queued, Acked, or who must ack it
  apc,        \* control point of an analyser
  todo,       \* translations under way
  got,        \* analyses it has collected for publishing
  ppc,        \* control point of a promotion request
  want,       \* visibility it asks for
  prev,       \* visibility it has read
  loaded,     \* analyses it has loaded
  published,  \* history: what each report.analysed event carried
  republished,  \* history: how many events promotions have published
  unrecorded, \* history: how many of them were published and then not recorded
  crowd,      \* history: the most requests there have been under way at once
  everPublic, \* history: the report has been public
  takenBack,  \* history: it has been public, and then not
  forgotten,  \* history: it was made public and that was not recorded
  requests,   \* history: promotion requests so far
  faults,     \* history: failures so far
  postponed   \* history: a promotion failed, and no request has come since

database == <<row, promoted, marked, rows>>
analysis == <<raw, apc, todo, got>>
promotion == <<ppc, want, prev, loaded>>
events == <<published, republished, unrecorded>>
past == <<everPublic, takenBack, forgotten>>
vars == <<database, analysis, promotion, events, past, crowd, requests, faults,
          postponed>>

TypeOK ==
  /\ row \in Visibilities \cup {"none"}
  /\ promoted \in BOOLEAN
  /\ marked \in BOOLEAN
  /\ rows \subseteq Languages
  /\ raw \in Analysers \cup {Queued, Acked}
  /\ apc \in [Analysers -> {"idle", "analysing", "translating", "publishing",
                            "marking", "acking"}]
  /\ todo \in [Analysers -> SUBSET Languages]
  /\ got \in [Analysers -> SUBSET Languages]
  /\ ppc \in [Promoters -> {"idle", "reading", "updating", "marking", "checking",
                            "loading", "publishing", "recording"}]
  /\ want \in [Promoters -> Visibilities]
  /\ prev \in [Promoters -> Visibilities]
  /\ loaded \in [Promoters -> SUBSET Languages]
  /\ published \subseteq SUBSET Languages
  /\ republished \in Nat
  /\ unrecorded \in Nat
  /\ crowd \in Nat
  /\ everPublic \in BOOLEAN
  /\ takenBack \in BOOLEAN
  /\ forgotten \in BOOLEAN
  /\ requests \in Nat
  /\ faults \in Nat
  /\ postponed \in BOOLEAN

\* What report_raw says of a report, and of one that has no row there.
VisibilityOf(v) == IF v = "none" THEN "public" ELSE v

IsPublic == VisibilityOf(row) = "public"

\* The report was ingested with any visibility, recorded as promoted if that is
\* public, or by the app, without a row.
Init ==
  /\ row \in Visibilities \cup {"none"}
  /\ promoted = (row = "public")
  /\ marked = FALSE
  /\ rows = {}
  /\ raw = Queued
  /\ apc = [a \in Analysers |-> "idle"]
  /\ todo = [a \in Analysers |-> {}]
  /\ got = [a \in Analysers |-> {}]
  /\ ppc = [p \in Promoters |-> "idle"]
  /\ want = [p \in Promoters |-> "public"]
  /\ prev = [p \in Promoters |-> "public"]
  /\ loaded = [p \in Promoters |-> {}]
  /\ published = {}
  /\ republished = 0
  /\ unrecorded = 0
  /\ crowd = 0
  /\ everPublic = (VisibilityOf(row) = "public")
  /\ takenBack = FALSE
  /\ forgotten = FALSE
  /\ requests = 0
  /\ faults = 0
  /\ postponed = FALSE

\* The requests at one of these points.
RequestsAt(points) == {p \in Promoters : ppc[p] \in points}

UnderWay == {p \in Promoters : ppc[p] # "idle"}

Works == UNCHANGED <<faults, postponed>>

\* Failures that may leave a promotion without its event.
Postponing == {"readPrevious", "upsert", "markPromoted", "check", "load",
               "promoterPublish", "listenerCrash"}

Fails(kind) ==
  /\ kind \in Failures
  /\ faults < MaxFaults
  /\ faults' = faults + 1
  /\ postponed' = IF kind \in Postponing THEN TRUE ELSE postponed

-----------------------------------------------------------------------------
(* Analysis: AnalyzeReport, called for a report.raw message. *)

AnalyserGoes(a, point) == apc' = [apc EXCEPT ![a] = point]

\* The message is delivered, once more while an earlier delivery is being
\* worked on when that delivery's channel was lost.
AnalyserTake(a) ==
  /\ apc[a] = "idle"
  /\ \/ raw = Queued /\ Works
     \/ raw \in Analysers /\ Fails("redeliver")
  /\ raw' = a
  /\ AnalyserGoes(a, "analysing")
  /\ UNCHANGED <<database, todo, got, promotion, events, past, crowd, requests>>

\* The English analysis is saved, and the translations start.
AnalyserSave(a) ==
  /\ apc[a] = "analysing"
  /\ rows' = rows \cup {English}
  /\ got' = [got EXCEPT ![a] = {English}]
  /\ todo' = [todo EXCEPT ![a] = Languages \ {English}]
  /\ AnalyserGoes(a, "translating")
  /\ UNCHANGED <<row, promoted, marked, raw, promotion, events, past,
                 crowd, requests, faults, postponed>>

\* Slip: the message of a failed analysis is acked.
AnalyserGiveUpForGood(a) ==
  /\ apc[a] = "analysing"
  /\ Fails("analyse")
  /\ raw' = Acked
  /\ AnalyserGoes(a, "idle")
  /\ UNCHANGED <<database, todo, got, promotion, events, past, crowd, requests>>

\* No image, no answer from the model, or no row saved: the message is retried.
AnalyserGiveUp(a) ==
  /\ apc[a] = "analysing"
  /\ Fails("analyse")
  /\ raw' = IF raw = a THEN Queued ELSE raw
  /\ AnalyserGoes(a, "idle")
  /\ UNCHANGED <<database, todo, got, promotion, events, past, crowd, requests>>

\* One goroutine for each language; its failure is only logged.
AnalyserTranslate(a, l) ==
  /\ apc[a] = "translating"
  /\ l \in todo[a]
  /\ todo' = [todo EXCEPT ![a] = @ \ {l}]
  /\ \/ /\ Works
        /\ rows' = rows \cup {l}
        /\ got' = [got EXCEPT ![a] = @ \cup {l}]
     \/ Fails("translate") /\ UNCHANGED <<rows, got>>
  /\ UNCHANGED <<row, promoted, marked, raw, apc, promotion, events, past,
                 crowd, requests>>

\* Slip: only the shadow lane is held back.
PublishableUnlessShadow(v) == v # "shadow"

Publishable(v) == VisibilityOf(v) = "public"

\* A visibility that cannot be read counts as public.
AnalyserReadVisibility(a) ==
  /\ apc[a] = "translating"
  /\ todo[a] = {}
  /\ \/ Works /\ AnalyserGoes(a, IF Publishable(row) THEN "publishing" ELSE "acking")
     \/ Fails("readVisibility") /\ AnalyserGoes(a, "publishing")
  /\ UNCHANGED <<database, raw, todo, got, promotion, events, past, crowd, requests>>

\* publishAnalyzedReport: an event that cannot be published is only logged.
AnalyserPublish(a) ==
  /\ apc[a] = "publishing"
  /\ \/ /\ Works
        /\ published' = published \cup {got[a]}
        /\ AnalyserGoes(a, "marking")
     \/ /\ Fails("analyserPublish")
        /\ UNCHANGED published
        /\ AnalyserGoes(a, "acking")
  /\ UNCHANGED <<database, raw, todo, got, promotion, republished, unrecorded, past,
                 crowd, requests>>

\* MarkAnalysedPublished: best effort, and no effect without a row.
AnalyserMark(a) ==
  /\ apc[a] = "marking"
  /\ \/ Works /\ marked' = (marked \/ row # "none")
     \/ Fails("analyserMark") /\ UNCHANGED marked
  /\ AnalyserGoes(a, "acking")
  /\ UNCHANGED <<row, promoted, rows, raw, todo, got, promotion, events,
                 past, crowd, requests>>

\* The ack of a delivery whose message was delivered again settles nothing.
AnalyserAck(a) ==
  /\ apc[a] = "acking"
  /\ raw' = IF raw = a THEN Acked ELSE raw
  /\ AnalyserGoes(a, "idle")
  /\ UNCHANGED <<database, todo, got, promotion, events, past, crowd, requests,
                 faults, postponed>>

AnalyserCrash ==
  /\ Fails("analyserCrash")
  /\ raw' = IF raw \in Analysers THEN Queued ELSE raw
  /\ apc' = [a \in Analysers |-> "idle"]
  /\ todo' = [a \in Analysers |-> {}]
  /\ got' = [a \in Analysers |-> {}]
  /\ UNCHANGED <<database, promotion, events, past, crowd, requests>>

-----------------------------------------------------------------------------
(* Promotion: InternalPromoteReport, whose statements are not one transaction. *)

PromoterGoes(p, point) == ppc' = [ppc EXCEPT ![p] = point]

PromoteAsk(p) ==
  /\ ppc[p] = "idle"
  /\ requests < MaxRequests
  /\ requests' = requests + 1
  /\ postponed' = FALSE
  /\ \E v \in Visibilities : want' = [want EXCEPT ![p] = v]
  /\ PromoterGoes(p, "reading")
  /\ LET n == Cardinality(UnderWay') IN crowd' = IF n > crowd THEN n ELSE crowd
  /\ UNCHANGED <<database, analysis, prev, loaded, events, past, faults>>

\* The visibility a request takes for the previous one.
Previous(v) == VisibilityOf(v)

\* A previous visibility that cannot be read is taken to be public.
PromoteRead(p) ==
  /\ ppc[p] = "reading"
  /\ \/ Works /\ prev' = [prev EXCEPT ![p] = Previous(row)]
     \/ Fails("readPrevious") /\ prev' = [prev EXCEPT ![p] = "public"]
  /\ PromoterGoes(p, "updating")
  /\ UNCHANGED <<database, analysis, want, loaded, events, past, crowd, requests>>

\* Slip: a limited report is not promoted, it only becomes public.
PromotesFromShadow(p) == prev[p] = "shadow"

Promotes(p) == prev[p] # "public"

\* Another request has taken the report back since this one read that it is
\* public, or it could not be read: it becomes public without being promoted.
Overlooked(p) == want[p] = "public" /\ prev[p] = "public" /\ ~IsPublic

PromoteUpdate(p) ==
  /\ ppc[p] = "updating"
  /\ \/ /\ Works
        /\ row' = want[p]
        /\ everPublic' = (everPublic \/ want[p] = "public")
        /\ takenBack' = (takenBack \/ (everPublic /\ want[p] # "public"))
        /\ forgotten' = (forgotten \/ Overlooked(p))
        /\ PromoterGoes(p, CASE want[p] # "public" -> "idle"
                             [] want[p] = "public" /\ Promotes(p) -> "marking"
                             [] OTHER -> "checking")
     \/ /\ Fails("upsert")
        /\ PromoterGoes(p, "idle")
        /\ UNCHANGED <<row, past>>
  /\ UNCHANGED <<promoted, marked, rows, analysis, want, prev, loaded, events,
                 crowd, requests>>

\* Sets promoted_to_public_at; an error is ignored.
PromoteMark(p) ==
  /\ ppc[p] = "marking"
  /\ \/ Works /\ promoted' = TRUE /\ UNCHANGED forgotten
     \/ Fails("markPromoted") /\ forgotten' = TRUE /\ UNCHANGED promoted
  /\ PromoterGoes(p, "checking")
  /\ UNCHANGED <<row, marked, rows, analysis, want, prev, loaded, events,
                 everPublic, takenBack, crowd, requests>>

\* Slip: what has been published is not looked at.
DueWhenPromoted == promoted

Due == promoted /\ ~marked

PromoteCheck(p) ==
  /\ ppc[p] = "checking"
  /\ \/ Works /\ PromoterGoes(p, IF Due THEN "loading" ELSE "idle")
     \/ Fails("check") /\ PromoterGoes(p, "idle")
  /\ UNCHANGED <<database, analysis, want, prev, loaded, events, past,
                 crowd, requests>>

\* publishAnalysedFromDB needs at least one analysis.
PromoteLoad(p) ==
  /\ ppc[p] = "loading"
  /\ \/ /\ Works
        /\ loaded' = [loaded EXCEPT ![p] = rows]
        /\ PromoterGoes(p, IF rows = {} THEN "idle" ELSE "publishing")
     \/ Fails("load") /\ PromoterGoes(p, "idle") /\ UNCHANGED loaded
  /\ UNCHANGED <<database, analysis, want, prev, events, past, crowd, requests>>

PromotePublish(p) ==
  /\ ppc[p] = "publishing"
  /\ \/ /\ Works
        /\ published' = published \cup {loaded[p]}
        /\ republished' = republished + 1
        /\ PromoterGoes(p, "recording")
        /\ UNCHANGED unrecorded
     \/ Fails("promoterPublish") /\ PromoterGoes(p, "idle") /\ UNCHANGED events
  /\ UNCHANGED <<database, analysis, want, prev, loaded, past, crowd, requests>>

PromoteRecord(p) ==
  /\ ppc[p] = "recording"
  /\ \/ Works /\ marked' = TRUE /\ UNCHANGED unrecorded
     \/ Fails("promoterMark") /\ unrecorded' = unrecorded + 1 /\ UNCHANGED marked
  /\ PromoterGoes(p, "idle")
  /\ UNCHANGED <<row, promoted, rows, analysis, want, prev, loaded, published,
                 republished, past, crowd, requests>>

ListenerCrash ==
  /\ Fails("listenerCrash")
  /\ ppc' = [p \in Promoters |-> "idle"]
  /\ forgotten' = (forgotten \/ \E p \in Promoters : ppc[p] = "marking")
  /\ unrecorded' = unrecorded + Cardinality(RequestsAt({"recording"}))
  /\ UNCHANGED <<database, analysis, want, prev, loaded, published, republished,
                 everPublic, takenBack, crowd, requests>>

-----------------------------------------------------------------------------
(* The system. *)

AnalyserStep(a) ==
  \/ AnalyserTake(a) \/ AnalyserSave(a) \/ AnalyserGiveUp(a)
  \/ \E l \in Languages : AnalyserTranslate(a, l)
  \/ AnalyserReadVisibility(a) \/ AnalyserPublish(a) \/ AnalyserMark(a)
  \/ AnalyserAck(a)

PromoterStep(p) ==
  \/ PromoteRead(p) \/ PromoteUpdate(p) \/ PromoteMark(p) \/ PromoteCheck(p)
  \/ PromoteLoad(p) \/ PromotePublish(p) \/ PromoteRecord(p)

Next ==
  \/ \E a \in Analysers : AnalyserStep(a)
  \/ \E p \in Promoters : PromoteAsk(p) \/ PromoterStep(p)
  \/ AnalyserCrash
  \/ ListenerCrash

Spec == Init /\ [][Next]_vars

\* Deliveries are made and goroutines and handlers run; requests need not come.
FairSpec ==
  /\ Spec
  /\ \A a \in Analysers : WF_vars(AnalyserStep(a))
  /\ \A p \in Promoters : WF_vars(PromoterStep(p))

-----------------------------------------------------------------------------
(* Properties. *)

Quiescent ==
  /\ raw = Acked
  /\ \A a \in Analysers : apc[a] = "idle"
  /\ \A p \in Promoters : ppc[p] = "idle"

\* Some event has carried the English analysis.
InEnglish == \E s \in published : English \in s

\* No event is published for a report that has never been public: "reports can
\* be analyzed but not published/routed until promoted" (AnalyzeReport).
QuarantineHolds == published # {} => everPublic

\* However the analysis and the promotions interleave, and whichever of them had
\* to be asked for again, a report that ends up public has been published with
\* every analysis it has in the database: neither side may leave the publishing
\* to the other (AnalyzeReport reads the visibility after saving,
\* InternalPromoteReport loads after the update), and the moment of promotion is
\* recorded "to enable retrying publish if it fails".  Where that moment itself
\* was not recorded nothing makes up for it, and a report taken back from the
\* public is nobody's.
PublishedInFull ==
  Quiescent /\ IsPublic /\ ~takenBack /\ ~postponed /\ ~forgotten
    => rows \in published

\* However many promotions are asked for, and however they interleave with each
\* other and with the analysis, they publish no more events for the report than
\* there were requests under way at once, and one more for each event whose
\* recording failed or died with the listener: a request that comes after a
\* publication was recorded publishes nothing, and one that is repeated publishes
\* only what was not.  Requests that overlap do each publish: the test of
\* analysed_published_at, the publishing and the update are three steps
\* (InternalPromoteReport).
PublishedOncePerOverlap == republished <= crowd + unrecorded

\* A report that stays public is published in the end, whatever the analysis
\* has to be retried for, if failed promotions are asked for again and none was
\* forgotten: one that overlaps with a request that takes the report back can
\* make it public and take that for no promotion (internal_ingest_admin.go:71).
EventuallyPublished ==
  <>[](IsPublic /\ ~postponed /\ ~forgotten) => <>InEnglish
=============================================================================
