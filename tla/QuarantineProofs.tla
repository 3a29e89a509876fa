-------------------------- MODULE QuarantineProofs --------------------------
(***************************************************************************)
(* Proofs about Quarantine, for any number of analysers, promotion         *)
(* requests, languages and failures.                                       *)
(***************************************************************************)
EXTENDS Quarantine, FiniteSetTheorems, TLAPS

\* The requests at given points are finitely many.
LEMMA PointsFinite ==
  /\ \A points : IsFiniteSet(RequestsAt(points)) /\ Cardinality(RequestsAt(points)) \in Nat
  /\ IsFiniteSet(UnderWay) /\ Cardinality(UnderWay) \in Nat
<1>1. \A S \in SUBSET Promoters : IsFiniteSet(S) /\ Cardinality(S) \in Nat
  BY ConstantsAssumption, FS_Subset, FS_CardinalityType
<1>2. \A points : RequestsAt(points) \in SUBSET Promoters
  BY DEF RequestsAt
<1>3. UnderWay \in SUBSET Promoters
  BY DEF UnderWay
<1>4. QED
  BY <1>1, <1>2, <1>3

\* A step that works and a step that fails leave the fault history well typed.
LEMMA OutcomeTyped ==
  ASSUME TypeOK, NEW kind, Works \/ Fails(kind)
  PROVE  faults' \in Nat /\ postponed' \in BOOLEAN
<1>1. faults' \in Nat
  <2>1. CASE Works
    BY <2>1 DEF TypeOK, Works
  <2>2. CASE Fails(kind)
    BY <2>2 DEF TypeOK, Fails
  <2>3. QED
    BY <2>1, <2>2
<1>2. postponed' \in BOOLEAN
  <2>1. CASE Works
    BY <2>1 DEF TypeOK, Works
  <2>2. CASE Fails(kind)
    BY <2>2, Zenon DEF TypeOK, Fails
  <2>3. QED
    BY <2>1, <2>2
<1>3. QED
  BY <1>1, <1>2

LEMMA AnalyserTyped ==
  ASSUME TypeOK, NEW a \in Analysers, AnalyserStep(a)
  PROVE  TypeOK'
<1> USE ConstantsAssumption DEF TypeOK, database, analysis, promotion, events, past,
        AnalyserGoes
<1>1. CASE AnalyserTake(a) BY <1>1, OutcomeTyped DEF AnalyserTake
<1>2. CASE AnalyserSave(a) BY <1>2 DEF AnalyserSave
<1>3. CASE AnalyserGiveUp(a) BY <1>3, OutcomeTyped DEF AnalyserGiveUp
<1>4. ASSUME NEW l \in Languages, AnalyserTranslate(a, l) PROVE TypeOK'
  BY <1>4, OutcomeTyped DEF AnalyserTranslate
<1>5. CASE AnalyserReadVisibility(a)
  <2>1. apc' \in [Analysers -> {"idle", "analysing", "translating", "publishing",
                                "marking", "acking"}]
    BY <1>5 DEF AnalyserReadVisibility
  <2>2. QED
    BY <1>5, <2>1, OutcomeTyped DEF AnalyserReadVisibility
<1>6. CASE AnalyserPublish(a) BY <1>6, OutcomeTyped DEF AnalyserPublish
<1>7. CASE AnalyserMark(a)
  <2>1. marked' \in BOOLEAN
    BY <1>7, Zenon DEF AnalyserMark
  <2>2. QED
    BY <1>7, <2>1, OutcomeTyped DEF AnalyserMark
<1>8. CASE AnalyserAck(a) BY <1>8 DEF AnalyserAck
<1>9. QED
  BY <1>1, <1>2, <1>3, <1>4, <1>5, <1>6, <1>7, <1>8 DEF AnalyserStep

LEMMA PromoterTyped ==
  ASSUME TypeOK, NEW p \in Promoters, PromoteAsk(p) \/ PromoterStep(p)
  PROVE  TypeOK'
<1> USE DEF TypeOK, database, analysis, promotion, events, past, PromoterGoes
<1>1. CASE PromoteAsk(p)
  <2>1. postponed' \in BOOLEAN
    BY <1>1, Zenon DEF PromoteAsk
  <2>2. UnderWay' \in SUBSET Promoters
    BY DEF UnderWay
  <2>3. Cardinality(UnderWay') \in Nat
    BY <2>2, ConstantsAssumption, FS_Subset, FS_CardinalityType
  <2>4. crowd' \in Nat
    BY <1>1, <2>3 DEF PromoteAsk
  <2>5. QED
    BY <1>1, <2>1, <2>4 DEF PromoteAsk
<1>2. CASE PromoteRead(p)
  <2>1. Previous(row) \in Visibilities /\ "public" \in Visibilities
    BY DEF Previous, VisibilityOf, Visibilities
  <2>2. QED
    BY <1>2, <2>1, OutcomeTyped DEF PromoteRead
<1>3. CASE PromoteUpdate(p)
  <2>1. everPublic' \in BOOLEAN /\ takenBack' \in BOOLEAN /\ forgotten' \in BOOLEAN
    BY <1>3, Zenon DEF PromoteUpdate
  <2>2. ppc' \in [Promoters -> {"idle", "reading", "updating", "marking", "checking",
                                "loading", "publishing", "recording"}]
    BY <1>3 DEF PromoteUpdate
  <2>3. QED
    BY <1>3, <2>1, <2>2, OutcomeTyped DEF PromoteUpdate
<1>4. CASE PromoteMark(p)
  <2>1. promoted' \in BOOLEAN
    BY <1>4, Zenon DEF PromoteMark
  <2>2. QED
    BY <1>4, <2>1, OutcomeTyped DEF PromoteMark
<1>5. CASE PromoteCheck(p)
  <2>1. ppc' \in [Promoters -> {"idle", "reading", "updating", "marking", "checking",
                                "loading", "publishing", "recording"}]
    BY <1>5 DEF PromoteCheck
  <2>2. QED
    BY <1>5, <2>1, OutcomeTyped DEF PromoteCheck
<1>6. CASE PromoteLoad(p) BY <1>6, OutcomeTyped DEF PromoteLoad
<1>7. CASE PromotePublish(p) BY <1>7, OutcomeTyped DEF PromotePublish
<1>8. CASE PromoteRecord(p)
  <2>1. marked' \in BOOLEAN
    BY <1>8, Zenon DEF PromoteRecord
  <2>2. QED
    BY <1>8, <2>1, OutcomeTyped DEF PromoteRecord
<1>9. QED
  BY <1>1, <1>2, <1>3, <1>4, <1>5, <1>6, <1>7, <1>8 DEF PromoterStep

\* Every variable keeps its type: a visibility read or asked for is one of the
\* three, and what is published is a set of languages.
THEOREM TypeCorrect == Spec => []TypeOK
<1>1. Init => TypeOK
  <2> SUFFICES ASSUME Init PROVE TypeOK
    OBVIOUS
  <2>1. everPublic \in BOOLEAN /\ promoted \in BOOLEAN
    BY Zenon DEF Init
  <2>2. QED
    BY <2>1, ConstantsAssumption DEF Init, TypeOK, Visibilities
<1>2. TypeOK /\ [Next]_vars => TypeOK'
  <2> SUFFICES ASSUME TypeOK, [Next]_vars PROVE TypeOK'
    OBVIOUS
  <2>1. ASSUME NEW a \in Analysers, AnalyserStep(a) PROVE TypeOK'
    BY <2>1, AnalyserTyped
  <2>2. ASSUME NEW p \in Promoters, PromoteAsk(p) \/ PromoterStep(p) PROVE TypeOK'
    BY <2>2, PromoterTyped
  <2>3. CASE AnalyserCrash
    BY <2>3, OutcomeTyped DEF AnalyserCrash, TypeOK, database, promotion, events, past
  <2>4. CASE ListenerCrash
    <3>1. Cardinality(RequestsAt({"recording"})) \in Nat
      BY PointsFinite
    <3>2. QED
      BY <2>4, <3>1, OutcomeTyped DEF ListenerCrash, TypeOK, database, analysis, past
  <2>5. CASE UNCHANGED vars
    BY <2>5 DEF vars, TypeOK, database, analysis, promotion, events, past
  <2>6. QED
    BY <2>1, <2>2, <2>3, <2>4, <2>5 DEF Next
<1>3. QED
  BY <1>1, <1>2, PTL DEF Spec

-----------------------------------------------------------------------------
(* The quarantine lane. *)

\* QuarantineHolds is not inductive alone: an analyser that has found the
\* report public, and a request that has made it public, publish later, when
\* the visibility may be another one again.
Lane ==
  /\ IsPublic => everPublic
  /\ \A a \in Analysers : apc[a] = "publishing" => everPublic
  /\ \A p \in Promoters :
       ppc[p] \in {"marking", "checking", "loading", "publishing"} => everPublic
  /\ QuarantineHolds

LEMMA AnalyserKeepsLane ==
  ASSUME TypeOK, Lane, "readVisibility" \notin Failures,
         NEW a \in Analysers, AnalyserStep(a)
  PROVE  Lane'
<1> USE DEF Lane, TypeOK, IsPublic, QuarantineHolds, database, promotion, events,
        past, AnalyserGoes
<1>1. CASE AnalyserTake(a) BY <1>1 DEF AnalyserTake
<1>2. CASE AnalyserSave(a) BY <1>2 DEF AnalyserSave
<1>3. CASE AnalyserGiveUp(a) BY <1>3 DEF AnalyserGiveUp
<1>4. ASSUME NEW l \in Languages, AnalyserTranslate(a, l) PROVE Lane'
  BY <1>4 DEF AnalyserTranslate
<1>5. CASE AnalyserReadVisibility(a)
  <2>1. \A b \in Analysers : apc'[b] = "publishing" => everPublic
    BY <1>5 DEF AnalyserReadVisibility, Publishable, Fails
  <2>2. QED
    BY <1>5, <2>1 DEF AnalyserReadVisibility
<1>6. CASE AnalyserPublish(a) BY <1>6 DEF AnalyserPublish
<1>7. CASE AnalyserMark(a) BY <1>7 DEF AnalyserMark
<1>8. CASE AnalyserAck(a) BY <1>8 DEF AnalyserAck
<1>9. QED
  BY <1>1, <1>2, <1>3, <1>4, <1>5, <1>6, <1>7, <1>8 DEF AnalyserStep

LEMMA PromoterKeepsLane ==
  ASSUME TypeOK, Lane, NEW p \in Promoters, PromoteAsk(p) \/ PromoterStep(p)
  PROVE  Lane'
<1> USE DEF Lane, TypeOK, IsPublic, QuarantineHolds, database, analysis, events,
        past, PromoterGoes
<1>1. CASE PromoteAsk(p) BY <1>1 DEF PromoteAsk
<1>2. CASE PromoteRead(p) BY <1>2 DEF PromoteRead
<1>3. CASE PromoteUpdate(p)
  <2>1. CASE everPublic' = (everPublic \/ want[p] = "public") /\ want[p] = "public"
    <3>1. everPublic'
      BY <2>1, Zenon
    <3>2. QED
      BY <3>1, Zenon DEF Lane, QuarantineHolds
  <2>2. CASE /\ row' = want[p]
             /\ everPublic' = (everPublic \/ want[p] = "public")
             /\ want[p] # "public"
    <3>1. everPublic => everPublic'
      BY <2>2, Zenon
    <3>2. ppc'[p] = "idle" /\ \A q \in Promoters \ {p} : ppc'[q] = ppc[q]
      BY <1>3, <2>2 DEF PromoteUpdate
    <3>3. VisibilityOf(row') # "public"
      BY <2>2 DEF VisibilityOf, Visibilities
    <3>4. QED
      BY <1>3, <3>1, <3>2, <3>3 DEF PromoteUpdate
  <2>3. CASE UNCHANGED <<row, past>> /\ PromoterGoes(p, "idle")
    BY <1>3, <2>3 DEF PromoteUpdate
  <2>4. QED
    BY <1>3, <2>1, <2>2, <2>3 DEF PromoteUpdate
<1>4. CASE PromoteMark(p) BY <1>4 DEF PromoteMark
<1>5. CASE PromoteCheck(p) BY <1>5 DEF PromoteCheck
<1>6. CASE PromoteLoad(p) BY <1>6 DEF PromoteLoad
<1>7. CASE PromotePublish(p) BY <1>7 DEF PromotePublish
<1>8. CASE PromoteRecord(p) BY <1>8 DEF PromoteRecord
<1>9. QED
  BY <1>1, <1>2, <1>3, <1>4, <1>5, <1>6, <1>7, <1>8 DEF PromoterStep

\* As long as the visibility can be read, no event is published for a report
\* that has never been public, whatever else fails and however the analysers
\* and the promotion requests interleave.
THEOREM LaneHolds ==
  ASSUME "readVisibility" \notin Failures
  PROVE  Spec => []QuarantineHolds
<1>1. Init => Lane
  BY Zenon DEF Init, Lane, IsPublic, QuarantineHolds
<1>2. TypeOK /\ Lane /\ [Next]_vars => Lane'
  <2> SUFFICES ASSUME TypeOK, Lane, [Next]_vars PROVE Lane'
    OBVIOUS
  <2>1. ASSUME NEW a \in Analysers, AnalyserStep(a) PROVE Lane'
    BY <2>1, AnalyserKeepsLane
  <2>2. ASSUME NEW p \in Promoters, PromoteAsk(p) \/ PromoterStep(p) PROVE Lane'
    BY <2>2, PromoterKeepsLane
  <2>3. CASE AnalyserCrash
    BY <2>3 DEF AnalyserCrash, Lane, IsPublic, QuarantineHolds, database, promotion,
                events, past
  <2>4. CASE ListenerCrash
    BY <2>4 DEF ListenerCrash, Lane, IsPublic, QuarantineHolds, database, analysis,
                events, past
  <2>5. CASE UNCHANGED vars
    BY <2>5 DEF vars, Lane, IsPublic, QuarantineHolds, database, analysis, promotion,
                events, past
  <2>6. QED
    BY <2>1, <2>2, <2>3, <2>4, <2>5 DEF Next
<1>3. Lane => QuarantineHolds
  BY DEF Lane
<1>4. QED
  BY <1>1, <1>2, <1>3, TypeCorrect, PTL DEF Spec

-----------------------------------------------------------------------------
(* Promotions publish no more events than requests overlap. *)

Recording == RequestsAt({"recording"})
Publishing == RequestsAt({"loading", "publishing"})

\* Until the publishing is recorded, each event was published by a request that
\* is about to record it, or could not be recorded; and a request that may still
\* publish one has published none yet.
OnceInv ==
  /\ ~marked => republished = Cardinality(Recording) + unrecorded
  /\ republished + Cardinality(Publishing) <= crowd + unrecorded
  /\ Cardinality(UnderWay) <= crowd

\* A step of a request that is under way: it may go on to publish only while no
\* publication is recorded, and it records its own or counts as unrecorded.
LEMMA OnceMove ==
  ASSUME TypeOK, TypeOK', OnceInv, NEW p \in Promoters, NEW point,
         PromoterGoes(p, point), ppc[p] # "idle", crowd' = crowd,
         marked => marked',
         IF ppc[p] = "recording"
           THEN point = "idle" /\ (marked' \/ unrecorded' = unrecorded + 1)
                /\ unrecorded' >= unrecorded
           ELSE marked' = marked /\ unrecorded' = unrecorded,
         point = "loading" => ppc[p] = "checking" /\ ~marked,
         point = "publishing" => ppc[p] = "loading",
         IF point = "recording"
           THEN ppc[p] = "publishing" /\ republished' = republished + 1
           ELSE republished' = republished
  PROVE  OnceInv'
<1> DEFINE R == Recording
           L == Publishing
           U == UnderWay
<1>1. /\ IsFiniteSet(R) /\ Cardinality(R) \in Nat
      /\ IsFiniteSet(L) /\ Cardinality(L) \in Nat
      /\ IsFiniteSet(U) /\ Cardinality(U) \in Nat
  BY PointsFinite DEF Recording, Publishing
<1>2. ppc'[p] = point /\ \A q \in Promoters \ {p} : ppc'[q] = ppc[q]
  BY DEF PromoterGoes, TypeOK
<1>3. Recording' = IF point = "recording" THEN R \cup {p} ELSE R \ {p}
  BY <1>2 DEF Recording, RequestsAt
<1>4. Publishing' = IF point \in {"loading", "publishing"} THEN L \cup {p} ELSE L \ {p}
  BY <1>2 DEF Publishing, RequestsAt
<1>5. UnderWay' \in SUBSET U
  BY <1>2 DEF UnderWay
<1>6. /\ p \in R <=> ppc[p] = "recording"
      /\ p \in L <=> ppc[p] \in {"loading", "publishing"}
  BY DEF Recording, Publishing, RequestsAt
<1>7. /\ ~marked => republished = Cardinality(R) + unrecorded
      /\ republished + Cardinality(L) <= crowd + unrecorded
      /\ Cardinality(U) <= crowd
  BY DEF OnceInv
<1>8. \A T : IsFiniteSet(T) =>
        /\ Cardinality(T \cup {p}) = IF p \in T THEN Cardinality(T) ELSE Cardinality(T) + 1
        /\ Cardinality(T \ {p}) = IF p \in T THEN Cardinality(T) - 1 ELSE Cardinality(T)
  BY FS_AddElement, FS_RemoveElement
<1>9. Cardinality(UnderWay)' <= crowd'
  <2>1. IsFiniteSet(UnderWay') /\ Cardinality(UnderWay') <= Cardinality(U)
    BY <1>1, <1>5, FS_Subset
  <2>2. Cardinality(UnderWay') \in Nat
    BY <2>1, FS_CardinalityType
  <2>3. QED
    BY <1>1, <1>7, <2>1, <2>2 DEF TypeOK
<1>10. /\ republished \in Nat /\ unrecorded \in Nat /\ crowd \in Nat
       /\ republished' \in Nat /\ unrecorded' \in Nat /\ crowd' = crowd
  BY DEF TypeOK
<1>11. CASE point = "loading"
  <2>1. p \notin R /\ p \notin L /\ ~marked /\ ppc[p] # "recording"
    BY <1>6, <1>11
  <2>2. Recording' = R /\ Publishing' = L \cup {p}
    BY <1>3, <1>4, <1>11, <2>1
  <2>3. Cardinality(R) + Cardinality(L) + 1 <= Cardinality(U)
    <3>1. IsFiniteSet(R \cup L) /\ Cardinality(R \cup L) = Cardinality(R) + Cardinality(L)
      <4>1. R \cap L = {}
        BY DEF Recording, Publishing, RequestsAt
      <4>2. Cardinality(R \cap L) = 0
        BY <4>1, FS_EmptySet
      <4>3. /\ IsFiniteSet(R \cup L)
            /\ Cardinality(R \cup L) = Cardinality(R) + Cardinality(L) - Cardinality(R \cap L)
        BY <1>1, FS_Union, Zenon
      <4>4. QED
        BY <1>1, <4>2, <4>3
    <3>2. Cardinality((R \cup L) \cup {p}) = Cardinality(R \cup L) + 1
      BY <1>8, <2>1, <3>1
    <3>3. (R \cup L) \cup {p} \in SUBSET U
      BY DEF Recording, Publishing, RequestsAt, UnderWay
    <3>4. Cardinality((R \cup L) \cup {p}) <= Cardinality(U)
      BY <1>1, <3>3, FS_Subset
    <3>5. QED
      BY <3>1, <3>2, <3>4
  <2>4. Cardinality(Recording') = Cardinality(R) /\ Cardinality(Publishing') = Cardinality(L) + 1
    BY <1>1, <1>8, <2>1, <2>2
  <2>5. republished' = republished /\ unrecorded' = unrecorded
    BY <1>11, <2>1
  <2>6. QED
    BY <1>1, <1>7, <1>9, <1>10, <2>1, <2>3, <2>4, <2>5 DEF OnceInv
<1>12. CASE point = "publishing"
  <2>1. ppc[p] = "loading"
    BY <1>12
  <2>2. Recording' = R /\ Publishing' = L
    BY <1>3, <1>4, <1>6, <1>12, <2>1
  <2>3. republished' = republished /\ unrecorded' = unrecorded /\ marked' = marked
    BY <1>12, <2>1
  <2>4. /\ Cardinality(Recording)' = Cardinality(R)
        /\ Cardinality(Publishing)' = Cardinality(L)
    BY <2>2
  <2>5. QED
    BY <1>1, <1>7, <1>9, <1>10, <2>3, <2>4 DEF OnceInv
<1>13. CASE point = "recording"
  <2>1. p \notin R /\ p \in L /\ ppc[p] = "publishing"
    BY <1>6, <1>13
  <2>2. Recording' = R \cup {p} /\ Publishing' = L \ {p}
    BY <1>3, <1>4, <1>13
  <2>3. /\ Cardinality(Recording)' = Cardinality(R) + 1
        /\ Cardinality(Publishing)' = Cardinality(L) - 1
    BY <1>1, <1>8, <2>1, <2>2
  <2>4. republished' = republished + 1 /\ unrecorded' = unrecorded
    BY <1>13, <2>1
  <2>5. ~marked' => ~marked
    BY Zenon
  <2>6. ~marked' => republished' = Cardinality(Recording)' + unrecorded'
    BY <1>1, <1>7, <1>10, <2>3, <2>4, <2>5
  <2>7. republished' + Cardinality(Publishing)' <= crowd' + unrecorded'
    BY <1>1, <1>7, <1>10, <2>3, <2>4
  <2>8. QED
    BY <1>9, <2>6, <2>7 DEF OnceInv
<1>14. CASE point \notin {"loading", "publishing", "recording"}
  <2>1. Recording' = R \ {p} /\ Publishing' = L \ {p} /\ republished' = republished
    BY <1>3, <1>4, <1>14
  <2>2. /\ Cardinality(Recording') = IF p \in R THEN Cardinality(R) - 1 ELSE Cardinality(R)
        /\ Cardinality(Publishing') = IF p \in L THEN Cardinality(L) - 1 ELSE Cardinality(L)
    BY <1>1, <1>8, <2>1
  <2>3. CASE ppc[p] = "recording"
    <3>1. marked' \/ unrecorded' = unrecorded + 1
      BY <2>3
    <3>2. ~marked' => ~marked
      BY Zenon
    <3>3. p \in R /\ unrecorded' >= unrecorded
      BY <1>6, <2>3
    <3>4. QED
      BY <1>1, <1>7, <1>9, <1>10, <2>1, <2>2, <3>1, <3>2, <3>3 DEF OnceInv
  <2>4. CASE ppc[p] # "recording"
    <3>1. p \notin R /\ unrecorded' = unrecorded /\ marked' = marked
      BY <1>6, <2>4
    <3>2. QED
      BY <1>1, <1>7, <1>9, <1>10, <2>1, <2>2, <3>1 DEF OnceInv
  <2>5. QED
    BY <2>3, <2>4
<1>15. QED
  BY <1>11, <1>12, <1>13, <1>14

LEMMA OnceKept ==
  ASSUME OnceInv, UNCHANGED <<ppc, republished, unrecorded, crowd>>, ~marked' => ~marked
  PROVE  OnceInv'
BY DEF OnceInv, Recording, Publishing, RequestsAt, UnderWay

\* A request that comes is counted.
LEMMA AskKeepsOnce ==
  ASSUME TypeOK, OnceInv, NEW p \in Promoters, PromoteAsk(p)
  PROVE  OnceInv'
<1>1. ppc[p] = "idle" /\ ppc' = [ppc EXCEPT ![p] = "reading"]
  BY DEF PromoteAsk, PromoterGoes
<1>2. ppc'[p] = "reading" /\ \A q \in Promoters \ {p} : ppc'[q] = ppc[q]
  BY <1>1 DEF TypeOK
<1>3. Recording' = Recording /\ Publishing' = Publishing
  BY <1>1, <1>2 DEF Recording, Publishing, RequestsAt
<1>4. /\ Cardinality(Recording) \in Nat /\ Cardinality(Publishing) \in Nat
      /\ Cardinality(UnderWay') \in Nat
  <2>1. UnderWay' \in SUBSET Promoters
    BY DEF UnderWay
  <2>2. Cardinality(UnderWay') \in Nat
    BY <2>1, ConstantsAssumption, FS_Subset, FS_CardinalityType
  <2>3. QED
    BY <2>2, PointsFinite DEF Recording, Publishing
<1>5. crowd' = IF Cardinality(UnderWay') > crowd THEN Cardinality(UnderWay') ELSE crowd
  BY DEF PromoteAsk
<1>6. UNCHANGED <<marked, republished, unrecorded>>
  BY DEF PromoteAsk, database, events
<1>7. crowd \in Nat /\ republished \in Nat /\ unrecorded \in Nat
  BY DEF TypeOK
<1>8. crowd' >= crowd /\ crowd' >= Cardinality(UnderWay') /\ crowd' \in Nat
  BY <1>4, <1>5, <1>7
<1>9. Cardinality(UnderWay)' <= crowd'
  BY <1>4, <1>8
<1>10. /\ Cardinality(Recording)' = Cardinality(Recording)
       /\ Cardinality(Publishing)' = Cardinality(Publishing)
  BY <1>3
<1>11. QED
  BY <1>4, <1>6, <1>7, <1>8, <1>9, <1>10 DEF OnceInv

LEMMA PromoterKeepsOnce ==
  ASSUME TypeOK, TypeOK', OnceInv, NEW p \in Promoters, PromoteAsk(p) \/ PromoterStep(p)
  PROVE  OnceInv'
<1> USE DEF database, analysis, events, past
<1>1. CASE PromoteAsk(p)
  BY <1>1, AskKeepsOnce
<1>2. CASE PromoteRead(p)
  BY <1>2, OnceMove DEF PromoteRead
<1>3. CASE PromoteUpdate(p)
  <2>1. \E point \in {"idle", "marking", "checking"} : PromoterGoes(p, point)
    BY <1>3 DEF PromoteUpdate
  <2>2. ppc[p] = "updating" /\ UNCHANGED <<marked, republished, unrecorded, crowd>>
    BY <1>3 DEF PromoteUpdate
  <2>3. QED
    BY <2>1, <2>2, OnceMove
<1>4. CASE PromoteMark(p)
  BY <1>4, OnceMove DEF PromoteMark
<1>5. CASE PromoteCheck(p)
  <2>1. CASE PromoterGoes(p, "loading") /\ ~marked
    BY <1>5, <2>1, OnceMove DEF PromoteCheck
  <2>2. CASE PromoterGoes(p, "idle")
    BY <1>5, <2>2, OnceMove DEF PromoteCheck
  <2>3. QED
    BY <1>5, <2>1, <2>2 DEF PromoteCheck, Due
<1>6. CASE PromoteLoad(p)
  <2>1. ppc[p] = "loading" /\ UNCHANGED <<marked, republished, unrecorded, crowd>>
    BY <1>6 DEF PromoteLoad
  <2>2. CASE PromoterGoes(p, "publishing")
    BY <2>1, <2>2, OnceMove
  <2>3. CASE PromoterGoes(p, "idle")
    BY <2>1, <2>3, OnceMove
  <2>4. QED
    BY <1>6, <2>2, <2>3 DEF PromoteLoad
<1>7. CASE PromotePublish(p)
  <2>1. ppc[p] = "publishing" /\ UNCHANGED <<marked, unrecorded, crowd>>
    BY <1>7 DEF PromotePublish
  <2>2. CASE PromoterGoes(p, "recording") /\ republished' = republished + 1
    BY <2>1, <2>2, OnceMove
  <2>3. CASE PromoterGoes(p, "idle") /\ republished' = republished
    BY <2>1, <2>3, OnceMove
  <2>4. QED
    BY <1>7, <2>2, <2>3 DEF PromotePublish
<1>8. CASE PromoteRecord(p)
  <2>1. marked' \/ unrecorded' = unrecorded + 1
    BY <1>8, Zenon DEF PromoteRecord
  <2>2. marked => marked'
    <3>1. CASE marked' = TRUE
      BY <3>1
    <3>2. CASE UNCHANGED marked
      BY <3>2
    <3>3. QED
      BY <1>8, <3>1, <3>2 DEF PromoteRecord
  <2>3. unrecorded' >= unrecorded
    BY <1>8 DEF PromoteRecord, TypeOK
  <2>4. QED
    BY <1>8, <2>1, <2>2, <2>3, OnceMove DEF PromoteRecord
<1>9. QED
  BY <1>1, <1>2, <1>3, <1>4, <1>5, <1>6, <1>7, <1>8 DEF PromoterStep

LEMMA AnalyserKeepsOnce ==
  ASSUME TypeOK, OnceInv, NEW a \in Analysers, AnalyserStep(a)
  PROVE  OnceInv'
<1> USE DEF database, promotion, events, past
<1>1. CASE AnalyserTake(a) BY <1>1, OnceKept DEF AnalyserTake
<1>2. CASE AnalyserSave(a) BY <1>2, OnceKept DEF AnalyserSave
<1>3. CASE AnalyserGiveUp(a) BY <1>3, OnceKept DEF AnalyserGiveUp
<1>4. ASSUME NEW l \in Languages, AnalyserTranslate(a, l) PROVE OnceInv'
  BY <1>4, OnceKept DEF AnalyserTranslate
<1>5. CASE AnalyserReadVisibility(a) BY <1>5, OnceKept DEF AnalyserReadVisibility
<1>6. CASE AnalyserPublish(a) BY <1>6, OnceKept DEF AnalyserPublish
<1>7. CASE AnalyserMark(a)
  <2>1. ~marked' => ~marked
    BY <1>7, Zenon DEF AnalyserMark
  <2>2. QED
    BY <1>7, <2>1, OnceKept DEF AnalyserMark
<1>8. CASE AnalyserAck(a) BY <1>8, OnceKept DEF AnalyserAck
<1>9. QED
  BY <1>1, <1>2, <1>3, <1>4, <1>5, <1>6, <1>7, <1>8 DEF AnalyserStep

\* With the listener die the requests that were about to record an event.
LEMMA ListenerCrashKeepsOnce ==
  ASSUME TypeOK, OnceInv, ListenerCrash
  PROVE  OnceInv'
<1>1. Recording' = {} /\ Publishing' = {} /\ UnderWay' = {}
  BY DEF ListenerCrash, Recording, Publishing, RequestsAt, UnderWay
<1>2. Cardinality({}) = 0
  BY FS_EmptySet
<1>3. Cardinality(Recording) \in Nat /\ Cardinality(Publishing) \in Nat
  BY PointsFinite DEF Recording, Publishing
<1>4. /\ unrecorded' = unrecorded + Cardinality(Recording)
      /\ UNCHANGED <<marked, republished, crowd>>
  BY DEF ListenerCrash, Recording, database
<1>5. /\ Cardinality(Recording)' = 0 /\ Cardinality(Publishing)' = 0
      /\ Cardinality(UnderWay)' = 0
  BY <1>1, <1>2
<1>6. crowd \in Nat /\ republished \in Nat /\ unrecorded \in Nat
  BY DEF TypeOK
<1>7. QED
  BY <1>3, <1>4, <1>5, <1>6 DEF OnceInv

\* However many requests overlap and whatever fails, promotions publish no more
\* events for a report than there were requests under way at once, and one for each
\* event that was not recorded.
THEOREM PublishesPerOverlap == Spec => []PublishedOncePerOverlap
<1>1. Init => OnceInv
  <2> SUFFICES ASSUME Init PROVE OnceInv
    OBVIOUS
  <2>1. /\ Recording = {} /\ Publishing = {} /\ UnderWay = {}
        /\ republished = 0 /\ unrecorded = 0 /\ crowd = 0
    BY DEF Init, Recording, Publishing, RequestsAt, UnderWay
  <2>2. Cardinality({}) = 0
    BY FS_EmptySet
  <2>3. QED
    BY <2>1, <2>2 DEF OnceInv
<1>2. TypeOK /\ TypeOK' /\ OnceInv /\ [Next]_vars => OnceInv'
  <2> SUFFICES ASSUME TypeOK, TypeOK', OnceInv, [Next]_vars PROVE OnceInv'
    OBVIOUS
  <2>1. ASSUME NEW a \in Analysers, AnalyserStep(a) PROVE OnceInv'
    BY <2>1, AnalyserKeepsOnce
  <2>2. ASSUME NEW p \in Promoters, PromoteAsk(p) \/ PromoterStep(p) PROVE OnceInv'
    BY <2>2, PromoterKeepsOnce
  <2>3. CASE AnalyserCrash
    BY <2>3, OnceKept DEF AnalyserCrash, database, promotion, events
  <2>4. CASE ListenerCrash
    BY <2>4, ListenerCrashKeepsOnce
  <2>5. CASE UNCHANGED vars
    BY <2>5, OnceKept DEF vars, database, promotion, events
  <2>6. QED
    BY <2>1, <2>2, <2>3, <2>4, <2>5 DEF Next
<1>3. TypeOK /\ OnceInv => PublishedOncePerOverlap
  <2> SUFFICES ASSUME TypeOK, OnceInv PROVE PublishedOncePerOverlap
    OBVIOUS
  <2>1. Cardinality(Publishing) \in Nat
    BY PointsFinite DEF Publishing
  <2>2. QED
    BY <2>1 DEF OnceInv, TypeOK, PublishedOncePerOverlap
<1>4. QED
  BY <1>1, <1>2, <1>3, TypeCorrect, PTL DEF Spec

-----------------------------------------------------------------------------
(* A public report is published in full. *)

\* None of the failures that nothing makes up for happens: a translation that is
\* skipped, an event of the analysis that is only logged, a promotion that takes
\* the report to be public already.
Reliable == Failures \cap {"translate", "analyserPublish", "readPrevious"} = {}

\* An analyser that has finished has saved, and published, every analysis.
AnalysisInv ==
  /\ \A a \in Analysers :
       /\ apc[a] = "translating" =>
            got[a] \cup todo[a] = Languages /\ got[a] \subseteq rows
       /\ apc[a] = "publishing" => got[a] = Languages
       /\ apc[a] \in {"publishing", "marking", "acking"} => rows = Languages
       /\ apc[a] = "marking" => Languages \in published
  /\ raw = Acked => rows = Languages

\* What a promotion has seen or made public has been public, and is, unless it
\* was taken back.
PublicInv ==
  /\ IsPublic => everPublic
  /\ everPublic => IsPublic \/ takenBack
  /\ \A p \in Promoters :
       /\ ppc[p] \in {"marking", "checking", "loading", "publishing", "recording"} =>
            everPublic
       /\ ppc[p] = "updating" /\ prev[p] = "public" => IsPublic \/ takenBack
  /\ marked => everPublic \/ Languages \in published

\* The analyser that owns the message has nothing left to publish.
Settled == raw = Acked \/ \E a \in Analysers : raw = a /\ apc[a] = "acking"

\* Then the publishing is left to promotions: one will find that it is due, and
\* one is under way unless the last one failed.
Left ==
  /\ row # "none"
  /\ ~marked
  /\ \A p \in Promoters :
       /\ ppc[p] # "recording"
       /\ ppc[p] = "publishing" => loaded[p] = Languages
  /\ IsPublic => promoted \/ \E p \in Promoters : ppc[p] = "marking"
  /\ IsPublic => postponed \/ \E p \in Promoters : ppc[p] # "idle"

LeftInv ==
  Settled /\ Languages \notin published /\ ~takenBack /\ ~forgotten => Left

LEMMA SettledFull ==
  ASSUME AnalysisInv, Settled
  PROVE  rows = Languages
BY DEF AnalysisInv, Settled

LEMMA AnalyserKeepsAnalysis ==
  ASSUME TypeOK, AnalysisInv, Reliable, NEW a \in Analysers, AnalyserStep(a)
  PROVE  AnalysisInv'
<1> USE ConstantsAssumption DEF AnalysisInv, TypeOK, Reliable, database, AnalyserGoes
<1>1. CASE AnalyserTake(a) BY <1>1 DEF AnalyserTake, events
<1>2. CASE AnalyserSave(a) BY <1>2 DEF AnalyserSave, events
<1>3. CASE AnalyserGiveUp(a) BY <1>3 DEF AnalyserGiveUp, events
<1>4. ASSUME NEW l \in Languages, AnalyserTranslate(a, l) PROVE AnalysisInv'
  <2>1. /\ rows' = rows \cup {l}
        /\ got' = [got EXCEPT ![a] = @ \cup {l}]
        /\ todo' = [todo EXCEPT ![a] = @ \ {l}]
        /\ apc[a] = "translating"
        /\ UNCHANGED <<raw, apc, published>>
    BY <1>4 DEF AnalyserTranslate, Fails, events
  <2>2. rows = Languages => rows' = Languages
    BY <2>1
  <2>3. got'[a] \cup todo'[a] = got[a] \cup todo[a] \cup {l} /\ got'[a] = got[a] \cup {l}
    BY <2>1
  <2>4. got'[a] \cup todo'[a] = Languages /\ got'[a] \subseteq rows'
    BY <2>1, <2>3
  <2>5. \A b \in Analysers \ {a} :
          got'[b] = got[b] /\ todo'[b] = todo[b] /\ (got[b] \subseteq rows => got'[b] \subseteq rows')
    BY <2>1
  <2>6. QED
    BY <2>1, <2>2, <2>4, <2>5
<1>5. CASE AnalyserReadVisibility(a)
  <2>0. apc[a] = "translating" /\ todo[a] = {} /\ got[a] \cup todo[a] = Languages
    BY <1>5 DEF AnalyserReadVisibility
  <2>1. apc[a] = "translating" /\ todo[a] = {} /\ got[a] = Languages /\ rows = Languages
    <3>1. got[a] = Languages
      BY <2>0
    <3>2. got[a] \subseteq rows /\ rows \subseteq Languages
      BY <2>0
    <3>3. rows = Languages
      BY ONLY <3>1, <3>2
    <3>4. QED
      BY ONLY <2>0, <3>1, <3>3
  <2>2. apc'[a] \in {"publishing", "acking"} /\ \A b \in Analysers \ {a} : apc'[b] = apc[b]
    BY <1>5 DEF AnalyserReadVisibility
  <2>3. QED
    BY <1>5, <2>1, <2>2 DEF AnalyserReadVisibility, events
<1>6. CASE AnalyserPublish(a) BY <1>6 DEF AnalyserPublish, Fails
<1>7. CASE AnalyserMark(a) BY <1>7 DEF AnalyserMark, events
<1>8. CASE AnalyserAck(a) BY <1>8 DEF AnalyserAck, events
<1>9. QED
  BY <1>1, <1>2, <1>3, <1>4, <1>5, <1>6, <1>7, <1>8 DEF AnalyserStep

\* Requests leave the analysis alone, and only add events.
LEMMA PromoterKeepsAnalysis ==
  ASSUME AnalysisInv, NEW p \in Promoters, PromoteAsk(p) \/ PromoterStep(p)
  PROVE  AnalysisInv'
<1>1. UNCHANGED <<rows, analysis>> /\ published \subseteq published'
  BY DEF PromoterStep, PromoteAsk, PromoteRead, PromoteUpdate, PromoteMark, PromoteCheck,
         PromoteLoad, PromotePublish, PromoteRecord, database, events
<1>2. QED
  BY <1>1 DEF AnalysisInv, analysis

LEMMA AnalyserKeepsPublic ==
  ASSUME TypeOK, AnalysisInv, PublicInv, NEW a \in Analysers, AnalyserStep(a)
  PROVE  PublicInv'
<1>1. UNCHANGED <<row, promotion, past>> /\ published \subseteq published'
  BY DEF AnalyserStep, AnalyserTake, AnalyserSave, AnalyserGiveUp, AnalyserTranslate,
         AnalyserReadVisibility, AnalyserPublish, AnalyserMark, AnalyserAck, database, events
<1>2. marked' => marked \/ Languages \in published
  <2>1. CASE AnalyserMark(a)
    BY <2>1 DEF AnalyserMark, AnalysisInv
  <2>2. CASE ~AnalyserMark(a)
    BY <2>2 DEF AnalyserStep, AnalyserTake, AnalyserSave, AnalyserGiveUp, AnalyserTranslate,
           AnalyserReadVisibility, AnalyserPublish, AnalyserAck, database
  <2>3. QED
    BY <2>1, <2>2
<1>3. QED
  BY <1>1, <1>2 DEF PublicInv, IsPublic, VisibilityOf, promotion, past

LEMMA PromoterKeepsPublic ==
  ASSUME TypeOK, PublicInv, Reliable, NEW p \in Promoters, PromoteAsk(p) \/ PromoterStep(p)
  PROVE  PublicInv'
<1> USE DEF PublicInv, TypeOK, IsPublic, Reliable, database, events, past, PromoterGoes
<1>1. CASE PromoteAsk(p) BY <1>1 DEF PromoteAsk
<1>2. CASE PromoteRead(p) BY <1>2 DEF PromoteRead, Fails, Previous
<1>3. CASE PromoteUpdate(p)
  <2>1. CASE /\ row' = want[p]
             /\ everPublic' = (everPublic \/ want[p] = "public")
             /\ takenBack' = (takenBack \/ (everPublic /\ want[p] # "public"))
             /\ want[p] = "public"
    <3>1. everPublic' /\ VisibilityOf(row') = "public" /\ published' = published
      BY <1>3, <2>1, Zenon DEF VisibilityOf, PromoteUpdate
    <3>2. QED
      BY <3>1, Zenon
  <2>2. CASE /\ row' = want[p]
             /\ everPublic' = (everPublic \/ want[p] = "public")
             /\ takenBack' = (takenBack \/ (everPublic /\ want[p] # "public"))
             /\ want[p] # "public"
             /\ PromoterGoes(p, "idle")
    <3>1. (everPublic' <=> everPublic) /\ (takenBack' <=> takenBack \/ everPublic)
      BY <2>2, Zenon
    <3>2. ppc'[p] = "idle" /\ \A q \in Promoters \ {p} : ppc'[q] = ppc[q]
      BY <2>2
    <3>3. VisibilityOf(row') # "public"
      BY <2>2 DEF VisibilityOf, Visibilities
    <3>4. \A q \in Promoters :
            ppc[q] = "updating" /\ prev[q] = "public" => takenBack'
      BY <3>1
    <3>5. UNCHANGED <<prev, published, marked>>
      BY <1>3 DEF PromoteUpdate
    <3>6. QED
      BY <3>1, <3>2, <3>3, <3>4, <3>5
  <2>3. CASE UNCHANGED <<row, past>> /\ PromoterGoes(p, "idle")
    BY <1>3, <2>3 DEF PromoteUpdate
  <2>4. QED
    BY <1>3, <2>1, <2>2, <2>3 DEF PromoteUpdate
<1>4. CASE PromoteMark(p) BY <1>4 DEF PromoteMark
<1>5. CASE PromoteCheck(p)
  <2>1. everPublic
    BY <1>5 DEF PromoteCheck
  <2>2. ppc'[p] \in {"loading", "idle"} /\ \A q \in Promoters \ {p} : ppc'[q] = ppc[q]
    BY <1>5 DEF PromoteCheck
  <2>3. QED
    BY <1>5, <2>1, <2>2 DEF PromoteCheck
<1>6. CASE PromoteLoad(p) BY <1>6 DEF PromoteLoad
<1>7. CASE PromotePublish(p) BY <1>7 DEF PromotePublish
<1>8. CASE PromoteRecord(p) BY <1>8 DEF PromoteRecord
<1>9. QED
  BY <1>1, <1>2, <1>3, <1>4, <1>5, <1>6, <1>7, <1>8 DEF PromoterStep

\* While an analyser owns the message and has not finished nothing is settled;
\* one that reads the visibility finishes only if the report is not public, and
\* was not before.
LEMMA AnalyserKeepsLeft ==
  ASSUME TypeOK, AnalysisInv, PublicInv, LeftInv, Reliable,
         NEW a \in Analysers, AnalyserStep(a)
  PROVE  LeftInv'
<1>0. UNCHANGED <<row, promoted, promotion, past>> /\ published \subseteq published'
  BY DEF AnalyserStep, AnalyserTake, AnalyserSave, AnalyserGiveUp, AnalyserTranslate,
         AnalyserReadVisibility, AnalyserPublish, AnalyserMark, AnalyserAck, database, events
<1>1. postponed' = postponed
  BY DEF AnalyserStep, AnalyserTake, AnalyserSave, AnalyserGiveUp, AnalyserTranslate,
         AnalyserReadVisibility, AnalyserPublish, AnalyserMark, AnalyserAck, Works, Fails,
         Postponing
<1> SUFFICES ASSUME Settled', Languages \notin published', ~takenBack', ~forgotten'
             PROVE  Left'
  BY DEF LeftInv
<1>2. Languages \notin published /\ ~takenBack /\ ~forgotten
  BY <1>0 DEF past
<1>3. marked' = marked
  BY <1>2 DEF AnalyserStep, AnalyserTake, AnalyserSave, AnalyserGiveUp, AnalyserTranslate,
         AnalyserReadVisibility, AnalyserPublish, AnalyserMark, AnalyserAck, database,
         AnalysisInv
<1>4. CASE Settled
  BY <1>0, <1>1, <1>2, <1>3, <1>4 DEF LeftInv, Left, promotion, IsPublic, VisibilityOf
<1>5. CASE ~Settled
  <2>1. raw = a /\ apc'[a] = "acking" /\ apc[a] # "acking"
    <3>1. raw' = Acked => raw = Acked \/ (raw = a /\ apc[a] = "acking")
      BY ConstantsAssumption DEF AnalyserStep, AnalyserTake, AnalyserSave, AnalyserGiveUp,
             AnalyserTranslate, AnalyserReadVisibility, AnalyserPublish, AnalyserMark,
             AnalyserAck
    <3>2. PICK b \in Analysers : raw' = b /\ apc'[b] = "acking"
      BY <1>5, <3>1 DEF Settled
    <3>3. \A c \in Analysers \ {a} : apc'[c] = apc[c]
      BY DEF AnalyserStep, AnalyserTake, AnalyserSave, AnalyserGiveUp, AnalyserTranslate,
             AnalyserReadVisibility, AnalyserPublish, AnalyserMark, AnalyserAck, AnalyserGoes,
             TypeOK
    <3>4. raw' = raw \/ (raw' = a /\ apc'[a] = "analysing")
      BY <3>2, ConstantsAssumption DEF AnalyserStep, AnalyserTake, AnalyserSave, AnalyserGiveUp,
             AnalyserTranslate, AnalyserReadVisibility, AnalyserPublish, AnalyserMark,
             AnalyserAck, AnalyserGoes, TypeOK
    <3>5. QED
      BY <1>5, <3>2, <3>3, <3>4 DEF Settled
  <2>2. AnalyserReadVisibility(a)
    BY <1>2, <2>1 DEF AnalyserStep, AnalyserTake, AnalyserSave, AnalyserGiveUp,
           AnalyserTranslate, AnalyserPublish, AnalyserMark,
           AnalyserAck, database, AnalyserGoes, TypeOK, AnalysisInv, Reliable, Fails
  <2>3. ~IsPublic
    BY <2>1, <2>2 DEF AnalyserReadVisibility, AnalyserGoes, Publishable, TypeOK, IsPublic
  <2>4. ~everPublic
    BY <1>2, <2>3 DEF PublicInv
  <2>5. row # "none" /\ ~marked
    BY <1>2, <2>3, <2>4 DEF PublicInv, IsPublic, VisibilityOf
  <2>6. \A p \in Promoters : ppc[p] \notin {"recording", "publishing"}
    BY <2>4 DEF PublicInv
  <2>7. QED
    BY <1>0, <1>1, <1>3, <2>3, <2>5, <2>6 DEF Left, promotion, IsPublic, VisibilityOf
<1>6. QED
  BY <1>4, <1>5

LEMMA PromoterKeepsLeft ==
  ASSUME TypeOK, AnalysisInv, PublicInv, LeftInv, Reliable,
         NEW p \in Promoters, PromoteAsk(p) \/ PromoterStep(p)
  PROVE  LeftInv'
<1>0. UNCHANGED <<rows, analysis>> /\ published \subseteq published'
      /\ (takenBack => takenBack') /\ (forgotten => forgotten')
  <2>1. UNCHANGED <<rows, analysis>> /\ published \subseteq published'
    BY DEF PromoterStep, PromoteAsk, PromoteRead, PromoteUpdate, PromoteMark, PromoteCheck,
           PromoteLoad, PromotePublish, PromoteRecord, database, events
  <2>2. takenBack => takenBack'
    BY Zenon DEF PromoterStep, PromoteAsk, PromoteRead, PromoteUpdate, PromoteMark, PromoteCheck,
           PromoteLoad, PromotePublish, PromoteRecord, past
  <2>3. forgotten => forgotten'
    BY Zenon DEF PromoterStep, PromoteAsk, PromoteRead, PromoteUpdate, PromoteMark, PromoteCheck,
           PromoteLoad, PromotePublish, PromoteRecord, past
  <2>4. QED
    BY <2>1, <2>2, <2>3
<1> SUFFICES ASSUME Settled', Languages \notin published', ~takenBack', ~forgotten'
             PROVE  Left'
  BY DEF LeftInv
<1>1. /\ Settled /\ Languages \notin published /\ ~takenBack /\ ~forgotten
      /\ rows = Languages /\ Left
  BY <1>0, SettledFull DEF LeftInv, Settled, analysis
<1> USE DEF Left, TypeOK, IsPublic, Reliable, database, events, past, PromoterGoes
<1>2. CASE PromoteAsk(p) BY <1>1, <1>2 DEF PromoteAsk
<1>3. CASE PromoteRead(p)
  <2>1. UNCHANGED <<row, promoted, marked, loaded, postponed>>
    BY <1>3 DEF PromoteRead, Fails, Works
  <2>2. ppc[p] = "reading" /\ ppc' = [ppc EXCEPT ![p] = "updating"]
    BY <1>3 DEF PromoteRead
  <2>3. QED
    BY <1>1, <2>1, <2>2
<1>4. CASE PromoteUpdate(p)
  <2>1. CASE row' = want[p] /\ Works /\ PromoterGoes(p, "marking")
    BY <1>1, <1>4, <2>1 DEF PromoteUpdate, Visibilities
  <2>2. CASE /\ row' = want[p] /\ Works /\ want[p] = "public" /\ prev[p] = "public"
             /\ PromoterGoes(p, "checking")
    <3>1. IsPublic
      BY <1>1, <1>4, <2>2 DEF PromoteUpdate, PublicInv
    <3>2. ppc[p] = "updating" /\ ppc' = [ppc EXCEPT ![p] = "checking"]
      BY <1>4, <2>2 DEF PromoteUpdate
    <3>3. QED
      BY <1>1, <1>4, <2>2, <3>1, <3>2 DEF PromoteUpdate
  <2>3. CASE row' = want[p] /\ Works /\ want[p] # "public" /\ PromoterGoes(p, "idle")
    <3>1. ~IsPublic' /\ row' # "none"
      BY <2>3 DEF VisibilityOf, Visibilities
    <3>2. QED
      BY <1>1, <1>4, <2>3, <3>1 DEF PromoteUpdate
  <2>4. CASE Fails("upsert") /\ UNCHANGED row /\ PromoterGoes(p, "idle")
    <3>1. postponed'
      BY <2>4, Zenon DEF Fails, Postponing
    <3>2. QED
      BY <1>1, <1>4, <2>4, <3>1 DEF PromoteUpdate
  <2>5. QED
    BY <1>4, <2>1, <2>2, <2>3, <2>4 DEF PromoteUpdate, Promotes
<1>5. CASE PromoteMark(p)
  <2>1. promoted'
    BY <1>5, Zenon DEF PromoteMark
  <2>2. QED
    BY <1>1, <1>5, <2>1 DEF PromoteMark
<1>6. CASE PromoteCheck(p)
  <2>1. CASE Works /\ PromoterGoes(p, "loading")
    BY <1>1, <1>6, <2>1 DEF PromoteCheck, Works
  <2>2. CASE Works /\ ~Due /\ PromoterGoes(p, "idle")
    <3>1. ~promoted
      BY <1>1, <2>2 DEF Due
    <3>2. IsPublic => \E q \in Promoters \ {p} : ppc[q] = "marking"
      BY <1>1, <1>6, <3>1 DEF PromoteCheck
    <3>3. QED
      BY <1>1, <1>6, <2>2, <3>2 DEF PromoteCheck
  <2>3. CASE Fails("check") /\ PromoterGoes(p, "idle")
    <3>1. postponed'
      BY <2>3, Zenon DEF Fails, Postponing
    <3>2. QED
      BY <1>1, <1>6, <2>3, <3>1 DEF PromoteCheck
  <2>4. QED
    BY <1>6, <2>1, <2>2, <2>3 DEF PromoteCheck
<1>7. CASE PromoteLoad(p)
  <2>1. CASE Works /\ loaded' = [loaded EXCEPT ![p] = rows] /\ PromoterGoes(p, "publishing")
    BY <1>1, <1>7, <2>1 DEF PromoteLoad, Works
  <2>2. CASE Fails("load") /\ PromoterGoes(p, "idle")
    <3>1. postponed'
      BY <2>2, Zenon DEF Fails, Postponing
    <3>2. QED
      BY <1>1, <1>7, <2>2, <3>1 DEF PromoteLoad
  <2>3. QED
    BY <1>1, <1>7, <2>1, <2>2, ConstantsAssumption DEF PromoteLoad
<1>8. CASE PromotePublish(p)
  <2>1. CASE Works /\ published' = published \cup {loaded[p]}
    BY <1>1, <1>8, <2>1 DEF PromotePublish, Works
  <2>2. CASE Fails("promoterPublish") /\ PromoterGoes(p, "idle")
    <3>1. postponed'
      BY <2>2, Zenon DEF Fails, Postponing
    <3>2. QED
      BY <1>1, <1>8, <2>2, <3>1 DEF PromotePublish
  <2>3. QED
    BY <1>8, <2>1, <2>2 DEF PromotePublish
<1>9. CASE PromoteRecord(p)
  BY <1>1, <1>9 DEF PromoteRecord
<1>10. QED
  BY <1>2, <1>3, <1>4, <1>5, <1>6, <1>7, <1>8, <1>9 DEF PromoterStep

LEMMA CrashesKeepFull ==
  ASSUME TypeOK, AnalysisInv, PublicInv, LeftInv, AnalyserCrash \/ ListenerCrash
  PROVE  AnalysisInv' /\ PublicInv' /\ LeftInv'
<1> USE DEF database, analysis, promotion, events, past
<1>1. CASE AnalyserCrash
  <2>1. AnalysisInv'
    BY <1>1, ConstantsAssumption DEF AnalyserCrash, AnalysisInv, TypeOK
  <2>2. PublicInv'
    BY <1>1 DEF AnalyserCrash, PublicInv, IsPublic
  <2>3. Settled' => Settled
    BY <1>1, ConstantsAssumption DEF AnalyserCrash, Settled
  <2>4. UNCHANGED postponed
    BY <1>1 DEF AnalyserCrash, Fails, Postponing
  <2>5. LeftInv'
    BY <1>1, <2>3, <2>4 DEF AnalyserCrash, LeftInv, Left, IsPublic
  <2>6. QED
    BY <2>1, <2>2, <2>5
<1>2. CASE ListenerCrash
  <2>1. AnalysisInv'
    BY <1>2 DEF ListenerCrash, AnalysisInv
  <2>2. PublicInv'
    BY <1>2 DEF ListenerCrash, PublicInv, IsPublic
  <2>3. postponed'
    BY <1>2, Zenon DEF ListenerCrash, Fails, Postponing
  <2>4. ~forgotten' => ~forgotten /\ \A p \in Promoters : ppc[p] # "marking"
    BY <1>2, Zenon DEF ListenerCrash
  <2>5. LeftInv'
    BY <1>2, <2>3, <2>4 DEF ListenerCrash, LeftInv, Left, IsPublic, Settled
  <2>6. QED
    BY <2>1, <2>2, <2>5
<1>3. QED
  BY <1>1, <1>2

\* However the analysers and the promotions interleave and whatever of the rest
\* fails, a report that is public in the end has been published with every
\* analysis: the analyser did, or a promotion is bound to.
THEOREM FullyPublished ==
  ASSUME Reliable
  PROVE  Spec => []PublishedInFull
<1> DEFINE Full == AnalysisInv /\ PublicInv /\ LeftInv
<1>1. Init => Full
  <2> SUFFICES ASSUME Init PROVE Full
    OBVIOUS
  <2>1. everPublic <=> IsPublic
    BY Zenon DEF Init, IsPublic
  <2>2. ~marked /\ raw = Queued
    BY Zenon DEF Init
  <2>3. QED
    BY <2>1, <2>2, ConstantsAssumption DEF Init, AnalysisInv, PublicInv, LeftInv, Settled
<1>2. TypeOK /\ Full /\ [Next]_vars => Full'
  <2> SUFFICES ASSUME TypeOK, Full, [Next]_vars PROVE Full'
    OBVIOUS
  <2>1. ASSUME NEW a \in Analysers, AnalyserStep(a) PROVE Full'
    BY <2>1, AnalyserKeepsAnalysis, AnalyserKeepsPublic, AnalyserKeepsLeft
  <2>2. ASSUME NEW p \in Promoters, PromoteAsk(p) \/ PromoterStep(p) PROVE Full'
    BY <2>2, PromoterKeepsAnalysis, PromoterKeepsPublic, PromoterKeepsLeft
  <2>3. CASE AnalyserCrash \/ ListenerCrash
    BY <2>3, CrashesKeepFull
  <2>4. CASE UNCHANGED vars
    BY <2>4 DEF vars, AnalysisInv, PublicInv, LeftInv, Left, Settled, IsPublic, VisibilityOf,
                database, analysis, promotion, events, past
  <2>5. QED
    BY <2>1, <2>2, <2>3, <2>4 DEF Next
<1>3. Full => PublishedInFull
  <2> SUFFICES ASSUME Full, Quiescent, IsPublic, ~takenBack, ~postponed, ~forgotten
               PROVE  rows \in published
    BY DEF PublishedInFull
  <2>1. Settled /\ rows = Languages
    BY DEF Quiescent, Settled, AnalysisInv
  <2>2. QED
    BY <2>1 DEF LeftInv, Left, Quiescent
<1>4. QED
  BY <1>1, <1>2, <1>3, TypeCorrect, PTL DEF Spec
=============================================================================
