-------------------------- MODULE EscalationProofs --------------------------
(***************************************************************************)
(* What holds of Escalation for any targets, people in copy, handlers and  *)
(* requests: what is recorded as sent was mailed, an action says what      *)
(* became of the mail to its own target, nobody is mailed who had opted    *)
(* out, and what is noted of an address agrees with the outcomes stored    *)
(* for it.                                                                 *)
(***************************************************************************)
EXTENDS Escalation, FiniteSetTheorems, SequenceTheorems, WellFoundedInduction, TLAPS

\* The handler of an escalation, up to the record of its deliveries.
Escalating == {"create", "mail", "send", "record"}
Numbering == {"mail", "send", "record"}

\* Each handler of an escalation has a request of its own; whoever is sent to is
\* still on the list, and the results are those of email-service.
AskedOf(j) ==
  /\ j.pc \in Escalating => j.req \in 1 .. requests
  /\ j.pc \notin Escalating => j.out = {}
  /\ j.pc \in Escalating => \A p \in Addresses : j.result[p] \in Results \cup {None}
  /\ j.pc \in {"send", "recall", "learn"} => j.to # <<>>

Asked == \A w \in Workers : AskedOf(job[w])

OwnRequest == \A v, w \in Workers :
  job[v].pc \in Escalating /\ job[w].pc \in Escalating /\ job[v].req = job[w].req => v = w

\* Requests are numbered: what is noted bears the number of one that came.
Numbers ==
  /\ \A a \in ActionIds : actions[a].req \in 1 .. requests
  /\ \A m \in mailed : m[1] \in 1 .. requests
  /\ \A w \in Workers : job[w].pc = "create" =>
       \A a \in ActionIds : actions[a].req # job[w].req

TypeInv == TypeOK /\ Asked
NumInv == TypeInv /\ OwnRequest /\ Numbers

\* What a handler holds as sent was mailed.
MailedOf(j) == j.pc \in Escalating =>
  \A p \in Addresses : j.result[p] = "sent" => <<j.req, p>> \in mailed

ResultMailed == \A w \in Workers : MailedOf(job[w])

\* The action that a handler holds for a target is the target's, and of the request.
HeldBy(j) == j.pc \in Numbering =>
  \A p \in Addresses : j.act[p] # 0 =>
    actions[j.act[p]].target = p /\ actions[j.act[p]].req = j.req

ActionOfTarget == \A w \in Workers : HeldBy(job[w])

\* Whoever is asked to be mailed is listed once; each action of the request is held for
\* its target, which is on the list still or has a result; and when the results are
\* recorded the list has been dealt with.
ListedOnce(j) == j.pc = "create" =>
  \A i, k \in 1 .. Len(j.to) : j.to[i] = j.to[k] => i = k

HoldsAll(j) == j.pc \in Numbering =>
  \A a \in ActionIds : actions[a].req = j.req =>
    /\ j.act[actions[a].target] = a
    /\ j.result[actions[a].target] # None \/ actions[a].target \in Range(j.to)

DealtWith(j) == j.pc = "record" => j.to = <<>>

TellsOf(j) == ListedOnce(j) /\ HoldsAll(j) /\ DealtWith(j)
TargetOfAction == \A w \in Workers : TellsOf(job[w])

\* Nobody is sent to who had opted out.
OutKnown == \A w \in Workers :
  /\ job[w].out \subseteq optedOut
  /\ job[w].pc = "send" => Head(job[w].to) \notin job[w].out

\* Each address a handler has outcomes of is on its list once, with a result.
LearningPcs == {"outcome", "recall", "learn"}
ListedOf(j) == j.pc \in LearningPcs =>
  /\ \A i, k \in 1 .. Len(j.to) : j.to[i] = j.to[k] => i = k
  /\ \A i \in 1 .. Len(j.to) : j.result[j.to[i]] # None

Listed == \A w \in Workers : ListedOf(job[w])

\* What is noted of p, as MemoryAgrees has it; a handler that has read the counts has
\* none greater than they are, and the same ones if it has p for itself; at an address
\* whose handlers never overlapped there is one at most, and it is at the latest outcome.
CountsAt(p, k) ==
  LET noted == unlearned[p][k] + Cardinality(Pending(p, k)) IN
  /\ memory[p][k] + noted <= outcomes[p][k]
  /\ outcomes[p][k] > noted => memory[p][k] > 0
  /\ p \notin overlapped => memory[p][k] + noted = outcomes[p][k]

KnownAt(p) == \A w \in Learning(p) : job[w].pc = "learn" => \A k \in Kinds :
  /\ job[w].known[k] <= memory[p][k]
  /\ p \notin overlapped => job[w].known[k] = memory[p][k]

AloneAt(p) == p \notin overlapped => \A v, w \in Learning(p) : v = w

LatestAt(p) == p \notin overlapped /\ unlearned[p] = NoOutcome =>
  /\ Learning(p) = {} => lastResult[p] = latest[p]
  /\ \A w \in Learning(p) : Finding(w) = latest[p]

AgreesAt(p) == (\A k \in Kinds : CountsAt(p, k)) /\ KnownAt(p) /\ AloneAt(p) /\ LatestAt(p)
MemInv == TypeInv /\ Listed /\ \A p \in Addresses : AgreesAt(p)

SentInv == TypeInv /\ ResultMailed /\ ActionOfTarget /\ SentIsMailed
TellsInv == NumInv /\ SentInv /\ TargetOfAction /\ ActionTellsItsOwn
OutInv == NumInv /\ OutKnown /\ OptOutHonoured

-----------------------------------------------------------------------------
(* Lists. *)

\* A set of numbers has a least one, so that what holds of 0 and of the successor of
\* any number of which it holds, holds of all.
LEMMA Least ==
  ASSUME NEW S \in SUBSET Nat, S # {}
  PROVE  \E n \in S : \A m \in S : n <= m
<1> DEFINE R == OpToRel(<, Nat)
<1>1. IsWellFoundedOn(R, Nat)
  BY NatLessThanWellFounded
<1>2. \A x, y \in Nat : y < x => <<y, x>> \in R
  BY DEF OpToRel
<1> HIDE DEF R
<1>3. PICK n \in S : \A m \in S : <<m, n>> \notin R
  BY <1>1, WFMin
<1>4. \A m \in S : ~(m < n)
  BY <1>2, <1>3
<1>5. \A m \in S : n <= m
  BY <1>4
<1> QED BY <1>5

LEMMA Induct ==
  ASSUME NEW T, 0 \in T, \A n \in Nat : n \in T => n + 1 \in T
  PROVE  Nat \subseteq T
<1> SUFFICES ASSUME Nat \ T # {} PROVE FALSE
  OBVIOUS
<1>1. PICK n \in Nat \ T : \A m \in Nat \ T : n <= m
  BY Least
<1>2. n # 0 /\ n - 1 \in Nat /\ n = (n - 1) + 1
  BY <1>1
<1>3. n - 1 \in T
  BY <1>1, <1>2
<1> QED BY <1>1, <1>2, <1>3

\* f[i] is what of the first i members is in T, for i up to n.
FirstAmong(f, s, T, n) ==
  f = [i \in 0 .. n |->
        IF i = 0 THEN <<>>
          ELSE IF s[i] \in T THEN Append(f[i - 1], s[i]) ELSE f[i - 1]]

\* The recursion of Among has a solution, and only one.
LEMMA AmongDefined ==
  ASSUME NEW A, NEW s \in Seq(A), NEW T
  PROVE  \E f \in [0 .. Len(s) -> Seq(A)] :
           FirstAmong(f, s, T, Len(s)) /\ Among(s, T) = f[Len(s)]
<1> DEFINE Good == {n \in Nat : n <= Len(s) =>
                     \E f \in [0 .. n -> Seq(A)] : FirstAmong(f, s, T, n)}
<1>1. 0 \in Good
  <2> DEFINE g == [i \in 0 .. 0 |-> <<>>]
  <2>1. g \in [0 .. 0 -> Seq(A)]
    OBVIOUS
  <2>2. FirstAmong(g, s, T, 0)
    BY DEF FirstAmong
  <2> HIDE DEF g
  <2> QED BY <2>1, <2>2
<1>2. ASSUME NEW n \in Nat, n \in Good PROVE n + 1 \in Good
  <2>0. n + 1 \in Nat
    OBVIOUS
  <2> SUFFICES ASSUME n + 1 <= Len(s)
               PROVE  \E f \in [0 .. n + 1 -> Seq(A)] : FirstAmong(f, s, T, n + 1)
    BY <2>0, Zenon
  <2>1. n <= Len(s) /\ n + 1 \in 1 .. Len(s) /\ s[n + 1] \in A
    OBVIOUS
  <2>2. PICK g \in [0 .. n -> Seq(A)] : FirstAmong(g, s, T, n)
    BY <1>2, <2>1
  <2> DEFINE h == [i \in 0 .. n + 1 |-> IF i <= n THEN g[i]
                     ELSE IF s[n + 1] \in T THEN Append(g[n], s[n + 1]) ELSE g[n]]
  <2>3. h \in [0 .. n + 1 -> Seq(A)]
    BY <2>1
  <2>4. \A i \in 0 .. n + 1 : h[i] =
          IF i = 0 THEN <<>>
            ELSE IF s[i] \in T THEN Append(h[i - 1], s[i]) ELSE h[i - 1]
    <3> SUFFICES ASSUME NEW i \in 0 .. n + 1
                 PROVE  h[i] = IF i = 0 THEN <<>>
                          ELSE IF s[i] \in T THEN Append(h[i - 1], s[i]) ELSE h[i - 1]
      OBVIOUS
    <3>1. CASE i = 0
      BY <2>2, <3>1 DEF FirstAmong
    <3>2. CASE i \in 1 .. n
      <4>1. h[i] = g[i] /\ h[i - 1] = g[i - 1]
        BY <3>2
      <4>2. g[i] = IF s[i] \in T THEN Append(g[i - 1], s[i]) ELSE g[i - 1]
        <5>1. i \in 0 .. n /\ i # 0
          BY <3>2
        <5> QED BY <2>2, <5>1 DEF FirstAmong
      <4> QED BY <3>2, <4>1, <4>2
    <3>3. CASE i = n + 1
      BY <3>3
    <3> QED BY <3>1, <3>2, <3>3
  <2>5. FirstAmong(h, s, T, n + 1)
    <3> DEFINE e == [i \in 0 .. n + 1 |-> IF i = 0 THEN <<>>
                       ELSE IF s[i] \in T THEN Append(h[i - 1], s[i]) ELSE h[i - 1]]
    <3>1. \A i \in 0 .. n + 1 : h[i] = e[i]
      BY <2>4
    <3>2. DOMAIN h = 0 .. n + 1 /\ DOMAIN e = 0 .. n + 1
      OBVIOUS
    <3>3. h = e
      BY <3>1, <3>2
    <3> QED BY <3>3 DEF FirstAmong
  <2> HIDE DEF h
  <2> QED BY <2>3, <2>5
<1>3. Len(s) \in Good
  <2> HIDE DEF Good
  <2>1. Len(s) \in Nat
    OBVIOUS
  <2> QED BY <1>1, <1>2, <2>1, Induct
<1>4. PICK f \in [0 .. Len(s) -> Seq(A)] : FirstAmong(f, s, T, Len(s))
  BY <1>3
<1>5. Among(s, T) = (CHOOSE g : FirstAmong(g, s, T, Len(s)))[Len(s)]
  BY DEF Among, FirstAmong
<1>6. PICK c : c = (CHOOSE g : FirstAmong(g, s, T, Len(s)))
  OBVIOUS
<1>7. FirstAmong(c, s, T, Len(s))
  BY <1>4, <1>6
\* The equations have one solution.
<1>8. ASSUME NEW i \in 0 .. Len(s) PROVE c[i] = f[i]
  <2> DEFINE Same == {n \in Nat : n <= Len(s) => c[n] = f[n]}
  <2>1. 0 \in Same
    BY <1>4, <1>7 DEF FirstAmong
  <2>2. ASSUME NEW n \in Nat, n \in Same PROVE n + 1 \in Same
    <3> SUFFICES ASSUME n + 1 <= Len(s) PROVE c[n + 1] = f[n + 1]
      OBVIOUS
    <3>1. c[n] = f[n] /\ n + 1 \in 0 .. Len(s) /\ n + 1 # 0 /\ (n + 1) - 1 = n
      BY <2>2
    <3>2. c[n + 1] = IF s[n + 1] \in T THEN Append(c[n], s[n + 1]) ELSE c[n]
      BY <1>7, <3>1 DEF FirstAmong
    <3>3. f[n + 1] = IF s[n + 1] \in T THEN Append(f[n], s[n + 1]) ELSE f[n]
      BY <1>4, <3>1 DEF FirstAmong
    <3> QED BY <3>1, <3>2, <3>3
  <2> HIDE DEF Same
  <2>3. i \in Same
    BY <2>1, <2>2, Induct
  <2> QED BY <2>3 DEF Same
<1>9. Len(s) \in 0 .. Len(s)
  OBVIOUS
<1> QED BY <1>4, <1>5, <1>6, <1>8, <1>9

\* The list m has the members of s that are in T, all of them and no others, and none
\* twice unless s has.
NoneTwice(q) == \A i, j \in 1 .. Len(q) : q[i] = q[j] => i = j

KeptOf(m, s, T) ==
  /\ \A j \in 1 .. Len(m) : m[j] \in T /\ \E k \in 1 .. Len(s) : m[j] = s[k]
  /\ \A k \in 1 .. Len(s) : s[k] \in T => \E j \in 1 .. Len(m) : m[j] = s[k]
  /\ NoneTwice(s) => NoneTwice(m)

LEMMA AmongKeeps ==
  ASSUME NEW A, NEW s \in Seq(A), NEW T, NEW m, m = Among(s, T)
  PROVE  m \in Seq(A) /\ KeptOf(m, s, T)
<1>1. PICK f \in [0 .. Len(s) -> Seq(A)] : FirstAmong(f, s, T, Len(s)) /\ m = f[Len(s)]
  BY AmongDefined
<1> DEFINE Once(q) == \A i, j \in 1 .. Len(q) : q[i] = q[j] => i = j
           Right(q, n) == /\ \A j \in 1 .. Len(q) : q[j] \in T /\ \E k \in 1 .. n : q[j] = s[k]
                          /\ \A k \in 1 .. n : s[k] \in T => \E j \in 1 .. Len(q) : q[j] = s[k]
                          /\ Once(s) => Once(q)
           Good == {n \in Nat : n <= Len(s) => Right(f[n], n)}
<1>2. 0 \in Good
  <2>1. f[0] = <<>>
    BY <1>1 DEF FirstAmong
  <2>2. Right(<<>>, 0)
    OBVIOUS
  <2> HIDE DEF Right
  <2> QED BY <2>1, <2>2
<1>3. ASSUME NEW n \in Nat, n \in Good PROVE n + 1 \in Good
  <2> SUFFICES ASSUME n + 1 <= Len(s) PROVE Right(f[n + 1], n + 1)
    <3> HIDE DEF Right
    <3> QED OBVIOUS
  <2>1. /\ n <= Len(s) /\ n \in 0 .. Len(s) /\ n + 1 \in 0 .. Len(s) /\ n + 1 # 0
        /\ (n + 1) - 1 = n /\ n + 1 \in 1 .. Len(s) /\ s[n + 1] \in A
    OBVIOUS
  <2>2. PICK q \in Seq(A) : q = f[n]
    BY <2>1
  <2>3. Right(q, n)
    <3> HIDE DEF Right
    <3> QED BY <1>3, <2>1, <2>2
  <2>4. f[n + 1] = IF s[n + 1] \in T THEN Append(q, s[n + 1]) ELSE q
    BY <1>1, <2>1, <2>2 DEF FirstAmong
  <2>5. CASE s[n + 1] \notin T
    <3>1. Right(q, n + 1)
      BY <2>3, <2>5
    <3> HIDE DEF Right
    <3> QED BY <2>4, <2>5, <3>1
  <2>6. CASE s[n + 1] \in T
    <3>1. PICK r : r = Append(q, s[n + 1])
      OBVIOUS
    <3>2. /\ Len(r) = Len(q) + 1 /\ Len(q) \in Nat
          /\ \A j \in 1 .. Len(q) : r[j] = q[j]
          /\ r[Len(q) + 1] = s[n + 1]
      BY <2>1, <3>1
    <3>3. \A j \in 1 .. Len(r) : r[j] \in T /\ \E k \in 1 .. n + 1 : r[j] = s[k]
      <4> SUFFICES ASSUME NEW j \in 1 .. Len(r)
                   PROVE  r[j] \in T /\ \E k \in 1 .. n + 1 : r[j] = s[k]
        OBVIOUS
      <4>1. CASE j \in 1 .. Len(q)
        <5>1. r[j] = q[j] /\ q[j] \in T
          BY <2>3, <3>2, <4>1
        <5>2. PICK k \in 1 .. n : q[j] = s[k]
          BY <2>3, <4>1
        <5>3. k \in 1 .. n + 1
          OBVIOUS
        <5> QED BY <5>1, <5>2, <5>3
      <4>2. CASE j = Len(q) + 1
        <5>1. n + 1 \in 1 .. n + 1
          OBVIOUS
        <5> QED BY <2>6, <3>2, <4>2, <5>1
      <4> QED BY <3>2, <4>1, <4>2
    <3>4. \A k \in 1 .. n + 1 : s[k] \in T => \E j \in 1 .. Len(r) : r[j] = s[k]
      <4> SUFFICES ASSUME NEW k \in 1 .. n + 1, s[k] \in T
                   PROVE  \E j \in 1 .. Len(r) : r[j] = s[k]
        OBVIOUS
      <4>1. CASE k \in 1 .. n
        <5>1. PICK j \in 1 .. Len(q) : q[j] = s[k]
          BY <2>3, <4>1
        <5>2. j \in 1 .. Len(r) /\ r[j] = s[k]
          BY <3>2, <5>1
        <5> QED BY <5>2
      <4>2. CASE k = n + 1
        <5>1. Len(q) + 1 \in 1 .. Len(r)
          BY <3>2
        <5> QED BY <3>2, <4>2, <5>1
      <4> QED BY <4>1, <4>2
    <3>5. Once(s) => Once(r)
      <4> SUFFICES ASSUME Once(s), NEW i \in 1 .. Len(r), NEW j \in 1 .. Len(r), r[i] = r[j]
                   PROVE  i = j
        OBVIOUS
      <4>1. \A l \in 1 .. Len(q) : r[l] # s[n + 1]
        BY <2>1, <2>3, <3>2
      <4>2. CASE i \in 1 .. Len(q) /\ j \in 1 .. Len(q)
        BY <2>3, <3>2, <4>2
      <4> QED BY <3>2, <4>1, <4>2
    <3>6. Right(r, n + 1)
      BY <3>3, <3>4, <3>5
    <3> HIDE DEF Right
    <3> QED BY <2>4, <2>6, <3>1, <3>6
  <2> QED BY <2>5, <2>6
<1>4. Len(s) \in Nat
  OBVIOUS
<1>5. Len(s) \in Good
  <2> HIDE DEF Good
  <2> QED BY <1>2, <1>3, <1>4, Induct
<1>6. Right(m, Len(s))
  <2> HIDE DEF Right
  <2> QED BY <1>1, <1>4, <1>5
<1>7. m \in Seq(A)
  BY <1>1, <1>4
<1>8. KeptOf(m, s, T)
  BY <1>6 DEF KeptOf, NoneTwice
<1> QED BY <1>7, <1>8

LEMMA AmongTells ==
  ASSUME NEW A, NEW s \in Seq(A), NEW T, NEW m, m = Among(s, T)
  PROVE  /\ m \in Seq(A)
         /\ \A j \in 1 .. Len(m) : m[j] \in T /\ \E k \in 1 .. Len(s) : m[j] = s[k]
         /\ \A k \in 1 .. Len(s) : s[k] \in T => \E j \in 1 .. Len(m) : m[j] = s[k]
<1>1. m \in Seq(A) /\ KeptOf(m, s, T)
  BY AmongKeeps
<1> QED BY <1>1 DEF KeptOf

\* Among of a list without repetitions has none.
LEMMA AmongOnce ==
  ASSUME NEW A, NEW s \in Seq(A), NEW T, NEW m, m = Among(s, T),
         \A i, j \in 1 .. Len(s) : s[i] = s[j] => i = j
  PROVE  \A i, j \in 1 .. Len(m) : m[i] = m[j] => i = j
<1>1. KeptOf(m, s, T)
  BY AmongKeeps
<1>2. NoneTwice(s)
  BY DEF NoneTwice
<1>3. NoneTwice(m)
  BY <1>1, <1>2 DEF KeptOf
<1> QED BY <1>3 DEF NoneTwice

\* The list of those who may be mailed, each once.
LEMMA Lists ==
  /\ Targets \o Copied \in Seq(Addresses)
  /\ Range(Targets) \subseteq Addresses
  /\ \A i, j \in 1 .. Len(Targets \o Copied) :
       (Targets \o Copied)[i] = (Targets \o Copied)[j] => i = j
<1>1. Targets \in Seq(Range(Targets)) /\ Copied \in Seq(Range(Copied))
  BY ConstantsAssumption
<1>2. PICK L : L = Targets \o Copied
  OBVIOUS
<1>3. L \in Seq(Range(Targets) \cup Range(Copied))
  BY <1>1, <1>2
<1>4. DOMAIN L = 1 .. Len(L)
  BY <1>3
<1>5. L \in Seq(Range(L))
  BY <1>3, <1>4, IsASeq DEF Range
<1>6. ASSUME NEW p \in Range(Targets) PROVE p \in Range(L)
  <2>1. PICK i \in 1 .. Len(Targets) : p = Targets[i]
    BY <1>1, <1>6 DEF Range
  <2>2. i \in DOMAIN L /\ L[i] = p
    BY <1>1, <1>2, <2>1
  <2> QED BY <2>2 DEF Range
<1>7. IsInjective(L)
  BY <1>2, ConstantsAssumption
<1>8. \A i, j \in 1 .. Len(L) : L[i] = L[j] => i = j
  BY <1>4, <1>7 DEF IsInjective
<1> QED BY <1>2, <1>5, <1>6, <1>8 DEF Addresses

LEMMA AddressedTyped ==
  ASSUME NEW S, NEW cc
  PROVE  /\ Addressed(S, cc) \in Seq(Addresses)
         /\ \A i, j \in 1 .. Len(Addressed(S, cc)) :
              Addressed(S, cc)[i] = Addressed(S, cc)[j] => i = j
<1>1. PICK L \in Seq(Addresses) : L = Targets \o Copied
  BY Lists
<1>2. \A i, j \in 1 .. Len(L) : L[i] = L[j] => i = j
  BY <1>1, Lists
<1>3. PICK U : U = S \cup cc
  OBVIOUS
<1>4. PICK m : m = Among(L, U)
  OBVIOUS
<1>5. m \in Seq(Addresses)
  BY <1>4, AmongTells
<1>6. \A i, j \in 1 .. Len(m) : m[i] = m[j] => i = j
  BY <1>2, <1>4, AmongOnce
<1> QED BY <1>1, <1>3, <1>4, <1>5, <1>6 DEF Addressed

-----------------------------------------------------------------------------
(* What each step leaves of a handler. *)

\* The step is of the handler w alone, which it leaves with all that handlers have.
Whole(j) == j = [pc |-> j.pc, req |-> j.req, to |-> j.to, out |-> j.out, act |-> j.act,
                 result |-> j.result, known |-> j.known]
Only(w) == job' = [job EXCEPT ![w] = job'[w]] /\ Whole(job'[w])

LEMMA WholeJob == \A j \in Jobs : Whole(j)
BY DEF Jobs, Whole

LEMMA WholeTyped ==
  ASSUME NEW j, Whole(j),
         j.pc \in {"idle", "create", "mail", "send", "record", "outcome",
                   "recall", "learn"},
         j.req \in 0 .. MaxRequests, j.to \in Seq(Addresses), j.out \subseteq Addresses,
         j.act \in [Addresses -> {0} \cup ActionIds],
         j.result \in [Addresses -> Outcomes \cup Results \cup {None}],
         j.known \in [Kinds -> Nat]
  PROVE  j \in Jobs
BY DEF Whole, Jobs

LEMMA Elsewhere ==
  ASSUME TypeOK, NEW w \in Workers, Only(w)
  PROVE  \A v \in Workers : v # w => job'[v] = job[v]
BY DEF TypeOK, Only

LEMMA Stopped ==
  ASSUME TypeOK, NEW w \in Workers, Stop(w)
  PROVE  job'[w] = Idle /\ Only(w)
BY DEF TypeOK, Stop, Only, Whole, Idle

LEMMA Asking ==
  ASSUME TypeOK, NEW w \in Workers, NEW S, NEW cc, SendCaseEscalation(w, S, cc)
  PROVE  /\ job'[w].pc = "create"
         /\ job'[w].req = requests + 1
         /\ job'[w].out = optedOut
         /\ job'[w].to = Addressed(S, cc)
         /\ job'[w].act = Idle.act
         /\ job'[w].result = Idle.result
         /\ job'[w].known = Idle.known
         /\ Only(w)
<1>1. job'[w] = [Idle EXCEPT !.pc = "create", !.req = requests + 1, !.out = optedOut,
                             !.to = Addressed(S, cc)]
  BY DEF TypeOK, SendCaseEscalation
<1>2. Only(w)
  BY <1>1 DEF TypeOK, SendCaseEscalation, Only, Whole, Idle
<1> QED BY <1>1, <1>2 DEF Idle

LEMMA Creates ==
  ASSUME TypeOK, NEW w \in Workers, CreateActions(w), ~merged,
         NEW S, S = Among(job[w].to, Range(Targets))
  PROVE  /\ job[w].pc = "create"
         /\ job'[w].pc = "mail"
         /\ job'[w].act = Numbered(Len(actions), S)
         /\ job'[w].req = job[w].req
         /\ job'[w].to = job[w].to
         /\ job'[w].out = job[w].out
         /\ job'[w].result = job[w].result
         /\ job'[w].known = job[w].known
         /\ actions' = actions \o [i \in DOMAIN S |->
              [req |-> job[w].req, target |-> S[i], status |-> "pending"]]
         /\ Only(w)
<1>1. job' = [job EXCEPT ![w].pc = "mail", ![w].act = Numbered(Len(actions), S)]
  BY DEF CreateActions
<1>2. job[w] \in Jobs /\ DOMAIN job = Workers
  BY DEF TypeOK
<1>3. job'[w] = [job[w] EXCEPT !.pc = "mail", !.act = Numbered(Len(actions), S)]
  BY <1>1, <1>2
<1>4. Only(w)
  BY <1>1, <1>2 DEF Only, Whole, Jobs
<1> QED BY <1>2, <1>3, <1>4 DEF Jobs, CreateActions, At

LEMMA Settles ==
  ASSUME TypeOK, NEW w \in Workers, NEW r, Settled(w, r)
  PROVE  /\ job'[w].pc = "mail"
         /\ job'[w].to = Tail(job[w].to)
         /\ job'[w].result = [job[w].result EXCEPT ![Head(job[w].to)] = r]
         /\ job'[w].req = job[w].req
         /\ job'[w].out = job[w].out
         /\ job'[w].act = job[w].act
         /\ job'[w].known = job[w].known
         /\ Only(w)
<1>1. PICK h : h = Head(job[w].to)
  OBVIOUS
<1>2. job' = [job EXCEPT ![w].pc = "mail", ![w].to = Tail(@), ![w].result[h] = r]
  BY <1>1 DEF Settled
<1>3. job[w] \in Jobs /\ DOMAIN job = Workers
  BY DEF TypeOK
<1>4. job'[w] = [job[w] EXCEPT !.pc = "mail", !.to = Tail(@), !.result[h] = r]
  BY <1>2, <1>3
<1>5. Only(w)
  BY <1>2, <1>3 DEF Only, Whole, Jobs
<1>6. job'[w].result = [job[w].result EXCEPT ![h] = r]
  BY <1>3, <1>4 DEF Jobs
<1> QED BY <1>1, <1>3, <1>4, <1>5, <1>6 DEF Jobs

\* A step that only moves the handler on.
LEMMA Moves ==
  ASSUME TypeOK, NEW w \in Workers, NEW pc, job' = [job EXCEPT ![w].pc = pc]
  PROVE  /\ job'[w].pc = pc
         /\ job'[w].req = job[w].req
         /\ job'[w].to = job[w].to
         /\ job'[w].out = job[w].out
         /\ job'[w].act = job[w].act
         /\ job'[w].result = job[w].result
         /\ job'[w].known = job[w].known
         /\ Only(w)
<1>1. job[w] \in Jobs /\ DOMAIN job = Workers
  BY DEF TypeOK
<1>2. job'[w] = [job[w] EXCEPT !.pc = pc] /\ Only(w)
  BY <1>1 DEF Only, Whole, Jobs
<1> QED BY <1>1, <1>2 DEF Jobs

LEMMA Records ==
  ASSUME TypeOK, NEW w \in Workers, RecordDeliveries(w)
  PROVE  /\ job[w].pc = "record"
         /\ job'[w].pc = "outcome"
         /\ job'[w].to = Addressed(Recipients(w), {})
         /\ job'[w].result = job[w].result
         /\ job'[w].req = 0
         /\ job'[w].out = {}
         /\ job'[w].act = Idle.act
         /\ job'[w].known = Idle.known
         /\ Only(w)
<1>1. job' = [job EXCEPT ![w] = [Idle EXCEPT !.pc = "outcome", !.result = job[w].result,
                                            !.to = Addressed(Recipients(w), {})]]
  BY DEF RecordDeliveries
<1>2. DOMAIN job = Workers
  BY DEF TypeOK
<1>3. job'[w] = [Idle EXCEPT !.pc = "outcome", !.result = job[w].result,
                            !.to = Addressed(Recipients(w), {})]
  BY <1>1, <1>2
<1>4. Only(w)
  BY <1>1, <1>2, <1>3 DEF Only, Whole, Idle
<1>5. job[w].pc = "record"
  BY DEF RecordDeliveries, At
<1>6. PICK to : to = Addressed(Recipients(w), {})
  OBVIOUS
<1>7. job'[w] = [Idle EXCEPT !.pc = "outcome", !.result = job[w].result, !.to = to]
  BY <1>3, <1>6
<1> QED BY <1>4, <1>5, <1>6, <1>7 DEF Idle

LEMMA Replies ==
  ASSUME TypeOK, NEW w \in Workers, NEW p \in Replying, NEW k, RecordReply(w, p, k)
  PROVE  /\ job'[w].pc = "outcome"
         /\ job'[w].to = <<p>>
         /\ job'[w].result = [Idle.result EXCEPT ![p] = k]
         /\ job'[w].req = 0
         /\ job'[w].out = {}
         /\ job'[w].act = Idle.act
         /\ job'[w].known = Idle.known
         /\ Only(w)
<1>1. job' = [job EXCEPT ![w] = [Idle EXCEPT !.pc = "outcome", !.to = <<p>>,
                                            !.result = [@ EXCEPT ![p] = k]]]
  BY DEF RecordReply
<1>2. DOMAIN job = Workers
  BY DEF TypeOK
<1>3. job'[w] = [Idle EXCEPT !.pc = "outcome", !.to = <<p>>, !.result = [@ EXCEPT ![p] = k]]
  BY <1>1, <1>2
<1>4. Only(w)
  BY <1>1, <1>2, <1>3 DEF Only, Whole, Idle
<1> QED BY <1>3, <1>4 DEF Idle

LEMMA Recalls ==
  ASSUME TypeOK, NEW w \in Workers, RecallMemory(w)
  PROVE  /\ job'[w].pc = "learn"
         /\ job'[w].known = memory[Subject(w)]
         /\ job'[w].req = job[w].req
         /\ job'[w].to = job[w].to
         /\ job'[w].out = job[w].out
         /\ job'[w].act = job[w].act
         /\ job'[w].result = job[w].result
         /\ Only(w)
<1>1. PICK m : m = memory[Subject(w)]
  OBVIOUS
<1>2. job' = [job EXCEPT ![w].pc = "learn", ![w].known = m]
  BY <1>1 DEF RecallMemory
<1>3. job[w] \in Jobs /\ DOMAIN job = Workers
  BY DEF TypeOK
<1>4. job'[w] = [job[w] EXCEPT !.pc = "learn", !.known = m]
  BY <1>2, <1>3
<1>5. Only(w)
  BY <1>2, <1>3 DEF Only, Whole, Jobs
<1> QED BY <1>1, <1>3, <1>4, <1>5 DEF Jobs

LEMMA Learns ==
  ASSUME TypeOK, NEW w \in Workers, UpsertMemory(w)
  PROVE  /\ job'[w].pc = "outcome"
         /\ job'[w].to = Tail(job[w].to)
         /\ job'[w].result = [job[w].result EXCEPT ![Subject(w)] = None]
         /\ job'[w].known = NoCount
         /\ job'[w].req = job[w].req
         /\ job'[w].out = job[w].out
         /\ job'[w].act = job[w].act
         /\ Only(w)
<1>1. PICK h : h = Subject(w)
  OBVIOUS
<1>2. job' = [job EXCEPT ![w].pc = "outcome", ![w].to = Tail(@), ![w].result[h] = None,
                        ![w].known = NoCount]
  BY <1>1 DEF UpsertMemory
<1>3. job[w] \in Jobs /\ DOMAIN job = Workers
  BY DEF TypeOK
<1>4. job'[w] = [job[w] EXCEPT !.pc = "outcome", !.to = Tail(@), !.result[h] = None,
                              !.known = NoCount]
  BY <1>2, <1>3
<1>5. Only(w)
  BY <1>2, <1>3 DEF Only, Whole, Jobs
<1>6. job'[w].result = [job[w].result EXCEPT ![h] = None]
  BY <1>3, <1>4 DEF Jobs
<1> QED BY <1>1, <1>3, <1>4, <1>5, <1>6 DEF Jobs

-----------------------------------------------------------------------------
(* Types. *)

LEMMA IdleTyped == Idle \in Jobs /\ Idle.pc = "idle"
<1>1. 0 \in 0 .. MaxRequests
  BY ConstantsAssumption
<1>2. /\ Idle.act \in [Addresses -> {0} \cup ActionIds]
      /\ Idle.result \in [Addresses -> Outcomes \cup Results \cup {None}]
      /\ Idle.known \in [Kinds -> Nat]
  BY DEF Idle, NoCount
<1>3. Whole(Idle)
  BY DEF Whole, Idle
<1>4. Idle.pc = "idle" /\ Idle.req = 0 /\ Idle.to = <<>> /\ Idle.out = {}
  BY DEF Idle
<1>5. <<>> \in Seq(Addresses)
  OBVIOUS
<1> QED BY <1>1, <1>2, <1>3, <1>4, <1>5, WholeTyped

\* A request of one handler changes, and those of the others stay what they are.
LEMMA OneTyped ==
  ASSUME TypeOK, NEW w \in Workers, Only(w), ActionIds \subseteq ActionIds', (job[w] \in Jobs)'
  PROVE  (job \in [Workers -> Jobs])'
<1>1. \A j \in Jobs : (j \in Jobs')
  BY DEF Jobs
<1>2. job \in [Workers -> Jobs]
  BY DEF TypeOK
<1>3. job' = [job EXCEPT ![w] = job'[w]]
  BY DEF Only
<1>4. \A v \in Workers : job'[v] \in Jobs'
  BY <1>1, <1>2, Elsewhere
<1> QED BY <1>2, <1>3, <1>4

LEMMA OneAsked ==
  ASSUME TypeInv, NEW w \in Workers, Only(w),
         requests' \in Nat, requests <= requests', AskedOf(job[w])'
  PROVE  Asked'
<1>1. TypeOK /\ Asked /\ requests \in Nat
  BY ConstantsAssumption DEF TypeInv, TypeOK
<1>2. \A v \in Workers : v # w => job'[v] = job[v] /\ job[v].req \in Nat
  BY <1>1, Elsewhere, ConstantsAssumption DEF TypeOK, Jobs
<1> SUFFICES ASSUME NEW v \in Workers, v # w PROVE AskedOf(job[v])'
  BY DEF Asked
<1> QED BY <1>1, <1>2 DEF Asked, AskedOf

\* The part of the type invariant that is about what is learned.
LearnedTyped ==
  /\ outcomes \in [Addresses -> [Outcomes -> Nat]]
  /\ memory \in [Addresses -> [Kinds -> Nat]]
  /\ lastResult \in [Addresses -> Outcomes \cup {None}]
  /\ latest \in [Addresses -> Outcomes \cup {None}]
  /\ overlapped \subseteq Addresses
  /\ unlearned \in [Addresses -> [Outcomes -> Nat]]

\* One more of a kind, if it is one.
LEMMA OneMore ==
  ASSUME NEW f \in [Addresses -> [Outcomes -> Nat]], NEW h, NEW k
  PROVE  [f EXCEPT ![h][k] = @ + 1] \in [Addresses -> [Outcomes -> Nat]]
<1>1. \A g \in [Outcomes -> Nat] : [g EXCEPT ![k] = @ + 1] \in [Outcomes -> Nat]
  <2>1. TAKE g \in [Outcomes -> Nat]
  <2>2. CASE k \in Outcomes
    BY <2>2
  <2>3. CASE k \notin Outcomes
    <3>1. [g EXCEPT ![k] = @ + 1] = g
      BY <2>3
    <3> QED BY <3>1
  <2> QED BY <2>2, <2>3
<1>2. CASE h \in Addresses
  <2>1. PICK g \in [Outcomes -> Nat] : g = [f[h] EXCEPT ![k] = @ + 1]
    BY <1>1, <1>2
  <2>2. [f EXCEPT ![h][k] = @ + 1] = [f EXCEPT ![h] = g]
    BY <2>1
  <2> QED BY <2>1, <2>2
<1>3. CASE h \notin Addresses
  <2>1. [f EXCEPT ![h][k] = @ + 1] = f
    BY <1>3
  <2> QED BY <2>1
<1> QED BY <1>2, <1>3

LEMMA TypeInit == Init => TypeInv
<1> SUFFICES ASSUME Init PROVE TypeInv
  OBVIOUS
<1>1. /\ merged = FALSE /\ actions = <<>> /\ deliveries = {} /\ optedOut = {} /\ mailed = {}
      /\ requests = 0 /\ faults = 0
      /\ outcomes = [p \in Addresses |-> NoOutcome]
      /\ memory = [p \in Addresses |-> NoCount]
      /\ lastResult = [p \in Addresses |-> None] /\ latest = [p \in Addresses |-> None]
      /\ overlapped = {} /\ unlearned = [p \in Addresses |-> NoOutcome]
      /\ job = [w \in Workers |-> Idle]
  BY DEF Init
<1>2. actions \in Seq([req : 1 .. MaxRequests, target : Range(Targets),
                       status : {"pending"} \cup Results])
  BY <1>1
<1>3. LearnedTyped
  BY <1>1 DEF LearnedTyped, NoCount, NoOutcome
<1>4. job \in [Workers -> Jobs]
  BY <1>1, IdleTyped
<1>5. requests \in 0 .. MaxRequests /\ faults \in 0 .. MaxFaults
  BY <1>1, ConstantsAssumption
<1>6. TypeOK
  BY <1>1, <1>2, <1>3, <1>4, <1>5 DEF TypeOK, LearnedTyped
<1>7. Asked
  BY <1>1 DEF Asked, AskedOf, Idle, Escalating
<1> QED BY <1>6, <1>7 DEF TypeInv

Action == [req : 1 .. MaxRequests, target : Range(Targets), status : {"pending"} \cup Results]

\* What an escalation's handler creates.
LEMMA Created ==
  ASSUME TypeInv, NEW w \in Workers, CreateActions(w), ~merged,
         NEW S, S = Among(job[w].to, Range(Targets))
  PROVE  /\ S \in Seq(Addresses)
         /\ \A i \in 1 .. Len(S) : S[i] \in Range(Targets) /\ S[i] \in Range(job[w].to)
         /\ actions' \in Seq(Action)
         /\ Len(actions') = Len(actions) + Len(S)
         /\ \A a \in ActionIds : a \in ActionIds' /\ actions'[a] = actions[a]
         /\ \A a \in ActionIds' \ ActionIds :
              a - Len(actions) \in 1 .. Len(S) /\
              actions'[a] = [req |-> job[w].req, target |-> S[a - Len(actions)],
                             status |-> "pending"]
<1>0. TypeOK /\ Asked /\ actions \in Seq(Action)
  BY DEF TypeInv, TypeOK, Action
<1>1. job[w].to \in Seq(Addresses) /\ job[w].pc = "create"
  BY <1>0, Creates DEF TypeOK, Jobs
<1>2. /\ S \in Seq(Addresses)
      /\ \A j \in 1 .. Len(S) :
           S[j] \in Range(Targets) /\ \E k \in 1 .. Len(job[w].to) : S[j] = job[w].to[k]
  <2>1. PICK s \in Seq(Addresses) : s = job[w].to
    BY <1>1
  <2>2. S = Among(s, Range(Targets))
    BY <2>1
  <2>3. S \in Seq(Addresses) /\ KeptOf(S, s, Range(Targets))
    BY <2>2, AmongKeeps
  <2>4. \A j \in 1 .. Len(S) :
          S[j] \in Range(Targets) /\ \E k \in 1 .. Len(s) : S[j] = s[k]
    BY <2>3 DEF KeptOf
  <2> QED BY <2>1, <2>3, <2>4
<1>3. ASSUME NEW i \in 1 .. Len(S) PROVE S[i] \in Range(job[w].to)
  <2>1. PICK k \in 1 .. Len(job[w].to) : S[i] = job[w].to[k]
    BY <1>2
  <2>2. k \in DOMAIN job[w].to
    BY <1>1
  <2> QED BY <2>1, <2>2 DEF Range
<1>4. job[w].req \in 1 .. MaxRequests
  BY <1>0, <1>1, ConstantsAssumption DEF Asked, AskedOf, Escalating, TypeOK
<1> DEFINE N == [i \in DOMAIN S |->
                  [req |-> job[w].req, target |-> S[i], status |-> "pending"]]
<1>5. DOMAIN S = 1 .. Len(S) /\ Len(S) \in Nat
  BY <1>2
<1>6. \A i \in 1 .. Len(S) :
        [req |-> job[w].req, target |-> S[i], status |-> "pending"] \in Action
  BY <1>2, <1>4 DEF Action
<1>7. N \in Seq(Action) /\ Len(N) = Len(S)
  <2>1. N \in [1 .. Len(S) -> Action]
    BY <1>5, <1>6
  <2> HIDE DEF N
  <2> QED BY <1>5, <2>1
<1>8. \A i \in 1 .. Len(S) :
        N[i] = [req |-> job[w].req, target |-> S[i], status |-> "pending"]
  BY <1>5
<1>9. actions' = actions \o N
  BY Zenon DEF CreateActions
<1> HIDE DEF N
<1>10. /\ actions' \in Seq(Action)
       /\ Len(actions') = Len(actions) + Len(S)
  <2>1. actions \in Seq(Action)
    BY <1>0
  <2>2. actions \o N \in Seq(Action) /\ Len(actions \o N) = Len(actions) + Len(N)
    BY <1>7, <2>1, ConcatProperties, Zenon
  <2> QED BY <1>7, <1>9, <2>2, Zenon
<1>11. ASSUME NEW a \in ActionIds PROVE a \in ActionIds' /\ actions'[a] = actions[a]
  BY <1>0, <1>7, <1>9, <1>11 DEF ActionIds
<1>12. ASSUME NEW a \in ActionIds' \ ActionIds
       PROVE  a - Len(actions) \in 1 .. Len(S) /\ actions'[a] = N[a - Len(actions)]
  <2>1. /\ ActionIds = 1 .. Len(actions) /\ ActionIds' = 1 .. Len(actions')
        /\ Len(actions) \in Nat
    BY <1>0, <1>10 DEF ActionIds
  <2>2. a \in Len(actions) + 1 .. Len(actions) + Len(S)
    BY <1>5, <1>10, <1>12, <2>1
  <2> QED BY <1>0, <1>5, <1>7, <1>9, <2>1, <2>2
<1> QED BY <1>2, <1>3, <1>8, <1>10, <1>11, <1>12

\* Each is held for its target.
LEMMA NumberedTells ==
  ASSUME NEW n \in Nat, NEW S \in Seq(Addresses), NEW p \in Addresses
  PROVE  \/ Numbered(n, S)[p] = 0 /\ \A i \in 1 .. Len(S) : S[i] # p
         \/ \E i \in 1 .. Len(S) : S[i] = p /\ Numbered(n, S)[p] = n + i
<1>1. DOMAIN S = 1 .. Len(S)
  OBVIOUS
<1>2. CASE Contains(S, p)
  <2>1. \E i \in DOMAIN S : S[i] = p
    BY <1>1, <1>2 DEF Contains
  <2>2. PICK i \in DOMAIN S : i = CHOOSE k \in DOMAIN S : S[k] = p
    BY <2>1
  <2>3. S[i] = p
    BY <2>1, <2>2
  <2>4. Numbered(n, S)[p] = n + i
    BY <1>2, <2>2 DEF Numbered
  <2> QED BY <1>1, <2>3, <2>4
<1>3. CASE ~Contains(S, p)
  BY <1>3 DEF Contains, Numbered
<1> QED BY <1>2, <1>3

\* A handler holds the results of those it has dealt with.
LEMMA ResultTyped ==
  ASSUME NEW q \in [Addresses -> Outcomes \cup Results \cup {None}], NEW h,
         NEW r \in Outcomes \cup Results \cup {None}
  PROVE  /\ [q EXCEPT ![h] = r] \in [Addresses -> Outcomes \cup Results \cup {None}]
         /\ \A p \in Addresses : [q EXCEPT ![h] = r][p] = IF p = h THEN r ELSE q[p]
OBVIOUS

LEMMA SettledTyped ==
  ASSUME TypeInv, NEW w \in Workers, job[w].pc \in {"mail", "send"}, job[w].to # <<>>,
         NEW r \in Results, Settled(w, r), UNCHANGED <<actions, requests>>
  PROVE  /\ (job \in [Workers -> Jobs])'
         /\ Asked'
<1>0. TypeOK /\ Asked
  BY DEF TypeInv
<1>1. /\ job[w] \in Jobs /\ job[w].pc \in Escalating
      /\ ActionIds' = ActionIds /\ Jobs' = Jobs
  BY <1>0 DEF TypeOK, Escalating, ActionIds, Jobs
<1>2. Head(job[w].to) \in Addresses /\ Tail(job[w].to) \in Seq(Addresses)
  BY <1>1 DEF Jobs
<1>3. /\ job[w].result \in [Addresses -> Outcomes \cup Results \cup {None}]
      /\ r \in Outcomes \cup Results \cup {None}
  BY <1>1 DEF Jobs
<1>4. /\ job'[w].result \in [Addresses -> Outcomes \cup Results \cup {None}]
      /\ \A p \in Addresses : job'[w].result[p] \in {r, job[w].result[p]}
  <2>1. PICK q \in [Addresses -> Outcomes \cup Results \cup {None}] : q = job[w].result
    BY <1>3
  <2>2. PICK h : h = Head(job[w].to)
    OBVIOUS
  <2>3. job'[w].result = [q EXCEPT ![h] = r]
    BY <1>0, <2>1, <2>2, Settles
  <2>4. [q EXCEPT ![h] = r] \in [Addresses -> Outcomes \cup Results \cup {None}]
    BY <1>3, ResultTyped
  <2>5. \A p \in Addresses : [q EXCEPT ![h] = r][p] \in {r, q[p]}
    OBVIOUS
  <2> QED BY <2>1, <2>3, <2>4, <2>5
<1>5. /\ job'[w].pc = "mail" /\ job'[w].to = Tail(job[w].to) /\ job'[w].req = job[w].req
      /\ job'[w].out = job[w].out /\ job'[w].act = job[w].act
      /\ job'[w].known = job[w].known /\ Only(w)
  BY <1>0, Settles
<1>6. (job[w] \in Jobs)'
  <2>1. /\ job[w].req \in 0 .. MaxRequests /\ job[w].out \subseteq Addresses
        /\ job[w].act \in [Addresses -> {0} \cup ActionIds]
        /\ job[w].known \in [Kinds -> Nat]
    BY <1>1 DEF Jobs
  <2>2. job'[w] \in Jobs
    BY <1>2, <1>4, <1>5, <2>1, WholeTyped DEF Only
  <2> QED BY <1>1, <2>2
<1>7. AskedOf(job[w])'
  BY <1>0, <1>1, <1>4, <1>5 DEF Asked, AskedOf, Escalating
<1>8. requests' \in Nat /\ requests <= requests'
  BY <1>0, ConstantsAssumption DEF TypeOK
<1> QED BY <1>0, <1>1, <1>5, <1>6, <1>7, <1>8, OneTyped, OneAsked

\* The same of a step that only moves the handler on.
LEMMA MovedTyped ==
  ASSUME TypeInv, NEW w \in Workers, job[w].to # <<>> \/ job'[w].pc # "send",
         job[w].pc = "mail", NEW pc \in {"send", "record"},
         job' = [job EXCEPT ![w].pc = pc], UNCHANGED <<actions, requests>>
  PROVE  /\ (job \in [Workers -> Jobs])'
         /\ Asked'
<1>0. TypeOK /\ Asked
  BY DEF TypeInv
<1>1. /\ job[w] \in Jobs /\ ActionIds' = ActionIds /\ Jobs' = Jobs
  BY <1>0 DEF TypeOK, ActionIds, Jobs
<1>2. /\ job'[w].pc = pc /\ job'[w].to = job[w].to /\ job'[w].req = job[w].req
      /\ job'[w].out = job[w].out /\ job'[w].act = job[w].act
      /\ job'[w].result = job[w].result /\ job'[w].known = job[w].known /\ Only(w)
  BY <1>0, Moves
<1>3. (job[w] \in Jobs)'
  <2>1. /\ job[w].req \in 0 .. MaxRequests /\ job[w].out \subseteq Addresses
        /\ job[w].act \in [Addresses -> {0} \cup ActionIds]
        /\ job[w].to \in Seq(Addresses)
        /\ job[w].result \in [Addresses -> Outcomes \cup Results \cup {None}]
        /\ job[w].known \in [Kinds -> Nat]
    BY <1>1 DEF Jobs
  <2>2. job'[w] \in Jobs
    BY <1>2, <2>1, WholeTyped DEF Only
  <2> QED BY <1>1, <2>2
<1>4. AskedOf(job[w])'
  BY <1>0, <1>2 DEF Asked, AskedOf, Escalating
<1>5. requests' \in Nat /\ requests <= requests'
  BY <1>0, ConstantsAssumption DEF TypeOK
<1> QED BY <1>0, <1>1, <1>2, <1>3, <1>4, <1>5, OneTyped, OneAsked

\* And of one that ends.
LEMMA StoppedTyped ==
  ASSUME TypeInv, NEW w \in Workers, Stop(w), UNCHANGED <<actions, requests>>
  PROVE  /\ (job \in [Workers -> Jobs])'
         /\ Asked'
<1>0. TypeOK /\ Asked
  BY DEF TypeInv
<1>1. ActionIds' = ActionIds /\ Jobs' = Jobs
  BY DEF ActionIds, Jobs
<1>2. job'[w] = Idle /\ Only(w)
  BY <1>0, Stopped
<1>3. AskedOf(job[w])'
  BY <1>2 DEF AskedOf, Escalating, Idle
<1>4. requests' \in Nat /\ requests <= requests'
  BY <1>0, ConstantsAssumption DEF TypeOK
<1> QED BY <1>0, <1>1, <1>2, <1>3, <1>4, IdleTyped, OneTyped, OneAsked

\* What a handler that has someone on its list is at.
LEMMA SubjectTyped ==
  ASSUME TypeOK, NEW w \in Workers, job[w].to # <<>>
  PROVE  Subject(w) \in Addresses /\ Finding(w) \in Outcomes \cup {None}
<1>1. job[w] \in Jobs
  BY DEF TypeOK
<1>2. Subject(w) \in Addresses
  BY <1>1 DEF Jobs, Subject
<1>3. PICK r : r = job[w].result[Subject(w)]
  OBVIOUS
<1>4. r \in Outcomes \cup Results \cup {None}
  BY <1>1, <1>2, <1>3 DEF Jobs
<1>5. OutcomeOf(r) \in Outcomes \cup {None}
  BY <1>4 DEF OutcomeOf, Outcomes, Kinds, Results
<1> QED BY <1>2, <1>3, <1>5 DEF Finding

\* What is written back of an address: the greater of each count and of the one worked
\* out from what was read.
LEMMA Written ==
  ASSUME TypeOK, NEW w \in Workers, UpsertMemory(w), job[w].to # <<>>
  PROVE  /\ memory' \in [Addresses -> [Kinds -> Nat]]
         /\ \A p \in Addresses : p # Subject(w) => memory'[p] = memory[p]
         /\ \A k \in Kinds : memory'[Subject(w)][k] =
              Greatest(memory[Subject(w)][k],
                       job[w].known[k] + (IF k = Finding(w) THEN 1 ELSE 0))
<1>1. PICK h \in Addresses : h = Subject(w)
  BY SubjectTyped
<1>2. PICK f : f = Finding(w)
  OBVIOUS
<1> DEFINE c == [i \in Kinds |-> job[w].known[i] + (IF i = f THEN 1 ELSE 0)]
<1>3. memory' = [memory EXCEPT ![h] = [i \in Kinds |-> Greatest(@[i], c[i])]]
  BY <1>1, <1>2 DEF UpsertMemory
<1>4. memory \in [Addresses -> [Kinds -> Nat]] /\ \A i \in Kinds : c[i] \in Nat
  BY DEF TypeOK, Jobs
<1>5. \A i \in Kinds : c[i] = job[w].known[i] + (IF i = f THEN 1 ELSE 0)
  OBVIOUS
<1> HIDE DEF c
<1>6. memory'[h] = [i \in Kinds |-> Greatest(memory[h][i], c[i])]
  BY <1>3, <1>4
<1>7. \A i \in Kinds : memory[h][i] \in Nat /\ Greatest(memory[h][i], c[i]) \in Nat
  BY <1>4 DEF Greatest
<1>8. memory'[h] \in [Kinds -> Nat]
  BY <1>6, <1>7
<1>9. memory' \in [Addresses -> [Kinds -> Nat]]
  <2>1. memory' = [memory EXCEPT ![h] = memory'[h]]
    BY <1>3, <1>4, <1>6
  <2> QED BY <1>4, <1>8, <2>1
<1>10. \A p \in Addresses : p # h => memory'[p] = memory[p]
  BY <1>3, <1>4
<1> QED BY <1>1, <1>2, <1>5, <1>6, <1>9, <1>10

LEMMA TypeStep == TypeInv /\ [Next]_vars => TypeInv'
<1> SUFFICES ASSUME TypeInv, [Next]_vars PROVE TypeInv'
  OBVIOUS
<1>0. TypeOK /\ Asked
  BY DEF TypeInv
<1> USE DEF case, learned, people, past
<1>0a. LearnedTyped
  BY <1>0 DEF TypeOK, LearnedTyped
\* Most steps change little besides a handler.
<1>a. ASSUME UNCHANGED <<actions, requests>>, Asked', (job \in [Workers -> Jobs])',
             merged' \in BOOLEAN,
             deliveries' \subseteq [req : 1 .. MaxRequests, who : Addresses,
                                   action : {0} \cup ActionIds, status : Results],
             LearnedTyped',
             optedOut' \subseteq OptingOut,
             mailed' \subseteq (1 .. MaxRequests) \X Addresses,
             faults' \in 0 .. MaxFaults
      PROVE  TypeInv'
  <2>1. ActionIds' = ActionIds
    BY <1>a DEF ActionIds
  <2> QED BY <1>0, <1>a, <2>1 DEF TypeInv, TypeOK, LearnedTyped
<1>b. /\ merged \in BOOLEAN
      /\ deliveries \subseteq [req : 1 .. MaxRequests, who : Addresses,
                              action : {0} \cup ActionIds, status : Results]
      /\ optedOut \subseteq OptingOut
      /\ mailed \subseteq (1 .. MaxRequests) \X Addresses
      /\ faults \in 0 .. MaxFaults
      /\ requests \in 0 .. MaxRequests
  BY <1>0 DEF TypeOK
<1>g. UNCHANGED <<learned, past>> => LearnedTyped'
  BY <1>0a DEF LearnedTyped
<1>c. Fault => faults' \in 0 .. MaxFaults
  BY <1>b, ConstantsAssumption DEF Fault
<1>d. UNCHANGED faults => faults' \in 0 .. MaxFaults
  BY <1>b
<1>e. UNCHANGED <<job, requests, actions>> => Asked' /\ (job \in [Workers -> Jobs])'
  BY <1>0 DEF TypeOK, Asked, AskedOf, Jobs, ActionIds
<1>f. ASSUME NEW w \in Workers, job[w].to # <<>> PROVE Head(job[w].to) \in Addresses
  BY <1>0, <1>f DEF TypeOK, Jobs
<1>1. CASE UNCHANGED vars
  BY <1>1, <1>a, <1>b, <1>e, <1>g DEF vars
<1>2. ASSUME NEW w \in Workers, NEW S, NEW cc, SendCaseEscalation(w, S, cc)
      PROVE  TypeInv'
  <2>1. /\ requests' = requests + 1 /\ requests < MaxRequests
        /\ UNCHANGED <<case, learned, people, past, faults>>
    BY <1>2 DEF SendCaseEscalation, Request
  <2>2. requests' \in 1 .. MaxRequests /\ requests <= requests'
    BY <1>b, <2>1, ConstantsAssumption
  <2>3. /\ job'[w].pc = "create" /\ job'[w].req = requests' /\ job'[w].out = optedOut
        /\ job'[w].to = Addressed(S, cc) /\ job'[w].act = Idle.act
        /\ job'[w].result = Idle.result /\ job'[w].known = Idle.known /\ Only(w)
    BY <1>0, <1>2, <2>1, Asking
  <2>4. Jobs' = Jobs
    BY <2>1 DEF Jobs, ActionIds
  <2>5. (job[w] \in Jobs)'
    <3>1. /\ Idle.act \in [Addresses -> {0} \cup ActionIds]
          /\ Idle.result \in [Addresses -> Outcomes \cup Results \cup {None}]
          /\ Idle.known \in [Kinds -> Nat]
      BY IdleTyped DEF Jobs
    <3>2. optedOut \subseteq Addresses
      BY <1>b, ConstantsAssumption
    <3>3. requests' \in 0 .. MaxRequests
      BY <2>2
    <3>4. Addressed(S, cc) \in Seq(Addresses)
      BY AddressedTyped
    <3>5. job'[w] \in Jobs
      BY <2>3, <3>1, <3>2, <3>3, <3>4, WholeTyped DEF Only
    <3> QED BY <2>4, <3>5
  <2>6. AskedOf(job[w])'
    <3>1. \A p \in Addresses : Idle.result[p] = None
      BY DEF Idle
    <3>2. requests' \in 1 .. requests'
      BY <2>2
    <3> QED BY <2>3, <3>1, <3>2 DEF AskedOf, Escalating
  <2>7. (job \in [Workers -> Jobs])' /\ Asked'
    BY <1>0, <2>1, <2>2, <2>3, <2>5, <2>6, OneTyped, OneAsked DEF ActionIds
  <2> QED BY <1>0, <2>1, <2>2, <2>7 DEF TypeInv, TypeOK, LearnedTyped, ActionIds
<1>3. ASSUME NEW w \in Workers, CreateActions(w) PROVE TypeInv'
  <2>1. UNCHANGED <<merged, deliveries, learned, people, past, faults, requests>>
    BY <1>3 DEF CreateActions, At
  <2>2. CASE merged
    <3>1. Stop(w) /\ UNCHANGED actions
      BY <1>3, <2>2 DEF CreateActions
    <3> QED BY <1>a, <1>b, <1>g, <2>1, <3>1, StoppedTyped
  <2>3. CASE ~merged
    <3>1. PICK S : S = Among(job[w].to, Range(Targets))
      OBVIOUS
    <3>2. /\ S \in Seq(Addresses)
          /\ actions' \in Seq(Action)
          /\ Len(actions') = Len(actions) + Len(S)
          /\ \A a \in ActionIds : a \in ActionIds' /\ actions'[a] = actions[a]
      BY <1>3, <2>3, <3>1, Created
    <3>3. /\ job[w].pc = "create" /\ job'[w].pc = "mail"
          /\ job'[w].act = Numbered(Len(actions), S) /\ job'[w].req = job[w].req
          /\ job'[w].to = job[w].to /\ job'[w].out = job[w].out
          /\ job'[w].result = job[w].result /\ job'[w].known = job[w].known /\ Only(w)
      BY <1>0, <1>3, <2>3, <3>1, Creates
    <3>4. ActionIds \subseteq ActionIds'
      BY <3>2
    <3>5. Len(actions) \in Nat /\ Len(S) \in Nat /\ ActionIds' = 1 .. Len(actions) + Len(S)
      BY <1>0, <3>2 DEF TypeOK, ActionIds
    <3>6. Numbered(Len(actions), S) \in [Addresses -> {0} \cup ActionIds']
      <4>1. \A p \in Addresses : Numbered(Len(actions), S)[p] \in {0} \cup ActionIds'
        BY <3>2, <3>5, NumberedTells
      <4>2. PICK g : g = Numbered(Len(actions), S)
        OBVIOUS
      <4>3. g = [p \in Addresses |-> g[p]]
        BY <4>2 DEF Numbered
      <4> QED BY <4>1, <4>2, <4>3
    <3>7. (job[w] \in Jobs)'
      <4>1. /\ job[w].req \in 0 .. MaxRequests /\ job[w].out \subseteq Addresses
            /\ job[w].to \in Seq(Addresses)
            /\ job[w].result \in [Addresses -> Outcomes \cup Results \cup {None}]
            /\ job[w].known \in [Kinds -> Nat]
        BY <1>0 DEF TypeOK, Jobs
      <4> QED BY <3>3, <3>6, <4>1 DEF Only, Whole, Jobs
    <3>8. AskedOf(job[w])'
      BY <1>0, <2>1, <3>3 DEF Asked, AskedOf, Escalating
    <3>9. (job \in [Workers -> Jobs])' /\ Asked'
      BY <1>0, <1>b, <2>1, <3>3, <3>4, <3>7, <3>8, OneTyped, OneAsked
    <3>10. deliveries' \subseteq [req : 1 .. MaxRequests, who : Addresses,
                                 action : {0} \cup ActionIds', status : Results]
      BY <1>b, <2>1, <3>4
    <3> QED BY <1>b, <2>1, <3>2, <3>9, <3>10 DEF TypeInv, TypeOK, LearnedTyped, Action
  <2> QED BY <2>2, <2>3
<1>4. ASSUME NEW w \in Workers, CheckOptOut(w) PROVE TypeInv'
  <2>1. /\ UNCHANGED <<case, learned, people, past, requests>> /\ job[w].pc = "mail"
        /\ job[w].to # <<>>
    BY <1>4 DEF CheckOptOut, At
  <2>2. faults' \in 0 .. MaxFaults
    BY <1>4, <1>c, <1>d DEF CheckOptOut
  <2>3. (job \in [Workers -> Jobs])' /\ Asked'
    <3>1. \/ Settled(w, "opted_out") \/ Settled(w, "failed")
          \/ job' = [job EXCEPT ![w].pc = "send"]
      BY <1>4 DEF CheckOptOut
    <3>2. "opted_out" \in Results /\ "failed" \in Results
      BY DEF Results
    <3> QED BY <2>1, <3>1, <3>2, SettledTyped, MovedTyped
  <2> QED BY <1>a, <1>b, <1>g, <2>1, <2>2, <2>3
<1>5. ASSUME NEW w \in Workers, SendMail(w) PROVE TypeInv'
  <2>1. /\ UNCHANGED <<case, learned, optedOut, past, requests>> /\ job[w].pc = "send"
        /\ job[w].to # <<>>
    BY <1>0, <1>5 DEF SendMail, At, Asked, AskedOf
  <2>2. faults' \in 0 .. MaxFaults
    BY <1>5, <1>c, <1>d DEF SendMail
  <2>3. mailed' \subseteq (1 .. MaxRequests) \X Addresses
    <3>1. Head(job[w].to) \in Addresses /\ job[w].req \in 1 .. MaxRequests
      BY <1>0, <1>b, <1>f, <2>1, ConstantsAssumption DEF Asked, AskedOf, Escalating
    <3> QED BY <1>5, <1>b, <3>1 DEF SendMail
  <2>4. (job \in [Workers -> Jobs])' /\ Asked'
    <3>1. Settled(w, "sent") \/ Settled(w, "failed")
      BY <1>5 DEF SendMail
    <3>2. "sent" \in Results /\ "failed" \in Results
      BY DEF Results
    <3> QED BY <2>1, <3>1, <3>2, SettledTyped
  <2> QED BY <1>a, <1>b, <1>g, <2>1, <2>2, <2>3, <2>4
<1>6. ASSUME NEW w \in Workers, Answer(w) PROVE TypeInv'
  <2>1. /\ UNCHANGED <<case, learned, people, past, requests, faults>> /\ job[w].pc = "mail"
        /\ job' = [job EXCEPT ![w].pc = "record"]
    BY <1>6 DEF Answer, At
  <2>2. job'[w].pc # "send"
    BY <1>0, <2>1, Moves
  <2>3. (job \in [Workers -> Jobs])' /\ Asked'
    BY <2>1, <2>2, MovedTyped
  <2> QED BY <1>a, <1>b, <1>g, <2>1, <2>3
<1>7. ASSUME NEW w \in Workers, Done(w) \/ Fail(w) PROVE TypeInv'
  <2>1. UNCHANGED <<case, learned, people, latest, overlapped, requests>> /\ Stop(w)
    BY <1>7 DEF Done, Fail, At
  <2>2. faults' \in 0 .. MaxFaults
    BY <1>7, <1>c, <1>d DEF Done, Fail
  <2>3. unlearned' \in [Addresses -> [Outcomes -> Nat]]
    <3>1. unlearned \in [Addresses -> [Outcomes -> Nat]]
      BY <1>0a DEF LearnedTyped
    <3>2. PICK h, k : h = Subject(w) /\ k = Finding(w)
      OBVIOUS
    <3>3. unlearned' = unlearned \/ unlearned' = [unlearned EXCEPT ![h][k] = @ + 1]
      BY <1>7, <3>2 DEF Done, Fail
    <3> QED BY <3>1, <3>3, OneMore
  <2>4. LearnedTyped'
    BY <1>0a, <2>1, <2>3 DEF LearnedTyped
  <2> QED BY <1>a, <1>b, <2>1, <2>2, <2>4, StoppedTyped
<1>8. ASSUME NEW p \in Addresses, OptOut(p) PROVE TypeInv'
  BY <1>8, <1>a, <1>b, <1>e, <1>g DEF OptOut
<1>9. CASE MergeCase
  BY <1>9, <1>a, <1>b, <1>e, <1>g DEF MergeCase
<1>10. ASSUME NEW w \in Workers, RecordDeliveries(w) PROVE TypeInv'
  <2>1. UNCHANGED <<merged, learned, people, past, requests, faults>>
    BY <1>10 DEF RecordDeliveries, At
  <2>2. /\ job[w].pc = "record" /\ job'[w].pc = "outcome"
        /\ job'[w].to = Addressed(Recipients(w), {}) /\ job'[w].result = job[w].result
        /\ job'[w].req = 0 /\ job'[w].out = {} /\ job'[w].act = Idle.act
        /\ job'[w].known = Idle.known /\ Only(w)
    BY <1>0, <1>10, Records
  <2>3. actions \in Seq(Action) /\ Len(actions) \in Nat /\ ActionIds = 1 .. Len(actions)
    BY <1>0 DEF TypeOK, Action, ActionIds
  <2>4. job[w].req \in 1 .. MaxRequests
    BY <1>0, <1>b, <2>2, ConstantsAssumption DEF Asked, AskedOf, Escalating
  <2>5. \A p \in Recipients(w) : job[w].result[p] \in Results
    BY <1>0, <2>2 DEF Asked, AskedOf, Escalating, Recipients
  <2>6. \A a \in ActionIds : StatusFrom(w, a) \in Results
    <3> SUFFICES ASSUME NEW a \in ActionIds PROVE StatusFrom(w, a) \in Results
      OBVIOUS
    <3> DEFINE own == {p \in Recipients(w) : job[w].act[p] = a}
    <3>1. CASE own = {}
      BY <3>1 DEF StatusFrom, Results
    <3>2. CASE own # {}
      <4>1. PICK p \in own : p = CHOOSE q \in own : TRUE
        BY <3>2
      <4> QED BY <2>5, <3>2, <4>1 DEF StatusFrom
    <3> QED BY <3>1, <3>2
  <2>7. ASSUME NEW a \in ActionIds
        PROVE  /\ actions'[a] \in Action
               /\ a \in DOMAIN actions'
    <3>1. actions[a] \in Action
      BY <2>3
    <3>2. [actions[a] EXCEPT !.status = StatusFrom(w, a)] \in Action
      BY <2>6, <3>1 DEF Action
    <3> QED BY <1>10, <3>1, <3>2 DEF RecordDeliveries
  <2>8. actions' \in Seq(Action) /\ ActionIds' = ActionIds
    <3>1. actions' \in [1 .. Len(actions) -> Action]
      <4>1. PICK g : g = actions'
        OBVIOUS
      <4>2. g = [a \in ActionIds |-> g[a]]
        BY <1>10, <4>1 DEF RecordDeliveries
      <4> QED BY <2>3, <2>7, <4>1, <4>2
    <3> QED BY <2>3, <3>1 DEF ActionIds
  <2>9. (job[w] \in Jobs)'
    <3>1. /\ Idle.act \in [Addresses -> {0} \cup ActionIds] /\ Idle.known \in [Kinds -> Nat]
      BY IdleTyped DEF Jobs
    <3>2. job[w].result \in [Addresses -> Outcomes \cup Results \cup {None}]
      BY <1>0 DEF TypeOK, Jobs
    <3>3. Addressed(Recipients(w), {}) \in Seq(Addresses) /\ 0 \in 0 .. MaxRequests
      BY AddressedTyped, ConstantsAssumption
    <3>4. job'[w] \in Jobs
      BY <2>2, <3>1, <3>2, <3>3, WholeTyped DEF Only
    <3>5. Jobs' = Jobs
      BY <2>8 DEF Jobs
    <3> QED BY <3>4, <3>5
  <2>10. AskedOf(job[w])'
    BY <2>2 DEF AskedOf, Escalating
  <2>11. (job \in [Workers -> Jobs])' /\ Asked'
    BY <1>0, <1>b, <2>1, <2>2, <2>8, <2>9, <2>10, OneTyped, OneAsked
  <2>12. deliveries' \subseteq [req : 1 .. MaxRequests, who : Addresses,
                               action : {0} \cup ActionIds, status : Results]
    <3>1. \A p \in Recipients(w) : p \in Addresses /\ job[w].act[p] \in {0} \cup ActionIds
      BY <1>0 DEF Recipients, TypeOK, Jobs
    <3> QED BY <1>b, <1>10, <2>4, <2>5, <3>1 DEF RecordDeliveries
  <2> QED BY <1>b, <2>1, <2>8, <2>11, <2>12 DEF TypeInv, TypeOK, LearnedTyped, Action
<1>11. ASSUME NEW w \in Workers, NEW p \in Replying, NEW k \in {"bounced", "fixed"},
              RecordReply(w, p, k)
       PROVE  TypeInv'
  <2>1. /\ requests' = requests + 1 /\ requests < MaxRequests
        /\ UNCHANGED <<case, learned, people, past, faults>>
    BY <1>11 DEF RecordReply, Request
  <2>2. requests' \in 1 .. MaxRequests /\ requests <= requests'
    BY <1>b, <2>1, ConstantsAssumption
  <2>3. /\ job'[w].pc = "outcome" /\ job'[w].to = <<p>>
        /\ job'[w].result = [Idle.result EXCEPT ![p] = k] /\ job'[w].req = 0
        /\ job'[w].out = {} /\ job'[w].act = Idle.act /\ job'[w].known = Idle.known
        /\ Only(w)
    BY <1>0, <1>11, Replies
  <2>4. (job[w] \in Jobs)'
    <3>1. /\ Idle.act \in [Addresses -> {0} \cup ActionIds] /\ Idle.known \in [Kinds -> Nat]
          /\ Idle.result \in [Addresses -> Outcomes \cup Results \cup {None}]
      BY IdleTyped DEF Jobs
    <3>2. [Idle.result EXCEPT ![p] = k] \in [Addresses -> Outcomes \cup Results \cup {None}]
      BY <3>1, ResultTyped DEF Outcomes, Kinds
    <3>3. <<p>> \in Seq(Addresses) /\ 0 \in 0 .. MaxRequests
      BY Lists, ConstantsAssumption
    <3>4. job'[w] \in Jobs
      BY <2>3, <3>1, <3>2, <3>3, WholeTyped DEF Only
    <3>5. Jobs' = Jobs
      BY <2>1 DEF Jobs, ActionIds
    <3> QED BY <3>4, <3>5
  <2>5. AskedOf(job[w])'
    BY <2>3 DEF AskedOf, Escalating
  <2>6. (job \in [Workers -> Jobs])' /\ Asked'
    BY <1>0, <2>1, <2>2, <2>3, <2>4, <2>5, OneTyped, OneAsked DEF ActionIds
  <2> QED BY <1>0, <2>1, <2>2, <2>6 DEF TypeInv, TypeOK, LearnedTyped, ActionIds
<1>12. ASSUME NEW w \in Workers, RecordOutcome(w) PROVE TypeInv'
  <2>1. /\ UNCHANGED <<case, memory, lastResult, people, unlearned, requests, faults>>
        /\ job[w].pc = "outcome" /\ job[w].to # <<>>
    BY <1>12 DEF RecordOutcome, At
  <2>2. /\ job'[w].pc = "recall" /\ job'[w].known = job[w].known
        /\ job'[w].req = job[w].req /\ job'[w].to = job[w].to /\ job'[w].out = job[w].out
        /\ job'[w].act = job[w].act /\ job'[w].result = job[w].result /\ Only(w)
    BY <1>0, <1>12, Moves DEF RecordOutcome
  <2>3. PICK h \in Addresses, k \in Outcomes \cup {None} : h = Subject(w) /\ k = Finding(w)
    BY <1>0, <2>1, SubjectTyped
  <2>4. LearnedTyped'
    <3>1. /\ outcomes' = [outcomes EXCEPT ![h][k] = @ + 1]
          /\ latest' = [latest EXCEPT ![h] = k]
          /\ overlapped' \subseteq overlapped \cup {h}
      BY <1>12, <2>3 DEF RecordOutcome
    <3>2. outcomes' \in [Addresses -> [Outcomes -> Nat]]
      BY <1>0a, <3>1, OneMore DEF LearnedTyped
    <3> QED BY <1>0a, <2>1, <2>3, <3>1, <3>2 DEF LearnedTyped
  <2>5. (job[w] \in Jobs)'
    <3>1. /\ job[w].req \in 0 .. MaxRequests /\ job[w].out \subseteq Addresses
          /\ job[w].act \in [Addresses -> {0} \cup ActionIds]
          /\ job[w].to \in Seq(Addresses) /\ job[w].known \in [Kinds -> Nat]
          /\ job[w].result \in [Addresses -> Outcomes \cup Results \cup {None}]
      BY <1>0 DEF TypeOK, Jobs
    <3>2. job'[w] \in Jobs
      BY <2>2, <3>1, WholeTyped DEF Only
    <3>3. Jobs' = Jobs
      BY <2>1 DEF Jobs, ActionIds
    <3> QED BY <3>2, <3>3
  <2>6. AskedOf(job[w])'
    BY <1>0, <2>1, <2>2 DEF Asked, AskedOf, Escalating
  <2>7. (job \in [Workers -> Jobs])' /\ Asked'
    BY <1>0, <1>b, <2>1, <2>2, <2>5, <2>6, ConstantsAssumption, OneTyped, OneAsked
       DEF ActionIds
  <2> QED BY <1>a, <1>b, <2>1, <2>4, <2>7
<1>13. ASSUME NEW w \in Workers, RecallMemory(w) PROVE TypeInv'
  <2>1. UNCHANGED <<case, learned, past, people, requests, faults>> /\ job[w].pc = "recall"
    BY <1>13 DEF RecallMemory, At
  <2>2. /\ job'[w].pc = "learn" /\ job'[w].known = memory[Subject(w)]
        /\ job'[w].req = job[w].req /\ job'[w].to = job[w].to /\ job'[w].out = job[w].out
        /\ job'[w].act = job[w].act /\ job'[w].result = job[w].result /\ Only(w)
    BY <1>0, <1>13, Recalls
  <2>3. job[w].to # <<>>
    BY <1>0, <2>1 DEF Asked, AskedOf
  <2>4. memory[Subject(w)] \in [Kinds -> Nat]
    BY <1>0, <2>3, SubjectTyped DEF TypeOK
  <2>5. (job[w] \in Jobs)'
    <3>1. /\ job[w].req \in 0 .. MaxRequests /\ job[w].out \subseteq Addresses
          /\ job[w].act \in [Addresses -> {0} \cup ActionIds]
          /\ job[w].to \in Seq(Addresses)
          /\ job[w].result \in [Addresses -> Outcomes \cup Results \cup {None}]
      BY <1>0 DEF TypeOK, Jobs
    <3>2. job'[w] \in Jobs
      BY <2>2, <2>4, <3>1, WholeTyped DEF Only
    <3>3. Jobs' = Jobs
      BY <2>1 DEF Jobs, ActionIds
    <3> QED BY <3>2, <3>3
  <2>6. AskedOf(job[w])'
    <3>1. AskedOf(job[w]) /\ job[w].pc \notin Escalating /\ job'[w].pc \notin Escalating
      BY <1>0, <2>1, <2>2 DEF Asked, Escalating
    <3> QED BY <2>1, <2>2, <2>3, <3>1 DEF AskedOf, Escalating
  <2>7. (job \in [Workers -> Jobs])' /\ Asked'
    BY <1>0, <1>b, <2>1, <2>2, <2>5, <2>6, ConstantsAssumption, OneTyped, OneAsked
       DEF ActionIds
  <2> QED BY <1>a, <1>b, <1>g, <2>1, <2>7
<1>14. ASSUME NEW w \in Workers, UpsertMemory(w) PROVE TypeInv'
  <2>1. UNCHANGED <<case, outcomes, people, past, requests, faults>> /\ job[w].pc = "learn"
    BY <1>14 DEF UpsertMemory, At
  <2>2. job[w].to # <<>>
    BY <1>0, <2>1 DEF Asked, AskedOf
  <2>3. /\ job'[w].pc = "outcome" /\ job'[w].to = Tail(job[w].to)
        /\ job'[w].result = [job[w].result EXCEPT ![Subject(w)] = None]
        /\ job'[w].known = NoCount /\ job'[w].req = job[w].req
        /\ job'[w].out = job[w].out /\ job'[w].act = job[w].act /\ Only(w)
    BY <1>0, <1>14, Learns
  <2>4. PICK p \in Addresses, k \in Outcomes \cup {None} : p = Subject(w) /\ k = Finding(w)
    BY <1>0, <2>2, SubjectTyped
  <2>5. LearnedTyped'
    <3>1. memory' \in [Addresses -> [Kinds -> Nat]]
      BY <1>0, <1>14, <2>2, Written
    <3>2. lastResult' = [lastResult EXCEPT ![p] = k]
      BY <1>14, <2>4 DEF UpsertMemory
    <3> QED BY <1>0a, <2>1, <2>4, <3>1, <3>2 DEF LearnedTyped
  <2>6. (job[w] \in Jobs)'
    <3>1. /\ job[w].req \in 0 .. MaxRequests /\ job[w].out \subseteq Addresses
          /\ job[w].act \in [Addresses -> {0} \cup ActionIds]
          /\ job[w].to \in Seq(Addresses)
          /\ job[w].result \in [Addresses -> Outcomes \cup Results \cup {None}]
      BY <1>0 DEF TypeOK, Jobs
    <3>2. Tail(job[w].to) \in Seq(Addresses)
      BY <2>2, <3>1
    <3>3. [job[w].result EXCEPT ![p] = None]
            \in [Addresses -> Outcomes \cup Results \cup {None}]
      BY <3>1, ResultTyped
    <3>4. NoCount \in [Kinds -> Nat]
      BY DEF NoCount
    <3>5. job'[w] \in Jobs
      BY <2>3, <2>4, <3>1, <3>2, <3>3, <3>4, WholeTyped DEF Only
    <3>6. Jobs' = Jobs
      BY <2>1 DEF Jobs, ActionIds
    <3> QED BY <3>5, <3>6
  <2>7. AskedOf(job[w])'
    BY <1>0, <2>1, <2>3 DEF Asked, AskedOf, Escalating
  <2>8. (job \in [Workers -> Jobs])' /\ Asked'
    BY <1>0, <1>b, <2>1, <2>3, <2>6, <2>7, ConstantsAssumption, OneTyped, OneAsked
       DEF ActionIds
  <2> QED BY <1>a, <1>b, <2>1, <2>5, <2>8
<1> QED
  BY <1>1, <1>2, <1>3, <1>4, <1>5, <1>6, <1>7, <1>8, <1>9, <1>10, <1>11, <1>12, <1>13,
     <1>14 DEF Next

\* The type invariant (TypeOK) of a case's escalations.
THEOREM TypeCorrect == Spec => []TypeOK
<1>1. TypeInv => TypeOK
  BY DEF TypeInv
<1> QED BY <1>1, TypeInit, TypeStep, PTL DEF Spec

-----------------------------------------------------------------------------
(* What is recorded as sent was mailed. *)

\* Actions keep their request and their target.
Kept == \A a \in ActionIds :
  /\ a \in ActionIds'
  /\ actions'[a].req = actions[a].req
  /\ actions'[a].target = actions[a].target

\* The record of the deliveries rewrites the status of actions of its request alone.
LEMMA Rewritten ==
  ASSUME TypeOK, NEW w \in Workers, RecordDeliveries(w)
  PROVE  /\ ActionIds' = ActionIds
         /\ \A a \in ActionIds :
              /\ actions'[a].req = actions[a].req
              /\ actions'[a].target = actions[a].target
              /\ \/ actions'[a].status = actions[a].status
                 \/ /\ actions[a].req = job[w].req
                    /\ ~merged
                    /\ actions'[a].status = StatusFrom(w, a)
<1>1. actions' = [a \in ActionIds |->
        IF actions[a].req = job[w].req /\ ~merged
        THEN [actions[a] EXCEPT !.status = StatusFrom(w, a)] ELSE actions[a]]
  BY DEF RecordDeliveries
<1>2. ActionIds' = ActionIds
  BY <1>1 DEF ActionIds
<1>3. ASSUME NEW a \in ActionIds
      PROVE  /\ actions'[a].req = actions[a].req
             /\ actions'[a].target = actions[a].target
             /\ \/ actions'[a].status = actions[a].status
                \/ /\ actions[a].req = job[w].req
                   /\ ~merged
                   /\ actions'[a].status = StatusFrom(w, a)
  <2>1. actions \in Seq(Action)
    BY DEF TypeOK, Action
  <2>2. actions[a] \in Action
    BY <2>1 DEF ActionIds
  <2> QED BY <1>1, <2>2 DEF Action
<1> QED BY <1>2, <1>3

LEMMA OthersSent ==
  ASSUME SentInv, NEW w \in Workers, Only(w), Kept, mailed \subseteq mailed',
         MailedOf(job[w])', HeldBy(job[w])'
  PROVE  ResultMailed' /\ ActionOfTarget'
<1>0. TypeOK
  BY DEF SentInv, TypeInv
<1> SUFFICES ASSUME NEW v \in Workers, v # w PROVE MailedOf(job[v])' /\ HeldBy(job[v])'
  BY DEF ResultMailed, ActionOfTarget
<1>1. job'[v] = job[v] /\ MailedOf(job[v]) /\ HeldBy(job[v])
  BY <1>0, Elsewhere DEF SentInv, ResultMailed, ActionOfTarget
<1>2. MailedOf(job[v])'
  BY <1>1 DEF MailedOf
<1>3. \A p \in Addresses : job[v].act[p] # 0 => job[v].act[p] \in ActionIds
  BY <1>0 DEF TypeOK, Jobs
<1>4. HeldBy(job[v])'
  BY <1>1, <1>3 DEF HeldBy, Kept
<1> QED BY <1>2, <1>4

LEMMA SettledSent ==
  ASSUME SentInv, NEW w \in Workers, NEW r, Settled(w, r), job[w].pc \in {"mail", "send"},
         UNCHANGED actions, mailed \subseteq mailed',
         r = "sent" => <<job[w].req, Head(job[w].to)>> \in mailed'
  PROVE  ResultMailed' /\ ActionOfTarget'
<1>0. TypeOK /\ MailedOf(job[w]) /\ HeldBy(job[w])
  BY DEF SentInv, TypeInv, ResultMailed, ActionOfTarget
<1>1. /\ job'[w].pc = "mail" /\ job'[w].req = job[w].req /\ job'[w].act = job[w].act
      /\ job'[w].result = [job[w].result EXCEPT ![Head(job[w].to)] = r] /\ Only(w)
  BY <1>0, Settles
<1>2. MailedOf(job[w])'
  <2>1. \A p \in Addresses :
          job'[w].result[p] = IF p = Head(job[w].to) THEN r ELSE job[w].result[p]
    BY <1>0, <1>1 DEF TypeOK, Jobs
  <2> QED BY <1>0, <1>1, <2>1 DEF MailedOf, Escalating
<1>3. HeldBy(job[w])'
  BY <1>0, <1>1 DEF HeldBy, Numbering
<1> QED BY <1>1, <1>2, <1>3, OthersSent DEF Kept, ActionIds

\* What is done after the deliveries were recorded, or of a reply, is no escalation.
LEMMA Afterwards ==
  ASSUME TypeOK, NEW w \in Workers,
         \/ \E p \in Replying, k \in {"bounced", "fixed"} : RecordReply(w, p, k)
         \/ RecordOutcome(w) \/ RecallMemory(w) \/ UpsertMemory(w) \/ Done(w) \/ Fail(w)
  PROVE  job'[w].pc \in {"idle", "outcome", "recall", "learn"} /\ Only(w)
<1>1. CASE \E p \in Replying, k \in {"bounced", "fixed"} : RecordReply(w, p, k)
  BY <1>1, Replies
<1>2. CASE RecordOutcome(w) \/ RecallMemory(w)
  BY <1>2, Moves, Recalls DEF RecordOutcome
<1>3. CASE UpsertMemory(w)
  BY <1>3, Learns
<1>4. CASE Done(w) \/ Fail(w)
  BY <1>4, Stopped DEF Done, Fail, Idle
<1> QED BY <1>1, <1>2, <1>3, <1>4

LEMMA SentInit == Init => SentInv
<1> SUFFICES ASSUME Init PROVE SentInv
  OBVIOUS
<1>1. /\ deliveries = {} /\ actions = <<>>
      /\ job = [w \in Workers |-> Idle]
  BY DEF Init
<1>2. ResultMailed /\ ActionOfTarget
  BY <1>1 DEF ResultMailed, ActionOfTarget, MailedOf, HeldBy, Escalating, Numbering, Idle
<1>3. SentIsMailed
  BY <1>1 DEF SentIsMailed, ActionIds
<1> QED BY <1>2, <1>3, TypeInit DEF SentInv

LEMMA SentStep == SentInv /\ [Next]_vars => SentInv'
<1> SUFFICES ASSUME SentInv, [Next]_vars PROVE SentInv'
  OBVIOUS
<1>0. TypeInv /\ TypeOK /\ Asked /\ TypeInv' /\ SentIsMailed
  BY TypeStep DEF SentInv, TypeInv
<1> USE DEF case, learned, people, past
<1>a. ASSUME UNCHANGED <<actions, deliveries>>, mailed \subseteq mailed',
             ResultMailed', ActionOfTarget'
      PROVE  SentInv'
  <2>1. SentIsMailed'
    BY <1>0, <1>a DEF SentIsMailed, ActionIds
  <2> QED BY <1>0, <1>a, <2>1 DEF SentInv
<1>b. ASSUME UNCHANGED <<actions, mailed, job>> PROVE ResultMailed' /\ ActionOfTarget'
  BY <1>b DEF SentInv, ResultMailed, ActionOfTarget, MailedOf, HeldBy
\* A handler that is no longer at its escalation holds nothing.
<1>c. ASSUME NEW w \in Workers, Only(w), job'[w].pc \notin Escalating, Kept,
             mailed \subseteq mailed'
      PROVE  ResultMailed' /\ ActionOfTarget'
  BY <1>c, OthersSent DEF MailedOf, HeldBy, Escalating, Numbering
<1>d. UNCHANGED actions => Kept
  BY DEF Kept, ActionIds
<1>1. CASE UNCHANGED vars
  BY <1>1, <1>a, <1>b DEF vars
<1>2. ASSUME NEW w \in Workers, NEW S, NEW cc, SendCaseEscalation(w, S, cc)
      PROVE  SentInv'
  <2>1. UNCHANGED <<case, people>>
    BY <1>2 DEF SendCaseEscalation
  <2>2. job'[w].pc = "create" /\ job'[w].result = Idle.result /\ Only(w)
    BY <1>0, <1>2, Asking
  <2>3. \A p \in Addresses : Idle.result[p] # "sent"
    BY ConstantsAssumption DEF Idle, Results
  <2>4. MailedOf(job[w])' /\ HeldBy(job[w])'
    BY <2>2, <2>3 DEF MailedOf, HeldBy, Numbering
  <2> QED BY <1>a, <1>d, <2>1, <2>2, <2>4, OthersSent
<1>3. ASSUME NEW w \in Workers, CreateActions(w) PROVE SentInv'
  <2>1. UNCHANGED <<deliveries, mailed>>
    BY <1>3 DEF CreateActions
  <2>2. CASE merged
    <3>1. Stop(w) /\ UNCHANGED actions
      BY <1>3, <2>2 DEF CreateActions
    <3>2. job'[w].pc \notin Escalating /\ Only(w)
      BY <1>0, <3>1, Stopped DEF Idle, Escalating
    <3> QED BY <1>a, <1>c, <1>d, <2>1, <3>1, <3>2
  <2>3. CASE ~merged
    <3>1. PICK S : S = Among(job[w].to, Range(Targets))
      OBVIOUS
    <3>2. /\ S \in Seq(Addresses)
          /\ actions' \in Seq(Action)
          /\ Len(actions') = Len(actions) + Len(S)
          /\ \A a \in ActionIds : a \in ActionIds' /\ actions'[a] = actions[a]
          /\ \A a \in ActionIds' \ ActionIds :
               a - Len(actions) \in 1 .. Len(S) /\
               actions'[a] = [req |-> job[w].req, target |-> S[a - Len(actions)],
                              status |-> "pending"]
      BY <1>0, <1>3, <2>3, <3>1, Created
    <3>3. /\ job[w].pc = "create" /\ job'[w].pc = "mail"
          /\ job'[w].act = Numbered(Len(actions), S) /\ job'[w].req = job[w].req
          /\ job'[w].result = job[w].result /\ Only(w)
      BY <1>0, <1>3, <2>3, <3>1, Creates
    <3>4. MailedOf(job[w])'
      BY <2>1, <3>3 DEF SentInv, ResultMailed, MailedOf, Escalating
    <3>5. HeldBy(job[w])'
      <4> SUFFICES ASSUME NEW p \in Addresses, job'[w].act[p] # 0
                   PROVE  /\ actions'[job'[w].act[p]].target = p
                          /\ actions'[job'[w].act[p]].req = job'[w].req
        BY DEF HeldBy
      <4>0. Len(actions) \in Nat /\ Len(S) \in Nat
        BY <1>0, <3>2 DEF TypeOK
      <4>1. PICK i \in 1 .. Len(S) : S[i] = p /\ job'[w].act[p] = Len(actions) + i
        BY <3>2, <3>3, <4>0, NumberedTells
      <4>2. PICK a : a = Len(actions) + i
        OBVIOUS
      <4>3. a \in ActionIds' \ ActionIds /\ a - Len(actions) = i
        BY <1>0, <3>2, <4>0, <4>2 DEF ActionIds, TypeOK
      <4>4. actions'[a] = [req |-> job[w].req, target |-> S[i], status |-> "pending"]
        BY <3>2, <4>3
      <4> QED BY <3>3, <4>1, <4>2, <4>4
    <3>6. ResultMailed' /\ ActionOfTarget'
      BY <2>1, <3>2, <3>3, <3>4, <3>5, OthersSent DEF Kept
    <3>7. SentIsMailed'
      <4>1. ASSUME NEW a \in ActionIds', actions'[a].status = "sent"
            PROVE  <<actions'[a].req, actions'[a].target>> \in mailed
        <5>1. a \in ActionIds
          <6> SUFFICES ASSUME a \in ActionIds' \ ActionIds PROVE FALSE
            BY <4>1
          <6>1. actions'[a] = [req |-> job[w].req, target |-> S[a - Len(actions)],
                               status |-> "pending"]
            BY <3>2
          <6>2. actions'[a].status = "pending"
            BY <6>1
          <6> QED BY <4>1, <6>2
        <5> QED BY <1>0, <3>2, <4>1, <5>1 DEF SentIsMailed
      <4> QED BY <1>0, <2>1, <4>1 DEF SentIsMailed
    <3> QED BY <1>0, <3>6, <3>7 DEF SentInv
  <2> QED BY <2>2, <2>3
<1>4. ASSUME NEW w \in Workers, CheckOptOut(w) PROVE SentInv'
  <2>1. UNCHANGED <<case, people>> /\ job[w].pc = "mail"
    BY <1>4 DEF CheckOptOut, At
  <2>2. CASE Settled(w, "opted_out") \/ Settled(w, "failed")
    BY <1>a, <2>1, <2>2, SettledSent
  <2>3. CASE job' = [job EXCEPT ![w].pc = "send"]
    <3>1. /\ job'[w].pc = "send" /\ job'[w].req = job[w].req /\ job'[w].act = job[w].act
          /\ job'[w].result = job[w].result /\ Only(w)
      BY <1>0, <2>3, Moves
    <3>2. MailedOf(job[w])' /\ HeldBy(job[w])'
      BY <2>1, <3>1 DEF SentInv, ResultMailed, ActionOfTarget, MailedOf, HeldBy, Escalating,
                        Numbering
    <3> QED BY <1>a, <1>d, <2>1, <3>1, <3>2, OthersSent
  <2> QED BY <1>4, <2>2, <2>3 DEF CheckOptOut
<1>5. ASSUME NEW w \in Workers, SendMail(w) PROVE SentInv'
  <2>1. /\ UNCHANGED case /\ job[w].pc = "send"
        /\ mailed \subseteq mailed'
    BY <1>5 DEF SendMail, At
  <2>2. \/ Settled(w, "sent") /\ <<job[w].req, Head(job[w].to)>> \in mailed'
        \/ Settled(w, "failed")
    BY <1>5 DEF SendMail
  <2> QED BY <1>a, <2>1, <2>2, SettledSent
<1>6. ASSUME NEW w \in Workers, Answer(w) PROVE SentInv'
  <2>1. UNCHANGED <<case, people>> /\ job[w].pc = "mail"
    BY <1>6 DEF Answer, At
  <2>2. /\ job'[w].pc = "record" /\ job'[w].req = job[w].req /\ job'[w].act = job[w].act
        /\ job'[w].result = job[w].result /\ Only(w)
    BY <1>0, <1>6, Moves DEF Answer
  <2>3. MailedOf(job[w])' /\ HeldBy(job[w])'
    BY <2>1, <2>2 DEF SentInv, ResultMailed, ActionOfTarget, MailedOf, HeldBy, Escalating,
                      Numbering
  <2> QED BY <1>a, <1>d, <2>1, <2>2, <2>3, OthersSent
<1>7. ASSUME NEW w \in Workers, RecordDeliveries(w) PROVE SentInv'
  <2>1. UNCHANGED mailed
    BY <1>7 DEF RecordDeliveries
  <2>2. job[w].pc = "record" /\ job'[w].pc = "outcome" /\ Only(w)
    BY <1>0, <1>7, Records
  <2>3. /\ \A p \in Addresses : job[w].result[p] = "sent" => <<job[w].req, p>> \in mailed
        /\ \A p \in Addresses : job[w].act[p] # 0 =>
             actions[job[w].act[p]].target = p /\ actions[job[w].act[p]].req = job[w].req
    BY <2>2 DEF SentInv, ResultMailed, ActionOfTarget, MailedOf, HeldBy, Escalating, Numbering
  <2>6. \A a \in ActionIds :
          /\ actions'[a].req = actions[a].req
          /\ actions'[a].target = actions[a].target
          /\ \/ actions'[a].status = actions[a].status
             \/ actions[a].req = job[w].req /\ actions'[a].status = StatusFrom(w, a)
    BY <1>0, <1>7, Rewritten
  <2>7. ActionIds' = ActionIds
    BY <1>0, <1>7, Rewritten
  <2>8. Kept
    BY <2>6, <2>7 DEF Kept
  <2>9. ASSUME NEW a \in ActionIds, actions'[a].status = "sent"
        PROVE  <<actions'[a].req, actions'[a].target>> \in mailed
    <3>1. CASE actions'[a].status = actions[a].status
      BY <1>0, <2>6, <2>9, <3>1 DEF SentIsMailed
    <3>2. CASE actions[a].req = job[w].req /\ actions'[a].status = StatusFrom(w, a)
      <4> DEFINE own == {p \in Recipients(w) : job[w].act[p] = a}
      <4>1. own # {} /\ StatusFrom(w, a) = job[w].result[CHOOSE q \in own : TRUE]
        BY <2>9, <3>2 DEF StatusFrom
      <4>2. PICK p \in own : p = CHOOSE q \in own : TRUE
        BY <4>1
      <4>3. p \in Addresses /\ job[w].act[p] = a /\ job[w].result[p] = "sent"
        BY <2>9, <3>2, <4>1, <4>2 DEF Recipients
      <4>4. a # 0
        BY <1>0 DEF TypeOK, ActionIds
      <4> QED BY <2>3, <2>6, <4>3, <4>4
    <3> QED BY <2>6, <3>1, <3>2
  <2>10. \A d \in deliveries' : d.status = "sent" => <<d.req, d.who>> \in mailed
    <3> SUFFICES ASSUME NEW d \in deliveries', d.status = "sent"
                 PROVE  <<d.req, d.who>> \in mailed
      OBVIOUS
    <3>1. CASE d \in deliveries
      BY <1>0, <3>1 DEF SentIsMailed
    <3>2. CASE d \notin deliveries
      <4>1. PICK p \in Recipients(w) :
              d = [req |-> job[w].req, who |-> p, action |-> job[w].act[p],
                   status |-> job[w].result[p]]
        BY <1>7, <3>2 DEF RecordDeliveries
      <4> QED BY <2>3, <4>1 DEF Recipients
    <3> QED BY <3>1, <3>2
  <2>11. SentIsMailed'
    BY <2>1, <2>7, <2>9, <2>10 DEF SentIsMailed
  <2>12. ResultMailed' /\ ActionOfTarget'
    BY <1>c, <2>1, <2>2, <2>8 DEF Escalating
  <2> QED BY <1>0, <2>11, <2>12 DEF SentInv
<1>8. ASSUME NEW w \in Workers,
             \/ \E p \in Replying, k \in {"bounced", "fixed"} : RecordReply(w, p, k)
             \/ RecordOutcome(w) \/ RecallMemory(w) \/ UpsertMemory(w) \/ Done(w) \/ Fail(w)
      PROVE  SentInv'
  <2>1. UNCHANGED <<case, people>>
    BY <1>8 DEF RecordReply, RecordOutcome, RecallMemory, UpsertMemory, Done, Fail
  <2>2. job'[w].pc \in {"idle", "outcome", "recall", "learn"} /\ Only(w)
    BY <1>0, <1>8, Afterwards
  <2>3. job'[w].pc \notin Escalating
    BY <2>2 DEF Escalating
  <2> QED BY <1>a, <1>c, <1>d, <2>1, <2>2, <2>3
<1>9. ASSUME NEW p \in Addresses, OptOut(p) PROVE SentInv'
  BY <1>9, <1>a, <1>b DEF OptOut
<1>10. CASE MergeCase
  BY <1>10, <1>a, <1>b DEF MergeCase
<1> QED
  BY <1>1, <1>2, <1>3, <1>4, <1>5, <1>6, <1>7, <1>8, <1>9, <1>10 DEF Next

\* Nothing is recorded as sent, of a delivery or of an action, that was not mailed
\* (RecordCaseEscalationDeliveries): through failures, lost answers and merges.
THEOREM OnlyMailed == Spec => []SentIsMailed
<1>1. SentInv => SentIsMailed
  BY DEF SentInv
<1> QED BY <1>1, SentInit, SentStep, PTL DEF Spec

-----------------------------------------------------------------------------
(* Requests are told apart by their numbers. *)

LEMMA NumInit == Init => NumInv
<1> SUFFICES ASSUME Init PROVE NumInv
  OBVIOUS
<1>1. job = [w \in Workers |-> Idle] /\ actions = <<>> /\ mailed = {}
  BY DEF Init
<1>2. OwnRequest
  BY <1>1 DEF OwnRequest, Idle, Escalating
<1>3. Numbers
  BY <1>1 DEF Numbers, Idle, ActionIds
<1> QED BY <1>2, <1>3, TypeInit DEF NumInv

LEMMA NumStep == NumInv /\ [Next]_vars => NumInv'
<1> SUFFICES ASSUME NumInv, [Next]_vars PROVE NumInv'
  OBVIOUS
<1>0. TypeInv /\ TypeOK /\ Asked /\ TypeInv' /\ OwnRequest /\ Numbers
  BY TypeStep DEF NumInv, TypeInv
<1>r. requests \in Nat
  BY <1>0, ConstantsAssumption DEF TypeOK
<1> USE DEF case, learned, people, past
\* A handler goes on with its request, and mails and records for it alone.
<1>a. ASSUME NEW w \in Workers, Only(w), UNCHANGED requests,
             job'[w].pc \in Escalating =>
               job[w].pc \in Escalating /\ job'[w].req = job[w].req,
             job'[w].pc # "create",
             ActionIds' = ActionIds, \A a \in ActionIds : actions'[a].req = actions[a].req,
             \A m \in mailed' : m \in mailed \/ m[1] \in 1 .. requests
      PROVE  NumInv'
  <2>1. \A v \in Workers : v # w => job'[v] = job[v]
    BY <1>0, <1>a, Elsewhere
  <2>2. OwnRequest'
    BY <1>0, <1>a, <2>1 DEF OwnRequest
  <2>3. Numbers'
    <3>1. \A a \in ActionIds' : actions'[a].req \in 1 .. requests'
      BY <1>0, <1>a DEF Numbers
    <3>2. \A m \in mailed' : m[1] \in 1 .. requests'
      BY <1>0, <1>a DEF Numbers
    <3>3. \A v \in Workers : job'[v].pc = "create" =>
            \A a \in ActionIds' : actions'[a].req # job'[v].req
      BY <1>0, <1>a, <2>1 DEF Numbers
    <3> QED BY <3>1, <3>2, <3>3 DEF Numbers
  <2> QED BY <1>0, <2>2, <2>3 DEF NumInv
<1>b. UNCHANGED <<job, requests, actions, mailed>> => NumInv'
  BY <1>0 DEF NumInv, OwnRequest, Numbers, ActionIds
<1>c. UNCHANGED actions =>
        ActionIds' = ActionIds /\ \A a \in ActionIds : actions'[a].req = actions[a].req
  BY DEF ActionIds
<1>1. CASE UNCHANGED vars
  BY <1>1, <1>b DEF vars
<1>2. ASSUME NEW w \in Workers, NEW S, NEW cc, SendCaseEscalation(w, S, cc)
      PROVE  NumInv'
  <2>1. requests' = requests + 1 /\ UNCHANGED <<actions, mailed>>
    BY <1>2 DEF SendCaseEscalation, Request
  <2>2. /\ job'[w].pc = "create" /\ job'[w].req = requests + 1
        /\ \A v \in Workers : v # w => job'[v] = job[v]
    BY <1>0, <1>2, Asking, Elsewhere
  <2>3. \A v \in Workers : job[v].pc \in Escalating => job[v].req \in 1 .. requests
    BY <1>0 DEF Asked, AskedOf
  <2>4. OwnRequest'
    BY <1>0, <1>r, <2>2, <2>3 DEF OwnRequest
  <2>5. Numbers'
    <3>1. \A a \in ActionIds : actions[a].req \in 1 .. requests
      BY <1>0 DEF Numbers
    <3>2. \A m \in mailed : m[1] \in 1 .. requests
      BY <1>0 DEF Numbers
    <3>3. 1 .. requests \subseteq 1 .. requests' /\ requests + 1 \notin 1 .. requests
      BY <1>r, <2>1
    <3>4. \A v \in Workers : job'[v].pc = "create" =>
            \A a \in ActionIds : actions[a].req # job'[v].req
      BY <1>0, <2>2, <3>1, <3>3 DEF Numbers
    <3>5. ActionIds' = ActionIds
      BY <2>1 DEF ActionIds
    <3> QED BY <2>1, <3>1, <3>2, <3>3, <3>4, <3>5 DEF Numbers
  <2> QED BY <1>0, <2>4, <2>5 DEF NumInv
<1>3. ASSUME NEW w \in Workers, CreateActions(w) PROVE NumInv'
  <2>1. UNCHANGED <<mailed, requests>>
    BY <1>3 DEF CreateActions, At
  <2>2. CASE merged
    <3>1. Stop(w) /\ UNCHANGED actions
      BY <1>3, <2>2 DEF CreateActions
    <3>2. job'[w].pc = "idle" /\ Only(w)
      BY <1>0, <3>1, Stopped DEF Idle
    <3> QED BY <1>a, <1>c, <2>1, <3>1, <3>2 DEF Escalating
  <2>3. CASE ~merged
    <3>1. PICK S : S = Among(job[w].to, Range(Targets))
      OBVIOUS
    <3>2. /\ \A a \in ActionIds : a \in ActionIds' /\ actions'[a] = actions[a]
          /\ \A a \in ActionIds' \ ActionIds :
               actions'[a] = [req |-> job[w].req, target |-> S[a - Len(actions)],
                              status |-> "pending"]
      BY <1>0, <1>3, <2>3, <3>1, Created
    <3>3. /\ job[w].pc = "create" /\ job'[w].pc = "mail" /\ job'[w].req = job[w].req
          /\ \A v \in Workers : v # w => job'[v] = job[v]
      BY <1>0, <1>3, <2>3, <3>1, Creates, Elsewhere
    <3>4. \A a \in ActionIds' : \/ a \in ActionIds /\ actions'[a] = actions[a]
                             \/ actions'[a].req = job[w].req
      <4> SUFFICES ASSUME NEW a \in ActionIds' \ ActionIds
                   PROVE  actions'[a].req = job[w].req
        BY <3>2
      <4>1. actions'[a] = [req |-> job[w].req, target |-> S[a - Len(actions)],
                           status |-> "pending"]
        BY <3>2
      <4> QED BY <4>1
    <3>5. job[w].req \in 1 .. requests
      BY <1>0, <3>3 DEF Asked, AskedOf, Escalating
    <3>6. OwnRequest'
      BY <1>0, <3>3 DEF OwnRequest, Escalating
    <3>7. \A a \in ActionIds' : actions'[a].req \in 1 .. requests
      BY <1>0, <3>4, <3>5 DEF Numbers
    <3>8. ASSUME NEW v \in Workers, job'[v].pc = "create", NEW a \in ActionIds'
          PROVE  actions'[a].req # job'[v].req
      <4>1. v # w /\ job'[v] = job[v] /\ job[v].pc = "create"
        BY <3>3, <3>8
      <4>2. job[v].req # job[w].req
        BY <1>0, <3>3, <4>1 DEF OwnRequest, Escalating
      <4> QED BY <1>0, <3>4, <4>1, <4>2 DEF Numbers
    <3>9. Numbers'
      BY <1>0, <2>1, <3>7, <3>8 DEF Numbers
    <3> QED BY <1>0, <3>6, <3>9 DEF NumInv
  <2> QED BY <2>2, <2>3
<1>4. ASSUME NEW w \in Workers, CheckOptOut(w) \/ Answer(w) PROVE NumInv'
  <2>1. UNCHANGED <<actions, mailed, requests>> /\ job[w].pc = "mail"
    BY <1>4 DEF CheckOptOut, Answer, At
  <2>2. /\ job'[w].pc \in {"mail", "send", "record"} /\ job'[w].req = job[w].req
        /\ Only(w)
    BY <1>0, <1>4, Settles, Moves DEF CheckOptOut, Answer
  <2> QED BY <1>a, <1>c, <2>1, <2>2 DEF Escalating
<1>5. ASSUME NEW w \in Workers, SendMail(w) PROVE NumInv'
  <2>1. UNCHANGED <<actions, requests>> /\ job[w].pc = "send"
    BY <1>5 DEF SendMail, At
  <2>2. /\ job'[w].pc = "mail" /\ job'[w].req = job[w].req /\ Only(w)
    BY <1>0, <1>5, Settles DEF SendMail
  <2>3. job[w].req \in 1 .. requests
    BY <1>0, <2>1 DEF Asked, AskedOf, Escalating
  <2>4. \A m \in mailed' : m \in mailed \/ m[1] \in 1 .. requests
    BY <1>5, <2>3 DEF SendMail
  <2> QED BY <1>a, <1>c, <2>1, <2>2, <2>4 DEF Escalating
<1>6. ASSUME NEW w \in Workers, RecordDeliveries(w) PROVE NumInv'
  <2>1. UNCHANGED <<mailed, requests>>
    BY <1>6 DEF RecordDeliveries, At
  <2>2. job'[w].pc = "outcome" /\ Only(w)
    BY <1>0, <1>6, Records
  <2>3. ActionIds' = ActionIds /\ \A a \in ActionIds : actions'[a].req = actions[a].req
    BY <1>0, <1>6, Rewritten
  <2> QED BY <1>a, <2>1, <2>2, <2>3 DEF Escalating
<1>7. ASSUME NEW w \in Workers, NEW p \in Replying, NEW k, RecordReply(w, p, k)
      PROVE  NumInv'
  <2>1. requests' = requests + 1 /\ UNCHANGED <<actions, mailed>>
    BY <1>7 DEF RecordReply, Request
  <2>2. job'[w].pc = "outcome" /\ \A v \in Workers : v # w => job'[v] = job[v]
    BY <1>0, <1>7, Replies, Elsewhere
  <2>3. OwnRequest'
    BY <1>0, <2>2 DEF OwnRequest, Escalating
  <2>4. 1 .. requests \subseteq 1 .. requests' /\ ActionIds' = ActionIds
    BY <1>r, <2>1 DEF ActionIds
  <2>5. Numbers'
    BY <1>0, <2>1, <2>2, <2>4 DEF Numbers
  <2> QED BY <1>0, <2>3, <2>5 DEF NumInv
<1>8. ASSUME NEW w \in Workers, RecordOutcome(w) \/ RecallMemory(w) \/ UpsertMemory(w) \/ Done(w) \/ Fail(w)
      PROVE  NumInv'
  <2>1. UNCHANGED <<actions, mailed, requests>>
    BY <1>8 DEF RecordOutcome, RecallMemory, UpsertMemory, Done, Fail, At
  <2>2. job'[w].pc \in {"idle", "outcome", "recall", "learn"} /\ Only(w)
    BY <1>0, <1>8, Afterwards
  <2> QED BY <1>a, <1>c, <2>1, <2>2 DEF Escalating
<1>9. ASSUME NEW p \in Addresses, OptOut(p) PROVE NumInv'
  BY <1>9, <1>b DEF OptOut
<1>10. CASE MergeCase
  BY <1>10, <1>b DEF MergeCase
<1> QED
  BY <1>1, <1>2, <1>3, <1>4, <1>5, <1>6, <1>7, <1>8, <1>9, <1>10 DEF Next

-----------------------------------------------------------------------------
(* An action says what became of the mail to its own target. *)

LEMMA ActionTyped ==
  ASSUME TypeOK, NEW a \in ActionIds
  PROVE  a # 0 /\ actions[a].target \in Addresses
<1>1. actions \in Seq(Action)
  BY DEF TypeOK, Action
<1>2. a \in 1 .. Len(actions)
  BY <1>1 DEF ActionIds
<1>3. actions[a] \in Action
  BY <1>1, <1>2
<1> QED BY <1>2, <1>3, Lists DEF Action

\* A handler goes on while actions keep their request and target; one that is not at
\* the step keeps what it holds, unless there are new actions of its request.
LEMMA OthersTell ==
  ASSUME TellsInv, NEW w \in Workers, Only(w), Kept,
         \A a \in ActionIds' \ ActionIds : \A v \in Workers :
           v # w /\ job[v].pc \in Numbering => actions'[a].req # job[v].req,
         TellsOf(job[w])'
  PROVE  TargetOfAction'
<1>0. TypeOK
  BY DEF TellsInv, NumInv, TypeInv
<1> SUFFICES ASSUME NEW v \in Workers, v # w PROVE TellsOf(job[v])'
  BY DEF TargetOfAction
<1>1. job'[v] = job[v] /\ ListedOnce(job[v]) /\ HoldsAll(job[v]) /\ DealtWith(job[v])
  BY <1>0, Elsewhere DEF TellsInv, TargetOfAction, TellsOf
<1>2. HoldsAll(job[v])'
  <2> SUFFICES ASSUME job[v].pc \in Numbering, NEW a \in ActionIds',
                      actions'[a].req = job[v].req
               PROVE  /\ job[v].act[actions'[a].target] = a
                      /\ \/ job[v].result[actions'[a].target] # None
                         \/ actions'[a].target \in Range(job[v].to)
    BY <1>1 DEF HoldsAll
  <2>1. a \in ActionIds
    OBVIOUS
  <2>2. actions'[a].req = actions[a].req /\ actions'[a].target = actions[a].target
    BY <2>1 DEF Kept
  <2> QED BY <1>1, <2>1, <2>2 DEF HoldsAll
<1> QED BY <1>1, <1>2 DEF TellsOf, ListedOnce, DealtWith

\* Whoever is dealt with has a result, and the others are on the list still.
LEMMA SettledTells ==
  ASSUME TellsInv, NEW w \in Workers, NEW r \in Results, Settled(w, r),
         job[w].pc \in {"mail", "send"}, job[w].to # <<>>, UNCHANGED actions
  PROVE  TargetOfAction'
<1>0. TypeOK /\ TypeInv /\ HoldsAll(job[w])
  BY DEF TellsInv, NumInv, TypeInv, TargetOfAction, TellsOf
<1>1. /\ job'[w].pc = "mail" /\ job'[w].req = job[w].req /\ job'[w].act = job[w].act
      /\ job'[w].to = Tail(job[w].to)
      /\ job'[w].result = [job[w].result EXCEPT ![Head(job[w].to)] = r] /\ Only(w)
  BY <1>0, Settles
<1>2. /\ job[w].to \in Seq(Addresses)
      /\ job[w].result \in [Addresses -> Outcomes \cup Results \cup {None}]
  BY <1>0 DEF TypeOK, Jobs
<1>3. r # None
  BY ConstantsAssumption
<1>4. ASSUME NEW p \in Addresses, job[w].result[p] # None \/ p \in Range(job[w].to)
      PROVE  job'[w].result[p] # None \/ p \in Range(job'[w].to)
  <2>1. CASE p = Head(job[w].to)
    BY <1>1, <1>2, <1>3, <2>1
  <2>2. CASE p # Head(job[w].to) /\ job[w].result[p] # None
    BY <1>1, <1>2, <2>2
  <2>3. CASE p # Head(job[w].to) /\ p \in Range(job[w].to)
    <3>1. PICK k \in 1 .. Len(job[w].to) : p = job[w].to[k]
      BY <1>2, <2>3 DEF Range
    <3>2. k # 1
      BY <1>2, <2>3, <3>1
    <3>3. k - 1 \in DOMAIN Tail(job[w].to) /\ Tail(job[w].to)[k - 1] = p
      BY <1>2, <3>1, <3>2
    <3> QED BY <1>1, <3>3 DEF Range
  <2> QED BY <1>4, <2>1, <2>2, <2>3
<1>5. \A a \in ActionIds : actions[a].target \in Addresses
  BY <1>0, ActionTyped
<1>6. HoldsAll(job[w])'
  BY <1>0, <1>1, <1>4, <1>5 DEF HoldsAll, Numbering, ActionIds
<1>7. TellsOf(job[w])'
  BY <1>1, <1>6 DEF TellsOf, ListedOnce, DealtWith
<1> QED BY <1>1, <1>7, OthersTell DEF Kept, ActionIds

LEMMA TellsInit == Init => TellsInv
<1> SUFFICES ASSUME Init PROVE TellsInv
  OBVIOUS
<1>1. job = [w \in Workers |-> Idle] /\ actions = <<>>
  BY DEF Init
<1>2. TargetOfAction
  BY <1>1 DEF TargetOfAction, TellsOf, ListedOnce, HoldsAll, DealtWith, Numbering, Idle
<1>3. ActionTellsItsOwn
  BY <1>1 DEF ActionTellsItsOwn, ActionIds
<1> QED BY <1>2, <1>3, NumInit, SentInit DEF TellsInv

LEMMA TellsStep == TellsInv /\ [Next]_vars => TellsInv'
<1> SUFFICES ASSUME TellsInv, [Next]_vars PROVE TellsInv'
  OBVIOUS
<1>0. /\ TypeInv /\ TypeOK /\ Asked /\ NumInv /\ OwnRequest /\ Numbers
      /\ TargetOfAction /\ ActionTellsItsOwn /\ NumInv' /\ SentInv'
  BY NumStep, SentStep DEF TellsInv, NumInv, TypeInv
<1> USE DEF case, learned, people, past
<1>a. ASSUME UNCHANGED <<actions, deliveries>>, TargetOfAction' PROVE TellsInv'
  <2>1. ActionTellsItsOwn'
    BY <1>0, <1>a DEF ActionTellsItsOwn, ActionIds
  <2> QED BY <1>0, <1>a, <2>1 DEF TellsInv
<1>b. ASSUME UNCHANGED <<actions, job>> PROVE TargetOfAction'
  BY <1>0, <1>b DEF TargetOfAction, TellsOf, ListedOnce, HoldsAll, DealtWith, ActionIds
<1>c. UNCHANGED actions => Kept /\ ActionIds' = ActionIds
  BY DEF Kept, ActionIds
\* A handler that is not at an escalation holds no action.
<1>d. ASSUME NEW w \in Workers, Only(w), job'[w].pc \notin Escalating, UNCHANGED actions
      PROVE  TargetOfAction'
  <2>1. TellsOf(job[w])'
    BY <1>d DEF TellsOf, ListedOnce, HoldsAll, DealtWith, Escalating, Numbering
  <2> QED BY <1>c, <1>d, <2>1, OthersTell
<1>1. CASE UNCHANGED vars
  BY <1>1, <1>a, <1>b DEF vars
<1>2. ASSUME NEW w \in Workers, NEW S, NEW cc, SendCaseEscalation(w, S, cc)
      PROVE  TellsInv'
  <2>1. UNCHANGED case
    BY <1>2 DEF SendCaseEscalation
  <2>2. job'[w].pc = "create" /\ job'[w].to = Addressed(S, cc) /\ Only(w)
    BY <1>0, <1>2, Asking
  <2>3. \A i, j \in 1 .. Len(Addressed(S, cc)) :
          Addressed(S, cc)[i] = Addressed(S, cc)[j] => i = j
    BY AddressedTyped
  <2>4. TellsOf(job[w])'
    BY <2>2, <2>3 DEF TellsOf, ListedOnce, HoldsAll, DealtWith, Numbering
  <2> QED BY <1>a, <1>c, <2>1, <2>2, <2>4, OthersTell
<1>3. ASSUME NEW w \in Workers, CreateActions(w) PROVE TellsInv'
  <2>1. UNCHANGED deliveries
    BY <1>3 DEF CreateActions
  <2>2. CASE merged
    <3>1. Stop(w) /\ UNCHANGED actions
      BY <1>3, <2>2 DEF CreateActions
    <3>2. job'[w].pc \notin Escalating /\ Only(w)
      BY <1>0, <3>1, Stopped DEF Idle, Escalating
    <3> QED BY <1>a, <1>d, <2>1, <3>1, <3>2
  <2>3. CASE ~merged
    <3>1. PICK S : S = Among(job[w].to, Range(Targets))
      OBVIOUS
    <3>2. /\ S \in Seq(Addresses)
          /\ \A i \in 1 .. Len(S) : S[i] \in Range(job[w].to)
          /\ actions' \in Seq(Action)
          /\ Len(actions') = Len(actions) + Len(S)
          /\ \A a \in ActionIds : a \in ActionIds' /\ actions'[a] = actions[a]
          /\ \A a \in ActionIds' \ ActionIds :
               a - Len(actions) \in 1 .. Len(S) /\
               actions'[a] = [req |-> job[w].req, target |-> S[a - Len(actions)],
                              status |-> "pending"]
      BY <1>0, <1>3, <2>3, <3>1, Created
    <3>3. /\ job[w].pc = "create" /\ job'[w].pc = "mail"
          /\ job'[w].act = Numbered(Len(actions), S) /\ job'[w].req = job[w].req
          /\ job'[w].to = job[w].to /\ job'[w].result = job[w].result /\ Only(w)
      BY <1>0, <1>3, <2>3, <3>1, Creates
    <3>4. Len(actions) \in Nat
      BY <1>0 DEF TypeOK
    <3>5. job[w].to \in Seq(Addresses)
      BY <1>0 DEF TypeOK, Jobs
    <3>6. \A i, j \in 1 .. Len(S) : S[i] = S[j] => i = j
      <4>1. \A i, j \in 1 .. Len(job[w].to) : job[w].to[i] = job[w].to[j] => i = j
        BY <1>0, <3>3 DEF TargetOfAction, TellsOf, ListedOnce
      <4>2. PICK s \in Seq(Addresses) : s = job[w].to
        BY <3>5
      <4>3. \A i, j \in 1 .. Len(s) : s[i] = s[j] => i = j
        BY <4>1, <4>2
      <4>4. S = Among(s, Range(Targets))
        BY <3>1, <4>2
      <4> QED BY <4>3, <4>4, AmongOnce
    <3>7. \A a \in ActionIds' \ ActionIds :
            actions'[a].req = job[w].req /\ actions'[a].status = "pending"
      <4> SUFFICES ASSUME NEW a \in ActionIds' \ ActionIds
                   PROVE  actions'[a].req = job[w].req /\ actions'[a].status = "pending"
        OBVIOUS
      <4>1. actions'[a] = [req |-> job[w].req, target |-> S[a - Len(actions)],
                           status |-> "pending"]
        BY <3>2
      <4> QED BY <4>1
    <3>8. HoldsAll(job[w])'
      <4> SUFFICES ASSUME NEW a \in ActionIds', actions'[a].req = job[w].req
                   PROVE  /\ job'[w].act[actions'[a].target] = a
                          /\ actions'[a].target \in Range(job'[w].to)
        BY <3>3 DEF HoldsAll
      <4>1. a \notin ActionIds
        BY <1>0, <3>2, <3>3 DEF Numbers
      <4>2. PICK i \in 1 .. Len(S) : i = a - Len(actions)
        BY <3>2, <4>1
      <4>3. actions'[a] = [req |-> job[w].req, target |-> S[i], status |-> "pending"]
        BY <3>2, <4>1, <4>2
      <4>4. PICK p \in Addresses : p = S[i]
        BY <3>2
      <4>5. actions'[a].target = p /\ p \in Range(job'[w].to)
        BY <3>2, <3>3, <4>3, <4>4
      <4>6. PICK j \in 1 .. Len(S) : S[j] = p /\ Numbered(Len(actions), S)[p] = Len(actions) + j
        BY <3>2, <3>4, <4>4, NumberedTells
      <4>7. j = i
        BY <3>6, <4>4, <4>6
      <4>8. a \in Nat
        BY <3>2 DEF ActionIds
      <4>9. a = Len(actions) + i
        BY <3>4, <4>2, <4>8
      <4> QED BY <3>3, <4>5, <4>6, <4>7, <4>9
    <3>9. TellsOf(job[w])'
      BY <3>3, <3>8 DEF TellsOf, ListedOnce, DealtWith
    <3>10. \A v \in Workers : v # w /\ job[v].pc \in Numbering => job[w].req # job[v].req
      BY <1>0, <3>3 DEF OwnRequest, Escalating, Numbering
    <3>11. Kept
      BY <3>2 DEF Kept
    <3>12. TargetOfAction'
      BY <3>3, <3>7, <3>9, <3>10, <3>11, OthersTell
    <3>13. ActionTellsItsOwn'
      BY <1>0, <2>1, <3>2, <3>7 DEF ActionTellsItsOwn
    <3> QED BY <1>0, <3>12, <3>13 DEF TellsInv
  <2> QED BY <2>2, <2>3
<1>4. ASSUME NEW w \in Workers, CheckOptOut(w) PROVE TellsInv'
  <2>1. UNCHANGED case /\ job[w].pc = "mail" /\ job[w].to # <<>>
    BY <1>4 DEF CheckOptOut, At
  <2>2. CASE \E r \in {"opted_out", "failed"} : Settled(w, r)
    <3>1. TargetOfAction'
      BY <2>1, <2>2, SettledTells DEF Results
    <3> QED BY <1>a, <2>1, <3>1
  <2>3. CASE job' = [job EXCEPT ![w].pc = "send"]
    <3>1. /\ job'[w].pc = "send" /\ job'[w].req = job[w].req /\ job'[w].act = job[w].act
          /\ job'[w].to = job[w].to /\ job'[w].result = job[w].result /\ Only(w)
      BY <1>0, <2>3, Moves
    <3>2. TellsOf(job[w])'
      BY <1>0, <2>1, <3>1
         DEF TargetOfAction, TellsOf, ListedOnce, HoldsAll, DealtWith, Numbering, ActionIds
    <3> QED BY <1>a, <1>c, <2>1, <3>1, <3>2, OthersTell
  <2> QED BY <1>4, <2>2, <2>3 DEF CheckOptOut
<1>5. ASSUME NEW w \in Workers, SendMail(w) PROVE TellsInv'
  <2>1. UNCHANGED case /\ job[w].pc = "send"
    BY <1>5 DEF SendMail, At
  <2>2. job[w].to # <<>>
    BY <1>0, <2>1 DEF Asked, AskedOf
  <2>3. \E r \in {"sent", "failed"} : Settled(w, r)
    BY <1>5 DEF SendMail
  <2>4. TargetOfAction'
    BY <2>1, <2>2, <2>3, SettledTells DEF Results
  <2> QED BY <1>a, <2>1, <2>4
<1>6. ASSUME NEW w \in Workers, Answer(w) PROVE TellsInv'
  <2>1. UNCHANGED case /\ job[w].pc = "mail" /\ job[w].to = <<>>
    BY <1>6 DEF Answer, At
  <2>2. /\ job'[w].pc = "record" /\ job'[w].req = job[w].req /\ job'[w].act = job[w].act
        /\ job'[w].to = job[w].to /\ job'[w].result = job[w].result /\ Only(w)
    BY <1>0, <1>6, Moves DEF Answer
  <2>3. TellsOf(job[w])'
    BY <1>0, <2>1, <2>2
       DEF TargetOfAction, TellsOf, ListedOnce, HoldsAll, DealtWith, Numbering, ActionIds
  <2> QED BY <1>a, <1>c, <2>1, <2>2, <2>3, OthersTell
<1>7. ASSUME NEW w \in Workers, RecordDeliveries(w) PROVE TellsInv'
  <2>1. job[w].pc = "record" /\ job'[w].pc = "outcome" /\ Only(w)
    BY <1>0, <1>7, Records
  <2>2. /\ ActionIds' = ActionIds
        /\ \A a \in ActionIds :
             /\ actions'[a].req = actions[a].req
             /\ actions'[a].target = actions[a].target
             /\ \/ actions'[a].status = actions[a].status
                \/ actions[a].req = job[w].req /\ actions'[a].status = StatusFrom(w, a)
    BY <1>0, <1>7, Rewritten
  <2>3. TargetOfAction'
    <3>1. Kept
      BY <2>2 DEF Kept
    <3>2. TellsOf(job[w])'
      BY <2>1 DEF TellsOf, ListedOnce, HoldsAll, DealtWith, Numbering
    <3> QED BY <2>1, <2>2, <3>1, <3>2, OthersTell
  <2>4. /\ HoldsAll(job[w]) /\ job[w].to = <<>> /\ HeldBy(job[w])
    BY <1>0, <2>1 DEF TellsInv, TargetOfAction, TellsOf, DealtWith, SentInv, ActionOfTarget
  <2>5. ASSUME NEW a \in ActionIds, actions'[a].status # "pending"
        PROVE  \E d \in deliveries' : /\ d.action = a
                                      /\ d.who = actions'[a].target
                                      /\ d.status = actions'[a].status
    <3>1. CASE actions'[a].status = actions[a].status
      <4>1. PICK d \in deliveries : /\ d.action = a
                                    /\ d.who = actions[a].target
                                    /\ d.status = actions[a].status
        BY <1>0, <2>5, <3>1 DEF ActionTellsItsOwn
      <4>2. d \in deliveries'
        BY <1>7 DEF RecordDeliveries
      <4> QED BY <2>2, <3>1, <4>1, <4>2
    <3>2. CASE actions[a].req = job[w].req /\ actions'[a].status = StatusFrom(w, a)
      <4> DEFINE own == {p \in Recipients(w) : job[w].act[p] = a}
      <4>1. actions[a].target \in Addresses /\ a # 0
        BY <1>0, ActionTyped
      <4>2. job[w].act[actions[a].target] = a /\ job[w].result[actions[a].target] # None
        BY <2>1, <2>4, <3>2 DEF HoldsAll, Numbering, Range
      <4>3. actions[a].target \in own
        BY <4>1, <4>2 DEF Recipients
      <4>4. PICK p \in own : p = CHOOSE q \in own : TRUE
        BY <4>3
      <4>5. p \in Recipients(w) /\ p \in Addresses /\ job[w].act[p] = a
        BY <4>4 DEF Recipients
      <4>6. p = actions[a].target
        BY <2>1, <2>4, <4>1, <4>5 DEF HeldBy, Numbering
      <4>7. actions'[a].status = job[w].result[p]
        BY <3>2, <4>3, <4>4 DEF StatusFrom
      <4>8. PICK d : d = [req |-> job[w].req, who |-> p, action |-> job[w].act[p],
                          status |-> job[w].result[p]]
        OBVIOUS
      <4>9. d \in deliveries'
        BY <1>7, <4>5, <4>8 DEF RecordDeliveries
      <4> QED BY <2>2, <4>5, <4>6, <4>7, <4>8, <4>9
    <3> QED BY <2>2, <3>1, <3>2
  <2>6. ActionTellsItsOwn'
    BY <2>2, <2>5 DEF ActionTellsItsOwn
  <2> QED BY <1>0, <2>3, <2>6 DEF TellsInv
<1>8. ASSUME NEW w \in Workers,
             \/ \E p \in Replying, k \in {"bounced", "fixed"} : RecordReply(w, p, k)
             \/ RecordOutcome(w) \/ RecallMemory(w) \/ UpsertMemory(w) \/ Done(w) \/ Fail(w)
      PROVE  TellsInv'
  <2>1. UNCHANGED case
    BY <1>8 DEF RecordReply, RecordOutcome, RecallMemory, UpsertMemory, Done, Fail
  <2>2. job'[w].pc \in {"idle", "outcome", "recall", "learn"} /\ Only(w)
    BY <1>0, <1>8, Afterwards
  <2>3. TargetOfAction'
    BY <1>d, <2>1, <2>2 DEF Escalating
  <2> QED BY <1>a, <2>1, <2>3
<1>9. ASSUME NEW p \in Addresses, OptOut(p) PROVE TellsInv'
  BY <1>9, <1>a, <1>b DEF OptOut
<1>10. CASE MergeCase
  BY <1>10, <1>a, <1>b DEF MergeCase
<1> QED
  BY <1>1, <1>2, <1>3, <1>4, <1>5, <1>6, <1>7, <1>8, <1>9, <1>10 DEF Next

\* What an action says is what became of the mail to its own target, in whatever order
\* the results come: they are matched to the actions by target (SendCaseEscalation).
THEOREM TellsItsOwn == Spec => []ActionTellsItsOwn
<1>1. TellsInv => ActionTellsItsOwn
  BY DEF TellsInv
<1> QED BY <1>1, TellsInit, TellsStep, PTL DEF Spec

-----------------------------------------------------------------------------
(* Opt-outs are honoured. *)

LEMMA OutInit == Init => OutInv
<1> SUFFICES ASSUME Init PROVE OutInv
  OBVIOUS
<1>1. job = [w \in Workers |-> Idle]
  BY DEF Init
<1>2. OutKnown /\ OptOutHonoured
  BY <1>1 DEF OutKnown, OptOutHonoured, Idle
<1> QED BY <1>2, NumInit DEF OutInv

LEMMA OutStep == OutInv /\ [Next]_vars => OutInv'
<1> SUFFICES ASSUME OutInv, [Next]_vars PROVE OutInv'
  OBVIOUS
<1>0. /\ TypeInv /\ TypeOK /\ Asked /\ OwnRequest /\ Numbers /\ OutKnown /\ OptOutHonoured
      /\ NumInv'
  BY NumStep DEF OutInv, NumInv, TypeInv
<1>r. requests \in Nat
  BY <1>0, ConstantsAssumption DEF TypeOK
<1> USE DEF case, learned, people, past
\* A handler forgets who had opted out, or goes on, and mails nobody.
<1>a. ASSUME NEW w \in Workers, Only(w), UNCHANGED <<optedOut, mailed>>,
             \/ job'[w].out = {}
             \/ /\ job'[w].out = job[w].out /\ job'[w].req = job[w].req
                /\ job'[w].pc = "send" => Head(job'[w].to) \notin job[w].out
      PROVE  OutInv'
  <2>1. \A v \in Workers : v # w => job'[v] = job[v]
    BY <1>0, <1>a, Elsewhere
  <2>2. OutKnown'
    BY <1>0, <1>a, <2>1 DEF OutKnown
  <2>3. OptOutHonoured'
    BY <1>0, <1>a, <2>1 DEF OptOutHonoured
  <2> QED BY <1>0, <2>2, <2>3 DEF OutInv
<1>1. CASE UNCHANGED vars
  BY <1>0, <1>1 DEF vars, OutInv, OutKnown, OptOutHonoured
<1>2. ASSUME NEW w \in Workers, NEW S, NEW cc, SendCaseEscalation(w, S, cc)
      PROVE  OutInv'
  <2>1. UNCHANGED <<optedOut, mailed>>
    BY <1>2 DEF SendCaseEscalation
  <2>2. /\ job'[w].pc = "create" /\ job'[w].req = requests + 1 /\ job'[w].out = optedOut
        /\ \A v \in Workers : v # w => job'[v] = job[v]
    BY <1>0, <1>2, Asking, Elsewhere
  <2>3. \A p \in Addresses \cup optedOut : <<requests + 1, p>> \notin mailed
    BY <1>0, <1>r DEF Numbers
  <2>4. OutKnown'
    BY <1>0, <2>1, <2>2 DEF OutKnown
  <2>5. OptOutHonoured'
    BY <1>0, <2>1, <2>2, <2>3 DEF OptOutHonoured
  <2> QED BY <1>0, <2>4, <2>5 DEF OutInv
<1>3. ASSUME NEW w \in Workers, CreateActions(w) PROVE OutInv'
  <2>1. UNCHANGED <<optedOut, mailed>>
    BY <1>3 DEF CreateActions
  <2>2. CASE merged
    <3>1. job'[w] = Idle /\ Only(w)
      BY <1>0, <1>3, <2>2, Stopped DEF CreateActions
    <3>2. job'[w].out = {}
      BY <3>1 DEF Idle
    <3> QED BY <1>a, <2>1, <3>1, <3>2
  <2>3. CASE ~merged
    <3>1. PICK S : S = Among(job[w].to, Range(Targets))
      OBVIOUS
    <3>2. /\ job'[w].pc = "mail" /\ job'[w].req = job[w].req /\ job'[w].out = job[w].out
          /\ Only(w)
      BY <1>0, <1>3, <2>3, <3>1, Creates
    <3> QED BY <1>a, <2>1, <3>2
  <2> QED BY <2>2, <2>3
<1>4. ASSUME NEW w \in Workers, CheckOptOut(w) PROVE OutInv'
  <2>1. UNCHANGED <<optedOut, mailed>>
    BY <1>4 DEF CheckOptOut
  <2>2. CASE \E r \in Results : Settled(w, r)
    <3>1. /\ job'[w].pc = "mail" /\ job'[w].req = job[w].req /\ job'[w].out = job[w].out
          /\ Only(w)
      BY <1>0, <2>2, Settles
    <3> QED BY <1>a, <2>1, <3>1
  <2>3. CASE job' = [job EXCEPT ![w].pc = "send"] /\ Head(job[w].to) \notin optedOut
    <3>1. /\ job'[w].req = job[w].req /\ job'[w].out = job[w].out /\ job'[w].to = job[w].to
          /\ Only(w)
      BY <1>0, <2>3, Moves
    <3>2. Head(job[w].to) \notin job[w].out
      BY <1>0, <2>3 DEF OutKnown
    <3> QED BY <1>a, <2>1, <3>1, <3>2
  <2> QED BY <1>4, <2>2, <2>3 DEF CheckOptOut, Results
<1>5. ASSUME NEW w \in Workers, SendMail(w) PROVE OutInv'
  <2>1. UNCHANGED optedOut /\ job[w].pc = "send"
    BY <1>5 DEF SendMail, At
  <2>2. /\ job'[w].pc = "mail" /\ job'[w].req = job[w].req /\ job'[w].out = job[w].out
        /\ \A v \in Workers : v # w => job'[v] = job[v]
    BY <1>0, <1>5, Settles, Elsewhere DEF SendMail
  <2>3. PICK h : h = Head(job[w].to)
    OBVIOUS
  <2>4. mailed' \subseteq mailed \cup {<<job[w].req, h>>} /\ h \notin job[w].out
    BY <1>0, <1>5, <2>1, <2>3 DEF SendMail, OutKnown
  <2>5. OutKnown'
    BY <1>0, <2>1, <2>2 DEF OutKnown
  <2>6. ASSUME NEW v \in Workers, NEW p \in job[v].out PROVE <<job[v].req, p>> \notin mailed'
    <3>1. <<job[v].req, p>> \notin mailed
      BY <1>0 DEF OptOutHonoured
    <3>2. job[v].pc \in Escalating
      BY <1>0, <2>6 DEF Asked, AskedOf
    <3>3. job[v].req = job[w].req => v = w
      BY <1>0, <2>1, <3>2 DEF OwnRequest, Escalating
    <3>4. <<job[v].req, p>> # <<job[w].req, h>>
      BY <2>4, <2>6, <3>3
    <3> QED BY <2>4, <3>1, <3>4
  <2>7. OptOutHonoured'
    BY <2>2, <2>6 DEF OptOutHonoured
  <2> QED BY <1>0, <2>5, <2>7 DEF OutInv
<1>6. ASSUME NEW w \in Workers, Answer(w) PROVE OutInv'
  <2>1. UNCHANGED <<optedOut, mailed>>
    BY <1>6 DEF Answer
  <2>2. /\ job'[w].pc = "record" /\ job'[w].req = job[w].req /\ job'[w].out = job[w].out
        /\ Only(w)
    BY <1>0, <1>6, Moves DEF Answer
  <2> QED BY <1>a, <2>1, <2>2
<1>7. ASSUME NEW w \in Workers, RecordDeliveries(w) PROVE OutInv'
  <2>1. UNCHANGED <<optedOut, mailed>>
    BY <1>7 DEF RecordDeliveries
  <2>2. job'[w].out = {} /\ Only(w)
    BY <1>0, <1>7, Records
  <2> QED BY <1>a, <2>1, <2>2
<1>8. ASSUME NEW w \in Workers,
             \/ \E p \in Replying, k \in {"bounced", "fixed"} : RecordReply(w, p, k)
             \/ RecordOutcome(w) \/ RecallMemory(w) \/ UpsertMemory(w) \/ Done(w) \/ Fail(w)
      PROVE  OutInv'
  <2>1. UNCHANGED <<optedOut, mailed>>
    BY <1>8 DEF RecordReply, RecordOutcome, RecallMemory, UpsertMemory, Done, Fail
  <2>2. job'[w].pc \in {"idle", "outcome", "recall", "learn"} /\ Only(w)
    BY <1>0, <1>8, Afterwards
  <2>3. job'[w].out = {}
    BY <1>0, <2>2 DEF NumInv, TypeInv, Asked, AskedOf, Escalating
  <2> QED BY <1>a, <2>1, <2>2, <2>3
<1>9. ASSUME NEW p \in Addresses, OptOut(p) PROVE OutInv'
  <2>1. UNCHANGED <<job, mailed>> /\ optedOut \subseteq optedOut'
    BY <1>9 DEF OptOut
  <2>2. OutKnown' /\ OptOutHonoured'
    BY <1>0, <2>1 DEF OutKnown, OptOutHonoured
  <2> QED BY <1>0, <2>2 DEF OutInv
<1>10. CASE MergeCase
  <2>1. UNCHANGED <<job, mailed, optedOut>>
    BY <1>10 DEF MergeCase
  <2> QED BY <1>0, <2>1 DEF OutInv, OutKnown, OptOutHonoured
<1> QED
  BY <1>1, <1>2, <1>3, <1>4, <1>5, <1>6, <1>7, <1>8, <1>9, <1>10 DEF Next

\* Nobody is mailed who had opted out when the escalation was asked for, a target or
\* someone in copy (SendCaseEscalationEmails).
THEOREM HonoursOptOut == Spec => []OptOutHonoured
<1>1. OutInv => OptOutHonoured
  BY DEF OutInv
<1> QED BY <1>1, OutInit, OutStep, PTL DEF Spec

-----------------------------------------------------------------------------
(* What is noted of an address agrees with the outcomes stored for it. *)

LEMMA PendingFinite ==
  ASSUME NEW p, NEW k
  PROVE  IsFiniteSet(Pending(p, k)) /\ Cardinality(Pending(p, k)) \in Nat
<1>1. Pending(p, k) \in SUBSET Workers
  BY DEF Pending, Learning
<1>2. IsFiniteSet(Pending(p, k))
  BY <1>1, FS_Subset, ConstantsAssumption
<1> QED BY <1>2, FS_CardinalityType

LEMMA MemInit == Init => MemInv
<1> SUFFICES ASSUME Init PROVE MemInv
  OBVIOUS
<1>1. \A w \in Workers : job[w].pc = "idle"
  BY DEF Init, Idle
<1>2. Listed
  BY <1>1 DEF Listed, ListedOf, LearningPcs
<1>3. ASSUME NEW p \in Addresses PROVE AgreesAt(p)
  <2>1. Learning(p) = {}
    BY <1>1 DEF Learning
  <2>2. ASSUME NEW k \in Kinds PROVE CountsAt(p, k)
    <3>1. Pending(p, k) = {}
      BY <2>1 DEF Pending
    <3>2. Cardinality(Pending(p, k)) = 0
      BY <3>1, FS_EmptySet
    <3>3. memory[p][k] = 0 /\ unlearned[p][k] = 0 /\ outcomes[p][k] = 0
      BY DEF Init, NoCount, NoOutcome, Outcomes
    <3> QED BY <3>2, <3>3 DEF CountsAt
  <2>3. KnownAt(p) /\ AloneAt(p)
    BY <2>1 DEF KnownAt, AloneAt
  <2>4. LatestAt(p)
    BY <2>1 DEF LatestAt, Init
  <2> QED BY <2>2, <2>3, <2>4 DEF AgreesAt
<1> QED BY <1>2, <1>3, TypeInit DEF MemInv

\* A step of w that neither is nor comes to be learning of p leaves what is noted of p.
LEMMA AsideOf ==
  ASSUME MemInv, NEW p \in Addresses, NEW w \in Workers, Only(w),
         w \notin Learning(p), (w \notin Learning(p))',
         memory'[p] = memory[p], outcomes'[p] = outcomes[p], unlearned'[p] = unlearned[p],
         lastResult'[p] = lastResult[p], latest'[p] = latest[p],
         p \in overlapped' <=> p \in overlapped
  PROVE  AgreesAt(p)'
<1>1. \A v \in Workers : v # w => job'[v] = job[v]
  BY Elsewhere DEF MemInv, TypeInv
<1>2. Learning(p)' = Learning(p)
  BY <1>1 DEF Learning, Subject
<1>3. \A v \in Learning(p) : v \in Workers /\ v # w
  BY DEF Learning
<1>4. \A v \in Learning(p) : job'[v] = job[v] /\ Finding(v)' = Finding(v)
  BY <1>1, <1>3 DEF Finding, Subject
<1>5. AgreesAt(p)
  BY DEF MemInv
<1>6. ASSUME NEW k \in Kinds PROVE CountsAt(p, k)'
  <2>1. Pending(p, k)' = Pending(p, k)
    BY <1>2, <1>4 DEF Pending
  <2>2. Cardinality(Pending(p, k))' = Cardinality(Pending(p, k))
    BY <2>1
  <2> QED BY <1>5, <2>2 DEF AgreesAt, CountsAt
<1>7. KnownAt(p)'
  BY <1>2, <1>4, <1>5 DEF AgreesAt, KnownAt
<1>8. AloneAt(p)'
  BY <1>2, <1>5 DEF AgreesAt, AloneAt
<1>9. LatestAt(p)'
  BY <1>2, <1>4, <1>5 DEF AgreesAt, LatestAt
<1> QED BY <1>6, <1>7, <1>8, <1>9 DEF AgreesAt

\* What a step of w leaves on the lists of the handlers.
LEMMA ListedKept ==
  ASSUME MemInv, NEW w \in Workers, Only(w), ListedOf(job'[w])
  PROVE  Listed'
<1>1. \A v \in Workers : v # w => job'[v] = job[v]
  BY Elsewhere DEF MemInv, TypeInv
<1> QED BY <1>1 DEF MemInv, Listed, ListedOf

\* The outcome that a handler is at is one.
LEMMA FindingIs ==
  ASSUME MemInv, NEW w \in Workers, job[w].pc \in LearningPcs, job[w].to # <<>>
  PROVE  Subject(w) \in Addresses /\ Finding(w) \in Outcomes
<1>1. Subject(w) \in Addresses /\ Finding(w) \in Outcomes \cup {None}
  BY SubjectTyped DEF MemInv, TypeInv
<1>2. job[w] \in Jobs
  BY DEF MemInv, TypeInv, TypeOK
<1>3. 1 \in 1 .. Len(job[w].to) /\ Subject(w) = job[w].to[1]
  BY <1>2 DEF Jobs, Subject
<1>4. PICK r : r = job[w].result[Subject(w)]
  OBVIOUS
<1>5. r # None /\ r \in Outcomes \cup Results \cup {None}
  BY <1>1, <1>2, <1>3, <1>4 DEF MemInv, Listed, ListedOf, Jobs
<1>6. OutcomeOf(r) \in Outcomes
  BY <1>5 DEF OutcomeOf, Outcomes, Kinds, Results
<1> QED BY <1>1, <1>4, <1>6 DEF Finding

\* What is learned of an address when a handler stores an outcome of it,
LEMMA AgreesStored ==
  ASSUME MemInv, NEW w \in Workers, RecordOutcome(w), NEW p, p = Subject(w)
  PROVE  AgreesAt(p)'
<1>1. /\ job[w].pc = "outcome" /\ job[w].to # <<>>
      /\ UNCHANGED <<memory, lastResult, unlearned>>
  BY DEF RecordOutcome, At
<1>2. PICK f \in Outcomes : f = Finding(w)
  BY <1>1, FindingIs DEF LearningPcs
<1>3. p \in Addresses
  BY <1>1, FindingIs DEF LearningPcs
<1>4. TypeOK /\ AgreesAt(p)
  BY <1>3 DEF MemInv, TypeInv
<1>5. /\ job'[w].pc = "recall" /\ job'[w].to = job[w].to /\ job'[w].result = job[w].result
      /\ \A v \in Workers : v # w => job'[v] = job[v]
  BY <1>4, Moves, Elsewhere DEF RecordOutcome
<1>6. /\ outcomes' = [outcomes EXCEPT ![p][f] = @ + 1]
      /\ latest' = [latest EXCEPT ![p] = f]
      /\ overlapped' = overlapped \cup {q \in {p} : Learning(q) # {}}
  BY <1>2 DEF RecordOutcome
<1>7. w \notin Learning(p)
  BY <1>1 DEF Learning
<1>8. (Subject(w) = p)' /\ (Finding(w) = f)'
  BY <1>2, <1>5 DEF Subject, Finding
<1>9. Learning(p)' = Learning(p) \cup {w}
  BY <1>5, <1>7, <1>8 DEF Learning, Subject
<1>10. \A v \in Learning(p) : v # w /\ job'[v] = job[v] /\ Finding(v)' = Finding(v)
  BY <1>5, <1>7 DEF Learning, Finding, Subject
<1>11. p \notin overlapped' => p \notin overlapped /\ Learning(p) = {}
  BY <1>6
<1>12. outcomes'[p][f] = outcomes[p][f] + 1 /\ latest'[p] = f
  BY <1>3, <1>4, <1>6 DEF TypeOK
<1>13. \A k \in Kinds : k # f => outcomes'[p][k] = outcomes[p][k]
  BY <1>3, <1>4, <1>6 DEF TypeOK, Outcomes
<1>14. ASSUME NEW k \in Kinds PROVE CountsAt(p, k)'
  <2>1. /\ memory[p][k] \in Nat /\ outcomes[p][k] \in Nat /\ unlearned[p][k] \in Nat
        /\ Cardinality(Pending(p, k)) \in Nat /\ IsFiniteSet(Pending(p, k))
    BY <1>3, <1>4, PendingFinite DEF TypeOK, Outcomes
  <2>2. CountsAt(p, k)
    BY <1>4 DEF AgreesAt
  <2>3. CASE k = f
    <3>1. Pending(p, k)' = Pending(p, k) \cup {w} /\ w \notin Pending(p, k)
      BY <1>7, <1>8, <1>9, <1>10, <2>3 DEF Pending
    <3>2. Cardinality(Pending(p, k))' = Cardinality(Pending(p, k)) + 1
      BY <2>1, <3>1, FS_AddElement
    <3>3. /\ memory'[p][k] = memory[p][k] /\ unlearned'[p][k] = unlearned[p][k]
          /\ outcomes'[p][k] = outcomes[p][k] + 1
      BY <1>1, <1>12, <2>3
    <3>4. unlearned'[p][k] + Cardinality(Pending(p, k))' =
            unlearned[p][k] + Cardinality(Pending(p, k)) + 1
      BY <2>1, <3>2, <3>3
    <3> QED BY <1>11, <2>1, <2>2, <3>3, <3>4 DEF CountsAt
  <2>4. CASE k # f
    <3>1. Pending(p, k)' = Pending(p, k)
      BY <1>8, <1>9, <1>10, <2>4 DEF Pending
    <3>2. Cardinality(Pending(p, k))' = Cardinality(Pending(p, k))
      BY <3>1
    <3> QED BY <1>1, <1>11, <1>13, <2>1, <2>2, <2>4, <3>2 DEF CountsAt
  <2> QED BY <2>3, <2>4
<1>15. KnownAt(p)'
  <2>1. \A v \in Learning(p)' : job'[v].pc = "learn" => v \in Learning(p) /\ job[v].pc = "learn"
    BY <1>5, <1>9, <1>10
  <2> QED BY <1>1, <1>4, <1>10, <1>11, <2>1 DEF AgreesAt, KnownAt
<1>16. AloneAt(p)'
  BY <1>9, <1>11 DEF AloneAt
<1>17. LatestAt(p)'
  <2>1. Learning(p)' # {}
    BY <1>9
  <2>2. p \notin overlapped' => \A v \in Learning(p)' : v = w
    BY <1>9, <1>11
  <2>3. p \notin overlapped' => \A v \in Learning(p)' : Finding(v)' = latest'[p]
    BY <1>8, <1>12, <2>2
  <2> QED BY <2>1, <2>3 DEF LatestAt
<1> QED BY <1>14, <1>15, <1>16, <1>17 DEF AgreesAt

\* reads what is known of it,
LEMMA AgreesRead ==
  ASSUME MemInv, NEW w \in Workers, RecallMemory(w), NEW p, p = Subject(w)
  PROVE  AgreesAt(p)'
<1>1. job[w].pc = "recall" /\ UNCHANGED <<learned, past>>
  BY DEF RecallMemory, At
<1>2. TypeOK /\ job[w].to # <<>>
  BY <1>1 DEF MemInv, TypeInv, Asked, AskedOf
<1>3. p \in Addresses
  BY <1>2, SubjectTyped
<1>4. AgreesAt(p) /\ memory[p] \in [Kinds -> Nat]
  BY <1>2, <1>3 DEF MemInv, TypeOK
<1>5. /\ job'[w].pc = "learn" /\ job'[w].to = job[w].to /\ job'[w].result = job[w].result
      /\ job'[w].known = memory[p]
      /\ \A v \in Workers : v # w => job'[v] = job[v]
  BY <1>2, Recalls, Elsewhere
<1>6. \A v \in Workers : Subject(v)' = Subject(v) /\ Finding(v)' = Finding(v)
  BY <1>5 DEF Subject, Finding
<1>7. Learning(p)' = Learning(p)
  BY <1>1, <1>5, <1>6 DEF Learning
<1>8. \A v \in Learning(p) : v \in Workers
  BY DEF Learning
<1>9. ASSUME NEW k \in Kinds PROVE CountsAt(p, k)'
  <2>1. Pending(p, k)' = Pending(p, k)
    BY <1>6, <1>7, <1>8 DEF Pending
  <2>2. Cardinality(Pending(p, k))' = Cardinality(Pending(p, k))
    BY <2>1
  <2> QED BY <1>1, <1>4, <2>2 DEF AgreesAt, CountsAt, learned, past
<1>10. KnownAt(p)'
  <2>1. ASSUME NEW v \in Learning(p), job'[v].pc = "learn", NEW k \in Kinds
        PROVE  job'[v].known[k] <= memory[p][k] /\
               (p \notin overlapped => job'[v].known[k] = memory[p][k])
    <3>1. CASE v = w
      BY <1>4, <1>5, <3>1
    <3>2. CASE v # w
      BY <1>4, <1>5, <1>8, <2>1, <3>2 DEF AgreesAt, KnownAt
    <3> QED BY <3>1, <3>2
  <2> QED BY <1>1, <1>7, <2>1 DEF KnownAt, learned, past
<1>11. AloneAt(p)'
  BY <1>1, <1>4, <1>7 DEF AgreesAt, AloneAt, past
<1>12. LatestAt(p)'
  BY <1>1, <1>4, <1>6, <1>7, <1>8 DEF AgreesAt, LatestAt, learned, past
<1> QED BY <1>9, <1>10, <1>11, <1>12 DEF AgreesAt

\* writes it back,
LEMMA AgreesWritten ==
  ASSUME MemInv, NEW w \in Workers, UpsertMemory(w), NEW p, p = Subject(w)
  PROVE  AgreesAt(p)'
<1>1. job[w].pc = "learn" /\ UNCHANGED <<outcomes, past>>
  BY DEF UpsertMemory, At
<1>2. TypeOK /\ job[w].to # <<>>
  BY <1>1 DEF MemInv, TypeInv, Asked, AskedOf
<1>3. p \in Addresses
  BY <1>2, SubjectTyped
<1>4. AgreesAt(p) /\ job[w] \in Jobs
  BY <1>2, <1>3 DEF MemInv, TypeOK
<1>5. PICK f \in Outcomes : f = Finding(w)
  BY <1>1, <1>2, FindingIs DEF LearningPcs
<1>6. job'[w].pc = "outcome" /\ \A v \in Workers : v # w => job'[v] = job[v]
  BY <1>2, Learns, Elsewhere
<1>7. /\ \A k \in Kinds : memory'[p][k] =
           Greatest(memory[p][k], job[w].known[k] + (IF k = f THEN 1 ELSE 0))
      /\ lastResult' = [lastResult EXCEPT ![p] = f]
  BY <1>2, <1>5, Written DEF UpsertMemory
<1>8. w \in Learning(p)
  BY <1>1 DEF Learning
<1>9. Learning(p)' = Learning(p) \ {w}
  BY <1>6, <1>8 DEF Learning, Subject
<1>10. \A v \in Learning(p) \ {w} : job'[v] = job[v] /\ Finding(v)' = Finding(v)
  BY <1>6 DEF Learning, Finding, Subject
<1>11. \A k \in Kinds :
         /\ memory[p][k] \in Nat /\ outcomes[p][k] \in Nat /\ unlearned[p][k] \in Nat
         /\ job[w].known[k] \in Nat /\ Cardinality(Pending(p, k)) \in Nat
         /\ IsFiniteSet(Pending(p, k))
  <2>1. TAKE k \in Kinds
  <2>2. memory[p][k] \in Nat /\ outcomes[p][k] \in Nat /\ unlearned[p][k] \in Nat
    BY <1>2, <1>3 DEF TypeOK, Outcomes
  <2>3. job[w].known[k] \in Nat
    BY <1>4 DEF Jobs
  <2> QED BY <2>2, <2>3, PendingFinite
<1>12. \A k \in Kinds : /\ job[w].known[k] <= memory[p][k]
                        /\ p \notin overlapped => job[w].known[k] = memory[p][k]
  BY <1>1, <1>4, <1>8 DEF AgreesAt, KnownAt
<1>13. ASSUME NEW k \in Kinds PROVE CountsAt(p, k)'
  <2>1. CountsAt(p, k)
    BY <1>4 DEF AgreesAt
  <2>2. CASE k = f
    <3>1. Pending(p, k)' = Pending(p, k) \ {w} /\ w \in Pending(p, k)
      BY <1>5, <1>8, <1>9, <1>10, <2>2 DEF Pending
    <3>2. Cardinality(Pending(p, k))' = Cardinality(Pending(p, k)) - 1
      BY <1>11, <3>1, FS_RemoveElement
    <3>3. Cardinality(Pending(p, k)) # 0
      BY <1>11, <3>1, FS_EmptySet
    <3>4. memory'[p][k] = Greatest(memory[p][k], job[w].known[k] + 1)
      BY <1>7, <2>2
    <3>5. /\ memory'[p][k] \in Nat /\ memory'[p][k] > 0 /\ memory'[p][k] <= memory[p][k] + 1
          /\ p \notin overlapped => memory'[p][k] = memory[p][k] + 1
      BY <1>11, <1>12, <3>4 DEF Greatest
    <3> QED BY <1>1, <1>11, <2>1, <3>2, <3>3, <3>5 DEF CountsAt, past
  <2>3. CASE k # f
    <3>1. Pending(p, k)' = Pending(p, k)
      BY <1>5, <1>9, <1>10, <2>3 DEF Pending
    <3>2. Cardinality(Pending(p, k))' = Cardinality(Pending(p, k))
      BY <3>1
    <3>3. memory'[p][k] = Greatest(memory[p][k], job[w].known[k] + 0)
      BY <1>7, <2>3
    <3>4. memory'[p][k] = memory[p][k]
      BY <1>11, <1>12, <3>3 DEF Greatest
    <3> QED BY <1>1, <2>1, <3>2, <3>4 DEF CountsAt, past
  <2> QED BY <2>2, <2>3
<1>14. KnownAt(p)'
  <2>1. ASSUME NEW v \in Learning(p) \ {w}, job'[v].pc = "learn", NEW k \in Kinds
        PROVE  /\ job'[v].known[k] <= memory'[p][k]
               /\ p \notin overlapped => job'[v].known[k] = memory'[p][k]
    <3>1. job'[v] = job[v] /\ v \in Workers /\ v # w
      BY <1>10 DEF Learning
    <3>2. job[v].known[k] <= memory[p][k] /\ job[v].known[k] \in Nat
      BY <1>2, <1>4, <2>1, <3>1 DEF AgreesAt, KnownAt, TypeOK, Jobs
    <3>3. memory'[p][k] \in Nat /\ memory[p][k] <= memory'[p][k]
      <4>1. PICK n \in Nat : n = job[w].known[k] + (IF k = f THEN 1 ELSE 0)
        BY <1>11
      <4>2. memory'[p][k] = Greatest(memory[p][k], n)
        BY <1>7, <4>1
      <4> QED BY <1>11, <4>2 DEF Greatest
    <3>4. p \in overlapped
      BY <1>4, <1>8, <3>1 DEF AgreesAt, AloneAt
    <3> QED BY <1>11, <3>1, <3>2, <3>3, <3>4
  <2> QED BY <1>1, <1>9, <2>1 DEF KnownAt, past
<1>15. AloneAt(p)'
  BY <1>1, <1>4, <1>9 DEF AgreesAt, AloneAt, past
<1>16. LatestAt(p)'
  <2>1. lastResult'[p] = f
    BY <1>2, <1>3, <1>7 DEF TypeOK
  <2>2. p \notin overlapped => Learning(p)' = {}
    BY <1>4, <1>8, <1>9 DEF AgreesAt, AloneAt
  <2>3. p \notin overlapped /\ unlearned[p] = NoOutcome => f = latest[p]
    BY <1>4, <1>5, <1>8 DEF AgreesAt, LatestAt
  <2> QED BY <1>1, <2>1, <2>2, <2>3 DEF LatestAt, past
<1> QED BY <1>13, <1>14, <1>15, <1>16 DEF AgreesAt

\* or fails before it has.
LEMMA AgreesFailed ==
  ASSUME MemInv, NEW w \in Workers, Fail(w), job[w].pc \in {"recall", "learn"},
         NEW p, p = Subject(w)
  PROVE  AgreesAt(p)'
<1>1. TypeOK /\ job[w].to # <<>>
  BY DEF MemInv, TypeInv, Asked, AskedOf
<1>2. p \in Addresses
  BY <1>1, SubjectTyped
<1>3. PICK f \in Outcomes : f = Finding(w)
  BY <1>1, FindingIs DEF LearningPcs
<1>4. AgreesAt(p)
  BY <1>2 DEF MemInv
<1>5. /\ UNCHANGED <<learned, latest, overlapped>>
      /\ unlearned' = [unlearned EXCEPT ![p][f] = @ + 1]
  BY <1>3 DEF Fail
<1>6. job'[w].pc = "idle" /\ \A v \in Workers : v # w => job'[v] = job[v]
  BY <1>1, Stopped, Elsewhere DEF Fail, Idle
<1>7. w \in Learning(p)
  BY DEF Learning
<1>8. Learning(p)' = Learning(p) \ {w}
  BY <1>6, <1>7 DEF Learning, Subject
<1>9. \A v \in Learning(p) \ {w} : job'[v] = job[v] /\ Finding(v)' = Finding(v)
  BY <1>6 DEF Learning, Finding, Subject
<1>10. /\ unlearned'[p][f] = unlearned[p][f] + 1 /\ unlearned[p][f] \in Nat
       /\ \A k \in Kinds : k # f => unlearned'[p][k] = unlearned[p][k]
  BY <1>1, <1>2, <1>5 DEF TypeOK, Outcomes
<1>11. ASSUME NEW k \in Kinds PROVE CountsAt(p, k)'
  <2>1. /\ memory[p][k] \in Nat /\ outcomes[p][k] \in Nat /\ unlearned[p][k] \in Nat
        /\ Cardinality(Pending(p, k)) \in Nat /\ IsFiniteSet(Pending(p, k))
    BY <1>1, <1>2, PendingFinite DEF TypeOK, Outcomes
  <2>2. CountsAt(p, k)
    BY <1>4 DEF AgreesAt
  <2>3. CASE k = f
    <3>1. Pending(p, k)' = Pending(p, k) \ {w} /\ w \in Pending(p, k)
      BY <1>3, <1>7, <1>8, <1>9, <2>3 DEF Pending
    <3>2. Cardinality(Pending(p, k))' = Cardinality(Pending(p, k)) - 1
      BY <2>1, <3>1, FS_RemoveElement
    <3>3. unlearned'[p][k] + Cardinality(Pending(p, k))' =
            unlearned[p][k] + Cardinality(Pending(p, k))
      BY <1>10, <2>1, <2>3, <3>2
    <3> QED BY <1>5, <2>2, <3>3 DEF CountsAt, learned
  <2>4. CASE k # f
    <3>1. Pending(p, k)' = Pending(p, k)
      BY <1>3, <1>8, <1>9, <2>4 DEF Pending
    <3>2. Cardinality(Pending(p, k))' = Cardinality(Pending(p, k))
      BY <3>1
    <3> QED BY <1>5, <1>10, <2>2, <2>4, <3>2 DEF CountsAt, learned
  <2> QED BY <2>3, <2>4
<1>12. KnownAt(p)'
  BY <1>4, <1>5, <1>8, <1>9 DEF AgreesAt, KnownAt, learned
<1>13. AloneAt(p)'
  BY <1>4, <1>5, <1>8 DEF AgreesAt, AloneAt
<1>14. LatestAt(p)'
  <2>1. unlearned'[p] # NoOutcome
    <3>1. NoOutcome[f] = 0
      BY DEF NoOutcome
    <3>2. unlearned'[p][f] # 0
      BY <1>10
    <3> QED BY <3>1, <3>2
  <2> QED BY <2>1 DEF LatestAt
<1> QED BY <1>11, <1>12, <1>13, <1>14 DEF AgreesAt

LEMMA MemStep == MemInv /\ [Next]_vars => MemInv'
<1> SUFFICES ASSUME MemInv, [Next]_vars PROVE MemInv'
  OBVIOUS
<1>0. /\ TypeInv /\ TypeOK /\ Asked /\ Listed /\ TypeInv'
      /\ \A p \in Addresses : AgreesAt(p)
  BY TypeStep DEF MemInv, TypeInv
<1> USE DEF case, learned, people, past
\* A handler that is not learning does something else.
<1>a. ASSUME NEW w \in Workers, Only(w), UNCHANGED <<learned, past>>,
             job[w].pc \notin {"recall", "learn"}, job'[w].pc \notin {"recall", "learn"},
             ListedOf(job'[w])
      PROVE  MemInv'
  <2>1. ASSUME NEW p \in Addresses PROVE AgreesAt(p)'
    <3>1. w \notin Learning(p) /\ (w \notin Learning(p))'
      BY <1>a DEF Learning
    <3> QED BY <1>a, <3>1, AsideOf
  <2>2. Listed'
    BY <1>a, ListedKept
  <2> QED BY <1>0, <2>1, <2>2 DEF MemInv
<1>b. ASSUME UNCHANGED <<learned, past, job>> PROVE MemInv'
  <2>1. \A w \in Workers : Subject(w)' = Subject(w) /\ Finding(w)' = Finding(w)
    BY <1>b DEF Subject, Finding
  <2>2. ASSUME NEW p \in Addresses PROVE AgreesAt(p)'
    <3>1. Learning(p)' = Learning(p) /\ \A v \in Learning(p) : v \in Workers
      BY <1>b, <2>1 DEF Learning
    <3>2. ASSUME NEW k \in Kinds PROVE CountsAt(p, k)'
      <4>1. Pending(p, k)' = Pending(p, k)
        BY <2>1, <3>1 DEF Pending
      <4>2. Cardinality(Pending(p, k))' = Cardinality(Pending(p, k))
        BY <4>1
      <4> QED BY <1>0, <1>b, <4>2 DEF AgreesAt, CountsAt
    <3>3. KnownAt(p)' /\ AloneAt(p)'
      BY <1>0, <1>b, <3>1 DEF AgreesAt, KnownAt, AloneAt
    <3>4. LatestAt(p)'
      BY <1>0, <1>b, <2>1, <3>1 DEF AgreesAt, LatestAt
    <3> QED BY <3>2, <3>3, <3>4 DEF AgreesAt
  <2>3. Listed'
    BY <1>0, <1>b DEF Listed, ListedOf
  <2> QED BY <1>0, <2>2, <2>3 DEF MemInv
<1>1. CASE UNCHANGED vars
  BY <1>1, <1>b DEF vars
<1>2. ASSUME NEW w \in Workers, NEW S, NEW cc, SendCaseEscalation(w, S, cc)
      PROVE  MemInv'
  <2>1. UNCHANGED <<learned, past>> /\ job[w].pc = "idle"
    BY <1>2 DEF SendCaseEscalation, Request
  <2>2. job'[w].pc = "create" /\ Only(w)
    BY <1>0, <1>2, Asking
  <2> QED BY <1>a, <2>1, <2>2 DEF ListedOf, LearningPcs
<1>3. ASSUME NEW w \in Workers, CreateActions(w) PROVE MemInv'
  <2>1. UNCHANGED <<learned, past>> /\ job[w].pc = "create"
    BY <1>3 DEF CreateActions, At
  <2>2. CASE merged
    <3>1. job'[w] = Idle /\ Only(w)
      BY <1>0, <1>3, <2>2, Stopped DEF CreateActions
    <3>2. job'[w].pc = "idle"
      BY <3>1 DEF Idle
    <3> QED BY <1>a, <2>1, <3>1, <3>2 DEF ListedOf, LearningPcs
  <2>3. CASE ~merged
    <3>1. PICK S : S = Among(job[w].to, Range(Targets))
      OBVIOUS
    <3>2. job'[w].pc = "mail" /\ Only(w)
      BY <1>0, <1>3, <2>3, <3>1, Creates
    <3> QED BY <1>a, <2>1, <3>2 DEF ListedOf, LearningPcs
  <2> QED BY <2>2, <2>3
<1>4. ASSUME NEW w \in Workers, CheckOptOut(w) \/ SendMail(w) \/ Answer(w) PROVE MemInv'
  <2>1. UNCHANGED <<learned, past>> /\ job[w].pc \in {"mail", "send"}
    BY <1>4 DEF CheckOptOut, SendMail, Answer, At
  <2>2. job'[w].pc \in {"mail", "send", "record"} /\ Only(w)
    <3>1. CASE \E r \in Results : Settled(w, r)
      BY <1>0, <3>1, Settles
    <3>2. CASE \E pc \in {"send", "record"} : job' = [job EXCEPT ![w].pc = pc]
      BY <1>0, <3>2, Moves
    <3> QED BY <1>4, <3>1, <3>2 DEF CheckOptOut, SendMail, Answer, Results
  <2> QED BY <1>a, <2>1, <2>2 DEF ListedOf, LearningPcs
<1>5. ASSUME NEW w \in Workers, RecordDeliveries(w) PROVE MemInv'
  <2>1. UNCHANGED <<learned, past>> /\ job[w].pc = "record"
    BY <1>5 DEF RecordDeliveries, At
  <2>2. PICK R : R = Recipients(w)
    OBVIOUS
  <2>3. PICK L : L = Addressed(R, {})
    OBVIOUS
  <2>4. /\ job'[w].pc = "outcome" /\ job'[w].to = L /\ job'[w].result = job[w].result
        /\ Only(w)
    BY <1>0, <1>5, <2>2, <2>3, Records
  <2>5. \A i, j \in 1 .. Len(L) : L[i] = L[j] => i = j
    BY <2>3, AddressedTyped
  <2>6. \A i \in 1 .. Len(L) : L[i] \in R
    <3>1. PICK q \in Seq(Addresses) : q = Targets \o Copied
      BY Lists
    <3>2. L = Among(q, R \cup {})
      BY <2>3, <3>1 DEF Addressed
    <3> QED BY <3>1, <3>2, AmongTells
  <2>7. ListedOf(job'[w])
    BY <2>2, <2>4, <2>5, <2>6 DEF ListedOf, Recipients
  <2> QED BY <1>a, <2>1, <2>4, <2>7
<1>6. ASSUME NEW w \in Workers, NEW p \in Replying, NEW k \in {"bounced", "fixed"},
             RecordReply(w, p, k)
      PROVE  MemInv'
  <2>1. UNCHANGED <<learned, past>> /\ job[w].pc = "idle"
    BY <1>6 DEF RecordReply, Request
  <2>2. /\ job'[w].pc = "outcome" /\ job'[w].to = <<p>> /\ Only(w)
        /\ job'[w].result = [Idle.result EXCEPT ![p] = k]
    BY <1>0, <1>6, Replies
  <2>3. p \in Addresses
    BY ConstantsAssumption, Lists
  <2>4. k # None
    BY ConstantsAssumption DEF Outcomes, Kinds
  <2>5. job'[w].result[p] = k
    BY <2>2, <2>3 DEF Idle
  <2>6. ListedOf(job'[w])
    BY <2>2, <2>4, <2>5 DEF ListedOf
  <2> QED BY <1>a, <2>1, <2>2, <2>6
<1>7. ASSUME NEW w \in Workers, RecordOutcome(w) PROVE MemInv'
  <2>1. /\ job[w].pc = "outcome" /\ job[w].to # <<>>
        /\ UNCHANGED <<memory, lastResult, unlearned>>
    BY <1>7 DEF RecordOutcome, At
  <2>2. PICK h \in Addresses, f \in Outcomes : h = Subject(w) /\ f = Finding(w)
    BY <2>1, FindingIs DEF LearningPcs
  <2>3. /\ job'[w].pc = "recall" /\ job'[w].to = job[w].to
        /\ job'[w].result = job[w].result /\ Only(w)
    BY <1>0, <1>7, Moves DEF RecordOutcome
  <2>4. /\ outcomes' = [outcomes EXCEPT ![h][f] = @ + 1]
        /\ latest' = [latest EXCEPT ![h] = f]
        /\ overlapped \subseteq overlapped' /\ overlapped' \subseteq overlapped \cup {h}
    BY <1>7, <2>2 DEF RecordOutcome
  <2>5. ASSUME NEW p \in Addresses PROVE AgreesAt(p)'
    <3>1. CASE p = h
      BY <1>7, <2>2, <3>1, AgreesStored
    <3>2. CASE p # h
      <4>1. w \notin Learning(p) /\ (w \notin Learning(p))'
        BY <2>2, <2>3, <3>2 DEF Learning, Subject
      <4>2. outcomes'[p] = outcomes[p] /\ latest'[p] = latest[p]
        BY <1>0, <2>4, <3>2 DEF TypeOK
      <4>3. p \in overlapped' <=> p \in overlapped
        BY <2>4, <3>2
      <4> QED BY <2>1, <2>3, <4>1, <4>2, <4>3, AsideOf
    <3> QED BY <3>1, <3>2
  <2>6. ListedOf(job'[w])
    BY <1>0, <2>1, <2>3 DEF Listed, ListedOf, LearningPcs
  <2>7. Listed'
    BY <2>3, <2>6, ListedKept
  <2> QED BY <1>0, <2>5, <2>7 DEF MemInv
<1>8. ASSUME NEW w \in Workers, RecallMemory(w) PROVE MemInv'
  <2>1. job[w].pc = "recall" /\ UNCHANGED <<learned, past>>
    BY <1>8 DEF RecallMemory, At
  <2>2. /\ job'[w].pc = "learn" /\ job'[w].to = job[w].to
        /\ job'[w].result = job[w].result /\ Only(w)
    BY <1>0, <1>8, Recalls
  <2>3. ASSUME NEW p \in Addresses PROVE AgreesAt(p)'
    <3>1. CASE p = Subject(w)
      BY <1>8, <3>1, AgreesRead
    <3>2. CASE p # Subject(w)
      <4>1. w \notin Learning(p) /\ (w \notin Learning(p))'
        BY <2>2, <3>2 DEF Learning, Subject
      <4> QED BY <2>1, <2>2, <4>1, AsideOf
    <3> QED BY <3>1, <3>2
  <2>4. ListedOf(job'[w])
    BY <1>0, <2>1, <2>2 DEF Listed, ListedOf, LearningPcs
  <2>5. Listed'
    BY <2>2, <2>4, ListedKept
  <2> QED BY <1>0, <2>3, <2>5 DEF MemInv
<1>9. ASSUME NEW w \in Workers, UpsertMemory(w) PROVE MemInv'
  <2>1. job[w].pc = "learn" /\ UNCHANGED <<outcomes, past>>
    BY <1>9 DEF UpsertMemory, At
  <2>2. job[w].to # <<>> /\ job[w] \in Jobs
    BY <1>0, <2>1 DEF Asked, AskedOf, TypeOK
  <2>3. PICK h \in Addresses : h = Subject(w)
    BY <1>0, <2>2, SubjectTyped
  <2>4. /\ job'[w].pc = "outcome" /\ job'[w].to = Tail(job[w].to) /\ Only(w)
        /\ job'[w].result = [job[w].result EXCEPT ![h] = None]
    BY <1>0, <1>9, <2>3, Learns
  <2>5. \A p \in Addresses : p # h => memory'[p] = memory[p] /\ lastResult'[p] = lastResult[p]
    BY <1>0, <1>9, <2>2, <2>3, Written DEF UpsertMemory, TypeOK
  <2>6. ASSUME NEW p \in Addresses PROVE AgreesAt(p)'
    <3>1. CASE p = h
      BY <1>9, <2>3, <3>1, AgreesWritten
    <3>2. CASE p # h
      <4>1. w \notin Learning(p) /\ (w \notin Learning(p))'
        BY <2>3, <2>4, <3>2 DEF Learning
      <4> QED BY <2>1, <2>4, <2>5, <3>2, <4>1, AsideOf
    <3> QED BY <3>1, <3>2
  <2>7. ListedOf(job'[w])
    <3>1. PICK L \in Seq(Addresses) : L = job[w].to /\ L # <<>> /\ L[1] = h
      BY <2>2, <2>3 DEF Jobs, Subject
    <3>2. /\ \A i, k \in 1 .. Len(L) : L[i] = L[k] => i = k
          /\ \A i \in 1 .. Len(L) : job[w].result[L[i]] # None
      BY <1>0, <2>1, <3>1 DEF Listed, ListedOf, LearningPcs
    <3>3. /\ Len(Tail(L)) = Len(L) - 1 /\ Len(L) \in Nat /\ Len(L) >= 1
          /\ \A i \in 1 .. Len(Tail(L)) : Tail(L)[i] = L[i + 1] /\ i + 1 \in 1 .. Len(L)
      BY <3>1
    <3>4. \A i, k \in 1 .. Len(Tail(L)) : Tail(L)[i] = Tail(L)[k] => i = k
      BY <3>2, <3>3
    <3>5. ASSUME NEW i \in 1 .. Len(Tail(L)) PROVE job'[w].result[Tail(L)[i]] # None
      <4>1. i + 1 \in 1 .. Len(L) /\ 1 \in 1 .. Len(L) /\ i + 1 # 1 /\ Tail(L)[i] = L[i + 1]
        BY <3>3
      <4>2. L[i + 1] # h /\ job[w].result[L[i + 1]] # None /\ L[i + 1] \in Addresses
        BY <3>1, <3>2, <4>1
      <4>3. job'[w].result[L[i + 1]] = job[w].result[L[i + 1]]
        BY <2>2, <2>4, <4>2 DEF Jobs
      <4> QED BY <4>1, <4>2, <4>3
    <3> QED BY <2>4, <3>1, <3>4, <3>5 DEF ListedOf
  <2>8. Listed'
    BY <2>4, <2>7, ListedKept
  <2> QED BY <1>0, <2>6, <2>8 DEF MemInv
<1>10. ASSUME NEW w \in Workers, Done(w) PROVE MemInv'
  <2>1. UNCHANGED <<learned, past>> /\ job[w].pc = "outcome"
    BY <1>10 DEF Done, At
  <2>2. job'[w] = Idle /\ Only(w)
    BY <1>0, <1>10, Stopped DEF Done
  <2>3. job'[w].pc = "idle"
    BY <2>2 DEF Idle
  <2> QED BY <1>a, <2>1, <2>2, <2>3 DEF ListedOf, LearningPcs
<1>11. ASSUME NEW w \in Workers, Fail(w) PROVE MemInv'
  <2>1. UNCHANGED <<learned, latest, overlapped>>
    BY <1>11 DEF Fail
  <2>2. job'[w] = Idle /\ Only(w)
    BY <1>0, <1>11, Stopped DEF Fail
  <2>3. job'[w].pc = "idle"
    BY <2>2 DEF Idle
  <2>4. ListedOf(job'[w])
    BY <2>3 DEF ListedOf, LearningPcs
  <2>5. CASE job[w].pc \notin {"recall", "learn"}
    <3>1. unlearned' = unlearned
      BY <1>11, <2>5 DEF Fail
    <3> QED BY <1>a, <2>1, <2>2, <2>3, <2>4, <2>5, <3>1
  <2>6. CASE job[w].pc \in {"recall", "learn"}
    <3>1. job[w].to # <<>>
      BY <1>0, <2>6 DEF Asked, AskedOf
    <3>2. PICK h \in Addresses, f \in Outcomes \cup {None} : h = Subject(w) /\ f = Finding(w)
      BY <1>0, <3>1, SubjectTyped
    <3>3. unlearned' = [unlearned EXCEPT ![h][f] = @ + 1]
      BY <1>11, <2>6, <3>2 DEF Fail
    <3>4. ASSUME NEW p \in Addresses PROVE AgreesAt(p)'
      <4>1. CASE p = h
        BY <1>11, <2>6, <3>2, <4>1, AgreesFailed
      <4>2. CASE p # h
        <5>1. w \notin Learning(p) /\ (w \notin Learning(p))'
          BY <2>3, <3>2, <4>2 DEF Learning
        <5>2. unlearned'[p] = unlearned[p]
          BY <1>0, <3>3, <4>2 DEF TypeOK
        <5> QED BY <2>1, <2>2, <5>1, <5>2, AsideOf
      <4> QED BY <4>1, <4>2
    <3>5. Listed'
      BY <2>2, <2>4, ListedKept
    <3> QED BY <1>0, <3>4, <3>5 DEF MemInv
  <2> QED BY <2>5, <2>6
<1>12. ASSUME NEW p \in Addresses, OptOut(p) PROVE MemInv'
  BY <1>12, <1>b DEF OptOut
<1>13. CASE MergeCase
  BY <1>13, <1>b DEF MergeCase
<1> QED
  BY <1>1, <1>2, <1>3, <1>4, <1>5, <1>6, <1>7, <1>8, <1>9, <1>10, <1>11, <1>12, <1>13
     DEF Next

\* What is noted of an address agrees with the outcomes stored for it, however handlers
\* interleave between the outcome, the read and the write, and wherever they fail: none
\* is counted twice, or without having happened, none is forgotten altogether, and where
\* no two handlers overlapped all are counted and the last result is the latest
\* (recordCaseDeliveryOutcomes, recordNotifyOutcomeAndMemory).
THEOREM MemoryAgreesWithOutcomes == Spec => []MemoryAgrees
<1>1. MemInv => MemoryAgrees
  <2> SUFFICES ASSUME MemInv PROVE MemoryAgrees
    OBVIOUS
  <2>1. ASSUME NEW p \in Addresses
        PROVE  /\ \A k \in Kinds : CountsAt(p, k)
               /\ p \notin overlapped /\ Learning(p) = {} /\ unlearned[p] = NoOutcome =>
                    lastResult[p] = latest[p]
    BY DEF MemInv, AgreesAt, LatestAt
  <2> QED BY <2>1 DEF MemoryAgrees, CountsAt
<1> QED BY <1>1, MemInit, MemStep, PTL DEF Spec
=============================================================================
