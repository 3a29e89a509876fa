--------------------------- MODULE BroadcastProofs ---------------------------
(***************************************************************************)
(* Theorems about the live broadcast, for any number of clients, reports   *)
(* and failures and any capacities: types, the closing of queues, the      *)
(* order and the completeness of streams, and the cursor; and, in its      *)
(* second half, about Email (as E, an instance of it).                     *)
(***************************************************************************)
EXTENDS Broadcast, FiniteSetTheorems, SequenceTheorems, WellFoundedInduction, TLAPS

(***************************************************************************)
(* The highest of some reports exists.                                     *)
(***************************************************************************)
LEMMA NatMin ==
  ASSUME NEW T \in SUBSET Nat, T # {}
  PROVE  \E x \in T : \A y \in T : x <= y
<1>1. PICK x \in T : \A y \in T : ~(<<y, x>> \in OpToRel(<, Nat))
  BY NatLessThanWellFounded, WFMin
<1>2. \A y \in T : ~(y < x)
  BY <1>1 DEF OpToRel
<1>3. QED
  BY <1>2

LEMMA HighestIn ==
  ASSUME NEW S \in SUBSET (0 .. MaxSeq), S # {}
  PROVE  Highest(S) \in S /\ \A t \in S : t <= Highest(S)
<1> USE ConstantsAssumption
<1> DEFINE T == {MaxSeq - s : s \in S}
<1>1. T \in SUBSET Nat /\ T # {}
  <2>1. \A s \in S : MaxSeq - s \in Nat
    OBVIOUS
  <2>2. QED
    BY <2>1
<1>2. PICK x \in T : \A y \in T : x <= y
  BY <1>1, NatMin
<1>3. PICK s \in S : x = MaxSeq - s
  OBVIOUS
<1>4. \A t \in S : t <= s
  <2> SUFFICES ASSUME NEW t \in S PROVE t <= s
    OBVIOUS
  <2>1. MaxSeq - s <= MaxSeq - t
    BY <1>2, <1>3
  <2>2. QED
    BY <2>1
<1>5. QED
  BY <1>4 DEF Highest

-----------------------------------------------------------------------------
(***************************************************************************)
(* The inductive invariant.                                                *)
(***************************************************************************)

\* A batch is above the cursor, and there is one only while it is broadcast.
BatchInv ==
  /\ pc \in {"read", "full", "public"} => batch # {}
  /\ pc \in {"down", "idle"} => batch = {}
  /\ \A s \in batch : s > mem

\* A client that has not registered has nothing, and only one that the hub
\* knows has an open queue.
ClientInv ==
  \A c \in Clients :
    /\ closes[c] <= 1
    /\ c \in clients => closes[c] = 0
    /\ link[c] = "new" => /\ closes[c] = 0 /\ c \notin clients /\ pumps[c] = {}
                          /\ queue[c] = <<>> /\ seen[c] = <<>>

\* What a client has been sent are messages of its hub's log, one after the other;
\* so is what is queued for it, as long as the connection is up, and while the hub
\* knows it nothing is missing.
Reached(c) == since[c] + Len(seen[c]) + Len(queue[c])

SeenInv ==
  \A c \in Clients :
    /\ since[c] + Len(seen[c]) <= Len(log[HubOf[c]])
    /\ \A i \in 1 .. Len(seen[c]) : seen[c][i] = log[HubOf[c]][since[c] + i]

QueueInv ==
  \A c \in Clients : link[c] = "up" =>
    /\ Reached(c) <= Len(log[HubOf[c]])
    /\ \A i \in 1 .. Len(queue[c]) :
         queue[c][i] = log[HubOf[c]][since[c] + Len(seen[c]) + i]
    /\ c \in clients => Reached(c) = Len(log[HubOf[c]])

\* A report that has been sent to a hub is behind the cursor, or in the batch.
Sent(h, a) ==
  \/ a <= mem
  \/ /\ a \in batch
     /\ pc = "public" \/ (pc = "full" /\ h = "full")

Ordered(s) == \A i, j \in 1 .. Len(s) : i < j => \A a \in s[i], b \in s[j] : a < b
Before(s, t) ==
  \A i \in 1 .. Len(s), j \in 1 .. Len(t) : \A a \in s[i], b \in t[j] : a < b
AllSent(h, s) == \A i \in 1 .. Len(s) : \A a \in s[i] : Sent(h, a)

OrderInv ==
  /\ pc = "down" => mem = 0
  /\ \A h \in Hubs : /\ Ordered(log[h])
                     /\ Ordered(channel[h])
                     /\ Before(log[h], channel[h])
                     /\ AllSent(h, log[h])
                     /\ AllSent(h, channel[h])

\* What the loop has read is ready until it is hidden, and has been handed to the
\* hub if it is behind either cursor; while there is a batch, all that has not
\* been is in it.
CursorInv ==
  /\ stored >= Stored0
  /\ pc # "down" => stored <= mem
  /\ \A s \in due :
       /\ report[s] = "ready"
       /\ s <= stored => s \in offered
       /\ s <= mem => s \in offered
       /\ pc \in {"read", "full", "public"} => s \in offered \cup batch
       /\ pc \in {"full", "public"} => s \in offered

Inv == TypeOK /\ BatchInv /\ ClientInv /\ SeenInv /\ QueueInv /\ OrderInv

-----------------------------------------------------------------------------
(* Types. *)

LEMMA FailTyped == ASSUME TypeOK, Fail PROVE faults' \in 0 .. MaxFaults
BY ConstantsAssumption DEF TypeOK, Fail

LEMMA StoreTyped ==
  ASSUME TypeOK, NEW s \in 0 .. MaxSeq, Store(s)
  PROVE  stored' \in 0 .. MaxSeq /\ faults' \in 0 .. MaxFaults
BY FailTyped DEF TypeOK, Store

LEMMA LatestTyped == Latest \in 0 .. MaxSeq /\ Latest >= Stored0
<1> DEFINE S == {Stored0} \cup {s \in Seqs : report[s] # "absent"}
<1>1. S \in SUBSET (0 .. MaxSeq) /\ S # {} /\ Stored0 \in S
  BY ConstantsAssumption DEF Seqs
<1>2. Highest(S) \in S /\ \A t \in S : t <= Highest(S)
  BY <1>1, HighestIn
<1>3. QED
  BY <1>1, <1>2 DEF Latest

LEMMA BatchHighest ==
  ASSUME TypeOK, batch # {}
  PROVE  /\ Highest(batch) \in batch /\ Highest(batch) \in Seqs
         /\ Highest(batch) \in 0 .. MaxSeq
         /\ \A s \in batch : s <= Highest(batch)
<1>1. batch \in SUBSET (0 .. MaxSeq)
  BY ConstantsAssumption DEF TypeOK, Message, Seqs
<1>2. QED
  BY <1>1, HighestIn DEF TypeOK, Message

LEMMA SendTyped ==
  ASSUME TypeOK, NEW h \in Hubs, NEW m \in Message, Send(h, m)
  PROVE  channel' \in [Hubs -> Seq(Message)]
<1>1. CASE m = {}
  BY <1>1 DEF Send, TypeOK
<1>2. CASE m # {}
  <2>1. Append(channel[h], m) \in Seq(Message)
    BY DEF TypeOK
  <2>2. QED
    BY <1>2, <2>1 DEF Send, TypeOK
<1>3. QED
  BY <1>1, <1>2

LEMMA TypeInit == Init => TypeOK
BY ConstantsAssumption DEF Init, TypeOK, Message

LEMMA ReportTyped ==
  ASSUME TypeOK, NEW s \in Seqs, Arrive(s) \/ Reveal(s) \/ Hide(s)
  PROVE  TypeOK'
BY DEF TypeOK, Arrive, Reveal, Hide, cursor, loop, client

LEMMA LoopTyped ==
  ASSUME TypeOK, BatchInv,
         Start \/ Read \/ BroadcastReports \/ BroadcastPublicReports \/ Advance
  PROVE  TypeOK'
<1>1. CASE Start
  <2>1. mem' \in 0 .. MaxSeq /\ stored' \in 0 .. MaxSeq /\ faults' \in 0 .. MaxFaults
    BY <1>1, LatestTyped, StoreTyped DEF Start, TypeOK
  <2>2. QED
    BY <1>1, <2>1 DEF Start, TypeOK, client
<1>2. CASE Read
  <2>1. batch' \in Message
    BY <1>2 DEF Read, ReportsSince, Message
  <2>2. QED
    BY <1>2, <2>1 DEF Read, TypeOK, Message, cursor, client
<1>3. CASE BroadcastReports
  <2>1. channel' \in [Hubs -> Seq(Message)]
    BY <1>3, SendTyped DEF BroadcastReports, TypeOK, Hubs
  <2>2. QED
    BY <1>3, <2>1 DEF BroadcastReports, TypeOK, Message, cursor, client
<1>4. CASE BroadcastPublicReports
  <2>1. channel' \in [Hubs -> Seq(Message)] /\ faults' \in 0 .. MaxFaults
    <3>1. PublicLive(batch) \in Message
      BY DEF TypeOK, Message, PublicLive
    <3>2. QED
      BY <1>4, <3>1, SendTyped, FailTyped DEF BroadcastPublicReports, TypeOK, Hubs
  <2>2. QED
    BY <1>4, <2>1 DEF BroadcastPublicReports, TypeOK, cursor, client
<1>5. CASE Advance
  <2>1. Highest(batch) \in 0 .. MaxSeq
    BY <1>5, BatchHighest DEF Advance, BatchInv
  <2>2. stored' \in 0 .. MaxSeq /\ faults' \in 0 .. MaxFaults
    BY <1>5, <2>1, StoreTyped DEF Advance
  <2>3. QED
    BY <1>5, <2>1, <2>2 DEF Advance, TypeOK, Message, client
<1>6. QED
  BY <1>1, <1>2, <1>3, <1>4, <1>5

LEMMA CrashTyped == ASSUME TypeOK, Crash PROVE TypeOK'
BY FailTyped, ConstantsAssumption DEF TypeOK, Crash, Message

LEMMA PassTyped == ASSUME TypeOK, NEW h \in Hubs, Pass(h) PROVE TypeOK'
<1>1. channel[h] \in Seq(Message) /\ channel[h] # <<>>
  BY DEF TypeOK, Pass
<1>2. Tail(channel[h]) \in Seq(Message) /\ Head(channel[h]) \in Message
  BY <1>1
<1>3. channel' \in [Hubs -> Seq(Message)] /\ log' \in [Hubs -> Seq(Message)]
  BY <1>2 DEF TypeOK, Pass
<1>4. queue' \in [Clients -> Seq(Message)]
  BY <1>2 DEF TypeOK, Pass
<1>5. closes' \in [Clients -> Nat]
  BY DEF TypeOK, Pass
<1>6. QED
  BY <1>3, <1>4, <1>5 DEF TypeOK, Pass, cursor, loop

LEMMA ClientTyped ==
  ASSUME TypeOK, NEW c \in Clients,
         Register(c) \/ Drop(c) \/ Write(c) \/ WriterEnds(c) \/ Unregister(c)
  PROVE  TypeOK'
<1> USE DEF TypeOK, cursor, loop
<1>1. CASE Register(c)
  <2>1. Len(log[HubOf[c]]) \in Nat
    BY ConstantsAssumption
  <2>2. QED
    BY <1>1, <2>1 DEF Register
<1>2. CASE Drop(c)
  BY <1>2 DEF Drop
<1>3. CASE Write(c)
  <2>1. seen[c] \o queue[c] \in Seq(Message)
    OBVIOUS
  <2>2. QED
    BY <1>3, <2>1 DEF Write
<1>4. CASE WriterEnds(c)
  <2>1. queue' \in [Clients -> Seq(Message)]
    <3>1. <<>> \in Seq(Message)
      OBVIOUS
    <3>2. QED
      BY <1>4, <3>1 DEF WriterEnds
  <2>2. QED
    BY <1>4, <2>1 DEF WriterEnds
<1>5. CASE Unregister(c)
  <2>1. closes' \in [Clients -> Nat]
    <3>1. (IF c \in clients THEN 1 ELSE 0) \in Nat
      OBVIOUS
    <3>2. QED
      BY <1>5, <3>1 DEF Unregister
  <2>2. QED
    BY <1>5, <2>1 DEF Unregister
<1>6. QED
  BY <1>1, <1>2, <1>3, <1>4, <1>5

-----------------------------------------------------------------------------
(* The batch and the queues. *)

LEMMA BatchStep ==
  ASSUME TypeOK, BatchInv, [Next]_vars
  PROVE  BatchInv'
<1> USE DEF BatchInv
<1>1. ASSUME NEW s \in Seqs, Arrive(s) \/ Reveal(s) \/ Hide(s) PROVE BatchInv'
  BY <1>1 DEF Arrive, Reveal, Hide, cursor, loop
<1>2. CASE Start
  BY <1>2 DEF Start
<1>3. CASE Read
  BY <1>3 DEF Read, ReportsSince, cursor
<1>4. CASE BroadcastReports
  BY <1>4 DEF BroadcastReports, cursor
<1>5. CASE BroadcastPublicReports
  BY <1>5 DEF BroadcastPublicReports, cursor
<1>6. CASE Advance
  BY <1>6 DEF Advance
<1>7. CASE Crash
  BY <1>7 DEF Crash
<1>8. ASSUME NEW h \in Hubs, Pass(h) PROVE BatchInv'
  BY <1>8 DEF Pass, cursor, loop
<1>9. ASSUME NEW c \in Clients,
             Register(c) \/ Drop(c) \/ Write(c) \/ WriterEnds(c) \/ Unregister(c)
      PROVE  BatchInv'
  BY <1>9 DEF Register, Drop, Write, WriterEnds, Unregister, cursor, loop
<1>10. CASE UNCHANGED vars
  BY <1>10 DEF vars, cursor, loop
<1>11. QED
  BY <1>1, <1>2, <1>3, <1>4, <1>5, <1>6, <1>7, <1>8, <1>9, <1>10 DEF Next

LEMMA ClientStep ==
  ASSUME TypeOK, BatchInv, ClientInv, [Next]_vars
  PROVE  ClientInv'
<1>1. CASE UNCHANGED client
  BY <1>1 DEF ClientInv, client
<1>2. CASE Crash
  BY <1>2 DEF ClientInv, Crash
<1>3. ASSUME NEW h \in Hubs, Pass(h) PROVE ClientInv'
  <2>1. Slow(h) \subseteq clients
    BY DEF Slow, Listening
  <2>2. ASSUME NEW c \in Clients
        PROVE  /\ c \notin Slow(h) => closes'[c] = closes[c]
               /\ c \in Slow(h) => closes'[c] = closes[c] + 1
               /\ c \notin clients => queue'[c] = queue[c]
    BY <1>3 DEF Pass, TypeOK, Listening
  <2>3. UNCHANGED <<link, pumps, seen>> /\ clients' = clients \ Slow(h)
    BY <1>3 DEF Pass
  <2>4. QED
    BY <2>1, <2>2, <2>3 DEF ClientInv, TypeOK
<1>4. ASSUME NEW c \in Clients,
             Register(c) \/ Drop(c) \/ Write(c) \/ WriterEnds(c) \/ Unregister(c)
      PROVE  ClientInv'
  <2>1. CASE Register(c)
    BY <2>1 DEF ClientInv, Register, TypeOK
  <2>2. CASE Drop(c)
    BY <2>2 DEF ClientInv, Drop, TypeOK
  <2>3. CASE Write(c)
    BY <2>3 DEF ClientInv, Write, TypeOK
  <2>4. CASE WriterEnds(c)
    BY <2>4 DEF ClientInv, WriterEnds, TypeOK
  <2>5. CASE Unregister(c)
    <3>1. \A d \in Clients :
            /\ d # c => closes'[d] = closes[d]
            /\ c \in clients => closes'[c] = closes[c] + 1
            /\ c \notin clients => closes'[c] = closes[c]
      BY <2>5 DEF Unregister, TypeOK
    <3>2. UNCHANGED <<link, queue, seen>> /\ clients' = clients \ {c} /\ link[c] = "cut"
          /\ \A d \in Clients : d # c => pumps'[d] = pumps[d]
      BY <2>5 DEF Unregister, TypeOK
    <3>3. QED
      BY <3>1, <3>2 DEF ClientInv, TypeOK
  <2>6. QED
    BY <1>4, <2>1, <2>2, <2>3, <2>4, <2>5
<1>5. QED
  BY <1>1, <1>2, <1>3, <1>4 DEF Next, Arrive, Reveal, Hide, Start, Read, BroadcastReports,
    BroadcastPublicReports, Advance, vars

-----------------------------------------------------------------------------
(* The streams. *)

LEMMA LengthsNat ==
  ASSUME TypeOK, NEW c \in Clients
  PROVE  /\ since[c] \in Nat /\ Len(seen[c]) \in Nat /\ Len(queue[c]) \in Nat
         /\ seen[c] \in Seq(Message) /\ queue[c] \in Seq(Message)
         /\ HubOf[c] \in Hubs /\ log[HubOf[c]] \in Seq(Message)
         /\ Len(log[HubOf[c]]) \in Nat
BY ConstantsAssumption DEF TypeOK

LEMMA Joined ==
  ASSUME NEW s \in Seq(Message), NEW t \in Seq(Message)
  PROVE  /\ Len(s \o t) = Len(s) + Len(t)
         /\ \A i \in 1 .. Len(s) : (s \o t)[i] = s[i]
         /\ \A k \in 1 .. Len(t) : (s \o t)[Len(s) + k] = t[k]
OBVIOUS

LEMMA Appended ==
  ASSUME NEW s \in Seq(Message), NEW m \in Message
  PROVE  /\ Len(Append(s, m)) = Len(s) + 1
         /\ Append(s, m)[Len(s) + 1] = m
         /\ \A i \in 1 .. Len(s) : Append(s, m)[i] = s[i]
OBVIOUS

\* A hub's log grows by the message that is passed on.
LEMMA PassLog ==
  ASSUME TypeOK, NEW h \in Hubs, Pass(h)
  PROVE  /\ Len(log[h]) \in Nat
         /\ Len(log'[h]) = Len(log[h]) + 1
         /\ log'[h][Len(log[h]) + 1] = Head(channel[h])
         /\ \A i \in 1 .. Len(log[h]) : log'[h][i] = log[h][i]
         /\ \A g \in Hubs : g # h => log'[g] = log[g]
<1>1. Head(channel[h]) \in Message /\ log[h] \in Seq(Message)
  BY DEF TypeOK, Pass
<1>2. log'[h] = Append(log[h], Head(channel[h])) /\ \A g \in Hubs : g # h => log'[g] = log[g]
  BY DEF TypeOK, Pass
<1>3. QED
  BY <1>1, <1>2, AppendProperties

LEMMA SeenStep ==
  ASSUME TypeOK, ClientInv, SeenInv, QueueInv, [Next]_vars
  PROVE  SeenInv'
<1>1. CASE UNCHANGED <<seen, since, log>>
  BY <1>1 DEF SeenInv
<1>2. CASE Crash
  BY <1>2, ConstantsAssumption DEF SeenInv, Crash
<1>3. ASSUME NEW h \in Hubs, Pass(h) PROVE SeenInv'
  <2>1. UNCHANGED <<seen, since>>
    BY <1>3 DEF Pass
  <2> SUFFICES ASSUME NEW c \in Clients
               PROVE  /\ since[c] + Len(seen[c]) <= Len(log'[HubOf[c]])
                      /\ \A i \in 1 .. Len(seen[c]) :
                           seen[c][i] = log'[HubOf[c]][since[c] + i]
    BY <2>1 DEF SeenInv
  <2>2. /\ since[c] + Len(seen[c]) <= Len(log[HubOf[c]])
        /\ \A i \in 1 .. Len(seen[c]) : seen[c][i] = log[HubOf[c]][since[c] + i]
    BY DEF SeenInv
  <2>3. CASE HubOf[c] # h
    BY <1>3, <2>2, <2>3, PassLog, LengthsNat
  <2>4. CASE HubOf[c] = h
    <3>1. since[c] + Len(seen[c]) <= Len(log'[h])
      BY <1>3, <2>2, <2>4, PassLog, LengthsNat
    <3>2. ASSUME NEW i \in 1 .. Len(seen[c])
          PROVE  seen[c][i] = log'[h][since[c] + i]
      <4>1. since[c] + i \in 1 .. Len(log[h])
        BY <2>2, <2>4, LengthsNat
      <4>2. QED
        BY <1>3, <2>2, <2>4, <4>1, PassLog
    <3>3. QED
      BY <2>4, <3>1, <3>2
  <2>5. QED
    BY <2>3, <2>4
<1>4. ASSUME NEW c \in Clients, Register(c) PROVE SeenInv'
  <2>1. seen[c] = <<>>
    BY <1>4 DEF Register, ClientInv
  <2>2. since'[c] = Len(log[HubOf[c]]) /\ \A d \in Clients : d # c => since'[d] = since[d]
    BY <1>4 DEF Register, TypeOK
  <2>3. UNCHANGED <<seen, log>>
    BY <1>4 DEF Register
  <2>4. Len(log[HubOf[c]]) \in Nat /\ Len(seen[c]) = 0
    BY <2>1, LengthsNat
  <2>5. ASSUME NEW d \in Clients
        PROVE  /\ since'[d] + Len(seen'[d]) <= Len(log'[HubOf[d]])
               /\ \A i \in 1 .. Len(seen'[d]) :
                    seen'[d][i] = log'[HubOf[d]][since'[d] + i]
    <3>1. CASE d = c
      BY <2>2, <2>3, <2>4, <3>1
    <3>2. CASE d # c
      BY <2>2, <2>3, <3>2 DEF SeenInv
    <3>3. QED
      BY <3>1, <3>2
  <2>6. QED
    BY <2>5 DEF SeenInv
<1>5. ASSUME NEW c \in Clients, Write(c) PROVE SeenInv'
  <2>1. /\ seen'[c] = seen[c] \o queue[c]
        /\ \A d \in Clients : d # c => seen'[d] = seen[d]
        /\ UNCHANGED <<since, log>>
        /\ link[c] = "up"
    BY <1>5 DEF Write, TypeOK
  <2>2. /\ Len(seen'[c]) = Len(seen[c]) + Len(queue[c])
        /\ \A i \in 1 .. Len(seen[c]) : seen'[c][i] = seen[c][i]
        /\ \A k \in 1 .. Len(queue[c]) : seen'[c][Len(seen[c]) + k] = queue[c][k]
    <3>1. seen[c] \in Seq(Message) /\ queue[c] \in Seq(Message)
      BY LengthsNat
    <3> DEFINE s == seen[c]
               t == queue[c]
    <3>2. seen'[c] = s \o t
      BY <2>1
    <3> HIDE DEF s, t
    <3>3. /\ Len(seen'[c]) = Len(s) + Len(t)
          /\ \A i \in 1 .. Len(s) : seen'[c][i] = s[i]
          /\ \A k \in 1 .. Len(t) : seen'[c][Len(s) + k] = t[k]
      <4>1. s \in Seq(Message) /\ t \in Seq(Message)
        BY <3>1 DEF s, t
      <4>2. QED
        BY <3>2, <4>1, Joined
    <3>4. QED
      BY <3>3 DEF s, t
  <2>3. /\ since[c] \in Nat /\ Len(seen[c]) \in Nat /\ Len(queue[c]) \in Nat
        /\ Len(log[HubOf[c]]) \in Nat
    BY LengthsNat
  <2> DEFINE ls == Len(seen[c])
             lq == Len(queue[c])
             ll == Len(log[HubOf[c]])
  <2>8. Len(seen'[c]) = ls + lq /\ ls \in Nat /\ lq \in Nat /\ ll \in Nat
    BY <2>2, <2>3
  <2>4. since[c] + Len(seen'[c]) <= Len(log[HubOf[c]])
    <3>1. since[c] + ls + lq <= ll
      BY <2>1 DEF QueueInv, Reached
    <3> HIDE DEF ls, lq
    <3>2. QED
      BY <2>3, <2>8, <3>1
  <2>5. ASSUME NEW i \in 1 .. Len(seen'[c])
        PROVE  seen'[c][i] = log[HubOf[c]][since[c] + i]
    <3>1. CASE i \in 1 .. Len(seen[c])
      BY <2>2, <3>1 DEF SeenInv
    <3>2. ASSUME NEW k \in 1 .. Len(queue[c]), i = Len(seen[c]) + k
          PROVE  seen'[c][i] = log[HubOf[c]][since[c] + i]
      <4>1. queue[c][k] = log[HubOf[c]][since[c] + Len(seen[c]) + k]
        BY <2>1 DEF QueueInv
      <4>2. since[c] + Len(seen[c]) + k = since[c] + i
        BY <2>3, <3>2
      <4>3. QED
        BY <2>2, <3>2, <4>1, <4>2
    <3>3. (i \in 1 .. ls \/ i - ls \in 1 .. lq) /\ i = ls + (i - ls)
      <4> HIDE DEF ls, lq
      <4>1. i \in 1 .. ls + lq
        BY <2>8
      <4>2. QED
        BY <2>8, <4>1
    <3>4. QED
      BY <3>1, <3>2, <3>3
  <2>6. ASSUME NEW d \in Clients
        PROVE  /\ since'[d] + Len(seen'[d]) <= Len(log'[HubOf[d]])
               /\ \A i \in 1 .. Len(seen'[d]) :
                    seen'[d][i] = log'[HubOf[d]][since'[d] + i]
    <3>1. CASE d = c
      BY <2>1, <2>4, <2>5, <3>1
    <3>2. CASE d # c
      BY <2>1, <3>2 DEF SeenInv
    <3>3. QED
      BY <3>1, <3>2
  <2>7. QED
    BY <2>6 DEF SeenInv
<1>6. QED
  BY <1>1, <1>2, <1>3, <1>4, <1>5 DEF Next, Arrive, Reveal, Hide, Start, Read,
    BroadcastReports, BroadcastPublicReports, Advance, Drop, WriterEnds, Unregister, vars,
    client

LEMMA QueuePass ==
  ASSUME TypeOK, QueueInv, NEW h \in Hubs, Pass(h)
  PROVE  QueueInv'
<1> DEFINE m == Head(channel[h])
<1>1. /\ UNCHANGED <<link, seen, since>>
      /\ clients' = clients \ Slow(h)
      /\ queue' = [c \in Clients |-> IF c \in Listening(h) \ Slow(h)
                                     THEN Append(queue[c], m) ELSE queue[c]]
  BY DEF Pass
<1>2. m \in Message
  BY DEF TypeOK, Pass
<1> SUFFICES ASSUME NEW c \in Clients, link[c] = "up"
             PROVE  /\ Reached(c)' <= Len(log'[HubOf[c]])
                    /\ \A i \in 1 .. Len(queue'[c]) :
                         queue'[c][i] = log'[HubOf[c]][since[c] + Len(seen[c]) + i]
                    /\ c \in clients' => Reached(c)' = Len(log'[HubOf[c]])
  BY <1>1 DEF QueueInv
<1>3. /\ Reached(c) <= Len(log[HubOf[c]]) /\ Reached(c) \in Nat
      /\ \A i \in 1 .. Len(queue[c]) :
           queue[c][i] = log[HubOf[c]][since[c] + Len(seen[c]) + i]
      /\ c \in clients => Reached(c) = Len(log[HubOf[c]])
  BY LengthsNat DEF QueueInv, Reached
<1>4. CASE HubOf[c] # h
  <2>1. log'[HubOf[c]] = log[HubOf[c]] /\ queue'[c] = queue[c] /\ Reached(c)' = Reached(c)
    BY <1>1, <1>4, PassLog, LengthsNat DEF Listening, Reached
  <2>2. QED
    BY <1>1, <1>3, <2>1
<1> DEFINE First(i) == since[c] + Len(seen[c]) + i
<1>5. ASSUME HubOf[c] = h, NEW i \in 1 .. Len(queue[c])
      PROVE  queue[c][i] = log'[h][First(i)]
  <2>1. First(i) \in 1 .. Len(log[h])
    <3>1. /\ since[c] \in Nat /\ Len(seen[c]) \in Nat /\ Len(queue[c]) \in Nat
          /\ Len(log[h]) \in Nat
      BY LengthsNat
    <3>2. since[c] + Len(seen[c]) + Len(queue[c]) <= Len(log[h])
      BY <1>3, <1>5 DEF Reached
    <3>3. \A a, b, d, n \in Nat : a + b + d <= n => \A k \in 1 .. d : a + b + k \in 1 .. n
      OBVIOUS
    <3>4. QED
      BY <1>5, <3>1, <3>2, <3>3
  <2>2. queue[c][i] = log[h][First(i)]
    BY <1>3, <1>5
  <2> HIDE DEF First
  <2>3. QED
    BY <2>1, <2>2, PassLog
<1>6. CASE HubOf[c] = h /\ c \notin Listening(h) \ Slow(h)
  <2>1. queue'[c] = queue[c] /\ c \notin clients' /\ Reached(c)' = Reached(c)
    BY <1>1, <1>6 DEF Listening, Slow, Reached
  <2>2. Reached(c)' <= Len(log'[h])
    BY <1>3, <1>6, <2>1, PassLog, LengthsNat
  <2>3. QED
    BY <1>5, <1>6, <2>1, <2>2
<1>7. CASE HubOf[c] = h /\ c \in Listening(h) \ Slow(h)
  <2>1. /\ Len(queue'[c]) = Len(queue[c]) + 1
        /\ queue'[c][Len(queue[c]) + 1] = m
        /\ \A i \in 1 .. Len(queue[c]) : queue'[c][i] = queue[c][i]
    <3>1. queue[c] \in Seq(Message)
      BY LengthsNat
    <3>2. queue'[c] = Append(queue[c], m)
      BY <1>1, <1>7
    <3> HIDE DEF m
    <3>3. QED
      BY <1>2, <3>1, <3>2, Appended
  <2>2. /\ Reached(c)' = Reached(c) + 1
        /\ Reached(c) = Len(log[h])
    <3> DEFINE ls == since[c] + Len(seen[c])
               lq == Len(queue[c])
    <3>1. ls \in Nat /\ lq \in Nat
      BY LengthsNat
    <3>2. c \in clients
      BY <1>7 DEF Listening
    <3>3. Reached(c)' = ls + (lq + 1)
      BY <1>1, <2>1 DEF Reached
    <3>4. Reached(c) = ls + lq
      BY DEF Reached
    <3>5. Reached(c) = Len(log[h])
      BY <1>3, <1>7, <3>2
    <3> HIDE DEF ls, lq
    <3>6. QED
      BY <3>1, <3>3, <3>4, <3>5
  <2>3. Reached(c)' = Len(log'[h])
    BY <2>2, PassLog
  <2>4. ASSUME NEW i \in 1 .. Len(queue'[c])
        PROVE  queue'[c][i] = log'[h][First(i)]
    <3>1. CASE i \in 1 .. Len(queue[c])
      <4>1. queue[c][i] = log'[h][First(i)]
        BY <1>5, <1>7, <3>1
      <4>2. QED
        BY <2>1, <3>1, <4>1
    <3>2. CASE i = Len(queue[c]) + 1
      <4>1. First(i) = Len(log[h]) + 1
        <5> DEFINE ls == since[c] + Len(seen[c])
                   lq == Len(queue[c])
        <5>1. ls \in Nat /\ lq \in Nat
          BY LengthsNat
        <5>2. ls + lq = Len(log[h])
          BY <2>2 DEF Reached
        <5>3. First(i) = ls + (lq + 1)
          BY <3>2
        <5> HIDE DEF ls, lq, First
        <5>4. QED
          BY <5>1, <5>2, <5>3
      <4>2. QED
        BY <2>1, <3>2, <4>1, PassLog
    <3>3. QED
      BY <2>1, <3>1, <3>2, LengthsNat
  <2>5. QED
    BY <1>3, <1>7, <2>2, <2>3, <2>4, PassLog
<1>8. QED
  BY <1>4, <1>6, <1>7

LEMMA QueueStep ==
  ASSUME TypeOK, ClientInv, QueueInv, [Next]_vars
  PROVE  QueueInv'
<1>1. CASE UNCHANGED <<client, log>>
  BY <1>1 DEF QueueInv, Reached, client
<1>2. CASE Crash
  BY <1>2 DEF QueueInv, Crash
<1>3. ASSUME NEW h \in Hubs, Pass(h) PROVE QueueInv'
  BY <1>3, QueuePass
<1>4. ASSUME NEW c \in Clients,
             Register(c) \/ Drop(c) \/ Write(c) \/ WriterEnds(c) \/ Unregister(c)
      PROVE  QueueInv'
  <2>1. /\ UNCHANGED log
        /\ \A d \in Clients : d # c =>
             /\ link'[d] = link[d] /\ queue'[d] = queue[d] /\ seen'[d] = seen[d]
             /\ since'[d] = since[d] /\ (d \in clients' <=> d \in clients)
    BY <1>4 DEF Register, Drop, Write, WriterEnds, Unregister, TypeOK
  <2>2. link'[c] = "up" =>
          /\ Reached(c)' <= Len(log[HubOf[c]])
          /\ \A i \in 1 .. Len(queue'[c]) :
               queue'[c][i] = log[HubOf[c]][since'[c] + Len(seen'[c]) + i]
          /\ c \in clients' => Reached(c)' = Len(log[HubOf[c]])
    <3>1. CASE Register(c)
      <4>1. /\ queue'[c] = <<>> /\ seen'[c] = <<>> /\ since'[c] = Len(log[HubOf[c]])
        BY <3>1 DEF Register, ClientInv, TypeOK
      <4>2. QED
        BY <4>1, LengthsNat DEF Reached
    <3>2. CASE Drop(c) \/ WriterEnds(c) \/ Unregister(c)
      BY <3>2 DEF Drop, WriterEnds, Unregister, TypeOK
    <3>3. CASE Write(c)
      <4>1. /\ seen'[c] = seen[c] \o queue[c] /\ queue'[c] = <<>> /\ link[c] = "up"
            /\ UNCHANGED <<since, clients>>
        BY <3>3 DEF Write, TypeOK
      <4>2. Len(seen'[c]) = Len(seen[c]) + Len(queue[c]) /\ Len(queue'[c]) = 0
        <5>1. seen[c] \in Seq(Message) /\ queue[c] \in Seq(Message)
          BY LengthsNat
        <5>2. QED
          BY <4>1, <5>1, Joined
      <4>3. Reached(c)' = Reached(c)
        <5>1. since[c] \in Nat /\ Len(seen[c]) \in Nat /\ Len(queue[c]) \in Nat
          BY LengthsNat
        <5>2. Reached(c)' = since[c] + (Len(seen[c]) + Len(queue[c])) + 0
          BY <4>1, <4>2 DEF Reached
        <5>3. \A a, b, d \in Nat : a + (b + d) + 0 = a + b + d
          BY ONLY TRUE
        <5>4. since[c] + (Len(seen[c]) + Len(queue[c])) + 0
                = since[c] + Len(seen[c]) + Len(queue[c])
          BY ONLY <5>1, <5>3
        <5>5. QED
          BY <5>2, <5>4 DEF Reached
      <4>4. QED
        BY <4>1, <4>2, <4>3 DEF QueueInv
    <3>4. QED
      BY <1>4, <3>1, <3>2, <3>3
  <2>3. QED
    BY <2>1, <2>2, SMTT(20) DEF QueueInv, Reached
<1>5. QED
  BY <1>1, <1>2, <1>3, <1>4 DEF Next, Arrive, Reveal, Hide, Start, Read, BroadcastReports,
    BroadcastPublicReports, Advance, vars, client

-----------------------------------------------------------------------------
(* The order of the messages. *)

LEMMA OrderedAppend ==
  ASSUME NEW s \in Seq(Message), NEW m \in Message, Ordered(s),
         \A i \in 1 .. Len(s) : \A a \in s[i], b \in m : a < b
  PROVE  Ordered(Append(s, m))
<1> DEFINE t == Append(s, m)
<1>1. /\ Len(s) \in Nat
      /\ Len(t) = Len(s) + 1 /\ t[Len(s) + 1] = m /\ \A i \in 1 .. Len(s) : t[i] = s[i]
  BY Appended
<1> HIDE DEF t
<1> SUFFICES ASSUME NEW i \in 1 .. Len(t), NEW j \in 1 .. Len(t), i < j,
                    NEW a \in t[i], NEW b \in t[j]
             PROVE  a < b
  BY DEF Ordered, t
<1>2. i \in 1 .. Len(s) /\ (j \in 1 .. Len(s) \/ j = Len(s) + 1)
  BY <1>1
<1>3. QED
  BY <1>1, <1>2 DEF Ordered

LEMMA BeforeAppend ==
  ASSUME NEW s \in Seq(Message), NEW t \in Seq(Message), NEW m \in Message, Before(s, t),
         \A i \in 1 .. Len(s) : \A a \in s[i], b \in m : a < b
  PROVE  Before(s, Append(t, m))
<1> DEFINE u == Append(t, m)
<1>1. /\ Len(t) \in Nat
      /\ Len(u) = Len(t) + 1 /\ u[Len(t) + 1] = m /\ \A i \in 1 .. Len(t) : u[i] = t[i]
  BY Appended
<1> HIDE DEF u
<1> SUFFICES ASSUME NEW i \in 1 .. Len(s), NEW j \in 1 .. Len(u),
                    NEW a \in s[i], NEW b \in u[j]
             PROVE  a < b
  BY DEF Before, u
<1>2. j \in 1 .. Len(t) \/ j = Len(t) + 1
  BY <1>1
<1>3. QED
  BY <1>1, <1>2 DEF Before

LEMMA SentAppend ==
  ASSUME NEW h, NEW s \in Seq(Message), NEW m \in Message, AllSent(h, s),
         \A a \in m : Sent(h, a)
  PROVE  AllSent(h, Append(s, m))
<1> DEFINE t == Append(s, m)
<1>1. /\ Len(s) \in Nat
      /\ Len(t) = Len(s) + 1 /\ t[Len(s) + 1] = m /\ \A i \in 1 .. Len(s) : t[i] = s[i]
  BY Appended
<1> HIDE DEF t
<1>2. \A i \in 1 .. Len(t) : i \in 1 .. Len(s) \/ i = Len(s) + 1
  BY <1>1
<1>3. AllSent(h, t)
  BY <1>1, <1>2 DEF AllSent
<1>4. QED
  BY <1>3 DEF t

\* What is left when the first message is taken.
LEMMA Taken ==
  ASSUME NEW t \in Seq(Message), t # <<>>
  PROVE  /\ Tail(t) \in Seq(Message) /\ Head(t) \in Message
         /\ Len(t) \in Nat /\ 1 \in 1 .. Len(t) /\ Head(t) = t[1]
         /\ \A j \in 1 .. Len(Tail(t)) : j + 1 \in 1 .. Len(t) /\ Tail(t)[j] = t[j + 1]
<1>1. Len(t) \in Nat /\ Len(t) # 0
  BY EmptySeq
<1>2. QED
  BY <1>1, HeadTailProperties

LEMMA MoveOrder ==
  ASSUME NEW s \in Seq(Message), NEW t \in Seq(Message), t # <<>>,
         Ordered(s), Ordered(t), Before(s, t)
  PROVE  /\ Ordered(Append(s, Head(t)))
         /\ Ordered(Tail(t))
         /\ Before(Append(s, Head(t)), Tail(t))
<1>1. Ordered(Append(s, Head(t)))
  BY Taken, OrderedAppend DEF Before
<1> DEFINE u == Tail(t)
           v == Append(s, Head(t))
<1>2. /\ Head(t) = t[1] /\ 1 \in 1 .. Len(t)
      /\ \A j \in 1 .. Len(u) : j + 1 \in 1 .. Len(t) /\ u[j] = t[j + 1]
  BY Taken
<1>3. /\ Len(s) \in Nat /\ Len(v) = Len(s) + 1 /\ v[Len(s) + 1] = Head(t)
      /\ \A i \in 1 .. Len(s) : v[i] = s[i]
  BY Taken, Appended
<1> HIDE DEF u, v
<1>4. Ordered(u)
  <2> SUFFICES ASSUME NEW i \in 1 .. Len(u), NEW j \in 1 .. Len(u), i < j,
                      NEW a \in u[i], NEW b \in u[j]
               PROVE  a < b
    BY DEF Ordered
  <2>1. i + 1 \in 1 .. Len(t) /\ u[i] = t[i + 1]
    BY <1>2
  <2>2. j + 1 \in 1 .. Len(t) /\ u[j] = t[j + 1]
    BY <1>2
  <2>3. i + 1 < j + 1
    OBVIOUS
  <2> QED BY <2>1, <2>2, <2>3 DEF Ordered
<1>5. Before(v, u)
  <2> SUFFICES ASSUME NEW i \in 1 .. Len(v), NEW j \in 1 .. Len(u),
                      NEW a \in v[i], NEW b \in u[j]
               PROVE  a < b
    BY DEF Before
  <2>1. b \in t[j + 1] /\ j + 1 \in 1 .. Len(t) /\ 1 < j + 1
    BY <1>2
  <2>2. CASE i \in 1 .. Len(s)
    BY <1>3, <2>1, <2>2 DEF Before
  <2>3. CASE i = Len(s) + 1
    BY <1>2, <1>3, <2>1, <2>3 DEF Ordered
  <2>4. QED
    BY <1>3, <2>2, <2>3
<1>6. QED
  BY <1>1, <1>4, <1>5 DEF u, v

LEMMA MoveSent ==
  ASSUME NEW h, NEW s \in Seq(Message), NEW t \in Seq(Message), t # <<>>,
         AllSent(h, s), AllSent(h, t)
  PROVE  AllSent(h, Append(s, Head(t))) /\ AllSent(h, Tail(t))
<1>1. \A a \in Head(t) : Sent(h, a)
  BY Taken DEF AllSent
<1>2. AllSent(h, Append(s, Head(t)))
  BY <1>1, Taken, SentAppend
<1>3. AllSent(h, Tail(t))
  BY Taken DEF AllSent
<1>4. QED
  BY <1>2, <1>3

HubOrder(h) ==
  /\ Ordered(log[h])
  /\ Ordered(channel[h])
  /\ Before(log[h], channel[h])
  /\ AllSent(h, log[h])
  /\ AllSent(h, channel[h])

\* A message that is above all that has been sent keeps the order.
LEMMA SendOrder ==
  ASSUME TypeOK, OrderInv, NEW h \in Hubs, NEW m \in Message, Send(h, m), UNCHANGED log,
         \A g \in Hubs, a \in Seqs : Sent(g, a) => Sent(g, a)',
         \A a \in Seqs, b \in m : Sent(h, a) => a < b,
         \A b \in m : Sent(h, b)'
  PROVE  \A g \in Hubs : HubOrder(g)'
<1>1. \A g \in Hubs : channel[g] \in Seq(Message) /\ log[g] \in Seq(Message)
  BY DEF TypeOK
<1>2. ASSUME NEW g \in Hubs
      PROVE  /\ \A i \in 1 .. Len(channel[g]) : \A a \in channel[g][i] : a \in Seqs
             /\ \A i \in 1 .. Len(log[g]) : \A a \in log[g][i] : a \in Seqs
  BY <1>1 DEF Message
<1>3. ASSUME NEW g \in Hubs, channel'[g] = channel[g]
      PROVE  HubOrder(g)'
  <2>1. AllSent(g, log[g])' /\ AllSent(g, channel[g])'
    BY <1>2, <1>3 DEF OrderInv, AllSent
  <2>2. QED
    BY <1>3, <2>1 DEF OrderInv, HubOrder
<1>4. CASE m = {}
  BY <1>3, <1>4 DEF Send
<1>5. CASE m # {}
  <2>1. /\ channel'[h] = Append(channel[h], m)
        /\ \A g \in Hubs : g # h => channel'[g] = channel[g]
    BY <1>5 DEF Send, TypeOK
  <2> SUFFICES HubOrder(h)'
    BY <1>3, <2>1
  <2>2. /\ \A i \in 1 .. Len(channel[h]) : \A a \in channel[h][i], b \in m : a < b
        /\ \A i \in 1 .. Len(log[h]) : \A a \in log[h][i], b \in m : a < b
    BY <1>2 DEF OrderInv, AllSent
  <2>3. /\ Ordered(channel[h]) /\ Before(log[h], channel[h]) /\ Ordered(log[h])
    BY DEF OrderInv
  <2>4. Ordered(channel'[h]) /\ Before(log[h], channel'[h])
    BY <1>1, <2>1, <2>2, <2>3, OrderedAppend, BeforeAppend
  <2>5. AllSent(h, log[h])' /\ AllSent(h, channel[h])'
    <3>1. \A i \in 1 .. Len(log[h]) : \A a \in log[h][i] : Sent(h, a)'
      BY <1>2 DEF OrderInv, AllSent
    <3>2. \A i \in 1 .. Len(channel'[h]) : \A a \in channel'[h][i] : Sent(h, a)'
      <4>1. /\ Len(channel[h]) \in Nat
            /\ Len(channel'[h]) = Len(channel[h]) + 1
            /\ channel'[h][Len(channel[h]) + 1] = m
            /\ \A i \in 1 .. Len(channel[h]) : channel'[h][i] = channel[h][i]
        BY <1>1, <2>1, Appended
      <4>2. \A i \in 1 .. Len(channel'[h]) :
              i \in 1 .. Len(channel[h]) \/ i = Len(channel[h]) + 1
        BY <4>1
      <4>3. \A i \in 1 .. Len(channel[h]) : \A a \in channel[h][i] : Sent(h, a)'
        BY <1>2 DEF OrderInv, AllSent
      <4>4. QED
        BY <4>1, <4>2, <4>3
    <3>3. QED
      BY <3>1, <3>2 DEF AllSent
  <2>6. QED
    BY <2>3, <2>4, <2>5 DEF HubOrder
<1>6. QED
  BY <1>4, <1>5

\* Steps that send nothing, and take back nothing that has been sent.
LEMMA StillOrder ==
  ASSUME TypeOK, OrderInv, UNCHANGED <<log, channel>>,
         \A g \in Hubs, a \in Seqs : Sent(g, a) => Sent(g, a)'
  PROVE  \A g \in Hubs : HubOrder(g)'
<1> SUFFICES ASSUME NEW g \in Hubs PROVE HubOrder(g)'
  OBVIOUS
<1>1. channel[g] \in Seq(Message) /\ log[g] \in Seq(Message)
  BY DEF TypeOK
<1>2. /\ \A i \in 1 .. Len(channel[g]) : \A a \in channel[g][i] : a \in Seqs
      /\ \A i \in 1 .. Len(log[g]) : \A a \in log[g][i] : a \in Seqs
  BY <1>1 DEF Message
<1>3. AllSent(g, log[g])' /\ AllSent(g, channel[g])'
  BY <1>2 DEF OrderInv, AllSent
<1>4. QED
  BY <1>3 DEF OrderInv, HubOrder

LEMMA PassOrder ==
  ASSUME TypeOK, OrderInv, NEW h \in Hubs, Pass(h)
  PROVE  \A g \in Hubs : HubOrder(g)'
<1>1. /\ channel[h] \in Seq(Message) /\ log[h] \in Seq(Message) /\ channel[h] # <<>>
      /\ log'[h] = Append(log[h], Head(channel[h])) /\ channel'[h] = Tail(channel[h])
      /\ \A g \in Hubs : g # h => log'[g] = log[g] /\ channel'[g] = channel[g]
      /\ UNCHANGED <<mem, batch, pc>>
  BY DEF TypeOK, Pass, cursor, loop
<1>2. Ordered(log'[h]) /\ Ordered(channel'[h]) /\ Before(log'[h], channel'[h])
  BY <1>1, MoveOrder DEF OrderInv
<1>4. AllSent(h, Append(log[h], Head(channel[h]))) /\ AllSent(h, Tail(channel[h]))
  BY <1>1, MoveSent DEF OrderInv
<1>5. \A i \in 1 .. Len(log'[h]) : \A a \in log'[h][i] : Sent(h, a)'
  BY <1>1, <1>4 DEF AllSent, Sent
<1>6. \A i \in 1 .. Len(channel'[h]) : \A a \in channel'[h][i] : Sent(h, a)'
  BY <1>1, <1>4 DEF AllSent, Sent
<1>7. HubOrder(h)'
  BY <1>2, <1>5, <1>6 DEF HubOrder, AllSent
<1>8. ASSUME NEW g \in Hubs, g # h PROVE HubOrder(g)'
  BY <1>1, <1>8 DEF OrderInv, HubOrder, AllSent, Sent
<1>9. QED
  BY <1>7, <1>8

LEMMA OrderStep ==
  ASSUME TypeOK, BatchInv, OrderInv, [Next]_vars
  PROVE  OrderInv'
<1>0. /\ mem \in Nat /\ batch \in SUBSET Seqs /\ Seqs \subseteq Nat
  BY ConstantsAssumption DEF TypeOK, Message, Seqs
<1>1. CASE UNCHANGED <<mem, loop, channel, log>>
  <2>1. \A g \in Hubs : HubOrder(g)'
    BY <1>1, StillOrder DEF Sent, loop
  <2>2. QED
    BY <1>1, <2>1 DEF OrderInv, HubOrder, loop
<1>2. CASE Start
  <2>1. mem' \in Nat
    BY <1>2, LatestTyped, ConstantsAssumption DEF Start, TypeOK
  <2>2. \A g \in Hubs, a \in Seqs : Sent(g, a) => Sent(g, a)'
    <3>1. mem = 0 /\ pc = "down"
      BY <1>2 DEF Start, OrderInv
    <3>2. QED
      BY <1>0, <2>1, <3>1 DEF Sent
  <2>3. \A g \in Hubs : HubOrder(g)'
    BY <1>2, <2>2, StillOrder DEF Start
  <2>4. QED
    BY <1>2, <2>3 DEF OrderInv, HubOrder, Start
<1>3. CASE Read
  <2>1. \A g \in Hubs : HubOrder(g)'
    <3>1. \A g \in Hubs, a \in Seqs : Sent(g, a) => Sent(g, a)'
      BY <1>3 DEF Sent, Read, cursor, BatchInv
    <3>2. QED
      BY <1>3, <3>1, StillOrder DEF Read
  <2>2. QED
    BY <1>3, <2>1 DEF OrderInv, HubOrder, Read
<1>4. CASE BroadcastReports
  <2>1. \A a \in Seqs, b \in batch : Sent("full", a) => a < b
    BY <1>0, <1>4 DEF BroadcastReports, BatchInv, Sent
  <2>2. \A g \in Hubs, a \in Seqs : Sent(g, a) => Sent(g, a)'
    BY <1>4 DEF BroadcastReports, Sent, cursor
  <2>3. \A b \in batch : Sent("full", b)'
    BY <1>4 DEF BroadcastReports, Sent, cursor
  <2>4. /\ Send("full", batch) /\ "full" \in Hubs /\ batch \in Message /\ UNCHANGED log
    BY <1>4 DEF BroadcastReports, Hubs, TypeOK
  <2>5. \A g \in Hubs : HubOrder(g)'
    BY <2>1, <2>2, <2>3, <2>4, SendOrder
  <2>6. QED
    BY <1>4, <2>5 DEF OrderInv, HubOrder, BroadcastReports
<1>5. CASE BroadcastPublicReports
  <2>0. /\ pc = "full" /\ pc' = "public" /\ UNCHANGED <<mem, batch, log>>
        /\ Send("public", PublicLive(batch)) \/ UNCHANGED channel
    BY <1>5 DEF BroadcastPublicReports, cursor
  <2>2. \A g \in Hubs, a \in Seqs : Sent(g, a) => Sent(g, a)'
    BY <2>0 DEF Sent
  <2>1. ASSUME Send("public", PublicLive(batch)) PROVE \A g \in Hubs : HubOrder(g)'
    <3>1. PublicLive(batch) \in Message /\ PublicLive(batch) \subseteq batch
      BY <1>0 DEF PublicLive, Message
    <3>2. ASSUME NEW a \in Seqs, NEW b \in PublicLive(batch), Sent("public", a)
          PROVE  a < b
      <4>1. a <= mem
        <5>1. "public" # "full"
          OBVIOUS
        <5>2. QED
          BY <2>0, <3>2, <5>1 DEF Sent
      <4>2. b \in Seqs /\ b > mem
        BY <1>0, <3>1 DEF BatchInv
      <4>3. QED
        BY <1>0, <4>1, <4>2
    <3>3. \A b \in PublicLive(batch) : Sent("public", b)'
      BY <2>0, <3>1 DEF Sent
    <3>4. "public" \in Hubs /\ UNCHANGED log
      BY <2>0 DEF Hubs
    <3>5. QED
      BY <2>1, <2>2, <3>1, <3>2, <3>3, <3>4, SendOrder
  <2>3. \A g \in Hubs : HubOrder(g)'
    BY <2>0, <2>1, <2>2, StillOrder
  <2>4. QED
    BY <2>0, <2>3 DEF OrderInv, HubOrder
<1>6. CASE Advance
  <2>1. /\ batch # {} /\ pc = "public" /\ mem' = Highest(batch)
    BY <1>6 DEF Advance, BatchInv
  <2>2. /\ Highest(batch) \in batch /\ \A s \in batch : s <= Highest(batch)
    BY <2>1, BatchHighest
  <2>3. \A g \in Hubs, a \in Seqs : Sent(g, a) => Sent(g, a)'
    <3>1. mem < mem' /\ mem' \in Nat
      BY <1>0, <2>1, <2>2 DEF BatchInv
    <3>2. QED
      BY <1>0, <2>1, <2>2, <3>1 DEF Sent
  <2>4. \A g \in Hubs : HubOrder(g)'
    BY <1>6, <2>3, StillOrder DEF Advance
  <2>5. QED
    BY <1>6, <2>4 DEF OrderInv, HubOrder, Advance
<1>7. CASE Crash
  BY <1>7 DEF Crash, OrderInv, Ordered, Before, AllSent
<1>8. ASSUME NEW h \in Hubs, Pass(h) PROVE OrderInv'
  <2>1. \A g \in Hubs : HubOrder(g)'
    BY <1>8, PassOrder
  <2>2. QED
    BY <1>8, <2>1 DEF OrderInv, HubOrder, Pass, cursor, loop
<1>9. QED
  BY <1>1, <1>2, <1>3, <1>4, <1>5, <1>6, <1>7, <1>8 DEF Next, Arrive, Reveal, Hide,
    Register, Drop, Write, WriterEnds, Unregister, vars, cursor

-----------------------------------------------------------------------------
(* The invariant, and what follows from it. *)

LEMMA InvInit == Init => Inv
<1> SUFFICES ASSUME Init PROVE Inv
  OBVIOUS
<1>1. BatchInv /\ ClientInv /\ OrderInv
  BY DEF Init, BatchInv, ClientInv, OrderInv, Ordered, Before, AllSent
<1>2. SeenInv /\ QueueInv
  BY ConstantsAssumption DEF Init, SeenInv, QueueInv
<1>3. QED
  BY <1>1, <1>2, TypeInit DEF Inv

LEMMA TypeStep == ASSUME TypeOK, BatchInv, [Next]_vars PROVE TypeOK'
<1>1. CASE UNCHANGED vars
  BY <1>1 DEF vars, TypeOK, cursor, loop, client
<1>2. QED
  BY <1>1, ReportTyped, LoopTyped, CrashTyped, PassTyped, ClientTyped DEF Next

LEMMA Inductive == Spec => []Inv
<1>1. Inv /\ [Next]_vars => Inv'
  BY TypeStep, BatchStep, ClientStep, SeenStep, QueueStep, OrderStep DEF Inv
<1>2. QED
  BY <1>1, InvInit, PTL DEF Spec

\* Every variable keeps its type.
THEOREM TypeCorrect == Spec => []TypeOK
<1>1. Inv => TypeOK
  BY DEF Inv
<1>2. QED
  BY <1>1, Inductive, PTL

\* A queue is closed at most once, and never while the hub knows its client.
THEOREM ClosedOnce == Spec => []QueuesClosedOnce
<1>1. Inv => QueuesClosedOnce
  BY DEF Inv, ClientInv, QueuesClosedOnce
<1>2. QED
  BY <1>1, Inductive, PTL

\* The messages of a connection carry every report once, in ascending order.
THEOREM InOrder == Spec => []StreamInOrder
<1>1. Inv => StreamInOrder
  <2> SUFFICES ASSUME Inv, NEW c \in Clients, NEW i \in 1 .. Len(seen[c]),
                      NEW j \in 1 .. Len(seen[c]), i < j,
                      NEW a \in seen[c][i], NEW b \in seen[c][j]
               PROVE  a < b
    BY DEF StreamInOrder
  <2>1. /\ since[c] \in Nat /\ Len(seen[c]) \in Nat /\ HubOf[c] \in Hubs
        /\ Len(log[HubOf[c]]) \in Nat
    BY LengthsNat DEF Inv
  <2>2. /\ since[c] + Len(seen[c]) <= Len(log[HubOf[c]])
        /\ seen[c][i] = log[HubOf[c]][since[c] + i]
        /\ seen[c][j] = log[HubOf[c]][since[c] + j]
    BY DEF Inv, SeenInv
  <2>3. /\ since[c] + i \in 1 .. Len(log[HubOf[c]])
        /\ since[c] + j \in 1 .. Len(log[HubOf[c]])
        /\ since[c] + i < since[c] + j
    <3> DEFINE n == since[c]
               ls == Len(seen[c])
               ll == Len(log[HubOf[c]])
    <3>1. n \in Nat /\ ls \in Nat /\ ll \in Nat /\ n + ls <= ll
          /\ i \in 1 .. ls /\ j \in 1 .. ls
      BY <2>1, <2>2
    <3> HIDE DEF n, ls, ll
    <3>2. n + i \in 1 .. ll /\ n + j \in 1 .. ll /\ n + i < n + j
      BY <3>1
    <3>3. QED
      BY <3>2 DEF n, ll
  <2>4. Ordered(log[HubOf[c]])
    BY <2>1 DEF Inv, OrderInv
  <2>5. QED
    BY <2>2, <2>3, <2>4 DEF Ordered
<1>2. QED
  BY <1>1, Inductive, PTL

\* The stream of a client that is connected has no gap.
THEOREM NoGap == Spec => []NoGapWhileConnected
<1>1. Inv => NoGapWhileConnected
  <2> SUFFICES ASSUME Inv, NEW c \in clients, link[c] = "up"
               PROVE  seen[c] \o queue[c]
                        = SubSeq(log[HubOf[c]], since[c] + 1, Len(log[HubOf[c]]))
    BY DEF NoGapWhileConnected
  <2>1. c \in Clients
    BY DEF Inv, TypeOK
  <2> DEFINE s == seen[c]
             q == queue[c]
             l == log[HubOf[c]]
             n == since[c]
             ls == Len(s)
             lq == Len(q)
             ll == Len(l)
  <2>2. /\ s \in Seq(Message) /\ q \in Seq(Message) /\ l \in Seq(Message)
        /\ n \in Nat /\ ls \in Nat /\ lq \in Nat /\ ll \in Nat
    BY <2>1, LengthsNat DEF Inv
  <2>3. /\ \A i \in 1 .. ls : s[i] = l[n + i]
        /\ \A i \in 1 .. lq : q[i] = l[n + ls + i]
        /\ n + ls + lq = ll
    BY <2>1 DEF Inv, SeenInv, QueueInv, Reached
  <2>4. /\ Len(s \o q) = ls + lq /\ s \o q \in Seq(Message)
        /\ \A i \in 1 .. ls : (s \o q)[i] = s[i]
        /\ \A k \in 1 .. lq : (s \o q)[ls + k] = q[k]
    <3>1. s \o q \in Seq(Message)
      BY <2>2
    <3> HIDE DEF s, q
    <3>2. QED
      BY <2>2, <3>1, Joined
  <2> HIDE DEF s, q, l, n
  <2> DEFINE u == s \o q
             v == SubSeq(l, n + 1, ll)
  <2>5. v \in Seq(Message) /\ Len(v) = ll - n /\ \A i \in 1 .. ll - n : v[i] = l[n + i]
    <3> HIDE DEF ls, lq
    <3>1. n + 1 \in 1 .. ll + 1 /\ ll \in 0 .. ll
      BY <2>2, <2>3
    <3>2. v \in Seq(Message) /\ Len(v) = ll - n
      BY <2>2, <3>1, SubSeqProperties
    <3>3. QED
      BY <2>2, <3>1, <3>2, SubSeqProperties
  <2>6. Len(u) = Len(v)
    <3> HIDE DEF ls, lq, ll, u, v
    <3>1. QED
      BY <2>2, <2>3, <2>4, <2>5 DEF u
  <2>7. ASSUME NEW i \in 1 .. Len(u) PROVE u[i] = v[i]
    <3> HIDE DEF ls, lq, ll, v
    <3>1. i \in 1 .. ls + lq /\ i \in 1 .. ll - n
      BY <2>4, <2>5, <2>6
    <3>2. CASE i \in 1 .. ls
      BY <2>3, <2>4, <2>5, <3>1, <3>2
    <3>3. CASE i \notin 1 .. ls
      <4> DEFINE k == i - ls
      <4>1. k \in 1 .. lq /\ i = ls + k /\ n + i = n + ls + k
        BY <2>2, <3>1, <3>3
      <4> HIDE DEF k
      <4>2. QED
        BY <2>3, <2>4, <2>5, <3>1, <4>1
    <3>4. QED
      BY <3>2, <3>3
  <2>8. u = v
    <3> HIDE DEF u, v
    <3>1. u \in Seq(Message) /\ v \in Seq(Message)
      BY <2>4, <2>5 DEF u
    <3>2. QED
      BY <2>6, <2>7, <3>1, SeqEqual
  <2>9. QED
    BY <2>8 DEF s, q, l, n
<1>2. QED
  BY <1>1, Inductive, PTL

-----------------------------------------------------------------------------
(* The cursor. *)

LEMMA CursorStep ==
  ASSUME Stored0 # 0, TypeOK, BatchInv, CursorInv, [Next]_vars
  PROVE  CursorInv'
<1>0. /\ mem \in Nat /\ stored \in Nat /\ batch \in SUBSET Seqs /\ due \in SUBSET Seqs
      /\ Seqs \subseteq Nat /\ Stored0 \in Nat /\ \A s \in Seqs : s > Stored0
  BY ConstantsAssumption DEF TypeOK, Message, Seqs
<1>1. ASSUME NEW s \in Seqs, Arrive(s) \/ Reveal(s) \/ Hide(s) PROVE CursorInv'
  <2>1. /\ UNCHANGED <<stored, mem, pc, batch, offered>>
        /\ due' \subseteq due
        /\ \A t \in due' : report'[t] = "ready"
    <3>1. UNCHANGED <<stored, mem, pc, batch, offered>> /\ due' \subseteq due
      BY <1>1 DEF Arrive, Reveal, Hide, cursor, loop
    <3>2. \A t \in due' : report'[t] = "ready"
      <4>1. \A t \in due : t \in Seqs /\ report[t] = "ready"
        BY <1>0 DEF CursorInv
      <4>2. CASE Arrive(s) \/ Reveal(s)
        BY <4>1, <4>2 DEF Arrive, Reveal, TypeOK
      <4>3. ASSUME Hide(s), NEW t \in due' PROVE report'[t] = "ready"
        <5>1. t \in due /\ t # s
          BY <4>3 DEF Hide
        <5>2. report'[t] = report[t]
          BY <1>0, <4>3, <5>1 DEF Hide, TypeOK
        <5>3. QED
          BY <4>1, <5>1, <5>2
      <4>4. QED
        BY <1>1, <4>2, <4>3
    <3>3. QED
      BY <3>1, <3>2
  <2>2. QED
    BY <2>1 DEF CursorInv
<1>2. CASE Start
  <2>1. stored # 0 /\ mem' = stored /\ UNCHANGED <<stored, report, batch, due, offered>>
        /\ pc' = "idle"
    BY <1>0, <1>2 DEF Start, CursorInv
  <2>2. QED
    BY <1>0, <2>1 DEF CursorInv
<1>3. CASE Read
  <2>1. /\ pc = "idle" /\ pc' = "read" /\ batch' = ReportsSince(mem)
        /\ due' = due \cup batch' /\ UNCHANGED <<report, stored, mem, offered>>
    BY <1>3 DEF Read, cursor
  <2>2. stored <= mem
    BY <2>1 DEF CursorInv
  <2>3. ASSUME NEW s \in due'
        PROVE  /\ report[s] = "ready"
               /\ s <= stored => s \in offered
               /\ s <= mem => s \in offered
               /\ s \in offered \cup batch'
    <3>1. CASE s \in due
      <4>1. s \in Seqs /\ report[s] = "ready" /\ (s <= stored => s \in offered)
            /\ (s <= mem => s \in offered)
        BY <1>0, <3>1 DEF CursorInv
      <4>2. s > mem => s \in batch'
        BY <2>1, <4>1 DEF ReportsSince
      <4>3. QED
        BY <1>0, <4>1, <4>2
    <3>2. CASE s \in batch'
      <4>1. s \in Seqs /\ s > mem /\ report[s] = "ready"
        BY <2>1, <3>2 DEF ReportsSince
      <4>2. ~(s <= mem) /\ ~(s <= stored)
        BY <1>0, <2>2, <4>1
      <4>3. QED
        BY <3>2, <4>1, <4>2
    <3>3. QED
      BY <2>1, <3>1, <3>2
  <2>4. QED
    BY <2>1, <2>2, <2>3 DEF CursorInv
<1>4. CASE BroadcastReports
  BY <1>4 DEF BroadcastReports, CursorInv, cursor
<1>5. CASE BroadcastPublicReports
  BY <1>5 DEF BroadcastPublicReports, CursorInv, cursor
<1>6. CASE Advance
  <2>1. /\ pc = "public" /\ pc' = "idle" /\ mem' = Highest(batch) /\ batch # {}
        /\ Store(Highest(batch)) /\ UNCHANGED <<report, due, offered>>
    BY <1>6 DEF Advance, BatchInv
  <2>2. Highest(batch) \in Seqs /\ Highest(batch) > mem
    BY <2>1, BatchHighest DEF BatchInv
  <2>3. stored' >= Stored0 /\ stored' <= mem'
    <3>1. stored <= mem /\ stored >= Stored0
      BY <2>1 DEF CursorInv
    <3>2. stored' = Highest(batch) \/ stored' = stored
      BY <2>1 DEF Store
    <3> DEFINE top == Highest(batch)
    <3>3. top \in Nat /\ top > mem /\ mem' = top /\ (stored' = top \/ stored' = stored)
      BY <1>0, <2>1, <2>2, <3>2
    <3> HIDE DEF top
    <3>4. QED
      BY <1>0, <3>1, <3>3
  <2>4. \A s \in due : report[s] = "ready" /\ s \in offered
    BY <2>1 DEF CursorInv
  <2>5. QED
    BY <2>1, <2>3, <2>4 DEF CursorInv
<1>7. CASE Crash
  <2>1. pc' = "down" /\ mem' = 0 /\ UNCHANGED <<report, stored, due, offered>>
    BY <1>7 DEF Crash
  <2>2. \A s \in due : ~(s <= 0)
    BY <1>0
  <2>3. QED
    BY <2>1, <2>2 DEF CursorInv
<1>8. CASE UNCHANGED <<report, cursor, loop, due, offered>>
  BY <1>8 DEF CursorInv, cursor, loop
<1>9. QED
  BY <1>1, <1>2, <1>3, <1>4, <1>5, <1>6, <1>7, <1>8 DEF Next, Pass, Register, Drop, Write,
    WriterEnds, Unregister, vars

\* The stored cursor never passes a report that was read but not broadcast, when the
\* service has stored a cursor before.
THEOREM Cursor ==
  ASSUME Stored0 # 0
  PROVE  Spec => []CursorBehindBroadcast
<1>1. Init => CursorInv
  BY ConstantsAssumption DEF Init, CursorInv
<1>2. Inv /\ CursorInv /\ [Next]_vars => CursorInv'
  BY CursorStep DEF Inv
<1>3. CursorInv => CursorBehindBroadcast
  BY DEF CursorInv, CursorBehindBroadcast
<1>4. QED
  BY <1>1, <1>2, <1>3, Inductive, PTL DEF Spec

-----------------------------------------------------------------------------
(***************************************************************************)
(* What holds of Email, the other way in which reports reach people, for   *)
(* any reports, addresses, contacts, bounds and failures.  MaxFaults and   *)
(* faults stand for those of Email below, where nothing is about Broadcast *)
(* any more.                                                               *)
(***************************************************************************)

CONSTANTS
  Branded, Brandless, Emails, OptingOut, Found, Areas, AreasOf, ContactsOf, NoArea, Nowhere,
  ThrottleDays, MaxDaily, MaxDeferrals, BaseHours, MaxBackoffHours, MaxRetries

VARIABLES
  visible, found, listed, optedOut, processed, wait, count, throttle, delivered, job,
  pushed, quiet, pestered, slipped, told, twice, botched

E == INSTANCE Email

\* What a loop may mail.
Mailable(l) == IF l = "aggregate" THEN Branded ELSE Brandless

\* A mail of a loop to an address, for an area or none, is about to be recorded.
AboutToRecord(l, e, v) == job[l].at = "recording" /\ e \in job[l].to /\ v = job[l].via

\* The throttle covers the days an address is to be left in peace, but for a mail that
\* is not recorded yet or has slipped; whom a loop is about to mail is free of it.
QuietInv ==
  /\ E!PesteredOnlyIfSlipped
  /\ \A l \in E!Loops, e \in Emails :
       <<l, e>> \in slipped \/ quiet[l][e] <= throttle[l][e] \/ AboutToRecord(l, e, NoArea)
  /\ \A l \in E!Loops : job[l].at = "sending" /\ job[l].via = NoArea =>
       \A e \in job[l].to : <<l, e>> \in slipped \/ quiet[l][e] = 0

\* A loop mails reports of its own that are not done with, for an area that is not to be
\* mailed any more, or for none when there are no areas to mail.
JobInv ==
  \A l \in E!Loops :
    /\ job[l].reports \subseteq Mailable(l) \ processed
    /\ job[l].via \notin job[l].areas
    /\ job[l].at \in {"sending", "recording"} /\ job[l].areas # {} => job[l].via # NoArea

\* A loop has recorded a mail of a report, and is not about to send it again, nor one to
\* an inferred contact after one for an area.
OnRecord(l, r, e, v) ==
  /\ <<r, e>> \in delivered /\ v \notin job[l].areas
  /\ \/ job[l].at = "marking"
     \/ job[l].at \in {"areas", "recording"} /\ v # NoArea
     \/ job[l].at = "sending" /\ v # NoArea /\ job[l].via \notin {v, NoArea}

\* A report that an address was told of is about to be done with, and the mail about
\* to be recorded or on record.
Settling(r, e, v) == \E l \in E!Loops :
  r \in job[l].reports /\ (AboutToRecord(l, e, v) \/ OnRecord(l, r, e, v))

Lists == Areas \cup {NoArea}

SentOut(r) == \E e \in Emails, v \in Lists : <<r, e, v>> \in told

\* The reporter's devices were told what happened.
PushTrue(r) ==
  /\ pushed[r] # "nothing" => r \in processed
  /\ pushed[r] = "sent" => SentOut(r)
  /\ pushed[r] = "processed_no_delivery" /\ r \notin botched => ~SentOut(r)

\* An address is told once by every list, and by the areas or as an inferred contact.
OnceInv ==
  \A r \in E!Reports, e \in Emails :
    /\ \A v \in Lists : <<r, e, v>> \in twice => r \in botched
    /\ \A v \in Areas : <<r, e, NoArea>> \in told /\ <<r, e, v>> \in told => r \in botched

ToldInv ==
  /\ \A r \in E!Reports, e \in Emails, v \in Lists : <<r, e, v>> \in told =>
       r \in processed \cup botched \/ Settling(r, e, v)
  /\ \A l \in E!Loops : job[l].at = "recording" =>
       \A r \in job[l].reports, e \in job[l].to : <<r, e, job[l].via>> \in told
  /\ \A r \in E!Reports, e \in Emails : <<r, e>> \in delivered => SentOut(r)
  /\ OnceInv
  /\ \A r \in E!Reports : PushTrue(r)

-----------------------------------------------------------------------------
(* Numbers. *)

LEMMA MinOfNumbers ==
  ASSUME NEW S, S \subseteq Nat, S # {}
  PROVE  E!Min(S) \in S /\ \A m \in S : E!Min(S) <= m
BY NatMin DEF E!Min

LEMMA MaxOfThree ==
  ASSUME NEW a \in Nat, NEW b \in Nat, NEW c \in Nat
  PROVE  LET m == E!Max({a, b, c}) IN m \in Nat /\ a <= m /\ b <= m /\ c <= m
<1>1. \E m \in {a, b, c} : \A n \in {a, b, c} : m >= n
  OBVIOUS
<1> QED BY <1>1 DEF E!Max

LEMMA MaxOfTwo ==
  ASSUME NEW a \in Nat, NEW b \in Nat
  PROVE  LET m == E!Max({a, b}) IN m \in Nat /\ a <= m /\ b <= m
<1>1. \E m \in {a, b} : \A n \in {a, b} : m >= n
  OBVIOUS
<1> QED BY <1>1 DEF E!Max

\* A power of two counts subsets.
LEMMA PowerOfTwo == ASSUME NEW n \in Nat PROVE 2^n \in Nat
<1>1. IsFiniteSet(1 .. n) /\ Cardinality(1 .. n) = n
  BY FS_Interval
<1>2. IsFiniteSet(SUBSET (1 .. n)) /\ Cardinality(SUBSET (1 .. n)) = 2^n
  BY <1>1, FS_SUBSET
<1> QED BY <1>2, FS_CardinalityType

\* The exponent, from which on the longest wait applies, is a number.
LEMMA ExpCapIsNumber ==
  ASSUME E!ConstantsAssumption
  PROVE  E!ExpCap \in 0 .. 30
<1> DEFINE P(n) == n = 30 \/ BaseHours * 2^n >= MaxBackoffHours
           S == {n \in 0 .. 30 : P(n)}
<1>1. S \subseteq Nat /\ 30 \in S
  OBVIOUS
<1>2. PICK n \in S : \A m \in S : n <= m
  BY <1>1, NatMin
<1>3. n \in 0 .. 30 /\ P(n)
  BY <1>2
<1>4. \A m \in 0 .. n - 1 : m \in 0 .. 30 /\ ~(n <= m)
  BY <1>3
<1>5. \A m \in 0 .. n - 1 : ~P(m)
  BY <1>2, <1>4
<1>6. \A m \in 0 .. n - 1 : BaseHours * 2^m < MaxBackoffHours
  <2> SUFFICES ASSUME NEW m \in 0 .. n - 1 PROVE BaseHours * 2^m < MaxBackoffHours
    OBVIOUS
  <2>1. 2^m \in Nat
    BY <1>4, PowerOfTwo
  <2>2. PICK p \in Nat : p = 2^m
    BY <2>1
  <2>3. ~(BaseHours * p >= MaxBackoffHours)
    BY <1>5, <2>2
  <2>4. BaseHours * p \in Nat
    BY E!ConstantsAssumption
  <2> QED BY <2>2, <2>3, <2>4, E!ConstantsAssumption
<1> QED BY <1>3, <1>6 DEF E!ExpCap

LEMMA LongestWait ==
  ASSUME E!ConstantsAssumption
  PROVE  /\ E!MaxWait \in Nat
         /\ ThrottleDays <= E!MaxWait
         /\ MaxBackoffHours \div 24 <= E!MaxWait
         /\ 1 <= E!MaxWait
<1>1. MaxBackoffHours \div 24 \in Nat
  BY E!ConstantsAssumption
<1> QED BY <1>1, MaxOfThree, E!ConstantsAssumption DEF E!MaxWait

LEMMA MostCounted ==
  ASSUME E!ConstantsAssumption
  PROVE  E!MaxCount \in Nat \ {0} /\ MaxRetries < E!MaxCount
<1>1. MaxRetries \in Nat /\ MaxDeferrals \in Nat
  BY E!ConstantsAssumption
<1> QED BY <1>1, MaxOfTwo DEF E!MaxCount

LEMMA BackoffBounded ==
  ASSUME E!ConstantsAssumption, NEW n \in Nat
  PROVE  E!Backoff(n) \in 0 .. E!MaxWait
<1>1. CASE n = 0
  BY <1>1, LongestWait DEF E!Backoff
<1>2. CASE n # 0
  <2>1. E!Min({n, E!ExpCap}) \in Nat
    BY MinOfNumbers, ExpCapIsNumber
  <2>2. PICK p \in Nat : p = 2^E!Min({n, E!ExpCap})
    BY <2>1, PowerOfTwo
  <2>3. BaseHours * p \in Nat /\ MaxBackoffHours \in Nat
    BY E!ConstantsAssumption
  <2>4. PICK h : h = E!Min({BaseHours * p, MaxBackoffHours})
    OBVIOUS
  <2>5. h \in Nat /\ h <= MaxBackoffHours
    <3>1. PICK x \in Nat : x = BaseHours * p
      BY <2>3
    <3>2. {x, MaxBackoffHours} \subseteq Nat /\ {x, MaxBackoffHours} # {}
      BY <2>3
    <3>3. PICK S : S = {x, MaxBackoffHours}
      OBVIOUS
    <3>4. E!Min(S) \in S /\ \A m \in S : E!Min(S) <= m
      BY <3>2, <3>3, MinOfNumbers
    <3> QED BY <2>3, <2>4, <3>1, <3>3, <3>4
  <2>6. E!Backoff(n) = h \div 24
    BY <1>2, <2>2, <2>4 DEF E!Backoff
  <2>7. h \div 24 \in Nat /\ h \div 24 <= MaxBackoffHours \div 24
    BY <2>3, <2>5
  <2>8. PICK w \in Nat : w = MaxBackoffHours \div 24
    BY <2>3
  <2> QED BY <2>6, <2>7, <2>8, LongestWait
<1> QED BY <1>1, <1>2
-----------------------------------------------------------------------------
(* Types. *)

Points == {"idle", "areas", "sending", "recording", "marking"}

Job == [at : Points, reports : SUBSET E!Reports, to : SUBSET Emails,
        via : Lists, areas : SUBSET Areas]

Days == [E!Loops -> [Emails -> 0 .. ThrottleDays]]

ScheduleTyped ==
  /\ processed \subseteq E!Reports
  /\ wait \in [E!Reports -> 0 .. E!MaxWait]
  /\ count \in [E!Reports -> 0 .. E!MaxCount]
  /\ pushed \in [E!Reports -> {"nothing", "sent", "processed_no_delivery"}]

RecordsTyped == throttle \in Days /\ delivered \subseteq E!Reports \X Emails

PastTyped ==
  /\ quiet \in Days
  /\ pestered \subseteq E!Loops \X Emails /\ slipped \subseteq E!Loops \X Emails
  /\ told \subseteq E!Mails /\ twice \subseteq E!Mails
  /\ botched \subseteq E!Reports

RowsTyped ==
  /\ visible \subseteq E!Reports /\ found \subseteq E!Reports /\ listed \subseteq Areas
  /\ optedOut \subseteq Emails

JobTyped == job \in [E!Loops -> Job]

FaultsTyped == faults \in 0 .. MaxFaults

LEMMA TypeParts ==
  E!TypeOK <=> RowsTyped /\ ScheduleTyped /\ RecordsTyped /\ JobTyped /\ PastTyped /\ FaultsTyped
BY DEF E!TypeOK, RowsTyped, ScheduleTyped, RecordsTyped, JobTyped, PastTyped, FaultsTyped, Job, Points, Lists, Days

LEMMA TypePartsNext ==
  E!TypeOK' <=> /\ RowsTyped' /\ ScheduleTyped' /\ RecordsTyped' /\ JobTyped' /\ PastTyped'
              /\ FaultsTyped'
BY DEF E!TypeOK, RowsTyped, ScheduleTyped, RecordsTyped, JobTyped, PastTyped, FaultsTyped, Job, Points, Lists, Days

\* What does not change keeps its type.
LEMMA TypesStay ==
  /\ RowsTyped /\ UNCHANGED E!rows => RowsTyped'
  /\ ScheduleTyped /\ UNCHANGED E!schedule => ScheduleTyped'
  /\ RecordsTyped /\ UNCHANGED E!records => RecordsTyped'
  /\ JobTyped /\ UNCHANGED job => JobTyped'
  /\ PastTyped /\ UNCHANGED E!past => PastTyped'
  /\ FaultsTyped /\ UNCHANGED faults => FaultsTyped'
<1>1. RowsTyped /\ UNCHANGED E!rows => RowsTyped'
  BY DEF RowsTyped, E!rows
<1>2. ScheduleTyped /\ UNCHANGED E!schedule => ScheduleTyped'
  BY DEF ScheduleTyped, E!schedule
<1>3. RecordsTyped /\ UNCHANGED E!records => RecordsTyped'
  BY DEF RecordsTyped, E!records
<1>4. JobTyped /\ UNCHANGED job => JobTyped'
  BY DEF JobTyped
<1>5. PastTyped /\ UNCHANGED E!past => PastTyped'
  BY DEF PastTyped, E!past
<1>6. FaultsTyped /\ UNCHANGED faults => FaultsTyped'
  BY DEF FaultsTyped
<1> QED BY <1>1, <1>2, <1>3, <1>4, <1>5, <1>6

LEMMA InitTyped ==
  ASSUME E!ConstantsAssumption
  PROVE  E!Init => E!TypeOK
<1> SUFFICES ASSUME E!Init PROVE E!TypeOK
  OBVIOUS
<1>1. E!Idle \in Job
  BY DEF E!Idle, Job, Points, Lists
<1>2. JobTyped
  BY <1>1 DEF E!Init, JobTyped
<1>3. RowsTyped /\ FaultsTyped
  BY E!ConstantsAssumption DEF E!Init, RowsTyped, FaultsTyped
<1>4. ScheduleTyped
  BY LongestWait, MostCounted DEF E!Init, ScheduleTyped
<1>5. 0 \in 0 .. ThrottleDays
  BY E!ConstantsAssumption
<1>6. throttle \in Days /\ quiet \in Days
  BY <1>5 DEF E!Init, Days
<1>7. RecordsTyped /\ PastTyped
  BY <1>6 DEF E!Init, RecordsTyped, PastTyped
<1> QED BY <1>2, <1>3, <1>4, <1>7, TypeParts

LEMMA FaultCounted ==
  ASSUME E!ConstantsAssumption, NEW fine, FaultsTyped, E!Faultless(fine)
  PROVE  FaultsTyped'
BY E!ConstantsAssumption DEF FaultsTyped, E!Faultless

LEMMA RetryInTyped ==
  ASSUME E!ConstantsAssumption, ScheduleTyped, NEW S, NEW days \in 0 .. E!MaxWait, E!RetryIn(S,
         days)
  PROVE  wait' \in [E!Reports -> 0 .. E!MaxWait] /\ count' \in [E!Reports -> 0 .. E!MaxCount]
<1>1. wait' \in [E!Reports -> 0 .. E!MaxWait]
  BY DEF E!RetryIn, ScheduleTyped
<1>2. ASSUME NEW r \in E!Reports
      PROVE  E!Min({count[r] + 1, E!MaxCount}) \in 0 .. E!MaxCount
  <2>1. PICK c \in Nat : c = count[r] + 1
    BY DEF ScheduleTyped
  <2>2. E!Min({c, E!MaxCount}) \in {c, E!MaxCount} /\ E!Min({c, E!MaxCount}) <= E!MaxCount
    BY MostCounted, MinOfNumbers
  <2> QED BY <2>1, <2>2, MostCounted
<1>3. count' \in [E!Reports -> 0 .. E!MaxCount]
  BY <1>2 DEF E!RetryIn, ScheduleTyped
<1> QED BY <1>1, <1>3

LEMMA RetryNoContactTyped ==
  ASSUME E!ConstantsAssumption, ScheduleTyped, NEW S, E!RetryNoContact(S)
  PROVE  wait' \in [E!Reports -> 0 .. E!MaxWait] /\ count' \in [E!Reports -> 0 .. E!MaxCount]
<1>1. \A r \in E!Reports : count[r] \in Nat /\ E!Backoff(count[r]) \in 0 .. E!MaxWait
  BY BackoffBounded DEF ScheduleTyped
<1>2. wait' \in [E!Reports -> 0 .. E!MaxWait]
  BY <1>1 DEF E!RetryNoContact, ScheduleTyped
<1>3. \A r \in E!Reports : count[r] < MaxRetries => count[r] + 1 \in 0 .. E!MaxCount
  BY <1>1, MostCounted, E!ConstantsAssumption
<1>4. count' \in [E!Reports -> 0 .. E!MaxCount]
  BY <1>3 DEF E!RetryNoContact, ScheduleTyped
<1> QED BY <1>2, <1>4

-----------------------------------------------------------------------------
(* How a mailing begins. *)

Same == UNCHANGED <<E!rows, processed, pushed, E!records, quiet, pestered, told, twice, botched>>

\* A loop takes a job up, for reports of its own that are not done with, and leaves out
\* whom the throttle covers, unless the check slips.
Begins(l) ==
  /\ job[l].at = "idle" /\ Same
  /\ slipped \subseteq slipped'
  /\ \E j \in Job :
       /\ job' = [job EXCEPT ![l] = j]
       /\ j.at \in {"areas", "sending", "marking"}
       /\ j.reports \subseteq Mailable(l) \ processed
       /\ j.via = NoArea /\ (j.at = "sending" => j.areas = {})
       /\ j.at = "sending" => \A e \in j.to : throttle[l][e] = 0 \/ <<l, e>> \in slipped'

\* Or puts the reports off.
PutsOff == Same /\ UNCHANGED <<job, slipped>>

Schedules ==
  /\ wait' \in [E!Reports -> 0 .. E!MaxWait] /\ count' \in [E!Reports -> 0 .. E!MaxCount]
  /\ slipped' \subseteq E!Loops \X Emails /\ FaultsTyped'

LEMMA ContactsAreEmails ==
  ASSUME E!ConstantsAssumption, NEW r \in E!Reports
  PROVE  E!Contacts(r) \subseteq Emails
BY E!ConstantsAssumption DEF E!Contacts

LEMMA GroupContactsAreEmails ==
  ASSUME E!ConstantsAssumption, NEW S, S \subseteq E!Reports, NEW C \in E!GroupContacts(S)
  PROVE  C \subseteq Emails
<1> DEFINE some == {E!Contacts(r) : r \in S} \ {{}}
<1>1. \A D \in some : D \subseteq Emails
  BY ContactsAreEmails
<1>2. C \in (IF some = {} THEN {{}} ELSE some)
  BY DEF E!GroupContacts
<1> QED BY <1>1, <1>2

LEMMA SomeDays ==
  ASSUME NEW f \in Days, NEW l \in E!Loops, NEW H, H \subseteq Emails, H # {}
  PROVE  {f[l][e] : e \in H} \subseteq 0 .. ThrottleDays /\ {f[l][e] : e \in H} # {}
BY DEF Days

LEMMA BrandBegins ==
  ASSUME E!ConstantsAssumption, E!TypeOK, E!ProcessBrandNotifications
  PROVE  (Begins("aggregate") \/ PutsOff) /\ Schedules
<1> DEFINE S == {r \in Branded : E!Due(r)}
           l == "aggregate"
<1>0. /\ ScheduleTyped /\ RecordsTyped /\ PastTyped /\ FaultsTyped /\ l \in E!Loops
      /\ slipped \subseteq E!Loops \X Emails
  BY TypeParts DEF E!Loops, PastTyped
<1>1. job[l].at = "idle" /\ Same /\ slipped' = slipped
  BY DEF E!ProcessBrandNotifications, Same
<1>2. S \subseteq Mailable(l) \ processed /\ S \subseteq E!Reports
  BY DEF E!Due, Mailable, E!Reports
<1>3. CASE E!RetryIn(S, 1) /\ UNCHANGED <<job, faults>>
  <2>1. wait' \in [E!Reports -> 0 .. E!MaxWait] /\ count' \in [E!Reports -> 0 .. E!MaxCount]
    <3>1. 1 \in 0 .. E!MaxWait
      BY LongestWait
    <3> QED BY <1>0, <1>3, <3>1, RetryInTyped
  <2> QED BY <1>0, <1>1, <1>3, <2>1, TypesStay DEF PutsOff, Schedules
<1>4. CASE E!Cardinality(E!MailedToday) >= MaxDaily
  BY <1>3, <1>4, Zenon DEF E!ProcessBrandNotifications
<1>5. CASE ~(E!Cardinality(E!MailedToday) >= MaxDaily)
  <2>1. PICK C \in E!GroupContacts(S), unread \in SUBSET Emails, unchecked \in SUBSET Emails :
          LET wanted == {e \in C : e \notin optedOut \cup unread}
              held == {e \in wanted \ unchecked : throttle["aggregate"][e] > 0}
              to == wanted \ (held \cup unchecked)
          IN /\ unread \subseteq C /\ unchecked \subseteq wanted
             /\ E!Faultless(unread = {} /\ unchecked = {})
             /\ \/ /\ to # {}
                   /\ job' = [job EXCEPT !["aggregate"] =
                                [E!Idle EXCEPT !.at = "sending", !.reports = S,
                                               !.to = to]]
                   /\ UNCHANGED <<wait, count>>
                \/ /\ to = {} /\ held # {}
                   /\ E!RetryIn(S, E!Min({throttle["aggregate"][e] : e \in held}))
                   /\ UNCHANGED job
                \/ /\ to = {} /\ held = {} /\ unchecked # {}
                   /\ E!RetryIn(S, 0)
                   /\ UNCHANGED job
                \/ /\ wanted = {}
                   /\ E!RetryNoContact(S)
                   /\ UNCHANGED job
    BY <1>5 DEF E!ProcessBrandNotifications
  <2> DEFINE wanted == {e \in C : e \notin optedOut \cup unread}
             held == {e \in wanted \ unchecked : throttle[l][e] > 0}
             to == wanted \ (held \cup unchecked)
  <2>2. E!Faultless(unread = {} /\ unchecked = {})
    BY <2>1
  <2>3. \/ to # {} /\ job' = [job EXCEPT ![l] =
             [E!Idle EXCEPT !.at = "sending", !.reports = S, !.to = to]]
           /\ UNCHANGED <<wait, count>>
        \/ held # {} /\ E!RetryIn(S, E!Min({throttle[l][e] : e \in held})) /\ UNCHANGED job
        \/ E!RetryIn(S, 0) /\ UNCHANGED job
        \/ E!RetryNoContact(S) /\ UNCHANGED job
    BY <2>1
  <2>4. FaultsTyped'
    BY <1>0, <2>2, FaultCounted
  <2>5. C \subseteq Emails
    BY <1>2, GroupContactsAreEmails
  <2>6. to \subseteq Emails /\ held \subseteq Emails /\ to \cap held = {}
    BY <2>5
  <2>7. \A e \in Emails : throttle[l][e] \in 0 .. ThrottleDays
    BY <1>0 DEF RecordsTyped, Days
  <2>8. CASE /\ job' = [job EXCEPT ![l] =
                          [E!Idle EXCEPT !.at = "sending", !.reports = S, !.to = to]]
             /\ UNCHANGED <<wait, count>>
    <3>1. PICK j : j = [E!Idle EXCEPT !.at = "sending", !.reports = S, !.to = to]
      OBVIOUS
    <3>2. /\ j \in Job /\ j.at = "sending" /\ j.reports = S /\ j.to = to
          /\ j.via = NoArea /\ j.areas = {}
      BY <1>2, <2>6, <3>1 DEF Job, Points, Lists, E!Idle
    <3>3. \A e \in to : e \in Emails /\ ~(throttle[l][e] > 0)
      BY <2>6
    <3>4. \A e \in to : throttle[l][e] = 0
      BY <2>7, <3>3, E!ConstantsAssumption
    <3>5. Begins(l)
      BY <1>1, <1>2, <2>8, <3>1, <3>2, <3>4 DEF Begins
    <3>6. wait' \in [E!Reports -> 0 .. E!MaxWait] /\ count' \in [E!Reports -> 0 .. E!MaxCount]
      BY <1>0, <2>8 DEF ScheduleTyped
    <3> QED BY <1>0, <1>1, <2>4, <3>5, <3>6 DEF Schedules
  <2>9. CASE held # {} /\ E!RetryIn(S, E!Min({throttle[l][e] : e \in held})) /\ UNCHANGED job
    <3> DEFINE T == {throttle[l][e] : e \in held}
    <3>1. T \subseteq 0 .. ThrottleDays /\ T # {}
      <4>1. held # {} /\ held \subseteq Emails
        BY <2>6, <2>9
      <4>2. throttle \in Days
        BY <1>0 DEF RecordsTyped
      <4> HIDE DEF held
      <4> QED BY <1>0, <4>1, <4>2, SomeDays
    <3>2. T \subseteq Nat
      BY <3>1, E!ConstantsAssumption
    <3>3. E!Min(T) \in 0 .. ThrottleDays
      BY <3>1, <3>2, MinOfNumbers
    <3>4. E!Min(T) \in 0 .. E!MaxWait
      BY <3>3, LongestWait, E!ConstantsAssumption
    <3>5. E!RetryIn(S, E!Min(T))
      BY <2>9
    <3> QED BY <1>0, <1>1, <2>4, <2>9, <3>4, <3>5, RetryInTyped DEF PutsOff, Schedules
  <2>10. CASE E!RetryIn(S, 0) /\ UNCHANGED job
    <3>1. 0 \in 0 .. E!MaxWait
      BY LongestWait
    <3> QED BY <1>0, <1>1, <2>4, <2>10, <3>1, RetryInTyped DEF PutsOff, Schedules
  <2>11. CASE E!RetryNoContact(S) /\ UNCHANGED job
    BY <1>0, <1>1, <2>4, <2>11, RetryNoContactTyped DEF PutsOff, Schedules
  <2> QED BY <2>3, <2>8, <2>9, <2>10, <2>11
<1> QED BY <1>4, <1>5

\* A brandless report: Start gives the loop a job, and slipped takes what went unchecked.
LEMMA Starts ==
  ASSUME E!TypeOK, NEW r \in Brandless, E!Due(r), job["brandless"].at = "idle", Same,
         NEW at \in {"areas", "sending", "marking"}, NEW to \in SUBSET Emails,
         NEW areas \in SUBSET Areas, at = "sending" => areas = {},
         E!Start(r, at, to, areas), slipped \subseteq slipped',
         at = "sending" =>
           \A e \in to : throttle["brandless"][e] = 0 \/ <<"brandless", e>> \in slipped'
  PROVE  Begins("brandless")
<1>1. PICK j : j = [E!Idle EXCEPT !.at = at, !.reports = {r}, !.to = to, !.areas = areas]
  OBVIOUS
<1>2. j = [at |-> at, reports |-> {r}, to |-> to, via |-> NoArea, areas |-> areas]
  BY <1>1 DEF E!Idle
<1>3. {r} \subseteq Mailable("brandless") \ processed /\ r \in E!Reports
  BY DEF E!Due, Mailable, E!Reports
<1>4. j \in Job
  BY <1>2, <1>3 DEF Job, Points, Lists
<1>5. job' = [job EXCEPT !["brandless"] = j]
  BY <1>1, Zenon DEF E!Start
<1> QED BY <1>2, <1>3, <1>4, <1>5 DEF Begins

LEMMA BrandlessBegins ==
  ASSUME E!ConstantsAssumption, E!TypeOK, NEW r \in Brandless, E!ProcessBrandlessReport(r)
  PROVE  (Begins("brandless") \/ PutsOff) /\ Schedules
<1> DEFINE l == "brandless"
<1>0. /\ ScheduleTyped /\ RecordsTyped /\ PastTyped /\ FaultsTyped /\ l \in E!Loops
      /\ slipped \subseteq E!Loops \X Emails /\ r \in E!Reports
  BY TypeParts DEF E!Loops, PastTyped, E!Reports
<1>1. job[l].at = "idle" /\ Same /\ E!Due(r)
  BY DEF E!ProcessBrandlessReport, Same
<1>2. E!Contacts(r) \subseteq Emails
  BY <1>0, ContactsAreEmails
<1>3. ASSUME UNCHANGED <<wait, count>>
      PROVE  wait' \in [E!Reports -> 0 .. E!MaxWait] /\ count' \in [E!Reports -> 0 .. E!MaxCount]
  BY <1>0, <1>3 DEF ScheduleTyped
<1>4. CASE E!UseInferredContacts(r)
  <2>1. PICK unread \in SUBSET E!Contacts(r), unchecked \in SUBSET E!Contacts(r) :
          LET to == {e \in E!Contacts(r) \ (optedOut \cup unread) :
                       throttle["brandless"][e] = 0 \/ e \in unchecked}
          IN /\ E!Faultless(unread = {} /\ unchecked = {})
             /\ slipped' = slipped \cup ({"brandless"} \X unchecked)
             /\ E!Start(r, IF to = {} THEN "marking" ELSE "sending", to, {})
    BY <1>4 DEF E!UseInferredContacts
  <2> DEFINE to == {e \in E!Contacts(r) \ (optedOut \cup unread) :
                      throttle[l][e] = 0 \/ e \in unchecked}
             at == IF to = {} THEN "marking" ELSE "sending"
  <2>2. E!Faultless(unread = {} /\ unchecked = {}) /\ E!Start(r, at, to, {})
    BY <2>1
  <2>3. slipped' = slipped \cup ({l} \X unchecked)
    BY <2>1
  <2>4. to \in SUBSET Emails /\ at \in {"sending", "marking"}
    BY <1>2
  <2>5. \A e \in to : throttle[l][e] = 0 \/ <<l, e>> \in slipped'
    BY <2>3
  <2>6. slipped \subseteq slipped' /\ slipped' \subseteq E!Loops \X Emails
    BY <1>0, <1>2, <2>3
  <2> HIDE DEF to, at
  <2>7. Begins(l)
    BY <1>1, <2>2, <2>4, <2>5, <2>6, Starts
  <2>8. FaultsTyped'
    BY <1>0, <2>2, FaultCounted
  <2>9. UNCHANGED <<wait, count>>
    BY <1>4 DEF E!UseInferredContacts
  <2> QED BY <1>3, <2>6, <2>7, <2>8, <2>9 DEF Schedules
<1>5. CASE E!UseAreas(r)
  <2>1. E!Start(r, "areas", {}, E!ListedAreas(r)) /\ UNCHANGED <<wait, count, slipped, faults>>
    BY <1>5 DEF E!UseAreas
  <2>2. E!ListedAreas(r) \subseteq Areas
    BY <1>0, E!ConstantsAssumption DEF E!ListedAreas
  <2>3. Begins(l)
    BY <1>1, <2>1, <2>2, Starts
  <2> QED BY <1>0, <1>3, <2>1, <2>3, TypesStay DEF Schedules
<1>6. CASE E!Defer(r)
  <2>1. /\ wait' = [wait EXCEPT ![r] = 0]
        /\ count' = [count EXCEPT ![r] = E!Min({count[r] + 1, E!MaxCount})]
        /\ UNCHANGED <<job, slipped, faults>>
    BY <1>6 DEF E!Defer
  <2>2. PICK c \in Nat : c = count[r] + 1
    BY <1>0 DEF ScheduleTyped
  <2>3. E!Min({c, E!MaxCount}) \in {c, E!MaxCount} /\ E!Min({c, E!MaxCount}) <= E!MaxCount
    BY MostCounted, MinOfNumbers
  <2>4. E!Min({count[r] + 1, E!MaxCount}) \in 0 .. E!MaxCount
    BY <2>2, <2>3, MostCounted
  <2>5. count' \in [E!Reports -> 0 .. E!MaxCount]
    BY <1>0, <2>1, <2>4 DEF ScheduleTyped
  <2>6. wait' \in [E!Reports -> 0 .. E!MaxWait]
    BY <1>0, <2>1, LongestWait DEF ScheduleTyped
  <2> QED BY <1>0, <1>1, <2>1, <2>5, <2>6, TypesStay DEF PutsOff, Schedules
<1>7. CASE E!GiveUp(r)
  <2>1. E!Start(r, "marking", {}, {}) /\ UNCHANGED <<wait, count, slipped, faults>>
    BY <1>7 DEF E!GiveUp
  <2>2. Begins(l)
    BY <1>1, <2>1, Starts
  <2> QED BY <1>0, <1>3, <2>1, <2>2, TypesStay DEF Schedules
<1> QED BY <1>4, <1>5, <1>6, <1>7 DEF E!ProcessBrandlessReport

-----------------------------------------------------------------------------
(* The steps of a mailing. *)

\* What loops are at is kept in Jobs.
LEMMA JobOf ==
  ASSUME E!TypeOK, NEW l \in E!Loops
  PROVE  /\ job[l] \in Job /\ job[l].reports \subseteq E!Reports /\ job[l].to \subseteq Emails
         /\ job[l].via \in Lists /\ job[l].areas \subseteq Areas
<1>1. job[l] \in Job
  BY TypeParts DEF JobTyped
<1> QED BY <1>1 DEF Job

\* A loop goes on to another point with the same mailing.
GoesOn(l, at) ==
  /\ \A k \in E!Loops \ {l} : job'[k] = job[k]
  /\ job'[l].at = at /\ job'[l].reports = job[l].reports
  /\ job'[l].to = job[l].to /\ job'[l].via = job[l].via /\ job'[l].areas = job[l].areas

\* Or is done with it.
Ends(l) == job'[l] = E!Idle /\ \A k \in E!Loops \ {l} : job'[k] = job[k]

LEMMA GoingOn ==
  ASSUME E!TypeOK, NEW l \in E!Loops, NEW at \in Points,
         job' = [job EXCEPT ![l].at = at]
  PROVE  GoesOn(l, at) /\ JobTyped'
<1>1. job \in [E!Loops -> Job] /\ job[l] \in Job
  BY TypeParts DEF JobTyped
<1>2. PICK j : j = [job[l] EXCEPT !.at = at]
  OBVIOUS
<1>3. /\ j \in Job /\ j.at = at /\ j.reports = job[l].reports /\ j.to = job[l].to
      /\ j.via = job[l].via /\ j.areas = job[l].areas
  BY <1>1, <1>2 DEF Job
<1>4. job' = [job EXCEPT ![l] = j]
  BY <1>2
<1> QED BY <1>1, <1>3, <1>4 DEF GoesOn, JobTyped

LEMMA Ending ==
  ASSUME E!TypeOK, NEW l \in E!Loops, job' = [job EXCEPT ![l] = E!Idle]
  PROVE  Ends(l) /\ JobTyped'
<1>1. job \in [E!Loops -> Job] /\ E!Idle \in Job
  BY TypeParts DEF JobTyped, E!Idle, Job, Points, Lists
<1> QED BY <1>1 DEF Ends, JobTyped

\* The mail goes out to some addresses; then it is to be recorded, or has failed in part.
Sends(l, ok) ==
  /\ job[l].at = "sending" /\ ok \subseteq job[l].to
  /\ told' = told \cup E!Mailed(job[l], ok)
  /\ twice' = twice \cup (told \cap E!Mailed(job[l], ok))
  /\ \/ job[l].via # NoArea /\ UNCHANGED <<quiet, pestered>>
     \/ /\ job[l].via = NoArea
        /\ quiet' = [quiet EXCEPT ![l] = [e \in Emails |->
                       IF e \in ok THEN ThrottleDays ELSE quiet[l][e]]]
        /\ pestered' = pestered \cup ({l} \X {e \in ok : quiet[l][e] > 0})
  /\ \/ /\ ok = job[l].to /\ GoesOn(l, "recording")
        /\ slipped' = slipped /\ botched' = botched
     \/ /\ slipped' = slipped \cup E!Unnoted(l, ok)
        /\ botched' = botched \cup job[l].reports
        /\ Ends(l) \/ GoesOn(l, E!Onward(job[l].areas))
  /\ UNCHANGED <<E!rows, processed, pushed, E!records>>

LEMMA SendEffect ==
  ASSUME E!ConstantsAssumption, E!TypeOK, NEW l \in E!Loops, E!Send(l)
  PROVE  /\ \E ok \in SUBSET job[l].to : Sends(l, ok)
         /\ ScheduleTyped' /\ JobTyped' /\ FaultsTyped'
<1> DEFINE j == job[l]
<1>0. FaultsTyped /\ ScheduleTyped
  BY TypeParts
<1>1. j.at = "sending" /\ UNCHANGED <<E!rows, processed, pushed, E!records>>
  BY DEF E!Send
<1>2. PICK ok \in SUBSET j.to :
        /\ E!Faultless(ok = j.to)
        /\ told' = told \cup E!Mailed(j, ok)
        /\ twice' = twice \cup (told \cap E!Mailed(j, ok))
        /\ IF j.via # NoArea
           THEN UNCHANGED <<quiet, pestered>>
           ELSE /\ quiet' = [quiet EXCEPT ![l] = [e \in Emails |->
                               IF e \in ok THEN ThrottleDays ELSE @[e]]]
                /\ pestered' = pestered \cup ({l} \X {e \in ok : quiet[l][e] > 0})
        /\ IF ok = j.to
           THEN /\ job' = [job EXCEPT ![l].at = "recording"]
                /\ UNCHANGED <<wait, count, slipped, botched>>
           ELSE /\ slipped' = slipped \cup E!Unnoted(l, ok)
                /\ botched' = botched \cup j.reports
                /\ IF l = "aggregate"
                   THEN job' = [job EXCEPT ![l] = E!Idle] /\ E!RetryIn(j.reports, 0)
                   ELSE /\ job' = [job EXCEPT ![l].at = E!Onward(j.areas)]
                        /\ UNCHANGED <<wait, count>>
  BY DEF E!Send
<1>3. FaultsTyped'
  BY <1>0, <1>2, FaultCounted
<1>4. \/ /\ ok = j.to /\ GoesOn(l, "recording") /\ JobTyped'
         /\ slipped' = slipped /\ botched' = botched
         /\ UNCHANGED <<wait, count>>
      \/ /\ slipped' = slipped \cup E!Unnoted(l, ok)
         /\ botched' = botched \cup j.reports
         /\ (Ends(l) \/ GoesOn(l, E!Onward(j.areas))) /\ JobTyped'
         /\ E!RetryIn(j.reports, 0) \/ UNCHANGED <<wait, count>>
  <2>1. CASE ok = j.to
    <3>1. job' = [job EXCEPT ![l].at = "recording"]
      BY <1>2, <2>1
    <3>2. GoesOn(l, "recording") /\ JobTyped'
      BY <3>1, GoingOn DEF Points
    <3> QED BY <1>2, <2>1, <3>2
  <2>2. CASE ok # j.to /\ l = "aggregate"
    <3>1. job' = [job EXCEPT ![l] = E!Idle]
      BY <1>2, <2>2
    <3>2. Ends(l) /\ JobTyped'
      BY <3>1, Ending
    <3> QED BY <1>2, <2>2, <3>2
  <2>3. CASE ok # j.to /\ l # "aggregate"
    <3>1. job' = [job EXCEPT ![l].at = E!Onward(j.areas)]
      BY <1>2, <2>3
    <3>2. E!Onward(j.areas) \in Points
      BY DEF E!Onward, Points
    <3>3. GoesOn(l, E!Onward(j.areas)) /\ JobTyped'
      BY <3>1, <3>2, GoingOn
    <3> QED BY <1>2, <2>3, <3>3
  <2> QED BY <2>1, <2>2, <2>3
<1>5. 0 \in 0 .. E!MaxWait
  BY LongestWait
<1>6. wait' \in [E!Reports -> 0 .. E!MaxWait] /\ count' \in [E!Reports -> 0 .. E!MaxCount]
  BY <1>0, <1>4, <1>5, RetryInTyped DEF ScheduleTyped
<1>7. ScheduleTyped'
  BY <1>0, <1>1, <1>6 DEF ScheduleTyped
<1>8. \/ j.via # NoArea /\ UNCHANGED <<quiet, pestered>>
      \/ /\ j.via = NoArea
         /\ quiet' = [quiet EXCEPT ![l] = [e \in Emails |->
                        IF e \in ok THEN ThrottleDays ELSE quiet[l][e]]]
         /\ pestered' = pestered \cup ({l} \X {e \in ok : quiet[l][e] > 0})
  BY <1>2
<1>9. Sends(l, ok)
  BY <1>1, <1>2, <1>4, <1>8, Zenon DEF Sends
<1> QED BY <1>3, <1>4, <1>7, <1>9

\* The mail to some of the addresses is recorded; the others slip.
Records(l, done) ==
  /\ job[l].at = "recording" /\ done \subseteq job[l].to
  /\ delivered' = delivered \cup (job[l].reports \X done)
  /\ \/ job[l].via # NoArea /\ UNCHANGED throttle
     \/ /\ job[l].via = NoArea
        /\ throttle' = [throttle EXCEPT ![l] = [e \in Emails |->
                          IF e \in done THEN ThrottleDays ELSE throttle[l][e]]]
  /\ slipped' = slipped \cup E!Unnoted(l, job[l].to \ done)
  /\ botched' = botched \cup (IF done = job[l].to THEN {} ELSE job[l].reports)
  /\ GoesOn(l, E!Onward(job[l].areas))
  /\ UNCHANGED <<E!rows, E!schedule, quiet, pestered, told, twice>>

LEMMA RecordEffect ==
  ASSUME E!ConstantsAssumption, E!TypeOK, NEW l \in E!Loops, E!Record(l)
  PROVE  /\ \E done \in SUBSET job[l].to : Records(l, done)
         /\ JobTyped' /\ FaultsTyped'
<1> DEFINE j == job[l]
<1>1. /\ j.at = "recording" /\ job' = [job EXCEPT ![l].at = E!Onward(j.areas)]
      /\ UNCHANGED <<E!rows, E!schedule, quiet, pestered, told, twice>>
  BY DEF E!Record
<1>2. GoesOn(l, E!Onward(j.areas)) /\ JobTyped'
  BY <1>1, GoingOn DEF E!Onward, Points
<1>3. PICK done \in SUBSET j.to :
        /\ E!Faultless(done = j.to)
        /\ delivered' = delivered \cup (j.reports \X done)
        /\ IF j.via # NoArea
           THEN UNCHANGED throttle
           ELSE throttle' = [throttle EXCEPT ![l] = [e \in Emails |->
                               IF e \in done THEN ThrottleDays ELSE @[e]]]
        /\ slipped' = slipped \cup E!Unnoted(l, j.to \ done)
        /\ botched' = botched \cup (IF done = j.to THEN {} ELSE j.reports)
  BY DEF E!Record
<1>4. \/ j.via # NoArea /\ UNCHANGED throttle
      \/ /\ j.via = NoArea
         /\ throttle' = [throttle EXCEPT ![l] = [e \in Emails |->
                           IF e \in done THEN ThrottleDays ELSE throttle[l][e]]]
  BY <1>3
<1>5. FaultsTyped'
  BY <1>3, FaultCounted, TypeParts
<1>6. Records(l, done)
  BY <1>1, <1>2, <1>3, <1>4, Zenon DEF Records
<1> QED BY <1>2, <1>5, <1>6

\* Some of the reports are marked, and their reporters told; the others come again.
Marks(l, done) ==
  /\ job[l].at = "marking" /\ done \subseteq job[l].reports
  /\ processed' = processed \cup done
  /\ pushed' = [r \in E!Reports |->
       IF r \notin done THEN pushed[r]
       ELSE IF \E e \in Emails : <<r, e>> \in delivered THEN "sent"
       ELSE "processed_no_delivery"]
  /\ botched' = botched \cup (job[l].reports \ done)
  /\ Ends(l)
  /\ UNCHANGED <<E!rows, E!records, quiet, pestered, slipped, told, twice>>

LEMMA MarkEffect ==
  ASSUME E!ConstantsAssumption, E!TypeOK, NEW l \in E!Loops, E!Mark(l)
  PROVE  /\ \E done \in SUBSET job[l].reports : Marks(l, done)
         /\ ScheduleTyped' /\ JobTyped' /\ FaultsTyped'
<1> DEFINE j == job[l]
<1>0. ScheduleTyped /\ FaultsTyped /\ j.reports \subseteq E!Reports
  BY TypeParts, JobOf
<1>1. /\ j.at = "marking" /\ job' = [job EXCEPT ![l] = E!Idle]
      /\ UNCHANGED <<E!rows, E!records, quiet, pestered, slipped, told, twice>>
  BY DEF E!Mark
<1>2. Ends(l) /\ JobTyped'
  BY <1>1, Ending
<1>3. PICK done \in SUBSET j.reports :
        /\ E!Faultless(done = j.reports)
        /\ processed' = processed \cup done
        /\ wait' = [r \in E!Reports |-> IF r \in done THEN 0 ELSE wait[r]]
        /\ count' = [r \in E!Reports |-> IF r \in done THEN 0 ELSE count[r]]
        /\ pushed' = [r \in E!Reports |->
             IF r \notin done THEN pushed[r]
             ELSE IF \E e \in Emails : <<r, e>> \in delivered THEN "sent"
             ELSE "processed_no_delivery"]
        /\ botched' = botched \cup (j.reports \ done)
  BY DEF E!Mark
<1>4. FaultsTyped'
  BY <1>0, <1>3, FaultCounted
<1>5. wait' \in [E!Reports -> 0 .. E!MaxWait] /\ count' \in [E!Reports -> 0 .. E!MaxCount]
  BY <1>0, <1>3, LongestWait, MostCounted DEF ScheduleTyped
<1>6. processed' \subseteq E!Reports
  BY <1>0, <1>3 DEF ScheduleTyped
<1>7. pushed' \in [E!Reports -> {"nothing", "sent", "processed_no_delivery"}]
  BY <1>0, <1>3 DEF ScheduleTyped
<1>8. Marks(l, done)
  BY <1>1, <1>2, <1>3, Zenon DEF Marks
<1> QED BY <1>2, <1>4, <1>5, <1>6, <1>7, <1>8 DEF ScheduleTyped

\* The contacts of one more area are to be mailed, or there are none.
TurnsTo(a) ==
  LET j == job["brandless"]
      k == job'["brandless"]
  IN /\ j.at = "areas" /\ a \in j.areas
     /\ k.reports = j.reports /\ k.via = a /\ k.areas = j.areas \ {a}
     /\ k.at \in {"areas", "sending", "marking"}
     /\ job'["aggregate"] = job["aggregate"]
     /\ UNCHANGED <<E!rows, E!schedule, E!records, E!past>>

LEMMA AreaEffect ==
  ASSUME E!ConstantsAssumption, E!TypeOK, E!SendEmailsForArea
  PROVE  (\E a \in Areas : TurnsTo(a)) /\ JobTyped' /\ FaultsTyped'
<1> DEFINE l == "brandless"
           j == job[l]
<1>1. /\ j.at = "areas" /\ UNCHANGED <<E!rows, E!schedule, E!records, E!past>>
      /\ l \in E!Loops /\ l # "aggregate" /\ "aggregate" \in E!Loops
  BY DEF E!SendEmailsForArea, E!Loops
<1>2. j \in Job /\ j.areas \subseteq Areas /\ job \in [E!Loops -> Job]
  BY <1>1, JobOf, TypeParts DEF JobTyped
<1>3. PICK a \in j.areas : \E unread \in SUBSET ContactsOf[a] :
        LET to == ContactsOf[a] \ (optedOut \cup unread)
            rest == j.areas \ {a}
        IN /\ E!Faultless(unread = {})
           /\ job' = [job EXCEPT ![l] =
                [j EXCEPT !.at = IF to = {} THEN E!Onward(rest) ELSE "sending",
                          !.to = to, !.via = a, !.areas = rest]]
  BY DEF E!SendEmailsForArea
<1>4. PICK unread \in SUBSET ContactsOf[a] :
        LET to == ContactsOf[a] \ (optedOut \cup unread)
            rest == j.areas \ {a}
        IN /\ E!Faultless(unread = {})
           /\ job' = [job EXCEPT ![l] =
                [j EXCEPT !.at = IF to = {} THEN E!Onward(rest) ELSE "sending",
                          !.to = to, !.via = a, !.areas = rest]]
  BY <1>3
<1> DEFINE to == ContactsOf[a] \ (optedOut \cup unread)
           rest == j.areas \ {a}
           at == IF to = {} THEN E!Onward(rest) ELSE "sending"
<1>5. PICK k : k = [j EXCEPT !.at = at, !.to = to, !.via = a, !.areas = rest]
  OBVIOUS
<1>6. a \in Areas /\ to \subseteq Emails /\ at \in {"areas", "sending", "marking"}
  BY <1>2, E!ConstantsAssumption DEF E!Onward
<1>7. k \in Job /\ k.reports = j.reports /\ k.via = a /\ k.areas = rest /\ k.at = at
  <2> HIDE DEF to, at
  <2> QED BY <1>2, <1>5, <1>6 DEF Job, Points, Lists
<1>8. job' = [job EXCEPT ![l] = k] /\ E!Faultless(unread = {})
  BY <1>4, <1>5
<1>9. job'[l] = k /\ job'["aggregate"] = job["aggregate"] /\ JobTyped'
  BY <1>1, <1>2, <1>7, <1>8 DEF JobTyped
<1>10. FaultsTyped'
  BY <1>8, FaultCounted, TypeParts
<1>11. TurnsTo(a)
  BY <1>1, <1>6, <1>7, <1>9 DEF TurnsTo
<1> QED BY <1>6, <1>9, <1>10, <1>11

\* Mailings end half-way: what was sent and not recorded slips.
Dies ==
  /\ \A l \in E!Loops : job'[l] = E!Idle
  /\ \A l \in E!Loops : job[l].at = "recording" => E!Unnoted(l, job[l].to) \subseteq slipped'
  /\ \A l \in E!Loops : \A r \in job[l].reports : SentOut(r) => r \in botched'
  /\ slipped \subseteq slipped' /\ botched \subseteq botched'
  /\ UNCHANGED <<E!rows, E!schedule, E!records, quiet, pestered, told, twice>>

LEMMA CrashEffect ==
  ASSUME E!ConstantsAssumption, E!TypeOK, E!Crash
  PROVE  /\ Dies /\ JobTyped' /\ FaultsTyped'
         /\ slipped' \subseteq E!Loops \X Emails /\ botched' \subseteq E!Reports
<1> DEFINE Recording == {k \in E!Loops : job[k].at = "recording"}
           At == UNION {job[l].reports : l \in E!Loops}
<1>1. /\ E!Faultless(FALSE)
      /\ slipped' = slipped \cup UNION {E!Unnoted(l, job[l].to) : l \in Recording}
      /\ botched' = botched \cup {r \in At : \E m \in told : m[1] = r}
      /\ job' = [l \in E!Loops |-> E!Idle]
      /\ UNCHANGED <<E!rows, E!schedule, E!records, quiet, pestered, told, twice>>
  BY DEF E!Crash
<1>2. FaultsTyped'
  BY <1>1, TypeParts, FaultCounted
<1>3. E!Idle \in Job
  BY DEF E!Idle, Job, Points, Lists
<1>4. JobTyped'
  BY <1>1, <1>3 DEF JobTyped
<1>5. slipped \subseteq E!Loops \X Emails /\ botched \subseteq E!Reports
  BY TypeParts DEF PastTyped
<1>6. \A l \in E!Loops : /\ E!Unnoted(l, job[l].to) \subseteq E!Loops \X Emails
                         /\ job[l].reports \subseteq E!Reports
  BY JobOf DEF E!Unnoted
<1>7. slipped' \subseteq E!Loops \X Emails
  <2>1. UNION {E!Unnoted(l, job[l].to) : l \in Recording} \subseteq E!Loops \X Emails
    BY <1>6
  <2> QED BY <1>1, <1>5, <2>1
<1>8. botched' \subseteq E!Reports
  <2>1. At \subseteq E!Reports
    BY <1>6
  <2> QED BY <1>1, <1>5, <2>1
<1>9. \A l \in Recording : E!Unnoted(l, job[l].to) \subseteq slipped'
  BY <1>1
<1>10. \A l \in E!Loops : \A r \in job[l].reports : SentOut(r) => r \in botched'
  <2> SUFFICES ASSUME NEW l \in E!Loops, NEW r \in job[l].reports, SentOut(r)
               PROVE  r \in botched'
    OBVIOUS
  <2>1. \E m \in told : m[1] = r
    BY DEF SentOut
  <2>2. r \in At
    OBVIOUS
  <2> QED BY <1>1, <2>1, <2>2
<1>11. \A l \in E!Loops : job'[l] = E!Idle
  BY <1>1
<1> QED BY <1>1, <1>2, <1>4, <1>7, <1>8, <1>9, <1>10, <1>11 DEF Dies

\* A day passes.
LEMMA OneLess == ASSUME NEW m \in Nat, NEW n \in 0 .. m PROVE E!Earlier(n) \in 0 .. m
BY DEF E!Earlier

LEMMA DayTyped ==
  ASSUME E!ConstantsAssumption, E!TypeOK, E!Day
  PROVE  /\ wait' \in [E!Reports -> 0 .. E!MaxWait]
         /\ throttle' \in Days /\ quiet' \in Days
         /\ \A l \in E!Loops, e \in Emails :
              throttle'[l][e] = E!Earlier(throttle[l][e]) /\ quiet'[l][e] = E!Earlier(quiet[l][e])
<1>1. throttle \in Days /\ quiet \in Days /\ wait \in [E!Reports -> 0 .. E!MaxWait]
  BY TypeParts DEF RecordsTyped, PastTyped, ScheduleTyped
<1>2. /\ throttle' = [l \in E!Loops |-> [e \in Emails |-> E!Earlier(throttle[l][e])]]
      /\ quiet' = [l \in E!Loops |-> [e \in Emails |-> E!Earlier(quiet[l][e])]]
      /\ wait' = [r \in E!Reports |-> E!Earlier(wait[r])]
  BY DEF E!Day
<1>3. \A r \in E!Reports : E!Earlier(wait[r]) \in 0 .. E!MaxWait
  BY <1>1, LongestWait, OneLess
<1>4. \A l \in E!Loops, e \in Emails :
        E!Earlier(throttle[l][e]) \in 0 .. ThrottleDays /\ E!Earlier(quiet[l][e]) \in 0 .. ThrottleDays
  BY <1>1, OneLess, E!ConstantsAssumption DEF Days
<1>5. wait' \in [E!Reports -> 0 .. E!MaxWait]
  BY <1>2, <1>3
<1>6. throttle' \in Days /\ quiet' \in Days
  BY <1>2, <1>4 DEF Days
<1> QED BY <1>2, <1>5, <1>6

-----------------------------------------------------------------------------
(* Every step keeps the types. *)

LEMMA SetDays ==
  ASSUME E!ConstantsAssumption, NEW f \in Days, NEW l \in E!Loops, NEW S,
         NEW g, g = [f EXCEPT ![l] = [e \in Emails |-> IF e \in S THEN ThrottleDays ELSE f[l][e]]]
  PROVE  /\ g \in Days
         /\ \A e \in Emails : g[l][e] = IF e \in S THEN ThrottleDays ELSE f[l][e]
         /\ \A k \in E!Loops \ {l} : g[k] = f[k]
<1>1. ThrottleDays \in 0 .. ThrottleDays
  BY E!ConstantsAssumption
<1>2. [e \in Emails |-> IF e \in S THEN ThrottleDays ELSE f[l][e]] \in [Emails -> 0 .. ThrottleDays]
  BY <1>1 DEF Days
<1> QED BY <1>2 DEF Days

LEMMA BeginTyped ==
  ASSUME E!TypeOK, NEW l \in E!Loops, Begins(l) \/ PutsOff, Schedules
  PROVE  E!TypeOK'
<1>1. Same
  BY DEF Begins, PutsOff
<1>2. RowsTyped' /\ RecordsTyped'
  BY <1>1, TypeParts, TypesStay DEF Same
<1>3. ScheduleTyped'
  BY <1>1, TypeParts DEF Same, Schedules, ScheduleTyped
<1>4. PastTyped'
  BY <1>1, TypeParts DEF Same, Schedules, PastTyped
<1>5. JobTyped'
  BY TypeParts DEF Begins, PutsOff, JobTyped
<1> QED BY <1>2, <1>3, <1>4, <1>5, TypePartsNext DEF Schedules

LEMMA MailingTyped ==
  ASSUME E!ConstantsAssumption, E!TypeOK, NEW l \in E!Loops, E!Send(l)
  PROVE  E!TypeOK'
<1>1. PICK ok \in SUBSET job[l].to : Sends(l, ok)
  BY SendEffect
<1>2. ScheduleTyped' /\ JobTyped' /\ FaultsTyped'
  BY SendEffect
<1>3. RowsTyped' /\ RecordsTyped'
  BY <1>1, TypeParts, TypesStay DEF Sends
<1>4. job[l].reports \subseteq E!Reports /\ ok \subseteq Emails
  BY JobOf
<1>5. PastTyped
  BY TypeParts
<1>6. told' \subseteq E!Mails /\ twice' \subseteq E!Mails
  <2>1. E!Mailed(job[l], ok) \subseteq E!Mails
    BY <1>4, JobOf DEF E!Mailed, E!Mails, Lists
  <2> QED BY <1>1, <1>5, <2>1 DEF Sends, PastTyped
<1>7. slipped' \subseteq E!Loops \X Emails /\ botched' \subseteq E!Reports
  BY <1>1, <1>4, <1>5 DEF Sends, PastTyped, E!Unnoted
<1>8. quiet' \in Days
  BY <1>1, <1>5, SetDays DEF Sends, PastTyped
<1>9. pestered' \subseteq E!Loops \X Emails
  BY <1>1, <1>4, <1>5 DEF Sends, PastTyped
<1> QED BY <1>2, <1>3, <1>6, <1>7, <1>8, <1>9, TypePartsNext DEF PastTyped

LEMMA RecordTyped ==
  ASSUME E!ConstantsAssumption, E!TypeOK, NEW l \in E!Loops, E!Record(l)
  PROVE  E!TypeOK'
<1>1. PICK done \in SUBSET job[l].to : Records(l, done)
  BY RecordEffect
<1>2. JobTyped' /\ FaultsTyped'
  BY RecordEffect
<1>3. RowsTyped' /\ ScheduleTyped'
  BY <1>1, TypeParts, TypesStay DEF Records
<1>4. job[l].reports \subseteq E!Reports /\ job[l].to \subseteq Emails
  BY JobOf
<1>5. PastTyped /\ RecordsTyped
  BY TypeParts
<1>6. PastTyped'
  BY <1>1, <1>4, <1>5 DEF Records, PastTyped, E!Unnoted
<1>7. throttle' \in Days
  BY <1>1, <1>5, SetDays DEF Records, RecordsTyped
<1>8. delivered' \subseteq E!Reports \X Emails
  BY <1>1, <1>4, <1>5 DEF Records, RecordsTyped
<1> QED BY <1>2, <1>3, <1>6, <1>7, <1>8, TypePartsNext DEF RecordsTyped

LEMMA AreaTyped ==
  ASSUME E!ConstantsAssumption, E!TypeOK, E!SendEmailsForArea
  PROVE  E!TypeOK'
<1>1. JobTyped' /\ FaultsTyped' /\ UNCHANGED <<E!rows, E!schedule, E!records, E!past>>
  BY AreaEffect DEF TurnsTo
<1> QED BY <1>1, TypeParts, TypesStay, TypePartsNext

LEMMA MarkTyped ==
  ASSUME E!ConstantsAssumption, E!TypeOK, NEW l \in E!Loops, E!Mark(l)
  PROVE  E!TypeOK'
<1>1. PICK done \in SUBSET job[l].reports : Marks(l, done)
  BY MarkEffect
<1>2. ScheduleTyped' /\ JobTyped' /\ FaultsTyped'
  BY MarkEffect
<1>3. RowsTyped' /\ RecordsTyped'
  BY <1>1, TypeParts, TypesStay DEF Marks
<1>4. job[l].reports \subseteq E!Reports /\ PastTyped
  BY JobOf, TypeParts
<1>5. PastTyped'
  BY <1>1, <1>4 DEF Marks, PastTyped
<1> QED BY <1>2, <1>3, <1>5, TypePartsNext

LEMMA KilledTyped ==
  ASSUME E!ConstantsAssumption, E!TypeOK, E!Crash
  PROVE  E!TypeOK'
<1>1. /\ Dies /\ JobTyped' /\ FaultsTyped'
      /\ slipped' \subseteq E!Loops \X Emails /\ botched' \subseteq E!Reports
  BY CrashEffect
<1>2. RowsTyped' /\ ScheduleTyped' /\ RecordsTyped'
  BY <1>1, TypeParts, TypesStay DEF Dies
<1>3. PastTyped'
  BY <1>1, TypeParts DEF Dies, PastTyped
<1> QED BY <1>1, <1>2, <1>3, TypePartsNext

LEMMA PassingDayTyped ==
  ASSUME E!ConstantsAssumption, E!TypeOK, E!Day
  PROVE  E!TypeOK'
<1>1. /\ UNCHANGED <<E!rows, processed, count, pushed, delivered, job, pestered, slipped,
                     told, twice, botched, faults>>
      /\ wait' \in [E!Reports -> 0 .. E!MaxWait] /\ throttle' \in Days /\ quiet' \in Days
  BY DayTyped DEF E!Day
<1>2. RowsTyped' /\ JobTyped' /\ FaultsTyped'
  BY <1>1, TypeParts, TypesStay
<1>3. ScheduleTyped' /\ RecordsTyped' /\ PastTyped'
  BY <1>1, TypeParts DEF ScheduleTyped, RecordsTyped, PastTyped
<1> QED BY <1>2, <1>3, TypePartsNext

\* The world around changes rows.
WorldTurns ==
  \/ \E r \in E!Reports : E!Publish(r) \/ E!Quarantine(r) \/ E!FindContacts(r)
  \/ \E a \in Areas : E!ListContacts(a)
  \/ \E e \in Emails : E!AddOptedOutEmail(e)

LEMMA WorldTyped ==
  ASSUME E!TypeOK, WorldTurns
  PROVE  E!TypeOK' /\ UNCHANGED <<E!schedule, E!records, job, E!past, faults>>
<1>1. UNCHANGED <<E!schedule, E!records, job, E!past, faults>>
  BY DEF WorldTurns, E!Publish, E!Quarantine, E!FindContacts, E!ListContacts, E!AddOptedOutEmail
<1>2. RowsTyped'
  BY TypeParts DEF WorldTurns, E!Publish, E!Quarantine, E!FindContacts, E!ListContacts,
     E!AddOptedOutEmail, RowsTyped
<1> QED BY <1>1, <1>2, TypeParts, TypesStay, TypePartsNext

-----------------------------------------------------------------------------
(* QuietInv. *)

LEMMA NumbersOfDays ==
  ASSUME E!ConstantsAssumption, E!TypeOK, NEW l \in E!Loops, NEW e \in Emails
  PROVE  /\ quiet[l][e] \in Nat /\ throttle[l][e] \in Nat
         /\ quiet[l][e] <= ThrottleDays /\ ThrottleDays \in Nat
<1>1. quiet \in Days /\ throttle \in Days
  BY TypeParts DEF RecordsTyped, PastTyped
<1> QED BY <1>1, E!ConstantsAssumption DEF Days

LEMMA BeginQuiet ==
  ASSUME E!ConstantsAssumption, E!TypeOK, QuietInv, NEW l \in E!Loops, Begins(l)
  PROVE  QuietInv'
<1>1. /\ job[l].at = "idle" /\ slipped \subseteq slipped'
      /\ UNCHANGED <<quiet, pestered, throttle>>
  BY DEF Begins, Same, E!records
<1>2. PICK j \in Job :
       /\ job' = [job EXCEPT ![l] = j]
       /\ j.at \in {"areas", "sending", "marking"}
       /\ j.at = "sending" => \A e \in j.to : throttle[l][e] = 0 \/ <<l, e>> \in slipped'
  BY DEF Begins
<1>3. job'[l] = j /\ \A k \in E!Loops \ {l} : job'[k] = job[k]
  BY <1>2, TypeParts DEF JobTyped
<1>4. ASSUME NEW k \in E!Loops, NEW e \in Emails
      PROVE  <<k, e>> \in slipped' \/ quiet'[k][e] <= throttle'[k][e] \/ AboutToRecord(k, e, NoArea)'
  BY <1>1, <1>3 DEF QuietInv, AboutToRecord
<1>5. ASSUME NEW k \in E!Loops, job'[k].at = "sending", job'[k].via = NoArea, NEW e \in job'[k].to
      PROVE  <<k, e>> \in slipped' \/ quiet'[k][e] = 0
  <2>1. CASE k # l
    BY <1>1, <1>3, <1>5, <2>1 DEF QuietInv
  <2>2. CASE k = l
    <3>1. e \in j.to /\ e \in Emails
      BY <1>2, <1>3, <1>5, <2>2 DEF Job
    <3>2. throttle[l][e] = 0 \/ <<l, e>> \in slipped'
      BY <1>2, <1>3, <1>5, <2>2, <3>1
    <3>3. <<l, e>> \in slipped \/ quiet[l][e] <= throttle[l][e]
      BY <1>1, <3>1 DEF QuietInv, AboutToRecord
    <3>4. quiet[l][e] <= 0 => quiet[l][e] = 0
      BY <3>1, NumbersOfDays
    <3> QED BY <1>1, <2>2, <3>2, <3>3, <3>4
  <2> QED BY <2>1, <2>2
<1>6. E!PesteredOnlyIfSlipped'
  BY <1>1 DEF QuietInv, E!PesteredOnlyIfSlipped
<1> QED BY <1>4, <1>5, <1>6 DEF QuietInv

LEMMA SendQuiet ==
  ASSUME E!ConstantsAssumption, E!TypeOK, QuietInv, NEW l \in E!Loops,
         NEW ok \in SUBSET job[l].to, Sends(l, ok)
  PROVE  QuietInv'
<1>1. /\ job[l].at = "sending" /\ throttle' = throttle
      /\ slipped \subseteq slipped' /\ slipped' \subseteq slipped \cup ({l} \X ok)
      /\ \A k \in E!Loops \ {l} : job'[k] = job[k]
      /\ job'[l].at # "sending"
      /\ \/ ok = job[l].to /\ GoesOn(l, "recording")
         \/ job[l].via = NoArea => {l} \X ok \subseteq slipped'
  BY DEF Sends, E!records, GoesOn, Ends, E!Idle, E!Unnoted, E!Onward
<1>2. ok \subseteq Emails
  BY JobOf
<1>3. job[l].via = NoArea => \A e \in ok : <<l, e>> \in slipped \/ quiet[l][e] = 0
  BY <1>1 DEF QuietInv
<1>4. /\ \A k \in E!Loops \ {l} : quiet'[k] = quiet[k]
      /\ \A e \in Emails \ ok : quiet'[l][e] = quiet[l][e]
      /\ job[l].via # NoArea => quiet' = quiet
  <2>1. quiet \in Days
    BY TypeParts DEF PastTyped
  <2>2. CASE UNCHANGED quiet
    BY <2>2
  <2>3. CASE /\ job[l].via = NoArea
             /\ quiet' = [quiet EXCEPT ![l] = [e \in Emails |->
                            IF e \in ok THEN ThrottleDays ELSE quiet[l][e]]]
    BY <2>1, <2>3, SetDays
  <2> QED BY <2>2, <2>3 DEF Sends
<1>5. E!PesteredOnlyIfSlipped'
  <2>1. CASE job[l].via # NoArea
    BY <1>1, <2>1 DEF Sends, QuietInv, E!PesteredOnlyIfSlipped
  <2>2. CASE job[l].via = NoArea
    <3>1. \A e \in ok : quiet[l][e] > 0 => <<l, e>> \in slipped
      BY <1>2, <1>3, <2>2, NumbersOfDays
    <3>2. pestered' = pestered \cup ({l} \X {e \in ok : quiet[l][e] > 0})
      BY <2>2 DEF Sends
    <3>3. {l} \X {e \in ok : quiet[l][e] > 0} \subseteq slipped
      BY <3>1
    <3> QED BY <1>1, <3>2, <3>3 DEF QuietInv, E!PesteredOnlyIfSlipped
  <2> QED BY <2>1, <2>2
<1>6. ASSUME NEW k \in E!Loops, NEW e \in Emails
      PROVE  <<k, e>> \in slipped' \/ quiet'[k][e] <= throttle'[k][e] \/ AboutToRecord(k, e, NoArea)'
  <2>1. CASE k # l
    BY <1>1, <1>4, <2>1 DEF QuietInv, AboutToRecord
  <2>2. CASE k = l /\ (e \notin ok \/ job[l].via # NoArea)
    BY <1>1, <1>4, <2>2 DEF QuietInv, AboutToRecord
  <2>3. CASE k = l /\ e \in ok /\ job[l].via = NoArea
    BY <1>1, <2>3 DEF AboutToRecord, GoesOn
  <2> QED BY <2>1, <2>2, <2>3
<1>7. ASSUME NEW k \in E!Loops, job'[k].at = "sending", job'[k].via = NoArea, NEW e \in job'[k].to
      PROVE  <<k, e>> \in slipped' \/ quiet'[k][e] = 0
  <2>1. k # l
    BY <1>1, <1>7
  <2> QED BY <1>1, <1>4, <1>7, <2>1 DEF QuietInv
<1> QED BY <1>5, <1>6, <1>7 DEF QuietInv

LEMMA RecordQuiet ==
  ASSUME E!ConstantsAssumption, E!TypeOK, QuietInv, NEW l \in E!Loops,
         NEW done \in SUBSET job[l].to, Records(l, done)
  PROVE  QuietInv'
<1>1. /\ job[l].at = "recording" /\ UNCHANGED <<quiet, pestered>>
      /\ slipped \subseteq slipped'
      /\ job[l].via = NoArea => {l} \X (job[l].to \ done) \subseteq slipped'
      /\ \A k \in E!Loops \ {l} : job'[k] = job[k]
      /\ job'[l].at \notin {"sending", "recording"}
  BY DEF Records, GoesOn, E!Unnoted, E!Onward
<1>2. throttle \in Days /\ done \subseteq Emails
  BY TypeParts, JobOf DEF RecordsTyped
<1>3. /\ \A k \in E!Loops \ {l} : throttle'[k] = throttle[k]
      /\ \A e \in Emails \ done : throttle'[l][e] = throttle[l][e]
      /\ job[l].via = NoArea => \A e \in done : throttle'[l][e] = ThrottleDays
      /\ job[l].via # NoArea => throttle' = throttle
  <2>1. CASE job[l].via # NoArea /\ UNCHANGED throttle
    BY <2>1
  <2>2. CASE /\ job[l].via = NoArea
             /\ throttle' = [throttle EXCEPT ![l] = [e \in Emails |->
                               IF e \in done THEN ThrottleDays ELSE throttle[l][e]]]
    <3>0. throttle' = [throttle EXCEPT ![l] = [e \in Emails |->
                         IF e \in done THEN ThrottleDays ELSE throttle[l][e]]]
      BY <2>2
    <3>1. \A e \in Emails : throttle'[l][e] = IF e \in done THEN ThrottleDays ELSE throttle[l][e]
      BY <3>0, <1>2 DEF Days
    <3>2. \A k \in E!Loops \ {l} : throttle'[k] = throttle[k]
      BY <3>0, <1>2 DEF Days
    <3> QED BY <1>2, <2>2, <3>1, <3>2
  <2> QED BY <2>1, <2>2 DEF Records
<1>4. E!PesteredOnlyIfSlipped'
  BY <1>1 DEF QuietInv, E!PesteredOnlyIfSlipped
<1>5. ASSUME NEW k \in E!Loops, NEW e \in Emails
      PROVE  <<k, e>> \in slipped' \/ quiet'[k][e] <= throttle'[k][e] \/ AboutToRecord(k, e, NoArea)'
  <2>1. CASE k # l
    BY <1>1, <1>3, <2>1 DEF QuietInv, AboutToRecord
  <2>2. CASE k = l /\ (e \notin job[l].to \/ job[l].via # NoArea)
    BY <1>1, <1>3, <2>2 DEF QuietInv, AboutToRecord
  <2>3. CASE k = l /\ e \in job[l].to \ done /\ job[l].via = NoArea
    BY <1>1, <2>3
  <2>4. CASE k = l /\ e \in done /\ job[l].via = NoArea
    <3>1. quiet'[k][e] <= ThrottleDays
      BY <1>1, NumbersOfDays
    <3>2. throttle'[k][e] = ThrottleDays
      BY <1>3, <2>4
    <3> QED BY <3>1, <3>2
  <2> QED BY <2>1, <2>2, <2>3, <2>4
<1>6. ASSUME NEW k \in E!Loops, job'[k].at = "sending", job'[k].via = NoArea, NEW e \in job'[k].to
      PROVE  <<k, e>> \in slipped' \/ quiet'[k][e] = 0
  <2>1. k # l
    BY <1>1, <1>6
  <2> QED BY <1>1, <1>6, <2>1 DEF QuietInv
<1> QED BY <1>4, <1>5, <1>6 DEF QuietInv

LEMMA AreaQuiet ==
  ASSUME E!ConstantsAssumption, QuietInv, NEW a \in Areas, TurnsTo(a)
  PROVE  QuietInv'
<1>1. /\ UNCHANGED <<quiet, pestered, throttle, slipped>>
      /\ job["brandless"].at = "areas" /\ job'["brandless"].via # NoArea
      /\ job'["aggregate"] = job["aggregate"]
  BY E!ConstantsAssumption DEF TurnsTo, E!records, E!past
<1>2. \A l \in E!Loops, e \in Emails : AboutToRecord(l, e, NoArea) => AboutToRecord(l, e, NoArea)'
  BY <1>1 DEF AboutToRecord, E!Loops
<1>3. \A l \in E!Loops : job'[l].at = "sending" /\ job'[l].via = NoArea => job'[l] = job[l]
  BY <1>1 DEF E!Loops
<1> QED BY <1>1, <1>2, <1>3 DEF QuietInv, E!PesteredOnlyIfSlipped

\* A step that only ends or marks mailings, and records nothing.
LEMMA EndQuiet ==
  ASSUME E!TypeOK, QuietInv, UNCHANGED <<quiet, pestered, throttle>>, slipped \subseteq slipped',
         \A l \in E!Loops :
           \/ job'[l] = job[l]
           \/ /\ job'[l] = E!Idle
              /\ job[l].at = "recording" => E!Unnoted(l, job[l].to) \subseteq slipped'
  PROVE  QuietInv'
<1>1. E!PesteredOnlyIfSlipped'
  BY DEF QuietInv, E!PesteredOnlyIfSlipped
<1>2. ASSUME NEW k \in E!Loops, NEW e \in Emails
      PROVE  <<k, e>> \in slipped' \/ quiet'[k][e] <= throttle'[k][e] \/ AboutToRecord(k, e, NoArea)'
  <2>1. <<k, e>> \in slipped \/ quiet[k][e] <= throttle[k][e] \/ AboutToRecord(k, e, NoArea)
    BY DEF QuietInv
  <2>2. AboutToRecord(k, e, NoArea) => AboutToRecord(k, e, NoArea)' \/ <<k, e>> \in slipped'
    BY DEF AboutToRecord, E!Unnoted
  <2> QED BY <2>1, <2>2
<1>3. ASSUME NEW k \in E!Loops, job'[k].at = "sending", job'[k].via = NoArea, NEW e \in job'[k].to
      PROVE  <<k, e>> \in slipped' \/ quiet'[k][e] = 0
  <2>1. job'[k] = job[k]
    BY <1>3 DEF E!Idle
  <2> QED BY <1>3, <2>1 DEF QuietInv
<1> QED BY <1>1, <1>2, <1>3 DEF QuietInv

LEMMA DayQuiet ==
  ASSUME E!ConstantsAssumption, E!TypeOK, QuietInv, E!Day
  PROVE  QuietInv'
<1>1. UNCHANGED <<job, pestered, slipped>>
  BY DEF E!Day
<1>2. \A m, n \in Nat : (m <= n => E!Earlier(m) <= E!Earlier(n)) /\ (m = 0 => E!Earlier(m) = 0)
  BY DEF E!Earlier
<1>3. ASSUME NEW l \in E!Loops, NEW e \in Emails
      PROVE  /\ quiet[l][e] <= throttle[l][e] => quiet'[l][e] <= throttle'[l][e]
             /\ quiet[l][e] = 0 => quiet'[l][e] = 0
  <2>1. quiet[l][e] \in Nat /\ throttle[l][e] \in Nat
    BY NumbersOfDays
  <2>2. quiet'[l][e] = E!Earlier(quiet[l][e]) /\ throttle'[l][e] = E!Earlier(throttle[l][e])
    BY DayTyped
  <2> QED BY <1>2, <2>1, <2>2, Zenon
<1>4. E!PesteredOnlyIfSlipped'
  BY <1>1 DEF QuietInv, E!PesteredOnlyIfSlipped
<1>5. ASSUME NEW k \in E!Loops, NEW e \in Emails
      PROVE  <<k, e>> \in slipped' \/ quiet'[k][e] <= throttle'[k][e] \/ AboutToRecord(k, e, NoArea)'
  BY <1>1, <1>3 DEF QuietInv, AboutToRecord
<1>6. ASSUME NEW k \in E!Loops, job'[k].at = "sending", job'[k].via = NoArea, NEW e \in job'[k].to
      PROVE  <<k, e>> \in slipped' \/ quiet'[k][e] = 0
  <2>1. e \in Emails
    BY <1>1, <1>6, JobOf
  <2> QED BY <1>1, <1>3, <1>6, <2>1 DEF QuietInv
<1> QED BY <1>4, <1>5, <1>6 DEF QuietInv

-----------------------------------------------------------------------------
(* JobInv and ToldInv. *)

\* A report is at one loop only.
LEMMA OneLoop ==
  ASSUME E!ConstantsAssumption, JobInv, NEW k \in E!Loops, NEW l \in E!Loops,
         NEW r \in job[k].reports, r \in job[l].reports
  PROVE  k = l
BY E!ConstantsAssumption DEF JobInv, Mailable, E!Loops

\* What a report was told stays told, so that what its reporter heard stays true.
LEMMA PushesStay ==
  ASSUME ToldInv, told \subseteq told', processed \subseteq processed',
         botched \subseteq botched',
         pushed' = pushed, NEW r \in E!Reports, r \in processed => (SentOut(r)' => SentOut(r))
  PROVE  PushTrue(r)'
<1>1. SentOut(r) => SentOut(r)'
  BY DEF SentOut
<1>2. PushTrue(r)
  BY DEF ToldInv
<1> QED BY <1>1, <1>2 DEF PushTrue

LEMMA BeginTold ==
  ASSUME E!ConstantsAssumption, E!TypeOK, JobInv, ToldInv, NEW l \in E!Loops, Begins(l)
  PROVE  JobInv' /\ ToldInv'
<1>1. /\ job[l].at = "idle"
      /\ UNCHANGED <<processed, pushed, delivered, told, twice, botched>>
  BY DEF Begins, Same, E!records
<1>2. PICK j \in Job :
       /\ job' = [job EXCEPT ![l] = j]
       /\ j.at \in {"areas", "sending", "marking"}
       /\ j.reports \subseteq Mailable(l) \ processed
       /\ j.via = NoArea /\ (j.at = "sending" => j.areas = {})
  BY DEF Begins
<1>3. job'[l] = j /\ \A k \in E!Loops \ {l} : job'[k] = job[k]
  BY <1>2, TypeParts DEF JobTyped
<1>4. JobInv'
  <2>1. j.via \notin j.areas
    BY <1>2, E!ConstantsAssumption DEF Job
  <2> QED BY <1>1, <1>2, <1>3, <2>1 DEF JobInv, Mailable
<1>5. ASSUME NEW r \in E!Reports, NEW e \in Emails, NEW v \in Lists, Settling(r, e, v)
      PROVE  Settling(r, e, v)'
  <2>1. PICK k \in E!Loops : r \in job[k].reports /\ (AboutToRecord(k, e, v) \/ OnRecord(k, r, e, v))
    BY <1>5 DEF Settling
  <2>2. k # l
    BY <1>1, <2>1 DEF AboutToRecord, OnRecord
  <2> QED BY <1>1, <1>3, <2>1, <2>2 DEF Settling, AboutToRecord, OnRecord
<1>6. \A k \in E!Loops : job'[k].at = "recording" => job'[k] = job[k]
  BY <1>2, <1>3
<1>7. \A r \in E!Reports : PushTrue(r)' /\ (SentOut(r)' <=> SentOut(r))
  BY <1>1, PushesStay DEF SentOut
<1>8. OnceInv'
  BY <1>1 DEF ToldInv, OnceInv
<1>9. ToldInv'
  BY <1>1, <1>5, <1>6, <1>7, <1>8 DEF ToldInv
<1> QED BY <1>4, <1>9

\* The contacts of one more area are mailed for it, and of none that was mailed before.
LEMMA AreaTold ==
  ASSUME E!ConstantsAssumption, JobInv, ToldInv, NEW a \in Areas, TurnsTo(a)
  PROVE  JobInv' /\ ToldInv'
<1> DEFINE l == "brandless"
<1>1. /\ UNCHANGED <<processed, pushed, delivered, told, twice, botched>>
      /\ job'["aggregate"] = job["aggregate"]
      /\ job[l].at = "areas" /\ a \in job[l].areas /\ a # NoArea
      /\ job'[l].reports = job[l].reports /\ job'[l].via = a
      /\ job'[l].areas = job[l].areas \ {a}
      /\ job'[l].at \in {"areas", "sending", "marking"}
  BY E!ConstantsAssumption DEF TurnsTo, E!schedule, E!records, E!past
<1>2. JobInv'
  BY <1>1 DEF JobInv, Mailable, E!Loops
<1>3. ASSUME NEW r \in E!Reports, NEW e \in Emails, NEW v \in Lists, Settling(r, e, v)
      PROVE  Settling(r, e, v)'
  <2>1. PICK k \in E!Loops : r \in job[k].reports /\ (AboutToRecord(k, e, v) \/ OnRecord(k, r, e, v))
    BY <1>3 DEF Settling
  <2>2. CASE k = l
    <3>1. <<r, e>> \in delivered /\ v \notin job[l].areas /\ v # NoArea
      BY <1>1, <2>1, <2>2 DEF AboutToRecord, OnRecord
    <3>2. OnRecord(l, r, e, v)'
      BY <1>1, <3>1 DEF OnRecord
    <3> QED BY <1>1, <2>1, <2>2, <3>2 DEF Settling
  <2>3. CASE k = "aggregate"
    BY <1>1, <2>1, <2>3 DEF Settling, AboutToRecord, OnRecord
  <2> QED BY <2>2, <2>3 DEF E!Loops
<1>4. \A k \in E!Loops : job'[k].at = "recording" => job'[k] = job[k]
  BY <1>1 DEF E!Loops
<1>5. \A r \in E!Reports : PushTrue(r)' /\ (SentOut(r)' <=> SentOut(r))
  BY <1>1, PushesStay DEF SentOut
<1>6. OnceInv'
  BY <1>1 DEF ToldInv, OnceInv
<1>7. ToldInv'
  BY <1>1, <1>3, <1>4, <1>5, <1>6 DEF ToldInv
<1> QED BY <1>2, <1>7

LEMMA SendTold ==
  ASSUME E!ConstantsAssumption, E!TypeOK, JobInv, ToldInv, NEW l \in E!Loops,
         NEW ok \in SUBSET job[l].to, Sends(l, ok)
  PROVE  JobInv' /\ ToldInv'
<1> DEFINE S == job[l].reports
           a == job[l].via
<1>1. /\ job[l].at = "sending" /\ UNCHANGED <<processed, pushed, delivered>>
      /\ botched \subseteq botched'
      /\ \A k \in E!Loops \ {l} : job'[k] = job[k]
  BY DEF Sends, E!records, GoesOn, Ends
<1>2. \/ /\ job'[l].at = "recording" /\ job'[l].reports = S /\ job'[l].to = ok /\ ok = job[l].to
         /\ job'[l].via = a /\ job'[l].areas = job[l].areas
         /\ botched' = botched
      \/ /\ S \subseteq botched' /\ job'[l].at \notin {"sending", "recording"}
         /\ job'[l].reports \subseteq S /\ job'[l].via \notin job'[l].areas
  BY E!ConstantsAssumption DEF Sends, GoesOn, Ends, E!Idle, E!Onward, JobInv
<1>3. S \subseteq E!Reports /\ ok \subseteq Emails /\ a \in Lists /\ S \cap processed = {}
  BY JobOf DEF JobInv
<1>4. JobInv'
  BY <1>1, <1>2 DEF JobInv, Mailable
<1>5. /\ \A r, e, v : <<r, e, v>> \in told' <=>
                        <<r, e, v>> \in told \/ (r \in S /\ e \in ok /\ v = a)
      /\ \A r, e, v : <<r, e, v>> \in twice' <=>
                        \/ <<r, e, v>> \in twice
                        \/ <<r, e, v>> \in told /\ r \in S /\ e \in ok /\ v = a
  BY DEF Sends, E!Mailed
<1>6. told \subseteq told'
  BY DEF Sends
<1>7. ASSUME NEW r \in S, NEW e \in Emails, NEW v \in Lists, <<r, e, v>> \in told, r \notin botched
      PROVE  OnRecord(l, r, e, v) /\ v # NoArea /\ a \notin {v, NoArea}
  <2>1. Settling(r, e, v)
    BY <1>3, <1>7 DEF ToldInv
  <2>2. PICK k \in E!Loops : r \in job[k].reports /\ (AboutToRecord(k, e, v) \/ OnRecord(k, r, e, v))
    BY <2>1 DEF Settling
  <2>3. k = l
    BY <1>7, <2>2, OneLoop
  <2> QED BY <1>1, <2>2, <2>3 DEF AboutToRecord, OnRecord
<1>8. OnceInv'
  <2>1. ASSUME NEW r \in E!Reports, NEW e \in Emails, NEW v \in Lists, <<r, e, v>> \in twice'
        PROVE  r \in botched'
    <3>1. CASE <<r, e, v>> \in twice
      BY <1>1, <3>1 DEF ToldInv, OnceInv
    <3>2. CASE <<r, e, v>> \in told /\ r \in S /\ e \in ok /\ v = a
      BY <1>1, <1>7, <3>2
    <3> QED BY <1>5, <2>1, <3>1, <3>2
  <2>2. ASSUME NEW r \in E!Reports, NEW e \in Emails, NEW v \in Areas,
               <<r, e, NoArea>> \in told', <<r, e, v>> \in told'
        PROVE  r \in botched'
    <3>1. v # NoArea /\ v \in Lists /\ NoArea \in Lists
      BY E!ConstantsAssumption DEF Lists
    <3>2. CASE r \in S /\ r \notin botched
      <4>1. <<r, e, NoArea>> \notin told
        BY <1>7, <3>1, <3>2
      <4>2. a = NoArea
        BY <1>5, <2>2, <4>1
      <4>3. <<r, e, v>> \in told
        BY <1>5, <2>2, <3>1, <4>2
      <4> QED BY <1>7, <3>1, <3>2, <4>2, <4>3
    <3>3. CASE r \notin S
      <4>1. <<r, e, NoArea>> \in told /\ <<r, e, v>> \in told
        BY <1>5, <2>2, <3>3
      <4> QED BY <1>1, <4>1 DEF ToldInv, OnceInv
    <3> QED BY <1>1, <3>2, <3>3
  <2> QED BY <2>1, <2>2 DEF OnceInv
<1>9. ASSUME NEW r \in E!Reports, NEW e \in Emails, NEW v \in Lists, <<r, e, v>> \in told'
      PROVE  r \in (processed \cup botched)' \/ Settling(r, e, v)'
  <2>1. CASE r \in S /\ S \subseteq botched'
    BY <2>1
  <2>2. CASE r \in S /\ ~(S \subseteq botched')
    <3>1. /\ job'[l].at = "recording" /\ job'[l].reports = S /\ job'[l].to = ok
          /\ job'[l].via = a /\ job'[l].areas = job[l].areas /\ botched' = botched
      BY <1>2, <2>2
    <3>2. CASE <<r, e, v>> \in told /\ r \notin botched
      <4>1. OnRecord(l, r, e, v) /\ v # NoArea
        BY <1>7, <2>2, <3>2
      <4>2. OnRecord(l, r, e, v)'
        BY <1>1, <3>1, <4>1 DEF OnRecord
      <4> QED BY <2>2, <3>1, <4>2 DEF Settling
    <3>3. CASE e \in ok /\ v = a
      BY <2>2, <3>1, <3>3 DEF Settling, AboutToRecord
    <3> QED BY <1>1, <1>5, <1>9, <3>2, <3>3
  <2>3. CASE r \notin S
    <3>1. r \in processed \cup botched \/ Settling(r, e, v)
      BY <1>5, <1>9, <2>3 DEF ToldInv
    <3>2. Settling(r, e, v) => Settling(r, e, v)'
      BY <1>1, <2>3 DEF Settling, AboutToRecord, OnRecord
    <3> QED BY <1>1, <3>1, <3>2
  <2> QED BY <2>1, <2>2, <2>3
<1>10. ASSUME NEW k \in E!Loops, job'[k].at = "recording",
              NEW r \in job'[k].reports, NEW e \in job'[k].to
       PROVE  <<r, e, job'[k].via>> \in told'
  <2>1. CASE k = l
    BY <1>2, <1>5, <1>10, <2>1
  <2>2. CASE k # l
    <3>1. job'[k] = job[k]
      BY <1>1, <2>2
    <3>2. <<r, e, job[k].via>> \in told
      BY <1>10, <3>1 DEF ToldInv
    <3> QED BY <1>6, <3>1, <3>2
  <2> QED BY <2>1, <2>2
<1>11. \A r \in E!Reports : PushTrue(r)'
  <2>1. \A r \in E!Reports : r \in processed => (SentOut(r)' => SentOut(r))
    BY <1>3, <1>5 DEF SentOut
  <2> QED BY <1>1, <1>6, <2>1, PushesStay
<1>12. \A r \in E!Reports, e \in Emails : <<r, e>> \in delivered' => SentOut(r)'
  <2>1. \A r \in E!Reports : SentOut(r) => SentOut(r)'
    BY <1>6 DEF SentOut
  <2> QED BY <1>1, <2>1 DEF ToldInv
<1>13. ToldInv'
  BY <1>8, <1>9, <1>10, <1>11, <1>12 DEF ToldInv
<1> QED BY <1>4, <1>13

LEMMA RecordTold ==
  ASSUME E!TypeOK, JobInv, ToldInv, NEW l \in E!Loops, NEW done \in SUBSET job[l].to,
         Records(l, done)
  PROVE  JobInv' /\ ToldInv'
<1> DEFINE S == job[l].reports
<1>1. /\ job[l].at = "recording" /\ UNCHANGED <<processed, pushed, told, twice>>
      /\ delivered' = delivered \cup (S \X done)
      /\ botched \subseteq botched' /\ (done = job[l].to \/ S \subseteq botched')
      /\ \A k \in E!Loops \ {l} : job'[k] = job[k]
      /\ job'[l].at = E!Onward(job[l].areas) /\ job'[l].reports = S
      /\ job'[l].via = job[l].via /\ job'[l].areas = job[l].areas
  BY DEF Records, E!schedule, GoesOn
<1>2. \/ job'[l].at = "marking" /\ job[l].areas = {}
      \/ job'[l].at = "areas" /\ job[l].areas # {}
  BY <1>1 DEF E!Onward
<1>3. JobInv'
  BY <1>1, <1>2 DEF JobInv, Mailable
<1>4. job[l].via \notin job[l].areas /\ (job[l].areas # {} => job[l].via # NoArea)
  BY <1>1 DEF JobInv
<1>5. ASSUME NEW r \in E!Reports, NEW e \in Emails, NEW v \in Lists, Settling(r, e, v)
      PROVE  r \in botched' \/ Settling(r, e, v)'
  <2>1. PICK k \in E!Loops : r \in job[k].reports /\ (AboutToRecord(k, e, v) \/ OnRecord(k, r, e, v))
    BY <1>5 DEF Settling
  <2>2. CASE k # l
    BY <1>1, <2>1, <2>2 DEF Settling, AboutToRecord, OnRecord
  <2>3. CASE k = l /\ S \subseteq botched'
    BY <2>1, <2>3
  <2>4. CASE k = l /\ done = job[l].to
    <3>1. /\ <<r, e>> \in delivered' /\ v \notin job[l].areas
          /\ job[l].areas # {} => v # NoArea
      BY <1>1, <1>4, <2>1, <2>4 DEF AboutToRecord, OnRecord
    <3>2. OnRecord(l, r, e, v)'
      BY <1>1, <1>2, <3>1 DEF OnRecord
    <3> QED BY <1>1, <2>1, <2>4, <3>2 DEF Settling
  <2> QED BY <1>1, <2>2, <2>3, <2>4
<1>6. \A r \in E!Reports, e \in Emails : <<r, e>> \in delivered' => SentOut(r)'
  <2> SUFFICES ASSUME NEW r \in E!Reports, NEW e \in Emails, <<r, e>> \in delivered'
               PROVE  SentOut(r)'
    OBVIOUS
  <2>1. CASE <<r, e>> \in delivered
    BY <1>1, <2>1 DEF ToldInv, SentOut
  <2>2. CASE r \in S /\ e \in done
    <3>1. <<r, e, job[l].via>> \in told /\ job[l].via \in Lists
      BY <1>1, <2>2, JobOf DEF ToldInv
    <3> QED BY <1>1, <3>1 DEF SentOut
  <2> QED BY <1>1, <2>1, <2>2
<1>7. \A k \in E!Loops : job'[k].at = "recording" => job'[k] = job[k]
  BY <1>1, <1>2
<1>8. \A r \in E!Reports : PushTrue(r)'
  BY <1>1, PushesStay DEF SentOut
<1>9. OnceInv'
  BY <1>1 DEF ToldInv, OnceInv
<1>10. ASSUME NEW r \in E!Reports, NEW e \in Emails, NEW v \in Lists, <<r, e, v>> \in told'
       PROVE  r \in (processed \cup botched)' \/ Settling(r, e, v)'
  <2>1. r \in processed \cup botched \/ Settling(r, e, v)
    BY <1>1, <1>10 DEF ToldInv
  <2> QED BY <1>1, <1>5, <2>1
<1>11. \A k \in E!Loops : job'[k].at = "recording" =>
         \A r \in job'[k].reports, e \in job'[k].to : <<r, e, job'[k].via>> \in told'
  BY <1>1, <1>7 DEF ToldInv
<1>12. ToldInv'
  BY <1>6, <1>8, <1>9, <1>10, <1>11 DEF ToldInv
<1> QED BY <1>3, <1>12

\* What a loop at marking has told an address of is on record, but for what is botched.
LEMMA MarkTold ==
  ASSUME E!ConstantsAssumption, E!TypeOK, JobInv, ToldInv, NEW l \in E!Loops,
         NEW done \in SUBSET job[l].reports,
         Marks(l, done)
  PROVE  JobInv' /\ ToldInv'
<1> DEFINE S == job[l].reports
<1>1. /\ job[l].at = "marking" /\ UNCHANGED <<told, twice, delivered>>
      /\ processed' = processed \cup done /\ botched' = botched \cup (S \ done)
      /\ \A k \in E!Loops \ {l} : job'[k] = job[k]
      /\ job'[l] = E!Idle
  BY DEF Marks, E!records, Ends
<1>2. \A r \in E!Reports : pushed'[r] = IF r \notin done THEN pushed[r]
                                      ELSE IF \E e \in Emails : <<r, e>> \in delivered THEN "sent"
                                      ELSE "processed_no_delivery"
  BY DEF Marks
<1>3. S \subseteq E!Reports
  BY JobOf
<1>4. JobInv'
  <2>1. \A k \in E!Loops \ {l} : job[k].reports \cap done = {}
    BY OneLoop
  <2>2. E!Idle.reports = {} /\ E!Idle.at = "idle" /\ E!Idle.via \notin E!Idle.areas
    BY DEF E!Idle
  <2> QED BY <1>1, <2>1, <2>2 DEF JobInv, Mailable
<1>5. \A r \in E!Reports : SentOut(r)' <=> SentOut(r)
  BY <1>1 DEF SentOut
<1>6. ASSUME NEW r \in E!Reports, NEW e \in Emails, NEW v \in Lists, <<r, e, v>> \in told'
      PROVE  r \in (processed \cup botched)' \/ Settling(r, e, v)'
  <2>1. CASE r \in S
    BY <1>1, <2>1
  <2>2. CASE r \notin S
    <3>1. r \in processed \cup botched \/ Settling(r, e, v)
      BY <1>1, <1>6 DEF ToldInv
    <3>2. Settling(r, e, v) => Settling(r, e, v)'
      BY <1>1, <2>2 DEF Settling, AboutToRecord, OnRecord
    <3> QED BY <1>1, <3>1, <3>2
  <2> QED BY <2>1, <2>2
<1>7. \A k \in E!Loops : job'[k].at = "recording" => job'[k] = job[k]
  BY <1>1 DEF E!Idle
<1>8. ASSUME NEW r \in E!Reports PROVE PushTrue(r)'
  <2>1. CASE r \notin done
    <3>1. pushed'[r] = pushed[r] /\ PushTrue(r)
      BY <1>2, <2>1 DEF ToldInv
    <3> QED BY <1>1, <1>5, <3>1 DEF PushTrue
  <2>2. CASE r \in done /\ \E e \in Emails : <<r, e>> \in delivered
    <3>1. pushed'[r] = "sent" /\ r \in processed'
      BY <1>1, <1>2, <2>2
    <3>2. SentOut(r)'
      BY <1>5, <2>2 DEF ToldInv
    <3> QED BY <3>1, <3>2 DEF PushTrue
  <2>3. CASE r \in done /\ ~\E e \in Emails : <<r, e>> \in delivered
    <3>1. pushed'[r] = "processed_no_delivery" /\ r \in processed'
      BY <1>1, <1>2, <2>3
    <3>2. ASSUME NEW e \in Emails, NEW v \in Lists, <<r, e, v>> \in told PROVE r \in botched
      <4>1. r \in processed \cup botched \/ Settling(r, e, v)
        BY <3>2 DEF ToldInv
      <4>2. r \notin processed
        BY <2>3 DEF JobInv
      <4>3. ~Settling(r, e, v)
        <5> SUFFICES ASSUME NEW k \in E!Loops, r \in job[k].reports,
                            AboutToRecord(k, e, v) \/ OnRecord(k, r, e, v)
                     PROVE  FALSE
          BY DEF Settling
        <5>1. k = l
          BY <2>3, OneLoop
        <5> QED BY <1>1, <2>3, <5>1 DEF AboutToRecord, OnRecord
      <4> QED BY <4>1, <4>2, <4>3
    <3>3. r \notin botched' => ~SentOut(r)'
      BY <1>1, <3>2 DEF SentOut
    <3> QED BY <3>1, <3>3 DEF PushTrue
  <2> QED BY <2>1, <2>2, <2>3
<1>9. OnceInv'
  BY <1>1 DEF ToldInv, OnceInv
<1>10. \A k \in E!Loops : job'[k].at = "recording" =>
         \A r \in job'[k].reports, e \in job'[k].to : <<r, e, job'[k].via>> \in told'
  BY <1>1, <1>7 DEF ToldInv
<1>11. \A r \in E!Reports, e \in Emails : <<r, e>> \in delivered' => SentOut(r)'
  BY <1>1, <1>5 DEF ToldInv
<1>12. ToldInv'
  BY <1>6, <1>8, <1>9, <1>10, <1>11 DEF ToldInv
<1> QED BY <1>4, <1>12

LEMMA CrashTold ==
  ASSUME JobInv, ToldInv, Dies
  PROVE  JobInv' /\ ToldInv'
<1>1. /\ \A l \in E!Loops : job'[l] = E!Idle
      /\ \A l \in E!Loops : \A r \in job[l].reports : SentOut(r) => r \in botched'
      /\ botched \subseteq botched'
      /\ UNCHANGED <<processed, pushed, delivered, told, twice>>
  BY DEF Dies, E!schedule, E!records
<1>2. E!Idle.reports = {} /\ E!Idle.at = "idle" /\ E!Idle.via \notin E!Idle.areas
  BY DEF E!Idle
<1>3. JobInv'
  BY <1>1, <1>2 DEF JobInv
<1>4. ASSUME NEW r \in E!Reports, NEW e \in Emails, NEW v \in Lists, <<r, e, v>> \in told'
      PROVE  r \in (processed \cup botched)'
  <2>1. SentOut(r)
    BY <1>1, <1>4 DEF SentOut
  <2>2. r \in processed \cup botched \/ Settling(r, e, v)
    BY <1>1, <1>4 DEF ToldInv
  <2> QED BY <1>1, <2>1, <2>2 DEF Settling
<1>5. \A k \in E!Loops : job'[k].at # "recording"
  BY <1>1, <1>2
<1>6. \A r \in E!Reports : PushTrue(r)' /\ (SentOut(r)' <=> SentOut(r))
  BY <1>1, PushesStay DEF SentOut
<1>7. OnceInv'
  BY <1>1 DEF ToldInv, OnceInv
<1>8. ToldInv'
  BY <1>1, <1>4, <1>5, <1>6, <1>7 DEF ToldInv
<1> QED BY <1>3, <1>8

LEMMA ToldStays ==
  ASSUME JobInv, ToldInv,
         UNCHANGED <<processed, pushed, delivered, told, twice, botched, job>>
  PROVE  JobInv' /\ ToldInv'
BY DEF JobInv, ToldInv, OnceInv, PushTrue, SentOut, Settling, AboutToRecord, OnRecord

-----------------------------------------------------------------------------
(* The theorems. *)

MailInv == E!TypeOK /\ QuietInv /\ JobInv /\ ToldInv

LEMMA MailInit ==
  ASSUME E!ConstantsAssumption
  PROVE  E!Init => MailInv
<1> SUFFICES ASSUME E!Init PROVE MailInv
  OBVIOUS
<1>1. E!TypeOK
  BY InitTyped
<1>2. \A l \in E!Loops :
        job[l].at = "idle" /\ job[l].reports = {} /\ job[l].via \notin job[l].areas
  BY DEF E!Init, E!Idle
<1>3. \A l \in E!Loops, e \in Emails : quiet[l][e] = 0 /\ throttle[l][e] = 0
  BY DEF E!Init
<1>4. QuietInv
  BY <1>2, <1>3 DEF QuietInv, E!PesteredOnlyIfSlipped, E!Init
<1>5. JobInv
  BY <1>2 DEF JobInv
<1>6. ToldInv
  BY <1>2 DEF E!Init, ToldInv, OnceInv, PushTrue
<1> QED BY <1>1, <1>4, <1>5, <1>6 DEF MailInv

LEMMA MailNext ==
  ASSUME E!ConstantsAssumption
  PROVE  MailInv /\ [E!Next]_(E!vars) => MailInv'
<1> SUFFICES ASSUME MailInv, [E!Next]_(E!vars) PROVE MailInv'
  OBVIOUS
<1>0. E!TypeOK /\ QuietInv /\ JobInv /\ ToldInv
  BY DEF MailInv
<1>1. CASE UNCHANGED <<quiet, pestered, throttle, slipped, job, processed, pushed, delivered,
                       told, twice, botched>> /\ E!TypeOK'
  BY <1>0, <1>1, EndQuiet, ToldStays DEF MailInv
<1>2. CASE WorldTurns
  BY <1>0, <1>1, <1>2, WorldTyped DEF E!schedule, E!records, E!past
<1>3. CASE E!Day
  BY <1>0, <1>3, PassingDayTyped, DayQuiet, ToldStays DEF MailInv, E!Day
<1>4. ASSUME NEW l \in E!Loops, Begins(l) \/ PutsOff, Schedules PROVE MailInv'
  <2>1. E!TypeOK'
    BY <1>0, <1>4, BeginTyped
  <2>2. CASE Begins(l)
    BY <1>0, <2>1, <2>2, BeginQuiet, BeginTold DEF MailInv
  <2>3. CASE PutsOff
    BY <1>1, <2>1, <2>3 DEF PutsOff, Same, E!records
  <2> QED BY <1>4, <2>2, <2>3
<1>5. CASE E!ProcessBrandNotifications
  BY <1>0, <1>4, <1>5, BrandBegins DEF E!Loops
<1>6. ASSUME NEW r \in Brandless, E!ProcessBrandlessReport(r) PROVE MailInv'
  BY <1>0, <1>4, <1>6, BrandlessBegins DEF E!Loops
<1>12. CASE E!SendEmailsForArea
  BY <1>0, <1>12, AreaEffect, AreaTyped, AreaQuiet, AreaTold DEF MailInv
<1>7. ASSUME NEW l \in E!Loops, E!Send(l) PROVE MailInv'
  BY <1>0, <1>7, SendEffect, MailingTyped, SendQuiet, SendTold DEF MailInv
<1>8. ASSUME NEW l \in E!Loops, E!Record(l) PROVE MailInv'
  BY <1>0, <1>8, RecordEffect, RecordTyped, RecordQuiet, RecordTold DEF MailInv
<1>9. ASSUME NEW l \in E!Loops, E!Mark(l) PROVE MailInv'
  <2>1. PICK done \in SUBSET job[l].reports : Marks(l, done)
    BY <1>0, <1>9, MarkEffect
  <2>2. E!TypeOK'
    BY <1>0, <1>9, MarkTyped
  <2>3. QuietInv'
    BY <1>0, <2>1, EndQuiet DEF Marks, Ends, E!records
  <2> QED BY <1>0, <2>1, <2>2, <2>3, MarkTold DEF MailInv
<1>10. CASE E!Crash
  <2>1. Dies /\ E!TypeOK'
    BY <1>0, <1>10, CrashEffect, KilledTyped
  <2>2. QuietInv'
    BY <1>0, <2>1, EndQuiet DEF Dies, E!records
  <2> QED BY <1>0, <2>1, <2>2, CrashTold DEF MailInv
<1>11. CASE UNCHANGED E!vars
  <2>1. E!TypeOK'
    BY <1>0, <1>11, TypeParts, TypesStay, TypePartsNext DEF E!vars
  <2> QED BY <1>1, <1>11, <2>1 DEF E!vars, E!schedule, E!records, E!past
<1> QED BY <1>2, <1>3, <1>5, <1>6, <1>7, <1>8, <1>9, <1>10, <1>11, <1>12
    DEF E!Next, WorldTurns

\* MailInv is an invariant.
LEMMA MailAlways ==
  ASSUME E!ConstantsAssumption
  PROVE  E!Spec => []MailInv
  BY MailInit, MailNext, PTL DEF E!Spec

\* The tables of the mailings, the two loops at every point of theirs and the histories
\* keep their types, whatever is read, sent or written in part; in particular no backoff
\* and no deferral puts a report off for longer than the configured bounds.
THEOREM MailTyped ==
  ASSUME E!ConstantsAssumption
  PROVE  E!Spec => []E!TypeOK
<1>1. MailInv => E!TypeOK
  BY DEF MailInv
<1> QED BY <1>1, MailAlways, PTL

\* An address is mailed again within the throttle only by a loop one of whose mails to it
\* went unrecorded, or whose check let it through: the throttle is read before a mailing
\* and written after it, and neither the days that pass nor crashes come between them
\* unnoticed.
THEOREM LeavesInPeace ==
  ASSUME E!ConstantsAssumption
  PROVE  E!Spec => []E!PesteredOnlyIfSlipped
<1>1. MailInv => E!PesteredOnlyIfSlipped
  BY DEF MailInv, QuietInv
<1> QED BY <1>1, MailAlways, PTL

\* What is told is a mail of a report to an address, for an area or none.
LEMMA MailOf ==
  ASSUME NEW S, S \subseteq E!Mails, NEW m \in S
  PROVE  /\ m[1] \in E!Reports /\ m[2] \in Emails /\ m[3] \in Lists
         /\ m = <<m[1], m[2], m[3]>>
BY DEF E!Mails, Lists

\* An address is told of a report once as an inferred contact, or once for every area of
\* the report that lists it, unless its mailing failed in part: the areas are mailed one
\* after the other, each of them once, none after an inferred contact, and what is marked
\* is not mailed again.
THEOREM TellsOnce ==
  ASSUME E!ConstantsAssumption
  PROVE  E!Spec => []E!ToldOnceUnlessBotched
<1>1. ASSUME MailInv PROVE E!ToldOnceUnlessBotched
  <2>1. OnceInv /\ told \subseteq E!Mails /\ twice \subseteq E!Mails
    BY <1>1, TypeParts DEF MailInv, ToldInv, PastTyped
  <2>2. ASSUME NEW m \in twice PROVE m[1] \in botched
    <3>1. /\ m[1] \in E!Reports /\ m[2] \in Emails /\ m[3] \in Lists
          /\ <<m[1], m[2], m[3]>> \in twice
      BY <2>1, <2>2, MailOf
    <3> QED BY <2>1, <3>1 DEF OnceInv
  <2>3. ASSUME NEW m \in told, NEW n \in told, m[1] = n[1], m[2] = n[2],
               m[3] = NoArea, n[3] # NoArea
        PROVE  m[1] \in botched
    <3>1. /\ m[1] \in E!Reports /\ m[2] \in Emails /\ <<m[1], m[2], NoArea>> \in told
          /\ n[3] \in Areas /\ <<m[1], m[2], n[3]>> \in told
      BY <2>1, <2>3, MailOf DEF Lists
    <3> QED BY <2>1, <3>1 DEF OnceInv
  <2> QED BY <2>2, <2>3 DEF E!ToldOnceUnlessBotched
<1> QED BY <1>1, MailAlways, PTL

\* What the reporter's devices are told of a report, from the table of deliveries, is
\* what happened: "sent" only if a mail of it went out, and "processed_no_delivery" only
\* if none did, unless its mailing failed in part.
THEOREM TellsReporterTruly ==
  ASSUME E!ConstantsAssumption
  PROVE  E!Spec => []E!PushHonest
<1>1. ASSUME MailInv PROVE E!PushHonest
  <2>1. told \subseteq E!Mails /\ \A r \in E!Reports : PushTrue(r)
    BY <1>1, TypeParts DEF MailInv, ToldInv, PastTyped
  <2>2. \A r \in E!Reports : SentOut(r) <=> \E m \in told : m[1] = r
    <3> SUFFICES ASSUME NEW r \in E!Reports PROVE SentOut(r) <=> \E m \in told : m[1] = r
      OBVIOUS
    <3>1. ASSUME NEW m \in told, m[1] = r PROVE SentOut(r)
      BY <2>1, <3>1, MailOf DEF SentOut
    <3>2. ASSUME SentOut(r) PROVE \E m \in told : m[1] = r
      BY <3>2 DEF SentOut
    <3> QED BY <3>1, <3>2
  <2> QED BY <2>1, <2>2 DEF PushTrue, E!PushHonest
<1> QED BY <1>1, MailAlways, PTL
=============================================================================
