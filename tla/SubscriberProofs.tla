-------------------------- MODULE SubscriberProofs --------------------------
(***************************************************************************)
(* Proofs about Subscriber, for any number of messages, copies, workers,   *)
(* retries and failures, and for every topology of the queue: that its     *)
(* state is well typed, that it loses no message, settles every delivery   *)
(* exactly once and bounds its retries, and that it implements             *)
(* AtLeastOnce.                                                            *)
(***************************************************************************)
EXTENDS Subscriber, TLAPS

-----------------------------------------------------------------------------
(* Typing. *)

\* A copy that is still to be delivered, or that is being processed.
Owed(c) == place[c] \in {"ready", "unacked", "retry"}

\* TypeOK is not inductive alone: a delivery takes its message from the copy
\* it delivers, and a retry from the delivery the worker holds.
Typed ==
  /\ TypeOK
  /\ \A c \in Copies : Owed(c) => body[c] \in Messages
  /\ \A w \in Workers : wstate[w] # "idle" => cur[w] \in Delivery

LEMMA TypedInit == Init => Typed
<1> SUFFICES ASSUME Init PROVE Typed
  OBVIOUS
<1>1. jobs \in Seq(Delivery)
  BY DEF Init
<1>2. QED
  BY <1>1 DEF Init, Typed, TypeOK, Owed

\* Storing a message in a copy keeps the broker's state well typed.
LEMMA StoreTyped ==
  ASSUME Typed, NEW c \in Copies, NEW m \in Messages, NEW n \in Nat,
         NEW p \in {"ready", "retry"}, Store(c, m, n, p)
  PROVE  /\ place' \in [Copies -> {"free", "ready", "unacked", "retry", "dlq"}]
         /\ body' \in [Copies -> Messages \cup {None}]
         /\ attempts' \in [Copies -> Nat]
         /\ \A d \in Copies : Owed(d)' => body'[d] \in Messages
  BY DEF Typed, TypeOK, Owed, Store

LEMMA ForgetTyped ==
  ASSUME Typed, NEW c \in Copies, Forget(c)
  PROVE  /\ place' \in [Copies -> {"free", "ready", "unacked", "retry", "dlq"}]
         /\ body' \in [Copies -> Messages \cup {None}]
         /\ attempts' \in [Copies -> Nat]
         /\ \A d \in Copies : Owed(d)' => body'[d] \in Messages
  BY DEF Typed, TypeOK, Owed, Store, Forget

LEMMA DieTyped == Typed /\ Die /\ faults' \in Nat => Typed'
<1> SUFFICES ASSUME Typed, Die, faults' \in Nat PROVE Typed'
  OBVIOUS
<1>1. jobs' \in Seq(Delivery)
  BY DEF Die
<1>2. /\ place' \in [Copies -> {"free", "ready", "unacked", "retry", "dlq"}]
      /\ \A c \in Copies : Owed(c)' => body'[c] \in Messages
  BY DEF Typed, TypeOK, Owed, Die, Requeued
<1>3. cur' \in [Workers -> Delivery \cup {None}]
  BY DEF Die
<1>4. QED
  BY <1>1, <1>2, <1>3 DEF Typed, TypeOK, Die, history

LEMMA FinishTyped ==
  ASSUME Typed, NEW w \in Workers, Finish(w)
  PROVE  /\ wstate' \in [Workers -> {"idle", "running", "succeeded", "failed",
                                     "refused", "published"}]
         /\ cur' \in [Workers -> Delivery \cup {None}]
         /\ \A v \in Workers : wstate'[v] # "idle" => cur'[v] \in Delivery
  BY DEF Typed, TypeOK, Finish

LEMMA LoopTyped == Typed /\ Loop => Typed'
<1> SUFFICES ASSUME Typed, Loop PROVE Typed'
  OBVIOUS
<1> USE DEF Typed, TypeOK, Owed, broker, link, pool, history
<1>1. CASE LoopCheckDone BY <1>1 DEF LoopCheckDone
<1>2. CASE LoopLock BY <1>2 DEF LoopLock
<1>3. CASE LoopReconnect BY <1>3 DEF LoopReconnect
<1>4. CASE LoopQos BY <1>4 DEF LoopQos
<1>5. CASE LoopBind BY <1>5 DEF LoopBind
<1>6. CASE LoopUnlockUnheld BY <1>6, DieTyped DEF LoopUnlockUnheld
<1>7. CASE LoopConsume BY <1>7 DEF LoopConsume
<1>8. CASE LoopLeave BY <1>8 DEF LoopLeave
<1>9. ASSUME NEW c \in Copies, LoopDeliver(c) PROVE Typed'
  <2> DEFINE d == [copy |-> c, tag |-> epoch, msg |-> body[c], tries |-> attempts[c]]
  <2>1. d \in Delivery
    BY <1>9 DEF LoopDeliver, Delivery
  <2>2. jobs' \in Seq(Delivery)
    BY <1>9, <2>1 DEF LoopDeliver
  <2>3. QED
    BY <1>9, <2>2 DEF LoopDeliver
<1>10. QED
  BY <1>1, <1>2, <1>3, <1>4, <1>5, <1>6, <1>7, <1>8, <1>9 DEF Loop

LEMMA WorkerTyped == ASSUME Typed, NEW w \in Workers, Worker(w) PROVE Typed'
<1> USE DEF broker, link, pool, history
<1>1. CASE WorkerTake(w)
  <2>1. Head(jobs) \in Delivery /\ jobs' \in Seq(Delivery)
    BY <1>1 DEF WorkerTake, Typed, TypeOK
  <2>2. QED
    BY <1>1, <2>1 DEF WorkerTake, Typed, TypeOK, Owed
<1>2. CASE WorkerCallback(w)
  BY <1>2 DEF WorkerCallback, Typed, TypeOK, Owed, Delivery
<1>3. CASE WorkerAck(w)
  <2>1. cur[w] \in Delivery
    BY <1>3 DEF WorkerAck, Typed, TypeOK
  <2>2. CASE OnOpenChannel(w)
    <3>1. Forget(cur[w].copy) /\ cur[w].copy \in Copies
      BY <1>3, <2>1, <2>2 DEF WorkerAck, Ack, Delivery
    <3>2. QED
      BY <1>3, <3>1, ForgetTyped, FinishTyped DEF WorkerAck, Typed, TypeOK
  <2>3. CASE ~OnOpenChannel(w)
    BY <1>3, <2>3, FinishTyped DEF WorkerAck, Ack, Typed, TypeOK, Owed
  <2>4. QED
    BY <2>2, <2>3
<1>4. CASE WorkerReject(w)
  <2>1. cur[w] \in Delivery
    BY <1>4 DEF WorkerReject, Typed, TypeOK
  <2>2. cur[w].copy \in Copies /\ cur[w].msg \in Messages
    BY <2>1 DEF Delivery
  <2>3. CASE ~OnOpenChannel(w)
    BY <1>4, <2>3, FinishTyped DEF WorkerReject, Typed, TypeOK, Owed
  <2>4. CASE OnOpenChannel(w) /\ HasDLQ
    BY <1>4, <2>2, <2>4, FinishTyped, ZenonT(40) DEF WorkerReject, Typed, TypeOK, Owed
  <2>5. CASE OnOpenChannel(w) /\ ~HasDLQ
    BY <1>4, <2>2, <2>5, FinishTyped, ForgetTyped DEF WorkerReject, Typed, TypeOK
  <2>6. QED
    BY <2>3, <2>4, <2>5
<1>5. CASE WorkerRetryPublish(w)
  <2>1. cur[w] \in Delivery
    BY <1>5 DEF WorkerRetryPublish, Retryable, Typed, TypeOK
  <2>2. cur[w].msg \in Messages /\ NextTries(cur[w].tries) \in Nat
    BY <2>1 DEF Delivery, NextTries
  <2>3. wstate' \in [Workers -> {"idle", "running", "succeeded", "failed",
                                 "refused", "published"}]
        /\ \A v \in Workers : wstate'[v] # "idle" => cur'[v] \in Delivery
    BY <1>5, <2>1 DEF WorkerRetryPublish, Typed, TypeOK
  <2>4. CASE HasRetryExchange
    BY <1>5, <2>2, <2>3, <2>4, StoreTyped DEF WorkerRetryPublish, Typed, TypeOK
  <2>5. CASE ~HasRetryExchange
    BY <1>5, <2>3, <2>5
    DEF WorkerRetryPublish, DropChannel, Closed, Requeued, Typed, TypeOK, Owed
  <2>6. QED
    BY <2>4, <2>5
<1>6. CASE WorkerRetryAck(w)
  <2>1. cur[w] \in Delivery
    BY <1>6 DEF WorkerRetryAck, Typed, TypeOK
  <2>2. CASE OnOpenChannel(w)
    <3>1. Forget(cur[w].copy) /\ cur[w].copy \in Copies
      BY <1>6, <2>1, <2>2 DEF WorkerRetryAck, Ack, Delivery
    <3>2. QED
      BY <1>6, <3>1, ForgetTyped, FinishTyped, ZenonT(40) DEF WorkerRetryAck, Typed, TypeOK
  <2>3. CASE ~OnOpenChannel(w)
    BY <1>6, <2>3, FinishTyped DEF WorkerRetryAck, Ack, Typed, TypeOK, Owed
  <2>4. QED
    BY <2>2, <2>3
<1>7. CASE WorkerRetryFail(w)
  BY <1>7, FinishTyped DEF WorkerRetryFail, Typed, TypeOK, Owed
<1>8. CASE WorkerRetryPanic(w)
  BY <1>8, DieTyped DEF WorkerRetryPanic, Typed, TypeOK
<1>9. QED
  BY <1>1, <1>2, <1>3, <1>4, <1>5, <1>6, <1>7, <1>8 DEF Worker

LEMMA CloseTyped == Typed /\ Close => Typed'
<1> SUFFICES ASSUME Typed, Close PROVE Typed'
  OBVIOUS
<1> USE DEF Typed, TypeOK, Owed, broker, link, pool, history
<1>1. CASE CloseDone BY <1>1 DEF CloseDone
<1>2. CASE CloseChannel BY <1>2 DEF CloseChannel, Requeued
<1>3. QED BY <1>1, <1>2 DEF Close

LEMMA EnvironmentTyped == Typed /\ Environment => Typed'
<1> SUFFICES ASSUME Typed, Environment PROVE Typed'
  OBVIOUS
<1> USE DEF link, pool, history
<1>1. ASSUME NEW m \in Messages, Publish(m) PROVE Typed'
  <2>1. PICK c \in Copies : Store(c, m, 0, "ready")
    BY <1>1 DEF Publish
  <2>2. QED
    BY <1>1, <2>1, StoreTyped DEF Publish, Typed, TypeOK
<1>2. ASSUME NEW c \in Copies, Expire(c) PROVE Typed'
  BY <1>2 DEF Expire, Typed, TypeOK, Owed
<1>3. CASE LoseConnection
  BY <1>3 DEF LoseConnection, DropChannel, Closed, Requeued, Typed, TypeOK, Owed
<1>4. CASE BrokerStop
  <2>1. {conn', chan'} \subseteq {"nil", "open", "closed"} /\ epoch' \in Nat
    BY <1>4 DEF BrokerStop, DropChannel, Closed, Typed, TypeOK
  <2>2. /\ place' \in [Copies -> {"free", "ready", "unacked", "retry", "dlq"}]
        /\ \A d \in Copies : Owed(d)' => body'[d] \in Messages
    BY <1>4 DEF BrokerStop, DropChannel, Requeued, Typed, TypeOK, Owed
  <2>3. up' \in BOOLEAN
    BY <1>4, Zenon DEF BrokerStop
  <2>4. faults' \in Nat
    BY <1>4 DEF BrokerStop, Typed, TypeOK
  <2>5. UNCHANGED <<body, attempts, pc, locked, pool, shutdown, history>>
    BY <1>4 DEF BrokerStop
  <2>6. QED
    BY <2>1, <2>2, <2>3, <2>4, <2>5 DEF Typed, TypeOK
<1>5. CASE BrokerStart
  BY <1>5 DEF BrokerStart, Typed, TypeOK, Owed
<1>6. CASE KillProcess
  BY <1>6, DieTyped DEF KillProcess, Typed, TypeOK
<1>7. CASE Restart
  BY <1>7 DEF Restart, broker, Typed, TypeOK, Owed
<1>8. QED
  BY <1>1, <1>2, <1>3, <1>4, <1>5, <1>6, <1>7 DEF Environment

LEMMA TypedStep == Typed /\ [Next]_vars => Typed'
<1> SUFFICES ASSUME Typed, [Next]_vars PROVE Typed'
  OBVIOUS
<1>1. CASE Next
  BY <1>1, LoopTyped, WorkerTyped, CloseTyped, EnvironmentTyped DEF Next
<1>2. CASE UNCHANGED vars
  BY <1>2 DEF vars, broker, link, pool, history, Typed, TypeOK, Owed
<1>3. QED
  BY <1>1, <1>2

\* Every variable keeps its type: the copies, the deliveries buffered and held,
\* the control points of the consume loop, the pool and Close.
THEOREM TypeCorrect == Spec => []TypeOK
<1>1. Typed => TypeOK
  BY DEF Typed
<1>2. QED
  BY TypedInit, TypedStep, <1>1, PTL DEF Spec

-----------------------------------------------------------------------------
(* Safety: no message is lost, no delivery settled twice, no retry unbounded. *)

\* A delivery that can still be acked.
OnChannel(d) == chan = "open" /\ d.tag = epoch

Busy(w) == wstate[w] # "idle"

\* A delivery refers to a channel there has been, and if that channel is still
\* open, to a copy as the broker holds it.
Fits(d) ==
  /\ d.tag <= epoch
  /\ chan # "open" => d.tag < epoch
  /\ d.tries <= MaxRetries
  /\ OnChannel(d) =>
       place[d.copy] = "unacked" /\ body[d.copy] = d.msg /\ attempts[d.copy] = d.tries

Apart(d, e) == OnChannel(d) /\ OnChannel(e) => d.copy # e.copy

Slots == 1..Len(jobs)

\* The consume loop opens a channel only when there is none, so that what is
\* held from the old one stays stale.
LinkInv ==
  /\ conn # "open" => chan # "open"
  /\ pc = "connect" => chan # "open"
  /\ pc = "dead" => jobs = <<>> /\ \A w \in Workers : wstate[w] = "idle"

HeldInv ==
  /\ \A i \in Slots : Fits(jobs[i])
  /\ \A w \in Workers : Busy(w) => Fits(cur[w])
  /\ \A i, j \in Slots : i # j => Apart(jobs[i], jobs[j])
  /\ \A i \in Slots, w \in Workers : Busy(w) => Apart(jobs[i], cur[w])
  /\ \A v, w \in Workers : v # w /\ Busy(v) /\ Busy(w) => Apart(cur[v], cur[w])

\* Every unacked copy has its delivery.
UnackedInv ==
  \A c \in Copies :
    place[c] = "unacked" =>
      \/ \E i \in Slots : OnChannel(jobs[i]) /\ jobs[i].copy = c
      \/ \E w \in Workers : Busy(w) /\ OnChannel(cur[w]) /\ cur[w].copy = c

BoundInv == \A c \in Copies : attempts[c] <= MaxRetries

\* A message that is no longer owed.
Done(m) == m \in handled \/ (m \in dropped /\ ~HasDLQ)

\* The message is done with, or the broker holds a copy of a later attempt.
Superseded(d) ==
  \/ Done(d.msg)
  \/ \E c \in Copies : Live(c) /\ body[c] = d.msg /\ attempts[c] > d.tries

\* NothingLost is not inductive alone: a worker acks only what it has handled,
\* and, once it has published a retry, only what a later attempt supersedes.
\* Attempts must grow, or two deliveries of a message could each rely on the
\* other's copy.
KeptInv ==
  /\ NothingLost
  /\ \A w \in Workers : wstate[w] = "succeeded" => cur[w].msg \in handled
  /\ \A w \in Workers :
       wstate[w] = "published" /\ OnChannel(cur[w]) => Superseded(cur[w])

Inv == LinkInv /\ HeldInv /\ UnackedInv /\ BoundInv /\ KeptInv
-----------------------------------------------------------------------------
(* What steps have in common. *)

LEMMA InitInv == Init => Inv
<1> SUFFICES ASSUME Init PROVE Inv
  OBVIOUS
<1>1. Len(jobs) = 0
  BY DEF Init
<1>2. LinkInv /\ UnackedInv
  BY DEF Init, LinkInv, UnackedInv
<1>3. HeldInv
  BY <1>1 DEF Init, HeldInv, Slots, Busy
<1>4. BoundInv
  BY ConstantsAssumption DEF Init, BoundInv
<1>5. KeptInv
  BY DEF Init, KeptInv, NothingLost
<1>6. QED
  BY <1>2, <1>3, <1>4, <1>5 DEF Inv

\* Steps that touch neither copies, channel nor deliveries.
LEMMA QuietStep ==
  ASSUME Inv,
         UNCHANGED <<place, body, attempts, link, pool, history>>,
         pc' = "connect" => chan # "open",
         pc' = "dead" => pc = "dead"
  PROVE  Inv'
<1>1. LinkInv'
  BY DEF Inv, LinkInv, link, pool
<1>2. HeldInv'
  BY DEF Inv, HeldInv, Slots, Busy, Fits, Apart, OnChannel, link, pool
<1>3. UnackedInv'
  BY DEF Inv, UnackedInv, Slots, Busy, OnChannel, link, pool
<1>4. BoundInv'
  BY DEF Inv, BoundInv
<1>5. KeptInv'
  BY DEF Inv, KeptInv, NothingLost, Superseded, Done, Live, OnChannel, link, pool, history
<1>6. QED
  BY <1>1, <1>2, <1>3, <1>4, <1>5 DEF Inv

\* When its channel closes, every delivery held goes stale and every unacked copy
\* goes back to the queue.
LEMMA ChannelGone ==
  ASSUME Typed, Inv, LinkInv',
         chan' # "open", epoch' = epoch + 1, place' = Requeued,
         UNCHANGED <<body, attempts, jobs, cur, history>>,
         \A w \in Workers : (Busy(w)' => Busy(w))
                            /\ (wstate'[w] = "succeeded" => wstate[w] = "succeeded")
  PROVE  Inv'
<1>1. \A d \in Delivery : Fits(d) => Fits(d)'
  BY DEF Fits, OnChannel, Typed, TypeOK, Delivery
<1>2. \A i \in Slots : jobs[i] \in Delivery
  BY DEF Typed, TypeOK, Slots
<1>3. \A w \in Workers : Busy(w) => cur[w] \in Delivery
  BY DEF Typed, Busy
<1>4. HeldInv'
  <2>1. \A i \in Slots' : Fits(jobs[i])'
    BY <1>1, <1>2 DEF Inv, HeldInv, Slots, Fits, OnChannel
  <2>2. \A w \in Workers : Busy(w)' => Fits(cur[w])'
    BY <1>1, <1>3 DEF Inv, HeldInv, Fits, OnChannel
  <2>3. QED
    BY <2>1, <2>2 DEF HeldInv, Apart, OnChannel
<1>5. UnackedInv'
  BY DEF UnackedInv, Requeued, Typed, TypeOK
<1>6. BoundInv'
  BY DEF Inv, BoundInv
<1>7. KeptInv'
  <2>1. \A c \in Copies : Live(c)' <=> Live(c)
    BY DEF Live, Requeued, Typed, TypeOK
  <2>2. NothingLost'
    BY <2>1 DEF Inv, KeptInv, NothingLost, history
  <2>3. QED
    BY <2>2 DEF Inv, KeptInv, OnChannel, history
<1>8. QED
  BY <1>4, <1>5, <1>6, <1>7 DEF Inv

\* The process dies holding deliveries: all their copies go back to the queue.
LEMMA ProcessDies == Typed /\ Inv /\ Die => Inv'
<1> SUFFICES ASSUME Typed, Inv, Die PROVE Inv'
  OBVIOUS
<1>1. jobs' = <<>> /\ \A w \in Workers : wstate'[w] = "idle"
  BY DEF Die
<1>2. LinkInv'
  BY <1>1 DEF Die, LinkInv
<1>3. HeldInv'
  BY <1>1 DEF HeldInv, Slots, Busy
<1>4. UnackedInv'
  BY DEF Die, UnackedInv, Requeued, Typed, TypeOK
<1>5. BoundInv'
  BY DEF Die, Inv, BoundInv
<1>6. \A c \in Copies : Live(c)' <=> Live(c)
  BY DEF Die, Live, Requeued, Typed, TypeOK
<1>7. KeptInv'
  BY <1>1, <1>6 DEF Die, Inv, KeptInv, NothingLost, history
<1>8. QED
  BY <1>2, <1>3, <1>4, <1>5, <1>7 DEF Inv

-----------------------------------------------------------------------------
(* A worker settles the delivery it holds. *)

\* The broker holds a copy of the same attempt of the same message as before.
Survives(c) ==
  Live(c) => Live(c)' /\ body'[c] = body[c] /\ attempts'[c] = attempts[c]

Unchanged(c) ==
  place'[c] = place[c] /\ body'[c] = body[c] /\ attempts'[c] = attempts[c]

\* The copy of the delivery a worker settles.
Settled(w, c) == OnChannel(cur[w]) /\ c = cur[w].copy

LEMMA SettlingHeld ==
  ASSUME Typed, Inv, NEW w \in Workers, Busy(w), Finish(w),
         UNCHANGED <<chan, epoch, jobs>>,
         \A c \in Copies :
           IF Settled(w, c) THEN place'[c] # "unacked" ELSE Unchanged(c)
  PROVE  HeldInv' /\ UnackedInv'
<1> DEFINE Other(d) == d \in Delivery /\ Fits(d) /\ Apart(d, cur[w])
<1>1. \A d : Other(d) => Fits(d)'
  <2> SUFFICES ASSUME NEW d, Other(d) PROVE Fits(d)'
    OBVIOUS
  <2>1. d.copy \in Copies
    BY DEF Delivery
  <2>2. CASE OnChannel(d)
    BY <2>1, <2>2 DEF Fits, Apart, OnChannel, Settled, Unchanged
  <2>3. CASE ~OnChannel(d)
    BY <2>3 DEF Fits, OnChannel
  <2>4. QED
    BY <2>2, <2>3
<1>2. \A i \in Slots : Other(jobs[i])
  <2>1. \A i \in Slots : jobs[i] \in Delivery
    BY DEF Typed, TypeOK, Slots
  <2>2. QED
    BY <2>1 DEF Inv, HeldInv
<1>3. \A v \in Workers : Busy(v)' => Busy(v) /\ v # w /\ cur'[v] = cur[v]
  BY DEF Finish, Busy, Typed, TypeOK
<1>4. \A v \in Workers : Busy(v)' => Other(cur[v])
  BY <1>3 DEF Inv, HeldInv, Busy, Typed
<1>5. HeldInv'
  <2>1. Slots' = Slots
    BY DEF Slots
  <2>2. \A d, e : Apart(d, e)' <=> Apart(d, e)
    BY DEF Apart, OnChannel
  <2>3. \A i \in Slots : Fits(jobs[i])'
    BY <1>1, <1>2 DEF Fits, OnChannel
  <2>4. \A v \in Workers : Busy(v)' => Fits(cur[v])'
    BY <1>1, <1>3, <1>4 DEF Fits, OnChannel
  <2>5. \A i, j \in Slots : i # j => Apart(jobs[i], jobs[j])'
    BY DEF Inv, HeldInv, Apart, OnChannel
  <2>6. \A i \in Slots, v \in Workers : Busy(v)' => Apart(jobs[i], cur[v])'
    BY <1>3 DEF Inv, HeldInv, Apart, OnChannel
  <2>7. \A u, v \in Workers : u # v /\ Busy(u)' /\ Busy(v)' => Apart(cur[u], cur[v])'
    BY <1>3 DEF Inv, HeldInv, Apart, OnChannel
  <2>8. QED
    BY <2>1, <2>3, <2>4, <2>5, <2>6, <2>7 DEF HeldInv
<1>6. UnackedInv'
  <2> SUFFICES ASSUME NEW c \in Copies, place'[c] = "unacked"
               PROVE  \/ \E i \in Slots' : OnChannel(jobs[i])' /\ jobs'[i].copy = c
                      \/ \E v \in Workers : Busy(v)' /\ OnChannel(cur[v])' /\ cur'[v].copy = c
    BY DEF UnackedInv
  <2>1. ~Settled(w, c) /\ place[c] = "unacked"
    BY DEF Unchanged
  <2>2. CASE \E i \in Slots : OnChannel(jobs[i]) /\ jobs[i].copy = c
    BY <2>2 DEF Slots, OnChannel
  <2>3. ASSUME NEW v \in Workers, Busy(v), OnChannel(cur[v]), cur[v].copy = c
        PROVE  Busy(v)' /\ OnChannel(cur[v])' /\ cur'[v].copy = c
    <3>1. v # w
      BY <2>1, <2>3 DEF Settled
    <3>2. QED
      BY <2>3, <3>1 DEF Finish, Busy, OnChannel, Typed, TypeOK
  <2>4. QED
    BY <2>1, <2>2, <2>3 DEF Inv, UnackedInv
<1>7. QED
  BY <1>5, <1>6

\* The message is done with after the step.
DoneNow(m) == m \in handled' \/ (m \in dropped' /\ ~HasDLQ)

\* Settling a delivery loses nothing if its message is done with, or superseded,
\* or its copy stays with the broker.
LEMMA SettlingKept ==
  ASSUME Typed, Inv, NEW w \in Workers, Busy(w), Finish(w),
         UNCHANGED <<chan, epoch, sent>>,
         attempts' \in [Copies -> Nat],
         handled \subseteq handled', dropped \subseteq dropped',
         \A c \in Copies :
           \/ Survives(c)
           \/ Settled(w, c) /\ (DoneNow(cur[w].msg) \/ Superseded(cur[w]))
  PROVE  KeptInv'
<1>1. \A m : Done(m) => DoneNow(m)
  BY DEF Done, DoneNow
<1>2. Busy(w) /\ cur[w] \in Delivery /\ Fits(cur[w])
  BY DEF Inv, HeldInv, Busy, Typed
<1>3. ASSUME NEW c \in Copies, Live(c), ~Survives(c)
      PROVE  /\ body[c] = cur[w].msg /\ attempts[c] = cur[w].tries
             /\ \/ DoneNow(cur[w].msg)
                \/ \E e \in Copies : /\ Live(e)' /\ body'[e] = cur[w].msg
                                    /\ attempts'[e] > cur[w].tries
  <2>1. /\ body[c] = cur[w].msg /\ attempts[c] = cur[w].tries
        /\ DoneNow(cur[w].msg) \/ Superseded(cur[w])
    BY <1>2, <1>3 DEF Settled, Fits
  <2>2. CASE Superseded(cur[w])
    <3>1. CASE Done(cur[w].msg)
      BY <2>1, <3>1, <1>1
    <3>2. ASSUME NEW e \in Copies, Live(e), body[e] = cur[w].msg,
                 attempts[e] > cur[w].tries
          PROVE  Live(e)' /\ body'[e] = cur[w].msg /\ attempts'[e] > cur[w].tries
      <4>1. e # c
        BY <2>1, <3>2, <1>2 DEF Typed, TypeOK, Delivery
      <4>2. ~Settled(w, e)
        BY <1>3, <4>1 DEF Settled
      <4>3. QED
        BY <3>2, <4>2 DEF Survives
    <3>3. QED
      BY <2>1, <2>2, <3>1, <3>2 DEF Superseded
  <2>3. QED
    BY <2>1, <2>2
<1>4. NothingLost'
  <2> SUFFICES ASSUME NEW m \in sent
               PROVE  DoneNow(m) \/ \E c \in Copies : Live(c)' /\ body'[c] = m
    BY DEF NothingLost, DoneNow
  <2>1. Done(m) \/ \E c \in Copies : Live(c) /\ body[c] = m
    BY DEF Inv, KeptInv, NothingLost, Done
  <2>2. ASSUME NEW c \in Copies, Live(c), body[c] = m
        PROVE  DoneNow(m) \/ \E e \in Copies : Live(e)' /\ body'[e] = m
    <3>1. CASE Survives(c)
      BY <2>2, <3>1 DEF Survives
    <3>2. CASE ~Survives(c)
      BY <1>3, <2>2, <3>2
    <3>3. QED
      BY <3>1, <3>2
  <2>3. QED
    BY <1>1, <2>1, <2>2
<1>5. \A v \in Workers : wstate'[v] # "idle" => v # w /\ cur'[v] = cur[v] /\ wstate'[v] = wstate[v]
  BY DEF Finish, Typed, TypeOK
<1>6. \A v \in Workers : wstate'[v] = "succeeded" => cur'[v].msg \in handled'
  BY <1>5 DEF Inv, KeptInv
<1>7. ASSUME NEW v \in Workers, wstate'[v] = "published", OnChannel(cur[v])'
      PROVE  Superseded(cur[v])'
  <2>1. /\ cur'[v] = cur[v] /\ wstate[v] = "published" /\ OnChannel(cur[v])
        /\ cur[v] \in Delivery
    BY <1>5, <1>7 DEF OnChannel, Typed
  <2>2. Superseded(cur[v])
    BY <2>1 DEF Inv, KeptInv
  <2>3. CASE Done(cur[v].msg)
    BY <1>1, <2>1, <2>3 DEF Superseded, Done, DoneNow
  <2>4. ASSUME NEW c \in Copies, Live(c), body[c] = cur[v].msg, attempts[c] > cur[v].tries
        PROVE  Superseded(cur[v])'
    <3>1. CASE Survives(c)
      BY <2>1, <2>4, <3>1 DEF Survives, Superseded
    <3>2. CASE ~Survives(c)
      <4>1. cur[w].tries > cur[v].tries /\ cur[w].msg = cur[v].msg
        BY <1>3, <2>4, <3>2
      <4>2. CASE DoneNow(cur[w].msg)
        BY <2>1, <4>1, <4>2 DEF Superseded, Done, DoneNow
      <4>3. ASSUME NEW e \in Copies, Live(e)', body'[e] = cur[w].msg,
                   attempts'[e] > cur[w].tries
            PROVE  Superseded(cur[v])'
        <5>1. attempts'[e] > cur[v].tries
          BY <1>2, <2>1, <4>1, <4>3 DEF Delivery
        <5>2. QED
          BY <2>1, <4>1, <4>3, <5>1 DEF Superseded
      <4>4. QED
        BY <1>3, <2>4, <3>2, <4>2, <4>3
    <3>3. QED
      BY <3>1, <3>2
  <2>5. QED
    BY <2>2, <2>3, <2>4 DEF Superseded
<1>8. QED
  BY <1>4, <1>6, <1>7 DEF KeptInv

\* Acking a delivery that is done with, or superseded.
LEMMA AckKeeps ==
  ASSUME Typed, Typed', Inv, NEW w \in Workers, Busy(w), Ack(w), Finish(w),
         UNCHANGED <<link, jobs, sent>>,
         handled \subseteq handled', dropped \subseteq dropped',
         OnChannel(cur[w]) => DoneNow(cur[w].msg) \/ Superseded(cur[w])
  PROVE  HeldInv' /\ UnackedInv' /\ BoundInv' /\ KeptInv'
<1>1. cur[w] \in Delivery
  BY DEF Typed, Busy
<1>2. \A c \in Copies :
        IF Settled(w, c) THEN place'[c] # "unacked" /\ attempts'[c] = 0
        ELSE Unchanged(c)
  BY <1>1 DEF Ack, OnOpenChannel, OnChannel, Forget, Store, Settled, Unchanged,
              Typed, TypeOK, Delivery
<1>3. HeldInv' /\ UnackedInv'
  BY <1>2, SettlingHeld DEF link
<1>4. \A c \in Copies : Survives(c) \/ Settled(w, c)
  BY <1>2 DEF Survives, Unchanged, Live
<1>5. KeptInv'
  <2>1. attempts' \in [Copies -> Nat]
    BY DEF Typed, TypeOK
  <2>2. UNCHANGED <<chan, epoch, sent>>
    BY DEF link
  <2>3. \A c \in Copies :
          \/ Survives(c)
          \/ Settled(w, c) /\ (DoneNow(cur[w].msg) \/ Superseded(cur[w]))
    BY <1>4 DEF Settled
  <2>4. QED
    BY <2>1, <2>2, <2>3, SettlingKept
<1>6. BoundInv'
  BY <1>2, ConstantsAssumption DEF Inv, BoundInv, Unchanged
<1>7. QED
  BY <1>3, <1>5, <1>6

-----------------------------------------------------------------------------
(* The broker takes another copy. *)

\* A free copy is nobody's: storing a message in it disturbs no delivery.
LEMMA StoreKeeps ==
  ASSUME Typed, Inv, NEW c \in Copies, ~Live(c), NEW m \in Messages,
         NEW n \in Nat, n <= MaxRetries, NEW p \in {"ready", "retry"},
         Store(c, m, n, p), UNCHANGED <<chan, epoch, jobs, cur>>,
         \A w \in Workers : Busy(w)' <=> Busy(w)
  PROVE  /\ HeldInv' /\ UnackedInv' /\ BoundInv'
         /\ \A d \in Copies : Survives(d)
         /\ Live(c)' /\ body'[c] = m /\ attempts'[c] = n
<1>1. /\ place[c] = "free" /\ place'[c] = p /\ body'[c] = m /\ attempts'[c] = n
      /\ \A d \in Copies \ {c} : Unchanged(d)
  BY DEF Live, Store, Unchanged, Typed, TypeOK
<1>2. \A d \in Delivery : Fits(d) => Fits(d)'
  <2> SUFFICES ASSUME NEW d \in Delivery, Fits(d) PROVE Fits(d)'
    OBVIOUS
  <2>1. CASE OnChannel(d)
    BY <1>1, <2>1 DEF Fits, OnChannel, Delivery, Unchanged
  <2>2. CASE ~OnChannel(d)
    BY <2>2 DEF Fits, OnChannel
  <2>3. QED
    BY <2>1, <2>2
<1>3. HeldInv'
  <2>1. \A i \in Slots : jobs[i] \in Delivery
    BY DEF Typed, TypeOK, Slots
  <2>2. \A i \in Slots' : Fits(jobs[i])'
    BY <1>2, <2>1 DEF Inv, HeldInv, Slots, Fits, OnChannel
  <2>3. \A w \in Workers : Busy(w)' => Fits(cur[w])'
    BY <1>2 DEF Inv, HeldInv, Fits, OnChannel, Typed, Busy
  <2>4. QED
    BY <2>2, <2>3 DEF Inv, HeldInv, Slots, Apart, OnChannel
<1>4. UnackedInv'
  BY <1>1 DEF Inv, UnackedInv, Slots, OnChannel, Unchanged
<1>5. BoundInv'
  BY <1>1 DEF Inv, BoundInv, Unchanged
<1>6. \A d \in Copies : Survives(d)
  BY <1>1 DEF Survives, Unchanged, Live
<1>7. QED
  BY <1>1, <1>3, <1>4, <1>5, <1>6 DEF Live

\* What is kept while every copy survives stays kept.
LEMMA SurvivalKeeps ==
  ASSUME Typed, KeptInv, \A c \in Copies : Survives(c),
         handled \subseteq handled', dropped \subseteq dropped'
  PROVE  /\ \A m \in sent : DoneNow(m) \/ \E c \in Copies : Live(c)' /\ body'[c] = m
         /\ \A d : Superseded(d) =>
              \/ DoneNow(d.msg)
              \/ \E c \in Copies : Live(c)' /\ body'[c] = d.msg /\ attempts'[c] > d.tries
<1>1. \A m : Done(m) => DoneNow(m)
  BY DEF Done, DoneNow
<1>2. \A m \in sent : Done(m) \/ \E c \in Copies : Live(c) /\ body[c] = m
  BY DEF KeptInv, NothingLost, Done
<1>3. QED
  BY <1>1, <1>2 DEF Survives, Superseded

-----------------------------------------------------------------------------
(* The actions. *)

LEMMA DeliverKeeps ==
  ASSUME Typed, Inv, NEW c \in Copies, LoopDeliver(c)
  PROVE  Inv'
<1> DEFINE d == [copy |-> c, tag |-> epoch, msg |-> body[c], tries |-> attempts[c]]
<1>1. /\ Len(jobs') = Len(jobs) + 1 /\ Len(jobs) \in Nat
      /\ \A i \in Slots : jobs'[i] = jobs[i] /\ jobs[i] \in Delivery
      /\ jobs'[Len(jobs) + 1] = d
  BY DEF LoopDeliver, Slots, Typed, TypeOK
<1>2. Slots' = Slots \cup {Len(jobs) + 1}
  BY <1>1 DEF Slots
<1>3. /\ chan = "open" /\ place[c] = "ready" /\ pc = "receive"
      /\ place' = [place EXCEPT ![c] = "unacked"] /\ place \in [Copies -> {"free", "ready", "unacked", "retry", "dlq"}]
      /\ UNCHANGED <<body, attempts, conn, chan, epoch, pc, wstate, cur, sent, handled, dropped>>
  BY DEF LoopDeliver, link, history, Typed, TypeOK
<1>4. \A e : OnChannel(e)' <=> OnChannel(e)
  BY <1>3 DEF OnChannel
<1>5. \A e \in Delivery : Fits(e) => Fits(e)' /\ Apart(e, d) /\ Apart(d, e)
  BY <1>3 DEF Fits, Apart, OnChannel, Delivery
<1>6. Fits(d)'
  <2>1. epoch \in Nat
    BY DEF Typed, TypeOK
  <2>2. attempts[c] <= MaxRetries
    BY DEF Inv, BoundInv
  <2>3. QED
    BY <1>3, <2>1, <2>2 DEF Fits, OnChannel
<1>7. HeldInv'
  <2>1. \A i \in Slots' : Fits(jobs[i])'
    BY <1>1, <1>2, <1>3, <1>5, <1>6 DEF Inv, HeldInv, Fits, OnChannel
  <2>2. \A w \in Workers : Busy(w)' => Fits(cur[w])'
    BY <1>3, <1>5 DEF Inv, HeldInv, Busy, Typed, Fits, OnChannel
  <2>3. \A i, j \in Slots' : i # j => Apart(jobs[i], jobs[j])'
    BY <1>1, <1>2, <1>4, <1>5 DEF Inv, HeldInv, Apart
  <2>4. \A i \in Slots', w \in Workers : Busy(w)' => Apart(jobs[i], cur[w])'
    BY <1>1, <1>2, <1>3, <1>4, <1>5 DEF Inv, HeldInv, Apart, Busy, Typed
  <2>5. \A v, w \in Workers : v # w /\ Busy(v)' /\ Busy(w)' => Apart(cur[v], cur[w])'
    BY <1>3, <1>4 DEF Inv, HeldInv, Apart, Busy
  <2>6. QED
    BY <2>1, <2>2, <2>3, <2>4, <2>5 DEF HeldInv
<1>8. UnackedInv'
  <2> SUFFICES ASSUME NEW e \in Copies, place'[e] = "unacked"
               PROVE  \/ \E i \in Slots' : OnChannel(jobs[i])' /\ jobs'[i].copy = e
                      \/ \E w \in Workers : Busy(w)' /\ OnChannel(cur[w])' /\ cur'[w].copy = e
    BY DEF UnackedInv
  <2>1. CASE e = c
    BY <1>1, <1>2, <1>3, <2>1 DEF OnChannel
  <2>2. CASE e # c
    <3>1. place[e] = "unacked"
      BY <1>3, <2>2
    <3>2. QED
      BY <1>1, <1>2, <1>3, <3>1 DEF Inv, UnackedInv, OnChannel, Busy
  <2>3. QED
    BY <2>1, <2>2
<1>9. LinkInv' /\ BoundInv'
  BY <1>3 DEF Inv, LinkInv, BoundInv
<1>10. KeptInv'
  <2>1. \A e \in Copies : Live(e)' <=> Live(e)
    BY <1>3 DEF Live
  <2>2. QED
    BY <1>3, <1>4, <2>1 DEF Inv, KeptInv, NothingLost, Superseded, Done
<1>11. QED
  BY <1>7, <1>8, <1>9, <1>10 DEF Inv

\* A channel is opened only when there is none, for an epoch of which nothing is held.
LEMMA OpenKeeps ==
  ASSUME Typed, Inv, LinkInv', chan # "open",
         UNCHANGED <<place, body, attempts, epoch, pool, history>>
  PROVE  Inv'
<1>1. /\ \A i \in Slots : jobs[i] \in Delivery /\ jobs[i].tag < epoch
      /\ \A w \in Workers : Busy(w) => cur[w] \in Delivery /\ cur[w].tag < epoch
  BY DEF Inv, HeldInv, Fits, Typed, TypeOK, Slots, Busy
<1>2. epoch \in Nat
  BY DEF Typed, TypeOK
<1>3. /\ \A i \in Slots : ~OnChannel(jobs[i]) /\ ~OnChannel(jobs[i])'
      /\ \A w \in Workers : Busy(w) => ~OnChannel(cur[w]) /\ ~OnChannel(cur[w])'
  BY <1>1, <1>2 DEF OnChannel, pool, Delivery
<1>4. HeldInv'
  BY <1>1, <1>3 DEF Inv, HeldInv, Fits, Apart, Slots, Busy, pool
<1>5. UnackedInv'
  BY <1>3 DEF Inv, UnackedInv
<1>6. BoundInv'
  BY DEF Inv, BoundInv
<1>7. KeptInv'
  BY <1>3 DEF Inv, KeptInv, NothingLost, Live, Busy, pool, history
<1>8. QED
  BY <1>4, <1>5, <1>6, <1>7 DEF Inv

LEMMA LoopKeeps == Typed /\ Inv /\ Loop => Inv'
<1> SUFFICES ASSUME Typed, Inv, Loop PROVE Inv'
  OBVIOUS
<1>1. CASE LoopCheckDone
  BY <1>1, QuietStep DEF LoopCheckDone, broker
<1>2. CASE LoopLock
  <2>1. conn # "open" \/ chan = "nil" => chan # "open"
    BY DEF Inv, LinkInv
  <2>2. QED
    BY <1>2, <2>1, QuietStep DEF LoopLock, broker
<1>3. CASE LoopReconnect
  <2>1. chan # "open"
    BY <1>3 DEF LoopReconnect, Inv, LinkInv
  <2>2. LinkInv'
    BY <1>3 DEF LoopReconnect, Inv, LinkInv, pool
  <2>3. QED
    BY <1>3, <2>1, <2>2, OpenKeeps DEF LoopReconnect, broker
<1>4. CASE LoopQos
  BY <1>4, QuietStep DEF LoopQos, broker
<1>5. CASE LoopBind
  BY <1>5, QuietStep DEF LoopBind, broker
<1>6. CASE LoopUnlockUnheld
  BY <1>6, ProcessDies DEF LoopUnlockUnheld
<1>7. CASE LoopConsume
  BY <1>7, QuietStep DEF LoopConsume, broker
<1>8. CASE LoopLeave
  BY <1>8, QuietStep DEF LoopLeave, broker
<1>9. ASSUME NEW c \in Copies, LoopDeliver(c) PROVE Inv'
  BY <1>9, DeliverKeeps
<1>10. QED
  BY <1>1, <1>2, <1>3, <1>4, <1>5, <1>6, <1>7, <1>8, <1>9 DEF Loop

LEMMA TakeKeeps ==
  ASSUME Typed, Inv, NEW w \in Workers, WorkerTake(w)
  PROVE  Inv'
<1>1. /\ Len(jobs) \in Nat \ {0} /\ Len(jobs') = Len(jobs) - 1
      /\ \A i \in 1..Len(jobs') : jobs'[i] = jobs[i + 1]
      /\ Head(jobs) = jobs[1]
  BY DEF WorkerTake, Typed, TypeOK
<1>2. /\ \A i \in Slots' : i + 1 \in Slots /\ i + 1 # 1 /\ jobs'[i] = jobs[i + 1]
      /\ \A i \in Slots : i = 1 \/ (i - 1 \in Slots' /\ jobs'[i - 1] = jobs[i])
      /\ 1 \in Slots
  BY <1>1 DEF Slots
<1>3. /\ wstate[w] = "idle" /\ pc # "dead"
      /\ \A v \in Workers : v # w => cur'[v] = cur[v] /\ wstate'[v] = wstate[v]
      /\ cur'[w] = jobs[1] /\ wstate'[w] = "running"
      /\ UNCHANGED <<place, body, attempts, conn, chan, epoch, pc, sent, handled, dropped>>
  BY <1>1 DEF WorkerTake, Typed, TypeOK, broker, link, history, Inv, LinkInv
<1>4. /\ \A e : OnChannel(e)' <=> OnChannel(e)
      /\ \A e : Fits(e)' <=> Fits(e)
      /\ \A d, e : Apart(d, e)' <=> Apart(d, e)
  BY <1>3 DEF Fits, Apart, OnChannel
<1>5. HeldInv'
  <2>1. \A i \in Slots' : Fits(jobs[i])'
    BY <1>2, <1>3 DEF Inv, HeldInv, Fits, OnChannel
  <2>2. \A v \in Workers : Busy(v)' => Fits(cur[v])'
    BY <1>2, <1>3 DEF Inv, HeldInv, Busy, Fits, OnChannel
  <2>3. \A i, j \in Slots' : i # j => Apart(jobs[i], jobs[j])'
    <3> SUFFICES ASSUME NEW i \in Slots', NEW j \in Slots', i # j
                 PROVE  Apart(jobs[i], jobs[j])'
      OBVIOUS
    <3>1. i + 1 # j + 1
      BY DEF Slots
    <3>2. Apart(jobs[i + 1], jobs[j + 1])
      BY <1>2, <3>1 DEF Inv, HeldInv
    <3>3. QED
      BY <1>2, <1>3, <3>2 DEF Apart, OnChannel
  <2>4. \A i \in Slots', v \in Workers : Busy(v)' => Apart(jobs[i], cur[v])'
    <3> SUFFICES ASSUME NEW i \in Slots', NEW v \in Workers, Busy(v)'
                 PROVE  Apart(jobs[i], cur[v])'
      OBVIOUS
    <3>1. CASE v = w
      <4>1. Apart(jobs[i + 1], jobs[1])
        BY <1>2 DEF Inv, HeldInv
      <4>2. QED
        BY <1>2, <1>3, <3>1, <4>1 DEF Apart, OnChannel
    <3>2. CASE v # w
      <4>1. Apart(jobs[i + 1], cur[v])
        BY <1>2, <1>3, <3>2 DEF Inv, HeldInv, Busy
      <4>2. QED
        BY <1>2, <1>3, <3>2, <4>1 DEF Apart, OnChannel
    <3>3. QED
      BY <3>1, <3>2
  <2>5. \A u, v \in Workers : u # v /\ Busy(u)' /\ Busy(v)' => Apart(cur[u], cur[v])'
    <3>1. \A v \in Workers : v # w /\ Busy(v)' => Apart(jobs[1], cur[v])
      BY <1>2, <1>3 DEF Inv, HeldInv, Busy
    <3>2. \A u, v \in Workers : u # v /\ u # w /\ v # w /\ Busy(u)' /\ Busy(v)'
                                => Apart(cur[u], cur[v])
      BY <1>3 DEF Inv, HeldInv, Busy
    <3>3. QED
      BY <1>3, <3>1, <3>2 DEF Apart, OnChannel
  <2>6. QED
    BY <2>1, <2>2, <2>3, <2>4, <2>5 DEF HeldInv
<1>6. UnackedInv'
  <2> SUFFICES ASSUME NEW c \in Copies, place[c] = "unacked"
               PROVE  \/ \E i \in Slots' : OnChannel(jobs[i])' /\ jobs'[i].copy = c
                      \/ \E v \in Workers : Busy(v)' /\ OnChannel(cur[v])' /\ cur'[v].copy = c
    BY <1>3 DEF UnackedInv
  <2>1. ASSUME NEW i \in Slots, OnChannel(jobs[i]), jobs[i].copy = c
        PROVE  \/ \E j \in Slots' : OnChannel(jobs[j])' /\ jobs'[j].copy = c
               \/ \E v \in Workers : Busy(v)' /\ OnChannel(cur[v])' /\ cur'[v].copy = c
    <3>1. CASE i = 1
      BY <1>3, <2>1, <3>1 DEF OnChannel, Busy
    <3>2. CASE i # 1
      BY <1>2, <1>3, <2>1, <3>2 DEF OnChannel
    <3>3. QED
      BY <3>1, <3>2
  <2>2. ASSUME NEW v \in Workers, Busy(v), OnChannel(cur[v]), cur[v].copy = c
        PROVE  Busy(v)' /\ OnChannel(cur[v])' /\ cur'[v].copy = c
    BY <1>3, <2>2 DEF OnChannel, Busy
  <2>3. QED
    BY <2>1, <2>2 DEF Inv, UnackedInv
<1>7. LinkInv' /\ BoundInv'
  BY <1>3 DEF Inv, LinkInv, BoundInv
<1>8. KeptInv'
  <2>1. \A c \in Copies : Live(c)' <=> Live(c)
    BY <1>3 DEF Live
  <2>2. \A d : Superseded(d) <=> Superseded(d)'
    BY <1>3, <2>1 DEF Superseded, Done
  <2>3. NothingLost'
    BY <1>3, <2>1 DEF Inv, KeptInv, NothingLost
  <2>4. \A v \in Workers : wstate'[v] \in {"succeeded", "published"} =>
          wstate[v] = wstate'[v] /\ cur'[v] = cur[v]
    BY <1>3
  <2>5. QED
    BY <1>3, <2>1, <2>3, <2>4 DEF Inv, KeptInv, OnChannel, Superseded, Done
<1>9. QED
  BY <1>5, <1>6, <1>7, <1>8 DEF Inv

LEMMA CallbackKeeps ==
  ASSUME Typed, Inv, NEW w \in Workers, WorkerCallback(w)
  PROVE  Inv'
<1>1. /\ UNCHANGED <<place, body, attempts, conn, chan, epoch, pc, jobs, cur, sent, dropped>>
      /\ handled \subseteq handled'
      /\ \A v \in Workers : v # w => wstate'[v] = wstate[v]
      /\ wstate[w] = "running" /\ wstate'[w] \in {"succeeded", "failed", "refused"}
      /\ wstate'[w] = "succeeded" => cur[w].msg \in handled'
  BY DEF WorkerCallback, Typed, TypeOK, broker, link
<1>2. \A v \in Workers : Busy(v)' <=> Busy(v)
  BY <1>1 DEF Busy
<1>3. HeldInv'
  BY <1>1, <1>2 DEF Inv, HeldInv, Slots, Fits, Apart, OnChannel
<1>4. UnackedInv'
  BY <1>1, <1>2 DEF Inv, UnackedInv, Slots, OnChannel
<1>5. LinkInv' /\ BoundInv'
  BY <1>1 DEF Inv, LinkInv, BoundInv
<1>6. KeptInv'
  <2>1. NothingLost'
    BY <1>1 DEF Inv, KeptInv, NothingLost, Live
  <2>2. \A v \in Workers : wstate'[v] = "succeeded" => cur'[v].msg \in handled'
    BY <1>1 DEF Inv, KeptInv
  <2>3. \A v \in Workers :
          wstate'[v] = "published" /\ OnChannel(cur[v])' => Superseded(cur[v])'
    BY <1>1 DEF Inv, KeptInv, OnChannel, Superseded, Done, Live
  <2>4. QED
    BY <2>1, <2>2, <2>3 DEF KeptInv
<1>7. QED
  BY <1>3, <1>4, <1>5, <1>6 DEF Inv

LEMMA RejectKeeps ==
  ASSUME Typed, Inv, NEW w \in Workers, WorkerReject(w)
  PROVE  Inv'
<1>1. Typed' /\ Busy(w) /\ Finish(w) /\ UNCHANGED <<link, pc, jobs, sent, handled>>
  BY WorkerTyped DEF Worker, WorkerReject, Busy
<1>2. cur[w] \in Delivery /\ cur[w].copy \in Copies /\ dropped \subseteq dropped'
  BY <1>1 DEF Typed, Busy, Delivery, WorkerReject
<1>3. LinkInv'
  BY <1>1 DEF Inv, LinkInv, Busy, link
<1>4. CASE ~OnOpenChannel(w)
  <2>1. UNCHANGED <<place, body, attempts>> /\ ~OnChannel(cur[w])
    BY <1>4 DEF WorkerReject, OnOpenChannel, OnChannel
  <2>2. HeldInv' /\ UnackedInv'
    BY <1>1, <2>1, SettlingHeld DEF Settled, Unchanged, link
  <2>3. KeptInv'
    <3>1. attempts' \in [Copies -> Nat] /\ \A c \in Copies : Survives(c)
      BY <2>1 DEF Survives, Live, Typed, TypeOK
    <3>2. QED
      BY <1>1, <1>2, <3>1, SettlingKept DEF link
  <2>4. QED
    BY <1>3, <2>1, <2>2, <2>3 DEF Inv, BoundInv
<1>5. CASE OnOpenChannel(w) /\ HasDLQ
  <2>1. /\ place' = [place EXCEPT ![cur[w].copy] = "dlq"]
        /\ UNCHANGED <<body, attempts>> /\ OnChannel(cur[w])
    BY <1>5 DEF WorkerReject, OnOpenChannel, OnChannel
  <2>2. \A c \in Copies : IF Settled(w, c) THEN place'[c] # "unacked" ELSE Unchanged(c)
    BY <1>2, <2>1 DEF Settled, Unchanged, Typed, TypeOK
  <2>3. HeldInv' /\ UnackedInv'
    BY <1>1, <2>2, SettlingHeld DEF link
  <2>4. KeptInv'
    <3>1. attempts' \in [Copies -> Nat] /\ \A c \in Copies : Survives(c)
      BY <1>2, <2>1 DEF Survives, Live, Typed, TypeOK
    <3>2. QED
      BY <1>1, <1>2, <3>1, SettlingKept DEF link
  <2>5. QED
    BY <1>3, <2>1, <2>3, <2>4 DEF Inv, BoundInv
<1>6. CASE OnOpenChannel(w) /\ ~HasDLQ
  <2>1. Ack(w) /\ DoneNow(cur[w].msg)
    BY <1>6 DEF WorkerReject, Ack, DoneNow
  <2>2. UNCHANGED <<link, jobs, sent>> /\ handled \subseteq handled'
    BY <1>1
  <2>3. HeldInv' /\ UnackedInv' /\ BoundInv' /\ KeptInv'
    BY <1>1, <1>2, <2>1, <2>2, AckKeeps
  <2>4. QED
    BY <1>3, <2>3 DEF Inv
<1>7. QED
  BY <1>4, <1>5, <1>6

LEMMA RetryPublishKeeps ==
  ASSUME Typed, Inv, NEW w \in Workers, WorkerRetryPublish(w)
  PROVE  Inv'
<1>1. /\ wstate[w] = "failed" /\ wstate' = [wstate EXCEPT ![w] = "published"]
      /\ cur[w] \in Delivery /\ cur[w].tries < MaxRetries
      /\ chan = "open"
      /\ UNCHANGED <<conn, pc, jobs, cur, history>>
  <2>1. wstate[w] = "failed" /\ cur[w] \in Delivery
    BY DEF WorkerRetryPublish, Retryable, Typed
  <2>2. cur[w].tries < MaxRetries
    BY <2>1, ConstantsAssumption DEF WorkerRetryPublish, Retryable, Exhausted, Delivery
  <2>3. QED
    BY <2>1, <2>2 DEF WorkerRetryPublish
<1>2. /\ \A v \in Workers : Busy(v)' <=> Busy(v)
      /\ \A v \in Workers : v # w => wstate'[v] = wstate[v]
      /\ wstate'[w] = "published"
  BY <1>1 DEF Busy, Typed, TypeOK
<1>3. CASE HasRetryExchange
  <2> DEFINE n == cur[w].tries + 1
  <2>1. PICK c \in Copies : ~Live(c) /\ Store(c, cur[w].msg, n, "retry")
    BY <1>3 DEF WorkerRetryPublish, NextTries
  <2>2. cur[w].msg \in Messages /\ n \in Nat /\ n <= MaxRetries
    BY <1>1, ConstantsAssumption DEF Delivery
  <2>3. UNCHANGED <<chan, epoch>>
    BY <1>3 DEF WorkerRetryPublish
  <2>4. /\ HeldInv' /\ UnackedInv' /\ BoundInv'
        /\ \A d \in Copies : Survives(d)
        /\ Live(c)' /\ body'[c] = cur[w].msg /\ attempts'[c] = n
    BY <1>1, <1>2, <2>1, <2>2, <2>3, StoreKeeps
  <2>5. LinkInv'
    BY <1>1, <1>2, <2>3 DEF Inv, LinkInv, Busy
  <2>6. KeptInv'
    <3>1. handled \subseteq handled' /\ dropped \subseteq dropped' /\ KeptInv
      BY <1>1 DEF Inv, history
    <3>2. /\ \A m \in sent : DoneNow(m) \/ \E d \in Copies : Live(d)' /\ body'[d] = m
          /\ \A e : Superseded(e) =>
                \/ DoneNow(e.msg)
                \/ \E d \in Copies : Live(d)' /\ body'[d] = e.msg /\ attempts'[d] > e.tries
      BY <2>4, <3>1, SurvivalKeeps
    <3>3. NothingLost'
      BY <1>1, <3>2 DEF NothingLost, DoneNow, history
    <3>4. \A v \in Workers : wstate'[v] = "succeeded" => cur'[v].msg \in handled'
      BY <1>1, <1>2 DEF Inv, KeptInv, history
    <3>5. ASSUME NEW v \in Workers, wstate'[v] = "published", OnChannel(cur[v])'
          PROVE  Superseded(cur[v])'
      <4>1. CASE v = w
        <5>1. attempts'[c] > cur[w].tries
          BY <1>1, <2>4 DEF Delivery
        <5>2. QED
          BY <1>1, <2>4, <4>1, <5>1 DEF Superseded
      <4>2. CASE v # w
        <5>1. Superseded(cur[v])
          BY <1>1, <1>2, <2>3, <3>5, <4>2 DEF Inv, KeptInv, OnChannel
        <5>2. QED
          BY <1>1, <3>2, <5>1 DEF Superseded, Done, DoneNow
      <4>3. QED
        BY <4>1, <4>2
    <3>6. QED
      BY <3>3, <3>4, <3>5 DEF KeptInv
  <2>7. QED
    BY <2>4, <2>5, <2>6 DEF Inv
<1>4. CASE ~HasRetryExchange
  <2>1. /\ chan' # "open" /\ epoch' = epoch + 1 /\ place' = Requeued
        /\ UNCHANGED <<body, attempts>>
    BY <1>1, <1>4 DEF WorkerRetryPublish, DropChannel, Closed
  <2>2. LinkInv'
    BY <1>1, <1>2, <2>1 DEF Inv, LinkInv, Busy
  <2>3. \A v \in Workers : (Busy(v)' => Busy(v))
                           /\ (wstate'[v] = "succeeded" => wstate[v] = "succeeded")
    BY <1>2
  <2>4. QED
    BY <1>1, <2>1, <2>2, <2>3, ChannelGone
<1>5. QED
  BY <1>3, <1>4

LEMMA WorkerKeeps == ASSUME Typed, Inv, NEW w \in Workers, Worker(w) PROVE Inv'
<1>1. CASE WorkerTake(w)
  BY <1>1, TakeKeeps
<1>2. CASE WorkerCallback(w)
  BY <1>2, CallbackKeeps
<1>3. CASE WorkerReject(w)
  BY <1>3, RejectKeeps
<1>4. CASE WorkerRetryPublish(w)
  BY <1>4, RetryPublishKeeps
<1>5. CASE WorkerAck(w) \/ WorkerRetryAck(w)
  <2>1. Typed' /\ Busy(w) /\ Finish(w) /\ Ack(w) /\ UNCHANGED <<link, pc, jobs, history>>
    BY <1>5, WorkerTyped DEF Worker, WorkerAck, WorkerRetryAck, Busy
  <2>2. OnChannel(cur[w]) => DoneNow(cur[w].msg) \/ Superseded(cur[w])
    BY <1>5, <2>1 DEF WorkerAck, WorkerRetryAck, Inv, KeptInv, DoneNow, history
  <2>3. UNCHANGED <<link, jobs, sent>> /\ handled \subseteq handled' /\ dropped \subseteq dropped'
    BY <2>1 DEF history
  <2>4. HeldInv' /\ UnackedInv' /\ BoundInv' /\ KeptInv'
    BY <2>1, <2>2, <2>3, AckKeeps
  <2>5. LinkInv'
    BY <2>1 DEF Inv, LinkInv, Busy, link
  <2>6. QED
    BY <2>4, <2>5 DEF Inv
<1>6. CASE WorkerRetryFail(w)
  <2>1. /\ Busy(w) /\ Finish(w) /\ chan = "closed"
        /\ UNCHANGED <<place, body, attempts, link, pc, jobs, history>>
    BY <1>6 DEF WorkerRetryFail, Retryable, Busy, broker
  <2>2. HeldInv' /\ UnackedInv'
    BY <2>1, SettlingHeld DEF Settled, OnChannel, Unchanged, link
  <2>3. attempts' \in [Copies -> Nat] /\ \A c \in Copies : Survives(c)
    BY <2>1 DEF Survives, Live, Typed, TypeOK
  <2>4. KeptInv'
    BY <2>1, <2>3, SettlingKept DEF link, history
  <2>5. LinkInv' /\ BoundInv'
    BY <2>1 DEF Inv, LinkInv, BoundInv, Busy, link
  <2>6. QED
    BY <2>2, <2>4, <2>5 DEF Inv
<1>7. CASE WorkerRetryPanic(w)
  BY <1>7, ProcessDies DEF WorkerRetryPanic
<1>8. QED
  BY <1>1, <1>2, <1>3, <1>4, <1>5, <1>6, <1>7 DEF Worker

LEMMA CloseKeeps == Typed /\ Inv /\ Close => Inv'
<1> SUFFICES ASSUME Typed, Inv, Close PROVE Inv'
  OBVIOUS
<1>1. CASE CloseDone
  BY <1>1, QuietStep DEF CloseDone, broker, Inv, LinkInv
<1>2. CASE CloseChannel
  <2>1. /\ chan' # "open" /\ epoch' = epoch + 1 /\ place' = Requeued
        /\ UNCHANGED <<body, attempts, pc, pool, history>>
    BY <1>2 DEF CloseChannel
  <2>2. LinkInv'
    BY <2>1 DEF Inv, LinkInv, pool
  <2>3. UNCHANGED <<body, attempts, jobs, cur, history>> /\ UNCHANGED wstate
    BY <2>1 DEF pool
  <2>4. QED
    BY <2>1, <2>2, <2>3, ChannelGone DEF Busy
<1>3. QED
  BY <1>1, <1>2 DEF Close

LEMMA PublishKeeps ==
  ASSUME Typed, Inv, NEW m \in Messages, Publish(m)
  PROVE  Inv'
<1>1. PICK c \in Copies : ~Live(c) /\ Store(c, m, 0, "ready")
  BY DEF Publish
<1>2. /\ UNCHANGED <<conn, chan, epoch, pc, jobs, wstate, cur, handled, dropped>>
      /\ sent' = sent \cup {m}
  BY DEF Publish, link, pool
<1>3. /\ HeldInv' /\ UnackedInv' /\ BoundInv'
      /\ \A d \in Copies : Survives(d)
      /\ Live(c)' /\ body'[c] = m
  BY <1>1, <1>2, StoreKeeps, ConstantsAssumption DEF Busy
<1>4. LinkInv'
  BY <1>2 DEF Inv, LinkInv
<1>5. KeptInv'
  <2>1. /\ \A n \in sent : DoneNow(n) \/ \E d \in Copies : Live(d)' /\ body'[d] = n
        /\ \A e : Superseded(e) =>
              \/ DoneNow(e.msg)
              \/ \E d \in Copies : Live(d)' /\ body'[d] = e.msg /\ attempts'[d] > e.tries
    BY <1>2, <1>3, SurvivalKeeps DEF Inv
  <2>2. NothingLost'
    BY <1>2, <1>3, <2>1 DEF NothingLost, DoneNow
  <2>3. \A e : Superseded(e) => Superseded(e)'
    BY <2>1 DEF Superseded, Done, DoneNow
  <2>4. \A w \in Workers : wstate'[w] = "succeeded" => cur'[w].msg \in handled'
    BY <1>2 DEF Inv, KeptInv
  <2>5. \A w \in Workers :
          wstate'[w] = "published" /\ OnChannel(cur[w])' => Superseded(cur[w])'
    BY <1>2, <2>1 DEF Inv, KeptInv, OnChannel, Superseded, DoneNow, Done
  <2>6. QED
    BY <2>2, <2>4, <2>5 DEF KeptInv
<1>6. QED
  BY <1>3, <1>4, <1>5 DEF Inv

LEMMA ExpireKeeps ==
  ASSUME Typed, Inv, NEW c \in Copies, Expire(c)
  PROVE  Inv'
<1>1. /\ place[c] = "retry" /\ place'[c] = "ready"
      /\ \A d \in Copies : d # c => place'[d] = place[d]
      /\ UNCHANGED <<body, attempts, conn, chan, epoch, pc, jobs, wstate, cur, history>>
  BY DEF Expire, Typed, TypeOK, link, pool
<1>2. \A d \in Copies : (place'[d] = "unacked" <=> place[d] = "unacked") /\ (Live(d)' <=> Live(d))
  BY <1>1 DEF Live
<1>3. LinkInv' /\ BoundInv'
  BY <1>1 DEF Inv, LinkInv, BoundInv
<1>4. \A d \in Delivery : Fits(d) => Fits(d)'
  BY <1>1, <1>2 DEF Fits, OnChannel, Delivery
<1>5. HeldInv'
  <2>1. \A i \in Slots : jobs[i] \in Delivery
    BY DEF Typed, TypeOK, Slots
  <2>2. \A i \in Slots' : Fits(jobs[i])'
    BY <1>1, <1>4, <2>1 DEF Inv, HeldInv, Slots, Fits, OnChannel
  <2>3. \A w \in Workers : Busy(w)' => Fits(cur[w])'
    BY <1>1, <1>4 DEF Inv, HeldInv, Fits, OnChannel, Typed, Busy
  <2>4. QED
    BY <1>1, <2>2, <2>3 DEF Inv, HeldInv, Slots, Busy, Apart, OnChannel
<1>6. UnackedInv'
  BY <1>1, <1>2 DEF Inv, UnackedInv, Slots, Busy, OnChannel
<1>7. KeptInv'
  BY <1>1, <1>2 DEF Inv, KeptInv, NothingLost, Superseded, Done, OnChannel, history
<1>8. QED
  BY <1>3, <1>5, <1>6, <1>7 DEF Inv

LEMMA EnvironmentKeeps == Typed /\ Inv /\ Environment => Inv'
<1> SUFFICES ASSUME Typed, Inv, Environment PROVE Inv'
  OBVIOUS
<1>1. ASSUME NEW m \in Messages, Publish(m) PROVE Inv'
  BY <1>1, PublishKeeps
<1>2. ASSUME NEW c \in Copies, Expire(c) PROVE Inv'
  BY <1>2, ExpireKeeps
<1>3. CASE LoseConnection \/ BrokerStop
  <2>1. /\ chan' # "open" /\ epoch' = epoch + 1 /\ place' = Requeued
        /\ UNCHANGED <<body, attempts, pc, pool, history>>
    BY <1>3 DEF LoseConnection, BrokerStop, DropChannel, Closed
  <2>2. LinkInv'
    BY <2>1 DEF Inv, LinkInv, pool
  <2>3. UNCHANGED <<body, attempts, jobs, cur, history>> /\ UNCHANGED wstate
    BY <2>1 DEF pool
  <2>4. QED
    BY <2>1, <2>2, <2>3, ChannelGone DEF Busy
<1>4. CASE BrokerStart
  BY <1>4, QuietStep DEF BrokerStart, Inv, LinkInv
<1>5. CASE KillProcess
  BY <1>5, ProcessDies DEF KillProcess
<1>6. CASE Restart
  <2>1. /\ pc = "dead" /\ pc' = "top" /\ conn' = "open"
        /\ UNCHANGED <<place, body, attempts, epoch, pool, history>>
    BY <1>6 DEF Restart, broker
  <2>2. LinkInv'
    BY <2>1 DEF LinkInv
  <2>3. CASE chan # "open"
    BY <2>1, <2>2, <2>3, OpenKeeps
  <2>4. CASE chan = "open"
    <3>1. chan' = chan
      BY <1>6, <2>4 DEF Restart
    <3>2. HeldInv' /\ UnackedInv' /\ BoundInv' /\ KeptInv'
      BY <2>1, <3>1 DEF Inv, HeldInv, UnackedInv, BoundInv, KeptInv, NothingLost, Slots, Busy,
                        Fits, Apart, OnChannel, Superseded, Done, Live, pool, history
    <3>3. QED
      BY <2>2, <3>2 DEF Inv
  <2>5. QED
    BY <2>3, <2>4
<1>7. QED
  BY <1>1, <1>2, <1>3, <1>4, <1>5, <1>6 DEF Environment

-----------------------------------------------------------------------------
(* The theorems. *)

LEMMA InvStep == Typed /\ Inv /\ [Next]_vars => Inv'
<1> SUFFICES ASSUME Typed, Inv, [Next]_vars PROVE Inv'
  OBVIOUS
<1>1. CASE Next
  BY <1>1, LoopKeeps, WorkerKeeps, CloseKeeps, EnvironmentKeeps DEF Next
<1>2. CASE UNCHANGED vars
  BY <1>2, QuietStep DEF vars, broker, Inv, LinkInv
<1>3. QED
  BY <1>1, <1>2

LEMMA InvCorrect == Spec => [](Typed /\ Inv)
  BY TypedInit, InitInv, TypedStep, InvStep, PTL DEF Spec

\* No message a producer has published is lost, however connections, channels,
\* the broker and the process come and go between the publishing of a retry and
\* the ack of the original (the retry branch of Start).
THEOREM Delivered == Spec => []NothingLost
<1>1. Typed /\ Inv => NothingLost
  BY DEF Inv, KeptInv
<1>2. QED
  BY <1>1, InvCorrect, PTL

\* No copy goes round the retry queue more than MaxRetries times
\* (retryCountFromHeaders, withRetryCountHeader).
THEOREM Bounded == Spec => []RetriesBounded
<1>1. Typed /\ Inv => RetriesBounded
  BY DEF Inv, BoundInv, RetriesBounded
<1>2. QED
  BY <1>1, InvCorrect, PTL

\* Every copy that is unacked on the channel is held by one delivery, and no
\* other delivery the process holds can be acked.
THEOREM Settling == Spec => []SettledExactlyOnce
<1>1. Typed /\ Inv => SettledExactlyOnce
  <2> SUFFICES ASSUME Typed, Inv PROVE SettledExactlyOnce
    OBVIOUS
  <2> DEFINE onChannel == {d \in Held : chan = "open" /\ d.tag = epoch}
  <2>1. DOMAIN jobs = Slots
    BY DEF Typed, TypeOK, Slots
  <2>2. \A d \in Held : (\E i \in Slots : d = jobs[i]) \/ (\E w \in Workers : Busy(w) /\ d = cur[w])
    BY <2>1 DEF Held, Busy
  <2>3. \A d \in onChannel : place[d.copy] = "unacked" /\ body[d.copy] = d.msg
                           /\ attempts[d.copy] = d.tries /\ d.copy \in Copies
    <3> SUFFICES ASSUME NEW d \in onChannel
                 PROVE  place[d.copy] = "unacked" /\ body[d.copy] = d.msg
                        /\ attempts[d.copy] = d.tries /\ d.copy \in Copies
      OBVIOUS
    <3>1. Fits(d) /\ d \in Delivery
      BY <2>2 DEF Inv, HeldInv, Typed, TypeOK, Slots, Busy
    <3>2. QED
      BY <3>1 DEF Fits, OnChannel, Delivery
  <2>4. \A c \in Copies : place[c] = "unacked" => \E d \in onChannel : d.copy = c
    <3> SUFFICES ASSUME NEW c \in Copies, place[c] = "unacked"
                 PROVE  \E d \in onChannel : d.copy = c
      OBVIOUS
    <3>1. CASE \E i \in Slots : OnChannel(jobs[i]) /\ jobs[i].copy = c
      BY <2>1, <3>1 DEF Held, OnChannel
    <3>2. CASE \E w \in Workers : Busy(w) /\ OnChannel(cur[w]) /\ cur[w].copy = c
      BY <3>2 DEF Held, OnChannel, Busy
    <3>3. QED
      BY <3>1, <3>2 DEF Inv, UnackedInv
  <2>5. {d.copy : d \in onChannel} = {c \in Copies : place[c] = "unacked"}
    BY <2>3, <2>4
  <2>6. \A v, w \in Workers :
           v # w /\ wstate[v] # "idle" /\ wstate[w] # "idle"
                 /\ {cur[v], cur[w]} \subseteq onChannel
             => cur[v].copy # cur[w].copy
    BY DEF Inv, HeldInv, Busy, Apart, OnChannel
  <2>7. QED
    BY <2>3, <2>5, <2>6 DEF SettledExactlyOnce
<1>2. QED
  BY <1>1, InvCorrect, PTL

-----------------------------------------------------------------------------
(* Refinement: what the broker keeps for a queue, and what callbacks do with *)
(* it, is at-least-once delivery. *)

\* Everything the system knows of was published.
SentInv ==
  /\ \A c \in Copies : Live(c) => body[c] \in sent
  /\ \A i \in Slots : jobs[i].msg \in sent
  /\ \A w \in Workers : Busy(w) => cur[w].msg \in sent
  /\ handled \subseteq sent
  /\ dropped \subseteq sent

\* The refinement mapping, as operators of the concrete state.
OwedMessages == {body[c] : c \in {d \in Copies : place[d] \in {"ready", "unacked", "retry"}}}

RejectedMessages == dropped \cup {body[c] : c \in {d \in Copies : place[d] = "dlq"}}

LEMMA SentInit == Init => SentInv
<1> SUFFICES ASSUME Init PROVE SentInv
  OBVIOUS
<1>1. Slots = {}
  BY DEF Init, Slots
<1>2. QED
  BY <1>1 DEF Init, SentInv, Live, Busy

\* Steps that add neither copies nor deliveries.
LEMMA SentKept ==
  ASSUME Typed, SentInv,
         \A c \in Copies : Live(c)' => Live(c) /\ body'[c] = body[c],
         jobs' = jobs \/ jobs' = <<>>,
         \A w \in Workers : Busy(w)' => Busy(w) /\ cur'[w] = cur[w],
         UNCHANGED sent, handled' \subseteq sent, dropped' \subseteq sent
  PROVE  SentInv'
<1>1. \A i \in Slots' : i \in Slots /\ jobs'[i] = jobs[i]
  BY DEF Slots, Typed, TypeOK
<1>2. QED
  BY <1>1 DEF SentInv

LEMMA FinishSent ==
  ASSUME Typed, NEW w \in Workers, Finish(w)
  PROVE  \A v \in Workers : Busy(v)' => Busy(v) /\ cur'[v] = cur[v]
  BY DEF Finish, Busy, Typed, TypeOK

LEMMA ForgetSent ==
  ASSUME Typed, NEW c \in Copies, Forget(c)
  PROVE  \A d \in Copies : Live(d)' => Live(d) /\ body'[d] = body[d]
  BY DEF Forget, Store, Live, Typed, TypeOK

LEMMA DieSent == Typed /\ SentInv /\ Die => SentInv'
<1> SUFFICES ASSUME Typed, SentInv, Die PROVE SentInv'
  OBVIOUS
<1>1. \A c \in Copies : Live(c)' => Live(c) /\ body'[c] = body[c]
  BY DEF Die, Requeued, Live, Typed, TypeOK
<1>2. jobs' = <<>> /\ \A w \in Workers : ~Busy(w)'
  BY DEF Die, Busy
<1>3. UNCHANGED history
  BY DEF Die
<1>4. QED
  BY <1>1, <1>2, <1>3, SentKept DEF history, SentInv

LEMMA LoopSent == Typed /\ SentInv /\ Loop => SentInv'
<1> SUFFICES ASSUME Typed, SentInv, Loop PROVE SentInv'
  OBVIOUS
<1>1. CASE LoopUnlockUnheld
  BY <1>1, DieSent DEF LoopUnlockUnheld
<1>2. ASSUME NEW c \in Copies, LoopDeliver(c) PROVE SentInv'
  <2>1. /\ \A i \in Slots' : (i \in Slots /\ jobs'[i] = jobs[i]) \/ jobs'[i].msg = body[c]
        /\ place[c] = "ready"
    BY <1>2 DEF LoopDeliver, Slots, Typed, TypeOK
  <2>2. UNCHANGED <<body, wstate, cur, history>> /\ \A d \in Copies : Live(d)' => Live(d)
    BY <1>2 DEF LoopDeliver, Live, Typed, TypeOK
  <2>3. QED
    BY <2>1, <2>2 DEF SentInv, Live, Busy, history
<1>3. CASE \/ LoopCheckDone \/ LoopLock \/ LoopReconnect \/ LoopQos \/ LoopBind
           \/ LoopConsume \/ LoopLeave
  <2>1. UNCHANGED <<broker, pool, history>>
    BY <1>3 DEF LoopCheckDone, LoopLock, LoopReconnect, LoopQos, LoopBind, LoopConsume, LoopLeave
  <2>2. QED
    BY <2>1, SentKept DEF broker, pool, history, Live, Busy, SentInv
<1>4. QED
  BY <1>1, <1>2, <1>3 DEF Loop

LEMMA WorkerSent ==
  ASSUME Typed, Inv, SentInv, NEW w \in Workers, Worker(w)
  PROVE  SentInv'
<1>1. CASE WorkerTake(w)
  <2>1. \A i \in Slots' : i + 1 \in Slots /\ jobs'[i] = jobs[i + 1]
    BY <1>1 DEF WorkerTake, Slots, Typed, TypeOK
  <2>2. 1 \in Slots /\ Head(jobs) = jobs[1]
    BY <1>1 DEF WorkerTake, Slots, Typed, TypeOK
  <2>3. UNCHANGED <<place, body, sent, handled, dropped>>
    BY <1>1 DEF WorkerTake, broker, history
  <2>4. \A v \in Workers : Busy(v)' => cur'[v].msg \in sent
    BY <1>1, <2>2 DEF WorkerTake, SentInv, Busy, Typed, TypeOK
  <2>5. QED
    BY <2>1, <2>3, <2>4 DEF SentInv, Live
<1>2. CASE WorkerCallback(w)
  <2>1. Busy(w) /\ UNCHANGED <<place, body, jobs, cur, sent, dropped>>
        /\ handled' \subseteq handled \cup {cur[w].msg}
    BY <1>2 DEF WorkerCallback, Busy, broker
  <2>2. \A v \in Workers : Busy(v)' => Busy(v)
    BY <1>2 DEF WorkerCallback, Busy, Typed, TypeOK
  <2>3. QED
    BY <2>1, <2>2 DEF SentInv, Live, Slots
<1>3. CASE WorkerAck(w) \/ WorkerRetryAck(w)
  <2>1. Busy(w) /\ Finish(w) /\ Ack(w) /\ UNCHANGED <<jobs, history>>
    BY <1>3 DEF WorkerAck, WorkerRetryAck, Busy
  <2>2. cur[w].copy \in Copies
    BY <2>1 DEF Busy, Typed, Delivery
  <2>3. \A c \in Copies : Live(c)' => Live(c) /\ body'[c] = body[c]
    BY <2>1, <2>2, ForgetSent DEF Ack, Live
  <2>4. QED
    BY <2>1, <2>3, FinishSent, SentKept DEF history, SentInv
<1>4. CASE WorkerReject(w)
  <2>1. Busy(w) /\ Finish(w) /\ UNCHANGED <<jobs, sent, handled>>
    BY <1>4 DEF WorkerReject, Busy
  <2>2. cur[w].copy \in Copies /\ cur[w].msg \in sent
    BY <2>1 DEF Busy, Typed, Delivery, SentInv
  <2>3. \A c \in Copies : Live(c)' => Live(c) /\ body'[c] = body[c]
    <3>1. CASE ~OnOpenChannel(w)
      BY <1>4, <3>1 DEF WorkerReject, Live
    <3>2. CASE OnOpenChannel(w) /\ HasDLQ
      <4>1. place[cur[w].copy] = "unacked"
        BY <2>1, <3>2 DEF Inv, HeldInv, Fits, OnChannel, OnOpenChannel
      <4>2. QED
        BY <1>4, <2>2, <3>2, <4>1 DEF WorkerReject, Live, Typed, TypeOK
    <3>3. CASE OnOpenChannel(w) /\ ~HasDLQ
      BY <1>4, <2>2, <3>3, ForgetSent DEF WorkerReject
    <3>4. QED
      BY <3>1, <3>2, <3>3
  <2>4. dropped' \subseteq sent
    BY <1>4, <2>2 DEF WorkerReject, SentInv
  <2>5. QED
    BY <2>1, <2>3, <2>4, FinishSent, SentKept DEF SentInv
<1>5. CASE WorkerRetryPublish(w)
  <2>1. Busy(w) /\ UNCHANGED <<jobs, cur, history>>
    BY <1>5 DEF WorkerRetryPublish, Retryable, Busy
  <2>2. \A v \in Workers : Busy(v)' => Busy(v)
    BY <1>5, <2>1 DEF WorkerRetryPublish, Busy, Typed, TypeOK
  <2>3. cur[w].msg \in sent
    BY <2>1 DEF SentInv
  <2>4. CASE HasRetryExchange
    <3>1. \A c \in Copies : Live(c)' => (Live(c) /\ body'[c] = body[c]) \/ body'[c] = cur[w].msg
      BY <1>5, <2>4 DEF WorkerRetryPublish, Store, Live, Typed, TypeOK
    <3>2. QED
      BY <2>1, <2>2, <2>3, <3>1 DEF SentInv, Slots, history
  <2>5. CASE ~HasRetryExchange
    <3>1. \A c \in Copies : Live(c)' => Live(c) /\ body'[c] = body[c]
      BY <1>5, <2>5 DEF WorkerRetryPublish, DropChannel, Requeued, Live, Typed, TypeOK
    <3>2. QED
      BY <2>1, <2>2, <3>1, SentKept DEF SentInv, history
  <2>6. QED
    BY <2>4, <2>5
<1>6. CASE WorkerRetryFail(w)
  <2>1. Finish(w) /\ UNCHANGED <<broker, jobs, history>>
    BY <1>6 DEF WorkerRetryFail
  <2>2. QED
    BY <2>1, FinishSent, SentKept DEF broker, Live, history, SentInv
<1>7. CASE WorkerRetryPanic(w)
  BY <1>7, DieSent DEF WorkerRetryPanic
<1>8. QED
  BY <1>1, <1>2, <1>3, <1>4, <1>5, <1>6, <1>7 DEF Worker

LEMMA EnvironmentSent == Typed /\ SentInv /\ (Environment \/ Close) => SentInv'
<1> SUFFICES ASSUME Typed, SentInv, Environment \/ Close PROVE SentInv'
  OBVIOUS
<1>1. ASSUME NEW m \in Messages, Publish(m) PROVE SentInv'
  <2>1. \A c \in Copies : Live(c)' => (Live(c) /\ body'[c] = body[c]) \/ body'[c] = m
    BY <1>1 DEF Publish, Store, Live, Typed, TypeOK
  <2>2. UNCHANGED <<jobs, wstate, cur, handled, dropped>> /\ sent' = sent \cup {m}
    BY <1>1 DEF Publish, pool
  <2>3. QED
    BY <2>1, <2>2 DEF SentInv, Slots, Busy
<1>2. ASSUME \/ \E c \in Copies : Expire(c)
             \/ LoseConnection \/ BrokerStop \/ BrokerStart \/ Restart \/ Close
      PROVE  SentInv'
  <2>1. \A c \in Copies : Live(c)' => Live(c) /\ body'[c] = body[c]
    BY <1>2 DEF Expire, LoseConnection, BrokerStop, BrokerStart, Restart, Close, CloseDone,
                CloseChannel, DropChannel, Requeued, broker, Live, Typed, TypeOK
  <2>2. UNCHANGED <<pool, history>>
    BY <1>2 DEF Expire, LoseConnection, BrokerStop, BrokerStart, Restart, Close, CloseDone,
                CloseChannel
  <2>3. QED
    BY <2>1, <2>2, SentKept DEF pool, history, Busy, SentInv
<1>3. CASE KillProcess
  BY <1>3, DieSent DEF KillProcess
<1>4. QED
  BY <1>1, <1>2, <1>3 DEF Environment

LEMMA SentStep == Typed /\ Inv /\ SentInv /\ [Next]_vars => SentInv'
<1> SUFFICES ASSUME Typed, Inv, SentInv, [Next]_vars PROVE SentInv'
  OBVIOUS
<1>1. CASE Next
  BY <1>1, LoopSent, WorkerSent, EnvironmentSent DEF Next
<1>2. CASE UNCHANGED vars
  BY <1>2 DEF vars, broker, pool, history, SentInv, Slots, Live, Busy
<1>3. QED
  BY <1>1, <1>2

-----------------------------------------------------------------------------
(* The steps of the abstract specification. *)

\* What is known of a published message: it is owed, handled or rejected.
LEMMA Accounted ==
  ASSUME Typed, Inv
  PROVE  \A m \in sent : m \in OwedMessages \cup handled \cup RejectedMessages
<1> SUFFICES ASSUME NEW m \in sent, m \notin handled, m \notin dropped
             PROVE  m \in OwedMessages \cup RejectedMessages
  BY DEF RejectedMessages
<1>1. PICK c \in Copies : Live(c) /\ body[c] = m
  BY DEF Inv, KeptInv, NothingLost
<1>2. place[c] \in {"ready", "unacked", "retry", "dlq"}
  BY <1>1 DEF Live, Typed, TypeOK
<1>3. QED
  BY <1>1, <1>2 DEF OwedMessages, RejectedMessages

LEMMA Members ==
  ASSUME NEW m
  PROVE  /\ m \in OwedMessages <=> \E c \in Copies : Owed(c) /\ body[c] = m
         /\ m \in OwedMessages' <=> \E c \in Copies : Owed(c)' /\ body'[c] = m
         /\ m \in RejectedMessages <=>
              m \in dropped \/ \E c \in Copies : place[c] = "dlq" /\ body[c] = m
         /\ m \in RejectedMessages' <=>
              m \in dropped' \/ \E c \in Copies : place'[c] = "dlq" /\ body'[c] = m
  BY DEF OwedMessages, RejectedMessages, Owed

\* The step changes nothing that the abstract specification sees.
Stutters == UNCHANGED <<OwedMessages, handled, RejectedMessages>>

LEMMA SameCopies ==
  ASSUME \A c \in Copies :
           /\ body'[c] = body[c]
           /\ Owed(c)' <=> Owed(c)
           /\ place'[c] = "dlq" <=> place[c] = "dlq",
         UNCHANGED <<handled, dropped>>
  PROVE  Stutters
<1>1. \A m : m \in OwedMessages' <=> m \in OwedMessages
  BY Members
<1>2. \A m : m \in RejectedMessages' <=> m \in RejectedMessages
  BY Members
<1>3. OwedMessages' = OwedMessages
  BY <1>1 DEF OwedMessages
<1>4. RejectedMessages' = RejectedMessages
  BY <1>2 DEF RejectedMessages
<1>5. QED
  BY <1>3, <1>4 DEF Stutters

\* What a worker gives up for good, and what it acks, is no longer its debt.
LEMMA SettleRefines ==
  ASSUME Typed, Inv, NEW w \in Workers, Busy(w), OnChannel(cur[w]),
         Forget(cur[w].copy)
  PROVE  /\ cur[w].msg \in OwedMessages
         /\ OwedMessages' \in {OwedMessages, OwedMessages \ {cur[w].msg}}
         /\ \A m : (\E c \in Copies : place'[c] = "dlq" /\ body'[c] = m)
                  <=> (\E c \in Copies : place[c] = "dlq" /\ body[c] = m)
<1>1. /\ cur[w].copy \in Copies /\ place[cur[w].copy] = "unacked"
      /\ body[cur[w].copy] = cur[w].msg
  BY DEF Inv, HeldInv, Fits, Typed, Delivery, Busy
<1>2. /\ place'[cur[w].copy] = "free"
      /\ \A c \in Copies : c # cur[w].copy => place'[c] = place[c] /\ body'[c] = body[c]
  BY <1>1 DEF Forget, Store, Typed, TypeOK
<1>3. cur[w].msg \in OwedMessages
  BY <1>1, Members DEF Owed
<1>4. \A m : m # cur[w].msg => (m \in OwedMessages' <=> m \in OwedMessages)
  <2> SUFFICES ASSUME NEW m, m # cur[w].msg
               PROVE  m \in OwedMessages' <=> m \in OwedMessages
    OBVIOUS
  <2>1. \A c \in Copies : (Owed(c)' /\ body'[c] = m) <=> (Owed(c) /\ body[c] = m)
    BY <1>1, <1>2 DEF Owed
  <2>2. QED
    BY <2>1, Members
<1>5. OwedMessages' \in {OwedMessages, OwedMessages \ {cur[w].msg}}
  <2>1. CASE cur[w].msg \in OwedMessages'
    <3>1. \A m : m \in OwedMessages' <=> m \in OwedMessages
      BY <1>3, <1>4, <2>1
    <3>2. OwedMessages' = OwedMessages
      BY <3>1 DEF OwedMessages
    <3>3. QED
      BY <3>2
  <2>2. CASE cur[w].msg \notin OwedMessages'
    <3>1. \A m : m \in OwedMessages' <=> m \in OwedMessages \ {cur[w].msg}
      BY <1>4, <2>2
    <3>2. OwedMessages' = OwedMessages \ {cur[w].msg}
      BY <3>1 DEF OwedMessages
    <3>3. QED
      BY <3>2
  <2>3. QED
    BY <2>1, <2>2
<1>6. QED
  BY <1>1, <1>2, <1>3, <1>5

\* A step that stores a copy of a message which is owed only adds to the debt.
LEMMA StoreRefines ==
  ASSUME Typed, NEW c \in Copies, ~Live(c), NEW m, NEW n,
         NEW p \in {"ready", "retry"}, Store(c, m, n, p), UNCHANGED dropped
  PROVE  OwedMessages' = OwedMessages \cup {m} /\ RejectedMessages' = RejectedMessages
<1>1. /\ place[c] = "free" /\ place'[c] = p /\ body'[c] = m
      /\ \A d \in Copies : d # c => place'[d] = place[d] /\ body'[d] = body[d]
  BY DEF Store, Live, Typed, TypeOK
<1>2. \A x : x \in OwedMessages' <=> x \in OwedMessages \cup {m}
  <2>1. \A d \in Copies : d # c => (Owed(d)' <=> Owed(d))
    BY <1>1 DEF Owed
  <2>2. Owed(c)' /\ ~Owed(c)
    BY <1>1 DEF Owed
  <2>3. QED
    BY <1>1, <2>1, <2>2, Members
<1>3. \A x : x \in RejectedMessages' <=> x \in RejectedMessages
  <2>1. \A d \in Copies : place'[d] = "dlq" /\ body'[d] = body[d] <=> place[d] = "dlq" /\ body'[d] = body[d]
    BY <1>1
  <2>2. \A d \in Copies : place'[d] = "dlq" => body'[d] = body[d]
    BY <1>1
  <2>3. \A d \in Copies : place[d] = "dlq" => body'[d] = body[d]
    BY <1>1
  <2>4. QED
    BY <2>1, <2>2, <2>3, Members
<1>4. OwedMessages' = OwedMessages \cup {m}
  BY <1>2 DEF OwedMessages
<1>5. RejectedMessages' = RejectedMessages
  BY <1>3 DEF RejectedMessages
<1>6. QED
  BY <1>4, <1>5

-----------------------------------------------------------------------------
(* Every step maps to a step of the abstract specification, or a stutter. *)

Refined == (\E m \in Messages : Abstract!Accept(m) \/ Abstract!Handle(m) \/ Abstract!Reject(m)
                                \/ Abstract!Release(m) \/ Abstract!OweAgain(m))
           \/ Stutters

\* The abstract actions, in terms of the concrete state.
LEMMA AbstractActions ==
  ASSUME NEW m
  PROVE  /\ Abstract!Accept(m) <=>
              /\ m \notin OwedMessages \cup handled \cup RejectedMessages
              /\ OwedMessages' = OwedMessages \cup {m}
              /\ UNCHANGED <<handled, RejectedMessages>>
         /\ Abstract!Handle(m) <=>
              /\ m \in OwedMessages \cup handled \cup RejectedMessages
              /\ handled' = handled \cup {m}
              /\ UNCHANGED <<OwedMessages, RejectedMessages>>
         /\ Abstract!Reject(m) <=>
              /\ m \in OwedMessages
              /\ RejectedMessages' = RejectedMessages \cup {m}
              /\ OwedMessages' \in {OwedMessages, OwedMessages \ {m}}
              /\ UNCHANGED handled
         /\ Abstract!Release(m) <=>
              /\ m \in OwedMessages
              /\ m \in handled \cup RejectedMessages
              /\ OwedMessages' = OwedMessages \ {m}
              /\ UNCHANGED <<handled, RejectedMessages>>
         /\ Abstract!OweAgain(m) <=>
              /\ m \in handled \cup RejectedMessages
              /\ OwedMessages' = OwedMessages \cup {m}
              /\ UNCHANGED <<handled, RejectedMessages>>
  BY DEF Abstract!Accept, Abstract!Handle, Abstract!Reject, Abstract!Release,
         Abstract!OweAgain, OwedMessages, RejectedMessages

\* Copies requeued by a closing channel, and everything else that is not a
\* worker's or a producer's doing, is not seen.
LEMMA BrokerStutters ==
  ASSUME Typed, UNCHANGED <<body, handled, dropped>>,
         place' = place \/ place' = Requeued
  PROVE  Stutters
<1>1. \A c \in Copies : (Owed(c)' <=> Owed(c)) /\ (place'[c] = "dlq" <=> place[c] = "dlq")
  BY DEF Requeued, Owed, Typed, TypeOK
<1>2. QED
  BY <1>1, SameCopies

LEMMA LoopRefines == Typed /\ Loop => Stutters
<1> SUFFICES ASSUME Typed, Loop PROVE Stutters
  OBVIOUS
<1>1. ASSUME NEW c \in Copies, LoopDeliver(c) PROVE Stutters
  <2>1. \A d \in Copies : /\ body'[d] = body[d]
                          /\ (Owed(d)' <=> Owed(d))
                          /\ (place'[d] = "dlq" <=> place[d] = "dlq")
    BY <1>1 DEF LoopDeliver, Owed, Typed, TypeOK
  <2>2. QED
    BY <1>1, <2>1, SameCopies DEF LoopDeliver, history
<1>2. CASE \/ LoopCheckDone \/ LoopLock \/ LoopReconnect \/ LoopQos \/ LoopBind
           \/ LoopUnlockUnheld \/ LoopConsume \/ LoopLeave
  <2>1. UNCHANGED <<body, handled, dropped>> /\ (place' = place \/ place' = Requeued)
    BY <1>2 DEF LoopCheckDone, LoopLock, LoopReconnect, LoopQos, LoopBind, LoopUnlockUnheld,
                LoopConsume, LoopLeave, Die, broker, history
  <2>2. QED
    BY <2>1, BrokerStutters
<1>3. QED
  BY <1>1, <1>2 DEF Loop

LEMMA EnvironmentRefines == Typed /\ Inv /\ SentInv /\ (Environment \/ Close) => Refined
<1> SUFFICES ASSUME Typed, Inv, SentInv, Environment \/ Close PROVE Refined
  OBVIOUS
<1>1. ASSUME NEW m \in Messages, Publish(m) PROVE Refined
  <2>1. m \notin OwedMessages \cup handled \cup RejectedMessages
    BY <1>1, Members DEF Publish, SentInv, Owed, Live
  <2>2. OwedMessages' = OwedMessages \cup {m} /\ RejectedMessages' = RejectedMessages
    BY <1>1, StoreRefines DEF Publish
  <2>3. Abstract!Accept(m)
    BY <1>1, <2>1, <2>2, AbstractActions DEF Publish
  <2>4. QED
    BY <2>3 DEF Refined
<1>2. ASSUME NEW c \in Copies, Expire(c) PROVE Refined
  <2>1. \A d \in Copies : /\ body'[d] = body[d]
                          /\ (Owed(d)' <=> Owed(d))
                          /\ (place'[d] = "dlq" <=> place[d] = "dlq")
    BY <1>2 DEF Expire, Owed, Typed, TypeOK
  <2>2. QED
    BY <1>2, <2>1, SameCopies DEF Expire, history, Refined
<1>3. CASE LoseConnection \/ BrokerStop \/ BrokerStart \/ KillProcess \/ Restart \/ Close
  <2>1. UNCHANGED <<body, handled, dropped>> /\ (place' = place \/ place' = Requeued)
    BY <1>3 DEF LoseConnection, BrokerStop, BrokerStart, KillProcess, Restart, Close, CloseDone,
                CloseChannel, DropChannel, Die, broker, history
  <2>2. QED
    BY <2>1, BrokerStutters DEF Refined
<1>4. QED
  BY <1>1, <1>2, <1>3 DEF Environment

\* Acking a message that is handled, or of which a later attempt is kept.
LEMMA AckRefines ==
  ASSUME Typed, Inv, NEW w \in Workers, WorkerAck(w) \/ WorkerRetryAck(w)
  PROVE  Refined
<1> DEFINE m == cur[w].msg
<1>1. /\ Busy(w) /\ Ack(w) /\ UNCHANGED <<chan, epoch, history>>
      /\ m \in Messages
  BY DEF WorkerAck, WorkerRetryAck, Busy, link, Typed, Delivery
<1>2. CASE ~OnChannel(cur[w])
  <2>1. UNCHANGED <<place, body, handled, dropped>>
    BY <1>1, <1>2 DEF Ack, OnOpenChannel, OnChannel, history
  <2>2. QED
    BY <2>1, BrokerStutters DEF Refined
<1>3. CASE OnChannel(cur[w])
  <2>1. Forget(cur[w].copy) /\ UNCHANGED <<handled, dropped>>
    BY <1>1, <1>3 DEF Ack, OnOpenChannel, OnChannel, history
  <2>2. /\ m \in OwedMessages
        /\ OwedMessages' \in {OwedMessages, OwedMessages \ {m}}
        /\ \A x : (\E c \in Copies : place'[c] = "dlq" /\ body'[c] = x)
                 <=> (\E c \in Copies : place[c] = "dlq" /\ body[c] = x)
    BY <1>1, <1>3, <2>1, SettleRefines
  <2>3. RejectedMessages' = RejectedMessages
    <3>1. \A x : x \in RejectedMessages' <=> x \in RejectedMessages
      BY <2>1, <2>2, Members
    <3>2. QED
      BY <3>1 DEF RejectedMessages
  <2>4. CASE OwedMessages' = OwedMessages
    BY <2>1, <2>3, <2>4 DEF Refined, Stutters
  <2>5. CASE OwedMessages' = OwedMessages \ {m} /\ m \notin OwedMessages'
    <3>1. m \in handled \cup RejectedMessages
      <4>1. Done(m) \/ Superseded(cur[w])
        BY <1>3 DEF WorkerAck, WorkerRetryAck, Inv, KeptInv, Done
      <4>2. CASE Done(m)
        BY <4>2, Members DEF Done
      <4>3. ASSUME NEW c \in Copies, Live(c), body[c] = m, attempts[c] > cur[w].tries
            PROVE  m \in RejectedMessages
        <5>1. attempts[cur[w].copy] = cur[w].tries /\ cur[w].copy \in Copies /\ cur[w].tries \in Nat
          BY <1>1, <1>3 DEF Inv, HeldInv, Fits, Typed, Delivery, Busy
        <5>2. c # cur[w].copy
          BY <4>3, <5>1
        <5>3. place'[c] = place[c] /\ body'[c] = m
          BY <2>1, <4>3, <5>1, <5>2 DEF Forget, Store, Typed, TypeOK
        <5>4. ~Owed(c)'
          BY <2>5, <5>3, Members
        <5>5. place[c] = "dlq"
          BY <4>3, <5>3, <5>4 DEF Owed, Live, Typed, TypeOK
        <5>6. QED
          BY <4>3, <5>5, Members
      <4>4. QED
        BY <4>1, <4>2, <4>3 DEF Superseded
    <3>2. \E x \in Messages : Abstract!Release(x)
      <4>1. PICK x \in Messages : x = m
        BY <1>1
      <4>2. Abstract!Release(x)
        BY <2>1, <2>2, <2>3, <2>5, <3>1, <4>1, AbstractActions
      <4>3. QED
        BY <4>2
    <3>3. QED
      BY <1>1, <3>2 DEF Refined
  <2>6. QED
    BY <2>2, <2>4, <2>5
<1>4. QED
  BY <1>2, <1>3

LEMMA RejectRefines ==
  ASSUME Typed, Inv, NEW w \in Workers, WorkerReject(w)
  PROVE  Refined
<1> DEFINE m == cur[w].msg
<1>1. /\ Busy(w) /\ UNCHANGED <<chan, epoch, handled>> /\ cur[w] \in Delivery
      /\ m \in Messages /\ cur[w].copy \in Copies
  BY DEF WorkerReject, Busy, link, Typed, Delivery
<1>2. CASE ~OnChannel(cur[w])
  <2>1. UNCHANGED <<place, body, handled, dropped>>
    BY <1>1, <1>2 DEF WorkerReject, OnOpenChannel, OnChannel
  <2>2. QED
    BY <2>1, BrokerStutters DEF Refined
<1>3. CASE OnChannel(cur[w]) /\ ~HasDLQ
  <2>1. Forget(cur[w].copy) /\ dropped' = dropped \cup {m}
    BY <1>1, <1>3 DEF WorkerReject, OnOpenChannel, OnChannel
  <2>2. /\ m \in OwedMessages
        /\ OwedMessages' \in {OwedMessages, OwedMessages \ {m}}
        /\ \A x : (\E c \in Copies : place'[c] = "dlq" /\ body'[c] = x)
                 <=> (\E c \in Copies : place[c] = "dlq" /\ body[c] = x)
    BY <1>1, <1>3, <2>1, SettleRefines
  <2>3. RejectedMessages' = RejectedMessages \cup {m}
    <3>1. \A x : x \in RejectedMessages' <=> x \in RejectedMessages \cup {m}
      BY <2>1, <2>2, Members
    <3>2. QED
      BY <3>1 DEF RejectedMessages
  <2>4. \E x \in Messages : Abstract!Reject(x)
    <3>1. PICK x \in Messages : x = m
      BY <1>1
    <3>2. Abstract!Reject(x)
      BY <1>1, <2>2, <2>3, <3>1, AbstractActions
    <3>3. QED
      BY <3>2
  <2>5. QED
    BY <1>1, <2>4 DEF Refined
<1>4. CASE OnChannel(cur[w]) /\ HasDLQ
  <2>1. place' = [place EXCEPT ![cur[w].copy] = "dlq"] /\ UNCHANGED <<body, dropped>>
    BY <1>1, <1>4 DEF WorkerReject, OnOpenChannel, OnChannel
  <2>2. place[cur[w].copy] = "unacked" /\ body[cur[w].copy] = m
    BY <1>1, <1>4 DEF Inv, HeldInv, Fits
  <2>3. \A c \in Copies : /\ c # cur[w].copy => place'[c] = place[c]
                          /\ c = cur[w].copy => place'[c] = "dlq"
    BY <1>1, <2>1 DEF Typed, TypeOK
  <2>4. m \in OwedMessages
    BY <1>1, <2>2, Members DEF Owed
  <2>5. \A x : x # m => (x \in OwedMessages' <=> x \in OwedMessages)
    <3> SUFFICES ASSUME NEW x, x # m PROVE x \in OwedMessages' <=> x \in OwedMessages
      OBVIOUS
    <3>1. \A c \in Copies : (Owed(c)' /\ body'[c] = x) <=> (Owed(c) /\ body[c] = x)
      BY <2>1, <2>2, <2>3 DEF Owed
    <3>2. QED
      BY <3>1, Members
  <2>6. OwedMessages' \in {OwedMessages, OwedMessages \ {m}}
    <3>1. CASE m \in OwedMessages'
      <4>1. \A x : x \in OwedMessages' <=> x \in OwedMessages
        BY <2>4, <2>5, <3>1
      <4>2. OwedMessages' = OwedMessages
        BY <4>1 DEF OwedMessages
      <4>3. QED
        BY <4>2
    <3>2. CASE m \notin OwedMessages'
      <4>1. \A x : x \in OwedMessages' <=> x \in OwedMessages \ {m}
        BY <2>5, <3>2
      <4>2. OwedMessages' = OwedMessages \ {m}
        BY <4>1 DEF OwedMessages
      <4>3. QED
        BY <4>2
    <3>3. QED
      BY <3>1, <3>2
  <2>7. RejectedMessages' = RejectedMessages \cup {m}
    <3>1. \A x : x \in RejectedMessages' <=> x \in RejectedMessages \cup {m}
      <4> SUFFICES ASSUME NEW x
                   PROVE  x \in RejectedMessages' <=> x \in RejectedMessages \cup {m}
        OBVIOUS
      <4>1. CASE x = m
        BY <1>1, <2>1, <2>2, <2>3, <4>1, Members
      <4>2. CASE x # m
        <5>1. \A c \in Copies : (place'[c] = "dlq" /\ body'[c] = x) <=> (place[c] = "dlq" /\ body[c] = x)
          BY <2>1, <2>2, <2>3, <4>2
        <5>2. QED
          BY <2>1, <4>2, <5>1, Members
      <4>3. QED
        BY <4>1, <4>2
    <3>2. QED
      BY <3>1 DEF RejectedMessages
  <2>8. \E x \in Messages : Abstract!Reject(x)
    <3>1. PICK x \in Messages : x = m
      BY <1>1
    <3>2. Abstract!Reject(x)
      BY <1>1, <2>4, <2>6, <2>7, <3>1, AbstractActions
    <3>3. QED
      BY <3>2
  <2>9. QED
    BY <1>1, <2>8 DEF Refined
<1>5. QED
  BY <1>2, <1>3, <1>4

LEMMA WorkerRefines ==
  ASSUME Typed, Inv, SentInv, NEW w \in Workers, Worker(w)
  PROVE  Refined
<1>1. CASE WorkerTake(w) \/ WorkerRetryFail(w) \/ WorkerRetryPanic(w)
  <2>1. UNCHANGED <<body, handled, dropped>> /\ (place' = place \/ place' = Requeued)
    BY <1>1 DEF WorkerTake, WorkerRetryFail, WorkerRetryPanic, Die, broker, history
  <2>2. QED
    BY <2>1, BrokerStutters DEF Refined
<1>2. CASE WorkerCallback(w)
  <2> DEFINE m == cur[w].msg
  <2>1. /\ UNCHANGED <<place, body, dropped>> /\ m \in Messages
        /\ m \in sent /\ (handled' = handled \/ handled' = handled \cup {m})
    BY <1>2 DEF WorkerCallback, broker, SentInv, Busy, Typed, Delivery
  <2>2. UNCHANGED <<OwedMessages, RejectedMessages>>
    BY <2>1 DEF OwedMessages, RejectedMessages
  <2>3. CASE handled' = handled
    BY <2>2, <2>3 DEF Refined, Stutters
  <2>4. CASE handled' = handled \cup {m}
    <3>1. \E x \in Messages : Abstract!Handle(x)
      <4>1. PICK x \in Messages : x = m
        BY <2>1
      <4>2. Abstract!Handle(x)
        BY <2>1, <2>2, <2>4, Accounted, <4>1, AbstractActions
      <4>3. QED
        BY <4>2
    <3>2. QED
      BY <2>1, <3>1 DEF Refined
  <2>5. QED
    BY <2>1, <2>3, <2>4
<1>3. CASE WorkerAck(w) \/ WorkerRetryAck(w)
  BY <1>3, AckRefines
<1>4. CASE WorkerReject(w)
  BY <1>4, RejectRefines
<1>5. CASE WorkerRetryPublish(w)
  <2> DEFINE m == cur[w].msg
  <2>1. m \in Messages /\ m \in sent /\ UNCHANGED <<handled, dropped>>
    BY <1>5 DEF WorkerRetryPublish, Retryable, SentInv, Busy, Typed, Delivery, history
  <2>2. CASE ~HasRetryExchange
    BY <1>5, <2>1, <2>2, BrokerStutters DEF WorkerRetryPublish, DropChannel, Refined
  <2>3. CASE HasRetryExchange
    <3>1. OwedMessages' = OwedMessages \cup {m} /\ RejectedMessages' = RejectedMessages
      BY <1>5, <2>1, <2>3, StoreRefines DEF WorkerRetryPublish
    <3>2. CASE m \in OwedMessages
      BY <2>1, <3>1, <3>2 DEF Refined, Stutters
    <3>3. CASE m \notin OwedMessages
      <4>1. m \in handled \cup RejectedMessages
        BY <2>1, <3>3, Accounted
      <4>2. \E x \in Messages : Abstract!OweAgain(x)
        <5>1. PICK x \in Messages : x = m
          BY <2>1
        <5>2. Abstract!OweAgain(x)
          BY <2>1, <3>1, <4>1, <5>1, AbstractActions
        <5>3. QED
          BY <5>2
      <4>3. QED
        BY <2>1, <4>2 DEF Refined
    <3>4. QED
      BY <3>2, <3>3
  <2>4. QED
    BY <2>2, <2>3
<1>6. QED
  BY <1>1, <1>2, <1>3, <1>4, <1>5 DEF Worker

\* The subscriber implements at-least-once delivery (the worker pool of Start:
\* ack after the callback, retry before ack, requeue on loss).
THEOREM Implements == Spec => AtLeastOnce
<1>1. Init => Abstract!Init
  BY DEF Init, Abstract!Init
<1>2. Typed /\ Inv /\ SentInv /\ [Next]_vars => [Abstract!Next]_(Abstract!vars)
  <2> SUFFICES ASSUME Typed, Inv, SentInv, [Next]_vars
               PROVE  [Abstract!Next]_(Abstract!vars)
    OBVIOUS
  <2>1. Refined
    <3>1. CASE Next
      BY <3>1, LoopRefines, WorkerRefines, EnvironmentRefines DEF Next, Refined
    <3>2. CASE UNCHANGED vars
      BY <3>2, BrokerStutters DEF vars, broker, history, Refined
    <3>3. QED
      BY <3>1, <3>2
  <2>2. Stutters => UNCHANGED Abstract!vars
    BY DEF Stutters, Abstract!vars, OwedMessages, RejectedMessages
  <2>3. QED
    BY <2>1, <2>2 DEF Refined, Abstract!Next
<1>3. Spec => [](Typed /\ Inv /\ SentInv)
  BY TypedInit, InitInv, SentInit, TypedStep, InvStep, SentStep, PTL DEF Spec
<1>4. QED
  BY <1>1, <1>2, <1>3, PTL DEF Spec, AtLeastOnce, Abstract!Spec
=============================================================================
