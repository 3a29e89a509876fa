----------------------------- MODULE Subscriber -----------------------------
(***************************************************************************)
(* The RabbitMQ consumer of the Go services: one queue of the broker, the  *)
(* subscriber's consume loop, its pool of workers and its Close.           *)
(*                                                                         *)
(* The broker (external) keeps copies of messages: ready in the queue,     *)
(* unacked on the consumer's channel, waiting in the retry queue, or in    *)
(* the dead-letter queue.  A delivery is bound to the channel it arrived   *)
(* on, which `epoch' numbers: an ack or nack of a delivery whose channel   *)
(* is gone reaches nobody, and the broker has requeued its copy.           *)
(***************************************************************************)
EXTENDS Naturals, Sequences, FiniteSets

CONSTANTS
  Messages,          \* what producers publish to the queue
  Copies,            \* slots for the copies the broker holds (a bound)
  Workers,           \* the goroutines of the pool; also Qos and cap(jobs)
  MaxRetries,        \* RABBITMQ_MAX_RETRIES
  HasRetryExchange,  \* cleanapp-retry.<queue> was created for this queue
  HasDLQ,            \* the queue has the dead-letter policy
  CanClose,          \* the service may be asked to shut down
  MaxFaults,         \* how often the environment may fail (a bound)
  None

ASSUME ConstantsAssumption ==
  /\ MaxRetries \in Nat
  /\ MaxFaults \in Nat
  /\ {HasRetryExchange, HasDLQ, CanClose} \subseteq BOOLEAN
  /\ None \notin Messages

VARIABLES
  up,        \* the broker accepts connections
  place,     \* where the broker keeps a copy
  body,      \* the message a copy holds
  attempts,  \* its x-cleanapp-retry-count header
  conn,      \* s.conn
  chan,      \* s.channel
  epoch,     \* number of the channel s.channel is, or was
  pc,        \* control point of the consume loop
  locked,    \* s.opMu
  jobs,      \* deliveries buffered for the pool
  wstate,    \* what a worker is doing
  cur,       \* the delivery a worker holds
  shutdown,  \* progress of Close
  sent,      \* history: messages producers have published
  handled,   \* history: messages a callback has returned nil for
  dropped,   \* history: messages rejected with no dead-letter queue
  faults     \* history: failures so far

broker  == <<up, place, body, attempts>>
link    == <<conn, chan, epoch>>
pool    == <<jobs, wstate, cur>>
history == <<sent, handled, dropped>>
vars == <<broker, link, pc, locked, pool, shutdown, history, faults>>

Delivery == [copy : Copies, tag : Nat, msg : Messages, tries : Nat]

TypeOK ==
  /\ up \in BOOLEAN
  /\ place \in [Copies -> {"free", "ready", "unacked", "retry", "dlq"}]
  /\ body \in [Copies -> Messages \cup {None}]
  /\ attempts \in [Copies -> Nat]
  /\ conn \in {"nil", "open", "closed"}
  /\ chan \in {"nil", "open", "closed"}
  /\ epoch \in Nat
  /\ pc \in {"top", "enter", "connect", "qos", "bind", "unlocked",
             "consume", "receive", "stopped", "dead"}
  /\ locked \in BOOLEAN
  /\ jobs \in Seq(Delivery)
  /\ wstate \in [Workers -> {"idle", "running", "succeeded", "failed",
                             "refused", "published"}]
  /\ cur \in [Workers -> Delivery \cup {None}]
  /\ shutdown \in {"no", "closing", "done"}
  /\ sent \subseteq Messages
  /\ handled \subseteq Messages
  /\ dropped \subseteq Messages
  /\ faults \in Nat

Init ==
  /\ up = TRUE
  /\ place = [c \in Copies |-> "free"]
  /\ body = [c \in Copies |-> None]
  /\ attempts = [c \in Copies |-> 0]
  /\ conn = "open"
  /\ chan = "open"
  /\ epoch = 0
  /\ pc = "top"
  /\ locked = FALSE
  /\ jobs = <<>>
  /\ wstate = [w \in Workers |-> "idle"]
  /\ cur = [w \in Workers |-> None]
  /\ shutdown = "no"
  /\ sent = {}
  /\ handled = {}
  /\ dropped = {}
  /\ faults = 0

-----------------------------------------------------------------------------
(* The broker. *)

Live(c) == place[c] # "free"

\* What becomes of the copies when the channel they are unacked on closes.
Requeued == [c \in Copies |-> IF place[c] = "unacked" THEN "ready" ELSE place[c]]

Store(c, m, n, p) ==
  /\ place' = [place EXCEPT ![c] = p]
  /\ body' = [body EXCEPT ![c] = m]
  /\ attempts' = [attempts EXCEPT ![c] = n]

Forget(c) == Store(c, None, 0, "free")

\* A producer publishes a message to an exchange the queue is bound to.
Publish(m) ==
  /\ up
  /\ m \notin sent
  /\ sent' = sent \cup {m}
  /\ \E c \in Copies : ~Live(c) /\ Store(c, m, 0, "ready")
  /\ UNCHANGED <<up, link, pc, locked, pool, shutdown, handled, dropped, faults>>

\* The delay of the retry queue is over: the copy goes back to the queue.
Expire(c) ==
  /\ up
  /\ place[c] = "retry"
  /\ place' = [place EXCEPT ![c] = "ready"]
  /\ UNCHANGED <<up, body, attempts, link, pc, locked, pool, shutdown, history,
                 faults>>

-----------------------------------------------------------------------------
(* Failures of the environment. *)

\* The client's end of a channel that is gone.
Closed(s) == IF s = "open" THEN "closed" ELSE s

DropChannel ==
  /\ chan' = Closed(chan)
  /\ epoch' = epoch + 1
  /\ place' = Requeued

LoseConnection ==
  /\ faults < MaxFaults
  /\ conn = "open"
  /\ conn' = "closed"
  /\ DropChannel
  /\ faults' = faults + 1
  /\ UNCHANGED <<up, body, attempts, pc, locked, pool, shutdown, history>>

BrokerStop ==
  /\ faults < MaxFaults
  /\ up
  /\ up' = FALSE
  /\ conn' = Closed(conn)
  /\ DropChannel
  /\ faults' = faults + 1
  /\ UNCHANGED <<body, attempts, pc, locked, pool, shutdown, history>>

BrokerStart ==
  /\ ~up
  /\ up' = TRUE
  /\ UNCHANGED <<place, body, attempts, link, pc, locked, pool, shutdown,
                 history, faults>>

\* The process dies: everything it held in memory is gone.
Die ==
  /\ pc' = "dead"
  /\ conn' = "nil"
  /\ chan' = "nil"
  /\ epoch' = 0
  /\ place' = Requeued
  /\ locked' = FALSE
  /\ jobs' = <<>>
  /\ wstate' = [w \in Workers |-> "idle"]
  /\ cur' = [w \in Workers |-> None]
  /\ shutdown' = "no"
  /\ UNCHANGED <<up, body, attempts, history>>

KillProcess ==
  /\ faults < MaxFaults
  /\ pc # "dead"
  /\ faults' = faults + 1
  /\ Die

\* The container is restarted, and NewSubscriber succeeds once the broker is up.
Restart ==
  /\ pc = "dead"
  /\ up
  /\ pc' = "top"
  /\ conn' = "open"
  /\ chan' = "open"
  /\ UNCHANGED <<broker, epoch, locked, pool, shutdown, history, faults>>

-----------------------------------------------------------------------------
(* The consume loop. *)

LoopCheckDone ==
  /\ pc = "top"
  /\ pc' = IF shutdown = "no" THEN "enter" ELSE "stopped"
  /\ UNCHANGED <<broker, link, locked, pool, shutdown, history, faults>>

\* Slip: only a missing channel is reconnected, not a closed connection.
LoopLockNilOnly ==
  /\ pc = "enter"
  /\ ~locked
  /\ locked' = TRUE
  /\ pc' = IF chan = "nil" THEN "connect" ELSE "qos"
  /\ UNCHANGED <<broker, link, pool, shutdown, history, faults>>

LoopLock ==
  /\ pc = "enter"
  /\ ~locked
  /\ locked' = TRUE
  /\ pc' = IF conn # "open" \/ chan = "nil" THEN "connect" ELSE "qos"
  /\ UNCHANGED <<broker, link, pool, shutdown, history, faults>>

LoopReconnect ==
  /\ pc = "connect"
  /\ IF up
     THEN /\ conn' = "open"
          /\ chan' = "open"
          /\ pc' = "qos"
          /\ UNCHANGED locked
     ELSE /\ conn' = "nil"
          /\ chan' = "nil"
          /\ pc' = "top"
          /\ locked' = FALSE
  /\ UNCHANGED <<broker, epoch, pool, shutdown, history, faults>>

LoopQos ==
  /\ pc = "qos"
  /\ IF chan = "open"
     THEN pc' = "bind" /\ UNCHANGED locked
     ELSE pc' = "top" /\ locked' = FALSE
  /\ UNCHANGED <<broker, link, pool, shutdown, history, faults>>

\* A failed QueueBind releases opMu, but its `continue' is the next turn of the
\* loop over the routing keys, not of the consume loop.
LoopBind ==
  /\ pc = "bind"
  /\ IF chan = "open"
     THEN pc' = "consume" /\ UNCHANGED locked
     ELSE pc' = "unlocked" /\ locked' = FALSE
  /\ UNCHANGED <<broker, link, pool, shutdown, history, faults>>

\* After a failed QueueBind the remaining bindings and Consume run without opMu,
\* then opMu is unlocked again: fatal at once when nobody holds it, and at the
\* Unlock of the worker whose lock this was otherwise.
LoopUnlockUnheld ==
  /\ pc = "unlocked"
  /\ Die
  /\ UNCHANGED faults

LoopConsume ==
  /\ pc = "consume"
  /\ pc' = IF chan = "open" THEN "receive" ELSE "top"
  /\ locked' = FALSE
  /\ UNCHANGED <<broker, link, pool, shutdown, history, faults>>

\* The broker delivers a copy within the prefetch limit, and the loop puts the
\* delivery on the jobs channel, which must have room.
LoopDeliver(c) ==
  /\ pc = "receive"
  /\ chan = "open"
  /\ place[c] = "ready"
  /\ Cardinality({d \in Copies : place[d] = "unacked"}) < Cardinality(Workers)
  /\ Len(jobs) < Cardinality(Workers)
  /\ place' = [place EXCEPT ![c] = "unacked"]
  /\ jobs' = Append(jobs, [copy |-> c, tag |-> epoch, msg |-> body[c],
                           tries |-> attempts[c]])
  /\ UNCHANGED <<up, body, attempts, link, pc, locked, wstate, cur, shutdown,
                 history, faults>>

\* Slip: the loop does not notice that its delivery channel was closed.
LoopLeaveWhenDone ==
  /\ pc = "receive"
  /\ shutdown # "no"
  /\ pc' = "stopped"
  /\ UNCHANGED <<broker, link, locked, pool, shutdown, history, faults>>

\* Out of `range msgs': its channel was closed, or done was.
LoopLeave ==
  /\ pc = "receive"
  /\ \/ chan # "open" /\ pc' = "top"
     \/ shutdown # "no" /\ pc' = "stopped"
  /\ UNCHANGED <<broker, link, locked, pool, shutdown, history, faults>>

-----------------------------------------------------------------------------
(* The worker pool. *)

\* Slip: the last retry is one too late.
ExhaustedLate(w) == cur[w].tries > MaxRetries

NextTries(n) == n + 1

Exhausted(w) == cur[w].tries >= MaxRetries

\* The delivery a worker holds came on the channel that is still open.
OnOpenChannel(w) == chan = "open" /\ cur[w].tag = epoch

WorkerTake(w) ==
  /\ wstate[w] = "idle"
  /\ jobs # <<>>
  /\ wstate' = [wstate EXCEPT ![w] = "running"]
  /\ cur' = [cur EXCEPT ![w] = Head(jobs)]
  /\ jobs' = Tail(jobs)
  /\ UNCHANGED <<broker, link, pc, locked, shutdown, history, faults>>

\* The callback returns nil, a transient error, or what is never retried: a
\* permanent error, a panic, or no callback for the routing key.
WorkerCallback(w) ==
  /\ wstate[w] = "running"
  /\ \E r \in {"succeeded", "failed", "refused"} :
       /\ wstate' = [wstate EXCEPT ![w] = r]
       /\ handled' = IF r = "succeeded" THEN handled \cup {cur[w].msg} ELSE handled
  /\ UNCHANGED <<broker, link, pc, locked, jobs, cur, shutdown, sent, dropped,
                 faults>>

Finish(w) ==
  /\ wstate' = [wstate EXCEPT ![w] = "idle"]
  /\ cur' = [cur EXCEPT ![w] = None]

\* delivery.Ack
Ack(w) == IF OnOpenChannel(w) THEN Forget(cur[w].copy)
                              ELSE UNCHANGED <<place, body, attempts>>

\* Slip: a transient failure is acked like a success.
WorkerAckFailed(w) ==
  /\ wstate[w] \in {"succeeded", "failed"}
  /\ ~locked
  /\ Ack(w)
  /\ Finish(w)
  /\ UNCHANGED <<up, link, pc, locked, jobs, shutdown, history, faults>>

WorkerAck(w) ==
  /\ wstate[w] = "succeeded"
  /\ ~locked
  /\ Ack(w)
  /\ Finish(w)
  /\ UNCHANGED <<up, link, pc, locked, jobs, shutdown, history, faults>>

\* Slip: a delivery that is not retried is not nacked either.
WorkerRejectUnsettled(w) ==
  /\ wstate[w] \in {"refused", "failed"}
  /\ wstate[w] = "failed" => Exhausted(w)
  /\ Finish(w)
  /\ UNCHANGED <<broker, link, pc, locked, jobs, shutdown, history, faults>>

\* delivery.Nack without requeue: dead-lettered, or discarded by the broker.
WorkerReject(w) ==
  /\ \/ wstate[w] = "refused"
     \/ wstate[w] = "failed" /\ Exhausted(w)
  /\ ~locked
  /\ IF ~OnOpenChannel(w)
     THEN UNCHANGED <<place, body, attempts, dropped>>
     ELSE IF HasDLQ
     THEN /\ place' = [place EXCEPT ![cur[w].copy] = "dlq"]
          /\ UNCHANGED <<body, attempts, dropped>>
     ELSE /\ Forget(cur[w].copy)
          /\ dropped' = dropped \cup {cur[w].msg}
  /\ Finish(w)
  /\ UNCHANGED <<up, link, pc, locked, jobs, shutdown, sent, handled, faults>>

Retryable(w) == wstate[w] = "failed" /\ ~Exhausted(w) /\ ~locked

\* The copy for the retry exchange is published on s.channel, opMu held.  The
\* broker closes the channel when there is no such exchange.
WorkerRetryPublish(w) ==
  /\ Retryable(w)
  /\ chan = "open"
  /\ IF HasRetryExchange
     THEN /\ \E c \in Copies :
               ~Live(c) /\ Store(c, cur[w].msg, NextTries(cur[w].tries), "retry")
          /\ UNCHANGED <<chan, epoch>>
     ELSE /\ DropChannel
          /\ UNCHANGED <<body, attempts>>
  /\ wstate' = [wstate EXCEPT ![w] = "published"]
  /\ locked' = TRUE
  /\ UNCHANGED <<up, conn, pc, jobs, cur, shutdown, history, faults>>

\* The original is acked on its own channel, and opMu is unlocked.
WorkerRetryAck(w) ==
  /\ wstate[w] = "published"
  /\ locked' = FALSE
  /\ Ack(w)
  /\ Finish(w)
  /\ UNCHANGED <<up, link, pc, jobs, shutdown, history, faults>>

\* Publish fails on a closed channel, and the Nack with requeue that follows
\* has no channel either.
WorkerRetryFail(w) ==
  /\ Retryable(w)
  /\ chan = "closed"
  /\ Finish(w)
  /\ UNCHANGED <<broker, link, pc, locked, jobs, shutdown, history, faults>>

\* Publish on the nil channel a failed reconnect or Close leaves behind is a
\* nil dereference, outside the recover that guards the callback.
WorkerRetryPanic(w) ==
  /\ Retryable(w)
  /\ chan = "nil"
  /\ Die
  /\ UNCHANGED faults

-----------------------------------------------------------------------------
(* Close. *)

CloseDone ==
  /\ CanClose
  /\ shutdown = "no"
  /\ pc # "dead"
  /\ shutdown' = "closing"
  /\ UNCHANGED <<broker, link, pc, locked, pool, history, faults>>

CloseChannel ==
  /\ shutdown = "closing"
  /\ ~locked
  /\ shutdown' = "done"
  /\ conn' = "nil"
  /\ chan' = "nil"
  /\ epoch' = epoch + 1
  /\ place' = Requeued
  /\ UNCHANGED <<up, body, attempts, pc, locked, pool, history, faults>>

-----------------------------------------------------------------------------
(* The system. *)

Loop ==
  \/ LoopCheckDone \/ LoopLock \/ LoopReconnect \/ LoopQos \/ LoopBind
  \/ LoopUnlockUnheld \/ LoopConsume \/ LoopLeave
  \/ \E c \in Copies : LoopDeliver(c)

Worker(w) ==
  \/ WorkerTake(w) \/ WorkerCallback(w) \/ WorkerAck(w) \/ WorkerReject(w)
  \/ WorkerRetryPublish(w) \/ WorkerRetryAck(w) \/ WorkerRetryFail(w)
  \/ WorkerRetryPanic(w)

Close == CloseDone \/ CloseChannel

Environment ==
  \/ \E m \in Messages : Publish(m)
  \/ \E c \in Copies : Expire(c)
  \/ LoseConnection \/ BrokerStop \/ BrokerStart \/ KillProcess \/ Restart

Next ==
  \/ Loop
  \/ \E w \in Workers : Worker(w)
  \/ Close
  \/ Environment

Spec == Init /\ [][Next]_vars

\* Goroutines are scheduled and opMu is handed over in order (Go's mutex does
\* not starve a waiter); callbacks return, the broker comes back, the container
\* is restarted, the delay of the retry queue ends.
Fairness ==
  /\ SF_vars(Loop)
  /\ \A w \in Workers : SF_vars(Worker(w))
  /\ WF_vars(CloseChannel)
  /\ WF_vars(\E c \in Copies : Expire(c))
  /\ WF_vars(BrokerStart)
  /\ WF_vars(Restart)

FairSpec == Spec /\ Fairness

-----------------------------------------------------------------------------
(* What the subscriber promises. *)

\* A published message is never lost: a callback has handled it, the broker
\* still holds a copy of it, or it was rejected on a queue with no dead-letter
\* policy.  It rests on the retry copy being published before the original is
\* acked, on connections lost between the two, and on restarts.
NothingLost ==
  \A m \in sent :
    \/ m \in handled
    \/ m \in dropped /\ ~HasDLQ
    \/ \E c \in Copies : Live(c) /\ body[c] = m

\* The retry header bounds the attempts: no copy is sent round the retry queue
\* more than MaxRetries times.
RetriesBounded == \A c \in Copies : attempts[c] <= MaxRetries

\* The deliveries the process holds, buffered or with a worker.
Held == {jobs[i] : i \in DOMAIN jobs} \cup
        {cur[w] : w \in {v \in Workers : wstate[v] # "idle"}}

\* No delivery leaks and none is settled twice: every copy that is unacked on
\* the channel is held by exactly one delivery of that channel, and nothing
\* else the process holds can still be acked or nacked.
SettledExactlyOnce ==
  LET onChannel == {d \in Held : chan = "open" /\ d.tag = epoch}
  IN  /\ {d.copy : d \in onChannel} = {c \in Copies : place[c] = "unacked"}
      /\ \A d \in onChannel : body[d.copy] = d.msg /\ attempts[d.copy] = d.tries
      /\ \A v, w \in Workers :
           v # w /\ wstate[v] # "idle" /\ wstate[w] # "idle"
                 /\ {cur[v], cur[w]} \subseteq onChannel
             => cur[v].copy # cur[w].copy

\* The service is up in the end: it is not shut down for good.
StaysUp == <>[](shutdown = "no")

\* Every published message is handled, dead-lettered or dropped in the end, by
\* this process or by the one that follows a crash or a shutdown.
EventuallySettled ==
  StaysUp => \A m \in Messages :
    m \in sent ~> \/ m \in handled \cup dropped
                  \/ \E c \in Copies : place[c] = "dlq" /\ body[c] = m

\* When the broker stays up, the subscriber is consuming again and again.
Resumes == StaysUp /\ <>[]up => []<>(pc = "receive")

\* The subscriber implements at-least-once delivery: what is live outside the
\* dead-letter queue is owed.
Abstract == INSTANCE AtLeastOnce WITH
  owed <- {body[c] : c \in {d \in Copies : place[d] \in {"ready", "unacked", "retry"}}},
  handled <- handled,
  rejected <- dropped \cup {body[c] : c \in {d \in Copies : place[d] = "dlq"}}

AtLeastOnce == Abstract!Spec
=============================================================================
