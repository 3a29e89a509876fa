----------------------------- MODULE Broadcast -----------------------------
(***************************************************************************)
(* The live broadcast of report-listener: a loop polls the database for    *)
(* the reports above a cursor and hands them to two hubs, the full stream  *)
(* and the public one, and stores the cursor; each hub passes its messages *)
(* to the bounded queues of its WebSocket clients, which a writer per      *)
(* client drains.  A message is the set of sequence numbers it carries,    *)
(* always in ascending order.                                              *)
(***************************************************************************)
EXTENDS Naturals, Sequences, FiniteSets

CONSTANTS
  Clients,   \* WebSocket clients
  HubOf,     \* the hub a client listens on: "full" or "public"
  MaxSeq,    \* the last report saved (a bound)
  Unlisted,  \* reports without a public id, which the public stream leaves out
  HubCap,    \* capacity of a hub's channel, 256 in the code
  SendCap,   \* capacity of a client's channel, 256 in the code
  Stored0,   \* the cursor stored so far, which is of the latest report;
             \* 0 if there is none of either
  MaxFaults  \* crashes, failed statements and failed batches (a bound)

Hubs == {"full", "public"}
Seqs == Stored0 + 1 .. MaxSeq

ASSUME ConstantsAssumption ==
  /\ HubOf \in [Clients -> Hubs]
  /\ MaxSeq \in Nat
  /\ Unlisted \subseteq Seqs
  /\ HubCap \in Nat \ {0}
  /\ SendCap \in Nat \ {0}
  /\ Stored0 \in 0 .. MaxSeq
  /\ MaxFaults \in Nat

VARIABLES
  report,   \* "absent", "pending", "ready" to be broadcast, or "hidden"
  stored,   \* service_state.last_processed_seq; 0 without a row
  mem,      \* Service.lastProcessedSeq
  pc,       \* the broadcast loop: "down" while the process is
  batch,    \* the reports it has read
  channel,  \* Hub.broadcast
  clients,  \* Hub.clients, of both hubs
  link,     \* the connection: "new", "up" or "cut"
  queue,    \* Client.send: the messages in it
  closes,   \* history: how often it has been closed
  pumps,    \* the pumps of the client that run
  seen,     \* history: messages the peer has been sent
  log,      \* history: messages each hub has passed on
  since,    \* history: how many it had when the client registered
  due,      \* history: reports the loop has read, not hidden since
  offered,  \* history: reports handed to the full hub
  faults    \* history: failures so far

cursor == <<stored, mem>>
loop == <<pc, batch>>
client == <<clients, link, queue, closes, pumps, seen, since>>
vars == <<report, cursor, loop, channel, client, log, due, offered, faults>>

Message == SUBSET Seqs

TypeOK ==
  /\ report \in [Seqs -> {"absent", "pending", "ready", "hidden"}]
  /\ stored \in 0 .. MaxSeq
  /\ mem \in 0 .. MaxSeq
  /\ pc \in {"down", "idle", "read", "full", "public"}
  /\ batch \in Message
  /\ channel \in [Hubs -> Seq(Message)]
  /\ clients \subseteq Clients
  /\ link \in [Clients -> {"new", "up", "cut"}]
  /\ queue \in [Clients -> Seq(Message)]
  /\ closes \in [Clients -> Nat]
  /\ pumps \in [Clients -> SUBSET {"read", "write"}]
  /\ seen \in [Clients -> Seq(Message)]
  /\ log \in [Hubs -> Seq(Message)]
  /\ since \in [Clients -> Nat]
  /\ due \subseteq Seqs
  /\ offered \subseteq Seqs
  /\ faults \in 0 .. MaxFaults

Init ==
  /\ report = [s \in Seqs |-> "absent"]
  /\ stored = Stored0
  /\ mem = 0
  /\ pc = "down"
  /\ batch = {}
  /\ channel = [h \in Hubs |-> <<>>]
  /\ clients = {}
  /\ link = [c \in Clients |-> "new"]
  /\ queue = [c \in Clients |-> <<>>]
  /\ closes = [c \in Clients |-> 0]
  /\ pumps = [c \in Clients |-> {}]
  /\ seen = [c \in Clients |-> <<>>]
  /\ log = [h \in Hubs |-> <<>>]
  /\ since = [c \in Clients |-> 0]
  /\ due = {}
  /\ offered = {}
  /\ faults = 0

Fail ==
  /\ faults < MaxFaults
  /\ faults' = faults + 1

Highest(S) == CHOOSE s \in S : \A t \in S : t <= s

(***************************************************************************)
(* The reports.                                                            *)
(***************************************************************************)

\* A report is saved, with the next sequence number.
Arrive(s) ==
  /\ report[s] = "absent"
  /\ \A t \in Stored0 + 1 .. s - 1 : report[t] # "absent"
  /\ report' = [report EXCEPT ![s] = "pending"]
  /\ UNCHANGED <<cursor, loop, channel, client, log, due, offered, faults>>

\* It meets what the query asks for: it is analysed, valid, public, not
\* resolved and not privately owned; or it does no more.
Reveal(s) ==
  /\ report[s] \in {"pending", "hidden"}
  /\ report' = [report EXCEPT ![s] = "ready"]
  /\ UNCHANGED <<cursor, loop, channel, client, log, due, offered, faults>>

Hide(s) ==
  /\ report[s] = "ready"
  /\ report' = [report EXCEPT ![s] = "hidden"]
  /\ due' = due \ {s}
  /\ UNCHANGED <<cursor, loop, channel, client, log, offered, faults>>

(***************************************************************************)
(* The broadcast loop.                                                     *)
(***************************************************************************)

\* UpdateLastProcessedSeq; a failure is only logged.
Store(s) == \/ stored' = s /\ UNCHANGED faults
            \/ Fail /\ UNCHANGED stored

Latest == Highest({Stored0} \cup {s \in Seqs : report[s] # "absent"})

\* Slip: Start without the stored cursor.
StartAtLatest ==
  /\ pc = "down"
  /\ pc' = "idle"
  /\ mem' = Latest
  /\ stored' = Latest
  /\ UNCHANGED <<report, batch, channel, client, log, due, offered, faults>>

\* Without a stored cursor the service starts at the latest report.
Start ==
  /\ pc = "down"
  /\ pc' = "idle"
  /\ IF stored # 0
     THEN mem' = stored /\ UNCHANGED <<stored, faults>>
     ELSE mem' = Latest /\ Store(Latest)
  /\ UNCHANGED <<report, batch, channel, client, log, due, offered>>

ReportsSince(s) == {t \in Seqs : t > s /\ report[t] = "ready"}

\* Slip: the cursor is stored as soon as the reports are read.
ReadAndStore ==
  /\ pc = "idle"
  /\ ReportsSince(mem) # {}
  /\ batch' = ReportsSince(mem)
  /\ due' = due \cup batch'
  /\ pc' = "read"
  /\ stored' = Highest(batch')
  /\ UNCHANGED <<report, mem, channel, client, log, offered, faults>>

Read ==
  /\ pc = "idle"
  /\ ReportsSince(mem) # {}
  /\ batch' = ReportsSince(mem)
  /\ due' = due \cup batch'
  /\ pc' = "read"
  /\ UNCHANGED <<report, cursor, channel, client, log, offered, faults>>

\* h.broadcast <- data: blocks while the channel is full.
Send(h, m) ==
  IF m = {}
  THEN UNCHANGED channel
  ELSE /\ Len(channel[h]) < HubCap
       /\ channel' = [channel EXCEPT ![h] = Append(@, m)]

BroadcastReports ==
  /\ pc = "read"
  /\ Send("full", batch)
  /\ offered' = offered \cup batch
  /\ pc' = "full"
  /\ UNCHANGED <<report, cursor, batch, client, log, due, faults>>

\* What the public stream shows of a batch.
PublicLive(reports) == reports \ Unlisted

\* The public batch may fail to be built, which is only logged.
BroadcastPublicReports ==
  /\ pc = "full"
  /\ \/ Send("public", PublicLive(batch)) /\ UNCHANGED faults
     \/ Fail /\ UNCHANGED channel
  /\ pc' = "public"
  /\ UNCHANGED <<report, cursor, batch, client, log, due, offered>>

\* Slip: only the stored cursor moves.
AdvanceStored ==
  /\ pc = "public"
  /\ stored' = Highest(batch)
  /\ batch' = {}
  /\ pc' = "idle"
  /\ UNCHANGED <<report, mem, channel, client, log, due, offered, faults>>

\* The cursor moves in memory, and in the database.
Advance ==
  /\ pc = "public"
  /\ mem' = Highest(batch)
  /\ Store(Highest(batch))
  /\ batch' = {}
  /\ pc' = "idle"
  /\ UNCHANGED <<report, channel, client, log, due, offered>>

\* The process is killed: connections and channels go with it.
Crash ==
  /\ pc # "down"
  /\ Fail
  /\ pc' = "down"
  /\ batch' = {}
  /\ mem' = 0
  /\ channel' = [h \in Hubs |-> <<>>]
  /\ clients' = {}
  /\ link' = [c \in Clients |-> "new"]
  /\ queue' = [c \in Clients |-> <<>>]
  /\ closes' = [c \in Clients |-> 0]
  /\ pumps' = [c \in Clients |-> {}]
  /\ seen' = [c \in Clients |-> <<>>]
  /\ log' = [h \in Hubs |-> <<>>]
  /\ since' = [c \in Clients |-> 0]
  /\ UNCHANGED <<report, stored, due, offered>>

(***************************************************************************)
(* The hubs and their clients.                                             *)
(***************************************************************************)

\* listenOnHub, and the hub's answer to Register.
Register(c) ==
  /\ pc # "down"
  /\ link[c] = "new"
  /\ link' = [link EXCEPT ![c] = "up"]
  /\ clients' = clients \cup {c}
  /\ pumps' = [pumps EXCEPT ![c] = {"read", "write"}]
  /\ since' = [since EXCEPT ![c] = Len(log[HubOf[c]])]
  /\ UNCHANGED <<report, cursor, loop, channel, queue, closes, seen, log, due,
                 offered, faults>>

Listening(h) == {c \in clients : HubOf[c] = h}
Slow(h) == {c \in Listening(h) : Len(queue[c]) >= SendCap}

\* Slip: a slow client misses the message and stays.
PassSkippingSlow(h) ==
  /\ channel[h] # <<>>
  /\ channel' = [channel EXCEPT ![h] = Tail(@)]
  /\ log' = [log EXCEPT ![h] = Append(@, Head(channel[h]))]
  /\ queue' = [c \in Clients |-> IF c \in Listening(h) \ Slow(h)
                                 THEN Append(queue[c], Head(channel[h]))
                                 ELSE queue[c]]
  /\ UNCHANGED <<report, cursor, loop, clients, closes, link, pumps, seen, since,
                 due, offered, faults>>

\* A message for every client of the hub; one whose queue is full is closed
\* and forgotten.
Pass(h) ==
  /\ channel[h] # <<>>
  /\ channel' = [channel EXCEPT ![h] = Tail(@)]
  /\ log' = [log EXCEPT ![h] = Append(@, Head(channel[h]))]
  /\ queue' = [c \in Clients |-> IF c \in Listening(h) \ Slow(h)
                                 THEN Append(queue[c], Head(channel[h]))
                                 ELSE queue[c]]
  /\ closes' = [c \in Clients |-> closes[c] + IF c \in Slow(h) THEN 1 ELSE 0]
  /\ clients' = clients \ Slow(h)
  /\ UNCHANGED <<report, cursor, loop, link, pumps, seen, since, due, offered,
                 faults>>

\* The peer, or the network, ends the connection.
Drop(c) ==
  /\ link[c] = "up"
  /\ link' = [link EXCEPT ![c] = "cut"]
  /\ UNCHANGED <<report, cursor, loop, channel, clients, queue, closes, pumps,
                 seen, since, log, due, offered, faults>>

\* WritePump: one WebSocket message carries all that is queued.
Write(c) ==
  /\ "write" \in pumps[c]
  /\ link[c] = "up"
  /\ queue[c] # <<>>
  /\ seen' = [seen EXCEPT ![c] = @ \o queue[c]]
  /\ queue' = [queue EXCEPT ![c] = <<>>]
  /\ UNCHANGED <<report, cursor, loop, channel, clients, link, closes, pumps,
                 since, log, due, offered, faults>>

\* WritePump returns, and closes the connection: a write failed, with all it
\* had taken, or the hub closed the queue and it is drained.
WriterEnds(c) ==
  /\ "write" \in pumps[c]
  /\ \/ link[c] = "cut" /\ queue' = [queue EXCEPT ![c] = <<>>]
     \/ closes[c] > 0 /\ queue[c] = <<>> /\ UNCHANGED queue
  /\ pumps' = [pumps EXCEPT ![c] = @ \ {"write"}]
  /\ link' = [link EXCEPT ![c] = "cut"]
  /\ UNCHANGED <<report, cursor, loop, channel, clients, closes, seen, since, log,
                 due, offered, faults>>

\* Slip: the queue is closed whether or not the hub knows the client.
UnregisterUnchecked(c) ==
  /\ "read" \in pumps[c]
  /\ link[c] = "cut"
  /\ pumps' = [pumps EXCEPT ![c] = @ \ {"read"}]
  /\ closes' = [closes EXCEPT ![c] = @ + 1]
  /\ clients' = clients \ {c}
  /\ UNCHANGED <<report, cursor, loop, channel, link, queue, seen, since, log, due,
                 offered, faults>>

\* ReadPump fails to read and unregisters; the hub closes the queue unless it
\* has forgotten the client already.
Unregister(c) ==
  /\ "read" \in pumps[c]
  /\ link[c] = "cut"
  /\ pumps' = [pumps EXCEPT ![c] = @ \ {"read"}]
  /\ closes' = [closes EXCEPT ![c] = @ + IF c \in clients THEN 1 ELSE 0]
  /\ clients' = clients \ {c}
  /\ UNCHANGED <<report, cursor, loop, channel, link, queue, seen, since, log, due,
                 offered, faults>>

Next ==
  \/ \E s \in Seqs : Arrive(s) \/ Reveal(s) \/ Hide(s)
  \/ Start \/ Read \/ BroadcastReports \/ BroadcastPublicReports \/ Advance \/ Crash
  \/ \E h \in Hubs : Pass(h)
  \/ \E c \in Clients : \/ Register(c) \/ Drop(c) \/ Write(c)
                        \/ WriterEnds(c) \/ Unregister(c)

Spec == Init /\ [][Next]_vars

\* The process is restarted, and its goroutines run.
Fairness ==
  /\ WF_vars(Start \/ Read \/ BroadcastReports \/ BroadcastPublicReports \/ Advance)
  /\ \A h \in Hubs : WF_vars(Pass(h))
  /\ \A c \in Clients : /\ WF_vars(Write(c) \/ WriterEnds(c))
                        /\ WF_vars(Unregister(c))

FairSpec == Spec /\ Fairness

(***************************************************************************)
(* Properties.                                                             *)
(***************************************************************************)

\* A queue is closed at most once, and only after the hub has forgotten its
\* client, so that the hub never sends on a closed channel: either would panic
\* and end the hub, whoever closes it first: a full queue or a reader that left
\* (hub.go:53-74).
QueuesClosedOnce ==
  \A c \in Clients : /\ closes[c] <= 1
                     /\ c \in clients => closes[c] = 0

\* While a client stays connected its stream has no gap: what it has been sent
\* and what is queued for it are the messages its hub has passed on since it
\* registered, so that a slow client loses its connection, never a message
\* (hub.go:64-75).
NoGapWhileConnected ==
  \A c \in clients :
    link[c] = "up" =>
      seen[c] \o queue[c] = SubSeq(log[HubOf[c]], since[c] + 1, Len(log[HubOf[c]]))

\* A connection carries every report once, in ascending order, whatever the
\* cursor in the database has become (service.go:199-243).
StreamInOrder ==
  \A c \in Clients : \A i, j \in 1 .. Len(seen[c]) :
    i < j => \A a \in seen[c][i], b \in seen[c][j] : a < b

\* The stored cursor never passes a report the loop has read but not handed to
\* the hub, so that a restart does not skip it (service.go:219-235); this needs
\* a cursor that was stored before, see Start.
CursorBehindBroadcast == \A s \in due : s <= stored => s \in offered

\* A report the loop has read is handed to the hub in the end, by this process
\* or the next, unless it is hidden before (service.go:199-243).
ReadIsBroadcast ==
  \A s \in Seqs : (s \in due) ~> (s \in offered \/ s \notin due)
=============================================================================
