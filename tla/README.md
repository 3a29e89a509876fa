# A verification of CleanApp's back end in TLA+

CleanApp collects reports (of litter, hazards, faulty apps), has them analysed by language
models, and passes what they say to those who can act on it. The back end is some thirty
services around one MySQL database and one RabbitMQ broker. This project models the path a
report takes and what is done about it, checks the models with TLC, and proves their safety with
TLAPS.

    submission --Ingest--> report_raw, report.raw --Subscriber--> analysis --Quarantine--> report.analysed
         ^                                                                                          |
      Fetchers, Matching                                    Broadcast, Email, CaseBook --> Escalation

Contents: [the system](#the-system), [the modules](#the-modules), [the runs](#the-runs),
[the proofs](#the-proofs), [what is not modelled](#what-is-not-modelled).

## The system

### Components

| component | state it keeps | operations | what makes it correct |
|---|---|---|---|
| **Report ingest** (`report-listener/handlers/cleanapp_wire_v1.go`, `ingest_v1.go`, `human_ingest.go`) | `reports`, `report_raw` (one row per fetcher and source), `wire_submissions_raw` and its receipts | submit one report or a batch; replay; status | a submission is ingested once; it can be retried; a different payload for the same source is refused; what is accepted is analysed |
| **Machine identity and quotas** (`handlers/ingest_v1.go`, `database/fetcher_keys_v1.go`, `middleware/fetcher_key_auth_v1.go`) | fetchers, their keys, caps and promotion requests; usage per minute and per day | register, authenticate, ask for promotion, decide, suspend, revoke, consume | nobody is let in but by an operator; neither cap is exceeded by requests that overlap |
| **RabbitMQ subscriber** (`report-analyze-pipeline/rabbitmq/subscriber.go`, and older copies of it in other services) | connection, channel, buffered deliveries, retry header | consume loop, worker, retry, reconnect, `Close` | at-least-once delivery, a bounded number of retries, recovery from every failure |
| **Analysis and promotion** (`report-analyze-pipeline/service`, `report-listener/handlers/internal_ingest_admin.go`) | `report_analysis`; `report_raw.visibility` and two time stamps | analyse, translate, publish; promote, demote | a quarantined report is not published; a public one is, in full |
| **Live broadcast** (`report-listener/service`, `websocket/`) | cursor in memory and in `service_state`; hubs, clients and their queues | poll, broadcast, register, unregister | every client sees the reports in order and without a gap |
| **Cases** (`report-listener/handlers/cases.go`, `case_*.go`, `database/cases.go`, `case_*.go`) | cases, links to reports and clusters, escalation targets, notify plans, execution tasks, outcomes | create, match, attach, merge, refresh, record an outcome | the contacts, plans and tasks of a case are its own; nobody is called twice |
| **Escalation** (`handlers/case_escalations.go`, `email-service/service/case_escalations.go`) | actions, deliveries, outcomes, memory of each address | escalate, mail, record, reply | what is recorded as sent was sent; opt-outs are honoured; what was learned stays |
| **Email** (`email-service/service/email_service.go`) | what was sent per report, and per brand and address; retries; opt-outs | notify, defer, retry, throttle, mark | each notification is sent, none twice in a period |
| **Reports nearby** (`report-processor`) | status, responses, clusters | match, resolve, respond, submit, cluster | no photo is lost or becomes two reports |
| **Ledger** (`pipelines`, `common/disburse`, `backend/db`) | tokens due and paid, of users and of referrers | earn, redeem, disburse | no token is lost, none is recorded as paid that was not |
| **Consumers of report.analysed** (ownership, tags, renderer, Twitter replies) | tables of their own | handle an event | idempotent under redelivery |
| **GDPR processing** | `users`, `reports`, marks | obfuscate | nothing is marked that was not obfuscated |
| **Accounts** (`auth-service`, `customer-service`) | tokens, reset tokens, payments | login, refresh, reset | a token is used once and not after it expires |

`PROJECT.json` lists these and the rest of the tree (dashboards, tools, crawlers, renderers)
with what is modelled of each.

### How they interact

Services share the database and exchange messages over direct exchanges: `report.raw`
carries what was ingested, `report.analysed` what was analysed and is public. There are no
distributed transactions and no outbox: every service writes rows and publishes messages in
separate steps, and relies on redelivery, unique keys and time stamps in the rows to make up
for what fails in between. A consumer that fails for the time being publishes a copy of its
message to a retry exchange, whose queue gives it back after a delay, and acks the original.
The scripts under `platform_blueprint/rabbitmq` create the retry and dead-letter queues, for
some of the queues only.

Some calls are plain HTTP: report-listener asks email-service to mail the contacts of a case,
report-processor submits new reports to the backend or, by CleanApp Wire, to report-listener,
and the pipelines call the contract that pays. Here the failure to reckon with is the answer
that is lost: the other side has done what it was asked.

### What is hard about it

- **Interleaving**: a pool of goroutines and the consume loop share one channel under
  `opMu`; two services read and update the visibility of the same report; requests for one
  source overlap; refreshes, merges and outcomes of one case do; so do disbursements.
- **Partial failure**: commit and publish, send and record, pay and record are two steps
  everywhere.
- **Redelivery and staleness**: deliveries outlive their channel, visibilities and receipts
  are read in one statement and acted on in another.
- **Recovery**: a broker restart, a lost connection, a channel that was closed alone, a
  process killed at any point.

The hazards are listed, with the line where each bites and the property that covers it, in
`PROJECT.json`.

## The modules

| module | models | extends |
|---|---|---|
| `AtLeastOnce` | what a consumer promises: the abstract specification | - |
| `Subscriber` | a queue of the broker, the consume loop, the worker pool, `Close`, and failures | instantiates `AtLeastOnce` |
| `SubscriberProofs` | its type invariant, its safety, and that it implements `AtLeastOnce` | `Subscriber` |
| `IngestOnce` | what the ingest promises: the abstract specification, without requests | - |
| `Ingest` | submissions, from the look-up to the receipt | instantiates `IngestOnce` |
| `IngestProofs` | its type invariant, its safety, and that it implements `IngestOnce` | `Ingest` |
| `Fetchers`, `FetchersProofs` | registration, authentication, promotion and the quota of machine submitters | - |
| `Quarantine`, `QuarantineProofs` | the analysis of a report against the promotion of its visibility | - |
| `Broadcast`, `BroadcastProofs` | the broadcast loop and its cursor, the hubs, and the clients of the live stream | - |
| `CaseBook`, `CaseBookProofs` | cases, their contacts, plans, tasks and outcomes | - |
| `Escalation`, `EscalationProofs` | the escalation of a case, through two services | - |
| `Email` | the two notification loops; its proofs are in `BroadcastProofs`, which instantiates it | - |
| `Matching` | the matching of a photo with the reports around it; its proofs are in `IngestProofs`, which instantiates it | - |
| `Rewards`, `RewardsProofs` | the token ledger, its redemption and its disbursement | - |
| `MCSubscriber`, `MCIngest`, ... | values of constants and symmetry for TLC | the module they name |

In every module an action is what the code does between two points where another actor may
come in: a statement or transaction of the database, a call of the broker or of another
service, a lock taken or released. A failure is a choice of the action that fails; each counts
against `MaxFaults`. Variables marked *history* record what happened for a property to speak
of, and no action's guard reads them, but for bounds. Definitions marked *Slip* are plausible
mistakes in the code; they are not part of a specification, and each property is known to be
broken by one of them.

### Subscriber

One queue and one process. The broker is external: it keeps copies of messages that are
`ready`, `unacked` on the consumer's channel, in the `retry` queue or in the `dlq`. When a
channel closes, what is unacked on it is ready again.

| in the module | in `subscriber.go` |
|---|---|
| `conn`, `chan`, `locked` | `s.conn`, `s.channel`, `s.opMu`; `nil`, open, or closed by the other side |
| `epoch`, the `tag` of a delivery | which `amqp.Channel` it is: acks go to the channel of the delivery, retries to `s.channel` |
| `pc` | the loop of the goroutine `Start` launches: check `done`, lock, reconnect, `Qos`, `QueueBind`, `Consume`, receive |
| `jobs`, `wstate`, `cur` | the channel `jobs`, and the goroutines that read it |
| `attempts` | `x-cleanapp-retry-count` |
| `LoopUnlockUnheld` | the `continue` at line 540: it goes on with the next routing key, unlocked |
| `WorkerRetryPublish`, `WorkerRetryAck`, `WorkerRetryFail`, `WorkerRetryPanic` | the publication of the retry, and what follows when it works, fails, or dereferences a nil channel |
| `CloseDone`, `CloseChannel` | `Close` closes `done`, then takes `opMu` |

A delivery goes from the broker to `jobs` in one step: between the broker's prefetch and the
loop's send nothing else can see it. Callbacks succeed, fail for the time being, or fail for
good; a callback that panics, and a routing key without a callback, fail for good as well.

### Quarantine

One report (reports share no state) with the rows two services work on. An analyser takes the
`report.raw` message, saves the analysis, collects translations, reads the visibility and
publishes unless the report is quarantined, marks it as published and acks. A promotion reads
the previous visibility, updates it, records the moment of promotion, checks whether the report
was published, loads the analyses, publishes and marks. `rows` are the languages with a row,
`got` the analyses collected for the event, `loaded` what the promotion has loaded. `prev` is
the visibility before the update, which decides whether this was a promotion. The histories
count events: `republished` by promotions, `unrecorded` those that were not marked, and `crowd`
the most requests there have been under way at once.

Each kind of failure is a member of `FailureKinds`, and `Failures` says which of them may
happen, so that a run or a theorem can name what a property withstands.

### Ingest

Sources stand for pairs of fetcher and `source_id`; payloads for what the material hash tells
apart. A request looks for a receipt (replay or conflict), then for a report (duplicate), then
inserts the report, runs the hook of digital shares, publishes to `report.raw` and records
the receipt. Requests of the same source overlap; only the unique keys of the two tables tell
them apart. A commit may be made and its answer lost. `queued`, `answered` and `stranded` are
histories: messages the publisher has taken, answers, and sources with a request that failed
after its commit. Only valid submissions are modelled: the others are refused before anything
is read.

`IngestOnce` is the ingest without its requests: a source gets one report, which is handed on
once or left behind, and one receipt, and every answer agrees with the receipt that is there when
it is given. `Ingest` implements it with `stranded` for what is left behind (`IngestedOnce`): each
request takes effect at one point, and none is queued twice (`QueuedOnce`, which follows). That is
why `Matching` may take the whole ingest for one step.

### Fetchers

A fetcher has one key. Each worker serves one request at a time, and `job` holds what the
handler has read so far: registering takes two statements for the fetcher (it is inserted as
active and then set to pending) and one for the key; submitting authenticates, stamps the time,
locks the row of the minute, locks the row of the day, and charges both or rolls back. The rows
are locked in that order, so that requests stamped in different minutes of one day wait for each
other at the second row only. `window` is the limiter of registrations, in memory, which a crash
empties. Operators decide on promotion requests, suspend and revoke. A cap of 0 is no limit.

### Broadcast

| in the module | in the code |
|---|---|
| `mem`, `stored` | `Service.lastProcessedSeq`, `service_state.last_processed_seq` |
| `Read`, `BroadcastReports`, `BroadcastPublicReports`, `Advance` | an iteration of the loop, `service.go:199-243` |
| `channel`, `clients` | `Hub.broadcast` and `Hub.clients`, for the full and the public stream |
| `queue`, `closes` | `Client.send`, and how often it was closed (twice would panic) |
| `Pass`, `Unregister` | the hub's loop; one that finds a full queue closes it and forgets the client |
| `pumps`, `Write`, `WriterEnds` | `ReadPump` and `WritePump`; a write takes all that is queued |

Reports become ready in any order, and stop being so; what is not public is in the full stream
only. `log`, `since` and `seen` are histories: what a hub has passed on, how much of it when a
client registered, and what was written to the client.

### CaseBook

Handlers (`Workers`) create cases, attach clusters and reports, merge, view, and record
outcomes. All but the last end in the same refresh, whose steps others may come between: read
the case, discover its contacts (those that discovery finds are an input), read which have a
row, insert the others, read the active plan, fill it or start one, read the active plan again
(`GetActivePlan`: it may be what another handler has planned by now), replace the pending tasks.
`targets`, `plans` and `tasks` are sequences indexed by id. Which contacts a plan selects is an
input as well, but for the rule that those who cool down are never selected.

### Escalation

One case. A handler of report-listener creates an action per target, calls email-service, which
checks the opt-outs, mails and notes each address in turn, and then records deliveries and
outcomes. An outcome is stored, the memory of the address read, and written back with one more
(`RecordOutcome`, `RecallMemory`, `UpsertMemory`), and other handlers may come in between: the
`UPDATE` keeps the greater count, but overwrites the last result. `latest`, `overlapped` and
`unlearned` are histories: the last outcome of an address, the addresses two handlers were at
together, and outcomes whose handler failed before it noted them.
Replies are outcomes as well. `Fail` ends a request at any step, and stands for a timeout of the
call too: what was mailed stays mailed. A merge moves targets and actions to another case.

### Email

Time passes in days, the unit of the throttle; a wait shorter than a day is none. The aggregate
loop mails all new reports of a brand to the brand's contacts, the brandless one goes report by
report. Both choose whom to mail (`ProcessBrandNotifications`, `UseInferredContacts`,
`UseAreas`), send, record and mark, and each step may succeed for some addresses or reports and
fail for others. A brandless report without inferred contacts goes to the contacts of each area it
lies in, one area after the other (`SendEmailsForArea`, which asks for opt-outs and for nothing
else), unless it lies at (0, 0) (`Nowhere`), where it is marked at once. The histories say what the
checks are for: `quiet` when an address was really mailed, `told` which report every address was
mailed for which area or none, `pestered` and `twice` who was mailed too early or twice,
`slipped` and `botched` which mailings failed in part.

### Matching

A request compares its photo with at most `Limit` reports around, marks what is gone as
resolved, responds, and otherwise submits the photo and clusters it with what it looks like.
The ingest behind the submission is one step. `Protocol` says how: by the legacy way the source
is made of the user and the photo, by Wire it is the id of the user.

### Rewards

The columns of the `users` table, in units of a twentieth of a token so that shares are whole.
A redemption takes one row at a time and climbs the referrers level by level; its statements run
outside the transaction it opens. A disbursement reads what is due, pays in batches and records
what it has paid. Runs overlap, since each is an HTTP request. What is paid goes to the address
that the library reads the id of a user as, and the row is looked up by the text of that address:
the row of a user whose id is written otherwise (`Unmatched`) is never found, and its payment
never recorded (`Unrecorded`). Ids that are read as the same address are not modelled.

## The runs

TLC explores each instance exhaustively.

| run | instance | shows |
|---|---|---|
| `subscriber_live` | 1 message, 4 copies, 2 workers, 1 retry, 1 failure, `Close`, no dead-letter queue | `NothingLost`, `RetriesBounded`, `SettledExactlyOnce`; `EventuallySettled`, `Resumes`; `AtLeastOnce` |
| `quarantine_races` | 2 analysers, 2 promotion requests, which may overlap, 2 languages, 2 failures that are retried | `QuarantineHolds`, `PublishedInFull`, `PublishedOncePerOverlap`; `EventuallyPublished` |
| `ingest_safety` | 2 requests at a time, 4 in all, 2 sources, 2 payloads (one with a bad image), 2 failures of any kind | `OnePayloadAccepted`, `AcceptedIsQueued`; `IngestedOnce` |
| `broadcast_live` | 1 client of each stream, 2 new reports (one not public), channels of 1 message, 1 failure | `QueuesClosedOnce`, `NoGapWhileConnected`, `StreamInOrder`, `CursorBehindBroadcast`; `ReadIsBroadcast` |
| `email_safety` | 2 reports of a brand, or 2 without of which 1 lies in 2 areas with an address in common, 2 addresses of which 1 may opt out, a throttle of 1 day, 1 deferral, 1 retry, 1 failure | `PesteredOnlyIfSlipped`, `ToldOnceUnlessBotched`, `PushHonest`; `BrandlessSettled`, `BrandedNotified` |
| `casebook_safety` | 2 cases, 1 report, 2 contacts of which 1 is mailed, 2 handlers, 4 requests | `OwnTargetsOnly`, `OnePendingPerContact`, `OutcomeHasTask` |
| `escalation_safety` | 2 targets, 1 address in copy that may opt out, 2 handlers, 2 requests, 1 failure | `SentIsMailed`, `ActionTellsItsOwn`, `OptOutHonoured`, `MemoryAgrees` |
| `fetchers_quota` | 1 provisioned fetcher and 1 that registers, 2 requests at a time, caps of 1 and 2, 2 minutes of a day, 1 act of an operator, 1 failure | `QuotaHeld`, `NoneUninvited`; `Served` |
| `matching_safety` | 2 requests at a time, 3 in all, 2 users, 2 photos, 2 failures, the legacy protocol | `Traced`, `OneReportPerPhoto`, `ClustersGrowForward` |
| `rewards_safety` | 3 users in a chain of referrals (one of them new, and one whose id is not written as an address), 2 redemptions and 2 disbursements at a time, 3 in all, batches of 2, 2 tokens earned, 1 failure | `NoneLost`, `RecordedIsPaid`, `NoneOverpaid`, `SharedOnce` |

Two runs are expected to find a violation: each checks what a message or a document of the
repository says against what the code does.

| run | property | what TLC finds |
|---|---|---|
| `ingest_retry` | `RetrySafe` | `ingest_v1.go:484` says "retry the same request safely"; after a failed publish the retry is accepted as a duplicate, and nothing is ever queued |
| `matching_wire` | `Traced` | a photo that matches nothing is to be submitted as a report; by Wire the `source_id` is the id of the user, so that the second photo of a user conflicts with the first, the error is logged, and the photo is lost though the answer is a success |

### Seen in the models, without a run of its own

The models contain these behaviours; the properties above hold around them or the run leaves
out the failure that leads to them, as said.

- `Subscriber`: on a queue without a retry exchange the broker closes the channel when a retry is
  published; the connection is open and `s.channel` is not nil, so the loop never replaces it
  (`subscriber.go:499`, against the comment at 486). `subscriber_live` has the exchange.
  After a failed `QueueBind` (540) the loop goes on without `opMu`, against the comment at 169,
  and unlocks it a second time (`LoopUnlockUnheld`); after a failed reconnect a worker
  publishes its retry on a nil channel (`WorkerRetryPanic`). These are in the run.
- `Quarantine`: an error in reading the visibility counts as public (`service.go:325`, against 321);
  the error of recording a promotion is ignored, and a repeated request then takes the report
  for one that was public all along (`internal_ingest_admin.go:72`, against 70). The run leaves
  the first out (`Retried`), and has the second as a report that is `forgotten`. When the analysis
  is saved and the event cannot be published, the trigger is acked all the same, and nothing
  publishes the report (`service.go:157`); `Retried` leaves this out too. Two promotions that
  overlap both find `analysed_published_at` unset and both publish, with no failure, though the
  column is there "to make promotion-triggered publish idempotent" (`internal_ingest_admin.go:92`,
  against `report-analyze-pipeline/database/report_raw.go:32`): `PublishedOncePerOverlap` says that
  overlap, and failed recordings, are the only ways to it. And one that overlaps with a request that
  takes the report back reads it as public, makes it public again, and takes that for no promotion
  (`:71`), so that nobody may publish it: it is `forgotten` too (`Overlooked`).
- `Ingest`: two requests of one source with different payloads can leave the report of one and
  the receipt of the other (`cleanapp_wire_v1.go:549`, against `docs/cleanapp-wire.md:51`); a
  submission with a bad image is accepted and never queued.
- `Broadcast`: a report that becomes ready after one with a higher number was broadcast is
  skipped (`service.go:228`, against "No reports are lost or duplicated",
  `report-listener/README.md:560`). `ReadIsBroadcast` therefore speaks of reports the loop has
  read. A stored cursor of 0 is taken for none, so that a restart before the first report was
  stored starts at the latest.
- `Escalation`: what was mailed when the answer is lost stays unrecorded (against "records
  per-recipient delivery truth", `docs/cleanapp-cases.md:91`). `SentIsMailed` is the other
  direction. Of two bounces that are recorded at once one may go uncounted, since both handlers
  read the same count, and the last result, with the cooldown it stands for, may be that of the
  older one (`subject_routing_strategy.go:332`, `:340`). `MemoryAgrees` says that nothing else can
  go wrong: only at an address whose handlers overlapped, and never so that all is forgotten.
- `CaseBook`: a refresh whose plan is superseded before it fills it leaves the case without an active
  plan; the next one starts another. The tasks follow the plan that is read after the commit.
- `Email`: a report that lies nowhere and has no inferred contacts is marked before its areas are
  looked up (`email_service.go:435`). A crash between two areas mails the first again. An address
  that two overlapping areas list gets a report once for each of them, with no failure
  (`email_service.go:791`, against `email-service/IMPLEMENTATION_NOTES.md:68`, where
  `sent_reports_emails` is "to prevent duplicate emails"): `ToldOnceUnlessBotched` speaks of one
  area at a time.
- `Fetchers`: a fetcher that registered is pending, and its key is refused on every endpoint, the
  one that asks for promotion among them; it can ask only once an operator has let it in. What it may
  then do is read: nothing grants `report:submit` (against `docs/INGEST_V1.md:40-46`), so that
  those who submit are provisioned. One pending request per fetcher is checked and then
  inserted, so that two at once are two (against `openapi/cleanapp-ingest.v1.yaml:59`). The endpoint that
  suspends also accepts `limited`, which lets a pending fetcher in.
- `Rewards`: a payment that was not recorded is made again, and so is one of two disbursements
  that meet. `NoneOverpaid` and `SharedOnce` name exactly those as the exceptions. The payment of a
  user whose id is not written as its address is never recorded, with no failure at all.

### Bounds, and why they are enough

- `MaxFaults` counts failures of the environment. One failure puts every step next to every
  recovery; two let the second strike during the recovery from the first. The runs with one
  have properties of liveness, or more actors. Apart from bounds the choice of what fails is
  free: any step, for any subset of addresses or reports.
- Two actors of a kind (workers, requests, handlers, disbursements) are what a race takes, and a
  third adds no new pair of steps for properties about a pair of rows or of copies. The
  theorems are for any number.
- `Subscriber`: a message needs one copy, and one more for each retry published while the original
  stays unacked. With no free copy, producers and retries wait. One retry makes the first
  attempt, the attempt that is given up and the header in between.
- `Quarantine`: two analysers are what redelivery can produce at once. Two requests are one that
  promotes and one that takes back, overlaps with it and publishes as well, or makes up for its
  failure; the theorems are for any number. Two languages tell an event with part of an
  analysis from one with all of it.
- `Ingest`: four submissions of two payloads let two requests conflict and two be retried.
- `Broadcast`: two new reports can become ready in either order; channels of one message are full
  at once, so that both the hub and the loop block, and a client is closed for being slow.
- `Email`: the loops share no row that one writes and the other reads, so the instance has two
  initial states (`OneLoopAtATime`): in each the reports of one loop are done with, and the other
  has two, the second of which meets the throttle and the limit that the first has set off. What is
  proved is for both loops together. A second address is what an opt-out, or a failure for some,
  takes. Of two areas one lists one address and the other both.
  `count` stops at one more than any limit it is compared with.
- `CaseBook`: two cases can be merged, and four requests let two refreshes of each overlap with
  the merge; one contact gets a mail and the other a task. This is the largest run, of six
  million states.
- `Escalation`: two requests cross on the same addresses, as escalations or replies.
- `Fetchers`: two minutes of one day let two requests of one fetcher hold different minutes
  and meet at the day; caps of one and two make the last item that fits and the first that
  does not.
- `Matching`: two photos of each of two users, one request repeated. `Rewards`: a chain of three is
  a user, a referrer and a referrer of the referrer, whose payments are the ones that are not
  recorded; batches of two split three rows.

`CHECK_DEADLOCK` is off throughout: when the queue is empty, the process stopped, or the
requests are used up, the system legitimately does nothing. That nobody waits for ever is a
property of liveness where there are locks (`Resumes`, `Served`).

### Fairness

Safety does not rest on any. What the liveness properties assume:

- `Subscriber`: strong fairness of the loop and of each
  worker: they compete for `opMu`, and Go's mutex hands over to a waiter that has waited for more
  than a millisecond, so a waiter is not starved; a callback returns, since its calls carry
  timeouts. Weak fairness of the delay of the retry queue, of the restart of the
  broker and of the container (both run under a restart policy), and of `Close` once it has
  begun. Nothing of producers. `EventuallySettled` and `Resumes` are about a process that was
  not shut down for good.
- `Quarantine`: weak fairness of each analyser and each promotion in progress; nobody needs to
  ask for a promotion, and `EventuallyPublished` speaks only of reports that stay public and
  whose failed promotions are asked for again.
- `Broadcast`: weak fairness of the loop (the process is restarted), of each hub, and of the
  pumps of each client: goroutines run. Nothing of clients or of reports.
- `Email`: weak fairness of both loops and of the passing of days. Nothing of
  publication, discovery or opt-outs: `BrandlessSettled` and `BrandedNotified` speak of reports
  that are public, and stay so.
- `Fetchers`: weak fairness of the steps of a request that is served, and strong fairness of taking
  a row, since MySQL serves those that wait for it in their order. Nothing of clients,
  operators and the clock.

The other modules state none: their requests need not come, and what follows a failure is
another request.

## The proofs

TLC's answers are for the instances above. The theorems hold for every number of messages,
copies, workers, requests, sources, languages, clients, reports, cases, fetchers, addresses,
users and failures, from the assumptions on the constants named in each module
(`ConstantsAssumption`, and `NoneAssumption` of `Rewards`) alone, except for the hypotheses that
are named below.

**Subscriber.** `TypeCorrect` is proved first. `NothingLost` is not inductive: that an ack does
not lose a message depends on what the worker holds. The invariant has
five parts. `LinkInv` says that no channel is open without a connection and that a new
channel is opened only when there is none, so a delivery of an old one stays stale. `HeldInv`
says that a delivery of the open channel fits the copy it is for (place, message, attempts) and
that no two deliveries are for the same one. `UnackedInv` says that each unacked copy has its
delivery. `BoundInv` bounds the attempts. `KeptInv` says that a worker about to ack has handled
the message, and that one that has published a retry is superseded by a copy with more attempts.
The last point is the crux: if retries did not count up, two deliveries of the same message
could each rely on the other's copy, and both be acked. `Delivered`, `Bounded` and `Settling`
follow.

`Implements` proves `Spec => AtLeastOnce`: with what is live outside the dead-letter queue as
the debt, each step of the loop, a worker, or the environment accepts, handles, rejects,
releases or owes again one message, or none of it.

**Quarantine.** `LaneHolds`: if the visibility can be read, nothing is published for a report
that was never public. The invariant adds that an analyser or a promotion that is about to
publish has seen a public report. The hypothesis cannot be dropped: the code treats a visibility
it cannot read as public.

Promotions check whether a report was published, publish, and record that they did, in three
steps, and requests may overlap in any of them. `PublishesPerOverlap` (`PublishedOncePerOverlap`)
bounds what they publish, for any number of requests and every failure: once for each of the
requests that were ever under way at the same time, and once for each recording that failed, as
the code ignores its error and publishes again on the next request. `OnceInv` counts: until the
recording, what was published is what requests at the recording have published, or could not be
recorded, and it comes with those still on their way to no more than that bound. That one
publication is all there is, as the comment on the column has it, is false of requests that overlap.

`FullyPublished` (`PublishedInFull`) needs that no translation, no event of the analyser and no
reading of the previous visibility fails: the code logs the first two and goes on, and takes the
third for a report that was public all along. Everything else may fail. What an analyser has
done is part of `AnalysisInv` (all languages are saved before the visibility is read), what was
made public of `PublicInv`, and `LeftInv` is the argument: an analysis that ended without
publishing leaves the report to a promotion, which finds it unpublished because the mark is not
set, and whose request is under way, or failed and is counted as `postponed`.

**Ingest.** The invariant says that only one request at a time is between the commit of a
source's report and its publication (`OnceInv`, from the unique key), that answers agree with
the receipt (`ReceiptInv`), and that every committed report is queued, about to be, or was left
by a failure (`TraceInv`). `TriggeredOnce`, `OnePayload` and `NoneForgotten` follow.

`ActsAtOnce` proves `Spec => IngestedOnce`: the commit, the publication, the receipt and each giving
up are steps of `IngestOnce`, a crash gives up several sources at once, and the rest are none.
`LeftInv` is what the step of each needs: only what can be decoded is stored, and a request that
is about to publish serves a source that nobody has left behind. That the answers agree is
`ReceiptInv` of the state after the step.

**Matching.** The second half of `IngestProofs` is about an instance of `Matching`, whose names
have the prefix `M!` there. `PhotoReportedOnce` (`OneReportPerPhoto`) holds by either protocol:
the source of a report is made of its user and photo, or of its user alone, and a source has one
report (`OwnSource`). `NoneLost` (`Traced`) is for the legacy protocol, as by Wire it is false
(`matching_wire`). It needs that a report in the table is queued unless its request failed
(`Queued`), and that a request is always on its way to a trace (`OnTheWay`): one that found
litter gone has still to mark a report, or to respond, or has responded; one that is past its
submission meets its source in the table. `RelatedToOlder` (`ClustersGrowForward`) adds that what
a request compared with is older than its own submission (`Older`), which holds at the look-up
of the latest number too, since the table only grows; a replay is the exception the property
names. All rest on `Numbered`: the numbers of requests at work are distinct, and a request makes
one report at most.

**Broadcast.** The invariant is `TypeOK`, `BatchInv` (what the loop has read lies above the
cursor in memory), `ClientInv` (a client that the hub knows has an open queue, and a queue is
closed once), `SeenInv` and `QueueInv` (what a client was sent, and what is queued for it, is
the slice of the hub's log from its registration on) and `OrderInv` (log and channel ascend, the
log lies below the channel, and both hold only what the loop has sent). The slice is the point:
order and the absence of gaps are properties of the log, which one loop writes, and each client
inherits them however often others drop. `ClosedOnce`, `NoGap` and `InOrder` follow. `Cursor`
has an invariant of its own (`CursorInv`: what was read and not offered lies above both cursors,
and is in the batch) and needs `Stored0 # 0`, as without a stored cursor a restart skips to the
latest report.

**Email.** The second half of `BroadcastProofs` is about an instance of `Email`, with the prefix
`E!`. A throttle is read, mails go out, and only then is it written, so that what it says and what
was mailed agree at no point but by what a loop is about to do. `LeavesInPeace`
(`PesteredOnlyIfSlipped`) rests on `QuietInv`: the throttle on record lasts as long as the quiet
owed since the last mail, or a loop is about to record it, or the recording slipped; and whom a
loop is about to mail is due. `TellsOnce` (`ToldOnceUnlessBotched`) and `TellsReporterTruly`
(`PushHonest`) rest on `JobInv` (the reports of a loop are its own and not yet processed, so the
two loops never work at one report; the area that is mailed is none of those still to mail) and
`ToldInv`: a mail of a report to an address, for an area or none, is of one that is processed, or
that was in a mailing that failed in part, or that is in the hands of a loop which has that mail
recorded, or is about to, and will not send it again (`Settling`); and a loop that records has
told all its addresses of all its reports. `TellsOnce` is about lists, not addresses: once as an
inferred contact, or once for every area that lists the address. That a backoff is within its
bound needs a power of two to be a number, which is an induction over data; the proof counts
subsets instead.

**CaseBook.** `OnePendingPerContact` is not inductive: several rows may be of one contact, since
two refreshes do not see each other's insertions. That a handler plans one row per contact, of
rows of the case it refreshes (`JobInv`), and replaces the tasks as a whole, is what keeps it.
The plan it has filled is not the plan it reads again, so all plans have to be like that
(`DistinctInv`). `PlanInv` and `TaskInv` say that plans and tasks are about rows of their case,
unless it was merged, `FillInv` that a plan about to be filled is the case's. `OwnTargetsOnly` and
`OutcomeHasTask` follow from the same invariant.

**Rewards.** `NoneLost`, the balance of the ledger, needs that a user who is not in the table
has been paid nothing (`Strangers`) and that what a disbursement has still to pay or to record
are rows of known users (`DueKnown`); then each `UPDATE`, which subtracts what was paid and adds
it to the other column, keeps the sum, whatever else has come in between.

`Shares` (`SharedOnce`) relates a redemption to the table: `ShareInv` says that what a redemption
has read of a user is still to be redeemed, that it is the only one for that user, and that
shares given exceed what is redeemed by the row in progress at most, and only above the first
level. `Solvent` (`NoneOverpaid`) does the same for disbursements (`OverInv`: what is held of a
user is still due, and the wallet is ahead of the table by a row that is paid and not recorded).
Both speak of users to whom nothing has happened that the code does not make up for, as the
properties do; that such a user stays out of harm while others are hit is what had to be proved.
`Covered` (`RecordedIsPaid`) has no such exception. A disbursement can pay a row twice but
records it once, so that the wallet covers the table and all that is still to be recorded:
`CoverInv` counts the units outstanding, as a finite set, since there is no sum over any number
of disbursements to induct on.

**Fetchers.** `Quota` (`QuotaHeld`): a row of a minute and a row of a day are held by one
transaction each (`MinuteAlone`, `DayAlone`), so what the holder has read is what the rows hold
(`Fresh`), and the caps it compares with are some the fetcher has had (`CapsHad`, `GivenHad`):
they are read before the wait, and an operator may change them meanwhile. `Uninvited`
(`NoneUninvited`) is about the three statements of a registration: a fetcher has no key before
the last (`Half`, `NoRowNoKey`), one request registers it (`RegistersAlone`), and one that is
active when its key is written was let in by an operator in between (`HeldBack`).

**Escalation.** A list of recipients is built and worked off, so the proofs begin with lists:
`AmongTells` says that picking out of a list keeps what is wanted, nothing else, and nothing
twice. It is an induction. The induction theorems of the library take an operator, which the
provers cannot instantiate; `Induct` states induction for a set of numbers instead, and follows
from the library's `WFMin`. `OnlyMailed` (`SentIsMailed`): a handler counts as sent what was
mailed (`ResultMailed`), and the action it holds for an address is that address's, and of its
request (`ActionOfTarget`). `TellsItsOwn` (`ActionTellsItsOwn`) needs the converse: each action of
the request is held for its target, who is on the list still or has a result (`HoldsAll`), for
which each must be listed once (`ListedOnce`) and requests be told apart (`OwnRequest`,
`Numbers`). `HonoursOptOut` (`OptOutHonoured`): who had opted out is still on the list of
opt-outs when a mail is about to go (`OutKnown`), and what other requests mail is noted under
other numbers.

`MemoryAgreesWithOutcomes` (`MemoryAgrees`) relates the counts of an address to the outcomes
stored for it, while handlers read a count and write it back greater by one. `CountsAt` is the
property, with the handlers in between counted (`Pending`); it is not inductive, since a handler
writes what it has read. `KnownAt` says that what was read is no greater than what is there, and
the same at an address whose handlers never overlapped; `AloneAt` that there is one handler at such
an address, and `LatestAt` that it is at the latest outcome, or if there is none, that the latest is
noted. `Listed` keeps a handler from storing an outcome twice.

Candidates for the inductive invariants were checked with TLC on small instances before they
were proved.

**Model-checked only.** The liveness properties (`EventuallySettled`, `Resumes`,
`EventuallyPublished`, `ReadIsBroadcast`, `BrandlessSettled`, `BrandedNotified`, `Served`),
which need fairness and `ENABLED`, out of the reach of the prover.

## What is not modelled

Of what is modelled:

- Of the broker: priorities, queue limits, clusters and the order of messages. It keeps what it
  has been given (durable queues, persistent messages). Of the publishers: a publish works or
  fails. They publish without confirms, so that a message that was taken can be lost with the
  connection; the histories `queued` say what was taken.
- The contents of reports, analyses, mails and events, beyond what the properties tell apart.
- `Stats`, health checks, metrics, logs, pings and the orderly stop of the hubs.
- Of ingest: lanes, reputation, and the loop over a batch, which submits one item after another.
  The quota it is charged to is in `Fetchers`.
- Of fetchers: caps of a single key, which nothing sets, the profiles of the human channels, and
  the introspection endpoint.
- Of cases: how clusters are found, how contacts are discovered (`case_contact_discovery.go`, the
  longest file of the service) and scored (`case_notify_routing.go`), and the aggregates. They
  are heuristics over names, addresses and distances, without state of their own: the model
  takes any result. Escalation drafts are text.
- Of email: the wording, and `ProcessReports`, which nothing calls.
- Of the ledger: the shadow table and changes of referrals.

Components without a model, and why:

- Subscribers of the other Go services: older copies of the one that is modelled. The Rust
  client, and the consumers written with it, follow the same protocol.
- Read endpoints (renderers, dashboards, maps, areas, search) and the schema migrations: reads,
  and writes of a single statement that nothing else races with.
- `auth-service`: single-statement changes of rows behind cryptographic checks, which a model
  would have to take for granted. `customer-service`: the handlers of payment events are
  placeholders.
- GDPR processing and report ownership: one idempotent write per message, behind a subscriber.
- Language models, crawlers, indexers, voice sessions: remote services, whose answers the models
  take as choices.
- Command-line tools, dashboards and scripts: clients of what is modelled.

For each, `PROJECT.json` has the reason. Most of what remains is transformation of data rather than
control: further modules would restate it, not check it.
