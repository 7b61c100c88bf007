# Verification of the NEEKLO Marketplace OS

TLA+ models of the core of the NEEKLO Marketplace OS (`src/`, a TypeScript monorepo: a NestJS API on
Postgres and Redis, shared packages, a React client), TLC configurations that check them on small
instances, and proofs checked by TLAPS. Paths below are relative to `src/`; `P/` stands for
`apps/api/src/platform/`, `M/` for `apps/api/src/modules/`.

## The system

Commands reach an aggregate through HTTP. The aggregate raises events, which are appended to one
Postgres table (`event_store`) and then published to one Redis stream. Projections follow the table by
`global_position` and keep the read models; the workflow engine, the analytics engine and the
intelligence pipeline follow the Redis stream in consumer groups. Timers poll the marketplace (Avito),
refresh its tokens and run automations. Everything runs in one Node process (pm2 restarts it), and the
documents foresee several (`docs/ai-orchestrator.md:91`). Interleaving happens at every `await`.

| Component | State | Operations | Talks to | Hard part | What makes it correct |
|---|---|---|---|---|---|
| Event store, repositories, publishers (`P/event-store`, `packages/kernel`, `P/*/events`) | table `event_store`, its position sequence, unique index on stream and version | `append`, `readStream`, `readAll`, `load`, `save`, `publish` | Postgres; calls the bus | interleaved transactions, lock waits, positions drawn before commit, append without publish | gap-free streams, no lost update, only facts on the bus, appends end |
| Projection manager (`P/projections`, `M/*/projections`) | checkpoint per projection, read models | `runLoop`, `drainOnce`, `project` | event store | rows that commit out of position order, crash inside a batch, several instances, a row that cannot be projected | each event once, in order; nothing skipped |
| Event bus (`P/event-bus`) | Redis stream, group cursor, pending entries | `publish`, `subscribe`, read loop | Redis; workflow, analytics, intelligence handlers | rejected handlers, lost replies, competing instances, trimming | handled at most once, nothing delivered forgotten, feed goes on |
| OAuth credentials (`P/oauth-center`) | vault row, pending flow, account aggregate, `oauth` stream | `connectAvito`, callback, `disconnectAvito`, `refreshExpiring`, `resolveAccessToken`, `refreshAvito` | Avito token endpoint, event store | concurrent refreshes, rotation, lost answers, disconnect during a callback, four stores written in turn | current refresh token kept but for one erasure, disconnect final |
| Live sync (`P/avito-live`) | in-memory queue, `activeWorker`, worker rows, account detail | scheduler tick, `enqueue*`, `processQueue`, `runWorker`, `runFullSync` | Avito API, publisher | overlapping ticks, duplicates in the queue, crash with queued jobs, publish failing after success | a due worker runs, its row tells the outcome of its last run, bounded queue |
| Domain aggregates and read models (`M/ads`, `conversation`, `deal`, `customer`, `account`) | event-folded state; projected rows | behaviour methods; `project` | event store, projection manager | four writers of one table, amounts computed from rows that lag, read-modify-write counters | a row is the fold of its stream, counters add up |
| CRM bridge, leads, pipeline, follow-ups (`P/avito-sales`) | leads, follow-ups, customers, conversations, deals | webhook, snapshot poll, `ensureFromMessage`, `moveLead`, follow-up tick | aggregates, read models that lag | duplicate deliveries, find-or-create races, stale reads, two-store updates | bounded duplicates, links agree, a known thread's message is recorded, lead and deal settle |
| Job engine and media, AI gateway, listing and regional pipelines, uploads (`P/commerce/job`, `P/avito/media`, `P/ai-platform`, `P/avito/listing`, `P/avito/regional`, `P/avito/knowledge`) | a status row, pieces and a stream per job | `createJob`, `processJob`, `run`, `process` | event store, model provider | detached processing, a step failing after another was written, a catch that fails too, crash, a limit checked before it is used up | one outcome, which row, pieces and stream agree on; bounded overrun |
| Automation scheduler, rules, prices (`P/avito-automation`) | daily keys in memory, rules, recommendations, notifications | `tick`, `evaluateAll`, `generateForTenant` | notifications, tasks | overlapping ticks, one failing tenant, restart, midnight | daily work once on a calm day and for every tenant; what is done twice is accounted for |
| Workflow engine (`P/workflow`) | registered workflows | `dispatch` | event bus | events read before the workflows are registered, swallowed errors, crash in the middle | one failing workflow does not stop the others, nothing is written twice |
| Operations: feed, bulk, budget (`P/avito-operations`, `P/avito/budget`) | enrichment rows, export rows, spend on ad rows | `exportFeed`, bulk `execute`, `importSpend` | ad rows, storage | export, edit and request overlap; three writes one after another | what is marked exported is in a file, or an export crossed it |
| Snapshot and sync engine (`P/marketplace-core`) | snapshots, sync jobs | `maybeSnapshot`, `run` | repositories | | not modelled: no callers, no readers |
| Plugin registry (`packages/plugin-runtime`) | state per plugin | `install`, `activate`, ... | plugin hooks | | not modelled: one call sequence, at bootstrap |
| Messenger outbound (`P/avito-production`) | mode, permissions | `sendOutbound` | Avito API | | not modelled: no stored state |
| Intelligence | read models, scores | | event publishers | shares the publisher's concurrency | covered by the event store and the bus |
| Contracts, SDK, HTTP, auth, context, web client | none of their own | | | | |

## Modules

| Module | Models | How it corresponds |
|---|---|---|
| `EventLog` | what the store promises about one stream | `Extend` is a successful `append` |
| `EventFeed` | what readers of the global log see | `Draw` is `nextval`, `CommitRows` and `Discard` the end of a transaction |
| `EventStore` | `save`, `load`, `publish`, `append` of concurrent callers | one action per statement: `Create`, `LoadAndDecide`, `PublisherRead` (the read and decision), `DrawPosition` and `InsertRow` (an INSERT), `Conflict` (P2002), `Commit`, `Publish`; `DatabaseError`, `PublishFails`, `Crash` are the faults |
| `ProjectionManager`, `MCProjectionManager` | `runLoop` / `drainOnce` of every instance, on top of `EventFeed` | `ReadCheckpoint`, `ReadBatch`, `Apply` (one transaction), `ProjectThrows`, `Wake`, and the faults `DatabaseFails`, `Crash`, `Boot` |
| `EventBus` | `publish`, `subscribe` and the read loop; Redis' part is external | `Read`, `Handle`, `Ack`, `HandlerThrows`, `ReadFails`, `AckFails`, `Retry`, `Subscribe`, `Crash` |
| `TokenManager`, `MCTokenManager` | one credential through connect, callback, refresh, disconnect | every call is a program counter; one action per statement that touches a store or Avito |
| `LiveSync`, `MCLiveSync` | scheduler, queue and workers of one account | one action per stretch between two awaits: `Poll` and `EnqueueDue` (`tick`), `Request` (`triggerFullSync`), `NextOfFull` and `NextJob` (`runFullSync`, `processQueue`), `MarkRunning`, `RunWorker`, `ReadStream`, `AppendEvent`, `Conflict`, `WriteFailed` (`runWorker`), `WebhookRead`, `WebhookAppend`, `WebhookEnqueue` (`handleWebhook`), `UpdateSchedule`, `Bootstrap`; `Throws`, `Rejects` and `Crash` are the faults, `Elapse` the clock |
| `CrmBridge`, `MCCrmBridge` | `processInbound` from webhook and poll, `ensureFromMessage`, `seedForLead`, the deal of a lead | one action per lookup or write of a delivery; each projection runs at its own pace, as `EventFeed` and `ProjectionManager` allow |
| `Pipeline` | a lead and its deal: `moveLead`, `moveStage`, the deal's `changeStage`, the bridge's late deal | `Load` and `Save` are the two halves of an optimistic save |
| `DueWork` | three loops over rows: follow-up tick, `evaluateAll`, `generateForTenant` | one action per row written |
| `FeedExport` | `exportFeed` against `upsertEnrichment` and `prepare_feed` | `Read`, `Store`, `FindLast`, `CreateRow`, `Mark` are its awaits |
| `MCDesk` | the three above on small instances, in one run | they share no row: `desk` says which of them a behaviour is about |
| `MCBus`, `MCCatalog`, `MCJobs` | `EventBus` and `Workflows`, `LiveSync` and `AdCatalog`, `ProjectionManager` and `JobRuns`: a component and what stands next to it, each on its own constants | the two share no variable; in the run of the second the first rests (`UNCHANGED`), so that its specification is the second's and the theorems about it are the second's too |
| `JobRuns` | media jobs, AI runs, listing pipelines, regional batches, uploads | the awaited steps of each kind are data (`Script`, and `Handler` for its catch; `Drafting` names the listings whose draft is asked for); the interpreter says what each writes and where a rejection goes |
| `AdCatalog` | ads: commands, `AdProjection`, the items worker, the budget import, bulk actions, all writers of `ad_read_model` | `Project` and the two halves of `bump`; per call the read of the row, the load of the aggregate, the save |
| `Schedulers`, `MCSchedulers` | the automation scheduler's `tick` over its tenants | one action per awaited part of a tenant's turn (`Dispatch` hands a report to the channels), `EndTick` writes the keys |
| `Workflows` | `WorkflowEngine` with the workflows two bootstrap hooks register | `Boot` (subscribe), `Register` (the hooks), `Read`, one action per awaited step of a workflow, `Acknowledge` |
| `EventStoreProofs`, `EventBusProofs`, `TokenManagerProofs`, `ProjectionManagerProofs`, `SchedulersProofs`, `LiveSyncProofs`, `CrmBridgeProofs` | theorems about the module they are named after | `EventBusProofs` also about `Workflows` (instance `W`), `LiveSyncProofs` about `AdCatalog` (`A`), `ProjectionManagerProofs` about `JobRuns` (`J`) |
| `DeskProofs` | theorems about the three stories of `MCDesk` | of the instance they use only the assumptions of the three modules |

`ProjectionManager` EXTENDS `EventFeed`; `EventStore` implements `EventFeed` and `EventLog` (refinement
mappings at its end), so what is checked of the projections holds of the log the writers produce. The modules
above the store (`TokenManager`, `LiveSync`, `CrmBridge`, `AdCatalog`, `Pipeline`) take an optimistic save in two
steps, the load and the append, of which exactly the appends whose read is still current succeed: this is
`CommitOnCurrentHistory`. `Workflows` is one group of `EventBus` whose handler never rejects.

**Abstractions.** Payloads, tenants and wording are left out. An event row is its stream, version and
position. The projection is `AdProjection`: the first row of an ad's stream upserts, the others update
and throw without a row, rows of other streams may be counted on an ad. A batch is the set of rows `readAll`
returned, of which the loop takes the one of lowest position. `applied` is the history of the
read model rather than its columns, which makes double effects visible. The expiry of a pending flow is
left out of `TokenManager`: a flow may be used as long as it is there.

`LiveSync` follows one account. What a worker asks Avito and which read models it fills is one outcome,
`completed` or not (`failed` stands for `unavailable` too, which nothing treats differently but a retry
counter). `due` lists the rows with `nextSyncAt` in the past, oldest first, so that `getDueWorkers` takes a
prefix of the enabled ones; `FirstRows` says which list that is rather than how it is computed. Between the read
of `publish` and its append anyone else's append to the stream `live:<account>` makes it conflict: `current` is
the set of those whose read is still current.
Three variables are history and no step reads them: `owed` (rows that say completed,
not announced yet), `cut` (workers whose last run ended without writing the row) and `stray` (`activeWorker`
is left over from a run whose first write threw). The workers `delivery` and `jobs`, switched off in the code,
and the account's own row and events are left out.

`AdCatalog` keeps of a row what two writers compete for: price, status, the message counter and spend.
Of the budget import it has the increment, which may reject after the import was put on record; the record itself and the
event are on a table and a stream that nobody else touches.
`JobRuns` lets an AI run inside a pipeline be an AI run like the others. A listing's draft is made only if it was asked
for (`Drafting`, a constant) and a title came out; without a title the listing is completed with none.
`Schedulers` takes the four daily analyses of a tenant for one row, and a day for three parts: before the report's hour, that
hour, after it. Time ends in the last day's hour of the report, since the third part of the last day adds nothing but
ticks that find both keys. A report is *dispatched* when it is handed to the tenant's channels; whether one delivers it
makes no difference to the tick, which looks at no result. `Workflows` has the workflows that are registered in
the code; saved automations get no triggers there and never run. A workflow may reject after its last row, too (`WriteLast`).
In `FeedExport` a text is the number of times it was edited, `Read` is the second of the two reads, that of the texts
(the rows of the ads, read before, have no writer in the model), and the file's key, the account and `Date.now()`, is
taken to be no other export's: two exports of an account that store within one millisecond are left out.
In `EventStore` a publish that fails may have put any first part of its commands on the stream; what ioredis sends
again after a reconnect is left out.

## Runs

| Run | Bounds | Shows |
|---|---|---|
| `store` | 2 streams, 2 calls at a time, 3 in all, 2 events each | the safety of the write path, refinement of `EventLog` and `EventFeed`, every append ends |
| `projection` | 1 instance, 3 streams, batch of 2, 4 positions | exactly once and in order under every fault; only late commits are ever skipped; everything else is projected |
| `projection_skips` | 1 instance, 2 positions | violation, see below |
| `bus` | 1 group, 2 instances, batch of 2, 4 entries, MAXLEN 2 | handed out once, accounted for, feed goes on |
| `token` | 2 calls, clock 0..1, 3 refresh tokens | no older refresh token replaces the current one, a call that read none is all that may erase it, disconnect final |
| `live` | 2 workers, 1 tick and 1 request under way, 1 request, webhook or schedule change, 1 fault, batches of 1, 1, 2 | `activeWorker` and the rows are backed by a run or by an event; a due worker is run |
| `crm` | 2 deliveries at once (one a poll), 2 chats of one buyer, a reply of the account in one of them, 1 item, 2 follow-up rules, 2 copies of anything, 1 fault | a lead is whole, duplicates are bounded by the calls that overlap, the message of a known thread is recorded |
| `jobs` | 3 of 8 jobs of five kinds started, 2 at a time, 2 parts, a listing with a draft and one without, 2 throws | row, pieces and stream of a job agree; the daily limit is overrun by the runs under way at most |
| `ads` | 1 ad, 1 item, 2 calls, 2 requests, 1 message, 1 price change on Avito | the row is the fold of the stream, what counters may lose, an item has no more rows than calls, each item comes to have a row that shows Avito's price |
| `ticks` | 2 tenants, 2 overlapping ticks, 2 days of three parts, 1 throw or restart | a key is right about every tenant (of the report: it was dispatched), once on a calm day, everyone served |
| `desk` | 2 calls; 2 follow-ups, 1 rule, 3 requests, 1 fault; 4 stages, 6 calls on lead and deal; 2 ads, 1 edit each, 2 exports | what is done twice is accounted for; a move that ran alone settles lead and deal; an exported ad is in a file, unless an export crossed the request; due follow-ups end |
| `workflows` | 2 facts, batch of 2, 2 crashes, 2 rejections | each registered workflow is tried, only early facts miss one, nothing is written twice, the group goes on |

**Why the bounds are enough.** Two calls give every conflict of the unique index, two events per call a
transaction with a first and a last row, and a third call comes after a conflict. Four positions and a
batch of two give a batch cut short by its limit, a crash in the middle of one, a row that commits late and
rows behind it. Four entries with a MAXLEN of two overrun a group that has read nothing. Two calls on one
credential give every pair of operations; three refresh tokens a rotation on top of a rotation. In `live` the tick and the
request are two calls of `processQueue` that run concurrently, which is what two overlapping ticks are too;
with one row per tick and one job per tick the second worker has to wait behind the first, and the messenger
is asked for by tick, full sync and webhook at once. `MaxQueue` bounds only what falls due while jobs wait:
duplicates go beyond it. `MaxFaults` bounds what throws, so the run does not show what ten rows do whose
worker throws on every attempt: they stay at the head of the ten a tick reads, and starve the others.

In `crm` two deliveries are the least that race in every find-or-create, the two chats share a customer and an
item, so that conversation, lead and deal may each be doubled, one chat has messages of two authors, and one fault cuts a call at any step; two
follow-up rules make half a seeding possible. In `jobs` two throws reach a catch that fails too, three starts on a
limit of zero with two slots overrun it by as much as can be. AI runs are interchangeable there, as calls
are in `token`: these two runs check safety only and take them up to symmetry. In `ads` the projection, one bump and two calls
make every pair of writers of one row meet; one price change makes an old list differ from a new one. Two
days and two ticks in `ticks` let a tick of the first day end on the second, and the second tenant is reached only if the
first does not throw. In `workflows` two facts in a batch of two are cut off by a crash with one of them
handled. The moves of `desk` need a third call to repair what two have left.

**Deadlock** checking is off: with the bounded inputs used up, or before the first one, the system is idle.

**Fairness.** `EventStore`: weak, on the steps of a call; Postgres answers and a promise chain is scheduled.
No new call has to start. `ProjectionManager` and `EventBus`: the process is restarted (pm2 autorestart),
timers fire; strong on the steps a fault can interrupt, which says that a fault does not hit the same step
every time. `LiveSync`: weak on the steps of each call, as
every await settles (the driver and fetch time out), and on the start of a tick, whose timer goes on firing;
no request, webhook, bootstrap or outcome of a worker has to happen. `AdCatalog`: weak on the projection and, per call,
on its steps and the start of the items worker (its schedule repeats); no request has to come.
`Schedulers` and the follow-ups of `MCDesk`: weak on the timer, on each step, and on the passing of time;
faults are bounded there by a constant, so a tick gets through after the last of them. `Workflows`: weak on
start, registration, reads and dispatch. `TokenManager`, `CrmBridge`, `JobRuns`, `Pipeline` and `FeedExport` state none: only safety is
checked of them.

## What the violation shows

`projection_skips`: the cursor by position passes a row whose transaction commits later, against "a crash
never skips or double-applies" and "processes events in global order, exactly once"
(`P/projections/projection.manager.ts:17`). "Never skips" needs the additional condition `late = {}` of
`OnlyLateRowsSkipped`. (The model also shows that a skipped `ad.created` makes the ad's next update throw for ever.)

## Where code and expectation differ, without a run

These came out of the modelling. The properties are stated with the exception, so that the runs pass and
show that nothing else is lost.

- `IntelligenceEventPublisher` reads the version first; of two overlapping publishes one is dropped with a warning.
- With two instances the read of the checkpoint is outside the transaction that moves it, so both apply a row.
  The deployment starts a single process.
- An unacknowledged entry is never redelivered: there is no reaper and no read of `0`.
- The loser of two overlapping refreshes marks a freshly refreshed credential REAUTH_REQUIRED.
- A refresh of a credential that is still PENDING, by hand or before a request, reads no refresh token and asks for a
  client_credentials token. If the callback stores the account's tokens meanwhile, the refresh then
  stores `tokens.refreshToken ?? secrets.refreshToken` (`P/oauth-center/token-manager.service.ts:91`), null from before the
  callback, over the account's refresh token. No sweep touches the active account any more (`:44`, `:53`), and each
  request renews it by client_credentials, although `docs/token-manager.md:54` gives
  `authorization_code` the `refresh_token` grant. `RefreshTokenKept` has the history `erased` in it, and shows that
  this order is the only one in which the token is lost while Avito's answers arrive.
- The account save of a disconnect may conflict with that of a callback; the row is gone and the account stays ACTIVE.
- A message whose customer is not projected yet is dropped until the next delivery, against `docs/lead-center.md:5`.
- Whoever wrote a message, it is taken up as inbound, from a webhook as from the poll
  (`P/avito-sales/avito-crm-bridge.service.ts:52`, `:91`): the account's own
  reply makes the account a customer, with a lead and a deal, and is recorded in the buyer's conversation. `LinksAgree`
  therefore says that a lead's customer writes in its conversation, not that the conversation is that customer's.
- The daily limit is counted before the run is inserted, and overrun by the runs under way, against
  `docs/ai-cost-center.md:43`.
- A listing whose title comes out empty is completed without the draft that was asked for
  (`P/avito/listing/listing-generator.pipeline.ts:101`), and nothing tells the two apart.
- A channel that fails is caught, one without an address delivers nothing
  (`P/avito/notifications/notification-channel.service.ts:77-104`), and the scheduler writes the morning key all the same: the tenant is told
  nothing that day, and no later tick tries again. `KeyMeansDone` therefore speaks of dispatched reports.
- A budget import whose increment rejects stays on record, and the ad never gets its spend. `SpendAccounted` counts increments.
- Titles edited in Advertisement Studio are overwritten by the next items sync, although
  `P/avito-operations/avito-operations-studio.service.ts:74` says that they are kept until the feed is exported.
- An export marks `exported` an ad that `prepare_feed` set `ready` after the export had read it. Two exports may take one version.
- Two overlapping moves may both be answered ok and leave lead and deal at different stages, and a deal that
  is linked late starts at `lead`, whatever the lead's stage.
- The automation scheduler's tick is every 300 s, its comment says hourly; a tenant that throws starves those behind it
  in that tick; the watchers are evaluated twice per tick; a dismissed item stays dismissed for the day.
- The workflow that follows a contact (`docs/deal-pipeline.md:22`) takes effect nowhere: `ContactRecorded` is raised by
  the seed only, and outside a request the tenant context it asks for is missing. `ViewRecorded`,
  `BudgetSpent` and `AdSold` have no caller either, nor have a deal's `complete`, `cancel`, `makeOffer` and
  `markPaid`, so that no deal is ever closed.
- An event read between the engine's subscription and the bootstrap hooks is acknowledged without its workflows.

## Proofs

All theorems hold for every value of the constants that the module's assumption admits, and state what some
run checks. Few of the invariants are inductive alone; each module gives an inductive one as a
conjunction of named parts, a lemma per action or per kind of step, and the theorems at its end.

`EventStoreProofs`: `TypeOK`, `StreamsInOrder`, `ToldIsStored` and the action property `CommitOnCurrentHistory`. The
inductive invariant says of each open transaction that what it inserted continues its history without a gap
and holds its keys alone, that the positions it holds are unused and below `nextPosition`, and that its
history was the whole stream when it was read: as long as its first key is free, the stream has not grown,
and this gives both gap-freeness at the commit and `CommitOnCurrentHistory`. A second layer follows the bus:
a call that publishes or has returned was committed; a publish that fails half way has put nothing but committed facts
on it (lemma `Published`).

`StoreImplements` proves both refinements step by step. To `EventLog` a commit is `Extend`, by a caller whose history is the whole
stream, and every other step a stutter: the facts of a stream are its rows in the order of their versions
(`FactsByVersion`). To `EventFeed` `DrawPosition` is `Draw`, a commit `CommitRows`, and a conflict, an error or a crash
`Discard`. The feed's bound on positions is a sum over the transactions here: `OpenInv` counts the positions that calls may
still draw (`Slots`) against `saves`, each call paying for `MaxBatch` of them when it begins, and keeps the positions of two
open transactions apart.

`ProjectionManagerProofs`: `TypeOK`, `AppliedUpToCheckpoint`, `OnlyLateRowsSkipped`, under the hypothesis `OneInstance` (the
deployment; with two, `AppliedUpToCheckpoint` is false). Its parts: a position is used once, and below the next one to be
drawn (`Positions`); what is applied is in the log (`AppliedRows`); a drain works on what the checkpoint says, all of its
batch lying above it (`Fresh`); and as long as no row commits late, a committed row between the checkpoint and a row of
the batch is in the batch (`Gapless`). Batch size and number of positions are arbitrary.

Its second half proves `OutcomesAgree`, `StreamsTellTheStory` and `LimitOverrunBounded` of `JobRuns`, for any number of jobs
of each kind, any length of a pipeline, a batch or an upload, any slots, limit and faults. The scripts are sequences put together of
others, some of them as often as there are parts, so lemmas first say what stands at each place of each (`MediaScript` and its kin;
`TimesIs` for the repeated steps). `JobIs` then says, kind by kind, what row, stream and pieces are at that place, on the
script, in the catch and after the end, counting in the stream the events that may repeat. The limit is counted out
between the rows that are there and the runs that have passed the check without a row yet: `LimitCounted` bounds
their sum by `DailyLimit + Slots`, since a run that passes has counted no more rows than the limit, and what is
between check and row is under way.

`EventBusProofs`: `TypeOK` and `HandedOutOnce`, for any number of groups and instances. A loop's batch is a stretch of the
stream up to its group's cursor (`Consecutive`, `Given`), the stretches of two loops are disjoint (`Apart`), what was handled
is not left in a batch (`Fresh`), what is acknowledged was handled (`Handed`), and a group that does not exist has
seen nothing (`Unborn`).

Its second half proves `WorkflowsTried` and `OutcomesWhole` of `Workflows`, for any facts, batch size and number of crashes
and rejections. `EngineInv`: a fact is published once, and the batch in memory is what the cursor passed last (`GroupShape`), so that a
fact is passed, in hand or still to come; what was tried are the workflows it triggers, up to the one that runs or ran last
(`TriedSoFar`); until every hook has run, all that is to be read counts as early (`EarlyCovered`), which gives `PassedAreTried`;
and at each step of a workflow its rows are those of the steps behind it, and none if it was never tried (`ReplyRows`, `AlertRows`).

`TokenManagerProofs`: `TypeOK`, `RefreshTokenKept`, `DisconnectIsFinal`, for any number of overlapping calls and every fault.
No refresh token is newer than the one Avito issued last (`Issued`), there is none before the authorization code
is exchanged (`CodeFirst`), the row is created once (`CreatedOnce`), and, the heart of it, what a call is about to
store is Avito's current token, which, if Avito rotates, nobody else knows yet (`Current`). A call that read
no refresh token stores none, unless Avito gave it one: `erased` records when that takes one away. Lemma `Elsewhere` carries what
is known of the other calls over a step, `Stores` and `Receives` treat the two writes that matter.

`SchedulersProofs`: type correctness and `KeyMeansDone`, for every list of tenants and any number of overlapping ticks:
`PassedServed` and `PassedDispatched` say that the tenants a tick has passed are served, and in the seventh hour their reports dispatched,
on the day it began.

`OnceWhenCalm` needs more: ticks that run at once disturb their days (`TicksApart`), a day nobody disturbs is
untouched until it comes, and while a tick of an earlier day goes on (`DaysToCome`), and a tick looks at the key before it
serves (`LooksFirst`), so that what was done on a calm day was done once and nobody will do it again
(`ServedOnce`, `ReportedOnce`). `ReportsToTell` bounds what ticks at their last step are still to tell, calm or not.

`DeskProofs`: the three properties of run `desk`, for any number of calls. The three stories share no variable but `desk`, so that
`Invariance` is one invariant for each.

- `WorkAccounted` (`DueInv`): ticks between a task and its mark hold their follow-up (`Holding`). While it is pending, the tasks nobody
  holds are those that faults cut off, at most one for each call and fault; once it is executed, each tick that
  has read it and holds nothing will add one more (`Owing`), and `TasksCovered` bounds their sum. Every task is told before the
  mark (`ToldAfterTask`), a rule is counted after its item was written (`ItemFirst`).
- `LeadAndDeal` (`PipelineInv`): a call that began alone has met nobody (`AloneIsAlone`), so that the row
  still is as it wrote it (`AloneHasWritten`), a settled pair is at rest (`SettledIsQuiet`), and what was loaded was not at the
  stage asked for (`ReadOther`).
- `FeedAccounted` (`FeedInv`): what a call is to mark is in its file and no older than what was asked for
  (`Carried`, `AskedBefore`), which is recorded by then (`Recorded`). Versions: each export begun that has no row leaves room for one more
  (`Room`), no row of a call exceeds the version it has found (`OwnVersions`), so that rows sharing one are of different
  calls, and there are no more of them than calls.

`LiveSyncProofs`: `TypeOK`, `ActiveWorkerRuns`, `RunningHasRunner` and `CompletedIsAnnounced`, for any number of overlapping ticks and
requests, where the run has one of each. `ActiveWorkerRuns` is inductive once `at` and `todo` are known to be
functions on the callers (`Shape`). The other two are not: "some run is between the first write to the row
and the last" includes runs that would leave the row as it is. `Marked` says where the run behind a row that
says "running" has to stand (at `execute`, before it stores the outcome, or at `fail`, before it writes
"failed"), `Owing` where the run stands that owes a completed row its event (as `Marked`, or between the
read and the append). When runs of one worker overlap, each of them either still writes the row or the row no
longer says so. `TypeOK` is inductive: that a call in a run has a worker at the head of `todo` (`HaveWorkers`) is
kept because a full sync leaves its list at the last worker, skipped or run.

Its second half proves `AdIsItsStream` and `CountersAccounted` of `AdCatalog`, for any ads, items, calls, requests and messages.
The price a stream comes to is that of its newest pricing event (`Priced`; `PriceIn`, of any log, in the proofs).
`CatalogInv` says of the log that a stream begins with its creation and ends with one archiving (`LogShape`); of every call what
it holds between two awaits (`CallsHold`), and that the amount of a raise whose load is current is one above the stream
unless a row that lags was raised
(`AmountsKnown`), so that raises answered and events written keep pace (`RaisesCounted`); of the rows that they show the stream
as far as it is projected (`RowsShow`), also while `bump` holds what it has read (`BumpHolds`), and that their spend lacks at most what
was added under a bump (`RowsCount`); and of an item that its rows and the calls about to create one are together no more than
the calls (`ItemsBounded`).

`CrmBridgeProofs`: `LeadsWhole`, `DuplicatesBounded` and the action property `KnownAreRecorded`, for any number of deliveries, chats
and authors and any lag. What a call has found or created is there and fits its message (`CallShape`), what rows refer to
exists (`RowsRefer`); as rows are only added and their keys never change (`Grows`), this stands while others move
(`OthersStand`). The counts are not inductive as they are stated:

- a lead that lacks follow-ups and is not being seeded was left by a fault (`SeedsHeld`);
- the leads of a key and the calls that found none and will create one are together no more than the calls
  (`TwinsBounded`): a call comes to be one of them only while there is no lead of the key;
- while a lead has no deal linked, each of its deals is about to be linked or was cut off by a fault; once it has one, only calls that
  had already begun add to them (`DealsBounded`);
- a call whose author and thread are known never looks them up in vain, and has received its message before it comes to the
  lead (`KnownGoes`).

Only model-checked: liveness (`AppendsEnd`, `EventuallyProjected`, `FeedGoesOn`, `DueIsRun`, `ItemsShown`,
`EveryoneServed`, `FollowUpsEnd`, `GroupGoesOn`), which is out of the prover's reach. Every invariant and every action
property that a run checks is stated by a theorem.

## Plan

Written: everything the table of modules lists. What would come next:

1. Live sync, the account: `syncAccount` with its row and events around the shared queue.
2. The commands only an operator calls (assign, hand off, close, merge) beside `Pipeline`.

## Not modelled

- `SyncEngine.run` and the replay from a snapshot: no callers, and nothing reads the snapshots that are written.
- Plugin registry: the bootstrap installs and activates one after another, no request reaches it.
- Messenger outbound: guards, one request, a log row.
- Intelligence, metrics, forecasts, scores: arithmetic over rows; what is concurrent about them, the
  publisher and the subscription, is `EventStore` and `EventBus`.
- Credential health checks (health fields only), key rotation (no caller), the installation wizard,
  validation, connection report and provisioning diagnostics (reads and requests).
- Templates, calendar, promotion, catalogues, studio edits and other single-row writes: a request that reads and writes one row,
  about which there is nothing to say but what it assigns.
- Contracts, SDK, HTTP, authentication (stateless), the web client, scripts.

Most of the lines of the repository are of these kinds, which is why the models cover a small share of them.
