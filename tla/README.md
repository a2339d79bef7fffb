# A TLA+ verification of smart-eyes

smart-eyes watches for fire and smoke on an Android phone and connects the
phone, and third-party alarm providers, to a Go service, the cloud connector.
This directory holds TLA+ models of the parts of both programs whose
correctness depends on ordering, concurrency, failure or time; TLC
configurations that check them; and machine-checked proofs of every safety
property those runs check: of the connector's commands, events, webhooks,
devices, provider access, migration, startup and shutdown, of the paths events
take to it from the phone and from a polled provider, and of the phone's
monitoring session and confirmation engine. Paths below are relative to the repository: `README.md:121` is the
repository's README, `commands.go` is
`cloud-connector/internal/commands/commands.go`, and so on.

## 1. Inventory

### Cloud connector (Go, PostgreSQL)

| Component | State | Operations | What is hard | What makes it correct |
|---|---|---|---|---|
| Commands (`commands`, `storage`, `grpcapi`, `ingest`) | table `commands` | SendCommand: insert or replay, push dispatch; device poll; device result; reaper | callers retry while their first call runs; polls race each other; a dispatch outlives the command's expiry; crash between insert and dispatch | a command leaves the connector once; one command per idempotency key; rows only move along `domain.CanTransition`; every command is settled |
| Events (`events`) | table `hazard_events`, subscriber channels | Accept: validate, insert, publish; Subscribe, StreamEvents, cancel | two copies of one event at once; a statement that commits and errs; slow subscribers under a mutex | an event is stored and streamed once; the answer lets the sender stop; no subscriber stalls ingestion |
| Edge ingest (`ingest`) | none of its own | POST event, telemetry, command result; GET commands | requests whose client has given up go on | what is answered 2xx is stored |
| Polling (`provider/poller.go`, `alphasense`) | the watermark, in memory | cycle: fetch devices, fetch events since watermark minus overlap, accept each | alerts listed late, slow cycles, failing fetches, restarts | no alert falls behind the watermark unseen |
| Webhooks (`webhook`, `betagrid`) | `webhook_deliveries` (the gate), `dead_letters` | verify, parse, window, gate, process | redelivery overlapping the first delivery; the gate commits before the processing | processed once; what is turned away is never acknowledged |
| Provider access (`oauth`, `reliability`, `alphasense.do`) | cached token, mutex | AccessToken, Invalidate, grant, request with retries | a mutex over network calls; 401s read late; revocation during a grant | no request outlives its token; one grant for all; the lock is always released |
| Device registry (`storage.UpsertDevice`, `TouchDevice`) | table `devices` | upsert, touch | writers of every kind, reports that overtake one another, sparse fields, a heartbeat of two statements | nothing known is forgotten; one row, one id; a status of bounded age |
| Startup, migrations, shutdown (`storage`, `cmd/connector`) | `schema_migrations`, servers, goroutines, `errCh` | load, open, migrate, serve, drain, stop, close | pods of different versions that migrate together; a database that comes and goes; servers that fail while others are being stopped | the schema and its record move together, in order, once; every pod comes to serve; the store is closed last; shutdown ends |
| Configuration (`config`) | the environment | Load | | nothing enabled is left incomplete |
| gRPC, observability | none, or read-only | StreamEvents; the request middleware | | in part with the components they serve |
| crypto, simulator | none, or read-only | | | not modelled (section 7) |

### Phone (Kotlin)

| Component | State | Operations | What is hard | What makes it correct |
|---|---|---|---|---|
| Reporter and gateway (`QueueingCloudReporter`, `HttpCloudGateway`) | queue of 64, one worker | report, post, back off, drop | overflow, timeouts whose requests go on, process death | no report is lost silently; the freshest survive; the worker never blocks |
| Confirmation (`SlidingWindowEventConfirmationEngine`) | window and cooldown per type | process, reset | boundaries of window and cooldown, eviction, long sequences | every alarm is corroborated; none is missed; the cooldown holds |
| Monitoring session (`MonitoringViewModel`) | status, coroutine | create, start, stop, clear, processFrame | cancellation does not wait; three threads; singletons outlive their view model | the status is true; monitoring survives failing frames |
| Camera (`CameraXFrameSource`) | one-frame buffer, throttle | start, stop, emit | newest frame wins; a throttle on the wall clock | a cancelled session takes no further frame |
| Detector (`FireSmokeDetector`, `DefaultDetectionEngine`) | the loaded model, its status | initialize, analyze, close | a load that outlives its screen; closing during inference | a screen whose load went through keeps a model |
| Model, NMS, letterbox | none | run, decode, suppress | floating-point geometry | not modelled (section 7) |

### How they interact

The phone reports through its queue to the ingest handlers; these, the webhook
handler and the poller all end in `events.Service.Accept`, which is why
WebhookIntake and PollingIngest instantiate the one EventPipeline module and
EdgeDelivery extends it. Commands travel the other way: a gRPC caller creates one, an edge device
polls for it, or the connector pushes it to AlphaSense through the provider
client, whose token handling is ProviderAccess. All components of the connector
share PostgreSQL and the process they live in, which is ConnectorLife's; on the
phone they share the detector, the confirmation engine and the frame flow, all
singletons.

## 2. Modules

| Module | Models | Composes |
|---|---|---|
| `CommandContract` | what the connector promises about a command: `domain.CanTransition`, and DELIVERED only for what has left | |
| `CommandLifecycle` | Create, dispatch, Poll, ReportResult, RunReaper over the table | implements `CommandContract` |
| `CommandLifecycleProofs` | the inductive invariant and the proofs | extends `CommandLifecycle` |
| `EventPipeline` | Accept, publish, Subscribe, StreamEvents, restart | |
| `ReportContract` | what the path from the phone promises about a report: made once, concluded once and truly, kept a bounded number of times, shown to a client once | |
| `EdgeDelivery` | phone queue, gateway, network, ingest handlers | extends `EventPipeline`; its own `PathSpec` implements `ReportContract` |
| `EdgeDeliveryProofs` | the inductive invariants of the path and of the pipeline, and the proofs | extends `EdgeDelivery` |
| `WebhookIntake` | the webhook handler, its gate, a provider that redelivers | `EventPipeline` |
| `WebhookIntakeProofs` | the inductive invariant and the proofs | extends `WebhookIntake` |
| `PollingIngest` | the poller, its watermark, a provider that lists late | `EventPipeline` |
| `PollingIngestProofs` | the inductive invariant and the proofs | extends `PollingIngest` |
| `ProviderAccess` | token manager, retry loop, provider requests | |
| `ProviderAccessProofs` | the inductive invariant and the proofs | extends `ProviderAccess` |
| `DeviceRegistry` | the devices table and its writers | |
| `DeviceRegistryProofs` | the inductive invariant and the proofs | extends `DeviceRegistry` |
| `HazardConfirmation` | the confirmation engine against an unevicted history | |
| `MonitoringSession` | view models, camera and detector on their threads | |
| `PhoneProofs` | the inductive invariants and the proofs of these two | extends both |
| `MigrationLog` | what startup promises about the schema | |
| `ConnectorLife` | the process in every pod: configuration, `storage.Open`, migrations, servers, shutdown | implements `MigrationLog` |
| `ConnectorLifeProofs` | the inductive invariant and the proofs | extends `ConnectorLife` |

`MC*.tla` give the constants small values; each `.cfg` is one run.

### Correspondence with the code

* **One SQL statement is one step.** PostgreSQL makes it atomic; whatever the
  code does between two statements, calls or lock operations interleaves.
  Goroutines, requests and coroutines are records with a program counter `pc`
  that names where in the handler they stand.
* **A failing statement** leaves two outcomes, committed or not, since the
  connection can go after the commit (`InsertFails`, `GateFails`,
  `InsertTelemetry`).
* **A restart** (`Restart`, `ConnectorRestarts`, `Crash`, `ProcessDies`) clears what is in memory and
  leaves tables. The commands model has no restart action: `Abandon` stops any
  Create call at any point, and nothing else of that component is in memory.
* **Data** is reduced to what the properties distinguish: an event is its dedup
  key, a command its id, a token the order of its issue, a migration its place in
  the filename order.
* `NewRow`, `LegalFrom`, `Claimable`, `Overdue`, `Conflicts` are the INSERT, the
  WHERE clauses and the partial unique index of `storage.go` and
  `0001_init.sql`; `TransitionCommand` is the UPDATE with its rows-affected
  check. A poll takes any oldest `PollLimit` claimable rows, ties in any order.
  Whether a poll's response reaches the device is not tracked: the connector
  does not learn it, and accepts a result for any id.
* `EdgeDelivery` keeps a timed-out request running in the connector (`TimeOut`
  frees the worker, the request's record goes on), which is what makes a retry
  overlap its first attempt. `Report` is the whole `trySend`, with the drop of the
  oldest; the worker's item has left the queue. Every step of the pipeline,
  its streams' included, is one of `PathSpec` (`PipelineStep`). `before` is
  history: while a report is queued, the reports that were made before it. `Kept`
  maps the two tables to `ReportContract`'s `kept`; its `shown` is what the
  streams sent (`seen`). `Misconfigured` is an exception that is no IOException.
* `PollingIngest`'s clock starts at `Interval + Overlap + 1` so that looking
  back stays positive. A cycle that was due runs with `start = now`; its
  batch is processed in any order.
* `ProviderAccess`: `holder` is `Manager.mu`. A backoff ends at any later time
  (full jitter). `TimeOut` is the HTTP client's own deadline, `Cancel` the end
  of the caller's context.
* `DeviceRegistry`: a writer takes the clock or its payload first (`Begin`) and
  runs its statement later. `Upserted` is the ON CONFLICT clause with its NULL and
  empty-string rules; `Finish` is every way a writer goes on or fails, since a
  failed statement that committed is the statement followed by `Finish`. Its `told`
  is history: the time stamps of the heartbeats that set the status. Events reach
  the same rows in `WebhookIntake`, `PollingIngest` and `EdgeDelivery`, where
  `ResolveDevice` only keeps that this can fail.
* `MonitoringSession` splits startMonitoring, stopMonitoring and onCleared where
  another thread can see a difference, and the end of a load into the write of the
  model and the later write of the status (`LoadPublishesModel`, `LoadShowsReady`),
  between which the main thread may close the model. The preprocessor and the
  other fields written in between are used with the model only. A model is named for the screen whose
  coroutine loaded it, frames are not told apart, and what the engine makes of
  them is HazardConfirmation's. `crossed` is history: whether the system ever
  created a view model before it had cleared the last one. The camera permission
  is given.
* `HazardConfirmation`: `window` is the engine's deque, evicted at the front hit by
  hit as `evict` does; `seen` is history, every qualifying hit since the last event.
  `Recent` scans that history in full, which is what the deque is compared with.
* `ConnectorLife`: `main` is where `run()` stands, `routine` its goroutines. A
  migration is a transaction of two statements; `Executed` and `Inserted` are the
  locks it holds in PostgreSQL, on the catalog and on the key of
  `schema_migrations`, which is what makes one pod wait for another. `log` and
  `recorded` change at the commit, whose answer may be lost. `Kill` may strike at
  any point of it. Migrations whose SQL succeeds where it already ran
  (`Rerunnable`) are kept apart from those that do not: `0001_init.sql` does not,
  a later one may.
* Definitions commented "Mutant" are plausible wrong versions of the definition
  they precede. Substituting one for the definition must break the property it
  is listed with in PROJECT.json; this guards against properties that hold
  whatever the code does. They are part of no specification.

## 3. Runs

Runs marked ✗ state a claim of the repository that TLC refutes (section 6).

| Run | Instance | Shows |
|---|---|---|
| `commands` | 2 Create calls, 2 commands, one device of each kind, 1 key, TTL 1, poll limit 1, time 1..2 | Over replays, races with polls and reaper, abandoned dispatches: handed out at most once, one command per key, DELIVERED only with a witness, row timestamps that tell the row's history, nothing delivered after or expired before its deadline, `CommandContract` implemented, every command settled |
| `events` | 3 calls, 2 good events and a malformed one, 2 streams, buffer 1 | No stream carries an event twice or one a query would miss; answers are final; streams never stall a call |
| `edge` | 2 events (one refused by its handler), a snapshot, queue of 2, 2 requests at a time, 2 attempts, 1 stream | No report vanishes, and accepted is stored; overflow drops the oldest queued one; `ReportContract` is implemented; every report is settled |
| `polling` | 2 alerts, interval 1, overlap 2, lag 1, time 4..7, 1 crash | No gap behind the watermark; every listed alert is ingested |
| `polling_bad_alert` ✗ | a good alert and one that cannot be normalized | the bad one blocks the good one for ever |
| `webhook` | a hazard, an invalid one, a heartbeat and garbage, 2 handlers | Processed at most once; loss needs an interrupted processing; nothing turned away is acknowledged |
| `webhook_loss` ✗ | the same | an acknowledged delivery may be stored nowhere, with nobody at work on it |
| `confirmation` | 3 confidence levels, 3 hits in a window of 2, cooldown 2, up to 2 detections per frame, time 0..6 | The incremental window is the window of the history; alarms are corroborated, spaced, and never missed |
| `provider_access` | 2 goroutines, 2 attempts, 2 grant attempts, token life 4, skew 2, timeout 1, 3 tokens, 1 revocation, time 1..5 | No request outlives its token; the retry after 401 carries a newer token; grants are needed; the mutex is held for grants only |
| `devices` | one device of any provider, 2 requests and the poller, window 1, request timeout 1, time 1..5 | Nothing known is forgotten, every writer gets the one id, and the status is at most two windows and a request older than the newest heartbeat |
| `monitoring` | 2 view models with a load each, 2 sessions | The status is true; a screen whose load went through keeps a model, and close takes none away from a session; one frame at most after stop; a failing frame does not end monitoring |
| `connector` | 2 pods, with 2 and 3 migrations embedded, 4 environments, 1 request and 1 stream at a time | The schema is whole and moves in order, exactly once; every pod comes to serve; the store is closed last; shutdown ends unless clients keep their streams |

A type invariant is a conjunct of one of a module's other invariants wherever the
run has one; `commands`, `events` and `connector` check theirs by itself.

### Why these bounds

* Two callers, handlers or goroutines give every pairwise race; `events` takes
  three so that two copies of one event overlap with another event. Where a
  third party matters it is an actor of its own (reaper, provider, network,
  restart), and no loop in the code distinguishes more than "another one".
* Channel and poll limits are 1, so that they are full as soon as they
  are used. The code's 16 and 10 behave alike at the boundary. The phone's queue
  holds 2, so that its oldest and its latest entry differ, and three reports
  overflow it before the worker takes one. The proofs cover any of these limits.
* Time is as short as it may be with a full cycle inside: TTL 1 within two
  instants lets an INSERT run at the expiry its call computed before; in
  `polling` seven instants hold three cycles, an outage and a late listing; in
  `provider_access` five hold a token's life, its skew and the next grant; in
  `devices` five let two heartbeats be as far apart as the window and a slow
  request allow (the bound of `StatusIsRecent` is reached, a smaller one fails).
* Attempt counters are 2: the first attempt, the retry, and giving up.
* Two view models and two sessions let a cleared screen's load and its
  cancelled coroutine run next to the screen and the session after it. A third
  would meet the same singletons in the same states. The weights are provisioned;
  without them no model is ever loaded.
* `connector` follows all four goroutines in the pod of the new version and none
  in the other (`Followed`): what runs in a pod that serves does not touch
  another pod. Three migrations give the pods one they share that cannot run
  twice, one they share that can, and one only the newer knows. The configurations
  are a valid one and each way `config.Load` has to refuse one.
* `webhook`, `webhook_loss`, `provider_access` and `devices` use
  symmetry of handlers or goroutines; none of them checks liveness.
* The only run without deadlock checking is `monitoring`: a user need not come
  back, and the model stops after its last screen and session. Where a bounded clock ends
  the other models, an action (a report lost with the process, a restart, a
  further poll) is still possible, so that TLC's deadlock check stays on.

## 4. Fairness

| Module | Assumed | Why |
|---|---|---|
| CommandLifecycle | WF of `Tick`, WF of `ExpireCommands` | Time passes; RunReaper's ticker runs as long as the connector, and the next tick repeats a failed one. Callers, devices and the provider owe nothing. |
| EventPipeline | WF of each call's `CallStep` | A statement returns (the request context ends it), and publish holds its mutex for a loop that never blocks. Streams owe nothing. |
| EdgeDelivery | WF of `WorkerStep` | The worker's coroutine runs; connect and read timeouts of the gateway end every post. Connector and network owe nothing. |
| PollingIngest | WF of `PollerStep`, SF of `FetchEvents` | The poller's goroutine runs; a provider that answers again and again is eventually asked while it does ("a finite outage"). |
| MonitoringSession | WF of each `JobStep` | Dispatchers.Default runs coroutines that can go on, and inference returns or throws. The user, the camera and the loads owe nothing. |
| ConnectorLife | WF of each pod's `StartupStep` and `ShutdownStep` and of every goroutine's `Return`, SF of `Execute` and `Record` | `run()` and a goroutine that has to return go on when they can; PostgreSQL's lock queue serves the pod that waited first, so others that keep coming do not pass it over. The database, clients, signals, kills and starts owe nothing. |

HazardConfirmation, WebhookIntake, ProviderAccess and DeviceRegistry are checked for safety
only.

## 5. Proofs

`CommandLifecycleProofs` proves with TLAPS, for **any** sets of commands,
devices, keys and concurrent Create calls, any TTL and any poll limit:

| Theorem | States |
|---|---|
| `TypeCorrectness` | `Spec => []TypeOK` |
| `AtMostOnce` | a command leaves the connector at most once, polls and dispatches together |
| `IdempotentCreate` | one idempotency key on one device, one command |
| `DeliveryWitnessed` | `delivered_at` is set exactly for what a poll returned, and for a push command only if the provider took it |
| `Timestamps` | a row's timestamps agree with its state and are ordered |
| `Deadline` | nothing is delivered at or after its expiry, or expired before it |
| `Invariance` | `Spec => []IInv` |
| `Refinement` | `Spec => ImplementsContract` |

The only assumption is `ConstantsAssumption` of `CommandLifecycle`: TTL and poll
limit are positive naturals, the empty key and the null values are none of the
others, and a device is of one kind (a device has one provider, and
`guardian-edge` has no sender).

**The argument.** None of the properties is inductive. That a poll's claim is
the first one needs that a row which is still PENDING has no claim; that a
dispatch is the only way out of a push command needs that its row belongs to a
push device, and that the call which is about to dispatch inserted it. `IInv`
collects what the steps rely on:

* `CallsInProgress`: a call that sends or records has a command;
* `FreshIds`: an id without a row has no trace in counters or at the provider;
* `OneWayOut`: a row's device decides whether its command leaves by polls (as
  many as `delivered_at` says, 0 or 1) or by the one dispatch;
* `RowHistory`: timestamps lie in the past, are ordered, and tell the state;
* `RequestsMatchRows`: what a Create call remembers between its statements is
  true of the table and the provider;
* `KeysAreUnique`: the partial unique index holds;
* `DeadlineIsRespected` and `TypeOK`.

Lemmas about the three ways a row changes (inserted, claimed, moved) carry most
of the proof: `RowsEvolve` shows that every step changes every row in one of
these ways, and each part of `IInv` is then shown for the ways a row changes
rather than for every action. The refinement follows from `RowsEvolve` and
`LegalSources`, which says that the WHERE clauses of `TransitionCommand` contain
no source state `CanTransition` forbids.

`ConnectorLifeProofs` proves, for **any** set of pods, any number of migrations
in each one's binary, any of them rerunnable or not, and any number of
goroutines followed, requests and streams:

| Theorem | States |
|---|---|
| `TypeCorrectness` | `Spec => []TypeOK` |
| `SchemaIsWhole` | the schema equals its record; a pod that serves has all its migrations beneath it |
| `PoolIsClosedLast` | the store is closed after everything that uses it, except requests Shutdown gave up on |
| `Invariance` | `Spec => []IInv` |
| `Refinement` | `Spec => MigratesInOrder`, the migrations run in order, each exactly once |

The only assumption is `LifeAssumption`: the constants have their types.

**The argument.** The schema takes a migration at a commit only, and
`CommitIsNext` says which: the next one of the list. That needs two facts about
pods that know nothing of each other. `LoopsAreTrue`: a pod in the loop has every
migration before its own recorded (it saw or committed each, and rows are never
deleted), so it cannot be ahead of the list. `KeyIsHeld`: the migration of a pod
about to commit is not recorded and nobody else is about to commit it, so it
cannot be behind: that is the primary key of `schema_migrations`, waited for in
`Record`. The lock on the catalog (`Executed`) is not needed, which is why
rerunnable migrations are covered. With `LogIsBeginning`, the refinement is
`CommitIsNext` for the one action that touches the log (`OnlyCommits`).
`StopsAreOrderly` carries the shutdown: once waited for, streams and requests do
not come back. `OnePodMoves` reduces every other action to what it does to its
own pod.

Six further modules prove the safety properties of the other components:

| Module | Theorem | States |
|---|---|---|
| `EdgeDeliveryProofs` (pipeline) | `FeedTypes` | `Spec => []TypeOK` |
| | `SoundStreams` | no stream carries an event twice, or one a query would miss |
| | `FinalAnswers` | stored and duplicate are answered for stored events, rejected for malformed ones |
| `EdgeDeliveryProofs` (path) | `NoReportVanishes` | a pending report is held once; an accepted one is in the tables |
| | `FreshestWin` | overflow drops only what is older than everything that stays queued |
| | `CopiesAreBounded` | a snapshot has at most as many rows as attempts; the types |
| | `ContractKept` | `PathSpec => KeepsContract`: the path implements `ReportContract` |
| | `PathIsSound` | the pipeline's two promises hold when the phone's path feeds it and its streams step beside it |
| `PollingIngestProofs` | `NoGap` | no alert falls behind the watermark unseen; the types |
| `WebhookIntakeProofs` | `OneProcessing` | one handler at most passes the gate with a delivery |
| | `LossIsInterruption` | a delivery behind the gate takes effect, is under way, or was interrupted; nothing turned away is acknowledged |
| | `TypeCorrectness` | the types: garbage never gets to the gate, only a heartbeat is processed as one |
| `DeviceRegistryProofs` | `RecentStatus` | a status is at most two windows and a request older than the newest heartbeat |
| | `NothingIsForgotten` | no statement clears what is known or moves an id |
| `ProviderAccessProofs` | `SingleFlight` | the mutex is held by the one goroutine that obtains a token |
| | `TokensOutlive` | no request outlives its token |
| | `FreshTokens` | the retry after a 401 carries a token issued after it |
| | `SharedGrants` | grants are made only for want of a token, after a drop, or when the last one has had its time |
| `PhoneProofs` (session) | `StatusTrue` | a screen that says Monitoring has its one coroutine, and no other coroutine goes on |
| | `LoadedLasts` | while screens do not overlap, a screen whose load went through has a model, and close takes it from no session |
| | `OneLateFrame` | a cancelled coroutine feeds one frame more at most; the types |
| `PhoneProofs` (engine) | `QueueIsWindow` | the evicted queue is the window of the full history; the types |
| | `AlarmsDue` | every alarm is corroborated and spaced, and none that is due is missed |

The invariants behind them are theorems too (`Invariance`, `FeedInvariance`,
`SessionInvariance`, `EngineInvariance`). They hold for any events, calls, streams
and channel capacity; any reports, queue and attempts; any alerts, interval and
overlap; any deliveries and handlers; any devices, requests, window and time limit;
any number of goroutines; any number of screens and sessions; any confirmation
policy and any number of detections in a frame. The bounds on the clock and on
counters are constants there, so they are arbitrary as well. The assumptions are
`PipelineAssumption`, `DeliveryAssumption`, `PollingAssumption`,
`RegistryAssumption`, `AccessAssumption`, `WebhookAssumption`, `SessionAssumption`
and `ConfirmationAssumption` (null values are no values, limits are numbers of the right
kind). Three conjuncts carry weight: the provider lists an alert within less than
the overlap (`Lag < Overlap`), the skew is at least twice the client's timeout, and
a token lives longer than the skew.

* **Events.** `OnePublisher`: an insert that finds its event stored ends its call,
  so of the calls for one event one is about to publish, and the event is not
  published yet (`FeedCallOK`). A publish therefore appends an event no stream carries
  (`CarriesOneMore`), the drop at a full channel and the end of a stream only
  shorten what it carries (`CarriesLess`), and published events are stored.
* **Edge.** On the phone `QueueIsOrdered` keeps the queue without repetitions and in
  the order the reports were made in (`before`), so that what overflow drops is older
  than the rest (`FreshestSurvive`); that a report waits in one place only is `PendingIsHeld`. `WorkerOK`
  says that the request the worker waits for is its own, unless the connector has
  lost it; `RequestsAreTrue` carries a success from the row through
  Accept and handler to the phone. `CopiesAreCounted`, on top of the rest, counts
  rows and requests under way against attempts made. The pipeline's own invariant is
  carried along the path (`PipelineAlongPath`), since handlers call Accept and
  Return one call at a time and the rest of its steps are the path's.

  The refinement of `ReportContract` needs one thing more: that a report the queue
  dropped is kept by nobody, ever, however late a request is. `PathTraced` says that
  every request, Accept call and row is of a report the worker has taken
  (`Taken`), and a taken report never goes back to the queue. Of the steps that
  count for the contract, `ReportIsMade` is overflow, `ReportIsConcluded` the answer
  or the last attempt, `EventIsKept` and `SnapshotIsKept` the two INSERTs, whose
  answers may be lost or come too late, and `EventIsShown` a stream's send, which is
  new by `StreamIsSound`; everything else stutters.
* **Polling.** `CycleIsComplete`: from the fetch on, a cycle has in its hands, has
  stored or has failed on every alert between its watermark and the next one. An
  alert that is listed meanwhile was confirmed within the overlap of its start
  (`ListMoves`), so the next watermark leaves it in reach; a process that died left
  its alerts to the next one's look back.
* **Webhooks.** `OnePasses`: a delivery that is not in the gate was admitted by
  nobody, which the insert of its primary key keeps true. `HooksAreTrue` ties a
  handler to its gate row and to the Accept call made for it, and `CallsAreTrue`
  says that call's answer is true of the table, so that a 2xx stands for an effect.
  Whatever the pipeline does besides leaves this alone (`PipelineMoves`). The types
  need to know what a handler may work on: only what parses gets to the gate, and
  only a heartbeat to `touch` (`KindsOK`).
* **Devices.** A heartbeat is admitted when its stamp is within the window of its
  arrival (`WritersAreTrue`); the request runs its statement within its
  time limit, and nobody stamps beyond the window (`ToldInWindow`), which together
  bound how far a late heartbeat can set the status back. `UpsertedKeeps` is the
  ON CONFLICT clause: it never turns a known field into an unknown one.
* **Provider access.** The manager counts a token's life from the response, so by
  at most a timeout too long (`CacheIsTrue`); a valid token has the skew left, and
  the skew covers that and the request's own timeout (`OutlivesTimeout`).
  `TokensAreNewer` is what makes the retry safe: once a call has dropped the cached
  token, neither the cache nor a grant that is already answered holds one older
  than its 401, because a grant keeps the mutex that Invalidate has to wait for.

  That grants are shared rests on an account of time (`GrantsTakeTime`): there is an
  `n` such that all grants but those that follow a drop are at most `n` with
  `n * (Lifetime - Skew) < now` (`Spent`), and one more while a token is cached that
  was stored after that. A grant that is stored found no valid token, so the last
  one was dropped or has used up its time.
* **Session.** `Kept` are the screens whose session is meant to go on: those that
  say Monitoring and the one whose coroutine was just launched, but not the one
  being stopped, whose status is still the old one. `KeptAreActive` says that the
  coroutines nobody has cancelled are those of the kept screens, one each; at
  `main.op = "free"` this is StatusIsTrue. The camera (`OneAtATime`) and the model
  (`LoadedHasModel`) are singletons that follow one screen, so these conjuncts hold
  until screens overlap. `LateIsOne`: a cancelled coroutine has the frame it had, and
  takes no other.
* **Engine.** A frame is a loop over its detections, so the invariant of a type's
  stage, `StageOK`, is shown for every number of detections by induction
  (`ObservedOK`): the queue is an end of the history (`Slid`), namely the hits within
  the window at the last one; the cooldown is that of the last event; that event was
  due; and a history left over is not. `EvictSlides` is the heart of it: the times of
  a history are in order, so cutting the front off an end leaves the end that a full
  scan would find (`ScanIsSuffix`).

**Induction over data.** `Recent` and `Observed` are recursive functions in a LET.
TLAPS' induction theorems take operators as arguments, which its backends cannot
instantiate; so PhoneProofs derives what it needs from `WFMin` for a *set* of
numbers: a nonempty set of naturals has a least element (`LeastNumber`), hence a set
with 0 and every successor has all (`AllNumbers`), and hence a recursive equation
over `0..k` has a solution (`Computable`). Each induction is then a statement about
the set of numbers for which a claim holds.

**Only model-checked** are the seven liveness properties, because fairness and
ENABLED are out of TLAPS' reach: `EveryCommandSettles`, `EveryCallIsAnswered`,
`EveryReportIsSettled`, `EveryAlertIsIngested`, `MonitoringGoesOn`,
`EveryPodStarts`, `ShutdownEnds`. Every invariant, every action property and every
refinement the passing runs check is a theorem.

## 6. Where documents and code disagree

Each is a run whose property TLC violates.

* `webhook_loss`: the idempotency gate commits before the processing it guards
  (`webhook.go:108`). After a processing error, a crash, or a gate INSERT that
  committed although it failed, a further delivery is answered 200 while nobody is
  at work on the event any more, and it is stored nowhere. (A duplicate that is
  answered while the first copy is being processed is not held against the code.)
  `README.md:90`: "Redelivery and retry are therefore *always* safe".
* `polling_bad_alert`: `FetchEvents` returns the good alerts along with the
  error of the bad one; the poller drops the batch on any error and keeps its
  watermark (`poller.go:87`), so it fetches the bad alert again for ever.
  `alphasense.go:175`: "malformed alert: skipped, reported, not fatal".

Smaller ones that were met on the way and have no run of their own:

* The engine counts detections, not frames
  (`SlidingWindowEventConfirmationEngine.kt:39`), so one frame with enough of them
  confirms alone; `ConfirmationPolicy.kt:6` says "How many corroborating frames
  are needed".
* "crashing into a restart loop is noisier than waiting" (`main.go:55`), and
  `README.md:132` promises to wait and retry; but `/healthz` is served only once the store is open, and
  the livenessProbe of `deploy/k8s/connector.yaml:83` gives up on it after about a
  minute, so Kubernetes restarts a pod that waits longer.
* A server that fails makes `run()` stop in order and return nil (`main.go:179`),
  so the process reports success.
* GracefulStop waits for StreamEvents calls whose contexts nobody cancels
  (`main.go:187`), and a second SIGTERM is swallowed: `ShutdownEnds` needs clients
  that end their streams.
* `Shutdown` gives HTTP requests 10 s (`main.go:185`), a request may take longer
  (`PoolClosedLast` lets the ones it left behind meet a closed store).
* "schema can never drift from the code" (`storage.go:5`): a pod of the old
  version serves on under the newer schema during a rolling update.
* A new view model's screen shows the status the last one left, Ready included,
  from its creation until its own load begins, although `close` has taken the
  model (`FireSmokeDetector.kt:121`); `MonitoringViewModel.kt:35` says 'never a
  faked "ready"'. Where view models overlap, clearing the old one stops the
  camera and takes the model of the new one: without `~crossed`, TLC refutes
  `StatusIsTrue` and `LoadedStaysLoaded`.
* A faked Ready does not take overlapping screens: a first screen's load has written
  the model (`FireSmokeDetector.kt:86`) when that screen is cleared and the model
  closed; the next screen's load fails and says Error; then the first load writes
  Ready (line 91), with no model behind it. Status and model are separate writes
  that nothing orders against `close`. What does hold is `LoadedStaysLoaded`.
* `reliability.Do` does not retry what `errors.Is(err, context.DeadlineExceeded)`
  (`retry.go:61`), and the timeout of `http.Client` is such an error: it ends the
  call (`TimeOut`). `README.md:121`: "times out | Retried with backoff+jitter".
* Dedup keys are unique per source in the table (`0001_init.sql:50`);
  `domain.go:120` says "Unique per (device, source)".
* A retried telemetry snapshot whose first response was lost leaves two rows.
* UpsertDevice leaves a known status alone when a report has none ("Zero-value
  fields never clobber known data", `storage.go:119`); the TouchDevice that follows
  for a heartbeat writes UNKNOWN over it.
* A command whose poll response is lost stays DELIVERED until the reaper fails
  it; `storage.go:340` says "each command is delivered exactly once". It is at
  most once.
* A negative device result is taken for a PENDING command (`storage.go:382`);
  `commands.go:151` speaks of "a delivered command", and
  `TestResultOnUndeliveredCommandIsConflict` only tries a positive one.
* An event whose insert commits but errs, or is followed by a crash, is stored
  and never streamed, since the retry is a duplicate; `events.go:7` says "the
  gRPC event stream sees everything".
* A cycle in which every Accept fails moves the watermark all the same
  (`poller.go:95`); `poller.go:26` says it is kept.
* The watermark is in memory and restarts one interval back (`poller.go:51`);
  `README.md:136` says of a restart "Safe: all state in Postgres".
* stopMonitoring resets the engine on the main thread without joining the
  coroutine that may be inside `process` (`MonitoringViewModel.kt:128`);
  `EventConfirmationEngine.kt:8` says "drive it from a single coroutine".
* A frame that fails is counted in the metrics, but every published snapshot
  replaces the count (`MonitoringViewModel.kt:157`); the comment at line 154
  says "count it".

## 7. Not modelled

* **Left out of modules that model their neighbours**: the phone's telemetry
  loop, sound switch and metrics; the wall clock of the camera's throttle, which
  `Capture` has already passed; non-maximum suppression, a pure function of
  floating-point boxes.
* **Without a caller in the program**: SaveProviderConnection,
  GetProviderConnection and the cipher they use run in tests only.
* **A statement that outlives its context**: in DeviceRegistry `InTime` ends a
  request's statements with its deadline; one that the server commits after the
  client gave up would set the status back by as much longer.
* **Errors that are no Exceptions**: processFrame catches Exception
  (`MonitoringViewModel.kt:153`); an Error, say running out of memory, ends the
  process or the coroutine and is not modelled.
* **Out of reach of TLC**: inference, floating-point geometry, image conversion,
  AES-GCM, HMAC (a yes or no in WebhookIntake).
* **No behaviour of interest**: generated protobuf code, the
  configuration's durations and sizes (constants here), logging and metrics,
  rendering, sounds and notifications, read-only queries.
* The provider simulator is a development tool; the environments of
  PollingIngest, WebhookIntake and ProviderAccess follow it.

## 8. Plan

1. *Model*: a wall clock for the camera's throttle; the telemetry loop next to
   MonitoringSession; `Nms` over a small grid as a function against a
   declarative definition of suppression.
2. *Abstract specifications worth stating*: an idempotent store that
   EventPipeline implements for its senders; an at-most-once inbox for
   WebhookIntake.
3. *Prove*: that the components of 2 implement these specifications; of the webhook
   and polling paths what `ContractKept` and `PathIsSound` say of the phone's.

## 9. Running

    tlc -config MCEventPipeline.cfg MCEventPipeline.tla
    tlc -config MCMonitoringSession.cfg MonitoringSession.tla
    tlapm CommandLifecycleProofs.tla
    tlapm ConnectorLifeProofs.tla      (and the other *Proofs modules)

Every run takes from seconds to less than four minutes on two workers.
