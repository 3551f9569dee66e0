# Formal model of Revaer

TLA+ specifications, TLC configurations and TLAPS proofs kept beside the Revaer
source. `PROJECT.json` is the index: which definition models which lines, which
run checks which property, which mutant shows that the property can fail, which
theorem is proved, and where the code and its documentation disagree.

    tlc -config EventBus.cfg MCEventBus           # model-check one instance
    tlapm OrchestratorProofs.tla                  # check the proofs of a module

Contents: 1 inventory, 2 modules, 3 runs, 4 fairness, 5 proofs, 6 findings and
known gaps, 7 what is not modelled, 8 what could come next.

## 1. Inventory

Revaer is a torrent server in Rust: one process, many tokio tasks, a PostgreSQL
database and a libtorrent session behind a worker task.

| Part | Source (under `crates/`) | State | Operations | Works with |
|---|---|---|---|---|
| event bus | `revaer-events/src/routing.rs` | next id, replay buffer, broadcast channel | `send`, `subscribe`, `replay`, `backlog_since`, `last_event_id` | everyone publishes; SSE, orchestrator and qB sync read |
| SSE stream | `revaer-api/.../handlers/sse.rs` | receiver, previous id | subscribe, yield, lag, drop | bus; browser and CLI clients |
| fsops pipeline | `revaer-fsops/src/service/mod.rs` | metadata file, library tree, health flag | fourteen steps of `apply` | called by the orchestrator; publishes |
| fsops job records | the same file, `revaer-data` | a row per torrent in `fs_jobs` | started, completed, failed: each a task of its own | database |
| orchestrator, catalog | `revaer-app/src/orchestrator.rs` | catalog, runtime rows, policy | `handle_event`: `observe`, `persist_runtime`, `apply_fsops`; seeding at start | bus, fsops, database |
| torrent commands | `revaer-api/.../torrents/handlers.rs`, `revaer-torrent-libt/src/adapter.rs` | command queue | add, delete, actions | worker, bus |
| engine worker | `revaer-torrent-libt/src/worker.rs`, `store.rs` | resume cache and files, payloads, cleanup goals, health | commands, flushes of session events, cleanup, start | libtorrent, bus |
| global speed limits | `worker.rs`, `adapter.rs` | base limits, limits in force, alternative speed plan | configurations, limits, a 30 s timer | libtorrent, orchestrator, facade |
| qBittorrent facade | `revaer-api/.../handlers/compat_qb.rs` | metadata, sessions | `sync/maindata`, translated commands | catalog, bus backlog |
| configuration | `revaer-config/src/loader.rs`, `revaer-app/src/bootstrap.rs`, `orchestrator.rs` | settings and their revision, the watcher's stream, the copies in use | changesets, reset, LISTEN and polling, applying a snapshot, blocklist refresh | database, orchestrator, worker |
| setup tokens, API keys | `revaer-config`, `handlers/setup.rs`, `auth.rs` | active token, keys | issue, validate, consume | database |
| label catalog | `handlers/torrents/labels.rs` | part of the app profile | read, change, write back | configuration |
| rate limiter | `revaer-api/src/http/rate_limit` | a bucket per key | refill, evaluate | every request |
| indexer jobs | `revaer-app/src/indexer_runtime.rs`, SQL | job schedule, leases | claim, run | database |
| indexers, Torznab | `revaer-app/src/indexers.rs`, handlers | none in the process | stored procedures | database |
| CLI, UI, telemetry, tools | their crates | none of the server's | clients and output | API |

What is hard, and what correctness means there:

* **Bus.** Publishers interleave between the two locks of `send`; clients lag,
  leave and resume. No id may be lost, doubled or handed out twice, a
  subscriber that keeps up misses nothing, a resuming client gets what it missed.
* **Pipeline.** A crash or an I/O error can fall between an effect on the disk
  and the saving of its outcome. Completion must be durable, final and true (the
  artifact is there and whole), no payload may ever be lost, and every
  interruption must be resumable.
* **Job records.** Database writes are spawned and land in any order, or not at
  all. The row must end up with an outcome, and with an error exactly when that
  outcome is a failure.
* **Orchestrator.** Commands, events, removals and restarts overtake each other.
  The database must mirror the catalog, the catalog must show what the session
  has, a completion must be post-processed from a known source.
* **Worker.** Any session call and any write may fail, and the process may die in
  the middle of a write. Session and store must not drift apart, settings must
  outlive a restart, a removed torrent must leave nothing, a cleanup policy that
  is met must be carried out.
* **Speed limits.** Configurations, limits of clients and the schedule meet in one
  worker: what the session enforces must be what the worker believes.
* **Settings.** A change passes from the tables by a notification or a poll, a
  snapshot read in several statements and an apply that may fail: the engine must
  not stay on old settings with nothing left to wake the watcher.
* **Facade.** A client merges answers put together from a catalog, a bounded buffer
  and a metadata map that are read one after another: its view must follow.

## 2. Modules

| Module | Models | Used by |
|---|---|---|
| `EventBus` | bus and SSE stream | `MCEventBus`, `EventBusProofs` |
| `FsOps` | the pipeline, its files and its metadata | `MCFsOps`, `FsOpsProofs` |
| `FsJobs` | reports of the pipeline to the database | `MCFsJobs`, `FsJobsProofs` |
| `Orchestrator` | API handlers, worker queue, bus, loop, catalog, rows | `MCOrchestrator`, `OrchestratorProofs` |
| `Worker` | worker, resume store, session as the worker uses it | `MCWorker`, `WorkerProofs` |
| `TorrentSettings` | abstract: what the worker promises about settings | `Worker`, by refinement |
| `SpeedLimits` | global limits and the alternative speed plan | `MCSpeedLimits`, `SpeedLimitsProofs` |
| `Settings` | settings tables, watcher, apply loop, blocklist refresh | `MCSettings`, `SettingsProofs` |
| `QbSync` | `sync/maindata`, bus, catalog and a polling client | `MCQbSync`, `QbSyncProofs` |

Three modules compose parts. `Orchestrator` has the bus, the worker and the
pipeline in it, each reduced to the steps the catalog can observe; `QbSync` puts
the bus and the catalog under a client's sync; `Settings` joins the database, the
configuration watcher and the orchestrator's side of the engine. The detail of each part
is in its own module. Definitions called mutants (each directly above the
definition it replaces) are plausible bugs; none is part of a specification.

**EventBus.** `nextId` and `replay` are the two locked fields; `channel` is
everything ever broadcast, a receiver is a position in it and one that is more
than `Capacity` behind has lagged, as in tokio. `send` is four actions, one per
lock or atomic read (`SendNumber`, `SendReplay`, `SendCount`, `SendBroadcast`).
`subscribe` with a Last-Event-ID is `Subscribe`, `ReplaySnapshot`, then
`ReplayDiscard` and `ReplaySend` for each missed envelope. `Receive` has the
duplicate suppression of `event_sse_stream`, `ReceiveLagged` its way with
`Lagged`. An event is its id. The filter of a stream is left out: it only ever
removes events.

**FsOps.** `disk` maps each place (a source, an extraction directory, an entry of the
library) to whose payload is there and whether all of it; `meta` is the metadata file
of each torrent, possibly torn; `run` is the pipeline in progress with its metadata in
memory. There is one action per step, and more where an interruption in the middle
leaves a different disk: extraction, the copy of a transfer and the removal after it.
Policies that are invalid in themselves (an empty library root, a glob that does not
compile, a par2 mode that is none) are left out: they fail the pipeline before it
touches the payload, as a denied path does. `SaveMeta` is `persist_meta`, `IoError`
and `Crash` may come at any point. The orchestrator awaits each `apply`, so one
pipeline runs at a time. par2, 7z and unrar are external; permissions change nothing
that is modelled; a checksum stands for the tree it was taken of.

**FsJobs.** `tasks` are the spawned reports, each with its next database call;
`Write`, `Inspect` and `Seed` are these calls, with the stored procedures
`mark_fs_job_started` (as of migration 0121), `_completed` and `_failed` as
operators on the row. A database call may fail, the torrent's row may be removed
(and take the job with it), the process may crash.

**Orchestrator.** `commands` is the worker's bounded queue, `session` what libtorrent
holds, `replay` and `unread` the bus, `catalog` and `rows` the two copies of the
statuses, `phase` where the loop is in `handle_event`. DELETE is two steps, since it
queues the command and then publishes; the remove action and the facade's delete only
queue. `Resume` and `Resend` are a client's resumed stream, whose old events reach the
loop as well. `Restart` loses all but the rows and seeds the catalog from them;
`FactoryReset` truncates the rows, and nobody tells the catalog. `unsaved` is a
history variable: the torrents whose row a failed call, a failed seeding or a reset
left behind, until the next status is stored. `excused` is another: torrents hit by
one of two gaps that are inherent in the code (an event published before the loop's
task first runs; an add accepted during the torrent's own DELETE).

**Worker.** `session` is what libtorrent does with each torrent it holds, with
what its snapshot last reported; `cache`, `payloads` and `goals` are the worker's
maps; `metaFile` and `resumeFile` the store. A command is one action (a failing
one, and an add that fails half way, are actions of their own); a flush is
`BeginFlush`, `HandleEvents` for each torrent, `ApplyAction` for each removal and
`EndFlush`. `Crash` may tear the file the last step wrote; `Restart` is
`Worker::new`, where one torn file makes `load_all` give nothing. Settings are
grouped by how an add merges them: a stored value wins (selection, sequential), or
the request does (rate, options, trackers, cleanup). A request may leave the sequential
mode out: the session then takes the profile's (`SequentialDefault`), and the entry says
false. A torrent the session already holds takes from a second add what
`session.cpp:1363` applies and nothing else, and pausing or resuming switches its
automatic management, which is one of the options. History variables: `halfAdded`, `gone`,
`unsaved`, `dropped`, and for these two cases `defaulted` and `switched`.

**TorrentSettings** knows nothing of files or caches: settings, which torrents are
active, and which are at risk. `Worker` implements it with `settings <- cache`,
`active <- Held`, `atRisk <- unsaved`; the interesting obligation is that a restart
changes nothing unless some file was not whole, and that then a torrent that was not
at risk comes back as it was or not at all.

**SpeedLimits.** `inbox` is the bounded command channel, `sessionLimits` what the
session enforces. `Reconcile` is `reconcile_alt_speed`, called by both commands and by
the timer; `Shift` is the clock moving into or out of the schedule. The
orchestrator sends the plan and then its limits again (`ApplyEnginePlan`,
`UpdateLimits`), with a client's `ApplyRateLimit` perhaps in between.

**Settings.** `profile`, `meta`, `policy` and `revision` are the tables; a policy is its
row and its lists, which are in a table without a trigger, so that `ApplyChangeset` of
the lists alone is neither numbered nor announced (`Unannounced`). The watcher's
task is a program counter: three reads of a snapshot, subscribing, applying in four
steps, then waiting for a notification or for the poll. `LoadBlocklist` is the
download, which may never return, with its cache keyed by address; `PersistMetadata` is
the blocklist refresh writing settings itself. A time is the number of its download
and whether it is finer than the microseconds PostgreSQL keeps. Two
ghosts name what the code cannot make good: `missed` (a change no notification or
poll will reveal) and `failed` (a snapshot not applied).

**QbSync.** `Number`, `Push` and `Broadcast` are the parts of `send`, `Observe` is the
orchestrator, for which any event but a removal may write the status; `Resend` is an
SSE stream that resumes and has an old event sent to the orchestrator again.
`UpdateMetadata` is announced, `SetMetadata` (add, move, remove) is not. A request is
`ListStatuses`, `ReadLastEventId`, `BacklogSince` and `Respond`, with anything in
between. `view` is the client's. The ghosts `late`, `skipped` and `silent` are the
torrents the races of section 6 hit, an event sent again or an unannounced change
among them, until a later event mends them.

## 3. Runs

All bounds are named constants. They are small because a violation of any of
these properties needs few actors: two publishers to swap ids, one crash to fall
between two steps, two torrents to collide. Every action of every specification
fires in a passing run, and every property is violated by at least one mutant
under the same configuration. Deadlock is checked for `Worker` and `SpeedLimits`,
whose timers always run; the others come to rest when their bounds are used up, and
a server with nothing to do may stop.

| Run | Instance | Shows |
|---|---|---|
| `event_bus` | 2 publishers, 1 client with 3 connections, capacity 2, 3 events (93k states) | `ReplayIdsUnique`, `NoGapBeforeEviction`, `FreshSubscriberComplete`, `UnreadIsDelivered`: eviction, lag, resumed streams, repeated and out-of-order ids all happen |
| `fsops_resume` | 1 torrent of any form, 15 policies, 1 crash, 1 I/O error, torn writes, 1 policy change (0.9M states) | `CompletedIsDurable`, `SafeUnlessMoveInterrupted`, `ChecksumsCurrent`, `CompletedIsFinal`, `RetriesComplete` |
| `fsops_shared` | 2 torrents, one of them downloaded into the library, all modes, a policy change, no interruption | `CompletedIsPlaced`, `PayloadKept`, `CompletedIsFinal` |
| `fs_jobs` | 3 calls, 2 database errors, 2 removals, 1 crash | `SettledHasOutcome`, `ErrorIffFailed`, `OutcomeIsRecorded` |
| `orchestrator` | 1 torrent, an add, a removal of any kind, a report, a resumed stream, an error, a factory reset, a restart (1.9M states) | `RowsMirrorCatalog`, `LiveIsVisible`, `SourceIsKnown`, `CompletionIsProcessed` |
| `worker` | 1 torrent, a request that sets nothing and one that sets everything, a profile that downloads in order, 3 commands, 1 failing call or write with a crash after it, or 1 crash (0.5M states) | `EngineFollows`, `RemovedLeavesNothing`, `SatisfiedIsRemoved`, `DueIsRemoved`, `SessionRecovers`, `SettingsAreKept` (the refinement) |
| `speed_limits` | 3 rates, 4 requests, 2 failing calls, any schedule | `LimitsAgree`, `PlanFollowsSchedule` |
| `settings` | profiles with and without a blocklist, 2 policy rows with 2 lists each, 2 changes, a refresh, 2 downloads, an error (2.3M states) | `StaleIsNoticed`, `ChangeIsApplied` |
| `qb_sync` | 2 torrents, 2 events per process, capacity 1, and one of a restart, an event sent again and an unannounced change (1.2M states) | `ViewFollowsCatalog`, `MetadataIsSeen`, `ClientConverges` |
| `event_bus_resume`, `fsops_move_crash`, `worker_fastresume` | the smallest instance that shows it | violations, section 6 |

Each passing run also checks the `TypeOK` of its module, with one exception:
`fsops_resume` does it for both runs of `FsOps`.

Reading the properties: `FreshSubscriberComplete` is about clients without a
Last-Event-ID that did not lag. `SafeUnlessMoveInterrupted` says that the artifact of
completed metadata is whole and no payload is ever lost, under every crash and error
if the policy never changes, does not move and does not flatten late (section 6), and
in every mode and through every change of the policy if nothing is interrupted.
`CompletedIsPlaced` and `PayloadKept` are its two halves for two torrents; an
interruption is no part of their run, and breaks both if it falls into a move.
`RetriesComplete` says that a torrent attempted again and again is completed in the
end. `RowsMirrorCatalog` says that a row departs from the catalog for the reasons
`unsaved` names and for no other. `EngineFollows` compares the session with the store
for every torrent whose add did not fail half way; the sequential mode of a torrent in
`defaulted` is the profile's, and the options of one in `switched` are not compared.
`StaleIsNoticed` says that a watcher that waits on old settings has a notification or
a newer revision ahead of it, or one of the two ghosts names the reason, and then a
failure shows as degraded health. `ChangeIsApplied` has the premise that no download
of the blocklist hangs for good. `ViewFollowsCatalog` and `MetadataIsSeen` are the
same idea for a client of the facade. The premises of all these are exactly the gaps
of section 6.

One torrent is enough for `Worker`: its handlers touch one torrent at a time, and
the two places that do not, `load_all` and the removals a failing one drops, are
written for any number.

## 4. Fairness

Liveness is checked with weak fairness of what the runtime drives by itself, and
of nothing a user, a peer or the environment may or may not do.

* `EventBus`: a publisher inside `send` proceeds (it only takes short locks), and
  the stream of a connected client is polled by the HTTP server. Nobody is obliged
  to publish, connect or leave.
* `FsOps`: a started pipeline proceeds (its steps are synchronous calls). That
  a torrent is attempted again is a premise of `RetriesComplete`.
* `FsJobs`: the runtime polls spawned tasks, and the pipeline returns.
* `Orchestrator`: the loop's task is polled and the database call and pipeline it
  awaits return. The worker, the handlers and the clients are not fair.
* `Worker`: one task, so one condition (`WorkerStep`): the poll timer of 200 ms starts
  flushes, a flush handles its events and removals and ends, and the process is started
  again after a crash. Commands,
  downloads and the clock are not fair.
* `SpeedLimits`: the worker serves its channel, and the timer's reconciliation, when its
  call does not fail, is run. Requests and the schedule are not fair.
* `Settings`: the watch task goes on and its queries return; nobody is obliged to change
  settings. Failures are bounded, never forced. The download of the blocklist is not
  fair: its HTTP client has no timeout (`orchestrator.rs:152`).
* `QbSync`: an event with an id is pushed and broadcast, the orchestrator's loop
  reads, and the client keeps polling (the premise of its convergence). Nothing else
  is fair.

## 5. Proofs

Each theorem holds for every value of the constants: any number of torrents,
clients, commands, crashes and failing calls. The assumptions are the `ASSUME`s of
the modules: capacities are positive (tokio panics otherwise), bounds are natural
numbers, `None` is no torrent and no status, and the names a pipeline may use are
names. Every safety invariant that a run checks is also a theorem.

* **`EventBusProofs`**: `TypeCorrect`, `ReplayIdsAreUnique`, `NoGap`,
  `FreshComplete`. `TypeOK` is not inductive: that a new id is not in the buffer
  needs that every id held or buffered is below `nextId` (`IdsIssued`), so
  `BusInv == TypeOK /\ IdsIssued`. Uniqueness and no-gap are then inductive
  relative to `BusInv`; both rest on the lemma about `PushReplay` (a full buffer
  shifts by one). `FreshComplete` needs to know where each event is on its way to
  a client: held by a publisher, in the channel beyond the client's position, or
  yielded (the tracking invariant), and that a subscribed client makes
  `HasReceivers` true, so that `send` does not take its early return.

* **`FsOpsProofs`**: `TypeCorrect`, `CompletedDurable`, `FinalOnceCompleted`,
  `PayloadSafe`, `PlacedUnlessInterrupted`, `KeptUnlessInterrupted`, `SumsCurrent`.
  The invariant is built in layers, each inductive relative to those before it:

  1. `TypeInv`: types, which phases a step has (`RunInv`), durability.
  2. `ShapeInv`: the paths in metadata are the torrent's own, before Transfer they
     follow from which steps are done, and the metadata in memory is that of the
     file but for the steps that do not save their success.
  3. `PosInv`: what Extract and Flatten can still do to an artifact that was found in
     position, where Transfer is skipped and so runs again on every resume.
  4. `SafeInv`: where the payload is. It is at the staging path until it has been
     transferred and at the artifact from then on, for every torrent at rest (so that
     a crash may come at any point) and for the run in progress.
  5. `SumInv`: what a resumed run will not sum again is what is on disk.

  All but the first two theorems have the hypothesis `NamesApart`: no two torrents
  share a place in the library, and a directory downloaded into the library does not
  hold one of its own name. It is a hypothesis about the names, not the pipeline; the
  code does not keep torrents apart, and where they meet one replaces the other
  (section 6). With a policy that extracts it allows one torrent only, since all
  archives go to `<library>/extracted`. `MCFsOps` assumes it of every instance, so TLC
  evaluates that the instances the runs check satisfy it.

  `PlacedUnlessInterrupted` and `KeptUnlessInterrupted` are about `CompletedIsPlaced`,
  which has the premise that no run was interrupted, and `PayloadKept`, to which the
  theorem adds it. `fsops_shared` checks both with its bounds of no crash and no I/O
  error; `fsops_move_crash` shows that the premise is needed. `PayloadSafe` is what holds
  through interruptions.

* **`FsJobsProofs`**: `TypeCorrect`, `ErrorMatchesStatus`, `SettledOutcome`. That
  reports are unique per call needs that tasks belong to calls made and that the
  call in progress has no outcome report yet (`TasksOK`). For `SettledOutcome`
  the invariant `OutcomeInv` says that while nothing fails, a returned job has an
  outcome in its row or a report on the way that will find, or insert, a row.

* **`OrchestratorProofs`**: `TypeCorrect`, `RowsMirror`, `SourceKnown`, `LiveVisible`.
  The inductive invariant `IInv` is `StateOK /\ ReceiverOK /\ HandledInv /\
  RowsMirrorCatalog /\ SourceIsKnown`. `HandledInv` says what the catalog holds for
  the event being stored: nothing after a removal, a status after any other, a library
  path after a completion, and for `SelectionReconciled`, which leaves the catalog
  alone, what the row already has unless it is `unsaved`. `LiveVisible` follows the
  events instead: while nothing failed and no stream resumed, a torrent of the session
  is in the catalog with no removal of it unread, or some unread event will create it
  and no removal comes after that one, or a removal is queued (`VisibleInv`); and a
  DELETE that has yet to publish is the last word on its torrent, which is why an add
  accepted meanwhile has to be excused.

* **`WorkerProofs`**: `TypeCorrect`, `SessionFollowsStore`, `RemovalIsComplete`,
  `SatisfiedGoalIsActedUpon`, `WorkerImplementsTorrentSettings`. The invariant is
  per torrent (`TorrentInv`): the three properties and the facts they need, that the
  last step wrote no file of a torrent that is gone (else a crash would tear one into
  existence) and that outside `unsaved` the metadata file is the cache. Of the flush
  it needs that nothing is left over between two of them. The refinement is a step
  simulation: the handlers that set one value are `Update`, an add is `Add`, or
  `AddFails` where it fails half way, a removal is `Remove`, a torrent the session
  reports as lost is `Drop`, a crash is `Stop`, and events store again what is stored;
  the one hard case is `Restart`, which rests on the second of those facts.

* **`SettingsProofs`**: `TypeCorrect`, `StaleSettingsAreNoticed`. The invariant
  follows a value from the tables to the engine: while a snapshot is read
  (`SnapInv`), applied (`ApplyInv`) or in force (`WaitInv`), whatever in it differs
  from the tables is known, by a notification still unread, a revision the poll has
  not seen, or one of the ghosts.

* **`QbSyncProofs`**: `TypeCorrect`, `ViewFollows`, `MetadataReachesClient`. All events
  anywhere were published by this process with ids below the next (`IssuedInv`);
  the answer under way agrees with the catalog but for what is marked late, skipped or
  silent (`ListedInv`, `NumberedInv`, `CollectedInv`); and a torrent that no event
  beyond the client's rid is about is shown as it is, with no event of it still on
  the way to the catalog or the buffer (`ViewInv`). That last conjunct is the
  strengthening: without it an event with an id the client has passed could change
  the catalog afterwards.

* **`SpeedLimitsProofs`**: `TypeCorrect`, `LimitsAlwaysAgree`. `LimitsAgree` is
  inductive together with the types; the argument is one lemma, `ReconcileAgrees`:
  called with limits that are in force, `reconcile_alt_speed` leaves limits that are
  in force, whether or not its call fails. Both commands and the timer call it so: the
  commands because they take the plan out of force before, or start a fresh one.

Three properties changed because a proof of them failed. `StaleIsNoticed` did not
hold beyond the bounds of its run: a reset puts the revision back, and later changes
may bring it no further than what the poll has already seen, or be announced by
notifications that are given up for such a poll; `missed` now names both (`Blind`,
`Unpolled`). `ViewFollowsCatalog` and `MetadataIsSeen` took any event on
the way for one that would reach the client; `Coming` now asks for an id beyond its
rid. `SafeUnlessMoveInterrupted` did not except the late flatten of section 6.

Only model-checked: the liveness properties (`UnreadIsDelivered`, `RetriesComplete`,
`OutcomeIsRecorded`, `CompletionIsProcessed`, `DueIsRemoved`, `SessionRecovers`,
`ChangeIsApplied`, `ClientConverges`, `PlanFollowsSchedule`), since these provers do not
reason about fairness. The liveness half of the refinement does not arise:
`TorrentSettings` promises safety only.

## 6. Findings and known gaps

Each finding is a run with an expected violation:

1. `event_bus_resume`: `replay` throws away one received message per message it
   re-sends, from the second on its own; a client that missed two events gets one.
2. `fsops_move_crash`: after a crash between the rename of a move and the saving
   of the metadata, the resumed transfer removes the moved payload.
3. `worker_fastresume`: `handle_add` loads the fastresume payload after
   `add_torrent`, which is the only call that would use it (`worker.rs:320`).

Gaps met while modelling, with no run of their own. Where one bears on a property
it is a premise of the property or a history variable names it.

Bus, pipeline, orchestrator:

* A lagging receiver ends the orchestrator's loop for good (`orchestrator.rs:253`),
  though `docs/api/guides/bootstrap.md:7` has each event update the catalogue.
* Events that follow the early `TorrentRemoved` of a DELETE bring the torrent back
  into the catalog and the database (`handlers.rs:219`; `orchestrator/tests.rs:627`).
* All extracted archives go to `<library>/extracted`, the second replacing the first
  (`mod.rs:771`; `docs/adr/009-fsops-permission-hardening.md:15`).
* `replay` re-broadcasts to every subscriber, so clients that did not resume get
  old events again; the stream only drops an id equal to the one just before
  (`sse.rs:174`, `routing.rs:128`). An old `TorrentRemoved` re-sent this way hides
  a torrent that was added anew: `LiveIsVisible` assumes no resumed stream.
* The remove action, the facade's delete and the cleanup policies publish no
  `TorrentRemoved` (`handlers.rs:622`, `compat_qb.rs:866`, `worker.rs:1304`).
* A metadata file cut short by a crash makes every later `apply` fail
  (`mod.rs:2320`): `RetriesComplete` excepts it.
* Resuming under other cleanup rules may run a step recorded as skipped after the
  checksums were taken (`mod.rs:1150`): `ChecksumsCurrent` excepts an interrupted
  run that meets a changed policy.
* A download directly in the library is in position, so Transfer is recorded as
  skipped and runs again on a resume. If the cleanup rules have by then left a single
  nested directory, the resumed Flatten makes that the staging path, and
  `run_transfer` removes the artifact around it before it copies
  (`mod.rs:790`-`1030`): one crash or I/O error loses the payload, in copy mode too.
  `SafeUnlessMoveInterrupted` excepts it (`FlattensLate`). If the nested directory has
  the name of the payload itself, the same happens without any interruption
  (`NamesApart`, second part).
* The reports of two successive calls are unordered (`mod.rs:2194`): a failure may
  be written over the success of its retry. `SettledHasOutcome` therefore promises
  the outcome of some call, not of the last.

* A factory reset truncates `revaer_runtime` (migration 0067) and tells neither the
  orchestrator nor the worker: the catalog and the session keep torrents that have no
  row until their next event, and a restart in between forgets them (`unsaved`).

Worker and store:

* A ratio goal is looked at when progress is reported, and a seeding torrent
  reports none (`worker.rs:1062`, `session.cpp:1963`): a policy with only a ratio may
  never be carried out, though `docs/adr/029-torrent-authoring-labels-and-metadata.md:15`
  lets cleanup rules remove torrents after ratio thresholds.
* File rules given with an add are stored and never reach the session, unless a
  stored selection differs (`worker.rs:475`, `native.rs:327`): `EngineFollows` allows
  the default selection. `docs/adr/003-libtorrent-session-runner.md:9` has the engine
  enforce selections.
* An add without a sequential mode is stored as not sequential, while the session
  takes the default of the profile (`worker.rs:322`, `346`; `session.cpp:1375`), which
  is true in the database: a later add goes by the stored value
  (`defaulted`).
* Pausing clears the automatic management of a torrent in the session and resuming sets
  it (`session.cpp:1413`-`1425`), whatever is stored; an add of a torrent that is held
  stores options the session does not take (`session.cpp:1363`): both are `switched`.
* A removal that fails in a flush is never tried again and drops the ones after it
  (`dropped`); an add that fails after `add_torrent` leaves a torrent nobody announced
  (`halfAdded`); one torn metadata file costs the resume data of all torrents at the
  next start (`unsaved`).
* A command for an unknown torrent succeeds and writes a metadata file for it
  (`worker.rs:1334`). Nothing adds torrents again after a restart. A payload loaded
  for an add stays in the session after the torrent is removed.

Settings:

* A change committed between the statements of a snapshot, or between a snapshot and
  the LISTEN that follows it, at the start and when a poll attaches again, is not seen
  until the next one (`loader.rs:220`, `244`, `508`);
  `docs/adr/001-configuration-revisioning.md:17` has consumers ask for what they
  missed. A reset puts the revision back to one, which a poll takes for nothing new.
  `PgListener` reconnects without a word.
* A change of only `cleanup_keep`, `cleanup_drop` or `allow_paths` writes
  `fs_policy_list_values`, which has no trigger (`0007_rebaseline.sql:651`), and
  `apply_changeset` bumps the revision itself for secrets only (`loader.rs:643`): the
  running process keeps the old lists until another change, though
  `docs/adr/001-configuration-revisioning.md:13` has triggers number and announce every
  update. `missed` names it.
* The blocklist is downloaded by a client without a timeout (`orchestrator.rs:152`): a
  server that never answers holds up every later change of the settings.
* A failed query ends the watch task and a snapshot that could not be applied is not
  tried again (`bootstrap.rs:446`): both show as degraded.
* The blocklist refresh writes the orchestrator's whole profile back, so a client's
  change committed in between is undone (`orchestrator.rs:620`). Its timestamp loses
  its nanoseconds in the database, so the refresh that its own notification starts
  finds another change to write (`orchestrator.rs:613`). A stored etag without a
  cached list makes "not modified" an error (`load_blocklist`).
* The facade's limit for one direction clears the other (`compat_qb.rs:1012`). A
  window over midnight is looked up under the day of the present minute
  (`is_alt_speed_active`).

Facade:

* The rid of an answer may be ahead of the statuses listed before it (`late`); events
  that left the buffer while newer ones are in it, or that were pushed after a later
  id, are not reported (`skipped`). The test for a gap can hardly be true, since the
  event with the last id is itself in the buffer (`compat_qb.rs:303`). An event sent
  again to the orchestrator changes the catalog under an id the client has passed
  (`routing.rs:115`; `late`). Adding, moving and removing a torrent change the metadata
  shown to clients with no event (`compat_qb.rs:578`, `handlers.rs:62`, `617`, `623`;
  `silent`). After a restart
  ids begin anew, and a client with an old rid is told nothing until they catch up.

## 7. What is not modelled, and why

* libtorrent itself, and the conversion of options and alerts at the FFI: an
  external library; `Worker` has what the worker relies on.
* Setup tokens, API keys and sessions of the facade: access control is outside the
  scope of this project. The setup changes are applied and the token consumed in two
  transactions (`setup.rs:181`): if the second fails, the client is given an error for a
  setup that is in force.
* The label catalog (a read-modify-write across two transactions, in which one of two
  concurrent changes is lost: `labels.rs:130`) and the app profile: nothing but the
  API reads them.
* The rate limiter: one bucket per key under one lock, sequential arithmetic over
  128-bit microseconds of which small instances tell nothing.
* Indexer jobs: the claim is one SQL statement, the process only calls it. Indexer
  management, search and Torznab forward requests to stored procedures and keep no
  state in the process.
* `FsJobs` leaves the factory reset out (it would remove the job row during a call, as a
  removal does between calls), and the two fallbacks of `record_job_completed` for
  metadata without paths (`mod.rs:2145`-`2175`), which completed metadata always has.
* The CLI, the UI, telemetry and the documentation indexer are clients and output.
* Within the modelled parts: paths and file contents below the level of "whose
  payload, and is it whole"; timestamps, rates and progress numbers of a status;
  the worker's rate limit warnings and the coalescing of progress; validation and
  normalisation of settings; log output and the wording of errors.

## 8. What could come next

1. Action properties with proofs of their own: ids a client is given twice in a row
   (`event_sse_stream`), what a restart may change in the catalog.
2. The abstract side of the other refinements: a bus that delivers each event once to
   each subscriber, and the catalog as a function of the events handled.
3. `FsOps` without `NamesApart`: which of two torrents that share an entry of the
   library survives, as a theorem instead of a gap.
