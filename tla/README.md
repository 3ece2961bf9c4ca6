# A verification of podwatcher

podwatcher watches the driver and executor pods of Spark applications in one
Kubernetes cluster, keeps a record of every application and pod beyond the life of
the pod, and serves the applications as an incremental feed. This directory holds
TLA+ modules of its core, the TLC configurations that check them, and TLAPS proofs.
Paths are relative to the repository; `state_store.go` is
`internal/store/state_store.go`, `pod_informer.go` is
`internal/informer/pod_informer.go`, `resume_store.go` is
`internal/store/resume_store.go`.

## The system

| Component | State | Operations | What makes it correct |
|---|---|---|---|
| State store (`state_store.go`) | applications, pod records, driver index, `lastChanged`, `dirty` | `UpsertPod`, `BootstrapPod`, eviction, `load`, `save` | applications and their pods go together; limits hold; `changedAt` moves on lifecycle changes only, upwards; nothing is left unsaved |
| State file (`save`, `load`, `persistLoop`, `Stop`) | the file, a temporary file, two goroutines that may save | write, rename, reload | the file is always one whole earlier state and moves forward; what memory holds gets there |
| Change feed (`GetChanges`) | none; the consumer keeps a cursor | a page in two critical sections | no consumer's cursor passes a change it did not receive |
| Pod informer (`pod_informer.go`) | resource version, its dirty flag, cache by name | list, seed, reconcile, watch, bookmark, save | the position never passes an event the records lack; stale versions never win; convergence |
| Checkpoint store (`resume_store.go`) | the saved resource version, a baseline flag | `Load`, `Save` | never ahead of what was processed; follows the position |
| Event handler (`internal/handler/event_handler.go`) | ring buffer of driver events | `OnAdd`, `OnUpdate`, `OnDelete` | calls the right store operation, publishes events and completions |
| Elasticsearch publisher (`internal/elasticsearch/client.go`) | none | `Publish`, `PublishApplication`, up to three attempts | retries and replays overwrite the same document; a completion keeps its outcome; callbacks return |
| Prometheus gateway (`internal/prometheus`, `internal/controller/prometheus_controller.go`) | none | validation, query with up to three attempts | bounded queries that end |
| Legacy import (`internal/store/legacy.go`) | two older files, never changed | one migration at first start | nothing lost, every record at a place of its own in the feed |
| HTTP API, configuration, cluster identity | none at run time | parsing, reads | |

The informer runs one goroutine that lists and watches and calls the handler for
every event; the handler calls the store, under the store's lock, then Elasticsearch.
Two further goroutines save: `persistLoop` of the store every two seconds,
`persistLoop` of the informer every `checkpointFlushSeconds`. `main` starts the
server when the startup snapshot is delivered, and at the end calls `Stop` of the
informer, then of the store; neither waits for the goroutines.

What is hard: the order of two independent persisted things (position and records)
across crashes; the replay of old events over a fresh snapshot; 410 Gone; pods that
reuse a name; the store's two savers; `GetChanges` giving up its lock in the middle;
eviction in the operation that deletes; failures after a flag was cleared; writes to
Elasticsearch that arrive after their caller gave them up, and replays that write the
same documents again. Each is listed with its line in `PROJECT.json` under `hazards`.

## The modules

`StateStore` holds the records. An action is a whole locked operation: `UpsertPod`
and `BootstrapPod` are `upsert` (state_store.go:159), the upsert of the application
and of the pod record followed by both evictions. `AppAfter` is `upsertAppLocked`,
`PodAfter` `upsertPodRecordLocked`; `OldestFirst` gives the choices of the eviction
loops, several when deletion times are equal, as map order and an unstable sort
decide. A pod is read through its labels, so `PodObject` carries the resolved
application and role. `Restart` is `load` in a new process; `Save` writes the file
at once. Time is a number of milliseconds and passes by `Tick`; the first process
starts at the first millisecond after all creation and finish times of the pods in its
startup list (`AfterListed`), as the clock of a live change is past them in the code.

`ChangeFeed` extends it with a consumer. `ReadPage` and `JoinPage` are the two
critical sections of `GetChanges` (state_store.go:519 and 546), `LosePage` an answer
that does not arrive, `Request` a request during which nothing else happens. The
consumer may have a status filter (`wanted`). The restarts here are graceful ones
(`GracefulRestart`). `DriverPhase`, the join of `viewLocked`, is in `StateStore`,
where the exports read it too.

`LegacyImport` extends `StateStore` with the migration: `ImportLegacy` is the whole
locked operation, with the backfill of missing change times (`Ranks` are the orders an
unstable sort may give) and both evictions; `LoadedAtStart` is the test of `main` for
a state file. The two files are taken to be of one moment.

`StateFile` opens `Save` up: snapshot under the lock (`Begin`), then open with
truncation, write, rename, each of which may fail, by the flush loop and by `Stop`.
Memory is a version number. Files are inodes, because a rename moves a file another
saver may have open. `SnapshotFile` is the promise: a whole earlier state that moves
forward and is what a new process starts from. `FilePromise` is the refinement, with
`saved <- Loaded`.

`Informer` puts the informer and the checkpoint store against an API server that is
an append-only history of events with a compaction point (external). `Seed` is
`seedSnapshot` or the initial `relist`, `Reconcile` the relist after a 410, `Observe`
is `onAdded` and `onModified`, `Forget` is `onDeleted`. The handler and the store are
reduced to `view`: per pod, the version last seen and whether it was seen deleted;
both handler callbacks that are not deletions upsert the pod as present.
`SaveBegins`, `SaveEnds`, `SaveFails` split `saveRV` at the lock. The PUT of a save
that failed or timed out goes to `late`, from where the checkpoint service may still
apply it at any later time (`SaveLands`), once, or never. When a process ends, those
requests, the save in flight and the final one of `Stop` are on their way (`Requests`):
one may be the last that is applied before the next process reads the checkpoint, and
with `Outlives` the others may be applied after that. An event is one step of report,
cache and position: nothing else reads the cache or the position of an event half done
but a save, which then takes the position before it, as a save just before the event
would.

`PodWatcher` is the process: it instantiates `Informer` and `ChangeFeed` over one set of
variables. A step of the informer that makes callbacks is taken apart (`StepCalls`):
each callback is a step (`Report`, through `ToStore`, which is the store operation the
handler chooses), and when all are made the informer moves on (`Advance`). Saves,
requests of the consumer, events of the cluster, crashes and stops fall between any two
of them. `ViewNow` is what the reports so far say of every pod, and
`RecordsFollowReports` relates it to the store, so that what `Informer` states of its
`view` holds of the records. Two histories are marked where a deletion cannot come to
be known: `blind`, a process that went on from a list without comparing it with the
records of its predecessors, and `gap`, a process that loaded records older than its
position, or a relist that found a name taken over by a new pod. Two more mark what
late requests may do to the checkpoint: `behind`, a process that started at a position
before that of a request which may still be applied, and `overrun`, a checkpoint last
written by a late request. A last one, `undone`,
holds the records that a crash brought back, in the form the file had, behind what the
consumer had already read (`BroughtBack`): their applications may be deleted on record
and not for the consumer.

`Publisher` puts the handler's callbacks over the store, one per event of a pod, and
the write loop under them: the store operation, the document of the event, then
`publishApplication`, each document with up to three attempts (`Attempt`). An attempt
that times out leaves its request in `late`, from where it may still be applied
(`Arrive`). `Die` ends the process anywhere and starts the next with the records last
saved and a position that is not past a callback that has not returned.

`Gateway` has the validation of `query_range` as a set of queries let through and one
query with its attempts, its back-off and a caller that hangs up. `MCOutbound` runs it
beside `Publisher`, as the server's goroutines run beside the watch.

`MCStateStore`, `MCChangeFeed`, `MCPodWatcher` and `MCOutbound` give TLC pods to work
with. `StateFile` and `Informer` have number and set constants only and are checked
directly. Definitions whose comment begins with "Mutant:" are faulty forms of a
definition below them; no specification uses them. They record, for each property, a
bug it detects.

## What is checked

| Run | Shows |
|---|---|
| `MCStateStore.cfg` | store invariants and action properties over reports, snapshots, saves, restarts, from an empty start and from two kinds of legacy files |
| `MCChangeFeed.cfg` | `FeedNeverSkips`, `TornViewsSuperseded` and `ChangesDelivered` for live changes with a page of one, with and without a status filter |
| `StateFile.cfg` | the file implements `SnapshotFile` with failures and crashes, up to the first overlap of the two savers; `Stop` keeps the state unless a flush overlaps it; memory comes to be in the file while nothing fails |
| `InformerResume.cfg` | over a graceful restart, 410s and saves that fail, race, or are applied after later ones or after their process, nothing up to the position or the checkpoint is missing from the records, no record goes back, and the checkpoint comes to be the position |
| `InformerLive.cfg` | under crashes, compaction, a reused name and failing calls together, pods that live are known as alive, and the records converge |
| `MCPodWatcher.cfg` | from the cluster to the consumer: records follow reports, live drivers are recorded, deletions are recorded and reach the consumer, with crashes between any two callbacks |
| `MCOutbound.cfg` | documents and summaries over retries, timeouts, late requests, a crash and a replay; every callback and every query ends; queries are bounded |

Five runs end in a violation, each of a sentence of the README or of a comment in
the code; `findings` in `PROJECT.json` quotes both sides.

| Run | Property | What happens |
|---|---|---|
| `MCChangeFeedSnapshot.cfg` | `FeedNeverSkips` | two pods of the startup list get one `changedAt`, and a page ends between them |
| `StateFileStopRace.cfg` | `StopKeepsState` | `Stop` against a flush in flight |
| `InformerSkipped.cfg` | `ResumedReflected` | a replay skips the events of a name's earlier pod |
| `InformerCrash.cfg` | `DeletionsKept` | a crash between the two saves |
| `MCPodWatcherRestart.cfg` | `RestartReportsChanges` | a driver finishes while the process is down; the snapshot records it without a new `changedAt` |

The passing runs that leave a hazard out say so in their constants: name reuse
(`ReusesNames`), compaction (`Compacts`), crashes (`Crashes`), failures
(`MaxFaults`), graceful stops (`Stops`), startup lists (`ListedPods`). Where a
promise fails only in some situation, the weaker property that holds is stated
beside it: `StopKeepsStateAlone` next to `StopKeepsState`, `DeletionsNotSkipped` next to
`RestartReportsChanges`, `DeletionsRecorded` next to `DeletionsKept`. The properties
about deletions leave out the histories that `blind` and `gap` mark, those about
what a process resumes from the ones that `blind` and `behind` mark, and
`CheckpointFollows` a process that could not read the checkpoint and an `overrun`.
`CleanMeansSaved` compares change and deletion times only, as a startup snapshot changes
status, phase and finish time without setting `dirty`. The hazards no property reaches
are listed with the reason.

These readings of the code are at odds with its documentation too; no run shows them:

- a failed write of the state file is forgotten until some other change
  (state_store.go:737, against state_store.go:80);
- the replay after a crash with an older checkpoint adds a driver that is already gone
  as running again, and its summary in Elasticsearch says `running` until the replay
  has caught up (README.md:131-132); with a 410 in the middle it stays so;
- a pod that is modified during a replay and missing from the snapshot is reported to
  `OnAdd`, so a second `ADDED` document of it is exported (pod_informer.go:382, against
  README.md:29);
- with more live applications than `maxApplications`, the one just deleted is evicted
  in the operation that records it, so that no consumer sees it end and no summary is
  exported (state_store.go:411, against README.md:226-229 and 103);
- a pod record of legacy files whose application they lack is never evicted while it
  is not deleted, and no later eviction of an application takes it along
  (legacy.go:24, against state_store.go:81-82);
- after a 410 in a process that resumed, pods deleted during the gap are never
  reported deleted, nor is the earlier pod of a name that was reused
  (pod_informer.go:282 and 261, against pod_informer.go:247);
- a replayed deletion drops the cache entry of a newer pod of that name
  (pod_informer.go:408, against pod_informer.go:343-344);
- a checkpoint PUT that timed out may be applied after a later save has succeeded; in a
  quiet cluster the checkpoint then stays behind until the next event, and a crash loses
  more than one flush interval (resume_store.go:168, against README.md:239-240). TLC
  finds it when `CheckpointFollows` is stated without `overrun`;
- a checkpoint PUT of a process that has ended, with a position ahead of the one its
  successor read, may be applied while the successor replays: the checkpoint is then
  ahead of the records, and a stop whose save fails, or a crash, leaves the third
  process past deletions nobody recorded (resume_store.go:168, against
  pod_informer.go:29-31). TLC finds it when `CheckpointReflected` is stated without
  `behind`;
- one failed read of the checkpoint at startup disables its saving for the life of
  the process (resume_store.go:153, against README.md:239);
- after two restarts the consumer can keep an application as running for ever: one
  process saves the deletion, the next starts from an older checkpoint, replays an event
  from before it and the consumer reads the application as running again; a crash before
  the next save loads the deleted record behind the cursor, and the deletion that is
  replayed then changes no lifecycle (state_store.go:218-247, against README.md:220).
  One crash is enough when an application that was evicted comes back from the file;
- a driver reported running again by such a replay keeps its deletion time, so that its
  application may be evicted as one of the longest deleted (state_store.go:240 and 411,
  against state_store.go:80-82).

### Bounds

- Store: three applications for `MaxApps` = 2, so that a third finds two deleted ones
  to choose from; `MaxPods` = 2 with four labelled pods, one of them an executor, so
  that both evictions occur and the protection of a driver matters; the three
  milliseconds after those of the listed pods let a stamp be bumped past the clock and
  two deletions share or differ in time. Any number of restarts.
- Legacy files: none; three applications for two places, two of them deleted at the same
  time, one without a `changedAt`; two applications without one.
- Feed: one application of the two at a time is kept, pages of one, three milliseconds
  (and in the run with a startup list the millisecond before, of its pods):
  two changes between the sections of one request and another before the next; the
  filter is none or that of terminal discovery in the README.
- File: three versions, a failure, a restart; two savers, as in the code.
- Informer: in `InformerResume` three events over two names, which are create, modify,
  delete and another object's event in any order, with requests that outlive their
  process (`Outlives`); in `InformerLive` four over one name, a pod and its successor
  with a change of either, so that a replayed deletion can drop the cache entry of the
  successor. One restart; one failing checkpoint call, which leaves one request behind
  besides those of the end of a process.
- Process: three events over one name, each pod the driver of an application of its
  own, two applications kept, pages of one, one restart. No checkpoint call fails while
  its process runs, as in the runs of the informer, but the requests on their way at its
  end may or may not be applied; the theorems about this module hold for any number of
  failures and restarts. The clock stands still within a process, so that every stamp is
  bumped past the last one.
- Exports: one driver that runs and succeeds, one restart, one document whose writes do
  not all succeed (the others are written at the first attempt or after failures).
  The next event of the cluster comes when the last is reported; what a restart
  replays comes on top. The last process does not save.
- Gateway: all queries with start, end and step up to 11, steps of 2 to 4, a range up to
  10, 3 points and times sent in a precision of 2; the boundaries of every limit are
  inside. The division counts intervals, and rounding can add one more: hence
  `MaxPoints + 2`.

### Fairness

- `StateFile!FairSpec`: the ticker keeps firing (`Flush`), `Stop` goes on to its save,
  and a save that began goes on; these are loops and straight-line code.
- `Informer!FairSpec`: `run` loops for ever with a back-off, so lists, seeds and
  watches are retried; a watch that keeps closing still delivers an event on one of
  its connections (strong fairness of `Event`), which is an assumption on the API
  server. `SavingFairSpec`, for `CheckpointFollows`: the save ticker fires and a save
  ends as well. Late requests need not be applied.
- `ChangeFeed!FairFeedSpec`: the consumer keeps polling and answers get through
  between restarts (strong fairness of both sections, as a restart interrupts them);
  the startup snapshot is delivered.
- `Publisher!PubFairness`: an attempt ends at its timeout at the latest, and the code
  between two writes goes on. Nothing is assumed of Elasticsearch.
- `Gateway!GatewayFairness`: the same of an attempt and of a back-off.

## What is proved

Eight modules of proofs, each extending the module it is about. They hold for every
value of the constants: any sets of applications, pods and names, any limits, page
sizes and numbers of events, restarts and faults. Every invariant and every action
property of the passing runs has its theorem, but for liveness.

| Module | Theorem | Property | Under |
|---|---|---|---|
| `StateStoreProofs` | `TypeCorrect` | `TypeOK` | |
| | `CommitsTogether` | `CommitTogether` | |
| | `LimitsAreHeld` | `LimitsHeld` | |
| | `DriversLeaveWithApps` | `DriverLeavesWithApp` | |
| | `ChangesMoveToHead` | `ChangesGoToHead` | |
| | `EvictionTakesOldest` | `EvictsOldestDeleted` | |
| | `DriversJoin` | `DriverJoin` | |
| | `CleanIsSaved` | `CleanMeansSaved` | |
| `StateFileProofs` | `TypeCorrect` | `TypeOK` | |
| | `NothingIsForgotten` | `NothingForgotten` | |
| | `StopKeeps` | `StopKeepsStateAlone` | |
| | `FileKeepsPromise` | `FilePromise` (refinement of `SnapshotFile`) | |
| `ChangeFeedProofs` | `FeedSkipsNothing` | `FeedNeverSkips` | `OnlyLive` |
| | `TornViewsAreSuperseded` | `TornViewsSuperseded` | `OnlyLive`, `OneDriver` |
| `InformerProofs` | `InformerTypes` | `TypeOK` | |
| | `LiveIsKnown` | `LiveKnown` | |
| | `VersionsAdvance` | `NeverStale` | `~ReusesNames` |
| | `ResumeLosesNothing` | `ResumedReflected` | `~ReusesNames`, `~Crashes` |
| | `CheckpointLosesNothing` | `CheckpointReflected` | `~ReusesNames`, `~Crashes` |
| | `DeletionsAreKept` | `DeletionsKept` | `~ReusesNames`, `~Crashes` |
| `PodWatcherProofs` | `TypesAreKept` | `TypeOK` | |
| | `RecordsFollow` | `RecordsFollowReports` | `OneDriver` |
| | `LiveAreRecorded` | `LiveRecorded` | `OneDriver` |
| | `DeletionsAreRecorded` | `DeletionsRecorded` | `OneDriver` |
| | `DeletionsReachConsumer` | `DeletionsNotSkipped` | `OneDriver` |
| | `ConsumerLearns` | `ConsumerLearnsDeletions` | `OneDriver` |
| `PublisherProofs` | `PubTypeCorrect` | `PubTypeOK` | |
| | `EventsAreExported` | `EventsExported` | |
| | `RealAddedIsKept` | `RealAddedKept` | |
| | `OutcomesAreExported` | `OutcomeExported` | `OneDriver`, `PhasesFinal`, `NoEviction` |
| | `OutcomesAreKept` | `OutcomeKept` | `OneDriver`, `PhasesFinal` |
| `GatewayProofs` | `SamplesCapped` | `SamplesBounded` | |
| | `QueryTypes` | `GatewayTypeOK` | |
| `LegacyImportProofs` | `StoreSafe` | the store's invariants | |
| | `EvictsOldest`, `DriversKept`, `ChangesToHead` | as of the store | |
| | `DriversJoined` | `DriverJoin` | `OldStatusesAgree` |
| | `MigrationOrders` | `BackfillOrdered` | |
| | `OldRecordsKept` | `LegacyKept` | |

### What they assume

The named assumptions of the modules are properties of the parameters: finite sets,
positive limits (`BoundsAssumption`, `PodWatcherAssumption`), pods of the stated shape
(`PodsAssumption`), labels of a pod that do not change (`LabelsAssumption`,
`OldLabelsAssumption`, `LivesAssumption`). A theorem states what else it needs:

- `OnlyLive`: nothing is listed at startup. The snapshot gives records of a cold start
  the time of their pods in seconds, and two that share it may be cut apart by a page;
  the run `MCChangeFeedSnapshot.cfg` shows it.
- `OneDriver`: no two driver pods have one `appSparkID`. With two, the record of the
  application is that of the driver reported last, whatever the other does.
- `~ReusesNames`, `~Crashes`: `InformerSkipped.cfg` and `InformerCrash.cfg` show what a
  reused name and a crash between the two saves lead to. Requests may outlive their
  process; the properties leave out what `behind` marks.
- `LegacyAssumption`, of the parameter `LegacyFiles`: in the old files every pod has its
  application. The code reads the two files apart (legacy.go:44-79) and does not see to
  it; with a pod whose application they lack `CommitTogether` is false, as said above.
- `OldStatusesAgree`: in the old files the only driver of an application has its status.
- `PhasesFinal`: a pod that succeeded or failed has done so for good, as Kubernetes has
  it.
- `NoEviction`: the limit has room for every application. Without it `OutcomeExported`
  is false: a crash reloads an application that finished and was deleted, the replayed
  deletion of its driver has it evicted before its summary is made, and a second crash
  loads it once more, with nothing left to replay. The run `MCOutbound.cfg` has one
  application and room for it. `OutcomeExported` itself leaves out the ids of a summary
  that was given up, and those with a request that timed out and may still be applied
  (`unsure`), which could put an earlier status back.

### Along which argument

*Store.* `TypeOK` is inductive by itself. Its one step that is not bookkeeping is
`Restart`: the clock of a new process is the greatest `changedAt` of the file, and that
a finite set of records has one (`LatestType`) is shown without induction, from the
well-foundedness of strict inclusion on the sets of later records. `CommitTogether` and
`LimitsHeld` are stated of memory and of the file together, which makes them inductive
over `Save` and `Restart`. Limits follow from `EvictExhausts`: a choice that leaves more
than the limit took every candidate, by counting. `DriverLeavesWithApp` needs `Labels`:
a record carries the labels of its pod, so that an update never turns a driver's record
into something that may be reclaimed. `DriverJoin` needs `JoinInv`: the index fits the
driver records, and statuses agree in memory and in the file; `EvictionKeepsDrivers` is why an
eviction cannot break it. `CleanMeansSaved` rests on `QuietUpsert`: what leaves nothing
to save is an observation of a known pod by the startup snapshot.

*Feed.* `FeedInv` has four parts. A store without a snapshot that is not dirty is the
file (`CleanExactly`), so that a stop loses nothing; no two applications have one stamp,
and none is ahead of `lastChanged` or the clock (`StampsBehind`), so that a change always
goes ahead of every cursor and a page cannot cut two equal stamps apart; what the cursor
has passed was received (`Delivered`); and what the page being served would pass is in
the page, changed since, or was passed before (`PageHolds`), which is what the gap
between the two critical sections needs. `PodsTrue` (the driver's record has the status
its phase says) gives the theorem about torn views.

*File.* `AloneInv` holds up to the first overlap of the savers. There is one at a time
(`OneSaver`), so the temporary file it writes is not the state file (`TmpApart`), so the
state file stays one whole snapshot (`MainWhole`) and a rename moves it forward
(`NewerPending`); `Kept` and `Promised` relate it to memory and to the moment of `Stop`.
`FilePromise` maps `saved` to what the next process would load: a rename is a
`Commit`, a new process a `Reload`, and opening, writing and failing are stutters.

*Informer.* `InformerInv` is inductive under every step, crashes and reused names
included: the history is one a cluster can have (`WellFormed`), lists and caches are
of versions it had and never ahead of it (`ListOK`, `CacheOK`), records of versions
their pods had and deleted only when they were (`RecordsOK`), and what the position
has passed of a pod that exists is on record (`LivePassed`). `LiveKnown` follows. Three
invariants rest on it. `StaleInv` (a pod on record that exists is in the cache) makes
`NeverStale` hold; `ReflectInv` relates the position, the checkpoint and every version
that a request on its way may make of it (`Underway`) to the records and to each other,
since a save that is refused or late may move the checkpoint back; it gives
`ResumedReflected`, `CheckpointReflected` and `DeletionsKept`. `GhostInv`, which the
process needs, says that, outside `blind` and `gap`, no record is alive past the deletion
of its pod, for which a process without a position needs its cache to know of every
record.

*Process.* `Typed` lifts `InformerInv` and the store's types over half-done steps: the
callbacks made are some of those of the step (`DoneOK`), and when all are made the step
leaves the view they put together (`SeedAsCalled`, `ReconcileAsCalled`,
`EventAsCalled`). What is proved of `Informer` and `ChangeFeed` is used by instance; the
lemmas `SameInformer` and `SameStore` say that both names mean the same. `FitInv`
relates the records to the reports, in memory and in the file: records of driver pods
with their applications and the status that was reported; what is missing, or has a
deletion time, is of a pod that is gone, which is why eviction never takes a driver
that exists. `DeliveryInv` is about the consumer: stamps are in the past and those of
deletions are unique (`StampInv`), so that every new one is past the cursor and no page
cuts two deletions apart; the startup list has no pod recorded deleted (`ListedLive`),
so that the snapshot, which stamps nothing, never revives a deletion the consumer has
yet to read; a store that is not dirty has every deletion as the file has it
(`SavedDeletions`), so that a stop brings none back. `ConsumerLearns` puts the three
together: what the watch has delivered is recorded deleted, and what is recorded deleted
was received.

*Exports.* `PubInv` types what is in progress. `ReportInv` and `FlagInv` give the events:
a callback returns only after its document was written or given up, and no document has
another's id. The summaries need `SeenInv` (the watch goes through a pod's versions in
order), `RecordInv` (a callback's application is on record with the phase of its event),
`FinishInv` (what is known as finished has ended, in the file too) and `SummaryInv`.
`FirstInv` (a first process knows nothing as finished before an event says so) and
`HonestInv` (every document written or still to arrive tells the outcome) give
`OutcomeKept`.

*Gateway.* Integer arithmetic over the limits, and a typing invariant.

*Migration.* A step of `LegacySpec` is the migration or a step of the store, so each
invariant of the store needs the migration only (`LegacyInv` says what there is before
it and before the first save). `Ordered` gives `BackfillOrdered`: the ranks of an order
that a sort may give are distinct. `KeptInv` follows what nothing deletes through the
first save and the load of the old files after a crash before it.

### Only model-checked

Liveness under fairness, and with it `ENABLED`, is beyond the prover: `ChangesDelivered`,
`EventuallyMirrors`, `CheckpointFollows`, `MirroredUnlessFailed`, `CallbacksReturn`,
`QueriesEnd`. The five properties that fail are shown to fail by their runs.

## What is not modelled

- The ring buffer of diagnostic driver events behind `GET /events`: each addition builds
  a new array, and nothing else reads it.
- `GetPodRecords`, `GetStats` and the lookups of pods: reads without state.
- Query parsing, JSON, redaction, configuration, cluster identity and its backfill on
  old records, deployment assets: no state.
- Callbacks that run between the final saves of the two `Stop` calls and the exit of
  the process. They are not saved, as those before a crash are not.
- A crash of the machine with unsynced writes; a wall clock that steps back between
  two processes, or creation and finish times ahead of the local clock (README.md:224
  asks for NTP-synced nodes).
- Labels of a pod that change, and one `appSparkID` shared by two runs (the second
  keeps the finish and deletion time of the first, state_store.go:229).

## Plan

1. Done: store, feed, file, informer; typing, joint commit, limits, eviction order,
   `changedAt` proved.
2. Done: `PodWatcher`, the informer composed with the store and the feed; `Publisher`
   and `Gateway`; `LegacyImport`.
3. Done: proofs of every invariant and action property of the passing runs, and of the
   refinement of `SnapshotFile`.
4. Proofs left: `FeedNeverSkips` with a startup snapshot whose times are all different
   (instead of `OnlyLive`); `ChangesGoToHead` of the store inside `PodWatcher`; the
   order of events and summaries of a replay in `Publisher`.
5. Later: the ring buffer with its readers, callbacks between the final saves and the
   exit, a wall clock that steps back.
