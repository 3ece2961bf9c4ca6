----------------------------- MODULE StateStore -----------------------------
(***************************************************************************)
(* The store of records of internal/store/state_store.go: one record per   *)
(* Spark application, one per driver or executor pod, the index from an    *)
(* application to its driver pod, and the clock behind changedAt.  Every   *)
(* operation of the code runs under one lock, so each is one action.  The  *)
(* state file is taken as one value here, written at once by Save; its     *)
(* write, rename and crash steps are those of StateFile.                   *)
(*                                                                         *)
(* A time is a number of milliseconds, NoTime a nil or zero time.          *)
(***************************************************************************)
EXTENDS Naturals, FiniteSets

CONSTANTS
  Apps,          \* application ids (the appSparkID label)
  Uids,          \* keys of pod records (podKey)
  WatchedPods,   \* pod objects the watch can deliver
  ListedPods,    \* pod objects the startup list can hold
  MaxApps,       \* maxApps: applications kept before deleted ones are evicted
  MaxPods,       \* maxPods: pod records kept before deleted ones are evicted
  MaxTime        \* bound of the model: the last millisecond it looks at

NoTime == 0
NoApp == "noapp"
NoRole == "norole"
Phases == {"Pending", "Running", "Succeeded", "Failed", "Unknown"}
Statuses == {"unknown", "pending", "running", "succeeded", "failed",
             "Unknown", "deleted"}

\* A pod as the store reads it: its labels resolved to an application and a
\* role, its phase, creation time and the finish time of its main container.
PodObject == [uid : Uids, app : Apps \cup {NoApp},
              role : {"driver", "executor", NoRole}, phase : Phases,
              created : Nat, finished : Nat]

Pods == WatchedPods \cup ListedPods

ASSUME PodsAssumption == Pods \subseteq PodObject

\* The labels that name a pod's application and role never change.
ASSUME LabelsAssumption ==
  \A p, q \in Pods : p.uid = q.uid => p.app = q.app /\ p.role = q.role

ASSUME BoundsAssumption ==
  /\ IsFiniteSet(Apps) /\ IsFiniteSet(Uids)
  /\ MaxApps \in Nat \ {0} /\ MaxPods \in Nat \ {0} /\ MaxTime \in Nat \ {0}

ApplicationRecord == [status : Statuses, changedAt : Nat,
                      finishedAt : Nat, deletedAt : Nat]
PodRecord == [app : Apps, role : {"driver", "executor"}, phase : Phases,
              status : Statuses, deletedAt : Nat]

VARIABLES
  apps,          \* applicationId -> record
  pods,          \* pod key -> record
  driverByApp,   \* applicationId -> key of its driver's record
  lastChanged,   \* the newest changedAt handed out to a live change
  dirty,         \* changed since the last save
  file,          \* the content of the state file
  clock,         \* time.Now()
  seeding        \* the startup snapshot is still being delivered

vars == <<apps, pods, driverByApp, lastChanged, dirty, file, clock, seeding>>

-----------------------------------------------------------------------------
(* Observing one pod.                                                      *)

Put(f, k, v) == [x \in DOMAIN f \cup {k} |-> IF x = k THEN v ELSE f[x]]
Without(f, gone) == [x \in DOMAIN f \ gone |-> f[x]]

StatusOfPhase == [Pending |-> "pending", Running |-> "running",
                  Succeeded |-> "succeeded", Failed |-> "failed",
                  Unknown |-> "Unknown"]

\* Mutant: the phase is kept as the API server writes it.
PodStatusRaw(pod, deleted) == IF deleted THEN "deleted" ELSE pod.phase

PodStatus(pod, deleted) == IF deleted THEN "deleted" ELSE StatusOfPhase[pod.phase]

Terminal(pod) == pod.phase \in {"Succeeded", "Failed"}
OrNow(t) == IF t = NoTime THEN clock ELSE t

\* The application's record before this observation.
Before(pod) ==
  IF pod.app \in DOMAIN apps THEN apps[pod.app]
  ELSE [status |-> "unknown", changedAt |-> NoTime,
        finishedAt |-> NoTime, deletedAt |-> NoTime]

\* ... and after it, but for changedAt.  Only a driver moves the lifecycle, and
\* finishedAt and deletedAt keep their first value.
Observed(pod, deleted) ==
  LET old == Before(pod)
      finishes == deleted \/ Terminal(pod)
  IN IF pod.role # "driver" THEN old
     ELSE [old EXCEPT
             !.status = PodStatus(pod, deleted),
             !.finishedAt = IF finishes /\ @ = NoTime THEN OrNow(pod.finished) ELSE @,
             !.deletedAt = IF deleted /\ @ = NoTime THEN clock ELSE @]

\* Mutant: a change of status alone is no change.
LifecycleChangedTimes(pod, deleted) ==
  \/ pod.app \notin DOMAIN apps
  \/ Observed(pod, deleted).finishedAt # Before(pod).finishedAt
  \/ Observed(pod, deleted).deletedAt # Before(pod).deletedAt

LifecycleChanged(pod, deleted) ==
  pod.app \notin DOMAIN apps \/ Observed(pod, deleted) # Before(pod)

\* Mutant: the stamp is the time, whatever was stamped before.
StampNow == clock

\* A live change is stamped with the time, bumped past every earlier stamp.
Stamp == IF clock > lastChanged THEN clock ELSE lastChanged + 1

BootstrapChangedAt(pod, rec) ==
  IF rec.finishedAt # NoTime THEN rec.finishedAt ELSE OrNow(pod.created)

AppAfter(pod, deleted, bootstrap) ==
  LET rec == Observed(pod, deleted)
  IN [rec EXCEPT !.changedAt =
        CASE bootstrap /\ pod.app \notin DOMAIN apps -> BootstrapChangedAt(pod, rec)
          [] ~bootstrap /\ LifecycleChanged(pod, deleted) -> Stamp
          [] OTHER -> @]

PodAfter(pod, deleted) ==
  LET first == pod.uid \notin DOMAIN pods
      was == IF first THEN NoTime ELSE pods[pod.uid].deletedAt
  IN [app |-> pod.app, role |-> pod.role, phase |-> pod.phase,
      status |-> PodStatus(pod, deleted),
      deletedAt |-> IF deleted /\ was = NoTime THEN clock ELSE was]

-----------------------------------------------------------------------------
(* Eviction.  Records with a deletion time go oldest first, as many as the *)
(* surplus asks for; equal times go in any order (map order, unstable      *)
(* sort).                                                                  *)

\* Mutant: off by one.
SurplusFew(f, max) ==
  IF Cardinality(DOMAIN f) > max + 1 THEN Cardinality(DOMAIN f) - max - 1 ELSE 0

Surplus(f, max) ==
  IF Cardinality(DOMAIN f) > max THEN Cardinality(DOMAIN f) - max ELSE 0

\* Mutant: the candidates are not sorted.
EarliestUnsorted(at, n) ==
  { first \in SUBSET DOMAIN at :
      Cardinality(first) = IF Cardinality(DOMAIN at) < n
                           THEN Cardinality(DOMAIN at) ELSE n }

\* The choices of the n earliest records, of all of them when there are fewer;
\* at maps each candidate to its time.
Earliest(at, n) ==
  { first \in SUBSET DOMAIN at :
      /\ Cardinality(first) = IF Cardinality(DOMAIN at) < n
                              THEN Cardinality(DOMAIN at) ELSE n
      /\ \A k \in first, s \in DOMAIN at \ first : at[k] <= at[s] }

\* The choices of n of the candidate records of f, the longest deleted first.
OldestFirst(f, candidates, n) == Earliest([k \in candidates |-> f[k].deletedAt], n)

DeletedApps(as) == {a \in DOMAIN as : as[a].deletedAt # NoTime}

\* Mutant: drivers are not protected.
ReclaimableAll(ps, as) == {k \in DOMAIN ps : ps[k].deletedAt # NoTime}

\* A driver's record is protected for as long as its application is known.
Reclaimable(ps, as) ==
  {k \in DOMAIN ps : /\ ps[k].deletedAt # NoTime
                     /\ ~(ps[k].role = "driver" /\ ps[k].app \in DOMAIN as)}

\* Mutant: only the driver of an evicted application goes with it.
OwnedDrivers(ps, as) == {k \in DOMAIN ps : ps[k].app \in as /\ ps[k].role = "driver"}

OwnedBy(ps, as) == {k \in DOMAIN ps : ps[k].app \in as}

-----------------------------------------------------------------------------
(* The operations.                                                         *)

Snapshot == [apps |-> apps, pods |-> pods]

\* The records with the observation in place, before eviction.
AppsWith(pod, deleted, bootstrap) ==
  Put(apps, pod.app, AppAfter(pod, deleted, bootstrap))
PodsWith(pod, deleted) == Put(pods, pod.uid, PodAfter(pod, deleted))
DriversWith(pod) ==
  IF pod.role = "driver" THEN Put(driverByApp, pod.app, pod.uid) ELSE driverByApp

\* Mutant: what the startup snapshot does is never worth a save.
MutatesLive(pod, bootstrap, evicted) == ~bootstrap

\* The operation leaves something to save (the end of upsert).
Mutates(pod, bootstrap, evicted) ==
  \/ ~bootstrap
  \/ pod.app \notin DOMAIN apps
  \/ pod.uid \notin DOMAIN pods
  \/ evicted # {}

Upsert(pod, deleted, bootstrap) ==
  /\ pod.app # NoApp /\ pod.role # NoRole
  /\ LET stamps == ~bootstrap /\ LifecycleChanged(pod, deleted)
     IN /\ stamps => Stamp <= MaxTime
        /\ lastChanged' = IF stamps THEN Stamp ELSE lastChanged
  /\ LET as == AppsWith(pod, deleted, bootstrap)
         ps == PodsWith(pod, deleted)
     IN \E victims \in OldestFirst(as, DeletedApps(as), Surplus(as, MaxApps)) :
          LET kept == Without(ps, OwnedBy(ps, victims)) IN
          /\ apps' = Without(as, victims)
          /\ driverByApp' = Without(DriversWith(pod), victims)
          /\ \E gone \in OldestFirst(kept, Reclaimable(kept, apps'),
                                     Surplus(kept, MaxPods)) :
               /\ pods' = Without(kept, gone)
               /\ dirty' = (dirty \/ Mutates(pod, bootstrap, victims \cup gone))
  /\ UNCHANGED <<file, clock, seeding>>

\* The watch reports a pod (added, modified or deleted).
UpsertPod(pod, deleted) == ~seeding /\ Upsert(pod, deleted, FALSE)

\* The list taken at startup holds a pod.
BootstrapPod(pod) == seeding /\ Upsert(pod, FALSE, TRUE)

\* The startup snapshot is delivered: the watch starts.
Synced ==
  /\ seeding
  /\ seeding' = FALSE
  /\ UNCHANGED <<apps, pods, driverByApp, lastChanged, dirty, file, clock>>

Save ==
  /\ dirty
  /\ dirty' = FALSE
  /\ file' = Snapshot
  /\ UNCHANGED <<apps, pods, driverByApp, lastChanged, clock, seeding>>

Latest(as) ==
  LET times == {NoTime} \cup {as[a].changedAt : a \in DOMAIN as}
  IN CHOOSE t \in times : \A u \in times : u <= t

\* Mutant: any pod of the application is taken for its driver.
AnyPodIndexes(ps) ==
  {f \in [{ps[k].app : k \in DOMAIN ps} -> DOMAIN ps] :
     \A a \in DOMAIN f : ps[f[a]].app = a}

\* The driver index is rebuilt in the order of the file, which is the order of
\* a map: with two driver records of one application either may win.
DriverIndexes(ps) ==
  LET drivers == {k \in DOMAIN ps : ps[k].role = "driver"}
  IN {f \in [{ps[k].app : k \in drivers} -> drivers] :
        \A a \in DOMAIN f : ps[f[a]].app = a}

\* The process ends, gracefully or not, and a new one loads the file.  The
\* clock is taken to have passed every stamp handed out by then.
Restart ==
  /\ clock' \in {t \in clock..MaxTime : t > lastChanged}
  /\ apps' = file.apps
  /\ pods' = file.pods
  /\ lastChanged' = Latest(file.apps)
  /\ driverByApp' \in DriverIndexes(file.pods)
  /\ dirty' = FALSE
  /\ seeding' = TRUE
  /\ UNCHANGED file

Tick ==
  /\ clock < MaxTime
  /\ clock' = clock + 1
  /\ UNCHANGED <<apps, pods, driverByApp, lastChanged, dirty, file, seeding>>

Empty == [x \in {} |-> x]

\* What the startup list holds was created, and has finished, before this time.
AfterListed(t) == \A pod \in ListedPods : pod.created < t /\ pod.finished < t

\* The first process starts at the first such time.
Init ==
  /\ apps = Empty /\ pods = Empty /\ driverByApp = Empty
  /\ lastChanged = NoTime
  /\ dirty = FALSE
  /\ file = [apps |-> Empty, pods |-> Empty]
  /\ clock \in 1..MaxTime /\ AfterListed(clock)
  /\ \A t \in 1..clock - 1 : ~AfterListed(t)
  /\ seeding = TRUE

\* What one process does.
Operate ==
  \/ \E pod \in WatchedPods, deleted \in BOOLEAN : UpsertPod(pod, deleted)
  \/ \E pod \in ListedPods : BootstrapPod(pod)
  \/ Synced
  \/ Save
  \/ Tick

Next == Operate \/ Restart

Spec == Init /\ [][Next]_vars

-----------------------------------------------------------------------------
(* What readers are shown.                                                 *)

\* The driver phase joined to an application, "" without a driver record.
DriverPhase(a) ==
  IF a \in DOMAIN driverByApp /\ driverByApp[a] \in DOMAIN pods
  THEN pods[driverByApp[a]].phase ELSE ""

-----------------------------------------------------------------------------
(* Properties.                                                             *)

Partial(f, K, V) == DOMAIN f \subseteq K /\ f \in [DOMAIN f -> V]

\* Every variable keeps the shape of the Store struct (state_store.go:86).
TypeOK ==
  /\ Partial(apps, Apps, ApplicationRecord)
  /\ Partial(pods, Uids, PodRecord)
  /\ Partial(driverByApp, Apps, Uids)
  /\ lastChanged \in Nat /\ clock \in Nat
  /\ dirty \in BOOLEAN /\ seeding \in BOOLEAN
  /\ file = [apps |-> file.apps, pods |-> file.pods]
  /\ Partial(file.apps, Apps, ApplicationRecord)
  /\ Partial(file.pods, Uids, PodRecord)

OwnersKnown(as, ps) == \A k \in DOMAIN ps : ps[k].app \in DOMAIN as

\* Evicting an application and deleting its pod coordinates commit together
\* (the promise of the Store comment): neither memory nor the file ever holds a
\* pod record whose application is gone.
CommitTogether == OwnersKnown(apps, pods) /\ OwnersKnown(file.apps, file.pods)

\* Over a limit only what may not be removed is left: applications that were
\* not deleted, pods that were not deleted and drivers of known applications.
WithinLimits(as, ps) ==
  /\ Cardinality(DOMAIN as) > MaxApps => DeletedApps(as) = {}
  /\ Cardinality(DOMAIN ps) > MaxPods => Reclaimable(ps, as) = {}

\* Eviction is exhausted at the end of every operation (evictAppsLocked,
\* evictPodsLocked), and the file is never fuller than that.
LimitsHeld == WithinLimits(apps, pods) /\ WithinLimits(file.apps, file.pods)

DriverRecords(a) == {k \in DOMAIN pods : pods[k].app = a /\ pods[k].role = "driver"}

\* The join of viewLocked finds the driver of every application that has one,
\* across eviction and reload, and an application with a single driver has
\* that driver's status.
DriverJoin ==
  \A a \in Apps :
    /\ a \in DOMAIN driverByApp <=> DriverRecords(a) # {}
    /\ a \in DOMAIN driverByApp => driverByApp[a] \in DriverRecords(a)
    /\ \A k \in Uids : DriverRecords(a) = {k} => apps[a].status = pods[k].status

\* A store that is not dirty has nothing that the file lacks: the same
\* applications and pods, with the same change and deletion times.
CleanMeansSaved ==
  ~dirty =>
    /\ DOMAIN apps = DOMAIN file.apps /\ DOMAIN pods = DOMAIN file.pods
    /\ \A a \in DOMAIN apps :
         /\ apps[a].changedAt = file.apps[a].changedAt
         /\ apps[a].deletedAt = file.apps[a].deletedAt
    /\ \A k \in DOMAIN pods : pods[k].deletedAt = file.pods[k].deletedAt

DeletionTime(a) == OrNow(apps[a].deletedAt)

\* An application leaves memory only when the limit is exceeded, and no
\* application deleted before it stays behind (evictAppsLocked).
EvictsOldestDeleted ==
  [][\/ Restart
     \/ \A a \in DOMAIN apps \ DOMAIN apps' :
          /\ Cardinality(DOMAIN apps') >= MaxApps
          /\ \A b \in DeletedApps(apps') : DeletionTime(a) <= apps'[b].deletedAt]_vars

\* "a live application's driver pod is never removed" (state_store.go:85): the
\* record of a driver leaves only together with its application.
DriverLeavesWithApp ==
  [][\/ Restart
     \/ \A k \in DOMAIN pods \ DOMAIN pods' :
          pods[k].role = "driver" => pods[k].app \notin DOMAIN apps']_vars

Lifecycle(rec) == [status |-> rec.status, finishedAt |-> rec.finishedAt,
                   deletedAt |-> rec.deletedAt]

\* "changedAt advances only on lifecycle changes" (README.md:216) and on every
\* one the watch reports, then past every stamp handed out before.  What the
\* startup snapshot changes moves no changedAt (state_store.go:149).
ChangesGoToHead ==
  [][\/ Restart
     \/ \A a \in DOMAIN apps \cap DOMAIN apps' :
          LET lives == Lifecycle(apps'[a]) # Lifecycle(apps[a]) /\ ~seeding IN
          /\ apps'[a].changedAt # apps[a].changedAt => lives
          /\ lives => /\ apps'[a].changedAt = lastChanged'
                      /\ lastChanged' > lastChanged]_vars
=============================================================================
