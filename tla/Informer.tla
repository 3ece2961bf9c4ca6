------------------------------ MODULE Informer ------------------------------
(***************************************************************************)
(* The pod watcher of internal/informer/pod_informer.go against an API     *)
(* server that keeps a history of pod events and compacts it, and the      *)
(* checkpoint store of internal/store/resume_store.go that lets a new      *)
(* process resume.                                                         *)
(*                                                                         *)
(* What the handler and the store of records make of a pod is reduced to   *)
(* one entry of view per pod: the version they last saw and whether they   *)
(* saw it deleted (OnAdd and OnUpdate both upsert the pod, OnDelete upserts *)
(* it as deleted; event_handler.go:67-182).  A resource version is the     *)
(* number of an event, NoRV the empty string.                              *)
(***************************************************************************)
EXTENDS Naturals, Sequences

CONSTANTS
  Names,          \* namespace/name keys of pods
  MaxRV,          \* bound of the model: the last event of the cluster
  MaxRestarts,    \* bound of the model: processes started after the first
  MaxFaults,      \* bound of the model: checkpoint calls that fail
  ReusesNames,    \* whether a deleted pod's name can be taken by a new pod
  Compacts,       \* whether the server forgets old events
  Crashes,        \* whether a process can end without Stop
  Outlives        \* whether a checkpoint request can be applied after the process
                  \* that follows its sender has read the checkpoint

ASSUME InformerAssumption ==
  /\ MaxRV \in Nat /\ MaxRestarts \in Nat /\ MaxFaults \in Nat
  /\ ReusesNames \in BOOLEAN /\ Compacts \in BOOLEAN /\ Crashes \in BOOLEAN
  /\ Outlives \in BOOLEAN

NoRV == 0
RVs == 0..MaxRV
Empty == [x \in {} |-> x]
Put(f, k, v) == [x \in DOMAIN f \cup {k} |-> IF x = k THEN v ELSE f[x]]
NoList == [rv |-> NoRV, pods |-> {}]
Without(f, k) == [x \in DOMAIN f \ {k} |-> f[x]]

VARIABLES
  history,     \* the events of the cluster; the nth has resource version n
  compacted,   \* events up to here can no longer be watched
  lastRV,      \* lastRV of the informer
  rvDirty,     \* its dirty flag
  synced,      \* its synced flag
  cache,       \* its store: name -> the newest pod object seen
  stage,       \* "idle", "listed" or "watching"
  list,        \* the answer of a list call: its version and pods
  sent,        \* the version up to which the open watch has sent events
  view,        \* pod -> what the store of records holds of it
  viewFile,    \* the view the state file holds
  checkpoint,  \* the version in the checkpoint store, NoRV when there is none
  baseline,    \* the checkpoint store was read by this process
  saving,      \* the version a Save call in flight carries, NoRV without one
  late,        \* version -> requests with it that nobody waits for any more
  blind,       \* a process went on from a list without knowing what the records
               \* of its predecessors hold (history)
  gap,         \* a deletion may have gone by unreported: a process started past
               \* it, or a relist found its name taken over (history)
  behind,      \* a process started at a position before that of a request which an
               \* earlier one left and which may still be applied (history)
  overrun,     \* the checkpoint was last written by a late request, not by a save
               \* that the process knows of (history)
  faults, restarts

cluster == <<history, compacted>>
watcher == <<lastRV, rvDirty, synced, cache, stage, list, sent>>
records == <<view, viewFile>>
resume == <<checkpoint, baseline, saving, late>>
bounds == <<blind, gap, behind, overrun, faults, restarts>>
vars == <<cluster, watcher, records, resume, bounds>>

-----------------------------------------------------------------------------
(* The cluster (external).  A pod is named by the version that created it. *)

Latest == Len(history)
Object(r) == [name |-> history[r].name, uid |-> history[r].uid, rv |-> r]

\* The objects of the pods that exist.
Current ==
  {Object(r) : r \in {q \in 1..Latest :
     /\ history[q].kind \in {"Added", "Modified"}
     /\ \A n \in (q + 1)..Latest : history[n].uid # history[q].uid}}

Uids == 1..MaxRV
HadEvent(u, rv) == \E r \in 1..rv : history[r].uid = u

\* The last event of a pod up to a version.
LastEvent(u, rv) ==
  CHOOSE r \in 1..rv : history[r].uid = u /\ \A q \in (r + 1)..rv : history[q].uid # u

GoneBy(u, rv) == HadEvent(u, rv) /\ history[LastEvent(u, rv)].kind = "Deleted"

Happens(kind, name, uid) ==
  /\ Latest < MaxRV
  /\ history' = Append(history, [kind |-> kind, name |-> name, uid |-> uid])
  /\ UNCHANGED <<compacted, watcher, records, resume, bounds>>

Create(n) ==
  /\ n \notin {pod.name : pod \in Current}
  /\ ReusesNames \/ \A r \in 1..Latest : history[r].name # n
  /\ Happens("Added", n, Latest + 1)

Modify(pod) == Happens("Modified", pod.name, pod.uid)
Delete(pod) == Happens("Deleted", pod.name, pod.uid)

\* Another kind of object changes: versions are shared by the whole cluster.
OtherObject == Happens("Other", "", 0)

Compact ==
  /\ Compacts
  /\ compacted' \in (compacted + 1)..Latest
  /\ UNCHANGED <<history, watcher, records, resume, bounds>>

-----------------------------------------------------------------------------
(* Reporting to the handler, and the position.                             *)

Entry(pod, deleted) == [rv |-> pod.rv, deleted |-> deleted]
Reported(pod, deleted) == Put(view, pod.uid, Entry(pod, deleted))

\* Pods that records keep as alive although the position has passed their
\* deletion.
Ghosts(recs, rv) == {u \in DOMAIN recs : GoneBy(u, rv) /\ ~recs[u].deleted}

\* setRV
SetRV(rv) == lastRV' = rv /\ rvDirty' = (rvDirty \/ rv # lastRV)

\* Mutants: the versions are not compared, or the cache is not asked.
KnownByName(pod) == pod.name \in DOMAIN cache
KnownNever(pod) == FALSE

\* The cache holds this version of the pod or a later one (rvAtLeast).
Known(pod) == pod.name \in DOMAIN cache /\ cache[pod.name].rv >= pod.rv

-----------------------------------------------------------------------------
(* listAndWatch.                                                           *)

\* A list call answers; a failing one changes nothing and is tried again.
List ==
  /\ stage = "idle" /\ (lastRV = NoRV \/ ~synced)
  /\ list' = [rv |-> Latest, pods |-> Current]
  /\ stage' = "listed"
  /\ UNCHANGED <<cluster, lastRV, rvDirty, synced, cache, sent, records, resume, bounds>>

ByName(objects) ==
  [n \in {o.name : o \in objects} |-> CHOOSE o \in objects : o.name = n]

\* Mutant: a process that resumes moves to the list's version.
SeedAdvances == SetRV(list.rv)

\* The list's version becomes the position only when there is none to resume
\* from (relist against seedSnapshot).
SeedPosition == IF lastRV = NoRV THEN SetRV(list.rv) ELSE UNCHANGED <<lastRV, rvDirty>>

\* Startup: every pod is reported as INITIAL and the cache is replaced.
Seed ==
  /\ stage = "listed" /\ ~synced
  /\ view' = [u \in DOMAIN view \cup {o.uid : o \in list.pods} |->
                IF \E o \in list.pods : o.uid = u
                THEN Entry(CHOOSE o \in list.pods : o.uid = u, FALSE) ELSE view[u]]
  /\ cache' = ByName(list.pods)
  /\ synced' = TRUE
  /\ SeedPosition
  /\ stage' = "idle" /\ list' = NoList
  /\ UNCHANGED <<cluster, sent, viewFile, resume, bounds>>

\* Mutant: pods that vanished during the gap are not looked for.
VanishedNone == {}

Vanished == {cache[n] : n \in DOMAIN cache \ {o.name : o \in list.pods}}

News == {o \in list.pods : ~Known(o)}

\* A new pod has taken the name of a cached one, which is not reported deleted.
TakenOver ==
  \E o \in list.pods : o.name \in DOMAIN cache /\ cache[o.name].uid # o.uid

\* After a 410: what the list has and the cache lacks or has in an older
\* version is reported, and what only the cache has is reported deleted.
Reconcile ==
  /\ stage = "listed" /\ synced
  /\ view' = [u \in DOMAIN view \cup {o.uid : o \in News \cup Vanished} |->
       CASE \E o \in News : o.uid = u -> Entry(CHOOSE o \in News : o.uid = u, FALSE)
         [] \E o \in Vanished : o.uid = u ->
              Entry(CHOOSE o \in Vanished : o.uid = u, TRUE)
         [] OTHER -> view[u]]
  /\ cache' = [n \in {o.name : o \in list.pods} |->
                 IF n \in {o.name : o \in News} THEN ByName(News)[n] ELSE cache[n]]
  /\ SetRV(list.rv)
  /\ stage' = "idle" /\ list' = NoList
  /\ gap' = (gap \/ TakenOver)
  /\ UNCHANGED <<cluster, synced, sent, viewFile, resume, blind, behind, overrun, faults,
                 restarts>>

\* clearRV.  The next list is reconciled with the cache of this process.
ClearRV ==
  /\ lastRV' = NoRV /\ rvDirty' = FALSE
  /\ blind' = (blind \/ restarts > 0)

\* The watch opens at the position, or is refused with 410 Gone.
OpenWatch ==
  /\ stage = "idle" /\ synced /\ lastRV # NoRV
  /\ IF lastRV < compacted
     THEN ClearRV /\ UNCHANGED <<stage, sent>>
     ELSE /\ stage' = "watching" /\ sent' = lastRV
          /\ UNCHANGED <<lastRV, rvDirty, blind>>
  /\ UNCHANGED <<cluster, synced, cache, list, records, resume, gap, behind, overrun,
                 faults, restarts>>

\* The channel closes; the loop reconnects from the position.
Drop ==
  /\ stage = "watching"
  /\ stage' = "idle" /\ sent' = NoRV
  /\ UNCHANGED <<cluster, lastRV, rvDirty, synced, cache, list, records, resume, bounds>>

\* The server gives up an open watch that fell behind its history.
WatchGone ==
  /\ stage = "watching" /\ sent < compacted
  /\ ClearRV
  /\ stage' = "idle" /\ sent' = NoRV
  /\ UNCHANGED <<cluster, synced, cache, list, records, resume, gap, behind, overrun,
                 faults, restarts>>

\* Mutant: a bookmark is taken for the event of a pod.
UnsentAll == (sent + 1)..Latest

Unsent == {r \in (sent + 1)..Latest : history[r].kind # "Other"}

\* onAdded and onModified: a version the cache already has only moves the
\* position; any other is reported, then cached.
Observe(pod) ==
  IF Known(pod) THEN UNCHANGED <<view, cache>>
  ELSE view' = Reported(pod, FALSE) /\ cache' = Put(cache, pod.name, pod)

\* Mutant: only what the cache has is reported deleted.
ForgetKnown(pod) ==
  /\ view' = IF pod.name \in DOMAIN cache THEN Reported(pod, TRUE) ELSE view
  /\ cache' = Without(cache, pod.name)

\* onDeleted: always reported, whatever the cache holds under that name.
Forget(pod) == view' = Reported(pod, TRUE) /\ cache' = Without(cache, pod.name)

NextEvent == CHOOSE q \in Unsent : \A n \in Unsent : q <= n

\* The next event of the watch.
Event ==
  /\ stage = "watching" /\ Unsent # {}
  /\ LET r == NextEvent IN
     /\ IF history[r].kind = "Deleted" THEN Forget(Object(r)) ELSE Observe(Object(r))
     /\ sent' = r
     /\ SetRV(r)
  /\ UNCHANGED <<cluster, synced, stage, list, viewFile, resume, bounds>>

\* With no event left to send, the server may send its newest version.
Bookmark ==
  /\ stage = "watching" /\ Unsent = {} /\ sent < Latest
  /\ sent' = Latest
  /\ SetRV(Latest)
  /\ UNCHANGED <<cluster, synced, cache, stage, list, records, resume, bounds>>

-----------------------------------------------------------------------------
(* Persistence.                                                            *)

\* saveRV: the position is taken and the flag cleared under the lock ...
SaveBegins ==
  /\ rvDirty /\ saving = NoRV
  /\ rvDirty' = FALSE
  /\ saving' = lastRV
  /\ UNCHANGED <<cluster, lastRV, synced, cache, stage, list, sent, records,
                 checkpoint, baseline, late, bounds>>

\* ... and sent to the store, which refuses it silently until it has been read.
SaveEnds ==
  /\ saving # NoRV
  /\ checkpoint' = IF baseline THEN saving ELSE checkpoint
  /\ overrun' = FALSE
  /\ saving' = NoRV
  /\ UNCHANGED <<cluster, watcher, records, baseline, late, blind, gap, behind,
                 faults, restarts>>

NoLate == [rv \in RVs |-> 0]

\* One more request that nobody waits for, and one less.
Sent(requests, rv) == [requests EXCEPT ![rv] = @ + 1]
Landed(requests, rv) == [requests EXCEPT ![rv] = @ - 1]

\* Mutant: the failure is forgotten.
SaveFailsQuietly ==
  /\ saving # NoRV /\ baseline /\ faults < MaxFaults
  /\ faults' = faults + 1
  /\ saving' = NoRV /\ late' = Sent(late, saving)
  /\ UNCHANGED <<cluster, watcher, records, checkpoint, baseline, blind, gap, behind,
                 overrun, restarts>>

\* A Save that fails or times out marks the position dirty again.  Its request may
\* still be applied, at once, after later saves, or never.
SaveFails ==
  /\ saving # NoRV /\ baseline /\ faults < MaxFaults
  /\ faults' = faults + 1
  /\ rvDirty' = TRUE
  /\ saving' = NoRV /\ late' = Sent(late, saving)
  /\ UNCHANGED <<cluster, lastRV, synced, cache, stage, list, sent, records,
                 checkpoint, baseline, blind, gap, behind, overrun, restarts>>

\* The store applies a request nobody waits for.
SaveLands ==
  /\ \E rv \in RVs :
       /\ late[rv] > 0
       /\ checkpoint' = rv
       /\ late' = Landed(late, rv)
  /\ overrun' = TRUE
  /\ UNCHANGED <<cluster, watcher, records, baseline, saving, blind, gap, behind,
                 faults, restarts>>

\* Store.save, as StateStore has it.
SaveState ==
  /\ viewFile # view
  /\ viewFile' = view
  /\ UNCHANGED <<cluster, watcher, view, resume, bounds>>

\* A new process reads the checkpoint; when that fails it starts as if there
\* were none, and the store stays without a baseline.
Starts(position) ==
  /\ restarts < MaxRestarts
  /\ restarts' = restarts + 1
  /\ \/ lastRV' = position /\ baseline' = TRUE /\ UNCHANGED faults
     \/ /\ faults < MaxFaults /\ faults' = faults + 1
        /\ lastRV' = NoRV /\ baseline' = FALSE
  /\ rvDirty' = FALSE /\ synced' = FALSE /\ cache' = Empty
  /\ stage' = "idle" /\ list' = NoList /\ sent' = NoRV
  /\ saving' = NoRV
  /\ blind' = (blind \/ (lastRV' = NoRV /\ view' # Empty))
  /\ gap' = (gap \/ Ghosts(view', lastRV') # {})
  /\ behind' = (behind \/ \E rv \in RVs : late'[rv] > 0 /\ rv > lastRV')
  /\ overrun' = FALSE
  /\ UNCHANGED cluster

\* The requests on their way when the process ends: those given up and the save in
\* flight.  What they leave to the next process.
Requests == IF baseline /\ saving # NoRV THEN Sent(late, saving) ELSE late
Left(requests) == IF Outlives THEN requests ELSE NoLate

\* Stop saves the position, which is not tried again when it fails, and does not wait
\* for the flush loop.  The last request to be applied, if any is, before the next
\* process reads decides what that process finds.
StopSaves ==
  LET requests == IF rvDirty /\ lastRV # NoRV /\ baseline THEN Sent(Requests, lastRV)
                  ELSE Requests
  IN \/ checkpoint' = checkpoint /\ late' = Left(requests)
     \/ \E rv \in RVs : /\ requests[rv] > 0
                        /\ checkpoint' = rv
                        /\ late' = Left(Landed(requests, rv))

\* The position is saved, then the state (main.go:150).
StopAndStart ==
  /\ StopSaves
  /\ viewFile' = view
  /\ UNCHANGED view
  /\ Starts(checkpoint')

\* The process ends where it is; what was not saved is gone.
CrashAndStart ==
  /\ Crashes
  /\ view' = viewFile
  /\ late' = Left(Requests)
  /\ UNCHANGED <<viewFile, checkpoint>>
  /\ Starts(checkpoint)

-----------------------------------------------------------------------------
Init ==
  /\ history = <<>> /\ compacted = 0
  /\ lastRV = NoRV /\ rvDirty = FALSE /\ synced = FALSE
  /\ cache = Empty /\ stage = "idle" /\ list = NoList
  /\ sent = NoRV
  /\ view = Empty /\ viewFile = Empty
  /\ checkpoint = NoRV /\ baseline = TRUE /\ saving = NoRV /\ late = NoLate
  /\ blind = FALSE /\ gap = FALSE /\ behind = FALSE /\ overrun = FALSE
  /\ faults = 0 /\ restarts = 0

Next ==
  \/ \E n \in Names : Create(n)
  \/ \E pod \in Current : Modify(pod) \/ Delete(pod)
  \/ OtherObject \/ Compact
  \/ List \/ Seed \/ Reconcile
  \/ OpenWatch \/ Drop \/ WatchGone \/ Event \/ Bookmark
  \/ SaveBegins \/ SaveEnds \/ SaveFails \/ SaveLands \/ SaveState
  \/ StopAndStart \/ CrashAndStart

Spec == Init /\ [][Next]_vars

\* The loop of run goes on, and a server that keeps closing watches still
\* sends something on one of them.
FairSpec ==
  /\ Spec
  /\ WF_vars(List \/ Seed \/ Reconcile \/ OpenWatch)
  /\ SF_vars(Event)

\* The flush loop goes on too.
SavingFairSpec == FairSpec /\ WF_vars(SaveBegins \/ SaveEnds)

-----------------------------------------------------------------------------
(* Properties.                                                             *)

Objects == [name : Names, uid : Uids, rv : 1..MaxRV]

\* The watcher, the checkpoint and the records are well typed.
TypeOK ==
  /\ history \in Seq([kind : {"Added", "Modified", "Deleted", "Other"},
                      name : Names \cup {""}, uid : RVs])
  /\ compacted \in 0..Latest
  /\ lastRV \in RVs /\ checkpoint \in RVs /\ saving \in RVs /\ sent \in RVs
  /\ late \in [RVs -> Nat]
  /\ rvDirty \in BOOLEAN /\ synced \in BOOLEAN /\ baseline \in BOOLEAN
  /\ DOMAIN cache \subseteq Names
  /\ \A n \in DOMAIN cache : cache[n] \in Objects
  /\ stage \in {"idle", "listed", "watching"}
  /\ list.rv \in RVs /\ list.pods \subseteq Objects
  /\ DOMAIN view \subseteq Uids /\ DOMAIN viewFile \subseteq Uids

Reflects(v, u, rv) ==
  LET r == LastEvent(u, rv) IN
  IF history[r].kind = "Deleted"
  THEN u \in DOMAIN v => v[u].deleted
  ELSE u \in DOMAIN v /\ v[u].rv >= r

AllReflected(v, rv) == \A u \in Uids : HadEvent(u, rv) => Reflects(v, u, rv)

\* "a short restart can resume the watch from that point and replay pod
\* lifecycle events missed" (pod_informer.go:29): whatever happened up to the
\* position is in the records once the startup snapshot is, so that nothing is lost by
\* going on from there.
PositionReflected == synced => AllReflected(view, lastRV)

\* ... which holds of the first process and of those that go on from a position, unless
\* a request of an earlier process is still to take the checkpoint past it.
ResumedReflected == ~blind /\ ~behind => PositionReflected

\* "a hard crash only loses one flush interval of watch progress"
\* (pod_informer.go:460), which the replay makes up for: no pod whose deletion
\* the position has passed is on record as alive.
DeletionsKept == ~blind /\ ~behind /\ synced => Ghosts(view, lastRV) = {}

\* The same of what the next process will start from: the checkpoint never
\* runs ahead of what was processed, whatever saves race or fail.
CheckpointReflected == ~blind /\ ~behind => AllReflected(view, checkpoint)

\* Whatever restarts, crashes, 410s and reused names do: a pod that exists and
\* was created before the position is recorded, as alive, in a version no older
\* than the position.
LiveKnown ==
  synced => \A pod \in Current : HadEvent(pod.uid, lastRV) =>
    /\ pod.uid \in DOMAIN view
    /\ ~view[pod.uid].deleted
    /\ view[pod.uid].rv >= LastEvent(pod.uid, lastRV)

\* "never let stale state overwrite fresher state" (pod_informer.go:344): the
\* version recorded of a pod that exists never goes back while a process runs.
NeverStale ==
  [][\/ restarts' # restarts
     \/ \A pod \in Current : pod.uid \in DOMAIN view =>
          view'[pod.uid].rv >= view[pod.uid].rv]_vars

Mirrors ==
  /\ \A pod \in Current : pod.uid \in DOMAIN view /\ view[pod.uid] = Entry(pod, FALSE)
  /\ \A u \in DOMAIN view : ~view[u].deleted => u \in {pod.uid : pod \in Current}

\* Once the cluster is quiet, the records come to say of every pod what the
\* cluster says, and of no other that it lives, over crashes, 410s, reused names
\* and saves that fail, unless a deletion went by in one of the known ways.
EventuallyMirrors == <>[](blind \/ gap \/ Mirrors)

\* checkpointFlushSeconds is the "maximum amount of watch progress lost on a
\* hard crash" (README.md:239): once the cluster is quiet the checkpoint comes to
\* be the position, over saves that fail and are tried again, requests that outlive
\* their caller or their process, and restarts.  Two exceptions: a process that could
\* not read the checkpoint saves nothing, and a late request applied after the last
\* save stays.
CheckpointFollows ==
  <>[](~baseline \/ overrun \/ lastRV = NoRV \/ checkpoint = lastRV)
=============================================================================
