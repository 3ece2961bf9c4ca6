------------------------------ MODULE PodWatcher ------------------------------
(***************************************************************************)
(* The process as main.go assembles it: the informer of Informer reports   *)
(* to the handler of internal/handler/event_handler.go, whose callbacks    *)
(* change the store of StateStore, which serves the consumer of            *)
(* ChangeFeed.  The two persisted things, the position and the records,    *)
(* are saved independently and reloaded together by a new process.         *)
(*                                                                         *)
(* Informer takes a seed, a relist or an event in one step.  Here every    *)
(* callback is a step of its own, with saves, requests and the end of the  *)
(* process in between.  Every pod is the driver of an application.         *)
(*                                                                         *)
(* Within a process all happens in one millisecond, so that every stamp is *)
(* bumped past the last; a new process starts when the last has passed.    *)
(***************************************************************************)
EXTENDS Naturals, Sequences, FiniteSets

CONSTANTS
  Names, MaxRV, MaxRestarts, MaxFaults, ReusesNames, Compacts, Crashes,
  Outlives,
  Apps, MaxApps, MaxPods, MaxTime, PageLimit,
  AppOf          \* the application a pod's labels name

VARIABLES
  history, compacted, lastRV, rvDirty, synced, cache, stage, list, sent,
  view, viewFile, checkpoint, baseline, saving, late, blind, gap, behind,
  overrun, faults, restarts, apps, pods, driverByApp, lastChanged, dirty, file, clock,
  cursor, seen,
  done,          \* the callbacks made of the informer's step in progress
  undone         \* <<application, changedAt>> of the records that a crash brought
                 \* back behind the consumer's cursor (history)

I == INSTANCE Informer

\* The startup snapshot is being delivered until the informer has synced.
\* Requests are served whole; ChangeFeed takes them apart.
F == INSTANCE ChangeFeed WITH
       Uids <- I!Uids, WatchedPods <- {}, ListedPods <- {},
       seeding <- ~synced, page <- [x \in {} |-> x],
       Filters <- {{}}, wanted <- {}

ASSUME PodWatcherAssumption ==
  /\ MaxRV \in Nat /\ MaxRestarts \in Nat /\ MaxFaults \in Nat
  /\ ReusesNames \in BOOLEAN /\ Compacts \in BOOLEAN /\ Crashes \in BOOLEAN
  /\ Outlives \in BOOLEAN
  /\ IsFiniteSet(Apps) /\ AppOf \in [I!Uids -> Apps]
  /\ MaxApps \in Nat \ {0} /\ MaxPods \in Nat \ {0}
  /\ MaxTime \in Nat \ {0} /\ PageLimit \in Nat \ {0}

recordVars == <<apps, pods, driverByApp, lastChanged, dirty, file, clock>>
feedVars == <<cursor, seen, undone>>
savedVars == <<checkpoint, baseline, saving, late, blind, gap, behind, overrun,
               faults, restarts>>
watcherVars == <<history, compacted, lastRV, rvDirty, synced, cache, stage, list, sent,
                 view>>
informerVars == <<watcherVars, viewFile, savedVars>>
vars == <<informerVars, recordVars, feedVars, done>>

-----------------------------------------------------------------------------
(* The callbacks of a step.                                                *)

\* A driver that was modified has succeeded.
PhaseAt(uid, rv) ==
  IF \E r \in 1..rv : history[r].uid = uid /\ history[r].kind = "Modified"
  THEN "Succeeded" ELSE "Running"

\* Times of the API server are whole seconds: the one all of this happens in.
Driver(object) ==
  LET phase == PhaseAt(object.uid, object.rv)
  IN [uid |-> object.uid, app |-> AppOf[object.uid], role |-> "driver",
      phase |-> phase, created |-> 1,
      finished |-> IF phase = "Succeeded" THEN 1 ELSE F!NoTime]

Calls(objects, deleted) == {[object |-> o, deleted |-> deleted] : o \in objects}

\* The event the open watch delivers next.
EventCalls ==
  LET r == I!NextEvent
      deleted == history[r].kind = "Deleted"
      object == I!Object(r)
  IN IF ~deleted /\ I!Known(object) THEN {} ELSE Calls({object}, deleted)

\* The callbacks of the step the informer is in.
StepCalls ==
  CASE stage = "listed" /\ ~synced -> Calls(list.pods, FALSE)
    [] stage = "listed" /\ synced -> Calls(I!News, FALSE) \cup Calls(I!Vanished, TRUE)
    [] stage = "watching" /\ I!Unsent # {} -> EventCalls
    [] OTHER -> {}

\* Mutant: after a relist OnDelete comes to nothing.
ToStoreLive(call) ==
  IF synced /\ ~(call.deleted /\ stage = "listed")
  THEN F!Upsert(Driver(call.object), call.deleted, FALSE)
  ELSE F!Upsert(Driver(call.object), FALSE, TRUE)

\* OnAdd and OnUpdate upsert the pod, as bootstrap during the startup snapshot;
\* OnDelete upserts it as deleted.
ToStore(call) == F!Upsert(Driver(call.object), call.deleted, ~synced)

\* One callback.  A relist reports what is new before what is gone.
Report ==
  \E call \in StepCalls \ done :
    /\ call.deleted => \A other \in StepCalls \ done : other.deleted
    /\ done' = done \cup {call}
    /\ UNCHANGED <<informerVars, feedVars>>
    /\ ToStore(call)

\* What the records hold of each pod, the callbacks of a half-done step included.
ViewNow ==
  [u \in DOMAIN view \cup {call.object.uid : call \in done} |->
     IF \E call \in done : call.object.uid = u
     THEN LET call == CHOOSE c \in done : c.object.uid = u
          IN I!Entry(call.object, call.deleted)
     ELSE view[u]]

\* With all callbacks made the informer moves on: cache and position.
Advance ==
  /\ done = StepCalls
  /\ I!Seed \/ I!Reconcile \/ I!Event
  /\ done' = {}
  /\ UNCHANGED <<recordVars, feedVars>>

\* Mutant: the watch loop does not wait for the callback to return.
WatchOn ==
  /\ I!List \/ I!OpenWatch \/ I!Drop \/ I!WatchGone \/ I!Bookmark
  /\ UNCHANGED <<recordVars, feedVars, done>>

\* The watch loop between two steps.
Watch ==
  /\ done = {}
  /\ I!List \/ I!OpenWatch \/ I!Drop \/ I!WatchGone \/ I!Bookmark
  /\ UNCHANGED <<recordVars, feedVars, done>>

Cluster ==
  /\ \/ \E n \in Names : I!Create(n)
     \/ \E pod \in I!Current : I!Modify(pod) \/ I!Delete(pod)
     \/ I!OtherObject
     \/ I!Compact
  /\ UNCHANGED <<recordVars, feedVars, done>>

SavePosition ==
  /\ I!SaveBegins \/ I!SaveEnds \/ I!SaveFails \/ I!SaveLands
  /\ UNCHANGED <<recordVars, feedVars, done>>

SaveState ==
  /\ UNCHANGED <<watcherVars, savedVars, feedVars, done>>
  /\ viewFile' = ViewNow
  /\ F!Save

Poll ==
  /\ UNCHANGED <<informerVars, done, undone>>
  /\ F!Request

-----------------------------------------------------------------------------
(* The end of a process and the start of the next.                         *)

\* The new process loads the file, at the first time after the last stamp.
Reload ==
  /\ view' = viewFile /\ UNCHANGED viewFile
  /\ I!Starts(checkpoint')
  /\ clock' = IF clock > lastChanged THEN clock ELSE lastChanged + 1
  /\ F!Restart
  /\ done' = {} /\ UNCHANGED <<cursor, seen>>

\* Stop of the informer, then of the store (main.go:150-151): what the store has
\* left to save is saved before.
StopAndStart == ~dirty /\ I!StopSaves /\ Reload /\ UNCHANGED undone

\* Records the consumer has read past that are in the file as they were earlier.
BroughtBack ==
  {a \in DOMAIN file.apps : /\ file.apps[a].changedAt <= cursor
                            /\ a \notin DOMAIN apps \/ apps[a] # file.apps[a]}

CrashAndStart ==
  /\ Crashes /\ late' = I!Left(I!Requests) /\ UNCHANGED checkpoint
  /\ Reload
  /\ undone' = undone \cup {<<a, file.apps[a].changedAt>> : a \in BroughtBack}

Init ==
  /\ I!Init
  /\ apps = F!Empty /\ pods = F!Empty /\ driverByApp = F!Empty
  /\ lastChanged = F!NoTime /\ dirty = FALSE
  /\ file = [apps |-> F!Empty, pods |-> F!Empty]
  /\ clock = 2      \* later than the second the pods were created in
  /\ cursor = F!NoTime /\ seen = F!Empty
  /\ done = {} /\ undone = {}

Next ==
  \/ Cluster
  \/ Watch \/ Report \/ Advance
  \/ SavePosition \/ SaveState
  \/ Poll
  \/ StopAndStart \/ CrashAndStart

Spec == Init /\ [][Next]_vars

-----------------------------------------------------------------------------
(* Properties.                                                             *)

\* The parts keep their types, and a half-done step keeps its callbacks.
TypeOK ==
  /\ I!TypeOK
  /\ F!FeedTypeOK
  /\ done \subseteq StepCalls

StatusOf(u, entry) ==
  IF entry.deleted THEN "deleted" ELSE F!StatusOfPhase[PhaseAt(u, entry.rv)]

\* What Informer takes the records to hold of a pod is what the store holds:
\* every record says what was last reported of its pod, across half-done steps and
\* reloads, and a pod reported alive has its record.  Only a driver that is gone and
\* was recorded deleted before a replay reported it alive again may be without one:
\* it was evicted, with its application.
RecordsFollowReports ==
  /\ DOMAIN pods \subseteq DOMAIN ViewNow
  /\ \A u \in DOMAIN ViewNow :
       /\ u \in DOMAIN pods => pods[u].status = StatusOf(u, ViewNow[u])
       /\ ~ViewNow[u].deleted =>
            u \in DOMAIN pods \/ (AppOf[u] \notin DOMAIN apps /\ I!GoneBy(u, I!Latest))

\* Whatever restarts, crashes, 410s, reused names and failing saves do: a driver
\* that exists and was created before the position has its record, is not
\* recorded deleted, and no change up to the position is missing from it.
LiveRecorded ==
  synced => \A pod \in I!Current : I!HadEvent(pod.uid, lastRV) =>
    /\ pod.uid \in DOMAIN pods
    /\ pods[pod.uid].status # "deleted"
    /\ PhaseAt(pod.uid, I!LastEvent(pod.uid, lastRV)) = "Succeeded" =>
         pods[pod.uid].status = "succeeded"

\* "a short restart can resume the watch from that point and replay pod
\* lifecycle events missed" (pod_informer.go:29): no driver whose deletion the
\* position has passed is on record as alive.  The only ways around it are the
\* three that blind and gap mark: a relist that the records of an earlier process
\* are not compared with, a position ahead of the records a process loaded, and a
\* relist that finds a name taken over.
DeletionsRecorded ==
  ~blind /\ ~gap /\ synced =>
    \A u \in DOMAIN pods : I!GoneBy(u, lastRV) => pods[u].status = "deleted"

\* "delivery is at-least-once" (README.md:220), of deletions, over snapshots,
\* replays, crashes and reloads too: an application recorded as deleted is still
\* ahead of the consumer's cursor, or the consumer has it as deleted, unless a crash
\* brought this record back from before what the consumer read.
DeletionsNotSkipped ==
  \A a \in DOMAIN apps :
    /\ apps[a].status = "deleted" /\ apps[a].changedAt <= cursor
    /\ <<a, apps[a].changedAt>> \notin undone
    => a \in DOMAIN seen /\ seen[a].record.status = "deleted"

Gone(a) ==
  /\ \E u \in 1..I!Latest : history[u].kind = "Added" /\ AppOf[u] = a
  /\ \A pod \in I!Current : AppOf[pod.uid] # a

\* The watch has sent every event and the consumer has every page.
AtRest == stage = "watching" /\ I!Unsent = {} /\ F!Changed = {}

\* From the API server to the consumer: when all is at rest, no application
\* whose driver is gone is alive in the consumer's copy, unless its record is
\* gone too (evicted, or lost in a crash), its deletion went by unreported, or a
\* crash brought the record back behind the cursor.
ConsumerLearnsDeletions ==
  AtRest /\ ~blind /\ ~gap =>
    \A a \in DOMAIN seen \cap DOMAIN apps :
      Gone(a) /\ <<a, apps[a].changedAt>> \notin undone =>
        seen[a].record.status = "deleted"

\* "after a podwatcher restart all live applications are re-reported with fresh
\* changedAt values" (README.md:222): an application whose lifecycle differs from
\* the consumer's copy is ahead of its cursor.
RestartReportsChanges ==
  \A a \in DOMAIN apps \cap DOMAIN seen :
    apps[a].changedAt <= cursor =>
      F!Lifecycle(seen[a].record) = F!Lifecycle(apps[a])
=============================================================================
