--------------------------- MODULE StateStoreProofs ---------------------------
(***************************************************************************)
(* Proofs about StateStore, for all sets of applications and pods and all  *)
(* limits.  First what the operators return, then the invariants: typing,  *)
(* the joint commit of applications and pods, the limits; then the action  *)
(* properties of eviction and of changedAt.                                *)
(***************************************************************************)
EXTENDS StateStore, FiniteSetTheorems, TLAPS

-----------------------------------------------------------------------------
(* Operators.                                                              *)

\* Putting a typed value under a typed key keeps a partial function typed.
LEMMA PutType ==
  ASSUME NEW K, NEW V, NEW f, Partial(f, K, V), NEW k \in K, NEW v \in V
  PROVE  Partial(Put(f, k, v), K, V)
BY DEF Put, Partial

\* ... and so does removing keys.
LEMMA WithoutType ==
  ASSUME NEW K, NEW V, NEW f, Partial(f, K, V), NEW gone
  PROVE  Partial(Without(f, gone), K, V)
BY DEF Without, Partial

\* A choice of Earliest takes candidates only.
LEMMA EarliestSubset ==
  ASSUME NEW f, NEW candidates, NEW n,
         NEW first \in OldestFirst(f, candidates, n)
  PROVE  first \subseteq candidates
BY DEF OldestFirst, Earliest

\* ... and no candidate it leaves has an earlier time than one it takes.
LEMMA EarliestOrder ==
  ASSUME NEW f, NEW candidates, NEW n,
         NEW first \in OldestFirst(f, candidates, n),
         NEW k \in first, NEW s \in candidates \ first
  PROVE  f[k].deletedAt <= f[s].deletedAt
BY DEF OldestFirst, Earliest

\* Of finitely many records one has the greatest time, and Latest is that time.
LEMMA LatestMax ==
  ASSUME NEW rs, IsFiniteSet(DOMAIN rs), \A a \in DOMAIN rs : rs[a].changedAt \in Nat
  PROVE  /\ Latest(rs) \in Nat
         /\ \A a \in DOMAIN rs : rs[a].changedAt <= Latest(rs)
         /\ Latest(rs) = NoTime \/ \E a \in DOMAIN rs : rs[a].changedAt = Latest(rs)
<1> DEFINE Later(t) == {a \in DOMAIN rs : rs[a].changedAt > t}
           times == {NoTime} \cup {rs[a].changedAt : a \in DOMAIN rs}
           family == {Later(t) : t \in times}
<1>1. IsWellFoundedOn(StrictSubsetOrdering(DOMAIN rs), FiniteSubsetsOf(DOMAIN rs))
  BY FS_StrictSubsetOrderingWellFounded
<1>2. family \subseteq FiniteSubsetsOf(DOMAIN rs)
  BY FS_Subset DEF FiniteSubsetsOf
<1>3. PICK least \in family :
        \A other \in family : <<other, least>> \notin StrictSubsetOrdering(DOMAIN rs)
  <2>1. family # {}
    OBVIOUS
  <2>. QED
    BY <1>1, <1>2, <2>1, WFMin
<1>4. PICK t \in times : least = Later(t)
  OBVIOUS
<1>5. times \subseteq Nat
  <2>1. NoTime \in Nat
    BY DEF NoTime
  <2>. QED
    BY <2>1, Zenon
<1>6. \A u \in times : u <= t
  <2>1. SUFFICES ASSUME NEW u \in times, u > t
                 PROVE  FALSE
    <3>. HIDE DEF times
    <3>. QED
      BY <1>5
  <2>2. t \in Nat /\ u \in Nat
    BY <1>5
  <2>3. PICK b \in DOMAIN rs : u = rs[b].changedAt
    <3>1. u # NoTime
      BY <2>1, <2>2 DEF NoTime
    <3>. QED
      BY <3>1, Zenon
  <2>4. b \in Later(t) /\ b \notin Later(u)
    BY <2>1, <2>2, <2>3
  <2>5. Later(u) \subseteq Later(t)
    BY <2>1, <2>2
  <2>6. <<Later(u), least>> \in StrictSubsetOrdering(DOMAIN rs)
    BY <1>4, <2>4, <2>5 DEF StrictSubsetOrdering
  <2>. QED
    BY <1>3, <2>6
<1>. QED
  <2>1. \E m \in times : \A u \in times : u <= m
    BY <1>6
  <2>2. Latest(rs) \in times /\ \A u \in times : u <= Latest(rs)
    BY <2>1 DEF Latest
  <2>3. \A a \in DOMAIN rs : rs[a].changedAt \in times
    OBVIOUS
  <2>4. Latest(rs) = NoTime \/ \E a \in DOMAIN rs : rs[a].changedAt = Latest(rs)
    BY <2>2
  <2>. HIDE DEF times
  <2>. QED
    BY <1>5, <2>2, <2>3, <2>4

-----------------------------------------------------------------------------
(* Typing.                                                                 *)

\* What an observation makes of the records is well typed.
LEMMA ObservedType ==
  ASSUME TypeOK, NEW pod \in PodObject, pod.app # NoApp, pod.role # NoRole,
         NEW deleted \in BOOLEAN
  PROVE  /\ pod.app \in Apps /\ pod.uid \in Uids
         /\ Before(pod) \in ApplicationRecord
         /\ Observed(pod, deleted) \in ApplicationRecord
         /\ PodAfter(pod, deleted) \in PodRecord
<1>1. pod.app \in Apps /\ pod.uid \in Uids /\ pod.role \in {"driver", "executor"}
  BY DEF PodObject
<1>2. PodStatus(pod, deleted) \in Statuses
  BY DEF PodObject, Phases, PodStatus, StatusOfPhase, Statuses
<1>3. Before(pod) \in ApplicationRecord
  BY DEF TypeOK, Partial, Before, ApplicationRecord, Statuses, NoTime
<1>4. Observed(pod, deleted) \in ApplicationRecord
  <2>1. OrNow(pod.finished) \in Nat /\ clock \in Nat
    BY DEF TypeOK, PodObject, OrNow
  <2>. QED
    BY <1>2, <1>3, <2>1 DEF Observed, ApplicationRecord
<1>5. PodAfter(pod, deleted) \in PodRecord
  <2>1. pod.uid \in DOMAIN pods => pods[pod.uid].deletedAt \in Nat
    BY DEF TypeOK, Partial, PodRecord
  <2>. QED
    BY <1>1, <1>2, <2>1 DEF TypeOK, PodAfter, PodRecord, PodObject, NoTime
<1>. QED
  BY <1>1, <1>3, <1>4, <1>5

\* ... its changedAt included.
LEMMA AppAfterType ==
  ASSUME TypeOK, NEW pod \in PodObject, pod.app # NoApp, pod.role # NoRole,
         NEW deleted \in BOOLEAN, NEW bootstrap \in BOOLEAN
  PROVE  AppAfter(pod, deleted, bootstrap) \in ApplicationRecord
<1>1. Observed(pod, deleted) \in ApplicationRecord
  BY ObservedType
<1>2. BootstrapChangedAt(pod, Observed(pod, deleted)) \in Nat
  BY <1>1 DEF TypeOK, PodObject, ApplicationRecord, BootstrapChangedAt, OrNow
<1>3. Stamp \in Nat
  BY DEF TypeOK, Stamp
<1>. QED
  BY <1>1, <1>2, <1>3 DEF AppAfter, ApplicationRecord

\* The records with an observation in place are well typed.
LEMMA WithType ==
  ASSUME TypeOK, NEW pod \in PodObject, pod.app # NoApp, pod.role # NoRole,
         NEW deleted \in BOOLEAN, NEW bootstrap \in BOOLEAN
  PROVE  /\ Partial(AppsWith(pod, deleted, bootstrap), Apps, ApplicationRecord)
         /\ Partial(PodsWith(pod, deleted), Uids, PodRecord)
         /\ Partial(DriversWith(pod), Apps, Uids)
<1>1. AppAfter(pod, deleted, bootstrap) \in ApplicationRecord
  BY AppAfterType
<1>2. pod.app \in Apps /\ pod.uid \in Uids /\ PodAfter(pod, deleted) \in PodRecord
  BY ObservedType
<1>3. /\ Partial(apps, Apps, ApplicationRecord)
      /\ Partial(pods, Uids, PodRecord)
      /\ Partial(driverByApp, Apps, Uids)
  BY DEF TypeOK
<1>. QED
  BY <1>1, <1>2, <1>3, PutType DEF AppsWith, PodsWith, DriversWith

\* What an operation does to the records, whichever it evicts.
LEMMA UpsertSteps ==
  ASSUME NEW pod, NEW deleted, NEW bootstrap, Upsert(pod, deleted, bootstrap)
  PROVE  \E victims \in OldestFirst(AppsWith(pod, deleted, bootstrap),
                                    DeletedApps(AppsWith(pod, deleted, bootstrap)),
                                    Surplus(AppsWith(pod, deleted, bootstrap), MaxApps)) :
           /\ apps' = Without(AppsWith(pod, deleted, bootstrap), victims)
           /\ driverByApp' = Without(DriversWith(pod), victims)
           /\ \E kept, gone :
                /\ kept = Without(PodsWith(pod, deleted),
                                  OwnedBy(PodsWith(pod, deleted), victims))
                /\ gone \in OldestFirst(kept, Reclaimable(kept, apps'),
                                        Surplus(kept, MaxPods))
                /\ pods' = Without(kept, gone)
BY DEF Upsert

\* An operation keeps the types.
LEMMA UpsertType ==
  ASSUME TypeOK, NEW pod \in PodObject, NEW deleted \in BOOLEAN,
         NEW bootstrap \in BOOLEAN, Upsert(pod, deleted, bootstrap)
  PROVE  TypeOK'
<1>1. pod.app # NoApp /\ pod.role # NoRole
  BY DEF Upsert
<1>2. /\ Partial(AppsWith(pod, deleted, bootstrap), Apps, ApplicationRecord)
      /\ Partial(PodsWith(pod, deleted), Uids, PodRecord)
      /\ Partial(DriversWith(pod), Apps, Uids)
  BY <1>1, WithType
<1>3. Partial(apps, Apps, ApplicationRecord)'
  BY <1>2, UpsertSteps, WithoutType
<1>4. Partial(pods, Uids, PodRecord)'
  BY <1>2, UpsertSteps, WithoutType
<1>5. Partial(driverByApp, Apps, Uids)'
  BY <1>2, UpsertSteps, WithoutType
<1>6. lastChanged' \in Nat
  BY DEF TypeOK, Upsert, Stamp
<1>7. dirty' \in BOOLEAN
  BY DEF Upsert
<1>8. UNCHANGED <<file, clock, seeding>>
  BY DEF Upsert
<1>. QED
  BY <1>3, <1>4, <1>5, <1>6, <1>7, <1>8 DEF TypeOK

\* What a new process loads is well typed.
LEMMA RestartType == TypeOK /\ Restart => TypeOK'
<1> SUFFICES ASSUME TypeOK, Restart
             PROVE  TypeOK'
  OBVIOUS
<1>1. Partial(file.apps, Apps, ApplicationRecord) /\ Partial(file.pods, Uids, PodRecord)
  BY DEF TypeOK
<1>2. lastChanged' \in Nat
  <2>1. IsFiniteSet(DOMAIN file.apps)
    BY <1>1, BoundsAssumption, FS_Subset DEF Partial
  <2>2. \A a \in DOMAIN file.apps : file.apps[a].changedAt \in Nat
    BY <1>1 DEF Partial, ApplicationRecord
  <2>. QED
    BY <2>1, <2>2, LatestMax DEF Restart
<1>3. Partial(driverByApp, Apps, Uids)'
  <2> DEFINE drivers == {k \in DOMAIN file.pods : file.pods[k].role = "driver"}
             owners == {file.pods[k].app : k \in drivers}
  <2>1. owners \subseteq Apps
    <3>1. \A k \in drivers : file.pods[k].app \in Apps
      BY <1>1 DEF Partial, PodRecord
    <3>. QED
      BY <3>1, Zenon
  <2>2. drivers \subseteq Uids
    BY <1>1 DEF Partial
  <2>3. driverByApp' \in [owners -> drivers]
    BY DEF Restart, DriverIndexes
  <2>. HIDE DEF drivers, owners
  <2>. QED
    BY <2>1, <2>2, <2>3 DEF Partial
<1>4. clock' \in Nat
  BY DEF TypeOK, Restart
<1>. QED
  BY <1>1, <1>2, <1>3, <1>4 DEF TypeOK, Restart

\* One step keeps the types.
LEMMA TypeStep == TypeOK /\ [Next]_vars => TypeOK'
<1> SUFFICES ASSUME TypeOK, [Next]_vars
             PROVE  TypeOK'
  OBVIOUS
<1>1. ASSUME NEW pod \in WatchedPods, NEW deleted \in BOOLEAN, UpsertPod(pod, deleted)
      PROVE  TypeOK'
  BY <1>1, PodsAssumption, UpsertType DEF UpsertPod, Pods
<1>2. ASSUME NEW pod \in ListedPods, BootstrapPod(pod)
      PROVE  TypeOK'
  BY <1>2, PodsAssumption, UpsertType DEF BootstrapPod, Pods
<1>3. CASE Synced
  BY <1>3 DEF TypeOK, Synced
<1>4. CASE Save
  <2>1. file'.apps = apps /\ file'.pods = pods
    BY <1>4 DEF Save, Snapshot
  <2>. QED
    BY <1>4, <2>1 DEF TypeOK, Save, Snapshot
<1>5. CASE Restart
  BY <1>5, RestartType
<1>6. CASE Tick
  BY <1>6 DEF TypeOK, Tick
<1>7. CASE UNCHANGED vars
  BY <1>7 DEF TypeOK, vars
<1>. QED
  BY <1>1, <1>2, <1>3, <1>4, <1>5, <1>6, <1>7 DEF Next, Operate

\* The empty store is well typed.
LEMMA TypeInit == Init => TypeOK
<1>1. \A K, V : Partial(Empty, K, V)
  BY DEF Partial, Empty
<1>2. Init => /\ file.apps = Empty /\ file.pods = Empty
              /\ file = [apps |-> file.apps, pods |-> file.pods]
  BY DEF Init
<1>3. Init => lastChanged \in Nat /\ clock \in Nat
  BY DEF Init, NoTime
<1>4. Init => dirty \in BOOLEAN /\ seeding \in BOOLEAN
  BY Zenon DEF Init
<1>5. Init => apps = Empty /\ pods = Empty /\ driverByApp = Empty
  BY DEF Init
<1>. QED
  BY <1>1, <1>2, <1>3, <1>4, <1>5, Zenon DEF TypeOK

\* Every variable keeps the shape of the Store struct.
THEOREM TypeCorrect == Spec => []TypeOK
  BY TypeInit, TypeStep, PTL DEF Spec

-----------------------------------------------------------------------------
(* Applications and pods commit together.                                  *)

\* An operation that evicts an application evicts the pods it owns.
LEMMA UpsertOwners ==
  ASSUME TypeOK, OwnersKnown(apps, pods),
         NEW pod, NEW deleted, NEW bootstrap, Upsert(pod, deleted, bootstrap)
  PROVE  OwnersKnown(apps, pods)'
<1> DEFINE rs == AppsWith(pod, deleted, bootstrap)
           ps == PodsWith(pod, deleted)
<1>1. PICK victims, kept, gone :
        /\ apps' = Without(rs, victims)
        /\ kept = Without(ps, OwnedBy(ps, victims))
        /\ pods' = Without(kept, gone)
  BY UpsertSteps
<1>2. \A k \in DOMAIN ps : ps[k].app \in DOMAIN rs
  <2>1. ps[pod.uid].app = pod.app
    BY DEF Put, PodsWith, PodAfter
  <2>2. DOMAIN rs = DOMAIN apps \cup {pod.app} /\ DOMAIN ps = DOMAIN pods \cup {pod.uid}
    BY DEF Put, AppsWith, PodsWith
  <2>3. \A k \in DOMAIN pods : k # pod.uid => ps[k] = pods[k]
    BY DEF Put, PodsWith
  <2>. HIDE DEF rs, ps
  <2>. QED
    BY <2>1, <2>2, <2>3 DEF OwnersKnown
<1>. HIDE DEF rs, ps
<1>3. \A k \in DOMAIN kept : kept[k].app \in DOMAIN rs \ victims
  BY <1>1, <1>2 DEF OwnedBy, Without
<1>4. \A k \in DOMAIN pods' : pods'[k].app \in DOMAIN apps'
  BY <1>1, <1>3 DEF Without
<1>. QED
  BY <1>4 DEF OwnersKnown

\* One step keeps owners and owned together.
LEMMA CommitStep == TypeOK /\ CommitTogether /\ [Next]_vars => CommitTogether'
<1> SUFFICES ASSUME TypeOK, CommitTogether, [Next]_vars
             PROVE  CommitTogether'
  OBVIOUS
<1>1. ASSUME NEW pod, NEW deleted, NEW bootstrap, Upsert(pod, deleted, bootstrap)
      PROVE  CommitTogether'
  BY <1>1, UpsertOwners DEF CommitTogether, Upsert
<1>2. CASE Synced
  BY <1>2 DEF CommitTogether, OwnersKnown, Synced
<1>3. CASE Save
  <2>1. file'.apps = apps /\ file'.pods = pods
    BY <1>3 DEF Save, Snapshot
  <2>. QED
    BY <1>3, <2>1 DEF CommitTogether, OwnersKnown, Save
<1>4. CASE Restart
  BY <1>4 DEF CommitTogether, OwnersKnown, Restart
<1>5. CASE Tick
  BY <1>5 DEF CommitTogether, OwnersKnown, Tick
<1>6. CASE UNCHANGED vars
  BY <1>6 DEF CommitTogether, OwnersKnown, vars
<1>. QED
  BY <1>1, <1>2, <1>3, <1>4, <1>5, <1>6 DEF Next, Operate, UpsertPod, BootstrapPod

\* Neither memory nor the state file ever holds a pod record whose application
\* is gone: eviction of an application takes its pod coordinates along.
THEOREM CommitsTogether == Spec => []CommitTogether
<1>1. Init => CommitTogether
  BY DEF Init, CommitTogether, OwnersKnown, Empty
<1>2. TypeOK /\ CommitTogether /\ [Next]_vars => CommitTogether'
  BY CommitStep
<1>. QED
  BY <1>1, <1>2, TypeCorrect, PTL DEF Spec

-----------------------------------------------------------------------------
(* The limits.                                                             *)

\* When the choice leaves more than max records, it took every candidate.
LEMMA EvictExhausts ==
  ASSUME NEW f, IsFiniteSet(DOMAIN f), NEW max \in Nat,
         NEW candidates \in SUBSET DOMAIN f,
         NEW first \in OldestFirst(f, candidates, Surplus(f, max)),
         Cardinality(DOMAIN f \ first) > max
  PROVE  first = candidates
<1> DEFINE n == Surplus(f, max)
<1>1. first \subseteq candidates
  BY EarliestSubset
<1>2. /\ Cardinality(first) \in Nat /\ Cardinality(candidates) \in Nat
      /\ IsFiniteSet(candidates)
      /\ Cardinality(DOMAIN f) \in Nat
  BY <1>1, FS_Subset, FS_CardinalityType
<1>3. Cardinality(DOMAIN f \ first) = Cardinality(DOMAIN f) - Cardinality(first)
  <2>1. DOMAIN f \cap first = first
    BY <1>1
  <2>. QED
    BY <2>1, FS_Difference
<1>4. Cardinality(first) = IF Cardinality(candidates) < n
                           THEN Cardinality(candidates) ELSE n
  BY DEF OldestFirst, Earliest
<1>5. Cardinality(first) = Cardinality(candidates)
  BY <1>2, <1>3, <1>4 DEF Surplus
<1>. QED
  BY <1>1, <1>2, <1>5, FS_Subset

\* Evicting applications, the pods they own and then pods ends within the limits.
LEMMA EvictionLimits ==
  ASSUME NEW rs, IsFiniteSet(DOMAIN rs), NEW ps, IsFiniteSet(DOMAIN ps),
         NEW victims \in OldestFirst(rs, DeletedApps(rs), Surplus(rs, MaxApps)),
         NEW as, as = Without(rs, victims),
         NEW kept, kept = Without(ps, OwnedBy(ps, victims)),
         NEW gone \in OldestFirst(kept, Reclaimable(kept, as), Surplus(kept, MaxPods)),
         NEW left, left = Without(kept, gone)
  PROVE  WithinLimits(as, left)
<1>1. Cardinality(DOMAIN as) > MaxApps => DeletedApps(as) = {}
  <2> SUFFICES ASSUME Cardinality(DOMAIN as) > MaxApps
               PROVE  DeletedApps(as) = {}
    OBVIOUS
  <2>1. DOMAIN as = DOMAIN rs \ victims
    BY DEF Without
  <2>2. DeletedApps(rs) \in SUBSET DOMAIN rs
    BY DEF DeletedApps
  <2>3. victims = DeletedApps(rs)
    BY <2>1, <2>2, EvictExhausts, BoundsAssumption
  <2>. QED
    BY <2>3 DEF DeletedApps, Without
<1>2. Cardinality(DOMAIN left) > MaxPods => Reclaimable(left, as) = {}
  <2> SUFFICES ASSUME Cardinality(DOMAIN left) > MaxPods
               PROVE  Reclaimable(left, as) = {}
    OBVIOUS
  <2>1. DOMAIN left = DOMAIN kept \ gone
    BY DEF Without
  <2>2. IsFiniteSet(DOMAIN kept)
    <3>1. DOMAIN kept \in SUBSET DOMAIN ps
      BY DEF Without
    <3>. QED
      BY <3>1, FS_Subset
  <2>3. Reclaimable(kept, as) \in SUBSET DOMAIN kept
    BY DEF Reclaimable
  <2>4. gone = Reclaimable(kept, as)
    BY <2>1, <2>2, <2>3, EvictExhausts, BoundsAssumption
  <2>. QED
    BY <2>4 DEF Reclaimable, Without
<1>. QED
  BY <1>1, <1>2 DEF WithinLimits

\* An operation ends within the limits.
LEMMA UpsertLimits ==
  ASSUME TypeOK, NEW pod \in PodObject, NEW deleted \in BOOLEAN,
         NEW bootstrap \in BOOLEAN, Upsert(pod, deleted, bootstrap)
  PROVE  WithinLimits(apps, pods)'
<1> DEFINE rs == AppsWith(pod, deleted, bootstrap)
           ps == PodsWith(pod, deleted)
<1>1. PICK victims, kept, gone :
        /\ victims \in OldestFirst(rs, DeletedApps(rs), Surplus(rs, MaxApps))
        /\ apps' = Without(rs, victims)
        /\ kept = Without(ps, OwnedBy(ps, victims))
        /\ gone \in OldestFirst(kept, Reclaimable(kept, apps'), Surplus(kept, MaxPods))
        /\ pods' = Without(kept, gone)
  BY UpsertSteps
<1>2. IsFiniteSet(DOMAIN rs) /\ IsFiniteSet(DOMAIN ps)
  <2>1. DOMAIN rs \subseteq Apps /\ DOMAIN ps \subseteq Uids
    BY WithType DEF Upsert, Partial
  <2>. QED
    BY <2>1, BoundsAssumption, FS_Subset
<1>. HIDE DEF rs, ps
<1>3. WithinLimits(apps', pods')
  BY <1>1, <1>2, EvictionLimits
<1>. QED
  BY <1>3 DEF WithinLimits, DeletedApps, Reclaimable

\* One step leaves nothing over the limits that could go.
LEMMA LimitsStep == TypeOK /\ LimitsHeld /\ [Next]_vars => LimitsHeld'
<1> SUFFICES ASSUME TypeOK, LimitsHeld, [Next]_vars
             PROVE  LimitsHeld'
  OBVIOUS
<1>1. ASSUME NEW pod \in Pods, NEW deleted \in BOOLEAN, NEW bootstrap \in BOOLEAN,
             Upsert(pod, deleted, bootstrap)
      PROVE  LimitsHeld'
  <2>1. file' = file
    BY <1>1 DEF Upsert
  <2>. QED
    BY <1>1, <2>1, PodsAssumption, UpsertLimits DEF LimitsHeld
<1>2. CASE Synced
  BY <1>2 DEF LimitsHeld, Synced
<1>3. CASE Save
  <2>1. file'.apps = apps /\ file'.pods = pods
    BY <1>3 DEF Save, Snapshot
  <2>. QED
    BY <1>3, <2>1 DEF LimitsHeld, Save
<1>4. CASE Restart
  BY <1>4 DEF LimitsHeld, Restart
<1>5. CASE Tick
  BY <1>5 DEF LimitsHeld, Tick
<1>6. CASE UNCHANGED vars
  BY <1>6 DEF LimitsHeld, vars
<1>. QED
  BY <1>1, <1>2, <1>3, <1>4, <1>5, <1>6 DEF Next, Operate, UpsertPod, BootstrapPod, Pods

\* Whatever the limits are, only what eviction may not remove exceeds them, in
\* memory and in the file a new process loads.
THEOREM LimitsAreHeld == Spec => []LimitsHeld
<1>1. Init => LimitsHeld
  <2>1. WithinLimits(Empty, Empty)
    BY DEF WithinLimits, DeletedApps, Reclaimable, Empty
  <2>. QED
    BY <2>1 DEF Init, LimitsHeld
<1>2. TypeOK /\ LimitsHeld /\ [Next]_vars => LimitsHeld'
  BY LimitsStep
<1>. QED
  BY <1>1, <1>2, TypeCorrect, PTL DEF Spec

-----------------------------------------------------------------------------
(* What an eviction takes.                                                 *)

\* The labels of every pod are those its record carries.
LabelsRecorded(ps) ==
  \A pod \in Pods : pod.uid \in DOMAIN ps =>
    ps[pod.uid].app = pod.app /\ ps[pod.uid].role = pod.role

Labels == LabelsRecorded(pods) /\ LabelsRecorded(file.pods)

\* One step keeps the labels on record.
LEMMA LabelsStep == Labels /\ [Next]_vars => Labels'
<1> SUFFICES ASSUME Labels, [Next]_vars
             PROVE  Labels'
  OBVIOUS
<1>1. ASSUME NEW pod \in Pods, NEW deleted \in BOOLEAN, NEW bootstrap \in BOOLEAN,
             Upsert(pod, deleted, bootstrap)
      PROVE  Labels'
  <2>1. LabelsRecorded(PodsWith(pod, deleted))
    <3> SUFFICES ASSUME NEW p \in Pods, p.uid \in DOMAIN PodsWith(pod, deleted)
                 PROVE  /\ PodsWith(pod, deleted)[p.uid].app = p.app
                        /\ PodsWith(pod, deleted)[p.uid].role = p.role
      BY DEF LabelsRecorded
    <3>1. CASE p.uid = pod.uid
      <4>1. p.app = pod.app /\ p.role = pod.role
        BY <3>1, LabelsAssumption
      <4>. QED
        BY <3>1, <4>1 DEF PodsWith, Put, PodAfter
    <3>2. CASE p.uid # pod.uid
      BY <3>2 DEF Labels, LabelsRecorded, PodsWith, Put
    <3>. QED
      BY <3>1, <3>2
  <2>2. PICK owned, gone :
          pods' = Without(Without(PodsWith(pod, deleted), owned), gone)
    BY <1>1, UpsertSteps
  <2>3. LabelsRecorded(pods')
    BY <2>1, <2>2 DEF LabelsRecorded, Without
  <2>4. file' = file
    BY <1>1 DEF Upsert
  <2>. QED
    BY <2>3, <2>4 DEF Labels, LabelsRecorded
<1>2. CASE Save
  <2>1. file'.pods = pods
    BY <1>2 DEF Save, Snapshot
  <2>. QED
    BY <1>2, <2>1 DEF Labels, LabelsRecorded, Save
<1>3. CASE Restart
  BY <1>3 DEF Labels, LabelsRecorded, Restart
<1>4. CASE Synced \/ Tick \/ UNCHANGED vars
  BY <1>4 DEF Labels, LabelsRecorded, Synced, Tick, vars
<1>. QED
  BY <1>1, <1>2, <1>3, <1>4 DEF Next, Operate, UpsertPod, BootstrapPod, Pods

\* A record carries the labels of its pod.
LEMMA LabelsInv == Spec => []Labels
<1>1. Init => Labels
  BY DEF Init, Labels, LabelsRecorded, Empty
<1>2. Labels /\ [Next]_vars => Labels'
  BY LabelsStep
<1>. QED
  BY <1>1, <1>2, PTL DEF Spec

\* A driver's record goes with its application.
DriversGo ==
  \A k \in DOMAIN pods \ DOMAIN pods' :
    pods[k].role = "driver" => pods[k].app \notin DOMAIN apps'

\* One step, of one process, takes no driver from an application that stays.
LEMMA DriversStep == Labels /\ [Next]_vars => [Restart \/ DriversGo]_vars
<1> SUFFICES ASSUME Labels, [Next]_vars
             PROVE  [Restart \/ DriversGo]_vars
  OBVIOUS
<1> USE DEF DriversGo
<1>1. ASSUME NEW pod \in Pods, NEW deleted \in BOOLEAN, NEW bootstrap \in BOOLEAN,
             Upsert(pod, deleted, bootstrap)
      PROVE  DriversGo
  <2> SUFFICES ASSUME NEW k \in DOMAIN pods \ DOMAIN pods', pods[k].role = "driver"
               PROVE  pods[k].app \notin DOMAIN apps'
    OBVIOUS
  <2> DEFINE ps == PodsWith(pod, deleted)
  <2>1. PICK victims, kept, gone :
          /\ apps' = Without(AppsWith(pod, deleted, bootstrap), victims)
          /\ kept = Without(ps, OwnedBy(ps, victims))
          /\ gone \in OldestFirst(kept, Reclaimable(kept, apps'), Surplus(kept, MaxPods))
          /\ pods' = Without(kept, gone)
    BY <1>1, UpsertSteps
  <2>2. k \in DOMAIN ps /\ ps[k].app = pods[k].app /\ ps[k].role = pods[k].role
    <3>1. CASE k = pod.uid
      BY <3>1 DEF Labels, LabelsRecorded, PodsWith, Put, PodAfter
    <3>2. CASE k # pod.uid
      BY <3>2 DEF PodsWith, Put
    <3>. QED
      BY <3>1, <3>2
  <2>. HIDE DEF ps
  <2>3. CASE k \in OwnedBy(ps, victims)
    BY <2>1, <2>2, <2>3 DEF OwnedBy, Without
  <2>4. CASE k \notin OwnedBy(ps, victims)
    <3>1. k \in DOMAIN kept /\ kept[k] = ps[k]
      BY <2>1, <2>2, <2>4 DEF Without
    <3>2. k \in Reclaimable(kept, apps')
      <4>1. k \in gone
        BY <2>1, <3>1 DEF Without
      <4>. QED
        BY <2>1, <4>1, EarliestSubset
    <3>. QED
      BY <2>2, <3>1, <3>2 DEF Reclaimable
  <2>. QED
    BY <2>3, <2>4
<1>2. CASE Synced \/ Save \/ Tick
  BY <1>2 DEF Synced, Save, Tick
<1>. QED
  BY <1>1, <1>2 DEF Next, Operate, UpsertPod, BootstrapPod, Pods

\* The record of a driver is removed only together with its application, by
\* eviction of that application: the join of viewLocked keeps its driver.
THEOREM DriversLeaveWithApps == Spec => DriverLeavesWithApp
  BY DriversStep, LabelsInv, PTL DEF Spec, DriverLeavesWithApp, DriversGo

\* An observation moves changedAt exactly when it moves the lifecycle of the
\* record, and then to the stamp.
LEMMA LiveStamp ==
  ASSUME TypeOK, NEW pod \in PodObject, pod.app # NoApp, pod.role # NoRole,
         NEW deleted \in BOOLEAN, pod.app \in DOMAIN apps
  PROVE  LET after == AppAfter(pod, deleted, FALSE) IN
         /\ LifecycleChanged(pod, deleted) =>
              /\ after.changedAt = Stamp
              /\ Lifecycle(after) # Lifecycle(apps[pod.app])
         /\ ~LifecycleChanged(pod, deleted) => after = apps[pod.app]
<1> DEFINE old == apps[pod.app]
           new == Observed(pod, deleted)
<1>1. Before(pod) = old /\ old \in ApplicationRecord /\ new \in ApplicationRecord
  BY ObservedType DEF Before
<1>2. new.changedAt = old.changedAt
  BY <1>1 DEF Observed, ApplicationRecord
<1>3. LifecycleChanged(pod, deleted) <=> new # old
  BY <1>1 DEF LifecycleChanged
<1>4. new # old => Lifecycle(new) # Lifecycle(old)
  BY <1>1, <1>2 DEF ApplicationRecord, Lifecycle
<1>. HIDE DEF old, new
<1>5. ASSUME LifecycleChanged(pod, deleted)
      PROVE  /\ AppAfter(pod, deleted, FALSE).changedAt = Stamp
             /\ Lifecycle(AppAfter(pod, deleted, FALSE)) = Lifecycle(new)
  BY <1>1, <1>5 DEF AppAfter, ApplicationRecord, Lifecycle, new
<1>6. ASSUME ~LifecycleChanged(pod, deleted)
      PROVE  AppAfter(pod, deleted, FALSE) = old
  BY <1>1, <1>3, <1>6 DEF AppAfter, ApplicationRecord, new
<1>. QED
  BY <1>3, <1>4, <1>5, <1>6 DEF old

\* A live change of an application takes it to the head of the feed.
AtHead(a) ==
  LET lives == Lifecycle(apps'[a]) # Lifecycle(apps[a]) /\ ~seeding IN
  /\ apps'[a].changedAt # apps[a].changedAt => lives
  /\ lives => /\ apps'[a].changedAt = lastChanged'
              /\ lastChanged' > lastChanged

ChangesAtHead == \A a \in DOMAIN apps \cap DOMAIN apps' : AtHead(a)

\* One step, of one process, moves changedAt to the head or not at all.
LEMMA HeadStep == TypeOK /\ [Next]_vars => [Restart \/ ChangesAtHead]_vars
<1> SUFFICES ASSUME TypeOK, [Next]_vars
             PROVE  [Restart \/ ChangesAtHead]_vars
  OBVIOUS
<1> USE DEF AtHead, ChangesAtHead
<1>1. ASSUME NEW pod \in Pods, NEW deleted \in BOOLEAN, NEW bootstrap \in BOOLEAN,
             Upsert(pod, deleted, bootstrap), bootstrap = seeding,
             NEW a \in DOMAIN apps \cap DOMAIN apps'
      PROVE  AtHead(a)
  <2>1. pod \in PodObject /\ pod.app # NoApp /\ pod.role # NoRole
    BY <1>1, PodsAssumption DEF Upsert
  <2>2. apps'[a] = IF a = pod.app THEN AppAfter(pod, deleted, bootstrap) ELSE apps[a]
    <3>1. PICK victims : apps' = Without(AppsWith(pod, deleted, bootstrap), victims)
      BY <1>1, UpsertSteps
    <3>2. apps'[a] = AppsWith(pod, deleted, bootstrap)[a]
      BY <1>1, <3>1 DEF Without
    <3>3. a \in DOMAIN apps
      BY <1>1
    <3>. QED
      BY <3>2, <3>3 DEF AppsWith, Put
  <2>3. CASE a # pod.app
    BY <2>2, <2>3
  <2>4. CASE a = pod.app /\ seeding
    <3>1. AppAfter(pod, deleted, TRUE).changedAt = apps[a].changedAt
      <4>1. Observed(pod, deleted).changedAt = apps[a].changedAt
        BY <1>1, <2>1, <2>4, ObservedType DEF Observed, Before, ApplicationRecord
      <4>. QED
        BY <1>1, <2>1, <2>4, <4>1, ObservedType DEF AppAfter, ApplicationRecord
    <3>. QED
      BY <1>1, <2>2, <2>4, <3>1
  <2>5. CASE a = pod.app /\ ~seeding
    <3>1. bootstrap = FALSE
      BY <1>1, <2>5 DEF TypeOK
    <3>2. lastChanged' = IF LifecycleChanged(pod, deleted) THEN Stamp ELSE lastChanged
      BY <1>1, <3>1 DEF Upsert
    <3>3. Stamp > lastChanged
      BY DEF Stamp, TypeOK
    <3>4. CASE LifecycleChanged(pod, deleted)
      BY <1>1, <2>1, <2>2, <2>5, <3>1, <3>2, <3>3, <3>4, LiveStamp
    <3>5. CASE ~LifecycleChanged(pod, deleted)
      BY <1>1, <2>1, <2>2, <2>5, <3>1, <3>5, LiveStamp
    <3>. QED
      BY <3>4, <3>5
  <2>. QED
    BY <2>3, <2>4, <2>5
<1>2. CASE Synced \/ Save \/ Tick
  BY <1>2 DEF Synced, Save, Tick
<1>3. ASSUME NEW pod \in WatchedPods, NEW deleted \in BOOLEAN, UpsertPod(pod, deleted)
      PROVE  ChangesAtHead
  <2>1. seeding = FALSE /\ pod \in Pods
    BY <1>3 DEF UpsertPod, TypeOK, Pods
  <2>. QED
    BY <1>1, <1>3, <2>1 DEF UpsertPod
<1>4. ASSUME NEW pod \in ListedPods, BootstrapPod(pod)
      PROVE  ChangesAtHead
  <2>1. seeding = TRUE /\ pod \in Pods
    BY <1>4 DEF BootstrapPod, TypeOK, Pods
  <2>. QED
    BY <1>1, <1>4, <2>1 DEF BootstrapPod
<1>. QED
  BY <1>2, <1>3, <1>4 DEF Next, Operate

\* changedAt moves on every lifecycle change the watch reports and on nothing
\* else, and then past every stamp handed out before.
THEOREM ChangesMoveToHead == Spec => ChangesGoToHead
  BY HeadStep, TypeCorrect, PTL DEF Spec, ChangesGoToHead, AtHead, ChangesAtHead

\* An application that goes is of the longest deleted of too many.
Last(a) ==
  /\ Cardinality(DOMAIN apps') >= MaxApps
  /\ \A b \in DeletedApps(apps') : DeletionTime(a) <= apps'[b].deletedAt

OldestGo == \A a \in DOMAIN apps \ DOMAIN apps' : Last(a)

\* One step, of one process, evicts the longest deleted.
LEMMA EvictionStep == TypeOK /\ [Next]_vars => [Restart \/ OldestGo]_vars
<1> SUFFICES ASSUME TypeOK, [Next]_vars
             PROVE  [Restart \/ OldestGo]_vars
  OBVIOUS
<1> USE DEF Last, OldestGo
<1>1. ASSUME NEW pod \in Pods, NEW deleted \in BOOLEAN, NEW bootstrap \in BOOLEAN,
             Upsert(pod, deleted, bootstrap),
             NEW a \in DOMAIN apps \ DOMAIN apps'
      PROVE  Last(a)
  <2> DEFINE rs == AppsWith(pod, deleted, bootstrap)
  <2>1. PICK victims \in OldestFirst(rs, DeletedApps(rs), Surplus(rs, MaxApps)) :
          apps' = Without(rs, victims)
    BY <1>1, UpsertSteps
  <2>2. DOMAIN apps' = DOMAIN rs \ victims /\ victims \subseteq DeletedApps(rs)
    BY <2>1, EarliestSubset DEF Without
  <2>3. a \in victims
    BY <2>2 DEF AppsWith, Put
  <2>4. pod \in PodObject /\ pod.app # NoApp /\ pod.role # NoRole
    BY <1>1, PodsAssumption DEF Upsert
  <2>5. Cardinality(DOMAIN apps') >= MaxApps
    <3>1. IsFiniteSet(DOMAIN rs)
      BY <2>4, WithType, BoundsAssumption, FS_Subset DEF Partial
    <3>2. DeletedApps(rs) \subseteq DOMAIN rs
      BY DEF DeletedApps
    <3>. HIDE DEF rs
    <3>3. DOMAIN rs \cap victims = victims /\ IsFiniteSet(victims)
      <4>1. victims \in SUBSET DOMAIN rs
        BY <2>2, <3>2
      <4>. QED
        BY <3>1, <4>1, FS_Subset
    <3>4. /\ Cardinality(DOMAIN apps') = Cardinality(DOMAIN rs) - Cardinality(victims)
          /\ Cardinality(DOMAIN rs) \in Nat /\ Cardinality(victims) \in Nat
          /\ Cardinality(victims) # 0
      BY <2>2, <2>3, <3>1, <3>3, FS_Difference, FS_CardinalityType, FS_EmptySet
    <3>5. Cardinality(victims) <= Surplus(rs, MaxApps)
      <4>1. Cardinality(DeletedApps(rs)) \in Nat /\ Surplus(rs, MaxApps) \in Nat
        BY <3>1, <3>2, <3>4, FS_Subset, FS_CardinalityType, BoundsAssumption DEF Surplus
      <4>. QED
        BY <4>1 DEF OldestFirst, Earliest
    <3>. QED
      BY <3>4, <3>5, BoundsAssumption DEF Surplus
  <2>6. DeletionTime(a) = rs[a].deletedAt
    <3>1. rs[a].deletedAt # NoTime /\ a \in DOMAIN rs
      BY <2>2, <2>3 DEF DeletedApps
    <3>2. CASE a # pod.app
      BY <3>1, <3>2 DEF AppsWith, Put, DeletionTime, OrNow
    <3>3. CASE a = pod.app
      <4>1. Before(pod) = apps[a] /\ Before(pod) \in ApplicationRecord
        BY <2>4, <3>3, ObservedType DEF Before
      <4>2. rs[a].deletedAt = Observed(pod, deleted).deletedAt
        BY <2>4, <3>3, ObservedType DEF AppsWith, Put, AppAfter, ApplicationRecord
      <4>3. Observed(pod, deleted).deletedAt \in {apps[a].deletedAt, clock}
        BY <4>1 DEF Observed, ApplicationRecord
      <4>4. apps[a].deletedAt # NoTime =>
              Observed(pod, deleted).deletedAt = apps[a].deletedAt
        BY <4>1 DEF Observed, ApplicationRecord
      <4>. QED
        BY <3>1, <4>2, <4>3, <4>4 DEF DeletionTime, OrNow
    <3>. QED
      BY <3>2, <3>3
  <2>7. \A b \in DeletedApps(apps') : rs[a].deletedAt <= apps'[b].deletedAt
    <3>. HIDE DEF rs
    <3> SUFFICES ASSUME NEW b \in DeletedApps(apps')
                 PROVE  rs[a].deletedAt <= apps'[b].deletedAt
      OBVIOUS
    <3>1. b \in DeletedApps(rs) \ victims /\ apps'[b] = rs[b]
      BY <2>1, <2>2 DEF DeletedApps, Without
    <3>. QED
      BY <2>1, <2>3, <3>1, EarliestOrder
  <2>. QED
    BY <2>5, <2>6, <2>7
<1>2. CASE Synced \/ Save \/ Tick
  BY <1>2 DEF Synced, Save, Tick
<1>. QED
  BY <1>1, <1>2 DEF Next, Operate, UpsertPod, BootstrapPod, Pods

\* An application leaves memory only when there are more than the limit, and
\* every deleted one that stays was deleted no earlier.
THEOREM EvictionTakesOldest == Spec => EvictsOldestDeleted
  BY EvictionStep, TypeCorrect, PTL DEF Spec, EvictsOldestDeleted, Last, OldestGo
-----------------------------------------------------------------------------
(* The join of applications and drivers.                                   *)

IsDriverOf(ps, k, a) == k \in DOMAIN ps /\ ps[k].app = a /\ ps[k].role = "driver"

\* The index has the applications that have a driver's record, and leads to one.
IndexFits(ps, index) ==
  /\ \A a : (\E k : IsDriverOf(ps, k, a)) => a \in DOMAIN index
  /\ \A a \in DOMAIN index : IsDriverOf(ps, index[a], a)

\* The one driver of an application has its status.
SingleAgrees(as, ps) ==
  \A a, k :
    IsDriverOf(ps, k, a) /\ (\A j : IsDriverOf(ps, j, a) => j = k) =>
      as[a].status = ps[k].status

\* What DriverJoin needs to be inductive: the statuses agree in the file, too.
JoinInv == /\ IndexFits(pods, driverByApp)
           /\ SingleAgrees(apps, pods)
           /\ SingleAgrees(file.apps, file.pods)

\* A driver's record stays through an eviction if and only if its application does.
LEMMA EvictionKeepsDrivers ==
  ASSUME NEW rs, NEW ps, OwnersKnown(rs, ps), NEW victims,
         NEW as, as = Without(rs, victims),
         NEW kept, kept = Without(ps, OwnedBy(ps, victims)),
         NEW gone \in OldestFirst(kept, Reclaimable(kept, as), Surplus(kept, MaxPods)),
         NEW left, left = Without(kept, gone)
  PROVE  /\ \A k, a : IsDriverOf(left, k, a) <=> IsDriverOf(ps, k, a) /\ a \notin victims
         /\ \A k \in DOMAIN left : left[k] = ps[k]
<1>1. \A k \in DOMAIN ps : ps[k].app \in DOMAIN rs
  BY DEF OwnersKnown
<1>2. gone \subseteq Reclaimable(kept, as)
  BY EarliestSubset
<1>3. \A k \in DOMAIN left : /\ left[k] = ps[k] /\ k \in DOMAIN ps
                             /\ ps[k].app \notin victims
  BY DEF Without, OwnedBy
<1>4. ASSUME NEW k \in DOMAIN ps, ps[k].role = "driver", ps[k].app \notin victims
      PROVE  k \in DOMAIN left
  <2>1. k \in DOMAIN kept /\ kept[k] = ps[k]
    BY <1>4 DEF Without, OwnedBy
  <2>2. ps[k].app \in DOMAIN as
    BY <1>1, <1>4 DEF Without
  <2>3. k \notin gone
    BY <1>2, <1>4, <2>1, <2>2 DEF Reclaimable
  <2>. QED
    BY <2>1, <2>3 DEF Without
<1>. QED
  BY <1>3, <1>4 DEF IsDriverOf

\* What an operation does to the records of drivers.
LEMMA UpsertKeepsDrivers ==
  ASSUME TypeOK, OwnersKnown(apps, pods),
         NEW pod, NEW deleted, NEW bootstrap, Upsert(pod, deleted, bootstrap)
  PROVE  \E victims :
           /\ apps' = Without(AppsWith(pod, deleted, bootstrap), victims)
           /\ driverByApp' = Without(DriversWith(pod), victims)
           /\ \A k, a : IsDriverOf(pods', k, a) <=>
                          /\ IsDriverOf(PodsWith(pod, deleted), k, a)
                          /\ a \notin victims
           /\ \A k \in DOMAIN pods' : pods'[k] = PodsWith(pod, deleted)[k]
<1> DEFINE rs == AppsWith(pod, deleted, bootstrap)
           ps == PodsWith(pod, deleted)
<1>1. PICK victims, kept, gone :
        /\ apps' = Without(rs, victims)
        /\ driverByApp' = Without(DriversWith(pod), victims)
        /\ kept = Without(ps, OwnedBy(ps, victims))
        /\ gone \in OldestFirst(kept, Reclaimable(kept, apps'), Surplus(kept, MaxPods))
        /\ pods' = Without(kept, gone)
  BY UpsertSteps
<1>2. OwnersKnown(rs, ps)
  BY DEF OwnersKnown, Put, PodsWith, PodAfter, AppsWith
<1>. HIDE DEF rs, ps
<1>3. /\ \A k, a : IsDriverOf(pods', k, a) <=> IsDriverOf(ps, k, a) /\ a \notin victims
      /\ \A k \in DOMAIN pods' : pods'[k] = ps[k]
  BY <1>1, <1>2, EvictionKeepsDrivers
<1>. QED
  BY <1>1, <1>3 DEF rs, ps

\* An operation keeps the index of drivers and the statuses.
LEMMA UpsertJoin ==
  ASSUME TypeOK, OwnersKnown(apps, pods), LabelsRecorded(pods),
         IndexFits(pods, driverByApp), SingleAgrees(apps, pods),
         NEW pod \in Pods, NEW deleted \in BOOLEAN, NEW bootstrap \in BOOLEAN,
         Upsert(pod, deleted, bootstrap)
  PROVE  IndexFits(pods', driverByApp') /\ SingleAgrees(apps', pods')
<1> DEFINE rs == AppsWith(pod, deleted, bootstrap)
           ps == PodsWith(pod, deleted)
           index == DriversWith(pod)
<1>1. PICK victims :
        /\ apps' = Without(rs, victims)
        /\ driverByApp' = Without(index, victims)
        /\ \A k, a : IsDriverOf(pods', k, a) <=> IsDriverOf(ps, k, a) /\ a \notin victims
        /\ \A k \in DOMAIN pods' : pods'[k] = ps[k]
  BY UpsertKeepsDrivers
<1>2. pod \in PodObject /\ pod.app # NoApp /\ pod.role # NoRole
  BY PodsAssumption DEF Upsert
<1>3. \A k, a : IsDriverOf(ps, k, a) <=>
                  \/ IsDriverOf(pods, k, a)
                  \/ k = pod.uid /\ a = pod.app /\ pod.role = "driver"
  BY DEF IsDriverOf, LabelsRecorded, PodsWith, Put, PodAfter
<1>4. IndexFits(ps, index)
  <2>1. CASE pod.role = "driver"
    <3>1. index = Put(driverByApp, pod.app, pod.uid)
      BY <2>1 DEF DriversWith
    <3>. HIDE DEF ps, index
    <3>. QED
      BY <1>3, <2>1, <3>1 DEF IndexFits, Put
  <2>2. CASE pod.role # "driver"
    <3>1. index = driverByApp
      BY <2>2 DEF DriversWith
    <3>. HIDE DEF ps, index
    <3>. QED
      BY <1>3, <2>2, <3>1 DEF IndexFits
  <2>. QED
    BY <2>1, <2>2
<1>5. \A k, a : IsDriverOf(ps, k, a) => a \in DOMAIN rs
  BY <1>3 DEF IsDriverOf, OwnersKnown, AppsWith, Put
<1>6. SingleAgrees(rs, ps)
  <2> SUFFICES ASSUME NEW a, NEW k, IsDriverOf(ps, k, a),
                      \A j : IsDriverOf(ps, j, a) => j = k
               PROVE  rs[a].status = ps[k].status
    BY DEF SingleAgrees
  <2>1. CASE pod.role = "driver" /\ a = pod.app
    <3>1. k = pod.uid
      BY <1>3, <2>1
    <3>2. ps[k].status = PodStatus(pod, deleted)
      BY <3>1 DEF PodsWith, Put, PodAfter
    <3>3. rs[a] = AppAfter(pod, deleted, bootstrap)
      BY <2>1 DEF AppsWith, Put
    <3>4. Observed(pod, deleted).status = PodStatus(pod, deleted)
      BY <1>2, <2>1, ObservedType DEF Observed, ApplicationRecord
    <3>5. AppAfter(pod, deleted, bootstrap).status = Observed(pod, deleted).status
      BY <1>2, ObservedType DEF AppAfter, ApplicationRecord
    <3>. QED
      BY <3>2, <3>3, <3>4, <3>5
  <2>2. CASE pod.role # "driver" \/ a # pod.app
    <3>1. IsDriverOf(pods, k, a) /\ \A j : IsDriverOf(pods, j, a) => j = k
      BY <1>3, <2>2
    <3>2. apps[a].status = pods[k].status
      BY <3>1 DEF SingleAgrees
    <3>3. ps[k] = pods[k]
      <4>1. k # pod.uid
        BY <2>2, <3>1 DEF LabelsRecorded, IsDriverOf
      <4>. QED
        BY <3>1, <4>1 DEF PodsWith, Put, IsDriverOf
    <3>4. rs[a].status = apps[a].status
      <4>1. CASE a # pod.app
        <5>1. a \in DOMAIN apps
          BY <3>1 DEF IsDriverOf, OwnersKnown
        <5>. QED
          BY <4>1, <5>1 DEF AppsWith, Put
      <4>2. CASE a = pod.app /\ pod.role # "driver"
        <5>1. a \in DOMAIN apps
          BY <3>1 DEF IsDriverOf, OwnersKnown
        <5>2. Observed(pod, deleted) = apps[a]
          BY <4>2, <5>1 DEF Observed, Before
        <5>3. AppAfter(pod, deleted, bootstrap).status = Observed(pod, deleted).status
          BY <1>2, ObservedType DEF AppAfter, ApplicationRecord
        <5>. QED
          BY <4>2, <5>2, <5>3 DEF AppsWith, Put
      <4>. QED
        BY <2>2, <4>1, <4>2
    <3>. QED
      BY <3>2, <3>3, <3>4
  <2>. QED
    BY <2>1, <2>2
<1>. HIDE DEF rs, ps, index
<1>7. IndexFits(pods', driverByApp')
  BY <1>1, <1>4 DEF IndexFits, Without
<1>8. SingleAgrees(apps', pods')
  <2> SUFFICES ASSUME NEW a, NEW k, IsDriverOf(pods', k, a),
                      \A j : IsDriverOf(pods', j, a) => j = k
               PROVE  apps'[a].status = pods'[k].status
    BY DEF SingleAgrees
  <2>1. a \notin victims /\ IsDriverOf(ps, k, a) /\ \A j : IsDriverOf(ps, j, a) => j = k
    BY <1>1
  <2>2. rs[a].status = ps[k].status
    BY <1>6, <2>1 DEF SingleAgrees
  <2>3. pods'[k] = ps[k]
    BY <1>1 DEF IsDriverOf
  <2>4. apps'[a] = rs[a]
    BY <1>1, <1>5, <2>1 DEF Without
  <2>. QED
    BY <2>2, <2>3, <2>4
<1>. QED
  BY <1>7, <1>8

\* One step keeps the index and the statuses.
LEMMA JoinStep == TypeOK /\ CommitTogether /\ Labels /\ JoinInv /\ [Next]_vars => JoinInv'
<1> SUFFICES ASSUME TypeOK, CommitTogether, Labels, JoinInv, [Next]_vars
             PROVE  JoinInv'
  OBVIOUS
<1> USE DEF Labels, JoinInv
<1>1. ASSUME NEW pod \in Pods, NEW deleted \in BOOLEAN, NEW bootstrap \in BOOLEAN,
             Upsert(pod, deleted, bootstrap)
      PROVE  JoinInv'
  <2>1. file' = file
    BY <1>1 DEF Upsert
  <2>. QED
    BY <1>1, <2>1, UpsertJoin DEF CommitTogether
<1>2. CASE Synced
  BY <1>2 DEF Synced
<1>3. CASE Save
  <2>1. file'.apps = apps /\ file'.pods = pods
    BY <1>3 DEF Save, Snapshot
  <2>. QED
    BY <1>3, <2>1 DEF Save
<1>4. CASE Restart
  <2>1. IndexFits(file.pods, driverByApp')
    <3> DEFINE drivers == {k \in DOMAIN file.pods : file.pods[k].role = "driver"}
               owners == {file.pods[k].app : k \in drivers}
    <3>1. driverByApp' \in [owners -> drivers]
          /\ \A a \in DOMAIN driverByApp' : file.pods[driverByApp'[a]].app = a
      BY <1>4 DEF Restart, DriverIndexes
    <3>2. \A a \in owners : IsDriverOf(file.pods, driverByApp'[a], a)
      BY <3>1 DEF IsDriverOf
    <3>3. \A a : (\E k : IsDriverOf(file.pods, k, a)) => a \in owners
      BY DEF IsDriverOf
    <3>. HIDE DEF owners, drivers
    <3>. QED
      BY <3>1, <3>2, <3>3 DEF IndexFits
  <2>. QED
    BY <1>4, <2>1 DEF Restart
<1>5. CASE Tick \/ UNCHANGED vars
  BY <1>5 DEF Tick, vars
<1>. QED
  BY <1>1, <1>2, <1>3, <1>4, <1>5 DEF Next, Operate, UpsertPod, BootstrapPod, Pods

\* The empty store joins.
LEMMA JoinInitially == Init => JoinInv
BY DEF Init, JoinInv, IndexFits, SingleAgrees, IsDriverOf, Empty

\* The join is what readers are promised.
LEMMA JoinImplies == TypeOK /\ JoinInv => DriverJoin
<1> SUFFICES ASSUME TypeOK, JoinInv, NEW a \in Apps
             PROVE  /\ a \in DOMAIN driverByApp <=> DriverRecords(a) # {}
                    /\ a \in DOMAIN driverByApp => driverByApp[a] \in DriverRecords(a)
                    /\ \A k \in Uids : DriverRecords(a) = {k} =>
                                         apps[a].status = pods[k].status
  BY DEF DriverJoin
<1>1. \A k : k \in DriverRecords(a) <=> IsDriverOf(pods, k, a)
  BY DEF DriverRecords, IsDriverOf
<1>. QED
  BY <1>1 DEF JoinInv, IndexFits, SingleAgrees

\* The join of viewLocked finds the driver of every application that has one,
\* across eviction and reload, and a single driver's status is its application's.
THEOREM DriversJoin == Spec => []DriverJoin
  BY JoinInitially, JoinStep, JoinImplies, TypeCorrect, CommitsTogether, LabelsInv,
     PTL DEF Spec

-----------------------------------------------------------------------------
(* What a store that is not dirty holds.                                   *)

\* An operation that leaves nothing to save is an observation of a known pod by
\* the startup snapshot that evicts nothing.
LEMMA QuietUpsert ==
  ASSUME NEW pod, NEW deleted \in BOOLEAN, NEW bootstrap \in BOOLEAN,
         Upsert(pod, deleted, bootstrap), dirty \in BOOLEAN, ~dirty'
  PROVE  /\ ~dirty /\ bootstrap
         /\ pod.app \in DOMAIN apps /\ pod.uid \in DOMAIN pods
         /\ apps' = AppsWith(pod, deleted, TRUE)
         /\ pods' = PodsWith(pod, deleted)
<1> DEFINE rs == AppsWith(pod, deleted, bootstrap)
           ps == PodsWith(pod, deleted)
<1>1. PICK victims, gone :
        LET kept == Without(ps, OwnedBy(ps, victims)) IN
        /\ apps' = Without(rs, victims)
        /\ pods' = Without(kept, gone)
        /\ dirty' = (dirty \/ Mutates(pod, bootstrap, victims \cup gone))
  BY DEF Upsert
<1>2. ~dirty /\ ~Mutates(pod, bootstrap, victims \cup gone)
  BY <1>1, Zenon
<1>3. bootstrap = TRUE /\ victims = {} /\ gone = {}
  BY <1>2, SMT DEF Mutates
<1>4. \A f, K : f = [x \in K |-> f[x]] => Without(f, {}) = f
  BY DEF Without
<1>5. rs = [x \in DOMAIN rs |-> rs[x]] /\ ps = [x \in DOMAIN ps |-> ps[x]]
  BY DEF AppsWith, PodsWith, Put
<1>6. OwnedBy(ps, {}) = {}
  BY DEF OwnedBy
<1>. HIDE DEF rs, ps
<1>7. apps' = rs /\ pods' = ps
  BY <1>1, <1>3, <1>4, <1>5, <1>6
<1>. QED
  BY <1>2, <1>3, <1>7 DEF Mutates, rs, ps

\* One step that leaves the store clean leaves nothing unsaved.
LEMMA CleanStep == TypeOK /\ CleanMeansSaved /\ [Next]_vars => CleanMeansSaved'
<1> SUFFICES ASSUME TypeOK, CleanMeansSaved, [Next]_vars, ~dirty'
             PROVE  CleanMeansSaved'
  BY DEF CleanMeansSaved
<1>1. ASSUME NEW pod \in Pods, NEW deleted \in BOOLEAN, NEW bootstrap \in BOOLEAN,
             Upsert(pod, deleted, bootstrap), bootstrap => ~deleted
      PROVE  CleanMeansSaved'
  <2>1. dirty \in BOOLEAN /\ file' = file
    BY <1>1 DEF TypeOK, Upsert
  <2>2. /\ ~dirty /\ bootstrap
        /\ pod.app \in DOMAIN apps /\ pod.uid \in DOMAIN pods
        /\ apps' = AppsWith(pod, deleted, TRUE)
        /\ pods' = PodsWith(pod, deleted)
    BY <1>1, <2>1, QuietUpsert
  <2>3. ~deleted
    BY <1>1, <2>2
  <2>4. pod \in PodObject /\ pod.app # NoApp /\ pod.role # NoRole
    BY <1>1, PodsAssumption DEF Upsert
  <2>5. /\ AppAfter(pod, deleted, TRUE).changedAt = apps[pod.app].changedAt
        /\ AppAfter(pod, deleted, TRUE).deletedAt = apps[pod.app].deletedAt
    <3>1. Before(pod) = apps[pod.app]
      BY <2>2 DEF Before
    <3>2. /\ Observed(pod, deleted).changedAt = apps[pod.app].changedAt
          /\ Observed(pod, deleted).deletedAt = apps[pod.app].deletedAt
      BY <2>3, <2>4, <3>1, ObservedType DEF Observed, ApplicationRecord
    <3>. QED
      BY <2>2, <2>4, <3>2, ObservedType DEF AppAfter, ApplicationRecord
  <2>6. PodAfter(pod, deleted).deletedAt = pods[pod.uid].deletedAt
    BY <2>2, <2>3 DEF PodAfter
  <2>7. /\ DOMAIN apps' = DOMAIN apps /\ DOMAIN pods' = DOMAIN pods
        /\ \A a \in DOMAIN apps : /\ apps'[a].changedAt = apps[a].changedAt
                                  /\ apps'[a].deletedAt = apps[a].deletedAt
        /\ \A k \in DOMAIN pods : pods'[k].deletedAt = pods[k].deletedAt
    BY <2>2, <2>5, <2>6 DEF AppsWith, PodsWith, Put
  <2>. QED
    BY <2>1, <2>2, <2>7 DEF CleanMeansSaved
<1>2. CASE Synced
  BY <1>2 DEF CleanMeansSaved, Synced
<1>3. CASE Save
  <2>1. file'.apps = apps /\ file'.pods = pods
    BY <1>3 DEF Save, Snapshot
  <2>. QED
    BY <1>3, <2>1 DEF CleanMeansSaved, Save
<1>4. CASE Restart
  BY <1>4 DEF CleanMeansSaved, Restart
<1>5. CASE Tick \/ UNCHANGED vars
  BY <1>5 DEF CleanMeansSaved, Tick, vars
<1>. QED
  BY <1>1, <1>2, <1>3, <1>4, <1>5 DEF Next, Operate, UpsertPod, BootstrapPod, Pods

\* A store that is not dirty has nothing that the file lacks: Save loses no
\* change by doing nothing.
THEOREM CleanIsSaved == Spec => []CleanMeansSaved
<1>1. Init => CleanMeansSaved
  BY DEF Init, CleanMeansSaved, Empty
<1>2. TypeOK /\ CleanMeansSaved /\ [Next]_vars => CleanMeansSaved'
  BY CleanStep
<1>. QED
  BY <1>1, <1>2, TypeCorrect, PTL DEF Spec

-----------------------------------------------------------------------------
(* A store in which every pod is a driver.                                 *)

OnlyDrivers == \A k \in DOMAIN pods : pods[k].role = "driver"

\* Of a store of drivers an operation evicts applications that were deleted, and
\* only the pods of those.
LEMMA DriverUpsert ==
  ASSUME OnlyDrivers, OwnersKnown(apps, pods), NEW pod, pod.role = "driver",
         NEW deleted, NEW bootstrap, Upsert(pod, deleted, bootstrap)
  PROVE  LET as == AppsWith(pod, deleted, bootstrap)
             ps == PodsWith(pod, deleted)
         IN \E victims \in SUBSET DeletedApps(as) :
              apps' = Without(as, victims) /\ pods' = Without(ps, OwnedBy(ps, victims))
<1>1. PICK as, ps : as = AppsWith(pod, deleted, bootstrap) /\ ps = PodsWith(pod, deleted)
  OBVIOUS
<1>2. PICK victims \in OldestFirst(as, DeletedApps(as), Surplus(as, MaxApps)) :
        /\ apps' = Without(as, victims)
        /\ \E kept, gone :
             /\ kept = Without(ps, OwnedBy(ps, victims))
             /\ gone \in OldestFirst(kept, Reclaimable(kept, apps'), Surplus(kept, MaxPods))
             /\ pods' = Without(kept, gone)
  BY <1>1, UpsertSteps
<1>3. PICK kept, gone :
        /\ kept = Without(ps, OwnedBy(ps, victims))
        /\ gone \in OldestFirst(kept, Reclaimable(kept, apps'), Surplus(kept, MaxPods))
        /\ pods' = Without(kept, gone)
  BY <1>2, Zenon
<1>4. victims \subseteq DeletedApps(as)
  BY <1>2, EarliestSubset
<1>5. /\ DOMAIN as = DOMAIN apps \cup {pod.app} /\ DOMAIN ps = DOMAIN pods \cup {pod.uid}
      /\ ps[pod.uid].role = "driver" /\ ps[pod.uid].app = pod.app
      /\ \A k \in DOMAIN pods : k # pod.uid => ps[k] = pods[k]
  BY <1>1 DEF AppsWith, PodsWith, Put, PodAfter
<1>6. \A k \in DOMAIN ps : ps[k].role = "driver" /\ ps[k].app \in DOMAIN as
  BY <1>5 DEF OnlyDrivers, OwnersKnown
<1>7. \A k \in DOMAIN kept : kept[k] = ps[k] /\ k \in DOMAIN ps /\ ps[k].app \notin victims
  BY <1>3 DEF Without, OwnedBy
<1>8. DOMAIN apps' = DOMAIN as \ victims
  BY <1>2 DEF Without
<1>9. \A k \in DOMAIN kept : kept[k].role = "driver" /\ kept[k].app \in DOMAIN apps'
  BY <1>6, <1>7, <1>8
<1>10. Reclaimable(kept, apps') = {}
  BY <1>9 DEF Reclaimable
<1>11. gone = {}
  <2>1. gone \subseteq Reclaimable(kept, apps')
    BY <1>3, EarliestSubset
  <2>. QED
    BY <1>10, <2>1
<1>12. pods' = kept
  BY <1>3, <1>11 DEF Without
<1>. QED
  BY <1>1, <1>2, <1>3, <1>4, <1>12

\* What an observation of a driver makes of its application's record.
LEMMA DriverAppAfter ==
  ASSUME TypeOK, NEW pod \in PodObject, pod.role = "driver", pod.app # NoApp,
         NEW deleted \in BOOLEAN, NEW bootstrap \in BOOLEAN
  PROVE  LET after == AppAfter(pod, deleted, bootstrap) IN
         /\ after.status = PodStatus(pod, deleted)
         /\ after.deletedAt =
              IF Before(pod).deletedAt # NoTime THEN Before(pod).deletedAt
              ELSE IF deleted THEN clock ELSE NoTime
         /\ bootstrap => after.changedAt = IF pod.app \in DOMAIN apps
                                          THEN apps[pod.app].changedAt
                                          ELSE BootstrapChangedAt(pod, Observed(pod, deleted))
         /\ ~bootstrap => after.changedAt = IF LifecycleChanged(pod, deleted) THEN Stamp
                                            ELSE Before(pod).changedAt
<1> DEFINE new == Observed(pod, deleted)
           after == AppAfter(pod, deleted, bootstrap)
<1>1. pod.role # NoRole
  BY DEF NoRole
<1>2. Before(pod) \in ApplicationRecord /\ new \in ApplicationRecord
  BY <1>1, ObservedType
<1>3. /\ new.status = PodStatus(pod, deleted)
      /\ new.changedAt = Before(pod).changedAt
      /\ new.deletedAt = IF Before(pod).deletedAt # NoTime THEN Before(pod).deletedAt
                         ELSE IF deleted THEN clock ELSE NoTime
  BY <1>2 DEF Observed, ApplicationRecord
<1>4. pod.app \in DOMAIN apps => Before(pod) = apps[pod.app]
  BY DEF Before
<1>. HIDE DEF new
<1>5. after = [new EXCEPT !.changedAt =
                 CASE bootstrap /\ pod.app \notin DOMAIN apps -> BootstrapChangedAt(pod, new)
                   [] ~bootstrap /\ LifecycleChanged(pod, deleted) -> Stamp
                   [] OTHER -> @]
  BY Zenon DEF AppAfter, new
<1>6. after.status = new.status /\ after.deletedAt = new.deletedAt
  BY <1>2, <1>5 DEF ApplicationRecord
<1>7. bootstrap => after.changedAt = IF pod.app \in DOMAIN apps THEN new.changedAt
                                   ELSE BootstrapChangedAt(pod, new)
  BY <1>2, <1>5 DEF ApplicationRecord
<1>8. ~bootstrap => after.changedAt = IF LifecycleChanged(pod, deleted) THEN Stamp
                                      ELSE new.changedAt
  BY <1>2, <1>5 DEF ApplicationRecord
<1>. QED
  BY <1>3, <1>4, <1>6, <1>7, <1>8 DEF new
=============================================================================
