-------------------------- MODULE LegacyImportProofs --------------------------
(***************************************************************************)
(* Proofs about LegacyImport, for all contents of the old files.  A step   *)
(* of LegacySpec is the migration or a step of StateStore, so each         *)
(* invariant of StateStoreProofs needs the migration only; then the order  *)
(* of the migrated records and that none of a live application is lost.    *)
(***************************************************************************)
EXTENDS LegacyImport, StateStoreProofs

-----------------------------------------------------------------------------
(* Greatest and least times.                                               *)

\* Of finitely many times one is the greatest and one the least.
LEMMA Extremes ==
  ASSUME NEW S, IsFiniteSet(S), S # {}, NEW f \in [S -> Nat]
  PROVE  /\ \E x \in S : \A y \in S : f[y] <= f[x]
         /\ \E x \in S : \A y \in S : f[x] <= f[y]
<1>1. ASSUME NEW g \in [S -> Nat]
      PROVE  \E x \in S : \A y \in S : g[y] <= g[x]
  <2> DEFINE rs == [x \in S |-> [changedAt |-> g[x]]]
  <2>1. /\ DOMAIN rs = S
        /\ \A x \in S : rs[x].changedAt = g[x] /\ g[x] \in Nat
    OBVIOUS
  <2>. HIDE DEF rs
  <2>2. /\ \A x \in S : g[x] <= Latest(rs)
        /\ Latest(rs) = NoTime \/ \E x \in S : g[x] = Latest(rs)
    BY <2>1, LatestMax
  <2>3. CASE Latest(rs) = NoTime
    BY <2>1, <2>2, <2>3 DEF NoTime
  <2>4. CASE \E x \in S : g[x] = Latest(rs)
    BY <2>2, <2>4
  <2>. QED
    BY <2>2, <2>3, <2>4
<1>2. PICK m \in S : \A y \in S : f[y] <= f[m]
  BY <1>1
<1>3. PICK x \in S : \A y \in S : f[m] - f[y] <= f[m] - f[x]
  <2> DEFINE g == [y \in S |-> f[m] - f[y]]
  <2>1. g \in [S -> Nat]
    BY <1>2
  <2>. QED
    BY <1>1, <2>1
<1>4. \A y \in S : f[x] <= f[y]
  BY <1>3
<1>. QED
  BY <1>2, <1>4

-----------------------------------------------------------------------------
(* The migration.                                                          *)

\* What the migration is given.
LEMMA LegacyTypes ==
  ASSUME legacy \in LegacyFiles
  PROVE  /\ Partial(legacy.apps, Apps, LegacyRecord)
         /\ Partial(legacy.pods, Uids, PodRecord)
         /\ OwnersKnown(legacy.apps, legacy.pods)
         /\ IsFiniteSet(DOMAIN legacy.apps) /\ IsFiniteSet(Missing)
         /\ \A a \in DOMAIN legacy.apps : /\ Record(a) \in ApplicationRecord
                                          /\ Updated(a) \in Nat \ {0}
<1>1. Partial(legacy.apps, Apps, LegacyRecord) /\ Partial(legacy.pods, Uids, PodRecord)
  BY LegacyAssumption DEF Partial
<1>2. OwnersKnown(legacy.apps, legacy.pods)
  BY LegacyAssumption DEF OwnersKnown
<1>3. IsFiniteSet(DOMAIN legacy.apps)
  BY <1>1, BoundsAssumption, FS_Subset DEF Partial
<1>4. IsFiniteSet(Missing)
  <2>1. Missing \in SUBSET DOMAIN legacy.apps
    BY DEF Missing
  <2>. QED
    BY <1>3, <2>1, FS_Subset
<1>5. \A a \in DOMAIN legacy.apps : /\ Record(a) \in ApplicationRecord
                                    /\ Updated(a) \in Nat \ {0}
  BY <1>1 DEF Partial, LegacyRecord, Record, Updated
<1>. QED
  BY <1>1, <1>2, <1>3, <1>4, <1>5

\* Given is at or behind no changedAt of the files.
LEMMA GivenMax ==
  ASSUME legacy \in LegacyFiles
  PROVE  Given \in Nat /\ \A a \in DOMAIN legacy.apps : Record(a).changedAt <= Given
<1> DEFINE rs == [a \in DOMAIN legacy.apps |-> Record(a)]
<1>1. /\ DOMAIN rs = DOMAIN legacy.apps
      /\ \A a \in DOMAIN rs : rs[a] = Record(a) /\ rs[a].changedAt \in Nat
  BY LegacyTypes DEF ApplicationRecord
<1>2. IsFiniteSet(DOMAIN rs)
  BY <1>1, LegacyTypes
<1>3. Given = Latest(rs)
  BY DEF Given
<1>. HIDE DEF rs
<1>. QED
  BY <1>1, <1>2, <1>3, LatestMax

\* The clock of the migration starts at or behind every changedAt of the files.
LEMMA BaseBehind ==
  ASSUME legacy \in LegacyFiles, Missing # {}
  PROVE  Base \in Nat /\ Given <= Base
<1> DEFINE times == {Updated(a) : a \in Missing}
           f == [a \in Missing |-> Updated(a)]
<1>1. Missing \subseteq DOMAIN legacy.apps
  BY DEF Missing
<1>2. f \in [Missing -> Nat] /\ \A a \in Missing : f[a] = Updated(a)
  BY <1>1, LegacyTypes
<1>3. PICK x \in Missing : \A y \in Missing : f[x] <= f[y]
  <2>. HIDE DEF f
  <2>. QED
    BY <1>2, LegacyTypes, Extremes
<1>4. \E t \in times : \A u \in times : t <= u
  BY <1>2, <1>3
<1>5. Least(times) \in times
  BY <1>4 DEF Least
<1>6. times \subseteq Nat \ {0}
  BY <1>1, LegacyTypes
<1>7. Base = Greatest({Least(times) - 1, Given})
  BY DEF Base
<1>. HIDE DEF times
<1>8. Least(times) - 1 \in Nat /\ Given \in Nat
  <2>1. Least(times) \in Nat \ {0}
    BY <1>5, <1>6
  <2>. QED
    BY <2>1, GivenMax
<1>9. \E t \in {Least(times) - 1, Given} : \A u \in {Least(times) - 1, Given} : u <= t
  BY <1>8
<1>. QED
  BY <1>7, <1>8, <1>9 DEF Greatest

\* The clock of the process stays a time.
LEMMA LastTimeType ==
  ASSUME legacy \in LegacyFiles, clock \in Nat
  PROVE  LastTime \in Nat
<1> DEFINE updates == {Updated(a) : a \in DOMAIN legacy.apps}
           times == {clock} \cup updates
           f == [a \in DOMAIN legacy.apps |-> Updated(a)]
<1>1. times \subseteq Nat
  BY LegacyTypes
<1>2. \E t \in times : \A u \in times : u <= t
  <2>1. CASE DOMAIN legacy.apps = {}
    BY <2>1
  <2>2. CASE DOMAIN legacy.apps # {}
    <3>1. /\ f \in [DOMAIN legacy.apps -> Nat]
          /\ \A a \in DOMAIN legacy.apps : f[a] = Updated(a)
      BY LegacyTypes
    <3>2. PICK x \in DOMAIN legacy.apps : \A y \in DOMAIN legacy.apps : f[y] <= f[x]
      <4>. HIDE DEF f
      <4>. QED
        BY <2>2, <3>1, LegacyTypes, Extremes
    <3>3. Updated(x) \in updates /\ \A u \in updates : u <= Updated(x)
      BY <3>1, <3>2
    <3>. HIDE DEF updates
    <3>4. clock \in Nat /\ Updated(x) \in Nat
      BY <1>1, <3>3
    <3>5. CASE clock <= Updated(x)
      BY <3>3, <3>5
    <3>6. CASE Updated(x) < clock
      BY <1>1, <3>3, <3>4, <3>6
    <3>. QED
      BY <3>4, <3>5, <3>6
  <2>. QED
    BY <2>1, <2>2
<1>3. LastTime \in times
  BY <1>2 DEF LastTime, Greatest
<1>. QED
  BY <1>1, <1>3

\* The migrated records, but for their changedAt, are those of the files.
LEMMA BackfilledType ==
  ASSUME legacy \in LegacyFiles, NEW rank \in Ranks
  PROVE  /\ DOMAIN Backfilled(rank) = DOMAIN legacy.apps
         /\ Partial(Backfilled(rank), Apps, ApplicationRecord)
         /\ \A a \in DOMAIN legacy.apps :
              /\ Backfilled(rank)[a].deletedAt = Record(a).deletedAt
              /\ Backfilled(rank)[a].status = Record(a).status
              /\ a \in Missing => /\ rank[a] \in Nat /\ rank[a] >= 1 /\ Base \in Nat
                                  /\ Backfilled(rank)[a].changedAt = Base + rank[a]
              /\ a \notin Missing =>
                   Backfilled(rank)[a].changedAt = Record(a).changedAt
<1> DEFINE as == Backfilled(rank)
<1>1. DOMAIN as = DOMAIN legacy.apps
  BY DEF Backfilled
<1>2. \A a \in DOMAIN legacy.apps :
        as[a] = IF a \in Missing THEN [Record(a) EXCEPT !.changedAt = Base + rank[a]]
                ELSE Record(a)
  BY DEF Backfilled
<1>3. ASSUME NEW a \in Missing
      PROVE  rank[a] \in Nat /\ rank[a] >= 1 /\ Base \in Nat
  <2>1. Base \in Nat
    BY BaseBehind
  <2>2. Cardinality(Missing) \in Nat
    BY LegacyTypes, FS_CardinalityType
  <2>3. rank \in [Missing -> 1..Cardinality(Missing)]
    BY DEF Ranks
  <2>4. rank[a] \in 1..Cardinality(Missing)
    BY <2>3
  <2>. QED
    BY <2>1, <2>2, <2>4
<1>. HIDE DEF as
<1>4. ASSUME NEW a \in DOMAIN legacy.apps
      PROVE  /\ as[a] \in ApplicationRecord
             /\ as[a].deletedAt = Record(a).deletedAt /\ as[a].status = Record(a).status
             /\ a \in Missing => as[a].changedAt = Base + rank[a]
             /\ a \notin Missing => as[a].changedAt = Record(a).changedAt
  <2>1. Record(a) \in ApplicationRecord
    BY LegacyTypes
  <2>2. CASE a \in Missing
    <3>1. as[a] = [Record(a) EXCEPT !.changedAt = Base + rank[a]]
      BY <1>2, <2>2
    <3>2. Base + rank[a] \in Nat
      BY <1>3, <2>2
    <3>. QED
      BY <2>1, <2>2, <3>1, <3>2 DEF ApplicationRecord
  <2>3. CASE a \notin Missing
    BY <1>2, <2>1, <2>3
  <2>. QED
    BY <2>2, <2>3
<1>5. Partial(as, Apps, ApplicationRecord)
  <2>1. as = [a \in DOMAIN legacy.apps |-> as[a]]
    BY DEF as, Backfilled
  <2>2. DOMAIN legacy.apps \subseteq Apps
    BY LegacyTypes DEF Partial
  <2>. QED
    BY <1>1, <1>4, <2>1, <2>2 DEF Partial
<1>. QED
  BY <1>1, <1>3, <1>4, <1>5 DEF as

\* What the migration makes of the files, whichever records it evicts.
Migrates(rank, drivers, victims, kept, gone) ==
  LET as == Backfilled(rank) IN
  /\ rank \in Ranks /\ drivers \in DriverIndexes(legacy.pods)
  /\ lastChanged' = Latest(as)
  /\ victims \in OldestFirst(as, DeletedApps(as), Surplus(as, MaxApps))
  /\ apps' = Without(as, victims)
  /\ driverByApp' = Without(drivers, victims)
  /\ kept = Without(legacy.pods, OwnedBy(legacy.pods, victims))
  /\ gone \in OldestFirst(kept, Reclaimable(kept, apps'), Surplus(kept, MaxPods))
  /\ pods' = Without(kept, gone)

\* The migration finds nothing, or makes its choices.
LEMMA ImportSteps ==
  ASSUME ImportLegacy
  PROVE  \/ legacy = NoLegacy
            /\ UNCHANGED <<apps, pods, driverByApp, lastChanged, dirty>>
         \/ dirty' = TRUE /\ \E rank, drivers, victims, kept, gone :
                               Migrates(rank, drivers, victims, kept, gone)
BY DEF ImportLegacy, Migrates

\* An index of drivers leads from applications to pods.
LEMMA DriverIndexesType ==
  ASSUME NEW ps, Partial(ps, Uids, PodRecord), NEW drivers \in DriverIndexes(ps)
  PROVE  Partial(drivers, Apps, Uids) /\ IndexFits(ps, drivers)
<1> DEFINE records == {k \in DOMAIN ps : ps[k].role = "driver"}
           owners == {ps[k].app : k \in records}
<1>1. owners \subseteq Apps
  <2>1. \A k \in records : ps[k].app \in Apps
    BY DEF Partial, PodRecord
  <2>. QED
    BY <2>1, Zenon
<1>2. records \subseteq Uids
  BY DEF Partial
<1>3. drivers \in [owners -> records] /\ \A a \in DOMAIN drivers : ps[drivers[a]].app = a
  BY DEF DriverIndexes
<1>4. \A a \in owners : IsDriverOf(ps, drivers[a], a)
  BY <1>3 DEF IsDriverOf
<1>5. \A a : (\E k : IsDriverOf(ps, k, a)) => a \in owners
  BY DEF IsDriverOf
<1>. HIDE DEF owners, records
<1>6. Partial(drivers, Apps, Uids)
  BY <1>1, <1>2, <1>3 DEF Partial
<1>. QED
  BY <1>3, <1>4, <1>5, <1>6 DEF IndexFits

-----------------------------------------------------------------------------
(* The invariants of the store.                                            *)

\* Before the migration there are no records, and before the first save there is
\* no file.
LegacyInv ==
  /\ legacy \in LegacyFiles
  /\ saved \in BOOLEAN /\ ready \in BOOLEAN
  /\ ~saved => file.apps = Empty /\ file.pods = Empty
  /\ ~ready => ~saved /\ apps = Empty /\ pods = Empty /\ ~dirty

StoreInv == TypeOK /\ CommitTogether /\ LimitsHeld /\ CleanMeansSaved /\ Labels

\* The empty store is in order.
LEMMA StoreInitially == Init => StoreInv
<1>1. Init => CommitTogether /\ CleanMeansSaved /\ Labels
  BY DEF Init, CommitTogether, OwnersKnown, CleanMeansSaved, Labels, LabelsRecorded, Empty
<1>2. Init => LimitsHeld
  <2>1. WithinLimits(Empty, Empty)
    BY DEF WithinLimits, DeletedApps, Reclaimable, Empty
  <2>. QED
    BY <2>1 DEF Init, LimitsHeld
<1>. QED
  BY <1>1, <1>2, TypeInit DEF StoreInv

\* The migration keeps the invariants of the store.
LEMMA ImportKeepsStore == LegacyInv /\ StoreInv /\ ImportLegacy => StoreInv'
<1> SUFFICES ASSUME LegacyInv, StoreInv, ImportLegacy
             PROVE  StoreInv'
  OBVIOUS
<1> USE DEF StoreInv
<1>1. legacy \in LegacyFiles /\ clock' = LastTime /\ LastTime \in Nat
      /\ file' = file /\ seeding' = seeding
  BY LastTimeType DEF LegacyInv, ImportLegacy, TypeOK
<1>2. CASE UNCHANGED <<apps, pods, driverByApp, lastChanged, dirty>>
  BY <1>1, <1>2 DEF TypeOK, CommitTogether, OwnersKnown, LimitsHeld, CleanMeansSaved,
                    Labels, LabelsRecorded
<1>3. ASSUME dirty' = TRUE,
             NEW rank, NEW drivers, NEW victims, NEW kept, NEW gone,
             Migrates(rank, drivers, victims, kept, gone)
      PROVE  StoreInv'
  <2> DEFINE as == Backfilled(rank)
             ps == legacy.pods
  <2>1. rank \in Ranks /\ drivers \in DriverIndexes(ps)
        /\ lastChanged' = Latest(as)
        /\ victims \in OldestFirst(as, DeletedApps(as), Surplus(as, MaxApps))
        /\ apps' = Without(as, victims)
        /\ driverByApp' = Without(drivers, victims)
        /\ kept = Without(ps, OwnedBy(ps, victims))
        /\ gone \in OldestFirst(kept, Reclaimable(kept, apps'), Surplus(kept, MaxPods))
        /\ pods' = Without(kept, gone)
    BY <1>3 DEF Migrates
  <2>2. /\ Partial(as, Apps, ApplicationRecord) /\ Partial(ps, Uids, PodRecord)
        /\ DOMAIN as = DOMAIN legacy.apps
        /\ OwnersKnown(legacy.apps, ps)
    BY <1>1, <2>1, BackfilledType, LegacyTypes
  <2>3. Partial(drivers, Apps, Uids)
    BY <2>1, <2>2, DriverIndexesType
  <2>4. LabelsRecorded(ps)
    BY <1>1, OldLabelsAssumption DEF LabelsRecorded
  <2>. HIDE DEF as, ps
  <2>5. IsFiniteSet(DOMAIN as) /\ IsFiniteSet(DOMAIN ps)
    BY <2>2, BoundsAssumption, FS_Subset DEF Partial
  <2>6. TypeOK'
    <3>1. Partial(apps, Apps, ApplicationRecord)'
      BY <2>1, <2>2, WithoutType
    <3>2. Partial(pods, Uids, PodRecord)'
      BY <2>1, <2>2, WithoutType
    <3>3. Partial(driverByApp, Apps, Uids)'
      BY <2>1, <2>3, WithoutType
    <3>4. lastChanged' \in Nat
      <4>1. \A a \in DOMAIN as : as[a].changedAt \in Nat
        BY <2>2 DEF Partial, ApplicationRecord
      <4>. QED
        BY <2>1, <2>5, <4>1, LatestMax
    <3>. QED
      BY <1>1, <1>3, <3>1, <3>2, <3>3, <3>4 DEF TypeOK
  <2>7. OwnersKnown(apps', pods')
    <3>1. \A k \in DOMAIN ps : ps[k].app \in DOMAIN as
      BY <2>2 DEF OwnersKnown
    <3>2. \A k \in DOMAIN kept : kept[k].app \in DOMAIN as \ victims
      BY <2>1, <3>1 DEF OwnedBy, Without
    <3>. QED
      BY <2>1, <3>2 DEF OwnersKnown, Without
  <2>8. WithinLimits(apps', pods')
    BY <2>1, <2>5, EvictionLimits
  <2>9. LabelsRecorded(pods')
    BY <2>1, <2>4 DEF LabelsRecorded, Without
  <2>. QED
    BY <1>1, <1>3, <2>6, <2>7, <2>8, <2>9 DEF CommitTogether, OwnersKnown, LimitsHeld,
       CleanMeansSaved, Labels, LabelsRecorded, WithinLimits, DeletedApps, Reclaimable
<1>. QED
  BY <1>2, <1>3, ImportSteps

\* A step of the specification is the migration or one of the store.
LEMMA LegacySteps ==
  ASSUME [LegacyNext]_legacyVars
  PROVE  ImportLegacy \/ [Next]_vars
BY DEF LegacyNext, Next, legacyVars, vars

\* One step keeps the invariant of the migration.
LEMMA LegacyInvStep == TypeOK /\ LegacyInv /\ [LegacyNext]_legacyVars => LegacyInv'
<1> SUFFICES ASSUME TypeOK, LegacyInv, [LegacyNext]_legacyVars
             PROVE  LegacyInv'
  OBVIOUS
<1>1. CASE ImportLegacy
  BY <1>1 DEF LegacyInv, ImportLegacy
<1>2. CASE ready /\ Operate /\ saved' = (saved \/ (dirty /\ ~dirty'))
           /\ UNCHANGED <<legacy, ready>>
  <2>1. saved' \in BOOLEAN
    BY <1>2
  <2>2. ASSUME ~saved'
        PROVE  file' = file
    <3>1. ~(dirty /\ ~dirty')
      BY <1>2, <2>2
    <3>. QED
      BY <1>2, <3>1 DEF Operate, UpsertPod, BootstrapPod, Upsert, Synced, Save, Tick
  <2>. QED
    BY <1>2, <2>1, <2>2 DEF LegacyInv
<1>3. CASE ready /\ Restart /\ ready' = LoadedAtStart /\ UNCHANGED <<legacy, saved>>
  BY <1>3 DEF LegacyInv, Restart, LoadedAtStart
<1>4. CASE UNCHANGED legacyVars
  BY <1>4 DEF LegacyInv, legacyVars, vars
<1>. QED
  BY <1>1, <1>2, <1>3, <1>4 DEF LegacyNext

\* One step keeps the invariants of the store.
LEMMA StoreInvStep == LegacyInv /\ StoreInv /\ [LegacyNext]_legacyVars => StoreInv'
BY LegacySteps, ImportKeepsStore, TypeStep, CommitStep, LimitsStep, CleanStep, LabelsStep
   DEF StoreInv

\* Both hold in every process.
LEMMA LegacyStoreInv == LegacySpec => [](LegacyInv /\ StoreInv)
<1>1. LegacyInit => LegacyInv
  <2>1. LegacyInit => saved \in BOOLEAN /\ ready \in BOOLEAN
    BY Zenon DEF LegacyInit
  <2>. QED
    BY <2>1 DEF LegacyInit, Init, LegacyInv
<1>2. LegacyInit => StoreInv
  BY StoreInitially DEF LegacyInit, StoreInv
<1>3. LegacyInv /\ StoreInv /\ [LegacyNext]_legacyVars => LegacyInv' /\ StoreInv'
  BY LegacyInvStep, StoreInvStep DEF StoreInv
<1>. QED
  BY <1>1, <1>2, <1>3, PTL DEF LegacySpec

\* From an empty start or from old files, one process after another: the records
\* keep their types, applications and pods commit together, the limits hold, and a
\* store that is not dirty has nothing that the file lacks.
THEOREM StoreSafe ==
  LegacySpec => [](TypeOK /\ CommitTogether /\ LimitsHeld /\ CleanMeansSaved)
<1>1. StoreInv => TypeOK /\ CommitTogether /\ LimitsHeld /\ CleanMeansSaved
  BY DEF StoreInv
<1>. QED
  BY <1>1, LegacyStoreInv, PTL

-----------------------------------------------------------------------------
(* The steps of the store.                                                 *)

\* The migration starts from nothing, so it evicts and moves nothing of before.
LEMMA ImportFromNothing ==
  LegacyInv /\ ImportLegacy => DOMAIN apps = {} /\ DOMAIN pods = {}
BY DEF LegacyInv, ImportLegacy, Empty

\* An application leaves memory only when there are more than the limit, and every
\* deleted one that stays was deleted no earlier; the migration included.
THEOREM EvictsOldest == LegacySpec => EvictsOldestDeleted
<1>1. LegacyInv /\ StoreInv /\ [LegacyNext]_legacyVars => [Restart \/ OldestGo]_vars
  BY LegacySteps, ImportFromNothing, EvictionStep DEF StoreInv, OldestGo
<1>. QED
  BY <1>1, LegacyStoreInv, PTL DEF LegacySpec, EvictsOldestDeleted, Last, OldestGo

\* The record of a driver is removed only together with its application.
THEOREM DriversKept == LegacySpec => DriverLeavesWithApp
<1>1. LegacyInv /\ StoreInv /\ [LegacyNext]_legacyVars => [Restart \/ DriversGo]_vars
  BY LegacySteps, ImportFromNothing, DriversStep DEF StoreInv, DriversGo
<1>. QED
  BY <1>1, LegacyStoreInv, PTL DEF LegacySpec, DriverLeavesWithApp, DriversGo

\* changedAt moves on every lifecycle change the watch reports and on nothing else,
\* and then past every stamp handed out before, those of the migration included.
THEOREM ChangesToHead == LegacySpec => ChangesGoToHead
<1>1. LegacyInv /\ StoreInv /\ [LegacyNext]_legacyVars => [Restart \/ ChangesAtHead]_vars
  BY LegacySteps, ImportFromNothing, HeadStep DEF StoreInv, ChangesAtHead
<1>. QED
  BY <1>1, LegacyStoreInv, PTL DEF LegacySpec, ChangesGoToHead, AtHead, ChangesAtHead

-----------------------------------------------------------------------------
(* The join.                                                               *)

\* In the old files the only driver of an application has its status.
OldStatusesAgree ==
  \A files \in LegacyFiles :
    SingleAgrees([a \in DOMAIN files.apps |-> files.apps[a].record], files.pods)

\* The migration keeps the join: an eviction takes the drivers of the applications
\* it takes and no other.
LEMMA ImportJoin ==
  ASSUME OldStatusesAgree, LegacyInv, JoinInv, ImportLegacy
  PROVE  JoinInv'
<1> USE DEF JoinInv
<1>1. file' = file /\ legacy \in LegacyFiles
  BY DEF ImportLegacy, LegacyInv
<1>2. CASE UNCHANGED <<apps, pods, driverByApp, lastChanged, dirty>>
  BY <1>1, <1>2
<1>3. ASSUME NEW rank, NEW drivers, NEW victims, NEW kept, NEW gone,
             Migrates(rank, drivers, victims, kept, gone)
      PROVE  JoinInv'
  <2> DEFINE loaded == Backfilled(rank)
             coords == legacy.pods
  <2>1. rank \in Ranks /\ drivers \in DriverIndexes(coords)
        /\ apps' = Without(loaded, victims)
        /\ driverByApp' = Without(drivers, victims)
        /\ kept = Without(coords, OwnedBy(coords, victims))
        /\ gone \in OldestFirst(kept, Reclaimable(kept, apps'), Surplus(kept, MaxPods))
        /\ pods' = Without(kept, gone)
    BY <1>3 DEF Migrates
  <2>2. /\ Partial(coords, Uids, PodRecord)
        /\ DOMAIN loaded = DOMAIN legacy.apps
        /\ OwnersKnown(loaded, coords)
        /\ \A a \in DOMAIN loaded : loaded[a].status = Record(a).status
    BY <1>1, <2>1, BackfilledType, LegacyTypes DEF OwnersKnown
  <2>3. IndexFits(coords, drivers)
    BY <2>1, <2>2, DriverIndexesType
  <2>4. SingleAgrees([a \in DOMAIN legacy.apps |-> Record(a)], coords)
    BY <1>1 DEF OldStatusesAgree, Record
  <2>. HIDE DEF loaded, coords
  <2>5. /\ \A k, a : IsDriverOf(pods', k, a) <=> IsDriverOf(coords, k, a) /\ a \notin victims
        /\ \A k \in DOMAIN pods' : pods'[k] = coords[k]
    <3>1. OwnersKnown(loaded, coords)
      BY <2>2
    <3>2. ASSUME NEW as1, as1 = apps', NEW ps1, ps1 = pods'
          PROVE  /\ \A k, a : IsDriverOf(ps1, k, a) <=>
                                IsDriverOf(coords, k, a) /\ a \notin victims
                 /\ \A k \in DOMAIN ps1 : ps1[k] = coords[k]
      <4>1. as1 = Without(loaded, victims) /\ kept = Without(coords, OwnedBy(coords, victims))
        BY <2>1, <3>2
      <4>2. gone \in OldestFirst(kept, Reclaimable(kept, as1), Surplus(kept, MaxPods))
        BY <2>1, <3>2
      <4>3. ps1 = Without(kept, gone)
        BY <2>1, <3>2
      <4>. QED
        BY ONLY <3>1, <4>1, <4>2, <4>3, EvictionKeepsDrivers DEF IsDriverOf
    <3>. QED
      BY <3>2, Zenon
  <2>6. IndexFits(pods', driverByApp')
    BY <2>1, <2>3, <2>5 DEF IndexFits, Without
  <2>7. SingleAgrees(apps', pods')
    <3> SUFFICES ASSUME NEW a, NEW k, IsDriverOf(pods', k, a),
                        \A j : IsDriverOf(pods', j, a) => j = k
                 PROVE  apps'[a].status = pods'[k].status
      BY DEF SingleAgrees
    <3>1. a \notin victims /\ IsDriverOf(coords, k, a) /\ \A j : IsDriverOf(coords, j, a) => j = k
      BY <2>5
    <3>2. a \in DOMAIN loaded
      BY <2>2, <3>1 DEF IsDriverOf, OwnersKnown
    <3>3. Record(a).status = coords[k].status
      BY <2>2, <2>4, <3>1, <3>2 DEF SingleAgrees
    <3>4. pods'[k] = coords[k]
      BY <2>5 DEF IsDriverOf
    <3>5. apps'[a] = loaded[a]
      BY <2>1, <3>1, <3>2 DEF Without
    <3>. QED
      BY <2>2, <3>2, <3>3, <3>4, <3>5
  <2>. QED
    BY <1>1, <2>6, <2>7
<1>. QED
  BY <1>2, <1>3, ImportSteps

\* The join of viewLocked finds the driver of every application that has one, and a
\* single driver's status is its application's, if that is so in the old files.
THEOREM DriversJoined ==
  ASSUME OldStatusesAgree
  PROVE  LegacySpec => []DriverJoin
<1>1. LegacyInit => JoinInv
  BY JoinInitially DEF LegacyInit
<1>2. LegacyInv /\ StoreInv /\ JoinInv /\ [LegacyNext]_legacyVars => JoinInv'
  BY LegacySteps, ImportJoin, JoinStep DEF StoreInv
<1>3. StoreInv /\ JoinInv => DriverJoin
  BY JoinImplies DEF StoreInv
<1>. QED
  BY <1>1, <1>2, <1>3, LegacyStoreInv, PTL DEF LegacySpec

-----------------------------------------------------------------------------
(* What becomes of the old records.                                        *)

\* One migration: every record it stamps has a place of its own.
Ordered ==
  \A a \in Missing \cap DOMAIN apps' :
    /\ apps'[a].changedAt <= lastChanged'
    /\ \A b \in DOMAIN apps' \ {a} :
         /\ b \notin Missing => apps'[b].changedAt < apps'[a].changedAt
         /\ b \in Missing => apps'[b].changedAt # apps'[a].changedAt
         /\ b \in Missing /\ Updated(a) < Updated(b) =>
              apps'[a].changedAt < apps'[b].changedAt

\* The migration orders what it stamps.
LEMMA ImportOrdered ==
  ASSUME legacy \in LegacyFiles, ImportLegacy
  PROVE  Ordered
<1>1. CASE legacy = NoLegacy
  BY <1>1 DEF Ordered, Missing, NoLegacy, Empty
<1>2. ASSUME NEW rank, NEW drivers, NEW victims, NEW kept, NEW gone,
             Migrates(rank, drivers, victims, kept, gone),
             NEW a \in Missing \cap DOMAIN apps'
      PROVE  /\ apps'[a].changedAt <= lastChanged'
             /\ \A b \in DOMAIN apps' \ {a} :
                  /\ b \notin Missing => apps'[b].changedAt < apps'[a].changedAt
                  /\ b \in Missing => apps'[b].changedAt # apps'[a].changedAt
                  /\ b \in Missing /\ Updated(a) < Updated(b) =>
                       apps'[a].changedAt < apps'[b].changedAt
  <2> DEFINE as == Backfilled(rank)
  <2>1. rank \in Ranks /\ lastChanged' = Latest(as) /\ apps' = Without(as, victims)
    BY <1>2 DEF Migrates
  <2>2. /\ DOMAIN as = DOMAIN legacy.apps
        /\ Partial(as, Apps, ApplicationRecord)
        /\ \A b \in DOMAIN legacy.apps :
             /\ b \in Missing => /\ rank[b] \in Nat /\ rank[b] >= 1 /\ Base \in Nat
                                 /\ as[b].changedAt = Base + rank[b]
             /\ b \notin Missing => as[b].changedAt = Record(b).changedAt
    BY <2>1, BackfilledType
  <2>3. \A x, y \in Missing : x # y =>
          rank[x] # rank[y] /\ (Updated(x) < Updated(y) => rank[x] < rank[y])
    BY <2>1 DEF Ranks
  <2>4. Base \in Nat /\ Given \in Nat /\ Given <= Base
        /\ \A b \in DOMAIN legacy.apps : Record(b).changedAt <= Given
    BY <1>2, BaseBehind, GivenMax
  <2>. HIDE DEF as
  <2>5. \A b \in DOMAIN apps' : apps'[b] = as[b] /\ b \in DOMAIN legacy.apps
    BY <2>1, <2>2 DEF Without
  <2>6. apps'[a].changedAt <= lastChanged'
    <3>1. IsFiniteSet(DOMAIN as)
      BY <2>2, BoundsAssumption, FS_Subset DEF Partial
    <3>2. \A b \in DOMAIN as : as[b].changedAt \in Nat
      BY <2>2 DEF Partial, ApplicationRecord
    <3>3. as[a].changedAt <= Latest(as)
      BY <1>2, <2>2, <2>5, <3>1, <3>2, LatestMax
    <3>. QED
      BY <1>2, <2>1, <2>5, <3>3
  <2>7. apps'[a].changedAt = Base + rank[a] /\ rank[a] \in Nat /\ rank[a] >= 1
    BY <1>2, <2>2, <2>5
  <2>8. ASSUME NEW b \in DOMAIN apps' \ {a}, b \notin Missing
        PROVE  apps'[b].changedAt < apps'[a].changedAt
    <3>1. apps'[b].changedAt = Record(b).changedAt /\ Record(b).changedAt <= Given
      BY <2>2, <2>4, <2>5, <2>8
    <3>2. Record(b).changedAt \in Nat
      BY <2>5, <2>8, LegacyTypes DEF ApplicationRecord
    <3>. QED
      BY <2>4, <2>7, <3>1, <3>2
  <2>9. ASSUME NEW b \in DOMAIN apps' \ {a}, b \in Missing
        PROVE  /\ apps'[b].changedAt # apps'[a].changedAt
               /\ Updated(a) < Updated(b) => apps'[a].changedAt < apps'[b].changedAt
    <3>1. apps'[b].changedAt = Base + rank[b] /\ rank[b] \in Nat
      BY <2>2, <2>5, <2>9
    <3>2. rank[b] # rank[a] /\ (Updated(a) < Updated(b) => rank[a] < rank[b])
      BY <1>2, <2>3, <2>9
    <3>. QED
      BY <2>4, <2>7, <3>1, <3>2
  <2>. QED
    BY <2>6, <2>8, <2>9
<1>3. legacy = NoLegacy \/ \E rank, drivers, victims, kept, gone :
                             Migrates(rank, drivers, victims, kept, gone)
  BY ImportSteps
<1>. QED
  BY <1>1, <1>2, <1>3 DEF Ordered

\* The migration puts every record it stamps at a place of its own in the feed, in
\* the order of the old files and behind the records that had one.
THEOREM MigrationOrders == LegacySpec => BackfillOrdered
<1>1. LegacyInv /\ [LegacyNext]_legacyVars => [~ready /\ ready' => Ordered]_legacyVars
  <2> SUFFICES ASSUME LegacyInv, [LegacyNext]_legacyVars, ~ready, ready'
               PROVE  Ordered
    OBVIOUS
  <2>1. ImportLegacy
    BY DEF LegacyNext, legacyVars
  <2>. QED
    BY <2>1, ImportOrdered DEF LegacyInv
<1>. QED
  BY <1>1, LegacyStoreInv, PTL DEF LegacySpec, BackfillOrdered, Ordered

\* An application that nothing deletes, of the files.
Lasting(a) == Record(a).deletedAt = NoTime /\ \A p \in WatchedPods : p.app # a

\* It is in memory and in the file, and not deleted in either.
KeptInv ==
  \A a \in DOMAIN legacy.apps : Lasting(a) =>
    /\ ready => a \in DOMAIN apps /\ apps[a].deletedAt = NoTime
    /\ saved => a \in DOMAIN file.apps /\ file.apps[a].deletedAt = NoTime

\* An operation evicts no application that is not deleted, and a pod of the startup
\* snapshot deletes none.
LEMMA UpsertKeeps ==
  ASSUME TypeOK, NEW pod \in Pods, NEW deleted \in BOOLEAN, NEW bootstrap \in BOOLEAN,
         Upsert(pod, deleted, bootstrap),
         NEW a \in DOMAIN apps, apps[a].deletedAt = NoTime, pod.app = a => ~deleted
  PROVE  a \in DOMAIN apps' /\ apps'[a].deletedAt = NoTime
<1> DEFINE rs == AppsWith(pod, deleted, bootstrap)
<1>1. pod \in PodObject /\ pod.app # NoApp /\ pod.role # NoRole
  BY PodsAssumption DEF Upsert
<1>2. a \in DOMAIN rs /\ rs[a].deletedAt = NoTime
  <2>1. CASE a # pod.app
    BY <2>1 DEF AppsWith, Put
  <2>2. CASE a = pod.app
    <3>1. Observed(pod, deleted).deletedAt = NoTime
      BY <1>1, <2>2, ObservedType DEF Observed, Before, ApplicationRecord
    <3>2. AppAfter(pod, deleted, bootstrap).deletedAt = NoTime
      BY <1>1, <3>1, ObservedType DEF AppAfter, ApplicationRecord
    <3>. QED
      BY <2>2, <3>2 DEF AppsWith, Put
  <2>. QED
    BY <2>1, <2>2
<1>. HIDE DEF rs
<1>3. PICK victims \in OldestFirst(rs, DeletedApps(rs), Surplus(rs, MaxApps)) :
        apps' = Without(rs, victims)
  BY UpsertSteps DEF rs
<1>4. a \notin victims
  BY <1>2, EarliestSubset DEF DeletedApps
<1>. QED
  BY <1>2, <1>3, <1>4 DEF Without

\* One step keeps the lasting applications of the files.
LEMMA KeptStep ==
  LegacyInv /\ StoreInv /\ KeptInv /\ [LegacyNext]_legacyVars => KeptInv'
<1> SUFFICES ASSUME LegacyInv, StoreInv, KeptInv, [LegacyNext]_legacyVars
             PROVE  KeptInv'
  OBVIOUS
<1>0. legacy' = legacy
  BY DEF LegacyNext, ImportLegacy, legacyVars
<1> SUFFICES ASSUME NEW a \in DOMAIN legacy.apps, Lasting(a)
             PROVE  /\ ready' => a \in DOMAIN apps' /\ apps'[a].deletedAt = NoTime
                    /\ saved' => a \in DOMAIN file'.apps /\ file'.apps[a].deletedAt = NoTime
  BY <1>0 DEF KeptInv, Lasting, Record
<1>1. /\ ready => a \in DOMAIN apps /\ apps[a].deletedAt = NoTime
      /\ saved => a \in DOMAIN file.apps /\ file.apps[a].deletedAt = NoTime
  BY DEF KeptInv
<1>2. TypeOK
  BY DEF StoreInv
<1>3. CASE ImportLegacy
  <2>1. legacy # NoLegacy /\ file' = file /\ saved' = saved
    BY <1>3 DEF NoLegacy, Empty, ImportLegacy
  <2>2. PICK rank, drivers, victims, kept, gone :
          Migrates(rank, drivers, victims, kept, gone)
    BY <1>3, <2>1, ImportSteps
  <2> DEFINE as == Backfilled(rank)
  <2>3. rank \in Ranks /\ apps' = Without(as, victims)
        /\ victims \in OldestFirst(as, DeletedApps(as), Surplus(as, MaxApps))
    BY <2>2 DEF Migrates
  <2>4. a \in DOMAIN as /\ as[a].deletedAt = NoTime
    BY <2>3, BackfilledType DEF LegacyInv, Lasting
  <2>. HIDE DEF as
  <2>5. a \notin victims
    BY <2>3, <2>4, EarliestSubset DEF DeletedApps
  <2>. QED
    BY <1>1, <2>1, <2>3, <2>4, <2>5 DEF Without
<1>4. CASE ready /\ Operate /\ saved' = (saved \/ (dirty /\ ~dirty'))
           /\ UNCHANGED <<legacy, ready>>
  <2>1. ASSUME NEW pod \in Pods, NEW deleted \in BOOLEAN, NEW bootstrap \in BOOLEAN,
               Upsert(pod, deleted, bootstrap), pod.app = a => ~deleted
        PROVE  /\ a \in DOMAIN apps' /\ apps'[a].deletedAt = NoTime
               /\ file' = file /\ (saved' => saved)
    <3>1. a \in DOMAIN apps' /\ apps'[a].deletedAt = NoTime
      BY <1>1, <1>2, <1>4, <2>1, UpsertKeeps
    <3>2. file' = file /\ (dirty => dirty')
      BY <2>1 DEF Upsert
    <3>. QED
      BY <1>4, <3>1, <3>2
  <2>2. ASSUME NEW pod \in WatchedPods, NEW deleted \in BOOLEAN, UpsertPod(pod, deleted)
        PROVE  /\ a \in DOMAIN apps' /\ apps'[a].deletedAt = NoTime
               /\ file' = file /\ (saved' => saved)
    <3>1. pod.app # a /\ pod \in Pods
      BY DEF Lasting, Pods
    <3>2. Upsert(pod, deleted, FALSE)
      BY <2>2 DEF UpsertPod
    <3>. QED
      BY <2>1, <3>1, <3>2
  <2>3. ASSUME NEW pod \in ListedPods, BootstrapPod(pod)
        PROVE  /\ a \in DOMAIN apps' /\ apps'[a].deletedAt = NoTime
               /\ file' = file /\ (saved' => saved)
    <3>1. Upsert(pod, FALSE, TRUE) /\ pod \in Pods
      BY <2>3 DEF BootstrapPod, Pods
    <3>. QED
      BY <2>1, <3>1
  <2>4. CASE Save
    <3>1. apps' = apps /\ file'.apps = apps
      BY <2>4 DEF Save, Snapshot
    <3>. QED
      BY <1>1, <1>4, <3>1
  <2>5. CASE Synced \/ Tick
    <3>1. UNCHANGED <<apps, file, dirty>>
      BY <2>5 DEF Synced, Tick
    <3>. QED
      BY <1>1, <1>4, <3>1
  <2>. QED
    BY <1>1, <1>4, <2>2, <2>3, <2>4, <2>5 DEF Operate
<1>5. CASE ready /\ Restart /\ ready' = LoadedAtStart /\ UNCHANGED <<legacy, saved>>
  BY <1>1, <1>5 DEF Restart, LoadedAtStart
<1>6. CASE UNCHANGED legacyVars
  BY <1>1, <1>6 DEF legacyVars, vars
<1>. QED
  BY <1>3, <1>4, <1>5, <1>6 DEF LegacyNext

\* An application of the old files that nothing deletes is never lost: not by the
\* limits, nor by an end of the process before or after the first save.
THEOREM OldRecordsKept == LegacySpec => []LegacyKept
<1>1. LegacyInit => KeptInv
  BY DEF LegacyInit, KeptInv
<1>2. LegacyInv /\ StoreInv /\ KeptInv /\ [LegacyNext]_legacyVars => KeptInv'
  BY KeptStep
<1>3. KeptInv => LegacyKept
  BY DEF KeptInv, LegacyKept, Lasting
<1>. QED
  BY <1>1, <1>2, <1>3, LegacyStoreInv, PTL DEF LegacySpec
===============================================================================
