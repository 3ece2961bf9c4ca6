----------------------------- MODULE LegacyImport -----------------------------
(***************************************************************************)
(* The one-time migration of internal/store/legacy.go: a process that      *)
(* finds no state file (main.go:79) loads the records of the older two     *)
(* files and converges on the limits.  The files stay, so a process that   *)
(* ends before its first save is followed by one that migrates again.      *)
(* Records without a changedAt, which the older layout did not have, get   *)
(* one each.  The two files are taken to be of one moment: every pod in    *)
(* them has its application.                                               *)
(***************************************************************************)
EXTENDS StateStore

CONSTANT LegacyFiles   \* what the two files can hold: [apps |-> ..., pods |-> ...]

NoLegacy == [apps |-> Empty, pods |-> Empty]

\* An application of the files: its record and lastUpdatedAt.
LegacyRecord == [record : ApplicationRecord, updatedAt : Nat \ {0}]

ASSUME LegacyAssumption ==
  \A files \in LegacyFiles :
    /\ \E as \in SUBSET Apps : files.apps \in [as -> LegacyRecord]
    /\ \E ks \in SUBSET Uids : files.pods \in [ks -> PodRecord]
    /\ \A k \in DOMAIN files.pods : files.pods[k].app \in DOMAIN files.apps

\* A record of the files carries the labels of its pod.
ASSUME OldLabelsAssumption ==
  \A files \in LegacyFiles, pod \in Pods : pod.uid \in DOMAIN files.pods =>
    files.pods[pod.uid].app = pod.app /\ files.pods[pod.uid].role = pod.role

VARIABLES
  legacy,   \* what the files hold
  saved,    \* the state file exists
  ready     \* the records of earlier processes are loaded

legacyVars == <<vars, legacy, saved, ready>>

-----------------------------------------------------------------------------
(* The migration.                                                          *)

Record(a) == legacy.apps[a].record
Updated(a) == legacy.apps[a].updatedAt
Missing == {a \in DOMAIN legacy.apps : Record(a).changedAt = NoTime}

Greatest(times) == CHOOSE t \in times : \A u \in times : u <= t
Least(times) == CHOOSE t \in times : \A u \in times : t <= u

Given == Latest([a \in DOMAIN legacy.apps |-> Record(a)])

\* Mutant: the clock starts at the records without a changedAt.
BaseAlone == Least({Updated(a) : a \in Missing}) - 1

\* The clock starts a millisecond before the first of them, or where the others
\* end.
Base == Greatest({Least({Updated(a) : a \in Missing}) - 1, Given})

\* The orders by lastUpdatedAt; equal ones are sorted either way.
Ranks ==
  {rank \in [Missing -> 1..Cardinality(Missing)] :
     \A a, b \in Missing : a # b =>
       /\ rank[a] # rank[b]
       /\ Updated(a) < Updated(b) => rank[a] < rank[b]}

\* One millisecond after the other.
Backfilled(rank) ==
  [a \in DOMAIN legacy.apps |->
     IF a \in Missing THEN [Record(a) EXCEPT !.changedAt = Base + rank[a]]
     ELSE Record(a)]

\* The clock of the process is taken to have passed every time in the files.
LastTime == Greatest({clock} \cup {Updated(a) : a \in DOMAIN legacy.apps})

ImportLegacy ==
  /\ ~ready /\ ready' = TRUE
  /\ clock' = LastTime
  /\ IF legacy = NoLegacy THEN UNCHANGED <<apps, pods, driverByApp, lastChanged, dirty>>
     ELSE \E rank \in Ranks, drivers \in DriverIndexes(legacy.pods) :
       LET as == Backfilled(rank) IN
       /\ lastChanged' = Latest(as)
       /\ dirty' = TRUE
       /\ \E victims \in OldestFirst(as, DeletedApps(as), Surplus(as, MaxApps)) :
            LET kept == Without(legacy.pods, OwnedBy(legacy.pods, victims)) IN
            /\ apps' = Without(as, victims)
            /\ driverByApp' = Without(drivers, victims)
            /\ \E gone \in OldestFirst(kept, Reclaimable(kept, apps'),
                                       Surplus(kept, MaxPods)) :
                 pods' = Without(kept, gone)
  /\ UNCHANGED <<file, seeding, legacy, saved>>

-----------------------------------------------------------------------------
(* The process.                                                            *)

\* Mutant: a process that follows another never migrates.
LoadedAlways == TRUE

\* With a state file there is nothing to migrate.
LoadedAtStart == saved

LegacyInit ==
  /\ Init
  /\ legacy \in LegacyFiles
  /\ saved = FALSE /\ ready = FALSE

LegacyNext ==
  \/ ImportLegacy
  \/ ready /\ Operate /\ saved' = (saved \/ (dirty /\ ~dirty')) /\ UNCHANGED <<legacy, ready>>
  \/ ready /\ Restart /\ ready' = LoadedAtStart /\ UNCHANGED <<legacy, saved>>

LegacySpec == LegacyInit /\ [][LegacyNext]_legacyVars

-----------------------------------------------------------------------------
(* Properties.                                                             *)

\* "backfilled in lastUpdatedAt order, stepping by 1ms" (state_store.go:687): the
\* migration puts every record it stamps at a place of its own in the feed, in the
\* order of the old files, behind all records that had one, and the clock behind
\* all of them, so that no page cuts between two and no later change comes before.
BackfillOrdered ==
  [][~ready /\ ready' =>
       \A a \in Missing \cap DOMAIN apps' :
         /\ apps'[a].changedAt <= lastChanged'
         /\ \A b \in DOMAIN apps' \ {a} :
              /\ b \notin Missing => apps'[b].changedAt < apps'[a].changedAt
              /\ b \in Missing => apps'[b].changedAt # apps'[a].changedAt
              /\ b \in Missing /\ Updated(a) < Updated(b) =>
                   apps'[a].changedAt < apps'[b].changedAt]_legacyVars

\* An application of the old files that was not deleted, then or since, is never
\* lost: not by the limits, nor by an end of the process before or after the first
\* save (main.go:77).
LegacyKept ==
  ready => \A a \in DOMAIN legacy.apps :
    Record(a).deletedAt = NoTime /\ (\A p \in WatchedPods : p.app # a) =>
      a \in DOMAIN apps /\ (saved => a \in DOMAIN file.apps)
=============================================================================
