---------------------------- MODULE ChangeFeedProofs ----------------------------
(***************************************************************************)
(* Proofs about ChangeFeed, for all applications, pods, limits, page sizes *)
(* and filters.  What the startup snapshot records can share a changedAt   *)
(* with another record, so that a page boundary may skip it; the theorems  *)
(* about delivery are therefore about live changes, with nothing listed at *)
(* startup (OnlyLive).                                                     *)
(***************************************************************************)
EXTENDS ChangeFeed, StateStoreProofs

OnlyLive == ListedPods = {}

-----------------------------------------------------------------------------
(* The steps of the feed are steps of the store.                           *)

\* What is proved of the store holds of the store under the feed.
LEMMA FeedImplementsStore == FeedSpec => Spec
<1>1. FeedInit => Init
  BY DEF FeedInit
<1>2. [FeedNext]_allVars => [Next]_vars
  BY DEF FeedNext, ReadPage, JoinPage, LosePage, GracefulRestart, Next, allVars, vars
<1>. QED
  BY <1>1, <1>2, PTL DEF FeedSpec, Spec

\* A page is a part of the changed records that leaves out no earlier one.
LEMMA PageShape ==
  ASSUME NEW records \in Pages
  PROVE  /\ DOMAIN records \subseteq Changed
         /\ records = [a \in DOMAIN records |-> apps[a]]
         /\ \A a \in DOMAIN records, b \in Changed \ DOMAIN records :
              apps[a].changedAt <= apps[b].changedAt
<1> DEFINE at == [a \in Changed |-> apps[a].changedAt]
<1>1. PICK first \in Earliest(at, PageLimit) : records = [a \in first |-> apps[a]]
  BY Zenon DEF Pages
<1>2. first \subseteq Changed
  BY DEF Earliest
<1>3. \A a \in first, b \in Changed \ first : at[a] <= at[b]
  BY DEF Earliest
<1>4. \A a \in first, b \in Changed \ first : apps[a].changedAt <= apps[b].changedAt
  BY <1>2, <1>3
<1>. QED
  BY <1>1, <1>2, <1>4

\* The consumer's position and the page in progress keep their types.
PageType == cursor \in Nat /\ Partial(page, Apps, ApplicationRecord)

\* Latest of a page is a time, no earlier than any of its records.
LEMMA LatestOfPage ==
  ASSUME NEW records, Partial(records, Apps, ApplicationRecord)
  PROVE  /\ Latest(records) \in Nat
         /\ \A a \in DOMAIN records : records[a].changedAt <= Latest(records)
         /\ Latest(records) = NoTime
              \/ \E a \in DOMAIN records : records[a].changedAt = Latest(records)
<1>1. IsFiniteSet(DOMAIN records)
  BY BoundsAssumption, FS_Subset DEF Partial
<1>2. \A a \in DOMAIN records : records[a].changedAt \in Nat
  BY DEF Partial, ApplicationRecord
<1>. QED
  BY <1>1, <1>2, LatestMax

\* One step of the feed keeps them.
LEMMA PageTypeStep == TypeOK /\ PageType /\ [FeedNext]_allVars => PageType'
<1> SUFFICES ASSUME TypeOK, PageType, [FeedNext]_allVars
             PROVE  PageType'
  OBVIOUS
<1>1. Partial(Empty, Apps, ApplicationRecord)
  BY DEF Partial, Empty
<1>2. CASE ReadPage
  <2>1. page' \in Pages /\ cursor' = cursor
    BY <1>2 DEF ReadPage
  <2>2. DOMAIN page' \subseteq DOMAIN apps /\ page' = [a \in DOMAIN page' |-> apps[a]]
    BY <2>1, PageShape DEF Changed
  <2>3. Partial(page', Apps, ApplicationRecord)
    BY <2>2 DEF TypeOK, Partial
  <2>. QED
    BY <2>1, <2>3 DEF PageType
<1>3. CASE JoinPage
  BY <1>1, <1>3, LatestOfPage DEF JoinPage, Receives, PageType
<1>4. CASE LosePage
  BY <1>1, <1>4 DEF LosePage, PageType
<1>5. CASE GracefulRestart
  BY <1>1, <1>5 DEF GracefulRestart, PageType
<1>6. CASE UNCHANGED feedVars
  BY <1>6 DEF feedVars, PageType
<1>. QED
  BY <1>2, <1>3, <1>4, <1>5, <1>6 DEF FeedNext, allVars

\* The position and the page are well typed throughout.
LEMMA PageTypeInv == FeedSpec => []PageType
<1>1. FeedInit => PageType
  BY DEF FeedInit, PageType, NoTime, Partial, Empty
<1>. QED
  BY <1>1, PageTypeStep, FeedImplementsStore, TypeCorrect, PTL DEF FeedSpec

-----------------------------------------------------------------------------
(* What the store does between two requests.                               *)

\* The records an operation changes get the stamp, those before it keep theirs.
Moves ==
  /\ lastChanged' \in Nat /\ lastChanged' >= lastChanged
  /\ clock' \in Nat /\ clock' >= clock
  /\ \E only : \A a \in DOMAIN apps' :
       \/ a \in DOMAIN apps /\ apps'[a] = apps[a]
       \/ /\ a = only
          /\ apps'[a].changedAt = lastChanged'
          /\ lastChanged' > lastChanged /\ lastChanged' >= clock

\* A live report moves the store, and makes it worth a save.
LEMMA LiveUpsertMoves ==
  ASSUME TypeOK, NEW pod \in PodObject, NEW deleted \in BOOLEAN,
         Upsert(pod, deleted, FALSE)
  PROVE  Moves /\ dirty'
<1> DEFINE after == AppAfter(pod, deleted, FALSE)
<1>1. pod.app # NoApp /\ pod.role # NoRole
  BY DEF Upsert
<1>2. PICK victims : apps' = Without(AppsWith(pod, deleted, FALSE), victims)
  BY DEF Upsert
<1>3. \A a \in DOMAIN apps' :
        \/ a = pod.app /\ apps'[a] = after
        \/ a \in DOMAIN apps /\ apps'[a] = apps[a]
  <2>. HIDE DEF after
  <2>1. AppsWith(pod, deleted, FALSE) = Put(apps, pod.app, after)
    BY DEF AppsWith, after
  <2>. QED
    BY <1>2, <2>1 DEF Without, Put
<1>4. Stamp \in Nat /\ Stamp > lastChanged /\ Stamp >= clock
  BY DEF Stamp, TypeOK
<1>5. lastChanged' = IF LifecycleChanged(pod, deleted) THEN Stamp ELSE lastChanged
  BY DEF Upsert
<1>6. dirty'
  <2>1. \A evicted : Mutates(pod, FALSE, evicted)
    BY DEF Mutates
  <2>2. \E evicted : dirty' = (dirty \/ Mutates(pod, FALSE, evicted))
    BY Zenon DEF Upsert
  <2>. QED
    BY <2>1, <2>2
<1>7. clock' = clock /\ clock \in Nat /\ lastChanged \in Nat
  BY DEF Upsert, TypeOK
<1>8. CASE LifecycleChanged(pod, deleted)
  <2>1. after.changedAt = Stamp
    BY <1>1, <1>8, ObservedType DEF AppAfter, ApplicationRecord
  <2>. HIDE DEF after
  <2>. QED
    BY <1>3, <1>4, <1>5, <1>6, <1>7, <1>8, <2>1 DEF Moves
<1>9. CASE ~LifecycleChanged(pod, deleted)
  <2>1. pod.app \in DOMAIN apps
    BY <1>9 DEF LifecycleChanged
  <2>2. after = apps[pod.app]
    BY <1>1, <1>9, <2>1, LiveStamp
  <2>. HIDE DEF after
  <2>. QED
    BY <1>3, <1>5, <1>6, <1>7, <1>9, <2>1, <2>2 DEF Moves
<1>. QED
  BY <1>8, <1>9

\* A store that is not dirty is the file: without a startup snapshot whatever
\* happens is worth a save.
CleanExactly == ~dirty => file = Snapshot

\* So does every step of the process when nothing is listed at startup.
LEMMA OperateMoves ==
  ASSUME OnlyLive, TypeOK, Operate
  PROVE  Moves /\ (CleanExactly => CleanExactly')
<1>1. ASSUME NEW pod \in WatchedPods, NEW deleted \in BOOLEAN, UpsertPod(pod, deleted)
      PROVE  Moves /\ (CleanExactly => CleanExactly')
  BY <1>1, PodsAssumption, LiveUpsertMoves DEF UpsertPod, CleanExactly, Pods
<1>2. CASE Synced
  BY <1>2 DEF Synced, Moves, CleanExactly, Snapshot, TypeOK
<1>3. CASE Save
  BY <1>3 DEF Save, Moves, CleanExactly, Snapshot, TypeOK
<1>4. CASE Tick
  BY <1>4 DEF Tick, Moves, CleanExactly, Snapshot, TypeOK
<1>. QED
  BY <1>1, <1>2, <1>3, <1>4 DEF Operate, OnlyLive

\* A graceful restart brings back what was there, and goes on past every stamp.
LEMMA GracefulKeeps ==
  ASSUME TypeOK, CleanExactly, GracefulRestart
  PROVE  /\ apps' = apps /\ pods' = pods /\ file' = file /\ dirty' = FALSE
         /\ lastChanged' = Latest(apps)
         /\ clock' \in Nat /\ clock' > lastChanged /\ clock' >= clock
<1>1. file.apps = apps /\ file.pods = pods
  BY DEF GracefulRestart, CleanExactly, Snapshot
<1>. QED
  BY <1>1 DEF GracefulRestart, Restart, TypeOK

-----------------------------------------------------------------------------
(* Delivery.                                                               *)

\* A time no later change will be stamped with.
Past(t) == t <= lastChanged \/ t < clock

\* Every record has a changedAt of its own, and lastChanged is past them all.
StampsBehind ==
  /\ \A a \in DOMAIN apps : apps[a].changedAt <= lastChanged
  /\ \A a, b \in DOMAIN apps : a # b => apps[a].changedAt # apps[b].changedAt

\* The consumer has the present record of what its cursor has passed.
Delivered ==
  /\ Past(cursor)
  /\ \A a \in DOMAIN apps : apps[a].changedAt <= cursor /\ Matches(apps[a]) =>
       a \in DOMAIN seen /\ seen[a].record = apps[a]

\* Whatever happened since the page was read: a record is in it as it is now, or
\* its change comes after it, or the consumer had it or does not want it.
PageHolds ==
  page # Empty =>
    /\ Past(Latest(page))
    /\ \A a \in DOMAIN page : page[a].changedAt > cursor
    /\ \A a \in DOMAIN apps :
         \/ a \in DOMAIN page /\ page[a] = apps[a]
         \/ apps[a].changedAt > Latest(page)
         \/ a \notin DOMAIN page /\ (apps[a].changedAt <= cursor \/ ~Matches(apps[a]))

FeedInv == CleanExactly /\ StampsBehind /\ Delivered /\ PageHolds

\* The stamps, as numbers.
LEMMA StampType ==
  TypeOK => /\ \A a \in DOMAIN apps : apps[a].changedAt \in Nat
            /\ lastChanged \in Nat /\ clock \in Nat
BY DEF TypeOK, Partial, ApplicationRecord

\* What the store does keeps the invariant.
LEMMA OperateFeed ==
  ASSUME OnlyLive, TypeOK, PageType, FeedInv, Operate, UNCHANGED feedVars
  PROVE  FeedInv'
<1>1. Moves /\ CleanExactly'
  BY OperateMoves DEF FeedInv
<1>2. cursor' = cursor /\ seen' = seen /\ page' = page /\ wanted' = wanted
  BY DEF feedVars
<1>3. PICK only : \A a \in DOMAIN apps' :
        \/ a \in DOMAIN apps /\ apps'[a] = apps[a]
        \/ /\ a = only
           /\ apps'[a].changedAt = lastChanged'
           /\ lastChanged' > lastChanged /\ lastChanged' >= clock
  BY <1>1 DEF Moves
<1>4. /\ lastChanged \in Nat /\ clock \in Nat /\ cursor \in Nat
      /\ \A a \in DOMAIN apps : apps[a].changedAt \in Nat
      /\ lastChanged' \in Nat /\ lastChanged' >= lastChanged
      /\ clock' \in Nat /\ clock' >= clock
  BY <1>1, StampType DEF Moves, PageType
<1>5. ASSUME NEW t \in Nat, Past(t)
      PROVE  /\ t <= lastChanged' \/ t < clock'
             /\ \A a \in DOMAIN apps' :
                  \/ a \in DOMAIN apps /\ apps'[a] = apps[a]
                  \/ apps'[a].changedAt > t
  BY <1>3, <1>4, <1>5 DEF Past
<1>6. StampsBehind'
  BY <1>3, <1>4 DEF FeedInv, StampsBehind
<1>7. Delivered'
  <2>1. Past(cursor)
    BY DEF FeedInv, Delivered
  <2>2. Past(cursor)'
    BY <1>2, <1>4, <1>5, <2>1 DEF Past
  <2>3. ASSUME NEW a \in DOMAIN apps', apps'[a].changedAt <= cursor, Matches(apps[a])'
        PROVE  a \in DOMAIN seen /\ seen[a].record = apps'[a]
    <3>1. a \in DOMAIN apps /\ apps'[a] = apps[a]
      BY <1>3, <1>4, <2>1, <2>3 DEF Past
    <3>. QED
      BY <1>2, <2>3, <3>1 DEF FeedInv, Delivered, Matches
  <2>. QED
    BY <1>2, <2>2, <2>3 DEF Delivered
<1>8. PageHolds'
  <2> SUFFICES ASSUME page # Empty
               PROVE  /\ Past(Latest(page))'
                      /\ \A a \in DOMAIN apps' :
                           \/ a \in DOMAIN page /\ page[a] = apps'[a]
                           \/ apps'[a].changedAt > Latest(page)
                           \/ /\ a \notin DOMAIN page
                              /\ apps'[a].changedAt <= cursor \/ ~Matches(apps'[a])
    BY <1>2 DEF FeedInv, PageHolds, Matches
  <2>1. Latest(page) \in Nat /\ Past(Latest(page))
    BY LatestOfPage DEF PageType, FeedInv, PageHolds
  <2>2. Latest(page)' = Latest(page)
    BY <1>2 DEF Latest
  <2>3. Past(Latest(page))'
    BY <1>5, <2>1, <2>2 DEF Past
  <2>. QED
    BY <1>5, <2>1, <2>3 DEF FeedInv, PageHolds
<1>. QED
  BY <1>1, <1>6, <1>7, <1>8 DEF FeedInv

\* A page is read: what it leaves out comes after it, as no two records have the
\* same changedAt.
LEMMA ReadFeed ==
  ASSUME TypeOK, PageType, FeedInv, ReadPage
  PROVE  FeedInv'
<1>1. /\ page' \in Pages
      /\ UNCHANGED <<apps, pods, lastChanged, dirty, file, clock, cursor, seen, wanted>>
  BY DEF ReadPage, vars
<1>2. /\ DOMAIN page' \subseteq Changed
      /\ page' = [a \in DOMAIN page' |-> apps[a]]
      /\ \A a \in DOMAIN page', b \in Changed \ DOMAIN page' :
           apps[a].changedAt <= apps[b].changedAt
  BY <1>1, PageShape
<1>3. Partial(page', Apps, ApplicationRecord)
  BY <1>2 DEF TypeOK, Partial, Changed
<1>4. /\ Latest(page') \in Nat
      /\ Latest(page') = NoTime \/ \E a \in DOMAIN page' : page'[a].changedAt = Latest(page')
  BY <1>3, LatestOfPage
<1>5. StampsBehind' /\ Delivered' /\ CleanExactly'
  BY <1>1 DEF FeedInv, StampsBehind, Delivered, CleanExactly, Past, Matches, Snapshot
<1>6. /\ \A a \in DOMAIN apps : apps[a].changedAt \in Nat
      /\ lastChanged \in Nat /\ cursor \in Nat
  BY StampType DEF PageType
<1>7. ASSUME NEW top \in DOMAIN page', page'[top].changedAt = Latest(page')
      PROVE  PageHolds'
  <2>1. top \in DOMAIN apps /\ apps[top].changedAt = Latest(page')
    BY <1>2, <1>7 DEF Changed
  <2>2. Latest(page') <= lastChanged
    BY <2>1 DEF FeedInv, StampsBehind
  <2>3. \A a \in DOMAIN page' : page'[a].changedAt > cursor
    BY <1>2 DEF Changed
  <2>4. ASSUME NEW a \in DOMAIN apps
        PROVE  \/ a \in DOMAIN page' /\ page'[a] = apps[a]
               \/ apps[a].changedAt > Latest(page')
               \/ /\ a \notin DOMAIN page'
                  /\ apps[a].changedAt <= cursor \/ ~Matches(apps[a])
    <3>1. CASE a \in DOMAIN page'
      BY <1>2, <3>1
    <3>2. CASE a \notin DOMAIN page' /\ a \in Changed
      <4>1. apps[top].changedAt <= apps[a].changedAt
        BY <1>2, <1>7, <3>2
      <4>2. apps[top].changedAt # apps[a].changedAt
        BY <1>7, <2>1, <3>2 DEF FeedInv, StampsBehind
      <4>. QED
        BY <1>6, <2>1, <4>1, <4>2
    <3>3. CASE a \notin DOMAIN page' /\ a \notin Changed
      BY <1>6, <3>3 DEF Changed
    <3>. QED
      BY <3>1, <3>2, <3>3
  <2>5. Past(Latest(page))'
    BY <1>1, <2>2 DEF Past, Latest
  <2>. QED
    BY <1>1, <2>3, <2>4, <2>5 DEF PageHolds, Matches, Latest
<1>8. ASSUME DOMAIN page' = {}
      PROVE  PageHolds'
  <2>1. page' = Empty
    BY <1>2, <1>8 DEF Empty
  <2>. QED
    BY <2>1 DEF PageHolds, Empty
<1>9. ASSUME \A a \in DOMAIN page' : page'[a].changedAt # Latest(page')
      PROVE  PageHolds'
  <2>1. \A a \in DOMAIN page' : page'[a].changedAt > cursor
    BY <1>2 DEF Changed
  <2>2. \A a \in DOMAIN page' : page'[a].changedAt <= Latest(page')
    BY <1>3, LatestOfPage
  <2>3. Latest(page') = 0
    BY <1>4, <1>9 DEF NoTime
  <2>4. DOMAIN page' = {}
    <3>1. \A a \in DOMAIN page' : page'[a].changedAt \in Nat
      BY <1>3 DEF Partial, ApplicationRecord
    <3> SUFFICES ASSUME NEW a \in DOMAIN page'
                 PROVE  FALSE
      OBVIOUS
    <3>2. page'[a].changedAt > cursor /\ page'[a].changedAt <= 0
      BY <2>1, <2>2, <2>3
    <3>. QED
      BY <1>6, <3>1, <3>2
  <2>. QED
    BY <1>8, <2>4
<1>10. PageHolds'
  BY <1>7, <1>9
<1>. QED
  BY <1>5, <1>10 DEF FeedInv

\* The page arrives.
LEMMA JoinFeed ==
  ASSUME TypeOK, PageType, FeedInv, JoinPage
  PROVE  FeedInv'
<1>1. /\ page # Empty /\ page' = Empty /\ cursor' = Latest(page)
      /\ UNCHANGED <<apps, pods, lastChanged, dirty, file, clock, wanted>>
  BY DEF JoinPage, Receives, vars
<1>2. \A a \in DOMAIN seen \cup DOMAIN page :
        /\ a \in DOMAIN seen'
        /\ a \in DOMAIN page => seen'[a].record = page[a]
        /\ a \notin DOMAIN page => seen'[a] = seen[a]
  BY DEF JoinPage, Receives, Views
<1>3. /\ \A a \in DOMAIN apps : apps[a].changedAt \in Nat
      /\ cursor \in Nat /\ Latest(page) \in Nat
      /\ \A a \in DOMAIN page : /\ page[a].changedAt <= Latest(page)
                                /\ page[a].changedAt \in Nat
  BY StampType, LatestOfPage DEF PageType, Partial, ApplicationRecord
<1>4. StampsBehind' /\ CleanExactly' /\ PageHolds'
  BY <1>1 DEF FeedInv, StampsBehind, CleanExactly, PageHolds, Snapshot
<1>5. Past(cursor)'
  BY <1>1 DEF FeedInv, PageHolds, Past
<1>6. ASSUME NEW a \in DOMAIN apps, apps[a].changedAt <= Latest(page), Matches(apps[a])
      PROVE  a \in DOMAIN seen' /\ seen'[a].record = apps[a]
  <2>1. CASE a \in DOMAIN page
    <3>1. page[a] = apps[a]
      BY <1>1, <1>3, <1>6, <2>1 DEF FeedInv, PageHolds
    <3>. QED
      BY <1>2, <2>1, <3>1
  <2>2. CASE a \notin DOMAIN page
    <3>1. apps[a].changedAt <= cursor
      BY <1>1, <1>3, <1>6, <2>2 DEF FeedInv, PageHolds
    <3>. QED
      BY <1>2, <1>6, <2>2, <3>1 DEF FeedInv, Delivered
  <2>. QED
    BY <2>1, <2>2
<1>7. Delivered'
  BY <1>1, <1>5, <1>6 DEF Delivered, Matches
<1>. QED
  BY <1>4, <1>7 DEF FeedInv

\* A graceful restart comes back with the same records.
LEMMA RestartFeed ==
  ASSUME TypeOK, PageType, FeedInv, GracefulRestart
  PROVE  FeedInv'
<1>1. /\ apps' = apps /\ pods' = pods /\ file' = file /\ dirty' = FALSE
      /\ lastChanged' = Latest(apps)
      /\ clock' \in Nat /\ clock' > lastChanged /\ clock' >= clock
      /\ cursor' = cursor /\ seen' = seen /\ page' = Empty /\ wanted' = wanted
  BY GracefulKeeps DEF FeedInv, GracefulRestart
<1>2. CleanExactly'
  BY <1>1 DEF FeedInv, CleanExactly, GracefulRestart, Snapshot
<1>3. StampsBehind'
  <2>1. \A a \in DOMAIN apps : apps[a].changedAt <= Latest(apps)
    BY LatestOfPage DEF TypeOK
  <2>. QED
    BY <1>1, <2>1 DEF FeedInv, StampsBehind
<1>4. Past(cursor)'
  BY <1>1, StampType DEF FeedInv, Delivered, Past, PageType
<1>5. Delivered' /\ PageHolds'
  BY <1>1, <1>4 DEF FeedInv, Delivered, PageHolds, Matches
<1>. QED
  BY <1>2, <1>3, <1>5 DEF FeedInv

\* One step keeps the invariant.
LEMMA FeedStep ==
  ASSUME OnlyLive
  PROVE  TypeOK /\ PageType /\ FeedInv /\ [FeedNext]_allVars => FeedInv'
<1> SUFFICES ASSUME TypeOK, PageType, FeedInv, [FeedNext]_allVars
             PROVE  FeedInv'
  OBVIOUS
<1>1. CASE LosePage
  BY <1>1 DEF LosePage, vars, FeedInv, CleanExactly, StampsBehind, Delivered, PageHolds,
              Past, Matches, Snapshot
<1>2. CASE UNCHANGED allVars
  BY <1>2 DEF allVars, vars, feedVars, FeedInv, CleanExactly, StampsBehind, Delivered,
              PageHolds, Past, Matches, Snapshot, Latest
<1>. QED
  BY <1>1, <1>2, OperateFeed, ReadFeed, JoinFeed, RestartFeed DEF FeedNext

\* The invariant of delivery.
LEMMA FeedInvariant ==
  ASSUME OnlyLive
  PROVE  FeedSpec => []FeedInv
<1>1. FeedInit => FeedInv
  BY DEF FeedInit, Init, FeedInv, CleanExactly, StampsBehind, Delivered, PageHolds, Past,
         NoTime, Empty, Snapshot
<1>. QED
  BY <1>1, FeedStep, FeedImplementsStore, TypeCorrect, PageTypeInv, PTL DEF FeedSpec

\* The consumer has received the present lifecycle of every application its
\* cursor has passed, over pages of any size, lost answers, changes in the middle
\* of a request, eviction and graceful restarts.
THEOREM FeedSkipsNothing ==
  ASSUME OnlyLive
  PROVE  FeedSpec => []FeedNeverSkips
<1>1. FeedInv => FeedNeverSkips
  BY DEF FeedInv, Delivered, FeedNeverSkips
<1>. QED
  BY <1>1, FeedInvariant, PTL

-----------------------------------------------------------------------------
(* Views that mix two states of an application.                            *)

\* An application is given one driver pod.
OneDriver == \A p, q \in Pods :
  p.role = "driver" /\ q.role = "driver" /\ p.app = q.app => p.uid = q.uid

\* A record is that of some pod, and shows the phase it keeps.
FromPods(ps) ==
  \A k \in DOMAIN ps :
    /\ \E pod \in Pods : pod.uid = k /\ pod.app = ps[k].app /\ pod.role = ps[k].role
    /\ ps[k].status \in {"deleted", StatusOfPhase[ps[k].phase]}

PodsTrue == FromPods(pods) /\ FromPods(file.pods)

\* One step keeps the records true to the pods.
LEMMA PodsTrueStep == PodsTrue /\ [Next]_vars => PodsTrue'
<1> SUFFICES ASSUME PodsTrue, [Next]_vars
             PROVE  PodsTrue'
  OBVIOUS
<1>1. ASSUME NEW pod \in Pods, NEW deleted \in BOOLEAN, NEW bootstrap \in BOOLEAN,
             Upsert(pod, deleted, bootstrap)
      PROVE  PodsTrue'
  <2> DEFINE ps == PodsWith(pod, deleted)
  <2>1. PICK owned, gone : pods' = Without(Without(ps, owned), gone)
    BY <1>1, UpsertSteps
  <2>2. \A k \in DOMAIN ps : (k \in DOMAIN pods /\ ps[k] = pods[k]) \/ k = pod.uid
    BY DEF PodsWith, Put
  <2>3. /\ ps[pod.uid].app = pod.app /\ ps[pod.uid].role = pod.role
        /\ ps[pod.uid].status \in {"deleted", StatusOfPhase[ps[pod.uid].phase]}
    BY DEF PodsWith, Put, PodAfter, PodStatus
  <2>. HIDE DEF ps
  <2>4. \A k \in DOMAIN pods' : k \in DOMAIN ps /\ pods'[k] = ps[k]
    BY <2>1 DEF Without
  <2>5. FromPods(pods')
    BY <2>2, <2>3, <2>4 DEF PodsTrue, FromPods
  <2>6. file' = file
    BY <1>1 DEF Upsert
  <2>. QED
    BY <2>5, <2>6 DEF PodsTrue, FromPods
<1>2. CASE Save
  <2>1. file'.pods = pods
    BY <1>2 DEF Save, Snapshot
  <2>. QED
    BY <1>2, <2>1 DEF PodsTrue, FromPods, Save
<1>3. CASE Restart
  BY <1>3 DEF PodsTrue, FromPods, Restart
<1>4. CASE Synced \/ Tick \/ UNCHANGED vars
  BY <1>4 DEF PodsTrue, FromPods, Synced, Tick, vars
<1>. QED
  BY <1>1, <1>2, <1>3, <1>4 DEF Next, Operate, UpsertPod, BootstrapPod, Pods

\* Every record of a pod is true to some pod.
LEMMA PodsTrueInv == Spec => []PodsTrue
<1>1. Init => PodsTrue
  BY DEF Init, PodsTrue, FromPods, Empty
<1>. QED
  BY <1>1, PodsTrueStep, PTL DEF Spec

\* A view joined in one critical section shows the phase its status came from.
LEMMA PresentViewWhole ==
  ASSUME OneDriver, PodsTrue, DriverJoin, NEW a \in Apps,
         NEW view, view.record = apps[a], view.driverPhase = DriverPhase(a)
  PROVE  ~Torn(view)
<1> SUFFICES ASSUME DriverPhase(a) # ""
             PROVE  apps[a].status \in {"deleted", StatusOfPhase[DriverPhase(a)]}
  BY DEF Torn
<1> DEFINE k == driverByApp[a]
<1>1. a \in DOMAIN driverByApp /\ k \in DOMAIN pods /\ DriverPhase(a) = pods[k].phase
  BY DEF DriverPhase
<1>. HIDE DEF k
<1>2. k \in DriverRecords(a)
  BY <1>1 DEF DriverJoin, k
<1>3. ASSUME NEW j \in DriverRecords(a)
      PROVE  \E pod \in Pods : pod.uid = j /\ pod.app = a /\ pod.role = "driver"
  <2>1. j \in DOMAIN pods /\ pods[j].app = a /\ pods[j].role = "driver"
    BY DEF DriverRecords
  <2>2. PICK pod \in Pods :
          pod.uid = j /\ pod.app = pods[j].app /\ pod.role = pods[j].role
    BY <2>1 DEF PodsTrue, FromPods
  <2>3. pod.app = a /\ pod.role = "driver"
    BY <2>1, <2>2
  <2>. QED
    BY <2>2, <2>3
<1>4. ASSUME NEW j \in DriverRecords(a)
      PROVE  j = k
  <2>1. PICK p \in Pods : p.uid = j /\ p.app = a /\ p.role = "driver"
    BY <1>3
  <2>2. PICK q \in Pods : q.uid = k /\ q.app = a /\ q.role = "driver"
    BY <1>2, <1>3
  <2>. QED
    BY <2>1, <2>2 DEF OneDriver
<1>5. k \in Uids
  <2>1. PICK q \in Pods : q.uid = k
    BY <1>2, <1>3
  <2>. QED
    BY <2>1, PodsAssumption DEF PodObject
<1>6. apps[a].status = pods[k].status
  <2>1. DriverRecords(a) = {k}
    BY <1>2, <1>4
  <2>. QED
    BY <1>5, <2>1 DEF DriverJoin
<1>. QED
  BY <1>1, <1>6 DEF PodsTrue, FromPods

\* One step of the feed leaves no torn view as the last word.
LEMMA TornStep ==
  ASSUME OnlyLive, OneDriver
  PROVE  /\ TypeOK /\ PageType /\ FeedInv /\ PodsTrue /\ DriverJoin
         /\ TornViewsSuperseded /\ [FeedNext]_allVars
         => TornViewsSuperseded'
<1> SUFFICES ASSUME TypeOK, PageType, FeedInv, PodsTrue, DriverJoin,
                    TornViewsSuperseded, [FeedNext]_allVars
             PROVE  TornViewsSuperseded'
  OBVIOUS
<1>1. CASE Operate /\ UNCHANGED feedVars
  <2>1. PICK only : \A a \in DOMAIN apps' :
          \/ a \in DOMAIN apps /\ apps'[a] = apps[a]
          \/ /\ apps'[a].changedAt = lastChanged'
             /\ lastChanged' > lastChanged /\ lastChanged' >= clock
    BY <1>1, OperateMoves DEF Moves
  <2>2. /\ lastChanged \in Nat /\ clock \in Nat /\ cursor \in Nat /\ lastChanged' \in Nat
        /\ cursor <= lastChanged \/ cursor < clock
    BY <1>1, OperateMoves, StampType DEF Moves, PageType, FeedInv, Delivered, Past
  <2>3. \A a \in DOMAIN apps' :
          \/ a \in DOMAIN apps /\ apps'[a] = apps[a]
          \/ apps'[a].changedAt > cursor
    BY <2>1, <2>2
  <2>. QED
    BY <1>1, <2>3 DEF TornViewsSuperseded, feedVars, Matches, Torn
<1>2. CASE JoinPage
  <2>1. /\ cursor' = Latest(page) /\ page # Empty
        /\ apps' = apps /\ pods' = pods /\ driverByApp' = driverByApp /\ wanted' = wanted
    BY <1>2 DEF JoinPage, Receives, vars
  <2>2. /\ DOMAIN seen' = DOMAIN seen \cup DOMAIN page
        /\ \A a \in DOMAIN page :
             seen'[a] = [record |-> page[a], driverPhase |-> DriverPhase(a)]
        /\ \A a \in DOMAIN seen : a \notin DOMAIN page => seen'[a] = seen[a]
    BY <1>2 DEF JoinPage, Receives, Views
  <2>3. DOMAIN apps \subseteq Apps /\ Latest(page) \in Nat /\ cursor \in Nat
    BY LatestOfPage DEF TypeOK, Partial, PageType
  <2>4. ASSUME NEW a \in DOMAIN seen' \cap DOMAIN apps, Torn(seen'[a]), Matches(apps[a])
        PROVE  apps[a].changedAt > Latest(page)
    <3>1. CASE a \in DOMAIN page
      <4>1. page[a] # apps[a]
        <5>1. seen'[a].record = page[a] /\ seen'[a].driverPhase = DriverPhase(a)
          BY <2>2, <3>1
        <5>2. page[a] = apps[a] => ~Torn(seen'[a])
          BY <2>3, <5>1, PresentViewWhole
        <5>. QED
          BY <2>4, <5>2
      <4>2. \A b \in DOMAIN apps :
              \/ b \in DOMAIN page /\ page[b] = apps[b]
              \/ apps[b].changedAt > Latest(page)
              \/ b \notin DOMAIN page
        BY <2>1 DEF FeedInv, PageHolds
      <4>. QED
        BY <3>1, <4>1, <4>2
    <3>2. CASE a \notin DOMAIN page
      <4>1. a \in DOMAIN seen /\ seen'[a] = seen[a]
        BY <2>2, <3>2
      <4>2. apps[a].changedAt > cursor
        BY <2>4, <4>1 DEF TornViewsSuperseded
      <4>. QED
        BY <2>1, <2>3, <2>4, <3>2, <4>2, StampType DEF FeedInv, PageHolds
    <3>. QED
      BY <3>1, <3>2
  <2>. QED
    BY <2>1, <2>4 DEF TornViewsSuperseded, Matches, Torn
<1>3. CASE ReadPage \/ LosePage \/ UNCHANGED allVars
  BY <1>3 DEF ReadPage, LosePage, allVars, vars, feedVars, TornViewsSuperseded, Matches, Torn
<1>4. CASE GracefulRestart
  <2>1. apps' = apps
    BY <1>4, GracefulKeeps DEF FeedInv
  <2>. QED
    BY <1>4, <2>1 DEF GracefulRestart, TornViewsSuperseded, Matches, Torn
<1>. QED
  BY <1>1, <1>2, <1>3, <1>4 DEF FeedNext

\* A view that joins a record with the driver phase of a later change is never
\* the last word of the feed: GetChanges holds a newer record of the application
\* past the consumer's cursor.
THEOREM TornViewsAreSuperseded ==
  ASSUME OnlyLive, OneDriver
  PROVE  FeedSpec => []TornViewsSuperseded
<1>1. FeedInit => TornViewsSuperseded
  BY DEF FeedInit, TornViewsSuperseded, Empty
<1>. QED
  BY <1>1, TornStep, FeedInvariant, FeedImplementsStore, TypeCorrect, PageTypeInv,
     PodsTrueInv, DriversJoin, PTL DEF FeedSpec

================================================================================
