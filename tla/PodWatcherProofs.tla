--------------------------- MODULE PodWatcherProofs ---------------------------
(***************************************************************************)
(* Proofs about PodWatcher.  What is proved of the informer and of the     *)
(* store alone is used here through P and S: a step of the process is a    *)
(* step of Informer, one operation of the store, or the end of the process.*)
(***************************************************************************)
EXTENDS PodWatcher, FiniteSetTheorems, TLAPS

\* Informer with what is proved of it.
P == INSTANCE InformerProofs

\* The definitions of Informer are the same under both names.
LEMMA SameInformer ==
  /\ I!Init <=> P!Init
  /\ I!Compact <=> P!Compact
  /\ I!OtherObject <=> P!OtherObject
  /\ \A n : I!Create(n) <=> P!Create(n)
  /\ \A pod : I!Modify(pod) <=> P!Modify(pod)
  /\ \A pod : I!Delete(pod) <=> P!Delete(pod)
  /\ I!List <=> P!List
  /\ I!Seed <=> P!Seed
  /\ I!Reconcile <=> P!Reconcile
  /\ I!OpenWatch <=> P!OpenWatch
  /\ I!Drop <=> P!Drop
  /\ I!WatchGone <=> P!WatchGone
  /\ I!Event <=> P!Event
  /\ I!Bookmark <=> P!Bookmark
  /\ I!SaveBegins <=> P!SaveBegins
  /\ I!SaveEnds <=> P!SaveEnds
  /\ I!SaveFails <=> P!SaveFails
  /\ I!SaveLands <=> P!SaveLands
  /\ I!Current = P!Current
  /\ I!News = P!News
  /\ I!Vanished = P!Vanished
  /\ I!Unsent = P!Unsent
  /\ I!NextEvent = P!NextEvent
  /\ I!Latest = P!Latest
  /\ \A pod : I!Known(pod) <=> P!Known(pod)
  /\ \A r : I!Object(r) = P!Object(r)
  /\ \A pod, d : I!Entry(pod, d) = P!Entry(pod, d)
  /\ \A u, rv : I!HadEvent(u, rv) <=> P!HadEvent(u, rv)
  /\ \A u, rv : I!LastEvent(u, rv) = P!LastEvent(u, rv)
  /\ \A u, rv : I!GoneBy(u, rv) <=> P!GoneBy(u, rv)
  /\ I!Uids = P!Uids
  /\ I!TypeOK <=> P!TypeOK
  /\ I!LiveKnown <=> P!LiveKnown
BY DEF I!Init, P!Init, I!NoRV, P!NoRV, I!Empty, P!Empty, I!NoList, P!NoList, I!Compact,
       P!Compact, I!Latest, P!Latest, I!watcher, P!watcher, I!records, P!records,
       I!resume, P!resume, I!bounds, P!bounds, I!OtherObject, P!OtherObject,
       I!Happens, P!Happens, I!Create, P!Create, I!Current, P!Current, I!Object,
       P!Object, I!Modify, P!Modify, I!Delete, P!Delete, I!List, P!List, I!cluster,
       P!cluster, I!Seed, P!Seed, I!Entry, P!Entry, I!ByName, P!ByName,
       I!SeedPosition, P!SeedPosition, I!SetRV, P!SetRV, I!Reconcile, P!Reconcile,
       I!News, P!News, I!Known, P!Known, I!Vanished, P!Vanished, I!TakenOver,
       P!TakenOver, I!OpenWatch, P!OpenWatch, I!ClearRV, P!ClearRV, I!Drop, P!Drop,
       I!WatchGone, P!WatchGone, I!Event, P!Event, I!Unsent, P!Unsent, I!NextEvent,
       P!NextEvent, I!Forget, P!Forget, I!Reported, P!Reported, I!Put, P!Put,
       I!Without, P!Without, I!Observe, P!Observe, I!Bookmark, P!Bookmark,
       I!SaveBegins, P!SaveBegins, I!SaveEnds, P!SaveEnds, I!SaveFails,
       P!SaveFails, I!SaveLands, P!SaveLands, I!Sent, P!Sent, I!Landed, P!Landed,
       I!NoLate, P!NoLate, I!GoneBy, P!GoneBy, I!HadEvent, P!HadEvent, I!LastEvent,
       P!LastEvent, I!LiveKnown, P!LiveKnown, I!TypeOK, P!TypeOK, I!RVs, P!RVs,
       I!Objects, P!Objects, I!Uids, P!Uids

-----------------------------------------------------------------------------
(* The informer of the process.                                            *)

\* A step that is one of the informer alone.
LEMMA InformerMoves ==
  ASSUME Cluster \/ Watch \/ Advance \/ SavePosition
  PROVE  P!Next
<1>1. CASE Cluster
  BY <1>1, SameInformer DEF Cluster, P!Next
<1>2. CASE Watch
  BY <1>2, SameInformer DEF Watch, P!Next
<1>3. CASE Advance
  BY <1>3, SameInformer DEF Advance, P!Next
<1>4. CASE SavePosition
  BY <1>4, SameInformer DEF SavePosition, P!Next
<1>. QED
  BY <1>1, <1>2, <1>3, <1>4

\* A step that leaves the informer alone.
LEMMA InformerRests ==
  ASSUME Report \/ Poll \/ UNCHANGED vars
  PROVE  UNCHANGED P!vars
BY DEF Report, Poll, vars, informerVars, watcherVars, savedVars, P!vars, P!cluster,
       P!watcher, P!records, P!resume, P!bounds

\* What the callbacks about some objects are.
LEMMA CallsOf ==
  ASSUME NEW objects, NEW deleted, NEW call \in Calls(objects, deleted)
  PROVE  /\ call.object \in objects /\ call.deleted = deleted
         /\ call = [object |-> call.object, deleted |-> deleted]
<1>1. PICK o \in objects : call = [object |-> o, deleted |-> deleted]
  BY Zenon DEF Calls
<1>2. call.object = o /\ call.deleted = deleted
  BY <1>1, Zenon
<1>. QED
  BY <1>1, <1>2, Zenon

\* The callback is made of a version the pod had, and as a deletion only of a pod
\* that is gone.
CallOK(call) ==
  /\ call.object.rv \in 1..P!Latest
  /\ call.object = P!ObjectOf(history, call.object.rv)
  /\ P!OfPod(history, call.object.rv)
  /\ call.deleted \in BOOLEAN
  /\ call.deleted => ~P!Alive(history, call.object.uid, P!Latest)

\* The callbacks of a step are of that kind, and one of each pod.
LEMMA CallsAreOK ==
  ASSUME P!WatchInv
  PROVE  /\ \A call \in StepCalls : CallOK(call)
         /\ \A c, d \in StepCalls : c.object.uid = d.object.uid => c = d
<1> USE PodWatcherAssumption
<1> DEFINE Once(calls) == \A c, d \in calls : c.object.uid = d.object.uid => c = d
<1>1. P!Latest \in Nat /\ P!WellFormed(history)
  BY DEF P!WatchInv, P!WellFormed, P!Latest
<1>2. ASSUME stage = "listed", NEW c, c.object \in list.pods, c.deleted = FALSE
      PROVE  CallOK(c)
  <2>1. /\ c.object.rv \in 1..P!Latest /\ P!OfPod(history, c.object.rv)
        /\ c.object = P!ObjectOf(history, c.object.rv)
    BY <1>2, P!ListedFacts
  <2>. QED
    BY <1>2, <2>1, Zenon DEF CallOK
<1>3. ASSUME stage = "listed", NEW o \in P!Vanished
      PROVE  /\ \A c : c.object = o /\ c.deleted = TRUE => CallOK(c)
             /\ \A p \in list.pods : p.uid # o.uid
             /\ \A p \in P!Vanished : p.uid = o.uid => p = o
  <2>1. PICK n \in DOMAIN cache \ {p.name : p \in list.pods} : o = cache[n]
    BY DEF P!Vanished
  <2>2. /\ cache[n].rv \in 1..P!Latest /\ cache[n] = P!ObjectOf(history, cache[n].rv)
        /\ P!OfPod(history, cache[n].rv)
    BY DEF P!WatchInv, P!CacheOK
  <2>3. ~P!Alive(history, cache[n].uid, list.rv)
    BY <1>3, P!CacheAgainstList
  <2>4. ~P!Alive(history, cache[n].uid, P!Latest)
    BY <1>1, <1>3, <2>3, P!AliveBefore DEF P!WatchInv, P!ListOK, P!PositionOK
  <2>5. \A p \in list.pods : p.uid # o.uid
    BY <1>3, <2>1, P!CacheAgainstList
  <2>6. \A p \in P!Vanished : p.uid = o.uid => p = o
    BY <1>3, <2>1, P!CacheAgainstList DEF P!Vanished
  <2>. QED
    BY <2>1, <2>2, <2>4, <2>5, <2>6, Zenon DEF CallOK
<1>4. CASE stage = "listed" /\ ~synced
  <2>1. StepCalls = Calls(list.pods, FALSE)
    BY <1>4 DEF StepCalls
  <2>2. \A o, p \in list.pods : o.uid = p.uid => o = p
    BY <1>4, P!ListedOnce
  <2>3. \A c \in StepCalls : /\ c.object \in list.pods /\ c.deleted = FALSE
                             /\ c = [object |-> c.object, deleted |-> FALSE]
    BY <2>1, CallsOf, Zenon
  <2>4. \A c \in StepCalls : CallOK(c)
    BY <1>2, <1>4, <2>3, Zenon
  <2>5. \A c, d \in StepCalls : c.object.uid = d.object.uid => c = d
    BY <2>2, <2>3, Zenon
  <2>. QED
    BY <2>4, <2>5
<1>5. CASE stage = "listed" /\ synced
  <2>1. StepCalls = Calls(P!News, FALSE) \cup Calls(P!Vanished, TRUE)
    BY <1>5, SameInformer DEF StepCalls
  <2>2. P!News \subseteq list.pods
    BY DEF P!News
  <2>3. \A o, p \in list.pods : o.uid = p.uid => o = p
    BY <1>5, P!ListedOnce
  <2>4. \A c \in StepCalls :
          \/ c.object \in P!News /\ c.deleted = FALSE
             /\ c = [object |-> c.object, deleted |-> FALSE]
          \/ c.object \in P!Vanished /\ c.deleted = TRUE
             /\ c = [object |-> c.object, deleted |-> TRUE]
    <3> SUFFICES ASSUME NEW c \in StepCalls
                 PROVE  \/ /\ c.object \in P!News /\ c.deleted = FALSE
                           /\ c = [object |-> c.object, deleted |-> FALSE]
                        \/ /\ c.object \in P!Vanished /\ c.deleted = TRUE
                           /\ c = [object |-> c.object, deleted |-> TRUE]
      OBVIOUS
    <3>1. c \in Calls(P!News, FALSE) \/ c \in Calls(P!Vanished, TRUE)
      BY <2>1
    <3>. QED
      BY <3>1, CallsOf, Zenon
  <2>5. \A call \in StepCalls : CallOK(call)
    BY <1>2, <1>3, <1>5, <2>2, <2>4, Zenon
  <2>6. \A o \in P!Vanished, p \in list.pods : p.uid # o.uid
    BY <1>3, <1>5
  <2>7. \A o, p \in P!Vanished : o.uid = p.uid => o = p
    BY <1>3, <1>5
  <2>8. \A c, d \in StepCalls : c.object.uid = d.object.uid => c = d
    BY <2>2, <2>3, <2>4, <2>6, <2>7, Zenon
  <2>. QED
    BY <2>5, <2>8
<1>6. CASE stage = "watching" /\ P!Unsent # {}
  <2> DEFINE r == I!NextEvent
             o == I!Object(r)
  <2>1. ASSUME NEW c \in StepCalls
        PROVE  c.object = o /\ c.deleted = (history[r].kind = "Deleted")
               /\ c = [object |-> o, deleted |-> (history[r].kind = "Deleted")]
    <3> DEFINE gone == history[r].kind = "Deleted"
    <3>1. StepCalls = EventCalls
      BY <1>6, SameInformer DEF StepCalls
    <3>2. EventCalls = IF ~gone /\ I!Known(o) THEN {} ELSE Calls({o}, gone)
      BY DEF EventCalls
    <3>. HIDE DEF r, o, gone
    <3>3. EventCalls # {} => EventCalls = Calls({o}, gone)
      BY <3>2
    <3>4. c \in Calls({o}, gone)
      BY <2>1, <3>1, <3>3
    <3>5. c.object \in {o} /\ c.deleted = gone /\ c = [object |-> c.object, deleted |-> gone]
      BY <3>4, CallsOf, Zenon
    <3>6. c.object = o
      BY <3>5
    <3>. QED
      BY <3>5, <3>6, Zenon DEF gone
  <2>2. r \in 1..P!Latest /\ P!OfPod(history, r)
    BY <1>1, <1>6, SameInformer, P!NextFacts DEF P!WatchInv, P!PositionOK
  <2>3. o = P!ObjectOf(history, r) /\ o.rv = r /\ o.uid = history[r].uid
    BY SameInformer DEF P!Object, P!ObjectOf
  <2>4. history[r].kind = "Deleted" => ~P!Alive(history, o.uid, P!Latest)
    BY <2>2, <2>3 DEF P!Alive
  <2>. HIDE DEF r, o
  <2>5. \A c \in StepCalls : CallOK(c)
    BY <2>1, <2>2, <2>3, <2>4, Zenon DEF CallOK
  <2>. QED
    BY <2>1, <2>5, Zenon
<1>7. CASE ~(stage = "listed") /\ ~(stage = "watching" /\ P!Unsent # {})
  <2>1. StepCalls = {}
    BY <1>7, SameInformer DEF StepCalls
  <2>. QED
    BY <2>1
<1>. QED
  BY <1>4, <1>5, <1>6, <1>7

-----------------------------------------------------------------------------
(* The step in progress.                                                   *)

DoneOK == done \subseteq StepCalls

\* What ViewNow holds of a pod: what a callback made of it, or what the last
\* completed step left.
LEMMA ViewNowIs ==
  ASSUME P!WatchInv, DoneOK
  PROVE  /\ DOMAIN ViewNow = DOMAIN view \cup {call.object.uid : call \in done}
         /\ \A call \in done : /\ call.object.uid \in DOMAIN ViewNow
                               /\ ViewNow[call.object.uid] =
                                    P!Entry(call.object, call.deleted)
         /\ \A u \in DOMAIN view : (\A call \in done : call.object.uid # u) =>
              u \in DOMAIN ViewNow /\ ViewNow[u] = view[u]
<1>1. DOMAIN ViewNow = DOMAIN view \cup {call.object.uid : call \in done}
  BY DEF ViewNow
<1>2. ASSUME NEW call \in done
      PROVE  /\ call.object.uid \in DOMAIN ViewNow
             /\ ViewNow[call.object.uid] = P!Entry(call.object, call.deleted)
  <2>1. call.object.uid \in DOMAIN ViewNow
    BY <1>1
  <2> DEFINE c == CHOOSE c \in done : c.object.uid = call.object.uid
  <2>2. c \in done /\ c.object.uid = call.object.uid
    BY Zenon
  <2>3. ViewNow[call.object.uid] = P!Entry(c.object, c.deleted)
    BY <2>1, SameInformer DEF ViewNow
  <2>. HIDE DEF c
  <2>4. c = call
    BY <2>2, CallsAreOK DEF DoneOK
  <2>. QED
    BY <2>1, <2>3, <2>4
<1>3. ASSUME NEW u \in DOMAIN view, \A call \in done : call.object.uid # u
      PROVE  u \in DOMAIN ViewNow /\ ViewNow[u] = view[u]
  BY <1>3 DEF ViewNow
<1>. QED
  BY <1>1, <1>2, <1>3

\* Without callbacks it is the view of the informer.
LEMMA NoneDone ==
  done = {} => /\ DOMAIN ViewNow = DOMAIN view
               /\ \A u \in DOMAIN view : ViewNow[u] = view[u]
BY DEF ViewNow

\* What an entry says.
LEMMA EntrySays ==
  ASSUME NEW o, NEW deleted
  PROVE  P!Entry(o, deleted).rv = o.rv /\ P!Entry(o, deleted).deleted = deleted
BY Zenon DEF P!Entry

\* It says of the pods what they were.
LEMMA ViewNowOK ==
  ASSUME P!WatchInv, DoneOK
  PROVE  P!RecordsOK(ViewNow)
<1> SUFFICES ASSUME NEW u \in DOMAIN ViewNow
             PROVE  /\ ViewNow[u].rv \in 1..P!Latest /\ P!OfPod(history, ViewNow[u].rv)
                    /\ history[ViewNow[u].rv].uid = u
                    /\ ViewNow[u].deleted => ~P!Alive(history, u, P!Latest)
  BY DEF P!RecordsOK
<1>1. CASE \E call \in done : call.object.uid = u
  <2>1. PICK call \in done : call.object.uid = u
    BY <1>1
  <2>2. ViewNow[u].rv = call.object.rv /\ ViewNow[u].deleted = call.deleted
    <3>1. ViewNow[u] = P!Entry(call.object, call.deleted)
      BY <2>1, ViewNowIs
    <3>. QED
      <4>1. P!Entry(call.object, call.deleted).rv = call.object.rv
            /\ P!Entry(call.object, call.deleted).deleted = call.deleted
        BY EntrySays, Zenon
      <4>. QED
        BY <3>1, <4>1, Zenon
  <2>3. CallOK(call)
    BY CallsAreOK DEF DoneOK
  <2>4. history[call.object.rv].uid = call.object.uid
    BY <2>3 DEF CallOK, P!ObjectOf
  <2>. QED
    BY <2>1, <2>2, <2>3, <2>4 DEF CallOK
<1>2. CASE u \in DOMAIN view /\ \A call \in done : call.object.uid # u
  <2>1. ViewNow[u] = view[u]
    BY <1>2, ViewNowIs
  <2>. QED
    BY <1>2, <2>1 DEF P!WatchInv, P!RecordsOK
<1>. QED
  BY <1>1, <1>2, ViewNowIs

\* The callbacks to make depend on what the informer has read.
LEMMA SameStepCalls ==
  ASSUME UNCHANGED <<history, synced, cache, stage, list, sent>>
  PROVE  StepCalls' = StepCalls
BY DEF StepCalls, EventCalls, Calls, I!NextEvent, I!Unsent, I!Object, I!Known, I!News,
       I!Vanished, I!Latest

\* The history, and the versions the watcher has of it.
LEMMA WatchFacts ==
  ASSUME P!WatchInv
  PROVE  /\ P!WellFormed(history) /\ history \in Seq(P!Events)
         /\ P!Latest = Len(history) /\ P!Latest \in Nat
         /\ lastRV \in 0..P!Latest /\ sent \in 0..P!Latest
         /\ stage = "watching" => sent = lastRV /\ synced
<1>1. P!WellFormed(history) /\ P!PositionOK
  BY Zenon DEF P!WatchInv
<1>2. history \in Seq(P!Events)
  BY <1>1, Zenon DEF P!WellFormed
<1>3. P!Latest = Len(history) /\ P!Latest \in Nat
  BY <1>2 DEF P!Latest
<1>4. /\ lastRV \in 0..P!Latest
      /\ stage = "watching" => sent = lastRV /\ synced
      /\ stage # "watching" => sent = P!NoRV
  BY <1>1, Zenon DEF P!PositionOK
<1>5. sent \in 0..P!Latest
  BY <1>3, <1>4 DEF P!NoRV
<1>. QED
  BY <1>1, <1>2, <1>3, <1>4, <1>5, Zenon

\* An event more in the cluster changes nothing about the next event of a watch.
LEMMA MoreEvents ==
  ASSUME P!WatchInv, NEW e, history' = Append(history, e),
         UNCHANGED <<synced, cache, stage, list, sent>>, StepCalls # {}
  PROVE  StepCalls' = StepCalls
<1> USE PodWatcherAssumption
<1>1. /\ P!Latest \in Nat /\ P!Latest' = P!Latest + 1 /\ sent \in 0..P!Latest
      /\ \A r \in 1..P!Latest : history'[r] = history[r]
      /\ P!WellFormed(history)
  BY WatchFacts DEF P!Latest
<1>2. CASE stage = "listed"
  <2>1. I!News' = I!News /\ I!Vanished' = I!Vanished
    BY DEF I!News, I!Vanished, I!Known
  <2>. QED
    BY <1>2, <2>1 DEF StepCalls, Calls
<1>3. CASE stage = "watching" /\ P!Unsent # {}
  <2>1. PICK r \in (sent + 1)..P!Latest :
          /\ r = P!NextEvent /\ P!OfPod(history, r)
          /\ \A q \in (sent + 1)..P!Latest : q < r => ~P!OfPod(history, q)
    BY <1>1, <1>3, P!NextFacts
  <2>2. r \in P!Unsent' /\ \A n \in P!Unsent' : r <= n
    <3>1. \A q : q \in P!Unsent' <=>
                 q \in (sent + 1)..P!Latest' /\ history'[q].kind # "Other"
      <4>1. sent' = sent
        OBVIOUS
      <4>. QED
        BY <4>1, Zenon DEF P!Unsent
    <3>2. r \in (sent + 1)..P!Latest' /\ history'[r].kind # "Other"
      <4>1. sent \in Nat /\ P!Latest \in Nat /\ P!Latest' = P!Latest + 1
        BY <1>1
      <4>2. r \in (sent + 1)..P!Latest'
        BY <2>1, <4>1
      <4>3. r \in 1..P!Latest
        BY <2>1, <4>1
      <4>4. history'[r] = history[r]
        BY <1>1, <4>3
      <4>. QED
        BY <2>1, <4>2, <4>4 DEF P!OfPod
    <3>3. ASSUME NEW n \in (sent + 1)..P!Latest', history'[n].kind # "Other"
          PROVE  r <= n
      <4>1. CASE n \in (sent + 1)..P!Latest
        BY <1>1, <2>1, <3>3, <4>1 DEF P!OfPod
      <4>2. CASE n = P!Latest + 1
        BY <1>1, <2>1, <4>2
      <4>. QED
        BY <1>1, <3>3, <4>1, <4>2
    <3>. QED
      BY <3>1, <3>2, <3>3
  <2>3. P!Unsent' # {}
    BY <2>2
  <2>4. P!NextEvent' = r
    <3> DEFINE s == P!NextEvent'
    <3>1. s = CHOOSE q \in P!Unsent' : \A n \in P!Unsent' : q <= n
      BY DEF P!NextEvent
    <3>. HIDE DEF s
    <3>2. s \in P!Unsent' /\ \A n \in P!Unsent' : s <= n
      BY <2>2, <3>1
    <3>3. s <= r /\ r <= s
      BY <2>2, <3>2
    <3>4. s \in Nat /\ r \in Nat
      <4>1. P!Unsent' \subseteq (sent + 1)..P!Latest'
        BY DEF P!Unsent
      <4>. QED
        BY <1>1, <2>1, <3>2, <4>1
    <3>. QED
      BY <3>3, <3>4 DEF s
  <2>5. I!NextEvent = r /\ I!NextEvent' = r /\ history'[r] = history[r]
        /\ P!Latest' >= P!Latest
    <3>1. I!NextEvent' = P!NextEvent'
      BY DEF I!NextEvent, P!NextEvent, I!Unsent, P!Unsent, I!Latest, P!Latest
    <3>2. I!NextEvent = r /\ I!NextEvent' = r
      BY <2>1, <2>4, <3>1, SameInformer, Zenon
    <3>3. r \in 1..P!Latest /\ P!Latest' >= P!Latest
      BY <1>1, <2>1
    <3>4. history'[r] = history[r]
      BY <1>1, <3>3
    <3>. QED
      BY <3>2, <3>3, <3>4
  <2>6. EventCalls' = EventCalls
    BY <2>5 DEF EventCalls, I!Object, I!Known, Calls
  <2>7. I!Unsent # {} /\ I!Unsent' # {}
    BY <1>3, <2>3 DEF I!Unsent, P!Unsent, I!Latest, P!Latest
  <2>. QED
    BY <1>3, <2>6, <2>7 DEF StepCalls
<1>4. CASE ~(stage = "listed") /\ ~(stage = "watching" /\ P!Unsent # {})
  BY <1>4, SameInformer DEF StepCalls
<1>. QED
  BY <1>2, <1>3, <1>4

-----------------------------------------------------------------------------
(* Every step keeps what is proved of the informer.                        *)

\* The end of a process and the start of the next are those of an informer, which
\* gets the records of the state file.
LEMMA StartsAnew ==
  ASSUME P!SavedOK, StopAndStart \/ CrashAndStart
  PROVE  P!Started
<1>1. /\ P!StopSaves \/ (late' = P!Left(P!Requests) /\ checkpoint' = checkpoint)
      /\ view' = viewFile /\ viewFile' = viewFile /\ I!Starts(checkpoint')
  <2>1. I!Left(I!Requests) = P!Left(P!Requests)
    BY Zenon DEF I!Left, P!Left, I!Requests, P!Requests, I!Sent, P!Sent, I!NoLate, P!NoLate,
                 I!RVs, P!RVs, I!NoRV, P!NoRV
  <2>2. I!StopSaves <=> P!StopSaves
    BY Zenon DEF I!StopSaves, P!StopSaves, I!Left, P!Left, I!Requests, P!Requests, I!Sent,
                 P!Sent, I!Landed, P!Landed, I!NoLate, P!NoLate, I!RVs, P!RVs, I!NoRV, P!NoRV
  <2>. QED
    BY <2>1, <2>2, Zenon DEF StopAndStart, CrashAndStart, Reload
<1>2. P!Ghosts(view', lastRV') = I!Ghosts(view', lastRV')
  BY DEF P!Ghosts, I!Ghosts, P!GoneBy, I!GoneBy, P!HadEvent, I!HadEvent, P!LastEvent,
         I!LastEvent
<1>3. P!Resumes
  <2>1. saving' = P!NoRV
    BY <1>1 DEF I!Starts, I!NoRV, P!NoRV
  <2>. QED
    BY <1>1, <2>1, P!StopResumes, PodWatcherAssumption
<1>4. /\ I!NoRV = P!NoRV /\ I!Empty = P!Empty /\ I!NoList = P!NoList /\ I!RVs = P!RVs
  BY Zenon DEF I!NoRV, P!NoRV, I!Empty, P!Empty, I!NoList, P!NoList, I!RVs, P!RVs
<1>5. /\ behind' = (behind \/ \E rv \in P!RVs : late'[rv] > 0 /\ rv > lastRV')
      /\ gap' = (gap \/ P!Ghosts(view', lastRV') # {})
      /\ blind' = (blind \/ (lastRV' = P!NoRV /\ view' # P!Empty))
  BY <1>1, <1>2, <1>4, Zenon DEF I!Starts
<1>6. lastRV' \in {checkpoint', P!NoRV} /\ baseline' \in BOOLEAN
  BY <1>1, <1>4 DEF I!Starts
<1>7. /\ rvDirty' = FALSE /\ synced' = FALSE /\ cache' = P!Empty /\ stage' = "idle"
      /\ list' = P!NoList /\ sent' = P!NoRV /\ saving' = P!NoRV
      /\ restarts' = restarts + 1 /\ UNCHANGED <<history, compacted>>
  BY <1>1, <1>4 DEF I!Starts, I!cluster
<1>8. view' = viewFile' /\ view' \in {view, viewFile}
  BY <1>1
<1>. QED
  BY <1>3, <1>5, <1>6, <1>7, <1>8, Zenon DEF P!Started

\* The informer's invariant, with the callbacks of a step in between.
LEMMA InformerStep ==
  ASSUME P!InformerInv, DoneOK, [Next]_vars
  PROVE  P!InformerInv'
<1> USE PodWatcherAssumption
<1>1. P!WatchInv /\ P!SavedOK
  BY DEF P!InformerInv
<1>2. CASE Cluster \/ Watch \/ Advance \/ SavePosition
  BY <1>1, <1>2, InformerMoves, P!WatchStep, P!SavedStep DEF P!InformerInv
<1>3. CASE Report \/ Poll \/ UNCHANGED vars
  BY <1>1, <1>3, InformerRests, P!WatchStep, P!SavedStep DEF P!InformerInv
<1>4. CASE SaveState
  <2>1. /\ viewFile' = ViewNow
        /\ UNCHANGED <<watcherVars, savedVars>>
    BY <1>4 DEF SaveState
  <2>2. P!RecordsOK(ViewNow)
    BY <1>1, ViewNowOK
  <2>. QED
    BY <1>1, <2>1, <2>2
       DEF watcherVars, savedVars, P!InformerInv, P!WatchInv, P!SavedOK, P!PositionOK,
           P!ListOK, P!CacheOK, P!RecordsOK, P!LivePassed, P!Latest, P!Underway
<1>5. CASE StopAndStart \/ CrashAndStart
  BY <1>1, <1>5, StartsAnew, P!RestartStep DEF P!InformerInv
<1>. QED
  BY <1>2, <1>3, <1>4, <1>5 DEF Next

\* The callbacks made are of the step in progress: nothing but the cluster, the
\* saves and the requests comes in between.
LEMMA DoneStep ==
  ASSUME P!InformerInv, DoneOK, [Next]_vars
  PROVE  DoneOK'
<1>1. P!WatchInv
  BY DEF P!InformerInv
<1>2. CASE Cluster
  <2>1. done' = done /\ UNCHANGED <<synced, cache, stage, list, sent>>
    BY <1>2 DEF Cluster, I!Create, I!Modify, I!Delete, I!OtherObject, I!Happens, I!Compact,
                I!watcher
  <2>2. history' = history \/ \E e : history' = Append(history, e)
    BY <1>2 DEF Cluster, I!Create, I!Modify, I!Delete, I!OtherObject, I!Happens, I!Compact
  <2>3. StepCalls = {} \/ StepCalls' = StepCalls
    BY <1>1, <2>1, <2>2, SameStepCalls, MoreEvents
  <2>. QED
    BY <2>1, <2>3 DEF DoneOK
<1>3. CASE Watch \/ Advance \/ StopAndStart \/ CrashAndStart
  <2>1. done' = {}
    BY <1>3 DEF Watch, Advance, StopAndStart, CrashAndStart, Reload
  <2>. QED
    BY <2>1 DEF DoneOK
<1>4. CASE Report
  <2>1. StepCalls' = StepCalls
    BY <1>4, SameStepCalls DEF Report, informerVars, watcherVars
  <2>. QED
    BY <1>4, <2>1 DEF DoneOK, Report
<1>5. CASE SavePosition \/ SaveState \/ Poll \/ UNCHANGED vars
  <2>1. UNCHANGED <<history, synced, cache, stage, list, sent>>
    BY <1>5 DEF SavePosition, I!SaveBegins, I!SaveEnds, I!SaveFails, I!SaveLands, SaveState,
                Poll, vars, informerVars, watcherVars, I!cluster, I!watcher
  <2>2. done' = done
    BY <1>5 DEF SavePosition, SaveState, Poll, vars
  <2>. QED
    BY <2>1, <2>2, SameStepCalls DEF DoneOK
<1>. QED
  BY <1>2, <1>3, <1>4, <1>5 DEF Next

\* So do they keep what gap and blind stand for.
LEMMA NoGhostStep ==
  ASSUME P!InformerInv, P!GhostInv, DoneOK, [Next]_vars
  PROVE  P!GhostInv'
<1> USE PodWatcherAssumption
<1>1. CASE Cluster \/ Watch \/ Advance \/ SavePosition
  BY <1>1, InformerMoves, P!GhostStep
<1>2. CASE Report \/ Poll \/ UNCHANGED vars
  BY <1>2, InformerRests, P!GhostStep
<1>3. CASE SaveState
  BY <1>3 DEF SaveState, watcherVars, savedVars, P!GhostInv, P!NoGhost, P!AliveIsCached
<1>4. CASE StopAndStart \/ CrashAndStart
  BY <1>4, StartsAnew, P!StartedNoGhost DEF P!InformerInv
<1>. QED
  BY <1>1, <1>2, <1>3, <1>4 DEF Next

-----------------------------------------------------------------------------
(* What the records are to hold.                                           *)

\* They are to hold the same as before.
SameView == /\ DOMAIN ViewNow' = DOMAIN ViewNow
            /\ \A u \in DOMAIN ViewNow : ViewNow'[u] = ViewNow[u]

\* The callback about an object.
About(o, deleted) == [object |-> o, deleted |-> deleted]

\* There is one about each of the objects.
LEMMA CallFor ==
  ASSUME NEW objects, NEW deleted, NEW o \in objects
  PROVE  /\ About(o, deleted) \in Calls(objects, deleted)
         /\ About(o, deleted).object = o /\ About(o, deleted).deleted = deleted
<1>1. About(o, deleted) \in Calls(objects, deleted)
  BY Zenon DEF Calls, About
<1>2. About(o, deleted).object = o /\ About(o, deleted).deleted = deleted
  BY Zenon DEF About
<1>. QED
  BY <1>1, <1>2

\* A completed step leaves in the view what its callbacks made.
AsCalled ==
  /\ DOMAIN view' = DOMAIN view \cup {call.object.uid : call \in done}
  /\ \A call \in done : view'[call.object.uid] = P!Entry(call.object, call.deleted)
  /\ \A u \in DOMAIN view : (\A call \in done : call.object.uid # u) => view'[u] = view[u]

\* A seed does,
LEMMA SeedAsCalled ==
  ASSUME P!WatchInv, done = StepCalls, I!Seed
  PROVE  AsCalled
<1> USE PodWatcherAssumption
<1>1. done = Calls(list.pods, FALSE) /\ stage = "listed"
  BY DEF I!Seed, StepCalls
<1>2. view' = [u \in DOMAIN view \cup {o.uid : o \in list.pods} |->
                 IF \E o \in list.pods : o.uid = u
                 THEN P!Entry(CHOOSE o \in list.pods : o.uid = u, FALSE) ELSE view[u]]
  BY SameInformer DEF I!Seed
<1>3. \A c \in done : c.object \in list.pods /\ c.deleted = FALSE
  BY <1>1, CallsOf, Zenon
<1>4. \A o \in list.pods : About(o, FALSE) \in done /\ About(o, FALSE).object = o
  <2>1. PICK listed : listed = list.pods
    OBVIOUS
  <2>2. ASSUME NEW o \in listed
        PROVE  /\ About(o, FALSE) \in Calls(listed, FALSE)
               /\ About(o, FALSE).object = o /\ About(o, FALSE).deleted = FALSE
    BY CallFor, Zenon
  <2>. QED
    BY <1>1, <2>1, <2>2
<1>5. {call.object.uid : call \in done} = {o.uid : o \in list.pods}
  BY <1>3, <1>4
<1>6. ASSUME NEW c \in done
      PROVE  view'[c.object.uid] = P!Entry(c.object, c.deleted)
  <2> DEFINE o == CHOOSE o \in list.pods : o.uid = c.object.uid
  <2>1. o \in list.pods /\ o.uid = c.object.uid
    BY <1>3, Zenon
  <2>2. view'[c.object.uid] = P!Entry(o, FALSE)
    BY <1>2, <1>3
  <2>. HIDE DEF o
  <2>3. o = c.object
    BY <1>1, <1>3, <2>1, P!ListedOnce
  <2>. QED
    BY <1>3, <2>2, <2>3
<1>7. ASSUME NEW u \in DOMAIN view, \A call \in done : call.object.uid # u
      PROVE  view'[u] = view[u]
  <2>1. ~ \E o \in list.pods : o.uid = u
    BY <1>4, <1>7
  <2>. QED
    BY <1>2, <2>1
<1>. QED
  BY <1>2, <1>5, <1>6, <1>7 DEF AsCalled

\* so does a relist,
LEMMA ReconcileAsCalled ==
  ASSUME P!WatchInv, done = StepCalls, I!Reconcile
  PROVE  AsCalled
<1> USE PodWatcherAssumption
<1>1. done = Calls(I!News, FALSE) \cup Calls(I!Vanished, TRUE) /\ stage = "listed" /\ synced
  BY DEF I!Reconcile, StepCalls
<1>2. view' = [u \in DOMAIN view \cup {o.uid : o \in I!News \cup I!Vanished} |->
         CASE \E o \in I!News : o.uid = u -> I!Entry(CHOOSE o \in I!News : o.uid = u, FALSE)
           [] \E o \in I!Vanished : o.uid = u ->
                I!Entry(CHOOSE o \in I!Vanished : o.uid = u, TRUE)
           [] OTHER -> view[u]]
  BY DEF I!Reconcile
<1>3. \A c \in done : \/ c.object \in I!News /\ c.deleted = FALSE
                      \/ c.object \in I!Vanished /\ c.deleted = TRUE
  <2> SUFFICES ASSUME NEW c \in done
               PROVE  \/ c.object \in I!News /\ c.deleted = FALSE
                      \/ c.object \in I!Vanished /\ c.deleted = TRUE
    OBVIOUS
  <2>1. c \in Calls(I!News, FALSE) \/ c \in Calls(I!Vanished, TRUE)
    BY <1>1
  <2>. QED
    BY <2>1, CallsOf, Zenon
<1>4. /\ \A o \in I!News : /\ About(o, FALSE) \in done
                            /\ About(o, FALSE).object = o /\ About(o, FALSE).deleted = FALSE
      /\ \A o \in I!Vanished : /\ About(o, TRUE) \in done
                                /\ About(o, TRUE).object = o /\ About(o, TRUE).deleted = TRUE
  <2>1. ASSUME NEW o \in I!News
        PROVE  /\ About(o, FALSE) \in Calls(I!News, FALSE)
               /\ About(o, FALSE).object = o /\ About(o, FALSE).deleted = FALSE
    BY CallFor, Zenon
  <2>2. ASSUME NEW o \in I!Vanished
        PROVE  /\ About(o, TRUE) \in Calls(I!Vanished, TRUE)
               /\ About(o, TRUE).object = o /\ About(o, TRUE).deleted = TRUE
    BY CallFor, Zenon
  <2>3. Calls(I!News, FALSE) \subseteq done /\ Calls(I!Vanished, TRUE) \subseteq done
    BY <1>1
  <2>. QED
    BY <2>1, <2>2, <2>3, Zenon
<1>5. {call.object.uid : call \in done} = {o.uid : o \in I!News \cup I!Vanished}
  <2>1. ASSUME NEW c \in done
        PROVE  c.object \in I!News \cup I!Vanished
    BY <1>3
  <2>2. ASSUME NEW o \in I!News \cup I!Vanished
        PROVE  \E c \in done : c.object = o
    BY <1>4
  <2>. QED
    BY <2>1, <2>2
<1>6. \A c, d \in done : c.object.uid = d.object.uid => c = d
  BY CallsAreOK
<1>7. ASSUME NEW c \in done
      PROVE  view'[c.object.uid] = P!Entry(c.object, c.deleted)
  <2>1. CASE \E o \in I!News : o.uid = c.object.uid
    <3> DEFINE o == CHOOSE o \in I!News : o.uid = c.object.uid
    <3>1. o \in I!News /\ o.uid = c.object.uid
      BY <2>1, Zenon
    <3>2. ~ \E p \in I!Vanished : p.uid = c.object.uid
      <4> SUFFICES ASSUME NEW p \in I!Vanished, p.uid = c.object.uid
                   PROVE  FALSE
        OBVIOUS
      <4>1. About(p, TRUE) \in done /\ About(p, TRUE).object = p /\ About(p, TRUE).deleted
        BY <1>4
      <4>2. About(o, FALSE) \in done /\ About(o, FALSE).object = o
            /\ ~About(o, FALSE).deleted
        BY <1>4, <3>1
      <4>. HIDE DEF o
      <4>3. About(p, TRUE) = About(o, FALSE)
        BY <1>6, <3>1, <4>1, <4>2
      <4>. QED
        BY <4>1, <4>2, <4>3
    <3>3. view'[c.object.uid] = I!Entry(o, FALSE)
      BY <1>2, <2>1, <3>1, <3>2
    <3>. HIDE DEF o
    <3> DEFINE d == About(o, FALSE)
    <3>4. d \in done /\ d.object = o /\ d.deleted = FALSE
      BY <1>4, <3>1, Zenon
    <3>. HIDE DEF d
    <3>5. d = c
      BY <1>6, <3>1, <3>4
    <3>. QED
      BY <3>3, <3>4, <3>5, SameInformer
  <2>2. CASE /\ ~ \E o \in I!News : o.uid = c.object.uid
             /\ \E o \in I!Vanished : o.uid = c.object.uid
    <3> DEFINE o == CHOOSE o \in I!Vanished : o.uid = c.object.uid
    <3>1. o \in I!Vanished /\ o.uid = c.object.uid
      BY <2>2, Zenon
    <3>2. view'[c.object.uid] = I!Entry(o, TRUE)
      BY <1>2, <2>2, <3>1
    <3>. HIDE DEF o
    <3> DEFINE d == About(o, TRUE)
    <3>3. d \in done /\ d.object = o /\ d.deleted = TRUE
      BY <1>4, <3>1, Zenon
    <3>. HIDE DEF d
    <3>4. d = c
      BY <1>6, <3>1, <3>3
    <3>. QED
      BY <3>2, <3>3, <3>4, SameInformer
  <2>. QED
    BY <1>3, <2>1, <2>2
<1>8. ASSUME NEW u \in DOMAIN view, \A call \in done : call.object.uid # u
      PROVE  view'[u] = view[u]
  <2>1. ASSUME NEW o \in I!News
        PROVE  o.uid # u
    <3>1. About(o, FALSE) \in done /\ About(o, FALSE).object = o
      BY <1>4, Zenon
    <3>2. About(o, FALSE).object.uid # u
      BY <1>8, <3>1, Zenon
    <3>. QED
      BY <3>1, <3>2
  <2>2. ASSUME NEW o \in I!Vanished
        PROVE  o.uid # u
    <3>1. About(o, TRUE) \in done /\ About(o, TRUE).object = o
      BY <1>4, Zenon
    <3>2. About(o, TRUE).object.uid # u
      BY <1>8, <3>1, Zenon
    <3>. QED
      BY <3>1, <3>2
  <2>3. (~ \E o \in I!News : o.uid = u) /\ (~ \E o \in I!Vanished : o.uid = u)
    BY <2>1, <2>2
  <2>. QED
    BY <1>2, <2>3
<1>. QED
  BY <1>2, <1>5, <1>7, <1>8 DEF AsCalled

\* and an event.
LEMMA EventAsCalled ==
  ASSUME P!WatchInv, done = StepCalls, I!Event
  PROVE  AsCalled
<1>1. PICK r : r = I!NextEvent
  OBVIOUS
<1>2. PICK o : o = I!Object(r)
  OBVIOUS
<1>3. done = EventCalls
  BY DEF I!Event, StepCalls
<1>4. IF history[r].kind = "Deleted" THEN I!Forget(o) ELSE I!Observe(o)
  BY <1>1, <1>2 DEF I!Event
<1>5. CASE history[r].kind # "Deleted" /\ I!Known(o)
  <2>1. done = {} /\ view' = view
    BY <1>1, <1>2, <1>3, <1>4, <1>5 DEF EventCalls, I!Observe
  <2>. QED
    BY <2>1 DEF AsCalled
<1>6. ASSUME NEW deleted, done = Calls({o}, deleted),
             view' = I!Put(view, o.uid, P!Entry(o, deleted))
      PROVE  AsCalled
  <2>1. \A c \in done : c.object \in {o} /\ c.deleted = deleted
    BY <1>6, CallsOf, Zenon
  <2> DEFINE c == About(o, deleted)
  <2>2. c \in done /\ c.object = o /\ c.deleted = deleted
    <3>1. o \in {o}
      OBVIOUS
    <3>. QED
      BY <1>6, <3>1, CallFor, Zenon
  <2>. HIDE DEF c
  <2>3. {call.object.uid : call \in done} = {o.uid}
    BY <2>1, <2>2
  <2>4. view'[o.uid] = P!Entry(o, deleted)
    BY <1>6 DEF I!Put
  <2>5. \A call \in done : view'[call.object.uid] = P!Entry(call.object, call.deleted)
    BY <2>1, <2>4
  <2>6. \A u \in DOMAIN view : u # o.uid => view'[u] = view[u]
    BY <1>6 DEF I!Put
  <2>7. DOMAIN view' = DOMAIN view \cup {o.uid}
    BY <1>6 DEF I!Put
  <2>. QED
    BY <2>2, <2>3, <2>5, <2>6, <2>7 DEF AsCalled
<1>7. CASE history[r].kind = "Deleted"
  <2>1. done = Calls({o}, TRUE)
    BY <1>1, <1>2, <1>3, <1>7 DEF EventCalls
  <2>2. view' = I!Put(view, o.uid, P!Entry(o, TRUE))
    BY <1>4, <1>7, SameInformer DEF I!Forget, I!Reported
  <2>. QED
    BY <1>6, <2>1, <2>2
<1>8. CASE history[r].kind # "Deleted" /\ ~I!Known(o)
  <2>1. done = Calls({o}, FALSE)
    BY <1>1, <1>2, <1>3, <1>8 DEF EventCalls
  <2>2. view' = I!Put(view, o.uid, P!Entry(o, FALSE))
    BY <1>4, <1>8, SameInformer DEF I!Observe, I!Reported
  <2>. QED
    BY <1>6, <2>1, <2>2
<1>. QED
  BY <1>5, <1>7, <1>8

\* Nothing but a callback and a new process changes what the records are to hold.
LEMMA ViewStays ==
  ASSUME P!InformerInv, DoneOK, [Next]_vars, ~Report, ~StopAndStart, ~CrashAndStart
  PROVE  SameView
<1>1. P!WatchInv
  BY DEF P!InformerInv
<1>2. CASE Advance
  <2>1. AsCalled
    BY <1>1, <1>2, SeedAsCalled, ReconcileAsCalled, EventAsCalled DEF Advance
  <2>2. done' = {}
    BY <1>2 DEF Advance
  <2>3. DOMAIN ViewNow' = DOMAIN view' /\ \A u \in DOMAIN view' : ViewNow'[u] = view'[u]
    BY <2>2 DEF ViewNow
  <2>4. DOMAIN view' = DOMAIN ViewNow
    BY <1>1, <2>1, ViewNowIs DEF AsCalled
  <2>5. \A u \in DOMAIN ViewNow : view'[u] = ViewNow[u]
    BY <1>1, <2>1, ViewNowIs DEF AsCalled
  <2>. QED
    BY <2>3, <2>4, <2>5 DEF SameView
<1>3. CASE Cluster \/ Watch \/ SavePosition \/ SaveState \/ Poll \/ UNCHANGED vars
  <2>1. view' = view
    BY <1>3
       DEF Cluster, I!Create, I!Modify, I!Delete, I!OtherObject, I!Happens, I!Compact,
           Watch, I!List, I!OpenWatch, I!Drop, I!WatchGone, I!Bookmark, I!records,
           SavePosition, I!SaveBegins, I!SaveEnds, I!SaveFails, I!SaveLands, SaveState, Poll, vars,
           informerVars, watcherVars
  <2>2. done' = done
    BY <1>3 DEF Cluster, Watch, SavePosition, SaveState, Poll, vars
  <2>. QED
    BY <2>1, <2>2 DEF SameView, ViewNow
<1>. QED
  BY <1>2, <1>3 DEF Next

\* A callback puts the entry of its pod.
LEMMA CallbackPuts ==
  ASSUME P!InformerInv, DoneOK, NEW call \in StepCalls \ done,
         done' = done \cup {call}, view' = view
  PROVE  /\ DOMAIN ViewNow' = DOMAIN ViewNow \cup {call.object.uid}
         /\ ViewNow'[call.object.uid] = P!Entry(call.object, call.deleted)
         /\ \A u \in DOMAIN ViewNow : u # call.object.uid => ViewNow'[u] = ViewNow[u]
         /\ \A c \in done : c.object.uid # call.object.uid
<1>1. P!WatchInv
  BY DEF P!InformerInv
<1>2. \A c, d \in done' : c.object.uid = d.object.uid => c = d
  <2>1. done' \subseteq StepCalls
    BY DEF DoneOK
  <2>. QED
    BY <1>1, <2>1, CallsAreOK
<1>3. ViewNow' = [u \in DOMAIN view \cup {c.object.uid : c \in done'} |->
                    IF \E c \in done' : c.object.uid = u
                    THEN LET d == CHOOSE c \in done' : c.object.uid = u
                         IN I!Entry(d.object, d.deleted)
                    ELSE view[u]]
  BY DEF ViewNow
<1>4. DOMAIN ViewNow' = DOMAIN view \cup {c.object.uid : c \in done'}
  BY <1>3
<1>5. ASSUME NEW c \in done'
      PROVE  ViewNow'[c.object.uid] = P!Entry(c.object, c.deleted)
  <2> DEFINE d == CHOOSE d \in done' : d.object.uid = c.object.uid
  <2>1. d \in done' /\ d.object.uid = c.object.uid
    BY Zenon
  <2>2. ViewNow'[c.object.uid] = I!Entry(d.object, d.deleted)
    BY <1>3, <1>4
  <2>. HIDE DEF d
  <2>3. d = c
    BY <1>2, <2>1
  <2>. QED
    BY <2>2, <2>3, SameInformer
<1>6. \A u \in DOMAIN view : (\A c \in done' : c.object.uid # u) => ViewNow'[u] = view[u]
  BY <1>3
<1>. QED
  BY <1>1, <1>2, <1>4, <1>5, <1>6, ViewNowIs

-----------------------------------------------------------------------------
(* The store of the process.                                               *)

\* ChangeFeed and its store with what is proved of them.
S == INSTANCE ChangeFeedProofs WITH
       Uids <- I!Uids, WatchedPods <- {}, ListedPods <- {},
       seeding <- ~synced, page <- [x \in {} |-> x],
       Filters <- {{}}, wanted <- {}

\* What the store assumes of its constants holds of those of the process.
LEMMA StoreConstants ==
  /\ S!PodsAssumption!: /\ S!LabelsAssumption!: /\ S!BoundsAssumption!:
  /\ S!FeedAssumption!:
<1>1. \A T : IsFiniteSet(T) => S!IsFiniteSet(T)
  BY DEF IsFiniteSet, S!IsFiniteSet
<1>2. S!IsFiniteSet(I!Uids)
  <2>1. IsFiniteSet(1..MaxRV)
    BY PodWatcherAssumption, FS_Interval
  <2>. QED
    BY <1>1, <2>1 DEF I!Uids
<1>3. S!IsFiniteSet(Apps)
  BY <1>1, PodWatcherAssumption
<1>4. S!Pods = {} /\ {{}} \subseteq SUBSET S!Statuses
  BY DEF S!Pods
<1>. QED
  BY <1>2, <1>3, <1>4, PodWatcherAssumption

\* The definitions of ChangeFeed are the same under both names.
LEMMA SameStore ==
  /\ \A pod, deleted, bootstrap :
       F!Upsert(pod, deleted, bootstrap) => S!Upsert(pod, deleted, bootstrap)
  /\ F!Save <=> S!Save
  /\ F!Restart <=> S!Restart
  /\ F!Request <=> S!Request
  /\ F!FeedTypeOK <=> S!FeedTypeOK
  /\ F!Changed = S!Changed
  /\ F!NoTime = 0 /\ S!NoTime = 0 /\ F!Empty = S!Empty /\ I!Empty = S!Empty
  /\ F!StatusOfPhase = S!StatusOfPhase
<1>1. /\ \A f, n : F!Surplus(f, n) = S!Surplus(f, n)
      /\ \A f, candidates, n :
           F!OldestFirst(f, candidates, n) = S!OldestFirst(f, candidates, n)
      /\ \A as : F!DeletedApps(as) = S!DeletedApps(as)
      /\ \A ps, as : F!Reclaimable(ps, as) = S!Reclaimable(ps, as)
      /\ \A ps, as : F!OwnedBy(ps, as) = S!OwnedBy(ps, as)
      /\ \A f, gone : F!Without(f, gone) = S!Without(f, gone)
  BY DEF F!Cardinality, S!Cardinality, F!IsFiniteSet, S!IsFiniteSet, F!OldestFirst,
         S!OldestFirst, F!Earliest, S!Earliest, F!DeletedApps, S!DeletedApps, F!Surplus,
         S!Surplus, F!Without, S!Without, F!OwnedBy, S!OwnedBy, F!Reclaimable,
         S!Reclaimable, F!NoTime, S!NoTime
<1>2. \A pod, deleted, bootstrap :
       F!Upsert(pod, deleted, bootstrap) => S!Upsert(pod, deleted, bootstrap)
  <2> SUFFICES ASSUME NEW pod, NEW deleted, NEW bootstrap,
                      F!Upsert(pod, deleted, bootstrap)
               PROVE  S!Upsert(pod, deleted, bootstrap)
    OBVIOUS
  <2>1. /\ F!Before(pod) = S!Before(pod)
        /\ F!Observed(pod, deleted) = S!Observed(pod, deleted)
        /\ F!LifecycleChanged(pod, deleted) <=> S!LifecycleChanged(pod, deleted)
        /\ F!Stamp = S!Stamp
    BY DEF F!Observed, S!Observed, F!Before, S!Before, F!PodStatus, S!PodStatus,
           F!StatusOfPhase, S!StatusOfPhase, F!Terminal, S!Terminal, F!OrNow, S!OrNow,
           F!Stamp, S!Stamp, F!NoTime, S!NoTime, F!LifecycleChanged, S!LifecycleChanged
  <2>2. /\ F!AppsWith(pod, deleted, bootstrap) = S!AppsWith(pod, deleted, bootstrap)
        /\ F!PodsWith(pod, deleted) = S!PodsWith(pod, deleted)
        /\ F!DriversWith(pod) = S!DriversWith(pod)
    BY DEF F!Observed, S!Observed, F!Before, S!Before, F!PodStatus, S!PodStatus,
           F!StatusOfPhase, S!StatusOfPhase, F!Terminal, S!Terminal, F!OrNow, S!OrNow,
           F!Stamp, S!Stamp, F!NoTime, S!NoTime, F!LifecycleChanged, S!LifecycleChanged,
           F!AppsWith, S!AppsWith, F!PodsWith, S!PodsWith, F!DriversWith, S!DriversWith,
           F!Put, S!Put, F!AppAfter, S!AppAfter, F!PodAfter, S!PodAfter,
           F!BootstrapChangedAt, S!BootstrapChangedAt
  <2>3. \A evicted : F!Mutates(pod, bootstrap, evicted) <=> S!Mutates(pod, bootstrap, evicted)
    BY DEF F!Mutates, S!Mutates
  <2>4. PICK as, ps : /\ as = F!AppsWith(pod, deleted, bootstrap)
                      /\ ps = F!PodsWith(pod, deleted)
    OBVIOUS
  <2>5. PICK victims \in F!OldestFirst(as, F!DeletedApps(as), F!Surplus(as, MaxApps)) :
          /\ apps' = F!Without(as, victims)
          /\ driverByApp' = F!Without(F!DriversWith(pod), victims)
          /\ \E gone \in F!OldestFirst(F!Without(ps, F!OwnedBy(ps, victims)),
                                      F!Reclaimable(F!Without(ps, F!OwnedBy(ps, victims)),
                                                    apps'),
                                      F!Surplus(F!Without(ps, F!OwnedBy(ps, victims)),
                                                MaxPods)) :
               /\ pods' = F!Without(F!Without(ps, F!OwnedBy(ps, victims)), gone)
               /\ dirty' = (dirty \/ F!Mutates(pod, bootstrap, victims \cup gone))
    BY <2>4, Zenon DEF F!Upsert
  <2>6. PICK kept : kept = S!Without(ps, S!OwnedBy(ps, victims))
    OBVIOUS
  <2>7. F!Without(ps, F!OwnedBy(ps, victims)) = kept
    BY <1>1, <2>6
  <2>8. PICK gone \in S!OldestFirst(kept, S!Reclaimable(kept, apps'), S!Surplus(kept, MaxPods)) :
          /\ pods' = S!Without(kept, gone)
          /\ dirty' = (dirty \/ S!Mutates(pod, bootstrap, victims \cup gone))
    BY <1>1, <2>3, <2>5, <2>7, Zenon
  <2>9. /\ pod.app # S!NoApp /\ pod.role # S!NoRole
        /\ ~bootstrap /\ S!LifecycleChanged(pod, deleted) => S!Stamp <= MaxTime
        /\ lastChanged' = IF ~bootstrap /\ S!LifecycleChanged(pod, deleted)
                          THEN S!Stamp ELSE lastChanged
        /\ UNCHANGED <<file, clock, ~synced>>
    BY <2>1 DEF F!Upsert, F!NoApp, S!NoApp, F!NoRole, S!NoRole
  <2>10. /\ victims \in S!OldestFirst(as, S!DeletedApps(as), S!Surplus(as, MaxApps))
         /\ apps' = S!Without(as, victims)
         /\ driverByApp' = S!Without(S!DriversWith(pod), victims)
         /\ as = S!AppsWith(pod, deleted, bootstrap) /\ ps = S!PodsWith(pod, deleted)
    BY <1>1, <2>2, <2>4, <2>5
  <2>. QED
    BY <2>6, <2>8, <2>9, <2>10, Zenon DEF S!Upsert
<1>3. F!Save <=> S!Save
  BY DEF F!Save, S!Save, F!Snapshot, S!Snapshot
<1>4. F!Restart <=> S!Restart
  BY DEF F!Restart, S!Restart, F!Latest, S!Latest, F!NoTime, S!NoTime, F!DriverIndexes,
         S!DriverIndexes
<1>5. F!Request <=> S!Request
  BY DEF F!Cardinality, S!Cardinality, F!IsFiniteSet, S!IsFiniteSet,
       F!Request, S!Request, F!Changed, S!Changed, F!Matches, S!Matches, F!Pages, S!Pages,
       F!Earliest, S!Earliest, F!Receives, S!Receives, F!Views, S!Views, F!DriverPhase,
       S!DriverPhase, F!Latest, S!Latest, F!NoTime, S!NoTime, F!vars, S!vars
<1>6. F!FeedTypeOK <=> S!FeedTypeOK
  BY DEF F!FeedTypeOK, S!FeedTypeOK, F!TypeOK, S!TypeOK, F!Partial, S!Partial, F!View0,
         S!View0, F!ApplicationRecord, S!ApplicationRecord, F!PodRecord, S!PodRecord,
         F!Statuses, S!Statuses, F!Phases, S!Phases
<1>7. /\ F!Changed = S!Changed /\ F!StatusOfPhase = S!StatusOfPhase
      /\ F!NoTime = 0 /\ S!NoTime = 0 /\ F!Empty = S!Empty /\ I!Empty = S!Empty
  BY DEF F!Changed, S!Changed, F!Matches, S!Matches, F!NoTime, S!NoTime, F!Empty, S!Empty,
         I!Empty, F!StatusOfPhase, S!StatusOfPhase
<1>. QED
  BY <1>2, <1>3, <1>4, <1>5, <1>6, <1>7

\* The driver of a callback is one the store can be given.
LEMMA DriverOK ==
  ASSUME P!WatchInv, NEW call, CallOK(call)
  PROVE  /\ Driver(call.object) \in S!PodObject /\ call.object.uid \in I!Uids
         /\ Driver(call.object).uid = call.object.uid
         /\ Driver(call.object).app = AppOf[call.object.uid]
         /\ Driver(call.object).app \in Apps /\ Driver(call.object).role = "driver"
         /\ Driver(call.object).phase = PhaseAt(call.object.uid, call.object.rv)
         /\ call.deleted \in BOOLEAN
<1> DEFINE u == call.object.uid
           phase == PhaseAt(u, call.object.rv)
<1>1. call.deleted \in BOOLEAN
  BY Zenon DEF CallOK
<1>2. u \in I!Uids
  <2>1. /\ call.object.rv \in 1..P!Latest /\ P!OfPod(history, call.object.rv)
        /\ u = history[call.object.rv].uid
        /\ P!WellFormed(history)
    BY DEF CallOK, P!ObjectOf, P!WatchInv
  <2>2. u \in 1..call.object.rv /\ P!Latest <= MaxRV /\ P!Latest \in Nat /\ MaxRV \in Nat
    BY <2>1, PodWatcherAssumption DEF P!WellFormed, P!Latest
  <2>. QED
    BY <2>1, <2>2 DEF I!Uids
<1>3. phase \in {"Succeeded", "Running"}
  BY DEF PhaseAt
<1>4. AppOf[u] \in Apps
  BY <1>2, PodWatcherAssumption
<1>. HIDE DEF phase
<1>5. Driver(call.object) =
        [uid |-> u, app |-> AppOf[u], role |-> "driver", phase |-> phase, created |-> 1,
         finished |-> IF phase = "Succeeded" THEN 1 ELSE 0]
  BY SameStore DEF Driver, phase
<1>. QED
  BY <1>1, <1>2, <1>3, <1>4, <1>5 DEF S!PodObject, S!Phases, phase

\* A callback is an upsert of the store.
LEMMA ReportUpserts ==
  ASSUME P!WatchInv, Report
  PROVE  \E call \in StepCalls \ done :
           /\ CallOK(call)
           /\ call.deleted => \A other \in StepCalls \ done : other.deleted
           /\ done' = done \cup {call}
           /\ UNCHANGED <<informerVars, feedVars>>
           /\ S!Upsert(Driver(call.object), call.deleted, ~synced)
<1>1. PICK call \in StepCalls \ done :
        /\ call.deleted => \A other \in StepCalls \ done : other.deleted
        /\ done' = done \cup {call}
        /\ UNCHANGED <<informerVars, feedVars>>
        /\ F!Upsert(Driver(call.object), call.deleted, ~synced)
  BY Zenon DEF Report, ToStore
<1>2. CallOK(call)
  BY CallsAreOK
<1>3. S!Upsert(Driver(call.object), call.deleted, ~synced)
  BY <1>1, SameStore, Zenon
<1>. QED
  BY <1>1, <1>2, <1>3

\* A request moves the consumer's position and copies, and they keep their types.
LEMMA RequestType ==
  ASSUME S!FeedTypeOK, S!Request, UNCHANGED synced
  PROVE  S!FeedTypeOK'
<1> USE StoreConstants
<1>1. PICK records \in S!Pages : S!Receives(records)
  BY DEF S!Request
<1>2. DOMAIN records \subseteq S!Changed /\ records = [a \in DOMAIN records |-> apps[a]]
  BY S!PageShape
<1>3. S!Partial(records, Apps, S!ApplicationRecord)
  BY <1>2 DEF S!FeedTypeOK, S!TypeOK, S!Partial, S!Changed
<1>4. cursor' \in Nat
  BY <1>1, <1>3, S!LatestOfPage DEF S!Receives
<1>5. \A a : S!DriverPhase(a) \in S!Phases \cup {""}
  BY DEF S!DriverPhase, S!FeedTypeOK, S!TypeOK, S!Partial, S!PodRecord
<1>6. \A a \in DOMAIN records : S!Views(records)[a] \in S!View0
  BY <1>3, <1>5 DEF S!Views, S!View0, S!Partial
<1>7. S!Partial(seen, Apps, S!View0)'
  <2>1. seen' = [a \in DOMAIN seen \cup DOMAIN records |->
                   IF a \in DOMAIN records THEN S!Views(records)[a] ELSE seen[a]]
    BY <1>1 DEF S!Receives
  <2>2. S!Partial(seen, Apps, S!View0)
    BY DEF S!FeedTypeOK
  <2>. QED
    BY <1>3, <1>6, <2>1, <2>2 DEF S!Partial
<1>8. UNCHANGED S!vars
  BY DEF S!Request
<1>9. S!TypeOK'
  BY <1>8 DEF S!vars, S!FeedTypeOK, S!TypeOK
<1>. QED
  BY <1>4, <1>7, <1>9 DEF S!FeedTypeOK, S!Partial

\* The types of all parts, with what the informer's rest on.
Typed == P!InformerInv /\ DoneOK /\ S!FeedTypeOK

\* Every step keeps the types of the store and the consumer.
LEMMA StoreTypeStep ==
  ASSUME Typed, [Next]_vars
  PROVE  S!FeedTypeOK'
<1> USE StoreConstants
<1>1. /\ S!TypeOK /\ cursor \in Nat /\ S!Partial(seen, Apps, S!View0)
      /\ S!Partial([x \in {} |-> x], Apps, S!ApplicationRecord) /\ {} \in {{}}
  BY DEF Typed, S!FeedTypeOK
<1>2. P!WatchInv
  BY DEF Typed, P!InformerInv
<1>3. CASE UNCHANGED <<recordVars, feedVars>>
  <2>1. (~synced)' \in BOOLEAN
    OBVIOUS
  <2>. QED
    BY <1>1, <1>3, <2>1, Zenon DEF recordVars, feedVars, S!FeedTypeOK, S!TypeOK
<1>4. CASE Report
  <2>1. PICK call : /\ CallOK(call) /\ UNCHANGED feedVars
                    /\ S!Upsert(Driver(call.object), call.deleted, ~synced)
    BY <1>2, <1>4, ReportUpserts
  <2>2. /\ Driver(call.object) \in S!PodObject /\ call.deleted \in BOOLEAN
    BY <1>2, <2>1, DriverOK, Zenon
  <2>3. (~synced) \in BOOLEAN
    OBVIOUS
  <2>4. S!TypeOK'
    BY <1>1, <2>1, <2>2, <2>3, S!UpsertType
  <2>. QED
    BY <1>1, <2>1, <2>4 DEF feedVars, S!FeedTypeOK
<1>5. CASE SaveState
  <2>1. /\ S!Save /\ UNCHANGED <<cursor, seen, synced>>
    BY <1>5, SameStore DEF SaveState, watcherVars, feedVars
  <2>2. file' = [apps |-> apps, pods |-> pods] /\ dirty' = FALSE
        /\ UNCHANGED <<apps, pods, driverByApp, lastChanged, clock>>
    BY <2>1 DEF S!Save, S!Snapshot
  <2>3. file'.apps = apps /\ file'.pods = pods /\ file' = [apps |-> file'.apps, pods |-> file'.pods]
    BY <2>2
  <2>4. S!TypeOK'
    BY <1>1, <2>1, <2>2, <2>3 DEF S!TypeOK
  <2>. QED
    BY <1>1, <2>1, <2>4 DEF S!FeedTypeOK
<1>6. CASE Poll
  <2>1. S!Request /\ UNCHANGED synced
    BY <1>6, SameStore DEF Poll, informerVars, watcherVars
  <2>. QED
    BY <2>1, RequestType DEF Typed
<1>7. CASE StopAndStart \/ CrashAndStart
  <2>1. S!Restart /\ UNCHANGED <<cursor, seen>>
    BY <1>7, SameStore DEF StopAndStart, CrashAndStart, Reload
  <2>2. S!TypeOK'
    BY <1>1, <2>1, S!RestartType
  <2>. QED
    BY <1>1, <2>1, <2>2 DEF S!FeedTypeOK
<1>8. CASE Cluster \/ Watch \/ Advance \/ SavePosition \/ UNCHANGED vars
  BY <1>3, <1>8 DEF Cluster, Watch, Advance, SavePosition, vars
<1>. QED
  BY <1>4, <1>5, <1>6, <1>7, <1>8 DEF Next

\* A process starts with all of it in order.
LEMMA TypedInit == Init => Typed
<1> SUFFICES ASSUME Init
             PROVE  Typed
  OBVIOUS
<1> USE PodWatcherAssumption
<1>1. P!InformerInv
  BY SameInformer, P!WatchInit DEF Init
<1>2. DoneOK
  BY DEF Init, DoneOK
<1>3. /\ apps = S!Empty /\ pods = S!Empty /\ driverByApp = S!Empty /\ seen = S!Empty
      /\ file = [apps |-> S!Empty, pods |-> S!Empty] /\ cursor = 0 /\ lastChanged = 0
      /\ clock = 2 /\ dirty = FALSE
  BY SameStore, Zenon DEF Init
<1>4. /\ file.apps = S!Empty /\ file.pods = S!Empty
      /\ file = [apps |-> file.apps, pods |-> file.pods]
  BY <1>3
<1>5. \A K, V : S!Partial(S!Empty, K, V)
  BY DEF S!Partial, S!Empty
<1>6. \A K, V : S!Partial([x \in {} |-> x], K, V)
  BY DEF S!Partial
<1>7. dirty \in BOOLEAN /\ (~synced) \in BOOLEAN
  BY <1>3
<1>8. S!FeedTypeOK
  BY <1>3, <1>4, <1>5, <1>6, <1>7 DEF S!FeedTypeOK, S!TypeOK
<1>. QED
  BY <1>1, <1>2, <1>8 DEF Typed

\* All of it is kept.
LEMMA TypedKept == Spec => []Typed
<1>1. Typed /\ [Next]_vars => Typed'
  BY InformerStep, DoneStep, StoreTypeStep DEF Typed
<1>. QED
  BY <1>1, TypedInit, PTL DEF Spec

\* The parts keep their types over half-done steps, saves, crashes and reloads, and
\* no callback of a step is made that the step does not call for
\* (event_handler.go:67-182, state_store.go:86).
THEOREM TypesAreKept == Spec => []TypeOK
<1>1. Typed => TypeOK
  <2> USE PodWatcherAssumption
  <2> SUFFICES ASSUME Typed
               PROVE  TypeOK
    OBVIOUS
  <2>1. I!TypeOK
    BY SameInformer, P!TypesFollow DEF Typed
  <2>2. F!FeedTypeOK
    BY SameStore DEF Typed
  <2>. QED
    BY <2>1, <2>2 DEF Typed, DoneOK, TypeOK
<1>. QED
  BY <1>1, TypedKept, PTL

-----------------------------------------------------------------------------
(* What the store holds is what was reported.                              *)

\* Every pod is the driver of an application of its own (hazard: a driver created
\* again under the same appSparkID).
OneDriver == \A u, w \in I!Uids : AppOf[u] = AppOf[w] => u = w

\* A pod is gone.
Ended(u) == ~P!Alive(history, u, P!Latest)

\* Records as and ps hold what v says.  A driver reported alive is without its
\* record only if it is gone; so is one whose application has a deletion time.
Fits(as, ps, v) ==
  /\ DOMAIN ps \subseteq DOMAIN v
  /\ \A u \in DOMAIN ps : /\ ps[u].app = AppOf[u] /\ ps[u].role = "driver"
                          /\ AppOf[u] \in DOMAIN as
                          /\ ps[u].status = StatusOf(u, v[u])
  /\ \A u \in DOMAIN v : u \in DOMAIN ps \/ (AppOf[u] \notin DOMAIN as /\ Ended(u))
  /\ \A a \in DOMAIN as : \E u \in DOMAIN ps :
       AppOf[u] = a /\ as[a].status = StatusOf(u, v[u])
  /\ \A u \in I!Uids : AppOf[u] \in DOMAIN as /\ as[AppOf[u]].deletedAt # 0 => Ended(u)

\* What one callback does to the records: victims are evicted.
Recorded(call, victims) ==
  LET u == call.object.uid
      a == AppOf[u]
      status == StatusOf(u, P!Entry(call.object, call.deleted))
  IN /\ \A b \in victims : \/ b = a /\ call.deleted
                           \/ b \in DOMAIN apps /\ apps[b].deletedAt # 0
     /\ DOMAIN apps' = (DOMAIN apps \cup {a}) \ victims
     /\ \A b \in DOMAIN apps' : b # a => apps'[b] = apps[b]
     /\ a \in DOMAIN apps' =>
          /\ apps'[a].status = status
          /\ apps'[a].deletedAt # 0 =>
               call.deleted \/ (a \in DOMAIN apps /\ apps[a].deletedAt # 0)
     /\ DOMAIN pods' = {k \in DOMAIN pods \cup {u} :
                          (IF k = u THEN a ELSE pods[k].app) \notin victims}
     /\ \A k \in DOMAIN pods' : k # u => pods'[k] = pods[k]
     /\ u \in DOMAIN pods' =>
          pods'[u].app = a /\ pods'[u].role = "driver" /\ pods'[u].status = status

\* It does that.
LEMMA CallbackRecords ==
  ASSUME Typed, S!OnlyDrivers, S!OwnersKnown(apps, pods), NEW call, CallOK(call),
         NEW bootstrap \in BOOLEAN, S!Upsert(Driver(call.object), call.deleted, bootstrap)
  PROVE  \E victims : Recorded(call, victims)
<1> USE StoreConstants
<1>1. P!WatchInv /\ S!TypeOK
  BY DEF Typed, P!InformerInv, S!FeedTypeOK
<1>2. PICK pod : pod = Driver(call.object)
  OBVIOUS
<1>3. PICK deleted : deleted = call.deleted
  OBVIOUS
<1>4. PICK u : u = call.object.uid
  OBVIOUS
<1>5. PICK a : a = AppOf[u]
  OBVIOUS
<1>6. /\ pod \in S!PodObject /\ pod.role = "driver" /\ pod.app = a /\ pod.uid = u
      /\ pod.phase = PhaseAt(u, call.object.rv) /\ deleted \in BOOLEAN
  BY <1>1, <1>2, <1>3, <1>4, <1>5, DriverOK, Zenon
<1>7. S!Upsert(pod, deleted, bootstrap)
  BY <1>2, <1>3
<1>8. PICK as, ps : /\ as = S!AppsWith(pod, deleted, bootstrap)
                    /\ ps = S!PodsWith(pod, deleted)
  OBVIOUS
<1>9. PICK victims \in SUBSET S!DeletedApps(as) :
        apps' = S!Without(as, victims) /\ pods' = S!Without(ps, S!OwnedBy(ps, victims))
  BY <1>6, <1>7, <1>8, S!DriverUpsert
<1>10. PICK after : after = S!AppAfter(pod, deleted, bootstrap)
  OBVIOUS
<1>11. PICK left : left = S!PodAfter(pod, deleted)
  OBVIOUS
<1>12. /\ DOMAIN as = DOMAIN apps \cup {a} /\ as[a] = after
       /\ \A b \in DOMAIN apps : b # a => as[b] = apps[b]
       /\ DOMAIN ps = DOMAIN pods \cup {u} /\ ps[u] = left
       /\ \A k \in DOMAIN pods : k # u => ps[k] = pods[k]
  BY <1>6, <1>8, <1>10, <1>11 DEF S!AppsWith, S!PodsWith, S!Put
<1>13. S!PodStatus(pod, deleted) = StatusOf(u, P!Entry(call.object, call.deleted))
  <2>1. /\ P!Entry(call.object, call.deleted).rv = call.object.rv
        /\ P!Entry(call.object, call.deleted).deleted = call.deleted
    BY EntrySays, Zenon
  <2>. QED
    BY <1>3, <1>6, <2>1, SameStore DEF S!PodStatus, StatusOf
<1>14. /\ after.status = S!PodStatus(pod, deleted)
       /\ after.deletedAt # 0 => deleted \/ (a \in DOMAIN apps /\ apps[a].deletedAt # 0)
  <2>1. pod.app # S!NoApp
    BY <1>7 DEF S!Upsert
  <2>2. /\ after.status = S!PodStatus(pod, deleted)
        /\ after.deletedAt = IF S!Before(pod).deletedAt # S!NoTime
                             THEN S!Before(pod).deletedAt
                             ELSE IF deleted THEN clock ELSE S!NoTime
    BY <1>1, <1>6, <1>10, <2>1, S!DriverAppAfter
  <2>3. S!Before(pod).deletedAt # 0 => a \in DOMAIN apps /\ apps[a].deletedAt # 0
    BY <1>6, SameStore DEF S!Before
  <2>. QED
    BY <2>2, <2>3, SameStore
<1>15. left.app = a /\ left.role = "driver" /\ left.status = S!PodStatus(pod, deleted)
  BY <1>6, <1>11 DEF S!PodAfter
<1>16. \A b \in victims : \/ b = a /\ deleted
                          \/ b \in DOMAIN apps /\ apps[b].deletedAt # 0
  <2> SUFFICES ASSUME NEW b \in victims
               PROVE  \/ b = a /\ deleted
                      \/ b \in DOMAIN apps /\ apps[b].deletedAt # 0
    OBVIOUS
  <2>1. b \in DOMAIN as /\ as[b].deletedAt # 0
    BY <1>9, SameStore DEF S!DeletedApps
  <2>. QED
    BY <1>12, <1>14, <2>1
<1>17. DOMAIN apps' = DOMAIN as \ victims /\ \A b \in DOMAIN apps' : apps'[b] = as[b]
  BY <1>9 DEF S!Without
<1>18. /\ DOMAIN pods' = {k \in DOMAIN ps : ps[k].app \notin victims}
       /\ \A k \in DOMAIN pods' : pods'[k] = ps[k]
  BY <1>9 DEF S!Without, S!OwnedBy
<1>19. DOMAIN pods' = {k \in DOMAIN pods \cup {u} :
                         (IF k = u THEN a ELSE pods[k].app) \notin victims}
  BY <1>12, <1>15, <1>18
<1>20. /\ a \in DOMAIN apps' => apps'[a] = after
       /\ u \in DOMAIN pods' => pods'[u] = left
       /\ \A b \in DOMAIN apps' : b # a => apps'[b] = apps[b]
       /\ \A k \in DOMAIN pods' : k # u => pods'[k] = pods[k]
  BY <1>12, <1>17, <1>18
<1>21. Recorded(call, victims)
  BY <1>3, <1>4, <1>5, <1>12, <1>13, <1>14, <1>15, <1>16, <1>17, <1>19, <1>20
     DEF Recorded
<1>. QED
  BY <1>21

\* Records that fit are those of a store of drivers.
LEMMA FitsDrivers ==
  ASSUME NEW v, Fits(apps, pods, v)
  PROVE  S!OnlyDrivers /\ S!OwnersKnown(apps, pods)
BY DEF Fits, S!OnlyDrivers, S!OwnersKnown

\* A callback leaves records that fit what it reported.
LEMMA FitsRecorded ==
  ASSUME OneDriver, NEW v, DOMAIN v \subseteq I!Uids, Fits(apps, pods, v), UNCHANGED history,
         NEW call, CallOK(call), call.object.uid \in I!Uids,
         NEW victims, Recorded(call, victims),
         NEW w, DOMAIN w = DOMAIN v \cup {call.object.uid},
         w[call.object.uid] = P!Entry(call.object, call.deleted),
         \A k \in DOMAIN v : k # call.object.uid => w[k] = v[k]
  PROVE  Fits(apps', pods', w)
<1>1. PICK u : u = call.object.uid
  OBVIOUS
<1>2. PICK a : a = AppOf[u]
  OBVIOUS
<1>3. PICK status : status = StatusOf(u, P!Entry(call.object, call.deleted))
  OBVIOUS
<1>4. PICK deleted : deleted = call.deleted
  OBVIOUS
<1>5. /\ \A b \in victims : \/ b = a /\ deleted
                            \/ b \in DOMAIN apps /\ apps[b].deletedAt # 0
      /\ DOMAIN apps' = (DOMAIN apps \cup {a}) \ victims
      /\ \A b \in DOMAIN apps' : b # a => apps'[b] = apps[b]
      /\ a \in DOMAIN apps' =>
           /\ apps'[a].status = status
           /\ apps'[a].deletedAt # 0 =>
                deleted \/ (a \in DOMAIN apps /\ apps[a].deletedAt # 0)
      /\ DOMAIN pods' = {k \in DOMAIN pods \cup {u} :
                           (IF k = u THEN a ELSE pods[k].app) \notin victims}
      /\ \A k \in DOMAIN pods' : k # u => pods'[k] = pods[k]
      /\ u \in DOMAIN pods' =>
           pods'[u].app = a /\ pods'[u].role = "driver" /\ pods'[u].status = status
  BY <1>1, <1>2, <1>3, <1>4 DEF Recorded
<1>6. deleted => Ended(u)
  <2>1. call.deleted => ~P!Alive(history, call.object.uid, P!Latest)
    BY Zenon DEF CallOK
  <2>. QED
    BY <1>1, <1>4, <2>1 DEF Ended
<1>7. /\ DOMAIN pods \subseteq DOMAIN v
      /\ \A k \in DOMAIN pods : /\ pods[k].app = AppOf[k] /\ pods[k].role = "driver"
                                /\ AppOf[k] \in DOMAIN apps
                                /\ pods[k].status = StatusOf(k, v[k])
      /\ \A k \in DOMAIN v : k \in DOMAIN pods \/ (AppOf[k] \notin DOMAIN apps /\ Ended(k))
      /\ \A b \in DOMAIN apps : \E k \in DOMAIN pods :
           AppOf[k] = b /\ apps[b].status = StatusOf(k, v[k])
      /\ \A k \in I!Uids :
           AppOf[k] \in DOMAIN apps /\ apps[AppOf[k]].deletedAt # 0 => Ended(k)
  BY DEF Fits
<1>8. /\ u \in I!Uids /\ DOMAIN w = DOMAIN v \cup {u}
      /\ StatusOf(u, w[u]) = status
      /\ \A k \in DOMAIN v : k # u => w[k] = v[k]
  BY <1>1, <1>3
<1>9. \A k \in I!Uids : AppOf[k] \in victims => Ended(k)
  <2> SUFFICES ASSUME NEW k \in I!Uids, AppOf[k] \in victims
               PROVE  Ended(k)
    OBVIOUS
  <2>1. CASE AppOf[k] = a /\ deleted
    <3>1. k = u
      BY <1>2, <1>8, <2>1 DEF OneDriver
    <3>. QED
      BY <1>6, <2>1, <3>1
  <2>2. CASE AppOf[k] \in DOMAIN apps /\ apps[AppOf[k]].deletedAt # 0
    BY <1>7, <2>2
  <2>. QED
    BY <1>5, <2>1, <2>2
<1>10. \A k \in DOMAIN v : k \in I!Uids
  OBVIOUS
<1>11. \A k \in DOMAIN v : k # u => AppOf[k] # a
  BY <1>2, <1>8, <1>10 DEF OneDriver
<1>12. \A k \in DOMAIN pods' : \/ k = u /\ a \notin victims
                              \/ /\ k # u /\ k \in DOMAIN pods /\ AppOf[k] \notin victims
                                 /\ AppOf[k] # a
  <2> SUFFICES ASSUME NEW k \in DOMAIN pods', k # u
               PROVE  k \in DOMAIN pods /\ AppOf[k] \notin victims /\ AppOf[k] # a
    BY <1>5
  <2>. QED
    BY <1>5, <1>7, <1>11
<1>13. DOMAIN pods' \subseteq DOMAIN w
  BY <1>7, <1>8, <1>12
<1>14. ASSUME NEW k \in DOMAIN pods'
       PROVE  /\ pods'[k].app = AppOf[k] /\ pods'[k].role = "driver"
              /\ AppOf[k] \in DOMAIN apps'
              /\ pods'[k].status = StatusOf(k, w[k])
  <2>1. CASE k = u
    BY <1>2, <1>5, <1>8, <1>12, <2>1
  <2>2. CASE k # u
    BY <1>5, <1>7, <1>8, <1>12, <2>2
  <2>. QED
    BY <2>1, <2>2
<1>15. ASSUME NEW k \in DOMAIN w
       PROVE  k \in DOMAIN pods' \/ (AppOf[k] \notin DOMAIN apps' /\ Ended(k))
  <2>1. CASE k = u
    <3>1. a \notin victims => u \in DOMAIN pods'
      BY <1>5
    <3>2. a \in victims => a \notin DOMAIN apps' /\ Ended(u)
      BY <1>2, <1>5, <1>8, <1>9
    <3>. QED
      BY <1>2, <2>1, <3>1, <3>2
  <2>2. CASE k # u /\ k \in DOMAIN pods
    <3>1. k \in I!Uids /\ pods[k].app = AppOf[k]
      BY <1>7, <1>8, <1>10, <2>2
    <3>2. AppOf[k] \notin victims => k \in DOMAIN pods'
      BY <1>5, <2>2, <3>1
    <3>3. AppOf[k] \in victims => AppOf[k] \notin DOMAIN apps' /\ Ended(k)
      BY <1>5, <1>9, <3>1
    <3>. QED
      BY <3>2, <3>3
  <2>3. CASE k # u /\ k \in DOMAIN v /\ AppOf[k] \notin DOMAIN apps /\ Ended(k)
    <3>1. AppOf[k] # a
      BY <1>11, <2>3
    <3>. QED
      BY <1>5, <2>3, <3>1
  <2>. QED
    BY <1>7, <1>8, <2>1, <2>2, <2>3
<1>16. ASSUME NEW b \in DOMAIN apps'
       PROVE  \E k \in DOMAIN pods' : AppOf[k] = b /\ apps'[b].status = StatusOf(k, w[k])
  <2>1. CASE b = a
    <3>1. u \in DOMAIN pods'
      BY <1>5, <2>1
    <3>. QED
      BY <1>2, <1>5, <1>8, <2>1, <3>1
  <2>2. CASE b # a
    <3>1. b \in DOMAIN apps /\ b \notin victims /\ apps'[b] = apps[b]
      BY <1>5, <2>2
    <3>2. PICK k \in DOMAIN pods : AppOf[k] = b /\ apps[b].status = StatusOf(k, v[k])
      BY <1>7, <3>1
    <3>3. k # u
      BY <1>2, <2>2, <3>2
    <3>4. k \in DOMAIN pods'
      BY <1>5, <1>7, <3>1, <3>2, <3>3
    <3>5. w[k] = v[k]
      BY <1>7, <1>8, <3>3
    <3>. QED
      BY <3>1, <3>2, <3>4, <3>5
  <2>. QED
    BY <2>1, <2>2
<1>17. ASSUME NEW k \in I!Uids, AppOf[k] \in DOMAIN apps', apps'[AppOf[k]].deletedAt # 0
       PROVE  Ended(k)
  <2>1. CASE AppOf[k] = a
    <3>1. k = u
      BY <1>2, <1>8, <2>1 DEF OneDriver
    <3>2. deleted \/ (a \in DOMAIN apps /\ apps[a].deletedAt # 0)
      BY <1>5, <1>17, <2>1
    <3>. QED
      BY <1>2, <1>6, <1>7, <1>8, <3>1, <3>2
  <2>2. CASE AppOf[k] # a
    BY <1>5, <1>7, <1>17, <2>2
  <2>. QED
    BY <2>1, <2>2
<1>. QED
  BY <1>13, <1>14, <1>15, <1>16, <1>17 DEF Fits

\* Records go on to fit as events are added: what a pod was up to a version stays,
\* and a pod that is gone stays gone.
LEMMA FitsOn ==
  ASSUME P!WellFormed(history), NEW as, NEW ps, NEW v, P!RecordsOK(v), Fits(as, ps, v),
         history' = history \/ \E e : history' = Append(history, e),
         NEW w, DOMAIN w = DOMAIN v, \A u \in DOMAIN v : w[u] = v[u]
  PROVE  Fits(as, ps, w)'
<1>1. /\ P!Latest \in Nat /\ P!Latest' \in Nat /\ P!Latest' >= P!Latest
      /\ \A r \in 1..P!Latest : history'[r] = history[r]
  BY DEF P!WellFormed, P!Latest
<1>2. \A u : Ended(u) => Ended(u)'
  BY <1>1 DEF Ended, P!Alive
<1>3. \A u \in DOMAIN v : StatusOf(u, w[u])' = StatusOf(u, v[u])
  <2> SUFFICES ASSUME NEW u \in DOMAIN v
               PROVE  StatusOf(u, w[u])' = StatusOf(u, v[u])
    OBVIOUS
  <2>1. v[u].rv \in 1..P!Latest /\ w[u] = v[u]
    BY DEF P!RecordsOK
  <2>2. PhaseAt(u, v[u].rv)' = PhaseAt(u, v[u].rv)
    BY <1>1, <2>1 DEF PhaseAt
  <2>. QED
    BY <2>1, <2>2 DEF StatusOf, F!StatusOfPhase
<1>4. /\ DOMAIN ps \subseteq DOMAIN w
      /\ \A u \in DOMAIN ps : /\ ps[u].app = AppOf[u] /\ ps[u].role = "driver"
                              /\ AppOf[u] \in DOMAIN as
                              /\ ps[u].status = StatusOf(u, w[u])'
  BY <1>3 DEF Fits
<1>5. \A u \in DOMAIN w : u \in DOMAIN ps \/ (AppOf[u] \notin DOMAIN as /\ Ended(u)')
  BY <1>2 DEF Fits
<1>6. \A a \in DOMAIN as : \E u \in DOMAIN ps :
        AppOf[u] = a /\ as[a].status = StatusOf(u, w[u])'
  <2> SUFFICES ASSUME NEW a \in DOMAIN as
               PROVE  \E u \in DOMAIN ps : AppOf[u] = a /\ as[a].status = StatusOf(u, w[u])'
    OBVIOUS
  <2>1. PICK u \in DOMAIN ps : AppOf[u] = a /\ as[a].status = StatusOf(u, v[u])
    BY DEF Fits
  <2>2. u \in DOMAIN v
    BY DEF Fits
  <2>3. StatusOf(u, w[u])' = StatusOf(u, v[u])
    BY <1>3, <2>2
  <2>. QED
    BY <2>1, <2>3
<1>7. \A u \in I!Uids : AppOf[u] \in DOMAIN as /\ as[AppOf[u]].deletedAt # 0 => Ended(u)'
  BY <1>2 DEF Fits
<1>. QED
  BY <1>4, <1>5, <1>6, <1>7, Zenon DEF Fits

\* The records fit, those of the file too.
FitInv == Fits(apps, pods, ViewNow) /\ Fits(file.apps, file.pods, viewFile)

\* Events are only added.
LEMMA HistoryGrows ==
  ASSUME [Next]_vars
  PROVE  \/ Cluster /\ UNCHANGED <<recordVars, feedVars, done, viewFile>>
            /\ \E e : history' = history \/ history' = Append(history, e)
         \/ ~Cluster /\ history' = history
<1>1. CASE Cluster
  BY <1>1 DEF Cluster, I!Create, I!Modify, I!Delete, I!OtherObject, I!Happens, I!Compact,
              I!records
<1>2. CASE ~Cluster
  <2>1. CASE Watch \/ Advance \/ SavePosition
    BY <1>2, <2>1
       DEF Watch, Advance, SavePosition, I!List, I!OpenWatch, I!Drop, I!WatchGone, I!Bookmark,
           I!Seed, I!Reconcile, I!Event, I!SaveBegins, I!SaveEnds, I!SaveFails, I!SaveLands,
           I!cluster
  <2>2. CASE Report \/ SaveState \/ Poll \/ UNCHANGED vars
    BY <1>2, <2>2 DEF Report, SaveState, Poll, vars, informerVars, watcherVars
  <2>3. CASE StopAndStart \/ CrashAndStart
    BY <1>2, <2>3 DEF StopAndStart, CrashAndStart, Reload, I!Starts, I!cluster
  <2>. QED
    BY <1>2, <2>1, <2>2, <2>3 DEF Next
<1>. QED
  BY <1>1, <1>2

\* The same records fit the same reports.
LEMMA FitsStill ==
  ASSUME UNCHANGED history, NEW as, NEW ps, NEW v, Fits(as, ps, v),
         apps' = as, pods' = ps, ViewNow' = v
  PROVE  Fits(apps, pods, ViewNow)'
<1>1. \A u : Ended(u)' <=> Ended(u)
  BY DEF Ended, P!Alive, P!Latest
<1>2. \A u, entry : StatusOf(u, entry)' = StatusOf(u, entry)
  BY DEF StatusOf, PhaseAt, F!StatusOfPhase
<1>. QED
  BY <1>1, <1>2, Zenon DEF Fits

\* The pods that were reported are pods.
LEMMA ViewNowUids ==
  ASSUME Typed
  PROVE  /\ DOMAIN ViewNow \subseteq I!Uids /\ P!RecordsOK(ViewNow)
         /\ DOMAIN viewFile \subseteq I!Uids /\ P!RecordsOK(viewFile)
<1>1. P!WatchInv /\ P!WellFormed(history) /\ DoneOK
  BY DEF Typed, P!InformerInv, P!WatchInv
<1>2. P!RecordsOK(ViewNow) /\ P!RecordsOK(viewFile)
  BY <1>1, ViewNowOK DEF P!WatchInv
<1>3. ASSUME NEW v, P!RecordsOK(v), NEW u \in DOMAIN v
      PROVE  u \in I!Uids
  <2>1. /\ v[u].rv \in 1..P!Latest /\ P!OfPod(history, v[u].rv)
        /\ history[v[u].rv].uid = u
    BY <1>3 DEF P!RecordsOK
  <2>2. u \in 1..v[u].rv /\ P!Latest <= MaxRV /\ P!Latest \in Nat /\ MaxRV \in Nat
    BY <1>1, <2>1, PodWatcherAssumption DEF P!WellFormed, P!Latest
  <2>. QED
    BY <2>1, <2>2 DEF I!Uids
<1>. QED
  BY <1>2, <1>3

\* A callback keeps them fitting.
LEMMA ReportFits ==
  ASSUME OneDriver, Typed, FitInv, Report
  PROVE  Fits(apps, pods, ViewNow)'
<1>1. P!InformerInv /\ P!WatchInv /\ DoneOK
  BY DEF Typed, P!InformerInv
<1>2. PICK call \in StepCalls \ done :
        /\ CallOK(call)
        /\ done' = done \cup {call}
        /\ UNCHANGED <<informerVars, feedVars>>
        /\ S!Upsert(Driver(call.object), call.deleted, ~synced)
  BY <1>1, ReportUpserts
<1>3. UNCHANGED <<history, view>>
  BY <1>2 DEF informerVars, watcherVars
<1>4. PICK v : v = ViewNow
  OBVIOUS
<1>5. PICK w : w = ViewNow'
  OBVIOUS
<1>6. /\ DOMAIN w = DOMAIN v \cup {call.object.uid}
      /\ w[call.object.uid] = P!Entry(call.object, call.deleted)
      /\ \A u \in DOMAIN v : u # call.object.uid => w[u] = v[u]
  BY <1>1, <1>2, <1>3, <1>4, <1>5, CallbackPuts
<1>7. Fits(apps, pods, v)
  BY <1>4 DEF FitInv
<1>8. PICK victims : Recorded(call, victims)
  <2>1. (~synced) \in BOOLEAN
    OBVIOUS
  <2>. QED
    BY <1>2, <1>7, <2>1, FitsDrivers, CallbackRecords
<1>9. DOMAIN v \subseteq I!Uids /\ call.object.uid \in I!Uids
  BY <1>1, <1>2, <1>4, ViewNowUids, DriverOK
<1>10. Fits(apps', pods', w)
  BY <1>2, <1>3, <1>6, <1>7, <1>8, <1>9, FitsRecorded
<1>. QED
  BY <1>3, <1>5, <1>10, FitsStill

\* Nothing but a callback, a save and a new process touches records or file.
LEMMA RecordsRest ==
  ASSUME [Next]_vars, ~Report, ~StopAndStart, ~CrashAndStart
  PROVE  \/ UNCHANGED <<apps, pods, lastChanged, dirty, file, clock, viewFile>>
         \/ SaveState
<1>1. CASE UNCHANGED recordVars
  <2>1. viewFile' = viewFile \/ SaveState
    BY DEF Next, vars, informerVars, Cluster, I!Create, I!Modify, I!Delete, I!OtherObject,
           I!Happens, I!Compact, Watch, I!List, I!OpenWatch, I!Drop, I!WatchGone, I!Bookmark,
           Advance, I!Seed, I!Reconcile, I!Event, SavePosition, I!SaveBegins, I!SaveEnds,
           I!SaveFails, I!SaveLands, Poll, I!records
  <2>. QED
    BY <1>1, <2>1 DEF recordVars
<1>2. CASE Poll
  <2>1. UNCHANGED <<informerVars, F!vars>>
    BY <1>2 DEF Poll, F!Request
  <2>. QED
    BY <2>1 DEF F!vars, informerVars
<1>3. CASE Cluster \/ Watch \/ Advance \/ SavePosition \/ UNCHANGED vars
  BY <1>1, <1>3 DEF Cluster, Watch, Advance, SavePosition, vars
<1>. QED
  BY <1>2, <1>3 DEF Next

\* Every step does.
LEMMA FitStep ==
  ASSUME OneDriver, Typed, FitInv, [Next]_vars
  PROVE  FitInv'
<1>1. P!InformerInv /\ P!WatchInv /\ DoneOK /\ P!WellFormed(history)
  BY DEF Typed, P!InformerInv, P!WatchInv
<1>2. history' = history \/ \E e : history' = Append(history, e)
  BY HistoryGrows
<1>3. PICK fa, fp, fv : fa = file.apps /\ fp = file.pods /\ fv = viewFile
  OBVIOUS
<1>4. PICK as, ps, v : as = apps /\ ps = pods /\ v = ViewNow
  OBVIOUS
<1>5. /\ Fits(as, ps, v) /\ P!RecordsOK(v) /\ Fits(fa, fp, fv) /\ P!RecordsOK(fv)
  BY <1>3, <1>4, ViewNowUids DEF FitInv
<1>6. Fits(as, ps, v)' /\ Fits(fa, fp, fv)'
  BY <1>1, <1>2, <1>5, FitsOn
<1>7. ASSUME UNCHANGED <<file, viewFile>>
      PROVE  Fits(file.apps, file.pods, viewFile)'
  BY <1>3, <1>6, <1>7 DEF Fits
<1>8. ASSUME UNCHANGED <<apps, pods>>, SameView
      PROVE  Fits(apps, pods, ViewNow)'
  <2>1. PICK w : w = ViewNow'
    OBVIOUS
  <2>2. DOMAIN w = DOMAIN v /\ \A u \in DOMAIN v : w[u] = v[u]
    BY <1>4, <1>8, <2>1 DEF SameView
  <2>3. Fits(as, ps, w)'
    BY <1>1, <1>2, <1>5, <2>2, FitsOn
  <2>. QED
    BY <1>4, <1>8, <2>1, <2>3 DEF Fits
<1>9. CASE Report
  <2>1. UNCHANGED <<file, viewFile>>
    BY <1>1, <1>9, ReportUpserts DEF informerVars, S!Upsert
  <2>. QED
    BY <1>7, <1>9, <2>1, ReportFits DEF FitInv
<1>10. CASE StopAndStart \/ CrashAndStart
  <2>1. /\ view' = viewFile /\ viewFile' = viewFile /\ done' = {} /\ F!Restart
    BY <1>10 DEF StopAndStart, CrashAndStart, Reload
  <2>2. file' = file /\ apps' = fa /\ pods' = fp
    BY <1>3, <2>1 DEF F!Restart
  <2>3. PICK w : w = ViewNow'
    OBVIOUS
  <2>4. DOMAIN w = DOMAIN fv /\ \A u \in DOMAIN fv : w[u] = fv[u]
    <3>1. DOMAIN ViewNow' = DOMAIN view' /\ \A u \in DOMAIN view' : ViewNow'[u] = view'[u]
      BY <2>1 DEF ViewNow
    <3>. QED
      BY <1>3, <2>1, <2>3, <3>1
  <2>5. Fits(fa, fp, w)'
    BY <1>1, <1>2, <1>5, <2>4, FitsOn
  <2>6. Fits(apps, pods, ViewNow)'
    BY <2>2, <2>3, <2>5 DEF Fits
  <2>. QED
    BY <1>7, <2>1, <2>2, <2>6 DEF FitInv
<1>11. CASE ~Report /\ ~StopAndStart /\ ~CrashAndStart
  <2>1. SameView
    BY <1>1, <1>11, ViewStays
  <2>2. CASE UNCHANGED <<apps, pods, lastChanged, dirty, file, clock, viewFile>>
    BY <1>7, <1>8, <2>1, <2>2 DEF FitInv
  <2>3. CASE SaveState
    <3>1. /\ viewFile' = ViewNow /\ UNCHANGED <<apps, pods>>
          /\ file' = [apps |-> apps, pods |-> pods]
      BY <2>3 DEF SaveState, F!Save, F!Snapshot
    <3>2. file'.apps = as /\ file'.pods = ps /\ viewFile' = v
      BY <1>4, <3>1
    <3>3. Fits(file.apps, file.pods, viewFile)'
      BY <1>6, <3>2 DEF Fits
    <3>. QED
      BY <1>8, <2>1, <3>1, <3>3 DEF FitInv
  <2>. QED
    BY <1>11, <2>2, <2>3, RecordsRest
<1>. QED
  BY <1>9, <1>10, <1>11

\* They do throughout.
LEMMA FitKept ==
  ASSUME OneDriver
  PROVE  Spec => [](Typed /\ FitInv)
<1>1. Init => FitInv
  <2> SUFFICES ASSUME Init
               PROVE  FitInv
    OBVIOUS
  <2>1. /\ apps = F!Empty /\ pods = F!Empty /\ file = [apps |-> F!Empty, pods |-> F!Empty]
        /\ view = I!Empty /\ viewFile = I!Empty /\ done = {}
    BY DEF Init, I!Init
  <2>2. DOMAIN ViewNow = {} /\ DOMAIN viewFile = {}
    BY <2>1 DEF ViewNow, I!Empty
  <2>3. ASSUME NEW v, DOMAIN v = {}
        PROVE  Fits(F!Empty, F!Empty, v)
    BY <2>3 DEF Fits, F!Empty
  <2>4. Fits(F!Empty, F!Empty, ViewNow) /\ Fits(F!Empty, F!Empty, viewFile)
    BY <2>2, <2>3
  <2>5. file.apps = F!Empty /\ file.pods = F!Empty
    BY <2>1
  <2>. QED
    BY <2>1, <2>4, <2>5, Zenon DEF FitInv
<1>2. FitInv /\ Typed /\ [Next]_vars => FitInv'
  BY FitStep
<1>. QED
  BY <1>1, <1>2, TypedKept, PTL DEF Spec

\* Every record says what was last reported of its pod, and a pod reported alive has
\* its record unless it is gone and was evicted with its application, over half-done
\* steps, saves, crashes and reloads (event_handler.go:67-182, state_store.go:215-330).
THEOREM RecordsFollow ==
  ASSUME OneDriver
  PROVE  Spec => []RecordsFollowReports
<1>1. Typed /\ FitInv => RecordsFollowReports
  <2> SUFFICES ASSUME Typed, FitInv
               PROVE  RecordsFollowReports
    OBVIOUS
  <2> USE PodWatcherAssumption
  <2>1. P!WellFormed(history) /\ P!Latest \in 0..P!Latest
    BY DEF Typed, P!InformerInv, P!WatchInv, P!WellFormed, P!Latest
  <2>2. \A u : Ended(u) => I!GoneBy(u, I!Latest)
    BY <2>1, SameInformer, P!GoneIs DEF Ended
  <2>3. Fits(apps, pods, ViewNow)
    BY DEF FitInv
  <2>. QED
    BY <2>2, <2>3 DEF Fits, RecordsFollowReports
<1>. QED
  BY <1>1, FitKept, PTL

\* Once the startup snapshot is delivered, a callback is about what comes after the
\* position, if there is one.
LEMMA CallsAhead ==
  ASSUME P!InformerInv, synced, NEW call \in StepCalls, lastRV # P!NoRV
  PROVE  call.object.rv > lastRV
<1> USE PodWatcherAssumption
<1>1. /\ P!WatchInv /\ P!SavedOK /\ P!WellFormed(history) /\ P!Latest \in Nat
      /\ lastRV \in 0..P!Latest
  BY DEF P!InformerInv, P!WatchInv, P!WellFormed, P!PositionOK, P!Latest
<1>2. ~(stage = "listed")
  BY <1>1 DEF P!SavedOK
<1>3. stage = "watching" /\ I!Unsent # {} /\ call \in EventCalls
  BY <1>2 DEF StepCalls
<1>4. sent = lastRV
  BY <1>1, <1>3 DEF P!WatchInv, P!PositionOK
<1>5. PICK r : r = I!NextEvent
  OBVIOUS
<1>6. r \in (lastRV + 1)..P!Latest
  BY <1>1, <1>3, <1>4, <1>5, SameInformer, P!NextFacts
<1>7. PICK o, gone : /\ o = I!Object(r) /\ gone = (history[r].kind = "Deleted")
  OBVIOUS
<1>8. EventCalls = IF ~gone /\ I!Known(o) THEN {} ELSE Calls({o}, gone)
  BY <1>5, <1>7 DEF EventCalls
<1>9. call \in Calls({o}, gone)
  BY <1>3, <1>8
<1>10. call.object \in {o}
  BY <1>9, CallsOf, Zenon
<1>11. call.object.rv = r
  BY <1>7, <1>10 DEF I!Object
<1>. QED
  BY <1>1, <1>6, <1>11

\* What the phase of a pod was it stays.
LEMMA PhaseStays ==
  ASSUME NEW u, NEW rv \in Nat, NEW q \in 0..rv, PhaseAt(u, q) = "Succeeded"
  PROVE  PhaseAt(u, rv) = "Succeeded"
<1>1. PICK r \in 1..q : history[r].uid = u /\ history[r].kind = "Modified"
  BY DEF PhaseAt
<1>2. r \in 1..rv
  OBVIOUS
<1>. QED
  BY <1>1, <1>2 DEF PhaseAt

\* A driver that exists and was created before the position has its record, not
\* recorded deleted, and no change up to the position is missing from it, whatever
\* restarts, crashes, 410s and failing saves do (pod_informer.go:261-330, :413-448).
THEOREM LiveAreRecorded ==
  ASSUME OneDriver
  PROVE  Spec => []LiveRecorded
<1>1. Typed /\ FitInv => LiveRecorded
  <2> SUFFICES ASSUME Typed, FitInv, synced, NEW pod \in I!Current,
                      I!HadEvent(pod.uid, lastRV)
               PROVE  /\ pod.uid \in DOMAIN pods
                      /\ pods[pod.uid].status # "deleted"
                      /\ PhaseAt(pod.uid, I!LastEvent(pod.uid, lastRV)) = "Succeeded" =>
                           pods[pod.uid].status = "succeeded"
    BY Zenon DEF LiveRecorded
  <2> USE PodWatcherAssumption
  <2>1. /\ P!InformerInv /\ P!WatchInv /\ DoneOK /\ P!WellFormed(history)
        /\ lastRV \in 0..P!Latest /\ P!Latest \in Nat /\ P!Latest = Len(history)
    BY WatchFacts DEF Typed, P!InformerInv
  <2>2. PICK u : u = pod.uid
    OBVIOUS
  <2>3. PICK l : l = P!LastEvent(u, lastRV)
    OBVIOUS
  <2>4. pod \in P!Current /\ P!HadEvent(u, lastRV)
    BY <2>2, SameInformer
  <2>5. l \in 1..lastRV
    BY <2>1, <2>3, <2>4, P!LastEventIs
  <2>6. P!Alive(history, u, P!Latest) /\ ~Ended(u)
    <3>1. pod \in P!ObjectsAt(history, Len(history)) /\ Len(history) \in 0..Len(history)
      BY <2>1, <2>4, P!CurrentObjects
    <3>2. P!Alive(history, pod.uid, Len(history))
      BY <2>1, <3>1, P!ObjectFacts
    <3>. QED
      BY <2>1, <2>2, <3>2 DEF Ended
  <2>7. u \in DOMAIN view /\ ~view[u].deleted /\ view[u].rv >= l
    BY <2>1, <2>2, <2>3, <2>4, P!LiveFollows DEF P!LiveKnown
  <2>8. u \in DOMAIN ViewNow /\ ~ViewNow[u].deleted /\ ViewNow[u].rv >= l
    <3>1. CASE \E call \in done : call.object.uid = u
      <4>1. PICK call \in done : call.object.uid = u
        BY <3>1
      <4>2. CallOK(call) /\ call \in StepCalls
        BY <2>1, <4>1, CallsAreOK DEF DoneOK
      <4>3. ~call.deleted
        BY <2>6, <4>1, <4>2, Zenon DEF CallOK
      <4>4. lastRV # P!NoRV
        BY <2>1, <2>5 DEF P!NoRV
      <4>5. call.object.rv > lastRV
        BY <2>1, <4>2, <4>4, CallsAhead
      <4>6. u \in DOMAIN ViewNow /\ ViewNow[u] = P!Entry(call.object, call.deleted)
        BY <2>1, <4>1, ViewNowIs
      <4>7. ViewNow[u].rv = call.object.rv /\ ViewNow[u].deleted = call.deleted
        <5>1. /\ P!Entry(call.object, call.deleted).rv = call.object.rv
              /\ P!Entry(call.object, call.deleted).deleted = call.deleted
          BY EntrySays, Zenon
        <5>. QED
          BY <4>6, <5>1, Zenon
      <4>8. call.object.rv \in 1..P!Latest
        BY <4>2 DEF CallOK
      <4>9. call.object.rv >= l
        BY <2>1, <2>5, <4>5, <4>8
      <4>10. ~ViewNow[u].deleted
        BY <4>3, <4>7, Zenon
      <4>. QED
        BY <4>6, <4>7, <4>9, <4>10
    <3>2. CASE ~ \E call \in done : call.object.uid = u
      BY <2>1, <2>7, <3>2, ViewNowIs
    <3>. QED
      BY <3>1, <3>2
  <2>9. u \in DOMAIN pods /\ pods[u].status = StatusOf(u, ViewNow[u])
    BY <2>6, <2>8 DEF FitInv, Fits
  <2>10. PICK q : q = ViewNow[u].rv
    OBVIOUS
  <2>11. q \in Nat /\ q >= l
    BY <2>8, <2>10, ViewNowUids DEF P!RecordsOK
  <2>12. pods[u].status = F!StatusOfPhase[PhaseAt(u, q)]
    BY <2>8, <2>9, <2>10 DEF StatusOf
  <2>13. PhaseAt(u, q) \in {"Succeeded", "Running"}
    BY DEF PhaseAt
  <2>14. PhaseAt(u, l) = "Succeeded" => PhaseAt(u, q) = "Succeeded"
    <3>1. l \in 0..q
      BY <2>1, <2>5, <2>11
    <3>. QED
      BY <2>11, <3>1, PhaseStays
  <2>15. pods[u].status # "deleted"
    BY <2>12, <2>13 DEF F!StatusOfPhase
  <2>16. PhaseAt(u, l) = "Succeeded" => pods[u].status = "succeeded"
    BY <2>12, <2>14 DEF F!StatusOfPhase
  <2>17. l = I!LastEvent(pod.uid, lastRV)
    BY <2>2, <2>3, SameInformer
  <2>. QED
    BY <2>2, <2>9, <2>15, <2>16, <2>17
<1>. QED
  BY <1>1, FitKept, PTL

\* What gap and blind stand for is kept.
LEMMA GhostKept == Spec => []P!GhostInv
<1> USE PodWatcherAssumption
<1>1. Init => P!GhostInv
  BY SameInformer, P!GhostInit DEF Init
<1>2. Typed /\ P!GhostInv /\ [Next]_vars => P!GhostInv'
  BY NoGhostStep DEF Typed
<1>. QED
  BY <1>1, <1>2, TypedKept, PTL DEF Spec

\* No driver whose deletion the position has passed is on record as alive, over
\* half-done steps, crashes and saves of position and records in any order, except
\* past what blind and gap mark (pod_informer.go:29, :289-330).
THEOREM DeletionsAreRecorded ==
  ASSUME OneDriver
  PROVE  Spec => []DeletionsRecorded
<1>1. Typed /\ FitInv /\ P!GhostInv => DeletionsRecorded
  <2> SUFFICES ASSUME Typed, FitInv, P!GhostInv, ~blind, ~gap, synced,
                      NEW u \in DOMAIN pods, I!GoneBy(u, lastRV)
               PROVE  pods[u].status = "deleted"
    BY DEF DeletionsRecorded
  <2> USE PodWatcherAssumption
  <2>1. /\ P!InformerInv /\ P!WatchInv /\ DoneOK /\ P!WellFormed(history)
        /\ lastRV \in 0..P!Latest /\ P!Latest \in Nat /\ P!Latest = Len(history)
    BY WatchFacts DEF Typed, P!InformerInv
  <2>2. ~P!Alive(history, u, lastRV)
    BY <2>1, SameInformer, P!GoneIs
  <2>3. PICK d \in 1..lastRV : history[d].kind = "Deleted" /\ history[d].uid = u
    BY <2>2 DEF P!Alive
  <2>4. u \in DOMAIN ViewNow /\ pods[u].status = StatusOf(u, ViewNow[u])
    BY DEF FitInv, Fits
  <2>5. ~ \E call \in done : call.object.uid = u
    <3> SUFFICES ASSUME NEW call \in done, call.object.uid = u
                 PROVE  FALSE
      OBVIOUS
    <3>1. CallOK(call) /\ call \in StepCalls
      BY <2>1, CallsAreOK DEF DoneOK
    <3>2. lastRV # P!NoRV
      BY <2>1, <2>3 DEF P!NoRV
    <3>3. call.object.rv > lastRV
      BY <2>1, <3>1, <3>2, CallsAhead
    <3>4. call.object.rv \in 1..P!Latest /\ history[call.object.rv].uid = u
      BY <3>1 DEF CallOK, P!ObjectOf
    <3>5. d \in 1..Len(history) /\ d < call.object.rv /\ call.object.rv \in 1..Len(history)
      BY <2>1, <2>3, <3>3, <3>4
    <3>6. history[call.object.rv].uid # history[d].uid
      BY <2>1, <2>3, <3>5 DEF P!WellFormed
    <3>. QED
      BY <2>3, <3>4, <3>6
  <2>6. u \in DOMAIN view /\ ViewNow[u] = view[u]
    BY <2>1, <2>4, <2>5, ViewNowIs
  <2>7. view[u].deleted
    BY <2>2, <2>6 DEF P!GhostInv, P!NoGhost
  <2>. QED
    BY <2>4, <2>6, <2>7 DEF StatusOf
<1>. QED
  BY <1>1, FitKept, GhostKept, PTL

-----------------------------------------------------------------------------
(* What reaches the consumer.                                              *)

\* A stamp that no later one is equal to.
Past(t) == t <= lastChanged \/ t < clock

\* Stamps are in the past and their own, those of deletions among them; only the
\* records of a cold start have the second of their pods in common.
Stamped(as) ==
  \A a \in DOMAIN as :
    /\ Past(as[a].changedAt)
    /\ as[a].status = "deleted" => as[a].changedAt > 1
    /\ \A b \in DOMAIN as : as[b].changedAt = as[a].changedAt /\ as[a].changedAt > 1 => a = b

StampInv == clock > 1 /\ Past(cursor) /\ Stamped(apps) /\ Stamped(file.apps)

\* The startup list has no pod that is on record as deleted.
ListedLive ==
  stage = "listed" /\ ~synced =>
    \A u \in DOMAIN view : view[u].deleted => ~P!Alive(history, u, list.rv)

\* A store that is not dirty has every deletion as the file has it.
SavedDeletions ==
  ~dirty => \A a \in DOMAIN file.apps :
              file.apps[a].status = "deleted" => a \in DOMAIN apps /\ apps[a] = file.apps[a]

\* What one callback does to the change times.
Restamped(a, call) ==
  /\ UNCHANGED <<file, clock>> /\ lastChanged' \in Nat /\ lastChanged' >= lastChanged
  /\ \A b \in DOMAIN apps' : b # a => b \in DOMAIN apps /\ apps'[b] = apps[b]
  /\ a \in DOMAIN apps' =>
       \/ a \in DOMAIN apps /\ apps'[a] = apps[a]
       \/ /\ lastChanged' > lastChanged /\ lastChanged' >= clock
          /\ apps'[a].changedAt = lastChanged'
       \/ /\ apps'[a].status # "deleted"
          /\ apps'[a].changedAt = IF a \in DOMAIN apps THEN apps[a].changedAt ELSE 1
  /\ ~dirty' => /\ ~dirty /\ ~synced /\ a = AppOf[call.object.uid]
                /\ a \in DOMAIN apps /\ DOMAIN apps \subseteq DOMAIN apps'

\* The callbacks of the startup snapshot are of the list's pods.
LEMMA SnapshotCalls ==
  ASSUME P!WatchInv, ~synced, NEW call \in StepCalls
  PROVE  /\ stage = "listed" /\ call.deleted = FALSE
         /\ P!Alive(history, call.object.uid, list.rv)
<1> USE PodWatcherAssumption
<1>1. /\ P!WellFormed(history) /\ P!Latest = Len(history) /\ lastRV \in 0..P!Latest
      /\ stage # "watching"
  BY DEF P!WatchInv, P!PositionOK, P!Latest
<1>2. stage = "listed" /\ call \in Calls(list.pods, FALSE)
  BY <1>1 DEF StepCalls
<1>3. call.object \in list.pods /\ call.deleted = FALSE
  BY <1>2, CallsOf, Zenon
<1>4. list.rv \in 0..Len(history) /\ list.pods = P!ObjectsAt(history, list.rv)
  BY <1>1, <1>2 DEF P!WatchInv, P!ListOK, P!WellFormed
<1>5. P!Alive(history, call.object.uid, list.rv)
  BY <1>1, <1>3, <1>4, P!ObjectFacts
<1>. QED
  BY <1>2, <1>3, <1>5

\* It does that.
LEMMA CallbackStamps ==
  ASSUME Typed, NEW call \in StepCalls,
         S!Upsert(Driver(call.object), call.deleted, ~synced)
  PROVE  \E a : Restamped(a, call)
<1> USE StoreConstants
<1>1. P!WatchInv /\ S!TypeOK
  BY DEF Typed, P!InformerInv, S!FeedTypeOK
<1>2. CallOK(call)
  BY <1>1, CallsAreOK
<1>3. PICK pod, deleted : pod = Driver(call.object) /\ deleted = call.deleted
  OBVIOUS
<1>4. PICK a : a = AppOf[call.object.uid]
  OBVIOUS
<1>5. /\ pod \in S!PodObject /\ pod.role = "driver" /\ pod.app = a
      /\ pod.phase = PhaseAt(call.object.uid, call.object.rv) /\ deleted \in BOOLEAN
  BY <1>1, <1>2, <1>3, <1>4, DriverOK, Zenon
<1>6. UNCHANGED <<file, clock>>
  BY DEF S!Upsert
<1>7. CASE synced
  <2>1. (~synced) = FALSE
    BY <1>7
  <2>2. S!Upsert(pod, deleted, FALSE)
    BY <1>3, <2>1
  <2>3. S!Moves /\ dirty'
    BY <1>1, <1>5, <2>2, S!LiveUpsertMoves
  <2>4. /\ lastChanged' \in Nat /\ lastChanged' >= lastChanged
        /\ \E only : \A b \in DOMAIN apps' :
             \/ b \in DOMAIN apps /\ apps'[b] = apps[b]
             \/ /\ b = only
                /\ apps'[b].changedAt = lastChanged'
                /\ lastChanged' > lastChanged /\ lastChanged' >= clock
    BY <2>3, Zenon DEF S!Moves
  <2>5. PICK only : \A b \in DOMAIN apps' :
             \/ b \in DOMAIN apps /\ apps'[b] = apps[b]
             \/ /\ b = only
                /\ apps'[b].changedAt = lastChanged'
                /\ lastChanged' > lastChanged /\ lastChanged' >= clock
    BY <2>4, Zenon
  <2>6. Restamped(only, call)
    BY <1>6, <2>3, <2>4, <2>5 DEF Restamped
  <2>. QED
    BY <2>6
<1>8. CASE ~synced
  <2>1. (~synced) = TRUE
    BY <1>8
  <2>2. deleted = FALSE
    BY <1>1, <1>3, <1>8, SnapshotCalls
  <2>3. S!Upsert(pod, FALSE, TRUE)
    BY <1>3, <2>1, <2>2
  <2>4. PICK after : after = S!AppAfter(pod, FALSE, TRUE)
    OBVIOUS
  <2>5. PICK victims : apps' = S!Without(S!AppsWith(pod, FALSE, TRUE), victims)
    BY <2>3 DEF S!Upsert
  <2>6. \A b \in DOMAIN apps' : \/ b = a /\ apps'[b] = after
                                \/ b # a /\ b \in DOMAIN apps /\ apps'[b] = apps[b]
    BY <1>5, <2>4, <2>5 DEF S!AppsWith, S!Put, S!Without
  <2>7. pod.phase \in {"Running", "Succeeded"}
    BY <1>5 DEF PhaseAt
  <2>8. pod.app # S!NoApp
    BY <2>3 DEF S!Upsert
  <2>9. /\ after.status = S!PodStatus(pod, FALSE)
        /\ after.changedAt = IF a \in DOMAIN apps THEN apps[a].changedAt
                             ELSE S!BootstrapChangedAt(pod, S!Observed(pod, FALSE))
    BY <1>1, <1>5, <2>4, <2>8, S!DriverAppAfter
  <2>10. after.status # "deleted"
    BY <2>7, <2>9 DEF S!PodStatus, S!StatusOfPhase
  <2>11. ASSUME a \notin DOMAIN apps
         PROVE  S!BootstrapChangedAt(pod, S!Observed(pod, FALSE)) = 1
    <3>1. PICK new : new = S!Observed(pod, FALSE)
      OBVIOUS
    <3>2. pod.created = 1 /\ pod.finished = IF pod.phase = "Succeeded" THEN 1 ELSE 0
      BY <1>3, <1>5, SameStore DEF Driver
    <3>3. S!Before(pod) = [status |-> "unknown", changedAt |-> 0, finishedAt |-> 0,
                           deletedAt |-> 0]
      BY <1>5, <2>11, SameStore DEF S!Before
    <3>4. new.finishedAt = IF S!Terminal(pod) THEN S!OrNow(pod.finished) ELSE 0
      BY <1>5, <3>1, <3>3, SameStore DEF S!Observed
    <3>5. S!Terminal(pod) <=> pod.phase = "Succeeded"
      BY <2>7 DEF S!Terminal
    <3>6. S!NoTime = 0
      BY SameStore
    <3>7. S!BootstrapChangedAt(pod, new) = 1
      BY <3>2, <3>4, <3>5, <3>6 DEF S!BootstrapChangedAt, S!OrNow
    <3>. QED
      BY <3>1, <3>7
  <2>12. lastChanged' = lastChanged /\ lastChanged \in Nat
    BY <1>1, <2>3 DEF S!Upsert, S!TypeOK
  <2>13. ASSUME ~dirty'
         PROVE  ~dirty /\ a \in DOMAIN apps /\ DOMAIN apps \subseteq DOMAIN apps'
    <3>1. dirty \in BOOLEAN /\ TRUE \in BOOLEAN /\ FALSE \in BOOLEAN
      BY <1>1 DEF S!TypeOK
    <3>2. /\ ~dirty /\ pod.app \in DOMAIN apps
          /\ apps' = S!AppsWith(pod, FALSE, TRUE)
      BY <2>3, <2>13, <3>1, S!QuietUpsert
    <3>. QED
      BY <1>5, <3>2 DEF S!AppsWith, S!Put
  <2>14. after.changedAt = IF a \in DOMAIN apps THEN apps[a].changedAt ELSE 1
    BY <2>9, <2>11
  <2>15. Restamped(a, call)
    BY <1>4, <1>6, <1>8, <2>6, <2>10, <2>12, <2>13, <2>14 DEF Restamped
  <2>. QED
    BY <2>15
<1>. QED
  BY <1>7, <1>8

\* A callback keeps the stamps apart.
LEMMA ReportStamps ==
  ASSUME Typed, StampInv, UNCHANGED cursor, NEW a, NEW call, Restamped(a, call)
  PROVE  StampInv'
<1>1. /\ lastChanged \in Nat /\ clock \in Nat /\ cursor \in Nat
      /\ \A b \in DOMAIN apps : apps[b].changedAt \in Nat
  BY DEF Typed, S!FeedTypeOK, S!TypeOK, S!Partial, S!ApplicationRecord
<1>2. /\ UNCHANGED <<file, clock>> /\ lastChanged' \in Nat /\ lastChanged' >= lastChanged
      /\ \A b \in DOMAIN apps' : b # a => b \in DOMAIN apps /\ apps'[b] = apps[b]
      /\ a \in DOMAIN apps' =>
           \/ a \in DOMAIN apps /\ apps'[a] = apps[a]
           \/ /\ lastChanged' > lastChanged /\ lastChanged' >= clock
              /\ apps'[a].changedAt = lastChanged'
           \/ /\ apps'[a].status # "deleted"
              /\ apps'[a].changedAt = IF a \in DOMAIN apps THEN apps[a].changedAt ELSE 1
  BY DEF Restamped
<1>3. ASSUME NEW t \in Nat, Past(t)
      PROVE  Past(t)'
  BY <1>1, <1>2, <1>3 DEF Past
<1>4. Stamped(file.apps)'
  <2>1. \A b \in DOMAIN file.apps : file.apps[b].changedAt \in Nat
    BY DEF Typed, S!FeedTypeOK, S!TypeOK, S!Partial, S!ApplicationRecord
  <2>. QED
    BY <1>2, <1>3, <2>1 DEF StampInv, Stamped
<1>5. clock' > 1 /\ Past(cursor)'
  BY <1>1, <1>2, <1>3 DEF StampInv, Past
<1>6. PICK as : as = apps'
  OBVIOUS
<1>7. ASSUME NEW b \in DOMAIN as
      PROVE  /\ as[b].changedAt \in Nat /\ Past(as[b].changedAt)'
             /\ as[b].status = "deleted" => as[b].changedAt > 1
  <2>1. CASE b \in DOMAIN apps /\ as[b] = apps[b]
    <3>1. /\ as[b].changedAt \in Nat /\ Past(as[b].changedAt)
          /\ as[b].status = "deleted" => as[b].changedAt > 1
      BY <1>1, <2>1 DEF StampInv, Stamped
    <3>. QED
      BY <1>3, <3>1
  <2>2. CASE /\ lastChanged' > lastChanged /\ lastChanged' >= clock
             /\ as[b].changedAt = lastChanged'
    <3>1. clock \in Nat /\ clock > 1 /\ lastChanged' \in Nat
      BY <1>1, <1>2 DEF StampInv
    <3>2. as[b].changedAt \in Nat /\ as[b].changedAt > 1 /\ as[b].changedAt <= lastChanged'
      BY <2>2, <3>1
    <3>3. Past(as[b].changedAt)'
      BY <3>2 DEF Past
    <3>. QED
      BY <3>2, <3>3
  <2>3. CASE /\ as[b].status # "deleted"
             /\ as[b].changedAt = IF b \in DOMAIN apps THEN apps[b].changedAt ELSE 1
    <3>1. CASE b \in DOMAIN apps
      <4>1. as[b].changedAt \in Nat /\ Past(as[b].changedAt)
        BY <1>1, <2>3, <3>1 DEF StampInv, Stamped
      <4>. QED
        BY <1>3, <2>3, <4>1
    <3>2. CASE b \notin DOMAIN apps
      <4>1. as[b].changedAt = 1
        BY <2>3, <3>2
      <4>2. as[b].changedAt < clock' /\ as[b].changedAt \in Nat
        BY <1>1, <1>2, <4>1 DEF StampInv
      <4>3. Past(as[b].changedAt)'
        BY <4>2 DEF Past
      <4>. QED
        BY <2>3, <4>2, <4>3
    <3>. QED
      BY <3>1, <3>2
  <2>. QED
    BY <1>2, <1>6, <1>7, <2>1, <2>2, <2>3
<1>8. ASSUME NEW b \in DOMAIN as, NEW c \in DOMAIN as, b # c, c # a,
             as[b].changedAt = as[c].changedAt, as[b].changedAt > 1
      PROVE  FALSE
  <2>1. c \in DOMAIN apps /\ as[c] = apps[c]
    BY <1>2, <1>6, <1>8
  <2>2. /\ apps[c].changedAt \in Nat
        /\ apps[c].changedAt <= lastChanged \/ apps[c].changedAt < clock
    BY <1>1, <2>1 DEF StampInv, Stamped, Past
  <2>3. b \in DOMAIN apps => apps[b].changedAt # as[b].changedAt
    BY <1>1, <1>8, <2>1 DEF StampInv, Stamped
  <2>4. \/ /\ lastChanged' > lastChanged /\ lastChanged' >= clock
           /\ as[b].changedAt = lastChanged'
        \/ b \in DOMAIN apps /\ as[b].changedAt = apps[b].changedAt
        \/ as[b].changedAt = 1
    BY <1>2, <1>6, <1>8
  <2>. QED
    BY <1>1, <1>2, <1>8, <2>1, <2>2, <2>3, <2>4
<1>9. Stamped(as)'
  <2>1. \A b, c \in DOMAIN as :
          as[c].changedAt = as[b].changedAt /\ as[b].changedAt > 1 => b = c
    BY <1>7, <1>8
  <2>. QED
    BY <1>7, <2>1 DEF Stamped
<1>10. Stamped(apps)'
  BY <1>6, <1>9 DEF Stamped
<1>. QED
  BY <1>4, <1>5, <1>10 DEF StampInv

\* A list is taken after what is on record, and stays as it is until it is delivered.
LEMMA ListedStep ==
  ASSUME Typed, ListedLive, [Next]_vars
  PROVE  ListedLive'
<1>1. /\ P!WatchInv /\ P!WellFormed(history) /\ P!RecordsOK(view) /\ P!ListOK
      /\ P!Latest = Len(history) /\ Len(history) \in Nat
  BY DEF Typed, P!InformerInv, P!WatchInv, P!WellFormed, P!Latest
<1>2. SUFFICES ASSUME (stage = "listed")', (~synced)', NEW u \in DOMAIN view', view'[u].deleted
               PROVE  ~P!Alive(history', u, list'.rv)
  BY DEF ListedLive, P!Alive
<1>3. CASE I!List /\ UNCHANGED <<history, view>>
  <2>1. list'.rv = P!Latest
    BY <1>3, SameInformer DEF I!List
  <2>. QED
    BY <1>1, <1>2, <1>3, <2>1 DEF P!RecordsOK, P!Alive
<1>4. CASE /\ UNCHANGED <<stage, synced, list, view>>
           /\ history' = history \/ \E e : history' = Append(history, e)
  <2>1. ~P!Alive(history, u, list.rv) /\ list.rv \in 0..Len(history)
    BY <1>1, <1>2, <1>4 DEF ListedLive, P!ListOK, P!WatchInv, P!PositionOK
  <2>2. \A r \in 1..Len(history) : history'[r] = history[r]
    BY <1>1, <1>4 DEF P!WellFormed
  <2>. QED
    BY <1>1, <1>4, <2>1, <2>2 DEF P!Alive
<1>5. CASE Cluster
  BY <1>4, <1>5
     DEF Cluster, I!Create, I!Modify, I!Delete, I!OtherObject, I!Happens, I!Compact, I!watcher,
         I!records
<1>6. CASE Watch \/ Advance
  BY <1>1, <1>2, <1>3, <1>6
     DEF Watch, I!List, I!OpenWatch, I!Drop, I!WatchGone, I!Bookmark, Advance, I!Seed,
         I!Reconcile, I!Event, I!cluster, I!records, P!WatchInv, P!PositionOK
<1>7. CASE Report \/ SavePosition \/ SaveState \/ Poll \/ UNCHANGED vars
  BY <1>4, <1>7
     DEF Report, SavePosition, I!SaveBegins, I!SaveEnds, I!SaveFails, I!SaveLands,
         SaveState, Poll, vars,
         informerVars, watcherVars, I!cluster, I!watcher, I!records
<1>8. CASE StopAndStart \/ CrashAndStart
  BY <1>2, <1>8 DEF StopAndStart, CrashAndStart, Reload, I!Starts
<1>. QED
  BY <1>5, <1>6, <1>7, <1>8 DEF Next

\* No callback of the startup snapshot is about an application that is on record as
\* deleted.
LEMMA SnapshotSparesDeleted ==
  ASSUME OneDriver, Typed, FitInv, ListedLive, ~synced, NEW call \in StepCalls,
         AppOf[call.object.uid] \in DOMAIN apps
  PROVE  apps[AppOf[call.object.uid]].status # "deleted"
<1>1. P!WatchInv /\ DoneOK
  BY DEF Typed, P!InformerInv
<1>2. PICK u : u = call.object.uid
  OBVIOUS
<1>3. /\ stage = "listed" /\ P!Alive(history, u, list.rv) /\ u \in I!Uids
  BY <1>1, <1>2, SnapshotCalls, CallsAreOK, DriverOK
<1>4. PICK w \in DOMAIN pods : /\ AppOf[w] = AppOf[u]
                               /\ apps[AppOf[u]].status = StatusOf(w, ViewNow[w])
  BY <1>2 DEF FitInv, Fits
<1>5. w \in DOMAIN ViewNow /\ w = u
  BY <1>3, <1>4, ViewNowUids DEF FitInv, Fits, OneDriver
<1>6. ~ViewNow[u].deleted
  <2>1. CASE \E c \in done : c.object.uid = u
    <3>1. PICK c \in done : c.object.uid = u
      BY <2>1
    <3>2. c.deleted = FALSE
      BY <1>1, <3>1, SnapshotCalls DEF DoneOK
    <3>3. ViewNow[u] = P!Entry(c.object, c.deleted)
      BY <1>1, <3>1, ViewNowIs
    <3>4. P!Entry(c.object, c.deleted).deleted = c.deleted
      BY EntrySays, Zenon
    <3>. QED
      BY <3>2, <3>3, <3>4
  <2>2. CASE ~ \E c \in done : c.object.uid = u
    <3>1. u \in DOMAIN view /\ ViewNow[u] = view[u]
      BY <1>1, <1>5, <2>2, ViewNowIs
    <3>. QED
      BY <1>3, <3>1 DEF ListedLive
  <2>. QED
    BY <2>1, <2>2
<1>7. PhaseAt(u, ViewNow[u].rv) \in {"Succeeded", "Running"}
  BY DEF PhaseAt
<1>. QED
  BY <1>2, <1>4, <1>5, <1>6, <1>7 DEF StatusOf, F!StatusOfPhase

\* Nothing but a callback, a request, a save and a new process touches records, file
\* or consumer.
LEMMA DeliveryRests ==
  ASSUME [Next]_vars, ~Report, ~Poll, ~SaveState, ~StopAndStart, ~CrashAndStart
  PROVE  UNCHANGED <<recordVars, feedVars>>
BY DEF Next, Cluster, Watch, Advance, SavePosition, vars

\* What is the same of records, file and consumer has the same stamps.
LEMMA StampsRest ==
  ASSUME StampInv, UNCHANGED <<apps, file, clock, cursor, lastChanged>>
  PROVE  StampInv'
BY DEF StampInv, Stamped, Past

\* A request: whatever deletion the consumer's cursor passes, it has received.
LEMMA RequestDelivers ==
  ASSUME Typed, StampInv, DeletionsNotSkipped, Poll
  PROVE  StampInv' /\ DeletionsNotSkipped'
<1> USE StoreConstants
<1>1. S!Request /\ UNCHANGED undone
  BY SameStore DEF Poll
<1>2. UNCHANGED <<apps, file, clock, lastChanged>>
  BY <1>1 DEF S!Request, S!vars
<1>3. PICK records \in S!Pages : S!Receives(records)
  BY <1>1 DEF S!Request
<1>4. /\ DOMAIN records \subseteq S!Changed /\ records = [a \in DOMAIN records |-> apps[a]]
      /\ \A a \in DOMAIN records, b \in S!Changed \ DOMAIN records :
           apps[a].changedAt <= apps[b].changedAt
  BY S!PageShape
<1>5. /\ S!Changed = {a \in DOMAIN apps : apps[a].changedAt > cursor}
      /\ \A a \in DOMAIN apps : apps[a].changedAt \in Nat
      /\ cursor \in Nat /\ clock \in Nat /\ lastChanged \in Nat
  <2>1. S!Changed = {a \in DOMAIN apps : apps[a].changedAt > cursor}
    BY DEF S!Changed, S!Matches
  <2>. QED
    BY <2>1 DEF Typed, S!FeedTypeOK, S!TypeOK, S!Partial, S!ApplicationRecord
<1>6. S!Partial(records, Apps, S!ApplicationRecord)
  BY <1>4 DEF Typed, S!FeedTypeOK, S!TypeOK, S!Partial, S!Changed
<1>7. cursor' = S!Latest(records)
  BY <1>3 DEF S!Receives
<1>8. /\ cursor' \in Nat
      /\ \A a \in DOMAIN records : apps[a].changedAt <= cursor'
      /\ cursor' = 0 \/ \E a \in DOMAIN records : apps[a].changedAt = cursor'
  BY <1>4, <1>6, <1>7, S!LatestOfPage, SameStore
<1>9. StampInv'
  <2>1. Past(cursor')
    <3>1. CASE cursor' = 0
      BY <1>5, <3>1 DEF Past
    <3>2. CASE \E a \in DOMAIN records : apps[a].changedAt = cursor'
      BY <1>4, <1>5, <3>2 DEF StampInv, Stamped
    <3>. QED
      BY <1>8, <3>1, <3>2
  <2>2. Past(cursor)'
    BY <1>2, <2>1 DEF Past
  <2>3. \A t : Past(t) => Past(t)'
    BY <1>2 DEF Past
  <2>4. Stamped(apps)' /\ Stamped(file.apps)'
    BY <1>2, <2>3 DEF StampInv, Stamped
  <2>. QED
    BY <1>2, <2>2, <2>4 DEF StampInv
<1>10. ASSUME NEW a \in DOMAIN apps, apps[a].status = "deleted", apps[a].changedAt <= cursor',
              <<a, apps[a].changedAt>> \notin undone
       PROVE  a \in DOMAIN seen' /\ seen'[a].record.status = "deleted"
  <2>1. seen' = [b \in DOMAIN seen \cup DOMAIN records |->
                   IF b \in DOMAIN records THEN S!Views(records)[b] ELSE seen[b]]
    BY <1>3 DEF S!Receives
  <2>2. CASE a \in DOMAIN records
    <3>1. seen'[a] = S!Views(records)[a] /\ a \in DOMAIN seen'
      BY <2>1, <2>2
    <3>2. S!Views(records)[a].record = apps[a]
      BY <1>4, <2>2 DEF S!Views
    <3>. QED
      BY <1>10, <3>1, <3>2
  <2>3. CASE a \notin DOMAIN records
    <3>1. apps[a].changedAt <= cursor
      <4> SUFFICES ASSUME apps[a].changedAt > cursor
                   PROVE  FALSE
        BY <1>5
      <4>1. a \in S!Changed /\ apps[a].changedAt > 1 /\ apps[a].changedAt \in Nat
        BY <1>5, <1>10 DEF StampInv, Stamped
      <4>2. PICK b \in DOMAIN records : apps[b].changedAt = cursor'
        BY <1>8, <1>10, <4>1
      <4>3. apps[b].changedAt <= apps[a].changedAt /\ b \in DOMAIN apps
        BY <1>4, <1>5, <2>3, <4>1, <4>2
      <4>4. apps[b].changedAt = apps[a].changedAt
        BY <1>5, <1>8, <1>10, <4>2, <4>3
      <4>5. a = b
        BY <4>1, <4>3, <4>4 DEF StampInv, Stamped
      <4>. QED
        BY <2>3, <4>2, <4>5
    <3>2. a \in DOMAIN seen /\ seen[a].record.status = "deleted"
      BY <1>10, <3>1 DEF DeletionsNotSkipped
    <3>. QED
      BY <2>1, <2>3, <3>2
  <2>. QED
    BY <2>2, <2>3
<1>. QED
  BY <1>1, <1>2, <1>9, <1>10 DEF DeletionsNotSkipped

\* The inductive invariant of what reaches the consumer.
DeliveryInv == StampInv /\ ListedLive /\ SavedDeletions /\ DeletionsNotSkipped

\* A callback leaves what the consumer lacks ahead of its cursor.
LEMMA ReportDelivers ==
  ASSUME OneDriver, Typed, FitInv, DeliveryInv, Report
  PROVE  StampInv' /\ SavedDeletions' /\ DeletionsNotSkipped'
<1>1. P!WatchInv
  BY DEF Typed, P!InformerInv
<1>2. PICK call \in StepCalls \ done :
        /\ UNCHANGED <<informerVars, feedVars>>
        /\ S!Upsert(Driver(call.object), call.deleted, ~synced)
  BY <1>1, ReportUpserts
<1>3. PICK a : Restamped(a, call)
  BY <1>2, CallbackStamps
<1>4. UNCHANGED <<cursor, seen, undone>>
  BY <1>2 DEF feedVars
<1>5. StampInv'
  BY <1>3, <1>4, ReportStamps DEF DeliveryInv
<1>6. /\ UNCHANGED <<file, clock>> /\ lastChanged' \in Nat /\ lastChanged' >= lastChanged
      /\ \A b \in DOMAIN apps' : b # a => b \in DOMAIN apps /\ apps'[b] = apps[b]
      /\ a \in DOMAIN apps' =>
           \/ a \in DOMAIN apps /\ apps'[a] = apps[a]
           \/ /\ lastChanged' > lastChanged /\ lastChanged' >= clock
              /\ apps'[a].changedAt = lastChanged'
           \/ apps'[a].status # "deleted"
      /\ ~dirty' => /\ ~dirty /\ ~synced /\ a = AppOf[call.object.uid]
                    /\ a \in DOMAIN apps /\ DOMAIN apps \subseteq DOMAIN apps'
  BY <1>3 DEF Restamped
<1>7. SavedDeletions'
  <2> SUFFICES ASSUME ~dirty', NEW b \in DOMAIN file.apps, file.apps[b].status = "deleted"
               PROVE  b \in DOMAIN apps' /\ apps'[b] = file.apps[b]
    BY <1>6 DEF SavedDeletions
  <2>1. b \in DOMAIN apps /\ apps[b] = file.apps[b]
    BY <1>6 DEF DeliveryInv, SavedDeletions
  <2>2. apps[a].status # "deleted"
    BY <1>2, <1>6, SnapshotSparesDeleted DEF DeliveryInv
  <2>. QED
    BY <1>6, <2>1, <2>2
<1>8. DeletionsNotSkipped'
  <2> SUFFICES ASSUME NEW b \in DOMAIN apps', apps'[b].status = "deleted",
                      apps'[b].changedAt <= cursor, <<b, apps'[b].changedAt>> \notin undone
               PROVE  b \in DOMAIN seen /\ seen[b].record.status = "deleted"
    BY <1>4 DEF DeletionsNotSkipped
  <2>1. b \in DOMAIN apps /\ apps'[b] = apps[b]
    <3>1. CASE b = a
      <4>1. ~ (/\ lastChanged' > lastChanged /\ lastChanged' >= clock
               /\ apps'[a].changedAt = lastChanged')
        BY <1>6, <3>1 DEF Typed, S!FeedTypeOK, S!TypeOK, DeliveryInv, StampInv, Past
      <4>. QED
        BY <1>6, <3>1, <4>1
    <3>2. CASE b # a
      BY <1>6, <3>2
    <3>. QED
      BY <3>1, <3>2
  <2>. QED
    BY <2>1 DEF DeliveryInv, DeletionsNotSkipped
<1>. QED
  BY <1>5, <1>7, <1>8

\* A new process: what it loads the consumer has, is ahead of its cursor, or is noted
\* as brought back.
LEMMA ReloadDelivers ==
  ASSUME Typed, DeliveryInv, StopAndStart \/ CrashAndStart
  PROVE  StampInv' /\ SavedDeletions' /\ DeletionsNotSkipped'
<1> USE StoreConstants
<1>1. /\ F!Restart /\ UNCHANGED <<cursor, seen>>
      /\ clock' = IF clock > lastChanged THEN clock ELSE lastChanged + 1
  BY DEF StopAndStart, CrashAndStart, Reload
<1>2. S!Restart
  BY <1>1, SameStore
<1>3. /\ file' = file /\ apps' = file.apps /\ dirty' = FALSE
      /\ lastChanged' = S!Latest(file.apps)
  BY <1>2 DEF S!Restart
<1>4. /\ clock \in Nat /\ lastChanged \in Nat /\ cursor \in Nat
      /\ \A a \in DOMAIN file.apps : file.apps[a].changedAt \in Nat
  BY DEF Typed, S!FeedTypeOK, S!TypeOK, S!Partial, S!ApplicationRecord
<1>5. ASSUME NEW t \in Nat, Past(t)
      PROVE  Past(t)'
  <2>1. t < clock'
    BY <1>1, <1>4, <1>5 DEF Past
  <2>. QED
    BY <2>1 DEF Past
<1>6. PICK fa : fa = file.apps
  OBVIOUS
<1>7. Stamped(fa)'
  BY <1>4, <1>5, <1>6 DEF DeliveryInv, StampInv, Stamped
<1>8. StampInv'
  <2>1. clock' > 1 /\ Past(cursor)'
    BY <1>1, <1>4, <1>5 DEF DeliveryInv, StampInv, Past
  <2>2. Stamped(apps)' /\ Stamped(file.apps)'
    BY <1>3, <1>6, <1>7 DEF Stamped
  <2>. QED
    BY <2>1, <2>2 DEF StampInv
<1>9. SavedDeletions'
  BY <1>3 DEF SavedDeletions
<1>10. DeletionsNotSkipped'
  <2> SUFFICES ASSUME NEW a \in DOMAIN fa, fa[a].status = "deleted", fa[a].changedAt <= cursor,
                      <<a, fa[a].changedAt>> \notin undone'
               PROVE  a \in DOMAIN seen /\ seen[a].record.status = "deleted"
    BY <1>1, <1>3, <1>6 DEF DeletionsNotSkipped
  <2>1. a \in DOMAIN apps /\ apps[a] = fa[a] /\ <<a, fa[a].changedAt>> \notin undone
    <3>1. CASE StopAndStart
      <4>1. ~dirty /\ undone' = undone
        BY <3>1 DEF StopAndStart
      <4>. QED
        BY <1>6, <4>1 DEF DeliveryInv, SavedDeletions
    <3>2. CASE CrashAndStart
      <4>1. undone' = undone \cup {<<b, fa[b].changedAt>> : b \in BroughtBack}
        BY <1>6, <3>2 DEF CrashAndStart
      <4>2. a \notin BroughtBack /\ <<a, fa[a].changedAt>> \notin undone
        BY <4>1
      <4>. QED
        BY <1>6, <4>2 DEF BroughtBack
    <3>. QED
      BY <3>1, <3>2
  <2>. QED
    BY <2>1 DEF DeliveryInv, DeletionsNotSkipped
<1>. QED
  BY <1>8, <1>9, <1>10

\* Every step keeps what reaches the consumer.
LEMMA DeliveryStep ==
  ASSUME OneDriver, Typed, FitInv, DeliveryInv, [Next]_vars
  PROVE  DeliveryInv'
<1>1. ListedLive'
  BY ListedStep DEF DeliveryInv
<1>2. StampInv' /\ SavedDeletions' /\ DeletionsNotSkipped'
  <2>1. CASE UNCHANGED <<recordVars, feedVars>>
    <3>1. StampInv'
      BY <2>1, StampsRest DEF DeliveryInv, recordVars, feedVars
    <3>2. SavedDeletions' /\ DeletionsNotSkipped'
      BY <2>1 DEF DeliveryInv, SavedDeletions, DeletionsNotSkipped, recordVars, feedVars
    <3>. QED
      BY <3>1, <3>2
  <2>2. CASE Report
    BY <2>2, ReportDelivers
  <2>3. CASE Poll
    <3>1. StampInv' /\ DeletionsNotSkipped'
      BY <2>3, RequestDelivers DEF DeliveryInv
    <3>2. UNCHANGED <<apps, file, dirty>>
      BY <2>3 DEF Poll, F!Request, F!vars
    <3>. QED
      BY <3>1, <3>2 DEF DeliveryInv, SavedDeletions
  <2>4. CASE SaveState
    <3>1. /\ UNCHANGED <<apps, lastChanged, clock, cursor, seen, undone>>
          /\ file' = [apps |-> apps, pods |-> pods]
      BY <2>4 DEF SaveState, F!Save, F!Snapshot, feedVars
    <3>2. file'.apps = apps
      BY <3>1
    <3>3. SavedDeletions' /\ DeletionsNotSkipped'
      BY <3>1, <3>2 DEF DeliveryInv, SavedDeletions, DeletionsNotSkipped
    <3>4. StampInv'
      BY <3>1, <3>2 DEF DeliveryInv, StampInv, Stamped, Past
    <3>. QED
      BY <3>3, <3>4
  <2>5. CASE StopAndStart \/ CrashAndStart
    BY <2>5, ReloadDelivers
  <2>. QED
    BY <2>1, <2>2, <2>3, <2>4, <2>5, DeliveryRests
<1>. QED
  BY <1>1, <1>2 DEF DeliveryInv

\* It holds throughout.
LEMMA DeliveryKept ==
  ASSUME OneDriver
  PROVE  Spec => []DeliveryInv
<1>1. Init => DeliveryInv
  <2> SUFFICES ASSUME Init
               PROVE  DeliveryInv
    OBVIOUS
  <2>1. /\ apps = F!Empty /\ file = [apps |-> F!Empty, pods |-> F!Empty]
        /\ cursor = 0 /\ clock = 2 /\ stage = "idle" /\ lastChanged = 0
    BY SameStore DEF Init, I!Init
  <2>2. DOMAIN apps = {} /\ file.apps = F!Empty /\ DOMAIN file.apps = {}
    BY <2>1 DEF F!Empty
  <2>3. StampInv
    BY <2>1, <2>2 DEF StampInv, Stamped, Past
  <2>. QED
    BY <2>1, <2>2, <2>3 DEF DeliveryInv, ListedLive, SavedDeletions, DeletionsNotSkipped
<1>2. Typed /\ FitInv /\ DeliveryInv /\ [Next]_vars => DeliveryInv'
  BY DeliveryStep
<1>. QED
  BY <1>1, <1>2, FitKept, PTL DEF Spec

\* No deletion is skipped by the feed: an application recorded as deleted is ahead of
\* the consumer's cursor or the consumer has it as deleted, over startup snapshots,
\* replays, evictions, stops and crashes, unless a crash brought its record back from
\* before what the consumer read (state_store.go:513-560, README.md:220).
THEOREM DeletionsReachConsumer ==
  ASSUME OneDriver
  PROVE  Spec => []DeletionsNotSkipped
<1>1. DeliveryInv => DeletionsNotSkipped
  BY DEF DeliveryInv
<1>. QED
  BY <1>1, DeliveryKept, PTL

\* From the API server to the consumer: when all is at rest no application whose
\* driver is gone is alive in the consumer's copy, unless its record is gone too, its
\* deletion went by unreported (blind, gap), or a crash brought its record back
\* (pod_informer.go:29, README.md:220).
THEOREM ConsumerLearns ==
  ASSUME OneDriver
  PROVE  Spec => []ConsumerLearnsDeletions
<1>1. Typed /\ FitInv /\ DeliveryInv /\ DeletionsRecorded => ConsumerLearnsDeletions
  <2> SUFFICES ASSUME Typed, FitInv, DeliveryInv, DeletionsRecorded, AtRest, ~blind, ~gap,
                      NEW a \in DOMAIN seen \cap DOMAIN apps, Gone(a),
                      <<a, apps[a].changedAt>> \notin undone
               PROVE  seen[a].record.status = "deleted"
    BY DEF ConsumerLearnsDeletions
  <2> USE PodWatcherAssumption
  <2>1. /\ P!WatchInv /\ P!WellFormed(history) /\ P!Latest = Len(history)
        /\ Len(history) \in Nat /\ lastRV \in 0..P!Latest
        /\ stage = "watching" /\ sent = lastRV /\ synced
        /\ P!Unsent = {} /\ S!Changed = {}
    <3>1. P!WatchInv
      BY DEF Typed, P!InformerInv
    <3>2. stage = "watching" /\ P!Unsent = {} /\ S!Changed = {}
      BY SameInformer, SameStore DEF AtRest
    <3>. QED
      BY <3>1, <3>2, WatchFacts
  <2>2. PICK u \in DOMAIN pods : /\ AppOf[u] = a /\ u \in DOMAIN ViewNow
                                 /\ apps[a].status = StatusOf(u, ViewNow[u])
                                 /\ pods[u].status = StatusOf(u, ViewNow[u])
    BY DEF FitInv, Fits
  <2>3. \E r \in 1..P!Latest : P!OfPod(history, r) /\ history[r].uid = u
    BY <2>2, ViewNowUids DEF P!RecordsOK
  <2>4. ~P!Alive(history, u, P!Latest)
    <3> SUFFICES ASSUME P!Alive(history, u, P!Latest)
                 PROVE  FALSE
      OBVIOUS
    <3>1. P!Latest \in 0..Len(history)
      BY <2>1
    <3>2. \E o \in P!ObjectsAt(history, P!Latest) : o.uid = u
      BY <2>1, <2>3, <3>1, P!AliveListed
    <3>3. \E o \in I!Current : o.uid = u
      BY <3>2, SameInformer, P!CurrentObjects
    <3>. QED
      BY <2>2, <3>3 DEF Gone
  <2>5. PICK d \in 1..P!Latest : history[d].kind = "Deleted" /\ history[d].uid = u
    BY <2>4 DEF P!Alive
  <2>6. d <= lastRV
    BY <2>1, <2>5 DEF P!Unsent
  <2>7. I!GoneBy(u, lastRV)
    <3>1. ~P!Alive(history, u, lastRV)
      BY <2>1, <2>5, <2>6 DEF P!Alive
    <3>. QED
      BY <2>1, <3>1, SameInformer, P!GoneIs
  <2>8. apps[a].status = "deleted"
    BY <2>1, <2>2, <2>7 DEF DeletionsRecorded
  <2>9. apps[a].changedAt <= cursor
    <3>1. apps[a].changedAt \in Nat /\ cursor \in Nat
      BY DEF Typed, S!FeedTypeOK, S!TypeOK, S!Partial, S!ApplicationRecord
    <3>2. ~(apps[a].changedAt > cursor)
      BY <2>1 DEF S!Changed, S!Matches
    <3>. QED
      BY <3>1, <3>2
  <2>. QED
    BY <2>8, <2>9 DEF DeliveryInv, DeletionsNotSkipped
<1>. QED
  BY <1>1, FitKept, DeliveryKept, DeletionsAreRecorded, PTL
=============================================================================
