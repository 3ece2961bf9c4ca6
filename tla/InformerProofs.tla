---------------------------- MODULE InformerProofs ----------------------------
(***************************************************************************)
(* Proofs about Informer, for all names, numbers of events, restarts and   *)
(* faults.  InformerInv is inductive under every step of the model, crashes *)
(* and reused names included; StaleInv needs that names are not reused,    *)
(* and ReflectInv that no process crashes either: the runs InformerSkipped *)
(* and InformerCrash show what happens otherwise.                          *)
(***************************************************************************)
EXTENDS Informer, FiniteSetTheorems, TLAPS

\* A set of numbers with a bound has a greatest one.
LEMMA LastOf ==
  ASSUME NEW rv \in Nat, NEW S, S \subseteq 1..rv, S # {}
  PROVE  \E r \in S : \A q \in S : q <= r
<1> DEFINE After(r) == {q \in S : q > r}
           family == {After(r) : r \in S}
<1>1. IsFiniteSet(S)
  <2>1. IsFiniteSet(1..rv)
    BY FS_Interval
  <2>. QED
    BY <2>1, FS_Subset
<1>2. family \subseteq FiniteSubsetsOf(S) /\ family # {}
  <2>1. \A r \in S : After(r) \subseteq S /\ IsFiniteSet(After(r))
    BY <1>1, FS_Subset
  <2>. QED
    BY <2>1, Zenon DEF FiniteSubsetsOf
<1>3. PICK least \in family : \A other \in family : <<other, least>> \notin StrictSubsetOrdering(S)
  <2>1. IsWellFoundedOn(StrictSubsetOrdering(S), FiniteSubsetsOf(S))
    BY FS_StrictSubsetOrderingWellFounded
  <2>. HIDE DEF family
  <2>. QED
    BY <1>2, <2>1, WFMin
<1>4. PICK r \in S : least = After(r)
  OBVIOUS
<1>5. SUFFICES ASSUME NEW q \in S, q > r
               PROVE  FALSE
  <2>1. S \subseteq Nat
    OBVIOUS
  <2>. QED
    BY <2>1
<1>6. q \in After(r) /\ q \notin After(q) /\ After(q) \subseteq After(r)
  <2>1. q \in Nat /\ r \in Nat /\ \A s \in S : s \in Nat
    OBVIOUS
  <2>2. \A s \in S : s > q => s > r
    BY <1>5, <2>1
  <2>3. ~(q > q)
    BY <2>1
  <2>. QED
    BY <1>5, <2>2, <2>3, Zenon
<1>7. After(q) \in family
  BY Zenon
<1>8. <<After(q), least>> \in StrictSubsetOrdering(S)
  <2>1. After(q) \in SUBSET S /\ After(r) \in SUBSET S /\ After(q) # After(r)
    BY <1>6
  <2>. HIDE DEF After
  <2>. QED
    BY <1>4, <1>6, <2>1 DEF StrictSubsetOrdering
<1>. QED
  BY <1>3, <1>7, <1>8
-----------------------------------------------------------------------------
(* The history of the cluster.                                             *)

Events == [kind : {"Added", "Modified", "Deleted", "Other"},
           name : Names \cup {""}, uid : RVs]

\* The event is one of a pod; the pod was not deleted up to a version.
OfPod(h, r) == h[r].kind # "Other"
Alive(h, u, rv) == \A d \in 1..rv : ~(h[d].kind = "Deleted" /\ h[d].uid = u)

\* A pod is named by its creation, has no event after its deletion, and takes no
\* name that is in use; without reuse, none that was ever used.
WellFormed(h) ==
  /\ h \in Seq(Events) /\ Len(h) <= MaxRV
  /\ \A r \in 1..Len(h) : ~OfPod(h, r) => h[r].uid = 0
  /\ \A r \in 1..Len(h) : OfPod(h, r) =>
       /\ h[r].uid \in 1..r /\ h[r].name \in Names
       /\ h[h[r].uid].kind = "Added" /\ h[h[r].uid].name = h[r].name
  /\ \A r \in 1..Len(h) : h[r].kind = "Added" => h[r].uid = r
  /\ \A q, r \in 1..Len(h) : q < r /\ h[q].kind = "Deleted" => h[r].uid # h[q].uid
  /\ \A q, r \in 1..Len(h) :
       q < r /\ OfPod(h, q) /\ h[r].kind = "Added" /\ h[q].name = h[r].name =>
         ReusesNames /\ ~Alive(h, h[q].uid, r)

\* The object of an event, and the objects of the pods that exist at a version.
ObjectOf(h, r) == [name |-> h[r].name, uid |-> h[r].uid, rv |-> r]
IsLast(h, r, rv) ==
  /\ h[r].kind \in {"Added", "Modified"}
  /\ \A n \in (r + 1)..rv : h[n].uid # h[r].uid
ObjectsAt(h, rv) == {ObjectOf(h, r) : r \in {q \in 1..rv : IsLast(h, q, rv)}}

\* An event more.
LEMMA Longer ==
  ASSUME NEW h \in Seq(Events), NEW e, NEW g, g = Append(h, e)
  PROVE  /\ Len(h) \in Nat /\ Len(g) = Len(h) + 1
         /\ \A r \in 1..Len(h) : g[r] = h[r]
         /\ g[Len(h) + 1] = e
         /\ \A rv \in 0..Len(h) : \A u : Alive(g, u, rv) <=> Alive(h, u, rv)
         /\ \A rv \in 0..Len(h) : ObjectsAt(g, rv) = ObjectsAt(h, rv)
<1>1. /\ Len(h) \in Nat /\ Len(g) = Len(h) + 1
      /\ \A r \in 1..Len(h) : g[r] = h[r]
      /\ g[Len(h) + 1] = e
  OBVIOUS
<1>2. \A rv \in 0..Len(h) : \A u : Alive(g, u, rv) <=> Alive(h, u, rv)
  BY <1>1 DEF Alive
<1>3. ASSUME NEW rv \in 0..Len(h)
      PROVE  ObjectsAt(g, rv) = ObjectsAt(h, rv)
  <2>1. \A q \in 1..rv : g[q] = h[q] /\ \A n \in (q + 1)..rv : g[n] = h[n]
    BY <1>1
  <2>2. \A q \in 1..rv : /\ IsLast(g, q, rv) <=> IsLast(h, q, rv)
                         /\ ObjectOf(g, q) = ObjectOf(h, q)
    BY <2>1 DEF IsLast, ObjectOf
  <2>. QED
    BY <2>2 DEF ObjectsAt
<1>. QED
  BY <1>1, <1>2, <1>3

\* What an object of a pod that exists says.
LEMMA ObjectFacts ==
  ASSUME NEW h, WellFormed(h), NEW rv \in 0..Len(h), NEW o \in ObjectsAt(h, rv)
  PROVE  /\ o.rv \in 1..rv /\ o = ObjectOf(h, o.rv)
         /\ o.uid = h[o.rv].uid /\ o.name = h[o.rv].name
         /\ h[o.rv].kind \in {"Added", "Modified"}
         /\ \A q \in 1..rv : h[q].uid = o.uid => q <= o.rv
         /\ Alive(h, o.uid, rv)
<1>1. PICK r \in 1..rv : IsLast(h, r, rv) /\ o = ObjectOf(h, r)
  BY DEF ObjectsAt
<1>2. o.rv = r /\ o.uid = h[r].uid /\ o.name = h[r].name
  BY <1>1 DEF ObjectOf
<1>3. Len(h) \in Nat
  BY DEF WellFormed
<1>4. \A q \in 1..rv : h[q].uid = h[r].uid => q <= r
  BY <1>1, <1>3 DEF IsLast
<1>5. ASSUME NEW d \in 1..rv, h[d].kind = "Deleted", h[d].uid = h[r].uid
      PROVE  FALSE
  <2>1. d <= r /\ d # r
    BY <1>1, <1>4, <1>5 DEF IsLast
  <2>. QED
    BY <1>3, <1>5, <2>1 DEF WellFormed
<1>. QED
  BY <1>1, <1>2, <1>4, <1>5 DEF Alive, IsLast

\* A pod that was not deleted has an object, in the version of its last event.
LEMMA AliveListed ==
  ASSUME NEW h, WellFormed(h), NEW rv \in 0..Len(h),
         NEW r \in 1..rv, OfPod(h, r), Alive(h, h[r].uid, rv)
  PROVE  \E o \in ObjectsAt(h, rv) :
           o.uid = h[r].uid /\ o.name = h[r].name /\ o.rv >= r
<1> DEFINE S == {q \in 1..rv : h[q].uid = h[r].uid}
<1>1. rv \in Nat /\ S \subseteq 1..rv /\ S # {}
  BY DEF WellFormed
<1>2. PICK q \in S : \A n \in S : n <= q
  BY <1>1, LastOf
<1>3. \A n \in (q + 1)..rv : h[n].uid # h[r].uid
  BY <1>2
<1>4. Len(h) \in Nat /\ q \in 1..Len(h) /\ r \in 1..Len(h)
  BY DEF WellFormed
<1>5. h[r].uid # 0
  BY <1>4 DEF WellFormed
<1>6. OfPod(h, q)
  BY <1>4, <1>5 DEF WellFormed
<1>7. h[q].name = h[r].name
  <2>1. h[q].uid = h[r].uid
    OBVIOUS
  <2>. QED
    BY <1>4, <1>6, <2>1 DEF WellFormed
<1>8. h[q].kind \in {"Added", "Modified"}
  <2>1. h[q] \in Events
    BY <1>4 DEF WellFormed
  <2>2. h[q].kind # "Deleted"
    BY <1>1 DEF Alive
  <2>. QED
    BY <1>6, <2>1, <2>2 DEF Events, OfPod
<1>9. ObjectOf(h, q) \in ObjectsAt(h, rv)
  BY <1>3, <1>8 DEF ObjectsAt, IsLast
<1>. QED
  BY <1>2, <1>7, <1>9 DEF ObjectOf

\* While a pod lives, nobody else has its name.
LEMMA NameIsTaken ==
  ASSUME NEW h, WellFormed(h), NEW rv \in 0..Len(h),
         NEW q \in 1..rv, OfPod(h, q), Alive(h, h[q].uid, rv),
         NEW r \in q..rv, OfPod(h, r), h[r].name = h[q].name
  PROVE  h[r].uid = h[q].uid
<1> DEFINE u == h[q].uid
           w == h[r].uid
<1>1. /\ Len(h) \in Nat /\ rv \in Nat /\ rv <= Len(h)
      /\ q \in 1..Len(h) /\ r \in 1..Len(h) /\ q <= r /\ r <= rv
  BY DEF WellFormed
<1>2. /\ u \in 1..q /\ h[u].kind = "Added" /\ h[u].name = h[q].name
      /\ w \in 1..r /\ h[w].kind = "Added" /\ h[w].name = h[q].name
  BY <1>1 DEF WellFormed
<1>3. h[u].uid = u /\ h[w].uid = w /\ OfPod(h, u) /\ OfPod(h, w)
  BY <1>1, <1>2 DEF WellFormed, OfPod
<1>4. u \in 1..Len(h) /\ w \in 1..Len(h)
  BY <1>1, <1>2
<1>. HIDE DEF u, w
<1>5. CASE u < w
  <2>1. ~Alive(h, u, w)
    BY <1>2, <1>3, <1>4, <1>5 DEF WellFormed
  <2>2. 1..w \subseteq 1..rv
    BY <1>1, <1>2
  <2>. QED
    BY <2>1, <2>2 DEF Alive, u
<1>6. CASE w < u
  <2>1. PICK d \in 1..u : h[d].kind = "Deleted" /\ h[d].uid = w
    BY <1>2, <1>3, <1>4, <1>6 DEF WellFormed, Alive
  <2>2. d \in 1..Len(h) /\ d < u
    BY <1>1, <1>2, <1>4, <2>1
  <2>3. d < r
    BY <1>1, <1>2, <2>2
  <2>. QED
    BY <1>1, <2>1, <2>2, <2>3 DEF WellFormed, w
<1>. QED
  BY <1>4, <1>5, <1>6 DEF u, w

\* Without reuse nobody ever has.
LEMMA NameIsUnique ==
  ASSUME ~ReusesNames, NEW h, WellFormed(h), NEW q \in 1..Len(h), OfPod(h, q),
         NEW r \in 1..Len(h), OfPod(h, r), h[r].name = h[q].name
  PROVE  h[r].uid = h[q].uid
<1> DEFINE u == h[q].uid
           w == h[r].uid
<1>1. Len(h) \in Nat
  BY DEF WellFormed
<1>2. /\ u \in 1..q /\ h[u].kind = "Added" /\ h[u].name = h[q].name
      /\ w \in 1..r /\ h[w].kind = "Added" /\ h[w].name = h[q].name
  BY DEF WellFormed
<1>3. u \in 1..Len(h) /\ w \in 1..Len(h) /\ OfPod(h, u) /\ OfPod(h, w)
  BY <1>1, <1>2 DEF OfPod
<1>4. ~(u < w) /\ ~(w < u)
  <2>. HIDE DEF u, w
  <2>. QED
    BY <1>2, <1>3 DEF WellFormed
<1>. QED
  BY <1>3, <1>4

\* The pods that exist are the objects at the newest version.
LEMMA CurrentObjects == Current = ObjectsAt(history, Latest)
BY DEF Current, ObjectsAt, IsLast, Object, ObjectOf

\* An event that respects what went before.
LEMMA WellFormedAppend ==
  ASSUME NEW h, WellFormed(h), Len(h) < MaxRV, NEW e \in Events,
         NEW g, g = Append(h, e),
         e.kind = "Other" => e.uid = 0,
         e.kind = "Added" => e.uid = Len(h) + 1 /\ e.name \in Names,
         e.kind \in {"Modified", "Deleted"} =>
           \E q \in 1..Len(h) : /\ OfPod(h, q) /\ h[q].uid = e.uid /\ h[q].name = e.name
                                /\ Alive(h, e.uid, Len(h)),
         e.kind = "Added" => \A q \in 1..Len(h) : OfPod(h, q) /\ h[q].name = e.name =>
           ReusesNames /\ ~Alive(h, h[q].uid, Len(h))
  PROVE  WellFormed(g)
<1> DEFINE n == Len(h) + 1
<1>1. /\ Len(h) \in Nat /\ Len(g) = n /\ g[n] = e
      /\ \A r \in 1..Len(h) : g[r] = h[r]
      /\ \A rv \in 0..Len(h) : \A u : Alive(g, u, rv) <=> Alive(h, u, rv)
  <2>1. h \in Seq(Events) /\ g = Append(h, e)
    BY DEF WellFormed
  <2>2. /\ Len(h) \in Nat /\ Len(g) = Len(h) + 1
        /\ \A r \in 1..Len(h) : g[r] = h[r]
        /\ g[Len(h) + 1] = e
    BY <2>1
  <2>3. \A rv \in 0..Len(h) : \A u : Alive(g, u, rv) <=> Alive(h, u, rv)
    BY <2>1, Longer, Zenon
  <2>. QED
    BY <2>2, <2>3
<1>2. g \in Seq(Events) /\ Len(g) <= MaxRV
  BY <1>1, InformerAssumption DEF WellFormed
<1>3. \A r \in 1..Len(g) : r = n \/ r \in 1..Len(h)
  BY <1>1
<1>4. e.kind \in {"Added", "Modified", "Deleted", "Other"}
  BY DEF Events
<1>. HIDE DEF n
<1>5. n \notin 1..Len(h) /\ \A r \in 1..Len(h) : r < n /\ 1..r \subseteq 1..Len(h)
  BY <1>1 DEF n
<1>6. \A r \in 1..Len(g) : ~OfPod(g, r) => g[r].uid = 0
  BY <1>1, <1>3 DEF WellFormed, OfPod
<1>7. ASSUME NEW r \in 1..Len(g), OfPod(g, r)
      PROVE  /\ g[r].uid \in 1..r /\ g[r].name \in Names
             /\ g[g[r].uid].kind = "Added" /\ g[g[r].uid].name = g[r].name
  <2>1. CASE r \in 1..Len(h)
    BY <1>1, <1>5, <1>7, <2>1 DEF WellFormed, OfPod
  <2>2. CASE r = n /\ e.kind = "Added"
    BY <1>1, <2>2 DEF n
  <2>3. CASE r = n /\ e.kind \in {"Modified", "Deleted"}
    <3>1. PICK q \in 1..Len(h) : OfPod(h, q) /\ h[q].uid = e.uid /\ h[q].name = e.name
      BY <2>3
    <3>2. /\ e.uid \in 1..q /\ e.name \in Names
          /\ h[e.uid].kind = "Added" /\ h[e.uid].name = e.name
      BY <3>1 DEF WellFormed
    <3>3. e.uid \in 1..Len(h) /\ e.uid \in 1..n
      BY <1>1, <3>2 DEF n
    <3>. QED
      BY <1>1, <2>3, <3>2, <3>3
  <2>. QED
    BY <1>1, <1>3, <1>4, <1>7, <2>1, <2>2, <2>3 DEF OfPod
<1>8. \A r \in 1..Len(g) : g[r].kind = "Added" => g[r].uid = r
  BY <1>1, <1>3 DEF WellFormed, n
<1>9. ASSUME NEW q \in 1..Len(g), NEW r \in 1..Len(g), q < r, g[q].kind = "Deleted"
      PROVE  g[r].uid # g[q].uid
  <2>1. q \in 1..Len(h)
    BY <1>1, <1>9 DEF n
  <2>2. CASE r \in 1..Len(h)
    BY <1>1, <1>9, <2>1, <2>2 DEF WellFormed
  <2>3. CASE r = n
    <3>1. g[q].uid \in 1..q
      BY <1>7, <1>9 DEF OfPod
    <3>2. g[q].uid # 0 /\ g[q].uid # n
      BY <1>1, <2>1, <3>1 DEF n
    <3>3. e.kind \in {"Modified", "Deleted"} => e.uid # h[q].uid
      BY <1>1, <1>9, <2>1 DEF Alive
    <3>. QED
      BY <1>1, <1>4, <2>1, <2>3, <3>2, <3>3 DEF n
  <2>. QED
    BY <1>3, <2>2, <2>3
<1>10. ASSUME NEW q \in 1..Len(g), NEW r \in 1..Len(g), q < r, OfPod(g, q),
              g[r].kind = "Added", g[q].name = g[r].name
       PROVE  ReusesNames /\ ~Alive(g, g[q].uid, r)
  <2>1. q \in 1..Len(h)
    BY <1>1, <1>10 DEF n
  <2>2. CASE r \in 1..Len(h)
    <3>1. ReusesNames /\ ~Alive(h, h[q].uid, r)
      BY <1>1, <1>10, <2>1, <2>2 DEF WellFormed, OfPod
    <3>2. Alive(g, h[q].uid, r) <=> Alive(h, h[q].uid, r)
      BY <1>1, <2>2
    <3>. QED
      BY <1>1, <2>1, <3>1, <3>2
  <2>3. CASE r = n
    <3>1. ReusesNames /\ ~Alive(h, h[q].uid, Len(h))
      BY <1>1, <1>10, <2>1, <2>3 DEF OfPod
    <3>2. PICK d \in 1..Len(h) : h[d].kind = "Deleted" /\ h[d].uid = h[q].uid
      BY <3>1 DEF Alive
    <3>3. d \in 1..n /\ g[d] = h[d] /\ g[q] = h[q]
      BY <1>1, <2>1 DEF n
    <3>. QED
      BY <2>3, <3>1, <3>2, <3>3 DEF Alive
  <2>. QED
    BY <1>3, <2>2, <2>3
<1>. QED
  BY <1>2, <1>6, <1>7, <1>8, <1>9, <1>10 DEF WellFormed

\* What the cluster does is of that kind.
LEMMA HistoryStep == WellFormed(history) /\ [Next]_vars => WellFormed(history')
<1> SUFFICES ASSUME WellFormed(history), [Next]_vars
             PROVE  WellFormed(history')
  OBVIOUS
<1>1. Len(history) \in Nat /\ MaxRV \in Nat
  BY InformerAssumption DEF WellFormed
<1>2. ASSUME NEW n \in Names, Create(n)
      PROVE  WellFormed(history')
  <2> DEFINE e == [kind |-> "Added", name |-> n, uid |-> Latest + 1]
  <2>1. Len(history) < MaxRV /\ history' = Append(history, e)
    BY <1>2 DEF Create, Happens, Latest
  <2>2. e \in Events
    <3>1. Latest + 1 \in RVs
      BY <1>1, <2>1 DEF RVs, Latest
    <3>. QED
      BY <3>1 DEF Events
  <2>3. ASSUME NEW q \in 1..Len(history), OfPod(history, q), history[q].name = n
        PROVE  ReusesNames /\ ~Alive(history, history[q].uid, Len(history))
    <3>1. ReusesNames
      BY <1>2, <2>3 DEF Create, Latest
    <3>2. \A o \in ObjectsAt(history, Len(history)) : o.name # n
      BY <1>2, CurrentObjects DEF Create, Latest
    <3>3. Len(history) \in 0..Len(history)
      BY <1>1
    <3>. QED
      BY <2>3, <3>1, <3>2, <3>3, AliveListed
  <2>. QED
    BY <2>1, <2>2, <2>3, WellFormedAppend DEF Latest
<1>3. ASSUME NEW pod \in Current, NEW kind \in {"Modified", "Deleted"},
             Happens(kind, pod.name, pod.uid)
      PROVE  WellFormed(history')
  <2> DEFINE e == [kind |-> kind, name |-> pod.name, uid |-> pod.uid]
  <2>1. Len(history) < MaxRV /\ history' = Append(history, e)
    BY <1>3 DEF Happens, Latest
  <2>2. /\ pod.rv \in 1..Len(history) /\ pod.uid = history[pod.rv].uid
        /\ pod.name = history[pod.rv].name
        /\ OfPod(history, pod.rv) /\ Alive(history, pod.uid, Len(history))
    <3>1. Len(history) \in 0..Len(history) /\ pod \in ObjectsAt(history, Len(history))
      BY <1>1, CurrentObjects DEF Latest
    <3>. QED
      BY <3>1, ObjectFacts DEF OfPod
  <2>3. e \in Events
    <3>1. history[pod.rv] \in Events
      BY <2>2 DEF WellFormed
    <3>2. pod.name \in Names \cup {""} /\ pod.uid \in RVs
      BY <2>2, <3>1 DEF Events
    <3>. QED
      BY <3>2 DEF Events
  <2>. QED
    BY <2>1, <2>2, <2>3, WellFormedAppend
<1>4. CASE OtherObject
  <2> DEFINE e == [kind |-> "Other", name |-> "", uid |-> 0]
  <2>1. Len(history) < MaxRV /\ history' = Append(history, e)
    BY <1>4 DEF OtherObject, Happens, Latest
  <2>2. e \in Events
    BY <1>1 DEF Events, RVs
  <2>. QED
    BY <2>1, <2>2, WellFormedAppend
<1>5. CASE UNCHANGED history
  BY <1>5
<1>. QED
  BY <1>2, <1>3, <1>4, <1>5
     DEF Next, Modify, Delete, Compact, List, Seed, Reconcile, OpenWatch, Drop, WatchGone,
         Event, Bookmark, SaveBegins, SaveEnds, SaveFails, SaveLands, SaveState,
         StopAndStart, CrashAndStart, Starts, cluster, vars

-----------------------------------------------------------------------------
(* What the watcher holds: its position, its cache, the records.           *)

PositionOK ==
  /\ lastRV \in 0..Latest
  /\ stage \in {"idle", "listed", "watching"}
  /\ stage = "watching" => sent = lastRV /\ synced
  /\ stage # "watching" => sent = NoRV
  /\ stage # "listed" => list = NoList

\* A list shows the cluster at a version that nothing held is ahead of.
ListOK ==
  stage = "listed" =>
    /\ list.rv \in lastRV..Latest
    /\ list.pods = ObjectsAt(history, list.rv)
    /\ \A n \in DOMAIN cache : cache[n].rv <= list.rv
    /\ \A u \in DOMAIN view : view[u].rv <= list.rv

\* What is recorded of a pod that was reported alive, and of one reported deleted.
Recorded(o) == Entry(o, FALSE)
Buried(o) == Entry(o, TRUE)

\* The cache holds objects the cluster had, each as it was last reported.
CacheOK ==
  \A n \in DOMAIN cache :
    /\ cache[n].rv \in 1..Latest /\ cache[n] = ObjectOf(history, cache[n].rv)
    /\ OfPod(history, cache[n].rv) /\ cache[n].name = n
    /\ cache[n].uid \in DOMAIN view
    /\ view[cache[n].uid] = Recorded(cache[n])

\* The records are of versions the pods had, deleted only when they were.
RecordsOK(v) ==
  \A u \in DOMAIN v :
    /\ v[u].rv \in 1..Latest /\ OfPod(history, v[u].rv) /\ history[v[u].rv].uid = u
    /\ v[u].deleted => ~Alive(history, u, Latest)

\* What the position has passed of a pod that exists is on record.
LivePassed ==
  synced => \A r \in 1..lastRV :
    OfPod(history, r) /\ Alive(history, history[r].uid, Latest) =>
      history[r].uid \in DOMAIN view /\ view[history[r].uid].rv >= r

WatchInv ==
  /\ WellFormed(history)
  /\ PositionOK /\ ListOK /\ CacheOK
  /\ RecordsOK(view) /\ RecordsOK(viewFile)
  /\ LivePassed

\* The events the open watch has left out are of other objects.
LEMMA NextFacts ==
  ASSUME WellFormed(history), sent \in 0..Latest, Unsent # {}
  PROVE  /\ NextEvent \in (sent + 1)..Latest /\ OfPod(history, NextEvent)
         /\ \A q \in (sent + 1)..Latest : q < NextEvent => ~OfPod(history, q)
<1>1. Latest \in Nat /\ sent \in Nat
  BY DEF WellFormed, Latest
<1> DEFINE S == {Latest + 1 - r : r \in Unsent}
<1>2. Unsent \subseteq (sent + 1)..Latest
  BY DEF Unsent
<1>3. S \subseteq 1..Latest /\ S # {}
  <2>1. \A r \in Unsent : Latest + 1 - r \in 1..Latest
    BY <1>1, <1>2
  <2>. QED
    BY <2>1
<1>4. PICK s \in S : \A t \in S : t <= s
  <2>. HIDE DEF S
  <2>. QED
    BY <1>1, <1>3, LastOf
<1>5. PICK r \in Unsent : s = Latest + 1 - r
  BY <1>4
<1>6. \A q \in Unsent : Latest + 1 - q <= Latest + 1 - r
  BY <1>4, <1>5
<1>7. \A q \in Unsent : r <= q
  <2>1. \A q \in Unsent : q \in Nat
    BY <1>1, <1>2
  <2>. QED
    BY <1>1, <1>5, <1>6, <2>1
<1>8. NextEvent \in Unsent /\ \A q \in Unsent : NextEvent <= q
  BY <1>5, <1>7 DEF NextEvent
<1>9. NextEvent \in Nat /\ \A q \in (sent + 1)..Latest : q \in Nat
  BY <1>1, <1>2, <1>8
<1>10. \A q \in (sent + 1)..Latest : OfPod(history, q) => q \in Unsent
  BY DEF Unsent, OfPod
<1>. QED
  BY <1>2, <1>8, <1>9, <1>10 DEF Unsent, OfPod

\* Nothing but the history moves.
Unwatched ==
  UNCHANGED <<lastRV, synced, cache, stage, list, sent, view, viewFile>>

\* What the cluster, the checkpoint and the state file do alone.
LEMMA UnwatchedStep ==
  ASSUME WatchInv, WellFormed(history'), Unwatched,
         history' = history \/ \E e : history' = Append(history, e)
  PROVE  WatchInv'
<1>1. CASE history' = history
  BY <1>1 DEF Unwatched, WatchInv, PositionOK, ListOK, CacheOK, RecordsOK, LivePassed, Latest
<1>2. CASE \E e : history' = Append(history, e)
  <2>1. PICK e : history' = Append(history, e)
    BY <1>2
  <2>2. history \in Seq(Events)
    BY DEF WatchInv, WellFormed
  <2>3. /\ Latest \in Nat /\ Latest' = Latest + 1
        /\ \A r \in 1..Latest : history'[r] = history[r]
    BY <2>1, <2>2 DEF Latest
  <2>4. /\ \A rv \in 0..Latest : \A u : Alive(history', u, rv) <=> Alive(history, u, rv)
        /\ \A rv \in 0..Latest : ObjectsAt(history', rv) = ObjectsAt(history, rv)
    BY <2>1, <2>2, Longer, Zenon DEF Latest
  <2>5. \A u : Alive(history', u, Latest') => Alive(history, u, Latest)
    BY <2>3 DEF Alive
  <2>6. /\ \A r \in 1..Latest : /\ r \in 1..Latest'
                                /\ OfPod(history', r) <=> OfPod(history, r)
                                /\ ObjectOf(history', r) = ObjectOf(history, r)
        /\ lastRV \in 0..Latest
    BY <2>3 DEF OfPod, ObjectOf, WatchInv, PositionOK
  <2>7. PositionOK'
    BY <2>3 DEF WatchInv, PositionOK, Unwatched
  <2>8. ListOK'
    <3>1. stage = "listed" => list.rv \in lastRV..Latest /\ list.rv \in 0..Latest
                              /\ list.rv \in lastRV..Latest'
      BY <2>3, <2>6 DEF WatchInv, ListOK
    <3>. QED
      BY <2>4, <3>1 DEF WatchInv, ListOK, Unwatched
  <2>9. CacheOK'
    BY <2>6 DEF WatchInv, CacheOK, Unwatched
  <2>10. ASSUME NEW v, RecordsOK(v)
         PROVE  \A u \in DOMAIN v :
                  /\ v[u].rv \in 1..Latest' /\ OfPod(history', v[u].rv)
                  /\ history'[v[u].rv].uid = u
                  /\ v[u].deleted => ~Alive(history', u, Latest')
    BY <2>3, <2>5, <2>6, <2>10 DEF RecordsOK
  <2>11. RecordsOK(view)' /\ RecordsOK(viewFile)'
    BY <2>10 DEF WatchInv, RecordsOK, Unwatched
  <2>12. LivePassed'
    <3>1. \A r \in 1..lastRV : r \in 1..Latest
      BY <2>3, <2>6
    <3>. QED
      BY <2>3, <2>5, <2>6, <3>1 DEF WatchInv, LivePassed, Unwatched
  <2>. QED
    BY <2>7, <2>8, <2>9, <2>11, <2>12 DEF WatchInv
<1>. QED
  BY <1>1, <1>2

\* The list shows the cluster as it is.
LEMMA ListStep ==
  ASSUME WatchInv, List
  PROVE  WatchInv'
<1>1. /\ stage = "idle" /\ stage' = "listed"
      /\ list'.rv = Latest /\ list'.pods = Current
      /\ UNCHANGED <<history, lastRV, synced, cache, sent, view, viewFile>>
  BY DEF List, cluster, records
<1>2. Latest \in Nat /\ lastRV \in 0..Latest
  BY DEF WatchInv, WellFormed, Latest, PositionOK
<1>3. PositionOK'
  BY <1>1 DEF WatchInv, PositionOK, Latest
<1>4. ListOK'
  <2>1. list'.rv \in lastRV..Latest /\ list'.pods = ObjectsAt(history, Latest)
    BY <1>1, <1>2, CurrentObjects
  <2>2. /\ \A n \in DOMAIN cache : cache[n].rv <= Latest
        /\ \A u \in DOMAIN view : view[u].rv <= Latest
    <3>1. /\ \A n \in DOMAIN cache : cache[n].rv \in 1..Latest
          /\ \A u \in DOMAIN view : view[u].rv \in 1..Latest
      BY DEF WatchInv, CacheOK, RecordsOK
    <3>. QED
      BY <1>2, <3>1
  <2>3. list'.rv = Latest /\ lastRV' = lastRV /\ history' = history
        /\ cache' = cache /\ view' = view
    BY <1>1
  <2>4. list'.rv \in lastRV'..Latest' /\ list'.pods = ObjectsAt(history', list'.rv)
    BY <2>1, <2>3 DEF Latest
  <2>. QED
    BY <2>2, <2>3, <2>4 DEF ListOK
<1>5. CacheOK' /\ RecordsOK(view)' /\ RecordsOK(viewFile)' /\ LivePassed'
  BY <1>1 DEF WatchInv, CacheOK, RecordsOK, LivePassed, Latest
<1>. QED
  BY <1>1, <1>3, <1>4, <1>5 DEF WatchInv

\* A pod that exists and was there at the list's version is in the list.
LEMMA ListedIfAlive ==
  ASSUME WatchInv, stage = "listed", NEW r \in 1..list.rv, OfPod(history, r),
         Alive(history, history[r].uid, list.rv)
  PROVE  \E o \in list.pods : /\ o.uid = history[r].uid /\ o.name = history[r].name
                              /\ o.rv >= r
<1>1. list.rv \in 0..Len(history) /\ list.pods = ObjectsAt(history, list.rv)
  BY DEF WatchInv, ListOK, PositionOK, WellFormed, Latest
<1>. QED
  BY <1>1, AliveListed DEF WatchInv

\* What the list says is so.
LEMMA ListedFacts ==
  ASSUME WatchInv, stage = "listed", NEW o \in list.pods
  PROVE  /\ o.rv \in 1..list.rv /\ o.rv \in 1..Latest /\ o = ObjectOf(history, o.rv)
         /\ o.uid = history[o.rv].uid /\ o.name = history[o.rv].name
         /\ OfPod(history, o.rv)
         /\ \A q \in 1..list.rv : history[q].uid = o.uid => q <= o.rv
         /\ Alive(history, o.uid, list.rv)
<1>1. /\ list.rv \in 0..Len(history) /\ list.pods = ObjectsAt(history, list.rv)
      /\ WellFormed(history)
  BY DEF WatchInv, ListOK, PositionOK, WellFormed, Latest
<1>2. Len(history) \in Nat
  BY <1>1 DEF WellFormed
<1>3. /\ o.rv \in 1..list.rv /\ o = ObjectOf(history, o.rv)
      /\ o.uid = history[o.rv].uid /\ o.name = history[o.rv].name
      /\ history[o.rv].kind \in {"Added", "Modified"}
      /\ \A q \in 1..list.rv : history[q].uid = o.uid => q <= o.rv
      /\ Alive(history, o.uid, list.rv)
  BY <1>1, ObjectFacts
<1>4. o.rv \in 1..Latest
  BY <1>1, <1>2, <1>3 DEF Latest
<1>. QED
  BY <1>3, <1>4 DEF OfPod

\* Two objects of one pod in a list are one, and so are two of one name.
LEMMA ListedOnce ==
  ASSUME WatchInv, stage = "listed", NEW o \in list.pods, NEW p \in list.pods,
         o.uid = p.uid \/ o.name = p.name
  PROVE  o = p
<1>1. WellFormed(history) /\ list.rv \in 0..Len(history)
  BY DEF WatchInv, ListOK, PositionOK, WellFormed, Latest
<1>2. /\ o.rv \in 1..list.rv /\ o = ObjectOf(history, o.rv) /\ OfPod(history, o.rv)
      /\ o.uid = history[o.rv].uid /\ o.name = history[o.rv].name
      /\ \A q \in 1..list.rv : history[q].uid = o.uid => q <= o.rv
      /\ Alive(history, history[o.rv].uid, list.rv)
  BY ListedFacts
<1>3. /\ p.rv \in 1..list.rv /\ p = ObjectOf(history, p.rv) /\ OfPod(history, p.rv)
      /\ p.uid = history[p.rv].uid /\ p.name = history[p.rv].name
      /\ \A q \in 1..list.rv : history[q].uid = p.uid => q <= p.rv
      /\ Alive(history, history[p.rv].uid, list.rv)
  BY ListedFacts
<1>4. o.rv \in Nat /\ p.rv \in Nat
  BY <1>2, <1>3
<1>5. CASE o.uid = p.uid
  <2>1. o.rv <= p.rv /\ p.rv <= o.rv
    BY <1>2, <1>3, <1>5
  <2>. QED
    BY <1>2, <1>3, <1>4, <2>1
<1>6. CASE o.name = p.name
  <2>1. CASE o.rv <= p.rv
    <3>1. p.rv \in o.rv..list.rv
      BY <1>3, <1>4, <2>1
    <3>2. history[p.rv].uid = history[o.rv].uid
      BY <1>1, <1>2, <1>3, <1>6, <3>1, NameIsTaken
    <3>. QED
      BY <1>2, <1>3, <1>5, <3>2
  <2>2. CASE p.rv <= o.rv
    <3>1. o.rv \in p.rv..list.rv
      BY <1>2, <1>4, <2>2
    <3>2. history[p.rv].uid = history[o.rv].uid
      BY <1>1, <1>2, <1>3, <1>6, <3>1, NameIsTaken
    <3>. QED
      BY <1>2, <1>3, <1>5, <3>2
  <2>. QED
    BY <1>4, <2>1, <2>2
<1>. QED
  BY <1>5, <1>6

\* Where a pod lived at a version, it lived before.
LEMMA AliveBefore ==
  ASSUME NEW h, NEW u, NEW s \in Nat, NEW rv \in 0..s, Alive(h, u, s)
  PROVE  Alive(h, u, rv)
BY DEF Alive

\* What an entry says.
LEMMA EntryIs ==
  ASSUME NEW o
  PROVE  /\ Recorded(o).rv = o.rv /\ ~Recorded(o).deleted
         /\ Buried(o).rv = o.rv /\ Buried(o).deleted
BY DEF Entry, Recorded, Buried

\* What the seed and the relist have in common: cache and records agree with the
\* list, and what is not in the list stays, or is recorded deleted when it is gone.
Relisted ==
  /\ stage = "listed" /\ stage' = "idle" /\ list' = NoList /\ synced' = TRUE
  /\ lastRV' \in {lastRV, list.rv} /\ (lastRV = NoRV => lastRV' = list.rv)
  /\ UNCHANGED <<history, sent, viewFile>>
  /\ \A o \in list.pods :
       /\ o.uid \in DOMAIN view' /\ view'[o.uid] = Recorded(o)
       /\ o.name \in DOMAIN cache' /\ cache'[o.name] = o
  /\ \A n \in DOMAIN cache' : \E o \in list.pods : o.name = n
  /\ DOMAIN view \subseteq DOMAIN view'
  /\ \A u \in DOMAIN view' :
       \/ \E o \in list.pods : o.uid = u
       \/ /\ u \in DOMAIN view
          /\ \/ view'[u] = view[u]
             \/ /\ ~Alive(history, u, list.rv)
                /\ view'[u].deleted /\ view'[u].rv = view[u].rv

\* The seed of a new process is of that kind.
LEMMA SeedRelists ==
  ASSUME WatchInv, Seed
  PROVE  Relisted
<1>1. /\ stage = "listed" /\ stage' = "idle" /\ list' = NoList /\ synced' = TRUE
      /\ UNCHANGED <<history, sent, viewFile>>
  BY DEF Seed, cluster
<1>2. lastRV' \in {lastRV, list.rv} /\ (lastRV = NoRV => lastRV' = list.rv)
  BY DEF Seed, SeedPosition, SetRV
<1>3. /\ cache' = ByName(list.pods)
      /\ view' = [u \in DOMAIN view \cup {o.uid : o \in list.pods} |->
                    IF \E o \in list.pods : o.uid = u
                    THEN Recorded(CHOOSE o \in list.pods : o.uid = u) ELSE view[u]]
  BY DEF Seed, Recorded
<1>4. ASSUME NEW o \in list.pods
      PROVE  /\ (CHOOSE p \in list.pods : p.uid = o.uid) = o
             /\ (CHOOSE p \in list.pods : p.name = o.name) = o
  BY <1>1, ListedOnce
<1>5. ASSUME NEW o \in list.pods
      PROVE  /\ o.uid \in DOMAIN view' /\ view'[o.uid] = Recorded(o)
             /\ o.name \in DOMAIN cache' /\ cache'[o.name] = o
  <2>1. view'[o.uid] = Recorded(CHOOSE p \in list.pods : p.uid = o.uid)
    BY <1>3
  <2>2. cache'[o.name] = CHOOSE p \in list.pods : p.name = o.name
    BY <1>3 DEF ByName
  <2>. QED
    BY <1>3, <1>4, <2>1, <2>2 DEF ByName
<1>6. \A n \in DOMAIN cache' : \E o \in list.pods : o.name = n
  BY <1>3 DEF ByName
<1>7. \A u \in DOMAIN view' :
        \/ \E o \in list.pods : o.uid = u
        \/ u \in DOMAIN view /\ view'[u] = view[u]
  BY <1>3
<1>8. DOMAIN view \subseteq DOMAIN view'
  BY <1>3
<1>. QED
  BY <1>1, <1>2, <1>5, <1>6, <1>7, <1>8 DEF Relisted

\* A cached pod the list lacks is gone; one the list has in no later version is
\* cached in the version the list has.
LEMMA CacheAgainstList ==
  ASSUME WatchInv, stage = "listed"
  PROVE  /\ \A n \in DOMAIN cache \ {o.name : o \in list.pods} :
              ~Alive(history, cache[n].uid, list.rv)
         /\ \A n \in DOMAIN cache, o \in list.pods : cache[n].uid = o.uid => n = o.name
         /\ \A o \in list.pods : Known(o) => cache[o.name] = o
         /\ \A n, m \in DOMAIN cache : cache[n].uid = cache[m].uid => n = m
<1>1. /\ list.rv \in 0..Len(history) /\ list.rv \in Nat /\ WellFormed(history)
      /\ Latest = Len(history) /\ Latest \in Nat
  BY DEF WatchInv, ListOK, PositionOK, WellFormed, Latest
<1>2. \A n \in DOMAIN cache :
        /\ cache[n].rv \in 1..Latest /\ cache[n] = ObjectOf(history, cache[n].rv)
        /\ OfPod(history, cache[n].rv) /\ cache[n].name = n
        /\ cache[n].rv <= list.rv
  BY DEF WatchInv, CacheOK, ListOK
<1>3. \A n \in DOMAIN cache : /\ cache[n].rv \in 1..list.rv
                              /\ history[cache[n].rv].uid = cache[n].uid
                              /\ history[cache[n].rv].name = n
  <2>1. \A n \in DOMAIN cache : cache[n].rv \in 1..list.rv
    BY <1>1, <1>2
  <2>. QED
    BY <1>2, <2>1 DEF ObjectOf
<1>4. ASSUME NEW n \in DOMAIN cache \ {o.name : o \in list.pods},
             Alive(history, cache[n].uid, list.rv)
      PROVE  FALSE
  BY <1>2, <1>3, <1>4, ListedIfAlive
<1>5. \A r \in 1..Latest : OfPod(history, r) => history[history[r].uid].name = history[r].name
  BY <1>1 DEF WellFormed
<1>6. \A o \in list.pods : /\ o.rv \in 1..list.rv /\ o.rv \in 1..Latest /\ OfPod(history, o.rv)
                           /\ o = ObjectOf(history, o.rv)
                           /\ o.uid = history[o.rv].uid /\ o.name = history[o.rv].name
                           /\ \A q \in 1..list.rv : history[q].uid = o.uid => q <= o.rv
                           /\ Alive(history, history[o.rv].uid, list.rv)
  BY ListedFacts
<1>7. ASSUME NEW o \in list.pods, Known(o)
      PROVE  cache[o.name] = o
  <2>1. o.name \in DOMAIN cache /\ cache[o.name].rv >= o.rv
    BY <1>7 DEF Known
  <2> DEFINE r == cache[o.name].rv
  <2>2. r \in o.rv..list.rv /\ OfPod(history, r) /\ history[r].name = history[o.rv].name
    BY <1>1, <1>2, <1>3, <1>6, <2>1
  <2>3. history[r].uid = o.uid
    BY <1>1, <1>6, <2>2, NameIsTaken
  <2>4. r \in 1..list.rv /\ cache[o.name] = ObjectOf(history, r)
    BY <1>2, <1>3, <2>1
  <2>5. r = o.rv
    <3>. HIDE DEF r
    <3>. QED
      BY <1>1, <1>6, <2>2, <2>3, <2>4
  <2>. QED
    BY <1>6, <2>4, <2>5
<1>. QED
  BY <1>2, <1>3, <1>4, <1>5, <1>6, <1>7

\* So is the relist after a 410, which reports what it does not find in the list.
LEMMA ReconcileRelists ==
  ASSUME WatchInv, Reconcile
  PROVE  /\ Relisted
         /\ \A n \in DOMAIN cache \ {o.name : o \in list.pods} : view'[cache[n].uid].deleted
<1>1. /\ stage = "listed" /\ stage' = "idle" /\ list' = NoList /\ synced' = TRUE
      /\ UNCHANGED <<history, sent, viewFile>>
      /\ lastRV' = list.rv
  BY DEF Reconcile, cluster, SetRV
<1>2. /\ view' = [u \in DOMAIN view \cup {o.uid : o \in News \cup Vanished} |->
           CASE \E o \in News : o.uid = u -> Recorded(CHOOSE o \in News : o.uid = u)
             [] \E o \in Vanished : o.uid = u ->
                  Buried(CHOOSE o \in Vanished : o.uid = u)
             [] OTHER -> view[u]]
      /\ cache' = [n \in {o.name : o \in list.pods} |->
                     IF n \in {o.name : o \in News} THEN ByName(News)[n] ELSE cache[n]]
  BY DEF Reconcile, Recorded, Buried
<1>3. /\ \A n \in DOMAIN cache \ {o.name : o \in list.pods} :
            ~Alive(history, cache[n].uid, list.rv)
      /\ \A n \in DOMAIN cache, o \in list.pods : cache[n].uid = o.uid => n = o.name
      /\ \A o \in list.pods : Known(o) => cache[o.name] = o
      /\ \A n, m \in DOMAIN cache : cache[n].uid = cache[m].uid => n = m
  BY <1>1, CacheAgainstList
<1>4. \A o, p \in list.pods : o.uid = p.uid \/ o.name = p.name => o = p
  BY <1>1, ListedOnce
<1>5. News \subseteq list.pods /\ \A o \in list.pods : o \in News \/ Known(o)
  BY DEF News
<1>6. \A o \in Vanished : \E n \in DOMAIN cache \ {p.name : p \in list.pods} : o = cache[n]
  BY DEF Vanished
<1>7. \A n \in DOMAIN cache \ {p.name : p \in list.pods} : cache[n] \in Vanished
  BY DEF Vanished
<1>8. \A o \in list.pods, p \in Vanished : o.uid # p.uid
  BY <1>3, <1>6
<1>9. \A n \in DOMAIN cache : /\ cache[n].uid \in DOMAIN view
                              /\ view[cache[n].uid] = Recorded(cache[n])
  BY DEF WatchInv, CacheOK
<1>10. ASSUME NEW o \in News
       PROVE  /\ (CHOOSE p \in News : p.uid = o.uid) = o
              /\ (CHOOSE p \in News : p.name = o.name) = o
  BY <1>4, <1>5
<1>11. ASSUME NEW o \in Vanished
       PROVE  (CHOOSE p \in Vanished : p.uid = o.uid) = o
  BY <1>3, <1>6
<1>12. \A o \in News : /\ o.uid \in DOMAIN view' /\ view'[o.uid] = Recorded(o)
                       /\ o.name \in DOMAIN cache' /\ cache'[o.name] = o
  <2> SUFFICES ASSUME NEW o \in News
               PROVE  /\ o.uid \in DOMAIN view' /\ view'[o.uid] = Recorded(o)
                      /\ o.name \in DOMAIN cache' /\ cache'[o.name] = o
    OBVIOUS
  <2>1. o.uid \in DOMAIN view' /\ o.name \in DOMAIN cache'
    <3>1. o \in list.pods /\ o \in News \cup Vanished
      BY <1>5
    <3>2. DOMAIN view' = DOMAIN view \cup {p.uid : p \in News \cup Vanished}
      BY <1>2
    <3>3. DOMAIN cache' = {p.name : p \in list.pods}
      BY <1>2
    <3>4. o.uid \in {p.uid : p \in News \cup Vanished}
      BY <3>1, Zenon
    <3>5. o.name \in {p.name : p \in list.pods}
      BY <3>1, Zenon
    <3>. QED
      BY <3>2, <3>3, <3>4, <3>5, Zenon
  <2>2. view'[o.uid] = Recorded(CHOOSE p \in News : p.uid = o.uid)
    <3>1. (\E p \in News : p.uid = o.uid) /\ ~ \E p \in Vanished : p.uid = o.uid
      BY <1>5, <1>8
    <3>. QED
      BY <1>2, <2>1, <3>1
  <2>3. cache'[o.name] = ByName(News)[o.name]
    BY <1>2, <1>5
  <2>4. ByName(News)[o.name] = CHOOSE p \in News : p.name = o.name
    BY DEF ByName
  <2>. QED
    BY <1>10, <2>1, <2>2, <2>3, <2>4
<1>13. \A o \in Vanished : o.uid \in DOMAIN view' /\ view'[o.uid] = Buried(o)
  <2> SUFFICES ASSUME NEW o \in Vanished
               PROVE  o.uid \in DOMAIN view' /\ view'[o.uid] = Buried(o)
    OBVIOUS
  <2>1. ~ \E p \in News : p.uid = o.uid
    BY <1>5, <1>8
  <2>2. view'[o.uid] = Buried(CHOOSE p \in Vanished : p.uid = o.uid)
    BY <1>2, <2>1
  <2>. QED
    BY <1>2, <1>11, <2>2
<1>14. \A u \in DOMAIN view :
         (~ \E o \in News : o.uid = u) /\ (~ \E o \in Vanished : o.uid = u) =>
           u \in DOMAIN view' /\ view'[u] = view[u]
  BY <1>2
<1>15. DOMAIN view' = DOMAIN view \cup {o.uid : o \in News \cup Vanished}
  BY <1>2
<1>16. ASSUME NEW o \in list.pods, o \notin News
       PROVE  /\ o.uid \in DOMAIN view' /\ view'[o.uid] = Recorded(o)
              /\ o.name \in DOMAIN cache' /\ cache'[o.name] = o
  <2>1. o.name \in DOMAIN cache /\ cache[o.name] = o
    BY <1>3, <1>5, <1>16 DEF Known
  <2>2. o.uid \in DOMAIN view /\ view[o.uid] = Recorded(o)
    BY <1>9, <2>1
  <2>3. (~ \E p \in News : p.uid = o.uid) /\ (~ \E p \in Vanished : p.uid = o.uid)
    BY <1>4, <1>5, <1>8, <1>16
  <2>4. o.name \notin {p.name : p \in News}
    BY <1>4, <1>5, <1>16
  <2>5. o.name \in DOMAIN cache' /\ cache'[o.name] = cache[o.name]
    BY <1>2, <2>4
  <2>. QED
    BY <1>14, <2>1, <2>2, <2>3, <2>5
<1>17. \A n \in DOMAIN cache' : \E o \in list.pods : o.name = n
  BY <1>2
<1>18. ASSUME NEW u \in DOMAIN view', ~ \E o \in list.pods : o.uid = u
       PROVE  /\ u \in DOMAIN view
              /\ \/ view'[u] = view[u]
                 \/ /\ ~Alive(history, u, list.rv)
                    /\ view'[u].deleted /\ view'[u].rv = view[u].rv
  <2>1. CASE \E o \in Vanished : o.uid = u
    <3>1. PICK n \in DOMAIN cache \ {p.name : p \in list.pods} : cache[n].uid = u
      BY <1>6, <2>1
    <3>2. view'[u] = Buried(cache[n]) /\ view[u] = Recorded(cache[n])
      BY <1>7, <1>9, <1>13, <3>1
    <3>. QED
      BY <1>3, <1>9, <3>1, <3>2, EntryIs
  <2>2. CASE ~ \E o \in Vanished : o.uid = u
    <3>1. ~ \E o \in News : o.uid = u
      BY <1>5, <1>18
    <3>. QED
      BY <1>14, <1>15, <2>2, <3>1
  <2>. QED
    BY <2>1, <2>2
<1>19. \A n \in DOMAIN cache \ {o.name : o \in list.pods} : view'[cache[n].uid].deleted
  BY <1>7, <1>13, EntryIs
<1>. QED
  BY <1>1, <1>12, <1>15, <1>16, <1>17, <1>18, <1>19 DEF Relisted

\* Relisting keeps the invariant.
LEMMA RelistStep ==
  ASSUME WatchInv, Relisted
  PROVE  WatchInv'
<1>1. /\ list.rv \in lastRV..Latest /\ Latest \in Nat /\ lastRV \in Nat
      /\ list.rv \in 0..Latest /\ list.rv \in Nat
      /\ history' = history /\ Latest' = Latest
      /\ lastRV' \in {lastRV, list.rv}
  BY DEF Relisted, WatchInv, ListOK, PositionOK, WellFormed, Latest
<1>2. lastRV' \in 0..Latest /\ lastRV' <= list.rv
  BY <1>1
<1>3. PositionOK' /\ ListOK'
  BY <1>1, <1>2 DEF Relisted, WatchInv, PositionOK, ListOK
<1>4. CacheOK'
  <2> SUFFICES ASSUME NEW n \in DOMAIN cache'
               PROVE  /\ cache'[n].rv \in 1..Latest
                      /\ cache'[n] = ObjectOf(history, cache'[n].rv)
                      /\ OfPod(history, cache'[n].rv) /\ cache'[n].name = n
                      /\ cache'[n].uid \in DOMAIN view'
                      /\ view'[cache'[n].uid] = Recorded(cache'[n])
    BY <1>1 DEF CacheOK
  <2>1. PICK o \in list.pods : o.name = n /\ cache'[n] = o
    BY DEF Relisted
  <2>2. o.uid \in DOMAIN view' /\ view'[o.uid] = Recorded(o)
    BY DEF Relisted
  <2>. QED
    BY <2>1, <2>2, ListedFacts DEF Relisted
<1>5. RecordsOK(view)'
  <2> SUFFICES ASSUME NEW u \in DOMAIN view'
               PROVE  /\ view'[u].rv \in 1..Latest /\ OfPod(history, view'[u].rv)
                      /\ history[view'[u].rv].uid = u
                      /\ view'[u].deleted => ~Alive(history, u, Latest)
    BY <1>1 DEF RecordsOK
  <2>1. ASSUME NEW o \in list.pods, o.uid = u
        PROVE  /\ view'[u].rv \in 1..Latest /\ OfPod(history, view'[u].rv)
               /\ history[view'[u].rv].uid = u
               /\ ~view'[u].deleted
    <3>1. view'[u] = Recorded(o)
      BY <2>1 DEF Relisted
    <3>2. view'[u].rv = o.rv /\ ~view'[u].deleted
      BY <3>1, EntryIs
    <3>. QED
      BY <2>1, <3>2, ListedFacts DEF Relisted
  <2>2. CASE u \in DOMAIN view /\ view'[u] = view[u]
    BY <2>2 DEF WatchInv, RecordsOK
  <2>3. CASE /\ u \in DOMAIN view /\ ~Alive(history, u, list.rv)
             /\ view'[u].rv = view[u].rv
    <3>1. ~Alive(history, u, Latest)
      BY <1>1, <2>3, AliveBefore
    <3>. QED
      BY <2>3, <3>1 DEF WatchInv, RecordsOK
  <2>. QED
    BY <2>1, <2>2, <2>3 DEF Relisted
<1>6. RecordsOK(viewFile)'
  BY <1>1 DEF Relisted, WatchInv, RecordsOK
<1>7. LivePassed'
  <2> SUFFICES ASSUME NEW r \in 1..lastRV', OfPod(history, r),
                      Alive(history, history[r].uid, Latest)
               PROVE  history[r].uid \in DOMAIN view' /\ view'[history[r].uid].rv >= r
    BY <1>1 DEF LivePassed
  <2>1. r \in 1..list.rv /\ Alive(history, history[r].uid, list.rv)
    BY <1>1, <1>2, AliveBefore
  <2>2. PICK o \in list.pods : o.uid = history[r].uid /\ o.rv >= r
    BY <2>1, ListedIfAlive DEF Relisted
  <2>3. o.uid \in DOMAIN view' /\ view'[o.uid] = Recorded(o)
    BY DEF Relisted
  <2>4. view'[history[r].uid] = Recorded(o)
    BY <2>2, <2>3
  <2>. QED
    BY <2>2, <2>3, <2>4, EntryIs
<1>. QED
  BY <1>1, <1>3, <1>4, <1>5, <1>6, <1>7 DEF WatchInv

\* A pod keeps its name.
LEMMA SameName ==
  ASSUME NEW h, WellFormed(h), NEW q \in 1..Len(h), NEW r \in 1..Len(h),
         OfPod(h, q), OfPod(h, r), h[q].uid = h[r].uid
  PROVE  h[q].name = h[r].name
BY DEF WellFormed

\* The next event of the watch is r, of the object o: what it does.
Reaches(r, o) ==
  /\ lastRV < r /\ OfPod(history, r)
  /\ o = ObjectOf(history, r)
  /\ \A q \in 1..r : OfPod(history, q) => q <= lastRV \/ q = r
  /\ lastRV' = r /\ sent' = r /\ stage = "watching" /\ synced
  /\ UNCHANGED <<history, synced, stage, list, viewFile>>
  /\ \/ /\ history[r].kind = "Deleted"
        /\ view' = Put(view, o.uid, Buried(o))
        /\ cache' = Without(cache, o.name)
     \/ /\ history[r].kind # "Deleted" /\ Known(o)
        /\ view' = view /\ cache' = cache
     \/ /\ history[r].kind # "Deleted" /\ ~Known(o)
        /\ view' = Put(view, o.uid, Recorded(o))
        /\ cache' = Put(cache, o.name, o)

\* Every event of the watch is of that kind.
LEMMA EventShape ==
  ASSUME WatchInv, Event
  PROVE  \E r \in 1..Latest : \E o : Reaches(r, o)
<1>1. /\ WellFormed(history) /\ sent = lastRV /\ lastRV \in 0..Latest /\ synced
      /\ stage = "watching" /\ Unsent # {} /\ Latest \in Nat
  BY DEF WatchInv, PositionOK, Event, WellFormed, Latest
<1> DEFINE r == NextEvent
           o == Object(r)
<1>2. /\ r \in (lastRV + 1)..Latest /\ OfPod(history, r)
      /\ \A q \in (lastRV + 1)..Latest : q < r => ~OfPod(history, q)
  BY <1>1, NextFacts
<1>3. o = ObjectOf(history, r)
  BY DEF Object, ObjectOf
<1>4. /\ lastRV' = r /\ sent' = r
      /\ UNCHANGED <<history, synced, stage, list, viewFile>>
      /\ IF history[r].kind = "Deleted" THEN Forget(o) ELSE Observe(o)
  BY DEF Event, SetRV, cluster
<1>. HIDE DEF r, o
<1>5. r \in 1..Latest /\ lastRV < r /\ \A q \in 1..r : OfPod(history, q) => q <= lastRV \/ q = r
  BY <1>1, <1>2
<1>6. \/ /\ history[r].kind = "Deleted"
         /\ view' = Put(view, o.uid, Buried(o))
         /\ cache' = Without(cache, o.name)
      \/ /\ history[r].kind # "Deleted" /\ Known(o)
         /\ view' = view /\ cache' = cache
      \/ /\ history[r].kind # "Deleted" /\ ~Known(o)
         /\ view' = Put(view, o.uid, Recorded(o))
         /\ cache' = Put(cache, o.name, o)
  BY <1>4, Zenon DEF Forget, Observe, Reported, Recorded, Buried
<1>. QED
  BY <1>1, <1>2, <1>3, <1>4, <1>5, <1>6 DEF Reaches

\* A cached version of an event's pod, or a later one, is on record.
LEMMA KnownIsRecorded ==
  ASSUME WatchInv, NEW r \in 1..Latest, OfPod(history, r),
         NEW o, o = ObjectOf(history, r), Known(o), Alive(history, o.uid, Latest)
  PROVE  /\ o.uid = history[r].uid /\ o.uid \in DOMAIN view
         /\ cache[o.name].uid = o.uid
         /\ view[o.uid] = Recorded(cache[o.name])
         /\ cache[o.name].rv >= r
<1>1. o.uid = history[r].uid /\ o.name = history[r].name /\ o.rv = r
  BY DEF ObjectOf
<1> DEFINE c == cache[o.name]
<1>2. o.name \in DOMAIN cache /\ c.rv >= r
  BY <1>1 DEF Known
<1>3. /\ c.rv \in 1..Latest /\ c = ObjectOf(history, c.rv) /\ OfPod(history, c.rv)
      /\ c.name = o.name
      /\ c.uid \in DOMAIN view /\ view[c.uid] = Recorded(c)
  BY <1>2 DEF WatchInv, CacheOK
<1>. HIDE DEF c
<1>4. history[c.rv].uid = c.uid /\ history[c.rv].name = o.name
  BY <1>3 DEF ObjectOf
<1>5. WellFormed(history) /\ Latest \in 0..Len(history) /\ c.rv \in r..Latest
  BY <1>2, <1>3 DEF WatchInv, WellFormed, Latest
<1>6. history[c.rv].uid = history[r].uid
  BY <1>1, <1>3, <1>4, <1>5, NameIsTaken
<1>. QED
  BY <1>1, <1>2, <1>3, <1>4, <1>6 DEF c

\* An event keeps the invariant: it is newer than the position, and what is cached of
\* its pod is what is on record.
LEMMA EventStep ==
  ASSUME WatchInv, Event
  PROVE  WatchInv'
<1>0. PICK r \in 1..Latest : \E o : Reaches(r, o)
  BY EventShape
<1>1. PICK o : Reaches(r, o)
  BY <1>0
<1>. USE DEF Reaches
<1>2. /\ o.uid = history[r].uid /\ o.name = history[r].name /\ o.rv = r
      /\ Latest \in Nat /\ Latest = Len(history) /\ Latest' = Latest /\ history' = history
      /\ lastRV \in Nat
  BY <1>1 DEF ObjectOf, WatchInv, WellFormed, PositionOK, Latest
<1>3. PositionOK' /\ ListOK'
  BY <1>1, <1>2 DEF WatchInv, PositionOK, ListOK
<1>4. \A n \in DOMAIN cache :
        /\ cache[n].rv \in 1..Latest /\ cache[n] = ObjectOf(history, cache[n].rv)
        /\ OfPod(history, cache[n].rv) /\ cache[n].name = n
        /\ cache[n].uid \in DOMAIN view /\ view[cache[n].uid] = Recorded(cache[n])
  BY DEF WatchInv, CacheOK
<1>5. \A n \in DOMAIN cache : cache[n].uid = o.uid => n = o.name
  <2> SUFFICES ASSUME NEW n \in DOMAIN cache, cache[n].uid = o.uid
               PROVE  n = o.name
    OBVIOUS
  <2> DEFINE q == cache[n].rv
  <2>1. /\ q \in 1..Len(history) /\ OfPod(history, q)
        /\ history[q].uid = cache[n].uid /\ history[q].name = n
    BY <1>2, <1>4 DEF ObjectOf
  <2>. HIDE DEF q
  <2>. QED
    BY <1>1, <1>2, <2>1, SameName DEF WatchInv
<1>6. /\ \A u \in DOMAIN view : u # o.uid => u \in DOMAIN view' /\ view'[u] = view[u]
      /\ \A u \in DOMAIN view' : (u \in DOMAIN view /\ view'[u] = view[u]) \/ u = o.uid
  BY <1>1 DEF Put
<1>7. \/ /\ history[r].kind = "Deleted"
         /\ o.uid \in DOMAIN view' /\ view'[o.uid] = Buried(o)
      \/ /\ history[r].kind # "Deleted" /\ Known(o) /\ view' = view
      \/ /\ o.uid \in DOMAIN view' /\ view'[o.uid] = Recorded(o)
  BY <1>1 DEF Put
<1>8. CacheOK'
  <2> SUFFICES ASSUME NEW n \in DOMAIN cache'
               PROVE  /\ cache'[n].rv \in 1..Latest
                      /\ cache'[n] = ObjectOf(history, cache'[n].rv)
                      /\ OfPod(history, cache'[n].rv) /\ cache'[n].name = n
                      /\ cache'[n].uid \in DOMAIN view'
                      /\ view'[cache'[n].uid] = Recorded(cache'[n])
    BY <1>2 DEF CacheOK
  <2>1. CASE n \in DOMAIN cache /\ n # o.name /\ cache'[n] = cache[n]
    BY <1>4, <1>5, <1>6, <2>1
  <2>2. CASE view' = view /\ cache' = cache
    BY <1>4, <2>2
  <2>3. CASE n = o.name /\ cache'[n] = o /\ view' = Put(view, o.uid, Recorded(o))
    BY <1>1, <1>2, <2>3 DEF Put
  <2>4. CASE cache' = Without(cache, o.name)
    <3>1. n \in DOMAIN cache /\ n # o.name /\ cache'[n] = cache[n]
      BY <2>4 DEF Without
    <3>. QED
      BY <2>1, <3>1
  <2>5. CASE view' = Put(view, o.uid, Recorded(o)) /\ cache' = Put(cache, o.name, o)
    <3>1. \/ n \in DOMAIN cache /\ n # o.name /\ cache'[n] = cache[n]
          \/ n = o.name /\ cache'[n] = o
      BY <2>5 DEF Put
    <3>. QED
      BY <2>1, <2>3, <2>5, <3>1
  <2>. QED
    BY <1>1, <2>2, <2>4, <2>5
<1>9. RecordsOK(view)'
  <2> SUFFICES ASSUME NEW u \in DOMAIN view'
               PROVE  /\ view'[u].rv \in 1..Latest /\ OfPod(history, view'[u].rv)
                      /\ history[view'[u].rv].uid = u
                      /\ view'[u].deleted => ~Alive(history, u, Latest)
    BY <1>2 DEF RecordsOK
  <2>1. CASE u \in DOMAIN view /\ view'[u] = view[u]
    BY <2>1 DEF WatchInv, RecordsOK
  <2>2. CASE view'[u] = Recorded(o) /\ u = o.uid
    BY <1>1, <1>2, <2>2, EntryIs
  <2>3. CASE view'[u] = Buried(o) /\ u = o.uid /\ history[r].kind = "Deleted"
    <3>1. ~Alive(history, u, Latest)
      BY <1>2, <2>3 DEF Alive
    <3>2. view'[u].rv = r
      BY <1>2, <2>3, EntryIs
    <3>. QED
      BY <1>1, <1>2, <2>3, <3>1, <3>2
  <2>. QED
    BY <1>6, <1>7, <2>1, <2>2, <2>3
<1>10. RecordsOK(viewFile)'
  BY <1>1, <1>2 DEF WatchInv, RecordsOK
<1>11. LivePassed'
  <2> SUFFICES ASSUME NEW q \in 1..r, OfPod(history, q),
                      Alive(history, history[q].uid, Latest)
               PROVE  history[q].uid \in DOMAIN view' /\ view'[history[q].uid].rv >= q
    BY <1>1, <1>2 DEF LivePassed
  <2>1. q <= lastRV => history[q].uid \in DOMAIN view /\ view[history[q].uid].rv >= q
    BY <1>1, <1>2 DEF WatchInv, LivePassed
  <2>2. q <= lastRV \/ q = r
    BY <1>1
  <2>3. CASE history[q].uid # o.uid
    BY <1>2, <1>6, <2>1, <2>2, <2>3
  <2>4. CASE history[q].uid = o.uid
    <3>1. history[r].kind # "Deleted"
      BY <1>2, <2>4 DEF Alive
    <3>2. CASE Known(o) /\ view' = view
      <4>1. o.uid \in DOMAIN view /\ view[o.uid].rv >= r
        <5>1. /\ o.uid \in DOMAIN view /\ cache[o.name].rv >= r
              /\ view[o.uid] = Recorded(cache[o.name])
          BY <1>1, <1>2, <2>4, <3>2, KnownIsRecorded
        <5>. QED
          BY <5>1, EntryIs
      <4>2. view[o.uid].rv \in Nat
        BY <4>1 DEF WatchInv, RecordsOK
      <4>. QED
        BY <1>2, <2>4, <3>2, <4>1, <4>2
    <3>3. CASE o.uid \in DOMAIN view' /\ view'[o.uid] = Recorded(o)
      <4>1. view'[o.uid].rv = r
        BY <1>2, <3>3, EntryIs
      <4>. QED
        BY <2>4, <3>3, <4>1
    <3>. QED
      BY <1>7, <3>1, <3>2, <3>3
  <2>. QED
    BY <2>3, <2>4
<1>. QED
  BY <1>2, <1>3, <1>8, <1>9, <1>10, <1>11 DEF WatchInv

\* A bookmark passes over events of other objects only.
LEMMA BookmarkStep ==
  ASSUME WatchInv, Bookmark
  PROVE  WatchInv'
<1>1. /\ stage = "watching" /\ Unsent = {} /\ sent = lastRV /\ synced
      /\ lastRV' = Latest /\ sent' = Latest
      /\ UNCHANGED <<history, synced, cache, stage, list, view, viewFile>>
      /\ lastRV \in 0..Latest /\ Latest \in Nat
  BY DEF WatchInv, PositionOK, WellFormed, Bookmark, SetRV, cluster, records, Latest
<1>2. \A q \in 1..Latest : OfPod(history, q) => q <= lastRV
  <2>1. \A q \in (lastRV + 1)..Latest : ~OfPod(history, q)
    BY <1>1 DEF Unsent, OfPod
  <2>. QED
    BY <1>1, <2>1
<1>3. PositionOK' /\ ListOK'
  BY <1>1 DEF WatchInv, PositionOK, ListOK, Latest
<1>4. CacheOK' /\ RecordsOK(view)' /\ RecordsOK(viewFile)'
  BY <1>1 DEF WatchInv, CacheOK, RecordsOK, Latest
<1>5. LivePassed'
  <2>1. Latest' = Latest
    BY <1>1 DEF Latest
  <2>2. \A q \in 1..Latest : OfPod(history, q) => q \in 1..lastRV
    BY <1>1, <1>2
  <2>. QED
    BY <1>1, <2>1, <2>2 DEF WatchInv, LivePassed
<1>. QED
  BY <1>1, <1>3, <1>4, <1>5 DEF WatchInv

-----------------------------------------------------------------------------
(* Every step.                                                             *)

\* The checkpoint, and what a request on its way may make of it.
Underway == {checkpoint, saving} \cup {rv \in RVs : late[rv] > 0}

\* The checkpoint store and the server are not ahead of the cluster, a watch has
\* a position, and a relist has none.
SavedOK ==
  /\ late \in [RVs -> Nat]
  /\ Underway \subseteq 0..Latest /\ compacted \in 0..Latest
  /\ rvDirty \in BOOLEAN /\ synced \in BOOLEAN /\ baseline \in BOOLEAN
  /\ restarts \in Nat
  /\ stage = "watching" => lastRV # NoRV
  /\ stage = "listed" /\ synced => lastRV = NoRV

InformerInv == WatchInv /\ SavedOK

\* The cluster has an event more.
ClusterMoves ==
  /\ \E e : history' = Append(history, e)
  /\ UNCHANGED <<compacted, watcher, records, resume, bounds>>

\* A watch that closes or is refused, or a watch that opens.
Reconnects ==
  /\ stage \in {"idle", "watching"} /\ stage' \in {"idle", "watching"}
  /\ \/ lastRV' = lastRV /\ blind' = blind
     \/ synced /\ lastRV' = NoRV /\ blind' = (blind \/ restarts > 0)
  /\ stage' = "watching" => synced /\ lastRV' = lastRV /\ sent' = lastRV /\ lastRV # NoRV
  /\ stage' = "idle" => sent' = NoRV
  /\ rvDirty' \in {rvDirty, FALSE}
  /\ UNCHANGED <<history, compacted, synced, cache, list, records, resume, gap, behind,
                 restarts>>

\* The checkpoint store gets no other version than the position.
Resumes ==
  /\ late' \in [RVs -> Nat]
  /\ Underway' \subseteq Underway \cup {lastRV, NoRV}

\* A new process, with the records of the old one or those of the state file.
Started ==
  /\ Resumes /\ lastRV' \in {checkpoint', NoRV}
  /\ synced' = FALSE /\ cache' = Empty /\ stage' = "idle" /\ list' = NoList
  /\ sent' = NoRV /\ saving' = NoRV /\ rvDirty' = FALSE /\ baseline' \in BOOLEAN
  /\ view' = viewFile' /\ view' \in {view, viewFile}
  /\ blind' = (blind \/ (lastRV' = NoRV /\ view' # Empty))
  /\ gap' = (gap \/ Ghosts(view', lastRV') # {})
  /\ behind' = (behind \/ \E rv \in RVs : late'[rv] > 0 /\ rv > lastRV')
  /\ restarts' = restarts + 1
  /\ UNCHANGED <<history, compacted>>

\* Only a crash loses records.
Restarts == Started /\ (Crashes \/ view' = view)

\* A call of the checkpoint store.
Saves ==
  /\ Resumes
  /\ rvDirty' \in BOOLEAN
  /\ UNCHANGED <<cluster, lastRV, synced, cache, stage, list, sent, records, baseline>>
  /\ UNCHANGED <<blind, gap, behind, restarts>>

\* A request more, and a request less, that nobody waits for.
LEMMA SentLate ==
  ASSUME NEW l \in [RVs -> Nat], NEW rv
  PROVE  /\ Sent(l, rv) \in [RVs -> Nat]
         /\ \A q \in RVs : Sent(l, rv)[q] > 0 => l[q] > 0 \/ q = rv
<1>1. CASE rv \in RVs
  BY <1>1 DEF Sent
<1>2. CASE rv \notin RVs
  <2>1. Sent(l, rv) = l
    BY <1>2 DEF Sent
  <2>. QED
    BY <2>1
<1>. QED
  BY <1>1, <1>2

\* The same of one that lands.
LEMMA LandedLate ==
  ASSUME NEW l \in [RVs -> Nat], NEW rv \in RVs, l[rv] > 0
  PROVE  /\ Landed(l, rv) \in [RVs -> Nat]
         /\ \A q \in RVs : Landed(l, rv)[q] > 0 => l[q] > 0
  BY DEF Landed

\* What is on its way when a process ends.
LEMMA RequestsLate ==
  ASSUME late \in [RVs -> Nat]
  PROVE  /\ Requests \in [RVs -> Nat]
         /\ \A q \in RVs : Requests[q] > 0 => q \in Underway
<1>1. /\ Sent(late, saving) \in [RVs -> Nat]
      /\ \A q \in RVs : Sent(late, saving)[q] > 0 => late[q] > 0 \/ q = saving
  BY SentLate
<1>. QED
  BY <1>1 DEF Requests, Underway

\* What is left of it.
LEMMA LeftLate ==
  ASSUME NEW l \in [RVs -> Nat]
  PROVE  /\ Left(l) \in [RVs -> Nat]
         /\ \A q \in RVs : Left(l)[q] > 0 => l[q] > 0
<1>1. NoLate \in [RVs -> Nat] /\ \A q \in RVs : NoLate[q] = 0
  BY DEF NoLate
<1>. QED
  BY <1>1 DEF Left

\* A save begins, ends, fails, or is applied late.
LEMMA SavesResume ==
  ASSUME SavedOK, SaveBegins \/ SaveEnds \/ SaveFails \/ SaveLands
  PROVE  Resumes
<1>1. late \in [RVs -> Nat]
  BY DEF SavedOK
<1>2. CASE SaveBegins \/ SaveEnds
  BY <1>1, <1>2 DEF SaveBegins, SaveEnds, Resumes, Underway, NoRV
<1>3. CASE SaveFails
  <2>1. checkpoint' = checkpoint /\ saving' = NoRV /\ late' = Sent(late, saving)
    BY <1>3 DEF SaveFails
  <2>2. /\ late' \in [RVs -> Nat]
        /\ \A q \in RVs : late'[q] > 0 => late[q] > 0 \/ q = saving
    BY <1>1, <2>1, SentLate
  <2>. QED
    BY <2>1, <2>2 DEF Resumes, Underway
<1>4. CASE SaveLands
  <2>1. PICK rv \in RVs : late[rv] > 0 /\ checkpoint' = rv /\ late' = Landed(late, rv)
    BY <1>4 DEF SaveLands
  <2>2. saving' = saving
    BY <1>4 DEF SaveLands
  <2>3. /\ late' \in [RVs -> Nat]
        /\ \A q \in RVs : late'[q] > 0 => late[q] > 0
    BY <1>1, <2>1, LandedLate
  <2>. QED
    BY <2>1, <2>2, <2>3 DEF Resumes, Underway
<1>. QED
  BY <1>2, <1>3, <1>4

\* A process stops, or crashes, and its requests outlive it or do not.
LEMMA StopResumes ==
  ASSUME SavedOK, StopSaves \/ (late' = Left(Requests) /\ checkpoint' = checkpoint),
         saving' = NoRV
  PROVE  Resumes
<1>1. late \in [RVs -> Nat]
  BY DEF SavedOK
<1>2. /\ Requests \in [RVs -> Nat]
      /\ \A q \in RVs : Requests[q] > 0 => q \in Underway
  BY <1>1, RequestsLate
<1>3. CASE late' = Left(Requests) /\ checkpoint' = checkpoint
  <2>1. /\ late' \in [RVs -> Nat]
        /\ \A q \in RVs : late'[q] > 0 => Requests[q] > 0
    BY <1>2, <1>3, LeftLate
  <2>. QED
    BY <1>2, <1>3, <2>1 DEF Resumes, Underway
<1>4. CASE StopSaves
  <2> DEFINE requests == IF rvDirty /\ lastRV # NoRV /\ baseline THEN Sent(Requests, lastRV)
                         ELSE Requests
  <2>1. \/ checkpoint' = checkpoint /\ late' = Left(requests)
        \/ \E rv \in RVs : /\ requests[rv] > 0
                           /\ checkpoint' = rv
                           /\ late' = Left(Landed(requests, rv))
    BY <1>4 DEF StopSaves
  <2>2. /\ requests \in [RVs -> Nat]
        /\ \A q \in RVs : requests[q] > 0 => q \in Underway \/ q = lastRV
    <3>1. /\ Sent(Requests, lastRV) \in [RVs -> Nat]
          /\ \A q \in RVs : Sent(Requests, lastRV)[q] > 0 => Requests[q] > 0 \/ q = lastRV
      BY <1>2, SentLate
    <3>. QED
      BY <1>2, <3>1
  <2>. HIDE DEF requests
  <2>3. CASE checkpoint' = checkpoint /\ late' = Left(requests)
    <3>1. /\ late' \in [RVs -> Nat]
          /\ \A q \in RVs : late'[q] > 0 => requests[q] > 0
      BY <2>2, <2>3, LeftLate
    <3>. QED
      BY <2>2, <2>3, <3>1 DEF Resumes, Underway
  <2>4. ASSUME NEW rv \in RVs, requests[rv] > 0, checkpoint' = rv,
               late' = Left(Landed(requests, rv))
        PROVE  Resumes
    <3>1. /\ Landed(requests, rv) \in [RVs -> Nat]
          /\ \A q \in RVs : Landed(requests, rv)[q] > 0 => requests[q] > 0
      BY <2>2, <2>4, LandedLate
    <3>2. /\ late' \in [RVs -> Nat]
          /\ \A q \in RVs : late'[q] > 0 => Landed(requests, rv)[q] > 0
      BY <2>4, <3>1, LeftLate
    <3>3. \A q \in RVs : late'[q] > 0 => q \in Underway \/ q = lastRV
      BY <2>2, <3>1, <3>2
    <3>4. rv \in Underway \/ rv = lastRV
      BY <2>2, <2>4
    <3>. QED
      BY <2>4, <3>2, <3>3, <3>4 DEF Resumes, Underway
  <2>. QED
    BY <2>1, <2>3, <2>4
<1>. QED
  BY <1>3, <1>4

\* The kinds of steps.
LEMMA Kinds ==
  ASSUME [Next]_vars, SavedOK, PositionOK
  PROVE  \/ ClusterMoves \/ Compact \/ List \/ Seed \/ Reconcile \/ Reconnects
         \/ Event \/ Bookmark \/ Saves \/ SaveState \/ Restarts
         \/ UNCHANGED vars
<1>1. ASSUME NEW kind, NEW name, NEW uid, Happens(kind, name, uid)
      PROVE  ClusterMoves
  BY <1>1 DEF Happens, ClusterMoves
<1>2. OpenWatch \/ Drop \/ WatchGone => Reconnects
  BY DEF OpenWatch, Drop, WatchGone, ClearRV, Reconnects, PositionOK, cluster, bounds
<1>3. SaveBegins \/ SaveEnds \/ SaveFails \/ SaveLands => Saves
  <2> SUFFICES ASSUME SaveBegins \/ SaveEnds \/ SaveFails \/ SaveLands
               PROVE  Saves
    OBVIOUS
  <2>1. Resumes
    BY SavesResume
  <2>2. rvDirty' \in BOOLEAN
    BY DEF SaveBegins, SaveEnds, SaveFails, SaveLands, watcher, SavedOK
  <2>. QED
    BY <2>1, <2>2
       DEF SaveBegins, SaveEnds, SaveFails, SaveLands, Saves, watcher, bounds, cluster, records
<1>4. ASSUME NEW position, Starts(position), checkpoint' = position, Resumes,
             view' = viewFile', view' \in {view, viewFile}, Crashes \/ view' = view
      PROVE  Restarts
  BY <1>4 DEF Starts, Restarts, Started, cluster
<1>5. StopAndStart => Restarts
  <2> SUFFICES ASSUME StopAndStart
               PROVE  Restarts
    OBVIOUS
  <2>1. StopSaves /\ saving' = NoRV
    BY DEF StopAndStart, Starts
  <2>2. Resumes
    BY <2>1, StopResumes
  <2>. QED
    BY <1>4, <2>2 DEF StopAndStart
<1>6. CrashAndStart => Restarts
  <2> SUFFICES ASSUME CrashAndStart
               PROVE  Restarts
    OBVIOUS
  <2>1. late' = Left(Requests) /\ checkpoint' = checkpoint /\ saving' = NoRV
    BY DEF CrashAndStart, Starts
  <2>2. Resumes
    BY <2>1, StopResumes
  <2>. QED
    BY <1>4, <2>1, <2>2 DEF CrashAndStart
<1>7. (\E n \in Names : Create(n)) \/ (\E pod \in Current : Modify(pod) \/ Delete(pod))
        \/ OtherObject => ClusterMoves
  BY <1>1 DEF Create, Modify, Delete, OtherObject
<1>. QED
  BY <1>2, <1>3, <1>5, <1>6, <1>7, Zenon DEF Next

\* The initial states.
LEMMA WatchInit == Init => InformerInv
<1> SUFFICES ASSUME Init
             PROVE  InformerInv
  OBVIOUS
<1>1. /\ history = <<>> /\ lastRV = 0 /\ synced = FALSE /\ cache = Empty
      /\ stage = "idle" /\ list = NoList /\ sent = NoRV
      /\ view = Empty /\ viewFile = Empty
      /\ checkpoint = 0 /\ saving = 0 /\ compacted = 0 /\ late = NoLate
      /\ rvDirty = FALSE /\ baseline = TRUE /\ restarts = 0
  BY Zenon DEF Init, NoRV
<1>2. DOMAIN Empty = {} /\ Len(<<>>) = 0 /\ <<>> \in Seq(Events)
  BY DEF Empty
<1>3. WellFormed(history)
  BY <1>1, <1>2, InformerAssumption DEF WellFormed
<1>4. Latest = 0
  BY <1>1 DEF Latest
<1>5. PositionOK /\ SavedOK /\ ListOK
  <2>1. rvDirty \in BOOLEAN /\ synced \in BOOLEAN /\ baseline \in BOOLEAN
    BY <1>1, Zenon
  <2>2. lastRV \in 0..Latest /\ compacted \in 0..Latest /\ stage = "idle"
        /\ sent = NoRV /\ list = NoList /\ restarts \in Nat
    BY <1>1, <1>4
  <2>3. late \in [RVs -> Nat] /\ Underway \subseteq 0..Latest
    BY <1>1, <1>4 DEF Underway, NoLate
  <2>. QED
    BY <2>1, <2>2, <2>3, Zenon DEF PositionOK, SavedOK, ListOK
<1>6. CacheOK /\ RecordsOK(view) /\ RecordsOK(viewFile) /\ LivePassed
  BY <1>1, <1>2 DEF CacheOK, RecordsOK, LivePassed
<1>. QED
  BY <1>3, <1>5, <1>6 DEF InformerInv, WatchInv

\* Opening, losing and being refused a watch keep the invariant.
LEMMA ReconnectStep ==
  ASSUME WatchInv, Reconnects
  PROVE  WatchInv'
<1>1. /\ Latest' = Latest /\ history' = history /\ Latest \in Nat /\ lastRV \in 0..Latest
      /\ UNCHANGED <<synced, cache, list, view, viewFile>>
      /\ lastRV' = lastRV \/ lastRV' = 0
  BY DEF Reconnects, Latest, WatchInv, WellFormed, PositionOK, records, NoRV
<1>2. PositionOK' /\ ListOK'
  BY <1>1 DEF Reconnects, WatchInv, PositionOK, ListOK
<1>3. CacheOK' /\ RecordsOK(view)' /\ RecordsOK(viewFile)'
  BY <1>1 DEF WatchInv, CacheOK, RecordsOK
<1>4. LivePassed'
  <2>1. 1..0 = {}
    OBVIOUS
  <2>. QED
    BY <1>1, <2>1 DEF WatchInv, LivePassed
<1>. QED
  BY <1>1, <1>2, <1>3, <1>4 DEF WatchInv

\* A new process has an empty cache, and records and a position of the old one.
LEMMA RestartStep ==
  ASSUME WatchInv, SavedOK, Started
  PROVE  WatchInv' /\ SavedOK'
<1>0. /\ Latest' = Latest /\ history' = history /\ Latest \in Nat
      /\ Underway' \subseteq 0..Latest
  BY DEF Started, Resumes, Latest, WatchInv, WellFormed, PositionOK, SavedOK, NoRV
<1>1. Latest' = Latest /\ history' = history /\ Latest \in Nat /\ lastRV' \in 0..Latest
  BY <1>0 DEF Started, Underway, NoRV
<1>2. PositionOK' /\ ListOK'
  BY <1>1 DEF Started, PositionOK, ListOK
<1>3. CacheOK' /\ LivePassed'
  <2>1. DOMAIN Empty = {}
    BY DEF Empty
  <2>. QED
    BY <2>1 DEF Started, CacheOK, LivePassed
<1>4. RecordsOK(view)' /\ RecordsOK(viewFile)'
  BY <1>1 DEF Started, WatchInv, RecordsOK
<1>5. SavedOK'
  <2>1. late' \in [RVs -> Nat]
    BY DEF Started, Resumes
  <2>2. /\ Underway' \subseteq 0..Latest' /\ compacted' \in 0..Latest'
        /\ restarts' \in Nat /\ stage' = "idle"
    BY <1>0 DEF Started, SavedOK
  <2>3. rvDirty' \in BOOLEAN /\ synced' \in BOOLEAN /\ baseline' \in BOOLEAN
    BY Zenon DEF Started
  <2>. QED
    BY <2>1, <2>2, <2>3 DEF SavedOK
<1>. QED
  BY <1>1, <1>2, <1>3, <1>4, <1>5 DEF WatchInv

\* Saving the state file.
LEMMA SaveStateStep ==
  ASSUME WatchInv, SaveState
  PROVE  WatchInv'
<1>1. /\ viewFile' = view
      /\ UNCHANGED <<history, lastRV, synced, cache, stage, list, sent, view>>
  BY DEF SaveState, cluster, watcher
<1>. QED
  BY <1>1 DEF WatchInv, PositionOK, ListOK, CacheOK, RecordsOK, LivePassed, Latest

\* Every step keeps the invariant.
LEMMA WatchStep ==
  ASSUME WatchInv, SavedOK, [Next]_vars
  PROVE  WatchInv'
<1>1. WellFormed(history')
  BY HistoryStep DEF WatchInv
<1>2. CASE ClusterMoves
  BY <1>1, <1>2, UnwatchedStep DEF ClusterMoves, Unwatched, watcher, records
<1>3. CASE Compact \/ Saves \/ UNCHANGED vars
  <2>1. Unwatched /\ history' = history
    BY <1>3 DEF Compact, Saves, Unwatched, watcher, records, cluster, vars
  <2>. QED
    BY <1>1, <2>1, UnwatchedStep
<1>4. PositionOK
  BY DEF WatchInv
<1>. QED
  BY <1>2, <1>3, <1>4, Kinds, ListStep, SeedRelists, ReconcileRelists, RelistStep,
     ReconnectStep, EventStep, BookmarkStep, SaveStateStep, RestartStep DEF Restarts

\* ... and the checkpoint within the history.
LEMMA SavedStep ==
  ASSUME WatchInv, SavedOK, [Next]_vars
  PROVE  SavedOK'
<1>1. WatchInv'
  BY WatchStep
<1>2. /\ Latest \in Nat /\ Latest' \in Nat /\ Latest <= Latest'
  <2>1. /\ history \in Seq(Events) /\ history' \in Seq(Events)
    BY <1>1 DEF WatchInv, WellFormed
  <2>2. history' = history \/ \E e : history' = Append(history, e)
    BY Kinds DEF WatchInv, ClusterMoves, Compact, List, Seed, Reconcile, Reconnects, Event,
                 Bookmark, Saves, SaveState, Restarts, Started, cluster, vars
  <2>. QED
    BY <2>1, <2>2 DEF Latest
<1>3. lastRV \in 0..Latest /\ PositionOK
  BY DEF WatchInv, PositionOK
<1>4. late' \in [RVs -> Nat] /\ Underway' \subseteq Underway \cup {lastRV, NoRV}
  <2>1. CASE UNCHANGED resume
    BY <2>1 DEF SavedOK, Underway, resume
  <2>. QED
    BY <1>3, <2>1, Kinds
       DEF ClusterMoves, Compact, List, Seed, Reconcile, Reconnects, Event, Bookmark, Saves,
           SaveState, Restarts, Started, Resumes, vars
<1>5. compacted' = compacted \/ compacted' \in (compacted + 1)..Latest
  BY <1>3, Kinds
     DEF ClusterMoves, Compact, List, Seed, Reconcile, Reconnects, Event, Bookmark, Saves,
         SaveState, Restarts, Started, cluster, vars
<1>6. rvDirty' \in BOOLEAN /\ synced' \in BOOLEAN /\ baseline' \in BOOLEAN
  BY <1>3, Kinds
     DEF SavedOK, ClusterMoves, Compact, List, Seed, SeedPosition, SetRV, Reconcile, Reconnects,
         Event, Bookmark, Saves, SaveState, Restarts, Started, resume, watcher, vars
<1>7. restarts' = restarts \/ restarts' = restarts + 1
  BY <1>3, Kinds
     DEF ClusterMoves, Compact, List, Seed, Reconcile, Reconnects, Event, Bookmark, Saves,
         SaveState, Restarts, Started, bounds, vars
<1>8. stage' = "watching" => lastRV' # NoRV
  <2>1. CASE Event
    BY <2>1, EventShape DEF Reaches, NoRV
  <2>2. CASE Bookmark
    BY <1>2, <2>2 DEF Bookmark, SetRV, WatchInv, PositionOK, NoRV, Latest
  <2>. QED
    BY <1>3, <2>1, <2>2, Kinds
       DEF SavedOK, ClusterMoves, Compact, List, Seed, Reconcile, Reconnects, Saves,
           SaveState, Restarts, Started, watcher, vars
<1>9. stage' = "listed" /\ synced' => lastRV' = NoRV
  BY <1>3, Kinds
     DEF SavedOK, ClusterMoves, Compact, List, Seed, Reconcile, Reconnects, Event, Bookmark,
         Saves, SaveState, Restarts, Started, watcher, vars
<1>10. /\ Underway' \subseteq 0..Latest' /\ compacted' \in 0..Latest' /\ restarts' \in Nat
  BY <1>2, <1>3, <1>4, <1>5, <1>7 DEF SavedOK, NoRV
<1>. QED
  BY <1>4, <1>6, <1>8, <1>9, <1>10, Zenon DEF SavedOK

\* The invariant holds.
LEMMA InformerKept == Spec => []InformerInv
<1>1. InformerInv /\ [Next]_vars => InformerInv'
  BY WatchStep, SavedStep DEF InformerInv
<1>. QED
  BY <1>1, WatchInit, PTL DEF Spec

\* It has the types.
LEMMA TypesFollow == InformerInv => TypeOK
<1> SUFFICES ASSUME InformerInv
             PROVE  TypeOK
  OBVIOUS
<1>1. /\ WatchInv /\ SavedOK /\ WellFormed(history) /\ history \in Seq(Events)
      /\ Latest \in Nat /\ MaxRV \in Nat /\ Latest <= MaxRV /\ lastRV \in 0..Latest
      /\ Latest = Len(history)
  BY InformerAssumption DEF InformerInv, WatchInv, WellFormed, PositionOK, Latest
<1>2. \A r \in 0..Latest : r \in RVs
  BY <1>1 DEF RVs
<1>3. ASSUME NEW r \in 1..Latest, OfPod(history, r)
      PROVE  /\ ObjectOf(history, r) \in Objects /\ history[r].uid \in Uids
  <2>1. history[r].uid \in 1..r /\ history[r].name \in Names
    BY <1>1, <1>3 DEF WellFormed
  <2>2. history[r].uid \in Uids /\ r \in 1..MaxRV
    BY <1>1, <2>1 DEF Uids
  <2>. QED
    BY <2>1, <2>2 DEF ObjectOf, Objects
<1>4. /\ lastRV \in RVs /\ checkpoint \in RVs /\ saving \in RVs /\ late \in [RVs -> Nat]
      /\ compacted \in 0..Latest
      /\ rvDirty \in BOOLEAN /\ synced \in BOOLEAN /\ baseline \in BOOLEAN
  BY <1>1, <1>2, Zenon DEF SavedOK, Underway
<1>5. sent \in RVs /\ stage \in {"idle", "listed", "watching"}
  BY <1>1, <1>2 DEF WatchInv, PositionOK, NoRV
<1>6. DOMAIN cache \subseteq Names /\ \A n \in DOMAIN cache : cache[n] \in Objects
  <2> SUFFICES ASSUME NEW n \in DOMAIN cache
               PROVE  n \in Names /\ cache[n] \in Objects
    OBVIOUS
  <2>1. cache[n] \in Objects /\ cache[n].name = n
    BY <1>1, <1>3 DEF WatchInv, CacheOK
  <2>. QED
    BY <2>1 DEF Objects
<1>7. list.rv \in RVs /\ list.pods \subseteq Objects
  <2>1. CASE stage = "listed"
    <3>1. \A o \in list.pods : o \in Objects
      BY <1>1, <1>3, <2>1, ListedFacts
    <3>2. list.rv \in 0..Latest
      BY <1>1, <2>1 DEF WatchInv, ListOK
    <3>. QED
      BY <1>2, <3>1, <3>2
  <2>2. CASE stage # "listed"
    BY <1>1, <1>2, <2>2 DEF WatchInv, PositionOK, NoList, NoRV
  <2>. QED
    BY <2>1, <2>2
<1>8. DOMAIN view \subseteq Uids /\ DOMAIN viewFile \subseteq Uids
  BY <1>1, <1>3 DEF WatchInv, RecordsOK
<1>9. history \in Seq([kind : {"Added", "Modified", "Deleted", "Other"},
                      name : Names \cup {""}, uid : RVs])
  BY <1>1 DEF Events
<1>. QED
  BY <1>4, <1>5, <1>6, <1>7, <1>8, <1>9, Zenon DEF TypeOK

\* The watcher, the checkpoint and the records stay well typed, whatever the
\* cluster, the watch, the saves and the restarts do (pod_informer.go:73-94).
THEOREM InformerTypes == Spec => []TypeOK
  BY TypesFollow, InformerKept, PTL

\* The last event of a pod up to a version is one.
LEMMA LastEventIs ==
  ASSUME WellFormed(history), NEW rv \in 0..Latest, NEW u, HadEvent(u, rv)
  PROVE  /\ LastEvent(u, rv) \in 1..rv /\ LastEvent(u, rv) \in 1..Latest
         /\ history[LastEvent(u, rv)].uid = u
         /\ \A q \in 1..rv : history[q].uid = u => q <= LastEvent(u, rv)
<1> DEFINE S == {r \in 1..rv : history[r].uid = u}
<1>1. Latest \in Nat /\ rv \in Nat
  BY DEF WellFormed, Latest
<1>2. S \subseteq 1..rv /\ S # {}
  BY DEF HadEvent
<1>3. PICK r \in S : \A q \in S : q <= r
  <2>. HIDE DEF S
  <2>. QED
    BY <1>1, <1>2, LastOf
<1>4. \A q \in (r + 1)..rv : history[q].uid # u
  <2>1. r \in Nat
    BY <1>1
  <2>2. \A q \in (r + 1)..rv : q \in 1..rv /\ ~(q <= r)
    BY <1>1, <2>1
  <2>. QED
    BY <1>3, <2>2
<1>5. \E q \in 1..rv : history[q].uid = u /\ \A n \in (q + 1)..rv : history[n].uid # u
  BY <1>3, <1>4
<1> DEFINE l == LastEvent(u, rv)
<1>6. /\ l \in 1..rv /\ history[l].uid = u /\ \A n \in (l + 1)..rv : history[n].uid # u
  BY <1>5 DEF LastEvent
<1>. HIDE DEF l
<1>7. \A q \in 1..rv : history[q].uid = u => q <= l
  BY <1>1, <1>6
<1>8. l \in 1..Latest
  BY <1>1, <1>6
<1>. QED
  BY <1>6, <1>7, <1>8 DEF l

\* A pod that exists is on record once the position has passed an event of it.
LEMMA LiveFollows == InformerInv => LiveKnown
<1> SUFFICES ASSUME InformerInv, synced, NEW pod \in Current, HadEvent(pod.uid, lastRV)
             PROVE  /\ pod.uid \in DOMAIN view /\ ~view[pod.uid].deleted
                    /\ view[pod.uid].rv >= LastEvent(pod.uid, lastRV)
  BY DEF LiveKnown
<1>1. /\ WatchInv /\ WellFormed(history) /\ lastRV \in 0..Latest
      /\ Len(history) \in 0..Len(history) /\ pod \in ObjectsAt(history, Len(history))
  BY CurrentObjects DEF InformerInv, WatchInv, WellFormed, PositionOK, Latest
<1>2. /\ pod.rv \in 1..Len(history) /\ pod.uid = history[pod.rv].uid
      /\ history[pod.rv].kind \in {"Added", "Modified"} /\ Alive(history, pod.uid, Latest)
  BY <1>1, ObjectFacts DEF Latest
<1> DEFINE l == LastEvent(pod.uid, lastRV)
<1>3. l \in 1..lastRV /\ l \in 1..Latest /\ history[l].uid = pod.uid
  BY <1>1, LastEventIs
<1>. HIDE DEF l
<1>4. pod.uid \in 1..pod.rv
  BY <1>1, <1>2 DEF WellFormed, OfPod
<1>5. OfPod(history, l)
  BY <1>1, <1>3, <1>4 DEF WellFormed, Latest
<1>6. pod.uid \in DOMAIN view /\ view[pod.uid].rv >= l
  BY <1>1, <1>2, <1>3, <1>5 DEF WatchInv, LivePassed
<1>7. ~view[pod.uid].deleted
  BY <1>1, <1>2, <1>6 DEF WatchInv, RecordsOK
<1>. QED
  BY <1>6, <1>7 DEF l

\* Whatever restarts, crashes, 410s, failed saves and reused names do: a pod that
\* exists and was created before the position is on record, alive, in a version
\* no older than the position (pod_informer.go:261-330, :413-448).
THEOREM LiveIsKnown == Spec => []LiveKnown
  BY LiveFollows, InformerKept, PTL

-----------------------------------------------------------------------------
(* Clusters that give every pod a name of its own.                         *)

\* Event r of pod u is the next one, and reaches what is recorded and cached of
\* that pod only, leaving a record no older than the event and than what was there.
Seen(r, u) ==
  /\ lastRV < r /\ OfPod(history, r) /\ u = history[r].uid
  /\ \A q \in 1..r : OfPod(history, q) => q <= lastRV \/ q = r
  /\ lastRV' = r /\ synced /\ synced' = synced /\ history' = history
  /\ u \in DOMAIN view' /\ view'[u].rv \in Nat /\ view'[u].rv >= r
  /\ history[r].kind = "Deleted" => view'[u].deleted
  /\ \A w \in DOMAIN view : w # u => w \in DOMAIN view' /\ view'[w] = view[w]
  /\ \A w \in DOMAIN view' : w # u => w \in DOMAIN view
  /\ \A n \in DOMAIN cache :
       cache[n].uid # u => n \in DOMAIN cache' /\ cache'[n] = cache[n]
  /\ view'[u].deleted \/ \E n \in DOMAIN cache' : cache'[n].uid = u
  /\ \A n \in DOMAIN cache :
       history[r].kind # "Deleted" /\ cache[n].uid = u => view'[u].rv >= view[u].rv

\* Without reuse every event is of that kind.
LEMMA EventSeen ==
  ASSUME ~ReusesNames, WatchInv, Event
  PROVE  \E r \in 1..Latest : \E u : Seen(r, u)
<1>0. PICK r \in 1..Latest : \E o : Reaches(r, o)
  BY EventShape
<1>1. PICK o : Reaches(r, o)
  BY <1>0
<1>. USE DEF Reaches
<1> DEFINE u == history[r].uid
<1>2. /\ o.uid = u /\ o.name = history[r].name /\ o.rv = r
      /\ WellFormed(history) /\ Latest \in Nat /\ Latest = Len(history) /\ r \in Nat
  BY <1>1 DEF ObjectOf, WatchInv, WellFormed, Latest
<1>3. ASSUME NEW n \in DOMAIN cache
      PROVE  /\ cache[n].rv \in 1..Latest /\ cache[n].rv \in Nat
             /\ cache[n].uid \in DOMAIN view /\ view[cache[n].uid].rv = cache[n].rv
             /\ cache[n].uid = u <=> n = o.name
  <2> DEFINE q == cache[n].rv
  <2>1. /\ q \in 1..Latest /\ cache[n] = ObjectOf(history, q) /\ OfPod(history, q)
        /\ cache[n].name = n
        /\ cache[n].uid \in DOMAIN view /\ view[cache[n].uid] = Recorded(cache[n])
    BY DEF WatchInv, CacheOK
  <2>2. cache[n].uid = history[q].uid /\ n = history[q].name
    BY <2>1 DEF ObjectOf
  <2>. HIDE DEF q
  <2>3. history[q].uid = history[r].uid <=> history[q].name = history[r].name
    <3>1. q \in 1..Len(history) /\ r \in 1..Len(history)
      BY <1>2, <2>1
    <3>. QED
      BY <1>1, <1>2, <2>1, <3>1, SameName, NameIsUnique
  <2>4. view[cache[n].uid].rv = q
    BY <2>1, EntryIs DEF q
  <2>. QED
    BY <1>2, <2>1, <2>2, <2>3, <2>4 DEF q
<1>. SUFFICES Seen(r, u)
  OBVIOUS
<1>4. CASE /\ history[r].kind = "Deleted"
           /\ view' = Put(view, o.uid, Buried(o)) /\ cache' = Without(cache, o.name)
  <2>1. /\ u \in DOMAIN view' /\ view'[u] = Buried(o)
        /\ \A w \in DOMAIN view : w # u => w \in DOMAIN view' /\ view'[w] = view[w]
        /\ \A w \in DOMAIN view' : w # u => w \in DOMAIN view
    BY <1>2, <1>4 DEF Put
  <2>2. view'[u].rv = r /\ view'[u].deleted
    BY <1>2, <2>1, EntryIs
  <2>3. \A n \in DOMAIN cache :
          n # o.name => n \in DOMAIN cache' /\ cache'[n] = cache[n]
    BY <1>4 DEF Without
  <2>. QED
    BY <1>1, <1>2, <1>3, <1>4, <2>1, <2>2, <2>3 DEF Seen
<1>5. CASE history[r].kind # "Deleted" /\ Known(o) /\ view' = view /\ cache' = cache
  <2>1. o.name \in DOMAIN cache /\ cache[o.name].rv >= r
    BY <1>2, <1>5 DEF Known
  <2>2. /\ cache[o.name].uid = u /\ u \in DOMAIN view /\ view[u].rv = cache[o.name].rv
        /\ view[u].rv \in Nat /\ view[u].rv >= r
    BY <1>3, <2>1
  <2>. QED
    BY <1>1, <1>2, <1>5, <2>1, <2>2 DEF Seen
<1>6. CASE /\ history[r].kind # "Deleted" /\ ~Known(o)
           /\ view' = Put(view, o.uid, Recorded(o)) /\ cache' = Put(cache, o.name, o)
  <2>1. /\ u \in DOMAIN view' /\ view'[u] = Recorded(o)
        /\ \A w \in DOMAIN view : w # u => w \in DOMAIN view' /\ view'[w] = view[w]
        /\ \A w \in DOMAIN view' : w # u => w \in DOMAIN view
    BY <1>2, <1>6 DEF Put
  <2>2. view'[u].rv = r
    BY <1>2, <2>1, EntryIs
  <2>3. /\ \A n \in DOMAIN cache :
             n # o.name => n \in DOMAIN cache' /\ cache'[n] = cache[n]
        /\ o.name \in DOMAIN cache' /\ cache'[o.name].uid = u
    BY <1>2, <1>6 DEF Put
  <2>4. ASSUME NEW n \in DOMAIN cache, cache[n].uid = u
        PROVE  view'[u].rv >= view[u].rv
    <3>1. n = o.name /\ view[u].rv = cache[n].rv /\ cache[n].rv \in Nat
      BY <1>3, <2>4
    <3>2. ~(cache[n].rv >= r)
      BY <1>2, <1>6, <3>1 DEF Known
    <3>. QED
      BY <1>2, <2>2, <3>1, <3>2
  <2>. QED
    BY <1>1, <1>2, <1>3, <1>6, <2>1, <2>2, <2>3, <2>4 DEF Seen
<1>. QED
  BY <1>1, <1>4, <1>5, <1>6

\* A pod that exists and is on record is cached.
StaleInv ==
  synced => \A u \in DOMAIN view : Alive(history, u, Latest) =>
    \E n \in DOMAIN cache : cache[n].uid = u

\* After a relist every pod on record that exists is in the list.
LEMMA RelistCaches ==
  ASSUME WatchInv, Relisted
  PROVE  StaleInv'
<1>1. /\ list.rv \in 0..Latest /\ Latest \in Nat /\ history' = history /\ Latest' = Latest
      /\ stage = "listed"
  BY DEF Relisted, WatchInv, ListOK, PositionOK, WellFormed, Latest
<1>2. SUFFICES ASSUME NEW u \in DOMAIN view', Alive(history, u, Latest)
               PROVE  \E n \in DOMAIN cache' : cache'[n].uid = u
  BY <1>1 DEF StaleInv
<1>3. Alive(history, u, list.rv)
  BY <1>1, <1>2, AliveBefore
<1>4. \E o \in list.pods : o.uid = u
  <2>1. CASE u \in DOMAIN view
    <3>1. /\ view[u].rv \in 1..Latest /\ OfPod(history, view[u].rv)
          /\ history[view[u].rv].uid = u /\ view[u].rv <= list.rv
      BY <1>1, <2>1 DEF WatchInv, RecordsOK, ListOK
    <3>2. view[u].rv \in 1..list.rv
      BY <1>1, <3>1
    <3>. QED
      BY <1>1, <1>3, <3>1, <3>2, ListedIfAlive
  <2>. QED
    BY <2>1 DEF Relisted
<1>5. PICK o \in list.pods : o.uid = u
  BY <1>4
<1>. QED
  BY <1>5 DEF Relisted

\* Every step keeps what is recorded of pods that exist cached, and its version.
LEMMA StaleStep ==
  ASSUME ~ReusesNames, InformerInv, StaleInv, [Next]_vars
  PROVE  /\ StaleInv'
         /\ \/ restarts' # restarts
            \/ \A pod \in Current : pod.uid \in DOMAIN view =>
                 view'[pod.uid].rv >= view[pod.uid].rv
<1>1. /\ WatchInv /\ SavedOK /\ PositionOK /\ WellFormed(history) /\ Latest \in Nat
      /\ restarts \in Nat
  BY DEF InformerInv, WatchInv, WellFormed, SavedOK, Latest
<1>2. \A u \in DOMAIN view : view[u].rv \in 1..Latest /\ history[view[u].rv].uid = u
  BY <1>1 DEF WatchInv, RecordsOK
<1>3. \A u \in DOMAIN view : view[u].rv \in Nat
  BY <1>2
<1>4. CASE view' = view /\ synced' = synced /\ cache' = cache
           /\ (history' = history \/ ClusterMoves)
  <2>1. \A u : Alive(history, u, Latest)' => Alive(history, u, Latest)
    <3>1. CASE history' = history
      BY <3>1 DEF Latest, Alive
    <3>2. CASE ClusterMoves
      <4>1. PICK e : history' = Append(history, e)
        BY <3>2 DEF ClusterMoves
      <4>2. Latest' = Latest + 1 /\ \A r \in 1..Latest : history'[r] = history[r]
        BY <1>1, <4>1 DEF Latest, WellFormed
      <4>. QED
        BY <1>1, <4>2 DEF Alive
    <3>. QED
      BY <1>4, <3>1, <3>2
  <2>2. StaleInv'
    BY <1>4, <2>1 DEF StaleInv
  <2>. QED
    BY <1>3, <1>4, <2>2
<1>5. CASE Relisted
  <2>1. StaleInv'
    BY <1>1, <1>5, RelistCaches
  <2> SUFFICES ASSUME NEW pod \in Current, pod.uid \in DOMAIN view
               PROVE  view'[pod.uid].rv >= view[pod.uid].rv
    BY <2>1
  <2>2. CASE \E o \in list.pods : o.uid = pod.uid
    <3>1. PICK o \in list.pods : o.uid = pod.uid
      BY <2>2
    <3>2. /\ stage = "listed" /\ view[pod.uid].rv <= list.rv /\ list.rv \in Nat
          /\ view'[pod.uid] = Recorded(o)
      BY <1>1, <1>5, <3>1 DEF Relisted, WatchInv, ListOK, PositionOK
    <3>3. view[pod.uid].rv \in 1..list.rv
      BY <1>2, <3>2
    <3>4. view[pod.uid].rv <= o.rv
      BY <1>1, <1>2, <3>1, <3>2, <3>3, ListedFacts
    <3>5. o.rv \in Nat
      BY <1>1, <3>2, ListedFacts
    <3>6. view'[pod.uid].rv = o.rv
      BY <3>2, EntryIs
    <3>. QED
      BY <1>3, <3>4, <3>5, <3>6
  <2>3. CASE view'[pod.uid].rv = view[pod.uid].rv
    BY <1>3, <2>3
  <2>. QED
    BY <1>5, <2>2, <2>3 DEF Relisted
<1>6. CASE Event
  <2>0. PICK r \in 1..Latest : \E u : Seen(r, u)
    BY <1>1, <1>6, EventSeen
  <2>1. PICK u : Seen(r, u)
    BY <2>0
  <2>. USE DEF Seen
  <2>2. Latest' = Latest
    BY <2>1 DEF Latest
  <2>3. StaleInv'
    <3> SUFFICES ASSUME NEW w \in DOMAIN view', Alive(history, w, Latest)
                 PROVE  \E n \in DOMAIN cache' : cache'[n].uid = w
      BY <2>1, <2>2 DEF StaleInv
    <3>1. CASE w = u
      <4>1. ~view'[u].deleted
        <5>1. WatchInv'
          BY <1>1, WatchStep
        <5>2. view'[u].deleted => ~Alive(history', u, Latest')
          BY <2>1, <5>1 DEF WatchInv, RecordsOK
        <5>. QED
          BY <2>1, <2>2, <3>1, <5>2
      <4>. QED
        BY <2>1, <3>1, <4>1
    <3>2. CASE w # u
      BY <2>1, <3>2 DEF StaleInv
    <3>. QED
      BY <3>1, <3>2
  <2> SUFFICES ASSUME NEW pod \in Current, pod.uid \in DOMAIN view
               PROVE  view'[pod.uid].rv >= view[pod.uid].rv
    BY <2>3
  <2>4. CASE pod.uid = u
    <3>1. Alive(history, pod.uid, Latest)
      <4>1. Len(history) \in 0..Len(history) /\ pod \in ObjectsAt(history, Len(history))
        BY <1>1, CurrentObjects DEF Latest
      <4>. QED
        BY <1>1, <4>1, ObjectFacts DEF Latest
    <3>2. history[r].kind # "Deleted"
      BY <2>1, <2>4, <3>1 DEF Alive
    <3>3. PICK n \in DOMAIN cache : cache[n].uid = u
      BY <2>1, <2>4, <3>1 DEF StaleInv
    <3>. QED
      BY <2>1, <2>4, <3>2, <3>3
  <2>5. CASE pod.uid # u
    BY <1>3, <2>1, <2>5
  <2>. QED
    BY <2>4, <2>5
<1>7. CASE Restarts
  BY <1>1, <1>7 DEF Restarts, Started, StaleInv
<1>8. Seed \/ Reconcile => Relisted
  BY <1>1, SeedRelists, ReconcileRelists
<1>9. Compact \/ List \/ Reconnects \/ Bookmark \/ Saves \/ SaveState \/ UNCHANGED vars =>
        view' = view /\ synced' = synced /\ cache' = cache /\ history' = history
  BY DEF Compact, List, Reconnects, Bookmark, Saves, SaveState, vars, cluster, watcher, records
<1>10. ClusterMoves => view' = view /\ synced' = synced /\ cache' = cache
  BY DEF ClusterMoves, watcher, records
<1>. QED
  BY <1>1, <1>4, <1>5, <1>6, <1>7, <1>8, <1>9, <1>10, Kinds

\* "never let stale state overwrite fresher state" (pod_informer.go:344): while a
\* process runs and names are not reused, no list, relist or event takes the
\* record of a pod that exists back to an older version.
THEOREM VersionsAdvance ==
  ASSUME ~ReusesNames
  PROVE  Spec => NeverStale
<1>1. Init => StaleInv
  BY DEF Init, StaleInv
<1>2. InformerInv /\ StaleInv /\ [Next]_vars =>
        /\ StaleInv'
        /\ [\/ restarts' # restarts
            \/ \A pod \in Current : pod.uid \in DOMAIN view =>
                 view'[pod.uid].rv >= view[pod.uid].rv]_vars
  BY StaleStep
<1>. QED
  BY <1>1, <1>2, InformerKept, PTL DEF Spec, NeverStale

-----------------------------------------------------------------------------
(* What a process starts from, when none crashes.                          *)

\* The records reflect a version: the last version of every pod that lived then
\* is on record or was overtaken, and no pod deleted by then is on record alive.
Reflected(h, v, rv) ==
  \A r \in 1..rv : OfPod(h, r) =>
    IF Alive(h, h[r].uid, rv)
    THEN h[r].uid \in DOMAIN v /\ v[h[r].uid].rv >= r
    ELSE h[r].uid \in DOMAIN v => v[h[r].uid].deleted

\* The pods on record as alive are the cached ones, and there are none before the
\* first list.
AliveIsCached ==
  IF synced
  THEN \A u \in DOMAIN view : view[u].deleted \/ \E n \in DOMAIN cache : cache[n].uid = u
  ELSE view = Empty

\* A list is never behind what the checkpoint is or may become, nor is the position; a
\* process without a position has a cache that knows of every record, which the next
\* list needs.
ReflectInv ==
  /\ stage = "listed" => \A rv \in Underway : rv <= list.rv
  /\ ~blind /\ ~behind =>
       /\ Reflected(history, view, lastRV)
       /\ \A rv \in Underway : Reflected(history, view, rv)
       /\ lastRV # NoRV => \A rv \in Underway : rv <= lastRV
       /\ restarts = 0 \/ lastRV = NoRV => AliveIsCached

\* Versions reflected stay so when the cluster goes on.
LEMMA ReflectedLonger ==
  ASSUME NEW h \in Seq(Events), NEW e, NEW g, g = Append(h, e),
         NEW rv \in 0..Len(h), NEW v, Reflected(h, v, rv)
  PROVE  Reflected(g, v, rv)
<1>1. /\ Len(h) \in Nat
      /\ \A r \in 1..Len(h) : g[r] = h[r]
      /\ \A u : Alive(g, u, rv) <=> Alive(h, u, rv)
  <2>1. \A k \in 0..Len(h) : \A u : Alive(g, u, k) <=> Alive(h, u, k)
    BY Longer, Zenon
  <2>. QED
    BY <2>1
<1>2. \A r \in 1..rv : g[r] = h[r]
  BY <1>1
<1>. QED
  BY <1>1, <1>2 DEF Reflected, OfPod

\* Nothing happened up to no version.
LEMMA NoneReflected ==
  ASSUME NEW h, NEW v
  PROVE  Reflected(h, v, NoRV)
BY DEF Reflected, NoRV

\* The steps, one kind at a time: the cluster,
LEMMA ClusterReflects ==
  ASSUME InformerInv, ReflectInv, ClusterMoves
  PROVE  ReflectInv'
<1>1. /\ history \in Seq(Events) /\ lastRV \in 0..Len(history)
      /\ Underway \subseteq 0..Len(history)
  BY DEF InformerInv, WatchInv, WellFormed, PositionOK, SavedOK, Latest
<1>2. PICK e : history' = Append(history, e)
  BY DEF ClusterMoves
<1>3. \A rv \in 0..Len(history) :
        Reflected(history, view, rv) => Reflected(history', view, rv)
  BY <1>1, <1>2, ReflectedLonger
<1>4. Underway' = Underway
  BY DEF ClusterMoves, Underway, resume
<1>. QED
  BY <1>1, <1>3, <1>4 DEF ClusterMoves, ReflectInv, AliveIsCached, watcher, records, bounds

\* the checkpoint store, which only ever gets a position that was processed,
LEMMA SavingReflects ==
  ASSUME InformerInv, ReflectInv, Saves
  PROVE  ReflectInv'
<1>1. /\ Underway' \subseteq Underway \cup {lastRV, NoRV}
      /\ UNCHANGED <<history, lastRV, synced, cache, stage, list, view, blind, behind,
                     restarts>>
  BY DEF Saves, Resumes, cluster, records
<1>2. /\ lastRV \in Nat
      /\ stage = "listed" => lastRV <= list.rv /\ list.rv \in Nat
  BY DEF InformerInv, WatchInv, WellFormed, PositionOK, ListOK, Latest
<1>3. AliveIsCached' <=> AliveIsCached
  BY <1>1 DEF AliveIsCached
<1>4. Reflected(history, view, NoRV)
  BY NoneReflected
<1>5. stage' = "listed" => \A rv \in Underway' : rv <= list'.rv
  BY <1>1, <1>2 DEF ReflectInv, NoRV
<1>6. ASSUME ~blind', ~behind'
      PROVE  /\ Reflected(history', view', lastRV')
             /\ \A rv \in Underway' : Reflected(history', view', rv)
  BY <1>1, <1>4, <1>6 DEF ReflectInv
<1>7. ASSUME ~blind', ~behind', lastRV' # NoRV
      PROVE  \A rv \in Underway' : rv <= lastRV'
  BY <1>1, <1>2, <1>7 DEF ReflectInv, NoRV
<1>. QED
  BY <1>1, <1>3, <1>5, <1>6, <1>7 DEF ReflectInv

\* a list,
LEMMA ListReflects ==
  ASSUME InformerInv, ReflectInv, List
  PROVE  ReflectInv'
<1>1. /\ list'.rv = Latest
      /\ UNCHANGED <<history, lastRV, synced, cache, view, blind, behind, restarts>>
      /\ Underway' = Underway
  BY DEF List, Underway, cluster, records, resume, bounds
<1>2. \A rv \in Underway : rv <= Latest
  BY DEF InformerInv, SavedOK, WatchInv, WellFormed, Latest
<1>. QED
  BY <1>1, <1>2 DEF ReflectInv, AliveIsCached

\* the watch, which only a first process may leave without a position unless blind,
LEMMA ReconnectReflects ==
  ASSUME InformerInv, ReflectInv, Reconnects
  PROVE  ReflectInv'
<1>1. /\ stage' # "listed" /\ restarts \in Nat
      /\ \/ lastRV' = lastRV /\ blind' = blind
         \/ lastRV' = NoRV /\ blind' = (blind \/ restarts > 0)
      /\ UNCHANGED <<history, synced, cache, view, behind, restarts>>
      /\ Underway' = Underway
  BY DEF Reconnects, Underway, records, resume, InformerInv, SavedOK
<1>2. AliveIsCached' <=> AliveIsCached
  BY <1>1 DEF AliveIsCached
<1>3. CASE lastRV' = lastRV /\ blind' = blind
  BY <1>1, <1>2, <1>3 DEF ReflectInv
<1>4. CASE lastRV' = NoRV /\ blind' = (blind \/ restarts > 0)
  <2>1. ~blind' => ~blind /\ restarts = 0
    <3>1. ~blind' => ~blind /\ ~(restarts > 0)
      BY <1>4, Zenon
    <3>. QED
      BY <1>1, <3>1
  <2>2. Reflected(history, view, NoRV)
    BY NoneReflected
  <2>3. stage' = "listed" => \A rv \in Underway' : rv <= list'.rv
    BY <1>1
  <2>. QED
    BY <1>1, <1>2, <1>4, <2>1, <2>2, <2>3 DEF ReflectInv
<1>. QED
  BY <1>1, <1>3, <1>4

\* a new process, which starts from the checkpoint, or from nothing,
LEMMA RestartReflects ==
  ASSUME ~Crashes, InformerInv, ReflectInv, Restarts
  PROVE  ReflectInv'
<1>1. /\ stage' # "listed" /\ saving' = NoRV /\ restarts' = restarts + 1 /\ restarts \in Nat
      /\ view' = view /\ history' = history /\ synced' = FALSE
      /\ Underway' \subseteq Underway \cup {lastRV, NoRV}
      /\ lastRV' \in {checkpoint', NoRV}
      /\ blind' = (blind \/ (lastRV' = NoRV /\ view' # Empty))
      /\ behind' = (behind \/ \E rv \in RVs : late'[rv] > 0 /\ rv > lastRV')
      /\ late' \in [RVs -> Nat]
  BY DEF Restarts, Started, Resumes, InformerInv, SavedOK
<1>2. ASSUME ~blind', ~behind'
      PROVE  ~blind /\ ~behind /\ (lastRV' = NoRV => view' = Empty)
  BY <1>1, <1>2
<1>3. Underway' \subseteq Nat /\ lastRV \in Nat /\ checkpoint' \in Underway'
  BY <1>1 DEF InformerInv, WatchInv, PositionOK, SavedOK, WellFormed, Latest, Underway, NoRV
<1>4. restarts' # 0
  BY <1>1
<1>5. ASSUME ~blind', ~behind'
      PROVE  /\ \A rv \in Underway' : Reflected(history', view', rv)
             /\ Reflected(history', view', lastRV')
  <2>1. \A rv \in Underway' : Reflected(history, view, rv)
    BY <1>1, <1>2, <1>5, NoneReflected DEF ReflectInv
  <2>. QED
    BY <1>1, <1>3, <2>1, NoneReflected
<1>6. ASSUME ~blind', ~behind', lastRV' # NoRV
      PROVE  \A rv \in Underway' : rv <= lastRV'
  <2>1. lastRV' \in Nat /\ checkpoint' = lastRV' /\ saving' <= lastRV'
    BY <1>1, <1>3, <1>6 DEF NoRV
  <2>2. \A rv \in RVs : ~(late'[rv] > 0 /\ rv > lastRV')
    BY <1>1, <1>6
  <2>3. RVs \subseteq Nat
    BY InformerAssumption DEF RVs
  <2>. QED
    BY <2>1, <2>2, <2>3 DEF Underway
<1>7. ASSUME ~blind', lastRV' = NoRV
      PROVE  AliveIsCached'
  BY <1>1, <1>7 DEF AliveIsCached
<1>. QED
  BY <1>1, <1>4, <1>5, <1>6, <1>7 DEF ReflectInv

\* and a bookmark.
LEMMA BookmarkReflects ==
  ASSUME InformerInv, ReflectInv, Bookmark
  PROVE  ReflectInv'
<1>1. /\ stage = "watching" /\ Unsent = {} /\ sent = lastRV /\ lastRV' = Latest
      /\ UNCHANGED <<history, synced, cache, stage, list, view, blind, behind, restarts>>
      /\ lastRV \in 0..Latest /\ Latest \in Nat /\ lastRV # NoRV
      /\ Underway' = Underway /\ Underway \subseteq 0..Latest
  BY DEF Underway, InformerInv, WatchInv, SavedOK, PositionOK, WellFormed, Bookmark, SetRV, cluster,
         records, resume, bounds, Latest
<1>2. \A q \in 1..Latest : OfPod(history, q) => q \in 1..lastRV
  <2>1. \A q \in (lastRV + 1)..Latest : ~OfPod(history, q)
    BY <1>1 DEF Unsent, OfPod
  <2>. QED
    BY <1>1, <2>1
<1>3. \A u : Alive(history, u, Latest) <=> Alive(history, u, lastRV)
  BY <1>1, <1>2 DEF Alive, OfPod
<1>4. Reflected(history, view, lastRV) => Reflected(history, view, Latest)
  BY <1>2, <1>3 DEF Reflected
<1>5. AliveIsCached' <=> AliveIsCached
  BY <1>1 DEF AliveIsCached
<1>6. Latest # NoRV
  BY <1>1 DEF NoRV
<1>. QED
  BY <1>1, <1>4, <1>5, <1>6 DEF ReflectInv

\* When the cache knows of every record, a relist leaves no pod on record alive
\* that the list lacks.
LEMMA RelistFinds ==
  ASSUME ~ReusesNames, InformerInv, Seed \/ Reconcile, AliveIsCached,
         NEW u \in DOMAIN view', ~ \E o \in list.pods : o.uid = u
  PROVE  view'[u].deleted
<1>1. WatchInv /\ Relisted /\ stage = "listed"
  BY SeedRelists, ReconcileRelists DEF InformerInv, Relisted
<1>2. /\ u \in DOMAIN view
      /\ view'[u] = view[u] \/ view'[u].deleted
  BY <1>1 DEF Relisted
<1>3. CASE ~view[u].deleted
  <2>1. Reconcile
    <3>1. synced
      <4>1. DOMAIN Empty = {}
        BY DEF Empty
      <4>. QED
        BY <1>2, <4>1 DEF AliveIsCached
    <3>. QED
      BY <3>1 DEF Seed
  <2>2. PICK n \in DOMAIN cache : cache[n].uid = u
    BY <1>2, <1>3, <2>1 DEF AliveIsCached, Reconcile
  <2>3. CASE n \in {o.name : o \in list.pods}
    <3>1. PICK o \in list.pods : o.name = n
      BY <2>3
    <3>2. /\ o.rv \in 1..Latest /\ OfPod(history, o.rv)
          /\ o.uid = history[o.rv].uid /\ n = history[o.rv].name
      BY <1>1, <3>1, ListedFacts
    <3>3. /\ cache[n].rv \in 1..Latest /\ OfPod(history, cache[n].rv)
          /\ cache[n] = ObjectOf(history, cache[n].rv) /\ cache[n].name = n
      BY <1>1 DEF WatchInv, CacheOK
    <3>4. history[cache[n].rv].uid = u /\ history[cache[n].rv].name = n
      BY <2>2, <3>3 DEF ObjectOf
    <3>5. history[o.rv].uid = u
      BY <1>1, <3>2, <3>3, <3>4, NameIsUnique DEF WatchInv, Latest
    <3>. QED
      BY <3>2, <3>5
  <2>4. CASE n \notin {o.name : o \in list.pods}
    BY <1>1, <2>1, <2>2, <2>4, ReconcileRelists
  <2>. QED
    BY <2>3, <2>4
<1>. QED
  BY <1>2, <1>3

\* What the records reflected up to a version they reflect after the relist.
LEMMA StillReflected ==
  ASSUME WatchInv, Relisted, NEW rv \in 0..list.rv, Reflected(history, view, rv)
  PROVE  Reflected(history, view', rv)
<1>1. /\ stage = "listed" /\ list.rv \in Nat /\ rv \in Nat
  BY DEF Relisted, WatchInv, ListOK, PositionOK, WellFormed, Latest
<1>2. SUFFICES ASSUME NEW r \in 1..rv, OfPod(history, r)
               PROVE  LET u == history[r].uid IN
                      IF Alive(history, u, rv)
                      THEN u \in DOMAIN view' /\ view'[u].rv >= r
                      ELSE u \in DOMAIN view' => view'[u].deleted
  BY DEF Reflected
<1> DEFINE u == history[r].uid
<1>3. r \in 1..list.rv
  BY <1>1
<1>4. IF Alive(history, u, rv)
      THEN u \in DOMAIN view /\ view[u].rv >= r
      ELSE u \in DOMAIN view => view[u].deleted
  BY <1>2 DEF Reflected
<1>5. Alive(history, u, list.rv) => Alive(history, u, rv)
  BY <1>1, AliveBefore
<1>6. CASE \E o \in list.pods : o.uid = u
  <2>1. PICK p \in list.pods : p.uid = u
    BY <1>6
  <2>2. Alive(history, u, list.rv)
    BY <1>1, <2>1, ListedFacts
  <2>3. PICK o \in list.pods : o.uid = u /\ o.rv >= r
    BY <1>1, <1>2, <1>3, <2>2, ListedIfAlive
  <2>4. u \in DOMAIN view' /\ view'[u] = Recorded(o)
    BY <2>3 DEF Relisted
  <2>5. view'[u].rv = o.rv
    BY <2>4, EntryIs
  <2>. QED
    BY <1>5, <2>2, <2>3, <2>4, <2>5
<1>7. CASE ~ \E o \in list.pods : o.uid = u
  <2>1. u \in DOMAIN view' =>
          /\ u \in DOMAIN view
          /\ view'[u] = view[u] \/ (view'[u].deleted /\ view'[u].rv = view[u].rv)
    BY <1>7 DEF Relisted
  <2>2. DOMAIN view \subseteq DOMAIN view'
    BY DEF Relisted
  <2>. QED
    BY <1>4, <2>1, <2>2
<1>. QED
  BY <1>6, <1>7

\* Seed and relist.
LEMMA RelistReflects ==
  ASSUME ~ReusesNames, InformerInv, ReflectInv, Seed \/ Reconcile
  PROVE  ReflectInv'
<1>1. /\ WatchInv /\ Relisted /\ stage = "listed" /\ stage' = "idle" /\ synced' = TRUE
      /\ history' = history
      /\ lastRV' \in {lastRV, list.rv} /\ (lastRV = NoRV => lastRV' = list.rv)
  BY SeedRelists, ReconcileRelists DEF InformerInv, Relisted
<1>2. UNCHANGED <<blind, behind, restarts>> /\ Underway' = Underway
  BY DEF Seed, Reconcile, Underway, resume, bounds
<1>3. /\ list.rv \in Nat /\ lastRV \in 0..list.rv /\ Underway \subseteq 0..list.rv
  BY <1>1 DEF InformerInv, WatchInv, SavedOK, ListOK, PositionOK, WellFormed, Latest,
              ReflectInv
<1>4. lastRV' = lastRV \/ (lastRV = NoRV /\ lastRV' = list.rv)
  <2>1. Reconcile => lastRV = NoRV
    BY <1>1 DEF Reconcile, InformerInv, SavedOK
  <2>2. Seed => lastRV' = lastRV \/ (lastRV = NoRV /\ lastRV' = list.rv)
    BY DEF Seed, SeedPosition, SetRV
  <2>. QED
    BY <1>1, <2>1, <2>2
<1>5. SUFFICES ASSUME ~blind, ~behind
               PROVE  /\ Reflected(history, view', lastRV')
                      /\ \A rv \in Underway : Reflected(history, view', rv)
                      /\ lastRV' # NoRV => \A rv \in Underway : rv <= lastRV'
                      /\ restarts = 0 \/ lastRV' = NoRV => AliveIsCached'
  BY <1>1, <1>2 DEF ReflectInv
<1>6. /\ Reflected(history, view', lastRV)
      /\ \A rv \in Underway : Reflected(history, view', rv)
  BY <1>1, <1>3, <1>5, StillReflected DEF ReflectInv
<1>7. ASSUME lastRV = NoRV
      PROVE  Reflected(history, view', list.rv)
  <2>1. AliveIsCached
    BY <1>5, <1>7 DEF ReflectInv
  <2> SUFFICES ASSUME NEW r \in 1..list.rv, OfPod(history, r)
               PROVE  LET u == history[r].uid IN
                      IF Alive(history, u, list.rv)
                      THEN u \in DOMAIN view' /\ view'[u].rv >= r
                      ELSE u \in DOMAIN view' => view'[u].deleted
    BY DEF Reflected
  <2> DEFINE u == history[r].uid
  <2>2. CASE Alive(history, u, list.rv)
    <3>1. PICK o \in list.pods : o.uid = u /\ o.rv >= r
      BY <1>1, <2>2, ListedIfAlive
    <3>2. u \in DOMAIN view' /\ view'[u] = Recorded(o)
      BY <1>1, <3>1 DEF Relisted
    <3>3. view'[u].rv = o.rv
      BY <3>2, EntryIs
    <3>. QED
      BY <2>2, <3>1, <3>2, <3>3
  <2>3. CASE ~Alive(history, u, list.rv)
    <3>1. ~ \E o \in list.pods : o.uid = u
      BY <1>1, <2>3, ListedFacts
    <3>2. u \in DOMAIN view' => view'[u].deleted
      BY <2>1, <3>1, RelistFinds
    <3>. QED
      BY <2>3, <3>2
  <2>. QED
    BY <2>2, <2>3
<1>8. Reflected(history, view', lastRV')
  BY <1>4, <1>6, <1>7
<1>9. lastRV' # NoRV => \A rv \in Underway : rv <= lastRV'
  BY <1>3, <1>4, <1>5 DEF ReflectInv
<1>10. ASSUME restarts = 0 \/ lastRV' = NoRV
       PROVE  AliveIsCached'
  <2>1. AliveIsCached
    <3>1. restarts = 0 \/ lastRV = NoRV
      BY <1>3, <1>4, <1>10 DEF NoRV
    <3>. QED
      BY <1>5, <3>1 DEF ReflectInv
  <2>2. SUFFICES ASSUME NEW u \in DOMAIN view', ~view'[u].deleted
                 PROVE  \E n \in DOMAIN cache' : cache'[n].uid = u
    BY <1>1 DEF AliveIsCached
  <2>3. PICK o \in list.pods : o.uid = u
    BY <2>1, <2>2, RelistFinds
  <2>. QED
    BY <1>1, <2>3 DEF Relisted
<1>. QED
  BY <1>6, <1>8, <1>9, <1>10

\* An event.
LEMMA EventReflects ==
  ASSUME ~ReusesNames, InformerInv, ReflectInv, Event
  PROVE  ReflectInv'
<1>1. /\ UNCHANGED <<blind, behind, restarts>> /\ Underway' = Underway
      /\ stage' = stage /\ stage = "watching" /\ lastRV # NoRV
  BY DEF Event, Underway, resume, bounds, InformerInv, SavedOK
<1>0. PICK r \in 1..Latest : \E u : Seen(r, u)
  BY EventSeen DEF InformerInv
<1>2. PICK u : Seen(r, u)
  BY <1>0
<1>. USE DEF Seen
<1>3. /\ WellFormed(history) /\ lastRV \in Nat /\ Underway \subseteq Nat
      /\ Latest = Len(history) /\ Latest \in Nat /\ r \in Nat /\ r \in 1..Len(history)
  BY <1>2 DEF InformerInv, WatchInv, PositionOK, SavedOK, WellFormed, Latest
<1>4. SUFFICES ASSUME ~blind, ~behind
               PROVE  /\ Reflected(history, view', lastRV')
                      /\ \A rv \in Underway : Reflected(history, view', rv)
                      /\ lastRV' # NoRV => \A rv \in Underway : rv <= lastRV'
                      /\ restarts = 0 \/ lastRV' = NoRV => AliveIsCached'
  BY <1>1, <1>2 DEF ReflectInv
<1>5. \A rv \in Underway : rv <= lastRV
  BY <1>1, <1>4 DEF ReflectInv
<1>6. \A d \in 1..r : history[d].kind = "Deleted" /\ history[d].uid = u => d = r
  BY <1>2, <1>3 DEF WellFormed
<1>7. ASSUME NEW rv \in 0..lastRV, Reflected(history, view, rv)
      PROVE  Reflected(history, view', rv)
  <2> SUFFICES ASSUME NEW q \in 1..rv, OfPod(history, q)
               PROVE  LET w == history[q].uid IN
                      IF Alive(history, w, rv)
                      THEN w \in DOMAIN view' /\ view'[w].rv >= q
                      ELSE w \in DOMAIN view' => view'[w].deleted
    BY DEF Reflected
  <2> DEFINE w == history[q].uid
  <2>1. IF Alive(history, w, rv)
        THEN w \in DOMAIN view /\ view[w].rv >= q
        ELSE w \in DOMAIN view => view[w].deleted
    BY <1>7 DEF Reflected
  <2>2. q \in Nat /\ q < r /\ \A d \in 1..rv : d \in 1..r /\ d # r
    BY <1>2, <1>3
  <2>3. CASE w = u
    <3>1. Alive(history, w, rv)
      BY <1>6, <2>2, <2>3 DEF Alive
    <3>2. view'[w].rv >= q
      BY <1>2, <1>3, <2>2, <2>3
    <3>. QED
      BY <1>2, <2>3, <3>1, <3>2
  <2>4. CASE w # u
    BY <1>2, <2>1, <2>4
  <2>. QED
    BY <2>3, <2>4
<1>8. \A rv \in Underway : Reflected(history, view', rv)
  <2>1. Underway \subseteq 0..lastRV
    BY <1>3, <1>5
  <2>. QED
    BY <1>4, <1>7, <2>1 DEF ReflectInv
<1>9. Reflected(history, view', r)
  <2> SUFFICES ASSUME NEW q \in 1..r, OfPod(history, q)
               PROVE  LET w == history[q].uid IN
                      IF Alive(history, w, r)
                      THEN w \in DOMAIN view' /\ view'[w].rv >= q
                      ELSE w \in DOMAIN view' => view'[w].deleted
    BY DEF Reflected
  <2> DEFINE w == history[q].uid
  <2>1. CASE w = u
    <3>1. view'[w].rv >= q
      BY <1>2, <1>3, <2>1
    <3>2. ~Alive(history, w, r) => history[r].kind = "Deleted"
      BY <1>6, <2>1 DEF Alive
    <3>. QED
      BY <1>2, <2>1, <3>1, <3>2
  <2>2. CASE w # u
    <3>1. q \in 1..lastRV
      BY <1>2, <1>3, <2>2
    <3>2. IF Alive(history, w, lastRV)
          THEN w \in DOMAIN view /\ view[w].rv >= q
          ELSE w \in DOMAIN view => view[w].deleted
      BY <1>4, <3>1 DEF ReflectInv, Reflected
    <3>3. Alive(history, w, r) <=> Alive(history, w, lastRV)
      <4>1. ASSUME NEW d \in 1..r, history[d].kind = "Deleted", history[d].uid = w
            PROVE  d \in 1..lastRV
        BY <1>2, <1>3, <2>2, <4>1 DEF OfPod
      <4>2. 1..lastRV \subseteq 1..r
        BY <1>2, <1>3
      <4>. QED
        BY <4>1, <4>2 DEF Alive
    <3>. QED
      BY <1>2, <2>2, <3>2, <3>3
  <2>. QED
    BY <2>1, <2>2
<1>10. lastRV' # NoRV /\ \A rv \in Underway : rv <= lastRV'
  BY <1>2, <1>3, <1>5 DEF NoRV
<1>11. ASSUME restarts = 0
       PROVE  AliveIsCached'
  <2>1. AliveIsCached
    BY <1>4, <1>11 DEF ReflectInv
  <2> SUFFICES ASSUME NEW w \in DOMAIN view', ~view'[w].deleted
               PROVE  \E n \in DOMAIN cache' : cache'[n].uid = w
    BY <1>2 DEF AliveIsCached
  <2>2. CASE w = u
    BY <1>2, <2>2
  <2>3. CASE w # u
    BY <1>2, <2>1, <2>3 DEF AliveIsCached
  <2>. QED
    BY <2>2, <2>3
<1>. QED
  BY <1>2, <1>8, <1>9, <1>10, <1>11

\* Every step keeps ReflectInv ...
LEMMA ReflectStep ==
  ASSUME ~ReusesNames, ~Crashes, InformerInv, ReflectInv, [Next]_vars
  PROVE  ReflectInv'
<1>1. CASE Compact \/ SaveState \/ UNCHANGED vars
  <2>1. /\ UNCHANGED <<history, lastRV, synced, cache, stage, list, view, blind, behind,
                       restarts>>
        /\ Underway' = Underway
    BY <1>1 DEF Compact, SaveState, vars, cluster, watcher, records, resume, bounds, Underway
  <2>. QED
    BY <2>1 DEF ReflectInv, AliveIsCached
<1>2. SavedOK /\ PositionOK
  BY DEF InformerInv, WatchInv
<1>. QED
  BY <1>1, <1>2, Kinds, ClusterReflects, SavingReflects, ListReflects, RelistReflects,
     ReconnectReflects, EventReflects, BookmarkReflects, RestartReflects

\* ... which therefore holds.
LEMMA ReflectKept ==
  ASSUME ~ReusesNames, ~Crashes
  PROVE  Spec => [](InformerInv /\ ReflectInv)
<1>1. Init => ReflectInv
  <2> SUFFICES ASSUME Init
               PROVE  ReflectInv
    OBVIOUS
  <2>1. /\ lastRV = NoRV /\ checkpoint = NoRV /\ saving = NoRV /\ late = NoLate
        /\ stage = "idle" /\ synced = FALSE /\ view = Empty
    BY Zenon DEF Init
  <2>2. Reflected(history, view, NoRV)
    BY NoneReflected
  <2>3. Underway = {NoRV}
    BY <2>1 DEF Underway, NoLate
  <2>. QED
    BY <2>1, <2>2, <2>3 DEF ReflectInv, AliveIsCached
<1>2. InformerInv /\ ReflectInv /\ [Next]_vars => ReflectInv'
  BY ReflectStep
<1>. QED
  BY <1>1, <1>2, InformerKept, PTL DEF Spec

\* Reflecting is what the properties ask of the last event of every pod.
LEMMA ReflectedAll ==
  ASSUME WellFormed(history), NEW rv \in 0..Latest, NEW v, Reflected(history, v, rv)
  PROVE  AllReflected(v, rv)
<1> SUFFICES ASSUME NEW u \in Uids, HadEvent(u, rv)
             PROVE  Reflects(v, u, rv)
  BY DEF AllReflected
<1> DEFINE l == LastEvent(u, rv)
<1>1. /\ l \in 1..rv /\ l \in 1..Latest /\ history[l].uid = u
      /\ \A q \in 1..rv : history[q].uid = u => q <= l
  BY LastEventIs
<1>. HIDE DEF l
<1>2. Latest \in Nat /\ Latest = Len(history) /\ u # 0
  BY DEF WellFormed, Latest, Uids
<1>3. OfPod(history, l)
  BY <1>1, <1>2 DEF WellFormed
<1>4. IF Alive(history, u, rv)
      THEN u \in DOMAIN v /\ v[u].rv >= l
      ELSE u \in DOMAIN v => v[u].deleted
  BY <1>1, <1>3 DEF Reflected
<1>5. ~Alive(history, u, rv) <=> history[l].kind = "Deleted"
  <2>1. ASSUME NEW d \in 1..rv, history[d].kind = "Deleted", history[d].uid = u
        PROVE  d = l
    <3>1. d <= l /\ d \in 1..Len(history) /\ l \in 1..Len(history) /\ d \in Nat /\ l \in Nat
      BY <1>1, <1>2, <2>1
    <3>. QED
      BY <1>1, <2>1, <3>1 DEF WellFormed
  <2>. QED
    BY <1>1, <2>1 DEF Alive
<1>. QED
  BY <1>4, <1>5 DEF Reflects, l

\* "a short restart can resume the watch from that point and replay pod lifecycle
\* events missed" (pod_informer.go:29): as long as no process crashes and names are
\* not reused, whatever happened up to the position of a process that goes on from
\* one is in the records once the startup snapshot is, whatever the watch, the
\* server's history and the saves do.
THEOREM ResumeLosesNothing ==
  ASSUME ~ReusesNames, ~Crashes
  PROVE  Spec => []ResumedReflected
<1>1. InformerInv /\ ReflectInv => ResumedReflected
  <2> SUFFICES ASSUME InformerInv, ReflectInv, ~blind, ~behind, synced
               PROVE  AllReflected(view, lastRV)
    BY DEF ResumedReflected, PositionReflected
  <2>. QED
    BY ReflectedAll DEF InformerInv, WatchInv, PositionOK, ReflectInv
<1>. QED
  BY <1>1, ReflectKept, PTL

\* The same of what the next process will start from: the checkpoint never runs
\* ahead of what was processed, whatever saves race, fail or lose their answer
\* (pod_informer.go:456-496, resume_store.go).
THEOREM CheckpointLosesNothing ==
  ASSUME ~ReusesNames, ~Crashes
  PROVE  Spec => []CheckpointReflected
<1>1. InformerInv /\ ReflectInv => CheckpointReflected
  <2> SUFFICES ASSUME InformerInv, ReflectInv, ~blind, ~behind
               PROVE  AllReflected(view, checkpoint)
    BY DEF CheckpointReflected
  <2>. QED
    BY ReflectedAll DEF InformerInv, WatchInv, SavedOK, ReflectInv, Underway
<1>. QED
  BY <1>1, ReflectKept, PTL

\* The deletions of it: "a short restart can resume the watch from that point and
\* replay pod lifecycle events missed" (pod_informer.go:29), so that no pod whose
\* deletion the position has passed stays on record as alive, as long as no process
\* crashes and names are not reused.  Without the first, TLC finds the deletion lost.
THEOREM DeletionsAreKept ==
  ASSUME ~ReusesNames, ~Crashes
  PROVE  Spec => []DeletionsKept
<1>1. InformerInv /\ ReflectInv => DeletionsKept
  <2> SUFFICES ASSUME InformerInv, ReflectInv, ~blind, ~behind,
                      NEW u \in DOMAIN view, GoneBy(u, lastRV)
               PROVE  view[u].deleted
    BY DEF DeletionsKept, Ghosts
  <2>1. WellFormed(history) /\ lastRV \in 0..Latest /\ Reflected(history, view, lastRV)
    BY DEF InformerInv, WatchInv, PositionOK, ReflectInv
  <2> DEFINE l == LastEvent(u, lastRV)
  <2>2. /\ l \in 1..lastRV /\ history[l].uid = u
        /\ history[l].kind = "Deleted"
    BY <2>1, LastEventIs DEF GoneBy
  <2>. HIDE DEF l
  <2>3. OfPod(history, l) /\ ~Alive(history, u, lastRV)
    BY <2>2 DEF OfPod, Alive
  <2>. QED
    BY <2>1, <2>2, <2>3 DEF Reflected
<1>. QED
  BY <1>1, ReflectKept, PTL

-----------------------------------------------------------------------------
(* Deletions, with crashes and reused names: what blind and gap stand for.  *)

\* No pod is on record as alive whose deletion the version has passed.
NoGhost(v, rv) == \A u \in DOMAIN v : Alive(history, u, rv) \/ v[u].deleted

\* There is none but for what blind and gap mark.  A process without a position has
\* no records before its first list; after it, the cache has every pod that is on
\* record as alive, and is not ahead of the position.
GhostInv ==
  /\ ~synced /\ restarts = 0 => lastRV = NoRV
  /\ ~blind /\ ~synced /\ lastRV = NoRV => view = Empty
  /\ ~blind /\ ~gap => NoGhost(view, lastRV)
  /\ ~blind /\ ~gap /\ synced /\ (restarts = 0 \/ lastRV = NoRV) =>
       /\ AliveIsCached
       /\ lastRV # NoRV => \A n \in DOMAIN cache : cache[n].rv <= lastRV

\* A pod is gone by a version when it was deleted up to it.
LEMMA GoneIs ==
  ASSUME WellFormed(history), NEW rv \in 0..Latest, NEW u
  PROVE  GoneBy(u, rv) <=> ~Alive(history, u, rv)
<1>1. Latest \in Nat /\ Latest = Len(history) /\ \A r \in 1..rv : r \in 1..Len(history)
  BY DEF WellFormed, Latest
<1>2. ASSUME GoneBy(u, rv)
      PROVE  ~Alive(history, u, rv)
  BY <1>2, LastEventIs DEF GoneBy, Alive
<1>3. ASSUME NEW d \in 1..rv, history[d].kind = "Deleted", history[d].uid = u
      PROVE  GoneBy(u, rv)
  <2>1. HadEvent(u, rv)
    BY <1>3 DEF HadEvent
  <2> DEFINE l == LastEvent(u, rv)
  <2>2. l \in 1..rv /\ history[l].uid = u /\ d <= l
    BY <1>3, <2>1, LastEventIs
  <2>. HIDE DEF l
  <2>3. d = l
    BY <1>1, <1>3, <2>2 DEF WellFormed
  <2>. QED
    BY <1>3, <2>1, <2>3 DEF GoneBy, l
<1>. QED
  BY <1>2, <1>3 DEF Alive

\* The seed of a process.
LEMMA SeedNoGhost ==
  ASSUME InformerInv, GhostInv, Seed
  PROVE  GhostInv'
<1>1. /\ WatchInv /\ Relisted /\ stage = "listed" /\ ~synced /\ synced' = TRUE
      /\ UNCHANGED <<history, blind, gap, restarts>>
      /\ lastRV' = IF lastRV = NoRV THEN list.rv ELSE lastRV
  BY SeedRelists DEF InformerInv, Seed, SeedPosition, SetRV, bounds, cluster
<1>2. list.rv \in lastRV..Latest /\ lastRV \in Nat /\ Latest \in Nat
      /\ lastRV' \in 0..list.rv /\ list.rv \in Nat
  BY <1>1 DEF WatchInv, ListOK, PositionOK, WellFormed, Latest
<1>3. \A o \in list.pods : /\ Alive(history, o.uid, list.rv)
                           /\ Alive(history, o.uid, lastRV')
                           /\ o.rv <= list.rv
  <2>1. \A o \in list.pods : Alive(history, o.uid, list.rv) /\ o.rv \in 1..list.rv
    BY <1>1, ListedFacts
  <2>. QED
    BY <1>2, <2>1, AliveBefore
<1>4. ASSUME ~blind, ~gap, NEW u \in DOMAIN view'
      PROVE  Alive(history, u, lastRV') \/ view'[u].deleted
  <2>1. CASE \E o \in list.pods : o.uid = u
    BY <1>3, <2>1
  <2>2. CASE u \in DOMAIN view /\ (view'[u] = view[u] \/ view'[u].deleted)
    <3>1. lastRV # NoRV
      <4>1. DOMAIN Empty = {}
        BY DEF Empty
      <4>. QED
        BY <1>1, <1>4, <2>2, <4>1 DEF GhostInv
    <3>. QED
      BY <1>1, <1>4, <2>2, <3>1 DEF GhostInv, NoGhost
  <2>. QED
    BY <1>1, <2>1, <2>2 DEF Relisted
<1>5. ASSUME ~blind, restarts = 0 \/ lastRV' = NoRV
      PROVE  /\ AliveIsCached'
             /\ \A n \in DOMAIN cache' : cache'[n].rv <= lastRV'
  <2>1. lastRV = NoRV /\ view = Empty /\ lastRV' = list.rv
    BY <1>1, <1>5 DEF GhostInv
  <2>2. \A u \in DOMAIN view' : \E o \in list.pods : o.uid = u
    <3>1. DOMAIN Empty = {}
      BY DEF Empty
    <3>. QED
      BY <1>1, <2>1, <3>1 DEF Relisted
  <2>3. \A u \in DOMAIN view' : \E n \in DOMAIN cache' : cache'[n].uid = u
    BY <1>1, <2>2 DEF Relisted
  <2>4. \A n \in DOMAIN cache' : cache'[n].rv <= list.rv
    BY <1>1, <1>3 DEF Relisted
  <2>. QED
    BY <1>1, <2>1, <2>3, <2>4 DEF AliveIsCached
<1>. QED
  BY <1>1, <1>4, <1>5 DEF GhostInv, NoGhost

\* A relist reports what it does not find, unless its name was taken over.
LEMMA ReconcileNoGhost ==
  ASSUME InformerInv, GhostInv, Reconcile
  PROVE  GhostInv'
<1>1. /\ WatchInv /\ Relisted /\ stage = "listed" /\ synced /\ synced' = TRUE
      /\ UNCHANGED <<history, blind, restarts>>
      /\ lastRV = NoRV /\ lastRV' = list.rv
      /\ gap' = (gap \/ TakenOver)
      /\ \A n \in DOMAIN cache \ {o.name : o \in list.pods} : view'[cache[n].uid].deleted
  BY ReconcileRelists DEF InformerInv, SavedOK, Reconcile, SetRV, cluster
<1>2. \A o \in list.pods : Alive(history, o.uid, list.rv) /\ o.rv <= list.rv
  <2>1. \A o \in list.pods : Alive(history, o.uid, list.rv) /\ o.rv \in 1..list.rv
    BY <1>1, ListedFacts
  <2>2. list.rv \in Nat
    BY <1>1 DEF WatchInv, ListOK, PositionOK, WellFormed, Latest
  <2>. QED
    BY <2>1, <2>2
<1>3. ASSUME ~blind, ~gap', NEW u \in DOMAIN view', ~view'[u].deleted
      PROVE  \E o \in list.pods : o.uid = u
  <2>1. SUFFICES ASSUME ~ \E o \in list.pods : o.uid = u
                 PROVE  FALSE
    OBVIOUS
  <2>2. u \in DOMAIN view /\ ~view[u].deleted
    BY <1>1, <1>3, <2>1 DEF Relisted
  <2>3. ~gap /\ ~TakenOver
    BY <1>1, <1>3
  <2>4. PICK n \in DOMAIN cache : cache[n].uid = u
    BY <1>1, <1>3, <2>2, <2>3 DEF GhostInv, AliveIsCached
  <2>5. n \in {o.name : o \in list.pods}
    BY <1>1, <1>3, <2>4
  <2>6. PICK o \in list.pods : o.name = n
    BY <2>5
  <2>7. cache[n].uid = o.uid
    BY <2>3, <2>4, <2>6 DEF TakenOver
  <2>. QED
    BY <2>1, <2>4, <2>7
<1>4. ASSUME ~blind, ~gap'
      PROVE  /\ NoGhost(view, lastRV)'
             /\ AliveIsCached'
  <2>1. NoGhost(view, lastRV)'
    BY <1>1, <1>2, <1>3, <1>4 DEF NoGhost
  <2>2. \A u \in DOMAIN view' :
          view'[u].deleted \/ \E n \in DOMAIN cache' : cache'[n].uid = u
    BY <1>1, <1>3, <1>4 DEF Relisted
  <2>. QED
    BY <1>1, <2>1, <2>2 DEF AliveIsCached
<1>5. \A n \in DOMAIN cache' : cache'[n].rv <= list.rv
  BY <1>1, <1>2 DEF Relisted
<1>. QED
  BY <1>1, <1>4, <1>5 DEF GhostInv

\* An event of the watch.
LEMMA EventNoGhost ==
  ASSUME InformerInv, GhostInv, Event
  PROVE  GhostInv'
<1>0. PICK r \in 1..Latest : \E o : Reaches(r, o)
  BY EventShape DEF InformerInv
<1>1. PICK o : Reaches(r, o)
  BY <1>0
<1>. USE DEF Reaches
<1>2. /\ o.uid = history[r].uid /\ o.name = history[r].name /\ o.rv = r
      /\ WellFormed(history) /\ Latest \in Nat /\ Latest = Len(history) /\ r \in Nat
      /\ lastRV \in Nat /\ lastRV # NoRV /\ lastRV' # NoRV /\ synced'
      /\ UNCHANGED <<blind, gap, restarts>>
  BY <1>1 DEF ObjectOf, InformerInv, SavedOK, WatchInv, PositionOK, WellFormed, Latest,
              Event, bounds, NoRV
<1>3. ASSUME NEW u, u # o.uid, Alive(history, u, lastRV)
      PROVE  Alive(history, u, r)
  BY <1>1, <1>2, <1>3 DEF Alive, OfPod
<1>4. history[r].kind # "Deleted" => Alive(history, o.uid, r)
  BY <1>1, <1>2 DEF Alive, WellFormed
<1>5. /\ \A u \in DOMAIN view' : u # o.uid => u \in DOMAIN view /\ view'[u] = view[u]
      /\ history[r].kind = "Deleted" => view'[o.uid].deleted
  <2>1. Buried(o).deleted
    BY EntryIs
  <2>. QED
    BY <1>1, <2>1 DEF Put
<1>6. ~blind /\ ~gap => NoGhost(view, lastRV)'
  BY <1>1, <1>2, <1>3, <1>4, <1>5 DEF GhostInv, NoGhost
<1>7. ASSUME ~blind, ~gap, restarts = 0
      PROVE  /\ AliveIsCached'
             /\ \A n \in DOMAIN cache' : cache'[n].rv <= r
  <2>1. /\ \A u \in DOMAIN view : view[u].deleted \/ \E n \in DOMAIN cache : cache[n].uid = u
        /\ \A n \in DOMAIN cache : cache[n].rv <= lastRV
        /\ NoGhost(view, lastRV)
    BY <1>1, <1>2, <1>7 DEF GhostInv, AliveIsCached
  <2>2. \A n \in DOMAIN cache : cache[n].rv \in 1..Latest /\ cache[n].rv < r
    <3>1. \A n \in DOMAIN cache : cache[n].rv \in 1..Latest
      BY DEF InformerInv, WatchInv, CacheOK
    <3>. QED
      BY <1>1, <1>2, <2>1, <3>1
  <2>3. ~Known(o)
    BY <1>2, <2>2 DEF Known
  <2>4. ASSUME o.name \in DOMAIN cache
        PROVE  cache[o.name].uid = o.uid
    <3> DEFINE c == cache[o.name]
    <3>1. /\ c.rv \in 1..Latest /\ c = ObjectOf(history, c.rv) /\ OfPod(history, c.rv)
          /\ c.name = o.name /\ c.uid \in DOMAIN view /\ view[c.uid] = Recorded(c)
      BY <2>4 DEF InformerInv, WatchInv, CacheOK
    <3>2. c.rv < r
      BY <2>2, <2>4
    <3>. HIDE DEF c
    <3>3. history[c.rv].uid = c.uid /\ history[c.rv].name = o.name
      BY <3>1 DEF ObjectOf
    <3>4. ~view[c.uid].deleted
      BY <3>1, EntryIs
    <3>5. Alive(history, c.uid, lastRV)
      BY <2>1, <3>1, <3>4 DEF NoGhost
    <3>6. c.uid # o.uid => Alive(history, c.uid, r)
      BY <1>3, <3>5
    <3>7. c.uid # o.uid => history[r].uid = history[c.rv].uid
      <4>1. c.rv \in 1..r /\ r \in c.rv..r /\ r \in 0..Len(history)
        BY <1>2, <3>1, <3>2
      <4>. QED
        BY <1>1, <1>2, <3>1, <3>3, <3>6, <4>1, NameIsTaken
    <3>. QED
      BY <1>2, <3>3, <3>7 DEF c
  <2>5. CASE /\ history[r].kind = "Deleted"
             /\ view' = Put(view, o.uid, Buried(o)) /\ cache' = Without(cache, o.name)
    <3>1. \A n \in DOMAIN cache : n # o.name => n \in DOMAIN cache' /\ cache'[n] = cache[n]
      BY <2>5 DEF Without
    <3>2. \A n \in DOMAIN cache' : n \in DOMAIN cache /\ cache'[n] = cache[n]
      BY <2>5 DEF Without
    <3>3. \A u \in DOMAIN view' :
            view'[u].deleted \/ \E n \in DOMAIN cache' : cache'[n].uid = u
      BY <1>5, <2>1, <2>4, <2>5, <3>1
    <3>4. \A n \in DOMAIN cache' : cache'[n].rv <= r
      BY <1>2, <2>2, <3>2
    <3>. QED
      BY <1>2, <3>3, <3>4 DEF AliveIsCached
  <2>6. CASE view' = Put(view, o.uid, Recorded(o)) /\ cache' = Put(cache, o.name, o)
    <3>1. \A n \in DOMAIN cache : n # o.name => n \in DOMAIN cache' /\ cache'[n] = cache[n]
      BY <2>6 DEF Put
    <3>2. o.name \in DOMAIN cache' /\ cache'[o.name] = o
      BY <2>6 DEF Put
    <3>3. \A n \in DOMAIN cache' : n = o.name \/ (n \in DOMAIN cache /\ cache'[n] = cache[n])
      BY <2>6 DEF Put
    <3>4. \A u \in DOMAIN view' :
            view'[u].deleted \/ \E n \in DOMAIN cache' : cache'[n].uid = u
      BY <1>5, <2>1, <2>4, <3>1, <3>2
    <3>5. \A n \in DOMAIN cache' : cache'[n].rv <= r
      BY <1>2, <2>2, <3>2, <3>3
    <3>. QED
      BY <1>2, <3>4, <3>5 DEF AliveIsCached
  <2>. QED
    BY <1>1, <2>3, <2>5, <2>6
<1>. QED
  BY <1>1, <1>2, <1>6, <1>7 DEF GhostInv

\* A new process: what gap marks is what its position has passed.
LEMMA StartedNoGhost ==
  ASSUME InformerInv, Started
  PROVE  GhostInv'
<1>0. WatchInv'
  BY RestartStep DEF InformerInv
<1>1. /\ synced' = FALSE /\ restarts' # 0 /\ history' = history
      /\ blind' = (blind \/ (lastRV' = NoRV /\ view' # Empty))
      /\ gap' = (gap \/ Ghosts(view', lastRV') # {})
      /\ lastRV' \in 0..Latest
  BY <1>0 DEF Started, InformerInv, SavedOK, WatchInv, PositionOK, Latest
<1>2. ~gap' => NoGhost(view, lastRV)'
  <2>1. \A u : GoneBy(u, lastRV') <=> ~Alive(history, u, lastRV')
    BY <1>1, GoneIs DEF InformerInv, WatchInv
  <2>. QED
    BY <1>1, <2>1 DEF NoGhost, Ghosts
<1>. QED
  BY <1>1, <1>2 DEF GhostInv

\* Every step of the informer.
LEMMA GhostStep ==
  ASSUME InformerInv, GhostInv, [Next]_vars
  PROVE  GhostInv'
<1>1. /\ WatchInv /\ SavedOK /\ WellFormed(history) /\ history \in Seq(Events)
      /\ lastRV \in 0..Latest /\ Latest \in Nat /\ Latest = Len(history)
      /\ restarts \in Nat
  BY DEF InformerInv, WatchInv, SavedOK, PositionOK, WellFormed, Latest
<1>2. CASE ClusterMoves
  <2>1. PICK e : history' = Append(history, e)
    BY <1>2 DEF ClusterMoves
  <2>2. \A u : Alive(history', u, lastRV) <=> Alive(history, u, lastRV)
    <3>1. \A rv \in 0..Len(history) : \A u : Alive(history', u, rv) <=> Alive(history, u, rv)
      BY <1>1, <2>1, Longer, Zenon
    <3>. QED
      BY <1>1, <3>1
  <2>. QED
    BY <1>2, <2>2
       DEF ClusterMoves, GhostInv, NoGhost, AliveIsCached, watcher, records, bounds
<1>3. CASE Compact \/ List \/ Saves \/ SaveState \/ UNCHANGED vars
  <2>1. UNCHANGED <<history, lastRV, synced, cache, view, blind, gap, restarts>>
    BY <1>3 DEF Compact, List, Saves, SaveState, watcher, records, cluster, bounds, vars
  <2>. QED
    BY <2>1 DEF GhostInv, NoGhost, AliveIsCached
<1>4. CASE Reconnects
  <2>1. UNCHANGED <<history, synced, cache, view, gap, restarts>>
    BY <1>4 DEF Reconnects, records
  <2>2. CASE lastRV' = lastRV /\ blind' = blind
    BY <2>1, <2>2 DEF GhostInv, NoGhost, AliveIsCached
  <2>3. CASE synced /\ lastRV' = NoRV /\ blind' = (blind \/ restarts > 0)
    <3>1. ~blind' => ~blind /\ restarts = 0
      <4>1. ~blind' => ~blind /\ ~(restarts > 0)
        BY <2>3, Zenon
      <4>. QED
        BY <1>1, <4>1
    <3>2. NoGhost(view, lastRV)'
      BY <2>3 DEF NoGhost, Alive, NoRV
    <3>. QED
      BY <2>1, <2>3, <3>1, <3>2 DEF GhostInv, AliveIsCached
  <2>. QED
    BY <1>4, <2>2, <2>3 DEF Reconnects
<1>5. CASE Bookmark
  <2>1. /\ stage = "watching" /\ Unsent = {} /\ sent = lastRV /\ lastRV' = Latest
        /\ UNCHANGED <<history, synced, cache, view, blind, gap, restarts>>
        /\ lastRV # NoRV /\ synced
    BY <1>1, <1>5 DEF Bookmark, SetRV, cluster, records, bounds, WatchInv, PositionOK, SavedOK
  <2>2. \A u : Alive(history, u, lastRV) => Alive(history, u, Latest)
    BY <1>1, <2>1 DEF Alive, Unsent
  <2>3. \A n \in DOMAIN cache : cache[n].rv <= Latest
    BY <1>1 DEF WatchInv, CacheOK
  <2>4. NoGhost(view, lastRV) => NoGhost(view, lastRV)'
    BY <2>1, <2>2 DEF NoGhost
  <2>5. AliveIsCached' <=> AliveIsCached
    BY <2>1 DEF AliveIsCached
  <2>6. lastRV' # NoRV
    BY <1>1, <2>1 DEF NoRV
  <2>. QED
    BY <2>1, <2>3, <2>4, <2>5, <2>6 DEF GhostInv
<1>6. PositionOK
  BY <1>1 DEF WatchInv
<1>. QED
  BY <1>1, <1>2, <1>3, <1>4, <1>5, <1>6, Kinds, SeedNoGhost, ReconcileNoGhost, EventNoGhost,
     StartedNoGhost DEF Restarts

\* The first process starts without a position, and without records.
LEMMA GhostInit == Init => GhostInv
<1> SUFFICES ASSUME Init
             PROVE  GhostInv
  OBVIOUS
<1>1. lastRV = NoRV /\ synced = FALSE /\ view = Empty /\ DOMAIN Empty = {}
  BY Zenon DEF Init, Empty
<1>. QED
  BY <1>1 DEF GhostInv, NoGhost
=============================================================================
