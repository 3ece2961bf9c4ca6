--------------------------- MODULE PublisherProofs ---------------------------
(***************************************************************************)
(* Proofs about Publisher, for all lives of all pods, all limits, crashes  *)
(* and troubles of the writes: the shape of what is in progress, that      *)
(* every addition and deletion is exported or given up, that a real        *)
(* addition is never replaced, and that the summary of an application      *)
(* tells how its driver ended, and keeps telling it.                       *)
(***************************************************************************)
EXTENDS Publisher, StateStoreProofs

-----------------------------------------------------------------------------
(* Typing.                                                                 *)

Types == {"ADDED", "MODIFIED", "DELETED"}
Events == [type : Types, uid : Uids, rv : Nat, initial : BOOLEAN]

\* The API server: nothing beyond the lives, and deleted is what was there.
ClusterOK ==
  /\ last \in [Uids -> Nat] /\ \A u \in Uids : last[u] <= Len(Lives[u])
  /\ gone \subseteq Uids /\ \A u \in gone : last[u] > 0

\* The position of every pod is at most one, its deletion, past its last version.
PositionOK ==
  /\ at \in [Uids -> Nat] /\ \A u \in Uids : at[u] <= last[u] + 1
  /\ known \subseteq Uids

\* The document being written is the one of the event or the summary of the
\* application of the event's pod.
WritesEvent == event.type # "MODIFIED" /\ writing = EventDoc(event)
WritesSummary == writing.id = CompletionId(PodOf(event).app)

EventOK ==
  \/ event = NoEvent /\ writing = NoDoc
  \/ /\ event \in Events
     /\ event.rv >= 1 /\ event.rv <= last[event.uid]
     /\ writing = NoDoc \/ WritesEvent \/ WritesSummary

\* What was written, and may still be, keeps its id.
ExportOK ==
  /\ attempt \in Nat /\ attempt < WriteAttempts /\ (writing = NoDoc => attempt = 0)
  /\ \A id \in DOMAIN index : index[id].id = id
  /\ \A doc \in late : doc.id \in unsure

PubInv == TypeOK /\ ClusterOK /\ PositionOK /\ EventOK /\ ExportOK

\* An event is not the absence of one.
LEMMA SomeEvent ==
  /\ \A e \in Events : e # NoEvent
  /\ \A e : EventDoc(e) # NoDoc
  /\ \A a : CompletionDoc(a) # NoDoc
  /\ \A e \in Events : \A a : EventId(e) # CompletionId(a)
<1>1. \A e \in Events : e # NoEvent
  BY DEF Events, Types, NoEvent
<1>2. \A e : EventDoc(e) # NoDoc
  BY DEF EventDoc, NoDoc
<1>3. \A a : CompletionDoc(a) # NoDoc
  BY DEF CompletionDoc, NoDoc
<1>4. ASSUME NEW e \in Events, NEW a
      PROVE  EventId(e) # CompletionId(a)
  <2>1. EventId(e).type \in Types
    BY DEF EventId, Events
  <2>2. CompletionId(a).type = "APPLICATION_COMPLETED"
    BY DEF CompletionId
  <2>. QED
    BY <2>1, <2>2 DEF Types
<1>. QED
  BY <1>1, <1>2, <1>3, <1>4

\* The version of a pod's life that an event carries is a pod with labels.
LEMMA LifeType ==
  ASSUME ClusterOK, NEW u \in Uids, NEW v \in Nat, v >= 1, v <= last[u]
  PROVE  /\ Lives[u][v] \in Pods /\ Lives[u][v].uid = u
         /\ Lives[u][v].app # NoApp /\ Lives[u][v].role # NoRole
<1>1. Lives[u] \in Seq(Pods) /\ Len(Lives[u]) \in Nat
  BY LivesAssumption
<1>2. v \in 1..Len(Lives[u])
  BY <1>1 DEF ClusterOK
<1>. QED
  BY <1>1, <1>2, LivesAssumption

\* A callback starts with an event that its pod has seen.
LEMMA CallbackStarts ==
  ASSUME PubInv, NEW u \in Uids, NEW type \in Types, NEW rv \in Nat, NEW initial \in BOOLEAN,
         rv >= 1, rv <= last[u], Callback(u, type, rv, initial), known' \subseteq Uids
  PROVE  PubInv'
<1> DEFINE e == [type |-> type, uid |-> u, rv |-> rv, initial |-> initial]
<1>1. PodOf(e) \in PodObject
  BY LifeType, PodsAssumption DEF PubInv, PodOf
<1>2. TypeOK'
  <2>1. (type = "DELETED") \in BOOLEAN
    OBVIOUS
  <2>2. Upsert(PodOf(e), type = "DELETED", initial)
    BY DEF Callback
  <2>. QED
    BY <1>1, <2>1, <2>2, UpsertType DEF PubInv
<1>3. UNCHANGED <<clusterVars, at, exportVars, restarts>>
  BY DEF Callback
<1>4. ClusterOK' /\ PositionOK'
  BY <1>3 DEF PubInv, ClusterOK, PositionOK, clusterVars
<1>5. EventOK'
  <2>1. event' = e /\ e \in Events /\ e.uid = u /\ e.rv = rv /\ e.type = type
    BY DEF Callback, Events
  <2>2. writing' = IF type = "MODIFIED" THEN NoDoc ELSE EventDoc(e)
    BY DEF Callback
  <2>. HIDE DEF e
  <2>3. writing' = NoDoc \/ WritesEvent'
    BY <2>1, <2>2 DEF WritesEvent, EventDoc, EventId
  <2>. QED
    BY <1>3, <2>1, <2>3 DEF EventOK, clusterVars
<1>6. ExportOK'
  <2>1. attempt = 0
    BY SomeEvent DEF PubInv, ExportOK, EventOK, Callback, Idle
  <2>. QED
    BY <1>3, <2>1 DEF PubInv, ExportOK, exportVars
<1>. QED
  BY <1>2, <1>4, <1>5, <1>6 DEF PubInv

\* A callback that returns moves the position of its pod.
LEMMA Returns ==
  ASSUME PubInv, ~Idle, Return, UNCHANGED <<clusterVars, known>>
  PROVE  PositionOK' /\ EventOK'
<1>1. event \in Events /\ event.rv >= 1 /\ event.rv <= last[event.uid]
  BY DEF PubInv, EventOK, Idle
<1> DEFINE n == IF event.type = "DELETED" THEN event.rv + 1 ELSE event.rv
<1>2. event.uid \in Uids /\ n \in Nat /\ n <= last[event.uid] + 1
  BY <1>1 DEF Events, PubInv, ClusterOK
<1>3. at' = [at EXCEPT ![event.uid] = n]
  BY DEF Return
<1>. HIDE DEF n
<1>. QED
  BY <1>2, <1>3 DEF Return, PubInv, PositionOK, EventOK, clusterVars

\* The API server stays within the lives.
LEMMA ClusterStep == ClusterOK /\ PositionOK /\ Cluster => ClusterOK' /\ PositionOK'
<1> SUFFICES ASSUME ClusterOK, PositionOK, Cluster
             PROVE  ClusterOK' /\ PositionOK'
  OBVIOUS
<1>1. PICK u \in Uids \ gone :
        \/ /\ last[u] < Len(Lives[u])
           /\ last' = [last EXCEPT ![u] = @ + 1]
           /\ UNCHANGED gone
        \/ /\ last[u] > 0
           /\ gone' = gone \cup {u}
           /\ UNCHANGED last
  BY DEF Cluster
<1>2. \A w \in Uids : Len(Lives[w]) \in Nat
  BY LivesAssumption
<1>3. UNCHANGED watchVars
  BY DEF Cluster
<1>4. CASE /\ last[u] < Len(Lives[u])
           /\ last' = [last EXCEPT ![u] = @ + 1]
           /\ UNCHANGED gone
  BY <1>2, <1>3, <1>4 DEF ClusterOK, PositionOK, watchVars
<1>5. CASE last[u] > 0 /\ gone' = gone \cup {u} /\ UNCHANGED last
  BY <1>3, <1>5 DEF ClusterOK, PositionOK, watchVars
<1>. QED
  BY <1>1, <1>4, <1>5

\* The end of a document's writing ends the callback or leaves nothing in progress.
LEMMA WritingEnds ==
  ASSUME PubInv, writing # NoDoc, WriteEnds, UNCHANGED <<clusterVars, known>>
  PROVE  PositionOK' /\ EventOK' /\ attempt' = 0
<1>1. ~Idle
  BY SomeEvent DEF PubInv, EventOK, Idle
<1>2. CASE Return
  BY <1>1, <1>2, Returns DEF WriteEnds
<1>3. CASE writing' = NoDoc /\ UNCHANGED <<event, at>>
  BY <1>1, <1>3 DEF WriteEnds, PubInv, PositionOK, EventOK, Idle, clusterVars
<1>. QED
  BY <1>2, <1>3 DEF WriteEnds

\* An attempt leaves the document in the index, gives it up, or leaves it to the
\* next attempt.
LEMMA AttemptEnds ==
  ASSUME PubInv, Attempt
  PROVE  /\ writing # NoDoc
         /\ \/ WriteEnds /\ writing.id \in DOMAIN index' \cup lost'
            \/ /\ UNCHANGED <<lost, event, at, writing>>
               /\ attempt' = attempt + 1 /\ attempt' < WriteAttempts
         /\ DOMAIN index \cup lost \subseteq DOMAIN index' \cup lost'
         /\ index' \in {index, Put(index, writing.id, writing)}
         /\ late' \in {late, late \cup {writing}}
         /\ unsure \subseteq unsure' /\ (late' # late => writing.id \in unsure')
         /\ UNCHANGED <<vars, clusterVars, known, restarts>>
<1>1. writing # NoDoc /\ UNCHANGED <<vars, clusterVars, known, restarts>>
  BY DEF Attempt
<1>2. CASE Accept
  BY <1>1, <1>2 DEF Accept, Put
<1>3. CASE Reject
  BY <1>1, <1>3 DEF Reject, GiveUp
<1>4. ASSUME Retry
      PROVE  /\ \/ WriteEnds /\ writing.id \in lost'
                \/ /\ UNCHANGED <<lost, event, at, writing>>
                   /\ attempt' = attempt + 1 /\ attempt' < WriteAttempts
             /\ lost \subseteq lost'
  BY <1>4 DEF Retry, GiveUp, PubInv, ExportOK, WriteAttempts
<1>5. CASE Fail
  BY <1>1, <1>4, <1>5 DEF Fail
<1>6. CASE TimeOut
  BY <1>1, <1>4, <1>6 DEF TimeOut
<1>. QED
  BY <1>2, <1>3, <1>5, <1>6 DEF Attempt

\* An attempt keeps the shape of what is in progress, however it ends.
LEMMA AttemptStep == PubInv /\ Attempt => PubInv'
<1> SUFFICES ASSUME PubInv, Attempt
             PROVE  PubInv'
  OBVIOUS
<1>1. writing # NoDoc /\ UNCHANGED <<vars, clusterVars, known, restarts>>
  BY AttemptEnds
<1>2. TypeOK' /\ ClusterOK'
  BY <1>1 DEF PubInv, TypeOK, ClusterOK, vars, clusterVars
<1>3. PositionOK' /\ EventOK' /\ attempt' \in Nat /\ attempt' < WriteAttempts
      /\ (writing' = NoDoc => attempt' = 0)
  <2>1. CASE WriteEnds
    BY <1>1, <2>1, WritingEnds DEF WriteAttempts
  <2>2. CASE /\ UNCHANGED <<lost, event, at, writing>>
             /\ attempt' = attempt + 1 /\ attempt' < WriteAttempts
    <3>1. PositionOK'
      BY <1>1, <2>2 DEF PubInv, PositionOK, clusterVars
    <3>2. EventOK'
      BY <1>1, <2>2 DEF PubInv, EventOK, WritesEvent, WritesSummary, clusterVars
    <3>. QED
      BY <1>1, <2>2, <3>1, <3>2 DEF PubInv, ExportOK
  <2>. QED
    BY <2>1, <2>2, AttemptEnds
<1>4. \A id \in DOMAIN index' : index'[id].id = id
  BY AttemptEnds DEF PubInv, ExportOK, Put
<1>5. \A doc \in late' : doc.id \in unsure'
  BY AttemptEnds DEF PubInv, ExportOK
<1>. QED
  BY <1>2, <1>3, <1>4, <1>5 DEF PubInv, ExportOK

\* A new process starts from a position that was reached.
LEMMA DieStep == PubInv /\ Die => PubInv'
<1> SUFFICES ASSUME PubInv, Die
             PROVE  PubInv'
  OBVIOUS
<1>1. TypeOK'
  BY RestartType DEF PubInv, Die
<1>2. ClusterOK'
  BY DEF PubInv, ClusterOK, Die, clusterVars
<1>3. PositionOK'
  <2>1. at' \in [Uids -> UNION {Resumable(u) : u \in Uids}]
        /\ \A u \in Uids : at'[u] \in Resumable(u)
    BY DEF Die
  <2>2. at' = [u \in Uids |-> at'[u]]
    BY <2>1
  <2>3. \A u \in Uids : at'[u] \in Nat /\ at'[u] <= at[u]
    BY <2>1 DEF PubInv, PositionOK, Resumable
  <2>4. last' = last /\ known' = {}
    BY DEF Die, clusterVars
  <2>. QED
    BY <2>2, <2>3, <2>4 DEF PubInv, PositionOK, ClusterOK
<1>4. EventOK'
  BY DEF EventOK, Die
<1>5. ExportOK'
  BY DEF PubInv, ExportOK, Die, WriteAttempts
<1>. QED
  BY <1>1, <1>2, <1>3, <1>4, <1>5 DEF PubInv

\* So does every other step.
LEMMA PubStep == PubInv /\ [PubNext]_pubVars => PubInv'
<1> SUFFICES ASSUME PubInv, [PubNext]_pubVars
             PROVE  PubInv'
  OBVIOUS
<1>1. CASE Cluster
  <2>1. UNCHANGED <<vars, watchVars, writing, exportVars, restarts>>
    BY <1>1 DEF Cluster
  <2>2. ClusterOK' /\ PositionOK'
    BY <1>1, ClusterStep DEF PubInv
  <2>3. \A u \in Uids : last[u] <= last'[u]
    BY <1>1, <2>2 DEF Cluster, PubInv, ClusterOK
  <2>4. EventOK'
    <3>1. CASE event = NoEvent /\ writing = NoDoc
      BY <2>1, <3>1 DEF EventOK, watchVars
    <3>2. CASE event # NoEvent
      <4>1. event \in Events /\ event.rv <= last[event.uid] /\ event.uid \in Uids
            /\ event.rv \in Nat
        BY <3>2 DEF PubInv, EventOK, Events
      <4>2. event.rv <= last'[event.uid]
        BY <2>2, <2>3, <4>1 DEF PubInv, ClusterOK
      <4>. QED
        BY <2>1, <3>2, <4>2 DEF PubInv, EventOK, WritesEvent, WritesSummary, watchVars
    <3>. QED
      BY <3>1, <3>2, SomeEvent DEF PubInv, EventOK
  <2>5. TypeOK' /\ ExportOK'
    BY <2>1 DEF PubInv, TypeOK, ExportOK, vars, exportVars
  <2>. QED
    BY <2>2, <2>4, <2>5 DEF PubInv
<1>2. ASSUME NEW u \in Uids, OnAddInitial(u) \/ OnAdd(u) \/ OnUpdate(u) \/ OnDelete(u)
      PROVE  PubInv'
  <2>1. last[u] \in Nat /\ at[u] \in Nat /\ known \subseteq Uids
    BY DEF PubInv, ClusterOK, PositionOK
  <2>2. CASE OnAddInitial(u)
    <3>1. Callback(u, "ADDED", last[u], TRUE)
      BY <2>2, Zenon DEF OnAddInitial
    <3>2. last[u] \in Nat /\ last[u] >= 1 /\ last[u] <= last[u] /\ known' \subseteq Uids
      BY <2>1, <2>2 DEF OnAddInitial, Present
    <3>3. "ADDED" \in Types /\ TRUE \in BOOLEAN
      BY DEF Types
    <3>. QED
      BY <3>1, <3>2, <3>3, CallbackStarts, Zenon
  <2>3. CASE OnAdd(u)
    <3>1. Callback(u, "ADDED", at[u] + 1, FALSE)
      BY <2>3, Zenon DEF OnAdd
    <3>2. at[u] + 1 \in Nat /\ at[u] + 1 >= 1 /\ at[u] + 1 <= last[u] /\ known' \subseteq Uids
      BY <2>1, <2>3 DEF OnAdd
    <3>3. "ADDED" \in Types /\ FALSE \in BOOLEAN
      BY DEF Types
    <3>. QED
      BY <3>1, <3>2, <3>3, CallbackStarts, Zenon
  <2>4. CASE OnUpdate(u)
    <3>1. Callback(u, "MODIFIED", at[u] + 1, FALSE)
      BY <2>4, Zenon DEF OnUpdate
    <3>2. at[u] + 1 \in Nat /\ at[u] + 1 >= 1 /\ at[u] + 1 <= last[u] /\ known' \subseteq Uids
      BY <2>1, <2>4 DEF OnUpdate
    <3>3. "MODIFIED" \in Types /\ FALSE \in BOOLEAN
      BY DEF Types
    <3>. QED
      BY <3>1, <3>2, <3>3, CallbackStarts, Zenon
  <2>5. CASE OnDelete(u)
    <3>1. Callback(u, "DELETED", last[u], FALSE)
      BY <2>5, Zenon DEF OnDelete
    <3>2. last[u] \in Nat /\ last[u] >= 1 /\ last[u] <= last[u] /\ known' \subseteq Uids
      BY <2>1, <2>5 DEF OnDelete, PubInv, ClusterOK
    <3>3. "DELETED" \in Types /\ FALSE \in BOOLEAN
      BY DEF Types
    <3>. QED
      BY <3>1, <3>2, <3>3, CallbackStarts, Zenon
  <2>. QED
    BY <1>2, <2>2, <2>3, <2>4, <2>5
<1>3. CASE PublishApplication
  <2>1. UNCHANGED <<vars, clusterVars, known, exportVars, restarts>> /\ ~Idle /\ writing = NoDoc
    BY <1>3 DEF PublishApplication
  <2>2. TypeOK' /\ ClusterOK'
    BY <2>1 DEF PubInv, TypeOK, ClusterOK, vars, clusterVars
  <2>3. ExportOK'
    BY <2>1 DEF PubInv, ExportOK, exportVars
  <2>4. CASE Return
    BY <2>1, <2>2, <2>3, <2>4, Returns DEF PubInv
  <2>5. CASE writing' = CompletionDoc(PodOf(event).app) /\ UNCHANGED <<event, at>>
    <3>1. PositionOK'
      BY <2>1, <2>5 DEF PubInv, PositionOK, clusterVars
    <3>2. writing'.id = CompletionId(PodOf(event).app)
      BY <2>5 DEF CompletionDoc
    <3>3. EventOK'
      BY <2>1, <2>5, <3>2 DEF PubInv, EventOK, WritesSummary, PodOf, Idle, clusterVars
    <3>. QED
      BY <2>2, <2>3, <3>1, <3>3 DEF PubInv
  <2>. QED
    BY <1>3, <2>4, <2>5 DEF PublishApplication
<1>4. CASE Attempt
  BY <1>4, AttemptStep
<1>5. CASE Arrive
  <2>1. UNCHANGED <<vars, clusterVars, watchVars, writing, attempt, unsure, lost, restarts>>
    BY <1>5 DEF Arrive
  <2>2. TypeOK' /\ ClusterOK' /\ PositionOK' /\ EventOK'
    BY <2>1 DEF PubInv, TypeOK, ClusterOK, PositionOK, EventOK, WritesEvent, WritesSummary,
                vars, clusterVars, watchVars
  <2>3. ExportOK'
    BY <1>5, <2>1 DEF PubInv, ExportOK, Arrive, Put
  <2>. QED
    BY <2>2, <2>3 DEF PubInv
<1>6. CASE Start \/ Flush
  <2>1. UNCHANGED <<clusterVars, watchVars, writing, exportVars, restarts>>
    BY <1>6 DEF Start, Flush
  <2>2. TypeOK'
    BY <1>6, TypeStep DEF PubInv, Start, Flush, Next, Operate
  <2>3. ClusterOK' /\ PositionOK' /\ EventOK' /\ ExportOK'
    BY <2>1 DEF PubInv, ClusterOK, PositionOK, EventOK, WritesEvent, WritesSummary, ExportOK,
                clusterVars, watchVars, exportVars
  <2>. QED
    BY <2>2, <2>3 DEF PubInv
<1>7. CASE Die
  BY <1>7, DieStep
<1>8. CASE UNCHANGED pubVars
  <2>1. UNCHANGED <<vars, clusterVars, watchVars, writing, exportVars>>
    BY <1>8 DEF pubVars
  <2>2. TypeOK' /\ ClusterOK' /\ PositionOK'
    BY <2>1 DEF PubInv, TypeOK, ClusterOK, PositionOK, vars, clusterVars, watchVars
  <2>3. EventOK' /\ ExportOK'
    BY <2>1 DEF PubInv, EventOK, WritesEvent, WritesSummary, ExportOK,
                clusterVars, watchVars, exportVars
  <2>. QED
    BY <2>2, <2>3 DEF PubInv
<1>. QED
  BY <1>1, <1>2, <1>3, <1>4, <1>5, <1>6, <1>7, <1>8 DEF PubNext, Publish

\* The strengthened typing holds throughout.
LEMMA PubInvariant == PubSpec => []PubInv
<1>1. PubInit => PubInv
  <2>1. PubInit => TypeOK
    BY TypeInit DEF PubInit
  <2>2. PubInit => ClusterOK /\ PositionOK
    BY LivesAssumption DEF PubInit, ClusterOK, PositionOK
  <2>3. PubInit => EventOK /\ ExportOK
    BY DEF PubInit, EventOK, ExportOK, Empty, WriteAttempts
  <2>. QED
    BY <2>1, <2>2, <2>3 DEF PubInv
<1>. QED
  BY <1>1, PubStep, PTL DEF PubSpec

\* Every callback in progress has an event, every document an id of its own, and a
\* request that may still be applied is known to be unsure.
THEOREM PubTypeCorrect == PubSpec => []PubTypeOK
<1>1. PubInv => PubTypeOK
  <2> SUFFICES ASSUME PubInv
               PROVE  PubTypeOK
    OBVIOUS
  <2>1. \A u \in Uids : last[u] \in 0..Len(Lives[u]) /\ at[u] \in 0..last[u] + 1
    <3>1. \A u \in Uids : Len(Lives[u]) \in Nat
      BY LivesAssumption
    <3>. QED
      BY <3>1 DEF PubInv, ClusterOK, PositionOK
  <2>2. Idle => writing = NoDoc
    BY SomeEvent DEF PubInv, EventOK, Idle
  <2>3. attempt \in 0..WriteAttempts - 1
    BY DEF PubInv, ExportOK, WriteAttempts
  <2>. QED
    BY <2>1, <2>2, <2>3 DEF PubInv, PubTypeOK, ClusterOK, PositionOK, ExportOK
<1>. QED
  BY <1>1, PubInvariant, PTL

-----------------------------------------------------------------------------
(* Every addition and deletion is exported.                                *)

\* The documents that are in Elasticsearch or were given up.
Settled == DOMAIN index \cup lost

Has(ids, type, u) == \E id \in ids : id.type = type /\ id.uid = u

\* A callback has nothing to write but its event's document ...
Unwritten == event # NoEvent /\ event.type # "MODIFIED" /\ writing # EventDoc(event)

\* ... and what is not an addition comes after one.
ReportInv ==
  /\ \A u \in Uids : at[u] > 0 => Has(Settled, "ADDED", u)
  /\ \A u \in Uids : at[u] > last[u] => Has(Settled, "DELETED", u)
  /\ \A u \in known : Has(Settled, "ADDED", u) \/ (event.type = "ADDED" /\ event.uid = u)
  /\ Unwritten => Has(Settled, event.type, event.uid)
  /\ event # NoEvent /\ event.type # "ADDED" => Has(Settled, "ADDED", event.uid)

\* More documents have what fewer had.
LEMMA HasMore ==
  ASSUME NEW ids, NEW more, ids \subseteq more
  PROVE  \A type, u : Has(ids, type, u) => Has(more, type, u)
BY DEF Has

\* When nothing but the documents changes and none is taken back, nothing is missed.
LEMMA ReportStays ==
  ASSUME ReportInv, Settled \subseteq Settled', UNCHANGED <<clusterVars, watchVars>>,
         Unwritten' => Unwritten \/ Has(Settled', event.type, event.uid)
  PROVE  ReportInv'
<1>1. \A type, u : Has(Settled, type, u) => Has(Settled', type, u)
  BY HasMore
<1>. QED
  BY <1>1 DEF ReportInv, clusterVars, watchVars

\* A callback that starts leaves every position where it is; only the pod of an
\* addition is known before its document is written.
LEMMA CallbackReports ==
  ASSUME PubInv, ReportInv, NEW u \in Uids, NEW type \in Types, NEW rv \in Nat,
         NEW initial \in BOOLEAN, Callback(u, type, rv, initial),
         type = "ADDED" => known' = known \cup {u},
         type # "ADDED" => known' \subseteq known /\ Has(Settled, "ADDED", u)
  PROVE  ReportInv'
<1> DEFINE e == [type |-> type, uid |-> u, rv |-> rv, initial |-> initial]
<1>1. /\ event' = e /\ e.type = type /\ e.uid = u
      /\ writing' = IF type = "MODIFIED" THEN NoDoc ELSE EventDoc(e)
      /\ event = NoEvent
      /\ UNCHANGED <<clusterVars, at, exportVars>>
  BY DEF Callback, Idle
<1>. HIDE DEF e
<1>2. Settled' = Settled
  BY <1>1 DEF Settled, exportVars
<1>3. \A k \in known : Has(Settled, "ADDED", k)
  BY <1>1 DEF ReportInv, NoEvent
<1>4. ~Unwritten'
  BY <1>1 DEF Unwritten, EventDoc, EventId
<1>5. \A k \in known' : Has(Settled, "ADDED", k) \/ (type = "ADDED" /\ k = u)
  BY <1>3
<1>. QED
  BY <1>1, <1>2, <1>4, <1>5 DEF ReportInv, clusterVars

\* A callback that returns has its event's document out of the way: the position it
\* moves is covered.
LEMMA ReturnReports ==
  ASSUME PubInv, ReportInv, ~Idle, Return, ~WritesEvent, Settled \subseteq Settled',
         UNCHANGED <<clusterVars, known>>
  PROVE  ReportInv'
<1>1. event \in Events /\ event.uid \in Uids /\ event.rv <= last[event.uid]
      /\ event.rv \in Nat /\ event.type \in Types /\ event # NoEvent
  BY DEF PubInv, EventOK, Idle, Events
<1>2. \A type, u : Has(Settled, type, u) => Has(Settled', type, u)
  BY HasMore
<1>3. event.type # "MODIFIED" => Has(Settled, event.type, event.uid)
  BY <1>1 DEF ReportInv, Unwritten, WritesEvent
<1>4. Has(Settled, "ADDED", event.uid)
  BY <1>1, <1>3 DEF ReportInv, Types
<1>5. event.type = "DELETED" => Has(Settled, "DELETED", event.uid)
  BY <1>3
<1>6. \A u \in Uids : at'[u] = IF u = event.uid
                               THEN IF event.type = "DELETED" THEN event.rv + 1 ELSE event.rv
                               ELSE at[u]
  BY DEF Return, PubInv, PositionOK
<1>7. event' = NoEvent /\ last' = last /\ known' = known
  BY DEF Return, clusterVars
<1>8. \A u \in known : Has(Settled, "ADDED", u)
  BY <1>4 DEF ReportInv
<1>9. \A u \in Uids : at'[u] > last'[u] => Has(Settled, "DELETED", u)
  <2>1. last[event.uid] \in Nat
    BY <1>1 DEF PubInv, ClusterOK
  <2>. QED
    BY <1>1, <1>5, <1>6, <1>7, <2>1 DEF ReportInv
<1>10. \A u \in Uids : at'[u] > 0 => Has(Settled, "ADDED", u)
  BY <1>4, <1>6 DEF ReportInv
<1>. QED
  BY <1>2, <1>7, <1>8, <1>9, <1>10 DEF ReportInv, Unwritten

\* Every step keeps what the positions have passed exported.
LEMMA ReportStep == PubInv /\ ReportInv /\ [PubNext]_pubVars => ReportInv'
<1> SUFFICES ASSUME PubInv, ReportInv, [PubNext]_pubVars
             PROVE  ReportInv'
  OBVIOUS
<1>1. CASE Cluster
  <2>1. Settled' = Settled /\ UNCHANGED <<watchVars, writing>>
    BY <1>1 DEF Cluster, Settled, exportVars
  <2>2. \A u \in Uids : last[u] \in Nat /\ last'[u] \in Nat /\ last[u] <= last'[u]
                        /\ at[u] \in Nat
    BY <1>1 DEF Cluster, PubInv, ClusterOK, PositionOK
  <2>3. \A u \in Uids : at'[u] > last'[u] => at[u] > last[u]
    BY <2>1, <2>2 DEF watchVars
  <2>. QED
    BY <2>1, <2>3 DEF ReportInv, Unwritten, watchVars
<1>2. ASSUME NEW u \in Uids, OnAddInitial(u) \/ OnAdd(u) \/ OnUpdate(u) \/ OnDelete(u)
      PROVE  ReportInv'
  <2>1. last[u] \in Nat /\ at[u] \in Nat
    BY DEF PubInv, ClusterOK, PositionOK
  <2>2. "ADDED" \in Types /\ "MODIFIED" \in Types /\ "DELETED" \in Types
        /\ TRUE \in BOOLEAN /\ FALSE \in BOOLEAN
    BY DEF Types
  <2>3. ASSUME NEW rv \in Nat, NEW initial \in BOOLEAN, Callback(u, "ADDED", rv, initial),
               known' = known \cup {u}
        PROVE  ReportInv'
    BY <2>2, <2>3, CallbackReports
  <2>4. ASSUME NEW type \in Types, type # "ADDED", NEW rv \in Nat, NEW initial \in BOOLEAN,
               Callback(u, type, rv, initial), known' \subseteq known, u \in known \/ at[u] > 0
        PROVE  ReportInv'
    <3>1. Has(Settled, "ADDED", u)
      <4>1. event = NoEvent
        BY <2>4 DEF Callback, Idle
      <4>. QED
        BY <2>4, <4>1 DEF ReportInv, NoEvent
    <3>. QED
      BY <2>4, <3>1, CallbackReports
  <2>5. CASE OnAddInitial(u)
    <3>1. Callback(u, "ADDED", last[u], TRUE) /\ known' = known \cup {u}
      BY <2>5, Zenon DEF OnAddInitial
    <3>. QED
      BY <2>1, <2>2, <2>3, <3>1, Zenon
  <2>6. CASE OnAdd(u)
    <3>1. Callback(u, "ADDED", at[u] + 1, FALSE) /\ known' = known \cup {u}
      BY <2>6, Zenon DEF OnAdd
    <3>2. at[u] + 1 \in Nat
      BY <2>1
    <3>. QED
      BY <2>2, <2>3, <3>1, <3>2, Zenon
  <2>7. CASE OnUpdate(u)
    <3>1. Callback(u, "MODIFIED", at[u] + 1, FALSE)
      BY <2>7, Zenon DEF OnUpdate
    <3>2. at[u] + 1 \in Nat /\ u \in known /\ known' \subseteq known
          /\ "MODIFIED" # "ADDED"
      BY <2>1, <2>7 DEF OnUpdate
    <3>. QED
      BY <2>2, <2>4, <3>1, <3>2, Zenon
  <2>8. CASE OnDelete(u)
    <3>1. Callback(u, "DELETED", last[u], FALSE)
      BY <2>8, Zenon DEF OnDelete
    <3>2. at[u] > 0 /\ known' \subseteq known /\ "DELETED" # "ADDED"
      BY <2>1, <2>8 DEF OnDelete, PubInv, ClusterOK
    <3>. QED
      BY <2>1, <2>2, <2>4, <3>1, <3>2, Zenon
  <2>. QED
    BY <1>2, <2>5, <2>6, <2>7, <2>8
<1>3. CASE PublishApplication
  <2>1. UNCHANGED <<clusterVars, known>> /\ Settled' = Settled /\ ~Idle /\ writing = NoDoc
    BY <1>3 DEF PublishApplication, Settled, exportVars
  <2>2. ~WritesEvent
    BY <2>1, SomeEvent DEF WritesEvent
  <2>3. CASE Return
    BY <2>1, <2>2, <2>3, ReturnReports
  <2>4. CASE writing' = CompletionDoc(PodOf(event).app) /\ UNCHANGED <<event, at>>
    <3>1. event # NoEvent /\ writing # EventDoc(event)
      BY <2>1, SomeEvent DEF Idle
    <3>2. Unwritten' => Unwritten
      BY <2>4, <3>1 DEF Unwritten
    <3>. QED
      BY <2>1, <2>4, <3>2, ReportStays DEF watchVars
  <2>. QED
    BY <1>3, <2>3, <2>4 DEF PublishApplication
<1>4. CASE Attempt
  <2>1. writing # NoDoc /\ Settled \subseteq Settled' /\ UNCHANGED <<clusterVars, known>>
    BY <1>4, AttemptEnds DEF Settled
  <2>2. ~Idle /\ event \in Events
    BY <2>1, SomeEvent DEF PubInv, EventOK, Idle
  <2>3. CASE UNCHANGED <<event, at, writing>>
    <3>1. Unwritten' => Unwritten
      BY <2>3 DEF Unwritten, EventDoc, EventId
    <3>. QED
      BY <2>1, <2>3, <3>1, ReportStays DEF watchVars
  <2>4. CASE WriteEnds /\ writing.id \in Settled'
    <3>1. CASE WritesEvent
      <4>1. writing.id = EventId(event) /\ EventId(event) # CompletionId(PodOf(event).app)
        BY <2>2, <3>1, SomeEvent DEF WritesEvent, EventDoc
      <4>2. UNCHANGED <<event, at>>
        BY <2>4, <4>1 DEF WriteEnds
      <4>3. Has(Settled', event.type, event.uid)
        <5>1. EventId(event).type = event.type /\ EventId(event).uid = event.uid
          BY DEF EventId
        <5>. QED
          BY <2>4, <4>1, <5>1 DEF Has
      <4>. QED
        BY <2>1, <4>2, <4>3, ReportStays DEF watchVars
    <3>2. CASE ~WritesEvent
      <4>1. CASE Return
        BY <2>1, <2>2, <3>2, <4>1, ReturnReports
      <4>2. CASE writing' = NoDoc /\ UNCHANGED <<event, at>>
        <5>1. Unwritten' => Unwritten
          BY <3>2, <4>2 DEF Unwritten, WritesEvent
        <5>. QED
          BY <2>1, <4>2, <5>1, ReportStays DEF watchVars
      <4>. QED
        BY <2>4, <4>1, <4>2 DEF WriteEnds
    <3>. QED
      BY <3>1, <3>2
  <2>. QED
    BY <1>4, <2>3, <2>4, AttemptEnds DEF Settled
<1>5. CASE Arrive
  <2>1. UNCHANGED <<clusterVars, watchVars, writing, lost>> /\ DOMAIN index \subseteq DOMAIN index'
    BY <1>5 DEF Arrive, Put
  <2>2. Settled \subseteq Settled' /\ (Unwritten' => Unwritten)
    BY <2>1 DEF Settled, Unwritten, EventDoc, EventId, watchVars
  <2>. QED
    BY <2>1, <2>2, ReportStays
<1>6. CASE Start \/ Flush \/ UNCHANGED pubVars
  <2>1. UNCHANGED <<clusterVars, watchVars, writing, exportVars>>
    BY <1>6 DEF Start, Flush, pubVars
  <2>2. Settled' = Settled /\ (Unwritten' => Unwritten)
    BY <2>1 DEF Settled, Unwritten, EventDoc, EventId, watchVars, exportVars
  <2>. QED
    BY <2>1, <2>2, ReportStays
<1>7. CASE Die
  <2>1. event' = NoEvent /\ known' = {} /\ last' = last /\ Settled' = Settled
    BY <1>7 DEF Die, Settled, clusterVars
  <2>2. \A u \in Uids : at'[u] \in Nat /\ at[u] \in Nat /\ last[u] \in Nat /\ at'[u] <= at[u]
    BY <1>7 DEF Die, Resumable, PubInv, PositionOK, ClusterOK
  <2>3. \A u \in Uids : /\ at'[u] > 0 => at[u] > 0
                        /\ at'[u] > last'[u] => at[u] > last[u]
    BY <2>1, <2>2
  <2>. QED
    BY <2>1, <2>3 DEF ReportInv, Unwritten
<1>. QED
  BY <1>1, <1>2, <1>3, <1>4, <1>5, <1>6, <1>7 DEF PubNext, Publish

\* Every pod whose addition or deletion is behind the watch has that document, or its
\* write was given up, whatever crash came between.
THEOREM EventsAreExported == PubSpec => []EventsExported
<1>1. PubInit => ReportInv
  BY DEF PubInit, ReportInv, Unwritten
<1>2. ReportInv => EventsExported
  BY DEF ReportInv, EventsExported, Has, Settled
<1>. QED
  BY <1>1, <1>2, ReportStep, PubInvariant, PTL DEF PubSpec

-----------------------------------------------------------------------------
(* A real addition is never replaced.                                      *)

\* A document of an event has the initial flag of its id.
Truthful(doc) == doc.id.type \in Types => doc.initial = doc.id.initial

FlagInv ==
  /\ \A id \in DOMAIN index : index[id].id = id /\ Truthful(index[id])
  /\ \A doc \in late : Truthful(doc)

\* The document being written has the flag of its id.
LEMMA WritesTruth == PubInv /\ writing # NoDoc => Truthful(writing)
<1> SUFFICES ASSUME PubInv, writing # NoDoc
             PROVE  Truthful(writing)
  OBVIOUS
<1>1. CASE WritesEvent
  BY <1>1 DEF WritesEvent, EventDoc, EventId, Truthful
<1>2. CASE WritesSummary
  BY <1>2 DEF WritesSummary, CompletionId, Truthful, Types
<1>. QED
  BY <1>1, <1>2 DEF PubInv, EventOK

\* So have all that were written and all that are late.
LEMMA FlagStep == PubInv /\ FlagInv /\ [PubNext]_pubVars => FlagInv'
<1> SUFFICES ASSUME PubInv, FlagInv, [PubNext]_pubVars
             PROVE  FlagInv'
  OBVIOUS
<1>1. CASE Attempt
  <2>1. Truthful(writing)
    BY <1>1, WritesTruth, AttemptEnds
  <2>2. /\ index' \in {index, Put(index, writing.id, writing)}
        /\ late' \in {late, late \cup {writing}}
    BY <1>1, AttemptEnds
  <2>. QED
    BY <2>1, <2>2 DEF FlagInv, Put
<1>2. CASE Arrive
  BY <1>2 DEF FlagInv, Arrive, Put
<1>3. CASE Die
  <2>1. index' = index /\ late' \in {late, late \cup {writing}}
        /\ (late' # late => writing # NoDoc)
    BY <1>3 DEF Die
  <2>. QED
    BY <2>1, WritesTruth DEF FlagInv
<1>4. CASE \E u \in Uids : OnAddInitial(u) \/ OnAdd(u) \/ OnUpdate(u) \/ OnDelete(u)
  BY <1>4 DEF FlagInv, OnAddInitial, OnAdd, OnUpdate, OnDelete, Callback, exportVars
<1>5. CASE Cluster \/ PublishApplication \/ Start \/ Flush \/ UNCHANGED pubVars
  <2>1. UNCHANGED exportVars
    BY <1>5 DEF Cluster, PublishApplication, Start, Flush, pubVars
  <2>. QED
    BY <2>1 DEF FlagInv, exportVars
<1>. QED
  BY <1>1, <1>2, <1>3, <1>4, <1>5 DEF PubNext, Publish

\* INITIAL adds cannot replace a real ADDED event: what is written under its id is
\* real, and so is what is applied late.
THEOREM RealAddedIsKept == PubSpec => RealAddedKept
<1> DEFINE Kept == \A id \in DOMAIN index :
                     id.type = "ADDED" /\ ~index[id].initial => ~index'[id].initial
<1>1. PubInit => FlagInv
  BY DEF PubInit, FlagInv, Empty
<1>2. FlagInv /\ FlagInv' /\ [PubNext]_pubVars /\ PubInv => [Kept]_pubVars
  <2> SUFFICES ASSUME FlagInv, FlagInv', PubInv, [PubNext]_pubVars,
                      NEW id \in DOMAIN index, id.type = "ADDED", ~index[id].initial
               PROVE  ~index'[id].initial
    OBVIOUS
  <2>1. DOMAIN index \subseteq DOMAIN index'
    <3>1. CASE Attempt
      BY <3>1, AttemptEnds DEF Put
    <3>2. CASE Arrive
      BY <3>2 DEF Arrive, Put
    <3>3. CASE \E u \in Uids : OnAddInitial(u) \/ OnAdd(u) \/ OnUpdate(u) \/ OnDelete(u)
      BY <3>3 DEF OnAddInitial, OnAdd, OnUpdate, OnDelete, Callback, exportVars
    <3>4. CASE Cluster \/ PublishApplication \/ Start \/ Flush \/ Die \/ UNCHANGED pubVars
      BY <3>4 DEF Cluster, PublishApplication, Start, Flush, Die, pubVars, exportVars
    <3>. QED
      BY <3>1, <3>2, <3>3, <3>4 DEF PubNext, Publish
  <2>2. index[id].initial = id.initial /\ index'[id].initial = id.initial
    BY <2>1 DEF FlagInv, Truthful, Types
  <2>. QED
    BY <2>2
<1>. QED
  BY <1>1, <1>2, FlagStep, PubInvariant, PTL DEF PubSpec, RealAddedKept

-----------------------------------------------------------------------------
(* What a summary is about.                                                *)

IsDriver(u) == Lives[u][1].role = "driver"
App(u) == Lives[u][1].app

\* The event whose callback runs is one of u.
In(u) == event # NoEvent /\ event.uid = u

FinishedAt(as, a) == IF a \in DOMAIN as THEN as[a].finishedAt ELSE NoTime

\* An appSparkID labels the driver of one run.
OneDriver ==
  \A u, w \in Uids : IsDriver(u) /\ IsDriver(w) /\ App(u) = App(w) => u = w

\* Kubernetes: a pod that succeeded or failed has done so for good.
PhasesFinal ==
  \A u \in Uids : \A v, w \in 1..Len(Lives[u]) :
    v <= w /\ Terminal(Lives[u][v]) => Lives[u][w].phase = Lives[u][v].phase

\* The limit on applications has room for all of them.
NoEviction == Cardinality(Apps) <= MaxApps

\* All versions of a pod are of one application and one role.
LEMMA LifeLabels ==
  ASSUME ClusterOK, NEW u \in Uids, NEW v \in Nat, v >= 1, v <= last[u]
  PROVE  /\ v \in 1..Len(Lives[u]) /\ last[u] \in 1..Len(Lives[u])
         /\ Lives[u][v].app = App(u) /\ Lives[u][v].role = Lives[u][1].role
         /\ Lives[u][v] \in PodObject /\ App(u) \in Apps
<1>1. Lives[u] \in Seq(Pods) /\ Len(Lives[u]) \in Nat /\ last[u] \in Nat
      /\ last[u] <= Len(Lives[u])
  BY LivesAssumption DEF ClusterOK
<1>2. v \in 1..Len(Lives[u]) /\ last[u] \in 1..Len(Lives[u]) /\ 1 \in 1..Len(Lives[u])
  BY <1>1
<1>3. /\ Lives[u][v] \in Pods /\ Lives[u][v].uid = u
      /\ Lives[u][1] \in Pods /\ Lives[u][1].uid = u /\ Lives[u][1].app # NoApp
  BY <1>1, <1>2, LivesAssumption
<1>4. Lives[u][v].app = Lives[u][1].app /\ Lives[u][v].role = Lives[u][1].role
  BY <1>3, LabelsAssumption
<1>5. Lives[u][1].app \in Apps
  BY <1>3, PodsAssumption DEF PodObject
<1>. QED
  BY <1>2, <1>3, <1>4, <1>5, PodsAssumption DEF App

\* An operation for a driver leaves the application's record and phase as it was
\* observed, unless it evicts the application.
LEMMA UpsertDriver ==
  ASSUME TypeOK, NEW pod \in PodObject, pod.role = "driver", NEW deleted \in BOOLEAN,
         NEW bootstrap \in BOOLEAN, Upsert(pod, deleted, bootstrap), pod.app \in DOMAIN apps'
  PROVE  /\ apps'[pod.app].status = PodStatus(pod, deleted)
         /\ DriverPhase(pod.app)' = pod.phase
<1> DEFINE rs == AppsWith(pod, deleted, bootstrap)
           ps == PodsWith(pod, deleted)
<1>1. PICK victims, kept, gone0 :
        /\ apps' = Without(rs, victims)
        /\ driverByApp' = Without(DriversWith(pod), victims)
        /\ kept = Without(ps, OwnedBy(ps, victims))
        /\ gone0 \in OldestFirst(kept, Reclaimable(kept, apps'), Surplus(kept, MaxPods))
        /\ pods' = Without(kept, gone0)
  BY UpsertSteps
<1>2. pod.app \notin victims
  BY <1>1 DEF Without
<1>3. pod.app \in DOMAIN driverByApp' /\ driverByApp'[pod.app] = pod.uid
  BY <1>1, <1>2 DEF Without, DriversWith, Put
<1>4. /\ pod.uid \in DOMAIN ps /\ ps[pod.uid] = PodAfter(pod, deleted)
  BY DEF PodsWith, Put
<1>5. pod.uid \in DOMAIN kept /\ kept[pod.uid] = PodAfter(pod, deleted)
  BY <1>1, <1>2, <1>4 DEF Without, OwnedBy, PodAfter
<1>6. pod.uid \notin gone0
  <2>1. gone0 \subseteq Reclaimable(kept, apps')
    BY <1>1, EarliestSubset
  <2>. QED
    BY <1>5, <2>1 DEF Reclaimable, PodAfter
<1>7. pod.uid \in DOMAIN pods' /\ pods'[pod.uid].phase = pod.phase
  BY <1>1, <1>5, <1>6 DEF Without, PodAfter
<1>8. apps'[pod.app] = AppAfter(pod, deleted, bootstrap)
  BY <1>1, <1>2 DEF Without, AppsWith, Put
<1>9. AppAfter(pod, deleted, bootstrap).status = PodStatus(pod, deleted)
  <2>1. Before(pod) \in ApplicationRecord
    BY ObservedType DEF Upsert
  <2>. QED
    BY <2>1 DEF AppAfter, Observed, ApplicationRecord
<1>. QED
  BY <1>3, <1>7, <1>8, <1>9 DEF DriverPhase

\* An operation keeps a finish time on record, and only one for a driver that is
\* deleted or has finished sets it.
LEMMA UpsertFinish ==
  ASSUME TypeOK, NEW pod \in PodObject, NEW deleted \in BOOLEAN, NEW bootstrap \in BOOLEAN,
         Upsert(pod, deleted, bootstrap), NEW a \in DOMAIN apps',
         FinishedAt(apps', a) # FinishedAt(apps, a)
  PROVE  /\ FinishedAt(apps, a) = NoTime
         /\ a = pod.app /\ pod.role = "driver" /\ (deleted \/ Terminal(pod))
<1> DEFINE rs == AppsWith(pod, deleted, bootstrap)
<1>1. PICK victims : apps' = Without(rs, victims)
  BY UpsertSteps
<1>2. a \in DOMAIN rs /\ apps'[a] = rs[a]
  BY <1>1 DEF Without
<1>3. a = pod.app
  <2>1. a # pod.app => a \in DOMAIN apps /\ rs[a] = apps[a]
    BY <1>2 DEF AppsWith, Put
  <2>. QED
    BY <1>2, <2>1 DEF FinishedAt
<1>4. rs[a] = AppAfter(pod, deleted, bootstrap)
  BY <1>3 DEF AppsWith, Put
<1>5. Before(pod) \in ApplicationRecord
  BY ObservedType DEF Upsert
<1>6. FinishedAt(apps, a) = Before(pod).finishedAt
  BY <1>3 DEF FinishedAt, Before
<1>7. FinishedAt(apps', a) = Observed(pod, deleted).finishedAt
  <2>1. Observed(pod, deleted) \in ApplicationRecord
    BY ObservedType DEF Upsert
  <2>2. AppAfter(pod, deleted, bootstrap).finishedAt = Observed(pod, deleted).finishedAt
    BY <2>1 DEF AppAfter, ApplicationRecord
  <2>. QED
    BY <1>2, <1>4, <2>2 DEF FinishedAt
<1>8. Observed(pod, deleted).finishedAt # Before(pod).finishedAt =>
        /\ Before(pod).finishedAt = NoTime
        /\ pod.role = "driver" /\ (deleted \/ Terminal(pod))
  BY <1>5 DEF Observed, ApplicationRecord
<1>. QED
  BY <1>3, <1>6, <1>7, <1>8

\* When there is room for all applications none is evicted.
LEMMA NothingEvicted ==
  ASSUME NoEviction, TypeOK, NEW pod \in PodObject, NEW deleted \in BOOLEAN,
         NEW bootstrap \in BOOLEAN, Upsert(pod, deleted, bootstrap)
  PROVE  DOMAIN apps \subseteq DOMAIN apps'
<1> DEFINE rs == AppsWith(pod, deleted, bootstrap)
<1>1. PICK victims \in OldestFirst(rs, DeletedApps(rs), Surplus(rs, MaxApps)) :
        apps' = Without(rs, victims)
  BY UpsertSteps
<1>2. DOMAIN rs \subseteq Apps
  BY ObservedType DEF Upsert, TypeOK, Partial, AppsWith, Put
<1>3. IsFiniteSet(DOMAIN rs) /\ Cardinality(DOMAIN rs) \in Nat /\ Cardinality(Apps) \in Nat
      /\ Cardinality(DOMAIN rs) <= Cardinality(Apps)
  BY <1>2, BoundsAssumption, FS_Subset, FS_CardinalityType
<1>4. Surplus(rs, MaxApps) = 0
  BY <1>3, BoundsAssumption DEF NoEviction, Surplus
<1>5. victims \subseteq DOMAIN rs
  BY <1>1, EarliestSubset DEF DeletedApps
<1>6. Cardinality(victims) = 0
  <2>1. DeletedApps(rs) \subseteq DOMAIN rs
    BY DEF DeletedApps
  <2>2. Cardinality(DeletedApps(rs)) \in Nat
    BY <1>3, <2>1, FS_Subset, FS_CardinalityType
  <2>3. DOMAIN [k \in DeletedApps(rs) |-> rs[k].deletedAt] = DeletedApps(rs)
    OBVIOUS
  <2>. HIDE DEF rs
  <2>. QED
    BY <1>1, <1>4, <2>2, <2>3 DEF OldestFirst, Earliest
<1>7. victims = {}
  BY <1>3, <1>5, <1>6, FS_Subset, FS_EmptySet
<1>. QED
  BY <1>1, <1>7 DEF Without, AppsWith, Put

-----------------------------------------------------------------------------
(* The steps, taken apart.                                                 *)

\* A callback starts in order: with the startup snapshot, with the next version of
\* the pod, or with its deletion.
Calls(u, type, rv, initial) ==
  /\ Callback(u, type, rv, initial)
  /\ rv >= 1 /\ rv <= last[u]
  /\ known' = IF type = "DELETED" THEN known \ {u} ELSE known \cup {u}
  /\ \/ seeding /\ u \notin gone /\ type = "ADDED" /\ initial
     \/ ~seeding /\ type # "DELETED" /\ at[u] < last[u] /\ rv = at[u] + 1 /\ ~initial
     \/ ~seeding /\ type = "DELETED" /\ u \in gone /\ at[u] = last[u] /\ rv = last[u]
          /\ ~initial

\* A callback returns without a summary, or when the attempts at it end.
Back ==
  /\ Return /\ ~Idle /\ UNCHANGED <<vars, clusterVars, known, restarts>>
  /\ \/ writing = NoDoc /\ ~Publishes(PodOf(event)) /\ UNCHANGED exportVars
     \/ writing # NoDoc /\ WritesSummary /\ Attempt

\* The summary is to be written.
Sums ==
  /\ ~Idle /\ writing = NoDoc /\ Publishes(PodOf(event))
  /\ writing' = CompletionDoc(PodOf(event).app)
  /\ UNCHANGED <<vars, clusterVars, watchVars, exportVars, restarts>>

\* An attempt after which the callback goes on.
Tries ==
  /\ Attempt /\ writing' \in {writing, NoDoc}
  /\ UNCHANGED <<vars, clusterVars, watchVars, restarts>>

\* What concerns neither the events nor the documents.
Rests ==
  /\ UNCHANGED <<clusterVars, watchVars, writing, exportVars, restarts>>
  /\ \/ Start
     \/ Save
     \/ UNCHANGED vars

\* The callbacks of the informer are in order.
LEMMA CallsInOrder ==
  ASSUME PubInv, NEW u \in Uids, OnAddInitial(u) \/ OnAdd(u) \/ OnUpdate(u) \/ OnDelete(u)
  PROVE  \E type \in Types, rv \in Nat, initial \in BOOLEAN : Calls(u, type, rv, initial)
<1>1. last[u] \in Nat /\ at[u] \in Nat /\ known \subseteq Uids /\ (u \in gone => last[u] > 0)
  BY DEF PubInv, ClusterOK, PositionOK
<1>2. "ADDED" \in Types /\ "MODIFIED" \in Types /\ "DELETED" \in Types
      /\ TRUE \in BOOLEAN /\ FALSE \in BOOLEAN
  BY DEF Types
<1>3. "ADDED" # "DELETED" /\ "MODIFIED" # "DELETED"
  OBVIOUS
<1>4. CASE OnAddInitial(u)
  <2>1. /\ Callback(u, "ADDED", last[u], TRUE) /\ known' = known \cup {u}
        /\ seeding /\ u \in Present
    BY <1>4, Zenon DEF OnAddInitial
  <2>2. last[u] >= 1 /\ last[u] <= last[u] /\ u \notin gone
    BY <1>1, <2>1 DEF Present
  <2>3. Calls(u, "ADDED", last[u], TRUE)
    BY <1>3, <2>1, <2>2, Zenon DEF Calls
  <2>. QED
    BY <1>1, <1>2, <2>3, Zenon
<1>5. CASE OnAdd(u)
  <2>1. /\ Callback(u, "ADDED", at[u] + 1, FALSE) /\ known' = known \cup {u}
        /\ ~seeding /\ at[u] < last[u]
    BY <1>5, Zenon DEF OnAdd
  <2>2. at[u] + 1 \in Nat /\ at[u] + 1 >= 1 /\ at[u] + 1 <= last[u]
    BY <1>1, <2>1
  <2>3. Calls(u, "ADDED", at[u] + 1, FALSE)
    BY <1>3, <2>1, <2>2, Zenon DEF Calls
  <2>. QED
    BY <1>2, <2>2, <2>3, Zenon
<1>6. CASE OnUpdate(u)
  <2>1. /\ Callback(u, "MODIFIED", at[u] + 1, FALSE) /\ known' = known /\ u \in known
        /\ ~seeding /\ at[u] < last[u]
    BY <1>6, Zenon DEF OnUpdate
  <2>2. at[u] + 1 \in Nat /\ at[u] + 1 >= 1 /\ at[u] + 1 <= last[u]
        /\ known' = known \cup {u}
    BY <1>1, <2>1
  <2>3. Calls(u, "MODIFIED", at[u] + 1, FALSE)
    BY <1>3, <2>1, <2>2, Zenon DEF Calls
  <2>. QED
    BY <1>2, <2>2, <2>3, Zenon
<1>7. CASE OnDelete(u)
  <2>1. /\ Callback(u, "DELETED", last[u], FALSE) /\ known' = known \ {u}
        /\ ~seeding /\ u \in gone /\ at[u] = last[u]
    BY <1>7, Zenon DEF OnDelete
  <2>2. last[u] >= 1 /\ last[u] <= last[u]
    BY <1>1, <2>1
  <2>3. Calls(u, "DELETED", last[u], FALSE)
    BY <1>3, <2>1, <2>2, Zenon DEF Calls
  <2>. QED
    BY <1>1, <1>2, <2>3, Zenon
<1>. QED
  BY <1>4, <1>5, <1>6, <1>7

\* Every step is of one of these kinds.
LEMMA StepKinds ==
  ASSUME PubInv, [PubNext]_pubVars
  PROVE  \/ Cluster \/ Back \/ Sums \/ Tries \/ Arrive \/ Rests \/ Die
         \/ \E u \in Uids, type \in Types, rv \in Nat, initial \in BOOLEAN :
              Calls(u, type, rv, initial)
<1>1. CASE PublishApplication
  <2>1. CASE Publishes(PodOf(event))
    BY <1>1, <2>1 DEF PublishApplication, Sums, watchVars
  <2>2. CASE ~Publishes(PodOf(event))
    BY <1>1, <2>2 DEF PublishApplication, Back
  <2>. QED
    BY <2>1, <2>2
<1>2. CASE Attempt
  <2>1. writing # NoDoc /\ UNCHANGED <<vars, clusterVars, known, restarts>>
    BY <1>2, AttemptEnds
  <2>2. ~Idle
    BY <2>1, SomeEvent DEF PubInv, EventOK, Idle
  <2>3. CASE UNCHANGED <<lost, event, at, writing>>
    BY <1>2, <2>1, <2>3 DEF Tries, watchVars
  <2>4. CASE WriteEnds
    <3>1. CASE WritesSummary
      BY <1>2, <2>1, <2>2, <2>4, <3>1 DEF WriteEnds, WritesSummary, Back
    <3>2. CASE ~WritesSummary
      BY <1>2, <2>1, <2>4, <3>2 DEF WriteEnds, WritesSummary, Tries, watchVars
    <3>. QED
      BY <3>1, <3>2
  <2>. QED
    BY <1>2, <2>3, <2>4, AttemptEnds
<1>3. CASE Start \/ Flush \/ UNCHANGED pubVars
  BY <1>3 DEF Start, Flush, pubVars, Rests
<1>4. CASE \E u \in Uids : OnAddInitial(u) \/ OnAdd(u) \/ OnUpdate(u) \/ OnDelete(u)
  BY <1>4, CallsInOrder
<1>. QED
  BY <1>1, <1>2, <1>3, <1>4 DEF PubNext, Publish

-----------------------------------------------------------------------------
(* Where the watch is.                                                     *)

\* The position of a pod that exists is one of its versions, an event in progress
\* is ahead of it, and once the snapshot is delivered the cache has every pod the
\* watch is past the first version of.
SeenInv ==
  /\ \A u \in Uids \ gone : at[u] <= last[u]
  /\ event # NoEvent =>
       /\ at[event.uid] <= last[event.uid]
       /\ seeding \/ at[event.uid] < last[event.uid] \/ event.uid \in gone
       /\ event.type = "DELETED" => event.uid \in gone /\ event.rv = last[event.uid]
  /\ seeding \/ \A u \in Uids \ gone : u \in known \/ (at[u] = 0 /\ ~In(u))

\* Every step keeps it.
LEMMA SeenStep == PubInv /\ SeenInv /\ [PubNext]_pubVars => SeenInv'
<1> SUFFICES ASSUME PubInv, SeenInv, [PubNext]_pubVars
             PROVE  SeenInv'
  OBVIOUS
<1>1. /\ \A u \in Uids : at[u] \in Nat /\ last[u] \in Nat
      /\ event # NoEvent => /\ event.uid \in Uids /\ event.rv \in Nat
                            /\ event.rv <= last[event.uid]
  BY DEF PubInv, ClusterOK, PositionOK, EventOK, Events
<1>2. CASE Cluster
  <2>1. ~seeding /\ Behind = {} /\ UNCHANGED <<vars, watchVars>>
    BY <1>2 DEF Cluster
  <2>2. event = NoEvent
    BY <1>1, <2>1 DEF SeenInv, Behind
  <2>3. \A u \in Uids : last'[u] \in Nat /\ last[u] <= last'[u]
    BY <1>2 DEF Cluster, PubInv, ClusterOK
  <2>4. gone \subseteq gone'
    BY <1>2 DEF Cluster
  <2>. QED
    BY <1>1, <2>1, <2>2, <2>3, <2>4 DEF SeenInv, In, watchVars, vars
<1>3. ASSUME NEW u \in Uids, NEW type \in Types, NEW rv \in Nat, NEW initial \in BOOLEAN,
             Calls(u, type, rv, initial)
      PROVE  SeenInv'
  <2>1. /\ event = NoEvent /\ event'.uid = u /\ event'.type = type /\ event'.rv = rv
        /\ UNCHANGED <<clusterVars, at>> /\ seeding' = seeding
    BY <1>3 DEF Calls, Callback, Upsert, Idle
  <2>2. /\ at[u] <= last[u]
        /\ seeding \/ at[u] < last[u] \/ u \in gone
        /\ type = "DELETED" => u \in gone /\ rv = last[u]
    BY <1>1, <1>3 DEF Calls, SeenInv
  <2>3. seeding \/ \A w \in Uids \ gone : w \in known' \/ (at[w] = 0 /\ w # u)
    BY <1>3, <2>1, <2>2 DEF Calls, SeenInv
  <2>. QED
    BY <2>1, <2>2, <2>3 DEF SeenInv, In, clusterVars
<1>4. CASE Back
  <2>1. /\ event # NoEvent /\ event' = NoEvent
        /\ UNCHANGED <<vars, clusterVars, known>>
    BY <1>4 DEF Back, Return, Idle
  <2>2. \A u \in Uids : at'[u] = IF u = event.uid
                                 THEN IF event.type = "DELETED" THEN event.rv + 1 ELSE event.rv
                                 ELSE at[u]
    BY <1>4 DEF Back, Return, PubInv, PositionOK
  <2>3. \A u \in Uids \ gone : at'[u] <= last[u]
    BY <1>1, <2>1, <2>2 DEF SeenInv
  <2>4. seeding \/ \A u \in Uids \ gone : u \in known \/ at'[u] = 0
    BY <2>1, <2>2 DEF SeenInv, In
  <2>. QED
    BY <2>1, <2>3, <2>4 DEF SeenInv, In, clusterVars, vars
<1>5. CASE Sums \/ Tries \/ Arrive \/ Rests
  <2>1. UNCHANGED <<clusterVars, watchVars>>
    BY <1>5 DEF Sums, Tries, Arrive, Rests
  <2>2. CASE Start
    <3>1. event = NoEvent /\ Present \subseteq known
      BY <2>2 DEF Start, Idle
    <3>2. \A u \in Uids \ gone : u \in known \/ at[u] = 0
      BY <1>1, <3>1 DEF SeenInv, Present
    <3>. QED
      BY <2>1, <3>1, <3>2 DEF SeenInv, In, clusterVars, watchVars
  <2>3. CASE seeding' = seeding
    BY <2>1, <2>3 DEF SeenInv, In, clusterVars, watchVars
  <2>4. Start \/ seeding' = seeding
    BY <1>5 DEF Sums, Tries, Arrive, Rests, Save, vars
  <2>. QED
    BY <2>2, <2>3, <2>4
<1>6. CASE Die
  <2>1. event' = NoEvent /\ last' = last /\ gone' = gone /\ seeding' = TRUE
    BY <1>6, Zenon DEF Die, Restart, clusterVars
  <2>2. \A u \in Uids : at'[u] \in Nat /\ at'[u] <= at[u]
    BY <1>1, <1>6 DEF Die, Resumable
  <2>3. \A u \in Uids \ gone : at'[u] <= last[u]
    BY <1>1, <2>2 DEF SeenInv
  <2>. QED
    BY <2>1, <2>3 DEF SeenInv
<1>. QED
  BY <1>2, <1>3, <1>4, <1>5, <1>6, StepKinds

-----------------------------------------------------------------------------
(* What a summary is made of.                                              *)

\* While the callback of a driver's event runs, its application is on record with
\* the phase of the event; the summary is written of the records as they are.
RecordInv ==
  /\ event # NoEvent /\ PodOf(event).role = "driver" /\ PodOf(event).app \in DOMAIN apps =>
       /\ DriverPhase(PodOf(event).app) = PodOf(event).phase
       /\ event.type = "DELETED" => apps[PodOf(event).app].status = "deleted"
  /\ event # NoEvent /\ writing # NoDoc /\ WritesSummary =>
       /\ PodOf(event).role = "driver" /\ PodOf(event).app \in DOMAIN apps
       /\ writing = CompletionDoc(PodOf(event).app)

\* Every step keeps it.
LEMMA RecordStep == PubInv /\ RecordInv /\ [PubNext]_pubVars => RecordInv'
<1> SUFFICES ASSUME PubInv, RecordInv, [PubNext]_pubVars
             PROVE  RecordInv'
  OBVIOUS
<1>1. ASSUME UNCHANGED <<apps, pods, driverByApp, event>>, writing' \in {writing, NoDoc}
      PROVE  RecordInv'
  <2>1. PodOf(event)' = PodOf(event)
        /\ DriverPhase(PodOf(event).app)' = DriverPhase(PodOf(event).app)
        /\ CompletionDoc(PodOf(event).app)' = CompletionDoc(PodOf(event).app)
    BY <1>1 DEF PodOf, DriverPhase, CompletionDoc, Outcome
  <2>2. writing' # NoDoc => writing' = writing /\ (WritesSummary' <=> WritesSummary)
    BY <1>1, <2>1 DEF WritesSummary
  <2>. QED
    BY <1>1, <2>1, <2>2 DEF RecordInv
<1>2. CASE Cluster \/ Tries \/ Arrive \/ Rests
  <2>1. UNCHANGED <<apps, pods, driverByApp, event>> /\ writing' \in {writing, NoDoc}
    BY <1>2 DEF Cluster, Tries, Arrive, Rests, Start, Synced, Save, vars, watchVars
  <2>. QED
    BY <1>1, <2>1
<1>3. CASE Back \/ Die
  <2>1. event' = NoEvent
    BY <1>3 DEF Back, Return, Die
  <2>. QED
    BY <2>1 DEF RecordInv
<1>4. CASE Sums
  <2>1. UNCHANGED <<apps, pods, driverByApp, event>>
    BY <1>4 DEF Sums, vars, watchVars
  <2>2. PodOf(event)' = PodOf(event)
        /\ DriverPhase(PodOf(event).app)' = DriverPhase(PodOf(event).app)
        /\ CompletionDoc(PodOf(event).app)' = CompletionDoc(PodOf(event).app)
    BY <2>1 DEF PodOf, DriverPhase, CompletionDoc, Outcome
  <2>3. /\ PodOf(event).role = "driver" /\ PodOf(event).app \in DOMAIN apps
        /\ writing' = CompletionDoc(PodOf(event).app)
    BY <1>4 DEF Sums, Publishes, Finished
  <2>. QED
    BY <2>1, <2>2, <2>3 DEF RecordInv
<1>5. ASSUME NEW u \in Uids, NEW type \in Types, NEW rv \in Nat, NEW initial \in BOOLEAN,
             Calls(u, type, rv, initial)
      PROVE  RecordInv'
  <2> DEFINE e == [type |-> type, uid |-> u, rv |-> rv, initial |-> initial]
  <2>1. /\ event' = e /\ writing' \in {NoDoc, EventDoc(e)}
        /\ Upsert(PodOf(e), type = "DELETED", initial)
    BY <1>5 DEF Calls, Callback
  <2>2. PodOf(e) \in PodObject /\ e \in Events /\ e.type = type
    BY <1>5, LifeLabels DEF PubInv, PodOf, Events, Calls
  <2>. HIDE DEF e
  <2>3. (type = "DELETED") \in BOOLEAN /\ TypeOK
    BY DEF PubInv
  <2>4. PodOf(event)' = PodOf(e)
    BY <2>1 DEF PodOf
  <2>5. writing' # NoDoc => writing'.id # CompletionId(PodOf(e).app)
    BY <2>1, <2>2, SomeEvent DEF EventDoc
  <2>6. ~(writing' # NoDoc /\ WritesSummary')
    BY <2>4, <2>5 DEF WritesSummary
  <2>7. ASSUME PodOf(e).role = "driver", PodOf(e).app \in DOMAIN apps'
        PROVE  /\ apps'[PodOf(e).app].status = PodStatus(PodOf(e), type = "DELETED")
               /\ DriverPhase(PodOf(e).app)' = PodOf(e).phase
    BY <2>1, <2>2, <2>3, <2>7, UpsertDriver
  <2>8. ASSUME PodOf(e).role = "driver", PodOf(e).app \in DOMAIN apps'
        PROVE  DriverPhase(PodOf(event).app)' = PodOf(e).phase
    <3>1. DriverPhase(PodOf(event).app)' = DriverPhase(PodOf(e).app)'
      BY <2>4 DEF DriverPhase
    <3>. QED
      BY <2>7, <2>8, <3>1
  <2>9. ASSUME PodOf(e).role = "driver", PodOf(e).app \in DOMAIN apps', type = "DELETED"
        PROVE  apps'[PodOf(e).app].status = "deleted"
    BY <2>7, <2>9 DEF PodStatus
  <2>. QED
    BY <2>1, <2>2, <2>4, <2>6, <2>8, <2>9 DEF RecordInv
<1>. QED
  BY <1>2, <1>3, <1>4, <1>5, StepKinds

\* A first process starts with nothing in progress.
LEMMA SeenInitially == PubInit => SeenInv /\ RecordInv
<1>1. PubInit => event = NoEvent /\ at = last /\ last = [u \in Uids |-> 0]
  BY DEF PubInit
<1>2. PubInit => seeding
  BY Zenon DEF PubInit, Init
<1>. QED
  BY <1>1, <1>2 DEF SeenInv, RecordInv

-----------------------------------------------------------------------------
(* Finish times.                                                           *)

\* The driver was deleted or its last version is terminal.
FinalAt(u) == last[u] > 0 /\ (u \in gone \/ Terminal(Lives[u][last[u]]))

\* What the file has as finished is so in memory, and the drivers of what memory
\* has as finished have ended.
FinishInv ==
  /\ \A a \in DOMAIN file.apps : file.apps[a].finishedAt # NoTime =>
       FinishedAt(apps, a) = file.apps[a].finishedAt
  /\ \A u \in Uids : IsDriver(u) /\ FinishedAt(apps, App(u)) # NoTime => FinalAt(u)

\* A terminal version has the phase of all later ones.
LEMMA PhaseStays ==
  ASSUME PhasesFinal, ClusterOK, NEW u \in Uids, NEW v \in Nat, v >= 1, v <= last[u],
         Terminal(Lives[u][v])
  PROVE  Lives[u][last[u]].phase = Lives[u][v].phase /\ Terminal(Lives[u][last[u]])
<1>1. v \in 1..Len(Lives[u]) /\ last[u] \in 1..Len(Lives[u])
  BY LifeLabels
<1>. QED
  BY <1>1 DEF PhasesFinal, Terminal

\* A pod that has ended has ended for good, with the outcome it has.
LEMMA FinalStays ==
  ASSUME PhasesFinal, PubInv, Cluster, NEW u \in Uids, FinalAt(u)
  PROVE  FinalAt(u)' /\ TrueOutcome(u)' = TrueOutcome(u)
<1>1. ClusterOK /\ ClusterOK'
  BY ClusterStep DEF PubInv
<1>2. last[u] \in Nat /\ last'[u] \in Nat /\ last[u] <= last'[u] /\ gone \subseteq gone'
      /\ (u \in gone => last'[u] = last[u]) /\ last[u] > 0
  BY <1>1 DEF Cluster, ClusterOK, FinalAt
<1>3. CASE last'[u] = last[u]
  BY <1>2, <1>3 DEF FinalAt, TrueOutcome
<1>4. CASE last'[u] # last[u]
  <2>1. Terminal(Lives[u][last[u]])
    BY <1>2, <1>4 DEF FinalAt
  <2>2. last[u] \in 1..Len(Lives[u]) /\ last'[u] \in 1..Len(Lives[u])
    <3>1. Len(Lives[u]) \in Nat
      BY LivesAssumption
    <3>. QED
      BY <1>1, <1>2, <3>1 DEF ClusterOK
  <2>3. Lives[u][last'[u]].phase = Lives[u][last[u]].phase
    BY <1>2, <2>1, <2>2 DEF PhasesFinal
  <2>. QED
    BY <1>2, <2>1, <2>3 DEF FinalAt, TrueOutcome, Terminal
<1>. QED
  BY <1>3, <1>4

\* What a callback does to the finish times: those on record stay, and only the
\* terminal version or the deletion of a driver sets one, that of its application.
LEMMA CallFinishes ==
  ASSUME PubInv, NEW u \in Uids, NEW type \in Types, NEW rv \in Nat, NEW initial \in BOOLEAN,
         Calls(u, type, rv, initial), NEW a \in DOMAIN apps',
         FinishedAt(apps', a) # FinishedAt(apps, a)
  PROVE  /\ FinishedAt(apps, a) = NoTime /\ a = App(u) /\ IsDriver(u)
         /\ type = "DELETED" \/ Terminal(Lives[u][rv])
<1>1. Upsert(Lives[u][rv], type = "DELETED", initial)
  BY DEF Calls, Callback, PodOf
<1>2. /\ Lives[u][rv] \in PodObject /\ Lives[u][rv].app = App(u)
      /\ Lives[u][rv].role = Lives[u][1].role
  BY LifeLabels DEF PubInv, Calls
<1>3. (type = "DELETED") \in BOOLEAN /\ TypeOK
  BY DEF PubInv
<1>. QED
  BY <1>1, <1>2, <1>3, UpsertFinish DEF IsDriver

\* Every step keeps it, when there is room for all applications.
LEMMA FinishStep ==
  ASSUME OneDriver, PhasesFinal, NoEviction,
         PubInv, SeenInv, FinishInv, [PubNext]_pubVars
  PROVE  FinishInv'
<1>1. ASSUME UNCHANGED <<apps, clusterVars>>, file' \in {file, Snapshot}
      PROVE  FinishInv'
  <2>1. \A u \in Uids : FinalAt(u)' = FinalAt(u)
    BY <1>1 DEF FinalAt, clusterVars
  <2>. QED
    BY <1>1, <2>1 DEF FinishInv, FinishedAt, Snapshot
<1>2. CASE Back \/ Sums \/ Tries \/ Arrive \/ Rests
  <2>1. UNCHANGED <<apps, clusterVars>> /\ file' \in {file, Snapshot}
    BY <1>2 DEF Back, Sums, Tries, Arrive, Rests, Start, Synced, Save, vars
  <2>. QED
    BY <1>1, <2>1
<1>3. CASE Cluster
  <2>1. UNCHANGED <<apps, file>>
    BY <1>3 DEF Cluster, vars
  <2>2. \A u \in Uids : FinalAt(u) => FinalAt(u)'
    BY <1>3, FinalStays
  <2>. QED
    BY <2>1, <2>2 DEF FinishInv, FinishedAt
<1>4. CASE Die
  <2>1. apps' = file.apps /\ file' = file /\ UNCHANGED clusterVars
    BY <1>4 DEF Die, Restart
  <2>2. \A u \in Uids : FinalAt(u)' = FinalAt(u)
    BY <2>1 DEF FinalAt, clusterVars
  <2>3. \A a : FinishedAt(apps', a) # NoTime => FinishedAt(apps, a) = FinishedAt(apps', a)
    BY <2>1 DEF FinishInv, FinishedAt
  <2>. QED
    BY <2>1, <2>2, <2>3 DEF FinishInv, FinishedAt
<1>5. ASSUME NEW u \in Uids, NEW type \in Types, NEW rv \in Nat, NEW initial \in BOOLEAN,
             Calls(u, type, rv, initial)
      PROVE  FinishInv'
  <2>1. UNCHANGED <<file, clusterVars>> /\ rv >= 1 /\ rv <= last[u]
    BY <1>5 DEF Calls, Callback, Upsert
  <2>2. DOMAIN apps \subseteq DOMAIN apps'
    <3>1. Upsert(Lives[u][rv], type = "DELETED", initial)
      BY <1>5 DEF Calls, Callback, PodOf
    <3>2. Lives[u][rv] \in PodObject /\ (type = "DELETED") \in BOOLEAN /\ TypeOK
      BY <2>1, LifeLabels DEF PubInv
    <3>. QED
      BY <3>1, <3>2, NothingEvicted
  <2>3. \A w \in Uids : FinalAt(w)' = FinalAt(w)
    BY <2>1 DEF FinalAt, clusterVars
  <2>4. \A a \in DOMAIN apps' : FinishedAt(apps', a) # FinishedAt(apps, a) =>
          /\ FinishedAt(apps, a) = NoTime /\ a = App(u) /\ IsDriver(u)
          /\ type = "DELETED" \/ Terminal(Lives[u][rv])
    BY <1>5, CallFinishes
  <2>5. type = "DELETED" \/ Terminal(Lives[u][rv]) => FinalAt(u)
    <3>1. type = "DELETED" => u \in gone
      BY <1>5 DEF Calls
    <3>2. Terminal(Lives[u][rv]) => Terminal(Lives[u][last[u]])
      BY <2>1, PhaseStays DEF PubInv
    <3>3. last[u] > 0
      BY <2>1 DEF PubInv, ClusterOK
    <3>. QED
      BY <3>1, <3>2, <3>3 DEF FinalAt
  <2>6. ASSUME NEW a \in DOMAIN file.apps, file.apps[a].finishedAt # NoTime
        PROVE  FinishedAt(apps', a) = file.apps[a].finishedAt
    <3>1. FinishedAt(apps, a) = file.apps[a].finishedAt
      BY <2>6 DEF FinishInv
    <3>2. a \in DOMAIN apps'
      BY <2>2, <2>6, <3>1 DEF FinishedAt
    <3>. QED
      BY <2>4, <2>6, <3>1, <3>2
  <2>7. ASSUME NEW w \in Uids, IsDriver(w), FinishedAt(apps', App(w)) # NoTime
        PROVE  FinalAt(w)
    <3>1. App(w) \in DOMAIN apps'
      BY <2>7 DEF FinishedAt
    <3>2. CASE FinishedAt(apps, App(w)) # NoTime
      BY <2>7, <3>2 DEF FinishInv
    <3>3. CASE FinishedAt(apps, App(w)) = NoTime
      <4>1. App(w) = App(u) /\ IsDriver(u) /\ (type = "DELETED" \/ Terminal(Lives[u][rv]))
        BY <2>4, <2>7, <3>1, <3>3
      <4>2. w = u
        BY <2>7, <4>1 DEF OneDriver
      <4>. QED
        BY <2>5, <4>1, <4>2
    <3>. QED
      BY <3>2, <3>3
  <2>. QED
    BY <2>1, <2>3, <2>6, <2>7 DEF FinishInv
<1>. QED
  BY <1>2, <1>3, <1>4, <1>5, StepKinds

-----------------------------------------------------------------------------
(* Summaries of what has finished.                                         *)

\* The summary of u's application says what happened, or its writing was in trouble.
Good(u) ==
  \/ CompletionId(App(u)) \in lost \cup unsure
  \/ /\ CompletionId(App(u)) \in DOMAIN index
     /\ index[CompletionId(App(u))].status = TrueOutcome(u)
     /\ index[CompletionId(App(u))].finishedAt = FinishedAt(apps, App(u))

\* All events of u are behind the watch, the snapshot's included.
Reported(u) ==
  /\ ~In(u)
  /\ IF u \in gone THEN at[u] = last[u] + 1 ELSE u \in known /\ at[u] = last[u]

SummaryInv ==
  \A u \in Uids : IsDriver(u) /\ Reported(u) /\ FinishedAt(apps, App(u)) # NoTime => Good(u)

\* An attempt concerns the document that is written and no other.
LEMMA AttemptElsewhere ==
  ASSUME PubInv, Attempt, NEW id, id # writing.id
  PROVE  /\ id \in lost \cup unsure => id \in lost' \cup unsure'
         /\ id \in DOMAIN index => id \in DOMAIN index' /\ index'[id] = index[id]
<1>1. lost \ {writing.id} \subseteq lost' /\ unsure \subseteq unsure'
  <2>1. Retry => lost \subseteq lost'
    BY DEF Retry, GiveUp
  <2>. QED
    BY <2>1 DEF Attempt, Accept, Reject, GiveUp, Fail, TimeOut
<1>2. index' \in {index, Put(index, writing.id, writing)}
  BY AttemptEnds
<1>. QED
  BY <1>1, <1>2 DEF Put

\* A document's last attempt leaves it in the index or gives it up.
LEMMA LastAttempt ==
  ASSUME PubInv, Attempt, Return
  PROVE  \/ writing.id \in lost' \cup unsure'
         \/ writing.id \in DOMAIN index' /\ index'[writing.id] = writing
<1>1. CASE Accept
  BY <1>1 DEF Accept, Put
<1>2. CASE ~Accept
  <2>1. Retry => writing.id \in lost' \/ UNCHANGED event
    BY DEF Retry, GiveUp
  <2>2. ~UNCHANGED event
    BY AttemptEnds, SomeEvent DEF Return, PubInv, EventOK
  <2>. QED
    BY <1>2, <2>1, <2>2 DEF Attempt, Reject, GiveUp, Fail, TimeOut
<1>. QED
  BY <1>1, <1>2

\* The summary written for a driver's event that tells how it ended is the true one.
LEMMA OutcomeIsTrue ==
  ASSUME PubInv, SeenInv, RecordInv, event # NoEvent, IsDriver(event.uid),
         App(event.uid) \in DOMAIN apps,
         \/ event.type = "DELETED"
         \/ Terminal(PodOf(event)) /\ Lives[event.uid][last[event.uid]].phase = PodOf(event).phase
  PROVE  Outcome(App(event.uid)) = TrueOutcome(event.uid)
<1> DEFINE u == event.uid
           pod == PodOf(event)
<1>1. u \in Uids /\ event.rv \in Nat /\ event.rv >= 1 /\ event.rv <= last[u]
  BY DEF PubInv, EventOK, Events
<1>2. pod = Lives[u][event.rv] /\ pod.app = App(u) /\ pod.role = "driver" /\ pod \in PodObject
  BY <1>1, LifeLabels DEF PubInv, PodOf, IsDriver
<1>3. DriverPhase(App(u)) = pod.phase /\ (event.type = "DELETED" => apps[App(u)].status = "deleted")
  BY <1>2 DEF RecordInv
<1>4. Lives[u][last[u]].phase = pod.phase
  <2>1. event.type = "DELETED" => event.rv = last[u]
    BY DEF SeenInv
  <2>. QED
    BY <1>2, <2>1
<1>5. CASE Terminal(pod)
  BY <1>3, <1>4, <1>5 DEF Outcome, TrueOutcome, OutcomeOfPhase, Terminal
<1>6. CASE ~Terminal(pod)
  BY <1>3, <1>4, <1>6 DEF Outcome, TrueOutcome, OutcomeOfPhase, Terminal
<1>. QED
  BY <1>5, <1>6

\* The summary of an application is written in callbacks of its driver only.
LEMMA OtherSummary ==
  ASSUME OneDriver, PubInv, RecordInv, writing # NoDoc,
         NEW u \in Uids, IsDriver(u), ~In(u)
  PROVE  writing.id # CompletionId(App(u))
<1> SUFFICES ASSUME writing.id = CompletionId(App(u))
             PROVE  FALSE
  OBVIOUS
<1>1. event # NoEvent /\ event \in Events /\ event.rv >= 1 /\ event.rv <= last[event.uid]
      /\ event.uid \in Uids /\ event.rv \in Nat
  BY SomeEvent DEF PubInv, EventOK, Events
<1>2. ~WritesEvent
  BY <1>1, SomeEvent DEF WritesEvent, EventDoc
<1>3. writing.id = CompletionId(PodOf(event).app) /\ PodOf(event).role = "driver"
  BY <1>1, <1>2 DEF PubInv, EventOK, WritesSummary, RecordInv
<1>4. PodOf(event).app = App(event.uid) /\ IsDriver(event.uid)
  BY <1>1, <1>3, LifeLabels DEF PubInv, PodOf, IsDriver
<1>5. App(event.uid) = App(u)
  BY <1>3, <1>4 DEF CompletionId
<1>. QED
  BY <1>1, <1>4, <1>5 DEF OneDriver, In

\* An attempt at another document leaves a good summary good.
LEMMA AttemptGood ==
  ASSUME OneDriver, PubInv, RecordInv, Attempt, NEW u \in Uids, IsDriver(u), ~In(u), Good(u)
  PROVE  Good(u)'
<1>1. writing # NoDoc /\ UNCHANGED <<vars, clusterVars>>
  BY AttemptEnds
<1>2. writing.id # CompletionId(App(u))
  BY <1>1, OtherSummary
<1>3. TrueOutcome(u)' = TrueOutcome(u) /\ FinishedAt(apps, App(u))' = FinishedAt(apps, App(u))
  BY <1>1 DEF TrueOutcome, FinishedAt, vars, clusterVars
<1> DEFINE id == CompletionId(App(u))
<1>4. /\ id \in lost \cup unsure => id \in lost' \cup unsure'
      /\ id \in DOMAIN index => id \in DOMAIN index' /\ index'[id] = index[id]
  BY <1>2, AttemptElsewhere
<1>. HIDE DEF id
<1>. QED
  BY <1>3, <1>4 DEF Good, id

\* Every step keeps it.
LEMMA SummaryStep ==
  ASSUME OneDriver, PhasesFinal, NoEviction,
         PubInv, SeenInv, RecordInv, FinishInv, SummaryInv, [PubNext]_pubVars
  PROVE  SummaryInv'
<1>1. /\ \A u \in Uids : at[u] \in Nat /\ last[u] \in Nat /\ at[u] <= last[u] + 1
      /\ event # NoEvent => /\ event.uid \in Uids /\ event.rv \in Nat /\ event.rv >= 1
                            /\ event.rv <= last[event.uid]
  BY DEF PubInv, ClusterOK, PositionOK, EventOK, Events
<1>. SUFFICES ASSUME NEW w \in Uids, IsDriver(w), Reported(w)',
                     FinishedAt(apps', App(w)) # NoTime
              PROVE  Good(w)'
  BY DEF SummaryInv
<1>2. ASSUME Reported(w), FinishedAt(apps, App(w)) = FinishedAt(apps', App(w)),
             TrueOutcome(w)' = TrueOutcome(w), UNCHANGED <<index, lost>>, unsure \subseteq unsure'
      PROVE  Good(w)'
  BY <1>2 DEF SummaryInv, Good
<1>3. CASE Cluster
  <2>1. UNCHANGED <<vars, watchVars, exportVars>> /\ Behind = {} /\ ~seeding
    BY <1>3 DEF Cluster
  <2>2. /\ last'[w] = last[w] /\ (w \in gone <=> w \in gone')
    <3>1. /\ last'[w] \in Nat /\ last[w] <= last'[w]
          /\ w \in gone => last'[w] = last[w] /\ w \in gone'
      BY <1>3 DEF Cluster, PubInv, ClusterOK
    <3>2. w \in gone' => last'[w] = last[w] /\ (w \in gone \/ at[w] # last[w] + 1)
      <4>1. w \in gone' /\ w \notin gone => last' = last
        BY <1>3 DEF Cluster
      <4>2. w \notin gone => at[w] <= last[w]
        BY DEF SeenInv
      <4>. QED
        BY <1>1, <3>1, <4>1, <4>2
    <3>3. w \notin gone => at[w] <= last[w]
      BY DEF SeenInv
    <3>4. IF w \in gone' THEN at[w] = last'[w] + 1 ELSE at[w] = last'[w]
      BY <2>1 DEF Reported, watchVars
    <3>. QED
      BY <1>1, <3>1, <3>2, <3>3, <3>4
  <2>3. Reported(w) /\ TrueOutcome(w)' = TrueOutcome(w)
    BY <2>1, <2>2 DEF Reported, In, TrueOutcome, watchVars
  <2>. QED
    BY <1>2, <2>1, <2>3 DEF vars, exportVars
<1>4. ASSUME NEW u \in Uids, NEW type \in Types, NEW rv \in Nat, NEW initial \in BOOLEAN,
             Calls(u, type, rv, initial)
      PROVE  Good(w)'
  <2>1. /\ event = NoEvent /\ event' # NoEvent /\ event'.uid = u
        /\ UNCHANGED <<clusterVars, at, exportVars>>
    BY <1>4 DEF Calls, Callback, Idle, NoEvent
  <2>2. w # u
    BY <2>1 DEF Reported, In
  <2>3. Reported(w) /\ TrueOutcome(w)' = TrueOutcome(w)
    BY <1>4, <2>1, <2>2 DEF Reported, In, Calls, TrueOutcome, clusterVars
  <2>4. FinishedAt(apps', App(w)) = FinishedAt(apps, App(w))
    <3>1. App(w) \in DOMAIN apps'
      BY DEF FinishedAt
    <3>. QED
      BY <1>4, <2>2, <3>1, CallFinishes DEF OneDriver
  <2>. QED
    BY <1>2, <2>1, <2>3, <2>4 DEF exportVars
<1>5. CASE Back
  <2>1. /\ event # NoEvent /\ event' = NoEvent /\ event.uid \in Uids /\ event.rv \in Nat
        /\ event.rv >= 1 /\ event.rv <= last[event.uid]
        /\ UNCHANGED <<vars, clusterVars, known>>
    BY <1>1, <1>5 DEF Back, Return, Idle
  <2>2. \A u \in Uids : at'[u] = IF u = event.uid
                                 THEN IF event.type = "DELETED" THEN event.rv + 1 ELSE event.rv
                                 ELSE at[u]
    BY <1>5 DEF Back, Return, PubInv, PositionOK
  <2>3. TrueOutcome(w)' = TrueOutcome(w) /\ FinishedAt(apps', App(w)) = FinishedAt(apps, App(w))
    BY <2>1 DEF TrueOutcome, clusterVars, vars
  <2>4. CASE w # event.uid
    <3>1. ~In(w) /\ Reported(w)
      BY <2>1, <2>2, <2>4 DEF Reported, In, clusterVars
    <3>2. Good(w)
      BY <2>3, <3>1 DEF SummaryInv
    <3>3. CASE UNCHANGED exportVars
      BY <1>2, <2>3, <3>1, <3>3 DEF exportVars
    <3>4. CASE Attempt
      BY <3>1, <3>2, <3>4, AttemptGood
    <3>. QED
      BY <1>5, <3>3, <3>4 DEF Back
  <2>5. CASE w = event.uid
    <3>1. PodOf(event).app = App(w) /\ PodOf(event).role = "driver"
      BY <2>1, <2>5, LifeLabels DEF PubInv, PodOf, IsDriver
    <3>2. App(w) \in DOMAIN apps /\ apps[App(w)].finishedAt # NoTime
          /\ apps[App(w)].finishedAt = FinishedAt(apps, App(w))
      BY <2>3 DEF FinishedAt
    <3>3. Publishes(PodOf(event))
      BY <3>1, <3>2 DEF Publishes, Finished
    <3>4. writing # NoDoc /\ WritesSummary /\ Attempt /\ Return
      BY <1>5, <3>3 DEF Back
    <3>5. writing = CompletionDoc(App(w)) /\ writing.id = CompletionId(App(w))
      BY <2>1, <3>1, <3>4 DEF RecordInv, WritesSummary
    <3>6. event.rv = last[w] /\ (w \in gone => event.type = "DELETED")
      <4>1. IF w \in gone THEN at'[w] = last[w] + 1 ELSE at'[w] = last[w]
        BY <2>1 DEF Reported, clusterVars
      <4>. QED
        BY <1>1, <2>1, <2>2, <2>5, <4>1 DEF SeenInv
    <3>7. FinalAt(w)
      BY <2>3 DEF FinishInv
    <3>8. Outcome(App(w)) = TrueOutcome(w)
      BY <2>1, <2>5, <3>2, <3>6, <3>7, OutcomeIsTrue DEF FinalAt, PodOf
    <3>9. writing.status = TrueOutcome(w) /\ writing.finishedAt = FinishedAt(apps, App(w))
      BY <3>2, <3>5, <3>8 DEF CompletionDoc
    <3>10. \/ writing.id \in lost' \cup unsure'
           \/ writing.id \in DOMAIN index' /\ index'[writing.id] = writing
      BY <3>4, LastAttempt
    <3>. QED
      BY <2>3, <3>5, <3>9, <3>10 DEF Good
  <2>. QED
    BY <2>4, <2>5
<1>6. CASE Sums \/ Tries \/ Arrive \/ Rests
  <2>1. UNCHANGED <<apps, clusterVars, watchVars>>
    BY <1>6 DEF Sums, Tries, Arrive, Rests, Start, Synced, Save, vars
  <2>2. Reported(w) /\ TrueOutcome(w)' = TrueOutcome(w)
        /\ FinishedAt(apps', App(w)) = FinishedAt(apps, App(w))
    BY <2>1 DEF Reported, In, TrueOutcome, clusterVars, watchVars
  <2>3. Good(w)
    BY <2>2 DEF SummaryInv
  <2>4. CASE UNCHANGED exportVars
    BY <1>2, <2>2, <2>4 DEF exportVars
  <2>5. CASE Tries
    BY <2>2, <2>3, <2>5, AttemptGood DEF Tries, Reported
  <2>6. CASE Arrive
    <3>1. PICK doc \in late : index' = Put(index, doc.id, doc)
      BY <2>6 DEF Arrive
    <3>2. doc.id \in unsure /\ UNCHANGED <<unsure, lost>>
      BY <2>6 DEF Arrive, PubInv, ExportOK
    <3>. QED
      BY <2>2, <2>3, <3>1, <3>2 DEF Good, Put
  <2>. QED
    BY <1>6, <2>4, <2>5, <2>6 DEF Sums, Rests
<1>7. CASE Die
  <2>1. /\ known' = {} /\ UNCHANGED <<clusterVars, index, lost>> /\ unsure \subseteq unsure'
        /\ apps' = file.apps
    BY <1>7 DEF Die, Restart
  <2>2. at'[w] \in Nat /\ at'[w] <= at[w]
    BY <1>1, <1>7 DEF Die, Resumable
  <2>3. w \in gone /\ at[w] = last[w] + 1
    BY <1>1, <2>1, <2>2 DEF Reported, clusterVars
  <2>4. Reported(w) /\ TrueOutcome(w)' = TrueOutcome(w)
    BY <1>1, <2>1, <2>3 DEF Reported, In, SeenInv, TrueOutcome, clusterVars
  <2>5. FinishedAt(apps', App(w)) = FinishedAt(apps, App(w))
    BY <2>1 DEF FinishInv, FinishedAt
  <2>. QED
    BY <1>2, <2>1, <2>4, <2>5
<1>. QED
  BY <1>3, <1>4, <1>5, <1>6, <1>7, StepKinds

\* When its driver's events are all reported, an application known as finished has a
\* summary with the true outcome and the finish time on record, over crashes, replays
\* and snapshots, unless writing it was in trouble: as long as an application has one
\* driver and none is evicted.
THEOREM OutcomesAreExported ==
  ASSUME OneDriver, PhasesFinal, NoEviction
  PROVE  PubSpec => []OutcomeExported
<1>1. PubInit => SeenInv /\ RecordInv /\ FinishInv /\ SummaryInv
  <2>1. PubInit => SeenInv /\ RecordInv
    BY SeenInitially
  <2>2. PubInit => apps = Empty /\ file.apps = Empty
    BY DEF PubInit, Init
  <2>3. PubInit => FinishInv /\ SummaryInv
    BY <2>2 DEF FinishInv, SummaryInv, FinishedAt, Empty
  <2>. QED
    BY <2>1, <2>3
<1>2. PubInv /\ SeenInv /\ RecordInv /\ FinishInv /\ SummaryInv /\ [PubNext]_pubVars
        => SeenInv' /\ RecordInv' /\ FinishInv' /\ SummaryInv'
  BY SeenStep, RecordStep, FinishStep, SummaryStep
<1>3. PubInv /\ SeenInv /\ FinishInv /\ SummaryInv => OutcomeExported
  <2> SUFFICES ASSUME PubInv, SeenInv, FinishInv, SummaryInv,
                      NEW u \in Uids, IsDriver(u), CaughtUp(u), App(u) \in DOMAIN apps,
                      apps[App(u)].finishedAt # NoTime
               PROVE  Good(u) /\ FinishedAt(apps, App(u)) = apps[App(u)].finishedAt
    BY DEF OutcomeExported, Good, IsDriver, App
  <2>1. FinishedAt(apps, App(u)) = apps[App(u)].finishedAt
    BY DEF FinishedAt
  <2>2. FinalAt(u) /\ last[u] \in Nat
    BY <2>1 DEF FinishInv, PubInv, ClusterOK
  <2>3. Reported(u)
    BY <2>2 DEF Reported, CaughtUp, Idle, In, SeenInv, FinalAt
  <2>. QED
    BY <2>1, <2>3 DEF SummaryInv
<1>. QED
  BY <1>1, <1>2, <1>3, PubInvariant, PTL DEF PubSpec

-----------------------------------------------------------------------------
(* Outcomes of one process.                                                *)

\* The event in progress, or the last one behind the watch, tells how u ended.
Ended(u) ==
  IF In(u) THEN Terminal(PodOf(event)) \/ event.type = "DELETED"
  ELSE at[u] > last[u] \/ (at[u] > 0 /\ Terminal(Lives[u][at[u]]))

\* Without a predecessor's records and position nothing is known as finished before
\* an event says so.
FirstInv ==
  /\ restarts \in Nat
  /\ restarts = 0 =>
       /\ seeding => \A u \in Uids : last[u] = 0
       /\ \A u \in Uids : IsDriver(u) /\ FinishedAt(apps, App(u)) # NoTime => Ended(u)

\* Every step keeps it.
LEMMA FirstStep ==
  ASSUME OneDriver, PhasesFinal, PubInv, SeenInv, FirstInv, [PubNext]_pubVars
  PROVE  FirstInv'
<1>1. /\ \A u \in Uids : at[u] \in Nat /\ last[u] \in Nat
      /\ event # NoEvent => /\ event.uid \in Uids /\ event.rv \in Nat /\ event.rv >= 1
                            /\ event.rv <= last[event.uid]
  BY DEF PubInv, ClusterOK, PositionOK, EventOK, Events
<1>2. CASE Cluster
  <2>1. UNCHANGED <<vars, watchVars, restarts>> /\ ~seeding /\ Behind = {}
    BY <1>2 DEF Cluster
  <2>2. event = NoEvent
    BY <1>1, <2>1 DEF SeenInv, Behind
  <2>3. \A u \in Uids : at[u] > last[u] => last'[u] = last[u]
    BY <1>1, <1>2 DEF Cluster, SeenInv, PubInv, ClusterOK
  <2>. QED
    BY <2>1, <2>2, <2>3 DEF FirstInv, Ended, In, vars, watchVars
<1>3. ASSUME NEW u \in Uids, NEW type \in Types, NEW rv \in Nat, NEW initial \in BOOLEAN,
             Calls(u, type, rv, initial)
      PROVE  FirstInv'
  <2>1. /\ event = NoEvent /\ event' # NoEvent /\ event'.uid = u /\ event'.type = type
        /\ event'.rv = rv /\ UNCHANGED <<clusterVars, at, restarts>> /\ seeding' = seeding
    BY <1>3 DEF Calls, Callback, Upsert, Idle, NoEvent
  <2>2. PodOf(event)' = Lives[u][rv] /\ rv >= 1 /\ rv <= last[u]
    BY <1>3, <2>1 DEF PodOf, Calls
  <2>3. ASSUME restarts = 0, NEW w \in Uids, IsDriver(w), FinishedAt(apps', App(w)) # NoTime
        PROVE  Ended(w)'
    <3>1. ~seeding /\ (at[u] < last[u] \/ at[u] = last[u])
          /\ (type = "DELETED" \/ at[u] < rv)
      BY <1>1, <1>3, <2>2, <2>3 DEF FirstInv, Calls
    <3>2. App(w) \in DOMAIN apps'
      BY <2>3 DEF FinishedAt
    <3>3. CASE FinishedAt(apps', App(w)) # FinishedAt(apps, App(w))
      <4>1. App(w) = App(u) /\ IsDriver(u) /\ (type = "DELETED" \/ Terminal(Lives[u][rv]))
        BY <1>3, <3>2, <3>3, CallFinishes
      <4>2. w = u
        BY <2>3, <4>1 DEF OneDriver
      <4>. QED
        BY <2>1, <2>2, <4>1, <4>2 DEF Ended, In
    <3>4. CASE FinishedAt(apps', App(w)) = FinishedAt(apps, App(w))
      <4>1. Ended(w) /\ ~In(w)
        BY <2>1, <2>3, <3>4 DEF FirstInv, In
      <4>2. CASE w # u
        BY <2>1, <4>1, <4>2 DEF Ended, In, clusterVars
      <4>3. CASE w = u /\ type # "DELETED"
        <5>1. at[u] > 0 /\ Terminal(Lives[u][at[u]]) /\ at[u] <= rv
          BY <1>1, <3>1, <4>1, <4>3 DEF Ended
        <5>2. at[u] \in 1..Len(Lives[u]) /\ rv \in 1..Len(Lives[u])
          BY <1>1, <2>2, <5>1, LifeLabels DEF PubInv
        <5>3. Terminal(Lives[u][rv])
          BY <5>1, <5>2 DEF PhasesFinal, Terminal
        <5>. QED
          BY <2>1, <2>2, <4>3, <5>3 DEF Ended, In
      <4>4. CASE w = u /\ type = "DELETED"
        BY <2>1, <4>4 DEF Ended, In
      <4>. QED
        BY <4>2, <4>3, <4>4
    <3>. QED
      BY <3>3, <3>4
  <2>. QED
    BY <2>1, <2>3 DEF FirstInv, clusterVars
<1>4. CASE Back
  <2>1. /\ event # NoEvent /\ event' = NoEvent
        /\ UNCHANGED <<vars, clusterVars, restarts>>
    BY <1>4 DEF Back, Return, Idle
  <2>2. \A u \in Uids : at'[u] = IF u = event.uid
                                 THEN IF event.type = "DELETED" THEN event.rv + 1 ELSE event.rv
                                 ELSE at[u]
    BY <1>4 DEF Back, Return, PubInv, PositionOK
  <2>3. \A u \in Uids : Ended(u) => Ended(u)'
    <3>1. ASSUME NEW u \in Uids, u # event.uid, Ended(u)
          PROVE  Ended(u)'
      BY <2>1, <2>2, <3>1 DEF Ended, In, clusterVars
    <3>2. ASSUME NEW u \in Uids, u = event.uid, Ended(u)
          PROVE  Ended(u)'
      <4>1. CASE event.type = "DELETED"
        <5>1. at'[u] = last[u] + 1 /\ last[u] \in Nat
          BY <1>1, <2>1, <2>2, <3>2, <4>1 DEF SeenInv
        <5>. QED
          BY <2>1, <5>1 DEF Ended, In, clusterVars
      <4>2. CASE event.type # "DELETED"
        <5>1. Terminal(Lives[u][event.rv])
          BY <2>1, <3>2, <4>2 DEF Ended, In, PodOf
        <5>2. at'[u] = event.rv /\ event.rv > 0
          BY <1>1, <2>1, <2>2, <3>2, <4>2
        <5>. QED
          BY <2>1, <5>1, <5>2 DEF Ended, In, clusterVars
      <4>. QED
        BY <4>1, <4>2
    <3>. QED
      BY <3>1, <3>2
  <2>. QED
    BY <2>1, <2>3 DEF FirstInv, clusterVars, vars
<1>5. CASE Sums \/ Tries \/ Arrive \/ Rests
  <2>1. UNCHANGED <<apps, clusterVars, watchVars, restarts>> /\ (seeding' => seeding)
    BY <1>5 DEF Sums, Tries, Arrive, Rests, Start, Synced, Save, vars
  <2>2. \A u \in Uids : Ended(u)' = Ended(u)
    BY <2>1 DEF Ended, In, PodOf, clusterVars, watchVars
  <2>. QED
    BY <2>1, <2>2 DEF FirstInv, clusterVars
<1>6. CASE Die
  BY <1>6 DEF Die, FirstInv
<1>. QED
  BY <1>2, <1>3, <1>4, <1>5, <1>6, StepKinds

\* A summary tells what became of the driver of its application.
Honest(doc) ==
  doc.id.type = "APPLICATION_COMPLETED" =>
    \E u \in Uids : /\ IsDriver(u) /\ doc.id = CompletionId(App(u))
                    /\ FinalAt(u) /\ doc.status = TrueOutcome(u)

\* Every document that was written or may be.
Written == {index[id] : id \in DOMAIN index} \cup late \cup ({writing} \ {NoDoc})

HonestInv == restarts = 0 => \A doc \in Written : Honest(doc)

\* The documents of a step are those before it, an event's and a summary.
LEMMA NewDocuments ==
  ASSUME PubInv, [PubNext]_pubVars, NEW doc \in Written'
  PROVE  doc \in Written \/ doc.id.type \in Types \/ (Sums /\ doc = writing')
<1>1. CASE Cluster \/ Rests
  BY <1>1 DEF Written, Cluster, Rests, exportVars
<1>2. ASSUME NEW u \in Uids, NEW type \in Types, NEW rv \in Nat, NEW initial \in BOOLEAN,
             Calls(u, type, rv, initial)
      PROVE  doc \in Written \/ doc.id.type \in Types
  <2> DEFINE e == [type |-> type, uid |-> u, rv |-> rv, initial |-> initial]
  <2>1. writing' \in {NoDoc, EventDoc(e)} /\ UNCHANGED exportVars
    BY <1>2 DEF Calls, Callback
  <2>2. EventDoc(e).id.type \in Types
    BY DEF EventDoc, EventId
  <2>. HIDE DEF e
  <2>. QED
    BY <2>1, <2>2 DEF Written, exportVars
<1>3. CASE Back \/ Tries
  <2>1. CASE UNCHANGED exportVars
    BY <1>3, <2>1 DEF Written, Back, Tries, Return, exportVars
  <2>2. CASE Attempt
    <3>1. /\ index' \in {index, Put(index, writing.id, writing)}
          /\ late' \in {late, late \cup {writing}} /\ writing # NoDoc
      BY <2>2, AttemptEnds
    <3>2. writing' \in {writing, NoDoc}
      BY <1>3 DEF Back, Tries, Return
    <3>. QED
      BY <3>1, <3>2 DEF Written, Put
  <2>. QED
    BY <1>3, <2>1, <2>2 DEF Back, Tries
<1>4. CASE Sums
  BY <1>4 DEF Sums, Written, exportVars
<1>5. CASE Arrive
  BY <1>5 DEF Arrive, Written, Put
<1>6. CASE Die
  <2>1. /\ index' = index /\ writing' = NoDoc
        /\ late' \in {late, late \cup {writing}} /\ (late' # late => writing # NoDoc)
    BY <1>6 DEF Die
  <2>. QED
    BY <2>1 DEF Written
<1>. QED
  BY <1>1, <1>2, <1>3, <1>4, <1>5, <1>6, StepKinds

\* Within a process the cluster changes in steps of its own, and the index with an
\* attempt or a late request.
LEMMA OneProcess ==
  ASSUME PubInv, FirstInv, [PubNext]_pubVars, restarts' = 0
  PROVE  /\ restarts = 0
         /\ Cluster \/ UNCHANGED clusterVars
         /\ index' = index \/ (UNCHANGED clusterVars /\ DOMAIN index \subseteq DOMAIN index')
<1>1. CASE Cluster
  BY <1>1 DEF Cluster, exportVars
<1>2. ASSUME NEW u \in Uids, NEW type \in Types, NEW rv \in Nat, NEW initial \in BOOLEAN,
             Calls(u, type, rv, initial)
      PROVE  UNCHANGED <<clusterVars, index, restarts>>
  BY <1>2 DEF Calls, Callback, exportVars
<1>3. CASE Back \/ Sums \/ Tries \/ Arrive \/ Rests
  <2>1. UNCHANGED <<clusterVars, restarts>>
    BY <1>3 DEF Back, Sums, Tries, Arrive, Rests
  <2>2. index' = index \/ Attempt \/ Arrive
    BY <1>3 DEF Back, Sums, Tries, Rests, exportVars
  <2>3. DOMAIN index \subseteq DOMAIN index'
    BY <2>2, AttemptEnds DEF Arrive, Put
  <2>. QED
    BY <2>1, <2>3
<1>4. CASE Die
  BY <1>4 DEF Die, FirstInv
<1>. QED
  BY <1>1, <1>2, <1>3, <1>4, StepKinds

\* Every step keeps them honest.
LEMMA HonestStep ==
  ASSUME OneDriver, PhasesFinal, PubInv, SeenInv, RecordInv, FirstInv, HonestInv,
         [PubNext]_pubVars
  PROVE  HonestInv'
<1>. SUFFICES ASSUME restarts' = 0, NEW doc \in Written'
              PROVE  Honest(doc)'
  BY DEF HonestInv
<1>1. restarts = 0 /\ (Cluster \/ UNCHANGED clusterVars)
  BY OneProcess
<1>2. ASSUME Honest(doc)
      PROVE  Honest(doc)'
  <2>1. CASE Cluster
    <3>1. \A u \in Uids : FinalAt(u) => FinalAt(u)' /\ TrueOutcome(u)' = TrueOutcome(u)
      BY <2>1, FinalStays
    <3>. QED
      BY <1>2, <3>1 DEF Honest
  <2>2. CASE UNCHANGED clusterVars
    <3>1. \A u \in Uids : FinalAt(u)' = FinalAt(u) /\ TrueOutcome(u)' = TrueOutcome(u)
      BY <2>2 DEF FinalAt, TrueOutcome, clusterVars
    <3>. QED
      BY <1>2, <3>1 DEF Honest
  <2>. QED
    BY <1>1, <2>1, <2>2
<1>3. CASE doc \in Written
  BY <1>1, <1>2, <1>3 DEF HonestInv
<1>4. CASE doc.id.type \in Types
  BY <1>4 DEF Honest, Types
<1>5. CASE Sums /\ doc = writing'
  <2> DEFINE u == event.uid
  <2>1. /\ event # NoEvent /\ u \in Uids /\ event.rv \in Nat /\ event.rv >= 1
        /\ event.rv <= last[u] /\ last[u] \in Nat
    BY <1>5 DEF Sums, Idle, PubInv, ClusterOK, EventOK, Events
  <2>2. PodOf(event) = Lives[u][event.rv] /\ PodOf(event).app = App(u) /\ IsDriver(u)
    BY <1>5, <2>1, LifeLabels DEF Sums, Publishes, PubInv, PodOf, IsDriver
  <2>3. doc = CompletionDoc(App(u)) /\ App(u) \in DOMAIN apps
        /\ FinishedAt(apps, App(u)) # NoTime
    BY <1>5, <2>2 DEF Sums, Publishes, Finished, FinishedAt
  <2>4. Terminal(PodOf(event)) \/ event.type = "DELETED"
    BY <1>1, <2>1, <2>2, <2>3 DEF FirstInv, Ended, In
  <2>5. Terminal(PodOf(event)) => /\ Terminal(Lives[u][last[u]])
                                  /\ Lives[u][last[u]].phase = PodOf(event).phase
    BY <2>1, <2>2, PhaseStays DEF PubInv
  <2>6. FinalAt(u)
    BY <2>1, <2>4, <2>5 DEF FinalAt, SeenInv
  <2>7. Outcome(App(u)) = TrueOutcome(u)
    BY <2>1, <2>2, <2>3, <2>4, <2>5, OutcomeIsTrue
  <2>8. doc.id = CompletionId(App(u)) /\ doc.status = TrueOutcome(u)
    BY <2>3, <2>7 DEF CompletionDoc
  <2>9. Honest(doc)
    BY <2>1, <2>2, <2>6, <2>8 DEF Honest
  <2>. QED
    BY <1>2, <2>9
<1>. QED
  BY <1>3, <1>4, <1>5, NewDocuments

\* A driver deleted after success or failure retains that completion outcome within a
\* process, also when older requests are applied late, whatever is evicted.
THEOREM OutcomesAreKept ==
  ASSUME OneDriver, PhasesFinal
  PROVE  PubSpec => OutcomeKept
<1> DEFINE Kept == \A id \in DOMAIN index :
                     id.type = "APPLICATION_COMPLETED" /\ restarts' = 0
                       /\ index[id].status \in {"succeeded", "failed"} =>
                       index'[id].status = index[id].status
           Inv == SeenInv /\ RecordInv /\ FirstInv /\ HonestInv
<1>1. PubInit => Inv
  <2>1. PubInit => restarts = 0 /\ last = [u \in Uids |-> 0] /\ apps = Empty
    BY DEF PubInit, Init
  <2>2. PubInit => FirstInv
    BY <2>1 DEF FirstInv, FinishedAt, Empty
  <2>3. PubInit => HonestInv
    BY DEF PubInit, HonestInv, Written, Empty
  <2>. QED
    BY <2>2, <2>3, SeenInitially
<1>2. PubInv /\ Inv /\ [PubNext]_pubVars => Inv'
  BY SeenStep, RecordStep, FirstStep, HonestStep
<1>3. PubInv /\ PubInv' /\ Inv /\ Inv' /\ [PubNext]_pubVars => [Kept]_pubVars
  <2> SUFFICES ASSUME PubInv, PubInv', Inv, Inv', [PubNext]_pubVars, restarts' = 0,
                      NEW id \in DOMAIN index, id.type = "APPLICATION_COMPLETED"
               PROVE  index'[id].status = index[id].status
    OBVIOUS
  <2>1. /\ restarts = 0
        /\ index' = index \/ (UNCHANGED clusterVars /\ DOMAIN index \subseteq DOMAIN index')
    BY OneProcess
  <2>2. CASE index' = index
    BY <2>2
  <2>3. ASSUME UNCHANGED clusterVars, id \in DOMAIN index'
        PROVE  index'[id].status = index[id].status
    <3>1. index[id].id = id /\ index'[id].id = id
      BY <2>3 DEF PubInv, ExportOK
    <3>2. Honest(index[id])
      BY <2>1 DEF HonestInv, Written
    <3>3. \A doc \in Written' : Honest(doc)'
      BY DEF HonestInv
    <3>4. index'[id] \in Written'
      BY <2>3 DEF Written
    <3>5. \A u \in Uids : TrueOutcome(u)' = TrueOutcome(u)
      BY <2>3 DEF TrueOutcome, clusterVars
    <3>6. \A d : Honest(d)' => Honest(d)
      <4>1. \A u \in Uids : FinalAt(u)' = FinalAt(u)
        BY <2>3 DEF FinalAt, clusterVars
      <4>. QED
        BY <3>5, <4>1 DEF Honest
    <3>7. Honest(index'[id])
      BY <3>3, <3>4, <3>6
    <3>. QED
      BY <3>1, <3>2, <3>7 DEF Honest, OneDriver, CompletionId
  <2>. QED
    BY <2>1, <2>2, <2>3
<1>. QED
  BY <1>1, <1>2, <1>3, PubInvariant, PTL DEF PubSpec, OutcomeKept
===============================================================================
