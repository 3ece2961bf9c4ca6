------------------------------ MODULE Publisher ------------------------------
(***************************************************************************)
(* What the handler exports to Elasticsearch.  Every callback of           *)
(* internal/handler/event_handler.go changes the store, then writes its    *)
(* documents one by one through internal/elasticsearch/client.go, each     *)
(* with up to three attempts; the watch waits.  An attempt can time out    *)
(* and its request be applied later all the same.                          *)
(*                                                                         *)
(* The watch is reduced to what it promises the handler: the pods that     *)
(* exist at startup as INITIAL, then the events of each pod in order, from *)
(* a position that is never past a callback that has not returned.         *)
(***************************************************************************)
EXTENDS StateStore, Sequences

CONSTANTS
  Lives,         \* pod key -> the versions the pod goes through, in order
  MaxRestarts,   \* bound of the model: how often the process ends
  MaxTroubled    \* bound of the model: documents whose writes do not all succeed

\* Pods without the labels come to nothing in every callback and are left out.
ASSUME LivesAssumption ==
  /\ Lives \in [Uids -> Seq(Pods)]
  /\ \A u \in Uids : Len(Lives[u]) > 0 /\ \A v \in 1..Len(Lives[u]) :
       LET pod == Lives[u][v] IN
       pod.uid = u /\ pod.app # NoApp /\ pod.role # NoRole
  /\ MaxRestarts \in Nat /\ MaxTroubled \in Nat

VARIABLES
  last,          \* pod key -> the version the API server is at, 0 before the first
  gone,          \* the pods that were deleted there
  at,            \* pod key -> events of the pod whose callbacks have returned
  known,         \* the pods in the informer's cache
  event,         \* the event whose callback runs, NoEvent between two
  writing,       \* the document being written, NoDoc between two
  attempt,       \* its attempts that failed
  late,          \* requests without an answer that may still be applied
  unsure,        \* ids of documents that had such a request
  index,         \* document id -> document, in Elasticsearch
  lost,          \* ids whose last write was given up
  restarts

clusterVars == <<last, gone>>
watchVars == <<at, known, event>>
exportVars == <<attempt, late, unsure, index, lost>>
pubVars == <<vars, clusterVars, watchVars, writing, exportVars, restarts>>

WriteAttempts == 3

\* The document may get in trouble, within the bound.
MayTrouble(id) == Cardinality(lost \cup unsure \cup {id}) <= MaxTroubled

NoEvent == [type |-> "none"]
NoDoc == [id |-> "none"]

-----------------------------------------------------------------------------
(* Documents.                                                              *)

\* Mutant: the initial flag is not part of the id.
EventIdPlain(e) == [type |-> e.type, uid |-> e.uid, rv |-> e.rv, initial |-> FALSE]

\* The same event has the same id whenever it is written.
EventId(e) == [type |-> e.type, uid |-> e.uid, rv |-> e.rv, initial |-> e.initial]

EventDoc(e) == [id |-> EventId(e), initial |-> e.initial]

\* The application's summary: one id for all of its completions.
CompletionId(a) == [type |-> "APPLICATION_COMPLETED", app |-> a]

OutcomeOfPhase == [Succeeded |-> "succeeded", Failed |-> "failed"]

\* Mutant: a deletion is the outcome.
OutcomeRecorded(a) == apps[a].status

\* The driver's terminal phase, kept when it is deleted afterwards.
Outcome(a) ==
  IF DriverPhase(a) \in DOMAIN OutcomeOfPhase THEN OutcomeOfPhase[DriverPhase(a)]
  ELSE apps[a].status

CompletionDoc(a) ==
  [id |-> CompletionId(a), status |-> Outcome(a),
   finishedAt |-> apps[a].finishedAt, deletedAt |-> apps[a].deletedAt]

-----------------------------------------------------------------------------
(* The cluster.  The startup list is taken at one instant: what changes    *)
(* while it is delivered changes after it.                                 *)

Present == {u \in Uids : last[u] > 0 /\ u \notin gone}

\* Pods with events the watch has not reported.
Behind == {u \in Uids : at[u] < last[u] + (IF u \in gone THEN 1 ELSE 0)}

\* Bound of the model: the next event comes when the last is reported; what a
\* restart replays comes on top.
Cluster ==
  /\ ~seeding /\ Behind = {}
  /\ \E u \in Uids \ gone :
       \/ /\ last[u] < Len(Lives[u])
          /\ last' = [last EXCEPT ![u] = @ + 1]
          /\ UNCHANGED gone
       \/ /\ last[u] > 0
          /\ gone' = gone \cup {u}
          /\ UNCHANGED last
  /\ UNCHANGED <<vars, watchVars, writing, exportVars, restarts>>

-----------------------------------------------------------------------------
(* Callbacks.                                                              *)

Idle == event = NoEvent

\* The version an event carries; a deletion carries the last one.
PodOf(e) == Lives[e.uid][e.rv]

\* The store first, then the document of the event when it is exported.
Callback(u, type, rv, initial) ==
  LET e == [type |-> type, uid |-> u, rv |-> rv, initial |-> initial] IN
  /\ Idle
  /\ Upsert(PodOf(e), type = "DELETED", initial)
  /\ event' = e
  /\ writing' = IF type = "MODIFIED" THEN NoDoc ELSE EventDoc(e)
  /\ UNCHANGED <<clusterVars, at, exportVars, restarts>>

\* The startup snapshot.
OnAddInitial(u) ==
  /\ seeding /\ u \in Present \ known
  /\ Callback(u, "ADDED", last[u], TRUE)
  /\ known' = known \cup {u}

\* A version of a pod the cache lacks, replayed or not.
OnAdd(u) ==
  /\ ~seeding /\ at[u] < last[u] /\ u \notin known
  /\ Callback(u, "ADDED", at[u] + 1, FALSE)
  /\ known' = known \cup {u}

OnUpdate(u) ==
  /\ ~seeding /\ at[u] < last[u] /\ u \in known
  /\ Callback(u, "MODIFIED", at[u] + 1, FALSE)
  /\ UNCHANGED known

OnDelete(u) ==
  /\ ~seeding /\ u \in gone /\ at[u] = last[u]
  /\ Callback(u, "DELETED", last[u], FALSE)
  /\ known' = known \ {u}

\* The callback returns: its event is behind the watch.
Return ==
  /\ event' = NoEvent
  /\ writing' = NoDoc
  /\ at' = [at EXCEPT ![event.uid] =
              IF event.type = "DELETED" THEN event.rv + 1 ELSE event.rv]

\* Mutant: an application whose driver was deleted is not published.
FinishedLive(a) ==
  a \in DOMAIN apps /\ apps[a].finishedAt # NoTime /\ apps[a].deletedAt = NoTime

Finished(a) == a \in DOMAIN apps /\ apps[a].finishedAt # NoTime

Publishes(pod) == pod.role = "driver" /\ Finished(pod.app)

\* publishApplication: a driver's application is read when the document of the
\* event is out of the way, and written if it has finished.
PublishApplication ==
  /\ ~Idle /\ writing = NoDoc
  /\ IF Publishes(PodOf(event))
     THEN writing' = CompletionDoc(PodOf(event).app) /\ UNCHANGED <<event, at>>
     ELSE Return
  /\ UNCHANGED <<vars, clusterVars, known, exportVars, restarts>>

-----------------------------------------------------------------------------
(* The write loop.                                                         *)

\* The document is done with; the summary is the last one of a callback.
WriteEnds ==
  /\ attempt' = 0
  /\ IF writing.id = CompletionId(PodOf(event).app) THEN Return
     ELSE writing' = NoDoc /\ UNCHANGED <<event, at>>

\* 2xx.
Accept ==
  /\ index' = Put(index, writing.id, writing)
  /\ lost' = lost \ {writing.id}
  /\ UNCHANGED <<late, unsure>>
  /\ WriteEnds

\* Logged, and the callback goes on.
GiveUp ==
  /\ MayTrouble(writing.id)
  /\ lost' = lost \cup {writing.id}
  /\ WriteEnds

\* A 4xx other than 429 is final.
Reject == GiveUp /\ UNCHANGED <<late, unsure, index>>

\* Mutant: an attempt too many.
RetryOnceMore ==
  \/ /\ attempt < WriteAttempts
     /\ attempt' = attempt + 1
     /\ UNCHANGED <<lost, event, at, writing>>
  \/ attempt = WriteAttempts /\ GiveUp

\* Mutant: what failed does not count.
RetryForever == UNCHANGED <<attempt, lost, event, at, writing>>

Retry ==
  \/ /\ attempt + 1 < WriteAttempts
     /\ attempt' = attempt + 1
     /\ UNCHANGED <<lost, event, at, writing>>
  \/ attempt + 1 = WriteAttempts /\ GiveUp

\* 429, 5xx or a transport error of a request that was not applied.
Fail == Retry /\ UNCHANGED <<late, unsure, index>>

\* The attempt times out with its request on the way.
TimeOut ==
  /\ MayTrouble(writing.id)
  /\ late' = late \cup {writing}
  /\ unsure' = unsure \cup {writing.id}
  /\ UNCHANGED index
  /\ Retry

Attempt ==
  /\ writing # NoDoc
  /\ Accept \/ Reject \/ Fail \/ TimeOut
  /\ UNCHANGED <<vars, clusterVars, known, restarts>>

\* Elasticsearch applies a request nobody waits for.
Arrive ==
  /\ \E doc \in late :
       /\ index' = Put(index, doc.id, doc)
       /\ late' = late \ {doc}
  /\ UNCHANGED <<vars, clusterVars, watchVars, writing, attempt, unsure, lost, restarts>>

-----------------------------------------------------------------------------
(* The process.                                                            *)

\* The startup snapshot is delivered.
Start ==
  /\ Idle /\ Present \subseteq known
  /\ Synced
  /\ UNCHANGED <<clusterVars, watchVars, writing, exportVars, restarts>>

\* The last process of the model has no successor to save for.
Flush ==
  /\ restarts < MaxRestarts
  /\ Save
  /\ UNCHANGED <<clusterVars, watchVars, writing, exportVars, restarts>>

\* Mutant: a position is saved before the callback of its event returns.
ResumableAhead(u) == 0..(IF ~Idle /\ event.uid = u THEN at[u] + 1 ELSE at[u])

\* The events of a pod that a saved position can cover.
Resumable(u) == 0..at[u]

\* The process ends anywhere, a request possibly on its way, and a new one loads
\* the records last saved and an equally old or older position.
Die ==
  /\ restarts < MaxRestarts
  /\ restarts' = restarts + 1
  /\ Restart
  /\ clock' = IF clock > lastChanged THEN clock ELSE lastChanged + 1
  /\ at' \in {f \in [Uids -> UNION {Resumable(u) : u \in Uids}] :
                \A u \in Uids : f[u] \in Resumable(u)}
  /\ known' = {} /\ event' = NoEvent
  /\ writing' = NoDoc /\ attempt' = 0
  /\ \/ UNCHANGED <<late, unsure>>
     \/ /\ writing # NoDoc /\ MayTrouble(writing.id)
        /\ late' = late \cup {writing} /\ unsure' = unsure \cup {writing.id}
  /\ UNCHANGED <<clusterVars, index, lost>>

PubInit ==
  /\ Init
  /\ last = [u \in Uids |-> 0] /\ gone = {}
  /\ at = last /\ known = {} /\ event = NoEvent
  /\ writing = NoDoc /\ attempt = 0
  /\ late = {} /\ unsure = {} /\ index = Empty /\ lost = {}
  /\ restarts = 0

\* What happens while the process lives.
Publish ==
  \/ Cluster
  \/ \E u \in Uids : OnAddInitial(u) \/ OnAdd(u) \/ OnUpdate(u) \/ OnDelete(u)
  \/ PublishApplication
  \/ Attempt
  \/ Arrive
  \/ Start \/ Flush

PubNext == Publish \/ Die

\* An attempt ends at its timeout at the latest, and the callback goes on.
PubFairness == WF_pubVars(PublishApplication) /\ WF_pubVars(Attempt)

PubSpec == PubInit /\ [][PubNext]_pubVars /\ PubFairness

-----------------------------------------------------------------------------
(* Properties.                                                             *)

\* Every callback in progress has an event, every document an id of its own.
PubTypeOK ==
  /\ TypeOK
  /\ \A u \in Uids : last[u] \in 0..Len(Lives[u]) /\ at[u] \in 0..last[u] + 1
  /\ gone \subseteq Uids /\ known \subseteq Uids
  /\ Idle => writing = NoDoc
  /\ attempt \in 0..WriteAttempts - 1 /\ (writing = NoDoc => attempt = 0)
  /\ \A id \in DOMAIN index : index[id].id = id
  /\ \A doc \in late : doc.id \in unsure

\* Between two callbacks, with everything the watch has sent reported.
CaughtUp(u) == /\ Idle /\ ~seeding
               /\ at[u] = last[u] + (IF u \in gone THEN 1 ELSE 0)

TrueOutcome(u) ==
  LET pod == Lives[u][last[u]]
  IN IF Terminal(pod) THEN OutcomeOfPhase[pod.phase] ELSE "deleted"

\* "Driver success, failure or deletion completes an application" (README.md:103):
\* when its driver's events are all reported, an application known as finished has
\* a summary with the outcome the driver really had and the finish time on record,
\* over crashes, replays and snapshots, unless the last write of the summary was
\* given up or one of its requests never got an answer.
OutcomeExported ==
  \A u \in Uids : Lives[u][1].role = "driver" /\ CaughtUp(u) =>
    LET a == Lives[u][1].app
        id == CompletionId(a)
    IN a \in DOMAIN apps /\ apps[a].finishedAt # NoTime /\ id \notin lost \cup unsure =>
         /\ id \in DOMAIN index
         /\ index[id].status = TrueOutcome(u)
         /\ index[id].finishedAt = apps[a].finishedAt

\* "All adds and deletes ... are written as separate ES documents" (README.md:27):
\* every pod whose addition or deletion is behind the watch has that document,
\* or its write was given up, whatever crash came between.
EventsExported ==
  \A u \in Uids :
    LET Has(type) == \E id \in DOMAIN index \cup lost :
                       id.type = type /\ id.uid = u
    IN /\ at[u] > 0 => Has("ADDED")
       /\ at[u] > last[u] => Has("DELETED")

\* "INITIAL adds ... cannot replace a real ADDED event" (client.go:108).
RealAddedKept ==
  [][\A id \in DOMAIN index :
       id.type = "ADDED" /\ ~index[id].initial => ~index'[id].initial]_pubVars

\* "A driver deleted after success/failure retains that completion outcome"
\* (README.md:131), within a process also when older requests are applied late.
OutcomeKept ==
  [][\A id \in DOMAIN index :
       id.type = "APPLICATION_COMPLETED" /\ restarts' = 0
         /\ index[id].status \in {"succeeded", "failed"} =>
         index'[id].status = index[id].status]_pubVars

\* "after retries are exhausted, the error is logged and watch processing
\* continues" (README.md:65): every callback returns, even when Elasticsearch
\* never answers.
CallbacksReturn == ~Idle ~> Idle
=============================================================================
