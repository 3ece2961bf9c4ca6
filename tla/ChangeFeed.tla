----------------------------- MODULE ChangeFeed -----------------------------
(***************************************************************************)
(* The incremental feed of applications (GET /api/v1/applications) over    *)
(* the store, and a consumer that follows the README: it keeps the         *)
(* changedAt of the last record it received and asks for what changed      *)
(* strictly after it.  GetChanges takes the read lock twice: once to match *)
(* and copy the records, once to join each with its driver's record; the   *)
(* store may change in between.  The server starts after the startup       *)
(* snapshot is delivered (main.go:106-139).                                *)
(***************************************************************************)
EXTENDS StateStore

CONSTANTS
  PageLimit,   \* the records of a page (limit)
  Filters      \* the status filters a consumer may have, {} for none

ASSUME FeedAssumption == PageLimit \in Nat \ {0} /\ Filters \subseteq SUBSET Statuses

VARIABLES
  cursor,   \* the consumer's since
  seen,     \* applicationId -> the last view the consumer received
  page,     \* matched records of the request being served, Empty when none
  wanted    \* the consumer's filter

feedVars == <<cursor, seen, page, wanted>>
allVars == <<vars, feedVars>>

Matches(rec) == wanted = {} \/ rec.status \in wanted

\* Mutant: the feed leaves out deleted applications.
ChangedLive ==
  {a \in DOMAIN apps : /\ apps[a].changedAt > cursor /\ Matches(apps[a])
                       /\ apps[a].deletedAt = NoTime}

Changed == {a \in DOMAIN apps : apps[a].changedAt > cursor /\ Matches(apps[a])}

\* The earliest records after since, at most a page, in copies.
Pages ==
  {[a \in first |-> apps[a]] :
     first \in Earliest([a \in Changed |-> apps[a].changedAt], PageLimit)}

\* First critical section: the records are matched and copied.
ReadPage ==
  /\ ~seeding /\ page = Empty /\ Changed # {}
  /\ page' \in Pages
  /\ UNCHANGED <<vars, cursor, seen, wanted>>

\* The records joined with their drivers.
Views(records) ==
  [a \in DOMAIN records |-> [record |-> records[a], driverPhase |-> DriverPhase(a)]]

\* The consumer upserts every view by application and keeps the changedAt of the
\* last record.
Receives(records) ==
  /\ seen' = [a \in DOMAIN seen \cup DOMAIN records |->
                IF a \in DOMAIN records THEN Views(records)[a] ELSE seen[a]]
  /\ cursor' = Latest(records)

\* Second critical section, and the answer arrives.
JoinPage ==
  /\ page # Empty
  /\ Receives(page)
  /\ page' = Empty
  /\ UNCHANGED <<vars, wanted>>

\* A whole request during which nothing else happens.
Request ==
  /\ ~seeding /\ Changed # {}
  /\ \E records \in Pages : Receives(records)
  /\ UNCHANGED <<vars, page, wanted>>

\* The answer is lost; the consumer will ask again from the same cursor.
LosePage ==
  /\ page # Empty
  /\ page' = Empty
  /\ UNCHANGED <<vars, cursor, seen, wanted>>

\* Stop saved what was dirty; requests in flight are gone.
GracefulRestart ==
  /\ ~dirty
  /\ Restart
  /\ page' = Empty
  /\ UNCHANGED <<cursor, seen, wanted>>

FeedInit ==
  /\ Init
  /\ cursor = NoTime /\ seen = Empty /\ page = Empty
  /\ wanted \in Filters

FeedNext ==
  \/ Operate /\ UNCHANGED feedVars
  \/ ReadPage
  \/ JoinPage
  \/ LosePage
  \/ GracefulRestart

\* The consumer keeps polling and some answer arrives between two restarts;
\* the startup snapshot is always delivered in the end.
FeedFairness ==
  /\ WF_allVars(Synced /\ UNCHANGED feedVars)
  /\ SF_allVars(ReadPage)
  /\ SF_allVars(JoinPage)

FeedSpec == FeedInit /\ [][FeedNext]_allVars
FairFeedSpec == FeedSpec /\ FeedFairness

-----------------------------------------------------------------------------
(* Properties.                                                             *)

View0 == [record : ApplicationRecord, driverPhase : Phases \cup {""}]

\* The consumer's position, its copies and the page being served are well typed.
FeedTypeOK ==
  /\ TypeOK
  /\ cursor \in Nat
  /\ Partial(seen, Apps, View0)
  /\ Partial(page, Apps, ApplicationRecord)
  /\ wanted \in Filters

\* "delivery is at-least-once" (README.md:220): the consumer has received the
\* present lifecycle of every application its cursor has passed.  Whatever it
\* lacks is still ahead of the cursor, across pages, lost answers, changes in
\* the middle of a request, eviction and restarts.  A consumer with a filter has
\* those that match it.
FeedNeverSkips ==
  \A a \in DOMAIN apps : apps[a].changedAt <= cursor /\ Matches(apps[a]) =>
    a \in DOMAIN seen /\ Lifecycle(seen[a].record) = Lifecycle(apps[a])

Torn(view) ==
  /\ view.record.status # "deleted"
  /\ view.driverPhase # ""
  /\ StatusOfPhase[view.driverPhase] # view.record.status

\* The two critical sections of GetChanges can join a record with the driver
\* phase of a later change.  Such a view is never the last word: the feed still
\* holds a newer record of the application.
TornViewsSuperseded ==
  \A a \in DOMAIN seen \cap DOMAIN apps :
    Torn(seen[a]) /\ Matches(apps[a]) => apps[a].changedAt > cursor

Outstanding(t) == cursor < t /\ \E a \in DOMAIN apps : apps[a].changedAt = t /\ Matches(apps[a])

\* Every change is delivered, superseded or evicted.
ChangesDelivered == \A t \in 1..MaxTime : Outstanding(t) ~> ~Outstanding(t)
=============================================================================
