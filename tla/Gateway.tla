------------------------------- MODULE Gateway -------------------------------
(***************************************************************************)
(* The Prometheus gateway: what GET /api/v1/prometheus/query_range lets    *)
(* through (internal/controller/prometheus_controller.go) and how one      *)
(* query is sent, with up to three attempts, while its caller waits        *)
(* (internal/prometheus/client.go).  Times and steps are numbers of a unit *)
(* of time.                                                                *)
(***************************************************************************)
EXTENDS Naturals, FiniteSets

CONSTANTS
  MinStep, MaxStep,   \* minStep, maxStep
  MaxRange,           \* maxRange
  MaxPoints,          \* maxPointsPerSeries
  Grain,              \* the precision of the times Prometheus is sent
  LastInstant         \* bound of the model: the times it looks at

ASSUME GatewayAssumption ==
  /\ MinStep \in Nat \ {0} /\ MaxStep \in Nat /\ MaxRange \in Nat
  /\ MaxPoints \in Nat /\ LastInstant \in Nat
  /\ Grain \in Nat \ {0} /\ Grain <= MinStep

VARIABLES
  query,      \* "none", "sent", or "backoff" between two attempts
  failures,   \* the attempts of the query that failed
  caller      \* whether the caller still waits for the answer

gatewayVars == <<query, failures, caller>>

QueryAttempts == 3

-----------------------------------------------------------------------------
(* Validation.                                                             *)

Queries == [start : 0..LastInstant, end : 0..LastInstant, step : 0..LastInstant]

\* Mutant: the number of points is not looked at.
AcceptedLong(q) ==
  /\ q.start <= q.end /\ q.end - q.start <= MaxRange
  /\ MinStep <= q.step /\ q.step <= MaxStep

Accepted(q) ==
  /\ q.start <= q.end /\ q.end - q.start <= MaxRange
  /\ MinStep <= q.step /\ q.step <= MaxStep
  /\ (q.end - q.start) \div q.step <= MaxPoints

LetThrough == {q \in Queries : Accepted(q)}

\* A time as formatTime writes it and Prometheus reads it: to the nearest grain.
Written(t) == ((t + Grain \div 2) \div Grain) * Grain

\* What Prometheus evaluates: the instants from the start, a step apart.
Evaluated(q) ==
  {t \in Written(q.start)..Written(q.end) : (t - Written(q.start)) % q.step = 0}

-----------------------------------------------------------------------------
(* One query.                                                              *)

\* The query is over, or the process is.
Ended == query' = "none" /\ failures' = 0 /\ caller' = TRUE

\* A request that passes validation is sent on; another one is refused at once.
Ask ==
  /\ query = "none"
  /\ LetThrough # {}
  /\ query' = "sent"
  /\ UNCHANGED <<failures, caller>>

\* Mutant: an attempt too many.
TryOnceMore ==
  /\ failures + 1 <= QueryAttempts
  /\ query' = "backoff"
  /\ failures' = failures + 1
  /\ UNCHANGED caller

\* Mutant: what failed does not count.
TryUncounted == query' = "backoff" /\ UNCHANGED <<failures, caller>>

TryAgain ==
  /\ failures + 1 < QueryAttempts
  /\ query' = "backoff"
  /\ failures' = failures + 1
  /\ UNCHANGED caller

\* 2xx with a matrix; or an answer that is final: another status, a body that is
\* too large or does not decode, a query Prometheus refuses.
Answered == query = "sent" /\ Ended

\* 429, 5xx, a transport error or the timeout of the attempt.
AttemptFails ==
  /\ query = "sent"
  /\ TryAgain \/ (failures + 1 = QueryAttempts /\ Ended)

\* The caller hangs up.  The request in flight is cancelled, which is one more
\* attempt that failed.
HangUp ==
  /\ caller
  /\ \/ /\ query = "sent" /\ failures + 1 < QueryAttempts
        /\ query' = "backoff" /\ failures' = failures + 1
        /\ caller' = FALSE
     \/ query = "sent" /\ failures + 1 = QueryAttempts /\ Ended
     \/ query = "backoff" /\ caller' = FALSE /\ UNCHANGED <<query, failures>>

\* The back-off ends: with the caller gone the query does, too.
Resume ==
  /\ query = "backoff"
  /\ \/ caller /\ query' = "sent" /\ UNCHANGED <<failures, caller>>
     \/ ~caller /\ Ended

Serve == Answered \/ AttemptFails \/ Resume

GatewayInit == query = "none" /\ failures = 0 /\ caller = TRUE
GatewayNext == Ask \/ Serve \/ HangUp

\* Every attempt ends at its timeout at the latest, and every back-off ends.
GatewayFairness == WF_gatewayVars(Serve)

-----------------------------------------------------------------------------
(* Properties.                                                             *)

\* A query that waits has failed once or twice, and only such a query outlives
\* its caller: three requests are the most that one query makes.
GatewayTypeOK ==
  /\ query \in {"none", "sent", "backoff"}
  /\ failures \in 0..QueryAttempts - 1
  /\ query = "none" => failures = 0
  /\ query = "backoff" => failures > 0
  /\ ~caller => query = "backoff"

Overlong == {q \in LetThrough : Cardinality(Evaluated(q)) > MaxPoints + 2}

\* "Cap the number of samples per series" (prometheus_controller.go:81): whatever
\* the start, end and step, Prometheus never evaluates a query at more than
\* maxPointsPerSeries instants and the two that the whole division and the
\* rounding of the times let by.
SamplesBounded == query = "sent" => Overlong = {}

\* Every query ends, with an answer or an error, even if Prometheus never answers
\* (client.go:121).
QueriesEnd == query # "none" ~> query = "none"
=============================================================================
