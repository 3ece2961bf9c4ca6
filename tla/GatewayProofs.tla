---------------------------- MODULE GatewayProofs ----------------------------
(***************************************************************************)
(* Proofs about Gateway, for all limits, precisions and times.             *)
(***************************************************************************)
EXTENDS Gateway, Integers, FiniteSetTheorems, TLAPS

\* Division with remainder.
LEMMA Division ==
  ASSUME NEW n \in Nat, NEW m \in Nat \ {0}
  PROVE  /\ n \div m \in Nat /\ n % m \in 0..(m - 1)
         /\ n = (m * (n \div m)) + (n % m)
OBVIOUS

\* Two steps more.
LEMMA TwoMore ==
  ASSUME NEW m \in Nat, NEW p \in Nat
  PROVE  m * (p + 2) = (m * p) + m + m
OBVIOUS

\* A time is moved by less than a grain, and by at most half a grain upwards.
LEMMA Rounding ==
  ASSUME NEW t \in Nat
  PROVE  /\ Written(t) \in Nat
         /\ Written(t) <= t + (Grain \div 2)
         /\ t + (Grain \div 2) < Written(t) + Grain
<1> DEFINE n == t + (Grain \div 2)
           k == n \div Grain
<1>1. Grain \in Nat \ {0} /\ Grain \div 2 \in Nat
  BY GatewayAssumption, Division
<1>2. n \in Nat
  BY <1>1
<1>3. Written(t) = Grain * k
  BY <1>1, <1>2, Division DEF Written
<1>. HIDE DEF n
<1>4. k \in Nat /\ n % Grain \in 0..(Grain - 1) /\ n = (Grain * k) + (n % Grain)
  BY <1>1, <1>2, Division
<1>5. Grain * k \in Nat
  BY <1>1, <1>4
<1>. QED
  BY <1>1, <1>2, <1>3, <1>4, <1>5 DEF n

\* Rounding lengthens the range of a query by less than a grain.
LEMMA WrittenRange ==
  ASSUME NEW s \in Nat, NEW e \in Nat
  PROVE  Written(e) - Written(s) < (e - s) + Grain
<1>1. Grain \in Nat \ {0} /\ Grain \div 2 \in Nat
  BY GatewayAssumption, Division
<1>. QED
  BY <1>1, Rounding

\* A query that is let through is evaluated within MaxPoints + 2 steps.
LEMMA RangeBounded ==
  ASSUME NEW q \in Queries, Accepted(q)
  PROVE  /\ q.step \in Nat \ {0}
         /\ Written(q.start) \in Nat /\ Written(q.end) \in Nat
         /\ Written(q.end) - Written(q.start) < q.step * (MaxPoints + 2)
<1> DEFINE d == q.end - q.start
           m == q.step
           k == d \div m
<1>1. /\ q.start \in Nat /\ q.end \in Nat /\ m \in Nat
      /\ MinStep \in Nat \ {0} /\ Grain \in Nat /\ Grain <= MinStep /\ MaxPoints \in Nat
  BY GatewayAssumption DEF Queries
<1>2. d \in Nat /\ m \in Nat \ {0} /\ Grain <= m /\ k <= MaxPoints
  BY <1>1 DEF Accepted
<1>3. Written(q.end) - Written(q.start) < d + Grain
  BY <1>1, WrittenRange
<1>4. Written(q.start) \in Nat /\ Written(q.end) \in Nat
  BY <1>1, Rounding
<1>. HIDE DEF d, m
<1>5. k \in Nat /\ d % m \in 0..(m - 1) /\ d = (m * k) + (d % m)
  BY <1>2, Division
<1>. HIDE DEF k
<1>6. m * k <= m * MaxPoints /\ m * k \in Nat /\ m * MaxPoints \in Nat
  BY <1>1, <1>2, <1>5
<1>7. m * (MaxPoints + 2) = (m * MaxPoints) + m + m
  BY <1>1, <1>2, TwoMore
<1>8. Written(q.end) - Written(q.start) < m * (MaxPoints + 2)
  BY <1>1, <1>2, <1>3, <1>4, <1>5, <1>6, <1>7
<1>. QED
  BY <1>2, <1>4, <1>8 DEF m

\* The instants are numbered by the steps from the start.
LEMMA FewInstants ==
  ASSUME NEW q \in Queries, Accepted(q)
  PROVE  Cardinality(Evaluated(q)) <= MaxPoints + 2
<1> DEFINE s == Written(q.start)
           nth == [t \in Evaluated(q) |-> (t - s) \div q.step]
<1>1. /\ q.step \in Nat \ {0} /\ s \in Nat /\ Written(q.end) \in Nat
      /\ Written(q.end) - s < q.step * (MaxPoints + 2)
      /\ MaxPoints \in Nat
  BY RangeBounded, GatewayAssumption
<1>. HIDE DEF s
<1>2. ASSUME NEW t \in Evaluated(q)
      PROVE  /\ nth[t] \in 0..(MaxPoints + 1)
             /\ t = s + q.step * nth[t]
  <2> DEFINE k == (t - s) \div q.step
  <2>1. t \in s..Written(q.end) /\ (t - s) % q.step = 0
    BY DEF Evaluated, s
  <2>2. t - s \in Nat /\ t \in Nat
    BY <1>1, <2>1
  <2>3. k \in Nat /\ t - s = (q.step * k) + ((t - s) % q.step)
    BY <1>1, <2>2, Division
  <2>4. nth[t] = k
    OBVIOUS
  <2>. HIDE DEF k, nth
  <2>5. q.step * k < q.step * (MaxPoints + 2) /\ q.step * k \in Nat /\ t = s + q.step * k
    BY <1>1, <2>1, <2>2, <2>3
  <2>6. k < MaxPoints + 2
    BY <1>1, <2>3, <2>5
  <2>. QED
    BY <1>1, <2>3, <2>4, <2>5, <2>6
<1>3. nth \in [Evaluated(q) -> 0..(MaxPoints + 1)]
  BY <1>2
<1>4. \A t, u \in Evaluated(q) : nth[t] = nth[u] => t = u
  <2>. HIDE DEF nth
  <2>. QED
    BY <1>2
<1>. HIDE DEF nth
<1>5. nth \in Injection(Evaluated(q), 0..(MaxPoints + 1))
  BY <1>3, <1>4, Zenon DEF Injection, IsInjective
<1>6. /\ IsFiniteSet(0..(MaxPoints + 1))
      /\ Cardinality(0..(MaxPoints + 1)) = MaxPoints + 2
  BY <1>1, FS_Interval
<1>7. Cardinality(Evaluated(q)) <= Cardinality(0..(MaxPoints + 1))
  BY <1>5, <1>6, FS_Injection, Zenon
<1>. QED
  BY <1>6, <1>7

-----------------------------------------------------------------------------
(* The gateway of a process that can end at any time, as in MCOutbound.    *)

GatewaySpec == GatewayInit /\ [][GatewayNext \/ Ended]_gatewayVars

\* "Cap the number of samples per series" (prometheus_controller.go:81): whatever
\* the limits, the precision, the start, the end and the step are, a query that is
\* let through is evaluated at no more than maxPointsPerSeries instants and two.
THEOREM SamplesCapped == GatewaySpec => []SamplesBounded
<1>1. SamplesBounded
  <2>1. \A q \in LetThrough : q \in Queries /\ Accepted(q)
    BY DEF LetThrough
  <2>2. \A q \in LetThrough : Cardinality(Evaluated(q)) <= MaxPoints + 2
    BY <2>1, FewInstants
  <2>3. \A q \in LetThrough : IsFiniteSet(Evaluated(q))
    <3> SUFFICES ASSUME NEW q \in LetThrough
                 PROVE  IsFiniteSet(Evaluated(q))
      OBVIOUS
    <3>1. Written(q.start) \in Int /\ Written(q.end) \in Int
      BY <2>1, RangeBounded
    <3>2. IsFiniteSet(Written(q.start)..Written(q.end))
      BY <3>1, FS_Interval
    <3>. QED
      BY <3>2, FS_Subset DEF Evaluated
  <2>4. \A q \in LetThrough : Cardinality(Evaluated(q)) \in Nat
    BY <2>3, FS_CardinalityType
  <2>5. \A q \in LetThrough : ~(Cardinality(Evaluated(q)) > MaxPoints + 2)
    BY <2>2, <2>4, GatewayAssumption
  <2>6. Overlong = {}
    BY <2>5 DEF Overlong
  <2>. QED
    BY <2>6 DEF SamplesBounded
<1>. QED
  BY <1>1, PTL

\* One query makes at most three attempts, and outlives its caller only in a
\* back-off (client.go:121-166).
THEOREM QueryTypes == GatewaySpec => []GatewayTypeOK
<1>1. GatewayInit => GatewayTypeOK
  BY DEF GatewayInit, GatewayTypeOK, QueryAttempts
<1>2. GatewayTypeOK /\ [GatewayNext \/ Ended]_gatewayVars => GatewayTypeOK'
  <2> SUFFICES ASSUME GatewayTypeOK, [GatewayNext \/ Ended]_gatewayVars
               PROVE  GatewayTypeOK'
    OBVIOUS
  <2>. USE DEF GatewayTypeOK, QueryAttempts
  <2>1. CASE Ask
    BY <2>1 DEF Ask
  <2>2. CASE Answered
    BY <2>2 DEF Answered, Ended
  <2>3. CASE AttemptFails
    BY <2>3 DEF AttemptFails, TryAgain, Ended
  <2>4. CASE HangUp
    BY <2>4 DEF HangUp, Ended
  <2>5. CASE Resume
    BY <2>5 DEF Resume, Ended
  <2>6. CASE UNCHANGED gatewayVars
    BY <2>6 DEF gatewayVars
  <2>7. CASE Ended
    BY <2>7 DEF Ended
  <2>. QED
    BY <2>1, <2>2, <2>3, <2>4, <2>5, <2>6, <2>7 DEF GatewayNext, Serve
<1>. QED
  BY <1>1, <1>2, PTL DEF GatewaySpec
=============================================================================
