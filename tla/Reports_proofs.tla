--------------------------- MODULE Reports_proofs ---------------------------
(***************************************************************************)
(* What a report says of a panel: the draw of the panel (StratifiedSample),*)
(* verdicts on age bands (OpportunityMatrix), polls of one question        *)
(* (ChoicePolls), the policy poll (CampusReport), customer segments        *)
(* (SegmentTags), calibrated shares (Calibration) and the priority poll    *)
(* (PriorityPoll); and what all parts of an evaluation keep together.      *)
(***************************************************************************)
EXTENDS MCEvaluation, Panel_proofs

\* The least of some numbers.
LEMMA MinIs ==
    ASSUME NEW T, T \subseteq Nat, T /= {} PROVE Min(T) \in T /\ \A y \in T: Min(T) <= y
BY LeastNatural DEF Min

---------------------------------------------------------------------------
(***************************************************************************)
(* The draw (StratifiedSample).                                            *)
(***************************************************************************)
\* There are four tiers.
LEMMA FourTiers ==
    ASSUME NEW f, \A t \in Tiers: f[t] \in Int
    PROVE  Sum(f) = f[1] + f[2] + f[3] + f[4] /\ Sum(f) \in Int
<1>1. f[1] \in Int /\ f[2] \in Int /\ f[3] \in Int /\ f[4] \in Int
  BY DEF Tiers
<1>2. IsFiniteSet({}) /\ Total(f, {}) = 0
  BY FS_EmptySet, TotalEmpty
<1>3. ASSUME NEW S, IsFiniteSet(S), S \subseteq Tiers, NEW e \in Tiers, e \notin S
      PROVE  IsFiniteSet(S \cup {e}) /\ Total(f, S \cup {e}) = Total(f, S) + f[e] /\ Total(f, S) \in Int
  <2>1. f[e] \in Int /\ \A x \in S: f[x] \in Int
    BY <1>3
  <2>2. IsFiniteSet(S \cup {e})
    BY <1>3, FS_AddElement
  <2>3. QED BY <1>3, <2>1, <2>2, TotalAdd
<1>4. /\ {} \cup {1} = {1} /\ {1} \cup {2} = {1, 2} /\ {1, 2} \cup {3} = {1, 2, 3}
      /\ {1, 2, 3} \cup {4} = {1, 2, 3, 4}
      /\ {1} \subseteq Tiers /\ {1, 2} \subseteq Tiers /\ {1, 2, 3} \subseteq Tiers
      /\ 1 \in Tiers /\ 2 \in Tiers /\ 3 \in Tiers /\ 4 \in Tiers
      /\ 2 \notin {1} /\ 3 \notin {1, 2} /\ 4 \notin {1, 2, 3}
  BY DEF Tiers
<1>5. /\ IsFiniteSet({1}) /\ Total(f, {1}) = f[1]
      /\ IsFiniteSet({1, 2}) /\ Total(f, {1, 2}) = f[1] + f[2]
      /\ IsFiniteSet({1, 2, 3}) /\ Total(f, {1, 2, 3}) = f[1] + f[2] + f[3]
  <2>1. IsFiniteSet({1}) /\ Total(f, {1}) = 0 + f[1]
    BY <1>2, <1>3, <1>4
  <2>2. IsFiniteSet({1, 2}) /\ Total(f, {1, 2}) = Total(f, {1}) + f[2]
    <3>1. IsFiniteSet({1} \cup {2}) /\ Total(f, {1} \cup {2}) = Total(f, {1}) + f[2]
      BY <2>1, <1>3, <1>4
    <3>2. QED BY <1>4, <3>1
  <2>3. IsFiniteSet({1, 2, 3}) /\ Total(f, {1, 2, 3}) = Total(f, {1, 2}) + f[3]
    <3>1. IsFiniteSet({1, 2} \cup {3}) /\ Total(f, {1, 2} \cup {3}) = Total(f, {1, 2}) + f[3]
      BY <2>2, <1>3, <1>4
    <3>2. QED BY <1>4, <3>1
  <2>4. QED BY <1>1, <2>1, <2>2, <2>3
<1>6. Total(f, {1, 2, 3, 4}) = f[1] + f[2] + f[3] + f[4]
  BY <1>5, <1>3, <1>4
<1>7. Tiers = {1, 2, 3, 4} /\ Sum(f) = Total(f, Tiers)
  BY DEF Tiers, Sum, Total
<1>8. QED BY <1>1, <1>6, <1>7

\* Every tier with people has somebody in the sample, and no more than it has.
Heeded == \A t \in Tiers: drawn[t] <= size[t] /\ (size[t] > 0 => drawn[t] > 0)

\* The inductive invariant: from the minimums on every tier is heeded, and what is
\* left to hand out is never negative, but for a request below one seat per tier.
DrawInv ==
    /\ size \in [Tiers -> Nat] /\ request \in Nat \ {0}
    /\ drawn \in [Tiers -> Nat] /\ left \in Int /\ visited \subseteq Tiers
    /\ draw \in {"read", "fill", "weigh", "asked", "empty"}
    /\ poll \in [Tiers -> {-1, 0, 1}]
    /\ draw \in {"read", "empty"} => \A t \in Tiers: drawn[t] = 0
    /\ draw \in {"fill", "weigh", "asked"} =>
         /\ Heeded /\ Population > 0
         /\ left = Smaller(request, Population) - Sum(drawn)
         /\ left >= 0 \/ (request < 4 /\ Sum(drawn) \in request..4)
    /\ draw \in {"weigh", "asked"} => left <= 0

\* A population and a request begin with nobody drawn.
LEMMA DrawInitInv == DrawInit => DrawInv
<1> SUFFICES ASSUME DrawInit PROVE DrawInv
  OBVIOUS
<1>1. size \in [Tiers -> Nat] /\ request \in Nat \ {0}
  BY DrawConstants DEF DrawInit
<1>2. QED BY <1>1 DEF DrawInit, DrawInv

\* What the four minimums take, and that they fit a request of four or more.
LEMMA MinimumsTaken ==
    ASSUME DrawInv, draw = "read", TakeMinimums
    PROVE  DrawInv'
<1> DEFINE n == Smaller(request, Population)
           q == Quota(n)
<1>1. /\ size \in [Tiers -> Nat] /\ request \in Nat \ {0}
      /\ size[1] \in Nat /\ size[2] \in Nat /\ size[3] \in Nat /\ size[4] \in Nat
  BY DEF DrawInv, Tiers
<1>2. Population = size[1] + size[2] + size[3] + size[4]
  BY <1>1, FourTiers DEF Population, Tiers
<1>3. n \in Nat \ {0} /\ n <= request /\ n <= Population /\ (n = request \/ n = Population)
  BY <1>1, <1>2 DEF Smaller, TakeMinimums
<1> HIDE DEF n
<1>4. /\ \A t \in Tiers: q[t] \in Nat /\ q[t] >= 1
      /\ n >= 4 => q[1] + q[2] + q[3] + q[4] <= n
      /\ n < 4 => q[1] = 1 /\ q[2] = 1 /\ q[3] = 1 /\ q[4] = 1
  <2>1. /\ q[1] = IF 130 > n THEN Larger(1, (40 * n) \div 130) ELSE 40
        /\ q[2] = IF 130 > n THEN Larger(1, (40 * n) \div 130) ELSE 40
        /\ q[3] = IF 130 > n THEN Larger(1, (20 * n) \div 130) ELSE 20
        /\ q[4] = IF 130 > n THEN Larger(1, (30 * n) \div 130) ELSE 30
    BY DEF Quota, Minimum, MinimumTotal, Tiers
  <2>2. \A m \in 0..40: (m * n) \div 130 \in Nat
    BY <1>3
  <2> HIDE DEF q
  <2>3. q[1] \in Nat /\ q[2] \in Nat /\ q[3] \in Nat /\ q[4] \in Nat
        /\ q[1] >= 1 /\ q[2] >= 1 /\ q[3] >= 1 /\ q[4] >= 1
    BY <1>3, <2>1, <2>2 DEF Larger
  <2>4. n >= 4 => q[1] + q[2] + q[3] + q[4] <= n
    BY <1>3, <2>1 DEF Larger
  <2>5. n < 4 => q[1] = 1 /\ q[2] = 1 /\ q[3] = 1 /\ q[4] = 1
    BY <1>3, <2>1 DEF Larger
  <2>6. QED BY <2>3, <2>4, <2>5 DEF Tiers
<1> HIDE DEF q
<1>5. /\ drawn' = [t \in Tiers |-> Smaller(q[t], size[t])]
      /\ left' = n - Sum(drawn') /\ draw' = "fill" /\ Population > 0
      /\ UNCHANGED <<size, request, visited, poll>>
  BY DEF TakeMinimums, n, q
<1>6. /\ \A t \in Tiers: drawn'[t] \in Nat /\ drawn'[t] <= size[t] /\ drawn'[t] <= q[t]
                         /\ (size[t] > 0 => drawn'[t] > 0)
      /\ drawn' \in [Tiers -> Nat]
  BY <1>1, <1>4, <1>5 DEF Smaller
<1>7. /\ Sum(drawn') = drawn'[1] + drawn'[2] + drawn'[3] + drawn'[4] /\ Sum(drawn') \in Nat
      /\ drawn'[1] \in Nat /\ drawn'[2] \in Nat /\ drawn'[3] \in Nat /\ drawn'[4] \in Nat
  BY <1>6, FourTiers DEF Tiers
<1>8. left' >= 0 \/ (request < 4 /\ Sum(drawn') \in request..4)
  <2>0. /\ drawn'[1] <= q[1] /\ drawn'[2] <= q[2] /\ drawn'[3] <= q[3] /\ drawn'[4] <= q[4]
        /\ drawn'[1] <= size[1] /\ drawn'[2] <= size[2] /\ drawn'[3] <= size[3] /\ drawn'[4] <= size[4]
        /\ q[1] \in Nat /\ q[2] \in Nat /\ q[3] \in Nat /\ q[4] \in Nat
    BY <1>4, <1>6 DEF Tiers
  <2>1. CASE n >= 4
    BY <1>3, <1>4, <1>5, <1>7, <2>0, <2>1
  <2>2. CASE n < 4 /\ n = Population
    BY <1>1, <1>2, <1>3, <1>5, <1>7, <2>0, <2>2
  <2>3. CASE n < 4 /\ n = request
    BY <1>1, <1>3, <1>4, <1>5, <1>7, <2>0, <2>3
  <2>4. QED BY <1>3, <2>1, <2>2, <2>3
<1>9. Population' = Population
  BY <1>5 DEF Population
<1>10. QED BY <1>3, <1>5, <1>6, <1>7, <1>8, <1>9 DEF DrawInv, Heeded, n

\* A visited tier gets no more than it has and no more than is left.
LEMMA TierVisited ==
    ASSUME DrawInv, NEW t \in Tiers, VisitTier(t)
    PROVE  DrawInv'
<1>1. /\ size \in [Tiers -> Nat] /\ request \in Nat \ {0} /\ drawn \in [Tiers -> Nat] /\ left \in Int
      /\ draw = "fill" /\ left > 0 /\ Heeded /\ Population > 0
      /\ left = Smaller(request, Population) - Sum(drawn)
      /\ size[t] \in Nat /\ drawn[t] \in Nat /\ drawn[t] <= size[t]
  BY DEF DrawInv, VisitTier, Heeded
<1>2. Population \in Nat
  BY <1>1, FourTiers DEF Population, Tiers
<1> DEFINE take == IF size[t] > drawn[t] THEN Share(t) ELSE 0
<1>3. take \in Nat /\ take <= left /\ take <= size[t] - drawn[t]
  <2>1. CASE size[t] > drawn[t]
    <3>1. PICK a \in Int: a = left * size[t]
      BY <1>1
    <3>2. a \div Population \in Int
      BY <1>2, <1>1, <3>1
    <3>3. Rounded(a, Population) \in Int
      BY <3>2 DEF Rounded
    <3>4. PICK r \in Int: r = Rounded(left * size[t], Population)
      BY <3>1, <3>3
    <3>5. PICK g \in Int: g >= 1 /\ g = Larger(1, r)
      BY DEF Larger
    <3>6. Share(t) = Smaller(Smaller(size[t] - drawn[t], g), left)
      BY <3>4, <3>5 DEF Share
    <3>7. QED BY <1>1, <2>1, <3>5, <3>6 DEF Smaller
  <2>2. QED BY <1>1, <2>1
<1> HIDE DEF take
<1>4. /\ drawn' = [drawn EXCEPT ![t] = drawn[t] + take]
      /\ left' = left - take /\ visited' \subseteq Tiers
      /\ UNCHANGED <<size, request, draw, poll>>
  BY DEF VisitTier, take, DrawInv
<1>5. /\ drawn' \in [Tiers -> Nat] /\ \A s \in Tiers: drawn'[s] = IF s = t THEN drawn[t] + take ELSE drawn[s]
  BY <1>1, <1>3, <1>4
<1>6. Sum(drawn') = Sum(drawn) + take /\ Sum(drawn) \in Int
  <2>1. /\ Sum(drawn) = drawn[1] + drawn[2] + drawn[3] + drawn[4] /\ Sum(drawn) \in Int
        /\ Sum(drawn') = drawn'[1] + drawn'[2] + drawn'[3] + drawn'[4]
    BY <1>1, <1>5, FourTiers
  <2>2. drawn[1] \in Nat /\ drawn[2] \in Nat /\ drawn[3] \in Nat /\ drawn[4] \in Nat /\ t \in {1, 2, 3, 4}
    BY <1>1 DEF Tiers
  <2>3. QED BY <1>3, <1>5, <2>1, <2>2 DEF Tiers
<1>7. Heeded'
  BY <1>1, <1>3, <1>4, <1>5 DEF Heeded
<1>8. Population' = Population
  BY <1>4 DEF Population
<1>9. Smaller(request, Population) \in Int
  BY <1>1, <1>2 DEF Smaller
<1>10. left' = Smaller(request', Population') - Sum(drawn') /\ left' >= 0 /\ left' \in Int
  BY <1>1, <1>3, <1>4, <1>6, <1>8, <1>9
<1>11. QED BY <1>1, <1>4, <1>5, <1>7, <1>8, <1>10 DEF DrawInv

\* Minimums, visits and opinions keep the sample within the tiers.
LEMMA DrawNextInv == DrawInv /\ [DrawNext]_drawVars => DrawInv'
<1> SUFFICES ASSUME DrawInv, [DrawNext]_drawVars PROVE DrawInv'
  OBVIOUS
<1>1. CASE ReadNobody
  <2>1. Population' = Population
    BY <1>1 DEF ReadNobody, Population
  <2>2. QED BY <1>1, <2>1 DEF ReadNobody, DrawInv
<1>2. CASE TakeMinimums
  BY <1>2, MinimumsTaken DEF TakeMinimums
<1>3. ASSUME NEW t \in Tiers, VisitTier(t) PROVE DrawInv'
  BY <1>3, TierVisited
<1>4. CASE Filled
  <2>1. Population' = Population /\ Sum(drawn') = Sum(drawn) /\ (Heeded <=> Heeded')
    BY <1>4 DEF Filled, Population, Heeded
  <2>2. QED BY <1>4, <2>1 DEF Filled, DrawInv
<1>5. CASE AskTiers
  <2>1. Population' = Population /\ Sum(drawn') = Sum(drawn) /\ (Heeded <=> Heeded')
    BY <1>5 DEF AskTiers, Population, Heeded
  <2>2. QED BY <1>5, <2>1 DEF AskTiers, DrawInv
<1>6. CASE UNCHANGED drawVars
  <2>1. Population' = Population /\ Sum(drawn') = Sum(drawn) /\ (Heeded <=> Heeded')
    BY <1>6 DEF drawVars, Population, Heeded
  <2>2. QED BY <1>6, <2>1 DEF drawVars, DrawInv
<1>7. QED BY <1>1, <1>2, <1>3, <1>4, <1>5, <1>6 DEF DrawNext

\* The weight of a tier's answers in the net support: its people, times the sample.
LEMMA PartIs ==
    ASSUME NEW z \in Nat, NEW d \in Nat \ {0}, NEW s \in Nat, NEW p \in Nat \ {0}
    PROVE  (p * d * (z * s)) \div (p * d) = z * s
<1>1. PICK m \in Nat \ {0}: m = p * d
  <2>1. p * d \in Nat /\ p * d > 0
    OBVIOUS
  <2>2. QED BY <2>1
<1>2. PICK x \in Nat: x = z * s
  OBVIOUS
<1>3. m * x = x * m /\ m * x \in Nat
  OBVIOUS
<1>4. (m * x) \div m = x
  BY <1>3
<1>5. QED BY <1>1, <1>2, <1>4

\* The inductive invariant gives the property.
LEMMA DrawInvRepresents == DrawInv => SampleRepresents
<1> SUFFICES ASSUME DrawInv PROVE SampleRepresents
  OBVIOUS
<1>1. /\ size \in [Tiers -> Nat] /\ drawn \in [Tiers -> Nat] /\ request \in Nat \ {0}
      /\ poll \in [Tiers -> {-1, 0, 1}]
  BY DEF DrawInv
<1>2. Population \in Int /\ Sum(drawn) \in Int
  BY <1>1, FourTiers DEF Population, Tiers
<1>3. Smaller(request, Population) \in Int /\ (Smaller(request, Population) = request \/ Smaller(request, Population) = Population)
  BY <1>1, <1>2 DEF Smaller
<1>4. Cardinality(Tiers) = 4
  <2>1. 1 \in Int /\ 4 \in Int
    OBVIOUS
  <2>2. Cardinality(1..4) = IF 1 > 4 THEN 0 ELSE 4 - 1 + 1
    BY <2>1, FS_Interval, Zenon
  <2>3. QED BY <2>2 DEF Tiers
<1>5. SampleFills
  <2>1. \A t \in Tiers: drawn[t] <= size[t]
    BY <1>1 DEF DrawInv, Heeded
  <2>2. ASSUME draw \in {"weigh", "asked"}
        PROVE  Sum(drawn) = Smaller(request, Population) \/ (request < 4 /\ Sum(drawn) \in request..4)
    BY <1>1, <1>2, <1>3, <2>2 DEF DrawInv
  <2>3. QED BY <1>4, <2>1, <2>2 DEF SampleFills
<1>6. EveryTierHeard
  BY DEF EveryTierHeard, DrawInv, Heeded
<1>7. ASSUME draw = "asked" PROVE SupportIsPopulations
  <2>1. Heeded /\ Population > 0
    BY <1>7 DEF DrawInv
  <2> DEFINE s == Sum(drawn)
             f == [t \in Tiers |-> Part(t, Population)]
             g == [t \in Tiers |-> poll[t] * Part(t, Population)]
             h == [t \in Tiers |-> poll[t] * size[t]]
  <2>2. s \in Nat
    BY <1>1, FourTiers DEF Tiers
  <2>3. ASSUME NEW t \in Tiers PROVE Part(t, Population) = size[t] * s
    <3>1. CASE drawn[t] = 0
      <4>1. size[t] = 0 /\ Weight(t) = <<0, 1>>
        BY <1>1, <2>1, <3>1 DEF Heeded, Weight
      <4>2. Population * drawn[t] * 0 = 0
        BY <1>1, <1>2
      <4>3. QED BY <4>1, <4>2, <2>2 DEF Part
    <3>2. CASE drawn[t] /= 0
      <4>1. drawn[t] \in Nat \ {0} /\ size[t] \in Nat /\ Population \in Nat \ {0}
        BY <1>1, <1>2, <2>1, <3>2
      <4>2. Part(t, Population) = (Population * drawn[t] * (size[t] * s)) \div (Population * drawn[t])
        BY <3>2 DEF Part, Weight
      <4>3. QED BY <2>2, <4>1, <4>2, PartIs
    <3>3. QED BY <3>1, <3>2
  <2> HIDE DEF s
  <2>4. \A t \in Tiers: size[t] \in Nat /\ poll[t] \in Int
    BY <1>1
  <2>5. /\ \A t \in Tiers: f[t] = size[t] * s /\ f[t] \in Int
        /\ \A t \in Tiers: g[t] = poll[t] * (size[t] * s) /\ g[t] \in Int
        /\ \A t \in Tiers: h[t] = poll[t] * size[t] /\ h[t] \in Int
    BY <2>2, <2>3, <2>4
  <2>6. /\ Sum(f) = f[1] + f[2] + f[3] + f[4] /\ Sum(g) = g[1] + g[2] + g[3] + g[4]
        /\ Sum(h) = h[1] + h[2] + h[3] + h[4]
        /\ Population = size[1] + size[2] + size[3] + size[4]
    <3> HIDE DEF f, g, h
    <3>1. QED BY <2>4, <2>5, FourTiers DEF Population
  <2> HIDE DEF f, g, h
  <2>7. /\ size[1] \in Int /\ size[2] \in Int /\ size[3] \in Int /\ size[4] \in Int
        /\ h[1] \in Int /\ h[2] \in Int /\ h[3] \in Int /\ h[4] \in Int
        /\ f[1] = size[1] * s /\ f[2] = size[2] * s /\ f[3] = size[3] * s /\ f[4] = size[4] * s
    BY <2>4, <2>5 DEF Tiers
  <2>8. \A t \in Tiers: g[t] = h[t] * s
    BY <2>2, <2>4, <2>5
  <2>9. g[1] = h[1] * s /\ g[2] = h[2] * s /\ g[3] = h[3] * s /\ g[4] = h[4] * s
    BY <2>8 DEF Tiers
  <2>10. Sum(f) = Population * s
    BY <2>2, <2>6, <2>7
  <2>11. Sum(g) = Sum(h) * s /\ Sum(h) \in Int
    BY <2>2, <2>6, <2>7, <2>9
  <2>12. PICK x \in Int: x = Sum(h)
    BY <2>11
  <2>13. (x * s) * Population = (Population * s) * x
    BY <1>2, <2>2
  <2>14. Sum(g) * Population = Sum(f) * Sum(h)
    BY <2>10, <2>11, <2>12, <2>13
  <2>15. QED BY <2>14 DEF SupportIsPopulations, f, g, h
<1>8. SupportIsPopulations
  BY <1>7 DEF SupportIsPopulations
<1>9. QED BY <1>5, <1>6, <1>8 DEF SampleRepresents

---------------------------------------------------------------------------
(***************************************************************************)
(* Opportunities and verdicts (OpportunityMatrix).                         *)
(***************************************************************************)
\* The indicators of a band are percentages.
Percent == 0..100
Vector == [accept: Percent, need: Percent, price: Percent, trust: Percent, rivals: Percent]

\* Rounding to tens leaves a percentage.
LEMMA NearestPercent ==
    ASSUME NEW a \in Nat PROVE Nearest(a, 10) \in Percent
<1>1. a \div 10 \in Nat
  OBVIOUS
<1>2. QED BY <1>1 DEF Nearest, Percent

\* Every indicator of a band is a percentage.
LEMMA IndicatorsTyped ==
    ASSUME NEW s \in Shares, NEW m \in Moods, NEW p \in Mentions, NEW t \in Mentions, NEW o \in Mentions
    PROVE  Indicators(s, m, p, t, o) \in Vector
<1>1. s \in Percent /\ p \in Percent /\ t \in Percent /\ o \in Percent
      /\ (m = <<>> \/ (m[1] \in Percent /\ m[2] \in Percent))
  BY MatrixConstants DEF Percent
<1>2. /\ 8 * s + 150 \in Nat /\ 6 * (100 - s) + 4 * o \in Nat
      /\ m /= <<>> => 6 * s + 4 * m[1] \in Nat /\ 7 * m[2] + 3 * m[1] \in Nat
  <2>1. \A a, b \in Percent: /\ 8 * a + 150 \in Nat /\ 6 * (100 - a) + 4 * b \in Nat
                             /\ 6 * a + 4 * b \in Nat /\ 7 * a + 3 * b \in Nat
    BY DEF Percent
  <2>2. QED BY <1>1, <2>1
<1>3. /\ Nearest(8 * s + 150, 10) \in Percent /\ Nearest(6 * (100 - s) + 4 * o, 10) \in Percent
      /\ m /= <<>> => Nearest(6 * s + 4 * m[1], 10) \in Percent /\ Nearest(7 * m[2] + 3 * m[1], 10) \in Percent
  BY <1>2, NearestPercent
<1>4. 90 \in Percent
  BY DEF Percent
<1>5. QED BY <1>1, <1>3, <1>4 DEF Indicators, Vector

\* Rows keep the indicators they were made of, and only the best band is sweet.
MatrixInv ==
    /\ bands \in Seq(Vector)
    /\ matrix /= <<>> =>
         /\ bands /= <<>> /\ DOMAIN matrix = DOMAIN bands
         /\ \A i \in DOMAIN bands:
              /\ matrix[i].v = bands[i]
              /\ matrix[i].sweet <=> Len(bands) > 1 /\ i = Best /\ Opportunity(bands[i]) > 120
    /\ verdicts /= <<>> =>
         /\ matrix /= <<>>
         /\ verdicts.bands = [i \in DOMAIN matrix |-> Verdict(matrix[i])]
         /\ verdicts.overall = Verdict(matrix[Spokesman])

\* No band is scored at first.
LEMMA MatrixInitInv == MatrixInit => MatrixInv
BY DEF MatrixInit, MatrixInv

\* A band is scored, the best is marked, the rows are judged.
LEMMA MatrixNextInv == MatrixInv /\ [MatrixNext]_matrixVars => MatrixInv'
<1> SUFFICES ASSUME MatrixInv, [MatrixNext]_matrixVars PROVE MatrixInv'
  OBVIOUS
<1>1. CASE ScoreBand
  <2>1. PICK s \in Shares, m \in Moods, p \in Mentions, t \in Mentions, o \in Mentions:
          bands' = Append(bands, Indicators(s, m, p, t, o))
    BY <1>1 DEF ScoreBand
  <2>2. bands' \in Seq(Vector)
    BY <2>1, IndicatorsTyped DEF MatrixInv
  <2>3. matrix' = <<>> /\ (verdicts' /= <<>> => verdicts /= <<>> /\ matrix /= <<>>) /\ matrix = <<>>
    BY <1>1 DEF ScoreBand, MatrixInv
  <2>4. QED BY <2>2, <2>3 DEF MatrixInv
<1>2. CASE MarkSweet
  <2>1. /\ bands' = bands /\ matrix = <<>> /\ bands /= <<>> /\ verdicts' = verdicts
        /\ matrix' = [i \in DOMAIN bands |->
             [v |-> bands[i], sweet |-> /\ Len(bands) > 1 /\ i = Best
                                        /\ Opportunity(bands[i]) > 3 * 40]]
    BY <1>2 DEF MarkSweet
  <2>2. Best' = Best
    BY <2>1 DEF Best
  <2>3. DOMAIN matrix' = DOMAIN bands'
    BY <2>1
  <2>4. ASSUME NEW i \in DOMAIN bands
        PROVE  /\ matrix'[i].v = bands'[i]
               /\ matrix'[i].sweet <=> Len(bands') > 1 /\ i = Best' /\ Opportunity(bands'[i]) > 120
    BY <2>1, <2>2
  <2>5. verdicts = <<>>
    BY <2>1 DEF MatrixInv
  <2>6. QED BY <2>1, <2>3, <2>4, <2>5 DEF MatrixInv
<1>3. CASE Judge
  <2>1. /\ bands' = bands /\ matrix' = matrix /\ matrix /= <<>>
        /\ verdicts' = [bands |-> [i \in DOMAIN matrix |-> Verdict(matrix[i])],
                        overall |-> Verdict(matrix[Spokesman])]
    BY <1>3 DEF Judge
  <2>2. Best' = Best /\ Spokesman' = Spokesman
    BY <2>1 DEF Best, Spokesman
  <2>3. QED BY <2>1, <2>2 DEF MatrixInv
<1>4. CASE UNCHANGED matrixVars
  <2>1. bands' = bands /\ matrix' = matrix /\ verdicts' = verdicts
    BY <1>4 DEF matrixVars
  <2>2. Best' = Best /\ Spokesman' = Spokesman
    BY <2>1 DEF Best, Spokesman
  <2>3. QED BY <2>1, <2>2 DEF MatrixInv
<1>5. QED BY <1>1, <1>2, <1>3, <1>4 DEF MatrixNext



\* The opportunity of a band.
LEMMA OpportunityIs ==
    ASSUME NEW v \in Vector
    PROVE  /\ Opportunity(v) = 3 * v.accept + 3 * v.need - v.price - v.trust - v.rivals
           /\ Opportunity(v) \in Int /\ Opportunity(v) <= 600
<1>1. /\ v.accept \in Percent /\ v.need \in Percent /\ v.price \in Percent
      /\ v.trust \in Percent /\ v.rivals \in Percent
  BY DEF Vector
<1>2. \A a, b, c, d, e \in Percent:
        /\ 3 * (a + b) - (c + d + e) = 3 * a + 3 * b - c - d - e
        /\ 3 * (a + b) - (c + d + e) \in Int /\ 3 * (a + b) - (c + d + e) <= 600
  BY DEF Percent
<1>3. PICK a \in Percent, b \in Percent, c \in Percent, d \in Percent, e \in Percent:
        a = v.accept /\ b = v.need /\ c = v.price /\ d = v.trust /\ e = v.rivals
  BY <1>1
<1>4. Opportunity(v) = 3 * (a + b) - (c + d + e)
  BY <1>3 DEF Opportunity
<1>5. 3 * v.accept + 3 * v.need - v.price - v.trust - v.rivals = 3 * a + 3 * b - c - d - e
  BY <1>3
<1>6. QED BY <1>2, <1>4, <1>5

\* No band has more opportunity than the best one.
LEMMA BestIs ==
    ASSUME bands \in Seq(Vector), bands /= <<>>
    PROVE  /\ Best \in DOMAIN bands
           /\ \A j \in DOMAIN bands: Opportunity(bands[j]) <= Opportunity(bands[Best])
<1> DEFINE Opp(i) == Opportunity(bands[i])
           T == {600 - Opp(i): i \in DOMAIN bands}
           B == {i \in DOMAIN bands: \A j \in DOMAIN bands: Opp(j) <= Opp(i)}
<1>1. \A i \in DOMAIN bands: Opp(i) \in Int /\ Opp(i) <= 600
  <2> SUFFICES ASSUME NEW i \in DOMAIN bands PROVE Opp(i) \in Int /\ Opp(i) <= 600
    OBVIOUS
  <2>1. bands[i] \in Vector
    BY ElementOfSeq
  <2>2. QED BY <2>1, OpportunityIs
<1>2. 1 \in DOMAIN bands /\ DOMAIN bands \subseteq Nat
  OBVIOUS
<1> HIDE DEF Opp
<1>3. T \subseteq Nat /\ T /= {}
  BY <1>1, <1>2
<1>4. PICK x \in T: \A y \in T: x <= y
  BY <1>3, LeastNatural
<1>5. PICK i \in DOMAIN bands: x = 600 - Opp(i)
  OBVIOUS
<1>6. \A j \in DOMAIN bands: Opp(j) <= Opp(i)
  <2>1. \A j \in DOMAIN bands: 600 - Opp(i) <= 600 - Opp(j)
    BY <1>4, <1>5
  <2>2. QED BY <1>1, <2>1
<1>7. B /= {} /\ B \subseteq Nat
  BY <1>2, <1>6
<1>8. Min(B) \in B
  BY <1>7, MinIs
<1>9. Best = Min(B)
  BY DEF Best, Opp
<1>10. QED BY <1>8, <1>9 DEF Opp

\* What the verdicts say: the middle one needs no mark, the best one does.
LEMMA VerdictIs ==
    ASSUME NEW band
    PROVE  /\ Verdict(band) = "attractive" <=> band.sweet /\ TopRisk(band.v) < 45
           /\ Rank(Verdict(band)) = IF band.sweet /\ TopRisk(band.v) < 45 THEN 2
                ELSE IF band.v.accept + band.v.need >= 110 \/ (band.v.need >= 60 /\ band.v.accept < 55) THEN 1
                ELSE 0
BY DEF Verdict, Rank

\* A better band has more opportunity.
LEMMA BetterIsMore ==
    ASSUME NEW a \in Vector, NEW b \in Vector, Dominates(a, b)
    PROVE  /\ Opportunity(a) > Opportunity(b)
           /\ b.accept + b.need >= 110 \/ (b.need >= 60 /\ b.accept < 55) =>
                a.accept + a.need >= 110 \/ (a.need >= 60 /\ a.accept < 55)
<1>1. /\ a.accept \in Int /\ a.need \in Int /\ a.price \in Int /\ a.trust \in Int /\ a.rivals \in Int
      /\ b.accept \in Int /\ b.need \in Int /\ b.price \in Int /\ b.trust \in Int /\ b.rivals \in Int
  BY DEF Vector, Percent
<1>2. ~(/\ a.accept = b.accept /\ a.need = b.need /\ a.price = b.price /\ a.trust = b.trust
        /\ a.rivals = b.rivals)
  BY DEF Vector, Dominates
<1>3. /\ a.accept >= b.accept /\ a.need >= b.need
      /\ a.price <= b.price /\ a.trust <= b.trust /\ a.rivals <= b.rivals
  BY DEF Dominates
<1>4. /\ Opportunity(a) = 3 * a.accept + 3 * a.need - a.price - a.trust - a.rivals
      /\ Opportunity(b) = 3 * b.accept + 3 * b.need - b.price - b.trust - b.rivals
  BY OpportunityIs
<1>5. \A x1, x2, x3, x4, x5, y1, y2, y3, y4, y5 \in Int:
        /\ ~(x1 = y1 /\ x2 = y2 /\ x3 = y3 /\ x4 = y4 /\ x5 = y5)
        /\ x1 >= y1 /\ x2 >= y2 /\ x3 <= y3 /\ x4 <= y4 /\ x5 <= y5
        => /\ 3 * x1 + 3 * x2 - x3 - x4 - x5 > 3 * y1 + 3 * y2 - y3 - y4 - y5
           /\ y1 + y2 >= 110 \/ (y2 >= 60 /\ y1 < 55) => x1 + x2 >= 110 \/ (x2 >= 60 /\ x1 < 55)
  OBVIOUS
<1>6. QED BY <1>1, <1>2, <1>3, <1>4, <1>5

\* The inductive invariant gives the two properties.
LEMMA VerdictsFollow == MatrixInv => BetterBandNoWorseVerdict /\ OverallSpeaksForABand
<1> SUFFICES ASSUME MatrixInv, verdicts /= <<>> PROVE BetterBandNoWorseVerdict /\ OverallSpeaksForABand
  BY DEF BetterBandNoWorseVerdict, OverallSpeaksForABand
<1>1. /\ bands \in Seq(Vector) /\ matrix /= <<>> /\ bands /= <<>> /\ DOMAIN matrix = DOMAIN bands
      /\ \A i \in DOMAIN bands:
              /\ matrix[i].v = bands[i]
              /\ matrix[i].sweet <=> Len(bands) > 1 /\ i = Best /\ Opportunity(bands[i]) > 120
      /\ verdicts.bands = [i \in DOMAIN matrix |-> Verdict(matrix[i])]
      /\ verdicts.overall = Verdict(matrix[Spokesman])
  BY DEF MatrixInv
<1>2. /\ Best \in DOMAIN bands
      /\ \A j \in DOMAIN bands: Opportunity(bands[j]) <= Opportunity(bands[Best])
  BY <1>1, BestIs
<1>3. \A i \in DOMAIN bands: bands[i] \in Vector
  BY <1>1, ElementOfSeq
<1>4. ASSUME NEW i \in DOMAIN matrix, NEW j \in DOMAIN matrix, Dominates(matrix[i].v, matrix[j].v)
      PROVE  Rank(verdicts.bands[i]) >= Rank(verdicts.bands[j])
  <2>1. /\ matrix[i].v \in Vector /\ matrix[j].v \in Vector
        /\ matrix[i].v = bands[i] /\ matrix[j].v = bands[j]
    BY <1>1, <1>3
  <2>2. /\ Opportunity(bands[i]) > Opportunity(bands[j])
        /\ matrix[j].v.accept + matrix[j].v.need >= 110 \/ (matrix[j].v.need >= 60 /\ matrix[j].v.accept < 55) =>
             matrix[i].v.accept + matrix[i].v.need >= 110 \/ (matrix[i].v.need >= 60 /\ matrix[i].v.accept < 55)
    BY <1>4, <2>1, BetterIsMore
  <2>3. Opportunity(bands[i]) \in Int /\ Opportunity(bands[j]) \in Int
    BY <1>1, <1>3, OpportunityIs
  <2>4. ~matrix[j].sweet
    <3>1. SUFFICES ASSUME matrix[j].sweet PROVE FALSE
      OBVIOUS
    <3>2. j = Best /\ i \in DOMAIN bands
      BY <1>1, <3>1
    <3>3. Opportunity(bands[i]) <= Opportunity(bands[j])
      BY <1>2, <3>2
    <3>4. QED BY <2>2, <2>3, <3>3
  <2>5. Rank(verdicts.bands[i]) = Rank(Verdict(matrix[i])) /\ Rank(verdicts.bands[j]) = Rank(Verdict(matrix[j]))
    BY <1>1
  <2>6. QED BY <2>2, <2>4, <2>5, VerdictIs
<1>5. OverallSpeaksForABand
  <2>1. \A i \in DOMAIN matrix: verdicts.bands[i] = "attractive" <=> matrix[i].sweet /\ TopRisk(matrix[i].v) < 45
    BY <1>1, VerdictIs
  <2>2. verdicts.overall = "attractive" <=> matrix[Spokesman].sweet /\ TopRisk(matrix[Spokesman].v) < 45
    BY <1>1, VerdictIs
  <2>3. CASE \E i \in DOMAIN matrix: matrix[i].sweet
    <3>1. {i \in DOMAIN matrix: matrix[i].sweet} = {Best} /\ Len(bands) > 1
      BY <1>1, <2>3
    <3>2. Best \in Nat
      BY <1>1, <1>2
    <3>3. Min({Best}) = Best
      BY <3>2, MinIs
    <3>4. Spokesman = Best
      BY <2>3, <3>1, <3>3 DEF Spokesman
    <3>5. Best \in DOMAIN matrix /\ \A i \in DOMAIN matrix: matrix[i].sweet => i = Best
      BY <1>1, <1>2
    <3>6. QED BY <2>1, <2>2, <3>1, <3>4, <3>5 DEF OverallSpeaksForABand
  <2>4. CASE ~ \E i \in DOMAIN matrix: matrix[i].sweet
    <3>1. Spokesman = 1 /\ 1 \in DOMAIN matrix
      BY <1>1, <2>4 DEF Spokesman
    <3>2. QED BY <2>1, <2>2, <2>4, <3>1 DEF OverallSpeaksForABand
  <2>5. QED BY <2>3, <2>4
<1>6. QED BY <1>4, <1>5 DEF BetterBandNoWorseVerdict

---------------------------------------------------------------------------
(***************************************************************************)
(* Polls of one question (ChoicePolls).                                    *)
(***************************************************************************)
\* What a parser makes of a reply: nothing that is broken down is not counted.
Read == {e \in [value: Int, mark: Int, pays: Int, refuses: BOOLEAN]: e.value = Absent => e.mark = Absent}

\* The forms whose parser knows the options.
Closed == {"creative", "launch", "brand", "churn", "open"}

\* An entry holds the value it was made of.
LEMMA EntryIs ==
    ASSUME NEW v \in Int
    PROVE  /\ Entry(v) \in Read /\ Entry(v).value = v /\ Unparsed \in Read /\ Unparsed.value = Absent
           /\ Entry(v) = [value |-> v, mark |-> v, pays |-> Absent, refuses |-> FALSE]
<1>1. -1 \in Int
  OBVIOUS
<1>2. Unparsed = [value |-> -1, mark |-> -1, pays |-> -1, refuses |-> FALSE]
  BY DEF Unparsed, Absent
<1>3. Entry(v) = [value |-> v, mark |-> v, pays |-> -1, refuses |-> FALSE]
  BY DEF Entry, Absent
<1>4. QED BY <1>1, <1>2, <1>3 DEF Read, Absent

\* The readers of letters, words and digits give an option or nothing.
LEMMA ReadersTyped ==
    ASSUME NEW reply \in TextReplies
    PROVE  /\ Letter(reply, Options) \in Options \cup {Absent}
           /\ Letter(reply, 1..Letters) \in (1..Letters) \cup {Absent}
           /\ Label(reply) \in Options \cup {Absent}
           /\ Score(reply) \in Options \cup {Absent}
           /\ reply.line \in Int /\ reply.second \in Int
<1>1. /\ reply.line \in Options \cup {Absent, Letters} /\ reply.second \in Options \cup {Absent}
      /\ Letters \in Nat /\ Offered \in Nat
  BY PollFormConstants DEF TextReplies
<1>2. reply.line \in Int /\ reply.second \in Int
  BY <1>1 DEF Options, Absent
<1>3. Score(reply) \in Options \cup {Absent}
  BY DEF Score
<1>4. Label(reply) \in Options \cup {Absent}
  <2> DEFINE named == {reply.text[i]: i \in DOMAIN reply.text} \cap Options
  <2>1. named \subseteq Nat /\ named \subseteq Options
    BY <1>1 DEF Options
  <2>2. Label(reply) = IF reply.line \in Options THEN reply.line ELSE IF named = {} THEN Absent ELSE Min(named)
    BY DEF Label
  <2> HIDE DEF named
  <2>3. named /= {} => Min(named) \in named
    BY <2>1, MinIs
  <2>4. QED BY <2>1, <2>2, <2>3
<1>5. ASSUME NEW valid, valid = Options \/ valid = 1..Letters
      PROVE  Letter(reply, valid) \in valid \cup {Absent}
  <2> DEFINE named == {i \in DOMAIN reply.text: reply.text[i] \in valid}
  <2>1. named \subseteq Nat
    <3>1. reply.text \in {<<>>} \cup {<<a>>: a \in 1..Letters} \cup {<<a, b>>: a, b \in 1..Letters}
      BY DEF TextReplies
    <3>2. DOMAIN reply.text \subseteq {1, 2}
      BY <3>1
    <3>3. QED BY <3>2
  <2>2. Letter(reply, valid) = IF reply.line \in valid THEN reply.line
                              ELSE IF named = {} THEN Absent ELSE reply.text[Min(named)]
    BY DEF Letter
  <2>3. named /= {} => Min(named) \in named
    <3> HIDE DEF named
    <3>1. QED BY <2>1, MinIs
  <2>4. QED BY <2>2, <2>3
<1>6. QED BY <1>2, <1>3, <1>4, <1>5

\* Every reader gives an entry, and the closed forms give options.
LEMMA ReadingTyped ==
    ASSUME form \in Forms, NEW reply,
           reply \in IF form = "price" THEN PriceReplies ELSE TextReplies
    PROVE  /\ Reading(reply) \in Read
           /\ form \in Closed => Reading(reply).value \in Options \cup {Absent}
<1>1. \A v \in Int: Entry(v) \in Read /\ Entry(v).value = v /\ Unparsed \in Read /\ Unparsed.value = Absent
  BY EntryIs
<1>2. Options \cup {Absent} \subseteq Int /\ (1..Letters) \cup {Absent} \subseteq Int /\ 0 \in Int
  BY PollFormConstants DEF Options, Absent
<1>3. CASE form = "price"
  <2>1. reply \in PriceReplies
    BY <1>3
  <2>2. reply.line \in Int /\ reply.pays \in Int
    BY <2>1, PollFormConstants DEF PriceReplies, Options, Absent
  <2>3. Reading(reply) = Price(reply)
    BY <1>3 DEF Reading
  <2>4. CASE reply.line = Absent \/ reply.intent = "none"
    BY <1>1, <1>2, <1>3, <2>3, <2>4 DEF Price, Closed
  <2>5. CASE ~(reply.line = Absent \/ reply.intent = "none")
    <3>1. Price(reply) =
          [value |-> reply.line, mark |-> reply.line,
           pays |-> IF reply.pays > 0 THEN reply.pays ELSE reply.line, refuses |-> reply.intent = "refuse"]
      BY <2>5 DEF Price
    <3>2. Price(reply) \in Read
      BY <2>2, <2>5, <3>1 DEF Read
    <3>3. QED BY <1>3, <2>3, <3>2 DEF Closed
  <2>6. QED BY <2>4, <2>5
<1>4. CASE form /= "price"
  <2>1. reply \in TextReplies
    BY <1>4
  <2>2. /\ Letter(reply, Options) \in Options \cup {Absent}
        /\ Letter(reply, 1..Letters) \in (1..Letters) \cup {Absent}
        /\ Label(reply) \in Options \cup {Absent}
        /\ Score(reply) \in Options \cup {Absent}
        /\ reply.line \in Int /\ reply.second \in Int
    BY <2>1, ReadersTyped
  <2>3. Absent \in Options \cup {Absent} /\ Absent \in Int
    BY <1>2
  <2>4. CASE form = "creative"
    BY <1>1, <1>2, <2>2, <2>4 DEF Reading, Creative
  <2>5. CASE form = "launch"
    BY <1>1, <1>2, <2>2, <2>3, <2>5 DEF Reading, Launch
  <2>6. CASE form = "value"
    BY <1>1, <1>2, <2>2, <2>6 DEF Reading, Value, Closed
  <2>7. CASE form = "competitive"
    BY <1>1, <1>2, <2>2, <2>7 DEF Reading, Competitive, Closed
  <2>8. CASE form = "brand"
    BY <1>1, <1>2, <2>2, <2>8 DEF Reading, Brand
  <2>9. CASE form = "churn"
    BY <1>1, <1>2, <2>2, <2>9 DEF Reading, Churn
  <2>10. CASE form = "open"
    BY <1>1, <1>2, <2>2, <2>3, <2>10 DEF Reading, OpenChoice
  <2>11. CASE form = "qa"
    BY <1>1, <1>2, <2>2, <2>11 DEF Reading, ProductQA, Closed
  <2>12. CASE form = "campaign"
    <3>1. Reading(reply) = Campaign(reply) /\ form \notin Closed
      BY <2>12 DEF Reading, Closed
    <3>2. CASE reply.line = Absent \/ reply.second = Absent
      BY <1>1, <3>1, <3>2, <2>2 DEF Campaign
    <3>3. CASE ~(reply.line = Absent \/ reply.second = Absent)
      <4>3. Campaign(reply) = [value |-> reply.line, mark |-> reply.second, pays |-> Absent, refuses |-> FALSE]
        BY <3>3 DEF Campaign
      <4>4. Campaign(reply) \in Read
        BY <2>2, <2>3, <3>3, <4>3 DEF Read
      <4>5. QED BY <3>1, <4>4
    <3>4. QED BY <3>2, <3>3
  <2>13. QED BY <1>4, <2>4, <2>5, <2>6, <2>7, <2>8, <2>9, <2>10, <2>11, <2>12 DEF Forms
<1>5. QED BY <1>3, <1>4

\* The aggregate is one of the answers, and says of them what every form says.
ChoiceInv ==
    /\ form \in Forms
    /\ parsed \in Seq(Read)
    /\ form \in Closed => \A i \in DOMAIN parsed: parsed[i].value \in Options \cup {Absent}
    /\ tally.ready =>
         /\ Len(parsed) = Len(Groups)
         /\ tally.total = Totals.total /\ tally.failed = Totals.failed
         /\ tally.counts = Totals.counts /\ tally.segments = Totals.segments
         /\ form /= "price" => tally.off = 0
         /\ form = "price" => tally.off = Off /\ tally.headline = Recommended

\* Nobody has replied at first.
LEMMA ChoiceInitInv == ChoiceInit => ChoiceInv
BY DEF ChoiceInit, ChoiceInv, NoTally

\* A report of any form begins with the same figures.
LEMMA ReportsAgree ==
    ASSUME form \in Forms, Conclude
    PROVE  /\ tally'.total = Totals.total /\ tally'.failed = Totals.failed
           /\ tally'.counts = Totals.counts /\ tally'.segments = Totals.segments
           /\ form /= "price" => tally'.off = 0
           /\ form = "price" => tally'.off = Off /\ tally'.headline = Recommended
<1>1. \A x: LET t == [Totals EXCEPT !.headline = x] IN
        /\ t.total = Totals.total /\ t.failed = Totals.failed
        /\ t.counts = Totals.counts /\ t.segments = Totals.segments /\ t.off = 0
  BY DEF Totals
<1>2. Totals.off = 0
  BY DEF Totals
<1>3. LET t == PriceReport IN
        /\ t.total = Totals.total /\ t.failed = Totals.failed
        /\ t.counts = Totals.counts /\ t.segments = Totals.segments
        /\ t.off = Off /\ t.headline = Recommended
  BY DEF PriceReport, Totals
<1>4. CASE form = "price"
  BY <1>3, <1>4 DEF Conclude
<1>5. CASE form \in {"creative", "open"}
  BY <1>2, <1>5 DEF Conclude, CreativeReport, OpenReport
<1>6. CASE form \in {"launch", "value", "competitive", "churn", "qa"}
  BY <1>1, <1>6 DEF Conclude, LaunchReport, ValueReport, CompetitiveReport, ChurnReport, ProductQAReport
<1>7. CASE form = "brand"
  BY <1>1, <1>7 DEF Conclude, BrandReport
<1>8. CASE form = "campaign"
  BY <1>1, <1>8 DEF Conclude, CampaignReport
<1>9. QED BY <1>4, <1>5, <1>6, <1>7, <1>8 DEF Forms

\* A reply is read, or the answers are counted.
LEMMA ChoiceNextInv == ChoiceInv /\ [ChoiceNext]_choiceVars => ChoiceInv'
<1> SUFFICES ASSUME ChoiceInv, [ChoiceNext]_choiceVars PROVE ChoiceInv'
  OBVIOUS
<1>a. form \in Forms /\ parsed \in Seq(Read)
  BY DEF ChoiceInv
<1>1. CASE Reply
  <2>1. ~tally.ready /\ tally' = tally /\ form' = form
    BY <1>1 DEF Reply, NoTally
  <2>2. PICK e \in Read: parsed' = Append(parsed, e) /\ (form \in Closed => e.value \in Options \cup {Absent})
    <3>1. CASE parsed' = Append(parsed, Unparsed)
      <4>1. Unparsed \in Read /\ Unparsed.value = Absent
        BY EntryIs
      <4>2. QED BY <3>1, <4>1
    <3>2. ASSUME NEW reply \in IF form = "price" THEN PriceReplies ELSE TextReplies,
                 parsed' = Append(parsed, Reading(reply))
          PROVE  \E e \in Read: parsed' = Append(parsed, e) /\ (form \in Closed => e.value \in Options \cup {Absent})
      BY <1>a, <3>2, ReadingTyped
    <3>3. QED BY <1>1, <3>1, <3>2 DEF Reply
  <2>3. parsed' \in Seq(Read)
    BY <1>a, <2>2
  <2>4. form \in Closed => \A i \in DOMAIN parsed': parsed'[i].value \in Options \cup {Absent}
    <3>1. /\ DOMAIN parsed' = 1..(Len(parsed) + 1) /\ parsed'[Len(parsed) + 1] = e
          /\ \A i \in 1..Len(parsed): parsed'[i] = parsed[i]
      BY <1>a, <2>2
    <3>2. \A i \in DOMAIN parsed': i \in DOMAIN parsed \/ i = Len(parsed) + 1
      BY <1>a, <3>1
    <3>3. DOMAIN parsed = 1..Len(parsed)
      BY <1>a
    <3>4. QED BY <2>2, <3>1, <3>2, <3>3 DEF ChoiceInv
  <2>5. QED BY <1>a, <2>1, <2>3, <2>4 DEF ChoiceInv
<1>2. CASE Conclude
  <2>1. form' = form /\ parsed' = parsed /\ Len(parsed) = Len(Groups)
    BY <1>2 DEF Conclude
  <2>2. Totals' = Totals /\ Off' = Off /\ Recommended' = Recommended
    BY <2>1 DEF Totals, Off, Recommended, Demand, Counted, Chosen, Segment
  <2>3. /\ tally'.total = Totals.total /\ tally'.failed = Totals.failed
        /\ tally'.counts = Totals.counts /\ tally'.segments = Totals.segments
        /\ form /= "price" => tally'.off = 0
        /\ form = "price" => tally'.off = Off /\ tally'.headline = Recommended
    BY <1>a, <1>2, ReportsAgree
  <2>4. QED BY <2>1, <2>2, <2>3 DEF ChoiceInv
<1>3. CASE UNCHANGED choiceVars
  <2>1. form' = form /\ parsed' = parsed /\ tally' = tally
    BY <1>3 DEF choiceVars
  <2>2. Totals' = Totals /\ Off' = Off /\ Recommended' = Recommended
    BY <2>1 DEF Totals, Off, Recommended, Demand, Counted, Chosen, Segment
  <2>3. QED BY <2>1, <2>2 DEF ChoiceInv
<1>4. QED BY <1>1, <1>2, <1>3 DEF ChoiceNext

\* The respondents counted are some of those who replied.
LEMMA CountedFinite ==
    ASSUME parsed \in Seq(Read)
    PROVE  /\ IsFiniteSet(Counted) /\ Counted \subseteq 1..Len(parsed)
           /\ \A T \in SUBSET Counted: IsFiniteSet(T) /\ Cardinality(T) \in Nat
<1>1. Len(parsed) \in Nat /\ DOMAIN parsed = 1..Len(parsed) /\ 1 \in Int
  OBVIOUS
<1>2. IsFiniteSet(1..Len(parsed))
  BY <1>1, FS_Interval
<1>3. Counted \subseteq 1..Len(parsed)
  BY <1>1 DEF Counted
<1>4. QED BY <1>2, <1>3, FS_Subset, FS_CardinalityType

\* Everyone is counted once.
LEMMA ChoiceAddsUp == ChoiceInv => PollAddsUp
<1> SUFFICES ASSUME ChoiceInv, tally.ready, form \notin {"value", "competitive", "campaign", "qa"} PROVE
        /\ MapThenSumSet(LAMBDA v: tally.counts[v], Options) + tally.off = tally.total
        /\ tally.total + tally.failed = Len(Groups)
  BY DEF PollAddsUp
<1>1. parsed \in Seq(Read) /\ Len(parsed) = Len(Groups) /\ Len(Groups) \in Nat
  BY PollFormConstants DEF ChoiceInv
<1>2. tally.total = Cardinality(Counted) /\ tally.failed = Len(parsed) - Cardinality(Counted)
      /\ tally.counts = [v \in 1..Letters |-> Chosen(v)]
  BY DEF ChoiceInv, Totals
<1>3. Cardinality(Counted) \in Nat
  BY <1>1, CountedFinite
<1> DEFINE A == {i \in Counted: parsed[i].value \in Options}
           B == {i \in Counted: parsed[i].value \notin Options}
<1>4. A \in SUBSET Counted /\ B \in SUBSET Counted /\ A \cap B = {} /\ A \cup B = Counted
  OBVIOUS
<1>5. /\ IsFiniteSet(A) /\ IsFiniteSet(B) /\ Cardinality(A) \in Nat /\ Cardinality(B) \in Nat
      /\ IsFiniteSet(Counted)
  BY <1>1, <1>4, CountedFinite
<1>6. tally.off = Cardinality(B)
  <2>1. CASE form = "price"
    BY <2>1 DEF ChoiceInv, Off
  <2>2. CASE form /= "price"
    <3>1. form \in Closed
      BY <2>2 DEF ChoiceInv, Forms, Closed
    <3>2. B = {}
      BY <3>1 DEF ChoiceInv, Counted
    <3>3. QED BY <2>2, <3>2, FS_EmptySet DEF ChoiceInv
  <2>3. QED BY <2>1, <2>2
<1>7. Total(tally.counts, Options) = Cardinality(A)
  <2> DEFINE k == [i \in A |-> parsed[i].value]
  <2>1. IsFiniteSet(Options) /\ Options \subseteq 1..Letters
    <3>1. Offered \in Int /\ 1 \in Int
      BY PollFormConstants
    <3>2. IsFiniteSet(1..Offered)
      BY <3>1, FS_Interval
    <3>3. QED BY <3>2, PollFormConstants DEF Options
  <2>2. \A i \in A: k[i] \in Options
    OBVIOUS
  <2>3. ASSUME NEW v \in Options PROVE tally.counts[v] = Cardinality(Fiber(A, k, v))
    <3>1. Fiber(A, k, v) = {i \in Counted: parsed[i].value = v}
      BY DEF Fiber
    <3>2. tally.counts[v] = Chosen(v)
      BY <1>2, <2>1
    <3>3. QED BY <3>1, <3>2 DEF Chosen
  <2>4. PICK h: h = tally.counts
    OBVIOUS
  <2> HIDE DEF A, k
  <2>5. \A v \in Options: h[v] = Cardinality(Fiber(A, k, v))
    BY <2>3, <2>4
  <2>6. Total(h, Options) = Cardinality(A)
    <3>1. /\ IsFiniteSet(A) /\ IsFiniteSet(Options)
          /\ \A x \in A: k[x] \in Options
      BY <1>5, <2>1, <2>2
    <3>2. PICK a, f: a = A /\ f = k
      OBVIOUS
    <3>3. \A v \in Options: h[v] = Cardinality(Fiber(a, f, v))
      BY <2>5, <3>2
    <3>4. IsFiniteSet(a) /\ \A x \in a: f[x] \in Options
      BY <3>1, <3>2
    <3>5. Total(h, Options) = Cardinality(a)
      BY <3>1, <3>3, <3>4, CardinalityFibers
    <3>6. QED BY <3>2, <3>5
  <2>7. QED BY <2>4, <2>6
<1>8. Cardinality(A \cup B) = Cardinality(A) + Cardinality(B)
  <2> HIDE DEF A, B
  <2>1. Cardinality(A \cap B) = 0
    BY <1>4, FS_EmptySet
  <2>2. Cardinality(A \cup B) = Cardinality(A) + Cardinality(B) - Cardinality(A \cap B)
    BY <1>5, FS_Union, Zenon
  <2>3. QED BY <1>5, <2>1, <2>2
<1> HIDE DEF A, B
<1>9. MapThenSumSet(LAMBDA v: tally.counts[v], Options) = Total(tally.counts, Options)
  BY DEF Total
<1>10. MapThenSumSet(LAMBDA v: tally.counts[v], Options) + tally.off = tally.total
  BY <1>2, <1>4, <1>5, <1>6, <1>7, <1>8, <1>9
<1>11. QED BY <1>1, <1>2, <1>3, <1>10

\* A group's bar holds what its own members said.
LEMMA ChoiceGroups == ChoiceInv => GroupsKeepTheirAnswers
<1> SUFFICES ASSUME ChoiceInv, tally.ready, NEW g \in DOMAIN tally.segments, NEW v \in 0..Letters
             PROVE tally.segments[g][v] = Cardinality({i \in 1..Len(Groups): Groups[i] = g /\ parsed[i].mark = v})
  BY DEF GroupsKeepTheirAnswers
<1>1. parsed \in Seq(Read) /\ Len(parsed) = Len(Groups) /\ DOMAIN parsed = 1..Len(Groups)
  BY DEF ChoiceInv
<1>2. tally.segments = [h \in {Groups[i]: i \in DOMAIN Groups} |->
                    [w \in 0..Letters |-> Cardinality({i \in Segment(h): parsed[i].mark = w})]]
  BY DEF ChoiceInv, Totals
<1>3. tally.segments[g][v] = Cardinality({i \in Segment(g): parsed[i].mark = v})
  BY <1>2
<1>4. v /= Absent
  BY PollFormConstants DEF Absent
<1>5. \A i \in DOMAIN parsed: parsed[i].mark = v => parsed[i].value /= Absent
  BY <1>1, <1>4, ElementOfSeq DEF Read
<1>6. {i \in Segment(g): parsed[i].mark = v} = {i \in 1..Len(Groups): Groups[i] = g /\ parsed[i].mark = v}
  BY <1>1, <1>5 DEF Segment, Counted
<1>7. QED BY <1>3, <1>6

\* The demand never rises with the price.
LEMMA ChoiceCheapest == ChoiceInv => CheapestRecommended
<1> SUFFICES ASSUME ChoiceInv, tally.ready, form = "price" PROVE tally.headline = 1
  BY DEF CheapestRecommended
<1>1. parsed \in Seq(Read) /\ tally.headline = Recommended
  BY DEF ChoiceInv
<1>2. 1 \in Options /\ Options \subseteq Nat /\ \A p \in Options: p >= 1
  BY PollFormConstants DEF Options
<1>3. ASSUME NEW q \in Options PROVE Demand(q) <= Demand(1)
  <2> DEFINE P == {i \in Counted: parsed[i].pays >= q /\ ~parsed[i].refuses}
             Q == {i \in Counted: parsed[i].pays >= 1 /\ ~parsed[i].refuses}
  <2>1. \A i \in Counted: parsed[i].pays \in Int
    BY <1>1, ElementOfSeq DEF Counted, Read
  <2>2. P \subseteq Q /\ Q \in SUBSET Counted
    BY <1>2, <2>1
  <2>3. Demand(q) = Cardinality(P) /\ Demand(1) = Cardinality(Q)
    BY DEF Demand
  <2>4. IsFiniteSet(Q)
    BY <1>1, <2>2, CountedFinite
  <2> HIDE DEF P, Q
  <2>5. Cardinality(P) <= Cardinality(Q)
    BY <2>2, <2>4, FS_Subset
  <2>6. QED BY <2>3, <2>5
<1> DEFINE S == {p \in Options: \A q \in Options: Demand(q) <= Demand(p)}
<1>4. 1 \in S /\ S \subseteq Nat
  BY <1>2, <1>3
<1>5. \A x \in S: x >= 1 /\ x \in Nat
  BY <1>2
<1>6. Recommended = Min(S)
  BY DEF Recommended
<1> HIDE DEF S
<1>7. Min(S) \in S /\ Min(S) <= 1
  BY <1>4, MinIs
<1>8. QED BY <1>1, <1>5, <1>6, <1>7

---------------------------------------------------------------------------
(***************************************************************************)
(* The report of a policy poll (CampusReport).                             *)
(***************************************************************************)
\* What the parser makes of an answer.
Ballot == {Unread} \cup [stance: Stances, intensity: 1..MaxIntensity, category: Taxonomy \cup {"other", "none"}]
Cells == CampusTiers \X Housings

\* The report says of the ballots what its parts say of them.
CampusInv ==
    /\ ballots \in Seq(Ballot) /\ Len(ballots) <= Len(Voters)
    /\ findings.ready =>
         /\ Len(ballots) = Len(Voters)
         /\ findings.stances = [s \in Stances |-> Cardinality(Stance(s))]
         /\ findings.net = NetSupport(Ballots, TierWeights)
         /\ findings.matrix = Matrix

\* Nobody has answered at first.
LEMMA CampusInitInv == CampusInit => CampusInv
BY CampusConstants DEF CampusInit, CampusInv, NoFindings

\* Net support depends on the ballots it is taken over only.
LEMMA SupportStays ==
    ASSUME NEW S, NEW w, \A i \in S: ballots'[i] = ballots[i]
    PROVE  NetSupport(S, w)' = NetSupport(S, w)
<1> DEFINE support == [i \in S |-> Direction(i) * ballots[i].intensity * Voice(i, w)]
           voice == [i \in S |-> Voice(i, w)]
<1>1. ASSUME NEW i \in S PROVE Direction(i)' = Direction(i)
  BY DEF Direction
<1>2. ASSUME NEW i \in S PROVE Voice(i, w)' = Voice(i, w)
  BY DEF Voice, TierOfVoter, ClassifyTier
<1>3. support' = support
  BY <1>1, <1>2
<1>4. voice' = voice
  BY <1>2
<1>5. NetSupport(S, w) = Fraction(support, voice, S)
  BY DEF NetSupport
<1>6. NetSupport(S, w)' = Fraction(support', voice', S)
  BY DEF NetSupport
<1> HIDE DEF support, voice
<1>7. QED BY <1>3, <1>4, <1>5, <1>6

\* The figures depend on the ballots only.
LEMMA BallotsStay ==
    ASSUME ballots' = ballots
    PROVE  /\ Matrix' = Matrix /\ NetSupport(Ballots, TierWeights)' = NetSupport(Ballots, TierWeights)
           /\ \A s \in Stances: Stance(s)' = Stance(s)
<1>1. Ballots' = Ballots
  BY DEF Ballots
<1>2. \A s \in Stances: Stance(s)' = Stance(s)
  BY DEF Stance, Ballots
<1>a. \A S, w: NetSupport(S, w)' = NetSupport(S, w)
  BY SupportStays
<1>3. NetSupport(Ballots, TierWeights)' = NetSupport(Ballots, TierWeights)
  BY <1>1, <1>a
<1>b. \A t, h: Cell(t, h)' = Cell(t, h)
  BY <1>1 DEF Cell, TierOfVoter, ClassifyTier, HousingOfVoter, ClassifyHousing
<1>c. \A t, h: NetSupport(Cell(t, h), Unweighted)' = NetSupport(Cell(t, h), Unweighted)
  BY <1>a, <1>b
<1>d. \A c \in CampusTiers \X Housings:
        [n |-> Cardinality(Cell(c[1], c[2])), net |-> NetSupport(Cell(c[1], c[2]), Unweighted),
         confident |-> Cardinality(Cell(c[1], c[2])) >= Confident]'
        = [n |-> Cardinality(Cell(c[1], c[2])), net |-> NetSupport(Cell(c[1], c[2]), Unweighted),
         confident |-> Cardinality(Cell(c[1], c[2])) >= Confident]
  BY <1>b, <1>c
<1>4. Matrix' = Matrix
  BY <1>d DEF Matrix, CampusTiers, Housings
<1>5. QED BY <1>2, <1>3, <1>4

\* A ballot is read, or the ballots are reported.
LEMMA CampusNextInv == CampusInv /\ [CampusNext]_campusVars => CampusInv'
<1> SUFFICES ASSUME CampusInv, [CampusNext]_campusVars PROVE CampusInv'
  OBVIOUS
<1>a. ballots \in Seq(Ballot) /\ Len(Voters) \in Nat
  BY CampusConstants DEF CampusInv
<1>1. CASE AnswerPolicy
  <2>1. PICK reply \in PolicyReplies: ballots' = Append(ballots, ReadBallot(reply))
    BY <1>1 DEF AnswerPolicy
  <2>2. ReadBallot(reply) \in Ballot
    BY DEF ReadBallot, Ballot, PolicyReplies
  <2>3. ~findings.ready /\ findings' = findings /\ Len(ballots) < Len(Voters)
    BY <1>1 DEF AnswerPolicy, NoFindings
  <2>4. ballots' \in Seq(Ballot) /\ Len(ballots') = Len(ballots) + 1 /\ Len(ballots) \in Nat
    BY <1>a, <2>1, <2>2
  <2>5. QED BY <1>a, <2>3, <2>4 DEF CampusInv
<1>2. CASE ReportPolicy
  <2>1. /\ ballots' = ballots /\ Len(ballots) = Len(Voters)
        /\ findings'.stances = [s \in Stances |-> Cardinality(Stance(s))]
        /\ findings'.net = NetSupport(Ballots, TierWeights)
        /\ findings'.matrix = Matrix
    BY <1>2 DEF ReportPolicy
  <2>2. /\ Matrix' = Matrix /\ NetSupport(Ballots, TierWeights)' = NetSupport(Ballots, TierWeights)
        /\ \A s \in Stances: Stance(s)' = Stance(s)
    BY <2>1, BallotsStay
  <2>3. QED BY <2>1, <2>2 DEF CampusInv
<1>3. CASE UNCHANGED campusVars
  <2>1. ballots' = ballots /\ findings' = findings
    BY <1>3 DEF campusVars
  <2>2. /\ Matrix' = Matrix /\ NetSupport(Ballots, TierWeights)' = NetSupport(Ballots, TierWeights)
        /\ \A s \in Stances: Stance(s)' = Stance(s)
    BY <2>1, BallotsStay
  <2>3. QED BY <2>1, <2>2 DEF CampusInv
<1>4. QED BY <1>1, <1>2, <1>3 DEF CampusNext

\* Every ballot that was read belongs to one cell.
LEMMA BallotsTyped ==
    ASSUME ballots \in Seq(Ballot), Len(ballots) = Len(Voters)
    PROVE  /\ IsFiniteSet(Ballots)
           /\ IsFiniteSet(Cells) /\ IsFiniteSet(Stances)
           /\ \A i \in Ballots: /\ TierOfVoter(i) \in CampusTiers /\ HousingOfVoter(i) \in Housings
                                /\ ballots[i].stance \in Stances
                                /\ ballots[i].intensity \in Nat /\ Direction(i) \in Int
<1>1. Len(ballots) \in Nat /\ DOMAIN ballots = 1..Len(ballots) /\ 1 \in Int
  OBVIOUS
<1>2. IsFiniteSet(1..Len(ballots))
  BY <1>1, FS_Interval
<1>3. Ballots \subseteq 1..Len(ballots)
  BY <1>1 DEF Ballots
<1>4. IsFiniteSet(Ballots)
  BY <1>2, <1>3, FS_Subset
<1>5. IsFiniteSet(CampusTiers)
  BY CampusConstants, FS_AddElement DEF CampusTiers
<1>6. IsFiniteSet(Cells)
  <2>1. IsFiniteSet(Housings)
    BY CampusConstants, FS_AddElement DEF Housings
  <2>2. QED BY <1>5, <2>1, FS_Product DEF Cells
<1>7. IsFiniteSet(Stances)
  <2>1. IsFiniteSet({"for"}) /\ IsFiniteSet({"for", "against"})
    <3>1. IsFiniteSet({}) /\ {} \cup {"for"} = {"for"} /\ {"for"} \cup {"against"} = {"for", "against"}
      BY FS_EmptySet
    <3>2. IsFiniteSet({} \cup {"for"})
      BY <3>1, FS_AddElement
    <3>3. IsFiniteSet({"for"} \cup {"against"})
      BY <3>1, <3>2, FS_AddElement
    <3>4. QED BY <3>1, <3>2, <3>3
  <2>2. Stances = {"for", "against"} \cup {"undecided"}
    BY DEF Stances
  <2>3. QED BY <2>1, <2>2, FS_AddElement
<1>8. ASSUME NEW i \in Ballots
      PROVE  /\ TierOfVoter(i) \in CampusTiers /\ HousingOfVoter(i) \in Housings
             /\ ballots[i].stance \in Stances
             /\ ballots[i].intensity \in Nat /\ Direction(i) \in Int
  <2>1. MaxIntensity \in Nat
    BY CampusConstants
  <2>2. HousingOfVoter(i) \in Housings
    BY DEF HousingOfVoter, ClassifyHousing, Housings
  <2>3. ballots[i] \in Ballot /\ ballots[i] /= Unread
    BY <1>1, <1>3, ElementOfSeq DEF Ballots
  <2>4. ballots[i].stance \in Stances /\ ballots[i].intensity \in 1..MaxIntensity
    BY <2>3 DEF Ballot
  <2>5. TierOfVoter(i) \in CampusTiers
    BY DEF TierOfVoter, ClassifyTier, CampusTiers
  <2>6. -1 \in Int
    OBVIOUS
  <2>7. QED BY <2>1, <2>2, <2>4, <2>5, <2>6 DEF Direction
<1>9. QED BY <1>4, <1>6, <1>7, <1>8

\* The cell of a ballot.
Places == [i \in Ballots |-> <<TierOfVoter(i), HousingOfVoter(i)>>]

\* A cell of the matrix holds the ballots that fall into it.
LEMMA CellIsFiber ==
    ASSUME ballots \in Seq(Ballot), Len(ballots) = Len(Voters)
    PROVE  /\ \A i \in Ballots: Places[i] \in Cells
           /\ \A c \in Cells: /\ Fiber(Ballots, Places, c) = Cell(c[1], c[2])
                              /\ c[1] \in CampusTiers
<1>1. \A i \in Ballots: TierOfVoter(i) \in CampusTiers /\ HousingOfVoter(i) \in Housings
  BY BallotsTyped
<1>2. \A i \in Ballots: Places[i] \in Cells
  BY <1>1 DEF Places, Cells
<1>3. ASSUME NEW c \in Cells PROVE Fiber(Ballots, Places, c) = Cell(c[1], c[2]) /\ c[1] \in CampusTiers
  <2>1. c = <<c[1], c[2]>> /\ c[1] \in CampusTiers
    BY DEF Cells
  <2>2. \A i \in Ballots: Places[i] = c <=> TierOfVoter(i) = c[1] /\ HousingOfVoter(i) = c[2]
    BY <2>1 DEF Places
  <2>3. QED BY <2>1, <2>2 DEF Fiber, Cell
<1>4. QED BY <1>2, <1>3

\* The cells and the stances both count the ballots.
LEMMA CampusCounted == CampusInv => MatrixHoldsEveryAnswer
<1> DEFINE n == [c \in CampusTiers \X Housings |-> findings.matrix[c].n]
           st == findings.stances
           k == [i \in Ballots |-> ballots[i].stance]
<1> SUFFICES ASSUME CampusInv, findings.ready
             PROVE  Total(n, CampusTiers \X Housings) = Total(st, Stances)
  BY DEF MatrixHoldsEveryAnswer, Total
<1>1. /\ ballots \in Seq(Ballot) /\ Len(ballots) = Len(Voters)
      /\ findings.stances = [s \in Stances |-> Cardinality(Stance(s))] /\ findings.matrix = Matrix
  BY DEF CampusInv
<1>2. IsFiniteSet(Ballots) /\ IsFiniteSet(Cells) /\ IsFiniteSet(Stances)
  BY <1>1, BallotsTyped
<1>3. /\ \A i \in Ballots: Places[i] \in Cells
      /\ \A c \in Cells: Fiber(Ballots, Places, c) = Cell(c[1], c[2])
  BY <1>1, CellIsFiber
<1>4. ASSUME NEW c \in Cells PROVE n[c] = Cardinality(Fiber(Ballots, Places, c))
  <2>1. n[c] = Matrix[c].n
    BY <1>1 DEF Cells
  <2>2. Matrix[c].n = Cardinality(Cell(c[1], c[2]))
    BY DEF Matrix, Cells
  <2>3. QED BY <1>3, <2>1, <2>2
<1>5. \A i \in Ballots: k[i] \in Stances
  BY <1>1, BallotsTyped
<1>6. ASSUME NEW s \in Stances PROVE st[s] = Cardinality(Fiber(Ballots, k, s))
  <2>1. Fiber(Ballots, k, s) = Stance(s)
    BY DEF Fiber, Stance
  <2>2. QED BY <1>1, <2>1
<1> HIDE DEF n, st, k
<1>7. PICK m, q, l, pl: m = n /\ q = st /\ l = k /\ pl = Places
  OBVIOUS
<1>8. Total(m, Cells) = Cardinality(Ballots)
  <2>1. \A i \in Ballots: pl[i] \in Cells
    BY <1>3, <1>7
  <2>2. \A c \in Cells: m[c] = Cardinality(Fiber(Ballots, pl, c))
    BY <1>4, <1>7
  <2>3. QED BY <1>2, <2>1, <2>2, CardinalityFibers
<1>9. Total(q, Stances) = Cardinality(Ballots)
  <2>1. \A i \in Ballots: l[i] \in Stances
    BY <1>5, <1>7
  <2>2. \A s \in Stances: q[s] = Cardinality(Fiber(Ballots, l, s))
    BY <1>6, <1>7
  <2>3. QED BY <1>2, <2>1, <2>2, CardinalityFibers
<1>10. QED BY <1>7, <1>8, <1>9 DEF Cells

(***************************************************************************)
(* An average of fractions lies between them: were every fraction a[c] over *)
(* b[c] above the fraction of the sums, the sums would differ.             *)
(***************************************************************************)
LEMMA AverageWithin ==
    ASSUME NEW C, IsFiniteSet(C), NEW a, NEW b, \A c \in C: a[c] \in Int /\ b[c] \in Int,
           NEW N, N = Total(a, C), NEW D, D = Total(b, C), NEW e \in C
    PROVE  /\ (\A c \in C: a[c] * D >= N * b[c]) => ~(a[e] * D > N * b[e])
           /\ (\A c \in C: a[c] * D <= N * b[c]) => ~(a[e] * D < N * b[e])
<1>1. \A c \in C: a[c] \in Int
  OBVIOUS
<1>2. \A c \in C: b[c] \in Int
  OBVIOUS
<1>3. N \in Int /\ D \in Int
  BY <1>1, <1>2, TotalInt
<1> DEFINE x == [c \in C |-> a[c] * D]
           y == [c \in C |-> N * b[c]]
<1>4. \A c \in C: a[c] \in Int /\ x[c] = D * a[c]
  BY <1>3
<1>5. \A c \in C: b[c] \in Int /\ y[c] = N * b[c]
  OBVIOUS
<1>6. \A c \in C: x[c] = a[c] * D /\ y[c] = N * b[c] /\ x[c] \in Int /\ y[c] \in Int
  BY <1>3
<1> HIDE DEF x, y
<1>7. Total(x, C) = D * N
  BY <1>3, <1>4, TotalTimes
<1>8. Total(y, C) = N * D
  BY <1>3, <1>5, TotalTimes
<1>9. D * N = N * D /\ D * N \in Int
  BY <1>3
<1>10. ASSUME \A c \in C: a[c] * D >= N * b[c], a[e] * D > N * b[e] PROVE FALSE
  <2>1. \A c \in C: y[c] \in Int /\ x[c] \in Int /\ y[c] <= x[c]
    BY <1>6, <1>10
  <2>2. y[e] < x[e]
    BY <1>6, <1>10
  <2>3. Total(y, C) < Total(x, C)
    BY <2>1, <2>2, TotalLess
  <2>4. QED BY <1>7, <1>8, <1>9, <2>3
<1>11. ASSUME \A c \in C: a[c] * D <= N * b[c], a[e] * D < N * b[e] PROVE FALSE
  <2>1. \A c \in C: x[c] \in Int /\ y[c] \in Int /\ x[c] <= y[c]
    BY <1>6, <1>11
  <2>2. x[e] < y[e]
    BY <1>6, <1>11
  <2>3. Total(x, C) < Total(y, C)
    BY <2>1, <2>2, TotalLess
  <2>4. QED BY <1>7, <1>8, <1>9, <2>3
<1>12. QED BY <1>10, <1>11

\* A factor of one and more keeps the order of two products.
LEMMA FactorKeepsOrder ==
    ASSUME NEW w \in Nat \ {0}, NEW p \in Int, NEW q \in Int, NEW N \in Int, NEW D \in Int
    PROVE  /\ p * D > N * q => (w * p) * D > N * (w * q)
           /\ p * D < N * q => (w * p) * D < N * (w * q)
<1>1. PICK x \in Int, y \in Int: x = p * D /\ y = N * q
  OBVIOUS
<1>2. (w * p) * D = w * (p * D) /\ N * (w * q) = w * (N * q)
  OBVIOUS
<1>3. (w * p) * D = w * x /\ N * (w * q) = w * y
  BY <1>1, <1>2
<1>4. x > y => w * x > w * y
  OBVIOUS
<1>5. x < y => w * x < w * y
  OBVIOUS
<1>6. QED BY <1>1, <1>3, <1>4, <1>5

\* Fractions P[c] / Q[c] of the cells and weights w[c] whose products a[c] / b[c]
\* sum up to the headline N / D.
MadeOf(P, Q, w, a, b, N, D) ==
    /\ \A c \in Cells:
         /\ w[c] \in Nat \ {0} /\ P[c] \in Int /\ Q[c] \in Int
         /\ findings.matrix[c].net = <<P[c], Q[c]>>
         /\ a[c] = w[c] * P[c] /\ b[c] = w[c] * Q[c]
         /\ findings.matrix[c].n > 0 \/ (P[c] = 0 /\ Q[c] = 0)
    /\ N = Total(a, Cells) /\ D = Total(b, Cells)
    /\ findings.net = <<N, D>>

\* The fraction of a cell, times the weight of its tier, is what the cell adds to
\* the headline; a cell nobody is in adds nothing.
LEMMA CellsMakeTheHeadline ==
    ASSUME CampusInv, findings.ready
    PROVE  \E P, Q, w, a, b, N, D: MadeOf(P, Q, w, a, b, N, D)
<1> DEFINE one(i) == Direction(i) * ballots[i].intensity
           s1(c) == [i \in Cell(c[1], c[2]) |-> one(i) * Voice(i, Unweighted)]
           v1(c) == [i \in Cell(c[1], c[2]) |-> Voice(i, Unweighted)]
           sup == [i \in Ballots |-> one(i) * Voice(i, TierWeights)]
           voi == [i \in Ballots |-> Voice(i, TierWeights)]
           loud == [i \in Ballots |-> MaxIntensity * voi[i]]
           P == [c \in Cells |-> Total(s1(c), Cell(c[1], c[2]))]
           Q == [c \in Cells |-> MaxIntensity * Total(v1(c), Cell(c[1], c[2]))]
           w == [c \in Cells |-> TierWeights[c[1]]]
           a == [c \in Cells |-> w[c] * P[c]]
           b == [c \in Cells |-> w[c] * Q[c]]
<1>1. /\ ballots \in Seq(Ballot) /\ Len(ballots) = Len(Voters)
      /\ findings.net = NetSupport(Ballots, TierWeights) /\ findings.matrix = Matrix
  BY DEF CampusInv
<1>2. /\ IsFiniteSet(Ballots) /\ IsFiniteSet(Cells)
      /\ \A i \in Ballots: /\ TierOfVoter(i) \in CampusTiers
                           /\ ballots[i].intensity \in Nat /\ Direction(i) \in Int
  BY <1>1, BallotsTyped
<1>3. /\ \A i \in Ballots: Places[i] \in Cells
      /\ \A c \in Cells: Fiber(Ballots, Places, c) = Cell(c[1], c[2]) /\ c[1] \in CampusTiers
  BY <1>1, CellIsFiber
<1>4. TierWeights \in [CampusTiers -> Nat \ {0}] /\ MaxIntensity \in Nat \ {0}
  BY CampusConstants DEF CampusTiers
<1>5. ASSUME NEW i \in Ballots
      PROVE  /\ Voice(i, TierWeights) = TierWeights[TierOfVoter(i)] /\ Voice(i, TierWeights) \in Nat \ {0}
             /\ Voice(i, Unweighted) = 1
             /\ one(i) \in Int
  <2>1. TierOfVoter(i) \in CampusTiers /\ TierOfVoter(i) \notin DOMAIN Unweighted
    BY <1>2 DEF Unweighted
  <2>2. QED BY <1>2, <1>4, <2>1 DEF Voice
<1>6. /\ findings.net = <<Total(sup, Ballots), MaxIntensity * Total(voi, Ballots)>>
      /\ \A c \in Cells: findings.matrix[c].net = <<P[c], Q[c]>>
                          /\ findings.matrix[c].n = Cardinality(Cell(c[1], c[2]))
  <2>1. findings.net = <<Total(sup, Ballots), MaxIntensity * Total(voi, Ballots)>>
    BY <1>1 DEF NetSupport, Fraction, Total
  <2>2. ASSUME NEW c \in Cells
        PROVE  findings.matrix[c].net = <<P[c], Q[c]>> /\ findings.matrix[c].n = Cardinality(Cell(c[1], c[2]))
    <3>1. findings.matrix[c].net = NetSupport(Cell(c[1], c[2]), Unweighted)
      BY <1>1 DEF Matrix, Cells
    <3>2. NetSupport(Cell(c[1], c[2]), Unweighted)
            = <<Total(s1(c), Cell(c[1], c[2])), MaxIntensity * Total(v1(c), Cell(c[1], c[2]))>>
      BY DEF NetSupport, Fraction, Total
    <3>3. findings.matrix[c].n = Cardinality(Cell(c[1], c[2]))
      BY <1>1 DEF Matrix, Cells
    <3>4. QED BY <3>1, <3>2, <3>3
  <2>3. QED BY <2>1, <2>2
<1>7. ASSUME NEW c \in Cells
      PROVE  /\ w[c] \in Nat \ {0} /\ P[c] \in Int /\ Q[c] \in Int
             /\ a[c] = w[c] * P[c] /\ b[c] = w[c] * Q[c]
             /\ a[c] = Total(sup, Fiber(Ballots, Places, c))
             /\ b[c] = Total(loud, Fiber(Ballots, Places, c))
             /\ ~(findings.matrix[c].n > 0) => P[c] = 0 /\ Q[c] = 0
  <2> DEFINE C == Cell(c[1], c[2])
  <2>1. C \subseteq Ballots /\ IsFiniteSet(C) /\ Cardinality(C) \in Nat
    <3>1. C \subseteq Ballots
      BY DEF Cell
    <3>2. QED BY <1>2, <3>1, FS_Subset, FS_CardinalityType
  <2>2. PICK t: t = w[c] /\ t \in Nat \ {0} /\ t = TierWeights[c[1]]
    BY <1>3, <1>4
  <2>3. \A i \in C: TierOfVoter(i) = c[1]
    BY DEF Cell
  <2>4. \A i \in C: s1(c)[i] \in Int /\ sup[i] = t * s1(c)[i] /\ sup[i] \in Int
    <3>1. ASSUME NEW i \in C PROVE s1(c)[i] \in Int /\ sup[i] = t * s1(c)[i]
      <4>1. i \in Ballots
        BY <2>1
      <4>2. PICK o \in Int: o = one(i)
        BY <1>5, <4>1
      <4>3. sup[i] = o * t
        BY <1>5, <2>2, <2>3, <4>1, <4>2
      <4>4. s1(c)[i] = o * 1
        BY <1>5, <4>1, <4>2
      <4>5. QED BY <2>2, <4>2, <4>3, <4>4
    <3>2. QED BY <2>2, <3>1
  <2>5. \A i \in C: v1(c)[i] = 1 /\ loud[i] = MaxIntensity * t
    BY <1>5, <2>1, <2>2, <2>3
  <2>6. P[c] = Total(s1(c), C) /\ Q[c] = MaxIntensity * Total(v1(c), C)
    OBVIOUS
  <2>7. PICK f, g, l, u, E: f = s1(c) /\ g = sup /\ l = v1(c) /\ u = loud /\ E = C
    OBVIOUS
  <2>8. a[c] = t * P[c] /\ b[c] = t * Q[c] /\ w[c] = t
    BY <2>2
  <2> HIDE DEF s1, v1, sup, loud, P, Q, w, a, b
  <2>9. Total(g, E) = t * Total(f, E) /\ Total(f, E) \in Int
    <3>1. IsFiniteSet(E) /\ \A i \in E: f[i] \in Int /\ g[i] = t * f[i]
      BY <2>1, <2>4, <2>7
    <3>2. \A i \in E: f[i] \in Int
      BY <3>1
    <3>3. t \in Int
      BY <2>2
    <3>4. Total(g, E) = t * Total(f, E)
      BY <3>1, <3>3, TotalTimes
    <3>5. QED BY <3>1, <3>2, <3>4, TotalInt
  <2>10. Total(l, E) = 1 * Cardinality(E)
    <3>1. IsFiniteSet(E) /\ \A i \in E: l[i] = 1
      BY <2>1, <2>5, <2>7
    <3>2. QED BY <3>1, TotalConstant
  <2>11. Total(u, E) = (MaxIntensity * t) * Cardinality(E)
    <3>1. IsFiniteSet(E) /\ \A i \in E: u[i] = MaxIntensity * t
      BY <2>1, <2>5, <2>7
    <3>2. MaxIntensity * t \in Int
      BY <1>4, <2>2
    <3>3. QED BY <3>1, <3>2, TotalConstant
  <2>12. PICK m \in Nat: m = Cardinality(E)
    BY <2>1, <2>7
  <2>13. Q[c] = MaxIntensity * m /\ Q[c] \in Int
    BY <1>4, <2>6, <2>7, <2>10, <2>12
  <2>14. P[c] = Total(f, E) /\ P[c] \in Int
    BY <2>6, <2>7, <2>9
  <2>15. Fiber(Ballots, Places, c) = E
    BY <1>3, <2>7
  <2>16. a[c] = Total(sup, Fiber(Ballots, Places, c))
    BY <2>7, <2>8, <2>9, <2>14, <2>15
  <2>17. b[c] = Total(loud, Fiber(Ballots, Places, c))
    <3>1. t * (MaxIntensity * m) = (MaxIntensity * t) * m
      BY <1>4, <2>2, <2>12
    <3>2. QED BY <2>7, <2>8, <2>11, <2>12, <2>13, <2>15, <3>1
  <2>18. ASSUME ~(findings.matrix[c].n > 0) PROVE P[c] = 0 /\ Q[c] = 0
    <3>1. m = 0
      BY <1>6, <2>7, <2>12, <2>18
    <3>2. E = {}
      BY <2>1, <2>7, <2>12, <3>1, FS_EmptySet
    <3>3. P[c] = 0
      BY <2>14, <3>2, TotalEmpty
    <3>4. Q[c] = 0
      BY <1>4, <2>13, <3>1
    <3>5. QED BY <3>3, <3>4
  <2>19. QED BY <2>2, <2>8, <2>13, <2>14, <2>16, <2>17, <2>18
<1>8. \A i \in Ballots: sup[i] \in Int /\ voi[i] \in Int /\ loud[i] = MaxIntensity * voi[i] /\ loud[i] \in Int
  BY <1>4, <1>5
<1>9. PICK g, l, u, pl, aa, bb: g = sup /\ l = voi /\ u = loud /\ pl = Places /\ aa = a /\ bb = b
  OBVIOUS
<1> HIDE DEF sup, voi, loud, P, Q, w, a, b
<1>10. Total(aa, Cells) = Total(g, Ballots)
  <2>1. \A i \in Ballots: g[i] \in Int /\ pl[i] \in Cells
    BY <1>3, <1>8, <1>9
  <2>2. \A c \in Cells: aa[c] = Total(g, Fiber(Ballots, pl, c))
    BY <1>7, <1>9
  <2>3. QED BY <1>2, <2>1, <2>2, TotalFibers
<1>11. Total(bb, Cells) = Total(u, Ballots)
  <2>1. \A i \in Ballots: u[i] \in Int /\ pl[i] \in Cells
    BY <1>3, <1>8, <1>9
  <2>2. \A c \in Cells: bb[c] = Total(u, Fiber(Ballots, pl, c))
    BY <1>7, <1>9
  <2>3. QED BY <1>2, <2>1, <2>2, TotalFibers
<1>12. Total(u, Ballots) = MaxIntensity * Total(l, Ballots)
  <2>1. \A i \in Ballots: l[i] \in Int /\ u[i] = MaxIntensity * l[i]
    BY <1>8, <1>9
  <2>2. MaxIntensity \in Int
    BY <1>4
  <2>3. QED BY <1>2, <2>1, <2>2, TotalTimes
<1>13. findings.net = <<Total(aa, Cells), Total(bb, Cells)>>
  BY <1>6, <1>9, <1>10, <1>11, <1>12
<1>14. PICK PP, QQ, ww, N, D: PP = P /\ QQ = Q /\ ww = w /\ N = Total(aa, Cells) /\ D = Total(bb, Cells)
  OBVIOUS
<1>15. ASSUME NEW c \in Cells
       PROVE  /\ ww[c] \in Nat \ {0} /\ PP[c] \in Int /\ QQ[c] \in Int
              /\ findings.matrix[c].net = <<PP[c], QQ[c]>>
              /\ aa[c] = ww[c] * PP[c] /\ bb[c] = ww[c] * QQ[c]
              /\ findings.matrix[c].n > 0 \/ (PP[c] = 0 /\ QQ[c] = 0)
  BY <1>6, <1>7, <1>9, <1>14
<1>16. findings.net = <<N, D>>
  BY <1>13, <1>14
<1>17. MadeOf(PP, QQ, ww, aa, bb, N, D)
  BY <1>14, <1>15, <1>16 DEF MadeOf
<1>18. QED BY <1>17

\* An average of the cells lies between them.
LEMMA CampusAverage == CampusInv => HeadlineWithinCells
<1> DEFINE heard == {c \in Cells: findings.matrix[c].n > 0}
<1> SUFFICES ASSUME CampusInv, findings.ready, heard /= {}
             PROVE  /\ \E c \in heard: findings.matrix[c].net[1] * findings.net[2]
                                           <= findings.net[1] * findings.matrix[c].net[2]
                    /\ \E c \in heard: findings.net[1] * findings.matrix[c].net[2]
                                           <= findings.matrix[c].net[1] * findings.net[2]
  BY DEF HeadlineWithinCells, Cells
<1>0. PICK P, Q, w, a, b, N, D: MadeOf(P, Q, w, a, b, N, D)
  BY CellsMakeTheHeadline
<1>1. /\ \A c \in Cells:
           /\ w[c] \in Nat \ {0} /\ P[c] \in Int /\ Q[c] \in Int
           /\ findings.matrix[c].net = <<P[c], Q[c]>>
           /\ a[c] = w[c] * P[c] /\ b[c] = w[c] * Q[c]
           /\ findings.matrix[c].n > 0 \/ (P[c] = 0 /\ Q[c] = 0)
      /\ N = Total(a, Cells) /\ D = Total(b, Cells) /\ findings.net = <<N, D>>
  BY <1>0 DEF MadeOf
<1>2. IsFiniteSet(Cells)
  BY BallotsTyped DEF CampusInv
<1>3. \A c \in Cells: a[c] \in Int /\ b[c] \in Int
  BY <1>1
<1>4. N \in Int /\ D \in Int
  <2>1. \A c \in Cells: a[c] \in Int
    BY <1>3
  <2>2. \A c \in Cells: b[c] \in Int
    BY <1>3
  <2>3. QED BY <1>1, <1>2, <2>1, <2>2, TotalInt
<1>5. PICK e: e \in heard
  OBVIOUS
<1>6. ASSUME NEW c \in Cells, ~(findings.matrix[c].n > 0) PROVE a[c] * D = 0 /\ N * b[c] = 0
  <2>1. a[c] = 0 /\ b[c] = 0
    BY <1>1, <1>6
  <2>2. QED BY <1>4, <2>1
<1>7. (\A c \in Cells: a[c] * D >= N * b[c]) => ~(a[e] * D > N * b[e])
  BY <1>1, <1>2, <1>3, <1>5, AverageWithin
<1>8. (\A c \in Cells: a[c] * D <= N * b[c]) => ~(a[e] * D < N * b[e])
  BY <1>1, <1>2, <1>3, <1>5, AverageWithin
<1>9. ASSUME \A c \in heard: P[c] * D > N * Q[c] PROVE FALSE
  <2>1. ASSUME NEW c \in heard PROVE a[c] * D > N * b[c]
    <3>1. PICK x \in Nat \ {0}, p \in Int, q \in Int:
            x = w[c] /\ p = P[c] /\ q = Q[c] /\ a[c] = x * p /\ b[c] = x * q
      BY <1>1
    <3>2. p * D > N * q
      BY <1>9, <3>1
    <3>3. (x * p) * D > N * (x * q)
      BY <1>4, <3>2, FactorKeepsOrder
    <3>4. QED BY <3>1, <3>3
  <2>2. \A c \in Cells: a[c] * D \in Int /\ N * b[c] \in Int
    BY <1>3, <1>4
  <2>3. \A c \in Cells: a[c] * D >= N * b[c]
    BY <1>6, <2>1, <2>2
  <2>4. QED BY <1>5, <1>7, <2>1, <2>3
<1>10. ASSUME \A c \in heard: P[c] * D < N * Q[c] PROVE FALSE
  <2>1. ASSUME NEW c \in heard PROVE a[c] * D < N * b[c]
    <3>1. PICK x \in Nat \ {0}, p \in Int, q \in Int:
            x = w[c] /\ p = P[c] /\ q = Q[c] /\ a[c] = x * p /\ b[c] = x * q
      BY <1>1
    <3>2. p * D < N * q
      BY <1>10, <3>1
    <3>3. (x * p) * D < N * (x * q)
      BY <1>4, <3>2, FactorKeepsOrder
    <3>4. QED BY <3>1, <3>3
  <2>2. \A c \in Cells: a[c] * D \in Int /\ N * b[c] \in Int
    BY <1>3, <1>4
  <2>3. \A c \in Cells: a[c] * D <= N * b[c]
    BY <1>6, <2>1, <2>2
  <2>4. QED BY <1>5, <1>8, <2>1, <2>3
<1>11. \A c \in heard: /\ findings.matrix[c].net[1] * findings.net[2] = P[c] * D
                       /\ findings.net[1] * findings.matrix[c].net[2] = N * Q[c]
                       /\ P[c] * D \in Int /\ N * Q[c] \in Int
  BY <1>1, <1>4
<1>12. QED BY <1>9, <1>10, <1>11

---------------------------------------------------------------------------
(***************************************************************************)
(* The customer segments (SegmentTags).  The argument is about functions,  *)
(* whatever step made them: p people, m merged, a aliases, b the report.   *)
(***************************************************************************)
HopIn(a, l) == IF l \in DOMAIN a THEN a[l] ELSE l
LandsIn(a, b, l) == IF HopIn(a, l) \in DOMAIN b THEN HopIn(a, l) ELSE HopIn(a, HopIn(a, l))
WrittenIn(p) == {l \in Tags: p[l] > 0}

\* Every label visited is kept or joined a kept one, whose people it adds to.
Kept(p, sn, m, a) ==
    /\ sn \subseteq WrittenIn(p)
    /\ m \in [DOMAIN m -> Nat]
    /\ DOMAIN m \cup DOMAIN a = sn /\ DOMAIN m \cap DOMAIN a = {}
    /\ \A l \in DOMAIN a: a[l] \in DOMAIN m
    /\ \A s \in DOMAIN m: m[s] = Total(p, {l \in sn: HopIn(a, l) = s})

Explained(p, a, b) ==
    \A s \in DOMAIN b: b[s] = Total(p, {l \in WrittenIn(p): LandsIn(a, b, l) = s})

Shows(p, b) ==
    /\ Total(b, DOMAIN b) = Total(p, Tags)
    /\ Cardinality(DOMAIN b \ {Residual}) <= Cap

\* While labels are merged, the kept ones hold the people of those that joined
\* them; the report holds everybody and the aliases explain it.
TagInv ==
    /\ people \in [Tags -> 0..MaxPeople]
    /\ bounded = NoTags => Kept(people, seen, merged, aliases)
    /\ bounded /= NoTags => /\ seen = WrittenIn(people)
                            /\ Explained(people, aliases, bounded) /\ Shows(people, bounded)

\* There are finitely many labels.
LEMMA TagsFinite == IsFiniteSet(Tags) /\ \A S \in SUBSET Tags: IsFiniteSet(S)
<1>1. TagCount \in Nat /\ 1 \in Int
  BY TagConstants
<1>2. IsFiniteSet(1..TagCount)
  BY <1>1, FS_Interval
<1>3. QED BY <1>2, FS_Subset DEF Tags

\* Finitely many labels have a first and a last.
LEMMA FirstAndLast ==
    ASSUME NEW f, NEW S, IsFiniteSet(S), S /= {}, \A x \in S: x \in Nat /\ f[x] \in Int
    PROVE  /\ \E x \in S: \A o \in S: o = x \/ Ahead(f, x, o)
           /\ \E x \in S: \A o \in S: o = x \/ Ahead(f, o, x)
<1> DEFINE U == {T \in SUBSET S: T = {} \/ (/\ \E x \in T: \A o \in T: o = x \/ Ahead(f, x, o)
                                            /\ \E x \in T: \A o \in T: o = x \/ Ahead(f, o, x))}
<1>1. {} \in U
  OBVIOUS
<1>2. ASSUME NEW T \in SUBSET S, NEW e \in S \ T, T \in U PROVE T \cup {e} \in U
  <2>1. \A x, y \in S: x = y \/ Ahead(f, x, y) \/ Ahead(f, y, x)
    BY DEF Ahead
  <2>2. \A x, y, z \in S: Ahead(f, x, y) /\ Ahead(f, y, z) => Ahead(f, x, z)
    BY DEF Ahead
  <2>3. CASE T = {}
    BY <2>3
  <2>4. CASE T /= {}
    <3>1. PICK x \in T: \A o \in T: o = x \/ Ahead(f, x, o)
      BY <1>2, <2>4
    <3>2. PICK y \in T: \A o \in T: o = y \/ Ahead(f, o, y)
      BY <1>2, <2>4
    <3>3. \E z \in T \cup {e}: \A o \in T \cup {e}: o = z \/ Ahead(f, z, o)
      <4>1. CASE Ahead(f, x, e)
        BY <3>1, <4>1
      <4>2. CASE Ahead(f, e, x)
        <5>1. \A o \in T: Ahead(f, e, o)
          BY <2>2, <3>1, <4>2
        <5>2. QED BY <5>1
      <4>3. QED BY <2>1, <3>1, <4>1, <4>2
    <3>4. \E z \in T \cup {e}: \A o \in T \cup {e}: o = z \/ Ahead(f, o, z)
      <4>1. CASE Ahead(f, e, y)
        BY <3>2, <4>1
      <4>2. CASE Ahead(f, y, e)
        <5>1. \A o \in T: Ahead(f, o, e)
          BY <2>2, <3>2, <4>2
        <5>2. QED BY <5>1
      <4>3. QED BY <2>1, <3>2, <4>1, <4>2
    <3>5. QED BY <3>3, <3>4
  <2>5. QED BY <2>3, <2>4
<1> HIDE DEF U
<1>3. S \in U
  BY <1>1, <1>2, ByElement
<1>4. QED BY <1>3 DEF U

\* Nothing is merged at first.
LEMMA TagInitInv == TagInit => TagInv
<1> SUFFICES ASSUME TagInit PROVE TagInv
  OBVIOUS
<1>1. DOMAIN NoTags = {} /\ NoTags \in [{} -> Nat]
  BY DEF NoTags
<1>2. Kept(people, {}, NoTags, NoTags)
  BY <1>1 DEF Kept
<1>3. QED BY <1>2 DEF TagInit, TagInv

\* A label that resembles no kept one is kept.
LEMMA KeepLabel ==
    ASSUME NEW p \in [Tags -> 0..MaxPeople], NEW sn, NEW m, NEW a, Kept(p, sn, m, a),
           NEW l \in WrittenIn(p) \ sn
    PROVE  Kept(p, sn \cup {l}, Put(m, l, p[l]), a)
<1> DEFINE n == Put(m, l, p[l])
<1>1. /\ sn \subseteq WrittenIn(p) /\ m \in [DOMAIN m -> Nat]
      /\ DOMAIN m \cup DOMAIN a = sn /\ DOMAIN m \cap DOMAIN a = {}
      /\ \A x \in DOMAIN a: a[x] \in DOMAIN m
      /\ \A s \in DOMAIN m: m[s] = Total(p, {x \in sn: HopIn(a, x) = s})
  BY DEF Kept
<1>2. l \in Tags /\ p[l] \in Nat /\ l \notin sn
  BY TagConstants DEF WrittenIn
<1>3. DOMAIN n = DOMAIN m \cup {l} /\ n[l] = p[l] /\ \A s \in DOMAIN m: n[s] = m[s]
  BY <1>1, <1>2 DEF Put
<1>4. n \in [DOMAIN n -> Nat]
  BY <1>1, <1>2 DEF Put
<1>5. HopIn(a, l) = l /\ \A x \in sn: HopIn(a, x) \in DOMAIN m
  BY <1>1, <1>2 DEF HopIn
<1>6. ASSUME NEW s \in DOMAIN m PROVE n[s] = Total(p, {x \in sn \cup {l}: HopIn(a, x) = s})
  <2>1. {x \in sn \cup {l}: HopIn(a, x) = s} = {x \in sn: HopIn(a, x) = s}
    BY <1>1, <1>2, <1>5
  <2>2. QED BY <1>1, <1>3, <2>1
<1>7. n[l] = Total(p, {x \in sn \cup {l}: HopIn(a, x) = l})
  <2>1. {x \in sn \cup {l}: HopIn(a, x) = l} = {} \cup {l}
    BY <1>1, <1>2, <1>5
  <2>2. IsFiniteSet({}) /\ l \notin {} /\ p[l] \in Int /\ \A x \in {}: p[x] \in Int
    BY <1>2, FS_EmptySet
  <2>3. Total(p, {} \cup {l}) = Total(p, {}) + p[l] /\ Total(p, {}) = 0
    BY <2>2, TotalAdd, TotalEmpty
  <2>4. QED BY <1>2, <1>3, <2>1, <2>3
<1> HIDE DEF n
<1>8. Kept(p, sn \cup {l}, n, a)
  BY <1>1, <1>2, <1>3, <1>4, <1>6, <1>7 DEF Kept
<1>9. QED BY <1>8 DEF n

\* A label that resembles a kept one adds its people to that one.
LEMMA JoinLabel ==
    ASSUME NEW p \in [Tags -> 0..MaxPeople], NEW sn, NEW m, NEW a, Kept(p, sn, m, a),
           NEW l \in WrittenIn(p) \ sn, NEW k \in DOMAIN m
    PROVE  Kept(p, sn \cup {l}, [m EXCEPT ![k] = @ + p[l]], Put(a, l, k))
<1> DEFINE n == [m EXCEPT ![k] = @ + p[l]]
           b == Put(a, l, k)
<1>1. /\ sn \subseteq WrittenIn(p) /\ m \in [DOMAIN m -> Nat]
      /\ DOMAIN m \cup DOMAIN a = sn /\ DOMAIN m \cap DOMAIN a = {}
      /\ \A x \in DOMAIN a: a[x] \in DOMAIN m
      /\ \A s \in DOMAIN m: m[s] = Total(p, {x \in sn: HopIn(a, x) = s})
  BY DEF Kept
<1>2. l \in Tags /\ p[l] \in Nat /\ l \notin sn
  BY TagConstants DEF WrittenIn
<1>3. DOMAIN n = DOMAIN m /\ n \in [DOMAIN m -> Nat]
      /\ n[k] = m[k] + p[l] /\ \A s \in DOMAIN m \ {k}: n[s] = m[s]
  BY <1>1, <1>2
<1>4. DOMAIN b = DOMAIN a \cup {l} /\ b[l] = k /\ \A x \in DOMAIN a: b[x] = a[x]
  BY <1>1, <1>2 DEF Put
<1> HIDE DEF n, b
<1>5. HopIn(b, l) = k /\ \A x \in sn: HopIn(b, x) = HopIn(a, x)
  BY <1>1, <1>2, <1>4 DEF HopIn
<1>6. ASSUME NEW s \in DOMAIN m PROVE n[s] = Total(p, {x \in sn \cup {l}: HopIn(b, x) = s})
  <2> DEFINE S == {x \in sn: HopIn(a, x) = s}
  <2>1. CASE s /= k
    <3>1. {x \in sn \cup {l}: HopIn(b, x) = s} = S
      BY <1>2, <1>5, <2>1
    <3>2. QED BY <1>1, <1>3, <2>1, <3>1
  <2>2. CASE s = k
    <3>1. {x \in sn \cup {l}: HopIn(b, x) = s} = S \cup {l}
      BY <1>2, <1>5, <2>2
    <3>2. S \in SUBSET Tags /\ l \notin S
      BY <1>1, <1>2 DEF WrittenIn
    <3>3. IsFiniteSet(S) /\ p[l] \in Int /\ \A x \in S: p[x] \in Int
      BY <1>2, <3>2, TagsFinite, TagConstants
    <3>4. Total(p, S \cup {l}) = Total(p, S) + p[l]
      BY <3>2, <3>3, TotalAdd
    <3>5. m[s] = Total(p, S)
      BY <1>1
    <3>6. QED BY <1>3, <2>2, <3>1, <3>4, <3>5
  <2>3. QED BY <2>1, <2>2
<1>7. Kept(p, sn \cup {l}, n, b)
  BY <1>1, <1>2, <1>3, <1>4, <1>6 DEF Kept
<1>8. QED BY <1>7 DEF n, b

\* A kept label holds somebody: those who wrote it.
LEMMA KeptHold ==
    ASSUME NEW p \in [Tags -> 0..MaxPeople], NEW sn, NEW m, NEW a, Kept(p, sn, m, a), NEW s \in DOMAIN m
    PROVE  m[s] > 0 /\ m[s] \in Nat
<1> DEFINE S == {x \in sn: HopIn(a, x) = s}
<1>1. s \in S /\ S \in SUBSET Tags /\ p[s] > 0 /\ m[s] = Total(p, S)
  BY DEF Kept, WrittenIn, HopIn
<1>2. IsFiniteSet(S) /\ \A x \in S: p[x] \in Nat
  BY <1>1, TagsFinite, TagConstants
<1> HIDE DEF S
<1>3. p[s] <= Total(p, S) /\ Total(p, S) \in Nat
  BY <1>1, <1>2, TotalHolds, TotalNat
<1>4. p[s] \in Nat
  BY <1>1, <1>2
<1>5. QED BY <1>1, <1>3, <1>4

\* At most Cap labels have fewer than Cap labels ahead of them.
LEMMA FewRankAhead ==
    ASSUME NEW f, NEW S, IsFiniteSet(S), \A x \in S: x \in Nat /\ f[x] \in Int, NEW M \in SUBSET S,
           \A l \in M: Cardinality({o \in S: o /= l /\ Ahead(f, o, l)}) < Cap
    PROVE  Cardinality(M) <= Cap
<1>1. IsFiniteSet(M) /\ Cardinality(M) \in Nat /\ Cap \in Nat \ {0}
  BY FS_Subset, FS_CardinalityType, TagConstants
<1>2. CASE M = {}
  BY <1>1, <1>2, FS_EmptySet
<1>3. CASE M /= {}
  <2>1. \A x \in M: x \in Nat /\ f[x] \in Int
    OBVIOUS
  <2>2. PICK e \in M: \A o \in M: o = e \/ Ahead(f, o, e)
    BY <1>1, <1>3, <2>1, FirstAndLast
  <2> DEFINE R == {o \in S: o /= e /\ Ahead(f, o, e)}
  <2>3. M \ {e} \subseteq R /\ R \subseteq S
    BY <2>2
  <2>4. IsFiniteSet(R)
    BY <2>3, FS_Subset
  <2>5. Cardinality(M \ {e}) <= Cardinality(R) /\ Cardinality(R) \in Nat
    BY <2>3, <2>4, FS_Subset, FS_CardinalityType
  <2>6. Cardinality(M \ {e}) = Cardinality(M) - 1
    BY <1>1, FS_RemoveElement
  <2>7. Cardinality(R) < Cap
    OBVIOUS
  <2> HIDE DEF R
  <2>8. QED BY <1>1, <2>5, <2>6, <2>7
<1>4. QED BY <1>2, <1>3

\* The labels fd are folded: named are the others, rest the people of fd.
FoldedTo(p, sn, m, a, fd, rest, named, b, c) ==
    /\ p \in [Tags -> 0..MaxPeople] /\ Kept(p, sn, m, a)
    /\ sn = WrittenIn(p) /\ sn /= {}
    /\ fd \in SUBSET DOMAIN m
    /\ Residual \in DOMAIN m => Residual \in fd
    /\ Cardinality(DOMAIN m \ fd) <= Cap
    /\ rest = Total(m, fd)
    /\ named = [x \in DOMAIN m \ fd |-> m[x]]
    /\ b = IF rest > 0 THEN Put(named, Residual, rest) ELSE named
    /\ c = [l \in DOMAIN a \cup (fd \ {Residual}) |->
              IF l \in fd \ {Residual} THEN Residual ELSE a[l]]

\* Folding some of the kept labels, the residual one among them, leaves a report that
\* holds everybody and aliases that explain it.
LEMMA FoldLabels ==
    ASSUME NEW p, NEW sn, NEW m, NEW a, NEW fd, NEW rest, NEW named, NEW b, NEW c,
           FoldedTo(p, sn, m, a, fd, rest, named, b, c)
    PROVE  b /= NoTags /\ Explained(p, c, b) /\ Shows(p, b)
<1>0. /\ p \in [Tags -> 0..MaxPeople] /\ Kept(p, sn, m, a)
      /\ sn = WrittenIn(p) /\ sn /= {}
      /\ fd \in SUBSET DOMAIN m
      /\ Residual \in DOMAIN m => Residual \in fd
      /\ Cardinality(DOMAIN m \ fd) <= Cap
      /\ rest = Total(m, fd)
      /\ named = [x \in DOMAIN m \ fd |-> m[x]]
      /\ b = IF rest > 0 THEN Put(named, Residual, rest) ELSE named
      /\ c = [l \in DOMAIN a \cup (fd \ {Residual}) |->
                IF l \in fd \ {Residual} THEN Residual ELSE a[l]]
  BY DEF FoldedTo
<1>1. /\ sn \subseteq Tags /\ DOMAIN m \cup DOMAIN a = sn /\ DOMAIN m \cap DOMAIN a = {}
      /\ \A x \in DOMAIN a: a[x] \in DOMAIN m
      /\ \A s \in DOMAIN m: m[s] = Total(p, {x \in sn: HopIn(a, x) = s})
  BY <1>0 DEF Kept, WrittenIn
<1>2. \A s \in DOMAIN m: m[s] > 0 /\ m[s] \in Nat
  BY <1>0, KeptHold
<1>3. IsFiniteSet(fd) /\ IsFiniteSet(DOMAIN m) /\ IsFiniteSet(sn) /\ IsFiniteSet(Tags)
  BY <1>0, <1>1, TagsFinite
<1>4. rest \in Nat /\ (rest > 0 <=> fd /= {})
  <2>1. \A s \in fd: m[s] \in Nat
    BY <1>0, <1>2
  <2>2. rest \in Nat
    BY <1>0, <1>3, <2>1, TotalNat
  <2>3. CASE fd = {}
    BY <1>0, <2>2, <2>3, TotalEmpty
  <2>4. CASE fd /= {}
    <3>1. PICK e \in fd: TRUE
      BY <2>4
    <3>2. m[e] <= Total(m, fd)
      BY <1>3, <2>1, TotalHolds
    <3>3. QED BY <1>0, <1>2, <2>2, <2>4, <3>1, <3>2
  <2>5. QED BY <2>2, <2>3, <2>4
<1>5. /\ DOMAIN b = (DOMAIN m \ fd) \cup (IF fd /= {} THEN {Residual} ELSE {})
      /\ \A s \in DOMAIN m \ fd: b[s] = m[s] /\ s /= Residual
      /\ fd /= {} => b[Residual] = rest
  BY <1>0, <1>4 DEF Put
<1>6. ASSUME NEW l \in sn
      PROVE  /\ HopIn(a, l) \in DOMAIN m
             /\ LandsIn(c, b, l) = (IF HopIn(a, l) \in fd THEN Residual ELSE HopIn(a, l))
             /\ LandsIn(c, b, l) \in DOMAIN b
  <2>1. CASE l \in DOMAIN a
    <3>1. l \notin fd /\ HopIn(a, l) = a[l] /\ a[l] \in DOMAIN m /\ HopIn(c, l) = a[l]
      BY <1>0, <1>1, <2>1 DEF HopIn
    <3>2. CASE a[l] \notin fd
      BY <1>5, <3>1, <3>2 DEF LandsIn
    <3>3. CASE a[l] \in fd /\ a[l] = Residual
      BY <1>5, <3>1, <3>3 DEF LandsIn
    <3>4. CASE a[l] \in fd /\ a[l] /= Residual
      <4>1. HopIn(c, a[l]) = Residual
        BY <1>0, <3>4 DEF HopIn
      <4>2. a[l] \notin DOMAIN b /\ Residual \in DOMAIN b
        BY <1>5, <3>4
      <4>3. QED BY <3>1, <3>4, <4>1, <4>2 DEF LandsIn
    <3>5. QED BY <3>2, <3>3, <3>4
  <2>2. CASE l \in DOMAIN m
    <3>1. HopIn(a, l) = l
      BY <1>1, <2>2 DEF HopIn
    <3>2. CASE l \notin fd
      <4>1. HopIn(c, l) = l
        BY <1>0, <1>1, <2>2, <3>2 DEF HopIn
      <4>2. QED BY <1>5, <2>2, <3>1, <3>2, <4>1 DEF LandsIn
    <3>3. CASE l \in fd /\ l = Residual
      <4>1. HopIn(c, l) = l
        BY <1>0, <1>1, <2>2, <3>3 DEF HopIn
      <4>2. QED BY <1>5, <2>2, <3>1, <3>3, <4>1 DEF LandsIn
    <3>4. CASE l \in fd /\ l /= Residual
      <4>1. HopIn(c, l) = Residual
        BY <1>0, <3>4 DEF HopIn
      <4>2. QED BY <1>5, <2>2, <3>1, <3>4, <4>1 DEF LandsIn
    <3>5. QED BY <3>2, <3>3, <3>4
  <2>3. QED BY <1>1, <2>1, <2>2
<1>7. \A x \in sn: p[x] \in Int
  BY <1>0, <1>1, TagConstants
<1>8. ASSUME NEW s \in DOMAIN b PROVE b[s] = Total(p, {l \in sn: LandsIn(c, b, l) = s})
  <2> DEFINE R == {l \in sn: LandsIn(c, b, l) = s}
  <2>1. CASE s \in DOMAIN m \ fd
    <3> DEFINE S == {l \in sn: HopIn(a, l) = s}
    <3>1. R = S
      BY <1>5, <1>6, <2>1
    <3>2. m[s] = Total(p, S) /\ b[s] = m[s]
      BY <1>1, <1>5, <2>1
    <3> HIDE DEF R, S
    <3>3. b[s] = Total(p, R)
      BY <3>1, <3>2
    <3>4. QED BY <3>3 DEF R
  <2>2. CASE s \notin DOMAIN m \ fd
    <3>1. s = Residual /\ fd /= {} /\ b[s] = rest
      BY <1>5, <2>2
    <3> DEFINE L == {l \in sn: HopIn(a, l) \in fd}
               k == [l \in L |-> HopIn(a, l)]
    <3>2. R = L
      BY <1>5, <1>6, <3>1
    <3>3. L \in SUBSET Tags
      BY <1>1
    <3>4. \A l \in L: p[l] \in Int /\ k[l] \in fd
      BY <1>7
    <3>5. ASSUME NEW v \in fd PROVE m[v] = Total(p, Fiber(L, k, v))
      <4> DEFINE F == Fiber(L, k, v)
                 S == {x \in sn: HopIn(a, x) = v}
      <4>1. F = S
        BY DEF Fiber
      <4>2. m[v] = Total(p, S)
        BY <1>0, <1>1
      <4> HIDE DEF F, S
      <4>3. m[v] = Total(p, F)
        BY <4>1, <4>2
      <4>4. QED BY <4>3 DEF F
    <3> HIDE DEF L, k, R
    <3>6. IsFiniteSet(L)
      BY <3>3, TagsFinite
    <3>7. Total(m, fd) = Total(p, L)
      BY <1>3, <3>4, <3>5, <3>6, TotalFibers
    <3>8. b[s] = Total(p, R)
      BY <1>0, <3>1, <3>2, <3>7
    <3>9. QED BY <3>8 DEF R
  <2>3. QED BY <2>1, <2>2
<1>9. Explained(p, c, b)
  BY <1>0, <1>8 DEF Explained
<1>10. Total(b, DOMAIN b) = Total(p, sn)
  <2> DEFINE k == [l \in sn |-> LandsIn(c, b, l)]
  <2>1. \A l \in sn: p[l] \in Int /\ k[l] \in DOMAIN b
    BY <1>6, <1>7
  <2>2. ASSUME NEW v \in DOMAIN b PROVE b[v] = Total(p, Fiber(sn, k, v))
    <3> DEFINE F == Fiber(sn, k, v)
               S == {l \in sn: LandsIn(c, b, l) = v}
    <3>1. F = S
      BY DEF Fiber
    <3>2. b[v] = Total(p, S)
      BY <1>8
    <3> HIDE DEF F, S
    <3>3. b[v] = Total(p, F)
      BY <3>1, <3>2
    <3>4. QED BY <3>3 DEF F
  <2>3. DOMAIN b \in SUBSET Tags
    BY <1>0, <1>1, <1>5, TagConstants DEF Tags
  <2>4. IsFiniteSet(DOMAIN b)
    BY <2>3, TagsFinite
  <2> HIDE DEF k
  <2>5. QED BY <1>3, <2>1, <2>2, <2>4, TotalFibers
<1>11. Total(p, Tags) = Total(p, sn)
  <2> DEFINE T == Tags \ sn
  <2>1. IsFiniteSet(T) /\ Tags = sn \cup T /\ sn \cap T = {}
    BY <1>1, TagsFinite
  <2>2. \A l \in T: p[l] = 0
    BY <1>0, TagConstants DEF WrittenIn
  <2> HIDE DEF T
  <2>3. Total(p, T) = 0 * Cardinality(T) /\ Cardinality(T) \in Nat
    BY <2>1, <2>2, TotalConstant, FS_CardinalityType
  <2>4. \A l \in sn \cup T: p[l] \in Int
    BY <1>7, <2>2
  <2>5. Total(p, sn \cup T) = Total(p, sn) + Total(p, T)
    BY <1>3, <2>1, <2>4, TotalUnion
  <2>6. Total(p, sn) \in Int
    BY <1>3, <1>7, TotalInt
  <2>7. QED BY <2>1, <2>3, <2>5, <2>6
<1>12. Cardinality(DOMAIN b \ {Residual}) <= Cap
  <2>1. DOMAIN b \ {Residual} = DOMAIN m \ fd
    BY <1>5
  <2>2. QED BY <1>0, <2>1
<1>13. b /= NoTags
  <2>1. PICK l \in sn: TRUE
    BY <1>0
  <2>2. DOMAIN b /= {}
    BY <1>6, <2>1
  <2>3. QED BY <2>2 DEF NoTags
<1>14. QED BY <1>9, <1>10, <1>11, <1>12, <1>13 DEF Shows

\* The written labels and the sums of the model are those of the argument.
LEMMA SameNames ==
    /\ Written = WrittenIn(people)
    /\ \A f: PeopleUnder(f) = Total(f, DOMAIN f)
    /\ \A l: Lands(l) = LandsIn(aliases, bounded, l)
BY DEF Written, WrittenIn, PeopleUnder, Total, Lands, LandsIn, Hop, HopIn

\* A label is merged, or the labels are folded.
LEMMA TagNextInv == TagInv /\ [TagNext]_tagVars => TagInv'
<1> SUFFICES ASSUME TagInv, [TagNext]_tagVars PROVE TagInv'
  OBVIOUS
<1>a. people \in [Tags -> 0..MaxPeople] /\ Written = WrittenIn(people)
  BY SameNames DEF TagInv
<1>1. CASE MergeTag
  <2>1. PICK l \in Written \ seen:
          /\ seen' = seen \cup {l}
          /\ \/ /\ merged' = Put(merged, l, people[l])
                /\ aliases' = aliases
             \/ /\ Likes(l) /= {}
                /\ merged' = [merged EXCEPT ![FirstKept(Likes(l))] = @ + people[l]]
                /\ aliases' = Put(aliases, l, FirstKept(Likes(l)))
          /\ people' = people /\ bounded' = bounded
    BY <1>1 DEF MergeTag
  <2>2. bounded = NoTags /\ Kept(people, seen, merged, aliases) /\ l \in WrittenIn(people) \ seen
    BY <1>a, <2>1 DEF TagInv
  <2>3. CASE merged' = Put(merged, l, people[l]) /\ aliases' = aliases
    <3>1. Kept(people, seen', merged', aliases')
      BY <1>a, <2>1, <2>2, <2>3, KeepLabel
    <3>2. QED BY <1>a, <2>1, <2>2, <3>1 DEF TagInv
  <2>4. CASE /\ Likes(l) /= {}
             /\ merged' = [merged EXCEPT ![FirstKept(Likes(l))] = @ + people[l]]
             /\ aliases' = Put(aliases, l, FirstKept(Likes(l)))
    <3>1. Likes(l) \in SUBSET Tags /\ Likes(l) \subseteq DOMAIN merged
      BY <2>2 DEF Likes, Kept, WrittenIn
    <3>2. IsFiniteSet(Likes(l)) /\ \A x \in Likes(l): x \in Nat /\ people[x] \in Int
      BY <1>a, <3>1, TagsFinite, TagConstants DEF Tags
    <3>3. \E x \in Likes(l): \A o \in Likes(l): o = x \/ Ahead(people, x, o)
      BY <2>4, <3>2, FirstAndLast
    <3>4. FirstKept(Likes(l)) \in DOMAIN merged
      BY <3>1, <3>3 DEF FirstKept
    <3>5. PICK k \in DOMAIN merged: k = FirstKept(Likes(l))
      BY <3>4
    <3>6. Kept(people, seen', merged', aliases')
      BY <1>a, <2>1, <2>2, <2>4, <3>5, JoinLabel
    <3>7. QED BY <1>a, <2>1, <2>2, <3>6 DEF TagInv
  <2>5. QED BY <2>1, <2>3, <2>4
<1>2. CASE FoldTags
  <2> DEFINE rank == [l \in DOMAIN merged |->
                        Cardinality({o \in DOMAIN merged: o /= l /\ Ahead(merged, o, l)})]
             folded == FoldedLabels(rank)
             named == Restrict(merged, DOMAIN merged \ folded)
             rest == MapThenSumSet(LAMBDA l: merged[l], folded)
  <2>1. /\ seen = WrittenIn(people) /\ seen /= {} /\ bounded = NoTags
        /\ bounded' = IF rest > 0 THEN Put(named, Residual, rest) ELSE named
        /\ aliases' = FoldAliases(folded)
        /\ people' = people /\ seen' = seen
    BY <1>2, <1>a DEF FoldTags
  <2>2. Kept(people, seen, merged, aliases)
    BY <2>1 DEF TagInv
  <2>3. rest = Total(merged, folded)
    BY DEF Total
  <2>4. named = [x \in DOMAIN merged \ folded |-> merged[x]]
    BY DEF Restrict
  <2>5. aliases' = [l \in DOMAIN aliases \cup (folded \ {Residual}) |->
                      IF l \in folded \ {Residual} THEN Residual ELSE aliases[l]]
    BY <2>1 DEF FoldAliases
  <2>6. folded \in SUBSET DOMAIN merged /\ (Residual \in DOMAIN merged => Residual \in folded)
    BY DEF FoldedLabels
  <2>7. Cardinality(DOMAIN merged \ folded) <= Cap
    <3>1. DOMAIN merged \in SUBSET Tags
      BY <2>2 DEF Kept, WrittenIn
    <3>2. IsFiniteSet(DOMAIN merged) /\ \A x \in DOMAIN merged: x \in Nat
      BY <3>1, TagsFinite DEF Tags
    <3>3. \A x \in DOMAIN merged: merged[x] \in Int
      BY <2>2 DEF Kept
    <3>4. ASSUME NEW l \in DOMAIN merged, l \notin folded
          PROVE  Cardinality({o \in DOMAIN merged: o /= l /\ Ahead(merged, o, l)}) < Cap
      <4>1. ~(rank[l] >= Cap)
        BY <3>4 DEF FoldedLabels
      <4>2. rank[l] = Cardinality({o \in DOMAIN merged: o /= l /\ Ahead(merged, o, l)})
        OBVIOUS
      <4>3. {o \in DOMAIN merged: o /= l /\ Ahead(merged, o, l)} \in SUBSET DOMAIN merged
        OBVIOUS
      <4>4. Cardinality({o \in DOMAIN merged: o /= l /\ Ahead(merged, o, l)}) \in Nat
        BY <3>2, <4>3, FS_Subset, FS_CardinalityType
      <4>5. QED BY <4>1, <4>2, <4>4, TagConstants
    <3> HIDE DEF folded
    <3>5. PICK f, S, M: f = merged /\ S = DOMAIN merged /\ M = DOMAIN merged \ folded
      OBVIOUS
    <3>6. M \in SUBSET S /\ IsFiniteSet(S) /\ \A x \in S: x \in Nat /\ f[x] \in Int
      BY <3>2, <3>3, <3>5
    <3>7. \A l \in M: Cardinality({o \in S: o /= l /\ Ahead(f, o, l)}) < Cap
      BY <3>4, <3>5
    <3>8. Cardinality(M) <= Cap
      BY <3>6, <3>7, FewRankAhead
    <3>9. QED BY <3>5, <3>8
  <2> HIDE DEF rank, folded, named, rest
  <2>8. PICK p, sn, m, a, fd, r, nm: /\ p = people /\ sn = seen /\ m = merged /\ a = aliases
                                     /\ fd = folded /\ r = rest /\ nm = named
    OBVIOUS
  <2>9. PICK b, c: b = bounded' /\ c = aliases'
    OBVIOUS
  <2>10. /\ b = IF r > 0 THEN Put(nm, Residual, r) ELSE nm
         /\ c = [l \in DOMAIN a \cup (fd \ {Residual}) |-> IF l \in fd \ {Residual} THEN Residual ELSE a[l]]
         /\ nm = [x \in DOMAIN m \ fd |-> m[x]] /\ r = Total(m, fd)
    BY <2>1, <2>3, <2>4, <2>5, <2>8, <2>9
  <2>11. /\ Kept(p, sn, m, a) /\ sn = WrittenIn(p) /\ sn /= {} /\ p \in [Tags -> 0..MaxPeople]
         /\ fd \in SUBSET DOMAIN m /\ (Residual \in DOMAIN m => Residual \in fd)
         /\ Cardinality(DOMAIN m \ fd) <= Cap
    BY <1>a, <2>1, <2>2, <2>6, <2>7, <2>8
  <2>a. FoldedTo(p, sn, m, a, fd, r, nm, b, c)
    BY <2>10, <2>11 DEF FoldedTo
  <2>12. b /= NoTags /\ Explained(p, c, b) /\ Shows(p, b)
    BY <2>a, FoldLabels
  <2>13. QED BY <1>a, <2>1, <2>8, <2>9, <2>12 DEF TagInv
<1>3. CASE UNCHANGED tagVars
  BY <1>3 DEF TagInv, tagVars
<1>4. QED BY <1>1, <1>2, <1>3 DEF TagNext

\* What the report shows and what the aliases say of it.
LEMMA TagsHold == TagInv => EveryoneInASegment /\ AliasesExplainCounts
<1> SUFFICES ASSUME TagInv, bounded /= NoTags PROVE EveryoneInASegment /\ AliasesExplainCounts
  BY DEF EveryoneInASegment, AliasesExplainCounts
<1>1. /\ Explained(people, aliases, bounded) /\ Shows(people, bounded) /\ DOMAIN people = Tags
  BY DEF TagInv
<1>2. EveryoneInASegment
  BY <1>1, SameNames DEF Shows, EveryoneInASegment
<1>3. ASSUME NEW s \in DOMAIN bounded
      PROVE  bounded[s] = MapThenSumSet(LAMBDA l: people[l], {l \in Written: Lands(l) = s})
  <2>1. bounded[s] = Total(people, {l \in WrittenIn(people): LandsIn(aliases, bounded, l) = s})
    BY <1>1 DEF Explained
  <2>2. {l \in WrittenIn(people): LandsIn(aliases, bounded, l) = s} = {l \in Written: Lands(l) = s}
    BY SameNames
  <2>3. bounded[s] = Total(people, {l \in Written: Lands(l) = s})
    BY <2>1, <2>2
  <2>4. QED BY <2>3 DEF Total
<1>4. QED BY <1>2, <1>3 DEF AliasesExplainCounts

---------------------------------------------------------------------------
(***************************************************************************)
(* The calibrated shares (Calibration).                                    *)
(***************************************************************************)
CalibrationInv ==
    /\ outcomes \in [Strata -> [Metric \cup {"failed"} -> 0..MaxStratum]]
    /\ target \in [Strata -> 0..MaxTarget]
    /\ limit \in WeightLimits
    /\ TargetReached

\* Nothing is calibrated at first.
LEMMA CalibrationInitInv == CalibrationInit => CalibrationInv
BY DEF CalibrationInit, CalibrationInv, TargetReached, NotCalibrated

\* h people of a stratum weigh w each; q, t, st and cap are as in Weighed.
StratumWeighs(h, q, t, st, cap, raw, w) ==
    /\ h \in Nat /\ h > 0 /\ q \in Nat /\ Parts = h * q
    /\ t \in Nat /\ st \in Nat /\ cap \in Nat
    /\ raw = t * st * q /\ w = IF raw > cap THEN cap ELSE raw

\* What a stratum weighs: its due, or less if the weight was capped.
LEMMA StratumDue ==
    ASSUME NEW h, NEW q, NEW t, NEW st, NEW cap, NEW raw, NEW w, StratumWeighs(h, q, t, st, cap, raw, w)
    PROVE  /\ raw \in Nat /\ w \in Nat /\ h * w \in Int
           /\ h * w <= t * (st * Parts)
           /\ raw > cap => h * w < t * (st * Parts)
           /\ ~(raw > cap) => h * w = t * (st * Parts)
<1>0. /\ h \in Nat /\ h > 0 /\ q \in Nat /\ Parts = h * q
      /\ t \in Nat /\ st \in Nat /\ cap \in Nat
      /\ raw = t * st * q /\ w = IF raw > cap THEN cap ELSE raw
  BY DEF StratumWeighs
<1>1. raw \in Nat /\ w \in Nat
  BY <1>0
<1>2. h * raw = t * (st * (h * q))
  BY <1>0
<1>3. h * raw = t * (st * Parts)
  BY <1>0, <1>2
<1>4. h * w \in Int /\ h * raw \in Int
  BY <1>0, <1>1
<1>5. w <= raw
  BY <1>0, <1>1
<1>6. \A x, y \in Nat: x < y => h * x < h * y
  BY <1>0
<1>7. CASE raw > cap
  <2>1. w < raw
    BY <1>0, <1>1, <1>7
  <2>2. h * w < h * raw
    BY <1>1, <1>6, <2>1
  <2>3. QED BY <1>1, <1>3, <1>4, <1>7, <2>2
<1>8. CASE ~(raw > cap)
  <2>1. w = raw
    BY <1>0, <1>1, <1>8
  <2>2. QED BY <1>1, <1>3, <1>4, <1>8, <2>1
<1>9. QED BY <1>7, <1>8

\* A part of the strata holds the whole target if no other has a share in it.
LEMMA TargetOfPart ==
    ASSUME NEW t, NEW S, IsFiniteSet(S), \A s \in S: t[s] \in Nat, NEW R \in SUBSET S
    PROVE  /\ Total(t, R) \in Nat /\ Total(t, S) \in Nat
           /\ Total(t, R) <= Total(t, S)
           /\ Total(t, R) = Total(t, S) <=> \A s \in S: t[s] > 0 => s \in R
<1>1. IsFiniteSet(R) /\ \A s \in R: t[s] \in Nat
  BY FS_Subset
<1>2. Total(t, R) \in Nat /\ Total(t, S) \in Nat /\ Total(t, R) <= Total(t, S)
  BY <1>1, TotalNat, TotalPart
<1>3. ASSUME NEW e \in S, t[e] > 0, e \notin R PROVE Total(t, R) < Total(t, S)
  <2>1. IsFiniteSet(S \ {e}) /\ R \in SUBSET (S \ {e}) /\ \A s \in S \ {e}: t[s] \in Nat
    BY <1>3, FS_RemoveElement
  <2>2. Total(t, R) <= Total(t, S \ {e}) /\ Total(t, S \ {e}) \in Nat
    BY <2>1, TotalPart, TotalNat
  <2>3. \A s \in S: t[s] \in Int
    OBVIOUS
  <2>4. Total(t, S) = t[e] + Total(t, S \ {e})
    BY <2>3, TotalTakeOut
  <2>5. t[e] \in Nat
    OBVIOUS
  <2>6. QED BY <1>2, <1>3, <2>2, <2>4, <2>5
<1>4. ASSUME \A s \in S: t[s] > 0 => s \in R PROVE Total(t, R) = Total(t, S)
  <2> DEFINE T == S \ R
  <2>1. IsFiniteSet(T) /\ S = R \cup T /\ R \cap T = {}
    BY FS_Subset
  <2>2. \A s \in T: t[s] = 0
    BY <1>4
  <2> HIDE DEF T
  <2>3. Total(t, T) = 0 * Cardinality(T) /\ Cardinality(T) \in Nat
    BY <2>1, <2>2, TotalConstant, FS_CardinalityType
  <2>4. \A s \in R \cup T: t[s] \in Int
    BY <2>1
  <2>5. Total(t, R \cup T) = Total(t, R) + Total(t, T)
    BY <1>1, <2>1, <2>4, TotalUnion
  <2>6. QED BY <1>2, <2>1, <2>3, <2>5
<1>5. QED BY <1>2, <1>3, <1>4

\* Strata of h people, of whom yes[s] and no[s] gave each answer, weighing w[s] each.
Weighed(S, R, h, yes, no, t, w, q, cap, st) ==
    /\ IsFiniteSet(S) /\ R = {s \in S: h[s] > 0}
    /\ \A s \in S: h[s] \in Nat /\ t[s] \in Nat
    /\ \A s \in R: /\ yes[s] \in Nat /\ no[s] \in Nat /\ h[s] = yes[s] + no[s]
                   /\ q[s] \in Nat /\ Parts = h[s] * q[s]
                   /\ w[s] = IF t[s] * st * q[s] > cap THEN cap ELSE t[s] * st * q[s]
    /\ cap \in Nat /\ st \in Nat \ {0}

\* The weighted answers reach the target unless a weight is capped or a stratum missed.
LEMMA Reaches ==
    ASSUME NEW S, NEW R, NEW h, NEW yes, NEW no, NEW t, NEW w, NEW q, NEW cap, NEW st,
           Weighed(S, R, h, yes, no, t, w, q, cap, st),
           NEW mass, \A s \in R: mass[s] = h[s] * w[s],
           NEW cy, \A s \in R: cy[s] = yes[s] * w[s],
           NEW cn, \A s \in R: cn[s] = no[s] * w[s]
    PROVE  LET whole == Total(cy, R) + Total(cn, R)
               all == st * (Total(t, S) * Parts)
               exact == /\ \A s \in R: ~(t[s] * st * q[s] > cap)
                        /\ \A s \in S: t[s] > 0 => s \in R
           IN /\ whole = Total(mass, R)
              /\ whole <= all
              /\ whole = all <=> exact
              /\ exact => \A s \in R: mass[s] * Total(t, S) = t[s] * st * (Total(t, S) * Parts)
<1> DEFINE c == st * Parts
           due == [s \in R |-> c * t[s]]
<1>1. /\ IsFiniteSet(S) /\ R \in SUBSET S /\ cap \in Nat /\ st \in Nat \ {0}
      /\ \A s \in S: h[s] \in Nat /\ t[s] \in Nat
      /\ \A s \in R: /\ h[s] > 0 /\ yes[s] \in Nat /\ no[s] \in Nat /\ h[s] = yes[s] + no[s]
                     /\ q[s] \in Nat /\ Parts = h[s] * q[s]
                     /\ w[s] = IF t[s] * st * q[s] > cap THEN cap ELSE t[s] * st * q[s]
  BY DEF Weighed
<1>2. IsFiniteSet(R) /\ c \in Nat \ {0} /\ Parts \in Nat \ {0}
  BY <1>1, FS_Subset, CalibrationConstants
<1>3. ASSUME NEW s \in R
      PROVE  /\ w[s] \in Nat /\ mass[s] \in Int /\ due[s] \in Int
             /\ due[s] = t[s] * c
             /\ mass[s] <= due[s]
             /\ t[s] * st * q[s] > cap => mass[s] < due[s]
             /\ ~(t[s] * st * q[s] > cap) => mass[s] = due[s]
             /\ cy[s] \in Int /\ cn[s] \in Int /\ mass[s] = cy[s] + cn[s]
  <2>1. PICK hh, qq, tt, ww, raw:
          /\ hh \in Nat /\ qq \in Nat /\ tt \in Nat
          /\ hh = h[s] /\ hh > 0 /\ qq = q[s] /\ Parts = hh * qq /\ tt = t[s]
          /\ raw = tt * st * qq /\ ww = w[s] /\ ww = IF raw > cap THEN cap ELSE raw
    BY <1>1
  <2>2. /\ raw \in Nat /\ ww \in Nat /\ hh * ww \in Int
        /\ hh * ww <= tt * (st * Parts)
        /\ raw > cap => hh * ww < tt * (st * Parts)
        /\ ~(raw > cap) => hh * ww = tt * (st * Parts)
    <3>1. StratumWeighs(hh, qq, tt, st, cap, raw, ww)
      BY <1>1, <2>1 DEF StratumWeighs
    <3>2. QED BY <3>1, StratumDue
  <2>3. due[s] = c * tt /\ c * tt = tt * c /\ c * tt \in Int
    BY <1>2, <2>1
  <2>4. mass[s] = hh * ww
    BY <2>1
  <2>5. PICK y \in Nat, n \in Nat: y = yes[s] /\ n = no[s] /\ hh = y + n
    BY <1>1, <2>1
  <2>6. cy[s] = y * ww /\ cn[s] = n * ww
    BY <2>1, <2>5
  <2>b. (y + n) * ww = y * ww + n * ww
    BY <2>2
  <2>7. cy[s] \in Int /\ cn[s] \in Int /\ mass[s] = cy[s] + cn[s]
    BY <2>2, <2>4, <2>5, <2>6, <2>b
  <2> HIDE DEF due
  <2>8. QED BY <2>1, <2>2, <2>3, <2>4, <2>7 DEF c
<1>4. Total(mass, R) = Total(cy, R) + Total(cn, R)
  <2>1. \A s \in R: cy[s] \in Int /\ cn[s] \in Int /\ mass[s] = cy[s] + cn[s]
    BY <1>3
  <2>2. QED BY <1>2, <2>1, TotalPlus
<1>5. \A s \in R: t[s] \in Int /\ due[s] = c * t[s]
  BY <1>1
<1> HIDE DEF c, due
<1>6. Total(due, R) = c * Total(t, R)
  BY <1>2, <1>5, TotalTimes
<1>7. /\ Total(t, R) \in Nat /\ Total(t, S) \in Nat
      /\ Total(t, R) <= Total(t, S)
      /\ Total(t, R) = Total(t, S) <=> \A s \in S: t[s] > 0 => s \in R
  BY <1>1, TargetOfPart
<1>8. PICK tr \in Nat, ts \in Nat: tr = Total(t, R) /\ ts = Total(t, S)
  BY <1>7
<1>9. st * (ts * Parts) = c * ts /\ c * tr \in Int /\ c * ts \in Int
  BY <1>1, <1>2 DEF c
<1>10. c * tr <= c * ts /\ (tr < ts => c * tr < c * ts)
  BY <1>2, <1>7, <1>8
<1>11. Total(mass, R) <= Total(due, R)
  <2>1. \A s \in R: mass[s] \in Int /\ due[s] \in Int /\ mass[s] <= due[s]
    BY <1>3
  <2>2. QED BY <1>2, <2>1, TotalLe
<1>12. Total(mass, R) \in Int /\ Total(due, R) \in Int
  <2>1. \A s \in R: mass[s] \in Int
    BY <1>3
  <2>2. \A s \in R: due[s] \in Int
    BY <1>3
  <2>3. QED BY <1>2, <2>1, <2>2, TotalInt
<1>13. Total(mass, R) <= st * (ts * Parts)
  BY <1>6, <1>8, <1>9, <1>10, <1>11, <1>12
<1>14. ASSUME NEW e \in R, t[e] * st * q[e] > cap PROVE Total(mass, R) < st * (ts * Parts)
  <2>1. \A s \in R: mass[s] \in Int /\ due[s] \in Int /\ mass[s] <= due[s]
    BY <1>3
  <2>2. mass[e] < due[e]
    BY <1>3, <1>14
  <2>3. Total(mass, R) < Total(due, R)
    BY <1>2, <2>1, <2>2, TotalLess
  <2>4. QED BY <1>6, <1>8, <1>9, <1>10, <1>12, <2>3
<1>15. ASSUME NEW e \in S, t[e] > 0, e \notin R PROVE Total(mass, R) < st * (ts * Parts)
  <2>1. tr < ts
    BY <1>7, <1>8, <1>15
  <2>2. QED BY <1>6, <1>8, <1>9, <1>10, <1>11, <1>12, <2>1
<1>16. ASSUME \A s \in R: ~(t[s] * st * q[s] > cap), \A s \in S: t[s] > 0 => s \in R
       PROVE  /\ Total(mass, R) = st * (ts * Parts)
              /\ \A s \in R: mass[s] * ts = t[s] * st * (ts * Parts)
  <2>1. \A s \in R: mass[s] \in Int /\ mass[s] = due[s]
    BY <1>3, <1>16
  <2>2. Total(mass, R) = Total(due, R)
    BY <1>2, <2>1, TotalSame
  <2>3. tr = ts
    BY <1>7, <1>8, <1>16
  <2>4. ASSUME NEW s \in R PROVE mass[s] * ts = t[s] * st * (ts * Parts)
    <3>1. PICK x \in Nat: x = t[s]
      BY <1>1
    <3>2. mass[s] = x * (st * Parts)
      BY <1>3, <2>1, <3>1 DEF c
    <3>3. (x * (st * Parts)) * ts = x * st * (ts * Parts)
      BY <1>1, <1>2
    <3>4. QED BY <3>1, <3>2, <3>3
  <2>5. QED BY <1>6, <1>8, <1>9, <2>2, <2>3, <2>4
<1>17. QED BY <1>4, <1>8, <1>12, <1>13, <1>14, <1>15, <1>16

\* The summands of two answers.
LEMMA TwoAnswers ==
    ASSUME NEW f, f["yes"] \in Int, f["no"] \in Int
    PROVE  Total(f, Metric) = f["yes"] + f["no"]
<1>1. IsFiniteSet({}) /\ {} \cup {"yes"} = {"yes"} /\ {"yes"} \cup {"no"} = Metric
  BY FS_EmptySet DEF Metric
<1>2. IsFiniteSet({} \cup {"yes"})
  BY <1>1, FS_AddElement
<1>3. Total(f, {} \cup {"yes"}) = Total(f, {}) + f["yes"]
  <2>1. \A x \in {}: f[x] \in Int
    OBVIOUS
  <2>2. "yes" \notin {}
    OBVIOUS
  <2>3. QED BY <1>1, <2>1, <2>2, TotalAdd
<1>4. Total(f, {"yes"} \cup {"no"}) = Total(f, {"yes"}) + f["no"]
  <2>1. \A x \in {"yes"}: f[x] \in Int
    OBVIOUS
  <2>2. "no" \notin {"yes"} /\ IsFiniteSet({"yes"})
    BY <1>1, <1>2
  <2>3. QED BY <2>1, <2>2, TotalAdd
<1>5. Total(f, {}) = 0
  BY TotalEmpty
<1>6. PICK A, B: A = {"yes"} /\ B = Metric
  OBVIOUS
<1>7. {} \cup {"yes"} = A /\ {"yes"} \cup {"no"} = B
  BY <1>1, <1>6
<1>8. Total(f, A) = f["yes"]
  BY <1>3, <1>5, <1>7
<1>9. Total(f, B) = Total(f, A) + f["no"]
  BY <1>4, <1>6, <1>7
<1>10. QED BY <1>6, <1>8, <1>9

\* An exact quotient.
LEMMA Exactly == ASSUME NEW n \in Nat \ {0}, NEW q \in Nat PROVE (n * q) \div n = q
OBVIOUS

\* The result of the calibration.
LEMMA Calibrates == CalibrationInv /\ Calibrate => TargetReached'
<1> SUFFICES ASSUME CalibrationInv, Calibrate, SampleTotal /= 0, TargetTotal /= 0 PROVE TargetReached'
  BY DEF Calibrate, TargetReached
<1>1. /\ outcomes \in [Strata -> [Metric \cup {"failed"} -> 0..MaxStratum]]
      /\ target \in [Strata -> 0..MaxTarget] /\ limit \in WeightLimits
      /\ MaxStratum \in Nat /\ MaxTarget \in Nat /\ WeightLimits \subseteq Nat \ {0}
      /\ IsFiniteSet(Strata) /\ Parts \in Nat \ {0}
      /\ \A n \in 1..(2 * MaxStratum): \E q \in 1..Parts: Parts = n * q
  BY CalibrationConstants DEF CalibrationInv
<1>2. /\ outcomes' = outcomes /\ target' = target /\ limit' = limit
      /\ calibrated'.state = "weighted"
      /\ calibrated'.capped = {s \in Reached: Raw(s) > limit * Denominator}
      /\ calibrated'.counts = [v \in Metric |->
            SumOver([s \in Reached |-> outcomes[s][v] * StratumWeight(s)], Reached)]
      /\ calibrated'.mass = [s \in Reached |->
            (outcomes[s]["yes"] + outcomes[s]["no"]) * StratumWeight(s)]
  BY DEF Calibrate
<1>3. ASSUME NEW s \in Strata
      PROVE  /\ outcomes[s]["yes"] \in 0..MaxStratum /\ outcomes[s]["no"] \in 0..MaxStratum
             /\ Heard(s) = outcomes[s]["yes"] + outcomes[s]["no"]
             /\ Heard(s) \in 0..(2 * MaxStratum) /\ target[s] \in Nat
  <2>1. outcomes[s]["yes"] \in 0..MaxStratum /\ outcomes[s]["no"] \in 0..MaxStratum /\ target[s] \in Nat
    BY <1>1 DEF Metric
  <2>2. QED BY <1>1, <2>1 DEF Heard
<1>4. PICK S, R, h, yes, no, t, q, st:
        /\ S = Strata /\ R = Reached /\ t = target /\ st = SampleTotal
        /\ h = [s \in Strata |-> Heard(s)]
        /\ yes = [s \in Strata |-> outcomes[s]["yes"]] /\ no = [s \in Strata |-> outcomes[s]["no"]]
        /\ q = [s \in Reached |-> Parts \div Heard(s)]
  OBVIOUS
<1>5. /\ R = {s \in S: h[s] > 0} /\ IsFiniteSet(S)
      /\ \A s \in S: h[s] \in Nat /\ t[s] \in Nat
  <2>1. \A s \in S: h[s] = Heard(s)
    BY <1>4
  <2>2. R = {s \in S: Heard(s) > 0}
    BY <1>4 DEF Reached
  <2>3. QED BY <1>1, <1>3, <1>4, <2>1, <2>2
<1>6. SampleTotal = Total(h, S) /\ TargetTotal = Total(t, S) /\ st = Total(h, S)
  BY <1>4 DEF SampleTotal, TargetTotal, SumOver, Total
<1>7. st \in Nat \ {0} /\ TargetTotal \in Nat \ {0}
  <2>1. \A s \in S: h[s] \in Nat
    BY <1>5
  <2>2. \A s \in S: t[s] \in Nat
    BY <1>5
  <2>3. Total(h, S) \in Nat /\ Total(t, S) \in Nat
    BY <1>5, <2>1, <2>2, TotalNat
  <2>4. QED BY <1>6, <2>3
<1>8. PICK cap, w: cap = limit * Denominator /\ w = [s \in Reached |-> StratumWeight(s)]
  OBVIOUS
<1>9. cap \in Nat
  BY <1>1, <1>7, <1>8 DEF Denominator
<1>10. ASSUME NEW s \in R
       PROVE  /\ yes[s] \in Nat /\ no[s] \in Nat /\ h[s] = yes[s] + no[s]
              /\ q[s] \in Nat /\ Parts = h[s] * q[s]
              /\ Raw(s) = t[s] * st * q[s]
              /\ w[s] = IF t[s] * st * q[s] > cap THEN cap ELSE t[s] * st * q[s]
  <2>1. s \in Strata /\ s \in Reached /\ h[s] = Heard(s) /\ Heard(s) > 0
    BY <1>4, <1>5
  <2>2. Heard(s) \in 1..(2 * MaxStratum)
    BY <1>1, <1>3, <2>1
  <2>3. PICK x \in 1..Parts: Parts = Heard(s) * x
    BY <1>1, <2>2
  <2>4. PICK y \in Nat \ {0}: y = Heard(s)
    BY <1>1, <2>2
  <2>5. (y * x) \div y = x
    BY <1>1, <2>3, <2>4, Exactly
  <2>6. Parts \div Heard(s) = x
    BY <2>3, <2>4, <2>5
  <2>7. q[s] = x /\ q[s] \in Nat /\ Parts = h[s] * q[s]
    BY <1>1, <1>4, <2>1, <2>3, <2>6
  <2>8. Raw(s) = t[s] * st * q[s]
    BY <1>4, <2>6, <2>7 DEF Raw
  <2>9. w[s] = IF Raw(s) > cap THEN cap ELSE Raw(s)
    BY <1>8, <2>1 DEF StratumWeight
  <2>10. yes[s] \in Nat /\ no[s] \in Nat /\ h[s] = yes[s] + no[s]
    BY <1>1, <1>3, <1>4, <2>1
  <2>11. QED BY <2>7, <2>8, <2>9, <2>10
<1>11. Weighed(S, R, h, yes, no, t, w, q, cap, st)
  BY <1>5, <1>7, <1>9, <1>10 DEF Weighed
<1>12. PICK mass, cy, cn, counts:
         /\ mass = calibrated'.mass /\ counts = calibrated'.counts
         /\ cy = [s \in Reached |-> outcomes[s]["yes"] * StratumWeight(s)]
         /\ cn = [s \in Reached |-> outcomes[s]["no"] * StratumWeight(s)]
  OBVIOUS
<1>13. ASSUME NEW s \in R PROVE mass[s] = h[s] * w[s] /\ cy[s] = yes[s] * w[s] /\ cn[s] = no[s] * w[s]
  <2>1. s \in Strata /\ s \in Reached
    BY <1>4, <1>5
  <2>2. w[s] = StratumWeight(s) /\ yes[s] = outcomes[s]["yes"] /\ no[s] = outcomes[s]["no"]
        /\ h[s] = outcomes[s]["yes"] + outcomes[s]["no"]
    BY <1>4, <1>8, <2>1 DEF Heard
  <2>3. /\ mass[s] = (outcomes[s]["yes"] + outcomes[s]["no"]) * StratumWeight(s)
        /\ cy[s] = outcomes[s]["yes"] * StratumWeight(s) /\ cn[s] = outcomes[s]["no"] * StratumWeight(s)
    BY <1>2, <1>12, <2>1
  <2>4. QED BY <2>2, <2>3
<1>14. counts["yes"] = Total(cy, R) /\ counts["no"] = Total(cn, R)
  <2>1. "yes" \in Metric /\ "no" \in Metric
    BY DEF Metric
  <2>2. counts["yes"] = SumOver(cy, Reached) /\ counts["no"] = SumOver(cn, Reached)
    BY <1>2, <1>12, <2>1
  <2>3. QED BY <1>4, <2>2 DEF SumOver, Total
<1>15. Total(cy, R) \in Int /\ Total(cn, R) \in Int
  <2>1. IsFiniteSet(R)
    BY <1>5, FS_Subset
  <2>2. ASSUME NEW s \in R PROVE cy[s] \in Int /\ cn[s] \in Int
    <3>1. PICK y, n, x, z, u:
            /\ y \in Nat /\ n \in Nat /\ x \in Nat /\ z \in Nat
            /\ y = yes[s] /\ n = no[s] /\ x = q[s] /\ z = t[s] /\ u = z * st * x
      BY <1>5, <1>10
    <3>2. u \in Nat
      BY <1>7, <3>1
    <3>3. w[s] \in Nat
      BY <1>9, <1>10, <3>1, <3>2
    <3>4. QED BY <1>13, <3>1, <3>3
  <2>3. \A s \in R: cy[s] \in Int
    BY <2>2
  <2>4. \A s \in R: cn[s] \in Int
    BY <2>2
  <2>5. QED BY <2>1, <2>3, <2>4, TotalInt
<1>16. Total(counts, Metric) = Total(cy, R) + Total(cn, R)
  BY <1>14, <1>15, TwoAnswers
<1> DEFINE all == st * (Total(t, S) * Parts)
           exact == /\ \A s \in R: ~(t[s] * st * q[s] > cap)
                    /\ \A s \in S: t[s] > 0 => s \in R
<1>17. /\ Total(counts, Metric) = Total(mass, R)
       /\ Total(counts, Metric) <= all
       /\ Total(counts, Metric) = all <=> exact
       /\ exact => \A s \in R: mass[s] * Total(t, S) = t[s] * st * (Total(t, S) * Parts)
  <2>1. \A s \in R: mass[s] = h[s] * w[s]
    BY <1>13
  <2>2. \A s \in R: cy[s] = yes[s] * w[s]
    BY <1>13
  <2>3. \A s \in R: cn[s] = no[s] * w[s]
    BY <1>13
  <2>4. QED BY <1>11, <1>16, <2>1, <2>2, <2>3, Reaches
<1>18. /\ SampleTotal' = SampleTotal /\ TargetTotal' = TargetTotal
       /\ Denominator' = Denominator /\ Reached' = Reached
  BY <1>2 DEF SampleTotal, TargetTotal, Denominator, Reached, Heard
<1>19. /\ SumOver(calibrated'.counts, Metric) = Total(counts, Metric)
       /\ SumOver(calibrated'.mass, Reached') = Total(mass, R)
  BY <1>4, <1>12, <1>18 DEF SumOver, Total
<1>20. SampleTotal' * Denominator' = all
  BY <1>4, <1>6, <1>18 DEF Denominator
<1>21. (calibrated'.capped = {} /\ \A s \in Strata: target'[s] > 0 => s \in Reached') <=> exact
  <2>1. \A s \in R: Raw(s) = t[s] * st * q[s]
    BY <1>10
  <2>2. calibrated'.capped = {s \in R: Raw(s) > cap}
    BY <1>2, <1>4, <1>8
  <2>3. calibrated'.capped = {} <=> \A s \in R: ~(Raw(s) > cap)
    BY <2>2
  <2>4. QED BY <1>2, <1>4, <1>18, <2>1, <2>3
<1>22. \A s \in R: target'[s] * SampleTotal' * Denominator' = t[s] * st * (Total(t, S) * Parts)
  BY <1>2, <1>4, <1>6, <1>18 DEF Denominator
<1>23. TargetTotal' = Total(t, S) /\ Reached' = R /\ calibrated'.mass = mass
  BY <1>4, <1>6, <1>12, <1>18
<1> HIDE DEF all, exact
<1>24. QED BY <1>17, <1>19, <1>20, <1>21, <1>22, <1>23 DEF TargetReached

\* Only the calibration changes anything.
LEMMA CalibrationNextInv == CalibrationInv /\ [CalibrationNext]_calibrationVars => CalibrationInv'
<1>1. ASSUME CalibrationInv, Calibrate PROVE CalibrationInv'
  BY <1>1, Calibrates DEF CalibrationInv, Calibrate
<1>2. ASSUME CalibrationInv, UNCHANGED calibrationVars PROVE CalibrationInv'
  <2>1. /\ SampleTotal' = SampleTotal /\ TargetTotal' = TargetTotal
        /\ Denominator' = Denominator /\ Reached' = Reached
    BY <1>2 DEF calibrationVars, SampleTotal, TargetTotal, Denominator, Reached, Heard
  <2>2. TargetReached'
    BY <1>2, <2>1 DEF calibrationVars, CalibrationInv, TargetReached
  <2>3. QED BY <1>2, <2>2 DEF calibrationVars, CalibrationInv
<1>3. QED BY <1>1, <1>2 DEF CalibrationNext

---------------------------------------------------------------------------
(***************************************************************************)
(* The priority poll (PriorityPoll): dealing a row of people out like      *)
(* cards.                                                                  *)
(***************************************************************************)
\* A multiple of n between -n and n is 0.
LEMMA NoMultiple == ASSUME NEW n \in Nat \ {0}, NEW q \in Int, -n < n * q, n * q < n PROVE q = 0
<1>1. CASE q > 0
  <2>1. n * q >= n
    BY <1>1
  <2>2. QED BY <2>1
<1>2. CASE q < 0
  <2>1. n * q <= -n
    BY <1>2
  <2>2. QED BY <2>1
<1>3. QED BY <1>1, <1>2

\* Every number is a multiple of n and its remainder.
LEMMA Remainder ==
    ASSUME NEW n \in Nat \ {0}, NEW x \in Int
    PROVE  x % n \in 0..(n - 1) /\ \E q \in Int: x = n * q + (x % n)
<1>1. x \div n \in Int /\ x = n * (x \div n) + (x % n) /\ x % n \in 0..(n - 1)
  OBVIOUS
<1>2. QED BY <1>1

\* The remainder is unique.
LEMMA RemainderOf ==
    ASSUME NEW n \in Nat \ {0}, NEW q \in Int, NEW r \in 0..(n - 1), NEW x, x = n * q + r
    PROVE  x % n = r
<1>1. x \in Int
  OBVIOUS
<1>2. PICK k \in Int: x = n * k + (x % n) /\ x % n \in 0..(n - 1)
  BY <1>1, Remainder
<1>3. n * (q - k) = n * q - n * k
  OBVIOUS
<1>4. n * (q - k) = (x % n) - r
  BY <1>2, <1>3
<1>5. -n < n * (q - k) /\ n * (q - k) < n
  BY <1>2, <1>4
<1>6. q - k = 0
  BY <1>5, NoMultiple
<1>7. QED BY <1>2, <1>6

\* Two numbers of the same remainder are n apart.
LEMMA Apart ==
    ASSUME NEW n \in Nat \ {0}, NEW x \in Int, NEW y \in Int, x % n = y % n, x < y
    PROVE  x + n <= y
<1>1. PICK q \in Int: x = n * q + (x % n)
  BY Remainder
<1>2. PICK k \in Int: y = n * k + (y % n)
  BY Remainder
<1>3. x % n \in Int
  BY Remainder
<1>4. y - x = n * (k - q)
  BY <1>1, <1>2, <1>3
<1>5. CASE k - q <= 0
  <2>1. n * (k - q) <= 0
    BY <1>5
  <2>2. QED BY <1>4, <2>1
<1>6. CASE k - q >= 1
  <2>1. n * (k - q) >= n
    BY <1>6
  <2>2. QED BY <1>4, <2>1
<1>7. QED BY <1>5, <1>6

\* Moving a set of numbers into another.
LEMMA Moved ==
    ASSUME NEW A, NEW B, IsFiniteSet(B), NEW d \in Int, \A p \in A: p \in Int /\ p + d \in B
    PROVE  IsFiniteSet(A) /\ Cardinality(A) <= Cardinality(B)
<1> DEFINE f == [p \in A |-> p + d]
<1>1. f \in [A -> B]
  OBVIOUS
<1>2. ASSUME NEW x \in A, NEW y \in A, f[x] = f[y] PROVE x = y
  <2>1. x + d = y + d
    BY <1>2
  <2>2. x \in Int /\ y \in Int
    OBVIOUS
  <2> HIDE DEF f
  <2>3. QED BY <2>1, <2>2
<1>3. f \in Injection(A, B)
  BY <1>1, <1>2 DEF Injection, IsInjective
<1> HIDE DEF f
<1>4. QED BY <1>3, FS_Injection

\* Without one of its elements at most, a set is smaller by one at most.
LEMMA ButOne ==
    ASSUME NEW A, IsFiniteSet(A), NEW E \in SUBSET A, \A x, y \in E: x = y
    PROVE  IsFiniteSet(A \ E) /\ Cardinality(A) <= Cardinality(A \ E) + 1
<1>0. IsFiniteSet(A \ E) /\ Cardinality(A) \in Nat
  BY FS_Subset, FS_CardinalityType
<1>1. CASE E = {}
  <2>1. A \ E = A
    BY <1>1
  <2>2. QED BY <1>0, <2>1
<1>2. CASE E /= {}
  <2>1. PICK e \in E: E = {e}
    BY <1>2
  <2>2. Cardinality(A \ {e}) = Cardinality(A) - 1
    BY <2>1, FS_RemoveElement
  <2>3. QED BY <1>0, <2>1, <2>2
<1>3. QED BY <1>1, <1>2

Turn(I, r) == {p \in I: (p - 1) % Count = r}

\* Out of a row of people without gaps every batch takes as many, give or take one.
LEMMA Dealt ==
    ASSUME NEW I, IsFiniteSet(I), \A p \in I: p \in Int,
           \A x, z \in I: \A y \in Int: x <= y /\ y <= z => y \in I,
           NEW r \in 0..(Count - 1), NEW s \in 0..(Count - 1), r < s
    PROVE  /\ Cardinality(Turn(I, r)) <= Cardinality(Turn(I, s)) + 1
           /\ Cardinality(Turn(I, s)) <= Cardinality(Turn(I, r)) + 1
           /\ Cardinality(Turn(I, r)) \in Nat /\ Cardinality(Turn(I, s)) \in Nat
<1> DEFINE A == Turn(I, r)
           B == Turn(I, s)
           d == s - r
           E == {p \in A: p + d \notin I}
           F == {p \in B: p + (-d) \notin I}
<1>1. Count \in Nat \ {0} /\ d \in 1..(Count - 1) /\ -d \in Int
  BY PollConstants
<1>2. /\ A \in SUBSET I /\ B \in SUBSET I
      /\ \A p \in A: (p - 1) % Count = r
      /\ \A p \in B: (p - 1) % Count = s
  BY DEF Turn
<1>3. IsFiniteSet(A) /\ IsFiniteSet(B) /\ Cardinality(A) \in Nat /\ Cardinality(B) \in Nat
  BY <1>2, FS_Subset, FS_CardinalityType
<1>4. ASSUME NEW p \in Int, (p - 1) % Count = r PROVE (p + d - 1) % Count = s
  <2>1. PICK q \in Int: p - 1 = Count * q + r
    <3>1. p - 1 \in Int
      OBVIOUS
    <3>2. QED BY <1>1, <1>4, <3>1, Remainder
  <2>2. p + d - 1 = Count * q + s
    BY <1>1, <2>1
  <2>3. QED BY <1>1, <2>1, <2>2, RemainderOf
<1>5. ASSUME NEW p \in Int, (p - 1) % Count = s PROVE (p + (-d) - 1) % Count = r
  <2>1. PICK q \in Int: p - 1 = Count * q + s
    <3>1. p - 1 \in Int
      OBVIOUS
    <3>2. QED BY <1>1, <1>5, <3>1, Remainder
  <2>2. p + (-d) - 1 = Count * q + r
    BY <1>1, <2>1
  <2>3. QED BY <1>1, <2>1, <2>2, RemainderOf
<1>6. ASSUME NEW x \in I, NEW y \in I, x < y, (x - 1) % Count = (y - 1) % Count
      PROVE  x + d \in I /\ y + (-d) \in I
  <2>1. x \in Int /\ y \in Int
    OBVIOUS
  <2>2. (x - 1) + Count <= y - 1
    <3>1. x - 1 \in Int /\ y - 1 \in Int /\ x - 1 < y - 1
      BY <1>6, <2>1
    <3>2. QED BY <1>1, <1>6, <3>1, Apart
  <2>3. x <= x + d /\ x + d <= y /\ x <= y + (-d) /\ y + (-d) <= y /\ x + d \in Int /\ y + (-d) \in Int
    BY <1>1, <2>1, <2>2
  <2>4. QED BY <2>3
<1>7. ASSUME NEW x \in E, NEW y \in E PROVE x = y
  <2>1. x \in I /\ y \in I /\ x \in Int /\ y \in Int /\ (x - 1) % Count = (y - 1) % Count
    BY <1>2
  <2>2. ~(x < y) /\ ~(y < x)
    BY <1>6, <2>1
  <2>3. QED BY <2>1, <2>2
<1>8. ASSUME NEW x \in F, NEW y \in F PROVE x = y
  <2>1. x \in I /\ y \in I /\ x \in Int /\ y \in Int /\ (x - 1) % Count = (y - 1) % Count
    BY <1>2
  <2>2. ~(x < y) /\ ~(y < x)
    BY <1>6, <2>1
  <2>3. QED BY <2>1, <2>2
<1>9. \A p \in A \ E: p \in Int /\ p + d \in B
  <2>1. ASSUME NEW p \in A \ E PROVE p \in Int /\ p + d \in B
    <3>1. p \in Int /\ p + d \in I /\ (p - 1) % Count = r
      BY <1>2
    <3>2. (p + d - 1) % Count = s
      BY <1>4, <3>1
    <3>3. QED BY <3>1, <3>2 DEF Turn
  <2>2. QED BY <2>1
<1>10. \A p \in B \ F: p \in Int /\ p + (-d) \in A
  <2>1. ASSUME NEW p \in B \ F PROVE p \in Int /\ p + (-d) \in A
    <3>1. p \in Int /\ p + (-d) \in I /\ (p - 1) % Count = s
      BY <1>2
    <3>2. (p + (-d) - 1) % Count = r
      BY <1>5, <3>1
    <3>3. QED BY <3>1, <3>2 DEF Turn
  <2>2. QED BY <2>1
<1>11. E \in SUBSET A /\ F \in SUBSET B
  OBVIOUS
<1> HIDE DEF A, B, E, F, d
<1>12. /\ IsFiniteSet(A \ E) /\ Cardinality(A) <= Cardinality(A \ E) + 1
       /\ IsFiniteSet(B \ F) /\ Cardinality(B) <= Cardinality(B \ F) + 1
  BY <1>3, <1>7, <1>8, <1>11, ButOne
<1>13. d \in Int
  BY <1>1
<1>14. Cardinality(A \ E) <= Cardinality(B)
  BY <1>3, <1>9, <1>13, Moved
<1>15. Cardinality(B \ F) <= Cardinality(A)
  BY <1>1, <1>3, <1>10, Moved
<1>16. Cardinality(A \ E) \in Nat /\ Cardinality(B \ F) \in Nat
  BY <1>12, FS_CardinalityType
<1>17. /\ Cardinality(A) <= Cardinality(B) + 1
       /\ Cardinality(B) <= Cardinality(A) + 1
  BY <1>3, <1>12, <1>14, <1>15, <1>16
<1>18. QED BY <1>3, <1>17 DEF A, B

\* The batch that sees an item in a place.
BatchOf(item, k) == IF item >= k THEN item - k ELSE item - k + Count

\* An item stands in a place in one batch only.
LEMMA ShownWhen ==
    ASSUME NEW item \in Items, NEW k \in 1..Count, NEW o \in 0..(Count - 1)
    PROVE  /\ BatchOf(item, k) \in 0..(Count - 1)
           /\ Shown(o)[k] = item <=> o = BatchOf(item, k)
<1>1. Count \in Nat \ {0} /\ item \in 1..Count
  BY PollConstants DEF Items
<1>2. BatchOf(item, k) \in 0..(Count - 1)
  BY <1>1 DEF BatchOf
<1>3. Shown(o)[k] = ((k - 1 + o) % Count) + 1
  BY DEF Shown
<1>4. CASE k - 1 + o < Count
  <2>1. (k - 1 + o) % Count = k - 1 + o
    <3>1. k - 1 + o = Count * 0 + (k - 1 + o) /\ k - 1 + o \in 0..(Count - 1)
      BY <1>1, <1>4
    <3>2. QED BY <1>1, <3>1, RemainderOf
  <2>2. QED BY <1>1, <1>2, <1>3, <1>4, <2>1 DEF BatchOf
<1>5. CASE ~(k - 1 + o < Count)
  <2>1. (k - 1 + o) % Count = k - 1 + o - Count
    <3>1. k - 1 + o = Count * 1 + (k - 1 + o - Count) /\ k - 1 + o - Count \in 0..(Count - 1)
      BY <1>1, <1>5
    <3>2. QED BY <1>1, <3>1, RemainderOf
  <2>2. QED BY <1>1, <1>2, <1>3, <1>5, <2>1 DEF BatchOf
<1>6. QED BY <1>4, <1>5

\* A ranking gives every item one place.
LEMMA Placed ==
    ASSUME NEW r \in Rankings
    PROVE  /\ \A i \in Items: Place(r, i) \in 1..Count /\ r[Place(r, i)] = i
           /\ \A k \in 1..Count: r[k] \in Items /\ Place(r, r[k]) = k
<1>1. Count \in Nat /\ 1 \in Int /\ Count \in Int
  BY PollConstants
<1>2. IsFiniteSet(1..Count)
  BY <1>1, FS_Interval
<1>3. r \in [1..Count -> 1..Count] /\ \A a, b \in 1..Count: a /= b => r[a] /= r[b]
  BY DEF Rankings, Items
<1>4. r \in Injection(1..Count, 1..Count)
  BY <1>3 DEF Injection, IsInjective
<1>5. r \in Surjection(1..Count, 1..Count)
  BY <1>2, <1>4, FS_Injection
<1>6. \A i \in Items: \E k \in 1..Count: r[k] = i
  BY <1>5 DEF Surjection, Items
<1>7. \A i \in Items: Place(r, i) \in 1..Count /\ r[Place(r, i)] = i
  BY <1>6 DEF Place
<1>8. \A k \in 1..Count: r[k] \in Items
  BY <1>3 DEF Items
<1>9. \A k \in 1..Count: Place(r, r[k]) = k
  BY <1>3, <1>7, <1>8
<1>10. QED BY <1>7, <1>8, <1>9

\* The points of an item are the items ranked behind it.
LEMMA DuelsWon ==
    ASSUME NEW r \in Rankings, NEW a \in Items
    PROVE  /\ Cardinality({b \in Items \ {a}: Place(r, a) < Place(r, b)}) = Points(r, a)
           /\ Points(r, a) \in Int
<1> DEFINE D == {b \in Items \ {a}: Place(r, a) < Place(r, b)}
           K == (Place(r, a) + 1)..Count
           f == [k \in K |-> r[k]]
<1>1. /\ \A i \in Items: Place(r, i) \in 1..Count /\ r[Place(r, i)] = i
      /\ \A k \in 1..Count: r[k] \in Items /\ Place(r, r[k]) = k
  BY Placed
<1>2. Count \in Nat /\ Place(r, a) \in 1..Count
  BY <1>1, PollConstants
<1>3. Place(r, a) + 1 \in Int /\ Count \in Int
  BY <1>2
<1>4. IsFiniteSet(K) /\ Cardinality(K) = Count - Place(r, a)
  <2>1. IsFiniteSet(K)
    BY <1>3, FS_Interval
  <2>2. Cardinality(K) = IF Place(r, a) + 1 > Count THEN 0 ELSE Count - (Place(r, a) + 1) + 1
    BY <1>3, FS_Interval
  <2>3. QED BY <1>2, <2>1, <2>2
<1>5. K \subseteq 1..Count
  BY <1>2
<1>6. f \in [K -> D]
  <2>1. ASSUME NEW k \in K PROVE r[k] \in D
    <3>1. k \in 1..Count /\ Place(r, a) < k
      BY <1>2
    <3>2. r[k] \in Items /\ Place(r, r[k]) = k
      BY <1>1, <3>1
    <3>3. r[k] /= a
      BY <1>2, <3>1, <3>2
    <3>4. QED BY <3>1, <3>2, <3>3
  <2>2. QED BY <2>1
<1>7. ASSUME NEW x \in K, NEW y \in K, f[x] = f[y] PROVE x = y
  <2>1. r[x] = r[y] /\ x \in 1..Count /\ y \in 1..Count
    BY <1>5, <1>7
  <2>2. QED BY <1>1, <2>1
<1>8. ASSUME NEW b \in D PROVE \E k \in K: f[k] = b
  <2>1. Place(r, b) \in 1..Count /\ r[Place(r, b)] = b /\ Place(r, a) < Place(r, b)
    BY <1>1
  <2>2. Place(r, b) \in K
    BY <1>2, <2>1
  <2>3. QED BY <2>1, <2>2
<1> HIDE DEF D, K, f
<1>9. f \in Bijection(K, D)
  BY <1>6, <1>7, <1>8 DEF Bijection, Injection, Surjection, IsInjective
<1>10. ExistsBijection(K, D)
  BY <1>9 DEF ExistsBijection
<1>11. Cardinality(D) = Cardinality(K)
  BY <1>4, <1>10, FS_Bijection
<1>12. Points(r, a) = Count - Place(r, a) /\ Points(r, a) \in Int
  BY <1>2 DEF Points
<1>13. QED BY <1>4, <1>11, <1>12 DEF D

\* What an item won, counted voter by voter, is what it won opponent by opponent.
LEMMA BordaIsDuels ==
    ASSUME NEW V, IsFiniteSet(V), \A p \in V: answer[p] \in Rankings, NEW a \in Items
    PROVE  /\ Borda(V)[a] = BordaSum([b \in Items \ {a} |-> Cardinality({p \in V: Prefers(p, a, b)})], Items \ {a})
           /\ Borda(V)[a] \in Int
<1> DEFINE W == Items \ {a}
           R == {e \in V \X W: Prefers(e[1], a, e[2])}
           f == [p \in V |-> Points(answer[p], a)]
           g == [b \in W |-> Cardinality({p \in V: Prefers(p, a, b)})]
<1>1. IsFiniteSet(W)
  <2>1. 1 \in Int /\ Count \in Int
    BY PollConstants
  <2>2. IsFiniteSet(1..Count)
    BY <2>1, FS_Interval
  <2>3. QED BY <2>2, FS_RemoveElement, FS_Subset DEF Items
<1>2. Borda(V)[a] = Total(f, V)
  BY DEF Borda, BordaSum, Total
<1>3. ASSUME NEW p \in V PROVE f[p] = Cardinality(RowOf(R, W, p)) /\ f[p] \in Int
  <2> DEFINE D == {b \in Items \ {a}: Place(answer[p], a) < Place(answer[p], b)}
             E == RowOf(R, W, p)
  <2>1. D = E
    BY DEF Prefers, RowOf
  <2>2. Cardinality(D) = Points(answer[p], a) /\ Points(answer[p], a) \in Int
    BY DuelsWon
  <2>3. f[p] = Points(answer[p], a)
    OBVIOUS
  <2> HIDE DEF D, E, f
  <2>4. f[p] = Cardinality(E) /\ f[p] \in Int
    BY <2>1, <2>2, <2>3
  <2>5. QED BY <2>4 DEF E
<1>4. ASSUME NEW b \in W PROVE g[b] = Cardinality(ColumnOf(R, V, b))
  <2> DEFINE D == {p \in V: Prefers(p, a, b)}
             E == ColumnOf(R, V, b)
  <2>1. D = E
    BY DEF ColumnOf
  <2>2. g[b] = Cardinality(D)
    OBVIOUS
  <2> HIDE DEF D, E, g
  <2>3. g[b] = Cardinality(E)
    BY <2>1, <2>2
  <2>4. QED BY <2>3 DEF E
<1>5. BordaSum(g, W) = Total(g, W)
  BY DEF BordaSum, Total
<1>6. PICK h, k, Q, X: h = f /\ k = g /\ Q = R /\ X = W
  OBVIOUS
<1> HIDE DEF f, g, R, W
<1>7. Total(h, V) = Total(k, X)
  <2>1. \A p \in V: h[p] = Cardinality(RowOf(Q, X, p))
    BY <1>3, <1>6
  <2>2. \A b \in X: k[b] = Cardinality(ColumnOf(Q, V, b))
    BY <1>4, <1>6
  <2>3. IsFiniteSet(X)
    BY <1>1, <1>6
  <2>4. QED BY <2>1, <2>2, <2>3, CountedTwice
<1>8. Total(h, V) \in Int
  <2>1. \A p \in V: h[p] \in Int
    BY <1>3, <1>6
  <2>2. QED BY <2>1, TotalInt
<1>9. Borda(V)[a] = BordaSum(g, W) /\ Borda(V)[a] \in Int
  BY <1>2, <1>5, <1>6, <1>7, <1>8
<1>10. QED BY <1>9 DEF g, W

\* The higher score has the better rank.
LEMMA BetterRank ==
    ASSUME NEW sc, \A i \in Items: sc[i] \in Int, NEW a \in Items, NEW b \in Items, sc[a] > sc[b]
    PROVE  RankOf(sc)[a] < RankOf(sc)[b]
<1> DEFINE Above(i) == {c \in Items: sc[c] > sc[i] \/ (sc[c] = sc[i] /\ c < i)}
<1>1. RankOf(sc)[a] = 1 + Cardinality(Above(a)) /\ RankOf(sc)[b] = 1 + Cardinality(Above(b))
  BY DEF RankOf
<1>2. Above(a) \subseteq Above(b) /\ a \in Above(b) /\ a \notin Above(a) /\ Above(b) \subseteq Items
  BY DEF Items
<1>3. IsFiniteSet(Items)
  <2>1. 1 \in Int /\ Count \in Int
    BY PollConstants
  <2>2. QED BY <2>1, FS_Interval DEF Items
<1> HIDE DEF Above
<1>4. IsFiniteSet(Above(b))
  BY <1>2, <1>3, FS_Subset
<1>5. Above(a) \in SUBSET (Above(b) \ {a}) /\ IsFiniteSet(Above(b) \ {a})
      /\ Cardinality(Above(b) \ {a}) = Cardinality(Above(b)) - 1 /\ Cardinality(Above(b)) \in Nat
  BY <1>2, <1>4, FS_RemoveElement, FS_CardinalityType
<1>6. Cardinality(Above(a)) <= Cardinality(Above(b) \ {a}) /\ Cardinality(Above(a)) \in Nat
  BY <1>5, FS_Subset, FS_CardinalityType
<1>7. QED BY <1>1, <1>5, <1>6

\* Who everybody places before another has the higher score.
LEMMA Unanimous ==
    ASSUME NEW V, IsFiniteSet(V), V /= {}, \A p \in V: answer[p] \in Rankings,
           NEW a \in Items, NEW b \in Items, \A p \in V: Prefers(p, a, b)
    PROVE  RankOf(Borda(V))[a] < RankOf(Borda(V))[b]
<1> DEFINE f == [p \in V |-> Points(answer[p], b)]
           g == [p \in V |-> Points(answer[p], a)]
<1>1. Borda(V)[b] = Total(f, V) /\ Borda(V)[a] = Total(g, V)
  BY DEF Borda, BordaSum, Total
<1>2. ASSUME NEW p \in V PROVE f[p] \in Int /\ g[p] \in Int /\ f[p] < g[p]
  <2>1. Place(answer[p], a) \in 1..Count /\ Place(answer[p], b) \in 1..Count
    BY Placed
  <2>2. Place(answer[p], a) < Place(answer[p], b)
    BY DEF Prefers
  <2>3. QED BY <2>1, <2>2, PollConstants DEF Points
<1>3. PICK e \in V: TRUE
  OBVIOUS
<1>4. PICK h, k: h = f /\ k = g
  OBVIOUS
<1> HIDE DEF f, g
<1>5. Total(h, V) < Total(k, V)
  <2>1. \A p \in V: h[p] \in Int /\ k[p] \in Int /\ h[p] <= k[p]
    BY <1>2, <1>4
  <2>2. h[e] < k[e]
    BY <1>2, <1>3, <1>4
  <2>3. QED BY <2>1, <2>2, TotalLess
<1>6. PICK sc: sc = Borda(V)
  OBVIOUS
<1>7. \A i \in Items: sc[i] \in Int
  BY <1>6, BordaIsDuels
<1>8. sc[a] > sc[b]
  BY <1>1, <1>4, <1>5, <1>6, <1>7
<1>9. RankOf(sc)[a] < RankOf(sc)[b]
  BY <1>7, <1>8, BetterRank
<1>10. QED BY <1>6, <1>9

\* How often an item is shown in a place is how many the batch in question has.
LEMMA ShowingsOfBatch ==
    ASSUME tierOf \in Tierings, NEW I \in SUBSET Sampled, NEW item \in Items, NEW k \in 1..Count
    PROVE  Showings(I, item, k) = Cardinality(Turn(I, BatchOf(item, k)))
<1> DEFINE A == {p \in I: \E o \in 0..(Count - 1): p \in Group(o) /\ Shown(o)[k] = item}
           B == Turn(I, BatchOf(item, k))
<1>1. ASSUME NEW p \in I PROVE p \in A <=> p \in B
  <2>1. p \in Sampled /\ \A o: p \in Group(o) <=> (p - 1) % Count = o
    BY DEF Group
  <2>2. \A o \in 0..(Count - 1): Shown(o)[k] = item <=> o = BatchOf(item, k)
    BY ShownWhen
  <2>3. BatchOf(item, k) \in 0..(Count - 1)
    BY <2>2, ShownWhen, PollConstants DEF BatchOf, Items
  <2>4. p \in B <=> (p - 1) % Count = BatchOf(item, k)
    BY DEF Turn
  <2>5. QED BY <2>1, <2>2, <2>3, <2>4
<1>2. A \subseteq I /\ B \subseteq I
  BY DEF Turn
<1>3. Showings(I, item, k) = Cardinality(A)
  BY DEF Showings
<1> HIDE DEF A, B
<1>4. A = B
  BY <1>1, <1>2
<1>5. Showings(I, item, k) = Cardinality(B)
  BY <1>3, <1>4
<1>6. QED BY <1>5 DEF B

\* To a row of people every item is shown in every place equally often, give or take one.
LEMMA ShownEvenly ==
    ASSUME tierOf \in Tierings, NEW I \in SUBSET Sampled,
           \A x, z \in I: \A y \in Int: x <= y /\ y <= z => y \in I,
           NEW i \in Items, NEW j \in Items, NEW k \in 1..Count, NEW l \in 1..Count
    PROVE  Showings(I, i, k) - Showings(I, j, l) \in {-1, 0, 1}
<1>1. Len(tierOf) \in Nat /\ Sampled = 1..Len(tierOf) /\ 1 \in Int /\ Len(tierOf) \in Int
  BY PollConstants DEF Sampled
<1>2. IsFiniteSet(1..Len(tierOf))
  BY <1>1, FS_Interval
<1>3. IsFiniteSet(I) /\ \A p \in I: p \in Int
  <2>1. I \in SUBSET (1..Len(tierOf))
    BY <1>1
  <2>2. IsFiniteSet(I)
    BY <1>2, <2>1, FS_Subset
  <2>3. QED BY <2>1, <2>2
<1>4. PICK r, s: r = BatchOf(i, k) /\ s = BatchOf(j, l) /\ r \in 0..(Count - 1) /\ s \in 0..(Count - 1)
  BY PollConstants DEF BatchOf, Items
<1>5. Showings(I, i, k) = Cardinality(Turn(I, r)) /\ Showings(I, j, l) = Cardinality(Turn(I, s))
  BY <1>4, ShowingsOfBatch
<1>6. CASE r < s
  BY <1>3, <1>4, <1>5, <1>6, Dealt
<1>7. CASE s < r
  BY <1>3, <1>4, <1>5, <1>7, Dealt
<1>8. CASE r = s
  <2>1. Turn(I, r) \in SUBSET I
    BY DEF Turn
  <2>2. Cardinality(Turn(I, r)) \in Nat
    BY <1>3, <2>1, FS_Subset, FS_CardinalityType
  <2>3. QED BY <1>5, <1>8, <2>2
<1>9. r \in Int /\ s \in Int
  BY <1>4, PollConstants
<1>10. QED BY <1>6, <1>7, <1>8, <1>9

(***************************************************************************)
(* The invariant of the poll.                                              *)
(***************************************************************************)
Voted == {p \in Sampled: Valid(p)}
Own(t) == {p \in Sampled: tierOf[p] = t /\ Valid(p)}
Handed(p) == \E i \in DOMAIN results: results[i] = p

\* Every batch hands over its own people, once; the ranking is made of the votes.
PollInv ==
    /\ tierOf \in Tierings /\ batchNo \in 0..Count
    /\ answer \in [Sampled -> {<<>>, <<"lost">>} \cup Rankings]
    /\ results \in Seq(Sampled)
    /\ \A i, j \in DOMAIN results: i /= j => results[i] /= results[j]
    /\ \A p \in Sampled: Handed(p) <=> (p - 1) % Count < batchNo
    /\ ranking.state \in {"open", "available", "suppressed"}
    /\ ranking.state /= "open" => batchNo = Count
    /\ ranking.state = "available" =>
         /\ Voted /= {}
         /\ ranking.scores = Borda(Voted) /\ ranking.rank = RankOf(Borda(Voted))
         /\ \A t \in {tierOf[p]: p \in Sampled}:
              ranking.tiers[t].n = Cardinality(Own(t)) /\ ranking.tiers[t].scores = Borda(Own(t))

\* Nobody is asked at first.
LEMMA PollInitInv == PollInit => PollInv
<1> SUFFICES ASSUME PollInit PROVE PollInv
  OBVIOUS
<1>1. Count \in Nat \ {0} /\ tierOf \in Tierings /\ Sampled \subseteq Int
  BY PollConstants DEF PollInit, Sampled
<1>2. \A p \in Sampled: ~((p - 1) % Count < 0)
  <2>1. ASSUME NEW p \in Sampled PROVE ~((p - 1) % Count < 0)
    <3>1. (p - 1) % Count \in 0..(Count - 1)
      BY <1>1, Remainder
    <3>2. QED BY <1>1, <3>1
  <2>2. QED BY <2>1
<1>3. QED BY <1>1, <1>2 DEF PollInit, PollInv, Handed

\* The enumeration of a batch has all its people.
LEMMA InOrderIsAll ==
    ASSUME NEW G, IsFiniteSet(G), G \subseteq Int, NEW s \in InOrder(G)
    PROVE  /\ Cardinality(G) \in Nat /\ s \in [1..Cardinality(G) -> G]
           /\ \A i, j \in 1..Cardinality(G): i /= j => s[i] /= s[j]
           /\ \A p \in G: \E i \in 1..Cardinality(G): s[i] = p
<1>1. PICK n \in Nat: n = Cardinality(G)
  BY FS_CardinalityType
<1>2. s \in [1..n -> G] /\ \A i, j \in 1..n: i < j => s[i] < s[j]
  BY <1>1 DEF InOrder
<1>3. ASSUME NEW i \in 1..n, NEW j \in 1..n, i /= j PROVE s[i] /= s[j]
  <2>1. s[i] \in Int /\ s[j] \in Int
    BY <1>2
  <2>2. CASE i < j
    <3>1. s[i] < s[j]
      BY <1>2, <2>2
    <3>2. QED BY <2>1, <3>1
  <2>3. CASE j < i
    <3>1. s[j] < s[i]
      BY <1>2, <2>3
    <3>2. QED BY <2>1, <3>1
  <2>4. QED BY <1>3, <2>2, <2>3
<1>4. s \in Injection(1..n, G)
  BY <1>2, <1>3 DEF Injection, IsInjective
<1>5. IsFiniteSet(1..n) /\ Cardinality(1..n) = n
  <2>1. 1 \in Int /\ n \in Int
    OBVIOUS
  <2>2. IsFiniteSet(1..n) /\ Cardinality(1..n) = IF 1 > n THEN 0 ELSE n - 1 + 1
    BY <2>1, FS_Interval
  <2>3. QED BY <2>2
<1>6. s \in Surjection(1..n, G)
  BY <1>1, <1>4, <1>5, FS_Injection
<1>7. \A p \in G: \E i \in 1..n: s[i] = p
  BY <1>6 DEF Surjection
<1>8. QED BY <1>1, <1>2, <1>3, <1>7

\* The ranking depends on the answers.
LEMMA VotesStay ==
    ASSUME tierOf' = tierOf, answer' = answer
    PROVE  /\ Sampled' = Sampled /\ Voted' = Voted /\ \A t: Own(t)' = Own(t)
           /\ \A V: Borda(V)' = Borda(V)
<1>1. Sampled' = Sampled
  BY DEF Sampled
<1>2. \A p: Valid(p)' <=> Valid(p)
  BY DEF Valid
<1>3. Voted' = Voted /\ \A t: Own(t)' = Own(t)
  BY <1>1, <1>2 DEF Voted, Own
<1>4. \A V: Borda(V)' = Borda(V)
  BY DEF Borda
<1>5. QED BY <1>1, <1>3, <1>4

\* The results of the poll stay as they are.
LEMMA RankingStays ==
    ASSUME PollInv, tierOf' = tierOf, answer' = answer, ranking' = ranking, ranking.state = "available"
    PROVE  (/\ Voted /= {}
            /\ ranking.scores = Borda(Voted) /\ ranking.rank = RankOf(Borda(Voted))
            /\ \A t \in {tierOf[p]: p \in Sampled}:
                 ranking.tiers[t].n = Cardinality(Own(t)) /\ ranking.tiers[t].scores = Borda(Own(t)))'
<1>1. /\ Sampled' = Sampled /\ Voted' = Voted /\ \A t: Own(t)' = Own(t)
      /\ \A V: Borda(V)' = Borda(V)
  BY VotesStay
<1>2. Borda(Voted)' = Borda(Voted) /\ \A t: Borda(Own(t))' = Borda(Own(t))
  BY <1>1
<1>3. QED BY <1>1, <1>2 DEF PollInv

\* A vote is cast.
LEMMA AnswerPollInv == ASSUME PollInv, NEW p \in Sampled, AnswerPoll(p) PROVE PollInv'
<1>1. PICK r \in Rankings \cup {<<"lost">>}: answer' = [answer EXCEPT ![p] = r]
  BY DEF AnswerPoll
<1>2. /\ tierOf' = tierOf /\ batchNo' = batchNo /\ results' = results /\ ranking' = ranking
      /\ batchNo < Count /\ Sampled' = Sampled
  BY DEF AnswerPoll, Sampled
<1>3. ranking.state = "open"
  <2>1. batchNo /= Count
    BY <1>2, PollConstants DEF PollInv
  <2>2. QED BY <2>1 DEF PollInv
<1>4. answer' \in [Sampled -> {<<>>, <<"lost">>} \cup Rankings]
  BY <1>1 DEF PollInv
<1>5. QED BY <1>2, <1>3, <1>4 DEF PollInv, Handed

\* A batch hands over its people.
LEMMA NextBatchInv == ASSUME PollInv, NextBatch PROVE PollInv'
<1> DEFINE G == Group(batchNo)
<1>1. PICK s \in InOrder(G): results' = results \o s
  BY DEF NextBatch
<1>2. /\ tierOf' = tierOf /\ batchNo' = batchNo + 1 /\ answer' = answer /\ ranking' = ranking
      /\ batchNo < Count /\ Sampled' = Sampled
  BY DEF NextBatch, Sampled
<1>3. ranking.state = "open"
  <2>1. batchNo /= Count
    BY <1>2, PollConstants DEF PollInv
  <2>2. QED BY <2>1 DEF PollInv
<1>4. /\ Count \in Nat \ {0} /\ batchNo \in Nat /\ batchNo + 1 \in 0..Count
      /\ results \in Seq(Sampled) /\ Len(results) \in Nat /\ Len(tierOf) \in Nat
      /\ Sampled = 1..Len(tierOf)
  BY <1>2, PollConstants DEF PollInv, Sampled
<1>5. IsFiniteSet(G) /\ G \subseteq Int /\ G \subseteq Sampled
  <2>1. 1 \in Int /\ Len(tierOf) \in Int
    BY <1>4
  <2>2. IsFiniteSet(1..Len(tierOf))
    BY <2>1, FS_Interval
  <2>3. G \in SUBSET (1..Len(tierOf))
    BY <1>4 DEF Group
  <2>4. QED BY <1>4, <2>2, <2>3, FS_Subset
<1>6. \A p: p \in G <=> p \in Sampled /\ (p - 1) % Count = batchNo
  BY DEF Group
<1> HIDE DEF G
<1>b. /\ Cardinality(G) \in Nat /\ s \in [1..Cardinality(G) -> G]
      /\ \A i, j \in 1..Cardinality(G): i /= j => s[i] /= s[j]
      /\ \A p \in G: \E i \in 1..Cardinality(G): s[i] = p
  BY <1>1, <1>5, InOrderIsAll
<1>7. PICK n \in Nat: /\ s \in [1..n -> G]
                      /\ \A i, j \in 1..n: i /= j => s[i] /= s[j]
                      /\ \A p \in G: \E i \in 1..n: s[i] = p
  BY <1>b
<1> DEFINE L == Len(results)
<1>8. s \in Seq(Sampled) /\ Len(s) = n
  <2>1. s \in [1..n -> Sampled]
    BY <1>5, <1>7
  <2>2. s \in Seq(Sampled) /\ DOMAIN s = 1..n
    BY <2>1, SeqDef
  <2>3. Len(s) \in Nat /\ 1..Len(s) = 1..n
    BY <2>2, LenProperties
  <2>4. Len(s) = n
    BY <2>3
  <2>5. QED BY <2>2, <2>4
<1>9. /\ results' \in Seq(Sampled) /\ DOMAIN results = 1..L /\ DOMAIN results' = 1..(L + n)
      /\ \A i \in 1..L: results'[i] = results[i]
      /\ \A i \in 1..n: results'[L + i] = s[i]
  <2>1. results' \in Seq(Sampled) /\ Len(results') = L + n
    BY <1>1, <1>4, <1>8, ConcatProperties
  <2>2. DOMAIN results = 1..L /\ DOMAIN results' = 1..(L + n)
    BY <1>4, <2>1
  <2>3. \A i \in 1..L: results'[i] = results[i]
    BY <1>1, <1>4, <1>8
  <2>4. \A i \in 1..n: results'[L + i] = s[i]
    BY <1>1, <1>4, <1>8
  <2>5. QED BY <2>1, <2>2, <2>3, <2>4
<1>10. ASSUME NEW i \in 1..(L + n), i \notin 1..L PROVE i - L \in 1..n /\ results'[i] = s[i - L]
  <2>1. i - L \in 1..n /\ i = L + (i - L)
    BY <1>4, <1>10
  <2>2. QED BY <1>9, <2>1
<1>11. ASSUME NEW i \in 1..L PROVE results[i] \in Sampled /\ (results[i] - 1) % Count < batchNo
  <2>1. results[i] \in Sampled /\ Handed(results[i])
    BY <1>4, <1>9, ElementOfSeq DEF Handed
  <2>2. QED BY <2>1 DEF PollInv
<1>12. ASSUME NEW i \in 1..(L + n), NEW j \in 1..(L + n), i /= j PROVE results'[i] /= results'[j]
  <2>1. CASE i \in 1..L /\ j \in 1..L
    BY <1>9, <1>12, <2>1 DEF PollInv
  <2>2. CASE i \notin 1..L /\ j \notin 1..L
    <3>1. i - L \in 1..n /\ j - L \in 1..n /\ i - L /= j - L
      BY <1>4, <1>10, <1>12, <2>2
    <3>2. QED BY <1>7, <1>10, <2>2, <3>1
  <2>3. CASE i \in 1..L /\ j \notin 1..L
    <3>1. results'[i] = results[i] /\ results'[j] \in G
      BY <1>7, <1>9, <1>10, <2>3
    <3>2. ~((results'[j] - 1) % Count < batchNo)
      BY <1>4, <1>6, <3>1
    <3>3. QED BY <1>11, <2>3, <3>1, <3>2
  <2>4. CASE i \notin 1..L /\ j \in 1..L
    <3>1. results'[j] = results[j] /\ results'[i] \in G
      BY <1>7, <1>9, <1>10, <2>4
    <3>2. ~((results'[i] - 1) % Count < batchNo)
      BY <1>4, <1>6, <3>1
    <3>3. QED BY <1>11, <2>4, <3>1, <3>2
  <2>5. QED BY <2>1, <2>2, <2>3, <2>4
<1>13. ASSUME NEW p \in Sampled
       PROVE  (\E i \in 1..(L + n): results'[i] = p) <=> (p - 1) % Count < batchNo + 1
  <2>1. (p - 1) % Count \in Int
    <3>1. p - 1 \in Int
      BY <1>4
    <3>2. QED BY <1>4, <3>1, Remainder
  <2>2. (p - 1) % Count < batchNo + 1 <=> (p - 1) % Count < batchNo \/ p \in G
    BY <1>4, <1>6, <2>1
  <2>3. (p - 1) % Count < batchNo <=> \E i \in 1..L: results[i] = p
    BY <1>9 DEF PollInv, Handed
  <2>4. ASSUME NEW i \in 1..(L + n), results'[i] = p
        PROVE  (\E k \in 1..L: results[k] = p) \/ p \in G
    <3>1. CASE i \in 1..L
      BY <1>9, <2>4, <3>1
    <3>2. CASE i \notin 1..L
      BY <1>7, <1>10, <2>4, <3>2
    <3>3. QED BY <3>1, <3>2
  <2>5. ASSUME NEW k \in 1..L, results[k] = p PROVE \E i \in 1..(L + n): results'[i] = p
    <3>1. k \in 1..(L + n)
      BY <1>4
    <3>2. QED BY <1>9, <2>5, <3>1
  <2>6. ASSUME p \in G PROVE \E i \in 1..(L + n): results'[i] = p
    <3>1. PICK k \in 1..n: s[k] = p
      BY <1>7, <2>6
    <3>2. L + k \in 1..(L + n)
      BY <1>4
    <3>3. QED BY <1>9, <3>1, <3>2
  <2>7. QED BY <2>2, <2>3, <2>4, <2>5, <2>6
<1> HIDE DEF L
<1>14. \A p \in Sampled': Handed(p)' <=> (p - 1) % Count < batchNo'
  BY <1>2, <1>9, <1>13 DEF Handed
<1>15. \A i, j \in DOMAIN results': i /= j => results'[i] /= results'[j]
  BY <1>9, <1>12
<1>16. answer' \in [Sampled' -> {<<>>, <<"lost">>} \cup Rankings]
  BY <1>2 DEF PollInv
<1>17. QED BY <1>2, <1>3, <1>4, <1>9, <1>14, <1>15, <1>16 DEF PollInv

\* When the last batch is through, the results hold every vote.
LEMMA EveryVote ==
    ASSUME PollInv, batchNo = Count
    PROVE  {results[i]: i \in Answers} = Voted /\ \A t: TierVoters(t) = Own(t)
<1>1. \A p \in Sampled: Handed(p)
  <2>1. ASSUME NEW p \in Sampled PROVE Handed(p)
    <3>1. Count \in Nat \ {0} /\ p - 1 \in Int
      BY PollConstants DEF PollInv, Sampled
    <3>2. (p - 1) % Count \in 0..(Count - 1)
      BY <3>1, Remainder
    <3>3. QED BY <3>1, <3>2 DEF PollInv
  <2>2. QED BY <2>1
<1>2. \A i \in DOMAIN results: results[i] \in Sampled
  <2>1. results \in Seq(Sampled)
    BY DEF PollInv
  <2>2. QED BY <2>1
<1>3. {results[i]: i \in Answers} = Voted
  BY <1>1, <1>2 DEF Answers, Voted, Handed
<1>4. ASSUME NEW t PROVE TierVoters(t) = Own(t)
  BY <1>1, <1>2 DEF TierVoters, TierOfResult, Answers, Own, Handed
<1>5. QED BY <1>3, <1>4

\* The ranking is made.
LEMMA AggregatePollInv == ASSUME PollInv, AggregatePoll PROVE PollInv'
<1>1. /\ tierOf' = tierOf /\ batchNo' = batchNo /\ answer' = answer /\ results' = results
      /\ batchNo = Count
  BY DEF AggregatePoll
<1>2. /\ Sampled' = Sampled /\ Voted' = Voted /\ \A t: Own(t)' = Own(t)
      /\ \A V: Borda(V)' = Borda(V)
  BY <1>1, VotesStay
<1>3. {results[i]: i \in Answers} = Voted /\ \A t: TierVoters(t) = Own(t)
  BY <1>1, EveryVote
<1>4. CASE ~Available
  BY <1>1, <1>2, <1>4 DEF AggregatePoll, PollInv, Handed
<1>5. CASE Available
  <2>1. Voted /= {}
    BY <1>3, <1>5 DEF Available
  <2>2. ranking' = [state |-> "available", scores |-> Borda(Voted), rank |-> RankOf(Borda(Voted)),
                    tiers |-> [t \in {tierOf[p]: p \in Sampled} |->
                       [n |-> Cardinality(Own(t)), scores |-> Borda(Own(t))]]]
    BY <1>3, <1>5 DEF AggregatePoll
  <2>3. Borda(Voted)' = Borda(Voted) /\ \A t: Borda(Own(t))' = Borda(Own(t))
    BY <1>2
  <2>4. ranking'.scores = Borda(Voted)' /\ ranking'.rank = RankOf(Borda(Voted)')
    BY <2>2, <2>3
  <2>5. \A t \in {tierOf[p]: p \in Sampled}:
          ranking'.tiers[t].n = Cardinality(Own(t)') /\ ranking'.tiers[t].scores = Borda(Own(t))'
    BY <1>2, <2>2, <2>3
  <2>6. ranking'.state = "available" /\ Voted' /= {}
    BY <1>2, <2>1, <2>2
  <2>7. QED BY <1>1, <1>2, <2>4, <2>5, <2>6 DEF PollInv, Handed
<1>6. QED BY <1>4, <1>5

\* Every step of the poll.
LEMMA PollNextInv == PollInv /\ [PollNext]_pollVars => PollInv'
<1> SUFFICES ASSUME PollInv, [PollNext]_pollVars PROVE PollInv'
  OBVIOUS
<1>1. CASE UNCHANGED pollVars
  <2>1. tierOf' = tierOf /\ batchNo' = batchNo /\ answer' = answer /\ results' = results /\ ranking' = ranking
    BY <1>1 DEF pollVars
  <2>2. Sampled' = Sampled
    BY <2>1 DEF Sampled
  <2>3. QED BY <2>1, <2>2, RankingStays DEF PollInv, Handed
<1>2. QED BY <1>1, AnswerPollInv, NextBatchInv, AggregatePollInv DEF PollNext

\* The invariant says what a fair poll is.
LEMMA PollInvFair == PollInv => PollFair
<1> SUFFICES ASSUME PollInv PROVE PollFair
  OBVIOUS
<1>1. Len(tierOf) \in Nat /\ Sampled = 1..Len(tierOf) /\ tierOf \in Tierings
  BY PollConstants DEF PollInv, Sampled
<1>2. IsFiniteSet(Sampled)
  <2>1. 1 \in Int /\ Len(tierOf) \in Int
    BY <1>1
  <2>2. IsFiniteSet(1..Len(tierOf))
    BY <2>1, FS_Interval
  <2>3. QED BY <1>1, <2>2
<1>3. ShownEquallyOften
  <2> DEFINE tiers == {{p \in Sampled: tierOf[p] = t}: t \in {tierOf[q]: q \in Sampled}}
  <2>1. ASSUME NEW I \in {Sampled} \cup (IF DrawnByTier THEN tiers ELSE {})
        PROVE  I \in SUBSET Sampled /\ \A x, z \in I: \A y \in Int: x <= y /\ y <= z => y \in I
    <3>1. CASE I = Sampled
      BY <1>1, <3>1
    <3>2. ASSUME DrawnByTier, NEW t, I = {p \in Sampled: tierOf[p] = t}
          PROVE  I \in SUBSET Sampled /\ \A x, z \in I: \A y \in Int: x <= y /\ y <= z => y \in I
      BY <1>1, <3>2 DEF DrawnByTier
    <3>3. QED BY <3>1, <3>2
  <2>2. QED BY <1>1, <2>1, ShownEvenly DEF ShownEquallyOften
<1>4. \A p \in Sampled: Valid(p) => answer[p] \in Rankings
  BY DEF PollInv, Valid
<1>5. ScoresAreDuels
  <2> SUFFICES ASSUME ranking.state = "available" PROVE ScoresAreDuels
    BY DEF ScoresAreDuels
  <2>1. Voted /= {} /\ ranking.scores = Borda(Voted) /\ ranking.rank = RankOf(Borda(Voted))
    BY DEF PollInv
  <2>2. IsFiniteSet(Voted) /\ \A p \in Voted: answer[p] \in Rankings
    BY <1>2, <1>4, FS_Subset DEF Voted
  <2>3. \A a \in Items: Borda(Voted)[a] =
          BordaSum([b \in Items \ {a} |-> Cardinality({p \in Voted: Prefers(p, a, b)})], Items \ {a})
    BY <2>2, BordaIsDuels
  <2>4. ASSUME NEW a \in Items, NEW b \in Items, \A p \in Voted: Prefers(p, a, b)
        PROVE  RankOf(Borda(Voted))[a] < RankOf(Borda(Voted))[b]
    BY <2>1, <2>2, <2>4, Unanimous
  <2>5. QED BY <2>1, <2>3, <2>4 DEF ScoresAreDuels, Voted
<1>6. TiersCountTheirOwn
  <2>1. \A t: {p \in Sampled: tierOf[p] = t /\ Valid(p)} = Own(t)
    BY DEF Own
  <2>2. QED BY <2>1 DEF TiersCountTheirOwn, PollInv
<1>7. QED BY <1>3, <1>5, <1>6 DEF PollFair

\* The types of the poll.
LEMMA PollTypes == PollInv => PollTypeOK
BY DEF PollInv, PollTypeOK, Asked

---------------------------------------------------------------------------
(***************************************************************************)
(* All parts of an evaluation (MCEvaluation).                              *)
(***************************************************************************)
EvaluationInv ==
    /\ BooksInv /\ FanoutTypes /\ WorkflowInv /\ PanelInv /\ SeatsKept /\ DrawInv /\ DrawTypeOK
    /\ PollInv /\ CohortInv /\ ChoiceInv /\ CampusInv /\ TagInv /\ CalibrationInv /\ MatrixInv
    /\ AccessInv

\* A part that does not move begins as it would by itself.
LEMMA EveryPartBegins ==
    EvaluationInit =>
        /\ FanoutInit /\ WorkflowInit /\ PanelInit /\ DrawInit /\ PollInit /\ CohortInit
        /\ ChoiceInit /\ CampusInit /\ TagInit /\ CalibrationInit /\ MatrixInit /\ AccessInit
<1> SUFFICES ASSUME EvaluationInit
             PROVE  /\ FanoutInit /\ WorkflowInit /\ PanelInit /\ DrawInit /\ PollInit /\ CohortInit
                    /\ ChoiceInit /\ CampusInit /\ TagInit /\ CalibrationInit /\ MatrixInit /\ AccessInit
  OBVIOUS
<1>1. FanoutInit /\ MatrixInit /\ AccessInit
  BY DEF EvaluationInit
<1>2. WorkflowInit
  <2>1. (CHOOSE s \in Samples: TRUE) \in Samples
    BY EvaluationConstants
  <2>2. QED BY <2>1 DEF EvaluationInit, WorkflowBegins, WorkflowInit
<1>3. PanelInit
  BY DEF EvaluationInit, PanelBegins, PanelInit, Protocols
<1>4. DrawInit
  <2>1. (CHOOSE n \in Sizes: TRUE) \in Sizes /\ (CHOOSE n \in Requests: TRUE) \in Requests
    BY EvaluationConstants
  <2>2. QED BY <2>1 DEF EvaluationInit, DrawBegins, DrawInit
<1>5. PollInit
  <2>1. (CHOOSE s \in Tierings: TRUE) \in Tierings
    BY EvaluationConstants
  <2>2. QED BY <2>1 DEF EvaluationInit, PollBegins, PollInit
<1>6. CohortInit
  BY DEF EvaluationInit, CohortBegins, CohortInit, PolicyRows, ScoredRows, Origins
<1>7. ChoiceInit /\ CampusInit
  BY DEF EvaluationInit, ChoiceBegins, CampusBegins, ChoiceInit, CampusInit, Forms
<1>8. TagInit
  <2>1. 0 \in 0..MaxPeople
    BY TagConstants
  <2>2. QED BY <2>1 DEF EvaluationInit, TagBegins, TagInit
<1>9. CalibrationInit
  <2>1. (CHOOSE n \in WeightLimits: TRUE) \in WeightLimits /\ 0 \in 0..MaxStratum /\ 0 \in 0..MaxTarget
    BY EvaluationConstants, CalibrationConstants
  <2>2. QED BY <2>1 DEF EvaluationInit, CalibrationBegins, CalibrationInit
<1>10. QED BY <1>1, <1>2, <1>3, <1>4, <1>5, <1>6, <1>7, <1>8, <1>9

\* While a part moves the others stay as they are.
LEMMA EveryPartSteps ==
    [EvaluationNext]_evaluationVars =>
        /\ [FanoutNext]_fanoutVars /\ [WorkflowNext]_workflowVars /\ [PanelNext]_panelVars
        /\ [DrawNext]_drawVars /\ [PollNext]_pollVars /\ [CohortNext]_cohortVars
        /\ [ChoiceNext]_choiceVars /\ [CampusNext]_campusVars /\ [TagNext]_tagVars
        /\ [CalibrationNext]_calibrationVars /\ [MatrixNext]_matrixVars /\ [AccessNext]_accessVars
BY DEF EvaluationNext, evaluationVars, FanoutMoves, WorkflowMoves, PanelMoves, DrawMoves, PollMoves,
       CohortMoves, ChoiceMoves, CampusMoves, TagsMove, CalibrationMoves, MatrixMoves, AccessMoves

\* The sizes and the request of a draw are those it was begun with.
LEMMA DrawTypesStay ==
    ASSUME DrawInv, DrawTypeOK, [DrawNext]_drawVars PROVE DrawTypeOK'
<1>1. DrawInv'
  BY DrawNextInv
<1>2. size' = size /\ request' = request
  BY DEF DrawNext, drawVars, ReadNobody, TakeMinimums, VisitTier, Filled, AskTiers
<1>3. QED BY <1>1, <1>2 DEF DrawInv, DrawTypeOK

\* At the start every part is in order.
LEMMA EvaluationBegins == EvaluationInit => EvaluationInv
<1> SUFFICES ASSUME EvaluationInit PROVE EvaluationInv
  OBVIOUS
<1>1. /\ FanoutInit /\ WorkflowInit /\ PanelInit /\ DrawInit /\ PollInit /\ CohortInit
      /\ ChoiceInit /\ CampusInit /\ TagInit /\ CalibrationInit /\ MatrixInit /\ AccessInit
  BY EveryPartBegins
<1>2. BooksInv /\ FanoutTypes /\ WorkflowInv /\ PanelInv /\ SeatsKept
  BY <1>1, BooksOpen, FanoutTypesInit, WorkflowInitInv, PanelInitInv, SeatsFree
<1>3. DrawInv /\ PollInv /\ CohortInv /\ ChoiceInv /\ CampusInv /\ TagInv
  BY <1>1, DrawInitInv, PollInitInv, CohortInitInv, ChoiceInitInv, CampusInitInv, TagInitInv
<1>4. CalibrationInv /\ MatrixInv /\ AccessInv
  BY <1>1, CalibrationInitInv, MatrixInitInv, AccessInitInv
<1>5. DrawTypeOK
  BY <1>1, <1>3 DEF DrawInit, DrawInv, DrawTypeOK
<1>6. QED BY <1>2, <1>3, <1>4, <1>5 DEF EvaluationInv

\* Every step leaves every part in order.
LEMMA EvaluationGoesOn == EvaluationInv /\ [EvaluationNext]_evaluationVars => EvaluationInv'
<1> SUFFICES ASSUME EvaluationInv, [EvaluationNext]_evaluationVars PROVE EvaluationInv'
  OBVIOUS
<1>1. /\ [FanoutNext]_fanoutVars /\ [WorkflowNext]_workflowVars /\ [PanelNext]_panelVars
      /\ [DrawNext]_drawVars /\ [PollNext]_pollVars /\ [CohortNext]_cohortVars
      /\ [ChoiceNext]_choiceVars /\ [CampusNext]_campusVars /\ [TagNext]_tagVars
      /\ [CalibrationNext]_calibrationVars /\ [MatrixNext]_matrixVars /\ [AccessNext]_accessVars
  BY EveryPartSteps
<1>2. /\ BooksInv /\ FanoutTypes /\ WorkflowInv /\ PanelInv /\ SeatsKept /\ DrawInv /\ DrawTypeOK
      /\ PollInv /\ CohortInv /\ ChoiceInv /\ CampusInv /\ TagInv /\ CalibrationInv /\ MatrixInv
      /\ AccessInv
  BY DEF EvaluationInv
<1>3. BooksInv' /\ FanoutTypes' /\ WorkflowInv' /\ PanelInv' /\ SeatsKept'
  BY <1>1, <1>2, BooksStep, FanoutTypesStep, WorkflowNextInv, PanelNextInv, SeatsStay
<1>4. DrawInv' /\ DrawTypeOK' /\ PollInv' /\ CohortInv' /\ ChoiceInv' /\ CampusInv' /\ TagInv'
  BY <1>1, <1>2, DrawNextInv, DrawTypesStay, PollNextInv, CohortNextInv, ChoiceNextInv, CampusNextInv,
     TagNextInv
<1>5. CalibrationInv' /\ MatrixInv' /\ AccessInv'
  BY <1>1, <1>2, CalibrationNextInv, MatrixNextInv, AccessNextInv
<1>6. QED BY <1>3, <1>4, <1>5 DEF EvaluationInv

\* The inductive invariant of an evaluation, whichever part of it moves.
THEOREM EvaluationHolds == EvaluationSpec => []EvaluationInv
<1>1. EvaluationInit => EvaluationInv
  BY EvaluationBegins
<1>2. EvaluationInv /\ [EvaluationNext]_evaluationVars => EvaluationInv'
  BY EvaluationGoesOn
<1>3. QED BY <1>1, <1>2, PTL DEF EvaluationSpec

\* The tables of every part keep their types, no semaphore gives out more places than
\* it has and no coroutine tries more often than it may, for panels of any size
\* (simulator.py:99-173, agents/service.py, stratified.py, simulations/).
THEOREM EvaluationTyped == EvaluationSpec => []EvaluationTypeOK
<1>1. EvaluationInv => EvaluationTypeOK
  <2> SUFFICES ASSUME EvaluationInv PROVE EvaluationTypeOK
    OBVIOUS
  <2>1. FanoutTypeOK
    BY FanoutTyped DEF EvaluationInv
  <2>2. AgentTypeOK
    BY DEF EvaluationInv, WorkflowInv, WorkflowTypes, Recorded, AgentTypeOK, Deciding, Decided
  <2>3. PanelTypeOK
    <3>1. Seated = {p \in Panel: member[p].place = "inside"}
      BY DEF Seated, In
    <3>2. /\ protocol \in Protocols /\ member \in [Panel -> Member]
          /\ received \in [Panel -> 0..Steps] /\ report.ready \in BOOLEAN
      BY DEF EvaluationInv, PanelInv
    <3>3. Cardinality(Seated) <= Seats
      BY DEF EvaluationInv, SeatsKept
    <3>4. QED BY <3>1, <3>2, <3>3 DEF PanelTypeOK
  <2>4. DrawTypeOK /\ PollTypeOK
    BY PollTypes DEF EvaluationInv
  <2>5. CohortTypeOK
    BY DEF EvaluationInv, CohortInv, CohortTypes, CohortTypeOK
  <2>6. AccessTypeOK
    BY AccessTyped DEF EvaluationInv
  <2>7. QED BY <2>1, <2>2, <2>3, <2>4, <2>5, <2>6 DEF EvaluationTypeOK
<1>2. QED BY <1>1, EvaluationHolds, PTL

\* For populations and requests of any size, the sample has the size asked for and
\* every tier, and the weights undo its distortion (stratified.py:50-108).
THEOREM SampleSpeaks == EvaluationSpec => []SampleRepresents
<1>1. EvaluationInv => SampleRepresents
  BY DrawInvRepresents DEF EvaluationInv
<1>2. QED BY <1>1, EvaluationHolds, PTL

\* For panels and items of any number, each item stands in each place equally often but
\* for one respondent, and the ranking follows the votes that were cast
\* (campus_priority.py:95-189).
THEOREM PollIsFair == EvaluationSpec => []PollFair
<1>1. EvaluationInv => PollFair
  BY PollInvFair DEF EvaluationInv
<1>2. QED BY <1>1, EvaluationHolds, PTL

\* For panels of any size each respondent is once in what a report adds up, under what
\* that respondent said: choices of the forms that take no other letters, breakdowns,
\* cells and labels (generic_suite.py, open_survey.py, campus_policy.py, tagging.py).
THEOREM CountedOnce == EvaluationSpec => []EveryoneCountedOnce
<1>1. EvaluationInv => EveryoneCountedOnce
  BY ChoiceAddsUp, ChoiceGroups, CampusCounted, TagsHold DEF EvaluationInv, EveryoneCountedOnce
<1>2. QED BY <1>1, EvaluationHolds, PTL

\* For panels of any size what a report concludes is borne out by its answers: the price
\* recommended, the weighted headline, the calibrated shares and the verdict on each age
\* band (generic_suite.py, campus_policy.py, calibration.py, opp_risk.py).
THEOREM ReportsConclude == EvaluationSpec => []ConclusionsFollow
<1>1. EvaluationInv => ConclusionsFollow
  BY ChoiceCheapest, CampusAverage, VerdictsFollow DEF EvaluationInv, CalibrationInv, ConclusionsFollow
<1>2. QED BY <1>1, EvaluationHolds, PTL

=============================================================================
