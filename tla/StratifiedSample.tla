-------------------------- MODULE StratifiedSample --------------------------
(***************************************************************************)
(* The stratified draw of the campus polls (src/data/stratified.py) and    *)
(* the net support a policy poll computes from it                          *)
(* (src/simulations/campus_policy.py).  The population is read once and    *)
(* split into tiers; every tier first gets its minimum, what is left is    *)
(* handed out tier by tier, the largest first, and the weights undo the    *)
(* distortion in the aggregate.                                            *)
(***************************************************************************)
EXTENDS Integers, FiniteSets, FiniteSetsExt

CONSTANTS
    Sizes,      \* populations of a tier
    Requests    \* sample sizes asked for

ASSUME DrawConstants == Sizes \subseteq Nat /\ Requests \subseteq Nat \ {0}

VARIABLES
    size,        \* personas of each tier
    request,     \* n
    drawn,       \* allocation
    left,        \* remaining
    visited,     \* tiers the current pass of the loop has seen
    draw,        \* where sample_stratified stands
    poll         \* what the tiers answer to the policy

drawVars == <<size, request, drawn, left, visited, draw, poll>>

Tiers == 1..4   \* TIER_ORDER
Minimum == <<40, 40, 20, 30>>
MinimumTotal == 130

Sum(f) == MapThenSumSet(LAMBDA t: f[t], Tiers)
Population == Sum(size)
Smaller(a, b) == IF a < b THEN a ELSE b
Larger(a, b) == IF a > b THEN a ELSE b

\* round(): a half goes to the even neighbour.
Rounded(a, b) ==
    LET q == a \div b  r == 2 * (a % b) IN
    IF r > b \/ (r = b /\ q % 2 = 1) THEN q + 1 ELSE q

DrawTypeOK ==
    /\ size \in [Tiers -> Sizes] /\ request \in Requests
    /\ drawn \in [Tiers -> Nat] /\ left \in Int
    /\ visited \subseteq Tiers
    /\ draw \in {"read", "fill", "weigh", "asked", "empty"}
    /\ draw = "fill" => left = Smaller(request, Population) - Sum(drawn)
    /\ poll \in [Tiers -> {-1, 0, 1}]

DrawInit ==
    /\ size \in [Tiers -> Sizes] /\ request \in Requests
    /\ drawn = [t \in Tiers |-> 0] /\ left = 0
    /\ visited = {} /\ draw = "read"
    /\ poll = [t \in Tiers |-> 0]

\* Variant: a scaled minimum may become nobody.
Quota_Zero(n) ==
    [t \in Tiers |-> IF MinimumTotal > n THEN (Minimum[t] * n) \div MinimumTotal ELSE Minimum[t]]

\* A sum of minima beyond the sample is scaled down instead of refused.
Quota(n) ==
    [t \in Tiers |-> IF MinimumTotal > n THEN Larger(1, (Minimum[t] * n) \div MinimumTotal) ELSE Minimum[t]]

\* The sampler raises when the filter leaves nobody.
ReadNobody ==
    /\ draw = "read" /\ Population = 0
    /\ draw' = "empty"
    /\ UNCHANGED <<size, request, drawn, left, visited, poll>>

\* Variant: what is left is computed from the quotas, not from what the tiers gave.
TakeMinimums_Promised ==
    /\ draw = "read" /\ Population > 0
    /\ LET n == Smaller(request, Population) IN
       /\ drawn' = [t \in Tiers |-> Smaller(Quota(n)[t], size[t])]
       /\ left' = n - Sum(Quota(n))
    /\ draw' = "fill"
    /\ UNCHANGED <<size, request, visited, poll>>

TakeMinimums ==
    /\ draw = "read" /\ Population > 0
    /\ LET n == Smaller(request, Population) IN
       /\ drawn' = [t \in Tiers |-> Smaller(Quota(n)[t], size[t])]
       /\ left' = n - Sum(drawn')
    /\ draw' = "fill"
    /\ UNCHANGED <<size, request, visited, poll>>

\* The pass goes from the largest tier to the smallest; the sort is stable.
Before(a, b) == size[a] > size[b] \/ (size[a] = size[b] /\ a < b)
IsNext(t) == t \notin visited /\ \A o \in Tiers \ (visited \cup {t}): Before(t, o)

\* Variant: the share is not limited by what the tier still has.
Share_Unbounded(t) == Smaller(Larger(1, Rounded(left * size[t], Population)), left)

Share(t) ==
    Smaller(Smaller(size[t] - drawn[t], Larger(1, Rounded(left * size[t], Population))), left)

\* A tier without headroom is passed over.
VisitTier(t) ==
    /\ draw = "fill" /\ left > 0 /\ IsNext(t)
    /\ LET take == IF size[t] > drawn[t] THEN Share(t) ELSE 0 IN
       /\ drawn' = [drawn EXCEPT ![t] = @ + take]
       /\ left' = left - take
    /\ visited' = IF visited \cup {t} = Tiers THEN {} ELSE visited \cup {t}
    /\ UNCHANGED <<size, request, draw, poll>>

Filled ==
    /\ draw = "fill" /\ left <= 0
    /\ draw' = "weigh" /\ visited' = {}
    /\ UNCHANGED <<size, request, drawn, left, poll>>

\* Each tier speaks with one voice: against, undecided, in favour.
AskTiers ==
    /\ draw = "weigh"
    /\ \E p \in [Tiers -> {-1, 0, 1}]:
         /\ \A t \in Tiers: drawn[t] = 0 => p[t] = 0
         /\ poll' = p
    /\ draw' = "asked"
    /\ UNCHANGED <<size, request, drawn, left, visited>>

DrawNext ==
    \/ ReadNobody \/ TakeMinimums
    \/ \E t \in Tiers: VisitTier(t)
    \/ Filled \/ AskTiers

DrawSpec == DrawInit /\ [][DrawNext]_drawVars

(***************************************************************************)
(* The weights and the net support, as fractions.                          *)
(***************************************************************************)
\* Variant: the share of the sample over the share of the population.
Weight_Inverse(t) == IF drawn[t] = 0 THEN <<0, 1>> ELSE <<Population * drawn[t], size[t] * Sum(drawn)>>

\* tier_weights: share of the population over share of the sample.
Weight(t) == IF drawn[t] = 0 THEN <<0, 1>> ELSE <<size[t] * Sum(drawn), Population * drawn[t]>>

\* A tier's part of the numerator or denominator of _net_support, over the
\* population: all its answers carry the same weight.
Part(t, per) == (per * drawn[t] * Weight(t)[1]) \div Weight(t)[2]

(***************************************************************************)
(* Properties.                                                             *)
(***************************************************************************)
\* The draw neither runs out of a tier, which rng.sample would refuse, nor leaves
\* a seat empty: the sample has the size asked for, or the whole population
\* (stratified.py:63-90).  Only below one seat per tier it is larger.
SampleFills ==
    /\ \A t \in Tiers: drawn[t] <= size[t]
    /\ draw \in {"weigh", "asked"} =>
         \/ Sum(drawn) = Smaller(request, Population)
         \/ request < Cardinality(Tiers) /\ Sum(drawn) \in request..Cardinality(Tiers)

\* A tier of the population is never missing from the sample, however small the
\* sample is: a comparison of tiers always has something to compare.
EveryTierHeard ==
    draw \in {"weigh", "asked"} => \A t \in Tiers: size[t] > 0 => drawn[t] > 0

\* The weighted net support of the distorted sample is the one of the population:
\* the sum over the tiers of population share times tier opinion
\* (stratified.py:97-108, campus_policy.py:222-239).
SupportIsPopulations ==
    draw = "asked" =>
        LET total == Sum([t \in Tiers |-> Part(t, Population)])
            net == Sum([t \in Tiers |-> poll[t] * Part(t, Population)])
        IN net * Population = total * Sum([t \in Tiers |-> poll[t] * size[t]])

\* The distorted sample still represents the population: it has the size asked
\* for, every tier, and weights that undo the distortion.
SampleRepresents == SampleFills /\ EveryTierHeard /\ SupportIsPopulations
=============================================================================
