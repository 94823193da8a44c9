---------------------------- MODULE CampusReport ----------------------------
(***************************************************************************)
(* The report of a campus policy poll: src/simulations/campus_policy.py    *)
(* (the parser that fixes the condition categories, _net_support and       *)
(* aggregate_campus_policy) with the classification of the respondents     *)
(* into the two axes of the matrix (campus_tiers, respondent_axes).        *)
(***************************************************************************)
EXTENDS Integers, Sequences, FiniteSets, FiniteSetsExt

CONSTANTS
    Voters,        \* <<level, housing>> of each respondent: as written in the persona
    Levels,        \* the levels classify_tier knows
    StaffTier,     \* the tier of everybody else
    NearHousings,  \* the ways of living on or by the campus that classify_housing knows
    Commuting,     \* the way of living of everybody else
    TierWeights,   \* tier_weights of the sample: weight of each tier, at least 1
    Taxonomy,      \* condition categories the request lists
    Conflicts,     \* pairs of them the request declares incompatible
    MaxIntensity,  \* MAX_INTENSITY
    Confident,     \* LOW_CONFIDENCE_MIN_SAMPLE
    DominantPct,   \* DOMINANT_STANCE_PCT
    ConflictPct    \* CONFLICT_MIN_SHARE

ASSUME CampusConstants ==
    /\ Voters \in Seq(STRING \X STRING)
    /\ IsFiniteSet(NearHousings) /\ Commuting \notin NearHousings
    /\ IsFiniteSet(Levels) /\ StaffTier \notin Levels
    /\ TierWeights \in [Levels \cup {StaffTier} -> Nat \ {0}]
    /\ Conflicts \subseteq Taxonomy \X Taxonomy
    /\ MaxIntensity \in Nat \ {0} /\ Confident \in Nat \ {0}
    /\ DominantPct \in 51..100 /\ ConflictPct \in 1..100

VARIABLES
    ballots,   \* parsed results so far: an answer or Unread
    findings   \* the metrics

campusVars == <<ballots, findings>>

Unread == [stance |-> "unread", intensity |-> 0, category |-> "none"]
CampusTiers == Levels \cup {StaffTier}
Housings == NearHousings \cup {Commuting}
Stances == {"for", "against", "undecided"}
NoFindings == [ready |-> FALSE]

\* Variant: a persona whose level is not known keeps the level it wrote.
ClassifyTier_AsWritten(level) == level

\* Whoever cannot be classified counts as staff, the smallest group, so that the
\* largest is not polluted.
ClassifyTier(level) == IF level \in Levels THEN level ELSE StaffTier

\* Whoever lives in a way nobody listed commutes.
ClassifyHousing(housing) == IF housing \in NearHousings THEN housing ELSE Commuting

CampusInit == ballots = <<>> /\ findings = NoFindings

\* What the model may write; "stray" is a category nobody listed.
PolicyReplies == [stance: Stances \cup {"conditional"}, intensity: 0..MaxIntensity,
                  category: Taxonomy \cup {"other", "none", "stray"}]

\* The parser: nothing out of range is read as something else.
ReadBallot(reply) ==
    IF /\ reply.stance \in Stances
       /\ reply.intensity \in 1..MaxIntensity
       /\ reply.category \in Taxonomy \cup {"other", "none"}
    THEN reply ELSE Unread

AnswerPolicy ==
    /\ Len(ballots) < Len(Voters) /\ findings = NoFindings
    /\ \E reply \in PolicyReplies: ballots' = Append(ballots, ReadBallot(reply))
    /\ UNCHANGED findings

(***************************************************************************)
(* The aggregate.                                                          *)
(***************************************************************************)
Ballots == {i \in DOMAIN ballots: ballots[i] /= Unread}
TierOfVoter(i) == ClassifyTier(Voters[i][1])
HousingOfVoter(i) == ClassifyHousing(Voters[i][2])
Unweighted == [t \in {} |-> 1]

\* weights.get(tier, 1.0)
Voice(i, weights) ==
    IF TierOfVoter(i) \in DOMAIN weights THEN weights[TierOfVoter(i)] ELSE 1

Direction(i) ==
    CASE ballots[i].stance = "for" -> 1
      [] ballots[i].stance = "against" -> -1
      [] OTHER -> 0

\* Variant: the weights are applied to the answers and not to their number.
NetSupport_Heads(S, weights) ==
    LET support == [i \in S |-> Direction(i) * ballots[i].intensity * Voice(i, weights)]
    IN <<MapThenSumSet(LAMBDA i: support[i], S), MaxIntensity * Cardinality(S)>>

\* Net support over weight.  0/0 is 0 in the code: no answers.
Fraction(support, voice, S) ==
    <<MapThenSumSet(LAMBDA i: support[i], S), MaxIntensity * MapThenSumSet(LAMBDA i: voice[i], S)>>

NetSupport(S, weights) ==
    LET support == [i \in S |-> Direction(i) * ballots[i].intensity * Voice(i, weights)]
        voice == [i \in S |-> Voice(i, weights)]
    IN Fraction(support, voice, S)

\* Percent to one decimal, in tenths.
Pct10(n, total) == IF total = 0 THEN 0 ELSE (2000 * n + total) \div (2 * total)

Stance(s) == {i \in Ballots: ballots[i].stance = s}
Dominant == {s \in Stances: Pct10(Cardinality(Stance(s)), Cardinality(Ballots)) >= 10 * DominantPct}

Cell(t, h) == {i \in Ballots: TierOfVoter(i) = t /\ HousingOfVoter(i) = h}
Matrix == [c \in CampusTiers \X Housings |->
    [n |-> Cardinality(Cell(c[1], c[2])), net |-> NetSupport(Cell(c[1], c[2]), Unweighted),
     confident |-> Cardinality(Cell(c[1], c[2])) >= Confident]]

\* Conditions are counted whatever the stance.
Wanting(category) == {i \in Ballots: ballots[i].category = category}
IsShared(category) == Cardinality(Wanting(category)) * 100 >= ConflictPct * Cardinality(Ballots)
OpenConflicts ==
    {pair \in Conflicts: Ballots /= {} /\ IsShared(pair[1]) /\ IsShared(pair[2])}

\* The cells a comparison of tiers may use; their spread is claimed only if
\* there are two of them.
Compared == {c \in CampusTiers \X Housings: Matrix[c].confident}

ReportPolicy ==
    /\ Len(ballots) = Len(Voters) /\ findings = NoFindings
    /\ findings' = [ready |-> TRUE, stances |-> [s \in Stances |-> Cardinality(Stance(s))],
                    net |-> NetSupport(Ballots, TierWeights), matrix |-> Matrix,
                    dominant |-> Dominant, conflicts |-> OpenConflicts,
                    compared |-> IF Cardinality(Compared) >= 2 THEN Compared ELSE {}]
    /\ UNCHANGED ballots

CampusNext == AnswerPolicy \/ ReportPolicy

CampusSpec == CampusInit /\ [][CampusNext]_campusVars

(***************************************************************************)
(* Properties.                                                             *)
(***************************************************************************)
\* Every answer that was read stands in one cell of the matrix, also the one of a
\* respondent whose level or housing is written in a way nobody foresaw: the
\* cells add up to the stances (campus_policy.py:255-296).
MatrixHoldsEveryAnswer ==
    LET n == [c \in CampusTiers \X Housings |-> findings.matrix[c].n] IN
    findings.ready =>
        MapThenSumSet(LAMBDA c: n[c], CampusTiers \X Housings)
            = MapThenSumSet(LAMBDA s: findings.stances[s], Stances)

\* The headline is an average of the cells: however the tiers are weighted, it is
\* not below the least favourable cell nor above the most favourable one
\* (campus_policy.py:222-239, 404).
HeadlineWithinCells ==
    LET Le(p, q) == p[1] * q[2] <= q[1] * p[2]
        heard == {c \in CampusTiers \X Housings: findings.matrix[c].n > 0}
    IN findings.ready /\ heard /= {} =>
        /\ \E c \in heard: Le(findings.matrix[c].net, findings.net)
        /\ \E c \in heard: Le(findings.net, findings.matrix[c].net)
=============================================================================
