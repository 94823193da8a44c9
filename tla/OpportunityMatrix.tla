-------------------------- MODULE OpportunityMatrix --------------------------
(***************************************************************************)
(* The opportunity/risk matrix and its verdicts                            *)
(* (src/simulations/opp_risk.py): five indicators per age band, one band   *)
(* marked sweet, a verdict for each band and one for the whole, issued     *)
(* when no model does it.  Percentages are whole numbers; opportunity is   *)
(* kept three times as large, so that it stays one.                        *)
(***************************************************************************)
EXTENDS Integers, Sequences, FiniteSets, FiniteSetsExt

CONSTANTS
    Bands,    \* age bands a run may have
    Shares,   \* shares of the winner in a band, in percent
    Moods,    \* <<share of 4s and 5s, (average - 1) / 4>> in percent; <<>>: no scores
    Mentions  \* shares of a band's reasons that name price, trust or alternatives

ASSUME MatrixConstants ==
    /\ Bands \in Nat \ {0}
    /\ Shares \subseteq 0..100 /\ Mentions \subseteq 0..100
    /\ \A m \in Moods: m = <<>> \/ m \in (0..100) \X (0..100)

VARIABLES
    bands,    \* indicators of the bands scored so far, in AGE_ORDER
    matrix,   \* rows: the indicators and the sweet mark
    verdicts  \* deterministic_generation_verdicts

matrixVars == <<bands, matrix, verdicts>>

\* round(), halves to the even number, then _clamp.
Nearest(a, b) ==
    LET q == a \div b
        r == 2 * (a % b)
        up == IF r > b \/ (r = b /\ q % 2 = 1) THEN q + 1 ELSE q
    IN IF up > 100 THEN 100 ELSE up

Indicators(share, mood, price, trust, other) ==
    [accept |-> IF mood = <<>> THEN share ELSE Nearest(6 * share + 4 * mood[1], 10),
     need |-> IF mood = <<>>
              THEN IF 8 * share + 150 > 900 THEN 90 ELSE Nearest(8 * share + 150, 10)
              ELSE Nearest(7 * mood[2] + 3 * mood[1], 10),
     price |-> price, trust |-> trust,
     rivals |-> Nearest(6 * (100 - share) + 4 * other, 10)]

MatrixInit == bands = <<>> /\ matrix = <<>> /\ verdicts = <<>>

\* Price, trust: of the band's respondents, or of all when none falls in it.
ScoreBand ==
    /\ matrix = <<>> /\ Len(bands) < Bands
    /\ \E s \in Shares, m \in Moods, p, t, o \in Mentions:
         bands' = Append(bands, Indicators(s, m, p, t, o))
    /\ UNCHANGED <<matrix, verdicts>>

\* Variant: the best band is the one people want most.
Opportunity_NoRisk(v) == 3 * (v.accept + v.need)

Opportunity(v) == 3 * (v.accept + v.need) - (v.price + v.trust + v.rivals)

\* The first of the bands with the greatest opportunity.
Best == Min({i \in DOMAIN bands: \A j \in DOMAIN bands: Opportunity(bands[j]) <= Opportunity(bands[i])})

MarkSweet ==
    /\ matrix = <<>> /\ bands /= <<>>
    /\ matrix' = [i \in DOMAIN bands |->
         [v |-> bands[i], sweet |-> /\ Len(bands) > 1 /\ i = Best
                                    /\ Opportunity(bands[i]) > 3 * 40]]
    /\ UNCHANGED <<bands, verdicts>>

TopRisk(v) == Max({v.price, v.trust, v.rivals})

\* Variant: a band that is wanted by some and needed by many is left out.
Verdict_NoNeed(row) ==
    CASE row.sweet /\ TopRisk(row.v) < 45 -> "attractive"
      [] ~(row.sweet /\ TopRisk(row.v) < 45) /\ row.v.need >= 60 /\ row.v.accept < 55 -> "conditional"
      [] OTHER -> "hold"

\* deterministic_verdict; opportunity >= 150 is subsumed by >= 110.
Verdict(row) ==
    CASE row.sweet /\ TopRisk(row.v) < 45 -> "attractive"
      [] ~(row.sweet /\ TopRisk(row.v) < 45)
         /\ (row.v.accept + row.v.need >= 110 \/ (row.v.need >= 60 /\ row.v.accept < 55)) -> "conditional"
      [] OTHER -> "hold"

\* Variant: the overall verdict is that of the first band.
Spokesman_First == 1

\* The first sweet band, or the first band.
Spokesman ==
    IF \E i \in DOMAIN matrix: matrix[i].sweet
    THEN Min({i \in DOMAIN matrix: matrix[i].sweet}) ELSE 1

Judge ==
    /\ matrix /= <<>> /\ verdicts = <<>>
    /\ verdicts' = [bands |-> [i \in DOMAIN matrix |-> Verdict(matrix[i])],
                    overall |-> Verdict(matrix[Spokesman])]
    /\ UNCHANGED <<bands, matrix>>

MatrixNext == ScoreBand \/ MarkSweet \/ Judge

MatrixSpec == MatrixInit /\ [][MatrixNext]_matrixVars

Rank(verdict) == CASE verdict = "attractive" -> 2 [] verdict = "conditional" -> 1 [] OTHER -> 0

\* At least as good in all five indicators and better in one.
Dominates(a, b) ==
    /\ a /= b
    /\ a.accept >= b.accept /\ a.need >= b.need
    /\ a.price <= b.price /\ a.trust <= b.trust /\ a.rivals <= b.rivals

(***************************************************************************)
(* A band that is at least as good as another in all five indicators never *)
(* gets the worse verdict, although the middle verdict asks for a low      *)
(* acceptance and the best one for a mark that only one band can have.     *)
(***************************************************************************)
BetterBandNoWorseVerdict ==
    verdicts /= <<>> => \A i, j \in DOMAIN matrix:
        Dominates(matrix[i].v, matrix[j].v) => Rank(verdicts.bands[i]) >= Rank(verdicts.bands[j])

(***************************************************************************)
(* The whole is called attractive exactly when some band is, and never on  *)
(* the word of a single band.                                              *)
(***************************************************************************)
OverallSpeaksForABand ==
    verdicts /= <<>> =>
        /\ verdicts.overall = "attractive" <=> \E i \in DOMAIN matrix: verdicts.bands[i] = "attractive"
        /\ verdicts.overall = "attractive" => Len(bands) > 1
===============================================================================
