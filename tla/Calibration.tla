----------------------------- MODULE Calibration -----------------------------
(***************************************************************************)
(* Post-stratification (src/simulations/calibration.py): the answers of a  *)
(* panel are weighted so that each stratum counts for its share of a       *)
(* target, unless that takes a weight beyond a limit.  A weight is kept as *)
(* a whole number of parts so small that every quotient is exact.          *)
(***************************************************************************)
EXTENDS Integers, FiniteSets, FiniteSetsExt

CONSTANTS
    Strata,       \* labels of the first dimension
    MaxStratum,   \* bound on the respondents of a stratum with the same outcome
    MaxTarget,    \* bound on a stratum's part of the target distribution
    WeightLimits, \* values of max_weight
    Parts         \* every number of respondents of a stratum divides it

ASSUME CalibrationConstants ==
    /\ IsFiniteSet(Strata)
    /\ MaxStratum \in Nat /\ MaxTarget \in Nat /\ WeightLimits \subseteq Nat \ {0}
    /\ Parts \in Nat \ {0} /\ \A n \in 1..(2 * MaxStratum): \E q \in 1..Parts: Parts = n * q

VARIABLES
    outcomes,  \* respondents of each stratum: by answer, and those not parsed
    target,    \* target distribution
    limit,     \* max_weight
    calibrated \* the result

calibrationVars == <<outcomes, target, limit, calibrated>>

Metric == {"yes", "no"}
NotCalibrated == [state |-> "open"]

CalibrationInit ==
    /\ outcomes \in [Strata -> [Metric \cup {"failed"} -> 0..MaxStratum]]
    /\ target \in [Strata -> 0..MaxTarget]
    /\ limit \in WeightLimits
    /\ calibrated = NotCalibrated

\* Variant: those whose answer could not be read count for their stratum.
Heard_All(s) == outcomes[s]["yes"] + outcomes[s]["no"] + outcomes[s]["failed"]

\* sample_counts: respondents of the stratum whose answer was read.
Heard(s) == outcomes[s]["yes"] + outcomes[s]["no"]

\* A sum over strata or answers.
SumOver(f, S) == MapThenSumSet(LAMBDA s: f[s], S)
SampleTotal == SumOver([s \in Strata |-> Heard(s)], Strata)
TargetTotal == SumOver(target, Strata)
Reached == {s \in Strata: Heard(s) > 0}

\* A weight is target share over sample share, or the limit; in units of
\* 1 / Denominator it is a whole number.
Denominator == TargetTotal * Parts
Raw(s) == target[s] * SampleTotal * (Parts \div Heard(s))
StratumWeight(s) == IF Raw(s) > limit * Denominator THEN limit * Denominator ELSE Raw(s)

Calibrate ==
    /\ calibrated = NotCalibrated
    /\ calibrated' =
        IF SampleTotal = 0 \/ TargetTotal = 0 THEN [state |-> "warned"]
        ELSE [state |-> "weighted",
              capped |-> {s \in Reached: Raw(s) > limit * Denominator},
              counts |-> [v \in Metric |->
                            SumOver([s \in Reached |-> outcomes[s][v] * StratumWeight(s)], Reached)],
              mass |-> [s \in Reached |->
                            (outcomes[s]["yes"] + outcomes[s]["no"]) * StratumWeight(s)]]
    /\ UNCHANGED <<outcomes, target, limit>>

CalibrationNext == Calibrate

CalibrationSpec == CalibrationInit /\ [][CalibrationNext]_calibrationVars

(***************************************************************************)
(* When no weight was capped and every stratum of the target was reached,  *)
(* the weighted answers add up to the answers read, and each stratum has   *)
(* exactly its share of the target among them.  In every other case they   *)
(* add up to less, never to more.                                          *)
(***************************************************************************)
TargetReached ==
    calibrated.state = "weighted" =>
        LET whole == SumOver(calibrated.counts, Metric)
            due(s) == target[s] * SampleTotal * Denominator
            exact == calibrated.capped = {} /\ \A s \in Strata: target[s] > 0 => s \in Reached
        IN /\ whole = SumOver(calibrated.mass, Reached)
           /\ whole <= SampleTotal * Denominator
           /\ whole = SampleTotal * Denominator <=> exact
           /\ exact => \A s \in Reached: calibrated.mass[s] * TargetTotal = due(s)
===============================================================================
