---------------------------- MODULE MCEvaluation ----------------------------
(***************************************************************************)
(* What is done with one panel: its calls, its sampling, the aggregates of *)
(* each kind of simulation, the agents that comment the result, and the    *)
(* questions asked of it afterwards; and the script that guards the site.  *)
(* They share no state, so a behaviour moves one of them (stage) and       *)
(* leaves the others in one of their initial states.                       *)
(***************************************************************************)
EXTENDS LlmFanout, AgentWorkflow, PanelProtocol, StratifiedSample, PriorityPoll,
        CohortQuestions, ChoicePolls, CampusReport, SegmentTags, Calibration, OpportunityMatrix,
        AccessPolicy

CONSTANTS e1, e2, a1, a2

VARIABLE stage

Stages == {"fanout", "workflow", "panel", "draw", "poll", "cohort", "choice",
           "campus", "tags", "calibration", "matrix", "access"}

\* Panels around the thresholds of the yield and of the grades.
MCSamples == {<<t, f>>: t \in {10, 30, 50, 200}, f \in {0, 1, 10, 29, 30, 43, 50, 171, 200}}
MCSampleSet == {s \in MCSamples: s[2] <= s[1]}

\* Two campus panels, a nationwide one, and one too small for the thresholds.
MCTierings == {<<1, 1, 1, 2>>, <<1, 1, 2, 2>>, <<1, 2, 1, 2>>, <<1>>}
MCGroups == <<"young", "old", "young">>
\* The second voter's level is one the classification does not know.
MCVoters == <<<<"undergrad", "dorm">>, <<"visiting", "dorm">>, <<"undergrad", "abroad">>>>
MCWeights == [t \in {"undergrad", "staff"} |-> IF t = "staff" THEN 1 ELSE 3]
MCConflicts == {<<"costs", "funds">>}
MCMoods == {<<>>, <<0, 0>>, <<100, 75>>, <<50, 50>>, <<0, 50>>}
MCAllowlists == SUBSET {e1, e2}
MCPathSets == {{a1}, {a1, a2}}

ASSUME EvaluationConstants ==
    /\ Samples /= {} /\ Sizes /= {} /\ Requests /= {} /\ Tierings /= {} /\ WeightLimits /= {}

evaluationVars ==
    <<stage, fanoutVars, workflowVars, panelVars, drawVars, pollVars, cohortVars,
      choiceVars, campusVars, tagVars, calibrationVars, matrixVars, accessVars>>

(***************************************************************************)
(* A part that does not move begins in one of its initial states.          *)
(***************************************************************************)
WorkflowBegins ==
    IF stage = "workflow" THEN WorkflowInit
    ELSE /\ envelope = Built(CHOOSE s \in Samples: TRUE, TRUE, "none") /\ stored = envelope
         /\ agentOutputs = [a \in AgentNames |-> NoOutput]
         /\ workflow = "start" /\ checkpoints = <<>> /\ agentRuns = <<>>

PanelBegins ==
    IF stage = "panel" THEN PanelInit
    ELSE /\ protocol = "price" /\ member = [p \in Panel |-> NewMember]
         /\ received = [p \in Panel |-> 0] /\ report = NoReport

DrawBegins ==
    IF stage = "draw" THEN DrawInit
    ELSE /\ size = [t \in Tiers |-> CHOOSE n \in Sizes: TRUE] /\ request = CHOOSE n \in Requests: TRUE
         /\ drawn = [t \in Tiers |-> 0] /\ left = 0 /\ visited = {} /\ draw = "read"
         /\ poll = [t \in Tiers |-> 0]

PollBegins ==
    IF stage = "poll" THEN PollInit
    ELSE /\ tierOf = (CHOOSE s \in Tierings: TRUE) /\ batchNo = 0
         /\ answer = [p \in Sampled |-> <<>>] /\ results = <<>> /\ ranking = [state |-> "open"]

CohortBegins ==
    IF stage = "cohort" THEN CohortInit
    ELSE /\ row = [p \in Respondents |-> "failed"] /\ origin = "default"
         /\ question = NoQuestion /\ asked = {} /\ said = <<>> /\ summary = NoSummary

ChoiceBegins ==
    IF stage = "choice" THEN ChoiceInit
    ELSE form = "open" /\ parsed = <<>> /\ tally = NoTally

CampusBegins == IF stage = "campus" THEN CampusInit ELSE ballots = <<>> /\ findings = NoFindings

TagBegins ==
    IF stage = "tags" THEN TagInit
    ELSE /\ people = [l \in Tags |-> 0] /\ similar = {}
         /\ seen = {} /\ merged = NoTags /\ aliases = NoTags /\ bounded = NoTags

CalibrationBegins ==
    IF stage = "calibration" THEN CalibrationInit
    ELSE /\ outcomes = [s \in Strata |-> [v \in Metric \cup {"failed"} |-> 0]]
         /\ target = [s \in Strata |-> 0] /\ limit = (CHOOSE n \in WeightLimits: TRUE)
         /\ calibrated = NotCalibrated

EvaluationInit ==
    /\ stage \in Stages
    /\ FanoutInit /\ WorkflowBegins /\ PanelBegins /\ DrawBegins /\ PollBegins
    /\ CohortBegins /\ ChoiceBegins /\ CampusBegins /\ TagBegins /\ CalibrationBegins
    /\ MatrixInit /\ AccessInit

FanoutMoves == stage = "fanout" /\ FanoutNext
WorkflowMoves == stage = "workflow" /\ WorkflowNext
PanelMoves == stage = "panel" /\ PanelNext
DrawMoves == stage = "draw" /\ DrawNext
PollMoves == stage = "poll" /\ PollNext
CohortMoves == stage = "cohort" /\ CohortNext
ChoiceMoves == stage = "choice" /\ ChoiceNext
CampusMoves == stage = "campus" /\ CampusNext
TagsMove == stage = "tags" /\ TagNext
CalibrationMoves == stage = "calibration" /\ CalibrationNext
MatrixMoves == stage = "matrix" /\ MatrixNext
AccessMoves == stage = "access" /\ AccessNext

EvaluationNext ==
    /\ \/ FanoutMoves /\ UNCHANGED <<workflowVars, panelVars, drawVars, pollVars, cohortVars, choiceVars,
            campusVars, tagVars, calibrationVars, matrixVars, accessVars>>
       \/ WorkflowMoves /\ UNCHANGED <<fanoutVars, panelVars, drawVars, pollVars, cohortVars, choiceVars,
            campusVars, tagVars, calibrationVars, matrixVars, accessVars>>
       \/ PanelMoves /\ UNCHANGED <<fanoutVars, workflowVars, drawVars, pollVars, cohortVars, choiceVars,
            campusVars, tagVars, calibrationVars, matrixVars, accessVars>>
       \/ DrawMoves /\ UNCHANGED <<fanoutVars, workflowVars, panelVars, pollVars, cohortVars, choiceVars,
            campusVars, tagVars, calibrationVars, matrixVars, accessVars>>
       \/ PollMoves /\ UNCHANGED <<fanoutVars, workflowVars, panelVars, drawVars, cohortVars, choiceVars,
            campusVars, tagVars, calibrationVars, matrixVars, accessVars>>
       \/ CohortMoves /\ UNCHANGED <<fanoutVars, workflowVars, panelVars, drawVars, pollVars, choiceVars,
            campusVars, tagVars, calibrationVars, matrixVars, accessVars>>
       \/ ChoiceMoves /\ UNCHANGED <<fanoutVars, workflowVars, panelVars, drawVars, pollVars, cohortVars,
            campusVars, tagVars, calibrationVars, matrixVars, accessVars>>
       \/ CampusMoves /\ UNCHANGED <<fanoutVars, workflowVars, panelVars, drawVars, pollVars, cohortVars,
            choiceVars, tagVars, calibrationVars, matrixVars, accessVars>>
       \/ TagsMove /\ UNCHANGED <<fanoutVars, workflowVars, panelVars, drawVars, pollVars, cohortVars,
            choiceVars, campusVars, calibrationVars, matrixVars, accessVars>>
       \/ CalibrationMoves /\ UNCHANGED <<fanoutVars, workflowVars, panelVars, drawVars, pollVars, cohortVars,
            choiceVars, campusVars, tagVars, matrixVars, accessVars>>
       \/ MatrixMoves /\ UNCHANGED <<fanoutVars, workflowVars, panelVars, drawVars, pollVars, cohortVars,
            choiceVars, campusVars, tagVars, calibrationVars, accessVars>>
       \/ AccessMoves /\ UNCHANGED <<fanoutVars, workflowVars, panelVars, drawVars, pollVars, cohortVars,
            choiceVars, campusVars, tagVars, calibrationVars, matrixVars>>
    /\ UNCHANGED stage

EvaluationSpec == EvaluationInit /\ [][EvaluationNext]_evaluationVars /\ FanoutFairness

\* The types of all parts that have a type invariant.
EvaluationTypeOK ==
    /\ FanoutTypeOK /\ AgentTypeOK /\ PanelTypeOK /\ DrawTypeOK
    /\ PollTypeOK /\ CohortTypeOK /\ AccessTypeOK

\* Where a report adds people up each respondent is in it once, under what that
\* respondent said: the choices of the forms whose readers allow no letter beyond
\* those offered and their breakdowns (generic_suite.py, open_survey.py), the cells
\* of the policy matrix, the merged segment labels (tagging.py).
EveryoneCountedOnce ==
    /\ PollAddsUp /\ GroupsKeepTheirAnswers
    /\ MatrixHoldsEveryAnswer
    /\ EveryoneInASegment /\ AliasesExplainCounts

\* What a report concludes is borne out by the answers it was made of: the price
\* recommended, the weighted headline, the calibrated shares and the verdict on
\* each age band (generic_suite.py, campus_policy.py, calibration.py, opp_risk.py).
ConclusionsFollow ==
    /\ CheapestRecommended /\ HeadlineWithinCells /\ TargetReached
    /\ BetterBandNoWorseVerdict /\ OverallSpeaksForABand
=============================================================================
