SPECIFICATION EvaluationSpec
CONSTANTS
  Personas = {p1, p2, p3}
  Concurrency = 2
  Attempts = 2
  MaxPools = 3
  Samples <- MCSampleSet
  Panel = {p1, p2}
  Seats = 1
  Sizes = {0, 1, 45, 70}
  Requests = {1, 3, 50, 200}
  Count = 3
  Tierings <- MCTierings
  MinAnswers = 2
  MinRate = 60
  Respondents = {r1, r2}
  Strangers = {s1}
  Groups <- MCGroups
  Offered = 2
  Letters = 3
  Voters <- MCVoters
  Levels = {"undergrad"}
  StaffTier = "staff"
  NearHousings = {"dorm"}
  Commuting = "commute"
  TierWeights <- MCWeights
  Taxonomy = {"costs", "funds"}
  Conflicts <- MCConflicts
  MaxIntensity = 2
  Confident = 2
  DominantPct = 80
  ConflictPct = 5
  TagCount = 4
  MaxPeople = 2
  Cap = 2
  Residual = 2
  Strata = {t1, t2}
  MaxStratum = 1
  Parts = 6
  MaxTarget = 2
  WeightLimits = {1, 4}
  Bands = 2
  Shares = {20, 50, 100}
  Moods <- MCMoods
  Mentions = {0, 50}
  e1 = e1
  e2 = e2
  a1 = a1
  a2 = a2
  Allowlists <- MCAllowlists
  PathSets <- MCPathSets
  MaxObjects = 2
INVARIANTS
    EvaluationTypeOK
    BatchKeepsCount
    ReviewConsistent
    PanelAccounted
    SampleRepresents
    PollFair
    CohortRespected
    EveryoneCountedOnce
    ConclusionsFollow
    AccessSettles
PROPERTIES
    BatchEnds
CHECK_DEADLOCK FALSE
