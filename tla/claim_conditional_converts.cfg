CONSTANTS
  Respondents = {r1, r2}
  Strangers = {s1}
SPECIFICATION CohortSpec
INVARIANT ConditionalConverts
CHECK_DEADLOCK FALSE
