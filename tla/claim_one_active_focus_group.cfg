CONSTANTS
  s1 = s1  s2 = s2
  Sessions = {s1, s2}
  Turns = 1
  JobTimeout = 1
  StaleAfter = 2
  Env = {}
SPECIFICATION Spec
INVARIANT OneActive
CHECK_DEADLOCK FALSE
