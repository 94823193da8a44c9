CONSTANTS
  s1 = s1  s2 = s2
  Sessions = {s1}
  Turns = 3
  JobTimeout = 3
  StaleAfter = 4
  Env = {"redis", "raise", "crash"}
SPECIFICATION FairSpec
INVARIANT TypeOK
INVARIANT TalkingNotStale
PROPERTY CompletedSticks
PROPERTY EverySessionSettles
CHECK_DEADLOCK FALSE
