CONSTANTS
  r1 = r1  r2 = r2  u1 = u1  w1 = w1  w2 = w2
  Runs <- OneRun
  Users = {u1}
  Owner <- SameOwner
  Workers = {w1, w2}
  NoRun = NoRun
  Total = 1
  Requested = 2
  Stride = 1
  FreeLimit = 0
  MaxQueued = 2
  InterruptOnStartup = TRUE
  Env = {"crash"}
SPECIFICATION FairSpec
INVARIANT SingleExecutor
PROPERTY EverySettles
CHECK_DEADLOCK FALSE
