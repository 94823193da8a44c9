CONSTANTS
  r1 = r1  u1 = u1  w1 = w1
  Runs <- OneRun
  Users = {u1}
  Owner <- SameOwner
  Workers = {w1}
  NoRun = NoRun
  Total = 1
  Requested = 1
  Stride = 1
  FreeLimit = 0
  MaxQueued = 2
  InterruptOnStartup = FALSE
  Env = {"cancel"}
  Watched = r1
  MaxDrops = 1
SPECIFICATION StreamFairSpec
INVARIANT StreamTypeOK
INVARIANT SeenIsPrefix
PROPERTY CaughtUp
PROPERTY StreamEnds
CHECK_DEADLOCK FALSE
