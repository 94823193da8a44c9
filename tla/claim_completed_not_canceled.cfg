CONSTANTS
  r1 = r1  r2 = r2  u1 = u1  w1 = w1  w2 = w2
  Runs <- OneRun
  Users = {u1}
  Owner <- SameOwner
  Workers = {w1}
  NoRun = NoRun
  Total = 1
  Requested = 1
  Stride = 1
  FreeLimit = 0
  MaxQueued = 2
  InterruptOnStartup = TRUE
  Env = {"cancel"}
SPECIFICATION Spec
PROPERTY CompletedNotCanceled
CHECK_DEADLOCK FALSE
