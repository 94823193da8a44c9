CONSTANTS
  r1 = r1  r2 = r2  u1 = u1  w1 = w1  w2 = w2
  Runs <- OneRun
  Users = {u1}
  Owner <- SameOwner
  Workers = {w1}
  NoRun = NoRun
  Total = 3
  Requested = 2
  Stride = 2
  FreeLimit = 1
  MaxQueued = 2
  InterruptOnStartup = TRUE
  Env = {"cancel", "delete", "raise", "store", "redis", "crash"}
SPECIFICATION Spec
INVARIANT TypeOK
INVARIANT ResultBacked
INVARIANT BilledOnce
INVARIANT PartialsCoverProgress
PROPERTY ProgressMonotonic
PROPERTY CancelSettled
PROPERTY ImplementsBilling
CHECK_DEADLOCK FALSE
