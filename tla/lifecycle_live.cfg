CONSTANTS
  r1 = r1  r2 = r2  u1 = u1  w1 = w1  w2 = w2
  Runs <- OneRun
  Users = {u1}
  Owner <- SameOwner
  Workers = {w1}
  NoRun = NoRun
  Total = 3
  Requested = 3
  Stride = 2
  FreeLimit = 0
  MaxQueued = 2
  InterruptOnStartup = FALSE
  Env = {"cancel", "raise", "redis"}
SPECIFICATION FairSpec
INVARIANT FailedKeepsEnvelope
PROPERTY CancelObeyed
CHECK_DEADLOCK FALSE
