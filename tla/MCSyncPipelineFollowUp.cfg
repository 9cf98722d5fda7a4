CONSTANTS
  Runs = {r1, r2}
  Workers = {w1, w2}
  NoRun = NoRun
  Copies = {c1, c2, c3}
  NoCopy = NoCopy
  MaxRevision = 1
  MaxLeases = 3
  MaxAttempts = 2
  MaxFaults = 2
  DatabaseFails = FALSE
  PermanentErrors = TRUE
SPECIFICATION PipeSafe
SYMMETRY Symmetry
CHECK_DEADLOCK FALSE
INVARIANTS
  FollowUpHasRun
