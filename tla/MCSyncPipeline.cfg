CONSTANTS
  Runs = {r1, r2}
  Workers = {w1, w2}
  NoRun = NoRun
  Copies = {c1, c2, c3, c4}
  NoCopy = NoCopy
  MaxRevision = 2
  MaxLeases = 3
  MaxAttempts = 2
  MaxFaults = 2
  DatabaseFails = TRUE
  PermanentErrors = TRUE
SPECIFICATION PipeSafe
SYMMETRY Symmetry
CHECK_DEADLOCK FALSE
INVARIANTS
  PipeTypeOK
  SlotIsFreed
  ProcessedIsCompleted
