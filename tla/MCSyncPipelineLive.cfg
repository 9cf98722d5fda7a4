CONSTANTS
  Runs = {r1, r2}
  Workers = {w1, w2}
  NoRun = NoRun
  Copies = {c1, c2, c3, c4}
  NoCopy = NoCopy
  MaxRevision = 1
  MaxLeases = 3
  MaxAttempts = 2
  MaxFaults = 1
  DatabaseFails = FALSE
  PermanentErrors = FALSE
SPECIFICATION PipeSpec
CHECK_DEADLOCK FALSE
PROPERTIES
  EventsAreMirrored
  JobsComeToRest
