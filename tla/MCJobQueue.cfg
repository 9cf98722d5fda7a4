CONSTANTS
  Jobs = {j1}
  Workers = {w1, w2}
  Copies = {c1, c2, c3, c4}
  NoJob = NoJob
  NoCopy = NoCopy
  MaxAttempts = 2
  MaxFaults = 1
SPECIFICATION Spec
CHECK_DEADLOCK FALSE
INVARIANTS
  TypeOK
  NoJobLost
  HeldByOneWorker
  AttemptsBounded
  BusyIsNotBuried
  DuplicatesAreFaults
PROPERTIES
  JobsSettle
