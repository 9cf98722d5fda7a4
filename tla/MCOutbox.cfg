CONSTANTS
  Jobs = {j1, j2}
  Publishers = {p1, p2}
  NoJob = NoJob
  BatchLimit = 2
  MaxFaults = 2
SPECIFICATION Spec
CHECK_DEADLOCK FALSE
INVARIANTS
  TypeOK
  PublishedIsDelivered
PROPERTIES
  PublishedIsFinal
  KeepsPromise
