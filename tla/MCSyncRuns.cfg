CONSTANTS
  Runs = {r1, r2, r3}
  Workers = {w1, w2}
  NoRun = NoRun
  MaxRevision = 2
  MaxLeases = 4
SPECIFICATION Spec
SYMMETRY Symmetry
CHECK_DEADLOCK FALSE
INVARIANTS
  TypeOK
  SingleWriter
  NoLostChange
PROPERTIES
  MirrorNeverRegresses
  CompletedIsFinal
  KeepsMirrorFresh
