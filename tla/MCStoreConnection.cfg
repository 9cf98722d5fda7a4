CONSTANTS
  Procs = {p1, p2}
  Nobody = Nobody
  Scopes = {read_products, write_products}
  Required = {read_products}
  MaxTokens = 3
  MaxUninstalls = 1
  MaxStates = 1
SPECIFICATION Spec
SYMMETRY Symmetry
CHECK_DEADLOCK FALSE
INVARIANTS
  TypeOK
  SpentIsNotStored
  StatusTellsCredentials
  ActionRequiredHasReason
  RotationHoldsBoth
PROPERTIES
  OnlyAuthorizationReconnects
  ActsAtomically
