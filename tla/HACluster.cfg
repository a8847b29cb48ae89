SPECIFICATION ClusterSpec
CONSTANTS
  c1 = c1
  c2 = c2
  Callers = {c1, c2}
  MayFailImport = TRUE
  MayCallStale = TRUE
  MaxIssued = 5
SYMMETRY Symmetry
INVARIANTS
  NoAuditLoss
  StandbyChainVerifies
PROPERTIES
  ClusterIsOneLog
CHECK_DEADLOCK FALSE
