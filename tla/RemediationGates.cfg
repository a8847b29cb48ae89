SPECIFICATION FairSpec
CONSTANTS
  Plans = {p1}
  a1 = a1
  a2 = a2
  x = x
  y = y
  Actions = {a1}
  Ports = {x}
  PortOf <- OnePort
  KeysInPlay <- GatedKeys
  Approvers = {alice, scanner}
  Scanner = scanner
  Windows <- Midnight
  Day = 2
  UseItsm = TRUE
  Faults = {"override", "rfc", "apply", "health", "rollback", "sync", "close"}
  MayCrash = TRUE
  NoAction = NoAction
  NoOne = NoOne
  NoPlan = NoPlan
  NoCall = NoCall
  MaxCalls = 2
  MaxApprovals = 1
  MaxRfcs = 1
INVARIANTS
  PreexistingDenySurvives
  ValidatedMeansInEffectIfSole
PROPERTIES
  EveryChangeIsGoverned
  EveryCallEnds
  KeepsThePromise
CHECK_DEADLOCK FALSE
