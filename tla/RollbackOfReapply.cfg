SPECIFICATION Spec
CONSTANTS
  Plans = {p1}
  a1 = a1
  a2 = a2
  x = x
  y = y
  Actions = {a1}
  Ports = {x}
  PortOf <- OnePort
  KeysInPlay <- UnattendedKey
  Approvers = {alice}
  Scanner = scanner
  Windows <- NoWindow
  Day = 1
  UseItsm = FALSE
  Faults = {}
  MayCrash = FALSE
  NoAction = NoAction
  NoOne = NoOne
  NoPlan = NoPlan
  NoCall = NoCall
  MaxCalls = 2
  MaxApprovals = 0
  MaxRfcs = 0
INVARIANTS
  FailedApplyRestores
CHECK_DEADLOCK FALSE
