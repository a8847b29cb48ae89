SPECIFICATION Spec
CONSTANTS
  Plans = {p1, p2}
  a1 = a1
  a2 = a2
  x = x
  y = y
  Actions = {a1, a2}
  Ports = {x, y}
  PortOf <- SharedPort
  KeysInPlay <- UnattendedKey
  Approvers = {alice}
  Scanner = scanner
  Windows <- NoWindow
  Day = 1
  UseItsm = FALSE
  Faults = {}
  MayCrash = FALSE
  NoAction = NoAction
  NoOne = NoOne
  NoPlan = NoPlan
  NoCall = NoCall
  MaxCalls = 4
  MaxApprovals = 0
  MaxRfcs = 0
INVARIANTS
  UndoIsAnExactAccount
  FailedFirstApplyRestores
  LogIsAnAccount
CHECK_DEADLOCK FALSE
