SPECIFICATION Spec
CONSTANTS
  Action <- MCAction
  Subject <- MCSubject
  Ports = {"22", "445"}
  Services = {"telnetd"}
  Secrets = {"svc-account"}
  Listening = {"22"}
  NewValue <- MCNewValue
  OldValue <- MCOldValue
  FirstValues = {"absent", "s0"}
  OwnName <- MCOwnName
  ForeignName = "corp-rule"
  MayBreak = TRUE
INVARIANTS
  TypeOK
  RollbackIsExact
  ValidationTellsInForce
PROPERTIES
  KeepsThePromise
CHECK_DEADLOCK FALSE
