SPECIFICATION Spec
CONSTANTS
  Handlers = {h1, h2}
  Actors = {alice, bob}
  System = system
  NoName = author
  MayMisname = TRUE
  MaxVersion = 2
  MaxRevisions = 1
  NoRow = NoRow
  NoRequest = NoRequest
INVARIANTS
  OneVersionAnswers
  NobodyPublishesAlone
PROPERTIES
  LifecycleIsKept
SYMMETRY Symmetric
CHECK_DEADLOCK FALSE
