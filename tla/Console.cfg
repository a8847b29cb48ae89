SPECIFICATION Spec
CONSTANTS
  Importers = {updater, operator}
  CveOrder <- MCCveOrder
  Releases <- MCReleases
  Installed = 2
  Delivered <- MCDelivered
  StrangeEntries <- MCStrangeEntries
  StrangeDates <- MCStrangeDates
  Problems <- MCProblems
  Objects <- MCObjects
  Builtin <- MCBuiltin
  MaxOperations = 3
SYMMETRY Symmetry
INVARIANTS
  TypeOK
  ImportFailsClosed
  DatabaseIsTrue
  CompletedScanIsWhole
  TotalsAgree
PROPERTIES
  NumbersAreOfTheDatabase
CHECK_DEADLOCK FALSE
