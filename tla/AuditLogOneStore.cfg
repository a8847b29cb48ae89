SPECIFICATION Spec
CONSTANTS
  t1 = t1
  t2 = t2
  s1 = s1
  Threads = {t1, t2}
  Stores = {s1}
  StoreOf <- OneStore
  Nobody = Nobody
  MaxRecords = 4
  MaxCheckpoints = 2
  MaxFaults = 1
SYMMETRY Symmetry
INVARIANTS
  ChainUnbroken
  NoFalseAlarm
PROPERTIES
  IntactMeansPinned
  FileIsOneLog
