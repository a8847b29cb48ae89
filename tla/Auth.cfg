SPECIFICATION Spec
CONSTANTS
  Users = {"alice", "bob"}
  Tokens = {t1, t2}
  RoleLists <- MCRoleLists
  MaxEnrolments = 3
  MaxStep = 3
INVARIANTS
  MfaIsProved
  SessionsAreSound
  DutiesStayApart
SYMMETRY Symmetry
CHECK_DEADLOCK FALSE
