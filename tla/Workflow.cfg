SPECIFICATION Spec
CONSTANTS
  Users = {u1, u2}
  MaxMoves = 7
  NoTicket = NoTicket
  NoCall = NoCall
SYMMETRY Symmetric
INVARIANTS
  HistoryIsSound
  EveryTransitionIsLogged
PROPERTIES
  NoTransitionIsLost
CHECK_DEADLOCK FALSE
