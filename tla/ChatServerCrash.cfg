SPECIFICATION Spec
CONSTANTS
  Conns = {c1, c2}
  Fds = {5, 6}
  Users = {alice, bob}
  Accounts = {alice}
  NoUser = NoUser
  NoConn = NoConn
  NoThread = NoThread
  Workers = {w1}
  Reactor = reactor
  Hasty = FALSE
  Abortive = FALSE
  SharedLogin = FALSE
  MaxChats = 1
  MaxDbFaults = 1
  MaxCrashes = 1
INVARIANTS
  TypeOK
  AtMostOnce
  DeliveredIsStored
SYMMETRY SymmetryOfConnections
CHECK_DEADLOCK FALSE
