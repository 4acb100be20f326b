SPECIFICATION Spec
CONSTANTS
  Conns = {c1, c2}
  Fds = {5, 6}
  Users = {alice, bob}
  Accounts = {alice, bob}
  NoUser = NoUser
  NoConn = NoConn
  NoThread = NoThread
  Workers = {w1}
  Reactor = reactor
  Hasty = TRUE
  Abortive = TRUE
  SharedLogin = TRUE
  MaxChats = 1
  MaxDbFaults = 0
  MaxCrashes = 0
INVARIANTS
  NoUseAfterFree
  OpenConnReachable
  NoLostEvent
SYMMETRY Symmetry
CHECK_DEADLOCK FALSE
