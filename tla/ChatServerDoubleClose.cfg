SPECIFICATION Spec
CONSTANTS
  Conns = {c1, c2, c3}
  Fds = {5, 6}
  Users = {alice, bob}
  Accounts = {alice, bob}
  NoUser = NoUser
  NoConn = NoConn
  NoThread = NoThread
  Workers = {w1}
  Reactor = reactor
  Hasty = FALSE
  Abortive = TRUE
  SharedLogin = FALSE
  MaxChats = 0
  MaxDbFaults = 0
  MaxCrashes = 0
INVARIANTS
  NoForeignDescriptor
SYMMETRY Symmetry
CHECK_DEADLOCK FALSE
