SPECIFICATION Spec
CONSTANTS
  Conns = {c1, c2, c3}
  Fds = {5, 6}
  Users = {alice, bob}
  Accounts = {alice, bob}
  NoUser = NoUser
  NoConn = NoConn
  NoThread = NoThread
  Workers = {w1}
  Reactor = reactor
  Hasty = FALSE
  Abortive = FALSE
  SharedLogin = FALSE
  MaxChats = 1
  MaxDbFaults = 0
  MaxCrashes = 0
INVARIANTS
  OnlineUsersListed
SYMMETRY Symmetry
CHECK_DEADLOCK FALSE
