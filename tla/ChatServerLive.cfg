SPECIFICATION FairSpec
CONSTANTS
  Conns = {c1, c2}
  Fds = {5, 6}
  Users = {alice}
  Accounts = {alice}
  NoUser = NoUser
  NoConn = NoConn
  NoThread = NoThread
  Workers = {w1, w2}
  Reactor = reactor
  Hasty = TRUE
  Abortive = FALSE
  SharedLogin = FALSE
  MaxChats = 0
  MaxDbFaults = 0
  MaxCrashes = 0
PROPERTIES
  DeadClientReleased
  ConnectionAccepted
  LoginAnswered
CHECK_DEADLOCK FALSE
