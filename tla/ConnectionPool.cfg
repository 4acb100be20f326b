SPECIFICATION Spec
CONSTANTS
  Threads = {worker, reactor, admin}
  Nesters = {worker}
  Closer = main
  Connections = {c1, c2, c3}
  MinOpened = 2
  NoThread = NoThread
INVARIANTS
  TypeOK
  ConnectionsExclusive
  NoIdleConnection
  NobodyWaitsAfterClose
PROPERTIES
  PoolServes
