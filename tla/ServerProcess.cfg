SPECIFICATION Spec
CONSTANTS
  Pids = {p1, p2, p3}
  NoPid = NoPid
  Files = {0, 1, 2, 3, 4, 5, 6, 7, 8, 9}
  NoFile = NoFile
  NoNumber = NoNumber
  MaxBackups = 5
  OldBackups = {1}
  ConfigFiles <- MCConfigFiles
  Operators = {o1}
  MaxScripts = 4
  MaxDaemons = 1
  MaxSignals = 1
  MaxCrashes = 1
  MaxFills = 1
  MaxEvents = 6
  DaemonWeight = 5
INVARIANTS
  TypeOK
  PidFileNamesServer
  RemovesOnlyStale
PROPERTIES
  ScriptsReturn
  StartCompletes
  RotationKeepsLogs
CHECK_DEADLOCK FALSE
