SPECIFICATION Spec
CONSTANTS
  Workers = {w1, w2}
  Callers = {main, other}
  Owner = main
  Tasks = {t1, t2, t3}
  NoTask = NoTask
  NoThread = NoThread
INVARIANTS
  TypeOK
  NoIdleWorker
  NoSleeperAtJoin
  TasksConserved
PROPERTIES
  DestructorReturns
  ImplementsTaskQueue
