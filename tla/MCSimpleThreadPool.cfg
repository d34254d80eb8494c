CONSTANTS
  Workers = {w1, w2, w3}
  Owner = owner
  MaxTasks = 4
SPECIFICATION Spec
INVARIANTS
  TypeOK
  TasksRunOnceInOrder
  DestructorDrains
  NoLostWakeup
PROPERTIES
  EveryTaskFinishes
  DestructorReturns
CHECK_DEADLOCK FALSE
