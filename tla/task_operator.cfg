SPECIFICATION Spec
CONSTANTS
  t1 = t1
  r1 = r1
  NoTask = NoTask
  Task = {t1}
  Request = {r1}
  WorkerCount = 1
  MaxRestarts = 0
  FaultyStore = FALSE
SYMMETRY Symmetry
INVARIANT OperatorRecorded
