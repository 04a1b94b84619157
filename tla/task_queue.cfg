SPECIFICATION FairSpec
CONSTANTS
  t1 = t1
  t2 = t2
  r1 = r1
  NoTask = NoTask
  Task = {t1, t2}
  Request = {r1}
  WorkerCount = 1
  MaxRestarts = 1
  FaultyStore = FALSE
INVARIANT OrphanFree
PROPERTY PortKept
PROPERTY EventuallyTerminal
