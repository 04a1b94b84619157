SPECIFICATION Spec
CONSTANTS
  t1 = t1
  t2 = t2
  r1 = r1
  r2 = r2
  NoTask = NoTask
  Task = {t1, t2}
  Request = {r1, r2}
  WorkerCount = 1
  MaxRestarts = 1
  FaultyStore = TRUE
SYMMETRY Symmetry
INVARIANT EarlyCancelNeverCompletes
INVARIANT CompletedWasPredicted
PROPERTY SettledRowIsOvertakenOnlyByCancel
PROPERTY ContractSpec
