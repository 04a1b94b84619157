SPECIFICATION Spec
CONSTANTS
  c1 = c1
  c2 = c2
  h1 = h1
  h2 = h2
  Reclaimer = Reclaimer
  NoThread = NoThread
  NoId = NoId
  Id = {c1, c2}
  Thread = {h1, h2}
  Threshold = 2
  Calls = {"replicas", "remove"}
  MaxCalls = 2
  MaxReplicas = 2
  MaxRestarts = 0
  MaxMeddling = 0
  MaxIdleTimes = 0
  FaultyDocker = FALSE
  Unready = FALSE
SYMMETRY Symmetry
INVARIANT HealthyIsReused
