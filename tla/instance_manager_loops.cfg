SPECIFICATION Spec
CONSTANTS
  c1 = c1
  c2 = c2
  h1 = h1
  Reclaimer = Reclaimer
  NoThread = NoThread
  NoId = NoId
  Id = {c1, c2}
  Thread = {h1}
  Threshold = 2
  Calls = {"replicas", "touch", "reclaim", "remove"}
  MaxCalls = 1
  MaxReplicas = 1
  MaxRestarts = 1
  MaxMeddling = 0
  MaxIdleTimes = 1
  FaultyDocker = FALSE
  Unready = FALSE
SYMMETRY Symmetry
INVARIANT ContainersAreTracked
