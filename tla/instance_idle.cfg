SPECIFICATION FairSpec
CONSTANTS
  c1 = c1
  c2 = c2
  h1 = h1
  Reclaimer = Reclaimer
  NoThread = NoThread
  NoId = NoId
  Id = {c1, c2}
  Thread = {h1}
  Threshold = 2
  Calls = {"remove"}
  MaxCalls = 1
  MaxReplicas = 0
  MaxRestarts = 0
  MaxMeddling = 0
  MaxIdleTimes = 2
  FaultyDocker = FALSE
  Unready = FALSE
PROPERTY IdleInstanceStopped
