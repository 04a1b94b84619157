SPECIFICATION FairSpec
CONSTANTS
  c1 = c1
  c2 = c2
  h1 = h1
  Reclaimer = Reclaimer
  NoThread = NoThread
  NoId = NoId
  Id = {c1, c2}
  Thread = {h1}
  Threshold = 2
  Calls = {"replicas", "remove"}
  MaxCalls = 1
  MaxReplicas = 1
  MaxRestarts = 0
  MaxMeddling = 1
  MaxIdleTimes = 0
  FaultyDocker = TRUE
  Unready = FALSE
PROPERTY LockIsReleased
PROPERTY DeadInstanceNoticed
