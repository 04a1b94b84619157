SPECIFICATION Spec
CONSTANTS
  r1 = r1
  r2 = r2
  q1 = q1
  q2 = q2
  u1 = u1
  u2 = u2
  t1 = t1
  t2 = t2
  p1 = p1
  p2 = p2
  i1 = i1
  i2 = i2
  Part = {"scaling", "readers", "page", "list", "buildpage"}
  WfRun = {r1, r2}
  WfRequest = {q1}
  WfNode = {1, 2, 3}
  WfSent <- MCSent
  WfWorkers = 1
  WfMaxTasks = 3
  WfMaxRestarts = 1
  MdRun = {r1}
  MdRefresh = {q1, q2}
  MdVideo = 5
  MdStride = 2
  MdMaxFrames = 2
  MdWorkers = 2
  MdMaxRestarts = 1
  AlVersions = 2
  AlRequest = {q1, q2}
  AlPercent = 2
  AlSplit <- MCSplits
  AlMaxRestarts = 1
  ScNodes = 2
  ScMemory <- MCMemory
  ScReplicaMemory = 1
  ScNeedsGpu = FALSE
  ScPolicy <- MCPolicies
  ScWorker = {q1}
  ScMaxTasks = 1
  ScMaxReplicas = 3
  ScMaxChanges = 3
  RgUser = {u1, u2}
  RgAdmin = u1
  RgToken = {t1, t2}
  RgThread = {q1, q2}
  RgMaxChanges = 2
  RgUpdate <- MCUpdates
  RgMembership = {"viewer"}
  RlLimit = 2
  RlWindow = 3
  RlMaxTime = 6
  RlMaxCalls = 5
  AsUpload = {u1, u2}
  AsImage = {i1, i2}
  AsProject = {p1, p2}
  AsMaxCrashes = 1
  TrTask = {t1, t2}
  TrStream = {q1}
  TrArchive = {q2}
  TrMaxSaves = 3
  PgLoad = {q1, q2}
  PgMaxErrors = 1
  TlTask = {t1}
  TlCancel = {q1, q2}
  TlFetch = {q1, q2}
  TlMaxErrors = 1
  BpJob = {r1, r2}
  BpMaxErrors = 1
INVARIANTS
  ServicesTypeOK
  PlacementIsGreedy
  ReadingsStand
  QuietPagesAreRight
  BuildPageIsRight
PROPERTIES
  ScalerConverges
  ClientsSettle
