\* Forwarder with a caller of syncFetchGuid about; three grants of the permit;
\* two descriptors and a table of one entry; two processes that share a log.
\* Two callers, named as the workers so that they are symmetric with them, one
\* client thread, and every call but status, which takes self.lock twice.
CONSTANTS
  NoFd = NoFd
  NoWorker = NoWorker
  Workers = {w1, w2}
  FDs = {f1, f2, f3, f4}
  Outside = {}
  GuidFetchers = {g1}
  MaxClients = 2
  MaxTries = 2
  PermitWorkers = {1, 2}
  MaxGrants = 3
  AppThreads = {1, 2}
  MaxFd = 2
  TableMax = 1
  Processes = {1, 2}
  Rotate = 1
  MaxFiles = 3
  MaxSize = 7
  Callers = {w1, w2}
  Clients = {c1}
  Calls = {"apply", "postRecovery", "heartbeat", "refresh", "selfCheck", "stats", "reap"}
  Nobody = Nobody
SPECIFICATION MCSpec
SYMMETRY Symmetry
INVARIANTS
  SharedTypesOK
  SlotsMatchWorkers
  UpstreamRegistryOwned
  NobodyLeftBlocked
  PermitHasWaiter
  TrackedAreCut
  NoDirectInProxyMode
  ProxiedSpared
  LogsRotate
  NoCircularWait
PROPERTIES
  LifetimeSpec
  SingleUse
  TunnelForTheWaiter
