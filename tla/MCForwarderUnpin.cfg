\* A pin of selfCheck next to a caller of syncFetchGuid that gives up.
CONSTANTS
  NoFd = NoFd
  NoWorker = NoWorker
  Workers = {w1}
  FDs = {f1, f2}
  Outside = {p1}
  GuidFetchers = {g1}
  MaxClients = 1
  MaxTries = 1
SPECIFICATION Spec
INVARIANT PinnedNotFreed
