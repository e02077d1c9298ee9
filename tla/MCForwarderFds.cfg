\* A sweep of client_fds while a worker is between its close and its unregister.
CONSTANTS
  NoFd = NoFd
  NoWorker = NoWorker
  Workers = {w1}
  FDs = {f1, f2}
  Outside = {}
  GuidFetchers = {}
  MaxClients = 1
  MaxTries = 1
SPECIFICATION Spec
INVARIANT NoForeignShutdown
