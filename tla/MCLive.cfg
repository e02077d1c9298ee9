\* Termination of stop and of the workers, with silent peers, and the pins of
\* one refresh after the other, with no selfCheck beside them.  Two
\* descriptors: two clients, or a client and its node.  One stay in the
\* background, change of the network or of the settings, and at most two blocks
\* that wait when a timer or a monitor posts another.
CONSTANTS
  NoFd = NoFd
  NoWorker = NoWorker
  Workers = {w1, w2}
  FDs = {f1, f2}
  Outside = {}
  GuidFetchers = {g1}
  MaxClients = 2
  MaxTries = 2
  MaxBlocks = 2
  MaxFgEvents = 1
SPECIFICATION MCFair
INVARIANTS
  PinnedNotFreed
  RecoveredWhenIdle
PROPERTIES
  StopReturns
  WorkersExit
  ModeFollowsPath
CHECK_DEADLOCK FALSE
