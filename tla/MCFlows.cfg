\* One client thread over pools of up to two nodes with two changes of the king
\* state; two relays where one is allowed; a tunnel of a few bytes with a stale
\* length or none; two attempts, three redirects, two addresses; two
\* threads that connect while the proxy is switched on.
CONSTANTS
  RouteWorkers = {r1}
  MaxPool = 2
  MaxChanges = 2
  Jobs = {j1, j2}
  RelayFds = {f1, f2, f3}
  NoRelayFd = NoRelayFd
  MaxRelays = 1
  HeadLen = 2
  ClientLen = 4
  ServerLen = 2
  Inbound = 3
  Outbound = 1
  StaleLengths = {0, 1}
  MaxAttempts = 2
  MaxHops = 3
  MaxAddresses = 2
  AppThreads = {1, 2}
  MaxFd = 1
  TableMax = 1
SPECIFICATION MCLive
INVARIANTS
  FlowTypesOK
  FailsClosed
  RefusedByAll
  OneAnswer
  RelaysAccounted
  BytesArrive
  NothingBehindFin
  NothingHeld
PROPERTIES
  Answered
  OwnShutdownsOnly
  RelayLimit
  SweptRelaysEnd
  SweptTunnelEnds
  TunnelEnds
  CallReturns
  SwitchReturns
CHECK_DEADLOCK FALSE
