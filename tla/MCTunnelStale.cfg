\* A head of two units with two behind it, and a stale length of one.
CONSTANTS
  HeadLen = 2
  ClientLen = 4
  ServerLen = 1
  Inbound = 3
  Outbound = 1
  StaleLengths = {0, 1}
SPECIFICATION TunnelSpec
INVARIANTS
  EarlyDataKept
CHECK_DEADLOCK FALSE
