\* The heartbeat alone, in every mode, two events.
CONSTANTS
  Forwarders = {f1, f2}
  None = None
  Threads = {"heartbeat"}
  Modes = {"king", "off", "direct", "custom"}
  MaxEvents = 2
SPECIFICATION LiveSpec
PROPERTIES
  Recovers
  OffStops
\* A quiet system: no event is left and the king card is off.
CHECK_DEADLOCK FALSE
