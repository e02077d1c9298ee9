\* Both healers, three forwarders, every mode.
CONSTANTS
  Forwarders = {f1, f2, f3}
  None = None
  Threads = {"heartbeat", "watchdog"}
  Modes = {"king", "off", "direct", "custom"}
  MaxEvents = 1
SPECIFICATION Spec
SYMMETRY Symmetry
INVARIANTS
  OneOwnerEach
  PublishedIsInstalled
\* A quiet system: no event is left and the king card is off.
CHECK_DEADLOCK FALSE
