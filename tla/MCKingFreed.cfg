\* One heartbeat beside the runtime queue.
CONSTANTS
  Forwarders = {f1, f2}
  None = None
  Threads = {"heartbeat"}
  Modes = {"king", "custom"}
  MaxEvents = 1
SPECIFICATION Spec
INVARIANTS
  NoUseAfterFree
\* A quiet system: no event is left and the king card is off.
CHECK_DEADLOCK FALSE
