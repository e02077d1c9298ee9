\* One thread duplicates a socket before it connects it.
CONSTANTS
  AppThreads = {t1}
  MaxFd = 2
  TableMax = 2
SPECIFICATION AdmissionSpec
INVARIANT KillSwitch
