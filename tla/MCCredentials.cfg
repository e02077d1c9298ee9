\* One outage, restart, reset, change of settings or other app, at any moment.
CONSTANTS
  MaxCredEvents = 1
SPECIFICATION CredLive
PROPERTIES
  Recharged
  DeadReplaced
