\* The carrier does not answer for a while at start-up.
CONSTANTS
  MaxCredEvents = 1
SPECIFICATION CredLive
PROPERTIES
  LocalIsBrief
