SPECIFICATION Spec
CONSTANTS
  NumEvents = 2
  Malformed = {}
  Oversize = {}
  BackoffInitial = 250
  BackoffCap = 30000
  MaxWaits = 8
  Faults = {}
INVARIANTS StreamAtLeastOnce
