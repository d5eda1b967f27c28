SPECIFICATION FairSpec
CONSTANTS
  NumEvents = 3
  Malformed = {2}
  Oversize = {}
  BackoffInitial = 250
  BackoffCap = 30000
  MaxWaits = 8
  Faults = {"sink", "crash"}
INVARIANTS TypeOK BackoffSchedule
PROPERTIES OnceInOrder StreamProgress
