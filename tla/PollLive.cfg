SPECIFICATION FairSpec
CONSTANTS
  NumEvents = 2
  Malformed = {}
  Poison = {}
  Faults = {"read", "write", "crash"}
PROPERTIES Progress
