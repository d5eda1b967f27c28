SPECIFICATION Spec
CONSTANTS
  NumEvents = 4
  Malformed = {2}
  Poison = {4}
  Faults = {"write", "crash", "evict", "slow"}
INVARIANTS TypeOK NoLoss NoOvertaking
PROPERTIES NoReplay CursorNeverRegresses ResumesWhereItLeftOff Promise
