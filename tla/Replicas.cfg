SPECIFICATION FairSpec
CONSTANTS
  Replicas = {r1, r2}
  MaxUid = 2
  MaxChanges = 2
  MaxAttempts = 2
  Faults = {"lease", "delete", "foreground", "crash", "api"}
INVARIANTS TypeOK NothingOwed
PROPERTIES SettlesAcrossLeaders
CHECK_DEADLOCK FALSE
