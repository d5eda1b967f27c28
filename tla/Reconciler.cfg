SPECIFICATION FairSpec
CONSTANTS
  MaxChanges = 3
  MaxAttempts = 2
  Sinks = {1, 2}
  Defaulting = TRUE
  Faults = {"api", "crash", "delete"}
INVARIANTS TypeOK ReadyIsDerived ReadyRendersSpec RestsSettled
PROPERTIES ObservedGenerationMonotone Converges
CHECK_DEADLOCK FALSE
