SPECIFICATION Spec
CONSTANTS
  MaxChanges = 3
  MaxAttempts = 2
  Sinks = {1, 2}
  Defaulting = TRUE
  Faults = {"delete"}
INVARIANTS NoStaleTrue
CHECK_DEADLOCK FALSE
