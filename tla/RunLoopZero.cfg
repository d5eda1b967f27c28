SPECIFICATION FairSpec
CONSTANTS
  Second = 1
  HalfRange = 32
  DefaultRefreshAfter = 10
  MinRefreshAfter = 2
  ResolveErrBackoff = 1
  CfgModes = {""}
  CfgInterval = 0
  Hints <- MCHints
  CRModes = {"", "auto", "poll", "stream", "other"}
INVARIANTS NeverPanics
CHECK_DEADLOCK FALSE
