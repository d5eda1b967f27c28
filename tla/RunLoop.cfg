SPECIFICATION FairSpec
CONSTANTS
  Second = 1
  HalfRange = 32
  DefaultRefreshAfter = 10
  MinRefreshAfter = 2
  ResolveErrBackoff = 1
  CfgModes = {"", "poll", "stream", "other"}
  CfgInterval = 1
  Hints <- MCHints
  CRModes = {"", "auto", "poll", "stream", "other"}
INVARIANTS TypeOK NeverPanics
PROPERTIES NoResolveStorm KeepsPolling FlipsReachSession
CHECK_DEADLOCK FALSE
