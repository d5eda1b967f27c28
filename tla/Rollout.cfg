SPECIFICATION FairSpec
CONSTANTS
  NumEvents = 3
  NumPods = 2
  Malformed = {2}
  Modes <- AutoThenPoll
INVARIANTS TypeOK CursorSound
PROPERTIES PollInOrder StreamAtMostOnce HandsOver
CHECK_DEADLOCK FALSE
