\* A command that never ends, and one that would.
SPECIFICATION FairSpec
CONSTANTS
  Idle = Idle
  Commands = {plain1, runaway}
  Runaway = {runaway}
  Fatal = {}
  Workers = 2
PROPERTY
  RunawayEnds
CHECK_DEADLOCK FALSE
