\* Each of the two limits alone, both, or none; either may expire first.
SPECIFICATION FairSpec
CONSTANTS
  IdleTimeouts = {0, 2}
  MaxLifetimes = {0, 3}
INVARIANTS
  TimeoutTold
  NothingLeftBehind
  CodesPropagate
PROPERTIES
  LifetimeEnds
  IdleEnds
CHECK_DEADLOCK FALSE
