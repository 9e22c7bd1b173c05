\* Two threads for four requests; the kernel may hang or die.
SPECIFICATION FairSpec
CONSTANTS
  Idle = Idle
  Commands = {plain1, plain2, runaway, fatal}
  Runaway = {runaway}
  Fatal = {fatal}
  Workers = 2
PROPERTIES
  
  ExecuteAnswered
CHECK_DEADLOCK FALSE
