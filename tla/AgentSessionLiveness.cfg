\* Every request ends and every question reaches the client, if tools and model return.
SPECIFICATION FairSpec
CONSTANTS
  w1 = w1
  w2 = w2
  b1 = b1
  NoCall = NoCall
  Requests = {r1, r2}
  Calls <- OneHumanCall
  HumanCalls <- OneWeatherCall
  Parallel = 2
  MaxLost = 1
PROPERTIES
  RoundsEnd
  AskedInTheEnd
  ImplementsLifecycle
CHECK_DEADLOCK FALSE
