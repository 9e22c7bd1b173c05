\* Two calls of one response wait for a human and race with a plain tool; or
\* one of each, and one row is rolled back.
SPECIFICATION Spec
CONSTANTS
  w1 = w1
  w2 = w2
  b1 = b1
  NoCall = NoCall
  Requests = {r1, r2, r3}
  Calls <- AllCalls
  HumanCalls <- WeatherCalls
  Parallel = 2
  MaxLost = 1
SYMMETRY Symmetric
CONSTRAINT OneQuestionWhenLost
INVARIANTS
  OutputsHaveCalls
  CallsAccounted
  HumanAsked
  NoStall
  ModelInputComplete
CHECK_DEADLOCK FALSE
