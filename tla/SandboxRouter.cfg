\* Three connections of two hosts, two allowed for each; one HTTP request.
SPECIFICATION RouterSpec
CONSTANTS
  c1 = c1
  c2 = c2
  c3 = c3
  alice = alice
  bob = bob
  front = front
  office = office
  typo = typo
  Unknown = Unknown
  Conns = {c1, c2, c3}
  Clients = {alice, bob, front, Unknown}
  Addresses = {alice, bob, front}
  MaxPerClient = 2
  MaxEnv <- Two
  Cidrs = {office, typo}
  Malformed = {typo}
  Covers <- CoversOf
  Handshakes <- SomeHandshakes
  HttpRequests = {h1}
  Calls <- SomeCalls
  TimeoutEnvs <- Timeouts
  DefaultTimeout = 180
SYMMETRY Symmetric
INVARIANTS
  RouterTypeOK
  TableExact
  LimitRespected
  OriginLimited
  ResponsesClosed
CHECK_DEADLOCK FALSE
