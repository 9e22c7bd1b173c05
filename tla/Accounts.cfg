\* Three requests of users and newcomers, and one delegated call.
SPECIFICATION Spec
CONSTANTS
  ann = ann
  bob = bob
  eve = eve
  kim = kim
  Names = {ann, bob, eve, kim}
  EmailOf <- Emails
  Registered = {ann, bob}
  UserOf <- Users
  Requests = {r1, r2, r3}
  Calls = {c1, c2}
  MaxSession = 2
  Starts = 2
SYMMETRY Symmetric
INVARIANTS
  LostOnlyByClose
  SignupFailsOnly
  SessionsPrivate
CHECK_DEADLOCK FALSE
