\* Two calls of enroll for one code, and two streams of the device it makes;
\* liveness, so no symmetry.
SPECIFICATION FairSpec
CONSTANTS
  Devices = {d1, d2}
  Codes = {c1}
  Enrollers = {e1, e2}
  Streams = {s1, s2}
  Null = Null
  StatementsFail = TRUE
INVARIANTS
  TypeOK
  CodeEnrollsOnce
  SpentCodesMadeDevices
  RouteIsRunning
  OnlineIsAccountedFor
  LoneStreamIsReachable
PROPERTIES
  ImplementsVoucher
  DeadRouteIsDropped
  AwayIsOffline
\* The system stops when the pools of ids are used up.
CHECK_DEADLOCK FALSE
