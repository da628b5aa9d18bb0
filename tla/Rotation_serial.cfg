\* One request per session in flight; handlers crash, no statement error is lost.
SPECIFICATION SerialSpec
CONSTANTS
  Users = {u1}
  Sessions = {s1, s2}
  Tokens = {t1, t2, t3}
  Handlers = {h1, h2}
  Null = Null
  Gone = Gone
  StatementsFail = FALSE
SYMMETRY Symmetry
INVARIANTS
  OneLiveToken
  KilledFamilyIsDead
  ClosedSessionIsDead
PROPERTIES
  ImplementsSessionFamily
CHECK_DEADLOCK FALSE
