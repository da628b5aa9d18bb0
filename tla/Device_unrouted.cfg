\* A device that reconnects before its old stream is torn down; no failing
\* statement is needed.
SPECIFICATION Spec
CONSTANTS
  Devices = {d1}
  Codes = {c1}
  Enrollers = {e1}
  Streams = {s1, s2}
  Null = Null
  StatementsFail = FALSE
INVARIANTS
  ConnectedIsRouted
CHECK_DEADLOCK FALSE
