\* Two refreshes of one token, both past find_by_hash.
SPECIFICATION Spec
CONSTANTS
  Users = {u1}
  Sessions = {s1}
  Tokens = {t1, t2, t3}
  Handlers = {h1, h2}
  Null = Null
  Gone = Gone
  StatementsFail = FALSE
SYMMETRY Symmetry
INVARIANT
  RedeemedOnce
CHECK_DEADLOCK FALSE
