\* Every interleaving of two handlers, with ignored statement errors.
SPECIFICATION Spec
CONSTANTS
  Users = {u1}
  Sessions = {s1}
  Tokens = {t1, t2, t3}
  Handlers = {h1, h2}
  Null = Null
  Gone = Gone
  StatementsFail = TRUE
SYMMETRY Symmetry
INVARIANTS
  TypeOK
  ForeignKeys
PROPERTIES
  RevocationIsPermanent
  RedeemWindowCloses
  FinishedFamilyStaysFinished
\* The system stops when the accounts are deleted or the id pools are used up.
CHECK_DEADLOCK FALSE
