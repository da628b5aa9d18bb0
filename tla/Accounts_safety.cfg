CONSTANTS
  t1 = t1
  t2 = t2
  u1 = u1
  u2 = u2
  u3 = u3
  e1 = e1
  e2 = e2
  p1 = p1
  p2 = p2
  Tenants = {t1, t2}
  Users = {u1, u2, u3}
  Emails = {e1, e2}
  Secrets = {p1}
  ServiceTokens = {k1}
  Handlers = {h1, h2}
  Null = Null
  Gone = Gone
  Seed <- MCSeed
SPECIFICATION Spec
SYMMETRY Symmetry
INVARIANTS
  TypeOK
  EmailUnique
  ServiceTokensOwned
  ActorsWereApproved
  NoForeignRows
PROPERTIES
  TenantsAreIsolated
  ApprovalIsFinal
