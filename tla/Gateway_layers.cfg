\* Two requests, one key that is published or withdrawn and one never known;
\* liveness, so no symmetry.
SPECIFICATION FairSpec
CONSTANTS
  k1 = k1
  k2 = k2
  Kids = {k1}
  CacheTtl = 2
  FetchTimeout = 1
  Requests = {r1, r2}
  Calls <- MCCalls
  Deployments <- MCDeployments
  Peers = {p1}
  Tokens <- MCTokens
  IpBurst = 2
  GlobalBurst = 1
  None = None
INVARIANTS
  TypeOK
  StaleKeyBound
  ClaimsAreVerified
  ErrorsSurviveTwoHops
PROPERTIES
  ShutdownDrains
\* The gateway stops after a signal.
CHECK_DEADLOCK FALSE
