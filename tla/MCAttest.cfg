SPECIFICATION Spec
CONSTANTS
  r1 = r1
  r2 = r2
  n1 = n1
  n2 = n2
  NoOne = NoOne
  NoToken = NoToken
  Request = {r1, r2}
  Token = {"t1", "t2", "t3"}
  Nonce = {n1, n2}
  nonceOf <- MCnonceOf
  tsOf <- MCtsOf
  bindingOf <- MCbindingOf
  TicksPerSec = 2
  MAX_TS_DRIFT_SECS = 1
  COMMIT_GRACE_SECS = 1
  NONCE_TTL = 5
  MAX_EVICTIONS_PER_COMMIT = 1
  MaxBack = 2
  Steps <- MCBack
  StartWall = {4}
  MaxMono = 11
  MaxWall = 15
  MaxRestarts = 1
SYMMETRY RequestSymmetry
INVARIANTS
  TypeOK
  NoDoubleAccept
  CacheInStep
  SeenWereAccepted
  RememberedWhileLive
PROPERTIES
  LateCopyIsReplay
  GateSpec
