SPECIFICATION Spec
CONSTANTS
  r1 = r1
  r2 = r2
  h1 = h1
  h2 = h2
  a1 = a1
  a2 = a2
  NoAddr = NoAddr
  NoEntry = NoEntry
  NoQuery = NoQuery
  NoDecision = NoDecision
  Request = {r1, r2}
  Host = {h1}
  Addr = {a1, a2}
  Cert = {"sound1"}
  hostOf <- MChostOf
  defectsOf <- MCdefectsOf
  dns_ttl = 2
  dns_negative_ttl = 1
  dns_stale_grace = 1
  MaxLatency = 1
  MaxAge = 4
SYMMETRY Symmetry
INVARIANT FailedLookupRemembered
