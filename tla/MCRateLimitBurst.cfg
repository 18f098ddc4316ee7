SPECIFICATION Spec
CONSTANTS
  r1 = r1
  r2 = r2
  ip1 = ip1
  ip2 = ip2
  NoCharge = NoCharge
  NoVerdict = NoVerdict
  Request = {r1, r2}
  Ip = {ip1, ip2}
  Target = {"secret", "news", "other"}
  rules <- MCrules
  max <- MCmax
  MaxCount = 4
SYMMETRY Symmetry
INVARIANT
  BurstSparesUniversal
