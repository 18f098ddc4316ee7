CONSTANTS
  UserCA = "user_ca"
  OtherCA = "other_ca"
  MachineCA = "machine_ca"
  IssuingCA = "issuing_ca"
  Certified <- MCCertified
  MaxDn = 7
  Conns = {c1, c2}
  Certs <- MCCerts
  Starts <- MCStarts
  Restarts <- MCRestarts
  MaxRuns = 2
  MaxText = 4
SPECIFICATION Spec
CHECK_DEADLOCK FALSE
INVARIANTS
  TypeOK
  ExpansionIsExact
  ControlsInForce
  IdentitiesApart
  IdentityVerifiedThisRun
  BypassOnlyListed
  SubjectsUnambiguous
PROPERTY
  StartDecides
