CONSTANTS
  Calls = {c1, c2}
  b1 = b1
  b2 = b2
  b3 = b3
  Bearers = {b1, b2, b3}
  ann = ann
  bob = bob
  Principals = {ann, bob}
  NoOne = NoOne
  read = read
  write = write
  approve = approve
  Grants = {read, write, approve}
  Modes = {"jwks", "authorize", "dual"}
  Owner <- MCOwner
  Claims <- MCClaims
  Expires <- MCExpires
  Verdicts <- BothVerdicts
  MaxAge = 1
  Ages = {0, 1}
  Timeout = 1
  Capacity = 2
  MaxTime = 3
SYMMETRY CallSymmetry
CONSTRAINT OneChange
SPECIFICATION Spec
INVARIANTS AccessTypeOK WithdrawnGrantsExpire DualGrantsBoth CacheInStep
PROPERTIES EvictsLeastRecent
