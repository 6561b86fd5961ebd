CONSTANTS
  Calls = {v1, v2}
  Kids = {old}
  Unusable = Unusable
  NoCall = NoCall
  MinRefetch = 2
  RefreshAfter = 3
  FetchTimeout = 1
SPECIFICATION Spec
INVARIANTS VerifierTypeOK WithdrawnStaysOut WithdrawnStopsVerifying
PROPERTIES OneAttemptPerInterval EveryVerifyReturns CacheCatchesUp
