SPECIFICATION ServerSpec
CONSTANTS
  Jobs <- MCJobs
  Bridges = {b1, b2}
  Devices = {d1}
  NoBridge = NoBridge
  NoDevice = NoDevice
  MaxAttempts = 3
  MaxServing = 1
  MaxRetries = 1
  MaxAdmin = 1
SYMMETRY Interchangeable
INVARIANTS
  ClaimsAuthorised
  PrintedIsAcknowledged
PROPERTIES
  PrintedIsFinal
  OnlyClaimEndsWaiting
  RevokedIsCutOff
