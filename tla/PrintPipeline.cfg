SPECIFICATION Spec
CONSTANTS
  Jobs <- MCJobs
  Bridges = {b1, b2}
  Devices = {d1}
  NoBridge = NoBridge
  NoDevice = NoDevice
  Malformed = {}
  MaxAttempts = 3
  MaxServing = 0
  MaxRetries = 1
  MaxAdmin = 1
  MaxFaults = 2
SYMMETRY Interchangeable
INVARIANTS
  TypeOK
  NoUnauthorisedTicket
  AckedMeansStored
  TicketIsOnRecord
PROPERTIES
  KeepsPromise
