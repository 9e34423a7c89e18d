SPECIFICATION FairSpec
CONSTANTS
  Jobs <- MCTwoJobs
  Bridges = {b1}
  Devices = {d1}
  NoBridge = NoBridge
  NoDevice = NoDevice
  Malformed = {2}
  MaxAttempts = 3
  MaxServing = 0
  MaxRetries = 0
  MaxAdmin = 1
  MaxFaults = 1
PROPERTIES
  QueueMoves
  InFlightEnds
  ReportsGetThrough
