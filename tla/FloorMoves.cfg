SPECIFICATION FloorSpec
CONSTANTS
  Tables = {t1, t2}
  Stations = {}
  NoStation = NoStation
  NoTx = NoTx
  Menu <- Cheap
  Discounts = {}
  MaxOrders = 2
  MaxItems = 3
  MaxBatches = 1
  MaxPayments = 0
  MaxApprovals = 0
  MaxSessions = 2
  MaxQuantity = 2
  MaxEdits = 1
  MaxMoves = 2
  MaxRetries = 1
  MaxLooks = 1
SYMMETRY Interchangeable
CHECK_DEADLOCK FALSE
INVARIANTS
  OneOpenSession
PROPERTIES
  MovesConserveLines
