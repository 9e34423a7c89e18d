SPECIFICATION FloorSpec
CONSTANTS
  Tables = {t1}
  Stations = {}
  NoStation = NoStation
  NoTx = NoTx
  Menu <- Cheap
  Discounts <- Half
  MaxOrders = 1
  MaxItems = 2
  MaxBatches = 1
  MaxPayments = 1
  MaxApprovals = 2
  MaxSessions = 1
  MaxQuantity = 2
  MaxEdits = 1
  MaxMoves = 0
  MaxRetries = 0
  MaxLooks = 1
CHECK_DEADLOCK FALSE
INVARIANTS
  FloorTypeOK
  TotalsFollowLines
PROPERTIES
  PaidCheckNeverGrows
