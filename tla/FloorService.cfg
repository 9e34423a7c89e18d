SPECIFICATION FloorSpec
CONSTANTS
  Tables = {t1}
  Stations = {s1}
  NoStation = NoStation
  NoTx = NoTx
  Menu <- MCMenu
  Discounts = {}
  MaxOrders = 2
  MaxItems = 2
  MaxBatches = 2
  MaxPayments = 2
  MaxApprovals = 0
  MaxSessions = 2
  MaxQuantity = 1
  MaxEdits = 0
  MaxMoves = 0
  MaxRetries = 0
  MaxLooks = 2
CHECK_DEADLOCK FALSE
INVARIANTS
  LinesRoutedOnce
  AcceptedLinesReachKitchen
  FreeTableIsFree
  NoPhantomTable
