SPECIFICATION Spec
CONSTANTS
  Home <- AnyBranch
  Users = {u1}
  Branches = {b1, b2}
  Calls = {c1, c2}
  MaxSessions = 2
  MaxPairs = 3
  MaxTroubles = 1
  MaxSwitches = 1
INVARIANTS
  LogoutEndsSession
