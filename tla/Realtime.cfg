SPECIFICATION Spec
CONSTANTS
  NoSocket = NoSocket
  Workers = {w1}
  Clients = {c1}
  Sockets = {s1, s2}
  MaxWrites = 1
  MaxTroubles = 1
INVARIANTS
  RealtimeTypeOK
  ReadyHears
PROPERTIES
  ScreensCatchUp
  EndedSessionsAreCutOff
