SPECIFICATION Safety
CONSTANTS
  Receivers = {r1}
  Senders = {s1}
  User = User
  None = None
  ReadCap = 1
  WriteCap = 1
  TapCap = 1
  ResizeCap = 1
  MaxChunks = 2
  Scripted = TRUE
INVARIANTS
  TabConsistent
  NoQuietLoss
  DeliversOnce
  TapSeesEverything
PROPERTIES
  RoutesChunks
  TapHandedOver
CHECK_DEADLOCK FALSE
