SPECIFICATION Safety
CONSTANTS
  Receivers = {r1}
  Senders = {s1}
  User = User
  None = None
  ReadCap = 2
  WriteCap = 1
  TapCap = 2
  ResizeCap = 0
  MaxChunks = 3
  Scripted = FALSE
INVARIANT CancelRecovers
CHECK_DEADLOCK FALSE
