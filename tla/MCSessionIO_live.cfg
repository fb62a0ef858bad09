SPECIFICATION Spec
CONSTANTS
  Receivers = {r1}
  Senders = {s1}
  User = User
  None = None
  ReadCap = 1
  WriteCap = 1
  TapCap = 1
  ResizeCap = 0
  MaxChunks = 1
  Scripted = FALSE
PROPERTIES
  
  
  LinkLossNoticed
  
CHECK_DEADLOCK FALSE
