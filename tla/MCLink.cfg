SPECIFICATION Spec
CONSTANTS
    Protocols = {"telnet", "raw", "serial"}
    Keys = {65, 255}
    Options = {1, 3, 24, 31, 5}
    Widths = {100}
    Capacity = 1
    MaxRemote = 2
    MaxLocal = 2
INVARIANTS DataIntact EveryRequestAnswered 
PROPERTY PortFreed
CHECK_DEADLOCK FALSE
