SPECIFICATION LiveSpec
CONSTANTS
    Users = {u1}
    Clients = {c1}
    MaxCalls = 4
    MaxFrames = 2
    Faults <- ServedBreak
    None = None
PROPERTY Reconnects
PROPERTY ClosedIsLetGo
CHECK_DEADLOCK FALSE
