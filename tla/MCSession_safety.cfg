\* Two users and two Lobbies, with every fault.
SPECIFICATION Spec
CONSTANTS
    Users = {u1, u2}
    Clients = {c1, c2}
    MaxCalls = 3
    MaxFrames = 1
    Faults <- Everything
    None = None
INVARIANTS TypeOK AuthFirstAndOnce OneSocket ConnectedIsServed ConnectedAsShown
PROPERTY ClosedStaysClosed
CHECK_DEADLOCK FALSE
