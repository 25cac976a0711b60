CONSTANTS
    r1 = r1
    r2 = r2
    s1 = s1
    Rest = {r1, r2}
    Sockets = {s1}
    MaxCalls = 2
SPECIFICATION LiveSpec
INVARIANTS TypeOK DrainedBeforeClosed
PROPERTY SignalEnds
CHECK_DEADLOCK FALSE
