CONSTANTS
    c1 = c1
    c2 = c2
    c3 = c3
    Calls = {c1, c2, c3}
    TransportOf <- OneOfEach
    BoundOf <- Bounds
    Caps = {0, 4}
    Day = 2
    Horizon = 1
    MaxOverrun = 1
    MaxTime = 3
    Disturbances = {"drop", "sleep", "overrun", "lower"}
SPECIFICATION Spec
INVARIANTS TypeOK ChargesAreKept MeteredByReceipt WithinAllowance
CHECK_DEADLOCK FALSE
