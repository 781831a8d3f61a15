CONSTANTS
    Ordinary = {e1}
    Pairs = {p1}
    Attempts = {a1, a2}
    Engines = {g1, g2}
    EngineOf <- EachItsOwnEngine
    Blobs = {b1, b2}
    InitialBlobs = {b1, b2}
    MaxDecisionAttempts = 2
    Allowance = 3
    MaxVersion = 2
    Disturbances = {"restore", "delete"}
    NoAttempt = NoAttempt
    NoEvent = NoEvent
    NoBlob = NoBlob
    Owner = Owner
SYMMETRY SwapAttempts
SPECIFICATION Spec
INVARIANTS NoLostUpdate
CHECK_DEADLOCK FALSE
