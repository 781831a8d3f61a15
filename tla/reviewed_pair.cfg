CONSTANTS
    Ordinary = {}
    Pairs = {p1}
    Attempts = {a1, a2}
    Engines = {g1, g2}
    EngineOf <- EachItsOwnEngine
    Blobs = {b1, b2}
    InitialBlobs = {b1, b2}
    MaxDecisionAttempts = 2
    Allowance = 3
    MaxVersion = 2
    Disturbances = {"resubmit", "retry", "dismiss"}
    NoAttempt = NoAttempt
    NoEvent = NoEvent
    NoBlob = NoBlob
    Owner = Owner
SPECIFICATION FairSpec
PROPERTIES KeepsPromise SubmitReturns
