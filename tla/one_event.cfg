CONSTANTS
    Ordinary = {e1}
    Pairs = {}
    Attempts = {a1, a2}
    Engines = {g1, g2}
    EngineOf <- EachItsOwnEngine
    Blobs = {b1, b2}
    InitialBlobs = {b1}
    MaxDecisionAttempts = 2
    Allowance = 3
    MaxVersion = 2
    Disturbances = {"resubmit", "refusal", "failure", "cancel", "crash", "fence", "dismiss"}
    NoAttempt = NoAttempt
    NoEvent = NoEvent
    NoBlob = NoBlob
    Owner = Owner
SYMMETRY SwapAttempts
SPECIFICATION Spec
INVARIANTS TypeOK CommittedIffWritten AnswersAreRecorded OverspendBounded
PROPERTIES AnswerStays SupersededNeverWrites RevokedNeverWrites FenceFreezes
