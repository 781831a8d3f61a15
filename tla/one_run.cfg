CONSTANTS
    Workers = {w1, w2}
    Memory = {m1}
    Tasks = {t1}
    RunIds = {r1, r2, r3, r4}
    None = None
    Limit = 2
    MaxFailures = 2
    Disturbances = {"crash", "refuse", "fence", "reset", "pause"}
SPECIFICATION Spec
INVARIANTS TypeOK OneRun WorkIsRecorded EveryTryCounts CountsAddUp
PROPERTIES PausedSendsNothing
SYMMETRY Alike
CHECK_DEADLOCK FALSE
