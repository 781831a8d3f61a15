CONSTANTS
    Workers = {w1}
    Memory = {m1}
    Tasks = {t1}
    RunIds = {r1, r2, r3, r4}
    None = None
    Limit = 1
    MaxFailures = 2
    Disturbances = {"crash", "refuse"}
SPECIFICATION CalmSpec
PROPERTIES Settles
CHECK_DEADLOCK FALSE
