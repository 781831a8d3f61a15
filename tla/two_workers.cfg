CONSTANTS
    Workers = {w1, w2}
    MaxEntities = 2
    Disturbances = {"failure","stop","crash","fence","dismiss parent","dismiss child","retry"}
    NoWorker = NoWorker
SPECIFICATION Spec
SYMMETRY SwapWorkers
INVARIANTS TypeOK CommittedIsComplete ManifestOfChildren ProcessedIsComplete
PROPERTIES SettledStays
