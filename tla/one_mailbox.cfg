CONSTANTS
    inbox = inbox
    all = all
    m1 = m1
    m2 = m2
    h = h
    r1 = r1

    Folders <- FoldersHere
    Messages = {m1, m2, h}
    Headerless = {h}
    Sent <- SentHere
    Runs = {r1}
    Overlap = 1
    DaysBack = 0
    BatchSize = 1
    None = None
    MaxDay = 1
    MaxUid <- UidsHere
    MaxEvents = 1
SPECIFICATION FairSpec
INVARIANTS TypeOK PassedIsStored
PROPERTIES CatchesUp
