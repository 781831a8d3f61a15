CONSTANTS
    A = A
    B = B
    p1 = p1
    p2 = p2
    j1 = j1
    j2 = j2
    c1 = c1
    f1 = f1
    f2 = f2
    Companies = {A, B}
    Profiles = {p1, p2}
    OwnerOf <- Accounts
    HomeOf <- BothInA
    Processes = {j1, j2, c1}
    ProfileOf <- Running
    Joiners = {j1, j2}
    Workers = {}
    Asked <- BothToB
    Fences = {f1, f2}
    IdsOf <- Twice
    Notes = {n1}
    MaxEdits = 1
    Disturbances = {"crash"}
    None = None
SPECIFICATION Spec
INVARIANT AcceptedIsNeverForgotten
