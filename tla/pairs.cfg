SPECIFICATION Spec
CONSTANTS
    Null = Null
    Blank = Blank
    u1 = u1
    u2 = u2
    u3 = u3
    Users = {u1, u2, u3}
    Reqs = {r1, r2}
    Rooms = {m1, m2}
    Profiles <- PickyRows
    FirstRow <- PickyRow
    MaxEdits <- ThereAndBack
    Blocks <- OneBlock
    MaxFailures = 0
    MaxRestarts = 0
SYMMETRY RequestSymmetry
INVARIANTS
    PairsSound
    ConnectingHasCause
    LedgerInv
CONSTRAINT EditBound
