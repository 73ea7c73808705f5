SPECIFICATION FairSpec
CONSTANTS
    Null = Null
    Blank = Blank
    u1 = u1
    u2 = u2
    u3 = u3
    Users = {u1, u2}
    Reqs = {r1}
    Rooms = {m1, m2}
    Profiles <- OpenRows
    FirstRow <- OpenRow
    MaxEdits <- NoEdits
    Blocks <- NoBlocks
    MaxFailures = 0
    MaxRestarts = 0
PROPERTY SecondPassHappens
