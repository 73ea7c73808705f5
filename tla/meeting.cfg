CONSTANTS
    Null = Null
    Blank = Blank
    u1 = u1
    u2 = u2
    m1 = m1
    m2 = m2
    Users = {u1, u2}
    Reqs = {r1}
    Rooms = {m1, m2}
    Profiles <- OpenRows
    FirstRow <- OpenRow
    MaxEdits <- NoEdits
    Blocks <- NoBlocks
    MaxFailures = 1
    MaxRestarts = 1
    Members <- TwoCalls
    Sockets = {s1, s2}
    LikeReqs = {q1}
    MaxOpened = 1
    MaxLikeFailures = 1

SPECIFICATION MeetSpec
CONSTRAINT WorkBound
SYMMETRY MeetingSymmetry
INVARIANTS MutualLikeOfCall ChatsAreOfCalls
PROPERTY ImplementsParts
CHECK_DEADLOCK FALSE
