CONSTANTS
    Null = Null
    u1 = u1
    u2 = u2
    c1 = c1
    c2 = c2
    Users = {u1, u2}
    Calls = {c1, c2}
    Members <- TwoCalls
    Sockets = {s1, s2}
    Reqs = {r1, r2}
    MaxOpened = 1
    MaxFailures = 1
    MaxRestarts = 1

SPECIFICATION FairSpec
CONSTRAINT OneUpset
INVARIANTS LikerIsConnected HandshakeInv
PROPERTY LikeBackMatches
CHECK_DEADLOCK FALSE
