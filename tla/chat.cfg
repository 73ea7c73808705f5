CONSTANTS
    Null = Null
    u1 = u1  u2 = u2
    Users = {u1, u2}
    t1 = t1  t2 = t2  old = old
    Tokens = {t1, t2, old}
    ExpoTokens = {t1, t2}
    FirstToken <- MCFirstToken
    KeySets <- MCKeySets
    Readers = {u1}
    s1 = s1  s2 = s2
    Senders = {s1, s2}
    MaxRegistrations = 2
    MaxPushes = 1
    PoolSize = 2
    TicksPerMs = 2
    MaxTime = 2
    MaxMessages = 3
    MaxLimit = 1
    MaxFailures = 1
    MaxCrashes = 1

SPECIFICATION MCSpec
CONSTRAINT OneSave
INVARIANTS NothingIsMissed KeysComeWithMessages PushedIsStored TokensAreKept
PROPERTIES ImplementsLog SendsEnd
CHECK_DEADLOCK FALSE
