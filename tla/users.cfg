\* Two addresses, one number, one Google and one Apple user, two rows, two requests at a
\* time, choices of interests that overlap in part; for the pictures of one user, two
\* requests and three keys.
SPECIFICATION MCSpec
CONSTANTS
    Null = Null
    NoKey = NoKey
    e1 = e1
    e2 = e2
    g1 = g1
    Ids = {u1, u2}
    Emails = {e1, e2}
    Phones = {n1}
    Googles = {g1}
    Apples = {a1}
    GoogleEmail <- OneGoogleUser
    Passwords = {w1}
    Interests = {i1, i2}
    Selections = {{i1}, {i2}, {i1, i2}}
    ResetTokens = {t1}
    Requests = {r1, r2}
    MaxRequests = 5
    MaxEvents = 3
    MaxFailures = 1
    Keys = {k1, k2, k3}
    PhotoRequests = {q1, q2}
    MaxPhotoFailures = 1
SYMMETRY UserSymmetry
INVARIANTS
    VerificationStaysPossible
    SameAccountForGoogle
    PlanFollowsEvents
    InterestsAreChosen
    StoresAgree
    OnePrimary
CHECK_DEADLOCK FALSE
