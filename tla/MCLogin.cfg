SPECIFICATION LoginSpec
CONSTANTS
    Address = {a1, a2}
    Message = {m1, m2}
    Attempt = {p1, p2}
    Absent = Absent
    LagBounded = TRUE
    l1 = l1
    a1 = a1
    Account = {a1, a2}
    Login = {l1, l2}
    Request = {r1, r2}
    None = None
CHECK_DEADLOCK FALSE
INVARIANTS
    LoginTypeOK
    NonceUsedOnce
    LateNonceRecovered
    ServedAsOwner
PROPERTIES
    NewerNonceSurvives
    EveryLoginAnswered
    ImplementsOneTimeGrant
    LogoutSparesNewerSession
    EndedSessionsDie
