SPECIFICATION GateSpec
CONSTANTS
    Account = {a1, a2}
    Key = {k1}
    Request = {r1, r2, r3}
    None = None
    MAX_API_KEYS_PER_ACCOUNT = 1
    byIp = byIp
    byKey = byKey
    Identifier <- MCIdentifier
    limit <- MClimit
    Call = {c1, c2}
    NoIdentifier = NoIdentifier
    MaxMinute = 3
    MaxFlush = 1
INVARIANTS
    GateTypeOK
    AcceptedKeyWasLive
    AtMostLimit
    RefusedOnlyBeyondLimit
PROPERTY
    RevokedKeyDies
CHECK_DEADLOCK FALSE
