SPECIFICATION Spec
CONSTANTS
    Account = {a1}
    Key = {k1, k2}
    Request = {r1, r2}
    None = None
    MAX_API_KEYS_PER_ACCOUNT = 1
INVARIANTS AtMostMaxKeys
CHECK_DEADLOCK FALSE
