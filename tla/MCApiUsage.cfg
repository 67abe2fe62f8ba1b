SPECIFICATION UsageFairSpec
CONSTANTS
    IssuedKey = {k1, k2}
    Server = {s1, s2}
    MaxUses = 2
    MaxFlush = 1
INVARIANTS UsageTypeOK NeverOvercounts ExactWithoutFault
PROPERTIES UsageIsDrained
CHECK_DEADLOCK FALSE
