SPECIFICATION Spec
CONSTANTS
    Server = {s1, s2}
    Request = {r1, r2}
    None = None
    MokaTTL = 1
    RedisTTL = 1
    QueryTime = 1
    SetTime = 1
    MaxTime = 5
SYMMETRY Symmetry
INVARIANTS TypeOK BoundedStaleness WaitersHaveLeader
