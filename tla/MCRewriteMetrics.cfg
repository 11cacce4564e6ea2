SPECIFICATION Spec
CONSTANTS
    Requests = {r1, r2, r3}
    Metrics = {m1, m2}
INVARIANTS
    OwnComplete
    NamedAlways
PROPERTIES
    StaysSettled
CHECK_DEADLOCK FALSE
