SPECIFICATION Spec
CONSTANTS
    Requests = {r1, r2}
    Metrics = {m1}
INVARIANTS
    AllComplete
CHECK_DEADLOCK FALSE
