SPECIFICATION FairSpec
CONSTANTS
    Requests = {r1, r2}
    Backends = {b1, b2}
    Buffers = {k1, k2}
INVARIANTS
    ResponseComplete
    ResponseIsOwn
    NoGoroutineLeft
PROPERTIES
    CancelledAnswered
