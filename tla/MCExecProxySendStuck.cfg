SPECIFICATION Spec
CONSTANT Scrapers = {s1, s2}
INVARIANTS
    NeverSendStuck
CHECK_DEADLOCK FALSE
