SPECIFICATION Spec
CONSTANT Scrapers = {s1, s2}
INVARIANTS
    KillSparesTheLiving
CHECK_DEADLOCK FALSE
