SPECIFICATION FairSpec
CONSTANT Scrapers = {s1, s2}
PROPERTIES
    CancelledReturns
CHECK_DEADLOCK FALSE
