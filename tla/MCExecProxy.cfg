SPECIFICATION FairSpec
CONSTANT Scrapers = {s1, s2}
INVARIANTS
    NoLostWakeup
    DrainServed
    NoStrayProcess
    DeadlocksAreWedges
PROPERTIES
    WedgedForever
    ImplementsScrapeBatch
    CancelledReturnsOrWedged
    AbandonedRunKilled
    RoundEnds
    DoExecReturnsOrOrphan
CHECK_DEADLOCK FALSE
