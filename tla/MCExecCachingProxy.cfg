SPECIFICATION FairSpec
CONSTANTS
    Scrapers = {s1, s2}
    Interval = 3
    MaxRunTime = 4
    MaxFailures = 2
INVARIANTS
    TypeOK
    WholeResultsOnly
    CacheFresh
PROPERTIES
    KilledFirst
    FirstScrapeServed
    ImplementsMetricProxy
