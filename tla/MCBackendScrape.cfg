SPECIFICATION FairSpec
INVARIANTS
    WholeBodyOnly
    ErrorsExcused
PROPERTIES
    FileClosed
    DeadlineBounds
    ImplementsMetricProxy
