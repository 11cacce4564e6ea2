SPECIFICATION FairSpec
CONSTANTS
    Platforms = {linux, windows386, windowsAmd64}
    Windows = {windows386, windowsAmd64}
    Cmds = {reverse_exporter}
    Env = {0, 2, 3}
INVARIANTS
    ArchiveComplete
    ErrorsReported
    NothingRuns
    EnoughConcurrency
    OnlyStarvation
PROPERTIES
    EndsOrStarves
    StarvedForever
CHECK_DEADLOCK FALSE
