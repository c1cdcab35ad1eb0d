SPECIFICATION Spec
CONSTANTS
    Sites <- MCSites
    MaxSitemaps = 3
    MaxFailures = 2
INVARIANTS
    DisallowedNotScanned
    SpecWins
    PagesWithinDepth
    CapKeepsTheFirst
PROPERTY
    CrawlEnds
CHECK_DEADLOCK FALSE
