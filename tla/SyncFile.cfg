SPECIFICATION FairSpec
CONSTANTS
    abc = abc
    def = def
    b1 = b1
    b2 = b2
    NoRecord = NoRecord
    Husk = Husk
    NoMark = NoMark
    Bodies = {b1}
    NumEvse = 2
    PageSize = 1
    Operators = {abc, def}
    Owner <- TwoOwners
    Storage = "file"
    Guard = 2
    MaxDeltaAge = 3
    MayForce = TRUE
    MaxFailures = 1
    MaxPushes = 2
    StartTime = 0
    MaxTime = 5
    MaxSkew = 1
    Retention = 4
    ClockMoves = TRUE
    QuietFullCrawls = TRUE
    FullLoadsWithdraw = FALSE
INVARIANTS TypeOK NothingLost CrawlIsSnapshot
PROPERTIES Converges
