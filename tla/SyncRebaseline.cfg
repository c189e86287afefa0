SPECIFICATION Spec
CONSTANTS
    abc = abc
    def = def
    b1 = b1
    b2 = b2
    NoRecord = NoRecord
    Husk = Husk
    NoMark = NoMark
    Bodies = {b1}
    NumEvse = 2
    PageSize = 1
    Operators = {abc}
    Owner <- OneOwner
    Storage = "database"
    Guard = 1
    MaxDeltaAge = 2
    MayForce = TRUE
    MaxFailures = 1
    MaxPushes = 2
    StartTime = 0
    MaxTime = 2
    MaxSkew = 0
    Retention = 2
    ClockMoves = FALSE
    QuietFullCrawls = TRUE
    FullLoadsWithdraw = FALSE
INVARIANT NothingLost
 
