SPECIFICATION FairSpec
CONSTANTS
    cpo = cpo
    blue = blue
    green = green
    NumEvse = 2
    Bodies = {blue, green}
    NoRecord = NoRecord
    Husk = Husk
    PageSize = 1
    Operators = {cpo}
    Owner <- OneOwner
    FullLoadsWithdraw = TRUE
    Retention = 1
    MaxPushes = 100
    StartTime = 0
    MaxTime = 0
    Cpo = cpo
    Habits = {"repeat", "rebaseline"}
    Late = FALSE
    MaxChanges = 4
    MaxFailures = 2
INVARIANTS TypeOK InStep DeletesLast
PROPERTIES NeverBlinks EventuallyInStep
CHECK_DEADLOCK FALSE
