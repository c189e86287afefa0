SPECIFICATION Spec
CONSTANTS
    e1 = e1
    e2 = e2
    abc = abc
    def = def
    Calls = {1, 2, 3}
    Op <- OpOf
    MaxRetries = 1
    RetryNonIdempotent = FALSE
    GatewaySays = {}
    Evse = {e1, e2}
    Operators = {abc, def}
    Owner <- AllOfAbc
    Statuses = {"Available", "Occupied"}
    Batches <- OneOrBoth
    FirstLive = {e1}
    FirstStatus = "Occupied"
    Pusher <- AbcPushes
    Questions <- EveryShape
    Late = FALSE
    MaxChanges = 1
    MaxMoves = 1
INVARIANTS TypeOK StatusIsFresh 
CHECK_DEADLOCK FALSE
