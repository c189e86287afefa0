SPECIFICATION Spec
CONSTANTS
    p1 = p1
    p2 = p2
    emp1 = emp1
    emp2 = emp2
    card = card
    contract = contract
    start = start
    stop = stop
    thief = thief
    other = other
    cdr = cdr
    again = again
    remote = remote
    notify = notify
    Unnamed = Unnamed
    Points = {p1}
    Media <- SomeMedia
    Emps = {emp1, emp2}
    FirstEmp = emp2
    Authorizes <- AllAuthorize
    Requests <- AllRequests
    Calls = {start}
    Op <- OpOf
    MaxRetries = 1
    RetryNonIdempotent = FALSE
    GatewaySays = {}
    At <- AtPoint
    With <- WithMedium
    Follows <- FollowStart
    Stories <- OneStart
INVARIANT StartsOnce
CHECK_DEADLOCK FALSE
