SPECIFICATION Spec
CONSTANTS
    p1 = p1
    p2 = p2
    one = one
    two = two
    tmp1 = tmp1
    tmp2 = tmp2
    NoFile = NoFile
    Processes = {p1, p2}
    Names = {one, two, tmp1, tmp2}
    PathOf <- TwoPaths
    TmpOf <- TwoTmps
    ReadsFail = FALSE
    Chunks = 2
    MaxChanges = 2
INVARIANTS TypeOK NeverTorn CleanIsStored
PROPERTIES KeepsStore
