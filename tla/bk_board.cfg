SPECIFICATION Spec
CONSTANTS
    DayLength = 2
    WeekLength = 2
    MaxNights = 2
    None = None
    c1 = c1
    c2 = c2
    c3 = c3
    r1 = r1
    p1 = p1
    p2 = p2
    p3 = p3
    a1 = a1
    a2 = a2
    Claims = {c1, c2}
    Edits = {e1, e2}
    Cancels = {}
    Resources = {r1}
    Requests <- BoardRequests
    Configs <- BoardConfigs
    Residencies <- MCHomes
    MoveOutDays = {1}
    Zone <- MCZone
    Retention = 1
    MaxClock = 4
SYMMETRY MCSymmetry
INVARIANTS
    TypeOK
    BookingsAreOnTheGrid
    NoWaitCycle
PROPERTIES
    NoneMadeAfterWithdrawal
CHECK_DEADLOCK FALSE
