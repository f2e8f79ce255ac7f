SPECIFICATION Spec
CONSTANTS
    DayLength = 2
    WeekLength = 2
    MaxNights = 2
    None = None
    c1 = c1
    c2 = c2
    c3 = c3
    r1 = r1
    p1 = p1
    p2 = p2
    p3 = p3
    a1 = a1
    a2 = a2
    Claims = {c1, c2}
    Edits = {}
    Cancels = {k1, k2}
    Resources = {r1}
    Requests <- ClaimRequests
    Configs <- ClaimConfigs
    Residencies <- MCHomes
    MoveOutDays = {}
    Zone <- MCZone
    Retention = 0
    MaxClock = 4
SYMMETRY MCSymmetry
INVARIANTS
    LogTellsTheRow
    NoDoubleBooking
    HeldThroughout
PROPERTIES
    WithinQuotas
CHECK_DEADLOCK FALSE
