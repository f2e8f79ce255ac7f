CONSTANTS
    p1 = p1
    p2 = p2
    Persons = {p1, p2}
    Dates = {1, 2}
    Schedules <- MCSchedules
    HoursPerDay = 2
    Capacities = {1, 2}
    Last = 2
    None = None
SPECIFICATION Spec
SYMMETRY Symmetry
INVARIANTS
    TypeOK
PROPERTIES
    AClaimTakesAFreePlace
    NobodyIsMoved
