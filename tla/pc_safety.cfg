CONSTANTS
    Changes = {c1}
    Persons = {p1, p2}
    Requests = {r1, r2}
    Lifetime = 2
    BatchSize = 1
    MaxClock = 3
    MaxCrashes = 1
    None = None
    c1 = c1
    p1 = p1
    p2 = p2
    r1 = r1
    r2 = r2
SPECIFICATION FairSpec
INVARIANTS
    AtMostOnce
    SpentNeverWaits
    RejectedNeverRuns
PROPERTIES
    HoldKeepsRows
    HeldCallSpec
    HeldRowsGo
