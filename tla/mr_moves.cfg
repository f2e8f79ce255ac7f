SPECIFICATION Spec
CONSTANTS
    p = p
    q = q
    a = a
    b = b
    r1 = r1
    r2 = r2
    r3 = r3
    m1 = m1
    m2 = m2
    None = None
    Persons = {p, q}
    Apartments = {a, b}
    Ids = {r1, r2, r3}
    Days = {1, 2, 3, 4}
    Moves = {m1, m2}
    Arrivals <- MCArrivals
    Departures <- MCDepartures
    Files <- MCFiles
SYMMETRY MCSymmetry
INVARIANTS
    RegisterTellsMembership
    NoDayHeldTwice
PROPERTIES
    ADeedIsTrue
    ReconciledOnce
CHECK_DEADLOCK FALSE
