CONSTANTS
    Persons = {p1}
    Channels = {email}
    Email = email
    Runs = {w1, w2}
    Slots = {s1, s2}
    Retries = 1
    None = None
    p1 = p1
    email = email
    w1 = w1
    w2 = w2
    s1 = s1
    s2 = s2
SPECIFICATION FairSpec
INVARIANTS
    ObjectionStops
    ReportIsTrue
    NoCopyIsStranded
    AppsMailNobody
PROPERTIES
    HeldCopySpec
    EveryCopySettles
CHECK_DEADLOCK FALSE
