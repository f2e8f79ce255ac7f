SPECIFICATION Spec
CONSTANTS
    s1 = s1
    s2 = s2
    s3 = s3
    Sends = {s1, s2}
    Statements = {m1}
    Days = {d1}
    AnsweredDays = {d1, elsewhen}
    Deadline = 1
    Ttl = 3
    TimerLag = 1
    MaxClock = 4
    None = None
SYMMETRY MCSymmetry
INVARIANTS
    ClaimCoversTheWire
    DisclosedBeforehand
PROPERTIES
    NotSentAgain
CHECK_DEADLOCK FALSE
