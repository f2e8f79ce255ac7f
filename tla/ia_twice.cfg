CONSTANTS
    s1 = s1
    s2 = s2
    a = a
    m = m
    n = n
    Sessions = {s1}
    Files <- TwoRows
    Emails = {a}
    Names = {m, n}
    Neighbours = {}
    Newcomers = {q1, q2}
    p1 = p1
    q1 = q1
    q2 = q2
    Workers = {w1, w2}
    w1 = w1
    w2 = w2
    Jobs = {j1}
    j1 = j1
    Retries = 1
    None = None
SPECIFICATION Spec
INVARIANTS
    TheOtherFindsTheCursorMoved
CHECK_DEADLOCK FALSE
