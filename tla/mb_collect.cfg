CONSTANTS
    Letters = {1, 2}
    Good = {2}
    Collectors = {c1, c2}
    Files = {f1, f2, f3, f4}
    MaxFetched = 1
    MaxAttempts = 2
    None = None
    c1 = c1
    c2 = c2
    f1 = f1
    f2 = f2
    f3 = f3
    f4 = f4
SPECIFICATION MCFairSpec
INVARIANTS
    LetterKeepsItsFile
    NoFileIsLeft
PROPERTIES
    EveryLetterIsReceived
