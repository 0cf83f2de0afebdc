CONSTANTS
    t1 = t1
    t2 = t2
    t3 = t3
    q1 = q1
    Turns = {t1, t2, t3}
    Questions = {q1}
    FactCounts = {0, 1}
    MaxCommits = 2
    NoTurn = NoTurn
    NoVersion = NoVersion
    NoEntry = NoEntry
SPECIFICATION FairSpec
PROPERTIES
    TurnsEnd
CHECK_DEADLOCK FALSE
