CONSTANTS
    t1 = t1
    t2 = t2
    q1 = q1
    Turns = {t1, t2}
    Questions = {q1}
    FactCounts = {0, 1}
    MaxCommits = 2
    NoTurn = NoTurn
    NoVersion = NoVersion
    NoEntry = NoEntry
SPECIFICATION Spec
INVARIANTS
    ReplayedRowsAreCurrent
CHECK_DEADLOCK FALSE
