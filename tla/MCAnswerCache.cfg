CONSTANTS
    t1 = t1
    t2 = t2
    t3 = t3
    q1 = q1
    q2 = q2
    Turns = {t1, t2, t3}
    Questions = {q1, q2}
    FactCounts = {0, 1}
    MaxCommits = 3
    NoTurn = NoTurn
    NoVersion = NoVersion
    NoEntry = NoEntry
SPECIFICATION Spec
INVARIANTS
    TypeOK
    AuditMatchesCache
    SettledReportsAreCurrent
PROPERTIES
    CondemnedStaysOut
    ImplementsLedger
SYMMETRY Symmetry
CHECK_DEADLOCK FALSE
