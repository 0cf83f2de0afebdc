CONSTANTS
    infy = infy
    sbin = sbin
    ask = ask
    followUp = followUp
    ranking = ranking
    help = help
    t1 = t1
    t2 = t2
    c1 = c1
    Turns = {t1, t2}
    Convs = {c1}
    Companies = {infy}
    Texts = {followUp, ranking, help}
    Rankings = {ranking}
    Commands = {help}
    CompanyIn <- MCCompanyIn
    ToolCalls <- SqlCall
    MaxToolIterations = 1
    Serial = TRUE
    Faults = {"disk", "restart", "llm"}
    NoCompany = NoCompany
    NoRun = NoRun
    NoTurn = NoTurn
    NoReport = NoReport
SPECIFICATION FairSpec
INVARIANTS
    TypeOK
    ToolRepliesFollowCalls
    FinishedTurnsKept
PROPERTIES
    TurnsEnd
CHECK_DEADLOCK FALSE
