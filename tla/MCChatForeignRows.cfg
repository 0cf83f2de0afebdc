CONSTANTS
    infy = infy
    sbin = sbin
    ask = ask
    followUp = followUp
    ranking = ranking
    help = help
    t1 = t1
    t2 = t2
    t3 = t3
    c1 = c1
    c2 = c2
    Turns = {t1, t2, t3}
    Convs = {c1, c2}
    Companies = {infy, sbin}
    Texts = {ask, followUp}
    Rankings = {}
    Commands = {}
    CompanyIn <- MCCompanyIn
    ToolCalls <- SqlCall
    MaxToolIterations = 2
    Serial = TRUE
    Faults = {"llm"}
    NoCompany = NoCompany
    NoRun = NoRun
    NoTurn = NoTurn
    NoReport = NoReport
SPECIFICATION Spec
INVARIANTS
    SelfContainedReplaysFit
SYMMETRY Symmetry
CHECK_DEADLOCK FALSE
