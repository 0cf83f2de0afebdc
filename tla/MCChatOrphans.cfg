CONSTANTS
    infy = infy
    sbin = sbin
    ask = ask
    followUp = followUp
    ranking = ranking
    help = help
    t1 = t1
    t2 = t2
    c1 = c1
    Turns = {t1, t2}
    Convs = {c1}
    Companies = {infy}
    Texts = {ask, followUp}
    Rankings = {}
    Commands = {}
    CompanyIn <- MCCompanyIn
    ToolCalls <- SqlCall
    MaxToolIterations = 1
    Serial = FALSE
    Faults = {}
    NoCompany = NoCompany
    NoRun = NoRun
    NoTurn = NoTurn
    NoReport = NoReport
SPECIFICATION Spec
INVARIANTS
    ToolRepliesFollowCalls
SYMMETRY Symmetry
CHECK_DEADLOCK FALSE
