CONSTANTS
    infy = infy
    sbin = sbin
    ask = ask
    followUp = followUp
    ranking = ranking
    help = help
    t1 = t1
    t2 = t2
    c1 = c1
    c2 = c2
    Turns = {t1, t2}
    Convs = {c1, c2}
    Companies = {infy}
    Texts = {followUp, ranking}
    Rankings = {ranking}
    Commands = {}
    CompanyIn <- MCCompanyIn
    ToolCalls <- BothCalls
    MaxToolIterations = 2
    Serial = FALSE
    Faults = {"llm", "disconnect"}
    NoCompany = NoCompany
    NoRun = NoRun
    NoTurn = NoTurn
    NoReport = NoReport
SPECIFICATION Spec
INVARIANTS
    CallsAnswered
    StashStaysInThread
    RunsFiledOnce
SYMMETRY Symmetry
CHECK_DEADLOCK FALSE
