SPECIFICATION Spec
CONSTANTS
    A = A
    None = None
    NoValue = NoValue
    NoName = NoName
    NoQuestion = NoQuestion
    NewPage = NewPage
    NotYet = NotYet
    \* Catalog
    Companies <- MCCompanies
    Tags <- MCTags
    Mappings <- MCMappings
    Searches <- MCSearches
    Limits <- MCLimits
    DefaultLimit = 3
    MaxLimit = 4
    \* Migration
    Files = {1, 2, 3, 4, 5}
    QuestionIn <- MCQuestionIn
    KeyOf <- MCKeyOf
    MaxRuns = 3
    \* Slots
    Values = {A}
    Messages <- MCMessages
    Decisions <- MCDecisions
    \* Analysis
    Conversations = {c1}
    OwnerOf <- MCOwnerOf
    Queries <- MCQueries
    AllowedTables = {"filings"}
    Results <- MCResults
    Charts <- MCCharts
    MaxRows = 4
    MaxCsv = 2
    \* ModelCalls
    Filters = 1
    Middlewares = 1
    Answers <- MCAnswers
    Json <- MCJson
    \* Browser: enough requests for one to overtake another, two turns
    Texts = {"", "tcs"}
    NoText = ""
    MaxSearches = 3
    MaxTurns = 2
    MaxFrames = 2
    \* Evaluation
    Variants = {1, 2}
    NameOf <- MCNameOf
    TestCases = {1, 2}
    Expected <- MCExpected
    Answered = {{"x"}}
    Evaluators = {"output", "trajectory", "efficiency", "judge", "custom"}
    MaxConcurrency = 2
INVARIANTS
    TypeOK
    SearchIsLiteral
    ImportIsSafe
    GateAsksWhatIsMissing
    KeptIsOfOneRun
    RankingShowsLatest
    CallsArriveWhole
    ListFollowsBox
    FramesHandledWhole
    EvaluationAccounts
PROPERTIES
    EvaluationEnds
CHECK_DEADLOCK FALSE
