CONSTANTS
    admin = admin
    user = user
    call1 = call1
    Questions = {1, 2}
    Similarity <- MCSimilarity
    Threshold = 7
    MaxItems = 2
    NoTool = NoTool
    Users = {admin, user}
    GroupsOf <- MCGroupsOf
    Tools <- MCTools
    Wirings <- MCWirings
    AccessChoices <- MCAccess
    Calls = {call1}
    Audited = {"access", "invocation", "result"}
    Faults = {"audit", "tool"}
    ContextLimit = 1
    SearchLimit = 1
    ListLimit = 1
    MaxIssued = 3
    NoCall = NoCall
SPECIFICATION Spec
INVARIANTS
    TypeOK
    KeepsNewest
    TrailTellsEffects
    PagesKeepTheirWord
    OfferedToolsRun
PROPERTIES
    OnlyAdminsForget
CHECK_DEADLOCK FALSE
