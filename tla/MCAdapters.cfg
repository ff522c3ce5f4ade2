SPECIFICATION Spec
CONSTANTS
    t1 = t1
    t2 = t2
    openai = openai
    anthropic = anthropic
    fast = fast
    smart = smart
    planner = planner
    Tasks <- TwoTasks
    Adapters <- TwoAdapters
    Default <- openai
    Names <- TwoNames
    Roles <- OneRole
    MaxClients = 2
SYMMETRY TasksAlike
INVARIANTS
    AdaptersTypeOK
    ClosedClientIsClosing
    LeaksNeedOverlap
PROPERTIES
    CloseAllClosesAll
