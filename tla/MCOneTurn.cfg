SPECIFICATION TuiFairSpec
CONSTANTS
    t1 = t1
    t2 = t2
    NoRun = NoRun
    Runs <- TwoTasks
    MaxToolIterations = 2
    ApiBatches <- OneCall
    EmbeddedBatches <- NoneInside
INVARIANT TurnInOwnSession
