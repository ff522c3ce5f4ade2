SPECIFICATION FairSpec
CONSTANTS
    r1 = r1
    r2 = r2
    NoRun = NoRun
    Runs <- TwoRuns
    MaxToolIterations = 5
    ApiBatches <- OpenAIBatches
    EmbeddedBatches <- EmbeddedForms
INVARIANTS
    OrchTypeOK
    AnswerOwesNothing
    GivesUpOnlyWhenStuck
    TurnRecordedOnce
PROPERTIES
    RunEnds
\* All runs may be done: the object then waits for the next task.
CHECK_DEADLOCK FALSE
