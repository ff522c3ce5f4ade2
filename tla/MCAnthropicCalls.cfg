SPECIFICATION Spec
CONSTANTS
    r1 = r1
    r2 = r2
    NoRun = NoRun
    Runs <- TwoRuns
    MaxToolIterations = 5
    ApiBatches <- AnthropicBatches
    EmbeddedBatches <- PromptedBatches
INVARIANT CallsNormalised
CHECK_DEADLOCK FALSE
