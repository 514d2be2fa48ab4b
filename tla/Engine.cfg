SPECIFICATION FairEngineSpec
CONSTANTS
    SeqIds = {1, 2, 3}
    NumBlocks = 2
    BlockSize = 2
    MaxBatchSize = 3
    Token = {a, eos}
    Eos = eos
    PromptLengths = {1, 2}
    Prompts <- MCPrompts
    MaxNews = {0, 2, 3}
    MaxIterations = 12
CHECK_DEADLOCK FALSE
INVARIANTS
    EngineTypeOK
    IterationsBounded
PROPERTIES
    ImplementsGreedyDecode
    RunFinishes
