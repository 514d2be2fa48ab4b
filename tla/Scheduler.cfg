SPECIFICATION Spec
CONSTANTS
    SeqIds = {1, 2, 3}
    NumBlocks = 3
    BlockSize = 2
    MaxBatchSize = 3
    Token = {t}
    PromptLengths = {0, 2, 3, 7}
    Prompts <- MCPrompts
    MaxNews = {0, 1, 4}
INVARIANTS
    TypeOK
    NoRequestLost
    OnlyBatchHoldsBlocks
    CacheMatchesContext
    CommitNeverFails
    DecodeBatchIsRunning
    ProgressOrder
    StepMakesProgress
