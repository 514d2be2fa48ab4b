SPECIFICATION Spec
CONSTANTS
    SeqIds = {1, 2}
    NumBlocks = 2
    BlockSize = 2
    MaxBatchSize = 2
    Token = {t}
    PromptLengths = {1, 2}
    Prompts <- MCPrompts
    MaxNews = {1, 2}
INVARIANT RetiredOnNextSchedule
