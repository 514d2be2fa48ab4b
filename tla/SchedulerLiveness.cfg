SPECIFICATION FairSpec
CONSTANTS
    SeqIds = {1, 2, 3}
    NumBlocks = 3
    BlockSize = 2
    MaxBatchSize = 2
    Token = {t}
    PromptLengths = {1, 3}
    Prompts <- MCPrompts
    MaxNews = {0, 2, 4}
PROPERTY EveryRequestFinishes
