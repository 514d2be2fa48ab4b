SPECIFICATION FairSpec
CONSTANTS
    SeqIds = {1, 2}
    NumBlocks = 2
    BlockSize = 2
    MaxBatchSize = 2
    Token = {t}
    PromptLengths = {1, 7}
    Prompts <- MCPrompts
    MaxNews = {1}
PROPERTY OversizedStarvesNobody
