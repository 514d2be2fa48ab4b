SPECIFICATION FairSpec
CONSTANTS
    SeqIds = {1}
    NumBlocks = 2
    BlockSize = 2
    MaxBatchSize = 1
    Token = {t}
    PromptLengths = {1, 3}
    Prompts <- MCPrompts
    MaxNews = {4}
PROPERTY NeverStuck
