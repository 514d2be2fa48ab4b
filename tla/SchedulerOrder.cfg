SPECIFICATION SpecAscending
CONSTANTS
    SeqIds = {1, 2, 3, 4}
    NumBlocks = 3
    BlockSize = 1
    MaxBatchSize = 3
    Token = {t}
    PromptLengths = {1, 2}
    Prompts <- MCPrompts
    MaxNews = {2, 3}
INVARIANT NoOvertaking
PROPERTY PeakIsExactCapacity
