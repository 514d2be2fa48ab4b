SPECIFICATION ServerSpec
CONSTANTS
    NumBytes = 4
    Following <- MCFollowing
    Continuation <- MCContinuation
    Replacement = Replacement
    Vocab = 6
    Token <- MCToken
    Eos = 0
    SeqIds = {1}
    NumBlocks = 3
    BlockSize = 2
    MaxBatchSize = 1
    Texts <- MCTexts
    Prompts <- MCPrompts
    MaxNews = {2}
    MaxIterations = 1
    Hashes = {2, 3}
    MaxRequests = 1
CHECK_DEADLOCK FALSE
INVARIANT StreamReassembles
