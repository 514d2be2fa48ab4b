SPECIFICATION FairServerSpec
CONSTANTS
    NumBytes = 4
    Following <- MCFollowing
    Continuation <- MCContinuation
    Replacement = Replacement
    Vocab = 6
    Token <- MCToken
    Eos = 0
    SeqIds = {1}
    NumBlocks = 3
    BlockSize = 2
    MaxBatchSize = 1
    Texts <- MCTexts
    Prompts <- MCPrompts
    MaxNews = {0, 1, 3}
    MaxIterations = 1
    Hashes = {0, 2, 3, 5}
    MaxRequests = 2
CHECK_DEADLOCK FALSE
INVARIANTS
    ServerTypeOK
    PromptRoundTrips
    AnswersAgree
    ShortPromptsGoOn
PROPERTIES
    ImplementsCompletionService
    EveryRequestIsAnswered
