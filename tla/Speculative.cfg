SPECIFICATION FairSpec
CONSTANTS
    Token = {a, b, eos}
    Eos = eos
    DraftEos = b
    Lookahead = 2
    PromptLengths = {1}
    Prompts <- MCPrompts
    MaxNews = {0, 1, 4}
CHECK_DEADLOCK FALSE
INVARIANTS
    TypeOK
    EveryTokenFitsItsPrefix
    RoundEndsWithTarget
    CutExactly
    DraftsArePaidFor
PROPERTIES
    ImplementsTargetDecode
    GenerateReturns
