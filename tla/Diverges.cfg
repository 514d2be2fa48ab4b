SPECIFICATION PairSpec
CONSTANTS
    Vocab = 10
    Token <- MCToken
    Eos = 0
    DraftEos = 0
    Lookahead = 2
    Prompts <- MCPrompts
    MaxNews = {2}
    Hashes = {1, 2, 4}
CHECK_DEADLOCK FALSE
INVARIANT IdenticalToTarget
