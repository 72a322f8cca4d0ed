SPECIFICATION Spec
CONSTANTS
    Calls = {c1}
    MaxRetries = 1
    MaxReloads = 0
    TopK = 3
    Token <- MCToken
    FaultCode <- MCFaultCode
    CodeShaped <- MCCodeShaped
    Within <- MCWithin
    Prefix <- MCPrefix
    Query <- MCQuery
    Words <- MCWords
    Chunk <- RankChunk
    Sim <- RankSim
    Mentions <- RankMentions
    Quotes <- RankQuotes
    Corpus <- RankCorpus
    NoCode = NoCode
    NoQuery = NoQuery
    NoChunk = NoChunk
    Scale = 20
    ExactBoost = 3
    PartialBoost = 1
    Threshold = 14
CHECK_DEADLOCK FALSE
INVARIANTS
    NamedCodeOutranks
