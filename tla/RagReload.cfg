SPECIFICATION FairSpec
CONSTANTS
    Calls = {c1}
    MaxRetries = 2
    MaxReloads = 2
    TopK = 2
    Token <- MCToken
    FaultCode <- MCFaultCode
    CodeShaped <- MCCodeShaped
    Within <- MCWithin
    Prefix <- MCPrefix
    Query <- MCQuery
    Words <- MCWords
    Chunk <- LoadChunk
    Sim <- LoadSim
    Mentions <- LoadMentions
    Quotes <- LoadQuotes
    Corpus <- LoadCorpus
    NoCode = NoCode
    NoQuery = NoQuery
    NoChunk = NoChunk
    Scale = 20
    ExactBoost = 3
    PartialBoost = 1
    Threshold = 14
CHECK_DEADLOCK FALSE
INVARIANTS
    RInv
    CoveredCodeNeverDeclined
    CertifiedMatchAnswered
PROPERTIES
    ImplementsContract
    ImplementsRetry
    EveryStepCounts
    CallsReturn
