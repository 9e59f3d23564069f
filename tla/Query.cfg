SPECIFICATION Spec
CONSTANTS
    Clients = {c1, c2}
    Ids <- FourIds
    Rows <- FourRows
    Dist <- DotDist
    TextHits <- Matches
    Corpora <- FourCorpora
    Configs <- SomeConfigs
    RequestSet <- SomeRequests
    BadTeam = 99
    None = None
    MaxK = 4
    Unit = 12
    NoFilter = NoFilter
    NoPayload = NoPayload
INVARIANTS
    TypeOK
    OwnAnswers
    RankedAnswers
    FilterHonoured
CHECK_DEADLOCK FALSE
