SPECIFICATION FairSpec
CONSTANTS
    i1 = i1
    i2 = i2
    v1 = v1
    v2 = v2
    w1 = w1
    Ids <- TwoIds
    Vecs <- TwoVecs
    NoVec = NoVec
    Levels = {0, 1}
    Workers <- OneWorker
    NoCollection = NoCollection
    NoJournal = NoJournal
    Nobody = Nobody
    TombNum = 1
    TombDen = 4
    MaxBatch = 2
    MaxNodes = 3
    MaxJournal = 2
INVARIANTS
    TypeOK
    IndexServesRows
    LiveRowsReachable
PROPERTIES
    JournalCloses
