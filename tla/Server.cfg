SPECIFICATION FairSpec
CONSTANTS
    c1 = c1
    c2 = c2
    i1 = i1
    i2 = i2
    v1 = v1
    v2 = v2
    p1 = p1
    b1 = b1
    f = f
    g = g
    Collections <- TwoCollections
    Ids <- TwoIds
    Vecs <- TwoVecs
    BadVec = BadVec
    Payloads <- SomePayloads
    NoPayload = NoPayload
    Bindings = {b1}
    NoBinding = NoBinding
    Absent = Absent
    NoRow = NoRow
    Ops = {}
    MaxBatch = 0
    ReaderRows = 2
    Clients = {r1, r2}
    RequestSet <- SomeRequests
    Paths <- TwoPaths
    SeedFiles <- OneForeign
    SeedStore <- OneSeed
    CheckpointEveryEntries = 4
    Nobody = Nobody
    NoFile = NoFile
    NoRequest = NoRequest
    MaxRequests = 3
    MaxLives = 2
    MaxFaults = 1
INVARIANTS
    RestartSame
    CreatorsOptions
    CleanStop
    ImportFaithful
PROPERTIES
    ClientErrorsHarmless
    ShutdownCompletes
CHECK_DEADLOCK FALSE
