SPECIFICATION Spec
CONSTANTS
    c1 = c1
    c2 = c2
    i1 = i1
    v1 = v1
    p1 = p1
    Collections <- MCCollections
    Ids <- MCIds
    Vecs <- MCVecs
    BadVec = BadVec
    Payloads <- MCPayloads
    NoPayload = NoPayload
    Bindings = {}
    NoBinding = NoBinding
    Absent = Absent
    NoRow = NoRow
    Ops <- Inserts
    MaxBatch = 2
    MaxBatchEntries = 2
    IndexSnapshots = TRUE
    TruncateMayFail = TRUE
    MaxLsn = 3
    MaxCrashes = 1
INVARIANTS
    TypeOK
    WatermarkHonest
    RowsKept
    DurableUnlessCut
