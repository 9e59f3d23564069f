SPECIFICATION Spec
CONSTANTS
    c1 = c1
    i1 = i1
    v1 = v1
    v2 = v2
    p1 = p1
    b1 = b1
    Collections <- MCCollections
    Ids <- MCIds
    Vecs <- MCVecs
    Payloads <- MCPayloads
    Bindings <- MCBindings
    BadVec = BadVec
    NoPayload = NoPayload
    NoBinding = NoBinding
    Absent = Absent
    NoRow = NoRow
    Ops <- FewKinds
    MaxBatch = 1
    CheckpointEveryEntries = 0
    CheckpointEveryBytes = 0
    AppendMayFail = FALSE
    TearMayHappen = TRUE
    MaxLsn = 3
    MaxLog = 4
INVARIANTS
    DurableAlways
