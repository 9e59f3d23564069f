SPECIFICATION Spec
CONSTANTS
    c1 = c1
    i1 = i1
    v1 = v1
    v2 = v2
    p1 = p1
    b1 = b1
    Collections <- MCCollections
    Ids <- MCIds
    Vecs <- MCVecs
    Payloads <- MCPayloads
    Bindings <- MCBindings
    BadVec = BadVec
    NoPayload = NoPayload
    NoBinding = NoBinding
    Absent = Absent
    NoRow = NoRow
    Ops <- FewKinds
    MaxBatch = 2
    CheckpointEveryEntries = 2
    CheckpointEveryBytes = 3
    AppendMayFail = TRUE
    TearMayHappen = TRUE
    MaxLsn = 3
    MaxLog = 3
INVARIANTS
    TypeOK
    DurableRecovery
PROPERTIES
    SnapshotAdvances
