SPECIFICATION FairSpec
CONSTANTS
    i1 = i1
    i2 = i2
    t1 = t1
    t2 = t2
    Ids <- OneId
    BadVec = BadVec
    NoVec = NoVec
    Tables <- TwoTables
    NoBinding = NoBinding
    Absent = Absent
    NoMark = NoMark
    ClientVec = ClientVec
    Torn = Torn
    Kinds = {"ivf"}
    EveryNRows = 2
    MaxCount = 3
    MaxCommits = 2
    MaxOps = 2
    MaxFaults = 1
INVARIANTS
    MirrorsSource
    OwnWatermark
    RetrainingDue
PROPERTIES
    CatchesUp
