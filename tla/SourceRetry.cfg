SPECIFICATION Spec
CONSTANTS
    i1 = i1
    i2 = i2
    t1 = t1
    t2 = t2
    Ids <- TwoIds
    BadVec = BadVec
    NoVec = NoVec
    Tables <- OneTable
    NoBinding = NoBinding
    Absent = Absent
    NoMark = NoMark
    ClientVec = ClientVec
    Torn = Torn
    Kinds = {"ivf"}
    EveryNRows = 0
    MaxCount = 0
    MaxCommits = 3
    MaxOps = 1
    MaxFaults = 1
INVARIANTS
    TypeOK
    MirrorsSource
SYMMETRY Symmetric
