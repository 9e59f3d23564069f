SPECIFICATION Spec
CONSTANTS
    Ids = {1, 2, 3}
    Vecs = {0, 4, 12}
    NoVec = NoVec
    NList = 2
    Sq8Levels = 2
    Unit = 4
    MaxKmeansIter = 25
    NoQuantizer = NoQuantizer
    MaxCompactions = 1
    Kinds <- ThreeKinds
INVARIANTS
    TypeOK
    PostingsAgree
    FullProbeExact
    FindsItself
    Sq8Nearest
PROPERTIES
    TablesKept
